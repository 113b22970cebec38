--------------------------- MODULE BlkCheckProofs ---------------------------
(***************************************************************************)
(* Proofs about ./check for any devices, modules, groups, test cases and   *)
(* conditions, whatever requires(), the fallback device and the test       *)
(* bodies do.                                                              *)
(***************************************************************************)
EXTENDS BlkCheck, TLAPS

\* The runner starts with nothing run, nothing loaded and nothing to clean up.
LEMMA InitCInv == Init => CInv
<1> SUFFICES ASSUME Init PROVE CInv
  OBVIOUS
<1>1. NoTest \in Tests
  BY CheckAssumption DEF NoTest, Tests, Kinds
<1>2. own \in BOOLEAN /\ dirty \in BOOLEAN /\ trapped \in BOOLEAN
      /\ casefail \in BOOLEAN /\ owed \in BOOLEAN
  BY DEF Init
<1>3. TypeOK
  BY <1>1, <1>2, CheckAssumption DEF Init, TypeOK
<1>4. LoopsInStep /\ FailCarried /\ SkipScoped /\ CleanOutside /\ UntrappedEnds
      /\ ModulesTracked /\ ReadyToCall
  BY DEF Init, LoopsInStep, FailCarried, SkipScoped, CleanOutside, UntrappedEnds, ModulesTracked,
     ReadyToCall, Calling
<1>. QED
  BY <1>3, <1>4 DEF CInv

\* Every step of the runner keeps the types; the condition counter stays above zero.
LEMMA NextTypeOK == TypeOK /\ LoopsInStep /\ [Next]_vars => TypeOK'
<1> SUFFICES ASSUME TypeOK, LoopsInStep, [Next]_vars PROVE TypeOK'
  OBVIOUS
<1>a. MaxGroups \in Nat /\ MaxTests \in Nat /\ MaxConds \in Nat /\ Fallback \notin Devs
  BY CheckAssumption
<1>c. pc \in {"requires", "array", "devices", "condend"} \cup Calling => cond \in 1 .. MaxConds
  <2>1. cond \in 0 .. MaxConds
    BY DEF TypeOK
  <2>2. pc \in {"requires", "array", "devices", "condend"} \cup Calling => cond >= 1
    BY DEF LoopsInStep
  <2>. QED
    BY <1>a, <2>1, <2>2
<1> DEFINE Pairs == (1 .. MaxConds) \X (Devs \cup {Fallback, Array, All})
<1>d. \A c \in 1 .. MaxConds, d \in Devs \cup {Fallback, Array, All} : <<c, d>> \in Pairs
  OBVIOUS
<1>e. skip \subseteq Pairs
  BY DEF TypeOK
<1> HIDE DEF Pairs
<1> USE <1>a DEF TypeOK, Calling, levels, case, mods, env, fails, Goto
<1>0. CASE UNCHANGED vars
  <2>1. /\ pc' \in {"group", "test", "requires", "array", "devices", "call", "body", "judge",
                     "after", "condend", "testend", "done"}
        /\ groups' \in 0 .. MaxGroups /\ left' \in 0 .. MaxTests
        /\ {gret', cret', ret', rc', drc'} \subseteq {0, 1}
        /\ test' \in Tests /\ cond' \in 0 .. MaxConds
    BY <1>0, <1>c DEF vars
  <2>2. /\ devs' \subseteq Devs /\ todo' \subseteq Devs \cup {Fallback}
        /\ cur' \in Devs \cup {Fallback, Array, All}
    BY <1>0 DEF vars
  <2>3. own' \in BOOLEAN /\ dirty' \in BOOLEAN /\ trapped' \in BOOLEAN
        /\ casefail' \in BOOLEAN /\ owed' \in BOOLEAN
    BY <1>0 DEF vars
  <2>4. /\ unload' \subseteq Mods /\ loaded' \subseteq Mods /\ mine' \subseteq Mods
        /\ stuck' \subseteq Mods
    BY <1>0 DEF vars
  <2>5. skip' \subseteq Pairs
    BY <1>0, <1>c, <1>d, <1>e DEF vars
  <2>6. /\ status' \in {"none", "pass", "fail", "not run"} /\ reg' \in {"none", "pending", "ran"}
        /\ failed' \subseteq Kinds /\ how' \in {"normal", "no call", "aborted", "untrapped"}
    BY <1>0 DEF vars
  <2>. QED
    BY <2>1, <2>2, <2>3, <2>4, <2>5, <2>6 DEF Pairs
<1>1. CASE GroupStarts
  <2>1. /\ pc' \in {"group", "test", "requires", "array", "devices", "call", "body", "judge",
                     "after", "condend", "testend", "done"}
        /\ groups' \in 0 .. MaxGroups /\ left' \in 0 .. MaxTests
        /\ {gret', cret', ret', rc', drc'} \subseteq {0, 1}
        /\ test' \in Tests /\ cond' \in 0 .. MaxConds
    <3>1. groups' \in 0 .. MaxGroups
      <4>1. groups \in 0 .. MaxGroups /\ groups > 0 /\ groups' = groups - 1
        BY <1>1 DEF GroupStarts
      <4>. QED
        BY ONLY <4>1, <1>a
    <3>2. left' \in 0 .. MaxTests
      <4>1. left' = 0 \/ left' \in 1 .. MaxTests
        BY <1>1 DEF GroupStarts
      <4>. QED
        BY ONLY <4>1, <1>a
    <3>3. pc' = "test" /\ gret' = 0 /\ UNCHANGED <<cret, ret, rc, drc, test, cond>>
      BY <1>1 DEF GroupStarts
    <3>. QED
      BY <3>1, <3>2, <3>3
  <2>2. /\ devs' \subseteq Devs /\ todo' \subseteq Devs \cup {Fallback}
        /\ cur' \in Devs \cup {Fallback, Array, All}
    BY <1>1 DEF GroupStarts
  <2>3. own' \in BOOLEAN /\ dirty' \in BOOLEAN /\ trapped' \in BOOLEAN
        /\ casefail' \in BOOLEAN /\ owed' \in BOOLEAN
    BY <1>1 DEF GroupStarts
  <2>4. /\ unload' \subseteq Mods /\ loaded' \subseteq Mods /\ mine' \subseteq Mods
        /\ stuck' \subseteq Mods
    BY <1>1 DEF GroupStarts
  <2>5. skip' \subseteq Pairs
    BY <1>1, <1>c, <1>d, <1>e DEF GroupStarts
  <2>6. /\ status' \in {"none", "pass", "fail", "not run"} /\ reg' \in {"none", "pending", "ran"}
        /\ failed' \subseteq Kinds /\ how' \in {"normal", "no call", "aborted", "untrapped"}
    BY <1>1 DEF GroupStarts
  <2>. QED
    BY <2>1, <2>2, <2>3, <2>4, <2>5, <2>6 DEF Pairs
<1>2. CASE GroupEnds
  <2>1. /\ pc' \in {"group", "test", "requires", "array", "devices", "call", "body", "judge",
                     "after", "condend", "testend", "done"}
        /\ groups' \in 0 .. MaxGroups /\ left' \in 0 .. MaxTests
        /\ {gret', cret', ret', rc', drc'} \subseteq {0, 1}
        /\ test' \in Tests /\ cond' \in 0 .. MaxConds
    BY <1>2, <1>c DEF GroupEnds
  <2>2. /\ devs' \subseteq Devs /\ todo' \subseteq Devs \cup {Fallback}
        /\ cur' \in Devs \cup {Fallback, Array, All}
    BY <1>2 DEF GroupEnds
  <2>3. own' \in BOOLEAN /\ dirty' \in BOOLEAN /\ trapped' \in BOOLEAN
        /\ casefail' \in BOOLEAN /\ owed' \in BOOLEAN
    BY <1>2 DEF GroupEnds
  <2>4. /\ unload' \subseteq Mods /\ loaded' \subseteq Mods /\ mine' \subseteq Mods
        /\ stuck' \subseteq Mods
    BY <1>2 DEF GroupEnds
  <2>5. skip' \subseteq Pairs
    BY <1>2, <1>c, <1>d, <1>e DEF GroupEnds
  <2>6. /\ status' \in {"none", "pass", "fail", "not run"} /\ reg' \in {"none", "pending", "ran"}
        /\ failed' \subseteq Kinds /\ how' \in {"normal", "no call", "aborted", "untrapped"}
    BY <1>2 DEF GroupEnds
  <2>. QED
    BY <2>1, <2>2, <2>3, <2>4, <2>5, <2>6 DEF Pairs
<1>3. CASE CheckEnds
  <2>1. /\ pc' \in {"group", "test", "requires", "array", "devices", "call", "body", "judge",
                     "after", "condend", "testend", "done"}
        /\ groups' \in 0 .. MaxGroups /\ left' \in 0 .. MaxTests
        /\ {gret', cret', ret', rc', drc'} \subseteq {0, 1}
        /\ test' \in Tests /\ cond' \in 0 .. MaxConds
    BY <1>3, <1>c DEF CheckEnds
  <2>2. /\ devs' \subseteq Devs /\ todo' \subseteq Devs \cup {Fallback}
        /\ cur' \in Devs \cup {Fallback, Array, All}
    BY <1>3 DEF CheckEnds
  <2>3. own' \in BOOLEAN /\ dirty' \in BOOLEAN /\ trapped' \in BOOLEAN
        /\ casefail' \in BOOLEAN /\ owed' \in BOOLEAN
    BY <1>3 DEF CheckEnds
  <2>4. /\ unload' \subseteq Mods /\ loaded' \subseteq Mods /\ mine' \subseteq Mods
        /\ stuck' \subseteq Mods
    BY <1>3 DEF CheckEnds
  <2>5. skip' \subseteq Pairs
    BY <1>3, <1>c, <1>d, <1>e DEF CheckEnds
  <2>6. /\ status' \in {"none", "pass", "fail", "not run"} /\ reg' \in {"none", "pending", "ran"}
        /\ failed' \subseteq Kinds /\ how' \in {"normal", "no call", "aborted", "untrapped"}
    BY <1>3 DEF CheckEnds
  <2>. QED
    BY <2>1, <2>2, <2>3, <2>4, <2>5, <2>6 DEF Pairs
<1>4. CASE _run_test
  <2>1. /\ pc' \in {"group", "test", "requires", "array", "devices", "call", "body", "judge",
                     "after", "condend", "testend", "done"}
        /\ groups' \in 0 .. MaxGroups /\ left' \in 0 .. MaxTests
        /\ {gret', cret', ret', rc', drc'} \subseteq {0, 1}
        /\ test' \in Tests /\ cond' \in 0 .. MaxConds
    <3>1. test' \in Tests /\ test'.conds \in 0 .. MaxConds /\ cond' = test'.conds
      BY <1>4 DEF _run_test, Tests
    <3>2. left' \in 0 .. MaxTests
      <4>1. left \in 0 .. MaxTests /\ left > 0 /\ left' = left - 1
        BY <1>4 DEF _run_test
      <4>. QED
        BY ONLY <4>1, <1>a
    <3>3. pc' \in {"testend", "requires"} /\ ret' = 0 /\ UNCHANGED <<groups, gret, cret, rc, drc>>
      BY <1>4 DEF _run_test
    <3>. QED
      BY <3>1, <3>2, <3>3
  <2>2. /\ devs' \subseteq Devs /\ todo' \subseteq Devs \cup {Fallback}
        /\ cur' \in Devs \cup {Fallback, Array, All}
    BY <1>4 DEF _run_test
  <2>3. own' \in BOOLEAN /\ dirty' \in BOOLEAN /\ trapped' \in BOOLEAN
        /\ casefail' \in BOOLEAN /\ owed' \in BOOLEAN
    BY <1>4 DEF _run_test
  <2>4. /\ unload' \subseteq Mods /\ loaded' \subseteq Mods /\ mine' \subseteq Mods
        /\ stuck' \subseteq Mods
    BY <1>4 DEF _run_test
  <2>5. skip' \subseteq Pairs
    BY <1>4, <1>c, <1>d, <1>e DEF _run_test
  <2>6. /\ status' \in {"none", "pass", "fail", "not run"} /\ reg' \in {"none", "pending", "ran"}
        /\ failed' \subseteq Kinds /\ how' \in {"normal", "no call", "aborted", "untrapped"}
    BY <1>4 DEF _run_test
  <2>. QED
    BY <2>1, <2>2, <2>3, <2>4, <2>5, <2>6 DEF Pairs
<1>5. CASE Requires
  <2>1. /\ pc' \in {"group", "test", "requires", "array", "devices", "call", "body", "judge",
                     "after", "condend", "testend", "done"}
        /\ groups' \in 0 .. MaxGroups /\ left' \in 0 .. MaxTests
        /\ {gret', cret', ret', rc', drc'} \subseteq {0, 1}
        /\ test' \in Tests /\ cond' \in 0 .. MaxConds
    BY <1>5, <1>c DEF Requires, Load, Reasons
  <2>2. /\ devs' \subseteq Devs /\ todo' \subseteq Devs \cup {Fallback}
        /\ cur' \in Devs \cup {Fallback, Array, All}
    BY <1>5 DEF Requires, Load, Reasons
  <2>3. own' \in BOOLEAN /\ dirty' \in BOOLEAN /\ trapped' \in BOOLEAN
        /\ casefail' \in BOOLEAN /\ owed' \in BOOLEAN
    BY <1>5 DEF Requires, Load, Reasons
  <2>4. /\ unload' \subseteq Mods /\ loaded' \subseteq Mods /\ mine' \subseteq Mods
        /\ stuck' \subseteq Mods
    <3>1. test.needs \subseteq Mods
      BY DEF Tests
    <3>. QED
      BY <1>5, <3>1 DEF Requires, Load
  <2>5. skip' \subseteq Pairs
    <3>1. <<cond, All>> \in Pairs
      BY <1>5, <1>c, <1>d DEF Requires
    <3>2. skip' \subseteq skip \cup {<<cond, All>>}
      BY <1>5 DEF Requires, Reasons
    <3>. QED
      BY <3>1, <3>2, <1>e
  <2>6. /\ status' \in {"none", "pass", "fail", "not run"} /\ reg' \in {"none", "pending", "ran"}
        /\ failed' \subseteq Kinds /\ how' \in {"normal", "no call", "aborted", "untrapped"}
    BY <1>5 DEF Requires, Load, Reasons
  <2>. QED
    BY <2>1, <2>2, <2>3, <2>4, <2>5, <2>6 DEF Pairs
<1>6. CASE DeviceArray
  <2>1. /\ pc' \in {"group", "test", "requires", "array", "devices", "call", "body", "judge",
                     "after", "condend", "testend", "done"}
        /\ groups' \in 0 .. MaxGroups /\ left' \in 0 .. MaxTests
        /\ {gret', cret', ret', rc', drc'} \subseteq {0, 1}
        /\ test' \in Tests /\ cond' \in 0 .. MaxConds
    BY <1>6, <1>c DEF DeviceArray, Reasons
  <2>2. /\ devs' \subseteq Devs /\ todo' \subseteq Devs \cup {Fallback}
        /\ cur' \in Devs \cup {Fallback, Array, All}
    BY <1>6 DEF DeviceArray, Reasons
  <2>3. own' \in BOOLEAN /\ dirty' \in BOOLEAN /\ trapped' \in BOOLEAN
        /\ casefail' \in BOOLEAN /\ owed' \in BOOLEAN
    BY <1>6 DEF DeviceArray, Reasons
  <2>4. /\ unload' \subseteq Mods /\ loaded' \subseteq Mods /\ mine' \subseteq Mods
        /\ stuck' \subseteq Mods
    BY <1>6 DEF DeviceArray, Reasons
  <2>5. skip' \subseteq Pairs
    BY <1>6, <1>c, <1>d, <1>e DEF DeviceArray, Reasons
  <2>6. /\ status' \in {"none", "pass", "fail", "not run"} /\ reg' \in {"none", "pending", "ran"}
        /\ failed' \subseteq Kinds /\ how' \in {"normal", "no call", "aborted", "untrapped"}
    BY <1>6 DEF DeviceArray, Reasons
  <2>. QED
    BY <2>1, <2>2, <2>3, <2>4, <2>5, <2>6 DEF Pairs
<1>7. CASE NextDevice
  <2>1. /\ pc' \in {"group", "test", "requires", "array", "devices", "call", "body", "judge",
                     "after", "condend", "testend", "done"}
        /\ groups' \in 0 .. MaxGroups /\ left' \in 0 .. MaxTests
        /\ {gret', cret', ret', rc', drc'} \subseteq {0, 1}
        /\ test' \in Tests /\ cond' \in 0 .. MaxConds
    BY <1>7, <1>c DEF NextDevice, Reasons
  <2>2. /\ devs' \subseteq Devs /\ todo' \subseteq Devs \cup {Fallback}
        /\ cur' \in Devs \cup {Fallback, Array, All}
    BY <1>7 DEF NextDevice, Reasons
  <2>3. own' \in BOOLEAN /\ dirty' \in BOOLEAN /\ trapped' \in BOOLEAN
        /\ casefail' \in BOOLEAN /\ owed' \in BOOLEAN
    BY <1>7 DEF NextDevice, Reasons
  <2>4. /\ unload' \subseteq Mods /\ loaded' \subseteq Mods /\ mine' \subseteq Mods
        /\ stuck' \subseteq Mods
    BY <1>7 DEF NextDevice, Reasons
  <2>5. skip' \subseteq Pairs
    <3>1. PICK d \in todo : skip' \subseteq skip \cup {<<cond, d>>}
      BY <1>7 DEF NextDevice, Reasons
    <3>2. <<cond, d>> \in Pairs
      BY <1>7, <1>c, <1>d DEF NextDevice
    <3>. QED
      BY <3>1, <3>2, <1>e
  <2>6. /\ status' \in {"none", "pass", "fail", "not run"} /\ reg' \in {"none", "pending", "ran"}
        /\ failed' \subseteq Kinds /\ how' \in {"normal", "no call", "aborted", "untrapped"}
    BY <1>7 DEF NextDevice, Reasons
  <2>. QED
    BY <2>1, <2>2, <2>3, <2>4, <2>5, <2>6 DEF Pairs
<1>8. CASE FallbackFails
  <2>1. /\ pc' \in {"group", "test", "requires", "array", "devices", "call", "body", "judge",
                     "after", "condend", "testend", "done"}
        /\ groups' \in 0 .. MaxGroups /\ left' \in 0 .. MaxTests
        /\ {gret', cret', ret', rc', drc'} \subseteq {0, 1}
        /\ test' \in Tests /\ cond' \in 0 .. MaxConds
    BY <1>8, <1>c DEF FallbackFails, LoadMore, Load
  <2>2. /\ devs' \subseteq Devs /\ todo' \subseteq Devs \cup {Fallback}
        /\ cur' \in Devs \cup {Fallback, Array, All}
    BY <1>8 DEF FallbackFails, LoadMore, Load
  <2>3. own' \in BOOLEAN /\ dirty' \in BOOLEAN /\ trapped' \in BOOLEAN
        /\ casefail' \in BOOLEAN /\ owed' \in BOOLEAN
    BY <1>8 DEF FallbackFails, LoadMore, Load
  <2>4. /\ unload' \subseteq Mods /\ loaded' \subseteq Mods /\ mine' \subseteq Mods
        /\ stuck' \subseteq Mods
    BY <1>8 DEF FallbackFails, LoadMore, Load
  <2>5. skip' \subseteq Pairs
    BY <1>8, <1>c, <1>d, <1>e DEF FallbackFails, LoadMore, Load
  <2>6. /\ status' \in {"none", "pass", "fail", "not run"} /\ reg' \in {"none", "pending", "ran"}
        /\ failed' \subseteq Kinds /\ how' \in {"normal", "no call", "aborted", "untrapped"}
    BY <1>8 DEF FallbackFails, LoadMore, Load
  <2>. QED
    BY <2>1, <2>2, <2>3, <2>4, <2>5, <2>6 DEF Pairs
<1>9. CASE FallbackReady
  <2>1. /\ pc' \in {"group", "test", "requires", "array", "devices", "call", "body", "judge",
                     "after", "condend", "testend", "done"}
        /\ groups' \in 0 .. MaxGroups /\ left' \in 0 .. MaxTests
        /\ {gret', cret', ret', rc', drc'} \subseteq {0, 1}
        /\ test' \in Tests /\ cond' \in 0 .. MaxConds
    BY <1>9, <1>c DEF FallbackReady, LoadMore, Load, Reasons
  <2>2. /\ devs' \subseteq Devs /\ todo' \subseteq Devs \cup {Fallback}
        /\ cur' \in Devs \cup {Fallback, Array, All}
    BY <1>9 DEF FallbackReady, LoadMore, Load, Reasons
  <2>3. own' \in BOOLEAN /\ dirty' \in BOOLEAN /\ trapped' \in BOOLEAN
        /\ casefail' \in BOOLEAN /\ owed' \in BOOLEAN
    BY <1>9 DEF FallbackReady, LoadMore, Load, Reasons
  <2>4. /\ unload' \subseteq Mods /\ loaded' \subseteq Mods /\ mine' \subseteq Mods
        /\ stuck' \subseteq Mods
    BY <1>9 DEF FallbackReady, LoadMore, Load, Reasons
  <2>5. skip' \subseteq Pairs
    BY <1>9, <1>c, <1>d, <1>e DEF FallbackReady, LoadMore, Load, Reasons
  <2>6. /\ status' \in {"none", "pass", "fail", "not run"} /\ reg' \in {"none", "pending", "ran"}
        /\ failed' \subseteq Kinds /\ how' \in {"normal", "no call", "aborted", "untrapped"}
    BY <1>9 DEF FallbackReady, LoadMore, Load, Reasons
  <2>. QED
    BY <2>1, <2>2, <2>3, <2>4, <2>5, <2>6 DEF Pairs
<1>10. CASE DevicesDone
  <2>1. /\ pc' \in {"group", "test", "requires", "array", "devices", "call", "body", "judge",
                     "after", "condend", "testend", "done"}
        /\ groups' \in 0 .. MaxGroups /\ left' \in 0 .. MaxTests
        /\ {gret', cret', ret', rc', drc'} \subseteq {0, 1}
        /\ test' \in Tests /\ cond' \in 0 .. MaxConds
    BY <1>10, <1>c DEF DevicesDone
  <2>2. /\ devs' \subseteq Devs /\ todo' \subseteq Devs \cup {Fallback}
        /\ cur' \in Devs \cup {Fallback, Array, All}
    BY <1>10 DEF DevicesDone
  <2>3. own' \in BOOLEAN /\ dirty' \in BOOLEAN /\ trapped' \in BOOLEAN
        /\ casefail' \in BOOLEAN /\ owed' \in BOOLEAN
    BY <1>10 DEF DevicesDone
  <2>4. /\ unload' \subseteq Mods /\ loaded' \subseteq Mods /\ mine' \subseteq Mods
        /\ stuck' \subseteq Mods
    BY <1>10 DEF DevicesDone
  <2>5. skip' \subseteq Pairs
    BY <1>10, <1>c, <1>d, <1>e DEF DevicesDone
  <2>6. /\ status' \in {"none", "pass", "fail", "not run"} /\ reg' \in {"none", "pending", "ran"}
        /\ failed' \subseteq Kinds /\ how' \in {"normal", "no call", "aborted", "untrapped"}
    BY <1>10 DEF DevicesDone
  <2>. QED
    BY <2>1, <2>2, <2>3, <2>4, <2>5, <2>6 DEF Pairs
<1>11. CASE CallSkipped
  <2>1. /\ pc' \in {"group", "test", "requires", "array", "devices", "call", "body", "judge",
                     "after", "condend", "testend", "done"}
        /\ groups' \in 0 .. MaxGroups /\ left' \in 0 .. MaxTests
        /\ {gret', cret', ret', rc', drc'} \subseteq {0, 1}
        /\ test' \in Tests /\ cond' \in 0 .. MaxConds
    BY <1>11, <1>c DEF CallSkipped
  <2>2. /\ devs' \subseteq Devs /\ todo' \subseteq Devs \cup {Fallback}
        /\ cur' \in Devs \cup {Fallback, Array, All}
    BY <1>11 DEF CallSkipped
  <2>3. own' \in BOOLEAN /\ dirty' \in BOOLEAN /\ trapped' \in BOOLEAN
        /\ casefail' \in BOOLEAN /\ owed' \in BOOLEAN
    BY <1>11 DEF CallSkipped
  <2>4. /\ unload' \subseteq Mods /\ loaded' \subseteq Mods /\ mine' \subseteq Mods
        /\ stuck' \subseteq Mods
    BY <1>11 DEF CallSkipped
  <2>5. skip' \subseteq Pairs
    BY <1>11, <1>c, <1>d, <1>e DEF CallSkipped
  <2>6. /\ status' \in {"none", "pass", "fail", "not run"} /\ reg' \in {"none", "pending", "ran"}
        /\ failed' \subseteq Kinds /\ how' \in {"normal", "no call", "aborted", "untrapped"}
    BY <1>11 DEF CallSkipped
  <2>. QED
    BY <2>1, <2>2, <2>3, <2>4, <2>5, <2>6 DEF Pairs
<1>12. CASE CallNoTmpdir
  BY <1>c, <1>12 DEF CallNoTmpdir
<1>13. CASE CallBody
  BY <1>c, <1>13 DEF CallBody
<1>14. CASE BodyWorks
  <2>1. /\ pc' \in {"group", "test", "requires", "array", "devices", "call", "body", "judge",
                     "after", "condend", "testend", "done"}
        /\ groups' \in 0 .. MaxGroups /\ left' \in 0 .. MaxTests
        /\ {gret', cret', ret', rc', drc'} \subseteq {0, 1}
        /\ test' \in Tests /\ cond' \in 0 .. MaxConds
    BY <1>14, <1>c DEF BodyWorks, LoadMore, Load
  <2>2. /\ devs' \subseteq Devs /\ todo' \subseteq Devs \cup {Fallback}
        /\ cur' \in Devs \cup {Fallback, Array, All}
    BY <1>14 DEF BodyWorks, LoadMore, Load
  <2>3. own' \in BOOLEAN /\ dirty' \in BOOLEAN /\ trapped' \in BOOLEAN
        /\ casefail' \in BOOLEAN /\ owed' \in BOOLEAN
    BY <1>14 DEF BodyWorks, LoadMore, Load
  <2>4. /\ unload' \subseteq Mods /\ loaded' \subseteq Mods /\ mine' \subseteq Mods
        /\ stuck' \subseteq Mods
    BY <1>14 DEF BodyWorks, LoadMore, Load
  <2>5. skip' \subseteq Pairs
    <3>1. <<cond, cur>> \in Pairs
      BY <1>14, <1>c, <1>d DEF BodyWorks
    <3>2. skip' \subseteq skip \cup {<<cond, cur>>}
      BY <1>14 DEF BodyWorks
    <3>. QED
      BY <3>1, <3>2, <1>e
  <2>6. /\ status' \in {"none", "pass", "fail", "not run"} /\ reg' \in {"none", "pending", "ran"}
        /\ failed' \subseteq Kinds /\ how' \in {"normal", "no call", "aborted", "untrapped"}
    BY <1>14 DEF BodyWorks, LoadMore, Load
  <2>. QED
    BY <2>1, <2>2, <2>3, <2>4, <2>5, <2>6 DEF Pairs
<1>15. CASE BodyExits
  <2>1. /\ pc' \in {"group", "test", "requires", "array", "devices", "call", "body", "judge",
                     "after", "condend", "testend", "done"}
        /\ groups' \in 0 .. MaxGroups /\ left' \in 0 .. MaxTests
        /\ {gret', cret', ret', rc', drc'} \subseteq {0, 1}
        /\ test' \in Tests /\ cond' \in 0 .. MaxConds
    BY <1>15, <1>c DEF BodyExits, ExitTrap, _cleanup
  <2>2. /\ devs' \subseteq Devs /\ todo' \subseteq Devs \cup {Fallback}
        /\ cur' \in Devs \cup {Fallback, Array, All}
    BY <1>15 DEF BodyExits, ExitTrap, _cleanup
  <2>3. own' \in BOOLEAN /\ dirty' \in BOOLEAN /\ trapped' \in BOOLEAN
        /\ casefail' \in BOOLEAN /\ owed' \in BOOLEAN
    BY <1>15 DEF BodyExits, ExitTrap, _cleanup
  <2>4. /\ unload' \subseteq Mods /\ loaded' \subseteq Mods /\ mine' \subseteq Mods
        /\ stuck' \subseteq Mods
    BY <1>15 DEF BodyExits, ExitTrap, _cleanup
  <2>5. skip' \subseteq Pairs
    BY <1>15, <1>c, <1>d, <1>e DEF BodyExits, ExitTrap, _cleanup
  <2>6. /\ status' \in {"none", "pass", "fail", "not run"} /\ reg' \in {"none", "pending", "ran"}
        /\ failed' \subseteq Kinds /\ how' \in {"normal", "no call", "aborted", "untrapped"}
    BY <1>15 DEF BodyExits, ExitTrap, _cleanup
  <2>. QED
    BY <2>1, <2>2, <2>3, <2>4, <2>5, <2>6 DEF Pairs
<1>16. CASE Judge
  <2>1. /\ pc' \in {"group", "test", "requires", "array", "devices", "call", "body", "judge",
                     "after", "condend", "testend", "done"}
        /\ groups' \in 0 .. MaxGroups /\ left' \in 0 .. MaxTests
        /\ {gret', cret', ret', rc', drc'} \subseteq {0, 1}
        /\ test' \in Tests /\ cond' \in 0 .. MaxConds
    BY <1>16, <1>c DEF Judge, _cleanup
  <2>2. /\ devs' \subseteq Devs /\ todo' \subseteq Devs \cup {Fallback}
        /\ cur' \in Devs \cup {Fallback, Array, All}
    BY <1>16 DEF Judge, _cleanup
  <2>3. own' \in BOOLEAN /\ dirty' \in BOOLEAN /\ trapped' \in BOOLEAN
        /\ casefail' \in BOOLEAN /\ owed' \in BOOLEAN
    BY <1>16 DEF Judge, _cleanup
  <2>4. /\ unload' \subseteq Mods /\ loaded' \subseteq Mods /\ mine' \subseteq Mods
        /\ stuck' \subseteq Mods
    BY <1>16 DEF Judge, _cleanup
  <2>5. skip' \subseteq Pairs
    BY <1>16, <1>c, <1>d, <1>e DEF Judge, _cleanup
  <2>6. /\ status' \in {"none", "pass", "fail", "not run"} /\ reg' \in {"none", "pending", "ran"}
        /\ failed' \subseteq Kinds /\ how' \in {"normal", "no call", "aborted", "untrapped"}
    <3>1. test.kind \in Kinds
      BY DEF Tests
    <3>2. failed' \subseteq failed \cup {test.kind}
      BY <1>16 DEF Judge
    <3>3. status' \in {"none", "pass", "fail", "not run"} /\ how' = how
      BY <1>16 DEF Judge
    <3>4. reg' \in {"none", "pending", "ran"}
      BY <1>16 DEF Judge, _cleanup
    <3>. QED
      BY <3>1, <3>2, <3>3, <3>4
  <2>. QED
    BY <2>1, <2>2, <2>3, <2>4, <2>5, <2>6 DEF Pairs
<1>17. CASE AfterTest
  <2>1. /\ pc' \in {"group", "test", "requires", "array", "devices", "call", "body", "judge",
                     "after", "condend", "testend", "done"}
        /\ groups' \in 0 .. MaxGroups /\ left' \in 0 .. MaxTests
        /\ {gret', cret', ret', rc', drc'} \subseteq {0, 1}
        /\ test' \in Tests /\ cond' \in 0 .. MaxConds
    BY <1>17, <1>c DEF AfterTest, _unload_modules
  <2>2. /\ devs' \subseteq Devs /\ todo' \subseteq Devs \cup {Fallback}
        /\ cur' \in Devs \cup {Fallback, Array, All}
    BY <1>17 DEF AfterTest, _unload_modules
  <2>3. own' \in BOOLEAN /\ dirty' \in BOOLEAN /\ trapped' \in BOOLEAN
        /\ casefail' \in BOOLEAN /\ owed' \in BOOLEAN
    BY <1>17 DEF AfterTest, _unload_modules
  <2>4. /\ unload' \subseteq Mods /\ loaded' \subseteq Mods /\ mine' \subseteq Mods
        /\ stuck' \subseteq Mods
    BY <1>17 DEF AfterTest, _unload_modules
  <2>5. skip' \subseteq Pairs
    BY <1>17, <1>c, <1>d, <1>e DEF AfterTest, _unload_modules
  <2>6. /\ status' \in {"none", "pass", "fail", "not run"} /\ reg' \in {"none", "pending", "ran"}
        /\ failed' \subseteq Kinds /\ how' \in {"normal", "no call", "aborted", "untrapped"}
    BY <1>17 DEF AfterTest, _unload_modules
  <2>. QED
    BY <2>1, <2>2, <2>3, <2>4, <2>5, <2>6 DEF Pairs
<1>18. CASE AfterDevice
  <2>1. /\ pc' \in {"group", "test", "requires", "array", "devices", "call", "body", "judge",
                     "after", "condend", "testend", "done"}
        /\ groups' \in 0 .. MaxGroups /\ left' \in 0 .. MaxTests
        /\ {gret', cret', ret', rc', drc'} \subseteq {0, 1}
        /\ test' \in Tests /\ cond' \in 0 .. MaxConds
    BY <1>18, <1>c DEF AfterDevice, _unload_modules
  <2>2. /\ devs' \subseteq Devs /\ todo' \subseteq Devs \cup {Fallback}
        /\ cur' \in Devs \cup {Fallback, Array, All}
    BY <1>18 DEF AfterDevice, _unload_modules
  <2>3. own' \in BOOLEAN /\ dirty' \in BOOLEAN /\ trapped' \in BOOLEAN
        /\ casefail' \in BOOLEAN /\ owed' \in BOOLEAN
    BY <1>18 DEF AfterDevice, _unload_modules
  <2>4. /\ unload' \subseteq Mods /\ loaded' \subseteq Mods /\ mine' \subseteq Mods
        /\ stuck' \subseteq Mods
    BY <1>18 DEF AfterDevice, _unload_modules
  <2>5. skip' \subseteq Pairs
    BY <1>18, <1>c, <1>d, <1>e DEF AfterDevice, _unload_modules
  <2>6. /\ status' \in {"none", "pass", "fail", "not run"} /\ reg' \in {"none", "pending", "ran"}
        /\ failed' \subseteq Kinds /\ how' \in {"normal", "no call", "aborted", "untrapped"}
    BY <1>18 DEF AfterDevice, _unload_modules
  <2>. QED
    BY <2>1, <2>2, <2>3, <2>4, <2>5, <2>6 DEF Pairs
<1>19. CASE AfterArray
  <2>1. /\ pc' \in {"group", "test", "requires", "array", "devices", "call", "body", "judge",
                     "after", "condend", "testend", "done"}
        /\ groups' \in 0 .. MaxGroups /\ left' \in 0 .. MaxTests
        /\ {gret', cret', ret', rc', drc'} \subseteq {0, 1}
        /\ test' \in Tests /\ cond' \in 0 .. MaxConds
    BY <1>19, <1>c DEF AfterArray, _unload_modules
  <2>2. /\ devs' \subseteq Devs /\ todo' \subseteq Devs \cup {Fallback}
        /\ cur' \in Devs \cup {Fallback, Array, All}
    BY <1>19 DEF AfterArray, _unload_modules
  <2>3. own' \in BOOLEAN /\ dirty' \in BOOLEAN /\ trapped' \in BOOLEAN
        /\ casefail' \in BOOLEAN /\ owed' \in BOOLEAN
    BY <1>19 DEF AfterArray, _unload_modules
  <2>4. /\ unload' \subseteq Mods /\ loaded' \subseteq Mods /\ mine' \subseteq Mods
        /\ stuck' \subseteq Mods
    BY <1>19 DEF AfterArray, _unload_modules
  <2>5. skip' \subseteq Pairs
    BY <1>19, <1>c, <1>d, <1>e DEF AfterArray, _unload_modules
  <2>6. /\ status' \in {"none", "pass", "fail", "not run"} /\ reg' \in {"none", "pending", "ran"}
        /\ failed' \subseteq Kinds /\ how' \in {"normal", "no call", "aborted", "untrapped"}
    BY <1>19 DEF AfterArray, _unload_modules
  <2>. QED
    BY <2>1, <2>2, <2>3, <2>4, <2>5, <2>6 DEF Pairs
<1>20. CASE ConditionEnds
  <2>1. /\ pc' \in {"group", "test", "requires", "array", "devices", "call", "body", "judge",
                     "after", "condend", "testend", "done"}
        /\ groups' \in 0 .. MaxGroups /\ left' \in 0 .. MaxTests
        /\ {gret', cret', ret', rc', drc'} \subseteq {0, 1}
        /\ test' \in Tests /\ cond' \in 0 .. MaxConds
    <3>1. cond' \in 0 .. MaxConds
      <4>1. cond \in 1 .. MaxConds /\ cond' = cond - 1
        BY <1>20, <1>c DEF ConditionEnds
      <4>. QED
        BY ONLY <4>1, <1>a
    <3>2. ret' \in {0, 1} /\ pc' \in {"requires", "testend"}
      BY <1>20 DEF ConditionEnds
    <3>3. UNCHANGED <<groups, left, gret, cret, rc, drc, test>>
      BY <1>20 DEF ConditionEnds
    <3>. QED
      BY <3>1, <3>2, <3>3
  <2>2. /\ devs' \subseteq Devs /\ todo' \subseteq Devs \cup {Fallback}
        /\ cur' \in Devs \cup {Fallback, Array, All}
    BY <1>20 DEF ConditionEnds
  <2>3. own' \in BOOLEAN /\ dirty' \in BOOLEAN /\ trapped' \in BOOLEAN
        /\ casefail' \in BOOLEAN /\ owed' \in BOOLEAN
    BY <1>20 DEF ConditionEnds
  <2>4. /\ unload' \subseteq Mods /\ loaded' \subseteq Mods /\ mine' \subseteq Mods
        /\ stuck' \subseteq Mods
    BY <1>20 DEF ConditionEnds
  <2>5. skip' \subseteq Pairs
    BY <1>20, <1>c, <1>d, <1>e DEF ConditionEnds
  <2>6. /\ status' \in {"none", "pass", "fail", "not run"} /\ reg' \in {"none", "pending", "ran"}
        /\ failed' \subseteq Kinds /\ how' \in {"normal", "no call", "aborted", "untrapped"}
    BY <1>20 DEF ConditionEnds
  <2>. QED
    BY <2>1, <2>2, <2>3, <2>4, <2>5, <2>6 DEF Pairs
<1>21. CASE TestEnds
  <2>1. /\ pc' \in {"group", "test", "requires", "array", "devices", "call", "body", "judge",
                     "after", "condend", "testend", "done"}
        /\ groups' \in 0 .. MaxGroups /\ left' \in 0 .. MaxTests
        /\ {gret', cret', ret', rc', drc'} \subseteq {0, 1}
        /\ test' \in Tests /\ cond' \in 0 .. MaxConds
    BY <1>21, <1>c DEF TestEnds, ExitTrap, _cleanup
  <2>2. /\ devs' \subseteq Devs /\ todo' \subseteq Devs \cup {Fallback}
        /\ cur' \in Devs \cup {Fallback, Array, All}
    BY <1>21 DEF TestEnds, ExitTrap, _cleanup
  <2>3. own' \in BOOLEAN /\ dirty' \in BOOLEAN /\ trapped' \in BOOLEAN
        /\ casefail' \in BOOLEAN /\ owed' \in BOOLEAN
    BY <1>21 DEF TestEnds, ExitTrap, _cleanup
  <2>4. /\ unload' \subseteq Mods /\ loaded' \subseteq Mods /\ mine' \subseteq Mods
        /\ stuck' \subseteq Mods
    BY <1>21 DEF TestEnds, ExitTrap, _cleanup
  <2>5. skip' \subseteq Pairs
    BY <1>21, <1>c, <1>d, <1>e DEF TestEnds, ExitTrap, _cleanup
  <2>6. /\ status' \in {"none", "pass", "fail", "not run"} /\ reg' \in {"none", "pending", "ran"}
        /\ failed' \subseteq Kinds /\ how' \in {"normal", "no call", "aborted", "untrapped"}
    BY <1>21 DEF TestEnds, ExitTrap, _cleanup
  <2>. QED
    BY <2>1, <2>2, <2>3, <2>4, <2>5, <2>6 DEF Pairs
<1>. QED
  BY <1>0, <1>1, <1>2, <1>3, <1>4, <1>5, <1>6, <1>7, <1>8, <1>9, <1>10,
     <1>11, <1>12, <1>13, <1>14, <1>15, <1>16, <1>17, <1>18, <1>19, <1>20, <1>21 DEF Next

\* The condition and device loops stay in step.
LEMMA NextLoopsInStep == TypeOK /\ LoopsInStep /\ [Next]_vars => LoopsInStep'
<1> SUFFICES ASSUME TypeOK, LoopsInStep, [Next]_vars PROVE LoopsInStep'
  OBVIOUS
<1>a. MaxGroups \in Nat /\ MaxTests \in Nat /\ MaxConds \in Nat /\ Fallback \notin Devs
  BY CheckAssumption
<1> USE <1>a DEF TypeOK, LoopsInStep, Calling, Tests, levels, case, mods, env, fails, Goto
<1>0. CASE UNCHANGED vars
  BY <1>0 DEF vars
<1>1. CASE GroupStarts
  BY <1>1 DEF GroupStarts
<1>2. CASE GroupEnds
  BY <1>2 DEF GroupEnds
<1>3. CASE CheckEnds
  BY <1>3 DEF CheckEnds
<1>4. CASE _run_test
  <2>1. test'.conds \in 0 .. MaxConds /\ cond' = test'.conds
    BY <1>4 DEF _run_test
  <2>2. test'.conds # 0 => cond' >= 1
    BY ONLY <2>1, <1>a
  <2>3. Fallback \notin todo
    BY <1>4 DEF _run_test
  <2>. QED
    BY <1>4, <2>2, <2>3 DEF _run_test
<1>5. CASE Requires
  <2>1. pc = "requires" /\ UNCHANGED <<test, cond, devs>> /\ drc' = 0
    BY <1>5 DEF Requires
  <2>2. test.kind \in {"test", "device", "array"}
    BY DEF Tests, Kinds
  <2>3. CASE test.kind = "test"
    BY <1>5, <2>1, <2>3 DEF Requires
  <2>4. CASE test.kind = "array"
    BY <1>5, <2>1, <2>4 DEF Requires
  <2>5. CASE test.kind = "device"
    <3>1. pc' = "devices" /\ todo' \in {devs, {Fallback}}
      BY <1>5, <2>5 DEF Requires
    <3>. QED
      BY <2>1, <2>5, <3>1
  <2>. QED
    BY <2>2, <2>3, <2>4, <2>5
<1>6. CASE DeviceArray
  BY <1>6 DEF DeviceArray, Reasons
<1>7. CASE NextDevice
  BY <1>7 DEF NextDevice, Reasons
<1>8. CASE FallbackFails
  BY <1>8 DEF FallbackFails, LoadMore, Load
<1>9. CASE FallbackReady
  BY <1>9 DEF FallbackReady, LoadMore, Load, Reasons
<1>10. CASE DevicesDone
  BY <1>10 DEF DevicesDone
<1>11. CASE CallSkipped
  BY <1>11 DEF CallSkipped
<1>12. CASE CallNoTmpdir
  BY <1>12 DEF CallNoTmpdir
<1>13. CASE CallBody
  BY <1>13 DEF CallBody
<1>14. CASE BodyWorks
  BY <1>14 DEF BodyWorks, LoadMore, Load
<1>15. CASE BodyExits
  BY <1>15 DEF BodyExits, ExitTrap, _cleanup
<1>16. CASE Judge
  BY <1>16 DEF Judge, _cleanup
<1>17. CASE AfterTest
  BY <1>17 DEF AfterTest, _unload_modules
<1>18. CASE AfterDevice
  BY <1>18 DEF AfterDevice, _unload_modules
<1>19. CASE AfterArray
  BY <1>19 DEF AfterArray, _unload_modules
<1>20. CASE ConditionEnds
  <2>1. cond > 1 => cond - 1 >= 1
    <3>1. cond \in 0 .. MaxConds
      OBVIOUS
    <3>. QED
      BY ONLY <3>1, <1>a
  <2>2. Fallback \notin todo /\ UNCHANGED todo
    BY <1>20 DEF ConditionEnds
  <2>. QED
    BY <1>20, <2>1, <2>2 DEF ConditionEnds
<1>21. CASE TestEnds
  BY <1>21 DEF TestEnds, ExitTrap, _cleanup
<1>. QED
  BY <1>0, <1>1, <1>2, <1>3, <1>4, <1>5, <1>6, <1>7, <1>8, <1>9, <1>10,
     <1>11, <1>12, <1>13, <1>14, <1>15, <1>16, <1>17, <1>18, <1>19, <1>20, <1>21 DEF Next

\* A fail is handed up from level to level and never dropped on the way.
LEMMA NextFailCarried == TypeOK /\ LoopsInStep /\ FailCarried /\ [Next]_vars => FailCarried'
<1> SUFFICES ASSUME TypeOK, LoopsInStep, FailCarried, [Next]_vars PROVE FailCarried'
  OBVIOUS
<1>a. MaxGroups \in Nat /\ MaxTests \in Nat /\ MaxConds \in Nat /\ Fallback \notin Devs
  BY CheckAssumption
<1> USE <1>a DEF TypeOK, LoopsInStep, FailCarried, Calling, Tests, Kinds, levels, case, mods, env, fails, Goto
<1>0. CASE UNCHANGED vars
  BY <1>0 DEF vars
<1>1. CASE GroupStarts
  BY <1>1 DEF GroupStarts
<1>2. CASE GroupEnds
  BY <1>2 DEF GroupEnds
<1>3. CASE CheckEnds
  BY <1>3 DEF CheckEnds
<1>4. CASE _run_test
  BY <1>4 DEF _run_test
<1>5. CASE Requires
  BY <1>5 DEF Requires, Load, Reasons
<1>6. CASE DeviceArray
  BY <1>6 DEF DeviceArray, Reasons
<1>7. CASE NextDevice
  BY <1>7 DEF NextDevice, Reasons
<1>8. CASE FallbackFails
  BY <1>8 DEF FallbackFails, LoadMore, Load
<1>9. CASE FallbackReady
  BY <1>9 DEF FallbackReady, LoadMore, Load, Reasons
<1>10. CASE DevicesDone
  BY <1>10 DEF DevicesDone
<1>11. CASE CallSkipped
  BY <1>11 DEF CallSkipped
<1>12. CASE CallNoTmpdir
  BY <1>12 DEF CallNoTmpdir
<1>13. CASE CallBody
  BY <1>13 DEF CallBody
<1>14. CASE BodyWorks
  BY <1>14 DEF BodyWorks, LoadMore, Load
<1>15. CASE BodyExits
  BY <1>15 DEF BodyExits, ExitTrap, _cleanup
<1>16. CASE Judge
  <2>1. PICK s \in {"not run", "pass", "fail"} :
            /\ rc' = IF s = "fail" THEN 1 ELSE 0
            /\ casefail' = (casefail \/ (s = "fail" /\ test.kind # "test"))
    BY <1>16 DEF Judge
  <2>2. pc = "judge" /\ pc' = "after" /\ UNCHANGED <<test, drc, ret, gret, cret, owed>>
    BY <1>16 DEF Judge
  <2>3. CASE s = "fail" /\ test.kind # "test"
    <3>0. rc' = 1 /\ 1 # 0
      BY ONLY <2>1, <2>3
    <3>1. rc' # 0
      BY ONLY <3>0
    <3>2. (rc # 0 /\ pc = "after" /\ test.kind # "test")'
      BY <2>2, <2>3, <3>1
    <3>. QED
      BY <2>2, <3>2
  <2>4. CASE ~(s = "fail" /\ test.kind # "test")
    <3>1. casefail' = casefail
      BY <2>1, <2>4
    <3>. QED
      BY <2>2, <3>1
  <2>. QED
    BY <2>3, <2>4
<1>17. CASE AfterTest
  BY <1>17 DEF AfterTest, _unload_modules
<1>18. CASE AfterDevice
  BY <1>18 DEF AfterDevice, _unload_modules
<1>19. CASE AfterArray
  BY <1>19 DEF AfterArray, _unload_modules
<1>20. CASE ConditionEnds
  BY <1>20 DEF ConditionEnds
<1>21. CASE TestEnds
  BY <1>21 DEF TestEnds, ExitTrap, _cleanup
<1>. QED
  BY <1>0, <1>1, <1>2, <1>3, <1>4, <1>5, <1>6, <1>7, <1>8, <1>9, <1>10,
     <1>11, <1>12, <1>13, <1>14, <1>15, <1>16, <1>17, <1>18, <1>19, <1>20, <1>21 DEF Next

\* No skip reason outlives the condition or the device it was found for.
LEMMA NextSkipScoped == TypeOK /\ LoopsInStep /\ SkipScoped /\ [Next]_vars => SkipScoped'
<1> SUFFICES ASSUME TypeOK, LoopsInStep, SkipScoped, [Next]_vars PROVE SkipScoped'
  OBVIOUS
<1>a. MaxGroups \in Nat /\ MaxTests \in Nat /\ MaxConds \in Nat /\ Fallback \notin Devs
  BY CheckAssumption
<1> USE <1>a DEF TypeOK, LoopsInStep, SkipScoped, Calling, levels, case, mods, env, fails, Goto
<1>0. CASE UNCHANGED vars
  BY <1>0 DEF vars
<1>1. CASE GroupStarts
  BY <1>1 DEF GroupStarts
<1>2. CASE GroupEnds
  BY <1>2 DEF GroupEnds
<1>3. CASE CheckEnds
  BY <1>3 DEF CheckEnds
<1>4. CASE _run_test
  BY <1>4 DEF _run_test
<1>5. CASE Requires
  BY <1>5 DEF Requires, Load, Reasons
<1>6. CASE DeviceArray
  BY <1>6 DEF DeviceArray, Reasons
<1>7. CASE NextDevice
  <2>1. PICK d \in todo : /\ cur' = d
                          /\ own' = (skip = {})
                          /\ IF skip = {} THEN skip' \in SUBSET {<<cond, d>>} ELSE skip' = skip
    BY <1>7 DEF NextDevice, Reasons
  <2>2. pc = "devices" /\ pc' = "call" /\ UNCHANGED <<cond, test, status>>
    BY <1>7 DEF NextDevice
  <2>3. CASE skip = {}
    BY <2>1, <2>2, <2>3
  <2>4. CASE skip # {}
    <3>1. skip = {<<cond, All>>}
      BY <2>2, <2>4
    <3>2. skip' = {<<cond, All>>}' /\ skip' # {}
      BY <2>1, <2>2, <2>4, <3>1
    <3>. QED
      BY <2>2, <3>2
  <2>. QED
    BY <2>3, <2>4
<1>8. CASE FallbackFails
  BY <1>8 DEF FallbackFails, LoadMore, Load
<1>9. CASE FallbackReady
  BY <1>9 DEF FallbackReady, LoadMore, Load, Reasons
<1>10. CASE DevicesDone
  BY <1>10 DEF DevicesDone
<1>11. CASE CallSkipped
  BY <1>11 DEF CallSkipped
<1>12. CASE CallNoTmpdir
  BY <1>12 DEF CallNoTmpdir
<1>13. CASE CallBody
  BY <1>13 DEF CallBody
<1>14. CASE BodyWorks
  BY <1>14 DEF BodyWorks, LoadMore, Load
<1>15. CASE BodyExits
  BY <1>15 DEF BodyExits, ExitTrap, _cleanup
<1>16. CASE Judge
  BY <1>16 DEF Judge, _cleanup
<1>17. CASE AfterTest
  BY <1>17 DEF AfterTest, _unload_modules
<1>18. CASE AfterDevice
  BY <1>18 DEF AfterDevice, _unload_modules
<1>19. CASE AfterArray
  BY <1>19 DEF AfterArray, _unload_modules
<1>20. CASE ConditionEnds
  BY <1>20 DEF ConditionEnds
<1>21. CASE TestEnds
  BY <1>21 DEF TestEnds, ExitTrap, _cleanup
<1>. QED
  BY <1>0, <1>1, <1>2, <1>3, <1>4, <1>5, <1>6, <1>7, <1>8, <1>9, <1>10,
     <1>11, <1>12, <1>13, <1>14, <1>15, <1>16, <1>17, <1>18, <1>19, <1>20, <1>21 DEF Next

\* The cleanup of _call_test or of the EXIT trap runs on every way out of a body
\* that left the trap alone.
LEMMA NextCleanOutside ==
    TypeOK /\ CleanOutside /\ UntrappedEnds /\ [Next]_vars => (CleanOutside /\ UntrappedEnds)'
<1> SUFFICES ASSUME TypeOK, CleanOutside, UntrappedEnds, [Next]_vars
             PROVE  (CleanOutside /\ UntrappedEnds)'
  OBVIOUS
<1>a. MaxGroups \in Nat /\ MaxTests \in Nat /\ MaxConds \in Nat /\ Fallback \notin Devs
  BY CheckAssumption
<1> USE <1>a DEF TypeOK, CleanOutside, UntrappedEnds, levels, case, mods, env, fails, Goto
<1>0. CASE UNCHANGED vars
  BY <1>0 DEF vars
<1>1. CASE GroupStarts
  BY <1>1 DEF GroupStarts
<1>2. CASE GroupEnds
  BY <1>2 DEF GroupEnds
<1>3. CASE CheckEnds
  BY <1>3 DEF CheckEnds
<1>4. CASE _run_test
  BY <1>4 DEF _run_test
<1>5. CASE Requires
  BY <1>5 DEF Requires, Load, Reasons
<1>6. CASE DeviceArray
  BY <1>6 DEF DeviceArray, Reasons
<1>7. CASE NextDevice
  BY <1>7 DEF NextDevice, Reasons
<1>8. CASE FallbackFails
  BY <1>8 DEF FallbackFails, LoadMore, Load
<1>9. CASE FallbackReady
  BY <1>9 DEF FallbackReady, LoadMore, Load, Reasons
<1>10. CASE DevicesDone
  BY <1>10 DEF DevicesDone
<1>11. CASE CallSkipped
  BY <1>11 DEF CallSkipped
<1>12. CASE CallNoTmpdir
  BY <1>12 DEF CallNoTmpdir
<1>13. CASE CallBody
  BY <1>13 DEF CallBody
<1>14. CASE BodyWorks
  BY <1>14 DEF BodyWorks, LoadMore, Load
<1>15. CASE BodyExits
  BY <1>15 DEF BodyExits, ExitTrap, _cleanup
<1>16. CASE Judge
  BY <1>16 DEF Judge, _cleanup
<1>17. CASE AfterTest
  BY <1>17 DEF AfterTest, _unload_modules
<1>18. CASE AfterDevice
  BY <1>18 DEF AfterDevice, _unload_modules
<1>19. CASE AfterArray
  BY <1>19 DEF AfterArray, _unload_modules
<1>20. CASE ConditionEnds
  BY <1>20 DEF ConditionEnds
<1>21. CASE TestEnds
  BY <1>21 DEF TestEnds, ExitTrap, _cleanup
<1>. QED
  BY <1>0, <1>1, <1>2, <1>3, <1>4, <1>5, <1>6, <1>7, <1>8, <1>9, <1>10,
     <1>11, <1>12, <1>13, <1>14, <1>15, <1>16, <1>17, <1>18, <1>19, <1>20, <1>21 DEF Next

\* Every load is recorded until _unload_modules has dealt with it.
LEMMA NextModulesTracked == TypeOK /\ LoopsInStep /\ ModulesTracked /\ [Next]_vars => ModulesTracked'
<1> SUFFICES ASSUME TypeOK, LoopsInStep, ModulesTracked, [Next]_vars PROVE ModulesTracked'
  OBVIOUS
<1>a. MaxGroups \in Nat /\ MaxTests \in Nat /\ MaxConds \in Nat /\ Fallback \notin Devs
  BY CheckAssumption
<1> USE <1>a DEF TypeOK, LoopsInStep, ModulesTracked, Calling, levels, case, mods, env, fails, Goto
<1>0. CASE UNCHANGED vars
  BY <1>0 DEF vars
<1>1. CASE GroupStarts
  BY <1>1 DEF GroupStarts
<1>2. CASE GroupEnds
  BY <1>2 DEF GroupEnds
<1>3. CASE CheckEnds
  BY <1>3 DEF CheckEnds
<1>4. CASE _run_test
  BY <1>4 DEF _run_test
<1>5. CASE Requires
  <2>1. PICK got : loaded' = loaded \cup got /\ unload' = unload \cup got /\ mine' = mine \cup got
    BY <1>5 DEF Requires, Load
  <2>2. UNCHANGED stuck /\ pc = "requires"
    BY <1>5 DEF Requires
  <2>3. mine' \cap loaded' \subseteq stuck' \cup unload'
    BY <2>1, <2>2
  <2>4. pc' \in {"call", "array", "devices"}
    BY <1>5 DEF Requires
  <2>5. pc' = "devices" /\ todo' = {} => how' # "normal"
    <3>0. test.kind \in {"test", "device", "array"}
      BY DEF Tests, Kinds
    <3>1. pc' = "devices" => test.kind = "device"
      BY ONLY <1>5, <3>0 DEF Requires, Goto
    <3>2. test.kind = "device" /\ todo' = {} => how' = "no call"
      BY <1>5 DEF Requires
    <3>. QED
      BY <3>1, <3>2
  <2>. QED
    BY <2>3, <2>4, <2>5
<1>6. CASE DeviceArray
  BY <1>6 DEF DeviceArray, Reasons
<1>7. CASE NextDevice
  BY <1>7 DEF NextDevice, Reasons
<1>8. CASE FallbackFails
  BY <1>8 DEF FallbackFails, LoadMore, Load
<1>9. CASE FallbackReady
  BY <1>9 DEF FallbackReady, LoadMore, Load, Reasons
<1>10. CASE DevicesDone
  BY <1>10 DEF DevicesDone
<1>11. CASE CallSkipped
  BY <1>11 DEF CallSkipped
<1>12. CASE CallNoTmpdir
  BY <1>12 DEF CallNoTmpdir
<1>13. CASE CallBody
  BY <1>13 DEF CallBody
<1>14. CASE BodyWorks
  BY <1>14 DEF BodyWorks, LoadMore, Load
<1>15. CASE BodyExits
  BY <1>15 DEF BodyExits, ExitTrap, _cleanup
<1>16. CASE Judge
  BY <1>16 DEF Judge, _cleanup
<1>17. CASE AfterTest
  BY <1>17 DEF AfterTest, _unload_modules
<1>18. CASE AfterDevice
  BY <1>18 DEF AfterDevice, _unload_modules
<1>19. CASE AfterArray
  BY <1>19 DEF AfterArray, _unload_modules
<1>20. CASE ConditionEnds
  BY <1>20 DEF ConditionEnds
<1>21. CASE TestEnds
  BY <1>21 DEF TestEnds, ExitTrap, _cleanup
<1>. QED
  BY <1>0, <1>1, <1>2, <1>3, <1>4, <1>5, <1>6, <1>7, <1>8, <1>9, <1>10,
     <1>11, <1>12, <1>13, <1>14, <1>15, <1>16, <1>17, <1>18, <1>19, <1>20, <1>21 DEF Next

\* Nothing is unloaded between requires() and the first call of a condition.
LEMMA NextReadyToCall == TypeOK /\ LoopsInStep /\ SkipScoped /\ ReadyToCall /\ [Next]_vars => ReadyToCall'
<1> SUFFICES ASSUME TypeOK, LoopsInStep, SkipScoped, ReadyToCall, [Next]_vars PROVE ReadyToCall'
  OBVIOUS
<1>a. MaxGroups \in Nat /\ MaxTests \in Nat /\ MaxConds \in Nat /\ Fallback \notin Devs
  BY CheckAssumption
<1> USE <1>a DEF TypeOK, LoopsInStep, SkipScoped, ReadyToCall, Calling, DriversReady, levels, case, mods, env, fails, Goto
<1>0. CASE UNCHANGED vars
  BY <1>0 DEF vars
<1>1. CASE GroupStarts
  BY <1>1 DEF GroupStarts
<1>2. CASE GroupEnds
  BY <1>2 DEF GroupEnds
<1>3. CASE CheckEnds
  BY <1>3 DEF CheckEnds
<1>4. CASE _run_test
  BY <1>4 DEF _run_test
<1>5. CASE Requires
  BY <1>5 DEF Requires, Load, Reasons
<1>6. CASE DeviceArray
  BY <1>6 DEF DeviceArray, Reasons
<1>7. CASE NextDevice
  <2>1. PICK d \in todo \ {Fallback} :
            /\ todo' = todo \ {d} /\ cur' = d
            /\ IF skip = {} THEN skip' \in SUBSET {<<cond, d>>} ELSE skip' = skip
    BY <1>7 DEF NextDevice, Reasons
  <2>2. pc = "devices" /\ pc' = "call" /\ UNCHANGED <<cond, test, devs, loaded>>
    BY <1>7 DEF NextDevice
  <2>3. todo \subseteq devs
    BY <2>1, <2>2
  <2>4. ASSUME todo' = devs \ {d} PROVE DriversReady'
    <3>1. todo = devs
      BY <2>1, <2>3, <2>4, ZenonT(30)
    <3>2. test.needs \subseteq loaded \/ <<cond, All>> \in skip
      BY <2>1, <2>2, <3>1
    <3>. QED
      BY <2>1, <2>2, <3>2
  <2>5. d # Fallback /\ test.kind = "device"
    BY <2>1, <2>2
  <2>. QED
    BY <2>1, <2>2, <2>4, <2>5
<1>8. CASE FallbackFails
  BY <1>8 DEF FallbackFails, LoadMore, Load
<1>9. CASE FallbackReady
  BY <1>9 DEF FallbackReady, LoadMore, Load, Reasons
<1>10. CASE DevicesDone
  BY <1>10 DEF DevicesDone
<1>11. CASE CallSkipped
  BY <1>11 DEF CallSkipped
<1>12. CASE CallNoTmpdir
  BY <1>12 DEF CallNoTmpdir
<1>13. CASE CallBody
  BY <1>13 DEF CallBody
<1>14. CASE BodyWorks
  BY <1>14 DEF BodyWorks, LoadMore, Load
<1>15. CASE BodyExits
  BY <1>15 DEF BodyExits, ExitTrap, _cleanup
<1>16. CASE Judge
  BY <1>16 DEF Judge, _cleanup
<1>17. CASE AfterTest
  BY <1>17 DEF AfterTest, _unload_modules
<1>18. CASE AfterDevice
  BY <1>18 DEF AfterDevice, _unload_modules
<1>19. CASE AfterArray
  BY <1>19 DEF AfterArray, _unload_modules
<1>20. CASE ConditionEnds
  BY <1>20 DEF ConditionEnds
<1>21. CASE TestEnds
  BY <1>21 DEF TestEnds, ExitTrap, _cleanup
<1>. QED
  BY <1>0, <1>1, <1>2, <1>3, <1>4, <1>5, <1>6, <1>7, <1>8, <1>9, <1>10,
     <1>11, <1>12, <1>13, <1>14, <1>15, <1>16, <1>17, <1>18, <1>19, <1>20, <1>21 DEF Next

\* CInv is inductive.
LEMMA NextCInv == CInv /\ [Next]_vars => CInv'
BY NextTypeOK, NextLoopsInStep, NextFailCarried, NextSkipScoped, NextCleanOutside,
   NextModulesTracked, NextReadyToCall DEF CInv

\* The inductive invariant of ./check holds in every behaviour.
THEOREM CheckInvariant == Spec => []CInv
BY InitCInv, NextCInv, PTL DEF Spec

\* A failed test_device() or test_device_array() case makes ./check exit non-zero,
\* whatever devices, conditions, cases and groups run after it, unless a later
\* body of the same case ends the subshell with exit 0.
THEOREM CheckSeesDeviceFails == Spec => []DeviceFailSeen
<1>1. CInv => DeviceFailSeen
  BY DEF CInv, FailCarried, DeviceFailSeen, Calling
<1>. QED
  BY <1>1, CheckInvariant, PTL

\* A case is recorded as not run only for a reason of its own condition and device.
THEOREM CheckNotRunEarned == Spec => []NotRunEarned
<1>1. CInv => NotRunEarned
  BY DEF CInv, SkipScoped, NotRunEarned, Calling
<1>. QED
  BY <1>1, CheckInvariant, PTL

\* Every body starts with the settings restored and the earlier cleanup done, unless
\* an earlier case ended behind an EXIT trap of its own.
THEOREM CheckStartsClean == Spec => []CleanStart
<1>1. CInv => CleanStart
  BY DEF CInv, CleanOutside, UntrappedEnds, CleanStart
<1>. QED
  BY <1>1, CheckInvariant, PTL

\* A case that made its calls leaves only modules loaded that would not go.
THEOREM CheckRemovesModules == Spec => []ModulesRemoved
<1>1. CInv => ModulesRemoved
  BY DEF CInv, ModulesTracked, ModulesRemoved
<1>. QED
  BY <1>1, CheckInvariant, PTL

\* The first call of a condition runs its body with the required drivers loaded.
THEOREM CheckNeedsMet == Spec => []NeedsMet
<1>1. CInv => NeedsMet
  BY DEF CInv, ReadyToCall, DriversReady, SkipScoped, NeedsMet, Calling
<1>. QED
  BY <1>1, CheckInvariant, PTL
=============================================================================
