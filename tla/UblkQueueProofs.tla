-------------------------- MODULE UblkQueueProofs --------------------------
(***************************************************************************)
(* Proofs about the queue thread of miniublk for every queue depth and     *)
(* both targets.                                                           *)
(***************************************************************************)
EXTENDS UblkQueue, FiniteSetTheorems, TLAPS

\* There are Depth tags, and both sets of outstanding tags are finite.
LEMMA TagsFinite ==
    /\ IsFiniteSet(Tags) /\ Cardinality(Tags) = Depth
    /\ IsFiniteSet(CmdTags) /\ IsFiniteSet(IoTags)
    /\ Cardinality(CmdTags) \in Nat /\ Cardinality(IoTags) \in Nat
<1>1. IsFiniteSet(Tags) /\ Cardinality(Tags) = Depth
  BY QueueAssumption, FS_Interval DEF Tags
<1>2. CmdTags \in SUBSET Tags /\ IoTags \in SUBSET Tags
  BY DEF CmdTags, IoTags
<1>. QED
  BY <1>1, <1>2, FS_Subset, FS_CardinalityType

\* While a completion waits, its tag has nothing on the submission ring and every
\* other tag at most one entry, so io_uring_get_sqe finds room unless entries
\* were left unprepared.
LEMMA SqRoom ==
    ASSUME OwnedOnce, NEW t \in Tags, cqe[t] # {}
    PROVE  SqeAvailable(0)
<1> DEFINE P == {p \in Tags \X Ops : p[2] \in sqe[p[1]]}
           f == [p \in P |-> p[1]]
<1>1. sqe[t] = {}
  BY DEF OwnedOnce, Fresh, FetchSqe, WithDrv, Delivered, TargetSqe, Running,
         TargetCqe, CommitSqe, AbortCqe, ErrCqe, Retired, Lost
<1>2. \A u \in Tags : \A a, b \in sqe[u] : a = b
  BY DEF OwnedOnce, Fresh, FetchSqe, WithDrv, Delivered, TargetSqe, Running,
         TargetCqe, CommitSqe, AbortCqe, ErrCqe, Retired, Lost
<1>3. f \in Injection(P, Tags \ {t})
  <2>1. \A p \in P : p[1] \in Tags \ {t}
    BY <1>1
  <2>2. \A p, q \in P : p[1] = q[1] => p = q
    BY <1>2
  <2>. QED
    BY <2>1, <2>2 DEF Injection, IsInjective
<1>4. IsFiniteSet(Tags \ {t}) /\ Cardinality(Tags \ {t}) = Depth - 1
  BY TagsFinite, FS_RemoveElement
<1>5. IsFiniteSet(P) /\ Cardinality(P) <= Depth - 1
  BY <1>3, <1>4, FS_Injection
<1>6. Cardinality(P) \in Nat
  BY <1>5, FS_CardinalityType
<1>. QED
  BY <1>5, <1>6, QueueAssumption DEF SqeAvailable, Prepared

\* A step leaves the tag in the place where it was.
PlaceKept(u) ==
    /\ Fresh(u)' <=> Fresh(u)
    /\ FetchSqe(u)' <=> FetchSqe(u)
    /\ WithDrv(u)' <=> WithDrv(u)
    /\ Delivered(u)' <=> Delivered(u)
    /\ TargetSqe(u)' <=> TargetSqe(u)
    /\ Running(u)' <=> Running(u)
    /\ TargetCqe(u)' <=> TargetCqe(u)
    /\ CommitSqe(u)' <=> CommitSqe(u)
    /\ AbortCqe(u)' <=> AbortCqe(u)
    /\ ErrCqe(u)' <=> ErrCqe(u)
    /\ Retired(u)' <=> Retired(u)
    /\ Lost(u)' <=> Lost(u)

\* A tag whose fields a step leaves alone stays where it was.
LEMMA SameTag ==
    ASSUME NEW u \in Tags, flags'[u] = flags[u], sqe'[u] = sqe[u], cqe'[u] = cqe[u],
           u \in busy' <=> u \in busy, drv'[u] = drv[u],
           qpc' \in {"init", "failed"} <=> qpc \in {"init", "failed"}
    PROVE  PlaceKept(u)
BY DEF PlaceKept, Fresh, FetchSqe, WithDrv, Delivered, TargetSqe, Running,
         TargetCqe, CommitSqe, AbortCqe, ErrCqe, Retired, Lost

\* Before the thread starts every tag is fresh.
LEMMA InitQInv == Init => QInv
<1> SUFFICES ASSUME Init PROVE QInv
  OBVIOUS
<1>1. TypeOK
  <2>1. stopping \in BOOLEAN /\ idle \in BOOLEAN /\ etime \in BOOLEAN /\ reapped \in BOOLEAN
        /\ devstop \in BOOLEAN /\ tgt \in {"null", "loop"} /\ unsup \in BOOLEAN
    BY DEF Init
  <2>2. flags \in [Tags -> SUBSET {"FETCH", "COMMIT", "FREE"}]
    BY DEF Init
  <2>. QED
    BY <2>1, <2>2, QueueAssumption DEF Init, TypeOK
<1>2. OwnedOnce /\ CmdTags = {} /\ IoTags = {} /\ \A t \in Tags : Fresh(t)
  BY DEF Init, OwnedOnce, CmdTags, IoTags, Fresh, FetchSqe, WithDrv, Delivered, TargetSqe, Running,
         TargetCqe, CommitSqe, AbortCqe, ErrCqe, Retired, Lost
<1>3. Counters
  BY <1>2, FS_EmptySet DEF Init, Counters
<1>4. CommitEarned
  BY DEF Init, CommitEarned, CommitSqe, TargetCqe, Lost
<1>5. StopAfterDrain
  <2>1. 0 \in Tags
    BY QueueAssumption DEF Tags
  <2>. QED
    BY <1>2, <2>1 DEF Init, StopAfterDrain, AbortCqe, ErrCqe, Retired, Lost
<1>6. LostToStale
  BY <1>2, QueueAssumption DEF Init, LostToStale, Fresh, Lost
<1>. QED
  BY <1>1, <1>2, <1>3, <1>4, <1>5, <1>6 DEF QInv

\* Moving one tag changes each counter by that tag's part in it.
LEMMA CountMove ==
    ASSUME NEW t \in Tags,
           \A u \in Tags \ {t} : /\ u \in CmdTags' <=> u \in CmdTags
                                 /\ u \in IoTags' <=> u \in IoTags
    PROVE  /\ Cardinality(CmdTags') = Cardinality(CmdTags \ {t}) + (IF t \in CmdTags' THEN 1 ELSE 0)
           /\ Cardinality(CmdTags) = Cardinality(CmdTags \ {t}) + (IF t \in CmdTags THEN 1 ELSE 0)
           /\ Cardinality(IoTags') = Cardinality(IoTags \ {t}) + (IF t \in IoTags' THEN 1 ELSE 0)
           /\ Cardinality(IoTags) = Cardinality(IoTags \ {t}) + (IF t \in IoTags THEN 1 ELSE 0)
           /\ Cardinality(CmdTags \ {t}) \in Nat /\ Cardinality(IoTags \ {t}) \in Nat
<1>1. /\ CmdTags \subseteq Tags /\ IoTags \subseteq Tags
      /\ CmdTags' \subseteq Tags /\ IoTags' \subseteq Tags
  BY DEF CmdTags, IoTags, Tags
<1>2. /\ IsFiniteSet(CmdTags \ {t}) /\ IsFiniteSet(IoTags \ {t})
      /\ Cardinality(CmdTags \ {t}) \in Nat /\ Cardinality(IoTags \ {t}) \in Nat
  BY TagsFinite, FS_RemoveElement, FS_CardinalityType
<1>3. ASSUME NEW S, IsFiniteSet(S), t \notin S
      PROVE  Cardinality(S \cup {t}) = Cardinality(S) + 1
  BY <1>3, FS_AddElement
<1>4. /\ CmdTags' = IF t \in CmdTags' THEN (CmdTags \ {t}) \cup {t} ELSE CmdTags \ {t}
      /\ CmdTags = IF t \in CmdTags THEN (CmdTags \ {t}) \cup {t} ELSE CmdTags \ {t}
      /\ IoTags' = IF t \in IoTags' THEN (IoTags \ {t}) \cup {t} ELSE IoTags \ {t}
      /\ IoTags = IF t \in IoTags THEN (IoTags \ {t}) \cup {t} ELSE IoTags \ {t}
  BY <1>1
<1>5. /\ Cardinality((CmdTags \ {t}) \cup {t}) = Cardinality(CmdTags \ {t}) + 1
      /\ Cardinality((IoTags \ {t}) \cup {t}) = Cardinality(IoTags \ {t}) + 1
  BY <1>2, <1>3
<1> DEFINE c == Cardinality(CmdTags \ {t})
           d == Cardinality(IoTags \ {t})
<1>6. c \in Nat /\ d \in Nat
  BY <1>2
<1>7. Cardinality(CmdTags') = c + (IF t \in CmdTags' THEN 1 ELSE 0)
  BY <1>4, <1>5, <1>6, SMTT(30)
<1>8. Cardinality(CmdTags) = c + (IF t \in CmdTags THEN 1 ELSE 0)
  BY <1>4, <1>5, <1>6
<1>9. Cardinality(IoTags') = d + (IF t \in IoTags' THEN 1 ELSE 0)
  BY <1>4, <1>5, <1>6
<1>10. Cardinality(IoTags) = d + (IF t \in IoTags THEN 1 ELSE 0)
  BY <1>4, <1>5, <1>6
<1>. QED
  BY <1>6, <1>7, <1>8, <1>9, <1>10

\* A step that moves no tag keeps the places and the sets behind the counters.
LEMMA NoTagMoves ==
    ASSUME QInv, UNCHANGED <<flags, sqe, cqe, busy, drv, outcome, result,
                             cmd_inflight, io_inflight, stopping, stale, tgt, unsup>>,
           qpc' \in {"init", "failed"} <=> qpc \in {"init", "failed"},
           devstop => devstop',
           qpc' = "exited" => stopping,
           qpc' = "astray" => stale > 0
    PROVE  (OwnedOnce /\ Counters /\ CommitEarned /\ StopAfterDrain /\ LostToStale)'
<1>1. \A u \in Tags : PlaceKept(u)
  BY SameTag
<1> USE DEF PlaceKept
<1>2. OwnedOnce'
  BY <1>1 DEF QInv, OwnedOnce
<1>3. CmdTags' = CmdTags /\ IoTags' = IoTags
  BY <1>1 DEF CmdTags, IoTags
<1>4. Counters'
  BY <1>3 DEF QInv, Counters
<1>5. CommitEarned'
  BY <1>1 DEF QInv, CommitEarned
<1>6. StopAfterDrain'
  BY <1>1 DEF QInv, StopAfterDrain, Drained
<1>7. LostToStale'
  BY <1>1 DEF QInv, LostToStale
<1>. QED
  BY <1>2, <1>4, <1>5, <1>6, <1>7

\* A step leaves the fields of every tag but t alone.
OthersUntouched(t) ==
    \A u \in Tags \ {t} :
        /\ flags'[u] = flags[u] /\ sqe'[u] = sqe[u] /\ cqe'[u] = cqe[u]
        /\ (u \in busy' <=> u \in busy)
        /\ drv'[u] = drv[u] /\ outcome'[u] = outcome[u] /\ result'[u] = result[u]

\* Every tag but t stays in its place and in the same outstanding sets.
OthersStay(t) ==
    \A u \in Tags \ {t} :
        /\ PlaceKept(u)
        /\ (u \in CmdTags' <=> u \in CmdTags)
        /\ (u \in IoTags' <=> u \in IoTags)

\* A step that touches one tag leaves every other tag where it was.
LEMMA OthersKept ==
    ASSUME OwnedOnce, NEW t \in Tags, OthersUntouched(t), qpc' = qpc,
           t \in CmdTags' \/ t \in IoTags' \/ Retired(t)' \/ Lost(t)'
    PROVE  OthersStay(t) /\ OwnedOnce'
<1>1. \A u \in Tags \ {t} : PlaceKept(u)
  BY SameTag DEF OthersUntouched
<1>2. \A u \in Tags \ {t} : (u \in CmdTags' <=> u \in CmdTags) /\ (u \in IoTags' <=> u \in IoTags)
  BY <1>1 DEF CmdTags, IoTags, PlaceKept, Tags
<1>3. OwnedOnce'
  BY <1>1 DEF OwnedOnce, CmdTags, IoTags, PlaceKept
<1>. QED
  BY <1>1, <1>2, <1>3 DEF OthersStay

\* An aborted command leaves its tag free for good.
LEMMA HandleAbortQInv == ASSUME QInv, NEW t \in Tags, HandleAbort(t) PROVE QInv'
<1> USE QueueAssumption DEF thread, slots, rings, driver, setup
<1>q. TypeOK /\ OwnedOnce /\ Counters /\ CommitEarned /\ StopAfterDrain /\ LostToStale
  BY DEF QInv
<1>1. AbortCqe(t)
  BY <1>q DEF HandleAbort, TypeOK, OwnedOnce, Fresh, FetchSqe, WithDrv, Delivered, TargetSqe,
         Running, TargetCqe, CommitSqe, AbortCqe, ErrCqe, Retired, Lost
<1>2. Retired(t)'
  BY <1>1, <1>q DEF HandleAbort, TypeOK, AbortCqe, ErrCqe, Retired, Lost
<1>3. t \in CmdTags /\ t \notin IoTags
  BY <1>1 DEF CmdTags, IoTags, Fresh, FetchSqe, WithDrv, Delivered, TargetSqe,
         Running, TargetCqe, CommitSqe, AbortCqe, ErrCqe, Retired, Lost
<1>4. t \notin CmdTags' /\ t \notin IoTags'
  BY <1>2 DEF CmdTags, IoTags, Tags, Fresh, FetchSqe, WithDrv, Delivered, TargetSqe,
         Running, TargetCqe, CommitSqe, AbortCqe, ErrCqe, Retired, Lost
<1>o. OthersUntouched(t) /\ qpc' = qpc
  BY <1>q DEF HandleAbort, TypeOK, OthersUntouched
<1>5. OthersStay(t) /\ OwnedOnce'
  BY <1>2, <1>4, <1>o, <1>q, OthersKept
<1>6. Counters' /\ cmd_inflight' \in Nat /\ io_inflight' \in Nat
  <2> DEFINE c == Cardinality(CmdTags \ {t})
             d == Cardinality(IoTags \ {t})
  <2>1. c \in Nat /\ d \in Nat
    BY <1>5, CountMove DEF OthersStay
  <2>2. Cardinality(CmdTags) = c + 1 /\ Cardinality(IoTags) = d + 0
    BY <1>3, <1>5, CountMove DEF OthersStay
  <2>3. Cardinality(CmdTags') = c + 0 /\ Cardinality(IoTags') = d + 0
    BY <1>4, <1>5, CountMove DEF OthersStay
  <2> HIDE DEF c, d
  <2>. QED
    BY <1>q, <2>1, <2>2, <2>3 DEF Counters, HandleAbort
<1>7. TypeOK'
  <2>1. stopping' \in BOOLEAN /\ reapped' \in BOOLEAN /\ idle' \in BOOLEAN /\ etime' \in BOOLEAN
        /\ devstop' \in BOOLEAN /\ tgt' \in {"null", "loop"} /\ unsup' \in BOOLEAN
    BY <1>q DEF HandleAbort, TypeOK
  <2>2. /\ flags' \in [Tags -> SUBSET {"FETCH", "COMMIT", "FREE"}]
        /\ sqe' \in [Tags -> SUBSET Ops]
        /\ cqe' \in [Tags -> SUBSET {"ok", "abort", "err", "tgt"}]
    BY <1>q DEF HandleAbort, TypeOK, Ops
  <2>3. /\ busy' \in SUBSET Tags
        /\ drv' \in [Tags -> {"none", "fetched", "refused", "queued", "daemon"}]
        /\ outcome' \in [Tags -> {"none", "ok", "err"}]
        /\ result' \in [Tags -> {"none", "ok", "err"}]
        /\ buf' \in [Tags -> {"none", "data", "lost"}]
        /\ UNCHANGED <<qpc, next>> /\ stale' \in Nat
    BY <1>q DEF HandleAbort, TypeOK
  <2>. QED
    BY <1>6, <1>q, <2>1, <2>2, <2>3 DEF TypeOK
<1>8. CommitEarned'
  <2>1. \A u \in Tags \ {t} :
            /\ outcome'[u] = outcome[u] /\ result'[u] = result[u] /\ drv'[u] = drv[u]
            /\ (CommitSqe(u)' <=> CommitSqe(u)) /\ (TargetCqe(u)' <=> TargetCqe(u))
            /\ (Lost(u)' <=> Lost(u))
    BY <1>5, <1>o DEF OthersUntouched, OthersStay, PlaceKept
  <2>2. /\ CommitSqe(t)' => outcome'[t] # "none" /\ result'[t] = outcome'[t]
        /\ TargetCqe(t)' => outcome'[t] # "none"
        /\ drv'[t] = "daemon" /\ ~CommitSqe(t)' /\ ~TargetCqe(t)' /\ ~Lost(t)' => outcome'[t] = "none"
        /\ drv'[t] # "daemon" => outcome'[t] = "none"
    BY <1>1, <1>2, <1>q DEF HandleAbort, TypeOK, CommitEarned, Fresh, FetchSqe, WithDrv, Delivered, TargetSqe,
         Running, TargetCqe, CommitSqe, AbortCqe, ErrCqe, Retired, Lost
  <2>. QED
    BY <1>q, <2>1, <2>2 DEF CommitEarned, Tags
<1>9. StopAfterDrain'
  <2>1. qpc' = qpc /\ qpc \notin {"init", "failed"}
    BY <1>q, <1>1, <1>o DEF HandleAbort, StopAfterDrain, Fresh, FetchSqe, WithDrv, Delivered, TargetSqe,
         Running, TargetCqe, CommitSqe, AbortCqe, ErrCqe, Retired, Lost
  <2>2. stopping' \/ (\E u \in Tags : AbortCqe(u)') => (devstop /\ Drained)'
    BY <1>1, <1>2, <1>5, <1>q DEF HandleAbort, TypeOK, StopAfterDrain, Drained, OthersStay,
         PlaceKept, Tags, Fresh, FetchSqe, WithDrv, Delivered, TargetSqe,
         Running, TargetCqe, CommitSqe, AbortCqe, ErrCqe, Retired, Lost
  <2>. QED
    BY <1>q, <2>1, <2>2 DEF HandleAbort, StopAfterDrain, Tags
<1>10. LostToStale'
  BY <1>2, <1>5, <1>q DEF HandleAbort, LostToStale, OthersStay, PlaceKept, Tags, WithDrv, Delivered,
     TargetCqe, AbortCqe, Retired, Lost
<1>. QED
  BY <1>5, <1>6, <1>7, <1>8, <1>9, <1>10 DEF QInv

\* A refused command leaves its tag free for good.
LEMMA HandleErrorQInv == ASSUME QInv, NEW t \in Tags, HandleError(t) PROVE QInv'
<1> USE QueueAssumption DEF thread, slots, rings, driver, setup
<1>q. TypeOK /\ OwnedOnce /\ Counters /\ CommitEarned /\ StopAfterDrain /\ LostToStale
  BY DEF QInv
<1>1. ErrCqe(t)
  BY <1>q DEF HandleError, TypeOK, OwnedOnce, Fresh, FetchSqe, WithDrv, Delivered, TargetSqe,
         Running, TargetCqe, CommitSqe, AbortCqe, ErrCqe, Retired, Lost
<1>2. Retired(t)'
  BY <1>1, <1>q DEF HandleError, TypeOK, AbortCqe, ErrCqe, Retired, Lost
<1>3. t \in CmdTags /\ t \notin IoTags
  BY <1>1 DEF CmdTags, IoTags, Fresh, FetchSqe, WithDrv, Delivered, TargetSqe,
         Running, TargetCqe, CommitSqe, AbortCqe, ErrCqe, Retired, Lost
<1>4. t \notin CmdTags' /\ t \notin IoTags'
  BY <1>2 DEF CmdTags, IoTags, Tags, Fresh, FetchSqe, WithDrv, Delivered, TargetSqe,
         Running, TargetCqe, CommitSqe, AbortCqe, ErrCqe, Retired, Lost
<1>o. OthersUntouched(t) /\ qpc' = qpc
  BY <1>q DEF HandleError, TypeOK, OthersUntouched
<1>5. OthersStay(t) /\ OwnedOnce'
  BY <1>2, <1>4, <1>o, <1>q, OthersKept
<1>6. Counters' /\ cmd_inflight' \in Nat /\ io_inflight' \in Nat
  <2> DEFINE c == Cardinality(CmdTags \ {t})
             d == Cardinality(IoTags \ {t})
  <2>1. c \in Nat /\ d \in Nat
    BY <1>5, CountMove DEF OthersStay
  <2>2. Cardinality(CmdTags) = c + 1 /\ Cardinality(IoTags) = d + 0
    BY <1>3, <1>5, CountMove DEF OthersStay
  <2>3. Cardinality(CmdTags') = c + 0 /\ Cardinality(IoTags') = d + 0
    BY <1>4, <1>5, CountMove DEF OthersStay
  <2> HIDE DEF c, d
  <2>. QED
    BY <1>q, <2>1, <2>2, <2>3 DEF Counters, HandleError
<1>7. TypeOK'
  <2>1. stopping' \in BOOLEAN /\ reapped' \in BOOLEAN /\ idle' \in BOOLEAN /\ etime' \in BOOLEAN
        /\ devstop' \in BOOLEAN /\ tgt' \in {"null", "loop"} /\ unsup' \in BOOLEAN
    BY <1>q DEF HandleError, TypeOK
  <2>2. /\ flags' \in [Tags -> SUBSET {"FETCH", "COMMIT", "FREE"}]
        /\ sqe' \in [Tags -> SUBSET Ops]
        /\ cqe' \in [Tags -> SUBSET {"ok", "abort", "err", "tgt"}]
    BY <1>q DEF HandleError, TypeOK, Ops
  <2>3. /\ busy' \in SUBSET Tags
        /\ drv' \in [Tags -> {"none", "fetched", "refused", "queued", "daemon"}]
        /\ outcome' \in [Tags -> {"none", "ok", "err"}]
        /\ result' \in [Tags -> {"none", "ok", "err"}]
        /\ buf' \in [Tags -> {"none", "data", "lost"}]
        /\ UNCHANGED <<qpc, next>> /\ stale' \in Nat
    BY <1>q DEF HandleError, TypeOK
  <2>. QED
    BY <1>6, <1>q, <2>1, <2>2, <2>3 DEF TypeOK
<1>8. CommitEarned'
  <2>1. \A u \in Tags \ {t} :
            /\ outcome'[u] = outcome[u] /\ result'[u] = result[u] /\ drv'[u] = drv[u]
            /\ (CommitSqe(u)' <=> CommitSqe(u)) /\ (TargetCqe(u)' <=> TargetCqe(u))
            /\ (Lost(u)' <=> Lost(u))
    BY <1>5, <1>o DEF OthersUntouched, OthersStay, PlaceKept
  <2>2. /\ CommitSqe(t)' => outcome'[t] # "none" /\ result'[t] = outcome'[t]
        /\ TargetCqe(t)' => outcome'[t] # "none"
        /\ drv'[t] = "daemon" /\ ~CommitSqe(t)' /\ ~TargetCqe(t)' /\ ~Lost(t)' => outcome'[t] = "none"
        /\ drv'[t] # "daemon" => outcome'[t] = "none"
    BY <1>1, <1>2, <1>q DEF HandleError, TypeOK, CommitEarned, Fresh, FetchSqe, WithDrv, Delivered, TargetSqe,
         Running, TargetCqe, CommitSqe, AbortCqe, ErrCqe, Retired, Lost
  <2>. QED
    BY <1>q, <2>1, <2>2 DEF CommitEarned, Tags
<1>9. StopAfterDrain'
  <2>1. qpc' = qpc /\ qpc \notin {"init", "failed"}
    BY <1>q, <1>1, <1>o DEF HandleError, StopAfterDrain, Fresh, FetchSqe, WithDrv, Delivered, TargetSqe,
         Running, TargetCqe, CommitSqe, AbortCqe, ErrCqe, Retired, Lost
  <2>2. stopping' \/ (\E u \in Tags : AbortCqe(u)') => (devstop /\ Drained)'
    BY <1>1, <1>2, <1>5, <1>q DEF HandleError, TypeOK, StopAfterDrain, Drained, OthersStay,
         PlaceKept, Tags, Fresh, FetchSqe, WithDrv, Delivered, TargetSqe,
         Running, TargetCqe, CommitSqe, AbortCqe, ErrCqe, Retired, Lost
  <2>. QED
    BY <1>q, <2>1, <2>2 DEF HandleError, StopAfterDrain, Tags
<1>10. LostToStale'
  BY <1>2, <1>5, <1>q DEF HandleError, LostToStale, OthersStay, PlaceKept, Tags, WithDrv, Delivered,
     TargetCqe, AbortCqe, Retired, Lost
<1>. QED
  BY <1>5, <1>6, <1>7, <1>8, <1>9, <1>10 DEF QInv

\* What ublk_complete_io does to its tag and to the ring, and that it leaves every
\* other tag alone.
Completes(t, res, cmds, junk) ==
    /\ \/ CommitSqe(t)' /\ cmd_inflight' = cmds + 1
       \/ Lost(t)' /\ cmd_inflight' = cmds /\ junk > 0
    /\ result'[t] = res
    /\ \A u \in Tags \ {t} : flags'[u] = flags[u] /\ sqe'[u] = sqe[u] /\ result'[u] = result[u]
    /\ flags' \in [Tags -> SUBSET {"FETCH", "COMMIT", "FREE"}]
    /\ sqe' \in [Tags -> SUBSET Ops]
    /\ result' \in [Tags -> {"none", "ok", "err"}]

\* The answer of a tag becomes a commit; it is lost only to unprepared entries.
LEMMA CompleteMoves ==
    ASSUME TypeOK, OwnedOnce, NEW t \in Tags, NEW res \in {"none", "ok", "err"}, NEW cmds,
           NEW junk \in Nat, ublk_complete_io(t, res, cmds, junk),
           cqe[t] # {}, flags[t] = {}, sqe[t] = {},
           cqe'[t] = {}, t \notin busy', drv'[t] = "daemon"
    PROVE  Completes(t, res, cmds, junk)
<1>1. ~SqeAvailable(junk) => junk > 0
  <2>1. SqeAvailable(0)
    BY SqRoom
  <2>. QED
    BY <2>1
<1>2. CASE SqeAvailable(junk)
  <2>1. flags'[t] = {} /\ sqe'[t] = {"commit"} /\ cmd_inflight' = cmds + 1
    BY <1>2 DEF ublk_complete_io, TypeOK
  <2>2. CommitSqe(t)'
    BY <2>1 DEF CommitSqe
  <2>3. /\ flags' \in [Tags -> SUBSET {"FETCH", "COMMIT", "FREE"}]
        /\ sqe' \in [Tags -> SUBSET Ops]
        /\ result' \in [Tags -> {"none", "ok", "err"}]
    BY <1>2 DEF ublk_complete_io, TypeOK, Ops
  <2>. QED
    BY <1>2, <2>1, <2>2, <2>3 DEF Completes, ublk_complete_io, TypeOK
<1>3. CASE ~SqeAvailable(junk)
  <2>1. flags'[t] = {"COMMIT", "FREE"} /\ sqe' = sqe /\ cmd_inflight' = cmds
    BY <1>3 DEF ublk_complete_io, TypeOK
  <2>2. Lost(t)'
    BY <2>1 DEF Lost
  <2>3. /\ flags' \in [Tags -> SUBSET {"FETCH", "COMMIT", "FREE"}]
        /\ sqe' \in [Tags -> SUBSET Ops]
        /\ result' \in [Tags -> {"none", "ok", "err"}]
    BY <1>3 DEF ublk_complete_io, TypeOK
  <2>. QED
    BY <1>1, <1>3, <2>1, <2>2, <2>3 DEF Completes, ublk_complete_io, TypeOK
<1>. QED
  BY <1>2, <1>3

\* A finished target I/O becomes a commit.
LEMMA HandleTargetQInv == ASSUME QInv, NEW t \in Tags, HandleTarget(t) PROVE QInv'
<1> USE QueueAssumption DEF thread, slots, rings, driver, setup
<1>q. TypeOK /\ OwnedOnce /\ Counters /\ CommitEarned /\ StopAfterDrain /\ LostToStale
  BY DEF QInv
<1>1. TargetCqe(t)
  BY <1>q DEF HandleTarget, TypeOK, OwnedOnce, Fresh, FetchSqe, WithDrv, Delivered, TargetSqe,
         Running, TargetCqe, CommitSqe, AbortCqe, ErrCqe, Retired, Lost
<1>c. Completes(t, outcome[t], cmd_inflight, stale)
  <2>1. cqe[t] # {} /\ flags[t] = {} /\ sqe[t] = {} /\ cqe'[t] = {} /\ t \notin busy' /\ drv'[t] = "daemon"
    BY <1>1, <1>q DEF HandleTarget, TargetCqe, TypeOK
  <2>2. ublk_complete_io(t, outcome[t], cmd_inflight, stale) /\ stale \in Nat
        /\ outcome[t] \in {"none", "ok", "err"}
    BY <1>q DEF HandleTarget, TypeOK
  <2>. QED
    BY <1>q, <2>1, <2>2, CompleteMoves
<1>2. \/ CommitSqe(t)' /\ cmd_inflight' = cmd_inflight + 1
      \/ Lost(t)' /\ cmd_inflight' = cmd_inflight /\ stale > 0
  BY <1>c DEF Completes
<1>s. stale' = stale /\ tgt' = tgt /\ unsup' = unsup
  BY DEF HandleTarget
<1>e. outcome' = outcome /\ outcome[t] # "none" /\ result'[t] = outcome[t] /\ drv'[t] = "daemon"
      /\ (CommitSqe(t)' \/ Lost(t)')
  BY <1>1, <1>c, <1>q DEF HandleTarget, CommitEarned, Completes, TargetCqe
<1>3. t \notin CmdTags /\ t \in IoTags
  BY <1>1 DEF CmdTags, IoTags, Fresh, FetchSqe, WithDrv, Delivered, TargetSqe,
         Running, TargetCqe, CommitSqe, AbortCqe, ErrCqe, Retired, Lost
<1>4. t \notin IoTags' /\ (t \in CmdTags' <=> CommitSqe(t)')
  BY <1>2 DEF CmdTags, IoTags, Tags, Fresh, FetchSqe, WithDrv, Delivered, TargetSqe,
         Running, TargetCqe, CommitSqe, AbortCqe, ErrCqe, Retired, Lost
<1>o. OthersUntouched(t) /\ qpc' = qpc
  BY <1>c, <1>q DEF HandleTarget, TypeOK, OthersUntouched, Completes
<1>5. OthersStay(t) /\ OwnedOnce'
  BY <1>2, <1>4, <1>o, <1>q, OthersKept
<1>6. Counters' /\ cmd_inflight' \in Nat /\ io_inflight' \in Nat
  <2> DEFINE c == Cardinality(CmdTags \ {t})
             d == Cardinality(IoTags \ {t})
  <2>1. c \in Nat /\ d \in Nat
    BY <1>5, CountMove DEF OthersStay
  <2>2. Cardinality(CmdTags) = c + 0 /\ Cardinality(IoTags) = d + 1
    BY <1>3, <1>5, CountMove DEF OthersStay
  <2>3. /\ Cardinality(IoTags') = d + 0
        /\ CommitSqe(t)' => Cardinality(CmdTags') = c + 1
        /\ ~CommitSqe(t)' => Cardinality(CmdTags') = c + 0
    BY <1>4, <1>5, CountMove DEF OthersStay
  <2>4. Lost(t)' => ~CommitSqe(t)'
    BY DEF Lost, CommitSqe
  <2> HIDE DEF c, d
  <2>. QED
    BY <1>2, <1>q, <2>1, <2>2, <2>3, <2>4 DEF Counters, HandleTarget
<1>7. TypeOK'
  <2>1. stopping' \in BOOLEAN /\ reapped' \in BOOLEAN /\ idle' \in BOOLEAN /\ etime' \in BOOLEAN
        /\ devstop' \in BOOLEAN /\ tgt' \in {"null", "loop"} /\ unsup' \in BOOLEAN
    BY <1>q DEF HandleTarget, TypeOK
  <2>2. /\ flags' \in [Tags -> SUBSET {"FETCH", "COMMIT", "FREE"}]
        /\ sqe' \in [Tags -> SUBSET Ops]
        /\ result' \in [Tags -> {"none", "ok", "err"}]
    BY <1>c DEF Completes
  <2>3. cqe' \in [Tags -> SUBSET {"ok", "abort", "err", "tgt"}]
    BY <1>q DEF HandleTarget, TypeOK
  <2>4. /\ busy' \in SUBSET Tags
        /\ drv' \in [Tags -> {"none", "fetched", "refused", "queued", "daemon"}]
        /\ outcome' \in [Tags -> {"none", "ok", "err"}]
        /\ buf' \in [Tags -> {"none", "data", "lost"}]
        /\ UNCHANGED <<qpc, next>> /\ stale' \in Nat
    BY <1>q DEF HandleTarget, TypeOK
  <2>. QED
    BY <1>6, <1>q, <2>1, <2>2, <2>3, <2>4 DEF TypeOK
<1>8. CommitEarned'
  <2>1. \A u \in Tags \ {t} :
            /\ outcome'[u] = outcome[u] /\ result'[u] = result[u] /\ drv'[u] = drv[u]
            /\ (CommitSqe(u)' <=> CommitSqe(u)) /\ (TargetCqe(u)' <=> TargetCqe(u))
            /\ (Lost(u)' <=> Lost(u))
    BY <1>5, <1>o DEF OthersUntouched, OthersStay, PlaceKept
  <2>2. /\ CommitSqe(t)' => outcome'[t] # "none" /\ result'[t] = outcome'[t]
        /\ TargetCqe(t)' => outcome'[t] # "none"
        /\ drv'[t] = "daemon" /\ ~CommitSqe(t)' /\ ~TargetCqe(t)' /\ ~Lost(t)' => outcome'[t] = "none"
        /\ drv'[t] # "daemon" => outcome'[t] = "none"
    BY <1>e
  <2>. QED
    BY <1>q, <2>1, <2>2 DEF CommitEarned, Tags
<1>9. StopAfterDrain'
  <2>1. qpc' = qpc /\ qpc \notin {"init", "failed", "exited"}
    BY <1>o DEF HandleTarget
  <2>2. ~stopping' /\ \A u \in Tags : ~AbortCqe(u)'
    <3>1. ~stopping /\ \A u \in Tags : ~AbortCqe(u)
      BY <1>1, <1>q DEF StopAfterDrain, Drained, TargetCqe, AbortCqe
    <3>2. \A u \in Tags \ {t} : ~AbortCqe(u)'
      BY <1>5, <3>1 DEF OthersStay, PlaceKept
    <3>3. ~AbortCqe(t)'
      BY <1>2 DEF TargetSqe, CommitSqe, Lost, AbortCqe
    <3>4. ~stopping'
      BY <3>1 DEF HandleTarget
    <3>. QED
      BY <3>2, <3>3, <3>4
  <2>. QED
    BY <1>q, <2>1, <2>2 DEF StopAfterDrain
<1>10. LostToStale'
  <2>1. \A u \in Tags \ {t} : Lost(u)' <=> Lost(u)
    BY <1>5 DEF OthersStay, PlaceKept
  <2>2. \A u \in Tags : Lost(u)' => stale' > 0
    BY <1>2, <1>s, <1>q, <2>1 DEF LostToStale, TypeOK, TargetSqe, CommitSqe, Lost
  <2>3. qpc' # "astray"
    BY <1>o DEF HandleTarget
  <2>. QED
    BY <1>s, <1>q, <2>2, <2>3 DEF LostToStale
<1>. QED
  BY <1>5, <1>6, <1>7, <1>8, <1>9, <1>10 DEF QInv

\* A request claims a command that is with the driver.
LEMMA NewRequestQInv == ASSUME QInv, NEW t \in Tags, NewRequest(t) PROVE QInv'
<1> USE QueueAssumption DEF thread, slots, rings, driver, setup
<1>q. TypeOK /\ OwnedOnce /\ Counters /\ CommitEarned /\ StopAfterDrain /\ LostToStale
  BY DEF QInv
<1>1. WithDrv(t)
  BY <1>q DEF NewRequest, TypeOK, OwnedOnce, Fresh, FetchSqe, WithDrv, Delivered, TargetSqe,
         Running, TargetCqe, CommitSqe, AbortCqe, ErrCqe, Retired, Lost
<1>2. WithDrv(t)'
  BY <1>1, <1>q DEF NewRequest, TypeOK, WithDrv
<1>3. t \in CmdTags /\ t \notin IoTags
  BY <1>1 DEF CmdTags, IoTags, Fresh, FetchSqe, WithDrv, Delivered, TargetSqe,
         Running, TargetCqe, CommitSqe, AbortCqe, ErrCqe, Retired, Lost
<1>4. t \in CmdTags' /\ t \notin IoTags'
  BY <1>2 DEF CmdTags, IoTags, Tags, Fresh, FetchSqe, WithDrv, Delivered, TargetSqe,
         Running, TargetCqe, CommitSqe, AbortCqe, ErrCqe, Retired, Lost
<1>o. OthersUntouched(t) /\ qpc' = qpc
  BY <1>q DEF NewRequest, TypeOK, OthersUntouched
<1>5. OthersStay(t) /\ OwnedOnce'
  BY <1>2, <1>4, <1>o, <1>q, OthersKept
<1>6. Counters' /\ cmd_inflight' \in Nat /\ io_inflight' \in Nat
  <2> DEFINE c == Cardinality(CmdTags \ {t})
             d == Cardinality(IoTags \ {t})
  <2>1. c \in Nat /\ d \in Nat
    BY <1>5, CountMove DEF OthersStay
  <2>2. Cardinality(CmdTags) = c + 1 /\ Cardinality(IoTags) = d + 0
    BY <1>3, <1>5, CountMove DEF OthersStay
  <2>3. Cardinality(CmdTags') = c + 1 /\ Cardinality(IoTags') = d + 0
    BY <1>4, <1>5, CountMove DEF OthersStay
  <2> HIDE DEF c, d
  <2>. QED
    BY <1>q, <2>1, <2>2, <2>3 DEF Counters, NewRequest
<1>7. TypeOK'
  <2>1. stopping' \in BOOLEAN /\ reapped' \in BOOLEAN /\ idle' \in BOOLEAN /\ etime' \in BOOLEAN
        /\ devstop' \in BOOLEAN /\ tgt' \in {"null", "loop"} /\ unsup' \in BOOLEAN
    BY <1>q DEF NewRequest, TypeOK
  <2>2. /\ flags' \in [Tags -> SUBSET {"FETCH", "COMMIT", "FREE"}]
        /\ sqe' \in [Tags -> SUBSET Ops]
        /\ cqe' \in [Tags -> SUBSET {"ok", "abort", "err", "tgt"}]
    BY <1>q DEF NewRequest, TypeOK, Ops
  <2>3. /\ busy' \in SUBSET Tags
        /\ drv' \in [Tags -> {"none", "fetched", "refused", "queued", "daemon"}]
        /\ outcome' \in [Tags -> {"none", "ok", "err"}]
        /\ result' \in [Tags -> {"none", "ok", "err"}]
        /\ buf' \in [Tags -> {"none", "data", "lost"}]
        /\ UNCHANGED <<qpc, next>> /\ stale' \in Nat
    BY <1>q DEF NewRequest, TypeOK
  <2>. QED
    BY <1>6, <1>q, <2>1, <2>2, <2>3 DEF TypeOK
<1>8. CommitEarned'
  <2>1. \A u \in Tags \ {t} :
            /\ outcome'[u] = outcome[u] /\ result'[u] = result[u] /\ drv'[u] = drv[u]
            /\ (CommitSqe(u)' <=> CommitSqe(u)) /\ (TargetCqe(u)' <=> TargetCqe(u))
            /\ (Lost(u)' <=> Lost(u))
    BY <1>5, <1>o DEF OthersUntouched, OthersStay, PlaceKept
  <2>2. /\ CommitSqe(t)' => outcome'[t] # "none" /\ result'[t] = outcome'[t]
        /\ TargetCqe(t)' => outcome'[t] # "none"
        /\ drv'[t] = "daemon" /\ ~CommitSqe(t)' /\ ~TargetCqe(t)' /\ ~Lost(t)' => outcome'[t] = "none"
        /\ drv'[t] # "daemon" => outcome'[t] = "none"
    BY <1>1, <1>2, <1>q DEF NewRequest, TypeOK, CommitEarned, Fresh, FetchSqe, WithDrv, Delivered, TargetSqe,
         Running, TargetCqe, CommitSqe, AbortCqe, ErrCqe, Retired, Lost
  <2>. QED
    BY <1>q, <2>1, <2>2 DEF CommitEarned, Tags
<1>9. StopAfterDrain'
  <2>1. qpc' = qpc /\ qpc \notin {"init", "failed"}
    BY <1>q, <1>1, <1>o DEF NewRequest, StopAfterDrain, Fresh, FetchSqe, WithDrv, Delivered, TargetSqe,
         Running, TargetCqe, CommitSqe, AbortCqe, ErrCqe, Retired, Lost
  <2>2. stopping' \/ (\E u \in Tags : AbortCqe(u)') => (devstop /\ Drained)'
    <3>1. ~stopping /\ \A u \in Tags : ~AbortCqe(u)
      BY <1>q DEF NewRequest, StopAfterDrain, Drained
    <3>2. \A u \in Tags \ {t} : ~AbortCqe(u)'
      BY <1>5, <3>1 DEF OthersStay, PlaceKept
    <3>3. ~AbortCqe(t)' /\ ~stopping'
      BY <1>2, <3>1 DEF NewRequest, WithDrv, AbortCqe, ErrCqe, Retired, Lost
    <3>. QED
      BY <3>2, <3>3
  <2>. QED
    BY <1>q, <2>1, <2>2 DEF NewRequest, StopAfterDrain, Tags
<1>10. LostToStale'
  BY <1>2, <1>5, <1>q DEF NewRequest, LostToStale, OthersStay, PlaceKept, Tags, WithDrv, Delivered,
     TargetCqe, AbortCqe, Retired, Lost
<1>. QED
  BY <1>5, <1>6, <1>7, <1>8, <1>9, <1>10 DEF QInv

\* A request reaches the queue thread.
LEMMA DeliverQInv == ASSUME QInv, NEW t \in Tags, Deliver(t) PROVE QInv'
<1> USE QueueAssumption DEF thread, slots, rings, driver, setup
<1>q. TypeOK /\ OwnedOnce /\ Counters /\ CommitEarned /\ StopAfterDrain /\ LostToStale
  BY DEF QInv
<1>1. WithDrv(t)
  BY <1>q DEF Deliver, TypeOK, OwnedOnce, Fresh, FetchSqe, WithDrv, Delivered, TargetSqe,
         Running, TargetCqe, CommitSqe, AbortCqe, ErrCqe, Retired, Lost
<1>2. Delivered(t)'
  BY <1>1, <1>q DEF Deliver, TypeOK, WithDrv, Delivered
<1>3. t \in CmdTags /\ t \notin IoTags
  BY <1>1 DEF CmdTags, IoTags, Fresh, FetchSqe, WithDrv, Delivered, TargetSqe,
         Running, TargetCqe, CommitSqe, AbortCqe, ErrCqe, Retired, Lost
<1>4. t \in CmdTags' /\ t \notin IoTags'
  BY <1>2 DEF CmdTags, IoTags, Tags, Fresh, FetchSqe, WithDrv, Delivered, TargetSqe,
         Running, TargetCqe, CommitSqe, AbortCqe, ErrCqe, Retired, Lost
<1>o. OthersUntouched(t) /\ qpc' = qpc
  BY <1>q DEF Deliver, TypeOK, OthersUntouched
<1>5. OthersStay(t) /\ OwnedOnce'
  BY <1>2, <1>4, <1>o, <1>q, OthersKept
<1>6. Counters' /\ cmd_inflight' \in Nat /\ io_inflight' \in Nat
  <2> DEFINE c == Cardinality(CmdTags \ {t})
             d == Cardinality(IoTags \ {t})
  <2>1. c \in Nat /\ d \in Nat
    BY <1>5, CountMove DEF OthersStay
  <2>2. Cardinality(CmdTags) = c + 1 /\ Cardinality(IoTags) = d + 0
    BY <1>3, <1>5, CountMove DEF OthersStay
  <2>3. Cardinality(CmdTags') = c + 1 /\ Cardinality(IoTags') = d + 0
    BY <1>4, <1>5, CountMove DEF OthersStay
  <2> HIDE DEF c, d
  <2>. QED
    BY <1>q, <2>1, <2>2, <2>3 DEF Counters, Deliver
<1>7. TypeOK'
  <2>1. stopping' \in BOOLEAN /\ reapped' \in BOOLEAN /\ idle' \in BOOLEAN /\ etime' \in BOOLEAN
        /\ devstop' \in BOOLEAN /\ tgt' \in {"null", "loop"} /\ unsup' \in BOOLEAN
    BY <1>q DEF Deliver, TypeOK
  <2>2. /\ flags' \in [Tags -> SUBSET {"FETCH", "COMMIT", "FREE"}]
        /\ sqe' \in [Tags -> SUBSET Ops]
        /\ cqe' \in [Tags -> SUBSET {"ok", "abort", "err", "tgt"}]
    BY <1>q DEF Deliver, TypeOK, Ops
  <2>3. /\ busy' \in SUBSET Tags
        /\ drv' \in [Tags -> {"none", "fetched", "refused", "queued", "daemon"}]
        /\ outcome' \in [Tags -> {"none", "ok", "err"}]
        /\ result' \in [Tags -> {"none", "ok", "err"}]
        /\ buf' \in [Tags -> {"none", "data", "lost"}]
        /\ UNCHANGED <<qpc, next>> /\ stale' \in Nat
    BY <1>q DEF Deliver, TypeOK
  <2>. QED
    BY <1>6, <1>q, <2>1, <2>2, <2>3 DEF TypeOK
<1>8. CommitEarned'
  <2>1. \A u \in Tags \ {t} :
            /\ outcome'[u] = outcome[u] /\ result'[u] = result[u] /\ drv'[u] = drv[u]
            /\ (CommitSqe(u)' <=> CommitSqe(u)) /\ (TargetCqe(u)' <=> TargetCqe(u))
            /\ (Lost(u)' <=> Lost(u))
    BY <1>5, <1>o DEF OthersUntouched, OthersStay, PlaceKept
  <2>2. /\ CommitSqe(t)' => outcome'[t] # "none" /\ result'[t] = outcome'[t]
        /\ TargetCqe(t)' => outcome'[t] # "none"
        /\ drv'[t] = "daemon" /\ ~CommitSqe(t)' /\ ~TargetCqe(t)' /\ ~Lost(t)' => outcome'[t] = "none"
        /\ drv'[t] # "daemon" => outcome'[t] = "none"
    BY <1>1, <1>2, <1>q DEF Deliver, TypeOK, CommitEarned, Fresh, FetchSqe, WithDrv, Delivered, TargetSqe,
         Running, TargetCqe, CommitSqe, AbortCqe, ErrCqe, Retired, Lost
  <2>. QED
    BY <1>q, <2>1, <2>2 DEF CommitEarned, Tags
<1>9. StopAfterDrain'
  <2>1. qpc' = qpc /\ qpc \notin {"init", "failed"}
    BY <1>q, <1>1, <1>o DEF Deliver, StopAfterDrain, Fresh, FetchSqe, WithDrv, Delivered, TargetSqe,
         Running, TargetCqe, CommitSqe, AbortCqe, ErrCqe, Retired, Lost
  <2>2. stopping' \/ (\E u \in Tags : AbortCqe(u)') => (devstop /\ Drained)'
    <3>1. ~stopping /\ \A u \in Tags : ~AbortCqe(u)
      BY <1>q DEF Deliver, StopAfterDrain, Drained
    <3>2. \A u \in Tags \ {t} : ~AbortCqe(u)'
      BY <1>5, <3>1 DEF OthersStay, PlaceKept
    <3>3. ~AbortCqe(t)' /\ ~stopping'
      BY <1>2, <3>1 DEF Deliver, Delivered, AbortCqe, ErrCqe, Retired, Lost
    <3>. QED
      BY <3>2, <3>3
  <2>. QED
    BY <1>q, <2>1, <2>2 DEF Deliver, StopAfterDrain, Tags
<1>10. LostToStale'
  BY <1>2, <1>5, <1>q DEF Deliver, LostToStale, OthersStay, PlaceKept, Tags, WithDrv, Delivered,
     TargetCqe, AbortCqe, Retired, Lost
<1>. QED
  BY <1>5, <1>6, <1>7, <1>8, <1>9, <1>10 DEF QInv

\* The target I/O completes.
LEMMA TargetDoneQInv == ASSUME QInv, NEW t \in Tags, TargetDone(t) PROVE QInv'
<1> USE QueueAssumption DEF thread, slots, rings, driver, setup
<1>q. TypeOK /\ OwnedOnce /\ Counters /\ CommitEarned /\ StopAfterDrain /\ LostToStale
  BY DEF QInv
<1>1. Running(t)
  BY <1>q DEF TargetDone, TypeOK, OwnedOnce, Fresh, FetchSqe, WithDrv, Delivered, TargetSqe,
         Running, TargetCqe, CommitSqe, AbortCqe, ErrCqe, Retired, Lost
<1>2. TargetCqe(t)'
  BY <1>1, <1>q DEF TargetDone, TypeOK, Running, TargetCqe
<1>3. t \notin CmdTags /\ t \in IoTags
  BY <1>1 DEF CmdTags, IoTags, Fresh, FetchSqe, WithDrv, Delivered, TargetSqe,
         Running, TargetCqe, CommitSqe, AbortCqe, ErrCqe, Retired, Lost
<1>4. t \notin CmdTags' /\ t \in IoTags'
  BY <1>2 DEF CmdTags, IoTags, Tags, Fresh, FetchSqe, WithDrv, Delivered, TargetSqe,
         Running, TargetCqe, CommitSqe, AbortCqe, ErrCqe, Retired, Lost
<1>o. OthersUntouched(t) /\ qpc' = qpc
  BY <1>q DEF TargetDone, TypeOK, OthersUntouched
<1>5. OthersStay(t) /\ OwnedOnce'
  BY <1>2, <1>4, <1>o, <1>q, OthersKept
<1>6. Counters' /\ cmd_inflight' \in Nat /\ io_inflight' \in Nat
  <2> DEFINE c == Cardinality(CmdTags \ {t})
             d == Cardinality(IoTags \ {t})
  <2>1. c \in Nat /\ d \in Nat
    BY <1>5, CountMove DEF OthersStay
  <2>2. Cardinality(CmdTags) = c + 0 /\ Cardinality(IoTags) = d + 1
    BY <1>3, <1>5, CountMove DEF OthersStay
  <2>3. Cardinality(CmdTags') = c + 0 /\ Cardinality(IoTags') = d + 1
    BY <1>4, <1>5, CountMove DEF OthersStay
  <2> HIDE DEF c, d
  <2>. QED
    BY <1>q, <2>1, <2>2, <2>3 DEF Counters, TargetDone
<1>7. TypeOK'
  <2>1. stopping' \in BOOLEAN /\ reapped' \in BOOLEAN /\ idle' \in BOOLEAN /\ etime' \in BOOLEAN
        /\ devstop' \in BOOLEAN /\ tgt' \in {"null", "loop"} /\ unsup' \in BOOLEAN
    BY <1>q DEF TargetDone, TypeOK
  <2>2. /\ flags' \in [Tags -> SUBSET {"FETCH", "COMMIT", "FREE"}]
        /\ sqe' \in [Tags -> SUBSET Ops]
        /\ cqe' \in [Tags -> SUBSET {"ok", "abort", "err", "tgt"}]
    BY <1>q DEF TargetDone, TypeOK, Ops
  <2>3. /\ busy' \in SUBSET Tags
        /\ drv' \in [Tags -> {"none", "fetched", "refused", "queued", "daemon"}]
        /\ outcome' \in [Tags -> {"none", "ok", "err"}]
        /\ result' \in [Tags -> {"none", "ok", "err"}]
        /\ buf' \in [Tags -> {"none", "data", "lost"}]
        /\ UNCHANGED <<qpc, next>> /\ stale' \in Nat
    BY <1>q DEF TargetDone, TypeOK
  <2>. QED
    BY <1>6, <1>q, <2>1, <2>2, <2>3 DEF TypeOK
<1>8. CommitEarned'
  <2>1. \A u \in Tags \ {t} :
            /\ outcome'[u] = outcome[u] /\ result'[u] = result[u] /\ drv'[u] = drv[u]
            /\ (CommitSqe(u)' <=> CommitSqe(u)) /\ (TargetCqe(u)' <=> TargetCqe(u))
            /\ (Lost(u)' <=> Lost(u))
    BY <1>5, <1>o DEF OthersUntouched, OthersStay, PlaceKept
  <2>2. /\ CommitSqe(t)' => outcome'[t] # "none" /\ result'[t] = outcome'[t]
        /\ TargetCqe(t)' => outcome'[t] # "none"
        /\ drv'[t] = "daemon" /\ ~CommitSqe(t)' /\ ~TargetCqe(t)' /\ ~Lost(t)' => outcome'[t] = "none"
        /\ drv'[t] # "daemon" => outcome'[t] = "none"
    BY <1>1, <1>2, <1>q DEF TargetDone, TypeOK, CommitEarned, Fresh, FetchSqe, WithDrv, Delivered, TargetSqe,
         Running, TargetCqe, CommitSqe, AbortCqe, ErrCqe, Retired, Lost
  <2>. QED
    BY <1>q, <2>1, <2>2 DEF CommitEarned, Tags
<1>9. StopAfterDrain'
  <2>1. qpc' = qpc /\ qpc \notin {"init", "failed"}
    BY <1>q, <1>1, <1>o DEF TargetDone, StopAfterDrain, Fresh, FetchSqe, WithDrv, Delivered, TargetSqe,
         Running, TargetCqe, CommitSqe, AbortCqe, ErrCqe, Retired, Lost
  <2>2. stopping' \/ (\E u \in Tags : AbortCqe(u)') => (devstop /\ Drained)'
    BY <1>1, <1>2, <1>5, <1>q DEF TargetDone, TypeOK, StopAfterDrain, Drained, OthersStay,
         PlaceKept, Tags, Fresh, FetchSqe, WithDrv, Delivered, TargetSqe,
         Running, TargetCqe, CommitSqe, AbortCqe, ErrCqe, Retired, Lost
  <2>. QED
    BY <1>q, <2>1, <2>2 DEF TargetDone, StopAfterDrain, Tags
<1>10. LostToStale'
  BY <1>2, <1>5, <1>q DEF TargetDone, LostToStale, OthersStay, PlaceKept, Tags, WithDrv, Delivered,
     TargetCqe, AbortCqe, Retired, Lost
<1>. QED
  BY <1>5, <1>6, <1>7, <1>8, <1>9, <1>10 DEF QInv

\* A command is aborted after the drain.
LEMMA AbortCmdQInv == ASSUME QInv, NEW t \in Tags, AbortCmd(t) PROVE QInv'
<1> USE QueueAssumption DEF thread, slots, rings, driver, setup
<1>q. TypeOK /\ OwnedOnce /\ Counters /\ CommitEarned /\ StopAfterDrain /\ LostToStale
  BY DEF QInv
<1>1. WithDrv(t)
  BY <1>q DEF AbortCmd, TypeOK, OwnedOnce, Fresh, FetchSqe, WithDrv, Delivered, TargetSqe,
         Running, TargetCqe, CommitSqe, AbortCqe, ErrCqe, Retired, Lost
<1>2. AbortCqe(t)'
  BY <1>1, <1>q DEF AbortCmd, TypeOK, WithDrv, AbortCqe
<1>3. t \in CmdTags /\ t \notin IoTags
  BY <1>1 DEF CmdTags, IoTags, Fresh, FetchSqe, WithDrv, Delivered, TargetSqe,
         Running, TargetCqe, CommitSqe, AbortCqe, ErrCqe, Retired, Lost
<1>4. t \in CmdTags' /\ t \notin IoTags'
  BY <1>2 DEF CmdTags, IoTags, Tags, Fresh, FetchSqe, WithDrv, Delivered, TargetSqe,
         Running, TargetCqe, CommitSqe, AbortCqe, ErrCqe, Retired, Lost
<1>o. OthersUntouched(t) /\ qpc' = qpc
  BY <1>q DEF AbortCmd, TypeOK, OthersUntouched
<1>5. OthersStay(t) /\ OwnedOnce'
  BY <1>2, <1>4, <1>o, <1>q, OthersKept
<1>6. Counters' /\ cmd_inflight' \in Nat /\ io_inflight' \in Nat
  <2> DEFINE c == Cardinality(CmdTags \ {t})
             d == Cardinality(IoTags \ {t})
  <2>1. c \in Nat /\ d \in Nat
    BY <1>5, CountMove DEF OthersStay
  <2>2. Cardinality(CmdTags) = c + 1 /\ Cardinality(IoTags) = d + 0
    BY <1>3, <1>5, CountMove DEF OthersStay
  <2>3. Cardinality(CmdTags') = c + 1 /\ Cardinality(IoTags') = d + 0
    BY <1>4, <1>5, CountMove DEF OthersStay
  <2> HIDE DEF c, d
  <2>. QED
    BY <1>q, <2>1, <2>2, <2>3 DEF Counters, AbortCmd
<1>7. TypeOK'
  <2>1. stopping' \in BOOLEAN /\ reapped' \in BOOLEAN /\ idle' \in BOOLEAN /\ etime' \in BOOLEAN
        /\ devstop' \in BOOLEAN /\ tgt' \in {"null", "loop"} /\ unsup' \in BOOLEAN
    BY <1>q DEF AbortCmd, TypeOK
  <2>2. /\ flags' \in [Tags -> SUBSET {"FETCH", "COMMIT", "FREE"}]
        /\ sqe' \in [Tags -> SUBSET Ops]
        /\ cqe' \in [Tags -> SUBSET {"ok", "abort", "err", "tgt"}]
    BY <1>q DEF AbortCmd, TypeOK, Ops
  <2>3. /\ busy' \in SUBSET Tags
        /\ drv' \in [Tags -> {"none", "fetched", "refused", "queued", "daemon"}]
        /\ outcome' \in [Tags -> {"none", "ok", "err"}]
        /\ result' \in [Tags -> {"none", "ok", "err"}]
        /\ buf' \in [Tags -> {"none", "data", "lost"}]
        /\ UNCHANGED <<qpc, next>> /\ stale' \in Nat
    BY <1>q DEF AbortCmd, TypeOK
  <2>. QED
    BY <1>6, <1>q, <2>1, <2>2, <2>3 DEF TypeOK
<1>8. CommitEarned'
  <2>1. \A u \in Tags \ {t} :
            /\ outcome'[u] = outcome[u] /\ result'[u] = result[u] /\ drv'[u] = drv[u]
            /\ (CommitSqe(u)' <=> CommitSqe(u)) /\ (TargetCqe(u)' <=> TargetCqe(u))
            /\ (Lost(u)' <=> Lost(u))
    BY <1>5, <1>o DEF OthersUntouched, OthersStay, PlaceKept
  <2>2. /\ CommitSqe(t)' => outcome'[t] # "none" /\ result'[t] = outcome'[t]
        /\ TargetCqe(t)' => outcome'[t] # "none"
        /\ drv'[t] = "daemon" /\ ~CommitSqe(t)' /\ ~TargetCqe(t)' /\ ~Lost(t)' => outcome'[t] = "none"
        /\ drv'[t] # "daemon" => outcome'[t] = "none"
    BY <1>1, <1>2, <1>q DEF AbortCmd, TypeOK, CommitEarned, Fresh, FetchSqe, WithDrv, Delivered, TargetSqe,
         Running, TargetCqe, CommitSqe, AbortCqe, ErrCqe, Retired, Lost
  <2>. QED
    BY <1>q, <2>1, <2>2 DEF CommitEarned, Tags
<1>9. StopAfterDrain'
  <2>1. qpc' = qpc /\ qpc \notin {"init", "failed"}
    BY <1>q, <1>1, <1>o DEF AbortCmd, StopAfterDrain, Fresh, FetchSqe, WithDrv, Delivered, TargetSqe,
         Running, TargetCqe, CommitSqe, AbortCqe, ErrCqe, Retired, Lost
  <2>2. stopping' \/ (\E u \in Tags : AbortCqe(u)') => (devstop /\ Drained)'
    BY <1>1, <1>2, <1>5, <1>q DEF AbortCmd, TypeOK, StopAfterDrain, Drained, OthersStay,
         PlaceKept, Tags, Fresh, FetchSqe, WithDrv, Delivered, TargetSqe,
         Running, TargetCqe, CommitSqe, AbortCqe, ErrCqe, Retired, Lost
  <2>. QED
    BY <1>q, <2>1, <2>2 DEF AbortCmd, StopAfterDrain, Tags
<1>10. LostToStale'
  BY <1>2, <1>5, <1>q DEF AbortCmd, LostToStale, OthersStay, PlaceKept, Tags, WithDrv, Delivered,
     TargetCqe, AbortCqe, Retired, Lost
<1>. QED
  BY <1>5, <1>6, <1>7, <1>8, <1>9, <1>10 DEF QInv

\* A delivered request goes to the target, or is answered at once: by the null
\* target, and by the loop target when it cannot queue it.
LEMMA HandleRequestQInv == ASSUME QInv, NEW t \in Tags, HandleRequest(t) PROVE QInv'
<1> USE QueueAssumption DEF thread, slots, rings, driver, setup
<1>q. TypeOK /\ OwnedOnce /\ Counters /\ CommitEarned /\ StopAfterDrain /\ LostToStale
  BY DEF QInv
<1>1. Delivered(t)
  BY <1>q DEF HandleRequest, TypeOK, OwnedOnce, Fresh, FetchSqe, WithDrv, Delivered, TargetSqe,
         Running, TargetCqe, CommitSqe, AbortCqe, ErrCqe, Retired, Lost
<1>b. \/ QueueTarget(t)
      \/ \E res \in {"ok", "err"}, junk \in Nat :
            AnswerNow(t, res, junk) /\ (junk = stale \/ (junk = stale + 1 /\ unsup /\ tgt = "loop"))
  <2>1. stale \in Nat /\ stale + 1 \in Nat
    BY <1>q DEF TypeOK
  <2>. QED
    BY <2>1 DEF HandleRequest
<1>d. cqe[t] # {} /\ flags[t] = {} /\ sqe[t] = {} /\ cqe'[t] = {} /\ t \notin busy' /\ drv'[t] = "daemon"
  BY <1>1, <1>q DEF HandleRequest, Delivered, TypeOK
<1>c. ASSUME NEW res \in {"ok", "err"}, NEW junk \in Nat, AnswerNow(t, res, junk)
      PROVE  Completes(t, res, cmd_inflight - 1, junk)
  BY <1>c, <1>d, <1>q, CompleteMoves DEF AnswerNow
<1> DEFINE ToTarget == /\ TargetSqe(t)' /\ cmd_inflight' = cmd_inflight - 1
                       /\ io_inflight' = io_inflight + 1
                       /\ outcome' = outcome
           Answered == /\ CommitSqe(t)' \/ (Lost(t)' /\ stale' > 0)
                       /\ cmd_inflight' = IF CommitSqe(t)' THEN cmd_inflight - 1 + 1 ELSE cmd_inflight - 1
                       /\ io_inflight' = io_inflight
                       /\ outcome'[t] # "none" /\ result'[t] = outcome'[t]
           Typed == /\ flags' \in [Tags -> SUBSET {"FETCH", "COMMIT", "FREE"}]
                    /\ sqe' \in [Tags -> SUBSET Ops]
                    /\ result' \in [Tags -> {"none", "ok", "err"}]
                    /\ outcome' \in [Tags -> {"none", "ok", "err"}]
           Kept == \A u \in Tags \ {t} : /\ flags'[u] = flags[u] /\ sqe'[u] = sqe[u]
                                         /\ result'[u] = result[u] /\ outcome'[u] = outcome[u]
           StaleStep == /\ stale' = stale \/ (stale' = stale + 1 /\ unsup /\ tgt = "loop")
                        /\ UNCHANGED <<tgt, unsup>>
<1>f. (ToTarget \/ Answered) /\ Typed /\ Kept /\ StaleStep
  <2>1. CASE QueueTarget(t)
    <3>1. sqe'[t] = {"tgt"} /\ flags'[t] = {}
      BY <2>1, <1>d, <1>q DEF QueueTarget, TypeOK
    <3>2. TargetSqe(t)'
      BY <3>1, <1>d DEF TargetSqe
    <3>3. Typed
      BY <2>1, <1>q DEF QueueTarget, TypeOK, Ops
    <3>4. Kept
      BY <2>1, <1>q DEF QueueTarget, TypeOK
    <3>5. StaleStep
      BY <2>1 DEF QueueTarget, HandleRequest
    <3>. QED
      BY <2>1, <3>2, <3>3, <3>4, <3>5 DEF QueueTarget
  <2>2. ASSUME NEW res \in {"ok", "err"}, NEW junk \in Nat, AnswerNow(t, res, junk),
               junk = stale \/ (junk = stale + 1 /\ unsup /\ tgt = "loop")
        PROVE  (ToTarget \/ Answered) /\ Typed /\ Kept /\ StaleStep
    <3>1. Completes(t, res, cmd_inflight - 1, junk)
      BY <2>2, <1>c
    <3>2. stale' = junk /\ outcome' = [outcome EXCEPT ![t] = res] /\ io_inflight' = io_inflight
      BY <2>2 DEF AnswerNow
    <3>3. outcome'[t] = res /\ (\A u \in Tags \ {t} : outcome'[u] = outcome[u])
          /\ outcome' \in [Tags -> {"none", "ok", "err"}]
      BY <3>2, <1>q DEF TypeOK
    <3>4. Lost(t)' => ~CommitSqe(t)'
      BY DEF Lost, CommitSqe
    <3>5. Answered
      BY <3>1, <3>2, <3>3, <3>4 DEF Completes
    <3>6. Typed
      BY <3>1, <3>3 DEF Completes
    <3>7. Kept
      BY <3>1, <3>3 DEF Completes
    <3>8. StaleStep
      BY <2>2, <3>2 DEF HandleRequest
    <3>. QED
      BY <3>5, <3>6, <3>7, <3>8
  <2>. QED
    BY <1>b, <2>1, <2>2
<1>2. TargetSqe(t)' \/ CommitSqe(t)' \/ (Lost(t)' /\ stale' > 0)
  BY <1>f
<1>s. (stale' = stale \/ (stale' = stale + 1 /\ unsup /\ tgt = "loop")) /\ tgt' = tgt /\ unsup' = unsup
  BY <1>f
<1>e. /\ CommitSqe(t)' => outcome'[t] # "none" /\ result'[t] = outcome'[t]
      /\ ~TargetCqe(t)'
      /\ ~CommitSqe(t)' /\ ~Lost(t)' => outcome'[t] = "none"
      /\ drv'[t] = "daemon"
  <2>1. outcome[t] = "none"
    BY <1>1, <1>q DEF CommitEarned, Delivered, CommitSqe, TargetCqe, Lost
  <2>2. CommitSqe(t)' => ~TargetSqe(t)'
    BY DEF CommitSqe, TargetSqe
  <2>3. ~TargetCqe(t)'
    BY <1>d DEF TargetCqe
  <2>. QED
    BY <1>d, <1>f, <2>1, <2>2, <2>3
<1>3. t \in CmdTags /\ t \notin IoTags
  BY <1>1 DEF CmdTags, IoTags, Fresh, FetchSqe, WithDrv, Delivered, TargetSqe,
         Running, TargetCqe, CommitSqe, AbortCqe, ErrCqe, Retired, Lost
<1>4. /\ TargetSqe(t)' => t \notin CmdTags' /\ t \in IoTags' /\ ~CommitSqe(t)' /\ ~Lost(t)'
      /\ CommitSqe(t)' => t \in CmdTags' /\ t \notin IoTags' /\ ~Lost(t)'
      /\ Lost(t)' => t \notin CmdTags' /\ t \notin IoTags'
  BY DEF CmdTags, IoTags, Tags, Fresh, FetchSqe, WithDrv, Delivered, TargetSqe,
         Running, TargetCqe, CommitSqe, AbortCqe, ErrCqe, Retired, Lost
<1>o. OthersUntouched(t) /\ qpc' = qpc
  BY <1>f, <1>q DEF HandleRequest, TypeOK, OthersUntouched
<1>5. OthersStay(t) /\ OwnedOnce'
  BY <1>2, <1>4, <1>o, <1>q, OthersKept
<1>6. Counters' /\ cmd_inflight' \in Nat /\ io_inflight' \in Nat
  <2> DEFINE c == Cardinality(CmdTags \ {t})
             d == Cardinality(IoTags \ {t})
  <2>1. c \in Nat /\ d \in Nat
    BY <1>5, CountMove DEF OthersStay
  <2>2. Cardinality(CmdTags) = c + 1 /\ Cardinality(IoTags) = d
    BY <1>3, <1>5, <2>1, CountMove DEF OthersStay
  <2>3. /\ TargetSqe(t)' => Cardinality(CmdTags') = c /\ Cardinality(IoTags') = d + 1
        /\ CommitSqe(t)' => Cardinality(CmdTags') = c + 1 /\ Cardinality(IoTags') = d
        /\ Lost(t)' => Cardinality(CmdTags') = c /\ Cardinality(IoTags') = d
    BY <1>4, <1>5, <2>1, CountMove DEF OthersStay
  <2>4. cmd_inflight = c + 1 /\ io_inflight = d
    BY <1>q, <2>2 DEF Counters
  <2> HIDE DEF c, d
  <2>5. /\ cmd_inflight' = Cardinality(CmdTags') /\ io_inflight' = Cardinality(IoTags')
        /\ cmd_inflight' \in Nat /\ io_inflight' \in Nat
    BY <1>f, <1>4, <2>1, <2>3, <2>4
  <2>. QED
    BY <2>5 DEF Counters
<1> HIDE DEF ToTarget, Answered, Kept, StaleStep
<1>7. TypeOK'
  <2>1. stopping' \in BOOLEAN /\ reapped' \in BOOLEAN /\ idle' \in BOOLEAN /\ etime' \in BOOLEAN
        /\ devstop' \in BOOLEAN /\ tgt' \in {"null", "loop"} /\ unsup' \in BOOLEAN
    BY <1>q DEF HandleRequest, TypeOK
  <2>2. /\ flags' \in [Tags -> SUBSET {"FETCH", "COMMIT", "FREE"}]
        /\ sqe' \in [Tags -> SUBSET Ops]
        /\ result' \in [Tags -> {"none", "ok", "err"}]
    BY <1>f
  <2>3. cqe' \in [Tags -> SUBSET {"ok", "abort", "err", "tgt"}]
    BY <1>q DEF HandleRequest, TypeOK
  <2>4. /\ busy' \in SUBSET Tags
        /\ drv' \in [Tags -> {"none", "fetched", "refused", "queued", "daemon"}]
        /\ outcome' \in [Tags -> {"none", "ok", "err"}]
        /\ buf' \in [Tags -> {"none", "data", "lost"}]
        /\ UNCHANGED <<qpc, next>> /\ stale' \in Nat
    BY <1>f, <1>s, <1>q DEF HandleRequest, TypeOK
  <2>. QED
    BY <1>6, <1>q, <2>1, <2>2, <2>3, <2>4 DEF TypeOK
<1>8. CommitEarned'
  <2>1. \A u \in Tags \ {t} :
            /\ outcome'[u] = outcome[u] /\ result'[u] = result[u] /\ drv'[u] = drv[u]
            /\ (CommitSqe(u)' <=> CommitSqe(u)) /\ (TargetCqe(u)' <=> TargetCqe(u))
            /\ (Lost(u)' <=> Lost(u))
    BY <1>5, <1>o DEF OthersUntouched, OthersStay, PlaceKept
  <2>2. /\ CommitSqe(t)' => outcome'[t] # "none" /\ result'[t] = outcome'[t]
        /\ TargetCqe(t)' => outcome'[t] # "none"
        /\ drv'[t] = "daemon" /\ ~CommitSqe(t)' /\ ~TargetCqe(t)' /\ ~Lost(t)' => outcome'[t] = "none"
        /\ drv'[t] # "daemon" => outcome'[t] = "none"
    BY <1>e
  <2>. QED
    BY <1>q, <2>1, <2>2 DEF CommitEarned, Tags
<1>9. StopAfterDrain'
  <2>1. qpc' = qpc /\ qpc \notin {"init", "failed", "exited"}
    BY <1>o DEF HandleRequest
  <2>2. ~stopping' /\ \A u \in Tags : ~AbortCqe(u)'
    <3>1. ~stopping /\ \A u \in Tags : ~AbortCqe(u)
      BY <1>1, <1>q DEF StopAfterDrain, Drained, Delivered, AbortCqe
    <3>2. \A u \in Tags \ {t} : ~AbortCqe(u)'
      BY <1>5, <3>1 DEF OthersStay, PlaceKept
    <3>3. ~AbortCqe(t)'
      BY <1>2 DEF TargetSqe, CommitSqe, Lost, AbortCqe
    <3>4. ~stopping'
      BY <3>1 DEF HandleRequest
    <3>. QED
      BY <3>2, <3>3, <3>4
  <2>. QED
    BY <1>q, <2>1, <2>2 DEF StopAfterDrain
<1>10. LostToStale'
  <2>1. \A u \in Tags \ {t} : Lost(u)' <=> Lost(u)
    BY <1>5 DEF OthersStay, PlaceKept
  <2>2. \A u \in Tags : Lost(u)' => stale' > 0
    BY <1>2, <1>s, <1>q, <2>1 DEF LostToStale, TypeOK, TargetSqe, CommitSqe, Lost
  <2>3. qpc' # "astray"
    BY <1>o DEF HandleRequest
  <2>. QED
    BY <1>s, <1>q, <2>2, <2>3 DEF LostToStale
<1>. QED
  BY <1>5, <1>6, <1>7, <1>8, <1>9, <1>10 DEF QInv

\* Submitting hands every queued entry over and keeps what is outstanding.
LEMMA SubmitQInv == ASSUME QInv, Submit PROVE QInv'
<1> USE QueueAssumption DEF thread, slots, rings, driver, setup
<1>q. TypeOK /\ OwnedOnce /\ Counters /\ CommitEarned /\ StopAfterDrain /\ LostToStale
  BY DEF QInv
<1>p. PICK refused \in SUBSET {t \in Tags : "fetch" \in sqe[t]} :
         /\ drv' = [t \in Tags |-> IF t \in refused THEN "refused"
                                   ELSE IF sqe[t] \cap {"fetch", "commit"} # {} THEN "fetched"
                                   ELSE drv[t]]
         /\ cqe' = [t \in Tags |-> IF t \in refused THEN {"err"} ELSE cqe[t]]
  BY DEF Submit
<1> DEFINE Goal(u) ==
         /\ ~Fresh(u) /\ ~Fresh(u)' /\ ~FetchSqe(u)' /\ ~TargetSqe(u)' /\ ~CommitSqe(u)'
         /\ CommitSqe(u) \/ WithDrv(u) => WithDrv(u)'
         /\ WithDrv(u)' => FetchSqe(u) \/ CommitSqe(u) \/ WithDrv(u)
         /\ FetchSqe(u) => WithDrv(u)' \/ ErrCqe(u)'
         /\ ErrCqe(u)' => FetchSqe(u) \/ ErrCqe(u)
         /\ ErrCqe(u) => ErrCqe(u)'
         /\ Lost(u)' <=> Lost(u)
         /\ Running(u)' <=> TargetSqe(u) \/ Running(u)
         /\ Delivered(u)' <=> Delivered(u)
         /\ TargetCqe(u)' <=> TargetCqe(u)
         /\ AbortCqe(u)' <=> AbortCqe(u)
         /\ Retired(u)' <=> Retired(u)
<1>1. \A u \in Tags : Goal(u)
  <2> SUFFICES ASSUME NEW u \in Tags
               PROVE  Goal(u)
    BY DEF Goal
  <2>1. qpc = "check" /\ qpc' = "wait" /\ flags' = flags /\ sqe'[u] = {}
        /\ (u \in busy' <=> u \in busy \/ "tgt" \in sqe[u])
    BY DEF Submit
  <2>2. CASE u \in refused
    <3>1. FetchSqe(u)
      BY <2>2, <1>q DEF OwnedOnce, Fresh, FetchSqe, WithDrv, Delivered, TargetSqe,
         Running, TargetCqe, CommitSqe, AbortCqe, ErrCqe, Retired, Lost
    <3>2. cqe'[u] = {"err"} /\ drv'[u] = "refused"
      BY <2>2, <1>p
    <3>. QED
      BY <2>1, <3>1, <3>2 DEF Goal, Fresh, FetchSqe, WithDrv, Delivered, TargetSqe,
         Running, TargetCqe, CommitSqe, AbortCqe, ErrCqe, Retired, Lost
  <2>3. CASE u \notin refused
    <3>1. cqe'[u] = cqe[u]
          /\ drv'[u] = IF sqe[u] \cap {"fetch", "commit"} # {} THEN "fetched" ELSE drv[u]
      BY <2>3, <1>p
    <3>2. ("fetch" \in sqe[u] \/ "commit" \in sqe[u]) <=> sqe[u] \cap {"fetch", "commit"} # {}
      OBVIOUS
    <3>. QED
      BY <2>1, <3>1, <3>2, <1>q DEF Goal, OwnedOnce, Fresh, FetchSqe, WithDrv, Delivered, TargetSqe,
         Running, TargetCqe, CommitSqe, AbortCqe, ErrCqe, Retired, Lost
  <2>. QED
    BY <2>2, <2>3
<1>2. OwnedOnce'
  BY <1>1, <1>q DEF OwnedOnce
<1>3. CmdTags' = CmdTags /\ IoTags' = IoTags
  BY <1>1 DEF CmdTags, IoTags, Tags
<1>4. Counters'
  BY <1>3, <1>q DEF Submit, Counters
<1>5. TypeOK'
  <2>1. etime' \in BOOLEAN /\ reapped' \in BOOLEAN
    BY DEF Submit
  <2>2. /\ sqe' \in [Tags -> SUBSET Ops]
        /\ drv' \in [Tags -> {"none", "fetched", "refused", "queued", "daemon"}]
        /\ outcome' \in [Tags -> {"none", "ok", "err"}]
        /\ buf' \in [Tags -> {"none", "data", "lost"}]
    BY <1>p, <1>q DEF Submit, TypeOK
  <2>3. /\ busy' \in SUBSET Tags /\ qpc' = "wait"
        /\ cqe' \in [Tags -> SUBSET {"ok", "abort", "err", "tgt"}]
        /\ UNCHANGED <<next, idle, stopping, slots, stale, devstop, setup>>
    BY <1>p, <1>q DEF Submit, TypeOK
  <2>. QED
    BY <1>q, <2>1, <2>2, <2>3 DEF TypeOK
<1>6. CommitEarned'
  BY <1>1, <1>p, <1>q DEF Submit, TypeOK, CommitEarned, OwnedOnce, Fresh, FetchSqe, WithDrv, Delivered,
         TargetSqe, Running, TargetCqe, CommitSqe, AbortCqe, ErrCqe, Retired, Lost
<1>7. StopAfterDrain'
  <2>1. qpc' = "wait" /\ UNCHANGED <<stopping, devstop>>
    BY DEF Submit
  <2>2. Drained => Drained'
    BY <1>p, <1>q DEF Submit, TypeOK, Drained
  <2>. QED
    BY <1>1, <1>q, <2>1, <2>2 DEF StopAfterDrain
<1>8. LostToStale'
  BY <1>1, <1>q DEF Submit, LostToStale
<1>. QED
  BY <1>2, <1>4, <1>5, <1>6, <1>7, <1>8 DEF QInv

\* Every step of the thread, the driver and the target keeps QInv.
LEMMA NextQInv == QInv /\ [Next]_vars => QInv'
<1> SUFFICES ASSUME QInv, [Next]_vars PROVE QInv'
  OBVIOUS
<1> USE QueueAssumption DEF thread, slots, rings, driver, setup
<1>q. TypeOK /\ OwnedOnce /\ Counters /\ CommitEarned /\ StopAfterDrain /\ LostToStale
  BY DEF QInv
<1>0. CASE UNCHANGED vars
  <2>1. TypeOK'
    BY <1>0, <1>q DEF vars, TypeOK
  <2>2. UNCHANGED <<flags, sqe, cqe, busy, drv, outcome, result, cmd_inflight,
                    io_inflight, stopping, devstop, qpc, stale, tgt, unsup>>
    BY <1>0 DEF vars
  <2>3. (OwnedOnce /\ Counters /\ CommitEarned /\ StopAfterDrain /\ LostToStale)'
    BY <2>2, <1>q, NoTagMoves DEF StopAfterDrain, LostToStale
  <2>. QED
    BY <2>1, <2>3 DEF QInv
<1>1. CASE InitFails
  <2>1. TypeOK'
    BY <1>1, <1>q DEF InitFails, TypeOK
  <2>2. (OwnedOnce /\ Counters /\ CommitEarned /\ StopAfterDrain /\ LostToStale)'
    BY <1>1, <1>q, NoTagMoves DEF InitFails, StopAfterDrain
  <2>. QED
    BY <2>1, <2>2 DEF QInv
<1>2. CASE Finish
  <2>1. TypeOK'
    BY <1>2, <1>q DEF Finish, TypeOK
  <2>2. (OwnedOnce /\ Counters /\ CommitEarned /\ StopAfterDrain /\ LostToStale)'
    BY <1>2, <1>q, NoTagMoves DEF Finish, StopAfterDrain, ublk_queue_is_done
  <2>. QED
    BY <2>1, <2>2 DEF QInv
<1>3. CASE WaitReturns
  <2>1. TypeOK'
    BY <1>3, <1>q DEF WaitReturns, TypeOK
  <2>2. (OwnedOnce /\ Counters /\ CommitEarned /\ StopAfterDrain /\ LostToStale)'
    BY <1>3, <1>q, NoTagMoves DEF WaitReturns, StopAfterDrain
  <2>. QED
    BY <2>1, <2>2 DEF QInv
<1>4. CASE WaitTimesOut
  <2>1. TypeOK'
    BY <1>4, <1>q DEF WaitTimesOut, TypeOK
  <2>2. (OwnedOnce /\ Counters /\ CommitEarned /\ StopAfterDrain /\ LostToStale)'
    BY <1>4, <1>q, NoTagMoves DEF WaitTimesOut, StopAfterDrain
  <2>. QED
    BY <2>1, <2>2 DEF QInv
<1>5. CASE ReapEnds
  <2>1. TypeOK'
    <3>1. idle' \in BOOLEAN
      BY <1>5, <1>q DEF ReapEnds, TypeOK
    <3>2. qpc' \in {"check", "discard"} /\ next' \in 0 .. Depth
      BY <1>5, <1>q DEF ReapEnds, TypeOK
    <3>3. UNCHANGED <<etime, reapped, stopping, slots, rings, driver>>
      BY <1>5 DEF ReapEnds
    <3>. QED
      BY <3>1, <3>2, <3>3, <1>q DEF TypeOK
  <2>2. (OwnedOnce /\ Counters /\ CommitEarned /\ StopAfterDrain /\ LostToStale)'
    BY <1>5, <1>q, NoTagMoves DEF ReapEnds, StopAfterDrain
  <2>. QED
    BY <2>1, <2>2 DEF QInv
<1>6. CASE Discard
  <2>1. TypeOK'
    <3>1. buf' \in [Tags -> {"none", "data", "lost"}]
      BY <1>6, <1>q DEF Discard, TypeOK
    <3>2. next' \in 0 .. Depth
      BY <1>6, <1>q DEF Discard, TypeOK
    <3>3. UNCHANGED <<qpc, etime, reapped, idle, stopping, slots, rings, drv, outcome, devstop, setup>>
      BY <1>6 DEF Discard
    <3>. QED
      BY <3>1, <3>2, <3>3, <1>q DEF TypeOK
  <2>2. (OwnedOnce /\ Counters /\ CommitEarned /\ StopAfterDrain /\ LostToStale)'
    BY <1>6, <1>q, NoTagMoves DEF Discard, StopAfterDrain
  <2>. QED
    BY <2>1, <2>2 DEF QInv
<1>7. CASE IdleEntered
  <2>1. TypeOK'
    BY <1>7, <1>q DEF IdleEntered, TypeOK
  <2>2. (OwnedOnce /\ Counters /\ CommitEarned /\ StopAfterDrain /\ LostToStale)'
    BY <1>7, <1>q, NoTagMoves DEF IdleEntered, StopAfterDrain
  <2>. QED
    BY <2>1, <2>2 DEF QInv
<1>8. CASE StopDev
  <2>1. TypeOK'
    BY <1>8, <1>q DEF StopDev, TypeOK
  <2>2. (OwnedOnce /\ Counters /\ CommitEarned /\ StopAfterDrain /\ LostToStale)'
    BY <1>8, <1>q, NoTagMoves DEF StopDev, StopAfterDrain, LostToStale
  <2>. QED
    BY <2>1, <2>2 DEF QInv
<1>9. CASE ublk_submit_fetch_commands
  <2>1. \A u \in Tags : Fresh(u)
    BY <1>9, <1>q DEF ublk_submit_fetch_commands, StopAfterDrain
  <2>2. \A u \in Tags : FetchSqe(u)'
    BY <1>9, <2>1 DEF ublk_submit_fetch_commands, Fresh, FetchSqe
  <2>3. CmdTags = {} /\ IoTags = {} /\ CmdTags' = Tags /\ IoTags' = {}
    <3>1. \A u \in Tags : u \notin CmdTags /\ u \notin IoTags
      BY <2>1 DEF CmdTags, IoTags, Fresh, FetchSqe, WithDrv, Delivered, TargetSqe, Running,
         TargetCqe, CommitSqe, AbortCqe, ErrCqe, Retired, Lost
    <3>2. \A u \in Tags : u \in CmdTags' /\ u \notin IoTags'
      BY <2>2 DEF CmdTags, IoTags, Tags, Fresh, FetchSqe, WithDrv, Delivered, TargetSqe, Running,
         TargetCqe, CommitSqe, AbortCqe, ErrCqe, Retired, Lost
    <3>3. Tags' = Tags
      BY DEF Tags
    <3>. QED
      BY <3>1, <3>2, <3>3 DEF CmdTags, IoTags
  <2>4. Counters' /\ cmd_inflight' = Depth /\ io_inflight' = 0
    BY <1>9, <1>q, <2>3, TagsFinite, FS_EmptySet DEF ublk_submit_fetch_commands, Counters
  <2>5. TypeOK'
    BY <1>9, <1>q, <2>4 DEF ublk_submit_fetch_commands, TypeOK, Ops
  <2>6. OwnedOnce'
    BY <2>2 DEF OwnedOnce
  <2>7. CommitEarned'
    BY <1>9, <1>q, <2>1, <2>2 DEF ublk_submit_fetch_commands, CommitEarned, Fresh, FetchSqe, WithDrv, Delivered, TargetSqe, Running,
         TargetCqe, CommitSqe, AbortCqe, ErrCqe, Retired, Lost
  <2>8. StopAfterDrain'
    BY <1>9, <1>q, <2>1, <2>2 DEF ublk_submit_fetch_commands, StopAfterDrain, Drained,
       Fresh, FetchSqe, WithDrv, Delivered, TargetSqe, Running,
         TargetCqe, CommitSqe, AbortCqe, ErrCqe, Retired, Lost
  <2>9. LostToStale'
    BY <1>9, <1>q, <2>1, <2>2 DEF ublk_submit_fetch_commands, LostToStale, Fresh, FetchSqe, Lost
  <2>. QED
    BY <2>4, <2>5, <2>6, <2>7, <2>8, <2>9 DEF QInv
<1>12. CASE SubmitUnprepared
  <2>1. TypeOK'
    BY <1>12, <1>q DEF SubmitUnprepared, TypeOK
  <2>2. (OwnedOnce /\ Counters /\ CommitEarned /\ StopAfterDrain /\ LostToStale)'
    BY <1>12, <1>q, NoTagMoves DEF SubmitUnprepared, StopAfterDrain
  <2>. QED
    BY <2>1, <2>2 DEF QInv
<1>10. ASSUME NEW t \in Tags, Handle(t) \/ Kernel(t)
       PROVE  QInv'
  BY <1>10, HandleAbortQInv, HandleErrorQInv, HandleTargetQInv, HandleRequestQInv, NewRequestQInv,
     DeliverQInv, TargetDoneQInv, AbortCmdQInv DEF Handle, Kernel
<1>11. CASE Submit
  BY <1>11, SubmitQInv
<1>. QED
  BY <1>0, <1>1, <1>2, <1>3, <1>4, <1>5, <1>6, <1>7, <1>8, <1>9, <1>10, <1>11, <1>12
     DEF Next, Thread

\* The queue thread keeps QInv for every depth and both targets: each tag of the
\* ublk_queue has one owner, the counters are exact, answers are earned, and the
\* thread stops only after the drain.
THEOREM QueueInvariant == Spec => []QInv
<1>. QED
  BY InitQInv, NextQInv, PTL DEF Spec

\* io_uring_get_sqe never fails while completions are reaped, so the -1 of
\* ublk_queue_io_cmd that every caller ignores is never returned.
THEOREM QueueSqNeverFull == Spec => []SqNeverFull
<1>1. QInv => SqNeverFull
  BY SqRoom DEF QInv, SqNeverFull
<1>. QED
  BY <1>1, QueueInvariant, PTL

-----------------------------------------------------------------------------
(* The refinement of RequestService.                                       *)

\* What the block layer sees of a tag.
SeenAs(t) == IF drv[t] \notin {"queued", "daemon"} THEN "free"
             ELSE IF outcome[t] = "none" THEN "pending" ELSE "performed"

\* A step that shows the block layer nothing new is a stutter of the service.
LEMMA ServiceStutters ==
    ASSUME \A t \in Tags : SeenAs(t)' = SeenAs(t), qpc' = "exited" <=> qpc = "exited"
    PROVE  UNCHANGED Service!serviceVars
<1>1. [t \in Tags |-> SeenAs(t)]' = [t \in Tags |-> SeenAs(t)]
  BY DEF Tags
<1>2. (qpc # "exited")' = (qpc # "exited")
  OBVIOUS
<1>. QED
  BY <1>1, <1>2 DEF Service!serviceVars, SeenAs

\* A tag that is with the thread keeps it from leaving.
LEMMA OwingStaysOpen ==
    ASSUME QInv, NEW t \in Tags, drv[t] \in {"queued", "daemon"} \/ ~devstop
    PROVE  qpc # "exited" /\ ~stopping
BY DEF QInv, StopAfterDrain, Drained

\* Every step of the queue thread and of the driver is a step of the service or
\* leaves it alone.
LEMMA ServiceSteps ==
    ASSUME QInv, [Next]_vars
    PROVE  [Service!ServiceNext]_(Service!serviceVars)
<1> USE DEF thread, slots, rings, driver, setup
<1>q. TypeOK /\ OwnedOnce /\ CommitEarned /\ StopAfterDrain
  BY DEF QInv
<1> DEFINE st == [t \in Tags |-> SeenAs(t)]
<1>st. /\ \A t \in Tags : st[t] = SeenAs(t)
       /\ st' = [t \in Tags |-> SeenAs(t)']
  BY DEF Tags
<1>0. CASE UNCHANGED vars
  BY <1>0, ServiceStutters DEF vars, SeenAs
<1>1. CASE InitFails \/ ublk_submit_fetch_commands \/ SubmitUnprepared \/ WaitReturns \/ WaitTimesOut \/ ReapEnds
           \/ Discard \/ IdleEntered \/ StopDev
  BY <1>1, ServiceStutters DEF InitFails, ublk_submit_fetch_commands, SubmitUnprepared, WaitReturns, WaitTimesOut,
     ReapEnds, Discard, IdleEntered, StopDev, SeenAs
<1>2. CASE Finish
  <2>1. \A t \in Tags : SeenAs(t) = "free" /\ SeenAs(t)' = "free"
    BY <1>2, <1>q DEF Finish, ublk_queue_is_done, StopAfterDrain, Drained, SeenAs
  <2>2. st' = st
    BY <2>1, <1>st
  <2>. QED
    BY <1>2, <2>1, <2>2, <1>st DEF Finish, SeenAs, Service!ServiceNext, Service!Close
<1>3. CASE Submit
  <2> DEFINE batch == {t \in Tags : "commit" \in sqe[t]}
  <2>1. \A t \in batch : SeenAs(t) = "performed" /\ SeenAs(t)' = "free"
    <3>1. \A t \in batch : CommitSqe(t)
      BY <1>q DEF TypeOK, OwnedOnce, Fresh, FetchSqe, WithDrv, Delivered, TargetSqe, Running,
         TargetCqe, CommitSqe, AbortCqe, ErrCqe, Retired, Lost
    <3>2. \A t \in batch : drv[t] = "daemon" /\ outcome[t] # "none" /\ drv'[t] = "fetched"
      BY <3>1, <1>q, <1>3 DEF CommitEarned, CommitSqe, Submit
    <3>. QED
      BY <3>2 DEF SeenAs
  <2>2. \A t \in Tags \ batch : SeenAs(t)' = SeenAs(t)
    <3>1. \A t \in Tags \ batch : outcome'[t] = outcome[t]
              /\ (drv'[t] = drv[t] \/ (drv[t] = "none" /\ drv'[t] \in {"fetched", "refused"}))
      BY <1>q, <1>3 DEF Submit, TypeOK, OwnedOnce, Fresh, FetchSqe, WithDrv, Delivered, TargetSqe, Running,
         TargetCqe, CommitSqe, AbortCqe, ErrCqe, Retired, Lost
    <3>. QED
      BY <3>1 DEF SeenAs
  <2>3. st' = [t \in Tags |-> IF t \in batch THEN "free" ELSE st[t]]
    BY <2>1, <2>2, <1>st
  <2>4. batch \in SUBSET Tags /\ \A t \in batch : st[t] = "performed"
    BY <2>1, <1>st
  <2>5. Service!Answer
    BY <1>3, <2>3, <2>4, <1>st DEF Submit, SeenAs, Service!Answer
  <2>. QED
    BY <2>5 DEF Service!ServiceNext
<1>4. ASSUME NEW t \in Tags, SeenAs(t) = "free", SeenAs(t)' = "pending", qpc # "exited", qpc' = qpc,
             \A u \in Tags \ {t} : SeenAs(u)' = SeenAs(u)
      PROVE  Service!ServiceNext
  <2>1. st' = [st EXCEPT ![t] = "pending"]
    BY <1>4, <1>st
  <2>2. Service!Issue
    BY <1>4, <2>1, <1>st DEF Service!Issue, SeenAs
  <2>. QED
    BY <2>2 DEF Service!ServiceNext
<1>5. ASSUME NEW t \in Tags, SeenAs(t) = "pending", SeenAs(t)' = "performed", qpc # "exited", qpc' = qpc,
             \A u \in Tags \ {t} : SeenAs(u)' = SeenAs(u)
      PROVE  Service!ServiceNext
  <2>1. st' = [st EXCEPT ![t] = "performed"]
    BY <1>5, <1>st
  <2>2. Service!Perform
    BY <1>5, <2>1, <1>st DEF Service!Perform, SeenAs
  <2>. QED
    BY <2>2 DEF Service!ServiceNext
<1>6. ASSUME NEW t \in Tags, NewRequest(t)
      PROVE  Service!ServiceNext
  <2>1. outcome[t] = "none" /\ drv[t] = "fetched" /\ drv'[t] = "queued" /\ outcome' = outcome
    BY <1>6, <1>q DEF NewRequest, CommitEarned, TypeOK
  <2>2. \A u \in Tags \ {t} : drv'[u] = drv[u]
    BY <1>6, <1>q DEF NewRequest, TypeOK
  <2>3. qpc # "exited" /\ qpc' = qpc
    BY <1>6, OwingStaysOpen DEF NewRequest
  <2>. QED
    BY <1>4, <2>1, <2>2, <2>3 DEF SeenAs
<1>7. ASSUME NEW t \in Tags, Deliver(t) \/ AbortCmd(t) \/ HandleAbort(t) \/ HandleError(t)
                            \/ HandleTarget(t)
      PROVE  UNCHANGED Service!serviceVars
  <2>1. \A u \in Tags : SeenAs(u)' = SeenAs(u)
    BY <1>7, <1>q DEF Deliver, AbortCmd, HandleAbort, HandleError, HandleTarget, TypeOK, SeenAs
  <2>2. qpc' = qpc
    BY <1>7 DEF Deliver, AbortCmd, HandleAbort, HandleError, HandleTarget
  <2>. QED
    BY <2>1, <2>2, ServiceStutters
<1>8. ASSUME NEW t \in Tags, TargetDone(t)
      PROVE  Service!ServiceNext
  <2>1. Running(t)
    BY <1>8, <1>q DEF TargetDone, TypeOK, OwnedOnce, Fresh, FetchSqe, WithDrv, Delivered,
       TargetSqe, Running, TargetCqe, CommitSqe, AbortCqe, ErrCqe, Retired, Lost
  <2>2. drv[t] = "daemon" /\ outcome[t] = "none"
    BY <2>1, <1>q DEF CommitEarned, Running, CommitSqe, TargetCqe, Lost
  <2>3. outcome'[t] # "none" /\ drv' = drv /\ \A u \in Tags \ {t} : outcome'[u] = outcome[u]
    BY <1>8, <1>q DEF TargetDone, TypeOK
  <2>4. qpc # "exited" /\ qpc' = qpc
    BY <1>8, <2>2, OwingStaysOpen DEF TargetDone
  <2>. QED
    BY <1>5, <2>2, <2>3, <2>4 DEF SeenAs
<1>9. ASSUME NEW t \in Tags, HandleRequest(t)
      PROVE  [Service!ServiceNext]_(Service!serviceVars)
  <2>1. Delivered(t)
    BY <1>9, <1>q DEF HandleRequest, TypeOK, OwnedOnce, Fresh, FetchSqe, WithDrv, Delivered,
       TargetSqe, Running, TargetCqe, CommitSqe, AbortCqe, ErrCqe, Retired, Lost
  <2>2. drv[t] = "daemon" /\ outcome[t] = "none"
    BY <2>1, <1>q DEF CommitEarned, Delivered, CommitSqe, TargetCqe, Lost
  <2>3. drv' = drv /\ qpc' = qpc /\ qpc # "exited"
    BY <1>9 DEF HandleRequest
  <2>4. CASE outcome' = outcome
    BY <2>3, <2>4, ServiceStutters DEF SeenAs
  <2>5. CASE outcome' # outcome
    <3>1. outcome'[t] # "none" /\ \A u \in Tags \ {t} : outcome'[u] = outcome[u]
      BY <1>9, <2>5, <1>q DEF HandleRequest, QueueTarget, AnswerNow, TypeOK
    <3>. QED
      BY <1>5, <2>2, <2>3, <3>1 DEF SeenAs
  <2>. QED
    BY <2>4, <2>5
<1>. QED
  BY <1>0, <1>1, <1>2, <1>3, <1>6, <1>7, <1>8, <1>9 DEF Next, Thread, Handle, Kernel

\* The queue of miniublk implements the request service for every depth and both
\* targets: every request is performed before it is answered, is answered once,
\* and the thread of ublk_io_handler_fn leaves only when it owes no answer.
THEOREM QueueImplementsService == Spec => ImplementsService
<1>1. Init => Service!ServiceInit
  <2> SUFFICES ASSUME Init PROVE Service!ServiceInit
    OBVIOUS
  <2>1. \A t \in Tags : drv[t] = "none"
    BY DEF Init
  <2>. QED
    BY <2>1 DEF Init, Service!ServiceInit
<1>. QED
  BY <1>1, ServiceSteps, QueueInvariant, PTL DEF Spec, ImplementsService, Service!ServiceSpec
=============================================================================
