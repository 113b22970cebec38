---------------------------- MODULE HelperProofs ----------------------------
(***************************************************************************)
(* Theorems about the C helpers of blktests that hold for every command    *)
(* line, page size and number of rounds.                                   *)
(***************************************************************************)
EXTENDS PciMem, MountClearSock, AdminUring, PassthroughMeta, SequenceTheorems, TLAPS

-----------------------------------------------------------------------------
(* nvme-passthru-admin-uring.                                              *)

\* What is held at each position.
UringHeld ==
    /\ upc \in {"open", "alloc", "ring", "submit", "wait", "reap", "ring_exit",
                "free_nctrl", "free_fd", "exit"}
    /\ held \subseteq {"fd", "nctrl", "ring", "cqe"}
    /\ upc \in {"open", "exit"} => held = {}
    /\ upc \in {"alloc", "free_fd"} => held = {"fd"}
    /\ upc \in {"ring", "free_nctrl"} => held = {"fd", "nctrl"}
    /\ upc \in {"submit", "wait", "ring_exit"} => held = {"fd", "nctrl", "ring"}
    /\ upc = "reap" => held \ {"cqe"} = {"fd", "nctrl", "ring"}

\* What the exit status stands for.
UringStatus ==
    upc \in {"reap", "ring_exit", "free_nctrl", "free_fd", "exit"} =>
        (uret = 0 => \E res \in completion : res >= 0)

UringInv == UringHeld /\ UringStatus

(***************************************************************************)
(* nvme-passthru-admin-uring always gives back what it acquired, and exits *)
(* with 0 only after a completion that is no system error.                 *)
(***************************************************************************)
THEOREM UringExits == UringSpec => []UringCleanExit
<1>1. UringInit => UringInv
  BY DEF UringInit, UringInv, UringHeld, UringStatus
<1>2. UringInv /\ [UringNext]_uringVars => UringInv'
  <2> SUFFICES ASSUME UringInv, [UringNext]_uringVars
               PROVE  UringInv'
    OBVIOUS
  <2>0. UringHeld /\ UringStatus
    BY DEF UringInv
  <2>1. CASE OpenDevice
    <3>1. UringHeld'
      BY <2>0, <2>1 DEF OpenDevice, Acquire, UringStep, UringHeld
    <3>2. UringStatus'
      BY <2>0, <2>1 DEF OpenDevice, Acquire, UringStep, UringStatus
    <3> QED BY <3>1, <3>2 DEF UringInv
  <2>2. CASE AllocCtrl
    <3>1. UringHeld'
      BY <2>0, <2>2 DEF AllocCtrl, Acquire, UringStep, UringHeld
    <3>2. UringStatus'
      BY <2>0, <2>2 DEF AllocCtrl, Acquire, UringStep, UringStatus
    <3> QED BY <3>1, <3>2 DEF UringInv
  <2>3. CASE QueueInit
    <3>1. UringHeld'
      BY <2>0, <2>3 DEF QueueInit, Acquire, UringStep, UringHeld
    <3>2. UringStatus'
      BY <2>0, <2>3 DEF QueueInit, Acquire, UringStep, UringStatus
    <3> QED BY <3>1, <3>2 DEF UringInv
  <2>4. CASE Submit
    BY <2>0, <2>4 DEF Submit, UringStep, UringInv, UringHeld, UringStatus
  <2>5. CASE WaitCqe
    <3>1. UringHeld'
      BY <2>0, <2>5 DEF WaitCqe, UringStep, UringHeld
    <3>2. UringStatus'
      BY <2>0, <2>5 DEF WaitCqe, UringStep, UringStatus
    <3> QED BY <3>1, <3>2 DEF UringInv
  <2>6. CASE CqeSeen
    <3>1. UringHeld'
      BY <2>0, <2>6 DEF CqeSeen, Release, UringStep, UringHeld
    <3>2. UringStatus'
      BY <2>0, <2>6 DEF CqeSeen, Release, UringStep, UringStatus
    <3> QED BY <3>1, <3>2 DEF UringInv
  <2>7. CASE QueueExit
    <3>1. UringHeld'
      BY <2>0, <2>7 DEF QueueExit, Release, UringStep, UringHeld
    <3>2. UringStatus'
      BY <2>0, <2>7 DEF QueueExit, Release, UringStep, UringStatus
    <3> QED BY <3>1, <3>2 DEF UringInv
  <2>8. CASE FreeCtrl
    <3>1. UringHeld'
      BY <2>0, <2>8 DEF FreeCtrl, Release, UringStep, UringHeld
    <3>2. UringStatus'
      BY <2>0, <2>8 DEF FreeCtrl, Release, UringStep, UringStatus
    <3> QED BY <3>1, <3>2 DEF UringInv
  <2>9. CASE CloseDevice
    <3>1. UringHeld'
      BY <2>0, <2>9 DEF CloseDevice, Release, UringStep, UringHeld
    <3>2. UringStatus'
      BY <2>0, <2>9 DEF CloseDevice, Release, UringStep, UringStatus
    <3> QED BY <3>1, <3>2 DEF UringInv
  <2>10. CASE UNCHANGED uringVars
    BY <2>0, <2>10 DEF uringVars, UringInv, UringHeld, UringStatus
  <2> QED
    BY <2>1, <2>2, <2>3, <2>4, <2>5, <2>6, <2>7, <2>8, <2>9, <2>10 DEF UringNext
<1>3. UringInv => UringCleanExit
  BY DEF UringInv, UringHeld, UringStatus, UringCleanExit
<1> QED
  BY <1>1, <1>2, <1>3, PTL DEF UringSpec

-----------------------------------------------------------------------------
(* pcimem.                                                                 *)

PciArgType ==
    /\ arg.page \in Nat \ {0} /\ arg.width \in {1, 2, 4, 8}
    /\ arg.target \in Int /\ arg.count \in Nat

\* An int holds what fits it, and never more than IntMax.
LEMMA IntHolds ==
    ASSUME NEW n \in Int
    PROVE  /\ ToInt(n) \in Int /\ ToInt(n) <= IntMax
           /\ n \in 0 .. IntMax => ToInt(n) = n
<1>1. IntMax \in Nat
  BY PciAssumption
<1> DEFINE w == 2 * IntMax + 2
<1>2. w \in Nat /\ w > IntMax /\ w - IntMax = IntMax + 2 /\ w > 0
  BY <1>1
<1> HIDE DEF w
<1>3. n % w \in 0 .. w - 1
  BY <1>2
<1>4. n \in 0 .. IntMax => n % w = n
  BY <1>1, <1>2
<1>5. ToInt(n) = IF n % w > IntMax THEN (n % w) - w ELSE n % w
  BY DEF ToInt, w
<1> QED
  BY <1>1, <1>2, <1>3, <1>4, <1>5

\* What the bytes of the first items, from the start of the page, come to.
Bytes(n) == (arg.target % arg.page) + n * arg.width

\* The numbers of a run: an int of items, an offset within the page.
LEMMA PciNumbers ==
    ASSUME PciArgType
    PROVE  /\ items_count \in Int
           /\ arg.target % arg.page \in Nat
           /\ target_base \in Int /\ arg.target - target_base = arg.target % arg.page
<1>1. items_count \in Int
  BY IntHolds DEF PciArgType, items_count
<1>2. arg.target % arg.page \in Nat
  BY DEF PciArgType
<1> QED
  BY <1>1, <1>2 DEF PciArgType, target_base

\* As long as the size fits, no product of an item wraps.
LEMMA PciProducts ==
    ASSUME PciArgType, Fits, NEW n \in Nat, n <= items_count, NEW p \in Products(n)
    PROVE  p = n * arg.width /\ p \in Nat /\ p <= items_count * arg.width
<1>1. IntMax \in Nat /\ items_count \in Int /\ arg.width \in Nat
  BY PciAssumption, PciNumbers DEF PciArgType
<1>2. n * arg.width \in Nat /\ items_count * arg.width \in Int
  BY <1>1
<1>3. n * arg.width <= items_count * arg.width
  BY <1>1 DEF PciArgType
<1>4. items_count * arg.width <= IntMax
  BY <1>1, <1>2, PciNumbers DEF Fits
<1>5. ToInt(n * arg.width) = n * arg.width
  BY <1>1, <1>2, <1>3, <1>4, IntHolds
<1> QED
  BY <1>2, <1>3, <1>5 DEF Products

\* The window starts at the page of the target and reaches behind its last item.
PciWindow ==
    ppc = "loop" => /\ window.base = target_base /\ window.size \in Int
                    /\ Fits /\ items_count > 0 => window.size >= Bytes(items_count)

PciInv ==
    /\ ppc \in {"start", "map", "loop", "exit"}
    /\ PciArgType
    /\ item \in Nat /\ (item > 0 => item <= items_count)
    /\ ppc \in {"start", "map"} => item = 0 /\ window.size = 0
    /\ PciWindow
    /\ PciMapped

\* The invariant of pcimem holds before its arguments are read.
LEMMA PciInitial == PciInit => PciInv
BY DEF PciInit, PciInv, PciArgType, PciWindow, PciMapped, NoArg, NoWindow

\* An access to an item that is there hits the window.
LEMMA PciAccess ==
    ASSUME PciInv, ppc = "loop", Fits, NEW n \in Nat, n < items_count, NEW a \in Addresses(n)
    PROVE  a \in window.base .. window.base + window.size - arg.width
<1>1. PICK p \in Products(n) : a = window.base + (arg.target + p - target_base)
  BY DEF Addresses
<1>2. /\ items_count \in Int /\ arg.target % arg.page \in Nat /\ target_base \in Int
      /\ arg.target - target_base = arg.target % arg.page /\ arg.target \in Int
      /\ arg.width \in Nat
  BY PciNumbers DEF PciInv, PciArgType
<1>3. p = n * arg.width /\ p \in Nat
  BY <1>2, PciProducts DEF PciInv
<1>4. p + arg.width <= items_count * arg.width /\ items_count * arg.width \in Int
  <2>1. (n + 1) * arg.width <= items_count * arg.width
    BY <1>2 DEF PciInv, PciArgType
  <2>2. (n + 1) * arg.width = n * arg.width + arg.width
    <3> DEFINE w == arg.width
    <3>1. w \in Int /\ n \in Int
      BY <1>2
    <3> HIDE DEF w
    <3>2. (n + 1) * w = n * w + w
      BY ONLY <3>1, SMT
    <3> QED
      BY <3>2 DEF w
  <2> QED
    BY <1>2, <1>3, <2>1, <2>2
<1>5. /\ window.base = target_base /\ window.size \in Int
      /\ window.size >= (arg.target % arg.page) + items_count * arg.width
  BY <1>2 DEF PciInv, PciWindow, Bytes
<1> QED
  BY ONLY <1>1, <1>2, <1>3, <1>4, <1>5, SMT

\* What stays as it is between two states with the same arguments.
LEMMA PciSame ==
    ASSUME arg' = arg
    PROVE  /\ items_count' = items_count /\ target_base' = target_base /\ Fits' = Fits
           /\ PciArgType' = PciArgType /\ Bytes(items_count)' = Bytes(items_count)
BY DEF items_count, target_base, Fits, PciArgType, Bytes

\* Every step of pcimem keeps it.
LEMMA PciStep == PciInv /\ [PciNext]_pciVars => PciInv'
<1> SUFFICES ASSUME PciInv, [PciNext]_pciVars
             PROVE  PciInv'
  OBVIOUS
<1>0. /\ items_count \in Int /\ arg.target % arg.page \in Nat /\ target_base \in Int
      /\ arg.target - target_base = arg.target % arg.page /\ arg.target \in Int
      /\ arg.width \in {1, 2, 4, 8} /\ IntMax \in Nat /\ item \in Nat
  BY PciNumbers, PciAssumption DEF PciInv, PciArgType
<1>1. CASE Usage
  <2>1. PciArgType'
    BY <1>1, PciAssumption DEF Usage, PciArgType
  <2>2. item' = 0 /\ window'.size = 0 /\ ppc' \in {"map", "exit"}
    BY <1>1 DEF Usage, PciInv
  <2> QED
    BY <2>1, <2>2 DEF PciInv, PciWindow, PciMapped
<1>2. CASE Mmap
  <2>1. arg' = arg /\ item' = item /\ item = 0 /\ window.size = 0
    BY <1>2 DEF Mmap, PciInv
  <2>2. CASE ppc' = "exit" /\ UNCHANGED <<window, touched>>
    BY <2>1, <2>2, PciSame DEF PciInv, PciWindow, PciMapped
  <2>3. ASSUME NEW product \in Products(items_count), map_size(product) > 0,
               window' = [base |-> target_base, size |-> map_size(product)],
               touched' = target_base, ppc' = "loop"
        PROVE  PciInv'
    <3>1. product \in Int /\ Needed(product) \in Int
      BY <1>0, IntHolds DEF Products, Needed
    <3>2. map_size(product) \in Int
      BY <3>1, IntHolds DEF map_size
    <3>3. ASSUME Fits, items_count > 0
          PROVE  map_size(product) >= Bytes(items_count) /\ Bytes(items_count) >= arg.width
      <4>1. product = items_count * arg.width /\ product \in Nat
        BY <1>0, <3>3, PciProducts DEF PciInv
      <4>2. Needed(product) = Bytes(items_count) /\ Needed(product) \in Nat
        BY <1>0, <4>1 DEF Needed, Bytes
      <4>3. Needed(product) <= IntMax
        BY <3>3, <4>2 DEF Fits, Bytes
      <4>4. Needed(product) > 4096 => map_size(product) = Needed(product)
        BY <1>0, <4>2, <4>3, IntHolds DEF map_size
      <4>5. Needed(product) <= 4096 => map_size(product) = 4096
        BY <4>2, SMT DEF map_size
      <4>6. arg.width <= items_count * arg.width
        BY <1>0, <3>3
      <4>7. Bytes(items_count) >= arg.width
        BY <1>0, <4>6, <4>1 DEF Bytes
      <4> QED
        BY <4>2, <4>4, <4>5, <4>7, SMT
    <3>4. PciWindow'
      BY <2>1, <2>3, <3>2, <3>3, PciSame DEF PciWindow
    <3>5. PciMapped'
      <4> SUFFICES ASSUME Fits, items_count > 0
                   PROVE  touched' \in window'.base .. window'.base + window'.size - arg.width
        BY <2>1, PciSame DEF PciMapped
      <4>1. Bytes(items_count) \in Int
        BY <1>0 DEF Bytes
      <4> QED
        BY <1>0, <2>3, <3>2, <3>3, <4>1
    <3> QED
      BY <2>1, <2>3, <3>4, <3>5, PciSame DEF PciInv
  <2> QED
    BY <1>2, <2>2, <2>3 DEF Mmap
<1>3. CASE ReadItem
  <2>1. /\ UNCHANGED <<arg, window, ppc>> /\ ppc = "loop" /\ item < items_count
        /\ item' = item + 1 /\ touched' \in Addresses(item)
    BY <1>3 DEF ReadItem
  <2>2. PciMapped'
    BY <1>0, <2>1, PciAccess, PciSame DEF PciMapped
  <2>3. item' \in Nat /\ item' <= items_count
    BY <1>0, <2>1
  <2> QED
    BY <2>1, <2>2, <2>3, PciSame DEF PciInv, PciWindow
<1>8. CASE ReadFaults
  <2>1. /\ UNCHANGED <<arg, window, item>> /\ ppc = "loop" /\ item < items_count
        /\ ppc' = "exit" /\ touched' \in Addresses(item)
    BY <1>8 DEF ReadFaults
  <2>2. PciMapped'
    BY <1>0, <2>1, PciAccess, PciSame DEF PciMapped
  <2> QED
    BY <2>1, <2>2, PciSame DEF PciInv, PciWindow
<1>4. CASE WriteData
  <2>1. /\ UNCHANGED <<arg, window, item>> /\ ppc = "loop" /\ ppc' = "exit"
        /\ items_count > 0 /\ touched' \in Addresses(items_count - 1)
    BY <1>4 DEF WriteData
  <2>2. items_count - 1 \in Nat /\ items_count - 1 < items_count
    BY <1>0, <2>1
  <2>3. PciMapped'
    BY <2>1, <2>2, PciAccess, PciSame DEF PciMapped
  <2> QED
    BY <2>1, <2>3, PciSame DEF PciInv, PciWindow
<1>5. CASE WriteAstray
  <2>1. /\ UNCHANGED <<arg, window, item>> /\ ppc' = "exit" /\ items_count <= 0
    BY <1>5 DEF WriteAstray
  <2>2. ~(items_count > 0)
    BY <1>0, <2>1
  <2> QED
    BY <2>1, <2>2, PciSame DEF PciInv, PciWindow, PciMapped
<1>6. CASE Munmap
  BY <1>6, PciSame DEF Munmap, PciInv, PciWindow, PciMapped
<1>7. CASE UNCHANGED pciVars
  BY <1>7, PciSame DEF pciVars, PciInv, PciWindow, PciMapped
<1> QED
  BY <1>1, <1>2, <1>3, <1>4, <1>5, <1>6, <1>7, <1>8 DEF PciNext

(***************************************************************************)
(* Every load and store of pcimem hits the mapping, for every page size,   *)
(* offset, width and count whose bytes fit the int they are counted in     *)
(* (Mmap, ReadItem and WriteData in the code), with every size of an int.  *)
(***************************************************************************)
THEOREM PciStaysMapped == PciSpec => []PciMapped
<1>1. PciInv => PciMapped
  BY DEF PciInv
<1> QED
  BY PciInitial, PciStep, <1>1, PTL DEF PciSpec

-----------------------------------------------------------------------------
(* The output of pcimem, as a sequence p of lines and "..." marks, x items *)
(* of which have been read.                                                *)

Shown(p) == {n \in 1 .. Len(p) : p[n] # << >>}

\* The items that are shown are numbered, below x.
Numbered(p, x) == \A n \in Shown(p) : p[n][1] \in Nat /\ p[n][1] < x

\* What follows line n: its successor, the end, or a mark for what is left out.
Gap(p, x, n) ==
    /\ n = Len(p) => x <= p[n][1] + 1
    /\ n + 1 <= Len(p) /\ p[n + 1] # << >> => p[n + 1][1] <= p[n][1] + 1
    /\ n + 1 = Len(p) /\ p[n + 1] = << >> => x > p[n][1] + 1
    /\ n + 2 <= Len(p) /\ p[n + 1] = << >> => p[n + 2] # << >> /\ p[n + 2][1] > p[n][1] + 1

Spaced(p, x) == \A n \in Shown(p) : Gap(p, x, n)

\* Line m is the one that tells the value w of item i.
Tells(p, m, i, w) ==
    /\ m \in Shown(p) /\ p[m][1] <= i /\ p[m][2] = w
    /\ \A k \in Shown(p) : p[k][1] <= i => k <= m

\* The last line shown is that of the last value v, and d says if a mark follows it.
EndsWith(p, x, d, v) ==
    LET m == IF d THEN Len(p) - 1 ELSE Len(p)
    IN  /\ m \in Shown(p) /\ p[m][2] = v
        /\ d => p[Len(p)] = << >>

\* q is p and one line more.
Longer(p, q, e) ==
    /\ Len(p) \in Nat /\ Len(q) = Len(p) + 1
    /\ q[Len(p) + 1] = e /\ \A n \in 1 .. Len(p) : q[n] = p[n]

\* An item that differs from the one before gets a line.
LEMMA ShowLine ==
    ASSUME NEW p, NEW q, NEW e, Longer(p, q, e), NEW x \in Nat, NEW v,
           e # << >>, e[1] = x, e[2] = v, Numbered(p, x), Spaced(p, x)
    PROVE  /\ Numbered(q, x + 1) /\ Spaced(q, x + 1) /\ EndsWith(q, x + 1, FALSE, v)
           /\ Tells(q, Len(q), x, v)
           /\ \A m, w : \A i \in 0 .. x - 1 : Tells(p, m, i, w) => Tells(q, m, i, w)
<1>0. /\ Len(p) \in Nat /\ Len(q) = Len(p) + 1 /\ q[Len(q)] = e
      /\ \A n \in 1 .. Len(p) : q[n] = p[n]
  BY DEF Longer
<1>1. \A n : n \in Shown(q) <=> n \in Shown(p) \/ n = Len(q)
  BY <1>0, SMT DEF Shown
<1>2. \A n \in Shown(p) : q[n] = p[n] /\ n \in 1 .. Len(p) /\ p[n] # << >> /\ p[n][1] \in Nat /\ p[n][1] < x
  BY <1>0 DEF Shown, Numbered
<1>3. Numbered(q, x + 1)
  BY <1>0, <1>1, <1>2, SMT DEF Numbered
<1>4. Spaced(q, x + 1)
  <2> SUFFICES ASSUME NEW n \in Shown(q) PROVE Gap(q, x + 1, n)
    BY DEF Spaced
  <2>1. CASE n = Len(q)
    BY <1>0, <2>1, SMT DEF Gap
  <2>2. CASE n \in Shown(p)
    <3>1. Gap(p, x, n) /\ n \in 1 .. Len(p) /\ q[n] = p[n] /\ p[n][1] \in Nat
      BY <1>2, <2>2 DEF Spaced
    <3>2. CASE n = Len(p)
      <4>1. x <= p[n][1] + 1 /\ q[n + 1] = e
        BY <1>0, <3>1, <3>2 DEF Gap
      <4>. QED
        BY <1>0, <3>1, <3>2, <4>1, SMT DEF Gap
    <3>3. CASE n + 1 = Len(p)
      <4>1. q[n + 1] = p[n + 1] /\ q[n + 2] = e
        BY <1>0, <3>1, <3>3, SMT
      <4>. QED
        BY <1>0, <3>1, <3>3, <4>1, SMT DEF Gap
    <3>4. CASE n + 2 <= Len(p)
      <4>1. q[n + 1] = p[n + 1] /\ q[n + 2] = p[n + 2]
        BY <1>0, <3>1, <3>4, SMT
      <4>. QED
        BY <1>0, <3>1, <3>4, <4>1, SMT DEF Gap
    <3>. QED
      BY <1>0, <3>1, <3>2, <3>3, <3>4, SMT
  <2>. QED
    BY <1>1, <2>1, <2>2
<1>5. EndsWith(q, x + 1, FALSE, v)
  BY <1>0, <1>1 DEF EndsWith
<1>6. Tells(q, Len(q), x, v)
  <2>1. \A k \in Shown(q) : k <= Len(q)
    BY <1>0, SMT DEF Shown
  <2>2. x <= x
    BY SMT
  <2>. QED
    BY <1>0, <1>1, <2>1, <2>2 DEF Tells
<1>7. ASSUME NEW m, NEW w, NEW i \in 0 .. x - 1, Tells(p, m, i, w) PROVE Tells(q, m, i, w)
  <2>1. ~(x <= i)
    BY SMT
  <2>2. m \in Shown(p) /\ p[m][1] <= i /\ p[m][2] = w /\ \A k \in Shown(p) : p[k][1] <= i => k <= m
    BY <1>7 DEF Tells
  <2>. QED
    BY <1>0, <1>1, <1>2, <2>1, <2>2 DEF Tells
<1>. QED
  BY <1>3, <1>4, <1>5, <1>6, <1>7

\* The first item that is left out gets a mark.
LEMMA ShowMark ==
    ASSUME NEW p, NEW q, Longer(p, q, << >>), NEW x \in Nat, NEW v, x > 0,
           Numbered(p, x), Spaced(p, x), EndsWith(p, x, FALSE, v)
    PROVE  /\ Numbered(q, x + 1) /\ Spaced(q, x + 1) /\ EndsWith(q, x + 1, TRUE, v)
           /\ Tells(q, Len(p), x, v)
           /\ \A m, w : \A i \in 0 .. x - 1 : Tells(p, m, i, w) => Tells(q, m, i, w)
<1>0. /\ Len(p) \in Nat /\ Len(q) = Len(p) + 1 /\ q[Len(q)] = << >>
      /\ \A n \in 1 .. Len(p) : q[n] = p[n]
  BY DEF Longer
<1>1. \A n : n \in Shown(q) <=> n \in Shown(p)
  BY <1>0, SMT DEF Shown
<1>2. \A n \in Shown(p) : q[n] = p[n] /\ n \in 1 .. Len(p) /\ p[n] # << >> /\ p[n][1] \in Nat /\ p[n][1] < x
  BY <1>0 DEF Shown, Numbered
<1>3. Numbered(q, x + 1)
  BY <1>0, <1>1, <1>2, SMT DEF Numbered
<1>e. Len(p) \in Shown(p) /\ p[Len(p)][2] = v
  BY DEF EndsWith
<1>4. Spaced(q, x + 1)
  <2> SUFFICES ASSUME NEW n \in Shown(q) PROVE Gap(q, x + 1, n)
    BY DEF Spaced
  <2>1. n \in Shown(p)
    BY <1>1
  <2>2. Gap(p, x, n) /\ n \in 1 .. Len(p) /\ q[n] = p[n] /\ p[n][1] \in Nat /\ p[n][1] < x
    BY <1>2, <2>1 DEF Spaced
  <2>3. CASE n = Len(p)
    <3>1. q[n + 1] = << >>
      BY <1>0, <2>3
    <3>. QED
      BY <1>0, <2>2, <2>3, <3>1, SMT DEF Gap
  <2>4. CASE n + 1 = Len(p)
    <3>1. q[n + 1] = p[n + 1] /\ p[n + 1] # << >>
      BY <1>0, <1>2, <1>e, <2>2, <2>4, SMT
    <3>. QED
      BY <1>0, <2>2, <2>4, <3>1, SMT DEF Gap
  <2>5. CASE n + 2 <= Len(p)
    <3>1. q[n + 1] = p[n + 1] /\ q[n + 2] = p[n + 2]
      BY <1>0, <2>2, <2>5, SMT
    <3>. QED
      BY <1>0, <2>2, <2>5, <3>1, SMT DEF Gap
  <2>. QED
    BY <1>0, <2>2, <2>3, <2>4, <2>5, SMT
<1>5. EndsWith(q, x + 1, TRUE, v)
  <2>1. Len(q) - 1 = Len(p)
    BY <1>0, SMT
  <2>. QED
    BY <1>0, <1>1, <1>2, <1>e, <2>1 DEF EndsWith
<1>6. Tells(q, Len(p), x, v)
  <2>1. \A k \in Shown(q) : k <= Len(p)
    BY <1>0, <1>1, SMT DEF Shown
  <2>2. p[Len(p)][1] <= x /\ q[Len(p)] = p[Len(p)]
    BY <1>2, <1>e, SMT
  <2>. QED
    BY <1>1, <1>e, <2>1, <2>2 DEF Tells
<1>7. ASSUME NEW m, NEW w, NEW i \in 0 .. x - 1, Tells(p, m, i, w) PROVE Tells(q, m, i, w)
  BY <1>1, <1>2, <1>7 DEF Tells
<1>. QED
  BY <1>3, <1>4, <1>5, <1>6, <1>7

\* The others that are left out get none.
LEMMA ShowNothing ==
    ASSUME NEW p, Len(p) \in Nat, NEW x \in Nat, NEW v, x > 0,
           Numbered(p, x), Spaced(p, x), EndsWith(p, x, TRUE, v)
    PROVE  /\ Numbered(p, x + 1) /\ Spaced(p, x + 1) /\ EndsWith(p, x + 1, TRUE, v)
           /\ Tells(p, Len(p) - 1, x, v)
<1>1. \A n \in Shown(p) : n \in 1 .. Len(p) /\ p[n] # << >> /\ p[n][1] \in Nat /\ p[n][1] < x
  BY DEF Shown, Numbered
<1>2. Len(p) - 1 \in Shown(p) /\ p[Len(p) - 1][2] = v /\ p[Len(p)] = << >>
  BY DEF EndsWith
<1>3. Numbered(p, x + 1)
  BY <1>1, SMT DEF Numbered
<1>4. \A n \in Shown(p) : n <= Len(p) - 1
  BY <1>1, <1>2, SMT
<1>5. Spaced(p, x + 1)
  <2> SUFFICES ASSUME NEW n \in Shown(p) PROVE Gap(p, x + 1, n)
    BY DEF Spaced
  <2>1. Gap(p, x, n) /\ n \in 1 .. Len(p) /\ p[n][1] \in Nat /\ n <= Len(p) - 1
    BY <1>1, <1>4 DEF Spaced
  <2>. QED
    BY <2>1, SMT DEF Gap
<1>6. EndsWith(p, x + 1, TRUE, v)
  BY DEF EndsWith
<1>7. Tells(p, Len(p) - 1, x, v)
  <2>1. p[Len(p) - 1][1] <= x
    BY <1>1, <1>2, SMT
  <2>. QED
    BY <1>2, <1>4, <2>1 DEF Tells
<1>. QED
  BY <1>3, <1>5, <1>6, <1>7

DumpInv ==
    /\ printed \in Seq({<< >>} \cup (Nat \X Nat)) /\ regs \in Seq(Nat)
    /\ item = Len(regs) /\ prev \in Nat /\ dupped \in BOOLEAN
    /\ item = 0 => printed = << >>
    /\ item > 0 => EndsWith(printed, item, dupped, prev)
    /\ Numbered(printed, item) /\ Spaced(printed, item)
    /\ \A i \in 0 .. item - 1 : \E m : Tells(printed, m, i, regs[i + 1])

\* A line of the output is no mark.
LEMMA LineIs ==
    ASSUME NEW x \in Nat, NEW v \in Nat
    PROVE  <<x, v>> # << >> /\ <<x, v>>[1] = x /\ <<x, v>>[2] = v
<1>1. Len(<<x, v>>) = 2 /\ Len(<< >>) = 0
  OBVIOUS
<1>. QED
  BY <1>1

\* One item more has been read.
LEMMA OneMoreItem ==
    ASSUME NEW p, NEW q, NEW r, NEW s, NEW x \in Nat, NEW v, r \in Seq(Nat), x = Len(r), v \in Nat,
           s = Append(r, v), NEW n, Tells(q, n, x, v),
           \A i \in 0 .. x - 1 : \E m : Tells(p, m, i, r[i + 1]),
           \A m, w : \A i \in 0 .. x - 1 : Tells(p, m, i, w) => Tells(q, m, i, w)
    PROVE  \A i \in 0 .. x : \E m : Tells(q, m, i, s[i + 1])
<1>1. s[x + 1] = v /\ \A i \in 0 .. x - 1 : s[i + 1] = r[i + 1]
  <2>1. s[Len(r) + 1] = v /\ \A i \in 1 .. Len(r) : s[i] = r[i]
    BY AppendProperties
  <2>2. \A i \in 0 .. x - 1 : i + 1 \in 1 .. x
    BY SMT
  <2>. QED
    BY <2>1, <2>2
<1>2. \A i \in 0 .. x : i = x \/ i \in 0 .. x - 1
  BY SMT
<1>. QED
  BY <1>1, <1>2

\* pcimem reads an item.
LEMMA DumpItem == DumpInv /\ item \in Nat /\ ReadItem => DumpInv'
<1> SUFFICES ASSUME DumpInv, item \in Nat, ReadItem PROVE DumpInv'
  OBVIOUS
<1> DEFINE Row == {<< >>} \cup (Nat \X Nat)
           Read(v) == /\ regs' = Append(regs, v) /\ prev' = v /\ item' = item + 1
                      /\ v \in Nat
<1>1. PICK v : /\ Read(v)
               /\ \/ /\ v # prev \/ item = 0
                     /\ printed' = Append(printed, <<item, v>>) /\ dupped' = FALSE
                  \/ /\ v = prev /\ item # 0
                     /\ printed' = IF dupped THEN printed ELSE Append(printed, << >>)
                     /\ dupped' = TRUE
  BY PciAssumption DEF ReadItem
<1>2. /\ printed \in Seq(Row) /\ regs \in Seq(Nat) /\ item = Len(regs) /\ prev \in Nat
      /\ dupped \in BOOLEAN
      /\ Numbered(printed, item) /\ Spaced(printed, item)
      /\ \A i \in 0 .. item - 1 : \E m : Tells(printed, m, i, regs[i + 1])
  BY DEF DumpInv
<1>3. regs' \in Seq(Nat) /\ item' = Len(regs')
  BY <1>1, <1>2, AppendProperties
<1>4. ASSUME NEW e \in Row, printed' = Append(printed, e)
      PROVE  printed' \in Seq(Row) /\ Longer(printed, printed', e)
  <2>1. Len(printed) \in Nat
    BY <1>2, LenProperties
  <2> HIDE DEF Row
  <2>. QED
    BY <1>2, <1>4, <2>1, AppendProperties DEF Longer
<1>5. ASSUME NEW n, Tells(printed', n, item, v), printed' \in Seq(Row),
             EndsWith(printed', item + 1, dupped', v), dupped' \in BOOLEAN,
             Numbered(printed', item + 1), Spaced(printed', item + 1),
             \A m, w : \A i \in 0 .. item - 1 : Tells(printed, m, i, w) => Tells(printed', m, i, w)
      PROVE  DumpInv'
  <2>1. \A i \in 0 .. item : \E m : Tells(printed', m, i, regs'[i + 1])
    <3> DEFINE p == printed
               q == printed'
               s == regs'
    <3> HIDE DEF p, q, s
    <3>1. /\ s = Append(regs, v) /\ v \in Nat /\ Tells(q, n, item, v)
          /\ \A i \in 0 .. item - 1 : \E m : Tells(p, m, i, regs[i + 1])
          /\ \A m, w : \A i \in 0 .. item - 1 : Tells(p, m, i, w) => Tells(q, m, i, w)
      BY <1>1, <1>2, <1>5 DEF p, q, s
    <3>2. \A i \in 0 .. item : \E m : Tells(q, m, i, s[i + 1])
      BY ONLY <1>2, <3>1, item \in Nat, OneMoreItem
    <3>. QED
      BY <3>2 DEF q, s
  <2>2. item' - 1 = item /\ item' = item + 1 /\ item' # 0
    BY <1>1, SMT
  <2>3. \A i \in 0 .. item' - 1 : \E m : Tells(printed', m, i, regs'[i + 1])
    BY ONLY <2>1, <2>2
  <2>. QED
    BY <1>1, <1>3, <1>5, <2>2, <2>3 DEF DumpInv
<1>6. CASE (v # prev \/ item = 0) /\ printed' = Append(printed, <<item, v>>) /\ dupped' = FALSE
  <2> DEFINE e == <<item, v>>
  <2>1. e \in Row /\ e # << >> /\ e[1] = item /\ e[2] = v
    BY <1>1, LineIs
  <2>2. printed' \in Seq(Row) /\ Longer(printed, printed', e)
    BY <1>4, <1>6, <2>1
  <2> HIDE DEF e
  <2>3. /\ Numbered(printed', item + 1) /\ Spaced(printed', item + 1)
        /\ EndsWith(printed', item + 1, FALSE, v) /\ Tells(printed', Len(printed'), item, v)
        /\ \A m, w : \A i \in 0 .. item - 1 : Tells(printed, m, i, w) => Tells(printed', m, i, w)
    <3> DEFINE p == printed
               q == printed'
    <3> HIDE DEF p, q
    <3>1. Longer(p, q, e) /\ Numbered(p, item) /\ Spaced(p, item)
      BY <1>2, <2>2 DEF p, q
    <3>2. /\ Numbered(q, item + 1) /\ Spaced(q, item + 1)
          /\ EndsWith(q, item + 1, FALSE, v) /\ Tells(q, Len(q), item, v)
          /\ \A m, w : \A i \in 0 .. item - 1 : Tells(p, m, i, w) => Tells(q, m, i, w)
      BY ONLY <2>1, <3>1, item \in Nat, ShowLine
    <3>. QED
      BY <3>2 DEF p, q
  <2>. QED
    BY <1>5, <1>6, <2>2, <2>3
<1>7. CASE /\ v = prev /\ item # 0 /\ ~dupped
           /\ printed' = Append(printed, << >>) /\ dupped' = TRUE
  <2>1. printed' \in Seq(Row) /\ Longer(printed, printed', << >>)
    BY <1>4, <1>7
  <2>2. item > 0
    BY <1>7, SMT
  <2>3. EndsWith(printed, item, FALSE, v)
    BY <1>2, <1>7, <2>2 DEF DumpInv
  <2>4. /\ Numbered(printed', item + 1) /\ Spaced(printed', item + 1)
        /\ EndsWith(printed', item + 1, TRUE, v) /\ Tells(printed', Len(printed), item, v)
        /\ \A m, w : \A i \in 0 .. item - 1 : Tells(printed, m, i, w) => Tells(printed', m, i, w)
    <3> DEFINE p == printed
               q == printed'
    <3> HIDE DEF p, q
    <3>1. Longer(p, q, << >>) /\ Numbered(p, item) /\ Spaced(p, item) /\ EndsWith(p, item, FALSE, v)
      BY <1>2, <2>1, <2>3 DEF p, q
    <3>2. /\ Numbered(q, item + 1) /\ Spaced(q, item + 1)
          /\ EndsWith(q, item + 1, TRUE, v) /\ Tells(q, Len(p), item, v)
          /\ \A m, w : \A i \in 0 .. item - 1 : Tells(p, m, i, w) => Tells(q, m, i, w)
      BY ONLY <2>2, <3>1, item \in Nat, ShowMark
    <3>. QED
      BY <3>2 DEF p, q
  <2>. QED
    BY <1>5, <1>7, <2>1, <2>4
<1>8. CASE v = prev /\ item # 0 /\ dupped /\ printed' = printed /\ dupped' = TRUE
  <2>1. item > 0 /\ Len(printed) \in Nat
    BY <1>2, <1>8, LenProperties, SMT
  <2>2. EndsWith(printed, item, TRUE, v)
    BY <1>2, <1>8, <2>1 DEF DumpInv
  <2>3. /\ Numbered(printed, item + 1) /\ Spaced(printed, item + 1)
        /\ EndsWith(printed, item + 1, TRUE, v) /\ Tells(printed, Len(printed) - 1, item, v)
    BY ONLY <1>2, <2>1, <2>2, item \in Nat, ShowNothing
  <2>. QED
    BY <1>2, <1>5, <1>8, <2>3
<1>. QED
  BY <1>1, <1>2, <1>6, <1>7, <1>8

\* The invariant says what the output determines.
LEMMA DumpTells == PciInv /\ DumpInv => PciDumpFaithful
<1> SUFFICES ASSUME PciInv, DumpInv PROVE PciDumpFaithful
  OBVIOUS
<1>0. Len(printed) \in Nat /\ DOMAIN printed = 1 .. Len(printed) /\ item \in Nat
  <2>1. printed \in Seq({<< >>} \cup (Nat \X Nat)) /\ item = Len(regs) /\ regs \in Seq(Nat)
    BY DEF DumpInv
  <2>. QED
    BY <2>1, LenProperties
<1>1. Lines = Shown(printed)
  BY <1>0 DEF Lines, Shown
<1>2. ASSUME NEW i \in 0 .. item - 1 PROVE Told(i) = regs[i + 1]
  <2>1. PICK m : Tells(printed, m, i, regs[i + 1])
    BY DEF DumpInv
  <2> DEFINE before == {n \in Lines : printed[n][1] <= i}
             Latest(n) == n \in before /\ \A k \in before : k <= n
             c == CHOOSE n \in before : \A k \in before : k <= n
  <2>2. Latest(m) /\ printed[m][2] = regs[i + 1]
    BY <1>1, <2>1 DEF Tells
  <2>3. Latest(c)
    BY <2>2
  <2>4. c = m
    <3>1. c \in 1 .. Len(printed) /\ m \in 1 .. Len(printed) /\ c <= m /\ m <= c
      BY <1>1, <2>2, <2>3 DEF Shown
    <3> HIDE DEF c
    <3>. QED
      BY <1>0, <3>1, SMT
  <2>5. Told(i) = printed[c][2]
    BY DEF Told
  <2> HIDE DEF c
  <2>. QED
    BY <2>2, <2>4, <2>5
<1>3. ASSUME NEW n \in Lines
      PROVE  LET dots == n < Len(printed) /\ n + 1 \notin Lines
                 after == IF dots THEN n + 2 ELSE n + 1
                 next == IF after <= Len(printed) THEN printed[after] ELSE <<item, 0>>
             IN  next # << >> /\ (dots <=> next[1] > printed[n][1] + 1)
  <2> DEFINE p == printed
             end == <<item, 0>>
             dots == n < Len(p) /\ n + 1 \notin Lines
             after == IF dots THEN n + 2 ELSE n + 1
             next == IF after <= Len(p) THEN p[after] ELSE end
  <2>1. end # << >> /\ end[1] = item
    BY <1>0, LineIs
  <2>2. Gap(p, item, n) /\ n \in 1 .. Len(p) /\ p[n][1] \in Nat
    BY <1>1 DEF DumpInv, Spaced, Numbered, Shown
  <2>3. \A k \in Lines : p[k][1] \in Nat
    BY <1>1 DEF DumpInv, Numbered
  <2>4. \A k : k \in Lines <=> k \in 1 .. Len(p) /\ p[k] # << >>
    BY <1>1 DEF Shown
  <2>5. Len(p) \in Nat
    BY <1>0
  <2> HIDE DEF p, end
  <2>6. CASE n = Len(p)
    <3>1. ~dots /\ ~(n + 1 <= Len(p))
      BY <2>2, <2>5, <2>6, SMT
    <3>2. next = end /\ item <= p[n][1] + 1
      BY <2>2, <2>6, <3>1 DEF Gap
    <3>3. ~(item > p[n][1] + 1)
      BY ONLY <1>0, <2>2, <3>2, SMT
    <3>. QED
      BY <2>1, <3>1, <3>2, <3>3 DEF p, end
  <2>7. CASE n + 1 <= Len(p) /\ p[n + 1] # << >>
    <3>1. n + 1 \in Lines /\ p[n + 1][1] \in Nat
      BY <2>2, <2>3, <2>4, <2>5, <2>7, SMT
    <3>2. ~dots
      BY <3>1
    <3>3. next = p[n + 1] /\ next[1] <= p[n][1] + 1
      BY <2>2, <2>7, <3>2 DEF Gap
    <3>4. ~(p[n + 1][1] > p[n][1] + 1)
      BY ONLY <2>2, <3>1, <3>3, <2>7, SMT DEF Gap
    <3>. QED
      BY <2>7, <3>2, <3>3, <3>4 DEF p, end
  <2>8. CASE n + 1 = Len(p) /\ p[n + 1] = << >>
    <3>1. dots /\ ~(n + 2 <= Len(p))
      BY <2>2, <2>4, <2>5, <2>8, SMT
    <3>2. next = end /\ item > p[n][1] + 1
      BY <2>2, <2>8, <3>1 DEF Gap
    <3>. QED
      BY <2>1, <3>1, <3>2 DEF p, end
  <2>9. CASE n + 2 <= Len(p) /\ p[n + 1] = << >>
    <3>1. dots
      BY <2>2, <2>4, <2>5, <2>9, SMT
    <3>2. next = p[n + 2] /\ p[n + 2] # << >> /\ p[n + 2][1] > p[n][1] + 1
      BY <2>2, <2>9, <3>1 DEF Gap
    <3>. QED
      BY <3>1, <3>2 DEF p, end
  <2>10. n = Len(p) \/ n + 1 = Len(p) \/ n + 2 <= Len(p)
    BY <2>2, <2>5, SMT
  <2>11. n + 1 = Len(p) => n + 1 <= Len(p)
    BY <2>2, <2>5, SMT
  <2>12. n + 2 <= Len(p) => n + 1 <= Len(p)
    BY <2>2, <2>5, SMT
  <2>. QED
    BY <2>6, <2>7, <2>8, <2>9, <2>10, <2>11, <2>12 DEF p, end
<1>. QED
  BY <1>2, <1>3 DEF PciDumpFaithful

(***************************************************************************)
(* The output of pcimem determines every register it has read, however     *)
(* many items it is asked for and whatever their values: runs of equal     *)
(* values are left out, each behind exactly one mark.                      *)
(***************************************************************************)
THEOREM PciDumpIsFaithful == PciSpec => []PciDumpFaithful
<1>1. PciInit => DumpInv
  <2> SUFFICES ASSUME PciInit PROVE DumpInv
    OBVIOUS
  <2>1. /\ printed = << >> /\ regs = << >> /\ item = 0 /\ prev = 0 /\ dupped = FALSE
        /\ Len(printed) = 0 /\ Len(regs) = 0
    BY DEF PciInit
  <2>2. Shown(printed) = {}
    BY <2>1 DEF Shown
  <2>3. /\ 0 .. item - 1 = {} /\ ~(item > 0) /\ prev \in Nat
        /\ printed \in Seq({<< >>} \cup (Nat \X Nat)) /\ regs \in Seq(Nat)
    BY <2>1
  <2>. QED
    BY <2>1, <2>2, <2>3 DEF DumpInv, Numbered, Spaced
<1>2. PciInv /\ DumpInv /\ [PciNext]_pciVars => DumpInv'
  <2> SUFFICES ASSUME PciInv, DumpInv, [PciNext]_pciVars PROVE DumpInv'
    OBVIOUS
  <2>1. CASE ReadItem
    BY <2>1, DumpItem DEF PciInv, PciArgType
  <2>2. CASE UNCHANGED <<item, prev, dupped, printed, regs>>
    BY <2>2 DEF DumpInv
  <2>3. ReadItem \/ UNCHANGED <<item, prev, dupped, printed, regs>>
    BY DEF PciNext, Usage, Mmap, ReadFaults, WriteData, WriteAstray, Munmap, pciVars
  <2>. QED
    BY <2>1, <2>2, <2>3
<1>. QED
  BY <1>1, <1>2, PciInitial, PciStep, DumpTells, PTL DEF PciSpec

-----------------------------------------------------------------------------
(* mount_clear_sock.                                                       *)

KidType ==
    /\ kpc \in {"fork1", "fork2", "wait1", "wait2", "exit"}
    /\ round \in Nat /\ mounts \in Nat /\ dirtied \in BOOLEAN /\ kexit \in {0, 1}
    /\ kids \subseteq [kind : {"mount", "clear"}, round : Nat,
                       st : {"new", "tried", "ok", "failed"}]

\* Children there can be at each position of the parent.
KidPlaces ==
    /\ kpc = "fork1" => kids = {}
    /\ kpc = "fork2" => \A k \in kids : k.kind = "mount"
    /\ kpc = "wait2" => \A k \in kids : k.kind = "clear"
    /\ kpc = "exit" /\ kexit = 0 => kids = {}

KidOne ==
    /\ \A k \in kids : k.round = round
    /\ \A k, h \in kids : k.kind = h.kind => k = h

\* Who still has to unmount.
KidMounts ==
    /\ mounts > 1 => dirtied
    /\ mounts > 0 => dirtied \/ \E k \in kids : k.kind = "mount" /\ k.st = "tried"

KidInv == KidType /\ KidPlaces /\ KidOne /\ KidMounts

\* The invariant of mount_clear_sock holds before the first fork.
LEMMA KidInitial == KidInit => KidInv
<1> SUFFICES ASSUME KidInit PROVE KidInv
  OBVIOUS
<1>1. dirtied \in BOOLEAN
  BY Zenon DEF KidInit
<1>2. KidType
  BY <1>1 DEF KidInit, KidType
<1> QED
  BY <1>2 DEF KidInit, KidInv, KidPlaces, KidOne, KidMounts

\* What a child does: it keeps its kind and its round.
LEMMA KidMoves ==
    ASSUME KidInv, NEW k \in kids, NEW st \in {"new", "tried", "ok", "failed"},
           Moves(k, st), UNCHANGED <<kpc, round, kexit>>
    PROVE  /\ kids' \subseteq [kind : {"mount", "clear"}, round : Nat,
                               st : {"new", "tried", "ok", "failed"}]
           /\ KidPlaces' /\ KidOne'
           /\ \A h \in kids \ {k} : h \in kids' /\ h.kind # k.kind
           /\ \E h \in kids' : h.kind = k.kind /\ h.st = st
<1> DEFINE n == [k EXCEPT !.st = st]
<1>1. kids' = (kids \ {k}) \cup {n}
  BY DEF Moves
<1>2. n \in [kind : {"mount", "clear"}, round : Nat, st : {"new", "tried", "ok", "failed"}]
  BY DEF KidInv, KidType
<1>3. n.kind = k.kind /\ n.round = k.round /\ n.st = st
  BY DEF KidInv, KidType
<1>4. \A h \in kids \ {k} : h.kind # k.kind
  BY DEF KidInv, KidOne
<1> HIDE DEF n
<1>5. KidPlaces'
  BY <1>1, <1>3 DEF KidInv, KidPlaces
<1>6. KidOne'
  BY <1>1, <1>3, <1>4 DEF KidInv, KidOne
<1> QED
  BY <1>1, <1>2, <1>3, <1>4, <1>5, <1>6 DEF KidInv, KidType

\* Every step of the parent and of a child keeps it.
LEMMA KidStep == KidInv /\ [KidNext]_kidVars => KidInv'
<1> SUFFICES ASSUME KidInv, [KidNext]_kidVars
             PROVE  KidInv'
  OBVIOUS
<1>1. CASE ForkMount
  BY <1>1 DEF ForkMount, Leave, Kid, EXIT_FAILURE, KidInv, KidType, KidPlaces, KidOne,
              KidMounts
<1>2. CASE ForkClear
  BY <1>2 DEF ForkClear, Leave, Kid, EXIT_FAILURE, KidInv, KidType, KidPlaces, KidOne,
              KidMounts
<1>3. CASE WaitMount
  BY <1>3 DEF WaitMount, Reap, Leave, EXIT_FAILURE, KidInv, KidType, KidPlaces, KidOne,
              KidMounts
<1>4. CASE WaitClear
  BY <1>4 DEF WaitClear, Reap, Leave, EXIT_FAILURE, KidInv, KidType, KidPlaces, KidOne,
              KidMounts
<1>5. ASSUME NEW k \in kids, MountRuns(k) PROVE KidInv'
  <2>1. CASE k.st = "new" /\ Moves(k, "tried") /\ mounts' \in {mounts, mounts + 1}
             /\ UNCHANGED dirtied
    BY <1>5, <2>1, KidMoves DEF MountRuns, KidInv, KidType, KidOne, KidMounts
  <2>2. CASE k.st = "tried" /\ Moves(k, "ok")
    <3>1. /\ UNCHANGED <<kpc, round, kexit>> /\ k.kind = "mount"
          /\ \/ mounts' = (IF mounts > 0 THEN mounts - 1 ELSE 0) /\ dirtied' = dirtied
             \/ mounts' = mounts /\ dirtied' = (dirtied \/ mounts > 0)
      BY <1>5, <2>2 DEF MountRuns
    <3>2. /\ KidPlaces' /\ KidOne'
          /\ kids' \subseteq [kind : {"mount", "clear"}, round : Nat,
                              st : {"new", "tried", "ok", "failed"}]
      BY <2>2, <3>1, KidMoves
    <3>3. mounts' \in Nat
      BY <3>1 DEF KidInv, KidType
    <3>4. dirtied' \in BOOLEAN
      BY <3>1 DEF KidInv, KidType
    <3>5. mounts' > 0 => dirtied'
      <4>1. CASE mounts' = (IF mounts > 0 THEN mounts - 1 ELSE 0) /\ dirtied' = dirtied
        <5>1. mounts' > 0 => mounts > 1
          BY <4>1 DEF KidInv, KidType
        <5> QED
          BY <4>1, <5>1 DEF KidInv, KidMounts
      <4>2. CASE mounts' = mounts /\ dirtied' = (dirtied \/ mounts > 0)
        BY <4>2, Zenon
      <4> QED
        BY <3>1, <4>1, <4>2
    <3> QED
      BY <3>1, <3>2, <3>3, <3>4, <3>5 DEF KidInv, KidType, KidMounts
  <2> QED
    BY <1>5, <2>1, <2>2 DEF MountRuns
<1>6. ASSUME NEW k \in kids, ClearRuns(k) PROVE KidInv'
  <2>1. PICK st \in {"ok", "failed"} : Moves(k, st)
    BY <1>6 DEF ClearRuns
  <2> QED
    BY <1>6, <2>1, KidMoves DEF ClearRuns, KidInv, KidType, KidMounts
<1>7. ASSUME NEW k \in kids, Killed(k) PROVE KidInv'
  BY <1>7, KidMoves DEF Killed, KidInv, KidType, KidMounts
<1>8. CASE UNCHANGED kidVars
  BY <1>8 DEF kidVars, KidInv, KidType, KidPlaces, KidOne, KidMounts
<1> QED
  BY <1>1, <1>2, <1>3, <1>4, <1>5, <1>6, <1>7, <1>8 DEF KidNext, Parent

(***************************************************************************)
(* The rounds of mount_clear_sock do not overlap and success leaves no     *)
(* child behind, for any number of rounds.                                 *)
(***************************************************************************)
THEOREM RoundsStayApart == KidSpec => []RoundsApart
<1>1. KidInv => RoundsApart
  BY DEF KidInv, KidType, KidPlaces, KidOne, KidMounts, RoundsApart
<1> QED
  BY KidInitial, KidStep, <1>1, PTL DEF KidSpec

-----------------------------------------------------------------------------
(* nvme-passthrough-meta.                                                  *)

\* The command block after each step, although a step only sets what changes.
CmdOfStep ==
    /\ cmd \in [opcode : 0 .. 2, prot : {"rw", "ro"}, at : {0, 4080}]
    /\ step = 0 => cmd.opcode = 0
    /\ step \in {1, 3, 5} => cmd.opcode = 1
    /\ step \in {2, 4, 6} => cmd.opcode = 2
    /\ cmd.prot = "ro" <=> step \in {5, 6}
    /\ cmd.at = 4080 <=> step \in {3, 4}

\* Where the program is, what was refused so far, and what its status stands for.
NvmePlaces ==
    /\ step \in 0 .. 6 /\ sound \in BOOLEAN
    /\ npc \in {"open", "map", "send", "exit"}
    /\ npc = "open" => step = 0
    /\ npc # "exit" => step < 6
    /\ sound => refused = IF step = 6 THEN {6} ELSE {}
    /\ npc = "exit" /\ sound /\ lbaf.ms # 0 => step = 6 /\ nret = 0
    /\ npc = "exit" /\ nret = 0 => step = 6 /\ 6 \in refused

NvmeInv == CmdOfStep /\ NvmePlaces

\* The program starts with nothing sent.
LEMMA NvmeInitial == NvmeInit => NvmeInv
BY DEF NvmeInit, NvmeInv, CmdOfStep, NvmePlaces, NoCmd

\* Each command of nvme-passthrough-meta leaves the command block of its step.
LEMMA NvmeStep == NvmeInv /\ [NvmeNext]_nvmeVars => NvmeInv'
<1> SUFFICES ASSUME NvmeInv, [NvmeNext]_nvmeVars PROVE NvmeInv'
  OBVIOUS
<1> USE DEF NvmeInv
<1>1. CASE Identify
  <2>1. CmdOfStep'
    BY <1>1 DEF Identify, CmdOfStep
  <2>2. NvmePlaces'
    BY <1>1 DEF Identify, NvmeReturn, NvmePlaces
  <2>. QED
    BY <2>1, <2>2
<1>2. CASE MapMeta
  <2>1. CmdOfStep'
    BY <1>2 DEF MapMeta, CmdOfStep
  <2>2. NvmePlaces'
    BY <1>2 DEF MapMeta, NvmeReturn, NvmePlaces
  <2>. QED
    BY <2>1, <2>2
<1>3. CASE Command
  <2>1. step' = step + 1 /\ cmd' = Prepare(step', cmd) /\ step \in 0 .. 5
    BY <1>3 DEF Command, NvmePlaces
  <2>2. CmdOfStep'
    <3>1. CASE step = 0
      BY <2>1, <3>1 DEF CmdOfStep, Prepare
    <3>2. CASE step = 1
      BY <2>1, <3>2 DEF CmdOfStep, Prepare
    <3>3. CASE step = 2
      BY <2>1, <3>3 DEF CmdOfStep, Prepare
    <3>4. CASE step = 3
      BY <2>1, <3>4 DEF CmdOfStep, Prepare
    <3>5. CASE step = 4
      BY <2>1, <3>5 DEF CmdOfStep, Prepare
    <3>6. CASE step = 5
      BY <2>1, <3>6 DEF CmdOfStep, Prepare
    <3>. QED
      BY <2>1, <3>1, <3>2, <3>3, <3>4, <3>5, <3>6
  <2>3. /\ step' = 6 => cmd'.opcode = 2 /\ cmd'.prot = "ro"
        /\ step' \in 1 .. 5 => cmd'.opcode # 2 \/ cmd'.prot # "ro"
    BY <2>1, <2>2 DEF CmdOfStep
  <2>4. PICK r \in Replies(cmd') :
           /\ refused' = IF r = 0 THEN refused ELSE refused \cup {step'}
           /\ \/ Unwelcome(step', r) /\ NvmeReturn(1)
              \/ ~Unwelcome(step', r) /\ step' = 6 /\ NvmeReturn(0)
              \/ /\ ~Unwelcome(step', r) /\ step' < 6
                 /\ npc' = IF step' = 4 THEN "map" ELSE "send"
                 /\ UNCHANGED nret
    BY <1>3 DEF Command
  <2>5. sound => r = IF step' = 6 THEN -1 ELSE 0
    BY <2>1, <2>3, <2>4 DEF Replies
  <2>6. r \in Int /\ UNCHANGED <<lbaf, sound>>
    BY <1>3, <2>4 DEF Command, Replies
  <2>7. NvmePlaces'
    <3>0. sound \in BOOLEAN /\ (sound => refused = {})
      BY <2>1 DEF NvmePlaces
    <3>1. CASE step' = 6
      <4>1. /\ npc' = "exit" /\ nret' = (IF r = 0 THEN 1 ELSE 0)
            /\ r # 0 => 6 \in refused'
        BY <2>4, <3>1 DEF Unwelcome, NvmeReturn
      <4>2. sound => nret' = 0 /\ refused' = {6}
        BY <2>4, <2>5, <3>0, <3>1, <4>1
      <4>. QED
        BY <2>6, <3>0, <3>1, <4>1, <4>2 DEF NvmePlaces
    <3>2. CASE step' \in 1 .. 5
      <4>1. \/ r < 0 /\ npc' = "exit" /\ nret' = 1
            \/ npc' \in {"map", "send"}
        BY <2>4, <3>2 DEF Unwelcome, NvmeReturn
      <4>2. sound => r = 0 /\ refused' = {}
        BY <2>4, <2>5, <3>0, <3>2
      <4>3. sound => npc' \in {"map", "send"}
        BY <4>1, <4>2
      <4>. QED
        BY <2>6, <3>0, <3>2, <4>1, <4>2, <4>3 DEF NvmePlaces
    <3>. QED
      BY <2>1, <3>1, <3>2
  <2>. QED
    BY <2>2, <2>7
<1>4. CASE UNCHANGED nvmeVars
  BY <1>4 DEF nvmeVars, CmdOfStep, NvmePlaces
<1>. QED
  BY <1>1, <1>2, <1>3, <1>4 DEF NvmeNext

(***************************************************************************)
(* The metadata of every command of nvme-passthrough-meta lies in its      *)
(* mapping, across the page boundary too, on every format nvme/064 asks    *)
(* for.                                                                    *)
(***************************************************************************)
THEOREM PassthruStaysInBounds == NvmeSpec => []PassthruInBounds
<1>1. NvmeInv => PassthruInBounds
  <2> SUFFICES ASSUME NvmeInv, cmd.opcode # 0, lbaf.ms \in {8, 16, 64}, lbaf.ds \in 9 .. 12
               PROVE  blocks > 0 /\ cmd.at + meta_buffer_size <= MapSize
    BY DEF PassthruInBounds, Suited
  <2>1. cmd.at \in {0, 4080}
    BY DEF NvmeInv, CmdOfStep, NvmePlaces, NoCmd
  <2>2. blocks \in {64, 32, 16, 8}
    <3>1. CASE lbaf.ds = 9
      <4>1. 2 ^ lbaf.ds = 2 ^ 9
        BY ONLY <3>1, Zenon
      <4>2. 2 ^ lbaf.ds = 512
        BY ONLY <4>1, SMT
      <4>. QED
        BY ONLY <4>2, SMT DEF blocks, BUFFER_SIZE
    <3>2. CASE lbaf.ds = 10
      <4>1. 2 ^ lbaf.ds = 2 ^ 10
        BY ONLY <3>2, Zenon
      <4>2. 2 ^ lbaf.ds = 1024
        BY ONLY <4>1, SMT
      <4>. QED
        BY ONLY <4>2, SMT DEF blocks, BUFFER_SIZE
    <3>3. CASE lbaf.ds = 11
      <4>1. 2 ^ lbaf.ds = 2 ^ 11
        BY ONLY <3>3, Zenon
      <4>2. 2 ^ lbaf.ds = 2048
        BY ONLY <4>1, SMT
      <4>. QED
        BY ONLY <4>2, SMT DEF blocks, BUFFER_SIZE
    <3>4. CASE lbaf.ds = 12
      <4>1. 2 ^ lbaf.ds = 2 ^ 12
        BY ONLY <3>4, Zenon
      <4>2. 2 ^ lbaf.ds = 4096
        BY ONLY <4>1, SMT
      <4>. QED
        BY ONLY <4>2, SMT DEF blocks, BUFFER_SIZE
    <3>. QED
      BY <3>1, <3>2, <3>3, <3>4
  <2>. QED
    BY <2>1, <2>2 DEF meta_buffer_size, MapSize
<1>. QED
  BY <1>1, NvmeInitial, NvmeStep, PTL DEF NvmeSpec

(***************************************************************************)
(* nvme-passthrough-meta passes on every working driver, and never on one  *)
(* that stores into the read-only mapping of its last command.             *)
(***************************************************************************)
THEOREM PassthruVerdict == NvmeSpec => []PassthruFair
<1>1. NvmeInv => PassthruFair
  BY DEF NvmeInv, CmdOfStep, NvmePlaces, PassthruFair, Suited
<1>. QED
  BY <1>1, NvmeInitial, NvmeStep, PTL DEF NvmeSpec
=============================================================================
