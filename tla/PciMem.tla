------------------------------- MODULE PciMem -------------------------------
(***************************************************************************)
(* blktests/src/pcimem.c, used by nvme/068: map a PCI resource, print the  *)
(* registers from an offset on, runs of equal values as one "...", and     *)
(* optionally write to the last one.                                       *)
(*                                                                         *)
(* The numbers are ints: items_count keeps the low bits of what strtoul    *)
(* returns, map_size those of an off_t, and a product of ints that         *)
(* overflows, which is undefined, either wraps or is computed in 64 bits.  *)
(*                                                                         *)
(* External: the value a register has when it is read.                     *)
(***************************************************************************)
EXTENDS Integers, Sequences

CONSTANTS
    PciArgs,    \* page size, offset (an off_t), width in bytes, count on the
                \* command line, data given
    RegValues,  \* values a register may have, as many as printing can tell apart
    IntMax,     \* INT_MAX
    MaxItems    \* bound on the items read

ASSUME PciAssumption ==
    /\ \A a \in PciArgs : /\ a.page \in Nat \ {0} /\ a.width \in {1, 2, 4, 8}
                          /\ a.target \in Int /\ a.count \in Nat /\ a.data \in BOOLEAN
    /\ 0 \in RegValues /\ RegValues \subseteq Nat
    /\ IntMax \in Nat /\ IntMax >= 4096 /\ MaxItems \in Nat

VARIABLES
    ppc,        \* start, map, loop, write, exit
    arg,
    window,     \* the mapping: where it starts in the resource, and its size
    item,       \* the loop variable i
    prev, dupped,
    printed,    \* lines on stdout: <<item, value>>, or << >> for "..."
    regs,       \* history: the values read
    touched     \* history: last access, as an address in the resource

pciVars == <<ppc, arg, window, item, prev, dupped, printed, regs, touched>>

NoArg == [page |-> 4096, target |-> 0, width |-> 4, count |-> 1, data |-> FALSE]
NoWindow == [base |-> 0, size |-> 0]

PciInit ==
    /\ ppc = "start" /\ arg = NoArg /\ window = NoWindow /\ item = 0
    /\ prev = 0 /\ dupped = FALSE /\ printed = << >> /\ regs = << >> /\ touched = 0

Usage ==
    /\ ppc = "start"
    /\ arg' \in PciArgs
    /\ ppc' \in {"map", "exit"}         \* illegal type, or the file cannot be opened
    /\ UNCHANGED <<window, item, prev, dupped, printed, regs, touched>>

\* What an int holds of a wider number.
ToInt(n) ==
    LET m == n % (2 * IntMax + 2) IN IF m > IntMax THEN m - (2 * IntMax + 2) ELSE m

items_count == ToInt(arg.count)
target_base == arg.target - (arg.target % arg.page)

\* n * type_width.
Products(n) == {n * arg.width, ToInt(n * arg.width)}

\* Mutant: the offset in the page is forgotten.
BadNeeded(product) == product

Needed(product) == arg.target + product - target_base

map_size(product) == IF Needed(product) > 4096 THEN ToInt(Needed(product)) ELSE 4096

\* mmap refuses a size of 0, or a negative one, which is huge as a size_t.
Mmap ==
    /\ ppc = "map"
    /\ \/ \E product \in Products(items_count) :
            /\ map_size(product) > 0
            /\ window' = [base |-> target_base, size |-> map_size(product)]
            /\ touched' = target_base
            /\ ppc' = "loop"
       \/ ppc' = "exit" /\ UNCHANGED <<window, touched>>
    /\ UNCHANGED <<arg, item, prev, dupped, printed, regs>>

\* Where item n is: virt_addr.
Addresses(n) == {window.base + (arg.target + product - target_base) : product \in Products(n)}

\* Mutant: dupped is not reset.
BadReadItem ==
    /\ ppc = "loop"
    /\ item < items_count /\ item < MaxItems
    /\ touched' \in Addresses(item)
    /\ \E v \in RegValues :
         /\ regs' = Append(regs, v)
         /\ prev' = v
         /\ printed' = IF v # prev \/ item = 0 THEN Append(printed, <<item, v>>)
                       ELSE IF dupped THEN printed ELSE Append(printed, << >>)
         /\ dupped' = (dupped \/ (v = prev /\ item # 0))
    /\ item' = item + 1
    /\ UNCHANGED <<ppc, arg, window>>

ReadItem ==
    /\ ppc = "loop"
    /\ item < items_count /\ item < MaxItems
    /\ touched' \in Addresses(item)
    /\ \E v \in RegValues :
         /\ regs' = Append(regs, v)
         /\ prev' = v
         /\ \/ /\ v # prev \/ item = 0
               /\ printed' = Append(printed, <<item, v>>)
               /\ dupped' = FALSE
            \/ /\ v = prev /\ item # 0
               /\ printed' = IF dupped THEN printed ELSE Append(printed, << >>)
               /\ dupped' = TRUE
    /\ item' = item + 1
    /\ UNCHANGED <<ppc, arg, window>>

\* A load outside the mapping finds some other memory (ReadItem) or none.
ReadFaults ==
    /\ ppc = "loop"
    /\ item < items_count /\ item < MaxItems
    /\ touched' \in Addresses(item)
    /\ touched' \notin window.base .. window.base + window.size - arg.width
    /\ ppc' = "exit"
    /\ UNCHANGED <<arg, window, item, prev, dupped, printed, regs>>

\* virt_addr is still that of the last item.
WriteData ==
    /\ ppc = "loop"
    /\ item = items_count
    /\ items_count > 0
    /\ arg.data
    /\ touched' \in Addresses(items_count - 1)
    /\ ppc' = "exit"
    /\ UNCHANGED <<arg, window, item, prev, dupped, printed, regs>>

\* With no item virt_addr was never set: the store goes anywhere.
WriteAstray ==
    /\ ppc = "loop"
    /\ items_count <= 0 /\ arg.data
    /\ touched' \in {0, arg.target, arg.target + 2 * arg.page}
    /\ ppc' = "exit"
    /\ UNCHANGED <<arg, window, item, prev, dupped, printed, regs>>

Munmap ==
    /\ ppc = "loop"
    /\ item >= items_count
    /\ ~arg.data
    /\ ppc' = "exit"
    /\ UNCHANGED <<arg, window, item, prev, dupped, printed, regs, touched>>

PciNext == Usage \/ Mmap \/ ReadItem \/ ReadFaults \/ WriteData \/ WriteAstray \/ Munmap
PciSpec == PciInit /\ [][PciNext]_pciVars

-----------------------------------------------------------------------------
(* Properties.                                                             *)

\* The bytes asked for, from the start of the first one's page, fit an int.
Fits == (arg.target % arg.page) + items_count * arg.width <= IntMax

(***************************************************************************)
(* Every load and store of pcimem hits the mapping, whose start is rounded *)
(* down to a page and whose size is at least 4096 whatever a page is, as   *)
(* long as the size fits the int it is computed in and there is an item    *)
(* to read.  Beyond an int it need not: 2^28 items of 8 bytes wrap, and    *)
(* one page is mapped; without an item the data is stored anywhere.        *)
(***************************************************************************)
PciMapped ==
    window.size > 0 /\ Fits /\ items_count > 0 =>
        touched \in window.base .. window.base + window.size - arg.width

Lines == {n \in DOMAIN printed : printed[n] # << >>}

\* The value a reader of the output takes item i to have.
Told(i) ==
    LET before == {n \in Lines : printed[n][1] <= i}
        n == CHOOSE m \in before : \A k \in before : k <= m
    IN  printed[n][2]

(***************************************************************************)
(* The output of pcimem determines every value that was read: a register   *)
(* that is not printed has the value of the line above, and "..." stands   *)
(* exactly where registers are left out, once for a run of them.           *)
(***************************************************************************)
PciDumpFaithful ==
    /\ \A i \in 0 .. item - 1 : Told(i) = regs[i + 1]
    /\ \A n \in Lines :
         LET dots == n < Len(printed) /\ n + 1 \notin Lines
             after == IF dots THEN n + 2 ELSE n + 1
             next == IF after <= Len(printed) THEN printed[after] ELSE <<item, 0>>
         IN  next # << >> /\ (dots <=> next[1] > printed[n][1] + 1)
=============================================================================
