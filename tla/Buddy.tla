-------------------------------- MODULE Buddy --------------------------------
(***************************************************************************)
(* The buddy allocator of kernel/mm/buddy.c, one loop iteration per step.   *)
(*                                                                         *)
(* Pages are numbered from buddy.start_page, as page_idx is.  The list of   *)
(* an order is the set of its members: list_add puts a page in front and    *)
(* __alloc_pages takes the front page, here any member, so every order the  *)
(* code can meet is covered (ListHead.tla checks the links themselves).     *)
(* The page flags are left out: nothing in buddy.c reads them.              *)
(***************************************************************************)
EXTENDS Integers, FiniteSets

CONSTANTS
    MaxOrder,   \* MAX_BUDDY_ORDER
    NPages,     \* pages from buddy_start_pfn to buddy_end_pfn
    BlockSize,  \* BlockSize[k] is 1 << k
    CounterMod  \* one more than the largest unsigned int

Orders == 0 .. MaxOrder
Pages  == 0 .. NPages - 1
Blocks == Pages \X Orders

NoLevel == -1     \* bplevel of a page that heads no block: (unsigned)-1

\* buddy_start_pfn and buddy_end_pfn are rounded to 1 << MAX_BUDDY_ORDER.
ASSUME SizeAssumption ==
    /\ MaxOrder \in Nat /\ NPages \in Nat
    /\ BlockSize \in [Orders -> Nat \ {0}]
    /\ BlockSize[0] = 1
    /\ \A k \in Orders \ {MaxOrder} : BlockSize[k + 1] = 2 * BlockSize[k]
    /\ \A j, k \in Orders : j <= k => BlockSize[k] % BlockSize[j] = 0
    /\ NPages % BlockSize[MaxOrder] = 0

ASSUME CounterAssumption == CounterMod \in Nat /\ CounterMod > NPages

VARIABLES
    bplevel,    \* page -> order of the block it heads, or NoLevel
    freelist,   \* order -> pages on freelist[order].free_head
    nr_free,    \* order -> freelist[order].nr_free
    booted,     \* init_buddy's loop variable: pages below it have been freed
    pc,         \* where the call is: "idle", "scan", "split", "merge"
    idx,        \* the call's page_idx (merge) or page (split)
    level,      \* the call's bplevel (merge) or current_order (scan, split)
    want,       \* the order asked of __alloc_pages
    owned       \* blocks the callers hold; no variable of the program

vars == <<bplevel, freelist, nr_free, booted, pc, idx, level, want, owned>>

(***************************************************************************)
(* Blocks                                                                   *)
(***************************************************************************)
Run(p, k)     == p .. p + BlockSize[k] - 1
Aligned(p, k) == p % BlockSize[k] = 0
BlockRun(b)   == Run(b[1], b[2])

\* page_idx ^ (1 << k) for an aligned page: the other half of the block of
\* order k + 1.
Twin(p, k) == IF Aligned(p, k + 1) THEN p + BlockSize[k] ELSE p - BlockSize[k]

\* Mutant of Lower: | for &.
Upper(p, q) == IF p < q THEN q ELSE p

\* bgroup_idx & page_idx
Lower(p, q) == IF p < q THEN p ELSE q

\* Mutant of Dec: a forgotten --.
Same(n) == n

\* ++ and -- of an unsigned int
Inc(n) == IF n = CounterMod - 1 THEN 0 ELSE n + 1
Dec(n) == IF n = 0 THEN CounterMod - 1 ELSE n - 1

ListedBlocks == {b \in Blocks : b[1] \in freelist[b[2]]}
\* The block a call has taken off the lists and not yet put back or returned.
BlockInHand == IF pc \in {"split", "merge"} THEN {<<idx, level>>} ELSE {}
AllBlocks   == ListedBlocks \cup BlockInHand \cup owned

(***************************************************************************)
(* init_buddy and __free_pages                                              *)
(***************************************************************************)
Init ==
    /\ bplevel = [p \in Pages |-> NoLevel]
    /\ freelist = [k \in Orders |-> {}]
    /\ nr_free = [k \in Orders |-> 0]
    /\ booted = 0
    /\ pc = "idle" /\ idx = 0 /\ level = 0 /\ want = 0
    /\ owned = {}

\* Entry of __free_pages.
Enter(p, k) ==
    /\ pc' = "merge" /\ idx' = p /\ level' = k
    /\ UNCHANGED <<bplevel, freelist, nr_free, want>>

BootFree ==
    /\ pc = "idle" /\ booted < NPages
    /\ booted' = booted + 1
    /\ Enter(booted, 0)
    /\ UNCHANGED owned

\* free_pages: a caller gives back a block it holds.
Free(p, k) ==
    /\ pc = "idle" /\ booted = NPages
    /\ <<p, k>> \in owned
    /\ owned' = owned \ {<<p, k>>}
    /\ Enter(p, k)
    /\ UNCHANGED booted

\* Mutants of CanMerge: it stops an order early; it merges whatever heads a block.
StopsEarly  == level < MaxOrder - 1 /\ bplevel[Twin(idx, level)] = level
MergesAny   == level < MaxOrder /\ bplevel[Twin(idx, level)] # NoLevel

CanMerge == level < MaxOrder /\ bplevel[Twin(idx, level)] = level

\* The body of the while loop.
Merge ==
    /\ pc = "merge" /\ CanMerge
    /\ LET twin == Twin(idx, level) IN
        /\ freelist' = [freelist EXCEPT ![level] = @ \ {twin}]
        /\ nr_free' = [nr_free EXCEPT ![level] = Dec(@)]
        /\ bplevel' = [bplevel EXCEPT ![twin] = NoLevel]
        /\ idx' = Lower(idx, twin)
    /\ level' = level + 1
    /\ UNCHANGED <<booted, pc, want, owned>>

\* After the loop: the block goes on the list of its order.
MergeDone ==
    /\ pc = "merge" /\ ~CanMerge
    /\ bplevel' = [bplevel EXCEPT ![idx] = level]
    /\ freelist' = [freelist EXCEPT ![level] = @ \cup {idx}]
    /\ nr_free' = [nr_free EXCEPT ![level] = Inc(@)]
    /\ pc' = "idle" /\ idx' = 0 /\ level' = 0
    /\ UNCHANGED <<booted, want, owned>>

(***************************************************************************)
(* __alloc_pages                                                            *)
(***************************************************************************)
AllocCall(k) ==
    /\ pc = "idle" /\ booted = NPages
    /\ pc' = "scan" /\ want' = k /\ level' = k
    /\ UNCHANGED <<bplevel, freelist, nr_free, booted, idx, owned>>

ScanNext ==
    /\ pc = "scan" /\ level <= MaxOrder
    /\ freelist[level] = {}
    /\ level' = level + 1
    /\ UNCHANGED <<bplevel, freelist, nr_free, booted, pc, idx, want, owned>>

AllocFail ==
    /\ pc = "scan" /\ level > MaxOrder
    /\ pc' = "idle" /\ level' = 0 /\ want' = 0
    /\ UNCHANGED <<bplevel, freelist, nr_free, booted, idx, owned>>

Found(p) ==
    /\ pc = "scan" /\ level <= MaxOrder
    /\ p \in freelist[level]
    /\ freelist' = [freelist EXCEPT ![level] = @ \ {p}]
    /\ bplevel' = [bplevel EXCEPT ![p] = want]
    /\ nr_free' = [nr_free EXCEPT ![level] = Dec(@)]
    /\ pc' = "split" /\ idx' = p
    /\ UNCHANGED <<booted, level, want, owned>>

\* One iteration: the upper half goes on the list one order down.
Split ==
    /\ pc = "split" /\ level > want
    /\ LET half == level - 1
           upper == idx + BlockSize[half] IN
        /\ freelist' = [freelist EXCEPT ![half] = @ \cup {upper}]
        /\ nr_free' = [nr_free EXCEPT ![half] = Inc(@)]
        /\ bplevel' = [bplevel EXCEPT ![upper] = half]
        /\ level' = half
    /\ UNCHANGED <<booted, pc, idx, want, owned>>

AllocReturn ==
    /\ pc = "split" /\ level = want
    /\ owned' = owned \cup {<<idx, want>>}
    /\ pc' = "idle" /\ idx' = 0 /\ level' = 0 /\ want' = 0
    /\ UNCHANGED <<bplevel, freelist, nr_free, booted>>

(***************************************************************************)
(* Specifications                                                           *)
(***************************************************************************)
\* The steps of a call that has begun, and of init_buddy's loop.
Step == \/ BootFree \/ Merge \/ MergeDone
        \/ ScanNext \/ AllocFail \/ (\E p \in Pages : Found(p))
        \/ Split \/ AllocReturn

\* Callers ask for any order and give back any block they hold, once, with
\* the order it was allocated with.
Next == \/ Step
        \/ \E k \in Orders : AllocCall(k)
        \/ \E p \in Pages, k \in Orders : Free(p, k)

Spec == Init /\ [][Next]_vars /\ WF_vars(Step)

(***************************************************************************)
(* The discipline under which the allocator is correct.  __free_pages takes *)
(* "its twin's bplevel is my order" for "my twin is free", and an allocated *)
(* block keeps its order in bplevel.  A block is safe to give back when no  *)
(* block it can merge its way up to has an allocated twin of that order.    *)
(***************************************************************************)
\* p and q lie in the same block of order k + 1.
SameParent(p, q, k) ==
    \E m \in Pages : /\ Aligned(m, k + 1)
                     /\ p \in Run(m, k + 1) /\ q \in Run(m, k + 1)

SafeToFree(p, k) ==
    \A b \in owned \ {<<p, k>>} :
        (k <= b[2] /\ b[2] < MaxOrder) => ~SameParent(p, b[1], b[2])

SafeNext == \/ Step
            \/ \E k \in Orders : AllocCall(k)
            \/ \E p \in Pages, k \in Orders : SafeToFree(p, k) /\ Free(p, k)

SafeSpec == Init /\ [][SafeNext]_vars /\ WF_vars(Step)

(***************************************************************************)
(* Properties                                                               *)
(***************************************************************************)
TypeOK ==
    /\ bplevel \in [Pages -> Orders \cup {NoLevel}]
    /\ freelist \in [Orders -> SUBSET Pages]
    /\ nr_free \in [Orders -> 0 .. CounterMod - 1]
    /\ booted \in 0 .. NPages
    /\ pc \in {"idle", "scan", "split", "merge"}
    /\ idx \in Pages \cup {0}
    /\ level \in 0 .. MaxOrder + 1
    /\ pc \in {"split", "merge"} => level \in Orders
    /\ want \in Orders
    /\ owned \subseteq Blocks

\* Every block, listed, in hand or held by a caller, is aligned to its size
\* and lies in the arena, so the XOR of __free_pages always finds the other
\* half of a larger block.
WellPlaced ==
    \A b \in AllBlocks : Aligned(b[1], b[2]) /\ BlockRun(b) \subseteq Pages

\* No page is in two blocks, and no block is both free and held:
\* __alloc_pages never hands out a page that a caller holds, and
\* __free_pages never merges one into a free block.
NoOverlap ==
    /\ ListedBlocks \cap owned = {}
    /\ BlockInHand \cap (ListedBlocks \cup owned) = {}
    /\ \A b, c \in AllBlocks : b # c => BlockRun(b) \cap BlockRun(c) = {}

\* No page is ever lost: each page init_buddy has freed is in some block,
\* at every step of every call.
NothingLost ==
    \A x \in 0 .. booted - 1 : \E b \in AllBlocks : x \in BlockRun(b)

\* Each page is in exactly one block, free, held or in hand, at every step of
\* every call.
EachPageOnce == NoOverlap /\ NothingLost

\* The counters buddy_info prints are the lengths of the lists.
CountsRight == \A k \in Orders : nr_free[k] = Cardinality(freelist[k])

\* Two free halves of a block never stay apart: __free_pages has merged
\* all it could, and a split leaves no pair behind.
Coalesced ==
    \A k \in Orders \ {MaxOrder} : \A p \in freelist[k] :
        Twin(p, k) \notin freelist[k]

\* A page remembers the order it was allocated with until it is freed: kfree
\* reads it back from bplevel.
OrderRemembered == \A b \in owned : bplevel[b[1]] = b[2]

\* The inductive strengthening of the properties above: a page in front of
\* a block carries the block's order, pages not booted yet carry none, and
\* the block being freed has no allocated twin in its way.
Marks ==
    /\ \A b \in ListedBlocks \cup owned : bplevel[b[1]] = b[2]
    /\ pc = "split" => bplevel[idx] = want
    /\ pc \in {"scan", "split"} => want <= level
Boot ==
    /\ booted < NPages => owned = {} /\ pc \in {"idle", "merge"}
    /\ \A p \in booted .. NPages - 1 : bplevel[p] = NoLevel
    /\ \A b \in AllBlocks : BlockRun(b) \subseteq 0 .. booted - 1
WayClear ==
    pc = "merge" => \A c \in owned :
        (level <= c[2] /\ c[2] < MaxOrder) => ~SameParent(idx, c[1], c[2])
IInv == /\ TypeOK /\ WellPlaced /\ NoOverlap /\ NothingLost
        /\ Marks /\ Boot /\ WayClear

\* buddy.h, of the list of an order: its 2^order consecutive pages are free.
ListedRunsFree ==
    \A b \in ListedBlocks, c \in owned : BlockRun(b) \cap BlockRun(c) = {}

\* The promise to callers.  A page is free from the moment it is given back;
\* it is held from the moment __alloc_pages returns it.
HeldPages == UNION {BlockRun(b) : b \in owned}
PA == INSTANCE PageAllocator WITH
        free <- (0 .. booted - 1) \ HeldPages,
        held <- owned,
        req  <- IF pc \in {"scan", "split"} THEN want ELSE -1

\* __alloc_pages answers every request, with an aligned run of free pages if
\* there is one, and returns 0 only when there is none.
KeepsPromise == PA!Spec
=============================================================================
