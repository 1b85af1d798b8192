----------------------------- MODULE BuddyProof -----------------------------
(***************************************************************************)
(* Proofs about Buddy.tla: the type invariant and the placement of blocks   *)
(* for any callers, and for callers that keep SafeToFree the inductive      *)
(* invariant IInv, which gives that no page is in two blocks, that none is  *)
(* lost and that a block remembers its order.                               *)
(***************************************************************************)
EXTENDS Buddy, TLAPS, FiniteSetTheorems, WellFoundedInduction

(***************************************************************************)
(* Arithmetic of block sizes                                                *)
(***************************************************************************)

(* A number with remainder 0 is a multiple.                                 *)
LEMMA Divides ==
    ASSUME NEW p \in Nat, NEW s \in Nat \ {0}, p % s = 0
    PROVE  \E a \in Nat : p = a * s
<1>1. p = ((p \div s) * s) + (p % s) /\ p \div s \in Nat  BY Z3
<1>2. p = (p \div s) * s  BY <1>1
<1> QED BY <1>1, <1>2

(* A multiple has remainder 0.                                              *)
LEMMA Multiple ==
    ASSUME NEW a \in Nat, NEW s \in Nat \ {0}
    PROVE  (a * s) % s = 0
BY Z3

(* A multiple of t plus a number below t has that number as its remainder.  *)
LEMMA Remainder ==
    ASSUME NEW m \in Nat, NEW t \in Nat \ {0}, NEW r \in 0 .. t - 1,
           NEW x \in Nat, x = (m * t) + r
    PROVE  x % t = r
BY Z3

(* An odd multiple of s is no multiple of 2 * s.                            *)
LEMMA OddMultiple ==
    ASSUME NEW m \in Nat, NEW s \in Nat \ {0}, NEW t \in Nat \ {0}, t = 2 * s
    PROVE  ((2 * m + 1) * s) % t # 0
<1>1. (2 * m + 1) * s = (m * t) + s /\ (2 * m + 1) * s \in Nat  BY Z3
<1>2. s \in 0 .. t - 1 /\ s # 0  OBVIOUS
<1> QED BY <1>1, <1>2, Remainder

(* A positive multiple of s is at least s.                                  *)
LEMMA AtLeastOne ==
    ASSUME NEW d \in Int, NEW s \in Nat \ {0}, d * s > 0
    PROVE  d >= 1 /\ d * s >= s
BY Z3

(* The size of a block is positive, and that of the next order is twice as  *)
(* much.                                                                    *)
LEMMA SizeFacts ==
    ASSUME NEW k \in Orders
    PROVE  /\ BlockSize[k] \in Nat \ {0}
           /\ k \in 0 .. MaxOrder + 1
           /\ k # MaxOrder => /\ k + 1 \in Orders
                              /\ BlockSize[k + 1] = 2 * BlockSize[k]
BY SizeAssumption DEF Orders

(* Two aligned runs of pages are nested or disjoint: one that shares a page *)
(* with a run of at least its order lies inside it.                         *)
LEMMA Laminar ==
    ASSUME NEW i \in Orders, NEW j \in Orders, i <= j,
           NEW p \in Nat, NEW q \in Nat, Aligned(p, i), Aligned(q, j),
           NEW x \in Run(p, i), x \in Run(q, j)
    PROVE  Run(p, i) \subseteq Run(q, j)
<1> DEFINE s == BlockSize[i]
           t == BlockSize[j]
<1>1. s \in Nat \ {0} /\ t \in Nat \ {0} /\ t % s = 0
  BY SizeAssumption
<1>2. PICK c \in Nat : t = c * s  BY <1>1, Divides
<1>3. PICK a \in Nat : p = a * s  BY <1>1, Divides DEF Aligned
<1>4. PICK b \in Nat : q = b * t  BY <1>1, Divides DEF Aligned
<1> HIDE DEF s, t
<1>5. q = (b * c) * s /\ b * c \in Nat  BY <1>1, <1>2, <1>4, Z3
<1>6. /\ x \in Int /\ p <= x /\ x < p + s /\ q <= x /\ x < q + t
  BY <1>1 DEF Run, s, t
<1>7. q <= p
  <2> DEFINE d == a + 1 - (b * c)
  <2>1. d \in Int /\ d * s = p + s - q  BY <1>1, <1>3, <1>5, Z3
  <2>2. d * s > 0  BY <1>1, <1>6, <2>1
  <2>3. d * s >= s  BY <1>1, <2>1, <2>2, AtLeastOne
  <2> QED BY <1>1, <2>1, <2>3
<1>8. p + s <= q + t
  <2> DEFINE d == (b * c) + c - a
  <2>1. d \in Int /\ d * s = q + t - p  BY <1>1, <1>2, <1>3, <1>5, Z3
  <2>2. d * s > 0  BY <1>1, <1>6, <2>1
  <2>3. d * s >= s  BY <1>1, <2>1, <2>2, AtLeastOne
  <2> QED BY <1>1, <2>1, <2>3
<1> QED BY <1>1, <1>7, <1>8 DEF Run, s, t

(* buddy.c's twin of an aligned block is another aligned block of the same  *)
(* order inside the zone; the two are each other's twins, and the lower of  *)
(* the two starts the block that they make together.                        *)
LEMMA TwinFacts ==
    ASSUME NEW k \in Orders, k # MaxOrder, NEW p \in Pages, Aligned(p, k)
    PROVE  LET q == Twin(p, k)  m == Lower(p, q) IN
           /\ q \in Pages /\ q # p /\ Aligned(q, k) /\ Twin(q, k) = p
           /\ m \in Pages /\ Aligned(m, k + 1)
           /\ Run(m, k + 1) = Run(p, k) \cup Run(q, k)
           /\ Run(p, k) \cap Run(q, k) = {}
           /\ Run(m, k + 1) \subseteq Pages
<1> DEFINE s == BlockSize[k]
           t == BlockSize[k + 1]
<1>1. /\ s \in Nat \ {0} /\ t \in Nat \ {0} /\ t = 2 * s
      /\ k + 1 \in Orders
  BY SizeFacts
<1>2. PICK n \in Nat : NPages = n * t
  <2> DEFINE top == BlockSize[MaxOrder]
  <2>1. top \in Nat \ {0} /\ top % t = 0 /\ NPages \in Nat /\ NPages % top = 0
    BY <1>1, SizeAssumption DEF Orders
  <2> HIDE DEF top, t
  <2>2. PICK c \in Nat : top = c * t  BY <1>1, <2>1, Divides
  <2>3. PICK d \in Nat : NPages = d * top  BY <2>1, Divides
  <2>4. NPages = (d * c) * t /\ d * c \in Nat  BY <1>1, <2>2, <2>3, Z3
  <2> QED BY <2>4
<1>3. p \in Nat /\ p < NPages /\ NPages \in Nat  BY SizeAssumption DEF Pages
<1>4. PICK a \in Nat : p = a * s
  <2>1. p % s = 0  BY DEF Aligned
  <2> HIDE DEF s
  <2> QED BY <1>1, <1>3, <2>1, Divides
<1>5. PICK h \in Nat : a = 2 * h \/ a = 2 * h + 1
  <2>1. a = 2 * (a \div 2) \/ a = 2 * (a \div 2) + 1  OBVIOUS
  <2> QED BY <2>1
<1> HIDE DEF s, t
<1>6. \A x \in Nat : x < NPages /\ (\E e \in Nat : x = e * t) => x + t <= NPages
  <2> SUFFICES ASSUME NEW x \in Nat, x < NPages, NEW e \in Nat, x = e * t
               PROVE  x + t <= NPages
    OBVIOUS
  <2>1. (n - e) * t = NPages - x /\ n - e \in Int  BY <1>1, <1>2, Z3
  <2>2. (n - e) * t > 0  BY <1>3, <2>1
  <2>3. (n - e) * t >= t  BY <1>1, <2>1, <2>2, AtLeastOne
  <2> QED BY <1>1, <1>3, <2>1, <2>3
<1>7. CASE a = 2 * h
  <2>1. p = h * t  BY <1>1, <1>4, <1>7, Z3
  <2>2. p % t = 0  BY <1>1, <2>1, Multiple
  <2>3. Twin(p, k) = p + s  BY <2>2 DEF Twin, Aligned, s, t
  <2>4. p + s = (2 * h + 1) * s /\ 2 * h + 1 \in Nat  BY <1>1, <2>1, Z3
  <2>5. (p + s) % s = 0 /\ (p + s) % t # 0
    <3>1. ((2 * h + 1) * s) % s = 0  BY <1>1, <2>4, Multiple
    <3>2. ((2 * h + 1) * s) % t # 0  BY <1>1, OddMultiple
    <3> QED BY <2>4, <3>1, <3>2
  <2>6. p + t <= NPages  BY <1>3, <1>6, <2>1
  <2>7. Twin(p + s, k) = p  BY <1>1, <1>3, <2>5 DEF Twin, Aligned, s, t
  <2> QED BY <1>1, <1>3, <2>2, <2>3, <2>5, <2>6, <2>7
          DEF Lower, Run, Pages, Aligned, s, t
<1>8. CASE a = 2 * h + 1
  <2>1. p = (2 * h + 1) * s /\ p - s = h * t /\ p - s = (2 * h) * s /\ 2 * h \in Nat
    BY <1>1, <1>4, <1>8, Z3
  <2>2. p % t # 0  BY <1>1, <2>1, OddMultiple
  <2>3. Twin(p, k) = p - s  BY <2>2 DEF Twin, Aligned, s, t
  <2>4. (p - s) % t = 0 /\ (p - s) % s = 0
    <3>1. (h * t) % t = 0 /\ ((2 * h) * s) % s = 0  BY <1>1, <2>1, Multiple
    <3> QED BY <2>1, <3>1
  <2>5. p - s \in Nat  BY <1>1, <2>1, Z3
  <2>6. p - s + t <= NPages
    <3>1. p - s < NPages  BY <1>1, <1>3
    <3> QED BY <1>6, <2>1, <2>5, <3>1
  <2>7. Twin(p - s, k) = p  BY <1>1, <1>3, <2>4 DEF Twin, Aligned, s, t
  <2> QED BY <1>1, <1>3, <2>2, <2>3, <2>4, <2>5, <2>6, <2>7
          DEF Lower, Run, Pages, Aligned, s, t
<1> QED BY <1>5, <1>7, <1>8

(* A block aligned for an order is aligned for the order below it.          *)
LEMMA AlignedDown ==
    ASSUME NEW k \in Orders, k # MaxOrder, NEW p \in Pages, Aligned(p, k + 1)
    PROVE  Aligned(p, k)
<1> DEFINE s == BlockSize[k]
           t == BlockSize[k + 1]
<1>1. s \in Nat \ {0} /\ t \in Nat \ {0} /\ t = 2 * s /\ p % t = 0 /\ p \in Nat
  BY SizeFacts, SizeAssumption DEF Aligned, Pages
<1> HIDE DEF s, t
<1>2. PICK a \in Nat : p = a * t  BY <1>1, Divides
<1>3. p = (2 * a) * s /\ 2 * a \in Nat  BY <1>1, <1>2, Z3
<1>4. p % s = 0  BY <1>1, <1>3, Multiple
<1> QED BY <1>4 DEF Aligned, s

(* The split of __alloc_pages cuts a block into two disjoint aligned halves *)
(* that make it up.                                                         *)
LEMMA SplitFacts ==
    ASSUME NEW k \in Orders, k # MaxOrder, NEW p \in Pages, Aligned(p, k + 1)
    PROVE  LET q == p + BlockSize[k] IN
           /\ q \in Pages /\ q # p /\ Aligned(p, k) /\ Aligned(q, k)
           /\ Run(p, k + 1) = Run(p, k) \cup Run(q, k)
           /\ Run(p, k) \cap Run(q, k) = {}
           /\ Run(p, k + 1) \subseteq Pages
<1>1. Aligned(p, k)  BY AlignedDown
<1>2. Twin(p, k) = p + BlockSize[k]  BY DEF Twin
<1>3. Lower(p, p + BlockSize[k]) = p
  BY SizeFacts, SizeAssumption DEF Lower, Pages
<1> QED BY <1>1, <1>2, <1>3, TwinFacts

(* The counter nr_free stays in its width.                                  *)
LEMMA CounterFacts ==
    ASSUME NEW n \in 0 .. CounterMod - 1
    PROVE  Inc(n) \in 0 .. CounterMod - 1 /\ Dec(n) \in 0 .. CounterMod - 1
BY CounterAssumption, SizeAssumption DEF Inc, Dec

(* A block contains its first page.                                         *)
LEMMA NonEmptyRun ==
    ASSUME NEW p \in Pages, NEW k \in Orders
    PROVE  p \in Run(p, k)
BY SizeFacts, SizeAssumption DEF Run, Pages

(* Blocks on the lists, in the hands of the running call and with the       *)
(* callers are aligned and inside the zone.                                 *)
LEMMA Placed ==
    ASSUME TypeOK, WellPlaced
    PROVE  /\ \A k \in Orders : \A p \in freelist[k] :
                 p \in Pages /\ Aligned(p, k) /\ Run(p, k) \subseteq Pages
           /\ pc \in {"split", "merge"} =>
                 /\ level \in Orders /\ idx \in Pages
                 /\ Aligned(idx, level) /\ Run(idx, level) \subseteq Pages
           /\ \A p, k : <<p, k>> \in owned =>
                 /\ p \in Pages /\ k \in Orders
                 /\ Aligned(p, k) /\ Run(p, k) \subseteq Pages
<1>1. ASSUME NEW k \in Orders, NEW p \in freelist[k]
      PROVE  p \in Pages /\ Aligned(p, k) /\ Run(p, k) \subseteq Pages
  <2>1. p \in Pages  BY <1>1 DEF TypeOK
  <2>2. <<p, k>> \in ListedBlocks  BY <1>1, <2>1 DEF ListedBlocks, Blocks
  <2> QED BY <2>1, <2>2 DEF WellPlaced, AllBlocks, BlockRun
<1>2. ASSUME pc \in {"split", "merge"}
      PROVE  /\ level \in Orders /\ idx \in Pages
             /\ Aligned(idx, level) /\ Run(idx, level) \subseteq Pages
  <2>1. <<idx, level>> \in AllBlocks  BY <1>2 DEF AllBlocks, BlockInHand
  <2>2. level \in Orders  BY <1>2 DEF TypeOK
  <2>3. Aligned(idx, level) /\ Run(idx, level) \subseteq Pages
    BY <2>1 DEF WellPlaced, BlockRun
  <2>4. idx \in Run(idx, level)
    BY <2>2, SizeFacts, SizeAssumption DEF TypeOK, Run, Pages
  <2> QED BY <2>2, <2>3, <2>4
<1>3. ASSUME NEW p, NEW k, <<p, k>> \in owned
      PROVE  /\ p \in Pages /\ k \in Orders
             /\ Aligned(p, k) /\ Run(p, k) \subseteq Pages
  BY <1>3 DEF TypeOK, Blocks, WellPlaced, AllBlocks, BlockRun
<1> QED BY <1>1, <1>2, <1>3

(* A merge takes the twin off its list, and the block in hand becomes the   *)
(* block of the next order that the two make.                               *)
LEMMA MergeEffect ==
    ASSUME TypeOK, WellPlaced, Merge
    PROVE  LET q == Twin(idx, level) IN
           /\ TypeOK'
           /\ level # MaxOrder
           /\ ListedBlocks' = ListedBlocks \ {<<q, level>>}
           /\ BlockInHand = {<<idx, level>>}
           /\ BlockInHand' = {<<Lower(idx, q), level + 1>>}
<1> DEFINE q == Twin(idx, level)
<1>1. /\ level \in Orders /\ level # MaxOrder /\ level + 1 \in Orders
      /\ idx \in Pages /\ q \in Pages /\ Lower(idx, q) \in Pages
  <2>1. /\ level \in Orders /\ idx \in Pages /\ Aligned(idx, level)
        /\ level < MaxOrder
    BY Placed DEF Merge, CanMerge
  <2>2. level # MaxOrder  BY <2>1, SizeAssumption DEF Orders
  <2> QED BY <2>1, <2>2, TwinFacts, SizeFacts
<1> HIDE DEF q
<1>2. /\ freelist' = [freelist EXCEPT ![level] = @ \ {q}]
      /\ nr_free' = [nr_free EXCEPT ![level] = Dec(@)]
      /\ bplevel' = [bplevel EXCEPT ![q] = NoLevel]
      /\ idx' = Lower(idx, q) /\ level' = level + 1
      /\ pc = "merge" /\ UNCHANGED <<booted, pc, want, owned>>
  BY DEF Merge, q
<1>3. nr_free' \in [Orders -> 0 .. CounterMod - 1]
  <2>1. Dec(nr_free[level]) \in 0 .. CounterMod - 1
    BY <1>1, CounterFacts DEF TypeOK
  <2> QED BY <1>1, <1>2, <2>1 DEF TypeOK
<1>4. TypeOK'
  BY <1>1, <1>2, <1>3, SizeFacts DEF TypeOK
<1> QED BY <1>1, <1>2, <1>4
        DEF TypeOK, ListedBlocks, BlockInHand, Blocks, q

(* The end of __free_pages puts the block in hand on the list of its order. *)
LEMMA MergeDoneEffect ==
    ASSUME TypeOK, WellPlaced, MergeDone
    PROVE  /\ TypeOK'
           /\ BlockInHand = {<<idx, level>>} /\ BlockInHand' = {}
           /\ ListedBlocks' = ListedBlocks \cup {<<idx, level>>}
<1>1. level \in Orders /\ idx \in Pages  BY Placed DEF MergeDone
<1>2. Inc(nr_free[level]) \in 0 .. CounterMod - 1
  BY <1>1, CounterFacts DEF TypeOK
<1>3. TypeOK'
  <2>1. 0 \in 0 .. MaxOrder + 1  BY SizeAssumption
  <2> QED BY <1>1, <1>2, <2>1 DEF MergeDone, TypeOK
<1> QED BY <1>1, <1>3
        DEF MergeDone, TypeOK, ListedBlocks, BlockInHand, Blocks

(* The scan's find takes a listed block in hand.                            *)
LEMMA FoundEffect ==
    ASSUME TypeOK, WellPlaced, NEW p \in Pages, Found(p)
    PROVE  /\ TypeOK'
           /\ BlockInHand = {} /\ BlockInHand' = {<<p, level>>}
           /\ <<p, level>> \in ListedBlocks
           /\ ListedBlocks' = ListedBlocks \ {<<p, level>>}
<1>1. level \in Orders  BY SizeAssumption DEF Found, TypeOK, Orders
<1>2. Dec(nr_free[level]) \in 0 .. CounterMod - 1
  BY <1>1, CounterFacts DEF TypeOK
<1>3. TypeOK'
  BY <1>1, <1>2 DEF Found, TypeOK
<1> QED BY <1>1, <1>3
        DEF Found, TypeOK, ListedBlocks, BlockInHand, Blocks

(* A split lists the upper half of the block in hand and keeps the lower    *)
(* half.                                                                    *)
LEMMA SplitEffect ==
    ASSUME TypeOK, WellPlaced, Split
    PROVE  LET half == level - 1  upper == idx + BlockSize[half] IN
           /\ TypeOK'
           /\ half \in Orders /\ half # MaxOrder /\ level = half + 1
           /\ BlockInHand = {<<idx, level>>} /\ BlockInHand' = {<<idx, half>>}
           /\ ListedBlocks' = ListedBlocks \cup {<<upper, half>>}
<1> DEFINE half == level - 1
           upper == idx + BlockSize[half]
<1>1. /\ level \in Orders /\ half \in Orders /\ half # MaxOrder
      /\ level = half + 1 /\ idx \in Pages /\ Aligned(idx, half + 1)
  <2>1. /\ level \in Orders /\ idx \in Pages /\ Aligned(idx, level)
        /\ level > want /\ want \in Orders
    BY Placed DEF Split, TypeOK
  <2> QED BY <2>1, SizeAssumption DEF Orders
<1>2. upper \in Pages  BY <1>1, SplitFacts
<1> HIDE DEF half, upper
<1>3. /\ freelist' = [freelist EXCEPT ![half] = @ \cup {upper}]
      /\ nr_free' = [nr_free EXCEPT ![half] = Inc(@)]
      /\ bplevel' = [bplevel EXCEPT ![upper] = half]
      /\ level' = half /\ pc = "split"
      /\ UNCHANGED <<booted, pc, idx, want, owned>>
  BY DEF Split, half, upper
<1>4. nr_free' \in [Orders -> 0 .. CounterMod - 1]
  <2>1. Inc(nr_free[half]) \in 0 .. CounterMod - 1
    BY <1>1, CounterFacts DEF TypeOK
  <2> QED BY <1>1, <1>3, <2>1 DEF TypeOK
<1>5. TypeOK'
  BY <1>1, <1>2, <1>3, <1>4, SizeFacts DEF TypeOK
<1> QED BY <1>1, <1>2, <1>3, <1>5
        DEF TypeOK, ListedBlocks, BlockInHand, Blocks, half, upper

(* The other steps move no list: they only take a block in hand or let go   *)
(* of it.                                                                   *)
LEMMA OtherEffect ==
    ASSUME TypeOK, WellPlaced
    PROVE  /\ BootFree => /\ TypeOK' /\ ListedBlocks' = ListedBlocks
                          /\ BlockInHand = {} /\ BlockInHand' = {<<booted, 0>>}
           /\ \A p, k : Free(p, k) =>
                          /\ TypeOK' /\ ListedBlocks' = ListedBlocks
                          /\ BlockInHand = {} /\ BlockInHand' = {<<p, k>>}
           /\ AllocReturn => /\ TypeOK' /\ ListedBlocks' = ListedBlocks
                             /\ BlockInHand = {<<idx, want>>} /\ BlockInHand' = {}
           /\ (\/ ScanNext \/ AllocFail \/ UNCHANGED vars
               \/ \E k \in Orders : AllocCall(k)) =>
                          /\ TypeOK' /\ ListedBlocks' = ListedBlocks
                          /\ BlockInHand' = BlockInHand /\ owned' = owned
<1>1. BootFree => /\ TypeOK' /\ ListedBlocks' = ListedBlocks
                  /\ BlockInHand = {} /\ BlockInHand' = {<<booted, 0>>}
  BY SizeAssumption
     DEF BootFree, Enter, TypeOK, Orders, Pages, ListedBlocks, BlockInHand
<1>2. ASSUME NEW p, NEW k, Free(p, k)
      PROVE  /\ TypeOK' /\ ListedBlocks' = ListedBlocks
             /\ BlockInHand = {} /\ BlockInHand' = {<<p, k>>}
  <2>1. p \in Pages /\ k \in Orders  BY <1>2, Placed DEF Free
  <2> QED BY <1>2, <2>1, SizeAssumption
          DEF Free, Enter, TypeOK, Orders, ListedBlocks, BlockInHand
<1>3. AllocReturn => /\ TypeOK' /\ ListedBlocks' = ListedBlocks
                     /\ BlockInHand = {<<idx, want>>} /\ BlockInHand' = {}
  <2> SUFFICES ASSUME AllocReturn
               PROVE  /\ TypeOK' /\ ListedBlocks' = ListedBlocks
                      /\ BlockInHand = {<<idx, want>>} /\ BlockInHand' = {}
    OBVIOUS
  <2>1. idx \in Pages /\ want \in Orders  BY Placed DEF AllocReturn, TypeOK
  <2> QED BY <2>1, SizeAssumption
          DEF AllocReturn, TypeOK, Orders, Blocks, ListedBlocks, BlockInHand
<1>4. ASSUME \/ ScanNext \/ AllocFail \/ UNCHANGED vars
             \/ \E k \in Orders : AllocCall(k)
      PROVE  /\ TypeOK' /\ ListedBlocks' = ListedBlocks
             /\ BlockInHand' = BlockInHand /\ owned' = owned
  <2> USE SizeAssumption DEF TypeOK, Orders, ListedBlocks, BlockInHand
  <2>1. CASE ScanNext  BY <2>1 DEF ScanNext
  <2>2. CASE AllocFail  BY <2>2 DEF AllocFail
  <2>3. CASE UNCHANGED vars  BY <2>3 DEF vars
  <2>4. CASE \E k \in Orders : AllocCall(k)  BY <2>4 DEF AllocCall
  <2> QED BY <1>4, <2>1, <2>2, <2>3, <2>4
<1> QED BY <1>1, <1>2, <1>3, <1>4

(* The invariant of TypeCorrect holds at the start.                         *)
LEMMA TypeInit == Init => TypeOK /\ WellPlaced
BY SizeAssumption, CounterAssumption
   DEF Init, TypeOK, WellPlaced, AllBlocks, ListedBlocks, BlockInHand, Orders, Pages, Blocks

(* Every step of any callers keeps the types and the placement of blocks.   *)
LEMMA TypeStep ==
    ASSUME TypeOK, WellPlaced, [Next]_vars
    PROVE  TypeOK' /\ WellPlaced'
<1> DEFINE Fits(p, k) == Aligned(p, k) /\ Run(p, k) \subseteq Pages
<1>0. \A b \in AllBlocks : Fits(b[1], b[2])  BY DEF WellPlaced, BlockRun
<1>1. \A B : /\ \A b \in B : Fits(b[1], b[2])
             /\ AllBlocks' \subseteq AllBlocks \cup B
             => WellPlaced'
  BY <1>0 DEF WellPlaced, BlockRun
<1>2. CASE BootFree
  <2> DEFINE B == {<<booted, 0>>}
  <2>1. booted \in Pages /\ Fits(booted, 0)
    BY <1>2, SizeAssumption DEF BootFree, TypeOK, Pages, Aligned, Run, Orders
  <2>2. AllBlocks' \subseteq AllBlocks \cup B
    BY <1>2, OtherEffect DEF BootFree, AllBlocks
  <2>3. \A b \in B : Fits(b[1], b[2])  BY <2>1
  <2> HIDE DEF Fits, B
  <2>4. WellPlaced'  BY <1>1, <2>2, <2>3
  <2> QED BY <1>2, <2>4, OtherEffect
<1>3. CASE Merge
  <2> DEFINE q == Twin(idx, level)
             B == {<<Lower(idx, q), level + 1>>}
  <2>1. level \in Orders /\ level # MaxOrder /\ idx \in Pages /\ Aligned(idx, level)
    BY <1>3, MergeEffect, Placed DEF Merge
  <2>2. Fits(Lower(idx, q), level + 1)  BY <2>1, TwinFacts
  <2>3. AllBlocks' \subseteq AllBlocks \cup B
    BY <1>3, MergeEffect DEF Merge, AllBlocks
  <2>4. \A b \in B : Fits(b[1], b[2])  BY <2>2
  <2> HIDE DEF Fits, B
  <2>5. WellPlaced'  BY <1>1, <2>3, <2>4
  <2> QED BY <1>3, <2>5, MergeEffect
<1>4. CASE MergeDone
  <2>1. AllBlocks' \subseteq AllBlocks \cup {}
    BY <1>4, MergeDoneEffect DEF MergeDone, AllBlocks
  <2> HIDE DEF Fits
  <2> QED BY <1>1, <1>4, <2>1, MergeDoneEffect
<1>5. ASSUME NEW p \in Pages, Found(p)
      PROVE  TypeOK' /\ WellPlaced'
  <2>1. AllBlocks' \subseteq AllBlocks \cup {}
    BY <1>5, FoundEffect DEF Found, AllBlocks
  <2> HIDE DEF Fits
  <2> QED BY <1>1, <1>5, <2>1, FoundEffect
<1>6. CASE Split
  <2> DEFINE half == level - 1
             upper == idx + BlockSize[half]
             B == {<<idx, half>>, <<upper, half>>}
  <2>1. half \in Orders /\ half # MaxOrder /\ idx \in Pages /\ Aligned(idx, half + 1)
    BY <1>6, SplitEffect, Placed DEF Split
  <2>2. Fits(idx, half) /\ Fits(upper, half)  BY <2>1, SplitFacts
  <2>3. AllBlocks' \subseteq AllBlocks \cup B
    BY <1>6, SplitEffect DEF Split, AllBlocks
  <2>4. \A b \in B : Fits(b[1], b[2])  BY <2>2
  <2> HIDE DEF Fits, B
  <2>5. WellPlaced'  BY <1>1, <2>3, <2>4
  <2> QED BY <1>6, <2>5, SplitEffect
<1>7. CASE AllocReturn
  <2>1. AllBlocks' \subseteq AllBlocks \cup {}
    BY <1>7, OtherEffect DEF AllocReturn, AllBlocks
  <2> HIDE DEF Fits
  <2> QED BY <1>1, <1>7, <2>1, OtherEffect
<1>8. ASSUME NEW p \in Pages, NEW k \in Orders, Free(p, k)
      PROVE  TypeOK' /\ WellPlaced'
  <2>1. AllBlocks' \subseteq AllBlocks \cup {}
    BY <1>8, OtherEffect DEF Free, AllBlocks
  <2> HIDE DEF Fits
  <2> QED BY <1>1, <1>8, <2>1, OtherEffect
<1>9. CASE \/ ScanNext \/ AllocFail \/ UNCHANGED vars
           \/ \E k \in Orders : AllocCall(k)
  <2>1. AllBlocks' \subseteq AllBlocks \cup {}
    BY <1>9, OtherEffect DEF AllBlocks
  <2> HIDE DEF Fits
  <2> QED BY <1>1, <1>9, <2>1, OtherEffect
<1> QED BY <1>2, <1>3, <1>4, <1>5, <1>6, <1>7, <1>8, <1>9 DEF Next, Step

(* Whatever is freed, at whatever order, and in whatever order calls come,  *)
(* every block stays aligned and inside the zone (TypeOK and WellPlaced):   *)
(* the index arithmetic of __free_pages and __alloc_pages never leaves      *)
(* page_map.                                                                *)
THEOREM TypeCorrect == Spec => [](TypeOK /\ WellPlaced)
<1>1. TypeOK /\ WellPlaced /\ [Next]_vars => (TypeOK /\ WellPlaced)'
  BY TypeStep
<1> QED BY TypeInit, <1>1, PTL DEF Spec

(***************************************************************************)
(* The discipline SafeToFree: no overlap, nothing lost.                     *)
(***************************************************************************)
(* The heart of the argument: when the loop of __free_pages finds its order *)
(* in the twin's bplevel, the twin is on the list of that order.            *)
LEMMA TwinIsListed ==
    ASSUME IInv, Merge
    PROVE  <<Twin(idx, level), level>> \in ListedBlocks
<1> DEFINE q == Twin(idx, level)
           low == Lower(idx, q)
<1> USE DEF IInv
<1>1. /\ level \in Orders /\ level # MaxOrder /\ level + 1 \in Orders
      /\ idx \in Pages /\ Aligned(idx, level) /\ pc = "merge"
  BY MergeEffect, Placed, SizeFacts DEF Merge
<1>2. /\ q \in Pages /\ q # idx /\ Aligned(q, level)
      /\ low \in Pages /\ Aligned(low, level + 1)
      /\ Run(low, level + 1) = Run(idx, level) \cup Run(q, level)
  BY <1>1, TwinFacts
<1>3. bplevel[q] = level  BY DEF Merge, CanMerge
<1> HIDE DEF q, low
<1>4. q \in Run(q, level) /\ idx \in Run(idx, level)  BY <1>1, <1>2, NonEmptyRun
<1>5. q \in 0 .. booted - 1
  <2>1. level # NoLevel  BY <1>1, SizeAssumption DEF Orders, NoLevel
  <2> QED BY <1>2, <1>3, <2>1, SizeAssumption DEF Boot, TypeOK, Pages
<1>6. PICK c \in AllBlocks : q \in BlockRun(c)  BY <1>5 DEF NothingLost
<1>7. PICK r \in Pages, j \in Orders : c = <<r, j>> /\ q \in Run(r, j) /\ Aligned(r, j)
  <2>1. CASE c \in ListedBlocks
    BY <1>6, <2>1 DEF ListedBlocks, Blocks, BlockRun, WellPlaced, AllBlocks
  <2>2. CASE c \in BlockInHand
    BY <1>1, <1>6, <2>2 DEF BlockInHand, BlockRun
  <2>3. CASE c \in owned
    BY <1>6, <2>3 DEF TypeOK, Blocks, BlockRun, WellPlaced, AllBlocks
  <2> QED BY <1>6, <2>1, <2>2, <2>3 DEF AllBlocks
<1>8. Pages \subseteq Nat /\ Orders \subseteq Nat  BY SizeAssumption DEF Pages, Orders
<1>9. ~(j > level)
  <2> SUFFICES ASSUME j > level PROVE FALSE  OBVIOUS
  <2>1. level + 1 <= j  BY <1>1, <1>7, <1>8
  <2>2. q \in Run(low, level + 1)  BY <1>2, <1>4
  <2>3. Run(low, level + 1) \subseteq Run(r, j)
    BY <1>1, <1>2, <1>7, <1>8, <2>1, <2>2, Laminar
  <2>4. idx \in Run(r, j)  BY <1>2, <1>4, <2>3
  <2>5. <<idx, level>> \in AllBlocks /\ <<idx, level>> # c
    BY <1>1, <1>7, <1>8 DEF AllBlocks, BlockInHand
  <2> QED BY <1>4, <1>6, <1>7, <2>4, <2>5 DEF NoOverlap, BlockRun
<1>10. r = q
  <2>1. j <= level  BY <1>1, <1>7, <1>8, <1>9
  <2>2. Run(r, j) \subseteq Run(q, level)
    BY <1>1, <1>2, <1>4, <1>7, <1>8, <2>1, Laminar
  <2>3. r \in Run(q, level)  BY <1>7, <2>2, NonEmptyRun
  <2> QED BY <1>2, <1>7, <1>8, <2>3, SizeFacts DEF Run
<1>11. c \notin BlockInHand  BY <1>1, <1>2, <1>7, <1>10 DEF BlockInHand
<1>12. j = level  BY <1>3, <1>6, <1>7, <1>10, <1>11 DEF Marks, AllBlocks
<1>13. c \notin owned
  <2> SUFFICES ASSUME c \in owned PROVE FALSE  OBVIOUS
  <2>1. level < MaxOrder  BY DEF Merge, CanMerge
  <2>2. ~SameParent(idx, q, level)
    BY <1>1, <1>7, <1>8, <1>10, <1>12, <2>1 DEF WayClear
  <2>3. SameParent(idx, q, level)  BY <1>2, <1>4 DEF SameParent
  <2> QED BY <2>2, <2>3
<1> QED BY <1>6, <1>7, <1>10, <1>11, <1>12, <1>13 DEF AllBlocks, q

(* A merge keeps the invariant: it joins two blocks that were apart.        *)
LEMMA MergeStep ==
    ASSUME IInv, Merge
    PROVE  NoOverlap' /\ NothingLost' /\ Marks' /\ Boot' /\ WayClear'
<1> DEFINE q == Twin(idx, level)
           low == Lower(idx, q)
           h == <<idx, level>>
           t == <<q, level>>
           n == <<low, level + 1>>
<1>1. /\ level \in Orders /\ level # MaxOrder /\ level + 1 \in Orders
      /\ idx \in Pages /\ Aligned(idx, level) /\ pc = "merge"
  BY MergeEffect, Placed, SizeFacts DEF Merge, IInv
<1>2. /\ q \in Pages /\ q # idx /\ low \in Pages /\ Aligned(low, level + 1)
      /\ Run(low, level + 1) = Run(idx, level) \cup Run(q, level)
  BY <1>1, TwinFacts
<1>3. t \in ListedBlocks  BY TwinIsListed
<1>4. /\ ListedBlocks' = ListedBlocks \ {t} /\ owned' = owned
      /\ BlockInHand = {h} /\ BlockInHand' = {n}
  BY MergeEffect DEF Merge, IInv
<1>5. /\ idx' = low /\ level' = level + 1 /\ pc' = "merge" /\ UNCHANGED <<booted, want>>
      /\ bplevel' = [bplevel EXCEPT ![q] = NoLevel]
  BY <1>1 DEF Merge
<1>6. BlockRun(n) = BlockRun(h) \cup BlockRun(t)  BY <1>2 DEF BlockRun
<1>7. idx \in BlockRun(h) /\ q \in BlockRun(t) /\ h # t /\ n # h /\ n # t
  BY <1>1, <1>2, NonEmptyRun, SizeAssumption DEF BlockRun, Orders
<1>8. Pages \subseteq Nat /\ Orders \subseteq Nat  BY SizeAssumption DEF Pages, Orders
<1>9. ASSUME NEW p, NEW k \in Orders, level + 1 <= k, k < MaxOrder,
             SameParent(low, p, k)
      PROVE  SameParent(idx, p, k)
  <2>1. k + 1 \in Orders /\ level + 1 <= k + 1
    BY <1>1, <1>8, <1>9, SizeAssumption DEF Orders
  <2>2. PICK m \in Pages : /\ Aligned(m, k + 1)
                           /\ low \in Run(m, k + 1) /\ p \in Run(m, k + 1)
    BY <1>9 DEF SameParent
  <2>3. low \in Run(low, level + 1)  BY <1>1, <1>2, NonEmptyRun
  <2>4. Run(low, level + 1) \subseteq Run(m, k + 1)
    BY <1>1, <1>2, <1>8, <2>1, <2>2, <2>3, Laminar
  <2>5. idx \in Run(m, k + 1)  BY <1>1, <1>2, <2>4, NonEmptyRun
  <2> QED BY <2>2, <2>5 DEF SameParent
<1> HIDE DEF q, low, h, t, n
<1>10. n \notin AllBlocks
  BY <1>3, <1>4, <1>6, <1>7 DEF IInv, NoOverlap, AllBlocks
<1>11. NoOverlap'
  BY <1>3, <1>4, <1>6, <1>7, <1>10 DEF IInv, NoOverlap, AllBlocks
<1>12. NothingLost'
  BY <1>3, <1>4, <1>5, <1>6 DEF IInv, NothingLost, AllBlocks
<1>13. Marks'
  <2>1. ASSUME NEW b \in ListedBlocks' \cup owned'
        PROVE  bplevel'[b[1]] = b[2]
    <3>1. b \in ListedBlocks \cup owned /\ b # t
      BY <1>3, <1>4, <2>1 DEF IInv, NoOverlap
    <3>2. b[1] \in BlockRun(b) /\ b[1] \in Pages
      BY <3>1, NonEmptyRun DEF IInv, TypeOK, ListedBlocks, Blocks, BlockRun
    <3>3. b[1] # q
      BY <1>3, <1>7, <3>1, <3>2 DEF IInv, NoOverlap, AllBlocks
    <3> QED BY <1>5, <3>1, <3>2, <3>3 DEF IInv, Marks, TypeOK
  <2> QED BY <1>5, <2>1 DEF Marks
<1>14. Boot'
  <2>1. \A b \in AllBlocks' : BlockRun(b) \subseteq 0 .. booted - 1
    BY <1>3, <1>4, <1>6 DEF IInv, Boot, AllBlocks
  <2>2. \A p \in booted .. NPages - 1 : bplevel'[p] = NoLevel
    BY <1>2, <1>5, SizeAssumption DEF IInv, Boot, TypeOK, Pages
  <2> QED BY <1>4, <1>5, <2>1, <2>2 DEF IInv, Boot
<1>15. WayClear'
  <2> SUFFICES ASSUME NEW c \in owned, level + 1 <= c[2], c[2] < MaxOrder
               PROVE  ~SameParent(low, c[1], c[2])
    BY <1>4, <1>5 DEF WayClear
  <2>1. c[2] \in Orders  BY DEF IInv, TypeOK, Blocks
  <2>2. level <= c[2]  BY <1>1, <2>1, SizeAssumption DEF Orders
  <2>3. ~SameParent(idx, c[1], c[2])  BY <1>1, <2>2 DEF IInv, WayClear
  <2> QED BY <1>9, <2>1, <2>3
<1> QED BY <1>11, <1>12, <1>13, <1>14, <1>15

(* A split keeps the invariant: its two halves were one block.              *)
LEMMA SplitStep ==
    ASSUME IInv, Split
    PROVE  NoOverlap' /\ NothingLost' /\ Marks' /\ Boot' /\ WayClear'
<1> DEFINE half == level - 1
           upper == idx + BlockSize[half]
           h == <<idx, level>>
           lo == <<idx, half>>
           hi == <<upper, half>>
<1>1. /\ half \in Orders /\ half # MaxOrder /\ level = half + 1
      /\ BlockInHand = {h} /\ BlockInHand' = {lo}
      /\ ListedBlocks' = ListedBlocks \cup {hi} /\ owned' = owned
  BY SplitEffect DEF Split, IInv
<1>2. idx \in Pages /\ Aligned(idx, half + 1)
  BY <1>1, Placed DEF Split, IInv
<1>3. /\ upper \in Pages /\ upper # idx
      /\ Run(idx, level) = Run(idx, half) \cup Run(upper, half)
      /\ Run(idx, half) \cap Run(upper, half) = {}
  BY <1>1, <1>2, SplitFacts
<1>4. /\ pc = "split" /\ pc' = "split" /\ level' = half /\ half >= want
      /\ UNCHANGED <<booted, idx, want>>
      /\ bplevel' = [bplevel EXCEPT ![upper] = half]
  BY <1>1, SizeAssumption DEF Split, IInv, TypeOK, Orders
<1>5. /\ BlockRun(h) = BlockRun(lo) \cup BlockRun(hi)
      /\ BlockRun(lo) \cap BlockRun(hi) = {}
  BY <1>3 DEF BlockRun
<1>6. /\ idx \in BlockRun(lo) /\ upper \in BlockRun(hi)
      /\ lo # hi /\ h # lo /\ h # hi
  BY <1>1, <1>2, <1>3, NonEmptyRun, SizeAssumption DEF BlockRun, Orders
<1>7. booted = NPages
  BY <1>4, SizeAssumption DEF IInv, Boot, TypeOK
<1> HIDE DEF half, upper, h, lo, hi
<1>8. lo \notin AllBlocks /\ hi \notin AllBlocks
  BY <1>1, <1>5, <1>6 DEF IInv, NoOverlap, AllBlocks
<1>9. NoOverlap'
  BY <1>1, <1>5, <1>6, <1>8 DEF IInv, NoOverlap, AllBlocks
<1>10. NothingLost'
  BY <1>1, <1>4, <1>5 DEF IInv, NothingLost, AllBlocks
<1>11. Marks'
  <2>1. ASSUME NEW b \in ListedBlocks \cup owned
        PROVE  bplevel'[b[1]] = b[2]
    <3>1. b[1] \in BlockRun(b) /\ b[1] \in Pages
      BY NonEmptyRun DEF IInv, TypeOK, ListedBlocks, Blocks, BlockRun
    <3>2. b # h  BY <1>1 DEF IInv, NoOverlap
    <3>3. b[1] # upper
      BY <1>1, <1>5, <1>6, <3>1, <3>2 DEF IInv, NoOverlap, AllBlocks
    <3> QED BY <1>4, <3>1, <3>3 DEF IInv, Marks, TypeOK
  <2>2. bplevel'[hi[1]] = hi[2]  BY <1>3, <1>4 DEF IInv, TypeOK, hi
  <2>3. bplevel'[idx] = want
    BY <1>2, <1>3, <1>4 DEF IInv, Marks, TypeOK
  <2> QED BY <1>1, <1>4, <2>1, <2>2, <2>3 DEF Marks
<1>12. Boot'
  <2>1. \A b \in AllBlocks' : BlockRun(b) \subseteq 0 .. booted - 1
    BY <1>1, <1>5 DEF IInv, Boot, AllBlocks
  <2>2. \A p \in booted .. NPages - 1 : bplevel'[p] = NoLevel
    BY <1>7, SizeAssumption
  <2> QED BY <1>4, <1>7, <2>1, <2>2, SizeAssumption DEF Boot
<1>13. WayClear'  BY <1>4 DEF WayClear
<1> QED BY <1>9, <1>10, <1>11, <1>12, <1>13

(* A step that only moves a block between the lists, the call and the       *)
(* callers, or that moves none, keeps the set of all blocks.                *)
LEMMA MoveStep ==
    ASSUME IInv,
           \/ MergeDone \/ AllocReturn \/ (\E p \in Pages : Found(p))
           \/ (\E p \in Pages, k \in Orders : SafeToFree(p, k) /\ Free(p, k))
           \/ ScanNext \/ AllocFail \/ UNCHANGED vars
           \/ \E k \in Orders : AllocCall(k)
    PROVE  NoOverlap' /\ NothingLost' /\ Marks' /\ Boot' /\ WayClear'
<1> USE DEF IInv
<1>1. ASSUME AllBlocks' = AllBlocks, booted' = booted
      PROVE  /\ NothingLost'
             /\ \A b \in AllBlocks' : BlockRun(b) \subseteq 0 .. booted' - 1
             /\ \A b, c \in AllBlocks' : b # c => BlockRun(b) \cap BlockRun(c) = {}
  BY <1>1 DEF NothingLost, Boot, NoOverlap
<1>2. CASE MergeDone
  <2>1. level \in Orders /\ idx \in Pages  BY <1>2, Placed DEF MergeDone
  <2>2. AllBlocks' = AllBlocks /\ booted' = booted /\ owned' = owned
    BY <1>2, MergeDoneEffect DEF MergeDone, AllBlocks
  <2>3. NoOverlap'
    BY <1>1, <1>2, <2>2, MergeDoneEffect DEF NoOverlap
  <2>4. Marks'
    <3>1. ASSUME NEW b \in ListedBlocks \cup owned
          PROVE  bplevel'[b[1]] = b[2]
      <4>1. b # <<idx, level>>  BY <1>2, MergeDoneEffect DEF NoOverlap
      <4>2. b[1] \in BlockRun(b) /\ b[1] \in Pages
        BY NonEmptyRun DEF TypeOK, ListedBlocks, Blocks, BlockRun
      <4>3. idx \in BlockRun(<<idx, level>>)  BY <2>1, NonEmptyRun DEF BlockRun
      <4>4. b[1] # idx
        BY <1>2, <4>1, <4>2, <4>3, MergeDoneEffect DEF NoOverlap, AllBlocks
      <4> QED BY <1>2, <4>2, <4>4 DEF MergeDone, Marks, TypeOK
    <3>2. bplevel'[idx] = level  BY <1>2, <2>1 DEF MergeDone, TypeOK
    <3> QED BY <1>2, <2>2, <3>1, <3>2, MergeDoneEffect DEF MergeDone, Marks
  <2>5. Boot'
    <3>1. idx \in 0 .. booted - 1
      <4>1. <<idx, level>> \in AllBlocks  BY <1>2, MergeDoneEffect DEF AllBlocks
      <4>2. idx \in BlockRun(<<idx, level>>)  BY <2>1, NonEmptyRun DEF BlockRun
      <4> QED BY <4>1, <4>2 DEF Boot
    <3>2. \A p \in booted .. NPages - 1 : bplevel'[p] = NoLevel
      BY <1>2, <2>1, <3>1, SizeAssumption DEF MergeDone, Boot, TypeOK, Pages
    <3> QED BY <1>1, <1>2, <2>2, <3>2 DEF MergeDone, Boot
  <2>6. WayClear'  BY <1>2 DEF MergeDone, WayClear
  <2> QED BY <1>1, <2>2, <2>3, <2>4, <2>5, <2>6
<1>3. CASE AllocReturn
  <2>1. AllBlocks' = AllBlocks /\ booted' = booted
    BY <1>3, OtherEffect DEF AllocReturn, AllBlocks
  <2>2. NoOverlap'
    BY <1>1, <1>3, <2>1, OtherEffect DEF AllocReturn, NoOverlap
  <2>3. Marks'  BY <1>3, OtherEffect DEF AllocReturn, Marks
  <2>4. Boot'
    <3>1. booted = NPages  BY <1>3, SizeAssumption DEF AllocReturn, Boot, TypeOK
    <3> QED BY <1>1, <1>3, <2>1, <3>1, SizeAssumption DEF AllocReturn, Boot
  <2>5. WayClear'  BY <1>3 DEF AllocReturn, WayClear
  <2> QED BY <1>1, <2>1, <2>2, <2>3, <2>4, <2>5
<1>4. CASE \E p \in Pages : Found(p)
  <2>1. PICK p \in Pages : Found(p)  BY <1>4
  <2>2. level \in Orders  BY <2>1, SizeAssumption DEF Found, TypeOK, Orders
  <2>3. AllBlocks' = AllBlocks /\ booted' = booted /\ owned' = owned
    BY <2>1, FoundEffect DEF Found, AllBlocks
  <2>4. NoOverlap'
    BY <1>1, <2>1, <2>3, FoundEffect DEF NoOverlap
  <2>5. Marks'
    <3>1. ASSUME NEW b \in ListedBlocks' \cup owned
          PROVE  bplevel'[b[1]] = b[2]
      <4>1. b \in ListedBlocks \cup owned /\ b # <<p, level>>
        BY <2>1, <3>1, FoundEffect DEF NoOverlap
      <4>2. b[1] \in BlockRun(b) /\ b[1] \in Pages
        BY <4>1, NonEmptyRun DEF TypeOK, ListedBlocks, Blocks, BlockRun
      <4>3. p \in BlockRun(<<p, level>>)  BY <2>2, NonEmptyRun DEF BlockRun
      <4>4. b[1] # p
        BY <2>1, <4>1, <4>2, <4>3, FoundEffect DEF NoOverlap, AllBlocks
      <4> QED BY <2>1, <4>1, <4>2, <4>4 DEF Found, Marks, TypeOK
    <3>2. bplevel'[p] = want /\ idx' = p /\ want' = want /\ level' = level
      BY <2>1 DEF Found, TypeOK
    <3>3. want <= level
      BY <2>1 DEF Found, Marks
    <3> QED BY <2>3, <3>1, <3>2, <3>3 DEF Marks
  <2>6. Boot'
    <3>1. booted = NPages  BY <2>1, SizeAssumption DEF Found, Boot, TypeOK
    <3> QED BY <1>1, <2>3, <3>1, SizeAssumption DEF Boot
  <2>7. WayClear'  BY <2>1 DEF Found, WayClear
  <2> QED BY <1>1, <2>3, <2>4, <2>5, <2>6, <2>7
<1>5. CASE \E p \in Pages, k \in Orders : SafeToFree(p, k) /\ Free(p, k)
  <2>1. PICK p \in Pages, k \in Orders : SafeToFree(p, k) /\ Free(p, k)  BY <1>5
  <2>2. AllBlocks' = AllBlocks /\ booted' = booted
    BY <2>1, OtherEffect DEF Free, AllBlocks
  <2>3. NoOverlap'  BY <1>1, <2>1, <2>2, OtherEffect DEF Free, NoOverlap
  <2>4. Marks'  BY <2>1, OtherEffect DEF Free, Enter, Marks
  <2>5. Boot'
    <3>1. booted = NPages  BY <2>1 DEF Free
    <3> QED BY <1>1, <2>1, <2>2, <3>1, SizeAssumption DEF Boot, Free, Enter
  <2>6. WayClear'  BY <2>1 DEF Free, Enter, WayClear, SafeToFree
  <2> QED BY <1>1, <2>2, <2>3, <2>4, <2>5, <2>6
<1>6. CASE \/ ScanNext \/ AllocFail \/ UNCHANGED vars
           \/ \E k \in Orders : AllocCall(k)
  <2>1. /\ AllBlocks' = AllBlocks /\ ListedBlocks' = ListedBlocks
        /\ BlockInHand' = BlockInHand /\ owned' = owned
    BY <1>6, OtherEffect DEF AllBlocks
  <2>2. booted' = booted /\ bplevel' = bplevel /\ idx' = idx
    BY <1>6 DEF ScanNext, AllocFail, AllocCall, vars
  <2>3. \/ UNCHANGED <<pc, level, want>>
        \/ pc' \in {"idle", "scan"} /\ booted = NPages
    <3>1. ScanNext \/ AllocFail => booted = NPages
      BY SizeAssumption DEF ScanNext, AllocFail, Boot, TypeOK
    <3> QED BY <1>6, <3>1 DEF ScanNext, AllocFail, AllocCall, vars
  <2>4. NoOverlap'  BY <1>1, <2>1, <2>2 DEF NoOverlap
  <2>5. Marks'
    <3>1. pc' \in {"scan", "split"} => want' <= level'
      BY <1>6, SizeAssumption
         DEF ScanNext, AllocFail, AllocCall, vars, Marks, TypeOK, Orders
    <3>2. pc' = "split" => pc = "split" /\ want' = want
      BY <2>3
    <3> QED BY <2>1, <2>2, <3>1, <3>2 DEF Marks
  <2>6. Boot'  BY <1>1, <2>1, <2>2, <2>3, SizeAssumption DEF Boot
  <2>7. WayClear'  BY <2>1, <2>2, <2>3 DEF WayClear
  <2> QED BY <1>1, <2>1, <2>2, <2>4, <2>5, <2>6, <2>7
<1> QED BY <1>2, <1>3, <1>4, <1>5, <1>6

(* Freeing the next page of the zone at boot keeps the invariant.           *)
LEMMA BootStep ==
    ASSUME IInv, BootFree
    PROVE  NoOverlap' /\ NothingLost' /\ Marks' /\ Boot' /\ WayClear'
<1> DEFINE n == <<booted, 0>>
<1>1. /\ ListedBlocks' = ListedBlocks /\ BlockInHand = {} /\ BlockInHand' = {n}
      /\ owned' = owned /\ owned = {} /\ booted' = booted + 1 /\ bplevel' = bplevel
      /\ pc' = "merge" /\ booted < NPages /\ booted \in Nat
  BY OtherEffect, SizeAssumption DEF BootFree, Enter, IInv, Boot, TypeOK
<1>2. BlockRun(n) = {booted}
  BY <1>1, SizeAssumption DEF BlockRun, Run, Orders
<1> HIDE DEF n
<1>3. \A b \in AllBlocks : BlockRun(b) \cap BlockRun(n) = {} /\ b # n
  BY <1>1, <1>2 DEF IInv, Boot
<1>4. AllBlocks' = AllBlocks \cup {n}  BY <1>1 DEF AllBlocks
<1>5. NoOverlap'  BY <1>1, <1>3, <1>4 DEF IInv, NoOverlap, AllBlocks
<1>6. NothingLost'  BY <1>1, <1>2, <1>4 DEF IInv, NothingLost
<1>7. Marks'  BY <1>1 DEF IInv, Marks
<1>8. Boot'
  <2>1. \A b \in AllBlocks' : BlockRun(b) \subseteq 0 .. booted' - 1
    BY <1>1, <1>2, <1>4 DEF IInv, Boot
  <2> QED BY <1>1, <2>1, SizeAssumption DEF IInv, Boot
<1>9. WayClear'  BY <1>1 DEF WayClear
<1> QED BY <1>5, <1>6, <1>7, <1>8, <1>9

(* The inductive invariant holds at the start.                              *)
LEMMA SafeInit == Init => IInv
<1> SUFFICES ASSUME Init PROVE IInv  OBVIOUS
<1>1. AllBlocks = {}
  BY DEF Init, AllBlocks, ListedBlocks, BlockInHand, Blocks
<1> QED BY <1>1, TypeInit, SizeAssumption
        DEF Init, IInv, NoOverlap, NothingLost, Marks, Boot, WayClear, AllBlocks,
            BlockInHand, Pages

(* Every step of callers that keep SafeToFree keeps the inductive           *)
(* invariant.                                                               *)
LEMMA SafeStep == ASSUME IInv, [SafeNext]_vars PROVE IInv'
<1>1. [Next]_vars  BY DEF SafeNext, Next
<1>2. TypeOK' /\ WellPlaced'  BY <1>1, TypeStep DEF IInv
<1>3. NoOverlap' /\ NothingLost' /\ Marks' /\ Boot' /\ WayClear'
  BY MergeStep, SplitStep, MoveStep, BootStep DEF SafeNext, Step
<1> QED BY <1>2, <1>3 DEF IInv

(* IInv is an invariant of the buddy system when a block is freed only      *)
(* while no block beside it under the same parent is with a caller.         *)
THEOREM SafeInvariant == SafeSpec => []IInv
<1>1. IInv /\ [SafeNext]_vars => IInv'  BY SafeStep
<1> QED BY SafeInit, <1>1, PTL DEF SafeSpec

(* No page is ever in two blocks (NoOverlap): __alloc_pages never hands out *)
(* a page that somebody has.                                                *)
THEOREM NeverTwice == SafeSpec => []NoOverlap
<1>1. IInv => NoOverlap  BY DEF IInv
<1> QED BY <1>1, SafeInvariant, PTL

(* Every page freed so far stays in some block (NothingLost): no merge or   *)
(* split drops a page.                                                      *)
THEOREM NeverLost == SafeSpec => []NothingLost
<1>1. IInv => NothingLost  BY DEF IInv
<1> QED BY <1>1, SafeInvariant, PTL

(* Both: at every step each page is in exactly one block (EachPageOnce).    *)
THEOREM PagesKept == SafeSpec => []EachPageOnce
<1>1. IInv => EachPageOnce  BY DEF IInv, EachPageOnce
<1> QED BY <1>1, SafeInvariant, PTL

(* The order in bplevel, which kfree passes back to free_pages, is the      *)
(* order of the request (OrderRemembered).                                  *)
THEOREM OrderKept == SafeSpec => []OrderRemembered
<1>1. IInv => OrderRemembered  BY DEF IInv, Marks, OrderRemembered
<1> QED BY <1>1, SafeInvariant, PTL

(***************************************************************************)
(* Under the discipline SafeToFree the buddy system keeps the promise of    *)
(* PageAllocator.tla: its counters are right, two free halves never stay    *)
(* apart, and therefore it refuses a request only when no run of free pages *)
(* could serve it.                                                          *)
(***************************************************************************)

(***************************************************************************)
(* nr_free is the length of the list                                        *)
(***************************************************************************)
(* The counter of a list follows its length when a page is added or         *)
(* removed: CounterMod is beyond the number of pages.                       *)
LEMMA CountFacts ==
    ASSUME NEW S \in SUBSET Pages
    PROVE  /\ Cardinality(S) \in 0 .. CounterMod - 1 /\ Cardinality({}) = 0
           /\ \A p \in Pages \ S : Cardinality(S \cup {p}) = Inc(Cardinality(S))
           /\ \A p \in S : Cardinality(S \ {p}) = Dec(Cardinality(S))
<1>1. IsFiniteSet(Pages) /\ Cardinality(Pages) <= NPages
  <2>1. 0 \in Int /\ NPages - 1 \in Int /\ NPages \in Nat  BY SizeAssumption
  <2>2. /\ IsFiniteSet(0 .. NPages - 1)
        /\ Cardinality(0 .. NPages - 1) = IF 0 > NPages - 1 THEN 0 ELSE NPages - 1 - 0 + 1
    BY <2>1, FS_Interval
  <2> QED BY <2>1, <2>2 DEF Pages
<1>2. ASSUME NEW T \in SUBSET Pages
      PROVE  IsFiniteSet(T) /\ Cardinality(T) \in Nat /\ Cardinality(T) <= NPages
  BY <1>1, FS_Subset, FS_CardinalityType, SizeAssumption
<1>3. ASSUME NEW p \in Pages \ S
      PROVE  Cardinality(S \cup {p}) = Inc(Cardinality(S))
  <2>1. Cardinality(S \cup {p}) = Cardinality(S) + 1  BY <1>2, FS_AddElement
  <2>2. Cardinality(S \cup {p}) <= NPages  BY <1>2
  <2> QED BY <1>2, <2>1, <2>2, CounterAssumption, SizeAssumption DEF Inc
<1>4. ASSUME NEW p \in S
      PROVE  Cardinality(S \ {p}) = Dec(Cardinality(S))
  <2>1. Cardinality(S \ {p}) = Cardinality(S) - 1  BY <1>2, FS_RemoveElement
  <2>2. Cardinality(S \ {p}) \in Nat  BY <1>2
  <2> QED BY <1>2, <2>1, <2>2 DEF Dec
<1> QED BY <1>2, <1>3, <1>4, FS_EmptySet, CounterAssumption, SizeAssumption

(* Every step changes nr_free with the list it counts.                      *)
LEMMA CountsStep ==
    ASSUME IInv, CountsRight, [SafeNext]_vars
    PROVE  CountsRight'
<1> USE DEF CountsRight
<1>1. \A k \in Orders : freelist[k] \in SUBSET Pages  BY DEF IInv, TypeOK
<1>2. CASE Merge
  <2> DEFINE q == Twin(idx, level)
  <2>1. level \in Orders /\ q \in freelist[level]
    BY <1>2, TwinIsListed DEF ListedBlocks, Blocks
  <2> HIDE DEF q
  <2>2. Cardinality(freelist[level] \ {q}) = Dec(nr_free[level])
    BY <1>1, <2>1, CountFacts
  <2>3. /\ freelist' = [freelist EXCEPT ![level] = @ \ {q}]
        /\ nr_free' = [nr_free EXCEPT ![level] = Dec(@)]
    BY <1>2 DEF Merge, q
  <2> QED BY <2>1, <2>2, <2>3 DEF IInv, TypeOK
<1>3. CASE MergeDone
  <2>1. level \in Orders /\ idx \in Pages  BY <1>3, Placed DEF MergeDone, IInv
  <2>2. idx \notin freelist[level]
    <3>1. <<idx, level>> \in BlockInHand  BY <1>3 DEF MergeDone, BlockInHand
    <3>2. <<idx, level>> \notin ListedBlocks  BY <3>1 DEF IInv, NoOverlap
    <3> QED BY <2>1, <3>2 DEF ListedBlocks, Blocks
  <2>3. Cardinality(freelist[level] \cup {idx}) = Inc(nr_free[level])
    BY <1>1, <2>1, <2>2, CountFacts
  <2> QED BY <1>3, <2>1, <2>3 DEF MergeDone, IInv, TypeOK
<1>4. CASE \E p \in Pages : Found(p)
  <2>1. PICK p \in Pages : Found(p)  BY <1>4
  <2>2. level \in Orders /\ p \in freelist[level]
    BY <2>1, SizeAssumption DEF Found, IInv, TypeOK, Orders
  <2>3. Cardinality(freelist[level] \ {p}) = Dec(nr_free[level])
    BY <1>1, <2>2, CountFacts
  <2> QED BY <2>1, <2>2, <2>3 DEF Found, IInv, TypeOK
<1>5. CASE Split
  <2> DEFINE half == level - 1
             upper == idx + BlockSize[half]
  <2>1. half \in Orders /\ half # MaxOrder /\ level = half + 1
    BY <1>5, SplitEffect DEF IInv
  <2>2. idx \in Pages /\ Aligned(idx, half + 1) /\ <<idx, level>> \in BlockInHand
    BY <1>5, <2>1, Placed DEF Split, IInv, BlockInHand
  <2>3. upper \in Pages /\ Run(idx, level) = Run(idx, half) \cup Run(upper, half)
    BY <2>1, <2>2, SplitFacts
  <2> HIDE DEF half, upper
  <2>4. upper \notin freelist[half]
    <3> SUFFICES ASSUME upper \in freelist[half] PROVE FALSE  OBVIOUS
    <3>1. <<upper, half>> \in ListedBlocks  BY <2>1, <2>3 DEF ListedBlocks, Blocks
    <3>2. upper \in Run(upper, half)  BY <2>1, <2>3, NonEmptyRun
    <3> QED BY <2>2, <2>3, <3>1, <3>2 DEF IInv, NoOverlap, AllBlocks, BlockRun
  <2>5. Cardinality(freelist[half] \cup {upper}) = Inc(nr_free[half])
    BY <1>1, <2>1, <2>3, <2>4, CountFacts
  <2>6. /\ freelist' = [freelist EXCEPT ![half] = @ \cup {upper}]
        /\ nr_free' = [nr_free EXCEPT ![half] = Inc(@)]
    BY <1>5 DEF Split, half, upper
  <2> QED BY <2>1, <2>5, <2>6 DEF IInv, TypeOK
<1>6. CASE UNCHANGED <<freelist, nr_free>>
  BY <1>6
<1> QED BY <1>2, <1>3, <1>4, <1>5, <1>6
        DEF SafeNext, Step, BootFree, Free, Enter, ScanNext, AllocFail, AllocReturn,
            AllocCall, vars

(* nr_free is the length of its list (CountsRight), so that the scan of     *)
(* __alloc_pages may go by the lists and buddy_info may print the counters; *)
(* the decrement on a merge never wraps.                                    *)
THEOREM CountsHold == SafeSpec => []CountsRight
<1>1. Init => CountsRight
  BY CountFacts, FS_EmptySet DEF Init, CountsRight
<1>2. IInv /\ CountsRight /\ [SafeNext]_vars => CountsRight'  BY CountsStep
<1> QED BY SafeInvariant, <1>1, <1>2, PTL DEF SafeSpec

(***************************************************************************)
(* No two free halves stay apart                                            *)
(***************************************************************************)
(* Every step leaves no two listed twins: a block is listed only when its   *)
(* twin is not.                                                             *)
LEMMA CoalescedStep ==
    ASSUME IInv, Coalesced, [SafeNext]_vars
    PROVE  Coalesced'
<1> USE DEF Coalesced
<1>1. CASE \A k \in Orders : freelist'[k] \subseteq freelist[k]
  BY <1>1
<1>2. CASE MergeDone
  <2>1. level \in Orders /\ idx \in Pages /\ Aligned(idx, level)
    BY <1>2, Placed DEF MergeDone, IInv
  <2>2. /\ freelist' = [freelist EXCEPT ![level] = @ \cup {idx}]
        /\ ~CanMerge
    BY <1>2 DEF MergeDone
  <2>3. ASSUME NEW p \in freelist[level], level # MaxOrder
        PROVE  p # Twin(idx, level) /\ Twin(p, level) # idx
    <3>1. p \in Pages /\ Aligned(p, level)  BY <2>1, Placed DEF IInv
    <3>2. bplevel[p] = level
      <4>1. <<p, level>> \in ListedBlocks  BY <2>1, <2>3, <3>1 DEF ListedBlocks, Blocks
      <4> QED BY <4>1 DEF IInv, Marks
    <3>3. p # Twin(idx, level)
      BY <2>1, <2>2, <2>3, <3>2, SizeAssumption DEF CanMerge, Orders
    <3>4. Twin(Twin(p, level), level) = p  BY <2>1, <2>3, <3>1, TwinFacts
    <3> QED BY <3>3, <3>4
  <2>4. level # MaxOrder => Twin(idx, level) # idx  BY <2>1, TwinFacts
  <2>5. level # MaxOrder => \A p \in freelist'[level] : Twin(p, level) \notin freelist'[level]
    BY <2>1, <2>2, <2>3, <2>4 DEF IInv, TypeOK
  <2> QED BY <2>1, <2>2, <2>5 DEF IInv, TypeOK
<1>3. CASE Split
  <2> DEFINE half == level - 1
             upper == idx + BlockSize[half]
  <2>1. half \in Orders /\ half # MaxOrder /\ level = half + 1
    BY <1>3, SplitEffect DEF IInv
  <2>2. idx \in Pages /\ Aligned(idx, half + 1) /\ <<idx, level>> \in BlockInHand
    BY <1>3, <2>1, Placed DEF Split, IInv, BlockInHand
  <2>3. /\ upper \in Pages /\ Aligned(idx, half) /\ upper # idx
        /\ Run(idx, level) = Run(idx, half) \cup Run(upper, half)
    BY <2>1, <2>2, SplitFacts
  <2>4. Twin(idx, half) = upper /\ Twin(upper, half) = idx
    <3>1. Twin(idx, half) = upper  BY <2>2 DEF Twin
    <3> QED BY <2>1, <2>2, <2>3, <3>1, TwinFacts
  <2>5. freelist' = [freelist EXCEPT ![half] = @ \cup {upper}]
    BY <1>3 DEF Split
  <2> HIDE DEF half, upper
  <2>6. idx \notin freelist[half]
    <3> SUFFICES ASSUME idx \in freelist[half] PROVE FALSE  OBVIOUS
    <3>1. <<idx, half>> \in ListedBlocks  BY <2>1, <2>2 DEF ListedBlocks, Blocks
    <3>2. idx \in Run(idx, half)  BY <2>1, <2>2, NonEmptyRun
    <3>3. half # level  BY <2>1, SizeAssumption DEF Orders
    <3> QED BY <2>2, <2>3, <3>1, <3>2, <3>3 DEF IInv, NoOverlap, AllBlocks, BlockRun
  <2>7. ASSUME NEW p \in freelist[half]
        PROVE  Twin(p, half) # upper
    <3>1. p \in Pages /\ Aligned(p, half)  BY <2>1, Placed DEF IInv
    <3>2. Twin(Twin(p, half), half) = p  BY <2>1, <3>1, TwinFacts
    <3> QED BY <2>4, <2>6, <3>2
  <2>8. \A p \in freelist'[half] : Twin(p, half) \notin freelist'[half]
    BY <2>1, <2>3, <2>4, <2>5, <2>6, <2>7 DEF IInv, TypeOK
  <2> QED BY <2>1, <2>5, <2>8 DEF IInv, TypeOK
<1>4. CASE Merge
  <2>1. \A k \in Orders : freelist'[k] \subseteq freelist[k]
    BY <1>4 DEF Merge, IInv, TypeOK
  <2> QED BY <1>1, <2>1
<1>5. CASE \E p \in Pages : Found(p)
  <2>1. \A k \in Orders : freelist'[k] \subseteq freelist[k]
    BY <1>5 DEF Found, IInv, TypeOK
  <2> QED BY <1>1, <2>1
<1>6. CASE UNCHANGED freelist
  BY <1>6
<1> QED BY <1>2, <1>3, <1>4, <1>5, <1>6
        DEF SafeNext, Step, BootFree, Free, Enter, ScanNext, AllocFail, AllocReturn,
            AllocCall, vars

(* Two free halves of a block below the top order are never both listed     *)
(* (Coalesced): memory that is free together can be asked for together.     *)
THEOREM CoalescedHolds == SafeSpec => []Coalesced
<1>1. Init => Coalesced
  BY DEF Init, Coalesced
<1>2. IInv /\ Coalesced /\ [SafeNext]_vars => Coalesced'  BY CoalescedStep
<1> QED BY SafeInvariant, <1>1, <1>2, PTL DEF SafeSpec

(***************************************************************************)
(* The promise                                                              *)
(***************************************************************************)
(* The orders a scan has passed have empty lists.                           *)
Scanned == pc = "scan" => \A j \in Orders : (want <= j /\ j < level) => freelist[j] = {}

(* A scan goes on only past empty lists.                                    *)
LEMMA ScannedStep ==
    ASSUME IInv, Scanned, [SafeNext]_vars
    PROVE  Scanned'
<1> USE DEF Scanned
<1>1. CASE ScanNext
  <2>1. /\ level \in Orders /\ freelist[level] = {} /\ pc = "scan"
        /\ level' = level + 1 /\ UNCHANGED <<freelist, want>>
    BY <1>1, SizeAssumption DEF ScanNext, IInv, TypeOK, Orders
  <2>2. \A j \in Orders : j < level + 1 => j < level \/ j = level
    BY <2>1, SizeAssumption DEF Orders
  <2> QED BY <2>1, <2>2
<1>2. CASE \E k \in Orders : AllocCall(k)
  <2>1. PICK k \in Orders : AllocCall(k)  BY <1>2
  <2>2. \A j \in Orders : ~(k <= j /\ j < k)  BY <2>1, SizeAssumption DEF Orders
  <2> QED BY <2>1, <2>2 DEF AllocCall
<1>3. CASE UNCHANGED <<pc, want, level, freelist>>
  BY <1>3
<1>4. CASE pc' # "scan"
  BY <1>4
<1> QED BY <1>1, <1>2, <1>3, <1>4
        DEF SafeNext, Step, BootFree, Free, Enter, Merge, MergeDone, AllocFail, Found,
            Split, AllocReturn, vars

(* During a scan a page that no caller holds is in a listed block.          *)
LEMMA FreeIsListed ==
    ASSUME IInv, pc \in {"idle", "scan"}, NEW x \in (0 .. booted - 1) \ HeldPages
    PROVE  \E r \in Pages, j \in Orders :
              /\ <<r, j>> \in ListedBlocks /\ r \in freelist[j]
              /\ Aligned(r, j) /\ x \in Run(r, j)
<1>1. PICK c \in AllBlocks : x \in BlockRun(c)  BY DEF IInv, NothingLost
<1>2. c \notin owned  BY <1>1 DEF HeldPages
<1>3. c \in ListedBlocks  BY <1>1, <1>2 DEF AllBlocks, BlockInHand
<1>4. PICK r \in Pages, j \in Orders : c = <<r, j>> /\ r \in freelist[j]
  BY <1>3 DEF ListedBlocks, Blocks
<1> QED BY <1>1, <1>3, <1>4, Placed DEF IInv, BlockRun

(* The smallest block listed inside a run of free pages would have a free   *)
(* twin: a request that is refused has no run to be served from.            *)
LEMMA NoRunLeft ==
    ASSUME IInv, Coalesced, Scanned, AllocFail,
           NEW m \in Pages, Aligned(m, want),
           Run(m, want) \subseteq (0 .. booted - 1) \ HeldPages
    PROVE  FALSE
<1> DEFINE K == {j \in Orders : \E p \in Pages :
                     p \in freelist[j] /\ p \in Run(m, want)}
<1>1. /\ want \in Orders /\ pc = "scan" /\ Pages \subseteq Nat /\ Orders \subseteq Nat
      /\ \A j \in Orders : want <= j => freelist[j] = {}
  <2>1. want \in Orders /\ pc = "scan" /\ level > MaxOrder /\ level \in Int
    BY SizeAssumption DEF AllocFail, IInv, TypeOK
  <2>2. Pages \subseteq Nat /\ Orders \subseteq Nat  BY SizeAssumption DEF Orders, Pages
  <2>3. \A j \in Orders : j < level  BY <2>1, SizeAssumption DEF Orders
  <2> QED BY <2>1, <2>2, <2>3 DEF Scanned
<1>2. ASSUME NEW x \in Run(m, want)
      PROVE  \E r \in Pages, j \in Orders :
                /\ <<r, j>> \in ListedBlocks /\ r \in freelist[j] /\ Aligned(r, j)
                /\ x \in Run(r, j) /\ r \in Run(m, want) /\ j \in K /\ j < want
  <2>1. PICK r \in Pages, j \in Orders :
              /\ <<r, j>> \in ListedBlocks /\ r \in freelist[j]
              /\ Aligned(r, j) /\ x \in Run(r, j)
    BY <1>1, <1>2, FreeIsListed
  <2>2. j < want /\ j <= want  BY <1>1, <2>1
  <2>3. Run(r, j) \subseteq Run(m, want)
    BY <1>1, <1>2, <2>1, <2>2, Laminar
  <2>4. r \in Run(m, want)  BY <2>1, <2>3, NonEmptyRun
  <2> QED BY <2>1, <2>2, <2>4
<1>3. PICK i \in K : \A j \in K : ~(j < i)
  <2>1. K # {}
    <3>1. m \in Run(m, want)  BY <1>1, NonEmptyRun
    <3> QED BY <1>2, <3>1
  <2>2. K \subseteq Nat  BY <1>1
  <2>3. PICK i \in K : \A j \in K : ~(<<j, i>> \in OpToRel(<, Nat))
    BY <2>1, <2>2, NatLessThanWellFounded, WFMin
  <2> QED BY <2>2, <2>3 DEF OpToRel
<1>4. PICK p \in Pages : p \in freelist[i] /\ p \in Run(m, want)
  BY <1>3
<1>5. i \in Orders /\ i < want /\ i # MaxOrder /\ Aligned(p, i) /\ i + 1 \in Orders
  BY <1>1, <1>3, <1>4, Placed, SizeAssumption DEF IInv, Orders
<1> DEFINE q == Twin(p, i)
           low == Lower(p, q)
<1>6. /\ q \in Pages /\ q # p /\ Aligned(q, i) /\ low \in Pages /\ Aligned(low, i + 1)
      /\ Run(low, i + 1) = Run(p, i) \cup Run(q, i)
      /\ p \in Run(p, i) /\ q \in Run(q, i)
  BY <1>5, TwinFacts, NonEmptyRun
<1>7. q \notin freelist[i]  BY <1>4, <1>5 DEF Coalesced
<1> HIDE DEF q, low
<1>8. q \in Run(m, want)
  <2>1. i + 1 <= want  BY <1>1, <1>5
  <2>2. Run(low, i + 1) \subseteq Run(m, want)
    BY <1>1, <1>4, <1>5, <1>6, <2>1, Laminar
  <2> QED BY <1>6, <2>2
<1>9. PICK r \in Pages, j \in Orders :
        /\ <<r, j>> \in ListedBlocks /\ r \in freelist[j] /\ Aligned(r, j)
        /\ q \in Run(r, j) /\ j \in K
  BY <1>2, <1>8
<1>10. j = i
  <2>1. j >= i  BY <1>1, <1>3, <1>5, <1>9
  <2>2. ~(j > i)
    <3> SUFFICES ASSUME j > i PROVE FALSE  OBVIOUS
    <3>1. i + 1 <= j  BY <1>1, <1>5, <1>9
    <3>2. Run(low, i + 1) \subseteq Run(r, j)
      BY <1>1, <1>5, <1>6, <1>9, <3>1, Laminar
    <3>3. p \in Run(r, j)  BY <1>6, <3>2
    <3>4. <<p, i>> \in ListedBlocks /\ <<p, i>> # <<r, j>>
      BY <1>1, <1>4, <1>5 DEF ListedBlocks, Blocks
    <3> QED BY <1>6, <1>9, <3>3, <3>4 DEF IInv, NoOverlap, AllBlocks, BlockRun
  <2> QED BY <1>1, <1>5, <1>9, <2>1, <2>2
<1>11. r = q
  <2>1. Run(r, i) \subseteq Run(q, i)
    <3>1. i <= i /\ r \in Nat /\ q \in Nat  BY <1>1, <1>5, <1>6
    <3>2. q \in Run(r, i) /\ Aligned(r, i)  BY <1>9, <1>10
    <3> QED BY <1>5, <1>6, <3>1, <3>2, Laminar
  <2>2. r \in Run(q, i) /\ q \in Run(r, i)
    BY <1>5, <1>9, <1>10, <2>1, NonEmptyRun
  <2> QED BY <1>1, <1>6, <1>9, <2>2, <1>5, SizeFacts DEF Run
<1> QED BY <1>7, <1>9, <1>10, <1>11

(* A step of the buddy system is a step of the page allocator or a stutter. *)
LEMMA StepRefines ==
    ASSUME IInv, Coalesced, Scanned, [SafeNext]_vars
    PROVE  [PA!Next]_(PA!vars)
<1> USE DEF IInv
<1>1. CASE BootFree
  <2>1. /\ owned = {} /\ owned' = {} /\ booted' = booted + 1 /\ pc = "idle" /\ pc' = "merge"
        /\ booted \in Pages
    BY <1>1, SizeAssumption DEF BootFree, Enter, Boot, TypeOK, Pages
  <2>2. HeldPages = {} /\ HeldPages' = {}  BY <2>1 DEF HeldPages
  <2>3. PA!Donate(booted)
    BY <2>1, <2>2, SizeAssumption DEF PA!Donate, PA!Idle, Pages
  <2> QED BY <2>1, <2>3 DEF PA!Next, PA!Pages, Pages
<1>2. CASE \E k \in Orders : AllocCall(k)
  <2>1. PICK k \in Orders : AllocCall(k)  BY <1>2
  <2>2. PA!Request(k)
    BY <2>1 DEF AllocCall, PA!Request, PA!Idle, HeldPages
  <2> QED BY <2>2 DEF PA!Next, PA!Orders, Orders
<1>3. CASE AllocFail
  <2>1. want # -1  BY SizeAssumption DEF TypeOK, Orders
  <2>2. PA!Candidates(want) = {}
    <3> SUFFICES ASSUME NEW m \in PA!Candidates(want) PROVE FALSE  OBVIOUS
    <3>1. /\ m \in Pages /\ Aligned(m, want)
          /\ Run(m, want) \subseteq (0 .. booted - 1) \ HeldPages
      BY DEF PA!Candidates, PA!Pages, PA!Aligned, PA!Run, Pages, Aligned, Run
    <3> QED BY <1>3, <3>1, NoRunLeft
  <2>3. PA!Refuse
    BY <1>3, <2>1, <2>2 DEF AllocFail, PA!Refuse, PA!Idle, HeldPages
  <2> QED BY <2>3 DEF PA!Next, PA!Answer
<1>4. CASE AllocReturn
  <2>1. /\ idx \in Pages /\ Aligned(idx, want) /\ want # -1
        /\ <<idx, want>> \in BlockInHand /\ <<idx, want>> \in AllBlocks
        /\ owned' = owned \cup {<<idx, want>>} /\ pc = "split" /\ pc' = "idle"
        /\ booted' = booted
    BY <1>4, Placed, SizeAssumption DEF AllocReturn, BlockInHand, AllBlocks, TypeOK, Orders
  <2>2. Run(idx, want) \cap HeldPages = {} /\ Run(idx, want) \subseteq 0 .. booted - 1
    BY <2>1 DEF NoOverlap, AllBlocks, HeldPages, Boot, BlockRun
  <2>3. HeldPages' = HeldPages \cup Run(idx, want)
    BY <2>1 DEF HeldPages, BlockRun
  <2>4. PA!Grant(idx)
    BY <2>1, <2>2, <2>3
       DEF PA!Grant, PA!Candidates, PA!Idle, PA!Pages, PA!Aligned, PA!Run, Pages, Aligned, Run
  <2> QED BY <2>1, <2>4 DEF PA!Next, PA!Answer, PA!Pages, Pages
<1>5. CASE \E p \in Pages, k \in Orders : SafeToFree(p, k) /\ Free(p, k)
  <2>1. PICK p \in Pages, k \in Orders : Free(p, k)  BY <1>5
  <2>2. /\ <<p, k>> \in owned /\ <<p, k>> \in AllBlocks /\ owned' = owned \ {<<p, k>>}
        /\ pc = "idle" /\ pc' = "merge" /\ booted' = booted
    BY <2>1 DEF Free, Enter, AllBlocks
  <2>3. Run(p, k) \subseteq 0 .. booted - 1 /\ Run(p, k) \cap HeldPages' = {}
    BY <2>2 DEF Boot, NoOverlap, AllBlocks, HeldPages, BlockRun
  <2>4. HeldPages = HeldPages' \cup Run(p, k)
    BY <2>2 DEF HeldPages, BlockRun
  <2>5. PA!GiveBack(p, k)
    BY <2>2, <2>3, <2>4 DEF PA!GiveBack, PA!Idle, PA!Run, Run
  <2> QED BY <2>5 DEF PA!Next, PA!Pages, PA!Orders, Pages, Orders
<1>6. CASE Merge \/ MergeDone \/ ScanNext \/ Split \/ (\E p \in Pages : Found(p))
           \/ UNCHANGED vars
  BY <1>6 DEF Merge, MergeDone, ScanNext, Split, Found, vars, PA!vars, HeldPages
<1> QED BY <1>1, <1>2, <1>3, <1>4, <1>5, <1>6 DEF SafeNext, Step

(* Seen by its callers the buddy system is the page allocator of            *)
(* PageAllocator.tla: a request gets an aligned run of pages that nobody    *)
(* holds, and is refused only when there is none.                           *)
THEOREM Refinement == SafeSpec => PA!Safety
<1>1. Init => PA!Init /\ Coalesced /\ Scanned
  BY SizeAssumption DEF Init, PA!Init, PA!Idle, HeldPages, Coalesced, Scanned
<1>2. IInv /\ Scanned /\ [SafeNext]_vars => Scanned'  BY ScannedStep
<1>3. IInv /\ Coalesced /\ Scanned /\ [SafeNext]_vars => [PA!Next]_(PA!vars)
  BY StepRefines
<1> QED BY SafeInvariant, CoalescedHolds, <1>1, <1>2, <1>3, PTL DEF SafeSpec, PA!Safety
=============================================================================
