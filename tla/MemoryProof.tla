------------------------------ MODULE MemoryProof ------------------------------
(***************************************************************************)
(* Proofs about Memory and its parts: the table of the boot memory map, the *)
(* hand-over to the buddy system, and the objects of kmalloc, for any sizes *)
(* of memory, table, pages, caches, requests and programs.                  *)
(***************************************************************************)
EXTENDS Memory, TLAPS, WellFoundedInduction, SequenceTheorems, FiniteSetTheorems

(***************************************************************************)
(* kmalloc: the invariant                                                   *)
(***************************************************************************)
\* Slot i of a page p of cache c.
SlotAt(c, p, i) == Base(p) + i * Slot(c)

\* The caches get_slab considers.
Usable == {c \in Caches : CacheSizes[c] < PageSize \div 2}

SlabTypes ==
    /\ free \subseteq Pages
    /\ held \subseteq [page : Pages, order : Orders]
    /\ slab \in [Pages -> Usable \cup {None}] /\ nr_objs \in [Pages -> Nat]
    /\ full \in [Caches -> SUBSET Pages]
    /\ cpu \in [Caches -> {NoPage} \cup [page : Pages, freeobj : Nat]]
    /\ live \subseteq [addr : Nat, size : Sizes]
    /\ halted \in Sizes \cup {0}

\* No page is in two blocks, or in one and free.
BlocksApart ==
    /\ \A b \in held : PageRun(b) \subseteq Pages \ free
    /\ \A b, d \in held : b # d => PageRun(b) \cap PageRun(d) = {}

\* A page of a slab stays with its cache.
SlabHeld == \A p \in Pages : slab[p] # None => [page |-> p, order |-> 0] \in held

\* An object of a cache fills a slot that slab_alloc has passed.
Slotted(o) ==
    \E p \in Pages : slab[p] # None /\ \E i \in 1 .. Links(slab[p]) - 1 :
        /\ o.addr = SlotAt(slab[p], p, i) /\ o.size <= CacheSizes[slab[p]]
        /\ cpu[slab[p]].page = p => o.addr < cpu[slab[p]].freeobj

\* A larger one starts a block of as many pages as its order says, or more.
Blocked(o) == \E b \in held : b.order = OrderAsked(o.size) /\ o.addr = Base(b.page)

Placed == \A o \in live : IF o.size <= Largest THEN Slotted(o) ELSE Blocked(o)

\* The slots of the page in use that are left begin at freeobj.
CpuPlaced ==
    \A c \in Caches : cpu[c] # NoPage =>
        \E p \in Pages, i \in 2 .. Links(c) - 1 :
            /\ cpu[c] = [page |-> p, freeobj |-> SlotAt(c, p, i)]
            /\ slab[p] = c /\ nr_objs[p] = i - 1

SlabIInv ==
    /\ SlabTypes /\ BlocksApart /\ SlabHeld /\ Placed /\ CpuPlaced
    /\ ObjectsApart /\ FullIsFull

\* No caller has written over the words of a page in use that are still to be read.
WordsKept ==
    \A c \in Caches : cpu[c] # NoPage =>
        /\ \A a \in Words(c, cpu[c].page) : a >= cpu[c].freeobj => a \notin junk
        /\ Header(cpu[c].page) \cap junk = {}

(***************************************************************************)
(* Arithmetic of pages and slots                                            *)
(***************************************************************************)
\* Quotient and remainder, for the provers.
LEMMA Quotient ==
    ASSUME NEW a \in Nat, NEW m \in Nat \ {0}
    PROVE  /\ a \div m \in Nat /\ a % m \in Nat /\ a % m < m
           /\ a = ((a \div m) * m) + (a % m)
  BY Z3

\* A number between two multiples has the quotient of the lower one.
LEMMA QuotientIs ==
    ASSUME NEW q \in Nat, NEW r \in Nat, NEW m \in Nat \ {0}, r < m
    PROVE  (q * m + r) \div m = q
<1> DEFINE a == q * m + r
<1>1. a \in Nat
  BY Z3
<1>2. a = ((a \div m) * m) + (a % m) /\ a \div m \in Nat /\ a % m \in Nat /\ a % m < m
  BY <1>1, Quotient
<1> DEFINE d == a \div m
           t == a % m
<1>3. q * m + r = d * m + t
  BY <1>2
<1>4. d \in Nat /\ t \in Nat /\ t < m
  BY <1>2
<1> HIDE DEF a, d, t
<1>5. ~(q < d)
  <2>1. q < d => d * m >= q * m + m
    BY <1>4, Z3
  <2> QED BY <1>3, <1>4, <2>1, Z3
<1>6. ~(d < q)
  <2>1. d < q => q * m >= d * m + m
    BY <1>4, Z3
  <2> QED BY <1>3, <1>4, <2>1, Z3
<1> QED BY <1>4, <1>5, <1>6 DEF d, a

\* Multiplying keeps the order.
LEMMA Monotone ==
    ASSUME NEW a \in Int, NEW b \in Int, NEW m \in Nat, a <= b
    PROVE  a * m <= b * m
  BY Z3
LEMMA NextMultiple ==
    ASSUME NEW i \in Int, NEW j \in Int, NEW m \in Nat, i < j
    PROVE  i * m + m <= j * m
<1>1. (i + 1) * m <= j * m
  BY Monotone
<1>2. (i + 1) * m = i * m + m
  BY Z3
<1> QED BY <1>1, <1>2

\* Caches are numbered from 1.
LEMMA CacheNumbers == \A c \in Caches : c \in Nat /\ c # None /\ CacheSizes[c] \in Nat
  BY SlabAssumption DEF Caches, None

\* The caches get_slab considers have two slots to a page at least, and the last
\* word, that of slot Links, is inside the page.
LEMMA SlotFacts ==
    ASSUME NEW c \in Usable
    PROVE  /\ c \in Caches /\ Slot(c) \in Nat /\ Slot(c) >= 8
           /\ CacheSizes[c] \in Nat /\ CacheSizes[c] = Slot(c) - 4
           /\ Links(c) \in Nat /\ Links(c) >= 2
           /\ Links(c) * Slot(c) \in Nat /\ Links(c) * Slot(c) < PageSize
<1>1. /\ c \in Caches /\ CacheSizes[c] \in Nat \ {0} /\ CacheSizes[c] % 4 = 0
      /\ CacheSizes[c] < PageSize \div 2 /\ PageSize % (CacheSizes[c] + 4) # 0
      /\ PageSize \in Nat \ {0} /\ PageSize % 8 = 0
  BY SlabAssumption DEF Usable, Caches, Word
<1>2. Slot(c) = CacheSizes[c] + 4
  BY DEF Slot, Word
<1>3. CacheSizes[c] >= 4 /\ 2 * (CacheSizes[c] + 4) <= PageSize
  BY <1>1
<1> DEFINE s == Slot(c)
           n == Links(c)
<1>4. s \in Nat \ {0} /\ s >= 8 /\ 2 * s <= PageSize /\ PageSize % s # 0
  BY <1>1, <1>2, <1>3
<1>5. n = PageSize \div s
  BY DEF Links
<1> HIDE DEF s, n
<1>6. n \in Nat /\ PageSize % s \in Nat \ {0} /\ PageSize % s < s /\ PageSize = (n * s) + (PageSize % s)
  BY <1>1, <1>4, <1>5, Quotient
<1>7. n * s \in Nat
  BY <1>4, <1>6, Z3
<1>8. n >= 2
  <2>1. CASE n = 0
    BY <1>1, <1>4, <1>6, <2>1
  <2>2. CASE n = 1
    BY <1>1, <1>4, <1>6, <2>2
  <2> QED BY <1>6, <2>1, <2>2
<1> QED BY <1>1, <1>2, <1>4, <1>6, <1>7, <1>8 DEF s, n

\* A block of order k has more than k pages.
LEMMA BlockFacts ==
    ASSUME NEW k \in Orders
    PROVE  BlockSize[k] \in Nat \ {0} /\ BlockSize[k] >= k + 1
<1> DEFINE Bad == {j \in Orders : BlockSize[j] < j + 1}
<1>1. \A j \in Orders : BlockSize[j] \in Nat \ {0}
  BY SlabAssumption DEF Orders
<1>2. Bad = {}
  <2> SUFFICES ASSUME Bad # {} PROVE FALSE
    OBVIOUS
  <2>1. Bad \subseteq Nat
    BY SlabAssumption DEF Orders
  <2>2. PICK j \in Bad : \A h \in Bad : ~(h < j)
    <3>1. PICK j \in Bad : \A h \in Bad : ~(<<h, j>> \in OpToRel(<, Nat))
      BY <2>1, NatLessThanWellFounded, WFMin
    <3> QED BY <2>1, <3>1 DEF OpToRel
  <2>3. j # 0
    BY <2>2, SlabAssumption
  <2>4. j - 1 \in Orders /\ j - 1 # MaxOrder /\ j \in Orders
    BY <2>2, <2>3, SlabAssumption DEF Orders
  <2>5. BlockSize[j - 1] >= j
    BY <1>1, <2>2, <2>4 DEF Orders
  <2>6. BlockSize[(j - 1) + 1] = 2 * BlockSize[j - 1]
    BY <2>4, SlabAssumption
  <2>7. j \in Nat /\ (j - 1) + 1 = j
    BY <2>1, <2>2
  <2> QED BY <1>1, <2>2, <2>3, <2>4, <2>5, <2>6, <2>7
<1> QED BY <1>1, <1>2 DEF Orders

\* The pages kmalloc asks for hold the request, and are one at least.
LEMMA OrderFacts ==
    ASSUME NEW size \in Nat \ {0}
    PROVE  /\ OrderAsked(size) \in Nat \ {0}
           /\ size <= OrderAsked(size) * PageSize
<1> DEFINE q == (size + PageSize - 1) \div PageSize
           r == (size + PageSize - 1) % PageSize
<1>1. PageSize \in Nat \ {0} /\ size + PageSize - 1 \in Nat
  BY SlabAssumption
<1>2. q \in Nat /\ r \in Nat /\ r < PageSize /\ size + PageSize - 1 = (q * PageSize) + r
  BY <1>1, Quotient
<1> HIDE DEF q, r
<1>3. size <= q * PageSize
  BY <1>1, <1>2
<1>4. q # 0
  BY <1>1, <1>3
<1> QED BY <1>2, <1>3, <1>4 DEF q, OrderAsked

(***************************************************************************)
(* Where objects lie                                                        *)
(***************************************************************************)
Within(o, b) == /\ Base(b.page) <= o.addr
                /\ o.addr + o.size <= Base(b.page + BlockSize[b.order])

\* Pages are as far apart as their numbers.
LEMMA BaseFacts ==
    ASSUME NEW p \in Nat
    PROVE  Base(p) \in Nat /\ Base(p + 1) = Base(p) + PageSize
<1>1. PageSize \in Nat
  BY SlabAssumption
<1>2. p * PageSize \in Nat /\ (p + 1) * PageSize = p * PageSize + PageSize
  BY <1>1, Z3
<1> QED BY <1>2 DEF Base
LEMMA BaseOrder ==
    ASSUME NEW p \in Nat, NEW q \in Nat, p <= q
    PROVE  Base(p) <= Base(q)
<1>1. PageSize \in Nat
  BY SlabAssumption
<1>2. p * PageSize <= q * PageSize
  BY <1>1, Monotone
<1> QED BY <1>2 DEF Base

\* The slots of a page lie behind its header, in order and inside the page.
LEMMA SlotPlace ==
    ASSUME NEW c \in Usable, NEW p \in Pages, NEW i \in 1 .. Links(c)
    PROVE  /\ SlotAt(c, p, i) \in Nat /\ PageOf(SlotAt(c, p, i)) = p
           /\ Base(p) + 8 <= SlotAt(c, p, i) /\ SlotAt(c, p, i) < Base(p + 1)
           /\ SlotAt(c, p, i + 1) = SlotAt(c, p, i) + Slot(c)
           /\ LinkWord(SlotAt(c, p, i), c) = IF i = Links(c) THEN 0 ELSE SlotAt(c, p, i)
<1> DEFINE s == Slot(c)
           n == Links(c)
           x == i * s
<1>1. s \in Nat /\ s >= 8 /\ n \in Nat /\ n * s \in Nat /\ n * s < PageSize
  BY SlotFacts
<1>2. p \in Nat /\ i \in Nat /\ 1 <= i /\ i <= n /\ PageSize \in Nat \ {0}
  BY <1>1, SlabAssumption DEF Pages
<1> HIDE DEF s, n
<1>3. i * s <= n * s /\ 1 * s <= i * s /\ i * s \in Nat /\ (i + 1) * s = i * s + s
  <2>1. i * s <= n * s
    BY <1>1, <1>2, Monotone
  <2>2. 1 * s <= i * s
    BY <1>1, <1>2, Monotone
  <2>3. i * s \in Nat /\ (i + 1) * s = i * s + s
    BY <1>1, <1>2, Z3
  <2> QED BY <2>1, <2>2, <2>3
<1>4. x \in Nat /\ 8 <= x /\ x < PageSize
  BY <1>1, <1>2, <1>3
<1>5. SlotAt(c, p, i) = Base(p) + x /\ SlotAt(c, p, i + 1) = Base(p) + (i + 1) * s
  BY DEF SlotAt, s
<1>6. Base(p) \in Nat /\ Base(p + 1) = Base(p) + PageSize
  BY <1>2, BaseFacts
<1>7. (p * PageSize + x) \div PageSize = p
  BY <1>2, <1>4, QuotientIs
<1>8. PageOf(SlotAt(c, p, i)) = p
  BY <1>5, <1>7 DEF PageOf, Base
<1>9. (i * s + 0) \div s = i
  BY <1>1, <1>2, QuotientIs
<1>10. (SlotAt(c, p, i) - Base(p)) \div s = i
  BY <1>3, <1>5, <1>6, <1>9
<1>11. LinkWord(SlotAt(c, p, i), c) = IF i = n THEN 0 ELSE SlotAt(c, p, i)
  BY <1>8, <1>10 DEF LinkWord, s, n
<1>14. (i + 1) * s = x + s
  BY <1>3
<1> HIDE DEF x
<1>12. SlotAt(c, p, i + 1) = SlotAt(c, p, i) + s
  BY <1>1, <1>4, <1>5, <1>6, <1>14
<1>13. SlotAt(c, p, i) \in Nat /\ Base(p) + 8 <= SlotAt(c, p, i) /\ SlotAt(c, p, i) < Base(p + 1)
  BY <1>2, <1>4, <1>5, <1>6
<1> QED BY <1>8, <1>11, <1>12, <1>13 DEF s, n
LEMMA SlotOrder ==
    ASSUME NEW c \in Usable, NEW p \in Pages, NEW i \in 1 .. Links(c), NEW j \in 1 .. Links(c), i < j
    PROVE  SlotAt(c, p, i) + Slot(c) <= SlotAt(c, p, j)
<1>1. Slot(c) \in Nat /\ Links(c) \in Nat
  BY SlotFacts
<1>2. i \in Int /\ j \in Int /\ p \in Nat
  BY <1>1 DEF Pages
<1>3. i * Slot(c) + Slot(c) <= j * Slot(c) /\ i * Slot(c) \in Int /\ j * Slot(c) \in Int
  BY <1>1, <1>2, NextMultiple, Z3
<1>4. Base(p) \in Nat
  BY <1>2, BaseFacts
<1> QED BY <1>1, <1>3, <1>4 DEF SlotAt

\* An object in a slot lies in its page, behind the header and before the last word.
LEMMA SlotWithin ==
    ASSUME NEW c \in Usable, NEW p \in Pages, NEW i \in 1 .. Links(c) - 1,
           NEW o, o.addr = SlotAt(c, p, i), o.size \in Nat, o.size <= CacheSizes[c]
    PROVE  /\ Within(o, [page |-> p, order |-> 0])
           /\ Base(p) + 8 <= o.addr /\ o.addr + o.size < SlotAt(c, p, i + 1)
           /\ o.addr + o.size < SlotAt(c, p, Links(c))
<1>1. Links(c) \in Nat /\ i \in 1 .. Links(c) /\ i + 1 \in 1 .. Links(c) /\ Links(c) \in 1 .. Links(c)
  BY SlotFacts
<1>2. /\ SlotAt(c, p, i) \in Nat /\ Base(p) + 8 <= SlotAt(c, p, i)
      /\ SlotAt(c, p, i + 1) = SlotAt(c, p, i) + Slot(c)
      /\ SlotAt(c, p, i + 1) < Base(p + 1) /\ SlotAt(c, p, i + 1) \in Nat
      /\ SlotAt(c, p, Links(c)) \in Nat
  BY <1>1, SlotPlace
<1>3. CacheSizes[c] = Slot(c) - 4 /\ Slot(c) \in Nat
  BY SlotFacts
<1>4. SlotAt(c, p, i) + Slot(c) <= SlotAt(c, p, Links(c))
  BY <1>1, SlotOrder
<1>5. BlockSize[0] = 1 /\ Base(p) \in Nat /\ Base(p + 1) \in Nat
  <2>1. p \in Nat /\ p + 1 \in Nat
    BY DEF Pages
  <2> QED BY <2>1, SlabAssumption, BaseFacts
<1> QED BY <1>2, <1>3, <1>4, <1>5 DEF Within

\* Objects in blocks without a page in common do not meet.
LEMMA ApartBlocks ==
    ASSUME NEW b \in [page : Pages, order : Orders], NEW d \in [page : Pages, order : Orders],
           PageRun(b) \cap PageRun(d) = {},
           NEW o \in [addr : Nat, size : Nat], NEW q \in [addr : Nat, size : Nat],
           Within(o, b), Within(q, d)
    PROVE  ~Meets(o, q)
<1> DEFINE m == BlockSize[b.order]
           n == BlockSize[d.order]
<1>1. m \in Nat \ {0} /\ n \in Nat \ {0} /\ b.page \in Nat /\ d.page \in Nat
  BY BlockFacts DEF Pages
<1>2. b.page + m <= d.page \/ d.page + n <= b.page
  <2>1. ~(d.page \in b.page .. b.page + m - 1 /\ d.page \in d.page .. d.page + n - 1)
    BY DEF PageRun
  <2>2. ~(b.page \in b.page .. b.page + m - 1 /\ b.page \in d.page .. d.page + n - 1)
    BY DEF PageRun
  <2> HIDE DEF m, n
  <2> QED BY <1>1, <2>1, <2>2
<1>3. /\ o.addr \in Nat /\ o.size \in Nat /\ q.addr \in Nat /\ q.size \in Nat
      /\ Base(b.page) <= o.addr /\ o.addr + o.size <= Base(b.page + m)
      /\ Base(d.page) <= q.addr /\ q.addr + q.size <= Base(d.page + n)
  BY DEF Within
<1> HIDE DEF m, n
<1>4. CASE b.page + m <= d.page
  <2>1. Base(b.page + m) <= Base(d.page)
    BY <1>1, <1>4, BaseOrder
  <2>2. Base(b.page + m) \in Nat /\ Base(d.page) \in Nat
    BY <1>1, BaseFacts
  <2> QED BY <1>3, <2>1, <2>2 DEF Meets
<1>5. CASE d.page + n <= b.page
  <2>1. Base(d.page + n) <= Base(b.page)
    BY <1>1, <1>5, BaseOrder
  <2>2. Base(d.page + n) \in Nat /\ Base(b.page) \in Nat
    BY <1>1, BaseFacts
  <2> QED BY <1>3, <2>1, <2>2 DEF Meets
<1> QED BY <1>2, <1>4, <1>5

\* get_slab's cache holds the request and is one it considers.
LEMMA BestFits ==
    ASSUME NEW size \in Nat, BestFit(size) # None
    PROVE  BestFit(size) \in Usable /\ size <= CacheSizes[BestFit(size)]
<1> DEFINE fits == {c \in Caches : CacheSizes[c] >= size /\ CacheSizes[c] < PageSize \div 2}
           Larger == {CacheSizes[c] : c \in fits}
<1>1. fits # {} /\ BestFit(size) = CHOOSE c \in fits : \A d \in fits : CacheSizes[c] <= CacheSizes[d]
  BY DEF BestFit
<1>2. \A c \in Caches : CacheSizes[c] \in Nat
  BY SlabAssumption DEF Caches
<1>3. Larger \subseteq Nat /\ Larger # {}
  BY <1>1, <1>2
<1>4. PICK m \in Larger : \A h \in Larger : ~(h < m)
  <2>1. PICK m \in Larger : \A h \in Larger : ~(<<h, m>> \in OpToRel(<, Nat))
    BY <1>3, NatLessThanWellFounded, WFMin
  <2> QED BY <1>3, <2>1 DEF OpToRel
<1>5. \E c \in fits : \A d \in fits : CacheSizes[c] <= CacheSizes[d]
  BY <1>2, <1>4
<1>6. BestFit(size) \in fits
  BY <1>1, <1>5
<1> QED BY <1>2, <1>6 DEF Usable

\* No object without a block of the buddy system around it; that of a cache's
\* object is the slab's page, that of any other one has two pages at least.
LEMMA HasBlock ==
    ASSUME SlabTypes, SlabHeld, Placed, NEW o \in live
    PROVE  \E b \in held :
              /\ Within(o, b)
              /\ o.size <= Largest => slab[b.page] # None /\ b.order = 0
              /\ o.size > Largest => b.order # 0 /\ o.addr = Base(b.page) /\ b.order = OrderAsked(o.size)
<1>1. o.addr \in Nat /\ o.size \in Nat \ {0} /\ o \in [addr : Nat, size : Nat]
  BY SlabAssumption DEF SlabTypes
<1>2. Largest \in Nat
  BY SlabAssumption DEF Largest
<1>3. CASE o.size <= Largest
  <2>1. Slotted(o)
    BY <1>3 DEF Placed
  <2>2. PICK p \in Pages : slab[p] # None /\ \E i \in 1 .. Links(slab[p]) - 1 :
            o.addr = SlotAt(slab[p], p, i) /\ o.size <= CacheSizes[slab[p]]
    BY <2>1 DEF Slotted
  <2>3. PICK i \in 1 .. Links(slab[p]) - 1 :
            o.addr = SlotAt(slab[p], p, i) /\ o.size <= CacheSizes[slab[p]]
    BY <2>2
  <2>4. slab[p] \in Usable
    BY <2>2 DEF SlabTypes
  <2>5. Within(o, [page |-> p, order |-> 0])
    BY <1>1, <2>3, <2>4, SlotWithin
  <2>6. [page |-> p, order |-> 0] \in held
    BY <2>2 DEF SlabHeld
  <2> QED BY <1>1, <1>2, <1>3, <2>2, <2>5, <2>6
<1>4. CASE o.size > Largest
  <2>1. PICK b \in held : b.order = OrderAsked(o.size) /\ o.addr = Base(b.page)
    BY <1>1, <1>2, <1>4 DEF Placed, Blocked
  <2>2. b.page \in Nat /\ b.order \in Orders
    BY DEF SlabTypes, Pages
  <2>3. b.order \in Nat \ {0} /\ o.size <= b.order * PageSize
    BY <1>1, <2>1, OrderFacts
  <2> DEFINE n == BlockSize[b.order]
             k == b.order
             p == b.page
  <2>4. n \in Nat /\ k <= n
    BY <2>2, <2>3, BlockFacts
  <2> HIDE DEF n
  <2>5. Base(p + n) >= Base(p) + k * PageSize
    <3> HIDE DEF k, p
    <3>1. PageSize \in Nat /\ p \in Nat /\ k \in Nat
      BY <2>2, <2>3, SlabAssumption DEF k, p
    <3>2. (p + k) * PageSize <= (p + n) * PageSize
      BY <2>4, <3>1, Monotone
    <3>3. (p + k) * PageSize = p * PageSize + k * PageSize
      BY <3>1, Z3
    <3> QED BY <3>2, <3>3 DEF Base
  <2>6. Base(p) \in Nat /\ Base(p + n) \in Nat
    BY <2>2, <2>4, BaseFacts
  <2>7. k * PageSize \in Nat
    BY <2>3, SlabAssumption, Z3
  <2>8. Within(o, b)
    BY <1>1, <2>1, <2>3, <2>5, <2>6, <2>7 DEF Within, n
  <2> QED BY <1>1, <1>2, <1>4, <2>1, <2>3, <2>8
<1> QED BY <1>1, <1>2, <1>3, <1>4

\* The invariant gives what the objects are promised.
LEMMA Housed ==
    ASSUME SlabIInv PROVE ObjectsHoused
<1> USE DEF SlabIInv
<1>1. SlabTypeOK
  <2>1. free \subseteq Pages /\ \A b \in held : PageRun(b) \subseteq Pages
    BY DEF SlabTypes, BlocksApart
  <2>2. slab \in [Pages -> Caches \cup {None}] /\ nr_objs \in [Pages -> Nat] /\ halted \in Sizes \cup {0}
    BY DEF SlabTypes, Usable
  <2>3. ASSUME NEW c \in Caches
        PROVE  /\ full[c] \subseteq Pages
               /\ cpu[c] # NoPage => cpu[c].page \in Pages /\ cpu[c].freeobj \in Words(c, cpu[c].page)
    <3>1. full[c] \subseteq Pages
      BY DEF SlabTypes
    <3>2. ASSUME cpu[c] # NoPage
          PROVE  cpu[c].page \in Pages /\ cpu[c].freeobj \in Words(c, cpu[c].page)
      <4>1. PICK p \in Pages, i \in 2 .. Links(c) - 1 :
                cpu[c] = [page |-> p, freeobj |-> SlotAt(c, p, i)] /\ slab[p] = c
        BY <3>2 DEF CpuPlaced
      <4>2. c \in Usable
        BY <4>1, SlabAssumption DEF SlabTypes, Caches, None
      <4>3. i \in 1 .. Links(c)
        BY <4>2, SlotFacts
      <4>4. SlotAt(c, p, i) \in Words(c, p)
        BY <4>3 DEF Words, SlotAt
      <4> QED BY <4>1, <4>4
    <3> QED BY <3>1, <3>2
  <2> QED BY <2>1, <2>2, <2>3 DEF SlabTypeOK
<1>2. ASSUME NEW o \in live
      PROVE  \E b \in held :
        /\ PageRun(b) \cap free = {}
        /\ Base(b.page) <= o.addr /\ o.addr + o.size <= Base(b.page + BlockSize[b.order])
        /\ o.size <= Largest =>
              ~\E a \in Header(b.page) \cup {Base(b.page) + Links(slab[b.page]) * Slot(slab[b.page])} :
                    Inside(a, o)
  <2>1. o.addr \in Nat /\ o.size \in Nat \ {0} /\ Largest \in Nat
    <3>1. o.addr \in Nat /\ o.size \in Nat \ {0}
      BY SlabAssumption DEF SlabTypes
    <3>2. Largest \in Nat
      BY SlabAssumption DEF Largest
    <3> QED BY <3>1, <3>2
  <2>2. CASE o.size > Largest
    BY <2>1, <2>2, HasBlock DEF Within, BlocksApart
  <2>3. CASE o.size <= Largest
    <3>1. PICK p \in Pages : slab[p] # None /\ \E i \in 1 .. Links(slab[p]) - 1 :
              o.addr = SlotAt(slab[p], p, i) /\ o.size <= CacheSizes[slab[p]]
      BY <2>3 DEF Placed, Slotted
    <3>2. PICK i \in 1 .. Links(slab[p]) - 1 :
              o.addr = SlotAt(slab[p], p, i) /\ o.size <= CacheSizes[slab[p]]
      BY <3>1
    <3> DEFINE c == slab[p]
               b == [page |-> p, order |-> 0]
    <3>3. c \in Usable
      BY <3>1 DEF SlabTypes
    <3>4. /\ Within(o, b) /\ Base(p) + 8 <= o.addr /\ o.addr + o.size < SlotAt(c, p, Links(c))
      BY <2>1, <3>2, <3>3, SlotWithin
    <3>5. b \in held /\ PageRun(b) \cap free = {}
      BY <3>1 DEF SlabHeld, BlocksApart
    <3>6. Links(c) \in 1 .. Links(c)
      BY <3>3, SlotFacts
    <3>7. SlotAt(c, p, Links(c)) \in Nat /\ Base(p) \in Nat
      BY <3>3, <3>6, SlotPlace, BaseFacts DEF Pages
    <3>8. ~Inside(Base(p), o) /\ ~Inside(Base(p) + Word, o) /\ ~Inside(SlotAt(c, p, Links(c)), o)
      <4> HIDE DEF c
      <4> QED BY <2>1, <3>4, <3>7 DEF Inside, Word
    <3>9. ~\E a \in Header(b.page) \cup {Base(b.page) + Links(slab[b.page]) * Slot(slab[b.page])} : Inside(a, o)
      BY <3>8 DEF Header, SlotAt
    <3> QED BY <3>4, <3>5, <3>9 DEF Within
  <2> QED BY <2>1, <2>2, <2>3
<1> QED BY <1>1, <1>2 DEF ObjectsHoused

(***************************************************************************)
(* The steps of kmalloc and kfree                                           *)
(***************************************************************************)
\* A new object in a block that was free meets none that is there.
LEMMA NewBlockApart ==
    ASSUME SlabIInv, NEW b \in [page : Pages, order : Orders], PageRun(b) \subseteq free,
           NEW o \in [addr : Nat, size : Nat], Within(o, b), NEW q \in live
    PROVE  ~Meets(o, q) /\ ~Meets(q, o)
<1> USE DEF SlabIInv
<1>1. PICK d \in held : Within(q, d)
  BY HasBlock
<1>2. d \in [page : Pages, order : Orders] /\ q \in [addr : Nat, size : Nat]
  BY SlabAssumption DEF SlabTypes
<1>3. PageRun(b) \cap PageRun(d) = {}
  BY <1>1 DEF BlocksApart
<1> QED BY <1>1, <1>2, <1>3, ApartBlocks

\* The next slot of the page in use meets no object: those of the page lie before it.
LEMMA NewSlotApart ==
    ASSUME SlabIInv, NEW c \in Usable, NEW p \in Pages, NEW i \in 1 .. Links(c) - 1,
           cpu[c] = [page |-> p, freeobj |-> SlotAt(c, p, i)], slab[p] = c,
           NEW o \in [addr : Nat, size : Nat], o.addr = SlotAt(c, p, i), o.size <= CacheSizes[c],
           NEW q \in live
    PROVE  ~Meets(o, q) /\ ~Meets(q, o)
<1> USE DEF SlabIInv
<1> DEFINE b == [page |-> p, order |-> 0]
<1>0. c # None
  BY CacheNumbers DEF Usable
<1>1. b \in held /\ b \in [page : Pages, order : Orders] /\ Within(o, b)
  BY <1>0, SlotWithin DEF SlabHeld, SlabTypes
<1>2. PICK d \in held : /\ Within(q, d)
                        /\ q.size <= Largest => slab[d.page] # None /\ d.order = 0
                        /\ q.size > Largest => d.order # 0
  BY HasBlock
<1>3. d \in [page : Pages, order : Orders] /\ q \in [addr : Nat, size : Nat]
  BY SlabAssumption DEF SlabTypes
<1>4. CASE d # b
  <2>1. PageRun(b) \cap PageRun(d) = {}
    BY <1>1, <1>4 DEF BlocksApart
  <2> QED BY <1>1, <1>2, <1>3, <2>1, ApartBlocks
<1>5. CASE d = b
  <2>1. d.order = 0
    BY <1>5
  <2>2. Largest \in Nat
    BY SlabAssumption DEF Largest
  <2>3. q.size <= Largest
    BY <1>2, <1>3, <2>1, <2>2
  <2>4. PICK r \in Pages : slab[r] # None /\ \E j \in 1 .. Links(slab[r]) - 1 :
            /\ q.addr = SlotAt(slab[r], r, j) /\ q.size <= CacheSizes[slab[r]]
            /\ cpu[slab[r]].page = r => q.addr < cpu[slab[r]].freeobj
    BY <2>3 DEF Placed, Slotted
  <2>5. PICK j \in 1 .. Links(slab[r]) - 1 :
            /\ q.addr = SlotAt(slab[r], r, j) /\ q.size <= CacheSizes[slab[r]]
            /\ cpu[slab[r]].page = r => q.addr < cpu[slab[r]].freeobj
    BY <2>4
  <2>6. slab[r] \in Usable
    BY <2>4 DEF SlabTypes
  <2>7. CASE r = p
    <3>1. SlotAt(c, p, j) < SlotAt(c, p, i) /\ q.addr = SlotAt(c, p, j) /\ q.size <= CacheSizes[c] /\ j \in 1 .. Links(c) - 1
      BY <2>5, <2>7
    <3>2. Links(c) \in Nat /\ i \in 1 .. Links(c) /\ j \in 1 .. Links(c) /\ j + 1 \in 1 .. Links(c) /\ Slot(c) \in Nat
      BY <3>1, SlotFacts
    <3>3. SlotAt(c, p, i) \in Nat /\ SlotAt(c, p, j) \in Nat /\ SlotAt(c, p, j + 1) \in Nat
      BY <3>2, SlotPlace
    <3>4. ~(i < j) /\ i # j
      BY <3>1, <3>2, <3>3, SlotOrder
    <3>5. SlotAt(c, p, j + 1) <= SlotAt(c, p, i)
      <4>1. CASE j + 1 = i
        BY <3>3, <4>1
      <4>2. CASE j + 1 < i
        BY <3>2, <3>3, <4>2, SlotOrder
      <4> QED BY <3>2, <3>4, <4>1, <4>2
    <3>6. q.addr + q.size < SlotAt(c, p, j + 1)
      BY <1>3, <3>1, SlotWithin
    <3>7. q.addr \in Nat /\ q.size \in Nat /\ o.addr \in Nat /\ o.size \in Nat
      BY <1>3
    <3> QED BY <3>3, <3>5, <3>6, <3>7 DEF Meets
  <2>8. CASE r # p
    <3> DEFINE e == [page |-> r, order |-> 0]
    <3>1. e \in held /\ e \in [page : Pages, order : Orders]
      BY <2>4 DEF SlabHeld, SlabTypes
    <3>2. Within(q, e)
      BY <1>3, <2>5, <2>6, SlotWithin
    <3>3. e # b
      BY <2>8
    <3>4. PageRun(b) \cap PageRun(e) = {}
      BY <1>1, <3>1, <3>3 DEF BlocksApart
    <3> HIDE DEF e, b
    <3> QED BY <1>1, <1>3, <3>1, <3>2, <3>4, ApartBlocks
  <2> QED BY <2>7, <2>8
<1> QED BY <1>4, <1>5

\* slab_alloc, whether the page is the one in use or a new one: slot i is handed out.
Ready(c, p, i) ==
    \/ /\ cpu[c] = [page |-> p, freeobj |-> SlotAt(c, p, i)]
       /\ slab[p] = c /\ nr_objs[p] = i - 1
       /\ UNCHANGED <<free, held, slab>>
    \/ i = 1 /\ TakePage(c, p)

\* What both cases have in common.
LEMMA ReadyFacts ==
    ASSUME SlabIInv, NEW c \in Usable, NEW p \in Pages, NEW i \in 1 .. Links(c) - 1, Ready(c, p, i)
    PROVE  /\ slab' \in [Pages -> Usable \cup {None}] /\ slab'[p] = c
           /\ \A r \in Pages \ {p} : slab'[r] = slab[r]
           /\ slab[p] = None \/ slab[p] = c
           /\ cpu[c] = NoPage \/ cpu[c].page = p
           /\ cpu[c] # NoPage => cpu[c].freeobj = SlotAt(c, p, i) /\ slab[p] = c
           /\ cpu[c] = NoPage => slab[p] = None
           /\ held \subseteq held' /\ [page |-> p, order |-> 0] \in held'
           /\ free' \subseteq Pages /\ held' \subseteq [page : Pages, order : Orders]
           /\ BlocksApart'
<1> USE DEF SlabIInv
<1> DEFINE b == [page |-> p, order |-> 0]
<1>0. c # None /\ c \in Caches /\ p # None
  BY CacheNumbers DEF Usable, Pages, None
<1>1. CASE /\ cpu[c] = [page |-> p, freeobj |-> SlotAt(c, p, i)]
           /\ slab[p] = c /\ nr_objs[p] = i - 1
           /\ UNCHANGED <<free, held, slab>>
  <2>1. cpu[c].page = p /\ cpu[c].freeobj = SlotAt(c, p, i) /\ cpu[c] # NoPage
    BY <1>0, <1>1 DEF NoPage
  <2>2. b \in held
    BY <1>0, <1>1 DEF SlabHeld
  <2>3. BlocksApart'
    BY <1>1 DEF BlocksApart, PageRun
  <2> QED BY <1>1, <2>1, <2>2, <2>3 DEF SlabTypes
<1>2. CASE i = 1 /\ TakePage(c, p)
  <2>1. /\ cpu[c] = NoPage /\ p \in free /\ free' = free \ {p}
        /\ held' = held \cup {b} /\ slab' = [slab EXCEPT ![p] = c]
    BY <1>2 DEF TakePage
  <2>2. PageRun(b) = {p} /\ PageRun(b)' = {p}
    BY SlabAssumption DEF PageRun, Pages
  <2>3. b \notin held
    BY <2>1, <2>2 DEF BlocksApart
  <2>4. slab[p] = None
    BY <2>3 DEF SlabHeld
  <2>5. b \in [page : Pages, order : Orders]
    BY SlabAssumption DEF Orders
  <2>6. BlocksApart'
    <3>1. \A d \in held : PageRun(d)' = PageRun(d)
      BY DEF PageRun
    <3>2. \A d \in held : PageRun(d) \subseteq Pages \ free' /\ PageRun(d) \cap {p} = {}
      BY <2>1 DEF BlocksApart
    <3>3. {p} \subseteq Pages \ free'
      BY <2>1
    <3> HIDE DEF b
    <3> QED BY <2>1, <2>2, <3>1, <3>2, <3>3 DEF BlocksApart
  <2>7. slab' \in [Pages -> Usable \cup {None}] /\ slab'[p] = c /\ \A r \in Pages \ {p} : slab'[r] = slab[r]
    BY <2>1 DEF SlabTypes
  <2> QED BY <2>1, <2>4, <2>5, <2>6, <2>7 DEF SlabTypes
<1> QED BY <1>1, <1>2 DEF Ready

\* Handing out a slot keeps the invariant.
LEMMA HandOutStep ==
    ASSUME SlabIInv, NEW c \in Usable, NEW p \in Pages, NEW i \in 1 .. Links(c) - 1, Ready(c, p, i),
           NEW size \in Sizes, size <= CacheSizes[c], size <= Largest,
           HandOut(c, p, SlotAt(c, p, i), i - 1, size), halted' = halted
    PROVE  SlabIInv'
<1> DEFINE a == SlotAt(c, p, i)
           o == [addr |-> a, size |-> size]
           b == [page |-> p, order |-> 0]
<1>1. /\ slab' \in [Pages -> Usable \cup {None}] /\ slab'[p] = c
      /\ \A r \in Pages \ {p} : slab'[r] = slab[r]
      /\ slab[p] = None \/ slab[p] = c
      /\ cpu[c] = NoPage \/ cpu[c].page = p
      /\ cpu[c] # NoPage => cpu[c].freeobj = a /\ slab[p] = c
      /\ cpu[c] = NoPage => slab[p] = None
      /\ held \subseteq held' /\ b \in held'
      /\ free' \subseteq Pages /\ held' \subseteq [page : Pages, order : Orders]
      /\ BlocksApart'
  BY ReadyFacts
<1>2. /\ c \in Caches /\ c # None /\ p # None /\ p \in Nat /\ i \in Nat /\ Links(c) \in Nat /\ i \in 1 .. Links(c)
      /\ i + 1 \in 1 .. Links(c) /\ Slot(c) \in Nat /\ Slot(c) >= 8 /\ Largest \in Nat
  <2>1. Largest \in Nat
    BY SlabAssumption DEF Largest
  <2> QED BY <2>1, SlotFacts, CacheNumbers DEF Pages, None
<1>3. /\ a \in Nat /\ SlotAt(c, p, i + 1) = a + Slot(c) /\ a + Slot(c) \in Nat \ {0}
      /\ LinkWord(a + Slot(c), c) = 0 <=> i + 1 = Links(c)
  <2>1. a \in Nat /\ SlotAt(c, p, i + 1) = a + Slot(c)
    BY <1>2, SlotPlace
  <2>2. LinkWord(SlotAt(c, p, i + 1), c) = IF i + 1 = Links(c) THEN 0 ELSE SlotAt(c, p, i + 1)
    BY <1>2, SlotPlace
  <2> HIDE DEF a
  <2> QED BY <1>2, <2>1, <2>2
<1>4. /\ nr_objs' = [nr_objs EXCEPT ![p] = i]
      /\ live' = live \cup {o}
      /\ \/ /\ i + 1 = Links(c)
            /\ full' = [full EXCEPT ![c] = @ \cup {p}]
            /\ cpu' = [cpu EXCEPT ![c] = NoPage]
         \/ /\ i + 1 # Links(c)
            /\ cpu' = [cpu EXCEPT ![c] = [page |-> p, freeobj |-> a + Slot(c)]]
            /\ full' = full
  BY <1>2, <1>3 DEF HandOut
<1>5. o \in [addr : Nat, size : Sizes] /\ o \in [addr : Nat, size : Nat] /\ o.size \in Nat
  BY <1>3, SlabAssumption
<1> HIDE DEF a
<1>6. SlabTypes'
  <2>1. full' \in [Caches -> SUBSET Pages]
    BY <1>2, <1>4 DEF SlabIInv, SlabTypes
  <2>2. cpu' \in [Caches -> {NoPage} \cup [page : Pages, freeobj : Nat]]
    BY <1>2, <1>3, <1>4 DEF SlabIInv, SlabTypes
  <2>3. nr_objs' \in [Pages -> Nat]
    BY <1>2, <1>4 DEF SlabIInv, SlabTypes
  <2>4. live' \subseteq [addr : Nat, size : Sizes]
    BY <1>4, <1>5 DEF SlabIInv, SlabTypes
  <2> QED BY <1>1, <2>1, <2>2, <2>3, <2>4 DEF SlabIInv, SlabTypes
<1>7. SlabHeld'
  BY <1>1 DEF SlabIInv, SlabHeld
<1>8. \A d \in Caches \ {c} : cpu'[d] = cpu[d]
  BY <1>4 DEF SlabIInv, SlabTypes
<1>9. \/ i + 1 = Links(c) /\ cpu'[c] = NoPage /\ cpu'[c].page = None
      \/ /\ i + 1 # Links(c) /\ cpu'[c] = [page |-> p, freeobj |-> SlotAt(c, p, i + 1)]
         /\ cpu'[c].page = p /\ cpu'[c].freeobj = a + Slot(c)
  BY <1>2, <1>3, <1>4 DEF SlabIInv, SlabTypes, NoPage
<1>10. Placed'
  <2>1. Slotted(o)'
    <3>1. cpu'[c].page = p => o.addr < cpu'[c].freeobj
      BY <1>2, <1>3, <1>9
    <3>2. slab'[p] # None /\ slab'[p] = c /\ o.addr = SlotAt(c, p, i) /\ o.size <= CacheSizes[c]
      BY <1>1, <1>2 DEF a
    <3> QED BY <3>1, <3>2 DEF Slotted, SlotAt, Base, Slot, Links
  <2>2. ASSUME NEW q \in live, q.size <= Largest PROVE Slotted(q)'
    <3>1. Slotted(q)
      BY <2>2 DEF SlabIInv, Placed
    <3>2. PICK r \in Pages : slab[r] # None /\ \E j \in 1 .. Links(slab[r]) - 1 :
            /\ q.addr = SlotAt(slab[r], r, j) /\ q.size <= CacheSizes[slab[r]]
            /\ cpu[slab[r]].page = r => q.addr < cpu[slab[r]].freeobj
      BY <3>1 DEF Slotted
    <3>3. PICK j \in 1 .. Links(slab[r]) - 1 :
            /\ q.addr = SlotAt(slab[r], r, j) /\ q.size <= CacheSizes[slab[r]]
            /\ cpu[slab[r]].page = r => q.addr < cpu[slab[r]].freeobj
      BY <3>2
    <3>4. slab'[r] = slab[r] /\ slab[r] \in Caches
      BY <1>1, <3>2 DEF SlabIInv, SlabTypes, Usable
    <3>5. cpu'[slab[r]].page = r => q.addr < cpu'[slab[r]].freeobj
      <4>1. CASE slab[r] # c
        BY <1>8, <3>3, <3>4, <4>1
      <4>2. CASE slab[r] = c /\ r = p
        <5>1. q.addr < a /\ q.addr \in Nat
          BY <1>1, <1>2, <3>3, <4>2 DEF SlabIInv, SlabTypes
        <5> QED BY <1>2, <1>3, <1>9, <4>2, <5>1
      <4>3. CASE slab[r] = c /\ r # p
        BY <1>2, <1>9, <4>3 DEF Pages, None
      <4> QED BY <4>1, <4>2, <4>3
    <3> QED BY <3>2, <3>3, <3>4, <3>5 DEF Slotted, SlotAt, Base, Slot, Links
  <2>3. ASSUME NEW q \in live, ~(q.size <= Largest) PROVE Blocked(q)'
    BY <1>1, <2>3 DEF SlabIInv, Placed, Blocked, Base, OrderAsked
  <2> QED BY <1>4, <2>1, <2>2, <2>3 DEF Placed, Largest
<1>11. CpuPlaced'
  <2>1. ASSUME cpu'[c] # NoPage
        PROVE  \E r \in Pages, j \in 2 .. Links(c) - 1 :
                  /\ cpu'[c] = [page |-> r, freeobj |-> SlotAt(c, r, j)]
                  /\ slab'[r] = c /\ nr_objs'[r] = j - 1
    <3>1. i + 1 # Links(c) /\ cpu'[c] = [page |-> p, freeobj |-> SlotAt(c, p, i + 1)]
      BY <1>9, <2>1
    <3>2. nr_objs'[p] = (i + 1) - 1 /\ i + 1 \in 2 .. Links(c) - 1
      BY <1>2, <1>4, <3>1 DEF SlabIInv, SlabTypes
    <3> QED BY <1>1, <3>1, <3>2
  <2>2. ASSUME NEW d \in Caches, d # c, cpu'[d] # NoPage
        PROVE  \E r \in Pages, j \in 2 .. Links(d) - 1 :
                  /\ cpu'[d] = [page |-> r, freeobj |-> SlotAt(d, r, j)]
                  /\ slab'[r] = d /\ nr_objs'[r] = j - 1
    <3>1. cpu[d] # NoPage /\ cpu'[d] = cpu[d]
      BY <1>8, <2>2
    <3>2. PICK r \in Pages, j \in 2 .. Links(d) - 1 :
              /\ cpu[d] = [page |-> r, freeobj |-> SlotAt(d, r, j)]
              /\ slab[r] = d /\ nr_objs[r] = j - 1
      BY <3>1 DEF SlabIInv, CpuPlaced
    <3>3. r # p
      BY <1>1, <2>2, <3>2, CacheNumbers
    <3>4. slab'[r] = d /\ nr_objs'[r] = j - 1
      BY <1>1, <1>4, <3>2, <3>3 DEF SlabIInv, SlabTypes
    <3> QED BY <3>1, <3>2, <3>4
  <2> QED BY <2>1, <2>2 DEF CpuPlaced, SlotAt, Base, Slot, Links
<1>12. ObjectsApart'
  <2>1. ASSUME NEW q \in live PROVE ~Meets(o, q) /\ ~Meets(q, o)
    <3>1. CASE Ready(c, p, i) /\ cpu[c] # NoPage
      <4>1. cpu[c] = [page |-> p, freeobj |-> SlotAt(c, p, i)] /\ slab[p] = c
        BY <3>1 DEF Ready, TakePage
      <4>2. o.addr = SlotAt(c, p, i) /\ o.size <= CacheSizes[c]
        BY DEF a
      <4> HIDE DEF o
      <4> QED BY <1>5, <4>1, <4>2, NewSlotApart
    <3>2. CASE cpu[c] = NoPage
      <4>1. TakePage(c, p)
        BY <1>2, <3>2 DEF Ready, NoPage
      <4>2. PageRun(b) \subseteq free
        BY <1>2, <4>1, SlabAssumption DEF TakePage, PageRun
      <4>3. b \in [page : Pages, order : Orders]
        BY SlabAssumption DEF Orders
      <4>4. Within(o, b)
        BY <1>5, SlotWithin DEF a
      <4> HIDE DEF o, b
      <4> QED BY <1>5, <4>2, <4>3, <4>4, NewBlockApart
    <3> QED BY <3>1, <3>2
  <2>2. \A q, r \in live : q # r => ~Meets(q, r)
    BY DEF SlabIInv, ObjectsApart
  <2> HIDE DEF o
  <2> QED BY <1>4, <2>1, <2>2 DEF ObjectsApart, Meets
<1>13. FullIsFull'
  <2>1. p \notin full[c] /\ \A d \in Caches \ {c} : p \notin full[d]
    BY <1>1, <1>2, CacheNumbers DEF SlabIInv, FullIsFull
  <2>2. nr_objs'[p] = i /\ \A r \in Pages \ {p} : nr_objs'[r] = nr_objs[r]
    BY <1>4 DEF SlabIInv, SlabTypes
  <2>3. \A d \in Caches \ {c} : full'[d] = full[d]
    BY <1>4 DEF SlabIInv, SlabTypes
  <2>4. \/ i + 1 = Links(c) /\ full'[c] = full[c] \cup {p}
        \/ i + 1 # Links(c) /\ full'[c] = full[c]
    BY <1>2, <1>4 DEF SlabIInv, SlabTypes
  <2>5. ASSUME NEW d \in Caches, NEW r \in Pages
        PROVE  /\ r \in full'[d] <=> slab'[r] = d /\ nr_objs'[r] = Links(d) - 1 /\ cpu'[d].page # r
               /\ slab'[r] = d => r \in full'[d] \/ cpu'[d].page = r
    <3>1. /\ r \in full[d] <=> slab[r] = d /\ nr_objs[r] = Links(d) - 1 /\ cpu[d].page # r
          /\ slab[r] = d => r \in full[d] \/ cpu[d].page = r
      BY DEF SlabIInv, FullIsFull
    <3>2. CASE r = p /\ d = c
      <4>1. CASE i + 1 = Links(c)
        BY <1>1, <1>2, <1>9, <2>2, <2>4, <3>2, <4>1
      <4>2. CASE i + 1 # Links(c)
        BY <1>1, <1>2, <1>9, <2>1, <2>2, <2>4, <3>2, <4>2
      <4> QED BY <4>1, <4>2
    <3>3. CASE r = p /\ d # c
      BY <1>1, <2>1, <2>3, <3>3
    <3>4. CASE r # p /\ d # c
      BY <1>1, <1>8, <2>2, <2>3, <3>1, <3>4
    <3>5. CASE r # p /\ d = c
      <4>1. cpu'[c].page # r
        BY <1>2, <1>9, <3>5 DEF Pages, None
      <4>2. cpu[c].page # r
        BY <1>1, <3>5 DEF NoPage, Pages, None
      <4>3. r \in full'[c] <=> r \in full[c]
        BY <2>4, <3>5
      <4> QED BY <1>1, <2>2, <3>1, <3>5, <4>1, <4>2, <4>3
    <3> QED BY <3>2, <3>3, <3>4, <3>5
  <2> QED BY <2>5 DEF FullIsFull, Links, Slot
<1> QED BY <1>1, <1>6, <1>7, <1>10, <1>11, <1>12, <1>13 DEF SlabIInv

\* slab_alloc, from the page in use and from a new one.
LEMMA FromSlabStep ==
    ASSUME SlabIInv, NEW size \in Sizes, FromSlab(size) PROVE SlabIInv'
<1> DEFINE c == BestFit(size)
<1>1. size \in Nat /\ c # None /\ size <= Largest
  BY SlabAssumption DEF FromSlab
<1>2. c \in Usable /\ size <= CacheSizes[c]
  BY <1>1, BestFits
<1>3. FromCpuPage(c, size) \/ \E p \in Pages : FromNewPage(c, p, size)
  BY DEF FromSlab
<1> HIDE DEF c
<1>4. CASE FromCpuPage(c, size)
  <2>1. c \in Caches /\ cpu[c] # NoPage
    BY <1>2, <1>4 DEF FromCpuPage, Usable
  <2>2. PICK p \in Pages, i \in 2 .. Links(c) - 1 :
            /\ cpu[c] = [page |-> p, freeobj |-> SlotAt(c, p, i)]
            /\ slab[p] = c /\ nr_objs[p] = i - 1
    BY <2>1 DEF SlabIInv, CpuPlaced
  <2>3. i \in 1 .. Links(c) - 1
    BY <1>2, SlotFacts
  <2>4. Ready(c, p, i) /\ HandOut(c, p, SlotAt(c, p, i), i - 1, size) /\ halted' = halted
    BY <1>4, <2>2 DEF FromCpuPage, Ready
  <2> QED BY <1>1, <1>2, <2>3, <2>4, HandOutStep
<1>5. ASSUME NEW p \in Pages, FromNewPage(c, p, size) PROVE SlabIInv'
  <2>1. 1 \in 1 .. Links(c) - 1
    BY <1>2, SlotFacts
  <2>2. SlotAt(c, p, 1) = Base(p) + Slot(c)
    BY <1>2, SlotFacts DEF SlotAt
  <2>3. Ready(c, p, 1) /\ HandOut(c, p, SlotAt(c, p, 1), 1 - 1, size) /\ halted' = halted
    BY <1>5, <2>2 DEF FromNewPage, Ready
  <2> QED BY <1>1, <1>2, <2>1, <2>3, HandOutStep
<1> QED BY <1>3, <1>4, <1>5

\* alloc_pages: the block was free, so no object lies in it.
LEMMA FromBuddyStep ==
    ASSUME SlabIInv, NEW size \in Sizes, FromBuddy(size) PROVE SlabIInv'
<1> DEFINE k == OrderAsked(size)
<1>1. PICK b \in AlignedRuns(k) :
        /\ free' = free \ PageRun(b)
        /\ held' = held \cup {b}
        /\ live' = live \cup {[addr |-> Base(b.page), size |-> size]}
  BY DEF FromBuddy
<1>2. size > Largest /\ k <= MaxOrder /\ UNCHANGED <<slab, nr_objs, cpu, full, halted>>
  BY DEF FromBuddy
<1> DEFINE o == [addr |-> Base(b.page), size |-> size]
<1>3. size \in Nat \ {0} /\ Largest \in Nat
  <2>1. Largest \in Nat
    BY SlabAssumption DEF Largest
  <2> QED BY <2>1, SlabAssumption
<1>4. k \in Orders /\ k # 0
  BY <1>2, <1>3, OrderFacts, SlabAssumption DEF Orders
<1>5. b \in [page : Pages, order : Orders] /\ b.order = k /\ PageRun(b) \subseteq free
  BY <1>4 DEF AlignedRuns
<1>6. PageRun(b) # {} /\ b \notin held
  <2>1. BlockSize[b.order] \in Nat \ {0} /\ b.page \in Nat
    BY <1>5, BlockFacts DEF Pages
  <2>2. b.page \in PageRun(b)
    BY <2>1 DEF PageRun
  <2> QED BY <1>5, <2>2 DEF SlabIInv, BlocksApart
<1>7. o \in [addr : Nat, size : Sizes] /\ o \in [addr : Nat, size : Nat]
  BY <1>3, <1>5, BaseFacts DEF Pages
<1>8. SlabTypes'
  BY <1>1, <1>2, <1>5, <1>7 DEF SlabIInv, SlabTypes
<1>9. BlocksApart'
  <2>1. \A d \in held : PageRun(d) \subseteq Pages \ free' /\ PageRun(d) \cap PageRun(b) = {}
    BY <1>1, <1>5 DEF SlabIInv, BlocksApart
  <2>2. PageRun(b) \subseteq Pages \ free'
    BY <1>1, <1>5 DEF SlabIInv, SlabTypes
  <2>3. \A d : PageRun(d)' = PageRun(d)
    BY DEF PageRun
  <2>4. \A d, e \in held : d # e => PageRun(d) \cap PageRun(e) = {}
    BY DEF SlabIInv, BlocksApart
  <2> QED BY <1>1, <2>1, <2>2, <2>3, <2>4 DEF BlocksApart
<1>10. SlabHeld'
  BY <1>1, <1>2 DEF SlabIInv, SlabHeld
<1>11. Placed'
  <2>1. Blocked(o)' /\ ~(o.size <= Largest)
    BY <1>1, <1>2, <1>3, <1>5 DEF Blocked, Base, OrderAsked
  <2>2. ASSUME NEW q \in live, q.size <= Largest PROVE Slotted(q)'
    BY <1>2, <2>2 DEF SlabIInv, Placed, Slotted, SlotAt, Base, Slot, Links
  <2>3. ASSUME NEW q \in live, ~(q.size <= Largest) PROVE Blocked(q)'
    BY <1>1, <2>3 DEF SlabIInv, Placed, Blocked, Base, OrderAsked
  <2> HIDE DEF o
  <2> QED BY <1>1, <2>1, <2>2, <2>3 DEF Placed, Largest, o
<1>12. CpuPlaced'
  BY <1>2 DEF SlabIInv, CpuPlaced, SlotAt, Base, Slot, Links
<1>13. FullIsFull'
  BY <1>2 DEF SlabIInv, FullIsFull, Slot, Links
<1>14. ObjectsApart'
  <2>1. Within(o, b)
    <3> DEFINE n == BlockSize[k]
    <3>1. n \in Nat /\ k <= n /\ k \in Nat /\ b.page \in Nat /\ size <= k * PageSize /\ PageSize \in Nat
      BY <1>3, <1>4, <1>5, BlockFacts, OrderFacts, SlabAssumption DEF Pages
    <3> HIDE DEF n, k
    <3>2. k * PageSize <= n * PageSize
      BY <3>1, Monotone
    <3>3. (b.page + n) * PageSize = b.page * PageSize + n * PageSize
          /\ k * PageSize \in Nat /\ n * PageSize \in Nat /\ b.page * PageSize \in Nat
      BY <3>1, Z3
    <3>4. b.page * PageSize + size <= (b.page + n) * PageSize
      BY <1>3, <3>1, <3>2, <3>3
    <3> QED BY <1>5, <3>3, <3>4 DEF Within, Base, n
  <2> HIDE DEF o
  <2>2. ASSUME NEW q \in live PROVE ~Meets(o, q) /\ ~Meets(q, o)
    BY <1>5, <1>7, <2>1, NewBlockApart
  <2>3. \A q, r \in live : q # r => ~Meets(q, r)
    BY DEF SlabIInv, ObjectsApart
  <2> QED BY <1>1, <2>2, <2>3 DEF ObjectsApart, Meets, o
<1> QED BY <1>8, <1>9, <1>10, <1>11, <1>12, <1>13, <1>14 DEF SlabIInv

\* kfree of a block of pages: its object is the only one in it.
LEMMA KfreeStep ==
    ASSUME SlabIInv, NEW o \in live, o.size > Largest, Kfree(o) PROVE SlabIInv'
<1>1. PICK b \in held : b.page = PageOf(o.addr) /\ free' = free \cup PageRun(b) /\ held' = held \ {b}
  BY DEF Kfree
<1>2. live' = live \ {o} /\ UNCHANGED <<slab, nr_objs, cpu, full, halted>>
  BY DEF Kfree
<1>3. o \in [addr : Nat, size : Nat] /\ o.size \in Nat \ {0} /\ Largest \in Nat
  <2>1. Largest \in Nat
    BY SlabAssumption DEF Largest
  <2> QED BY <2>1, SlabAssumption DEF SlabIInv, SlabTypes
<1>4. PICK d \in held : d.order # 0 /\ o.addr = Base(d.page)
  BY HasBlock DEF SlabIInv
<1>5. /\ b \in [page : Pages, order : Orders] /\ d \in [page : Pages, order : Orders]
      /\ b.page \in Nat /\ d.page \in Nat
      /\ \A e \in held : e.page \in PageRun(e)
  <2>1. ASSUME NEW e \in held PROVE e.page \in PageRun(e) /\ e \in [page : Pages, order : Orders]
    <3>1. e \in [page : Pages, order : Orders]
      BY DEF SlabIInv, SlabTypes
    <3>2. BlockSize[e.order] \in Nat \ {0} /\ e.page \in Nat
      BY <3>1, BlockFacts DEF Pages
    <3> QED BY <3>1, <3>2 DEF PageRun
  <2> QED BY <2>1 DEF Pages
<1>6. b.page = d.page
  <2>1. PageSize \in Nat \ {0}
    BY SlabAssumption
  <2> DEFINE p == d.page
  <2>2. p \in Nat
    BY <1>5
  <2> HIDE DEF p
  <2>3. (p * PageSize + 0) \div PageSize = p
    BY <2>1, <2>2, QuotientIs
  <2>4. p * PageSize \in Nat
    BY <2>1, <2>2, Z3
  <2>5. (p * PageSize) \div PageSize = p
    BY <2>3, <2>4
  <2> QED BY <1>1, <1>4, <2>5 DEF PageOf, Base, p
<1>7. b = d
  BY <1>5, <1>6 DEF SlabIInv, BlocksApart
<1>8. SlabTypes'
  BY <1>1, <1>2, <1>7 DEF SlabIInv, SlabTypes, BlocksApart
<1>9. BlocksApart'
  <2>1. \A e \in held : e # b => PageRun(e) \cap PageRun(b) = {} /\ PageRun(e) \subseteq Pages \ free
    BY DEF SlabIInv, BlocksApart
  <2>2. \A e : PageRun(e)' = PageRun(e)
    BY DEF PageRun
  <2>3. \A e, f \in held : e # f => PageRun(e) \cap PageRun(f) = {}
    BY DEF SlabIInv, BlocksApart
  <2> QED BY <1>1, <2>1, <2>2, <2>3 DEF BlocksApart
<1>10. SlabHeld'
  BY <1>1, <1>2, <1>4, <1>7 DEF SlabIInv, SlabHeld
<1>11. Placed'
  <2>1. ASSUME NEW q \in live, q.size <= Largest PROVE Slotted(q)'
    BY <1>2, <2>1 DEF SlabIInv, Placed, Slotted, SlotAt, Base, Slot, Links
  <2>2. ASSUME NEW q \in live, q # o, ~(q.size <= Largest) PROVE Blocked(q)'
    <3>1. PICK e \in held : e.order = OrderAsked(q.size) /\ q.addr = Base(e.page)
      BY <2>2 DEF SlabIInv, Placed, Blocked
    <3>2. q.addr \in Nat /\ q.size \in Nat \ {0}
      BY SlabAssumption DEF SlabIInv, SlabTypes
    <3>3. q.addr # o.addr
      BY <1>3, <2>2, <3>2 DEF SlabIInv, ObjectsApart, Meets
    <3>4. e # b
      BY <1>4, <1>7, <3>1, <3>3
    <3> QED BY <1>1, <3>1, <3>4 DEF Blocked, Base, OrderAsked
  <2> QED BY <1>2, <2>1, <2>2 DEF Placed, Largest
<1>12. CpuPlaced'
  BY <1>2 DEF SlabIInv, CpuPlaced, SlotAt, Base, Slot, Links
<1>13. FullIsFull'
  BY <1>2 DEF SlabIInv, FullIsFull, Slot, Links
<1>14. ObjectsApart'
  BY <1>2 DEF SlabIInv, ObjectsApart, Meets
<1> QED BY <1>8, <1>9, <1>10, <1>11, <1>12, <1>13, <1>14 DEF SlabIInv

\* A step that leaves everything but the words in memory and the halt alone.
LEMMA QuietStep ==
    ASSUME SlabIInv, UNCHANGED <<free, held, slab, nr_objs, cpu, full, live>>, halted' \in Sizes \cup {0}
    PROVE  SlabIInv'
<1>1. SlabTypes' /\ BlocksApart' /\ SlabHeld'
  BY DEF SlabIInv, SlabTypes, BlocksApart, SlabHeld, PageRun
<1>2. Placed'
  BY DEF SlabIInv, Placed, Slotted, Blocked, SlotAt, Base, Slot, Links, OrderAsked, Largest
<1>3. CpuPlaced'
  BY DEF SlabIInv, CpuPlaced, SlotAt, Base, Slot, Links
<1>4. FullIsFull' /\ ObjectsApart'
  BY DEF SlabIInv, FullIsFull, Slot, Links, ObjectsApart, Meets
<1> QED BY <1>1, <1>2, <1>3, <1>4 DEF SlabIInv

\* Every call of kmalloc and kfree, and exec's loading, keeps the invariant.
LEMMA CallStep ==
    ASSUME SlabIInv, SafeCall PROVE SlabIInv'
<1>1. ASSUME NEW size \in Sizes, Halt(size) PROVE SlabIInv'
  BY <1>1, QuietStep DEF Halt
<1>2. ASSUME NEW o \in live, NEW n \in FileSizes, ExecLoad(o, n) PROVE SlabIInv'
  <2>1. halted' \in Sizes \cup {0} /\ UNCHANGED <<free, held, slab, nr_objs, cpu, full, live>>
    BY <1>2 DEF ExecLoad, SlabIInv, SlabTypes
  <2> QED BY <2>1, QuietStep
<1> QED BY <1>1, <1>2, FromSlabStep, FromBuddyStep, KfreeStep DEF SafeCall

(***************************************************************************)
(* The words in memory                                                      *)
(***************************************************************************)
\* The words of a page are in it; an address is in one page.
LEMMA WordsPlace ==
    ASSUME NEW c \in Usable, NEW p \in Pages, NEW a \in PageWords(c, p)
    PROVE  a \in Nat /\ Base(p) <= a /\ a < Base(p + 1)
<1>1. Base(p) \in Nat /\ Base(p + 1) = Base(p) + PageSize
  BY BaseFacts DEF Pages
<1>2. PageSize \in Nat /\ PageSize >= 8
  BY SlabAssumption
<1>3. CASE a \in Header(p)
  BY <1>1, <1>2, <1>3 DEF Header, Word
<1>4. CASE a \in Words(c, p)
  <2>1. PICK i \in 1 .. Links(c) : a = SlotAt(c, p, i)
    BY <1>4 DEF Words, SlotAt
  <2>2. a \in Nat /\ Base(p) + 8 <= a /\ a < Base(p + 1)
    BY <2>1, SlotPlace
  <2> QED BY <1>1, <2>2
<1> QED BY <1>3, <1>4 DEF PageWords
LEMMA OnePage ==
    ASSUME NEW p \in Nat, NEW n \in Nat \ {0}, NEW r \in Nat, NEW a \in Nat,
           Base(p) <= a, a < Base(p + n), Base(r) <= a, a < Base(r + 1)
    PROVE  r \in p .. p + n - 1
<1>1. Base(p) \in Nat /\ Base(p + n) \in Nat /\ Base(r) \in Nat /\ Base(r + 1) \in Nat
  <2>1. p + n \in Nat /\ r + 1 \in Nat
    OBVIOUS
  <2> QED BY <2>1, BaseFacts
<1>2. ~(r + 1 <= p)
  <2>1. r + 1 <= p => Base(r + 1) <= Base(p)
    BY BaseOrder
  <2> QED BY <1>1, <2>1
<1>3. ~(p + n <= r)
  <2>1. p + n <= r => Base(p + n) <= Base(r)
    BY BaseOrder
  <2> QED BY <1>1, <2>1
<1> QED BY <1>2, <1>3

\* What is written inside a block of pages that is no slab's meets no slab's words.
LEMMA BlockWrites ==
    ASSUME SlabIInv, NEW p \in Nat, NEW n \in Nat \ {0},
           \A r \in p .. p + n - 1 : r \in Pages => slab[r] = None,
           NEW size \in Nat, Base(p) + size <= Base(p + n)
    PROVE  Written([addr |-> Base(p), size |-> size]) = {}
<1> DEFINE o == [addr |-> Base(p), size |-> size]
<1> SUFFICES ASSUME NEW r \in Pages, slab[r] # None, NEW a \in PageWords(slab[r], r), Inside(a, o)
             PROVE  FALSE
  BY DEF Written
<1>1. slab[r] \in Usable
  BY DEF SlabIInv, SlabTypes
<1>2. a \in Nat /\ Base(r) <= a /\ a < Base(r + 1)
  BY <1>1, WordsPlace
<1>3. Base(p) <= a /\ a < Base(p) + size
  BY DEF Inside
<1>4. Base(p) \in Nat /\ Base(p + n) \in Nat /\ r \in Nat
  <2>1. p + n \in Nat
    OBVIOUS
  <2> QED BY <2>1, BaseFacts DEF Pages
<1>5. a < Base(p + n)
  BY <1>2, <1>3, <1>4
<1>6. r \in p .. p + n - 1
  BY <1>2, <1>3, <1>4, <1>5, OnePage
<1> QED BY <1>6

\* What is written inside an object in a slot is behind the header and before the
\* next slot's word.
LEMMA SlotWrites ==
    ASSUME SlabIInv, NEW c \in Usable, NEW p \in Pages, NEW i \in 1 .. Links(c) - 1,
           NEW size \in Nat, size <= CacheSizes[c],
           NEW a \in Written([addr |-> SlotAt(c, p, i), size |-> size])
    PROVE  a \in Nat /\ Base(p) + 8 <= a /\ a < SlotAt(c, p, i + 1) /\ a < Base(p + 1)
<1> DEFINE o == [addr |-> SlotAt(c, p, i), size |-> size]
<1>1. PICK r \in Pages : slab[r] # None /\ a \in PageWords(slab[r], r) /\ Inside(a, o)
  BY DEF Written
<1>2. slab[r] \in Usable
  BY <1>1 DEF SlabIInv, SlabTypes
<1>3. a \in Nat
  BY <1>1, <1>2, WordsPlace
<1>4. Base(p) + 8 <= o.addr /\ o.addr + o.size < SlotAt(c, p, i + 1)
  BY SlotWithin
<1>5. i \in 1 .. Links(c) /\ i + 1 \in 1 .. Links(c)
  BY SlotFacts
<1>6. SlotAt(c, p, i) \in Nat /\ SlotAt(c, p, i + 1) \in Nat /\ SlotAt(c, p, i + 1) < Base(p + 1)
      /\ Base(p) \in Nat /\ Base(p + 1) \in Nat
  <2>1. p \in Nat /\ p + 1 \in Nat
    BY DEF Pages
  <2> QED BY <1>5, <2>1, SlotPlace, BaseFacts
<1>7. o.addr <= a /\ a < o.addr + o.size
  BY <1>1 DEF Inside
<1> QED BY <1>3, <1>4, <1>6, <1>7

\* Handing out a slot keeps the words that are left in the page in use.
LEMMA HandOutWords ==
    ASSUME SlabIInv, WordsKept, NEW c \in Usable, NEW p \in Pages, NEW i \in 1 .. Links(c) - 1,
           Ready(c, p, i), NEW size \in Nat, HandOut(c, p, SlotAt(c, p, i), i - 1, size),
           \A a \in junk' : \/ a \in junk /\ (cpu[c] = NoPage => a \notin PageWords(c, p))
                            \/ /\ a \in Nat /\ Base(p) + 8 <= a
                               /\ a < SlotAt(c, p, i + 1) /\ a < Base(p + 1)
    PROVE  WordsKept'
<1>1. /\ slab[p] = None \/ slab[p] = c
      /\ cpu[c] = NoPage \/ cpu[c].page = p
      /\ cpu[c] # NoPage => cpu[c].freeobj = SlotAt(c, p, i) /\ slab[p] = c
      /\ cpu[c] = NoPage => slab[p] = None
  BY ReadyFacts
<1>2. /\ c \in Caches /\ c # None /\ Links(c) \in Nat /\ i \in 1 .. Links(c) /\ i + 1 \in 1 .. Links(c)
      /\ p \in Nat /\ Slot(c) \in Nat
  BY SlotFacts, CacheNumbers DEF Pages
<1>3. SlotAt(c, p, i) \in Nat /\ SlotAt(c, p, i + 1) \in Nat /\ SlotAt(c, p, i + 1) = SlotAt(c, p, i) + Slot(c)
      /\ Base(p) \in Nat /\ Base(p + 1) \in Nat
  <2>1. p + 1 \in Nat
    BY <1>2
  <2> QED BY <1>2, <2>1, SlotPlace, BaseFacts
<1>4. cpu'[c] # NoPage => cpu'[c] = [page |-> p, freeobj |-> SlotAt(c, p, i + 1)]
  BY <1>2, <1>3 DEF HandOut, SlabIInv, SlabTypes
<1>5. \A d \in Caches \ {c} : cpu'[d] = cpu[d]
  BY DEF HandOut, SlabIInv, SlabTypes
<1>6. ASSUME cpu'[c] # NoPage
      PROVE  /\ \A a \in Words(c, p) : a >= SlotAt(c, p, i + 1) => a \notin junk'
             /\ Header(p) \cap junk' = {}
  <2>1. ASSUME NEW a \in Words(c, p), a >= SlotAt(c, p, i + 1) PROVE a \notin junk'
    <3>1. a \in PageWords(c, p) /\ a \in Nat
      BY WordsPlace DEF PageWords
    <3>2. cpu[c] # NoPage => a \notin junk
      BY <1>1, <1>2, <1>3, <2>1, <3>1 DEF WordsKept
    <3> QED BY <1>3, <2>1, <3>1, <3>2
  <2>2. ASSUME NEW a \in Header(p) PROVE a \notin junk'
    <3>1. a \in PageWords(c, p) /\ a \in Nat /\ a < Base(p) + 8
      BY <1>3 DEF PageWords, Header, Word
    <3>2. cpu[c] # NoPage => a \notin junk
      BY <1>1, <1>2 DEF WordsKept
    <3> QED BY <1>3, <3>1, <3>2
  <2> QED BY <2>1, <2>2
<1>7. ASSUME NEW d \in Caches, d # c, cpu'[d] # NoPage
      PROVE  /\ \A a \in Words(d, cpu[d].page) : a >= cpu[d].freeobj => a \notin junk'
             /\ Header(cpu[d].page) \cap junk' = {}
  <2>1. cpu[d] # NoPage
    BY <1>5, <1>7
  <2>2. PICK r \in Pages : cpu[d].page = r /\ slab[r] = d
    <3>1. PICK r \in Pages, j \in 2 .. Links(d) - 1 :
              /\ cpu[d] = [page |-> r, freeobj |-> SlotAt(d, r, j)]
              /\ slab[r] = d /\ nr_objs[r] = j - 1
      BY <2>1 DEF SlabIInv, CpuPlaced
    <3> QED BY <3>1
  <2>3. r # p /\ d \in Usable
    BY <1>1, <1>7, <2>2, CacheNumbers DEF SlabIInv, SlabTypes
  <2>4. ASSUME NEW a \in PageWords(d, r), a \in junk' PROVE a \in junk
    <3>1. a \in Nat /\ Base(r) <= a /\ a < Base(r + 1)
      BY <2>3, WordsPlace
    <3>2. ASSUME Base(p) + 8 <= a, a < Base(p + 1) PROVE FALSE
      <4>1. Base(p) <= a
        BY <1>3, <3>1, <3>2
      <4>2. r \in p .. p + 1 - 1
        BY <1>2, <3>1, <3>2, <4>1, OnePage DEF Pages
      <4> QED BY <1>2, <2>3, <4>2
    <3> QED BY <2>4, <3>2
  <2> QED BY <2>1, <2>2, <2>4 DEF WordsKept, PageWords
<1>8. ASSUME NEW d \in Caches, cpu'[d] # NoPage
      PROVE  /\ \A a \in Words(d, cpu'[d].page) : a >= cpu'[d].freeobj => a \notin junk'
             /\ Header(cpu'[d].page) \cap junk' = {}
  <2>1. CASE d = c
    BY <1>4, <1>6, <1>8, <2>1
  <2>2. CASE d # c
    BY <1>5, <1>7, <1>8, <2>2
  <2> QED BY <2>1, <2>2
<1> QED BY <1>8 DEF WordsKept, Words, Header, Base, Slot, Links

LEMMA FromSlabWords ==
    ASSUME SlabIInv, WordsKept, NEW size \in Sizes, FromSlab(size) PROVE WordsKept'
<1> DEFINE c == BestFit(size)
<1>1. size \in Nat /\ c # None
  BY SlabAssumption DEF FromSlab
<1>2. c \in Usable /\ size <= CacheSizes[c]
  BY <1>1, BestFits
<1>3. FromCpuPage(c, size) \/ \E p \in Pages : FromNewPage(c, p, size)
  BY DEF FromSlab
<1> HIDE DEF c
<1>4. CASE FromCpuPage(c, size)
  <2>1. c \in Caches /\ cpu[c] # NoPage
    BY <1>2, <1>4 DEF FromCpuPage, Usable
  <2>2. PICK p \in Pages, i \in 2 .. Links(c) - 1 :
            /\ cpu[c] = [page |-> p, freeobj |-> SlotAt(c, p, i)]
            /\ slab[p] = c /\ nr_objs[p] = i - 1
    BY <2>1 DEF SlabIInv, CpuPlaced
  <2>3. i \in 1 .. Links(c) - 1
    BY <1>2, SlotFacts
  <2>4. Ready(c, p, i) /\ HandOut(c, p, SlotAt(c, p, i), i - 1, size)
    BY <1>4, <2>2 DEF FromCpuPage, Ready
  <2>5. junk' = junk \cup Written([addr |-> SlotAt(c, p, i), size |-> size])
    BY <1>4, <2>2 DEF FromCpuPage
  <2>6. \A a \in junk' : a \in junk \/ /\ a \in Nat /\ Base(p) + 8 <= a
                                       /\ a < SlotAt(c, p, i + 1) /\ a < Base(p + 1)
    BY <1>1, <1>2, <2>3, <2>5, SlotWrites
  <2> QED BY <1>1, <1>2, <2>1, <2>3, <2>4, <2>6, HandOutWords
<1>5. ASSUME NEW p \in Pages, FromNewPage(c, p, size) PROVE WordsKept'
  <2>1. 1 \in 1 .. Links(c) - 1
    BY <1>2, SlotFacts
  <2>2. SlotAt(c, p, 1) = Base(p) + Slot(c)
    BY <1>2, SlotFacts DEF SlotAt
  <2>3. Ready(c, p, 1) /\ HandOut(c, p, SlotAt(c, p, 1), 1 - 1, size)
    BY <1>5, <2>2 DEF FromNewPage, Ready
  <2> DEFINE o == [addr |-> SlotAt(c, p, 1), size |-> size]
  <2>4. junk' = (junk \ PageWords(c, p)) \cup {a \in PageWords(c, p) : Inside(a, o)}
    BY <1>5, <2>2 DEF FromNewPage
  <2>5. ASSUME NEW a \in PageWords(c, p), Inside(a, o)
        PROVE  a \in Nat /\ Base(p) + 8 <= a /\ a < SlotAt(c, p, 1 + 1) /\ a < Base(p + 1)
    <3>1. a \in Nat /\ a < Base(p + 1)
      BY <1>2, WordsPlace
    <3>2. Base(p) + 8 <= o.addr /\ o.addr + o.size < SlotAt(c, p, 1 + 1)
      BY <1>1, <1>2, <2>1, SlotWithin
    <3>3. SlotAt(c, p, 1) \in Nat /\ SlotAt(c, p, 1 + 1) \in Nat /\ Base(p) \in Nat
      <4>1. 1 \in 1 .. Links(c) /\ 1 + 1 \in 1 .. Links(c) /\ p \in Nat
        BY <1>2, SlotFacts DEF Pages
      <4> QED BY <1>2, <4>1, SlotPlace, BaseFacts
    <3>4. o.addr <= a /\ a < o.addr + o.size
      BY <2>5 DEF Inside
    <3> QED BY <1>1, <3>1, <3>2, <3>3, <3>4
  <2>6. \A a \in junk' : \/ a \in junk /\ (cpu[c] = NoPage => a \notin PageWords(c, p))
                         \/ /\ a \in Nat /\ Base(p) + 8 <= a
                            /\ a < SlotAt(c, p, 1 + 1) /\ a < Base(p + 1)
    BY <2>4, <2>5
  <2> QED BY <1>1, <1>2, <2>1, <2>3, <2>6, HandOutWords
<1> QED BY <1>3, <1>4, <1>5

\* A step that leaves the caches alone and writes over no word of theirs.
LEMMA QuietWords ==
    ASSUME WordsKept, UNCHANGED <<cpu, junk>> PROVE WordsKept'
  BY DEF WordsKept, Words, Header, Base, Slot, Links

\* Every call keeps the words: programs fit in the block they are loaded to.
LEMMA CallWords ==
    ASSUME SlabIInv, WordsKept, SafeCall PROVE WordsKept'
<1>1. ASSUME NEW size \in Sizes, FromBuddy(size) PROVE WordsKept'
  <2>1. PICK b \in AlignedRuns(OrderAsked(size)) :
            junk' = junk \cup Written([addr |-> Base(b.page), size |-> size])
    BY <1>1 DEF FromBuddy
  <2> DEFINE k == OrderAsked(size)
             n == BlockSize[k]
  <2>2. size \in Nat \ {0} /\ k \in Nat \ {0} /\ k \in Orders /\ size <= k * PageSize /\ PageSize \in Nat
    <3>1. size \in Nat \ {0} /\ PageSize \in Nat
      BY SlabAssumption
    <3> QED BY <1>1, <3>1, OrderFacts, SlabAssumption DEF FromBuddy, Orders
  <2>3. n \in Nat \ {0} /\ k <= n
    BY <2>2, BlockFacts
  <2>4. b.page \in Pages /\ b.page \in Nat /\ b.page .. b.page + n - 1 \subseteq free
    BY <2>1 DEF AlignedRuns, PageRun, Pages
  <2> HIDE DEF k, n
  <2>5. \A r \in b.page .. b.page + n - 1 : r \in Pages => slab[r] = None
    <3> SUFFICES ASSUME NEW r \in b.page .. b.page + n - 1, r \in Pages, slab[r] # None PROVE FALSE
      OBVIOUS
    <3>1. [page |-> r, order |-> 0] \in held
      BY DEF SlabIInv, SlabHeld
    <3>2. r \in PageRun([page |-> r, order |-> 0])
      BY SlabAssumption DEF PageRun, Pages
    <3> QED BY <2>4, <3>1, <3>2 DEF SlabIInv, BlocksApart
  <2>6. Base(b.page) + size <= Base(b.page + n)
    <3>1. k * PageSize <= n * PageSize
      BY <2>2, <2>3, Monotone
    <3> DEFINE p == b.page
    <3>2. p \in Nat
      BY <2>4
    <3> HIDE DEF p
    <3>3. (p + n) * PageSize = p * PageSize + n * PageSize
          /\ k * PageSize \in Nat /\ n * PageSize \in Nat /\ p * PageSize \in Nat
      BY <2>2, <2>3, <3>2, Z3
    <3>4. p * PageSize + size <= (p + n) * PageSize
      BY <2>2, <3>1, <3>3
    <3> QED BY <3>4 DEF Base, p
  <2>7. Written([addr |-> Base(b.page), size |-> size]) = {}
    BY <2>2, <2>3, <2>4, <2>5, <2>6, BlockWrites
  <2>8. UNCHANGED <<cpu, junk>>
    BY <1>1, <2>1, <2>7 DEF FromBuddy
  <2> QED BY <2>8, QuietWords
<1>2. ASSUME NEW o \in live, NEW m \in FileSizes, ProgramFits(m), ExecLoad(o, m) PROVE WordsKept'
  <2>1. o.size = PageSize /\ UNCHANGED cpu
        /\ junk' = junk \cup Written([addr |-> o.addr, size |-> ExecBytes(m)])
    BY <1>2 DEF ExecLoad
  <2>2. Largest \in Nat /\ Largest < PageSize /\ PageSize \in Nat \ {0}
    BY SlabAssumption DEF Largest, Caches
  <2>3. PICK b \in held : b.order # 0 /\ o.addr = Base(b.page) /\ b.order = OrderAsked(PageSize)
    BY <2>1, <2>2, HasBlock DEF SlabIInv
  <2>4. b.order = 1 /\ OrderAsked(PageSize) = 1
    <3>1. (1 * PageSize + (PageSize - 1)) \div PageSize = 1
      BY <2>2, QuotientIs
    <3>2. 1 * PageSize + (PageSize - 1) = PageSize + PageSize - 1
      BY <2>2
    <3> QED BY <2>3, <3>1, <3>2 DEF OrderAsked
  <2>5. 1 \in Orders /\ b.page \in Nat
    BY <2>3, <2>4 DEF SlabIInv, SlabTypes, Pages
  <2>6. BlockSize[1] = 2
    <3>1. 0 \in Orders \ {MaxOrder} /\ BlockSize[0] = 1
      BY <2>5, SlabAssumption DEF Orders
    <3>2. BlockSize[0 + 1] = 2 * BlockSize[0]
      BY <3>1, SlabAssumption
    <3> QED BY <3>1, <3>2
  <2>7. \A r \in b.page .. b.page + 2 - 1 : r \in Pages => slab[r] = None
    <3> SUFFICES ASSUME NEW r \in b.page .. b.page + 2 - 1, r \in Pages, slab[r] # None PROVE FALSE
      OBVIOUS
    <3>1. [page |-> r, order |-> 0] \in held
      BY DEF SlabIInv, SlabHeld
    <3>2. r \in PageRun([page |-> r, order |-> 0]) /\ r \in PageRun(b)
      BY <2>4, <2>6, SlabAssumption DEF PageRun, Pages
    <3>3. b # [page |-> r, order |-> 0]
      BY <2>3
    <3> QED BY <3>1, <3>2, <3>3 DEF SlabIInv, BlocksApart
  <2>8. ExecBytes(m) \in Nat /\ ExecBytes(m) <= 2 * PageSize
    <3>1. ExecBytes(m) <= PageSize * 2
      BY <1>2, <2>4, <2>6 DEF ProgramFits
    <3> QED BY <2>2, <3>1, SlabAssumption DEF ExecBytes
  <2>9. Base(b.page) + ExecBytes(m) <= Base(b.page + 2)
    <3>1. b.page + 1 \in Nat /\ (b.page + 1) + 1 = b.page + 2
      BY <2>5
    <3>2. Base(b.page + 2) = Base(b.page) + PageSize + PageSize /\ Base(b.page) \in Nat
      BY <2>5, <3>1, BaseFacts
    <3> QED BY <2>2, <2>8, <3>2
  <2>10. Written([addr |-> Base(b.page), size |-> ExecBytes(m)]) = {}
    BY <2>5, <2>7, <2>8, <2>9, BlockWrites
  <2> QED BY <2>1, <2>3, <2>10, QuietWords
<1>3. ASSUME NEW o \in live, Kfree(o) PROVE WordsKept'
  BY <1>3, QuietWords DEF Kfree
<1>4. ASSUME NEW size \in Sizes, Halt(size) PROVE WordsKept'
  BY <1>4, QuietWords DEF Halt
<1> QED BY <1>1, <1>2, <1>3, <1>4, FromSlabWords DEF SafeCall

(***************************************************************************)
(* find_pages                                                               *)
(***************************************************************************)
\* A set of naturals that is not empty has a least element.
LEMMA Least ==
    ASSUME NEW S, S \subseteq Nat, S # {}
    PROVE  \E m \in S : \A x \in S : m <= x
<1>1. PICK m \in S : \A x \in S : ~(<<x, m>> \in OpToRel(<, Nat))
  BY NatLessThanWellFounded, WFMin
<1>2. \A x \in S : ~(x < m)
  BY <1>1 DEF OpToRel
<1> QED BY <1>2
LEMMA MinIs ==
    ASSUME NEW S, S \subseteq Nat, S # {}
    PROVE  Min(S) \in S /\ \A x \in S : Min(S) <= x
  BY Least DEF Min

\* One turn of find_pages at page p, f telling what it finds from the next page on.
Stops(p, n, e) == {q \in FrameRun(p, n) : q >= e \/ q \in used}
Turn(f, p, n, e, align) ==
    IF p >= e THEN NoRun
    ELSE IF p \in used THEN f[p + 1]
    ELSE IF Stops(p, n, e) = {} THEN p
    ELSE IF Min(Stops(p, n, e)) >= e THEN NoRun
    ELSE f[Min(Stops(p, n, e)) + align]

\* A turn looks only at what is found further on.
LEMMA TurnAhead ==
    ASSUME NEW n \in Nat \ {0}, NEW e \in Nat, NEW align \in Nat \ {0}, NEW p \in Nat,
           NEW f, NEW g, \A q \in Nat : q > p => f[q] = g[q]
    PROVE  Turn(f, p, n, e, align) = Turn(g, p, n, e, align)
<1>1. f[p + 1] = g[p + 1]
  OBVIOUS
<1>2. ASSUME Stops(p, n, e) # {}
      PROVE  f[Min(Stops(p, n, e)) + align] = g[Min(Stops(p, n, e)) + align]
  <2>1. Stops(p, n, e) \subseteq Nat /\ \A q \in Stops(p, n, e) : q >= p
    BY DEF Stops, FrameRun
  <2>2. Min(Stops(p, n, e)) \in Nat /\ Min(Stops(p, n, e)) >= p
    BY <1>2, <2>1, MinIs
  <2> QED BY <2>2
<1> QED BY <1>1, <1>2 DEF Turn

\* So there is a function the search is: by induction on how far it looks back from e.
LEMMA SearchExists ==
    ASSUME NEW n \in Nat \ {0}, NEW e \in Nat, NEW align \in Nat \ {0}
    PROVE  \E f : f = [p \in Nat |-> Turn(f, p, n, e, align)]
<1> DEFINE Works(f, k) == f \in [Nat -> Int] /\ \A p \in Nat : p + k >= e => f[p] = Turn(f, p, n, e, align)
           Bad == {k \in Nat : ~\E f \in [Nat -> Int] : Works(f, k)}
<1>1. Bad = {}
  <2> SUFFICES ASSUME Bad # {} PROVE FALSE
    OBVIOUS
  <2>1. PICK k \in Bad : \A j \in Bad : k <= j
    BY Least
  <2>2. CASE k = 0
    <3> DEFINE f == [p \in Nat |-> NoRun]
    <3>1. Works(f, 0)
      BY DEF Turn, NoRun
    <3> QED BY <2>1, <2>2, <3>1
  <2>3. CASE k # 0
    <3>1. k - 1 \in Nat /\ k - 1 \notin Bad /\ k \in Nat
      BY <2>1, <2>3
    <3>2. PICK f \in [Nat -> Int] : Works(f, k - 1)
      BY <3>1
    <3>3. CASE k > e
      <4>1. Works(f, k)
        BY <3>1, <3>2, <3>3
      <4> QED BY <2>1, <4>1
    <3>4. CASE k <= e
      <4> DEFINE p == e - k
      <4>1. p \in Nat
        BY <3>1, <3>4
      <4>2. Turn(f, p, n, e, align) \in Int
        <5>1. Stops(p, n, e) # {} => Min(Stops(p, n, e)) \in Nat
          <6>1. Stops(p, n, e) \subseteq Nat
            BY <4>1 DEF Stops, FrameRun
          <6> QED BY <6>1, MinIs
        <5> HIDE DEF p
        <5> QED BY <4>1, <5>1 DEF Turn, NoRun
      <4>3. PICK g \in [Nat -> Int] : g[p] = Turn(f, p, n, e, align) /\ \A q \in Nat \ {p} : g[q] = f[q]
        <5> DEFINE g == [f EXCEPT ![p] = Turn(f, p, n, e, align)]
        <5> HIDE DEF p
        <5>1. g \in [Nat -> Int] /\ g[p] = Turn(f, p, n, e, align) /\ \A q \in Nat \ {p} : g[q] = f[q]
          BY <4>1, <4>2
        <5> QED BY <5>1
      <4>4. ASSUME NEW q \in Nat, q + k >= e PROVE g[q] = Turn(g, q, n, e, align)
        <5>1. p <= q
          BY <3>1, <4>4
        <5>2. \A r \in Nat : r > q => g[r] = f[r]
          BY <4>1, <4>3, <5>1
        <5>3. Turn(g, q, n, e, align) = Turn(f, q, n, e, align)
          BY <5>2, TurnAhead
        <5>4. q # p => q + (k - 1) >= e
          BY <3>1, <4>4
        <5>5. q # p => f[q] = Turn(f, q, n, e, align)
          BY <3>2, <5>4
        <5> HIDE DEF p
        <5> QED BY <4>3, <5>3, <5>5
      <4>5. Works(g, k)
        BY <4>3, <4>4
      <4> QED BY <2>1, <4>3, <4>5
    <3> QED BY <3>1, <3>3, <3>4
  <2> QED BY <2>2, <2>3
<1>2. PICK f \in [Nat -> Int] : Works(f, e)
  BY <1>1
<1>3. f = [p \in Nat |-> Turn(f, p, n, e, align)]
  BY <1>2
<1> QED BY <1>3

Searches(f, n, e, align) == \A p \in Nat : f[p] = Turn(f, p, n, e, align)
LEMMA FindIs ==
    ASSUME NEW n \in Nat \ {0}, NEW s \in Nat, NEW e \in Nat, NEW align \in Nat \ {0}
    PROVE  \E f : FindPages(n, s, e, align) = f[RoundUp(s, align)] /\ Searches(f, n, e, align)
<1> DEFINE f == CHOOSE f : f = [p \in Nat |-> Turn(f, p, n, e, align)]
<1>1. f = [p \in Nat |-> Turn(f, p, n, e, align)]
  BY SearchExists
<1>2. FindPages(n, s, e, align) = f[RoundUp(s, align)]
  BY DEF FindPages, Turn, Stops
<1>3. Searches(f, n, e, align)
  <2> HIDE DEF f
  <2> QED BY <1>1 DEF Searches
<1> HIDE DEF f
<1> QED BY <1>2, <1>3

\* What it finds from page p on is a run of free pages that ends before e; there is
\* none, when no alignment is asked for, only if there is none.
LEMMA SearchFinds ==
    ASSUME NEW n \in Nat \ {0}, NEW e \in Nat, NEW align \in Nat \ {0},
           NEW f, Searches(f, n, e, align)
    PROVE  \A p \in Nat :
              /\ f[p] # NoRun => f[p] \in Nat /\ p <= f[p] /\ f[p] + n <= e /\ FrameRun(f[p], n) \cap used = {}
              /\ f[p] = NoRun /\ align = 1 =>
                    \A q \in Nat : p <= q /\ q + n <= e => FrameRun(q, n) \cap used # {}
<1> DEFINE Right(p) ==
              /\ f[p] # NoRun => f[p] \in Nat /\ p <= f[p] /\ f[p] + n <= e /\ FrameRun(f[p], n) \cap used = {}
              /\ f[p] = NoRun /\ align = 1 =>
                    \A q \in Nat : p <= q /\ q + n <= e => FrameRun(q, n) \cap used # {}
           Bad == {k \in Nat : \E p \in Nat : p + k >= e /\ ~Right(p)}
<1>0. \A p \in Nat : f[p] = Turn(f, p, n, e, align)
  BY DEF Searches
<1>1. Bad = {}
  <2> SUFFICES ASSUME Bad # {} PROVE FALSE
    OBVIOUS
  <2>1. PICK k \in Bad : \A j \in Bad : k <= j
    BY Least
  <2>2. PICK p \in Nat : p + k >= e /\ ~Right(p)
    BY <2>1
  <2>3. ASSUME NEW q \in Nat, q > p PROVE Right(q)
    <3>1. CASE k = 0 \/ q >= e
      <4>1. q >= e
        BY <2>2, <2>3, <3>1
      <4>2. f[q] = NoRun
        BY <1>0, <4>1 DEF Turn
      <4>3. \A r \in Nat : ~(q <= r /\ r + n <= e)
        BY <4>1
      <4> QED BY <4>2, <4>3
    <3>2. CASE k # 0 /\ q < e
      <4>1. k - 1 \in Nat /\ k - 1 \notin Bad
        BY <2>1, <3>2
      <4>2. q + (k - 1) >= e
        BY <2>1, <2>2, <2>3
      <4> HIDE DEF Right
      <4> QED BY <4>1, <4>2
    <3> QED BY <3>1, <3>2
  <2>4. CASE p >= e
    <3>1. f[p] = NoRun
      BY <1>0, <2>4 DEF Turn
    <3>2. \A r \in Nat : ~(p <= r /\ r + n <= e)
      BY <2>4
    <3> QED BY <2>2, <3>1, <3>2
  <2>5. CASE p < e /\ p \in used
    <3>1. f[p] = f[p + 1] /\ Right(p + 1)
      BY <1>0, <2>3, <2>5 DEF Turn
    <3>2. \A q \in Nat : p <= q /\ q + n <= e => p + 1 <= q \/ (q = p /\ p \in FrameRun(q, n) \cap used)
      BY <2>5 DEF FrameRun
    <3>3. Right(p)
      BY <3>1, <3>2
    <3> QED BY <2>2, <3>3
  <2>6. CASE p < e /\ p \notin used /\ Stops(p, n, e) = {}
    <3>1. f[p] = p /\ p # NoRun
      BY <1>0, <2>6 DEF Turn, NoRun
    <3>2. \A q \in FrameRun(p, n) : q < e /\ q \notin used
      <4>1. \A q \in FrameRun(p, n) : q \in Int
        BY DEF FrameRun
      <4>2. \A q \in FrameRun(p, n) : ~(q >= e) /\ q \notin used
        BY <2>6 DEF Stops
      <4> QED BY <4>1, <4>2
    <3>3. p + n - 1 \in FrameRun(p, n)
      BY DEF FrameRun
    <3>4. p + n <= e
      BY <3>2, <3>3
    <3>5. Right(p)
      BY <3>1, <3>2, <3>4
    <3> QED BY <2>2, <3>5
  <2>7. CASE p < e /\ p \notin used /\ Stops(p, n, e) # {}
    <3> DEFINE m == Min(Stops(p, n, e))
    <3>1. m \in Nat /\ p <= m /\ m <= p + n - 1 /\ (m >= e \/ m \in used) /\ \A q \in Stops(p, n, e) : m <= q
      <4>1. Stops(p, n, e) \subseteq Nat /\ \A q \in Stops(p, n, e) : p <= q /\ q <= p + n - 1
        BY DEF Stops, FrameRun
      <4>2. m \in Stops(p, n, e) /\ \A q \in Stops(p, n, e) : m <= q
        BY <2>7, <4>1, MinIs
      <4> QED BY <4>1, <4>2 DEF Stops
    <3>2. f[p] = IF m >= e THEN NoRun ELSE f[m + align]
      BY <1>0, <2>7 DEF Turn
    <3> HIDE DEF m
    <3>3. CASE m >= e
      <4>1. \A q \in Nat : p <= q /\ q + n <= e => FALSE
        BY <3>1, <3>3
      <4>2. Right(p)
        BY <3>2, <3>3, <4>1
      <4> QED BY <2>2, <4>2
    <3>4. CASE m < e
      <4>1. f[p] = f[m + align] /\ m + align > p /\ m + align \in Nat /\ Right(m + align)
        <5>1. m + align > p /\ m + align \in Nat
          BY <3>1
        <5> HIDE DEF Right
        <5> QED BY <2>3, <3>2, <3>4, <3>1, <5>1
      <4>2. ASSUME align = 1, NEW q \in Nat, p <= q, q + n <= e, q < m + 1
            PROVE  FrameRun(q, n) \cap used # {}
        <5>1. m \in FrameRun(q, n) /\ m \in used
          BY <3>1, <3>4, <4>2 DEF FrameRun
        <5> QED BY <5>1
      <4>3. Right(p)
        <5>1. f[p] # NoRun => f[p] \in Nat /\ p <= f[p] /\ f[p] + n <= e /\ FrameRun(f[p], n) \cap used = {}
          BY <4>1
        <5>2. ASSUME f[p] = NoRun, align = 1, NEW q \in Nat, p <= q, q + n <= e
              PROVE  FrameRun(q, n) \cap used # {}
          <6>1. CASE q < m + 1
            BY <4>2, <5>2, <6>1
          <6>2. CASE m + 1 <= q
            BY <4>1, <5>2, <6>2
          <6> QED BY <3>1, <6>1, <6>2
        <5> QED BY <5>1, <5>2
      <4> QED BY <2>2, <4>3
    <3> QED BY <3>1, <3>3, <3>4
  <2> QED BY <2>4, <2>5, <2>6, <2>7
<1>2. ASSUME NEW p \in Nat PROVE Right(p)
  <2> HIDE DEF Right
  <2>1. e \notin Bad
    BY <1>1
  <2> QED BY <2>1
<1> QED BY <1>2

LEMMA RoundUpFacts ==
    ASSUME NEW s \in Nat, NEW align \in Nat \ {0}
    PROVE  RoundUp(s, align) \in Nat /\ (align = 1 => RoundUp(s, align) = s)
<1>1. s + align - 1 \in Nat
  OBVIOUS
<1>2. (s + align - 1) \div align \in Nat
  BY <1>1, Quotient
<1>3. align * ((s + align - 1) \div align) \in Nat
  BY <1>2, Z3
<1>4. ASSUME align = 1 PROVE RoundUp(s, align) = s
  <2>1. (s * 1 + 0) \div 1 = s
    BY QuotientIs
  <2>2. s * 1 + 0 = s /\ s + 1 - 1 = s
    OBVIOUS
  <2> QED BY <1>4, <2>1, <2>2 DEF RoundUp
<1> QED BY <1>3, <1>4 DEF RoundUp

\* bootmm_alloc_pages finds free pages; without alignment, wherever they lie.
LEMMA FoundFacts ==
    ASSUME BootTypeOK, NEW n \in Nat \ {0}, NEW align \in Nat \ {0}
    PROVE  /\ FoundRun(n, align) # NoRun =>
                 /\ FoundRun(n, align) \in Nat /\ FoundRun(n, align) + n <= MaxPfn
                 /\ FrameRun(FoundRun(n, align), n) \cap used = {}
           /\ FoundRun(n, align) = NoRun /\ align = 1 =>
                 \A q \in Nat : q + n <= MaxPfn => FrameRun(q, n) \cap used # {}
<1>0. PICK last : last = last_alloc_end
  OBVIOUS
<1> DEFINE ahead == FindPages(n, last + 1, MaxPfn, align)
           front == FindPages(n, 0, last, align)
<1>1. MaxPfn \in Nat /\ last \in Nat /\ last < MaxPfn /\ last \in used
  BY <1>0, BootAssumption DEF BootTypeOK, Frames
<1>2. /\ ahead # NoRun => ahead \in Nat /\ ahead + n <= MaxPfn /\ FrameRun(ahead, n) \cap used = {}
      /\ ahead = NoRun /\ align = 1 =>
            \A q \in Nat : last + 1 <= q /\ q + n <= MaxPfn => FrameRun(q, n) \cap used # {}
  <2>1. PICK f : ahead = f[RoundUp(last + 1, align)] /\ Searches(f, n, MaxPfn, align)
    <3>1. last + 1 \in Nat
      BY <1>1
    <3> QED BY <1>1, <3>1, FindIs
  <2>2. RoundUp(last + 1, align) \in Nat /\ (align = 1 => RoundUp(last + 1, align) = last + 1)
    BY <1>1, RoundUpFacts
  <2> QED BY <1>1, <2>1, <2>2, SearchFinds
<1>3. /\ front # NoRun => front \in Nat /\ front + n <= last /\ FrameRun(front, n) \cap used = {}
      /\ front = NoRun /\ align = 1 =>
            \A q \in Nat : 0 <= q /\ q + n <= last => FrameRun(q, n) \cap used # {}
  <2>1. PICK f : front = f[RoundUp(0, align)] /\ Searches(f, n, last, align)
    BY <1>1, FindIs
  <2>2. RoundUp(0, align) \in Nat /\ (align = 1 => RoundUp(0, align) = 0)
    BY RoundUpFacts
  <2> QED BY <1>1, <2>1, <2>2, SearchFinds
<1>4. FoundRun(n, align) = IF ahead # NoRun THEN ahead ELSE front
  BY <1>0 DEF FoundRun
<1> HIDE DEF ahead, front
<1>5. ASSUME ahead = NoRun, front = NoRun, align = 1, NEW q \in Nat, q + n <= MaxPfn
      PROVE  FrameRun(q, n) \cap used # {}
  <2>1. CASE last + 1 <= q
    BY <1>2, <1>5, <2>1
  <2>2. CASE q + n <= last
    BY <1>3, <1>5, <2>2
  <2>3. CASE q <= last /\ last < q + n
    BY <1>1, <2>3 DEF FrameRun
  <2> QED BY <1>1, <2>1, <2>2, <2>3
<1> QED BY <1>1, <1>2, <1>3, <1>4, <1>5

LEMMA Finds ==
    ASSUME BootTypeOK PROVE RunsFound
<1> SUFFICES ASSUME NEW n \in 1 .. MaxPfn
             PROVE  IF FoundRun(n, 1) = NoRun
                    THEN \A p \in 0 .. MaxPfn - n : FrameRun(p, n) \cap used # {}
                    ELSE FrameRun(FoundRun(n, 1), n) \subseteq Frames \ used
  BY DEF RunsFound
<1>1. n \in Nat \ {0} /\ MaxPfn \in Nat
  BY BootAssumption
<1>2. CASE FoundRun(n, 1) = NoRun
  BY <1>1, <1>2, FoundFacts
<1>3. CASE FoundRun(n, 1) # NoRun
  <2> DEFINE p == FoundRun(n, 1)
  <2>1. p \in Nat /\ p + n <= MaxPfn /\ FrameRun(p, n) \cap used = {}
    BY <1>1, <1>3, FoundFacts
  <2> HIDE DEF p
  <2>2. FrameRun(p, n) \subseteq Frames
    BY <1>1, <2>1 DEF FrameRun, Frames
  <2> QED BY <1>3, <2>1, <2>2 DEF p
<1> QED BY <1>2, <1>3

(***************************************************************************)
(* insert_mminfo                                                            *)
(***************************************************************************)
Entries == [start : Frames, end : Frames, type : Types]
Span(r) == r.start .. r.end

\* A table whose ranges are apart and make up the pages of X.
TableOf(inf, X) ==
    /\ inf \in Seq(Entries)
    /\ \A i \in DOMAIN inf : inf[i].start <= inf[i].end
    /\ \A i, j \in DOMAIN inf : i # j => Span(inf[i]) \cap Span(inf[j]) = {}
    /\ \A p \in Frames : p \in X <=> \E i \in DOMAIN inf : p \in Span(inf[i])

\* The table inf with r for entry i.
Updated(new, inf, i, r) ==
    /\ new \in Seq(Entries) /\ Len(new) = Len(inf)
    /\ new[i] = r /\ \A j \in DOMAIN inf \ {i} : new[j] = inf[j]
LEMMA UpdatedIs ==
    ASSUME NEW inf \in Seq(Entries), NEW i \in DOMAIN inf, NEW r \in Entries
    PROVE  Updated([inf EXCEPT ![i] = r], inf, i, r)
  BY DEF Updated

LEMMA SpanFacts == \A r \in Entries : Span(r) \subseteq Frames /\ r.start \in Nat /\ r.end \in Nat
  BY BootAssumption DEF Span, Entries, Frames

\* A new range at the end of the table.
LEMMA TableAppend ==
    ASSUME NEW inf, NEW X, TableOf(inf, X), NEW r \in Entries, r.start <= r.end, Span(r) \cap X = {}
    PROVE  TableOf(Append(inf, r), X \cup Span(r)) /\ Len(Append(inf, r)) = Len(inf) + 1
<1> DEFINE new == Append(inf, r)
           n == Len(inf)
<1>1. /\ inf \in Seq(Entries) /\ n \in Nat /\ DOMAIN inf = 1 .. n
      /\ new \in Seq(Entries) /\ Len(new) = n + 1 /\ DOMAIN new = 1 .. n + 1
      /\ new[n + 1] = r /\ \A i \in 1 .. n : new[i] = inf[i]
  BY AppendProperties DEF TableOf
<1> HIDE DEF new, n
<1>2. \A i \in DOMAIN inf : Span(inf[i]) \cap Span(r) = {}
  <2>1. \A i \in DOMAIN inf : Span(inf[i]) \subseteq Frames
    BY <1>1, SpanFacts
  <2> QED BY <2>1 DEF TableOf
<1>3. \A i \in DOMAIN new : i = n + 1 \/ (i \in DOMAIN inf /\ i \in 1 .. n)
  BY <1>1
<1>4. \A i \in DOMAIN new : new[i].start <= new[i].end
  BY <1>1, <1>3 DEF TableOf
<1>5. \A i, j \in DOMAIN new : i # j => Span(new[i]) \cap Span(new[j]) = {}
  BY <1>1, <1>2, <1>3 DEF TableOf
<1>6. \A p \in Frames : p \in X \cup Span(r) <=> \E i \in DOMAIN new : p \in Span(new[i])
  <2> SUFFICES ASSUME NEW p \in Frames
               PROVE  p \in X \cup Span(r) <=> \E i \in DOMAIN new : p \in Span(new[i])
    OBVIOUS
  <2>1. p \in X <=> \E i \in DOMAIN inf : p \in Span(inf[i])
    BY DEF TableOf
  <2>2. ASSUME p \in X PROVE \E i \in DOMAIN new : p \in Span(new[i])
    <3>1. PICK i \in DOMAIN inf : p \in Span(inf[i])
      BY <2>1, <2>2
    <3>2. i \in DOMAIN new /\ new[i] = inf[i]
      BY <1>1
    <3> QED BY <3>1, <3>2
  <2>3. ASSUME p \in Span(r) PROVE \E i \in DOMAIN new : p \in Span(new[i])
    <3>1. n + 1 \in DOMAIN new
      BY <1>1
    <3> QED BY <1>1, <2>3, <3>1
  <2>4. ASSUME NEW i \in DOMAIN new, p \in Span(new[i]) PROVE p \in X \cup Span(r)
    BY <1>1, <1>3, <2>1, <2>4
  <2> QED BY <2>2, <2>3, <2>4
<1> QED BY <1>1, <1>4, <1>5, <1>6 DEF TableOf, new, n

\* An entry that grows by pages in no other.
Extended(inf, X, i, r) ==
    /\ r \in Entries /\ r.start <= r.end
    /\ Span(inf[i]) \subseteq Span(r) /\ Span(r) \cap X \subseteq Span(inf[i])
LEMMA TableGrow ==
    ASSUME NEW inf, NEW X, TableOf(inf, X), NEW i \in DOMAIN inf, NEW r, Extended(inf, X, i, r),
           NEW new, Updated(new, inf, i, r)
    PROVE  TableOf(new, X \cup Span(r))
<1> DEFINE n == Len(inf)
<1>1. /\ inf \in Seq(Entries) /\ n \in Nat /\ DOMAIN inf = 1 .. n
      /\ new \in Seq(Entries) /\ Len(new) = n /\ DOMAIN new = 1 .. n
      /\ new[i] = r /\ \A j \in DOMAIN inf \ {i} : new[j] = inf[j]
  BY DEF TableOf, Updated, Extended
<1> HIDE DEF n
<1>2. \A j \in DOMAIN inf \ {i} : Span(inf[j]) \cap Span(r) = {}
  <2> SUFFICES ASSUME NEW j \in DOMAIN inf \ {i} PROVE Span(inf[j]) \cap Span(r) = {}
    OBVIOUS
  <2>1. Span(inf[j]) \subseteq Frames
    BY <1>1, SpanFacts
  <2>2. Span(inf[j]) \subseteq X
    BY <2>1 DEF TableOf
  <2>3. Span(inf[j]) \cap Span(inf[i]) = {}
    BY DEF TableOf
  <2> QED BY <2>2, <2>3 DEF Extended
<1>3. \A j \in DOMAIN new : new[j].start <= new[j].end
  BY <1>1 DEF TableOf, Extended
<1>4. \A j, k \in DOMAIN new : j # k => Span(new[j]) \cap Span(new[k]) = {}
  <2> QED BY <1>1, <1>2 DEF TableOf
<1>5. \A p \in Frames : p \in X \cup Span(r) <=> \E j \in DOMAIN new : p \in Span(new[j])
  <2> SUFFICES ASSUME NEW p \in Frames
               PROVE  p \in X \cup Span(r) <=> \E j \in DOMAIN new : p \in Span(new[j])
    OBVIOUS
  <2>1. p \in X <=> \E j \in DOMAIN inf : p \in Span(inf[j])
    BY DEF TableOf
  <2>2. ASSUME p \in X PROVE \E j \in DOMAIN new : p \in Span(new[j])
    <3>1. PICK j \in DOMAIN inf : p \in Span(inf[j])
      BY <2>1, <2>2
    <3>2. j = i \/ new[j] = inf[j]
      BY <1>1
    <3> QED BY <1>1, <3>1, <3>2 DEF Extended
  <2>3. ASSUME p \in Span(r) PROVE \E j \in DOMAIN new : p \in Span(new[j])
    BY <1>1, <2>3
  <2>4. ASSUME NEW j \in DOMAIN new, p \in Span(new[j]) PROVE p \in X \cup Span(r)
    <3>1. CASE j = i
      BY <1>1, <2>1, <2>4, <3>1
    <3>2. CASE j # i
      BY <1>1, <2>1, <2>4, <3>2
    <3> QED BY <3>1, <3>2
  <2> QED BY <2>2, <2>3, <2>4
<1> QED BY <1>1, <1>3, <1>4, <1>5 DEF TableOf, n

\* A sequence without its entry i.
LEMMA RemoveFacts ==
    ASSUME NEW S, NEW s \in Seq(S), NEW i \in 1 .. Len(s)
    PROVE  /\ RemoveAt(s, i) \in Seq(S) /\ Len(RemoveAt(s, i)) = Len(s) - 1
           /\ \A j \in 1 .. Len(s) - 1 : RemoveAt(s, i)[j] = IF j < i THEN s[j] ELSE s[j + 1]
<1> DEFINE a == SubSeq(s, 1, i - 1)
           b == SubSeq(s, i + 1, Len(s))
           n == Len(s)
<1>1. n \in Nat /\ \A j \in 1 .. n : s[j] \in S
  OBVIOUS
<1>2. a \in Seq(S) /\ Len(a) = i - 1 /\ \A j \in 1 .. i - 1 : a[j] = s[j]
  <2>1. \A j \in 1 .. i - 1 : s[j] \in S
    BY <1>1
  <2>2. a \in Seq(S) /\ Len(a) = (IF 1 <= i - 1 THEN i - 1 - 1 + 1 ELSE 0)
        /\ \A j \in 1 .. i - 1 - 1 + 1 : a[j] = s[1 + j - 1]
    BY <2>1, SubSeqProperties
  <2> HIDE DEF a
  <2> QED BY <2>2
<1>3. b \in Seq(S) /\ Len(b) = n - i /\ \A j \in 1 .. n - i : b[j] = s[i + j]
  <2>1. \A j \in i + 1 .. n : s[j] \in S
    BY <1>1
  <2>2. b \in Seq(S) /\ Len(b) = (IF i + 1 <= n THEN n - (i + 1) + 1 ELSE 0)
        /\ \A j \in 1 .. n - (i + 1) + 1 : b[j] = s[i + 1 + j - 1]
    BY <1>1, <2>1, SubSeqProperties
  <2> HIDE DEF b
  <2> QED BY <1>1, <2>2
<1>4. /\ a \o b \in Seq(S) /\ Len(a \o b) = Len(a) + Len(b)
      /\ \A j \in 1 .. Len(a) + Len(b) : (a \o b)[j] = IF j <= Len(a) THEN a[j] ELSE b[j - Len(a)]
  BY <1>2, <1>3, ConcatProperties
<1> DEFINE r == a \o b
<1>5. RemoveAt(s, i) = r
  BY DEF RemoveAt
<1> HIDE DEF a, b, r, n
<1>6. r \in Seq(S) /\ Len(r) = n - 1
  BY <1>1, <1>2, <1>3, <1>4 DEF r
<1>7. ASSUME NEW j \in 1 .. n - 1 PROVE r[j] = IF j < i THEN s[j] ELSE s[j + 1]
  <2>1. r[j] = IF j <= i - 1 THEN a[j] ELSE b[j - (i - 1)]
    BY <1>1, <1>2, <1>3, <1>4, <1>7 DEF r
  <2>2. CASE j < i
    BY <1>2, <2>1, <2>2
  <2>3. CASE ~(j < i)
    <3>1. b[j - (i - 1)] = s[j + 1]
      <4>1. j - (i - 1) \in 1 .. n - i /\ i + (j - (i - 1)) = j + 1
        BY <1>1, <2>3
      <4> QED BY <1>3, <4>1
    <3> QED BY <2>1, <2>3, <3>1
  <2> QED BY <2>2, <2>3
<1> QED BY <1>5, <1>6, <1>7 DEF n

\* Entry i takes in the entry behind it, which goes, and pages in no other.
Joined(inf, X, i, r) ==
    /\ r \in Entries /\ r.start <= r.end /\ Span(inf[i]) \subseteq Span(r) /\ Span(inf[i + 1]) \subseteq Span(r)
    /\ Span(r) \cap X \subseteq Span(inf[i]) \cup Span(inf[i + 1])
LEMMA TableBridge ==
    ASSUME NEW inf, NEW X, TableOf(inf, X), NEW i \in DOMAIN inf, i < Len(inf), NEW r, Joined(inf, X, i, r),
           NEW mid, Updated(mid, inf, i, r)
    PROVE  TableOf(RemoveAt(mid, i + 1), X \cup Span(r))
<1> DEFINE new == RemoveAt(mid, i + 1)
           n == Len(inf)
<1>1. /\ inf \in Seq(Entries) /\ n \in Nat /\ DOMAIN inf = 1 .. n /\ i \in 1 .. n - 1
      /\ mid \in Seq(Entries) /\ Len(mid) = n
      /\ mid[i] = r /\ \A j \in DOMAIN inf \ {i} : mid[j] = inf[j]
  BY DEF TableOf, Updated, Joined
<1>2. /\ new \in Seq(Entries) /\ Len(new) = n - 1
      /\ \A j \in 1 .. n - 1 : new[j] = IF j < i + 1 THEN mid[j] ELSE mid[j + 1]
  <2>1. i + 1 \in 1 .. Len(mid)
    BY <1>1
  <2> HIDE DEF n
  <2>2. /\ RemoveAt(mid, i + 1) \in Seq(Entries) /\ Len(RemoveAt(mid, i + 1)) = Len(mid) - 1
        /\ \A j \in 1 .. Len(mid) - 1 : RemoveAt(mid, i + 1)[j] = IF j < i + 1 THEN mid[j] ELSE mid[j + 1]
    BY <1>1, <2>1, RemoveFacts
  <2> QED BY <1>1, <2>2
<1> HIDE DEF new, n
<1>3. DOMAIN new = 1 .. n - 1 /\ new[i] = r
  BY <1>1, <1>2
<1>4. PICK at : at = [j \in 1 .. n - 1 |-> IF j <= i THEN j ELSE j + 1]
  OBVIOUS
<1>5. /\ \A j \in 1 .. n - 1 : at[j] \in 1 .. n /\ at[j] # i + 1 /\ (at[j] = i <=> j = i)
      /\ \A j, k \in 1 .. n - 1 : j # k => at[j] # at[k]
  BY <1>1, <1>4
<1>6. /\ \A j \in 1 .. n - 1 : j # i => new[j] = inf[at[j]]
      /\ \A j \in 1 .. n : j = i + 1 \/ \E k \in 1 .. n - 1 : at[k] = j
  <2>1. ASSUME NEW j \in 1 .. n - 1, j # i PROVE new[j] = inf[at[j]]
    <3>1. CASE j < i
      <4>1. new[j] = mid[j] /\ j \in 1 .. n /\ at[j] = j
        BY <1>1, <1>2, <1>4, <3>1
      <4> QED BY <1>1, <3>1, <4>1
    <3>2. CASE j > i
      <4>1. new[j] = mid[j + 1] /\ j + 1 \in 1 .. n /\ j + 1 # i /\ at[j] = j + 1
        BY <1>1, <1>2, <1>4, <3>2
      <4> QED BY <1>1, <4>1
    <3> QED BY <1>1, <2>1, <3>1, <3>2
  <2>2. ASSUME NEW j \in 1 .. n, j # i + 1 PROVE \E k \in 1 .. n - 1 : at[k] = j
    <3>1. CASE j <= i
      BY <1>1, <1>4, <3>1
    <3>2. CASE j > i
      <4>1. j - 1 \in 1 .. n - 1 /\ at[j - 1] = j
        BY <1>1, <1>4, <2>2, <3>2
      <4> QED BY <4>1
    <3> QED BY <1>1, <3>1, <3>2
  <2> QED BY <2>1, <2>2
<1>7. \A j \in 1 .. n : Span(inf[j]) \subseteq X
  <2>1. \A j \in DOMAIN inf : Span(inf[j]) \subseteq Frames
    BY <1>1, SpanFacts
  <2> QED BY <1>1, <2>1 DEF TableOf
<1>8. \A j \in DOMAIN new : new[j].start <= new[j].end
  BY <1>1, <1>3, <1>5, <1>6 DEF TableOf, Joined
<1>9. \A j, k \in DOMAIN new : j # k => Span(new[j]) \cap Span(new[k]) = {}
  <2>1. \A j \in 1 .. n \ {i, i + 1} : Span(inf[j]) \cap Span(r) = {}
    <3> SUFFICES ASSUME NEW j \in 1 .. n, j # i, j # i + 1 PROVE Span(inf[j]) \cap Span(r) = {}
      OBVIOUS
    <3>1. i \in 1 .. n /\ i + 1 \in 1 .. n
      BY <1>1
    <3>2. Span(inf[j]) \cap Span(inf[i]) = {} /\ Span(inf[j]) \cap Span(inf[i + 1]) = {}
      BY <1>1, <3>1 DEF TableOf
    <3> QED BY <1>7, <3>2 DEF Joined
  <2>2. \A j \in 1 .. n - 1 : j # i => Span(new[j]) \cap Span(new[i]) = {}
    BY <1>3, <1>5, <1>6, <2>1
  <2>3. \A j, k \in 1 .. n - 1 : j # k /\ j # i /\ k # i => Span(new[j]) \cap Span(new[k]) = {}
    <3> SUFFICES ASSUME NEW j \in 1 .. n - 1, NEW k \in 1 .. n - 1, j # k, j # i, k # i
                 PROVE  Span(new[j]) \cap Span(new[k]) = {}
      OBVIOUS
    <3>1. at[j] \in 1 .. n /\ at[k] \in 1 .. n /\ at[j] # at[k]
      BY <1>5
    <3>2. Span(inf[at[j]]) \cap Span(inf[at[k]]) = {}
      BY <1>1, <3>1 DEF TableOf
    <3> QED BY <1>6, <3>2
  <2>4. i \in 1 .. n - 1
    BY <1>1
  <2> QED BY <1>3, <2>2, <2>3, <2>4
<1>10. \A p \in Frames : p \in X \cup Span(r) <=> \E j \in DOMAIN new : p \in Span(new[j])
  <2> SUFFICES ASSUME NEW p \in Frames
               PROVE  p \in X \cup Span(r) <=> \E j \in DOMAIN new : p \in Span(new[j])
    OBVIOUS
  <2>1. p \in X <=> \E j \in 1 .. n : p \in Span(inf[j])
    BY <1>1 DEF TableOf
  <2>2. ASSUME p \in Span(r) PROVE \E j \in DOMAIN new : p \in Span(new[j])
    BY <1>1, <1>3, <2>2
  <2>3. ASSUME p \in X PROVE \E j \in DOMAIN new : p \in Span(new[j])
    <3>1. PICK j \in 1 .. n : p \in Span(inf[j])
      BY <2>1, <2>3
    <3>2. CASE j \in {i, i + 1}
      BY <2>2, <3>1, <3>2 DEF Joined
    <3>3. CASE j \notin {i, i + 1}
      <4>1. PICK k \in 1 .. n - 1 : at[k] = j
        BY <1>6, <3>3
      <4>2. new[k] = inf[j]
        BY <1>5, <1>6, <3>3, <4>1
      <4> QED BY <1>3, <3>1, <4>2
    <3> QED BY <3>2, <3>3
  <2>4. ASSUME NEW j \in DOMAIN new, p \in Span(new[j]) PROVE p \in X \cup Span(r)
    <3>1. CASE j = i
      <4>1. i \in 1 .. n /\ i + 1 \in 1 .. n
        BY <1>1
      <4> QED BY <1>3, <2>1, <2>4, <3>1, <4>1 DEF Joined
    <3>2. CASE j # i
      BY <1>3, <1>5, <1>6, <2>1, <2>4, <3>2
    <3> QED BY <3>1, <3>2
  <2> QED BY <2>2, <2>3, <2>4
<1> QED BY <1>2, <1>8, <1>9, <1>10 DEF TableOf, new, n

\* A range of free pages put into the table, or left out when the table is full.
LEMMA InsertStep ==
    ASSUME BootTypeOK, NEW X, TableOf(info, X), NEW s \in Frames, NEW e \in Frames, s <= e, NEW t \in Types,
           (s .. e) \cap X = {}
    PROVE  /\ Insert(s, e, t) \in Seq(Entries) /\ Len(Insert(s, e, t)) <= MaxInfo
           /\ Insert(s, e, t) # info => TableOf(Insert(s, e, t), X \cup (s .. e))
<1>0. PICK Y : Y = s .. e
  OBVIOUS
<1>a. Y \cap X = {}
  BY <1>0
<1>i. PICK inf : inf = info
  OBVIOUS
<1>b. TableOf(inf, X) /\ inf \in Seq(Entries)
  BY <1>i DEF TableOf
<1>1. /\ info \in Seq(Entries) /\ Len(info) \in Nat /\ DOMAIN info = 1 .. Len(info) /\ Len(info) <= MaxInfo
      /\ MaxInfo \in Nat /\ Frames \subseteq Nat /\ s \in Nat /\ e \in Nat
      /\ \A i \in DOMAIN info : info[i] \in Entries /\ info[i].start <= info[i].end
  <2>1. MaxInfo \in Nat /\ Frames \subseteq Nat
    BY BootAssumption DEF Frames
  <2>2. info \in Seq(Entries) /\ Len(info) <= MaxInfo
    BY DEF BootTypeOK, TableOf
  <2>3. \A i \in DOMAIN info : info[i].start <= info[i].end
    BY DEF TableOf
  <2>4. Len(info) \in Nat /\ DOMAIN info = 1 .. Len(info) /\ \A i \in DOMAIN info : info[i] \in Entries
    BY <2>2
  <2> QED BY <2>1, <2>2, <2>3, <2>4
<1>2. CASE Touched(s, e, t) = {}
  <2> DEFINE r == [start |-> s, end |-> e, type |-> t]
  <2>1. r \in Entries /\ Span(r) = s .. e /\ r.start <= r.end
    BY DEF Entries, Span
  <2>2. Insert(s, e, t) = IF Len(info) < MaxInfo THEN Append(info, r) ELSE info
    BY <1>2 DEF Insert
  <2> HIDE DEF r
  <2>3. TableOf(Append(info, r), X \cup (s .. e)) /\ Len(Append(info, r)) = Len(info) + 1
    BY <2>1, TableAppend
  <2>4. Append(info, r) \in Seq(Entries)
    BY <2>3 DEF TableOf
  <2>5. CASE Len(info) < MaxInfo
    <3>1. Insert(s, e, t) = Append(info, r)
      BY <2>2, <2>5
    <3>2. Len(info) + 1 <= MaxInfo
      BY <1>1, <2>5
    <3> QED BY <2>3, <2>4, <3>1, <3>2
  <2>6. CASE ~(Len(info) < MaxInfo)
    BY <1>1, <2>2, <2>6
  <2> QED BY <2>5, <2>6
<1>3. CASE Touched(s, e, t) # {}
  <2>1. PICK i : i = Min(Touched(s, e, t))
    OBVIOUS
  <2>2. i \in Touched(s, e, t)
    <3>1. Touched(s, e, t) \subseteq Nat
      BY <1>1 DEF Touched
    <3> QED BY <1>3, <2>1, <3>1, MinIs
  <2>3. PICK o : o = info[i]
    OBVIOUS
  <2>4. /\ i \in DOMAIN info /\ o \in Entries /\ o.start \in Frames /\ o.end \in Frames /\ o.type \in Types
        /\ o.start <= o.end /\ Span(o) = o.start .. o.end /\ o.start \in Nat /\ o.end \in Nat
    BY <1>1, <2>2, <2>3 DEF Touched, Entries, Span
  <2>5. CASE ~Follows(i, s)
    <3> DEFINE r == [o EXCEPT !.start = s]
    <3>1. Insert(s, e, t) = [inf EXCEPT ![i] = r]
      BY <1>3, <2>1, <2>3, <2>5, <1>i DEF Insert
    <3>2. o.start = e + 1
      BY <2>2, <2>3, <2>5 DEF Touched, Precedes
    <3>3. r \in Entries /\ r.start = s /\ r.end = o.end
      BY <2>4 DEF Entries
    <3> HIDE DEF r
    <3>4. r.start <= r.end /\ Span(r) = Span(inf[i]) \cup Y
      <4>1. Span(r) = r.start .. r.end
        BY DEF Span
      <4> QED BY <1>0, <1>1, <1>i, <2>3, <2>4, <3>2, <3>3, <4>1
    <3>5. TableOf(Insert(s, e, t), X \cup Span(r)) 
      <4>1. i \in DOMAIN inf /\ r \in Entries /\ Extended(inf, X, i, r)
        BY <1>a, <1>i, <2>4, <3>3, <3>4 DEF Extended
      <4>2. Updated(Insert(s, e, t), inf, i, r)
        BY <1>b, <3>1, <4>1, UpdatedIs
      <4> QED BY <1>b, <4>1, <4>2, TableGrow
    <3>6. Insert(s, e, t) \in Seq(Entries) /\ Len(Insert(s, e, t)) = Len(inf)
      BY <1>b, <1>i, <2>4, <3>1, <3>3
    <3>7. X \cup Span(r) = X \cup (s .. e)
      <4>1. Span(inf[i]) \subseteq X
        BY <1>b, <1>i, <2>4, SpanFacts DEF TableOf
      <4> QED BY <1>0, <3>4, <4>1
    <3> QED BY <1>i, <1>1, <3>1, <3>5, <3>6, <3>7
  <2>6. CASE Follows(i, s) /\ OpenEnd(i, t)
    <3> DEFINE r == [o EXCEPT !.end = e]
    <3>1. Insert(s, e, t) = [inf EXCEPT ![i] = r]
      BY <1>3, <2>1, <2>3, <2>6, <1>i DEF Insert
    <3>2. o.end = s - 1
      BY <2>3, <2>6 DEF Follows
    <3>3. r \in Entries /\ r.end = e /\ r.start = o.start
      BY <2>4 DEF Entries
    <3> HIDE DEF r
    <3>4. r.start <= r.end /\ Span(r) = Span(inf[i]) \cup Y
      <4>1. Span(r) = r.start .. r.end
        BY DEF Span
      <4> QED BY <1>0, <1>1, <1>i, <2>3, <2>4, <3>2, <3>3, <4>1
    <3>5. TableOf(Insert(s, e, t), X \cup Span(r)) 
      <4>1. i \in DOMAIN inf /\ r \in Entries /\ Extended(inf, X, i, r)
        BY <1>a, <1>i, <2>4, <3>3, <3>4 DEF Extended
      <4>2. Updated(Insert(s, e, t), inf, i, r)
        BY <1>b, <3>1, <4>1, UpdatedIs
      <4> QED BY <1>b, <4>1, <4>2, TableGrow
    <3>6. Insert(s, e, t) \in Seq(Entries) /\ Len(Insert(s, e, t)) = Len(inf)
      BY <1>b, <1>i, <2>4, <3>1, <3>3
    <3>7. X \cup Span(r) = X \cup (s .. e)
      <4>1. Span(inf[i]) \subseteq X
        BY <1>b, <1>i, <2>4, SpanFacts DEF TableOf
      <4> QED BY <1>0, <3>4, <4>1
    <3> QED BY <1>i, <1>1, <3>1, <3>5, <3>6, <3>7
  <2>7. CASE Follows(i, s) /\ ~OpenEnd(i, t)
    <3>1. i < Len(info) /\ info[i + 1].start = e + 1
      <4>1. ~Precedes(i, e)
        BY <1>1, <2>3, <2>4, <2>7 DEF Precedes, Follows
      <4> QED BY <2>2, <2>7, <4>1 DEF Touched, Bridged
    <3>2. PICK x : x = info[i + 1]
      OBVIOUS
    <3>3. x \in Entries /\ x.start \in Frames /\ x.end \in Frames /\ x.start <= x.end
      <4>1. i + 1 \in DOMAIN info
        BY <1>1, <2>4, <3>1
      <4>2. x \in Entries /\ x.start <= x.end
        BY <1>1, <3>2, <4>1
      <4> QED BY <4>2 DEF Entries
    <3> DEFINE r == [o EXCEPT !.end = x.end]
    <3>5. o.end = s - 1
      BY <2>3, <2>7 DEF Follows
    <3>6. r \in Entries /\ r.end = x.end /\ r.start = o.start
      BY <2>4, <3>3 DEF Entries
    <3> HIDE DEF r
    <3>4. PICK mid : Updated(mid, inf, i, r) /\ Insert(s, e, t) = RemoveAt(mid, i + 1)
      <4>1. Insert(s, e, t) = RemoveAt([inf EXCEPT ![i] = r], i + 1)
        BY <1>3, <2>1, <2>3, <2>7, <3>2, <1>i DEF Insert, r
      <4>2. Updated([inf EXCEPT ![i] = r], inf, i, r)
        BY <1>b, <1>i, <2>4, <3>6, UpdatedIs
      <4> QED BY <4>1, <4>2
    <3>7. r.start <= r.end /\ Span(r) = Span(inf[i]) \cup Y \cup Span(inf[i + 1])
      <4>1. Span(r) = r.start .. r.end /\ Span(x) = x.start .. x.end /\ x.start \in Nat /\ x.end \in Nat
        BY <1>1, <3>3 DEF Span
      <4>2. x.start = e + 1
        BY <3>1, <3>2
      <4>3. Span(r) = Span(o) \cup Y \cup Span(x)
        BY <1>0, <1>1, <2>4, <3>3, <3>5, <3>6, <4>1, <4>2
      <4> QED BY <1>1, <1>i, <2>3, <2>4, <3>2, <3>3, <3>5, <3>6, <4>1, <4>2, <4>3
    <3>8. TableOf(RemoveAt(mid, i + 1), X \cup Span(r))
      <4>1. i \in DOMAIN inf /\ i < Len(inf) /\ Joined(inf, X, i, r)
        BY <1>a, <1>i, <2>4, <3>1, <3>6, <3>7 DEF Joined
      <4> QED BY <1>b, <3>4, <4>1, TableBridge
    <3>9. RemoveAt(mid, i + 1) \in Seq(Entries) /\ Len(RemoveAt(mid, i + 1)) = Len(inf) - 1
      <4>1. mid \in Seq(Entries) /\ Len(mid) = Len(inf) /\ i + 1 \in 1 .. Len(mid)
        BY <1>1, <1>i, <2>4, <3>1, <3>4 DEF Updated
      <4> HIDE DEF Entries
      <4> QED BY <4>1, RemoveFacts
    <3>10. X \cup Span(r) = X \cup (s .. e)
      <4>1. i + 1 \in DOMAIN inf
        BY <1>1, <1>i, <2>4, <3>1
      <4>2. Span(inf[i]) \subseteq X /\ Span(inf[i + 1]) \subseteq X
        BY <1>b, <1>1, <1>i, <2>4, <4>1, SpanFacts DEF TableOf
      <4> QED BY <1>0, <3>7, <4>2
    <3>11. Len(inf) - 1 <= MaxInfo
      BY <1>i, <1>1
    <3>12. Insert(s, e, t) \in Seq(Entries) /\ Len(Insert(s, e, t)) <= MaxInfo
      BY <3>4, <3>9, <3>11
    <3> QED BY <3>4, <3>8, <3>10, <3>12
  <2> QED BY <2>5, <2>6, <2>7
<1> QED BY <1>2, <1>3

\* The table is right, but for what was given out when it was full.
BootIInv == BootTypeOK /\ TableOf(info, used \ unrecorded)

\* bootmm_alloc_pages keeps the table right.
LEMMA BootStep ==
    ASSUME BootIInv, NEW n \in Nat \ {0}, NEW t \in Types, NEW align \in Nat \ {0}, BootAlloc(n, t, align)
    PROVE  BootIInv'
<1> DEFINE p == FoundRun(n, align)
           e == p + n - 1
<1>1. /\ p # NoRun /\ used' = used \cup FrameRun(p, n) /\ last_alloc_end' = e
      /\ info' = Insert(p, e, t)
      /\ unrecorded' = IF info' = info THEN unrecorded \cup FrameRun(p, n) ELSE unrecorded
  BY DEF BootAlloc
<1>2. p \in Nat /\ p + n <= MaxPfn /\ FrameRun(p, n) \cap used = {} /\ MaxPfn \in Nat
  BY <1>1, FoundFacts, BootAssumption DEF BootIInv
<1> HIDE DEF p
<1>3. p \in Frames /\ e \in Frames /\ p <= e /\ FrameRun(p, n) = p .. e
  BY <1>2 DEF Frames, FrameRun
<1> HIDE DEF e
<1>4. FrameRun(p, n) \subseteq Frames /\ e \in FrameRun(p, n)
  BY <1>2, <1>3 DEF Frames
<1>5. PICK X : X = used \ unrecorded
  OBVIOUS
<1>6. BootTypeOK /\ TableOf(info, X) /\ (p .. e) \cap X = {}
  BY <1>2, <1>3, <1>5 DEF BootIInv
<1>7. /\ info' \in Seq(Entries) /\ Len(info') <= MaxInfo
      /\ info' # info => TableOf(info', X \cup (p .. e))
  BY <1>1, <1>3, <1>6, InsertStep
<1>8. BootTypeOK'
  <2>1. used' \subseteq Frames /\ last_alloc_end' \in used' /\ unrecorded' \subseteq used'
    BY <1>1, <1>4, <1>6 DEF BootTypeOK
  <2> QED BY <1>7, <2>1 DEF BootTypeOK, Entries, Frames
<1>9. CASE info' = info
  <2>1. used' \ unrecorded' = X
    BY <1>1, <1>2, <1>5, <1>9
  <2> QED BY <1>6, <1>8, <1>9, <2>1 DEF BootIInv
<1>10. CASE info' # info
  <2>1. used' \ unrecorded' = X \cup (p .. e)
    BY <1>1, <1>2, <1>3, <1>5, <1>6, <1>10 DEF BootTypeOK
  <2> QED BY <1>7, <1>8, <1>10, <2>1 DEF BootIInv
<1> QED BY <1>9, <1>10

LEMMA TableIsExact == BootIInv => TableExact
<1> SUFFICES ASSUME BootIInv, NEW p \in Frames
             PROVE  Cardinality({i \in DOMAIN info : p \in Recorded(i)}) =
                        IF p \in used \ unrecorded THEN 1 ELSE 0
  BY DEF TableExact, BootIInv
<1> DEFINE S == {i \in DOMAIN info : p \in Recorded(i)}
<1>1. \A i \in DOMAIN info : Recorded(i) = Span(info[i])
  BY DEF Recorded, Span
<1>2. p \in used \ unrecorded <=> \E i \in DOMAIN info : p \in Span(info[i])
  BY DEF BootIInv, TableOf
<1>3. CASE p \in used \ unrecorded
  <2>1. PICK i \in DOMAIN info : p \in Span(info[i])
    BY <1>2, <1>3
  <2>2. \A j \in DOMAIN info : j # i => p \notin Span(info[j])
    BY <2>1 DEF BootIInv, TableOf
  <2>3. S = {i}
    BY <1>1, <2>1, <2>2
  <2> QED BY <1>3, <2>3, FS_Singleton
<1>4. CASE p \notin used \ unrecorded
  <2>1. S = {}
    BY <1>1, <1>2, <1>4
  <2> QED BY <1>4, <2>1, FS_EmptySet
<1> QED BY <1>3, <1>4

LEMMA BootStart == BootInit => BootIInv
<1> SUFFICES ASSUME BootInit PROVE BootIInv
  OBVIOUS
<1> DEFINE r == [start |-> 0, end |-> KernelPages - 1, type |-> "kernel"]
<1>1. KernelPages \in Nat \ {0} /\ MaxPfn \in Nat /\ KernelPages < MaxPfn /\ MaxInfo \in Nat \ {0} /\ "kernel" \in Types
  BY BootAssumption
<1>2. r \in Entries /\ r.start <= r.end /\ Span(r) = 0 .. KernelPages - 1
  BY <1>1 DEF Entries, Span, Frames
<1>3. /\ used = Span(r) /\ last_alloc_end = KernelPages - 1 /\ info = <<r>> /\ unrecorded = {}
  BY <1>2 DEF BootInit
<1> HIDE DEF r
<1>4. info \in Seq(Entries) /\ Len(info) = 1 /\ DOMAIN info = {1} /\ info[1] = r
  BY <1>2, <1>3
<1>5. BootTypeOK
  <2>1. used \subseteq Frames /\ last_alloc_end \in used /\ unrecorded \subseteq used
    BY <1>1, <1>2, <1>3 DEF Frames
  <2> QED BY <1>1, <1>4, <2>1 DEF BootTypeOK, Entries
<1>6. TableOf(info, used \ unrecorded)
  BY <1>2, <1>3, <1>4 DEF TableOf
<1> QED BY <1>5, <1>6 DEF BootIInv

(***************************************************************************)
(* The hand-over                                                            *)
(***************************************************************************)
\* What init_buddy finds: no one has asked bootmm for anything.
Untouched ==
    /\ last_alloc_end = KernelPages - 1
    /\ info = <<[start |-> 0, end |-> KernelPages - 1, type |-> "kernel"]>>

LEMMA MaxOne == \A x \in Int : Max({x}) = x
  BY DEF Max

\* The array of struct page lies behind the kernel, in the same entry of the table.
LEMMA ArrayPlace ==
    ASSUME BootIInv, Untouched, used = 0 .. KernelPages - 1, BootAlloc(StructPages, "kernel", 1)
    PROVE  used' = 0 .. KernelPages + StructPages - 1 /\ KernelEnd' = KernelPages + StructPages - 1
<1> DEFINE n == StructPages
           p == FoundRun(n, 1)
<1>1. /\ KernelPages \in Nat \ {0} /\ MaxPfn \in Nat /\ KernelPages < MaxPfn /\ n \in Nat \ {0}
      /\ BootTypeOK
  BY BootAssumption, MemoryAssumption DEF BootIInv
<1>2. /\ p # NoRun /\ used' = used \cup FrameRun(p, n) /\ info' = Insert(p, p + n - 1, "kernel")
  BY DEF BootAlloc
<1>3. p \in Nat /\ p + n <= MaxPfn /\ FrameRun(p, n) \cap used = {}
  BY <1>1, <1>2, FoundFacts
<1>4. p >= KernelPages
  <2>1. p \in FrameRun(p, n)
    BY <1>1, <1>3 DEF FrameRun
  <2> HIDE DEF p
  <2> QED BY <1>1, <1>3, <2>1
<1>5. p = KernelPages
  <2>1. PICK f : FindPages(n, KernelPages, MaxPfn, 1) = f[RoundUp(KernelPages, 1)] /\ Searches(f, n, MaxPfn, 1)
    <3>1. KernelPages \in Nat /\ MaxPfn \in Nat /\ n \in Nat \ {0} /\ 1 \in Nat \ {0}
      BY <1>1
    <3> HIDE DEF n, p
    <3> QED BY <3>1, FindIs
  <2>2. RoundUp(KernelPages, 1) = KernelPages
    BY <1>1, RoundUpFacts
  <2>3. f[KernelPages] = Turn(f, KernelPages, n, MaxPfn, 1)
    BY <1>1, <2>1 DEF Searches
  <2>4. Stops(KernelPages, n, MaxPfn) = {}
    <3> HIDE DEF p, n
    <3>1. \A q \in FrameRun(KernelPages, n) : q \in Nat /\ q < MaxPfn /\ q >= KernelPages
      BY <1>1, <1>3, <1>4 DEF FrameRun
    <3> QED BY <1>1, <3>1 DEF Stops
  <2>5. Turn(f, KernelPages, n, MaxPfn, 1) = KernelPages
    BY <1>1, <2>4 DEF Turn
  <2>6. FindPages(n, last_alloc_end + 1, MaxPfn, 1) = KernelPages
    <3>1. last_alloc_end + 1 = KernelPages
      BY <1>1 DEF Untouched
    <3> QED BY <2>1, <2>2, <2>3, <2>5, <3>1
  <2> QED BY <1>1, <2>6 DEF FoundRun, NoRun
<1> DEFINE e == KernelPages + n - 1
           r == [start |-> 0, end |-> KernelPages - 1, type |-> "kernel"]
<1>6. used' = 0 .. e
  <2> HIDE DEF p, n
  <2> QED BY <1>1, <1>2, <1>5 DEF FrameRun, e
<1>7. info = <<r>> /\ Len(info) = 1 /\ info[1] = r /\ DOMAIN info = {1}
  BY DEF Untouched
<1>8. Touched(KernelPages, e, "kernel") = {1}
  <2>1. Follows(1, KernelPages) /\ OpenEnd(1, "kernel") /\ info[1].type = "kernel"
    BY <1>7 DEF Follows, OpenEnd
  <2> QED BY <1>7, <2>1 DEF Touched
<1>9. Insert(KernelPages, e, "kernel") = [info EXCEPT ![1].end = e]
  <2>1. Min({1}) = 1
    BY MinIs
  <2>2. Follows(1, KernelPages) /\ OpenEnd(1, "kernel")
    BY <1>7 DEF Follows, OpenEnd
  <2> QED BY <1>8, <2>1, <2>2 DEF Insert
<1>10. DOMAIN info' = {1} /\ info'[1].end = e
  <2>1. info' = [info EXCEPT ![1].end = e]
    BY <1>2, <1>5, <1>9
  <2> HIDE DEF e
  <2> QED BY <1>7, <2>1
<1>11. {info'[i].end : i \in DOMAIN info'} = {e}
  BY <1>10
<1>12. KernelEnd' = e
  <2>1. e \in Int
    BY <1>1
  <2> HIDE DEF e
  <2> QED BY <1>11, <2>1, MaxOne DEF KernelEnd
<1> QED BY <1>6, <1>12

\* The pages the buddy system gets are pages of the memory.
LEMMA ArenaPages ==
    ASSUME NEW e \in Nat, NEW m \in Nat \ {0}
    PROVE  /\ RoundUp(e, m) .. m * (MaxPfn \div m) - 1 \subseteq Pages
           /\ e % m # 0 => e < RoundUp(e, m)
<1>1. MaxPfn \in Nat /\ NPages = MaxPfn
  BY BootAssumption, MemoryAssumption
<1>2. m * (MaxPfn \div m) <= MaxPfn /\ m * (MaxPfn \div m) \in Nat
  <2> DEFINE d == MaxPfn \div m
             x == MaxPfn % m
  <2>1. d \in Nat /\ x \in Nat /\ MaxPfn = (d * m) + x
    BY <1>1, Quotient
  <2> HIDE DEF d, x
  <2>2. d * m \in Nat /\ d * m = m * d
    BY <2>1, Z3
  <2> QED BY <1>1, <2>1, <2>2 DEF d
<1>3. RoundUp(e, m) \in Nat
  BY RoundUpFacts
<1>4. ASSUME e % m # 0 PROVE e < RoundUp(e, m)
  <2> DEFINE d == e \div m
             x == e % m
  <2>1. d \in Nat /\ x \in Nat \ {0} /\ x < m /\ e = (d * m) + x
    BY <1>4, Quotient
  <2>2. ((d + 1) * m + (x - 1)) \div m = d + 1
    <3> HIDE DEF d, x
    <3>1. d + 1 \in Nat /\ x - 1 \in Nat /\ x - 1 < m
      BY <2>1
    <3> QED BY <3>1, QuotientIs
  <2> HIDE DEF d, x
  <2>3. e + m - 1 = (d + 1) * m + (x - 1)
    BY <2>1, Z3
  <2>4. RoundUp(e, m) = m * (d + 1)
    BY <2>2, <2>3 DEF RoundUp
  <2>5. m * (d + 1) = d * m + m
    BY <2>1, Z3
  <2>6. d * m \in Nat
    BY <2>1, Z3
  <2> QED BY <2>1, <2>4, <2>5, <2>6
<1> QED BY <1>1, <1>2, <1>3, <1>4 DEF Pages

(***************************************************************************)
(* The system                                                               *)
(***************************************************************************)
LEMMA SlabStart ==
    ASSUME live = {}, held = {}, halted = 0, junk = {}, free \subseteq Pages,
           slab = [p \in Pages |-> None], nr_objs = [p \in Pages |-> 0],
           cpu = [c \in Caches |-> NoPage], full = [c \in Caches |-> {}]
    PROVE  SlabIInv /\ WordsKept
<1>1. SlabTypes
  BY DEF SlabTypes
<1>2. BlocksApart /\ SlabHeld /\ Placed /\ CpuPlaced /\ ObjectsApart /\ WordsKept
  BY DEF BlocksApart, SlabHeld, Placed, CpuPlaced, ObjectsApart, WordsKept
<1>3. FullIsFull
  BY CacheNumbers DEF FullIsFull
<1> QED BY <1>1, <1>2, <1>3 DEF SlabIInv

\* Nothing of kmalloc's lies in U.
Clear(U) == free \cap U = {} /\ \A b \in held : PageRun(b) \cap U = {}

\* Callers only trade pages with the buddy system.
LEMMA CallPages ==
    ASSUME SafeCall, NEW U, Clear(U) PROVE Clear(U)'
<1>0. \A b : PageRun(b)' = PageRun(b)
  BY DEF PageRun
<1>1. ASSUME NEW size \in Sizes, FromSlab(size) PROVE Clear(U)'
  <2>1. FromCpuPage(BestFit(size), size) \/ \E p \in Pages : FromNewPage(BestFit(size), p, size)
    BY <1>1 DEF FromSlab
  <2>2. CASE FromCpuPage(BestFit(size), size)
    BY <1>0, <2>2 DEF FromCpuPage, Clear
  <2>3. ASSUME NEW p \in Pages, FromNewPage(BestFit(size), p, size) PROVE Clear(U)'
    <3>1. p \in free /\ free' = free \ {p} /\ held' = held \cup {[page |-> p, order |-> 0]}
      BY <2>3 DEF FromNewPage, TakePage
    <3>2. PageRun([page |-> p, order |-> 0]) = {p}
      BY SlabAssumption DEF PageRun, Pages
    <3> QED BY <1>0, <3>1, <3>2 DEF Clear
  <2> QED BY <2>1, <2>2, <2>3
<1>2. ASSUME NEW size \in Sizes, FromBuddy(size) PROVE Clear(U)'
  <2>1. PICK b \in AlignedRuns(OrderAsked(size)) : free' = free \ PageRun(b) /\ held' = held \cup {b}
    BY <1>2 DEF FromBuddy
  <2>2. PageRun(b) \subseteq free
    BY DEF AlignedRuns
  <2> QED BY <1>0, <2>1, <2>2 DEF Clear
<1>3. ASSUME NEW size \in Sizes, Halt(size) PROVE Clear(U)'
  BY <1>0, <1>3 DEF Halt, Clear
<1>4. ASSUME NEW o \in live, Kfree(o) PROVE Clear(U)'
  <2>1. PICK b \in held : free' = free \cup PageRun(b) /\ held' = held \ {b}
    BY <1>4 DEF Kfree
  <2> QED BY <1>0, <2>1 DEF Clear
<1>5. ASSUME NEW o \in live, NEW n \in FileSizes, ExecLoad(o, n) PROVE Clear(U)'
  BY <1>0, <1>5 DEF ExecLoad, Clear
<1> QED BY <1>1, <1>2, <1>3, <1>4, <1>5 DEF SafeCall

\* Until init_buddy has run there is no kmalloc; it runs when bootmm has only the kernel.
NotBooted ==
    /\ SlabInit({})
    /\ 0 .. KernelPages - 1 \subseteq used
    /\ used = 0 .. KernelPages - 1 => Untouched

\* The last page init_buddy finds in use begins no block of the largest order: the arena
\* begins with the first block behind it.  bootmm's last page is the number that is
\* rounded up, not the first page behind it.
LastPageInside == (KernelPages + StructPages - 1) % BlockSize[MaxOrder] # 0

MemoryIInv ==
    /\ BootIInv /\ SlabIInv
    /\ booted \in BOOLEAN /\ (~booted => NotBooted)
    /\ WordsKept
    /\ LastPageInside => BootPagesKept

LEMMA Starts == Init => MemoryIInv
<1> SUFFICES ASSUME Init PROVE MemoryIInv
  OBVIOUS
<1>1. BootIInv /\ NotBooted /\ ~booted /\ booted \in BOOLEAN
  BY BootStart DEF Init, NotBooted, Untouched, BootInit
<1>2. SlabIInv /\ WordsKept
  BY SlabStart DEF Init, SlabInit
<1> QED BY <1>1, <1>2 DEF MemoryIInv, BootPagesKept

\* kmalloc's state is not touched.
LEMMA KmallocRests ==
    ASSUME SlabIInv, UNCHANGED slabVars PROVE SlabIInv' /\ (WordsKept => WordsKept')
<1>1. SlabIInv'
  <2>1. halted' \in Sizes \cup {0}
    BY DEF slabVars, SlabIInv, SlabTypes
  <2> QED BY <2>1, QuietStep DEF slabVars
<1>2. WordsKept => WordsKept'
  BY DEF slabVars, WordsKept, Words, Header, Links, Slot, Base
<1> QED BY <1>1, <1>2
LEMMA BootRests ==
    ASSUME BootIInv, UNCHANGED bootVars PROVE BootIInv'
  BY DEF bootVars, BootIInv, BootTypeOK, TableOf

LEMMA BootCallStep ==
    ASSUME MemoryIInv, BootCall PROVE MemoryIInv'
<1>1. BootIInv /\ SlabIInv /\ ~booted /\ NotBooted /\ UNCHANGED <<slabVars, booted>>
  BY DEF MemoryIInv, BootCall
<1>2. SlabIInv' /\ (WordsKept => WordsKept')
  BY <1>1, KmallocRests
<1>3. SlabInit({})'
  BY <1>1 DEF NotBooted, SlabInit, slabVars
<1>4. ASSUME NEW r \in Requests, NEW t \in Types, BootAlloc(r.n, t, r.align) PROVE MemoryIInv'
  <2>1. r.n \in Nat \ {0} /\ r.align \in Nat \ {0}
    BY MemoryAssumption
  <2>2. BootIInv'
    BY <1>1, <1>4, <2>1, BootStep
  <2>3. used' # 0 .. KernelPages - 1
    <3> DEFINE p == FoundRun(r.n, r.align)
    <3>1. p # NoRun /\ used' = used \cup FrameRun(p, r.n)
      BY <1>4 DEF BootAlloc
    <3>2. p \in Nat /\ FrameRun(p, r.n) \cap used = {}
      BY <1>1, <2>1, <3>1, FoundFacts DEF BootIInv
    <3>3. p \in FrameRun(p, r.n)
      <4> HIDE DEF p
      <4> QED BY <2>1, <3>2 DEF FrameRun
    <3> QED BY <1>1, <3>1, <3>2, <3>3 DEF NotBooted
  <2>4. (0 .. KernelPages - 1) \subseteq used'
    BY <1>1, <1>4 DEF NotBooted, BootAlloc
  <2> QED BY <1>1, <1>2, <1>3, <2>2, <2>3, <2>4 DEF MemoryIInv, NotBooted, BootPagesKept
<1>5. ASSUME NEW r \in Requests, BootRefuse(r.n, r.align) PROVE MemoryIInv'
  <2>1. UNCHANGED bootVars
    BY <1>5 DEF BootRefuse
  <2>2. BootIInv'
    BY <1>1, <2>1, BootRests
  <2>3. NotBooted'
    BY <1>1, <1>3, <2>1 DEF NotBooted, Untouched, bootVars
  <2> QED BY <1>1, <1>2, <2>2, <2>3 DEF MemoryIInv, BootPagesKept
<1> QED BY <1>4, <1>5 DEF BootCall

LEMMA InitBuddyStep ==
    ASSUME MemoryIInv, InitBuddy PROVE MemoryIInv'
<1> DEFINE m == BlockSize[MaxOrder]
           e == KernelPages + StructPages - 1
<1>1. /\ BootIInv /\ ~booted /\ NotBooted /\ used = 0 .. KernelPages - 1 /\ Untouched
      /\ BootAlloc(StructPages, "kernel", 1)
      /\ free' = ArenaStart(m)' .. ArenaEnd(m) - 1 /\ booted' = TRUE
      /\ UNCHANGED <<held, slab, nr_objs, cpu, full, halted, live, junk>>
  BY DEF MemoryIInv, InitBuddy, NotBooted
<1>2. /\ m \in Nat \ {0} /\ e \in Nat /\ StructPages \in Nat \ {0} /\ MaxPfn \in Nat
      /\ "kernel" \in Types /\ 1 \in Nat \ {0}
  BY SlabAssumption, BootAssumption, MemoryAssumption DEF Orders
<1>3. used' = 0 .. e /\ KernelEnd' = e
  BY <1>1, ArrayPlace
<1>4. BootIInv'
  BY <1>1, <1>2, BootStep
<1> HIDE DEF m, e
<1>5. free' = RoundUp(e, m) .. m * (MaxPfn \div m) - 1
  BY <1>1, <1>3 DEF ArenaStart, ArenaEnd, RoundUp
<1>6. free' \subseteq Pages /\ (e % m # 0 => e < RoundUp(e, m)) /\ RoundUp(e, m) \in Nat
  BY <1>2, <1>5, ArenaPages, RoundUpFacts
<1>7. SlabIInv' /\ WordsKept'
  <2>1. /\ SlabIInv /\ live = {} /\ held = {} /\ halted = 0 /\ cpu = [c \in Caches |-> NoPage]
    BY <1>1 DEF NotBooted, SlabInit, MemoryIInv
  <2>2. SlabTypes'
    BY <1>1, <1>6, <2>1 DEF SlabIInv, SlabTypes
  <2>3. BlocksApart' /\ SlabHeld' /\ Placed' /\ CpuPlaced' /\ ObjectsApart' /\ WordsKept'
    BY <1>1, <2>1 DEF SlabIInv, BlocksApart, SlabHeld, Placed, CpuPlaced, ObjectsApart, WordsKept
  <2>4. FullIsFull'
    BY <1>1, <2>1 DEF SlabIInv, FullIsFull, Links, Slot
  <2> QED BY <2>2, <2>3, <2>4 DEF SlabIInv
<1>8. LastPageInside => BootPagesKept'
  <2> SUFFICES ASSUME LastPageInside PROVE free' \cap used' = {} /\ held' = {}
    BY DEF BootPagesKept
  <2>1. e < RoundUp(e, m)
    BY <1>6 DEF LastPageInside, m, e
  <2>2. free' \cap used' = {}
    BY <1>2, <1>3, <1>5, <1>6, <2>1
  <2> QED BY <1>1, <2>2 DEF NotBooted, SlabInit
<1> QED BY <1>1, <1>4, <1>7, <1>8 DEF MemoryIInv

LEMMA RunStep ==
    ASSUME MemoryIInv, Run(SafeCall) PROVE MemoryIInv'
<1>1. booted /\ SafeCall /\ UNCHANGED bootVars /\ booted' = booted /\ BootIInv /\ SlabIInv
  BY DEF MemoryIInv, Run
<1>2. BootIInv' /\ SlabIInv'
  BY <1>1, BootRests, CallStep
<1>3. WordsKept'
  BY <1>1, CallWords DEF MemoryIInv
<1>4. LastPageInside => BootPagesKept'
  <2> SUFFICES ASSUME LastPageInside PROVE BootPagesKept'
    OBVIOUS
  <2>1. Clear(used)
    BY <1>1 DEF MemoryIInv, BootPagesKept, Clear
  <2>2. PICK U : U = used
    OBVIOUS
  <2>3. Clear(U)'
    BY <1>1, <2>1, <2>2, CallPages
  <2>4. used' = U
    BY <1>1, <2>2 DEF bootVars
  <2> QED BY <2>3, <2>4 DEF BootPagesKept, Clear
<1> QED BY <1>1, <1>2, <1>3, <1>4 DEF MemoryIInv

LEMMA Stutters ==
    ASSUME MemoryIInv, UNCHANGED vars PROVE MemoryIInv'
<1>1. UNCHANGED bootVars /\ UNCHANGED slabVars /\ booted' = booted /\ BootIInv /\ SlabIInv
  BY DEF MemoryIInv, vars
<1>2. BootIInv' /\ SlabIInv' /\ (WordsKept => WordsKept')
  BY <1>1, BootRests, KmallocRests
<1>3. NotBooted => NotBooted'
  BY <1>1 DEF NotBooted, SlabInit, Untouched, slabVars, bootVars
<1>4. BootPagesKept => BootPagesKept'
  BY <1>1 DEF BootPagesKept, PageRun, slabVars, bootVars
<1> QED BY <1>1, <1>2, <1>3, <1>4 DEF MemoryIInv

\* The invariant.
THEOREM MemoryInvariant == Spec => []MemoryIInv
<1>1. MemoryIInv /\ [Next]_vars => MemoryIInv'
  <2> SUFFICES ASSUME MemoryIInv, [Next]_vars PROVE MemoryIInv'
    OBVIOUS
  <2>1. CASE BootCall
    BY <2>1, BootCallStep
  <2>2. CASE InitBuddy
    BY <2>2, InitBuddyStep
  <2>3. CASE Run(SafeCall)
    BY <2>3, RunStep
  <2>4. CASE Rest
    BY <2>4, Stutters DEF Rest
  <2>5. CASE UNCHANGED vars
    BY <2>5, Stutters
  <2> QED BY <2>1, <2>2, <2>3, <2>4, <2>5 DEF Next
<1> QED BY Starts, <1>1, PTL DEF Spec

\* The table of the boot memory map says which pages are in use.
THEOREM TableRight == Spec => []TableExact
<1>1. MemoryIInv => TableExact
  BY TableIsExact DEF MemoryIInv
<1> QED BY <1>1, MemoryInvariant, PTL

\* find_pages, first behind the last run and then in front of it, misses no free run.
THEOREM RunsAreFound == Spec => []RunsFound
<1>1. MemoryIInv => RunsFound
  BY Finds DEF MemoryIInv, BootIInv
<1> QED BY <1>1, MemoryInvariant, PTL

\* Objects share no byte, whatever caches and blocks they come from, as long as the callers
\* keep to SafeCall: no block is freed while a held twin would be merged with it.
THEOREM ObjectsStayApart == Spec => []ObjectsApart
<1>1. MemoryIInv => ObjectsApart
  BY DEF MemoryIInv, SlabIInv
<1> QED BY <1>1, MemoryInvariant, PTL

\* An object lies in a block that is held, and clear of the words of its page that
\* slab_alloc needs, as long as the callers keep to SafeCall.
THEOREM ObjectsAreHoused == Spec => []ObjectsHoused
<1>1. MemoryIInv => ObjectsHoused
  BY Housed DEF MemoryIInv
<1> QED BY <1>1, MemoryInvariant, PTL

\* No caller that keeps to SafeCall overwrites what slab_alloc has yet to read; a program
\* that does not fit the block exec reads it to is no such caller.
THEOREM LinksStayIntact == Spec => []LinksIntact
<1>1. MemoryIInv => LinksIntact
  BY DEF MemoryIInv, SlabIInv, WordsKept, LinksIntact
<1> QED BY <1>1, MemoryInvariant, PTL

\* No block and no object lies where bootmm placed the kernel or the array of struct page,
\* if that array does not end with the first page of a block of the largest order.
THEOREM BootPagesStay == ASSUME LastPageInside PROVE Spec => []BootPagesKept
<1>1. MemoryIInv => BootPagesKept
  BY DEF MemoryIInv
<1> QED BY <1>1, MemoryInvariant, PTL
================================================================================
