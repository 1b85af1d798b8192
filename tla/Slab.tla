--------------------------------- MODULE Slab ---------------------------------
(***************************************************************************)
(* kmalloc and kfree, kernel/mm/slab.c, over what the buddy system promises *)
(* (PageAllocator).  Addresses are bytes from page 0.                       *)
(*                                                                         *)
(* A page of a cache is cut into slots.  Slot 0 is the header; the first    *)
(* word of slot i holds the address of the slot, that of the last one the   *)
(* address of the page, and slab_alloc finds the next object by reading     *)
(* such a word.  The words lie inside the objects, so callers overwrite     *)
(* them: `junk' are the addresses callers have written to.                  *)
(*                                                                         *)
(* No other flag is ever cleared when a page becomes a slab's (buddy.c:33), *)
(* so kfree's test flag == _PAGE_SLAB never holds: slab_free is never       *)
(* called, node.partial stays empty, and neither is modelled.               *)
(***************************************************************************)
EXTENDS Integers, FiniteSets, Sequences

CONSTANTS
    PageSize,    \* 1 << PAGE_SHIFT
    CacheSizes,  \* size_kmem_cache
    MaxOrder,    \* MAX_BUDDY_ORDER
    BlockSize,   \* BlockSize[k] is 1 << k
    NPages,      \* the memory's pages
    Sizes,       \* what callers ask kmalloc for
    FileSizes,   \* of the programs exec loads
    MaxLive      \* bound: objects alive at once

Caches == DOMAIN CacheSizes
Pages  == 0 .. NPages - 1
Orders == 0 .. MaxOrder
Word   == 4
None   == -1
NoPage == [page |-> None, freeobj |-> None]

\* The table's sizes are whole words and larger than none; the last slot cut from
\* a page ends inside it, not at its end, where format_slabpage would write to the
\* next page; what kmalloc takes from the buddy system is larger than any object.
ASSUME SlabAssumption ==
    /\ PageSize \in Nat \ {0} /\ PageSize % 8 = 0 /\ NPages \in Nat
    /\ CacheSizes \in Seq(Nat \ {0}) /\ CacheSizes # <<>>
    /\ \A c \in Caches : /\ CacheSizes[c] % Word = 0 /\ CacheSizes[c] < PageSize
                       /\ PageSize % (CacheSizes[c] + Word) # 0
    /\ MaxOrder \in Nat /\ BlockSize \in [Orders -> Nat \ {0}] /\ BlockSize[0] = 1
    /\ \A k \in Orders \ {MaxOrder} : BlockSize[k + 1] = 2 * BlockSize[k]
    /\ Sizes \subseteq Nat \ {0} /\ FileSizes \subseteq Nat

VARIABLES
    free,     \* the pages of the buddy system that are free
    held,     \* the blocks kmalloc has had from it: [page, order]
    slab,     \* page -> cache it was last formatted for, or None
    nr_objs,  \* page -> the count in its header
    cpu,      \* cache -> cpu.page and cpu.freeobj, or NoPage
    full,     \* cache -> the pages on node.full
    halted,   \* a request that ended in one of kmalloc's endless loops, or 0
    live,     \* objects callers hold, [addr, size]: ghost
    junk      \* words that callers have overwritten: ghost

slabVars == <<free, held, slab, nr_objs, cpu, full, halted, live, junk>>

(***************************************************************************)
(* Layout of a page                                                         *)
(***************************************************************************)
Base(p)   == p * PageSize
PageOf(a) == a \div PageSize

\* cache->size and cache->offset; the sizes of the caches are whole words.
Slot(c) == CacheSizes[c] + Word

\* Mutant of Links: the loop of format_slabpage runs once more.
LinksPast(c) == PageSize \div Slot(c) + 1

\* How many slots format_slabpage cuts, the last one's word included.
Links(c) == PageSize \div Slot(c)

\* What the word at address a of cache c's page holds: 0 stands for all
\* addresses that is_bound tells from an object's.
LinkWord(a, c) ==
    IF (a - Base(PageOf(a))) \div Slot(c) = Links(c) THEN 0 ELSE a

Words(c, p) == {Base(p) + i * Slot(c) : i \in 1 .. Links(c)}
Header(p)   == {Base(p), Base(p) + Word}

Meets(o, q)  == o.addr < q.addr + q.size /\ q.addr < o.addr + o.size
Inside(a, o) == o.addr <= a /\ a < o.addr + o.size
PageWords(c, p) == Words(c, p) \cup Header(p)
\* The words of slabs' pages in the range o.
Written(o) == UNION {{a \in PageWords(slab[p], p) : Inside(a, o)} :
                        p \in {q \in Pages : slab[q] # None}}
PageRun(b)   == b.page .. b.page + BlockSize[b.order] - 1

(***************************************************************************)
(* slab_alloc                                                               *)
(***************************************************************************)
\* Mutant of BestFit: the largest cache that is not too large.
BestFitBelow(size) ==
    LET fits == {c \in Caches : CacheSizes[c] <= size /\ CacheSizes[c] < PageSize \div 2}
    IN  IF fits = {} THEN None
        ELSE CHOOSE c \in fits : \A d \in fits : CacheSizes[c] >= CacheSizes[d]
\* get_slab
BestFit(size) ==
    LET fits == {c \in Caches : CacheSizes[c] >= size /\ CacheSizes[c] < PageSize \div 2}
    IN  IF fits = {} THEN None
        ELSE CHOOSE c \in fits : \A d \in fits : CacheSizes[c] <= CacheSizes[d]

\* slab_alloc hands out the slot at address a of page p, whose header counts n
\* objects: the word of the next slot tells whether the page is full.  The
\* caller may write to the object from now on.
HandOut(c, p, a, n, size) ==
    /\ nr_objs' = [nr_objs EXCEPT ![p] = n + 1]
    /\ live' = live \cup {[addr |-> a, size |-> size]}
    /\ IF LinkWord(a + Slot(c), c) = 0
       THEN /\ full' = [full EXCEPT ![c] = @ \cup {p}]
            /\ cpu' = [cpu EXCEPT ![c] = NoPage]
       ELSE /\ cpu' = [cpu EXCEPT ![c] = [page |-> p, freeobj |-> a + Slot(c)]]
            /\ UNCHANGED full

FromCpuPage(c, size) ==
    /\ cpu[c] # NoPage
    \* What a caller or another cache wrote there is no address of this one.
    /\ cpu[c].freeobj \notin junk /\ slab[cpu[c].page] = c
    /\ HandOut(c, cpu[c].page, cpu[c].freeobj, nr_objs[cpu[c].page], size)
    /\ junk' = junk \cup Written([addr |-> cpu[c].freeobj, size |-> size])
    /\ UNCHANGED <<free, held, slab, halted>>

\* __alloc_pages(0) and format_slabpage.
TakePage(c, p) ==
    /\ cpu[c] = NoPage /\ p \in free
    /\ free' = free \ {p}
    /\ held' = held \cup {[page |-> p, order |-> 0]}
    /\ slab' = [slab EXCEPT ![p] = c]

FromNewPage(c, p, size) ==
    /\ TakePage(c, p)
    /\ HandOut(c, p, Base(p) + Slot(c), 0, size)
    /\ LET o == [addr |-> Base(p) + Slot(c), size |-> size] IN
        junk' = (junk \ PageWords(c, p)) \cup {a \in PageWords(c, p) : Inside(a, o)}
    /\ UNCHANGED halted

(***************************************************************************)
(* kmalloc and kfree                                                        *)
(***************************************************************************)
Largest == CacheSizes[Len(CacheSizes)]

AlignedRuns(order) ==
    {b \in [page : Pages, order : {order}] :
        b.page % BlockSize[order] = 0 /\ PageRun(b) \subseteq free}

\* kmalloc gives alloc_pages the number of pages for the order.
OrderAsked(size) == (size + PageSize - 1) \div PageSize

FromBuddy(size) ==
    /\ size > Largest
    /\ OrderAsked(size) <= MaxOrder
    /\ \E b \in AlignedRuns(OrderAsked(size)) :
        /\ free' = free \ PageRun(b)
        /\ held' = held \cup {b}
        /\ LET o == [addr |-> Base(b.page), size |-> size] IN
            live' = live \cup {o} /\ junk' = junk \cup Written(o)
    /\ UNCHANGED <<slab, nr_objs, cpu, full, halted>>

\* alloc_pages returns 0, kmalloc the address of page 0, the kernel's.
FromNowhere(size) ==
    /\ size > Largest
    /\ OrderAsked(size) > MaxOrder \/ AlignedRuns(OrderAsked(size)) = {}
    /\ live' = live \cup {[addr |-> 0, size |-> size]}
    /\ UNCHANGED <<free, held, slab, nr_objs, cpu, full, halted, junk>>

FromSlab(size) ==
    /\ size <= Largest /\ BestFit(size) # None
    /\ LET c == BestFit(size) IN
        FromCpuPage(c, size) \/ \E p \in Pages : FromNewPage(c, p, size)

\* "No available slab", or no page for one.
Halt(size) ==
    /\ size <= Largest
    /\ BestFit(size) # None => free = {} /\ cpu[BestFit(size)] = NoPage
    /\ halted' = size
    /\ UNCHANGED <<free, held, slab, nr_objs, cpu, full, live, junk>>

\* Mutant of Kfree: the order of the next larger block.
KfreeLarger(o) ==
    /\ o \in live
    /\ \E b \in held :
        /\ b.page = PageOf(o.addr)
        /\ free' = free \cup (Pages \cap (b.page .. b.page + 2 * BlockSize[b.order] - 1))
        /\ held' = held \ {b}
    /\ live' = live \ {o}
    /\ UNCHANGED <<slab, nr_objs, cpu, full, halted, junk>>

\* Whatever the address, the page goes back with the order in its bplevel; the
\* buddy system gets back this block alone when SafeToFree held.  (What it does
\* otherwise, and what a second kfree in the same page does, is not followed.)
Kfree(o) ==
    /\ o \in live
    /\ \E b \in held :
        /\ b.page = PageOf(o.addr)
        /\ free' = free \cup PageRun(b)
        /\ held' = held \ {b}
    /\ live' = live \ {o}
    /\ UNCHANGED <<slab, nr_objs, cpu, full, halted, junk>>

\* exec reads the program, in pieces of 64 bytes and at least one, to the
\* block it has from kmalloc(4096).
ExecBytes(fileSize) == 64 * (fileSize \div 64 + 1)
ExecLoad(o, fileSize) ==
    /\ o \in live /\ o.size = PageSize
    /\ junk' = junk \cup Written([addr |-> o.addr, size |-> ExecBytes(fileSize)])
    /\ UNCHANGED <<free, held, slab, nr_objs, cpu, full, halted, live>>

(***************************************************************************)
(* What the callers must keep to, and the program does not look after.      *)
(* __free_pages takes a held twin of the order it has reached for a free    *)
(* one (run buddy_doc), so the promise of PageAllocator is for blocks       *)
(* without such a twin; and exec asks for one page whatever it then reads.  *)
(***************************************************************************)
\* Pages p and q lie in the same block of order k + 1.
SameParent(p, q, k) ==
    p \div (2 * BlockSize[k]) = q \div (2 * BlockSize[k])

\* As in Buddy: no block that the freed one can merge its way up to has a
\* held twin of its order.
SafeToFree(b) ==
    \A d \in held \ {b} :
        b.order <= d.order /\ d.order < MaxOrder => ~SameParent(b.page, d.page, d.order)

\* The program fits into the block that kmalloc(4096) is given.
ProgramFits(fileSize) == ExecBytes(fileSize) <= PageSize * BlockSize[OrderAsked(PageSize)]

SlabInit(arena) ==
    /\ free = arena /\ held = {}
    /\ slab = [p \in Pages |-> None] /\ nr_objs = [p \in Pages |-> 0]
    /\ cpu = [c \in Caches |-> NoPage]
    /\ full = [c \in Caches |-> {}]
    /\ halted = 0 /\ live = {} /\ junk = {}

\* Callers that do not look what they got, and free anything.
AnyCall == /\ halted = 0
           /\ \/ /\ Cardinality(live) < MaxLive
                 /\ \E size \in Sizes : \/ FromSlab(size) \/ FromBuddy(size)
                                       \/ FromNowhere(size) \/ Halt(size)
              \/ \E o \in live : Kfree(o)
              \/ \E o \in live, n \in FileSizes : ExecLoad(o, n)

\* exec frees blocks of pages only, when that is safe, and loads programs that
\* fit; nobody asks for more than there is.
SafeCall == /\ halted = 0
            /\ \/ /\ Cardinality(live) < MaxLive
                  /\ \E size \in Sizes : FromSlab(size) \/ FromBuddy(size) \/ Halt(size)
               \/ \E o \in live :
                    /\ o.size > Largest /\ Kfree(o)
                    /\ \A b \in held : b.page = PageOf(o.addr) => SafeToFree(b)
               \/ \E o \in live, n \in FileSizes : ProgramFits(n) /\ ExecLoad(o, n)

(***************************************************************************)
(* Properties                                                               *)
(***************************************************************************)
SlabTypeOK ==
    /\ free \subseteq Pages /\ \A b \in held : PageRun(b) \subseteq Pages
    /\ slab \in [Pages -> Caches \cup {None}] /\ nr_objs \in [Pages -> Nat]
    /\ \A c \in Caches :
        /\ full[c] \subseteq Pages
        /\ cpu[c] # NoPage => cpu[c].page \in Pages /\ cpu[c].freeobj \in Words(c, cpu[c].page)
    /\ halted \in Sizes \cup {0}

\* The three that follow are about callers that keep to SafeCall.

\* Two objects never share a byte, of whatever caches or blocks they come.
ObjectsApart == \A o, q \in live : o # q => ~Meets(o, q)

\* An object lies within one block had from the buddy system and not given
\* back, and in a slab's page clear of the header and of the last word.
ObjectsHoused ==
    /\ SlabTypeOK
    /\ \A o \in live : \E b \in held :
        /\ PageRun(b) \cap free = {}
        /\ Base(b.page) <= o.addr /\ o.addr + o.size <= Base(b.page + BlockSize[b.order])
        /\ o.size <= Largest =>
              ~\E a \in Header(b.page) \cup {Base(b.page) + Links(slab[b.page]) * Slot(slab[b.page])} :
                    Inside(a, o)

\* slab.h: nr_objs "keeps the numbers of memory segments that has been
\* allocated": the header of a slab's page counts its live objects.
CountsLive ==
    \A p \in Pages : slab[p] # None /\ [page |-> p, order |-> 0] \in held =>
        nr_objs[p] = Cardinality({o \in live : PageOf(o.addr) = p})

\* A page on node.full has no slot left and is no cpu.page; every page of a
\* cache is one or the other.
FullIsFull ==
    \A c \in Caches : \A p \in Pages :
        /\ p \in full[c] <=> slab[p] = c /\ nr_objs[p] = Links(c) - 1 /\ cpu[c].page # p
        /\ slab[p] = c => p \in full[c] \/ cpu[c].page = p

\* The words slab_alloc has yet to read, and the headers it counts in, are
\* never written by a caller, be it the program exec loads; a page leaves
\* cpu.page for node.full when its last word was read, and not before.
LinksIntact ==
    /\ FullIsFull
    /\ \A c \in Caches : cpu[c] # NoPage =>
        /\ \A a \in Words(c, cpu[c].page) : a >= cpu[c].freeobj => a \notin junk
        /\ Header(cpu[c].page) \cap junk = {}
================================================================================
