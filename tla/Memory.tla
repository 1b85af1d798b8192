-------------------------------- MODULE Memory --------------------------------
(***************************************************************************)
(* From boot to kmalloc: init_bootmm, init_buddy's hand-over of the pages   *)
(* bootmm leaves, and the callers of kmalloc and kfree.                     *)
(***************************************************************************)
EXTENDS Bootmm, Slab

CONSTANTS
    StructPages,  \* pages of the array of struct page
    Requests      \* pages and alignment asked of bootmm_alloc_pages

\* The buddy system has a struct page for each page of memory; whole pages are
\* asked of bootmm, aligned to pages.
ASSUME MemoryAssumption ==
    /\ NPages = MaxPfn /\ StructPages \in Nat \ {0}
    /\ \A r \in Requests : r.n \in Nat \ {0} /\ r.align \in Nat \ {0}

VARIABLE booted   \* whether init_buddy has run

vars == <<bootVars, slabVars, booted>>

Init == BootInit /\ SlabInit({}) /\ booted = FALSE

\* Other users of bootmm than init_buddy, which the program has not.
BootCall == /\ ~booted
            /\ \E r \in Requests : \/ \E t \in Types : BootAlloc(r.n, t, r.align)
                                   \/ BootRefuse(r.n, r.align)
            /\ UNCHANGED <<slabVars, booted>>

\* init_buddy, when it is the first: the array of struct page, then the arena.
InitBuddy ==
    /\ ~booted /\ used = 0 .. KernelPages - 1
    /\ BootAlloc(StructPages, "kernel", 1)
    /\ free' = ArenaStart(BlockSize[MaxOrder])' .. ArenaEnd(BlockSize[MaxOrder]) - 1
    /\ booted' = TRUE
    /\ UNCHANGED <<held, slab, nr_objs, cpu, full, halted, live, junk>>

Run(call) == booted /\ call /\ UNCHANGED <<bootVars, booted>>

\* The machine spins, or nobody asks for memory any more.
Rest == booted /\ (halted # 0 \/ Cardinality(live) = MaxLive) /\ UNCHANGED vars

Next == BootCall \/ InitBuddy \/ Run(SafeCall) \/ Rest

Spec == Init /\ [][Next]_vars

\* With any callers, such as cat, which frees objects.
AnySpec == Init /\ [][BootCall \/ InitBuddy \/ Run(AnyCall) \/ Rest]_vars

\* buddy.c:68, "the pages that bootmm using cannot be merged into buddy_sys":
\* no block and no object, ever, lies where bootmm placed something.
BootPagesKept == booted =>
    /\ free \cap used = {}
    /\ \A b \in held : PageRun(b) \cap used = {}
================================================================================
