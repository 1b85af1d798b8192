-------------------------------- MODULE Bootmm --------------------------------
(***************************************************************************)
(* The boot memory map, kernel/mm/bootmm.c, in pages: a map of used pages,  *)
(* searched first fit from where the last search ended, and a table of the  *)
(* ranges in use by type, which init_buddy reads to find where the buddy    *)
(* system may begin.  Nothing is ever given back.                           *)
(***************************************************************************)
EXTENDS Integers, Sequences, SequencesExt, FiniteSetsExt

CONSTANTS
    MaxPfn,       \* bmm.max_pfn
    KernelPages,  \* the pages init_bootmm takes for the kernel, 16 MB
    MaxInfo,      \* MAX_INFO, the length of the table
    Types         \* enum mm_usage; "kernel" is _MM_KERNEL

ASSUME BootAssumption ==
    /\ KernelPages \in Nat \ {0} /\ MaxPfn \in Nat /\ KernelPages < MaxPfn
    /\ MaxInfo \in Nat \ {0} /\ "kernel" \in Types

VARIABLES
    used,            \* the pages whose entry of s_map is PAGE_USED
    last_alloc_end,  \* the last page of the run found last
    info,            \* the first cnt_infos entries of the table, in order
    unrecorded       \* pages given out while the table was full: ghost

bootVars == <<used, last_alloc_end, info, unrecorded>>

Frames == 0 .. MaxPfn - 1
FrameRun(p, n) == p .. p + n - 1

(***************************************************************************)
(* insert_mminfo: the first entry of the type that the new range touches    *)
(* takes it in.                                                             *)
(***************************************************************************)
Follows(i, s)   == info[i].end = s - 1
\* The entry behind i does not stop it from growing; it is joined to it.
OpenEnd(i, t)   == i = Len(info) \/ info[i + 1].type # t
Bridged(i, e, t) == i < Len(info) /\ info[i + 1].type = t /\ info[i + 1].start = e + 1
Precedes(i, e)  == info[i].start = e + 1

Touched(s, e, t) ==
    {i \in DOMAIN info : /\ info[i].type = t
                         /\ \/ Follows(i, s) /\ (OpenEnd(i, t) \/ Bridged(i, e, t))
                            \/ Precedes(i, e)}

\* Mutant of Insert: the entry behind a bridged gap is left in the table.
InsertTwice(s, e, t) ==
    IF Touched(s, e, t) = {}
    THEN IF Len(info) < MaxInfo
         THEN Append(info, [start |-> s, end |-> e, type |-> t]) ELSE info
    ELSE LET i == Min(Touched(s, e, t)) IN
         IF ~Follows(i, s) THEN [info EXCEPT ![i].start = s]
         ELSE IF OpenEnd(i, t) THEN [info EXCEPT ![i].end = e]
         ELSE [info EXCEPT ![i].end = info[i + 1].end]

Insert(s, e, t) ==
    IF Touched(s, e, t) = {}
    THEN IF Len(info) < MaxInfo
         THEN Append(info, [start |-> s, end |-> e, type |-> t]) ELSE info
    ELSE LET i == Min(Touched(s, e, t)) IN
         IF ~Follows(i, s) THEN [info EXCEPT ![i].start = s]
         ELSE IF OpenEnd(i, t) THEN [info EXCEPT ![i].end = e]
         ELSE RemoveAt([info EXCEPT ![i].end = info[i + 1].end], i + 1)

(***************************************************************************)
(* find_pages, over s .. e - 1: NoRun is its 0.  After a used page the next *)
(* place tried is align pages on.                                           *)
(***************************************************************************)
NoRun == -1

RoundUp(p, align) == align * ((p + align - 1) \div align)

FindPages(n, s, e, align) ==
    LET from[p \in Nat] ==
            IF p >= e THEN NoRun
            ELSE IF p \in used THEN from[p + 1]
            ELSE LET stops == {q \in FrameRun(p, n) : q >= e \/ q \in used} IN
                 IF stops = {} THEN p
                 ELSE IF Min(stops) >= e THEN NoRun
                 ELSE from[Min(stops) + align]
    IN  from[RoundUp(s, align)]

BootInit ==
    /\ used = 0 .. KernelPages - 1
    /\ last_alloc_end = KernelPages - 1
    /\ info = <<[start |-> 0, end |-> KernelPages - 1, type |-> "kernel"]>>
    /\ unrecorded = {}

\* Mutant of FoundRun: nobody looks in front of last_alloc_end.
FoundAhead(n, align) == FindPages(n, last_alloc_end + 1, MaxPfn, align)

\* bootmm_alloc_pages looks behind the last run first, then in front of it.
FoundRun(n, align) ==
    LET ahead == FindPages(n, last_alloc_end + 1, MaxPfn, align) IN
    IF ahead # NoRun THEN ahead ELSE FindPages(n, 0, last_alloc_end, align)

\* What insert_mminfo returns is not looked at.
BootAlloc(n, t, align) ==
    LET p == FoundRun(n, align) IN
    /\ p # NoRun
    /\ used' = used \cup FrameRun(p, n)
    /\ last_alloc_end' = p + n - 1
    /\ info' = Insert(p, p + n - 1, t)
    /\ unrecorded' = IF info' = info THEN unrecorded \cup FrameRun(p, n) ELSE unrecorded

BootRefuse(n, align) == FoundRun(n, align) = NoRun /\ UNCHANGED bootVars

(***************************************************************************)
(* init_buddy: the arena of a system of blocks of up to largest pages.      *)
(***************************************************************************)
KernelEnd == Max({info[i].end : i \in DOMAIN info})

\* Mutant of ArenaStart: rounded down.
ArenaBelow(largest) == largest * (KernelEnd \div largest)

ArenaStart(largest) == RoundUp(KernelEnd, largest)
ArenaEnd(largest)   == largest * (MaxPfn \div largest)

(***************************************************************************)
(* Properties                                                               *)
(***************************************************************************)
Recorded(i) == info[i].start .. info[i].end

BootTypeOK ==
    /\ used \subseteq Frames /\ last_alloc_end \in used
    /\ unrecorded \subseteq used
    /\ info \in Seq([start : Frames, end : Frames, type : Types])
    /\ Len(info) <= MaxInfo

\* However ranges were extended and joined, each page in use is in exactly one
\* entry of the table and no free page is in any, but for the pages given out
\* when the table was full and they touched no entry of their type: init_buddy
\* takes what the table leaves for free.
TableExact ==
    /\ BootTypeOK
    /\ \A p \in Frames :
        Cardinality({i \in DOMAIN info : p \in Recorded(i)}) =
            IF p \in used \ unrecorded THEN 1 ELSE 0

\* A run of free pages is found if there is one, wherever it lies, and its
\* pages are free.
RunsFound ==
    \A n \in 1 .. MaxPfn :
        IF FoundRun(n, 1) = NoRun
        THEN \A p \in 0 .. MaxPfn - n : FrameRun(p, n) \cap used # {}
        ELSE FrameRun(FoundRun(n, 1), n) \subseteq Frames \ used
================================================================================
