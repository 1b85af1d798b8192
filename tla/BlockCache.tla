------------------------------- MODULE BlockCache -------------------------------
(***************************************************************************)
(* The write-back cache of kernel/fs/fscache/fscache.c (the 4k and the      *)
(* 512-byte functions differ in the block's size only) and the cache of FAT *)
(* sectors in kernel/fs/fat/fat.c, which writes two copies.  One caller at  *)
(* a time: only the shell uses the file system.  The card is external: a    *)
(* call of two or more sectors that fails returns 1, which the caches look  *)
(* for; one of a single sector returns the card's code, which never is 1    *)
(* (its bit 0 means success), so it is taken for done (sd.c).               *)
(***************************************************************************)
EXTENDS Integers, FiniteSets

CONSTANTS
    Size,     \* the number of buffers: LOCAL_DATA_BUF_NUM, DIR_DATA_BUF_NUM, ...
    Sectors,  \* addresses of blocks inside the partition
    Base,     \* fat_info.base_addr
    Values,   \* contents of a block
    Zero,     \* an erased block
    NoBlock,  \* 0xffffffff
    Faults    \* whether calls to the card may fail

ASSUME CacheAssumption ==
    /\ Size \in Nat \ {0} /\ Sectors \subseteq Nat /\ Base \in Nat
    /\ Zero \in Values /\ NoBlock \notin Nat
    /\ Faults \in BOOLEAN

\* What is cached: sectors of the FAT; single sectors of a directory or of a
\* file with one-sector clusters; clusters of several sectors.
Kinds  == {"fat", "sector", "cluster"}
Slots  == 0 .. Size - 1
Blocks == Sectors \cup {s + Base : s \in Sectors}

VARIABLES
    kind,          \* chosen in Init, never changed
    cur, data,     \* of each buffer
    ref, dirty,    \* the buffers whose state has bit 0, bit 1
    clock_head,
    index,         \* what the last read returned: a buffer, or none (Size)
    card,          \* external: card[c][b]
    truth,         \* ghost: what was last written to each block
    spoiled        \* ghost: the blocks a failed call has cost

vars == <<kind, cur, data, ref, dirty, clock_head, index, card, truth, spoiled>>

Copies == IF kind = "fat" THEN {1, 2} ELSE {1}

Init ==
    /\ kind \in Kinds
    /\ cur = [i \in Slots |-> NoBlock] /\ ref = {} /\ dirty = {}
    /\ data = [i \in Slots |-> Zero]
    /\ clock_head = 0 /\ index = Size
    /\ truth \in [Sectors -> Values]
    /\ card \in [Copies -> [Blocks -> Values]]
    /\ \A c \in Copies, s \in Sectors : card[c][s + Base] = truth[s]
    /\ spoiled = {}

Least(S)    == CHOOSE n \in S : \A m \in S : n <= m
Greatest(S) == CHOOSE n \in S : \A m \in S : n >= m

(***************************************************************************)
(* fs_victim: the first clean buffer not used since the hand last came by,  *)
(* else the first clean one, else the one under the hand.                   *)
(***************************************************************************)
At(j)    == (clock_head + j) % Size
CleanAt  == {j \in Slots : At(j) \notin dirty}
UnusedAt == {j \in CleanAt : At(j) \notin ref}

\* Mutant of Passed: whatever is under the hand goes.
PassedNone == 0
Passed == IF UnusedAt # {} THEN Least(UnusedAt)
          ELSE IF CleanAt # {} THEN Least(CleanAt) ELSE 0
Victim == At(Passed)
Hand   == At(Passed + 1)
Swept  == IF UnusedAt # {} THEN {At(j) : j \in 0 .. Passed - 1} ELSE Slots

\* The buffers the search of fs_read may find block b in; it takes the first.
Hits(b) == {i \in Slots : cur[i] = b}

\* Mutants of Saved: nothing is written; only the first copy is.
SavedNone(mem, i) == mem
SavedOnce(mem, i) ==
    IF i \in dirty /\ cur[i] # NoBlock THEN [mem EXCEPT ![1][cur[i]] = data[i]]
    ELSE mem
\* The card once buffer i has been written back to mem: fs_write.
Saved(mem, i) ==
    IF i \in dirty /\ cur[i] # NoBlock
    THEN [c \in Copies |-> [mem[c] EXCEPT ![cur[i]] = data[i]]] ELSE mem

\* A write that fails may leave anything in either copy.
Garbled(mem, i, junk) ==
    [c \in Copies |-> [mem[c] EXCEPT ![cur[i]] = junk[c]]]

\* The buffers whose write may fail and be heard of, and those whose may not.
Unsaved == {i \in dirty : Faults /\ cur[i] # NoBlock}
Heard   == IF kind = "cluster" THEN Unsaved ELSE {}
Unheard == IF kind = "cluster" THEN {} ELSE Unsaved
HeldBy(i) == {s \in Sectors : s + Base = cur[i]}

\* What the caller takes for a write of buffer i to mem: the card afterwards,
\* and the block it may have cost.
Writes(mem, i) ==
    {[card |-> Saved(mem, i), lost |-> {}]} \cup
    {[card |-> Garbled(mem, i, junk), lost |-> HeldBy(i)] :
        junk \in IF i \in Unheard THEN [Copies -> Values] ELSE {}}

Turn == clock_head' = Hand

(***************************************************************************)
(* fs_read_4k, fs_read_512, read_fat_sector                                 *)
(***************************************************************************)
ReadHit(s) ==
    /\ Hits(s + Base) # {}
    /\ index' = Least(Hits(s + Base))
    /\ ref' = ref \cup {index'}
    /\ UNCHANGED <<kind, cur, data, dirty, clock_head, card, truth, spoiled>>

\* What the caller takes for block s on mem.
Reads(mem, s) ==
    {[data |-> mem[1][s + Base], lost |-> {}]} \cup
    {[data |-> junk, lost |-> {s}] :
        junk \in IF Faults /\ kind # "cluster" THEN Values ELSE {}}

ReadMiss(s) ==
    /\ Hits(s + Base) = {} /\ Turn
    /\ \E w \in Writes(card, Victim) : \E r \in Reads(w.card, s) :
          /\ card' = w.card
          /\ data' = [data EXCEPT ![Victim] = r.data]
          /\ spoiled' = spoiled \cup w.lost \cup r.lost
    /\ cur' = [cur EXCEPT ![Victim] = s + Base]
    /\ ref' = (ref \ Swept) \cup {Victim} /\ dirty' = dirty \ {Victim}
    /\ index' = Victim
    /\ UNCHANGED <<kind, truth>>

\* Mutant of WriteFails: the block is taken for saved all the same.
WriteFailsForgets(s) ==
    /\ Hits(s + Base) = {} /\ Victim \in Heard /\ Turn
    /\ \E junk \in [Copies -> Values] : card' = Garbled(card, Victim, junk)
    /\ ref' = ref \ Swept /\ index' = Size /\ dirty' = dirty \ {Victim}
    /\ UNCHANGED <<kind, cur, data, truth, spoiled>>
WriteFails(s) ==
    /\ Hits(s + Base) = {} /\ Victim \in Heard /\ Turn
    /\ \E junk \in [Copies -> Values] : card' = Garbled(card, Victim, junk)
    /\ ref' = ref \ Swept /\ index' = Size
    /\ UNCHANGED <<kind, cur, data, dirty, truth, spoiled>>

\* The buffer keeps its block's number but not its contents.
ReadFails(s) ==
    /\ Hits(s + Base) = {} /\ Faults /\ kind = "cluster" /\ Turn
    /\ card' = Saved(card, Victim)
    /\ \E junk \in Values : data' = [data EXCEPT ![Victim] = junk]
    /\ spoiled' = spoiled \cup HeldBy(Victim)
    /\ ref' = ref \ Swept /\ dirty' = dirty \ {Victim} /\ index' = Size
    /\ UNCHANGED <<kind, cur, truth>>

\* The caller changes the block it was given and sets its state to 3.
Modify(v) ==
    /\ index # Size
    /\ data' = [data EXCEPT ![index] = v]
    /\ ref' = ref \cup {index} /\ dirty' = dirty \cup {index}
    /\ truth' = [s \in Sectors |-> IF cur[index] = s + Base THEN v ELSE truth[s]]
    /\ UNCHANGED <<kind, cur, clock_head, index, card, spoiled>>

(***************************************************************************)
(* A block joins a file or a directory: fs_alloc erases it on the card and  *)
(* fs_clr takes a buffer for it.  Neither adds Base to its address.         *)
(***************************************************************************)
Erased(s, v) == [c \in Copies |-> [card[c] EXCEPT ![s] = v]]

\* What fs_alloc takes for erasing s.
Erasures(s) ==
    {[card |-> Erased(s, Zero), lost |-> {}]} \cup
    {[card |-> Erased(s, junk), lost |-> {s}] :
        junk \in IF Faults /\ kind = "sector" THEN Values ELSE {}}

Extend(s) ==
    /\ Turn
    /\ \E e \in Erasures(s) : \E w \in Writes(e.card, Victim) :
          /\ card' = w.card
          /\ spoiled' = spoiled \cup e.lost \cup w.lost
    /\ data' = [data EXCEPT ![Victim] = Zero]
    /\ cur' = [cur EXCEPT ![Victim] = s]
    /\ ref' = (ref \ Swept) \ {Victim} /\ dirty' = dirty \ {Victim}
    /\ index' = Size
    /\ truth' = [truth EXCEPT ![s] = Zero]
    /\ UNCHANGED kind

\* The erased block has joined the chain but has no buffer.
ExtendFails(s) ==
    /\ Victim \in Heard /\ Turn
    /\ \E junk \in [Copies -> Values] :
            card' = Garbled(Erased(s, Zero), Victim, junk)
    /\ ref' = ref \ Swept /\ index' = Size
    /\ truth' = [truth EXCEPT ![s] = Zero]
    /\ UNCHANGED <<kind, cur, data, dirty, spoiled>>

(***************************************************************************)
(* fs_fflush and fs_close write the buffers back from the first one up to   *)
(* n, stopping at one that fails.                                           *)
(***************************************************************************)
SavedUpTo(n) ==
    LET toSave(b) == {i \in dirty : i < n /\ cur[i] = b}
    IN  [c \in Copies |-> [b \in Blocks |->
            IF toSave(b) = {} THEN card[c][b] ELSE data[Greatest(toSave(b))]]]

\* Writes of single sectors may fail on the way, and are not stopped at.
Flush ==
    /\ \E bad \in SUBSET {cur[i] : i \in Unheard} :
          /\ \E junk \in [Copies -> [bad -> Values]] :
                card' = [c \in Copies |-> [b \in Blocks |->
                            IF b \in bad THEN junk[c][b] ELSE SavedUpTo(Size)[c][b]]]
          /\ spoiled' = spoiled \cup {s \in Sectors : s + Base \in bad}
    /\ dirty' = {} /\ index' = Size
    /\ UNCHANGED <<kind, cur, data, ref, clock_head, truth>>

FlushFails(i) ==
    /\ i \in Heard
    /\ \E junk \in [Copies -> Values] : card' = Garbled(SavedUpTo(i), i, junk)
    /\ dirty' = dirty \ (0 .. i - 1) /\ index' = Size
    /\ UNCHANGED <<kind, cur, data, ref, clock_head, truth, spoiled>>

Use == \/ \E s \in Sectors : ReadHit(s) \/ ReadMiss(s) \/ WriteFails(s) \/ ReadFails(s)
       \/ \E v \in Values : Modify(v)
       \/ Flush \/ \E i \in Slots : FlushFails(i)

\* The FAT is never extended.  A file's new block is in none of its buffers.
\* (A removed directory's block may still be in dir_data_buf; fs_clr does not
\* look.)
NewBlock(s) == kind # "fat" /\ Hits(s) = {} /\ (Extend(s) \/ ExtendFails(s))
Next == Use \/ \E s \in Sectors : NewBlock(s)
Spec == Init /\ [][Next]_vars

\* The cache of FAT sectors.
FatSpec == kind = "fat" /\ Spec

(***************************************************************************)
(* Properties                                                               *)
(***************************************************************************)
TypeOK ==
    /\ kind \in Kinds /\ cur \in [Slots -> Blocks \cup {NoBlock}] /\ data \in [Slots -> Values]
    /\ ref \subseteq Slots /\ dirty \subseteq Slots
    /\ clock_head \in Slots /\ index \in Slots \cup {Size}
    /\ card \in [Copies -> [Blocks -> Values]]
    /\ truth \in [Sectors -> Values] /\ spoiled \subseteq Sectors

\* No block is in two buffers, where one of them would go stale.
OnceCached == \A i, j \in Slots : cur[i] = cur[j] => i = j \/ cur[i] = NoBlock

\* A read gives what was last written, whatever was evicted or failed since:
\* a failed call costs the block it was for and, where a read that is heard to
\* fail left another block's buffer overwritten, that one, but no other.
Shown(s) == IF Hits(s + Base) = {} THEN card[1][s + Base]
            ELSE data[Least(Hits(s + Base))]
Coherent == \A s \in Sectors \ spoiled : Shown(s) = truth[s]

\* What was last written is on the card, in every copy, or still marked dirty
\* in a buffer.  A write that is heard to fail costs nothing: the block stays
\* marked.  One of a single sector costs its block, which is forgotten.
NothingLost ==
    \A s \in Sectors \ spoiled :
        \/ \A c \in Copies : card[c][s + Base] = truth[s]
        \/ \E i \in dirty : cur[i] = s + Base /\ data[i] = truth[s]

\* A modified block makes way only when every buffer is modified, and one used
\* lately only when no clean one has been left alone.
SparesUseful ==
    [][\A i \in Slots : cur'[i] # cur[i] =>
          /\ i \in dirty => dirty = Slots
          /\ i \in ref \ dirty => Slots \subseteq ref \cup dirty]_vars

\* fscache.c:94 says fs_clr is "used to avoid reading a new erased block from
\* sd": the next read of the new block finds a buffer, and it is empty.
NewBlockIsCached ==
    [][\A s \in Sectors : Extend(s) =>
          (Hits(s + Base) # {} /\ Shown(s) = Zero)']_vars
=================================================================================
