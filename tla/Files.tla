--------------------------------- MODULE Files ---------------------------------
(***************************************************************************)
(* Files and their clusters, kernel/fs/fat/fat.c and fs_rm: the FAT, the    *)
(* root directory, one open FILE.  FAT and sectors are seen through their   *)
(* caches (BlockCache).  The loops of fs_write and fs_rm take one cluster a *)
(* step.                                                                    *)
(*                                                                         *)
(* Accesses to the clusters of a file fail, and report it; those of one     *)
(* sector, of the FAT and the directory, do not fail here: their failures   *)
(* are not heard (BlockCache says what they cost).  A failed read leaves    *)
(* the FILE's buffer with the number of another cluster of the file.        *)
(*                                                                         *)
(* The partition starts the card (base_addr = 0): elsewhere fs_alloc erases *)
(* other sectors than the new cluster's, and the second sector of the       *)
(* directory is not found.  And it is smaller than 4 GB: with no cluster    *)
(* free fs_alloc marks entry 0xFFFFFFFF of the FAT, which must lie behind   *)
(* the end of the card, where writing fails unheard.                        *)
(*                                                                         *)
(* The byte written to position p of file f is <<f, p>>: a byte of another  *)
(* file, or one out of its place, is seen.                                  *)
(***************************************************************************)
EXTENDS Integers, FiniteSets, Sequences

CONSTANTS
    NClusters,  \* total_data_clusters
    Bytes,      \* in a cluster
    Names,      \* of files in the root directory
    NSlots,     \* its entries in the two sectors fs_find_empty_entry gets right
    MaxSize,    \* bound: bytes in a file
    Foreign,    \* sets of clusters another system may have filled
    Spares      \* values of FSI_Free_Count, -1 for 0xFFFFFFFF (not known)

Clusters == 2 .. NClusters + 1
Free == 0
EOC  == NClusters + 2    \* 0x0FFFFFFF
Root == 2
Slots == 0 .. NSlots - 1
Empty   == "empty"      \* first byte of the name: 0
Deleted == "deleted"    \* 0xE5

ASSUME FilesAssumption ==
    /\ NClusters \in Nat \ {0} /\ Bytes \in Nat \ {0} /\ NSlots \in Nat
    /\ MaxSize \in Nat /\ Spares \subseteq Int
    /\ \A s \in Foreign : s \subseteq Clusters
    /\ Empty \notin Names /\ Deleted \notin Names

Zero == <<"zero", 0>>
Junk == <<"junk", 0>>
Marks == (Names \X Nat) \cup {Zero, Junk}
Contents == [0 .. Bytes - 1 -> Marks]
Blank == [i \in 0 .. Bytes - 1 |-> Zero]
Ruined == [i \in 0 .. Bytes - 1 |-> Junk]

VARIABLES
    fat,      \* [Clusters -> next cluster, Free or EOC]
    nxt,      \* FSI_Nxt_Free
    spare,    \* FSI_Free_Count; the code never changes it
    dir,      \* the entries: name, first cluster or 0, size
    data,     \* contents of the clusters
    file,     \* the open FILE: its entry, the slot it came from, loc
    unsaved,  \* clusters that may be in the FILE's own buffers only
    spoiled,  \* clusters whose buffer holds what a failed read left in it
    call,     \* the call under way
    others,   \* ghost: the directory's clusters and those of other systems
    lost      \* ghost: clusters marked by an fs_alloc that then failed

vars == <<fat, nxt, spare, dir, data, file, unsaved, spoiled, call, others, lost>>

Entry(n, c, s) == [name |-> n, start |-> c, size |-> s]
Closed == [entry |-> Entry(Empty, 0, 0), slot |-> NSlots, loc |-> 0]
\* cur: the cluster before the one wanted (0: none); at: the wanted one's number.
Call(op, c, k, p, e) == [op |-> op, cur |-> c, at |-> k, pos |-> p, end |-> e]
Idle == Call("idle", 0, 0, 0, 0)

Init ==
    /\ others \in {{Root} \cup s : s \in Foreign}
    /\ fat = [c \in Clusters |-> IF c \in others THEN EOC ELSE Free]
    /\ spare \in Spares
    /\ nxt \in {n \in 1 .. NClusters + 1 : n > spare \/ n + 1 \in Clusters \ others}
    /\ dir = [s \in Slots |-> Entry(Empty, 0, 0)]
    /\ data = [c \in Clusters |-> Blank]
    /\ file = Closed /\ unsaved = {} /\ spoiled = {} /\ call = Idle /\ lost = {}

(***************************************************************************)
(* fs_alloc.  A legal hint is taken unseen; the cluster is marked before it *)
(* is known whether another is free above it, and stays marked if none is.  *)
(***************************************************************************)
FirstFree(f, from) ==
    {c \in Clusters : /\ c >= from /\ f[c] = Free
                      /\ \A d \in Clusters : from <= d /\ d < c => f[d] # Free}
\* Mutant of Candidates: the hint is taken for the cluster.
CandidatesAt == IF nxt <= spare THEN {nxt} ELSE FirstFree(fat, 2)
Candidates == IF nxt <= spare THEN {nxt + 1} ELSE FirstFree(fat, 2)
Marked(c) == [fat EXCEPT ![c] = EOC]
\* Mutant of Above: the hint is the cluster just given.
AboveStale(c) == {c}
Above(c) == FirstFree(Marked(c), c)

(***************************************************************************)
(* fs_open, fs_find and fs_create: entries are looked at in order, and      *)
(* nothing is looked for past an empty one.                                 *)
(***************************************************************************)
Found(n) == {s \in Slots : /\ dir[s].name = n
                           /\ \A t \in 0 .. s - 1 : dir[t].name \notin {n, Empty}}

Open(n) ==
    /\ call = Idle /\ file = Closed
    /\ \E s \in Found(n) : file' = [entry |-> dir[s], slot |-> s, loc |-> 0]
    /\ UNCHANGED <<fat, nxt, spare, dir, data, unsaved, spoiled, call, others, lost>>

\* Mutant of Vacant: the last vacant entry is used.
VacantLast == {s \in Slots : /\ dir[s].name \in {Empty, Deleted}
                             /\ \A t \in s + 1 .. NSlots - 1 : dir[t].name \in Names}
Vacant == {s \in Slots : /\ dir[s].name \in {Empty, Deleted}
                         /\ \A t \in 0 .. s - 1 : dir[t].name \in Names}

\* With no vacant entry fs_create goes wrong: the caller keeps the files few.
Create(n) ==
    /\ call = Idle /\ file = Closed /\ Found(n) = {}
    /\ \E s \in Vacant : dir' = [dir EXCEPT ![s] = Entry(n, 0, 0)]
    /\ UNCHANGED <<fat, nxt, spare, data, file, unsaved, spoiled, call, others, lost>>

(***************************************************************************)
(* fs_read_dir: from place loc, the next entry that was not removed, until  *)
(* one is empty; ls calls it until there is no more.                        *)
(***************************************************************************)
\* Mutant of NextListed: a removed entry ends the directory.
NextListedStops(loc) == {s \in Slots : s = loc /\ dir[s].name \in Names}
NextListed(loc) == {s \in Slots : /\ s >= loc /\ dir[s].name \in Names
                                  /\ \A t \in loc .. s - 1 : dir[t].name = Deleted}
Listing ==
    LET from[loc \in 0 .. NSlots] ==
            IF NextListed(loc) = {} THEN <<>>
            ELSE LET s == CHOOSE s \in NextListed(loc) : TRUE
                 IN  <<dir[s].name>> \o from[s + 1]
    IN  from[0]

(***************************************************************************)
(* fs_close: the entry, the FAT and then the FILE's buffers are written; it *)
(* stops at a buffer that fails, and those after it are gone.               *)
(***************************************************************************)
Closing(torn) ==
    /\ dir' = [dir EXCEPT ![file.slot] = file.entry]
    /\ data' = [c \in Clusters |-> IF c \in torn THEN Ruined ELSE data[c]]
    /\ file' = Closed /\ unsaved' = {} /\ spoiled' = {} /\ call' = Idle
    /\ UNCHANGED <<fat, nxt, spare, others, lost>>

Close == /\ call = Idle /\ file # Closed
         /\ \E torn \in SUBSET unsaved : Closing(torn)

(***************************************************************************)
(* fs_lseek and fs_read, which reads no further than the end of the file.   *)
(***************************************************************************)
Least(a, b) == IF a <= b THEN a ELSE b

Lseek(l) ==
    /\ call = Idle /\ file # Closed
    /\ file' = [file EXCEPT !.loc = Least(l, file.entry.size)]
    /\ UNCHANGED <<fat, nxt, spare, dir, data, unsaved, spoiled, call, others, lost>>

\* What a buffer gives of cluster c.
Seen(c) == IF c \in spoiled THEN Ruined ELSE data[c]

\* Reading may use a spoiled buffer again, for the same cluster or another.
Read(n) ==
    /\ call = Idle /\ file # Closed /\ file.entry.start # 0
    /\ file' = [file EXCEPT !.loc = @ + Least(n, file.entry.size - @)]
    /\ spoiled' \in SUBSET spoiled
    /\ UNCHANGED <<fat, nxt, spare, dir, data, unsaved, call, others, lost>>

Nth(c) == LET f[k \in 0 .. NClusters] ==
                IF k = 0 THEN c
                ELSE IF f[k - 1] \in Clusters THEN fat[f[k - 1]] ELSE EOC
          IN  f
OfFile == {Nth(file.entry.start)[k] : k \in 0 .. NClusters} \cap Clusters

\* The buffer taken for a cluster that then cannot be read was that of no cluster,
\* or of another one of the file, saved before.
Garbles(c) == \E v \in OfFile \ {c} : /\ spoiled' = spoiled \cup {v}
                                     /\ unsaved' = unsaved \ {v}

ReadFails ==
    /\ call = Idle /\ file # Closed /\ file.loc < file.entry.size
    /\ \E c \in OfFile : Garbles(c)
    /\ UNCHANGED <<fat, nxt, spare, dir, data, file, call, others, lost>>

(***************************************************************************)
(* fs_write: the chain is followed, and extended where it ends, to the      *)
(* cluster of loc, then cluster by cluster while bytes are left.            *)
(***************************************************************************)
Write(n) ==
    /\ call = Idle /\ file # Closed /\ n > 0 /\ file.loc + n <= MaxSize
    /\ call' = Call("write", 0, 0, file.loc, file.loc + n)
    /\ UNCHANGED <<fat, nxt, spare, dir, data, file, unsaved, spoiled, others, lost>>

\* The wanted cluster, if the chain has it.
Wanted  == IF call.cur = 0 THEN file.entry.start ELSE fat[call.cur]
Missing == Wanted \notin Clusters

Linked(f, c) == IF call.cur = 0 THEN f ELSE [f EXCEPT ![call.cur] = c]

Extend ==
    /\ call.op = "write" /\ Missing
    /\ \E c \in Candidates : \E n \in Above(c) :
        /\ fat' = Linked(Marked(c), c) /\ nxt' = n - 1
        /\ file' = IF call.cur = 0 THEN [file EXCEPT !.entry.start = c] ELSE file
        /\ data' = [data EXCEPT ![c] = Blank]
        /\ lost' = lost \ {c}
    /\ UNCHANGED <<spare, dir, unsaved, spoiled, call, others>>

\* No cluster is found, or it is the last free one: that one stays marked.
Refuse ==
    /\ call.op = "write" /\ Missing /\ call' = Idle
    /\ \/ Candidates = {} /\ UNCHANGED <<fat, lost>>
       \/ \E c \in Candidates : /\ Above(c) = {}
                                /\ fat' = Marked(c) /\ lost' = lost \cup {c}
    /\ UNCHANGED <<nxt, spare, dir, data, file, unsaved, spoiled, others>>

\* The new cluster cannot be erased: it is not linked.
EraseFails ==
    /\ call.op = "write" /\ Missing /\ call' = Idle
    /\ \E c \in Candidates : \E n \in Above(c) :
        /\ fat' = Marked(c) /\ nxt' = n - 1 /\ lost' = lost \cup {c}
    /\ UNCHANGED <<spare, dir, data, file, unsaved, spoiled, others>>

Pass ==
    /\ call.op = "write" /\ ~Missing /\ call.at < call.pos \div Bytes
    /\ call' = [call EXCEPT !.cur = Wanted, !.at = @ + 1]
    /\ UNCHANGED <<fat, nxt, spare, dir, data, file, unsaved, spoiled, others, lost>>

\* Mutant of Until: one byte too many goes into a cluster.
UntilPast == Least(call.end, (call.at + 1) * Bytes + 1)
\* Where the bytes that go into the wanted cluster end.
Until == Least(call.end, (call.at + 1) * Bytes)

Fill ==
    /\ call.op = "write" /\ ~Missing /\ call.at = call.pos \div Bytes
    /\ \E bad \in SUBSET spoiled :
        /\ data' = [data EXCEPT ![Wanted] = [i \in 0 .. Bytes - 1 |->
                        LET p == call.at * Bytes + i
                        IN  IF p \in call.pos .. Until - 1 THEN <<file.entry.name, p>>
                            ELSE IF Wanted \in bad THEN Junk ELSE @[i]]]
        /\ spoiled' = bad \ {Wanted}
    /\ unsaved' = unsaved \cup {Wanted}
    /\ IF Until = call.end
       THEN /\ file' = [file EXCEPT !.loc = call.end,
                            !.entry.size = IF call.end > @ THEN call.end ELSE @]
            /\ call' = Idle
       ELSE /\ call' = [call EXCEPT !.cur = Wanted, !.at = @ + 1, !.pos = Until]
            /\ UNCHANGED file
    /\ UNCHANGED <<fat, nxt, spare, dir, others, lost>>

\* The wanted cluster gets no buffer: what the buffer holds cannot be saved
\* (fs_clr_4k, fs_read_4k), or the cluster cannot be read.
FillFails ==
    /\ call.op = "write" /\ ~Missing /\ call.at = call.pos \div Bytes
    /\ call' = Idle
    /\ UNCHANGED <<unsaved, spoiled>> \/ Garbles(Wanted)
    /\ UNCHANGED <<fat, nxt, spare, dir, data, file, others, lost>>

(***************************************************************************)
(* fs_rm: the clusters are freed along the chain, then the entry is closed. *)
(***************************************************************************)
Rm(n) ==
    /\ call = Idle /\ file = Closed
    /\ \E s \in Found(n) :
        /\ file' = [entry |-> [dir[s] EXCEPT !.name = Deleted], slot |-> s, loc |-> 0]
        /\ call' = Call("rm", dir[s].start, 0, 0, 0)
    /\ UNCHANGED <<fat, nxt, spare, dir, data, unsaved, spoiled, others, lost>>

\* Mutant of Following: the next cluster is read after the entry is cleared.
FollowingFreed == Free
Following == fat[call.cur]

\* What a free cluster holds is forgotten: fs_alloc erases it before it is used.
Release ==
    /\ call.op = "rm" /\ call.cur \in Clusters
    /\ fat' = [fat EXCEPT ![call.cur] = Free]
    /\ call' = [call EXCEPT !.cur = Following]
    /\ data' = [data EXCEPT ![call.cur] = Blank]
    /\ UNCHANGED <<nxt, spare, dir, file, unsaved, spoiled, others, lost>>

Removed == call.op = "rm" /\ call.cur \notin Clusters /\ Closing({})

Step == Extend \/ Refuse \/ EraseFails \/ Pass \/ Fill \/ FillFails \/ Release \/ Removed

Next ==
    \/ \E n \in Names : Open(n) \/ Create(n) \/ Rm(n)
    \/ \E k \in 0 .. MaxSize : Lseek(k) \/ Read(k) \/ Write(k)
    \/ ReadFails \/ Close \/ Step

\* A call runs to its end: nothing else uses the file system meanwhile.
Spec == Init /\ [][Next]_vars

(***************************************************************************)
(* Properties                                                               *)
(***************************************************************************)
Entries == [name : Names \cup {Empty, Deleted}, start : Clusters \cup {0}, size : Nat]

TypeOK ==
    /\ fat \in [Clusters -> Clusters \cup {Free, EOC}]
    /\ nxt \in Nat /\ spare \in Int
    /\ dir \in [Slots -> Entries] /\ data \in [Clusters -> Contents]
    /\ file = Closed \/ file \in [entry : Entries, slot : Slots, loc : Nat]
    /\ unsaved \subseteq Clusters /\ spoiled \subseteq Clusters
    /\ call \in [op : {"idle", "write", "rm"}, cur : Clusters \cup {0, EOC},
                 at : Nat, pos : Nat, end : Nat]
    /\ others \subseteq Clusters /\ Root \in others /\ lost \subseteq Clusters

\* Where the file of entry s begins: the open FILE knows better than the
\* directory, and fs_rm better still.
Live  == {s \in Slots : dir[s].name \in Names}
Start(s) == IF s # file.slot THEN dir[s].start
            ELSE IF call.op = "rm" THEN call.cur ELSE file.entry.start
Points(c) == \/ \E b \in Clusters : fat[b] = c
             \/ \E s \in Live : Start(s) = c

\* No cluster belongs to two files, or twice to one: whatever is refused,
\* fails half way or is removed, at most one link or entry leads to a cluster,
\* none to a free one, to the directory's or to another system's.
OneOwner ==
    /\ \A a, b \in Clusters : fat[a] \in Clusters /\ fat[a] = fat[b] => a = b
    /\ \A s, t \in Live : Start(s) \in Clusters /\ Start(s) = Start(t) => s = t
    /\ \A b \in Clusters, s \in Live : Start(s) \in Clusters => fat[b] # Start(s)
    /\ \A c \in Clusters : Points(c) => fat[c] # Free /\ c \notin others

\* A cluster that is in use can be reached, but for those of the allocations
\* that failed: removing files gives all the others back.
Accounted == \A c \in Clusters \ (others \cup lost) : fat[c] # Free => Points(c)

\* fs_alloc takes a legal hint without looking: the cluster it names is free, or
\* is one that an earlier failure left marked and in no file.
HintFree == nxt <= spare =>
    /\ nxt + 1 \in Clusters \ others
    /\ fat[nxt + 1] = Free \/ nxt + 1 \in lost
LostApart == \A c \in lost : fat[c] = EOC /\ c \notin others /\ ~Points(c)

\* What fs_read finds at position p of a file: every byte up to the size is in
\* the chain, and is the one written there, unless the card failed: it did not
\* take the cluster, or a failed read spoiled its buffer.
ReadsBack ==
    \A e \in {dir[s] : s \in Live \ {file.slot}}
             \cup (IF file # Closed /\ call.op # "rm" THEN {file.entry} ELSE {}) :
        \A p \in 0 .. e.size - 1 :
            LET c == Nth(e.start)[p \div Bytes]
            IN  c \in Clusters /\ Seen(c)[p % Bytes] \in {<<e.name, p>>, Junk}

\* A file that was created and not removed is found, and only once.
FoundIsThere == \A s \in Live : Found(dir[s].name) = {s}

\* ls shows every file that was created and not removed, and each once, whatever
\* was removed and created in front of it.
ListsThem == /\ {Listing[i] : i \in DOMAIN Listing} = {dir[s].name : s \in Live}
             /\ Len(Listing) = Cardinality(Live)
=================================================================================
