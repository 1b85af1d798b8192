------------------------------ MODULE FilesProof ------------------------------
(***************************************************************************)
(* Files: no cluster has two owners, every file reads back what was written *)
(* and ls shows them all, whatever is refused or fails.  The invariants of  *)
(* the run need more: what the calls under way hold, that clusters given up *)
(* are in no file, and what a write has put in a file but not yet counted.  *)
(***************************************************************************)
EXTENDS Files, TLAPS, FiniteSetTheorems, WellFoundedInduction

\* The open FILE came from an entry that is there still; a write has got to a
\* cluster of some file, or to none; a call has its FILE open.
CallHolds ==
    /\ file # Closed => /\ file.slot \in Live
                        /\ file.entry.name = IF call.op = "rm" THEN Deleted
                                              ELSE dir[file.slot].name
    /\ call.op # "idle" => file # Closed
    /\ call.op = "write" /\ call.cur # 0 => call.cur \in Clusters /\ Points(call.cur)

OthersUsed == \A c \in others : fat[c] # Free

Owned == OneOwner /\ Accounted /\ HintFree /\ LostApart /\ OthersUsed
IInv  == TypeOK /\ Owned /\ CallHolds

(***************************************************************************)
(* Types                                                                    *)
(***************************************************************************)
\* Numbers that are not clusters.
LEMMA NotClusters == 0 \notin Clusters /\ EOC \notin Clusters /\ Root \in Clusters
                     /\ EOC # 0 /\ NSlots \notin Slots /\ Clusters \subseteq Nat
  BY FilesAssumption DEF Clusters, EOC, Root, Slots

\* A blank cluster has contents.
LEMMA BlankType == Blank \in Contents
  BY DEF Blank, Contents, Marks

\* The initial state has the types.
LEMMA InitType == Init => TypeOK
<1> SUFFICES ASSUME Init PROVE TypeOK OBVIOUS
<1>1. others \subseteq Clusters /\ Root \in others
  BY FilesAssumption, NotClusters DEF Init
<1>2. fat \in [Clusters -> Clusters \cup {Free, EOC}]
  BY DEF Init
<1>3. nxt \in Nat /\ spare \in Int
  BY FilesAssumption DEF Init
<1>4. dir \in [Slots -> Entries]
  BY DEF Init, Entries, Entry
<1>5. data \in [Clusters -> Contents]
  BY BlankType DEF Init
<1>6. call \in [op : {"idle", "write", "rm"}, cur : Clusters \cup {0, EOC},
                 at : Nat, pos : Nat, end : Nat]
  BY DEF Init, Idle, Call
<1> QED BY <1>1, <1>2, <1>3, <1>4, <1>5, <1>6 DEF Init, TypeOK

\* An open FILE has the type of one.
LEMMA OpenType ==
    ASSUME TypeOK, file # Closed
    PROVE  /\ file \in [entry : Entries, slot : Slots, loc : Nat]
           /\ file.entry \in Entries /\ file.slot \in Slots /\ file.loc \in Nat
           /\ file.entry.size \in Nat /\ file.entry.start \in Clusters \cup {0}
  BY DEF TypeOK, Entries

\* The smaller of two numbers.
LEMMA LeastNat == \A a, b \in Nat : Least(a, b) \in Nat /\ Least(a, b) <= a
  BY DEF Least

\* A cluster fs_alloc may give, and the one it then looks for.
LEMMA AboveType == \A c : \A n \in Above(c) : n \in Clusters
  BY DEF Above, FirstFree

Calls == [op : {"idle", "write", "rm"}, cur : Clusters \cup {0, EOC},
          at : Nat, pos : Nat, end : Nat]

\* A call that has gone one cluster further is a call.
LEMMA FurtherType ==
    ASSUME NEW c \in Clusters, NEW p \in Nat, call \in Calls
    PROVE  /\ [call EXCEPT !.cur = c, !.at = @ + 1] \in Calls
           /\ [call EXCEPT !.cur = c, !.at = @ + 1, !.pos = p] \in Calls
<1>1. call.at + 1 \in Nat
  BY DEF Calls
<1>2. call = [op |-> call.op, cur |-> call.cur, at |-> call.at, pos |-> call.pos,
              end |-> call.end]
  BY DEF Calls
<1> DEFINE k == call.at + 1
<1> HIDE DEF k
<1>3. /\ [call EXCEPT !.cur = c, !.at = k] \in Calls
      /\ [call EXCEPT !.cur = c, !.at = k, !.pos = p] \in Calls
  BY <1>1, <1>2 DEF Calls, k
<1> QED BY <1>3 DEF k

\* fs_lseek, and fs_read or its failure: loc is moved, buffers are used again.
Moved(l) ==
    /\ call = Idle /\ file # Closed /\ file' = [file EXCEPT !.loc = l]
    /\ UNCHANGED <<fat, nxt, spare, dir, data, call, others, lost>>
    /\ unsaved' \subseteq unsaved /\ spoiled' \subseteq spoiled \cup Clusters

LEMMA GarblesType ==
    ASSUME NEW c, Garbles(c) PROVE unsaved' \subseteq unsaved /\ spoiled' \subseteq spoiled \cup Clusters
  BY DEF Garbles, OfFile

LEMMA MovedIs ==
    ASSUME TypeOK, NEW k \in 0 .. MaxSize, Lseek(k) \/ Read(k) \/ ReadFails
    PROVE  \E l \in Nat : /\ Moved(l)
                          /\ file.loc <= file.entry.size => l <= file.entry.size
<1>1. k \in Nat /\ file # Closed
  BY FilesAssumption DEF Lseek, Read, ReadFails
<1>2. /\ file \in [entry : Entries, slot : Slots, loc : Nat]
      /\ file.loc \in Nat /\ file.entry.size \in Nat
  BY <1>1, OpenType
<1>3. CASE Lseek(k)
  <2>1. Least(k, file.entry.size) \in Nat /\ Least(k, file.entry.size) <= file.entry.size
    BY <1>1, <1>2 DEF Least
  <2>2. Moved(Least(k, file.entry.size))
    BY <1>3 DEF Lseek, Moved
  <2> QED BY <2>1, <2>2
<1>4. CASE Read(k)
  <2> DEFINE l == file.loc + Least(k, file.entry.size - file.loc)
  <2>1. l \in Nat /\ (file.loc <= file.entry.size => l <= file.entry.size)
    BY <1>1, <1>2 DEF Least
  <2>2. Moved(l)
    BY <1>4 DEF Read, Moved
  <2> HIDE DEF l
  <2> QED BY <2>1, <2>2
<1>5. CASE ReadFails
  <2>1. file = [file EXCEPT !.loc = file.loc]
    BY <1>2
  <2>2. Moved(file.loc)
    BY <1>5, <2>1, GarblesType DEF ReadFails, Moved
  <2> QED BY <1>2, <2>2
<1> QED BY <1>3, <1>4, <1>5

\* Every step keeps the types.
LEMMA TypeStep == ASSUME TypeOK, Owned, CallHolds, [Next]_vars PROVE TypeOK'
<1> USE DEF TypeOK
<1>0. CASE UNCHANGED vars
  BY <1>0 DEF vars
<1>1. ASSUME NEW n \in Names, Open(n) PROVE TypeOK'
  <2>1. PICK s \in Slots : file' = [entry |-> dir[s], slot |-> s, loc |-> 0]
    BY <1>1 DEF Open, Found
  <2>2. dir[s] \in Entries
    OBVIOUS
  <2> QED BY <1>1, <2>1, <2>2 DEF Open
<1>2. ASSUME NEW n \in Names, Create(n) PROVE TypeOK'
  <2>1. Entry(n, 0, 0) \in Entries
    BY DEF Entry, Entries
  <2> QED BY <1>2, <2>1 DEF Create
<1>3. ASSUME NEW n \in Names, Rm(n) PROVE TypeOK'
  <2>1. PICK s \in Slots :
            /\ file' = [entry |-> [dir[s] EXCEPT !.name = Deleted], slot |-> s, loc |-> 0]
            /\ call' = Call("rm", dir[s].start, 0, 0, 0)
    BY <1>3 DEF Rm, Found
  <2>2. dir[s] \in Entries
    OBVIOUS
  <2>3. /\ [dir[s] EXCEPT !.name = Deleted] \in Entries
        /\ dir[s].start \in Clusters \cup {0}
    BY <2>2 DEF Entries
  <2> QED BY <1>3, <2>1, <2>3 DEF Rm, Call
<1>4. ASSUME NEW k \in 0 .. MaxSize, Lseek(k) \/ Read(k) \/ ReadFails PROVE TypeOK'
  <2>1. PICK l \in Nat : Moved(l)
    BY <1>4, MovedIs
  <2>2. file' \in [entry : Entries, slot : Slots, loc : Nat]
    BY <2>1, OpenType DEF Moved
  <2> QED BY <2>1, <2>2 DEF Moved
<1>5. ASSUME NEW k \in 0 .. MaxSize, Write(k) PROVE TypeOK'
  BY <1>5, FilesAssumption, OpenType DEF Write, Call
<1>6. ASSUME NEW torn, Closing(torn), file # Closed PROVE TypeOK'
  <2>1. Ruined \in Contents
    BY DEF Ruined, Contents, Marks
  <2>2. data' \in [Clusters -> Contents]
    BY <1>6, <2>1 DEF Closing
  <2>3. dir' \in [Slots -> Entries]
    BY <1>6, OpenType DEF Closing
  <2> QED BY <1>6, <2>2, <2>3 DEF Closing, Idle, Call
<1>7. CASE Extend
  <2>1. PICK c \in Candidates, n \in Clusters :
            /\ n \in Above(c) /\ fat' = Linked(Marked(c), c) /\ nxt' = n - 1
            /\ file' = IF call.cur = 0 THEN [file EXCEPT !.entry.start = c] ELSE file
            /\ data' = [data EXCEPT ![c] = Blank] /\ lost' = lost \ {c}
    BY <1>7, AboveType DEF Extend
  <2>2. c \in Clusters /\ n \in Clusters
    BY <2>1, AboveType DEF Candidates, FirstFree, Owned, HintFree
  <2>3. fat' \in [Clusters -> Clusters \cup {Free, EOC}]
    BY <2>1, <2>2 DEF Linked, Marked
  <2>4. nxt' \in Nat
    BY <2>1, <2>2 DEF Clusters
  <2>5. file' = Closed \/ file' \in [entry : Entries, slot : Slots, loc : Nat]
    <3>1. file # Closed
      BY <1>7 DEF Extend, CallHolds
    <3>2. [file EXCEPT !.entry.start = c] \in [entry : Entries, slot : Slots, loc : Nat]
      BY <3>1, <2>2, OpenType DEF Entries
    <3> QED BY <2>1, <3>2
  <2>6. data' \in [Clusters -> Contents]
    BY <2>1, BlankType
  <2> QED BY <1>7, <2>1, <2>3, <2>4, <2>5, <2>6 DEF Extend
<1>8. CASE Refuse
  <2>1. \A c \in Candidates : c \in Clusters
    BY DEF Candidates, FirstFree, Owned, HintFree
  <2> QED BY <1>8, <2>1 DEF Refuse, Marked, Idle, Call
<1>9. CASE EraseFails
  <2>1. \A c \in Candidates : c \in Clusters
    BY DEF Candidates, FirstFree, Owned, HintFree
  <2>2. nxt' \in Nat
    BY <1>9, AboveType DEF EraseFails, Clusters
  <2> QED BY <1>9, <2>1, <2>2 DEF EraseFails, Marked, Idle, Call
<1>10. CASE Pass
  <2>1. Wanted \in Clusters
    BY <1>10 DEF Pass, Missing
  <2>2. call' \in Calls
    BY <1>10, <2>1, FurtherType DEF Pass, Calls
  <2> QED BY <1>10, <2>2 DEF Pass, Calls
<1>11. CASE Fill
  <2>0. Wanted \in Clusters /\ file # Closed /\ call.op = "write"
    BY <1>11 DEF Fill, Missing, CallHolds
  <2>1. file.entry.name \in Names
    BY <2>0 DEF CallHolds, Live
  <2>2. Until \in Nat
    BY FilesAssumption DEF Until, Least
  <2>3. data' \in [Clusters -> Contents]
    <3>1. \A i \in 0 .. Bytes - 1 : <<file.entry.name, call.at * Bytes + i>> \in Marks
      BY <2>1, FilesAssumption DEF Marks
    <3>2. \A i \in 0 .. Bytes - 1 : data[Wanted][i] \in Marks
      BY <2>0 DEF Contents
    <3>3. PICK bad \in SUBSET spoiled :
            data' = [data EXCEPT ![Wanted] = [i \in 0 .. Bytes - 1 |->
              IF call.at * Bytes + i \in call.pos .. Until - 1
              THEN <<file.entry.name, call.at * Bytes + i>>
              ELSE IF Wanted \in bad THEN Junk ELSE data[Wanted][i]]]
      BY <1>11, <2>0 DEF Fill
    <3>4. [i \in 0 .. Bytes - 1 |->
              IF call.at * Bytes + i \in call.pos .. Until - 1
              THEN <<file.entry.name, call.at * Bytes + i>>
              ELSE IF Wanted \in bad THEN Junk ELSE data[Wanted][i]]
          \in Contents
      BY <3>1, <3>2 DEF Contents, Marks
    <3> QED BY <2>0, <3>3, <3>4
  <2>4. /\ file' = Closed \/ file' \in [entry : Entries, slot : Slots, loc : Nat]
        /\ call' \in [op : {"idle", "write", "rm"}, cur : Clusters \cup {0, EOC},
                      at : Nat, pos : Nat, end : Nat]
    <3>1. CASE Until = call.end
      <4>1. file' = [file EXCEPT !.loc = call.end,
                          !.entry.size = IF call.end > @ THEN call.end ELSE @]
        BY <1>11, <3>1 DEF Fill
      <4>2. file' \in [entry : Entries, slot : Slots, loc : Nat]
        BY <4>1, <2>0, OpenType DEF Entries
      <4> QED BY <1>11, <3>1, <4>2 DEF Fill, Idle, Call
    <3>2. CASE Until # call.end
      <4>1. /\ call' = [call EXCEPT !.cur = Wanted, !.at = @ + 1, !.pos = Until]
            /\ UNCHANGED file
        BY <1>11, <3>2 DEF Fill
      <4>2. call \in Calls
        BY DEF Calls
      <4>3. call' \in Calls
        BY <4>1, <4>2, <2>0, <2>2, FurtherType
      <4> QED BY <4>1, <4>3 DEF Calls
    <3> QED BY <3>1, <3>2
  <2> QED BY <1>11, <2>0, <2>3, <2>4 DEF Fill
<1>12. CASE FillFails
  BY <1>12, GarblesType DEF FillFails, Idle, Call
<1>13. CASE Release
  <2>1. Following \in Clusters \cup {0, EOC}
    BY <1>13 DEF Release, Following, Free
  <2>2. fat' \in [Clusters -> Clusters \cup {Free, EOC}]
    BY <1>13 DEF Release
  <2>3. data' \in [Clusters -> Contents]
    BY <1>13, BlankType DEF Release
  <2> QED BY <1>13, <2>1, <2>2, <2>3 DEF Release
<1> QED
  BY <1>0, <1>1, <1>2, <1>3, <1>4, <1>5, <1>6, <1>7, <1>8, <1>9, <1>10, <1>11,
     <1>12, <1>13, FilesAssumption DEF Next, Close, Step, Removed, CallHolds

(***************************************************************************)
(* Owners                                                                   *)
(***************************************************************************)
SameStarts ==
    /\ \A s \in Live' : Start(s)' \in Clusters => s \in Live /\ Start(s)' = Start(s)
    /\ \A s \in Live : Start(s) \in Clusters => s \in Live' /\ Start(s)' = Start(s)

\* A step that leaves the FAT alone, and where the files start, changes no owner.
LEMMA QuietStep ==
    ASSUME TypeOK, Owned, SameStarts, UNCHANGED <<fat, nxt, spare, others, lost>>
    PROVE  Owned' /\ \A c \in Clusters : Points(c)' <=> Points(c)
<1>1. \A c \in Clusters : Points(c)' <=> Points(c)
  BY DEF SameStarts, Points
<1>2. OneOwner'
  BY <1>1 DEF Owned, OneOwner, SameStarts
<1>3. Accounted'
  BY <1>1 DEF Owned, Accounted
<1>4. LostApart'
  BY <1>1 DEF Owned, LostApart, TypeOK
<1>5. OthersUsed' /\ HintFree'
  BY DEF Owned, OthersUsed, HintFree
<1> QED BY <1>1, <1>2, <1>3, <1>4, <1>5 DEF Owned

\* What fs_alloc takes, seen or unseen, is in no file.
LEMMA CandidateApart ==
    ASSUME TypeOK, Owned, NEW c \in Candidates
    PROVE  /\ c \in Clusters /\ c \notin others /\ ~ Points(c)
           /\ fat[c] = Free \/ (c \in lost /\ fat[c] = EOC)
<1>1. CASE nxt <= spare
  <2>1. c = nxt + 1
    BY <1>1 DEF Candidates
  <2> QED BY <1>1, <2>1 DEF Owned, HintFree, LostApart, OneOwner
<1>2. CASE ~ (nxt <= spare)
  <2>1. c \in Clusters /\ fat[c] = Free
    BY <1>2 DEF Candidates, FirstFree
  <2> QED BY <2>1 DEF Owned, OneOwner, OthersUsed
<1> QED BY <1>1, <1>2

\* What it finds above is free, another cluster, and the next hint.
LEMMA AboveFree ==
    ASSUME TypeOK, Owned, NEW c \in Candidates, NEW n \in Above(c)
    PROVE  /\ n \in Clusters \ others /\ n # c /\ fat[n] = Free
           /\ (n - 1) + 1 = n
<1>1. n \in Clusters /\ Marked(c)[n] = Free
  BY DEF Above, FirstFree
<1>2. c \in Clusters /\ fat \in [Clusters -> Clusters \cup {Free, EOC}]
  BY CandidateApart DEF TypeOK
<1>3. n # c
  BY <1>1, <1>2, NotClusters DEF Marked, Free
<1>4. fat[n] = Free
  BY <1>1, <1>2, <1>3 DEF Marked
<1>5. n \in Nat
  BY <1>1, NotClusters
<1> QED BY <1>1, <1>3, <1>4, <1>5 DEF Owned, OthersUsed

\* An allocation that fails gives a cluster up and changes no owner.
LEMMA GiveUpStep ==
    ASSUME TypeOK, Owned, SameStarts, NEW c \in Candidates,
           fat' = Marked(c), lost' = lost \cup {c}, UNCHANGED <<others, spare>>,
           nxt' = nxt \/ \E n \in Above(c) : nxt' = n - 1,
           Above(c) = {} => nxt' = nxt
    PROVE  Owned' /\ \A d \in Clusters : Points(d)' <=> Points(d)
<1>1. /\ c \in Clusters /\ c \notin others /\ ~ Points(c) /\ fat[c] \in {Free, EOC}
      /\ fat \in [Clusters -> Clusters \cup {Free, EOC}]
  BY CandidateApart DEF TypeOK
<1>2. /\ fat'[c] = EOC /\ \A d \in Clusters : d # c => fat'[d] = fat[d]
  BY <1>1 DEF Marked
<1>3. \A b, d \in Clusters : fat'[b] = d <=> fat[b] = d
  BY <1>1, <1>2, NotClusters DEF Free
<1>4. \A d \in Clusters : Points(d)' <=> Points(d)
  BY <1>3 DEF SameStarts, Points
<1>5. OneOwner'
  <2>1. \A a, b \in Clusters : fat'[a] \in Clusters /\ fat'[a] = fat'[b] => a = b
    BY <1>3 DEF Owned, OneOwner
  <2>2. \A s, t \in Live' : Start(s)' \in Clusters /\ Start(s)' = Start(t)' => s = t
    BY DEF SameStarts, Owned, OneOwner
  <2>3. \A b \in Clusters, s \in Live' : Start(s)' \in Clusters => fat'[b] # Start(s)'
    BY <1>3 DEF SameStarts, Owned, OneOwner
  <2>4. \A d \in Clusters : Points(d)' => fat'[d] # Free /\ d \notin others
    BY <1>1, <1>2, <1>4 DEF Owned, OneOwner
  <2> QED BY <2>1, <2>2, <2>3, <2>4 DEF OneOwner
<1>6. Accounted'
  BY <1>2, <1>4 DEF Owned, Accounted
<1>7. LostApart'
  BY <1>1, <1>2, <1>4 DEF Owned, LostApart, TypeOK
<1>8. OthersUsed'
  BY <1>1, <1>2 DEF Owned, OthersUsed, TypeOK
<1>9. HintFree'
  <2>1. CASE nxt' = nxt
    BY <2>1, <1>1, <1>2 DEF Owned, HintFree
  <2>2. CASE \E n \in Above(c) : nxt' = n - 1
    <3>1. PICK n \in Above(c) : nxt' = n - 1
      BY <2>2
    <3>2. n \in Clusters \ others /\ n # c /\ fat[n] = Free /\ nxt' + 1 = n
      BY <3>1, AboveFree
    <3> QED BY <3>2, <1>2 DEF HintFree
  <2> QED BY <2>1, <2>2
<1> QED BY <1>4, <1>5, <1>6, <1>7, <1>8, <1>9 DEF Owned

\* An allocation that succeeds gives its cluster to one file.
LEMMA ExtendStep ==
    ASSUME TypeOK, Owned, CallHolds, Extend
    PROVE  Owned' /\ \A d \in Clusters : Points(d) => Points(d)'
<1>1. PICK c \in Candidates, n \in Clusters :
            /\ n \in Above(c) /\ fat' = Linked(Marked(c), c) /\ nxt' = n - 1
            /\ file' = IF call.cur = 0 THEN [file EXCEPT !.entry.start = c] ELSE file
            /\ lost' = lost \ {c}
  BY AboveType DEF Extend
<1>2. /\ c \in Clusters /\ c \notin others /\ ~ Points(c)
      /\ fat[c] = Free \/ (c \in lost /\ fat[c] = EOC)
      /\ fat \in [Clusters -> Clusters \cup {Free, EOC}]
  BY CandidateApart DEF TypeOK
<1>3. /\ n \in Clusters \ others /\ n # c /\ fat[n] = Free /\ nxt' + 1 = n
  BY <1>1, AboveFree
<1>4. /\ call.op = "write" /\ Missing /\ file # Closed /\ file.slot \in Live
      /\ UNCHANGED <<dir, call, others, spare>> /\ Live' = Live
  BY DEF Extend, CallHolds, Live
<1>5. file \in [entry : Entries, slot : Slots, loc : Nat]
  BY <1>4, OpenType
<1>6. CASE call.cur = 0
  <2>1. fat' = Marked(c) /\ file'.slot = file.slot /\ file'.entry.start = c
    BY <1>1, <1>5, <1>6 DEF Linked, Entries
  <2>2. /\ fat'[c] = EOC /\ \A d \in Clusters : d # c => fat'[d] = fat[d]
    BY <2>1, <1>2 DEF Marked
  <2>3. Start(file.slot) \notin Clusters
    BY <1>4, <1>6 DEF Missing, Wanted, Start
  <2>4. \A s \in Live : Start(s)' = IF s = file.slot THEN c ELSE Start(s)
    BY <2>1, <1>4 DEF Start
  <2>5. \A b, d \in Clusters : fat'[b] = d <=> fat[b] = d
    BY <1>2, <2>2, NotClusters DEF Free
  <2>6. \A d \in Clusters : Points(d)' <=> Points(d) \/ d = c
    BY <1>4, <2>3, <2>4, <2>5 DEF Points
  <2>7. OneOwner'
    <3>1. \A a, b \in Clusters : fat'[a] \in Clusters /\ fat'[a] = fat'[b] => a = b
      BY <2>5 DEF Owned, OneOwner
    <3>2. \A s, t \in Live' : Start(s)' \in Clusters /\ Start(s)' = Start(t)' => s = t
      BY <1>2, <1>4, <2>4 DEF Owned, OneOwner, Points
    <3>3. \A b \in Clusters, s \in Live' : Start(s)' \in Clusters => fat'[b] # Start(s)'
      BY <1>2, <1>4, <2>4, <2>5 DEF Owned, OneOwner, Points
    <3>4. \A d \in Clusters : Points(d)' => fat'[d] # Free /\ d \notin others'
      BY <1>2, <1>4, <2>2, <2>6, NotClusters DEF Owned, OneOwner, Free
    <3> QED BY <3>1, <3>2, <3>3, <3>4 DEF OneOwner
  <2>8. Accounted' /\ LostApart' /\ OthersUsed' /\ HintFree'
    <3>1. Accounted'
      BY <1>1, <1>4, <2>2, <2>6 DEF Owned, Accounted
    <3>2. LostApart'
      BY <1>1, <1>4, <2>2, <2>6 DEF Owned, LostApart, TypeOK
    <3>3. OthersUsed'
      BY <1>2, <1>4, <2>2 DEF Owned, OthersUsed, TypeOK
    <3>4. HintFree'
      BY <1>3, <1>4, <2>2 DEF HintFree
    <3> QED BY <3>1, <3>2, <3>3, <3>4
  <2> QED BY <2>6, <2>7, <2>8 DEF Owned
<1>7. CASE call.cur # 0
  <2> DEFINE r == call.cur
  <2>1. r \in Clusters /\ Points(r) /\ fat[r] \notin Clusters /\ fat[r] # Free /\ r # c
    BY <1>2, <1>4, <1>7 DEF CallHolds, Missing, Wanted, Owned, OneOwner
  <2> HIDE DEF r
  <2>2. fat' = [Marked(c) EXCEPT ![r] = c] /\ file' = file
    BY <1>1, <1>7 DEF Linked, r
  <2>3. /\ fat'[c] = EOC /\ fat'[r] = c
        /\ \A d \in Clusters : d # c /\ d # r => fat'[d] = fat[d]
    BY <2>1, <2>2, <1>2 DEF Marked
  <2>4. \A s \in Live : Start(s)' = Start(s)
    BY <2>2, <1>4 DEF Start
  <2>5. \A b, d \in Clusters : fat'[b] = d <=> fat[b] = d \/ (b = r /\ d = c)
    BY <1>2, <2>1, <2>3, NotClusters DEF Free
  <2>6. \A d \in Clusters : Points(d)' <=> Points(d) \/ d = c
    BY <1>4, <2>1, <2>4, <2>5 DEF Points
  <2>7. OneOwner'
    <3>1. \A a, b \in Clusters : fat'[a] \in Clusters /\ fat'[a] = fat'[b] => a = b
      BY <1>2, <2>5 DEF Owned, OneOwner, Points
    <3>2. \A s, t \in Live' : Start(s)' \in Clusters /\ Start(s)' = Start(t)' => s = t
      BY <1>4, <2>4 DEF Owned, OneOwner
    <3>3. \A b \in Clusters, s \in Live' : Start(s)' \in Clusters => fat'[b] # Start(s)'
      BY <1>2, <1>4, <2>4, <2>5 DEF Owned, OneOwner, Points
    <3>4. \A d \in Clusters : Points(d)' => fat'[d] # Free /\ d \notin others'
      BY <1>2, <1>4, <2>1, <2>3, <2>6, NotClusters DEF Owned, OneOwner, Free
    <3> QED BY <3>1, <3>2, <3>3, <3>4 DEF OneOwner
  <2>8. r \notin lost /\ r \notin others
    BY <2>1 DEF Owned, LostApart, OneOwner
  <2>9. Accounted'
    BY <1>1, <1>4, <2>1, <2>3, <2>6 DEF Owned, Accounted
  <2>10. LostApart'
    BY <1>1, <1>4, <2>3, <2>6, <2>8 DEF Owned, LostApart, TypeOK
  <2>11. OthersUsed'
    BY <1>2, <1>4, <2>3, <2>8 DEF Owned, OthersUsed, TypeOK
  <2>12. HintFree'
    BY <1>3, <1>4, <2>1, <2>3 DEF HintFree
  <2> QED BY <2>6, <2>7, <2>9, <2>10, <2>11, <2>12 DEF Owned
<1> QED BY <1>6, <1>7

\* fs_rm frees the first cluster and starts the file at the next one.
LEMMA ReleaseStep ==
    ASSUME TypeOK, Owned, CallHolds, Release
    PROVE  Owned'
<1>0. PICK r : r = call.cur
  OBVIOUS
<1>1. /\ call.op = "rm" /\ r \in Clusters /\ file # Closed /\ file.slot \in Live
      /\ UNCHANGED <<dir, file, others, lost, nxt, spare>> /\ Live' = Live
  BY <1>0 DEF Release, CallHolds, Live
<1>2. call \in [op : {"idle", "write", "rm"}, cur : Clusters \cup {0, EOC},
                 at : Nat, pos : Nat, end : Nat]
  BY DEF TypeOK
<1>3. call'.op = "rm" /\ call'.cur = fat[r] /\ fat' = [fat EXCEPT ![r] = Free]
  BY <1>0, <1>1, <1>2 DEF Release, Following
<1>4. /\ Start(file.slot) = r
      /\ \A s \in Live : Start(s)' = IF s = file.slot THEN fat[r] ELSE Start(s)
  BY <1>0, <1>1, <1>3 DEF Start
<1>5. fat'[r] = Free /\ \A d \in Clusters : d # r => fat'[d] = fat[d]
  BY <1>1, <1>3 DEF TypeOK
<1>6. \A b, d \in Clusters : fat'[b] = d <=> fat[b] = d /\ b # r
  BY <1>1, <1>5, NotClusters DEF Free
<1>7. Points(r) /\ fat[r] # Free /\ r \notin others /\ r \notin lost
  BY <1>1, <1>4 DEF Points, Owned, OneOwner, LostApart
<1>8. fat[r] # r /\ \A b \in Clusters : fat[b] # r
  BY <1>1, <1>4 DEF Owned, OneOwner
<1>9. \A d \in Clusters : Points(d)' <=> Points(d) /\ d # r
  <2>1. \A d \in Clusters : d # r /\ Points(d) => Points(d)'
    BY <1>1, <1>4, <1>6 DEF Points
  <2>2. \A d \in Clusters : Points(d)' => Points(d)
    BY <1>1, <1>4, <1>6 DEF Points
  <2>3. ~ Points(r)'
    BY <1>1, <1>4, <1>6, <1>8 DEF Points, Owned, OneOwner
  <2> QED BY <2>1, <2>2, <2>3
<1>10. OneOwner'
  <2>1. \A a, b \in Clusters : fat'[a] \in Clusters /\ fat'[a] = fat'[b] => a = b
    BY <1>6 DEF Owned, OneOwner
  <2>2. \A s, t \in Live' : Start(s)' \in Clusters /\ Start(s)' = Start(t)' => s = t
    BY <1>1, <1>4 DEF Owned, OneOwner
  <2>3. \A b \in Clusters, s \in Live' : Start(s)' \in Clusters => fat'[b] # Start(s)'
    BY <1>1, <1>4, <1>6 DEF Owned, OneOwner
  <2>4. \A d \in Clusters : Points(d)' => fat'[d] # Free /\ d \notin others'
    BY <1>1, <1>5, <1>9 DEF Owned, OneOwner
  <2> QED BY <2>1, <2>2, <2>3, <2>4 DEF OneOwner
<1>11. Accounted'
  BY <1>1, <1>5, <1>9 DEF Owned, Accounted
<1>12. LostApart'
  BY <1>1, <1>5, <1>7, <1>9 DEF Owned, LostApart, TypeOK
<1>13. OthersUsed'
  BY <1>1, <1>5, <1>7 DEF Owned, OthersUsed, TypeOK
<1>14. HintFree'
  BY <1>1, <1>5, <1>7 DEF Owned, HintFree
<1> QED BY <1>10, <1>11, <1>12, <1>13, <1>14 DEF Owned

(***************************************************************************)
(* The invariant                                                            *)
(***************************************************************************)
\* The invariant holds in the initial state.
LEMMA InitInv == Init => IInv
<1> SUFFICES ASSUME Init PROVE IInv OBVIOUS
<1>1. TypeOK
  BY InitType
<1>2. Live = {} /\ others \subseteq Clusters /\ file = Closed /\ call = Idle
  BY <1>1, FilesAssumption DEF Init, Live, Entry, TypeOK
<1>3. \A c \in Clusters : ~ Points(c)
  BY <1>2, NotClusters DEF Points, Init, Free
<1>4. OneOwner
  BY <1>2, <1>3, NotClusters DEF Points, OneOwner, Init, Free
<1>5. Accounted /\ OthersUsed
  BY <1>2, NotClusters DEF Accounted, OthersUsed, Init, Free
<1>6. HintFree
  <2>1. nxt <= spare => nxt + 1 \in Clusters \ others
    BY <1>1 DEF Init, TypeOK
  <2> QED BY <2>1 DEF HintFree, Init
<1>7. LostApart
  BY DEF LostApart, Init
<1>8. CallHolds
  BY <1>2 DEF CallHolds, Idle, Call
<1> QED BY <1>1, <1>4, <1>5, <1>6, <1>7, <1>8 DEF IInv, Owned

\* What a write has got to stays in its file while owners stay.
LEMMA CallKept ==
    ASSUME CallHolds, UNCHANGED <<dir, call>>,
           \A c \in Clusters : Points(c) => Points(c)',
           file' = file \/ (/\ file' # Closed /\ file'.slot = file.slot /\ file # Closed
                            /\ file'.entry.name = file.entry.name)
    PROVE  CallHolds'
  BY DEF CallHolds, Live

\* A call that ends leaves its FILE open.
LEMMA CallEnds ==
    ASSUME CallHolds, call' = Idle, call.op = "write", UNCHANGED dir,
           file' = file \/ (/\ file' # Closed /\ file'.slot = file.slot
                            /\ file'.entry.name = file.entry.name)
    PROVE  CallHolds'
  BY DEF CallHolds, Live, Idle, Call

\* Every step keeps the invariant.
LEMMA StepInv == IInv /\ [Next]_vars => IInv'
<1> SUFFICES ASSUME IInv, [Next]_vars PROVE IInv' OBVIOUS
<1>t. TypeOK /\ Owned /\ CallHolds /\ TypeOK'
  BY TypeStep DEF IInv
<1> SUFFICES Owned' /\ CallHolds'
  BY <1>t DEF IInv
<1> DEFINE Quiet == UNCHANGED <<fat, nxt, spare, others, lost>>
<1>0. CASE UNCHANGED vars
  <2>1. Quiet /\ SameStarts /\ UNCHANGED <<dir, file, call>>
    BY <1>0 DEF vars, SameStarts, Live, Start
  <2> QED BY <1>t, <2>1, QuietStep, CallKept
<1>1. ASSUME NEW n \in Names, Open(n) PROVE Owned' /\ CallHolds'
  <2>1. PICK s \in Slots : /\ dir[s].name = n
                           /\ file' = [entry |-> dir[s], slot |-> s, loc |-> 0]
    BY <1>1 DEF Open, Found
  <2>2. Quiet /\ Live' = Live /\ call = Idle /\ UNCHANGED <<dir, call>>
    BY <1>1 DEF Open, Live
  <2>3. SameStarts
    BY <1>1, <2>1, <2>2, NotClusters DEF SameStarts, Start, Closed, Idle, Call, Live, Open
  <2>4. CallHolds'
    BY <2>1, <2>2 DEF CallHolds, Live, Idle, Call
  <2> QED BY <1>t, <2>2, <2>3, <2>4, QuietStep
<1>2. ASSUME NEW n \in Names, Create(n) PROVE Owned' /\ CallHolds'
  <2>1. PICK s \in Slots : /\ dir[s].name \in {Empty, Deleted}
                           /\ dir' = [dir EXCEPT ![s] = Entry(n, 0, 0)]
    BY <1>2 DEF Create, Vacant
  <2>2. Quiet /\ call = Idle /\ file = Closed /\ UNCHANGED <<file, call>>
    BY <1>2 DEF Create
  <2>3. /\ Live' = Live \cup {s} /\ s \notin Live
        /\ \A t \in Live : dir'[t] = dir[t]
        /\ dir'[s].start = 0 /\ dir'[s].name = n
    BY <1>t, <2>1, FilesAssumption DEF Live, TypeOK, Entry
  <2>4. SameStarts
    BY <2>2, <2>3, NotClusters DEF SameStarts, Start, Closed, Live
  <2>5. CallHolds'
    BY <2>2 DEF CallHolds, Idle, Call
  <2> QED BY <1>t, <2>2, <2>4, <2>5, QuietStep
<1>3. ASSUME NEW n \in Names, Rm(n) PROVE Owned' /\ CallHolds'
  <2>1. PICK s \in Slots :
            /\ dir[s].name = n
            /\ file' = [entry |-> [dir[s] EXCEPT !.name = Deleted], slot |-> s, loc |-> 0]
            /\ call' = Call("rm", dir[s].start, 0, 0, 0)
    BY <1>3 DEF Rm, Found
  <2>2. Quiet /\ Live' = Live /\ call = Idle /\ file = Closed /\ UNCHANGED dir
    BY <1>3 DEF Rm, Live
  <2>3. file'.slot = s /\ call'.op = "rm" /\ call'.cur = dir[s].start /\ s \in Live
    BY <2>1 DEF Call, Live
  <2>4. SameStarts
    BY <2>2, <2>3, NotClusters DEF SameStarts, Start, Closed, Live
  <2>5. file'.entry.name = Deleted
    BY <1>t, <2>1 DEF TypeOK, Entries
  <2>6. CallHolds'
    BY <2>2, <2>3, <2>5, NotClusters DEF CallHolds, Live, Closed
  <2> QED BY <1>t, <2>2, <2>4, <2>6, QuietStep
<1>4. ASSUME NEW k \in 0 .. MaxSize, Lseek(k) \/ Read(k) \/ ReadFails PROVE Owned' /\ CallHolds'
  <2>0. PICK l : Moved(l)
    BY <1>4, <1>t, MovedIs
  <2>1. file \in [entry : Entries, slot : Slots, loc : Nat]
    BY <2>0, <1>t, OpenType DEF Moved
  <2>2. /\ file'.slot = file.slot /\ file'.entry = file.entry /\ file' # Closed
        /\ Quiet /\ UNCHANGED <<dir, call>> /\ file # Closed
    BY <2>0, <2>1, NotClusters DEF Moved, Closed
  <2>3. SameStarts
    BY <2>2 DEF SameStarts, Start, Live
  <2>4. \A c \in Clusters : Points(c) => Points(c)'
    BY <1>t, <2>2, <2>3, QuietStep
  <2> QED BY <1>t, <2>2, <2>3, <2>4, QuietStep, CallKept
<1>5. ASSUME NEW k, Write(k) PROVE Owned' /\ CallHolds'
  <2>1. /\ Quiet /\ UNCHANGED <<dir, file>> /\ file # Closed
        /\ call.op = "idle" /\ call'.op = "write" /\ call'.cur = 0
    BY <1>5 DEF Write, Call, Idle
  <2>2. SameStarts
    BY <2>1 DEF SameStarts, Start, Live
  <2>3. CallHolds'
    BY <1>t, <2>1 DEF CallHolds, Live
  <2> QED BY <1>t, <2>1, <2>2, <2>3, QuietStep
<1>6. ASSUME NEW torn, Closing(torn), file # Closed,
             call = Idle \/ (call.op = "rm" /\ call.cur \notin Clusters)
      PROVE  Owned' /\ CallHolds'
  <2>1. /\ file.slot \in Live /\ Quiet /\ file' = Closed /\ call' = Idle
        /\ dir' = [dir EXCEPT ![file.slot] = file.entry]
    BY <1>6, <1>t DEF Closing, CallHolds
  <2>2. /\ dir'[file.slot] = file.entry
        /\ \A s \in Slots : s # file.slot => dir'[s] = dir[s]
        /\ file'.slot = NSlots /\ call'.op = "idle"
    BY <1>t, <2>1 DEF TypeOK, Live, Closed, Idle, Call
  <2>3. CallHolds'
    BY <2>1, <2>2 DEF CallHolds
  <2>4. \A s \in Slots : Start(s)' = dir'[s].start
    BY <2>2, NotClusters DEF Start
  <2>5. CASE call = Idle
    <3>1. Live' = Live
      BY <1>6, <1>t, <2>1, <2>2, <2>5 DEF CallHolds, Live, Idle, Call
    <3>2. \A s \in Live : Start(s)' = Start(s)
      BY <2>2, <2>4, <2>5 DEF Start, Idle, Call, Live
    <3> QED BY <1>t, <2>1, <2>3, <3>1, <3>2, QuietStep DEF SameStarts
  <2>6. CASE call.op = "rm" /\ call.cur \notin Clusters
    <3>1. file.entry.name = Deleted
      BY <1>6, <1>t, <2>6 DEF CallHolds
    <3>2. Live' = Live \ {file.slot}
      BY <2>2, <3>1, FilesAssumption DEF Live
    <3>3. Start(file.slot) \notin Clusters
      BY <2>6 DEF Start
    <3>4. \A s \in Live : s # file.slot => Start(s)' = Start(s)
      BY <2>2, <2>4 DEF Start, Live
    <3> QED BY <1>t, <2>1, <2>3, <3>2, <3>3, <3>4, QuietStep DEF SameStarts
  <2> QED BY <1>6, <2>5, <2>6
<1>7. CASE Extend
  <2>1. Owned' /\ \A c \in Clusters : Points(c) => Points(c)'
    BY <1>7, <1>t, ExtendStep
  <2>2. /\ UNCHANGED <<dir, call>> /\ file # Closed
        /\ file' = file \/ \E c : file' = [file EXCEPT !.entry.start = c]
    BY <1>7, <1>t DEF Extend, CallHolds
  <2>3. file \in [entry : Entries, slot : Slots, loc : Nat] /\ file.slot \in Slots
    BY <1>t, <2>2, OpenType
  <2>4. file' = file \/ (/\ file' # Closed /\ file'.slot = file.slot
                         /\ file'.entry.name = file.entry.name)
    BY <2>2, <2>3, NotClusters DEF Closed, Entries
  <2> QED BY <1>t, <2>1, <2>2, <2>4, CallKept
<1>8. CASE Refuse
  <2>1. /\ UNCHANGED <<dir, file, nxt, spare, others>> /\ call' = Idle
        /\ call.op = "write"
    BY <1>8 DEF Refuse
  <2>2. SameStarts
    BY <2>1 DEF SameStarts, Start, Live, Idle, Call
  <2>3. CallHolds'
    BY <1>t, <2>1, CallEnds
  <2>4. CASE UNCHANGED <<fat, lost>>
    BY <1>t, <2>1, <2>2, <2>3, <2>4, QuietStep
  <2>5. CASE \E c \in Candidates : /\ Above(c) = {} /\ fat' = Marked(c)
                                   /\ lost' = lost \cup {c}
    BY <1>t, <2>1, <2>2, <2>3, <2>5, GiveUpStep
  <2> QED BY <1>8, <2>4, <2>5 DEF Refuse
<1>9. CASE EraseFails
  <2>1. /\ UNCHANGED <<dir, file, spare, others>> /\ call' = Idle /\ call.op = "write"
    BY <1>9 DEF EraseFails
  <2>2. SameStarts
    BY <2>1 DEF SameStarts, Start, Live, Idle, Call
  <2>3. CallHolds'
    BY <1>t, <2>1, CallEnds
  <2>4. PICK c \in Candidates : /\ fat' = Marked(c) /\ lost' = lost \cup {c}
                                /\ \E n \in Above(c) : nxt' = n - 1
    BY <1>9 DEF EraseFails
  <2> QED BY <1>t, <2>1, <2>2, <2>3, <2>4, GiveUpStep
<1>10. CASE Pass
  <2>1. /\ Quiet /\ UNCHANGED <<dir, file>> /\ call.op = "write"
        /\ call'.op = "write" /\ call'.cur = Wanted /\ Wanted \in Clusters
    BY <1>10, <1>t DEF Pass, Missing, TypeOK
  <2>2. SameStarts
    BY <2>1 DEF SameStarts, Start, Live
  <2>3. Points(Wanted)
    BY <1>t, <2>1 DEF Points, Wanted, Start, CallHolds
  <2>4. CallHolds'
    BY <1>t, <2>1, <2>2, <2>3, QuietStep DEF CallHolds, Live
  <2> QED BY <1>t, <2>1, <2>2, <2>4, QuietStep
<1>11. CASE Fill
  <2>0. /\ Quiet /\ UNCHANGED dir /\ call.op = "write" /\ file # Closed
        /\ Wanted \in Clusters
    BY <1>11, <1>t DEF Fill, Missing, CallHolds
  <2>1. file \in [entry : Entries, slot : Slots, loc : Nat] /\ file.slot \in Slots
    BY <1>t, <2>0, OpenType
  <2>2. CASE Until = call.end
    <3>1. /\ call' = Idle
          /\ file' = [file EXCEPT !.loc = call.end,
                          !.entry.size = IF call.end > @ THEN call.end ELSE @]
      BY <1>11, <2>2 DEF Fill
    <3>2. /\ file'.slot = file.slot /\ file'.entry.name = file.entry.name
          /\ file'.entry.start = file.entry.start /\ file' # Closed
      BY <2>1, <3>1, NotClusters DEF Closed, Entries
    <3>3. SameStarts
      BY <2>0, <3>1, <3>2 DEF SameStarts, Start, Live, Idle, Call
    <3>4. CallHolds'
      BY <1>t, <2>0, <3>1, <3>2, CallEnds
    <3> QED BY <1>t, <2>0, <3>3, <3>4, QuietStep
  <2>3. CASE Until # call.end
    <3>1. /\ call' = [call EXCEPT !.cur = Wanted, !.at = @ + 1, !.pos = Until]
          /\ UNCHANGED file
      BY <1>11, <2>3 DEF Fill
    <3>2. call'.op = "write" /\ call'.cur = Wanted
      BY <2>0, <3>1, <1>t DEF TypeOK
    <3>3. SameStarts
      BY <2>0, <3>1, <3>2 DEF SameStarts, Start, Live
    <3>4. Points(Wanted)
      BY <1>t, <2>0 DEF Points, Wanted, Start, CallHolds
    <3>5. CallHolds'
      BY <1>t, <2>0, <3>1, <3>2, <3>3, <3>4, QuietStep DEF CallHolds, Live
    <3> QED BY <1>t, <2>0, <3>3, <3>5, QuietStep
  <2> QED BY <2>2, <2>3
<1>12. CASE FillFails
  <2>1. /\ Quiet /\ UNCHANGED <<dir, file>> /\ call' = Idle /\ call.op = "write"
    BY <1>12 DEF FillFails
  <2>2. SameStarts
    BY <2>1 DEF SameStarts, Start, Live, Idle, Call
  <2> QED BY <1>t, <2>1, <2>2, QuietStep, CallEnds
<1>13. CASE Release
  <2>1. Owned'
    BY <1>13, <1>t, ReleaseStep
  <2>2. /\ UNCHANGED <<dir, file>> /\ file # Closed /\ call.op = "rm" /\ call'.op = "rm"
    BY <1>13, <1>t DEF Release, CallHolds, TypeOK
  <2>3. CallHolds'
    BY <1>t, <2>2 DEF CallHolds, Live
  <2> QED BY <2>1, <2>3
<1>14. CASE Removed
  BY <1>6, <1>14, <1>t DEF Removed, CallHolds
<1>15. CASE Close
  BY <1>6, <1>15 DEF Close
<1>16. CASE Step
  BY <1>7, <1>8, <1>9, <1>10, <1>11, <1>12, <1>13, <1>14, <1>16 DEF Step
<1> QED
  BY <1>0, <1>1, <1>2, <1>3, <1>4, <1>5, <1>15, <1>16, FilesAssumption DEF Next

\* The invariant, of every behaviour.
THEOREM Invariance == Spec => []IInv
  BY InitInv, StepInv, PTL DEF Spec

\* The FAT, the directory and the calls keep their types.
THEOREM FilesTyped == Spec => []TypeOK
<1>1. IInv => TypeOK
  BY DEF IInv
<1> QED BY <1>1, Invariance, PTL

\* No cluster has two owners, whatever fs_alloc refuses, whichever access to the
\* card fails and whatever is removed.
THEOREM FilesApart == Spec => []OneOwner
<1>1. IInv => OneOwner
  BY DEF IInv, Owned
<1> QED BY <1>1, Invariance, PTL

\* Every cluster in use is in a file or in the directory, is another system's or
\* was given up by an allocation that failed.
THEOREM FilesAccounted == Spec => []Accounted
<1>1. IInv => Accounted
  BY DEF IInv, Owned
<1> QED BY <1>1, Invariance, PTL

\* The hint that fs_alloc takes unseen never names a cluster of a file.
THEOREM HintSound == Spec => []HintFree
<1>1. IInv => HintFree
  BY DEF IInv, Owned
<1> QED BY <1>1, Invariance, PTL

(***************************************************************************)
(* The directory                                                            *)
(***************************************************************************)
\* A step that leaves every name, or deletes one, keeps files to be found.
LEMMA NamesKept ==
    ASSUME TypeOK, FoundIsThere,
           \A s \in Slots : dir'[s].name \in {dir[s].name, Deleted}
    PROVE  FoundIsThere'
<1> SUFFICES ASSUME NEW s \in Live' PROVE Found(dir[s].name)' = {s}
  BY DEF FoundIsThere
<1>1. s \in Live /\ dir'[s].name = dir[s].name /\ Deleted # dir[s].name
      /\ Empty # Deleted
  BY FilesAssumption DEF Live, Empty, Deleted
<1>2. Found(dir[s].name) = {s}
  BY <1>1 DEF FoundIsThere
<1>3. \A t \in Slots : \A u \in 0 .. t - 1 : u \in Slots
  BY FilesAssumption DEF Slots
<1>4. s \in Found(dir[s].name)'
  BY <1>1, <1>2, <1>3, FilesAssumption DEF Found, Live
<1>5. ASSUME NEW t \in Found(dir[s].name)' PROVE t = s
  <2>1. t \in Slots /\ dir[t].name = dir[s].name
    BY <1>1, <1>5 DEF Found
  <2>2. t \in Live
    BY <1>1, <2>1 DEF Live
  <2>3. t \in Found(dir[t].name)
    BY <2>2 DEF FoundIsThere
  <2> QED BY <1>2, <2>1, <2>3
<1> QED BY <1>4, <1>5

\* A file that is created is found, and no other is hidden by it.
LEMMA NameCreated ==
    ASSUME TypeOK, FoundIsThere, NEW n \in Names, Create(n)
    PROVE  FoundIsThere'
<1>1. PICK s \in Vacant : dir' = [dir EXCEPT ![s] = Entry(n, 0, 0)]
  BY DEF Create
<1>2. /\ s \in Slots /\ dir'[s].name = n
      /\ \A t \in Slots : t # s => dir'[t] = dir[t]
      /\ dir[s].name \notin Names
  BY <1>1, FilesAssumption DEF Vacant, TypeOK, Entry
<1>3. \A t \in Slots : dir[t].name # n
  <2> SUFFICES ASSUME NEW t \in Slots, dir[t].name = n PROVE FALSE
    OBVIOUS
  <2>1. t \in Found(n)
    BY DEF Live, FoundIsThere
  <2> QED BY <2>1 DEF Create
<1>4. n # Empty /\ \A t \in Slots : \A u \in 0 .. t - 1 : u \in Slots /\ u # t
  BY FilesAssumption DEF Slots
<1>5. ASSUME NEW t \in Live' PROVE Found(dir[t].name)' = {t}
  <2>1. CASE t = s
    <3>1. \A u \in 0 .. s - 1 : dir'[u].name \notin {n, Empty}
      BY <1>1, <1>2, <1>3, <1>4, FilesAssumption DEF Vacant
    <3>2. Found(n)' = {s}
      BY <1>2, <1>3, <3>1 DEF Found
    <3> QED BY <1>2, <2>1, <3>2
  <2>2. CASE t # s
    <3>1. t \in Live /\ dir'[t] = dir[t] /\ dir[t].name # n
      BY <1>2, <1>3, <2>2 DEF Live
    <3>2. Found(dir[t].name) = {t}
      BY <3>1 DEF FoundIsThere
    <3>3. \A u \in Slots : dir'[u].name = dir[t].name <=> dir[u].name = dir[t].name
      BY <1>2, <3>1, <1>4 DEF Live
    <3>4. t \in Found(dir[t].name)'
      BY <1>2, <1>4, <3>1, <3>2 DEF Found
    <3>5. ASSUME NEW u \in Found(dir[t].name)' PROVE u = t
      <4>1. u \in Slots /\ dir[u].name = dir[t].name
        BY <3>1, <3>3, <3>5 DEF Found
      <4>2. u \in Found(dir[u].name)
        BY <3>1, <4>1 DEF FoundIsThere, Live
      <4> QED BY <3>2, <4>1, <4>2
    <3> QED BY <3>1, <3>4, <3>5
  <2> QED BY <2>1, <2>2
<1> QED BY <1>5 DEF FoundIsThere

\* A file that was created and not removed is found, and only once.
THEOREM FilesFound == Spec => []FoundIsThere
<1>1. Init => FoundIsThere
  BY FilesAssumption DEF Init, FoundIsThere, Live, Entry
<1>2. ASSUME IInv, FoundIsThere, [Next]_vars PROVE FoundIsThere'
  <2>1. CASE \E n \in Names : Create(n)
    BY <1>2, <2>1, NameCreated DEF IInv
  <2>2. ASSUME NEW torn, Closing(torn), file # Closed PROVE FoundIsThere'
    <3>1. /\ file.entry.name \in {dir[file.slot].name, Deleted}
          /\ file.slot \in Slots /\ dir' = [dir EXCEPT ![file.slot] = file.entry]
      BY <1>2, <2>2 DEF Closing, IInv, CallHolds, Live
    <3>2. \A s \in Slots : dir'[s].name \in {dir[s].name, Deleted}
      BY <1>2, <3>1 DEF IInv, TypeOK
    <3> QED BY <1>2, <3>2, NamesKept DEF IInv
  <2>3. CASE UNCHANGED dir
    BY <1>2, <2>3, NamesKept DEF IInv
  <2>4. CASE Step
    BY <1>2, <2>2, <2>3, <2>4 DEF Step, Extend, Refuse, EraseFails, Pass, Fill, FillFails,
       Release, Removed, IInv, CallHolds
  <2> QED
    BY <1>2, <2>1, <2>2, <2>3, <2>4
    DEF Next, vars, Open, Rm, Lseek, Read, ReadFails, Write, Close
<1> QED BY <1>1, <1>2, Invariance, PTL DEF Spec

(***************************************************************************)
(* Chains                                                                   *)
(***************************************************************************)
\* Induction: a set with 0 and the successor of each of its numbers has them all.
LEMMA Induction ==
    ASSUME NEW S, 0 \in S, \A n \in Nat : n \in S => n + 1 \in S
    PROVE  Nat \subseteq S
<1> DEFINE B == Nat \ S
<1> SUFFICES ASSUME B # {} PROVE FALSE
  OBVIOUS
<1>1. PICK m \in B : \A x \in B : ~(<<x, m>> \in OpToRel(<, Nat))
  BY NatLessThanWellFounded, WFMin
<1>2. \A x \in B : ~(x < m)
  BY <1>1 DEF OpToRel
<1>3. m \in Nat /\ m # 0
  BY <1>1
<1>4. m - 1 \in Nat /\ m - 1 \in S
  BY <1>2, <1>3
<1>5. m - 1 + 1 = m
  BY <1>3
<1> QED BY <1>1, <1>4, <1>5

\* Nth, of any FAT.
Chain(F, c) ==
    LET f[k \in 0 .. NClusters] ==
            IF k = 0 THEN c ELSE IF f[k - 1] \in Clusters THEN F[f[k - 1]] ELSE EOC
    IN  f
\* Where cluster d leads.
LinkOf(F, d) == IF d \in Clusters THEN F[d] ELSE EOC

\* It is defined: from c, one link at a time.
LEMMA ChainIs ==
    ASSUME NEW F, NEW c
    PROVE  /\ Chain(F, c)[0] = c
           /\ \A k \in 1 .. NClusters : Chain(F, c)[k] = LinkOf(F, Chain(F, c)[k - 1])
<1> DEFINE ChainStep(f, k) == IF k = 0 THEN c ELSE LinkOf(F, f[k - 1])
           Is(f, n) == f = [k \in 0 .. n |-> ChainStep(f, k)]
           S == {n \in Nat : \E f : Is(f, n)}
<1>1. 0 \in S
  <2> DEFINE f == [k \in 0 .. 0 |-> c]
  <2>1. Is(f, 0)
    OBVIOUS
  <2> QED BY <2>1
<1>2. ASSUME NEW n \in Nat, n \in S PROVE n + 1 \in S
  <2>1. PICK f : Is(f, n)
    BY <1>2
  <2> DEFINE g == [k \in 0 .. n + 1 |-> IF k = n + 1 THEN LinkOf(F, f[n]) ELSE f[k]]
  <2>2. \A k \in 0 .. n : g[k] = f[k] /\ f[k] = ChainStep(f, k)
    BY <2>1
  <2>3. g[n + 1] = LinkOf(F, f[n]) /\ g = [k \in 0 .. n + 1 |-> g[k]]
    OBVIOUS
  <2> HIDE DEF g
  <2>4. ASSUME NEW k \in 0 .. n + 1 PROVE g[k] = ChainStep(g, k)
    <3>1. CASE k = n + 1
      <4>1. k # 0 /\ k - 1 = n /\ n \in 0 .. n
        BY <3>1
      <4>2. g[k - 1] = f[n]
        BY <2>2, <4>1
      <4> QED BY <2>3, <3>1, <4>1, <4>2
    <3>2. CASE k # n + 1
      <4>1. k \in 0 .. n /\ (k # 0 => k - 1 \in 0 .. n)
        BY <3>2
      <4> QED BY <2>2, <4>1
    <3> QED BY <3>1, <3>2
  <2>5. Is(g, n + 1)
    BY <2>3, <2>4
  <2> QED BY <2>5
<1>3. NClusters \in S
  <2>1. Nat \subseteq S
    <3> HIDE DEF S
    <3> QED BY <1>1, <1>2, Induction
  <2> HIDE DEF S
  <2> QED BY <2>1, FilesAssumption
<1>4. PICK f : Is(f, NClusters)
  BY <1>3
<1> DEFINE Fun(h) == [k \in 0 .. NClusters |->
                        IF k = 0 THEN c ELSE IF h[k - 1] \in Clusters THEN F[h[k - 1]] ELSE EOC]
           all == CHOOSE h : h = Fun(h)
<1>5. f = Fun(f)
  BY <1>4 DEF LinkOf
<1>6. all = Fun(all)
  BY <1>5
<1>7. Chain(F, c) = all
  BY DEF Chain
<1> HIDE DEF all
<1>8. all[0] = c /\ \A k \in 1 .. NClusters : all[k] = LinkOf(F, all[k - 1])
  BY <1>6, FilesAssumption DEF LinkOf
<1> QED BY <1>7, <1>8

\* What comes before a cluster in a chain is a cluster, linked to the next.
LEMMA ChainBack ==
    ASSUME NEW F, NEW c, NEW k \in 0 .. NClusters, Chain(F, c)[k] \in Clusters
    PROVE  \A i \in 0 .. k : /\ Chain(F, c)[i] \in Clusters
                             /\ i < k => Chain(F, c)[i + 1] = F[Chain(F, c)[i]]
<1> DEFINE A == Chain(F, c)
           S == {n \in Nat : n <= k => A[k - n] \in Clusters}
<1>0. \A i \in 1 .. NClusters : A[i] = LinkOf(F, A[i - 1])
  BY ChainIs
<1>a. A[k] \in Clusters
  OBVIOUS
<1> HIDE DEF A
<1>1. 0 \in S
  BY <1>a
<1>2. ASSUME NEW n \in Nat, n \in S PROVE n + 1 \in S
  <2> SUFFICES ASSUME n + 1 <= k PROVE A[k - (n + 1)] \in Clusters
    OBVIOUS
  <2>1. k - n \in 1 .. NClusters /\ (k - n) - 1 = k - (n + 1)
    BY FilesAssumption
  <2>2. A[k - n] = LinkOf(F, A[k - (n + 1)]) /\ A[k - n] \in Clusters
    BY <1>0, <1>2, <2>1
  <2> QED BY <2>2, NotClusters DEF LinkOf
<1>3. Nat \subseteq S
  <2> HIDE DEF S
  <2> QED BY <1>1, <1>2, Induction
<1>4. ASSUME NEW i \in 0 .. k PROVE A[i] \in Clusters
  <2>1. k - i \in Nat /\ k - i <= k /\ k - (k - i) = i
    OBVIOUS
  <2>2. k - i \in S
    BY <1>3, <2>1
  <2> QED BY <2>1, <2>2
<1>5. ASSUME NEW i \in 0 .. k, i < k PROVE A[i + 1] = F[A[i]]
  <2>1. i + 1 \in 1 .. NClusters /\ (i + 1) - 1 = i
    BY <1>5, FilesAssumption
  <2>2. A[i + 1] = LinkOf(F, A[i])
    BY <1>0, <2>1
  <2> QED BY <1>4, <2>2 DEF LinkOf
<1> QED BY <1>4, <1>5 DEF A

\* A chain stays as it is up to a cluster if the links in front of it do.
LEMMA ChainKept ==
    ASSUME NEW F, NEW G, NEW c, NEW k \in 0 .. NClusters, Chain(F, c)[k] \in Clusters,
           \A i \in 0 .. k - 1 : G[Chain(F, c)[i]] = F[Chain(F, c)[i]]
    PROVE  Chain(G, c)[k] = Chain(F, c)[k]
<1> DEFINE A == Chain(F, c)
           B == Chain(G, c)
           S == {n \in Nat : n <= k => B[n] = A[n]}
<1>0. /\ A[0] = c /\ B[0] = c
      /\ \A i \in 1 .. NClusters : A[i] = LinkOf(F, A[i - 1]) /\ B[i] = LinkOf(G, B[i - 1])
  BY ChainIs
<1>1. \A i \in 0 .. k - 1 : G[A[i]] = F[A[i]]
  OBVIOUS
<1>2. \A i \in 0 .. k : A[i] \in Clusters
  BY ChainBack
<1> HIDE DEF A, B
<1>3. 0 \in S
  BY <1>0
<1>4. ASSUME NEW n \in Nat, n \in S PROVE n + 1 \in S
  <2> SUFFICES ASSUME n + 1 <= k PROVE B[n + 1] = A[n + 1]
    OBVIOUS
  <2>1. n + 1 \in 1 .. NClusters /\ (n + 1) - 1 = n /\ n \in 0 .. k - 1 /\ B[n] = A[n]
    BY <1>4, FilesAssumption
  <2>2. A[n + 1] = LinkOf(F, A[n]) /\ B[n + 1] = LinkOf(G, A[n]) /\ G[A[n]] = F[A[n]]
    BY <1>0, <1>1, <2>1
  <2> QED BY <2>2 DEF LinkOf
<1>5. Nat \subseteq S
  <2> HIDE DEF S
  <2> QED BY <1>3, <1>4, Induction
<1>6. k \in S
  BY <1>5
<1> QED BY <1>6 DEF A, B

\* The chains of two files meet nowhere, and no chain comes back to a cluster.
LEMMA ChainApart ==
    ASSUME OneOwner, NEW s \in Live, NEW t \in Live,
           NEW i \in 0 .. NClusters, NEW j \in 0 .. NClusters,
           Chain(fat, Start(s))[i] \in Clusters,
           Chain(fat, Start(s))[i] = Chain(fat, Start(t))[j]
    PROVE  s = t /\ i = j
<1> DEFINE A == Chain(fat, Start(s))
           B == Chain(fat, Start(t))
           S == {n \in Nat : \A m \in 0 .. NClusters :
                    n <= NClusters /\ A[n] \in Clusters /\ A[n] = B[m] => s = t /\ n = m}
<1>0. /\ A[0] = Start(s) /\ B[0] = Start(t)
      /\ \A k \in 1 .. NClusters : A[k] = LinkOf(fat, A[k - 1]) /\ B[k] = LinkOf(fat, B[k - 1])
  BY ChainIs
<1>1. A[i] \in Clusters /\ A[i] = B[j]
  OBVIOUS
<1> HIDE DEF A, B
<1>2. \A k \in 1 .. NClusters : B[k] \in Clusters => B[k - 1] \in Clusters /\ B[k] = fat[B[k - 1]]
  BY <1>0, NotClusters DEF LinkOf
<1>3. \A k \in 1 .. NClusters : A[k] \in Clusters => A[k - 1] \in Clusters /\ A[k] = fat[A[k - 1]]
  BY <1>0, NotClusters DEF LinkOf
<1>4. 0 \in S
  <2> SUFFICES ASSUME NEW m \in 0 .. NClusters, A[0] \in Clusters, A[0] = B[m]
               PROVE  s = t /\ 0 = m
    OBVIOUS
  <2>1. CASE m = 0
    BY <1>0, <2>1 DEF OneOwner
  <2>2. CASE m # 0
    <3>1. m \in 1 .. NClusters
      BY <2>2, FilesAssumption
    <3>2. B[m - 1] \in Clusters /\ fat[B[m - 1]] = Start(s)
      BY <1>0, <1>2, <3>1
    <3> QED BY <1>0, <3>2 DEF OneOwner
  <2> QED BY <2>1, <2>2
<1>5. ASSUME NEW n \in Nat, n \in S PROVE n + 1 \in S
  <2> SUFFICES ASSUME NEW m \in 0 .. NClusters, n + 1 <= NClusters,
                      A[n + 1] \in Clusters, A[n + 1] = B[m]
               PROVE  s = t /\ n + 1 = m
    OBVIOUS
  <2>0. n + 1 \in 1 .. NClusters /\ (n + 1) - 1 = n /\ n <= NClusters
    BY FilesAssumption
  <2>1. A[n] \in Clusters /\ fat[A[n]] = A[n + 1]
    BY <1>3, <2>0
  <2>2. CASE m = 0
    BY <1>0, <2>1, <2>2 DEF OneOwner
  <2>3. CASE m # 0
    <3>1. m \in 1 .. NClusters /\ m - 1 \in 0 .. NClusters
      BY <2>3, FilesAssumption
    <3>2. B[m - 1] \in Clusters /\ fat[B[m - 1]] = B[m]
      BY <1>2, <3>1
    <3>3. A[n] = B[m - 1]
      BY <2>1, <3>2 DEF OneOwner
    <3>4. s = t /\ n = m - 1
      BY <1>5, <2>0, <2>1, <3>1, <3>3
    <3> QED BY <3>1, <3>4
  <2> QED BY <2>2, <2>3
<1>6. Nat \subseteq S
  <2> HIDE DEF S
  <2> QED BY <1>4, <1>5, Induction
<1>7. i \in S
  BY <1>6
<1> QED BY <1>1, <1>7

\* A chain ends before it has taken as many links as there are clusters.
LEMMA ChainShort ==
    ASSUME OneOwner, NEW s \in Live, NEW k \in 0 .. NClusters,
           Chain(fat, Start(s))[k] \in Clusters
    PROVE  k < NClusters
<1> SUFFICES ASSUME k = NClusters PROVE FALSE
  BY FilesAssumption
<1> DEFINE A == Chain(fat, Start(s))
           f == [i \in 0 .. NClusters |-> A[i]]
<1>1. f \in [0 .. NClusters -> Clusters]
  BY ChainBack
<1>2. /\ IsFiniteSet(0 .. NClusters) /\ Cardinality(0 .. NClusters) = NClusters + 1
      /\ IsFiniteSet(Clusters) /\ Cardinality(Clusters) = NClusters
  <2>1. NClusters \in Int /\ 0 \in Int /\ 2 \in Int /\ NClusters + 1 \in Int /\ NClusters > 0
    BY FilesAssumption
  <2> QED BY <2>1, FS_Interval DEF Clusters
<1>3. Cardinality(Clusters) < Cardinality(0 .. NClusters)
  BY <1>2, FilesAssumption
<1>4. \E i, j \in 0 .. NClusters : i # j /\ f[i] = f[j]
  <2> HIDE DEF f
  <2> QED BY <1>1, <1>2, <1>3, FS_PigeonHole
<1>5. PICK i, j \in 0 .. NClusters : i # j /\ A[i] = A[j]
  BY <1>4
<1>6. A[i] \in Clusters
  BY <1>1
<1> QED BY <1>5, <1>6, ChainApart

\* A cluster in the chain of a file is pointed to, and in use.
LEMMA ChainPoints ==
    ASSUME NEW s \in Live, NEW k \in 0 .. NClusters, Chain(fat, Start(s))[k] \in Clusters
    PROVE  Points(Chain(fat, Start(s))[k])
<1> DEFINE A == Chain(fat, Start(s))
<1>1. CASE k = 0
  BY <1>1, ChainIs DEF Points
<1>2. CASE k # 0
  <2>1. k \in 1 .. NClusters
    BY <1>2, FilesAssumption
  <2>2. A[k] = LinkOf(fat, A[k - 1])
    BY <2>1, ChainIs
  <2> QED BY <2>2, NotClusters DEF LinkOf, Points
<1> QED BY <1>1, <1>2

(***************************************************************************)
(* What a file reads                                                        *)
(***************************************************************************)
\* The first n bytes of a file that begins with cluster c are in its chain, each
\* where fs_read looks for it.
HoldsUpTo(F, D, c, name, n) ==
    \A p \in 0 .. n - 1 :
        /\ p \div Bytes \in 0 .. NClusters
        /\ Chain(F, c)[p \div Bytes] \in Clusters
        /\ D[Chain(F, c)[p \div Bytes]][p % Bytes] \in {<<name, p>>, Junk}

ShutHold == \A s \in Live \ {file.slot} :
                HoldsUpTo(fat, data, dir[s].start, dir[s].name, dir[s].size)
OpenHolds == file # Closed /\ call.op # "rm" =>
    /\ HoldsUpTo(fat, data, file.entry.start, file.entry.name, file.entry.size)
    /\ file.loc <= file.entry.size
\* A write under way stands behind the cluster in front of the one wanted, and
\* what it has written is there, though the size does not count it yet.
WriteHolds == call.op = "write" =>
    /\ call.pos < call.end /\ call.at <= NClusters
    /\ HoldsUpTo(fat, data, file.entry.start, file.entry.name, call.pos)
    /\ IF call.at = 0 THEN call.cur = 0
       ELSE /\ call.cur \in Clusters
            /\ call.cur = Chain(fat, file.entry.start)[call.at - 1]
\* Added to IInv: what the closed files, the open one and a write hold.
AllHold == ShutHold /\ OpenHolds /\ WriteHolds

\* A position is a cluster and a place in it.
LEMMA PlaceOf ==
    ASSUME NEW p \in Nat
    PROVE  /\ p \div Bytes \in Nat /\ p % Bytes \in 0 .. Bytes - 1
           /\ p = ((p \div Bytes) * Bytes) + (p % Bytes)
<1>1. Bytes \in Nat \ {0}
  BY FilesAssumption
<1>2. ASSUME NEW n \in Nat \ {0}
      PROVE  /\ p \div n \in Nat /\ p % n \in 0 .. n - 1
             /\ p = ((p \div n) * n) + (p % n)
  <2>1. p \div n \in Nat /\ p % n \in 0 .. n - 1
    BY Z3
  <2>2. p = ((p \div n) * n) + (p % n)
    BY Z3
  <2> QED BY <2>1, <2>2
<1> QED BY <1>1, <1>2

\* Positions between one in a cluster and the cluster's end are in the cluster.
LEMMA SameCluster ==
    ASSUME NEW p \in Nat, NEW q \in Nat, p <= q, q < (p \div Bytes + 1) * Bytes
    PROVE  q \div Bytes = p \div Bytes
<1>1. PICK n \in Nat : n = Bytes /\ n > 0
  BY FilesAssumption
<1>2. q \div n = p \div n
  BY <1>1, Z3
<1> QED BY <1>1, <1>2

\* The chain of file s does not go through cluster w.
Apart(s, w) == \A k \in 0 .. NClusters :
    Chain(fat, Start(s))[k] \in Clusters => Chain(fat, Start(s))[k] # w
\* All but cluster w keeps its link, and what it holds unless the card fails.
Spared(F, D, w) == \A b \in Clusters \ {w} : Points(b) =>
    /\ D[b] \in {data[b], Ruined}
    /\ fat[b] \in Clusters => F[b] = fat[b]

\* A step that leaves alone what is in the chain of a file leaves the chain.
LEMMA ChainStays ==
    ASSUME NEW s \in Live, NEW w, NEW F, NEW D, Apart(s, w), Spared(F, D, w),
           NEW k \in 0 .. NClusters, Chain(fat, Start(s))[k] \in Clusters
    PROVE  /\ Chain(F, Start(s))[k] = Chain(fat, Start(s))[k]
           /\ D[Chain(fat, Start(s))[k]] \in {data[Chain(fat, Start(s))[k]], Ruined}
<1> DEFINE A == Chain(fat, Start(s))
<1>1. Points(A[k]) /\ A[k] # w
  BY ChainPoints DEF Apart
<1>2. ASSUME NEW i \in 0 .. k - 1 PROVE F[A[i]] = fat[A[i]]
  <2>1. i \in 0 .. k /\ i \in 0 .. NClusters /\ i + 1 \in 0 .. k /\ i < k
    BY FilesAssumption
  <2>2. A[i] \in Clusters /\ A[i + 1] = fat[A[i]] /\ A[i + 1] \in Clusters
    BY <2>1, ChainBack
  <2>3. Points(A[i]) /\ A[i] # w
    BY <2>1, <2>2, ChainPoints DEF Apart
  <2> QED BY <2>2, <2>3 DEF Spared
<1>3. Chain(F, Start(s))[k] = A[k]
  BY <1>2, ChainKept
<1> QED BY <1>1, <1>3 DEF Spared

\* And what the file reads, but for what the card does not take.
LEMMA FileKept ==
    ASSUME NEW s \in Live, NEW w, NEW F, NEW D, Apart(s, w), Spared(F, D, w),
           NEW name, NEW n, HoldsUpTo(fat, data, Start(s), name, n)
    PROVE  HoldsUpTo(F, D, Start(s), name, n)
<1> DEFINE A == Chain(fat, Start(s))
           B == Chain(F, Start(s))
<1>1. ASSUME NEW k \in 0 .. NClusters, A[k] \in Clusters
      PROVE  B[k] = A[k] /\ D[A[k]] \in {data[A[k]], Ruined}
  BY <1>1, ChainStays
<1> HIDE DEF A, B
<1> SUFFICES ASSUME NEW p \in 0 .. n - 1
             PROVE  /\ p \div Bytes \in 0 .. NClusters
                    /\ B[p \div Bytes] \in Clusters
                    /\ D[B[p \div Bytes]][p % Bytes] \in {<<name, p>>, Junk}
  BY DEF HoldsUpTo, B
<1>2. /\ p \div Bytes \in 0 .. NClusters
      /\ A[p \div Bytes] \in Clusters
      /\ data[A[p \div Bytes]][p % Bytes] \in {<<name, p>>, Junk}
  BY DEF HoldsUpTo, A
<1>3. p % Bytes \in 0 .. Bytes - 1
  BY PlaceOf
<1>4. B[p \div Bytes] = A[p \div Bytes]
      /\ D[A[p \div Bytes]] \in {data[A[p \div Bytes]], Ruined}
  BY <1>1, <1>2
<1>5. Ruined[p % Bytes] = Junk
  BY <1>3 DEF Ruined
<1> QED BY <1>2, <1>4, <1>5

\* Where the chains of the files begin.
LEMMA StartsAre ==
    ASSUME TypeOK, CallHolds
    PROVE  /\ \A s \in Live \ {file.slot} : Start(s) = dir[s].start
           /\ file # Closed => file.slot \in Live
           /\ file # Closed /\ call.op # "rm" =>
                /\ Start(file.slot) = file.entry.start
                /\ file.entry.name = dir[file.slot].name /\ file.entry.name \in Names
  BY DEF Start, CallHolds, Live

\* The cluster a write wants is the one at its place in the chain.
LEMMA WantedIs ==
    ASSUME IInv, AllHold, call.op = "write"
    PROVE  /\ call.at \in 0 .. NClusters /\ file # Closed
           /\ Wanted = Chain(fat, file.entry.start)[call.at]
<1>1. call.at \in 0 .. NClusters /\ file # Closed
  BY FilesAssumption DEF AllHold, WriteHolds, IInv, TypeOK, CallHolds
<1>2. CASE call.at = 0
  BY <1>1, <1>2, ChainIs DEF AllHold, WriteHolds, Wanted
<1>3. CASE call.at # 0
  <2>1. /\ call.cur \in Clusters /\ call.cur # 0
        /\ call.cur = Chain(fat, file.entry.start)[call.at - 1]
    BY <1>3, NotClusters DEF AllHold, WriteHolds
  <2>2. call.at \in 1 .. NClusters
    BY <1>1, <1>3
  <2> QED BY <1>1, <2>1, <2>2, ChainIs DEF Wanted, LinkOf
<1> QED BY <1>1, <1>2, <1>3

\* What fs_alloc does to the FAT and to the cluster it gives is in no chain.
LEMMA AllocKeeps ==
    ASSUME IInv, NEW c \in Candidates, NEW F, NEW D,
           F = Marked(c) \/ (Missing /\ call.op = "write" /\ F = Linked(Marked(c), c)),
           D = data \/ D = [data EXCEPT ![c] = Blank]
    PROVE  Spared(F, D, 0)
<1> SUFFICES ASSUME NEW b \in Clusters, Points(b)
             PROVE  /\ D[b] \in {data[b], Ruined}
                    /\ fat[b] \in Clusters => F[b] = fat[b]
  BY DEF Spared
<1>1. b # c /\ c \in Clusters
  BY CandidateApart DEF IInv
<1>2. D[b] = data[b]
  BY <1>1 DEF IInv, TypeOK
<1>3. Marked(c)[b] = fat[b] /\ Marked(c) \in [Clusters -> Clusters \cup {Free, EOC}]
  BY <1>1 DEF IInv, TypeOK, Marked
<1>4. CASE F = Linked(Marked(c), c) /\ Missing /\ call.op = "write"
  <2>1. CASE call.cur = 0
    BY <1>2, <1>3, <1>4, <2>1 DEF Linked
  <2>2. CASE call.cur # 0
    <3>1. fat[call.cur] \notin Clusters
      BY <1>4, <2>2 DEF Missing, Wanted
    <3>2. b # call.cur => F[b] = fat[b]
      BY <1>3, <1>4, <2>2 DEF Linked
    <3> QED BY <1>2, <3>1, <3>2
  <2> QED BY <1>2, <2>1, <2>2
<1> QED BY <1>2, <1>3, <1>4

\* The files that are not open read as before after a step that leaves their
\* chains alone.
LEMMA ShutKept ==
    ASSUME IInv, AllHold, NEW w, Live' \ {file'.slot} \subseteq Live \ {file.slot},
           \A s \in Live' \ {file'.slot} : dir'[s] = dir[s],
           \A s \in Live \ {file.slot} : Apart(s, w), Spared(fat', data', w)
    PROVE  ShutHold'
<1> SUFFICES ASSUME NEW s \in Live' \ {file'.slot}
             PROVE  HoldsUpTo(fat', data', dir'[s].start, dir'[s].name, dir'[s].size)
  BY DEF ShutHold
<1>1. /\ s \in Live /\ s # file.slot /\ dir'[s] = dir[s] /\ Start(s) = dir[s].start
      /\ Apart(s, w)
  BY StartsAre DEF IInv
<1>2. HoldsUpTo(fat, data, Start(s), dir[s].name, dir[s].size)
  BY <1>1 DEF AllHold, ShutHold
<1>3. HoldsUpTo(fat', data', Start(s), dir[s].name, dir[s].size)
  BY <1>1, <1>2, FileKept
<1> QED BY <1>1, <1>3

\* No chain goes through cluster 0.
LEMMA NoneAtZero == \A s : Apart(s, 0)
  BY NotClusters DEF Apart

\* The open file reads as before too.
LEMMA OpenKept ==
    ASSUME IInv, AllHold, file # Closed, call.op # "rm", NEW F, NEW D, Spared(F, D, 0),
           NEW n, HoldsUpTo(fat, data, file.entry.start, file.entry.name, n)
    PROVE  HoldsUpTo(F, D, file.entry.start, file.entry.name, n)
<1>1. file.slot \in Live /\ Start(file.slot) = file.entry.start
  BY StartsAre DEF IInv
<1>2. Apart(file.slot, 0)
  BY NoneAtZero
<1> DEFINE t == file.slot
           name == file.entry.name
<1> HIDE DEF t, name
<1>3. t \in Live /\ Apart(t, 0) /\ HoldsUpTo(fat, data, Start(t), name, n)
      /\ Start(t) = file.entry.start
  BY <1>1, <1>2 DEF t, name
<1>4. HoldsUpTo(F, D, Start(t), name, n)
  BY <1>3, FileKept
<1> QED BY <1>3, <1>4 DEF name

\* And its chain leads on to the same clusters.
LEMMA OpenChain ==
    ASSUME IInv, AllHold, file # Closed, call.op # "rm", NEW F, NEW D, Spared(F, D, 0),
           NEW k \in 0 .. NClusters, Chain(fat, file.entry.start)[k] \in Clusters
    PROVE  Chain(F, file.entry.start)[k] = Chain(fat, file.entry.start)[k]
<1>1. file.slot \in Live /\ Start(file.slot) = file.entry.start
  BY StartsAre DEF IInv
<1>2. Apart(file.slot, 0)
  BY NoneAtZero
<1> QED BY <1>1, <1>2, ChainStays

\* A file without a first cluster holds nothing.
LEMMA NoStartNoBytes ==
    ASSUME NEW F, NEW D, NEW c, NEW name, NEW n \in Nat, c \notin Clusters,
           HoldsUpTo(F, D, c, name, n)
    PROVE  n = 0
<1> SUFFICES ASSUME n # 0 PROVE FALSE
  OBVIOUS
<1>1. 0 \in 0 .. n - 1
  OBVIOUS
<1>2. PICK m \in Nat : m = Bytes /\ m > 0
  BY FilesAssumption
<1>3. 0 \div m = 0
  BY <1>2, Z3
<1>4. Chain(F, c)[0] \in Clusters
  BY <1>1, <1>2, <1>3 DEF HoldsUpTo
<1> QED BY <1>4, ChainIs

\* The file gets a cluster: it is the next in its chain, or the first.
LEMMA ExtendReads == ASSUME IInv, AllHold, Extend PROVE AllHold'
<1>1. PICK c \in Candidates :
            /\ fat' = Linked(Marked(c), c)
            /\ file' = IF call.cur = 0 THEN [file EXCEPT !.entry.start = c] ELSE file
            /\ data' = [data EXCEPT ![c] = Blank]
  BY DEF Extend
<1>2. /\ call.op = "write" /\ Missing /\ UNCHANGED <<dir, call>> /\ Live' = Live
  BY DEF Extend, Live
<1>3. /\ call.at \in 0 .. NClusters /\ file # Closed
      /\ Wanted = Chain(fat, file.entry.start)[call.at]
  BY <1>2, WantedIs
<1>4. /\ file \in [entry : Entries, slot : Slots, loc : Nat]
      /\ file.entry \in Entries /\ file.entry.size \in Nat
  BY <1>3, OpenType DEF IInv
<1>5. Spared(fat', data', 0)
  BY <1>1, <1>2, AllocKeeps
<1>6. /\ file'.slot = file.slot /\ file'.entry.name = file.entry.name /\ file'.loc = file.loc
      /\ file'.entry.size = file.entry.size
  BY <1>1, <1>4 DEF Entries
<1>7. ShutHold'
  BY <1>2, <1>5, <1>6, ShutKept, NoneAtZero
<1>8. /\ HoldsUpTo(fat, data, file.entry.start, file.entry.name, file.entry.size)
      /\ HoldsUpTo(fat, data, file.entry.start, file.entry.name, call.pos)
      /\ file.loc <= file.entry.size /\ call.pos < call.end /\ call.at <= NClusters
  BY <1>2, <1>3 DEF AllHold, OpenHolds, WriteHolds
<1>9. CASE call.cur = 0
  <2>1. call.at = 0
    BY <1>2, <1>9, NotClusters DEF AllHold, WriteHolds
  <2>2. file.entry.start \notin Clusters
    BY <1>2, <1>9 DEF Missing, Wanted
  <2>3. call.pos \in Nat
    BY DEF IInv, TypeOK
  <2>4. file.entry.size = 0 /\ call.pos = 0
    BY <1>4, <1>8, <2>2, <2>3, NoStartNoBytes
  <2>5. \A c1, name : HoldsUpTo(fat', data', c1, name, 0)
    BY DEF HoldsUpTo
  <2>6. OpenHolds'
    BY <1>6, <1>8, <2>4, <2>5 DEF OpenHolds
  <2>7. WriteHolds'
    BY <1>2, <1>8, <1>9, <2>1, <2>4, <2>5 DEF WriteHolds
  <2> QED BY <1>7, <2>6, <2>7 DEF AllHold
<1>10. CASE call.cur # 0
  <2>1. file' = file
    BY <1>1, <1>10
  <2>2. \A n : HoldsUpTo(fat, data, file.entry.start, file.entry.name, n)
                  => HoldsUpTo(fat', data', file.entry.start, file.entry.name, n)
    BY <1>2, <1>3, <1>5, OpenKept
  <2>3. OpenHolds'
    BY <1>8, <2>1, <2>2 DEF OpenHolds
  <2>4. call.at # 0 /\ call.cur \in Clusters
        /\ call.cur = Chain(fat, file.entry.start)[call.at - 1]
    BY <1>2, <1>10 DEF AllHold, WriteHolds
  <2>5. call.at - 1 \in 0 .. NClusters
    BY <1>3, <2>4, FilesAssumption
  <2>6. call.cur = Chain(fat', file.entry.start)[call.at - 1]
    BY <1>2, <1>3, <1>5, <2>4, <2>5, OpenChain
  <2>7. WriteHolds'
    BY <1>2, <1>8, <2>1, <2>2, <2>4, <2>6 DEF WriteHolds
  <2> QED BY <1>7, <2>3, <2>7 DEF AllHold
<1> QED BY <1>9, <1>10

\* A write that is given up leaves every file as it read.
LEMMA FailReads ==
    ASSUME IInv, AllHold, call.op = "write", call' = Idle, UNCHANGED <<dir, file, data>>,
           fat' = fat \/ \E c \in Candidates : fat' = Marked(c)
    PROVE  AllHold'
<1>1. Spared(fat', data', 0)
  <2>1. CASE fat' = fat
    BY <2>1 DEF Spared
  <2>2. CASE \E c \in Candidates : fat' = Marked(c)
    BY <2>2, AllocKeeps
  <2> QED BY <2>1, <2>2
<1>2. ShutHold'
  BY <1>1, ShutKept, NoneAtZero DEF Live
<1>3. file # Closed /\ call.op # "rm" /\ call'.op = "idle"
  BY DEF IInv, CallHolds, Idle, Call
<1>4. HoldsUpTo(fat', data', file.entry.start, file.entry.name, file.entry.size)
      /\ file.loc <= file.entry.size
  BY <1>1, <1>3, OpenKept DEF AllHold, OpenHolds
<1>5. OpenHolds' /\ WriteHolds'
  BY <1>3, <1>4 DEF OpenHolds, WriteHolds
<1> QED BY <1>2, <1>5 DEF AllHold

\* A cluster of a file that is removed is in no chain of another.
LEMMA ReleaseReads == ASSUME IInv, AllHold, Release PROVE AllHold'
<1>1. /\ call.op = "rm" /\ call.cur \in Clusters /\ call'.op = "rm"
      /\ fat' = [fat EXCEPT ![call.cur] = Free]
      /\ data' = [data EXCEPT ![call.cur] = Blank]
      /\ UNCHANGED <<dir, file>> /\ Live' = Live
  BY DEF Release, IInv, TypeOK, Live
<1>2. file.slot \in Live /\ Start(file.slot) = call.cur
  BY <1>1, StartsAre DEF IInv, CallHolds, Start
<1>3. ASSUME NEW s \in Live \ {file.slot} PROVE Apart(s, call.cur)
  <2> SUFFICES ASSUME NEW k \in 0 .. NClusters, Chain(fat, Start(s))[k] \in Clusters,
                      Chain(fat, Start(s))[k] = call.cur
               PROVE  FALSE
    BY DEF Apart
  <2>1. 0 \in 0 .. NClusters /\ Chain(fat, Start(file.slot))[0] = call.cur
    BY <1>2, ChainIs, FilesAssumption
  <2>2. s = file.slot
    BY <1>2, <2>1, ChainApart DEF IInv, Owned
  <2> QED BY <2>2
<1>4. Spared(fat', data', call.cur)
  BY <1>1 DEF Spared, IInv, TypeOK
<1>5. ShutHold'
  BY <1>1, <1>3, <1>4, ShutKept
<1> QED BY <1>1, <1>5 DEF AllHold, OpenHolds, WriteHolds

\* Where a write puts its bytes ends in the cluster, and no further than it was told.
LEMMA UntilIs ==
    ASSUME call \in Calls
    PROVE  /\ Until \in Nat /\ Until <= call.end
           /\ Until <= (call.at + 1) * Bytes
           /\ call.pos < call.end /\ call.at = call.pos \div Bytes => call.pos < Until
<1>1. call.at \in Nat /\ call.pos \in Nat /\ call.end \in Nat
  BY DEF Calls
<1>2. (call.at + 1) * Bytes \in Nat
  BY <1>1, FilesAssumption
<1>3. /\ Until \in Nat /\ Until <= call.end /\ Until <= (call.at + 1) * Bytes
      /\ Until \in {call.end, (call.at + 1) * Bytes}
  BY <1>1, <1>2 DEF Until, Least
<1>4. ASSUME call.at = call.pos \div Bytes PROVE call.pos < (call.at + 1) * Bytes
  <2> DEFINE r == call.pos % Bytes
  <2>3. r \in Nat /\ r < Bytes /\ call.pos = (call.at * Bytes) + r
    <3>1. call.pos % Bytes \in 0 .. Bytes - 1
          /\ call.pos = ((call.pos \div Bytes) * Bytes) + (call.pos % Bytes)
      BY <1>1, PlaceOf
    <3> QED BY <3>1, <1>4, FilesAssumption
  <2> HIDE DEF r
  <2>4. ASSUME NEW n \in Nat, NEW a \in Nat, r < n PROVE (a * n) + r < (a + 1) * n
    BY <2>3, <2>4, Z3
  <2> QED BY <1>1, <2>3, <2>4, FilesAssumption
<1> QED BY <1>1, <1>2, <1>3, <1>4

\* What a cluster holds when it is filled: the bytes written, among those it had.
LEMMA Filled ==
    ASSUME IInv, AllHold, Fill
    PROVE  /\ Wanted \in Clusters
           /\ \A b \in Clusters \ {Wanted} : data'[b] = data[b]
           /\ \A p \in Nat : p \div Bytes = call.at =>
                IF p \in call.pos .. Until - 1 THEN data'[Wanted][p % Bytes] = <<file.entry.name, p>>
                ELSE data'[Wanted][p % Bytes] \in {data[Wanted][p % Bytes], Junk}
<1>1. Wanted \in Clusters
  BY DEF Fill, Missing
<1>2. PICK bad \in SUBSET spoiled :
        data' = [data EXCEPT ![Wanted] = [i \in 0 .. Bytes - 1 |->
                    IF call.at * Bytes + i \in call.pos .. Until - 1
                    THEN <<file.entry.name, call.at * Bytes + i>>
                    ELSE IF Wanted \in bad THEN Junk ELSE data[Wanted][i]]]
  BY <1>1 DEF Fill, IInv, TypeOK
<1> DEFINE block == [i \in 0 .. Bytes - 1 |->
                        IF call.at * Bytes + i \in call.pos .. Until - 1
                        THEN <<file.entry.name, call.at * Bytes + i>>
                        ELSE IF Wanted \in bad THEN Junk ELSE data[Wanted][i]]
<1>3. data \in [Clusters -> Contents] /\ data' = [data EXCEPT ![Wanted] = block]
  BY <1>2 DEF IInv, TypeOK
<1> HIDE DEF block
<1>4. data'[Wanted] = block /\ \A b \in Clusters \ {Wanted} : data'[b] = data[b]
  BY <1>1, <1>3
<1>5. ASSUME NEW p \in Nat, p \div Bytes = call.at
      PROVE  IF p \in call.pos .. Until - 1 THEN block[p % Bytes] = <<file.entry.name, p>>
             ELSE block[p % Bytes] \in {data[Wanted][p % Bytes], Junk}
  <2>1. p % Bytes \in 0 .. Bytes - 1 /\ p = (call.at * Bytes) + (p % Bytes)
    BY <1>5, PlaceOf
  <2> DEFINE i == p % Bytes
  <2>2. i \in 0 .. Bytes - 1 /\ p = (call.at * Bytes) + i
    BY <2>1
  <2> HIDE DEF i
  <2>3. block[i] = IF p \in call.pos .. Until - 1 THEN <<file.entry.name, p>>
                   ELSE IF Wanted \in bad THEN Junk ELSE data[Wanted][i]
    BY <2>2 DEF block
  <2> QED BY <2>3 DEF i
<1> QED BY <1>1, <1>4, <1>5

\* The bytes go where the file will look for them, and no other file does.
LEMMA FillReads == ASSUME IInv, AllHold, Fill PROVE AllHold'
<1>1. /\ call.op = "write" /\ call.at = call.pos \div Bytes
      /\ UNCHANGED <<fat, dir>> /\ Live' = Live
  BY DEF Fill, Live
<1>2. /\ call.at \in 0 .. NClusters /\ file # Closed /\ call.op # "rm"
      /\ Wanted = Chain(fat, file.entry.start)[call.at]
  BY <1>1, WantedIs
<1>3. /\ file.slot \in Live /\ Start(file.slot) = file.entry.start
  BY <1>2, StartsAre DEF IInv
<1>4. /\ Wanted \in Clusters
      /\ \A b \in Clusters \ {Wanted} : data'[b] = data[b]
      /\ \A p \in Nat : p \div Bytes = call.at =>
            IF p \in call.pos .. Until - 1 THEN data'[Wanted][p % Bytes] = <<file.entry.name, p>>
            ELSE data'[Wanted][p % Bytes] \in {data[Wanted][p % Bytes], Junk}
  BY Filled
<1>5. /\ file \in [entry : Entries, slot : Slots, loc : Nat]
      /\ file.entry \in Entries /\ file.entry.size \in Nat /\ call \in Calls
  BY <1>2, OpenType DEF IInv, TypeOK, Calls
<1>6. /\ Until \in Nat /\ Until <= call.end /\ Until <= (call.at + 1) * Bytes
      /\ call.pos < Until /\ call.pos \in Nat /\ call.end \in Nat
  BY <1>1, <1>5, UntilIs DEF AllHold, WriteHolds, Calls
<1>7. /\ file'.slot = file.slot /\ file'.entry.start = file.entry.start
      /\ file'.entry.name = file.entry.name
  <2>1. file' = file \/ file' = [file EXCEPT !.loc = call.end,
                            !.entry.size = IF call.end > @ THEN call.end ELSE @]
    BY DEF Fill
  <2>2. CASE file' = file
    BY <2>2
  <2>3. CASE file' = [file EXCEPT !.loc = call.end,
                          !.entry.size = IF call.end > @ THEN call.end ELSE @]
    BY <2>3, <1>5 DEF Entries
  <2> QED BY <2>1, <2>2, <2>3
<1>8. ASSUME NEW s \in Live, NEW k \in 0 .. NClusters, Chain(fat, Start(s))[k] = Wanted
      PROVE  s = file.slot /\ k = call.at
  <2> DEFINE t == file.slot
             at == call.at
  <2>1. Chain(fat, Start(t))[at] = Wanted /\ t \in Live /\ at \in 0 .. NClusters
    BY <1>2, <1>3
  <2> HIDE DEF t, at
  <2>2. s = t /\ k = at
    BY <1>4, <1>8, <2>1, ChainApart DEF IInv, Owned
  <2> QED BY <2>2 DEF t, at
<1>9. ShutHold'
  <2>1. \A s \in Live \ {file.slot} : Apart(s, Wanted)
    BY <1>8 DEF Apart
  <2>2. Spared(fat', data', Wanted)
    BY <1>1, <1>4 DEF Spared
  <2> QED BY <1>1, <1>7, <2>1, <2>2, ShutKept
<1> DEFINE c == file.entry.start
           name == file.entry.name
           A == Chain(fat, c)
<1>10. ASSUME NEW n, HoldsUpTo(fat, data, c, name, n) PROVE HoldsUpTo(fat', data', c, name, n)
  <2> SUFFICES ASSUME NEW p \in 0 .. n - 1
               PROVE  /\ p \div Bytes \in 0 .. NClusters
                      /\ A[p \div Bytes] \in Clusters
                      /\ data'[A[p \div Bytes]][p % Bytes] \in {<<name, p>>, Junk}
    BY <1>1 DEF HoldsUpTo
  <2>1. /\ p \div Bytes \in 0 .. NClusters
        /\ A[p \div Bytes] \in Clusters
        /\ data[A[p \div Bytes]][p % Bytes] \in {<<name, p>>, Junk}
    BY <1>10 DEF HoldsUpTo
  <2> DEFINE k == p \div Bytes
  <2>2. CASE A[k] = Wanted
    <3>1. k = call.at
      BY <1>3, <1>8, <2>1, <2>2
    <3>2. p \in Nat /\ p \div Bytes = call.at
      BY <3>1
    <3>3. data'[Wanted][p % Bytes] \in {<<name, p>>, data[Wanted][p % Bytes], Junk}
      BY <1>4, <3>2
    <3> QED BY <2>1, <2>2, <3>3
  <2>3. CASE A[k] # Wanted
    <3>1. data'[A[k]] = data[A[k]]
      BY <1>4, <2>1, <2>3
    <3> QED BY <2>1, <3>1
  <2> QED BY <2>2, <2>3
<1>11. HoldsUpTo(fat', data', c, name, Until)
  <2>1. HoldsUpTo(fat', data', c, name, call.pos)
    BY <1>1, <1>10 DEF AllHold, WriteHolds
  <2> SUFFICES ASSUME NEW p \in 0 .. Until - 1
               PROVE  /\ p \div Bytes \in 0 .. NClusters
                      /\ A[p \div Bytes] \in Clusters
                      /\ data'[A[p \div Bytes]][p % Bytes] \in {<<name, p>>, Junk}
    BY <1>1 DEF HoldsUpTo
  <2>2. CASE p < call.pos
    BY <1>1, <1>6, <2>1, <2>2 DEF HoldsUpTo
  <2>3. CASE ~(p < call.pos)
    <3>1. p \in Nat /\ call.pos <= p /\ p < Until /\ p \in call.pos .. Until - 1
      BY <1>6, <2>3
    <3>2. p < (call.pos \div Bytes + 1) * Bytes
      <4>1. (call.at + 1) * Bytes \in Nat
        BY <1>2, FilesAssumption
      <4> QED BY <1>1, <1>6, <3>1, <4>1
    <3>3. p \div Bytes = call.at
      BY <1>1, <1>6, <3>1, <3>2, SameCluster
    <3>4. data'[Wanted][p % Bytes] = <<name, p>>
      BY <1>4, <3>1, <3>3
    <3> QED BY <1>2, <1>4, <3>3, <3>4
  <2> QED BY <2>2, <2>3
<1>12. HoldsUpTo(fat', data', c, name, file.entry.size) /\ file.loc <= file.entry.size
  BY <1>2, <1>10 DEF AllHold, OpenHolds
<1> HIDE DEF c, name, A
<1>13. CASE Until = call.end
  <2>1. /\ call' = Idle
        /\ file' = [file EXCEPT !.loc = call.end,
                        !.entry.size = IF call.end > @ THEN call.end ELSE @]
    BY <1>13 DEF Fill
  <2>2. call'.op # "write"
    BY <2>1 DEF Idle, Call
  <2>3. /\ file'.loc = call.end
        /\ file'.entry.size = IF call.end > file.entry.size THEN call.end ELSE file.entry.size
    BY <1>5, <2>1 DEF Entries
  <2>4. file'.loc <= file'.entry.size
    BY <1>5, <1>6, <2>3
  <2>5. HoldsUpTo(fat', data', c, name, file'.entry.size)
    BY <1>11, <1>12, <1>13, <2>3
  <2>6. OpenHolds'
    BY <1>7, <2>4, <2>5 DEF OpenHolds, c, name
  <2> QED BY <1>9, <2>2, <2>6 DEF AllHold, WriteHolds
<1>14. CASE Until # call.end
  <2>1. /\ call' = [call EXCEPT !.cur = Wanted, !.at = @ + 1, !.pos = Until]
        /\ UNCHANGED file
    BY <1>14 DEF Fill
  <2>2. /\ call'.cur = Wanted /\ call'.at = call.at + 1 /\ call'.pos = Until
        /\ call'.end = call.end /\ call'.op = "write"
    BY <1>1, <1>5, <2>1 DEF Calls
  <2>3. call.at < NClusters
    BY <1>2, <1>3, <1>4, ChainShort DEF IInv, Owned
  <2>4. call'.at <= NClusters /\ call'.at # 0 /\ call'.at - 1 = call.at /\ Until < call.end
    BY <1>2, <1>6, <1>14, <2>2, <2>3, FilesAssumption
  <2>5. OpenHolds'
    BY <1>12, <2>1 DEF OpenHolds, c, name
  <2>6. WriteHolds'
    BY <1>1, <1>2, <1>4, <1>11, <2>1, <2>2, <2>4 DEF WriteHolds, c, name
  <2> QED BY <1>9, <2>5, <2>6 DEF AllHold
<1> QED BY <1>13, <1>14

\* Closing keeps what the file reads, but for the buffers the card does not take;
\* a removed file is gone from the directory.
LEMMA ClosingReads ==
    ASSUME IInv, AllHold, NEW torn, Closing(torn), file # Closed,
           call = Idle \/ call.op = "rm"
    PROVE  AllHold'
<1>1. /\ dir' = [dir EXCEPT ![file.slot] = file.entry] /\ UNCHANGED fat
      /\ file' = Closed /\ call' = Idle
      /\ data' = [c \in Clusters |-> IF c \in torn THEN Ruined ELSE data[c]]
  BY DEF Closing
<1>2. file.slot \in Live /\ file.slot \in Slots
  BY StartsAre DEF IInv, Live
<1>3. /\ dir'[file.slot] = file.entry /\ \A s \in Slots \ {file.slot} : dir'[s] = dir[s]
      /\ file'.slot = NSlots /\ call'.op = "idle"
  BY <1>1, <1>2 DEF IInv, TypeOK, Closed, Idle, Call
<1>4. Spared(fat', data', 0)
  BY <1>1 DEF Spared
<1>5. ASSUME NEW s \in Live' PROVE HoldsUpTo(fat', data', dir'[s].start, dir'[s].name, dir'[s].size)
  <2>1. CASE s # file.slot
    <3>1. s \in Live \ {file.slot} /\ dir'[s] = dir[s]
      BY <1>3, <1>5, <2>1 DEF Live
    <3>2. Start(s) = dir[s].start /\ HoldsUpTo(fat, data, Start(s), dir[s].name, dir[s].size)
      BY <3>1, StartsAre DEF IInv, AllHold, ShutHold
    <3>3. HoldsUpTo(fat', data', Start(s), dir[s].name, dir[s].size)
      BY <1>4, <3>1, <3>2, FileKept, NoneAtZero
    <3> QED BY <3>1, <3>2, <3>3
  <2>2. CASE s = file.slot
    <3>1. file.entry.name \in Names
      BY <1>3, <1>5, <2>2 DEF Live
    <3>2. call.op # "rm"
      BY <3>1, FilesAssumption DEF IInv, CallHolds
    <3>3. HoldsUpTo(fat, data, file.entry.start, file.entry.name, file.entry.size)
      BY <3>2 DEF AllHold, OpenHolds
    <3>4. HoldsUpTo(fat', data', file.entry.start, file.entry.name, file.entry.size)
      BY <1>4, <3>2, <3>3, OpenKept
    <3> QED BY <1>3, <2>2, <3>4
  <2> QED BY <2>1, <2>2
<1>6. ShutHold' /\ OpenHolds' /\ WriteHolds'
  BY <1>1, <1>3, <1>5 DEF ShutHold, OpenHolds, WriteHolds
<1> QED BY <1>6 DEF AllHold

\* Every step keeps what the files read.
LEMMA StepReads == IInv /\ AllHold /\ [Next]_vars => AllHold'
<1> SUFFICES ASSUME IInv, AllHold, [Next]_vars PROVE AllHold'
  OBVIOUS
<1>t. TypeOK /\ CallHolds
  BY DEF IInv
<1> DEFINE Quiet == UNCHANGED <<fat, data>>
<1>0. CASE UNCHANGED vars
  BY <1>0 DEF vars, AllHold, ShutHold, OpenHolds, WriteHolds, Live
<1>1. ASSUME NEW n \in Names, Open(n) PROVE AllHold'
  <2>1. PICK s \in Slots : /\ dir[s].name = n
                           /\ file' = [entry |-> dir[s], slot |-> s, loc |-> 0]
    BY <1>1 DEF Open, Found
  <2>2. /\ Quiet /\ Live' = Live /\ UNCHANGED <<dir, call>> /\ call.op = "idle"
        /\ file.slot = NSlots
    BY <1>1 DEF Open, Live, Idle, Call, Closed
  <2>3. s \in Live /\ \A t \in Live : t # file.slot
    BY <2>1, <2>2, NotClusters DEF Live
  <2>4. HoldsUpTo(fat, data, dir[s].start, dir[s].name, dir[s].size)
    BY <2>3 DEF AllHold, ShutHold
  <2>5. file'.entry = dir[s] /\ file'.slot = s /\ file'.loc = 0 /\ dir[s].size \in Nat
    BY <2>1, <1>t DEF TypeOK, Entries
  <2>6. ShutHold'
    BY <2>2, <2>3 DEF AllHold, ShutHold
  <2>7. OpenHolds'
    BY <2>2, <2>4, <2>5 DEF OpenHolds
  <2> QED BY <2>2, <2>6, <2>7 DEF AllHold, WriteHolds
<1>2. ASSUME NEW n \in Names, Create(n) PROVE AllHold'
  <2>1. PICK s \in Slots : /\ dir[s].name \in {Empty, Deleted}
                           /\ dir' = [dir EXCEPT ![s] = Entry(n, 0, 0)]
    BY <1>2 DEF Create, Vacant
  <2>2. /\ Quiet /\ UNCHANGED <<file, call>> /\ file = Closed /\ call.op = "idle"
    BY <1>2 DEF Create, Idle, Call
  <2>3. /\ \A t \in Live' \ {s} : t \in Live /\ dir'[t] = dir[t]
        /\ dir'[s].size = 0
    BY <1>t, <2>1 DEF Live, TypeOK, Entry
  <2>4. \A c, name : HoldsUpTo(fat, data, c, name, 0)
    BY DEF HoldsUpTo
  <2>5. ShutHold'
    BY <2>2, <2>3, <2>4 DEF AllHold, ShutHold
  <2> QED BY <2>2, <2>5 DEF AllHold, OpenHolds, WriteHolds
<1>3. ASSUME NEW n \in Names, Rm(n) PROVE AllHold'
  <2>1. /\ Quiet /\ Live' = Live /\ UNCHANGED dir /\ file = Closed /\ call'.op = "rm"
    BY <1>3 DEF Rm, Live, Call
  <2>2. \A t \in Live : t # file.slot
    BY <2>1, NotClusters DEF Live, Closed
  <2>3. ShutHold'
    BY <2>1, <2>2 DEF AllHold, ShutHold
  <2> QED BY <2>1, <2>3 DEF AllHold, OpenHolds, WriteHolds
<1>4. ASSUME NEW k \in 0 .. MaxSize, Lseek(k) \/ Read(k) \/ ReadFails PROVE AllHold'
  <2>0. PICK l \in Nat : Moved(l) /\ (file.loc <= file.entry.size => l <= file.entry.size)
    BY <1>4, <1>t, MovedIs
  <2>1. /\ file # Closed /\ call.op = "idle"
        /\ file \in [entry : Entries, slot : Slots, loc : Nat]
        /\ file.loc \in Nat /\ file.entry.size \in Nat
    BY <2>0, <1>t, OpenType DEF Moved, Idle, Call
  <2>2. file.loc <= file.entry.size
    BY <2>1 DEF AllHold, OpenHolds
  <2>3. Moved(l) /\ l <= file.entry.size
    BY <2>0, <2>2
  <2>4. /\ file'.slot = file.slot /\ file'.entry = file.entry /\ file'.loc = l
        /\ Quiet /\ UNCHANGED <<dir, call>> /\ Live' = Live
    BY <2>1, <2>3 DEF Moved, Live
  <2>5. ShutHold'
    BY <2>4 DEF AllHold, ShutHold
  <2>6. OpenHolds'
    BY <2>1, <2>3, <2>4 DEF AllHold, OpenHolds
  <2> QED BY <2>1, <2>4, <2>5, <2>6 DEF AllHold, WriteHolds
<1>5. ASSUME NEW n \in 0 .. MaxSize, Write(n) PROVE AllHold'
  <2>1. /\ Quiet /\ UNCHANGED <<dir, file>> /\ Live' = Live /\ file # Closed
        /\ call.op = "idle" /\ call'.op = "write" /\ call'.cur = 0 /\ call'.at = 0
        /\ call'.pos = file.loc /\ call'.end = file.loc + n /\ n \in Nat /\ n > 0
    BY <1>5, FilesAssumption DEF Write, Live, Call, Idle
  <2>2. file.loc \in Nat /\ file.entry.size \in Nat
    BY <1>t, <2>1, OpenType
  <2>3. /\ HoldsUpTo(fat, data, file.entry.start, file.entry.name, file.entry.size)
        /\ file.loc <= file.entry.size
    BY <2>1 DEF AllHold, OpenHolds
  <2>4. HoldsUpTo(fat, data, file.entry.start, file.entry.name, file.loc)
    BY <2>2, <2>3 DEF HoldsUpTo
  <2>5. ShutHold' /\ OpenHolds'
    BY <2>1, <2>3 DEF AllHold, ShutHold, OpenHolds
  <2>6. WriteHolds'
    BY <2>1, <2>2, <2>4, FilesAssumption DEF WriteHolds
  <2> QED BY <2>5, <2>6 DEF AllHold
<1>6. CASE Extend
  BY <1>6, ExtendReads
<1>7. CASE Refuse \/ EraseFails \/ FillFails
  <2>1. /\ call.op = "write" /\ call' = Idle /\ UNCHANGED <<dir, file, data>>
        /\ fat' = fat \/ \E c \in Candidates : fat' = Marked(c)
    BY <1>7 DEF Refuse, EraseFails, FillFails
  <2> QED BY <2>1, FailReads
<1>8. CASE Pass
  <2>1. /\ Quiet /\ UNCHANGED <<dir, file>> /\ Live' = Live /\ call.op = "write"
        /\ Wanted \in Clusters /\ call \in Calls
    BY <1>8, <1>t DEF Pass, Missing, Live, TypeOK, Calls
  <2>2. /\ call'.op = "write" /\ call'.cur = Wanted /\ call'.at = call.at + 1
        /\ call'.pos = call.pos /\ call'.end = call.end
    BY <1>8, <2>1 DEF Pass, Calls
  <2>3. /\ call.at \in 0 .. NClusters /\ file # Closed
        /\ Wanted = Chain(fat, file.entry.start)[call.at]
    BY <2>1, WantedIs
  <2>4. file.slot \in Live /\ Start(file.slot) = file.entry.start
    BY <1>t, <2>1, <2>3, StartsAre
  <2>5. call.at < NClusters
    BY <2>1, <2>3, <2>4, ChainShort DEF IInv, Owned
  <2>6. call'.at <= NClusters /\ call'.at # 0 /\ call'.at - 1 = call.at
    BY <2>2, <2>3, <2>5, FilesAssumption
  <2>7. ShutHold' /\ OpenHolds'
    BY <2>1, <2>2 DEF AllHold, ShutHold, OpenHolds
  <2>8. WriteHolds'
    BY <2>1, <2>2, <2>3, <2>6 DEF AllHold, WriteHolds
  <2> QED BY <2>7, <2>8 DEF AllHold
<1>9. CASE Fill
  BY <1>9, FillReads
<1>10. CASE Release
  BY <1>10, ReleaseReads
<1>11. CASE Removed
  BY <1>11, <1>t, ClosingReads DEF Removed, CallHolds
<1>12. CASE Close
  BY <1>12, ClosingReads DEF Close
<1> QED
  BY <1>0, <1>1, <1>2, <1>3, <1>4, <1>5, <1>6, <1>7, <1>8, <1>9, <1>10, <1>11, <1>12,
     FilesAssumption
  DEF Next, Step

\* Whatever is refused or fails, every byte of every file is found where fs_read
\* looks for it, and is the one written there unless the card did not take it or a failed
\* read spoiled its buffer; on a card that its partition starts (base_addr = 0).
THEOREM FilesRead == Spec => []ReadsBack
<1>1. Init => AllHold
  BY FilesAssumption
  DEF Init, AllHold, ShutHold, OpenHolds, WriteHolds, Live, Entry, Idle, Call
<1>2. AllHold => ReadsBack
  <2>1. \A c : Nth(c) = Chain(fat, c)
    BY DEF Nth, Chain
  <2> SUFFICES ASSUME AllHold,
               NEW e \in {dir[s] : s \in Live \ {file.slot}}
                   \cup (IF file # Closed /\ call.op # "rm" THEN {file.entry} ELSE {}),
               NEW p \in 0 .. e.size - 1
               PROVE  /\ Chain(fat, e.start)[p \div Bytes] \in Clusters
                      /\ Seen(Chain(fat, e.start)[p \div Bytes])[p % Bytes]
                            \in {<<e.name, p>>, Junk}
    BY <2>1 DEF ReadsBack
  <2>2. HoldsUpTo(fat, data, e.start, e.name, e.size)
    BY DEF AllHold, ShutHold, OpenHolds
  <2> DEFINE c == Chain(fat, e.start)[p \div Bytes]
             i == p % Bytes
  <2>3. c \in Clusters /\ data[c][i] \in {<<e.name, p>>, Junk}
    BY <2>2 DEF HoldsUpTo
  <2>4. i \in 0 .. Bytes - 1
    BY PlaceOf
  <2> HIDE DEF c, i
  <2>5. Seen(c)[i] \in {<<e.name, p>>, Junk}
    BY <2>3, <2>4 DEF Seen, Ruined
  <2> QED BY <2>3, <2>5 DEF c, i
<1> QED BY <1>1, <1>2, StepReads, Invariance, PTL DEF Spec

(***************************************************************************)
(* What ls shows                                                            *)
(***************************************************************************)
\* The entry fs_read_dir comes to.
TheNext(loc) == CHOOSE s \in NextListed(loc) : TRUE
\* Listing, one entry.
ListStep(f, loc) ==
    IF NextListed(loc) = {} THEN <<>> ELSE <<dir[TheNext(loc)].name>> \o f[TheNext(loc) + 1]

\* The next entry listed is at or behind the place looked from.
LEMMA NextIs ==
    ASSUME NEW loc, NextListed(loc) # {}
    PROVE  /\ TheNext(loc) \in NextListed(loc) /\ TheNext(loc) \in Slots
           /\ TheNext(loc) >= loc /\ TheNext(loc) + 1 \in 0 .. NSlots
           /\ dir[TheNext(loc)].name \in Names
           /\ \A t \in loc .. TheNext(loc) - 1 : dir[t].name = Deleted
<1>1. TheNext(loc) \in NextListed(loc)
  BY DEF TheNext
<1> HIDE DEF TheNext
<1> QED BY <1>1, FilesAssumption DEF NextListed, Slots

\* Listing is defined: from every place, the next entry and what is listed behind it.
LEMMA ListingIs ==
    \E f : Listing = f[0] /\ \A loc \in 0 .. NSlots : f[loc] = ListStep(f, loc)
<1>0. NSlots \in Nat
  BY FilesAssumption
<1> DEFINE Is(f, m) == f = [loc \in m .. NSlots |-> ListStep(f, loc)]
           S == {n \in Nat : n <= NSlots => \E f : Is(f, NSlots - n)}
<1>1. 0 \in S
  <2> DEFINE f == [loc \in NSlots .. NSlots |-> <<>>]
  <2>1. NextListed(NSlots) = {}
    BY <1>0 DEF NextListed, Slots
  <2>2. \A loc \in NSlots .. NSlots : loc = NSlots
    BY <1>0
  <2>3. Is(f, NSlots)
    BY <2>1, <2>2 DEF ListStep
  <2>4. NSlots - 0 = NSlots
    BY <1>0
  <2> HIDE DEF Is
  <2> QED BY <2>3, <2>4
<1>2. ASSUME NEW n \in Nat, n \in S PROVE n + 1 \in S
  <2> SUFFICES ASSUME n + 1 <= NSlots PROVE \E f : Is(f, NSlots - (n + 1))
    OBVIOUS
  <2>1. PICK m \in Nat : m = NSlots - (n + 1) /\ m + 1 = NSlots - n
    BY <1>0
  <2>2. PICK f : Is(f, m + 1)
    BY <1>2, <1>0, <2>1
  <2> DEFINE g == [loc \in m .. NSlots |-> IF loc = m THEN ListStep(f, m) ELSE f[loc]]
  <2>2a. m \in m .. NSlots /\ \A loc \in m + 1 .. NSlots : loc \in m .. NSlots /\ loc # m
    BY <1>0, <2>1
  <2>2b. \A loc \in m + 1 .. NSlots : f[loc] = ListStep(f, loc)
    BY <2>2
  <2>3. /\ \A loc \in m + 1 .. NSlots : g[loc] = f[loc] /\ f[loc] = ListStep(f, loc)
        /\ g[m] = ListStep(f, m) /\ g = [loc \in m .. NSlots |-> g[loc]]
    BY <2>2a, <2>2b
  <2> HIDE DEF g
  <2>4. ASSUME NEW loc \in m .. NSlots PROVE ListStep(g, loc) = ListStep(f, loc)
    <3>1. CASE NextListed(loc) = {}
      BY <3>1 DEF ListStep
    <3>2. CASE NextListed(loc) # {}
      <4>1. TheNext(loc) >= loc /\ TheNext(loc) + 1 \in 0 .. NSlots
        BY <3>2, NextIs
      <4>2. TheNext(loc) + 1 \in m + 1 .. NSlots
        <5> DEFINE s == TheNext(loc) + 1
        <5>1. s \in 0 .. NSlots /\ s > loc
          BY <3>2, <4>1, NextIs, <1>0 DEF Slots
        <5> QED BY <5>1, <1>0
      <4> QED BY <2>3, <4>2 DEF ListStep
    <3> QED BY <3>1, <3>2
  <2>5. ASSUME NEW loc \in m .. NSlots PROVE g[loc] = ListStep(g, loc)
    <3>1. CASE loc = m
      BY <2>3, <2>4, <3>1
    <3>2. CASE loc # m
      <4>1. loc \in m + 1 .. NSlots
        BY <1>0, <3>2
      <4> QED BY <2>3, <2>4, <4>1
    <3> QED BY <3>1, <3>2
  <2>6. Is(g, m)
    BY <2>3, <2>5
  <2> HIDE DEF Is
  <2> QED BY <2>1, <2>6
<1>3. \E f : Is(f, 0)
  <2>1. Nat \subseteq S
    <3> HIDE DEF S
    <3> QED BY <1>1, <1>2, Induction
  <2>2. NSlots \in S /\ NSlots - NSlots = 0
    BY <1>0, <2>1
  <2> HIDE DEF Is
  <2> QED BY <1>0, <2>2
<1> DEFINE Fun(h) == [loc \in 0 .. NSlots |->
                        IF NextListed(loc) = {} THEN <<>>
                        ELSE LET s == CHOOSE s \in NextListed(loc) : TRUE
                             IN  <<dir[s].name>> \o h[s + 1]]
           all == CHOOSE h : h = Fun(h)
<1>4. \E f : f = Fun(f)
  BY <1>3 DEF ListStep, TheNext
<1>5. all = Fun(all)
  BY <1>4
<1>6. Listing = all[0]
  BY DEF Listing
<1> HIDE DEF all
<1>7. \A loc \in 0 .. NSlots : all[loc] = ListStep(all, loc)
  BY <1>5 DEF ListStep, TheNext
<1> QED BY <1>6, <1>7

\* The files at or behind a place.
LiveFrom(loc) == {s \in Live : s >= loc}

\* Behind an entry that was never used there is no file, so a file is not missed.
LEMMA NoneMissed ==
    ASSUME TypeOK, FoundIsThere, NEW loc \in 0 .. NSlots, NextListed(loc) = {}
    PROVE  LiveFrom(loc) = {}
<1> SUFFICES ASSUME LiveFrom(loc) # {} PROVE FALSE
  OBVIOUS
<1>1. LiveFrom(loc) \subseteq Nat
  BY FilesAssumption DEF LiveFrom, Live, Slots
<1>2. PICK s \in LiveFrom(loc) : \A x \in LiveFrom(loc) : ~(<<x, s>> \in OpToRel(<, Nat))
  BY <1>1, NatLessThanWellFounded, WFMin
<1>3. s \in Live /\ s \in Slots /\ s >= loc /\ \A x \in LiveFrom(loc) : ~(x < s)
  <2>1. \A x \in LiveFrom(loc) : x \in Nat /\ ~(x < s)
    BY <1>1, <1>2 DEF OpToRel
  <2> QED BY <1>2, <2>1 DEF LiveFrom, Live
<1>4. ASSUME NEW t \in loc .. s - 1 PROVE dir[t].name = Deleted
  <2>1. t \in Slots /\ t \in 0 .. s - 1 /\ t < s /\ t >= loc
    BY <1>3, FilesAssumption DEF Slots
  <2>2. t \notin Live
    BY <1>3, <2>1 DEF LiveFrom
  <2>3. Found(dir[s].name) = {s}
    BY <1>3 DEF FoundIsThere
  <2>4. dir[t].name # Empty
    BY <2>1, <2>3 DEF Found
  <2> QED BY <2>1, <2>2, <2>4 DEF TypeOK, Entries, Live
<1>5. s \in NextListed(loc)
  BY <1>3, <1>4 DEF NextListed, Live
<1> QED BY <1>5

\* ls shows every file, and as many lines as there are files.
LEMMA AllListed == ASSUME TypeOK, FoundIsThere PROVE ListsThem
<1>0. NSlots \in Nat
  BY FilesAssumption
<1>1. PICK f : Listing = f[0] /\ \A loc \in 0 .. NSlots : f[loc] = ListStep(f, loc)
  BY ListingIs
<1> DEFINE Right(l, loc) == /\ l \in Seq(Names)
                            /\ {l[i] : i \in DOMAIN l} = {dir[s].name : s \in LiveFrom(loc)}
                            /\ IsFiniteSet(LiveFrom(loc))
                            /\ Len(l) = Cardinality(LiveFrom(loc))
           S == {n \in Nat : \A loc \in 0 .. NSlots : NSlots - loc <= n => Right(f[loc], loc)}
<1>2. ASSUME NEW loc \in 0 .. NSlots, NextListed(loc) = {} PROVE Right(f[loc], loc)
  <2>1. LiveFrom(loc) = {} /\ f[loc] = <<>>
    BY <1>1, <1>2, NoneMissed DEF ListStep
  <2>2. Cardinality({}) = 0 /\ IsFiniteSet({})
    BY FS_EmptySet
  <2> QED BY <2>1, <2>2
<1>3. ASSUME NEW loc \in 0 .. NSlots, NextListed(loc) # {},
             Right(f[TheNext(loc) + 1], TheNext(loc) + 1)
      PROVE  Right(f[loc], loc)
  <2> DEFINE s == TheNext(loc)
             l == f[s + 1]
             name == dir[s].name
  <2>1. /\ s \in Slots /\ s >= loc /\ name \in Names
        /\ \A t \in loc .. s - 1 : dir[t].name = Deleted
    BY <1>3, NextIs
  <2>2. f[loc] = <<name>> \o l
    BY <1>1, <1>3 DEF ListStep
  <2>3. Right(l, s + 1)
    BY <1>3
  <2> HIDE DEF s, l, name
  <2>4. s \in Live /\ s \in Nat
    BY <2>1, FilesAssumption DEF Live, Slots, name
  <2>5. LiveFrom(loc) = LiveFrom(s + 1) \cup {s} /\ s \notin LiveFrom(s + 1)
    <3>1. ASSUME NEW t \in LiveFrom(loc), t # s PROVE t \in LiveFrom(s + 1)
      <4>1. t \in Slots /\ t \in Nat /\ t >= loc /\ dir[t].name \in Names /\ t \in Live
        BY <3>1, FilesAssumption DEF LiveFrom, Live, Slots
      <4>2. dir[t].name # Deleted
        BY <4>1, FilesAssumption
      <4>3. t \notin loc .. s - 1
        BY <2>1, <4>2
      <4>4. t >= s + 1
        BY <2>4, <3>1, <4>1, <4>3
      <4> QED BY <4>1, <4>4 DEF LiveFrom
    <3>2. \A t \in LiveFrom(s + 1) : t \in LiveFrom(loc) /\ t # s
      BY <2>1, <2>4, FilesAssumption DEF LiveFrom, Live, Slots
    <3>3. s \in LiveFrom(loc)
      BY <2>1, <2>4 DEF LiveFrom
    <3> QED BY <3>1, <3>2, <3>3
  <2>6. l \in Seq(Names) /\ Len(l) = Cardinality(LiveFrom(s + 1)) /\ IsFiniteSet(LiveFrom(s + 1))
    BY <2>3
  <2>7. /\ IsFiniteSet(LiveFrom(loc))
        /\ Cardinality(LiveFrom(loc)) = Cardinality(LiveFrom(s + 1)) + 1
    BY <2>5, <2>6, FS_AddElement
  <2> DEFINE u == <<name>> \o l
  <2>8. /\ u \in Seq(Names) /\ Len(u) = Len(l) + 1 /\ u[1] = name
        /\ \A i \in 1 .. Len(l) : u[i + 1] = l[i]
    BY <2>1, <2>6
  <2> HIDE DEF u
  <2>9. {u[i] : i \in DOMAIN u} = {name} \cup {l[i] : i \in DOMAIN l}
    <3>1. DOMAIN u = 1 .. Len(u) /\ DOMAIN l = 1 .. Len(l) /\ Len(l) \in Nat
      BY <2>6, <2>8
    <3>2. ASSUME NEW i \in DOMAIN u PROVE u[i] \in {name} \cup {l[j] : j \in DOMAIN l}
      <4>1. CASE i = 1
        BY <2>8, <4>1
      <4>2. CASE i # 1
        <5>1. i - 1 \in 1 .. Len(l) /\ (i - 1) + 1 = i
          BY <2>8, <3>1, <4>2
        <5> QED BY <2>8, <3>1, <5>1
      <4> QED BY <4>1, <4>2
    <3>3. ASSUME NEW j \in DOMAIN l PROVE l[j] \in {u[i] : i \in DOMAIN u}
      <4>1. j + 1 \in DOMAIN u /\ u[j + 1] = l[j]
        BY <2>8, <3>1
      <4> QED BY <4>1
    <3>4. 1 \in DOMAIN u
      BY <2>8, <3>1
    <3> QED BY <2>8, <3>2, <3>3, <3>4
  <2>10. {dir[t].name : t \in LiveFrom(loc)} = {name} \cup {dir[t].name : t \in LiveFrom(s + 1)}
    BY <2>5 DEF name
  <2>11. f[loc] = u
    BY <2>2 DEF u
  <2>12. {u[i] : i \in DOMAIN u} = {dir[t].name : t \in LiveFrom(loc)}
    BY <2>3, <2>9, <2>10
  <2>13. Len(u) = Cardinality(LiveFrom(loc))
    BY <2>6, <2>7, <2>8
  <2> QED BY <2>7, <2>8, <2>11, <2>12, <2>13
<1> HIDE DEF Right
<1>4. 0 \in S
  <2> SUFFICES ASSUME NEW loc \in 0 .. NSlots, NSlots - loc <= 0 PROVE Right(f[loc], loc)
    OBVIOUS
  <2>1. NextListed(loc) = {}
    BY <1>0 DEF NextListed, Slots
  <2> QED BY <1>2, <2>1
<1>5. ASSUME NEW n \in Nat, n \in S PROVE n + 1 \in S
  <2> SUFFICES ASSUME NEW loc \in 0 .. NSlots, NSlots - loc <= n + 1 PROVE Right(f[loc], loc)
    OBVIOUS
  <2>1. CASE NextListed(loc) = {}
    BY <1>2, <2>1
  <2>2. CASE NextListed(loc) # {}
    <3> DEFINE m == TheNext(loc) + 1
    <3>1. m \in 0 .. NSlots /\ m > loc
      BY <2>2, NextIs, <1>0 DEF Slots
    <3>2. NSlots - m <= n
      BY <3>1, <1>0
    <3>3. Right(f[m], m)
      BY <1>5, <3>1, <3>2
    <3> QED BY <1>3, <2>2, <3>3
  <2> QED BY <2>1, <2>2
<1>6. Right(f[0], 0)
  <2>1. Nat \subseteq S
    <3> HIDE DEF S
    <3> QED BY <1>4, <1>5, Induction
  <2>2. NSlots \in S /\ 0 \in 0 .. NSlots /\ NSlots - 0 <= NSlots
    BY <1>0, <2>1
  <2> QED BY <2>2
<1>7. LiveFrom(0) = Live
  BY <1>0 DEF LiveFrom, Live, Slots
<1> QED BY <1>1, <1>6, <1>7 DEF Right, ListsThem

\* ls shows every file that was created and not removed, and each once.
THEOREM FilesListed == Spec => []ListsThem
<1>1. TypeOK /\ FoundIsThere => ListsThem
  BY AllListed
<1> QED BY <1>1, FilesTyped, FilesFound, PTL
===============================================================================
