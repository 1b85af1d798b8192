---------------------------- MODULE BlockCacheProof ----------------------------
(***************************************************************************)
(* For any number of buffers and any block addresses: a block is in one     *)
(* buffer at most, a read gives what was last written, and nothing written  *)
(* is lost to an eviction, except the blocks that failed calls were for (or *)
(* whose buffer a failed read overwrote).  For the blocks of files this     *)
(* takes a partition at the start of the card, since fs_alloc and fs_clr    *)
(* leave out base_addr.                                                     *)
(***************************************************************************)
EXTENDS BlockCache, TLAPS, WellFoundedInduction

\* A buffered block is what was last written; a block that is not so on the
\* card is in a dirty buffer.
OnCard(s) == \A c \in Copies : card[c][s + Base] = truth[s]
Fresh == \A i \in Slots : \A s \in Sectors \ spoiled :
            cur[i] = s + Base => data[i] = truth[s]
Kept  == \A s \in Sectors \ spoiled : OnCard(s) \/ \E i \in dirty : cur[i] = s + Base

IInv == TypeOK /\ OnceCached /\ Fresh /\ Kept

Cards == [Copies -> [Blocks -> Values]]

(***************************************************************************)
(* Operators                                                                *)
(***************************************************************************)
(* The least of some slots is one of them.                                  *)
LEMMA LeastFacts ==
    ASSUME NEW S, S \subseteq Slots, S # {}
    PROVE  Least(S) \in S
<1>1. S \subseteq Nat  BY CacheAssumption DEF Slots
<1>2. S # {}  OBVIOUS
<1>3. PICK n \in S : \A m \in S : ~(<<m, n>> \in OpToRel(<, Nat))
  BY <1>1, <1>2, NatLessThanWellFounded, WFMin
<1>4. \A m \in S : ~(m < n)  BY <1>1, <1>3 DEF OpToRel
<1>5. \A m \in S : n <= m  BY <1>1, <1>4
<1> QED BY <1>5 DEF Least

(* fs_victim returns a buffer and leaves the hand at one.                   *)
LEMMA VictimFacts ==
    ASSUME TypeOK
    PROVE  Victim \in Slots /\ Hand \in Slots
<1>1. \A j \in Int : At(j) \in Slots
  BY CacheAssumption DEF At, Slots, TypeOK
<1>2. CleanAt \subseteq Slots /\ UnusedAt \subseteq Slots  BY DEF CleanAt, UnusedAt
<1>3. 0 \in Slots  BY CacheAssumption DEF Slots
<1>4. Passed \in Slots  BY <1>2, <1>3, LeastFacts DEF Passed
<1>5. Passed \in Int /\ Passed + 1 \in Int  BY <1>4, CacheAssumption DEF Slots
<1> QED BY <1>1, <1>5 DEF Victim, Hand

(* Addresses of blocks are numbers, and different blocks have different     *)
(* ones.                                                                    *)
LEMMA AddressFacts ==
    /\ \A s \in Sectors : s + Base \in Blocks /\ s \in Blocks /\ s + Base # NoBlock
    /\ \A s, t \in Sectors : s + Base = t + Base => s = t
    /\ Blocks \subseteq Nat /\ NoBlock \notin Blocks
<1>1. \A s \in Sectors : s \in Nat /\ s + Base \in Nat  BY CacheAssumption
<1>2. Blocks \subseteq Nat  BY <1>1 DEF Blocks
<1>3. \A s, t \in Sectors : s + Base = t + Base => s = t  BY CacheAssumption
<1> QED BY <1>1, <1>2, <1>3, CacheAssumption DEF Blocks

(* What writing a buffer back does to each block of the card.               *)
LEMMA SavedFacts ==
    ASSUME TypeOK, NEW mem \in Cards, NEW i \in Slots
    PROVE  /\ Saved(mem, i) \in Cards
           /\ \A c \in Copies, b \in Blocks :
                 Saved(mem, i)[c][b] =
                     IF i \in dirty /\ cur[i] = b THEN data[i] ELSE mem[c][b]
<1>1. cur[i] \in Blocks \cup {NoBlock} /\ data[i] \in Values  BY DEF TypeOK
<1>2. NoBlock \notin Blocks  BY AddressFacts
<1>3. CASE i \in dirty /\ cur[i] # NoBlock
  <2>1. Saved(mem, i) = [c \in Copies |-> [mem[c] EXCEPT ![cur[i]] = data[i]]]
    BY <1>3 DEF Saved
  <2>2. \A c \in Copies : mem[c] \in [Blocks -> Values]  BY DEF Cards
  <2>3. \A c \in Copies : [mem[c] EXCEPT ![cur[i]] = data[i]] \in [Blocks -> Values]
    BY <1>1, <2>2
  <2>4. \A c \in Copies, b \in Blocks : [mem[c] EXCEPT ![cur[i]] = data[i]][b] =
            IF cur[i] = b THEN data[i] ELSE mem[c][b]
    BY <2>2
  <2> QED BY <1>3, <2>1, <2>3, <2>4 DEF Cards
<1>4. CASE ~(i \in dirty /\ cur[i] # NoBlock)
  BY <1>2, <1>4 DEF Saved
<1> QED BY <1>3, <1>4

(* A write that fails changes one block of the card.                        *)
LEMMA GarbledFacts ==
    ASSUME TypeOK, NEW mem \in Cards, NEW i \in Slots, NEW junk \in [Copies -> Values]
    PROVE  /\ Garbled(mem, i, junk) \in Cards
           /\ \A c \in Copies, b \in Blocks : cur[i] # b =>
                 Garbled(mem, i, junk)[c][b] = mem[c][b]
<1>1. \A c \in Copies : mem[c] \in [Blocks -> Values] /\ junk[c] \in Values  BY DEF Cards
<1>2. \A c \in Copies : [mem[c] EXCEPT ![cur[i]] = junk[c]] \in [Blocks -> Values]
  BY <1>1
<1>3. \A c \in Copies, b \in Blocks : cur[i] # b =>
          [mem[c] EXCEPT ![cur[i]] = junk[c]][b] = mem[c][b]
  BY <1>1
<1> QED BY <1>2, <1>3 DEF Garbled, Cards

(* The first copy is always there.                                          *)
LEMMA FirstCopy == 1 \in Copies
BY DEF Copies

(* A write taken for done has saved the buffer, or cost its block alone.    *)
LEMMA WritesFacts ==
    ASSUME TypeOK, NEW mem \in Cards, NEW i \in Slots, NEW w \in Writes(mem, i)
    PROVE  /\ w.card \in Cards /\ w.lost \subseteq Sectors
           /\ \A c \in Copies, s \in Sectors \ w.lost :
                 w.card[c][s + Base] =
                     IF i \in dirty /\ cur[i] = s + Base THEN data[i] ELSE mem[c][s + Base]
           /\ \A c \in Copies, b \in Blocks : cur[i] # b => w.card[c][b] = mem[c][b]
<1>1. CASE w = [card |-> Saved(mem, i), lost |-> {}]
  BY <1>1, SavedFacts, AddressFacts
<1>2. CASE \E junk \in [Copies -> Values] :
              w = [card |-> Garbled(mem, i, junk), lost |-> HeldBy(i)]
  <2>1. PICK junk \in [Copies -> Values] :
              w = [card |-> Garbled(mem, i, junk), lost |-> HeldBy(i)]
    BY <1>2
  <2>2. /\ w.card = Garbled(mem, i, junk) /\ w.lost = HeldBy(i)
        /\ Garbled(mem, i, junk) \in Cards
        /\ \A c \in Copies, b \in Blocks : cur[i] # b =>
              Garbled(mem, i, junk)[c][b] = mem[c][b]
    BY <2>1, GarbledFacts
  <2>3. HeldBy(i) \subseteq Sectors /\ \A s \in Sectors \ HeldBy(i) : cur[i] # s + Base
    BY DEF HeldBy
  <2> QED BY <2>2, <2>3, AddressFacts
<1> QED BY <1>1, <1>2 DEF Writes

(* So for erasing a new block.                                              *)
LEMMA ErasedFacts ==
    ASSUME TypeOK, NEW s \in Sectors, NEW v \in Values
    PROVE  /\ Erased(s, v) \in Cards
           /\ \A c \in Copies, b \in Blocks :
                 Erased(s, v)[c][b] = IF b = s THEN v ELSE card[c][b]
<1>1. card \in Cards /\ \A c \in Copies : card[c] \in [Blocks -> Values]
  BY DEF TypeOK, Cards
<1>2. \A c \in Copies : [card[c] EXCEPT ![s] = v] \in [Blocks -> Values]
  BY <1>1
<1> QED BY <1>1, <1>2, AddressFacts DEF Cards, Erased

(* A flush up to n saves the dirty buffers before n and touches no other    *)
(* block.                                                                   *)
LEMMA SavedUpToFacts ==
    ASSUME TypeOK, OnceCached, NEW n \in Int
    PROVE  /\ SavedUpTo(n) \in Cards
           /\ \A c \in Copies : \A i \in dirty : i < n /\ cur[i] \in Blocks =>
                 SavedUpTo(n)[c][cur[i]] = data[i]
           /\ \A c \in Copies, b \in Blocks :
                 (\A i \in dirty : i < n => cur[i] # b) =>
                     SavedUpTo(n)[c][b] = card[c][b]
<1> DEFINE toSave(b) == {i \in dirty : i < n /\ cur[i] = b}
           out(c, b) == IF toSave(b) = {} THEN card[c][b] ELSE data[Greatest(toSave(b))]
<1>1. SavedUpTo(n) = [c \in Copies |-> [b \in Blocks |-> out(c, b)]]  BY DEF SavedUpTo
<1>2. ASSUME NEW i \in dirty, i < n, cur[i] \in Blocks
      PROVE  toSave(cur[i]) = {i} /\ Greatest({i}) = i
  <2>1. i \in Int /\ i >= i  BY CacheAssumption DEF TypeOK, Slots
  <2>2. \A j \in dirty : cur[j] = cur[i] => j = i
    BY <1>2, AddressFacts DEF OnceCached, TypeOK
  <2>3. toSave(cur[i]) = {i}  BY <1>2, <2>2
  <2> QED BY <2>1, <2>3 DEF Greatest
<1>3. ASSUME NEW c \in Copies, NEW b \in Blocks
      PROVE  out(c, b) \in Values
  <2>1. CASE toSave(b) = {}  BY <2>1 DEF TypeOK
  <2>2. CASE toSave(b) # {}
    <3>1. PICK i \in dirty : i < n /\ cur[i] = b  BY <2>2
    <3>2. Greatest(toSave(b)) = i  BY <1>2, <3>1
    <3> QED BY <2>2, <3>2 DEF TypeOK
  <2> QED BY <2>1, <2>2
<1>4. \A c \in Copies, b \in Blocks : SavedUpTo(n)[c][b] = out(c, b)  BY <1>1
<1>5. ASSUME NEW c \in Copies, NEW i \in dirty, i < n, cur[i] \in Blocks
      PROVE  SavedUpTo(n)[c][cur[i]] = data[i]
  <2>1. toSave(cur[i]) = {i} /\ Greatest(toSave(cur[i])) = i  BY <1>2, <1>5
  <2> QED BY <1>4, <1>5, <2>1
<1>6. SavedUpTo(n) \in Cards  BY <1>1, <1>3 DEF Cards
<1> HIDE DEF out
<1>7. ASSUME NEW c \in Copies, NEW b \in Blocks, \A i \in dirty : i < n => cur[i] # b
      PROVE  SavedUpTo(n)[c][b] = card[c][b]
  <2>1. toSave(b) = {}  BY <1>7
  <2> QED BY <1>4, <2>1 DEF out
<1> QED BY <1>5, <1>6, <1>7

(***************************************************************************)
(* The invariant is kept                                                    *)
(***************************************************************************)
(* A buffer is lost to another block.  The card gets what it held, so the   *)
(* lost block is on the card, unless the write failed unheard.              *)
LEMMA ReadMissStep ==
    ASSUME IInv, NEW s \in Sectors, ReadMiss(s)
    PROVE  IInv'
<1> DEFINE v == Victim
           b == s + Base
<1>1. v \in Slots /\ Hand \in Slots  BY VictimFacts DEF IInv
<1>2. b \in Blocks /\ \A i \in Slots : cur[i] # b
  BY AddressFacts DEF ReadMiss, Hits
<1>3. PICK w \in Writes(card, v) : \E r \in Reads(w.card, s) :
          /\ card' = w.card /\ data' = [data EXCEPT ![v] = r.data]
          /\ spoiled' = spoiled \cup w.lost \cup r.lost
  BY DEF ReadMiss
<1>4. PICK r \in Reads(w.card, s) :
          /\ card' = w.card /\ data' = [data EXCEPT ![v] = r.data]
          /\ spoiled' = spoiled \cup w.lost \cup r.lost
  BY <1>3
<1>5. card \in Cards  BY DEF IInv, TypeOK, Cards
<1>6. /\ card' \in Cards /\ w.lost \subseteq Sectors
      /\ \A c \in Copies, t \in Sectors \ w.lost :
            card'[c][t + Base] =
                IF v \in dirty /\ cur[v] = t + Base THEN data[v] ELSE card[c][t + Base]
      /\ \A c \in Copies, a \in Blocks : cur[v] # a => card'[c][a] = card[c][a]
  BY <1>1, <1>4, <1>5, WritesFacts DEF IInv
<1>7. /\ r.data \in Values /\ r.lost \subseteq Sectors
      /\ s \notin r.lost => r.data = card[1][b]
  <2>1. CASE r = [data |-> card'[1][s + Base], lost |-> {}]
    BY <1>1, <1>2, <1>6, <2>1, FirstCopy DEF Cards
  <2>2. CASE \E junk \in Values : r = [data |-> junk, lost |-> {s}]
    BY <2>2
  <2> QED BY <1>4, <2>1, <2>2 DEF Reads
<1> HIDE DEF v, b
<1>8. /\ cur' = [cur EXCEPT ![v] = b] /\ dirty' = dirty \ {v} /\ index' = v
      /\ ref' = (ref \ Swept) \cup {v} /\ clock_head' = Hand
      /\ UNCHANGED <<kind, truth>>
  BY DEF ReadMiss, Turn, v, b
<1>9. Copies' = Copies  BY <1>8 DEF Copies
<1>10. TypeOK'
  <2>1. cur' \in [Slots -> Blocks \cup {NoBlock}] /\ data' \in [Slots -> Values]
    BY <1>2, <1>4, <1>7, <1>8 DEF IInv, TypeOK
  <2>2. card' \in [Copies' -> [Blocks -> Values]] /\ spoiled' \subseteq Sectors
    BY <1>4, <1>6, <1>7, <1>9 DEF IInv, TypeOK, Cards
  <2> QED BY <1>1, <1>8, <2>1, <2>2 DEF IInv, TypeOK
<1>11. OnceCached'  BY <1>1, <1>2, <1>8 DEF IInv, OnceCached, TypeOK
<1>12. Fresh'
  <2> SUFFICES ASSUME NEW i \in Slots, NEW t \in Sectors \ spoiled', cur'[i] = t + Base
               PROVE  data'[i] = truth[t]
    BY <1>8 DEF Fresh
  <2>1. CASE i = v
    <3>1. t = s  BY <1>1, <1>8, <2>1, AddressFacts DEF IInv, TypeOK, b
    <3>2. OnCard(s)  BY <1>2, <1>4, <3>1 DEF IInv, Kept, b, TypeOK
    <3>3. r.data = card[1][b]  BY <1>4, <1>7, <3>1
    <3> QED BY <1>1, <1>4, <2>1, <3>1, <3>2, <3>3, FirstCopy
            DEF OnCard, b, IInv, TypeOK
  <2>2. CASE i # v  BY <1>4, <1>8, <2>2 DEF IInv, TypeOK, Fresh
  <2> QED BY <2>1, <2>2
<1>13. Kept'
  <2> SUFFICES ASSUME NEW t \in Sectors \ spoiled'
               PROVE  OnCard(t)' \/ \E i \in dirty' : cur'[i] = t + Base
    BY DEF Kept
  <2>1. t \notin w.lost /\ t \notin spoiled  BY <1>4
  <2>2. CASE OnCard(t)
    <3>1. v \in dirty /\ cur[v] = t + Base => data[v] = truth[t]
      BY <1>1, <2>1 DEF IInv, Fresh
    <3> QED BY <1>6, <1>8, <1>9, <2>1, <2>2, <3>1 DEF OnCard
  <2>3. ASSUME NEW i \in dirty, cur[i] = t + Base
        PROVE  OnCard(t)' \/ \E k \in dirty' : cur'[k] = t + Base
    <3>1. CASE i = v
      <4>1. data[v] = truth[t]  BY <1>1, <2>1, <2>3, <3>1 DEF IInv, Fresh
      <4> QED BY <1>6, <1>8, <1>9, <2>1, <2>3, <3>1, <4>1 DEF OnCard
    <3>2. CASE i # v  BY <1>8, <2>3, <3>2 DEF IInv, TypeOK
    <3> QED BY <3>1, <3>2
  <2> QED BY <2>1, <2>2, <2>3 DEF IInv, Kept
<1> QED BY <1>10, <1>11, <1>12, <1>13 DEF IInv

(* A failed write leaves the block dirty.                                   *)
LEMMA WriteFailsStep ==
    ASSUME IInv, NEW s \in Sectors, WriteFails(s)
    PROVE  IInv'
<1> DEFINE v == Victim
<1>1. v \in Slots /\ Hand \in Slots  BY VictimFacts DEF IInv
<1>2. PICK junk \in [Copies -> Values] : card' = Garbled(card, v, junk)
  BY DEF WriteFails
<1>3. /\ card' \in Cards
      /\ \A c \in Copies, b \in Blocks : cur[v] # b => card'[c][b] = card[c][b]
  BY <1>1, <1>2, GarbledFacts DEF IInv, TypeOK, Cards
<1> HIDE DEF v
<1>4. /\ v \in dirty /\ clock_head' = Hand /\ ref' = ref \ Swept /\ index' = Size
      /\ Copies' = Copies /\ UNCHANGED <<kind, cur, data, dirty, truth, spoiled>>
  BY DEF WriteFails, Heard, Unsaved, Turn, v, Copies
<1>5. TypeOK'  BY <1>1, <1>3, <1>4 DEF IInv, TypeOK, Cards
<1>6. OnceCached' /\ Fresh'  BY <1>4 DEF IInv, OnceCached, Fresh
<1>7. Kept'
  <2> SUFFICES ASSUME NEW t \in Sectors \ spoiled, OnCard(t)
               PROVE  OnCard(t)' \/ \E i \in dirty : cur[i] = t + Base
    BY <1>4 DEF IInv, Kept
  <2> QED BY <1>3, <1>4, AddressFacts DEF OnCard
<1> QED BY <1>5, <1>6, <1>7 DEF IInv

(* A failed read spoils the block whose buffer it overwrote, and no other.  *)
LEMMA ReadFailsStep ==
    ASSUME IInv, NEW s \in Sectors, ReadFails(s)
    PROVE  IInv'
<1> DEFINE v == Victim
<1>1. v \in Slots /\ Hand \in Slots  BY VictimFacts DEF IInv
<1>2. card' = Saved(card, v) /\ card \in Cards  BY DEF ReadFails, IInv, TypeOK, Cards
<1>3. /\ card' \in Cards
      /\ \A c \in Copies, a \in Blocks :
            card'[c][a] = IF v \in dirty /\ cur[v] = a THEN data[v] ELSE card[c][a]
  BY <1>1, <1>2, SavedFacts DEF IInv
<1>4. PICK junk \in Values : data' = [data EXCEPT ![v] = junk]  BY DEF ReadFails
<1> HIDE DEF v
<1>5. /\ dirty' = dirty \ {v} /\ index' = Size
      /\ spoiled' = spoiled \cup {t \in Sectors : t + Base = cur[v]}
      /\ ref' = ref \ Swept /\ clock_head' = Hand
      /\ Copies' = Copies /\ UNCHANGED <<kind, cur, truth>>
  BY DEF ReadFails, Turn, v, HeldBy, Copies
<1>6. TypeOK'  BY <1>1, <1>3, <1>4, <1>5 DEF IInv, TypeOK, Cards
<1>7. OnceCached' /\ Fresh'  BY <1>4, <1>5 DEF IInv, OnceCached, Fresh, TypeOK
<1>8. Kept'
  <2> SUFFICES ASSUME NEW t \in Sectors \ spoiled, t + Base # cur[v]
               PROVE  OnCard(t)' \/ \E i \in dirty' : cur[i] = t + Base
    BY <1>5 DEF Kept
  <2> QED BY <1>3, <1>5, AddressFacts DEF OnCard, IInv, Kept
<1> QED BY <1>6, <1>7, <1>8 DEF IInv

(* A modified block is the latest, and is marked.                           *)
LEMMA ModifyStep ==
    ASSUME IInv, NEW v \in Values, Modify(v)
    PROVE  IInv'
<1>1. index \in Slots  BY DEF Modify, IInv, TypeOK
<1>2. /\ data' = [data EXCEPT ![index] = v]
      /\ dirty' = dirty \cup {index} /\ ref' = ref \cup {index}
      /\ truth' = [s \in Sectors |-> IF cur[index] = s + Base THEN v ELSE truth[s]]
      /\ Copies' = Copies /\ UNCHANGED <<kind, cur, clock_head, index, card, spoiled>>
  BY DEF Modify, Copies
<1>3. TypeOK'
  <2>1. truth' \in [Sectors -> Values]  BY <1>2 DEF IInv, TypeOK
  <2>2. data' \in [Slots -> Values]  BY <1>2 DEF IInv, TypeOK
  <2> QED BY <1>1, <1>2, <2>1, <2>2 DEF IInv, TypeOK
<1>4. OnceCached'  BY <1>2 DEF IInv, OnceCached
<1>5. Fresh'
  <2> SUFFICES ASSUME NEW i \in Slots, NEW t \in Sectors \ spoiled, cur[i] = t + Base
               PROVE  data'[i] = truth'[t]
    BY <1>2 DEF Fresh
  <2>1. truth'[t] = IF cur[index] = t + Base THEN v ELSE truth[t]  BY <1>2
  <2>2. cur[index] = t + Base <=> i = index
    BY <1>1, AddressFacts DEF IInv, OnceCached
  <2>3. data'[i] = IF i = index THEN v ELSE data[i]  BY <1>2 DEF IInv, TypeOK
  <2>4. data[i] = truth[t]  BY DEF IInv, Fresh
  <2> QED BY <2>1, <2>2, <2>3, <2>4
<1>6. Kept'
  <2> SUFFICES ASSUME NEW t \in Sectors \ spoiled
               PROVE  OnCard(t)' \/ \E i \in dirty' : cur[i] = t + Base
    BY <1>2 DEF Kept
  <2>1. CASE cur[index] = t + Base  BY <1>2, <2>1
  <2>2. CASE cur[index] # t + Base
    <3>1. truth'[t] = truth[t]  BY <1>2, <2>2
    <3> QED BY <1>2, <3>1 DEF OnCard, IInv, Kept
  <2> QED BY <2>1, <2>2
<1> QED BY <1>3, <1>4, <1>5, <1>6 DEF IInv

(* A flush saves every dirty block but the ones whose write fails unheard,  *)
(* or those before the one that is heard to fail, which stays dirty.        *)
LEMMA FlushStep ==
    ASSUME IInv, NEW n \in Slots \cup {Size}, NEW bad,
           dirty' = dirty \ (0 .. n - 1), index' = Size,
           UNCHANGED <<kind, cur, data, ref, clock_head, truth>>,
           card' \in Cards,
           spoiled' = spoiled \cup {s \in Sectors : s + Base \in bad},
           \A c \in Copies, b \in Blocks :
               b \notin bad /\ (n \in dirty => cur[n] # b) =>
                   card'[c][b] = SavedUpTo(n)[c][b]
    PROVE  IInv'
<1>1. n \in Int /\ \A i \in Slots : i \in Int /\ (i < n <=> i \in 0 .. n - 1)
  BY CacheAssumption DEF Slots
<1>2. /\ \A c \in Copies : \A i \in dirty : i < n /\ cur[i] \in Blocks =>
            SavedUpTo(n)[c][cur[i]] = data[i]
      /\ \A c \in Copies, b \in Blocks : (\A i \in dirty : i < n => cur[i] # b) =>
            SavedUpTo(n)[c][b] = card[c][b]
  BY <1>1, SavedUpToFacts DEF IInv
<1>3. Copies' = Copies  BY DEF Copies
<1>4. TypeOK'  BY <1>3 DEF IInv, TypeOK, Cards
<1>5. OnceCached' /\ Fresh'  BY DEF IInv, OnceCached, Fresh
<1>6. Kept'
  <2> SUFFICES ASSUME NEW t \in Sectors \ spoiled, t + Base \notin bad,
                      \A i \in dirty' : cur[i] # t + Base
               PROVE  OnCard(t)'
    BY DEF Kept
  <2>1. t + Base \in Blocks /\ dirty \subseteq Slots
    BY AddressFacts DEF IInv, TypeOK
  <2>2. n \in dirty => cur[n] # t + Base  BY <1>1
  <2>3. \A c \in Copies : card'[c][t + Base] = SavedUpTo(n)[c][t + Base]
    BY <2>1, <2>2
  <2>4. CASE \E i \in dirty : cur[i] = t + Base
    <3>1. PICK i \in dirty : cur[i] = t + Base  BY <2>4
    <3>2. i < n /\ data[i] = truth[t]  BY <1>1, <2>1, <3>1 DEF IInv, Fresh
    <3> QED BY <1>2, <1>3, <2>1, <2>3, <3>1, <3>2 DEF OnCard
  <2>5. CASE \A i \in dirty : cur[i] # t + Base
    BY <1>2, <1>3, <2>1, <2>3, <2>5 DEF OnCard, IInv, Kept
  <2> QED BY <2>4, <2>5
<1> QED BY <1>4, <1>5, <1>6 DEF IInv

(* Reads, changes and flushes keep the invariant wherever the partition is. *)
LEMMA UseStep ==
    ASSUME IInv, [Use]_vars
    PROVE  IInv'
<1>1. ASSUME NEW s \in Sectors, ReadHit(s)
      PROVE  IInv'
  <2>1. Hits(s + Base) \subseteq Slots /\ Hits(s + Base) # {}
    BY <1>1 DEF Hits, ReadHit
  <2>2. index' \in Slots /\ ref' = ref \cup {index'}
    BY <1>1, <2>1, LeastFacts DEF ReadHit
  <2> QED BY <1>1, <2>2
          DEF ReadHit, IInv, TypeOK, OnceCached, Fresh, Kept, OnCard, Copies
<1>2. CASE Flush
  <2>1. 0 .. Size - 1 = Slots /\ Size \notin Slots /\ Size \in Int
    BY CacheAssumption DEF Slots
  <2>2. dirty \subseteq Slots  BY DEF IInv, TypeOK
  <2>3. PICK bad \in SUBSET {cur[i] : i \in Unheard} :
          /\ \E junk \in [Copies -> [bad -> Values]] :
                card' = [c \in Copies |-> [a \in Blocks |->
                            IF a \in bad THEN junk[c][a] ELSE SavedUpTo(Size)[c][a]]]
          /\ spoiled' = spoiled \cup {s \in Sectors : s + Base \in bad}
    BY <1>2 DEF Flush
  <2>4. PICK junk \in [Copies -> [bad -> Values]] :
          card' = [c \in Copies |-> [a \in Blocks |->
                      IF a \in bad THEN junk[c][a] ELSE SavedUpTo(Size)[c][a]]]
    BY <2>3
  <2>5. SavedUpTo(Size) \in Cards  BY <2>1, SavedUpToFacts DEF IInv
  <2>6. \A c \in Copies, a \in Blocks : card'[c][a] =
            IF a \in bad THEN junk[c][a] ELSE SavedUpTo(Size)[c][a]
    BY <2>4
  <2>7. card' \in Cards
    <3>1. \A c \in Copies, a \in Blocks :
              (IF a \in bad THEN junk[c][a] ELSE SavedUpTo(Size)[c][a]) \in Values
      BY <2>5 DEF Cards
    <3> QED BY <2>4, <3>1 DEF Cards
  <2>8. dirty' = dirty \ (0 .. Size - 1)  BY <1>2, <2>1, <2>2 DEF Flush
  <2>9. /\ Size \notin dirty /\ index' = Size
        /\ UNCHANGED <<kind, cur, data, ref, clock_head, truth>>
    BY <1>2, <2>1, <2>2 DEF Flush
  <2>10. \A c \in Copies, a \in Blocks :
            a \notin bad /\ (Size \in dirty => cur[Size] # a) =>
                card'[c][a] = SavedUpTo(Size)[c][a]
    BY <2>6
  <2>11. spoiled' = spoiled \cup {s \in Sectors : s + Base \in bad}  BY <2>3
  <2> QED BY <2>7, <2>8, <2>9, <2>10, <2>11, FlushStep
<1>3. ASSUME NEW i \in Slots, FlushFails(i)
      PROVE  IInv'
  <2>1. PICK junk \in [Copies -> Values] : card' = Garbled(SavedUpTo(i), i, junk)
    BY <1>3 DEF FlushFails
  <2>2. i \in Int /\ i \in dirty
    BY <1>3, CacheAssumption DEF FlushFails, Heard, Unsaved, Slots
  <2>3. SavedUpTo(i) \in Cards  BY <2>2, SavedUpToFacts DEF IInv
  <2>4. /\ card' \in Cards
        /\ \A c \in Copies, b \in Blocks : cur[i] # b =>
              card'[c][b] = SavedUpTo(i)[c][b]
    BY <2>1, <2>3, GarbledFacts DEF IInv
  <2>5. /\ dirty' = dirty \ (0 .. i - 1) /\ index' = Size
        /\ UNCHANGED <<kind, cur, data, ref, clock_head, truth>>
    BY <1>3 DEF FlushFails
  <2> DEFINE none == {}
  <2>6. \A c \in Copies, b \in Blocks : b \notin none /\ (i \in dirty => cur[i] # b) =>
            card'[c][b] = SavedUpTo(i)[c][b]
    BY <2>2, <2>4
  <2>7. spoiled' = spoiled \cup {s \in Sectors : s + Base \in none}
    BY <1>3 DEF FlushFails
  <2>8. card' \in Cards  BY <2>4
  <2> HIDE DEF none
  <2> QED BY <2>5, <2>6, <2>7, <2>8, FlushStep
<1>4. CASE UNCHANGED vars
  BY <1>4 DEF vars, IInv, TypeOK, OnceCached, Fresh, Kept, OnCard, Copies
<1> QED BY <1>1, <1>2, <1>3, <1>4, ReadMissStep, WriteFailsStep, ReadFailsStep,
           ModifyStep DEF Use

(* In a partition at the start of the card a new block, in no buffer yet,   *)
(* starts out empty in its buffer and on the card.                          *)
LEMMA NewBlockStep ==
    ASSUME IInv, Base = 0, NEW s \in Sectors, NewBlock(s)
    PROVE  IInv'
<1> DEFINE v == Victim
<1>1. v \in Slots /\ Hand \in Slots  BY VictimFacts DEF IInv
<1>2. /\ s \in Blocks /\ \A t \in Sectors : t + Base = t /\ t \in Blocks
      /\ \A i \in Slots : cur[i] # s
  BY AddressFacts, CacheAssumption DEF NewBlock, Hits
<1>3. /\ truth' = [truth EXCEPT ![s] = Zero] /\ clock_head' = Hand
      /\ kind' = kind /\ Copies' = Copies
  BY DEF NewBlock, Extend, ExtendFails, Turn, Copies
<1>4. Zero \in Values  BY CacheAssumption
<1>5. CASE Extend(s)
  <2>1. PICK e \in Erasures(s) : \E w \in Writes(e.card, v) :
            card' = w.card /\ spoiled' = spoiled \cup e.lost \cup w.lost
    BY <1>5 DEF Extend
  <2>2. PICK w \in Writes(e.card, v) :
            card' = w.card /\ spoiled' = spoiled \cup e.lost \cup w.lost
    BY <2>1
  <2>3. /\ e.card \in Cards /\ e.lost \subseteq Sectors
        /\ \A c \in Copies, b \in Blocks : b # s => e.card[c][b] = card[c][b]
        /\ s \notin e.lost => \A c \in Copies : e.card[c][s] = Zero
    <3>1. CASE e = [card |-> Erased(s, Zero), lost |-> {}]
      BY <1>2, <1>4, <3>1, ErasedFacts DEF IInv
    <3>2. CASE \E junk \in Values : e = [card |-> Erased(s, junk), lost |-> {s}]
      <4>1. PICK junk \in Values : e = [card |-> Erased(s, junk), lost |-> {s}]
        BY <3>2
      <4>2. e.card = Erased(s, junk) /\ e.lost = {s}  BY <4>1
      <4> QED BY <4>2, ErasedFacts DEF IInv
    <3> QED BY <2>1, <3>1, <3>2 DEF Erasures
  <2>4. /\ card' \in Cards /\ w.lost \subseteq Sectors
        /\ \A c \in Copies, t \in Sectors \ w.lost :
              card'[c][t + Base] =
                  IF v \in dirty /\ cur[v] = t + Base THEN data[v] ELSE e.card[c][t + Base]
    BY <1>1, <2>2, <2>3, WritesFacts DEF IInv
  <2> HIDE DEF v
  <2>5. /\ data' = [data EXCEPT ![v] = Zero] /\ cur' = [cur EXCEPT ![v] = s]
        /\ dirty' = dirty \ {v} /\ ref' = (ref \ Swept) \ {v} /\ index' = Size
    BY <1>5 DEF Extend, v
  <2>6. TypeOK'
    BY <1>1, <1>2, <1>3, <1>4, <2>2, <2>3, <2>4, <2>5 DEF IInv, TypeOK, Cards
  <2>7. OnceCached'  BY <1>1, <1>2, <2>5 DEF IInv, OnceCached, TypeOK
  <2>8. Fresh'
    <3> SUFFICES ASSUME NEW i \in Slots, NEW t \in Sectors \ spoiled', cur'[i] = t
                 PROVE  data'[i] = truth'[t]
      BY <1>2, <1>3 DEF Fresh
    <3>1. CASE i = v  BY <1>1, <1>3, <2>5, <3>1 DEF IInv, TypeOK
    <3>2. CASE i # v
      <4>1. cur[i] = t /\ t # s /\ data'[i] = data[i]
        BY <1>2, <2>5, <3>2 DEF IInv, TypeOK
      <4> QED BY <1>2, <1>3, <2>2, <4>1 DEF IInv, Fresh, TypeOK
    <3> QED BY <3>1, <3>2
  <2>9. Kept'
    <3> SUFFICES ASSUME NEW t \in Sectors \ spoiled',
                        \A i \in dirty \ {v} : cur[i] # t
                 PROVE  OnCard(t)'
      BY <1>2, <1>3, <2>5 DEF Kept, IInv, TypeOK
    <3>1. t \notin w.lost /\ t \notin e.lost /\ t \notin spoiled /\ t + Base = t
      BY <1>2, <2>2
    <3>2. CASE t = s
      <4>1. \A c \in Copies : card'[c][t] = Zero
        BY <1>1, <1>2, <2>3, <2>4, <3>1, <3>2
      <4> QED BY <1>3, <3>1, <3>2, <4>1 DEF OnCard, IInv, TypeOK
    <3>3. CASE t # s
      <4>1. truth'[t] = truth[t]  BY <1>3, <3>3 DEF IInv, TypeOK
      <4>2. v \in dirty /\ cur[v] = t => data[v] = truth[t]
        BY <1>1, <3>1 DEF IInv, Fresh
      <4>3. OnCard(t) \/ (v \in dirty /\ cur[v] = t)  BY <3>1 DEF IInv, Kept
      <4>4. \A c \in Copies : card'[c][t] =
                IF v \in dirty /\ cur[v] = t THEN data[v] ELSE card[c][t]
        BY <1>2, <2>3, <2>4, <3>1, <3>3
      <4> QED BY <1>3, <3>1, <4>1, <4>2, <4>3, <4>4 DEF OnCard
    <3> QED BY <3>2, <3>3
  <2> QED BY <2>6, <2>7, <2>8, <2>9 DEF IInv
<1>6. CASE ExtendFails(s)
  <2>1. PICK junk \in [Copies -> Values] : card' = Garbled(Erased(s, Zero), v, junk)
    BY <1>6 DEF ExtendFails
  <2>2. /\ Erased(s, Zero) \in Cards
        /\ \A c \in Copies, b \in Blocks :
              Erased(s, Zero)[c][b] = IF b = s THEN Zero ELSE card[c][b]
    BY <1>4, ErasedFacts DEF IInv
  <2>3. /\ card' \in Cards
        /\ \A c \in Copies, b \in Blocks : cur[v] # b =>
              card'[c][b] = Erased(s, Zero)[c][b]
    BY <1>1, <2>1, <2>2, GarbledFacts DEF IInv
  <2>4. /\ v \in dirty /\ ref' = ref \ Swept /\ index' = Size
        /\ UNCHANGED <<cur, data, dirty, spoiled>>
    BY <1>6 DEF ExtendFails, Heard, Unsaved
  <2> HIDE DEF v
  <2>5. TypeOK'  BY <1>1, <1>2, <1>3, <1>4, <2>3, <2>4 DEF IInv, TypeOK, Cards
  <2>6. OnceCached'  BY <2>4 DEF IInv, OnceCached
  <2>7. Fresh'  BY <1>2, <1>3, <2>4 DEF IInv, Fresh, TypeOK
  <2>8. Kept'
    <3> SUFFICES ASSUME NEW t \in Sectors \ spoiled, \A i \in dirty : cur[i] # t
                 PROVE  OnCard(t)'
      BY <1>2, <1>3, <2>4 DEF Kept
    <3>1. \A c \in Copies : card'[c][t] = IF t = s THEN Zero ELSE card[c][t]
      BY <1>2, <2>2, <2>3, <2>4
    <3>2. truth'[t] = IF t = s THEN Zero ELSE truth[t]  BY <1>3 DEF IInv, TypeOK
    <3> QED BY <1>2, <1>3, <3>1, <3>2 DEF OnCard, IInv, Kept
  <2> QED BY <2>5, <2>6, <2>7, <2>8 DEF IInv
<1> QED BY <1>5, <1>6 DEF NewBlock

(***************************************************************************)
(* Theorems                                                                 *)
(***************************************************************************)
(* After the mount every buffer is empty and the card holds everything.     *)
LEMMA InitIInv == Init => IInv
<1> SUFFICES ASSUME Init PROVE IInv  OBVIOUS
<1>1. TypeOK  BY CacheAssumption DEF Init, TypeOK, Slots
<1>2. OnceCached  BY DEF Init, OnceCached
<1>3. Fresh  BY AddressFacts DEF Init, Fresh
<1>4. Kept  BY DEF Init, Kept, OnCard
<1> QED BY <1>1, <1>2, <1>3, <1>4 DEF IInv

(* The invariant says what the reader and the card see.                     *)
LEMMA IInvImplies == IInv => TypeOK /\ OnceCached /\ Coherent /\ NothingLost
<1> SUFFICES ASSUME IInv PROVE Coherent /\ NothingLost  BY DEF IInv
<1>1. Coherent
  <2> SUFFICES ASSUME NEW s \in Sectors \ spoiled
               PROVE  Shown(s) = truth[s]
    BY DEF Coherent
  <2>1. CASE Hits(s + Base) = {}
    <3>1. OnCard(s)  BY <2>1 DEF IInv, Kept, Hits, TypeOK
    <3> QED BY <2>1, <3>1, FirstCopy DEF OnCard, Shown
  <2>2. CASE Hits(s + Base) # {}
    <3>1. Least(Hits(s + Base)) \in Hits(s + Base)  BY <2>2, LeastFacts DEF Hits
    <3> QED BY <2>2, <3>1 DEF Hits, Shown, IInv, Fresh
  <2> QED BY <2>1, <2>2
<1>2. NothingLost  BY DEF IInv, NothingLost, Kept, OnCard, Fresh, TypeOK
<1> QED BY <1>1, <1>2

(* The cache of FAT sectors, in a partition anywhere, keeps each sector in  *)
(* one buffer, and reads what was last written and saves it in both copies, *)
(* except for the sectors a failed call was for: the cache does not hear of *)
(* those failures (fat.c: read_fat_sector, write_fat_sector; sd.c).         *)
THEOREM FatSafe == FatSpec => [](TypeOK /\ OnceCached /\ Coherent /\ NothingLost)
<1> DEFINE J == IInv /\ kind = "fat"
<1>1. J /\ [Next]_vars => J'
  <2> SUFFICES ASSUME IInv, kind = "fat", [Next]_vars PROVE J'
    OBVIOUS
  <2>1. [Use]_vars  BY DEF Next, NewBlock
  <2>2. IInv'  BY <2>1, UseStep
  <2>3. kind' = kind
    BY <2>1 DEF Use, ReadHit, ReadMiss, WriteFails, ReadFails, Modify, Flush,
                FlushFails, vars
  <2> QED BY <2>2, <2>3
<1>2. kind = "fat" /\ Init => J  BY InitIInv
<1>3. J => TypeOK /\ OnceCached /\ Coherent /\ NothingLost  BY IInvImplies
<1> HIDE DEF J
<1> QED BY <1>1, <1>2, <1>3, PTL DEF FatSpec, Spec

(* So does the cache of any kind of block, new ones included, when the      *)
(* partition starts the card (fscache.c, fs_alloc); with clusters of two or *)
(* more sectors a write that fails costs nothing, and a read that fails the *)
(* block whose buffer it overwrote.                                         *)
THEOREM FileSafe ==
    ASSUME Base = 0
    PROVE  Spec => [](TypeOK /\ OnceCached /\ Coherent /\ NothingLost)
<1>1. IInv /\ [Next]_vars => IInv'
  <2>1. Base = 0  OBVIOUS
  <2> QED BY <2>1, UseStep, NewBlockStep DEF Next
<1> QED BY <1>1, InitIInv, IInvImplies, PTL DEF Spec

(***************************************************************************)
(* The victim                                                               *)
(***************************************************************************)
(* What the search for a victim needs to be right, whatever the addresses.  *)
HandOK == /\ clock_head \in Slots /\ index \in Slots \cup {Size}
          /\ ref \subseteq Slots /\ dirty \subseteq Slots

(* Turning once, the hand comes by every buffer.                            *)
LEMMA HandComesBy ==
    ASSUME HandOK, NEW i \in Slots
    PROVE  \E j \in Slots : At(j) = i
<1>1. PICK n \in Nat : n = Size /\ n > 0
  BY CacheAssumption
<1>2. PICK h \in 0 .. n - 1 : h = clock_head
  BY <1>1 DEF HandOK, Slots
<1>3. i \in 0 .. n - 1
  BY <1>1 DEF Slots
<1>4. CASE i >= h
  <2>1. i - h \in 0 .. n - 1 /\ h + (i - h) = i
    BY <1>2, <1>3, <1>4
  <2>2. i % n = i
    BY <1>1, <1>3, Z3
  <2> QED BY <1>1, <1>2, <2>1, <2>2 DEF At, Slots
<1>5. CASE ~(i >= h)
  <2>1. i - h + n \in 0 .. n - 1 /\ h + (i - h + n) = i + n
    BY <1>1, <1>2, <1>3, <1>5
  <2>2. (i + n) % n = i
    BY <1>1, <1>3, Z3
  <2> QED BY <1>1, <1>2, <2>1, <2>2 DEF At, Slots
<1> QED BY <1>4, <1>5

LEMMA VictimIsFair ==
    ASSUME HandOK
    PROVE  /\ Victim \in Slots /\ Hand \in Slots
           /\ Victim \in dirty => dirty = Slots
           /\ Victim \in ref \ dirty => Slots \subseteq ref \cup dirty
<1>1. \A j \in Int : At(j) \in Slots
  BY CacheAssumption DEF At, Slots, HandOK
<1>2. CleanAt \subseteq Slots /\ UnusedAt \subseteq CleanAt
  BY DEF CleanAt, UnusedAt
<1>3. 0 \in Slots /\ Slots \subseteq Int
  BY CacheAssumption DEF Slots
<1>4. UnusedAt # {} => Passed \in UnusedAt
  BY <1>2, LeastFacts DEF Passed
<1>5. CleanAt # {} => Passed \in CleanAt
  BY <1>2, <1>4, LeastFacts DEF Passed
<1>6. Passed \in Slots /\ Passed + 1 \in Int
  <2>1. CleanAt = {} => Passed = 0
    BY <1>2 DEF Passed
  <2>2. Passed \in Slots
    BY <1>2, <1>3, <1>5, <2>1
  <2> QED BY <1>3, <2>2
<1>7. Victim \in dirty => dirty = Slots
  <2> SUFFICES ASSUME Victim \in dirty, NEW i \in Slots PROVE i \in dirty
    BY DEF HandOK
  <2>1. CleanAt = {}
    BY <1>5 DEF Victim, CleanAt
  <2> QED BY <2>1, HandComesBy DEF CleanAt
<1>8. Victim \in ref \ dirty => Slots \subseteq ref \cup dirty
  <2> SUFFICES ASSUME Victim \in ref, NEW i \in Slots PROVE i \in ref \cup dirty
    OBVIOUS
  <2>1. UnusedAt = {}
    BY <1>4 DEF Victim, UnusedAt
  <2> QED BY <2>1, HandComesBy DEF UnusedAt, CleanAt
<1> QED BY <1>1, <1>3, <1>6, <1>7, <1>8 DEF Victim, Hand

LEMMA HandStep == HandOK /\ [Next]_vars => HandOK'
<1> SUFFICES ASSUME HandOK, [Next]_vars PROVE HandOK'
  OBVIOUS
<1>1. Victim \in Slots /\ Hand \in Slots
  BY VictimIsFair
<1>2. ASSUME NEW s, ReadHit(s) PROVE HandOK'
  <2>1. index' \in Slots
    BY <1>2, LeastFacts DEF ReadHit, Hits
  <2> QED BY <1>2, <2>1 DEF ReadHit, HandOK
<1>3. ASSUME NEW s, ReadMiss(s) \/ WriteFails(s) \/ ReadFails(s) \/ Extend(s) \/ ExtendFails(s)
      PROVE  HandOK'
  BY <1>1, <1>3 DEF ReadMiss, WriteFails, ReadFails, Extend, ExtendFails, Turn, HandOK
<1>4. ASSUME NEW v, Modify(v) PROVE HandOK'
  BY <1>4 DEF Modify, HandOK
<1>5. ASSUME Flush \/ \E i \in Slots : FlushFails(i) PROVE HandOK'
  BY <1>5 DEF Flush, FlushFails, HandOK
<1>6. CASE UNCHANGED vars
  BY <1>6 DEF vars, HandOK
<1> QED BY <1>2, <1>3, <1>4, <1>5, <1>6 DEF Next, Use, NewBlock

(* Of a buffer, only the victim's block changes (fs_victim, fscache.c), so  *)
(* a modified block makes way only if all are modified, and a lately used   *)
(* one only if no clean one has been left alone.                            *)
THEOREM SparesTheUseful == Spec => SparesUseful
<1> DEFINE A == \A i \in Slots : cur'[i] # cur[i] =>
                    /\ i \in dirty => dirty = Slots
                    /\ i \in ref \ dirty => Slots \subseteq ref \cup dirty
<1>1. Init => HandOK
  BY CacheAssumption DEF Init, HandOK, Slots
<1>2. HandOK /\ [Next]_vars => [A]_vars
  <2> SUFFICES ASSUME HandOK, Next, NEW i \in Slots, cur'[i] # cur[i]
               PROVE  /\ i \in dirty => dirty = Slots
                      /\ i \in ref \ dirty => Slots \subseteq ref \cup dirty
    OBVIOUS
  <2>1. ASSUME NEW b, cur' = [cur EXCEPT ![Victim] = b] PROVE i = Victim
    BY <2>1
  <2>2. i = Victim
    <3>1. ASSUME NEW s, ReadHit(s) \/ WriteFails(s) \/ ReadFails(s) \/ ExtendFails(s) PROVE FALSE
      BY <3>1 DEF ReadHit, WriteFails, ReadFails, ExtendFails
    <3>2. ASSUME NEW s, ReadMiss(s) \/ Extend(s) PROVE i = Victim
      BY <2>1, <3>2 DEF ReadMiss, Extend
    <3>3. ASSUME Flush \/ (\E j \in Slots : FlushFails(j)) \/ \E v \in Values : Modify(v) PROVE FALSE
      BY <3>3 DEF Flush, FlushFails, Modify
    <3> QED BY <3>1, <3>2, <3>3 DEF Next, Use, NewBlock
  <2> QED BY <2>2, VictimIsFair
<1>3. Spec => [][A]_vars
  <2> HIDE DEF A
  <2> QED BY <1>1, <1>2, HandStep, PTL DEF Spec
<1> QED BY <1>3, PTL DEF SparesUseful
================================================================================
