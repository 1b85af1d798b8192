----------------------------- MODULE LibraryProof -----------------------------
(***************************************************************************)
(* What depends on no other part of the kernel: the lists of list.h, for    *)
(* any heads and nodes, whose every operation leaves the cells in rings     *)
(* with links that go both ways, and does to the sequences they hold what   *)
(* Lists says; and the time of day, for every count.                        *)
(***************************************************************************)
EXTENDS ListHead, Clock, TLAPS, FiniteSetTheorems, WellFoundedInduction

(***************************************************************************)
(* Lists                                                                    *)
(***************************************************************************)
Memories == [prev : [Cells -> Pointers], next : [Cells -> Pointers]]

(* __list_add between two neighbours, of a cell that is on no list.         *)
LEMMA AddKeepsRings ==
    ASSUME NEW m \in Memories, Rings(m), NEW e \in Nodes, ~IsLinked(m, e),
           NEW p \in Cells, NEW n \in Cells,
           p # e, n # e, m.next[p] = n, m.prev[n] = p
    PROVE  Add(m, e, p, n) \in Memories /\ Rings(Add(m, e, p, n))
<1> DEFINE d == Add(m, e, p, n)
<1>1. /\ d.prev = [m.prev EXCEPT ![e] = p, ![n] = e]
      /\ d.next = [m.next EXCEPT ![e] = n, ![p] = e]
  BY DEF Add
<1>2. /\ m.prev \in [Cells -> Pointers] /\ m.next \in [Cells -> Pointers] /\ e \in Cells
  BY DEF Memories, Cells
<1>3. \A x \in Cells : /\ d.prev[x] = IF x = n THEN e ELSE IF x = e THEN p ELSE m.prev[x]
                       /\ d.next[x] = IF x = p THEN e ELSE IF x = e THEN n ELSE m.next[x]
  BY <1>1, <1>2
<1>4. d \in Memories  BY <1>2 DEF Add, Memories, Pointers
<1> HIDE DEF d
<1>5. Poison \notin Cells /\ \A h \in Heads : h \in Cells /\ h # e
  BY CellAssumption DEF Cells
<1>6. Rings(d)
  <2>1. \A h \in Heads : d.prev[h] # Poison
    BY <1>2, <1>3, <1>5 DEF Rings
  <2>2. \A x \in Cells : d.prev[x] = Poison <=> d.next[x] = Poison
    BY <1>2, <1>3, <1>5 DEF Rings
  <2>3. ASSUME NEW x \in Cells, d.prev[x] # Poison
        PROVE  d.next[d.prev[x]] = x /\ d.prev[d.next[x]] = x
    <3>1. CASE x = e  BY <1>3, <1>2, <3>1
    <3>2. CASE x # e
      <4>1. m.prev[x] # Poison
        BY <1>2, <1>3, <1>5, <2>3, <3>2
      <4>2. m.prev[x] \in Cells /\ m.next[x] \in Cells
        BY <1>2, <4>1 DEF Rings, Pointers
      <4>3. m.next[m.prev[x]] = x /\ m.prev[m.next[x]] = x  BY <4>1 DEF Rings
      <4>4. m.next[x] # e
        BY <1>5, <3>2, <4>3 DEF IsLinked, IsPoisoned, IsAlone
      <4>5. m.prev[x] # e
        <5> SUFFICES ASSUME m.prev[x] = e PROVE FALSE  OBVIOUS
        <5>1. m.next[e] = x /\ m.next[e] # Poison  BY <1>5, <4>3
        <5>2. m.prev[e] # Poison  BY <1>2, <5>1 DEF Rings
        <5>3. m.prev[e] = e  BY <5>2 DEF IsLinked, IsPoisoned, IsAlone
        <5>4. m.next[e] = e  BY <1>2, <5>2, <5>3 DEF Rings
        <5> QED BY <3>2, <5>1, <5>4
      <4> QED BY <1>2, <1>3, <3>2, <4>2, <4>3, <4>4, <4>5
    <3> QED BY <3>1, <3>2
  <2> QED BY <2>1, <2>2, <2>3 DEF Rings
<1> QED BY <1>4, <1>6 DEF d

(* __list_del joins the neighbours; what the caller then writes into the    *)
(* cell itself keeps the rings.                                             *)
LEMMA DelKeepsRings ==
    ASSUME NEW m \in Memories, Rings(m), NEW e \in Nodes, ~IsPoisoned(m, e),
           NEW v \in {e, Poison}
    PROVE  /\ Set(Unlink(m, e), e, v, v) \in Memories
           /\ Rings(Set(Unlink(m, e), e, v, v))
           /\ \A x \in Cells \ {e} : /\ Unlink(m, e).prev[x] = Set(Unlink(m, e), e, v, v).prev[x]
                                     /\ Unlink(m, e).next[x] = Set(Unlink(m, e), e, v, v).next[x]
           /\ Unlink(m, e) \in Memories
<1> DEFINE u == Unlink(m, e)
           d == Set(u, e, v, v)
           p == m.prev[e]
           n == m.next[e]
<1>1. /\ m.prev \in [Cells -> Pointers] /\ m.next \in [Cells -> Pointers]
      /\ e \in Cells /\ v \in Pointers
  BY DEF Memories, Cells, Pointers
<1>2. p \in Cells /\ n \in Cells /\ m.next[p] = e /\ m.prev[n] = e
  BY <1>1 DEF Rings, IsPoisoned, Pointers
<1>3. /\ u.prev = [m.prev EXCEPT ![n] = p] /\ u.next = [m.next EXCEPT ![p] = n]
      /\ d.prev = [u.prev EXCEPT ![e] = v] /\ d.next = [u.next EXCEPT ![e] = v]
  BY DEF Unlink, Del, Set
<1>4. u \in Memories /\ d \in Memories
  BY <1>1, <1>2 DEF Unlink, Del, Set, Memories, Pointers
<1> HIDE DEF u, d, p, n
<1>5. \A x \in Cells :
        /\ d.prev[x] = IF x = e THEN v ELSE IF x = n THEN p ELSE m.prev[x]
        /\ d.next[x] = IF x = e THEN v ELSE IF x = p THEN n ELSE m.next[x]
        /\ x # e => d.prev[x] = u.prev[x] /\ d.next[x] = u.next[x]
  BY <1>1, <1>2, <1>3
<1>6. Poison \notin Cells /\ \A h \in Heads : h \in Cells /\ h # e
  BY CellAssumption DEF Cells
<1>7. Rings(d)
  <2>1. \A h \in Heads : d.prev[h] # Poison
    BY <1>1, <1>2, <1>5, <1>6 DEF Rings
  <2>2. \A x \in Cells : d.prev[x] = Poison <=> d.next[x] = Poison
    BY <1>1, <1>2, <1>5, <1>6 DEF Rings
  <2>3. ASSUME NEW x \in Cells, d.prev[x] # Poison
        PROVE  d.next[d.prev[x]] = x /\ d.prev[d.next[x]] = x
    <3>1. CASE x = e  BY <1>1, <1>5, <2>3, <3>1
    <3>2. CASE x # e
      <4>1. m.prev[x] # Poison
        BY <1>1, <1>2, <1>5, <1>6, <2>3, <3>2
      <4>2. m.prev[x] \in Cells /\ m.next[x] \in Cells
        BY <1>1, <4>1 DEF Rings, Pointers
      <4>3. m.next[m.prev[x]] = x /\ m.prev[m.next[x]] = x  BY <4>1 DEF Rings
      <4>4. x = n => p # e  BY <1>2, <3>2 DEF p, n
      <4>5. x = p => n # e  BY <1>2, <3>2 DEF p, n
      <4>6. x # n => m.prev[x] # e  BY <4>3 DEF n
      <4>7. x # p => m.next[x] # e  BY <4>3 DEF p
      <4>8. x # n => m.prev[x] # p  BY <1>2, <3>2, <4>3
      <4>9. x # p => m.next[x] # n  BY <1>2, <3>2, <4>3
      <4> QED BY <1>1, <1>2, <1>5, <3>2, <4>2, <4>3, <4>4, <4>5, <4>6, <4>7, <4>8, <4>9
    <3> QED BY <3>1, <3>2
  <2> QED BY <2>1, <2>2, <2>3 DEF Rings
<1> QED BY <1>4, <1>5, <1>7 DEF u, d

(* list_move is list_del_init and list_add: what __list_del left in the     *)
(* cell is overwritten.                                                     *)
LEMMA MoveKeepsRings ==
    ASSUME NEW m \in Memories, Rings(m), NEW e \in Nodes, ~IsPoisoned(m, e), NEW h \in Heads
    PROVE  /\ AddFront(Unlink(m, e), e, h) \in Memories /\ Rings(AddFront(Unlink(m, e), e, h))
           /\ AddBack(Unlink(m, e), e, h) \in Memories /\ Rings(AddBack(Unlink(m, e), e, h))
<1> DEFINE u == Unlink(m, e)
           d == Set(u, e, e, e)
<1>1. /\ d \in Memories /\ Rings(d) /\ u \in Memories
      /\ \A x \in Cells \ {e} : u.prev[x] = d.prev[x] /\ u.next[x] = d.next[x]
  BY DelKeepsRings
<1>2. d.prev[e] = e /\ e \in Cells /\ h \in Cells /\ h # e
  BY <1>1, CellAssumption DEF Set, Memories, Cells
<1>3. ASSUME NEW p \in Cells, NEW n \in Cells, p # e, n # e, d.next[p] = n, d.prev[n] = p
      PROVE  Add(u, e, p, n) \in Memories /\ Rings(Add(u, e, p, n))
  <2>1. ~IsLinked(d, e)  BY <1>2 DEF IsLinked, IsAlone
  <2>2. Add(d, e, p, n) \in Memories /\ Rings(Add(d, e, p, n))
    BY <1>1, <1>3, <2>1, AddKeepsRings
  <2>3. Add(d, e, p, n) = Add(u, e, p, n)
    <3>1. [d.prev EXCEPT ![e] = p] = [u.prev EXCEPT ![e] = p]
      BY DEF Set
    <3>2. [d.next EXCEPT ![e] = n] = [u.next EXCEPT ![e] = n]
      BY DEF Set
    <3> QED BY <3>1, <3>2 DEF Add
  <2> QED BY <2>2, <2>3
<1> HIDE DEF u, d
<1>4. d.prev[h] \in Cells /\ d.next[h] \in Cells /\ d.next[d.prev[h]] = h /\ d.prev[d.next[h]] = h
  BY <1>1, <1>2 DEF Rings, Memories, Pointers
<1>5. d.prev[h] # e /\ d.next[h] # e
  BY <1>1, <1>2, <1>4, CellAssumption DEF Rings, Cells
<1>6. Add(u, e, h, u.next[h]) \in Memories /\ Rings(Add(u, e, h, u.next[h]))
  BY <1>1, <1>2, <1>3, <1>4, <1>5
<1>7. Add(u, e, u.prev[h], h) \in Memories /\ Rings(Add(u, e, u.prev[h], h))
  BY <1>1, <1>2, <1>3, <1>4, <1>5
<1> QED BY <1>6, <1>7 DEF AddFront, AddBack, u

(* Every operation of list.h keeps the rings.                               *)
LEMMA StepKeepsRings ==
    ASSUME link \in Memories, Rings(link), Next PROVE link' \in Memories /\ Rings(link')
<1>2. ASSUME NEW e \in Nodes, NEW h \in Heads, ListAdd(e, h) \/ ListAddTail(e, h)
      PROVE  link' \in Memories /\ Rings(link')
  <2>1. /\ e \in Cells /\ h \in Cells /\ h # e /\ Poison \notin Cells
        /\ ~IsLinked(link, e)
    BY <1>2, CellAssumption DEF Cells, ListAdd, ListAddTail
  <2>2. /\ link.prev[h] \in Cells /\ link.next[h] \in Cells
        /\ link.next[link.prev[h]] = h /\ link.prev[link.next[h]] = h
    BY <2>1 DEF Rings, Memories, Pointers
  <2>3. link.prev[h] # e /\ link.next[h] # e
    <3>1. link.next[h] # e  BY <2>1, <2>2 DEF IsLinked, IsPoisoned, IsAlone
    <3>2. link.prev[h] # e
      <4> SUFFICES ASSUME link.prev[h] = e PROVE FALSE  OBVIOUS
      <4>1. link.next[e] = h /\ link.next[e] # Poison  BY <2>1, <2>2
      <4>2. link.prev[e] # Poison  BY <2>1, <4>1 DEF Rings
      <4>3. link.prev[e] = e  BY <2>1, <4>2 DEF IsLinked, IsPoisoned, IsAlone
      <4>4. link.next[e] = e  BY <2>1, <4>2, <4>3 DEF Rings
      <4> QED BY <2>1, <4>1, <4>4
    <3> QED BY <3>1, <3>2
  <2> QED BY <1>2, <2>1, <2>2, <2>3, AddKeepsRings
          DEF ListAdd, ListAddTail, AddFront, AddBack
<1>3. ASSUME NEW e \in Nodes, ListDel(e) \/ ListDelInit(e)
      PROVE  link' \in Memories /\ Rings(link')
  BY <1>3, DelKeepsRings DEF ListDel, ListDelInit, IsLinked
<1>4. ASSUME NEW e \in Nodes, NEW h \in Heads, ListMove(e, h) \/ ListMoveTail(e, h)
      PROVE  link' \in Memories /\ Rings(link')
  BY <1>4, MoveKeepsRings DEF ListMove, ListMoveTail, IsLinked
<1> QED BY <1>2, <1>3, <1>4 DEF Next

(* Types, and links that go both ways (Mutual), after any sequence of the   *)
(* operations of list.h: none leaves a list leading into a deleted cell.    *)
THEOREM MutualHolds == Spec => [](TypeOK /\ Mutual)
<1>1. Init => TypeOK /\ Mutual
  <2> SUFFICES ASSUME Init PROVE TypeOK /\ Mutual  OBVIOUS
  <2>1. link.prev = [e \in Cells |-> e] /\ link.next = [e \in Cells |-> e] /\ TypeOK
    BY DEF Init, TypeOK, Pointers
  <2> QED BY <2>1, CellAssumption DEF Mutual, Rings, Cells
<1>2. TypeOK /\ Mutual /\ [Next]_link => (TypeOK /\ Mutual)'
  BY StepKeepsRings DEF TypeOK, Mutual, Rings, Memories
<1> QED BY <1>1, <1>2, PTL DEF Spec

(***************************************************************************)
(* The lists as sequences                                                   *)
(***************************************************************************)
(* The cell i links from the head h, of a ring that holds q.                *)
Cell(q, h, i) == IF i \in 1 .. Len(q) THEN q[i] ELSE h

OnRing(m, h, q) == \A i \in 0 .. Len(q) : /\ m.next[Cell(q, h, i)] = Cell(q, h, i + 1)
                                          /\ m.prev[Cell(q, h, i + 1)] = Cell(q, h, i)

(* No node is in two places.                                                *)
Disjoint(Q) == \A g, h \in Heads : \A i \in 1 .. Len(Q[g]), j \in 1 .. Len(Q[h]) :
                   Q[g][i] = Q[h][j] => g = h /\ i = j
IsOn(Q, e) == \E h \in Heads : \E i \in 1 .. Len(Q[h]) : Q[h][i] = e

Holds(m, Q) == /\ Q \in [Heads -> Seq(Nodes)] /\ Disjoint(Q)
               /\ \A h \in Heads : OnRing(m, h, Q[h])
(* A cell that is on no list is alone or poisoned.                          *)
AreOff(m, Q) == \A e \in Nodes : ~IsOn(Q, e) => m.prev[e] \in {Poison, e}

(* A place on a ring is a node of the list, or its head.                    *)
LEMMA CellIs ==
    ASSUME NEW Q \in [Heads -> Seq(Nodes)], NEW h \in Heads, NEW i \in Int
    PROVE  /\ Len(Q[h]) \in Nat /\ Cell(Q[h], h, i) \in Cells
           /\ i \in 1 .. Len(Q[h]) => Cell(Q[h], h, i) = Q[h][i] /\ Q[h][i] \in Nodes
           /\ i \notin 1 .. Len(Q[h]) => Cell(Q[h], h, i) = h
<1>1. Q[h] \in Seq(Nodes)
  OBVIOUS
<1>2. Len(Q[h]) \in Nat /\ \A k \in 1 .. Len(Q[h]) : Q[h][k] \in Nodes
  BY <1>1
<1> QED BY <1>2 DEF Cell, Cells

(* Places on the rings are different cells, but for the head at both ends.  *)
LEMMA CellsDiffer ==
    ASSUME NEW Q \in [Heads -> Seq(Nodes)], Disjoint(Q), NEW g \in Heads, NEW h \in Heads,
           NEW i \in Int, NEW j \in Int, Cell(Q[g], g, i) = Cell(Q[h], h, j)
    PROVE  /\ g = h
           /\ i \in 1 .. Len(Q[g]) \/ j \in 1 .. Len(Q[h]) => i = j
<1>1. /\ i \in 1 .. Len(Q[g]) => Cell(Q[g], g, i) = Q[g][i] /\ Q[g][i] \in Nodes
      /\ i \notin 1 .. Len(Q[g]) => Cell(Q[g], g, i) = g
      /\ j \in 1 .. Len(Q[h]) => Cell(Q[h], h, j) = Q[h][j] /\ Q[h][j] \in Nodes
      /\ j \notin 1 .. Len(Q[h]) => Cell(Q[h], h, j) = h
  BY CellIs
<1>2. CASE i \in 1 .. Len(Q[g]) /\ j \in 1 .. Len(Q[h])
  BY <1>1, <1>2 DEF Disjoint
<1>3. CASE i \notin 1 .. Len(Q[g]) \/ j \notin 1 .. Len(Q[h])
  BY <1>1, <1>3, CellAssumption
<1> QED BY <1>2, <1>3

(* What is on no list is on no ring.                                        *)
LEMMA OffIsApart ==
    ASSUME NEW Q \in [Heads -> Seq(Nodes)], NEW e \in Nodes, ~IsOn(Q, e),
           NEW h \in Heads, NEW i \in Int
    PROVE  Cell(Q[h], h, i) # e
  BY CellIs, CellAssumption DEF IsOn

(* The cells that are linked are those on a list.                           *)
LEMMA LinkedIsOn ==
    ASSUME NEW m \in Memories, NEW Q, Holds(m, Q), AreOff(m, Q), NEW e \in Nodes
    PROVE  IsOn(Q, e) <=> IsLinked(m, e)
<1>1. ASSUME IsOn(Q, e) PROVE IsLinked(m, e)
  <2>0. PICK h \in Heads : \E i \in 1 .. Len(Q[h]) : Q[h][i] = e
    BY <1>1 DEF IsOn
  <2>1. PICK i \in 1 .. Len(Q[h]) : Q[h][i] = e
    BY <2>0
  <2>2. Q \in [Heads -> Seq(Nodes)] /\ i \in Int /\ i - 1 \in Int /\ Len(Q[h]) \in Nat
    BY CellIs DEF Holds
  <2>3. i - 1 \in 0 .. Len(Q[h]) /\ (i - 1) + 1 = i /\ i - 1 # i
    BY <2>2
  <2>4. m.prev[e] = Cell(Q[h], h, i - 1) /\ e = Cell(Q[h], h, i)
    <3>1. e = Cell(Q[h], h, i)
      BY <2>1, <2>2, CellIs
    <3>2. m.prev[Cell(Q[h], h, (i - 1) + 1)] = Cell(Q[h], h, i - 1)
      BY <2>3 DEF Holds, OnRing
    <3> QED BY <2>3, <3>1, <3>2
  <2>5. m.prev[e] \in Cells
    BY <2>2, <2>4, CellIs
  <2>6. m.prev[e] # e
    BY <2>2, <2>3, <2>4, CellsDiffer DEF Holds
  <2> QED BY <2>5, <2>6, CellAssumption DEF IsLinked, IsPoisoned, IsAlone
<1>2. ASSUME ~IsOn(Q, e) PROVE ~IsLinked(m, e)
  BY <1>2 DEF AreOff, IsLinked, IsPoisoned, IsAlone
<1> QED BY <1>1, <1>2

(***************************************************************************)
(* What the helpers of list.h do to the sequences                           *)
(***************************************************************************)
(* r is q with e put in behind the first k nodes, or taken out from there.  *)
Longer(q, r, k, e) ==
    /\ Len(r) = Len(q) + 1 /\ r[k + 1] = e
    /\ \A i \in 1 .. k : r[i] = q[i]
    /\ \A i \in k + 1 .. Len(q) : r[i + 1] = q[i]

(* The cells of the longer ring.                                            *)
LEMMA LongerCells ==
    ASSUME NEW q \in Seq(Nodes), NEW r \in Seq(Nodes), NEW k \in 0 .. Len(q),
           NEW e \in Nodes, NEW h \in Heads, Longer(q, r, k, e)
    PROVE  /\ \A i \in 0 .. k : Cell(r, h, i) = Cell(q, h, i)
           /\ Cell(r, h, k + 1) = e
           /\ \A i \in k + 1 .. Len(q) + 1 : Cell(r, h, i + 1) = Cell(q, h, i)
<1>1. Len(q) \in Nat /\ Len(r) \in Nat /\ Len(r) = Len(q) + 1
  BY DEF Longer
<1>2. ASSUME NEW i \in 0 .. k PROVE Cell(r, h, i) = Cell(q, h, i)
  <2>1. i # 0 => i \in 1 .. k /\ i \in 1 .. Len(q) /\ i \in 1 .. Len(r)
    BY <1>1
  <2>2. i = 0 => i \notin 1 .. Len(q) /\ i \notin 1 .. Len(r)
    BY <1>1
  <2> QED BY <2>1, <2>2 DEF Cell, Longer
<1>3. Cell(r, h, k + 1) = e
  BY <1>1 DEF Cell, Longer
<1>4. ASSUME NEW i \in k + 1 .. Len(q) + 1 PROVE Cell(r, h, i + 1) = Cell(q, h, i)
  <2>1. CASE i \in k + 1 .. Len(q)
    <3>1. i \in 1 .. Len(q) /\ i + 1 \in 1 .. Len(r)
      BY <1>1, <2>1
    <3> QED BY <2>1, <3>1 DEF Cell, Longer
  <2>2. CASE i \notin k + 1 .. Len(q)
    <3>1. i \notin 1 .. Len(q) /\ i + 1 \notin 1 .. Len(r)
      BY <1>1, <2>2
    <3> QED BY <3>1 DEF Cell
  <2> QED BY <2>1, <2>2
<1> QED BY <1>2, <1>3, <1>4

(* The lists after a cell was put in behind the first k nodes of list h.    *)
LEMMA LongerLists ==
    ASSUME NEW Q \in [Heads -> Seq(Nodes)], Disjoint(Q), NEW e \in Nodes, ~IsOn(Q, e),
           NEW h \in Heads, NEW k \in 0 .. Len(Q[h]), NEW r \in Seq(Nodes),
           Longer(Q[h], r, k, e)
    PROVE  /\ [Q EXCEPT ![h] = r] \in [Heads -> Seq(Nodes)]
           /\ Disjoint([Q EXCEPT ![h] = r])
           /\ \A x \in Nodes : IsOn([Q EXCEPT ![h] = r], x) <=> IsOn(Q, x) \/ x = e
<1> DEFINE R == [Q EXCEPT ![h] = r]
           q == Q[h]
<1>0. q \in Seq(Nodes) /\ Len(q) \in Nat /\ Len(r) = Len(q) + 1 /\ k \in 0 .. Len(q)
  BY DEF Longer
<1>1. R \in [Heads -> Seq(Nodes)] /\ R[h] = r /\ \A g \in Heads : g # h => R[g] = Q[g]
  OBVIOUS
<1>2. ASSUME NEW i \in 1 .. Len(r)
      PROVE  \/ i = k + 1 /\ r[i] = e
             \/ i <= k /\ i \in 1 .. Len(q) /\ r[i] = q[i]
             \/ i > k + 1 /\ i - 1 \in 1 .. Len(q) /\ r[i] = q[i - 1]
  <2>1. CASE i = k + 1
    BY <2>1 DEF Longer
  <2>2. CASE i <= k
    BY <1>0, <2>2 DEF Longer
  <2>3. CASE i > k + 1
    <3>1. i - 1 \in k + 1 .. Len(q) /\ (i - 1) + 1 = i /\ i - 1 \in 1 .. Len(q)
      BY <1>0, <2>3
    <3>2. r[(i - 1) + 1] = q[i - 1]
      BY <3>1 DEF Longer
    <3> QED BY <2>3, <3>1, <3>2
  <2> QED BY <1>0, <2>1, <2>2, <2>3
<1>3. \A g \in Heads : \A i \in 1 .. Len(Q[g]) : Q[g][i] # e
  BY DEF IsOn
<1>4. ASSUME NEW g \in Heads, g # h, NEW i \in 1 .. Len(Q[g]), NEW j \in 1 .. Len(r)
      PROVE  Q[g][i] # r[j]
  <2>1. Q[g][i] # e /\ \A a \in 1 .. Len(q) : Q[g][i] # q[a]
    BY <1>3, <1>4 DEF Disjoint
  <2>2. r[j] = e \/ \E a \in 1 .. Len(q) : r[j] = q[a]
    BY <1>2
  <2> QED BY <2>1, <2>2
<1>5. ASSUME NEW i \in 1 .. Len(r), NEW j \in 1 .. Len(r), r[i] = r[j] PROVE i = j
  <2>1. \A a, b \in 1 .. Len(q) : q[a] = q[b] => a = b
    BY DEF Disjoint
  <2>2. \A a \in 1 .. Len(q) : q[a] # e
    BY <1>3
  <2>3. i \in Int /\ j \in Int /\ k \in Int
    BY <1>0
  <2> HIDE DEF q
  <2>4. \/ i = k + 1 /\ r[i] = e
        \/ i <= k /\ i \in 1 .. Len(q) /\ r[i] = q[i]
        \/ i > k + 1 /\ i - 1 \in 1 .. Len(q) /\ r[i] = q[i - 1]
    BY <1>2
  <2>5. \/ j = k + 1 /\ r[j] = e
        \/ j <= k /\ j \in 1 .. Len(q) /\ r[j] = q[j]
        \/ j > k + 1 /\ j - 1 \in 1 .. Len(q) /\ r[j] = q[j - 1]
    BY <1>2
  <2>6. CASE i = k + 1
    BY <1>5, <2>2, <2>3, <2>4, <2>5, <2>6
  <2>7. CASE i <= k
    <3>1. i \in 1 .. Len(q) /\ r[i] = q[i]
      BY <2>3, <2>4, <2>7
    <3>2. CASE j <= k
      BY <1>5, <2>1, <2>3, <2>5, <3>1, <3>2
    <3>3. CASE j > k
      <4>1. j = k + 1 \/ j - 1 = i
        BY <1>5, <2>1, <2>3, <2>5, <3>1, <3>3
      <4> QED BY <1>5, <2>2, <2>3, <2>5, <2>7, <3>1, <3>3, <4>1
    <3> QED BY <2>3, <3>2, <3>3
  <2>8. CASE i > k + 1
    <3>1. i - 1 \in 1 .. Len(q) /\ r[i] = q[i - 1]
      BY <2>3, <2>4, <2>8
    <3>2. CASE j = k + 1
      BY <1>5, <2>2, <2>3, <2>5, <3>1, <3>2
    <3>3. CASE j <= k
      <4>1. j \in 1 .. Len(q) /\ r[j] = q[j]
        BY <2>3, <2>5, <3>3
      <4>2. i - 1 = j
        BY <1>5, <2>1, <3>1, <4>1
      <4> QED BY <2>3, <2>8, <3>3, <4>2
    <3>4. CASE j > k + 1
      <4>1. j - 1 \in 1 .. Len(q) /\ r[j] = q[j - 1]
        BY <2>3, <2>5, <3>4
      <4>2. i - 1 = j - 1
        BY <1>5, <2>1, <3>1, <4>1
      <4> QED BY <2>3, <4>2
    <3> QED BY <2>3, <3>2, <3>3, <3>4
  <2> QED BY <2>3, <2>6, <2>7, <2>8
<1> HIDE DEF R
<1>6. Disjoint(R)
  <2> SUFFICES ASSUME NEW f \in Heads, NEW g \in Heads,
                      NEW i \in 1 .. Len(R[f]), NEW j \in 1 .. Len(R[g]), R[f][i] = R[g][j]
               PROVE  f = g /\ i = j
    BY DEF Disjoint
  <2>1. CASE f = h /\ g = h
    BY <1>1, <1>5, <2>1
  <2>2. CASE f # h /\ g = h
    BY <1>1, <1>4, <2>2
  <2>3. CASE f = h /\ g # h
    BY <1>1, <1>4, <2>3
  <2>4. CASE f # h /\ g # h
    BY <1>1, <2>4 DEF Disjoint
  <2> QED BY <2>1, <2>2, <2>3, <2>4
<1>7. ASSUME NEW x \in Nodes PROVE IsOn(R, x) <=> IsOn(Q, x) \/ x = e
  <2>1. ASSUME IsOn(R, x) PROVE IsOn(Q, x) \/ x = e
    <3>1. PICK g \in Heads : \E i \in 1 .. Len(R[g]) : R[g][i] = x
      BY <2>1 DEF IsOn
    <3>2. PICK i \in 1 .. Len(R[g]) : R[g][i] = x
      BY <3>1
    <3> QED BY <1>1, <1>2, <3>2 DEF IsOn
  <2>2. ASSUME IsOn(Q, x) PROVE IsOn(R, x)
    <3>1. PICK g \in Heads : \E i \in 1 .. Len(Q[g]) : Q[g][i] = x
      BY <2>2 DEF IsOn
    <3>2. PICK i \in 1 .. Len(Q[g]) : Q[g][i] = x
      BY <3>1
    <3>3. CASE g # h
      BY <1>1, <3>2, <3>3 DEF IsOn
    <3>4. CASE g = h
      <4>1. i \in 1 .. Len(r) /\ i + 1 \in 1 .. Len(r) /\ (r[i] = x \/ r[i + 1] = x)
        BY <1>0, <3>2, <3>4 DEF Longer
      <4> QED BY <1>1, <4>1 DEF IsOn
    <3> QED BY <3>3, <3>4
  <2>3. IsOn(R, e)
    <3>1. k + 1 \in 1 .. Len(r) /\ r[k + 1] = e
      BY <1>0 DEF Longer
    <3> QED BY <1>1, <3>1 DEF IsOn
  <2> QED BY <2>1, <2>2, <2>3
<1> QED BY <1>1, <1>6, <1>7 DEF R

(* The lists after the node behind the first k of list h was taken off.     *)
LEMMA ShorterLists ==
    ASSUME NEW Q \in [Heads -> Seq(Nodes)], Disjoint(Q), NEW e \in Nodes,
           NEW h \in Heads, NEW r \in Seq(Nodes), NEW k \in 0 .. Len(r),
           Longer(r, Q[h], k, e)
    PROVE  /\ [Q EXCEPT ![h] = r] \in [Heads -> Seq(Nodes)]
           /\ Disjoint([Q EXCEPT ![h] = r])
           /\ \A x \in Nodes : IsOn([Q EXCEPT ![h] = r], x) <=> IsOn(Q, x) /\ x # e
<1> DEFINE R == [Q EXCEPT ![h] = r]
           q == Q[h]
           From(i) == IF i <= k THEN i ELSE i + 1
<1>0. q \in Seq(Nodes) /\ Len(r) \in Nat /\ Len(q) = Len(r) + 1 /\ k \in 0 .. Len(r)
  BY DEF Longer
<1>1. R \in [Heads -> Seq(Nodes)] /\ R[h] = r /\ \A g \in Heads : g # h => R[g] = Q[g]
  OBVIOUS
<1>2. /\ k + 1 \in 1 .. Len(q) /\ q[k + 1] = e
      /\ \A i \in 1 .. Len(r) : /\ From(i) \in 1 .. Len(q) /\ From(i) # k + 1
                                /\ r[i] = q[From(i)]
      /\ \A i, j \in 1 .. Len(r) : From(i) = From(j) => i = j
  BY <1>0 DEF Longer
<1>3. \A g \in Heads : \A i \in 1 .. Len(Q[g]) : Q[g][i] = e => g = h /\ i = k + 1
  BY <1>2 DEF Disjoint
<1> HIDE DEF R, From
<1>4. \A i \in 1 .. Len(r) : r[i] # e
  BY <1>2, <1>3
<1>5. Disjoint(R)
  <2> SUFFICES ASSUME NEW f \in Heads, NEW g \in Heads,
                      NEW i \in 1 .. Len(R[f]), NEW j \in 1 .. Len(R[g]), R[f][i] = R[g][j]
               PROVE  f = g /\ i = j
    BY DEF Disjoint
  <2>1. CASE f = h /\ g = h
    <3>1. q[From(i)] = q[From(j)] /\ From(i) \in 1 .. Len(q) /\ From(j) \in 1 .. Len(q)
      BY <1>1, <1>2, <2>1
    <3>2. From(i) = From(j)
      BY <3>1 DEF Disjoint
    <3> QED BY <1>1, <1>2, <2>1, <3>2
  <2>2. CASE f # h /\ g = h
    <3>1. Q[f][i] = q[From(j)] /\ From(j) \in 1 .. Len(q) /\ i \in 1 .. Len(Q[f])
      BY <1>1, <1>2, <2>2
    <3> QED BY <2>2, <3>1 DEF Disjoint
  <2>3. CASE f = h /\ g # h
    <3>1. Q[g][j] = q[From(i)] /\ From(i) \in 1 .. Len(q) /\ j \in 1 .. Len(Q[g])
      BY <1>1, <1>2, <2>3
    <3> QED BY <2>3, <3>1 DEF Disjoint
  <2>4. CASE f # h /\ g # h
    BY <1>1, <2>4 DEF Disjoint
  <2> QED BY <2>1, <2>2, <2>3, <2>4
<1>6. ASSUME NEW x \in Nodes PROVE IsOn(R, x) <=> IsOn(Q, x) /\ x # e
  <2>1. ASSUME IsOn(R, x) PROVE IsOn(Q, x) /\ x # e
    <3>1. PICK g \in Heads : \E i \in 1 .. Len(R[g]) : R[g][i] = x
      BY <2>1 DEF IsOn
    <3>2. PICK i \in 1 .. Len(R[g]) : R[g][i] = x
      BY <3>1
    <3>3. CASE g = h
      BY <1>1, <1>2, <1>4, <3>2, <3>3 DEF IsOn
    <3>4. CASE g # h
      BY <1>1, <1>3, <3>2, <3>4 DEF IsOn
    <3> QED BY <3>3, <3>4
  <2>2. ASSUME IsOn(Q, x), x # e PROVE IsOn(R, x)
    <3>1. PICK g \in Heads : \E i \in 1 .. Len(Q[g]) : Q[g][i] = x
      BY <2>2 DEF IsOn
    <3>2. PICK i \in 1 .. Len(Q[g]) : Q[g][i] = x
      BY <3>1
    <3>3. CASE g # h
      BY <1>1, <3>2, <3>3 DEF IsOn
    <3>4. CASE g = h
      <4>1. i # k + 1
        BY <1>2, <2>2, <3>2, <3>4
      <4>2. CASE i <= k
        <5>1. i \in 1 .. Len(r) /\ r[i] = x
          BY <1>0, <3>2, <3>4, <4>2 DEF Longer
        <5> QED BY <1>1, <5>1 DEF IsOn
      <4>3. CASE i > k + 1
        <5>1. i - 1 \in k + 1 .. Len(r) /\ (i - 1) + 1 = i /\ i - 1 \in 1 .. Len(r)
          BY <1>0, <3>2, <3>4, <4>3
        <5>2. r[i - 1] = x
          BY <3>2, <3>4, <5>1 DEF Longer
        <5> QED BY <1>1, <5>1, <5>2 DEF IsOn
      <4> QED BY <1>0, <4>1, <4>2, <4>3
    <3> QED BY <3>3, <3>4
  <2> QED BY <2>1, <2>2
<1> QED BY <1>1, <1>5, <1>6 DEF R

(* R is Q with e put into list h behind the first k nodes.                  *)
PutIn(Q, R, h, k, e) == /\ Q \in [Heads -> Seq(Nodes)] /\ h \in Heads
                        /\ k \in 0 .. Len(Q[h])
                        /\ R[h] \in Seq(Nodes) /\ R = [Q EXCEPT ![h] = R[h]]
                        /\ Longer(Q[h], R[h], k, e)

(* __list_add between two cells that are next to each other on a ring.      *)
LEMMA AddToRing ==
    ASSUME NEW m \in Memories, NEW Q, Holds(m, Q), NEW e \in Nodes, ~IsOn(Q, e),
           NEW R, NEW h, NEW k, PutIn(Q, R, h, k, e),
           NEW p \in Cells, p = Cell(Q[h], h, k), NEW n \in Cells, m.next[p] = n
    PROVE  /\ Holds(Add(m, e, p, n), R)
           /\ \A x \in Nodes : ~IsOn(Q, x) /\ x # e => Add(m, e, p, n).prev[x] = m.prev[x]
<1> DEFINE q == Q[h]
           r == R[h]
           C(i) == Cell(q, h, i)
           D(i) == Cell(r, h, i)
           d == Add(m, e, p, n)
<1>12. /\ h \in Heads /\ k \in 0 .. Len(Q[h]) /\ r \in Seq(Nodes) /\ Longer(Q[h], r, k, e)
       /\ R = [Q EXCEPT ![h] = r]
  BY DEF PutIn
<1> HIDE DEF r
<1>0. /\ Q \in [Heads -> Seq(Nodes)] /\ Disjoint(Q) /\ q \in Seq(Nodes) /\ Len(q) \in Nat
      /\ Len(r) = Len(q) + 1 /\ e \in Cells
  BY <1>12 DEF Holds, Longer, Cells
<1>11. p = C(k) /\ n = C(k + 1)
  <2>1. m.next[C(k)] = C(k + 1)
    BY <1>12 DEF Holds, OnRing
  <2> HIDE DEF C
  <2>2. p = C(k)
    BY DEF C
  <2> QED BY <2>1, <2>2
<1>1. /\ p \in Cells /\ n \in Cells /\ p # e /\ n # e
      /\ \A i \in Int : C(i) \in Cells /\ C(i) # e
  BY <1>11, <1>12, <1>0, CellIs, OffIsApart
<1>2. \A i, j \in Int : C(i) = C(j) /\ (i \in 1 .. Len(q) \/ j \in 1 .. Len(q)) => i = j
  BY <1>0, <1>12, CellsDiffer
<1>3. \A i \in 0 .. Len(q) : m.next[C(i)] = C(i + 1) /\ m.prev[C(i + 1)] = C(i)
  BY <1>12 DEF Holds, OnRing
<1>4. /\ \A i \in 0 .. k : D(i) = C(i)
      /\ D(k + 1) = e
      /\ \A i \in k + 1 .. Len(q) + 1 : D(i + 1) = C(i)
  <2>1. k \in 0 .. Len(q) /\ Longer(q, r, k, e) /\ h \in Heads
    BY <1>12
  <2>2. q \in Seq(Nodes) /\ r \in Seq(Nodes)
    BY <1>0, <1>12
  <2> HIDE DEF q
  <2>3. /\ \A i \in 0 .. k : Cell(r, h, i) = Cell(q, h, i)
        /\ Cell(r, h, k + 1) = e
        /\ \A i \in k + 1 .. Len(q) + 1 : Cell(r, h, i + 1) = Cell(q, h, i)
    BY <2>1, <2>2, LongerCells
  <2> QED BY <2>3
<1>5. \A x \in Cells : /\ d.prev[x] = IF x = n THEN e ELSE IF x = e THEN p ELSE m.prev[x]
                       /\ d.next[x] = IF x = p THEN e ELSE IF x = e THEN n ELSE m.next[x]
  BY <1>0, <1>1 DEF Add, Memories
<1>6. OnRing(d, h, r)
  <2> SUFFICES ASSUME NEW i \in 0 .. Len(r)
               PROVE  d.next[D(i)] = D(i + 1) /\ d.prev[D(i + 1)] = D(i)
    BY DEF OnRing
  <2>0. k \in 0 .. Len(q)
    BY <1>12
  <2> HIDE DEF C, D, q, d
  <2>1. CASE i < k
    <3>1. /\ i \in 0 .. k /\ i + 1 \in 0 .. k /\ i \in 0 .. Len(q) /\ i + 1 \in 1 .. Len(q)
          /\ k \in 1 .. Len(q)
      BY <1>0, <2>0, <2>1
    <3>2. C(i) # p /\ C(i + 1) # n
      BY <1>11, <1>2, <2>1, <2>0, <3>1
    <3>3. /\ D(i) = C(i) /\ C(i) \in Cells /\ C(i) # e
          /\ D(i + 1) = C(i + 1) /\ C(i + 1) \in Cells /\ C(i + 1) # e
      BY <1>1, <1>4, <3>1
    <3>4. m.next[C(i)] = C(i + 1) /\ m.prev[C(i + 1)] = C(i)
      BY <1>3, <3>1
    <3> QED BY <1>5, <3>2, <3>3, <3>4
  <2>2. CASE i = k
    BY <1>11, <1>0, <1>1, <1>4, <1>5, <2>0, <2>2
  <2>3. CASE i = k + 1
    <3>1. D(i) = e /\ D(i + 1) = n
      BY <1>11, <1>0, <2>0, <1>4, <2>3
    <3> QED BY <1>0, <1>1, <1>5, <3>1
  <2>4. CASE i > k + 1
    <3>1. /\ i - 1 \in k + 1 .. Len(q) + 1 /\ (i - 1) + 1 = i /\ i \in k + 1 .. Len(q) + 1
          /\ i - 1 \in 1 .. Len(q) /\ i - 1 \in 0 .. Len(q) /\ k + 1 \in 1 .. Len(q) /\ k \in Int
      BY <1>0, <2>0, <2>4
    <3>2. D(i) = C(i - 1) /\ D(i + 1) = C(i) /\ m.next[C(i - 1)] = C(i) /\ m.prev[C(i)] = C(i - 1)
      BY <1>3, <1>4, <3>1
    <3>3. C(i - 1) # p /\ C(i) # n
      BY <1>11, <1>2, <2>4, <2>0, <3>1
    <3> QED BY <1>1, <1>5, <3>1, <3>2, <3>3
  <2> QED BY <1>0, <2>0, <2>1, <2>2, <2>3, <2>4
<1>7. ASSUME NEW g \in Heads, g # h PROVE OnRing(d, g, Q[g])
  <2> SUFFICES ASSUME NEW i \in 0 .. Len(Q[g])
               PROVE  /\ d.next[Cell(Q[g], g, i)] = Cell(Q[g], g, i + 1)
                      /\ d.prev[Cell(Q[g], g, i + 1)] = Cell(Q[g], g, i)
    BY DEF OnRing
  <2>1. ASSUME NEW j \in Int
        PROVE  /\ Cell(Q[g], g, j) \in Cells /\ Cell(Q[g], g, j) # e
               /\ Cell(Q[g], g, j) # p /\ Cell(Q[g], g, j) # n
    <3>1. Cell(Q[g], g, j) \in Cells /\ Cell(Q[g], g, j) # e
      BY <1>0, CellIs, OffIsApart
    <3>2. ASSUME NEW a \in Int PROVE Cell(Q[g], g, j) # Cell(Q[h], h, a)
      BY <1>0, <1>7, <1>12, CellsDiffer
    <3>3. k \in Int /\ k + 1 \in Int
      BY <1>0, <1>12
    <3> QED BY <1>11, <3>1, <3>2, <3>3
  <2>2. i \in Int /\ i + 1 \in Int
    BY <1>0, CellIs
  <2>3. /\ m.next[Cell(Q[g], g, i)] = Cell(Q[g], g, i + 1)
        /\ m.prev[Cell(Q[g], g, i + 1)] = Cell(Q[g], g, i)
    BY DEF Holds, OnRing
  <2> HIDE DEF d
  <2> QED BY <1>5, <2>1, <2>2, <2>3
<1>8. ASSUME NEW x \in Nodes, ~IsOn(Q, x), x # e PROVE d.prev[x] = m.prev[x]
  <2>1. x # n
    <3>1. k + 1 \in Int
      BY <1>0, <1>12
    <3> QED BY <1>0, <1>8, <1>11, <1>12, <3>1, OffIsApart
  <2>2. x \in Cells
    BY DEF Cells
  <2> HIDE DEF d
  <2> QED BY <1>5, <1>8, <2>1, <2>2
<1>9. R \in [Heads -> Seq(Nodes)] /\ Disjoint(R)
  BY <1>0, <1>12, LongerLists
<1>10. Holds(d, R)
  <2> HIDE DEF d
  <2> QED BY <1>0, <1>6, <1>7, <1>9, <1>12 DEF Holds
<1> QED BY <1>8, <1>10 DEF d

(* __list_del: the neighbours on the ring are joined.                       *)
LEMMA DelFromRing ==
    ASSUME NEW m \in Memories, NEW Q, Holds(m, Q), NEW e \in Nodes,
           NEW h \in Heads, NEW r \in Seq(Nodes), NEW k \in 0 .. Len(r),
           Longer(r, Q[h], k, e)
    PROVE  /\ Holds(Unlink(m, e), [Q EXCEPT ![h] = r])
           /\ \A x \in Nodes : ~IsOn(Q, x) => Unlink(m, e).prev[x] = m.prev[x]
<1> DEFINE q == Q[h]
           C(i) == Cell(q, h, i)
           D(i) == Cell(r, h, i)
           p == C(k)
           n == C(k + 2)
           u == Unlink(m, e)
           R == [Q EXCEPT ![h] = r]
<1>0. /\ Q \in [Heads -> Seq(Nodes)] /\ Disjoint(Q) /\ q \in Seq(Nodes) /\ Len(r) \in Nat
      /\ Len(q) = Len(r) + 1 /\ k \in 0 .. Len(r) /\ Longer(r, q, k, e) /\ e \in Cells
  BY DEF Holds, Longer, Cells
<1>1. \A i \in Int : C(i) \in Cells
  BY <1>0, CellIs
<1>2. \A i, j \in Int : C(i) = C(j) /\ (i \in 1 .. Len(q) \/ j \in 1 .. Len(q)) => i = j
  BY <1>0, CellsDiffer
<1>3. \A i \in 0 .. Len(q) : m.next[C(i)] = C(i + 1) /\ m.prev[C(i + 1)] = C(i)
  BY DEF Holds, OnRing
<1>4. /\ \A i \in 0 .. k : C(i) = D(i)
      /\ C(k + 1) = e
      /\ \A i \in k + 1 .. Len(r) + 1 : C(i + 1) = D(i)
  <2> HIDE DEF q
  <2> QED BY <1>0, LongerCells
<1>5. m.prev[e] = p /\ m.next[e] = n
  <2>1. k \in 0 .. Len(q) /\ k + 1 \in 0 .. Len(q) /\ (k + 1) + 1 = k + 2
    BY <1>0
  <2> HIDE DEF C
  <2> QED BY <1>3, <1>4, <2>1
<1>6. \A x \in Cells : /\ u.prev[x] = IF x = n THEN p ELSE m.prev[x]
                       /\ u.next[x] = IF x = p THEN n ELSE m.next[x]
  <2>1. p \in Cells /\ n \in Cells
    BY <1>0, <1>1
  <2>2. u.prev = [m.prev EXCEPT ![n] = p] /\ u.next = [m.next EXCEPT ![p] = n]
    BY <1>5 DEF Unlink, Del
  <2> HIDE DEF p, n, u
  <2> QED BY <2>1, <2>2 DEF Memories
<1>7. OnRing(u, h, r)
  <2> SUFFICES ASSUME NEW i \in 0 .. Len(r)
               PROVE  u.next[D(i)] = D(i + 1) /\ u.prev[D(i + 1)] = D(i)
    BY DEF OnRing
  <2> HIDE DEF u, C, D, q
  <2>0. i \in Int /\ k \in Int /\ p \in Cells /\ n \in Cells
    BY <1>0, <1>1
  <2>1. CASE i < k
    <3>1. /\ i \in 0 .. k /\ i + 1 \in 0 .. k /\ i \in 0 .. Len(q) /\ i + 1 \in 1 .. Len(q)
          /\ k \in 1 .. Len(q)
      BY <1>0, <2>1
    <3>2. C(i) # p /\ C(i + 1) # n
      BY <1>2, <2>0, <2>1, <3>1 DEF p, n
    <3> QED BY <1>1, <1>3, <1>4, <1>6, <2>0, <3>1, <3>2
  <2>2. CASE i = k
    <3>1. D(i) = p /\ D(i + 1) = n
      <4>1. k \in 0 .. k /\ k + 1 \in k + 1 .. Len(r) + 1 /\ (k + 1) + 1 = k + 2
        BY <1>0
      <4> QED BY <1>4, <2>2, <4>1 DEF p, n
    <3> QED BY <1>6, <2>0, <3>1
  <2>3. CASE i > k
    <3>1. /\ i \in k + 1 .. Len(r) + 1 /\ i + 1 \in k + 1 .. Len(r) + 1 /\ (i + 1) + 1 = i + 2
          /\ i + 1 \in 1 .. Len(q) /\ i + 1 \in 0 .. Len(q) /\ k + 2 \in 1 .. Len(q)
      BY <1>0, <2>3
    <3>2. /\ D(i) = C(i + 1) /\ D(i + 1) = C(i + 2)
          /\ m.next[C(i + 1)] = C(i + 2) /\ m.prev[C(i + 2)] = C(i + 1)
      BY <1>3, <1>4, <3>1
    <3>3. C(i + 1) # p /\ C(i + 2) # n
      BY <1>2, <2>0, <2>3, <3>1 DEF p, n
    <3>4. C(i + 1) \in Cells /\ C(i + 2) \in Cells
      BY <1>1, <2>0
    <3> QED BY <1>6, <3>2, <3>3, <3>4
  <2> QED BY <2>0, <2>1, <2>2, <2>3
<1>8. ASSUME NEW g \in Heads, g # h PROVE OnRing(u, g, Q[g])
  <2> SUFFICES ASSUME NEW i \in 0 .. Len(Q[g])
               PROVE  /\ u.next[Cell(Q[g], g, i)] = Cell(Q[g], g, i + 1)
                      /\ u.prev[Cell(Q[g], g, i + 1)] = Cell(Q[g], g, i)
    BY DEF OnRing
  <2>1. ASSUME NEW j \in Int
        PROVE  /\ Cell(Q[g], g, j) \in Cells
               /\ Cell(Q[g], g, j) # p /\ Cell(Q[g], g, j) # n
    <3>1. Cell(Q[g], g, j) \in Cells
      BY <1>0, CellIs
    <3>2. ASSUME NEW a \in Int PROVE Cell(Q[g], g, j) # Cell(Q[h], h, a)
      BY <1>0, <1>8, CellsDiffer
    <3>3. k \in Int /\ k + 2 \in Int
      BY <1>0
    <3> QED BY <3>1, <3>2, <3>3
  <2>2. i \in Int /\ i + 1 \in Int
    BY <1>0, CellIs
  <2>3. /\ m.next[Cell(Q[g], g, i)] = Cell(Q[g], g, i + 1)
        /\ m.prev[Cell(Q[g], g, i + 1)] = Cell(Q[g], g, i)
    BY DEF Holds, OnRing
  <2> HIDE DEF u, p, n
  <2> QED BY <1>6, <2>1, <2>2, <2>3
<1>9. ASSUME NEW x \in Nodes, ~IsOn(Q, x) PROVE u.prev[x] = m.prev[x]
  <2>1. x # n
    BY <1>0, <1>9, OffIsApart
  <2>2. x \in Cells
    BY DEF Cells
  <2> HIDE DEF u, n
  <2> QED BY <1>6, <2>1, <2>2
<1>10. R \in [Heads -> Seq(Nodes)] /\ Disjoint(R)
  BY <1>0, ShorterLists
<1>11. Holds(u, R)
  <2> HIDE DEF u
  <2> QED BY <1>0, <1>7, <1>8, <1>10 DEF Holds
<1> QED BY <1>9, <1>11

(* What is then written into a cell that is on no list.                     *)
LEMMA SetApart ==
    ASSUME NEW m \in Memories, NEW Q, Holds(m, Q), NEW e \in Nodes, ~IsOn(Q, e), NEW v
    PROVE  /\ Holds(Set(m, e, v, v), Q)
           /\ Set(m, e, v, v).prev[e] = v
           /\ \A x \in Nodes \ {e} : Set(m, e, v, v).prev[x] = m.prev[x]
<1> DEFINE d == Set(m, e, v, v)
<1>0. Q \in [Heads -> Seq(Nodes)] /\ Disjoint(Q) /\ e \in Cells /\ Nodes \subseteq Cells
  BY DEF Holds, Cells
<1>1. \A x \in Cells : /\ d.prev[x] = IF x = e THEN v ELSE m.prev[x]
                       /\ d.next[x] = IF x = e THEN v ELSE m.next[x]
  BY DEF Set, Memories
<1> HIDE DEF d
<1>2. ASSUME NEW h \in Heads PROVE OnRing(d, h, Q[h])
  <2> SUFFICES ASSUME NEW i \in 0 .. Len(Q[h])
               PROVE  /\ d.next[Cell(Q[h], h, i)] = Cell(Q[h], h, i + 1)
                      /\ d.prev[Cell(Q[h], h, i + 1)] = Cell(Q[h], h, i)
    BY DEF OnRing
  <2>1. i \in Int /\ i + 1 \in Int
    BY <1>0, CellIs
  <2>2. /\ Cell(Q[h], h, i) \in Cells /\ Cell(Q[h], h, i) # e
        /\ Cell(Q[h], h, i + 1) \in Cells /\ Cell(Q[h], h, i + 1) # e
    BY <1>0, <2>1, CellIs, OffIsApart
  <2>3. /\ m.next[Cell(Q[h], h, i)] = Cell(Q[h], h, i + 1)
        /\ m.prev[Cell(Q[h], h, i + 1)] = Cell(Q[h], h, i)
    BY DEF Holds, OnRing
  <2> QED BY <1>1, <2>2, <2>3
<1>3. Holds(d, Q)
  BY <1>0, <1>2 DEF Holds
<1> QED BY <1>0, <1>1, <1>3 DEF d

(***************************************************************************)
(* The walk round a ring                                                    *)
(***************************************************************************)
(* Induction: a set with 0 and the successor of each of its numbers has     *)
(* them all.                                                                *)
LEMMA Induction ==
    ASSUME NEW S, 0 \in S, \A n \in Nat : n \in S => n + 1 \in S
    PROVE  Nat \subseteq S
<1> DEFINE Left == Nat \ S
<1> SUFFICES ASSUME Left # {} PROVE FALSE
  OBVIOUS
<1>1. PICK m \in Left : \A x \in Left : ~(<<x, m>> \in OpToRel(<, Nat))
  BY NatLessThanWellFounded, WFMin
<1>2. \A x \in Left : ~(x < m)
  BY <1>1 DEF OpToRel
<1>3. m \in Nat /\ m # 0
  BY <1>1
<1>4. m - 1 \in Nat /\ m - 1 \in S
  BY <1>2, <1>3
<1>5. m - 1 + 1 = m
  BY <1>3
<1> QED BY <1>1, <1>4, <1>5

(* What is reached from c along to, one step at a time.                     *)
Steps(f, to, c, N) == [n \in 0 .. N |-> IF n = 0 THEN c ELSE to[f[n - 1]]]

LEMMA StepsAre ==
    ASSUME NEW to, NEW c, NEW N \in Nat
    PROVE  \E f : f = Steps(f, to, c, N)
<1> DEFINE StepOf(f, k) == IF k = 0 THEN c ELSE to[f[k - 1]]
           Is(f, n) == f = [k \in 0 .. n |-> StepOf(f, k)]
           S == {n \in Nat : \E f : Is(f, n)}
<1>1. 0 \in S
  <2> DEFINE f == [k \in 0 .. 0 |-> c]
  <2>1. Is(f, 0)
    OBVIOUS
  <2> QED BY <2>1
<1>2. ASSUME NEW n \in Nat, n \in S PROVE n + 1 \in S
  <2>1. PICK f : Is(f, n)
    BY <1>2
  <2> DEFINE g == [k \in 0 .. n + 1 |-> IF k = n + 1 THEN to[f[n]] ELSE f[k]]
  <2>2. \A k \in 0 .. n : g[k] = f[k] /\ f[k] = StepOf(f, k)
    BY <2>1
  <2>3. g[n + 1] = to[f[n]] /\ g = [k \in 0 .. n + 1 |-> g[k]]
    OBVIOUS
  <2> HIDE DEF g
  <2>4. ASSUME NEW k \in 0 .. n + 1 PROVE g[k] = StepOf(g, k)
    <3>1. CASE k = n + 1
      <4>1. k # 0 /\ k - 1 = n /\ n \in 0 .. n
        BY <3>1
      <4>2. g[k - 1] = f[n]
        BY <2>2, <4>1
      <4> QED BY <2>3, <3>1, <4>1, <4>2
    <3>2. CASE k # n + 1
      <4>1. k \in 0 .. n /\ (k # 0 => k - 1 \in 0 .. n)
        BY <3>2
      <4> QED BY <2>2, <4>1
    <3> QED BY <3>1, <3>2
  <2>5. Is(g, n + 1)
    BY <2>3, <2>4
  <2> HIDE DEF Is
  <2> QED BY <2>5
<1>3. N \in S
  <2>1. Nat \subseteq S
    <3> HIDE DEF S
    <3> QED BY <1>1, <1>2, Induction
  <2> HIDE DEF S
  <2> QED BY <2>1
<1>4. PICK f : Is(f, N)
  BY <1>3
<1>5. f = Steps(f, to, c, N)
  BY <1>4 DEF Steps
<1> QED BY <1>5

(* A list has no more nodes than there are.                                 *)
LEMMA ListsEnd ==
    ASSUME NEW m \in Memories, NEW Q, Holds(m, Q), NEW h \in Heads
    PROVE  Cardinality(Nodes) \in Nat /\ Len(Q[h]) \in Nat /\ Len(Q[h]) <= Cardinality(Nodes)
<1> DEFINE q == Q[h]
<1>1. q \in Seq(Nodes) /\ Len(q) \in Nat
  BY DEF Holds
<1>2. \A i, j \in 1 .. Len(q) : q[i] = q[j] => i = j
  BY DEF Holds, Disjoint
<1> HIDE DEF q
<1>3. IsFiniteSet(Nodes) /\ Cardinality(Nodes) \in Nat
  BY CellAssumption, FS_CardinalityType
<1>4. IsFiniteSet(1 .. Len(q)) /\ Cardinality(1 .. Len(q)) = Len(q)
  <2>1. 1 \in Int /\ Len(q) \in Int
    BY <1>1
  <2>2. /\ IsFiniteSet(1 .. Len(q))
        /\ Cardinality(1 .. Len(q)) = IF 1 > Len(q) THEN 0 ELSE Len(q) - 1 + 1
    BY <2>1, FS_Interval
  <2> QED BY <1>1, <2>2
<1>5. q \in [1 .. Len(q) -> Nodes]
  BY <1>1
<1>6. ~(Cardinality(Nodes) < Cardinality(1 .. Len(q)))
  BY <1>2, <1>3, <1>4, <1>5, FS_PigeonHole
<1> QED BY <1>1, <1>3, <1>4, <1>6 DEF q

(* list_for_each meets the nodes of the list in their order.                *)
LEMMA WalkIs ==
    ASSUME NEW m \in Memories, NEW Q, Holds(m, Q), NEW h \in Heads
    PROVE  Walk(m, h) = Q[h]
<1> DEFINE q == Q[h]
           l == Len(q)
           N == Cardinality(Nodes)
           to == [e \in Pointers |-> IF e = Poison THEN Poison ELSE m.next[e]]
           cell == CHOOSE f : f = [n \in 0 .. N |-> IF n = 0 THEN h ELSE to[f[n - 1]]]
           met == {n \in 1 .. N : \A k \in 1 .. n : cell[k] \notin {h, Poison}}
<1>1. Walk(m, h) = [n \in met |-> cell[n]]
  BY DEF Walk
<1>2. N \in Nat /\ l \in Nat /\ l <= N
  BY ListsEnd
<1>3. Q \in [Heads -> Seq(Nodes)] /\ Disjoint(Q) /\ q \in Seq(Nodes)
  BY DEF Holds
<1>4. ASSUME NEW i \in 0 .. l PROVE to[Cell(q, h, i)] = Cell(q, h, i + 1)
  <2>1. Cell(q, h, i) \in Cells
    BY <1>2, <1>3, CellIs
  <2>2. m.next[Cell(q, h, i)] = Cell(q, h, i + 1)
    BY DEF Holds, OnRing
  <2>3. Cell(q, h, i) # Poison /\ Cell(q, h, i) \in Pointers
    BY <2>1, CellAssumption DEF Pointers
  <2> QED BY <2>2, <2>3
<1> HIDE DEF to, N, cell
<1>5. cell[0] = h /\ \A n \in 1 .. N : cell[n] = to[cell[n - 1]]
  <2>1. PICK f : f = Steps(f, to, h, N)
    BY <1>2, StepsAre
  <2>2. f = [n \in 0 .. N |-> IF n = 0 THEN h ELSE to[f[n - 1]]]
    BY <2>1 DEF Steps
  <2>3. cell = [n \in 0 .. N |-> IF n = 0 THEN h ELSE to[cell[n - 1]]]
    BY <2>2 DEF cell
  <2> QED BY <1>2, <2>3
<1> HIDE DEF q, l, met
<1>6. \A n \in Nat : n <= l + 1 /\ n <= N => cell[n] = Cell(q, h, n)
  <2> DEFINE S == {n \in Nat : n <= l + 1 /\ n <= N => cell[n] = Cell(q, h, n)}
  <2>1. 0 \in S
    BY <1>5 DEF Cell
  <2>2. ASSUME NEW n \in Nat, n \in S PROVE n + 1 \in S
    <3> SUFFICES ASSUME n + 1 <= l + 1, n + 1 <= N PROVE cell[n + 1] = Cell(q, h, n + 1)
      OBVIOUS
    <3>1. n <= l + 1 /\ n <= N /\ n \in 0 .. l /\ n + 1 \in 1 .. N /\ (n + 1) - 1 = n
      BY <1>2
    <3>2. cell[n] = Cell(q, h, n)
      BY <2>2, <3>1
    <3>3. cell[n + 1] = to[cell[n]]
      BY <1>5, <3>1
    <3> QED BY <1>4, <3>1, <3>2, <3>3
  <2>3. Nat \subseteq S
    <3> HIDE DEF S
    <3> QED BY <2>1, <2>2, Induction
  <2> QED BY <2>3
<1>7. \A n \in 1 .. l : cell[n] = q[n] /\ q[n] \in Nodes
  <2>1. \A n \in 1 .. l : n \in Nat /\ n <= l + 1 /\ n <= N
    BY <1>2
  <2>2. \A n \in 1 .. l : Cell(q, h, n) = q[n]
    BY DEF Cell, l
  <2>3. \A n \in 1 .. l : q[n] \in Nodes
    BY <1>3 DEF l
  <2> QED BY <1>6, <2>1, <2>2, <2>3
<1>8. l + 1 <= N => cell[l + 1] = h
  <2>1. l + 1 \in Nat /\ l + 1 \notin 1 .. l
    BY <1>2
  <2>2. Cell(q, h, l + 1) = h
    BY <2>1 DEF Cell, l
  <2> QED BY <1>2, <1>6, <2>1, <2>2
<1>9. met = 1 .. l
  <2>1. ASSUME NEW n \in 1 .. l PROVE n \in met
    <3>1. n \in 1 .. N /\ \A k \in 1 .. n : k \in 1 .. l
      BY <1>2
    <3>2. \A k \in 1 .. n : cell[k] \notin {h, Poison}
      BY <1>7, <3>1, CellAssumption DEF Cells
    <3> QED BY <3>1, <3>2 DEF met
  <2>2. ASSUME NEW n \in met PROVE n \in 1 .. l
    <3>1. n \in 1 .. N /\ \A k \in 1 .. n : cell[k] # h
      BY DEF met
    <3>2. n > l => l + 1 \in 1 .. n /\ l + 1 <= N
      BY <1>2, <3>1
    <3> QED BY <1>2, <1>8, <3>1, <3>2
  <2> QED BY <2>1, <2>2
<1>10. q = [n \in 1 .. l |-> q[n]]
  BY <1>3 DEF l
<1>11. [n \in met |-> cell[n]] = [n \in 1 .. l |-> q[n]]
  BY <1>7, <1>9
<1> QED BY <1>1, <1>10, <1>11 DEF q

(***************************************************************************)
(* Each operation does to the sequences what its name says                  *)
(***************************************************************************)
LEMMA FrontIs ==
    ASSUME NEW q \in Seq(Nodes), NEW e \in Nodes
    PROVE  <<e>> \o q \in Seq(Nodes) /\ Longer(q, <<e>> \o q, 0, e)
<1> DEFINE r == <<e>> \o q
<1>1. r \in Seq(Nodes) /\ Len(r) = Len(q) + 1 /\ Len(q) \in Nat
  OBVIOUS
<1>2. r[1] = e
  OBVIOUS
<1>3. ASSUME NEW i \in 1 .. Len(q) PROVE r[i + 1] = q[i]
  OBVIOUS
<1> HIDE DEF r
<1>4. Longer(q, r, 0, e)
  BY <1>1, <1>2, <1>3 DEF Longer
<1> QED BY <1>1, <1>4 DEF r

LEMMA BackIs ==
    ASSUME NEW q \in Seq(Nodes), NEW e \in Nodes
    PROVE  /\ Append(q, e) \in Seq(Nodes) /\ Len(q) \in 0 .. Len(q)
           /\ Longer(q, Append(q, e), Len(q), e)
  BY DEF Longer

LEMMA RestIs ==
    ASSUME NEW q \in Seq(Nodes), NEW i \in 1 .. Len(q)
    PROVE  /\ L!RemoveAt(q, i) \in Seq(Nodes) /\ i - 1 \in 0 .. Len(L!RemoveAt(q, i))
           /\ Longer(L!RemoveAt(q, i), q, i - 1, q[i])
<1> DEFINE a == SubSeq(q, 1, i - 1)
           b == SubSeq(q, i + 1, Len(q))
           r == L!RemoveAt(q, i)
<1>1. /\ a \in Seq(Nodes) /\ Len(a) = i - 1
      /\ \A j \in 1 .. i - 1 : a[j] = q[j]
  OBVIOUS
<1>2. /\ b \in Seq(Nodes) /\ Len(b) = Len(q) - i
      /\ \A j \in 1 .. Len(q) - i : b[j] = q[i + j]
  OBVIOUS
<1>3. r = a \o b
  BY DEF L!RemoveAt
<1> HIDE DEF a, b, r
<1>4. /\ r \in Seq(Nodes) /\ Len(r) = Len(q) - 1
      /\ \A j \in 1 .. Len(r) : r[j] = IF j <= Len(a) THEN a[j] ELSE b[j - Len(a)]
  <2>1. Len(a) + Len(b) = Len(q) - 1
    BY <1>1, <1>2
  <2>2. r \in Seq(Nodes)
    BY <1>1, <1>2, <1>3
  <2>4. Len(r) = Len(a) + Len(b)
    <3>1. a \in Seq(Nodes) /\ b \in Seq(Nodes)
      BY <1>1, <1>2
    <3>2. Len(a \o b) = Len(a) + Len(b)
      BY <3>1
    <3> QED BY <1>3, <3>2
  <2>3. \A j \in 1 .. Len(r) : r[j] = IF j <= Len(a) THEN a[j] ELSE b[j - Len(a)]
    BY <1>1, <1>2, <1>3
  <2> QED BY <2>1, <2>2, <2>3, <2>4
<1>5. Longer(r, q, i - 1, q[i])
  <2>1. Len(q) = Len(r) + 1 /\ (i - 1) + 1 = i
    BY <1>4
  <2>2. ASSUME NEW j \in 1 .. i - 1 PROVE q[j] = r[j]
    BY <1>1, <1>4
  <2>3. ASSUME NEW j \in i .. Len(r) PROVE q[j + 1] = r[j]
    <3>1. /\ j \in 1 .. Len(r) /\ ~(j <= Len(a))
          /\ j - Len(a) = j - i + 1 /\ j - i + 1 \in 1 .. Len(q) - i
      BY <1>1, <1>4
    <3>2. b[j - i + 1] = q[i + (j - i + 1)] /\ i + (j - i + 1) = j + 1
      BY <1>2, <3>1
    <3> QED BY <1>4, <3>1, <3>2
  <2> QED BY <2>1, <2>2, <2>3 DEF Longer
<1> QED BY <1>4, <1>5 DEF r

(* All nodes but e that are on no list are alone or poisoned.               *)
OthersOff(m, Q, e) == \A x \in Nodes \ {e} : ~IsOn(Q, x) => m.prev[x] \in {Poison, x}

(* list_add and list_add_tail.                                              *)
LEMMA PutFrontIs ==
    ASSUME NEW m \in Memories, NEW Q, Holds(m, Q), NEW e \in Nodes, ~IsOn(Q, e),
           OthersOff(m, Q, e), NEW h \in Heads
    PROVE  /\ Holds(AddFront(m, e, h), [Q EXCEPT ![h] = <<e>> \o Q[h]])
           /\ AreOff(AddFront(m, e, h), [Q EXCEPT ![h] = <<e>> \o Q[h]])
<1> DEFINE q == Q[h]
           r == <<e>> \o q
           R == [Q EXCEPT ![h] = r]
           n == m.next[h]
           d == AddFront(m, e, h)
<1>1. Q \in [Heads -> Seq(Nodes)] /\ Disjoint(Q) /\ q \in Seq(Nodes) /\ Len(q) \in Nat
  BY DEF Holds
<1>2. r \in Seq(Nodes) /\ Longer(q, r, 0, e)
  <2> HIDE DEF q
  <2> QED BY <1>1, FrontIs
<1>3. Cell(q, h, 0) = h /\ m.next[h] = Cell(q, h, 1)
  <2>1. Cell(q, h, 0) = h
    BY DEF Cell
  <2>2. 0 \in 0 .. Len(q) /\ 0 + 1 = 1 /\ OnRing(m, h, q)
    BY <1>1 DEF Holds
  <2>3. m.next[Cell(q, h, 0)] = Cell(q, h, 0 + 1)
    BY <2>2 DEF OnRing
  <2> QED BY <2>1, <2>2, <2>3
<1>4. /\ d = Add(m, e, h, n) /\ h = Cell(Q[h], h, 0) /\ h \in Cells
      /\ n = m.next[h] /\ n \in Cells
  BY <1>1, <1>3, CellIs DEF AddFront, Cells
<1>5. 0 \in 0 .. Len(Q[h])
  BY <1>1
<1> HIDE DEF r, d, n
<1>6. /\ Holds(d, R)
      /\ \A x \in Nodes : ~IsOn(Q, x) /\ x # e => d.prev[x] = m.prev[x]
  <2>1. PutIn(Q, R, h, 0, e)
    BY <1>1, <1>2, <1>5 DEF PutIn
  <2> HIDE DEF R, q
  <2>2. /\ Holds(Add(m, e, h, n), R)
        /\ \A x \in Nodes : ~IsOn(Q, x) /\ x # e => Add(m, e, h, n).prev[x] = m.prev[x]
    BY <1>4, <2>1, AddToRing
  <2> QED BY <1>4, <2>2
<1>7. \A x \in Nodes : IsOn(R, x) <=> IsOn(Q, x) \/ x = e
  BY <1>1, <1>2, <1>5, LongerLists
<1> HIDE DEF R, q
<1>8. AreOff(d, R)
  BY <1>6, <1>7 DEF AreOff, OthersOff
<1> QED BY <1>6, <1>8 DEF d, R, r, q

LEMMA PutBackIs ==
    ASSUME NEW m \in Memories, NEW Q, Holds(m, Q), NEW e \in Nodes, ~IsOn(Q, e),
           OthersOff(m, Q, e), NEW h \in Heads
    PROVE  /\ Holds(AddBack(m, e, h), [Q EXCEPT ![h] = Append(Q[h], e)])
           /\ AreOff(AddBack(m, e, h), [Q EXCEPT ![h] = Append(Q[h], e)])
<1> DEFINE q == Q[h]
           k == Len(q)
           r == Append(q, e)
           R == [Q EXCEPT ![h] = r]
           p == m.prev[h]
           d == AddBack(m, e, h)
<1>1. Q \in [Heads -> Seq(Nodes)] /\ Disjoint(Q) /\ q \in Seq(Nodes) /\ k \in Nat
  BY DEF Holds
<1>2. r \in Seq(Nodes) /\ Longer(q, r, k, e) /\ k \in 0 .. Len(q)
  <2> HIDE DEF q
  <2> QED BY <1>1, BackIs
<1>3. Cell(q, h, k + 1) = h /\ m.prev[h] = Cell(q, h, k) /\ m.next[m.prev[h]] = h
  <2>1. k + 1 \notin 1 .. Len(q)
    BY <1>1
  <2>2. Cell(q, h, k + 1) = h
    BY <2>1 DEF Cell
  <2>3. m.prev[Cell(q, h, k + 1)] = Cell(q, h, k) /\ m.next[Cell(q, h, k)] = Cell(q, h, k + 1)
    BY <1>2 DEF Holds, OnRing
  <2> QED BY <2>2, <2>3
<1>4. /\ d = Add(m, e, p, h) /\ m.next[p] = h /\ h \in Cells
      /\ p = Cell(Q[h], h, k) /\ p \in Cells
  BY <1>1, <1>3, CellIs DEF AddBack, Cells
<1>5. k \in 0 .. Len(Q[h])
  BY <1>1
<1> HIDE DEF r, d, k, p
<1>6. /\ Holds(d, R)
      /\ \A x \in Nodes : ~IsOn(Q, x) /\ x # e => d.prev[x] = m.prev[x]
  <2>1. PutIn(Q, R, h, k, e)
    BY <1>1, <1>2, <1>5 DEF PutIn
  <2> HIDE DEF R, q
  <2>2. /\ Holds(Add(m, e, p, h), R)
        /\ \A x \in Nodes : ~IsOn(Q, x) /\ x # e => Add(m, e, p, h).prev[x] = m.prev[x]
    BY <1>4, <2>1, AddToRing
  <2> QED BY <1>4, <2>2
<1>7. \A x \in Nodes : IsOn(R, x) <=> IsOn(Q, x) \/ x = e
  BY <1>1, <1>2, <1>5, LongerLists
<1> HIDE DEF R, q
<1>8. AreOff(d, R)
  BY <1>6, <1>7 DEF AreOff, OthersOff
<1> QED BY <1>6, <1>8 DEF d, R, r, q

(* What is left of the lists when e is taken off.                           *)
Off(Q, e) == [g \in Heads |-> L!Out(Q[g], e)]

(* __list_del.                                                              *)
LEMMA TakeOffIs ==
    ASSUME NEW m \in Memories, NEW Q, Holds(m, Q), NEW e \in Nodes, IsOn(Q, e), AreOff(m, Q)
    PROVE  /\ Holds(Unlink(m, e), Off(Q, e))
           /\ ~IsOn(Off(Q, e), e)
           /\ OthersOff(Unlink(m, e), Off(Q, e), e)
<1>1. Q \in [Heads -> Seq(Nodes)] /\ Disjoint(Q)
  BY DEF Holds
<1>2. PICK h \in Heads : \E i \in 1 .. Len(Q[h]) : Q[h][i] = e
  BY DEF IsOn
<1>3. PICK i \in 1 .. Len(Q[h]) : Q[h][i] = e
  BY <1>2
<1> DEFINE q == Q[h]
           r == L!RemoveAt(q, i)
           k == i - 1
           R == [Q EXCEPT ![h] = r]
           u == Unlink(m, e)
<1>4. q \in Seq(Nodes) /\ i \in 1 .. Len(q) /\ q[i] = e
  BY <1>1, <1>3
<1>5. r \in Seq(Nodes) /\ k \in 0 .. Len(r) /\ Longer(r, q, k, e)
  <2> HIDE DEF q
  <2> QED BY <1>4, RestIs
<1>6. Off(Q, e) = R
  <2>1. L!Out(q, e) = r
    <3>1. e \in L!ToSet(q)
      BY <1>4 DEF L!ToSet
    <3>2. \A j \in DOMAIN q : q[j] = e => j = i
      BY <1>1, <1>4 DEF Disjoint
    <3>3. i \in DOMAIN q
      BY <1>4
    <3>4. L!Place(q, e) = i
      BY <1>4, <3>2, <3>3 DEF L!Place
    <3> QED BY <3>1, <3>4 DEF L!Out
  <2>2. ASSUME NEW g \in Heads, g # h PROVE L!Out(Q[g], e) = Q[g]
    <3>1. \A j \in 1 .. Len(Q[g]) : Q[g][j] # e
      BY <1>1, <1>3, <2>2 DEF Disjoint
    <3>2. DOMAIN Q[g] = 1 .. Len(Q[g])
      BY <1>1
    <3>3. e \notin L!ToSet(Q[g])
      BY <3>1, <3>2 DEF L!ToSet
    <3> QED BY <3>3 DEF L!Out
  <2> HIDE DEF r, q
  <2>3. \A g \in Heads : L!Out(Q[g], e) = R[g]
    BY <1>1, <2>1, <2>2 DEF q
  <2>4. R = [g \in Heads |-> R[g]]
    BY <1>1
  <2> HIDE DEF R
  <2> QED BY <2>3, <2>4 DEF Off
<1> HIDE DEF r, k, u
<1>7. /\ Holds(u, R)
      /\ \A x \in Nodes : ~IsOn(Q, x) => u.prev[x] = m.prev[x]
  BY <1>1, <1>5, DelFromRing DEF u
<1>8. \A x \in Nodes : IsOn(R, x) <=> IsOn(Q, x) /\ x # e
  BY <1>1, <1>5, ShorterLists
<1> HIDE DEF R
<1> QED BY <1>6, <1>7, <1>8 DEF u, AreOff, OthersOff

(* The lists there are in memory m.                                         *)
Queues(m) == [h \in Heads |-> Walk(m, h)]

ListsInMemory(m) == /\ m \in Memories /\ Rings(m)
                    /\ Holds(m, Queues(m)) /\ AreOff(m, Queues(m))

LEMMA QueuesAre ==
    ASSUME NEW m \in Memories, Rings(m), NEW Q \in [Heads -> Seq(Nodes)],
           Holds(m, Q), AreOff(m, Q)
    PROVE  Queues(m) = Q /\ ListsInMemory(m)
<1>1. \A h \in Heads : Walk(m, h) = Q[h]
  BY WalkIs
<1>2. Queues(m) = Q
  BY <1>1 DEF Queues
<1> QED BY <1>2 DEF ListsInMemory

(* At the start every list is empty.                                        *)
LEMMA ListsAtFirst ==
    ASSUME Init
    PROVE  ListsInMemory(link) /\ Queues(link) = [h \in Heads |-> <<>>]
<1> DEFINE Q == [h \in Heads |-> <<>>]
<1>1. /\ link.prev = [e \in Cells |-> e] /\ link.next = [e \in Cells |-> e]
      /\ link \in Memories
  BY DEF Init, Memories, Pointers
<1>2. Rings(link)
  BY <1>1, CellAssumption DEF Rings, Cells
<1>3. Q \in [Heads -> Seq(Nodes)] /\ \A h \in Heads : Q[h] = <<>> /\ Len(Q[h]) = 0
  OBVIOUS
<1> HIDE DEF Q
<1>4. Disjoint(Q) /\ \A e \in Nodes : ~IsOn(Q, e)
  BY <1>3 DEF Disjoint, IsOn
<1>5. ASSUME NEW h \in Heads PROVE OnRing(link, h, Q[h])
  <2>1. \A i : Cell(Q[h], h, i) = h
    BY <1>3 DEF Cell
  <2> QED BY <1>1, <2>1 DEF OnRing, Cells
<1>6. Holds(link, Q) /\ AreOff(link, Q)
  BY <1>1, <1>3, <1>4, <1>5 DEF Holds, AreOff, Cells
<1> QED BY <1>1, <1>2, <1>3, <1>6, QueuesAre DEF Q

(* An operation of Lists makes R of Q.                                      *)
Operated(Q, R) ==
    \E e \in Nodes :
       \/ IsOn(Q, e) /\ R = Off(Q, e)
       \/ \E h \in Heads :
            \/ ~IsOn(Q, e) /\ R = [Q EXCEPT ![h] = <<e>> \o Q[h]]
            \/ ~IsOn(Q, e) /\ R = [Q EXCEPT ![h] = Append(Q[h], e)]
            \/ IsOn(Q, e) /\ R = [Off(Q, e) EXCEPT ![h] = <<e>> \o Off(Q, e)[h]]
            \/ IsOn(Q, e) /\ R = [Off(Q, e) EXCEPT ![h] = Append(Off(Q, e)[h], e)]

(* What a step does to the lists.                                           *)
LEMMA ListsAfter ==
    ASSUME ListsInMemory(link), Next
    PROVE  /\ ListsInMemory(link')
           /\ link' = link \/ Operated(Queues(link), Queues(link'))
<1> DEFINE Q == Queues(link)
           d == link'
<1>1. link \in Memories /\ Rings(link) /\ Holds(link, Q) /\ AreOff(link, Q)
  BY DEF ListsInMemory
<1>2. Q \in [Heads -> Seq(Nodes)]
  BY <1>1 DEF Holds
<1>3. d \in Memories /\ Rings(d)
  BY <1>1, StepKeepsRings
<1> HIDE DEF Q, d
<1>4. \A e \in Nodes : IsOn(Q, e) <=> IsLinked(link, e)
  BY <1>1, LinkedIsOn
<1>5. ASSUME NEW R \in [Heads -> Seq(Nodes)], Holds(d, R), AreOff(d, R)
      PROVE  Queues(d) = R /\ ListsInMemory(d)
  BY <1>3, <1>5, QueuesAre
<1>6. ASSUME NEW e \in Nodes, NEW h \in Heads, ListAdd(e, h)
      PROVE  /\ ListsInMemory(d) /\ ~IsOn(Q, e)
             /\ Queues(d) = [Q EXCEPT ![h] = <<e>> \o Q[h]]
  <2>1. ~IsOn(Q, e) /\ d = AddFront(link, e, h)
    BY <1>4, <1>6 DEF ListAdd, d
  <2>2. OthersOff(link, Q, e)
    BY <1>1 DEF AreOff, OthersOff
  <2>3. Holds(d, [Q EXCEPT ![h] = <<e>> \o Q[h]]) /\ AreOff(d, [Q EXCEPT ![h] = <<e>> \o Q[h]])
    BY <1>1, <2>1, <2>2, PutFrontIs
  <2> DEFINE R == [Q EXCEPT ![h] = <<e>> \o Q[h]]
  <2> HIDE DEF R
  <2>4. R \in [Heads -> Seq(Nodes)] /\ Holds(d, R) /\ AreOff(d, R)
    BY <2>3 DEF R, Holds
  <2> QED BY <1>5, <2>1, <2>4 DEF R
<1>7. ASSUME NEW e \in Nodes, NEW h \in Heads, ListAddTail(e, h)
      PROVE  /\ ListsInMemory(d) /\ ~IsOn(Q, e)
             /\ Queues(d) = [Q EXCEPT ![h] = Append(Q[h], e)]
  <2>1. ~IsOn(Q, e) /\ d = AddBack(link, e, h)
    BY <1>4, <1>7 DEF ListAddTail, d
  <2>2. OthersOff(link, Q, e)
    BY <1>1 DEF AreOff, OthersOff
  <2>3. Holds(d, [Q EXCEPT ![h] = Append(Q[h], e)]) /\ AreOff(d, [Q EXCEPT ![h] = Append(Q[h], e)])
    BY <1>1, <2>1, <2>2, PutBackIs
  <2> DEFINE R == [Q EXCEPT ![h] = Append(Q[h], e)]
  <2> HIDE DEF R
  <2>4. R \in [Heads -> Seq(Nodes)] /\ Holds(d, R) /\ AreOff(d, R)
    BY <2>3 DEF R, Holds
  <2> QED BY <1>5, <2>1, <2>4 DEF R
<1>8. ASSUME NEW e \in Nodes, IsLinked(link, e)
      PROVE  /\ IsOn(Q, e)
             /\ Unlink(link, e) \in Memories /\ Holds(Unlink(link, e), Off(Q, e))
             /\ ~IsOn(Off(Q, e), e) /\ OthersOff(Unlink(link, e), Off(Q, e), e)
             /\ Off(Q, e) \in [Heads -> Seq(Nodes)]
  <2>1. IsOn(Q, e)
    BY <1>4, <1>8
  <2>2. Unlink(link, e) \in Memories
    <3>1. ~IsPoisoned(link, e) /\ e \in {e, Poison}
      BY <1>8 DEF IsLinked
    <3> QED BY <1>1, <3>1, DelKeepsRings
  <2>3. /\ Holds(Unlink(link, e), Off(Q, e)) /\ ~IsOn(Off(Q, e), e)
        /\ OthersOff(Unlink(link, e), Off(Q, e), e)
    BY <1>1, <2>1, TakeOffIs
  <2> QED BY <2>1, <2>2, <2>3 DEF Holds
<1>9. ASSUME NEW e \in Nodes, IsLinked(link, e), NEW v \in {e, Poison},
             link' = Set(Unlink(link, e), e, v, v)
      PROVE  ListsInMemory(d) /\ IsOn(Q, e) /\ Queues(d) = Off(Q, e)
  <2> DEFINE u == Unlink(link, e)
             R == Off(Q, e)
  <2>1. /\ IsOn(Q, e) /\ u \in Memories /\ Holds(u, R) /\ ~IsOn(R, e)
        /\ OthersOff(u, R, e) /\ R \in [Heads -> Seq(Nodes)]
    BY <1>8, <1>9
  <2>2. d = Set(u, e, v, v)
    BY <1>9 DEF d
  <2> HIDE DEF u, R
  <2>3. Holds(d, R) /\ d.prev[e] = v /\ \A x \in Nodes \ {e} : d.prev[x] = u.prev[x]
    BY <2>1, <2>2, SetApart
  <2>4. AreOff(d, R)
    BY <2>1, <2>3 DEF AreOff, OthersOff
  <2>5. Queues(d) = R /\ ListsInMemory(d)
    BY <1>5, <2>1, <2>3, <2>4
  <2> QED BY <2>1, <2>5 DEF R
<1>10. ASSUME NEW e \in Nodes, ListDelInit(e), ~IsLinked(link, e)
       PROVE  link' = link
  <2>1. link.prev[e] = e /\ link.next[e] = e
    BY <1>1, <1>10, CellAssumption DEF ListDelInit, IsLinked, IsPoisoned, IsAlone, Rings, Cells
  <2>2. [link.prev EXCEPT ![e] = e] = link.prev /\ [link.next EXCEPT ![e] = e] = link.next
    BY <1>1, <2>1 DEF Memories
  <2>3. link = [prev |-> link.prev, next |-> link.next]
    BY <1>1 DEF Memories
  <2>4. Unlink(link, e) = link
    BY <2>1, <2>2, <2>3 DEF Unlink, Del
  <2>5. Set(link, e, e, e) = link
    BY <2>2, <2>3 DEF Set
  <2> QED BY <1>10, <2>4, <2>5 DEF ListDelInit
<1>11. ASSUME NEW e \in Nodes, NEW h \in Heads, ListMove(e, h)
       PROVE  /\ ListsInMemory(d) /\ IsOn(Q, e)
              /\ Queues(d) = [Off(Q, e) EXCEPT ![h] = <<e>> \o Off(Q, e)[h]]
  <2> DEFINE u == Unlink(link, e)
             P == Off(Q, e)
             R == [P EXCEPT ![h] = <<e>> \o P[h]]
  <2>1. /\ IsOn(Q, e) /\ u \in Memories /\ Holds(u, P) /\ ~IsOn(P, e)
        /\ OthersOff(u, P, e) /\ P \in [Heads -> Seq(Nodes)]
    BY <1>8, <1>11 DEF ListMove
  <2>2. d = AddFront(u, e, h)
    BY <1>11 DEF ListMove, d
  <2> HIDE DEF u, P
  <2>3. Holds(d, R) /\ AreOff(d, R)
    BY <2>1, <2>2, PutFrontIs
  <2> HIDE DEF R
  <2>4. R \in [Heads -> Seq(Nodes)]
    BY <2>3 DEF Holds
  <2>5. Queues(d) = R /\ ListsInMemory(d)
    BY <1>5, <2>3, <2>4
  <2> QED BY <2>1, <2>5 DEF R, P
<1>12. ASSUME NEW e \in Nodes, NEW h \in Heads, ListMoveTail(e, h)
       PROVE  /\ ListsInMemory(d) /\ IsOn(Q, e)
              /\ Queues(d) = [Off(Q, e) EXCEPT ![h] = Append(Off(Q, e)[h], e)]
  <2> DEFINE u == Unlink(link, e)
             P == Off(Q, e)
             R == [P EXCEPT ![h] = Append(P[h], e)]
  <2>1. /\ IsOn(Q, e) /\ u \in Memories /\ Holds(u, P) /\ ~IsOn(P, e)
        /\ OthersOff(u, P, e) /\ P \in [Heads -> Seq(Nodes)]
    BY <1>8, <1>12 DEF ListMoveTail
  <2>2. d = AddBack(u, e, h)
    BY <1>12 DEF ListMoveTail, d
  <2> HIDE DEF u, P
  <2>3. Holds(d, R) /\ AreOff(d, R)
    BY <2>1, <2>2, PutBackIs
  <2> HIDE DEF R
  <2>4. R \in [Heads -> Seq(Nodes)]
    BY <2>3 DEF Holds
  <2>5. Queues(d) = R /\ ListsInMemory(d)
    BY <1>5, <2>3, <2>4
  <2> QED BY <2>1, <2>5 DEF R, P
<1>13. PICK e \in Nodes : \/ ListDel(e) \/ ListDelInit(e)
                          \/ \E h \in Heads : \/ ListAdd(e, h) \/ ListAddTail(e, h)
                                              \/ ListMove(e, h) \/ ListMoveTail(e, h)
  BY DEF Next
<1>14. CASE ListDel(e)
  <2>1. ListsInMemory(d) /\ IsOn(Q, e) /\ Queues(d) = Off(Q, e)
    BY <1>9, <1>14 DEF ListDel
  <2> QED BY <2>1 DEF Operated, Q, d
<1>15. CASE ListDelInit(e) /\ IsLinked(link, e)
  <2>1. ListsInMemory(d) /\ IsOn(Q, e) /\ Queues(d) = Off(Q, e)
    BY <1>9, <1>15 DEF ListDelInit
  <2> QED BY <2>1 DEF Operated, Q, d
<1>16. CASE ListDelInit(e) /\ ~IsLinked(link, e)
  BY <1>10, <1>16
<1>17. ASSUME NEW h \in Heads, ListAdd(e, h) \/ ListAddTail(e, h)
       PROVE  /\ ListsInMemory(d) /\ ~IsOn(Q, e)
              /\ \/ Queues(d) = [Q EXCEPT ![h] = <<e>> \o Q[h]]
                 \/ Queues(d) = [Q EXCEPT ![h] = Append(Q[h], e)]
  BY <1>6, <1>7, <1>17
<1>18. ASSUME NEW h \in Heads, ListMove(e, h) \/ ListMoveTail(e, h)
       PROVE  /\ ListsInMemory(d) /\ IsOn(Q, e)
              /\ \/ Queues(d) = [Off(Q, e) EXCEPT ![h] = <<e>> \o Off(Q, e)[h]]
                 \/ Queues(d) = [Off(Q, e) EXCEPT ![h] = Append(Off(Q, e)[h], e)]
  BY <1>11, <1>12, <1>18
<1> QED BY <1>13, <1>14, <1>15, <1>16, <1>17, <1>18 DEF Operated, Q, d

(* After any sequence of the operations of list.h, each list is the         *)
(* sequence that the operations, taken as operations on sequences, leave:   *)
(* no node is lost, doubled or found on two lists (AreLists).               *)
THEOREM ListsAreSequences == Spec => AreLists
<1>1. Init => ListsInMemory(link) /\ L!Init
  BY ListsAtFirst DEF Queues, L!Init
<1>2. ListsInMemory(link) /\ [Next]_link => ListsInMemory(link)' /\ [L!Next]_(Queues(link))
  <2> SUFFICES ASSUME ListsInMemory(link), [Next]_link
               PROVE  ListsInMemory(link') /\ (L!Next \/ Queues(link') = Queues(link))
    OBVIOUS
  <2>1. CASE UNCHANGED link
    BY <2>1
  <2>2. CASE Next
    <3> DEFINE W == Queues(link)
    <3>1. ListsInMemory(link') /\ (link' = link \/ Operated(W, Queues(link')))
      BY <2>2, ListsAfter
    <3>2. \A e \in Nodes : L!Without(e) = Off(W, e)
      BY DEF L!Without, Off, Queues
    <3>3. \A e \in Nodes : IsOn(W, e) <=> e \in L!Listed
      <4>1. \A h \in Heads : DOMAIN W[h] = 1 .. Len(W[h])
        BY DEF ListsInMemory, Holds
      <4>2. L!Listed = UNION {L!ToSet(W[h]) : h \in Heads}
        BY DEF L!Listed, L!Members, Queues
      <4> HIDE DEF W
      <4>3. \A h \in Heads : \A e \in Nodes :
               e \in L!ToSet(W[h]) <=> \E i \in 1 .. Len(W[h]) : W[h][i] = e
        BY <4>1 DEF L!ToSet
      <4>4. \A e \in Nodes : e \in L!Listed <=> \E h \in Heads : e \in L!ToSet(W[h])
        BY <4>2
      <4> QED BY <4>3, <4>4 DEF IsOn
    <3> QED BY <3>1, <3>2, <3>3
            DEF Operated, L!Next, L!PutFront, L!PutBack, L!TakeOff, L!MoveFront, L!MoveBack, Queues
  <2> QED BY <2>1, <2>2
<1> QED BY <1>1, <1>2, PTL DEF Spec, AreLists, L!Spec, Queues

(***************************************************************************)
(* The seconds are exact while A is 0, for about three hours.               *)
(***************************************************************************)
LEMMA HighPart ==
    ASSUME NEW high \in Nat, high < 256
    PROVE  A(high) = 0 /\ high % 256 = high
  BY Z3 DEF A

\* Dividing twice is dividing by the product.
LEMMA TwoSteps ==
    ASSUME NEW n \in Nat
    PROVE  (n \div 256) \div 390625 = n \div Ticks
  BY Z3 DEF Ticks

\* The shift by 8 bits, which moves the low bits of one word into the other.
LEMMA LowPart ==
    ASSUME NEW high \in Nat, high < 256, NEW low \in Nat, low < Word
    PROVE  /\ B(high, low) = (high * Word + low) \div 256
           /\ B(high, low) \in Nat /\ B(high, low) < Word
<1>1. B(high, low) = (low \div 256) + 16777216 * high
  BY HighPart, Z3 DEF B
<1>2. low \div 256 \in Nat /\ low \div 256 < 16777216
  BY Z3 DEF Word
<1>3. (high * Word + low) \div 256 = 16777216 * high + (low \div 256)
  BY Z3 DEF Word
<1> QED BY <1>1, <1>2, <1>3, Z3 DEF Word

\* Until the count reaches 2^40, the seconds shown are those that passed, whatever
\* the two words are: get_time_string (time.c:8-16) neither rounds nor wraps.
THEOREM ClockRight ==
    ASSUME NEW high \in Nat, high < 256, NEW low \in Nat, low < Word
    PROVE  Second(high, low) = (high * Word + low) \div Ticks
<1>1. high * Word + low \in Nat
  BY Z3 DEF Word
<1>2. /\ B(high, low) = (high * Word + low) \div 256
      /\ B(high, low) \in Nat /\ B(high, low) < Word
  BY LowPart
<1>3. B(high, low) \div 390625 \in Nat /\ B(high, low) \div 390625 < Word
  BY <1>2, Z3 DEF Word
<1>4. A(high) % 390625 = 0
  <2>1. A(high) = 0
    BY HighPart
  <2> QED BY <2>1, Z3
<1>5. Second(high, low) = B(high, low) \div 390625
  <2>1. (0 * 10995) % Word = 0 /\ ((0 * 45421) % Word) % 390625 = 0
    BY Z3 DEF Word
  <2>2. (0 + 0 + (B(high, low) \div 390625)) % Word = B(high, low) \div 390625
    BY <1>3, Z3 DEF Word
  <2> QED BY <1>4, <2>1, <2>2, Z3 DEF Second
<1>6. ((high * Word + low) \div 256) \div 390625 = (high * Word + low) \div Ticks
  BY <1>1, TwoSteps
<1> QED BY <1>2, <1>5, <1>6, Z3

\* At the count 2^40 the code adds the remainder of 45421 * A by 390625 where the
\* quotient is meant (time.c:15, and the formula of time.c:12): the clock, which
\* had shown 10995 seconds, jumps ahead by 45421, more than twelve hours.
THEOREM ClockJumps ==
    /\ Second(255, Word - 1) = 10995
    /\ (256 * Word) \div Ticks = 10995
    /\ Second(256, 0) = 10995 + 45421
<1>1. (255 * Word + (Word - 1)) \div Ticks = 10995 /\ (256 * Word) \div Ticks = 10995
  BY Z3 DEF Word, Ticks
<1>2. Second(255, Word - 1) = 10995
  <2>1. Word - 1 \in Nat /\ Word - 1 < Word /\ 255 \in Nat /\ 255 < 256
    BY Z3 DEF Word
  <2>2. Second(255, Word - 1) = (255 * Word + (Word - 1)) \div Ticks
    BY <2>1, ClockRight
  <2> QED BY <1>1, <2>2, Z3
<1>3. Second(256, 0) = 10995 + 45421
  <2>1. A(256) % 390625 = 1 /\ B(256, 0) \div 390625 = 0
    BY Z3 DEF A, B
  <2>2. (1 * 10995) % Word = 10995 /\ ((1 * 45421) % Word) % 390625 = 45421
    BY Z3 DEF Word
  <2>3. (10995 + 45421 + 0) % Word = 10995 + 45421
    BY Z3 DEF Word
  <2> QED BY <2>1, <2>2, <2>3, Z3 DEF Second
<1> QED BY <1>1, <1>2, <1>3
================================================================================
