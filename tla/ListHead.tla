------------------------------- MODULE ListHead -------------------------------
(***************************************************************************)
(* The circular doubly linked lists of include/zjunix/list.h, link by link. *)
(* A cell is a struct list_head: one inside struct freelist or struct       *)
(* kmem_cache_node heads a list, one inside struct page is a node.          *)
(***************************************************************************)
EXTENDS Integers, FiniteSets, Sequences

CONSTANTS
    Heads,
    Nodes,
    Poison  \* LIST_POISON1 and LIST_POISON2: no cell lives there

Cells == Heads \cup Nodes

ASSUME CellAssumption ==
    IsFiniteSet(Nodes) /\ Heads \cap Nodes = {} /\ Poison \notin Cells

VARIABLE link   \* link.prev[e] and link.next[e]

\* Mutant of Add: the last assignment of __list_add forgotten.
AddOneWay(m, new, p, n) ==
    [prev |-> [m.prev EXCEPT ![new] = p],
     next |-> [m.next EXCEPT ![new] = n, ![p] = new]]

\* What the helpers leave in memory; m is the memory they start from.
Add(m, new, p, n) ==
    [prev |-> [m.prev EXCEPT ![new] = p, ![n] = new],
     next |-> [m.next EXCEPT ![new] = n, ![p] = new]]
\* Mutant of Del: the assignment prev->next = next of __list_del forgotten.
DelOneWay(m, p, n) == [prev |-> [m.prev EXCEPT ![n] = p], next |-> m.next]
Del(m, p, n) ==
    [prev |-> [m.prev EXCEPT ![n] = p], next |-> [m.next EXCEPT ![p] = n]]
Set(m, e, p, n) ==
    [prev |-> [m.prev EXCEPT ![e] = p], next |-> [m.next EXCEPT ![e] = n]]

AddFront(m, e, h) == Add(m, e, h, m.next[h])
AddBack(m, e, h)  == Add(m, e, m.prev[h], h)
Unlink(m, e)      == Del(m, m.prev[e], m.next[e])

IsPoisoned(m, e) == m.prev[e] = Poison
IsAlone(m, e)    == m.prev[e] = e
IsLinked(m, e)   == ~IsPoisoned(m, e) /\ ~IsAlone(m, e)

(***************************************************************************)
(* Operations.  Callers add only cells that are on no list, and use list_del *)
(* and list_move on cells that are on one; __free_pages may call            *)
(* list_del_init on a cell that is on none.                                 *)
(***************************************************************************)
Init == link = [prev |-> [e \in Cells |-> e], next |-> [e \in Cells |-> e]]

ListAdd(e, h)     == ~IsLinked(link, e) /\ link' = AddFront(link, e, h)
ListAddTail(e, h) == ~IsLinked(link, e) /\ link' = AddBack(link, e, h)

ListDel(e) ==
    IsLinked(link, e) /\ link' = Set(Unlink(link, e), e, Poison, Poison)

ListDelInit(e) ==
    ~IsPoisoned(link, e) /\ link' = Set(Unlink(link, e), e, e, e)

ListMove(e, h) ==
    IsLinked(link, e) /\ link' = AddFront(Unlink(link, e), e, h)
ListMoveTail(e, h) ==
    IsLinked(link, e) /\ link' = AddBack(Unlink(link, e), e, h)

Next == \E e \in Nodes :
            \/ ListDel(e) \/ ListDelInit(e)
            \/ \E h \in Heads : \/ ListAdd(e, h) \/ ListAddTail(e, h)
                                \/ ListMove(e, h) \/ ListMoveTail(e, h)

Spec == Init /\ [][Next]_link

(***************************************************************************)
(* Properties                                                               *)
(***************************************************************************)
Pointers == Cells \cup {Poison}
TypeOK   == link \in [prev : [Cells -> Pointers], next : [Cells -> Pointers]]

\* Every link goes both ways, heads stay linked, and a deleted cell is out of
\* reach: no list leads into a page that was taken off it.
Rings(m) ==
    /\ \A h \in Heads : m.prev[h] # Poison
    /\ \A e \in Cells : m.prev[e] = Poison <=> m.next[e] = Poison
    /\ \A e \in Cells : m.prev[e] # Poison =>
            m.next[m.prev[e]] = e /\ m.prev[m.next[e]] = e
Mutual == Rings(link)

\* list_for_each: the cells met on the way round from the head, at most all.
Walk(m, h) ==
    LET after == [e \in Pointers |-> IF e = Poison THEN Poison ELSE m.next[e]]
        cell[n \in 0 .. Cardinality(Nodes)] == IF n = 0 THEN h ELSE after[cell[n - 1]]
        met == {n \in 1 .. Cardinality(Nodes) : \A k \in 1 .. n : cell[k] \notin {h, Poison}}
    IN  [n \in met |-> cell[n]]

\* Every operation does to the lists what its name says: see Lists.tla.
L == INSTANCE Lists WITH list <- [h \in Heads |-> Walk(link, h)]
AreLists == L!Spec
=============================================================================
