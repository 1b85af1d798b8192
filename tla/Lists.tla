-------------------------------- MODULE Lists --------------------------------
(***************************************************************************)
(* What list.h promises: each head has a sequence of nodes, and a node is   *)
(* on at most one of them.                                                  *)
(***************************************************************************)
EXTENDS Sequences, SequencesExt

CONSTANTS Heads, Nodes

VARIABLE list   \* head -> nodes, front first

Members(h) == ToSet(list[h])
Listed     == UNION {Members(h) : h \in Heads}
Place(q, e) == CHOOSE i \in DOMAIN q : q[i] = e
Out(q, e)  == IF e \in ToSet(q) THEN RemoveAt(q, Place(q, e)) ELSE q
Without(e) == [h \in Heads |-> Out(list[h], e)]

Init == list = [h \in Heads |-> <<>>]

PutFront(e, h) ==
    e \notin Listed /\ list' = [list EXCEPT ![h] = <<e>> \o @]
PutBack(e, h) ==
    e \notin Listed /\ list' = [list EXCEPT ![h] = Append(@, e)]
TakeOff(e) ==
    e \in Listed /\ list' = Without(e)
MoveFront(e, h) ==
    e \in Listed /\ list' = [Without(e) EXCEPT ![h] = <<e>> \o @]
MoveBack(e, h) ==
    e \in Listed /\ list' = [Without(e) EXCEPT ![h] = Append(@, e)]

Next == \E e \in Nodes :
            \/ TakeOff(e)
            \/ \E h \in Heads : \/ PutFront(e, h) \/ PutBack(e, h)
                                \/ MoveFront(e, h) \/ MoveBack(e, h)

Spec == Init /\ [][Next]_list
=============================================================================
