------------------------------- MODULE KeyQueue -------------------------------
(***************************************************************************)
(* What the keyboard driver promises to the shell: the codes of the keys    *)
(* pressed come out once each and in order, and none is left lying.         *)
(***************************************************************************)
EXTENDS Sequences

CONSTANT Codes

VARIABLE queue

Init == queue = <<>>

Press(k) == queue' = Append(queue, k)

GetKey == queue # <<>> /\ queue' = Tail(queue)

Next == GetKey \/ \E k \in Codes : Press(k)

Safety == Init /\ [][Next]_queue
Spec   == Safety /\ WF_queue(GetKey)
=============================================================================
