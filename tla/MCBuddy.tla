------------------------------- MODULE MCBuddy -------------------------------
(* Small instances of Buddy for TLC. *)
EXTENDS Buddy

MCBlockSize == [k \in 0 .. MaxOrder |-> 2 ^ k]
=============================================================================
