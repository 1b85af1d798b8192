-------------------------------- MODULE KeyRing --------------------------------
(***************************************************************************)
(* The ring of kernel/driver/ps2.c between the keyboard's interrupt handler *)
(* and kernel_getkey, which runs in the shell with interrupts on: the       *)
(* handler may come between any two of its steps.  A code is the key press  *)
(* it comes from, so that codes can be told apart.                          *)
(***************************************************************************)
EXTENDS Integers, FiniteSets, Sequences

CONSTANTS
    NSlots,  \* the length of buffer and ready, 32
    Codes,   \* presses; one is used again when no trace of it is left
    NoCode   \* the 0 of init_buffer

ASSUME RingAssumption == NSlots \in Nat \ {0} /\ NoCode \notin Codes

Slots == 0 .. NSlots - 1

VARIABLES
    buffer, ready,   \* the ring; ready is the set of the slots marked 1
    wptr, rptr,      \* buffer_wptr and buffer_rptr
    pc, i, temp,     \* where the shell is in kernel_getkey, and its locals
    pending,         \* the presses not yet handed to the shell, in order: ghost
    patient          \* whether the typist waits at the end of the ring: ghost

vars == <<buffer, ready, wptr, rptr, pc, i, temp, pending, patient>>

Init ==
    /\ buffer = [s \in Slots |-> NoCode] /\ ready = {}
    /\ wptr = 0 /\ rptr = 0
    /\ pc = "out" /\ i = 0 /\ temp = NoCode
    /\ pending = <<>>
    /\ patient \in BOOLEAN

InRing == {buffer[s] : s \in Slots}

\* The presses of q but one of code k.
Without(q, k) ==
    IF \A n \in DOMAIN q : q[n] # k THEN q
    ELSE LET n == CHOOSE n \in DOMAIN q : q[n] = k
         IN  [m \in 1 .. Len(q) - 1 |-> IF m < n THEN q[m] ELSE q[m + 1]]

(***************************************************************************)
(* ps2_handler, for a byte that completes a code.  Interrupts are off.  A   *)
(* patient typist waits, where the ring begins, until everything came out.  *)
(***************************************************************************)
Push(k) ==
    /\ k \notin InRing \cup {temp}
    /\ patient /\ wptr = 0 => pending = <<>>
    /\ buffer' = [buffer EXCEPT ![wptr] = k]
    /\ ready' = ready \cup {wptr}
    /\ wptr' = (wptr + 1) % NSlots
    /\ pending' = Append(Without(pending, k), k)
    /\ UNCHANGED <<rptr, pc, i, temp, patient>>

(***************************************************************************)
(* kernel_getkey.  Finding nothing it returns at once; kernel_getchar calls *)
(* it again.                                                                *)
(***************************************************************************)
Look ==
    /\ pc = "out" /\ rptr \in ready
    /\ pc' = "take"
    /\ UNCHANGED <<buffer, ready, wptr, rptr, i, temp, pending, patient>>

Take ==
    /\ pc = "take"
    /\ temp' = buffer[rptr]
    /\ pc' = "unmark"
    /\ UNCHANGED <<buffer, ready, wptr, rptr, i, pending, patient>>

Unmark ==
    /\ pc = "unmark"
    /\ ready' = ready \ {rptr}
    /\ pc' = "advance"
    /\ UNCHANGED <<buffer, wptr, rptr, i, temp, pending, patient>>

\* Mutant of Advance: the ring erased a slot too early.
AdvanceShort ==
    /\ pc = "advance"
    /\ rptr' = rptr + 1
    /\ pc' = IF rptr + 1 = NSlots - 1 THEN "erase" ELSE "return"
    /\ i' = 0
    /\ UNCHANGED <<buffer, ready, wptr, temp, pending, patient>>
Advance ==
    /\ pc = "advance"
    /\ rptr' = rptr + 1
    /\ pc' = IF rptr + 1 = NSlots THEN "erase" ELSE "return"
    /\ i' = 0
    /\ UNCHANGED <<buffer, ready, wptr, temp, pending, patient>>

\* init_buffer, when the shell has been all the way round.
Erase ==
    /\ pc = "erase"
    /\ buffer' = [buffer EXCEPT ![i] = NoCode]
    /\ pc' = "clear"
    /\ UNCHANGED <<ready, wptr, rptr, i, temp, pending, patient>>

\* Mutant of Clear: init_buffer without ready[i] = 0.
ClearNone ==
    /\ pc = "clear"
    /\ i' = i + 1
    /\ pc' = IF i + 1 < NSlots THEN "erase" ELSE "rewind"
    /\ UNCHANGED <<buffer, ready, wptr, rptr, temp, pending, patient>>
Clear ==
    /\ pc = "clear"
    /\ ready' = ready \ {i}
    /\ i' = i + 1
    /\ pc' = IF i + 1 < NSlots THEN "erase" ELSE "rewind"
    /\ UNCHANGED <<buffer, wptr, rptr, temp, pending, patient>>

\* Mutant of Rewind: init_buffer without buffer_wptr = 0.
RewindKept ==
    pc = "rewind" /\ pc' = "restart"
    /\ UNCHANGED <<buffer, ready, wptr, rptr, i, temp, pending, patient>>
Rewind ==
    /\ pc = "rewind"
    /\ wptr' = 0
    /\ pc' = "restart"
    /\ UNCHANGED <<buffer, ready, rptr, i, temp, pending, patient>>

\* Mutant of Restart: init_buffer without buffer_rptr = 0.
RestartKept ==
    pc = "restart" /\ pc' = "return"
    /\ UNCHANGED <<buffer, ready, wptr, rptr, i, temp, pending, patient>>
Restart ==
    /\ pc = "restart"
    /\ rptr' = 0
    /\ pc' = "return"
    /\ UNCHANGED <<buffer, ready, wptr, i, temp, pending, patient>>

\* The code is in the hands of the shell.
Return ==
    /\ pc = "return"
    /\ temp' = NoCode
    /\ pending' = Without(pending, temp)
    /\ pc' = "out"
    /\ UNCHANGED <<buffer, ready, wptr, rptr, i, patient>>

GetKey == \/ Look \/ Take \/ Unmark \/ Advance
          \/ Erase \/ Clear \/ Rewind \/ Restart \/ Return

Next == GetKey \/ \E k \in Codes : Push(k)

Spec == Init /\ [][Next]_vars /\ WF_vars(GetKey)

(***************************************************************************)
(* Properties                                                               *)
(***************************************************************************)
\* Types; the shell runs off the end of the ring only to erase it.
TypeOK ==
    /\ buffer \in [Slots -> Codes \cup {NoCode}] /\ ready \subseteq Slots
    /\ wptr \in Slots /\ rptr \in 0 .. NSlots /\ i \in 0 .. NSlots
    /\ temp \in Codes \cup {NoCode}
    /\ pending \in Seq(Codes) /\ patient \in BOOLEAN
    /\ rptr = NSlots => pc \in {"erase", "clear", "rewind", "restart"}

\* A code handed to the shell is a key that was pressed and not handed out
\* before: however the handler cuts kernel_getkey and init_buffer, no code
\* comes out twice and no erased slot comes out.
OnceOnly == pc = "return" => \E n \in DOMAIN pending : pending[n] = temp

\* A shell that finds nothing at rptr has no newer code ahead of it: whatever
\* the handler overran or init_buffer erased, there is no hole to wait at.
NoneAhead == TypeOK /\ (pc = "out" /\ rptr \notin ready => wptr <= rptr)

\* Typing goes on, so does reading: the two pointers never part for good.
NeverDeaf == []<><<\E k \in Codes : Push(k)>>_vars => []<><<Return>>_vars

\* With a patient typist every press comes out, once, in order (KeyQueue).
Q == INSTANCE KeyQueue WITH queue <- IF patient THEN pending ELSE <<>>
KeepsPromise == Q!Spec
================================================================================
