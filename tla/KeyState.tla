-------------------------------- MODULE KeyState --------------------------------
(***************************************************************************)
(* How ps2_handler in kernel/driver/ps2.c makes keys of the bytes from the  *)
(* keyboard: key_buffer gathers them, keyboard_state holds the modifiers,   *)
(* and Caps Lock starts an exchange that sets the keyboard's lamps.  The    *)
(* keyboard is external: it sends scan codes of set 2 and answers each byte *)
(* it is sent with 0xfa, never in the middle of a key's bytes.  (After an    *)
(* answer the loop goes on without looking whether a byte has come, line    *)
(* 144: what it reads then is up to the device, and is taken for nothing.)  *)
(***************************************************************************)
EXTENDS Integers, FiniteSets, Sequences

CONSTANT MaxLag  \* commands the keyboard may leave unanswered

ASSUME LagAssumption == MaxLag \in Nat

VARIABLES
    key_buffer,      \* the bytes of the key so far; the last four fit
    keyboard_state,  \* the modifiers on
    cmd_state,       \* keyboard_cmd_state: whether the next ACK is for 0xed
    pushed,          \* the code just put in the ring, or 0
    wire, rest,      \* external: bytes on their way, codes of Pause to follow,
    held,            \* keys held down,
    inbox, lamp,     \* bytes the keyboard was sent and has not answered, its lamp
    odd              \* ghost: a key with a code of 0x80 or more was used

stateVars == <<key_buffer, keyboard_state, cmd_state, pushed,
          wire, rest, held, inbox, lamp, odd>>

Ack    == \hFA
SetLed == \hED

\* External: what keys send when they go down; going up inserts 0xf0.  Pause
\* sends E1 14 77 E1 F0 14 F0 77, which the handler takes for four codes (the
\* first is in the table), and nothing when it goes up.
Make == [caps   |-> <<\h58>>,       a      |-> <<\h1C>>,
         lshift |-> <<\h12>>,       rshift |-> <<\h59>>,
         lctrl  |-> <<\h14>>,       rctrl  |-> <<\hE0, \h14>>,
         ralt   |-> <<\hE0, \h11>>, f7     |-> <<\h83>>,
         pause  |-> <<\hE1, \h14>>]
NumLock == \h77
Later   == <<<<\hF0, NumLock>>, <<\hE1, \hF0, \h14>>, <<NumLock>>>>  \* last first
Keys == DOMAIN Make
Break(k) == SubSeq(Make[k], 1, Len(Make[k]) - 1) \o <<\hF0, Make[k][Len(Make[k])]>>

StateInit ==
    /\ key_buffer = <<>> /\ keyboard_state = {} /\ cmd_state = 0 /\ pushed = 0
    /\ wire = <<>> /\ rest = 0 /\ held = {} /\ inbox = <<>> /\ lamp = FALSE /\ odd = FALSE

(***************************************************************************)
(* The keyboard.                                                            *)
(***************************************************************************)
KeyDown(k) ==
    /\ wire = <<>> /\ rest = 0 /\ k \notin held
    /\ k = "caps" => Len(inbox) < MaxLag
    /\ wire' = Make[k] /\ rest' = (IF k = "pause" THEN Len(Later) ELSE 0)
    /\ held' = held \cup {k}
    /\ odd' = (odd \/ k = "f7")
    /\ pushed' = 0
    /\ UNCHANGED <<key_buffer, keyboard_state, cmd_state, inbox, lamp>>

KeyUp(k) ==
    /\ wire = <<>> /\ rest = 0 /\ k \in held
    /\ wire' = (IF k = "pause" THEN <<>> ELSE Break(k)) /\ held' = held \ {k}
    /\ pushed' = 0
    /\ UNCHANGED <<key_buffer, keyboard_state, cmd_state, rest, inbox, lamp, odd>>

PauseGoesOn ==
    /\ wire = <<>> /\ rest > 0
    /\ wire' = Later[rest] /\ rest' = rest - 1
    /\ pushed' = 0
    /\ UNCHANGED <<key_buffer, keyboard_state, cmd_state, held, inbox, lamp, odd>>

\* A byte that is no command is the argument of the last one: the lamps.
Answer ==
    /\ wire = <<>> /\ rest = 0 /\ inbox # <<>>
    /\ lamp' = IF Head(inbox) = SetLed THEN lamp ELSE Head(inbox) # 0
    /\ inbox' = Tail(inbox) /\ wire' = <<Ack>> /\ pushed' = 0
    /\ UNCHANGED <<key_buffer, keyboard_state, cmd_state, rest, held, odd>>

(***************************************************************************)
(* One turn of ps2_handler's loop.                                          *)
(***************************************************************************)
AckByte ==
    /\ wire # <<>> /\ Head(wire) = Ack
    /\ wire' = Tail(wire)
    /\ inbox' = IF cmd_state = 1
                THEN Append(inbox, IF "caps" \in keyboard_state THEN 4 ELSE 0)
                ELSE inbox
    /\ cmd_state' = 0 /\ pushed' = 0
    /\ UNCHANGED <<key_buffer, keyboard_state, rest, held, lamp, odd>>

Gathered == LET all == Append(key_buffer, Head(wire))
            IN  SubSeq(all, IF Len(all) > 4 THEN 2 ELSE 1, Len(all))

PartByte ==
    /\ wire # <<>> /\ Head(wire) >= \h80 /\ Head(wire) # Ack
    /\ wire' = Tail(wire)
    /\ key_buffer' = Gathered /\ pushed' = 0
    /\ UNCHANGED <<keyboard_state, cmd_state, rest, held, inbox, lamp, odd>>

\* Mutant of Modified: the right Ctrl key's release forgotten.
ModifiedLeft(key) ==
    CASE key \in {<<\h14>>, <<\hE0, \h14>>} -> keyboard_state \cup {"ctrl"}
      [] key = <<\hF0, \h14>> -> keyboard_state \ {"ctrl"}
      [] OTHER -> keyboard_state
\* The switch (key_buffer).
Modified(key) ==
    CASE key = <<\h58>> -> IF "caps" \in keyboard_state
                           THEN keyboard_state \ {"caps"}
                           ELSE keyboard_state \cup {"caps"}
      [] key \in {<<\h12>>, <<\h59>>} -> keyboard_state \cup {"shift"}
      [] key \in {<<\hF0, \h12>>, <<\hF0, \h59>>} -> keyboard_state \ {"shift"}
      [] key \in {<<\h14>>, <<\hE0, \h14>>} -> keyboard_state \cup {"ctrl"}
      [] key \in {<<\hF0, \h14>>, <<\hE0, \hF0, \h14>>} ->
             keyboard_state \ {"ctrl"}
      [] key \in {<<\h11>>, <<\hE0, \h11>>} -> keyboard_state \cup {"alt"}
      [] key \in {<<\hF0, \h11>>, <<\hE0, \hF0, \h11>>} ->
             keyboard_state \ {"alt"}
      [] OTHER -> keyboard_state

\* Mutants of LastByte: every key's last byte goes to the ring; Caps Lock sends
\* the keyboard nothing.
LastByteAlways ==
    /\ wire # <<>> /\ Head(wire) < \h80
    /\ wire' = Tail(wire) /\ key_buffer' = <<>> /\ pushed' = Head(wire)
    /\ keyboard_state' = Modified(Gathered)
    /\ UNCHANGED <<cmd_state, inbox, rest, held, lamp, odd>>
LastByteMute ==
    /\ wire # <<>> /\ Head(wire) < \h80
    /\ wire' = Tail(wire) /\ key_buffer' = <<>> /\ pushed' = 0
    /\ keyboard_state' = Modified(Gathered)
    /\ UNCHANGED <<cmd_state, inbox, rest, held, lamp, odd>>
LastByte ==
    /\ wire # <<>> /\ Head(wire) < \h80
    /\ wire' = Tail(wire)
    /\ key_buffer' = <<>>
    /\ pushed' = IF Len(Gathered) = 1 THEN Head(wire) ELSE 0
    /\ keyboard_state' = Modified(Gathered)
    /\ cmd_state' = IF Gathered = <<\h58>> THEN 1 ELSE cmd_state
    /\ inbox' = IF Gathered = <<\h58>> THEN Append(inbox, SetLed) ELSE inbox
    /\ UNCHANGED <<rest, held, lamp, odd>>

Byte == AckByte \/ PartByte \/ LastByte

StateNext == Byte \/ Answer \/ PauseGoesOn \/ \E k \in Keys : KeyDown(k) \/ KeyUp(k)

StateSpec == StateInit /\ [][StateNext]_stateVars

(***************************************************************************)
(* Properties                                                               *)
(***************************************************************************)
Bytes == 0 .. 255
StateTypeOK ==
    /\ key_buffer \in Seq(Bytes) /\ Len(key_buffer) <= 4
    /\ keyboard_state \subseteq {"caps", "shift", "ctrl", "alt"}
    /\ cmd_state \in {0, 1} /\ pushed \in Bytes
    /\ wire \in Seq(Bytes) /\ rest \in 0 .. Len(Later) /\ held \subseteq Keys
    /\ inbox \in Seq(Bytes) /\ lamp \in BOOLEAN /\ odd \in BOOLEAN

\* Between keys no byte is left over, and no modifier is on whose keys are all
\* up, in whatever order the left and the right one went.  A key whose code is
\* 0x80 or more (F7) spoils this: its byte stays for the next key.
NoneStuck == StateTypeOK /\
    (wire = <<>> /\ ~odd =>
        /\ key_buffer = <<>>
        /\ "shift" \in keyboard_state => held \cap {"lshift", "rshift"} # {}
        /\ "ctrl" \in keyboard_state => held \cap {"lctrl", "rctrl"} # {}
        /\ "alt" \in keyboard_state => "ralt" \in held)

\* No release, no answer and no half of an extended code is taken for a key: the
\* ring only gets the code of a one-byte key that went down, and once for each
\* press of Pause, whose code falls apart in the middle, that of Num Lock.
OnlyPresses ==
    pushed # 0 => \/ \E k \in held : Make[k] = <<pushed>>
                  \/ pushed = NumLock /\ "pause" \in held /\ rest = 2

\* Once the keyboard has answered everything its lamp shows Caps Lock, however
\* many presses ran ahead of the answers.
LampFollows ==
    wire = <<>> /\ inbox = <<>> => (lamp <=> "caps" \in keyboard_state)
================================================================================
