---------------------------- MODULE KeyboardProof ----------------------------
(***************************************************************************)
(* The keyboard driver.  KeyRing: for a ring of any length, and a handler   *)
(* that may come between any two steps of the shell, what comes out is a    *)
(* key that was pressed and no key waits behind the reader's back; with a   *)
(* patient typist the ring is a queue.  KeyState: however many commands the *)
(* keyboard leaves unanswered, no modifier sticks, only presses reach the   *)
(* ring, and the lamp shows Caps Lock.                                      *)
(***************************************************************************)
EXTENDS KeyRing, KeyState, TLAPS, SequenceTheorems

(***************************************************************************)
(* The ring: its invariant                                                  *)
(***************************************************************************)
InOf(q) == {q[n] : n \in DOMAIN q}

Places  == {"out", "take", "unmark", "advance", "erase", "clear", "rewind", "restart", "return"}
Erasing == {"erase", "clear", "rewind", "restart"}

Where == /\ pc \in Places
         /\ pc \in Erasing <=> rptr = NSlots
         /\ pc \in {"erase", "clear"} => i < NSlots

\* The codes in the ring are different ones.
Distinct == \A s, t \in Slots : buffer[s] = buffer[t] /\ buffer[s] # NoCode => s = t

\* A code marked as ready waits, but for a slot that is just being erased.
Waiting ==
    \A s \in ready : buffer[s] \in InOf(pending) \/ (pc = "clear" /\ s = i /\ buffer[s] = NoCode)

\* The code in the reader's hands waits too, and is not ready any more.
Hand ==
    /\ pc = "take" => rptr \in ready
    /\ pc \notin {"out", "take"} => temp \in InOf(pending)
    /\ pc = "unmark" => \A s \in ready : buffer[s] = temp => s = rptr
    /\ pc \notin {"out", "take", "unmark"} => \A s \in ready : buffer[s] # temp

\* Between the reader, where it is going, and the handler there is no hole.
From == IF pc = "advance" THEN rptr + 1 ELSE IF pc = "restart" THEN 0 ELSE rptr
NoHole == \A s \in Slots : From <= s /\ s < wptr => s \in ready

RingInv == TypeOK /\ Where /\ Distinct /\ Waiting /\ Hand /\ NoHole

(***************************************************************************)
(* What a patient typist adds: pending is the ring from the reader's slot   *)
(* on, and when the reader comes to the end of the ring it holds the last.  *)
(***************************************************************************)
First  == IF pc = "return" THEN rptr - 1 ELSE rptr
Behind == First + Len(pending)

InOrder ==
    /\ First >= 0 /\ Behind <= NSlots
    /\ Behind = wptr \/ (Behind = NSlots /\ wptr = 0)
    /\ \A n \in 1 .. Len(pending) : buffer[First + n - 1] = pending[n]
    /\ \A s \in ready : s < Behind

LastOne == /\ Len(pending) = 1 /\ wptr = 0
           /\ pc \in {"erase", "clear"} => \A s \in ready : i <= s
           /\ pc \in {"rewind", "restart", "return"} => ready = {}

PatientInv == patient =>
    /\ pc \notin {"out", "take"} => Len(pending) > 0 /\ pending[1] = temp
    /\ pc \in Erasing => LastOne
    /\ pc \notin Erasing => InOrder \/ (pc = "return" /\ rptr = 0 /\ LastOne)

IInv == RingInv /\ PatientInv

(***************************************************************************)
(* Sequences of presses                                                     *)
(***************************************************************************)
\* Taking out one code leaves the others.
LEMMA WithoutFacts ==
    ASSUME NEW q \in Seq(Codes), NEW k
    PROVE  /\ Without(q, k) \in Seq(Codes)
           /\ \A c \in InOf(q) : c # k => c \in InOf(Without(q, k))
<1>1. CASE \A n \in DOMAIN q : q[n] # k
  BY <1>1 DEF Without
<1>2. CASE \E n \in DOMAIN q : q[n] = k
  <2> DEFINE n == CHOOSE m \in DOMAIN q : q[m] = k
             r == [m \in 1 .. Len(q) - 1 |-> IF m < n THEN q[m] ELSE q[m + 1]]
  <2>1. n \in 1 .. Len(q) /\ q[n] = k
    BY <1>2
  <2>2. Without(q, k) = r
    BY <1>2 DEF Without
  <2> HIDE DEF n
  <2>3. r \in Seq(Codes) /\ Len(r) = Len(q) - 1
    BY <2>1
  <2>4. ASSUME NEW m \in 1 .. Len(q), m # n
        PROVE  q[m] \in InOf(r)
    <3>1. CASE m < n
      <4>1. m \in DOMAIN r /\ r[m] = q[m]  BY <2>1, <3>1
      <4> QED BY <4>1 DEF InOf
    <3>2. CASE m > n
      <4>1. m - 1 \in DOMAIN r /\ r[m - 1] = q[m]  BY <2>1, <3>2
      <4> QED BY <4>1 DEF InOf
    <3> QED BY <2>1, <2>4, <3>1, <3>2
  <2>5. \A c \in InOf(q) : c # k => c \in InOf(r)
    BY <2>1, <2>4 DEF InOf
  <2> QED BY <2>2, <2>3, <2>5
<1> QED BY <1>1, <1>2

\* If it is the first one and not there again, what is left is the tail.
LEMMA WithoutFirst ==
    ASSUME NEW q \in Seq(Codes), Len(q) > 0,
           \A n \in 2 .. Len(q) : q[n] # q[1]
    PROVE  Without(q, q[1]) = Tail(q)
<1>1. 1 \in DOMAIN q
  OBVIOUS
<1>2. (CHOOSE m \in DOMAIN q : q[m] = q[1]) = 1
  <2> DEFINE n == CHOOSE m \in DOMAIN q : q[m] = q[1]
  <2>1. n \in 1 .. Len(q) /\ q[n] = q[1]
    BY <1>1
  <2> HIDE DEF n
  <2>2. n = 1
    BY <2>1
  <2> QED BY <2>2 DEF n
<1>3. Without(q, q[1]) = [m \in 1 .. Len(q) - 1 |-> q[m + 1]]
  <2>1. Without(q, q[1]) = [m \in 1 .. Len(q) - 1 |-> IF m < 1 THEN q[m] ELSE q[m + 1]]
    BY <1>1, <1>2 DEF Without
  <2> QED BY <2>1
<1> DEFINE r == [m \in 1 .. Len(q) - 1 |-> q[m + 1]]
<1>4. /\ Tail(q) \in Seq(Codes) /\ Len(Tail(q)) = Len(q) - 1
      /\ \A n \in 1 .. Len(q) - 1 : Tail(q)[n] = q[n + 1]
  OBVIOUS
<1>5. r \in Seq(Codes) /\ Len(r) = Len(q) - 1 /\ \A n \in 1 .. Len(q) - 1 : r[n] = q[n + 1]
  OBVIOUS
<1> HIDE DEF r
<1>6. r = Tail(q)
  BY <1>4, <1>5, SeqEqual
<1> QED BY <1>3, <1>6 DEF r

\* Appending adds one code.
LEMMA AppendFacts ==
    ASSUME NEW q \in Seq(Codes), NEW k \in Codes
    PROVE  Append(q, k) \in Seq(Codes) /\ InOf(Append(q, k)) = InOf(q) \cup {k}
<1>1. Append(q, k) \in Seq(Codes) /\ Len(Append(q, k)) = Len(q) + 1
      /\ Append(q, k)[Len(q) + 1] = k
      /\ \A n \in 1 .. Len(q) : Append(q, k)[n] = q[n]
  OBVIOUS
<1> QED BY <1>1 DEF InOf

\* What a press adds to the presses that wait, and what handing out takes away.
LEMMA PendingFacts ==
    ASSUME TypeOK
    PROVE  /\ \A k \in Codes : Push(k) =>
                pending' \in Seq(Codes) /\ k \in InOf(pending') /\ InOf(pending) \subseteq InOf(pending')
           /\ Return => /\ pending' \in Seq(Codes)
                        /\ \A c \in InOf(pending) : c # temp => c \in InOf(pending')
<1>1. ASSUME NEW k \in Codes, Push(k)
      PROVE  pending' \in Seq(Codes) /\ k \in InOf(pending') /\ InOf(pending) \subseteq InOf(pending')
  <2>1. pending' = Append(Without(pending, k), k) /\ pending \in Seq(Codes)
    BY <1>1 DEF Push, TypeOK
  <2>2. /\ Without(pending, k) \in Seq(Codes)
        /\ \A c \in InOf(pending) : c # k => c \in InOf(Without(pending, k))
    BY <2>1, WithoutFacts
  <2>3. pending' \in Seq(Codes) /\ InOf(pending') = InOf(Without(pending, k)) \cup {k}
    BY <2>1, <2>2, AppendFacts
  <2> QED BY <2>2, <2>3
<1>2. Return => /\ pending' \in Seq(Codes)
                /\ \A c \in InOf(pending) : c # temp => c \in InOf(pending')
  BY WithoutFacts DEF Return, TypeOK
<1> QED BY <1>1, <1>2

(***************************************************************************)
(* Any typist                                                               *)
(***************************************************************************)
\* The empty ring satisfies it.
LEMMA RingInit == Init => RingInv
<1> SUFFICES ASSUME Init PROVE RingInv OBVIOUS
<1>1. TypeOK
  BY RingAssumption DEF Init, TypeOK, Slots
<1>2. Where
  BY RingAssumption DEF Init, Where, Places, Erasing
<1>3. Distinct /\ Waiting /\ Hand
  BY DEF Init, Distinct, Waiting, Hand
<1>4. NoHole
  BY DEF Init, NoHole, From, Slots
<1> QED BY <1>1, <1>2, <1>3, <1>4 DEF RingInv

\* A press keeps the invariant, wherever it comes in the reader.
LEMMA RingPush ==
    ASSUME RingInv, NEW k \in Codes, Push(k)
    PROVE  RingInv'
<1>0. /\ k # temp /\ \A s \in Slots : buffer[s] # k
      /\ buffer' = [buffer EXCEPT ![wptr] = k] /\ ready' = ready \cup {wptr}
      /\ wptr' = (wptr + 1) % NSlots
      /\ UNCHANGED <<rptr, pc, i, temp, patient>>
  BY DEF Push, InRing
<1>1. /\ wptr \in Slots /\ buffer \in [Slots -> Codes \cup {NoCode}] /\ ready \subseteq Slots
      /\ rptr \in 0 .. NSlots
  BY DEF RingInv, TypeOK
<1>2. /\ buffer'[wptr] = k /\ \A s \in Slots : s # wptr => buffer'[s] = buffer[s]
      /\ buffer' \in [Slots -> Codes \cup {NoCode}]
  BY <1>0, <1>1
<1>3. pending' \in Seq(Codes) /\ k \in InOf(pending') /\ InOf(pending) \subseteq InOf(pending')
  BY PendingFacts DEF RingInv
<1>4. wptr' \in Slots /\ (wptr' = wptr + 1 \/ wptr' = 0)
  BY <1>0, <1>1, RingAssumption DEF Slots
<1>5. TypeOK'
  BY <1>0, <1>1, <1>2, <1>3, <1>4 DEF RingInv, TypeOK
<1>6. Where'
  BY <1>0 DEF RingInv, Where
<1>7. Distinct'
  BY <1>0, <1>1, <1>2 DEF RingInv, Distinct
<1>8. Waiting'
  <2> SUFFICES ASSUME NEW s \in ready'
               PROVE  buffer'[s] \in InOf(pending') \/ (pc' = "clear" /\ s = i' /\ buffer'[s] = NoCode)
    BY DEF Waiting
  <2>1. CASE s = wptr
    BY <1>2, <1>3, <2>1
  <2>2. CASE s # wptr
    BY <1>0, <1>1, <1>2, <1>3, <2>2 DEF RingInv, Waiting
  <2> QED BY <2>1, <2>2
<1>9. Hand'
  <2>1. \A s \in ready' : buffer'[s] = temp' => s \in ready /\ buffer[s] = temp
    BY <1>0, <1>1, <1>2
  <2> QED BY <1>0, <1>3, <2>1 DEF RingInv, Hand
<1>10. NoHole'
  <2> SUFFICES ASSUME NEW s \in Slots, From' <= s, s < wptr' PROVE s \in ready'
    BY DEF NoHole
  <2>1. From' = From
    BY <1>0 DEF From
  <2>2. wptr' = wptr + 1 /\ s <= wptr
    BY <1>1, <1>4, RingAssumption DEF Slots
  <2>3. CASE s = wptr
    BY <1>0, <2>3
  <2>4. CASE s < wptr
    BY <1>0, <2>1, <2>4 DEF RingInv, NoHole
  <2> QED BY <1>1, <2>2, <2>3, <2>4, RingAssumption DEF Slots
<1> QED BY <1>5, <1>6, <1>7, <1>8, <1>9, <1>10 DEF RingInv

\* So does each step of the reader.
LEMMA RingGetKey ==
    ASSUME RingInv, GetKey
    PROVE  RingInv'
<1> USE DEF RingInv
<1>0. /\ wptr \in Slots /\ buffer \in [Slots -> Codes \cup {NoCode}] /\ ready \subseteq Slots
      /\ rptr \in 0 .. NSlots /\ i \in 0 .. NSlots /\ pending \in Seq(Codes)
      /\ NSlots \in Nat \ {0} /\ temp \in Codes \cup {NoCode}
      /\ InOf(pending) \subseteq Codes /\ NoCode \notin Codes
  BY RingAssumption DEF TypeOK, InOf
<1>1. CASE Look
  <2>1. rptr # NSlots
    BY <1>0, <1>1 DEF Look, Where, Erasing
  <2>2. TypeOK' /\ Where'
    BY <1>0, <1>1, <2>1 DEF Look, TypeOK, Where, Places, Erasing
  <2>3. Distinct' /\ Waiting' /\ Hand' /\ NoHole'
    BY <1>0, <1>1 DEF Look, Distinct, Waiting, Hand, NoHole, From
  <2> QED BY <2>2, <2>3
<1>2. CASE Take
  <2>1. rptr \in ready /\ rptr \in Slots /\ temp' = buffer[rptr]
    BY <1>0, <1>2 DEF Take, Hand
  <2>2. temp' \in InOf(pending)
    BY <1>2, <2>1 DEF Take, Waiting
  <2>3. TypeOK' /\ Where'
    BY <1>0, <1>2, <2>1, <2>2 DEF Take, TypeOK, Where, Places, Erasing, Slots
  <2>4. Hand'
    <3>1. \A s \in ready : buffer[s] = temp' => s = rptr
      BY <1>0, <2>1, <2>2 DEF Distinct
    <3> QED BY <1>2, <2>2, <3>1 DEF Take, Hand
  <2>5. Distinct' /\ Waiting' /\ NoHole'
    BY <1>0, <1>2 DEF Take, Distinct, Waiting, NoHole, From
  <2> QED BY <2>3, <2>4, <2>5
<1>3. CASE Unmark
  <2>1. TypeOK' /\ Where'
    BY <1>0, <1>3 DEF Unmark, TypeOK, Where, Places, Erasing
  <2>2. Distinct' /\ Waiting' /\ Hand'
    BY <1>0, <1>3 DEF Unmark, Distinct, Waiting, Hand
  <2>3. NoHole'
    BY <1>0, <1>3 DEF Unmark, NoHole, From, Slots
  <2> QED BY <2>1, <2>2, <2>3
<1>4. CASE Advance
  <2>1. rptr \in 0 .. NSlots - 1
    BY <1>0, <1>4 DEF Advance, Where, Erasing
  <2>2. TypeOK' /\ Where'
    BY <1>0, <1>4, <2>1 DEF Advance, TypeOK, Where, Places, Erasing
  <2>3. Distinct' /\ Waiting' /\ Hand'
    BY <1>0, <1>4 DEF Advance, Distinct, Waiting, Hand
  <2>4. NoHole'
    BY <1>0, <1>4 DEF Advance, NoHole, From
  <2> QED BY <2>2, <2>3, <2>4
<1>5. CASE Erase
  <2>1. i \in Slots /\ rptr = NSlots
    BY <1>0, <1>5 DEF Erase, Where, Erasing, Slots
  <2>2. /\ buffer'[i] = NoCode /\ \A s \in Slots : s # i => buffer'[s] = buffer[s]
        /\ buffer' \in [Slots -> Codes \cup {NoCode}]
    BY <1>0, <1>5, <2>1 DEF Erase
  <2>3. TypeOK' /\ Where'
    BY <1>0, <1>5, <2>1, <2>2 DEF Erase, TypeOK, Where, Places, Erasing
  <2>4. Distinct' /\ Waiting'
    BY <1>0, <1>5, <2>1, <2>2 DEF Erase, Distinct, Waiting
  <2>5. Hand'
    BY <1>0, <1>5, <2>1, <2>2 DEF Erase, Hand
  <2>6. NoHole'
    BY <1>0, <1>5 DEF Erase, NoHole, From
  <2> QED BY <2>3, <2>4, <2>5, <2>6
<1>6. CASE Clear
  <2>1. i \in Slots /\ rptr = NSlots
    BY <1>0, <1>6 DEF Clear, Where, Erasing, Slots
  <2>2. TypeOK' /\ Where'
    BY <1>0, <1>6, <2>1 DEF Clear, TypeOK, Where, Places, Erasing, Slots
  <2>3. Distinct' /\ Waiting' /\ Hand'
    BY <1>0, <1>6 DEF Clear, Distinct, Waiting, Hand
  <2>4. NoHole'
    BY <1>0, <1>6, <2>1 DEF Clear, NoHole, From, Slots
  <2> QED BY <2>2, <2>3, <2>4
<1>7. CASE Rewind
  <2>1. TypeOK' /\ Where'
    BY <1>0, <1>7 DEF Rewind, TypeOK, Where, Places, Erasing, Slots
  <2>2. Distinct' /\ Waiting' /\ Hand'
    BY <1>0, <1>7 DEF Rewind, Distinct, Waiting, Hand
  <2>3. NoHole'
    BY <1>0, <1>7 DEF Rewind, NoHole, From, Slots
  <2> QED BY <2>1, <2>2, <2>3
<1>8. CASE Restart
  <2>1. TypeOK' /\ Where'
    BY <1>0, <1>8 DEF Restart, TypeOK, Where, Places, Erasing
  <2>2. Distinct' /\ Waiting' /\ Hand'
    BY <1>0, <1>8 DEF Restart, Distinct, Waiting, Hand
  <2>3. NoHole'
    BY <1>0, <1>8 DEF Restart, NoHole, From
  <2> QED BY <2>1, <2>2, <2>3
<1>9. CASE Return
  <2>1. /\ pending' \in Seq(Codes)
        /\ \A c \in InOf(pending) : c # temp => c \in InOf(pending')
    BY <1>9, PendingFacts
  <2>2. TypeOK' /\ Where'
    BY <1>0, <1>9, <2>1 DEF Return, TypeOK, Where, Places, Erasing
  <2>3. Distinct' /\ Hand' /\ NoHole'
    BY <1>0, <1>9 DEF Return, Distinct, Hand, NoHole, From
  <2>4. Waiting'
    BY <1>0, <1>9, <2>1 DEF Return, Waiting, Hand
  <2> QED BY <2>2, <2>3, <2>4
<1> QED BY <1>1, <1>2, <1>3, <1>4, <1>5, <1>6, <1>7, <1>8, <1>9 DEF GetKey

(***************************************************************************)
(* A patient typist                                                         *)
(***************************************************************************)
\* A press comes when everything in the ring is in order, and goes behind it.
LEMMA PatientPress ==
    ASSUME RingInv, PatientInv, patient, NEW k \in Codes, Push(k)
    PROVE  /\ pc \notin Erasing /\ InOrder /\ Behind = wptr
           /\ pending' = Append(pending, k)
<1>0. /\ wptr \in 0 .. NSlots - 1 /\ rptr \in 0 .. NSlots /\ NSlots \in Nat \ {0}
      /\ pending \in Seq(Codes) /\ Len(pending) \in Nat
      /\ wptr = 0 => Len(pending) = 0
  <2>1. wptr = 0 => pending = <<>>
    BY Zenon DEF Push
  <2> QED BY <2>1, RingAssumption DEF RingInv, TypeOK, Slots
<1>1. pc \notin Erasing /\ InOrder
  <2>1. /\ pc \in Erasing => LastOne
        /\ pc \notin Erasing => InOrder \/ LastOne
    BY DEF PatientInv
  <2>2. ASSUME LastOne PROVE FALSE
    <3>1. Len(pending) = 1 /\ wptr = 0
      BY <2>2 DEF LastOne
    <3>2. Len(pending) = 0
      BY <1>0, <3>1
    <3> QED BY <3>1, <3>2
  <2> QED BY <2>1, <2>2
<1>2. Behind = wptr
  <2> SUFFICES ASSUME Behind = NSlots, wptr = 0 PROVE FALSE
    BY <1>1 DEF InOrder
  <2>1. pc # "return" /\ Behind = rptr
    BY <1>0 DEF Behind, First, PatientInv
  <2> QED BY <1>1, <2>1 DEF RingInv, Where
<1>3. \A n \in DOMAIN pending : pending[n] # k
  <2> SUFFICES ASSUME NEW n \in 1 .. Len(pending) PROVE pending[n] # k
    BY <1>0
  <2>1. First \in Int /\ First + n - 1 \in Slots
    BY <1>0, <1>1 DEF InOrder, Behind, First, Slots
  <2>2. buffer[First + n - 1] = pending[n]
    BY <1>1 DEF InOrder
  <2> QED BY <2>1, <2>2 DEF Push, InRing
<1>4. pending' = Append(pending, k)
  BY <1>3 DEF Push, Without
<1> QED BY <1>1, <1>2, <1>4

\* So a press keeps what a patient typist adds.
LEMMA PatientPush ==
    ASSUME RingInv, PatientInv, NEW k \in Codes, Push(k)
    PROVE  PatientInv'
<1> SUFFICES ASSUME patient PROVE PatientInv'
  BY DEF PatientInv, Push
<1>1. /\ pc \notin Erasing /\ InOrder /\ Behind = wptr
      /\ pending' = Append(pending, k)
  BY PatientPress
<1>2. /\ wptr \in Slots /\ buffer \in [Slots -> Codes \cup {NoCode}] /\ ready \subseteq Slots
      /\ rptr \in 0 .. NSlots /\ pending \in Seq(Codes) /\ NSlots \in Nat \ {0}
      /\ buffer' = [buffer EXCEPT ![wptr] = k] /\ ready' = ready \cup {wptr}
      /\ wptr' = (wptr + 1) % NSlots
      /\ UNCHANGED <<rptr, pc, i, temp, patient>>
  BY RingAssumption DEF RingInv, TypeOK, Push
<1>3. /\ Len(pending) \in Nat /\ Len(pending') = Len(pending) + 1
      /\ pending'[Len(pending) + 1] = k
      /\ \A n \in 1 .. Len(pending) : pending'[n] = pending[n]
  BY <1>1, <1>2
<1>4. First' = First /\ First \in Int /\ Behind' = wptr + 1
  <2>1. First' = First /\ First \in Int
    BY <1>2 DEF First
  <2>2. First + Len(pending) = wptr /\ Behind' = First' + Len(pending')
    BY <1>1 DEF Behind
  <2> QED BY <1>2, <1>3, <2>1, <2>2 DEF Slots
<1>5. wptr + 1 <= NSlots /\ (wptr' = wptr + 1 \/ (wptr + 1 = NSlots /\ wptr' = 0))
  BY <1>2 DEF Slots
<1>6. \A n \in 1 .. Len(pending') : buffer'[First' + n - 1] = pending'[n]
  <2> SUFFICES ASSUME NEW n \in 1 .. Len(pending) + 1
               PROVE  buffer'[First + n - 1] = pending'[n]
    BY <1>3, <1>4
  <2>1. CASE n = Len(pending) + 1
    <3>1. First + n - 1 = wptr
      BY <1>1, <1>3, <1>4, <2>1 DEF Behind
    <3> QED BY <1>2, <1>3, <2>1, <3>1
  <2>2. CASE n <= Len(pending)
    <3>1. /\ n \in 1 .. Len(pending) /\ First + n - 1 \in Slots /\ First + n - 1 # wptr
      BY <1>1, <1>2, <1>3, <1>4, <2>2 DEF Behind, InOrder, Slots
    <3>2. buffer[First + n - 1] = pending[n]
      BY <1>1, <3>1 DEF InOrder
    <3> QED BY <1>2, <1>3, <3>1, <3>2
  <2> QED BY <1>3, <2>1, <2>2
<1>7. \A s \in ready' : s < Behind'
  BY <1>1, <1>2, <1>4 DEF InOrder, Slots
<1>8. InOrder'
  BY <1>1, <1>4, <1>5, <1>6, <1>7 DEF InOrder
<1>9. pc' \notin {"out", "take"} => Len(pending') > 0 /\ pending'[1] = temp'
  BY <1>2, <1>3 DEF PatientInv
<1> QED BY <1>1, <1>2, <1>8, <1>9 DEF PatientInv

\* The code that is handed out is the first of those that wait.
LEMMA PatientReturn ==
    ASSUME RingInv, PatientInv, patient, Return
    PROVE  pending # <<>> /\ pending' = Tail(pending)
<1>0. /\ pending \in Seq(Codes) /\ Len(pending) \in Nat /\ Len(pending) > 0
      /\ pending[1] = temp /\ pending' = Without(pending, temp)
      /\ rptr \in 0 .. NSlots /\ NSlots \in Nat \ {0} /\ NoCode \notin Codes
  BY RingAssumption DEF RingInv, TypeOK, PatientInv, Return
<1>1. \A n \in 2 .. Len(pending) : pending[n] # pending[1]
  <2>1. CASE LastOne
    BY <2>1 DEF LastOne
  <2>2. CASE InOrder
    <3> SUFFICES ASSUME NEW n \in 2 .. Len(pending) PROVE pending[n] # pending[1]
      OBVIOUS
    <3>1. /\ First + n - 1 \in Slots /\ First + 1 - 1 \in Slots
          /\ First + n - 1 # First + 1 - 1
      BY <1>0, <2>2 DEF InOrder, Behind, First, Slots
    <3>2. /\ buffer[First + n - 1] = pending[n] /\ buffer[First + 1 - 1] = pending[1]
          /\ pending[1] \in Codes
      BY <1>0, <2>2 DEF InOrder
    <3> QED BY <1>0, <3>1, <3>2 DEF RingInv, Distinct
  <2> QED BY <2>1, <2>2 DEF PatientInv, Return, Erasing
<1> QED BY <1>0, <1>1, WithoutFirst

\* And so does each step of the reader, erasing included.
LEMMA PatientGetKey ==
    ASSUME RingInv, PatientInv, GetKey
    PROVE  PatientInv'
<1> SUFFICES ASSUME patient PROVE PatientInv'
  BY DEF PatientInv, GetKey, Look, Take, Unmark, Advance, Erase, Clear, Rewind, Restart, Return
<1>0. /\ wptr \in Slots /\ buffer \in [Slots -> Codes \cup {NoCode}] /\ ready \subseteq Slots
      /\ rptr \in 0 .. NSlots /\ i \in 0 .. NSlots /\ pending \in Seq(Codes)
      /\ NSlots \in Nat \ {0} /\ Len(pending) \in Nat
  BY RingAssumption DEF RingInv, TypeOK
<1>1. CASE Look
  BY <1>0, <1>1 DEF Look, PatientInv, InOrder, First, Behind, Erasing
<1>2. CASE Take
  <2>1. rptr \in ready /\ InOrder
    BY <1>2 DEF Take, RingInv, Hand, PatientInv, Erasing
  <2>2. Len(pending) > 0 /\ buffer[rptr] = pending[1]
    <3>1. Behind = rptr + Len(pending) /\ rptr < Behind /\ First = rptr
      BY <1>2, <2>1 DEF Take, InOrder, Behind, First
    <3>2. Len(pending) > 0
      BY <1>0, <3>1
    <3>3. buffer[First + 1 - 1] = pending[1]
      BY <1>0, <2>1, <3>2 DEF InOrder
    <3> QED BY <1>0, <3>1, <3>2, <3>3
  <2> QED BY <1>2, <2>1, <2>2 DEF Take, PatientInv, InOrder, First, Behind, Erasing
<1>3. CASE Unmark
  BY <1>0, <1>3 DEF Unmark, PatientInv, InOrder, First, Behind, Erasing
<1>4. CASE Advance
  <2>1. InOrder /\ Len(pending) > 0 /\ pending[1] = temp /\ rptr < NSlots
    BY <1>0, <1>4 DEF Advance, PatientInv, Erasing, RingInv, Where
  <2>2. CASE rptr + 1 = NSlots
    <3>1. Len(pending) = 1 /\ wptr = 0
      BY <1>0, <1>4, <2>1, <2>2 DEF Advance, InOrder, First, Behind, Slots
    <3>2. LastOne'
      BY <1>0, <1>4, <2>2, <3>1 DEF Advance, LastOne, Slots
    <3> QED BY <1>4, <2>1, <2>2, <3>2 DEF Advance, PatientInv, Erasing
  <2>3. CASE rptr + 1 # NSlots
    <3>1. First' = First /\ pc' = "return"
      BY <1>0, <1>4, <2>3 DEF Advance, First
    <3>2. InOrder'
      BY <1>4, <2>1, <3>1 DEF Advance, InOrder, Behind
    <3> QED BY <1>4, <2>1, <3>1, <3>2 DEF Advance, PatientInv, Erasing
  <2> QED BY <2>2, <2>3
<1>5. CASE Erase
  <2>1. LastOne
    BY <1>5 DEF Erase, PatientInv, Erasing
  <2> QED BY <1>5, <2>1 DEF Erase, PatientInv, Erasing, LastOne
<1>6. CASE Clear
  <2>1. LastOne /\ i < NSlots
    BY <1>6 DEF Clear, PatientInv, Erasing, RingInv, Where
  <2>2. \A s \in ready' : i + 1 <= s
    BY <1>0, <1>6, <2>1 DEF Clear, LastOne, Slots
  <2>3. i + 1 = NSlots => ready' = {}
    BY <1>0, <1>6, <2>2 DEF Clear, Slots
  <2>4. LastOne'
    BY <1>0, <1>6, <2>1, <2>2, <2>3 DEF Clear, LastOne
  <2> QED BY <1>0, <1>6, <2>4 DEF Clear, PatientInv, Erasing
<1>7. CASE Rewind
  <2>1. LastOne
    BY <1>7 DEF Rewind, PatientInv, Erasing
  <2> QED BY <1>7, <2>1 DEF Rewind, PatientInv, Erasing, LastOne
<1>8. CASE Restart
  <2>1. LastOne
    BY <1>8 DEF Restart, PatientInv, Erasing
  <2> QED BY <1>8, <2>1 DEF Restart, PatientInv, Erasing, LastOne
<1>9. CASE Return
  <2>1. pending # <<>> /\ pending' = Tail(pending)
    BY <1>9, PatientReturn
  <2>2. /\ Len(pending') = Len(pending) - 1
        /\ \A n \in 1 .. Len(pending) - 1 : pending'[n] = pending[n + 1]
    BY <1>0, <2>1
  <2>3. InOrder'
    <3>1. CASE InOrder
      <4>1. First' = First + 1 /\ First \in Int /\ Behind' = Behind
        BY <1>0, <1>9, <2>2 DEF Return, First, Behind
      <4>2. \A n \in 1 .. Len(pending') : buffer'[First' + n - 1] = pending'[n]
        <5> SUFFICES ASSUME NEW n \in 1 .. Len(pending) - 1
                     PROVE  buffer[First + (n + 1) - 1] = pending[n + 1]
          BY <1>0, <1>9, <2>2, <4>1 DEF Return
        <5>1. n + 1 \in 1 .. Len(pending)
          BY <1>0
        <5> QED BY <3>1, <5>1 DEF InOrder
      <4> QED BY <1>0, <1>9, <3>1, <4>1, <4>2 DEF Return, InOrder
    <3>2. CASE rptr = 0 /\ LastOne
      BY <1>0, <1>9, <2>2, <3>2 DEF Return, LastOne, InOrder, First, Behind
    <3> QED BY <1>9, <3>1, <3>2 DEF Return, PatientInv, Erasing
  <2> QED BY <1>9, <2>3 DEF Return, PatientInv, Erasing
<1> QED BY <1>1, <1>2, <1>3, <1>4, <1>5, <1>6, <1>7, <1>8, <1>9 DEF GetKey

(***************************************************************************)
(* The ring: the theorems                                                   *)
(***************************************************************************)
\* The ring starts in the invariant.
LEMMA InitInv == Init => IInv
<1>1. Init => PatientInv
  <2> SUFFICES ASSUME Init PROVE PatientInv OBVIOUS
  <2>1. pending = <<>> /\ Len(pending) = 0
    BY DEF Init
  <2> QED BY <2>1, RingAssumption DEF Init, PatientInv, InOrder, First, Behind, Erasing
<1> QED BY <1>1, RingInit DEF IInv

\* Every step of the handler or of the reader keeps it.
LEMMA StepInv == IInv /\ [Next]_vars => IInv'
<1> SUFFICES ASSUME IInv, [Next]_vars PROVE IInv' OBVIOUS
<1>1. CASE GetKey
  BY <1>1, RingGetKey, PatientGetKey DEF IInv
<1>2. ASSUME NEW k \in Codes, Push(k) PROVE IInv'
  BY <1>2, RingPush, PatientPush DEF IInv
<1>3. CASE UNCHANGED vars
  BY <1>3 DEF vars, IInv, RingInv, TypeOK, Where, Distinct, Waiting, Hand, NoHole, From,
              PatientInv, InOrder, LastOne, First, Behind
<1> QED BY <1>1, <1>2, <1>3 DEF Next

\* The invariant, for any ring and any typist.
THEOREM RingInvariant == Spec => []IInv
  BY InitInv, StepInv, PTL DEF Spec

\* A code handed to the shell is a key that was pressed and not handed out before,
\* however the handler cuts kernel_getkey and init_buffer (ps2.c:118, 206).
THEOREM NeverRepeated == Spec => []OnceOnly
<1>1. IInv => OnceOnly
  BY DEF IInv, RingInv, Hand, OnceOnly, InOf
<1> QED BY <1>1, RingInvariant, PTL

\* A shell that finds nothing has no newer code ahead of it, whatever the handler
\* overran or init_buffer erased (ps2.c:152).
THEOREM NoHoleAhead == Spec => []NoneAhead
<1>1. IInv => NoneAhead
  <2> SUFFICES ASSUME IInv, pc = "out", rptr \notin ready PROVE wptr <= rptr
    BY DEF NoneAhead, IInv, RingInv
  <2>1. rptr \in Slots /\ From = rptr
    BY RingAssumption DEF IInv, RingInv, TypeOK, Where, Erasing, From, Slots
  <2>2. ~(rptr < wptr)
    BY <2>1 DEF IInv, RingInv, NoHole, Slots
  <2> QED BY <2>1, <2>2 DEF IInv, RingInv, TypeOK, Slots
<1> QED BY <1>1, RingInvariant, PTL

\* With a patient typist every press comes out once and in order: the ring is a
\* queue, for a ring of any length (the part of KeepsPromise without fairness).
THEOREM RingIsQueue == Spec => Q!Safety
<1>1. Init => Q!Init
  BY DEF Init, Q!Init
<1>2. IInv /\ [Next]_vars => [Q!Next]_(IF patient THEN pending ELSE <<>>)
  <2> SUFFICES ASSUME IInv, [Next]_vars
               PROVE  [Q!Next]_(IF patient THEN pending ELSE <<>>)
    OBVIOUS
  <2>0. patient' = patient
    BY DEF Next, vars, GetKey, Push, Look, Take, Unmark, Advance, Erase, Clear, Rewind, Restart, Return
  <2>1. CASE ~patient
    BY <2>0, <2>1
  <2>2. ASSUME patient, NEW k \in Codes, Push(k)
        PROVE  [Q!Next]_(IF patient THEN pending ELSE <<>>)
    <3>1. pending' = Append(pending, k)
      BY <2>2, PatientPress DEF IInv
    <3> QED BY <2>0, <2>2, <3>1 DEF Q!Next, Q!Press
  <2>3. ASSUME patient, Return
        PROVE  [Q!Next]_(IF patient THEN pending ELSE <<>>)
    <3>1. pending # <<>> /\ pending' = Tail(pending)
      BY <2>3, PatientReturn DEF IInv
    <3> QED BY <2>0, <2>3, <3>1 DEF Q!Next, Q!GetKey
  <2>4. CASE UNCHANGED pending
    BY <2>0, <2>4
  <2> QED BY <2>1, <2>2, <2>3, <2>4
          DEF Next, vars, GetKey, Look, Take, Unmark, Advance, Erase, Clear, Rewind, Restart
<1> QED BY <1>1, <1>2, RingInvariant, PTL DEF Spec, Q!Safety

(***************************************************************************)
(* The bytes of keys: the invariant                                         *)
(***************************************************************************)
\* The bytes of the key under way, those taken and those still on the wire.
Coming == key_buffer \o wire

Presses  == {Make[k] : k \in held}
Releases == {Break(k) : k \in Keys \ held}
\* The later code of Pause that may be under way.
PauseCode == IF "pause" \in held /\ rest < 3 THEN {Later[rest + 1]} ELSE {}

\* Bytes come in whole keys: every byte but the last is a prefix.
Whole ==
    /\ \A n \in DOMAIN wire : (wire[n] >= \h80 /\ wire[n] # Ack) \/ n = Len(wire)
    /\ wire # <<>> /\ key_buffer = <<>> =>
          wire \in {<<Ack>>} \cup Presses \cup Releases \cup PauseCode
    /\ rest > 0 => "pause" \in held

\* Until F7 is used, the bytes under way are those of one key, all of them.
Clean == ~odd =>
    /\ "f7" \notin held
    /\ wire = <<Ack>> => key_buffer = <<>>
    /\ Coming \in {<<>>, <<Ack>>} \cup Presses \cup (Releases \ {Break("f7")}) \cup PauseCode
    /\ wire = <<>> => key_buffer = <<>>

\* A modifier is on while a key of it is down or its release is under way.
ModifiersHeld == ~odd =>
    /\ "shift" \in keyboard_state => held \cap {"lshift", "rshift"} # {} \/ Coming \in {<<\hF0, \h12>>, <<\hF0, \h59>>}
    /\ "ctrl" \in keyboard_state => held \cap {"lctrl", "rctrl"} # {} \/ Coming \in {<<\hF0, \h14>>, <<\hE0, \hF0, \h14>>}
    /\ "alt" \in keyboard_state => "ralt" \in held \/ Coming = <<\hE0, \hF0, \h11>>

\* The lamp will be what the last argument on its way says: Caps Lock, unless the
\* answer to 0xed, which sends a new one, is still to come.
Args == {n \in DOMAIN inbox : inbox[n] # SetLed}
LampWill ==
    \/ /\ Args = {}
       /\ lamp <=> "caps" \in keyboard_state
    \/ \E n \in Args : /\ \A m \in Args : m <= n
                       /\ inbox[n] # 0 <=> "caps" \in keyboard_state

LampInv ==
    /\ cmd_state = 1 => inbox # <<>> \/ wire = <<Ack>>
    /\ cmd_state = 0 => LampWill
StateIInv == StateTypeOK /\ Whole /\ Clean /\ ModifiersHeld /\ OnlyPresses /\ LampInv

(***************************************************************************)
(* The bytes of keys: lemmas about the bytes                                *)
(***************************************************************************)
\* The table of what keys send, in full.
LEMMA MakeFacts ==
    /\ Make["caps"] = <<\h58>> /\ Make["a"] = <<\h1C>>
    /\ Make["lshift"] = <<\h12>> /\ Make["rshift"] = <<\h59>>
    /\ Make["lctrl"] = <<\h14>> /\ Make["rctrl"] = <<\hE0, \h14>>
    /\ Make["ralt"] = <<\hE0, \h11>> /\ Make["f7"] = <<\h83>>
    /\ Make["pause"] = <<\hE1, \h14>>
    /\ Keys = {"caps", "a", "lshift", "rshift", "lctrl", "rctrl", "ralt", "f7", "pause"}
  BY DEF Make, Keys

\* The later codes of Pause.
LEMMA LaterFacts ==
    /\ Later[1] = <<\hF0, \h77>> /\ Later[2] = <<\hE1, \hF0, \h14>>
    /\ Later[3] = <<\h77>> /\ Len(Later) = 3
  BY DEF Later, NumLock

\* Concatenation of short sequences, which the provers do not compute.
LEMMA Joined ==
    ASSUME NEW a \in Nat, NEW b \in Nat, NEW c \in Nat
    PROVE  <<>> \o <<a, b>> = <<a, b>> /\ <<a>> \o <<b, c>> = <<a, b, c>>
<1>1. /\ <<>> \in Seq(Nat) /\ <<a>> \in Seq(Nat) /\ <<a, b>> \in Seq(Nat) /\ <<b, c>> \in Seq(Nat)
      /\ Len(<<a>>) = 1 /\ Len(<<b, c>>) = 2 /\ <<b, c>>[1] = b /\ <<b, c>>[2] = c
      /\ <<a>>[1] = a
  OBVIOUS
<1>2. <<>> \o <<a, b>> = <<a, b>>
  BY <1>1, ConcatEmptySeq
<1> DEFINE l == <<a>> \o <<b, c>>
<1>3. l \in Seq(Nat) /\ Len(l) = 3 /\ \A n \in 1 .. 3 : l[n] = IF n <= 1 THEN <<a>>[n] ELSE <<b, c>>[n - 1]
  BY <1>1, ConcatProperties
<1> HIDE DEF l
<1>4. l[1] = a /\ l[2] = b /\ l[3] = c
  BY <1>1, <1>3
<1>5. l = <<a, b, c>>
  BY <1>3, <1>4
<1> QED BY <1>2, <1>5 DEF l

\* What keys send when they go up.
LEMMA BreakFacts ==
    /\ Break("caps") = <<\hF0, \h58>> /\ Break("a") = <<\hF0, \h1C>>
    /\ Break("lshift") = <<\hF0, \h12>> /\ Break("rshift") = <<\hF0, \h59>>
    /\ Break("lctrl") = <<\hF0, \h14>> /\ Break("rctrl") = <<\hE0, \hF0, \h14>>
    /\ Break("ralt") = <<\hE0, \hF0, \h11>> /\ Break("f7") = <<\hF0, \h83>>
    /\ Break("pause") = <<\hE1, \hF0, \h14>>
<1>1. ASSUME NEW b \in Nat
      PROVE  SubSeq(<<b>>, 1, Len(<<b>>) - 1) \o <<\hF0, <<b>>[Len(<<b>>)]>> = <<\hF0, b>>
  <2>1. SubSeq(<<b>>, 1, 0) = <<>>
    OBVIOUS
  <2>2. <<>> \o <<\hF0, b>> = <<\hF0, b>>
    BY Joined
  <2>3. Len(<<b>>) - 1 = 0 /\ <<b>>[Len(<<b>>)] = b
    OBVIOUS
  <2> QED BY <2>1, <2>2, <2>3
<1>2. ASSUME NEW b \in Nat, NEW a \in Nat
      PROVE  SubSeq(<<a, b>>, 1, Len(<<a, b>>) - 1) \o <<\hF0, <<a, b>>[Len(<<a, b>>)]>>
                 = <<a, \hF0, b>>
  <2>1. SubSeq(<<a, b>>, 1, 1) = <<a>>
    <3> DEFINE l == SubSeq(<<a, b>>, 1, 1)
    <3>1. \A n \in 1 .. 1 : <<a, b>>[n] \in Nat
      OBVIOUS
    <3>2. l \in Seq(Nat) /\ Len(l) = 1 /\ l[1] = <<a, b>>[1]
      BY <3>1, SubSeqProperties
    <3> HIDE DEF l
    <3>3. l = <<a>>
      BY <3>2
    <3> QED BY <3>3 DEF l
  <2>2. <<a>> \o <<\hF0, b>> = <<a, \hF0, b>>
    BY Joined
  <2>3. Len(<<a, b>>) - 1 = 1 /\ <<a, b>>[Len(<<a, b>>)] = b
    OBVIOUS
  <2> QED BY <2>1, <2>2, <2>3
<1> QED BY <1>1, <1>2, MakeFacts DEF Break

\* What a byte does to the bytes of the key that comes.
LEMMA GatherFacts ==
    ASSUME key_buffer \in Seq(Bytes), wire \in Seq(Bytes), wire # <<>>
    PROVE  /\ Append(key_buffer, Head(wire)) \in Seq(Bytes)
           /\ Append(key_buffer, Head(wire)) \o Tail(wire) = Coming
           /\ Tail(wire) = <<>> => Append(key_buffer, Head(wire)) = Coming
           /\ Len(Coming) = Len(key_buffer) + Len(wire)
           /\ Len(Coming) <= 4 => Gathered = Append(key_buffer, Head(wire))
           /\ Gathered \in Seq(Bytes) /\ Gathered # <<>> /\ Len(Gathered) <= Len(key_buffer) + 1
           /\ Len(key_buffer) <= 4 => Len(Gathered) <= 4
           /\ Len(Gathered) = 1 => key_buffer = <<>> /\ Gathered = <<Head(wire)>>
<1> DEFINE h == Head(wire)
           t == Tail(wire)
           all == Append(key_buffer, h)
<1>1. /\ h \in Bytes /\ t \in Seq(Bytes) /\ Len(t) = Len(wire) - 1 /\ h = wire[1]
      /\ \A n \in 1 .. Len(t) : t[n] = wire[n + 1]
      /\ Len(wire) \in Nat /\ Len(wire) > 0 /\ Len(key_buffer) \in Nat
  BY HeadTailProperties
<1>2. /\ all \in Seq(Bytes) /\ all # <<>> /\ Len(all) = Len(key_buffer) + 1
      /\ \A n \in 1 .. Len(key_buffer) : all[n] = key_buffer[n]
      /\ all[Len(key_buffer) + 1] = h
  BY <1>1, AppendProperties
<1> HIDE DEF h, t, all
<1>3. /\ all \o t \in Seq(Bytes) /\ Len(all \o t) = Len(all) + Len(t)
      /\ \A n \in 1 .. Len(all) + Len(t) :
            (all \o t)[n] = IF n <= Len(all) THEN all[n] ELSE t[n - Len(all)]
  BY <1>1, <1>2, ConcatProperties
<1>4. /\ Coming \in Seq(Bytes) /\ Len(Coming) = Len(key_buffer) + Len(wire)
      /\ \A n \in 1 .. Len(key_buffer) + Len(wire) :
            Coming[n] = IF n <= Len(key_buffer) THEN key_buffer[n] ELSE wire[n - Len(key_buffer)]
  BY ConcatProperties DEF Coming
<1>5. all \o t = Coming
  <2>1. Len(all \o t) = Len(Coming)
    BY <1>1, <1>2, <1>3, <1>4
  <2>2. ASSUME NEW n \in 1 .. Len(Coming) PROVE (all \o t)[n] = Coming[n]
    <3>1. n \in Int /\ n \in 1 .. Len(all) + Len(t)
      BY <1>1, <1>2, <1>4
    <3>2. CASE n <= Len(key_buffer)
      <4>1. n \in 1 .. Len(key_buffer) /\ n <= Len(all)
        BY <1>1, <1>2, <3>1, <3>2
      <4>2. (all \o t)[n] = all[n] /\ Coming[n] = key_buffer[n]
        BY <1>3, <1>4, <3>1, <3>2, <4>1
      <4> QED BY <1>2, <4>1, <4>2
    <3>3. CASE n = Len(key_buffer) + 1
      BY <1>1, <1>2, <1>3, <1>4, <3>1, <3>3
    <3>4. CASE n > Len(key_buffer) + 1
      <4>1. (all \o t)[n] = t[n - Len(all)] /\ n - Len(all) \in 1 .. Len(t)
        BY <1>1, <1>2, <1>3, <3>1, <3>4
      <4>2. t[n - Len(all)] = wire[n - Len(all) + 1]
        BY <1>1, <4>1
      <4>5. n - Len(all) + 1 = n - Len(key_buffer)
        BY <1>1, <1>2, <3>1
      <4>3. Coming[n] = wire[n - Len(key_buffer)]
        BY <1>1, <1>4, <3>1, <3>4
      <4> QED BY <4>1, <4>2, <4>3, <4>5
    <3> QED BY <1>1, <3>1, <3>2, <3>3, <3>4
  <2> QED BY <1>3, <1>4, <2>1, <2>2, SeqEqual
<1>6. t = <<>> => all = Coming
  BY <1>2, <1>5, ConcatEmptySeq
<1>7. Gathered = SubSeq(all, IF Len(all) > 4 THEN 2 ELSE 1, Len(all))
  BY DEF Gathered, all, h
<1>8. /\ Len(Coming) <= 4 => Gathered = all
      /\ Gathered \in Seq(Bytes) /\ Gathered # <<>> /\ Len(Gathered) <= Len(key_buffer) + 1
      /\ Len(key_buffer) <= 4 => Len(Gathered) <= 4
      /\ Len(Gathered) = 1 => key_buffer = <<>> /\ Gathered = <<h>>
  <2>1. CASE Len(all) <= 4
    <3>1. SubSeq(all, 1, Len(all)) = all
      BY <1>2, SubSeqFull
    <3>2. Gathered = all
      BY <1>7, <2>1, <3>1, <1>2
    <3>3. Len(all) = 1 => key_buffer = <<>> /\ all = <<h>>
      BY <1>1, <1>2
    <3> QED BY <1>1, <1>2, <2>1, <3>2, <3>3
  <2>2. CASE Len(all) > 4
    <3>1. /\ Gathered \in Seq(Bytes) /\ Len(Gathered) = Len(all) - 1
      BY <1>2, <1>7, <2>2, SubSeqProperties
    <3>2. Gathered # <<>> /\ Len(Gathered) # 1
      BY <1>2, <2>2, <3>1
    <3>3. Len(Coming) > 4
      BY <1>1, <1>2, <1>4, <2>2
    <3>4. /\ Len(key_buffer) <= 4 => Len(Gathered) <= 4
          /\ Len(Gathered) <= Len(key_buffer) + 1
      BY <1>1, <1>2, <2>2, <3>1
    <3> QED BY <1>4, <3>1, <3>2, <3>3, <3>4
  <2> QED BY <1>1, <1>2, <2>1, <2>2
<1> QED BY <1>2, <1>4, <1>5, <1>6, <1>8 DEF all, h, t

\* Every byte of a key but the last is a prefix.
LEMMA ByteShapes ==
    ASSUME NEW b \in Bytes, b # Ack,
           NEW w, \/ w = <<b>> \/ w = <<\hE0, b>> \/ w = <<\hF0, b>> \/ w = <<\hE0, \hF0, b>>
                  \/ w = <<\hE1, b>> \/ w = <<\hE1, \hF0, b>>
    PROVE  /\ w \in Seq(Bytes) /\ w # <<>> /\ Len(w) <= 3 /\ w # <<Ack>> /\ w[Len(w)] = b
           /\ \A n \in DOMAIN w : (w[n] >= \h80 /\ w[n] # Ack) \/ n = Len(w)
<1>1. CASE w = <<b>>
  BY <1>1 DEF Bytes, Ack
<1>2. CASE w = <<\hE0, b>>
  BY <1>2 DEF Bytes, Ack
<1>3. CASE w = <<\hF0, b>>
  BY <1>3 DEF Bytes, Ack
<1>4. CASE w = <<\hE0, \hF0, b>>
  BY <1>4 DEF Bytes, Ack
<1>5. CASE w = <<\hE1, b>>
  BY <1>5 DEF Bytes, Ack
<1>6. CASE w = <<\hE1, \hF0, b>>
  BY <1>6 DEF Bytes, Ack
<1> QED BY <1>1, <1>2, <1>3, <1>4, <1>5, <1>6

\* So it is of each key of the table.
LEMMA KeyFacts ==
    ASSUME NEW k \in Keys, NEW w \in {Make[k], Break(k)}
    PROVE  /\ w \in Seq(Bytes) /\ w # <<>> /\ Len(w) <= 3 /\ w # <<Ack>>
           /\ \A n \in DOMAIN w : (w[n] >= \h80 /\ w[n] # Ack) \/ n = Len(w)
           /\ k # "f7" => w[Len(w)] < \h80
<1>1. \E b \in Bytes : /\ \/ w = <<b>> \/ w = <<\hE0, b>> \/ w = <<\hF0, b>> \/ w = <<\hE0, \hF0, b>>
                          \/ w = <<\hE1, b>> \/ w = <<\hE1, \hF0, b>>
                       /\ b # Ack /\ (k # "f7" => b < \h80)
  <2>1. CASE k = "caps"
    BY <2>1, MakeFacts, BreakFacts DEF Bytes, Ack
  <2>2. CASE k = "a"
    BY <2>2, MakeFacts, BreakFacts DEF Bytes, Ack
  <2>3. CASE k = "lshift"
    BY <2>3, MakeFacts, BreakFacts DEF Bytes, Ack
  <2>4. CASE k = "rshift"
    BY <2>4, MakeFacts, BreakFacts DEF Bytes, Ack
  <2>5. CASE k = "lctrl"
    BY <2>5, MakeFacts, BreakFacts DEF Bytes, Ack
  <2>6. CASE k = "rctrl"
    BY <2>6, MakeFacts, BreakFacts DEF Bytes, Ack
  <2>7. CASE k = "ralt"
    BY <2>7, MakeFacts, BreakFacts DEF Bytes, Ack
  <2>8. CASE k = "f7"
    BY <2>8, MakeFacts, BreakFacts DEF Bytes, Ack
  <2>9. CASE k = "pause"
    BY <2>9, MakeFacts, BreakFacts DEF Bytes, Ack
  <2> QED BY <2>1, <2>2, <2>3, <2>4, <2>5, <2>6, <2>7, <2>8, <2>9, MakeFacts
<1>2. PICK b \in Bytes : /\ \/ w = <<b>> \/ w = <<\hE0, b>> \/ w = <<\hF0, b>> \/ w = <<\hE0, \hF0, b>>
                           \/ w = <<\hE1, b>> \/ w = <<\hE1, \hF0, b>>
                        /\ b # Ack /\ (k # "f7" => b < \h80)
  BY <1>1
<1>3. /\ w \in Seq(Bytes) /\ w # <<>> /\ Len(w) <= 3 /\ w # <<Ack>> /\ w[Len(w)] = b
      /\ \A n \in DOMAIN w : (w[n] >= \h80 /\ w[n] # Ack) \/ n = Len(w)
  BY <1>2, ByteShapes
<1> QED BY <1>2, <1>3

\* And of the later codes of Pause.
LEMMA PauseFacts ==
    ASSUME NEW n \in 1 .. 3
    PROVE  /\ Later[n] \in Seq(Bytes) /\ Later[n] # <<>> /\ Len(Later[n]) <= 3 /\ Later[n] # <<Ack>>
           /\ \A m \in DOMAIN Later[n] : (Later[n][m] >= \h80 /\ Later[n][m] # Ack) \/ m = Len(Later[n])
           /\ Later[n][Len(Later[n])] < \h80
<1>1. PICK w : w = Later[n]
  OBVIOUS
<1>2. \E b \in Bytes : /\ w = <<b>> \/ w = <<\hF0, b>> \/ w = <<\hE1, \hF0, b>>
                       /\ b # Ack /\ b < \h80
  <2>1. CASE n = 1
    BY <1>1, <2>1, LaterFacts DEF Bytes, Ack
  <2>2. CASE n = 2
    BY <1>1, <2>2, LaterFacts DEF Bytes, Ack
  <2>3. CASE n = 3
    BY <1>1, <2>3, LaterFacts DEF Bytes, Ack
  <2> QED BY <2>1, <2>2, <2>3
<1>3. PICK b \in Bytes : /\ w = <<b>> \/ w = <<\hF0, b>> \/ w = <<\hE1, \hF0, b>>
                        /\ b # Ack /\ b < \h80
  BY <1>2
<1>4. /\ w \in Seq(Bytes) /\ w # <<>> /\ Len(w) <= 3 /\ w # <<Ack>> /\ w[Len(w)] = b
      /\ \A m \in DOMAIN w : (w[m] >= \h80 /\ w[m] # Ack) \/ m = Len(w)
  BY <1>3, ByteShapes
<1> QED BY <1>1, <1>3, <1>4

\* Bytes are numbers.
LEMMA ByteFacts == \A b \in Bytes : b \in Int
  BY DEF Bytes

\* A byte that ends a key, or an answer, is the last one on the wire.
LEMMA WireFacts ==
    ASSUME StateTypeOK, Whole, wire # <<>>
    PROVE  /\ Tail(wire) \in Seq(Bytes) /\ Head(wire) \in Bytes
           /\ Head(wire) < \h80 => Tail(wire) = <<>> /\ wire # <<Ack>>
           /\ Head(wire) = Ack => Tail(wire) = <<>> /\ wire = <<Ack>>
           /\ \A n \in DOMAIN Tail(wire) :
                 (Tail(wire)[n] >= \h80 /\ Tail(wire)[n] # Ack) \/ n = Len(Tail(wire))
<1>1. /\ wire \in Seq(Bytes) /\ Head(wire) = wire[1] /\ Head(wire) \in Bytes
      /\ Tail(wire) \in Seq(Bytes) /\ Len(Tail(wire)) = Len(wire) - 1 /\ Len(wire) \in Nat \ {0}
      /\ \A n \in 1 .. Len(Tail(wire)) : Tail(wire)[n] = wire[n + 1]
  BY HeadTailProperties DEF StateTypeOK
<1>2. Head(wire) < \h80 \/ Head(wire) = Ack => Len(wire) = 1
  <2>1. 1 \in DOMAIN wire
    BY <1>1
  <2>2. (wire[1] >= \h80 /\ wire[1] # Ack) \/ 1 = Len(wire)
    BY <2>1 DEF Whole
  <2>3. wire[1] \in Int /\ Head(wire) = wire[1]
    BY <1>1, ByteFacts
  <2> QED BY <2>2, <2>3
<1>3. ASSUME Len(wire) = 1 PROVE Tail(wire) = <<>> /\ wire = <<Head(wire)>>
  <2>1. Len(Tail(wire)) = 0
    BY <1>1, <1>3
  <2>2. Tail(wire) = <<>>
    BY <1>1, <2>1
  <2>3. wire = <<wire[1]>>
    BY <1>1, <1>3
  <2> QED BY <1>1, <2>2, <2>3
<1>4. ASSUME NEW n \in DOMAIN Tail(wire)
      PROVE  (Tail(wire)[n] >= \h80 /\ Tail(wire)[n] # Ack) \/ n = Len(Tail(wire))
  <2>1. n \in 1 .. Len(wire) - 1 /\ n + 1 \in DOMAIN wire
    BY <1>1
  <2>2. (wire[n + 1] >= \h80 /\ wire[n + 1] # Ack) \/ n + 1 = Len(wire)
    BY <2>1 DEF Whole
  <2> QED BY <1>1, <2>1, <2>2
<1>5. Head(wire) < \h80 => wire # <<Ack>>
  BY <1>1 DEF Ack
<1> QED BY <1>1, <1>2, <1>3, <1>4, <1>5

(***************************************************************************)
(* The bytes of keys: the steps                                             *)
(***************************************************************************)
\* Caps Lock starts an exchange; what it will end in is not known before.
LEMMA LampPress ==
    ASSUME StateIInv, StateNext, LastByte PROVE LampInv'
<1>1. CASE Gathered = <<\h58>>
  <2>1. cmd_state' = 1 /\ inbox' = Append(inbox, SetLed)
    BY <1>1 DEF LastByte
  <2>2. inbox' # <<>>
    <3>1. inbox \in Seq(Bytes) /\ SetLed \in Bytes
      BY DEF StateIInv, StateTypeOK, SetLed, Bytes
    <3> QED BY <2>1, <3>1, AppendProperties
  <2> QED BY <2>1, <2>2 DEF LampInv
<1>2. CASE Gathered # <<\h58>>
  <2>1. "caps" \in keyboard_state' <=> "caps" \in keyboard_state
    BY <1>2 DEF LastByte, Modified
  <2>2. wire # <<Ack>>
    BY DEF LastByte, Ack
  <2> QED BY <1>2, <2>1, <2>2 DEF LastByte, LampInv, StateIInv, StateTypeOK, LampWill, Args
<1> QED BY <1>1, <1>2

\* A key goes down.
LEMMA DownStep ==
    ASSUME StateIInv, NEW k \in Keys, KeyDown(k) PROVE StateIInv'
<1> USE DEF StateIInv
<1>1. /\ Make[k] \in Seq(Bytes) /\ Make[k] # <<>> /\ Make[k] # <<Ack>>
      /\ \A n \in DOMAIN Make[k] : (Make[k][n] >= \h80 /\ Make[k][n] # Ack) \/ n = Len(Make[k])
  BY KeyFacts
<1>2. StateTypeOK'
  BY <1>1, LaterFacts DEF KeyDown, StateTypeOK, Bytes
<1>3. Whole'
  BY <1>1, LaterFacts DEF KeyDown, Whole, Presses
<1>4. ~odd => Coming = <<>> /\ key_buffer = <<>>
  BY ConcatEmptySeq DEF KeyDown, Clean, Coming
<1>5. Coming' = key_buffer \o Make[k] /\ (key_buffer = <<>> => Coming' = Make[k])
  BY <1>1, ConcatEmptySeq DEF KeyDown, Coming
<1>6. Clean'
  BY <1>1, <1>4, <1>5 DEF KeyDown, Clean, Presses
<1>7. ModifiersHeld'
  <2>1. ~odd' => ~odd /\ held \subseteq held' /\ keyboard_state' = keyboard_state
    BY DEF KeyDown, StateTypeOK
  <2>2. <<>> # <<\hF0, \h12>> /\ <<>> # <<\hF0, \h59>> /\ <<>> # <<\hF0, \h14>>
        /\ <<>> # <<\hE0, \hF0, \h14>> /\ <<>> # <<\hE0, \hF0, \h11>>
    OBVIOUS
  <2> HIDE DEF StateIInv
  <2> QED BY <1>4, <2>1, <2>2 DEF ModifiersHeld, StateIInv
<1>8. OnlyPresses' /\ LampInv'
  BY DEF KeyDown, OnlyPresses, LampInv, LampWill, Args
<1> QED BY <1>2, <1>3, <1>6, <1>7, <1>8

\* A key goes up; if it was the last of its modifier, its release is on the wire.
LEMMA UpStep ==
    ASSUME StateIInv, NEW k \in Keys \ {"pause"}, KeyUp(k) PROVE StateIInv'
<1> USE DEF StateIInv
<1>1. /\ Break(k) \in Seq(Bytes) /\ Break(k) # <<>> /\ Break(k) # <<Ack>>
      /\ \A n \in DOMAIN Break(k) : (Break(k)[n] >= \h80 /\ Break(k)[n] # Ack) \/ n = Len(Break(k))
  BY KeyFacts
<1>2. StateTypeOK'
  BY <1>1 DEF KeyUp, StateTypeOK, Bytes
<1>3. Whole'
  BY <1>1 DEF KeyUp, Whole, Releases
<1>4. ~odd => Coming = <<>> /\ key_buffer = <<>>
  BY ConcatEmptySeq DEF KeyUp, Clean, Coming
<1>5. Coming' = key_buffer \o Break(k) /\ (key_buffer = <<>> => Coming' = Break(k))
  BY <1>1, ConcatEmptySeq DEF KeyUp, Coming
<1>6. Clean'
  <2>1. ~odd => k # "f7"
    BY DEF KeyUp, Clean
  <2>2. k # "f7" => Break(k) # Break("f7")
    BY MakeFacts, BreakFacts
  <2> QED BY <1>1, <1>4, <1>5, <2>1, <2>2 DEF KeyUp, Clean, Releases
<1>7. ModifiersHeld'
  <2>1. ~odd' => ~odd /\ Coming' = Break(k) /\ keyboard_state' = keyboard_state
    BY <1>4, <1>5 DEF KeyUp, StateTypeOK
  <2>2. <<>> # <<\hF0, \h12>> /\ <<>> # <<\hF0, \h59>> /\ <<>> # <<\hF0, \h14>>
        /\ <<>> # <<\hE0, \hF0, \h14>> /\ <<>> # <<\hE0, \hF0, \h11>>
    OBVIOUS
  <2>3. held' = held \ {k} /\ k \in held
    BY DEF KeyUp
  <2> HIDE DEF StateIInv
  <2>4. ~odd' /\ "shift" \in keyboard_state' =>
            held' \cap {"lshift", "rshift"} # {} \/ Coming' \in {<<\hF0, \h12>>, <<\hF0, \h59>>}
    BY <1>4, <2>1, <2>2, <2>3, BreakFacts DEF ModifiersHeld, StateIInv
  <2>5. ~odd' /\ "ctrl" \in keyboard_state' =>
            held' \cap {"lctrl", "rctrl"} # {} \/ Coming' \in {<<\hF0, \h14>>, <<\hE0, \hF0, \h14>>}
    BY <1>4, <2>1, <2>2, <2>3, BreakFacts DEF ModifiersHeld, StateIInv
  <2>6. ~odd' /\ "alt" \in keyboard_state' => "ralt" \in held' \/ Coming' = <<\hE0, \hF0, \h11>>
    BY <1>4, <2>1, <2>2, <2>3, BreakFacts DEF ModifiersHeld, StateIInv
  <2> QED BY <2>4, <2>5, <2>6 DEF ModifiersHeld
<1>8. OnlyPresses' /\ LampInv'
  BY DEF KeyUp, OnlyPresses, LampInv, LampWill, Args
<1> QED BY <1>2, <1>3, <1>6, <1>7, <1>8

\* Pause goes up, of which the keyboard says nothing.
LEMMA PauseUpStep ==
    ASSUME StateIInv, KeyUp("pause") PROVE StateIInv'
<1> USE DEF StateIInv
<1>1. /\ wire = <<>> /\ wire' = <<>> /\ rest = 0 /\ rest' = 0 /\ pushed' = 0
      /\ held' = held \ {"pause"}
      /\ UNCHANGED <<key_buffer, keyboard_state, cmd_state, inbox, lamp, odd>>
  BY DEF KeyUp
<1>2. StateTypeOK' /\ Whole'
  BY <1>1 DEF StateTypeOK, Whole, Bytes
<1>3. Coming' = Coming /\ (~odd => Coming = <<>> /\ key_buffer = <<>>)
  BY <1>1, ConcatEmptySeq DEF Clean, Coming
<1>4. Clean'
  BY <1>1, <1>3 DEF Clean
<1>5. ModifiersHeld'
  <2> HIDE DEF StateIInv
  <2>1. ModifiersHeld
    BY DEF StateIInv
  <2>2. held \cap {"lshift", "rshift"} # {} => held' \cap {"lshift", "rshift"} # {}
    BY <1>1
  <2>3. held \cap {"lctrl", "rctrl"} # {} => held' \cap {"lctrl", "rctrl"} # {}
    BY <1>1
  <2>4. "ralt" \in held => "ralt" \in held'
    BY <1>1
  <2> QED BY <1>1, <1>3, <2>1, <2>2, <2>3, <2>4 DEF ModifiersHeld
<1>6. OnlyPresses' /\ LampInv'
  BY <1>1 DEF OnlyPresses, LampInv, LampWill, Args
<1> QED BY <1>2, <1>4, <1>5, <1>6

\* The next code of Pause.
LEMMA PauseStep ==
    ASSUME StateIInv, PauseGoesOn PROVE StateIInv'
<1> USE DEF StateIInv
<1> DEFINE w == Later[rest]
<1>0. rest \in 1 .. 3
  BY LaterFacts DEF PauseGoesOn, StateTypeOK
<1>1. /\ w \in Seq(Bytes) /\ w # <<>> /\ w # <<Ack>>
      /\ \A n \in DOMAIN w : (w[n] >= \h80 /\ w[n] # Ack) \/ n = Len(w)
  BY <1>0, PauseFacts
<1>2. w \notin {<<\hF0, \h12>>, <<\hF0, \h59>>, <<\hF0, \h14>>, <<\hE0, \hF0, \h14>>,
               <<\hE0, \hF0, \h11>>}
  <2>1. CASE rest = 1  BY <2>1, LaterFacts
  <2>2. CASE rest = 2  BY <2>2, LaterFacts
  <2>3. CASE rest = 3  BY <2>3, LaterFacts
  <2> QED BY <1>0, <2>1, <2>2, <2>3
<1>3. /\ wire = <<>> /\ rest' = rest - 1 /\ rest' + 1 = rest /\ "pause" \in held
      /\ pushed' = 0 /\ held' = held
      /\ UNCHANGED <<key_buffer, keyboard_state, cmd_state, inbox, lamp, odd>>
  BY <1>0 DEF PauseGoesOn, Whole
<1>4. wire' = w  BY DEF PauseGoesOn
<1>5. PauseCode' = {w}
  BY <1>0, <1>3 DEF PauseCode
<1> HIDE DEF w
<1>6. StateTypeOK'
  BY <1>0, <1>1, <1>3, <1>4, LaterFacts DEF StateTypeOK, Bytes
<1>7. Whole'
  BY <1>1, <1>3, <1>4, <1>5 DEF Whole
<1>8. ~odd => Coming = <<>> /\ key_buffer = <<>> /\ Coming' = w
  BY <1>1, <1>3, <1>4, ConcatEmptySeq DEF Clean, Coming
<1>9. Clean'
  BY <1>1, <1>3, <1>4, <1>5, <1>8 DEF Clean
<1>10. ModifiersHeld'
  <2>1. <<>> # <<\hF0, \h12>> /\ <<>> # <<\hF0, \h59>> /\ <<>> # <<\hF0, \h14>>
        /\ <<>> # <<\hE0, \hF0, \h14>> /\ <<>> # <<\hE0, \hF0, \h11>>
    OBVIOUS
  <2>2. ModifiersHeld
    OBVIOUS
  <2> HIDE DEF StateIInv
  <2> QED BY <1>3, <1>8, <2>1, <2>2 DEF ModifiersHeld
<1>11. OnlyPresses' /\ LampInv'
  BY <1>1, <1>3, <1>4 DEF OnlyPresses, LampInv, LampWill, Args
<1> QED BY <1>6, <1>7, <1>9, <1>10, <1>11

\* The keyboard answers: what the lamp will show stays the same.
LEMMA AnswerStep ==
    ASSUME StateIInv, Answer PROVE StateIInv'
<1> USE DEF StateIInv
<1>1. /\ Head(inbox) = inbox[1] /\ Tail(inbox) \in Seq(Bytes) /\ Len(Tail(inbox)) = Len(inbox) - 1
      /\ \A n \in 1 .. Len(Tail(inbox)) : Tail(inbox)[n] = inbox[n + 1]
      /\ Head(inbox) \in Bytes /\ Len(inbox) \in Nat \ {0}
  BY HeadTailProperties DEF Answer, StateTypeOK
<1>2. <<Ack>> \in Seq(Bytes) /\ Len(<<Ack>>) = 1 /\ <<Ack>> # <<>>
  BY DEF Ack, Bytes
<1>3. StateTypeOK'
  <2>1. lamp' \in BOOLEAN
    BY DEF Answer, StateTypeOK
  <2> QED BY <1>1, <1>2, <2>1 DEF Answer, StateTypeOK, Bytes
<1>4. Whole'
  BY <1>2 DEF Answer, Whole
<1>5. ~odd => Coming = <<>> /\ key_buffer = <<>> /\ Coming' = <<Ack>>
  BY <1>2, ConcatEmptySeq DEF Answer, Clean, Coming
<1>6. Clean' /\ ModifiersHeld' /\ OnlyPresses'
  BY <1>2, <1>5 DEF Answer, Clean, ModifiersHeld, OnlyPresses
<1>7. ASSUME cmd_state = 0 PROVE LampWill'
  <2>1. \A n \in Args' : n + 1 \in Args /\ inbox'[n] = inbox[n + 1] /\ n \in Nat \ {0}
    BY <1>1 DEF Answer, Args
  <2>2. \A n \in Args : n = 1 \/ (n - 1 \in Args' /\ inbox'[n - 1] = inbox[n])
    BY <1>1 DEF Answer, Args
  <2>3. Args \subseteq Nat
    BY <1>1 DEF Args
  <2>4. LampWill
    BY <1>7 DEF LampInv
  <2>5. CASE Args = {}
    <3>1. Head(inbox) = SetLed
      BY <1>1, <2>5 DEF Args
    <3> QED BY <2>1, <2>4, <2>5, <3>1 DEF LampWill, Answer
  <2>6. ASSUME NEW n \in Args, \A m \in Args : m <= n, inbox[n] # 0 <=> "caps" \in keyboard_state
        PROVE  LampWill'
    <3>1. CASE n = 1
      <4>1. Args' = {}
        BY <2>1, <2>3, <2>6, <3>1
      <4>2. lamp' = (Head(inbox) # 0)
        BY <1>1, <2>6, <3>1 DEF Answer, Args
      <4> QED BY <1>1, <2>6, <3>1, <4>1, <4>2 DEF LampWill, Answer
    <3>2. CASE n # 1
      <4>1. \A m \in Args' : m <= n - 1
        BY <2>1, <2>3, <2>6, <3>2
      <4>2. n - 1 \in Args' /\ inbox'[n - 1] = inbox[n]
        BY <2>2, <2>6, <3>2
      <4> QED BY <2>6, <4>1, <4>2 DEF LampWill, Answer
    <3> QED BY <3>1, <3>2
  <2> QED BY <2>4, <2>5, <2>6 DEF LampWill
<1>8. LampInv'
  BY <1>7 DEF Answer, LampInv
<1> QED BY <1>3, <1>4, <1>6, <1>8

\* The handler takes an answer, and sends the lamps if it is the one to 0xed.
LEMMA AckStep ==
    ASSUME StateIInv, AckByte PROVE StateIInv'
<1> USE DEF StateIInv
<1>1. wire = <<Ack>> /\ wire' = <<>>
  BY WireFacts DEF AckByte
<1> DEFINE led == IF "caps" \in keyboard_state THEN 4 ELSE 0
<1>2. /\ led \in Bytes /\ led # SetLed /\ (led # 0 <=> "caps" \in keyboard_state)
      /\ inbox' = IF cmd_state = 1 THEN Append(inbox, led) ELSE inbox
  BY DEF AckByte, Bytes, SetLed
<1> HIDE DEF led
<1>3. /\ Append(inbox, led) \in Seq(Bytes) /\ Len(Append(inbox, led)) = Len(inbox) + 1
      /\ Append(inbox, led)[Len(inbox) + 1] = led /\ Len(inbox) \in Nat
  BY <1>2, AppendProperties DEF StateTypeOK
<1>4. StateTypeOK'
  BY <1>1, <1>2, <1>3 DEF AckByte, StateTypeOK, Bytes
<1>5. Whole'
  BY <1>1 DEF AckByte, Whole
<1>6. ~odd => key_buffer = <<>> /\ Coming = <<Ack>> /\ Coming' = <<>>
  BY <1>1, ConcatEmptySeq DEF AckByte, Clean, Coming, StateTypeOK
<1>7. Clean'
  BY <1>1, <1>6 DEF AckByte, Clean
<1>8. ModifiersHeld'
  <2>1. /\ <<Ack>> # <<\hF0, \h12>> /\ <<Ack>> # <<\hF0, \h59>> /\ <<Ack>> # <<\hF0, \h14>>
        /\ <<Ack>> # <<\hE0, \hF0, \h14>> /\ <<Ack>> # <<\hE0, \hF0, \h11>>
    BY DEF Ack
  <2>2. odd' = odd /\ held' = held /\ keyboard_state' = keyboard_state
    BY DEF AckByte
  <2>3. ~odd => /\ Coming \notin {<<\hF0, \h12>>, <<\hF0, \h59>>}
                /\ Coming \notin {<<\hF0, \h14>>, <<\hE0, \hF0, \h14>>}
                /\ Coming # <<\hE0, \hF0, \h11>>
    BY <1>6, <2>1
  <2> HIDE DEF StateIInv
  <2>4. ModifiersHeld
    BY DEF StateIInv
  <2> QED BY <2>2, <2>3, <2>4 DEF ModifiersHeld
<1>9. LampInv'
  <2>1. CASE cmd_state = 0
    BY <1>2, <2>1 DEF AckByte, LampInv, LampWill, Args
  <2>2. CASE cmd_state = 1
    <3>1. Len(inbox) + 1 \in Args' /\ \A m \in Args' : m <= Len(inbox) + 1
      BY <1>2, <1>3, <2>2 DEF Args
    <3> QED BY <1>2, <1>3, <2>2, <3>1 DEF AckByte, LampInv, LampWill
  <2> QED BY <2>1, <2>2 DEF StateTypeOK
<1>10. OnlyPresses'
  BY DEF AckByte, OnlyPresses
<1> QED BY <1>4, <1>5, <1>7, <1>8, <1>9, <1>10

\* The handler takes a prefix: the bytes of the key move from wire to buffer.
LEMMA PartStep ==
    ASSUME StateIInv, PartByte PROVE StateIInv'
<1> USE DEF StateIInv
<1>1. /\ wire # <<>> /\ wire \in Seq(Bytes) /\ key_buffer \in Seq(Bytes) /\ Len(key_buffer) <= 4
      /\ wire' = Tail(wire) /\ key_buffer' = Gathered /\ Head(wire) >= \h80
      /\ Head(wire) # Ack /\ wire # <<Ack>>
  BY DEF PartByte, StateTypeOK, Ack
<1>2. /\ Gathered \in Seq(Bytes) /\ Gathered # <<>> /\ Len(Gathered) <= 4
      /\ Append(key_buffer, Head(wire)) \o Tail(wire) = Coming
      /\ Len(Coming) <= 4 => Gathered = Append(key_buffer, Head(wire))
      /\ Coming \in Seq(Bytes) /\ Len(Coming) = Len(key_buffer) + Len(wire)
  BY <1>1, GatherFacts, ConcatProperties DEF Coming
<1>3. /\ Tail(wire) \in Seq(Bytes)
      /\ \A n \in DOMAIN Tail(wire) :
             (Tail(wire)[n] >= \h80 /\ Tail(wire)[n] # Ack) \/ n = Len(Tail(wire))
  BY <1>1, WireFacts
<1>4. StateTypeOK'
  BY <1>1, <1>2, <1>3 DEF PartByte, StateTypeOK, Bytes
<1>5. Whole'
  BY <1>1, <1>2, <1>3 DEF Whole, PartByte
<1>6. ASSUME ~odd PROVE /\ Coming' = Coming /\ wire' # <<Ack>> /\ wire' # <<>>
                        /\ Coming \in Presses \cup (Releases \ {Break("f7")}) \cup PauseCode
  <2>1. Coming \in Presses \cup (Releases \ {Break("f7")}) \cup PauseCode
    <3>1. Coming # <<>>
      BY <1>1, <1>2
    <3>2. Coming # <<Ack>>
      <4> SUFFICES ASSUME Coming = <<Ack>> PROVE FALSE
        OBVIOUS
      <4>1. key_buffer = <<>>
        BY <1>1, <1>2
      <4> QED BY <1>1, <4>1, ConcatEmptySeq DEF Coming
    <3> QED BY <1>6, <3>1, <3>2 DEF Clean
  <2>3. Len(Coming) <= 3 /\ Coming[Len(Coming)] < \h80
    <3>1. CASE Coming \in PauseCode
      <4>1. rest + 1 \in 1 .. 3 /\ Coming = Later[rest + 1]
        BY <3>1, LaterFacts DEF PauseCode, StateTypeOK
      <4> QED BY <4>1, PauseFacts
    <3>2. CASE Coming \notin PauseCode
      <4>1. PICK k \in Keys \ {"f7"} : Coming \in {Make[k], Break(k)}
        BY <1>6, <2>1, <3>2 DEF Clean, Presses, Releases, StateTypeOK
      <4> QED BY <4>1, KeyFacts
    <3> QED BY <3>1, <3>2
  <2>4. Coming' = Coming
    <3>1. Len(Coming) \in Nat
      BY <1>2
    <3>2. Gathered = Append(key_buffer, Head(wire))
      BY <1>2, <2>3, <3>1
    <3>3. Coming' = Gathered \o Tail(wire)
      BY <1>1 DEF Coming
    <3> QED BY <1>2, <3>2, <3>3
  <2>5. Coming[Len(Coming)] = wire[Len(wire)] /\ Len(wire) \in Nat \ {0}
    BY <1>1, <1>2, ConcatProperties DEF Coming
  <2>6. Len(wire) # 1
    <3>1. Head(wire) = wire[1] /\ Head(wire) \in Int
      BY <1>1, HeadTailProperties, ByteFacts
    <3> QED BY <1>1, <2>3, <2>5, <3>1
  <2>7. wire' # <<>> /\ wire'[Len(wire')] = wire[Len(wire)]
    <3>1. /\ Len(wire') = Len(wire) - 1 /\ wire' \in Seq(Bytes)
          /\ \A n \in 1 .. Len(wire') : wire'[n] = wire[n + 1]
      BY <1>1, HeadTailProperties
    <3>2. Len(wire') \in 1 .. Len(wire') /\ Len(wire') + 1 = Len(wire)
      BY <2>5, <2>6, <3>1
    <3> QED BY <3>1, <3>2
  <2>8. wire' # <<Ack>>
    BY <2>3, <2>5, <2>7 DEF Ack
  <2> QED BY <2>1, <2>4, <2>7, <2>8
<1>7. Clean' /\ ModifiersHeld'
  BY <1>6 DEF PartByte, Clean, ModifiersHeld, Presses, Releases, PauseCode
<1>8. OnlyPresses' /\ LampInv'
  BY <1>1 DEF PartByte, OnlyPresses, LampInv, LampWill, Args
<1> QED BY <1>4, <1>5, <1>7, <1>8

\* The handler takes the last byte of a key.
LEMMA LastStep ==
    ASSUME StateIInv, StateNext, LastByte PROVE StateIInv'
<1> USE DEF StateIInv
<1>1. /\ wire # <<>> /\ wire \in Seq(Bytes) /\ key_buffer \in Seq(Bytes) /\ Len(key_buffer) <= 4
      /\ Head(wire) \in Bytes /\ Tail(wire) = <<>> /\ wire # <<Ack>>
      /\ wire' = <<>> /\ key_buffer' = <<>>
  BY WireFacts DEF LastByte, StateTypeOK
<1>2. /\ Gathered \in Seq(Bytes) /\ Gathered # <<>>
      /\ Append(key_buffer, Head(wire)) = Coming
      /\ Len(Coming) <= 4 => Gathered = Coming
      /\ Coming \in Seq(Bytes) /\ Len(Coming) = Len(key_buffer) + Len(wire)
      /\ Len(Gathered) = 1 => key_buffer = <<>> /\ Gathered = <<Head(wire)>>
  BY <1>1, GatherFacts, ConcatProperties DEF Coming
<1>3. Coming' = <<>>
  BY <1>1, ConcatEmptySeq DEF Coming
<1>4. StateTypeOK'
  <2>1. Modified(Gathered) \subseteq {"caps", "shift", "ctrl", "alt"}
    BY DEF Modified, StateTypeOK
  <2>2. Append(inbox, SetLed) \in Seq(Bytes)
    BY DEF StateTypeOK, SetLed, Bytes
  <2>3. pushed' \in Bytes
    BY <1>1 DEF LastByte, Bytes
  <2> QED BY <1>1, <2>1, <2>2, <2>3 DEF LastByte, StateTypeOK, Bytes
<1>5. Whole' /\ Clean'
  BY <1>1, <1>3 DEF LastByte, Whole, Clean
<1>6. ASSUME ~odd PROVE /\ Gathered = Coming
                        /\ \/ Coming \in {Later[1], Later[2], Later[3]}
                           \/ \E k \in Keys : \/ k \in held /\ Coming = Make[k]
                                              \/ k \notin held /\ Coming = Break(k)
  <2>1. Coming # <<>> /\ Coming # <<Ack>>
    <3>1. Coming # <<>>
      BY <1>1, <1>2
    <3>2. ASSUME Coming = <<Ack>> PROVE FALSE
      <4>1. key_buffer = <<>>
        BY <1>1, <1>2, <3>2
      <4> QED BY <1>1, <3>2, <4>1, ConcatEmptySeq DEF Coming
    <3> QED BY <3>1, <3>2
  <2>2. CASE Coming \in PauseCode
    <3>1. rest \in {0, 1, 2} /\ Coming = Later[rest + 1]
      BY <2>2, LaterFacts DEF PauseCode, StateTypeOK
    <3>2. Coming \in {Later[1], Later[2], Later[3]}
      BY <3>1
    <3>3. Len(Coming) <= 3
      BY <3>2, PauseFacts
    <3> QED BY <1>2, <3>2, <3>3
  <2>3. CASE Coming \notin PauseCode
    <3>1. PICK k \in Keys : \/ k \in held /\ Coming = Make[k]
                            \/ k \notin held /\ Coming = Break(k)
      BY <1>6, <2>1, <2>3 DEF Clean, Presses, Releases, StateTypeOK
    <3>2. Len(Coming) <= 3 /\ Len(Coming) \in Nat
      BY <1>2, <3>1, KeyFacts
    <3> QED BY <1>2, <3>1, <3>2
  <2> QED BY <2>2, <2>3
<1>7. ModifiersHeld'
  <2> SUFFICES ASSUME ~odd PROVE ModifiersHeld'
    BY DEF LastByte, ModifiersHeld
  <2>1. /\ keyboard_state' = Modified(Coming) /\ held' = held
        /\ ModifiersHeld
    BY <1>6 DEF LastByte
  <2>2. \/ Coming \in {Later[1], Later[2], Later[3]}
        \/ \E k \in Keys : \/ k \in held /\ Coming = Make[k]
                           \/ k \notin held /\ Coming = Break(k)
    BY <1>6
  <2> HIDE DEF StateIInv
  <2>3. ASSUME "shift" \in Modified(Coming) PROVE held \cap {"lshift", "rshift"} # {}
    <3>1. Coming \notin {<<\hF0, \h12>>, <<\hF0, \h59>>}
      BY <2>3 DEF Modified
    <3>2. "shift" \in keyboard_state \/ Coming \in {<<\h12>>, <<\h59>>}
      BY <2>3 DEF Modified
    <3>3. Coming \in {<<\h12>>, <<\h59>>} => \E k \in held : k \in {"lshift", "rshift"}
      BY <2>2, MakeFacts, BreakFacts, LaterFacts
    <3> QED BY <2>1, <2>2, <3>1, <3>2, <3>3 DEF ModifiersHeld
  <2>4. ASSUME "ctrl" \in Modified(Coming) PROVE held \cap {"lctrl", "rctrl"} # {}
    <3>1. Coming \notin {<<\hF0, \h14>>, <<\hE0, \hF0, \h14>>}
      BY <2>4 DEF Modified
    <3>2. "ctrl" \in keyboard_state \/ Coming \in {<<\h14>>, <<\hE0, \h14>>}
      BY <2>4 DEF Modified
    <3>3. Coming \in {<<\h14>>, <<\hE0, \h14>>} => \E k \in held : k \in {"lctrl", "rctrl"}
      BY <2>2, MakeFacts, BreakFacts, LaterFacts
    <3> QED BY <2>1, <2>2, <3>1, <3>2, <3>3 DEF ModifiersHeld
  <2>5. ASSUME "alt" \in Modified(Coming) PROVE "ralt" \in held
    <3>1. Coming # <<\hE0, \hF0, \h11>>
      BY <2>5 DEF Modified
    <3>2. "alt" \in keyboard_state \/ Coming \in {<<\h11>>, <<\hE0, \h11>>}
      BY <2>5 DEF Modified
    <3>3. Coming \in {<<\h11>>, <<\hE0, \h11>>} => "ralt" \in held
      BY <2>2, MakeFacts, BreakFacts, LaterFacts
    <3> QED BY <2>1, <2>2, <3>1, <3>2, <3>3 DEF ModifiersHeld
  <2> QED BY <2>1, <2>3, <2>4, <2>5 DEF ModifiersHeld
<1>8. OnlyPresses'
  <2> SUFFICES ASSUME pushed' # 0
               PROVE  \/ \E k \in held : Make[k] = <<pushed'>>
                      \/ pushed' = NumLock /\ "pause" \in held /\ rest = 2
    BY DEF LastByte, OnlyPresses
  <2>1. /\ key_buffer = <<>> /\ pushed' = Head(wire) /\ wire = <<Head(wire)>>
        /\ Head(wire) < \h80
    <3>1. Len(Gathered) = 1 /\ pushed' = Head(wire) /\ Head(wire) < \h80
      BY DEF LastByte
    <3>2. key_buffer = <<>> /\ Len(wire) = 1
      BY <1>1, <1>2, <3>1, HeadTailProperties
    <3>3. wire = <<wire[1]>> /\ wire[1] = Head(wire)
      BY <1>1, <3>2
    <3> QED BY <3>1, <3>2, <3>3
  <2>2. wire \in Presses \cup Releases \cup PauseCode
    BY <1>1, <2>1 DEF Whole
  <2>3. \A k \in Keys : Len(Break(k)) # 1
    BY BreakFacts, MakeFacts
  <2>4. wire \notin Releases
    BY <2>1, <2>3 DEF Releases
  <2>5. CASE wire \in PauseCode
    <3>1. "pause" \in held /\ rest \in {0, 1, 2} /\ wire = Later[rest + 1]
      BY <2>5, LaterFacts DEF PauseCode, StateTypeOK
    <3>2. rest = 0 => wire = <<\hF0, \h77>>
      BY <3>1, LaterFacts
    <3>3. rest = 1 => wire = <<\hE1, \hF0, \h14>>
      BY <3>1, LaterFacts
    <3>4. rest = 2 => wire = <<\h77>>
      BY <3>1, LaterFacts
    <3>5. rest = 2 /\ wire = <<\h77>>
      <4>1. Len(wire) = 1  BY <2>1
      <4> QED BY <3>1, <3>2, <3>3, <3>4, <4>1
    <3>6. pushed' = \h77  BY <2>1, <3>5
    <3> QED BY <3>1, <3>5, <3>6 DEF NumLock
  <2> QED BY <2>1, <2>2, <2>4, <2>5 DEF Presses
<1> QED BY <1>4, <1>5, <1>7, <1>8, LampPress

\* Every step keeps the invariant.
LEMMA StateInvStep == StateIInv /\ [StateNext]_stateVars => StateIInv'
<1> SUFFICES ASSUME StateIInv, [StateNext]_stateVars PROVE StateIInv'
  OBVIOUS
<1>1. CASE UNCHANGED stateVars
  <2>1. StateTypeOK' /\ Whole' /\ OnlyPresses'
    BY <1>1 DEF stateVars, StateIInv, StateTypeOK, Whole, OnlyPresses, Presses, Releases, PauseCode
  <2>2. Clean' /\ ModifiersHeld'
    <3>1. /\ Coming' = Coming /\ Presses' = Presses /\ Releases' = Releases
          /\ PauseCode' = PauseCode
      BY <1>1 DEF stateVars, Coming, Presses, Releases, PauseCode
    <3> QED BY <1>1, <3>1 DEF stateVars, StateIInv, Clean, ModifiersHeld
  <2>3. LampInv'
    BY <1>1 DEF stateVars, StateIInv, LampInv, LampWill, Args
  <2> QED BY <2>1, <2>2, <2>3 DEF StateIInv
<1>2. CASE StateNext
  <2>1. ASSUME NEW k \in Keys, KeyUp(k) PROVE StateIInv'
    <3>1. CASE k = "pause"  BY <2>1, <3>1, PauseUpStep
    <3>2. CASE k # "pause"  BY <2>1, <3>2, UpStep
    <3> QED BY <3>1, <3>2
  <2> QED BY <1>2, <2>1, DownStep, PauseStep, AnswerStep, AckStep, PartStep, LastStep
          DEF StateNext, Byte
<1> QED BY <1>1, <1>2

\* It holds at the start.
LEMMA StateInvInit == StateInit => StateIInv
<1> SUFFICES ASSUME StateInit PROVE StateIInv
  OBVIOUS
<1>1. Coming = <<>>
  BY ConcatEmptySeq DEF StateInit, Coming
<1>2. StateTypeOK /\ OnlyPresses
  <2>1. 0 \in Bytes
    BY DEF Bytes
  <2>2. \A S : <<>> \in Seq(S) /\ Len(<<>>) = 0
    OBVIOUS
  <2>3. lamp \in BOOLEAN /\ odd \in BOOLEAN
    BY DEF StateInit
  <2>4. /\ key_buffer \in Seq(Bytes) /\ Len(key_buffer) <= 4 /\ wire \in Seq(Bytes)
        /\ inbox \in Seq(Bytes) /\ pushed = 0
    BY <2>2 DEF StateInit
  <2>5. cmd_state \in {0, 1} /\ rest \in 0 .. Len(Later) /\ held \subseteq Keys /\ keyboard_state \subseteq {"caps", "shift", "ctrl", "alt"}
    BY LaterFacts DEF StateInit
  <2> QED BY <2>1, <2>3, <2>4, <2>5 DEF StateTypeOK, OnlyPresses
<1>3. Whole /\ Clean /\ ModifiersHeld
  BY <1>1 DEF StateInit, Whole, Clean, ModifiersHeld
<1>4. LampInv
  BY DEF StateInit, LampInv, LampWill, Args
<1> QED BY <1>2, <1>3, <1>4 DEF StateIInv

(***************************************************************************)
(* The bytes of keys: the theorems                                          *)
(***************************************************************************)
\* The invariant, for any number of unanswered commands.
THEOREM StateInvariant == StateSpec => []StateIInv
  BY StateInvInit, StateInvStep, PTL DEF StateSpec

\* Between keys no byte is left over and no modifier is on whose keys are all up
\* (the switch of ps2.c:158), unless F7 was used.
THEOREM NoKeyStuck == StateSpec => []NoneStuck
<1>1. StateIInv => NoneStuck
  <2> SUFFICES ASSUME StateIInv PROVE NoneStuck
    OBVIOUS
  <2>1. ~odd /\ wire = <<>> => Coming = <<>> /\ key_buffer = <<>>
    BY ConcatEmptySeq DEF StateIInv, Clean, Coming
  <2>2. <<>> # <<\hF0, \h12>> /\ <<>> # <<\hF0, \h59>> /\ <<>> # <<\hF0, \h14>>
        /\ <<>> # <<\hE0, \hF0, \h14>> /\ <<>> # <<\hE0, \hF0, \h11>>
    OBVIOUS
  <2> QED BY <2>1, <2>2 DEF StateIInv, NoneStuck, ModifiersHeld
<1> QED BY <1>1, StateInvariant, PTL

\* The ring gets the codes of one-byte keys that went down, and 0x77 once for each
\* press of Pause, but no release, no answer and no half of another extended code
\* (ps2.c:147).
THEOREM PressesOnly == StateSpec => []OnlyPresses
<1>1. StateIInv => OnlyPresses
  BY DEF StateIInv
<1> QED BY <1>1, StateInvariant, PTL

\* With everything answered the lamp shows Caps Lock, however many presses ran
\* ahead of the answers (the exchange of keyboard_cmd_state).
THEOREM LampIsCaps == StateSpec => []LampFollows
<1>1. StateIInv => LampFollows
  BY DEF StateIInv, StateTypeOK, LampFollows, LampInv, LampWill, Args
<1> QED BY <1>1, StateInvariant, PTL
================================================================================
