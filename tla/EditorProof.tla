------------------------------ MODULE EditorProof ------------------------------
(***************************************************************************)
(* Proofs about Shell, the prompt and the editor, for any text, files and   *)
(* keys, any size of the screen, of the buffer and of the line.             *)
(***************************************************************************)
EXTENDS Shell, TLAPS, SequenceTheorems, FiniteSetTheorems, WellFoundedInduction

(***************************************************************************)
(* Numbers                                                                  *)
(***************************************************************************)
\* A set of naturals that is not empty has a least element, and one that is bounded
\* a greatest.
LEMMA LeastIs ==
    ASSUME NEW S, S \subseteq Nat, S # {}
    PROVE  Least(S) \in S /\ \A x \in S : Least(S) <= x
<1>1. PICK m \in S : \A x \in S : ~(<<x, m>> \in OpToRel(<, Nat))
  BY NatLessThanWellFounded, WFMin
<1>2. \A x \in S : ~(x < m)
  BY <1>1 DEF OpToRel
<1>3. \A x \in S : m <= x
  BY <1>2
<1> QED BY <1>3 DEF Least

LEMMA GreatestIs ==
    ASSUME NEW n \in Nat, NEW S, S \subseteq 0 .. n, S # {}
    PROVE  Greatest(S) \in S /\ \A x \in S : Greatest(S) >= x
<1> DEFINE B == {n - x : x \in S}
<1>1. Least(B) \in B /\ \A x \in B : Least(B) <= x
  <2>1. ASSUME NEW x \in S PROVE n - x \in Nat
    <3>1. x \in 0 .. n
      OBVIOUS
    <3> QED BY <3>1
  <2>2. B \subseteq Nat
    BY <2>1
  <2>3. B # {}
    OBVIOUS
  <2> HIDE DEF B
  <2> QED BY <2>2, <2>3, LeastIs
<1>2. PICK m \in S : Least(B) = n - m
  BY <1>1
<1>3. \A x \in S : m >= x
  BY <1>1, <1>2
<1> QED BY <1>3 DEF Greatest

\* Induction: a set with 0 and the successor of each of its numbers has them all.
LEMMA Induction ==
    ASSUME NEW S, 0 \in S, \A n \in Nat : n \in S => n + 1 \in S
    PROVE  Nat \subseteq S
<1> DEFINE B == Nat \ S
<1> SUFFICES ASSUME B # {} PROVE FALSE
  OBVIOUS
<1>1. Least(B) \in B /\ \A x \in B : Least(B) <= x
  BY LeastIs
<1>2. PICK m \in B : \A x \in B : m <= x
  BY <1>1
<1>3. m \in Nat /\ m # 0
  BY <1>2
<1>4. m - 1 \in Nat /\ m - 1 \in S
  BY <1>2, <1>3
<1>5. m - 1 + 1 = m
  BY <1>3
<1> QED BY <1>2, <1>4, <1>5

(***************************************************************************)
(* load_file                                                                *)
(***************************************************************************)
Chars == Keys \cup {CR}

\* The characters kept of the first n of d.
KeptStep(f, d, n) ==
    IF n = 0 THEN <<>> ELSE IF d[n] = CR THEN f[n - 1] ELSE Append(f[n - 1], d[n])

\* load_file leaves keys only.
LEMMA KeptKeys ==
    ASSUME NEW d \in Seq(Chars) PROVE Kept(d) \in Seq(Keys)
<1> DEFINE Is(f, n) == f \in [0 .. n -> Seq(Keys)] /\ \A i \in 0 .. n : f[i] = KeptStep(f, d, i)
           S == {n \in Nat : n <= Len(d) => \E f : Is(f, n)}
<1>1. 0 \in S
  <2> DEFINE f == [i \in 0 .. 0 |-> <<>>]
  <2>1. <<>> \in Seq(Keys)
    OBVIOUS
  <2>2. Is(f, 0)
    BY <2>1 DEF KeptStep
  <2> QED BY <2>2
<1>2. ASSUME NEW n \in Nat, n \in S PROVE n + 1 \in S
  <2>1. ASSUME n + 1 <= Len(d) PROVE \E f : Is(f, n + 1)
    <3>1. PICK f : Is(f, n)
      BY <1>2, <2>1
    <3>2. d[n + 1] \in Chars
      BY <2>1
    <3>3. f[n] \in Seq(Keys)
      BY <3>1
    <3>4. KeptStep(f, d, n + 1) \in Seq(Keys)
      <4>1. d[n + 1] # CR => d[n + 1] \in Keys
        BY <3>2 DEF Chars
      <4>2. d[n + 1] \in Keys => Append(f[n], d[n + 1]) \in Seq(Keys)
        BY <3>3
      <4> QED BY <3>3, <4>1, <4>2 DEF KeptStep
    <3> DEFINE g == [i \in 0 .. n + 1 |-> IF i = n + 1 THEN KeptStep(f, d, n + 1) ELSE f[i]]
    <3>5. g \in [0 .. n + 1 -> Seq(Keys)]
      BY <3>1, <3>4
    <3>6. \A i \in 0 .. n : g[i] = f[i]
      OBVIOUS
    <3>7. ASSUME NEW i \in 0 .. n + 1 PROVE g[i] = KeptStep(g, d, i)
      <4>1. KeptStep(g, d, i) = KeptStep(f, d, i)
        <5>1. i # 0 => i - 1 \in 0 .. n
          OBVIOUS
        <5> HIDE DEF g
        <5> QED BY <3>6, <5>1 DEF KeptStep
      <4>2. CASE i = n + 1
        BY <4>1, <4>2
      <4>3. CASE i # n + 1
        BY <3>1, <4>1, <4>3
      <4> QED BY <4>2, <4>3
    <3> HIDE DEF g
    <3> QED BY <3>5, <3>7
  <2> QED
    <3> HIDE DEF Is
    <3> QED BY <2>1
<1>3. PICK f : Is(f, Len(d))
  <2>1. Nat \subseteq S
    <3> HIDE DEF S
    <3> QED BY <1>1, <1>2, Induction
  <2>2. Len(d) \in Nat
    OBVIOUS
  <2>3. Len(d) \in S
    BY <2>1, <2>2
  <2> HIDE DEF Is
  <2> QED BY <2>3
<1> DEFINE Fun(h) == [n \in 0 .. Len(d) |->
                        IF n = 0 THEN <<>> ELSE IF d[n] = CR THEN h[n - 1] ELSE Append(h[n - 1], d[n])]
           upto == CHOOSE h : h = Fun(h)
<1>4. f = Fun(f)
  BY <1>3 DEF KeptStep
<1>5. upto = Fun(upto)
  BY <1>4
<1>6. Kept(d) = upto[Len(d)]
  BY DEF Kept
<1>7. \A i \in 0 .. Len(d) : upto[i] = KeptStep(upto, d, i)
  <2> HIDE DEF upto
  <2> QED BY <1>5 DEF KeptStep
<1> HIDE DEF upto, Fun
<1> DEFINE T == {n \in Nat : n <= Len(d) => upto[n] \in Seq(Keys)}
<1>8. 0 \in T
  <2>1. 0 \in 0 .. Len(d) /\ <<>> \in Seq(Keys)
    OBVIOUS
  <2>2. upto[0] = <<>>
    BY <1>7, <2>1 DEF KeptStep
  <2> QED BY <2>1, <2>2
<1>9. ASSUME NEW n \in Nat, n \in T PROVE n + 1 \in T
  <2> SUFFICES ASSUME n + 1 <= Len(d) PROVE upto[n + 1] \in Seq(Keys)
    OBVIOUS
  <2>1. d[n + 1] \in Chars /\ upto[n] \in Seq(Keys)
    BY <1>9
  <2>2. d[n + 1] # CR => d[n + 1] \in Keys
    BY <2>1 DEF Chars
  <2>3. d[n + 1] \in Keys => Append(upto[n], d[n + 1]) \in Seq(Keys)
    BY <2>1
  <2>4. upto[n + 1] = KeptStep(upto, d, n + 1)
    BY <1>7
  <2> QED BY <2>1, <2>2, <2>3, <2>4 DEF KeptStep
<1>10. Nat \subseteq T
  <2> HIDE DEF T
  <2> QED BY <1>8, <1>9, Induction
<1> QED BY <1>6, <1>10

(***************************************************************************)
(* screen_flush: the places of the characters                               *)
(***************************************************************************)
Cells  == [row : Nat, column : Nat]
Origin == [row |-> 0, column |-> 0]

\* A character takes a row or none; where it begins one its column is 0, and what
\* it adds to a place depends on the column only.
LEMMA AfterFacts ==
    ASSUME NEW ch, NEW p \in Cells
    PROVE  /\ After(ch, p) \in Cells
           /\ After(ch, p).row \in {p.row, p.row + 1}
           /\ ch = NL => After(ch, p).row = p.row + 1
           /\ After(ch, p).row = p.row + 1 => After(ch, p).column = 0
           /\ \A q \in Cells : q.column = p.column =>
                /\ After(ch, q).column = After(ch, p).column
                /\ After(ch, q).row - q.row = After(ch, p).row - p.row
<1> DEFINE Column(c) == CASE ch = NL -> 0 [] ch = CR -> c [] ch = Tab -> (c \div 4) * 4 + 4
                          [] OTHER -> c + 1
<1>1. \A c \in Nat : Column(c) \in Nat
  <2>1. ASSUME NEW c \in Nat PROVE (c \div 4) * 4 + 4 \in Nat
    BY Z3
  <2> QED BY <2>1
<1>2. \A q \in Cells : After(ch, q) = IF ch = NL \/ Column(q.column) = COLUMN_LEN
                                      THEN [row |-> q.row + 1, column |-> 0]
                                      ELSE [row |-> q.row, column |-> Column(q.column)]
  BY DEF After
<1>3. \A q \in Cells : q.row \in Nat /\ q.column \in Nat
  BY DEF Cells
<1> HIDE DEF Column
<1>4. CASE ch = NL \/ Column(p.column) = COLUMN_LEN
  <2>1. After(ch, p) = [row |-> p.row + 1, column |-> 0]
    BY <1>2, <1>4
  <2>2. \A q \in Cells : q.column = p.column => After(ch, q) = [row |-> q.row + 1, column |-> 0]
    BY <1>2, <1>4
  <2>3. After(ch, p) \in Cells
    BY <1>3, <2>1 DEF Cells
  <2> QED BY <1>3, <2>1, <2>2, <2>3
<1>5. CASE ~(ch = NL \/ Column(p.column) = COLUMN_LEN)
  <2>1. After(ch, p) = [row |-> p.row, column |-> Column(p.column)]
    BY <1>2, <1>5
  <2>2. \A q \in Cells : q.column = p.column =>
            After(ch, q) = [row |-> q.row, column |-> Column(p.column)]
    BY <1>2, <1>5
  <2>3. After(ch, p) \in Cells
    BY <1>1, <1>3, <2>1 DEF Cells
  <2> QED BY <1>3, <1>5, <2>1, <2>2, <2>3
<1> QED BY <1>4, <1>5

PlaceStep(f, t, from, loc) == IF loc = from THEN Origin ELSE After(At(t, loc - 1), f[loc - 1])

\* Places is defined: by the place of the first character and of each from the one
\* before it.
LEMMA PlacesAre ==
    ASSUME NEW t \in Seq(Keys), NEW from \in 0 .. Len(t)
    PROVE  /\ Places(t, from) \in [from .. Len(t) -> Cells]
           /\ Places(t, from)[from] = Origin
           /\ \A loc \in from .. Len(t) - 1 :
                Places(t, from)[loc + 1] = After(At(t, loc), Places(t, from)[loc])
<1> DEFINE Is(f, n) == /\ f \in [from .. from + n -> Cells]
                       /\ \A loc \in from .. from + n : f[loc] = PlaceStep(f, t, from, loc)
           S == {n \in Nat : from + n <= Len(t) => \E f : Is(f, n)}
<1>0. Origin \in Cells
  BY DEF Origin, Cells
<1>1. 0 \in S
  <2> DEFINE f == [loc \in from .. from + 0 |-> Origin]
  <2>1. Is(f, 0)
    BY <1>0 DEF PlaceStep
  <2> QED BY <2>1
<1>2. ASSUME NEW n \in Nat, n \in S PROVE n + 1 \in S
  <2>1. ASSUME from + (n + 1) <= Len(t) PROVE \E f : Is(f, n + 1)
    <3>1. PICK f : Is(f, n)
      BY <1>2, <2>1
    <3>2. f[from + n] \in Cells
      BY <3>1
    <3> DEFINE last == After(At(t, from + n), f[from + n])
               g == [loc \in from .. from + (n + 1) |-> IF loc = from + (n + 1) THEN last ELSE f[loc]]
    <3>3. last \in Cells
      BY <3>2, AfterFacts
    <3>4. g \in [from .. from + (n + 1) -> Cells]
      <4> HIDE DEF last
      <4> QED BY <3>1, <3>3
    <3>5. \A loc \in from .. from + n : g[loc] = f[loc]
      OBVIOUS
    <3>6. g[from + (n + 1)] = last
      OBVIOUS
    <3> HIDE DEF g
    <3>7. ASSUME NEW loc \in from .. from + (n + 1) PROVE g[loc] = PlaceStep(g, t, from, loc)
      <4>1. CASE loc = from + (n + 1)
        <5>1. loc - 1 = from + n /\ loc # from
          BY <4>1
        <5>2. g[loc - 1] = f[from + n]
          BY <3>5, <5>1
        <5> QED BY <3>6, <4>1, <5>1, <5>2 DEF PlaceStep
      <4>2. CASE loc # from + (n + 1)
        <5>1. loc \in from .. from + n
          BY <4>2
        <5>2. loc # from => loc - 1 \in from .. from + n
          BY <5>1
        <5>3. PlaceStep(g, t, from, loc) = PlaceStep(f, t, from, loc)
          BY <3>5, <5>2 DEF PlaceStep
        <5> QED BY <3>1, <3>5, <5>1, <5>3
      <4> QED BY <4>1, <4>2
    <3> QED BY <3>4, <3>7
  <2> QED
    <3> HIDE DEF Is
    <3> QED BY <2>1
<1>3. PICK f : Is(f, Len(t) - from)
  <2>1. Nat \subseteq S
    <3> HIDE DEF S
    <3> QED BY <1>1, <1>2, Induction
  <2>2. Len(t) - from \in Nat /\ from + (Len(t) - from) <= Len(t)
    OBVIOUS
  <2>3. Len(t) - from \in S
    BY <2>1, <2>2
  <2> HIDE DEF Is
  <2> QED BY <2>2, <2>3
<1>4. from + (Len(t) - from) = Len(t)
  OBVIOUS
<1> DEFINE Fun(h) == [loc \in from .. Len(t) |-> IF loc = from THEN [row |-> 0, column |-> 0]
                                                 ELSE After(At(t, loc - 1), h[loc - 1])]
           at == CHOOSE h : h = Fun(h)
<1>5. f = Fun(f)
  BY <1>3, <1>4 DEF PlaceStep, Origin
<1>6. at = Fun(at)
  BY <1>5
<1>7. Places(t, from) = at
  BY DEF Places
<1>8. \A loc \in from .. Len(t) : at[loc] = PlaceStep(at, t, from, loc)
  <2> HIDE DEF at
  <2> QED BY <1>6 DEF PlaceStep, Origin
<1>9. at[from] = Origin
  BY <1>8 DEF PlaceStep
<1>10. \A loc \in from .. Len(t) - 1 : at[loc + 1] = After(At(t, loc), at[loc])
  <2> SUFFICES ASSUME NEW loc \in from .. Len(t) - 1 PROVE at[loc + 1] = After(At(t, loc), at[loc])
    OBVIOUS
  <2>1. loc + 1 \in from .. Len(t) /\ loc + 1 # from /\ loc + 1 - 1 = loc
    OBVIOUS
  <2> HIDE DEF at
  <2> QED BY <1>8, <2>1 DEF PlaceStep
<1> HIDE DEF Is
<1>11. DOMAIN at = from .. Len(t) /\ at = [loc \in from .. Len(t) |-> at[loc]]
  <2> HIDE DEF at
  <2> QED BY <1>6
<1> HIDE DEF at, Fun
<1> DEFINE T == {n \in Nat : from + n <= Len(t) => at[from + n] \in Cells}
<1>12. 0 \in T
  BY <1>0, <1>9
<1>13. ASSUME NEW n \in Nat, n \in T PROVE n + 1 \in T
  <2>1. ASSUME from + (n + 1) <= Len(t) PROVE at[from + (n + 1)] \in Cells
    <3>1. at[from + n] \in Cells
      BY <1>13, <2>1
    <3>2. from + n \in from .. Len(t) - 1 /\ from + n + 1 = from + (n + 1)
      BY <2>1
    <3>3. at[from + (n + 1)] = After(At(t, from + n), at[from + n])
      BY <1>10, <3>2
    <3> QED BY <3>1, <3>3, AfterFacts
  <2> QED BY <2>1
<1>14. Nat \subseteq T
  <2> HIDE DEF T
  <2> QED BY <1>12, <1>13, Induction
<1>15. ASSUME NEW loc \in from .. Len(t) PROVE at[loc] \in Cells
  <2>1. loc - from \in T /\ from + (loc - from) = loc
    BY <1>14
  <2> QED BY <2>1
<1>16. at \in [from .. Len(t) -> Cells]
  BY <1>11, <1>15
<1> QED BY <1>7, <1>9, <1>10, <1>16

(***************************************************************************)
(* Rows and lines                                                           *)
(***************************************************************************)
Row(t, loc) == Places(t, 0)[loc].row

\* A place where a line of t begins.
Begins(t, loc) == loc = 0 \/ At(t, loc - 1) = NL

\* Each character stands in the row of the one before it or in the next one; a
\* newline ends a row, and if no line is wider than the screen nothing else does.
LEMMA RowFacts ==
    ASSUME NEW t \in Seq(Keys)
    PROVE  /\ \A loc \in 0 .. Len(t) : Places(t, 0)[loc] \in Cells /\ Row(t, loc) \in Nat
           /\ Row(t, 0) = 0
           /\ \A loc \in 0 .. Len(t) - 1 :
                /\ Row(t, loc + 1) \in {Row(t, loc), Row(t, loc) + 1}
                /\ At(t, loc) = NL => Row(t, loc + 1) = Row(t, loc) + 1
                /\ (Narrow(t) /\ loc + 1 < Len(t) /\ At(t, loc) # NL) =>
                        Row(t, loc + 1) = Row(t, loc)
           /\ \A loc \in 0 .. Len(t) : Begins(t, loc) => Places(t, 0)[loc].column = 0
<1>0. 0 \in 0 .. Len(t)
  OBVIOUS
<1> DEFINE P == Places(t, 0)
<1>1. /\ P \in [0 .. Len(t) -> Cells] /\ P[0] = Origin
      /\ \A loc \in 0 .. Len(t) - 1 : P[loc + 1] = After(At(t, loc), P[loc])
  BY <1>0, PlacesAre
<1>2. \A p \in Cells : p.row \in Nat
  BY DEF Cells
<1>3. \A loc \in 0 .. Len(t) : P[loc] \in Cells /\ P[loc].row \in Nat
  <2> HIDE DEF P
  <2> QED BY <1>1, <1>2
<1>4. P[0].row = 0 /\ P[0].column = 0
  BY <1>1 DEF Origin
<1>5. ASSUME NEW loc \in 0 .. Len(t) - 1
      PROVE  /\ P[loc + 1].row \in {P[loc].row, P[loc].row + 1}
             /\ At(t, loc) = NL => P[loc + 1].row = P[loc].row + 1
             /\ P[loc + 1].row = P[loc].row + 1 => P[loc + 1].column = 0
  <2>1. P[loc] \in Cells
    BY <1>3
  <2>2. P[loc + 1] = After(At(t, loc), P[loc])
    BY <1>1
  <2> HIDE DEF P
  <2> QED BY <2>1, <2>2, AfterFacts
<1>6. ASSUME NEW loc \in 0 .. Len(t) - 1, Narrow(t), loc + 1 < Len(t), At(t, loc) # NL
      PROVE  P[loc + 1].row = P[loc].row
  <2>1. loc + 1 \in 1 .. Len(t) - 1 /\ loc + 1 - 1 = loc
    BY <1>6
  <2>2. P[loc + 1].column # 0
    BY <1>6, <2>1 DEF Narrow
  <2> HIDE DEF P
  <2> QED BY <1>5, <2>2
<1>7. ASSUME NEW loc \in 0 .. Len(t), Begins(t, loc) PROVE P[loc].column = 0
  <2>1. CASE loc = 0
    BY <1>4, <2>1
  <2>2. CASE loc # 0
    <3>1. loc - 1 \in 0 .. Len(t) - 1 /\ loc - 1 + 1 = loc /\ At(t, loc - 1) = NL
      BY <1>7, <2>2 DEF Begins
    <3>2. P[loc].row = P[loc - 1].row + 1 /\ (P[loc].row = P[loc - 1].row + 1 => P[loc].column = 0)
      BY <1>5, <3>1
    <3> QED BY <3>2
  <2> QED BY <2>1, <2>2
<1>8. \A loc : Row(t, loc) = P[loc].row
  BY DEF Row
<1> HIDE DEF P
<1>9. \A loc : Places(t, 0)[loc] = P[loc]
  BY DEF P
<1> QED BY <1>3, <1>4, <1>5, <1>6, <1>7, <1>8, <1>9

\* Rows grow with the text.
LEMMA RowGrows ==
    ASSUME NEW t \in Seq(Keys), NEW i \in 0 .. Len(t), NEW j \in i .. Len(t)
    PROVE  Row(t, i) <= Row(t, j)
<1> DEFINE S == {n \in Nat : i + n <= Len(t) => Row(t, i) <= Row(t, i + n)}
<1>0. \A loc \in 0 .. Len(t) : Row(t, loc) \in Nat
  BY RowFacts
<1>1. 0 \in S
  <2>1. i + 0 = i /\ i \in 0 .. Len(t)
    OBVIOUS
  <2>2. Row(t, i) <= Row(t, i + 0)
    BY <1>0, <2>1
  <2> QED BY <2>2
<1>2. ASSUME NEW n \in Nat, n \in S PROVE n + 1 \in S
  <2>1. ASSUME i + (n + 1) <= Len(t) PROVE Row(t, i) <= Row(t, i + (n + 1))
    <3>1. i + n \in 0 .. Len(t) - 1 /\ i + n + 1 = i + (n + 1) /\ i + n \in 0 .. Len(t)
      BY <2>1
    <3>2. Row(t, i) <= Row(t, i + n)
      BY <1>2, <3>1
    <3>3. Row(t, i + n + 1) \in {Row(t, i + n), Row(t, i + n) + 1}
      BY <3>1, RowFacts
    <3>4. Row(t, i) \in Nat /\ Row(t, i + n) \in Nat
      BY <1>0, <3>1
    <3> QED BY <3>1, <3>2, <3>3, <3>4
  <2> QED BY <2>1
<1>3. Nat \subseteq S
  <2> HIDE DEF S
  <2> QED BY <1>1, <1>2, Induction
<1>4. j - i \in S /\ i + (j - i) = j
  BY <1>3
<1> QED BY <1>4

\* Among characters none of which is a newline there is one row.
LEMMA SameRow ==
    ASSUME NEW t \in Seq(Keys), Narrow(t), NEW i \in 0 .. Len(t) - 1, NEW j \in i .. Len(t) - 1,
           \A loc \in i .. j - 1 : At(t, loc) # NL
    PROVE  Row(t, j) = Row(t, i)
<1> DEFINE S == {n \in Nat : i + n <= j => Row(t, i + n) = Row(t, i)}
<1>1. 0 \in S
  <2>1. i + 0 = i
    OBVIOUS
  <2> QED BY <2>1
<1>2. ASSUME NEW n \in Nat, n \in S PROVE n + 1 \in S
  <2>1. ASSUME i + (n + 1) <= j PROVE Row(t, i + (n + 1)) = Row(t, i)
    <3>1. /\ i + n \in 0 .. Len(t) - 1 /\ i + n + 1 = i + (n + 1) /\ i + n \in i .. j - 1
          /\ i + n + 1 < Len(t)
      BY <2>1
    <3>2. Row(t, i + n) = Row(t, i)
      BY <1>2, <3>1
    <3>3. At(t, i + n) # NL
      BY <3>1
    <3>4. Row(t, i + n + 1) = Row(t, i + n)
      BY <3>1, <3>3, RowFacts
    <3> QED BY <3>1, <3>2, <3>4
  <2> QED BY <2>1
<1>3. Nat \subseteq S
  <2> HIDE DEF S
  <2> QED BY <1>1, <1>2, Induction
<1>4. j - i \in S /\ i + (j - i) = j
  BY <1>3
<1> QED BY <1>4

\* Drawn from the beginning of a line, the characters have the columns they have
\* in the whole text, and rows counted from that line's.
LEMMA ShiftedPlaces ==
    ASSUME NEW t \in Seq(Keys), NEW from \in 0 .. Len(t), Begins(t, from),
           NEW loc \in from .. Len(t)
    PROVE  /\ Places(t, from)[loc].row = Row(t, loc) - Row(t, from)
           /\ Places(t, from)[loc].column = Places(t, 0)[loc].column
<1> DEFINE P == Places(t, 0)
           Q == Places(t, from)
           Same(n) == /\ Q[n].row = P[n].row - P[from].row /\ Q[n].column = P[n].column
           S == {n \in Nat : from + n <= Len(t) => Same(from + n)}
<1>0. 0 \in 0 .. Len(t)
  OBVIOUS
<1>1. /\ P \in [0 .. Len(t) -> Cells]
      /\ \A l \in 0 .. Len(t) - 1 : P[l + 1] = After(At(t, l), P[l])
  BY <1>0, PlacesAre
<1>2. /\ Q \in [from .. Len(t) -> Cells] /\ Q[from] = Origin
      /\ \A l \in from .. Len(t) - 1 : Q[l + 1] = After(At(t, l), Q[l])
  BY PlacesAre
<1>3. P[from].column = 0 /\ \A l \in 0 .. Len(t) : P[l].row \in Nat
  BY RowFacts DEF Row
<1> HIDE DEF P, Q
<1>4. 0 \in S
  <2>1. from + 0 = from /\ from \in 0 .. Len(t)
    OBVIOUS
  <2>2. Same(from)
    BY <1>2, <1>3, <2>1 DEF Origin
  <2> QED BY <2>1, <2>2
<1>5. ASSUME NEW n \in Nat, n \in S PROVE n + 1 \in S
  <2>1. ASSUME from + (n + 1) <= Len(t) PROVE Same(from + (n + 1))
    <3>1. PICK l \in from .. Len(t) - 1 : l = from + n
      BY <2>1
    <3>2. l + 1 = from + (n + 1) /\ l \in 0 .. Len(t) - 1 /\ l \in 0 .. Len(t) /\ l + 1 \in 0 .. Len(t)
      BY <3>1
    <3>3. Same(l)
      BY <1>5, <3>1
    <3>4. P[l] \in Cells /\ Q[l] \in Cells
      BY <1>1, <1>2, <3>2
    <3>5. P[l + 1] = After(At(t, l), P[l]) /\ Q[l + 1] = After(At(t, l), Q[l])
      BY <1>1, <1>2, <3>2
    <3>6. Q[l + 1].column = P[l + 1].column /\ Q[l + 1].row - Q[l].row = P[l + 1].row - P[l].row
      BY <3>3, <3>4, <3>5, AfterFacts
    <3>7. /\ P[l].row \in Nat /\ P[l + 1].row \in Nat /\ P[from].row \in Nat /\ Q[l].row \in Nat
          /\ Q[l + 1].row \in Nat
      <4>1. Q[l + 1] \in Cells
        BY <1>2, <3>2
      <4> QED BY <1>3, <3>2, <3>4, <4>1 DEF Cells
    <3>8. Q[l + 1].row = P[l + 1].row - P[from].row
      <4>1. Q[l].row = P[l].row - P[from].row
        BY <3>3
      <4>2. Q[l + 1].row - Q[l].row = P[l + 1].row - P[l].row
        BY <3>6
      <4>3. PICK a \in Nat, b \in Nat, c \in Nat, d \in Nat, e \in Nat :
                /\ a = P[from].row /\ b = P[l].row /\ c = P[l + 1].row
                /\ d = Q[l].row /\ e = Q[l + 1].row
        BY <3>7
      <4>4. d = b - a
        BY <4>1, <4>3
      <4>5. e - d = c - b
        BY <4>2, <4>3
      <4>6. e = c - a
        BY <4>4, <4>5
      <4> QED BY <4>3, <4>6
    <3>9. Q[l + 1].column = P[l + 1].column
      BY <3>6
    <3> QED BY <3>2, <3>8, <3>9
  <2> QED BY <2>1
<1>6. Nat \subseteq S
  <2> HIDE DEF S
  <2> QED BY <1>4, <1>5, Induction
<1>7. loc - from \in S /\ from + (loc - from) = loc
  BY <1>6
<1>8. Same(loc)
  BY <1>7
<1> QED BY <1>8 DEF Row, P, Q

\* Texts that begin alike have the same rows there.
LEMMA SamePrefix ==
    ASSUME NEW t \in Seq(Keys), NEW u \in Seq(Keys), NEW n \in 0 .. Len(t), n <= Len(u),
           \A loc \in 0 .. n - 1 : At(t, loc) = At(u, loc),
           NEW loc \in 0 .. n
    PROVE  Row(t, loc) = Row(u, loc)
<1> DEFINE P == Places(t, 0)
           Q == Places(u, 0)
           S == {i \in Nat : i <= n => P[i] = Q[i]}
<1>0. 0 \in 0 .. Len(t) /\ 0 \in 0 .. Len(u)
  OBVIOUS
<1>1. P[0] = Origin /\ \A l \in 0 .. Len(t) - 1 : P[l + 1] = After(At(t, l), P[l])
  BY <1>0, PlacesAre
<1>2. Q[0] = Origin /\ \A l \in 0 .. Len(u) - 1 : Q[l + 1] = After(At(u, l), Q[l])
  BY <1>0, PlacesAre
<1> HIDE DEF P, Q
<1>3. 0 \in S
  BY <1>1, <1>2
<1>4. ASSUME NEW i \in Nat, i \in S PROVE i + 1 \in S
  <2>1. ASSUME i + 1 <= n PROVE P[i + 1] = Q[i + 1]
    <3>1. i \in 0 .. Len(t) - 1 /\ i \in 0 .. Len(u) - 1 /\ i \in 0 .. n - 1
      BY <2>1
    <3>2. P[i] = Q[i] /\ At(t, i) = At(u, i)
      BY <1>4, <3>1
    <3> QED BY <1>1, <1>2, <3>1, <3>2
  <2> QED BY <2>1
<1>5. Nat \subseteq S
  <2> HIDE DEF S
  <2> QED BY <1>3, <1>4, Induction
<1>6. P[loc] = Q[loc]
  BY <1>5
<1> QED BY <1>6 DEF Row, P, Q

\* Flush ends the page before the first character that stands ROW_LEN rows below
\* the page's first.
LEMMA FlushIs ==
    ASSUME NEW t \in Seq(Keys), NEW from \in 0 .. Len(t), Begins(t, from)
    PROVE  /\ Flush(t, from) \in from .. Len(t)
           /\ \A c \in from .. Len(t) - 1 : c < Flush(t, from) <=> Row(t, c) < Row(t, from) + ROW_LEN
<1> DEFINE S == {loc \in from .. Len(t) : loc = Len(t) \/ Places(t, from)[loc].row >= ROW_LEN}
           f == Flush(t, from)
<1>1. S \subseteq Nat /\ S # {}
  <2>1. Len(t) \in S
    OBVIOUS
  <2> QED BY <2>1
<1>2. f = Least(S)
  BY DEF Flush
<1>3. f \in S /\ \A x \in S : f <= x
  <2> HIDE DEF S, f
  <2> QED BY <1>1, <1>2, LeastIs
<1>4. ROW_LEN \in Nat \ {0}
  BY EditorAssumption
<1>5. f \in from .. Len(t)
  BY <1>3
<1>6. \A loc \in from .. Len(t) : Places(t, from)[loc].row = Row(t, loc) - Row(t, from)
  BY ShiftedPlaces
<1>7. \A loc \in from .. Len(t) : Row(t, loc) \in Nat /\ loc \in 0 .. Len(t)
  BY RowFacts
<1>8. ASSUME NEW c \in from .. Len(t) - 1 PROVE c < f <=> Row(t, c) < Row(t, from) + ROW_LEN
  <2>0. Row(t, c) \in Nat /\ Row(t, from) \in Nat /\ c \in from .. Len(t)
    BY <1>7
  <2>1. ASSUME c < f PROVE Row(t, c) < Row(t, from) + ROW_LEN
    <3>1. c \notin S
      <4> HIDE DEF S
      <4> QED BY <1>3, <1>5, <2>1
    <3>2. ~(Places(t, from)[c].row >= ROW_LEN)
      BY <2>0, <3>1
    <3>3. Places(t, from)[c].row = Row(t, c) - Row(t, from)
      BY <1>6, <2>0
    <3> QED BY <1>4, <2>0, <3>2, <3>3
  <2>2. ASSUME f <= c PROVE ~(Row(t, c) < Row(t, from) + ROW_LEN)
    <3>1. f # Len(t)
      BY <1>5, <2>2
    <3>2. Places(t, from)[f].row >= ROW_LEN
      BY <1>3, <3>1
    <3>3. Places(t, from)[f].row = Row(t, f) - Row(t, from)
      BY <1>5, <1>6
    <3>4. Row(t, f) <= Row(t, c)
      <4>1. f \in 0 .. Len(t) /\ c \in f .. Len(t)
        BY <1>5, <2>2
      <4> HIDE DEF f
      <4> QED BY <4>1, RowGrows
    <3>5. Row(t, f) \in Nat
      BY <1>5, <1>7
    <3> HIDE DEF f
    <3> QED BY <1>4, <2>0, <3>2, <3>3, <3>4, <3>5
  <2>3. c < f \/ f <= c
    BY <1>5
  <2> HIDE DEF f
  <2> QED BY <2>1, <2>2, <2>3, <1>5
<1> QED BY <1>5, <1>8

\* The start of a line, looked for upwards, and its end, looked for downwards.
LEMMA LineStartIs ==
    ASSUME NEW t \in Seq(Keys), NEW loc \in 0 .. Len(t)
    PROVE  /\ LineStart(t, loc) \in 0 .. loc /\ Begins(t, LineStart(t, loc))
           /\ \A l \in 0 .. loc : Begins(t, l) => l <= LineStart(t, loc)
<1> DEFINE S == {l \in 0 .. loc : l = 0 \/ At(t, l - 1) = NL}
           s == LineStart(t, loc)
<1>1. 0 \in S
  OBVIOUS
<1>2. s = Greatest(S)
  BY DEF LineStart
<1>3. s \in S /\ \A x \in S : s >= x
  <2>1. S \subseteq 0 .. loc /\ S # {} /\ loc \in Nat
    BY <1>1
  <2> HIDE DEF S, s
  <2> QED BY <1>2, <2>1, GreatestIs
<1>4. s \in 0 .. loc /\ Begins(t, s)
  BY <1>3 DEF Begins
<1>5. ASSUME NEW l \in 0 .. loc, Begins(t, l) PROVE l <= s
  <2>1. l \in S
    BY <1>5 DEF Begins
  <2>2. s >= l
    <3> HIDE DEF S, s
    <3> QED BY <1>3, <2>1
  <2> HIDE DEF s
  <2> QED BY <1>4, <2>2
<1> QED BY <1>4, <1>5

LEMMA LineEndIs ==
    ASSUME NEW t \in Seq(Keys), NEW loc \in 0 .. Len(t)
    PROVE  /\ LineEnd(t, loc) \in loc .. Len(t)
           /\ LineEnd(t, loc) = Len(t) \/ At(t, LineEnd(t, loc)) = NL
           /\ \A l \in loc .. LineEnd(t, loc) - 1 : At(t, l) # NL
<1> DEFINE S == {l \in loc .. Len(t) : l = Len(t) \/ At(t, l) = NL}
           e == LineEnd(t, loc)
<1>1. S \subseteq Nat /\ S # {}
  <2>1. Len(t) \in S
    OBVIOUS
  <2> QED BY <2>1
<1>2. e = Least(S)
  BY DEF LineEnd
<1>3. e \in S /\ \A x \in S : e <= x
  <2> HIDE DEF S, e
  <2> QED BY <1>1, <1>2, LeastIs
<1>4. e \in loc .. Len(t) /\ (e = Len(t) \/ At(t, e) = NL)
  BY <1>3
<1>5. ASSUME NEW l \in loc .. e - 1 PROVE At(t, l) # NL
  <2>1. l \in loc .. Len(t) /\ l < e
    <3> HIDE DEF e, S
    <3> QED BY <1>4
  <2>2. l \notin S
    <3> HIDE DEF e, S
    <3> QED BY <1>3, <1>4, <2>1
  <2> QED BY <2>1, <2>2
<1> QED BY <1>4, <1>5

\* A text as the editor keeps it: it ends in a newline.
Ends(t) == t \in Seq(Keys) /\ t # <<>> /\ t[Len(t)] = NL

\* The line after that of c begins one row below, behind the newline that ends it.
LEMMA NextLineIs ==
    ASSUME NEW t, Ends(t), Narrow(t), NEW c \in 0 .. Len(t) - 1
    PROVE  /\ LineEnd(t, c) \in c .. Len(t) - 1
           /\ At(t, LineEnd(t, c)) = NL
           /\ Row(t, LineEnd(t, c)) = Row(t, c)
           /\ Row(t, LineEnd(t, c) + 1) = Row(t, c) + 1
<1> USE DEF Ends
<1> DEFINE e == LineEnd(t, c)
<1>0. Len(t) \in Nat /\ Len(t) >= 1 /\ At(t, Len(t) - 1) = NL
  BY DEF At
<1>1. /\ e \in c .. Len(t) /\ (e = Len(t) \/ At(t, e) = NL)
      /\ \A l \in c .. e - 1 : At(t, l) # NL
  BY <1>0, LineEndIs
<1> HIDE DEF e
<1>2. e \in c .. Len(t) - 1
  <2>1. CASE e = Len(t)
    <3>1. Len(t) - 1 \in c .. e - 1
      BY <1>0, <2>1
    <3> QED BY <1>0, <1>1, <3>1
  <2> QED BY <1>1, <2>1
<1>3. At(t, e) = NL
  BY <1>1, <1>2
<1>4. Row(t, e) = Row(t, c)
  BY <1>1, <1>2, SameRow
<1>5. Row(t, e + 1) = Row(t, e) + 1
  <2>1. e \in 0 .. Len(t) - 1
    BY <1>2
  <2> QED BY <1>3, <2>1, RowFacts
<1> QED BY <1>2, <1>3, <1>4, <1>5 DEF e

(***************************************************************************)
(* Deleted and Inserted                                                     *)
(***************************************************************************)
LEMMA ConcatIs ==
    ASSUME NEW S, NEW a \in Seq(S), NEW b \in Seq(S)
    PROVE  /\ a \o b \in Seq(S) /\ Len(a \o b) = Len(a) + Len(b)
           /\ \A i \in 1 .. Len(a) : (a \o b)[i] = a[i]
           /\ \A i \in 1 .. Len(b) : (a \o b)[Len(a) + i] = b[i]
<1>1. /\ a \o b \in Seq(S) /\ Len(a \o b) = Len(a) + Len(b)
      /\ \A i \in 1 .. Len(a) + Len(b) : (a \o b)[i] = IF i <= Len(a) THEN a[i] ELSE b[i - Len(a)]
  BY ConcatProperties
<1>2. PICK m \in Nat, n \in Nat : m = Len(a) /\ n = Len(b)
  OBVIOUS
<1> DEFINE u == a \o b
<1> HIDE DEF u
<1>3. \A i \in 1 .. m + n : u[i] = IF i <= m THEN a[i] ELSE b[i - m]
  BY <1>1, <1>2 DEF u
<1>4. ASSUME NEW i \in 1 .. m PROVE u[i] = a[i]
  <2>1. i \in 1 .. m + n /\ i <= m
    OBVIOUS
  <2> QED BY <1>3, <2>1
<1>5. ASSUME NEW i \in 1 .. n PROVE u[m + i] = b[i]
  <2>1. m + i \in 1 .. m + n /\ ~(m + i <= m) /\ m + i - m = i
    OBVIOUS
  <2> QED BY <1>3, <2>1
<1> QED BY <1>1, <1>2, <1>4, <1>5 DEF u

LEMMA DeletedIs ==
    ASSUME NEW t \in Seq(Keys), NEW site \in 0 .. Len(t) - 1
    PROVE  /\ Deleted(t, site) \in Seq(Keys)
           /\ Len(Deleted(t, site)) = Len(t) - 1
           /\ \A loc \in 0 .. site - 1 : At(Deleted(t, site), loc) = At(t, loc)
           /\ \A loc \in site .. Len(t) - 2 : At(Deleted(t, site), loc) = At(t, loc + 1)
<1> DEFINE a == SubSeq(t, 1, site)
           b == SubSeq(t, site + 2, Len(t))
           n == Len(t) - site - 1
<1>0. Len(t) \in Nat /\ site \in Nat /\ n \in Nat
  OBVIOUS
<1>1. a \in Seq(Keys) /\ Len(a) = site /\ \A i \in 1 .. site : a[i] = t[i]
  BY <1>0, SubSeqProperties
<1>2. b \in Seq(Keys) /\ Len(b) = n /\ \A i \in 1 .. n : b[i] = t[site + 1 + i]
  BY <1>0, SubSeqProperties
<1> DEFINE u == a \o b
<1>3. Deleted(t, site) = u
  BY DEF Deleted
<1> HIDE DEF a, b, u
<1>4. /\ u \in Seq(Keys) /\ Len(u) = site + n
      /\ \A i \in 1 .. site : u[i] = a[i]
      /\ \A i \in 1 .. n : u[site + i] = b[i]
  <2>1. /\ u \in Seq(Keys) /\ Len(u) = Len(a) + Len(b)
        /\ \A i \in 1 .. Len(a) : u[i] = a[i]
        /\ \A i \in 1 .. Len(b) : u[Len(a) + i] = b[i]
    <3>1. a \in Seq(Keys) /\ b \in Seq(Keys)
      BY <1>1, <1>2
    <3>2. /\ a \o b \in Seq(Keys) /\ Len(a \o b) = Len(a) + Len(b)
          /\ \A i \in 1 .. Len(a) : (a \o b)[i] = a[i]
          /\ \A i \in 1 .. Len(b) : (a \o b)[Len(a) + i] = b[i]
      BY <3>1, ConcatIs
    <3> QED BY <3>2 DEF u
  <2> HIDE DEF n
  <2> QED BY <1>1, <1>2, <2>1
<1>5. ASSUME NEW loc \in 0 .. site - 1 PROVE u[loc + 1] = t[loc + 1]
  <2>1. loc + 1 \in 1 .. site
    BY <1>0
  <2> QED BY <1>1, <1>4, <2>1
<1>6. ASSUME NEW loc \in site .. Len(t) - 2 PROVE u[loc + 1] = t[loc + 1 + 1]
  <2> DEFINE i == loc + 1 - site
  <2>1. i \in 1 .. n /\ site + i = loc + 1 /\ site + 1 + i = loc + 1 + 1
    BY <1>0
  <2> HIDE DEF i, n
  <2>2. u[site + i] = b[i] /\ b[i] = t[site + 1 + i]
    BY <1>2, <1>4, <2>1
  <2> QED BY <2>1, <2>2
<1>7. site + n = Len(t) - 1
  BY <1>0
<1> QED BY <1>3, <1>4, <1>5, <1>6, <1>7 DEF At

LEMMA InsertedIs ==
    ASSUME NEW t \in Seq(Keys), NEW site \in 0 .. Len(t), NEW k \in Keys
    PROVE  /\ Inserted(t, site, k) \in Seq(Keys)
           /\ Len(Inserted(t, site, k)) = Len(t) + 1
           /\ \A loc \in 0 .. site - 1 : At(Inserted(t, site, k), loc) = At(t, loc)
           /\ \A loc \in site + 1 .. Len(t) : At(Inserted(t, site, k), loc) = At(t, loc - 1)
<1> DEFINE a == SubSeq(t, 1, site)
           b == SubSeq(t, site + 1, Len(t))
           m == <<k>>
           n == Len(t) - site
<1>0. Len(t) \in Nat /\ site \in Nat /\ n \in Nat
  OBVIOUS
<1>1. a \in Seq(Keys) /\ Len(a) = site /\ \A i \in 1 .. site : a[i] = t[i]
  BY <1>0, SubSeqProperties
<1>2. b \in Seq(Keys) /\ Len(b) = n /\ \A i \in 1 .. n : b[i] = t[site + i]
  BY <1>0, SubSeqProperties
<1>3. m \in Seq(Keys) /\ Len(m) = 1
  OBVIOUS
<1> DEFINE v == a \o m
           u == v \o b
<1>4. Inserted(t, site, k) = u
  BY DEF Inserted
<1> HIDE DEF a, b, m, v, u
<1>5. v \in Seq(Keys) /\ Len(v) = site + 1 /\ \A i \in 1 .. site : v[i] = a[i]
  <2>1. /\ v \in Seq(Keys) /\ Len(v) = Len(a) + Len(m)
        /\ \A i \in 1 .. Len(a) : v[i] = a[i]
    BY <1>1, <1>3, ConcatIs DEF v
  <2> QED BY <1>1, <1>3, <2>1
<1>6. /\ u \in Seq(Keys) /\ Len(u) = site + 1 + n
      /\ \A i \in 1 .. site + 1 : u[i] = v[i]
      /\ \A i \in 1 .. n : u[site + 1 + i] = b[i]
  <2>1. /\ u \in Seq(Keys) /\ Len(u) = Len(v) + Len(b)
        /\ \A i \in 1 .. Len(v) : u[i] = v[i]
        /\ \A i \in 1 .. Len(b) : u[Len(v) + i] = b[i]
    <3>1. v \in Seq(Keys) /\ b \in Seq(Keys)
      BY <1>2, <1>5
    <3>2. /\ v \o b \in Seq(Keys) /\ Len(v \o b) = Len(v) + Len(b)
          /\ \A i \in 1 .. Len(v) : (v \o b)[i] = v[i]
          /\ \A i \in 1 .. Len(b) : (v \o b)[Len(v) + i] = b[i]
      BY <3>1, ConcatIs
    <3> QED BY <3>2 DEF u
  <2> HIDE DEF n
  <2> QED BY <1>2, <1>5, <2>1
<1>7. ASSUME NEW loc \in 0 .. site - 1 PROVE u[loc + 1] = t[loc + 1]
  <2>1. loc + 1 \in 1 .. site /\ loc + 1 \in 1 .. site + 1
    BY <1>0
  <2> QED BY <1>1, <1>5, <1>6, <2>1
<1>8. ASSUME NEW loc \in site + 1 .. Len(t) PROVE u[loc + 1] = t[loc - 1 + 1]
  <2> DEFINE i == loc - site
  <2>1. i \in 1 .. n /\ site + 1 + i = loc + 1 /\ site + i = loc - 1 + 1
    BY <1>0
  <2> HIDE DEF i, n
  <2>2. u[site + 1 + i] = b[i] /\ b[i] = t[site + i]
    BY <1>2, <1>6, <2>1
  <2> QED BY <2>1, <2>2
<1>9. site + 1 + n = Len(t) + 1
  BY <1>0
<1> QED BY <1>4, <1>6, <1>7, <1>8, <1>9 DEF At

(***************************************************************************)
(* The page follows the cursor                                              *)
(***************************************************************************)
Shown(t, page, c) == page \in 0 .. c /\ Begins(t, page) /\ c < Flush(t, page)

\* Where a key may leave the cursor c for the page to find it: at most one row
\* below the page, or in the line above it.
Near(t, c, end) ==
    \/ /\ page_location \in 0 .. c /\ Begins(t, page_location)
       /\ Row(t, c) <= Row(t, page_location) + ROW_LEN
       /\ c < end <=> c < Flush(t, page_location)
    \/ /\ page_location \in c + 1 .. Len(t)
       /\ LineStart(t, page_location - 1) <= c

LEMMA FollowShows ==
    ASSUME NEW t, Ends(t), Narrow(t), NEW c \in 0 .. Len(t) - 1, NEW end \in Nat,
           Near(t, c, end)
    PROVE  Shown(t, Follow(t, c, end), c)
<1>0. t \in Seq(Keys) /\ Len(t) \in Nat /\ Len(t) >= 1
  BY DEF Ends
<1>1. ROW_LEN \in Nat /\ ROW_LEN >= 1
  BY EditorAssumption
<1>2. \A loc \in 0 .. Len(t) : Row(t, loc) \in Nat
  BY <1>0, RowFacts
<1> DEFINE page == page_location
<1>3. CASE /\ page \in 0 .. c /\ Begins(t, page)
           /\ Row(t, c) <= Row(t, page) + ROW_LEN
           /\ c < end <=> c < Flush(t, page)
  <2>1. CASE c < end
    <3>1. Follow(t, c, end) = page
      BY <1>3, <2>1 DEF Follow, Down
    <3> QED BY <1>3, <2>1, <3>1 DEF Shown
  <2>2. CASE ~(c < end)
    <3> DEFINE e == LineEnd(t, page)
    <3>1. page \in 0 .. Len(t) - 1 /\ page \in 0 .. Len(t) /\ c \in page .. Len(t) - 1
      BY <1>3
    <3>2. Follow(t, c, end) = NextLine(t, page)
      BY <1>3, <2>2 DEF Follow, Down
    <3>3. ~(Row(t, c) < Row(t, page) + ROW_LEN)
      BY <1>0, <1>3, <2>2, <3>1, FlushIs
    <3>4. /\ e \in page .. Len(t) - 1 /\ At(t, e) = NL /\ Row(t, e) = Row(t, page)
          /\ Row(t, e + 1) = Row(t, page) + 1
      BY <3>1, NextLineIs
    <3>5. Row(t, c) \in Nat /\ Row(t, page) \in Nat
      BY <1>2, <3>1
    <3> HIDE DEF e
    <3>6. e + 1 <= c
      <4> SUFFICES ASSUME c <= e PROVE FALSE
        BY <3>1, <3>4
      <4>1. e \in c .. Len(t) /\ c \in 0 .. Len(t)
        BY <3>1, <3>4
      <4>2. Row(t, c) <= Row(t, e)
        BY <1>0, <4>1, RowGrows
      <4> QED BY <1>1, <3>3, <3>4, <3>5, <4>2
    <3>7. Follow(t, c, end) = e + 1
      BY <3>1, <3>2, <3>4, <3>6 DEF NextLine, e
    <3>8. e + 1 \in 0 .. c /\ e + 1 \in 0 .. Len(t) /\ c \in e + 1 .. Len(t) - 1
      BY <3>1, <3>4, <3>6
    <3>9. Begins(t, e + 1)
      <4>1. e + 1 - 1 = e
        BY <3>4
      <4> QED BY <3>4, <4>1 DEF Begins
    <3>10. Row(t, c) < Row(t, e + 1) + ROW_LEN
      BY <1>1, <1>3, <3>4, <3>5
    <3>11. c < Flush(t, e + 1)
      BY <1>0, <3>8, <3>9, <3>10, FlushIs
    <3> QED BY <3>7, <3>8, <3>9, <3>11 DEF Shown
  <2> QED BY <2>1, <2>2
<1>4. CASE page \in c + 1 .. Len(t) /\ LineStart(t, page - 1) <= c
  <2> DEFINE s == LineStart(t, page - 1)
  <2>1. page - 1 \in 0 .. Len(t) /\ ~(page <= 0) /\ c < page
    BY <1>0, <1>4
  <2>2. Follow(t, c, end) = s
    BY <2>1 DEF Follow, Up, PrevLine
  <2>3. s \in 0 .. page - 1 /\ Begins(t, s) /\ \A l \in 0 .. page - 1 : Begins(t, l) => l <= s
    BY <1>0, <2>1, LineStartIs
  <2>4. s <= c
    BY <1>4
  <2> HIDE DEF s
  <2>5. \A loc \in s .. c - 1 : At(t, loc) # NL
    <3> SUFFICES ASSUME NEW loc \in s .. c - 1, At(t, loc) = NL PROVE FALSE
      OBVIOUS
    <3>1. loc + 1 \in 0 .. page - 1 /\ loc + 1 - 1 = loc /\ ~(loc + 1 <= s)
      BY <1>4, <2>3
    <3> QED BY <2>3, <3>1 DEF Begins
  <2>6. s \in 0 .. Len(t) - 1 /\ c \in s .. Len(t) - 1 /\ s \in 0 .. Len(t) /\ s \in 0 .. c
    BY <2>3, <2>4
  <2>7. Row(t, c) = Row(t, s)
    BY <1>0, <2>5, <2>6, SameRow
  <2>8. Row(t, c) < Row(t, s) + ROW_LEN
    BY <1>1, <1>2, <2>6, <2>7
  <2>9. c < Flush(t, s)
    BY <1>0, <2>3, <2>6, <2>8, FlushIs
  <2> QED BY <2>2, <2>3, <2>6, <2>9 DEF Shown
<1> QED BY <1>3, <1>4 DEF Near

(***************************************************************************)
(* The invariant of the editor                                              *)
(***************************************************************************)
Modes == {"command", "insert", "last line", "left"}

TextTyped ==
    /\ text \in Seq(Keys) /\ Len(text) <= BUFFER_SIZE /\ astray \in BOOLEAN
    /\ Editing => /\ Ends(text)
                  /\ cursor_location \in -1 .. Len(text) - 1
                  /\ page_location \in 0 .. Len(text) - 1
                  /\ page_end = Flush(text, page_location)
                  /\ page_end \in page_location .. Len(text)
\* As long as the cursor has not got lost.
CursorOK == Editing /\ ~astray => /\ cursor_location >= 0
                                  /\ Shown(text, page_location, cursor_location)
TextOK == TextTyped /\ CursorOK
\* The file changes when the editor ends, not before.
DiskOK == Editing => disk \in Files

EditorInv == mode \in Modes /\ TextOK /\ DiskOK

LEMMA EndsAt ==
    ASSUME NEW t \in Seq(Keys)
    PROVE  Ends(t) <=> Len(t) >= 1 /\ At(t, Len(t) - 1) = NL
<1>1. Len(t) \in Nat /\ (t # <<>> <=> Len(t) >= 1)
  OBVIOUS
<1>2. Len(t) - 1 + 1 = Len(t)
  BY <1>1
<1> QED BY <1>1, <1>2 DEF Ends, At

\* What the invariant says of a running editor.
LEMMA Around ==
    ASSUME TextTyped, Editing
    PROVE  /\ text \in Seq(Keys) /\ Ends(text) /\ Len(text) \in Nat /\ Len(text) >= 1
           /\ Len(text) <= BUFFER_SIZE /\ BUFFER_SIZE \in Nat /\ astray \in BOOLEAN
           /\ cursor_location \in -1 .. Len(text) - 1
           /\ page_location \in 0 .. Len(text) - 1 /\ page_location \in 0 .. Len(text)
           /\ page_end = Flush(text, page_location)
           /\ page_end \in page_location .. Len(text) /\ page_end \in Nat
<1>1. /\ text \in Seq(Keys) /\ Ends(text) /\ Len(text) <= BUFFER_SIZE /\ astray \in BOOLEAN
      /\ cursor_location \in -1 .. Len(text) - 1
      /\ page_location \in 0 .. Len(text) - 1
      /\ page_end = Flush(text, page_location) /\ page_end \in page_location .. Len(text)
  BY DEF TextTyped
<1>2. Len(text) \in Nat /\ Len(text) >= 1
  BY <1>1, EndsAt
<1>3. page_location \in Nat /\ page_location \in 0 .. Len(text) /\ page_end \in Nat
  <2> HIDE DEF Editing
  <2>1. page_location \in 0 .. Len(text) - 1 /\ page_end \in page_location .. Len(text)
    BY <1>1
  <2> QED BY <1>2, <2>1
<1> QED BY <1>1, <1>2, <1>3, EditorAssumption

\* And of one that has not lost the cursor.
LEMMA Here ==
    ASSUME TextOK, Editing, ~astray
    PROVE  /\ text \in Seq(Keys) /\ Ends(text) /\ Len(text) \in Nat /\ Len(text) >= 1
           /\ cursor_location \in 0 .. Len(text) - 1
           /\ page_location \in 0 .. cursor_location /\ Begins(text, page_location)
           /\ page_end = Flush(text, page_location) /\ page_end \in page_location .. Len(text)
           /\ cursor_location < page_end
           /\ Row(text, page_location) \in Nat
           /\ Row(text, cursor_location) \in Nat
           /\ Row(text, cursor_location) < Row(text, page_location) + ROW_LEN
<1>0. TextTyped
  BY DEF TextOK
<1>1. /\ text \in Seq(Keys) /\ Ends(text) /\ Len(text) \in Nat /\ Len(text) >= 1
      /\ cursor_location \in 0 .. Len(text) - 1
      /\ page_location \in 0 .. cursor_location /\ Begins(text, page_location)
      /\ cursor_location < Flush(text, page_location)
      /\ page_end = Flush(text, page_location)
  <2>1. cursor_location >= 0 /\ Shown(text, page_location, cursor_location)
    BY DEF TextOK, CursorOK
  <2> QED BY <1>0, <2>1, Around DEF Shown
<1>3. /\ page_location \in 0 .. Len(text) /\ cursor_location \in 0 .. Len(text)
      /\ cursor_location \in page_location .. Len(text) - 1
  BY <1>1
<1>4. /\ Flush(text, page_location) \in page_location .. Len(text)
      /\ Row(text, cursor_location) < Row(text, page_location) + ROW_LEN
  BY <1>1, <1>3, FlushIs
<1>5. Row(text, page_location) \in Nat /\ Row(text, cursor_location) \in Nat
  BY <1>1, <1>3, RowFacts
<1> QED BY <1>1, <1>4, <1>5

LEMMA InvGives == EditorInv => EndsInLine /\ CursorShown
<1> SUFFICES ASSUME EditorInv PROVE EndsInLine /\ CursorShown
  OBVIOUS
<1>1. mode \in Modes /\ TextOK /\ TextTyped
  BY DEF EditorInv, TextOK
<1>2. Editing => Ends(text)
  BY <1>1, Around
<1>3. ASSUME Editing
      PROVE  /\ cursor_location \in -1 .. Len(text) - 1
             /\ page_location \in 0 .. Len(text) - 1
             /\ page_end \in page_location .. Len(text)
  BY <1>1, <1>3, Around
<1>4. TypeOK
  BY <1>1, <1>3 DEF TypeOK, TextTyped, Modes
<1>5. EndsInLine
  BY <1>2, <1>4 DEF EndsInLine, Ends
<1>6. ASSUME Editing, ~astray
      PROVE  /\ PageAtLine /\ page_location <= cursor_location
             /\ cursor_location < page_end /\ page_end = Flush(text, page_location)
  BY <1>1, <1>6, Here DEF PageAtLine, Begins
<1> QED BY <1>5, <1>6 DEF CursorShown

\* The page moves within the text.
LEMMA PrevLineIn ==
    ASSUME NEW t \in Seq(Keys), NEW loc \in 0 .. Len(t), Len(t) >= 1
    PROVE  PrevLine(t, loc) \in 0 .. Len(t) - 1
<1>1. CASE loc = 0
  BY <1>1 DEF PrevLine
<1>2. CASE loc # 0
  <2> DEFINE m == loc - 1
  <2>1. PrevLine(t, loc) = LineStart(t, m)
    BY <1>2 DEF PrevLine
  <2>2. m \in 0 .. Len(t) /\ m <= Len(t) - 1
    BY <1>2
  <2> HIDE DEF m
  <2>3. LineStart(t, m) \in 0 .. m
    BY <2>2, LineStartIs
  <2> QED BY <2>1, <2>2, <2>3
<1> QED BY <1>1, <1>2

LEMMA NextLineIn ==
    ASSUME NEW t \in Seq(Keys), NEW loc \in 0 .. Len(t) - 1
    PROVE  NextLine(t, loc) \in 0 .. Len(t) - 1
<1> DEFINE e == LineEnd(t, loc)
<1>1. e \in loc .. Len(t)
  BY LineEndIs
<1>2. NextLine(t, loc) = IF e + 1 < Len(t) THEN e + 1 ELSE loc
  BY DEF NextLine
<1> HIDE DEF e
<1> QED BY <1>1, <1>2

\* A page that begins behind the text begins behind the cursor: it moves up.
LEMMA UpIn ==
    ASSUME NEW t \in Seq(Keys), NEW c \in -1 .. Len(t) - 1, Len(t) >= 1, page_location \in 0 .. Len(t)
    PROVE  Up(t, c) \in 0 .. Len(t) - 1
<1>1. CASE c < page_location
  BY <1>1, PrevLineIn DEF Up
<1>2. CASE ~(c < page_location)
  BY <1>2 DEF Up
<1> QED BY <1>1, <1>2

LEMMA FollowIn ==
    ASSUME NEW t \in Seq(Keys), NEW c \in -1 .. Len(t) - 1, NEW end, Len(t) >= 1,
           page_location \in 0 .. Len(t)
    PROVE  Follow(t, c, end) \in 0 .. Len(t) - 1
<1>1. CASE c < page_location
  BY <1>1, UpIn DEF Follow
<1>2. CASE ~(c < page_location)
  <2>1. page_location \in 0 .. Len(t) - 1 /\ Follow(t, c, end) = Down(t, c, end)
    BY <1>2 DEF Follow
  <2> QED BY <2>1, NextLineIn DEF Down
<1> QED BY <1>1, <1>2

LEMMA FlushIn ==
    ASSUME NEW t \in Seq(Keys), NEW from \in 0 .. Len(t)
    PROVE  Flush(t, from) \in from .. Len(t)
<1> DEFINE S == {loc \in from .. Len(t) : loc = Len(t) \/ Places(t, from)[loc].row >= ROW_LEN}
<1>1. S \subseteq Nat /\ S # {} /\ S \subseteq from .. Len(t)
  <2>1. Len(t) \in S
    OBVIOUS
  <2> QED BY <2>1
<1>2. Flush(t, from) = Least(S)
  BY DEF Flush
<1> HIDE DEF S
<1> QED BY <1>1, <1>2, LeastIs

\* Show keeps the invariant, if the key left the cursor near, or lost it.
LEMMA ShowKeeps ==
    ASSUME TextTyped, NEW t, NEW c \in -1 .. Len(t) - 1, NEW page \in 0 .. Len(t) - 1,
           Ends(t), Len(t) <= BUFFER_SIZE, Show(t, c, page),
           ~astray /\ c >= 0 /\ Narrow(t) =>
                \E end \in Nat : Near(t, c, end) /\ page = Follow(t, c, end)
    PROVE  TextOK'
<1>1. /\ text' = t /\ cursor_location' = c /\ page_location' = page
      /\ page_end' = Flush(t, page) /\ astray' = (astray \/ c < 0 \/ ~Narrow(t))
  BY DEF Show
<1>2. t \in Seq(Keys) /\ astray \in BOOLEAN /\ Len(t) \in Nat
  BY DEF Ends, TextTyped
<1>3. page \in 0 .. Len(t) /\ Flush(t, page) \in page .. Len(t)
  <2>1. page \in 0 .. Len(t)
    BY <1>2
  <2> QED BY <1>2, <2>1, FlushIn
<1>4. TextTyped'
  BY <1>1, <1>2, <1>3 DEF TextTyped
<1>5. CursorOK'
  <2> SUFFICES ASSUME ~astray' PROVE cursor_location' >= 0 /\ Shown(text', page_location', cursor_location')
    BY DEF CursorOK
  <2>1. ~astray /\ ~(c < 0) /\ Narrow(t)
    BY <1>1
  <2>2. c >= 0 /\ c \in 0 .. Len(t) - 1
    BY <2>1, <1>2
  <2>3. PICK end \in Nat : Near(t, c, end) /\ page = Follow(t, c, end)
    BY <2>1, <2>2
  <2>4. Shown(t, page, c)
    BY <2>1, <2>2, <2>3, FollowShows
  <2> QED BY <1>1, <2>2, <2>4
<1> QED BY <1>4, <1>5 DEF TextOK

\* The cursor moved in the text, and not above the page.
LEMMA NearInText ==
    ASSUME TextOK, Editing, ~astray, NEW c \in page_location .. Len(text) - 1,
           Row(text, c) <= Row(text, page_location) + ROW_LEN
    PROVE  Near(text, c, page_end)
<1>1. page_location \in 0 .. c /\ Begins(text, page_location) /\ page_end = Flush(text, page_location)
  BY Here
<1> QED BY <1>1 DEF Near

\* A text that is changed behind the place n has the same page up to there.
LEMMA SamePage ==
    ASSUME TextOK, Editing, ~astray, NEW t \in Seq(Keys), NEW n \in page_location .. Len(t),
           n <= cursor_location, \A loc \in 0 .. n - 1 : At(t, loc) = At(text, loc)
    PROVE  /\ Begins(t, page_location) /\ Row(t, page_location) \in Nat /\ Row(t, n) \in Nat
           /\ Row(t, n) < Row(t, page_location) + ROW_LEN
<1>0. /\ text \in Seq(Keys) /\ Len(text) \in Nat /\ Len(t) \in Nat
      /\ cursor_location \in 0 .. Len(text) - 1
      /\ page_location \in 0 .. cursor_location /\ Begins(text, page_location)
      /\ Row(text, cursor_location) < Row(text, page_location) + ROW_LEN
      /\ Row(text, page_location) \in Nat /\ Row(text, cursor_location) \in Nat
  BY Here
<1>1. /\ n \in 0 .. Len(t) /\ n <= Len(text) /\ page_location \in 0 .. n /\ n \in 0 .. n
      /\ n \in 0 .. Len(text) /\ cursor_location \in n .. Len(text)
  BY <1>0
<1>2. Row(t, page_location) = Row(text, page_location) /\ Row(t, n) = Row(text, n)
  BY <1>0, <1>1, SamePrefix
<1>3. Row(text, n) <= Row(text, cursor_location) /\ Row(text, n) \in Nat
  BY <1>0, <1>1, RowGrows, RowFacts
<1>4. ROW_LEN \in Nat
  BY EditorAssumption
<1>5. Begins(t, page_location)
  <2>1. page_location # 0 => page_location - 1 \in 0 .. n - 1
    BY <1>1
  <2> QED BY <1>0, <2>1 DEF Begins
<1> QED BY <1>0, <1>2, <1>3, <1>4, <1>5

(***************************************************************************)
(* Each key keeps the page on the text and the cursor on the page           *)
(***************************************************************************)
\* A key of command mode that changes no text.
LEMMA LookKeeps ==
    ASSUME TextOK, Editing, NEW c \in -1 .. Len(text) - 1,
           Show(text, c, Follow(text, c, page_end)),
           ~astray /\ c >= 0 /\ Narrow(text) => Near(text, c, page_end)
    PROVE  TextOK'
<1>1. TextTyped
  BY DEF TextOK
<1>2. /\ text \in Seq(Keys) /\ Ends(text) /\ Len(text) >= 1 /\ Len(text) <= BUFFER_SIZE
      /\ page_location \in 0 .. Len(text) /\ page_end \in Nat
  BY <1>1, Around
<1> DEFINE page == Follow(text, c, page_end)
<1>3. page \in 0 .. Len(text) - 1
  BY <1>2, FollowIn
<1>4. Show(text, c, page)
  OBVIOUS
<1>5. ~astray /\ c >= 0 /\ Narrow(text) =>
        \E end \in Nat : Near(text, c, end) /\ page = Follow(text, c, end)
  BY <1>2
<1> HIDE DEF page
<1> QED BY <1>1, <1>2, <1>3, <1>4, <1>5, ShowKeeps

\* A move in the text that, unless the cursor is lost, goes not above the page and
\* at most one row below it.
LEMMA MoveKeeps ==
    ASSUME TextOK, Editing, NEW c \in -1 .. Len(text) - 1, Move(c),
           ~astray /\ Narrow(text) =>
                /\ c \in page_location .. Len(text) - 1
                /\ Row(text, c) <= Row(text, page_location) + ROW_LEN
    PROVE  TextOK'
<1>1. ~astray /\ c >= 0 /\ Narrow(text) => Near(text, c, page_end)
  BY NearInText
<1>2. Show(text, c, Follow(text, c, page_end))
  BY DEF Move, Look
<1> QED BY <1>1, <1>2, LookKeeps

LEMMA JKeeps == ASSUME TextOK, Editing, J PROVE TextOK'
<1> DEFINE c == NextLine(text, cursor_location)
           e == LineEnd(text, cursor_location)
<1>1. Move(c) /\ cursor_location >= 0
  BY DEF J, Defined
<1>2. /\ text \in Seq(Keys) /\ Ends(text) /\ Len(text) \in Nat
      /\ cursor_location \in 0 .. Len(text) - 1
  <2>1. /\ text \in Seq(Keys) /\ Ends(text) /\ Len(text) \in Nat
        /\ cursor_location \in -1 .. Len(text) - 1
    BY Around DEF TextOK
  <2> QED BY <1>1, <2>1
<1>3. c \in 0 .. Len(text) - 1
  BY <1>2, NextLineIn
<1>4. c = IF e + 1 < Len(text) THEN e + 1 ELSE cursor_location
  BY DEF NextLine
<1> HIDE DEF c
<1>5. ASSUME ~astray, Narrow(text)
      PROVE  c \in page_location .. Len(text) - 1 /\ Row(text, c) <= Row(text, page_location) + ROW_LEN
  <2>0. /\ page_location \in 0 .. cursor_location
        /\ Row(text, cursor_location) < Row(text, page_location) + ROW_LEN
        /\ Row(text, page_location) \in Nat /\ Row(text, cursor_location) \in Nat
    BY <1>5, Here
  <2>1. /\ e \in cursor_location .. Len(text) - 1
        /\ Row(text, e + 1) = Row(text, cursor_location) + 1
    BY <1>2, <1>5, NextLineIs
  <2>2. ROW_LEN \in Nat
    BY EditorAssumption
  <2> HIDE DEF e
  <2>3. CASE e + 1 < Len(text)
    <3>1. c = e + 1 /\ c \in page_location .. Len(text) - 1
      BY <1>2, <1>4, <2>0, <2>1, <2>3
    <3> QED BY <2>0, <2>1, <2>2, <3>1
  <2>4. CASE ~(e + 1 < Len(text))
    <3>1. c = cursor_location /\ c \in page_location .. Len(text) - 1
      BY <1>2, <1>4, <2>0, <2>4
    <3> QED BY <2>0, <2>2, <3>1
  <2> QED BY <2>3, <2>4
<1>6. c \in -1 .. Len(text) - 1
  BY <1>2, <1>3
<1> QED BY <1>1, <1>5, <1>6, MoveKeeps

LEMMA StayNear ==
    ASSUME TextOK, Editing, ~astray
    PROVE  /\ cursor_location \in page_location .. Len(text) - 1
           /\ Row(text, cursor_location) <= Row(text, page_location) + ROW_LEN
<1>1. /\ Len(text) \in Nat /\ cursor_location \in 0 .. Len(text) - 1
      /\ page_location \in 0 .. cursor_location
      /\ Row(text, cursor_location) < Row(text, page_location) + ROW_LEN
      /\ Row(text, page_location) \in Nat /\ Row(text, cursor_location) \in Nat
  BY Here
<1>2. ROW_LEN \in Nat
  BY EditorAssumption
<1> QED BY <1>1, <1>2

LEMMA StayKeeps == ASSUME TextOK, Editing, Move(cursor_location) PROVE TextOK'
<1>1. cursor_location \in -1 .. Len(text) - 1
  BY Around DEF TextOK
<1> QED BY <1>1, StayNear, MoveKeeps

LEMMA HKeeps == ASSUME TextOK, Editing, H PROVE TextOK'
<1>0. Len(text) \in Nat /\ cursor_location \in -1 .. Len(text) - 1
  BY Around DEF TextOK
<1>1. CASE cursor_location > 0 /\ At(text, cursor_location - 1) # NL
  <2> DEFINE c == cursor_location - 1
  <2>1. Move(c)
    BY <1>1 DEF H
  <2>2. c \in -1 .. Len(text) - 1
    BY <1>0, <1>1
  <2>3. ASSUME ~astray
        PROVE  c \in page_location .. Len(text) - 1 /\ Row(text, c) <= Row(text, page_location) + ROW_LEN
    <3>1. /\ text \in Seq(Keys) /\ cursor_location \in 0 .. Len(text) - 1
          /\ page_location \in 0 .. cursor_location /\ Begins(text, page_location)
          /\ Row(text, cursor_location) < Row(text, page_location) + ROW_LEN
          /\ Row(text, page_location) \in Nat /\ Row(text, cursor_location) \in Nat
      BY <2>3, Here
    <3>2. page_location # cursor_location
      BY <3>1, <1>1 DEF Begins
    <3>3. c \in page_location .. Len(text) - 1 /\ c \in 0 .. Len(text) /\ cursor_location \in c .. Len(text)
      BY <1>0, <3>1, <3>2
    <3> HIDE DEF c
    <3>4. Row(text, c) <= Row(text, cursor_location) /\ Row(text, c) \in Nat
      BY <3>1, <3>3, RowGrows, RowFacts
    <3>5. Row(text, c) <= Row(text, page_location) + ROW_LEN
      BY <3>1, <3>4, EditorAssumption
    <3> QED BY <3>3, <3>5
  <2> HIDE DEF c
  <2> QED BY <2>1, <2>2, <2>3, MoveKeeps
<1>2. CASE ~(cursor_location > 0 /\ At(text, cursor_location - 1) # NL)
  <2>1. Move(cursor_location)
    BY <1>2 DEF H
  <2> QED BY <2>1, StayKeeps
<1> QED BY <1>1, <1>2

LEMMA LKeeps == ASSUME TextOK, Editing, L PROVE TextOK'
<1>0. Len(text) \in Nat /\ cursor_location \in -1 .. Len(text) - 1
  BY Around DEF TextOK
<1>1. CASE cursor_location + 1 < Len(text) /\ At(text, cursor_location) # NL
  <2> DEFINE c == cursor_location + 1
  <2>1. Move(c)
    BY <1>1 DEF L
  <2>2. c \in -1 .. Len(text) - 1
    BY <1>0, <1>1
  <2>3. ASSUME ~astray
        PROVE  c \in page_location .. Len(text) - 1 /\ Row(text, c) <= Row(text, page_location) + ROW_LEN
    <3>1. /\ text \in Seq(Keys) /\ cursor_location \in 0 .. Len(text) - 1
          /\ page_location \in 0 .. cursor_location
          /\ Row(text, cursor_location) < Row(text, page_location) + ROW_LEN
          /\ Row(text, page_location) \in Nat /\ Row(text, cursor_location) \in Nat
      BY <2>3, Here
    <3>2. c \in page_location .. Len(text) - 1
      BY <3>1, <1>0, <1>1
    <3>3. Row(text, cursor_location + 1) \in {Row(text, cursor_location), Row(text, cursor_location) + 1}
      BY <3>1, RowFacts
    <3>4. Row(text, c) <= Row(text, page_location) + ROW_LEN
      BY <3>1, <3>3, EditorAssumption
    <3> QED BY <3>2, <3>4
  <2> HIDE DEF c
  <2> QED BY <2>1, <2>2, <2>3, MoveKeeps
<1>2. CASE ~(cursor_location + 1 < Len(text) /\ At(text, cursor_location) # NL)
  <2>1. Move(cursor_location)
    BY <1>2 DEF L
  <2> QED BY <2>1, StayKeeps
<1> QED BY <1>1, <1>2

\* k leaves the cursor on the page, or at the start of the line above it.
LEMMA KNear ==
    ASSUME TextOK, Editing, ~astray, PrevLine(text, cursor_location) # 0
    PROVE  Near(text, PrevLine(text, cursor_location), page_end)
<1> DEFINE c == PrevLine(text, cursor_location)
<1>0. /\ text \in Seq(Keys) /\ Ends(text) /\ Len(text) \in Nat /\ cursor_location \in 0 .. Len(text) - 1
      /\ page_location \in 0 .. cursor_location /\ Begins(text, page_location)
      /\ page_end \in page_location .. Len(text)
      /\ Row(text, cursor_location) < Row(text, page_location) + ROW_LEN
      /\ Row(text, page_location) \in Nat /\ Row(text, cursor_location) \in Nat
  BY Here
<1>2. ~(cursor_location <= 0) /\ c = LineStart(text, cursor_location - 1)
  BY DEF PrevLine
<1>3. /\ cursor_location - 1 \in 0 .. Len(text)
      /\ c \in 0 .. cursor_location - 1
      /\ \A l \in 0 .. cursor_location - 1 : Begins(text, l) => l <= c
  <2>1. cursor_location - 1 \in 0 .. Len(text)
    BY <1>0, <1>2
  <2> HIDE DEF c
  <2> QED BY <1>0, <1>2, <2>1, LineStartIs
<1> HIDE DEF c
<1>4. CASE page_location <= c
  <2>1. c \in page_location .. Len(text) - 1 /\ c \in 0 .. Len(text) /\ cursor_location \in c .. Len(text)
    BY <1>0, <1>3, <1>4
  <2>2. Row(text, c) <= Row(text, cursor_location) /\ Row(text, c) \in Nat
    BY <1>0, <2>1, RowGrows, RowFacts
  <2>3. Row(text, c) <= Row(text, page_location) + ROW_LEN
    BY <1>0, <2>2, EditorAssumption
  <2>4. Near(text, c, page_end)
    BY <2>1, <2>3, NearInText
  <2> QED BY <2>4 DEF c
<1>5. CASE ~(page_location <= c)
  <2>1. page_location = cursor_location
    BY <1>0, <1>3, <1>5
  <2>2. page_location \in c + 1 .. Len(text) /\ LineStart(text, page_location - 1) <= c
    BY <1>0, <1>2, <1>3, <2>1
  <2>3. Near(text, c, page_end)
    BY <2>2 DEF Near
  <2> QED BY <2>3 DEF c
<1> QED BY <1>4, <1>5

LEMMA KKeeps == ASSUME TextOK, Editing, K PROVE TextOK'
<1> DEFINE c == PrevLine(text, cursor_location)
<1>0. /\ text \in Seq(Keys) /\ Len(text) \in Nat /\ Len(text) >= 1
      /\ cursor_location \in -1 .. Len(text) - 1
  BY Around DEF TextOK
<1>1. CASE c = 0
  <2>1. Move(cursor_location)
    BY <1>1 DEF K
  <2> QED BY <2>1, StayKeeps
<1>2. CASE c # 0
  <2>1. Show(text, c, Follow(text, c, page_end))
    BY <1>2 DEF K, Move, Look
  <2>2. cursor_location \in 0 .. Len(text)
    BY <1>0, <1>2 DEF PrevLine
  <2>3. c \in 0 .. Len(text) - 1
    BY <1>0, <2>2, PrevLineIn
  <2>4. ~astray => Near(text, c, page_end)
    BY <1>2, KNear
  <2> HIDE DEF c
  <2>5. c \in -1 .. Len(text) - 1
    BY <1>0, <2>3
  <2> QED BY <2>1, <2>4, <2>5, LookKeeps
<1> QED BY <1>1, <1>2

LEMMA XKeeps == ASSUME TextOK, Editing, X PROVE TextOK'
<1>0. /\ text \in Seq(Keys) /\ Ends(text) /\ Len(text) \in Nat /\ Len(text) <= BUFFER_SIZE
      /\ BUFFER_SIZE \in Nat /\ page_location \in 0 .. Len(text) - 1 /\ page_end \in Nat
      /\ cursor_location \in -1 .. Len(text) - 1 /\ cursor_location >= 0 /\ TextTyped
  BY Around DEF TextOK, X, Defined
<1>1. Show(Cut, cursor_location, Follow(Cut, cursor_location, page_end))
  BY DEF X, Look
<1>2. CASE cursor_location = Len(text) - 1
  <2>1. Move(cursor_location)
    BY <1>2 DEF X, Cut, Move
  <2> QED BY <2>1, StayKeeps
<1>3. CASE cursor_location # Len(text) - 1
  <2> DEFINE t == Deleted(text, cursor_location)
             page == Follow(t, cursor_location, page_end)
  <2>0. cursor_location \in 0 .. Len(text) - 1
    BY <1>0
  <2>1. Show(t, cursor_location, page)
    BY <1>1, <1>3 DEF Cut
  <2>2. /\ t \in Seq(Keys) /\ Len(t) = Len(text) - 1
        /\ \A loc \in 0 .. cursor_location - 1 : At(t, loc) = At(text, loc)
        /\ \A loc \in cursor_location .. Len(text) - 2 : At(t, loc) = At(text, loc + 1)
    BY <1>0, <2>0, DeletedIs
  <2> HIDE DEF t
  <2>3. /\ cursor_location \in 0 .. Len(t) - 1 /\ cursor_location \in -1 .. Len(t) - 1
        /\ page_location \in 0 .. Len(t) /\ Len(t) >= 1 /\ Len(t) <= BUFFER_SIZE /\ page_end \in Nat
    BY <1>0, <1>3, <2>2
  <2>4. Ends(t)
    <3>1. /\ Len(t) - 1 \in cursor_location .. Len(text) - 2 /\ Len(t) - 1 + 1 = Len(text) - 1
      BY <1>0, <2>2, <2>3
    <3>2. At(text, Len(text) - 1) = NL
      BY <1>0, EndsAt
    <3> QED BY <2>2, <2>3, <3>1, <3>2, EndsAt
  <2>5. ASSUME ~astray PROVE Near(t, cursor_location, page_end)
    <3>1. page_location \in 0 .. cursor_location /\ cursor_location < page_end
      BY <2>5, Here
    <3>2. /\ cursor_location \in page_location .. Len(t) /\ cursor_location <= cursor_location
          /\ cursor_location \in page_location .. Len(t) - 1
      BY <2>3, <3>1
    <3>3. /\ Begins(t, page_location) /\ Row(t, page_location) \in Nat /\ Row(t, cursor_location) \in Nat
          /\ Row(t, cursor_location) < Row(t, page_location) + ROW_LEN
      BY <2>2, <2>5, <3>2, SamePage
    <3>4. cursor_location < Flush(t, page_location)
      BY <2>2, <2>3, <3>2, <3>3, FlushIs
    <3>5. Row(t, cursor_location) <= Row(t, page_location) + ROW_LEN
      BY <3>3, EditorAssumption
    <3> QED BY <3>1, <3>3, <3>4, <3>5 DEF Near
  <2>6. page \in 0 .. Len(t) - 1
    BY <2>2, <2>3, FollowIn
  <2>7. ~astray /\ cursor_location >= 0 /\ Narrow(t) =>
            \E end \in Nat : Near(t, cursor_location, end) /\ page = Follow(t, cursor_location, end)
    BY <1>0, <2>5
  <2> HIDE DEF page
  <2> QED BY <1>0, <2>1, <2>3, <2>4, <2>6, <2>7, ShowKeeps
<1> QED BY <1>2, <1>3

\* The end plays no part for a cursor in front of it.
LEMMA UpFollows ==
    ASSUME NEW t, NEW c \in Int, NEW end \in Int, c < end
    PROVE  Up(t, c) = Follow(t, c, end)
<1>1. ~(c >= end)
  OBVIOUS
<1> QED BY <1>1 DEF Follow, Up, Down

LEMMA BackspaceKeeps == ASSUME TextOK, Editing, Backspace PROVE TextOK'
<1> DEFINE c == cursor_location - 1
           d == Deleted(text, c)
           t == IF cursor_location = 0 THEN text ELSE d
           page == Up(t, c)
<1>0. /\ text \in Seq(Keys) /\ Ends(text) /\ Len(text) \in Nat /\ Len(text) <= BUFFER_SIZE
      /\ BUFFER_SIZE \in Nat /\ page_location \in 0 .. Len(text) - 1 /\ Len(text) >= 1
      /\ cursor_location \in -1 .. Len(text) - 1 /\ cursor_location >= 0 /\ TextTyped
  BY Around DEF TextOK, Backspace, Defined
<1>1. Show(t, c, page)
  BY DEF Backspace
<1>2. CASE cursor_location = 0
  <2>1. c = -1 /\ t = text /\ c \in -1 .. Len(text) - 1 /\ ~(c >= 0) /\ page_location \in 0 .. Len(text)
    BY <1>0, <1>2
  <2> HIDE DEF c, t
  <2>2. page \in 0 .. Len(text) - 1
    BY <1>0, <2>1, UpIn
  <2>3. Show(text, c, page)
    BY <1>1, <2>1
  <2> HIDE DEF page
  <2> QED BY <1>0, <2>1, <2>2, <2>3, ShowKeeps
<1>3. CASE cursor_location # 0
  <2>1. t = d /\ c \in 0 .. Len(text) - 2 /\ c \in 0 .. Len(text) - 1 /\ c + 1 = cursor_location
    BY <1>0, <1>3
  <2> HIDE DEF t, c
  <2>2. /\ d \in Seq(Keys) /\ Len(d) = Len(text) - 1
        /\ \A loc \in 0 .. c - 1 : At(d, loc) = At(text, loc)
        /\ \A loc \in c .. Len(text) - 2 : At(d, loc) = At(text, loc + 1)
    BY <1>0, <2>1, DeletedIs
  <2> HIDE DEF d
  <2>3. /\ c \in 0 .. Len(d) - 1 /\ c \in -1 .. Len(d) - 1 /\ Len(d) >= 1 /\ Len(d) <= BUFFER_SIZE
        /\ c < Len(text) /\ page_location \in 0 .. Len(d) /\ c \in Int /\ Len(text) \in Int
    BY <1>0, <2>1, <2>2
  <2>4. Ends(d)
    <3>1. Len(d) - 1 \in c .. Len(text) - 2 /\ Len(d) - 1 + 1 = Len(text) - 1
      BY <1>0, <2>1, <2>2
    <3>2. At(text, Len(text) - 1) = NL
      BY <1>0, EndsAt
    <3> QED BY <2>2, <2>3, <3>1, <3>2, EndsAt
  <2>5. ASSUME ~astray PROVE Near(d, c, Len(text))
    <3>1. page_location \in 0 .. cursor_location
      BY <2>5, Here
    <3>2. CASE page_location <= c
      <4>1. /\ c \in page_location .. Len(d) /\ c <= cursor_location
            /\ c \in page_location .. Len(d) - 1 /\ page_location \in 0 .. c
        BY <1>0, <2>1, <2>3, <3>2
      <4>2. /\ Begins(d, page_location) /\ Row(d, page_location) \in Nat /\ Row(d, c) \in Nat
            /\ Row(d, c) < Row(d, page_location) + ROW_LEN
        BY <2>2, <2>5, <4>1, SamePage
      <4>3. c < Flush(d, page_location)
        BY <2>2, <2>3, <4>1, <4>2, FlushIs
      <4>4. Row(d, c) <= Row(d, page_location) + ROW_LEN
        BY <4>2, EditorAssumption
      <4> QED BY <2>3, <4>1, <4>2, <4>3, <4>4 DEF Near
    <3>3. CASE ~(page_location <= c)
      <4>1. page_location = c + 1 /\ page_location - 1 = c /\ page_location \in c + 1 .. Len(d)
        BY <1>0, <2>1, <2>3, <3>1, <3>3
      <4>2. LineStart(d, c) \in 0 .. c
        <5>1. c \in 0 .. Len(d)
          BY <2>3
        <5> QED BY <2>2, <5>1, LineStartIs
      <4>3. LineStart(d, page_location - 1) <= c
        BY <2>1, <4>1, <4>2
      <4> QED BY <4>1, <4>3 DEF Near
    <3> QED BY <3>2, <3>3
  <2>6. page \in 0 .. Len(d) - 1
    BY <2>1, <2>2, <2>3, UpIn
  <2>7. page = Follow(d, c, Len(text))
    BY <2>1, <2>3, UpFollows
  <2>8. Show(d, c, page)
    BY <1>1, <2>1
  <2> HIDE DEF page
  <2>9. ~astray /\ c >= 0 /\ Narrow(d) => \E end \in Nat : Near(d, c, end) /\ page = Follow(d, c, end)
    BY <1>0, <2>5, <2>7
  <2> QED BY <1>0, <2>3, <2>4, <2>6, <2>8, <2>9, ShowKeeps
<1> QED BY <1>2, <1>3

LEMMA InsertKeeps ==
    ASSUME TextOK, Editing, NEW k \in Keys, Insert(k), Len(text) < BUFFER_SIZE PROVE TextOK'
<1> DEFINE c == cursor_location + 1
           t == Inserted(text, cursor_location, k)
           end == Flush(t, page_location)
           page == Down(t, c, end)
<1>0. /\ text \in Seq(Keys) /\ Ends(text) /\ Len(text) \in Nat /\ Len(text) <= BUFFER_SIZE
      /\ BUFFER_SIZE \in Nat /\ page_location \in 0 .. Len(text) - 1 /\ TextTyped
      /\ cursor_location \in 0 .. Len(text) - 1 /\ cursor_location \in 0 .. Len(text)
  <2>1. /\ text \in Seq(Keys) /\ Ends(text) /\ Len(text) \in Nat /\ Len(text) <= BUFFER_SIZE
        /\ BUFFER_SIZE \in Nat /\ page_location \in 0 .. Len(text) - 1
        /\ cursor_location \in -1 .. Len(text) - 1 /\ cursor_location >= 0 /\ TextTyped
    BY Around DEF TextOK, Insert, Defined
  <2> QED BY <2>1
<1>1. Show(t, c, page)
  <2>1. ~(Len(text) >= BUFFER_SIZE)
    BY <1>0
  <2> QED BY <2>1 DEF Insert
<1>2. /\ t \in Seq(Keys) /\ Len(t) = Len(text) + 1
      /\ \A loc \in 0 .. cursor_location - 1 : At(t, loc) = At(text, loc)
      /\ \A loc \in cursor_location + 1 .. Len(text) : At(t, loc) = At(text, loc - 1)
  BY <1>0, InsertedIs
<1> HIDE DEF t
<1>3. /\ c \in 0 .. Len(t) - 1 /\ c \in -1 .. Len(t) - 1 /\ Len(t) >= 1 /\ Len(t) <= BUFFER_SIZE
      /\ page_location \in 0 .. Len(t) /\ page_location \in 0 .. Len(t) - 1
      /\ cursor_location \in 0 .. Len(t) - 1
  BY <1>0, <1>2
<1>4. Ends(t)
  <2>1. Len(t) - 1 \in cursor_location + 1 .. Len(text) /\ Len(t) - 1 - 1 = Len(text) - 1
    BY <1>0, <1>2
  <2>2. At(text, Len(text) - 1) = NL
    BY <1>0, EndsAt
  <2> QED BY <1>2, <1>3, <2>1, <2>2, EndsAt
<1>5. end \in page_location .. Len(t)
  BY <1>2, <1>3, FlushIn
<1>6. ASSUME ~astray PROVE Near(t, c, end) /\ page = Follow(t, c, end)
  <2>0. page_location \in 0 .. cursor_location
    BY <1>6, Here
  <2>1. /\ cursor_location \in page_location .. Len(t) /\ cursor_location <= cursor_location
        /\ page_location \in 0 .. c /\ ~(c < page_location)
    BY <1>0, <1>3, <2>0
  <2>2. /\ Begins(t, page_location) /\ Row(t, page_location) \in Nat /\ Row(t, cursor_location) \in Nat
        /\ Row(t, cursor_location) < Row(t, page_location) + ROW_LEN
    BY <1>2, <1>6, <2>1, SamePage
  <2>3. Row(t, c) <= Row(t, page_location) + ROW_LEN
    <3>1. Row(t, cursor_location + 1) \in {Row(t, cursor_location), Row(t, cursor_location) + 1}
      BY <1>2, <1>3, RowFacts
    <3>2. ROW_LEN \in Nat
      BY EditorAssumption
    <3> QED BY <2>2, <3>1, <3>2
  <2> HIDE DEF c
  <2>4. Near(t, c, end)
    BY <1>3, <2>1, <2>2, <2>3 DEF Near
  <2> HIDE DEF end
  <2> QED BY <2>1, <2>4 DEF Follow
<1>7. page \in 0 .. Len(t) - 1
  BY <1>2, <1>3, NextLineIn DEF Down
<1> HIDE DEF c, page
<1>8. end \in Nat
  <2> HIDE DEF end
  <2> QED BY <1>3, <1>5
<1> HIDE DEF end
<1> QED BY <1>0, <1>1, <1>3, <1>4, <1>6, <1>7, <1>8, ShowKeeps

(***************************************************************************)
(* The editor starts, saves and ends                                        *)
(***************************************************************************)
\* What is read of a file, failed reads or not.
LEMMA ReadsAre ==
    ASSUME NEW f \in Files, NEW d \in Reads(f) PROVE d = Absent \/ d \in Seq(Chars)
<1>1. PICK fails \in SUBSET (1 .. Len(f)), first \in Keys \cup {CR} : d = ReadAs(f, fails, first)
  BY DEF Reads
<1>2. CASE f = Absent
  BY <1>1, <1>2 DEF ReadAs
<1>3. CASE f # Absent
  <2>1. f \in Seq(Chars) /\ Len(f) \in Nat /\ DOMAIN f = 1 .. Len(f)
    <3>1. f \in Seq(Chars)
      BY <1>3, EditorAssumption DEF Chars
    <3> QED BY <3>1
  <2> DEFINE n == Len(f)
  <2> HIDE DEF n
  <2>2. ASSUME NEW i \in 1 .. n
        PROVE  (IF Known(f, fails, i) = 0 THEN first ELSE f[Known(f, fails, i)]) \in Chars
    <3> DEFINE m == Known(f, fails, i)
    <3>1. i \in Nat /\ i <= n /\ n \in Nat
      BY <2>1 DEF n
    <3>2. IsFiniteSet(1 .. i) /\ Cardinality(1 .. i) = i
      BY <3>1, FS_Interval
    <3>3. (1 .. i) \ fails \subseteq 1 .. i
      OBVIOUS
    <3>4. IsFiniteSet((1 .. i) \ fails) /\ Cardinality((1 .. i) \ fails) <= i
      BY <3>2, <3>3, FS_Subset
    <3>5. Cardinality((1 .. i) \ fails) \in Nat
      BY <3>4, FS_CardinalityType
    <3>6. m \in 0 .. n
      BY <3>1, <3>4, <3>5 DEF Known
    <3>7. first \in Chars
      BY DEF Chars
    <3>8. m # 0 => f[m] \in Chars
      BY <2>1, <3>6 DEF n
    <3> HIDE DEF m
    <3> QED BY <3>7, <3>8 DEF m
  <2>3. d = [i \in 1 .. n |-> IF Known(f, fails, i) = 0 THEN first ELSE f[Known(f, fails, i)]]
    BY <1>1, <1>3, <2>1 DEF ReadAs, n
  <2>4. d \in [1 .. n -> Chars]
    BY <2>2, <2>3
  <2>5. n \in Nat
    BY <2>1 DEF n
  <2> QED BY <2>4, <2>5, SeqDef
<1> QED BY <1>2, <1>3

LEMMA LoadedIs ==
    ASSUME NEW d, d = Absent \/ d \in Seq(Chars), ~TooLong(d)
    PROVE  Ends(Loaded(d)) /\ Len(Loaded(d)) <= BUFFER_SIZE
<1>0. BUFFER_SIZE \in Nat /\ BUFFER_SIZE >= 1 /\ NL \in Keys
  BY EditorAssumption DEF Keys
<1>1. CASE d = Absent
  <2> DEFINE t == <<NL>>
  <2>1. Loaded(d) = t
    BY <1>1 DEF Loaded
  <2>2. t \in Seq(Keys) /\ Len(t) = 1 /\ t[1] = NL /\ t # <<>>
    BY <1>0
  <2> HIDE DEF t
  <2> QED BY <1>0, <2>1, <2>2 DEF Ends
<1>2. CASE d # Absent
  <2> DEFINE k == Kept(d)
  <2>1. k \in Seq(Keys) /\ Len(k) \in Nat
    <3>1. d \in Seq(Chars)
      BY <1>2
    <3>2. k \in Seq(Keys)
      BY <3>1, KeptKeys
    <3> HIDE DEF k
    <3> QED BY <3>2
  <2>2. Len(k) < BUFFER_SIZE - 1
    BY <1>0, <1>2, <2>1 DEF TooLong
  <2>3. Loaded(d) = IF k = <<>> \/ k[Len(k)] # NL THEN Append(k, NL) ELSE k
    BY <1>2 DEF Loaded
  <2> HIDE DEF k
  <2>4. CASE k = <<>> \/ k[Len(k)] # NL
    <3>1. /\ Append(k, NL) \in Seq(Keys) /\ Append(k, NL) # <<>> /\ Len(Append(k, NL)) = Len(k) + 1
          /\ Append(k, NL)[Len(k) + 1] = NL
      BY <1>0, <2>1, AppendProperties
    <3>2. Loaded(d) = Append(k, NL)
      BY <2>3, <2>4
    <3> QED BY <1>0, <2>1, <2>2, <3>1, <3>2 DEF Ends
  <2>5. CASE ~(k = <<>> \/ k[Len(k)] # NL)
    <3>1. Loaded(d) = k
      BY <2>3, <2>5
    <3> QED BY <1>0, <2>1, <2>2, <2>5, <3>1 DEF Ends
  <2> QED BY <2>4, <2>5
<1> QED BY <1>1, <1>2

LEMMA StartKeeps == ASSUME Start PROVE EditorInv'
<1>0. PICK d \in Reads(disk) :
        /\ disk \in Files /\ ~TooLong(d) /\ text' = Loaded(d)
        /\ cursor_location' = 0 /\ page_location' = 0 /\ page_end' = Flush(text', 0)
        /\ mode' = "command" /\ disk' = disk /\ astray' = ~Narrow(text')
  BY DEF Start
<1>1. /\ disk \in Files /\ ~TooLong(d) /\ text' = Loaded(d)
      /\ cursor_location' = 0 /\ page_location' = 0 /\ page_end' = Flush(text', 0)
      /\ mode' = "command" /\ disk' = disk /\ astray' \in BOOLEAN
      /\ d = Absent \/ d \in Seq(Chars)
  BY <1>0, ReadsAre
<1> DEFINE t == Loaded(d)
<1>2. Ends(t) /\ Len(t) <= BUFFER_SIZE
  BY <1>1, LoadedIs
<1>3. text' = t
  BY <1>1
<1> HIDE DEF t
<1>4. t \in Seq(Keys)
  BY <1>2 DEF Ends
<1>5. Len(t) \in Nat /\ Len(t) >= 1
  BY <1>2, <1>4, EndsAt
<1>6. 0 \in 0 .. Len(t) /\ 0 \in 0 .. Len(t) - 1 /\ Begins(t, 0)
  BY <1>5 DEF Begins
<1>7. Row(t, 0) = 0
  BY <1>4, RowFacts
<1>8. Row(t, 0) < Row(t, 0) + ROW_LEN
  BY <1>7, EditorAssumption
<1>9. 0 < Flush(t, 0)
  BY <1>4, <1>6, <1>8, FlushIs
<1>10. Shown(t, 0, 0)
  BY <1>6, <1>9 DEF Shown
<1>11. TextOK'
  <2>1. Flush(t, 0) \in 0 .. Len(t)
    BY <1>4, <1>6, FlushIn
  <2>2. 0 \in -1 .. Len(t) - 1
    BY <1>5
  <2>3. TextTyped'
    BY <1>1, <1>2, <1>3, <1>4, <1>6, <2>1, <2>2 DEF TextTyped
  <2>4. CursorOK'
    BY <1>1, <1>3, <1>10 DEF CursorOK
  <2> QED BY <2>3, <2>4 DEF TextOK
<1>12. mode' \in Modes
  BY <1>1 DEF Modes
<1>13. DiskOK'
  BY <1>1 DEF DiskOK
<1> QED BY <1>11, <1>12, <1>13 DEF EditorInv

LEMMA LeftKeeps == ASSUME Left PROVE EditorInv'
<1>1. mode' = "left" /\ text' = <<>> /\ astray' = FALSE
  BY DEF Left
<1>2. text' \in Seq(Keys) /\ Len(text') <= BUFFER_SIZE
  <2>1. <<>> \in Seq(Keys) /\ Len(<<>>) = 0
    OBVIOUS
  <2>2. BUFFER_SIZE \in Nat
    BY EditorAssumption
  <2> QED BY <1>1, <2>1, <2>2
<1>3. TextOK'
  BY <1>1, <1>2 DEF TextOK, TextTyped, CursorOK, Editing
<1> QED BY <1>1, <1>3 DEF Modes, EditorInv, DiskOK, Editing

LEMMA CommandKeeps == ASSUME EditorInv, CommandKey PROVE EditorInv'
<1>1. Editing /\ TextOK /\ DiskOK /\ mode = "command"
  BY DEF EditorInv, CommandKey, Editing
<1>2. CASE J \/ H \/ K \/ L \/ X
  <2>1. TextOK'
    BY <1>1, <1>2, JKeeps, HKeeps, KKeeps, LKeeps, XKeeps
  <2>2. UNCHANGED <<mode, instruction, disk>>
    BY <1>2 DEF J, H, K, L, X, Move, Look
  <2> QED BY <2>1, <2>2 DEF EditorInv, DiskOK, Editing
<1>3. CASE Colon
  <2>1. /\ Show(text, cursor_location, Follow(text, cursor_location, page_end))
        /\ mode' = "last line" /\ disk' = disk
    BY <1>3 DEF Colon
  <2>2. cursor_location \in -1 .. Len(text) - 1
    BY <1>1, Around DEF TextOK
  <2>3. ~astray => Near(text, cursor_location, page_end)
    BY <1>1, StayNear, NearInText
  <2>4. TextOK'
    BY <1>1, <2>1, <2>2, <2>3, LookKeeps
  <2> QED BY <1>1, <2>1, <2>4 DEF EditorInv, DiskOK, Modes, Editing
<1>4. CASE I
  BY <1>1, <1>4 DEF I, EditorInv, TextOK, TextTyped, CursorOK, DiskOK, Modes, Editing
<1> QED BY <1>2, <1>3, <1>4 DEF CommandKey

LEMMA EditorKeeps == ASSUME EditorInv, Editing, EditorNext PROVE EditorInv'
<1>1. TextOK /\ DiskOK
  BY DEF EditorInv
<1>2. CASE CommandKey
  BY <1>2, CommandKeeps
<1>3. CASE Escape \/ EscapeLine
  BY <1>1, <1>3 DEF Escape, EscapeLine, EditorInv, TextOK, TextTyped, CursorOK, DiskOK, Modes, Editing
<1>4. CASE Backspace
  <2>1. TextOK'
    BY <1>1, <1>4, BackspaceKeeps
  <2>2. UNCHANGED <<mode, disk>>
    BY <1>4 DEF Backspace
  <2> QED BY <2>1, <2>2 DEF EditorInv, DiskOK, Editing
<1>5. ASSUME NEW inst, Instruct(inst) PROVE EditorInv'
  BY <1>1, <1>5 DEF Instruct, EditorInv, TextOK, TextTyped, CursorOK, DiskOK, Editing
<1>6. CASE Rub
  BY <1>5, <1>6 DEF Rub
<1>7. CASE \E k \in Command : Type(k)
  BY <1>5, <1>7 DEF Type
<1>8. ASSUME NEW k \in Keys, Insert(k) PROVE EditorInv'
  <2>1. CASE Len(text) >= BUFFER_SIZE
    <3>1. Left
      BY <1>8, <2>1 DEF Insert
    <3> QED BY <3>1, LeftKeeps
  <2>2. CASE ~(Len(text) >= BUFFER_SIZE)
    <3>1. Len(text) < BUFFER_SIZE
      BY <1>1, <2>2, EditorAssumption DEF TextOK, TextTyped
    <3>2. TextOK'
      BY <1>1, <1>8, <3>1, InsertKeeps
    <3>3. UNCHANGED <<mode, disk>>
      BY <1>8, <2>2 DEF Insert
    <3> QED BY <3>2, <3>3 DEF EditorInv, DiskOK, Editing
  <2> QED BY <2>1, <2>2
<1>9. CASE Quit \/ Save \/ SaveFails
  <2>1. Left
    BY <1>9 DEF Quit, Save, SaveFails, Leave
  <2> QED BY <2>1, LeftKeeps
<1> QED BY <1>2, <1>3, <1>4, <1>6, <1>7, <1>8, <1>9 DEF EditorNext

(***************************************************************************)
(* The screen                                                               *)
(***************************************************************************)
Marks == Letters \cup {Blank, NUL, Tab, Mark, Drawn, Past, Time}
Consoles == [row : 0 .. ROW_LEN - 1, col : Int, cells : [Rows -> [Columns -> Marks]]]

\* The console has its rows and columns, and nothing below the cursor's row but the
\* clock.
Fresh(c) ==
    /\ c \in Consoles
    /\ \A r \in c.row + 1 .. ROW_LEN - 1 : c.cells[r] = RowOf(Blank)
    /\ ClockOnly(c.cells[ROW_LEN])

LEMMA Sizes ==
    /\ ROW_LEN \in Nat /\ ROW_LEN >= 1 /\ COLUMN_LEN \in Nat /\ COLUMN_LEN >= 1
    /\ LINE \in Nat /\ PROMPT \in Nat /\ PROMPT + LINE < COLUMN_LEN
    /\ TIME_COL \in Nat /\ VGA_CHAR_MAX_COL \in Nat /\ COLUMN_LEN <= VGA_CHAR_MAX_COL
  BY EditorAssumption, ShellAssumption

LEMMA RowOfIs ==
    ASSUME NEW x \in Marks
    PROVE  RowOf(x) \in [Columns -> Marks] /\ \A k \in Columns : RowOf(x)[k] = x
  BY DEF RowOf

LEMMA ClearedFresh == Fresh(Cleared) /\ Cleared.row = 0 /\ Cleared.col = 0 /\ Cleared.cells[0] = RowOf(Blank)
<1>1. Blank \in Marks
  BY DEF Marks
<1>2. RowOf(Blank) \in [Columns -> Marks]
  BY <1>1, RowOfIs
<1> DEFINE cells == [row \in Rows |-> RowOf(Blank)]
<1>3. cells \in [Rows -> [Columns -> Marks]] /\ \A r \in Rows : cells[r] = RowOf(Blank)
  BY <1>2
<1>4. Cleared = [row |-> 0, col |-> 0, cells |-> cells]
  BY DEF Cleared
<1> HIDE DEF cells
<1>5. /\ Cleared \in Consoles
      /\ Cleared.row = 0 /\ Cleared.col = 0 /\ Cleared.cells = cells
  BY <1>3, <1>4, Sizes DEF Consoles
<1>6. 0 \in Rows /\ ROW_LEN \in Rows /\ \A r \in 0 + 1 .. ROW_LEN - 1 : r \in Rows
  BY Sizes DEF Rows
<1>7. ClockOnly(RowOf(Blank))
  BY <1>1, RowOfIs DEF ClockOnly
<1> QED BY <1>3, <1>5, <1>6, <1>7 DEF Fresh

\* A new line is an empty row with nothing below it.
LEMMA NewLineIs ==
    ASSUME NEW c, Fresh(c)
    PROVE  /\ Fresh(NewLine(c)) /\ NewLine(c).col = 0
           /\ NewLine(c).cells[NewLine(c).row] = RowOf(Blank)
<1> DEFINE last  == c.row = ROW_LEN - 1
           row   == IF last THEN c.row ELSE c.row + 1
           over  == IF last THEN Scrolled(c.cells) ELSE c.cells
           cells == [r \in Rows |-> IF r < row THEN RowOf(Past) ELSE over[r]]
<1>0. RowOf(Past) \in [Columns -> Marks] /\ RowOf(Blank) \in [Columns -> Marks]
  BY RowOfIs DEF Marks
<1>1. /\ c.row \in 0 .. ROW_LEN - 1 /\ c.cells \in [Rows -> [Columns -> Marks]]
      /\ \A r \in c.row + 1 .. ROW_LEN - 1 : c.cells[r] = RowOf(Blank)
      /\ ClockOnly(c.cells[ROW_LEN])
  BY DEF Fresh, Consoles
<1>2. NewLine(c) = [row |-> row, col |-> 0, cells |-> cells]
  BY DEF NewLine
<1>3. row \in 0 .. ROW_LEN - 1
  BY <1>1, Sizes
<1>4. ASSUME NEW r \in Rows PROVE over[r] \in [Columns -> Marks]
  <2>1. CASE last
    <3>1. over[r] = IF r < ROW_LEN - 1 THEN c.cells[r + 1]
                    ELSE IF r = ROW_LEN - 1 THEN RowOf(Blank) ELSE c.cells[r]
      BY <2>1 DEF Scrolled
    <3>2. r < ROW_LEN - 1 => r + 1 \in Rows
      BY Sizes DEF Rows
    <3> HIDE DEF over
    <3> QED BY <1>0, <1>1, <3>1, <3>2
  <2>2. CASE ~last
    BY <1>1, <2>2
  <2> QED BY <2>1, <2>2
<1>5. ASSUME NEW r \in row .. ROW_LEN - 1 PROVE r \in Rows /\ over[r] = RowOf(Blank)
  <2>1. r \in Rows
    BY <1>3, Sizes DEF Rows
  <2>2. CASE last
    <3>1. over[r] = IF r < ROW_LEN - 1 THEN c.cells[r + 1]
                    ELSE IF r = ROW_LEN - 1 THEN RowOf(Blank) ELSE c.cells[r]
      BY <2>1, <2>2 DEF Scrolled
    <3>2. r = ROW_LEN - 1
      BY <1>1, <2>2, Sizes
    <3> HIDE DEF over
    <3> QED BY <1>1, <2>1, <3>1, <3>2
  <2>3. CASE ~last
    <3>1. over[r] = c.cells[r] /\ r \in c.row + 1 .. ROW_LEN - 1
      BY <2>3
    <3> HIDE DEF over, row
    <3> QED BY <1>1, <2>1, <3>1
  <2> QED BY <2>2, <2>3
<1>6. over[ROW_LEN] = c.cells[ROW_LEN] /\ ROW_LEN \in Rows
  <2>1. ROW_LEN \in Rows /\ ~(ROW_LEN < ROW_LEN - 1) /\ ROW_LEN # ROW_LEN - 1
    BY Sizes DEF Rows
  <2> QED BY <2>1 DEF Scrolled
<1> HIDE DEF over, row
<1>7. cells \in [Rows -> [Columns -> Marks]]
  BY <1>0, <1>4
<1>8. ASSUME NEW r \in row .. ROW_LEN - 1 PROVE cells[r] = RowOf(Blank)
  <2>1. ~(r < row)
    BY <1>3
  <2> QED BY <1>5, <2>1
<1>9. cells[ROW_LEN] = c.cells[ROW_LEN]
  <2>1. ~(ROW_LEN < row)
    BY <1>3, Sizes
  <2> QED BY <1>6, <2>1
<1> HIDE DEF cells
<1>10. /\ NewLine(c) \in Consoles
       /\ NewLine(c).row = row /\ NewLine(c).col = 0 /\ NewLine(c).cells = cells
  BY <1>2, <1>3, <1>7, Sizes DEF Consoles
<1>11. row \in row .. ROW_LEN - 1 /\ \A r \in row + 1 .. ROW_LEN - 1 : r \in row .. ROW_LEN - 1
  BY <1>3, Sizes
<1> QED BY <1>1, <1>8, <1>9, <1>10, <1>11 DEF Fresh

\* A step that changes the cursor's row and column only.
With(c, col, line) ==
    [row |-> c.row, col |-> col, cells |-> [r \in Rows |-> IF r = c.row THEN line ELSE c.cells[r]]]

LEMMA WithIs ==
    ASSUME NEW c, Fresh(c), NEW col \in Int, NEW line \in [Columns -> Marks]
    PROVE  /\ Fresh(With(c, col, line)) /\ With(c, col, line).row = c.row
           /\ With(c, col, line).col = col /\ With(c, col, line).cells[c.row] = line
<1>1. /\ c.row \in 0 .. ROW_LEN - 1 /\ c.cells \in [Rows -> [Columns -> Marks]]
      /\ \A r \in c.row + 1 .. ROW_LEN - 1 : c.cells[r] = RowOf(Blank)
      /\ ClockOnly(c.cells[ROW_LEN])
  BY DEF Fresh, Consoles
<1>2. c.row \in Rows /\ ROW_LEN \in Rows /\ c.row # ROW_LEN
  BY <1>1, Sizes DEF Rows
<1> DEFINE cells == [r \in Rows |-> IF r = c.row THEN line ELSE c.cells[r]]
<1>3. cells \in [Rows -> [Columns -> Marks]]
  BY <1>1
<1>4. cells[c.row] = line /\ cells[ROW_LEN] = c.cells[ROW_LEN]
  BY <1>2
<1>5. \A r \in c.row + 1 .. ROW_LEN - 1 : cells[r] = c.cells[r]
  BY <1>1, Sizes DEF Rows
<1>6. With(c, col, line) = [row |-> c.row, col |-> col, cells |-> cells]
  BY DEF With
<1> HIDE DEF cells
<1>7. /\ With(c, col, line) \in Consoles /\ With(c, col, line).row = c.row
      /\ With(c, col, line).col = col /\ With(c, col, line).cells = cells
  BY <1>1, <1>3, <1>6 DEF Consoles
<1> QED BY <1>1, <1>4, <1>5, <1>7 DEF Fresh

\* EXCEPT, written out.
LEMMA WithExcept ==
    ASSUME NEW c, Fresh(c), NEW col, NEW line
    PROVE  [c EXCEPT !.cells[c.row] = line, !.col = col] = With(c, col, line)
<1>1. c = [row |-> c.row, col |-> c.col, cells |-> c.cells] /\ c.cells \in [Rows -> [Columns -> Marks]]
  BY DEF Fresh, Consoles
<1> DEFINE cells == [r \in Rows |-> IF r = c.row THEN line ELSE c.cells[r]]
<1>2. [c.cells EXCEPT ![c.row] = line] = cells
  BY <1>1
<1>3. [c EXCEPT !.cells[c.row] = line, !.col = col] = [c EXCEPT !.cells = cells, !.col = col]
  BY <1>1, <1>2
<1>4. With(c, col, line) = [row |-> c.row, col |-> col, cells |-> cells]
  BY DEF With
<1> HIDE DEF cells
<1> DEFINE d == [c EXCEPT !.cells = cells]
<1>5. d = [row |-> c.row, col |-> c.col, cells |-> cells]
  BY <1>1
<1>6. [c EXCEPT !.cells = cells, !.col = col] = [d EXCEPT !.col = col]
  BY <1>1
<1> HIDE DEF d
<1>7. [d EXCEPT !.col = col] = [row |-> c.row, col |-> col, cells |-> cells]
  BY <1>5
<1> QED BY <1>3, <1>4, <1>6, <1>7

DrawnLine(c, col, ch) ==
    [k \in Columns |-> IF k = col % VGA_CHAR_MAX_COL THEN ch ELSE c.cells[c.row][k]]

LEMMA DrawnLineIs ==
    ASSUME NEW c, Fresh(c), NEW col, NEW ch \in Marks
    PROVE  DrawnLine(c, col, ch) \in [Columns -> Marks]
<1>1. c.row \in Rows /\ c.cells \in [Rows -> [Columns -> Marks]]
  BY Sizes DEF Fresh, Consoles, Rows
<1> QED BY <1>1 DEF DrawnLine

LEMMA DrawIs ==
    ASSUME NEW c, Fresh(c), NEW col, NEW ch, NEW n
    PROVE  [Draw(c, col, ch) EXCEPT !.col = n] = With(c, n, DrawnLine(c, col, ch))
<1>1. c = [row |-> c.row, col |-> c.col, cells |-> c.cells] /\ c.cells \in [Rows -> [Columns -> Marks]]
      /\ c.row \in Rows
  BY Sizes DEF Fresh, Consoles, Rows
<1> DEFINE line == DrawnLine(c, col, ch)
<1>2. Draw(c, col, ch) = [c EXCEPT !.cells[c.row] = line]
  BY <1>1 DEF Draw, DrawnLine
<1> HIDE DEF line
<1>3. [Draw(c, col, ch) EXCEPT !.col = n] = [c EXCEPT !.cells[c.row] = line, !.col = n]
  BY <1>1, <1>2
<1> QED BY <1>3, WithExcept DEF line

\* A character goes into the cursor's cell, and the cursor behind it.
LEMMA PutFresh ==
    ASSUME NEW c, Fresh(c), NEW ch \in Marks
    PROVE  Fresh(Put(c, ch))
<1> DEFINE d == IF c.col = COLUMN_LEN THEN NewLine(c) ELSE c
<1>1. Fresh(d)
  BY NewLineIs
<1>2. Put(c, ch) = [Draw(d, d.col, ch) EXCEPT !.col = d.col + 1]
  BY DEF Put
<1> HIDE DEF d
<1>3. d.col + 1 \in Int
  BY <1>1 DEF Fresh, Consoles
<1>4. DrawnLine(d, d.col, ch) \in [Columns -> Marks]
  BY <1>1, DrawnLineIs
<1>5. Put(c, ch) = With(d, d.col + 1, DrawnLine(d, d.col, ch))
  BY <1>1, <1>2, DrawIs
<1> QED BY <1>1, <1>3, <1>4, <1>5, WithIs

LEMMA ModIs == ASSUME NEW k \in Columns PROVE k % VGA_CHAR_MAX_COL = k
<1>1. k \in Nat /\ k < VGA_CHAR_MAX_COL /\ VGA_CHAR_MAX_COL \in Nat \ {0}
  BY Sizes DEF Columns
<1> QED BY <1>1, Z3

LEMMA PutIs ==
    ASSUME NEW c, Fresh(c), c.col \in Columns, NEW ch \in Marks
    PROVE  /\ Fresh(Put(c, ch)) /\ Put(c, ch).col = c.col + 1 /\ Put(c, ch).row = c.row
           /\ Put(c, ch).cells[c.row] = [k \in Columns |-> IF k = c.col THEN ch ELSE c.cells[c.row][k]]
<1>1. c.col # COLUMN_LEN /\ c.col + 1 \in Int
  BY Sizes DEF Columns
<1>2. Put(c, ch) = [Draw(c, c.col, ch) EXCEPT !.col = c.col + 1]
  BY <1>1 DEF Put
<1>3. DrawnLine(c, c.col, ch) \in [Columns -> Marks]
  BY DrawnLineIs
<1>4. DrawnLine(c, c.col, ch) = [k \in Columns |-> IF k = c.col THEN ch ELSE c.cells[c.row][k]]
  BY ModIs DEF DrawnLine
<1>5. Put(c, ch) = With(c, c.col + 1, DrawnLine(c, c.col, ch))
  BY <1>2, DrawIs
<1> QED BY <1>1, <1>3, <1>4, <1>5, WithIs

LEMMA PutTabIs == ASSUME NEW c, Fresh(c) PROVE Fresh(PutTab(c))
<1>1. CASE c.col >= COLUMN_LEN - 4
  BY <1>1, NewLineIs DEF PutTab
<1>2. CASE ~(c.col >= COLUMN_LEN - 4)
  <2> DEFINE to == ((c.col + 4) \div 4) * 4
             line == [k \in Columns |->
                        IF k \in c.col .. c.col + ((4 - c.col) % 4) - 1 THEN Blank ELSE c.cells[c.row][k]]
  <2>1. c.row \in Rows /\ c.cells \in [Rows -> [Columns -> Marks]] /\ c.col \in Int /\ c \in Consoles
    BY Sizes DEF Fresh, Consoles, Rows
  <2>2. line \in [Columns -> Marks]
    BY <2>1 DEF Marks
  <2>3. to \in Int
    BY <2>1
  <2>4. PutTab(c) = [c EXCEPT !.col = to, !.cells[c.row] = line]
    BY <1>2, <2>1 DEF PutTab, Consoles
  <2> HIDE DEF line, to
  <2>5. PutTab(c) = [c EXCEPT !.cells[c.row] = line, !.col = to]
    BY <2>1, <2>4 DEF Consoles
  <2>6. PutTab(c) = With(c, to, line)
    BY <2>5, WithExcept
  <2> QED BY <2>2, <2>3, <2>6, WithIs
<1> QED BY <1>1, <1>2

\* The prompt, and the line behind it as far as it is typed.
LineAt(c, b, n) ==
    /\ c.col = PROMPT + n
    /\ c.cells[c.row] = [k \in Columns |-> IF k < PROMPT THEN Mark
                                           ELSE IF k < PROMPT + n THEN b[k - PROMPT] ELSE Blank]

LEMMA PromptedIs ==
    ASSUME NEW c, Fresh(c), c.cells[c.row] = RowOf(Blank), NEW b
    PROVE  Fresh(Prompted(c)) /\ LineAt(Prompted(c), b, 0)
<1>1. c.row \in Rows /\ c.cells \in [Rows -> [Columns -> Marks]] /\ c \in Consoles
  BY Sizes DEF Fresh, Consoles, Rows
<1> DEFINE line == [k \in Columns |-> IF k < PROMPT THEN Mark ELSE c.cells[c.row][k]]
<1>3. line \in [Columns -> Marks]
  BY <1>1 DEF Marks
<1>4. \A k \in Columns : c.cells[c.row][k] = Blank
  BY RowOfIs DEF Marks
<1>5. line = [k \in Columns |-> IF k < PROMPT THEN Mark
                                ELSE IF k < PROMPT + 0 THEN b[k - PROMPT] ELSE Blank]
  BY <1>4, Sizes
<1>6. Prompted(c) = [c EXCEPT !.col = PROMPT, !.cells[c.row] = line]
  BY <1>1 DEF Prompted, Consoles
<1> HIDE DEF line
<1>7. Prompted(c) = [c EXCEPT !.cells[c.row] = line, !.col = PROMPT]
  BY <1>1, <1>6 DEF Consoles
<1>8. Prompted(c) = With(c, PROMPT, line)
  BY <1>7, WithExcept
<1>9. PROMPT = PROMPT + 0 /\ PROMPT \in Int
  BY Sizes
<1> QED BY <1>3, <1>5, <1>8, <1>9, WithIs DEF LineAt

LEMMA OutputIs ==
    ASSUME NEW c, Fresh(c)
    PROVE  Fresh(Output(c)) /\ Output(c).cells[Output(c).row] = RowOf(Blank)
<1>1. Past \in Marks
  BY DEF Marks
<1>2. Fresh(Put(c, Past))
  BY <1>1, PutFresh
<1> QED BY <1>2, NewLineIs DEF Output

\* After the editor the screen is cleared.
LEMMA AfterViIs == ASSUME NEW b PROVE Fresh(AfterVi) /\ LineAt(AfterVi, b, 0)
<1>1. Fresh(Cleared)
  BY ClearedFresh
<1>2. Fresh(Output(Cleared)) /\ Output(Cleared).cells[Output(Cleared).row] = RowOf(Blank)
  BY <1>1, OutputIs
<1> QED BY <1>2, PromptedIs DEF AfterVi

(***************************************************************************)
(* The prompt                                                               *)
(***************************************************************************)
Typed == Letters \cup {Blank, Tab}

\* No character of the line is a NUL, and at the prompt the line is on the screen.
LineOK ==
    /\ ps_buffer \in [0 .. LINE -> Typed \cup {NUL}]
    /\ ps_buffer_index \in 0 .. LINE
    /\ \A j \in 0 .. ps_buffer_index - 1 : ps_buffer[j] # NUL
    /\ mode # "left" => ps_buffer_index = 0
ScreenOK == mode = "left" => /\ Fresh(console)
                             /\ ~tabbed => LineAt(console, ps_buffer, ps_buffer_index)

Inv == EditorInv /\ LineOK /\ ScreenOK

LEMMA TypedFacts == NUL \notin Typed /\ Typed \subseteq Marks /\ Blank \in Marks /\ Blank # NUL
  BY ShellAssumption DEF Typed, Marks, Blank, NUL, Tab

LEMMA InitInv == Init => Inv
<1> SUFFICES ASSUME Init PROVE Inv
  OBVIOUS
<1>1. EditorInit /\ ps_buffer = [i \in 0 .. LINE |-> NUL] /\ ps_buffer_index = 0
      /\ console = Prompted(Output(Cleared))
  BY DEF Init
<1>2. mode = "left" /\ text = <<>> /\ astray = FALSE
  BY <1>1 DEF EditorInit
<1>3. TextOK
  <2>1. text \in Seq(Keys) /\ Len(text) = 0 /\ ~Editing
    BY <1>2 DEF Editing
  <2>2. Len(text) <= BUFFER_SIZE
    BY <2>1, EditorAssumption
  <2>3. astray \in BOOLEAN
    BY <1>2, Zenon
  <2> QED BY <2>1, <2>2, <2>3, Zenon DEF TextOK, TextTyped, CursorOK
<1>4. DiskOK
  BY <1>2 DEF DiskOK, Editing
<1>5. EditorInv
  BY <1>2, <1>3, <1>4 DEF EditorInv, Modes
<1>6. LineOK
  <2>1. ps_buffer \in [0 .. LINE -> Typed \cup {NUL}]
    BY <1>1
  <2>2. ps_buffer_index \in 0 .. LINE /\ \A j \in 0 .. ps_buffer_index - 1 : ps_buffer[j] # NUL
    BY <1>1, Sizes
  <2> QED BY <1>1, <2>1, <2>2 DEF LineOK
<1>7. ScreenOK
  BY <1>1, AfterViIs DEF ScreenOK, AfterVi
<1> QED BY <1>5, <1>6, <1>7 DEF Inv

LEMMA EditorStays == ASSUME EditorInv, UNCHANGED editorVars PROVE EditorInv'
  BY DEF editorVars, EditorInv, TextOK, TextTyped, CursorOK, DiskOK, Editing

LEMMA PromptKeyKeeps == ASSUME Inv, NEW k \in Letters \cup {Blank, Tab}, PromptKey(k) PROVE Inv'
<1> DEFINE i == ps_buffer_index
<1>1. /\ mode = "left" /\ i < LINE /\ ps_buffer' = [ps_buffer EXCEPT ![i] = k]
      /\ ps_buffer_index' = i + 1 /\ mode' = mode /\ tabbed' = (tabbed \/ k = Tab)
      /\ console' = IF k = Tab THEN PutTab(console) ELSE Put(console, k)
  BY DEF PromptKey, AtPrompt, editorVars
<1>2. EditorInv'
  BY EditorStays DEF Inv, PromptKey
<1>3. /\ ps_buffer \in [0 .. LINE -> Typed \cup {NUL}] /\ i \in 0 .. LINE
      /\ \A j \in 0 .. i - 1 : ps_buffer[j] # NUL
      /\ Fresh(console) /\ (~tabbed => LineAt(console, ps_buffer, i))
  BY <1>1 DEF Inv, LineOK, ScreenOK
<1>4. k \in Typed /\ k # NUL /\ k \in Marks
  BY TypedFacts DEF Typed
<1> DEFINE b == [ps_buffer EXCEPT ![i] = k]
<1>5. b \in [0 .. LINE -> Typed \cup {NUL}] /\ b[i] = k /\ \A j \in 0 .. LINE : j # i => b[j] = ps_buffer[j]
  BY <1>3, <1>4
<1>6. ps_buffer' = b
  BY <1>1
<1> HIDE DEF b
<1>7. LineOK'
  <2>1. \A j \in 0 .. i : b[j] # NUL
    BY <1>3, <1>4, <1>5, Sizes
  <2>2. i + 1 \in 0 .. LINE /\ \A j \in 0 .. i + 1 - 1 : j \in 0 .. i
    BY <1>1, <1>3, Sizes
  <2>3. \A j \in 0 .. i + 1 - 1 : b[j] # NUL
    BY <2>1, <2>2
  <2>4. ps_buffer' \in [0 .. LINE -> Typed \cup {NUL}] /\ ps_buffer_index' \in 0 .. LINE
    BY <1>1, <1>5, <1>6, <2>2
  <2>5. \A j \in 0 .. ps_buffer_index' - 1 : ps_buffer'[j] # NUL
    <3>1. ps_buffer_index' = i + 1 /\ i \in Nat
      BY <1>1, <1>3, Sizes
    <3> QED BY <1>6, <2>3, <3>1
  <2> QED BY <1>1, <2>4, <2>5 DEF LineOK
<1>8. Fresh(console')
  BY <1>1, <1>3, <1>4, PutTabIs, PutFresh
<1>9. ASSUME ~tabbed' PROVE LineAt(console', b, i + 1)
  <2>0. ~tabbed /\ k # Tab /\ console' = Put(console, k)
    BY <1>1, <1>9
  <2>1. console.col = PROMPT + i
        /\ console.cells[console.row] =
            [c \in Columns |-> IF c < PROMPT THEN Mark
                               ELSE IF c < PROMPT + i THEN ps_buffer[c - PROMPT] ELSE Blank]
    BY <1>3, <2>0 DEF LineAt
  <2>2. console.col \in Columns /\ PROMPT + i \in Nat
    BY <1>1, <1>3, <2>1, Sizes DEF Columns
  <2>3. /\ Fresh(Put(console, k)) /\ Put(console, k).col = console.col + 1
        /\ Put(console, k).row = console.row
        /\ Put(console, k).cells[console.row] =
            [c \in Columns |-> IF c = console.col THEN k ELSE console.cells[console.row][c]]
    BY <1>3, <1>4, <2>2, PutIs
  <2>4. ASSUME NEW c \in Columns
        PROVE  (IF c = console.col THEN k ELSE console.cells[console.row][c]) =
                    IF c < PROMPT THEN Mark
                    ELSE IF c < PROMPT + (i + 1) THEN b[c - PROMPT] ELSE Blank
    <3>0. c \in Int
      BY DEF Columns
    <3>1. CASE c = PROMPT + i
      <4>1. c - PROMPT = i /\ ~(c < PROMPT) /\ c < PROMPT + (i + 1)
        BY <1>3, <3>1, Sizes
      <4> QED BY <1>5, <2>1, <3>1, <4>1
    <3>2. CASE c < PROMPT
      <4>1. c # PROMPT + i
        BY <1>3, <3>0, <3>2, Sizes
      <4> QED BY <2>1, <3>2, <4>1
    <3>3. CASE c > PROMPT + i
      <4>1. ~(c < PROMPT) /\ ~(c < PROMPT + i) /\ ~(c < PROMPT + (i + 1)) /\ c # PROMPT + i
        BY <1>3, <3>0, <3>3, Sizes
      <4> QED BY <2>1, <4>1
    <3>4. CASE PROMPT <= c /\ c < PROMPT + i
      <4>1. ~(c < PROMPT) /\ c < PROMPT + (i + 1) /\ c # PROMPT + i /\ c - PROMPT \in 0 .. LINE /\ c - PROMPT # i
        BY <1>3, <3>0, <3>4, Sizes
      <4>2. b[c - PROMPT] = ps_buffer[c - PROMPT]
        BY <1>5, <4>1
      <4> QED BY <2>1, <3>4, <4>1, <4>2
    <3> QED BY <3>0, <3>1, <3>2, <3>3, <3>4, <2>2, Sizes
  <2>5. Put(console, k).col = PROMPT + (i + 1)
    BY <1>3, <2>1, <2>3, Sizes
  <2>6. LineAt(Put(console, k), b, i + 1)
    BY <2>3, <2>4, <2>5 DEF LineAt
  <2> QED BY <2>0, <2>6
<1>10. ScreenOK'
  BY <1>1, <1>6, <1>8, <1>9 DEF ScreenOK
<1> QED BY <1>2, <1>7, <1>10 DEF Inv

LEMMA PromptRubKeeps == ASSUME Inv, PromptRub PROVE Inv'
<1> DEFINE i == ps_buffer_index
           n == i - 1
<1>1. /\ mode = "left" /\ i > 0 /\ ps_buffer_index' = n /\ ps_buffer' = ps_buffer /\ mode' = mode
      /\ console' = [Draw(console, console.col - 1, Blank) EXCEPT !.col = console.col - 1]
      /\ tabbed' = tabbed
  BY DEF PromptRub, RubbedOut, AtPrompt, editorVars
<1>2. EditorInv'
  BY EditorStays DEF Inv, PromptRub
<1>3. /\ ps_buffer \in [0 .. LINE -> Typed \cup {NUL}] /\ i \in 0 .. LINE
      /\ \A j \in 0 .. i - 1 : ps_buffer[j] # NUL
      /\ Fresh(console) /\ (~tabbed => LineAt(console, ps_buffer, i))
  BY <1>1 DEF Inv, LineOK, ScreenOK
<1>4. LineOK'
  <2>1. n \in 0 .. LINE /\ \A j \in 0 .. n - 1 : j \in 0 .. i - 1
    BY <1>1, <1>3, Sizes
  <2> QED BY <1>1, <1>3, <2>1 DEF LineOK
<1> DEFINE d == console
           m == d.col - 1
           line == DrawnLine(d, m, Blank)
<1>5. d.col \in Int /\ m \in Int
  BY <1>3 DEF Fresh, Consoles
<1>6. line \in [Columns -> Marks]
  BY <1>3, TypedFacts, DrawnLineIs
<1>7. console' = With(d, m, line)
  BY <1>1, <1>3, DrawIs
<1>8. Fresh(console') /\ console'.row = d.row /\ console'.col = m /\ console'.cells[d.row] = line
  <2> HIDE DEF line, m
  <2> QED BY <1>3, <1>5, <1>6, <1>7, WithIs
<1>9. ASSUME ~tabbed PROVE LineAt(console', ps_buffer, n)
  <2>1. /\ d.col = PROMPT + i
        /\ d.cells[d.row] = [k \in Columns |-> IF k < PROMPT THEN Mark
                              ELSE IF k < PROMPT + i THEN ps_buffer[k - PROMPT] ELSE Blank]
    BY <1>3, <1>9 DEF LineAt
  <2>2. m = PROMPT + n /\ m \in Columns /\ n \in 0 .. LINE
    BY <1>1, <1>3, <2>1, Sizes DEF Columns
  <2>3. m % VGA_CHAR_MAX_COL = PROMPT + n
    <3> HIDE DEF m
    <3> QED BY <2>2, ModIs
  <2>4. line = [k \in Columns |-> IF k < PROMPT THEN Mark
                            ELSE IF k < PROMPT + n THEN ps_buffer[k - PROMPT] ELSE Blank]
    <3> SUFFICES ASSUME NEW k \in Columns
                 PROVE  (IF k = PROMPT + n THEN Blank ELSE d.cells[d.row][k]) =
                          IF k < PROMPT THEN Mark
                          ELSE IF k < PROMPT + n THEN ps_buffer[k - PROMPT] ELSE Blank
      BY <2>3 DEF DrawnLine
    <3>1. k \in Int
      BY DEF Columns
    <3>2. d.cells[d.row][k] = IF k < PROMPT THEN Mark
                              ELSE IF k < PROMPT + i THEN ps_buffer[k - PROMPT] ELSE Blank
      BY <2>1
    <3> HIDE DEF d
    <3> QED BY <1>3, <2>2, <3>1, <3>2, Sizes
  <2> HIDE DEF line, m, d, n
  <2> QED BY <1>8, <2>2, <2>4 DEF LineAt
<1>10. ScreenOK'
  <2> HIDE DEF line, m, d, n
  <2> QED BY <1>1, <1>8, <1>9 DEF ScreenOK
<1> QED BY <1>2, <1>4, <1>10 DEF Inv

\* What Enter leaves of the buffer: characters and ends of strings.
LEMMA SplitIs == ASSUME LineOK PROVE Split \in [0 .. LINE -> Typed \cup {NUL}]
<1>1. ps_buffer \in [0 .. LINE -> Typed \cup {NUL}]
  BY DEF LineOK
<1>2. Ended \in [0 .. LINE -> Typed \cup {NUL}]
  BY <1>1 DEF Ended
<1> QED BY <1>2 DEF Split

LEMMA EnteredKeeps == ASSUME LineOK, Entered PROVE LineOK'
<1>1. ps_buffer' = Split /\ ps_buffer_index' = 0
  BY DEF Entered
<1>2. Split \in [0 .. LINE -> Typed \cup {NUL}]
  BY SplitIs
<1>3. 0 \in 0 .. LINE /\ \A j \in 0 .. 0 - 1 : Split[j] # NUL
  BY Sizes
<1> QED BY <1>1, <1>2, <1>3 DEF LineOK

LEMMA RunKeeps == ASSUME Inv, RunCommand PROVE Inv'
<1>1. Entered /\ mode = "left" /\ mode' = mode /\ ps_buffer_index' = 0
  BY DEF RunCommand, Entered, AtPrompt, editorVars
<1>2. EditorInv'
  BY EditorStays DEF Inv, RunCommand
<1>3. LineOK'
  BY <1>1, EnteredKeeps DEF Inv
<1>4. Fresh(console)
  BY <1>1 DEF Inv, ScreenOK
<1>5. \E c : Fresh(c) /\ c.cells[c.row] = RowOf(Blank) /\ console' = Prompted(c)
  <2>1. CASE Word = Clear
    <3>1. console' = Prompted(Cleared)
      BY <2>1 DEF RunCommand
    <3> QED BY <3>1, ClearedFresh
  <2>2. CASE Word # Clear /\ Word = <<>>
    <3>1. console' = Prompted(NewLine(console))
      BY <2>2 DEF RunCommand
    <3> QED BY <1>4, <3>1, NewLineIs
  <2>3. CASE Word # Clear /\ Word # <<>>
    <3>1. console' = Prompted(Output(NewLine(console)))
      BY <2>3 DEF RunCommand
    <3>2. Fresh(NewLine(console))
      BY <1>4, NewLineIs
    <3> QED BY <3>1, <3>2, OutputIs
  <2> QED BY <2>1, <2>2, <2>3
<1>6. \A b : Fresh(console') /\ LineAt(console', b, 0)
  BY <1>5, PromptedIs
<1>7. ScreenOK'
  BY <1>1, <1>6 DEF ScreenOK
<1> QED BY <1>2, <1>3, <1>7 DEF Inv

LEMMA StartViKeeps == ASSUME Inv, StartVi PROVE Inv'
<1>1. Entered /\ mode = "left" /\ ps_buffer_index' = 0
  BY DEF StartVi, Entered, AtPrompt
<1>2. LineOK'
  BY <1>1, EnteredKeeps DEF Inv
<1>3. CASE Start
  <2>1. EditorInv'
    BY <1>3, StartKeeps
  <2>2. mode' # "left"
    BY <1>3 DEF Start
  <2> QED BY <1>2, <2>1, <2>2 DEF Inv, ScreenOK
<1>4. CASE console' = AfterVi /\ UNCHANGED editorVars
  <2>1. EditorInv'
    BY <1>4, EditorStays DEF Inv
  <2>2. \A b : Fresh(console') /\ LineAt(console', b, 0)
    BY <1>4, AfterViIs
  <2> QED BY <1>1, <1>2, <2>1, <2>2 DEF Inv, ScreenOK
<1> QED BY <1>3, <1>4 DEF StartVi

LEMMA EditorKeyKeeps == ASSUME Inv, EditorKey PROVE Inv'
<1>1. /\ mode # "left" /\ EditorNext /\ (mode' = "left" => console' = AfterVi)
      /\ UNCHANGED <<ps_buffer, ps_buffer_index, tabbed>>
  BY DEF EditorKey
<1>2. EditorInv'
  BY <1>1, EditorKeeps DEF Inv, Editing
<1>3. ps_buffer_index = 0
  BY <1>1 DEF Inv, LineOK
<1>4. LineOK'
  BY <1>1, <1>3 DEF Inv, LineOK
<1>5. ScreenOK'
  BY <1>1, <1>3, AfterViIs DEF ScreenOK
<1> QED BY <1>2, <1>4, <1>5 DEF Inv

LEMMA DrawTimeKeeps == ASSUME Inv, DrawTime PROVE Inv'
<1>1. PICK k \in TIME_COL .. COLUMN_LEN - 1 : console' = [console EXCEPT !.cells[ROW_LEN][k] = Time]
  BY DEF DrawTime
<1>2. UNCHANGED <<mode, ps_buffer, ps_buffer_index, tabbed>> /\ UNCHANGED editorVars
  BY DEF DrawTime, editorVars
<1>3. EditorInv'
  BY <1>2, EditorStays DEF Inv
<1>4. LineOK'
  BY <1>2 DEF Inv, LineOK
<1>5. ASSUME mode = "left"
      PROVE  /\ Fresh(console')
             /\ \A b, n : LineAt(console, b, n) => LineAt(console', b, n)
  <2> DEFINE c == console
             line == [c.cells[ROW_LEN] EXCEPT ![k] = Time]
             cells == [r \in Rows |-> IF r = ROW_LEN THEN line ELSE c.cells[r]]
  <2>1. /\ c = [row |-> c.row, col |-> c.col, cells |-> c.cells]
        /\ c.row \in 0 .. ROW_LEN - 1 /\ c.col \in Int /\ c.cells \in [Rows -> [Columns -> Marks]]
        /\ \A r \in c.row + 1 .. ROW_LEN - 1 : c.cells[r] = RowOf(Blank)
        /\ ClockOnly(c.cells[ROW_LEN])
    BY <1>5 DEF Inv, ScreenOK, Fresh, Consoles
  <2>2. ROW_LEN \in Rows /\ k \in Columns /\ Time \in Marks /\ k >= TIME_COL
    BY Sizes DEF Rows, Columns, Marks
  <2>3. line \in [Columns -> Marks] /\ ClockOnly(line)
    <3>1. c.cells[ROW_LEN] \in [Columns -> Marks]
      BY <2>1, <2>2
    <3>2. \A j \in Columns : line[j] = IF j = k THEN Time ELSE c.cells[ROW_LEN][j]
      BY <3>1
    <3>3. line \in [Columns -> Marks]
      BY <2>2, <3>1
    <3>4. ClockOnly(line)
      <4> HIDE DEF line, c
      <4> QED BY <2>1, <2>2, <3>2 DEF ClockOnly
    <3> QED BY <3>3, <3>4
  <2>4. console' = [c EXCEPT !.cells[ROW_LEN] = line]
    BY <1>1, <2>1
  <2> HIDE DEF line
  <2>5. cells = [c.cells EXCEPT ![ROW_LEN] = line]
    BY <2>1
  <2>6. cells \in [Rows -> [Columns -> Marks]] /\ cells[ROW_LEN] = line
    BY <2>1, <2>2, <2>3
  <2>7. cells[c.row] = c.cells[c.row] /\ \A r \in c.row + 1 .. ROW_LEN - 1 : cells[r] = c.cells[r]
    BY <2>1, Sizes DEF Rows
  <2>8. console' = [row |-> c.row, col |-> c.col, cells |-> cells]
    BY <2>1, <2>4, <2>5
  <2> HIDE DEF cells
  <2>9. /\ console' \in Consoles
        /\ console'.row = c.row /\ console'.col = c.col /\ console'.cells = cells
    BY <2>1, <2>6, <2>8 DEF Consoles
  <2>10. Fresh(console')
    BY <2>1, <2>3, <2>6, <2>7, <2>9 DEF Fresh
  <2>11. \A b, n : LineAt(console, b, n) => LineAt(console', b, n)
    BY <2>7, <2>9 DEF LineAt
  <2> QED BY <2>10, <2>11
<1>6. ScreenOK'
  BY <1>2, <1>5 DEF Inv, ScreenOK
<1> QED BY <1>3, <1>4, <1>6 DEF Inv

LEMMA NextInv == Inv /\ [Next]_vars => Inv'
<1> SUFFICES ASSUME Inv, [Next]_vars PROVE Inv'
  OBVIOUS
<1>1. CASE \E k \in Letters \cup {Blank, Tab} : PromptKey(k)
  BY <1>1, PromptKeyKeeps
<1>2. CASE PromptRub
  BY <1>2, PromptRubKeeps
<1>3. CASE RunCommand
  BY <1>3, RunKeeps
<1>4. CASE StartVi
  BY <1>4, StartViKeeps
<1>5. CASE EditorKey
  BY <1>5, EditorKeyKeeps
<1>6. CASE UNCHANGED vars
  <2>1. EditorInv'
    BY <1>6, EditorStays DEF Inv, vars
  <2>2. UNCHANGED <<mode, ps_buffer, ps_buffer_index, console, tabbed>>
    BY <1>6 DEF vars, editorVars, promptVars
  <2> QED BY <2>1, <2>2 DEF Inv, LineOK, ScreenOK
<1>7. CASE DrawTime
  BY <1>7, DrawTimeKeeps
<1> QED BY <1>1, <1>2, <1>3, <1>4, <1>5, <1>6, <1>7 DEF Next

\* The invariant the theorems rest on holds in every state.
THEOREM EditorInvariant == Spec => []Inv
<1>1. Init => Inv
  BY InitInv
<1>2. Inv /\ [Next]_vars => Inv'
  BY NextInv
<1> QED BY <1>1, <1>2, PTL DEF Spec

\* The text ends in a newline and fits the buffer, whatever is typed or deleted.
THEOREM TextEndsInLine == Spec => []EndsInLine
<1>1. Inv => EndsInLine
  BY InvGives DEF Inv
<1> QED BY <1>1, EditorInvariant, PTL

\* The cursor is on the page, which begins with a line and ends where the screen is
\* full, as long as every line took one row and no backspace was typed in front of the
\* first character: then one step of the page is enough for any key.
THEOREM CursorStaysShown == Spec => []CursorShown
<1>1. Inv => CursorShown
  BY InvGives DEF Inv
<1> QED BY <1>1, EditorInvariant, PTL

\* The prompt's row shows the line as it will be run unless a tab was typed in it, and
\* below it there is nothing but the clock.
THEOREM LineStaysShown == Spec => []LineShown
<1>1. Inv => LineShown
  <2> SUFFICES ASSUME Inv, mode = "left" PROVE LineShown
    BY DEF LineShown
  <2>1. Fresh(console)
    BY DEF Inv, ScreenOK
  <2>2. ASSUME ~tabbed
        PROVE  /\ console.col = PROMPT + ps_buffer_index
               /\ console.cells[console.row] = [k \in Columns |->
                    IF k < PROMPT THEN Mark
                    ELSE IF k < console.col THEN ps_buffer[k - PROMPT] ELSE Blank]
    <3>1. LineAt(console, ps_buffer, ps_buffer_index)
      BY <2>2 DEF Inv, ScreenOK
    <3>2. console.col = PROMPT + ps_buffer_index
      BY <3>1 DEF LineAt
    <3> QED BY <3>1, <3>2 DEF LineAt
  <2>3. /\ \A r \in console.row + 1 .. ROW_LEN - 1 : console.cells[r] = RowOf(Blank)
        /\ ClockOnly(console.cells[ROW_LEN])
    BY <2>1 DEF Fresh
  <2> QED BY <2>2, <2>3 DEF LineShown
<1> QED BY <1>1, EditorInvariant, PTL

\* The argument of a command is what was typed behind its first blank.
THEOREM ArgumentIsTyped == Spec => ArgumentTyped
<1> DEFINE A == Entered => \A i \in 0 .. ps_buffer_index - 1 :
                    (ps_buffer[i] = Blank /\ \A j \in 0 .. i - 1 : ps_buffer[j] # Blank) =>
                        param' = [k \in 1 .. ps_buffer_index - i - 1 |-> ps_buffer[i + k]]
<1>1. Inv => A
  <2> SUFFICES ASSUME Inv, Entered, NEW i \in 0 .. ps_buffer_index - 1,
                      ps_buffer[i] = Blank, \A j \in 0 .. i - 1 : ps_buffer[j] # Blank
               PROVE  param' = [k \in 1 .. ps_buffer_index - i - 1 |-> ps_buffer[i + k]]
    OBVIOUS
  <2> DEFINE n == ps_buffer_index
  <2>1. /\ ps_buffer \in [0 .. LINE -> Typed \cup {NUL}] /\ n \in 0 .. LINE /\ i \in 0 .. LINE
        /\ \A j \in 0 .. n - 1 : ps_buffer[j] # NUL
    BY Sizes DEF Inv, LineOK
  <2>2. param' = Param
    BY DEF Entered
  <2>3. Ended[n] = NUL /\ \A j \in 0 .. LINE : j # n => Ended[j] = ps_buffer[j]
    BY <2>1 DEF Ended
  <2>4. Ended \in [0 .. LINE -> Typed \cup {NUL}]
    BY <2>1 DEF Ended
  <2>5. Blanks(Ended) # {} /\ Least(Blanks(Ended)) = i
    <3> DEFINE S == Blanks(Ended)
    <3>1. i \in S /\ S \subseteq Nat
      BY <2>1, <2>3, Sizes DEF Blanks
    <3>2. \A x \in S : i <= x
      <4> SUFFICES ASSUME NEW x \in S, x < i PROVE FALSE
        BY <2>1, <3>1
      <4>1. x \in 0 .. i - 1 /\ x \in 0 .. LINE /\ x # n /\ Ended[x] = Blank
        BY <2>1, Sizes DEF Blanks
      <4> QED BY <2>3, <4>1
    <3> HIDE DEF S
    <3>3. Least(S) \in S /\ \A x \in S : Least(S) <= x
      BY <3>1, LeastIs
    <3>4. Least(S) = i
      <4>1. PICK m \in S : m = Least(S)
        BY <3>3
      <4>2. m \in Nat /\ i <= m /\ m <= i /\ i \in Nat
        BY <2>1, <3>1, <3>2, <3>3, <4>1
      <4> QED BY <4>1, <4>2
    <3> QED BY <3>1, <3>4 DEF S
  <2>6. Split = [Ended EXCEPT ![i] = NUL] /\ Param = StringAt(Split, i + 1)
    BY <2>5 DEF Split, Param
  <2>7. Split[n] = NUL /\ \A j \in i + 1 .. n - 1 : Split[j] = ps_buffer[j]
    BY <2>1, <2>3, <2>4, <2>6, Sizes
  <2> DEFINE E == {j \in i + 1 .. LINE : Split[j] = NUL} \cup {LINE + 1}
  <2>8. Least(E) = n
    <3>1. n \in E /\ E \subseteq Nat
      BY <2>1, <2>7, Sizes
    <3>2. \A x \in E : n <= x
      <4> SUFFICES ASSUME NEW x \in E, x < n PROVE FALSE
        BY <2>1, <3>1
      <4>1. x \in i + 1 .. n - 1 /\ x \in 0 .. n - 1 /\ Split[x] = NUL
        BY <2>1, Sizes
      <4> QED BY <2>1, <2>7, <4>1
    <3> HIDE DEF E
    <3>3. Least(E) \in E /\ \A x \in E : Least(E) <= x
      BY <3>1, LeastIs
    <3>4. PICK m \in E : m = Least(E)
      BY <3>3
    <3>5. m \in Nat /\ n <= m /\ m <= n /\ n \in Nat
      BY <2>1, <3>1, <3>2, <3>3, <3>4
    <3> QED BY <3>4, <3>5
  <2>9. Param = [k \in 1 .. n - (i + 1) |-> Split[i + 1 + k - 1]]
    <3>1. Param = [k \in 1 .. Least(E) - (i + 1) |-> Split[i + 1 + k - 1]]
      BY <2>6 DEF StringAt
    <3> HIDE DEF E
    <3> QED BY <2>8, <3>1
  <2>10. n - (i + 1) = n - i - 1
    BY <2>1
  <2>11. ASSUME NEW k \in 1 .. n - i - 1 PROVE Split[i + 1 + k - 1] = ps_buffer[i + k]
    <3>1. i + 1 + k - 1 = i + k /\ i + k \in i + 1 .. n - 1
      BY <2>1
    <3> QED BY <2>7, <3>1
  <2> QED BY <2>2, <2>9, <2>10, <2>11
<1>2. Inv /\ [Next]_vars => [A]_vars
  <2> HIDE DEF A
  <2> QED BY <1>1
<1>3. Spec => [][A]_vars
  <2> HIDE DEF A
  <2> QED BY <1>2, EditorInvariant, PTL DEF Spec
<1> QED BY <1>3, PTL DEF ArgumentTyped
================================================================================
