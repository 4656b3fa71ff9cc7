-------------------------- MODULE HexConversionProofs --------------------------
(***************************************************************************)
(* Theorems about HexConversion, for every text whose value an int holds.  *)
(*                                                                         *)
(* The shifts and the value of a text are recursive functions, so the      *)
(* first part shows by induction that they exist and obey their defining   *)
(* equations.  The induction is over sets: a subset of Nat that holds 0    *)
(* and with each number the next is Nat, for otherwise what it lacks has a *)
(* least element (WFMin).                                                  *)
(***************************************************************************)
EXTENDS HexConversion, WellFoundedInduction, TLAPS

\* The order of the natural numbers is well founded, as a set of pairs.
LEMMA NatWellFounded == IsWellFoundedOn({ss \in Nat \X Nat : ss[1] < ss[2]}, Nat)
BY NatLessThanWellFounded DEF OpToRel

\* A nonempty set of natural numbers has a least element.
LEMMA LeastNat ==
  ASSUME NEW T, T \subseteq Nat, T # {}
  PROVE  \E x \in T : \A y \in T : x <= y
<1> DEFINE R == {ss \in Nat \X Nat : ss[1] < ss[2]}
<1>1. IsWellFoundedOn(R, Nat)
  BY NatWellFounded
<1>2. \A x, y \in Nat : <<y, x>> \in R <=> y < x
  OBVIOUS
<1> HIDE DEF R
<1>3. \E x \in T : \A y \in T : ~(<<y, x>> \in R)
  BY <1>1, WFMin
<1>4. PICK x \in T : \A y \in T : ~(<<y, x>> \in R)
  BY <1>3
<1>5. ASSUME NEW y \in T
      PROVE  x <= y
  <2>1. ~(y < x)
    BY <1>2, <1>4
  <2> QED
    BY <2>1
<1> QED
  BY <1>5

\* Induction, with the numbers that have the property as a set.
LEMMA SetInduction ==
  ASSUME NEW S, 0 \in S, \A n \in Nat : n \in S => n + 1 \in S
  PROVE  Nat \subseteq S
<1> SUFFICES ASSUME Nat \ S # {} PROVE FALSE
  OBVIOUS
<1> DEFINE T == Nat \ S
<1>1. T \subseteq Nat /\ T # {}
  OBVIOUS
<1> HIDE DEF T
<1>2. \E x \in T : \A y \in T : x <= y
  BY <1>1, LeastNat
<1> USE DEF T
<1>3. PICK x \in Nat \ S : \A y \in Nat \ S : x <= y
  BY <1>2
<1>4. x # 0 /\ x - 1 \in Nat
  BY <1>3
<1>5. x - 1 \in S
  BY <1>3, <1>4
<1>6. (x - 1) + 1 \in S
  BY <1>4, <1>5
<1> QED
  BY <1>3, <1>6

\* Horner's scheme: f adds the digits d to c one after the other.
Horner(f, c, d, N) ==
  /\ f \in [0 .. N -> Nat]
  /\ f[0] = c /\ \A k \in 1 .. N : f[k] = 16 * f[k - 1] + d[k]

\* There is such a function for any number of digits.
LEMMA HornerExists ==
  ASSUME NEW c \in Nat, NEW N \in Nat, NEW d \in [1 .. N -> Nat]
  PROVE  \E f : Horner(f, c, d, N)
<1> DEFINE Steps(f, n) == f[0] = c /\ \A k \in 1 .. n : f[k] = 16 * f[k - 1] + d[k]
           P(n) == \E f \in [0 .. n -> Nat] : Steps(f, n)
           S == {n \in Nat : n <= N => P(n)}
<1>1. P(0)
  <2> DEFINE f == [k \in 0 .. 0 |-> c]
  <2>1. f \in [0 .. 0 -> Nat] /\ f[0] = c
    OBVIOUS
  <2>2. Steps(f, 0)
    BY <2>1
  <2> HIDE DEF f, Steps
  <2> QED
    BY <2>1, <2>2
<1>2. ASSUME NEW n \in Nat, n + 1 <= N, P(n)
      PROVE  P(n + 1)
  <2>1. PICK f \in [0 .. n -> Nat] : Steps(f, n)
    BY <1>2
  <2> DEFINE g == [k \in 0 .. n + 1 |-> IF k = n + 1 THEN 16 * f[n] + d[n + 1] ELSE f[k]]
  <2>2. f[n] \in Nat /\ d[n + 1] \in Nat
    BY <1>2
  <2>3. g \in [0 .. n + 1 -> Nat]
    BY <2>2
  <2>4. g[0] = c
    BY <2>1
  <2>5. ASSUME NEW k \in 1 .. n + 1
        PROVE  g[k] = 16 * g[k - 1] + d[k]
    <3>1. CASE k = n + 1
      BY <3>1
    <3>2. CASE k # n + 1
      BY <2>1, <3>2
    <3> QED
      BY <3>1, <3>2
  <2> HIDE DEF g
  <2>6. Steps(g, n + 1)
    BY <2>4, <2>5
  <2> HIDE DEF Steps
  <2> QED
    BY <2>3, <2>6
<1> HIDE DEF P
<1>3. Nat \subseteq S
  <2>1. 0 \in S
    BY <1>1
  <2>2. ASSUME NEW n \in Nat, n \in S
        PROVE  n + 1 \in S
    <3>1. n + 1 <= N => P(n + 1)
      BY <1>2, <2>2
    <3> QED
      BY <3>1
  <2> HIDE DEF S
  <2> QED
    BY <2>1, <2>2, SetInduction
<1>4. P(N)
  BY <1>3
<1> QED
  BY <1>4 DEF P, Horner

\* Induction for the values of a function: natural numbers throughout.
LEMMA NatAlong ==
  ASSUME NEW g, NEW N \in Nat, g[0] \in Nat,
         \A k \in 1 .. N : g[k - 1] \in Nat => g[k] \in Nat
  PROVE  \A k \in 0 .. N : g[k] \in Nat
<1> DEFINE S == {n \in Nat : n <= N => g[n] \in Nat}
<1>1. 0 \in S
  OBVIOUS
<1>2. ASSUME NEW n \in Nat, n \in S
      PROVE  n + 1 \in S
  <2> SUFFICES ASSUME n + 1 <= N PROVE g[n + 1] \in Nat
    OBVIOUS
  <2>1. g[n] \in Nat /\ n + 1 \in 1 .. N /\ (n + 1) - 1 = n
    BY <1>2
  <2> QED
    BY <2>1
<1>3. Nat \subseteq S
  <2> HIDE DEF S
  <2> QED
    BY <1>1, <1>2, SetInduction
<1> QED
  BY <1>3

-----------------------------------------------------------------------------
(* The two recursive functions of the module.                              *)

\* What Weight computes: the shifts by whole digits.
LEMMA WeightSteps ==
  /\ Weight \in [0 .. Count -> Nat]
  /\ Weight[0] = 1
  /\ \A k \in 1 .. Count : Weight[k] = 16 * Weight[k - 1]
<1> DEFINE F(f) == [k \in 0 .. Count |-> IF k = 0 THEN 1 ELSE 16 * f[k - 1]]
           d == [k \in 1 .. Count |-> 0]
<1>1. PICK f : Horner(f, 1, d, Count)
  <2> DEFINE c == 1
  <2>1. c \in Nat /\ Count \in Nat /\ d \in [1 .. Count -> Nat]
    BY CountAssumption
  <2> HIDE DEF c, d
  <2>2. \E f : Horner(f, c, d, Count)
    BY <2>1, HornerExists
  <2> QED
    BY <2>2 DEF c
<1>2. f = F(f)
  <2>1. ASSUME NEW k \in 0 .. Count
        PROVE  f[k] = IF k = 0 THEN 1 ELSE 16 * f[k - 1]
    BY <1>1, CountAssumption DEF Horner
  <2> QED
    BY <1>1, <2>1 DEF Horner
<1>3. Weight = CHOOSE w : w = F(w)
  BY DEF Weight
<1> HIDE DEF F
<1>4. Weight = F(Weight)
  BY <1>2, <1>3
<1> USE DEF F
<1> DEFINE w == Weight
<1> HIDE DEF w
<1>5. w = [k \in 0 .. Count |-> IF k = 0 THEN 1 ELSE 16 * w[k - 1]]
  BY <1>4 DEF w
<1>6. /\ w[0] = 1
      /\ \A k \in 1 .. Count : w[k] = 16 * w[k - 1]
      /\ w = [k \in 0 .. Count |-> w[k]]
  <2> DEFINE e == [k \in 0 .. Count |-> IF k = 0 THEN 1 ELSE 16 * w[k - 1]]
  <2>1. e[0] = 1
    BY CountAssumption
  <2>2. ASSUME NEW k \in 1 .. Count
        PROVE  e[k] = 16 * w[k - 1]
    <3>1. k \in 0 .. Count /\ k # 0
      BY CountAssumption
    <3> QED
      BY <3>1
  <2>3. e = [k \in 0 .. Count |-> e[k]]
    OBVIOUS
  <2>4. w = e
    BY <1>5
  <2> HIDE DEF e
  <2> QED
    BY <2>1, <2>2, <2>3, <2>4
<1>7. \A k \in 0 .. Count : w[k] \in Nat
  <2>1. w[0] \in Nat /\ Count \in Nat
    <3>1. w[0] = 1
      BY <1>6
    <3> QED
      BY <3>1, CountAssumption
  <2>2. ASSUME NEW k \in 1 .. Count, w[k - 1] \in Nat
        PROVE  w[k] \in Nat
    <3>1. w[k] = 16 * w[k - 1]
      BY <1>6
    <3> QED
      BY <2>2, <3>1
  <2> QED
    BY <2>1, <2>2, NatAlong
<1>8. w \in [0 .. Count -> Nat]
  BY <1>6, <1>7
<1> QED
  BY <1>6, <1>8 DEF w

\* What Values computes: the value of each prefix of a text.
LEMMA ValuesSteps ==
  ASSUME NEW text \in [1 .. Count -> Chars]
  PROVE  /\ Values(text) \in [0 .. Count -> Nat]
         /\ Values(text)[0] = 0
         /\ \A k \in 1 .. Count : Values(text)[k] = 16 * Values(text)[k - 1] + Digit(text[k])
<1> DEFINE d == [k \in 1 .. Count |-> Digit(text[k])]
           F(f) == [k \in 0 .. Count |-> IF k = 0 THEN 0 ELSE 16 * f[k - 1] + Digit(text[k])]
<1>0. \A k \in 1 .. Count : Digit(text[k]) \in Nat
  BY DEF Digit, Chars
<1>1. PICK f : Horner(f, 0, d, Count)
  <2> DEFINE c == 0
  <2>1. c \in Nat /\ Count \in Nat /\ d \in [1 .. Count -> Nat]
    BY <1>0, CountAssumption
  <2> HIDE DEF c, d
  <2>2. \E f : Horner(f, c, d, Count)
    BY <2>1, HornerExists
  <2> QED
    BY <2>2 DEF c
<1>2. f = F(f)
  <2>1. ASSUME NEW k \in 0 .. Count
        PROVE  f[k] = IF k = 0 THEN 0 ELSE 16 * f[k - 1] + Digit(text[k])
    BY <1>1, CountAssumption DEF Horner
  <2> QED
    BY <1>1, <2>1 DEF Horner
<1>3. Values(text) = CHOOSE v : v = F(v)
  BY DEF Values
<1> HIDE DEF F
<1>4. Values(text) = F(Values(text))
  BY <1>2, <1>3
<1> USE DEF F
<1> DEFINE v == Values(text)
<1> HIDE DEF v
<1>5. v = [k \in 0 .. Count |-> IF k = 0 THEN 0 ELSE 16 * v[k - 1] + Digit(text[k])]
  BY <1>4 DEF v
<1>6. /\ v[0] = 0
      /\ \A k \in 1 .. Count : v[k] = 16 * v[k - 1] + Digit(text[k])
      /\ v = [k \in 0 .. Count |-> v[k]]
  <2> DEFINE e == [k \in 0 .. Count |-> IF k = 0 THEN 0 ELSE 16 * v[k - 1] + Digit(text[k])]
  <2>1. e[0] = 0
    BY CountAssumption
  <2>2. ASSUME NEW k \in 1 .. Count
        PROVE  e[k] = 16 * v[k - 1] + Digit(text[k])
    <3>1. k \in 0 .. Count /\ k # 0
      BY CountAssumption
    <3> QED
      BY <3>1
  <2>3. e = [k \in 0 .. Count |-> e[k]]
    OBVIOUS
  <2>4. v = e
    BY <1>5
  <2> HIDE DEF e
  <2> QED
    BY <2>1, <2>2, <2>3, <2>4
<1>7. \A k \in 0 .. Count : v[k] \in Nat
  <2>1. v[0] \in Nat /\ Count \in Nat
    <3>1. v[0] = 0
      BY <1>6
    <3> QED
      BY <3>1, CountAssumption
  <2>2. ASSUME NEW k \in 1 .. Count, v[k - 1] \in Nat
        PROVE  v[k] \in Nat
    <3>1. v[k] = 16 * v[k - 1] + Digit(text[k])
      BY <1>6
    <3> QED
      BY <1>0, <2>2, <3>1
  <2> QED
    BY <2>1, <2>2, NatAlong
<1>8. v \in [0 .. Count -> Nat]
  BY <1>6, <1>7
<1> QED
  BY <1>6, <1>8 DEF v

-----------------------------------------------------------------------------
(* The conversion.  The code subtracts the first character of the range,   *)
(* so it reads each letter as a digit 0 to 5.                              *)

Folded(text) == [k \in 1 .. Count |-> <<"0..9", text[k][2]>>]

\* What the first k characters are read as.
Read(text, k) == Values(Folded(text))[k]

(***************************************************************************)
(* After i characters out is what they are read as, a number of i digits,  *)
(* shifted to its place.                                                   *)
(***************************************************************************)
Converted == out = Read(in, i) * Weight[Count - i] /\ Read(in, i) < Weight[i]

Inv ==
  /\ in \in [1 .. Count -> Chars]
  /\ i \in 0 .. Count
  /\ ret \in {"looping", "0", "-1"}
  /\ ret = "0" => i = Count
  /\ ret = "-1" => \E k \in 1 .. Count : in[k][1] = "other"
  /\ ret # "-1" => Converted /\ \A k \in 1 .. i : in[k][1] # "other"

\* How Read goes on from one character to the next.
LEMMA ReadSteps ==
  ASSUME NEW text \in [1 .. Count -> Chars]
  PROVE  /\ \A k \in 0 .. Count : Read(text, k) \in Nat
         /\ Read(text, 0) = 0
         /\ \A k \in 1 .. Count : /\ text[k][2] \in 0 .. 9
                                  /\ Read(text, k) = 16 * Read(text, k - 1) + text[k][2]
<1>1. \A k \in 1 .. Count : text[k][2] \in 0 .. 9
  BY DEF Chars
<1>2. Folded(text) \in [1 .. Count -> Chars]
  BY <1>1 DEF Folded, Chars
<1>3. \A k \in 1 .. Count : Digit(Folded(text)[k]) = text[k][2]
  BY DEF Folded, Digit
<1> DEFINE t == Folded(text)
<1> HIDE DEF t
<1>4. /\ Values(t) \in [0 .. Count -> Nat] /\ Values(t)[0] = 0
      /\ \A k \in 1 .. Count : Values(t)[k] = 16 * Values(t)[k - 1] + Digit(t[k])
  BY <1>2, ValuesSteps DEF t
<1>5. \A k \in 0 .. Count : Read(text, k) = Values(t)[k]
  BY DEF Read, t
<1>6. ASSUME NEW k \in 1 .. Count
      PROVE  Read(text, k) = 16 * Read(text, k - 1) + text[k][2]
  <2>1. k \in 0 .. Count /\ k - 1 \in 0 .. Count
    BY CountAssumption
  <2> QED
    BY <1>3, <1>4, <1>5, <2>1 DEF t
<1> QED
  BY <1>1, <1>4, <1>5, <1>6, CountAssumption

\* Every text, before its first character.
LEMMA InvInit == Init => Inv
<1> SUFFICES ASSUME Init PROVE Inv
  OBVIOUS
<1>1. in \in [1 .. Count -> Chars] /\ i = 0 /\ out = 0 /\ ret = "looping" /\ Count \in Nat
  BY CountAssumption DEF Init
<1>2. Weight[Count] \in Nat /\ Weight[0] = 1 /\ Read(in, 0) = 0
  BY <1>1, WeightSteps, ReadSteps
<1>3. Converted
  BY <1>1, <1>2 DEF Converted
<1> QED
  BY <1>1, <1>3 DEF Inv

\* A digit: the number so far moves up by one place.
LEMMA DigitStep ==
  ASSUME Inv, digit
  PROVE  Inv'
<1>1. /\ in \in [1 .. Count -> Chars] /\ i \in 0 .. Count - 1 /\ Count \in Nat
      /\ in' = in /\ i' = i + 1 /\ ret' = ret /\ ret = "looping"
      /\ out' = out + in[i + 1][2] * Weight[Count - 1 - i]
  BY CountAssumption DEF Inv, digit, Shifted
<1> DEFINE m == Read(in, i)
           c == in[i + 1][2]
           w == Weight[Count - 1 - i]
<1>2. i + 1 \in 1 .. Count /\ (i + 1) - 1 = i /\ i \in 0 .. Count
  BY <1>1
<1>3. m \in Nat /\ c \in 0 .. 9 /\ Read(in, i + 1) = 16 * m + c
  BY <1>1, <1>2, ReadSteps
<1>4. out = m * Weight[Count - i] /\ m < Weight[i]
  BY <1>1 DEF Inv, Converted
<1>5. /\ w \in Nat /\ Weight[Count - i] = 16 * w
      /\ Weight[i] \in Nat /\ Weight[i + 1] = 16 * Weight[i]
  <2>1. /\ Count - i \in 1 .. Count /\ (Count - i) - 1 = Count - 1 - i
        /\ Count - 1 - i \in 0 .. Count
    BY <1>1
  <2> QED
    BY <1>2, <2>1, WeightSteps
<1> HIDE DEF m, c, w
<1>6. out' = m * (16 * w) + c * w
  BY <1>1, <1>4, <1>5 DEF c, w
<1>7. out' = (16 * m + c) * w
  BY <1>3, <1>5, <1>6
<1>8. 16 * m + c < Weight[i + 1]
  BY <1>3, <1>4, <1>5
<1>9. Converted'
  <2>1. Count - i' = Count - 1 - i
    BY <1>1
  <2> QED
    BY <1>1, <1>3, <1>7, <1>8, <2>1 DEF Converted, w
<1>10. \A k \in 1 .. i' : in'[k][1] # "other"
  <2>1. \A k \in 1 .. i : in[k][1] # "other"
    BY <1>1 DEF Inv
  <2>2. in[i + 1][1] # "other"
    BY DEF digit
  <2> QED
    BY <1>1, <2>1, <2>2
<1> QED
  BY <1>1, <1>2, <1>9, <1>10 DEF Inv

\* Every step keeps the invariant.
LEMMA InvStep == Inv /\ [Next]_vars => Inv'
<1>1. ASSUME Inv, digit
      PROVE  Inv'
  BY <1>1, DigitStep
<1>2. ASSUME Inv, not_a_digit
      PROVE  Inv'
  <2>1. i + 1 \in 1 .. Count
    BY <1>2, CountAssumption DEF Inv, not_a_digit
  <2> QED
    BY <1>2, <2>1 DEF Inv, not_a_digit
<1>3. ASSUME UNCHANGED <<in, i, out>>
      PROVE  Converted <=> Converted'
  BY <1>3 DEF Converted
<1>4. ASSUME Inv, converted
      PROVE  Inv'
  BY <1>3, <1>4 DEF Inv, converted
<1>5. ASSUME Inv, UNCHANGED vars
      PROVE  Inv'
  BY <1>3, <1>5 DEF Inv, vars
<1> QED
  BY <1>1, <1>2, <1>4, <1>5 DEF Next

\* What holds before each character of every text.
THEOREM InvCorrect == Spec => []Inv
BY InvInit, InvStep, PTL DEF Spec

\* The result of an accepted text.
ReadsOffsets == ret = "0" => out = Read(in, Count) /\ Read(in, Count) < Weight[Count]

(***************************************************************************)
(* The result is, for every text that convert_char_to_hex_reg accepts, the *)
(* value of the text with each of the letters a to f replaced by the digit *)
(* 0 to 5 at the same place of its range: all that is wrong with the       *)
(* conversion is the missing 10.                                           *)
(***************************************************************************)
THEOREM ResultCorrect == Spec => []ReadsOffsets
<1>1. Inv => ReadsOffsets
  <2> SUFFICES ASSUME Inv, ret = "0"
               PROVE  out = Read(in, Count) /\ Read(in, Count) < Weight[Count]
    BY DEF ReadsOffsets
  <2>1. out = Read(in, Count) * Weight[0] /\ Read(in, Count) < Weight[Count]
    BY CountAssumption DEF Inv, Converted
  <2>2. Weight[0] = 1 /\ Read(in, Count) \in Nat
    BY WeightSteps, ReadSteps, CountAssumption DEF Inv
  <2> QED
    BY <2>1, <2>2
<1> QED
  BY <1>1, InvCorrect, PTL

(***************************************************************************)
(* convert_char_to_hex_reg accepts the hexadecimal texts and no other; its *)
(* result fits the register and is right for decimal texts, of any length  *)
(* that an int can hold.                                                   *)
(***************************************************************************)
THEOREM ConversionCorrect == Spec => []AcceptsAndConverts
<1>1. Inv /\ ReadsOffsets => AcceptsAndConverts
  <2> SUFFICES ASSUME Inv, ReadsOffsets, ret = "0"
               PROVE  /\ \A k \in 1 .. Count : in[k][1] # "other"
                      /\ out \in 0 .. Weight[Count] - 1
                      /\ Decimal => out = HexValue
    BY DEF Inv, AcceptsAndConverts
  <2>1. out = Read(in, Count) /\ Read(in, Count) < Weight[Count]
    BY DEF ReadsOffsets
  <2>2. Weight[Count] \in Nat /\ Read(in, Count) \in Nat
    BY WeightSteps, ReadSteps, CountAssumption DEF Inv
  <2>3. ASSUME Decimal
        PROVE  Folded(in) = in
    BY <2>3 DEF Inv, Folded, Decimal, Chars
  <2>4. \A k \in 1 .. Count : in[k][1] # "other"
    BY DEF Inv
  <2> QED
    BY <2>1, <2>2, <2>3, <2>4 DEF HexValue, Read
<1> QED
  BY <1>1, InvCorrect, ResultCorrect, PTL
=============================================================================
