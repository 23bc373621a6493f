------------------------------ MODULE TimeText ------------------------------
(***************************************************************************)
(* Instants as the Board's SQLite store keeps them: text, compared by      *)
(* SQLite byte by byte.                                                    *)
(*                                                                         *)
(* nowText() formats with time.RFC3339Nano, which trims the trailing zeros *)
(* of the fraction and drops the dot of a whole second; the observation    *)
(* store formats with a fixed nine-digit fraction instead.  An instant is  *)
(* a number of ticks, Base^Digits of them to a second (10^9 in the code).  *)
(* The part of the text before the fraction has a fixed width, so it       *)
(* orders as the number of the second does; only the fraction and the      *)
(* closing Z are spelled out, as the order of their bytes: '.' < '0'..'9'  *)
(* < 'Z'.                                                                  *)
(***************************************************************************)
EXTENDS Naturals, Sequences

CONSTANTS Base,    \* digits of one place of the fraction (10)
          Digits   \* places of the fraction (9: nanoseconds)

ASSUME TimeTextAssumption ==
  /\ Base \in Nat /\ Base > 1
  /\ Digits \in Nat /\ Digits > 0

\* The ticks in a unit of the n-th place, counted from the right.
Weight[n \in 0..Digits] == IF n = 0 THEN 1 ELSE Base * Weight[n - 1]

TicksPerSecond == Weight[Digits]

Second(t) == t \div TicksPerSecond

\* The i-th digit of the fraction, the first being the most significant.
Digit(t, i) == (t \div Weight[Digits - i]) % Base

\* The bytes of the text, by their order.
Dot == 0
DigitByte(d) == d + 1
ZByte == Base + 1

\* Digits that remain when the trailing zeros of the fraction are trimmed.
Kept(t) ==
  CHOOSE k \in 0..Digits :
    /\ k > 0 => Digit(t, k) # 0
    /\ \A i \in (k + 1)..Digits : Digit(t, i) = 0

Fraction(t, places) ==
  IF places = 0 THEN << ZByte >>
  ELSE << Dot >> \o [i \in 1..places |-> DigitByte(Digit(t, i))] \o << ZByte >>

\* What nowText() and Format(time.RFC3339Nano) write after the seconds.
NanoText(t) == Fraction(t, Kept(t))

\* What formatObservationTime writes after the seconds.
FixedText(t) == Fraction(t, Digits)

\* SQLite's BINARY collation: the first differing byte decides, and a proper
\* prefix comes first.
BytesLess(s, u) ==
  \/ \E i \in 1..Len(s) :
       /\ i <= Len(u)
       /\ s[i] < u[i]
       /\ \A j \in 1..(i - 1) : s[j] = u[j]
  \/ /\ Len(s) < Len(u)
     /\ \A j \in 1..Len(s) : s[j] = u[j]

\* t is stored as a smaller text than u.
NanoLess(t, u) ==
  \/ Second(t) < Second(u)
  \/ Second(t) = Second(u) /\ BytesLess(NanoText(t), NanoText(u))

FixedLess(t, u) ==
  \/ Second(t) < Second(u)
  \/ Second(t) = Second(u) /\ BytesLess(FixedText(t), FixedText(u))
=============================================================================
