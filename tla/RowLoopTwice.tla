------------------------------ MODULE RowLoopTwice ------------------------------
(*****************************************************************************)
(* A loop over the rows of a file, run once more. Both runs are followed row *)
(* by row, together: s is what the first run has made so far, t the second,  *)
(* and F what the first one ended in. Good is what every state of a run is,  *)
(* Grown(s, v) what a run only adds to (keys stay, sets grow), Beside(F, s,  *)
(* t) that t has of each cell what s or F has of it.                         *)
(*****************************************************************************)
EXTENDS RowLoop

CONSTANTS Good(_), Grown(_, _), Beside(_, _, _)

(* What a row does to the first run, for rows 1 to n.                        *)
Grows(rows) ==
  /\ \A i \in 1..Len(rows) : \A u : Good(u) => Good(Row(u, rows[i])) /\ Grown(u, Row(u, rows[i]))
  /\ \A u : Good(u) => Grown(u, u)
  /\ \A u, v, w : Grown(u, v) /\ Grown(v, w) => Grown(u, w)

THEOREM LoopGrows ==
  ASSUME NEW s, NEW rows, Len(rows) \in Nat, Good(s), Grows(rows)
  PROVE  Good(Through(s, rows)) /\ Grown(s, Through(s, rows))
<1>1. PICK after : /\ after[0] = s /\ Through(s, rows) = after[Len(rows)]
                   /\ \A n \in 1..Len(rows) : after[n] = Row(after[n - 1], rows[n])
  BY LoopStates
<1> DEFINE Lost == {n \in 0..Len(rows) : ~(Good(after[n]) /\ Grown(s, after[n]))}
<1>2. Lost = {}
  <2>1. SUFFICES ASSUME Lost # {} PROVE FALSE
    OBVIOUS
  <2> HIDE DEF Lost
  <2>2. Lost \subseteq Nat
    BY DEF Lost
  <2>3. PICK n \in Lost : \A m \in Lost : n <= m
    BY <2>1, <2>2, LeastNat
  <2>4. n \in 1..Len(rows)
    BY <1>1, <2>3 DEF Lost, Grows
  <2>5. n - 1 \in 0..Len(rows) /\ n - 1 \notin Lost
    BY <2>2, <2>3, <2>4
  <2>6. Good(after[n - 1]) /\ Grown(s, after[n - 1])
    BY <2>5 DEF Lost
  <2>7. Good(after[n]) /\ Grown(after[n - 1], after[n])
    BY <1>1, <2>4, <2>6 DEF Grows
  <2> QED BY <2>3, <2>6, <2>7 DEF Lost, Grows
<1> QED BY <1>1, <1>2

(* The second run stays beside the first.                                    *)
THEOREM LoopTwice ==
  ASSUME NEW s, NEW t, NEW rows, Len(rows) \in Nat, NEW F,
         Good(s), Grows(rows), Grown(Through(s, rows), F), Beside(F, s, t),
         \A i \in 1..Len(rows) : \A u, v :
           Good(u) /\ Grown(Row(u, rows[i]), F) /\ Beside(F, u, v)
             => Beside(F, Row(u, rows[i]), Row(v, rows[i]))
  PROVE  Beside(F, Through(s, rows), Through(t, rows))
<1>1. PICK after : /\ after[0] = s /\ Through(s, rows) = after[Len(rows)]
                   /\ \A n \in 1..Len(rows) : after[n] = Row(after[n - 1], rows[n])
  BY LoopStates
<1>2. PICK again : /\ again[0] = t /\ Through(t, rows) = again[Len(rows)]
                   /\ \A n \in 1..Len(rows) : again[n] = Row(again[n - 1], rows[n])
  BY LoopStates
<1>3. \A n \in 0..Len(rows) : Good(after[n])
  <2> DEFINE Lost == {n \in 0..Len(rows) : ~Good(after[n])}
  <2>1. SUFFICES ASSUME Lost # {} PROVE FALSE
    OBVIOUS
  <2> HIDE DEF Lost
  <2>2. Lost \subseteq Nat
    BY DEF Lost
  <2>3. PICK n \in Lost : \A m \in Lost : n <= m
    BY <2>1, <2>2, LeastNat
  <2>4. n \in 1..Len(rows)
    BY <1>1, <2>3 DEF Lost
  <2>5. n - 1 \in 0..Len(rows) /\ n - 1 \notin Lost
    BY <2>2, <2>3, <2>4
  <2> QED BY <1>1, <2>3, <2>4, <2>5 DEF Lost, Grows
<1>4. \A n \in 0..Len(rows) : Grown(after[n], F)
  <2> DEFINE Lost == {k \in 0..Len(rows) : ~Grown(after[Len(rows) - k], F)}
  <2>1. Lost = {}
    <3>1. SUFFICES ASSUME Lost # {} PROVE FALSE
      OBVIOUS
    <3> HIDE DEF Lost
    <3>2. Lost \subseteq Nat
      BY DEF Lost
    <3>3. PICK k \in Lost : \A m \in Lost : k <= m
      BY <3>1, <3>2, LeastNat
    <3>4. k \in 1..Len(rows)
      BY <1>1, <3>3 DEF Lost
    <3>5. k - 1 \in 0..Len(rows) /\ k - 1 \notin Lost
      BY <3>2, <3>3, <3>4
    <3> DEFINE n == Len(rows) - k + 1
    <3>6. n \in 1..Len(rows) /\ n = Len(rows) - (k - 1) /\ n - 1 = Len(rows) - k
          /\ n - 1 \in 0..Len(rows)
      BY <3>4
    <3> HIDE DEF n
    <3>7. Grown(after[n], F)
      BY <3>5, <3>6 DEF Lost
    <3>8. Grown(after[n - 1], after[n])
      BY <1>1, <1>3, <3>6 DEF Grows
    <3>9. Grown(after[n - 1], F)
      BY <3>7, <3>8 DEF Grows
    <3> QED BY <3>3, <3>6, <3>9 DEF Lost
  <2>2. \A n \in 0..Len(rows) : Len(rows) - n \in 0..Len(rows) /\ Len(rows) - (Len(rows) - n) = n
    OBVIOUS
  <2> QED BY <2>1, <2>2
<1> DEFINE Lost == {n \in 0..Len(rows) : ~Beside(F, after[n], again[n])}
<1>5. Lost = {}
  <2>1. SUFFICES ASSUME Lost # {} PROVE FALSE
    OBVIOUS
  <2> HIDE DEF Lost
  <2>2. Lost \subseteq Nat
    BY DEF Lost
  <2>3. PICK n \in Lost : \A m \in Lost : n <= m
    BY <2>1, <2>2, LeastNat
  <2>4. n \in 1..Len(rows)
    BY <1>1, <1>2, <2>3 DEF Lost
  <2>5. n - 1 \in 0..Len(rows) /\ n - 1 \notin Lost
    BY <2>2, <2>3, <2>4
  <2>6. Good(after[n - 1]) /\ Grown(Row(after[n - 1], rows[n]), F)
        /\ Beside(F, after[n - 1], again[n - 1])
    <3>1. n \in 0..Len(rows)
      BY <2>4
    <3> QED BY <1>1, <1>3, <1>4, <2>4, <2>5, <3>1 DEF Lost
  <2>7. Beside(F, after[n], again[n])
    BY <1>1, <1>2, <2>4, <2>6
  <2> QED BY <2>3, <2>7 DEF Lost
<1> QED BY <1>1, <1>2, <1>5
================================================================================
