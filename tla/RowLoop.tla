-------------------------------- MODULE RowLoop --------------------------------
(*****************************************************************************)
(* A loop over the rows of a file, and what it keeps: if the start satisfies *)
(* a relation and every row keeps it, the end satisfies it. The relation may *)
(* speak of the start, the rows and how many of them have been read. An      *)
(* instance with one row's operator gives the fact for one importer's loop.  *)
(*****************************************************************************)
EXTENDS Integers, Sequences, WellFoundedInduction, TLAPS

CONSTANTS Row(_, _), Kept(_, _, _, _)

Through(tx, rows) ==
  LET after[n \in 0..Len(rows)] == IF n = 0 THEN tx ELSE Row(after[n - 1], rows[n])
  IN after[Len(rows)]

(* What the loop has made of tx after each of the first n rows.              *)
IsLoop(tx, rows, after, last) ==
  after = [n \in 0..last |-> IF n = 0 THEN tx ELSE Row(after[n - 1], rows[n])]

LEMMA OneRowMore ==
  ASSUME NEW tx, NEW rows, NEW last \in Nat, NEW after, IsLoop(tx, rows, after, last)
  PROVE  \E longer : IsLoop(tx, rows, longer, last + 1)
<1> DEFINE longer == [n \in 0..last + 1 |-> IF n \in 0..last THEN after[n]
                                            ELSE Row(after[n - 1], rows[n])]
<1>1. \A n \in 0..last : after[n] = IF n = 0 THEN tx ELSE Row(after[n - 1], rows[n])
  BY DEF IsLoop
<1>2. \A n \in 0..last + 1 : longer[n] = IF n = 0 THEN tx ELSE Row(longer[n - 1], rows[n])
  <2> SUFFICES ASSUME NEW n \in 0..last + 1
               PROVE  longer[n] = IF n = 0 THEN tx ELSE Row(longer[n - 1], rows[n])
    OBVIOUS
  <2>1. CASE n = 0
    BY <1>1, <2>1
  <2>2. CASE n # 0
    <3>1. n - 1 \in 0..last /\ longer[n - 1] = after[n - 1]
      BY <2>2
    <3>2. longer[n] = Row(after[n - 1], rows[n])
      BY <1>1, <2>2
    <3> QED BY <2>2, <3>1, <3>2
  <2> QED BY <2>1, <2>2
<1>3. longer = [n \in 0..last + 1 |-> longer[n]]
  OBVIOUS
<1> HIDE DEF longer
<1>4. IsLoop(tx, rows, longer, last + 1)
  BY <1>2, <1>3 DEF IsLoop
<1> QED BY <1>4

(* A set of numbers has a least one.                                         *)
LEMMA LeastNat ==
  ASSUME NEW S, S \subseteq Nat, S # {}
  PROVE  \E n \in S : \A m \in S : n <= m
<1> DEFINE R == {p \in Nat \X Nat : p[1] < p[2]}
<1>1. IsWellFoundedOn(R, Nat)
  BY NatLessThanWellFounded DEF OpToRel
<1>2. \A x, y \in Nat : x < y => <<x, y>> \in R
  OBVIOUS
<1> HIDE DEF R
<1>3. PICK n \in S : \A m \in S : <<m, n>> \notin R
  BY <1>1, WFMin
<1>4. \A m \in S : n \in Nat /\ m \in Nat /\ ~(m < n)
  BY <1>2, <1>3
<1> QED BY <1>4

LEMMA LoopEnds ==
  ASSUME NEW tx, NEW rows, NEW last \in Nat
  PROVE  \E after : IsLoop(tx, rows, after, last)
<1> DEFINE Stuck == {n \in Nat : ~\E after : IsLoop(tx, rows, after, n)}
<1>1. SUFFICES ASSUME Stuck # {} PROVE FALSE
  OBVIOUS
<1>2. PICK n \in Stuck : \A m \in Stuck : n <= m
  BY <1>1, LeastNat
<1>3. n # 0
  <2>1. IsLoop(tx, rows, [k \in 0..0 |-> tx], 0)
    BY DEF IsLoop
  <2> QED BY <2>1
<1>4. \E after : IsLoop(tx, rows, after, n - 1)
  BY <1>2, <1>3
<1> QED BY <1>2, <1>3, <1>4, OneRowMore

(* Where the loop is after each row.                                         *)
LEMMA LoopStates ==
  ASSUME NEW tx, NEW rows, Len(rows) \in Nat
  PROVE  \E after : /\ after[0] = tx /\ Through(tx, rows) = after[Len(rows)]
                    /\ \A n \in 1..Len(rows) : after[n] = Row(after[n - 1], rows[n])
<1> DEFINE loop == CHOOSE after : IsLoop(tx, rows, after, Len(rows))
<1>1. IsLoop(tx, rows, loop, Len(rows))
  BY LoopEnds
<1>2. Through(tx, rows) = loop[Len(rows)]
  BY DEF Through, IsLoop
<1> HIDE DEF loop
<1>3. /\ loop[0] = tx
      /\ \A n \in 1..Len(rows) : loop[n] = Row(loop[n - 1], rows[n])
  BY <1>1 DEF IsLoop
<1> QED BY <1>2, <1>3

(* The relation, from the start through every row to the end.                *)
THEOREM LoopKeeps ==
  ASSUME NEW tx, NEW rows, Len(rows) \in Nat, Kept(tx, rows, 0, tx),
         \A n \in 1..Len(rows) : \A t : Kept(tx, rows, n - 1, t)
                                   => Kept(tx, rows, n, Row(t, rows[n]))
  PROVE  Kept(tx, rows, Len(rows), Through(tx, rows))
<1>1. PICK after : /\ after[0] = tx /\ Through(tx, rows) = after[Len(rows)]
                   /\ \A n \in 1..Len(rows) : after[n] = Row(after[n - 1], rows[n])
  <2>1. Len(rows) \in Nat
    OBVIOUS
  <2>2. \E after : /\ after[0] = tx /\ Through(tx, rows) = after[Len(rows)]
                   /\ \A n \in 1..Len(rows) : after[n] = Row(after[n - 1], rows[n])
    BY ONLY <2>1, LoopStates
  <2> QED BY <2>2
<1> DEFINE Lost == {n \in 0..Len(rows) : ~Kept(tx, rows, n, after[n])}
<1>2. Lost = {}
  <2>1. SUFFICES ASSUME Lost # {} PROVE FALSE
    OBVIOUS
  <2> HIDE DEF Lost
  <2>2. Lost \subseteq Nat
    BY DEF Lost
  <2>3. PICK n \in Lost : \A m \in Lost : n <= m
    BY <2>1, <2>2, LeastNat
  <2>4. n \in 1..Len(rows)
    BY <1>1, <2>3 DEF Lost
  <2>5. n - 1 \in 0..Len(rows) /\ n - 1 \notin Lost
    BY <2>3, <2>4, <2>2
  <2>6. Kept(tx, rows, n - 1, after[n - 1])
    BY <2>5 DEF Lost
  <2> QED BY <1>1, <2>3, <2>4, <2>6 DEF Lost
<1> QED BY <1>1, <1>2
================================================================================
