------------------------------- MODULE Loops -------------------------------
(***************************************************************************)
(* Lemmas about natural numbers and about loops over a list, for the       *)
(* proofs of the other modules.  Induction is stated for sets of numbers,  *)
(* and what a loop computes is a function of the number of rounds.         *)
(***************************************************************************)
EXTENDS Naturals, Sequences, WellFoundedInduction, TLAPS

\* A set of naturals that is not empty has a least element.
LEMMA LeastExists ==
    ASSUME NEW S \in SUBSET Nat, S # {}
    PROVE  \E n \in S : \A k \in S : n <= k
<1>1. PICK n \in S : \A k \in S : ~(<<k, n>> \in OpToRel(<, Nat))
  BY WFMin, NatLessThanWellFounded, Zenon
<1>2. \A k \in S : ~(k < n)
  BY <1>1, Zenon DEF OpToRel
<1>3. \A k \in S : n <= k
  <2>. TAKE k \in S
  <2>1. n \in Nat /\ k \in Nat
    OBVIOUS
  <2>. QED
    BY <1>2, <2>1
<1>. QED
  BY <1>3

\* A set that has 0 and with each number below len the next one has all the
\* numbers up to len.
LEMMA RoundsInduction ==
    ASSUME NEW len \in Nat, NEW S, 0 \in S,
           \A n \in 0..(len - 1) : n \in S => n + 1 \in S
    PROVE  0..len \subseteq S
<1>. DEFINE B == {n \in 0..len : n \notin S}
<1>1. SUFFICES ASSUME B # {} PROVE FALSE
  OBVIOUS
<1>2. \E n \in B : \A k \in B : n <= k
  <2>1. B \in SUBSET Nat
    OBVIOUS
  <2>. HIDE DEF B
  <2>. QED
    BY <1>1, <2>1, LeastExists
<1>3. PICK n \in B : \A k \in B : n <= k
  BY <1>2
<1>4. n \in 1..len /\ n - 1 \in 0..(len - 1)
  BY <1>3
<1>5. n - 1 \in S
  BY <1>3, <1>4
<1>6. (n - 1) + 1 \in S
  BY <1>4, <1>5
<1>. QED
  BY <1>3, <1>4, <1>6

\* A loop over list: the state is in T, it starts as base, and an element of U
\* takes it one step further.
IsLoop(T, U, step, base, list) ==
    step \in [T \X U -> T] /\ base \in T /\ list \in Seq(U)

\* What the loop runs through, by the number of rounds.
HasRun(T, step, base, list) ==
    \E f \in [0..Len(list) -> T] :
        /\ f[0] = base
        /\ \A n \in 1..Len(list) : f[n] = step[<<f[n - 1], list[n]>>]

\* The function that the recursive definition of such a loop means exists.
LEMMA LoopDefined ==
    ASSUME NEW T, NEW U, NEW step, NEW base, NEW list,
           IsLoop(T, U, step, base, list)
    PROVE  HasRun(T, step, base, list)
<1>. step \in [T \X U -> T] /\ base \in T /\ list \in Seq(U)
  BY DEF IsLoop
<1>. DEFINE Runs(f, len) ==
              /\ f \in [0..len -> T] /\ f[0] = base
              /\ \A n \in 1..len : f[n] = step[<<f[n - 1], list[n]>>]
            S == {len \in 0..Len(list) : \E f : Runs(f, len)}
<1>1. Len(list) \in Nat /\ \A n \in 1..Len(list) : list[n] \in U
  OBVIOUS
<1>2. 0 \in S
  <2>. DEFINE g == [n \in 0..0 |-> base]
  <2>1. g \in [0..0 -> T] /\ g[0] = base /\ 1..0 = {}
    OBVIOUS
  <2>. HIDE DEF g
  <2>2. Runs(g, 0)
    BY <2>1
  <2>. HIDE DEF Runs
  <2>. QED
    BY <1>1, <2>2
<1>3. ASSUME NEW len \in 0..(Len(list) - 1), len \in S
      PROVE  len + 1 \in S
  <2>1. PICK f : Runs(f, len)
    BY <1>3
  <2>. DEFINE x == step[<<f[len], list[len + 1]>>]
              g == [n \in 0..(len + 1) |-> IF n = len + 1 THEN x ELSE f[n]]
  <2>2. len \in Nat /\ len + 1 \in 1..Len(list) /\ len \in 0..len
    BY <1>1
  <2>3. f[len] \in T /\ list[len + 1] \in U
    BY <1>1, <2>1, <2>2
  <2>4. x \in T
    BY <2>3
  <2>. HIDE DEF x
  <2>5. g \in [0..(len + 1) -> T] /\ g[0] = base
    BY <2>1, <2>2, <2>4
  <2>6. ASSUME NEW n \in 1..(len + 1)
        PROVE  g[n] = step[<<g[n - 1], list[n]>>]
    <3>1. n - 1 \in 0..len /\ g[n - 1] = f[n - 1]
      BY <2>2
    <3>2. CASE n = len + 1
      <4>1. g[n] = x /\ n - 1 = len
        BY <2>2, <3>2
      <4>. QED
        BY <3>1, <3>2, <4>1 DEF x
    <3>3. CASE n # len + 1
      <4>1. n \in 1..len /\ g[n] = f[n]
        BY <2>2, <3>3
      <4>. QED
        BY <2>1, <3>1, <4>1
    <3>. QED
      BY <3>2, <3>3
  <2>7. Runs(g, len + 1)
    BY <2>5, <2>6
  <2>. HIDE DEF g, Runs
  <2>. QED
    BY <2>2, <2>7
<1>4. Len(list) \in S
  <2>. HIDE DEF S
  <2>1. 0..Len(list) \subseteq S
    BY <1>1, <1>2, <1>3, RoundsInduction
  <2>. QED
    BY <1>1, <2>1
<1>5. PICK f : Runs(f, Len(list))
  BY <1>4
<1>. QED
  BY <1>5 DEF HasRun

=============================================================================
