---------------------------- MODULE LoopTheorems ----------------------------
(***************************************************************************)
(* Facts about bounded loops, for the proofs of the other modules.  The    *)
(* state of a loop over the numbers up to n is a function of how far it    *)
(* has come.  Predicates and steps are given as sets and functions, so     *)
(* that the facts can be cited for any loop.                               *)
(***************************************************************************)
EXTENDS Integers, FiniteSetTheorems, WellFoundedInduction, TLAPS

\* A non-empty set of positions has a least element.
LEMMA LeastPosition ==
  ASSUME NEW n \in Int, NEW S, S \subseteq 0 .. n, S # {}
  PROVE  \E k \in S : \A j \in S : k <= j
<1>. DEFINE Upto(k) == S \cap (0 .. k)
            T == {Upto(k) : k \in S}
<1>1. IsFiniteSet(0 .. n)
  BY FS_Interval
<1>2. T \subseteq FiniteSubsetsOf(0 .. n) /\ T # {}
  <2>1. T \subseteq SUBSET (0 .. n) /\ T # {}
    OBVIOUS
  <2>. QED BY <1>1, <2>1, FS_FiniteSubsetsOfFinite
<1>3. PICK x \in T : \A y \in T : ~ (<<y, x>> \in StrictSubsetOrdering(0 .. n))
  <2>1. IsWellFoundedOn(StrictSubsetOrdering(0 .. n), FiniteSubsetsOf(0 .. n))
    BY FS_StrictSubsetOrderingWellFounded
  <2>. HIDE DEF T
  <2>. QED BY <1>2, <2>1, WFMin
<1>4. PICK k \in S : x = Upto(k)
  BY <1>3
<1>5. \A j \in S : k <= j
  <2>. SUFFICES ASSUME NEW j \in S, j < k PROVE FALSE
    OBVIOUS
  <2>1. Upto(j) \in T /\ Upto(j) \subseteq x /\ k \in x /\ k \notin Upto(j)
    BY <1>4
  <2>2. Upto(j) \in SUBSET (0 .. n) /\ x \in SUBSET (0 .. n)
    BY <1>4
  <2>3. <<Upto(j), x>> \in StrictSubsetOrdering(0 .. n)
    BY <2>1, <2>2 DEF StrictSubsetOrdering
  <2>. QED BY <1>3, <2>1, <2>3
<1>. QED BY <1>5

\* ... and a greatest one.
LEMMA GreatestPosition ==
  ASSUME NEW n \in Int, NEW S, S \subseteq 0 .. n, S # {}
  PROVE  \E k \in S : \A j \in S : j <= k
<1>. DEFINE T == {j \in 0 .. n : n - j \in S}
<1>1. T \subseteq 0 .. n /\ T # {}
  <2>1. PICK k \in S : TRUE
    OBVIOUS
  <2>2. n - k \in 0 .. n /\ n - (n - k) = k
    BY <2>1
  <2>. QED BY <2>2
<1>2. PICK m \in T : \A j \in T : m <= j
  <2>. HIDE DEF T
  <2>. QED BY <1>1, LeastPosition
<1>3. n - m \in S
  BY <1>2
<1>4. ASSUME NEW j \in S PROVE j <= n - m
  <2>1. j \in 0 .. n /\ n - j \in 0 .. n /\ n - (n - j) = j
    OBVIOUS
  <2>2. n - j \in T
    BY <2>1
  <2>3. m <= n - j /\ m \in Int
    BY <1>2, <2>2
  <2>. QED BY <2>1, <2>3
<1>. QED BY <1>3, <1>4

\* What holds before the loop and is kept by every pass holds throughout.
LEMMA LoopInduction ==
  ASSUME NEW n \in Nat, NEW P, 0 \in P, \A k \in 1 .. n : k - 1 \in P => k \in P
  PROVE  0 .. n \subseteq P
<1>. DEFINE S == (0 .. n) \ P
<1>. SUFFICES ASSUME S # {} PROVE FALSE
  OBVIOUS
<1>1. PICK k \in S : \A j \in S : k <= j
  <2>1. S \subseteq 0 .. n /\ n \in Int
    OBVIOUS
  <2>. HIDE DEF S
  <2>. QED BY <2>1, LeastPosition
<1>2. k \in 1 .. n /\ k - 1 \notin S /\ k - 1 \in 0 .. n
  BY <1>1
<1>. QED BY <1>1, <1>2

\* The states that a loop of n passes goes through, when pass k takes state s
\* to pass[<<k, s>>].
LoopRun(run, n, States, start, pass) ==
    /\ run \in [0 .. n -> States]
    /\ run[0] = start
    /\ \A k \in 1 .. n : run[k] = pass[<<k, run[k - 1]>>]

\* Every loop has a run.
LEMMA LoopRuns ==
  ASSUME NEW n \in Nat, NEW States, NEW start \in States,
         NEW pass \in [(1 .. n) \X States -> States]
  PROVE  \E run : LoopRun(run, n, States, start, pass)
<1>. DEFINE Run(run, m) == LoopRun(run, m, States, start, pass)
            P == {m \in 0 .. n : \E run : Run(run, m)}
<1>. USE DEF LoopRun
<1>1. 0 \in P
  <2>1. Run([k \in 0 .. 0 |-> start], 0)
    OBVIOUS
  <2>. HIDE DEF Run
  <2>. QED BY <2>1
<1>2. ASSUME NEW m \in 1 .. n, m - 1 \in P PROVE m \in P
  <2>1. PICK run : Run(run, m - 1)
    BY <1>2
  <2>. DEFINE longer == [k \in 0 .. m |-> IF k = m THEN pass[<<m, run[m - 1]>>]
                                                   ELSE run[k]]
  <2>2. run[m - 1] \in States
    <3>1. m - 1 \in 0 .. m - 1
      OBVIOUS
    <3>. QED BY <2>1, <3>1
  <2>3. pass[<<m, run[m - 1]>>] \in States
    BY <2>2
  <2>4. \A k \in 0 .. m - 1 : longer[k] = run[k] /\ run[k] \in States
    BY <2>1
  <2>5. longer[m] = pass[<<m, longer[m - 1]>>]
    <3>1. m - 1 \in 0 .. m - 1 /\ m \in 0 .. m
      OBVIOUS
    <3>2. longer[m] = pass[<<m, run[m - 1]>>]
      BY <3>1
    <3>. QED BY <2>4, <3>1, <3>2
  <2>6. longer \in [0 .. m -> States]
    <3>1. ASSUME NEW k \in 0 .. m
          PROVE  (IF k = m THEN pass[<<m, run[m - 1]>>] ELSE run[k]) \in States
      <4>1. CASE k = m
        BY <2>3, <4>1
      <4>2. CASE k # m
        <5>1. k \in 0 .. m - 1
          BY <4>2
        <5>. HIDE DEF longer
        <5>. QED BY <2>4, <4>2, <5>1
      <4>. QED BY <4>1, <4>2
    <3>. QED BY <3>1
  <2>7. \A k \in 1 .. m : longer[k] = pass[<<k, longer[k - 1]>>]
    <3>. SUFFICES ASSUME NEW k \in 1 .. m, k # m
                  PROVE  longer[k] = pass[<<k, longer[k - 1]>>]
      BY <2>5
    <3>1. k \in 1 .. m - 1 /\ k \in 0 .. m - 1 /\ k - 1 \in 0 .. m - 1
      OBVIOUS
    <3>2. longer[k] = run[k] /\ longer[k - 1] = run[k - 1]
      BY <2>4, <3>1
    <3>. HIDE DEF longer
    <3>. QED BY <2>1, <3>1, <3>2
  <2>8. longer[0] = start
    <3>1. 0 \in 0 .. m - 1
      OBVIOUS
    <3>. QED BY <2>1, <2>4, <3>1
  <2>9. Run(longer, m) /\ m \in 0 .. n
    <3>. HIDE DEF longer
    <3>. QED BY <2>6, <2>7, <2>8
  <2>. HIDE DEF Run
  <2>. QED BY <2>9
<1>3. n \in P
  <2>. HIDE DEF P
  <2>1. 0 .. n \subseteq P
    BY <1>1, <1>2, LoopInduction
  <2>. QED BY <2>1
<1>. HIDE DEF LoopRun
<1>. QED BY <1>3
=============================================================================
