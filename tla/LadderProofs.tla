----------------------------- MODULE LadderProofs -----------------------------
(***************************************************************************)
(* What a constructor holds at each of its steps, for rows of any length.   *)
(***************************************************************************)
EXTENDS Ladder, WellFoundedInduction, TLAPS

-----------------------------------------------------------------------------
(* Induction, from the theorem that a well-founded relation has minimal      *)
(* elements: the library's own induction theorems have a predicate as a      *)
(* parameter, this one has a set.                                           *)

LEMMA LeastExists == ASSUME NEW T \in SUBSET Nat, T # {} PROVE \E x \in T : \A y \in T : x <= y
<1> DEFINE R == OpToRel(<, Nat)
<1>1. IsWellFoundedOn(R, Nat) BY NatLessThanWellFounded
<1>2. \A x, y \in Nat : <<x, y>> \in R <=> x < y BY DEF OpToRel
<1> HIDE DEF R
<1>3. PICK x \in T : \A y \in T : ~(<<y, x>> \in R) BY <1>1, WFMin
<1>4. ASSUME NEW y \in T PROVE x <= y
  <2>1. x \in Nat /\ y \in Nat OBVIOUS
  <2>2. ~(y < x) BY <1>2, <1>3, <2>1
  <2> QED BY <2>1, <2>2
<1> QED BY <1>4

LEMMA SetInduction ==
    ASSUME NEW S \in SUBSET Nat, 0 \in S, \A n \in S : n + 1 \in S
    PROVE  S = Nat
<1> DEFINE T == Nat \ S
<1>1. SUFFICES ASSUME T # {} PROVE FALSE OBVIOUS
<1>2. T \in SUBSET Nat OBVIOUS
<1> HIDE DEF T
<1>3. PICK x \in T : \A y \in T : x <= y BY <1>1, <1>2, LeastExists
<1>4. x \in Nat /\ x # 0 /\ x \notin S BY <1>2 DEF T
<1>5. x - 1 \in Nat /\ x - 1 < x BY <1>4
<1>6. x - 1 \in S BY <1>3, <1>5 DEF T
<1> QED BY <1>4, <1>5, <1>6

-----------------------------------------------------------------------------
(* Held is a recursive function: that there is one, and what it satisfies.  *)

HeldAt(f, steps, i) == IF i = 1 THEN {} ELSE (f[i - 1] \cup steps[i - 1].takes) \ steps[i - 1].drops
IsHeld(f, steps, n) == f = [i \in 1..n |-> HeldAt(f, steps, i)]

LEMMA HeldExists == ASSUME NEW steps, NEW n \in Nat PROVE \E f : IsHeld(f, steps, n)
<1> DEFINE S == {m \in Nat : \E f : IsHeld(f, steps, m)}
<1>1. 0 \in S
  <2>1. IsHeld([i \in 1..0 |-> {}], steps, 0) BY DEF IsHeld
  <2> QED BY <2>1
<1>2. ASSUME NEW m \in S PROVE m + 1 \in S
  <2>1. m \in Nat OBVIOUS
  <2>2. PICK f : IsHeld(f, steps, m) BY <1>2
  <2> DEFINE g == [i \in 1..(m + 1) |-> IF i = m + 1 THEN HeldAt(f, steps, i) ELSE f[i]]
  <2>3. \A i \in 1..m : f[i] = HeldAt(f, steps, i) BY <2>2 DEF IsHeld
  <2>4. \A i \in 1..m : g[i] = f[i] BY <2>1
  <2>5. ASSUME NEW i \in 1..(m + 1) PROVE g[i] = HeldAt(g, steps, i)
    <3>1. i = 1 \/ g[i - 1] = f[i - 1] BY <2>1, <2>4
    <3>2. HeldAt(g, steps, i) = HeldAt(f, steps, i) BY <3>1 DEF HeldAt
    <3>3. g[i] = HeldAt(f, steps, i) BY <2>1, <2>3
    <3> QED BY <3>2, <3>3
  <2> DEFINE h == [i \in 1..(m + 1) |-> HeldAt(g, steps, i)]
  <2>6. g = h BY <2>5
  <2>7. IsHeld(g, steps, m + 1) BY <2>6 DEF IsHeld
  <2> QED BY <2>1, <2>7
<1>3. S = Nat BY <1>1, <1>2, SetInduction
<1> QED BY <1>3

\* What a constructor holds at its first step and at each one after another.
LEMMA HeldSteps ==
    ASSUME NEW steps, Len(steps) \in Nat
    PROVE  /\ Held(steps, 1) = {}
           /\ \A k \in 1..Len(steps) :
                 Held(steps, k + 1) = (Held(steps, k) \cup steps[k].takes) \ steps[k].drops
<1> DEFINE n == Len(steps) + 1
           f == CHOOSE h : IsHeld(h, steps, n)
<1>1. IsHeld(f, steps, n) BY HeldExists
<1>2. \A k : Held(steps, k) = f[k] BY DEF Held, IsHeld, HeldAt
<1> HIDE DEF f
<1>3. \A k \in 1..n : f[k] = HeldAt(f, steps, k) BY <1>1 DEF IsHeld
<1>4. HeldAt(f, steps, 1) = {} BY DEF HeldAt
<1>5. ASSUME NEW k \in 1..Len(steps)
      PROVE  f[k + 1] = (f[k] \cup steps[k].takes) \ steps[k].drops
  <2>1. k + 1 \in 1..n /\ k + 1 # 1 /\ (k + 1) - 1 = k OBVIOUS
  <2>2. f[k + 1] = HeldAt(f, steps, k + 1) BY <1>3, <2>1
  <2> QED BY <2>1, <2>2 DEF HeldAt
<1> QED BY <1>2, <1>3, <1>4, <1>5

\* A row of sets that each step leads from one to the next bounds what is held.
Bounds(bound, steps) ==
    \A k \in 1..Len(steps) : (bound[k] \cup steps[k].takes) \ steps[k].drops \subseteq bound[k + 1]

LEMMA HeldWithin ==
    ASSUME NEW steps, Len(steps) \in Nat, NEW bound, Bounds(bound, steps)
    PROVE  \A k \in 1..(Len(steps) + 1) : Held(steps, k) \subseteq bound[k]
<1> DEFINE S == {m \in Nat : m <= Len(steps) => Held(steps, m + 1) \subseteq bound[m + 1]}
<1>1. 0 \in S BY HeldSteps
<1>2. ASSUME NEW m \in S PROVE m + 1 \in S
  <2>1. SUFFICES ASSUME m + 1 <= Len(steps) PROVE Held(steps, m + 2) \subseteq bound[m + 2] OBVIOUS
  <2>2. m + 1 \in 1..Len(steps) /\ (m + 1) + 1 = m + 2 BY <2>1
  <2>3. Held(steps, m + 1) \subseteq bound[m + 1] BY <2>1
  <2> DEFINE s == steps[m + 1]
  <2>4. Held(steps, m + 2) = (Held(steps, m + 1) \cup s.takes) \ s.drops BY <2>2, HeldSteps
  <2>5. (bound[m + 1] \cup s.takes) \ s.drops \subseteq bound[m + 2] BY <2>2 DEF Bounds
  <2> QED BY <2>3, <2>4, <2>5
<1>3. S = Nat BY <1>1, <1>2, SetInduction
<1>4. ASSUME NEW k \in 1..(Len(steps) + 1) PROVE Held(steps, k) \subseteq bound[k]
  <2>1. k - 1 \in Nat /\ k - 1 <= Len(steps) /\ (k - 1) + 1 = k OBVIOUS
  <2>2. k - 1 \in S BY <2>1, <1>3
  <2> QED BY <2>1, <2>2
<1> QED BY <1>4

\* Each step that can fail frees all that the constructor may hold by then.
Frees(bound, steps, memory) ==
    \A k \in Failing(steps, memory) : bound[k] \subseteq steps[k].frees

\* A constructor within such bounds leaves nothing behind, whichever step fails.
LEMMA FailureLeavesNothing ==
    ASSUME NEW steps, Len(steps) \in Nat, NEW bound, Bounds(bound, steps),
           NEW memory, Frees(bound, steps, memory)
    PROVE  \A k \in Failing(steps, memory) : Leftover(steps, k) = {}
BY HeldWithin DEF Frees, Failing, Leftover

\* What is held is among what the steps take.
LEMMA HeldAmong ==
    ASSUME NEW steps, Len(steps) \in Nat, NEW A, \A k \in 1..Len(steps) : steps[k].takes \subseteq A
    PROVE  /\ \A k \in 1..(Len(steps) + 1) : Held(steps, k) \subseteq A
           /\ Built(steps) \subseteq A
<1> DEFINE bound == [k \in 1..(Len(steps) + 1) |-> A]
<1>1. \A k \in 1..(Len(steps) + 1) : bound[k] = A OBVIOUS
<1>2. \A k \in 1..Len(steps) : k \in 1..(Len(steps) + 1) /\ k + 1 \in 1..(Len(steps) + 1) OBVIOUS
<1> HIDE DEF bound
<1>3. Bounds(bound, steps) BY <1>1, <1>2 DEF Bounds
<1>4. \A k \in 1..(Len(steps) + 1) : Held(steps, k) \subseteq A BY <1>1, <1>3, HeldWithin
<1>5. Len(steps) + 1 \in 1..(Len(steps) + 1) OBVIOUS
<1> QED BY <1>4, <1>5 DEF Built

\* The same of what a failure leaves behind.
LEMMA LeftAmong ==
    ASSUME NEW steps, Len(steps) \in Nat, NEW A, \A k \in 1..Len(steps) : steps[k].takes \subseteq A,
           NEW memory
    PROVE  \A k \in Failing(steps, memory) : Leftover(steps, k) \subseteq A
<1>1. \A k \in 1..(Len(steps) + 1) : Held(steps, k) \subseteq A BY HeldAmong
<1>2. \A k \in 1..Len(steps) : k \in 1..(Len(steps) + 1) OBVIOUS
<1>3. Failing(steps, memory) \subseteq 1..Len(steps) BY DEF Failing
<1> QED BY <1>1, <1>2, <1>3 DEF Leftover

\* An outcome has what all steps together hold, or leaves what its step leaves.
LEMMA OutcomesWithin ==
    ASSUME NEW steps, NEW memory, NEW L, NEW H, Built(steps) \subseteq H,
           \A k \in Failing(steps, memory) : Leftover(steps, k) \subseteq L
    PROVE  \A o \in Outcomes(steps, memory) : o.left \subseteq L /\ o.has \subseteq H /\ o.ok \in BOOLEAN
<1> SUFFICES ASSUME NEW o \in Outcomes(steps, memory)
             PROVE  o.left \subseteq L /\ o.has \subseteq H /\ o.ok \in BOOLEAN
  OBVIOUS
<1>1. CASE o = [ok |-> TRUE, has |-> Built(steps), left |-> {}, memory |-> FALSE] BY <1>1
<1>2. ASSUME NEW k \in Failing(steps, memory),
             o = [ok |-> FALSE, has |-> {}, left |-> Leftover(steps, k), memory |-> steps[k].memory]
      PROVE  o.left \subseteq L /\ o.has \subseteq H /\ o.ok \in BOOLEAN
  BY <1>2
<1> QED BY <1>1, <1>2 DEF Outcomes

LEMMA OutcomesClean ==
    ASSUME NEW steps, NEW memory, \A k \in Failing(steps, memory) : Leftover(steps, k) = {}
    PROVE  \A o \in Outcomes(steps, memory) : o.left = {}
<1> DEFINE L == {}
           H == Built(steps)
<1>1. Built(steps) \subseteq H /\ \A k \in Failing(steps, memory) : Leftover(steps, k) \subseteq L OBVIOUS
<1> HIDE DEF L, H
<1>2. \A o \in Outcomes(steps, memory) : o.left \subseteq L BY <1>1, OutcomesWithin
<1> QED BY <1>2 DEF L

LEMMA OutcomesDecided == ASSUME NEW steps, NEW memory PROVE \A o \in Outcomes(steps, memory) : o.ok \in BOOLEAN
<1> DEFINE H == Built(steps)
           L == UNION {Leftover(steps, k) : k \in Failing(steps, memory)}
<1>1. Built(steps) \subseteq H /\ \A k \in Failing(steps, memory) : Leftover(steps, k) \subseteq L OBVIOUS
<1> HIDE DEF L, H
<1> QED BY <1>1, OutcomesWithin

\* With allocations that fail too, only those leave anything.
LEMMA OnlyMemoryLeaks ==
    ASSUME NEW steps, \A k \in Failing(steps, FALSE) : Leftover(steps, k) = {},
           \A k \in 1..Len(steps) : steps[k].memory \in BOOLEAN
    PROVE  \A o \in Outcomes(steps, TRUE) :
              /\ o.ok => o.has = Built(steps)
              /\ o.left = {} \/ o.memory
              /\ o.memory \in BOOLEAN
<1> SUFFICES ASSUME NEW o \in Outcomes(steps, TRUE)
             PROVE  /\ o.ok => o.has = Built(steps)
                    /\ o.left = {} \/ o.memory
                    /\ o.memory \in BOOLEAN
  OBVIOUS
<1>1. CASE o = [ok |-> TRUE, has |-> Built(steps), left |-> {}, memory |-> FALSE]
  <2>1. o.has = Built(steps) /\ o.left = {} BY <1>1
  <2>2. o.memory = FALSE BY <1>1
  <2> QED BY <2>1, <2>2
<1>2. ASSUME NEW k \in Failing(steps, TRUE),
             o = [ok |-> FALSE, has |-> {}, left |-> Leftover(steps, k), memory |-> steps[k].memory]
      PROVE  /\ o.ok => o.has = Built(steps)
             /\ o.left = {} \/ o.memory
             /\ o.memory \in BOOLEAN
  <2>1. o.ok = FALSE BY <1>2
  <2>2. o.left = Leftover(steps, k) BY <1>2
  <2>3. o.memory = steps[k].memory BY <1>2
  <2>4. steps[k].memory \in BOOLEAN BY DEF Failing
  <2>5. CASE steps[k].memory
    <3>1. o.memory = TRUE BY <2>3, <2>5
    <3> QED BY <2>1, <3>1
  <2>6. CASE ~steps[k].memory
    <3>1. k \in Failing(steps, FALSE) BY <2>6 DEF Failing
    <3>2. o.left = {} BY <2>2, <3>1
    <3>3. o.memory = FALSE BY <2>3, <2>4, <2>6
    <3> QED BY <2>1, <3>2, <3>3
  <2> QED BY <2>5, <2>6
<1> QED BY <1>1, <1>2 DEF Outcomes
=============================================================================
