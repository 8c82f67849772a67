---------------------------- MODULE LifetimeProofs ----------------------------
(***************************************************************************)
(* What the arithmetic of module Lifetime returns, for every record: the   *)
(* facts that the proofs about the lifetime store and about the refresh    *)
(* daemon rest on.                                                         *)
(***************************************************************************)
EXTENDS Lifetime, WellFoundedInduction, TLAPS

Lifetimes == Seq(Nat \ {0})

(* A nonempty set of natural numbers has a smallest element. *)
LEMMA NatMinimum ==
  ASSUME NEW S \in SUBSET Nat, S # {}
  PROVE  \E m \in S : \A n \in S : m <= n
<1>1. \E x \in S : \A y \in S : ~(<<y, x>> \in OpToRel(<, Nat))
  BY NatLessThanWellFounded, WFMin, Zenon
<1>2. PICK x \in S : \A y \in S : ~(<<y, x>> \in OpToRel(<, Nat))
  BY <1>1
<1>3. \A y \in S : ~(y < x)
  BY <1>2 DEF OpToRel
<1> QED BY <1>3

(* MeasuredLifetime is the shortest observed lifetime. *)
LEMMA MeasuredLifetimeIsShortest ==
  ASSUME NEW obs \in Lifetimes, obs # << >>
  PROVE  /\ MeasuredLifetime(obs) \in Nat \ {0}
         /\ \A i \in DOMAIN obs : MeasuredLifetime(obs) <= obs[i]
<1> DEFINE S == {obs[i] : i \in DOMAIN obs}
<1>1. S \in SUBSET (Nat \ {0}) /\ S # {}
  <2>1. DOMAIN obs = 1..Len(obs) /\ Len(obs) \in Nat /\ Len(obs) # 0
    BY DEF Lifetimes
  <2>2. 1 \in DOMAIN obs
    BY <2>1
  <2>3. \A i \in DOMAIN obs : obs[i] \in Nat \ {0}
    BY <2>1 DEF Lifetimes
  <2> QED BY <2>2, <2>3
<1>2. \E m \in S : \A n \in S : m <= n
  BY <1>1, NatMinimum
<1>3. \E m \in S : \A i \in DOMAIN obs : m <= obs[i]
  BY <1>2
<1>4. MeasuredLifetime(obs) \in S /\ \A i \in DOMAIN obs : MeasuredLifetime(obs) <= obs[i]
  BY <1>3 DEF MeasuredLifetime
<1> QED BY <1>1, <1>4

(* The cadence is a natural number, at least the floor, and at most half   *)
(* of the shortest observed lifetime when that is not below the floor.     *)
LEMMA SafeRefreshIntervalBounds ==
  ASSUME NEW obs \in Lifetimes
  PROVE  /\ SafeRefreshInterval(obs) \in Nat
         /\ SafeRefreshInterval(obs) >= MinRefresh
         /\ obs # << >> /\ MeasuredLifetime(obs) >= 2 * MinRefresh
              => 2 * SafeRefreshInterval(obs) <= MeasuredLifetime(obs)
<1>1. CASE obs = << >>
  BY <1>1, LifetimeAssumption DEF SafeRefreshInterval, AtLeast, AtMost
<1>2. CASE obs # << >>
  <2>1. MeasuredLifetime(obs) \in Nat
    BY <1>2, MeasuredLifetimeIsShortest
  <2> QED BY <1>2, <2>1, LifetimeAssumption DEF SafeRefreshInterval, AtLeast, AtMost
<1> QED BY <1>1, <1>2

(* Jitter moves an interval by at most half of its window. *)
LEMMA JitterBounds ==
  ASSUME NEW interval \in Nat, NEW i \in ApplyJitter(interval)
  PROVE  /\ i \in Int
         /\ 2 * i <= 2 * interval + RefreshJitter
         /\ 2 * i >= 2 * interval - RefreshJitter
<1>1. RefreshJitter \in Nat
  BY LifetimeAssumption
<1>2. CASE i = interval
  BY <1>1, <1>2
<1>3. CASE \E n \in 0..(RefreshJitter - 1) : i = interval + n - (RefreshJitter \div 2)
  BY <1>1, <1>3
<1> QED BY <1>2, <1>3 DEF ApplyJitter

(* A delay is a whole number, and there is always one to choose. *)
LEMMA DelaysAreIntegers ==
  ASSUME NEW obs \in Lifetimes, NEW birthTime \in Nat, NEW t \in Nat
  PROVE  \A d \in NextProactiveDelays(birthTime, obs, t) : d \in Int
<1> SUFFICES ASSUME NEW i \in ApplyJitter(SafeRefreshInterval(obs))
             PROVE  (IF birthTime = 0 THEN i
                     ELSE AtLeast(birthTime + i - t, OneMinute)) \in Int
  BY DEF NextProactiveDelays
<1>1. i \in Int
  BY SafeRefreshIntervalBounds, JitterBounds
<1> QED BY <1>1, LifetimeAssumption DEF AtLeast

(* RecordObservedLoss keeps every recorded lifetime positive: the age of a *)
(* registration that was born after its loss is never recorded.            *)
LEMMA RecordObservedLossType ==
  ASSUME NEW obs \in Lifetimes, NEW birthTime \in Nat, NEW t \in Nat
  PROVE  RecordObservedLoss(birthTime, obs, t) \in Lifetimes
<1>1. CASE birthTime = 0 \/ t - birthTime <= 0
  BY <1>1 DEF RecordObservedLoss
<1>2. CASE ~(birthTime = 0 \/ t - birthTime <= 0)
  <2>1. t - birthTime \in Nat \ {0}
    BY <1>2
  <2>2. Append(obs, t - birthTime) \in Lifetimes
    BY <2>1 DEF Lifetimes
  <2>3. CASE Len(obs) < MaxObserved
    BY <1>2, <2>2, <2>3 DEF RecordObservedLoss
  <2>4. CASE ~(Len(obs) < MaxObserved)
    <3>1. obs # << >> /\ Tail(obs) \in Lifetimes
      BY <2>4, LifetimeAssumption DEF Lifetimes
    <3>2. Append(Tail(obs), t - birthTime) \in Lifetimes
      BY <2>1, <3>1 DEF Lifetimes
    <3> QED BY <1>2, <2>4, <3>2 DEF RecordObservedLoss
  <2> QED BY <2>3, <2>4
<1> QED BY <1>1, <1>2
=============================================================================
