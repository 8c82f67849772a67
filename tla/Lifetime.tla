------------------------------ MODULE Lifetime ------------------------------
(***************************************************************************)
(* The arithmetic of src/pia/lifetime.go and of the two functions of       *)
(* src/refresh.go and src/main.go that turn a lifetime record into a       *)
(* delay.  A record is its two fields that decide anything: the birth time *)
(* of the current registration (0 is Go's zero time, "unknown") and the    *)
(* lifetimes observed so far, oldest first.  Times and durations are whole *)
(* numbers of one unit; a run chooses what the unit stands for.            *)
(***************************************************************************)
EXTENDS Integers, Sequences

CONSTANTS
  RefreshInterval,       \* --refresh-interval, the cadence before a loss is measured
  MaxRegistrationAge,    \* --max-registration-age, 0 when not set
  RefreshJitter,         \* --refresh-jitter, the width of the jitter window
  MinRefresh,            \* minLifetimeAwareRefresh, 30 minutes in the code
  MaxObserved,           \* maxObservedLifetimes, 20 in the code
  OneMinute              \* the shortest delay the proactive timer is armed with

ASSUME LifetimeAssumption ==
  /\ RefreshInterval \in Nat
  /\ MaxRegistrationAge \in Nat
  /\ RefreshJitter \in Nat
  /\ MinRefresh \in Nat \ {0}
  /\ MaxObserved \in Nat \ {0}
  /\ OneMinute \in Nat \ {0}

AtLeast(x, floor) == IF x < floor THEN floor ELSE x
AtMost(x, cap)    == IF x > cap THEN cap ELSE x

(* What Load returns for a file that is missing or does not parse. *)
FreshObserved == << >>

(* Mutant: a clock that ran backwards is measured like any other loss. *)
RecordObservedLoss_NoAgeGuard(birth, observed, t) ==
  IF birth = 0 THEN observed ELSE Append(observed, t - birth)

(* The record after RecordObservedLoss(t): nothing when the birth is       *)
(* unknown or the age is not positive, else the age appended and only the  *)
(* last MaxObserved kept.                                                  *)
RecordObservedLoss(birth, observed, t) ==
  IF birth = 0 \/ t - birth <= 0
    THEN observed
    ELSE IF Len(observed) < MaxObserved
           THEN Append(observed, t - birth)
           ELSE Append(Tail(observed), t - birth)

(* The shortest observed lifetime; meaningful when something was observed. *)
MeasuredLifetime(observed) ==
  CHOOSE m \in {observed[i] : i \in DOMAIN observed} :
    \A i \in DOMAIN observed : m <= observed[i]

(* Mutant: the safety fraction is not applied. *)
SafeRefreshInterval_WholeLifetime(observed) ==
  IF observed = << >> THEN RefreshInterval
                      ELSE AtLeast(MeasuredLifetime(observed), MinRefresh)

(* The cadence before jitter: half of the shortest observed lifetime, or   *)
(* the configured interval, capped by half of the operator's maximum age,  *)
(* and never below the floor.                                              *)
SafeRefreshInterval(observed) ==
  LET base == IF observed = << >>
                THEN RefreshInterval
                ELSE AtLeast(MeasuredLifetime(observed) \div 2, MinRefresh)
      capped == IF MaxRegistrationAge > 0
                  THEN AtMost(base, AtLeast(MaxRegistrationAge \div 2, MinRefresh))
                  ELSE base
  IN  AtLeast(capped, MinRefresh)

(* Every value applyJitter may return: an offset drawn from a window of    *)
(* width RefreshJitter that starts RefreshJitter/2 early.  A failing       *)
(* random source leaves the interval alone.                                *)
ApplyJitter(interval) ==
  {interval} \cup
    {interval + n - (RefreshJitter \div 2) : n \in 0..(RefreshJitter - 1)}

(* Every delay nextProactiveDelay may return at time t: the jittered       *)
(* interval counted from the registration's birth, at least a minute away. *)
NextProactiveDelays(birth, observed, t) ==
  {IF birth = 0 THEN i ELSE AtLeast(birth + i - t, OneMinute) :
     i \in ApplyJitter(SafeRefreshInterval(observed))}

(* The expiry status.json reports, 0 when no estimate is possible. *)
ExpectedExpiry(birth, observed) ==
  LET fallback == IF /\ MaxRegistrationAge > 0
                     /\ RefreshInterval <= 0 \/ MaxRegistrationAge < RefreshInterval
                    THEN MaxRegistrationAge ELSE RefreshInterval
      life     == IF observed = << >> THEN fallback ELSE MeasuredLifetime(observed)
  IN  IF birth = 0 \/ (observed = << >> /\ fallback <= 0) THEN 0 ELSE birth + life
=============================================================================
