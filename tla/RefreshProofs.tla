---------------------------- MODULE RefreshProofs ----------------------------
(***************************************************************************)
(* Proofs about the refresh daemon of src/refresh.go, for any intervals,   *)
(* thresholds, faults, regions and durations of calls: first what its      *)
(* files and gluetun name, then when it acts - what a recorded lifetime    *)
(* measures, how long a tunnel that is not the one of wg0.conf is kept,    *)
(* when the proactive timer may fire, how soon an evicted registration is  *)
(* replaced, and how far apart registrations are.  The faults and          *)
(* durations a theorem excludes are those under which the code does not    *)
(* have the property.                                                      *)
(***************************************************************************)
EXTENDS Refresh, LifetimeProofs

-----------------------------------------------------------------------------
(* Lemmas about the helpers that choose a time or extend the record. *)

(* The proactive timer is armed at a whole number. *)
LEMMA ArmTimerType ==
  ASSUME TypeOK, ArmTimer(birth, observed)
  PROVE  nextRefresh' \in Int /\ timer' \in Int
<1>1. birth \in Nat /\ observed \in Lifetimes /\ now \in Nat
  BY DEF TypeOK, HealthType, DiskType, HistType, Lifetimes
<1>2. PICK d \in NextProactiveDelays(birth, observed, now) :
        nextRefresh' = now + d /\ timer' = now + d
  BY DEF ArmTimer
<1>3. d \in Int
  BY <1>1, DelaysAreIntegers
<1> QED BY <1>1, <1>2, <1>3

(* rearm leaves the proactive timer and its published time integers. *)
LEMMA RearmType ==
  ASSUME TypeOK, NEW due \in Int, Rearm(due, birth, observed)
  PROVE  nextRefresh' \in Int /\ timer' \in Int
<1>1. CASE TimerKept(due, birth)
  BY <1>1 DEF Rearm, TypeOK, TimerType
<1>2. CASE ~TimerKept(due, birth)
  BY <1>2, ArmTimerType DEF Rearm
<1> QED BY <1>1, <1>2

(* The next tick of the health ticker is a whole number of intervals on. *)
LEMMA TickerType ==
  ASSUME TypeOK, ReadTicker
  PROVE  ticker' \in Nat
<1>1. /\ now \in Nat /\ ticker \in Nat /\ now - ticker \in Nat
      /\ HealthInterval \in Nat \ {0}
  BY RefreshAssumption DEF TypeOK, TimerType, ReadTicker
<1>2. (now - ticker) \div HealthInterval \in Nat
  BY <1>1
<1>3. HealthInterval * ((now - ticker) \div HealthInterval + 1) \in Nat
  BY <1>1, <1>2
<1> QED BY <1>1, <1>3 DEF ReadTicker

(* A measured loss extends the record by a positive lifetime. *)
LEMMA LossType ==
  ASSUME TypeOK, RecordLossIfMeasurable
  PROVE  /\ observed' \in Seq(Nat \ {0})
         /\ UNCHANGED <<birth, histVars>>
<1>1. /\ birth \in Nat /\ observed \in Lifetimes /\ lastHealthy \in Nat
  BY DEF TypeOK, HealthType, DiskType, Lifetimes
<1>2. RecordObservedLoss(birth, observed, lastHealthy) \in Lifetimes
  BY <1>1, RecordObservedLossType
<1>3. observed' \in Lifetimes
  BY <1>1, <1>2 DEF RecordLossIfMeasurable
<1> QED BY <1>1, <1>3 DEF RecordLossIfMeasurable, Lifetimes

(* Back in the select loop every variable of the loop is reset. *)
LEMMA ReturnType ==
  ASSUME TypeOK, NEW due \in Int, ReturnToLoop(due)
  PROVE  /\ pc' = "select" /\ trigger' = "none" /\ attempt' = 0
         /\ backoff' = 0 /\ started' = 0 /\ wakeAt' = 0 /\ region' = region
         /\ nextRefresh' \in Int /\ timer' \in Int /\ ticker' \in Nat
<1>1. now \in Nat /\ ticker \in Nat /\ HealthInterval \in Nat
  BY RefreshAssumption DEF TypeOK, TimerType
<1>2. ticker' \in Nat
  BY <1>1 DEF ReturnToLoop
<1>3. nextRefresh' \in Int /\ timer' \in Int
  BY ArmTimerType, RearmType DEF ReturnToLoop
<1> QED BY <1>2, <1>3 DEF ReturnToLoop

(* flushStatus writes a region and a Boolean, or nothing. *)
LEMMA FlushType ==
  ASSUME TypeOK, NEW r \in Regions, NEW healthy \in BOOLEAN, FlushStatus(r, healthy)
  PROVE  statusRegion' \in SUBSET Regions /\ statusHealthy' \in BOOLEAN
<1>1. statusRegion \in SUBSET Regions /\ statusHealthy \in BOOLEAN
  BY DEF TypeOK, DiskType
<1>2. CASE statusRegion' = {r} /\ statusHealthy' = healthy
  BY <1>2
<1>3. CASE UNCHANGED statusVars
  BY <1>1, <1>3 DEF statusVars
<1> QED BY <1>2, <1>3 DEF FlushStatus

(* Counting a failed attempt keeps the outage policy's type. *)
LEMMA NoteFailedType ==
  ASSUME TypeOK, NoteFailedAttempt
  PROVE  failures' \in Nat /\ alerted' \in BOOLEAN
<1>1. failures \in Nat
  BY DEF TypeOK, RecType
<1>2. failures' \in Nat
  BY <1>1 DEF NoteFailedAttempt
<1>3. alerted' \in BOOLEAN
  BY Zenon DEF NoteFailedAttempt
<1> QED BY <1>2, <1>3

(* A healthy sample keeps the types of what observe sets. *)
LEMMA ObserveHealthyType ==
  ASSUME TypeOK, NEW r \in Regions, ObserveHealthy(r)
  PROVE  /\ HealthType' /\ HistType'
         /\ failures' \in Nat /\ alerted' \in BOOLEAN
         /\ statusRegion' \in SUBSET Regions /\ statusHealthy' \in BOOLEAN
<1>1. HealthType'
  BY DEF ObserveHealthy, HealthType, TypeOK
<1>2. HistType'
  BY DEF ObserveHealthy, HistType, TypeOK
<1>3. failures' \in Nat /\ alerted' \in BOOLEAN
  BY DEF ObserveHealthy
<1>4. FlushStatus(r, TRUE) /\ TRUE \in BOOLEAN
  BY DEF ObserveHealthy
<1> QED BY <1>1, <1>2, <1>3, <1>4, FlushType

(* An unhealthy sample keeps the types of what observe sets. *)
LEMMA ObserveUnhealthyType ==
  ASSUME TypeOK, ObserveUnhealthy
  PROVE  /\ tunnelHealthy' \in BOOLEAN /\ consecutiveUnhealth' \in Nat
         /\ statusRegion' \in SUBSET Regions /\ statusHealthy' \in BOOLEAN
<1>1. consecutiveUnhealth \in Nat /\ region \in Regions
  BY DEF TypeOK, HealthType, LoopType
<1>2. consecutiveUnhealth' \in Nat
  BY <1>1 DEF ObserveUnhealthy
<1>3. tunnelHealthy' \in BOOLEAN
  BY Zenon DEF ObserveUnhealthy
<1>4. FlushStatus(region, FALSE) /\ FALSE \in BOOLEAN
  BY DEF ObserveUnhealthy
<1> QED BY <1>1, <1>2, <1>3, <1>4, FlushType

(* accountForPreviousRecovery keeps its counters natural numbers. *)
LEMMA AccountType ==
  ASSUME TypeOK, AccountForPreviousRecovery
  PROVE  ineffectiveRecoveries' \in Nat /\ failures' \in Nat /\ alerted' \in BOOLEAN
<1>1. ineffectiveRecoveries \in Nat /\ failures \in Nat /\ alerted \in BOOLEAN
  BY DEF TypeOK, HealthType, RecType
<1>2. CASE recoveryCount > 0 /\ ~healthySinceRecovery
  <2>1. ineffectiveRecoveries' = ineffectiveRecoveries + 1 /\ NoteFailedAttempt
    BY <1>2, Zenon DEF AccountForPreviousRecovery
  <2> QED BY <1>1, <2>1, NoteFailedType
<1>3. CASE ~(recoveryCount > 0 /\ ~healthySinceRecovery)
  <2>1. UNCHANGED <<ineffectiveRecoveries, policyVars>>
    BY <1>3, Zenon DEF AccountForPreviousRecovery
  <2> QED BY <1>1, <2>1 DEF policyVars
<1> QED BY <1>2, <1>3

(* The bookkeeping of an applied recovery keeps its types. *)
LEMMA NoteRecoveryType ==
  ASSUME TypeOK, NoteRecovery
  PROVE  HealthType' /\ HistType' /\ lastRecovery' \in Nat /\ recoveryCount' \in Nat
<1>1. /\ HealthType /\ HistType /\ now \in Nat
      /\ lastRecovery \in Nat /\ recoveryCount \in Nat
  BY DEF TypeOK, RecType
<1>2. CASE trigger = "reactive-recovery"
  <2>1. /\ lastRecovery' = now /\ recoveryCount' = recoveryCount + 1
        /\ consecutiveUnhealth' = 0 /\ recsSinceHealthy' = recsSinceHealthy + 1
        /\ healthySinceRecovery' = FALSE /\ confirmedHealthy' = FALSE
        /\ UNCHANGED <<tunnelHealthy, lastHealthy, ineffectiveRecoveries,
                       lastMint>>
    BY <1>2, Zenon DEF NoteRecovery
  <2>2. healthySinceRecovery' \in BOOLEAN /\ confirmedHealthy' \in BOOLEAN
    BY <2>1
  <2>3. HistType' /\ lastRecovery' \in Nat /\ recoveryCount' \in Nat
    BY <1>1, <2>1 DEF HistType
  <2>4. HealthType'
    BY <1>1, <2>1, <2>2 DEF HealthType
  <2> QED BY <2>3, <2>4
<1>3. CASE trigger # "reactive-recovery"
  <2>1. UNCHANGED <<healthVars, recVars, histVars>>
    BY <1>3, Zenon DEF NoteRecovery
  <2> QED BY <1>1, <2>1 DEF healthVars, recVars, histVars, HealthType, HistType
<1> QED BY <1>2, <1>3

-----------------------------------------------------------------------------
(* Every variable of the daemon, of its files and of gluetun keeps its     *)
(* type; in particular an attempt is never counted past maxRegenAttempts   *)
(* and a recorded lifetime is never zero or negative.                      *)
THEOREM TypeCorrect == Spec => []TypeOK
<1>1. Init => TypeOK
  <2> SUFFICES ASSUME Init PROVE TypeOK
    OBVIOUS
  <2>1. LoopType
    BY RefreshAssumption DEF Init, LoopType, Triggers
  <2>2. HealthType /\ RecType
    BY DEF Init, HealthType, RecType
  <2>3. TimerType /\ WorldType /\ HistType /\ now \in Nat \ {0}
    BY DEF Init, TimerType, WorldType, HistType
  <2>4. DiskType
    <3>1. configReg \in Nat /\ birth \in Nat /\ pendingPF \in Nat
      BY DEF Init
    <3>2. observed \in Seq(Nat \ {0})
      BY DEF Init, FreshObserved
    <3>3. statusRegion \in SUBSET Regions /\ statusHealthy \in BOOLEAN
      BY DEF Init
    <3> QED BY <3>1, <3>2, <3>3 DEF DiskType
  <2> QED BY <2>1, <2>2, <2>3, <2>4 DEF TypeOK
<1>2. TypeOK /\ [Next]_vars => TypeOK'
  <2> SUFFICES ASSUME TypeOK, [Next]_vars PROVE TypeOK'
    OBVIOUS
  <2>1. CASE Tick
    BY <2>1
    DEF Tick, TypeOK, LoopType, HealthType, RecType, TimerType, DiskType,
        WorldType, HistType, loopVars, healthVars, recVars, timerVars,
        policyVars, diskVars, recordVars, statusVars, worldVars,
        histVars
  <2>2. CASE Horizon
    BY <2>2
    DEF Horizon, vars, TypeOK, LoopType, HealthType, RecType, TimerType,
        DiskType, WorldType, HistType, loopVars, healthVars, recVars,
        timerVars, policyVars, diskVars, recordVars, statusVars,
        worldVars, histVars
  <2>3. CASE Evict
    BY <2>3
    DEF Evict, TypeOK, LoopType, HealthType, RecType, TimerType, DiskType,
        WorldType, HistType, loopVars, healthVars, recVars, timerVars,
        policyVars, diskVars, recordVars, statusVars, worldVars,
        histVars
  <2>4. CASE Connect
    BY <2>4
    DEF Connect, TypeOK, LoopType, HealthType, RecType, TimerType, DiskType,
        WorldType, HistType, loopVars, healthVars, recVars, timerVars,
        policyVars, diskVars, recordVars, statusVars, worldVars,
        histVars
  <2>5. CASE Reload
    BY <2>5
    DEF Reload, StartGluetun, TypeOK, LoopType, HealthType, RecType,
        TimerType, DiskType, WorldType, HistType, loopVars, healthVars,
        recVars, timerVars, policyVars, diskVars, recordVars,
        statusVars, worldVars, histVars
  <2>6. CASE Adopt
    <3>1. now' \in Nat \ {0}
      BY <2>6 DEF Adopt, TypeOK
    <3>2. LoopType'
      BY <2>6
      DEF Adopt, TypeOK, LoopType, loopVars
    <3>3. HealthType'
      BY <2>6, ObserveHealthyType
      DEF Adopt, TypeOK, HealthType, healthVars
    <3>4. RecType'
      BY <2>6, ObserveHealthyType
      DEF Adopt, TypeOK, RecType, recVars, policyVars
    <3>5. TimerType'
      BY <2>6, ArmTimerType, RefreshAssumption
      DEF Adopt, TypeOK, TimerType, timerVars
    <3>6. DiskType'
      BY <2>6, ObserveHealthyType
      DEF Adopt, TypeOK, DiskType, diskVars, recordVars,
          statusVars
    <3>7. WorldType'
      BY <2>6
      DEF Adopt, TypeOK, WorldType, worldVars
    <3>8. HistType'
      BY <2>6, ObserveHealthyType
      DEF Adopt, TypeOK, HistType, histVars
    <3> QED BY <3>1, <3>2, <3>3, <3>4, <3>5, <3>6, <3>7, <3>8 DEF TypeOK
  <2>7. CASE Startup
    BY <2>7, RefreshAssumption
    DEF Startup, BeginAttempt, Triggers, TypeOK, LoopType, HealthType,
        RecType, TimerType, DiskType, WorldType, HistType, loopVars,
        healthVars, recVars, timerVars, policyVars, diskVars,
        recordVars, statusVars, worldVars, histVars
  <2>8. CASE Crash
    <3>1. now' \in Nat \ {0}
      BY <2>8 DEF Crash, TypeOK
    <3>2. LoopType'
      BY <2>8, RefreshAssumption
      DEF Crash, Triggers, TypeOK, LoopType, loopVars
    <3>3. HealthType'
      BY <2>8
      DEF Crash, TypeOK, HealthType, healthVars
    <3>4. RecType'
      BY <2>8
      DEF Crash, TypeOK, RecType, recVars, policyVars
    <3>5. TimerType'
      BY <2>8
      DEF Crash, TypeOK, TimerType, timerVars
    <3>6. DiskType'
      BY <2>8
      DEF Crash, TypeOK, DiskType, diskVars, recordVars,
          statusVars
    <3>7. WorldType'
      BY <2>8
      DEF Crash, TypeOK, WorldType, worldVars
    <3>8. HistType'
      BY <2>8
      DEF Crash, TypeOK, HistType, histVars
    <3> QED BY <3>1, <3>2, <3>3, <3>4, <3>5, <3>6, <3>7, <3>8 DEF TypeOK
  <2>9. CASE HealthyTick
    BY <2>9, RefreshAssumption, RearmType, TickerType
    DEF HealthyTick, ObserveHealthy, FlushStatus, TypeOK, LoopType,
        HealthType, RecType, TimerType, DiskType, WorldType, HistType,
        loopVars, healthVars, recVars, timerVars, policyVars, diskVars,
        recordVars, statusVars, worldVars, histVars
  <2>10. CASE UnhealthyTick
    <3>1. now' \in Nat \ {0}
      BY <2>10 DEF UnhealthyTick, TypeOK
    <3>2. LoopType'
      BY <2>10
      DEF UnhealthyTick, TypeOK, LoopType, loopVars
    <3>3. HealthType'
      BY <2>10, ObserveUnhealthyType
      DEF UnhealthyTick, TypeOK, HealthType, healthVars
    <3>4. RecType'
      BY <2>10
      DEF UnhealthyTick, TypeOK, RecType, recVars, policyVars
    <3>5. TimerType'
      BY <2>10, RearmType, TickerType
      DEF UnhealthyTick, TypeOK, TimerType, timerVars
    <3>6. DiskType'
      BY <2>10, ObserveUnhealthyType
      DEF UnhealthyTick, TypeOK, DiskType, diskVars, recordVars,
          statusVars
    <3>7. WorldType'
      BY <2>10
      DEF UnhealthyTick, TypeOK, WorldType, worldVars
    <3>8. HistType'
      BY <2>10
      DEF UnhealthyTick, TypeOK, HistType, histVars
    <3> QED BY <3>1, <3>2, <3>3, <3>4, <3>5, <3>6, <3>7, <3>8 DEF TypeOK
  <2>11. CASE RecoverTick
    <3>1. now' \in Nat \ {0}
      BY <2>11 DEF RecoverTick, TypeOK
    <3>2. LoopType'
      BY <2>11, RefreshAssumption
      DEF RecoverTick, BeginAttempt, Triggers, TypeOK, LoopType, loopVars
    <3>3. HealthType'
      BY <2>11, ObserveUnhealthyType, AccountType
      DEF RecoverTick, TypeOK, HealthType, healthVars
    <3>4. RecType'
      BY <2>11, AccountType
      DEF RecoverTick, TypeOK, RecType, recVars, policyVars
    <3>5. TimerType'
      BY <2>11, TickerType
      DEF RecoverTick, TypeOK, TimerType, timerVars
    <3>6. DiskType'
      BY <2>11, LossType, ObserveUnhealthyType
      DEF RecoverTick, TypeOK, DiskType, diskVars, recordVars,
          statusVars
    <3>7. WorldType'
      BY <2>11
      DEF RecoverTick, TypeOK, WorldType, worldVars
    <3>8. HistType'
      BY <2>11, LossType
      DEF RecoverTick, TypeOK, HistType, histVars
    <3> QED BY <3>1, <3>2, <3>3, <3>4, <3>5, <3>6, <3>7, <3>8 DEF TypeOK
  <2>12. CASE ProactiveFire
    BY <2>12, RefreshAssumption
    DEF ProactiveFire, BeginAttempt, Triggers, TypeOK, LoopType, HealthType,
        RecType, TimerType, DiskType, WorldType, HistType, loopVars,
        healthVars, recVars, timerVars, policyVars, diskVars,
        recordVars, statusVars, worldVars, histVars
  <2>13. CASE GenerateOK
    BY <2>13
    DEF GenerateOK, Mint, TypeOK, LoopType, HealthType, RecType, TimerType,
        DiskType, WorldType, HistType, loopVars, healthVars, recVars,
        timerVars, policyVars, diskVars, recordVars, statusVars,
        worldVars, histVars
  <2>14. CASE GenerateFails
    BY <2>14, RefreshAssumption
    DEF GenerateFails, FailAttempt, FlushStatus, NoteFailedAttempt, AtMost,
        Mint, TypeOK, LoopType, HealthType, RecType, TimerType, DiskType,
        WorldType, HistType, loopVars, healthVars, recVars, timerVars,
        policyVars, diskVars, recordVars, statusVars, worldVars,
        histVars
  <2>15. CASE WriteConfig
    BY <2>15
    DEF WriteConfig, TypeOK, LoopType, HealthType, RecType, TimerType,
        DiskType, WorldType, HistType, loopVars, healthVars, recVars,
        timerVars, policyVars, diskVars, recordVars, statusVars,
        worldVars, histVars
  <2>16. CASE WriteConfigFails
    BY <2>16, RefreshAssumption
    DEF WriteConfigFails, FailAttempt, FlushStatus, NoteFailedAttempt,
        AtMost, TypeOK, LoopType, HealthType, RecType, TimerType, DiskType,
        WorldType, HistType, loopVars, healthVars, recVars, timerVars,
        policyVars, diskVars, recordVars, statusVars, worldVars,
        histVars
  <2>17. CASE RecordBirth
    BY <2>17, RefreshAssumption
    DEF RecordBirth, TypeOK, LoopType, HealthType, RecType, TimerType,
        DiskType, WorldType, HistType, loopVars, healthVars, recVars,
        timerVars, policyVars, diskVars, recordVars, statusVars,
        worldVars, histVars
  <2>18. CASE WritePending
    BY <2>18, RefreshAssumption
    DEF WritePending, TypeOK, LoopType, HealthType, RecType, TimerType,
        DiskType, WorldType, HistType, loopVars, healthVars, recVars,
        timerVars, policyVars, diskVars, recordVars, statusVars,
        worldVars, histVars
  <2>19. CASE WritePendingFails
    BY <2>19, RefreshAssumption
    DEF WritePendingFails, FailAttempt, FlushStatus, NoteFailedAttempt,
        AtMost, TypeOK, LoopType, HealthType, RecType, TimerType, DiskType,
        WorldType, HistType, loopVars, healthVars, recVars, timerVars,
        policyVars, diskVars, recordVars, statusVars, worldVars,
        histVars
  <2>20. CASE Apply
    <3>0. \E due \in Int : ReturnToLoop(due)
      <4>1. birth \in Nat /\ observed \in Lifetimes /\ now \in Nat
        BY DEF TypeOK, DiskType, Lifetimes
      <4>2. PICK d \in NextProactiveDelays(birth, observed, now) : ReturnToLoop(now + d)
        BY <2>20 DEF Apply
      <4>3. now + d \in Int
        BY <4>1, DelaysAreIntegers
      <4> QED BY <4>2, <4>3
    <3>1. now' \in Nat \ {0}
      BY <2>20 DEF Apply, TypeOK
    <3>2. LoopType'
      BY <2>20, <3>0, ReturnType, RefreshAssumption
      DEF Apply, Triggers, TypeOK, LoopType, loopVars
    <3>3. HealthType'
      BY <2>20, NoteRecoveryType
      DEF Apply, TypeOK, HealthType, healthVars
    <3>4. RecType'
      BY <2>20, NoteRecoveryType
      DEF Apply, TypeOK, RecType, recVars, policyVars
    <3>5. TimerType'
      BY <2>20, <3>0, ReturnType
      DEF Apply, TypeOK, TimerType, timerVars
    <3>6. DiskType'
      BY <2>20, FlushType
      DEF Apply, TypeOK, DiskType, LoopType, HealthType, diskVars,
          recordVars, statusVars
    <3>7. WorldType'
      BY <2>20
      DEF Apply, StartGluetun, TypeOK, WorldType, DiskType, worldVars
    <3>8. HistType'
      BY <2>20, NoteRecoveryType
      DEF Apply, TypeOK, HistType, histVars
    <3> QED BY <3>1, <3>2, <3>3, <3>4, <3>5, <3>6, <3>7, <3>8 DEF TypeOK
  <2>21. CASE RestartFails
    BY <2>21, RefreshAssumption
    DEF RestartFails, StartGluetun, FailAttempt, FlushStatus, NoteFailedAttempt, AtMost,
        TypeOK, LoopType, HealthType, RecType, TimerType, DiskType,
        WorldType, HistType, loopVars, healthVars, recVars, timerVars,
        policyVars, diskVars, recordVars, statusVars, worldVars,
        histVars
  <2>22. CASE Retry
    BY <2>22, RefreshAssumption
    DEF Retry, BeginAttempt, Triggers, TypeOK, LoopType, HealthType, RecType,
        TimerType, DiskType, WorldType, HistType, loopVars, healthVars,
        recVars, timerVars, policyVars, diskVars, recordVars,
        statusVars, worldVars, histVars
  <2>23. CASE GiveUp
    <3>1. now' \in Nat \ {0}
      BY <2>23 DEF GiveUp, TypeOK
    <3>2. LoopType'
      BY <2>23, ReturnType, RefreshAssumption
      DEF GiveUp, Triggers, TypeOK, LoopType, TimerType, loopVars
    <3>3. HealthType'
      BY <2>23
      DEF GiveUp, TypeOK, HealthType, healthVars
    <3>4. RecType'
      BY <2>23
      DEF GiveUp, TypeOK, RecType, recVars, policyVars
    <3>5. TimerType'
      BY <2>23, ReturnType
      DEF GiveUp, TypeOK, TimerType, timerVars
    <3>6. DiskType'
      BY <2>23, FlushType
      DEF GiveUp, TypeOK, DiskType, LoopType, HealthType, diskVars,
          recordVars, statusVars
    <3>7. WorldType'
      BY <2>23
      DEF GiveUp, TypeOK, WorldType, worldVars
    <3>8. HistType'
      BY <2>23
      DEF GiveUp, TypeOK, HistType, histVars
    <3> QED BY <3>1, <3>2, <3>3, <3>4, <3>5, <3>6, <3>7, <3>8 DEF TypeOK
  <2>24. CASE UNCHANGED vars
    BY <2>24 DEF vars, TypeOK, LoopType, HealthType, RecType, TimerType, DiskType,
        WorldType, HistType, loopVars, healthVars, recVars, timerVars,
        policyVars, diskVars, recordVars, statusVars, worldVars,
        histVars
  <2> QED BY <2>1, <2>2, <2>3, <2>4, <2>5, <2>6, <2>7, <2>8, <2>9, <2>10, <2>11,
         <2>12, <2>13, <2>14, <2>15, <2>16, <2>17, <2>18, <2>19, <2>20,
         <2>21, <2>22, <2>23, <2>24
      DEF Next
<1> QED BY <1>1, <1>2, PTL DEF Spec

-----------------------------------------------------------------------------
(* Why wg0.conf is the newest: an attempt is named by a time that is not   *)
(* before the name of the config it finds, and once it wrote the config,   *)
(* everything else it names is named after that config.                    *)
NamesInv ==
  /\ configReg <= now
  /\ birth <= configReg /\ pendingPF <= configReg /\ running <= configReg
  /\ pc \in {"generate", "write"} => configReg <= started /\ started <= now
  /\ pc \in {"record", "pending", "apply"} => started = configReg

(* The names alone are natural numbers. *)
NamesType ==
  /\ now \in Nat /\ started \in Nat /\ configReg \in Nat
  /\ birth \in Nat /\ pendingPF \in Nat /\ running \in Nat

(* The part of the type invariant that NamesInv's proof rests on. *)
LEMMA NamesAreNatural == TypeOK => NamesType
  BY DEF TypeOK, LoopType, DiskType, WorldType, NamesType

(* NamesInv holds in every reachable state. *)
LEMMA NamesInvAlways == Spec => []NamesInv
<1>1. Init => NamesInv
  BY DEF Init, NamesInv
<1>2. NamesType /\ NamesInv /\ [Next]_vars => NamesInv'
  <2> SUFFICES ASSUME NamesType, NamesInv, [Next]_vars PROVE NamesInv'
    OBVIOUS
  <2>1. CASE Tick
    BY <2>1
    DEF Tick, NamesType, NamesInv, loopVars, diskVars,
        recordVars, worldVars
  <2>2. CASE Horizon
    BY <2>2
    DEF Horizon, vars, NamesType, NamesInv, loopVars, diskVars,
        recordVars, worldVars
  <2>3. CASE Evict
    BY <2>3
    DEF Evict, NamesType, NamesInv, loopVars, diskVars,
        recordVars, worldVars
  <2>4. CASE Connect
    BY <2>4
    DEF Connect, NamesType, NamesInv, loopVars, diskVars,
        recordVars, worldVars
  <2>5. CASE Reload
    BY <2>5
    DEF Reload, StartGluetun, NamesType, NamesInv, loopVars, diskVars,
        recordVars, worldVars
  <2>6. CASE Adopt
    BY <2>6
    DEF Adopt, NamesType, NamesInv, loopVars, diskVars,
        recordVars, worldVars
  <2>7. CASE Startup
    BY <2>7
    DEF Startup, BeginAttempt, NamesType, NamesInv, loopVars, diskVars,
        recordVars, worldVars
  <2>8. CASE Crash
    BY <2>8
    DEF Crash, NamesType, NamesInv, loopVars, diskVars,
        recordVars, worldVars
  <2>9. CASE HealthyTick
    BY <2>9
    DEF HealthyTick, NamesType, NamesInv, loopVars, diskVars,
        recordVars, worldVars
  <2>10. CASE UnhealthyTick
    BY <2>10
    DEF UnhealthyTick, NamesType, NamesInv, loopVars, diskVars,
        recordVars, worldVars
  <2>11. CASE RecoverTick
    BY <2>11
    DEF RecoverTick, BeginAttempt, RecordLossIfMeasurable, NamesType,
        NamesInv, loopVars, diskVars, recordVars, worldVars
  <2>12. CASE ProactiveFire
    BY <2>12
    DEF ProactiveFire, BeginAttempt, NamesType, NamesInv, loopVars, diskVars,
        recordVars, worldVars
  <2>13. CASE GenerateOK
    BY <2>13
    DEF GenerateOK, NamesType, NamesInv, loopVars, diskVars,
        recordVars, worldVars
  <2>14. CASE GenerateFails
    BY <2>14
    DEF GenerateFails, FailAttempt, NamesType, NamesInv, loopVars, diskVars,
        recordVars, worldVars
  <2>15. CASE WriteConfig
    BY <2>15
    DEF WriteConfig, NamesType, NamesInv, loopVars, diskVars,
        recordVars, worldVars
  <2>16. CASE WriteConfigFails
    BY <2>16
    DEF WriteConfigFails, FailAttempt, NamesType, NamesInv, loopVars,
        diskVars, recordVars, worldVars
  <2>17. CASE RecordBirth
    BY <2>17
    DEF RecordBirth, NamesType, NamesInv, loopVars, diskVars,
        recordVars, worldVars
  <2>18. CASE WritePending
    BY <2>18
    DEF WritePending, NamesType, NamesInv, loopVars, diskVars,
        recordVars, worldVars
  <2>19. CASE WritePendingFails
    BY <2>19
    DEF WritePendingFails, FailAttempt, NamesType, NamesInv, loopVars,
        diskVars, recordVars, worldVars
  <2>20. CASE Apply
    BY <2>20
    DEF Apply, StartGluetun, ReturnToLoop, NamesType, NamesInv, loopVars,
        diskVars, recordVars, worldVars
  <2>21. CASE RestartFails
    BY <2>21
    DEF RestartFails, StartGluetun, FailAttempt, NamesType, NamesInv, loopVars, diskVars,
        recordVars, worldVars
  <2>22. CASE Retry
    BY <2>22
    DEF Retry, BeginAttempt, NamesType, NamesInv, loopVars, diskVars,
        recordVars, worldVars
  <2>23. CASE GiveUp
    BY <2>23
    DEF GiveUp, ReturnToLoop, NamesType, NamesInv, loopVars, diskVars,
        recordVars, worldVars
  <2>24. CASE UNCHANGED vars
    BY <2>24 DEF vars, NamesType, NamesInv, loopVars, diskVars,
        recordVars, worldVars
  <2> QED BY <2>1, <2>2, <2>3, <2>4, <2>5, <2>6, <2>7, <2>8, <2>9, <2>10, <2>11,
         <2>12, <2>13, <2>14, <2>15, <2>16, <2>17, <2>18, <2>19, <2>20,
         <2>21, <2>22, <2>23, <2>24
      DEF Next
<1> QED BY <1>1, <1>2, TypeCorrect, NamesAreNatural, PTL DEF Spec

(* The order of regenerateOnce's writes: whatever fails, is retried or is  *)
(* cut short by a crash, neither the lifetime record, the metadata for the *)
(* pf daemon nor gluetun is ahead of wg0.conf.                             *)
THEOREM ConfigAlwaysNewest == Spec => []ConfigIsNewest
<1>1. NamesInv => ConfigIsNewest
  BY DEF NamesInv, ConfigIsNewest
<1> QED BY <1>1, NamesInvAlways, PTL

-----------------------------------------------------------------------------
(* The refresh daemon implements Registrar, for every configuration and    *)
(* through every fault and crash: wg0.conf only moves on to a later        *)
(* registration, and only the registration of wg0.conf is handed over to   *)
(* the pf daemon and loaded by gluetun.                                    *)
THEOREM ImplementsRegistrar == Spec => RegistrarSpec
<1> DEFINE rvars == <<configReg, pendingPF, running>>
<1>1. Init => Registrar!Init
  BY DEF Init, Registrar!Init
<1>2. NamesType /\ NamesInv /\ [Next]_vars => [Registrar!Next]_rvars
  <2> SUFFICES ASSUME NamesType, NamesInv, [Next]_vars
               PROVE  Registrar!NewConfig \/ Registrar!HandOver
                        \/ Registrar!Restart \/ UNCHANGED rvars
    BY DEF Registrar!Next
  <2>1. CASE WriteConfig
    BY <2>1 DEF WriteConfig, NamesType, NamesInv, worldVars, Registrar!NewConfig
  <2>2. CASE WritePending
    BY <2>2 DEF WritePending, NamesType, NamesInv, worldVars, Registrar!HandOver
  <2>3. CASE Apply
    BY <2>3 DEF Apply, StartGluetun, Registrar!Restart
  <2>4. CASE RestartFails
    BY <2>4 DEF RestartFails, StartGluetun, worldVars, Registrar!Restart
  <2>5. CASE Reload
    BY <2>5 DEF Reload, StartGluetun, diskVars, Registrar!Restart
  <2>6. ASSUME \/ Tick \/ Horizon \/ Evict \/ Connect \/ Adopt \/ Startup
               \/ Crash \/ HealthyTick \/ UnhealthyTick \/ RecoverTick
               \/ ProactiveFire \/ GenerateOK \/ UNCHANGED vars
        PROVE  UNCHANGED rvars
    BY <2>6 DEF Tick, Horizon, Evict, Connect, Adopt, Startup, Crash,
         HealthyTick, UnhealthyTick, RecoverTick, ProactiveFire, GenerateOK,
         vars, diskVars, worldVars
  <2>7. ASSUME \/ GenerateFails \/ WriteConfigFails \/ RecordBirth
               \/ WritePendingFails \/ Retry \/ GiveUp
        PROVE  UNCHANGED rvars
    BY <2>7 DEF GenerateFails, WriteConfigFails, RecordBirth,
         WritePendingFails, Retry, GiveUp, diskVars, worldVars
  <2> QED BY <2>1, <2>2, <2>3, <2>4, <2>5, <2>6, <2>7 DEF Next
<1> QED BY <1>1, <1>2, TypeCorrect, NamesAreNatural, NamesInvAlways, PTL
        DEF Spec, RegistrarSpec, Registrar!Spec

-----------------------------------------------------------------------------
(* Why an idle loop without an error has applied its config: gluetun is    *)
(* restarted only after the metadata of the same attempt was written, only *)
(* an error leads to the backoff, and a daemon that may adopt what it      *)
(* finds has never crashed, so it finds no config when it starts.          *)
AppliedInv ==
  /\ IdleMeansApplied
  /\ pc = "apply" /\ PortForwarding => pendingPF = started
  /\ pc = "sleep" => regenError
  /\ AdoptHealthy /\ pc = "down" => configReg = 0

(* AppliedInv holds in every reachable state when nothing crashes, or      *)
(* nothing is adopted.                                                     *)
LEMMA AppliedInvAlways ==
  ASSUME "crash" \notin Faults \/ ~AdoptHealthy PROVE Spec => []AppliedInv
<1>1. Init => AppliedInv
  BY DEF Init, AppliedInv, IdleMeansApplied
<1>2. NamesInv /\ AppliedInv /\ [Next]_vars => AppliedInv'
  <2> SUFFICES ASSUME NamesInv, AppliedInv, [Next]_vars PROVE AppliedInv'
    OBVIOUS
  <2>1. CASE Tick
    BY <2>1
    DEF Tick, NamesInv, AppliedInv, IdleMeansApplied, loopVars, diskVars,
        recordVars, worldVars
  <2>2. CASE Horizon
    BY <2>2
    DEF Horizon, vars, NamesInv, AppliedInv, IdleMeansApplied, loopVars,
        diskVars, recordVars, worldVars
  <2>3. CASE Evict
    BY <2>3
    DEF Evict, NamesInv, AppliedInv, IdleMeansApplied, loopVars, diskVars,
        recordVars, worldVars
  <2>4. CASE Connect
    BY <2>4
    DEF Connect, NamesInv, AppliedInv, IdleMeansApplied, loopVars, diskVars,
        recordVars, worldVars
  <2>5. CASE Reload
    BY <2>5
    DEF Reload, StartGluetun, NamesInv, AppliedInv, IdleMeansApplied,
        loopVars, diskVars, recordVars, worldVars
  <2>6. CASE Adopt
    BY <2>6
    DEF Adopt, Adoptable, NamesInv, AppliedInv, IdleMeansApplied, loopVars, diskVars,
        recordVars, worldVars
  <2>7. CASE Startup
    BY <2>7
    DEF Startup, BeginAttempt, NamesInv, AppliedInv, IdleMeansApplied,
        loopVars, diskVars, recordVars, worldVars
  <2>8. CASE Crash
    BY <2>8
    DEF Crash, NamesInv, AppliedInv, IdleMeansApplied, loopVars, diskVars,
        recordVars, worldVars
  <2>9. CASE HealthyTick
    BY <2>9
    DEF HealthyTick, NamesInv, AppliedInv, IdleMeansApplied, loopVars,
        diskVars, recordVars, worldVars
  <2>10. CASE UnhealthyTick
    BY <2>10
    DEF UnhealthyTick, NamesInv, AppliedInv, IdleMeansApplied, loopVars,
        diskVars, recordVars, worldVars
  <2>11. CASE RecoverTick
    BY <2>11
    DEF RecoverTick, BeginAttempt, RecordLossIfMeasurable, NamesInv,
        AppliedInv, IdleMeansApplied, loopVars, diskVars,
        recordVars, worldVars
  <2>12. CASE ProactiveFire
    BY <2>12
    DEF ProactiveFire, BeginAttempt, NamesInv, AppliedInv, IdleMeansApplied,
        loopVars, diskVars, recordVars, worldVars
  <2>13. CASE GenerateOK
    BY <2>13
    DEF GenerateOK, NamesInv, AppliedInv, IdleMeansApplied, loopVars,
        diskVars, recordVars, worldVars
  <2>14. CASE GenerateFails
    BY <2>14
    DEF GenerateFails, FailAttempt, NamesInv, AppliedInv, IdleMeansApplied,
        loopVars, diskVars, recordVars, worldVars
  <2>15. CASE WriteConfig
    BY <2>15
    DEF WriteConfig, NamesInv, AppliedInv, IdleMeansApplied, loopVars,
        diskVars, recordVars, worldVars
  <2>16. CASE WriteConfigFails
    BY <2>16
    DEF WriteConfigFails, FailAttempt, NamesInv, AppliedInv,
        IdleMeansApplied, loopVars, diskVars, recordVars,
        worldVars
  <2>17. CASE RecordBirth
    BY <2>17
    DEF RecordBirth, NamesInv, AppliedInv, IdleMeansApplied, loopVars,
        diskVars, recordVars, worldVars
  <2>18. CASE WritePending
    BY <2>18
    DEF WritePending, NamesInv, AppliedInv, IdleMeansApplied, loopVars,
        diskVars, recordVars, worldVars
  <2>19. CASE WritePendingFails
    BY <2>19
    DEF WritePendingFails, FailAttempt, NamesInv, AppliedInv,
        IdleMeansApplied, loopVars, diskVars, recordVars,
        worldVars
  <2>20. CASE Apply
    BY <2>20
    DEF Apply, StartGluetun, ReturnToLoop, NamesInv, AppliedInv,
        IdleMeansApplied, loopVars, diskVars, recordVars,
        worldVars
  <2>21. CASE RestartFails
    BY <2>21
    DEF RestartFails, StartGluetun, FailAttempt, NamesInv, AppliedInv, IdleMeansApplied,
        loopVars, diskVars, recordVars, worldVars
  <2>22. CASE Retry
    BY <2>22
    DEF Retry, BeginAttempt, NamesInv, AppliedInv, IdleMeansApplied,
        loopVars, diskVars, recordVars, worldVars
  <2>23. CASE GiveUp
    BY <2>23
    DEF GiveUp, ReturnToLoop, NamesInv, AppliedInv, IdleMeansApplied,
        loopVars, diskVars, recordVars, worldVars
  <2>24. CASE UNCHANGED vars
    BY <2>24 DEF vars, NamesInv, AppliedInv, IdleMeansApplied, loopVars, diskVars,
        recordVars, worldVars
  <2> QED BY <2>1, <2>2, <2>3, <2>4, <2>5, <2>6, <2>7, <2>8, <2>9, <2>10, <2>11,
         <2>12, <2>13, <2>14, <2>15, <2>16, <2>17, <2>18, <2>19, <2>20,
         <2>21, <2>22, <2>23, <2>24
      DEF Next
<1> QED BY <1>1, <1>2, NamesInvAlways, PTL DEF Spec

(* While the daemon does not crash, or does not adopt what it finds after  *)
(* a crash, over all retries and partial failures: a loop that waits       *)
(* without an error has gluetun running wg0.conf and the pf daemon holding *)
(* its metadata.                                                           *)
THEOREM IdleAlwaysApplied ==
  ASSUME "crash" \notin Faults \/ ~AdoptHealthy
  PROVE  Spec => []IdleMeansApplied
<1>1. AppliedInv => IdleMeansApplied
  BY DEF AppliedInv
<1> QED BY <1>1, AppliedInvAlways, PTL
-----------------------------------------------------------------------------
(* The variables that hold a time, and those that are compared with one.   *)
TimesType ==
  /\ now \in Nat \ {0} /\ wakeAt \in Nat /\ started \in Nat
  /\ nextRefresh \in Int /\ timer \in Int /\ ticker \in Nat
  /\ configReg \in Nat /\ birth \in Nat /\ running \in Nat
  /\ deadSince \in Nat /\ lastHealthy \in Nat /\ lastRecovery \in Nat
  /\ lastMint \in Nat /\ recsSinceHealthy \in Nat
  /\ ineffectiveRecoveries \in Nat /\ consecutiveUnhealth \in Nat
  /\ recoveryCount \in Nat
  /\ observed \in Lifetimes

(* The part of the type invariant that this module rests on. *)
LEMMA TimesAreNumbers == TypeOK => TimesType
BY DEF TypeOK, LoopType, HealthType, RecType, TimerType, DiskType, WorldType,
       HistType, TimesType, Lifetimes

(* What the timer is armed to when the birth is known: not before the      *)
(* cadence less half of the jitter, not within a minute, and after the     *)
(* cadence and half of the jitter only because of that minute.             *)
LEMMA ArmTimerBounds ==
  ASSUME TimesType, birth # 0, ArmTimer(birth, observed)
  PROVE  /\ nextRefresh' = timer' /\ timer' \in Int
         /\ timer' >= now + OneMinute
         /\ timer' >= birth + SafeRefreshInterval(observed)
                        - (RefreshJitter \div 2)
         /\ \/ timer' = now + OneMinute
            \/ timer' <= birth + SafeRefreshInterval(observed) + RefreshJitter
<1>1. PICK d \in NextProactiveDelays(birth, observed, now) :
        nextRefresh' = now + d /\ timer' = now + d
  BY DEF ArmTimer
<1>2. PICK i \in ApplyJitter(SafeRefreshInterval(observed)) :
        d = AtLeast(birth + i - now, OneMinute)
  BY <1>1 DEF NextProactiveDelays
<1>3. SafeRefreshInterval(observed) \in Nat
  BY SafeRefreshIntervalBounds DEF TimesType
<1>4. /\ i \in Int
      /\ 2 * i <= 2 * SafeRefreshInterval(observed) + RefreshJitter
      /\ 2 * i >= 2 * SafeRefreshInterval(observed) - RefreshJitter
  BY <1>3, JitterBounds
<1>5. RefreshJitter \in Nat /\ OneMinute \in Nat \ {0}
  BY LifetimeAssumption
<1>6. i >= SafeRefreshInterval(observed) - (RefreshJitter \div 2)
  BY <1>3, <1>4, <1>5
<1>7. i <= SafeRefreshInterval(observed) + RefreshJitter
  BY <1>3, <1>4, <1>5
<1> QED BY <1>1, <1>2, <1>3, <1>4, <1>5, <1>6, <1>7 DEF AtLeast, TimesType

(* Reading the ticker's channel puts its next tick at most an interval     *)
(* away, and exactly an interval away when the tick was read in time.      *)
LEMMA TickerBounds ==
  ASSUME TimesType, ReadTicker
  PROVE  /\ ticker' \in Nat
         /\ ticker' > now /\ ticker' <= now + HealthInterval
         /\ now = ticker => ticker' = ticker + HealthInterval
<1> DEFINE q == (now - ticker) \div HealthInterval
<1>1. /\ now \in Nat /\ ticker \in Nat /\ now - ticker \in Nat
      /\ HealthInterval \in Nat \ {0}
  BY RefreshAssumption DEF TimesType, ReadTicker
<1>2. q \in Nat
  BY <1>1
<1>3. HealthInterval * q <= now - ticker /\ now - ticker < HealthInterval * q + HealthInterval
  BY <1>1
<1>4. HealthInterval * (q + 1) = HealthInterval * q + HealthInterval
  BY <1>1, <1>2
<1>5. HealthInterval * q \in Nat
  BY <1>1, <1>2
<1>6. ticker' = ticker + HealthInterval * q + HealthInterval
  BY <1>1, <1>4, <1>5 DEF ReadTicker
<1>7. now = ticker => HealthInterval * q = 0
  BY <1>1, <1>3, <1>5
<1> HIDE DEF q
<1> QED BY <1>1, <1>3, <1>5, <1>6, <1>7

(* A sample is healthy only while the tunnel is up, when the public IP can *)
(* be read.                                                                *)
LEMMA HealthyMeansUp ==
  ASSUME "blind" \notin Faults, TRUE \in Samples
  PROVE  tunnel = "up"
<1>1. PICK a \in Answers(tunnel = "up", "flap" \in Faults, "blind" \in Faults) :
        CheckTunnel(a) = TRUE
  BY Zenon DEF Samples
<1>2. a.ip # "empty"
  BY <1>1 DEF CheckTunnel
<1>3. /\ a \in [vpn : StatusAnswers, openvpn : StatusAnswers, ip : IPAnswers]
      /\ a.ip = "error" => "blind" \in Faults
      /\ a.ip = "present" => tunnel = "up"
  BY <1>1, Zenon DEF Answers
<1>4. a.ip \in {"present", "empty", "error"}
  BY <1>3 DEF IPAnswers
<1> QED BY <1>2, <1>3, <1>4

-----------------------------------------------------------------------------
(* How long an attempt has been going on at each of its steps: only its    *)
(* two calls take time.  There is a trigger only during one.               *)
CallInv ==
  /\ pc \in {"down", "select"} => trigger = "none"
  /\ pc = "generate" =>
       /\ started <= now /\ now <= wakeAt
       /\ started + MinCall <= wakeAt /\ wakeAt <= started + MaxCall
  /\ pc \in {"write", "record", "pending"} =>
       started + MinCall <= now /\ now <= started + MaxCall
  /\ pc = "apply" =>
       /\ started + MinCall <= now /\ now <= wakeAt
       /\ wakeAt <= started + 2 * MaxCall
  /\ pc = "sleep" => started <= now

(* Every step keeps CallInv. *)
LEMMA CallStep ==
  ASSUME TimesType, CallInv, [Next]_vars
  PROVE  CallInv'
<1> USE DEF CallInv, TimesType
<1>0. MinCall \in Nat /\ MaxCall \in Nat /\ MinCall <= MaxCall
  BY RefreshAssumption
<1>1. CASE Tick
  BY <1>0, <1>1 DEF Tick, Waiting, loopVars
<1>2. CASE \/ UNCHANGED vars \/ Horizon \/ Evict \/ Connect \/ Reload
           \/ HealthyTick \/ UnhealthyTick
  <2>1. UNCHANGED <<now, loopVars>>
    BY <1>2 DEF Horizon, Evict, Connect, Reload, HealthyTick, UnhealthyTick,
                vars
  <2> QED BY <1>0, <2>1 DEF loopVars
<1>3. CASE Startup \/ RecoverTick \/ ProactiveFire \/ Retry
  <2>1. /\ pc' = "generate" /\ started' = now /\ now' = now
        /\ wakeAt' \in (now + MinCall)..(now + MaxCall)
    BY <1>3 DEF Startup, RecoverTick, ProactiveFire, Retry, BeginAttempt
  <2> QED BY <1>0, <2>1
<1>4. CASE GenerateOK
  BY <1>0, <1>4 DEF GenerateOK
<1>5. CASE WriteConfig
  BY <1>0, <1>5 DEF WriteConfig
<1>6. CASE RecordBirth
  BY <1>0, <1>6 DEF RecordBirth
<1>7. CASE WritePending
  BY <1>0, <1>7 DEF WritePending
<1>8. CASE Adopt \/ Crash \/ Apply \/ GiveUp
  <2>1. pc' \in {"down", "select"} /\ trigger' = "none"
    BY <1>8 DEF Adopt, Crash, Apply, GiveUp, ReturnToLoop
  <2> QED BY <2>1
<1>9. CASE GenerateFails \/ WriteConfigFails \/ WritePendingFails \/ RestartFails
  <2>1. /\ pc \in {"generate", "write", "pending", "apply"} /\ pc' = "sleep"
        /\ UNCHANGED <<now, started>>
    BY <1>9 DEF GenerateFails, WriteConfigFails, WritePendingFails,
                RestartFails, FailAttempt
  <2> QED BY <1>0, <2>1
<1> QED
  BY <1>1, <1>2, <1>3, <1>4, <1>5, <1>6, <1>7, <1>8, <1>9 DEF Next

(* CallInv holds in every reachable state. *)
LEMMA CallInvAlways == Spec => []CallInv
<1>1. Init => CallInv
  BY DEF Init, CallInv
<1>2. TypeOK /\ CallInv /\ [Next]_vars => CallInv'
  BY CallStep, TimesAreNumbers
<1> QED BY <1>1, <1>2, TypeCorrect, PTL DEF Spec

-----------------------------------------------------------------------------
(* A record that a loss has changed ends with that registration's age. *)
LEMMA LossIsAppended ==
  ASSUME NEW obs \in Lifetimes, NEW birthTime \in Nat, NEW t \in Nat,
         NEW next, next = RecordObservedLoss(birthTime, obs, t), next # obs
  PROVE  birthTime # 0 /\ next[Len(next)] = t - birthTime
<1>1. ~(birthTime = 0 \/ t - birthTime <= 0)
  BY DEF RecordObservedLoss
<1>2. t - birthTime \in Nat \ {0}
  BY <1>1
<1>3. CASE Len(obs) < MaxObserved
  <2>1. next = Append(obs, t - birthTime)
    BY <1>1, <1>3 DEF RecordObservedLoss
  <2> QED BY <1>1, <1>2, <2>1 DEF Lifetimes
<1>4. CASE ~(Len(obs) < MaxObserved)
  <2>1. next = Append(Tail(obs), t - birthTime)
    BY <1>1, <1>4 DEF RecordObservedLoss
  <2>2. obs # << >> /\ Tail(obs) \in Lifetimes
    BY <1>4, LifetimeAssumption DEF Lifetimes
  <2> QED BY <1>1, <1>2, <2>1, <2>2 DEF Lifetimes
<1> QED BY <1>3, <1>4

(* The recorded birth is not earlier than that of the registration gluetun *)
(* runs, but between the write of wg0.conf and that of the record.  This   *)
(* needs that no crash separates the two writes, or that nothing but the   *)
(* daemon makes gluetun load wg0.conf.                                     *)
BirthInv ==
  /\ pc \in {"pending", "apply"} => birth = configReg
  /\ pc # "record" => running <= birth
  /\ "crash" \notin Faults /\ pc # "record" => birth = configReg
  /\ "reload" \notin Faults => running <= birth

(* Every step keeps BirthInv. *)
LEMMA BirthStep ==
  ASSUME "record" \notin Faults, "crash" \notin Faults \/ "reload" \notin Faults,
         TimesType, NamesInv, BirthInv, [Next]_vars
  PROVE  BirthInv'
<1> USE DEF BirthInv, NamesInv, TimesType
<1>1. CASE \/ UNCHANGED vars \/ Tick \/ Horizon \/ Evict \/ Connect
           \/ HealthyTick \/ UnhealthyTick
  <2>1. UNCHANGED <<pc, configReg, birth, running>>
    BY <1>1 DEF vars, Tick, Horizon, Evict, Connect, HealthyTick,
                UnhealthyTick, loopVars, diskVars, recordVars, worldVars
  <2> QED BY <2>1
<1>2. CASE \/ Adopt \/ Startup \/ RecoverTick \/ ProactiveFire
           \/ Retry \/ GenerateOK \/ GenerateFails \/ WriteConfigFails
           \/ WritePendingFails \/ GiveUp
  <2>1. /\ pc # "record" /\ pc' \notin {"record", "pending", "apply"}
        /\ UNCHANGED <<configReg, birth, running>>
    BY <1>2 DEF Adopt, Startup, RecoverTick, ReadTicker, BeginAttempt,
                RecordLossIfMeasurable, ProactiveFire, Retry, GenerateOK,
                GenerateFails, WriteConfigFails, WritePendingFails,
                FailAttempt, GiveUp, ReturnToLoop, diskVars, recordVars,
                worldVars
  <2> QED BY <2>1
<1>3. CASE Reload
  BY <1>3 DEF Reload, StartGluetun, loopVars, diskVars, recordVars
<1>4. CASE WriteConfig
  BY <1>4 DEF WriteConfig, recordVars, worldVars
<1>5. CASE RecordBirth
  BY <1>5 DEF RecordBirth, worldVars
<1>6. CASE WritePending
  BY <1>6 DEF WritePending, recordVars, worldVars
<1>7. CASE RestartFails
  BY <1>7 DEF RestartFails, StartGluetun, FailAttempt, recordVars, worldVars
<1>8. CASE Apply
  BY <1>8 DEF Apply, StartGluetun, ReturnToLoop, recordVars
<1>9. CASE Crash
  BY <1>9 DEF Crash, diskVars, recordVars, worldVars
<1> QED
  BY <1>1, <1>2, <1>3, <1>4, <1>5, <1>6, <1>7, <1>8, <1>9 DEF Next

(* BirthInv holds in every reachable state. *)
LEMMA BirthInvAlways ==
  ASSUME "record" \notin Faults, "crash" \notin Faults \/ "reload" \notin Faults
  PROVE  Spec => []BirthInv
<1>1. Init => BirthInv
  BY DEF Init, BirthInv
<1>2. TypeOK /\ NamesInv /\ BirthInv /\ [Next]_vars => BirthInv'
  BY BirthStep, TimesAreNumbers
<1> QED BY <1>1, <1>2, TypeCorrect, NamesInvAlways, PTL DEF Spec

(* The last healthy sample is not later than the eviction. *)
SampleInv ==
  /\ lastHealthy <= now
  /\ tunnel = "dead" => lastHealthy <= deadSince

(* Every step keeps SampleInv. *)
LEMMA SampleStep ==
  ASSUME "blind" \notin Faults, TimesType, SampleInv, [Next]_vars
  PROVE  SampleInv'
<1> USE DEF SampleInv, TimesType
<1>1. CASE Tick
  BY <1>1 DEF Tick, healthVars, worldVars
<1>2. CASE Evict \/ Connect
  BY <1>2 DEF Evict, Connect, healthVars
<1>3. CASE Reload
  BY <1>3 DEF Reload, StartGluetun, healthVars
<1>4. CASE Adopt \/ HealthyTick
  <2>1. tunnel = "up"
    BY <1>4, HealthyMeansUp DEF Adopt, HealthyTick
  <2>2. lastHealthy' = now /\ UNCHANGED <<now, tunnel>>
    BY <1>4, Zenon DEF Adopt, HealthyTick, ObserveHealthy, worldVars
  <2> QED BY <2>1, <2>2
<1>5. CASE Crash
  BY <1>5 DEF Crash, worldVars
<1>6. CASE Apply
  BY <1>6 DEF Apply, StartGluetun, NoteRecovery, healthVars
<1>7. CASE RestartFails
  BY <1>7 DEF RestartFails, StartGluetun, FailAttempt, healthVars, worldVars
<1>8. CASE \/ UNCHANGED vars \/ Horizon \/ UnhealthyTick \/ RecoverTick
           \/ Startup \/ ProactiveFire \/ Retry \/ GenerateOK
           \/ GenerateFails \/ WriteConfig \/ WriteConfigFails
           \/ RecordBirth \/ WritePending \/ WritePendingFails \/ GiveUp
  <2>1. UNCHANGED <<now, lastHealthy, tunnel, deadSince>>
    BY <1>8 DEF vars, Horizon, UnhealthyTick, RecoverTick, Startup,
                ProactiveFire, Retry, GenerateOK, GenerateFails, WriteConfig,
                WriteConfigFails, RecordBirth, WritePending,
                WritePendingFails, GiveUp, FailAttempt, healthVars, worldVars
  <2> QED BY <2>1
<1> QED
  BY <1>1, <1>2, <1>3, <1>4, <1>5, <1>6, <1>7, <1>8 DEF Next

(* refresh.go:577, a recorded lifetime "can only err on the safe, shorter  *)
(* side", whichever calls fail and wherever evictions fall.  Three faults  *)
(* are excluded because the code has no defence: a birth that could not be *)
(* saved, a health check that cannot see the eviction, and a crash between *)
(* the config and its record when something else then restarts gluetun.    *)
THEOREM LossAlwaysConservative ==
  ASSUME "record" \notin Faults, "blind" \notin Faults,
         "crash" \notin Faults \/ "reload" \notin Faults
  PROVE  Spec => LossIsConservative
<1>1. Init => SampleInv
  BY DEF Init, SampleInv
<1>2. TypeOK /\ SampleInv /\ [Next]_vars => SampleInv'
  BY SampleStep, TimesAreNumbers
<1>3. TypeOK /\ BirthInv /\ SampleInv /\ [Next]_vars =>
        [observed' # observed /\ observed' # << >> =>
           observed'[Len(observed')] <= TrueLifetime]_vars
  <2> SUFFICES ASSUME TypeOK, BirthInv, SampleInv, Next, observed' # observed
               PROVE  observed'[Len(observed')] <= TrueLifetime
    OBVIOUS
  <2>1. RecoverTick
    BY DEF Next, Tick, Horizon, vars, Evict, Connect, Reload, Adopt, Startup,
           Crash, HealthyTick, UnhealthyTick, ProactiveFire, GenerateOK,
           GenerateFails, WriteConfig, WriteConfigFails, RecordBirth,
           WritePending, WritePendingFails, Apply, RestartFails, Retry,
           GiveUp, diskVars, recordVars
  <2>2. /\ pc = "select"
        /\ observed' = RecordObservedLoss(birth, observed, lastHealthy)
    BY <2>1 DEF RecoverTick, ReadTicker, RecordLossIfMeasurable
  <2>3. TimesType
    BY TimesAreNumbers
  <2>4. birth # 0 /\ observed'[Len(observed')] = lastHealthy - birth
    BY <2>2, <2>3, LossIsAppended DEF TimesType
  <2> QED BY <2>2, <2>3, <2>4 DEF BirthInv, SampleInv, TrueLifetime,
                                TimesType
<1>4. Spec => []BirthInv
  BY BirthInvAlways
<1> QED BY <1>1, <1>2, <1>3, <1>4, TypeCorrect, PTL
        DEF Spec, LossIsConservative

-----------------------------------------------------------------------------
(* Why a tunnel that is not the one of wg0.conf is not kept for long: only *)
(* an adoption after a crash keeps it, within the cadence by more than a   *)
(* health interval, and the timer is armed at most once more, by the first *)
(* tick: at the second the birth is more than two health intervals old.    *)
MismatchInv ==
  /\ pc = "sleep" => regenError
  /\ pc = "down" => birth < wakeAt
  /\ pc = "select" /\ ~regenError /\ running # configReg =>
       /\ birth # 0 /\ birth < now
       /\ nextRefresh > birth + OneMinute
       /\ now <= timer
       /\ timer < birth + SafeRefreshInterval(observed) + RefreshJitter + OneMinute
       /\ now <= ticker /\ ticker > birth + HealthInterval
       /\ \/ ticker < birth + SafeRefreshInterval(observed)
          \/ ticker > birth + 2 * HealthInterval

(* A health tick that starts nothing keeps MismatchInv. *)
LEMMA MismatchTick ==
  ASSUME TimesType, MismatchInv, ReadTicker,
         Rearm(nextRefresh, birth, observed),
         UNCHANGED <<now, loopVars, regenError, running, configReg, birth,
                     observed>>
  PROVE  MismatchInv'
<1>1. /\ HealthInterval \in Nat \ {0} /\ OneMinute \in Nat \ {0}
      /\ RefreshJitter \in Nat /\ SafeRefreshInterval(observed) \in Nat
  BY RefreshAssumption, LifetimeAssumption, SafeRefreshIntervalBounds
     DEF TimesType
<1>2. pc = "select" /\ pc' = "select" /\ now >= ticker
  BY DEF ReadTicker, loopVars
<1>3. /\ ticker' > now /\ ticker' \in Nat
      /\ now = ticker => ticker' = ticker + HealthInterval
  BY TickerBounds
<1> SUFFICES ASSUME ~regenError, running # configReg
             PROVE  /\ nextRefresh' > birth + OneMinute
                    /\ now <= timer'
                    /\ timer' < birth + SafeRefreshInterval(observed)
                                  + RefreshJitter + OneMinute
                    /\ now <= ticker' /\ ticker' > birth + HealthInterval
                    /\ \/ ticker' < birth + SafeRefreshInterval(observed)
                       \/ ticker' > birth + 2 * HealthInterval
  BY <1>2 DEF MismatchInv
<1>4. /\ birth # 0 /\ birth < now
      /\ nextRefresh > birth + OneMinute
      /\ now <= timer
      /\ timer < birth + SafeRefreshInterval(observed) + RefreshJitter + OneMinute
      /\ now = ticker /\ ticker > birth + HealthInterval
      /\ \/ ticker < birth + SafeRefreshInterval(observed)
         \/ ticker > birth + 2 * HealthInterval
  BY <1>2 DEF MismatchInv, TimesType
<1>5. ticker' > birth + 2 * HealthInterval
  BY <1>1, <1>3, <1>4 DEF TimesType
<1>6. CASE TimerKept(nextRefresh, birth)
  BY <1>1, <1>3, <1>4, <1>5, <1>6 DEF Rearm, TimesType
<1>7. CASE ~TimerKept(nextRefresh, birth)
  <2>1. now < birth + SafeRefreshInterval(observed)
    BY <1>1, <1>4, <1>7 DEF TimerKept, TimesType
  <2>2. ArmTimer(birth, observed)
    BY <1>7 DEF Rearm
  <2>3. /\ nextRefresh' = timer' /\ timer' \in Int
        /\ timer' >= now + OneMinute
        /\ \/ timer' = now + OneMinute
           \/ timer' <= birth + SafeRefreshInterval(observed) + RefreshJitter
    BY <1>4, <2>2, ArmTimerBounds
  <2> QED BY <1>1, <1>3, <1>4, <1>5, <2>1, <2>3 DEF TimesType
<1> QED BY <1>6, <1>7

(* Every step keeps MismatchInv. *)
LEMMA MismatchStep ==
  ASSUME TimesType, NamesInv, MismatchInv, [Next]_vars
  PROVE  MismatchInv'
<1>1. CASE Tick
  BY <1>1 DEF Tick, Waiting, MismatchInv, TimesType, loopVars, timerVars,
              diskVars, recordVars, worldVars
<1>2. CASE UNCHANGED vars \/ Horizon
  BY <1>2 DEF Horizon, vars, MismatchInv, loopVars, timerVars, diskVars,
              recordVars, worldVars
<1>3. CASE Evict \/ Connect
  BY <1>3 DEF Evict, Connect, MismatchInv, loopVars, timerVars, diskVars,
              recordVars
<1>4. CASE Reload
  BY <1>4 DEF Reload, StartGluetun, MismatchInv, loopVars, diskVars,
              recordVars
<1>5. CASE Adopt
  <2>1. /\ HealthInterval \in Nat \ {0} /\ OneMinute \in Nat \ {0}
        /\ RefreshJitter \in Nat /\ SafeRefreshInterval(observed) \in Nat
    BY RefreshAssumption, LifetimeAssumption, SafeRefreshIntervalBounds
       DEF TimesType
  <2>2. /\ birth # 0 /\ birth < now
        /\ now - birth < SafeRefreshInterval(observed) - HealthInterval
    BY <1>5 DEF Adopt, Adoptable, MismatchInv, TimesType
  <2>3. /\ nextRefresh' = timer' /\ timer' \in Int
        /\ timer' >= now + OneMinute
        /\ \/ timer' = now + OneMinute
           \/ timer' <= birth + SafeRefreshInterval(observed) + RefreshJitter
    BY <1>5, <2>2, ArmTimerBounds DEF Adopt
  <2>4. /\ pc' = "select" /\ ticker' = now + HealthInterval
        /\ UNCHANGED <<now, birth, observed>>
    BY <1>5 DEF Adopt, recordVars
  <2> QED BY <2>1, <2>2, <2>3, <2>4 DEF MismatchInv, TimesType
<1>6. CASE HealthyTick
  BY <1>6, MismatchTick DEF HealthyTick, recordVars, worldVars
<1>7. CASE UnhealthyTick
  BY <1>7, MismatchTick DEF UnhealthyTick, recordVars, worldVars
<1>8. CASE Crash
  BY <1>8 DEF Crash, MismatchInv, NamesInv, TimesType, diskVars, recordVars
<1>9. CASE Startup \/ RecoverTick \/ ProactiveFire \/ Retry
  <2>1. pc' = "generate"
    BY <1>9 DEF Startup, RecoverTick, ProactiveFire, Retry, BeginAttempt
  <2> QED BY <2>1 DEF MismatchInv
<1>10. CASE GenerateOK \/ WriteConfig \/ RecordBirth \/ WritePending
  <2>1. pc' \in {"write", "record", "pending", "apply"}
    BY <1>10 DEF GenerateOK, WriteConfig, RecordBirth, WritePending
  <2> QED BY <2>1 DEF MismatchInv
<1>11. CASE \/ GenerateFails \/ WriteConfigFails \/ WritePendingFails
            \/ RestartFails
  <2>1. pc' = "sleep" /\ regenError' = TRUE
    BY <1>11 DEF GenerateFails, WriteConfigFails, WritePendingFails,
                 RestartFails, FailAttempt
  <2> QED BY <2>1 DEF MismatchInv
<1>12. CASE Apply
  <2>1. pc' = "select" /\ running' = configReg /\ configReg' = configReg
    BY <1>12 DEF Apply, ReturnToLoop, StartGluetun
  <2> QED BY <2>1 DEF MismatchInv
<1>13. CASE GiveUp
  <2>1. pc' = "select" /\ regenError /\ regenError' = regenError
    BY <1>13 DEF GiveUp, ReturnToLoop, MismatchInv
  <2> QED BY <2>1 DEF MismatchInv
<1> QED
  BY <1>1, <1>2, <1>3, <1>4, <1>5, <1>6, <1>7, <1>8, <1>9, <1>10, <1>11,
     <1>12, <1>13 DEF Next

(* After a crash between the config and the restart tryAdopt may keep a    *)
(* tunnel that wg0.conf no longer describes; the loop never waits with it  *)
(* for a minute after the recorded registration is due, whatever else      *)
(* fails and for every choice of intervals.                                *)
THEOREM MismatchAlwaysBounded == Spec => []MismatchIsBounded
<1>1. Init => MismatchInv
  BY DEF Init, MismatchInv
<1>2. TypeOK /\ NamesInv /\ MismatchInv /\ [Next]_vars => MismatchInv'
  BY MismatchStep, TimesAreNumbers
<1>3. TypeOK /\ MismatchInv => MismatchIsBounded
  <2> SUFFICES ASSUME TypeOK, MismatchInv, pc = "select", ~regenError,
                      running # configReg
               PROVE  now - birth < SafeRefreshInterval(observed)
                                      + RefreshJitter + OneMinute
    BY DEF MismatchIsBounded
  <2>1. TimesType
    BY TimesAreNumbers
  <2>2. /\ OneMinute \in Nat /\ RefreshJitter \in Nat
        /\ SafeRefreshInterval(observed) \in Nat
    BY <2>1, LifetimeAssumption, SafeRefreshIntervalBounds DEF TimesType
  <2> QED BY <2>1, <2>2 DEF MismatchInv, TimesType
<1> QED BY <1>1, <1>2, <1>3, TypeCorrect, NamesInvAlways, PTL DEF Spec

-----------------------------------------------------------------------------
(* Why an attempt's name is new when registering takes time: nothing that  *)
(* is named when it begins is named after the present, and gluetun does    *)
(* not load the new config before the attempt itself restarts it.          *)
FreshInv ==
  /\ configReg < now
  /\ pc \in {"generate", "write"} => configReg < started
  /\ pc \in {"record", "pending", "apply"} => running < started

(* Every step keeps FreshInv. *)
LEMMA FreshStep ==
  ASSUME MinCall > 0, "answer" \notin Faults, "reload" \notin Faults,
         TimesType, NamesInv, CallInv, FreshInv, [Next]_vars
  PROVE  FreshInv'
<1> USE DEF FreshInv, TimesType
<1>1. CASE Tick
  BY <1>1 DEF Tick, loopVars, diskVars, worldVars
<1>2. CASE \/ UNCHANGED vars \/ Horizon \/ Evict \/ Connect \/ HealthyTick
           \/ UnhealthyTick
  <2>1. UNCHANGED <<now, loopVars, configReg, running>>
    BY <1>2 DEF Horizon, Evict, Connect, HealthyTick, UnhealthyTick, vars,
                diskVars, worldVars
  <2> QED BY <2>1 DEF loopVars
<1>3. CASE Reload
  BY <1>3 DEF Reload
<1>4. CASE Startup \/ RecoverTick \/ ProactiveFire \/ Retry
  <2>1. /\ pc' = "generate" /\ started' = now
        /\ UNCHANGED <<now, configReg, running>>
    BY <1>4 DEF Startup, RecoverTick, ProactiveFire, Retry, BeginAttempt,
                diskVars, worldVars
  <2> QED BY <2>1
<1>5. CASE GenerateOK
  BY <1>5 DEF GenerateOK, diskVars, worldVars
<1>6. CASE WriteConfig
  <2>1. MinCall \in Nat
    BY RefreshAssumption
  <2> QED BY <1>6, <2>1 DEF WriteConfig, CallInv, NamesInv, worldVars
<1>7. CASE RecordBirth \/ WritePending
  BY <1>7 DEF RecordBirth, WritePending, worldVars
<1>8. CASE \/ Adopt \/ Crash \/ GenerateFails \/ WriteConfigFails
           \/ WritePendingFails \/ RestartFails \/ Apply \/ GiveUp
  <2>1. pc' \in {"down", "select", "sleep"} /\ UNCHANGED <<now, configReg>>
    BY <1>8 DEF Adopt, Crash, GenerateFails, WriteConfigFails,
                WritePendingFails, RestartFails, FailAttempt, Apply, GiveUp,
                ReturnToLoop, diskVars
  <2> QED BY <2>1
<1> QED
  BY <1>1, <1>2, <1>3, <1>4, <1>5, <1>6, <1>7, <1>8 DEF Next

(* FreshInv holds in every reachable state. *)
LEMMA FreshInvAlways ==
  ASSUME MinCall > 0, "answer" \notin Faults, "reload" \notin Faults
  PROVE  Spec => []FreshInv
<1>1. Init => FreshInv
  BY DEF Init, FreshInv
<1>2. TypeOK /\ NamesInv /\ CallInv /\ FreshInv /\ [Next]_vars => FreshInv'
  BY FreshStep, TimesAreNumbers
<1> QED BY <1>1, <1>2, TypeCorrect, NamesInvAlways, CallInvAlways, PTL DEF Spec

-----------------------------------------------------------------------------
(* The recorded registration, when gluetun runs it or would load it, is    *)
(* due neither before the shortest cadence nor after its expected expiry.  *)
TimerFits ==
  \/ birth = 0
  \/ birth # running /\ birth # configReg
  \/ /\ timer >= birth + MinRefresh - (RefreshJitter \div 2)
     /\ TimerInTime

(* It holds while the loop waits, except in the two cases of               *)
(* TimerMayBeStale; a recovery that gives up has reported its error.       *)
YoungInv ==
  /\ pc = "select" => TimerFits \/ TimerMayBeStale
  /\ pc = "sleep" => regenError

(* A timer that was just armed is in time: half of the shortest lifetime   *)
(* plus half of the jitter window is at most that lifetime.                *)
LEMMA ArmedIsInTime ==
  ASSUME TimesType, birth # 0, ArmTimer(birth, observed),
         UNCHANGED <<now, birth, observed>>
  PROVE  TimerInTime'
<1> DEFINE m == MeasuredLifetime(observed)
<1> SUFFICES ASSUME observed # << >>, m >= AtLeast(2 * MinRefresh, RefreshJitter)
             PROVE  timer' <= AtLeast(ExpectedExpiry(birth, observed), now + OneMinute)
  BY DEF TimerInTime
<1>1. PICK i \in ApplyJitter(SafeRefreshInterval(observed)) :
        timer' = now + AtLeast(birth + i - now, OneMinute)
  BY DEF ArmTimer, NextProactiveDelays
<1>2. m \in Nat
  BY MeasuredLifetimeIsShortest DEF TimesType
<1>3. /\ MinRefresh \in Nat /\ RefreshJitter \in Nat /\ OneMinute \in Nat
      /\ m >= 2 * MinRefresh /\ m >= RefreshJitter
  BY <1>2, LifetimeAssumption DEF AtLeast
<1>4. /\ SafeRefreshInterval(observed) \in Nat
      /\ 2 * SafeRefreshInterval(observed) <= m
  BY <1>3, SafeRefreshIntervalBounds DEF TimesType
<1>5. i \in Int /\ 2 * i <= 2 * SafeRefreshInterval(observed) + RefreshJitter
  BY <1>4, JitterBounds
<1>6. i <= m
  BY <1>2, <1>3, <1>4, <1>5
<1>7. ExpectedExpiry(birth, observed) = birth + m
  BY DEF ExpectedExpiry
<1> QED BY <1>1, <1>2, <1>3, <1>5, <1>6, <1>7 DEF AtLeast, TimesType

(* A timer that was just armed fits. *)
LEMMA ArmedFits ==
  ASSUME TimesType, ArmTimer(birth, observed), UNCHANGED <<now, birth, observed>>
  PROVE  TimerFits'
<1>1. CASE birth = 0
  BY <1>1 DEF TimerFits
<1>2. CASE birth # 0
  <2>1. /\ SafeRefreshInterval(observed) \in Nat
        /\ SafeRefreshInterval(observed) >= MinRefresh
    BY SafeRefreshIntervalBounds DEF TimesType
  <2>2. /\ timer' \in Int
        /\ timer' >= birth + SafeRefreshInterval(observed)
                       - (RefreshJitter \div 2)
    BY <1>2, ArmTimerBounds
  <2>3. MinRefresh \in Nat /\ RefreshJitter \in Nat
        /\ RefreshJitter \div 2 \in Nat
    BY LifetimeAssumption
  <2>4. timer' >= birth' + MinRefresh - (RefreshJitter \div 2)
    BY <2>1, <2>2, <2>3 DEF TimesType
  <2> QED BY <1>2, <2>4, ArmedIsInTime DEF TimerFits
<1> QED BY <1>1, <1>2

(* A later floor admits whatever an earlier one does. *)
LEMMA AtLeastGrows ==
  ASSUME NEW x \in Int, NEW y \in Int, NEW z \in Int, NEW t \in Int,
         y <= z, t <= AtLeast(x, y)
  PROVE  t <= AtLeast(x, z)
BY DEF AtLeast

(* Time that passes leaves a timer in time. *)
LEMMA TickInTime ==
  ASSUME TimesType, TimerInTime, now' \in {now, now + 1},
         UNCHANGED <<timer, birth, observed>>
  PROVE  TimerInTime'
<1> SUFFICES ASSUME observed # << >>,
                    timer <= AtLeast(ExpectedExpiry(birth, observed), now + OneMinute)
             PROVE  timer' <= AtLeast(ExpectedExpiry(birth, observed), now' + OneMinute)
  BY DEF TimerInTime
<1>1. ExpectedExpiry(birth, observed) \in Nat /\ OneMinute \in Nat
  <2>1. MeasuredLifetime(observed) \in Nat
    BY MeasuredLifetimeIsShortest DEF TimesType
  <2>2. ExpectedExpiry(birth, observed) \in {0, birth + MeasuredLifetime(observed)}
    BY DEF ExpectedExpiry
  <2> QED BY <2>1, <2>2, LifetimeAssumption DEF TimesType
<1>2. timer' = timer /\ timer \in Int /\ now \in Nat
  BY DEF TimesType
<1>3. /\ now + OneMinute \in Int /\ now' + OneMinute \in Int
      /\ now + OneMinute <= now' + OneMinute
  <2>1. CASE now' = now
    BY <1>1, <1>2, <2>1
  <2>2. CASE now' = now + 1
    BY <1>1, <1>2, <2>2
  <2> QED BY <2>1, <2>2
<1> QED BY <1>1, <1>2, <1>3, AtLeastGrows

(* A tick keeps the timer, or arms it. *)
LEMMA TickFits ==
  ASSUME TimesType, TimerFits \/ TimerMayBeStale,
         Rearm(nextRefresh, birth, observed),
         UNCHANGED <<now, birth, observed, running, configReg, lastRecovery,
                     regenError>>
  PROVE  TimerFits' \/ TimerMayBeStale'
<1>1. CASE TimerKept(nextRefresh, birth)
  BY <1>1 DEF Rearm, TimerFits, TimerInTime, TimerMayBeStale
<1>2. CASE ~TimerKept(nextRefresh, birth)
  BY <1>2, ArmedFits DEF Rearm
<1> QED BY <1>1, <1>2

(* Every step keeps YoungInv. *)
LEMMA YoungStep ==
  ASSUME TimesType, NamesInv, YoungInv, [Next]_vars
  PROVE  YoungInv'
<1> USE DEF YoungInv
<1>1. CASE Tick \/ UNCHANGED vars \/ Horizon \/ Evict \/ Connect
  <2>1. /\ UNCHANGED <<pc, timer, birth, observed, running, configReg,
                       regenError, lastRecovery>>
        /\ now' \in {now, now + 1}
    BY <1>1 DEF Tick, Horizon, Evict, Connect, vars, loopVars, timerVars,
                diskVars, recordVars, recVars, worldVars
  <2>2. TimerInTime => TimerInTime'
    BY <2>1, TickInTime
  <2> QED BY <2>1, <2>2 DEF TimerFits, TimerMayBeStale
<1>2. CASE Reload
  <2>1. /\ UNCHANGED <<now, pc, timer, birth, observed, configReg, regenError,
                       lastRecovery>>
        /\ running' = configReg
    BY <1>2 DEF Reload, StartGluetun, loopVars, timerVars, diskVars,
                recordVars, recVars
  <2>2. TimerInTime => TimerInTime'
    BY <2>1 DEF TimerInTime
  <2> QED BY <2>1, <2>2 DEF TimerFits, TimerMayBeStale
<1>3. CASE Adopt
  BY <1>3, ArmedFits DEF Adopt, recordVars
<1>4. CASE HealthyTick \/ UnhealthyTick
  <2>1. /\ pc = "select" /\ pc' = "select"
        /\ Rearm(nextRefresh, birth, observed)
        /\ UNCHANGED <<now, birth, observed, running, configReg, lastRecovery,
                     regenError>>
    BY <1>4 DEF HealthyTick, UnhealthyTick, ReadTicker, loopVars, recordVars,
                recVars, worldVars
  <2> QED BY <2>1, TickFits
<1>5. CASE \/ RecoverTick \/ Startup \/ ProactiveFire \/ Crash \/ GenerateOK
           \/ WriteConfig \/ RecordBirth \/ WritePending \/ Retry
  <2>1. pc' \notin {"select", "sleep"}
    BY <1>5 DEF RecoverTick, Startup, ProactiveFire, Crash, GenerateOK,
                WriteConfig, RecordBirth, WritePending, Retry, BeginAttempt
  <2> QED BY <2>1
<1>6. CASE \/ GenerateFails \/ WriteConfigFails \/ WritePendingFails
           \/ RestartFails
  <2>1. pc' = "sleep" /\ regenError'
    BY <1>6 DEF GenerateFails, WriteConfigFails, WritePendingFails,
                RestartFails, FailAttempt
  <2> QED BY <2>1
<1>7. CASE Apply
  <2>1. /\ pc' = "select" /\ UNCHANGED <<now, birth, observed>>
        /\ configReg' = configReg /\ running' = configReg
    BY <1>7 DEF Apply, StartGluetun, ReturnToLoop, recordVars
  <2>2. CASE trigger # "reactive-recovery"
    BY <1>7, <2>1, <2>2, ArmedFits DEF Apply, ReturnToLoop
  <2>3. CASE trigger = "reactive-recovery"
    <3>1. PICK due : Rearm(due, birth, observed)
      BY <1>7, <2>3 DEF Apply, ReturnToLoop
    <3>2. CASE ~TimerKept(due, birth)
      BY <2>1, <3>1, <3>2, ArmedFits DEF Rearm
    <3>3. CASE TimerKept(due, birth)
      <4>1. birth = 0 \/ now - birth > 2 * HealthInterval
        BY <3>3 DEF TimerKept
      <4>2. lastRecovery' = now
        BY <1>7, <2>3 DEF Apply, NoteRecovery
      <4> QED BY <2>1, <4>1, <4>2 DEF TimerFits, TimerMayBeStale
    <3> QED BY <3>2, <3>3
  <2> QED BY <2>2, <2>3
<1>8. CASE GiveUp
  <2>1. regenError' = regenError /\ pc = "sleep"
    BY <1>8 DEF GiveUp
  <2> QED BY <2>1 DEF TimerMayBeStale
<1> QED
  BY <1>1, <1>2, <1>3, <1>4, <1>5, <1>6, <1>7, <1>8 DEF Next

(* YoungInv holds in every reachable state. *)
LEMMA YoungInvAlways == Spec => []YoungInv
<1>1. Init => YoungInv
  BY DEF Init, YoungInv
<1>2. TypeOK /\ NamesInv /\ YoungInv /\ [Next]_vars => YoungInv'
  BY YoungStep, TimesAreNumbers
<1> QED BY <1>1, <1>2, TypeCorrect, NamesInvAlways, PTL DEF Spec

(* refresh.go:338-340, as far as rearm keeps it: for every configuration,  *)
(* duration of calls and set of faults, a registration younger than the    *)
(* shortest cadence is replaced proactively only when the recovery that    *)
(* made it was longer than two health intervals or reported a failure.     *)
THEOREM YoungRegistrationAlwaysKept == Spec => YoungRegistrationKept
<1>1. TypeOK /\ CallInv /\ YoungInv /\ [Next]_vars =>
        [RefreshesEarly => TimerMayBeStale]_vars
  <2> SUFFICES ASSUME TypeOK, CallInv, YoungInv, Next, RefreshesEarly
               PROVE  TimerMayBeStale
    OBVIOUS
  <2>1. now >= timer
    BY DEF RefreshesEarly, CallInv, Next, Tick, Horizon, vars, Evict, Connect,
           Reload, Adopt, Startup, Crash, HealthyTick, UnhealthyTick,
           RecoverTick, ProactiveFire, GenerateOK, GenerateFails, WriteConfig,
           WriteConfigFails, RecordBirth, WritePending, WritePendingFails,
           Apply, RestartFails, Retry, GiveUp, BeginAttempt, ReturnToLoop,
           FailAttempt, loopVars
  <2>2. TimesType
    BY TimesAreNumbers
  <2>3. MinRefresh \in Nat /\ RefreshJitter \div 2 \in Nat
    BY LifetimeAssumption
  <2>4. ~TimerFits
    BY <2>1, <2>2, <2>3 DEF RefreshesEarly, TimerFits, TimesType
  <2> QED BY <2>4 DEF YoungInv, RefreshesEarly
<1> QED BY <1>1, TypeCorrect, CallInvAlways, YoungInvAlways,
           PTL DEF Spec, YoungRegistrationKept

(* For every configuration, jitter, duration of calls and set of faults,   *)
(* the timer of the registration gluetun runs is not after the expiry that *)
(* status.json expects, except in the same two cases.                      *)
THEOREM RefreshAlwaysBeforeExpiry == Spec => []RefreshBeforeExpiry
<1>1. YoungInv => RefreshBeforeExpiry
  BY DEF YoungInv, TimerFits, RefreshBeforeExpiry
<1> QED BY <1>1, YoungInvAlways, PTL

-----------------------------------------------------------------------------
(* The cooldowns after up to n ineffective recoveries. *)
Escalations(n) ==
  {h \in [0..n -> Nat] :
     /\ h[0] = AtMost(RecoveryCooldown, CooldownCap)
     /\ \A k \in 1..n : h[k] = AtMost(2 * h[k - 1], CooldownCap)}

(* There are such cooldowns for every n. *)
LEMMA EscalationsExist == \A n \in Nat : Escalations(n) # {}
<1> DEFINE S == {n \in Nat : Escalations(n) = {}}
<1> SUFFICES ASSUME S # {} PROVE FALSE
  OBVIOUS
<1>0. RecoveryCooldown \in Nat /\ CooldownCap \in Nat
  BY RefreshAssumption
<1>1. PICK m \in S : \A n \in S : m <= n
  BY NatMinimum
<1>2. CASE m = 0
  <2> DEFINE h == [k \in 0..0 |-> AtMost(RecoveryCooldown, CooldownCap)]
  <2>1. h \in Escalations(0)
    BY <1>0 DEF Escalations, AtMost
  <2> QED BY <1>1, <1>2, <2>1
<1>3. CASE m # 0
  <2>1. m \in Nat /\ m - 1 \in Nat /\ m - 1 \notin S
    BY <1>1, <1>3
  <2>2. PICK g : g \in Escalations(m - 1)
    BY <2>1
  <2>3. /\ g \in [0..(m - 1) -> Nat] /\ g[0] = AtMost(RecoveryCooldown, CooldownCap)
        /\ \A k \in 1..(m - 1) : g[k] = AtMost(2 * g[k - 1], CooldownCap)
    BY <2>2 DEF Escalations
  <2> DEFINE h == [k \in 0..m |-> IF k = m THEN AtMost(2 * g[m - 1], CooldownCap)
                                          ELSE g[k]]
  <2>4. g[m - 1] \in Nat
    BY <2>1, <2>3
  <2>5. h \in [0..m -> Nat]
    <3>1. ASSUME NEW k \in 0..m PROVE h[k] \in Nat
      BY <1>0, <2>1, <2>3, <2>4 DEF AtMost
    <3> QED BY <3>1
  <2>6. h[0] = AtMost(RecoveryCooldown, CooldownCap)
    BY <2>1, <2>3, <1>3
  <2>7. ASSUME NEW k \in 1..m PROVE h[k] = AtMost(2 * h[k - 1], CooldownCap)
    <3>1. k - 1 \in 0..m /\ k - 1 # m /\ k \in 0..m
      BY <2>1
    <3>2. h[k - 1] = g[k - 1]
      BY <3>1
    <3> QED BY <2>1, <2>3, <3>1, <3>2
  <2>8. h \in Escalations(m)
    BY <2>5, <2>6, <2>7 DEF Escalations
  <2> QED BY <1>1, <2>8
<1> QED BY <1>2, <1>3

(* Two of them agree where both are defined. *)
LEMMA EscalationsAgree ==
  ASSUME NEW m \in Nat, NEW n \in Nat, NEW g \in Escalations(m),
         NEW h \in Escalations(n), NEW k \in Nat, k <= m, k <= n
  PROVE  g[k] = h[k]
<1> DEFINE S == {j \in Nat : j <= m /\ j <= n /\ g[j] # h[j]}
<1> SUFFICES ASSUME S # {} PROVE FALSE
  OBVIOUS
<1>1. PICK i \in S : \A j \in S : i <= j
  BY NatMinimum
<1>2. g[0] = h[0]
  BY DEF Escalations
<1>3. i \in Nat /\ i # 0 /\ i - 1 \in Nat /\ i \in 1..m /\ i \in 1..n
  BY <1>1, <1>2
<1>4. i - 1 \notin S
  BY <1>1, <1>3
<1>5. g[i - 1] = h[i - 1]
  BY <1>3, <1>4
<1>6. g[i] = AtMost(2 * g[i - 1], CooldownCap) /\ h[i] = AtMost(2 * h[i - 1], CooldownCap)
  BY <1>3 DEF Escalations
<1> QED BY <1>1, <1>5, <1>6

(* The recursive definition of the cooldown defines it. *)
LEMMA CooldownDefined ==
  \A n \in Nat : EffectiveCooldown[n] =
    AtMost(IF n = 0 THEN RecoveryCooldown ELSE 2 * EffectiveCooldown[n - 1],
           CooldownCap)
<1> DEFINE E(n) == CHOOSE h : h \in Escalations(n)
           F == [n \in Nat |-> E(n)[n]]
           Def(f) == [n \in Nat |-> AtMost(IF n = 0 THEN RecoveryCooldown
                                                    ELSE 2 * f[n - 1], CooldownCap)]
<1>1. ASSUME NEW n \in Nat PROVE E(n) \in Escalations(n)
  BY EscalationsExist
<1> HIDE DEF E
<1>2. ASSUME NEW n \in Nat PROVE F[n] = Def(F)[n] 
  <2>1. CASE n = 0
    <3>1. E(0)[0] = AtMost(RecoveryCooldown, CooldownCap)
      BY <1>1 DEF Escalations
    <3> QED BY <2>1, <3>1
  <2>2. CASE n # 0
    <3>1. n - 1 \in Nat /\ n - 1 <= n /\ n \in 1..n
      BY <2>2
    <3>2. E(n)[n] = AtMost(2 * E(n)[n - 1], CooldownCap)
      BY <1>1, <3>1 DEF Escalations
    <3>3. E(n)[n - 1] = E(n - 1)[n - 1]
      BY <1>1, <3>1, EscalationsAgree
    <3> QED BY <2>2, <3>1, <3>2, <3>3
  <2> QED BY <2>1, <2>2
<1>3. F = Def(F)
  BY <1>2
<1>4. \E f : f = Def(f)
  BY <1>3
<1>5. EffectiveCooldown = CHOOSE f : f = Def(f)
  BY DEF EffectiveCooldown
<1>6. EffectiveCooldown = Def(EffectiveCooldown)
  BY <1>4, <1>5
<1> QED BY <1>6

(* The cooldown is a natural number and never longer than its cap. *)
LEMMA CooldownBounds ==
  ASSUME NEW n \in Nat
  PROVE  EffectiveCooldown[n] \in Nat /\ EffectiveCooldown[n] <= CooldownCap
<1>1. RecoveryCooldown \in Nat /\ CooldownCap \in Nat
  BY RefreshAssumption
<1> DEFINE S == {k \in Nat : EffectiveCooldown[k] \notin Nat}
<1>2. ASSUME S # {} PROVE FALSE
  <2>1. PICK m \in S : \A k \in S : m <= k
    BY <1>2, NatMinimum
  <2>2. CASE m = 0
    BY <1>1, <2>1, <2>2, CooldownDefined DEF AtMost
  <2>3. CASE m # 0
    <3>1. m \in Nat /\ m - 1 \in Nat /\ m - 1 \notin S
      BY <2>1, <2>3
    <3>2. EffectiveCooldown[m - 1] \in Nat
      BY <3>1
    <3> QED BY <1>1, <2>1, <2>3, <3>1, <3>2, CooldownDefined DEF AtMost
  <2> QED BY <2>2, <2>3
<1>3. \A k \in Nat : EffectiveCooldown[k] \in Nat
  BY <1>2
<1>4. CASE n = 0
  BY <1>1, <1>3, <1>4, CooldownDefined DEF AtMost
<1>5. CASE n # 0
  <2>1. n - 1 \in Nat /\ EffectiveCooldown[n - 1] \in Nat
    BY <1>3, <1>5
  <2> QED BY <1>1, <1>3, <1>5, <2>1, CooldownDefined DEF AtMost
<1> QED BY <1>4, <1>5

(* More ineffective recoveries never make the cooldown shorter. *)
LEMMA CooldownGrows ==
  ASSUME NEW m \in Nat, NEW n \in Nat, m <= n
  PROVE  EffectiveCooldown[m] <= EffectiveCooldown[n]
<1>1. ASSUME NEW k \in Nat
      PROVE  EffectiveCooldown[k] <= EffectiveCooldown[k + 1]
  <2>1. CooldownCap \in Nat /\ k + 1 \in Nat /\ k + 1 # 0 /\ (k + 1) - 1 = k
    BY RefreshAssumption
  <2>2. EffectiveCooldown[k + 1] = AtMost(2 * EffectiveCooldown[k], CooldownCap)
    BY <2>1, CooldownDefined
  <2>3. EffectiveCooldown[k] \in Nat /\ EffectiveCooldown[k] <= CooldownCap
    BY CooldownBounds
  <2> QED BY <2>1, <2>2, <2>3 DEF AtMost
<1> DEFINE S == {k \in Nat : m <= k /\ ~(EffectiveCooldown[m] <= EffectiveCooldown[k])}
<1> SUFFICES ASSUME S # {} PROVE FALSE
  OBVIOUS
<1>2. PICK i \in S : \A k \in S : i <= k
  BY NatMinimum
<1>3. EffectiveCooldown[m] \in Nat /\ EffectiveCooldown[i] \in Nat
  BY <1>2, CooldownBounds
<1>4. i \in Nat /\ i # m /\ i - 1 \in Nat /\ m <= i - 1 /\ (i - 1) + 1 = i
  BY <1>2, <1>3
<1>5. i - 1 \notin S
  BY <1>2, <1>4
<1>6. EffectiveCooldown[m] <= EffectiveCooldown[i - 1]
  BY <1>4, <1>5
<1>7. EffectiveCooldown[i - 1] \in Nat /\ EffectiveCooldown[i - 1] <= EffectiveCooldown[i]
  BY <1>1, <1>4, CooldownBounds
<1> QED BY <1>2, <1>3, <1>6, <1>7

(* One interval more is longer by an interval. *)
LEMMA OneIntervalMore ==
  ASSUME NEW h \in Nat, NEW n \in Nat
  PROVE  h * n \in Nat /\ h * (n + 1) = h * n + h
OBVIOUS

(* Fewer intervals are not longer. *)
LEMMA FewerIntervals ==
  ASSUME NEW h \in Nat, NEW m \in Nat, NEW n \in Nat, m <= n
  PROVE  h * m <= h * n
<1>1. PICK d \in Nat : n = m + d
  <2>1. n - m \in Nat /\ n = m + (n - m)
    OBVIOUS
  <2> QED BY <2>1
<1>2. h * n = h * m + h * d /\ h * d \in Nat /\ h * m \in Nat
  BY <1>1
<1> QED BY <1>2

(* The number of unhealthy samples that start a recovery. *)
Threshold == AtLeast(UnhealthyThreshold, 1)

(* How long after the eviction an attempt begins at the latest. *)
DetectionBound ==
  AtLeast(CooldownCap, HealthInterval * Threshold) + HealthInterval

(* It covers both of what an attempt may have to wait for. *)
LEMMA DetectionBoundType ==
  /\ HealthInterval \in Nat \ {0} /\ CooldownCap \in Nat \ {0}
  /\ Threshold \in Nat \ {0} /\ HealthInterval * Threshold \in Nat
  /\ DetectionBound \in Nat
  /\ DetectionBound >= HealthInterval * Threshold + HealthInterval
  /\ DetectionBound >= CooldownCap + HealthInterval
<1>1. /\ HealthInterval \in Nat \ {0} /\ CooldownCap \in Nat \ {0}
      /\ UnhealthyThreshold \in Nat
  BY RefreshAssumption
<1>2. Threshold \in Nat \ {0}
  BY <1>1 DEF Threshold, AtLeast
<1>3. HealthInterval * Threshold \in Nat
  BY <1>1, <1>2
<1> QED BY <1>1, <1>2, <1>3 DEF DetectionBound, AtLeast

(* Where the next tick is while gluetun waits with an evicted              *)
(* registration: one interval after the eviction for each sample that      *)
(* counts, and, once they suffice, within the cooldown of the recovery     *)
(* that came before the eviction.                                          *)
NextTickInTime ==
  /\ now <= ticker \/ now = deadSince
  /\ consecutiveUnhealth < Threshold =>
       ticker <= deadSince + HealthInterval * (consecutiveUnhealth + 1)
  /\ consecutiveUnhealth >= Threshold =>
       ticker < deadSince + CooldownCap + HealthInterval

(* Where the daemon is when gluetun runs an evicted registration: waiting  *)
(* for a tick that is in time, or in an attempt that began in time.  The   *)
(* cooldown was started before the eviction, for a recovery that is        *)
(* applied replaces what was evicted by a registration with another name.  *)
DeadInv ==
  /\ pc # "sleep"
  /\ pc = "down" => running = 0
  /\ ticker <= now + HealthInterval
  /\ lastRecovery <= now
  /\ tunnel = "dead" /\ running # 0 =>
       /\ deadSince <= now
       /\ lastRecovery <= deadSince
       /\ pc = "select" => NextTickInTime
       /\ pc # "select" => started < deadSince + DetectionBound

(* A loop that waits has not passed the time at which it must act. *)
LEMMA WaitIsBounded ==
  ASSUME TimesType, NextTickInTime
  PROVE  now < deadSince + DetectionBound
<1>1. CASE now = deadSince
  BY <1>1, DetectionBoundType DEF TimesType
<1>2. CASE now <= ticker /\ consecutiveUnhealth < Threshold
  <2>1. HealthInterval * (consecutiveUnhealth + 1) <= HealthInterval * Threshold
    BY <1>2, DetectionBoundType, FewerIntervals DEF TimesType
  <2>2. HealthInterval * (consecutiveUnhealth + 1) \in Nat
    BY DetectionBoundType DEF TimesType
  <2> QED BY <1>2, <2>1, <2>2, DetectionBoundType DEF NextTickInTime, TimesType
<1>3. CASE now <= ticker /\ consecutiveUnhealth >= Threshold
  BY <1>3, DetectionBoundType DEF NextTickInTime, TimesType
<1> QED BY <1>1, <1>2, <1>3, DetectionBoundType DEF NextTickInTime, TimesType

(* At the eviction the next tick is an interval away at most. *)
LEMMA EvictionInTime ==
  ASSUME TimesType, ticker <= now + HealthInterval, deadSince' = now,
         UNCHANGED <<now, ticker, consecutiveUnhealth>>
  PROVE  NextTickInTime'
<1> DEFINE c == consecutiveUnhealth
<1>1. /\ HealthInterval * (c + 1) = HealthInterval * c + HealthInterval
      /\ HealthInterval * c \in Nat
  BY DetectionBoundType, OneIntervalMore DEF TimesType
<1> QED BY <1>1, DetectionBoundType DEF NextTickInTime, TimesType

(* A sample that starts no recovery leaves the next tick in time. *)
LEMMA SampleInTime ==
  ASSUME TimesType, NextTickInTime, lastRecovery <= deadSince,
         deadSince <= now, ReadTicker, ~MustRecover,
         consecutiveUnhealth' = consecutiveUnhealth + 1,
         UNCHANGED <<now, deadSince>>
  PROVE  NextTickInTime'
<1> DEFINE c == consecutiveUnhealth
<1>1. ticker' \in Nat /\ ticker' > now /\ ticker' <= now + HealthInterval
  BY TickerBounds
<1>2. now >= ticker
  BY DEF ReadTicker
<1>3. /\ HealthInterval * ((c + 1) + 1) = HealthInterval * (c + 1) + HealthInterval
      /\ HealthInterval * (c + 1) \in Nat
  BY DetectionBoundType, OneIntervalMore DEF TimesType
<1>4. CASE c + 1 < Threshold
  <2>1. now <= deadSince + HealthInterval * (c + 1)
    BY <1>2, <1>3, <1>4, DetectionBoundType DEF NextTickInTime, TimesType
  <2>2. ticker' <= deadSince + HealthInterval * ((c + 1) + 1)
    BY <1>1, <1>3, <2>1, DetectionBoundType DEF TimesType
  <2>3. /\ now' <= ticker'
        /\ consecutiveUnhealth' < Threshold
        /\ ticker' <= deadSince' + HealthInterval * (consecutiveUnhealth' + 1)
    BY <1>1, <1>4, <2>2 DEF TimesType
  <2> QED BY <2>3, DetectionBoundType DEF NextTickInTime, TimesType
<1>5. CASE ~(c + 1 < Threshold)
  <2>1. InCooldown
    BY <1>5, DetectionBoundType DEF MustRecover, Threshold, TimesType
  <2>2. now < deadSince + CooldownCap
    BY <2>1, CooldownBounds, DetectionBoundType DEF InCooldown, TimesType
  <2>3. /\ now' <= ticker' /\ ~(consecutiveUnhealth' < Threshold)
        /\ ticker' < deadSince' + CooldownCap + HealthInterval
    BY <1>1, <1>5, <2>2, DetectionBoundType DEF TimesType
  <2> QED BY <2>3 DEF NextTickInTime
<1> QED BY <1>4, <1>5

(* Every step keeps DeadInv. *)
LEMMA DeadStep ==
  ASSUME MinCall > 0, Faults \subseteq {"flap", "record", "status"},
         LoopType, TimesType, NamesInv, CallInv, FreshInv, DeadInv,
         [Next]_vars
  PROVE  DeadInv'
<1>0. HealthInterval \in Nat \ {0} /\ MinCall \in Nat
  BY RefreshAssumption
<1>1. CASE Tick
  BY <1>0, <1>1 DEF Tick, Waiting, DeadInv, NextTickInTime, TimesType,
      loopVars, healthVars, recVars, timerVars, worldVars
<1>2. CASE UNCHANGED vars \/ Horizon
  BY <1>2 DEF Horizon, vars, DeadInv, NextTickInTime, loopVars, healthVars,
      recVars, timerVars, worldVars
<1>3. CASE Evict
  <2>1. UNCHANGED <<now, pc, started, ticker, consecutiveUnhealth,
                    lastRecovery, running>> /\ deadSince' = now
    BY <1>3 DEF Evict, loopVars, healthVars, recVars, timerVars
  <2>2. NextTickInTime'
    BY <2>1, EvictionInTime DEF DeadInv
  <2>3. pc \notin {"select", "sleep", "down"} => started <= now
    BY <1>0 DEF CallInv, TimesType, LoopType
  <2>4. running # 0 /\ pc # "select" => started < now + DetectionBound
    BY <1>0, <2>3, DetectionBoundType DEF DeadInv, TimesType
  <2> QED BY <1>0, <2>1, <2>2, <2>4 DEF DeadInv, TimesType
<1>4. CASE Connect
  BY <1>4 DEF Connect, DeadInv, loopVars, recVars, timerVars
<1>5. CASE Adopt
  BY <1>0, <1>5 DEF Adopt, DeadInv, TimesType, recVars, worldVars
<1>6. CASE HealthyTick
  <2>1. tunnel = "up"
    BY <1>6, HealthyMeansUp DEF HealthyTick
  <2>2. ticker' <= now + HealthInterval
    BY <1>6, TickerBounds DEF HealthyTick
  <2> QED BY <1>6, <2>1, <2>2 DEF HealthyTick, DeadInv, loopVars, recVars,
                                  worldVars
<1>7. CASE UnhealthyTick
  <2>1. /\ ReadTicker /\ ~MustRecover /\ pc = "select"
        /\ consecutiveUnhealth' = consecutiveUnhealth + 1
        /\ UNCHANGED <<now, pc, started, lastRecovery, running, tunnel,
                       deadSince>>
    BY <1>7 DEF UnhealthyTick, ObserveUnhealthy, ReadTicker, loopVars,
                recVars, worldVars
  <2>2. ticker' <= now + HealthInterval
    BY <2>1, TickerBounds
  <2>3. tunnel = "dead" /\ running # 0 => NextTickInTime'
    BY <2>1, SampleInTime DEF DeadInv
  <2> QED BY <2>1, <2>2, <2>3 DEF DeadInv
<1>8. CASE RecoverTick \/ ProactiveFire
  <2>1. /\ pc = "select" /\ pc' = "generate" /\ started' = now
        /\ UNCHANGED <<now, lastRecovery, running, tunnel, deadSince>>
    BY <1>8 DEF RecoverTick, ProactiveFire, ReadTicker, BeginAttempt,
                recVars, worldVars
  <2>2. ticker' <= now + HealthInterval
    BY <1>8, TickerBounds DEF RecoverTick, ProactiveFire, DeadInv, timerVars
  <2>3. tunnel = "dead" /\ running # 0 => now < deadSince + DetectionBound
    BY <2>1, WaitIsBounded DEF DeadInv
  <2> QED BY <2>1, <2>2, <2>3 DEF DeadInv
<1>9. CASE Startup
  BY <1>9 DEF Startup, BeginAttempt, DeadInv, recVars, timerVars, worldVars
<1>10. CASE GenerateOK \/ WriteConfig \/ RecordBirth \/ WritePending
  <2>1. /\ pc \notin {"select", "down"}
        /\ pc' \notin {"select", "down", "sleep"}
        /\ UNCHANGED <<now, started, ticker, lastRecovery, running, tunnel,
                       deadSince>>
    BY <1>10 DEF GenerateOK, WriteConfig, RecordBirth, WritePending, recVars,
                 timerVars, worldVars
  <2> QED BY <2>1 DEF DeadInv
<1>11. CASE Apply
  <2>1. tunnel' = "connecting"
    BY <1>11 DEF Apply, StartGluetun, NamesInv, FreshInv, TimesType
  <2>2. pc' = "select" /\ now' = now /\ ticker' \in {ticker, now + HealthInterval}
    BY <1>11 DEF Apply, ReturnToLoop
  <2>3. lastRecovery' \in {lastRecovery, now}
    BY <1>11 DEF Apply, NoteRecovery, recVars
  <2> QED BY <1>0, <2>1, <2>2, <2>3 DEF DeadInv, TimesType
<1>12. CASE \/ Reload \/ Crash \/ GenerateFails \/ WriteConfigFails
            \/ WritePendingFails \/ RestartFails \/ Retry \/ GiveUp
  BY <1>12 DEF Reload, Crash, GenerateFails, WriteConfigFails,
      WritePendingFails, RestartFails, Retry, GiveUp, DeadInv
<1> QED
  BY <1>1, <1>2, <1>3, <1>4, <1>5, <1>6, <1>7, <1>8, <1>9, <1>10, <1>11,
     <1>12 DEF Next

(* README.md:712, the daemon "reacts immediately to a dead tunnel": while  *)
(* its calls succeed and do not take longer than MaxCall, gluetun never    *)
(* keeps an evicted registration for the cooldown cap or the time that the *)
(* threshold's samples take, whichever is longer, one more health interval *)
(* and the two calls, although the control server flaps and writes of the  *)
(* record and of status.json fail.                                         *)
THEOREM DeadTunnelAlwaysReplaced ==
  ASSUME MinCall > 0, Faults \subseteq {"flap", "record", "status"}
  PROVE  Spec => []DeadTunnelReplaced
<1>1. Init => DeadInv
  BY DetectionBoundType DEF Init, DeadInv
<1>2. TypeOK /\ NamesInv /\ CallInv /\ FreshInv /\ DeadInv /\ [Next]_vars
        => DeadInv'
  BY DeadStep, TimesAreNumbers DEF TypeOK
<1>3. TypeOK /\ CallInv /\ DeadInv => DeadTunnelReplaced
  <2> SUFFICES ASSUME TypeOK, CallInv, DeadInv, tunnel = "dead", running # 0
               PROVE  now - deadSince < DetectionBound + 2 * MaxCall
    BY DEF DeadTunnelReplaced, RecoveryBound, DetectionBound, Threshold
  <2>1. TimesType /\ MaxCall \in Nat
    BY TimesAreNumbers, RefreshAssumption
  <2>2. CASE pc = "select"
    <3>1. now < deadSince + DetectionBound
      BY <2>1, <2>2, WaitIsBounded DEF DeadInv
    <3> QED BY <2>1, <3>1, DetectionBoundType DEF TimesType
  <2>3. CASE pc \in {"generate", "write", "record", "pending", "apply"}
    <3>1. now <= started + 2 * MaxCall
      BY <2>1, <2>3 DEF CallInv, TimesType
    <3>2. started < deadSince + DetectionBound
      BY <2>3 DEF DeadInv
    <3> QED BY <2>1, <3>1, <3>2, DetectionBoundType DEF TimesType
  <2> QED BY <2>2, <2>3 DEF DeadInv, TypeOK, LoopType
<1>4. Spec => []FreshInv
  BY FreshInvAlways
<1> QED BY <1>1, <1>2, <1>3, <1>4, TypeCorrect, NamesInvAlways, CallInvAlways,
           PTL DEF Spec

-----------------------------------------------------------------------------
(* What the daemon's own counters say about the history, when every key    *)
(* that is registered is also applied or lost with the process: there are  *)
(* at least as many ineffective recoveries as recoveries since a healthy   *)
(* sample, but for the last one, unless that was already judged.           *)
CounterInv ==
  /\ trigger = "reactive-recovery" => ineffectiveRecoveries >= recsSinceHealthy
  /\ ineffectiveRecoveries >= recsSinceHealthy - 1
  /\ recsSinceHealthy = 0 => recoveryCount = 0 \/ healthySinceRecovery
  /\ recsSinceHealthy # 0 => recoveryCount > 0 /\ ~healthySinceRecovery

(* A key is registered by a recovery that began when the cooldown after    *)
(* the previous one was over, and the previous one registered its key      *)
(* before it was applied.                                                  *)
MintInv ==
  /\ lastMint <= now
  /\ lastMint # 0 /\ (trigger = "reactive-recovery" => pc \in {"generate", "sleep"}) =>
       lastMint <= lastRecovery
  /\ /\ pc \in {"generate", "sleep"} /\ trigger = "reactive-recovery"
     /\ lastMint # 0
     => started - lastMint >= EffectiveCooldown[AtLeast(recsSinceHealthy - 1, 0)]

(* Both parts, each of which needs the other. *)
SpacedInv == CounterInv /\ MintInv

(* A healthy sample resets both the counters and the history. *)
LEMMA HealthyResets ==
  ASSUME NEW r, ObserveHealthy(r), trigger' = "none", TimesType, now' = now
  PROVE  SpacedInv'
<1>1. /\ ineffectiveRecoveries' = 0 /\ recsSinceHealthy' = 0 /\ lastMint' = 0
      /\ healthySinceRecovery'
  BY DEF ObserveHealthy
<1>2. CounterInv'
  BY <1>1 DEF CounterInv
<1>3. MintInv'
  BY <1>1 DEF MintInv, TimesType
<1> QED BY <1>2, <1>3 DEF SpacedInv

(* accountForPreviousRecovery judges the last recovery: from then on every *)
(* recovery since a healthy sample counts.                                 *)
LEMMA AccountCounts ==
  ASSUME TimesType, CounterInv, trigger = "none", AccountForPreviousRecovery
  PROVE  /\ ineffectiveRecoveries' \in Nat
         /\ ineffectiveRecoveries' >= recsSinceHealthy
<1>1. CASE recsSinceHealthy = 0
  <2>1. ~(recoveryCount > 0 /\ ~healthySinceRecovery)
    BY <1>1 DEF CounterInv, TimesType
  <2>2. ineffectiveRecoveries' = ineffectiveRecoveries
    BY <2>1, Zenon DEF AccountForPreviousRecovery
  <2> QED BY <1>1, <2>2 DEF TimesType
<1>2. CASE recsSinceHealthy # 0
  <2>1. recoveryCount > 0 /\ ~healthySinceRecovery
    BY <1>2 DEF CounterInv
  <2>2. ineffectiveRecoveries' = ineffectiveRecoveries + 1
    BY <2>1, Zenon DEF AccountForPreviousRecovery
  <2> QED BY <2>2 DEF CounterInv, TimesType
<1> QED BY <1>1, <1>2

(* Every step keeps SpacedInv. *)
LEMMA SpacedStep ==
  ASSUME Faults \subseteq {"generate", "flap", "blind", "record", "status",
                           "reload", "crash"},
         TimesType, LoopType, CallInv, SpacedInv, [Next]_vars
  PROVE  SpacedInv'
<1>1. CASE Tick
  <2>1. now' = now + 1 /\ UNCHANGED <<loopVars, healthVars, recVars, histVars>>
    BY <1>1 DEF Tick
  <2>2. CounterInv'
    BY <2>1 DEF SpacedInv, CounterInv, loopVars, healthVars, recVars, histVars
  <2>3. MintInv'
    BY <2>1 DEF SpacedInv, MintInv, TimesType, loopVars, recVars, histVars
  <2> QED BY <2>2, <2>3 DEF SpacedInv
<1>2. CASE UNCHANGED vars \/ Horizon \/ Evict \/ Connect \/ Reload
  <2>1. UNCHANGED <<now, loopVars, healthVars, recVars, histVars>>
    BY <1>2 DEF Horizon, vars, Evict, Connect, Reload
  <2>2. CounterInv'
    BY <2>1 DEF SpacedInv, CounterInv, loopVars, healthVars, recVars, histVars
  <2>3. MintInv'
    BY <2>1 DEF SpacedInv, MintInv, loopVars, recVars, histVars
  <2> QED BY <2>2, <2>3 DEF SpacedInv
<1>3. CASE Adopt
  BY <1>3, HealthyResets DEF Adopt, CallInv
<1>4. CASE HealthyTick
  BY <1>4, HealthyResets DEF HealthyTick, ReadTicker, CallInv, loopVars
<1>5. CASE UnhealthyTick
  <2>1. UNCHANGED <<now, loopVars, healthySinceRecovery,
                    ineffectiveRecoveries, recVars, histVars>>
    BY <1>5 DEF UnhealthyTick
  <2>2. CounterInv'
    BY <2>1 DEF SpacedInv, CounterInv, loopVars, recVars, histVars
  <2>3. MintInv'
    BY <2>1 DEF SpacedInv, MintInv, loopVars, recVars, histVars
  <2> QED BY <2>2, <2>3 DEF SpacedInv
<1>6. CASE RecoverTick
  <2>1. /\ pc = "select" /\ trigger = "none" /\ ~InCooldown
        /\ pc' = "generate" /\ trigger' = "reactive-recovery" /\ started' = now
        /\ UNCHANGED <<now, healthySinceRecovery, recVars, histVars>>
    BY <1>6 DEF RecoverTick, ReadTicker, MustRecover, BeginAttempt,
                RecordLossIfMeasurable, CallInv
  <2>2. /\ ineffectiveRecoveries' \in Nat
        /\ ineffectiveRecoveries' >= recsSinceHealthy
    BY <1>6, <2>1, AccountCounts DEF RecoverTick, SpacedInv
  <2>3. CounterInv'
    BY <2>1, <2>2 DEF SpacedInv, CounterInv, TimesType, recVars, histVars
  <2>4. /\ AtLeast(recsSinceHealthy - 1, 0) \in Nat
        /\ AtLeast(recsSinceHealthy - 1, 0) <= ineffectiveRecoveries
    BY DEF SpacedInv, CounterInv, AtLeast, TimesType
  <2>5. /\ EffectiveCooldown[AtLeast(recsSinceHealthy - 1, 0)] \in Nat
        /\ EffectiveCooldown[ineffectiveRecoveries] \in Nat
        /\ EffectiveCooldown[AtLeast(recsSinceHealthy - 1, 0)]
             <= EffectiveCooldown[ineffectiveRecoveries]
    BY <2>4, CooldownBounds, CooldownGrows DEF TimesType
  <2>6. lastMint # 0 =>
          now - lastMint >= EffectiveCooldown[AtLeast(recsSinceHealthy - 1, 0)]
    BY <2>1, <2>5 DEF InCooldown, SpacedInv, MintInv, TimesType
  <2>7. MintInv'
    BY <2>1, <2>6 DEF SpacedInv, MintInv, recVars, histVars
  <2> QED BY <2>3, <2>7 DEF SpacedInv
<1>7. CASE Startup \/ ProactiveFire
  <2>1. /\ pc \in {"down", "select"} /\ trigger = "none"
        /\ pc' = "generate" /\ trigger' \in {"startup", "proactive"}
        /\ UNCHANGED <<now, healthVars, recVars, histVars>>
    BY <1>7 DEF Startup, ProactiveFire, BeginAttempt, CallInv
  <2>2. CounterInv'
    BY <2>1 DEF SpacedInv, CounterInv, healthVars, recVars, histVars
  <2>3. MintInv'
    BY <2>1 DEF SpacedInv, MintInv, recVars, histVars
  <2> QED BY <2>2, <2>3 DEF SpacedInv
<1>8. CASE Crash
  <2>1. /\ pc' = "down" /\ trigger' = "none" /\ now' = now
        /\ ineffectiveRecoveries' = 0 /\ recsSinceHealthy' = 0
        /\ recoveryCount' = 0 /\ lastMint' = 0
    BY <1>8 DEF Crash
  <2> QED BY <2>1 DEF SpacedInv, CounterInv, MintInv, TimesType
<1>9. CASE GenerateOK
  <2>1. /\ pc = "generate" /\ pc' = "write"
        /\ UNCHANGED <<now, trigger, healthVars, recVars, recsSinceHealthy>>
        /\ lastMint' = IF trigger = "reactive-recovery" THEN now ELSE lastMint
    BY <1>9 DEF GenerateOK, Mint
  <2>2. CounterInv'
    BY <2>1 DEF SpacedInv, CounterInv, healthVars, recVars
  <2>3. MintInv'
    BY <2>1 DEF SpacedInv, MintInv, TimesType, recVars
  <2> QED BY <2>2, <2>3 DEF SpacedInv
<1>10. CASE WriteConfig \/ RecordBirth \/ WritePending
  <2>1. /\ pc \in {"write", "record", "pending"}
        /\ pc' \in {"record", "pending", "apply"}
        /\ UNCHANGED <<now, trigger, healthVars, recVars, histVars>>
    BY <1>10 DEF WriteConfig, RecordBirth, WritePending
  <2>2. CounterInv'
    BY <2>1 DEF SpacedInv, CounterInv, healthVars, recVars, histVars
  <2>3. MintInv'
    BY <2>1 DEF SpacedInv, MintInv, recVars, histVars
  <2> QED BY <2>2, <2>3 DEF SpacedInv
<1>11. CASE Apply
  <2>1. pc = "apply" /\ pc' = "select" /\ trigger' = "none" /\ now' = now
    BY <1>11 DEF Apply, ReturnToLoop
  <2>2. CASE trigger = "reactive-recovery"
    <3>1. /\ lastRecovery' = now /\ recoveryCount' = recoveryCount + 1
          /\ healthySinceRecovery' = FALSE
          /\ recsSinceHealthy' = recsSinceHealthy + 1
          /\ ineffectiveRecoveries' = ineffectiveRecoveries
          /\ lastMint' = lastMint
      BY <1>11, <2>2, Zenon DEF Apply, NoteRecovery
    <3>2. /\ recsSinceHealthy' # 0 /\ recoveryCount' > 0
          /\ ineffectiveRecoveries' >= recsSinceHealthy' - 1
      BY <2>2, <3>1 DEF SpacedInv, CounterInv, TimesType
    <3>3. CounterInv'
      BY <2>1, <3>1, <3>2 DEF CounterInv
    <3>4. MintInv'
      BY <2>1, <3>1 DEF SpacedInv, MintInv
    <3> QED BY <3>3, <3>4 DEF SpacedInv
  <2>3. CASE trigger # "reactive-recovery"
    <3>1. UNCHANGED <<healthVars, recVars, histVars>>
      BY <1>11, <2>3, Zenon DEF Apply, NoteRecovery
    <3>2. CounterInv'
      BY <2>1, <2>3, <3>1 DEF SpacedInv, CounterInv, healthVars, recVars,
                              histVars
    <3>3. MintInv'
      BY <2>1, <2>3, <3>1 DEF SpacedInv, MintInv, recVars, histVars
    <3> QED BY <3>2, <3>3 DEF SpacedInv
  <2> QED BY <2>2, <2>3
<1>12. CASE GenerateFails
  <2>1. /\ pc = "generate" /\ pc' = "sleep"
        /\ UNCHANGED <<now, trigger, started, healthVars, recVars, histVars>>
    BY <1>12 DEF GenerateFails, FailAttempt
  <2>2. CounterInv'
    BY <2>1 DEF SpacedInv, CounterInv, healthVars, recVars, histVars
  <2>3. MintInv'
    BY <2>1 DEF SpacedInv, MintInv, recVars, histVars
  <2> QED BY <2>2, <2>3 DEF SpacedInv
<1>13. CASE Retry
  <2>1. /\ pc = "sleep" /\ pc' = "generate" /\ started' = now
        /\ UNCHANGED <<now, trigger, healthVars, recVars, histVars>>
    BY <1>13 DEF Retry, BeginAttempt
  <2>2. CounterInv'
    BY <2>1 DEF SpacedInv, CounterInv, healthVars, recVars, histVars
  <2>3. EffectiveCooldown[AtLeast(recsSinceHealthy - 1, 0)] \in Nat
    <3>1. AtLeast(recsSinceHealthy - 1, 0) \in Nat
      BY DEF AtLeast, TimesType
    <3> QED BY <3>1, CooldownBounds
  <2>4. MintInv'
    BY <2>1, <2>3 DEF SpacedInv, MintInv, CallInv, TimesType, recVars, histVars
  <2> QED BY <2>2, <2>4 DEF SpacedInv
<1>14. CASE GiveUp
  <2>1. /\ pc = "sleep" /\ pc' = "select" /\ trigger' = "none"
        /\ UNCHANGED <<now, healthVars, recVars, histVars>>
    BY <1>14 DEF GiveUp, ReturnToLoop
  <2>2. CounterInv'
    BY <2>1 DEF SpacedInv, CounterInv, healthVars, recVars, histVars
  <2>3. MintInv'
    BY <2>1 DEF SpacedInv, MintInv, recVars, histVars
  <2> QED BY <2>2, <2>3 DEF SpacedInv
<1>15. ~(WriteConfigFails \/ WritePendingFails \/ RestartFails)
  BY DEF WriteConfigFails, WritePendingFails, RestartFails
<1> QED
  BY <1>1, <1>2, <1>3, <1>4, <1>5, <1>6, <1>7, <1>8, <1>9, <1>10, <1>11,
     <1>12, <1>13, <1>14, <1>15 DEF Next

(* refresh.go:31, the escalating cooldown: two reactive registrations with *)
(* no healthy sample in between are the doubled cooldown apart, whether    *)
(* registering fails, the control server flaps or cannot tell the public   *)
(* IP, files cannot be written, and something restarts gluetun or the      *)
(* daemon.  Excluded are the faults that make regenerateOnce fail after it *)
(* registered a key, where the code does not have the property.            *)
THEOREM RegistrationsAlwaysSpaced ==
  ASSUME Faults \subseteq {"generate", "flap", "blind", "record", "status",
                           "reload", "crash"}
  PROVE  Spec => RegistrationsSpaced
<1>1. Init => SpacedInv
  BY DEF Init, SpacedInv, CounterInv, MintInv
<1>2. TypeOK /\ CallInv /\ SpacedInv /\ [Next]_vars => SpacedInv'
  BY SpacedStep, TimesAreNumbers DEF TypeOK
<1>3. TypeOK /\ CallInv /\ SpacedInv /\ [Next]_vars =>
        [lastMint' # lastMint /\ lastMint' # 0 /\ lastMint # 0 =>
           now - lastMint >= EffectiveCooldown[AtLeast(recsSinceHealthy - 1, 0)]]_vars
  <2> SUFFICES ASSUME TypeOK, CallInv, SpacedInv, Next,
                      lastMint' # lastMint, lastMint' # 0, lastMint # 0
               PROVE  now - lastMint >=
                        EffectiveCooldown[AtLeast(recsSinceHealthy - 1, 0)]
    OBVIOUS
  <2>1. pc = "generate" /\ trigger = "reactive-recovery"
    BY DEF Next, Tick, Horizon, vars, Evict, Connect, Reload, Adopt, Startup,
           ObserveHealthy, Crash, HealthyTick, UnhealthyTick, RecoverTick,
           RecordLossIfMeasurable, ProactiveFire, GenerateOK, Mint,
           GenerateFails, WriteConfig, WriteConfigFails, RecordBirth,
           WritePending, WritePendingFails, Apply, NoteRecovery, RestartFails,
           Retry, GiveUp, histVars
  <2>2. TimesType
    BY TimesAreNumbers
  <2>3. EffectiveCooldown[AtLeast(recsSinceHealthy - 1, 0)] \in Int
    <3>1. AtLeast(recsSinceHealthy - 1, 0) \in Nat
      BY <2>2 DEF AtLeast, TimesType
    <3> QED BY <3>1, CooldownBounds
  <2>4. started - lastMint >= EffectiveCooldown[AtLeast(recsSinceHealthy - 1, 0)]
    BY <2>1 DEF SpacedInv, MintInv
  <2>5. started <= now
    BY <2>1 DEF CallInv
  <2> QED BY <2>2, <2>3, <2>4, <2>5 DEF TimesType
<1> QED BY <1>1, <1>2, <1>3, TypeCorrect, CallInvAlways, PTL
        DEF Spec, RegistrationsSpaced
=============================================================================
