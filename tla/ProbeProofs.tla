----------------------------- MODULE ProbeProofs -----------------------------
(***************************************************************************)
(* Proofs about the container healthcheck of src/healthcheck.go beside the *)
(* refresh daemon, for any limits, intervals and durations of calls: how   *)
(* late an outage is reported, and when a working tunnel is not called     *)
(* unhealthy.                                                              *)
(***************************************************************************)
EXTENDS Probe, RefreshProofs

(* The probe only watches: with its fields and the history left out, a     *)
(* step of the two is one of the refresh daemon, and so is a behaviour.    *)
LEMMA ProbeStepWatches == [ProbeNext]_<<vars, probeVars>> => [Next]_vars
<1>1. ProbeNext => Next
  BY DEF ProbeNext, ObservesHealthy, ObservesUnhealthy, Reports, GivesUp,
         Crashes, Silent, Starts, Next
<1> QED BY <1>1

LEMMA ProbeWatches == ProbeSpec => Spec
<1>1. ProbeInit => Init
  BY DEF ProbeInit
<1> QED BY <1>1, ProbeStepWatches, PTL DEF ProbeSpec, Spec

-----------------------------------------------------------------------------
(* The variables this module reasons about. *)
ProbeType ==
  /\ TimesType
  /\ pc \in {"down", "select", "generate", "write", "record", "pending",
             "apply", "sleep"}
  /\ attempt \in 0..MaxRegenAttempts /\ backoff \in Nat
  /\ tunnelHealthy \in BOOLEAN /\ statusHealthy \in BOOLEAN

FileType ==
  /\ unhealthySince \in Nat /\ fileAt \in Nat /\ fileSince \in Nat
  /\ fileExpiry \in Nat /\ changedAt \in Nat

(* The part of the type invariant that this module rests on. *)
LEMMA ProbeTypeHolds == TypeOK => ProbeType
BY TimesAreNumbers DEF TypeOK, LoopType, HealthType, DiskType, ProbeType

(* The spans of time are natural numbers, and the backoffs are covered. *)
LEMMA SpansType ==
  /\ HealthInterval \in Nat \ {0} /\ MaxRegenAttempts \in Nat \ {0}
  /\ MaxCall \in Nat /\ BackoffMin \in Nat /\ BackoffMax \in Nat
  /\ LongestBackoff \in Nat /\ BackoffMin <= LongestBackoff
  /\ BackoffMax <= LongestBackoff
  /\ AttemptSpan \in Nat /\ AttemptSpan = 2 * MaxCall + LongestBackoff
  /\ RegenerationSpan \in Nat
  /\ SampleGap = HealthInterval + 2 * RegenerationSpan /\ SampleGap \in Nat
<1>1. /\ HealthInterval \in Nat \ {0} /\ MaxRegenAttempts \in Nat \ {0}
      /\ MaxCall \in Nat /\ BackoffMin \in Nat /\ BackoffMax \in Nat
  BY RefreshAssumption
<1>2. /\ LongestBackoff \in Nat /\ BackoffMin <= LongestBackoff
      /\ BackoffMax <= LongestBackoff
  BY <1>1 DEF LongestBackoff, AtLeast
<1>3. AttemptSpan \in Nat /\ AttemptSpan = 2 * MaxCall + LongestBackoff
  BY <1>1, <1>2 DEF AttemptSpan
<1>4. RegenerationSpan \in Nat
  BY <1>1, <1>3 DEF RegenerationSpan
<1> QED BY <1>1, <1>2, <1>3, <1>4 DEF SampleGap

(* How long the attempts before attempt n may have taken. *)
Spent(n) == AttemptSpan * (n - 1)

(* An attempt adds its span, and all of them make a regeneration. *)
LEMMA SpentBounds ==
  ASSUME NEW n \in 1..MaxRegenAttempts
  PROVE  /\ Spent(n) \in Nat
         /\ Spent(1) = 0
         /\ Spent(n + 1) = Spent(n) + AttemptSpan
         /\ Spent(n) + AttemptSpan <= RegenerationSpan
<1>1. AttemptSpan \in Nat /\ MaxRegenAttempts \in Nat /\ n - 1 \in Nat /\ n \in Nat
  BY SpansType
<1>2. AttemptSpan * (n - 1) \in Nat /\ AttemptSpan * ((n - 1) + 1) = Spent(n) + AttemptSpan
  BY <1>1, OneIntervalMore DEF Spent
<1>3. (n - 1) + 1 = n /\ (n + 1) - 1 = n
  BY <1>1
<1>4. AttemptSpan * n <= AttemptSpan * MaxRegenAttempts
  BY <1>1, FewerIntervals
<1>5. AttemptSpan * MaxRegenAttempts = MaxRegenAttempts * AttemptSpan
  BY <1>1
<1>6. Spent(1) = 0
  BY <1>1 DEF Spent
<1> QED BY <1>2, <1>3, <1>4, <1>5, <1>6 DEF Spent, RegenerationSpan

(* The reported expiry is a natural number, and when the registration that *)
(* runs is not younger than the recorded one, it has one not later.        *)
LEMMA ExpiryBounds ==
  ASSUME NEW obs \in Lifetimes, NEW b \in Nat
  PROVE  /\ ExpectedExpiry(b, obs) \in Nat
         /\ \A r \in Nat : r # 0 /\ r <= b /\ ExpectedExpiry(b, obs) # 0 =>
              /\ ExpectedExpiry(r, obs) # 0
              /\ ExpectedExpiry(r, obs) <= ExpectedExpiry(b, obs)
<1>1. RefreshInterval \in Nat /\ MaxRegistrationAge \in Nat
  BY LifetimeAssumption
<1>2. CASE obs = << >>
  BY <1>1, <1>2 DEF ExpectedExpiry
<1>3. CASE obs # << >>
  <2>1. MeasuredLifetime(obs) \in Nat
    BY <1>3, MeasuredLifetimeIsShortest
  <2> QED BY <1>3, <2>1 DEF ExpectedExpiry
<1> QED BY <1>2, <1>3

(* A jitter window whose half is below the floor never makes the timer due *)
(* as soon as it is armed, with a birth or without one.                    *)
LEMMA ArmTimerAhead ==
  ASSUME RefreshJitter \div 2 < MinRefresh, TimesType, ArmTimer(birth, observed)
  PROVE  timer' \in Int /\ now < timer'
<1>1. PICK d \in NextProactiveDelays(birth, observed, now) :
        nextRefresh' = now + d /\ timer' = now + d
  BY DEF ArmTimer
<1>2. PICK i \in ApplyJitter(SafeRefreshInterval(observed)) :
        d = IF birth = 0 THEN i ELSE AtLeast(birth + i - now, OneMinute)
  BY <1>1 DEF NextProactiveDelays
<1>3. /\ SafeRefreshInterval(observed) \in Nat
      /\ SafeRefreshInterval(observed) >= MinRefresh
  BY SafeRefreshIntervalBounds DEF TimesType
<1>4. i \in Int /\ 2 * i >= 2 * SafeRefreshInterval(observed) - RefreshJitter
  BY <1>3, JitterBounds
<1>5. RefreshJitter \in Nat /\ MinRefresh \in Nat /\ OneMinute \in Nat \ {0}
  BY LifetimeAssumption
<1>6. i > 0
  BY <1>3, <1>4, <1>5
<1>7. d \in Int /\ d > 0
  BY <1>2, <1>4, <1>5, <1>6 DEF AtLeast, TimesType
<1> QED BY <1>1, <1>7 DEF TimesType

(* A sample is unhealthy only while the tunnel is not up, when the control *)
(* server always answers.                                                  *)
LEMMA UnhealthyMeansDown ==
  ASSUME "flap" \notin Faults, FALSE \in Samples
  PROVE  tunnel # "up"
<1> SUFFICES ASSUME tunnel = "up" PROVE FALSE
  OBVIOUS
<1>1. PICK a \in Answers(tunnel = "up", "flap" \in Faults, "blind" \in Faults) :
        CheckTunnel(a) = FALSE
  BY Zenon DEF Samples
<1>2. /\ a \in [vpn : StatusAnswers, openvpn : StatusAnswers, ip : IPAnswers]
      /\ a.vpn # "stopped" /\ a.openvpn # "stopped"
      /\ ~(a.vpn = "error" /\ a.openvpn = "error")
      /\ a.ip # "empty"
  BY <1>1 DEF Answers
<1>3. /\ a.vpn \in {"running", "stopped", "error"}
      /\ a.openvpn \in {"running", "stopped", "error"}
  BY <1>2 DEF StatusAnswers
<1>4. CheckTunnel(a)
  BY <1>2, <1>3 DEF CheckTunnel
<1> QED BY <1>1, <1>4

-----------------------------------------------------------------------------
(* The steps of the daemon as far as the probe is concerned: what they do  *)
(* to the loop's clock, to the outage and to the file.                     *)
Flushes == statusHealthy' = tunnelHealthy' /\ Flush

KeepsFile == UNCHANGED <<statusHealthy, fileVars>>

KeepsHealth == UNCHANGED <<tunnelHealthy, lastHealthy, unhealthySince>>

(* Nothing but gluetun's tunnel changes. *)
Rests ==
  /\ KeepsFile /\ KeepsHealth
  /\ UNCHANGED <<now, pc, wakeAt, trigger, attempt, backoff, started, ticker,
                 timer, birth, observed, regenError>>

(* A unit of time passes. *)
Passes ==
  /\ Waiting
  /\ now' = now + 1
  /\ KeepsFile /\ KeepsHealth
  /\ UNCHANGED <<pc, wakeAt, trigger, attempt, backoff, started, ticker,
                 timer, birth, observed, running, tunnel, changedAt,
                 regenError>>

(* A sample is healthy. *)
SeesUp ==
  /\ TRUE \in Samples
  /\ pc \in {"down", "select"} /\ pc' = "select"
  /\ tunnelHealthy' = TRUE /\ lastHealthy' = now /\ unhealthySince' = 0
  /\ ticker' <= now + HealthInterval
  /\ Flushes
  /\ UNCHANGED <<now, birth, observed, running, tunnel, regenError>>

(* A sample is unhealthy, and may start a recovery. *)
SeesDown ==
  /\ FALSE \in Samples
  /\ pc = "select"
  /\ tunnelHealthy' = FALSE /\ lastHealthy' = lastHealthy /\ NoteUnhealthy
  /\ ticker' <= now + HealthInterval
  /\ Flushes
  /\ UNCHANGED <<now, birth, running, tunnel, regenError>>
  /\ \/ pc' = "select"
     \/ /\ pc' = "generate" /\ trigger' = "reactive-recovery"
        /\ attempt' = 1 /\ started' = now /\ backoff' = BackoffMin

(* An attempt begins: of the daemon that starts, of the proactive timer,   *)
(* or again.                                                               *)
Begins ==
  /\ pc' = "generate" /\ started' = now
  /\ KeepsFile /\ KeepsHealth
  /\ UNCHANGED <<now, ticker, birth, observed, running, tunnel, regenError>>
  /\ \/ /\ pc = "down" /\ trigger' = "startup" /\ changedAt' = now
        /\ attempt' = 1 /\ backoff' = BackoffMin
     \/ /\ pc = "select" /\ now >= timer /\ trigger' = "proactive"
        /\ attempt' = 1 /\ backoff' = BackoffMin
     \/ /\ pc = "sleep" /\ trigger' = trigger
        /\ attempt < MaxRegenAttempts /\ attempt' = attempt + 1
        /\ backoff' = backoff

(* An attempt goes on. *)
Proceeds ==
  /\ pc \in {"generate", "write", "record", "pending"}
  /\ pc' \in {"write", "record", "pending", "apply"}
  /\ KeepsFile /\ KeepsHealth
  /\ UNCHANGED <<now, trigger, attempt, backoff, started, ticker, observed,
                 running, tunnel, regenError>>

(* An attempt fails. *)
Fails ==
  /\ pc \in {"generate", "write", "pending", "apply"} /\ pc' = "sleep"
  /\ regenError' = TRUE
  /\ wakeAt' = now + backoff /\ backoff' = AtMost(2 * backoff, BackoffMax)
  /\ Flushes /\ KeepsHealth
  /\ UNCHANGED <<now, trigger, attempt, started, ticker, birth, observed>>

(* A regeneration is over. *)
Returns ==
  /\ pc \in {"apply", "sleep"} /\ pc' = "select"
  /\ ticker' = (IF trigger = "startup" THEN now + HealthInterval ELSE ticker)
  /\ trigger = "proactive" => now < timer'
  /\ Flushes \/ (pc = "sleep" /\ trigger = "reactive-recovery" /\ KeepsFile)
  /\ pc = "sleep" => regenError' = regenError
  /\ KeepsHealth
  /\ UNCHANGED <<now, birth, observed>>

(* The process dies. *)
Dies ==
  /\ pc # "down" /\ pc' = "down" /\ wakeAt' = now + 1 /\ ticker' = 0
  /\ tunnelHealthy' = FALSE /\ lastHealthy' = 0 /\ unhealthySince' = 0
  /\ KeepsFile
  /\ UNCHANGED <<now, birth, observed, running, tunnel>>

ProbeStep ==
  \/ Rests \/ Passes \/ SeesUp \/ SeesDown \/ Begins \/ Proceeds \/ Fails
  \/ Returns \/ Dies

(* What the history says of a step. *)
Stamps ==
  /\ changedAt' = changedAt \/ changedAt' = now
  /\ (tunnel = "up") # (tunnel' = "up") => changedAt' = now

(* What regenerateWithBackoff's caller does to the timers. *)
LEMMA ReturnTimers ==
  ASSUME RefreshJitter \div 2 < MinRefresh, TimesType, NEW due, ReturnToLoop(due)
  PROVE  /\ pc' = "select"
         /\ ticker' = (IF trigger = "startup" THEN now + HealthInterval ELSE ticker)
         /\ trigger = "proactive" => now < timer'
<1>1. trigger = "proactive" => now < timer'
  BY ArmTimerAhead DEF ReturnToLoop
<1> QED BY <1>1 DEF ReturnToLoop

(* Every step is one of these. *)
LEMMA ProbeStepHolds ==
  ASSUME RefreshJitter \div 2 < MinRefresh,
         ProbeType, [ProbeNext]_<<vars, probeVars>>
  PROVE  ProbeStep /\ Stamps
<1> USE DEF KeepsFile, KeepsHealth, Flushes, fileVars
<1>1. CASE UNCHANGED <<vars, probeVars>>
  <2>1. Rests
    BY <1>1 DEF vars, probeVars, loopVars, healthVars, timerVars, diskVars,
                recordVars, statusVars, Rests
  <2>2. Stamps
    BY <1>1 DEF vars, probeVars, worldVars, Stamps
  <2> QED BY <2>1, <2>2 DEF ProbeStep
<1>2. CASE Starts
  <2>1. Begins
    BY <1>2 DEF Starts, Startup, BeginAttempt, Begins, healthVars, timerVars,
                diskVars, recordVars, statusVars, worldVars
  <2>2. Stamps
    BY <1>2 DEF Starts, Stamps
  <2> QED BY <2>1, <2>2 DEF ProbeStep
<1>3. ASSUME \/ ObservesHealthy \/ ObservesUnhealthy \/ Reports \/ GivesUp
             \/ Crashes \/ Silent,
             changedAt' = IF (tunnel = "up") = (tunnel' = "up")
                            THEN changedAt ELSE now
      PROVE  ProbeStep /\ Stamps
  <2>0. Stamps
    BY <1>3 DEF Stamps
  <2>00. "status" \notin Faults
    BY ProbeAssumption
  <2>1. CASE ObservesHealthy
    <3>1. CASE Adopt
      <4>1. /\ pc = "down" /\ pc' = "select" /\ TRUE \in Samples
            /\ ticker' = now + HealthInterval
            /\ UNCHANGED <<now, birth, observed, running, tunnel, regenError>>
        BY <3>1 DEF Adopt, recordVars, worldVars
      <4>2. tunnelHealthy' = TRUE /\ lastHealthy' = now /\ statusHealthy' = TRUE
        BY <3>1, <2>00 DEF Adopt, ObserveHealthy, FlushStatus
      <4>3. ticker' <= now + HealthInterval
        BY <4>1, SpansType DEF ProbeType, TimesType
      <4>4. SeesUp
        BY <2>1, <4>1, <4>2, <4>3 DEF ObservesHealthy, SeesUp
      <4> QED BY <2>0, <4>4 DEF ProbeStep
    <3>2. CASE HealthyTick
      <4>1. /\ pc = "select" /\ pc' = "select" /\ TRUE \in Samples
            /\ UNCHANGED <<now, birth, observed, running, tunnel, regenError>>
        BY <3>2 DEF HealthyTick, ReadTicker, loopVars, recordVars, worldVars
      <4>2. tunnelHealthy' = TRUE /\ lastHealthy' = now /\ statusHealthy' = TRUE
        BY <3>2, <2>00 DEF HealthyTick, ObserveHealthy, FlushStatus
      <4>3. ticker' <= now + HealthInterval
        BY <3>2, TickerBounds DEF HealthyTick, ProbeType
      <4>4. SeesUp
        BY <2>1, <4>1, <4>2, <4>3 DEF ObservesHealthy, SeesUp
      <4> QED BY <2>0, <4>4 DEF ProbeStep
    <3> QED BY <2>1, <3>1, <3>2 DEF ObservesHealthy
  <2>2. CASE ObservesUnhealthy
    <3>1. ReadTicker /\ ObserveUnhealthy /\ FALSE \in Samples
      BY <2>2 DEF ObservesUnhealthy, UnhealthyTick, RecoverTick
    <3>2. ticker' <= now + HealthInterval
      BY <3>1, TickerBounds DEF ProbeType
    <3>3. tunnelHealthy' = FALSE /\ statusHealthy' = FALSE /\ pc = "select"
      BY <3>1, <2>00 DEF ObserveUnhealthy, FlushStatus, ReadTicker
    <3>4. /\ UNCHANGED <<now, lastHealthy, birth, running, tunnel, regenError>>
          /\ \/ pc' = "select"
             \/ /\ pc' = "generate" /\ trigger' = "reactive-recovery"
                /\ attempt' = 1 /\ started' = now /\ backoff' = BackoffMin
      BY <2>2, <3>3 DEF ObservesUnhealthy, UnhealthyTick, RecoverTick,
           BeginAttempt, RecordLossIfMeasurable, loopVars, recordVars,
           worldVars
    <3>5. SeesDown
      BY <2>2, <3>1, <3>2, <3>3, <3>4 DEF ObservesUnhealthy, SeesDown
    <3> QED BY <2>0, <3>5 DEF ProbeStep
  <2>3. CASE Reports
    <3>1. CASE GenerateFails \/ WriteConfigFails \/ WritePendingFails \/ RestartFails
      <4>1. /\ FailAttempt /\ UNCHANGED <<birth, observed>>
            /\ pc \in {"generate", "write", "pending", "apply"}
        BY <3>1 DEF GenerateFails, WriteConfigFails, WritePendingFails,
                    RestartFails, recordVars
      <4>2. Fails
        BY <2>00, <2>3, <4>1 DEF Reports, FailAttempt, FlushStatus, Fails,
                                 healthVars, timerVars
      <4> QED BY <2>0, <4>2 DEF ProbeStep
    <3>2. CASE Apply
      <4>1. PICK due : ReturnToLoop(due)
        BY <3>2 DEF Apply
      <4>2. /\ pc = "apply" /\ UNCHANGED <<now, birth, observed>>
            /\ statusHealthy' = tunnelHealthy
        BY <2>00, <3>2 DEF Apply, FlushStatus, recordVars
      <4>3. UNCHANGED <<tunnelHealthy, lastHealthy>>
        BY <3>2 DEF Apply, NoteRecovery, healthVars
      <4>4. Returns
        BY <2>3, <4>1, <4>2, <4>3, ReturnTimers DEF Reports, Returns, ProbeType
      <4> QED BY <2>0, <4>4 DEF ProbeStep
    <3> QED BY <2>3, <3>1, <3>2 DEF Reports
  <2>4. CASE GivesUp
    <3>1. /\ pc = "sleep" /\ ReturnToLoop(nextRefresh)
          /\ UNCHANGED <<now, tunnelHealthy, lastHealthy, unhealthySince,
                         birth, observed, regenError>>
      BY <2>4 DEF GivesUp, GiveUp, healthVars, recordVars
    <3>2. CASE trigger = "reactive-recovery" /\ TimerKept(nextRefresh, birth)
      <4>1. KeepsFile
        BY <2>4, <3>2 DEF GivesUp, GiveUp, statusVars
      <4>2. Returns
        BY <3>1, <3>2, <4>1, ReturnTimers DEF Returns, ProbeType
      <4> QED BY <2>0, <4>2 DEF ProbeStep
    <3>3. CASE ~(trigger = "reactive-recovery" /\ TimerKept(nextRefresh, birth))
      <4>1. Flush /\ FlushStatus(region, tunnelHealthy)
        BY <2>4, <3>3, Zenon DEF GivesUp, GiveUp
      <4>2. Flushes
        BY <2>00, <3>1, <4>1 DEF FlushStatus
      <4>3. Returns
        BY <3>1, <4>2, ReturnTimers DEF Returns, ProbeType
      <4> QED BY <2>0, <4>3 DEF ProbeStep
    <3> QED BY <3>2, <3>3
  <2>5. CASE Crashes
    <3>1. Dies
      BY <2>5 DEF Crashes, Crash, Dies, diskVars, recordVars, statusVars,
                  worldVars
    <3> QED BY <2>0, <3>1 DEF ProbeStep
  <2>6. CASE Silent
    <3>1. UNCHANGED <<unhealthySince, fileVars>>
      BY <2>6 DEF Silent
    <3>2. CASE Tick
      <4>1. Passes
        BY <1>3, <3>1, <3>2 DEF Tick, Passes, loopVars, healthVars, timerVars,
                          diskVars, recordVars, statusVars, worldVars
      <4> QED BY <2>0, <4>1 DEF ProbeStep
    <3>3. CASE Horizon \/ Evict \/ Connect \/ Reload
      <4>1. Rests
        BY <3>1, <3>3 DEF Horizon, vars, Evict, Connect, Reload, Rests,
             loopVars, healthVars, timerVars, diskVars, recordVars, statusVars
      <4> QED BY <2>0, <4>1 DEF ProbeStep
    <3>4. CASE ProactiveFire \/ Retry
      <4>1. Begins
        BY <3>1, <3>4 DEF ProactiveFire, Retry, BeginAttempt, Begins,
             healthVars, timerVars, diskVars, recordVars, statusVars, worldVars
      <4> QED BY <2>0, <4>1 DEF ProbeStep
    <3>5. CASE GenerateOK \/ WriteConfig \/ RecordBirth \/ WritePending
      <4>1. Proceeds
        BY <3>1, <3>5 DEF GenerateOK, WriteConfig, RecordBirth, WritePending,
             Proceeds, healthVars, timerVars, diskVars, recordVars,
             statusVars, worldVars
      <4> QED BY <2>0, <4>1 DEF ProbeStep
    <3> QED BY <2>6, <3>2, <3>3, <3>4, <3>5 DEF Silent
  <2> QED BY <1>3, <2>1, <2>2, <2>3, <2>4, <2>5, <2>6
<1> QED BY <1>1, <1>2, <1>3 DEF ProbeNext
-----------------------------------------------------------------------------
(* The files and the history keep their types. *)
LEMMA FileTypeStep ==
  ASSUME ProbeType, FileType, ProbeStep, Stamps
  PROVE  FileType'
<1> USE DEF FileType, ProbeType, TimesType
<1>1. changedAt' \in Nat
  BY DEF Stamps
<1>2. KeepsHealth \/ unhealthySince' = 0 \/ NoteUnhealthy
  BY DEF ProbeStep, Rests, Passes, SeesUp, SeesDown, Begins, Proceeds, Fails,
         Returns, Dies
<1>3. unhealthySince' \in Nat
  BY <1>2 DEF KeepsHealth, NoteUnhealthy
<1>4. Flushes \/ KeepsFile
  BY DEF ProbeStep, Rests, Passes, SeesUp, SeesDown, Begins, Proceeds, Fails,
         Returns, Dies
<1>5. ExpectedExpiry(birth, observed) \in Nat
  BY ExpiryBounds
<1> QED BY <1>1, <1>3, <1>4, <1>5 DEF Flushes, Flush, KeepsFile, fileVars

Regenerating == pc \notin {"down", "select"}

(* Where the clocks of the loop stand: the ticker is at most an interval   *)
(* ahead, a dead process is started again after a unit, and the sleep of   *)
(* an attempt ends within the span of the attempt.                         *)
LoopInv ==
  /\ ticker <= now + HealthInterval
  /\ changedAt <= now /\ unhealthySince <= now
  /\ pc = "down" => now <= wakeAt /\ wakeAt <= now + 1
  /\ Regenerating =>
       /\ attempt \in 1..MaxRegenAttempts
       /\ 1 <= started /\ started <= now
       /\ backoff <= LongestBackoff
  /\ pc = "sleep" => now <= wakeAt /\ wakeAt <= started + AttemptSpan

(* Every step keeps LoopInv. *)
LEMMA LoopStep ==
  ASSUME ProbeType, FileType, CallInv, LoopInv, ProbeStep, Stamps
  PROVE  LoopInv'
<1> USE SpansType DEF LoopInv, ProbeType, FileType, TimesType, Regenerating
<1>0. changedAt' = changedAt \/ changedAt' = now
  BY DEF Stamps
<1>1. CASE Rests
  BY <1>0, <1>1 DEF Rests, KeepsHealth
<1>2. CASE Passes
  BY <1>0, <1>2 DEF Passes, KeepsHealth, Waiting
<1>3. CASE SeesUp
  BY <1>0, <1>3 DEF SeesUp
<1>4. CASE SeesDown
  BY <1>0, <1>4 DEF SeesDown, NoteUnhealthy
<1>5. CASE Begins
  BY <1>0, <1>5 DEF Begins, KeepsHealth
<1>6. CASE Proceeds
  BY <1>0, <1>6 DEF Proceeds, KeepsHealth
<1>7. CASE Fails
  <2>1. now <= started + 2 * MaxCall
    BY <1>7 DEF Fails, CallInv
  <2>2. wakeAt' <= started + AttemptSpan /\ now <= wakeAt'
    BY <1>7, <2>1 DEF Fails
  <2>3. backoff' <= LongestBackoff
    BY <1>7 DEF Fails, AtMost
  <2> QED BY <1>0, <1>7, <2>2, <2>3 DEF Fails, KeepsHealth
<1>8. CASE Returns
  BY <1>0, <1>8 DEF Returns, KeepsHealth
<1>9. CASE Dies
  BY <1>0, <1>9 DEF Dies
<1> QED BY <1>1, <1>2, <1>3, <1>4, <1>5, <1>6, <1>7, <1>8, <1>9 DEF ProbeStep

(* What the file says, once the process that runs has taken a sample: what *)
(* the daemon knows.                                                       *)
FileInv ==
  /\ tunnelHealthy => unhealthySince = 0
  /\ tunnelHealthy \/ unhealthySince # 0 =>
       statusHealthy = tunnelHealthy /\ fileSince = unhealthySince
  /\ pc = "down" => ~tunnelHealthy /\ unhealthySince = 0 /\ lastHealthy = 0

(* Every step keeps FileInv. *)
LEMMA FileStep ==
  ASSUME ProbeType, FileType, FileInv, ProbeStep
  PROVE  FileInv'
<1> USE DEF FileInv, ProbeType, FileType, TimesType
<1>1. CASE \/ Rests \/ Passes \/ Begins \/ Proceeds \/ Fails \/ Returns
  <2>1. KeepsHealth /\ (Flushes \/ KeepsFile) /\ (pc' = "down" => pc = "down")
    BY <1>1 DEF Rests, Passes, Begins, Proceeds, Fails, Returns
  <2> QED BY <2>1 DEF KeepsHealth, KeepsFile, Flushes, Flush, fileVars
<1>2. CASE SeesUp
  BY <1>2 DEF SeesUp, Flushes, Flush
<1>3. CASE SeesDown
  BY <1>3 DEF SeesDown, Flushes, Flush, NoteUnhealthy
<1>4. CASE Dies
  BY <1>4 DEF Dies
<1> QED BY <1>1, <1>2, <1>3, <1>4 DEF ProbeStep
-----------------------------------------------------------------------------
(* No sample is overdue since the tunnel last changed.  The ticker fires   *)
(* within an interval of the change, or after the regeneration of a daemon *)
(* that starts; the loop stays away from it for the attempts of one        *)
(* regeneration, and for a second one only when that is proactive, which   *)
(* moves the proactive timer ahead.                                        *)
Due ==
  /\ ticker <= changedAt + HealthInterval + RegenerationSpan
  /\ pc = "select" =>
       \/ now <= changedAt + HealthInterval + RegenerationSpan
       \/ now < timer /\ now <= changedAt + SampleGap
  /\ Regenerating =>
       started <= changedAt + Spent(attempt)
         + (IF trigger = "proactive" THEN HealthInterval + RegenerationSpan ELSE 0)

(* Nothing is overdue when the tunnel has just changed. *)
FreshIsDue == changedAt = now /\ pc # "down" => Due

LEMMA FreshIsDueHolds == ProbeType /\ LoopInv => FreshIsDue
<1> SUFFICES ASSUME ProbeType, LoopInv, changedAt = now, pc # "down"
             PROVE  Due
  BY DEF FreshIsDue
<1> USE SpansType DEF ProbeType, TimesType, LoopInv
<1>1. /\ ticker <= changedAt + HealthInterval + RegenerationSpan
      /\ now <= changedAt + HealthInterval + RegenerationSpan
  OBVIOUS
<1>2. CASE Regenerating
  <2>1. Spent(attempt) \in Nat
    BY <1>2, SpentBounds
  <2> QED BY <1>1, <1>2, <2>1 DEF Due
<1> QED BY <1>1, <1>2 DEF Due

(* What is not overdue is not late: the next sample is at most SampleGap   *)
(* after the change.                                                       *)
LEMMA DueBound ==
  ASSUME ProbeType, FileType, CallInv, LoopInv, Due, pc # "down"
  PROVE  /\ now <= changedAt + SampleGap
         /\ Regenerating => now <= started + AttemptSpan
         /\ Regenerating /\ trigger # "proactive" =>
              now <= changedAt + RegenerationSpan
<1> USE SpansType DEF ProbeType, FileType, TimesType, LoopInv, Regenerating
<1>1. CASE pc = "select"
  BY <1>1 DEF Due
<1>2. CASE Regenerating
  <2>1. now <= started + AttemptSpan
    <3>1. CASE pc = "sleep"
      BY <3>1
    <3>2. CASE pc # "sleep"
      <4>1. now <= started + 2 * MaxCall
        BY <1>2, <3>2 DEF CallInv
      <4> QED BY <4>1
    <3> QED BY <3>1, <3>2
  <2>2. /\ attempt \in 1..MaxRegenAttempts
        /\ started <= changedAt + Spent(attempt)
             + (IF trigger = "proactive" THEN HealthInterval + RegenerationSpan ELSE 0)
    BY <1>2 DEF Due
  <2>3. Spent(attempt) \in Nat /\ Spent(attempt) + AttemptSpan <= RegenerationSpan
    BY <2>2, SpentBounds
  <2> QED BY <2>1, <2>2, <2>3
<1> QED BY <1>1, <1>2

(* The steps that are no sample leave nothing overdue. *)
LEMMA DueStep ==
  ASSUME ProbeType, FileType, CallInv, LoopInv, Due, pc # "down",
         changedAt' = changedAt,
         Rests \/ Passes \/ Begins \/ Proceeds \/ Fails \/ Returns
  PROVE  Due'
<1> USE SpansType DEF ProbeType, FileType, TimesType, Regenerating
<1>1. CASE Rests \/ Proceeds \/ Fails
  <2>1. /\ UNCHANGED <<now, attempt, started, trigger, ticker>>
        /\ pc' = "select" => pc = "select" /\ timer' = timer
        /\ Regenerating' => Regenerating
    BY <1>1 DEF Rests, Proceeds, Fails
  <2> QED BY <2>1 DEF Due
<1>2. CASE Passes
  <2>1. /\ UNCHANGED <<pc, attempt, started, trigger, ticker, timer>>
        /\ now' = now + 1 /\ Waiting
    BY <1>2 DEF Passes
  <2>2. pc = "select" => now < ticker
    BY <2>1 DEF Waiting
  <2> QED BY <2>1, <2>2 DEF Due
<1>3. CASE Begins
  <2>1. CASE pc = "select"
    <3>1. /\ attempt' = 1 /\ trigger' = "proactive" /\ started' = now
          /\ pc' = "generate" /\ ticker' = ticker /\ now >= timer
      BY <1>3, <2>1 DEF Begins
    <3>2. now <= changedAt + HealthInterval + RegenerationSpan
      BY <2>1, <3>1 DEF Due
    <3>3. Spent(1) = 0
      BY SpentBounds
    <3> QED BY <3>1, <3>2, <3>3 DEF Due
  <2>2. CASE pc = "sleep"
    <3>1. /\ attempt' = attempt + 1 /\ trigger' = trigger /\ started' = now
          /\ pc' = "generate" /\ ticker' = ticker
      BY <1>3, <2>2 DEF Begins
    <3>2. attempt \in 1..MaxRegenAttempts /\ now <= started + AttemptSpan
      BY <2>2, DueBound DEF LoopInv
    <3>3. Spent(attempt) \in Nat /\ Spent(attempt + 1) = Spent(attempt) + AttemptSpan
      BY <3>2, SpentBounds
    <3>4. started <= changedAt + Spent(attempt)
            + (IF trigger = "proactive" THEN HealthInterval + RegenerationSpan ELSE 0)
      BY <2>2 DEF Due
    <3>5. now <= changedAt + Spent(attempt + 1)
            + (IF trigger = "proactive" THEN HealthInterval + RegenerationSpan ELSE 0)
      BY <3>2, <3>3, <3>4
    <3> QED BY <3>1, <3>5 DEF Due
  <2> QED BY <1>3, <2>1, <2>2 DEF Begins
<1>4. CASE Returns
  <2>1. /\ Regenerating /\ pc' = "select" /\ now' = now
        /\ ticker' = (IF trigger = "startup" THEN now + HealthInterval ELSE ticker)
        /\ trigger = "proactive" => now < timer'
    BY <1>4 DEF Returns
  <2>2. /\ now <= changedAt + SampleGap
        /\ trigger # "proactive" => now <= changedAt + RegenerationSpan
    BY <2>1, DueBound
  <2> QED BY <2>1, <2>2 DEF Due
<1> QED BY <1>1, <1>2, <1>3, <1>4
-----------------------------------------------------------------------------
(* While the tunnel is not up, either no sample is overdue, or the file    *)
(* tells of an outage that was noticed in time.  A process that died       *)
(* leaves the file behind, for the unit until it is started again.         *)
DetectInv ==
  tunnel # "up" =>
    \/ /\ pc = "down"
       /\ \/ ~statusHealthy /\ fileSince <= changedAt + SampleGap
          \/ wakeAt <= changedAt + SampleGap + 1
    \/ /\ pc # "down"
       /\ \/ Due
          \/ /\ ~tunnelHealthy /\ unhealthySince # 0
             /\ unhealthySince <= changedAt + SampleGap

(* Every step keeps DetectInv, when a healthy sample means a working       *)
(* tunnel.                                                                 *)
LEMMA DetectStep ==
  ASSUME "blind" \notin Faults,
         ProbeType, FileType, CallInv, LoopInv, FileInv, DetectInv,
         ProbeStep, Stamps, FreshIsDue'
  PROVE  DetectInv'
<1> SUFFICES ASSUME tunnel' # "up" PROVE DetectInv'
  BY DEF DetectInv
<1> USE SpansType DEF ProbeType, FileType, TimesType
<1>1. CASE pc = "down"
  <2>1. CASE Rests
    <3>1. UNCHANGED <<pc, now, wakeAt, statusHealthy, fileSince>>
      BY <2>1 DEF Rests, KeepsFile, fileVars
    <3>2. CASE changedAt' = now
      BY <1>1, <3>1, <3>2 DEF DetectInv, LoopInv
    <3>3. CASE changedAt' = changedAt /\ tunnel # "up"
      BY <1>1, <3>1, <3>3 DEF DetectInv
    <3> QED BY <3>2, <3>3 DEF Stamps
  <2>2. CASE Passes
    BY <1>1, <2>2 DEF Passes, KeepsFile, fileVars, DetectInv
  <2>3. CASE SeesUp
    BY <2>3, HealthyMeansUp DEF SeesUp
  <2>4. CASE Begins
    <3>1. changedAt' = now' /\ pc' # "down"
      BY <1>1, <2>4 DEF Begins
    <3> QED BY <3>1 DEF FreshIsDue, DetectInv
  <2> QED BY <1>1, <2>1, <2>2, <2>3, <2>4
          DEF ProbeStep, SeesDown, Proceeds, Fails, Returns, Dies
<1>2. CASE pc # "down"
  <2>1. CASE Rests \/ Passes \/ Begins \/ Proceeds \/ Fails \/ Returns
    <3>1. pc' # "down" /\ KeepsHealth
      BY <1>2, <2>1 DEF Rests, Passes, Begins, Proceeds, Fails, Returns
    <3>2. CASE changedAt' = changedAt /\ tunnel # "up"
      <4>1. CASE Due
        BY <1>2, <2>1, <3>1, <3>2, <4>1, DueStep DEF DetectInv
      <4>2. CASE ~Due
        BY <1>2, <3>1, <3>2, <4>2 DEF DetectInv, KeepsHealth
      <4> QED BY <4>1, <4>2
    <3>3. CASE changedAt' = now /\ now' = now
      BY <3>1, <3>3 DEF FreshIsDue, DetectInv
    <3> QED BY <2>1, <3>2, <3>3
            DEF Stamps, Rests, Passes, Begins, Proceeds, Fails, Returns
  <2>2. CASE SeesUp
    BY <2>2, HealthyMeansUp DEF SeesUp
  <2>3. ASSUME SeesDown \/ Dies PROVE DetectInv'
    <3>1. tunnel # "up" /\ (changedAt' = changedAt \/ changedAt' = now)
      BY <2>3 DEF SeesDown, Dies, Stamps
    <3>2. \/ now <= changedAt + SampleGap
          \/ /\ ~tunnelHealthy /\ unhealthySince # 0
             /\ unhealthySince <= changedAt + SampleGap
      BY <1>2, <3>1, DueBound DEF DetectInv
    <3>3. CASE SeesDown
      <4>1. /\ pc' # "down" /\ tunnelHealthy' = FALSE
            /\ unhealthySince' = (IF unhealthySince = 0 THEN now ELSE unhealthySince)
        BY <3>3 DEF SeesDown, NoteUnhealthy
      <4>2. unhealthySince' # 0 /\ unhealthySince' <= changedAt' + SampleGap
        BY <3>1, <3>2, <4>1 DEF LoopInv
      <4> QED BY <4>1, <4>2 DEF DetectInv
    <3>4. CASE Dies
      <4>1. /\ pc' = "down" /\ wakeAt' = now + 1
            /\ UNCHANGED <<statusHealthy, fileSince>>
        BY <3>4 DEF Dies, KeepsFile, fileVars
      <4>2. CASE now <= changedAt + SampleGap
        BY <3>1, <4>1, <4>2 DEF DetectInv
      <4>3. CASE /\ ~tunnelHealthy /\ unhealthySince # 0
                 /\ unhealthySince <= changedAt + SampleGap
        BY <3>1, <4>1, <4>3 DEF DetectInv, FileInv, LoopInv
      <4> QED BY <3>2, <4>2, <4>3
    <3> QED BY <2>3, <3>3, <3>4
  <2> QED BY <2>1, <2>2, <2>3 DEF ProbeStep
<1> QED BY <1>1, <1>2
(* The clocks and the file, in every reachable state.  Half of the jitter  *)
(* window has to stay below the floor of the cadence, else the timer may   *)
(* be due as soon as it is armed.                                          *)
ClockInv == FileType /\ LoopInv /\ FileInv

LEMMA ClockInvAlways ==
  ASSUME RefreshJitter \div 2 < MinRefresh
  PROVE  ProbeSpec => []ClockInv
<1>1. ProbeInit => ClockInv
  BY SpansType DEF ProbeInit, Init, ClockInv, FileType, LoopInv, FileInv,
                   Regenerating
<1>2. /\ TypeOK /\ CallInv /\ ClockInv /\ [ProbeNext]_<<vars, probeVars>>
      => ClockInv'
  BY ProbeTypeHolds, ProbeStepHolds, FileTypeStep, LoopStep, FileStep
     DEF ClockInv
<1> QED BY <1>1, <1>2, ProbeWatches, TypeCorrect, CallInvAlways, PTL
        DEF ProbeSpec

(* healthcheck.go:23, however evictions, failing attempts, crashes and the *)
(* proactive timer fall together: a tunnel that is down is reported        *)
(* MaxUnhealthy after the next sample is due, for every length of the      *)
(* intervals, the backoffs and the calls.  The limit has to be set, the    *)
(* public IP readable, and half of the jitter window below the cadence's   *)
(* floor.                                                                  *)
THEOREM OutageAlwaysReported ==
  ASSUME "blind" \notin Faults, MaxUnhealthy > 0,
         RefreshJitter \div 2 < MinRefresh
  PROVE  ProbeSpec => []ProbeDetects
<1>1. ProbeInit => DetectInv
  BY SpansType DEF ProbeInit, Init, DetectInv
<1>2. TypeOK /\ ClockInv => FreshIsDue
  BY ProbeTypeHolds, FreshIsDueHolds DEF ClockInv
<1>3. /\ TypeOK /\ CallInv /\ ClockInv /\ DetectInv /\ FreshIsDue'
      /\ [ProbeNext]_<<vars, probeVars>>
      => DetectInv'
  BY ProbeTypeHolds, ProbeStepHolds, DetectStep DEF ClockInv
<1>4. TypeOK /\ CallInv /\ ClockInv /\ DetectInv => ProbeDetects
  <2> SUFFICES ASSUME TypeOK, CallInv, ClockInv, DetectInv, tunnel # "up",
                      now - changedAt > SampleGap + MaxUnhealthy
               PROVE  ~ReportsHealthy
    BY DEF ProbeDetects
  <2> USE SpansType, ProbeAssumption
      DEF ClockInv, ProbeType, FileType, TimesType
  <2>1. ProbeType
    BY ProbeTypeHolds
  <2>2. CASE /\ ~statusHealthy /\ fileSince <= changedAt + SampleGap
    <3>1. now - fileSince > MaxUnhealthy
      BY <2>1, <2>2
    <3> QED BY <2>2, <3>1 DEF ReportsHealthy, Outage
  <2>3. CASE pc = "down" /\ wakeAt <= changedAt + SampleGap + 1
    BY <2>1, <2>3 DEF LoopInv
  <2>4. CASE pc # "down" /\ Due
    BY <2>1, <2>4, DueBound
  <2>5. CASE /\ ~tunnelHealthy /\ unhealthySince # 0
             /\ unhealthySince <= changedAt + SampleGap
    BY <2>2, <2>5 DEF FileInv
  <2> QED BY <2>2, <2>3, <2>4, <2>5 DEF DetectInv
<1> QED BY <1>1, <1>2, <1>3, <1>4, ProbeWatches, TypeCorrect, CallInvAlways,
           ClockInvAlways, PTL DEF ProbeSpec

-----------------------------------------------------------------------------
(* Once this process has seen the tunnel work, the file is not older than  *)
(* the wait for a tick, and an attempt began within that wait; only a      *)
(* regeneration that failed makes it as old as a backoff.                  *)
AgeInv ==
  lastHealthy # 0 =>
    /\ fileAt # 0
    /\ ticker <= fileAt + HealthInterval
    /\ pc = "select" => /\ now <= fileAt + AtLeast(HealthInterval, LongestBackoff)
                        /\ ~regenError => now <= fileAt + HealthInterval
    /\ pc = "sleep" => wakeAt <= fileAt + LongestBackoff /\ regenError
    /\ pc \in {"generate", "write", "record", "pending", "apply"} =>
         /\ started <= fileAt + AtLeast(HealthInterval, LongestBackoff)
         /\ ~regenError => started <= fileAt + HealthInterval

(* Every step keeps AgeInv. *)
LEMMA AgeStep ==
  ASSUME ProbeType, FileType, LoopInv, FileInv, AgeInv, ProbeStep
  PROVE  AgeInv'
<1> USE SpansType DEF ProbeType, FileType, TimesType
<1> DEFINE Wait == AtLeast(HealthInterval, LongestBackoff)
<1>0. Wait \in Nat /\ HealthInterval <= Wait /\ LongestBackoff <= Wait
  BY DEF AtLeast
<1> HIDE DEF Wait
<1>00. AgeInv <=>
         (lastHealthy # 0 =>
            /\ fileAt # 0
            /\ ticker <= fileAt + HealthInterval
            /\ pc = "select" => /\ now <= fileAt + Wait
                                /\ ~regenError => now <= fileAt + HealthInterval
            /\ pc = "sleep" => wakeAt <= fileAt + LongestBackoff /\ regenError
            /\ pc \in {"generate", "write", "record", "pending", "apply"} =>
                 /\ started <= fileAt + Wait
                 /\ ~regenError => started <= fileAt + HealthInterval)
  BY Zenon DEF AgeInv, Wait
<1>01. SUFFICES lastHealthy' # 0 =>
            /\ fileAt' # 0
            /\ ticker' <= fileAt' + HealthInterval
            /\ pc' = "select" => /\ now' <= fileAt' + Wait
                                 /\ ~regenError' => now' <= fileAt' + HealthInterval
            /\ pc' = "sleep" => wakeAt' <= fileAt' + LongestBackoff /\ regenError'
            /\ pc' \in {"generate", "write", "record", "pending", "apply"} =>
                 /\ started' <= fileAt' + Wait
                 /\ ~regenError' => started' <= fileAt' + HealthInterval
  BY Zenon DEF AgeInv, Wait
<1>1. CASE Rests \/ Proceeds
  <2>1. /\ UNCHANGED <<now, started, ticker, lastHealthy, fileAt, regenError>>
        /\ \/ pc' = pc /\ wakeAt' = wakeAt
           \/ /\ pc \in {"generate", "write", "record", "pending"}
              /\ pc' \in {"write", "record", "pending", "apply"}
    BY <1>1 DEF Rests, Proceeds, KeepsFile, KeepsHealth, fileVars
  <2> QED BY <1>00, <2>1
<1>2. CASE Passes
  <2>1. /\ UNCHANGED <<pc, started, ticker, wakeAt, lastHealthy, fileAt,
                       regenError>>
        /\ now' = now + 1 /\ Waiting
    BY <1>2 DEF Passes, KeepsFile, KeepsHealth, fileVars
  <2>2. pc = "select" => now < ticker
    BY <2>1 DEF Waiting
  <2> QED BY <1>0, <1>00, <2>1, <2>2
<1>3. CASE SeesUp
  <2>1. /\ pc' = "select" /\ fileAt' = now /\ now' = now
        /\ ticker' <= now + HealthInterval
    BY <1>3 DEF SeesUp, Flushes, Flush
  <2> QED BY <1>0, <2>1
<1>4. CASE SeesDown
  <2>1. /\ fileAt' = now /\ now' = now
        /\ ticker' <= now + HealthInterval
        /\ pc' = "select" \/ (pc' = "generate" /\ started' = now)
    BY <1>4 DEF SeesDown, Flushes, Flush
  <2> QED BY <1>0, <2>1
<1>5. CASE Begins
  <2>1. /\ pc' = "generate" /\ started' = now
        /\ UNCHANGED <<now, ticker, lastHealthy, fileAt, regenError>>
        /\ pc \in {"down", "select", "sleep"}
    BY <1>5 DEF Begins, KeepsFile, KeepsHealth, fileVars
  <2>2. lastHealthy # 0 => /\ now <= fileAt + Wait
                           /\ ~regenError => now <= fileAt + HealthInterval
    BY <1>0, <1>00, <2>1 DEF FileInv, LoopInv
  <2> QED BY <1>00, <2>1, <2>2
<1>6. CASE Fails
  <2>1. /\ pc' = "sleep" /\ wakeAt' = now + backoff /\ fileAt' = now
        /\ now' = now /\ ticker' = ticker /\ Regenerating /\ regenError' = TRUE
    BY <1>6 DEF Fails, Flushes, Flush, Regenerating
  <2> QED BY <2>1 DEF LoopInv
<1>7. CASE Returns
  <2>1. /\ pc' = "select" /\ UNCHANGED <<now, lastHealthy>>
        /\ ticker' = (IF trigger = "startup" THEN now + HealthInterval ELSE ticker)
    BY <1>7 DEF Returns, KeepsHealth
  <2>2. CASE Flushes
    BY <1>0, <2>1, <2>2 DEF Flushes, Flush, LoopInv
  <2>3. CASE pc = "sleep" /\ trigger = "reactive-recovery" /\ KeepsFile
    <3>1. regenError' = regenError
      BY <1>7, <2>3 DEF Returns
    <3> QED BY <1>0, <1>00, <2>1, <2>3, <3>1 DEF KeepsFile, fileVars, LoopInv
  <2> QED BY <1>7, <2>2, <2>3 DEF Returns
<1>8. CASE Dies
  BY <1>8 DEF Dies
<1> QED BY <1>1, <1>2, <1>3, <1>4, <1>5, <1>6, <1>7, <1>8 DEF ProbeStep

(* The file is never older than the longest silence, and outside of a      *)
(* regeneration that failed not older than a wait for a tick and an        *)
(* attempt.                                                                *)
LEMMA AgeBound ==
  ASSUME ProbeType, FileType, CallInv, LoopInv, FileInv, AgeInv, lastHealthy # 0
  PROVE  /\ fileAt # 0
         /\ now - fileAt <= LongestSilence
         /\ ~Retrying => now - fileAt <= HealthInterval + 2 * MaxCall
<1> USE SpansType DEF ProbeType, FileType, TimesType, AgeInv
<1>0. /\ AtLeast(HealthInterval, LongestBackoff) \in Nat
      /\ LongestBackoff <= AtLeast(HealthInterval, LongestBackoff)
  BY DEF AtLeast
<1>1. CASE pc = "select"
  BY <1>0, <1>1 DEF LongestSilence, Retrying
<1>2. CASE pc = "sleep"
  BY <1>0, <1>2 DEF LoopInv, LongestSilence, Retrying
<1>3. CASE pc \in {"generate", "write", "record", "pending", "apply"}
  <2>1. now <= started + 2 * MaxCall
    BY <1>3 DEF CallInv
  <2> QED BY <1>0, <1>3, <2>1 DEF LongestSilence, Retrying
<1> QED BY <1>1, <1>2, <1>3 DEF FileInv

-----------------------------------------------------------------------------
(* A tunnel that connects or is up has a registration, and the one of a    *)
(* tunnel that stays up is not replaced.                                   *)
LoadedInv == tunnel # "dead" => running # 0

LEMMA LoadedStep ==
  ASSUME TypeOK, NamesInv, LoopInv, LoadedInv, [Next]_vars
  PROVE  LoadedInv' /\ (tunnel = "up" /\ tunnel' = "up" => running' = running)
<1> USE DEF LoadedInv
<1>1. CASE UNCHANGED running /\ (tunnel' # "dead" => tunnel # "dead")
  BY <1>1
<1>2. CASE StartGluetun /\ configReg # 0
  BY <1>2 DEF StartGluetun
<1>3. CASE Apply \/ RestartFails
  <2>1. pc = "apply" /\ (StartGluetun \/ UNCHANGED worldVars)
    BY <1>3 DEF Apply, RestartFails
  <2>2. configReg # 0
    BY <2>1 DEF NamesInv, LoopInv, Regenerating
  <2> QED BY <1>1, <1>2, <2>1, <2>2 DEF worldVars
<1>4. CASE Reload
  BY <1>2, <1>4 DEF Reload
<1>5. CASE Evict \/ Connect
  BY <1>1, <1>5 DEF Evict, Connect
<1>6. CASE \/ UNCHANGED vars \/ Tick \/ Horizon \/ Adopt \/ Startup \/ Crash
           \/ HealthyTick \/ UnhealthyTick \/ RecoverTick \/ ProactiveFire
           \/ GenerateOK \/ GenerateFails \/ WriteConfig \/ WriteConfigFails
           \/ RecordBirth \/ WritePending \/ WritePendingFails \/ Retry
           \/ GiveUp
  <2>1. UNCHANGED worldVars
    BY <1>6 DEF vars, Tick, Horizon, Adopt, Startup, Crash, HealthyTick,
         UnhealthyTick, RecoverTick, ProactiveFire, GenerateOK, GenerateFails,
         WriteConfig, WriteConfigFails, RecordBirth, WritePending,
         WritePendingFails, Retry, GiveUp
  <2> QED BY <1>1, <2>1 DEF worldVars
<1> QED BY <1>3, <1>4, <1>5, <1>6 DEF Next

(* The file does not expect the running registration to end too early. *)
ExpiryCovers ==
  fileExpiry # 0 =>
    /\ ExpectedExpiry(running, observed) # 0
    /\ ExpectedExpiry(running, observed) <= fileExpiry

(* While the tunnel is up, either no sample is overdue since it came up,   *)
(* or the daemon knows that it is.                                         *)
QuietInv ==
  pc # "down" /\ tunnel = "up" => Due \/ (tunnelHealthy /\ ExpiryCovers)

(* Every step keeps QuietInv, when an unhealthy sample means a tunnel that *)
(* does not work and the record is that of what runs or of a later one.    *)
LEMMA QuietStep ==
  ASSUME "flap" \notin Faults,
         ProbeType, FileType, CallInv, BirthInv, LoopInv, LoadedInv, QuietInv,
         ProbeStep, Stamps, FreshIsDue',
         tunnel = "up" /\ tunnel' = "up" => running' = running
  PROVE  QuietInv'
<1> SUFFICES ASSUME pc' # "down", tunnel' = "up", changedAt' # now \/ now' # now
             PROVE  Due' \/ (tunnelHealthy /\ ExpiryCovers)'
  BY DEF QuietInv, FreshIsDue
<1> USE DEF ProbeType, TimesType
<1>1. changedAt' = changedAt /\ tunnel = "up" /\ running' = running /\ running # 0
  <2>1. changedAt' = now => now' = now \/ changedAt' = changedAt
    BY DEF ProbeStep, Rests, Passes, SeesUp, SeesDown, Begins, Proceeds,
           Fails, Returns, Dies
  <2>2. changedAt' = changedAt
    BY <2>1 DEF Stamps
  <2>3. tunnel = "up"
    BY <2>1 DEF Stamps, ProbeStep, Rests, Passes, SeesUp, SeesDown, Begins,
                Proceeds, Fails, Returns, Dies
  <2> QED BY <2>2, <2>3 DEF LoadedInv
<1>2. ASSUME Flushes, pc # "record", observed' = observed
      PROVE  ExpiryCovers'
  <2>1. fileExpiry' = ExpectedExpiry(birth, observed)
    BY <1>2 DEF Flushes, Flush
  <2>2. running # 0 /\ running <= birth
    BY <1>1, <1>2 DEF BirthInv
  <2>3. fileExpiry' # 0 =>
          /\ ExpectedExpiry(running, observed) # 0
          /\ ExpectedExpiry(running, observed) <= fileExpiry'
    BY <2>1, <2>2, ExpiryBounds
  <2> QED BY <1>1, <1>2, <2>3 DEF ExpiryCovers
<1>3. CASE SeesUp
  <2>1. Flushes /\ pc # "record" /\ observed' = observed /\ tunnelHealthy' = TRUE
    BY <1>3 DEF SeesUp
  <2> QED BY <1>2, <2>1
<1>4. CASE SeesDown
  BY <1>1, <1>4, UnhealthyMeansDown DEF SeesDown
<1>5. CASE Rests \/ Passes \/ Begins \/ Proceeds \/ Fails \/ Returns
  <2>1. pc # "down"
    BY <1>1, <1>5 DEF Rests, Passes, Begins, Proceeds, Fails, Returns
  <2>2. CASE Due
    BY <1>1, <1>5, <2>1, <2>2, DueStep
  <2>3. CASE tunnelHealthy /\ ExpiryCovers
    <3>1. tunnelHealthy' /\ observed' = observed
      BY <1>5, <2>3 DEF Rests, Passes, Begins, Proceeds, Fails, Returns,
                        KeepsHealth
    <3>2. CASE KeepsFile
      BY <1>1, <2>3, <3>1, <3>2 DEF KeepsFile, fileVars, ExpiryCovers
    <3>3. CASE ~KeepsFile
      <4>1. Flushes /\ pc # "record"
        BY <1>5, <3>3 DEF Rests, Passes, Begins, Proceeds, Fails, Returns
      <4> QED BY <1>2, <3>1, <4>1
    <3> QED BY <3>2, <3>3
  <2> QED BY <1>1, <2>1, <2>2, <2>3 DEF QuietInv
<1> QED BY <1>3, <1>4, <1>5 DEF ProbeStep, Dies

(* healthcheck.go:15, the probe is quiet however refreshes, their failures *)
(* and slow calls fall: once the daemon has seen the tunnel work, it is    *)
(* called unhealthy only while it is down, was so until not long ago, or   *)
(* outlived its expiry, or for the age of the file while a regeneration    *)
(* that failed is tried again.  The limit on that age has to cover a wait  *)
(* for a tick and the two calls of an attempt, as the default does; the    *)
(* control server has to answer, and the record has to be that of the      *)
(* registration gluetun runs or of a later one: saving it succeeds, and    *)
(* gluetun is not restarted from a config that a crash left unrecorded.    *)
THEOREM WorkingTunnelNeverBlamed ==
  ASSUME "flap" \notin Faults, "record" \notin Faults,
         "crash" \notin Faults \/ "reload" \notin Faults,
         StatusAgeCovers, RefreshJitter \div 2 < MinRefresh
  PROVE  ProbeSpec => []ProbeQuiet
<1> DEFINE Known == AgeInv /\ LoadedInv /\ QuietInv
<1>1. ProbeInit => Known
  BY DEF ProbeInit, Init, AgeInv, LoadedInv, QuietInv
<1>2. TypeOK /\ ClockInv => FreshIsDue
  BY ProbeTypeHolds, FreshIsDueHolds DEF ClockInv
<1>3. /\ TypeOK /\ NamesInv /\ CallInv /\ BirthInv /\ ClockInv
      /\ Known /\ FreshIsDue' /\ [ProbeNext]_<<vars, probeVars>> /\ [Next]_vars
      => Known'
  <2> SUFFICES ASSUME TypeOK, NamesInv, CallInv, BirthInv, ClockInv, Known,
                      FreshIsDue', [ProbeNext]_<<vars, probeVars>>, [Next]_vars
               PROVE  Known'
    OBVIOUS
  <2>1. ProbeType /\ ProbeStep /\ Stamps
    BY ProbeTypeHolds, ProbeStepHolds
  <2>2. AgeInv'
    BY <2>1, AgeStep DEF ClockInv
  <2>3. LoadedInv' /\ (tunnel = "up" /\ tunnel' = "up" => running' = running)
    BY LoadedStep DEF ClockInv
  <2>4. QuietInv'
    BY <2>1, <2>3, QuietStep DEF ClockInv
  <2> QED BY <2>2, <2>3, <2>4
<1>4. TypeOK /\ NamesInv /\ CallInv /\ ClockInv /\ Known => ProbeQuiet
  <2> SUFFICES ASSUME TypeOK, NamesInv, CallInv, ClockInv, Known,
                      lastHealthy # 0, ~ReportsHealthy, tunnel = "up",
                      ~(now - changedAt <= SampleGap),
                      ~(/\ Retrying
                        /\ 0 < MaxStatusAge /\ MaxStatusAge < now - fileAt
                        /\ now - fileAt <= LongestSilence)
               PROVE  LET expiry == ExpectedExpiry(running, observed)
                      IN  expiry # 0 /\ now - expiry > ExpiryGrace
    BY DEF ProbeQuiet
  <2> USE SpansType, ProbeAssumption DEF ClockInv, FileType
  <2>1. ProbeType
    BY ProbeTypeHolds
  <2>2. pc # "down"
    BY DEF FileInv
  <2>3. tunnelHealthy /\ ExpiryCovers
    <3>1. ~Due
      BY <2>1, <2>2, DueBound DEF ProbeType, TimesType
    <3> QED BY <2>2, <3>1 DEF QuietInv
  <2>4. ~Outage
    BY <2>3 DEF FileInv, Outage
  <2>5. fileAt # 0 /\ ~Stuck
    <3>1. /\ fileAt # 0
          /\ now - fileAt <= LongestSilence
          /\ ~Retrying => now - fileAt <= HealthInterval + 2 * MaxCall
      BY <2>1, AgeBound
    <3> QED BY <2>1, <3>1 DEF StatusAgeCovers, Stuck, ProbeType, TimesType
  <2>6. configReg # 0
    BY <2>1 DEF LoadedInv, NamesInv, ProbeType, TimesType
  <2>7. fileExpiry # 0 /\ now - fileExpiry > ExpiryGrace
    BY <2>4, <2>5, <2>6 DEF ReportsHealthy, Overdue
  <2>8. ExpectedExpiry(running, observed) \in Nat
    BY <2>1, ExpiryBounds DEF ProbeType, TimesType
  <2> QED BY <2>1, <2>3, <2>7, <2>8 DEF ExpiryCovers, ProbeType, TimesType
<1> QED BY <1>1, <1>2, <1>3, <1>4, ProbeStepWatches, ProbeWatches,
           TypeCorrect, NamesInvAlways, CallInvAlways, BirthInvAlways,
           ClockInvAlways, PTL DEF ProbeSpec
=============================================================================
