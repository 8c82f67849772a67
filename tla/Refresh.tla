------------------------------- MODULE Refresh -------------------------------
(***************************************************************************)
(* The refresh daemon of src/refresh.go: one goroutine that samples the    *)
(* tunnel through gluetun's control server, registers a new WireGuard key  *)
(* proactively or when the tunnel is dead, writes the files of the state   *)
(* directory and restarts gluetun.  Around it: PIA, which evicts keys,     *)
(* gluetun, which runs the config it last loaded, and the disk.            *)
(*                                                                         *)
(* Time is a whole number of units and 0 is Go's zero time.  Code between  *)
(* two blocking calls takes no time; a registration or a container restart *)
(* takes up to MaxCall, a registration at least MinCall: above 0 no two    *)
(* attempts share a name.  A registration is named by the time at which    *)
(* regenerateOnce began, which is the birth the daemon records for it.     *)
(*                                                                         *)
(* Faults is the set of things that may go wrong in a run:                 *)
(*   "generate"  token, server list or addKey fails, nothing registered    *)
(*   "leak"      the key was registered but its answer was lost            *)
(*   "write"     wg0.conf cannot be written                                *)
(*   "record"    registration_lifetime.json cannot be written              *)
(*   "pending"   pending_port_forward.json cannot be written               *)
(*   "restart"   the Docker API refuses to restart gluetun                 *)
(*   "answer"    gluetun is restarted but the API's answer is lost         *)
(*   "status"    status.json cannot be written                             *)
(*   "flap"      the control server does not answer although the tunnel is up *)
(*   "blind"     the public IP cannot be read, the status alone is trusted *)
(*   "reload"    something else restarts gluetun                           *)
(*   "crash"     the daemon's container dies and is started again          *)
(***************************************************************************)
EXTENDS Lifetime, ControlServer

CONSTANTS
  HealthInterval,      \* --health-check-interval
  UnhealthyThreshold,  \* --unhealthy-threshold
  RecoveryCooldown,    \* --recovery-cooldown (its default when not positive)
  CooldownCap,         \* recoveryCooldownCap, 30 minutes in the code
  BackoffMin,          \* --recovery-backoff-min
  BackoffMax,          \* --recovery-backoff-max
  MaxRegenAttempts,    \* maxRegenAttempts, 6 in the code
  AlertAfter,          \* --alert-after
  PortForwarding,      \* --port-forwarding
  AdoptHealthy,        \* --adopt-healthy-registration
  Regions,             \* the regions the operator may configure
  Faults,              \* see above
  MinCall,             \* shortest registration
  MaxCall,             \* longest blocking call
  MaxTime              \* bound on the clock, for model checking

AllFaults == {"generate", "leak", "write", "record", "pending", "restart",
              "answer", "status", "flap", "blind", "reload", "crash"}

ASSUME RefreshAssumption ==
  /\ HealthInterval \in Nat \ {0}
  /\ UnhealthyThreshold \in Nat
  /\ RecoveryCooldown \in Nat \ {0}
  /\ CooldownCap \in Nat \ {0}
  /\ BackoffMin \in Nat
  /\ BackoffMax \in Nat
  /\ MaxRegenAttempts \in Nat \ {0}
  /\ AlertAfter \in Nat
  /\ PortForwarding \in BOOLEAN
  /\ AdoptHealthy \in BOOLEAN
  /\ Regions # {}
  /\ Faults \subseteq AllFaults
  /\ MinCall \in Nat /\ MaxCall \in Nat /\ MinCall <= MaxCall
  /\ MaxTime \in Nat

VARIABLES
  now,                   \* the clock
  \* where the daemon is
  pc,                    \* "down", "select", "generate", "write", "record",
                         \* "pending", "apply" or "sleep"
  wakeAt,                \* when the blocking call or the sleep is over
  region,                \* the region this process was started with
  trigger,               \* why regenerateWithBackoff runs
  attempt,               \* its loop counter
  backoff,               \* the next sleep
  started,               \* regenerateOnce's now
  \* refreshRuntime, guarded by stateMu
  tunnelHealthy, lastHealthy, confirmedHealthy, healthySinceRecovery,
  ineffectiveRecoveries, consecutiveUnhealth, lastRecovery, recoveryCount,
  regenError, nextRefresh,
  timer,                 \* when proactiveTimer fires
  ticker,                \* when healthTicker fires next
  failures, alerted,     \* outagePolicy
  \* the state directory
  configReg,                     \* wg0.conf: a registration
  birth, observed,               \* registration_lifetime.json
  pendingPF,                     \* pending_port_forward.json: a registration
  statusRegion, statusHealthy,   \* status.json
  \* gluetun and PIA
  running,               \* the registration gluetun loaded, 0 for none
  tunnel,                \* "connecting", "up", or "dead": PIA evicted it
  deadSince,             \* when the running registration was evicted
  \* history
  lastMint,              \* last reactive registration since a healthy sample
  recsSinceHealthy       \* reactive recoveries since a healthy sample

loopVars   == <<pc, wakeAt, region, trigger, attempt, backoff, started>>
healthVars == <<tunnelHealthy, lastHealthy, confirmedHealthy,
                healthySinceRecovery, ineffectiveRecoveries,
                consecutiveUnhealth>>
recVars    == <<lastRecovery, recoveryCount>>
timerVars  == <<nextRefresh, timer, ticker>>
policyVars == <<failures, alerted>>
recordVars == <<birth, observed>>
statusVars == <<statusRegion, statusHealthy>>
diskVars   == <<configReg, recordVars, pendingPF, statusVars>>
worldVars  == <<running, tunnel, deadSince>>
histVars   == <<lastMint, recsSinceHealthy>>
vars == <<now, loopVars, healthVars, recVars, regenError, timerVars,
          policyVars, diskVars, worldVars, histVars>>

Triggers == {"none", "startup", "proactive", "reactive-recovery"}

(* An empty state directory, and a gluetun that has no config to load. *)
Init ==
  /\ now = 1
  /\ wakeAt = 1
  /\ region \in Regions
  /\ pc = "down"
  /\ trigger = "none" /\ attempt = 0 /\ backoff = 0 /\ started = 0
  /\ tunnelHealthy = FALSE /\ lastHealthy = 0
  /\ confirmedHealthy = FALSE /\ healthySinceRecovery = FALSE
  /\ ineffectiveRecoveries = 0 /\ consecutiveUnhealth = 0
  /\ lastRecovery = 0 /\ recoveryCount = 0
  /\ regenError = FALSE
  /\ nextRefresh = 0 /\ timer = 0 /\ ticker = 0
  /\ failures = 0 /\ alerted = FALSE
  /\ lastMint = 0 /\ recsSinceHealthy = 0
  /\ configReg = 0
  /\ birth = 0 /\ observed = FreshObserved
  /\ pendingPF = 0
  /\ statusRegion = {} /\ statusHealthy = FALSE
  /\ running = 0 /\ tunnel = "dead" /\ deadSince = 0

-----------------------------------------------------------------------------
(* Time passes while the daemon waits: for a call, a sleep, or a channel.  *)
Waiting ==
  \/ pc \in {"down", "generate", "apply", "sleep"} /\ now < wakeAt
  \/ pc = "select" /\ now < ticker /\ now < timer

Tick ==
  /\ now < MaxTime
  /\ Waiting
  /\ now' = now + 1
  /\ UNCHANGED <<loopVars, healthVars, recVars, regenError, timerVars,
                 policyVars, diskVars, worldVars, histVars>>

-----------------------------------------------------------------------------
(* PIA drops the peer of the running registration. *)
Evict ==
  /\ tunnel # "dead"
  /\ tunnel' = "dead"
  /\ deadSince' = now
  /\ UNCHANGED <<now, loopVars, healthVars, recVars, regenError, timerVars,
                 policyVars, diskVars, running, histVars>>

(* The WireGuard handshake of the running registration completes. *)
Connect ==
  /\ tunnel = "connecting"
  /\ tunnel' = "up"
  /\ UNCHANGED <<now, loopVars, healthVars, recVars, regenError, timerVars,
                 policyVars, diskVars, running, deadSince, histVars>>

(* gluetun starts from wg0.conf as it is on disk. *)
StartGluetun ==
  /\ running' = configReg
  /\ tunnel' = IF configReg = running /\ tunnel = "dead"
                 THEN "dead" ELSE "connecting"
  /\ UNCHANGED deadSince

(* Something other than the daemon restarts gluetun. *)
Reload ==
  /\ "reload" \in Faults
  /\ configReg # 0
  /\ StartGluetun
  /\ UNCHANGED <<now, loopVars, healthVars, recVars, regenError, timerVars,
                 policyVars, diskVars, histVars>>

(* What CheckTunnelViaControlServer may report as Healthy. *)
Samples ==
  {CheckTunnel(a) : a \in Answers(tunnel = "up", "flap" \in Faults,
                                  "blind" \in Faults)}

-----------------------------------------------------------------------------
(* flushStatus, once per step: later flushes of a step overwrite earlier   *)
(* ones.  A failing write is only logged.                                  *)
FlushStatus(r, healthy) ==
  \/ statusRegion' = {r} /\ statusHealthy' = healthy
  \/ "status" \in Faults /\ UNCHANGED statusVars

(* outagePolicy.failure, called by noteFailedAttempt. *)
NoteFailedAttempt ==
  /\ failures' = failures + 1
  /\ alerted' = (alerted \/ (AlertAfter > 0 /\ failures + 1 >= AlertAfter))

(* observe with a healthy sample. *)
ObserveHealthy(r) ==
  /\ tunnelHealthy' = TRUE
  /\ lastHealthy' = now
  /\ confirmedHealthy' = TRUE
  /\ healthySinceRecovery' = TRUE
  /\ ineffectiveRecoveries' = 0
  /\ consecutiveUnhealth' = 0
  /\ failures' = 0 /\ alerted' = FALSE
  /\ lastMint' = 0 /\ recsSinceHealthy' = 0
  /\ FlushStatus(r, TRUE)

(* observe with an unhealthy sample. *)
ObserveUnhealthy ==
  /\ tunnelHealthy' = FALSE
  /\ consecutiveUnhealth' = consecutiveUnhealth + 1
  /\ FlushStatus(region, FALSE)

(* armNextRefresh, and the proactive timer set to what it returns. *)
ArmTimer(b, obs) ==
  \E d \in NextProactiveDelays(b, obs, now) :
    nextRefresh' = now + d /\ timer' = now + d

(* Mutant: a new registration does not move the schedule. *)
TimerKept_Always(due, b) == TRUE

(* rearm leaves the timer alone, with nextRefreshUTC = due: the birth is   *)
(* unknown, or it is two health intervals old and before the schedule.     *)
TimerKept(due, b) ==
  b = 0 \/ (due > b + OneMinute /\ now - b > 2 * HealthInterval)

Rearm(due, b, obs) ==
  IF TimerKept(due, b)
    THEN nextRefresh' = due /\ UNCHANGED timer
    ELSE ArmTimer(b, obs)

(* regenerateOnce begins: it notes the time and calls PIA. *)
BeginAttempt(why, n, wait) ==
  /\ pc' = "generate"
  /\ trigger' = why /\ attempt' = n /\ backoff' = wait
  /\ started' = now
  /\ wakeAt' \in (now + MinCall)..(now + MaxCall)

(* regenerateWithBackoff returned with nextRefreshUTC = due; its caller    *)
(* goes on to the select loop.                                             *)
ReturnToLoop(due) ==
  /\ pc' = "select"
  /\ trigger' = "none" /\ attempt' = 0 /\ backoff' = 0 /\ started' = 0
  /\ wakeAt' = 0
  /\ UNCHANGED region
  /\ \/ trigger = "startup" /\ ArmTimer(birth, observed)
        /\ ticker' = now + HealthInterval
     \/ trigger = "proactive" /\ ArmTimer(birth, observed) /\ UNCHANGED ticker
     \/ trigger = "reactive-recovery" /\ Rearm(due, birth, observed)
        /\ UNCHANGED ticker

(* regenerateWithBackoff's error path: the error is published and counted, *)
(* and the loop sleeps, after the last attempt too.                        *)
FailAttempt ==
  /\ regenError' = TRUE
  /\ NoteFailedAttempt
  /\ FlushStatus(region, tunnelHealthy)
  /\ pc' = "sleep"
  /\ wakeAt' = now + backoff
  /\ backoff' = AtMost(2 * backoff, BackoffMax)
  /\ UNCHANGED <<now, region, trigger, attempt, started, healthVars, recVars,
                 timerVars>>

-----------------------------------------------------------------------------
(* Mutant: a registration is adopted however old it is. *)
Adoptable_AnyAge(r) ==
  /\ AdoptHealthy
  /\ configReg # 0
  /\ birth # 0
  /\ statusRegion = {r}

(* tryAdopt's conditions before it asks the control server. *)
Adoptable(r) ==
  /\ AdoptHealthy
  /\ configReg # 0
  /\ birth # 0
  /\ statusRegion = {r}
  /\ now - birth < SafeRefreshInterval(observed) - HealthInterval

(* runRefresh starts and adopts the registration it finds. *)
Adopt ==
  /\ pc = "down" /\ now >= wakeAt
  /\ TRUE \in Samples
  /\ \E r \in Regions : Adoptable(r) /\ region' = r /\ ObserveHealthy(r)
  /\ ArmTimer(birth, observed)
  /\ ticker' = now + HealthInterval
  /\ pc' = "select"
  /\ UNCHANGED <<now, wakeAt, trigger, attempt, backoff, started, recVars,
                 regenError, configReg, recordVars, pendingPF, worldVars>>

(* runRefresh starts and registers afresh. *)
Startup ==
  /\ pc = "down" /\ now >= wakeAt
  /\ \E r \in Regions : region' = r /\ (Adoptable(r) => FALSE \in Samples)
  /\ BeginAttempt("startup", 1, BackoffMin)
  /\ UNCHANGED <<now, healthVars, recVars, regenError, timerVars, policyVars,
                 diskVars, worldVars, histVars>>

(* The container dies, at any point, and is started again a unit later:    *)
(* everything but the state directory and gluetun is lost.                 *)
Crash ==
  /\ "crash" \in Faults
  /\ pc # "down"
  /\ pc' = "down"
  /\ trigger' = "none" /\ attempt' = 0 /\ backoff' = 0 /\ started' = 0
  /\ tunnelHealthy' = FALSE /\ lastHealthy' = 0
  /\ confirmedHealthy' = FALSE /\ healthySinceRecovery' = FALSE
  /\ ineffectiveRecoveries' = 0 /\ consecutiveUnhealth' = 0
  /\ lastRecovery' = 0 /\ recoveryCount' = 0
  /\ regenError' = FALSE
  /\ nextRefresh' = 0 /\ timer' = 0 /\ ticker' = 0
  /\ failures' = 0 /\ alerted' = FALSE
  /\ lastMint' = 0 /\ recsSinceHealthy' = 0
  /\ wakeAt' = now + 1
  /\ UNCHANGED <<now, region, diskVars, worldVars>>

-----------------------------------------------------------------------------
(* The health ticker's channel holds one tick; ticks missed are dropped.   *)
ReadTicker ==
  /\ pc = "select" /\ now >= ticker
  /\ ticker' = ticker + HealthInterval * ((now - ticker) \div HealthInterval + 1)

(* effectiveCooldownLocked, after n ineffective recoveries. *)
EffectiveCooldown[n \in Nat] ==
  AtMost(IF n = 0 THEN RecoveryCooldown ELSE 2 * EffectiveCooldown[n - 1],
         CooldownCap)

(* Mutant: the end of the cooldown is missed by one. *)
InCooldown_OffByOne ==
  /\ lastRecovery # 0
  /\ now - lastRecovery <= EffectiveCooldown[ineffectiveRecoveries]

InCooldown ==
  /\ lastRecovery # 0
  /\ now - lastRecovery < EffectiveCooldown[ineffectiveRecoveries]

(* onHealthTick's decision, with the sample just counted. *)
MustRecover ==
  /\ consecutiveUnhealth + 1 >= AtLeast(UnhealthyThreshold, 1)
  /\ ~InCooldown

HealthyTick ==
  /\ ReadTicker
  /\ TRUE \in Samples
  /\ ObserveHealthy(region)
  /\ Rearm(nextRefresh, birth, observed)
  /\ UNCHANGED <<now, loopVars, recVars, regenError, configReg, recordVars,
                 pendingPF, worldVars>>

(* An unhealthy sample below the threshold, or within the cooldown. *)
UnhealthyTick ==
  /\ ReadTicker
  /\ FALSE \in Samples
  /\ ~MustRecover
  /\ ObserveUnhealthy
  /\ Rearm(nextRefresh, birth, observed)
  /\ UNCHANGED <<now, loopVars, lastHealthy, confirmedHealthy,
                 healthySinceRecovery, ineffectiveRecoveries, recVars,
                 regenError, policyVars, configReg, recordVars, pendingPF,
                 worldVars, histVars>>

(* Mutant: an ineffective recovery counts for the alert only. *)
AccountForPreviousRecovery_NoEscalation ==
  /\ IF recoveryCount > 0 /\ ~healthySinceRecovery
       THEN NoteFailedAttempt ELSE UNCHANGED policyVars
  /\ UNCHANGED ineffectiveRecoveries

(* accountForPreviousRecovery. *)
AccountForPreviousRecovery ==
  IF recoveryCount > 0 /\ ~healthySinceRecovery
    THEN /\ ineffectiveRecoveries' = ineffectiveRecoveries + 1
         /\ NoteFailedAttempt
    ELSE UNCHANGED <<ineffectiveRecoveries, policyVars>>

(* Mutant: the loss is dated when it is detected. *)
RecordLossIfMeasurable_AtDetection ==
  /\ observed' = IF confirmedHealthy /\ lastHealthy # 0
                   THEN RecordObservedLoss(birth, observed, now) ELSE observed
  /\ UNCHANGED <<birth, histVars>>

(* recordLossIfMeasurable; a failing save is only logged. *)
RecordLossIfMeasurable ==
  /\ \/ observed' = IF confirmedHealthy /\ lastHealthy # 0
                      THEN RecordObservedLoss(birth, observed, lastHealthy)
                      ELSE observed
     \/ "record" \in Faults /\ UNCHANGED observed
  /\ UNCHANGED <<birth, histVars>>

(* An unhealthy sample that starts a reactive recovery. *)
RecoverTick ==
  /\ ReadTicker
  /\ FALSE \in Samples
  /\ MustRecover
  /\ ObserveUnhealthy
  /\ AccountForPreviousRecovery
  /\ RecordLossIfMeasurable
  /\ BeginAttempt("reactive-recovery", 1, BackoffMin)
  /\ UNCHANGED <<now, region, lastHealthy, confirmedHealthy,
                 healthySinceRecovery, recVars, regenError, nextRefresh, timer,
                 configReg, pendingPF, worldVars>>

(* The proactive timer's channel is read. *)
ProactiveFire ==
  /\ pc = "select" /\ now >= timer
  /\ BeginAttempt("proactive", 1, BackoffMin)
  /\ UNCHANGED <<now, region, healthVars, recVars, regenError, timerVars,
                 policyVars, diskVars, worldVars, histVars>>

-----------------------------------------------------------------------------
(* History: a key was registered. *)
Mint ==
  /\ lastMint' = IF trigger = "reactive-recovery" THEN now ELSE lastMint
  /\ UNCHANGED recsSinceHealthy

(* Mutant: the birth is recorded before the config is on disk. *)
GenerateOK_RecordsBirth ==
  /\ pc = "generate" /\ now >= wakeAt
  /\ pc' = "write"
  /\ birth' = started
  /\ Mint
  /\ UNCHANGED <<now, wakeAt, region, trigger, attempt, backoff, started,
                 healthVars, recVars, regenError, timerVars, policyVars,
                 configReg, observed, pendingPF, statusVars, worldVars>>

GenerateOK ==
  /\ pc = "generate" /\ now >= wakeAt
  /\ pc' = "write"
  /\ Mint
  /\ UNCHANGED <<now, wakeAt, region, trigger, attempt, backoff, started,
                 healthVars, recVars, regenError, timerVars, policyVars,
                 diskVars, worldVars>>

GenerateFails ==
  /\ pc = "generate" /\ now >= wakeAt
  /\ \/ "generate" \in Faults /\ UNCHANGED histVars
     \/ "leak" \in Faults /\ Mint
  /\ FailAttempt
  /\ UNCHANGED <<configReg, recordVars, pendingPF, worldVars>>

WriteConfig ==
  /\ pc = "write"
  /\ configReg' = started
  /\ pc' = "record"
  /\ UNCHANGED <<now, wakeAt, region, trigger, attempt, backoff, started,
                 healthVars, recVars, regenError, timerVars, policyVars,
                 recordVars, pendingPF, statusVars, worldVars, histVars>>

WriteConfigFails ==
  /\ pc = "write"
  /\ "write" \in Faults
  /\ FailAttempt
  /\ UNCHANGED <<configReg, recordVars, pendingPF, worldVars, histVars>>

(* RecordNewRegistration; a failing save is only logged. *)
RecordBirth ==
  /\ pc = "record"
  /\ birth' = started \/ ("record" \in Faults /\ UNCHANGED birth)
  /\ IF PortForwarding
       THEN pc' = "pending" /\ UNCHANGED wakeAt
       ELSE pc' = "apply" /\ wakeAt' \in now..(now + MaxCall)
  /\ UNCHANGED <<now, region, trigger, attempt, backoff, started, healthVars,
                 recVars, regenError, timerVars, policyVars, configReg,
                 observed, pendingPF, statusVars, worldVars, histVars>>

(* Mutant: the metadata handed over is that of the running registration.   *)
WritePending_Running ==
  /\ pc = "pending"
  /\ pendingPF' = running
  /\ pc' = "apply" /\ wakeAt' \in now..(now + MaxCall)
  /\ UNCHANGED <<now, region, trigger, attempt, backoff, started, healthVars,
                 recVars, regenError, timerVars, policyVars, configReg,
                 recordVars, statusVars, worldVars, histVars>>

WritePending ==
  /\ pc = "pending"
  /\ pendingPF' = started
  /\ pc' = "apply" /\ wakeAt' \in now..(now + MaxCall)
  /\ UNCHANGED <<now, region, trigger, attempt, backoff, started, healthVars,
                 recVars, regenError, timerVars, policyVars, configReg,
                 recordVars, statusVars, worldVars, histVars>>

(* Mutant: the failure to hand over the metadata is only logged. *)
WritePendingFails_Ignored ==
  /\ pc = "pending"
  /\ pc' = "apply" /\ wakeAt' \in now..(now + MaxCall)
  /\ UNCHANGED <<now, region, trigger, attempt, backoff, started, healthVars,
                 recVars, regenError, timerVars, policyVars, diskVars,
                 worldVars, histVars>>

WritePendingFails ==
  /\ pc = "pending"
  /\ "pending" \in Faults
  /\ FailAttempt
  /\ UNCHANGED <<configReg, recordVars, pendingPF, worldVars, histVars>>

(* The bookkeeping of a recovery that was applied. *)
NoteRecovery ==
  IF trigger = "reactive-recovery"
    THEN /\ lastRecovery' = now
         /\ recoveryCount' = recoveryCount + 1
         /\ healthySinceRecovery' = FALSE
         /\ confirmedHealthy' = FALSE
         /\ consecutiveUnhealth' = 0
         /\ recsSinceHealthy' = recsSinceHealthy + 1
         /\ UNCHANGED <<tunnelHealthy, lastHealthy, ineffectiveRecoveries,
                       lastMint>>
    ELSE UNCHANGED <<healthVars, recVars, histVars>>

(* The config hook has run and gluetun was restarted: regenerateOnce arms  *)
(* the next refresh and regenerateWithBackoff returns.                     *)
Apply ==
  /\ pc = "apply" /\ now >= wakeAt
  /\ StartGluetun
  /\ regenError' = FALSE
  /\ NoteRecovery
  /\ \E d \in NextProactiveDelays(birth, observed, now) : ReturnToLoop(now + d)
  /\ FlushStatus(region, tunnelHealthy)
  /\ UNCHANGED <<now, policyVars, configReg, recordVars, pendingPF>>

(* The Docker API reports a failure, or nothing within its time-out. *)
RestartFails ==
  /\ pc = "apply" /\ now >= wakeAt
  /\ \/ "restart" \in Faults /\ UNCHANGED worldVars
     \/ "answer" \in Faults /\ StartGluetun
  /\ FailAttempt
  /\ UNCHANGED <<configReg, recordVars, pendingPF, histVars>>

(* The backoff is over and an attempt is left. *)
Retry ==
  /\ pc = "sleep" /\ now >= wakeAt
  /\ attempt < MaxRegenAttempts
  /\ BeginAttempt(trigger, attempt + 1, backoff)
  /\ UNCHANGED <<now, region, healthVars, recVars, regenError, timerVars,
                 policyVars, diskVars, worldVars, histVars>>

(* The backoff after the last attempt is over. *)
GiveUp ==
  /\ pc = "sleep" /\ now >= wakeAt
  /\ attempt = MaxRegenAttempts
  /\ ReturnToLoop(nextRefresh)
  /\ IF trigger = "reactive-recovery" /\ TimerKept(nextRefresh, birth)
       THEN UNCHANGED statusVars
       ELSE FlushStatus(region, tunnelHealthy)
  /\ UNCHANGED <<now, healthVars, recVars, regenError, policyVars, configReg,
                 recordVars, pendingPF, worldVars, histVars>>

(* The clock's bound is reached; the behaviour ends here. *)
Horizon ==
  /\ now = MaxTime
  /\ UNCHANGED vars

Next ==
  \/ Tick \/ Horizon \/ Evict \/ Connect \/ Reload
  \/ Adopt \/ Startup \/ Crash
  \/ HealthyTick \/ UnhealthyTick \/ RecoverTick \/ ProactiveFire
  \/ GenerateOK \/ GenerateFails \/ WriteConfig \/ WriteConfigFails
  \/ RecordBirth \/ WritePending \/ WritePendingFails
  \/ Apply \/ RestartFails \/ Retry \/ GiveUp

Spec == Init /\ [][Next]_vars

-----------------------------------------------------------------------------
LoopType ==
  /\ pc \in {"down", "select", "generate", "write", "record", "pending",
             "apply", "sleep"}
  /\ wakeAt \in Nat /\ region \in Regions /\ trigger \in Triggers
  /\ attempt \in 0..MaxRegenAttempts /\ backoff \in Nat /\ started \in Nat

HealthType ==
  /\ tunnelHealthy \in BOOLEAN /\ confirmedHealthy \in BOOLEAN
  /\ healthySinceRecovery \in BOOLEAN
  /\ lastHealthy \in Nat
  /\ ineffectiveRecoveries \in Nat /\ consecutiveUnhealth \in Nat

RecType ==
  /\ lastRecovery \in Nat /\ recoveryCount \in Nat /\ regenError \in BOOLEAN
  /\ failures \in Nat /\ alerted \in BOOLEAN

TimerType == nextRefresh \in Int /\ timer \in Int /\ ticker \in Nat

DiskType ==
  /\ configReg \in Nat
  /\ birth \in Nat /\ observed \in Seq(Nat \ {0})
  /\ pendingPF \in Nat
  /\ statusRegion \in SUBSET Regions /\ statusHealthy \in BOOLEAN

WorldType ==
  /\ running \in Nat /\ tunnel \in {"connecting", "up", "dead"}
  /\ deadSince \in Nat

HistType == lastMint \in Nat /\ recsSinceHealthy \in Nat

TypeOK ==
  /\ now \in Nat \ {0}
  /\ LoopType /\ HealthType /\ RecType /\ TimerType
  /\ DiskType /\ WorldType /\ HistType

-----------------------------------------------------------------------------
(* wg0.conf is always the newest of what names a registration: neither the *)
(* lifetime record, nor the metadata handed to the pf daemon, nor gluetun  *)
(* itself is ever ahead of the file gluetun would start from, whatever     *)
(* step of regenerateOnce fails or is cut short by a crash.                *)
ConfigIsNewest ==
  /\ birth <= configReg
  /\ pendingPF <= configReg
  /\ running <= configReg

(* When the loop waits and its last regeneration did not fail, gluetun     *)
(* runs the registration of wg0.conf and the pf daemon was handed its      *)
(* metadata: what regenerateOnce promises, over all its retries, partial   *)
(* failures and crashes, unless a start adopted what a crash left behind,  *)
(* for which MismatchIsBounded.                                            *)
IdleMeansApplied ==
  pc = "select" /\ ~regenError =>
    /\ configReg = running
    /\ PortForwarding => pendingPF = running

(* The daemon implements what pf and gluetun rely on, through every fault  *)
(* and crash: wg0.conf moves forward, and only its registration is handed  *)
(* over and started (refresh.go:676, "Hand PF metadata ... BEFORE          *)
(* restarting gluetun").                                                   *)
Registrar == INSTANCE Registrar WITH config <- configReg, pending <- pendingPF
RegistrarSpec == Registrar!Spec

(* refresh.go:392, tryAdopt keeps what "is provably fine" and "comfortably *)
(* inside its refresh interval".  After a crash between the config write   *)
(* and the restart it may keep a tunnel that is not the one of wg0.conf;   *)
(* the loop then replaces it within a minute of when the recorded          *)
(* registration is due.                                                    *)
MismatchIsBounded ==
  pc = "select" /\ ~regenError /\ running # configReg =>
    now - birth < SafeRefreshInterval(observed) + RefreshJitter + OneMinute

(* The age at which the running registration was lost, or its age now. *)
TrueLifetime == (IF tunnel = "dead" THEN deadSince ELSE now) - running

(* refresh.go:577, a recorded lifetime "can only err on the safe, shorter  *)
(* side": it never exceeds how long the registration gluetun runs lived.   *)
LossIsConservative ==
  [][observed' # observed /\ observed' # << >> =>
       observed'[Len(observed')] <= TrueLifetime]_vars

(* refresh.go:31, the escalating cooldown, seen from PIA: two reactive     *)
(* registrations without a healthy sample in between are at least the      *)
(* base cooldown apart, doubled for every recovery but the last, up to     *)
(* the cap.                                                                *)
RegistrationsSpaced ==
  [][lastMint' # lastMint /\ lastMint' # 0 /\ lastMint # 0 =>
       now - lastMint >= EffectiveCooldown[AtLeast(recsSinceHealthy - 1, 0)]]_vars

(* The proactive timer is read while gluetun runs the recorded             *)
(* registration and that is younger than the shortest cadence.             *)
RefreshesEarly ==
  /\ pc = "select" /\ trigger' = "proactive"
  /\ birth # 0 /\ running = birth
  /\ now - birth < MinRefresh - (RefreshJitter \div 2)

(* refresh.go:338-340: "a reactive recovery ... pushes the schedule out    *)
(* accordingly instead of leaving a stale timer from the old               *)
(* registration".                                                          *)
NoStaleTimer == [][~RefreshesEarly]_vars

(* When the timer may be that of an older registration: the recovery that  *)
(* made the running one was longer than two health intervals, which makes  *)
(* rearm take it for one the timer knows, or reported a failure although   *)
(* its config was loaded in the end.                                       *)
TimerMayBeStale == regenError \/ lastRecovery - birth > 2 * HealthInterval

(* refresh.go:338-340, as far as rearm keeps it: a registration younger    *)
(* than the shortest cadence is replaced proactively only in those two     *)
(* cases, whatever else fails, crashes, is restarted or takes long.        *)
YoungRegistrationKept == [][RefreshesEarly => TimerMayBeStale]_vars

(* The timer is not after the expiry status.json expects, or at most a     *)
(* minute away, if a lifetime was measured that is at least two floors and *)
(* the jitter window.                                                      *)
TimerInTime ==
  /\ observed # << >>
  /\ MeasuredLifetime(observed) >= AtLeast(2 * MinRefresh, RefreshJitter)
  => timer <= AtLeast(ExpectedExpiry(birth, observed), now + OneMinute)

(* The point of a lifetime-aware cadence: the recorded registration, when  *)
(* gluetun runs it and its timer is not stale, is replaced before it is    *)
(* expected to expire, whichever losses were measured before or after it   *)
(* was made and whatever jitter nextProactiveDelay draws.                  *)
RefreshBeforeExpiry ==
  pc = "select" /\ ~TimerMayBeStale /\ birth # 0 /\ running = birth => TimerInTime

(* The longest an evicted registration stays in use while every call       *)
(* succeeds: the cooldown or the samples the threshold asks for, up to the *)
(* next tick, and the two calls of a regeneration.                         *)
RecoveryBound ==
  AtLeast(CooldownCap, HealthInterval * AtLeast(UnhealthyThreshold, 1))
    + HealthInterval + 2 * MaxCall

(* A dead tunnel is replaced in time (README.md:712, "It also reacts       *)
(* immediately to a dead tunnel"): gluetun never keeps an evicted          *)
(* registration for RecoveryBound, however evictions, slow calls, the      *)
(* proactive timer and an escalated cooldown fall together.                *)
DeadTunnelReplaced ==
  tunnel = "dead" /\ running # 0 => now - deadSince < RecoveryBound

=============================================================================
