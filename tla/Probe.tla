------------------------------- MODULE Probe -------------------------------
(***************************************************************************)
(* The container healthcheck of src/healthcheck.go, a reader of the files  *)
(* the refresh daemon writes.  The probe has no state of its own: what it  *)
(* would say is a predicate of every state.  Refresh is extended with the  *)
(* fields of status.json the probe reads, and with when they were written. *)
(***************************************************************************)
EXTENDS Refresh

CONSTANTS
  MaxStatusAge,   \* --max-status-age, 0 for no limit
  MaxUnhealthy,   \* --max-unhealthy, 0 for no limit
  ExpiryGrace     \* --expiry-grace

(* status.json is written: a file whose writes fail says nothing. *)
ASSUME ProbeAssumption ==
  /\ MaxStatusAge \in Nat /\ MaxUnhealthy \in Nat /\ ExpiryGrace \in Nat
  /\ "status" \notin Faults

VARIABLES
  unhealthySince,   \* refreshRuntime.unhealthySinceUTC
  fileAt,           \* when status.json was written, 0 for never
  fileSince,        \* its unhealthy_since_utc
  fileExpiry,       \* its expected_expiry_utc
  changedAt         \* history: when the tunnel last came up or went down, or
                    \* a daemon started that does not know since when

fileVars  == <<fileAt, fileSince, fileExpiry>>
probeVars == <<unhealthySince, fileVars, changedAt>>

ProbeInit ==
  /\ Init
  /\ unhealthySince = 0
  /\ fileAt = 0 /\ fileSince = 0 /\ fileExpiry = 0
  /\ changedAt = now

(* buildStatus and writeStatus, the fields the probe reads. *)
Flush ==
  /\ fileAt' = now
  /\ fileSince' = unhealthySince'
  /\ fileExpiry' = ExpectedExpiry(birth, observed)

(* Mutant: every unhealthy sample starts the outage again. *)
NoteUnhealthy_Restarts == unhealthySince' = now

(* observe notes when an outage began. *)
NoteUnhealthy ==
  unhealthySince' = IF unhealthySince = 0 THEN now ELSE unhealthySince

(* The steps of the daemon, by what they do to the outage and the file.    *)
ObservesHealthy   == (Adopt \/ HealthyTick) /\ unhealthySince' = 0 /\ Flush
ObservesUnhealthy == (UnhealthyTick \/ RecoverTick) /\ NoteUnhealthy /\ Flush

Reports ==
  /\ \/ GenerateFails \/ WriteConfigFails \/ WritePendingFails \/ RestartFails
     \/ Apply
  /\ UNCHANGED unhealthySince
  /\ Flush

GivesUp ==
  /\ GiveUp
  /\ UNCHANGED unhealthySince
  /\ IF trigger = "reactive-recovery" /\ TimerKept(nextRefresh, birth)
       THEN UNCHANGED fileVars ELSE Flush

Crashes == Crash /\ unhealthySince' = 0 /\ UNCHANGED fileVars

Silent ==
  /\ \/ Tick \/ Horizon \/ Evict \/ Connect \/ Reload
     \/ ProactiveFire \/ GenerateOK \/ WriteConfig \/ RecordBirth
     \/ WritePending \/ Retry
  /\ UNCHANGED <<unhealthySince, fileVars>>

Starts == Startup /\ UNCHANGED <<unhealthySince, fileVars>> /\ changedAt' = now

ProbeNext ==
  \/ /\ \/ ObservesHealthy \/ ObservesUnhealthy \/ Reports \/ GivesUp
        \/ Crashes \/ Silent
     /\ changedAt' = IF (tunnel = "up") = (tunnel' = "up") THEN changedAt ELSE now
  \/ Starts

ProbeSpec == ProbeInit /\ [][ProbeNext]_<<vars, probeVars>>

-----------------------------------------------------------------------------
(* The tunnel is reported unhealthy, for too long or since nobody knows. *)
Outage ==
  /\ ~statusHealthy
  /\ \/ fileSince = 0
     \/ MaxUnhealthy > 0 /\ now - fileSince > MaxUnhealthy

(* Mutant: the limit itself counts as too old. *)
Stuck_AtLimit == MaxStatusAge > 0 /\ now - fileAt >= MaxStatusAge

(* The file is too old: the loop looks stuck. *)
Stuck == MaxStatusAge > 0 /\ now - fileAt > MaxStatusAge

(* The registration should have been replaced. *)
Overdue == fileExpiry # 0 /\ now - fileExpiry > ExpiryGrace

(* evaluateHealth returns nil. *)
ReportsHealthy ==
  /\ configReg # 0
  /\ fileAt # 0
  /\ ~Stuck
  /\ ~Outage
  /\ ~Overdue

-----------------------------------------------------------------------------
(* An attempt takes at most its two calls and the sleep after it, whose    *)
(* first length is BackoffMin even when that exceeds BackoffMax.           *)
LongestBackoff == AtLeast(BackoffMax, BackoffMin)
AttemptSpan == 2 * MaxCall + LongestBackoff

(* The longest the loop stays away from its health ticker: a regeneration  *)
(* whose attempts all fail, and another one when the proactive timer is    *)
(* due as well and select picks it first.                                  *)
RegenerationSpan == MaxRegenAttempts * AttemptSpan
SampleGap == HealthInterval + 2 * RegenerationSpan

(* The longest the loop writes nothing: a wait for a tick or a backoff,    *)
(* and the calls of the attempt that follows.                              *)
LongestSilence == AtLeast(HealthInterval, LongestBackoff) + 2 * MaxCall

(* The limit on the file's age covers a wait for a tick and an attempt.    *)
StatusAgeCovers ==
  MaxStatusAge > 0 => HealthInterval + 2 * MaxCall <= MaxStatusAge

(* A regeneration has failed and the loop is in its backoff or in another  *)
(* attempt, or back from it with a tick to read.                           *)
Retrying == regenError /\ (pc # "select" \/ now >= ticker)

(* healthcheck.go:23, the tunnel may be unhealthy "for a short time ...    *)
(* but not for longer than --max-unhealthy": a tunnel that is down is      *)
(* reported at the latest MaxUnhealthy after the next sample is due.       *)
ProbeDetects ==
  tunnel # "up" /\ now - changedAt > SampleGap + MaxUnhealthy => ~ReportsHealthy

(* healthcheck.go:15, the probe does not flap during a normal refresh: it  *)
(* complains only while the tunnel is down, was so until not long ago,     *)
(* runs on a registration that should have been replaced, or for the age   *)
(* of the file while a regeneration that failed is tried again; and that   *)
(* age has a bound.                                                        *)
ProbeQuiet ==
  lastHealthy # 0 /\ ~ReportsHealthy =>
    \/ tunnel # "up"
    \/ now - changedAt <= SampleGap
    \/ LET expiry == ExpectedExpiry(running, observed)
       IN  expiry # 0 /\ now - expiry > ExpiryGrace
    \/ /\ Retrying
       /\ 0 < MaxStatusAge /\ MaxStatusAge < now - fileAt
       /\ now - fileAt <= LongestSilence
=============================================================================
