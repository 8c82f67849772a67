------------------------------- MODULE Alerts -------------------------------
(***************************************************************************)
(* src/alert.go: the outage policy that decides when a notification is     *)
(* due, the bounded queue between the recovery path and the delivery       *)
(* worker, and the worker that runs one hook at a time.                    *)
(*                                                                         *)
(* The caller (the refresh loop) reports failed recovery attempts and      *)
(* healthy samples in any order.  Every notification is numbered by what   *)
(* it is about: the failure alert of the n-th outage is 2n-1 and its       *)
(* recovered notice is 2n.                                                 *)
(***************************************************************************)
EXTENDS Naturals, Sequences

CONSTANTS
  AlertAfter,         \* --alert-after; 0 disables alerting
  AlertQueueSize,     \* alertQueueSize, 8 in the code
  FailureHook,        \* TRUE when --on-failure names a command
  RecoveredHook,      \* TRUE when --on-recovered names a command
  MaxOutages,         \* bound on the number of outages, for model checking
  MaxFailures         \* bound on the failed attempts of one outage

ASSUME AlertsAssumption ==
  /\ AlertAfter \in Nat
  /\ AlertQueueSize \in Nat \ {0}
  /\ FailureHook \in BOOLEAN
  /\ RecoveredHook \in BOOLEAN
  /\ MaxOutages \in Nat
  /\ MaxFailures \in Nat

VARIABLES
  failures,     \* outagePolicy.failures
  alerted,      \* outagePolicy.alerted
  queue,        \* alertDispatcher.queue
  done,         \* stop() closed alertDispatcher.done
  draining,     \* the worker has read done and only empties the queue
  worker,       \* "idle", "hook" (it runs), "killed" (timed out), "exited"
  delivered,    \* history: the events whose hook was started, in order
  outage        \* history: the number of outages so far, this one included

policyVars == <<failures, alerted, outage>>
workerVars == <<worker, draining, delivered>>
vars == <<failures, alerted, queue, done, draining, worker, delivered, outage>>

FailureOf(n)   == 2 * n - 1
RecoveredOf(n) == 2 * n
IsRecovered(e) == e % 2 = 0

Init ==
  /\ failures = 0
  /\ alerted = FALSE
  /\ queue = << >>
  /\ done = FALSE
  /\ draining = FALSE
  /\ worker = "idle"
  /\ delivered = << >>
  /\ outage = 0

-----------------------------------------------------------------------------
(* Mutant: the queue is a plain slice and never full. *)
Send_Unbounded(e) == queue' = Append(queue, e)

(* send never blocks: an event that finds the queue full is dropped. *)
Send(e) ==
  queue' = IF Len(queue) < AlertQueueSize THEN Append(queue, e) ELSE queue

(* Mutant: the policy forgets that it alerted already. *)
FireFailure_NoLatch(count) == AlertAfter > 0 /\ count >= AlertAfter

(* outagePolicy.failure reports that the alert is due. *)
FireFailure(count) == AlertAfter > 0 /\ ~alerted /\ count >= AlertAfter

(* noteFailedAttempt: the policy counts, and its one alert is sent. *)
Failure ==
  /\ failures < MaxFailures
  /\ failures = 0 => outage < MaxOutages
  /\ outage' = IF failures = 0 THEN outage + 1 ELSE outage
  /\ failures' = failures + 1
  /\ IF FireFailure(failures')
       THEN alerted' = TRUE /\ Send(FailureOf(outage'))
       ELSE UNCHANGED <<alerted, queue>>
  /\ UNCHANGED <<done, workerVars>>

(* observe with a healthy sample: the outage is over, and its notice is    *)
(* sent when its alert was.                                                *)
Healthy ==
  /\ failures' = 0
  /\ alerted' = FALSE
  /\ IF alerted THEN Send(RecoveredOf(outage)) ELSE UNCHANGED queue
  /\ UNCHANGED <<done, outage, workerVars>>

-----------------------------------------------------------------------------
HookFor(e) == IF IsRecovered(e) THEN RecoveredHook ELSE FailureHook

(* The worker receives the oldest event and runs its hook; an event whose  *)
(* hook is not configured is discarded.                                    *)
Deliver ==
  /\ worker = "idle"
  /\ queue # << >>
  /\ queue' = Tail(queue)
  /\ IF HookFor(Head(queue))
       THEN worker' = "hook" /\ delivered' = Append(delivered, Head(queue))
       ELSE UNCHANGED <<worker, delivered>>
  /\ UNCHANGED <<policyVars, done, draining>>

(* The hook process ends by itself, with any exit status, and its output   *)
(* pipe is closed: cmd.Run returns.                                        *)
HookExit ==
  /\ worker = "hook"
  /\ worker' = "idle"
  /\ UNCHANGED <<policyVars, queue, done, draining, delivered>>

(* --hook-timeout passes: the context kills the shell, but cmd.Run still   *)
(* waits for whatever else holds the output pipe.                          *)
HookTimeout ==
  /\ worker = "hook"
  /\ worker' = "killed"
  /\ UNCHANGED <<policyVars, queue, done, draining, delivered>>

(* Mutant: a hook that timed out also ends the worker goroutine. *)
PipeClosed_WorkerGone ==
  /\ worker = "killed"
  /\ worker' = "exited"
  /\ UNCHANGED <<policyVars, queue, done, draining, delivered>>

(* The last process that holds the output pipe closes it; Run returns and  *)
(* the time-out is only logged.                                            *)
PipeClosed ==
  /\ worker = "killed"
  /\ worker' = "idle"
  /\ UNCHANGED <<policyVars, queue, done, draining, delivered>>

(* stop: done is closed.  The daemon itself never calls it. *)
Stop ==
  /\ ~done
  /\ done' = TRUE
  /\ UNCHANGED <<policyVars, queue, workerVars>>

(* The worker's outer select reads done; which of two ready channels it    *)
(* reads is not determined.                                                *)
SeeDone ==
  /\ worker = "idle"
  /\ done
  /\ ~draining
  /\ draining' = TRUE
  /\ UNCHANGED <<policyVars, queue, done, worker, delivered>>

(* The inner loop finds the queue empty and the goroutine returns. *)
WorkerExit ==
  /\ worker = "idle"
  /\ draining
  /\ queue = << >>
  /\ worker' = "exited"
  /\ UNCHANGED <<policyVars, queue, done, draining, delivered>>

Next ==
  \/ Failure \/ Healthy
  \/ Deliver \/ HookExit \/ HookTimeout \/ PipeClosed
  \/ Stop \/ SeeDone \/ WorkerExit

Spec == Init /\ [][Next]_vars

(* The Go scheduler runs the worker goroutine and hook-timeout is finite.  *)
(* Nothing is assumed about a process that a hook leaves behind: cmd.Run   *)
(* has no WaitDelay, so PipeClosed may never happen.                       *)
WorkerFairness ==
  /\ WF_vars(Deliver)
  /\ WF_vars(HookExit \/ HookTimeout)
  /\ WF_vars(SeeDone)
  /\ WF_vars(WorkerExit)

FairSpec == Spec /\ WorkerFairness

-----------------------------------------------------------------------------
TypeOK ==
  /\ failures \in Nat
  /\ alerted \in BOOLEAN
  /\ queue \in Seq(Nat) /\ Len(queue) <= AlertQueueSize
  /\ done \in BOOLEAN
  /\ draining \in BOOLEAN
  /\ worker \in {"idle", "hook", "killed", "exited"}
  /\ delivered \in Seq(Nat)
  /\ outage \in Nat

(* Every outage is notified at most once in each way, a recovered notice   *)
(* never overtakes its alert, and outages are reported in order, however   *)
(* long the worker lags behind and whatever the full queue dropped: the    *)
(* hooks started and the events still queued are strictly increasing.      *)
InOrder ==
  /\ \A i, j \in 1..Len(delivered) : i < j => delivered[i] < delivered[j]
  /\ \A i, j \in 1..Len(queue) : i < j => queue[i] < queue[j]
  /\ \A i \in 1..Len(delivered) : \A j \in 1..Len(queue) : delivered[i] < queue[j]

Queued(e) == \E i \in 1..Len(queue) : queue[i] = e

(* An event that was accepted leaves the queue, also when stop is called   *)
(* while it waits: as long as no process keeps the output of a killed hook *)
(* open for ever, the worker never stops with events it should deliver.    *)
QueueDrains ==
  []<>(worker # "killed") =>
    \A e \in 1..(2 * MaxOutages) : (worker # "exited" /\ Queued(e)) ~> ~Queued(e)

(* alert.go:24-25: hooks run "with a hard timeout".  Whatever a hook does, *)
(* the worker that runs it is free again in the end.                       *)
HookTimeoutIsHard == worker = "hook" ~> worker \notin {"hook", "killed"}
=============================================================================
