----------------------------- MODULE AlertsProofs -----------------------------
(***************************************************************************)
(* Proofs about the alerting of src/alert.go, for any threshold, queue     *)
(* size, choice of hooks and number of outages.                            *)
(***************************************************************************)
EXTENDS Alerts, TLAPS

(* The number of the latest notification the policy can have sent. *)
Latest ==
  IF failures = 0 THEN RecoveredOf(outage)
  ELSE IF alerted THEN FailureOf(outage) ELSE RecoveredOf(outage - 1)

(* The policy's own state: an alert was sent only in an outage. *)
PolicyInv ==
  /\ alerted => failures # 0
  /\ failures # 0 => outage # 0
  /\ outage <= MaxOutages

(* What was sent is not later than what the policy can have sent. *)
SentInv ==
  /\ \A i \in 1..Len(queue) : queue[i] \in 1..Latest
  /\ \A i \in 1..Len(delivered) : delivered[i] \in 1..Latest

IInv == TypeOK /\ PolicyInv /\ SentInv /\ InOrder

-----------------------------------------------------------------------------
(* A later number joins the back of the queue, or is dropped because the   *)
(* queue is full: order and bounds survive.                                *)
LEMMA SendLemma ==
  ASSUME NEW e \in Nat, NEW b \in Nat, TypeOK, InOrder,
         UNCHANGED delivered, Send(e), e \in 1..b,
         \A i \in 1..Len(queue) : queue[i] < e,
         \A i \in 1..Len(delivered) : delivered[i] < e,
         \A i \in 1..Len(queue) : queue[i] >= 1,
         \A i \in 1..Len(delivered) : delivered[i] >= 1
  PROVE  /\ queue' \in Seq(Nat) /\ Len(queue') <= AlertQueueSize
         /\ InOrder'
         /\ \A i \in 1..Len(queue') : queue'[i] \in 1..b
         /\ \A i \in 1..Len(delivered') : delivered'[i] \in 1..b
<1>1. CASE Len(queue) < AlertQueueSize
  <2>1. queue' = Append(queue, e)
    BY <1>1 DEF Send
  <2>2. queue \in Seq(Nat) /\ delivered \in Seq(Nat) /\ AlertQueueSize \in Nat
    BY AlertsAssumption DEF TypeOK
  <2>3. /\ queue' \in Seq(Nat) /\ Len(queue') = Len(queue) + 1
        /\ \A i \in 1..Len(queue) : queue'[i] = queue[i]
        /\ queue'[Len(queue) + 1] = e
    BY <2>1, <2>2
  <2>4. /\ \A i \in 1..Len(queue') : i \in 1..Len(queue) \/ i = Len(queue) + 1
        /\ Len(queue) \in Nat
    BY <2>2, <2>3
  <2>5. \A i \in 1..Len(queue') : queue'[i] \in 1..b
    <3> SUFFICES ASSUME NEW i \in 1..Len(queue') PROVE queue'[i] \in 1..b
      OBVIOUS
    <3>1. CASE i \in 1..Len(queue)
      <4>1. queue'[i] = queue[i] /\ queue[i] \in Nat
        BY <2>2, <2>3, <3>1
      <4>2. queue[i] < e /\ queue[i] >= 1
        BY <3>1
      <4> QED BY <4>1, <4>2
    <3>2. CASE i = Len(queue) + 1
      BY <2>3, <3>2
    <3> QED BY <2>4, <3>1, <3>2
  <2>6. \A i \in 1..Len(delivered') : delivered'[i] \in 1..b
    BY <2>2
  <2>7. \A i, j \in 1..Len(queue') : i < j => queue'[i] < queue'[j]
    <3> SUFFICES ASSUME NEW i \in 1..Len(queue'), NEW j \in 1..Len(queue'), i < j
                 PROVE  queue'[i] < queue'[j]
      OBVIOUS
    <3>1. i \in 1..Len(queue)
      BY <2>3, <2>4
    <3>2. CASE j \in 1..Len(queue)
      BY <3>1, <3>2, <2>3 DEF InOrder
    <3>3. CASE j = Len(queue) + 1
      BY <3>1, <3>3, <2>3
    <3> QED BY <3>2, <3>3, <2>4
  <2>8. \A i \in 1..Len(delivered') : \A j \in 1..Len(queue') : delivered'[i] < queue'[j]
    BY <2>3, <2>4 DEF InOrder
  <2>9. \A i, j \in 1..Len(delivered') : i < j => delivered'[i] < delivered'[j]
    BY DEF InOrder
  <2>10. InOrder'
    BY <2>7, <2>8, <2>9 DEF InOrder
  <2> QED BY <1>1, <2>2, <2>3, <2>5, <2>6, <2>10
<1>2. CASE ~(Len(queue) < AlertQueueSize)
  <2>1. queue' = queue
    BY <1>2 DEF Send
  <2>2. queue \in Seq(Nat) /\ delivered \in Seq(Nat)
    BY DEF TypeOK
  <2>3. /\ \A i \in 1..Len(queue) : queue[i] \in Nat
        /\ \A i \in 1..Len(delivered) : delivered[i] \in Nat
    BY <2>2
  <2>4. InOrder'
    BY <2>1 DEF InOrder
  <2>5. /\ \A i \in 1..Len(queue') : queue'[i] \in 1..b
        /\ \A i \in 1..Len(delivered') : delivered'[i] \in 1..b
    BY <2>1, <2>3
  <2> QED BY <2>1, <2>4, <2>5 DEF TypeOK
<1> QED BY <1>1, <1>2

-----------------------------------------------------------------------------
(* The invariant holds initially. *)
LEMMA IInvInit == Init => IInv
<1> SUFFICES ASSUME Init PROVE IInv
  OBVIOUS
<1>1. PolicyInv
  BY AlertsAssumption DEF Init, PolicyInv
<1>2. /\ Len(queue) = 0 /\ Len(delivered) = 0
      /\ queue \in Seq(Nat) /\ delivered \in Seq(Nat)
  BY DEF Init
<1>3. TypeOK
  <2>1. Len(queue) <= AlertQueueSize
    BY <1>2, AlertsAssumption
  <2>2. failures \in Nat /\ outage \in Nat
    BY DEF Init
  <2>3. /\ alerted \in BOOLEAN /\ done \in BOOLEAN /\ draining \in BOOLEAN
        /\ worker \in {"idle", "hook", "killed", "exited"}
    BY Zenon DEF Init
  <2> QED BY <1>2, <2>1, <2>2, <2>3 DEF TypeOK
<1>4. SentInv /\ InOrder
  BY <1>2 DEF SentInv, InOrder
<1> QED BY <1>1, <1>3, <1>4 DEF IInv

(* A failed attempt sends nothing, or the alert of its outage, which is    *)
(* later than everything the policy sent before.                           *)
LEMMA FailurePreserves == IInv /\ Failure => IInv'
<1> SUFFICES ASSUME IInv, Failure PROVE IInv'
  OBVIOUS
<1>1. /\ failures \in Nat /\ failures' = failures + 1
      /\ outage \in Nat /\ outage' \in Nat /\ outage' # 0
      /\ outage' <= MaxOutages
      /\ outage' = IF failures = 0 THEN outage + 1 ELSE outage
  BY AlertsAssumption DEF IInv, TypeOK, PolicyInv, Failure
<1>2. queue \in Seq(Nat) /\ delivered \in Seq(Nat) /\ delivered' = delivered
  BY DEF IInv, TypeOK, Failure, workerVars
<1>3. CASE FireFailure(failures')
  <2>1. alerted' = TRUE /\ Send(FailureOf(outage'))
    BY <1>3 DEF Failure
  <2>2. ~alerted /\ Latest < FailureOf(outage') /\ Latest \in Nat
        /\ Latest' = FailureOf(outage') /\ Latest' \in Nat
    BY <1>1, <1>3, <2>1 DEF FireFailure, Latest, FailureOf, RecoveredOf, IInv, PolicyInv
  <2>3. /\ \A i \in 1..Len(queue) : queue[i] < FailureOf(outage') /\ queue[i] >= 1
        /\ \A i \in 1..Len(delivered) : delivered[i] < FailureOf(outage') /\ delivered[i] >= 1
        /\ FailureOf(outage') \in Nat /\ FailureOf(outage') \in 1..Latest'
    BY <1>1, <1>2, <2>2 DEF IInv, SentInv, FailureOf
  <2>4. /\ queue' \in Seq(Nat) /\ Len(queue') <= AlertQueueSize
        /\ InOrder' /\ SentInv'
    BY <1>2, <2>1, <2>2, <2>3, SendLemma DEF IInv, SentInv
  <2>5. TypeOK' /\ PolicyInv'
    BY <1>1, <2>1, <2>4 DEF IInv, TypeOK, PolicyInv, Failure, workerVars
  <2> QED BY <2>4, <2>5 DEF IInv
<1>4. CASE ~FireFailure(failures')
  <2>1. UNCHANGED <<alerted, queue>>
    BY <1>4 DEF Failure
  <2>2. Latest' = Latest
    BY <1>1, <2>1 DEF Latest, RecoveredOf, FailureOf, IInv, PolicyInv
  <2>3. TypeOK' /\ PolicyInv'
    BY <1>1, <2>1 DEF IInv, TypeOK, PolicyInv, Failure, workerVars
  <2>4. SentInv' /\ InOrder'
    BY <1>2, <2>1, <2>2 DEF IInv, SentInv, InOrder
  <2> QED BY <2>3, <2>4 DEF IInv
<1> QED BY <1>3, <1>4

(* A healthy sample sends nothing, or the notice of the alerted outage.    *)
LEMMA HealthyPreserves == IInv /\ Healthy => IInv'
<1> SUFFICES ASSUME IInv, Healthy PROVE IInv'
  OBVIOUS
<1>1. /\ failures \in Nat /\ failures' = 0 /\ alerted' = FALSE
      /\ outage \in Nat /\ outage' = outage /\ delivered' = delivered
      /\ queue \in Seq(Nat) /\ delivered \in Seq(Nat)
  BY DEF IInv, TypeOK, Healthy, workerVars
<1>2. PolicyInv'
  BY <1>1 DEF IInv, PolicyInv
<1>3. Latest' = RecoveredOf(outage) /\ Latest' \in Nat /\ Latest \in Nat /\ Latest <= Latest'
  BY <1>1 DEF Latest, RecoveredOf, FailureOf, IInv, PolicyInv
<1>4. /\ failures' \in Nat /\ alerted' \in BOOLEAN /\ outage' \in Nat
      /\ done' \in BOOLEAN /\ draining' \in BOOLEAN
      /\ worker' \in {"idle", "hook", "killed", "exited"}
      /\ delivered' \in Seq(Nat)
  <2>1. UNCHANGED <<done, worker, draining, delivered, outage>>
    BY DEF Healthy, workerVars
  <2> QED BY <1>1, <2>1 DEF IInv, TypeOK
<1>5. CASE alerted
  <2>1. Send(RecoveredOf(outage)) /\ Latest < RecoveredOf(outage)
        /\ RecoveredOf(outage) \in 1..Latest'
    BY <1>1, <1>3, <1>5 DEF Healthy, Latest, RecoveredOf, FailureOf, IInv, PolicyInv
  <2>2. /\ \A i \in 1..Len(queue) : queue[i] < RecoveredOf(outage) /\ queue[i] >= 1
        /\ \A i \in 1..Len(delivered) : delivered[i] < RecoveredOf(outage) /\ delivered[i] >= 1
    BY <1>1, <1>3, <2>1 DEF IInv, SentInv
  <2>3. /\ queue' \in Seq(Nat) /\ Len(queue') <= AlertQueueSize
        /\ InOrder' /\ SentInv'
    BY <1>1, <1>3, <2>1, <2>2, SendLemma DEF IInv, SentInv
  <2> QED BY <1>2, <1>4, <2>3 DEF IInv, TypeOK
<1>6. CASE ~alerted
  <2>1. queue' = queue
    BY <1>6 DEF Healthy
  <2>2. queue' \in Seq(Nat) /\ Len(queue') <= AlertQueueSize
    BY <2>1 DEF IInv, TypeOK
  <2>3. SentInv' /\ InOrder'
    BY <1>1, <1>3, <2>1 DEF IInv, SentInv, InOrder
  <2> QED BY <1>2, <1>4, <2>2, <2>3 DEF IInv, TypeOK
<1> QED BY <1>5, <1>6

(* The oldest event moves from the queue to the end of what was delivered, *)
(* or is discarded.                                                        *)
LEMMA DeliverPreserves == IInv /\ Deliver => IInv'
<1> SUFFICES ASSUME IInv, Deliver PROVE IInv'
  OBVIOUS
<1>1. /\ queue \in Seq(Nat) /\ queue # << >> /\ delivered \in Seq(Nat)
      /\ queue' = Tail(queue)
      /\ delivered' = delivered \/ delivered' = Append(delivered, Head(queue))
  BY DEF IInv, TypeOK, Deliver
<1>2. /\ queue' \in Seq(Nat) /\ Len(queue') = Len(queue) - 1 /\ Len(queue) \in Nat
      /\ Len(queue) > 0 /\ Head(queue) = queue[1] /\ Head(queue) \in Nat
      /\ \A i \in 1..Len(queue') : i + 1 \in 1..Len(queue) /\ queue'[i] = queue[i + 1]
  BY <1>1
<1>3. Latest' = Latest /\ PolicyInv'
  BY DEF Deliver, policyVars, Latest, IInv, PolicyInv
<1>4. TypeOK'
  <2>1. UNCHANGED <<failures, alerted, outage, done, draining>>
    BY DEF Deliver, policyVars
  <2>2. worker' = worker \/ worker' = "hook"
    BY DEF Deliver
  <2>3. delivered' \in Seq(Nat)
    <3>1. \A s \in Seq(Nat) : \A e \in Nat : Append(s, e) \in Seq(Nat)
      OBVIOUS
    <3>2. Head(queue) \in Nat /\ delivered \in Seq(Nat)
      BY <1>1, <1>2
    <3> QED BY <1>1, <3>1, <3>2, Zenon
  <2>4. Len(queue') <= AlertQueueSize
    <3>1. Len(queue) <= AlertQueueSize /\ AlertQueueSize \in Nat
      BY AlertsAssumption DEF IInv, TypeOK
    <3> QED BY <1>2, <3>1
  <2> QED BY <1>2, <2>1, <2>2, <2>3, <2>4 DEF IInv, TypeOK
<1>5. \A i, j \in 1..Len(queue') : i < j => queue'[i] < queue'[j]
  BY <1>2 DEF IInv, InOrder
<1>6. \A i \in 1..Len(queue') : queue[1] < queue'[i] /\ queue'[i] \in 1..Latest
  <2> SUFFICES ASSUME NEW i \in 1..Len(queue')
               PROVE  queue[1] < queue'[i] /\ queue'[i] \in 1..Latest
    OBVIOUS
  <2>1. i + 1 \in 1..Len(queue) /\ 1 \in 1..Len(queue) /\ 1 < i + 1
        /\ queue'[i] = queue[i + 1]
    BY <1>2
  <2> QED BY <2>1 DEF IInv, InOrder, SentInv
<1>7. CASE delivered' = delivered
  <2>1. InOrder'
    BY <1>2, <1>5, <1>7 DEF IInv, InOrder
  <2>2. SentInv'
    BY <1>3, <1>6, <1>7 DEF IInv, SentInv
  <2> QED BY <1>3, <1>4, <2>1, <2>2 DEF IInv
<1>8. CASE delivered' = Append(delivered, Head(queue))
  <2>1. /\ Len(delivered') = Len(delivered) + 1 /\ Len(delivered) \in Nat
        /\ \A i \in 1..Len(delivered) : delivered'[i] = delivered[i] /\ delivered[i] < queue[1]
        /\ delivered'[Len(delivered) + 1] = queue[1]
        /\ \A i \in 1..Len(delivered') : i \in 1..Len(delivered) \/ i = Len(delivered) + 1
    BY <1>1, <1>2, <1>8 DEF IInv, InOrder
  <2>2. \A i, j \in 1..Len(delivered') : i < j => delivered'[i] < delivered'[j]
    <3> SUFFICES ASSUME NEW i \in 1..Len(delivered'), NEW j \in 1..Len(delivered'), i < j
                 PROVE  delivered'[i] < delivered'[j]
      OBVIOUS
    <3>1. i \in 1..Len(delivered)
      BY <2>1
    <3>2. CASE j \in 1..Len(delivered)
      BY <3>1, <3>2, <2>1 DEF IInv, InOrder
    <3>3. CASE j = Len(delivered) + 1
      BY <3>1, <3>3, <2>1
    <3> QED BY <3>2, <3>3, <2>1
  <2>3. \A i \in 1..Len(delivered') : \A j \in 1..Len(queue') : delivered'[i] < queue'[j]
    BY <1>2, <1>6, <2>1 DEF IInv, InOrder
  <2>4. InOrder'
    BY <1>5, <2>2, <2>3 DEF InOrder
  <2>5. queue[1] \in 1..Latest
    BY <1>2 DEF IInv, SentInv
  <2>6. SentInv'
    BY <1>3, <1>6, <2>1, <2>5 DEF IInv, SentInv
  <2> QED BY <1>3, <1>4, <2>4, <2>6 DEF IInv
<1> QED BY <1>1, <1>7, <1>8

(* Every other step leaves the policy, the queue and the deliveries alone. *)
LEMMA RestPreserves ==
  ASSUME IInv,
         \/ HookExit \/ HookTimeout \/ PipeClosed \/ Stop \/ SeeDone
         \/ WorkerExit \/ UNCHANGED vars
  PROVE  IInv'
<1>1. UNCHANGED <<failures, alerted, outage, queue, delivered>>
  BY DEF HookExit, HookTimeout, PipeClosed, Stop, SeeDone, WorkerExit, vars,
         policyVars, workerVars
<1>2. TypeOK'
  BY <1>1 DEF IInv, TypeOK, HookExit, HookTimeout, PipeClosed, Stop, SeeDone,
              WorkerExit, vars, workerVars
<1>3. Latest' = Latest /\ PolicyInv'
  BY <1>1 DEF Latest, IInv, PolicyInv
<1>4. SentInv' /\ InOrder'
  BY <1>1, <1>3 DEF IInv, SentInv, InOrder
<1> QED BY <1>2, <1>3, <1>4 DEF IInv

(* The invariant is inductive. *)
LEMMA IInvAlways == Spec => []IInv
<1>1. IInv /\ [Next]_vars => IInv'
  BY FailurePreserves, HealthyPreserves, DeliverPreserves, RestPreserves DEF Next
<1> QED BY <1>1, IInvInit, PTL DEF Spec

-----------------------------------------------------------------------------
(* The queue never holds more than alertQueueSize events and every other   *)
(* variable keeps its type, whatever the callers and the worker do.        *)
THEOREM TypeCorrect == Spec => []TypeOK
<1>1. IInv => TypeOK
  BY DEF IInv
<1> QED BY <1>1, IInvAlways, PTL

(* No notification is sent twice, none overtakes an earlier one, and a     *)
(* recovered notice never overtakes its alert, for any queue size and any  *)
(* lag of the delivery worker (src/alert.go, failure, send and deliver).   *)
THEOREM DeliveryInOrder == Spec => []InOrder
<1>1. IInv => InOrder
  BY DEF IInv
<1> QED BY <1>1, IInvAlways, PTL
=============================================================================
