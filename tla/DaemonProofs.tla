----------------------------- MODULE DaemonProofs -----------------------------
(***************************************************************************)
(* Theorems about the legacy daemon, for every set of ports and faults and *)
(* with or without a container to restart.                                 *)
(***************************************************************************)
EXTENDS Daemon, TLAPS

(* PendingIsRunning is not inductive: that a hand-over names the           *)
(* registration gluetun runs depends on what the steps before it did, and  *)
(* that nothing moves wg0.conf under a pending file on the fact that a     *)
(* pending file keeps the loop from registering.                           *)
HandOverInv ==
  /\ PendingIsRunning
  /\ pending # 0 => /\ PortForwarding
                    /\ pc \notin {"write", "hook", "restart", "handover"}
  /\ pc \in {"hook", "restart", "handover"} => config = reg
  /\ pc = "handover" => PortForwarding /\ running = reg

(* What the steps before lease.set have published. *)
PublishedInv ==
  /\ PortFileIsLease
  /\ pc = "set" => forwardedPort = port

(* Every step keeps HandOverInv. *)
LEMMA HandOverStep ==
  ASSUME HandOverInv, [Next]_vars
  PROVE  HandOverInv'
<1> USE DEF HandOverInv, PendingIsRunning
<1>1. CASE UNCHANGED vars
  BY <1>1 DEF vars, memVars, leaseVars, diskVars, worldVars
<1>2. CASE TunnelDown \/ TunnelUp \/ Horizon \/ Wake
  BY <1>2 DEF TunnelDown, TunnelUp, Horizon, Wake, vars, memVars, leaseVars,
              diskVars, worldVars
<1>3. CASE Reload
  BY <1>3 DEF Reload, StartGluetun, memVars, leaseVars, diskVars
<1>4. CASE Crash
  BY <1>4 DEF Crash, Exit, diskVars, worldVars
<1>5. CASE Start
  BY <1>5 DEF Start, memVars, leaseVars, diskVars
<1>6. CASE ClientFails \/ ReadPendingFails \/ GenerateFails
  BY <1>6 DEF ClientFails, ReadPendingFails, GenerateFails, Sleep, memVars,
              leaseVars, diskVars, worldVars
<1>7. CASE ReadPending
  BY <1>7 DEF ReadPending, diskVars, worldVars
<1>8. CASE Generate
  BY <1>8 DEF Generate, diskVars, worldVars
<1>9. CASE WriteConfig
  BY <1>9 DEF WriteConfig, Sleep, memVars, leaseVars, worldVars
<1>10. CASE ConfigHook
  BY <1>10 DEF ConfigHook, Sleep, memVars, leaseVars, diskVars
<1>11. CASE ConfigHookFails
  BY <1>11 DEF ConfigHookFails, Sleep, diskVars, worldVars
<1>12. CASE RestartGluetun
  BY <1>12 DEF RestartGluetun, StartGluetun, Sleep, memVars, leaseVars, diskVars
<1>13. CASE RestartFails
  BY <1>13 DEF RestartFails, StartGluetun, Sleep, diskVars, worldVars
<1>14. CASE HandOver
  BY <1>14 DEF HandOver, Exit, worldVars
<1>15. CASE HandOverFails
  BY <1>15 DEF HandOverFails, Sleep, diskVars, worldVars
<1>16. CASE Acquire \/ AcquireFails
  BY <1>16 DEF Acquire, AcquireFails, Sleep, diskVars, worldVars
<1>17. CASE Publish \/ PublishFails
  BY <1>17 DEF Publish, PublishFails, Sleep, memVars, leaseVars, diskVars,
               worldVars
<1>18. CASE SetLease
  BY <1>18 DEF SetLease, Sleep, worldVars
<1>. QED
  BY <1>1, <1>2, <1>3, <1>4, <1>5, <1>6, <1>7, <1>8, <1>9, <1>10, <1>11,
     <1>12, <1>13, <1>14, <1>15, <1>16, <1>17, <1>18 DEF Next

(* Every step keeps PublishedInv. *)
LEMMA PublishedStep ==
  ASSUME PublishedInv, [Next]_vars
  PROVE  PublishedInv'
<1> USE DEF PublishedInv, PortFileIsLease
<1>1. CASE UNCHANGED vars
  BY <1>1 DEF vars, memVars, leaseVars, diskVars
<1>2. CASE TunnelDown \/ TunnelUp \/ Reload \/ Start \/ Horizon \/ Wake
  BY <1>2 DEF TunnelDown, TunnelUp, Reload, Start, Horizon, Wake, vars,
              memVars, leaseVars, diskVars
<1>3. CASE Crash
  BY <1>3 DEF Crash, Exit, diskVars
<1>4. CASE ClientFails \/ ReadPendingFails \/ GenerateFails
  BY <1>4 DEF ClientFails, ReadPendingFails, GenerateFails, Sleep, memVars,
              leaseVars, diskVars
<1>5. CASE ReadPending \/ Generate
  BY <1>5 DEF ReadPending, Generate, leaseVars, diskVars
<1>6. CASE WriteConfig \/ ConfigHook \/ RestartGluetun
  BY <1>6 DEF WriteConfig, ConfigHook, RestartGluetun, Sleep, memVars,
              leaseVars, diskVars
<1>7. CASE ConfigHookFails \/ RestartFails \/ HandOverFails \/ AcquireFails
  BY <1>7 DEF ConfigHookFails, RestartFails, HandOverFails, AcquireFails,
              Disable, Sleep, diskVars
<1>8. CASE HandOver
  BY <1>8 DEF HandOver, Exit
<1>9. CASE Acquire
  BY <1>9 DEF Acquire, leaseVars, diskVars
<1>10. CASE Publish
  BY <1>10 DEF Publish, leaseVars
<1>11. CASE PublishFails
  BY <1>11 DEF PublishFails, Sleep, memVars, leaseVars, diskVars
<1>12. CASE SetLease
  BY <1>12 DEF SetLease, Sleep
<1>. QED
  BY <1>1, <1>2, <1>3, <1>4, <1>5, <1>6, <1>7, <1>8, <1>9, <1>10, <1>11,
     <1>12 DEF Next

(* The Boolean variables of TypeOK: the provers take them and the numbers  *)
(* one at a time.                                                          *)
Flags ==
  /\ enabled \in BOOLEAN
  /\ up \in BOOLEAN
  /\ attached \in BOOLEAN
  /\ reloaded \in BOOLEAN

(* TypeOK without them. *)
Data ==
  /\ pc \in {"exited", "sleep", "client", "write", "hook", "restart",
             "handover", "acquire", "publish", "set"}
  /\ reg \in 0..regs /\ (reg = 0 => pc \in {"exited", "sleep", "client"})
  /\ port \in Ports \cup {NoPort} /\ (port = NoPort => pc \notin {"publish", "set"})
  /\ lastPort \in Ports \cup {NoPort}
  /\ leasePort \in Ports \cup {NoPort} /\ leaseReg \in 0..regs
  /\ config \in 1..regs /\ pending \in 0..regs /\ running \in 1..regs
  /\ forwardedPort \in Ports \cup {NoPort}
  /\ regs \in 1..MaxRegs /\ faults \in 0..MaxFaults

(* TypeOK is the two together. *)
LEMMA TypeParts == TypeOK <=> Flags /\ Data
BY Zenon DEF TypeOK, Flags, Data

(* Every step keeps the Boolean variables Boolean. *)
LEMMA FlagsStep ==
  ASSUME Flags, [Next]_vars
  PROVE  Flags'
<1>1. CASE UNCHANGED vars
  BY Zenon, <1>1 DEF vars, Flags, memVars, leaseVars, diskVars, worldVars,
     histVars
<1>2. CASE TunnelDown
  BY Zenon, <1>2 DEF TunnelDown, Fault, Flags, memVars, leaseVars, diskVars,
     worldVars, histVars
<1>3. CASE TunnelUp
  BY Zenon, <1>3 DEF TunnelUp, Flags, memVars, leaseVars, diskVars,
     worldVars, histVars
<1>4. CASE Horizon \/ Wake
  BY Zenon, <1>4 DEF Horizon, Wake, vars, Flags, memVars, leaseVars,
     diskVars, worldVars, histVars
<1>5. CASE Reload
  BY Zenon, <1>5 DEF Reload, Fault, StartGluetun, Flags, memVars, leaseVars,
     diskVars, worldVars, histVars
<1>6. CASE Crash
  BY Zenon, <1>6 DEF Crash, Fault, Exit, Flags, memVars, leaseVars,
     diskVars, worldVars, histVars
<1>7. CASE Start
  BY Zenon, <1>7 DEF Start, Flags, memVars, leaseVars, diskVars, worldVars,
     histVars
<1>8. CASE ClientFails
  BY Zenon, <1>8 DEF ClientFails, Fault, Sleep, Flags, memVars, leaseVars,
     diskVars, worldVars, histVars
<1>9. CASE ReadPendingFails \/ GenerateFails
  BY Zenon, <1>9 DEF ReadPendingFails, GenerateFails, Fault, Sleep, Flags,
     memVars, leaseVars, diskVars, worldVars, histVars
<1>10. CASE ReadPending
  BY Zenon, <1>10 DEF ReadPending, Flags, memVars, leaseVars, diskVars,
     worldVars, histVars
<1>11. CASE Generate
  BY Zenon, <1>11 DEF Generate, Flags, memVars, leaseVars, diskVars,
     worldVars, histVars
<1>12. CASE WriteConfig
  BY Zenon, <1>12 DEF WriteConfig, Fault, Sleep, Flags, memVars, leaseVars,
     diskVars, worldVars, histVars
<1>13. CASE ConfigHook
  BY Zenon, <1>13 DEF ConfigHook, Sleep, Flags, memVars, leaseVars,
     diskVars, worldVars, histVars
<1>14. CASE ConfigHookFails
  BY Zenon, <1>14 DEF ConfigHookFails, Fault, Disable, Sleep, Flags,
     memVars, leaseVars, diskVars, worldVars, histVars
<1>15. CASE RestartGluetun
  BY Zenon, <1>15 DEF RestartGluetun, StartGluetun, Sleep, Flags, memVars,
     leaseVars, diskVars, worldVars, histVars
<1>16. CASE RestartFails
  BY Zenon, <1>16 DEF RestartFails, StartGluetun, Fault, Disable, Sleep,
     Flags, memVars, leaseVars, diskVars, worldVars, histVars
<1>17. CASE HandOver
  BY Zenon, <1>17 DEF HandOver, Exit, Flags, memVars, leaseVars, diskVars,
     worldVars, histVars
<1>18. CASE HandOverFails
  BY Zenon, <1>18 DEF HandOverFails, Fault, Disable, Sleep, Flags, memVars,
     leaseVars, diskVars, worldVars, histVars
<1>19. CASE Acquire
  BY Zenon, <1>19 DEF Acquire, Flags, memVars, leaseVars, diskVars,
     worldVars, histVars
<1>20. CASE AcquireFails
  BY Zenon, <1>20 DEF AcquireFails, Fault, Disable, Sleep, Flags, memVars,
     leaseVars, diskVars, worldVars, histVars
<1>21. CASE Publish
  BY Zenon, <1>21 DEF Publish, Flags, memVars, leaseVars, diskVars,
     worldVars, histVars
<1>22. CASE PublishFails
  BY Zenon, <1>22 DEF PublishFails, Fault, Sleep, Flags, memVars, leaseVars,
     diskVars, worldVars, histVars
<1>23. CASE SetLease
  BY Zenon, <1>23 DEF SetLease, Fault, Sleep, Flags, memVars, leaseVars,
     diskVars, worldVars, histVars
<1> QED
  BY <1>1, <1>2, <1>3, <1>4, <1>5, <1>6, <1>7, <1>8, <1>9, <1>10, <1>11,
     <1>12, <1>13, <1>14, <1>15, <1>16, <1>17, <1>18, <1>19, <1>20, <1>21,
     <1>22, <1>23 DEF Next

(* Every step keeps the other variables in their sets. *)
LEMMA DataStep ==
  ASSUME Data, [Next]_vars
  PROVE  Data'
<1>1. CASE UNCHANGED vars
  BY <1>1, DaemonAssumption DEF vars, Data, memVars, leaseVars, diskVars,
     worldVars, histVars
<1>2. CASE TunnelDown
  BY <1>2, DaemonAssumption DEF TunnelDown, Fault, Data, memVars, leaseVars,
     diskVars, worldVars, histVars
<1>3. CASE TunnelUp
  BY <1>3, DaemonAssumption DEF TunnelUp, Data, memVars, leaseVars,
     diskVars, worldVars, histVars
<1>4. CASE Horizon \/ Wake
  BY <1>4, DaemonAssumption DEF Horizon, Wake, vars, Data, memVars,
     leaseVars, diskVars, worldVars, histVars
<1>5. CASE Reload
  BY <1>5, DaemonAssumption DEF Reload, Fault, StartGluetun, Data, memVars,
     leaseVars, diskVars, worldVars, histVars
<1>6. CASE Crash
  BY <1>6, DaemonAssumption DEF Crash, Fault, Exit, Data, memVars,
     leaseVars, diskVars, worldVars, histVars
<1>7. CASE Start
  BY <1>7, DaemonAssumption DEF Start, Data, memVars, leaseVars, diskVars,
     worldVars, histVars
<1>8. CASE ClientFails
  BY <1>8, DaemonAssumption DEF ClientFails, Fault, Sleep, Data, memVars,
     leaseVars, diskVars, worldVars, histVars
<1>9. CASE ReadPendingFails \/ GenerateFails
  BY <1>9, DaemonAssumption DEF ReadPendingFails, GenerateFails, Fault,
     Sleep, Data, memVars, leaseVars, diskVars, worldVars, histVars
<1>10. CASE ReadPending
  BY <1>10, DaemonAssumption DEF ReadPending, Data, memVars, leaseVars,
     diskVars, worldVars, histVars
<1>11. CASE Generate
  BY <1>11, DaemonAssumption DEF Generate, Data, memVars, leaseVars,
     diskVars, worldVars, histVars
<1>12. CASE WriteConfig
  BY <1>12, DaemonAssumption DEF WriteConfig, Fault, Sleep, Data, memVars,
     leaseVars, diskVars, worldVars, histVars
<1>13. CASE ConfigHook
  BY <1>13, DaemonAssumption DEF ConfigHook, Sleep, Data, memVars,
     leaseVars, diskVars, worldVars, histVars
<1>14. CASE ConfigHookFails
  BY <1>14, DaemonAssumption DEF ConfigHookFails, Fault, Disable, Sleep,
     Data, memVars, leaseVars, diskVars, worldVars, histVars
<1>15. CASE RestartGluetun
  BY <1>15, DaemonAssumption DEF RestartGluetun, StartGluetun, Sleep, Data,
     memVars, leaseVars, diskVars, worldVars, histVars
<1>16. CASE RestartFails
  BY <1>16, DaemonAssumption DEF RestartFails, StartGluetun, Fault, Disable,
     Sleep, Data, memVars, leaseVars, diskVars, worldVars, histVars
<1>17. CASE HandOver
  BY <1>17, DaemonAssumption DEF HandOver, Exit, Data, memVars, leaseVars,
     diskVars, worldVars, histVars
<1>18. CASE HandOverFails
  BY <1>18, DaemonAssumption DEF HandOverFails, Fault, Disable, Sleep, Data,
     memVars, leaseVars, diskVars, worldVars, histVars
<1>19. CASE Acquire
  BY <1>19, DaemonAssumption DEF Acquire, Data, memVars, leaseVars,
     diskVars, worldVars, histVars
<1>20. CASE AcquireFails
  BY <1>20, DaemonAssumption DEF AcquireFails, Fault, Disable, Sleep, Data,
     memVars, leaseVars, diskVars, worldVars, histVars
<1>21. CASE Publish
  BY <1>21, DaemonAssumption DEF Publish, Data, memVars, leaseVars,
     diskVars, worldVars, histVars
<1>22. CASE PublishFails
  BY <1>22, DaemonAssumption DEF PublishFails, Fault, Sleep, Data, memVars,
     leaseVars, diskVars, worldVars, histVars
<1>23. CASE SetLease
  BY <1>23, DaemonAssumption DEF SetLease, Fault, Sleep, Data, memVars,
     leaseVars, diskVars, worldVars, histVars
<1> QED
  BY <1>1, <1>2, <1>3, <1>4, <1>5, <1>6, <1>7, <1>8, <1>9, <1>10, <1>11,
     <1>12, <1>13, <1>14, <1>15, <1>16, <1>17, <1>18, <1>19, <1>20, <1>21,
     <1>22, <1>23 DEF Next

(* Every variable of the loop, of its files and of gluetun keeps its type: *)
(* a registration is never named before it was made, an acquisition never  *)
(* runs for registration 0, which stands for no pending file, and nothing  *)
(* is published without a port.                                            *)
THEOREM TypeCorrect == Spec => []TypeOK
<1>1. Init => Flags /\ Data
  <2> SUFFICES ASSUME Init PROVE Flags /\ Data
    OBVIOUS
  <2>1. Flags
    BY DEF Init, Flags
  <2>2. Data
    BY DaemonAssumption DEF Init, Data
  <2> QED BY <2>1, <2>2
<1>2. Flags /\ Data /\ [Next]_vars => (Flags /\ Data)'
  BY FlagsStep, DataStep
<1>. QED
  BY <1>1, <1>2, TypeParts, PTL DEF Spec

(* The registration in pending_port_forward.json is always the one gluetun *)
(* runs and would start from again, through every crash and every failure  *)
(* of a write, a restart or a removal: runDaemon restarts gluetun before   *)
(* it hands over, and registers nothing while a hand-over is pending.      *)
THEOREM PendingAlwaysRunning == Spec => []PendingIsRunning
<1>1. Init => HandOverInv
  BY DEF Init, HandOverInv, PendingIsRunning
<1>2. HandOverInv /\ [Next]_vars => HandOverInv'
  BY HandOverStep
<1>3. HandOverInv => PendingIsRunning
  BY DEF HandOverInv
<1>. QED
  BY <1>1, <1>2, <1>3, PTL DEF Spec

(* Outside the window between the write and lease.set, forwarded_port      *)
(* holds the port of the lease runDaemon renews.                           *)
THEOREM PortFileAlwaysLease == Spec => []PortFileIsLease
<1>1. Init => PublishedInv
  BY DEF Init, PublishedInv, PortFileIsLease
<1>2. PublishedInv /\ [Next]_vars => PublishedInv'
  BY PublishedStep
<1>3. PublishedInv => PortFileIsLease
  BY DEF PublishedInv
<1>. QED
  BY <1>1, <1>2, <1>3, PTL DEF Spec
=============================================================================
