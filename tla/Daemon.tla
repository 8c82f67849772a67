-------------------------------- MODULE Daemon --------------------------------
(***************************************************************************)
(* The legacy single-process daemon, runDaemon of src/main.go: one loop    *)
(* that registers a key, writes wg0.conf, restarts gluetun and acquires    *)
(* the forwarded port.  With port forwarding it lives in gluetun's network *)
(* namespace, so after a restart it leaves pending_port_forward.json for   *)
(* its next incarnation and exits; Docker starts it again in the new       *)
(* namespace.  The renewal of the lease is the goroutine of PortForward.   *)
(*                                                                         *)
(* Registrations are numbered in the order in which they are made.  Faults *)
(* is the set of things that may go wrong, MaxFaults times in all:         *)
(*   "api"      PIA or its gateway refuses a call that reached it          *)
(*   "read"     pending_port_forward.json cannot be read                   *)
(*   "config"   wg0.conf cannot be written                                 *)
(*   "hook"     the on-config-change hook fails                            *)
(*   "restart"  the Docker API refuses the restart                         *)
(*   "answer"   gluetun is restarted but the API's answer is lost          *)
(*   "pending"  pending_port_forward.json cannot be written                *)
(*   "port"     forwarded_port cannot be written                           *)
(*   "remove"   pending_port_forward.json cannot be removed                *)
(*   "flap"     the tunnel goes down and comes back                        *)
(*   "reload"   something else restarts gluetun                            *)
(*   "crash"    the daemon's container dies and is started again           *)
(***************************************************************************)
EXTENDS Naturals

CONSTANTS
  Ports,              \* the ports PIA may assign
  PortForwarding,     \* --port-forwarding
  RestartContainer,   \* TRUE when --restart-container names gluetun
  SharedGateway,      \* TRUE when two registrations may have the same gateway
  Faults,             \* see above
  MaxFaults,          \* bound on the faults of a run, for model checking
  MaxRegs             \* bound on the registrations of a run

NoPort == 0

ASSUME DaemonAssumption ==
  /\ Ports \subseteq Nat \ {NoPort} /\ Ports # {}
  /\ PortForwarding \in BOOLEAN
  /\ RestartContainer \in BOOLEAN
  /\ SharedGateway \in BOOLEAN
  /\ Faults \subseteq {"api", "read", "config", "hook", "restart", "answer",
                       "pending", "port", "remove", "flap", "reload", "crash"}
  /\ MaxFaults \in Nat
  /\ MaxRegs \in Nat \ {0}

VARIABLES
  pc,              \* where the loop is; "exited" when there is no process
  reg,             \* the registration whose port is acquired
  port,            \* the port of its signature
  lastPort,
  enabled, leasePort, leaseReg,    \* pfLeaseState
  config,          \* wg0.conf: a registration
  pending,         \* pending_port_forward.json: a registration, 0 for no file
  forwardedPort,   \* the forwarded_port file
  running,         \* the registration of gluetun's tunnel
  up,              \* the tunnel carries traffic
  attached,        \* the process is in gluetun's current namespace
  reloaded,        \* history: something else restarted gluetun since the
                   \* process was started
  regs,            \* history: registrations made so far
  faults           \* history: faults so far

leaseVars == <<enabled, leasePort, leaseReg>>
memVars   == <<reg, port, lastPort, leaseVars>>
diskVars  == <<config, pending, forwardedPort>>
worldVars == <<running, up, attached, reloaded>>
histVars  == <<regs, faults>>
vars == <<pc, memVars, diskVars, worldVars, histVars>>

(* gluetun runs a config that was generated by hand. *)
Init ==
  /\ pc = "client" /\ reg = 0 /\ port = NoPort /\ lastPort = NoPort
  /\ enabled = FALSE /\ leasePort = NoPort /\ leaseReg = 0
  /\ config = 1 /\ pending = 0 /\ forwardedPort = NoPort
  /\ running = 1 /\ up = TRUE /\ attached = TRUE
  /\ reloaded = FALSE /\ regs = 1 /\ faults = 0

Fault(f) ==
  /\ f \in Faults
  /\ faults < MaxFaults
  /\ faults' = faults + 1

(* The process ends and its memory with it. *)
Exit ==
  /\ pc' = "exited"
  /\ reg' = 0 /\ port' = NoPort /\ lastPort' = NoPort
  /\ enabled' = FALSE /\ leasePort' = NoPort /\ leaseReg' = 0

(* The loop's next iteration comes after retryDelay or at the next refresh. *)
Sleep == pc' = "sleep"

Disable == enabled' = FALSE /\ UNCHANGED <<leasePort, leaseReg>>

-----------------------------------------------------------------------------
TunnelDown ==
  /\ up
  /\ Fault("flap")
  /\ up' = FALSE
  /\ UNCHANGED <<pc, memVars, diskVars, running, attached, reloaded, regs>>

TunnelUp ==
  /\ ~up
  /\ up' = TRUE
  /\ UNCHANGED <<pc, memVars, diskVars, running, attached, reloaded,
                 histVars>>

(* gluetun starts from wg0.conf, in a network namespace of its own. *)
StartGluetun == running' = config /\ up' = TRUE /\ attached' = FALSE

Reload ==
  /\ Fault("reload")
  /\ StartGluetun
  /\ reloaded' = TRUE
  /\ UNCHANGED <<pc, memVars, diskVars, regs>>

Crash ==
  /\ pc # "exited"
  /\ Fault("crash")
  /\ Exit
  /\ UNCHANGED <<diskVars, worldVars, regs>>

(* Docker starts the container again, in the current namespace. *)
Start ==
  /\ pc = "exited"
  /\ pc' = "client"
  /\ attached' = TRUE
  /\ reloaded' = FALSE
  /\ UNCHANGED <<memVars, diskVars, running, up, histVars>>

(* The process has a network.  Without port forwarding it need not share   *)
(* gluetun's namespace.                                                    *)
Online == ~PortForwarding \/ (attached /\ up)

(* The gateway of registration r answers through the tunnel. *)
Reachable(r) == Online /\ (running = r \/ SharedGateway)

-----------------------------------------------------------------------------
Wake ==
  /\ pc = "sleep"
  /\ pc' = "client"
  /\ UNCHANGED <<memVars, diskVars, worldVars, histVars>>

(* NewPIAClient fails. *)
ClientFails ==
  /\ pc = "client"
  /\ (~Online /\ UNCHANGED faults) \/ Fault("api")
  /\ Sleep
  /\ UNCHANGED <<memVars, diskVars, worldVars, regs>>

ReadPendingFails ==
  /\ pc = "client" /\ Online
  /\ PortForwarding /\ pending # 0
  /\ Fault("read")
  /\ Sleep
  /\ UNCHANGED <<memVars, diskVars, worldVars, regs>>

(* Mutant: a file that is not there is taken for an empty one. *)
ReadPending_NoFile ==
  /\ pc = "client" /\ Online
  /\ PortForwarding
  /\ reg' = pending
  /\ pc' = "acquire"
  /\ UNCHANGED <<port, lastPort, leaseVars, diskVars, worldVars, histVars>>

(* The previous incarnation left a registration: its port comes first. *)
ReadPending ==
  /\ pc = "client" /\ Online
  /\ PortForwarding /\ pending # 0
  /\ reg' = pending
  /\ pc' = "acquire"
  /\ UNCHANGED <<port, lastPort, leaseVars, diskVars, worldVars, histVars>>

(* Nothing is pending and GenerateWithMetadata registers a key. *)
Generate ==
  /\ pc = "client" /\ Online
  /\ ~PortForwarding \/ pending = 0
  /\ regs < MaxRegs
  /\ regs' = regs + 1
  /\ reg' = regs'
  /\ pc' = "write"
  /\ UNCHANGED <<port, lastPort, leaseVars, diskVars, worldVars, faults>>

GenerateFails ==
  /\ pc = "client" /\ Online
  /\ ~PortForwarding \/ pending = 0
  /\ Fault("api")
  /\ Sleep
  /\ UNCHANGED <<memVars, diskVars, worldVars, regs>>

WriteConfig ==
  /\ pc = "write"
  /\ \/ config' = reg /\ pc' = "hook" /\ UNCHANGED faults
     \/ Fault("config") /\ Sleep /\ UNCHANGED config
  /\ UNCHANGED <<memVars, pending, forwardedPort, worldVars, regs>>

(* Mutant: the metadata is handed over before gluetun is restarted. *)
ConfigHook_HandsOverFirst ==
  /\ pc = "hook"
  /\ pc' = "restart"
  /\ pending' = reg
  /\ UNCHANGED <<memVars, config, forwardedPort, worldVars, histVars>>

(* on-config-change succeeds.  Where there is no container to restart, it  *)
(* is what may reload the tunnel.                                          *)
ConfigHook ==
  /\ pc = "hook"
  /\ IF RestartContainer
       THEN pc' = "restart" /\ UNCHANGED running
       ELSE /\ running' \in {running, config}
            /\ IF PortForwarding THEN pc' = "acquire" ELSE Sleep
  /\ UNCHANGED <<memVars, diskVars, up, attached, reloaded, histVars>>

ConfigHookFails ==
  /\ pc = "hook"
  /\ Fault("hook")
  /\ Disable /\ Sleep
  /\ UNCHANGED <<reg, port, lastPort, diskVars, worldVars, regs>>

RestartGluetun ==
  /\ pc = "restart"
  /\ StartGluetun
  /\ IF PortForwarding THEN pc' = "handover" ELSE Sleep
  /\ UNCHANGED <<memVars, diskVars, reloaded, histVars>>

RestartFails ==
  /\ pc = "restart"
  /\ \/ Fault("restart") /\ UNCHANGED worldVars
     \/ Fault("answer") /\ StartGluetun /\ UNCHANGED reloaded
  /\ Disable /\ Sleep
  /\ UNCHANGED <<reg, port, lastPort, diskVars, regs>>

(* Mutant: the loop goes on instead of exiting. *)
HandOver_NoExit ==
  /\ pc = "handover"
  /\ pending' = reg
  /\ Sleep
  /\ UNCHANGED <<memVars, config, forwardedPort, worldVars, histVars>>

(* The metadata is on disk and the process exits. *)
HandOver ==
  /\ pc = "handover"
  /\ pending' = reg
  /\ Exit
  /\ UNCHANGED <<config, forwardedPort, worldVars, histVars>>

(* It could not be written: the process stays. *)
HandOverFails ==
  /\ pc = "handover"
  /\ Fault("pending")
  /\ Disable /\ Sleep
  /\ UNCHANGED <<reg, port, lastPort, diskVars, worldVars, regs>>

-----------------------------------------------------------------------------
(* The gateway wait, the token, the signature and the first bind, for a    *)
(* pending registration or, without a container to restart, a new one.     *)
Acquire ==
  /\ pc = "acquire" /\ Reachable(reg)
  /\ port' \in Ports
  /\ pc' = "publish"
  /\ UNCHANGED <<reg, lastPort, leaseVars, diskVars, worldVars, histVars>>

AcquireFails ==
  /\ pc = "acquire"
  /\ (~Reachable(reg) /\ UNCHANGED faults) \/ Fault("api")
  /\ Disable /\ Sleep
  /\ UNCHANGED <<reg, port, lastPort, diskVars, worldVars, regs>>

(* forwarded_port is written and on-port-change is run for a new port. *)
Publish ==
  /\ pc = "publish"
  /\ forwardedPort' = port
  /\ lastPort' = port
  /\ pc' = "set"
  /\ UNCHANGED <<reg, port, leaseVars, config, pending, worldVars, histVars>>

(* Mutant: as in the pf daemon, the failure is only logged. *)
PublishFails_Ignored ==
  /\ pc = "publish"
  /\ Fault("port")
  /\ lastPort' = port
  /\ pc' = "set"
  /\ UNCHANGED <<reg, port, leaseVars, diskVars, worldVars, regs>>

(* It could not be written: the whole acquisition is tried again. *)
PublishFails ==
  /\ pc = "publish"
  /\ Fault("port")
  /\ Sleep
  /\ UNCHANGED <<memVars, diskVars, worldVars, regs>>

(* lease.set, and the pending file, when there is one, is removed. *)
SetLease ==
  /\ pc = "set"
  /\ enabled' = TRUE /\ leasePort' = port /\ leaseReg' = reg
  /\ \/ pending' = 0 /\ UNCHANGED faults
     \/ pending # 0 /\ Fault("remove") /\ UNCHANGED pending
  /\ Sleep
  /\ UNCHANGED <<reg, port, lastPort, config, forwardedPort, worldVars, regs>>

(* The bound on registrations is reached; the behaviour ends here. *)
Horizon ==
  /\ regs = MaxRegs
  /\ UNCHANGED vars

Next ==
  \/ TunnelDown \/ TunnelUp \/ Reload \/ Crash \/ Start \/ Wake \/ Horizon
  \/ ClientFails \/ ReadPendingFails \/ ReadPending
  \/ Generate \/ GenerateFails \/ WriteConfig
  \/ ConfigHook \/ ConfigHookFails \/ RestartGluetun \/ RestartFails
  \/ HandOver \/ HandOverFails
  \/ Acquire \/ AcquireFails \/ Publish \/ PublishFails \/ SetLease

Spec == Init /\ [][Next]_vars

(* The process runs and its calls return, the tunnel comes back, and       *)
(* Docker's restart policy starts a container that exited.                 *)
Fairness ==
  /\ WF_vars(Start) /\ WF_vars(Wake) /\ WF_vars(TunnelUp)
  /\ WF_vars(ClientFails \/ ReadPendingFails \/ ReadPending
               \/ Generate \/ GenerateFails)
  /\ WF_vars(WriteConfig)
  /\ WF_vars(ConfigHook \/ ConfigHookFails)
  /\ WF_vars(RestartGluetun \/ RestartFails)
  /\ WF_vars(HandOver \/ HandOverFails)
  /\ WF_vars(Acquire \/ AcquireFails)
  /\ WF_vars(Publish \/ PublishFails)
  /\ WF_vars(SetLease)

FairSpec == Spec /\ Fairness

-----------------------------------------------------------------------------
TypeOK ==
  /\ pc \in {"exited", "sleep", "client", "write", "hook", "restart",
             "handover", "acquire", "publish", "set"}
  /\ reg \in 0..regs /\ (reg = 0 => pc \in {"exited", "sleep", "client"})
  /\ port \in Ports \cup {NoPort} /\ (port = NoPort => pc \notin {"publish", "set"})
  /\ lastPort \in Ports \cup {NoPort}
  /\ enabled \in BOOLEAN /\ leasePort \in Ports \cup {NoPort} /\ leaseReg \in 0..regs
  /\ config \in 1..regs /\ pending \in 0..regs /\ running \in 1..regs
  /\ forwardedPort \in Ports \cup {NoPort}
  /\ up \in BOOLEAN /\ attached \in BOOLEAN /\ reloaded \in BOOLEAN
  /\ regs \in 1..MaxRegs /\ faults \in 0..MaxFaults

(* What the next incarnation acquires its port for is the registration it  *)
(* will find in the tunnel: a pending file names the registration gluetun  *)
(* runs and would start from again, wherever the process is killed and     *)
(* whichever write, restart or removal fails.                              *)
PendingIsRunning ==
  pending # 0 => pending = running /\ pending = config

(* The lease that is renewed is the one consumers were told of: except     *)
(* between the write of forwarded_port and lease.set, the file holds the   *)
(* port of the lease, although a failed write leaves the old lease on.     *)
PortFileIsLease ==
  enabled /\ pc # "set" => forwardedPort = leasePort

(* A registration that was handed over gets its port: the exit, the        *)
(* restart by Docker and the retries of the next incarnation suffice,      *)
(* however the tunnel flaps, calls fail and the process crashes meanwhile. *)
(* The exception is a process that something else stranded by restarting   *)
(* gluetun, which nothing in runDaemon notices.                            *)
PendingServed ==
  pending # 0 ~> ((enabled /\ leaseReg = running) \/ reloaded)

(* README.md:973, after each refresh the daemon has "to exit and be        *)
(* restarted by Docker to rejoin the VPN's new network namespace".         *)
Rejoins == ~attached ~> attached
=============================================================================
