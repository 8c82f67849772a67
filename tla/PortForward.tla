----------------------------- MODULE PortForward -----------------------------
(***************************************************************************)
(* The pf daemon of src/pf_daemon.go and the lease code it uses in         *)
(* src/main.go and src/pia/pf.go: a goroutine that polls                   *)
(* pending_port_forward.json and acquires a port for a new registration,   *)
(* and a goroutine that renews the current lease.  Around it: the refresh  *)
(* daemon, which writes the config, hands over its metadata and restarts   *)
(* gluetun; gluetun, whose restart strands pf in a dead network namespace  *)
(* until pf is restarted; and PIA's gateway, which forwards a port to the  *)
(* tunnel it was bound through and forgets it unless it is bound again.    *)
(*                                                                         *)
(* Registrations are numbered in the order of their CreatedUTC.  Faults is *)
(* the set of things that may go wrong, MaxFaults times in all:            *)
(*   "api"     the server list, the token or getSignature fails            *)
(*   "bind"    bindPort fails although the gateway is reachable            *)
(*   "renew"   a renewal fails although the gateway is reachable           *)
(*   "write"   forwarded_port cannot be written                            *)
(*   "flap"    the tunnel goes down and comes back in the same namespace   *)
(*   "restart" pf's container is restarted for another reason              *)
(***************************************************************************)
EXTENDS Naturals, FiniteSets

CONSTANTS
  Ports,           \* the ports PIA may assign
  SharedGateway,   \* TRUE when two registrations may have the same gateway
  Faults,          \* see above
  MaxFaults,       \* bound on the faults of a run, for model checking
  MaxRegs          \* bound on the registrations of a run

NoPort == 0

ASSUME PortForwardAssumption ==
  /\ Ports \subseteq Nat \ {NoPort} /\ Ports # {}
  /\ SharedGateway \in BOOLEAN
  /\ Faults \subseteq {"api", "bind", "renew", "write", "flap", "restart"}
  /\ MaxFaults \in Nat
  /\ MaxRegs \in Nat

VARIABLES
  \* the poll goroutine of pf
  pollPc,        \* "idle", "client", "acquire", "bind", "publish", "set"
  target,        \* pending.CreatedUTC as read
  port,          \* the port of the signature being bound
  active,        \* activeRegistration
  lastPort,
  \* pfLeaseState, shared by the two goroutines
  enabled, leasePort, leaseReg,
  \* the renew goroutine
  renewPc,       \* "idle" or "bind"
  snapPort, snapReg,       \* the lease it renews
  \* the state directory
  config,        \* wg0.conf: a registration
  pending,       \* pending_port_forward.json: a registration, 0 for no file
  forwardedPort, \* the forwarded_port file
  \* gluetun, the namespace and PIA
  running,       \* the registration of the tunnel
  up,            \* the tunnel carries traffic
  attached,      \* pf is in gluetun's current namespace
  forwarded,     \* the ports forwarded to the running registration
  fresh,         \* those that cannot lapse before the next renewal tick
  \* history
  faults,        \* faults so far
  missed,        \* ports whose last renewal failed
  unwritten      \* the last write of forwarded_port failed

pollVars  == <<pollPc, target, port, active, lastPort>>
leaseVars == <<enabled, leasePort, leaseReg>>
renewVars == <<renewPc, snapPort, snapReg>>
worldVars == <<config, pending, running, up, attached>>
gateVars  == <<forwarded, fresh>>
histVars  == <<missed, unwritten>>
vars == <<pollVars, leaseVars, renewVars, forwardedPort, worldVars, gateVars,
          faults, histVars>>

Init ==
  /\ pollPc = "idle" /\ target = 0 /\ port = NoPort
  /\ active = 0 /\ lastPort = NoPort
  /\ enabled = FALSE /\ leasePort = NoPort /\ leaseReg = 0
  /\ renewPc = "idle" /\ snapPort = NoPort /\ snapReg = 0
  /\ config = 0 /\ pending = 0 /\ forwardedPort = NoPort
  /\ running = 0 /\ up = FALSE /\ attached = TRUE
  /\ forwarded = {} /\ fresh = {}
  /\ faults = 0 /\ missed = {} /\ unwritten = FALSE

Fault(f) ==
  /\ f \in Faults
  /\ faults < MaxFaults
  /\ faults' = faults + 1

-----------------------------------------------------------------------------
(* The refresh daemon, which implements Registrar, is known here by that   *)
(* module's actions.                                                       *)
R == INSTANCE Registrar

(* It writes a new wg0.conf. *)
NewConfig ==
  /\ config < MaxRegs
  /\ config' = config + 1
  /\ R!NewConfig
  /\ UNCHANGED <<pollVars, leaseVars, renewVars, forwardedPort, up, attached,
                 gateVars, faults, histVars>>

(* It hands the metadata of that config to pf. *)
HandOver ==
  /\ pending < config
  /\ R!HandOver
  /\ UNCHANGED <<pollVars, leaseVars, renewVars, forwardedPort, up, attached,
                 gateVars, faults, histVars>>

(* gluetun is restarted, by the refresh daemon or by something else, from  *)
(* wg0.conf; its namespace is new, and what was forwarded to another       *)
(* registration is lost.                                                   *)
RestartGluetun ==
  /\ config # 0
  /\ running # config \/ ("flap" \in Faults /\ faults < MaxFaults)
  /\ faults' = IF running # config THEN faults ELSE faults + 1
  /\ R!Restart
  /\ up' = TRUE
  /\ attached' = FALSE
  /\ forwarded' = IF running = config THEN forwarded ELSE {}
  /\ fresh' = fresh \cap forwarded'
  /\ UNCHANGED <<pollVars, leaseVars, renewVars, forwardedPort, histVars>>

TunnelDown ==
  /\ up
  /\ Fault("flap")
  /\ up' = FALSE
  /\ UNCHANGED <<pollVars, leaseVars, renewVars, forwardedPort, config,
                 pending, running, attached, gateVars, histVars>>

TunnelUp ==
  /\ ~up /\ running # 0
  /\ up' = TRUE
  /\ UNCHANGED <<pollVars, leaseVars, renewVars, forwardedPort, config,
                 pending, running, attached, gateVars, faults, histVars>>

(* pf's container is restarted, by the companion that finds it stranded or *)
(* for another reason, and joins the current namespace: its memory is gone.*)
RestartPF ==
  /\ (~attached /\ UNCHANGED faults) \/ Fault("restart")
  /\ attached' = TRUE
  /\ pollPc' = "idle" /\ target' = 0 /\ port' = NoPort
  /\ active' = 0 /\ lastPort' = NoPort
  /\ enabled' = FALSE /\ leasePort' = NoPort /\ leaseReg' = 0
  /\ renewPc' = "idle" /\ snapPort' = NoPort /\ snapReg' = 0
  /\ UNCHANGED <<forwardedPort, config, pending, running, up, gateVars,
                 histVars>>

(* PIA drops a port that was not bound again in time. *)
Lapse ==
  /\ renewPc = "idle"
  /\ \E p \in forwarded \ fresh : forwarded' = forwarded \ {p}
  /\ UNCHANGED <<pollVars, leaseVars, renewVars, forwardedPort, worldVars,
                 fresh, faults, histVars>>

-----------------------------------------------------------------------------
(* Through the tunnel pf is attached to. *)
Online == attached /\ up

(* The gateway in the metadata of registration r answers. *)
Reachable(r) == Online /\ (running = r \/ SharedGateway)

(* Mutant: a registration that was acquired already counts as new. *)
IsNew_NotBefore(r) == r >= active

(* The poll loop's guard: pending.CreatedUTC.After(activeRegistration). *)
IsNew(r) == r > active

(* A poll that finds a new registration.  One that finds no file, cannot   *)
(* read it, or finds nothing new changes nothing.                          *)
Poll ==
  /\ pollPc = "idle"
  /\ pending # 0 /\ IsNew(pending)
  /\ target' = pending
  /\ pollPc' = "client"
  /\ UNCHANGED <<port, active, lastPort, leaseVars, renewVars, forwardedPort,
                 worldVars, gateVars, faults, histVars>>

ClientOK ==
  /\ pollPc = "client" /\ Online
  /\ pollPc' = "acquire"
  /\ UNCHANGED <<target, port, active, lastPort, leaseVars, renewVars,
                 forwardedPort, worldVars, gateVars, faults, histVars>>

(* Client setup fails: the next poll tries again, the lease is kept. *)
ClientFails ==
  /\ pollPc = "client"
  /\ (~Online /\ UNCHANGED faults) \/ Fault("api")
  /\ pollPc' = "idle"
  /\ UNCHANGED <<target, port, active, lastPort, leaseVars, renewVars,
                 forwardedPort, worldVars, gateVars, histVars>>

(* waitForGateway returns, and GetToken and GetSignature succeed. *)
GetSignature ==
  /\ pollPc = "acquire" /\ Reachable(target)
  /\ port' \in Ports
  /\ pollPc' = "bind"
  /\ UNCHANGED <<target, active, lastPort, leaseVars, renewVars,
                 forwardedPort, worldVars, gateVars, faults, histVars>>

(* Mutant: the first bind is left to the renewal loop. *)
BindPort_Skipped ==
  /\ pollPc = "bind" /\ Reachable(target)
  /\ pollPc' = "publish"
  /\ UNCHANGED <<target, port, active, lastPort, leaseVars, renewVars,
                 forwardedPort, worldVars, gateVars, faults, histVars>>

(* The initial bind, through the tunnel pf is attached to. *)
BindPort ==
  /\ pollPc = "bind" /\ Reachable(target)
  /\ forwarded' = forwarded \cup {port}
  /\ fresh' = fresh \cup {port}
  /\ missed' = missed \ {port}
  /\ pollPc' = "publish"
  /\ UNCHANGED <<target, port, active, lastPort, leaseVars, renewVars,
                 forwardedPort, worldVars, faults, unwritten>>

(* Mutant: a registration whose acquisition failed is not tried again. *)
AcquireFails_GivesUp ==
  /\ \/ pollPc \in {"acquire", "bind"} /\ ~Reachable(target) /\ UNCHANGED faults
     \/ pollPc = "acquire" /\ Fault("api")
     \/ pollPc = "bind" /\ Fault("bind")
  /\ enabled' = FALSE
  /\ active' = target
  /\ pollPc' = "idle"
  /\ UNCHANGED <<target, port, lastPort, leasePort, leaseReg, renewVars,
                 forwardedPort, worldVars, gateVars, histVars>>

(* The gateway wait, the token, the signature or the bind fails: the lease *)
(* is disabled and the next poll tries again.                              *)
AcquireFails ==
  /\ \/ pollPc \in {"acquire", "bind"} /\ ~Reachable(target) /\ UNCHANGED faults
     \/ pollPc = "acquire" /\ Fault("api")
     \/ pollPc = "bind" /\ Fault("bind")
  /\ enabled' = FALSE
  /\ pollPc' = "idle"
  /\ UNCHANGED <<target, port, active, lastPort, leasePort, leaseReg,
                 renewVars, forwardedPort, worldVars, gateVars, histVars>>

(* forwarded_port is written, a failure only logged, and on-port-change is *)
(* run when this process has not run it for this port.                     *)
Publish ==
  /\ pollPc = "publish"
  /\ \/ forwardedPort' = port /\ unwritten' = FALSE /\ UNCHANGED faults
     \/ Fault("write") /\ unwritten' = TRUE /\ UNCHANGED forwardedPort
  /\ lastPort' = port
  /\ pollPc' = "set"
  /\ UNCHANGED <<target, port, active, leaseVars, renewVars, worldVars,
                 gateVars, missed>>

(* lease.set, when the hook has returned. *)
SetLease ==
  /\ pollPc = "set"
  /\ enabled' = TRUE /\ leasePort' = port /\ leaseReg' = target
  /\ active' = target
  /\ pollPc' = "idle"
  /\ UNCHANGED <<target, port, lastPort, renewVars, forwardedPort, worldVars,
                 gateVars, faults, histVars>>

-----------------------------------------------------------------------------
(* Mutant: the renewal does not ask whether there is a lease. *)
RenewTick_IgnoresEnabled ==
  /\ renewPc = "idle"
  /\ fresh' = IF pollPc \in {"publish", "set"} THEN fresh \cap {port} ELSE {}
  /\ renewPc' = "bind" /\ snapPort' = leasePort /\ snapReg' = leaseReg
  /\ UNCHANGED <<pollVars, leaseVars, forwardedPort, worldVars, forwarded,
                 faults, histVars>>

(* A tick of the renewal loop: what was bound before it is due, and the    *)
(* lease, when there is one, is copied under the mutex.  A port that is    *)
(* still being published was bound less than a minute ago, as long as the  *)
(* on-port-change hook returns within that minute, and outlives the        *)
(* next tick too: the lease lasts a minute longer than the period.         *)
RenewTick ==
  /\ renewPc = "idle"
  /\ fresh' = IF pollPc \in {"publish", "set"} THEN fresh \cap {port} ELSE {}
  /\ IF enabled
       THEN renewPc' = "bind" /\ snapPort' = leasePort /\ snapReg' = leaseReg
       ELSE UNCHANGED renewVars
  /\ UNCHANGED <<pollVars, leaseVars, forwardedPort, worldVars, forwarded,
                 faults, histVars>>

Renewed ==
  /\ renewPc = "bind" /\ Reachable(snapReg)
  /\ forwarded' = forwarded \cup {snapPort}
  /\ fresh' = fresh \cup {snapPort}
  /\ missed' = missed \ {snapPort}
  /\ renewPc' = "idle"
  /\ UNCHANGED <<pollVars, leaseVars, snapPort, snapReg, forwardedPort,
                 worldVars, faults, unwritten>>

(* A failed renewal is only logged. *)
RenewFails ==
  /\ renewPc = "bind"
  /\ (~Reachable(snapReg) /\ UNCHANGED faults) \/ Fault("renew")
  /\ missed' = missed \cup {snapPort}
  /\ renewPc' = "idle"
  /\ UNCHANGED <<pollVars, leaseVars, snapPort, snapReg, forwardedPort,
                 worldVars, gateVars, unwritten>>

Next ==
  \/ NewConfig \/ HandOver \/ RestartGluetun \/ TunnelDown \/ TunnelUp
  \/ RestartPF \/ Lapse
  \/ Poll \/ ClientOK \/ ClientFails \/ GetSignature \/ BindPort
  \/ AcquireFails \/ Publish \/ SetLease
  \/ RenewTick \/ Renewed \/ RenewFails

Spec == Init /\ [][Next]_vars

(* The goroutines run, their calls return, the tunnel comes back, and the  *)
(* companion restarts a stranded pf.                                       *)
Fairness ==
  /\ WF_vars(Poll)
  /\ WF_vars(ClientOK \/ ClientFails)
  /\ WF_vars(GetSignature \/ BindPort \/ AcquireFails)
  /\ WF_vars(Publish)
  /\ WF_vars(SetLease)
  /\ WF_vars(RenewTick)
  /\ WF_vars(Renewed \/ RenewFails)
  /\ WF_vars(TunnelUp)
  /\ WF_vars(RestartPF /\ ~attached)

FairSpec == Spec /\ Fairness

-----------------------------------------------------------------------------
TypeOK ==
  /\ pollPc \in {"idle", "client", "acquire", "bind", "publish", "set"}
  /\ target \in Nat /\ port \in Ports \cup {NoPort}
  /\ active \in Nat /\ lastPort \in Ports \cup {NoPort}
  /\ enabled \in BOOLEAN /\ leasePort \in Ports \cup {NoPort} /\ leaseReg \in Nat
  /\ renewPc \in {"idle", "bind"}
  /\ snapPort \in Ports \cup {NoPort} /\ snapReg \in Nat
  /\ config \in 0..MaxRegs /\ pending \in 0..config /\ running \in 0..config
  /\ forwardedPort \in Ports \cup {NoPort}
  /\ up \in BOOLEAN /\ attached \in BOOLEAN
  /\ forwarded \subseteq Ports /\ fresh \subseteq forwarded
  /\ faults \in 0..MaxFaults
  /\ missed \subseteq Ports /\ unwritten \in BOOLEAN

(* What a consumer of forwarded_port relies on: while pf is attached and   *)
(* idle with a lease for the tunnel gluetun runs, the port of the lease is *)
(* the one in the file, unless that write failed (pf_daemon.go:118 only    *)
(* logs it), and is really forwarded to that tunnel, unless its last       *)
(* renewal failed, however gluetun restarts, hand-overs and the two        *)
(* goroutines interleave.                                                  *)
PublishedIsForwarded ==
  pollPc = "idle" /\ enabled /\ attached /\ running = leaseReg =>
    /\ forwardedPort = leasePort \/ unwritten
    /\ leasePort \in forwarded \cup missed

(* pf_daemon.go:87, the guard "never thrash GetSignature": one process     *)
(* never asks for a signature for a registration it already holds a lease  *)
(* for, even when the metadata changes while it acquires.                  *)
LeaseNotReacquired ==
  [][pollPc = "acquire" /\ pollPc' = "bind" /\ enabled => target > leaseReg]_vars

(* The system is at rest: no registration is on its way to gluetun. *)
Settled == Online /\ running # 0 /\ running = config /\ pending = config

(* When the refresh daemon hands over its last registration and gluetun    *)
(* runs it, pf ends up with a lease for it whose port stays forwarded,     *)
(* whatever failed on the way.                                             *)
PortComesBack ==
  <>[]Settled => <>[](enabled /\ leaseReg = running /\ leasePort \in forwarded)

=============================================================================
