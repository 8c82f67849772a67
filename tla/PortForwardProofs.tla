-------------------------- MODULE PortForwardProofs --------------------------
(***************************************************************************)
(* Proofs about the pf daemon and its renewal goroutine, for every set of  *)
(* ports and faults, any number of registrations, and gateways that are    *)
(* shared or not.                                                          *)
(***************************************************************************)
EXTENDS PortForward, TLAPS

-----------------------------------------------------------------------------
(* A port is at hand wherever one is bound: TypeOK alone would allow the   *)
(* gateway to forward port 0.                                              *)
PortInv ==
  /\ pollPc \in {"bind", "publish", "set"} => port \in Ports
  /\ enabled => leasePort \in Ports
  /\ renewPc = "bind" => snapPort \in Ports

(* What each step before lease.set has established, and what the renewal   *)
(* goroutine keeps up while the lease may be replaced under it.  A port    *)
(* that cannot lapse before the next tick, that is being renewed, or whose *)
(* renewal failed, are the three states of the port of a lease.            *)
LeaseInv ==
  /\ attached /\ pollPc \in {"publish", "set"} => port \in fresh
  /\ attached /\ enabled =>
       \/ leasePort \in fresh \cup missed
       \/ renewPc = "bind" /\ snapPort = leasePort /\ leasePort \in forwarded
  /\ pollPc = "set" => forwardedPort = port \/ unwritten
  /\ enabled /\ pollPc # "set" => forwardedPort = leasePort \/ unwritten

(* What is acquired is newer than what the process holds. *)
TargetInv ==
  /\ pollPc # "idle" => target > active
  /\ enabled => leaseReg <= active

IInv == TypeOK /\ PortInv /\ LeaseInv /\ TargetInv

(* The Boolean variables of TypeOK: the provers take them and the numbers  *)
(* one at a time.                                                          *)
Flags ==
  /\ enabled \in BOOLEAN
  /\ up \in BOOLEAN
  /\ attached \in BOOLEAN
  /\ unwritten \in BOOLEAN

(* TypeOK without them. *)
Data ==
  /\ pollPc \in {"idle", "client", "acquire", "bind", "publish", "set"}
  /\ target \in Nat /\ port \in Ports \cup {NoPort}
  /\ active \in Nat /\ lastPort \in Ports \cup {NoPort}
  /\ leasePort \in Ports \cup {NoPort} /\ leaseReg \in Nat
  /\ renewPc \in {"idle", "bind"}
  /\ snapPort \in Ports \cup {NoPort} /\ snapReg \in Nat
  /\ config \in 0..MaxRegs /\ pending \in 0..config /\ running \in 0..config
  /\ forwardedPort \in Ports \cup {NoPort}
  /\ forwarded \subseteq Ports /\ fresh \subseteq forwarded
  /\ faults \in 0..MaxFaults
  /\ missed \subseteq Ports

(* TypeOK is the two together. *)
LEMMA TypeParts == TypeOK <=> Flags /\ Data
BY Zenon DEF TypeOK, Flags, Data

(* The same of the next state. *)
LEMMA TypePartsNext == TypeOK' <=> Flags' /\ Data'
BY Zenon DEF TypeOK, Flags, Data

(* A process that holds nothing, before the first registration. *)
LEMMA InitInv == Init => IInv
<1> SUFFICES ASSUME Init PROVE IInv
  OBVIOUS
<1>1. TypeOK
  <2>1. Flags
    BY DEF Init, Flags
  <2>2. Data
    BY PortForwardAssumption DEF Init, Data
  <2> QED BY <2>1, <2>2, TypeParts
<1>2. PortInv /\ LeaseInv /\ TargetInv
  BY DEF Init, PortInv, LeaseInv, TargetInv
<1> QED BY <1>1, <1>2 DEF IInv

(* Every step keeps the types; a bind needs PortInv. *)
LEMMA TypeStep ==
  ASSUME TypeOK, PortInv, [Next]_vars
  PROVE  TypeOK'
<1>0. Flags /\ Data
  BY TypeParts
<1>1. CASE NewConfig
  BY <1>1, PortForwardAssumption DEF NewConfig, R!NewConfig, TypeOK,
     PortInv, pollVars, leaseVars, renewVars, worldVars, gateVars, histVars
<1>2. CASE HandOver
  BY <1>2, PortForwardAssumption DEF HandOver, R!HandOver, TypeOK, PortInv,
     pollVars, leaseVars, renewVars, worldVars, gateVars, histVars
<1>3. CASE RestartGluetun
  <2>1. Flags'
    BY Zenon, <1>3, <1>0 DEF RestartGluetun, R!Restart, Flags, pollVars, leaseVars,
       renewVars, worldVars, gateVars, histVars
  <2>2. Data'
    BY <1>3, <1>0, PortForwardAssumption DEF RestartGluetun, R!Restart, Data,
       PortInv, pollVars, leaseVars, renewVars, worldVars, gateVars, histVars
  <2> QED BY <2>1, <2>2, TypePartsNext
<1>4. CASE TunnelDown
  <2>1. Flags'
    BY Zenon, <1>4, <1>0 DEF TunnelDown, Fault, Flags, pollVars, leaseVars,
       renewVars, worldVars, gateVars, histVars
  <2>2. Data'
    BY <1>4, <1>0, PortForwardAssumption DEF TunnelDown, Fault, Data,
       PortInv, pollVars, leaseVars, renewVars, worldVars, gateVars, histVars
  <2> QED BY <2>1, <2>2, TypePartsNext
<1>5. CASE TunnelUp
  BY <1>5, PortForwardAssumption DEF TunnelUp, TypeOK, PortInv, pollVars,
     leaseVars, renewVars, worldVars, gateVars, histVars
<1>6. CASE RestartPF
  <2>1. Flags'
    BY Zenon, <1>6, <1>0 DEF RestartPF, Fault, Flags, pollVars, leaseVars,
       renewVars, worldVars, gateVars, histVars
  <2>2. Data'
    BY <1>6, <1>0, PortForwardAssumption DEF RestartPF, Fault, Data,
       PortInv, pollVars, leaseVars, renewVars, worldVars, gateVars, histVars
  <2> QED BY <2>1, <2>2, TypePartsNext
<1>7. CASE Lapse
  BY <1>7, PortForwardAssumption DEF Lapse, TypeOK, PortInv, pollVars,
     leaseVars, renewVars, worldVars, gateVars, histVars
<1>8. CASE Poll
  BY <1>8, PortForwardAssumption DEF Poll, IsNew, TypeOK, PortInv, pollVars,
     leaseVars, renewVars, worldVars, gateVars, histVars
<1>9. CASE ClientOK
  BY <1>9, PortForwardAssumption DEF ClientOK, TypeOK, PortInv, pollVars,
     leaseVars, renewVars, worldVars, gateVars, histVars
<1>10. CASE ClientFails
  BY <1>10, PortForwardAssumption DEF ClientFails, Fault, TypeOK, PortInv,
     pollVars, leaseVars, renewVars, worldVars, gateVars, histVars
<1>11. CASE GetSignature
  BY <1>11, PortForwardAssumption DEF GetSignature, TypeOK, PortInv,
     pollVars, leaseVars, renewVars, worldVars, gateVars, histVars
<1>12. CASE BindPort
  BY <1>12, PortForwardAssumption DEF BindPort, TypeOK, PortInv, pollVars,
     leaseVars, renewVars, worldVars, gateVars, histVars
<1>13. CASE AcquireFails
  <2>1. Flags'
    BY Zenon, <1>13, <1>0 DEF AcquireFails, Fault, Flags, pollVars, leaseVars,
       renewVars, worldVars, gateVars, histVars
  <2>2. Data'
    BY <1>13, <1>0, PortForwardAssumption DEF AcquireFails, Fault, Data,
       PortInv, pollVars, leaseVars, renewVars, worldVars, gateVars, histVars
  <2> QED BY <2>1, <2>2, TypePartsNext
<1>14. CASE Publish
  <2>1. Flags'
    BY Zenon, <1>14, <1>0 DEF Publish, Fault, Flags, pollVars, leaseVars,
       renewVars, worldVars, gateVars, histVars
  <2>2. Data'
    BY <1>14, <1>0, PortForwardAssumption DEF Publish, Fault, Data,
       PortInv, pollVars, leaseVars, renewVars, worldVars, gateVars, histVars
  <2> QED BY <2>1, <2>2, TypePartsNext
<1>15. CASE SetLease
  BY <1>15, PortForwardAssumption DEF SetLease, TypeOK, PortInv, pollVars,
     leaseVars, renewVars, worldVars, gateVars, histVars
<1>16. CASE RenewTick
  BY <1>16, PortForwardAssumption DEF RenewTick, TypeOK, PortInv, pollVars,
     leaseVars, renewVars, worldVars, gateVars, histVars
<1>17. CASE Renewed
  BY <1>17, PortForwardAssumption DEF Renewed, TypeOK, PortInv, pollVars,
     leaseVars, renewVars, worldVars, gateVars, histVars
<1>18. CASE RenewFails
  BY <1>18, PortForwardAssumption DEF RenewFails, Fault, TypeOK, PortInv,
     pollVars, leaseVars, renewVars, worldVars, gateVars, histVars
<1>19. CASE UNCHANGED vars
  BY <1>19 DEF vars, TypeOK, pollVars, leaseVars, renewVars, worldVars,
     gateVars, histVars
<1> QED
  BY <1>1, <1>2, <1>3, <1>4, <1>5, <1>6, <1>7, <1>8, <1>9, <1>10, <1>11,
     <1>12, <1>13, <1>14, <1>15, <1>16, <1>17, <1>18, <1>19 DEF Next

(* Every step keeps PortInv. *)
LEMMA PortStep ==
  ASSUME TypeOK, PortInv, [Next]_vars
  PROVE  PortInv'
<1>1. CASE NewConfig
  BY <1>1 DEF NewConfig, R!NewConfig, PortInv, pollVars, leaseVars,
     renewVars, worldVars, gateVars, histVars
<1>2. CASE HandOver
  BY <1>2 DEF HandOver, R!HandOver, PortInv, pollVars, leaseVars, renewVars,
     worldVars, gateVars, histVars
<1>3. CASE RestartGluetun
  BY <1>3 DEF RestartGluetun, R!Restart, PortInv, pollVars, leaseVars,
     renewVars, worldVars, gateVars, histVars
<1>4. CASE TunnelDown
  BY <1>4 DEF TunnelDown, Fault, PortInv, pollVars, leaseVars, renewVars,
     worldVars, gateVars, histVars
<1>5. CASE TunnelUp
  BY <1>5 DEF TunnelUp, PortInv, pollVars, leaseVars, renewVars, worldVars,
     gateVars, histVars
<1>6. CASE RestartPF
  BY <1>6 DEF RestartPF, Fault, PortInv, pollVars, leaseVars, renewVars,
     worldVars, gateVars, histVars
<1>7. CASE Lapse
  BY <1>7 DEF Lapse, PortInv, pollVars, leaseVars, renewVars, worldVars,
     gateVars, histVars
<1>8. CASE Poll
  BY <1>8 DEF Poll, IsNew, PortInv, pollVars, leaseVars, renewVars,
     worldVars, gateVars, histVars
<1>9. CASE ClientOK
  BY <1>9 DEF ClientOK, PortInv, pollVars, leaseVars, renewVars, worldVars,
     gateVars, histVars
<1>10. CASE ClientFails
  BY <1>10 DEF ClientFails, Fault, PortInv, pollVars, leaseVars, renewVars,
     worldVars, gateVars, histVars
<1>11. CASE GetSignature
  BY <1>11 DEF GetSignature, PortInv, pollVars, leaseVars, renewVars,
     worldVars, gateVars, histVars
<1>12. CASE BindPort
  BY <1>12 DEF BindPort, PortInv, pollVars, leaseVars, renewVars, worldVars,
     gateVars, histVars
<1>13. CASE AcquireFails
  BY <1>13 DEF AcquireFails, Fault, PortInv, pollVars, leaseVars, renewVars,
     worldVars, gateVars, histVars
<1>14. CASE Publish
  BY <1>14 DEF Publish, Fault, PortInv, pollVars, leaseVars, renewVars,
     worldVars, gateVars, histVars
<1>15. CASE SetLease
  BY <1>15 DEF SetLease, PortInv, pollVars, leaseVars, renewVars, worldVars,
     gateVars, histVars
<1>16. CASE RenewTick
  BY <1>16 DEF RenewTick, PortInv, pollVars, leaseVars, renewVars,
     worldVars, gateVars, histVars
<1>17. CASE Renewed
  BY <1>17 DEF Renewed, PortInv, pollVars, leaseVars, renewVars, worldVars,
     gateVars, histVars
<1>18. CASE RenewFails
  BY <1>18 DEF RenewFails, Fault, PortInv, pollVars, leaseVars, renewVars,
     worldVars, gateVars, histVars
<1>19. CASE UNCHANGED vars
  BY <1>19 DEF vars, PortInv, pollVars, leaseVars, renewVars, worldVars,
     gateVars, histVars
<1> QED
  BY <1>1, <1>2, <1>3, <1>4, <1>5, <1>6, <1>7, <1>8, <1>9, <1>10, <1>11,
     <1>12, <1>13, <1>14, <1>15, <1>16, <1>17, <1>18, <1>19 DEF Next

(* Every step keeps LeaseInv.  Nothing lapses while a renewal is under     *)
(* way, a renewal ends fresh or missed, and a lease that replaces the one  *)
(* being renewed was bound since the last tick.                            *)
LEMMA LeaseStep ==
  ASSUME TypeOK, PortInv, LeaseInv, [Next]_vars
  PROVE  LeaseInv'
<1>1. CASE NewConfig
  BY <1>1 DEF NewConfig, R!NewConfig, LeaseInv, TypeOK, pollVars, leaseVars,
     renewVars, worldVars, gateVars, histVars
<1>2. CASE HandOver
  BY <1>2 DEF HandOver, R!HandOver, LeaseInv, TypeOK, pollVars, leaseVars,
     renewVars, worldVars, gateVars, histVars
<1>3. CASE RestartGluetun
  BY <1>3 DEF RestartGluetun, R!Restart, LeaseInv, TypeOK, pollVars,
     leaseVars, renewVars, worldVars, gateVars, histVars
<1>4. CASE TunnelDown
  BY <1>4 DEF TunnelDown, Fault, LeaseInv, TypeOK, pollVars, leaseVars,
     renewVars, worldVars, gateVars, histVars
<1>5. CASE TunnelUp
  BY <1>5 DEF TunnelUp, LeaseInv, TypeOK, pollVars, leaseVars, renewVars,
     worldVars, gateVars, histVars
<1>6. CASE RestartPF
  BY <1>6 DEF RestartPF, Fault, LeaseInv, TypeOK, pollVars, leaseVars,
     renewVars, worldVars, gateVars, histVars
<1>7. CASE Lapse
  BY <1>7 DEF Lapse, LeaseInv, TypeOK, pollVars, leaseVars, renewVars,
     worldVars, gateVars, histVars
<1>8. CASE Poll
  BY <1>8 DEF Poll, IsNew, LeaseInv, TypeOK, pollVars, leaseVars, renewVars,
     worldVars, gateVars, histVars
<1>9. CASE ClientOK
  BY <1>9 DEF ClientOK, LeaseInv, TypeOK, pollVars, leaseVars, renewVars,
     worldVars, gateVars, histVars
<1>10. CASE ClientFails
  BY <1>10 DEF ClientFails, Fault, LeaseInv, TypeOK, pollVars, leaseVars,
     renewVars, worldVars, gateVars, histVars
<1>11. CASE GetSignature
  BY <1>11 DEF GetSignature, LeaseInv, TypeOK, pollVars, leaseVars,
     renewVars, worldVars, gateVars, histVars
<1>12. CASE BindPort
  BY <1>12 DEF BindPort, Reachable, Online, LeaseInv, TypeOK, pollVars,
     leaseVars, renewVars, worldVars, gateVars, histVars
<1>13. CASE AcquireFails
  BY <1>13 DEF AcquireFails, Fault, LeaseInv, TypeOK, pollVars, leaseVars,
     renewVars, worldVars, gateVars, histVars
<1>14. CASE Publish
  BY <1>14 DEF Publish, Fault, LeaseInv, TypeOK, pollVars, leaseVars,
     renewVars, worldVars, gateVars, histVars
<1>15. CASE SetLease
  BY <1>15 DEF SetLease, LeaseInv, TypeOK, pollVars, leaseVars, renewVars,
     worldVars, gateVars, histVars
<1>16. CASE RenewTick
  BY <1>16 DEF RenewTick, LeaseInv, TypeOK, pollVars, leaseVars, renewVars,
     worldVars, gateVars, histVars
<1>17. CASE Renewed
  BY <1>17 DEF Renewed, LeaseInv, TypeOK, pollVars, leaseVars, renewVars,
     worldVars, gateVars, histVars
<1>18. CASE RenewFails
  BY <1>18 DEF RenewFails, Fault, LeaseInv, TypeOK, pollVars, leaseVars,
     renewVars, worldVars, gateVars, histVars
<1>19. CASE UNCHANGED vars
  BY <1>19 DEF vars, LeaseInv, pollVars, leaseVars, renewVars, worldVars,
     gateVars, histVars
<1> QED
  BY <1>1, <1>2, <1>3, <1>4, <1>5, <1>6, <1>7, <1>8, <1>9, <1>10, <1>11,
     <1>12, <1>13, <1>14, <1>15, <1>16, <1>17, <1>18, <1>19 DEF Next

(* Every step keeps TargetInv: active moves only when a lease is set for   *)
(* the target, or back to nothing with the process.                        *)
LEMMA TargetStep ==
  ASSUME TypeOK, TargetInv, [Next]_vars
  PROVE  TargetInv'
<1>1. CASE NewConfig
  BY <1>1 DEF NewConfig, R!NewConfig, TargetInv, TypeOK, pollVars,
     leaseVars, renewVars, worldVars, gateVars, histVars
<1>2. CASE HandOver
  BY <1>2 DEF HandOver, R!HandOver, TargetInv, TypeOK, pollVars, leaseVars,
     renewVars, worldVars, gateVars, histVars
<1>3. CASE RestartGluetun
  BY <1>3 DEF RestartGluetun, R!Restart, TargetInv, TypeOK, pollVars,
     leaseVars, renewVars, worldVars, gateVars, histVars
<1>4. CASE TunnelDown
  BY <1>4 DEF TunnelDown, Fault, TargetInv, TypeOK, pollVars, leaseVars,
     renewVars, worldVars, gateVars, histVars
<1>5. CASE TunnelUp
  BY <1>5 DEF TunnelUp, TargetInv, TypeOK, pollVars, leaseVars, renewVars,
     worldVars, gateVars, histVars
<1>6. CASE RestartPF
  BY <1>6 DEF RestartPF, Fault, TargetInv, TypeOK, pollVars, leaseVars,
     renewVars, worldVars, gateVars, histVars
<1>7. CASE Lapse
  BY <1>7 DEF Lapse, TargetInv, TypeOK, pollVars, leaseVars, renewVars,
     worldVars, gateVars, histVars
<1>8. CASE Poll
  BY <1>8 DEF Poll, IsNew, TargetInv, TypeOK, pollVars, leaseVars,
     renewVars, worldVars, gateVars, histVars
<1>9. CASE ClientOK
  BY <1>9 DEF ClientOK, TargetInv, TypeOK, pollVars, leaseVars, renewVars,
     worldVars, gateVars, histVars
<1>10. CASE ClientFails
  BY <1>10 DEF ClientFails, Fault, TargetInv, TypeOK, pollVars, leaseVars,
     renewVars, worldVars, gateVars, histVars
<1>11. CASE GetSignature
  BY <1>11 DEF GetSignature, TargetInv, TypeOK, pollVars, leaseVars,
     renewVars, worldVars, gateVars, histVars
<1>12. CASE BindPort
  BY <1>12 DEF BindPort, TargetInv, TypeOK, pollVars, leaseVars, renewVars,
     worldVars, gateVars, histVars
<1>13. CASE AcquireFails
  BY <1>13 DEF AcquireFails, Fault, TargetInv, TypeOK, pollVars, leaseVars,
     renewVars, worldVars, gateVars, histVars
<1>14. CASE Publish
  BY <1>14 DEF Publish, Fault, TargetInv, TypeOK, pollVars, leaseVars,
     renewVars, worldVars, gateVars, histVars
<1>15. CASE SetLease
  BY <1>15 DEF SetLease, TargetInv, TypeOK, pollVars, leaseVars, renewVars,
     worldVars, gateVars, histVars
<1>16. CASE RenewTick
  BY <1>16 DEF RenewTick, TargetInv, TypeOK, pollVars, leaseVars, renewVars,
     worldVars, gateVars, histVars
<1>17. CASE Renewed
  BY <1>17 DEF Renewed, TargetInv, TypeOK, pollVars, leaseVars, renewVars,
     worldVars, gateVars, histVars
<1>18. CASE RenewFails
  BY <1>18 DEF RenewFails, Fault, TargetInv, TypeOK, pollVars, leaseVars,
     renewVars, worldVars, gateVars, histVars
<1>19. CASE UNCHANGED vars
  BY <1>19 DEF vars, TargetInv, pollVars, leaseVars, renewVars, worldVars,
     gateVars, histVars
<1> QED
  BY <1>1, <1>2, <1>3, <1>4, <1>5, <1>6, <1>7, <1>8, <1>9, <1>10, <1>11,
     <1>12, <1>13, <1>14, <1>15, <1>16, <1>17, <1>18, <1>19 DEF Next

(* The four parts together are an inductive invariant. *)
THEOREM Invariant == Spec => []IInv
<1>1. IInv /\ [Next]_vars => IInv'
  BY TypeStep, PortStep, LeaseStep, TargetStep DEF IInv
<1> QED BY InitInv, <1>1, PTL DEF Spec

(* Every variable keeps its type; in particular the gateway only ever      *)
(* forwards ports that PIA assigned, and what cannot lapse is forwarded.   *)
THEOREM TypeCorrect == Spec => []TypeOK
<1>1. IInv => TypeOK
  BY DEF IInv
<1> QED BY <1>1, Invariant, PTL

(* However hand-overs, restarts of gluetun and of pf, and the two          *)
(* goroutines interleave: the port of the lease is the published one,      *)
(* unless its write failed, and is forwarded, unless its renewal failed.   *)
THEOREM PublishedAlwaysForwarded == Spec => []PublishedIsForwarded
<1>1. IInv => PublishedIsForwarded
  <2> SUFFICES ASSUME IInv, pollPc = "idle", enabled, attached
               PROVE  /\ forwardedPort = leasePort \/ unwritten
                      /\ leasePort \in forwarded \cup missed
    BY DEF PublishedIsForwarded
  <2>1. forwardedPort = leasePort \/ unwritten
    BY DEF IInv, LeaseInv
  <2>2. leasePort \in forwarded \cup missed
    BY DEF IInv, LeaseInv, TypeOK
  <2> QED BY <2>1, <2>2
<1> QED BY <1>1, Invariant, PTL

(* pf never asks for a signature for a registration it holds a lease for,  *)
(* or for an older one.                                                    *)
THEOREM LeaseNeverReacquired == Spec => LeaseNotReacquired
<1>1. IInv /\ [Next]_vars =>
        [pollPc = "acquire" /\ pollPc' = "bind" /\ enabled
           => target > leaseReg]_vars
  BY DEF IInv, TypeOK, TargetInv
<1> QED BY <1>1, Invariant, PTL DEF Spec, LeaseNotReacquired
=============================================================================
