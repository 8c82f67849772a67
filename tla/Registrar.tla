----------------------------- MODULE Registrar -----------------------------
(***************************************************************************)
(* What the refresh daemon promises those who live off its registrations,  *)
(* gluetun and the pf daemon: wg0.conf only ever moves on to a later       *)
(* registration, and what is handed over to pf, and what gluetun is        *)
(* started from, is always the registration of wg0.conf.  Refresh          *)
(* implements it, faults and crashes included; PortForward's environment   *)
(* is made of its actions.                                                 *)
(***************************************************************************)
EXTENDS Naturals

VARIABLES
  config,    \* the registration of wg0.conf, 0 for none
  pending,   \* the registration last handed over to pf
  running    \* the registration gluetun runs

Init == config = 0 /\ pending = 0 /\ running = 0

NewConfig ==
  /\ config' \in Nat /\ config' > config
  /\ UNCHANGED <<pending, running>>

HandOver ==
  /\ pending' = config
  /\ UNCHANGED <<config, running>>

Restart ==
  /\ running' = config
  /\ UNCHANGED <<config, pending>>

Next == NewConfig \/ HandOver \/ Restart

Spec == Init /\ [][Next]_<<config, pending, running>>
=============================================================================
