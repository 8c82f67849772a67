--------------------------- MODULE ControlServer ---------------------------
(***************************************************************************)
(* The health check of src/pia/health.go: what it makes of the answers of  *)
(* gluetun's control server.  An answer is "error" when the request fails, *)
(* its HTTP status is not 200, it does not decode, or a VPN status is      *)
(* empty.                                                                  *)
(***************************************************************************)

StatusAnswers == {"running", "stopped", "error"}
IPAnswers     == {"present", "empty", "error"}

(* The answers a control server may give, for a tunnel that carries        *)
(* traffic or not: an evicted tunnel mostly reads "running" and has no     *)
(* public IP.  Older servers know one of the two status paths only; a      *)
(* server that flaps may know neither, a blind one does not tell the IP.   *)
Answers(up, flap, blind) ==
  {a \in [vpn : StatusAnswers, openvpn : StatusAnswers, ip : IPAnswers] :
     /\ \A s \in {a.vpn, a.openvpn} : up => s # "stopped"
     /\ a.vpn = "error" /\ a.openvpn = "error" => flap
     /\ a.ip = "error" => blind
     /\ a.ip = "present" => up
     /\ a.ip = "empty" => ~up}

(* CheckTunnelViaControlServer: Healthy.  The first status path that       *)
(* answers decides; an unreadable IP leaves the status alone to decide.    *)
CheckTunnel(a) ==
  LET status == IF a.vpn # "error" THEN a.vpn ELSE a.openvpn
  IN  status = "running" /\ a.ip # "empty"
=============================================================================
