----------------------------- MODULE Adoption -----------------------------
(***************************************************************************)
(* The refresh daemon with one thing more remembered: the region wg0.conf  *)
(* was generated for, which no file of the daemon records.  tryAdopt reads *)
(* the region of status.json in its place.                                 *)
(***************************************************************************)
EXTENDS Refresh

VARIABLE configRegion   \* history: the region of wg0.conf, as a set

AdoptionInit == Init /\ configRegion = {}

AdoptionNext ==
  /\ Next
  /\ configRegion' = IF configReg' = configReg THEN configRegion ELSE {region}

AdoptionSpec == AdoptionInit /\ [][AdoptionNext]_<<vars, configRegion>>

(* refresh.go:392, tryAdopt keeps a registration when "a config is on      *)
(* disk, it was generated for this region, the tunnel is healthy right     *)
(* now": what is adopted is a config of the region the daemon was started  *)
(* with.                                                                   *)
AdoptsItsRegion ==
  [][pc = "down" /\ pc' = "select" => configRegion = {region'}]_<<vars, configRegion>>
=============================================================================
