------------------------------ MODULE MCClient ------------------------------
(* Client with a few configurations and server lists. *)
EXTENDS Client

MCNames ==
  {"swiss", "switzerland", "zurich401", "zurich402",
   "us_east", "us east", "newark401", "newark402"}

Entry(id, name, meta, wg, pf) ==
  [id |-> id, name |-> name, meta |-> meta, wg |-> wg, portForward |-> pf]

Conf(reg, pf, server, curl, path) ==
  [region |-> reg, portForwarding |-> pf, serverName |-> server,
   systemCurl |-> curl, curlPath |-> path]

Swiss == Entry("swiss", "switzerland", {"zurich401"}, {"zurich402"}, TRUE)
East  == Entry("us_east", "us east", {"newark401"}, {"newark402"}, FALSE)

(* PIA's list as usual; then with the forwarding regions short of          *)
(* WireGuard servers, or of metadata servers; then with a region listed in *)
(* two parts and the other one open to port forwarding.                    *)
MCLists ==
  {<<Swiss, East>>,
   <<[Swiss EXCEPT !.wg = {}], East, [East EXCEPT !.portForward = TRUE]>>,
   <<[East EXCEPT !.portForward = TRUE], [Swiss EXCEPT !.meta = {}]>>,
   <<[Swiss EXCEPT !.meta = {}, !.portForward = FALSE], Swiss,
     [East EXCEPT !.portForward = TRUE]>>}

(* By name in the Docker image, by id with two curls, by server with the   *)
(* configured curl only, a region that is not always open to forwarding,   *)
(* without curl, and a CURL_PATH that does not exist beside a system curl. *)
MCConfigs ==
  {Conf("switzerland", TRUE, TRUE, TRUE, "unset"),
   Conf("us_east", FALSE, FALSE, TRUE, "found"),
   Conf("zurich402", TRUE, FALSE, FALSE, "found"),
   Conf("us east", TRUE, FALSE, FALSE, "unset"),
   Conf("switzerland", TRUE, FALSE, TRUE, "missing")}
=============================================================================
