------------------------------- MODULE Client -------------------------------
(***************************************************************************)
(* One caller of src/pia: every attempt builds a PIAClient from PIA's      *)
(* server list (pia.go), gets a token from the cache file, from curl or    *)
(* from the region's metadata server (token_cacher.go, token_fetcher.go,   *)
(* helpers.go), registers a key and renders the config (wg.go).  A panic   *)
(* ends the process and Docker starts it again; the cache file stays.      *)
(*                                                                         *)
(* There is no clock: what matters is how long the cached token is still   *)
(* used and how long PIA still accepts it, and both count down.  Names of  *)
(* regions and servers stand for their lower-case form.                    *)
(*                                                                         *)
(* Faults is the set of things that may go wrong in a run:                 *)
(*   "list"    the server list cannot be fetched or decoded                *)
(*   "fetch"   curl fails, PIA denies the token, or the metadata server    *)
(*             (the CA certificate included) cannot be reached             *)
(*   "limit"   PIA answers curl with too_many_attempts                     *)
(*   "addKey"  the registration is refused or not sent                     *)
(*   "answer"  the key is registered, the answer is lost or unusable       *)
(*   "cache"   the cache file cannot be written                            *)
(*   "lose"    the cache file is gone, or corrupt                          *)
(*   "revoke"  PIA stops accepting the tokens it issued                    *)
(*   "relist"  PIA changes its server list                                 *)
(*   "crash"   the process dies                                            *)
(***************************************************************************)
EXTENDS Integers, Sequences

CONSTANTS
  Names,      \* of regions and servers
  Configs,    \* what operators configure
  Lists,      \* the server lists PIA may serve: sequences of regions
  TTL,        \* how long GetToken caches a token, 23 hours in the code
  Skew,       \* readCachedToken's tolerance, 30 seconds in the code
  PIALife,    \* how long PIA accepts a token, 24 hours
  MaxCall,    \* longest request
  Faults,     \* see above
  MaxFaults   \* bound on the number of faults, for model checking

AllFaults == {"list", "fetch", "limit", "addKey", "answer", "cache", "lose",
              "revoke", "relist", "crash"}

ASSUME TimesAssumption ==
  /\ TTL \in Nat /\ Skew \in Nat \ {0} /\ PIALife \in Nat /\ MaxCall \in Nat
  /\ Skew <= TTL
  /\ TTL + 2 * MaxCall < PIALife + Skew
  /\ MaxFaults \in Nat

ASSUME DataAssumption ==
  /\ Faults \subseteq AllFaults
  /\ Lists \subseteq Seq([id : Names, name : Names, meta : SUBSET Names,
                          wg : SUBSET Names, portForward : BOOLEAN])
  /\ Configs \subseteq [region : Names, portForwarding : BOOLEAN,
                        serverName : BOOLEAN, systemCurl : BOOLEAN,
                        curlPath : {"unset", "found", "missing"}]

VARIABLES
  conf,       \* the configuration, fixed
  pc,         \* "idle", "list", "token", "fetch", "add", "config" or "panic"
  spent,      \* how long the request under way has taken
  list,       \* rawServerList
  region,     \* the resolved region
  source,     \* the source a token is requested from, 0 for none
  token,      \* the token in hand
  result,     \* how the last attempt ended
  cache,      \* .pia_token.json: a token and its time to expiry
  served,     \* the list PIA serves
  faults,     \* faults so far
  \* history
  spare       \* how long the last token that was cached spares a request

attemptVars == <<pc, spent, list, region, source, token>>
vars == <<conf, attemptVars, result, cache, served, faults, spare>>

(* No token; alive is how long PIA will accept one, good that it has not   *)
(* been revoked.                                                           *)
NoToken == [alive |-> 0, good |-> FALSE]
NoCache == [left |-> 0, alive |-> 0, good |-> FALSE]
NoRegion == "none"

Init ==
  /\ conf \in Configs
  /\ pc = "idle" /\ spent = 0 /\ list = << >> /\ region = NoRegion
  /\ source = 0 /\ token = NoToken
  /\ result = "none"
  /\ cache = NoCache
  /\ served \in Lists
  /\ faults = 0
  /\ spare = 0

-----------------------------------------------------------------------------
(* Time passes between attempts and while a request is under way. *)
Less(n) == IF n = 0 THEN 0 ELSE n - 1

Tick ==
  /\ pc \in {"idle", "list", "fetch", "add"}
  /\ pc # "idle" => spent < MaxCall
  /\ spent' = IF pc = "idle" THEN 0 ELSE spent + 1
  /\ token' = [token EXCEPT !.alive = Less(@)]
  /\ cache' = [cache EXCEPT !.left = Less(@), !.alive = Less(@)]
  /\ spare' = Less(spare)
  /\ UNCHANGED <<conf, pc, list, region, source, result, served, faults>>

Fault(f) ==
  /\ f \in Faults
  /\ faults < MaxFaults
  /\ faults' = faults + 1

Relist ==
  /\ Fault("relist")
  /\ served' \in Lists \ {served}
  /\ UNCHANGED <<conf, attemptVars, result, cache, spare>>

Revoke ==
  /\ Fault("revoke")
  /\ token' = [token EXCEPT !.good = FALSE]
  /\ cache' = [cache EXCEPT !.good = FALSE]
  /\ UNCHANGED <<conf, pc, spent, list, region, source, result, served, spare>>

Lose ==
  /\ Fault("lose")
  /\ cache' = NoCache
  /\ spare' = 0
  /\ UNCHANGED <<conf, attemptVars, result, served>>

-----------------------------------------------------------------------------
(* The attempt is over: the client and what it knew are dropped. *)
End(how) ==
  /\ pc' = "idle" /\ spent' = 0 /\ list' = << >> /\ region' = NoRegion
  /\ source' = 0 /\ token' = NoToken
  /\ result' = how

(* An index out of range: the process dies. *)
Panic ==
  /\ pc' = "panic" /\ spent' = 0 /\ source' = 0 /\ token' = NoToken
  /\ UNCHANGED <<list, region, result>>

Crash ==
  /\ Fault("crash")
  /\ pc \notin {"idle", "panic"}
  /\ End("crash")
  /\ UNCHANGED <<conf, cache, served, spare>>

(* Docker starts the process again. *)
Restart ==
  /\ pc = "panic"
  /\ End("crash")
  /\ UNCHANGED <<conf, cache, served, faults, spare>>

-----------------------------------------------------------------------------
(* The regions of a list a client may use. *)
Offered(c, l) ==
  {i \in DOMAIN l : c.portForwarding => l[i].portForward}

(* generateWireguardServerList and generateMetadataServerList, looked up   *)
(* for one region.                                                         *)
WireguardServers(c, l, id) ==
  UNION {l[i].wg : i \in {j \in Offered(c, l) : l[j].id = id}}

MetadataServers(c, l, id) ==
  UNION {l[i].meta : i \in {j \in Offered(c, l) : l[j].id = id}}

First(S) == CHOOSE i \in S : \A j \in S : i <= j

(* The entries the operator's region names, by id or name and by server. *)
ByName(S, c, l) == {i \in S : c.region \in {l[i].id, l[i].name}}
ByServer(S, c, l) == {i \in S : c.region \in l[i].meta \cup l[i].wg}

(* Mutant: regions without port forwarding are found too. *)
ResolveRegionID_AnyRegion(c, l) ==
  LET S == DOMAIN l
      named == IF ByName(S, c, l) # {} THEN ByName(S, c, l) ELSE ByServer(S, c, l)
  IN IF named = {} THEN NoRegion ELSE l[First(named)].id

(* resolveRegionID: ids and names first, then servers, in list order. *)
ResolveRegionID(c, l) ==
  LET S == Offered(c, l)
      named == IF ByName(S, c, l) # {} THEN ByName(S, c, l) ELSE ByServer(S, c, l)
  IN IF named = {} THEN NoRegion ELSE l[First(named)].id

(* NewPIAClient succeeds: the region is known and there are servers, of    *)
(* this or another region.                                                 *)
Constructible(c, l) ==
  /\ ResolveRegionID(c, l) # NoRegion
  /\ \E i \in Offered(c, l) : l[i].meta # {}
  /\ \E i \in Offered(c, l) : l[i].wg # {}

(* The caller starts an attempt. *)
Begin ==
  /\ pc = "idle"
  /\ pc' = "list"
  /\ UNCHANGED <<conf, spent, list, region, source, token, result, cache,
                 served, faults, spare>>

NewClient ==
  /\ pc = "list"
  /\ Constructible(conf, served)
  /\ list' = served
  /\ region' = ResolveRegionID(conf, served)
  /\ pc' = "token" /\ spent' = 0
  /\ UNCHANGED <<conf, source, token, result, cache, served, faults, spare>>

NewClientFails ==
  /\ pc = "list"
  /\ \/ Fault("list")
     \/ ~Constructible(conf, served) /\ UNCHANGED faults
  /\ End("error")
  /\ UNCHANGED <<conf, cache, served, spare>>

-----------------------------------------------------------------------------
(* Mutant: the expiry of the cached token is not looked at. *)
CacheHit_NoExpiry == cache # NoCache

(* readCachedToken: not later than Skew before the expiry. *)
CacheHit == cache # NoCache /\ cache.left >= Skew

(* Mutant: a token that is used is cached for another TTL. *)
UseCachedToken_Slides ==
  /\ pc = "token"
  /\ CacheHit
  /\ token' = [alive |-> cache.alive, good |-> cache.good]
  /\ cache' = [cache EXCEPT !.left = TTL]
  /\ pc' = "add"
  /\ UNCHANGED <<conf, spent, list, region, source, result, served, faults,
                 spare>>

(* GetToken finds the token in the cache. *)
UseCachedToken ==
  /\ pc = "token"
  /\ CacheHit
  /\ token' = [alive |-> cache.alive, good |-> cache.good]
  /\ pc' = "add"
  /\ UNCHANGED <<conf, spent, list, region, source, result, cache, served,
                 faults, spare>>

(* The sources GetToken tries, in this order. *)
SystemCurl     == 1
OpenSSLCurl    == 2
MetadataServer == 3

(* findSystemCurl and findOpenSSLCurl.  A CURL_PATH that cannot be found   *)
(* fails fetchTokenViaCurl before system curl is tried.                    *)
Available(c, n) ==
  \/ n = SystemCurl /\ c.systemCurl /\ c.curlPath # "missing"
  \/ n = OpenSSLCurl /\ c.curlPath = "found"
  \/ n = MetadataServer

NextSource(c, n) == First({m \in 1..3 : m > n /\ Available(c, m)})

FetchToken ==
  /\ pc = "token"
  /\ ~CacheHit
  /\ source' = NextSource(conf, 0)
  /\ pc' = "fetch"
  /\ UNCHANGED <<conf, spent, list, region, token, result, cache, served,
                 faults, spare>>

(* The request can be made: curl has its URL, the other way needs a server. *)
Requestable ==
  /\ pc = "fetch"
  /\ source = MetadataServer => MetadataServers(conf, list, region) # {}

(* Mutant: a token is cached for as long as PIA accepts it. *)
WriteCachedToken_PIALife(t) ==
  /\ cache' = [left |-> PIALife, alive |-> t.alive, good |-> TRUE]
  /\ spare' = TTL - Skew + 1
  /\ UNCHANGED faults

(* Mutant: a token is cached only when curl fetched it. *)
WriteCachedToken_CurlOnly(t) ==
  /\ cache' = IF source = MetadataServer THEN cache
                ELSE [left |-> TTL, alive |-> t.alive, good |-> TRUE]
  /\ spare' = TTL - Skew + 1
  /\ UNCHANGED faults

(* writeCachedToken; that it fails is ignored. *)
WriteCachedToken(t) ==
  \/ /\ cache' = [left |-> TTL, alive |-> t.alive, good |-> TRUE]
     /\ spare' = TTL - Skew + 1
     /\ UNCHANGED faults
  \/ Fault("cache") /\ UNCHANGED <<cache, spare>>

(* The source in use returns a token, issued at some time in the request. *)
Fetched ==
  /\ Requestable
  /\ \E late \in 0..spent :
       /\ token' = [alive |-> PIALife - late, good |-> TRUE]
       /\ WriteCachedToken(token')
  /\ source' = 0
  /\ pc' = "add" /\ spent' = 0
  /\ UNCHANGED <<conf, list, region, result, served>>

(* The source in use fails: the next one is tried. *)
FetchFails ==
  /\ Requestable
  /\ Fault("fetch")
  /\ IF source = MetadataServer
       THEN End("error")
       ELSE /\ source' = NextSource(conf, source)
            /\ spent' = 0
            /\ UNCHANGED <<pc, list, region, token, result>>
  /\ UNCHANGED <<conf, cache, served, spare>>

(* ErrTooManyAttempts: the attempt ends. *)
RateLimited ==
  /\ Requestable /\ source # MetadataServer
  /\ Fault("limit")
  /\ End("error")
  /\ UNCHANGED <<conf, cache, served, spare>>

(* getMetadataServerForRegion finds no server. *)
NoMetadataServer ==
  /\ pc = "fetch" /\ source = MetadataServer
  /\ MetadataServers(conf, list, region) = {}
  /\ Panic
  /\ UNCHANGED <<conf, cache, served, faults, spare>>

-----------------------------------------------------------------------------
(* PIA accepts the token. *)
Accepted == token.alive > 0 /\ token.good

Sendable == pc = "add" /\ WireguardServers(conf, list, region) # {}

AddKey ==
  /\ Sendable /\ Accepted
  /\ pc' = "config" /\ spent' = 0
  /\ UNCHANGED <<conf, list, region, source, token, result, cache, served,
                 faults, spare>>

(* The cached token stays where it is, also when it was refused. *)
AddKeyFails ==
  /\ Sendable
  /\ \/ Fault("addKey")
     \/ ~Accepted /\ UNCHANGED faults
  /\ End("error")
  /\ UNCHANGED <<conf, cache, served, spare>>

(* The key is registered but the caller gets an error: the answer is lost  *)
(* or its status is not OK.                                                *)
AddKeyUnusable ==
  /\ Sendable /\ Accepted
  /\ Fault("answer")
  /\ End("leak")
  /\ UNCHANGED <<conf, cache, served, spare>>

(* getWireguardServerForRegion finds no server. *)
NoWireguardServer ==
  /\ pc = "add"
  /\ WireguardServers(conf, list, region) = {}
  /\ Panic
  /\ UNCHANGED <<conf, cache, served, faults, spare>>

(* generateConfig names the metadata server in a comment when asked to. *)
GenerateConfig ==
  /\ pc = "config"
  /\ conf.serverName => MetadataServers(conf, list, region) # {}
  /\ End("config")
  /\ UNCHANGED <<conf, cache, served, faults, spare>>

(* The answer has no port, address or DNS server; generateConfig looks at  *)
(* it after the metadata server.                                           *)
GenerateConfigFails ==
  /\ pc = "config"
  /\ conf.serverName => MetadataServers(conf, list, region) # {}
  /\ Fault("answer")
  /\ End("leak")
  /\ UNCHANGED <<conf, cache, served, spare>>

NoServerName ==
  /\ pc = "config"
  /\ conf.serverName
  /\ MetadataServers(conf, list, region) = {}
  /\ Panic
  /\ UNCHANGED <<conf, cache, served, faults, spare>>

Step ==
  \/ Begin \/ NewClient \/ NewClientFails
  \/ UseCachedToken \/ FetchToken
  \/ Fetched \/ FetchFails \/ RateLimited \/ NoMetadataServer
  \/ AddKey \/ AddKeyFails \/ AddKeyUnusable \/ NoWireguardServer
  \/ GenerateConfig \/ GenerateConfigFails \/ NoServerName
  \/ Restart

Next == Step \/ Tick \/ Relist \/ Revoke \/ Lose \/ Crash

Spec == Init /\ [][Next]_vars

(* Every request ends and every caller tries again, and time passes: no    *)
(* caller makes infinitely many attempts in an instant, for each failure   *)
(* is followed by a sleep.                                                 *)
FairSpec == Spec /\ WF_vars(Step) /\ SF_vars(Tick)

-----------------------------------------------------------------------------
TypeOK ==
  /\ conf \in Configs
  /\ pc \in {"idle", "list", "token", "fetch", "add", "config", "panic"}
  /\ spent \in 0..MaxCall
  /\ list \in Lists \cup {<< >>}
  /\ region \in Names \cup {NoRegion}
  /\ source \in 0..3
  /\ token \in [alive : 0..PIALife, good : BOOLEAN]
  /\ result \in {"none", "config", "error", "leak", "crash"}
  /\ cache \in [left : 0..TTL, alive : 0..PIALife, good : BOOLEAN]
  /\ served \in Lists
  /\ faults \in 0..MaxFaults
  /\ spare \in Nat

(* token_cacher.go:59, "so we don't return a token that's about to die":   *)
(* PIA has not let the token expire when addKey sends it, however slow     *)
(* the request that fetched it and the one that uses it are.               *)
TokenAliveAtUse == pc = "add" => token.alive > 0

(* pia.go:140, the cache "avoids any network call for repeated calls       *)
(* within the same 23-hour window", whatever source the token came from    *)
(* and whatever failed since: a request is made only when the last token   *)
(* cached has run out or its file was lost.                                *)
FetchesSpaced == [][pc = "token" /\ pc' = "fetch" => spare = 0]_vars

(* pia.go:234 and 241 take the first server of the region without looking: *)
(* that goes wrong only for a region PIA itself lists, fit for the         *)
(* operator's wishes, without a WireGuard or without a metadata server.    *)
PanicNeedsEmptyRegion ==
  pc = "panic" =>
    \E i \in Offered(conf, list) :
      /\ list[i].id = region
      /\ conf.region \in {list[i].id, list[i].name} \cup list[i].meta \cup list[i].wg
      /\ list[i].meta = {} \/ list[i].wg = {}

(* The region can be served: the client can be built and nothing panics. *)
Usable ==
  LET id == ResolveRegionID(conf, served)
  IN /\ Constructible(conf, served)
     /\ WireguardServers(conf, served, id) # {}
     /\ MetadataServers(conf, served, id) # {}

(* A token PIA no longer accepts is not used for ever although nothing     *)
(* drops it when addKey is refused: whatever faults came before, once the  *)
(* list stays usable configs are generated again and again.  Of a          *)
(* CURL_PATH that cannot be found, which helpers.go:17-19 calls fatal and  *)
(* GetToken does not treat so, nothing is claimed.                         *)
RegistersAgain ==
  conf.curlPath # "missing" /\ <>[]Usable => []<>(pc = "idle" /\ result = "config")
=============================================================================
