---------------------------- MODULE ClientProofs ----------------------------
(***************************************************************************)
(* Proofs about Client, for every configuration, server list, set of       *)
(* faults and choice of the times TimesAssumption allows.                  *)
(***************************************************************************)
EXTENDS Client, SequenceTheorems, WellFoundedInduction, TLAPS

(* The least element of a set of positions exists, so that First is one.   *)
LEMMA FirstIsMember ==
  ASSUME NEW S \in SUBSET Nat, S # {}
  PROVE  First(S) \in S
<1>1. PICK x \in S : \A y \in S : ~ (<<y, x>> \in OpToRel(<, Nat))
  BY NatLessThanWellFounded, WFMin, Zenon
<1>2. \A y \in S : ~ (y < x)
  BY <1>1 DEF OpToRel
<1>3. \A y \in S : x <= y
  BY <1>2
<1> QED BY <1>3 DEF First

(* There is always a source left after a source that is not the last. *)
LEMMA NextSourceType ==
  ASSUME NEW c, NEW n \in 0..2
  PROVE  NextSource(c, n) \in 1..3
<1> DEFINE S == {m \in 1..3 : m > n /\ Available(c, m)}
<1>1. S \in SUBSET Nat /\ S \subseteq 1..3
  OBVIOUS
<1>2. 3 \in S
  BY DEF Available, MetadataServer
<1>3. First(S) \in S
  BY <1>1, <1>2, FirstIsMember
<1> QED BY <1>1, <1>3 DEF NextSource

(* A region that was resolved is one PIA offers under a name the operator  *)
(* used.                                                                   *)
LEMMA ResolvedIsOffered ==
  ASSUME NEW c \in Configs, NEW l \in Lists,
         ResolveRegionID(c, l) # NoRegion
  PROVE  \E i \in Offered(c, l) :
           /\ l[i].id = ResolveRegionID(c, l)
           /\ c.region \in {l[i].id, l[i].name} \cup l[i].meta \cup l[i].wg
<1> DEFINE S == Offered(c, l)
           named == IF ByName(S, c, l) # {} THEN ByName(S, c, l)
                                            ELSE ByServer(S, c, l)
<1>1. ResolveRegionID(c, l) = l[First(named)].id /\ named # {}
  BY DEF ResolveRegionID
<1>2. named \subseteq S
  BY DEF ByName, ByServer
<1>3. S \in SUBSET Nat
  BY DataAssumption DEF Offered
<1>4. First(named) \in named
  BY <1>1, <1>2, <1>3, FirstIsMember
<1>5. c.region \in {l[First(named)].id, l[First(named)].name}
                     \cup l[First(named)].meta \cup l[First(named)].wg
  BY <1>4 DEF ByName, ByServer
<1> QED BY <1>1, <1>2, <1>4, <1>5

(* A region is resolved to the id of one, or to none. *)
LEMMA ResolvedType ==
  ASSUME NEW c \in Configs, NEW l \in Lists
  PROVE  ResolveRegionID(c, l) \in Names \cup {NoRegion}
<1>1. CASE ResolveRegionID(c, l) = NoRegion
  BY <1>1
<1>2. CASE ResolveRegionID(c, l) # NoRegion
  <2>1. PICK i \in Offered(c, l) : l[i].id = ResolveRegionID(c, l)
    BY <1>2, ResolvedIsOffered
  <2>2. i \in DOMAIN l
    BY DEF Offered
  <2>3. l \in Seq([id : Names, name : Names, meta : SUBSET Names,
                  wg : SUBSET Names, portForward : BOOLEAN])
    BY DataAssumption
  <2>4. i \in 1..Len(l)
    BY <2>2, <2>3
  <2>5. l[i] \in [id : Names, name : Names, meta : SUBSET Names,
                 wg : SUBSET Names, portForward : BOOLEAN]
    BY <2>3, <2>4, ElementOfSeq, Zenon
  <2> QED BY <2>1, <2>5
<1> QED BY <1>1, <1>2

-----------------------------------------------------------------------------
(* Where an attempt is says what is known: a request is under way, its     *)
(* source and the region, and a panic comes from a missing server.         *)
PlaceInv ==
  /\ pc \in {"idle", "token", "config", "panic"} => spent = 0
  /\ pc = "fetch" => source \in 1..3
  /\ pc \in {"token", "fetch", "add", "config", "panic"} =>
       /\ list \in Lists
       /\ region = ResolveRegionID(conf, list)
       /\ region # NoRegion
  /\ pc = "panic" => \/ WireguardServers(conf, list, region) = {}
                     \/ MetadataServers(conf, list, region) = {}

(* What the cache promises: a cached token outlives its entry by what the  *)
(* slowest request leaves over, and while spare counts the entry is used.  *)
(* What it is for: PIA accepts a token in hand until addKey has ended.     *)
TimeInv ==
  /\ cache.left > 0 => cache.alive >= cache.left + (PIALife - MaxCall - TTL)
  /\ spare > 0 => cache.left >= spare + Skew - 1
  /\ pc = "add" => token.alive > MaxCall - spent

IInv == TypeOK /\ PlaceInv /\ TimeInv

Tokens == [alive : 0..PIALife, good : BOOLEAN]
Caches == [left : 0..TTL, alive : 0..PIALife, good : BOOLEAN]

(* No token and no cache file are a token and a cache that have run out. *)
LEMMA NothingType == NoToken \in Tokens /\ NoCache \in Caches
<1>1. 0 \in 0..PIALife /\ 0 \in 0..TTL
  BY TimesAssumption
<1> QED BY <1>1 DEF NoToken, NoCache, Tokens, Caches

(* A count goes down and stays in its range. *)
LEMMA LessType ==
  ASSUME NEW m \in Nat, NEW n \in 0..m
  PROVE  Less(n) \in 0..m
  BY DEF Less

(* A client that has just been made: nothing is known and nothing cached. *)
LEMMA InitInv == Init => IInv
<1> SUFFICES ASSUME Init PROVE IInv
  OBVIOUS
<1>1. TypeOK
  <2>1. token \in Tokens /\ cache \in Caches
    BY NothingType DEF Init
  <2>2. spent \in 0..MaxCall /\ source \in 0..3 /\ faults \in 0..MaxFaults
        /\ spare \in Nat
    BY TimesAssumption DEF Init
  <2>3. list \in Lists \cup {<< >>} /\ region \in Names \cup {NoRegion}
    BY DEF Init
  <2> QED BY <2>1, <2>2, <2>3 DEF Init, TypeOK, Tokens, Caches
<1>2. PlaceInv
  BY DEF Init, PlaceInv
<1>3. TimeInv
  BY DEF Init, TimeInv, NoCache
<1> QED BY <1>1, <1>2, <1>3 DEF IInv

(* Every step keeps the types: a new region by ResolvedType, a new source  *)
(* by NextSourceType, the times because they only count down.              *)
LEMMA TypeStep ==
  ASSUME TypeOK, PlaceInv, [Next]_vars
  PROVE  TypeOK'
<1> USE TimesAssumption
<1>1. CASE Begin
  BY <1>1 DEF Begin, TypeOK
<1>2. CASE NewClient
  <2>1. region' \in Names \cup {NoRegion}
    BY <1>2, ResolvedType DEF NewClient, TypeOK
  <2> QED BY <1>2, <2>1 DEF NewClient, TypeOK
<1>3. CASE NewClientFails
  BY <1>3 DEF NewClientFails, End, Fault, TypeOK, NoToken
<1>4. CASE UseCachedToken
  BY <1>4 DEF UseCachedToken, TypeOK
<1>5. CASE FetchToken
  <2>1. source' \in 1..3
    BY <1>5, NextSourceType DEF FetchToken
  <2> QED BY <1>5, <2>1 DEF FetchToken, TypeOK
<1>6. CASE Fetched
  <2>1. PICK late \in 0..spent :
          /\ token' = [alive |-> PIALife - late, good |-> TRUE]
          /\ WriteCachedToken(token')
    BY <1>6 DEF Fetched
  <2>2. token'.alive \in 0..PIALife /\ token' \in Tokens
    BY <2>1 DEF TypeOK, Tokens
  <2>3. /\ cache' \in Caches
        /\ faults' \in 0..MaxFaults /\ spare' \in Nat
    <3>1. CASE /\ cache' = [left |-> TTL, alive |-> token'.alive, good |-> TRUE]
               /\ spare' = TTL - Skew + 1 /\ UNCHANGED faults
      BY <2>2, <3>1 DEF Caches, TypeOK
    <3>2. CASE Fault("cache") /\ UNCHANGED <<cache, spare>>
      BY <3>2 DEF Fault, Caches, TypeOK
    <3> QED BY <2>1, <3>1, <3>2 DEF WriteCachedToken
  <2> QED BY <1>6, <2>2, <2>3 DEF Fetched, TypeOK, Tokens, Caches
<1>7. CASE FetchFails
  <2>1. CASE source = MetadataServer
    BY <1>7, <2>1, NothingType DEF FetchFails, End, Fault, TypeOK, Tokens
  <2>2. CASE source # MetadataServer
    <3>1. source \in 0..2
      BY <2>2 DEF TypeOK, MetadataServer
    <3>2. source' \in 1..3
      BY <1>7, <2>2, <3>1, NextSourceType DEF FetchFails
    <3> QED BY <1>7, <2>2, <3>2 DEF FetchFails, Fault, TypeOK
  <2> QED BY <2>1, <2>2
<1>8. CASE RateLimited
  BY <1>8 DEF RateLimited, Requestable, End, Fault, TypeOK, NoToken
<1>9. CASE NoMetadataServer
  BY <1>9 DEF NoMetadataServer, Panic, TypeOK, NoToken
<1>10. CASE AddKey
  BY <1>10 DEF AddKey, Sendable, TypeOK
<1>11. CASE AddKeyFails
  BY <1>11 DEF AddKeyFails, Sendable, End, Fault, TypeOK, NoToken
<1>12. CASE AddKeyUnusable
  BY <1>12 DEF AddKeyUnusable, Sendable, End, Fault, TypeOK, NoToken
<1>13. CASE NoWireguardServer
  BY <1>13 DEF NoWireguardServer, Panic, TypeOK, NoToken
<1>14. CASE GenerateConfig \/ GenerateConfigFails
  <2>1. CASE GenerateConfig
    BY <2>1 DEF GenerateConfig, End, TypeOK, NoToken
  <2>2. CASE GenerateConfigFails
    BY <2>2 DEF GenerateConfigFails, End, Fault, TypeOK, NoToken
  <2> QED BY <1>14, <2>1, <2>2
<1>15. CASE NoServerName
  BY <1>15 DEF NoServerName, Panic, TypeOK, NoToken
<1>16. CASE Restart
  BY <1>16 DEF Restart, End, TypeOK, NoToken
<1>17. CASE Tick
  <2>1. token' \in Tokens
    <3>1. token' = [token EXCEPT !.alive = Less(token.alive)]
      BY <1>17 DEF Tick
    <3>2. token \in Tokens /\ Less(token.alive) \in 0..PIALife
      BY LessType DEF TypeOK, Tokens
    <3> QED BY <3>1, <3>2 DEF Tokens
  <2>2. cache' \in Caches
    <3>1. cache' = [cache EXCEPT !.left = Less(cache.left),
                                 !.alive = Less(cache.alive)]
      BY <1>17 DEF Tick
    <3>2. /\ cache \in Caches
          /\ Less(cache.left) \in 0..TTL /\ Less(cache.alive) \in 0..PIALife
      BY LessType DEF TypeOK, Caches
    <3> QED BY <3>1, <3>2 DEF Caches
  <2>3. spent' \in 0..MaxCall
    BY <1>17 DEF Tick, TypeOK
  <2>4. spare' \in Nat
    BY <1>17 DEF Tick, Less, TypeOK
  <2> QED BY <1>17, <2>1, <2>2, <2>3, <2>4 DEF Tick, TypeOK, Tokens, Caches
<1>18. CASE Relist
  BY <1>18 DEF Relist, Fault, attemptVars, TypeOK
<1>19. CASE Revoke
  <2>1. token' \in Tokens /\ cache' \in Caches
    BY <1>19 DEF Revoke, TypeOK, Tokens, Caches
  <2> QED BY <1>19, <2>1 DEF Revoke, Fault, TypeOK, Tokens, Caches
<1>20. CASE Lose
  BY <1>20 DEF Lose, Fault, attemptVars, TypeOK, NoCache
<1>21. CASE Crash
  BY <1>21 DEF Crash, End, Fault, TypeOK, NoToken
<1>22. CASE UNCHANGED vars
  BY <1>22 DEF vars, attemptVars, TypeOK
<1> QED
  BY <1>1, <1>2, <1>3, <1>4, <1>5, <1>6, <1>7, <1>8, <1>9, <1>10, <1>11,
     <1>12, <1>13, <1>14, <1>15, <1>16, <1>17, <1>18, <1>19, <1>20, <1>21,
     <1>22 DEF Next, Step

(* Every step keeps what PlaceInv says: a client is made for the region it *)
(* resolved, and nothing but Panic, at its three places, leads to "panic". *)
LEMMA PlaceStep ==
  ASSUME TypeOK, PlaceInv, [Next]_vars
  PROVE  PlaceInv'
<1>1. CASE Begin
  BY <1>1 DEF Begin, PlaceInv
<1>2. CASE NewClient
  BY <1>2 DEF NewClient, Constructible, PlaceInv, TypeOK
<1>3. CASE NewClientFails
  BY <1>3 DEF NewClientFails, End, Fault, PlaceInv
<1>4. CASE UseCachedToken
  BY <1>4 DEF UseCachedToken, PlaceInv
<1>5. CASE FetchToken
  <2>1. source' \in 1..3
    BY <1>5, NextSourceType DEF FetchToken
  <2> QED BY <1>5, <2>1 DEF FetchToken, PlaceInv
<1>6. CASE Fetched
  BY <1>6 DEF Fetched, Requestable, PlaceInv
<1>7. CASE FetchFails
  <2>1. CASE source = MetadataServer
    BY <1>7, <2>1 DEF FetchFails, Requestable, End, PlaceInv
  <2>2. CASE source # MetadataServer
    <3>1. source \in 0..2
      BY <2>2 DEF TypeOK, MetadataServer
    <3>2. source' \in 1..3
      BY <1>7, <2>2, <3>1, NextSourceType DEF FetchFails
    <3> QED BY <1>7, <2>2, <3>2 DEF FetchFails, Requestable, PlaceInv
  <2> QED BY <2>1, <2>2
<1>8. CASE RateLimited
  BY <1>8 DEF RateLimited, Requestable, End, PlaceInv
<1>9. CASE NoMetadataServer
  BY <1>9 DEF NoMetadataServer, Panic, PlaceInv
<1>10. CASE AddKey
  BY <1>10 DEF AddKey, Sendable, PlaceInv
<1>11. CASE AddKeyFails
  BY <1>11 DEF AddKeyFails, Sendable, End, PlaceInv
<1>12. CASE AddKeyUnusable
  BY <1>12 DEF AddKeyUnusable, Sendable, End, PlaceInv
<1>13. CASE NoWireguardServer
  BY <1>13 DEF NoWireguardServer, Panic, PlaceInv
<1>14. CASE GenerateConfig \/ GenerateConfigFails
  BY <1>14 DEF GenerateConfig, GenerateConfigFails, End, PlaceInv
<1>15. CASE NoServerName
  BY <1>15 DEF NoServerName, Panic, PlaceInv
<1>16. CASE Restart
  BY <1>16 DEF Restart, End, PlaceInv
<1>17. CASE Tick
  BY <1>17 DEF Tick, PlaceInv
<1>18. CASE Relist
  BY <1>18 DEF Relist, attemptVars, PlaceInv
<1>19. CASE Revoke
  BY <1>19 DEF Revoke, PlaceInv
<1>20. CASE Lose
  BY <1>20 DEF Lose, attemptVars, PlaceInv
<1>21. CASE Crash
  BY <1>21 DEF Crash, End, PlaceInv
<1>22. CASE UNCHANGED vars
  BY <1>22 DEF vars, attemptVars, PlaceInv
<1> QED
  BY <1>1, <1>2, <1>3, <1>4, <1>5, <1>6, <1>7, <1>8, <1>9, <1>10, <1>11,
     <1>12, <1>13, <1>14, <1>15, <1>16, <1>17, <1>18, <1>19, <1>20, <1>21,
     <1>22 DEF Next, Step

(* Every step keeps what TimeInv says.  A token is cached for TTL from the *)
(* end of its request, PIA counts from some time in it; UseCachedToken     *)
(* needs Skew and TimesAssumption to leave a whole request's time.         *)
LEMMA TimeStep ==
  ASSUME TypeOK, PlaceInv, TimeInv, [Next]_vars
  PROVE  TimeInv'
<1> USE TimesAssumption
<1>1. CASE Begin
  BY <1>1 DEF Begin, TimeInv
<1>2. CASE NewClient
  BY <1>2 DEF NewClient, TimeInv
<1>3. CASE NewClientFails
  BY <1>3 DEF NewClientFails, End, Fault, TimeInv
<1>4. CASE UseCachedToken
  <2>1. cache.left \in Nat /\ cache.alive \in Nat /\ spent = 0
    BY <1>4 DEF UseCachedToken, TypeOK, PlaceInv
  <2>2. cache.left >= Skew
    BY <1>4 DEF UseCachedToken, CacheHit
  <2>3. cache.alive > MaxCall
    BY <2>1, <2>2 DEF TimeInv
  <2>4. token'.alive > MaxCall - spent'
    BY <1>4, <2>1, <2>3 DEF UseCachedToken
  <2> QED BY <1>4, <2>4 DEF UseCachedToken, TimeInv
<1>5. CASE FetchToken
  BY <1>5 DEF FetchToken, TimeInv
<1>6. CASE Fetched
  <2>1. PICK late \in 0..spent :
          /\ token' = [alive |-> PIALife - late, good |-> TRUE]
          /\ WriteCachedToken(token')
    BY <1>6 DEF Fetched
  <2>2. token'.alive \in Int /\ token'.alive >= PIALife - MaxCall
    BY <2>1 DEF TypeOK
  <2>3. token'.alive > MaxCall - spent'
    BY <1>6, <2>2 DEF Fetched
  <2>4. /\ cache'.left > 0 =>
             cache'.alive >= cache'.left + (PIALife - MaxCall - TTL)
        /\ spare' > 0 => cache'.left >= spare' + Skew - 1
    <3>1. CASE /\ cache' = [left |-> TTL, alive |-> token'.alive, good |-> TRUE]
               /\ spare' = TTL - Skew + 1
      BY <2>2, <3>1
    <3>2. CASE UNCHANGED <<cache, spare>>
      BY <3>2 DEF TimeInv
    <3> QED BY <2>1, <3>1, <3>2 DEF WriteCachedToken
  <2> QED BY <2>3, <2>4 DEF TimeInv
<1>7. CASE FetchFails
  BY <1>7 DEF FetchFails, Requestable, End, TimeInv
<1>8. CASE RateLimited
  BY <1>8 DEF RateLimited, Requestable, End, TimeInv
<1>9. CASE NoMetadataServer
  BY <1>9 DEF NoMetadataServer, Panic, TimeInv
<1>10. CASE AddKey
  BY <1>10 DEF AddKey, Sendable, TimeInv
<1>11. CASE AddKeyFails
  BY <1>11 DEF AddKeyFails, Sendable, End, TimeInv
<1>12. CASE AddKeyUnusable
  BY <1>12 DEF AddKeyUnusable, Sendable, End, TimeInv
<1>13. CASE NoWireguardServer
  BY <1>13 DEF NoWireguardServer, Panic, TimeInv
<1>14. CASE GenerateConfig \/ GenerateConfigFails
  BY <1>14 DEF GenerateConfig, GenerateConfigFails, End, TimeInv
<1>15. CASE NoServerName
  BY <1>15 DEF NoServerName, Panic, TimeInv
<1>16. CASE Restart
  BY <1>16 DEF Restart, End, TimeInv
<1>17. CASE Tick
  <2>1. /\ cache'.left = Less(cache.left) /\ cache'.alive = Less(cache.alive)
        /\ token'.alive = Less(token.alive) /\ spare' = Less(spare)
    BY <1>17 DEF Tick, TypeOK
  <2>2. /\ cache.left \in Nat /\ cache.alive \in Nat /\ token.alive \in Nat
        /\ spare \in Nat /\ spent \in 0..MaxCall
    BY DEF TypeOK
  <2>3. /\ cache'.left > 0 =>
             cache'.alive >= cache'.left + (PIALife - MaxCall - TTL)
        /\ spare' > 0 => cache'.left >= spare' + Skew - 1
    BY <2>1, <2>2 DEF TimeInv, Less
  <2>4. pc = "add" => token'.alive > MaxCall - spent'
    BY <1>17, <2>1, <2>2 DEF Tick, TimeInv, Less
  <2> QED BY <1>17, <2>3, <2>4 DEF Tick, TimeInv
<1>18. CASE Relist
  BY <1>18 DEF Relist, attemptVars, TimeInv
<1>19. CASE Revoke
  <2>1. /\ cache'.left = cache.left /\ cache'.alive = cache.alive
        /\ token'.alive = token.alive
    BY <1>19 DEF Revoke, TypeOK
  <2> QED BY <1>19, <2>1 DEF Revoke, TimeInv
<1>20. CASE Lose
  BY <1>20 DEF Lose, NoCache, attemptVars, TimeInv
<1>21. CASE Crash
  BY <1>21 DEF Crash, End, TimeInv
<1>22. CASE UNCHANGED vars
  BY <1>22 DEF vars, attemptVars, TimeInv
<1> QED
  BY <1>1, <1>2, <1>3, <1>4, <1>5, <1>6, <1>7, <1>8, <1>9, <1>10, <1>11,
     <1>12, <1>13, <1>14, <1>15, <1>16, <1>17, <1>18, <1>19, <1>20, <1>21,
     <1>22 DEF Next, Step

(* The three parts together are an inductive invariant. *)
THEOREM Invariant == Spec => []IInv
<1>1. IInv /\ [Next]_vars => IInv'
  BY TypeStep, PlaceStep, TimeStep DEF IInv
<1> QED BY InitInv, <1>1, PTL DEF Spec

(* The client's state has its type: no entry is cached for longer than     *)
(* the time to live GetToken gives it, no request takes more than MaxCall. *)
THEOREM TypeCorrect == Spec => []TypeOK
<1>1. IInv => TypeOK
  BY DEF IInv
<1> QED BY <1>1, Invariant, PTL

(* addKey never sends a token that has expired at PIA, whatever the times, *)
(* as long as TTL and two slow requests fit in a token's life.             *)
THEOREM TokenAlwaysAlive == Spec => []TokenAliveAtUse
<1>1. IInv => TokenAliveAtUse
  <2> SUFFICES ASSUME IInv, pc = "add" PROVE token.alive > 0
    BY DEF TokenAliveAtUse
  <2>1. token.alive > MaxCall - spent /\ token.alive \in Nat /\ spent \in 0..MaxCall
    BY DEF IInv, TimeInv, TypeOK
  <2> QED BY <2>1, TimesAssumption
<1> QED BY <1>1, Invariant, PTL

(* The process panics only for a region PIA lists without a server. *)
THEOREM PanicsOnlyOnEmptyRegions == Spec => []PanicNeedsEmptyRegion
<1>1. IInv => PanicNeedsEmptyRegion
  <2> SUFFICES ASSUME IInv, pc = "panic" PROVE PanicNeedsEmptyRegion
    BY DEF PanicNeedsEmptyRegion
  <2>1. /\ conf \in Configs /\ list \in Lists
        /\ region = ResolveRegionID(conf, list) /\ region # NoRegion
        /\ \/ WireguardServers(conf, list, region) = {}
           \/ MetadataServers(conf, list, region) = {}
    BY DEF IInv, PlaceInv, TypeOK
  <2>2. PICK i \in Offered(conf, list) :
          /\ list[i].id = region
          /\ conf.region \in {list[i].id, list[i].name}
                               \cup list[i].meta \cup list[i].wg
    BY <2>1, ResolvedIsOffered
  <2>3. list[i].meta = {} \/ list[i].wg = {}
    BY <2>1, <2>2 DEF WireguardServers, MetadataServers
  <2> QED BY <2>2, <2>3 DEF PanicNeedsEmptyRegion
<1> QED BY <1>1, Invariant, PTL

(* A token is requested only when the last one cached is used up or lost. *)
THEOREM FetchesAlwaysSpaced == Spec => FetchesSpaced
<1>1. IInv /\ [Next]_vars => [pc = "token" /\ pc' = "fetch" => spare = 0]_vars
  <2> SUFFICES ASSUME IInv, Next, pc = "token", pc' = "fetch"
               PROVE  spare = 0
    OBVIOUS
  <2>1. ~CacheHit
    BY DEF Next, Step, Begin, NewClient, NewClientFails, UseCachedToken,
           FetchToken, Fetched, FetchFails, Requestable, RateLimited,
           NoMetadataServer, AddKey, AddKeyFails, AddKeyUnusable, Sendable,
           NoWireguardServer, GenerateConfig, GenerateConfigFails,
           NoServerName, Restart, Tick,
           Relist, Revoke, Lose, Crash, End, Panic, attemptVars
  <2>2. cache.left < Skew
    BY <2>1, TimesAssumption DEF CacheHit, NoCache, IInv, TypeOK
  <2>3. spare \in Nat /\ (spare > 0 => cache.left >= spare + Skew - 1)
        /\ cache.left \in Nat
    BY DEF IInv, TypeOK, TimeInv
  <2> QED BY <2>2, <2>3, TimesAssumption
<1> QED BY <1>1, Invariant, PTL DEF Spec, FetchesSpaced
=============================================================================
