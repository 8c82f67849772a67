# Verification of pia-wg-config-generator

TLA+ models of the long-running parts of this repository, TLC runs that check
them on small instances, and TLAPS proofs of what matters most for every value
of the constants. `PROJECT.json` lists the components, runs, mutants, findings,
hazards and theorems, and maps every definition to the lines it models.

## 1. The system

| Component | State | Operations |
|---|---|---|
| refresh daemon (`refresh.go`) | `refreshRuntime` behind `stateMu`; the proactive timer and the health ticker | `tryAdopt`, `onHealthTick`, `regenerateWithBackoff` / `regenerateOnce`, `armNextRefresh`, `rearm`, `flushStatus` |
| lifetime store (`pia/lifetime.go`) | `registration_lifetime.json`: birth of the current registration, at most 20 observed lifetimes | `Load`, `RecordNewRegistration`, `RecordObservedLoss`, `SafeRefreshInterval`, `ExpectedExpiry` |
| alerting (`alert.go`) | `outagePolicy` (failures, alerted), a queue of 8 events, one worker goroutine | `failure`, `healthy`, `send`, `deliver`, `stop` |
| pf daemon (`pf_daemon.go`, `pia/pf.go`, lease code of `main.go`) | `activeRegistration`, `lastPort`, `pfLeaseState` shared with a renewal goroutine | poll, acquire (signature and bind), publish, `lease.set`, `lease.disable`, renew |
| legacy daemon (`runDaemon` of `main.go`) | the same lease; `pending_port_forward.json` as a message to its next incarnation | generate, restart gluetun, hand over and exit, acquire, publish |
| health check (`pia/health.go`) | none | `CheckTunnelViaControlServer` |
| healthcheck command (`healthcheck.go`) | none; reads `status.json` | `evaluateHealth` |
| PIA client (`pia/pia.go`, `pia/token_cacher.go`, `pia/token_fetcher.go`, `pia/helpers.go`, `pia/wg.go`) | the server list and region of one attempt; `.pia_token.json` | `NewPIAClient`, `GetToken`, `AddKey`, `GenerateWithMetadata` |
| redaction, one-shot commands, alert script | none | see section 7 |

They interact through the state directory and through gluetun:

    PIA  <-- addKey --  refresh  -- wg0.conf, pending_port_forward.json -->  disk
                          |  ^                                                |
             Docker restart  control server (status, public IP)               v
                          v  |                                     pf (in gluetun's
                         gluetun  <-- tunnel, network namespace -->  namespace)
                                                                     -- bindPort --> PIA gateway

The refresh daemon is one goroutine with blocking calls: what is hard is not a
data race but that a regeneration is five side effects in a row (register,
`wg0.conf`, lifetime record, pending metadata, restart), any of which may fail
or be the last one before a crash, while two clocks (ticker and timer), a
cooldown and a backoff decide when the next one starts. The pf daemon has two
goroutines that share a lease, and lives in a network namespace that disappears
under it. The alerting has a producer that must not block and a consumer that
may. The PIA client works with a token that ages in two places, its cache file
and PIA, and tries sources one after the other. The healthcheck judges a process
it cannot see by a file that process writes when it gets round to it.

What makes each part correct: the files and the tunnel agree when the refresh
daemon is at rest; a dead tunnel is replaced in time and never in a storm of
registrations; a recorded lifetime is never longer than the real one; a refresh
comes before the expected expiry; notices are in order, at most once; the port
in `forwarded_port` is forwarded; a hand-over is not lost; a token is alive when
it is used and requested only when it must be; the healthcheck reports an outage
and not a refresh.

## 2. Modules

| Module | Models |
|---|---|
| `Lifetime` | the pure functions of the lifetime record and the jittered delay, as operators |
| `Alerts` | policy, queue, worker |
| `ControlServer` | the two-signal health check as operators over the control server's answers |
| `Refresh` | the refresh daemon with PIA, gluetun and the disk; extends `Lifetime` and `ControlServer` |
| `Registrar` | abstract specification: what the refresh daemon promises pf and gluetun; `Refresh` implements it, `PortForward` is built on its actions |
| `Adoption` | `Refresh` and the region `wg0.conf` was generated for, which no file records |
| `Probe` | `Refresh` and the container healthcheck, a reader of its files |
| `Client`, `MCClient` | one caller of `src/pia`: server list, region, token, registration; and its instance |
| `PortForward` | the pf daemon, its renewal goroutine, the lease, gluetun's namespace, PIA's gateway |
| `Daemon` | the legacy daemon, its exits and hand-over |
| `LifetimeProofs`, `AlertsProofs`, `RefreshProofs`, `ProbeProofs`, `ClientProofs`, `PortForwardProofs`, `DaemonProofs` | the theorems |

The specifications are instantiated by their configuration files: constants are
numbers, Booleans or small sets, except the server lists and configurations of
`Client`, which `MCClient` defines. Definitions named `X_Y` are
mutants of `X`: a plausible bug each, kept next to the definition they change,
and not part of any specification.

### Refresh

Time is a whole number of units, 0 is Go's zero time. `pc` is where the
goroutine waits: `select` (the loop of `runRefresh`), `generate` (PIA calls),
`write`, `record`, `pending` (the three files), `apply` (config hook and Docker
restart), `sleep` (backoff), `down` (container not running). Code between two
blocking calls takes no time; `generate` and `apply` take up to `MaxCall`, `generate`
at least `MinCall`. Each
side effect of `regenerateOnce` is a step of its own, so that a crash or a
failure falls between any two of them. A registration is named by the time
`regenerateOnce` began, which is the birth the code records. The code's clock is
finer than the model's: with `MinCall` 0 two attempts of the same unit share a
name, and the model then takes the second registration for the first. Where that
matters (`DeadTunnelReplaced`) the run and the theorem have `MinCall` above 0.

| Code | Actions |
|---|---|
| start of `runRefresh` | `Adopt`, `Startup` |
| `onHealthTick` and `rearm` | `HealthyTick`, `UnhealthyTick`, `RecoverTick` |
| proactive timer | `ProactiveFire` |
| `regenerateOnce` | `GenerateOK`, `WriteConfig`, `RecordBirth`, `WritePending`, `Apply` and their failures |
| `regenerateWithBackoff` | `FailAttempt` (part of each failure), `Retry`, `GiveUp` |
| environment | `Tick`, `Evict`, `Connect`, `Reload`, `Crash` |

A sample is what `CheckTunnel` makes of one of the answers `ControlServer` allows
for the state of the tunnel. Left out of the state are the fields that are only
reported (`lastGenerateUTC`, `controlStatus`, the public-IP flags,
`healthError`); of `status.json` `Refresh` keeps the region, which `tryAdopt`
reads back, and `tunnel_healthy`; `Probe` adds what the healthcheck reads. An empty `--restart-container`, a lifetime record that
exists but cannot be opened, and ages below a second are not modelled; the
control-server check takes no time. `flightMu` is never contended in this
program (one goroutine) and has no variable.

### Registrar, Adoption, Probe

`Registrar` has three variables and three actions: `wg0.conf` moves on to a later
registration, its metadata is handed over, gluetun is started from it.
`Refresh!RegistrarSpec` says that every step of the refresh daemon, failing,
retried or cut short, is one of these or a stutter. `PortForward` conjoins the
same actions to its own bookkeeping, so what pf is checked against is no more
and no less than what the refresh daemon is proved to do.

`Adoption` adds one history variable. `Probe` adds `unhealthySinceUTC`, the file's
age, `unhealthy_since_utc` and `expected_expiry_utc`; the probe itself is the
predicate `ReportsHealthy`, so "at any time" is every state. The steps of
`Refresh` are sorted by what they do to these: `ObservesHealthy`,
`ObservesUnhealthy`, `Reports` (an attempt's error or its success), `GivesUp`,
`Crashes`, `Starts` and the `Silent` rest.

### Client

`pc` is the call under way: `list` (the server list), `token` (before the cache is
read), `fetch` (a token request to `source`), `add` (addKey), `config`, `panic`.
`generateConfig` looks up the server name first (`NoServerName`, a panic) and only
then checks the port, IP and DNS of the answer (`GenerateConfigFails`).
There is no clock: `cache.left` is the time to `expires_at`, `alive` how long PIA
still accepts the token, and both count down, also while a request runs
(`spent`). Server lists are sequences of regions with sets of servers; names
stand for their lower-case form. `source` goes through `SystemCurl`,
`OpenSSLCurl`, `MetadataServer` in the order of `GetToken`. Which of a region's
servers is taken is left out: the code takes the first, and only whether there
is one matters here. The caller is the refresh daemon's `generate`; the other
callers make the same calls.

### Alerts

Every event is numbered by what it is about, 2n-1 for the failure alert of
outage n and 2n for its recovered notice, so that "in order, at most once" is
"strictly increasing". `HookTimeout` kills the shell, `PipeClosed` is the end of
the last process that holds its output, for which `cmd.Run` waits; it may never
happen.

### PortForward

`attached` says that pf is in gluetun's current namespace; a restart of gluetun
clears it and a restart of pf sets it. `fresh` are the ports that cannot lapse
before the next renewal tick: PIA keeps a port for fifteen minutes and the
renewal runs every fourteen. The model assumes that the on-port-change hook
returns within the spare minute and that a bind after a lapse is accepted. The
refresh daemon is reduced to `Registrar`: `NewConfig`, `HandOver` and
`RestartGluetun` are that module's actions, with nothing assumed about the time
between them.

### Daemon

One iteration of `runDaemon` is the chain `client`, `write`, `hook`, `restart`,
`handover`, or `client`, `acquire`, `publish`, `set`. The two copies of the
acquisition code (for pending metadata and, without a container to restart, for
the registration just made) are the same actions; the pending file does not
exist in the second case, so removing it is a no-op. The run has a container to
restart; the theorems hold with and without one. `status.json`, which this
daemon only writes, is left out, and so is the renewal goroutine, which is the
code `PortForward` models.

## 3. Runs

Passing runs. Bounds are the smallest that let the listed cases happen.

| Run | Shows | Bounds |
|---|---|---|
| `refresh_faults` | `ConfigIsNewest`, `RegistrarSpec`, `MismatchIsBounded`, `YoungRegistrationKept` with all twelve faults, crashes among them | 9 units, calls of 1 or 2 with a health interval of 1, so that a recovery may outlast two of them; cadence 5, two attempts: an adoption and the refresh that ends it, a proactive refresh, a recovery, a retry and a give-up fit |
| `refresh_timing` | `DeadTunnelReplaced` (an evicted registration is gone within `RecoveryBound`), `RefreshBeforeExpiry`, `RegistrationsSpaced` | 16 units, eviction and a misleading sample at any time, registrations of 1 and restarts of up to 1, cooldown 2 with a cap of 4 so that it doubles; a configured interval of 11 that a measured lifetime cuts to between 2 and 5, jitter of 1 to either side; `RecoveryBound` is reached: a cooldown one longer breaks it |
| `probe` | with crashes, five kinds of failure and no adoption: `IdleMeansApplied`, `LossIsConservative`; and in every state of the daemon the probe, `ProbeDetects`, `ProbeQuiet` | 10 units, one attempt with a backoff of 2, limits of 1 (status age) and 2 (outage): a regeneration that gives up, a proactive one right after it, a restart during an outage, a backoff that outlasts the limit on the file's age. Calls take no time here and nothing is adopted; the theorems about the probe have no such limits |
| `client` | `TokenAliveAtUse`, `FetchesSpaced`, `PanicNeedsEmptyRegion`, `RegistersAgain` | a token cached for 4 units, accepted for 8, requests of up to 2: the tightest `TimesAssumption` allows; four lists (one as usual, one without WireGuard servers, one without metadata servers, one with a region in two parts) that may change at any time, five configurations, three faults of ten kinds |
| `alerts` | `InOrder`, `QueueDrains` | 3 outages, queue of 2: it overflows, also with an alert and its own notice in it |
| `port_forward` | `PublishedIsForwarded`, `LeaseNotReacquired`, `PortComesBack` | 3 registrations, 2 ports, 3 faults of any of six kinds |
| `daemon` | `PendingIsRunning`, `PortFileIsLease`, `PendingServed` | 4 registrations, 5 faults of any of twelve kinds |

The violation runs each check one sentence of the repository's documents,
comments or tests against what the code does; `findings` in `PROJECT.json`
quotes the sentence.

| Run | What happens |
|---|---|
| `refresh_storm` | while the Docker restart fails, a recovery registers a key per attempt and never starts its cooldown |
| `refresh_stale_timer` | a recovery that takes longer than two health intervals is over when `rearm` no longer takes its registration for a new one: the timer of the old one stays and fires early. By default two intervals are 2 minutes; the requests of one registration may take 170 seconds, and the config hook has no limit |
| `adopt_region` | started with another `--region`, a daemon whose first attempt fails writes that region into `status.json`; restarted, it adopts the old region's config as one for the new |
| `alerts_hook_stuck` | a child that outlives a killed hook with its output open keeps `cmd.Run`, hence the only worker, for ever: the time-out is not a hard one |
| `daemon_stranded` | a pending file that cannot be written keeps the legacy daemon in the dead namespace for ever |

More disagreements were met while modelling; they have no run of their own:

* With the alert queue full, `send` drops a failure alert after the policy has
  latched it; the recovered notice of the same outage may find room and is then
  delivered alone (`alert.go:189`). The comments at `alert.go:71-73` ("only the case
  when a failure alert was actually sent for this outage") and `alert.go:150-151` ("a
  failure alert always precedes its recovered notice") say otherwise. `InOrder`
  allows it: it is about the events that are delivered.
* `helpers.go:17-19` says of a `CURL_PATH` that cannot be found that "the caller
  surfaces this as a fatal error"; `GetToken` goes on to the metadata server
  (`pia.go:170`) and the client registers. `RegistersAgain` leaves out that
  configuration; the other properties of `client` are checked with it.
* `healthcheck.go:21-22` says that "the daemon rewrites it on every health tick", so
  that an old `status.json` shows "a hung or crashed loop". The loop reads no tick
  during a regeneration, and writes nothing while it sleeps in a backoff and makes
  the calls of the next attempt. By default the sixth attempt comes after 8
  minutes and the limit is 10, so with slow calls the probe calls the loop stuck
  although the tunnel works; `Retrying` in `ProbeQuiet` is this case.
* A proactive refresh leaves `tunnel_healthy` as the last sample of the replaced
  registration set it (`refresh.go:696`; the acceptance test wants a sample first).
* Failing proactive refreshes count for the alert while the tunnel works
  (`refresh.go:642`).
* Metadata that pf reads before gluetun runs the registration makes it disable the
  lease of the tunnel still running (`pf_daemon.go:114`), until the next poll after
  the restart (`PortComesBack`).

Some properties hold only without certain faults, and the fault sets of the
passing runs reflect it. None of these is a slip of the model:

* `IdleMeansApplied` needs that the process does not crash, or adopts nothing
  (`--adopt-healthy-registration=false`). A crash between the birth record and the
  restart leaves a young birth beside a healthy tunnel of
  the previous registration, and `tryAdopt` keeps that tunnel.
* `LossIsConservative` needs that the birth is saved (no `record` fault). A birth
  that could not be saved is only logged, and the next loss is measured from the
  previous one. It needs that the health check sees the eviction (no `blind`
  fault), and that not both a crash and an outside restart of gluetun happen:
  after a crash between `wg0.conf` and the record, such a restart loads a
  registration that the record is too old for.
* `YoungRegistrationKept` has the two cases in it in which the timer may be stale
  (`TimerMayBeStale`), and needs nothing else. `NoStaleTimer`, without them, is what
  `refresh.go:338-340` says and `refresh_stale_timer` violates. The second case is a
  recovery that reported a failure although its config was loaded in the end (a
  lost answer, an outside restart). `refresh_faults` reaches both: without either
  exception it fails.
* `RefreshBeforeExpiry` excepts the same two cases, in which the timer that stays
  may also be too late: it is that of a longer configured interval. (With `MaxCall`
  2 the bounds of `refresh_timing` need the exception.) It says nothing where the
  shortest measured lifetime is below two floors or the jitter window, for then the
  floor or the jitter wins.
* `RegistrationsSpaced` needs that a registration, once made, is applied: the
  cooldown is started by a recovery that succeeded (`refresh_storm`). Attempts
  that register nothing do no harm: they only escalate the cooldown further,
  which the theorem includes and the run does not.
  `DeadTunnelReplaced` states its bound for recoveries whose calls succeed.
* A crash and an adoption make `IdleMeansApplied` false for a while, not for ever:
  `MismatchIsBounded` gives the age at which the loop has replaced the tunnel:
  a minute after the recorded registration is due, for a tick within two health
  intervals of its birth arms the timer again, at least a minute ahead.
* `ProbeDetects` counts an outage from the start of the daemon that sees it, for
  `unhealthy_since_utc` dies with the process. Its bound contains two whole
  regenerations (`SampleGap`), in which nothing samples the tunnel and `select`
  may pick the timer before the ticker. It needs a limit on the outage (0 is
  none), a public IP that can be read, and half of the jitter window below the
  cadence's floor, as 15 and 30 minutes are. With a wider window and no recorded
  birth, `nextProactiveDelay` may return a delay that is not positive; failing
  refreshes then follow each other and nothing bounds when the ticker is read (it
  is exceeded with `RefreshJitter` 8 and `MinRefresh` 3).
* `ProbeQuiet` is about a daemon that has had a healthy sample: before the first
  one the probe reports a tunnel that is "not healthy and no outage start is
  recorded". It needs that the control server answers, that the record is that of
  the registration gluetun runs or of a later one (as for `LossIsConservative`),
  and `StatusAgeCovers`: `--max-status-age` covers a wait for a tick and the two
  calls of an attempt, as 10 minutes do 1 minute and the calls' time-outs. It need
  not cover a backoff, and by default does not: for that the property has a case
  of its own, in which a regeneration has failed and is tried again (`Retrying`),
  with `LongestSilence` as the limit of how long the file may be old then.
* `QueueDrains` is about hooks whose leftovers end: nothing is said of a worker
  that waits for ever for the output of a killed one (`alerts_hook_stuck`).
* `TokenAliveAtUse` needs that the time to live and two slow requests fit in PIA's
  24 hours and the skew, which `TimesAssumption` states and 23 hours do.
* `RegistersAgain` is about configurations the code does not call fatal (see
  `CURL_PATH` above), and about lists that stay usable: a region without servers makes
  the process panic, restart and panic again.
* `PublishedIsForwarded` excepts a `forwarded_port` whose write failed, which the
  pf daemon does not repeat, and a port whose last renewal failed.
* `PendingServed` excepts a process stranded by an outside restart of gluetun.

## 4. Fairness

Only liveness properties use it. `Alerts`: the Go scheduler runs the worker, and
the hook time-out is finite. That a process left behind by a killed hook ends is
not assumed, because the code does not enforce it; `QueueDrains` is conditional
on it instead, and `HookTimeoutIsHard` fails for the lack of it.
`PortForward`: both goroutines run, calls return (they have time-outs), the
tunnel comes back, and the companion container restarts a stranded pf, as the
documented deployment has it. `Daemon`: the loop runs, the tunnel comes back,
Docker restarts a container that exited; nothing restarts one that is stranded
but running. `Client`: every request ends and every caller tries again (`WF` of the steps),
and time passes between attempts (`SF` of `Tick`, for a failed attempt is
followed by a sleep, so no infinite number of attempts happens in no time); it is
what lets a refused token expire from the cache. Faults are finite in number in
the liveness runs. The deadline of
the refresh daemon is a safety property (`DeadTunnelReplaced`) and needs none.

## 5. Proofs

* `LifetimeProofs`: the shortest element exists and is what `MeasuredLifetime`
  returns, bounds of the cadence and of the jitter, type of the record after a
  loss.
* `AlertsProofs`: `TypeOK` and `InOrder`.
  `InOrder` is not inductive: a new event must be larger than all earlier ones.
  The invariant adds that every event queued or delivered is at most the failure
  of the current outage if it has not been declared over, and that `alerted`
  holds once that failure was sent. The latch is what carries the argument: the
  mutant without it violates `InOrder`.
* `RefreshProofs`: `TypeOK` (each action, with the lemmas of `LifetimeProofs`
  for the delays); `ConfigIsNewest`, by `NamesInv`: a registration under way
  began no earlier than the one in `wg0.conf`, and after the write it is that
  one; `IdleMeansApplied` when `"crash"` is not a fault or nothing is adopted, by
  `AppliedInv`: the metadata handed over is the attempt's by the time gluetun is
  restarted, every sleep has an error published, and nothing is adopted from an
  empty directory. With both it is false (section 3). `ImplementsRegistrar` is the refinement,
  from `NamesInv`: a write of the config or of the metadata is one of the
  attempt under way, which is later than, respectively equal to, the one in
  `wg0.conf`.
* `ClientProofs`: `TypeOK`, `TokenAliveAtUse`, `PanicNeedsEmptyRegion` and the action property `FetchesSpaced`, from one
  inductive invariant `IInv` with two parts beside the types. `TimeInv`: a cached
  token outlives its entry by what PIA's life leaves over the time to live and
  one slow request, and a token in hand outlives the addKey under way; neither
  holds of a later state without the other. `PlaceInv`: the region in hand is
  the one resolved from the list in hand, and a panic comes from a selection
  without servers. `ResolvedIsOffered` (the first match is an entry of the list,
  by well-foundedness of the naturals) carries the panic theorem for lists of
  every length.
* `RefreshProofs`, second part: the deadlines and action properties of `Refresh`.
  All rest on `CallInv`, how long an attempt has been going on at each of its
  steps.
  - `LossIsConservative`, by `SampleInv` and `BirthInv`: the last healthy sample
    is not after the eviction, and the recorded birth is not before the running
    registration's.
  - `MismatchIsBounded`, with no assumption beyond the types, by `MismatchInv`:
    the tunnel was adopted more than a health interval before the recorded
    registration is due, so at the first tick that is still ahead, and at the
    second the birth is more than two intervals old and the timer is kept. The
    minute in the bound is needed: when two health intervals reach the cadence,
    the first tick may come just before the registration is due and put the timer
    a minute off (it does with `HealthInterval` and `OneMinute` 3,
    `RefreshInterval` 6).
  - `YoungRegistrationKept` and `RefreshBeforeExpiry`, with no assumption beyond the
    types, by `YoungInv`: while the loop waits, the timer of the recorded
    registration is between its shortest cadence and its expected expiry
    (`TimerFits`), or `TimerMayBeStale`. It has to cover a registration that gluetun
    would load as well as the one it runs, because of outside restarts. The upper
    end is arithmetic (`ArmedIsInTime`): half a lifetime plus half a jitter window is
    at most a lifetime.
  - `DeadTunnelReplaced`, by `FreshInv` (an attempt's name is new and gluetun runs
    an older one until the attempt restarts it) and `DeadInv`: after an eviction the next tick is at
    most an interval away for each sample that counts, and later only within the
    cooldown of a recovery that came before the eviction; an attempt begins in
    time, and then takes two calls.
  - `RegistrationsSpaced`, by `SpacedInv`: the daemon counts at least as many
    ineffective recoveries as the history (attempts that register nothing count
    again for the one before them), and a key is registered before its recovery
    starts the cooldown. A longer count must not mean a shorter cooldown:
    `CooldownGrows`. `EffectiveCooldown` is a recursive function, as the code's
    loop is, and the induction over it is done by hand, with the least number
    for which a claim fails (`EscalationsExist`, `CooldownDefined`).

  The theorems name the faults they exclude; section 3 says why each is needed.
* `ProbeProofs`: `ProbeDetects` and `ProbeQuiet`, for all intervals, backoffs,
  numbers of attempts, durations of calls and limits. A step of `Probe` is one of
  `Refresh` (`ProbeStepWatches`), so all invariants above carry over. Its actions
  are first sorted into nine kinds by what they do to the clocks and the file
  (`ProbeStepHolds`), and the invariants are proved over these.
  - `LoopInv` and `FileInv`: where the ticker and the wake-up time stand, and
    that the file agrees with the process once that has taken a sample.
  - `Due` is where `SampleGap` comes from: attempt n of a regeneration begins at
    most n - 1 attempts' spans after the change of the tunnel (`Spent`), and only
    a proactive one may begin later, within the span of another regeneration;
    when it ends its timer is ahead, so the ticker is read next.
  - `DetectInv`: while the tunnel is down nothing is overdue, or the file tells of
    an outage noticed in time, which survives a crash for the unit until the
    daemon is started again.
  - `AgeInv`: how old the file is at each place of the loop, from which `AgeBound`:
    never more than `LongestSilence`, and unless `Retrying` no more than a wait for
    a tick and two calls; `QuietInv`: while the
    tunnel is up nothing is overdue, or the daemon knows that it is and the file
    expects no earlier end than the running registration's (`BirthInv`).

  The attempt to prove `ProbeQuiet` is what showed which silences the limit on the
  file's age has to cover, and `ProbeDetects` that the jitter matters (section 3).
* `PortForwardProofs`: `TypeOK`, `PublishedIsForwarded` and the action property
  `LeaseNotReacquired`, from one inductive invariant of four parts. `PortInv`: a
  port is at hand wherever one is bound. `LeaseInv`: the port of a lease cannot
  lapse before the next tick, is being renewed, or its renewal failed, and it is
  the one in the file; both goroutines and the restarts of gluetun keep it,
  although the lease may be replaced during a renewal. `TargetInv`: what is
  acquired is newer than what is held.
* `DaemonProofs`: `TypeOK`; `PendingIsRunning`, by `HandOverInv`: a pending file
  keeps the loop away from registering, and at the hand-over gluetun runs the new
  config; `PortFileIsLease`, by `PublishedInv`.

Assumptions are those named in the modules that declare the constants
(`LifetimeAssumption`, `AlertsAssumption`, `RefreshAssumption`,
`PortForwardAssumption`, `DaemonAssumption`, `DataAssumption`, ...): types, and
positive floors and sizes; and `TimesAssumption`, the one that relates constants
(section 3). Of the theorems of `RefreshProofs` only `DeadTunnelAlwaysReplaced` adds
a condition on durations: `MinCall` above 0, which is true of the program. Those of `ProbeProofs` add
the conditions on the flags that section 3 gives.

Only model-checked: everything temporal beyond refinement (`QueueDrains`,
`PortComesBack`, `PendingServed`, `RegistersAgain`), because liveness under
fairness is out of the prover's reach. Every safety property of every passing run
has a theorem.

## 6. Order of the work, and what is left

The core came first (`Lifetime`, `Refresh`, its types and the order of its
writes), then what surrounds it (alerting, pf and legacy daemon, client), the
abstract specifications between them, the healthcheck, and the deadlines. What is
left are the hazards of `PROJECT.json` without a property, each with a note that
says why: most need something the code makes no claim about (the duration of a
hook, the meaning of an alert, an account of unused keys, an outage counted across
restarts), so that there is nothing to hold it against.

## 7. Not modelled

Credential redaction (string rewriting with regular expressions), the `generate`,
`regions` and `version` commands (one-shot, no state; what `generate` calls is
`Client`), the alert script (to the dispatcher a hook like any other), key
generation and the text of the WireGuard config, command-line flags, and vendored
code. The choice between Docker's socket and a proxy is configuration. Hooks are
processes that end or do not; what they do is theirs. The config and
on-port-change hooks have no time-out in the code, and the models assume that
they end in the time their step has: a hook that hangs stops the daemon that runs
it, and no property could say otherwise. `Refresh` and `Client` are not composed
into one specification: to the refresh daemon a registration is a call that
succeeds, fails, or fails after the key was registered, which are the outcomes of
an attempt of `Client`.
