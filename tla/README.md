# GemGate in TLA+

GemGate is a gateway in Go between applications and AI providers: it checks an
application's token, counts the request against the token's rolling one-minute
quota, and streams it to a provider whose health a circuit breaker watches. Its
configuration, tokens and secrets are replaced while it runs. This directory
holds the specifications of its stateful core, the TLC models that check them
and the TLAPS proofs of what holds for every size of the instance.

Paths below are relative to the repository; `gw/` stands for `internal/gateway/`.

## 1. The system

### 1.1 Components

| Component | State it keeps | Operations | Correct if |
| --- | --- | --- | --- |
| Circuit breaker, `gw/circuitbreaker.go` | state, failures, threshold, open period, deadline, under one mutex | `allow`, `finish`, `cloneWithPolicy`, `snapshot` | one probe at a time; open for its period; never stuck |
| Provider transport, `gw/provider_metrics_transport.go` | per exchange: permit, `once` of the body; shared: the provider's gauge | `RoundTrip`, body `Read` / `Close` | every exchange settles gauge and breaker once |
| Runtime snapshots, `gw/runtime.go` | the active snapshot (configuration, tokens, providers with their breakers) | `Reload`, `buildRuntimeSnapshot`, `validateHotReload` | requests see one snapshot; circuits and quotas survive |
| Rate limiter in memory, `gw/ratelimit.go`, `gw/ratelimit_backend.go` | a window of instants per token hash, a map of windows | `allow`, `prune`, `Allow`, `Retain` | no minute has more admissions than the limit |
| Rate limiter in Redis, `gw/ratelimit_redis.go` | a sorted set per token hash in Redis, a sequence number per process | the Lua script, `Allow` | the same, over all replicas and a lossy connection |
| Log ring, `gw/logring.go` | entries, limit | `Add`, `Resize`, `Snapshot` | the newest entries that fit, in order |
| Request pipeline and metrics, `gw/gateway.go`, `gw/proxy.go`, `gw/metrics.go`, `gw/http_helpers.go` | separate atomic counters and gauges, the log | `ServeHTTP`, `proxy`, `copyAndFlush`, `recordStatus` | gauges exact; counters, log and verdicts agree |
| Process lifecycle, `cmd/gemgate/main.go`, `gw/server.go`, `gw/operations_listener.go` | listeners, servers, `serverErr`, the limiter's client | `run`, `Serve`, `Shutdown`, `watchConfig` | operational routes stay apart; a stop ends |
| Configuration, `internal/config/config.go` | none; files on disk | `Load`, `resolveSecretFiles`, `validate` | what is activated is complete and unambiguous |
| Terminal UI, `internal/tui/` | one `Model`: section, filter, pause, help, size, a snapshot of the log and the tables made from it | `Update`, `refresh`, `resize`, `setFilter`, `setActive`, `tick` | what is displayed agrees with the snapshot, filter, section and size; it catches up |
| Set-up wizard, `internal/tui/setup.go` | four fields and the one being edited; then the configuration file | `Update`, `Result`, `WriteConfig` | only a complete form is saved, as typed where nothing needs escaping; a start never listens without it |
| Trusted proxies, `gw/trusted_proxy.go` | none; the trusted prefixes of the snapshot | `resolveClientIP` | the identity that is logged and forwarded is the last host outside the proxies, as far as its headers allow |
| CORS, `gw/cors.go` | none; the policy of the snapshot | `handle`, before anything else of a request | a page that was approved can read its answer |
| Operations auth, `gw/operations_auth.go` | none | `operationsAuthorized` | application and operations tokens open different doors |
| Provider catalog, `internal/provider/catalog.go` | a constant table | `ApplyHeaders` | a provider gets its own key and nothing of the client's |
| Readiness and health, `gw/readiness.go`, `gw/health.go` | none | `writeReadiness`, `writeHealth` | readiness follows the circuit |
| Tracing and telemetry | spans on the side | | see 7 |

### 1.2 How they interact

`main` loads the configuration, builds a `Gateway`, binds the listeners and
starts the servers, the watcher and perhaps the TUI. Each request runs in its own
goroutine: it captures the runtime snapshot, authenticates, consults the limiter,
enters the process's in-flight gauge, and calls the provider through that
snapshot's HTTP client, whose transport asks the breaker for a permit and
reports the outcome when the body ends. The watcher's goroutine loads the files
on every tick and hands a runtime to `Reload`, which builds a snapshot with clones
of the current breakers, swaps it in under `runtimeMu`, and only then prunes the
limiter's windows and resizes the log. Requests that captured an older snapshot
go on using it, and its breakers, until they end. Metrics are atomics that are
updated one by one; the log ring has a mutex of its own.

### 1.3 What is hard

* Clocks are read before the mutex that uses them, in `RoundTrip`, in `finish`'s
  callers and in `serveHTTP`.
* Everything a snapshot holds is used after another snapshot has replaced it.
* A breaker, a window map and the configuration are read in one critical section
  and replaced in a later one.
* An exchange can end in five ways, in two goroutines, with the client leaving at
  any moment; three places ask whether it left, at different times.
* Redis may run a command twice, or after the gateway gave up.
* The watcher reads several files one by one while somebody edits them.
* Two servers share one shutdown deadline, and the limiter closes after it.
* One request resolves its route, client, identity, key, limit and headers at
  different moments, while reloads publish other configurations; the hosts on its way
  write what they like into its headers, and a browser judges the answer by headers
  that the gateway and the provider both write.
* Readiness reports the circuit, and whoever acts on the report changes the traffic
  that moves the circuit.
* The console's tables have rows and columns made by different handlers, some of
  which stop early in a small terminal, and a clock that must be wound at every tick.
* The wizard's fields can be skipped, emptied and interrupted, and the file it leaves
  decides what the next start does.

`PROJECT.json` lists each of these as a hazard at its line, with the properties
that cover it or the reason why none does.

## 2. Modules

| Module | Models | Actions |
| --- | --- | --- |
| `CircuitBreaker` | the breaker's methods as operators on its fields | none: each method runs under the breaker's mutex, so a use of an operator is one atomic step of another module |
| `ProviderTransport` | concurrent round trips through one breaker, with the in-flight gauge | one per critical section: `RoundTrip` reads the clock, `Refuse` / `Admit` is `allow`, `ProviderBegin`, the ends of an exchange, `ProviderFinish`, `FinishBreaker`, `Tick` |
| `CircuitContract` | what the breaker promises its callers: ordinary requests pass only when closed, one trial when open, only its verdict ends it | `Pass`, `Return`, `Try`, `Verdict` |
| `CircuitReload` | the breakers of successive snapshots under reloads | `BeginReload`, `CloneBreaker`, `RejectReload`, `SwapSnapshot`, and the requests that captured a snapshot |
| `RateWindow` | one client's window, requests reaching it out of clock order, limits changed by reloads | `Arrive` (reads the clock), `Allow`, `Reject`, `AllowUnlimited`, `Tick` |
| `Readiness` | `/_readyz` over `CircuitReload`, and a load balancer that follows it or not | extends `CircuitReload`; `CaptureForReadiness`, `WriteReadiness`; `Routes` is a request that the balancer lets through |
| `TokenQuota` | the map of windows while reloads remove and restore tokens | `Authenticate`, `FindWindow`, `CreateWindow`, `AllowRequest`, `RejectRequest`, `SwapSnapshot`, `Retain` |
| `RedisWindow` | the Lua script, called by several gateways over a connection that loses commands and replies | `Send`, `RunScript`, `Retry`, `GiveUp`, `Reply`, `Tick` |
| `LogRing` | the ring | `Add`, `Resize` |
| `RequestBooks` | the handler, the proxy and the transport as control flow, with every counter the process keeps about requests | one per step that another goroutine can observe, from `ServeHTTP` to `Leave` |
| `Lifecycle` | one process from `Listen` to exit, with `net/http`'s servers | start-up, serving, the two ways to stop, draining, the requests |
| `OperatorConsole` | the TUI's `Update` over the ring, message by message | extends `LogRing`; `Refresh`, `Tick`, `WindowSize`, `OpenHelp`, `FilterKey`, ... one per case of `Update` |
| `FirstStart` | the wizard, the file and what `Load` reads of it, further starts; then `Lifecycle` | extends `Lifecycle`; `Stat`, the keys of the wizard, `WriteConfig`, `WriteFails`, `Load`, `LoadFails`, `StartAgain` |
| `TrustedProxies` | `resolveClientIP` on a chain of hosts | none: pure operators, used by `Edge` |
| `Cors` | the policy's decisions, and a browser's | none: pure operators, used by `Edge` |
| `Upstream` | the headers, the credential and the body that a provider is sent | none: pure operators, used by `Edge` |
| `Edge` | one request after another from the client's host through `ServeHTTP` and `proxy` to the answer, under reloads | `SendRequest` / `SendPreflight`, `Relay`, one action per outcome of the handler (`AnswerPreflight`, `AnswerOperations`, `RejectClient`, `Charge`, `Refuse`, `RouteFails`, `BodyFails`, `Forward`, `UpstreamFails`, `Respond`), `Deliver`, `Reload` |
| `HotReload` | the files, the watcher that reads them, the active configuration | `EditConfig`, `EditSecret`, `ReadConfig`, `ReadSecret`, `SkipSecret`, `FailSecret`, `DropCandidate`, `SwapCandidate` |

`ProviderTransport` and `CircuitReload` extend `CircuitBreaker`, and `Edge` extends
`TrustedProxies`, `Cors` and `Upstream`, for their operators. `OperatorConsole`
extends `LogRing`, `FirstStart` extends `Lifecycle` and `Readiness` extends
`CircuitReload`: the extending module's
next-state relation contains the other's, so that its runs check both. `ProviderTransport`
instantiates `CircuitContract` under the refinement mapping
`phase <- breaker.state`, `passing <-` the ordinary requests not yet accounted,
`trial <-` the holder of the permit. `MC<Module>` gives a module the values TLC needs and
`<Module>_proofs` holds its theorems; `Process_proofs` holds those of `FirstStart` (with
`Lifecycle`) and of `HotReload`, what one process does from its first start on, and
`Books_proofs` those of `RequestBooks` and of `OperatorConsole` (with `LogRing`), what
an operator reads. In these two the components share no state, and the names of
one are told apart by a prefix (`WatchSpec`, `RingSpec`, `ConsoleSpec`, `StartSpec`). Operators called mutants in their comment
(`RetainNothing`, `RefusesOnlyOpen`, ...) are plausible mistakes in the definition
that follows them; nothing uses them, and replacing the definition by one of them
must break the property that `PROJECT.json` names.

### Conventions

* *Time.* The breaker's modules count instants from the present: a tick moves every
  stored instant one unit back, and instants older than anything the code can still
  compare are identified. This keeps the state space finite without bounding the
  run. A clock reading is carried from `time.Now()` to the mutex for at most `MaxLag`
  ticks; the guard of `Tick` is that bound. `RateWindow` and `RedisWindow` have
  absolute time up to `MaxTime`, because they remember all admissions.
* *Atomicity.* A step is a critical section, one atomic addition, one command that
  Redis runs, or one file read. Local computation is part of the step before or
  after it.
* *Data.* Requests, tokens and secrets are model values; statuses other than their
  class, names and log texts are left out. In `Edge` a host, a token, a key and an
  origin are model values, a header is its name with the party its value comes from, and
  a body is its length, how much of it arrives, and whether the length was declared.
  `MaxInt` stands for the largest int64, and `Successor` wraps.
* *History variables* (`cooled`, `born`, `admitted`, `told`, `removals`, `carried`, `passed`,
  `unsure`, `answered`, `added`) are read by properties and bounds only.

## 3. Runs

Deadlock is checked except where noted.

| Run | Instance | States | Shows |
| --- | --- | --- | --- |
| `Transport` | 3 requests, threshold 2, open for 2 ticks, lag 1 | 150 000 | `OneProbe`, `OpenForItsPeriod`, `InFlightExact`; refinement of `CircuitContract`; a probe is judged |
| `Reload` | 2 requests, 1 reload, policies patient, strict and disabled, lag 1; a balancer that follows readiness or ignores it | 419 000 | permits unique per snapshot; a breaker that a reload cloned half open never recovers; an open one does, under demand, and then readiness returns; a gateway drained while unready stays unready |
| `WindowLag` | 3 requests, limits 1, 2 and unlimited, window 6, second 3, lag 1 | 576 000 | a quota spans a window less the lag, and no 429 is unearned; `Retry-After`, rounded, is short by half a second at most |
| `QuotaReload` | 3 requests, 2 tokens, limit 2, 2 reloads | 151 000 | reloads give a token no quota unless they removed it, and `Retain` leaves nothing of a removed token but what a straggler recreates |
| `Console` | limits -1, 1 and the default 3, 4 entries of different status, level and client, 3 terminal sizes | 774 000 | the newest entries that fit, and no loss without need; tables, help and statistics agree with what they show, and a console that is not paused catches up |
| `Redis` | 2 requests at a time, 3 in all, limits 1 and 2, 2 tries, window 2, TTL 3, time 3 | 4 600 000 | the shared window is exact, and charges have a reason |
| `Books` | 2 goroutines, 3 requests | 1 000 000 | gauges, counters and log agree; an excused failure stays silent |
| `Lifecycle` | 2 requests at a time, every command line, with and without a configuration file | 345 000 | what the wizard saves and a start needs; isolation, order of closing, termination |
| `HotReload` | 2 clients, 3 secrets, 2 start-up settings with 2 values, 2 edits | 1 980 000 | the active configuration is valid whatever was read and does not drift from the process, and files at rest become active |
| `Edge` | 4 valid configurations of 8, 2 reloads, 54 demands over 7 chains of hosts with 12 forged claims, a proxy that names its caller in X-Real-IP and one that does not | 219 000 | the identity is the last outsider's, or a host of the chain; a provider is sent one snapshot's decisions and none of the client's credentials; bodies arrive whole; an approved page can read its answer; the two kinds of tokens stay apart |

Two further runs end in a violation, each of a sentence of the documentation:

| Run | Property | What the code does |
| --- | --- | --- |
| `ReloadStuck` | `AfterCooldownAProbe`: "after cooldown exactly one half-open probe is admitted" (docs/ARCHITECTURE.md:140) | A reload that clones a breaker whose cooldown has passed, or whose probe is out, makes it half open (`gw/circuitbreaker.go:96`) without a permit that could end that. `allow` refuses everybody in half open, so the provider stays refused until another reload disables its circuit. |
| `ReloadLostOpen` | `CircuitSurvivesReload`: "circuit state persist[s]" (docs/ARCHITECTURE.md:115) | The breaker is copied (`gw/runtime.go:53`) before the snapshot is swapped in (`:132`); a circuit that opens in between is closed again. |

One sentence of the documentation holds only under a condition: "an exact one-minute
sliding window" (`gw/ratelimit.go:8`, docs/RATE_LIMITING.md:3). The clock is read before
the mutexes (`gw/gateway.go:290`), and `prune` looks at the front of the list only, so
that a late reading can prune an entry that an earlier one still counts. With `MaxLag = 0`
`ExactWindow` is a theorem (`ExactWithoutLag`); with a lag it fails, and `QuotaSpansWindow`
is the bound that holds.

A consequence of the same design that no document excludes in so many words:
snapshots have breakers of their own, so a request of the old snapshot and one of
the new snapshot may each probe the same provider at the same time.
`PermitPerSnapshot` says what remains. Likewise the wizard: `RunSetup` takes
`tea.ErrInterrupted` for an ordinary end and nothing reads `submitted`, so an
interrupted wizard saves an incomplete file (`internal/tui/setup.go:244`). The start
fails on it, and the next start fails too instead of asking again, until
the operator removes the file. Nothing listens meanwhile, for the file does not pass `validate`.

The wizard has another such consequence. `WriteConfig` puts what was typed between double
quotes as it is, and `Load` expands `${NAME}`: a field with a quote, a backslash or such a
pattern is saved as another value, as a blank one, or spoils the file, and GemGate may go
on with it (`internal/tui/setup.go:254-286`). `FirstStart` contains this (`special`), and
`SavesWhatWasSubmitted` promises the typed values only where no field is special.

`Retry-After` is the exact wait rounded to the nearest second (`gw/gateway.go:307`): a
client that waits exactly as long may be refused once more. `RetryAfterIsEnough` says that
half a second is all that can be missing; without it, TLC finds the refusal. An answer that
was given while more entries were retained than the limit (a reload lowered it) names the
end of the first entry only, and is left out.

`Edge` shows three more consequences, which its properties state as exceptions. A
provider that sends CORS headers of its own makes its answers unreadable for a page,
because `copyResponseHeaders` adds them to the gateway's. A `request_body_limit` of the
largest int64 is accepted by `parseBytes`, and `limit+1` then wraps: every body is
forwarded empty (`gw/proxy.go:120`). An entry of `X-Forwarded-For` that is no address
makes `resolveClientIP` fall back on `X-Real-IP`: if a proxy
named its caller there, the identity can be one of the proxies. docs/TRUSTED_PROXIES.md describes this fallback,
but asks nothing of what a proxy does with `X-Real-IP`: behind proxies that only extend
`X-Forwarded-For`, an outsider who sends a malformed entry and an `X-Real-IP` chooses
the identity that is logged and forwarded. One proxy behind the outsider that names
its caller there excludes this, which is the second half of `ClientIsTheFirstOutsider`.

### Bounds, and why they are enough

* Two requests are needed for every race on a permit; the third in `Transport` is the
  straggler that was admitted while the circuit was closed and completes in each of
  its phases. Threshold 2 makes a failure that does not open the circuit and
  one that does. An open period of 2 ticks with a lag of 1 makes every order of
  deadline, stale clock reading and fresh one.
* One reload is enough for every birth of a clone; theorems cover any number. The
  balancer's poll captures its snapshot before it reads the circuit, so that a reload
  can come between the two.
* `Edge` has one request at a time, for requests share only the snapshot here. A
  reload can come at every step of it, and between a preflight and its request; a second one
  brings the first configuration back. The valid configurations differ in everything a request reads:
  tokens exchanged between clients and operations, proxies trusted or not, CORS by
  origin, for everybody and off, limits none, 2 and `MaxInt`, all auth modes, a provider
  with and without key or custom headers. Four more are there for `Valid` to
  reject. `MaxInt = 3` leaves room for lengths below, at and above the limit 2. The chains have
  an outsider at each place; what they forge is an empty, a spoilt and a plausible chain.
  Trusted hosts are honest (`TrustAssumption`): docs/TRUSTED_PROXIES.md asks to
  trust controlled reverse proxies only, and honest means that such a proxy appends its
  caller to `X-Forwarded-For`. What it does with `X-Real-IP` is open: those in `Naming`
  put their caller there, the others pass it on; the chains have both, in either order.
  The browser's part (`PreflightOf`, `Readable`,
  approvals) follows the Fetch standard and is external.
* In `RateWindow` three requests can be admitted, delayed and rejected around a
  window of 6 ticks, two seconds of 3, so that a wait can be rounded up, down and not at
  all. `MaxTime` is one tick short of two windows: admissions, their expiry and what
  was told of it fit. In `RedisWindow` a
  window of 2 and a time to live of 3 keep the code's order (60 s and 61 s), time 3
  lets entries and the key expire, and 2 tries make a command run twice.
* `TokenQuota` needs a straggler with a deleted window, one with a recreated one, and
  a fresh request: 3 requests, 2 reloads. Its runs last less than a minute.
* `Console` has limits below and above the number of entries, and one that means the
  default, with shrinking and growing between additions. Its entries are one of each class that a filter or a counter
  distinguishes. Its sizes are the initial one, a wide, a compact, and a low one
  at whose width the log has more cells than columns were laid out before.
* `FirstStart` needs no bound: the fields are sets, and starts repeat.
* Two start-up settings in `HotReload` are enough for a comparison that forgets one.
* In `RequestBooks` each goroutine meets every path while the other is in any stage,
  and one of them starts again. Three edits add nothing to `HotReload` that two do not: a torn read
  needs one edit before a file is read and one after.

`Redis`, `Books` and `Lifecycle` do not check deadlock: the first two end when their
bound on requests is reached, and the process of the third exits. Quitting the TUI
is `Lifecycle`'s `QuitTui`, so the console of `Console` never stops. `HotReload`
checks it although edits are bounded, since the watcher never stops.

### Fairness, and why the code justifies it

* `Transport`, `Reload`: weak fairness of `Tick` (time passes) and of each request's
  next step once it started (the Go scheduler; a read of a body returns, with data,
  an error, or the cancellation of the request's context). Nobody has to call:
  `OpenIsProbed` has its demand, requests that keep arriving, as a premise. A
  provider without a timeout whose caller never gives up is therefore outside
  `ProbeIsJudged`; this is the meaning of `timeout: 0` in the configuration. A
  reload that started finishes.
* `Reload` adds the balancer's period: it asks again and again and its requests are
  answered. `ReadyAgain` has the same demand as premise, and a provider that
  recovers. A balancer that follows readiness may take the demand away, which is
  what `DrainedStaysUnready` is about.
* `Lifecycle`: `main` goes on, goroutines are scheduled, the deadline of
  `context.WithTimeout` passes, and `http.Server.Serve` returns after its listener was
  closed. Requests may hang for ever.
  Nothing is assumed of the operator in front of the wizard.
* `Console`: a second passes, and the message it sends is handled. Keys, resizes and
  log entries may come or not.
* `HotReload`: the ticker ticks and the watcher's goroutine runs. Nobody has to edit;
  `Converges` speaks of files that come to rest.

## 4. Theorems

All of these hold for every value of the constants, under the assumptions named in the modules
(finite sets of requests, positive defaults, limits with a maximum; for `Edge`,
that trusted hosts are honest, whichever of them name their caller in X-Real-IP, that keys, hosts and clients are told apart by
their values, and what a client or a browser can demand (`JourneysAssumption`)).

| Module | Theorems | Argument |
| --- | --- | --- |
| `ProviderTransport_proofs` | `TypeOK`, `OneProbe`, `OpenForItsPeriod`, `InFlightExact`, `ImplementsContract` | see below |
| `CircuitReload_proofs` | `TypeOK`, `PermitPerSnapshot`, `OrphansAreBorn`, `BornHalfOpenIsFrozen`; of `Readiness`: `SpecReadiness => Spec`, `DrainedStaysUnready` | see below |
| `RateWindow_proofs` | `TypeOK`, `QuotaSpansWindow`, `RetryAfterIsEnough`, `RejectionsAreEarned`; `ExactWindow` where `MaxLag = 0` | see below |
| `TokenQuota_proofs` | `TypeOK`, `QuotaSurvivesReloads`, `QuotaPerRemoval`, `LeftoversAreStragglers` | see below |
| `RedisWindow_proofs` | `SharedWindowExact`, `ChargedForAReason` | see below |
| `Edge_proofs` | `ClientIsTheFirstOutsider`, `UpstreamCarriesOneSnapshot`, `BodyIsWhole`, `ReadableByTheBrowser`, `DomainsApart` | see below |
| `Process_proofs` | of `Lifecycle`: `TypeOK`, `Isolation`, `LimiterOutlivesRequests`; of `FirstStart`: `StartSpec => Spec`, `StartTypeOK`, `SavesWhatWasSubmitted`; of `HotReload`: `WatchTypeOK`, `ServesValid`, `ServesWhatRuns` | see below |
| `Books_proofs` | of `RequestBooks`: `TypeOK`, `GaugesNest`, `ExcusedIsSilent`, `LogsMatchMetrics`; of `LogRing`: `NewestKept`, `KeepsWhatFits`; of `OperatorConsole`: `ConsoleSpec => RingSpec`, `FitsTheScreen`, `ShowsTheSnapshot`, `ListsTheSnapshot`, `SectionsAgree` | see below |

* *ProviderTransport.* `OneProbe` is not inductive: `finish` clears the state only if
  its caller's permit is a probe, so the invariant adds that permits exist only
  in the stages between `allow` and `finish`, that a breaker that is disabled is
  closed, and that the deadline and the history of the open period add up. The gauge
  is a cardinality; each step changes the set by the request that moves. The
  refinement then maps each action to one action of the contract or a stutter.
* *CircuitReload.* The sequence of breakers grows, and each step touches one of them.
  The invariant says, per snapshot, that a permit's breaker is half open and has no
  second holder, and that a half-open breaker has a holder or was born so. The last
  part is what makes the frozen state permanent: leaving it needs a permit. `Readiness`
  only takes requests away (`ReadinessWatches`), so it inherits these invariants. A
  drained gateway has no permit and no exchange, and every step that is left to it keeps the
  current breaker's state.
* *RateWindow.* The retained list is a suffix of all admissions (`RetainedAreNewest`),
  every dropped admission is old for every clock reading still to come
  (`DroppedAreOld`), and readings are at most `MaxLag` old (`LagBounded`). A full
  window that admits therefore dropped the admission one quota back. Without lag the
  instants are in order, and any set of more admissions than the limit within a window would hold two
  that are a quota apart (`WindowHoldsAQuota`): `ExactWindow` follows from
  `QuotaSpansWindow`. `RetryAfterIsEnough`: the
  header differs from the exact wait by half a second at most (`RoundedIsClose`,
  `HeaderIsClose`). At the instant of the exact wait `prune` cannot stop at the first
  retained entry, and one place is free; until the next admission the retained list only
  loses entries, so what was told stays true of it (`TellingKept`).
  `RejectionsAreEarned`: no admission's instant lies more than `MaxLag` before an
  earlier one's (`NearlySorted`), the first retained entry is in the window,
  so all that is retained behind it is in the window but for `MaxLag`.
* *TokenQuota.* Two tokens never share a window, a straggler's window of a token that
  was never removed is the one in the map, and that window's count is the token's
  admissions. For `LeftoversAreStragglers` the invariant adds `CarriedAreKnown`: a request
  between its authentication and the map carries a token that is configured or was already
  under way at the last `Retain`. `QuotaPerRemoval` is about all windows that a token ever
  had: the invariant (`Accounted`) gives every window an owner, takes the admissions of a token
  as entries of the windows it owns, at most `Limit` in each, and has one removal pay for
  every window but the first. A token without a window, or about to lose one, has
  that window still to come (`Owed`), which makes the count inductive.
* *RedisWindow.* An admission that is still within its window has an entry of its own
  in a set that has not expired, with a score no older than the admission (`Recorded`);
  a late second run of its command can only renew that entry. Admissions have
  different members (`MembersDiffer`), so those of a window that holds the present map
  one to one to the entries that the script counts (`NoMoreThanLive`), and a script
  that admits counted fewer than the limit. This needs `Ttl >= Window` and nothing of the
  number of tries or of what is lost. For `ChargedForAReason`: a command nobody waits
  for was sent again or given up (`StragglersAreUnsure`).
* *Edge.* Six parts, each proved from those before it. `Underway`: the stage fits the
  fields, and the snapshot of an arrived request was a valid configuration. `Demanded`:
  what travels is a client's demand, or the preflight of one that the browser remembers.
  `HonestTail`: what honest hosts wrote stands at the end of the claims, whatever others
  forged before it, and X-Real-IP holds one of their callers if one of them writes it;
  with trusted hosts honest, the walk from the right then stops at the last outsider,
  and a malformed chain falls back on a host behind it or, where nobody names its
  caller, on what is not known. `ServedByCaptured`: identity, quota, body and the upstream request
  are functions of the captured snapshot at every stage. `AnswerExplained`:
  status and CORS headers of an answer are what that snapshot says. `ApprovedReads`: an
  approval that the browser holds passed its check. `UpstreamCarriesOneSnapshot`
  then rests on lemmas on `ApplyHeaders` for every type of provider, any custom
  headers and any headers of the client.
* *Lifecycle.* `Isolation` needs that nothing is served before `compose`
  isolates the application's handler (`IsolatedFirst`). For `LimiterOutlivesRequests` the invariant
  (`DrainedInTurn`) says, at each place of `main`'s shutdown, which servers are
  `Quiet`: stopped, with no request under way. A server that was shut down accepts
  nothing more, so what its drain saw stays true while the other one drains, until the
  limiter is closed, unless the deadline both share has expired.
* *FirstStart.* A start leads to `Lifecycle`'s initial states and steps
  (`StartPrecedesLife`), so that its theorems hold behind a wizard too. `SavesWhatWasSubmitted`
  rests on `SubmittedIsComplete`: only `EnterLast` submits, on a complete form,
  and no key reaches the form afterwards. What is written of a form without a special
  field is the form.
* *LogRing and the console.* `NewestKept` is inductive with the types. The console's
  steps are steps of the ring or leave it alone (`ConsoleWatches`). `FitsTheScreen` adds
  that, wherever there is room, rows and columns are those of the size
  (`ScreenFollows`). `ShowsTheSnapshot` says that the screen shows the filter of the
  snapshot, a run of consecutive entries. What the two loops over the snapshot compute, the rows
  (`ShownLists`) and the totals (`SummarizeCounts`), is proved for logs of any length by
  induction on their rounds: the library's induction theorems cannot be instantiated, but
  a set of rounds in which a claim fails has a least element (`UpTo`), and the
  recursive functions have values since every loop of n rounds has (`LoopRuns`). Then
  `ListsTheSnapshot` is a set equation, and `SectionsAgree` compares cardinalities. Both
  need what `EntryAssumption` says of entries: each has a status, a number.
* *HotReload.* The candidate is not a state the disk ever had, so nothing can be
  inherited from the disk's validity: the invariant says which files of the candidate
  have been read and are there (`CandidateRead`), and `SwapCandidate`'s own checks do
  the rest. `ServesWhatRuns` is an induction over the reloads: each candidate agrees, setting by
  setting, with the snapshot it replaces (`Compatible`), so no setting drifts.
* *RequestBooks.* The four books are cardinalities of sets of requests in given stages;
  `Advance` shows that a step that moves one request and changes the books by its
  share preserves all of them, and each action computes its shares. `Shape` relates
  the fields of a request: an excused exchange left an error behind and its client
  does not come back, so `Judge` must find both.

### Model-checked only

Liveness (`OpenIsProbed`, `ReadyAgain`, `ProbeIsJudged`, `StopEnds`, `CatchesUp`, `Converges`)
is out of the prover's reach and is known for the runs' instances only. Every
safety property that a passing run checks, invariant or action property, is also a
theorem. `MaxAdded`, `MaxTime`, `MaxReloads` and the other bounds are constants of the
theorems, which hold for all their values. Type
invariants of the proved modules are theorems and, but for `StartTypeOK`, in no run. The
two violations are TLC's alone: a counterexample needs no instance but its own.

Definitions that the proofs reason about are written so that the prover can see through
them: header maps are changed by `Put`, a function with a domain, not by `@@`, whose
definition hides it; `Shown` and `Summarize` are recursive functions, the loops of
`updateLogRows` and `summarize`, not folds of a library.

## 5. What the models leave out

* Reading the secrets of providers and of Redis in `HotReload`: one more file of the
  same kind each; the URL that a `url_file` holds counts as part of the setting
  `rate_limit`. Everything else `validate` asks is the flag `sound`.
* In `Edge`: validation of URLs, names, durations and prefixes, paths and queries of
  routes, a second value of one header, `Vary` and `Max-Age`, and the limiter, which
  may say anything.
* Custom headers of a provider are any names, and replace what the gateway sets before
  them (`ApplyHeaders` sets them after everything but the key); their values are left out.
* The counters of the provider metrics other than its gauge, and the rendering of
  metrics, which reads the atomics one by one.
* Redis replication: a Sentinel failover may lose the last writes, which
  docs/RATE_LIMITING.md says.
* In the console: the cursors and the scrolling of the table library, the
  configuration page, latencies, routes and the trend, and all drawing. A table is the
  number of its columns and the entries of its rows.
* In the console also: the moment inside `resize` at which a table has its new columns and
  still its old rows (`internal/tui/model.go:286-305`). Only the table library draws in it.
* In `Lifecycle`: requests that begin on a kept-alive connection after `Serve` returned
  and before `Shutdown` closed the connection.
* How many clients leave during the call to Redis, whose failure counts as the backend's
  (`gw/gateway.go:291`): `LimiterFails` does not ask for the reason.
* In the wizard: the characters of a field; a field is blank or not, special or not.
* Panics and the loss of the process while it serves.

## 6. Order of work

Done: the breaker with its contract, reloads of circuits, readiness over them, the two
limiters, the map of windows, the log ring, the request's books, the lifecycle with its
first start, the hot reload of files, the operator's console, and the edge: one request
from its client's host to its provider.

Next, in this order:

1. The revocation of a client: `resolveSecretFiles` reads the files of disabled
   clients as well (`internal/config/config.go:364`), so disabling a client and deleting
   its file makes every reload fail, while docs/RATE_LIMITING.md:102 calls the enabled
   state hot-reloadable.
2. Health labels: the provider counters next to the breaker, which two critical
   sections update in either order.

## 7. Not modelled

| Part | Why |
| --- | --- |
| Tracing and telemetry | spans on the side; no state of GemGate depends on them |
| Health labels | sums and a streak of counters, rendered; planned (2) |
| Cursors and drawing of the TUI | the table library's, and layout |
