# Formal models of browser-env-sandbox

TLA+ models of the sandbox - its concurrent core, its network, and what gives
its sessions their identity - checked with TLC, and theorems about them, checked
with TLAPS. The models are translated from the Go
sources; documentation and comments are used only for what the code is *meant*
to do. All source paths below are relative to the repository.

Contents

1. [The system](#1-the-system)
2. [Modules and the code they model](#2-modules-and-the-code-they-model)
3. [Runs, bounds and what they show](#3-runs-bounds-and-what-they-show)
4. [Fairness](#4-fairness)
5. [Theorems](#5-theorems)
6. [Disagreements between code and comments](#6-disagreements-between-code-and-comments)
7. [Reached by the models, asserted by nobody](#7-reached-by-the-models-asserted-by-nobody)
8. [What is not modelled](#8-what-is-not-modelled)
9. [Plan](#9-plan)
10. [How to run](#10-how-to-run)

## 1. The system

The sandbox runs JavaScript of untrusted pages in V8 (through v8go) inside a Go
process and gives it a browser environment. Clients reach it over HTTP (bridge),
CDP, MCP or the Go API. The parts, their state and how they meet:

| Part | State | Operations | Meets | Hard because |
|---|---|---|---|---|
| **Session lifecycle** `internal/sandbox/engine.go`, `advanced.go` | `disposed`, `mu`, `execWG`, `ctx`, the V8 Locker of `iso` | Eval, EvalAwait, LoadScript, EvalRaw, RunPrecompiled, SwapFingerprint, DrainWorkerCallbacks, Dispose | runs callbacks of timers, workers, sockets; gives the isolate back to the pool | callers, execution goroutines and Dispose share one V8 context with two locks of which V8's is invisible to Go; three timeouts give up on each other |
| **Isolate pool and engine** `isolate_pool.go`, `engine.go` | a buffered channel of isolates, `closed` | Get, Put, DisposeAll, CreateSession | sessions | `Put` tests and sends in two steps |
| **Event loop** `timers.go`, drain loop of `engine.go` | timer entries with stop channels, callback queue of 256 | setTimeout, setInterval, clear, scheduleTimer, DrainCallbacks, Flush, StopAll | every delivery from Go to JavaScript goes through it | one goroutine per timer, unsynchronised flag, bounded queue that drops, loop ends on two counters read apart |
| **Web Workers** `worker.go` | registry, two mailboxes of 64 per worker, worker isolate | constructor, postMessage, terminate, close, disposeAll | posts to the parent's event loop | `terminate` waits with timeouts and then frees an isolate that may be running |
| **WebSocket bridge** `websocket.go` | connection and write lock, send queue of 64, closed flags | constructor, send, close, reader, writer, terminate, disposeAll | posts events to the event loop, re-enters `Session.mu` | two sides close at once; writes block with the lock held |
| **Bridge service** `internal/bridge/service.go`, `server.go` | registry, reference counts, broadcasters | create, acquire/release, CloseSession, janitor, SSE subscribe, shutdown | Session.Dispose | several owners may want to tear one entry down |
| **HTTP/2 and TLS client** `internal/netlayer/h2client.go`, `utls_client.go` | connection, frame loop, two flow control windows | Request: dial, proxy, handshake, HTTP/2, fallback to HTTP/1.1 | network handler | a hand-written frame loop against any server; a retry must not repeat a request |
| **Requests, navigation, cookies** `browser_env.go` 1265-1815, `internal/nav`, `netlayer/handler.go`, `cookie_store.go` | the session's cookie store, the handler's cookie jar | fetch/XHR, top-level navigation over redirects, document.cookie, SetCookie | TLS client below, event loop above | goroutines of several requests interleave over two stores |
| **Identity** `engine.go` 497-653, `browser_env.go`, `worker.go`, `netlayer/chrome_fingerprint.go` | `s.fp`, closures over the first fingerprint, page globals, TLS profile | create, SwapFingerprint, header derivation, ClientHello | requests, navigation, workers | one fingerprint is copied to many places at creation and replaced in some of them later |
| **Fingerprint data** `internal/fpupdate`, `fp_data_loader.go`, `device_profile_loader.go`, `canvas_dataset.go` | two files, three caches | check, download, write, reload, load | fingerprint engine | no atomic replacement of files; reloads race loads; failures, crashes and restarts between the writes |
| **Fingerprint engine** `internal/fpengine` | the loaded distributions | generate, validate | sessions, batches | joint and flat samplers must agree on dozens of fields that a page can compare |
| **Batches of sessions** `session/correlate.go`, `fpdistance.go` | admitted fingerprints | Admit, GenerateDistinct, Reset | fingerprint engine | concurrent creators; weighted distance with a hard cap |
| **Profile store** `session/profile.go`, profile calls of `service.go` | one JSON file per profile | save, load, delete, resume | bridge, sessions | overwritten in place; read in several steps |
| **CDP server** `internal/debug` | request queue of a client, debugger state of a session | reader, process loop, breakpoints | sessions | bounded queue whose reader may go away; lazily made shared state |
| Address filter, proxy health, captcha, MCP, commands, SDKs | - | - | - | sequential or pure |

What makes each modelled part correct:

* session: no JavaScript runs in a closed context; an isolate goes back to the
  pool only when nothing of the session can touch it any more; every evaluation
  returns although scripts may loop and native callbacks block, and so does every
  Dispose, unless a socket's peer has stopped reading (section 6);
* pool: an isolate has one owner, is never disposed in use, and only a Put that
  races DisposeAll loses one;
* event loop: every one-shot callback runs once, was cancelled, or was dropped by
  a full queue or a finished loop, and is in exactly one place until then; stop
  channels are closed once; goroutines end; an interval does not pin an evaluation;
* worker: a terminated worker's goroutines end, a running one can be found by
  somebody who will terminate it, `terminate` returns (but it may free an isolate
  in use, section 6);
* WebSocket: nothing after a close event that was handled, messages in order, no
  goroutine stuck but behind a peer that does not read, frames readable;
* bridge: one teardown per session, none lost, no operation starts on a claimed
  session, streams end;
* network: flow control never stalls a response, a request is written once, no
  connection leaks, a body arrives whole; cookies stay in their scope (but for
  hosts that are addresses, section 6) and follow redirects; redirect loops end;
* identity: one visitor could have sent all requests of a session, with their
  headers, handshakes and HTTP/2 prefaces, and could run its workers; until the
  fingerprint is swapped it is the one the page shows;
* fingerprint data: both files are of one version unless an update was cut short
  between them, an update arrives in the end, and only a load that had already
  read the old data undoes a reload;
* fingerprint: what a page can compare is of one device and of the system
  asked for, but for the GPU's vendor (section 6); two sessions of one batch are
  two devices;
* profiles: what one request saved stays until it is saved again or deleted, and
  comes back at the same place with the same seed;
* CDP: replies answer the requests of their connection in order; breakpoints stay.

`PROJECT.json` lists the hazards behind these properties line by line.

## 2. Modules and the code they model

```
SessionContract  <-- implemented by --  Session      (SessionProofs)
      ^                                   |  MCSession
      | sessions take its steps           |
    Engine (EngineProofs)                 | runs callbacks of
                                          v
   Worker, WebSocket, SessionNetwork --> Timers      (TimersProofs)
      post their events to                           Worker: SessionProofs
   WSFrame: the bytes of WebSocket's frames          (WebSocketProofs for both)
   BridgeService: calls Session.Dispose as one step  (BridgeProofs)

FlowControl  <-- implemented by -- H2Client          (H2ClientProofs)
CookieStore  <-- used by ------- SessionNetwork      (SessionNetworkProofs)
                                   its Send .. Answer is H2Client's exchange
ChromeHello  <-- used by ------- SessionIdentity     (SessionNetworkProofs)

FingerprintNetwork --> Fingerprint  one generation from a published network
FingerprintData                     its files, caches and reloads
CanvasDataset                       a third cache
Correlator + FingerprintDistance = SessionBatch
ProfileStore                        (FingerprintProofs for the last four)
CDPServer                           a client of sessions (BridgeProofs)
```

Parts that share no state in the models are checked side by side in one run: the
`MC` module has a variable `part` that says which of them a behaviour explores,
while the others stay in their initial states.

| `MC` module | Parts |
|---|---|
| `MCSessionParts` | Session, Worker, CDPServer |
| `MCEngine` | Engine, FingerprintData, CanvasDataset, SessionBatch, Fingerprint, ProfileStore, Timers |
| `MCNetwork` | SessionNetwork, SessionIdentity, H2Client, BridgeService |
| `MCWebSocket` | WebSocket, WSFrame |

Modules that meet in one of them name what they share in kind (an initial
predicate, the tuple of variables) after themselves: `TimersInit`, `flowVars`,
`ServiceNext`.

**Session** (`engine.go`, `advanced.go`). `disposed`, `mu`, `execWG`, `ctxOpen`
are the fields; `locker` is V8's Locker, which a thread takes at the entry of
RunScript and keeps through native callbacks; `terminate` is the sticky request
of `TerminateExecution`. `pc` is where a caller stands, `exec` where the
goroutine of EvalAwait stands, `v8` where a thread stands relative to V8. A
critical section of `s.mu` that only touches fields is one step; the entry
points that keep `s.mu` across RunScript take and drop it in different steps.
Dispose is six steps: flip, TerminateExecution, teardown, bounded wait, Close,
Put. The teardown of workers, sockets and timers is one step that need never
happen: a socket's `closeRaw` may wait for ever. JavaScript is what the session can tell apart: it runs, is in a blocking
native callback, is in the callback that re-enters `s.mu`, or has ended.

**SessionContract** is the abstract session: work enters while it is live, the
context closes when the last user has left, the isolate returns after that.
Session implements it (users are the admitted calls), and **Engine** composes
any number of sessions that take its steps, which is an assumption there and
`SessionKeepsContract`'s result for one session, with one pool
(`isolate_pool.go`), where `Put` is two steps against `DisposeAll`. The history
variable `raced` has the sessions whose Put tested `closed` before DisposeAll
set it and sent afterwards.

**Timers** (`timers.go`, `engine.go` 300-396). A timer goes through its
goroutine (armed, checked, sent), the queue, and the hand of an evaluation.
`entry.stopped` is read by the goroutine without `tm.mu`: the model takes the
test and the send as two steps, so that the flag may change in between. The two
counters that end the loop are read in two steps, after the count of pending
requests, which a script raises (`xhr`) and the callback with the answer lowers.
A script that fails (`ScriptFails`) leaves its timers behind and runs no drain
loop. A queue that is full drops the callback, as `select ... default` does.

**Worker** (`worker.go`). Creation is the steps of `createCb`, with registration
after the goroutines started; the mailboxes are bounded sequences of envelope
types; `terminate` waits twice, and each wait ends with what it waits for or
with its timeout.

**WebSocket** (`websocket.go`). One connection with its read and write
goroutines, the events each schedules (a set: every event has a timer goroutine
of its own, so their order is lost), the JavaScript class that receives them,
`close()`, `terminate` and `disposeAll`. Every frame, of the write goroutine, of
`close()` and of the reader's pongs and echoes, is written in two steps with the
lock held between them, because `raw.Write` may block (`InWrite`). The receiver
of a socket is deleted after its `onclose` handler; one that throws keeps it
(`HandlesClose`). **WSFrame** has the header bytes of `writeFrame` and `readFrame`
of the bridge and of the CDP server, with a standard peer at the other end, and
one that announces a length beyond any memory.

**BridgeService** (`service.go`, SSE part of `server.go`). Registry, reference
counts, CloseSession and the janitor, which claim an entry and tear it down in
two steps, subscribers, and Service.Dispose, which keeps the lock.

**FlowControl** is the arithmetic of one response in Integers: what
`requestH2` announces, what `readH2Response` charges and refills, what the
server believes. **H2Client** adds everything around it: dialling, each kind of
proxy, the handshake, the fallback to HTTP/1.1, the frames in both directions
and an arbitrary server, whose half is external to the repository.

**CookieStore** (`cookie_store.go`) is operators on a set of cookies; a host is
the sequence of its labels from the last one on, so that the suffix test becomes
a prefix test; some hosts are `Addresses`, which the code does not tell apart.
**SessionNetwork** is the goroutines behind fetch, XHR and
navigation: headers from the session's store, the handler's jar as a fallback,
Set-Cookie lines into the jar and then into the session's store, one line at a
time, and the next hop.

**ChromeHello** (`netlayer`) is pure: the ladder of Chrome releases, the way from
a fingerprint's version to an entry of it, the ClientHello and the HTTP/2
preface. `HandshakeOf` is the reference definition that it is checked against.
**SessionIdentity** follows a fingerprint through a session: CreateSession copies
it to the page's globals, to the closures that derive headers (`captured`), to
the TLS target, and from there to each new worker; SwapFingerprint replaces
`s.fp` and overwrites those surfaces of the page that its script reaches, in
order, possibly ending early. The precedence of header values (script, reserved
`_bes_*` header, session field, derivation, extra headers) is `SubresourceHeaders`;
navigations have their own. A server sees what the client makes of them
(`OnTheWire`): a request without Accept-Language goes out with `zh-CN,zh;q=0.9`.

**FingerprintData** is the updater (`Check`, `Query`, `Fetch`, then truncation
and write of each file), the daily loop of `bes-server`, a load as the steps
look, read and store, the sticky device profiles, generators that use both, and
a fault model: failures of every step, restarts. **CanvasDataset** is the
snapshot and the `sync.Once` behind two atomic pointers; two reloads may overlap.

**FingerprintNetwork** translates the two parsers over abstract User-Agents and
distributions, **Fingerprint** the way from the parsed data to one served
fingerprint: joint profiles, else the flat lists, the builders with their
defaults and clamps, and `ValidateConsistency`. A draw of the seeded generator is
a choice among the outcomes that have a weight.

**Correlator** is the registry and concurrent `GenerateDistinct` calls over an
abstract relation `Far`; **FingerprintDistance** is the six dimensions and their
weights, in hundredths; **SessionBatch** puts them together.

**ProfileStore** is save (two reads of the session, then truncation and write),
load, delete (which may unlink a file that is being written), resume, and
crashes. **CDPServer** is the reader goroutine, the bounded queue and the process
loop of each connection, and the debugger state they share.

## 3. Runs, bounds and what they show

Every passing run explores its state space completely. `MC*` modules only give
values to constants (and symmetry sets where the properties are safety).

| Run | Instance | Shows |
|---|---|---|
| `session` | one call of each kind (EvalAwait, LoadScript, SwapFingerprint, DrainWorkerCallbacks, Dispose) | `SafetyInv` (the inductive invariant), `GuardedNoUseAfterClose`, `KeepsContract`, `CallsReturn` |
| | two workers, mailboxes of one, two envelopes per side of one of them | `TerminateReturns`, `StoppedWorkersEnd` |
| | two DevTools connections to one session, queue of one, two and one requests | `DevToolsToldRight` |
| `engine` | three sessions, two users, three isolates, a pool of two | `IsolateExclusive`, `IsolateAccounted` |
| | two published versions, two faults, one generator with two legacy loads | `FilesAgree`, `ReloadTakesEffect`, `MarkerArrives` |
| | two lookups, two editions, two reloads that may overlap | `LookupsSeeTheReload` |
| | two creators, two attempts each, one Reset, three fingerprints of which two have one device core | `SessionsApart`, `OneSessionPerDevice` |
| | three networks (rich, poor, blank), eight requests, both sides of every filter | `FingerprintsHoldTogether` |
| | one profile, two requests, two versions of the data, one crash | `SavedProfilesResume` |
| | a one-shot, a request's answer, an interval, one evaluation, a queue of one | `EntryInv`, `OneShotAccounted`, `IntervalsDontPin`, `GoroutinesEnd` |
| `websocket` | one socket, two drain loops, a send queue of one, two messages out, one in | `CloseIsLast`, `SentInOrder`, `NeverStuck` |
| | all opcodes, lengths around 0, 125, 126, 65535, 65536, in both directions of both servers, and lengths of 2^56 and more on both sides of the sign | `FramesReadable` |
| `network` | a fetch and a navigation with one redirect; a host, its subdomain and an address; five lines; one cookie set by script or API | `CookiesInScope`, `HopsCarryCookies`, `RequestsEnd` |
| | three fingerprints, two calls, a navigation with one redirect, a worker, one swap | `OneVisitor` |
| | windows of 3 (stream) and 2 (connection), bodies to 4 bytes, frames to 2, every proxy kind | `NoStall`, `WireMatchesAccounts`, `SentOnce`, `NoConnLeaks`, `AnswerIsWhole`, `Delivered` |
| | two sessions, an operation, a closer, a subscriber, the janitor, shutdown | `RegistryInv`, `NoLateStart`, `TeardownCompletes`, `StreamsEnd` |
| `session_locks` | LoadScript, EvalAwait, Dispose; all scripts end | violation of `NeverDeadlocks` |
| `worker_isolate` | the workers of `session` | violation of `IsolateIsFree` |
| `frames_long` | the frames alone | violation of `ClientFramesReadable` |
| `h2_ends` | bodies to 2 bytes | violation of `StopsAtEndStream` |
| `live_ref` | one session, an operation, a closer | violation of `UsableWhilePinned` |
| `profile_resume` | one profile, one request, one version of the data | violation of `ResumedAsSaved` |
| `hot_reload` | FingerprintData with one fault | violation of `HotReloadReachesProfiles` |
| `identity` | SessionIdentity as in `network` | violation of `WorkersMatchSession` |

The violations are what section 6 is about. What a property leaves out is in its
comment; the cases that the code decides otherwise than its comments say are
listed in section 6 as well, whether or not a run shows them.

Why these bounds are enough to be worth something:

* *session*: the interplay is pairwise (a thread against Dispose, a thread
  against the Locker's owner), and every kind of owner is present. More calls
  of one kind are covered by the theorems, which hold for any sets; liveness with
  two evaluations or two Disposes was explored as well (180 000 to 205 000
  states, no error) but is too slow for the regular run.
* *timers*: a queue of one is full after one callback, so the drop, the wait and
  the race with StopAll all occur, also for the answer of a request; an interval
  ticks twice (`TickBound`).
* *engine*: more sessions than isolates that fit the pool, so that Put meets the
  full, the closed and the free channel.
* *workers*, *websocket*: queues of one fill at once; two workers tell the
  registry's iteration from a single entry, and one that exchanges nothing is
  enough for that; two drain loops are what it takes to reorder events.
* *fingerprint data*: two versions are an old and a new one; two faults are a
  failed repair of a failure; every order of one update with one load and one
  generation occurs. The proofs hold for any number of each.
* *batches*: two creators that race and a Reset between them; the fingerprints
  are two of one device core that differ in all else, so that only the cap keeps
  them apart, and one of another GPU.
* *fingerprint*: every browser and system class of the parsers, entries that are
  garbled, zero, out of range or missing in each dimension, a screen that
  contradicts itself, and requests that can and cannot be satisfied.
* *profiles*: two requests overlap in every step; two versions of the data tell a
  resumed fingerprint that is the same from one that is drawn anew.
* *DevTools*: the queue is full after one request; the second connection comes,
  goes and sets a breakpoint while the first is served.
* *identity*: a release below the first entry of the ladder, one past the last and
  above the threshold of the post-quantum schemes, and a version that is no
  number; one browser that sends no client hints.
* *HTTP/2*: the body exceeds every window, so at least one refill of each is
  needed; padding comes on top of it; the
  client's and the server's view of the connection window start at different
  values, as in the code.
* *network*: `MaxHops = 1` has both a followed and a refused redirect. A line of
  each kind that the code tells apart: host-only, Domain, Path, Secure, and two
  Domains that are accepted from one of the hosts only, the subdomain and the
  address.
* *frames*: the format changes at 126 and 65536; `Lengths` has both sides of
  each, and a frame just above the CDP server's limit is refused. Lengths between
  2^32 and 2^56 are left out: the CDP server refuses them as well, and whether the
  sandbox's reader can allocate them depends on the machine.

Named bounds: `TickBound`, `PostBound`, `SendBound`, `MsgBound`, `Body`,
`MaxFrame`, `MaxFrames`, `WriteBound`, `HopBound`, `SwapBound`, `MaxVersion`,
`MaxFaults`, `LegacyLoads`, `MaxEdition`, `MaxReloads`, `MaxResets`, `Offsets`,
`MaxData`, `MaxCrashes`; `QueueCap`, `MailboxCap`, `SendCap`, `QueueSize`,
`PoolSize`, `MaxHops`, `MaxAttempts`, `SeedSpace` and the windows are the code's
own limits, made small.

Deadlock is not checked where a run's clients may simply stop calling, which is
everywhere except in `h2_ends` (an updater and a loader may also have nothing left
to do); that nobody waits for ever is stated by the
liveness properties and by `NeverStuck` instead.

Each property has a mutant: a definition next to the original that changes it
the way a plausible bug would (`DisposeAwaitedNobody`, `EndHopEarly`, ...). Under
the mutant the property fails.

## 4. Fairness

* Go runs every runnable goroutine, and runtime timers fire: weak fairness of the
  steps of a goroutine once it has started. Nobody is obliged to *make* a call.
* `s.mu` is a `sync.Mutex`; its starvation mode serves waiters in order, so
  acquiring it is strongly fair.
* Nothing is assumed of scripts, native callbacks and the teardown of sockets in
  `FairSpec` of Session: a script may loop, a callback may block for ever, and so
  may `DisposeTeardown`, where a socket's `closeRaw` waits for a lock that
  `raw.Write` holds. V8 honours a termination
  request (`ScriptTerminated` is weakly fair) as long as the script is in
  JavaScript. `CallsReturn` (evaluations, and Dispose but for its teardown) is
  conditional on `s.mu` coming free again and again (`MuComesFree`), because
  LoadScript keeps it for as long as its script runs.
* `BenignSpec`, for `session_locks`, assumes in addition that scripts, callbacks
  and the teardown end: the violation does not depend on a misbehaving script or
  peer.
* Timers: the Locker is handed on in the end (strong fairness), scripts return,
  and requests are answered or fail; the 30 s deadline is *not* fair, so what
  terminates does so without it.
* Worker: scripts need not end; the two-second waits elapse. What
  `StoppedWorkersEnd` says of the loop is conditional on its script coming back.
* BridgeService: operations and Session.Dispose return; clients need not
  disconnect, idle time need not pass.
* H2Client and SessionNetwork: a proxy, TLS peer or server answers or hangs up,
  and a server sends while its windows let it. The 30 s deadline of the frame
  loop is not fair. The assumption is needed: the proxy dialogue, the handshake
  and the body of an HTTP/1.1 response are read without a deadline.
* FingerprintData: the ticker checks again and again, and the updater's goroutine
  goes on; failures are bounded, and the registry need not
  publish. Generators need not go on.
* CDPServer, CanvasDataset, Correlator, ProfileStore, Fingerprint and
  SessionIdentity have safety properties only: whether a call ends depends on a
  peer or is a matter of its own bounded loop.
* WebSocket has no liveness property. `NeverStuck` is an invariant: unless a
  `raw.Write` is waiting for a peer that does not read, somebody can move.

In the runs of several parts the fairness of a part is asked only of its own
behaviours: where it could apply to the others (H2Client's dial, the updater's
ticker), it names the part. Where a property says that something comes to an end,
it is stated as `[]<>` of its end (again and again, nobody is on the way), which
for what happens once is the same as "leads to" and cheaper to check.

## 5. Theorems

All of them hold for every value of the constants that satisfies the named
assumptions. The bounds of the runs are constants of the specifications, which the
theorems hold for all values of. Every safety invariant and
every action property that a passing run checks is the subject of a theorem; of
`NeverStuck` it is the part about guards (below). Where an invariant is not inductive, the module
states the one that is; each of those was an invariant of a TLC run before it
was proved.

**Session** (`SessionProofs`, assumption `CallsAreDistinct`). `SafetyInvariant`:
`SafetyInv` is inductive. That no thread is in a closed context is not inductive
by itself: one needs that `execWG` counts exactly the goroutines that may touch
V8, including those abandoned by a caller (`ExecWGCountsLive`), that whoever is
in V8 is counted or holds `s.mu` (`Admitted`), what Dispose knows at each step
(`DisposeKnows`) and that a closed context gets no new user (`ClosedForGood`).
From it: `GuardedCallsAreSafe`, `PooledIsolateIsIdle` (an isolate in the pool has
no admitted call of its old session left), `ExecWGIsExact`, and
`SessionKeepsContract`, the refinement. Of SwapFingerprint and
DrainWorkerCallbacks, which do not check `disposed`, nothing of the kind is true
(section 6).

*The two locks of a session.* What the run `session_locks` finds is characterised
by two theorems. `Deadlocked` says that the holder of `s.mu` is in a script that
asks for `s.mu` again, or waits for the Locker of such a script. It is for ever
(`DeadlockIsForEver`: no timeout, TerminateExecution or Dispose undoes it), and
it is the only one (`OnlyReentryDeadlocks`: otherwise the holder, or the thread
that has the Locker it waits for, can go on). The invariant is `LocksInv`:
`SafetyInv`, that a thread has the Locker exactly while it is in V8, that the
holder of `s.mu` is in its script or waits for the Locker to run it, and that an
evaluation has no goroutine before it is registered.

**Workers** (`SessionProofs`, assumption `WorkerConstants`). `WorkersAccounted`.
The inductive `WorkerIInv` adds that disposeAll has nothing to do before it
begins, and what each of terminate's two waits knows when it ends: with the
goroutine gone, or with its timeout, which is the only way JavaScript can still
run in a terminated worker (and the way that `worker_isolate` shows). `WorkersAreTerminatedOnce`: the creating script,
`worker.terminate()` and disposeAll never terminate the same worker, because each
takes it out of what the others can find first, so that the `sync.Once` never
has a second caller; and disposeAll begins the next worker when the last one is
terminated (`FoundOnce`).

**Engine** (`EngineProofs`, assumption `EngineConstants`). `PoolInvariant`
relates the pool's channel, the isolates in a Put, the held and the disposed
ones; from it `IsolatesAreExclusive`, `NoDeadIsolateInUse`, `ScriptsAreIsolated`.
`OnlyRacedIsolatesAreLost`: no isolate goes missing, and those that stay in the
drained pool were put there by sessions in `raced`. That the sessions of Engine
behave as they do is `SessionKeepsContract`.

**Timers** (`TimersProofs`, assumptions `TimersAreDistinct`, `BoundsAreNumbers`).
`EntriesConsistent`: entries, stop channels and goroutines agree, and a stop
channel is closed once (`EntryInv`); `StopAllReachesEveryTimer`: after StopAll
every timer has been told to stop. `CallbacksAccounted`: each one-shot callback
is in one place (`Whereabouts`). The places are a goroutine, a position of the queue, a hand of
a drain loop; the invariant `PlaceInv` says for each callback which of them it
is in, and that a hand is empty outside the step between receiving and running.
What moves under it is the queue, whose positions shift with every receive
(`EnqueueOne`, `ReceiveHead`). `GoroutinesWindDown`: the goroutine of a timer that
fires once, and every goroutine after StopAll, can always take its next step and
has at most `StepsLeft` of them.

**HTTP/2** (`H2ClientProofs`, assumptions `WindowsAssumption`:
`InitialWindow <= ConnWindowUpdate + 2 * DefaultWindow`, which all rows of
`chromeFingerprintLadder` satisfy, and `RequestAssumption`). For FlowControl the
invariant says that a server's window plus what is on its way in both directions
equals the client's count, shifted for the connection by what the client
miscounts at the start: `AccountsAgree`, `ServerNeverStalls`,
`WindowsNeverOverflow`; `ImplementsFlowControl` carries them to the frames of
H2Client (`H2NeverStalls`). `WireIsAccounted` is the other half of that
refinement: the frames in both directions add up to the counters. It is a
statement about sums of sequences of any length, proved from two lemmas on what
a number more at the end or less at the beginning does to a sum (`TotalAppend`,
`TotalTail`), and these by induction (below). `NoFrameIsHeldBack` follows: the
counters' guards never stop the frame loop. `AnswersAreWhole` needs what is under
way (`ResponseInv`): the body is with the client, in DATA frames or with the
server (`BodyAccounted`); the frame that ends the stream is the last one and the
server has nothing left (`EndComesLast`); a CONTINUATION is right behind its
HEADERS (`BlocksAreWhole`), and a complete header block before the first DATA
frame (`HeadersFirst`). `OnlyHeadersEndUnseen` adds that an end announced by a
DATA frame is never missed (`EndNotMissed`), so that HEADERS are the one cause of
what `h2_ends` shows. `RequestSentOnce` and `ConnectionsClosed` come from where
the client is.

**Requests and cookies** (`SessionNetworkProofs`, `NetworkAssumption`).
`NetworkInv` says that a stored cookie still tells what its server asked for
(`Faithful`), that a header holds only what may be sent to its URL, and that the
session's store has every line a response has gone through, which storing
other cookies never undoes. From it `CookiesStayInScope` and
`HopsCarryTheirCookies`. `SendableIsInScope` shows that the code's test and the
standard's rule coincide on faithful cookies, unless the cookie has a Domain and
one of the hosts is an address (`SharesNumbers`), where they do not (section 6). `RequestsComeNearer`: the hops, the
stages of a hop and the lines of an answer that are left, in this order, decrease
lexicographically with each step of a request and with none of another.

**Identity** (`SessionNetworkProofs`, assumptions `IdentityConstants` and
`EveryPrintSpeaks`: every fingerprint has languages, as all generated ones do,
since a request without Accept-Language is sent with the client's own).
`HandshakeFitsVersion`: for every version, the ladder of profiles ends at the
ClientHello of the reference definition. `OneVisitorOnly` names the visitor: it
is the fingerprint that the closures captured when the session was created
(`IdentityInv`), for which the client was made, and which no swap replaces; until
the first swap the page shows it too (`PageInv`).
`WorkersMatchUntilASwap` is what remains of the property that `identity` refutes:
before the first swap every surface of the page shows the captured fingerprint
(`PageInv`), and a worker made then reports it.

**Fingerprint data** (`FingerprintProofs`, assumption `DataConstants`).
`DataInvariant` relates what the updater has written so far to the two files, the
cache to the file it was read from, and every load in progress to the last reload:
neither `FilesAgree` nor `ReloadTakesEffect` is inductive alone, because both
depend on what a step between two writes, or between read and store, still
remembers. From it `FilesAgreeAlways` and `ReloadAlwaysTakesEffect`.
`LookupsAlwaysSeeTheReload` bounds the age of the published snapshot and of what
a lookup is about to publish (`CanvasInv`). `ProfilesResume`: what a request read
stays what was trusted until the session is made from it (`ProfileInv`); of the
fingerprint it says what the code passes on, the seed.

**Batches** (`FingerprintProofs`, assumptions `CorrelatorConstants`,
`BatchConstants`, `FarIsMeasured`, `ThresholdTellsDevices`). `SessionsStayApart`,
for any relation `Far`, symmetric or not: what a session of the current batch
holds is in the registry, and the candidate that is admitted was compared with
all of it in the same critical section. `OneDevicePerSession` says what the code's
distance makes of that. It is arithmetic about `FingerprintDistance`: every
dimension lies between 0 and `Scale`, a shared device core caps the sum at
`HardLockCeil`, which the threshold exceeds (`OneCoreIsClose`), and another GPU
alone reaches it (`OtherGpuIsFar`). The assumptions are that every fingerprint
has a canvas, a renderer and fonts without duplicates, as all generated ones
do, and `HardLockCeil < MinDistance <= Weights.webgl * Scale`, as with the
default options; with a lower threshold one device core may serve two sessions,
which is what that option then asks for.

**Fingerprints** (`FingerprintProofs`, assumptions `GenerationConstants` and
`PublishedNumbers`: published lengths and sizes are not negative).
`ServedIsOneDevice`, for every published network, every draw and everything that
may be asked for: the fingerprint that is served hangs together. The inductive
invariant `GenerateInv` follows a generation: what the parser kept of a
User-Agent fits its system (`EntryInv`), the joint profile that was drawn is of
one device and of what was asked for (`DeviceInv`), and the builders keep that
(`Built`). It shows that `ValidateConsistency` decides one thing only, whether
a screen's available height exceeds its height: everything else that it tests
holds by the way a fingerprint is built.

**Bridge** (`BridgeProofs`, assumption `ServiceConstants`). `RegistryHolds`: by
session, who has it (the registry, one claimer, nobody) together with the
operations that pin it, of which there are finitely many, so that `refCount` can
be their number (`BridgeInv`). `NoOperationStartsLate` is the action property
that follows from it. `TeardownsKeepTheirDuties`: no step of anybody makes a
teardown forget a session it has claimed, or the streams it has to end
(`DutiesKept`).

**CDP** (`BridgeProofs`). `DevToolsAreToldRight`: per connection, the replies
written, the request being served, the queue, the one in the reader's hand and
those still unread on the wire line up, in this order, to what the client asked
for, as long as the handler is there (`LineInv`, a part of `LinkInv`); the
debugger's numbers never exceed its counter, so that a new one is new
(`BreakpointInv`).

**WebSocket** (`WebSocketProofs`, assumptions `SocketConstants`,
`FrameConstants`). `CloseComesLast` needs when JavaScript has an object to receive
events with: a receiver has seen no close but such whose handler threw, and one is
missing only before the constructor has returned, when nothing was seen, or once
`readyState` is CLOSED (`CloseInv`). The type invariant is
inductive only together with what the writer holds while it waits for the write
lock, a message (`WriterHolds`).
`MessagesKeepTheirOrder`: what is on the wire, in the writer's hand and in the
queue is strictly increasing (`OrderInv`). `FramesAreReadable` is arithmetic on
bytes: what `writeFrame` divides, `readFrame` multiplies together again, for
lengths below 2^32 (the assumption; the upper four of the eight bytes are then
0, which is how the model writes them). Of lengths of 2^56 and more it says which
reader panics (`OverlongHeader`). `LongClientFramesAreMisread` is its
counterpart for the frames of the sandbox: from 126 bytes on not one is read with
the length it has, whatever the opcode.
`SomebodyAlwaysCanMove` and `BridgeWindsDown` say together that a bridge that was
told to stop comes to rest. The invariant `StuckInv` ties who waits to who can move: who holds
the lock of the connection is inside `raw.Write` (`InWrite`), a reader that saw the
end has closed the raw connection, Dispose awaits a bridge only once it was told
to stop. `Work`
counts what each part still has to do, and every step of one of them makes it
smaller.

*Induction.* The library's induction theorems take an operator as a parameter,
which the provers cannot instantiate. `SetInduction` (in `H2ClientProofs`) is
induction for a *set* of natural numbers, proved from the library's minimality
theorem for well-founded relations; with it `RunningAddsUp` shows that the
recursive function behind `Total` is what its definition says, and `SumsAgree`
that sums of equal stretches are equal.

*Model-checked only.*

* Liveness (`CallsReturn`, `TerminateReturns`, `StoppedWorkersEnd`,
  `IntervalsDontPin`, `GoroutinesEnd`, `MarkerArrives`, `TeardownCompletes`, `StreamsEnd`,
  `Delivered`, `RequestsEnd`): with fairness it is out of the prover's reach. Of
  three of them what does not need fairness is proved: `GoroutinesWindDown` of
  `GoroutinesEnd`, `TeardownsKeepTheirDuties` of `TeardownCompletes` and
  `StreamsEnd`, `RequestsComeNearer` of `RequestsEnd`.
* `NeverStuck` of WebSocket is an invariant over ENABLED, which the prover cannot
  expand. `SomebodyAlwaysCanMove` proves it of the guards; that these are the
  guards of the steps is what the run checks.
* The properties that the runs of section 6 show violated.

## 6. Disagreements between code and comments

Shown by a run that finds the property violated:

* `session_locks`: LoadScript, EvalRaw and RunPrecompiled keep `s.mu` across
  RunScript. A script that calls `WebSocket.close` re-enters `s.mu` through
  IsDisposed on the same thread and waits for itself, and Dispose waits behind
  it. The comment of Dispose says that it never deadlocks
  (`internal/sandbox/engine.go:701-703`). Nothing else makes a session deadlock,
  and nothing ends it (`OnlyReentryDeadlocks`, `DeadlockIsForEver`).
* `worker_isolate`: terminate disposes of the worker's isolate two seconds after it
  asked the loop to stop, whether or not a script still runs in it, although
  "disposing while the loop is inside a V8 call is a use-after-free, so the wait is
  mandatory" (`internal/sandbox/worker.go:262-264`). Only a timed-out wait does
  that (`WorkersAccounted`).
* `frames_long`: for 126 bytes and more `writeFrame` omits the marker 126 or 127,
  so the peer reads a wrong length (`internal/sandbox/websocket.go:193`), for
  every such length (`LongClientFramesAreMisread`).
* `h2_ends`: the frame loop looks for END_STREAM on DATA frames only, and reads
  on after a response that ends with HEADERS (`internal/netlayer/h2client.go:232`,
  against the comment at line 170). These are the only responses it misses the
  end of (`OnlyHeadersEndUnseen`).
* `live_ref`: CloseSession, the janitor and the shutdown dispose a session that an
  operation holds a reference to; `refCount` is kept and never read. Comments say
  that they "mark closing instead of tearing down under a live ref" and that "the
  session itself stays usable for the in-flight op"
  (`internal/bridge/service.go:171`, `282-285`).
* `profile_resume`: a session created for a browser, a system or a time zone is
  resumed without them, so that its seed draws another fingerprint
  (`service.go:546-551`), although a profile is to "resume a session with the same
  identity" (`internal/session/profile.go:1-3`, `service.go:538-540`).
* `hot_reload`: after an update the server reloads the flat lists and the canvas
  dataset and reports "hot-reloads the fingerprint data without restarting"
  (`cmd/bes-server/main.go:129-132`), but nobody calls `ReloadDeviceProfiles`, so
  the joint profiles, which are asked first, stay those that were read once.
* `identity`: a worker created after SwapFingerprint gets the User-Agent of the
  session's first fingerprint (`internal/sandbox/worker.go:439`), although "worker
  injection uses it so worker-side navigator.userAgent matches the parent session"
  (`internal/sandbox/browser_env.go:440-441`). Until the first swap it does
  (`WorkersMatchUntilASwap`).

Reached by the models without a run of their own; where a checked property would
fail, its comment or definition names the exception.

* Entry points (`engine.go:108`, "returned by V8 entry points when the session has
  already been disposed"): SwapFingerprint and DrainWorkerCallbacks do not check,
  and use a closed context. `GuardedNoUseAfterClose` is about the others.
* Dispose (`engine.go:700-720`) bounds its wait for evaluations, but not its
  teardown: `closeRaw` takes the lock that `raw.Write`, which has no deadline, holds
  for as long as the peer does not read (`websocket.go:206`, `317-322`). terminate's
  two seconds begin only after that (`NeverStuck`, `InWrite`).
* A worker's `self.close()`, "notify the loop to exit" (`worker.go:156`), puts its
  envelope into the queue of the parent's pump; the worker's loop runs on.
* An isolate whose Put tested `closed` before DisposeAll set it is sent into the
  drained pool, where nobody will dispose it, which the check is there to prevent
  (`isolate_pool.go:67-71`, `90-92`). `IsolateAccounted` says that only such Puts
  do it; `ClosedPoolIsEmpty` states what the comments say.
* An `onclose` handler that throws skips the removal of the receiver
  (`websocket.go:682-689`), so that a second close event or a message may follow,
  although a close by the user is to fire no further one (`websocket.go:478-482`).
  `CloseIsLast` is about handlers that return.
* "writes one WebSocket text frame", "Text frame, FIN=1" (`debug/websocket.go:368`,
  `378`): the byte is 0x82, a binary frame (`CdpFramesAreText`).
* `maxFrameSize` is to bound the allocation for a frame whose length the client
  controls (`debug/websocket.go:290-296`), but the length is a signed integer: a
  negative one passes the test and panics in `make` (`332-349`,
  `OverlongIsRefused`). The reader of the bridge has no limit
  (`sandbox/websocket.go:236-249`).
* Cookies: "and host is not an IP" (`cookie_store.go:241-242`) is not tested, so
  that the end of an address is a domain of it and its cookies go to other
  addresses. `CookiesInScope` leaves out cookies with a Domain where one of the
  two hosts is an address (`SharesNumbers`).
* SwapFingerprint is to make "each step look like a different visitor"
  (`engine.go:488-496`). Requests, handshakes and workers keep the first
  fingerprint, so that servers see the same visitor (`OneVisitor`), and the page
  alone shows another; also header and `navigator.languages` then differ, which
  are to "stay consistent" (`browser_env.go:1276-1278`).
* A joint profile's GPU vendor is its `navigator.vendor`, because an outer field of
  the same name hides the GPU's own (`device_profile_engine.go:32`), although the
  two are two things (`device_profile.go:41-43`, `docs/device-profile.md:74`), and
  the canvas key, which is to be of the GPU's vendor (`docs/device-profile.md`,
  section 8.1), takes it from there (`device_profile_engine.go:53`).
  `FingerprintsHoldTogether` asks that the canvas key is of the vendor that WebGL
  names, whichever that is, and compares the systems of renderers, not vendors.
* The summer time of Europe/London is -60 in a table of offsets "positive = east of
  UTC" (`browser_env.go:1027`, `1040`), so that `getTimezoneOffset` is 60 where a
  browser reports -60. (Time itself is not modelled.)
* `fontsDistance` counts duplicates of one of its lists, although fonts are "a set
  property" (`fpdistance.go:240-241`), and is not symmetric then. `OneSessionPerDevice`
  assumes lists without duplicates.
* A navigation's Referer is the session's location at every hop, although the
  comment says the previous hop (`browser_env.go:1711-1715`); initial cookies and
  those of SetCookie are stored host-only with an empty host, so that no request
  sends them, although the comment in CookieHeaderFor speaks of globally sendable
  cookies.

## 7. Reached by the models, asserted by nobody

Behaviours the models have because the code has them, of which its comments and
tests say nothing, so that no run asserts their absence; they are here for the
maintainers.

* Session: Dispose gives up after `disposeExecWaitTimeout` and then neither
  closes the context nor returns the isolate; both leak. A termination request may
  hit a later script.
* Event loop: an evaluation may end with a callback queued, because the two
  counters are read apart; a timer goroutine may enqueue after StopAll, and a
  drain loop may run callbacks after it. The answer of a request that is dropped
  by a full queue, or refused after StopAll, leaves the request counted, and every
  later evaluation of the session waits to its deadline (`AnswerLost`).
* Worker: one may be registered after disposeAll; the error envelope of a failing
  script is queued before anybody reads.
* WebSocket: an event may be taken before the script has learnt the socket's id;
  a message may be written after the close frame; `close()` may block on the
  isolate's thread while the writer is in `raw.Write`; a socket may be registered
  after disposeAll.
* Bridge: a subscriber may stay with a broadcaster that is never closed; a session
  may be registered after the shutdown emptied the registry.
* Cookies: a cookie a script sets without Domain is the one that is sent
  everywhere, next to a server's cookie of the same name. Two responses may reach
  the two stores in different orders. Expires and Max-Age are not evaluated.
* Identity: SwapFingerprint also leaves the WebGL parameters (its script builds
  `_webglParams` and never uses them), `measureText`, `window.__besFp`,
  `Date.prototype.getTimezoneOffset`, `navigator.connection` and the location that
  Referers are derived from. Firefox and Safari fingerprints are sent with a Chrome
  ClientHello.
* Fingerprints: the parser drops the touch point count 0, so that it is
  never drawn where other counts occur; a screen whose
  `availHeight` exceeds its height makes the generation fail without another
  draw; screens without a size stay in the flat list and are served as 0 x 0; a
  request for Firefox or Edge that no joint profile satisfies is answered with
  Chrome; where the flat list has no renderer of a system, all renderers are drawn
  from; a published GPU with a vendor but no renderer passes the filter of Linux
  and, if its vendor is Apple, of macOS (`device_profile.go:329-360`), and
  `buildWebGL` (`engine.go:351-359`) then reports an Intel GPU of Direct3D11,
  which `OneDevice` therefore asks of fingerprints with a renderer only.
* Fingerprint data: a failed first load of the device profiles is remembered for
  the life of the process; the marker is in the first file, so that an update cut
  short between the files is not done again; a legacy fingerprint makes several
  loads, which may see two versions of the data; a load that had read the old data
  may publish it after a reload.
* Profiles: swaps and the version of the data are not resumed; two saves of one
  session may overlap in the file.
* Distance: two fingerprints without a renderer and a vendor are not at distance
  zero.
* CDP: FIN of a received frame is ignored, bytes that the hijacked connection had
  buffered are dropped, and a reader on a full queue stays blocked once the process
  loop has returned.
* HTTP/2: the DATA frame of a request body does not respect the server's maximal
  frame size or window.

## 8. What is not modelled

* *The Promise variant of the drain loop*: differs in what ends it only.
* *Fragmented WebSocket messages and the handshake*; the worker's own timers.
* *JSON handlers and authentication of `server.go`, ListSessions, the HTTP
  endpoints of the CDP server, MCP*: sequential.
* *Recordings and replay of the network handler, the order of cookies in a
  header, decompression, resolution of relative URLs*: data the properties do not
  tell apart.
* *Address filter*: a pure predicate with table tests; a refusal is a failed
  request in SessionNetwork.
* *DOM, storage, crypto and JavaScript shims, synthetic canvas and WebGL pictures,
  the generated tables, the seeded generator*: data, and sequential code that
  keeps no state the other parts read.
* *Unpacking of the downloaded archive*: one step of the updater that may fail.
* *Captcha solver*: a polling client of an external service without state.
* *Proxy health*: one mutex around one request.
* *Other commands and SDKs*: flag parsing, benchmarks and thin clients.
* The delay of a timer: TLC's timers fire in any order, which includes every
  order real delays allow and more.

## 9. Plan

Done, in this order: Session with its contract, Engine, Timers, Worker,
WebSocket and WSFrame, BridgeService, FlowControl and H2Client, CookieStore and
SessionNetwork; then FingerprintData, CanvasDataset, Correlator with
FingerprintDistance, FingerprintNetwork and Fingerprint, ProfileStore,
CDPServer, ChromeHello and SessionIdentity.

Next, modelling:

1. *Time zones*: offsets of the page's Date against the zone's rules, as a surface
   of SessionIdentity with a value of its own.
2. *Codecs*: dechunking of HTTP/1.1, URL matching of the replay store, recordings
   written and read back, each against a reference definition.
3. *Worker composed with Timers*: a worker's reply through the pump and the
   parent's queue, as one specification instead of two.
4. *ProfileStore composed with BridgeService*: resume under an id whose entry the
   janitor is tearing down.

Next, proofs, in order of value: that FlowControl's counters determine the stall of the real frame loop also for
request bodies; SessionNetwork's exchange as a refinement of H2Client's; and,
once the modelling above is done, the same for what it adds.

## 10. How to run

```
tlc -workers 2 -config MCSessionParts.cfg MCSessionParts
tlapm SessionProofs.tla
```

and likewise for the other configurations and `*Proofs` modules. `PROJECT.json`
lists the runs, the mutant of each property, the source lines behind each
definition, the hazards and the theorems.
