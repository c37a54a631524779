---------------------------- MODULE BridgeService ----------------------------
(***************************************************************************)
(* The bridge's service layer (internal/bridge/service.go): the registry   *)
(* of sessions, the operations that pin an entry with acquire, the two     *)
(* ways an entry is torn down (CloseSession and the cleanupIdle janitor),  *)
(* the SSE streams of server.go that subscribe to its broadcasters, and    *)
(* Service.Dispose at shutdown.                                            *)
(*                                                                         *)
(* A critical section of Service.mu is one step guarded by ~locked, except *)
(* that of Dispose, which keeps the lock while it disposes every session.  *)
(* A critical section of a broadcaster is one step.  Session.Dispose is    *)
(* the step that module Session describes in detail.                       *)
(***************************************************************************)
EXTENDS Naturals, Sequences, FiniteSets

CONSTANTS
  Ids,          \* sessions
  Ops,          \* requests that acquire a session (Eval, LoadScript, SaveProfile ...)
  Closers,      \* CloseSession requests
  Subscribers,  \* SSE requests
  Janitor,      \* the cleanupIdle goroutine
  NoId          \* no session

ASSUME ServiceConstants ==
  /\ Janitor \notin Closers
  /\ NoId \notin Ids

VARIABLES
  locked,     \* Service.Dispose holds s.mu
  shutdown,   \* where Service.Dispose stands
  sess,       \* the life of each session
  entry,      \* the keys of s.sessions
  refCount,   \* of each entry
  closing,    \* the entries marked closing
  idle,       \* the entries whose lastActive is older than idleTimeout
  op,         \* the session each request has pinned
  opPc,       \* where each request stands
  work,       \* sessions each teardown has claimed and not started on
  cur,        \* the session each teardown is working on
  muted,      \* how many of its broadcasters have been closed
  gone,       \* the janitor has returned
  subs,       \* the subscribers in each broadcaster's map
  sub,        \* the broadcaster each SSE request looked up
  subPc       \* where each SSE request stands

lifeVars == <<locked, shutdown, sess, entry, closing, idle>>
opVars   == <<refCount, op, opPc>>
tearVars == <<work, cur, muted, gone>>
subVars  == <<subs, sub, subPc>>
serviceVars == <<lifeVars, opVars, tearVars, subVars>>

Teardowns == Closers \cup {Janitor}

\* The broadcasters of a session, in the order a teardown closes them.
Streams == <<"console", "network">>
Kinds == {"console", "network"}
Broadcasters == Ids \X Kinds

ServiceTypeOK ==
  /\ locked \in BOOLEAN
  /\ shutdown \in {"no", "done closed", "disposing", "finished"}
  /\ sess \in [Ids -> {"none", "created", "registered", "disposed"}]
  /\ entry \subseteq Ids
  /\ refCount \in [Ids -> Nat]
  /\ closing \subseteq Ids
  /\ idle \subseteq Ids
  /\ op \in [Ops -> Ids \cup {NoId}]
  /\ opPc \in [Ops -> {"idle", "pinned", "over"}]
  /\ work \in [Teardowns -> SUBSET Ids]
  /\ cur \in [Teardowns -> Ids \cup {NoId}]
  /\ muted \in [Teardowns -> 0..Len(Streams)]
  /\ gone \in BOOLEAN
  /\ subs \in [Broadcasters -> SUBSET Subscribers]
  /\ sub \in [Subscribers -> Broadcasters \cup {NoId}]
  /\ subPc \in [Subscribers -> {"idle", "looked up", "streaming", "over"}]

ServiceInit ==
  /\ locked = FALSE
  /\ shutdown = "no"
  /\ sess = [i \in Ids |-> "none"]
  /\ entry = {}
  /\ refCount = [i \in Ids |-> 0]
  /\ closing = {}
  /\ idle = {}
  /\ op = [o \in Ops |-> NoId]
  /\ opPc = [o \in Ops |-> "idle"]
  /\ work = [t \in Teardowns |-> {}]
  /\ cur = [t \in Teardowns |-> NoId]
  /\ muted = [t \in Teardowns |-> 0]
  /\ gone = FALSE
  /\ subs = [b \in Broadcasters |-> {}]
  /\ sub = [x \in Subscribers |-> NoId]
  /\ subPc = [x \in Subscribers |-> "idle"]

-----------------------------------------------------------------------------
(* CreateSession and ResumeProfile.                                        *)

EngineCreates(i) ==
  /\ sess[i] = "none"
  /\ sess' = [sess EXCEPT ![i] = "created"]
  /\ UNCHANGED <<locked, shutdown, entry, closing, idle, opVars, tearVars, subVars>>

RegisterEntry(i) ==
  /\ ~locked
  /\ sess[i] = "created"
  /\ sess' = [sess EXCEPT ![i] = "registered"]
  /\ entry' = entry \cup {i}
  /\ UNCHANGED <<locked, shutdown, closing, idle, opVars, tearVars, subVars>>

\* Nobody uses the session for idleTimeout.
TimePasses(i) ==
  /\ i \in entry
  /\ idle' = idle \cup {i}
  /\ UNCHANGED <<locked, shutdown, sess, entry, closing, opVars, tearVars, subVars>>

-----------------------------------------------------------------------------
(* Operations.                                                             *)

Pin(o, i) ==
  /\ ~locked
  /\ opPc[o] = "idle"
  /\ opPc' = [opPc EXCEPT ![o] = "pinned"]
  /\ op' = [op EXCEPT ![o] = i]
  /\ refCount' = [refCount EXCEPT ![i] = @ + 1]
  /\ idle' = idle \ {i}
  /\ UNCHANGED <<locked, shutdown, sess, entry, closing, tearVars, subVars>>

\* Mutant: the entry was looked up before the lock was taken.
AcquireStale(o, i) == sess[i] # "none" /\ Pin(o, i)

Acquire(o, i) == i \in entry \ closing /\ Pin(o, i)

\* "session not found".
AcquireFails(o, i) ==
  /\ ~locked
  /\ i \notin entry \ closing
  /\ opPc[o] = "idle"
  /\ opPc' = [opPc EXCEPT ![o] = "over"]
  /\ UNCHANGED <<lifeVars, refCount, op, tearVars, subVars>>

\* The operation returned, whether or not the session was disposed meanwhile.
Release(o) ==
  /\ ~locked
  /\ opPc[o] = "pinned"
  /\ opPc' = [opPc EXCEPT ![o] = "over"]
  /\ refCount' = [refCount EXCEPT ![op[o]] = @ - 1]
  /\ UNCHANGED <<lifeVars, op, tearVars, subVars>>

-----------------------------------------------------------------------------
(* Teardown: CloseSession takes one entry, the janitor all idle ones.      *)

Claim(t, S) ==
  /\ ~locked
  /\ work[t] = {} /\ cur[t] = NoId
  /\ work' = [work EXCEPT ![t] = S]
  /\ closing' = closing \cup S
  /\ entry' = entry \ S
  /\ UNCHANGED <<locked, shutdown, sess, idle, opVars, cur, muted, gone, subVars>>

\* Mutant: the entry is marked closing but stays in the map until it is disposed.
CloseSessionKeepsEntry(c, i) ==
  /\ ~locked
  /\ i \in entry
  /\ work[c] = {} /\ cur[c] = NoId
  /\ work' = [work EXCEPT ![c] = {i}]
  /\ closing' = closing \cup {i}
  /\ UNCHANGED <<locked, shutdown, sess, entry, idle, opVars, cur, muted, gone, subVars>>

CloseSession(c, i) == i \in entry /\ Claim(c, {i})

\* One tick of the janitor.  When done is closed and a tick is due, select picks
\* either.
CleanupIdle ==
  /\ ~gone
  /\ entry \cap idle # {}
  /\ Claim(Janitor, entry \cap idle)

JanitorReturns ==
  /\ shutdown # "no"
  /\ ~gone
  /\ work[Janitor] = {} /\ cur[Janitor] = NoId
  /\ gone' = TRUE
  /\ UNCHANGED <<lifeVars, opVars, work, cur, muted, subVars>>

TakeNext(t) ==
  /\ cur[t] = NoId
  /\ \E i \in work[t] :
       /\ cur' = [cur EXCEPT ![t] = i]
       /\ work' = [work EXCEPT ![t] = @ \ {i}]
  /\ muted' = [muted EXCEPT ![t] = 0]
  /\ UNCHANGED <<lifeVars, opVars, gone, subVars>>

\* Mutant: only the console is closed.
CloseAllConsole(t) ==
  /\ cur[t] # NoId
  /\ muted[t] < Len(Streams)
  /\ muted' = [muted EXCEPT ![t] = Len(Streams)]
  /\ subs' = [subs EXCEPT ![<<cur[t], Streams[1]>>] = {}]
  /\ UNCHANGED <<lifeVars, opVars, work, cur, gone, sub, subPc>>

\* consoleBroadcaster.closeAll, then networkBroadcaster.closeAll.
CloseAll(t) ==
  /\ cur[t] # NoId
  /\ muted[t] < Len(Streams)
  /\ muted' = [muted EXCEPT ![t] = @ + 1]
  /\ subs' = [subs EXCEPT ![<<cur[t], Streams[muted[t] + 1]>>] = {}]
  /\ UNCHANGED <<lifeVars, opVars, work, cur, gone, sub, subPc>>

\* Mutant: the janitor leaves its round when done is closed.
DisposeSessionUnlessDone(t) ==
  /\ cur[t] # NoId
  /\ muted[t] = Len(Streams)
  /\ sess' = [sess EXCEPT ![cur[t]] = IF shutdown = "no" THEN "disposed" ELSE @]
  /\ cur' = [cur EXCEPT ![t] = NoId]
  /\ UNCHANGED <<locked, shutdown, entry, closing, idle, opVars, work, muted, gone, subVars>>

DisposeSession(t) ==
  /\ cur[t] # NoId
  /\ muted[t] = Len(Streams)
  /\ sess' = [sess EXCEPT ![cur[t]] = "disposed"]
  /\ cur' = [cur EXCEPT ![t] = NoId]
  /\ UNCHANGED <<locked, shutdown, entry, closing, idle, opVars, work, muted, gone, subVars>>

-----------------------------------------------------------------------------
(* SSE streams.                                                            *)

\* getEntry: the entry pointer outlives the lock.
LookUp(x, i, s) ==
  /\ ~locked
  /\ i \in entry
  /\ subPc[x] = "idle"
  /\ sub' = [sub EXCEPT ![x] = <<i, s>>]
  /\ subPc' = [subPc EXCEPT ![x] = "looked up"]
  /\ UNCHANGED <<lifeVars, opVars, tearVars, subs>>

Subscribe(x) ==
  /\ subPc[x] = "looked up"
  /\ subs' = [subs EXCEPT ![sub[x]] = @ \cup {x}]
  /\ subPc' = [subPc EXCEPT ![x] = "streaming"]
  /\ UNCHANGED <<lifeVars, opVars, tearVars, sub>>

\* The channel is open exactly as long as it is in the map.
Open(x) == subPc[x] = "streaming" /\ x \in subs[sub[x]]

\* ok = false in the receive, or ctx.Done when the client disconnects; the deferred
\* unsub closes the channel only if it is still in the map.
StreamEnds(x) ==
  /\ subPc[x] = "streaming"
  /\ x \notin subs[sub[x]]
  /\ subPc' = [subPc EXCEPT ![x] = "over"]
  /\ UNCHANGED <<lifeVars, opVars, tearVars, subs, sub>>

ClientDisconnects(x) ==
  /\ subPc[x] = "streaming"
  /\ subs' = [subs EXCEPT ![sub[x]] = @ \ {x}]
  /\ subPc' = [subPc EXCEPT ![x] = "over"]
  /\ UNCHANGED <<lifeVars, opVars, tearVars, sub>>

-----------------------------------------------------------------------------
(* Service.Dispose.                                                        *)

CloseDone ==
  /\ shutdown = "no"
  /\ shutdown' = "done closed"
  /\ UNCHANGED <<locked, sess, entry, closing, idle, opVars, tearVars, subVars>>

LockAll ==
  /\ shutdown = "done closed"
  /\ shutdown' = "disposing"
  /\ locked' = TRUE
  /\ UNCHANGED <<sess, entry, closing, idle, opVars, tearVars, subVars>>

DisposeEntry(i) ==
  /\ shutdown = "disposing"
  /\ i \in entry
  /\ sess' = [sess EXCEPT ![i] = "disposed"]
  /\ entry' = entry \ {i}
  /\ UNCHANGED <<locked, shutdown, closing, idle, opVars, tearVars, subVars>>

\* Engine.Dispose, and the deferred Unlock.
Finish ==
  /\ shutdown = "disposing"
  /\ entry = {}
  /\ shutdown' = "finished"
  /\ locked' = FALSE
  /\ UNCHANGED <<sess, entry, closing, idle, opVars, tearVars, subVars>>

-----------------------------------------------------------------------------
OpStep(o) ==
  \/ \E i \in Ids : Acquire(o, i) \/ AcquireFails(o, i)
  \/ Release(o)

TeardownStep(t) ==
  TakeNext(t) \/ CloseAll(t) \/ DisposeSession(t)

SubscriberStep(x) ==
  \/ \E i \in Ids, s \in Kinds : LookUp(x, i, s)
  \/ Subscribe(x) \/ StreamEnds(x) \/ ClientDisconnects(x)

ShutdownStep == CloseDone \/ LockAll \/ (\E i \in Ids : DisposeEntry(i)) \/ Finish

ServiceNext ==
  \/ \E i \in Ids : EngineCreates(i) \/ RegisterEntry(i) \/ TimePasses(i)
  \/ \E o \in Ops : OpStep(o)
  \/ \E c \in Closers, i \in Ids : CloseSession(c, i)
  \/ CleanupIdle \/ JanitorReturns
  \/ \E t \in Teardowns : TeardownStep(t)
  \/ \E x \in Subscribers : SubscriberStep(x)
  \/ ShutdownStep

ServiceSpec == ServiceInit /\ [][ServiceNext]_serviceVars

\* Goroutines run, Session.Dispose returns (module Session) and operations return.
\* Clients need not disconnect, idle time need not pass.
ServiceFairness ==
  /\ \A i \in Ids : WF_serviceVars(RegisterEntry(i))
  /\ \A o \in Ops : WF_serviceVars(Release(o))
  /\ \A t \in Teardowns : WF_serviceVars(TeardownStep(t))
  /\ \A x \in Subscribers : WF_serviceVars(Subscribe(x) \/ StreamEnds(x))
  /\ WF_serviceVars(LockAll \/ (\E i \in Ids : DisposeEntry(i)) \/ Finish)

ServiceFairSpec == ServiceSpec /\ ServiceFairness

-----------------------------------------------------------------------------
\* The teardowns that have claimed session i and are not done with it.
Claimers(i) == {t \in Teardowns : i \in work[t] \/ cur[t] = i}

\* A session is torn down by one caller only, and only after it has left the
\* registry: CloseSession, the janitor and Dispose never work on the same entry.
ClaimedOnce ==
  \A i \in Ids :
    /\ \A t, u \in Claimers(i) : t = u
    /\ \A t \in Claimers(i) : cur[t] = i => i \notin work[t]
    /\ Claimers(i) # {} => i \notin entry /\ i \in closing

\* No session is lost: until it is disposed, it is registered, in the hands of the
\* CreateSession that made it, or claimed by a teardown that will dispose it.
SessionAccounted ==
  \A i \in Ids :
    CASE sess[i] = "registered" -> i \in entry \/ Claimers(i) # {}
      [] sess[i] = "disposed"   -> i \notin entry /\ Claimers(i) = {}
      [] OTHER                  -> i \notin entry /\ Claimers(i) = {}

\* refCount counts the operations that hold the entry, whatever happens to it.
RefCountExact ==
  \A i \in Ids : refCount[i] = Cardinality({o \in Ops : opPc[o] = "pinned" /\ op[o] = i})

\* The registry, the teardowns and the operations agree on who owns which session: one
\* teardown claims it, none forgets it, and refCount is exact.  Nothing here keeps a session
\* usable while an operation holds a reference to it: that is UsableWhilePinned.
RegistryInv == ServiceTypeOK /\ ClaimedOnce /\ SessionAccounted /\ RefCountExact

\* service.go:171 and 282-285: a teardown that finds a live reference only marks the entry,
\* and the session stays usable for the operation in flight.  The code never reads refCount.
UsableWhilePinned == \A o \in Ops : opPc[o] = "pinned" => sess[op[o]] # "disposed"

\* No operation starts on a session that a teardown has claimed or disposed.
NoLateStart ==
  [][\A o \in Ops : (opPc[o] = "idle" /\ opPc'[o] = "pinned") =>
       sess[op'[o]] = "registered" /\ Claimers(op'[o]) = {}]_serviceVars

\* Every claimed session is disposed, even when the service shuts down meanwhile.  (What
\* is marked closing stays so.)
TeardownCompletes == \A i \in Ids : []<>(i \in closing => sess[i] = "disposed")

\* The teardown of session i has yet to close broadcaster <<i, s>>.
WillClose(i, s) ==
  \E t \in Teardowns :
    \/ i \in work[t]
    \/ cur[t] = i /\ \A n \in 1..muted[t] : Streams[n] # s

\* Stream x is open, and the teardown of its session is still to close it.
Doomed(x) ==
  Open(x) /\ \E i \in Ids, s \in Kinds : sub[x] = <<i, s>> /\ WillClose(i, s)

\* A stream that is open when its session is claimed ends, without its client having
\* to disconnect: no teardown passes over it or puts it off for ever, and a stream whose
\* channel is closed ends.
StreamsEnd ==
  /\ [][\A x \in Subscribers : Doomed(x) /\ Open(x)' => Doomed(x)']_serviceVars
  /\ \A x \in Subscribers : []<>~Doomed(x) /\ []<>(subPc[x] = "streaming" => Open(x))
=============================================================================
