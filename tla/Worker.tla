-------------------------------- MODULE Worker --------------------------------
(***************************************************************************)
(* Web Workers of a session (internal/sandbox/worker.go): the registry,    *)
(* the creation of a worker by the parent's script, the worker's event     *)
(* loop on its own isolate, the pump that forwards its replies to the      *)
(* parent, and terminate, which the parent's script and Session.Dispose    *)
(* call.                                                                   *)
(*                                                                         *)
(* An envelope is its type.  close(w.stop), the worker's own StopAll and   *)
(* the wake-up envelope are one step, and so is each wait of terminate,    *)
(* which ends with the goroutine it waits for or after two seconds.        *)
(***************************************************************************)
EXTENDS Naturals, Sequences, FiniteSets

CONSTANTS
  Workers,      \* new Worker(...) calls the parent's script may make
  MailboxCap,   \* capacity of inbound and outbound (64 in the code)
  PostBound     \* bound on the envelopes that each worker and its parent send

ASSUME WorkerConstants == MailboxCap \in Nat \ {0} /\ PostBound \in [Workers -> Nat]

VARIABLES
  create,     \* where __besWorkerCreate stands for each worker
  reg,        \* workerRegistry.workers
  todo,       \* what disposeAll has left to terminate
  dispose,    \* where disposeAll stands
  inbound,    \* parent -> worker mailbox
  outbound,   \* worker -> parent queue
  posts,      \* envelopes sent to and by each worker so far
  stop,       \* w.stop is closed
  loop,       \* where workerLoop stands
  pump,       \* where the goroutine of startParentPump stands
  landed,     \* types of the envelopes handed to the parent's scheduleTimer
  term,       \* where terminate stands
  gaveUp      \* a wait of terminate timed out

parentVars == <<create, reg, todo, dispose>>
chanVars   == <<inbound, outbound, posts, landed>>
threadVars == <<stop, loop, pump>>
termVars   == <<term, gaveUp>>
workerVars == <<parentVars, chanVars, threadVars, termVars>>

Envelopes == {"message", "error", "close"}

WorkerTypeOK ==
  /\ create \in [Workers -> {"none", "starting", "failing", "failed",
                             "started", "registered", "ready"}]
  /\ reg \subseteq Workers
  /\ todo \subseteq Workers
  /\ dispose \in {"no", "terminating", "finished"}
  /\ inbound \in [Workers -> Seq({"message", "close"})]
  /\ outbound \in [Workers -> Seq(Envelopes)]
  /\ \A w \in Workers : Len(inbound[w]) <= MailboxCap /\ Len(outbound[w]) <= MailboxCap
  /\ posts \in [Workers -> Nat] /\ \A w \in Workers : posts[w] <= PostBound[w]
  /\ landed \in [Workers -> SUBSET Envelopes]
  /\ stop \in [Workers -> BOOLEAN]
  /\ loop \in [Workers -> {"none", "select", "inV8", "exited"}]
  /\ pump \in [Workers -> {"none", "select", "exited"}]
  /\ term \in [Workers -> {"no", "awaitLoop", "awaitPump", "isoDispose", "terminated"}]
  /\ gaveUp \in [Workers -> BOOLEAN]

WorkerInit ==
  /\ create = [w \in Workers |-> "none"]
  /\ reg = {}
  /\ todo = {}
  /\ dispose = "no"
  /\ inbound = [w \in Workers |-> <<>>]
  /\ outbound = [w \in Workers |-> <<>>]
  /\ posts = [w \in Workers |-> 0]
  /\ landed = [w \in Workers |-> {}]
  /\ stop = [w \in Workers |-> FALSE]
  /\ loop = [w \in Workers |-> "none"]
  /\ pump = [w \in Workers |-> "none"]
  /\ term = [w \in Workers |-> "no"]
  /\ gaveUp = [w \in Workers |-> FALSE]

\* A non-blocking send: dropped when the channel is full.
Offer(s, m) == IF Len(s) < MailboxCap THEN Append(s, m) ELSE s

CreateIs(w, from, to) ==
  /\ create[w] = from
  /\ create' = [create EXCEPT ![w] = to]

-----------------------------------------------------------------------------
(* terminate.                                                              *)

\* Mutant: terminate only sends the wake-up envelope.
TerminateByEnvelope(w) ==
  /\ term[w] = "no"
  /\ term' = [term EXCEPT ![w] = "awaitLoop"]
  /\ inbound' = [inbound EXCEPT ![w] = Offer(@, "close")]
  /\ UNCHANGED <<outbound, posts, landed, stop, loop, pump, gaveUp>>

\* sync.Once: the first caller closes stop and wakes the loop.
TerminateBegins(w) ==
  /\ term[w] = "no"
  /\ term' = [term EXCEPT ![w] = "awaitLoop"]
  /\ stop' = [stop EXCEPT ![w] = TRUE]
  /\ inbound' = [inbound EXCEPT ![w] = Offer(@, "close")]
  /\ UNCHANGED <<outbound, posts, landed, loop, pump, gaveUp>>

\* One wait of terminate ends; late says whether by its timeout.
WaitEnds(w, from, to, late) ==
  /\ term[w] = from
  /\ term' = [term EXCEPT ![w] = to]
  /\ gaveUp' = [gaveUp EXCEPT ![w] = @ \/ late]
  /\ UNCHANGED <<parentVars, chanVars, threadVars>>

AwaitLoop(w) ==
  \/ loop[w] = "exited" /\ WaitEnds(w, "awaitLoop", "awaitPump", FALSE)
  \/ loop[w] # "exited" /\ WaitEnds(w, "awaitLoop", "awaitPump", TRUE)

\* Mutant: the wait for the pump is not bounded.
AwaitPumpForEver(w) ==
  pump[w] = "exited" /\ WaitEnds(w, "awaitPump", "isoDispose", FALSE)

AwaitPump(w) ==
  \/ pump[w] = "exited" /\ WaitEnds(w, "awaitPump", "isoDispose", FALSE)
  \/ pump[w] # "exited" /\ WaitEnds(w, "awaitPump", "isoDispose", TRUE)

IsoDispose(w) ==
  /\ term[w] = "isoDispose"
  /\ term' = [term EXCEPT ![w] = "terminated"]
  /\ UNCHANGED <<parentVars, chanVars, threadVars, gaveUp>>

-----------------------------------------------------------------------------
(* The parent's script: create, post, terminate.                           *)

\* The script is inside createCb, or inside termCb, which waits for terminate.
ParentBusy ==
  \E v \in Workers :
    \/ create[v] \in {"starting", "failing", "started", "registered"}
    \/ v \notin todo /\ term[v] \in {"awaitLoop", "awaitPump", "isoDispose"}

CreateBegins(w) ==
  /\ CreateIs(w, "none", "starting")
  /\ UNCHANGED <<reg, todo, dispose, chanVars, threadVars, termVars>>

\* StartWorker returns with the loop running.
WorkerStarts(w) ==
  /\ CreateIs(w, "starting", "started")
  /\ loop' = [loop EXCEPT ![w] = "select"]
  /\ UNCHANGED <<reg, todo, dispose, chanVars, stop, pump, termVars>>

\* The worker's script throws: an error envelope, then terminate.
WorkerScriptFails(w) ==
  /\ CreateIs(w, "starting", "failing")
  /\ outbound' = [outbound EXCEPT ![w] = Offer(@, "error")]
  /\ term' = [term EXCEPT ![w] = "awaitLoop"]
  /\ stop' = [stop EXCEPT ![w] = TRUE]
  /\ inbound' = [inbound EXCEPT ![w] = Offer(@, "close")]
  /\ UNCHANGED <<reg, todo, dispose, posts, landed, loop, pump, gaveUp>>

\* terminate has returned and so does createCb, with -1.
CreateFails(w) ==
  /\ term[w] = "terminated"
  /\ CreateIs(w, "failing", "failed")
  /\ UNCHANGED <<reg, todo, dispose, chanVars, threadVars, termVars>>

RegisterWorker(w) ==
  /\ CreateIs(w, "started", "registered")
  /\ reg' = reg \cup {w}
  /\ UNCHANGED <<todo, dispose, chanVars, threadVars, termVars>>

StartParentPump(w) ==
  /\ CreateIs(w, "registered", "ready")
  /\ pump' = [pump EXCEPT ![w] = "select"]
  /\ UNCHANGED <<reg, todo, dispose, chanVars, stop, loop, termVars>>

PostMessage(w) ==
  /\ create[w] = "ready" /\ w \in reg
  /\ posts[w] < PostBound[w]
  /\ posts' = [posts EXCEPT ![w] = @ + 1]
  /\ inbound' = [inbound EXCEPT ![w] = Offer(@, "message")]
  /\ UNCHANGED <<parentVars, outbound, landed, threadVars, termVars>>

\* worker.terminate(): remove from the registry, then terminate.
Remove(w) ==
  /\ create[w] = "ready" /\ w \in reg
  /\ reg' = reg \ {w}
  /\ TerminateBegins(w)
  /\ UNCHANGED <<create, todo, dispose>>

-----------------------------------------------------------------------------
(* disposeAll, called by Session.Dispose.                                  *)

DisposeAll ==
  /\ dispose = "no"
  /\ dispose' = "terminating"
  /\ todo' = reg
  /\ reg' = {}
  /\ UNCHANGED <<create, chanVars, threadVars, termVars>>

\* One at a time: the next is not begun before the last has returned.
DisposeNext(w) ==
  /\ dispose = "terminating"
  /\ \A v \in todo : term[v] = "no"
  /\ w \in todo
  /\ TerminateBegins(w)
  /\ UNCHANGED parentVars

DisposeDone(w) ==
  /\ dispose = "terminating"
  /\ w \in todo /\ term[w] = "terminated"
  /\ todo' = todo \ {w}
  /\ UNCHANGED <<create, reg, dispose, chanVars, threadVars, termVars>>

DisposeAllEnds ==
  /\ dispose = "terminating"
  /\ todo = {}
  /\ dispose' = "finished"
  /\ UNCHANGED <<create, reg, todo, chanVars, threadVars, termVars>>

-----------------------------------------------------------------------------
(* workerLoop.  Both branches of its select may be ready.                  *)

LoopGoes(w, from, to) ==
  /\ loop[w] = from
  /\ loop' = [loop EXCEPT ![w] = to]
  /\ UNCHANGED <<parentVars, posts, landed, stop, pump, termVars>>

LoopStops(w) ==
  /\ stop[w]
  /\ LoopGoes(w, "select", "exited")
  /\ UNCHANGED <<inbound, outbound>>

LoopReceives(w) ==
  /\ inbound[w] # <<>>
  /\ inbound' = [inbound EXCEPT ![w] = Tail(@)]
  /\ LoopGoes(w, "select", IF Head(inbound[w]) = "close" THEN "exited" ELSE "inV8")
  /\ UNCHANGED outbound

DispatchEnds(w) ==
  /\ LoopGoes(w, "inV8", "select")
  /\ UNCHANGED <<inbound, outbound>>

\* self.postMessage, and self.close, which puts an envelope into the same queue.
WorkerPosts(w) ==
  /\ loop[w] = "inV8" \/ create[w] = "starting"
  /\ posts[w] < PostBound[w]
  /\ posts' = [posts EXCEPT ![w] = @ + 1]
  /\ \E m \in {"message", "close"} :
       outbound' = [outbound EXCEPT ![w] = Offer(@, m)]
  /\ UNCHANGED <<parentVars, inbound, landed, threadVars, termVars>>

-----------------------------------------------------------------------------
(* The pump.                                                               *)

PumpStops(w) ==
  /\ stop[w]
  /\ pump[w] = "select"
  /\ pump' = [pump EXCEPT ![w] = "exited"]
  /\ UNCHANGED <<parentVars, chanVars, stop, loop, termVars>>

PumpReceives(w) ==
  /\ pump[w] = "select"
  /\ outbound[w] # <<>>
  /\ outbound' = [outbound EXCEPT ![w] = Tail(@)]
  /\ IF Head(outbound[w]) = "close"
     THEN pump' = [pump EXCEPT ![w] = "exited"] /\ UNCHANGED landed
     ELSE landed' = [landed EXCEPT ![w] = @ \cup {Head(outbound[w])}] /\ UNCHANGED pump
  /\ UNCHANGED <<parentVars, inbound, posts, stop, loop, termVars>>

-----------------------------------------------------------------------------
CreateStep(w) ==
  \/ WorkerStarts(w) \/ WorkerScriptFails(w) \/ CreateFails(w)
  \/ RegisterWorker(w) \/ StartParentPump(w)

ScriptStep(w) == ~ParentBusy /\ (CreateBegins(w) \/ PostMessage(w) \/ Remove(w))

TerminateStep(w) == AwaitLoop(w) \/ AwaitPump(w) \/ IsoDispose(w)

DisposeAllStep ==
  \/ \E w \in Workers : DisposeNext(w) \/ DisposeDone(w)
  \/ DisposeAllEnds

LoopStep(w) == LoopStops(w) \/ LoopReceives(w)

PumpStep(w) == PumpStops(w) \/ PumpReceives(w)

WorkerNext ==
  \/ \E w \in Workers : \/ ScriptStep(w) \/ CreateStep(w) \/ TerminateStep(w)
                        \/ LoopStep(w) \/ DispatchEnds(w) \/ WorkerPosts(w)
                        \/ PumpStep(w)
  \/ DisposeAll
  \/ DisposeAllStep

WorkerSpec == WorkerInit /\ [][WorkerNext]_workerVars

\* Goroutines run and the two-second timeouts elapse.  A worker's script need not
\* end: nothing asks its isolate to terminate the execution.
WorkerFairness ==
  /\ \A w \in Workers :
       /\ WF_workerVars(CreateStep(w))
       /\ WF_workerVars(TerminateStep(w))
       /\ WF_workerVars(LoopStep(w))
       /\ WF_workerVars(PumpStep(w))
  /\ WF_workerVars(DisposeAllStep)

WorkerFairSpec == WorkerSpec /\ WorkerFairness

-----------------------------------------------------------------------------
\* After terminate the worker is quiet, nobody is inside its disposed isolate and
\* nothing more is forwarded to the parent, unless one of the waits timed out.
TerminatedIsQuiet ==
  \A w \in Workers : term[w] = "terminated" /\ ~gaveUp[w] =>
    loop[w] = "exited" /\ pump[w] = "exited"

\* A worker whose goroutines run can be found: by the registry, by the createCb that
\* is making it, or because terminate has begun, or disposeAll is about to begin it.
WorkerAccounted ==
  \A w \in Workers : loop[w] \in {"select", "inV8"} =>
    w \in reg \cup todo \/ create[w] = "started" \/ term[w] # "no"

\* The two together, and the channels within their capacity.
WorkerInv == WorkerTypeOK /\ TerminatedIsQuiet /\ WorkerAccounted

\* "Disposing while the loop is inside a V8 call is a use-after-free, so the wait is
\* mandatory": nobody executes JavaScript in an isolate that terminate disposed of.
IsolateIsFree == \A w \in Workers : term[w] = "terminated" => loop[w] # "inV8"

\* terminate and disposeAll return, even for a worker that never leaves its script,
\* one whose pump was never started, or one that two callers terminate.  (Neither
\* begins twice.)
TerminateReturns ==
  /\ \A w \in Workers : []<>(term[w] \in {"no", "terminated"})
  /\ []<>(dispose # "terminating")

\* The goroutines of a worker that is being terminated end, in time for terminate or
\* after it gave up: the pump always, though it may be started only now, and the loop
\* if its script comes back.  A mailbox that is full, which loses the wake-up envelope,
\* keeps neither.
StoppedWorkersEnd ==
  \A w \in Workers :
    /\ <>[](term[w] # "no" => pump[w] # "select")
    /\ []<>(loop[w] # "inV8") => []<>(term[w] # "no" => loop[w] \in {"none", "exited"})
=============================================================================
