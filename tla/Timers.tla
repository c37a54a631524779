-------------------------------- MODULE Timers --------------------------------
(***************************************************************************)
(* The event loop of a session: internal/sandbox/timers.go and the drain   *)
(* loop EvalAwait runs on it (internal/sandbox/engine.go).                 *)
(*                                                                         *)
(* setTimeout, setInterval and every delivery from outside (worker reply,  *)
(* WebSocket event, XHR answer) register a timer whose goroutine waits and *)
(* then puts the callback into a bounded queue; an evaluation takes it out *)
(* and runs it under the V8 Locker.  Dispose calls StopAll meanwhile.      *)
(*                                                                         *)
(* timerEntry.stopped and the closed channel timerEntry.stop are written   *)
(* together under tm.mu: stopFlag is the set of entries where both hold.   *)
(* The goroutine reads entry.stopped without tm.mu; on the builds' memory  *)
(* model it sees the flag from before or from after a cancel.              *)
(***************************************************************************)
EXTENDS Naturals, Sequences, FiniteSets

CONSTANTS
  OneShots,   \* setTimeout and requestAnimationFrame calls made by scripts
  Posts,      \* scheduleTimer(0) calls of pumps and network goroutines: what they deliver
  Intervals,  \* setInterval calls
  Evals,      \* evaluations; each has its own drain loop
  Nobody,     \* nobody holds the V8 Locker; no callback in hand
  QueueCap,   \* capacity of callbackQueue (256 in the code)
  TickBound   \* bound on the ticks of an interval timer

ASSUME TimersAreDistinct ==
  /\ OneShots \cap (Posts \cup Intervals) = {}
  /\ Posts \cap Intervals = {}
  /\ Nobody \notin OneShots \cup Posts \cup Intervals \cup Evals

ASSUME BoundsAreNumbers == QueueCap \in Nat \ {0} /\ TickBound \in Nat

VARIABLES
  stopped,    \* tm.stopped
  timers,     \* the keys of tm.timers
  stopFlag,   \* the entries with stopped set and stop closed
  queue,      \* tm.callbackQueue
  gor,        \* where the goroutine of each timer stands
  ticks,      \* ticks of each interval so far
  fate,       \* what became of the callback of each timer that fires once
  pc,         \* where each evaluation stands
  hand,       \* the callback each drain loop has received and not run yet
  locker,     \* the evaluation executing JavaScript, or Nobody
  xhr         \* __besPendingXHR, as the set of answers it counts

loopVars == <<stopped, timers, stopFlag, queue, gor, ticks, fate, pc, hand, locker, xhr>>

Once  == OneShots \cup Posts
All   == Once \cup Intervals

\* "armed": in the select; "checked": past the test of entry.stopped; "sent":
\* about to delete its entry.
GoPC == {"none", "armed", "checked", "sent", "exited"}

\* "again": at the deadline test that ends a turn of the loop.
EvalPC == {"idle", "called", "script", "drain", "popped", "callback", "flush",
           "microtasks", "countQueue", "countTimers", "again",
           "failed", "settled", "timedOut"}

\* "open": not decided yet.
Fates == {"open", "ran", "queueFull", "discarded", "cleared"}

TimersTypeOK ==
  /\ stopped \in BOOLEAN
  /\ timers \subseteq All
  /\ stopFlag \subseteq All
  /\ queue \in Seq(All) /\ Len(queue) <= QueueCap
  /\ gor \in [All -> GoPC]
  /\ ticks \in [Intervals -> 0..TickBound]
  /\ fate \in [Once -> Fates]
  /\ pc \in [Evals -> EvalPC]
  /\ hand \in [Evals -> All \cup {Nobody}]
  /\ locker \in Evals \cup {Nobody}
  /\ xhr \subseteq Posts

TimersInit ==
  /\ stopped = FALSE
  /\ timers = {}
  /\ stopFlag = {}
  /\ queue = <<>>
  /\ gor = [t \in All |-> "none"]
  /\ ticks = [t \in Intervals |-> 0]
  /\ fate = [t \in Once |-> "open"]
  /\ pc = [e \in Evals |-> "idle"]
  /\ hand = [e \in Evals |-> Nobody]
  /\ locker = Nobody
  /\ xhr = {}

evalVars == <<pc, hand, locker, xhr>>
entryVars == <<stopped, timers, stopFlag>>

GoTo(t, l) == gor' = [gor EXCEPT ![t] = l]

\* The callbacks that are waiting in the queue.
Queued == {queue[i] : i \in DOMAIN queue}

\* The fate of the callbacks in S is settled, if it was still open.
Settle(S, f) ==
  fate' = [t \in Once |-> IF t \in S /\ fate[t] = "open" THEN f ELSE fate[t]]

-----------------------------------------------------------------------------
(* Registering and cancelling.                                             *)

\* scheduleTimer: refused with -1 once the manager is stopped.
ScheduleTimer(t) ==
  /\ ~stopped
  /\ gor[t] = "none"
  /\ timers' = timers \cup {t}
  /\ GoTo(t, "armed")
  /\ UNCHANGED <<stopped, stopFlag, queue, ticks, fate, evalVars>>

\* Mutant: the entry stays in the map.
CancelKeepsEntry(t) ==
  /\ t \in timers
  /\ stopFlag' = stopFlag \cup {t}
  /\ Settle(IF gor[t] = "armed" THEN {t} ELSE {}, "cleared")
  /\ UNCHANGED <<stopped, timers, queue, gor, ticks, evalVars>>

\* clearTimeout, clearInterval and cancelAnimationFrame.  They come too late for a
\* goroutine that is past its test of entry.stopped.
Cancel(t) ==
  /\ t \in timers
  /\ stopFlag' = stopFlag \cup {t}
  /\ timers' = timers \ {t}
  /\ Settle(IF gor[t] = "armed" THEN {t} ELSE {}, "cleared")
  /\ UNCHANGED <<stopped, queue, gor, ticks, evalVars>>

\* Mutant: the recurring timers, which "never settle", are left alone.
StopAllOneShots ==
  /\ ~stopped
  /\ stopped' = TRUE
  /\ stopFlag' = stopFlag \cup (timers \cap Once)
  /\ timers' = {}
  /\ queue' = <<>>
  /\ Settle(Queued \cup {t \in timers : gor[t] = "armed"}, "discarded")
  /\ UNCHANGED <<gor, ticks, evalVars>>

\* Session.Dispose, once: cancels every timer and empties the queue.
StopAll ==
  /\ ~stopped
  /\ stopped' = TRUE
  /\ stopFlag' = stopFlag \cup timers
  /\ timers' = {}
  /\ queue' = <<>>
  /\ Settle(Queued \cup {t \in timers : gor[t] = "armed"}, "discarded")
  /\ UNCHANGED <<gor, ticks, evalVars>>

-----------------------------------------------------------------------------
(* The goroutine of a timer.                                               *)

\* Mutant: entry.stopped is not tested after the channel of the timer is ready.
FireUnchecked(t) ==
  /\ gor[t] = "armed"
  /\ t \in Intervals => ticks[t] < TickBound
  /\ ticks' = [i \in Intervals |-> IF i = t THEN ticks[i] + 1 ELSE ticks[i]]
  /\ GoTo(t, "checked")
  /\ UNCHANGED <<entryVars, queue, fate, evalVars>>

\* The delay is over and entry.stopped is not set.
Fire(t) ==
  /\ gor[t] = "armed"
  /\ t \notin stopFlag
  /\ t \in Intervals => ticks[t] < TickBound
  /\ ticks' = [i \in Intervals |-> IF i = t THEN ticks[i] + 1 ELSE ticks[i]]
  /\ GoTo(t, "checked")
  /\ UNCHANGED <<entryVars, queue, fate, evalVars>>

\* Either branch of the select finds the entry stopped.
Stopped(t) ==
  /\ gor[t] = "armed"
  /\ t \in stopFlag
  /\ GoTo(t, "exited")
  /\ UNCHANGED <<entryVars, queue, ticks, fate, evalVars>>

AfterSend(t) == GoTo(t, IF t \in Intervals THEN "armed" ELSE "sent")

Enqueue(t) ==
  /\ gor[t] = "checked"
  /\ Len(queue) < QueueCap
  /\ queue' = Append(queue, t)
  /\ AfterSend(t)
  /\ UNCHANGED <<entryVars, ticks, fate, evalVars>>

\* The default branch: a tick is skipped, a one-shot callback is lost.
QueueFull(t) ==
  /\ gor[t] = "checked"
  /\ Len(queue) = QueueCap
  /\ Settle({t}, "queueFull")
  /\ AfterSend(t)
  /\ UNCHANGED <<entryVars, queue, ticks, evalVars>>

Forget(t) ==
  /\ gor[t] = "sent"
  /\ timers' = timers \ {t}
  /\ GoTo(t, "exited")
  /\ UNCHANGED <<stopped, stopFlag, queue, ticks, fate, evalVars>>

-----------------------------------------------------------------------------
(* An evaluation.                                                          *)

timerVars == <<entryVars, gor, ticks>>

\* Evaluation e moves on without touching the timers or the Locker.
Advance(e, from, to) ==
  /\ pc[e] = from
  /\ pc' = [pc EXCEPT ![e] = to]
  /\ UNCHANGED <<timerVars, queue, fate, hand, locker, xhr>>

\* Evaluation e gets the V8 Locker and starts running JavaScript.
Enter(e, from, to) ==
  /\ pc[e] = from
  /\ pc' = [pc EXCEPT ![e] = to]
  /\ locker = Nobody
  /\ locker' = e
  /\ UNCHANGED <<timerVars, queue>>

Exit(e, from, to) ==
  /\ pc[e] = from
  /\ pc' = [pc EXCEPT ![e] = to]
  /\ locker' = Nobody
  /\ UNCHANGED <<timerVars, queue, fate, hand, xhr>>

\* A disposed session admits no evaluation, and is disposed before StopAll.
EvalAwait(e) == ~stopped /\ Advance(e, "idle", "called")

RunScript(e) == Enter(e, "called", "script") /\ UNCHANGED <<fate, hand, xhr>>

\* The value is no Promise: the goroutine goes on to the drain loop.
ScriptReturns(e) == Exit(e, "script", "drain")

\* The script throws or is terminated, or there is no value: the goroutine returns
\* without its drain loop, and what the script has started stays behind.
ScriptFails(e) == Exit(e, "script", "failed")

\* JavaScript that runs in e registers or cancels a timer.
ScriptSchedules(e, t) == locker = e /\ ScheduleTimer(t)
ScriptCancels(e, t) == locker = e /\ Cancel(t)

\* fetch, or send of an XMLHttpRequest, whose goroutine will deliver p.
ScriptRequests(e, p) ==
  /\ locker = e
  /\ gor[p] = "none" /\ p \notin xhr
  /\ xhr' = xhr \cup {p}
  /\ UNCHANGED <<entryVars, queue, gor, ticks, fate, pc, hand, locker>>

\* DrainCallbacks: receive, then run; the receive does not need the Locker.
Receive(e) ==
  /\ pc[e] = "drain"
  /\ queue # <<>>
  /\ hand' = [hand EXCEPT ![e] = Head(queue)]
  /\ queue' = Tail(queue)
  /\ pc' = [pc EXCEPT ![e] = "popped"]
  /\ UNCHANGED <<timerVars, fate, locker, xhr>>

\* The callback of a request takes itself off the count before anything else.
RunCallback(e) ==
  /\ Enter(e, "popped", "callback")
  /\ Settle({hand[e]}, "ran")
  /\ xhr' = xhr \ {hand[e]}
  /\ hand' = [hand EXCEPT ![e] = Nobody]

CallbackReturns(e) == Exit(e, "callback", "drain")

DrainEnds(e) == queue = <<>> /\ Advance(e, "drain", "flush")

\* Flush returns when no one-shot timer is left or after 100 ms, whichever comes
\* first; then the microtask checkpoint and the pending-XHR script run.
Flush(e) == Enter(e, "flush", "microtasks") /\ UNCHANGED <<fate, hand, xhr>>

CheckpointEnds(e) == Exit(e, "microtasks", IF xhr = {} THEN "countQueue" ELSE "again")

\* ... || PendingCallbacks() > 0 || PendingOneShotTimers() > 0, two critical sections.
PendingCallbacks(e) ==
  \/ queue # <<>> /\ Advance(e, "countQueue", "again")
  \/ queue = <<>> /\ Advance(e, "countQueue", "countTimers")

\* Mutant: PendingTimers in place of PendingOneShotTimers.
PendingTimers(e) ==
  \/ timers # {} /\ Advance(e, "countTimers", "again")
  \/ timers = {} /\ Advance(e, "countTimers", "settled")

PendingOneShotTimers(e) ==
  \/ timers \cap Once # {} /\ Advance(e, "countTimers", "again")
  \/ timers \cap Once = {} /\ Advance(e, "countTimers", "settled")

SleepAndRepeat(e) == Advance(e, "again", "drain")

DeadlinePassed(e) == Advance(e, "again", "timedOut")

-----------------------------------------------------------------------------
TimerStep(t) ==
  \/ Fire(t) \/ Stopped(t) \/ Enqueue(t) \/ QueueFull(t)
  \/ t \in Once /\ Forget(t)

DrainStep(e) ==
  \/ Receive(e) \/ RunCallback(e) \/ CallbackReturns(e) \/ DrainEnds(e)
  \/ Flush(e) \/ CheckpointEnds(e)
  \/ PendingCallbacks(e) \/ PendingOneShotTimers(e)

\* The network goroutine of a request delivers its answer.
Answered(p) == p \in xhr /\ ScheduleTimer(p)

JavaScriptStep(e) ==
  \/ RunScript(e) \/ ScriptReturns(e) \/ ScriptFails(e)
  \/ \E t \in OneShots \cup Intervals : ScriptSchedules(e, t)
  \/ \E t \in All : ScriptCancels(e, t)
  \/ \E p \in Posts : ScriptRequests(e, p)

TimersNext ==
  \/ \E t \in All : TimerStep(t)
  \/ \E t \in Posts : ScheduleTimer(t)
  \/ \E e \in Evals : \/ EvalAwait(e)
                      \/ JavaScriptStep(e)
                      \/ DrainStep(e)
                      \/ SleepAndRepeat(e)
                      \/ DeadlinePassed(e)
  \/ StopAll

TimersSpec == TimersInit /\ [][TimersNext]_loopVars

\* Timers of the Go runtime fire, goroutines run, and a request is answered or fails.
\* Scripts and callbacks end; the Locker is handed on in the end.  The deadline is not
\* assumed to pass: what is proved to terminate terminates without it.
DrainFairness(e) ==
  /\ SF_loopVars(RunScript(e) \/ RunCallback(e) \/ Flush(e))
  /\ WF_loopVars(ScriptReturns(e) \/ ScriptFails(e))
  /\ WF_loopVars(Receive(e) \/ DrainEnds(e))
  /\ WF_loopVars(CallbackReturns(e) \/ CheckpointEnds(e))
  /\ WF_loopVars(PendingCallbacks(e) \/ PendingOneShotTimers(e))
  /\ WF_loopVars(SleepAndRepeat(e))

TimersFairness ==
  /\ \A t \in All : WF_loopVars(TimerStep(t))
  /\ \A p \in Posts : WF_loopVars(Answered(p))
  /\ \A e \in Evals : DrainFairness(e)

TimersFairSpec == TimersSpec /\ TimersFairness

-----------------------------------------------------------------------------
\* Where the callback of t may still be waiting to run.
InGoroutine(t) == gor[t] = "checked" \/ (gor[t] = "armed" /\ t \notin stopFlag)
InQueue(t) == {i \in DOMAIN queue : queue[i] = t}
InHand(t) == {e \in Evals : hand[e] = t}

Whereabouts(t) ==
  (IF InGoroutine(t) THEN {<<"goroutine", t>>} ELSE {})
  \cup {<<"queue", i>> : i \in InQueue(t)}
  \cup {<<"hand", e>> : e \in InHand(t)}

\* Every callback that is to fire once is in exactly one place until its fate is
\* settled, and nowhere afterwards.  So it never runs twice, not even with several
\* drain loops; it is not lost unless the queue is full or the manager is stopped;
\* and one that is cleared before its goroutine tested the flag never runs.
OneShotAccounted ==
  \A t \in Once :
    IF gor[t] # "none" /\ fate[t] = "open"
    THEN \E p \in Whereabouts(t) : Whereabouts(t) = {p}
    ELSE Whereabouts(t) = {}

\* No stop channel is closed twice, which would panic with tm.mu held: an entry
\* whose channel is closed is no longer in the map that cancel and StopAll close.
StopClosedOnce == timers \cap stopFlag = {}

\* What StopAll can rely on: every goroutine that still waits has been told to
\* stop, so at most one callback of each timer reaches the queue afterwards.
StopReachesAll ==
  stopped => timers = {} /\ \A t \in All : gor[t] = "armed" => t \in stopFlag

\* A goroutine is tracked in tm.timers until its entry is stopped or it is about to
\* exit: PendingOneShotTimers counts all that may still deliver.
TimersTracked ==
  \A t \in All :
    /\ t \in timers => gor[t] \in {"armed", "checked", "sent"}
    /\ gor[t] \in {"armed", "checked"} => t \in timers \cup stopFlag
    /\ gor[t] = "none" => t \notin stopFlag

\* The inductive invariant behind the three.
EntryInv == TimersTypeOK /\ StopClosedOnce /\ StopReachesAll /\ TimersTracked

\* The answer to a request that counts as pending will never run: it was dropped by a
\* full queue, cancelled by its number, or refused or discarded by StopAll.
AnswerLost ==
  \E p \in xhr : fate[p] \notin {"open", "ran"} \/ (stopped /\ gor[p] = "none")

\* setInterval never keeps an evaluation in its drain loop: with timers that tick
\* slowly enough, evaluations return without the help of their deadline.  (No evaluation
\* starts twice: to be here again and again is to return.)  Only the lost answer of a
\* request leaves an evaluation to its deadline.
IntervalsDontPin ==
  \A e \in Evals :
    []<>(pc[e] \in {"idle", "failed", "settled", "timedOut"} \/ AnswerLost)

\* No goroutine leaks: those of one-shots end, those of intervals end with StopAll.
\* (No goroutine starts twice.)
GoroutinesEnd ==
  /\ \A t \in Once : []<>(gor[t] \in {"none", "exited"})
  /\ \A t \in Intervals : []<>(stopped => gor[t] \in {"none", "exited"})
=============================================================================
