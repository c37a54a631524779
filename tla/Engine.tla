-------------------------------- MODULE Engine --------------------------------
(***************************************************************************)
(* The sandbox engine: sessions that take a V8 isolate from the pool       *)
(* (internal/sandbox/isolate_pool.go) when they are created and put it     *)
(* back when they are disposed (internal/sandbox/engine.go), while         *)
(* Engine.Dispose drains the pool.                                         *)
(*                                                                         *)
(* A session is what SessionContract says of it, which module Session      *)
(* implements: this module composes many of them with one pool.  Put tests *)
(* the closed flag and sends on the channel in two steps, as the code.     *)
(***************************************************************************)
EXTENDS Naturals, Sequences, FiniteSets

CONSTANTS
  Sessions,   \* sessions that may be created
  Users,      \* calls that run JavaScript in a session
  Isolates,   \* identities of V8 isolates
  PoolSize,   \* capacity of the pool's channel
  NoIsolate

ASSUME EngineConstants == PoolSize \in Nat /\ NoIsolate \notin Isolates

VARIABLES
  pool,       \* the channel IsolatePool.pool
  closed,     \* IsolatePool.closed
  draining,   \* DisposeAll is in its loop
  made,       \* isolates created by newIsolateWithLimits
  dead,       \* isolates on which Isolate.Dispose was called
  iso,        \* the isolate of each session
  phase,      \* of each session
  users,      \* the calls inside each session's context
  raced       \* (no variable of the code) the sessions that were past the test of
              \* closed in Put when DisposeAll set it

vars == <<pool, closed, draining, made, dead, iso, phase, users, raced>>
poolVars == <<pool, closed, draining, made, dead, raced>>
sessVars == <<iso, phase, users>>

\* "putting": past the test of closed in Put.  "leaked": Dispose gave up on the
\* calls in flight.  The others are the phases of SessionContract.
Phases == {"none", "live", "closing", "closed", "putting", "returned", "leaked"}

TypeOK ==
  /\ pool \in Seq(Isolates) /\ Len(pool) <= PoolSize
  /\ closed \in BOOLEAN
  /\ draining \in BOOLEAN
  /\ made \subseteq Isolates
  /\ dead \subseteq Isolates
  /\ iso \in [Sessions -> Isolates \cup {NoIsolate}]
  /\ phase \in [Sessions -> Phases]
  /\ users \in [Sessions -> SUBSET Users]
  /\ raced \subseteq Sessions

Init ==
  /\ pool = <<>>
  /\ closed = FALSE
  /\ draining = FALSE
  /\ made = {}
  /\ dead = {}
  /\ iso = [s \in Sessions |-> NoIsolate]
  /\ phase = [s \in Sessions |-> "none"]
  /\ users = [s \in Sessions |-> {}]
  /\ raced = {}

SetPhase(s, p) == phase' = [phase EXCEPT ![s] = p]

-----------------------------------------------------------------------------
(* CreateSession: pool.Get, then the context.                              *)

Start(s, i) ==
  /\ phase[s] = "none"
  /\ iso' = [iso EXCEPT ![s] = i]
  /\ SetPhase(s, "live")
  /\ UNCHANGED users

CreatePooled(s) ==
  /\ pool # <<>>
  /\ Start(s, Head(pool))
  /\ pool' = Tail(pool)
  /\ UNCHANGED <<closed, draining, made, dead, raced>>

CreateFresh(s) ==
  /\ pool = <<>>
  /\ \E i \in Isolates \ made :
       /\ Start(s, i)
       /\ made' = made \cup {i}
  /\ UNCHANGED <<pool, closed, draining, dead, raced>>

-----------------------------------------------------------------------------
(* The life of a session.                                                  *)

Admit(s, u) ==
  /\ phase[s] = "live"
  /\ users' = [users EXCEPT ![s] = @ \cup {u}]
  /\ UNCHANGED <<poolVars, iso, phase>>

Leave(s, u) ==
  /\ u \in users[s]
  /\ users' = [users EXCEPT ![s] = @ \ {u}]
  /\ UNCHANGED <<poolVars, iso, phase>>

StartClosing(s) ==
  /\ phase[s] = "live"
  /\ SetPhase(s, "closing")
  /\ UNCHANGED <<poolVars, iso, users>>

CloseContext(s) ==
  /\ phase[s] = "closing"
  /\ users[s] = {}
  /\ SetPhase(s, "closed")
  /\ UNCHANGED <<poolVars, iso, users>>

GiveUp(s) ==
  /\ phase[s] = "closing"
  /\ users[s] # {}
  /\ SetPhase(s, "leaked")
  /\ UNCHANGED <<poolVars, iso, users>>

-----------------------------------------------------------------------------
(* IsolatePool.Put.                                                        *)

\* Mutant: iso.Dispose is forgotten when the pool is closed.
PutClosedForgets(s) ==
  /\ phase[s] = "closed"
  /\ closed
  /\ SetPhase(s, "returned")
  /\ UNCHANGED <<poolVars, iso, users>>

PutClosed(s) ==
  /\ phase[s] = "closed"
  /\ closed
  /\ dead' = dead \cup {iso[s]}
  /\ SetPhase(s, "returned")
  /\ UNCHANGED <<pool, closed, draining, made, raced, iso, users>>

PutOpen(s) ==
  /\ phase[s] = "closed"
  /\ ~closed
  /\ SetPhase(s, "putting")
  /\ UNCHANGED <<poolVars, iso, users>>

\* Mutant: Dispose is not idempotent and the isolate may be put back once more.
PutSendTwice(s) ==
  /\ phase[s] = "putting"
  /\ Len(pool) < PoolSize
  /\ pool' = Append(pool, iso[s])
  /\ UNCHANGED <<closed, draining, made, dead, raced, sessVars>>

PutSend(s) ==
  /\ phase[s] = "putting"
  /\ Len(pool) < PoolSize
  /\ pool' = Append(pool, iso[s])
  /\ SetPhase(s, "returned")
  /\ UNCHANGED <<closed, draining, made, dead, raced, iso, users>>

PutFull(s) ==
  /\ phase[s] = "putting"
  /\ Len(pool) = PoolSize
  /\ dead' = dead \cup {iso[s]}
  /\ SetPhase(s, "returned")
  /\ UNCHANGED <<pool, closed, draining, made, raced, iso, users>>

-----------------------------------------------------------------------------
(* Engine.Dispose: IsolatePool.DisposeAll.                                 *)

DisposeAll ==
  /\ ~draining
  /\ draining' = TRUE
  /\ closed' = TRUE
  /\ raced' = raced \cup {s \in Sessions : phase[s] = "putting"}
  /\ UNCHANGED <<pool, made, dead, sessVars>>

DisposeOne ==
  /\ draining
  /\ pool # <<>>
  /\ dead' = dead \cup {Head(pool)}
  /\ pool' = Tail(pool)
  /\ UNCHANGED <<closed, draining, made, raced, sessVars>>

DisposeAllEnds ==
  /\ draining
  /\ pool = <<>>
  /\ draining' = FALSE
  /\ UNCHANGED <<pool, closed, made, dead, raced, sessVars>>

-----------------------------------------------------------------------------
SessionStep(s) ==
  \/ CreatePooled(s) \/ CreateFresh(s)
  \/ \E u \in Users : Admit(s, u) \/ Leave(s, u)
  \/ StartClosing(s) \/ CloseContext(s) \/ GiveUp(s)
  \/ PutClosed(s) \/ PutOpen(s) \/ PutSend(s) \/ PutFull(s)

Next ==
  \/ \E s \in Sessions : SessionStep(s)
  \/ DisposeAll
  \/ DisposeOne
  \/ DisposeAllEnds

Spec == Init /\ [][Next]_vars

-----------------------------------------------------------------------------
Pooled == {pool[i] : i \in DOMAIN pool}

\* The sessions that hold isolate i: not created by them, not yet put back.
Holds(s) == phase[s] \notin {"none", "returned"}
Holders(i) == {s \in Sessions : Holds(s) /\ iso[s] = i}

\* No isolate serves two sessions, and none that a session holds is in the pool,
\* where another session could take it, or in the pool twice.
IsolateExclusive ==
  /\ \A s, t \in Sessions : Holds(s) /\ Holds(t) /\ iso[s] = iso[t] => s = t
  /\ \A s \in Sessions : Holds(s) => iso[s] \notin Pooled
  /\ \A i, j \in DOMAIN pool : pool[i] = pool[j] => i = j

\* Nothing disposed is held or pooled: no session runs on a disposed isolate and no
\* isolate is disposed a second time.
NothingDeadInUse ==
  /\ \A s \in Sessions : Holds(s) => iso[s] \in made \ dead
  /\ Pooled \subseteq made \ dead

\* Calls are inside a session only in the phases in which it holds its isolate.
UsersHold ==
  \A s \in Sessions : users[s] # {} => phase[s] \in {"live", "closing", "leaked"}

\* The inductive invariant: isolates in use are exclusive and alive, and JavaScript
\* runs only in a session that holds its isolate.
PoolInv ==
  /\ TypeOK
  /\ IsolateExclusive
  /\ NothingDeadInUse
  /\ UsersHold
  /\ dead \subseteq made

\* JavaScript of two sessions never shares an isolate, and never runs on one that is
\* pooled or disposed, not even JavaScript left behind by a Dispose that gave up.
UsersIsolated ==
  \A s \in Sessions : users[s] # {} =>
    /\ Holders(iso[s]) = {s}
    /\ iso[s] \notin Pooled \cup dead

\* Every isolate ever made is held by a session, pooled, or disposed.
NoneMissing == \A i \in made : Holders(i) # {} \/ i \in Pooled \/ i \in dead

\* What is in the pool after DisposeAll has drained it, where no other DisposeAll will
\* come for it, was put there by sessions that had tested closed before it was set.
LateOnesRaced == closed /\ ~draining => \A i \in Pooled : \E s \in raced : iso[s] = i

\* No isolate is lost on its way between sessions and the pool, but for those of the
\* Puts that race DisposeAll.
IsolateAccounted == NoneMissing /\ LateOnesRaced

\* "The closed check prevents a session that outlives Engine.Dispose from quietly
\* returning its Isolate to a pool whose channel DisposeAll has already drained".
ClosedPoolIsEmpty == closed /\ ~draining => pool = <<>>
=============================================================================
