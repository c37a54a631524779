--------------------------- MODULE SessionContract ---------------------------
(***************************************************************************)
(* What a sandbox session promises to those who share its V8 isolate: work *)
(* enters the context only while the session is live, the context is       *)
(* closed only after the last user has left it, and the isolate goes back  *)
(* to the pool only after the context is closed.  A session that never     *)
(* gets rid of a user never gives its isolate back.                        *)
(***************************************************************************)
CONSTANT Users    \* the calls that run JavaScript in the context

VARIABLES
  phase,          \* of the session
  users           \* the calls that are using the context

vars == <<phase, users>>

Phases == {"live", "closing", "closed", "returned"}

TypeOK == phase \in Phases /\ users \subseteq Users

Init == phase = "live" /\ users = {}

Admit(u) ==
  /\ phase = "live"
  /\ users' = users \cup {u}
  /\ UNCHANGED phase

Leave(u) ==
  /\ users' = users \ {u}
  /\ UNCHANGED phase

StartClosing ==
  /\ phase = "live"
  /\ phase' = "closing"
  /\ UNCHANGED users

CloseContext ==
  /\ phase = "closing"
  /\ users = {}
  /\ phase' = "closed"
  /\ UNCHANGED users

ReturnIsolate ==
  /\ phase = "closed"
  /\ phase' = "returned"
  /\ UNCHANGED users

Next ==
  \/ \E u \in Users : Admit(u) \/ Leave(u)
  \/ StartClosing
  \/ CloseContext
  \/ ReturnIsolate

Spec == Init /\ [][Next]_vars
=============================================================================
