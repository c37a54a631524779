---------------------------- MODULE CanvasDataset ----------------------------
(***************************************************************************)
(* The pre-collected canvas values of internal/fpengine/canvas_dataset.go: *)
(* an immutable snapshot behind an atomic pointer, loaded by the first     *)
(* lookup under a sync.Once that is itself behind an atomic pointer, and   *)
(* replaced by a reload that clears the snapshot and swaps the Once in two *)
(* steps.                                                                  *)
(*                                                                         *)
(* A dataset is the number of its file's edition; edition 0 is a missing   *)
(* file, whose snapshot is a snapshot like any other.                      *)
(***************************************************************************)
EXTENDS Integers, FiniteSets

CONSTANTS
  Lookers,      \* goroutines that look a key up, or reload
  MaxEdition,   \* bound: editions of the file
  MaxReloads    \* bound: reloads, each of which makes a new sync.Once

VARIABLES
  edition,      \* what data/canvas_dataset.json holds
  snapshot,     \* canvasDatasetState
  loader,       \* canvasDatasetLoader: the number of the current Once
  once,         \* per Once: "fresh", "running" or "done"
  look,         \* the calls in progress
  floor,        \* history: the edition on disk when the last finished reload began
  overwrote     \* history: "late" if a snapshot read before a reload was stored after it

canvasVars == <<edition, snapshot, loader, once, look, floor, overwrote>>

Nil == -1       \* no snapshot

NoCall == [pc |-> "idle", once |-> 0, seen |-> Nil, since |-> 0, from |-> "lookup", late |-> "no"]

CanvasInit ==
  /\ edition \in {0, 1}
  /\ snapshot = Nil
  /\ loader = 0
  /\ once = [o \in 0..MaxReloads |-> "fresh"]
  /\ look = [c \in Lookers |-> NoCall]
  /\ floor = 0 /\ overwrote = "no"

\* The collector writes a new file.
NewEdition ==
  /\ edition < MaxEdition
  /\ edition' = edition + 1
  /\ UNCHANGED <<snapshot, loader, once, look, floor, overwrote>>

At(c, pc) == look[c].pc = pc
Goto(c, pc) == look' = [look EXCEPT ![c].pc = pc]

\* The call has its snapshot; a reload that returns raises what later calls may expect.
Answer(c, got) ==
  /\ look' = [look EXCEPT ![c].pc = "done", ![c].seen = got, ![c].late = overwrote]
  /\ floor' = IF look[c].from = "reload" /\ look[c].since > floor THEN look[c].since ELSE floor

LookupCanvas(c) ==
  /\ At(c, "idle")
  /\ look' = [look EXCEPT ![c] = [NoCall EXCEPT !.pc = "load", !.since = floor]]
  /\ UNCHANGED <<edition, snapshot, loader, once, floor, overwrote>>

\* ReloadCanvasDataset: clear the snapshot, install a fresh Once, load.  No lock keeps two
\* reloads from being between the two stores at once.
ReloadClears(c) ==
  /\ At(c, "idle")
  /\ loader + Cardinality({d \in Lookers : At(d, "swap")}) < MaxReloads
  /\ snapshot' = Nil
  /\ look' = [d \in Lookers |->
       IF d = c THEN [NoCall EXCEPT !.pc = "swap", !.from = "reload", !.since = edition]
       ELSE IF At(d, "store") THEN [look[d] EXCEPT !.pc = "store late"]
       ELSE look[d]]
  /\ overwrote' = "no"
  /\ UNCHANGED <<edition, loader, once, floor>>

ReloadSwaps(c) ==
  /\ At(c, "swap")
  /\ loader' = loader + 1
  /\ Goto(c, "load")
  /\ UNCHANGED <<edition, snapshot, once, floor, overwrote>>

\* loadSnapshot: the published snapshot, if there is one.
Load(c) ==
  /\ At(c, "load")
  /\ \/ snapshot # Nil /\ Answer(c, snapshot)
     \/ snapshot = Nil /\ Goto(c, "loader") /\ UNCHANGED floor
  /\ UNCHANGED <<edition, snapshot, loader, once, overwrote>>

TakeLoader(c) ==
  /\ At(c, "loader")
  /\ look' = [look EXCEPT ![c].pc = "do", ![c].once = loader]
  /\ UNCHANGED <<edition, snapshot, loader, once, floor, overwrote>>

\* loader.Do: the first caller runs the function, those that come meanwhile wait for it,
\* those that come later run nothing.
Do(c) ==
  /\ At(c, "do")
  /\ \/ /\ once[look[c].once] = "fresh"
        /\ once' = [once EXCEPT ![look[c].once] = "running"]
        /\ Goto(c, "recheck")
     \/ once[look[c].once] = "done" /\ Goto(c, "again") /\ UNCHANGED once
  /\ UNCHANGED <<edition, snapshot, loader, floor, overwrote>>

\* The function of the Once: nothing to do when a snapshot is there by now.
Recheck(c) ==
  /\ At(c, "recheck")
  /\ \/ /\ snapshot # Nil
        /\ once' = [once EXCEPT ![look[c].once] = "done"]
        /\ Goto(c, "again")
     \/ snapshot = Nil /\ Goto(c, "read") /\ UNCHANGED once
  /\ UNCHANGED <<edition, snapshot, loader, floor, overwrote>>

ReadDataset(c) ==
  /\ At(c, "read")
  /\ look' = [look EXCEPT ![c].pc = "store", ![c].seen = edition]
  /\ UNCHANGED <<edition, snapshot, loader, once, floor, overwrote>>

StoreDataset(c) ==
  /\ At(c, "store") \/ At(c, "store late")
  /\ snapshot' = look[c].seen
  /\ overwrote' = IF At(c, "store late") THEN "late" ELSE overwrote
  /\ once' = [once EXCEPT ![look[c].once] = "done"]
  /\ Goto(c, "again")
  /\ UNCHANGED <<edition, loader, floor>>

\* Mutant: the second look at the pointer is the answer, whatever it holds.
LoadAgainOnly(c) ==
  /\ At(c, "again")
  /\ Answer(c, snapshot)
  /\ UNCHANGED <<edition, snapshot, loader, once, overwrote>>

\* A reload may have cleared the snapshot since; then the file is read directly, and what
\* it holds is not published.
LoadAgain(c) ==
  /\ At(c, "again")
  /\ \/ snapshot # Nil /\ Answer(c, snapshot)
     \/ snapshot = Nil /\ Answer(c, edition)
  /\ UNCHANGED <<edition, snapshot, loader, once, overwrote>>

HangUp(c) ==
  /\ At(c, "done")
  /\ look' = [look EXCEPT ![c] = NoCall]
  /\ UNCHANGED <<edition, snapshot, loader, once, floor, overwrote>>

CanvasNext ==
  \/ NewEdition
  \/ \E c \in Lookers :
       \/ LookupCanvas(c) \/ ReloadClears(c) \/ ReloadSwaps(c)
       \/ Load(c) \/ TakeLoader(c) \/ Do(c)
       \/ Recheck(c) \/ ReadDataset(c) \/ StoreDataset(c)
       \/ LoadAgain(c) \/ HangUp(c)

CanvasSpec == CanvasInit /\ [][CanvasNext]_canvasVars

-----------------------------------------------------------------------------
\* A call never sees the gap between the two steps of a reload: it returns a snapshot.
\* And the snapshot is no older than the file was when the last reload began that
\* returned before the call, unless a goroutine that had read the file before a reload
\* published what it had read after it.
LookupsSeeTheReload ==
  \A c \in Lookers : At(c, "done") =>
    /\ look[c].seen # Nil
    /\ look[c].late = "no" => look[c].seen >= look[c].since
=============================================================================
