----------------------------- MODULE ProfileStore -----------------------------
(***************************************************************************)
(* Saved profiles (internal/session/profile.go and the profile operations  *)
(* of internal/bridge/service.go): a live session's identity is written to *)
(* one JSON file per session, in place, and a later session is created     *)
(* from it, perhaps by another process.                                    *)
(*                                                                         *)
(* A fingerprint is what determines it: the seed, the browser or system    *)
(* that the session was asked for, and the version of the data it was      *)
(* drawn from.  A location stands for what a page changes while a session  *)
(* lives (its cookies are saved and restored beside it).                   *)
(***************************************************************************)
EXTENDS Integers

CONSTANTS
  Slots,          \* sessions that live at the same time; a slot's number names its profile
  ProfileRequests,       \* requests of the profile operations
  ProfileSeeds,          \* seeds of sessions
  MaxData,        \* bound: versions of the fingerprint data
  MaxCrashes      \* bound: crashes of the process

VARIABLES
  data,           \* the version of the fingerprint data in use
  live,           \* the sessions
  profileFile,    \* the files of data/profiles
  req,            \* the requests in progress
  crashes,
  trusted         \* history: per profile, what the last save wrote that nothing disturbed

profileVars == <<data, live, profileFile, req, crashes, trusted>>

Asked == {"any", "firefox"}       \* SessionOptions.Browser, OS and Timezone
Places == {"home", "shop"}

\* GenerateWithTimezone is deterministic in these.
Generated(seed, asked) == [seed |-> seed, asked |-> asked, data |-> data]

NoPrint == [seed |-> 0, asked |-> "any", data |-> 0]
Missing == [what |-> "missing", print |-> NoPrint, place |-> "none"]
TornFile == [Missing EXCEPT !.what = "torn"]     \* truncated, or the remains of two writes
Snapshot(print, place) == [what |-> "whole", print |-> print, place |-> place]

NoSession == [print |-> NoPrint, place |-> "none", like |-> Missing]
Idle == [pc |-> "idle", slot |-> 0, read |-> Missing, like |-> Missing]

ProfileInit ==
  /\ data = 1
  /\ live = [s \in Slots |-> NoSession]
  /\ profileFile = [s \in Slots |-> Missing]
  /\ req = [r \in ProfileRequests |-> Idle]
  /\ crashes = 0
  /\ trusted = [s \in Slots |-> Missing]

Lives(s) == live[s].place # "none"

Create(s, seed, asked, place) ==
  /\ ~Lives(s)
  /\ live' = [live EXCEPT ![s] =
       [print |-> Generated(seed, asked), place |-> place, like |-> Missing]]
  /\ UNCHANGED <<data, profileFile, req, crashes, trusted>>

\* The page navigates; SwapFingerprint gives the session another identity.
Browse(s, place) ==
  /\ Lives(s) /\ live[s].place # place
  /\ live' = [live EXCEPT ![s].place = place, ![s].like = Missing]
  /\ UNCHANGED <<data, profileFile, req, crashes, trusted>>

Swap(s, seed, asked) ==
  /\ Lives(s)
  /\ live' = [live EXCEPT ![s].print = Generated(seed, asked), ![s].like = Missing]
  /\ UNCHANGED <<data, profileFile, req, crashes, trusted>>

Close(s) ==
  /\ Lives(s)
  /\ live' = [live EXCEPT ![s] = NoSession]
  /\ UNCHANGED <<data, profileFile, req, crashes, trusted>>

NewData ==
  /\ data < MaxData
  /\ data' = data + 1
  /\ UNCHANGED <<live, profileFile, req, crashes, trusted>>

-----------------------------------------------------------------------------
(* SaveProfile: the fingerprint, then the rest, then the file. *)

ReadPrint(r, s) ==
  /\ req[r].pc = "idle" /\ Lives(s)
  /\ req' = [req EXCEPT ![r] =
       [Idle EXCEPT !.pc = "place", !.slot = s, !.read = Snapshot(live[s].print, "none")]]
  /\ UNCHANGED <<data, live, profileFile, crashes, trusted>>

\* A session that was closed meanwhile still answers.
ReadPlace(r, place) ==
  /\ req[r].pc = "place"
  /\ Lives(req[r].slot) => place = live[req[r].slot].place
  /\ req' = [req EXCEPT ![r].pc = "open", ![r].read.place = place]
  /\ UNCHANGED <<data, live, profileFile, crashes, trusted>>

Writing(r, s) == req[r].pc = "write" /\ req[r].slot = s

\* os.WriteFile opens with O_TRUNC: the old profile is gone before the new one is there.
OpenProfile(r) ==
  LET s == req[r].slot IN
  /\ req[r].pc = "open"
  /\ profileFile' = [profileFile EXCEPT ![s] = TornFile]
  /\ trusted' = [trusted EXCEPT ![s] = Missing]
  /\ req' = [req EXCEPT ![r].pc = "write"]
  /\ UNCHANGED <<data, live, crashes>>

\* The bytes go to the beginning of the file.  When another save of the profile has written
\* since this one opened it, the tail of what it wrote may stay.
WriteProfile(r, result) ==
  LET s == req[r].slot IN
  /\ req[r].pc = "write"
  /\ result \in {req[r].read} \cup (IF profileFile[s].what = "whole" THEN {TornFile} ELSE {})
  /\ profileFile' = [profileFile EXCEPT ![s] = result]
  /\ trusted' = [trusted EXCEPT ![s] =
       IF profileFile[s] = TornFile /\ (\A q \in ProfileRequests \ {r} : ~Writing(q, s))
       THEN req[r].read ELSE Missing]
  /\ req' = [req EXCEPT ![r] = Idle]
  /\ UNCHANGED <<data, live, crashes>>

\* What a full disk leaves.
SaveFails(r) ==
  /\ req[r].pc = "write"
  /\ profileFile' = [profileFile EXCEPT ![req[r].slot] = TornFile]
  /\ trusted' = [trusted EXCEPT ![req[r].slot] = Missing]
  /\ req' = [req EXCEPT ![r] = Idle]
  /\ UNCHANGED <<data, live, crashes>>

\* os.Remove; a save that has opened the file goes on to write what nobody will read.
DeleteProfile(s) ==
  /\ profileFile[s] # Missing
  /\ profileFile' = [profileFile EXCEPT ![s] = Missing]
  /\ trusted' = [trusted EXCEPT ![s] = Missing]
  /\ req' = [r \in ProfileRequests |->
       IF Writing(r, s) THEN [req[r] EXCEPT !.pc = "write unlinked"] ELSE req[r]]
  /\ UNCHANGED <<data, live, crashes>>

WriteUnlinked(r) ==
  /\ req[r].pc = "write unlinked"
  /\ req' = [req EXCEPT ![r] = Idle]
  /\ UNCHANGED <<data, live, profileFile, crashes, trusted>>

-----------------------------------------------------------------------------
(* ResumeProfile *)

\* Load; a missing or torn file ends the request with an error.
LoadProfile(r, s) ==
  /\ req[r].pc = "idle" /\ profileFile[s].what = "whole"
  /\ req' = [req EXCEPT ![r] =
       [pc |-> "resume", slot |-> s, read |-> profileFile[s], like |-> trusted[s]]]
  /\ UNCHANGED <<data, live, profileFile, crashes, trusted>>

ResumeAs(r, s, print, place) ==
  /\ req[r].pc = "resume" /\ ~Lives(s)
  /\ live' = [live EXCEPT ![s] = [print |-> print, place |-> place, like |-> req[r].like]]
  /\ req' = [req EXCEPT ![r] = Idle]
  /\ UNCHANGED <<data, profileFile, crashes, trusted>>

\* Mutant: the location is left out of the options, which gives the default one.
ResumeAtHome(r, s) == ResumeAs(r, s, Generated(req[r].read.print.seed, "any"), "home")

\* CreateSession with the seed, the location, the cookies and the proxy of the profile: the
\* fingerprint is generated again, for no browser or system in particular and from the
\* data of today.
Resume(r, s) ==
  ResumeAs(r, s, Generated(req[r].read.print.seed, "any"), req[r].read.place)

\* The process dies; a save between its two steps leaves a torn file.
Crash ==
  /\ crashes < MaxCrashes
  /\ crashes' = crashes + 1
  /\ live' = [s \in Slots |-> NoSession]
  /\ req' = [r \in ProfileRequests |-> Idle]
  /\ UNCHANGED <<data, profileFile, trusted>>

ProfileNext ==
  \/ NewData \/ Crash
  \/ \E s \in Slots :
       \/ \E seed \in ProfileSeeds, asked \in Asked, place \in Places : Create(s, seed, asked, place)
       \/ \E place \in Places : Browse(s, place)
       \/ \E seed \in ProfileSeeds, asked \in Asked : Swap(s, seed, asked)
       \/ Close(s) \/ DeleteProfile(s)
  \/ \E r \in ProfileRequests :
       \/ \E s \in Slots : ReadPrint(r, s) \/ LoadProfile(r, s) \/ Resume(r, s)
       \/ \E place \in Places : ReadPlace(r, place)
       \/ OpenProfile(r) \/ SaveFails(r) \/ WriteUnlinked(r)
       \/ \E result \in {req[r].read, TornFile} : WriteProfile(r, result)

ProfileSpec == ProfileInit /\ [][ProfileNext]_profileVars

-----------------------------------------------------------------------------
\* A profile that was saved by one request alone stays what that request read until
\* the next save of it or its deletion, whatever crashes meanwhile; and a session resumed
\* from it is where the saved session was, and has the fingerprint that the saved seed gives
\* from the data of today when nothing in particular is asked for.
SavedProfilesResume ==
  /\ \A s \in Slots : trusted[s] # Missing => profileFile[s] = trusted[s]
  /\ \A s \in Slots : live[s].like # Missing =>
       /\ live[s].place = live[s].like.place
       /\ live[s].print.seed = live[s].like.print.seed
       /\ live[s].print.asked = "any"

\* What ResumeProfile's comment says: the fingerprint is restored by its seed.  With the same
\* data, a resumed session has the fingerprint that was saved.
ResumedAsSaved ==
  \A s \in Slots :
    (live[s].like # Missing /\ live[s].like.print.data = live[s].print.data)
      => live[s].print = live[s].like.print
=============================================================================
