------------------------------ MODULE Correlator ------------------------------
(***************************************************************************)
(* Keeping a batch of sessions apart (internal/session/correlate.go): the  *)
(* registry of admitted fingerprints, and concurrent calls of              *)
(* GenerateDistinct, each of which generates and admits until a            *)
(* fingerprint is far enough from all that were admitted before.           *)
(***************************************************************************)
EXTENDS Integers, Sequences

CONSTANTS
  Creators,         \* calls of GenerateDistinct
  Prints,           \* fingerprints
  Far,              \* the pairs whose distance reaches the threshold
  SeedSpace,        \* seeds are numbers modulo SeedSpace (2^64 in the code)
  MaxAttempts,      \* the calls' maxAttempts, from 0 to this
  MaxResets         \* bound: calls of Reset

ASSUME CorrelatorConstants ==
  /\ Far \subseteq Prints \X Prints
  /\ SeedSpace \in Nat \ {0} /\ MaxAttempts \in Nat /\ MaxResets \in Nat

VARIABLES
  admitted,     \* Correlator.admitted
  create,       \* the calls
  sampled,      \* history: the fingerprint that a seed gave, once it was asked
  batch         \* history: how often the registry was reset

correlatorVars == <<admitted, create, sampled, batch>>

\* The generator is deterministic: a seed that is not 0 always gives the same fingerprint.
Unknown == "unknown"
Seeds == 0..(SeedSpace - 1)

NoCreation ==
  [pc |-> "idle", seed |-> 0, left |-> 0, attempt |-> 0, print |-> Unknown, batch |-> 0]

CorrelatorInit ==
  /\ admitted = <<>>
  /\ create = [c \in Creators |-> NoCreation]
  /\ sampled = [s \in Seeds |-> Unknown]
  /\ batch = 0

\* GenerateDistinct: no attempts is one attempt.
GenerateDistinct(c, seed, attempts) ==
  /\ create[c].pc = "idle"
  /\ create' = [create EXCEPT ![c] =
       [NoCreation EXCEPT !.pc = "generate", !.seed = seed,
                          !.left = IF attempts <= 0 THEN 1 ELSE attempts]]
  /\ UNCHANGED <<admitted, sampled, batch>>

\* A seed is bumped with every attempt; seed 0 asks for a random fingerprint, and so does
\* a seed that wraps around to 0.
SeedOf(c) ==
  IF create[c].seed = 0 THEN 0 ELSE (create[c].seed + create[c].attempt) % SeedSpace

GenerateCandidate(c, p) ==
  /\ create[c].pc = "generate"
  /\ \/ SeedOf(c) = 0 /\ UNCHANGED sampled
     \/ SeedOf(c) # 0 /\ sampled[SeedOf(c)] = p /\ UNCHANGED sampled
     \/ /\ SeedOf(c) # 0 /\ sampled[SeedOf(c)] = Unknown
        /\ sampled' = [sampled EXCEPT ![SeedOf(c)] = p]
  /\ create' = [create EXCEPT ![c].pc = "admit", ![c].print = p]
  /\ UNCHANGED <<admitted, batch>>

\* The generator's own error ends the call.
GenerateFails(c) ==
  /\ create[c].pc = "generate"
  /\ create' = [create EXCEPT ![c] = NoCreation]
  /\ UNCHANGED <<admitted, sampled, batch>>

\* Mutant: the candidate is compared with the last admitted only.
PassesLast(p) == admitted # <<>> => <<p, admitted[Len(admitted)]>> \in Far

\* passesLocked
Passes(p) == \A i \in 1..Len(admitted) : <<p, admitted[i]>> \in Far

\* Admit checks and inserts under one lock.
AdmitPrint(c) ==
  /\ create[c].pc = "admit"
  /\ Passes(create[c].print)
  /\ admitted' = Append(admitted, create[c].print)
  /\ create' = [create EXCEPT ![c].pc = "holds", ![c].batch = batch]
  /\ UNCHANGED <<sampled, batch>>

TooSimilar(c) ==
  /\ create[c].pc = "admit"
  /\ ~Passes(create[c].print)
  /\ create' = [create EXCEPT ![c] =
       IF create[c].left = 1 THEN NoCreation
       ELSE [create[c] EXCEPT !.pc = "generate", !.left = create[c].left - 1,
                              !.attempt = create[c].attempt + 1, !.print = Unknown]]
  /\ UNCHANGED <<admitted, sampled, batch>>

\* The session ends; its fingerprint stays admitted.
LetGo(c) ==
  /\ create[c].pc = "holds"
  /\ create' = [create EXCEPT ![c] = NoCreation]
  /\ UNCHANGED <<admitted, sampled, batch>>

Reset ==
  /\ batch < MaxResets
  /\ admitted' = <<>>
  /\ batch' = batch + 1
  /\ UNCHANGED <<create, sampled>>

CorrelatorNext ==
  \/ Reset
  \/ \E c \in Creators :
       \/ \E s \in Seeds, n \in 0..MaxAttempts : GenerateDistinct(c, s, n)
       \/ \E p \in Prints : GenerateCandidate(c, p)
       \/ GenerateFails(c) \/ AdmitPrint(c) \/ TooSimilar(c) \/ LetGo(c)

CorrelatorSpec == CorrelatorInit /\ [][CorrelatorNext]_correlatorVars

-----------------------------------------------------------------------------
HoldsPrint(c) == create[c].pc = "holds"

\* Two sessions that were created in one batch, by calls that ran side by side and retried
\* as they liked, are apart: whichever was admitted later is far enough from the earlier one.
SessionsApart ==
  \A c, d \in Creators :
    (c # d /\ HoldsPrint(c) /\ HoldsPrint(d) /\ create[c].batch = create[d].batch) =>
      \/ <<create[c].print, create[d].print>> \in Far
      \/ <<create[d].print, create[c].print>> \in Far
=============================================================================
