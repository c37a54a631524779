------------------------------ MODULE MCWebSocket ------------------------------
(***************************************************************************)
(* WebSocket with up to two evaluations and a handful of messages, and the *)
(* frames that carry them.  A behaviour explores one of the two, which     *)
(* "part" names.                                                           *)
(***************************************************************************)
EXTENDS WebSocket, MCWSFrame, TLC

VARIABLE part

partVars == <<part, vars, frameVars>>

PartsInit == part \in {"bridge", "frames"} /\ Init /\ FrameInit

PartsNext ==
  /\ UNCHANGED part
  /\ \/ part = "bridge" /\ Next /\ UNCHANGED frameVars
     \/ part = "frames" /\ FrameNext /\ UNCHANGED vars

PartsSpec == PartsInit /\ [][PartsNext]_partVars

DrainSymmetry == Permutations(Drains)
=============================================================================
