----------------------------- MODULE MCNetwork -----------------------------
(***************************************************************************)
(* What a session sends, and the server that holds the sessions: the       *)
(* cookies of the session's requests; the identity that their headers and  *)
(* handshakes claim; one HTTP/2 request, whose windows of 3 (stream) and   *)
(* 2 (connection: 1 + 1) both run down and are refilled; and the registry  *)
(* with two sessions, two teardowns (a CloseSession request and the        *)
(* janitor), an operation and an SSE stream.  The parts share no state     *)
(* that these modules have, so that a behaviour explores one of them,      *)
(* which "part" names; the others stay as they begin.                      *)
(***************************************************************************)
EXTENDS SessionNetwork, MCSessionIdentity, H2Client, BridgeService

VARIABLE part

Parts == {"cookies", "identity", "client", "registry"}
partVars == <<part, vars, identityVars, h2vars, serviceVars>>

\* A part that is not explored begins in one state only.
PartsInit ==
  /\ part \in Parts
  /\ Init /\ IdentityInit /\ H2Init /\ ServiceInit
  /\ part # "identity" => options = CHOOSE o \in Options : TRUE

PartsNext ==
  /\ UNCHANGED part
  /\ \/ part = "cookies" /\ Next /\ UNCHANGED <<identityVars, h2vars, serviceVars>>
     \/ part = "identity" /\ IdentityNext /\ UNCHANGED <<vars, h2vars, serviceVars>>
     \/ part = "client" /\ H2Next /\ UNCHANGED <<vars, identityVars, serviceVars>>
     \/ part = "registry" /\ ServiceNext /\ UNCHANGED <<vars, identityVars, h2vars>>

\* The fairness of the parts; H2Client's names its part, since a dial may begin at once.
\* Of the other parts nothing that it names is enabled before they are explored.
PartsFairness ==
  /\ \A r \in Requests : WF_vars(Step(r))
  /\ WF_h2vars(part = "client" /\ Dialling)
  /\ WF_h2vars(part = "client" /\ Loop)
  /\ WF_h2vars(part = "client" /\ ServerWorks)
  /\ ServiceFairness

PartsSpec == PartsInit /\ [][PartsNext]_partVars /\ PartsFairness

-----------------------------------------------------------------------------
(* A host and a subdomain of it, an address, and lines that share names       *)
(* across hosts, domains and paths; SubLine is refused when the parent sends  *)
(* it, NumberLine when any but the address does.                              *)

Parent == <<"com", "a">>
Sub == <<"com", "a", "www">>
Number == <<"8", "8", "2", "1">>
MCAddresses == {Number}

MCUrls == {
  [scheme |-> "https", host |-> Parent, path |-> <<"x", "y">>],
  [scheme |-> "http", host |-> Sub, path |-> Root],
  [scheme |-> "http", host |-> Number, path |-> <<"x", "y">>]}

Line(name, path, domain, secure) ==
  [name |-> name, path |-> path, domain |-> domain, secure |-> secure]

HostLine == Line("sid", Root, NoDomain, FALSE)
SecureLine == Line("sid", Root, Parent, TRUE)
PathLine == Line("t", <<"x">>, Parent, FALSE)
SubLine == Line("t", Root, Sub, FALSE)
NumberLine == Line("t", <<"x">>, <<"8", "8">>, FALSE)

MCLines == {HostLine, SecureLine, PathLine, SubLine, NumberLine}
MCSetCookies == {<<HostLine, NumberLine>>, <<SecureLine, SubLine>>}
MCScriptLines == {PathLine}
=============================================================================
