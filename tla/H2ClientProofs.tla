--------------------------- MODULE H2ClientProofs ---------------------------
(***************************************************************************)
(* Flow control never stalls the server, for every size of the windows     *)
(* that satisfies WindowsAssumption.  Every step of the client and of its  *)
(* server is a step of FlowControl or leaves its variables alone, so what  *)
(* is proved there holds here; the frames under way add up to its          *)
(* counters; the response that comes out of them is whole, and its end is  *)
(* missed only where HEADERS announce it; and whatever fails, a request is *)
(* written once and its connection closed.                                 *)
(***************************************************************************)
EXTENDS H2Client, SequenceTheorems, WellFoundedInduction, TLAPS

(* The accounts and the natural numbers they are kept in. *)
TypeOK ==
  /\ sendStream \in Nat /\ sendConn \in Nat /\ inFlight \in Nat
  /\ streamWindow \in Nat /\ connWindow \in Nat
  /\ toStream \in Nat /\ toConn \in Nat

IInv == TypeOK /\ Accounts

USE WindowsAssumption

(* A window that has just been charged and refilled is above half again, and
   the refill is never negative. *)
LEMMA RefillBounds ==
  ASSUME NEW total \in Nat \ {0}, NEW w \in Int, w <= total
  PROVE  /\ Refill(w, total) \in Nat
         /\ total \div 2 < Refill(w, total)
         /\ Refill(w, total) <= total
         /\ w <= Refill(w, total)
<1>1. total \div 2 \in Nat /\ total \div 2 < total
  OBVIOUS
<1>2. CASE w <= total \div 2
  BY <1>1, <1>2 DEF Refill
<1>3. CASE ~(w <= total \div 2)
  BY <1>1, <1>3 DEF Refill
<1> QED BY <1>2, <1>3

(* The windows start as announced. *)
LEMMA InitInv == FlowInit => IInv
<1>1. ConnWindowTotal \in Nat \ {0}
  BY DEF ConnWindowTotal
<1>2. InitialWindow \div 2 < InitialWindow /\ ConnWindowTotal \div 2 < ConnWindowTotal
  BY <1>1
<1> QED BY <1>1, <1>2 DEF FlowInit, IInv, TypeOK, Accounts, ConnWindowTotal

(* Every step on the windows keeps the accounts. *)
LEMMA StepInv == IInv /\ [FlowNext]_flowVars => IInv'
<1> SUFFICES ASSUME IInv, [FlowNext]_flowVars PROVE IInv'
  OBVIOUS
<1> USE DEF IInv, TypeOK
<1>1. ASSUME NEW n \in Nat \ {0}, SendData(n) PROVE IInv'
  BY <1>1 DEF SendData, Accounts
<1>2. ASSUME NEW n \in Nat \ {0}, Consume(n) PROVE IInv'
  <2>1. ConnWindowTotal \in Nat \ {0}
    BY DEF ConnWindowTotal
  <2>2. /\ streamWindow - n \in Int /\ streamWindow - n <= InitialWindow
        /\ connWindow - n \in Int /\ connWindow - n <= ConnWindowTotal
    BY <2>1 DEF Accounts
  <2>3. /\ streamWindow' \in Nat /\ InitialWindow \div 2 < streamWindow'
        /\ streamWindow' <= InitialWindow /\ streamWindow - n <= streamWindow'
    BY <1>2, <2>2, RefillBounds DEF Consume
  <2>4. /\ connWindow' \in Nat /\ ConnWindowTotal \div 2 < connWindow'
        /\ connWindow' <= ConnWindowTotal /\ connWindow - n <= connWindow'
    BY <1>2, <2>1, <2>2, RefillBounds DEF Consume
  <2>5. TypeOK'
    BY <1>2, <2>3, <2>4 DEF Consume
  <2>6. /\ sendStream' + inFlight' + toStream' = streamWindow'
        /\ sendConn' + inFlight' + toConn' = connWindow' - InitialWindow + DefaultWindow
    BY <1>2, <2>3, <2>4 DEF Consume, Accounts
  <2> QED BY <2>3, <2>4, <2>5, <2>6 DEF Accounts, ConnWindowTotal
<1>3. ASSUME NEW n \in Nat \ {0}, GrantStream(n) PROVE IInv'
  BY <1>3 DEF GrantStream, Accounts
<1>4. ASSUME NEW n \in Nat \ {0}, GrantConn(n) PROVE IInv'
  BY <1>4 DEF GrantConn, Accounts
<1>5. CASE UNCHANGED flowVars
  BY <1>5 DEF flowVars, Accounts
<1> QED BY <1>1, <1>2, <1>3, <1>4, <1>5 DEF FlowNext

(* The two sides' accounts of both windows agree in every reachable state. *)
THEOREM AccountsAgree == FlowSpec => []Accounts
<1>1. IInv => Accounts
  BY DEF IInv
<1> QED BY <1>1, InitInv, StepInv, PTL DEF FlowSpec

(* A server with nothing on its way in either direction has both windows open:
   a response body of any length is never stalled by flow control. *)
THEOREM ServerNeverStalls == FlowSpec => []NoStall
<1>1. IInv => NoStall
  <2> SUFFICES ASSUME IInv, inFlight = 0, toStream = 0, toConn = 0
               PROVE  sendStream > 0 /\ sendConn > 0
    BY DEF NoStall
  <2>1. sendStream = streamWindow /\ sendConn = connWindow - InitialWindow + DefaultWindow
    BY DEF IInv, TypeOK, Accounts
  <2>2. InitialWindow - DefaultWindow <= ConnWindowTotal \div 2
    BY DEF ConnWindowTotal
  <2> QED BY <2>1, <2>2 DEF IInv, TypeOK, Accounts, ConnWindowTotal
<1> QED BY <1>1, InitInv, StepInv, PTL DEF FlowSpec

(* No update raises a send window above its first value. *)
THEOREM WindowsNeverOverflow == FlowSpec => []NeverAboveAnnounced
<1>1. IInv => NeverAboveAnnounced
  BY DEF IInv, TypeOK, Accounts, NeverAboveAnnounced, ConnWindowTotal
<1> QED BY <1>1, InitInv, StepInv, PTL DEF FlowSpec

-----------------------------------------------------------------------------
(* The client and its server.                                              *)

PlainFrame ==
  [type : {"SETTINGS", "PING", "IGNORED", "RST_STREAM", "GOAWAY", "UNDECODABLE"},
   last : {FALSE}]
HeaderFrame == [type : {"HEADERS", "CONTINUATION"}, more : BOOLEAN, last : BOOLEAN]
DataFrame == [type : {"DATA"}, data : Nat, len : Nat, last : BOOLEAN]
AckFrame == [type : {"ACK"}, last : {FALSE}]
UpdateFrame == [type : {"WINDOW_UPDATE"}, stream : {0, 1}, inc : Nat \ {0}]

DownFrame == PlainFrame \cup HeaderFrame \cup DataFrame
UpFrame == AckFrame \cup UpdateFrame

ServerState ==
  [left : Nat, block : BOOLEAN, heads : Nat, ended : {"no", "data", "headers", "cut"},
   preface : BOOLEAN, pinged : BOOLEAN]

(* What the two directions of the connection carry. *)
WireOK ==
  /\ down \in Seq(DownFrame)
  /\ up \in Seq(UpFrame)
  /\ srv \in ServerState

(* Where the client is decides how many connections it holds and whether the
   request has been written. *)
ConnInv ==
  /\ open \in {0, 1} /\ written \in {0, 1}
  /\ result # "none" => open = 0
  /\ result = "none" =>
       /\ open = IF phase \in {"start", "dial"} THEN 0 ELSE 1
       /\ written = IF phase = "read" THEN 1 ELSE 0

USE WindowsAssumption, RequestAssumption

(* What a DATA frame is charged is a number. *)
LEMMA DataFrameLength ==
  ASSUME NEW f \in DownFrame, f.type = "DATA"
  PROVE  f.len \in Nat
BY DEF DownFrame, PlainFrame, HeaderFrame, DataFrame

(* What is sent back besides acknowledgements is an update of some bytes. *)
LEMMA UpdateFrameFields ==
  ASSUME NEW f \in UpFrame, f.type # "ACK"
  PROVE  f.inc \in Nat \ {0}
BY DEF UpFrame, AckFrame, UpdateFrame

(* What the client sends back is a sequence of updates with increments that
   the protocol allows: an update of zero is an error to the server. *)
LEMMA RefreshFrames ==
  ASSUME NEW w \in Nat, NEW total \in Nat, w <= total, NEW stream \in {0, 1}, NEW n \in Nat
  PROVE  Refresh(stream, w, n, total) \in Seq(UpFrame)
<1>1. Refill(w - n, total) - (w - n) \in Int
  BY DEF Refill
<1>2. CASE Refill(w - n, total) - (w - n) > 0
  <2>1. Update(stream, Refill(w - n, total) - (w - n)) \in UpFrame
    BY <1>1, <1>2 DEF Update, UpFrame, UpdateFrame
  <2> QED BY <1>2, <2>1 DEF Refresh
<1>3. CASE ~(Refill(w - n, total) - (w - n) > 0)
  BY <1>3 DEF Refresh
<1> QED BY <1>2, <1>3

(* Nor are the two refreshes together anything else. *)
LEMMA DueFrames ==
  ASSUME IInv, NEW n \in Nat
  PROVE  Due(n) \in Seq(UpFrame)
<1>1. ConnWindowTotal \in Nat
  BY DEF ConnWindowTotal
<1>2. Refresh(1, streamWindow, n, InitialWindow) \in Seq(UpFrame)
  BY RefreshFrames DEF IInv, TypeOK, Accounts
<1>3. Refresh(0, connWindow, n, ConnWindowTotal) \in Seq(UpFrame)
  BY <1>1, RefreshFrames DEF IInv, TypeOK, Accounts
<1> QED BY <1>2, <1>3 DEF Due

(* Nothing is on the wire, and no connection is open. *)
LEMMA WireInit == H2Init => WireOK /\ ConnInv
BY DEF H2Init, WireOK, ConnInv, ServerState

(* The client's own steps: what they do to the wire and to the windows. *)
LEMMA ClientStep ==
  ASSUME WireOK, IInv, Dialling \/ Loop \/ Deadline \/ Returned
  PROVE  WireOK' /\ [FlowNext]_flowVars
<1>1. CASE Dialling
  <2>1. UNCHANGED <<flowVars, down, up, srv>>
    BY <1>1 DEF Dialling, DialStarts, DialRefused, Connected, ProxyAnswers, ProxyFails,
      HandshakeFails, HandshakeDone, Fallback, Write, WriteFails, ReadAll
  <2> QED BY <2>1 DEF WireOK
<1>2. CASE Deadline \/ Returned
  BY <1>2 DEF Deadline, Returned, h2vars, WireOK
<1>3. CASE Loop
  <2>1. ASSUME NEW types, Frame(types)
        PROVE  Head(down) \in DownFrame /\ down' \in Seq(DownFrame)
    BY <2>1 DEF Frame, WireOK
  <2>2. ASSUME NEW frames \in Seq(UpFrame), Wrote(frames)
        PROVE  up' \in Seq(UpFrame)
    BY <2>2 DEF Wrote, WireOK
  <2>3. CASE ReadControl
    <3>1. <<Plain("ACK")>> \in Seq(UpFrame)
      BY DEF Plain, UpFrame, AckFrame
    <3>2. Wrote(<<Plain("ACK")>>) \/ up' = up
      BY <2>3 DEF ReadControl, WriteBroken
    <3>3. Wrote(<<Plain("ACK")>>) => up' \in Seq(UpFrame)
      BY <2>2, <3>1, Zenon
    <3>4. up' \in Seq(UpFrame)
      BY <3>2, <3>3 DEF WireOK
    <3> QED BY <2>1, <2>3, <3>4 DEF ReadControl, WireOK
  <2>4. CASE ReadIgnored \/ ReadHeaders \/ ReadContinuation
    <3>1. Wrote(<<>>) /\ <<>> \in Seq(UpFrame)
      BY <2>4 DEF ReadIgnored, ReadHeaders, ReadContinuation, Quiet
    <3>2. up' \in Seq(UpFrame)
      BY <2>2, <3>1, Zenon
    <3> QED BY <2>1, <2>4, <3>2 DEF ReadIgnored, ReadHeaders, ReadContinuation, WireOK
  <2>5. CASE ReadUndecodable \/ ReadAbort
    BY <2>1, <2>5 DEF ReadUndecodable, ReadAbort, WireOK
  <2>6. CASE ReadData
    <3> DEFINE n == Head(down).len
    <3>1. n \in Nat /\ down' \in Seq(DownFrame)
      BY <2>1, <2>6, DataFrameLength DEF ReadData, Frame
    <3>2. up' \in Seq(UpFrame)
      BY <2>2, <2>6, <3>1, DueFrames DEF ReadData, WriteBroken, WireOK
    <3>3. UNCHANGED flowVars \/ (n # 0 /\ Consume(n))
      BY <2>6 DEF ReadData
    <3>4. UNCHANGED srv
      BY <2>6 DEF ReadData
    <3> QED BY <3>1, <3>2, <3>3, <3>4 DEF WireOK, FlowNext
  <2>7. CASE ReadEOF \/ ReadError \/ ReadDone
    BY <2>7 DEF ReadEOF, ReadError, ReadDone, WireOK
  <2> QED BY <1>3, <2>3, <2>4, <2>5, <2>6, <2>7 DEF Loop
<1> QED BY <1>1, <1>2, <1>3

(* The server's steps. *)
LEMMA ServerStep ==
  ASSUME WireOK, IInv, ServerWorks \/ ServerControl \/ ServerAborts \/ ServerCloses
  PROVE  WireOK' /\ [FlowNext]_flowVars
<1>1. ASSUME NEW f \in DownFrame, NEW s \in ServerState, Sends(f, s)
      PROVE  WireOK'
  BY <1>1 DEF Sends, WireOK
<1>2. CASE ServerPreface \/ ServerControl \/ ServerAborts
  <2>1. UNCHANGED flowVars
    BY <1>2 DEF ServerPreface, ServerControl, ServerAborts
  <2>2. PICK type \in {"SETTINGS", "PING", "IGNORED", "RST_STREAM", "GOAWAY", "UNDECODABLE"},
             s \in ServerState : Sends(Plain(type), s)
    BY <1>2 DEF ServerPreface, ServerControl, ServerAborts, WireOK, ServerState
  <2>3. Plain(type) \in DownFrame
    BY DEF Plain, DownFrame, PlainFrame
  <2> QED BY <1>1, <2>1, <2>2, <2>3
<1>3. CASE ServerHeaders
  <2>1. PICK more \in BOOLEAN, last \in BOOLEAN :
          Sends(Headers(more, last),
                [srv EXCEPT !.heads = @ + 1, !.block = more, !.ended = Ending(last, "headers")])
    BY <1>3 DEF ServerHeaders
  <2>2. [srv EXCEPT !.heads = @ + 1, !.block = more, !.ended = Ending(last, "headers")]
          \in ServerState
    <3>1. srv \in ServerState /\ Ending(last, "headers") \in {"no", "headers"}
      BY DEF WireOK, Ending
    <3>2. srv.heads + 1 \in Nat
      BY <3>1 DEF ServerState
    <3> QED BY <3>1, <3>2 DEF ServerState
  <2>3. Headers(more, last) \in DownFrame
    BY DEF Headers, DownFrame, HeaderFrame
  <2> QED BY <1>1, <1>3, <2>1, <2>2, <2>3 DEF ServerHeaders
<1>4. CASE ServerContinuation
  <2>1. Continuation(FALSE) \in DownFrame
    BY DEF Continuation, DownFrame, HeaderFrame
  <2>2. [srv EXCEPT !.block = FALSE] \in ServerState
    BY DEF WireOK, ServerState
  <2> QED BY <1>1, <1>4, <2>1, <2>2 DEF ServerContinuation
<1>5. CASE ServerData
  <2>1. srv.left \in Nat
    BY DEF WireOK, ServerState
  <2>2. PICK n \in 0..srv.left, pad \in 0..1, last \in BOOLEAN :
          /\ IF n + pad = 0 THEN UNCHANGED flowVars ELSE SendData(n + pad)
          /\ Sends(Data(n, pad, last),
                   [srv EXCEPT !.left = @ - n, !.ended = Ending(last, "data")])
    BY <1>5 DEF ServerData
  <2>3. n \in Nat /\ pad \in Nat /\ n + pad \in Nat /\ srv.left - n \in Nat
    BY <2>1
  <2>4. Data(n, pad, last) \in DownFrame
    BY <2>3 DEF Data, DownFrame, DataFrame
  <2>5. [srv EXCEPT !.left = @ - n, !.ended = Ending(last, "data")] \in ServerState
    BY <2>3 DEF WireOK, ServerState, Ending
  <2>6. [FlowNext]_flowVars
    BY <2>2, <2>3 DEF FlowNext
  <2> QED BY <1>1, <2>2, <2>4, <2>5, <2>6
<1>6. CASE ServerReads
  <2>1. Head(up) \in UpFrame /\ up' \in Seq(UpFrame)
    BY <1>6 DEF ServerReads, WireOK
  <2>2. [FlowNext]_flowVars
    BY <1>6, <2>1, UpdateFrameFields DEF ServerReads, FlowNext
  <2> QED BY <1>6, <2>1, <2>2 DEF ServerReads, WireOK
<1>7. CASE ServerCloses
  BY <1>7 DEF ServerCloses, WireOK
<1> QED BY <1>2, <1>3, <1>4, <1>5, <1>6, <1>7 DEF ServerWorks

(* Connections and requests: only the client's steps touch them. *)
LEMMA ConnStep ==
  ASSUME ConnInv, [H2Next]_h2vars
  PROVE  ConnInv'
<1> USE DEF ConnInv
<1>1. CASE DialStarts \/ DialRefused \/ Connected \/ ProxyAnswers \/ HandshakeDone
  BY <1>1 DEF DialStarts, DialRefused, Connected, ProxyAnswers, HandshakeDone, At, Return, link
<1>2. CASE ProxyFails \/ HandshakeFails \/ Fallback \/ Write \/ WriteFails \/ ReadAll
  BY <1>2 DEF ProxyFails, HandshakeFails, Fallback, Write, WriteFails, ReadAll, At, Return, Leave
<1>3. CASE Loop
  <2>1. At("read") /\ UNCHANGED <<written, phase>>
    BY <1>3 DEF Loop, ReadControl, ReadIgnored, ReadHeaders, ReadContinuation, ReadUndecodable,
      ReadData, ReadAbort, ReadEOF, ReadError, ReadDone, Frame, Reading, At
  <2>2. UNCHANGED <<open, result>> \/ \E r \in {"ok", "error"} : Leave(r)
    BY <1>3 DEF Loop, ReadControl, ReadIgnored, ReadHeaders, ReadContinuation, ReadUndecodable,
      ReadData, ReadAbort, ReadEOF, ReadError, ReadDone, Quiet, Wrote, WriteBroken
  <2> QED BY <2>1, <2>2 DEF At, Leave, Return
<1>4. CASE Deadline \/ Returned \/ UNCHANGED h2vars
  BY <1>4 DEF Deadline, Returned, h2vars, link
<1>5. CASE ServerWorks \/ ServerControl \/ ServerAborts \/ ServerCloses
  BY <1>5 DEF ServerWorks, ServerPreface, ServerHeaders, ServerContinuation, ServerData,
    ServerReads, ServerControl, ServerAborts, ServerCloses, Sends, link
<1> QED BY <1>1, <1>2, <1>3, <1>4, <1>5 DEF H2Next, Dialling

(* The frames have their types, the accounts agree, and connections are counted. *)
LEMMA H2Invariant == H2Spec => [](WireOK /\ IInv /\ ConnInv)
<1>1. H2Init => WireOK /\ IInv /\ ConnInv
  BY WireInit, InitInv DEF H2Init
<1>2. WireOK /\ IInv /\ ConnInv /\ [H2Next]_h2vars => (WireOK /\ IInv /\ ConnInv)'
  <2> SUFFICES ASSUME WireOK, IInv, ConnInv, [H2Next]_h2vars
               PROVE  WireOK' /\ IInv' /\ ConnInv'
    OBVIOUS
  <2>1. WireOK' /\ [FlowNext]_flowVars
    <3>1. CASE UNCHANGED h2vars
      BY <3>1 DEF h2vars, WireOK
    <3> QED BY <3>1, ClientStep, ServerStep DEF H2Next
  <2> QED BY <2>1, StepInv, ConnStep
<1> QED BY <1>1, <1>2, PTL DEF H2Spec

(* The frame loop and its server keep to FlowControl. *)
THEOREM ImplementsFlowControl == H2Spec => FlowSpec
<1>1. H2Init => FlowInit
  BY DEF H2Init
<1>2. WireOK /\ IInv /\ [H2Next]_h2vars => [FlowNext]_flowVars
  <2> SUFFICES ASSUME WireOK, IInv, [H2Next]_h2vars PROVE [FlowNext]_flowVars
    OBVIOUS
  <2>1. CASE UNCHANGED h2vars
    BY <2>1 DEF h2vars
  <2> QED BY <2>1, ClientStep, ServerStep DEF H2Next
<1> QED BY <1>1, <1>2, H2Invariant, PTL DEF H2Spec, FlowSpec

(* Whatever the windows, the frames and the body, the server is never left
   with a closed window and nothing on its way to open it. *)
THEOREM H2NeverStalls == H2Spec => []NoStall
BY ImplementsFlowControl, ServerNeverStalls, PTL

(* However dialling, the handshake, the fallback or the exchange fail, the
   request is written to one server connection at most. *)
THEOREM RequestSentOnce == H2Spec => []SentOnce
<1>1. ConnInv => SentOnce
  BY DEF ConnInv, SentOnce
<1> QED BY <1>1, H2Invariant, PTL

(* Request closes every connection it opens, and never holds two. *)
THEOREM ConnectionsClosed == H2Spec => []NoConnLeaks
<1>1. ConnInv => NoConnLeaks
  BY DEF ConnInv, NoConnLeaks
<1> QED BY <1>1, H2Invariant, PTL
-----------------------------------------------------------------------------
(* Sums of sequences of numbers.                                           *)

(* Induction over the natural numbers, of a set of them. *)
LEMMA SetInduction ==
  ASSUME NEW P \in SUBSET Nat, 0 \in P, \A n \in P : n + 1 \in P
  PROVE  P = Nat
<1>1. SUFFICES ASSUME Nat \ P # {} PROVE FALSE
  OBVIOUS
<1> DEFINE R == {ss \in Nat \X Nat : ss[1] < ss[2]}
<1>2. IsWellFoundedOn(R, Nat)
  BY NatLessThanWellFounded DEF OpToRel
<1> HIDE DEF R
<1>3. PICK x \in Nat \ P : \A y \in Nat \ P : ~(<<y, x>> \in R)
  BY <1>1, <1>2, WFMin
<1>4. x # 0 /\ x - 1 \in Nat
  BY <1>3
<1>5. <<x - 1, x>> \in R
  BY <1>4 DEF R
<1>6. x - 1 \in P
  BY <1>3, <1>4, <1>5
<1> QED BY <1>4, <1>6

(* A function adds up the prefixes of ns. *)
AddsUp(g, ns) ==
  /\ DOMAIN g = 0..Len(ns)
  /\ g[0] = 0
  /\ \A i \in 1..Len(ns) : g[i] = g[i - 1] + ns[i]

(* There is one, so that the recursive definition of Running has a meaning. *)
LEMMA RunningAddsUp ==
  ASSUME NEW ns \in Seq(Int)
  PROVE  AddsUp(Running(ns), ns)
<1> DEFINE N == Len(ns)
           Step(g) == [i \in 0..N |-> IF i = 0 THEN 0 ELSE g[i - 1] + ns[i]]
           Until(g, n) == /\ g \in [0..n -> Int] /\ g[0] = 0
                          /\ \A i \in 1..n : g[i] = g[i - 1] + ns[i]
           P == {n \in Nat : n <= N => \E g : Until(g, n)}
<1>1. N \in Nat /\ \A i \in 1..N : ns[i] \in Int
  OBVIOUS
<1> HIDE DEF N
<1>2. 0 \in P
  <2>1. [i \in 0..0 |-> 0] \in [0..0 -> Int] /\ [i \in 0..0 |-> 0][0] = 0 /\ 1..0 = {}
    OBVIOUS
  <2> QED BY <2>1
<1>3. ASSUME NEW n \in P PROVE n + 1 \in P
  <2>1. SUFFICES ASSUME n + 1 <= N PROVE \E g : Until(g, n + 1)
    OBVIOUS
  <2>2. n \in Nat /\ n <= N
    BY <1>1, <2>1
  <2>3. PICK g : Until(g, n)
    BY <2>2
  <2> DEFINE h == [i \in 0..(n + 1) |-> IF i = n + 1 THEN g[n] + ns[n + 1] ELSE g[i]]
  <2>4. h \in [0..(n + 1) -> Int]
    BY <1>1, <2>1, <2>2, <2>3
  <2>5. h[0] = 0
    BY <2>2, <2>3
  <2>6. \A i \in 1..(n + 1) : h[i] = h[i - 1] + ns[i]
    BY <2>2, <2>3
  <2> QED BY <2>4, <2>5, <2>6
<1>4. P = Nat
  BY <1>2, <1>3, SetInduction, P \in SUBSET Nat
<1>5. PICK g : Until(g, N)
  <2> HIDE DEF P
  <2>1. N \in P
    BY <1>1, <1>4
  <2>2. N <= N
    BY <1>1
  <2> QED BY <2>1, <2>2 DEF P
<1>6. g = Step(g)
  BY <1>1, <1>5
<1>7. Running(ns) = CHOOSE acc : acc = Step(acc)
  BY DEF Running, N
<1>8. Running(ns) = Step(Running(ns))
  BY <1>6, <1>7
<1> DEFINE r == Running(ns)
<1> HIDE DEF r
<1>9. r = [i \in 0..N |-> IF i = 0 THEN 0 ELSE r[i - 1] + ns[i]]
  BY <1>8 DEF r
<1>10. DOMAIN r = 0..N /\ r[0] = 0 /\ \A i \in 1..N : r[i] = r[i - 1] + ns[i]
  BY <1>1, <1>9
<1> QED BY <1>10 DEF AddsUp, N, r

(* Its values are sums of the numbers: integers, and natural if they all are. *)
LEMMA PrefixIsIn ==
  ASSUME NEW S \in {Nat, Int}, NEW ns \in Seq(S), NEW k \in 0..Len(ns)
  PROVE  Running(ns)[k] \in S
<1> DEFINE g == Running(ns)
           P == {n \in Nat : n <= Len(ns) => g[n] \in S}
<1>1. g[0] = 0 /\ \A i \in 1..Len(ns) : g[i] = g[i - 1] + ns[i] /\ ns[i] \in S
  <2>1. ns \in Seq(Int)
    OBVIOUS
  <2> QED BY <2>1, RunningAddsUp DEF AddsUp
<1> HIDE DEF g
<1>2. 0 \in P
  BY <1>1
<1>3. ASSUME NEW n \in P PROVE n + 1 \in P
  <2>1. SUFFICES ASSUME n + 1 <= Len(ns) PROVE g[n + 1] \in S
    OBVIOUS
  <2>2. n + 1 \in 1..Len(ns) /\ (n + 1) - 1 = n /\ g[n] \in S
    BY <2>1
  <2>3. g[n + 1] = g[(n + 1) - 1] + ns[n + 1] /\ ns[n + 1] \in S
    BY <1>1, <2>2
  <2> QED BY <2>2, <2>3
<1>4. P = Nat
  BY <1>2, <1>3, SetInduction, P \in SUBSET Nat
<1>5. k \in P /\ k <= Len(ns)
  BY <1>4
<1> QED BY <1>5 DEF g

(* The first m numbers of ms have the same sum as the m numbers of ns behind
   its first k. *)
SameSum(ns, ms, k, m) == Running(ns)[k + m] = Running(ns)[k] + Running(ms)[m]

(* Where two sequences agree, their sums do. *)
LEMMA SumsAgree ==
  ASSUME NEW ns \in Seq(Int), NEW ms \in Seq(Int), NEW k \in Nat, NEW m \in Nat,
         k + m <= Len(ns), m <= Len(ms),
         \A i \in 1..m : ns[k + i] = ms[i]
  PROVE  SameSum(ns, ms, k, m)
<1> DEFINE g == Running(ns)
           h == Running(ms)
           P == {n \in Nat : n <= m => g[k + n] = g[k] + h[n]}
<1>1. /\ h[0] = 0
      /\ \A i \in 1..Len(ns) : g[i] = g[i - 1] + ns[i]
      /\ \A i \in 1..Len(ms) : h[i] = h[i - 1] + ms[i]
  BY RunningAddsUp DEF AddsUp
<1>2. /\ \A i \in 0..Len(ns) : g[i] \in Int
      /\ \A i \in 0..Len(ms) : h[i] \in Int
  BY PrefixIsIn
<1> HIDE DEF g, h
<1>3. 0 \in P
  BY <1>1, <1>2
<1>4. ASSUME NEW n \in P PROVE n + 1 \in P
  <2>1. SUFFICES ASSUME n + 1 <= m PROVE g[k + (n + 1)] = g[k] + h[n + 1]
    OBVIOUS
  <2>2. n \in Nat /\ g[k + n] = g[k] + h[n]
    BY <2>1
  <2>3. /\ k + (n + 1) \in 1..Len(ns) /\ n + 1 \in 1..Len(ms)
        /\ (k + (n + 1)) - 1 = k + n /\ (n + 1) - 1 = n
        /\ k \in 0..Len(ns) /\ n \in 0..Len(ms)
    BY <2>1, <2>2
  <2>4. g[k + (n + 1)] = g[k + n] + ms[n + 1]
    <3>1. g[k + (n + 1)] = g[(k + (n + 1)) - 1] + ns[k + (n + 1)]
      BY <1>1, <2>3
    <3>2. ns[k + (n + 1)] = ms[n + 1]
      BY <2>1, <2>2
    <3> QED BY <2>3, <3>1, <3>2
  <2>5. h[n + 1] = h[n] + ms[n + 1]
    <3>1. h[n + 1] = h[(n + 1) - 1] + ms[n + 1]
      BY <1>1, <2>3
    <3> QED BY <2>3, <3>1
  <2>6. g[k] \in Int /\ h[n] \in Int /\ ms[n + 1] \in Int
    BY <1>2, <2>3
  <2> HIDE DEF P
  <2> QED BY <2>2, <2>4, <2>5, <2>6
<1>5. P = Nat
  BY <1>3, <1>4, SetInduction, P \in SUBSET Nat
<1>6. m \in P
  BY <1>5
<1> QED BY <1>6 DEF SameSum, g, h

(* No numbers. *)
LEMMA TotalEmpty == Total(<<>>) = 0
<1>1. <<>> \in Seq(Int) /\ Len(<<>>) = 0
  OBVIOUS
<1>2. AddsUp(Running(<<>>), <<>>)
  BY <1>1, RunningAddsUp
<1> QED BY <1>1, <1>2 DEF Total, AddsUp

(* The sum of natural numbers is one, that of integers an integer. *)
LEMMA TotalIsIn ==
  ASSUME NEW S \in {Nat, Int}, NEW ns \in Seq(S)
  PROVE  Total(ns) \in S
<1>1. Len(ns) \in 0..Len(ns)
  OBVIOUS
<1> QED BY <1>1, PrefixIsIn DEF Total

(* A number more at the end. *)
LEMMA TotalAppend ==
  ASSUME NEW ns \in Seq(Int), NEW x \in Int
  PROVE  Total(Append(ns, x)) = Total(ns) + x
<1> DEFINE ms == Append(ns, x)
<1>1. /\ ms \in Seq(Int) /\ Len(ms) = Len(ns) + 1 /\ ms[Len(ns) + 1] = x
      /\ Len(ns) \in Nat /\ 0 + Len(ns) <= Len(ms) /\ Len(ns) <= Len(ns)
      /\ \A i \in 1..Len(ns) : ms[0 + i] = ns[i]
  OBVIOUS
<1> HIDE DEF ms
<1>2. SameSum(ms, ns, 0, Len(ns))
  BY <1>1, SumsAgree
<1>3. /\ Running(ms)[0] = 0
      /\ Running(ms)[Len(ns) + 1] = Running(ms)[(Len(ns) + 1) - 1] + ms[Len(ns) + 1]
  <2>1. AddsUp(Running(ms), ms)
    BY <1>1, RunningAddsUp
  <2>2. Len(ns) + 1 \in 1..Len(ms)
    BY <1>1
  <2> QED BY <2>1, <2>2 DEF AddsUp
<1>4. Running(ns)[Len(ns)] \in Int /\ 0 + Len(ns) = Len(ns) /\ (Len(ns) + 1) - 1 = Len(ns)
  BY TotalIsIn DEF Total
<1> QED BY <1>1, <1>2, <1>3, <1>4 DEF SameSum, Total, ms

(* A number less at the beginning. *)
LEMMA TotalTail ==
  ASSUME NEW ns \in Seq(Int), ns # <<>>
  PROVE  Total(Tail(ns)) = Total(ns) - Head(ns)
<1> DEFINE ms == Tail(ns)
<1>1. /\ ms \in Seq(Int) /\ Len(ns) = 1 + Len(ms) /\ Len(ms) \in Nat
      /\ Head(ns) = ns[1] /\ ns[1] \in Int
      /\ \A i \in 1..Len(ms) : ns[1 + i] = ms[i]
  OBVIOUS
<1> HIDE DEF ms
<1>2. SameSum(ns, ms, 1, Len(ms))
  <2>1. 1 + Len(ms) <= Len(ns) /\ Len(ms) <= Len(ms)
    BY <1>1
  <2> QED BY <1>1, <2>1, SumsAgree
<1>3. Running(ns)[1] = ns[1]
  <2>1. AddsUp(Running(ns), ns)
    BY RunningAddsUp
  <2>2. 1 \in 1..Len(ns) /\ 1 - 1 = 0
    BY <1>1
  <2> QED BY <1>1, <2>1, <2>2 DEF AddsUp
<1>4. Total(ms) \in Int
  BY <1>1, TotalIsIn
<1> QED BY <1>1, <1>2, <1>3, <1>4 DEF SameSum, Total, ms

-----------------------------------------------------------------------------
(* The frames on the wire and the counters.                                *)

(* A weight w of frames, summed over a sequence of them. *)
Weighed(frames, w) == [i \in DOMAIN frames |-> w[frames[i]]]

(* What a frame more at the end, or one less at the beginning, adds or takes. *)
LEMMA WeighedTotals ==
  ASSUME NEW S, NEW w \in [S -> Nat], NEW s \in Seq(S)
  PROVE  /\ Total(Weighed(s, w)) \in Nat
         /\ s = <<>> => Total(Weighed(s, w)) = 0
         /\ \A f \in S : Total(Weighed(Append(s, f), w)) = Total(Weighed(s, w)) + w[f]
         /\ s # <<>> => /\ Total(Weighed(s, w)) = Total(Weighed(Tail(s), w)) + w[Head(s)]
                        /\ Total(Weighed(Tail(s), w)) \in Nat
<1>1. ASSUME NEW t \in Seq(S)
      PROVE  /\ Weighed(t, w) \in Seq(Nat) /\ Weighed(t, w) \in Seq(Int)
             /\ Total(Weighed(t, w)) \in Nat
  <2>1. Weighed(t, w) \in Seq(Nat) /\ Weighed(t, w) \in Seq(Int)
    BY DEF Weighed
  <2> QED BY <2>1, TotalIsIn
<1>2. ASSUME s = <<>> PROVE Total(Weighed(s, w)) = 0
  <2>1. Weighed(s, w) = <<>>
    BY <1>2 DEF Weighed
  <2> QED BY <1>2, <2>1, TotalEmpty
<1>3. ASSUME NEW f \in S
      PROVE  Total(Weighed(Append(s, f), w)) = Total(Weighed(s, w)) + w[f]
  <2>1. Weighed(Append(s, f), w) = Append(Weighed(s, w), w[f])
    BY DEF Weighed
  <2>2. w[f] \in Int
    OBVIOUS
  <2> QED BY <1>1, <2>1, <2>2, TotalAppend
<1>4. ASSUME s # <<>>
      PROVE  /\ Total(Weighed(s, w)) = Total(Weighed(Tail(s), w)) + w[Head(s)]
             /\ Total(Weighed(Tail(s), w)) \in Nat
  <2>1. /\ Weighed(s, w) # <<>> /\ Head(Weighed(s, w)) = w[Head(s)]
        /\ Tail(Weighed(s, w)) = Weighed(Tail(s), w)
        /\ Tail(s) \in Seq(S) /\ w[Head(s)] \in Nat
    BY <1>4 DEF Weighed
  <2>2. Total(Tail(Weighed(s, w))) = Total(Weighed(s, w)) - Head(Weighed(s, w))
    BY <1>1, <2>1, TotalTail
  <2>3. Total(Weighed(s, w)) \in Nat /\ Total(Weighed(Tail(s), w)) \in Nat
    BY <1>1, <2>1
  <2>4. Total(Weighed(Tail(s), w)) = Total(Weighed(s, w)) - w[Head(s)]
    BY <2>1, <2>2
  <2> QED BY <2>1, <2>3, <2>4
<1> QED BY <1>1, <1>2, <1>3, <1>4

(* The bytes that the DATA frames on their way to the client are charged. *)
LEMMA ChargesTotals ==
  ASSUME NEW s \in Seq(DownFrame)
  PROVE  /\ Total(Charges(s)) \in Nat
         /\ s = <<>> => Total(Charges(s)) = 0
         /\ \A f \in DownFrame : Total(Charges(Append(s, f))) = Total(Charges(s)) + Charge(f)
         /\ s # <<>> => /\ Total(Charges(s)) = Total(Charges(Tail(s))) + Charge(Head(s))
                        /\ Total(Charges(Tail(s))) \in Nat
<1> DEFINE w == [f \in DownFrame |-> Charge(f)]
<1>1. w \in [DownFrame -> Nat]
  BY DataFrameLength DEF Charge
<1>2. ASSUME NEW t \in Seq(DownFrame) PROVE Charges(t) = Weighed(t, w)
  BY DEF Charges, Weighed
<1>3. \A f \in DownFrame : w[f] = Charge(f) /\ Append(s, f) \in Seq(DownFrame)
  OBVIOUS
<1>4. s # <<>> => Head(s) \in DownFrame /\ Tail(s) \in Seq(DownFrame) /\ w[Head(s)] = Charge(Head(s))
  OBVIOUS
<1> HIDE DEF w
<1>5. Charges(s) = Weighed(s, w)
  BY <1>2
<1>6. \A f \in DownFrame : Charges(Append(s, f)) = Weighed(Append(s, f), w)
  BY <1>2, <1>3
<1>7. s # <<>> => Charges(Tail(s)) = Weighed(Tail(s), w)
  BY <1>2, <1>4
<1>8. /\ Total(Weighed(s, w)) \in Nat
      /\ s = <<>> => Total(Weighed(s, w)) = 0
      /\ \A f \in DownFrame : Total(Weighed(Append(s, f), w)) = Total(Weighed(s, w)) + w[f]
      /\ s # <<>> => /\ Total(Weighed(s, w)) = Total(Weighed(Tail(s), w)) + w[Head(s)]
                     /\ Total(Weighed(Tail(s), w)) \in Nat
  BY <1>1, WeighedTotals
<1> QED BY <1>3, <1>4, <1>5, <1>6, <1>7, <1>8

(* The increments of the updates on their way to the server, for either window. *)
LEMMA GrantsTotals ==
  ASSUME NEW s \in Seq(UpFrame), NEW stream \in {0, 1}
  PROVE  /\ Total(Grants(s, stream)) \in Nat
         /\ s = <<>> => Total(Grants(s, stream)) = 0
         /\ \A f \in UpFrame :
              Total(Grants(Append(s, f), stream)) = Total(Grants(s, stream)) + Grant(f, stream)
         /\ s # <<>> =>
              /\ Total(Grants(s, stream)) = Total(Grants(Tail(s), stream)) + Grant(Head(s), stream)
              /\ Total(Grants(Tail(s), stream)) \in Nat
<1> DEFINE w == [f \in UpFrame |-> Grant(f, stream)]
<1>1. w \in [UpFrame -> Nat]
  BY DEF Grant, UpFrame, AckFrame, UpdateFrame
<1>2. ASSUME NEW t \in Seq(UpFrame) PROVE Grants(t, stream) = Weighed(t, w)
  BY DEF Grants, Weighed
<1>3. \A f \in UpFrame : w[f] = Grant(f, stream) /\ Append(s, f) \in Seq(UpFrame)
  OBVIOUS
<1>4. s # <<>> => Head(s) \in UpFrame /\ Tail(s) \in Seq(UpFrame) /\ w[Head(s)] = Grant(Head(s), stream)
  OBVIOUS
<1> HIDE DEF w
<1>5. Grants(s, stream) = Weighed(s, w)
  BY <1>2
<1>6. \A f \in UpFrame : Grants(Append(s, f), stream) = Weighed(Append(s, f), w)
  BY <1>2, <1>3
<1>7. s # <<>> => Grants(Tail(s), stream) = Weighed(Tail(s), w)
  BY <1>2, <1>4
<1>8. /\ Total(Weighed(s, w)) \in Nat
      /\ s = <<>> => Total(Weighed(s, w)) = 0
      /\ \A f \in UpFrame : Total(Weighed(Append(s, f), w)) = Total(Weighed(s, w)) + w[f]
      /\ s # <<>> => /\ Total(Weighed(s, w)) = Total(Weighed(Tail(s), w)) + w[Head(s)]
                     /\ Total(Weighed(Tail(s), w)) \in Nat
  BY <1>1, WeighedTotals
<1> QED BY <1>3, <1>4, <1>5, <1>6, <1>7, <1>8

(* t has gain more for one window than s, and the same for the other one. *)
Gains(s, t, stream, other, gain) ==
  /\ t \in Seq(UpFrame)
  /\ Total(Grants(t, stream)) = Total(Grants(s, stream)) + gain
  /\ Total(Grants(t, other)) = Total(Grants(s, other))

(* A refresh of one window adds its refill to that window's updates and
   nothing to the other's. *)
LEMMA RefreshGrants ==
  ASSUME NEW s \in Seq(UpFrame), NEW stream \in {0, 1}, NEW other \in {0, 1} \ {stream},
         NEW total \in Nat \ {0}, NEW w \in Nat, w <= total, NEW n \in Nat
  PROVE  Gains(s, s \o Refresh(stream, w, n, total), stream, other,
               Refill(w - n, total) - (w - n))
<1> DEFINE inc == Refill(w - n, total) - (w - n)
<1>1. inc \in Nat
  <2>1. w - n \in Int /\ w - n <= total
    OBVIOUS
  <2>2. Refill(w - n, total) \in Nat /\ w - n <= Refill(w - n, total)
    BY <2>1, RefillBounds
  <2> QED BY <2>1, <2>2
<1>2. Total(Grants(s, stream)) \in Nat /\ Total(Grants(s, other)) \in Nat
  BY GrantsTotals
<1>3. CASE inc > 0
  <2>1. /\ Update(stream, inc) \in UpFrame
        /\ Grant(Update(stream, inc), stream) = inc /\ Grant(Update(stream, inc), other) = 0
    BY <1>1, <1>3 DEF Update, UpFrame, UpdateFrame, Grant
  <2>2. Refresh(stream, w, n, total) = <<Update(stream, inc)>>
    BY <1>3 DEF Refresh
  <2>3. s \o <<Update(stream, inc)>> = Append(s, Update(stream, inc))
    BY <2>1, AppendIsConcat
  <2>4. Append(s, Update(stream, inc)) \in Seq(UpFrame)
    BY <2>1
  <2> HIDE DEF inc
  <2>5. /\ Total(Grants(Append(s, Update(stream, inc)), stream)) = Total(Grants(s, stream)) + inc
        /\ Total(Grants(Append(s, Update(stream, inc)), other)) = Total(Grants(s, other)) + 0
    BY <2>1, GrantsTotals
  <2>6. s \o Refresh(stream, w, n, total) = Append(s, Update(stream, inc))
    BY <2>2, <2>3
  <2>7. /\ Total(Grants(s \o Refresh(stream, w, n, total), stream)) = Total(Grants(s, stream)) + inc
        /\ Total(Grants(s \o Refresh(stream, w, n, total), other)) = Total(Grants(s, other))
    BY <1>2, <2>5, <2>6
  <2> QED BY <2>4, <2>6, <2>7 DEF inc, Gains
<1>4. CASE inc = 0
  <2>1. Refresh(stream, w, n, total) = <<>>
    BY <1>4 DEF Refresh
  <2>2. s \o <<>> = s
    BY ConcatEmptySeq
  <2>3. s \o Refresh(stream, w, n, total) = s
    BY <2>1, <2>2
  <2>4. Gains(s, s, stream, other, 0)
    BY <1>2 DEF Gains
  <2> QED BY <1>4, <2>3, <2>4
<1> QED BY <1>1, <1>3, <1>4

(* The updates a frame of n bytes makes due raise what is on its way to both
   windows by what the client gives itself. *)
LEMMA DueGrants ==
  ASSUME IInv, NEW s \in Seq(UpFrame), NEW n \in Nat
  PROVE  /\ Total(Grants(s \o Due(n), 1)) =
              Total(Grants(s, 1)) + (Refill(streamWindow - n, InitialWindow) - (streamWindow - n))
         /\ Total(Grants(s \o Due(n), 0)) =
              Total(Grants(s, 0)) + (Refill(connWindow - n, ConnWindowTotal) - (connWindow - n))
<1> DEFINE a == Refresh(1, streamWindow, n, InitialWindow)
           b == Refresh(0, connWindow, n, ConnWindowTotal)
<1>1. /\ ConnWindowTotal \in Nat \ {0}
      /\ streamWindow \in Nat /\ streamWindow <= InitialWindow
      /\ connWindow \in Nat /\ connWindow <= ConnWindowTotal
  BY DEF ConnWindowTotal, IInv, TypeOK, Accounts
<1>2. Gains(s, s \o a, 1, 0, Refill(streamWindow - n, InitialWindow) - (streamWindow - n))
  <2>1. 1 \in {0, 1} /\ 0 \in {0, 1} \ {1}
    OBVIOUS
  <2> QED BY <1>1, <2>1, RefreshGrants
<1>3. Gains(s \o a, (s \o a) \o b, 0, 1,
            Refill(connWindow - n, ConnWindowTotal) - (connWindow - n))
  <2>1. 0 \in {0, 1} /\ 1 \in {0, 1} \ {0} /\ s \o a \in Seq(UpFrame)
    BY <1>2 DEF Gains
  <2> QED BY <1>1, <2>1, RefreshGrants
<1>4. s \o Due(n) = (s \o a) \o b
  <2>1. a \in Seq(UpFrame) /\ b \in Seq(UpFrame)
    BY <1>1, RefreshFrames
  <2> QED BY <2>1, ConcatAssociative DEF Due
<1> QED BY <1>2, <1>3, <1>4 DEF Gains

(* Only a request that has not returned makes a step. *)
LEMMA StillRunning ==
  ASSUME [H2Next]_h2vars, result' = "none"
  PROVE  result = "none"
<1>1. CASE Dialling
  BY <1>1 DEF Dialling, DialStarts, DialRefused, Connected, ProxyAnswers, ProxyFails,
    HandshakeFails, HandshakeDone, Fallback, Write, WriteFails, ReadAll, At
<1>2. CASE Loop \/ Deadline
  BY <1>2 DEF Loop, Deadline, ReadControl, ReadIgnored, ReadHeaders, ReadContinuation,
    ReadUndecodable, ReadData, ReadAbort, ReadEOF, ReadError, ReadDone, Frame, Reading, At
<1>3. CASE ServerWorks \/ ServerControl \/ ServerAborts \/ ServerCloses
  BY <1>3 DEF ServerWorks, ServerPreface, ServerHeaders, ServerContinuation, ServerData,
    ServerReads, ServerControl, ServerAborts, ServerCloses, Answering, Serving
<1>4. CASE Returned \/ UNCHANGED h2vars
  BY <1>4 DEF Returned, h2vars
<1> QED BY <1>1, <1>2, <1>3, <1>4 DEF H2Next

(* A step of the frame loop after which the request goes on reads the frame at
   the head, and writes what it owes, if anything. *)
LEMMA FrameRead ==
  ASSUME Loop, result' = "none"
  PROVE  /\ down # <<>> /\ down' = Tail(down)
         /\ \/ /\ Head(down).type # "DATA" /\ UNCHANGED flowVars
               /\ up' = up \o <<>> \/ up' = up \o <<Plain("ACK")>>
            \/ /\ Head(down).type = "DATA"
               /\ up' = up \o Due(Head(down).len)
               /\ IF Head(down).len = 0 THEN UNCHANGED flowVars ELSE Consume(Head(down).len)
<1>1. ~WriteBroken /\ \A r \in {"ok", "error"} : ~Leave(r)
  BY DEF WriteBroken, Leave, Return
<1>2. CASE ReadData
  BY <1>1, <1>2 DEF ReadData, Frame, Wrote
<1>3. CASE ReadControl \/ ReadIgnored \/ ReadHeaders \/ ReadContinuation
  BY <1>1, <1>3 DEF ReadControl, ReadIgnored, ReadHeaders, ReadContinuation, Frame, Wrote, Quiet
<1>4. CASE ReadUndecodable \/ ReadAbort \/ ReadEOF \/ ReadError \/ ReadDone
  BY <1>1, <1>4 DEF ReadUndecodable, ReadAbort, ReadEOF, ReadError, ReadDone
<1> QED BY <1>2, <1>3, <1>4 DEF Loop

(* The wire matches the accounts after every frame read and every frame sent. *)
LEMMA AccountsStep ==
  ASSUME WireOK, IInv, WireMatchesAccounts, [H2Next]_h2vars
  PROVE  WireMatchesAccounts'
<1>1. SUFFICES ASSUME result' = "none"
      PROVE  /\ inFlight' = Total(Charges(down'))
             /\ toStream' = Total(Grants(up', 1))
             /\ toConn' = Total(Grants(up', 0))
  BY DEF WireMatchesAccounts
<1>2. /\ inFlight = Total(Charges(down))
      /\ toStream = Total(Grants(up, 1))
      /\ toConn = Total(Grants(up, 0))
  BY <1>1, StillRunning DEF WireMatchesAccounts
<1>3. /\ down \in Seq(DownFrame) /\ up \in Seq(UpFrame)
      /\ inFlight \in Nat /\ toStream \in Nat /\ toConn \in Nat
      /\ streamWindow \in Nat /\ connWindow \in Nat
  BY DEF WireOK, IInv, TypeOK
<1>4. CASE UNCHANGED <<flowVars, down, up>>
  BY <1>2, <1>4 DEF flowVars
<1>5. ASSUME NEW f \in DownFrame, down' = Append(down, f), UNCHANGED up
      PROVE  Total(Charges(down')) = inFlight + Charge(f)
  BY <1>2, <1>3, <1>5, ChargesTotals
<1>6. CASE Loop
  <2>1. /\ down # <<>> /\ Head(down) \in DownFrame
        /\ inFlight = Total(Charges(down')) + Charge(Head(down))
        /\ Total(Charges(down')) \in Nat
    <3>1. down # <<>> /\ down' = Tail(down)
      BY <1>1, <1>6, FrameRead
    <3>2. /\ Total(Charges(down)) = Total(Charges(Tail(down))) + Charge(Head(down))
          /\ Total(Charges(Tail(down))) \in Nat
      BY <1>3, <3>1, ChargesTotals
    <3> QED BY <1>2, <1>3, <3>1, <3>2
  <2>2. CASE Head(down).type = "DATA"
    <3> DEFINE n == Head(down).len
    <3>1. n \in Nat /\ Charge(Head(down)) = n
      BY <2>1, <2>2, DataFrameLength DEF Charge
    <3> HIDE DEF n
    <3>2. /\ up' = up \o Due(n)
          /\ IF n = 0 THEN UNCHANGED flowVars ELSE Consume(n)
      BY <1>1, <1>6, <2>2, FrameRead DEF n
    <3>3. /\ Total(Grants(up', 1)) =
               toStream + (Refill(streamWindow - n, InitialWindow) - (streamWindow - n))
          /\ Total(Grants(up', 0)) =
               toConn + (Refill(connWindow - n, ConnWindowTotal) - (connWindow - n))
      BY <1>2, <1>3, <3>1, <3>2, DueGrants
    <3>4. CASE n = 0
      <4>1. /\ Refill(streamWindow - n, InitialWindow) = streamWindow
            /\ Refill(connWindow - n, ConnWindowTotal) = connWindow
        <5>1. /\ streamWindow - n = streamWindow /\ connWindow - n = connWindow
              /\ InitialWindow \div 2 < streamWindow /\ ConnWindowTotal \div 2 < connWindow
          BY <1>3, <3>4 DEF IInv, Accounts
        <5>2. InitialWindow \div 2 \in Int /\ ConnWindowTotal \div 2 \in Int
          BY DEF ConnWindowTotal
        <5> QED BY <1>3, <5>1, <5>2 DEF Refill
      <4> QED BY <1>3, <2>1, <3>1, <3>2, <3>3, <3>4, <4>1 DEF flowVars
    <3>5. CASE n # 0
      <4>1. Consume(n)
        BY <3>2, <3>5
      <4>2. /\ Refill(streamWindow - n, InitialWindow) \in Int
            /\ Refill(connWindow - n, ConnWindowTotal) \in Int
        BY <1>3, <3>1 DEF Refill, ConnWindowTotal
      <4>3. inFlight' = Total(Charges(down'))
        BY <1>3, <2>1, <3>1, <4>1 DEF Consume
      <4> QED BY <1>3, <3>1, <3>3, <4>1, <4>2, <4>3 DEF Consume
    <3> QED BY <3>4, <3>5
  <2>3. CASE Head(down).type # "DATA"
    <3>1. /\ UNCHANGED flowVars
          /\ up' = up \o <<>> \/ up' = up \o <<Plain("ACK")>>
      BY <1>1, <1>6, <2>3, FrameRead
    <3>2. Charge(Head(down)) = 0
      BY <2>3 DEF Charge
    <3>3. /\ Plain("ACK") \in UpFrame
          /\ Grant(Plain("ACK"), 0) = 0 /\ Grant(Plain("ACK"), 1) = 0
      BY DEF Plain, UpFrame, AckFrame, Grant
    <3>4. /\ up \o <<Plain("ACK")>> = Append(up, Plain("ACK"))
          /\ up \o <<>> = up
      BY <1>3, <3>3, AppendIsConcat, ConcatEmptySeq
    <3>5. \A stream \in {0, 1} : Total(Grants(up', stream)) = Total(Grants(up, stream))
      <4>1. up' = up \/ up' = Append(up, Plain("ACK"))
        BY <3>1, <3>4
      <4>2. \A stream \in {0, 1} :
              /\ Total(Grants(Append(up, Plain("ACK")), stream)) =
                   Total(Grants(up, stream)) + Grant(Plain("ACK"), stream)
              /\ Total(Grants(up, stream)) \in Nat /\ Grant(Plain("ACK"), stream) = 0
        BY <1>3, <3>3, GrantsTotals
      <4>3. \A stream \in {0, 1} :
              Total(Grants(Append(up, Plain("ACK")), stream)) = Total(Grants(up, stream))
        BY <4>2
      <4> QED BY <4>1, <4>3
    <3> QED BY <1>2, <1>3, <2>1, <3>1, <3>2, <3>5 DEF flowVars
  <2> QED BY <2>2, <2>3
<1>7. CASE ServerPreface \/ ServerControl \/ ServerAborts \/ ServerHeaders \/ ServerContinuation
  <2>1. PICK f \in DownFrame : down' = Append(down, f) /\ f.type # "DATA"
    <3>1. \A type \in {"SETTINGS", "PING", "IGNORED", "RST_STREAM", "GOAWAY", "UNDECODABLE"} :
            Plain(type) \in DownFrame /\ Plain(type).type # "DATA"
      BY DEF Plain, DownFrame, PlainFrame
    <3>2. \A more, last \in BOOLEAN :
            Headers(more, last) \in DownFrame /\ Headers(more, last).type # "DATA"
      BY DEF Headers, DownFrame, HeaderFrame
    <3>3. Continuation(FALSE) \in DownFrame /\ Continuation(FALSE).type # "DATA"
      BY DEF Continuation, DownFrame, HeaderFrame
    <3>4. CASE ServerPreface \/ ServerControl \/ ServerAborts
      BY <3>1, <3>4 DEF ServerPreface, ServerControl, ServerAborts, Sends
    <3>5. CASE ServerHeaders
      BY <3>2, <3>5 DEF ServerHeaders, Sends
    <3>6. CASE ServerContinuation
      BY <3>3, <3>6 DEF ServerContinuation, Sends
    <3> QED BY <1>7, <3>4, <3>5, <3>6
  <2>2. UNCHANGED flowVars /\ UNCHANGED up
    BY <1>7 DEF ServerPreface, ServerControl, ServerAborts, ServerHeaders, ServerContinuation,
      Sends
  <2> QED BY <1>2, <1>3, <1>5, <2>1, <2>2 DEF Charge, flowVars
<1>8. CASE ServerData
  <2>1. PICK n \in Nat, pad \in Nat, last \in BOOLEAN :
          /\ IF n + pad = 0 THEN UNCHANGED flowVars ELSE SendData(n + pad)
          /\ down' = Append(down, Data(n, pad, last)) /\ UNCHANGED up
    <3>1. srv.left \in Nat
      BY DEF WireOK, ServerState
    <3> QED BY <1>8, <3>1 DEF ServerData, Sends
  <2>2. Data(n, pad, last) \in DownFrame /\ Charge(Data(n, pad, last)) = n + pad
    BY DEF Data, DownFrame, DataFrame, Charge
  <2>3. Total(Charges(down')) = inFlight + (n + pad)
    BY <1>5, <2>1, <2>2
  <2> QED BY <1>2, <1>3, <2>1, <2>3 DEF SendData, flowVars
<1>9. CASE ServerReads
  <2>1. up # <<>> /\ up' = Tail(up) /\ UNCHANGED down /\ Head(up) \in UpFrame
    BY <1>3, <1>9 DEF ServerReads
  <2>2. \A stream \in {0, 1} :
          /\ Total(Grants(up, stream)) = Total(Grants(up', stream)) + Grant(Head(up), stream)
          /\ Total(Grants(up', stream)) \in Nat
    BY <1>3, <2>1, GrantsTotals
  <2>3. CASE Head(up).type = "ACK"
    BY <1>2, <1>9, <2>1, <2>2, <2>3 DEF ServerReads, Grant, flowVars
  <2>4. CASE Head(up).type # "ACK"
    <3>1. /\ Head(up).type = "WINDOW_UPDATE" /\ Head(up).stream \in {0, 1}
          /\ Head(up).inc \in Nat
      BY <2>1, <2>4 DEF UpFrame, AckFrame, UpdateFrame
    <3>2. IF Head(up).stream = 1 THEN GrantStream(Head(up).inc) ELSE GrantConn(Head(up).inc)
      BY <1>9, <2>4 DEF ServerReads
    <3>3. CASE Head(up).stream = 1
      BY <1>2, <1>3, <2>1, <2>2, <3>1, <3>2, <3>3 DEF Grant, GrantStream
    <3>4. CASE Head(up).stream = 0
      BY <1>2, <1>3, <2>1, <2>2, <3>1, <3>2, <3>4 DEF Grant, GrantConn
    <3> QED BY <3>1, <3>3, <3>4
  <2> QED BY <2>3, <2>4
<1>10. CASE Dialling \/ Deadline \/ Returned \/ ServerCloses \/ UNCHANGED h2vars
  <2>1. UNCHANGED <<flowVars, down, up>>
    BY <1>10 DEF Dialling, DialStarts, DialRefused, Connected, ProxyAnswers, ProxyFails,
      HandshakeFails, HandshakeDone, Fallback, Write, WriteFails, ReadAll, Deadline, Returned,
      ServerCloses, h2vars
  <2> QED BY <1>4, <2>1
<1> QED BY <1>6, <1>7, <1>8, <1>9, <1>10 DEF H2Next, ServerWorks

(* The bytes of the frames under way are what the counters of FlowControl say,
   and every refill is sent once, to the window it is for. *)
THEOREM WireIsAccounted == H2Spec => []WireMatchesAccounts
<1>1. H2Init => WireMatchesAccounts
  <2> SUFFICES ASSUME H2Init PROVE WireMatchesAccounts
    OBVIOUS
  <2>1. down = <<>> /\ up = <<>> /\ inFlight = 0 /\ toStream = 0 /\ toConn = 0
    BY DEF H2Init, FlowInit
  <2>2. Total(Charges(<<>>)) = 0 /\ Total(Grants(<<>>, 0)) = 0 /\ Total(Grants(<<>>, 1)) = 0
    <3>1. <<>> \in Seq(DownFrame) /\ <<>> \in Seq(UpFrame)
      OBVIOUS
    <3>2. Total(Charges(<<>>)) = 0
      BY <3>1, ChargesTotals
    <3>3. \A stream \in {0, 1} : Total(Grants(<<>>, stream)) = 0
      BY <3>1, GrantsTotals
    <3> QED BY <3>2, <3>3
  <2> QED BY <2>1, <2>2 DEF WireMatchesAccounts
<1>2. /\ WireOK /\ IInv /\ ConnInv
      /\ WireMatchesAccounts /\ [H2Next]_h2vars
      => WireMatchesAccounts'
  BY AccountsStep
<1> QED BY <1>1, <1>2, H2Invariant, PTL DEF H2Spec

(* What is at the head of the wire is covered by the counters. *)
GuardsAreFree ==
  result = "none" =>
    /\ down # <<>> => Charge(Head(down)) <= inFlight
    /\ up # <<>> => Grant(Head(up), 1) <= toStream /\ Grant(Head(up), 0) <= toConn

(* A frame that the client reads was sent, and an update that the server reads
   was granted: the guards with which FlowControl keeps its counters natural
   never hold a step of H2Client back. *)
THEOREM NoFrameIsHeldBack == H2Spec => []GuardsAreFree
<1>1. WireOK /\ WireMatchesAccounts => GuardsAreFree
  <2> SUFFICES ASSUME WireOK, WireMatchesAccounts, result = "none"
               PROVE  /\ down # <<>> => Charge(Head(down)) <= inFlight
                      /\ up # <<>> => /\ Grant(Head(up), 1) <= toStream
                                      /\ Grant(Head(up), 0) <= toConn
    BY DEF GuardsAreFree
  <2>1. /\ down \in Seq(DownFrame) /\ up \in Seq(UpFrame)
        /\ inFlight = Total(Charges(down))
        /\ toStream = Total(Grants(up, 1)) /\ toConn = Total(Grants(up, 0))
    BY DEF WireOK, WireMatchesAccounts
  <2>2. ASSUME down # <<>> PROVE Charge(Head(down)) <= inFlight
    <3>1. Head(down) \in DownFrame /\ Charge(Head(down)) \in Nat
      BY <2>1, <2>2, DataFrameLength DEF Charge
    <3> QED BY <2>1, <2>2, <3>1, ChargesTotals
  <2>3. ASSUME up # <<>>, NEW stream \in {0, 1}
        PROVE  Grant(Head(up), stream) <= Total(Grants(up, stream))
    <3>1. Head(up) \in UpFrame /\ Grant(Head(up), stream) \in Nat
      <4>1. Head(up) \in UpFrame
        BY <2>1, <2>3
      <4> QED BY <4>1, UpdateFrameFields DEF Grant
    <3> QED BY <2>1, <2>3, <3>1, GrantsTotals
  <2> QED BY <2>1, <2>2, <2>3
<1> QED BY <1>1, H2Invariant, WireIsAccounted, PTL

-----------------------------------------------------------------------------
(* The response as a whole.                                                *)

(* The bytes of body that frames carry, without their padding. *)
Byte(f) == IF f.type = "DATA" THEN f.data ELSE 0
Bytes(frames) == [i \in DOMAIN frames |-> Byte(frames[i])]

(* A frame that opens a header block, and one that completes it. *)
Opens(f) == f.type = "HEADERS" /\ f.more
Completes(f) == f.type = "CONTINUATION" \/ (f.type = "HEADERS" /\ ~f.more)

(* Every byte of the body is with the client, on its way, or with the server. *)
BodyAccounted ==
  /\ body \in Nat
  /\ body + Total(Bytes(down)) + srv.left = Body

(* The response ends with the DATA frame that says so, and nothing follows it. *)
EndComesLast ==
  /\ ~srv.preface => srv.ended = "no" /\ srv.heads = 0
  /\ srv.block => srv.heads > 0 /\ srv.ended # "data"
  /\ srv.ended = "data" => srv.left = 0
  /\ \A i \in DOMAIN down :
       down[i].type = "DATA" /\ down[i].last => i = Len(down) /\ srv.ended = "data"
  /\ streamEnded => down = <<>> /\ srv.ended = "data" /\ headers

(* A CONTINUATION comes right behind the HEADERS frame that it continues. *)
BlocksAreWhole ==
  /\ srv.block => IF down = <<>> THEN hdrActive ELSE Opens(down[Len(down)])
  /\ \A i \in DOMAIN down : down[i].type = "CONTINUATION" =>
       /\ ~down[i].more
       /\ IF i = 1 THEN hdrActive ELSE Opens(down[i - 1])

(* A header block is complete before the first DATA frame. *)
HeadersFirst ==
  /\ srv.heads > 0 /\ ~srv.block => headers \/ \E j \in DOMAIN down : Completes(down[j])
  /\ \A i \in DOMAIN down : down[i].type = "DATA" =>
       headers \/ \E j \in DOMAIN down : j < i /\ Completes(down[j])

ResponseInv == BodyAccounted /\ EndComesLast /\ BlocksAreWhole /\ HeadersFirst

(* The same sums as for what the frames are charged. *)
LEMMA BytesTotals ==
  ASSUME NEW s \in Seq(DownFrame)
  PROVE  /\ Total(Bytes(s)) \in Nat
         /\ s = <<>> => Total(Bytes(s)) = 0
         /\ \A f \in DownFrame : Total(Bytes(Append(s, f))) = Total(Bytes(s)) + Byte(f)
         /\ s # <<>> => /\ Total(Bytes(s)) = Total(Bytes(Tail(s))) + Byte(Head(s))
                        /\ Total(Bytes(Tail(s))) \in Nat
<1> DEFINE w == [f \in DownFrame |-> Byte(f)]
<1>1. w \in [DownFrame -> Nat]
  BY DEF Byte, DownFrame, PlainFrame, HeaderFrame, DataFrame
<1>2. ASSUME NEW t \in Seq(DownFrame) PROVE Bytes(t) = Weighed(t, w)
  BY DEF Bytes, Weighed
<1>3. \A f \in DownFrame : w[f] = Byte(f) /\ Append(s, f) \in Seq(DownFrame)
  OBVIOUS
<1>4. s # <<>> => /\ Head(s) \in DownFrame /\ Tail(s) \in Seq(DownFrame)
                  /\ w[Head(s)] = Byte(Head(s))
  OBVIOUS
<1> HIDE DEF w
<1>5. Bytes(s) = Weighed(s, w)
  BY <1>2
<1>6. \A f \in DownFrame : Bytes(Append(s, f)) = Weighed(Append(s, f), w)
  BY <1>2, <1>3
<1>7. s # <<>> => Bytes(Tail(s)) = Weighed(Tail(s), w)
  BY <1>2, <1>4
<1>8. /\ Total(Weighed(s, w)) \in Nat
      /\ s = <<>> => Total(Weighed(s, w)) = 0
      /\ \A f \in DownFrame : Total(Weighed(Append(s, f), w)) = Total(Weighed(s, w)) + w[f]
      /\ s # <<>> => /\ Total(Weighed(s, w)) = Total(Weighed(Tail(s), w)) + w[Head(s)]
                     /\ Total(Weighed(Tail(s), w)) \in Nat
  BY <1>1, WeighedTotals
<1> QED BY <1>3, <1>4, <1>5, <1>6, <1>7, <1>8

(* What a frame that is read does to the reader's own state. *)
Digests(f) ==
  /\ body' = body + Byte(f)
  /\ f.type = "DATA" => streamEnded' = f.last
  /\ f.type # "DATA" => ~streamEnded'
  /\ f.type \notin {"HEADERS", "CONTINUATION"} => UNCHANGED <<headers, hdrActive>>
  /\ Opens(f) => hdrActive'
  /\ headers => headers'
  /\ f.type = "HEADERS" /\ ~f.more => headers'
  /\ f.type = "CONTINUATION" /\ ~f.more /\ hdrActive => headers'

(* The frame loop keeps its own state as Digests says. *)
LEMMA FrameDigested ==
  ASSUME Loop, result' = "none", body \in Nat
  PROVE  /\ ~streamEnded /\ down # <<>> /\ down' = Tail(down)
         /\ UNCHANGED srv
         /\ Digests(Head(down))
<1>1. ~WriteBroken /\ \A r \in {"ok", "error"} : ~Leave(r)
  BY DEF WriteBroken, Leave, Return
<1>2. CASE ReadData
  BY <1>1, <1>2 DEF ReadData, Frame, Reading, Digests, Byte, Opens
<1>3. CASE ReadHeaders
  <2>1. Head(down).type = "HEADERS" /\ body' = body
    BY <1>3 DEF ReadHeaders, Frame
  <2>2. body' = body + Byte(Head(down))
    BY <2>1 DEF Byte
  <2>3. /\ headers' = (headers \/ ~Head(down).more)
        /\ hdrActive' = (hdrActive \/ Head(down).more)
        /\ ~streamEnded /\ ~streamEnded'
        /\ down # <<>> /\ down' = Tail(down) /\ UNCHANGED srv
    BY <1>3 DEF ReadHeaders, Frame, Reading
  <2>4. Head(down).type # "DATA"
    BY <2>1
  <2> QED BY <2>1, <2>2, <2>3, <2>4, Zenon DEF Digests, Opens
<1>4. CASE ReadContinuation
  BY <1>1, <1>4 DEF ReadContinuation, Frame, Reading, Digests, Byte, Opens
<1>5. CASE ReadControl \/ ReadIgnored
  BY <1>1, <1>5 DEF ReadControl, ReadIgnored, Frame, Reading, Digests, Byte, Opens, reader
<1>6. CASE ReadUndecodable \/ ReadAbort \/ ReadEOF \/ ReadError \/ ReadDone
  BY <1>1, <1>6 DEF ReadUndecodable, ReadAbort, ReadEOF, ReadError, ReadDone
<1> QED BY <1>2, <1>3, <1>4, <1>5, <1>6 DEF Loop

(* Reading a frame keeps the response whole. *)
LEMMA ResponseRead ==
  ASSUME WireOK, ResponseInv, Loop, result' = "none"
  PROVE  ResponseInv'
<1> DEFINE f == Head(down)
<1>1. /\ down \in Seq(DownFrame) /\ down # <<>> /\ down' = Tail(down) /\ UNCHANGED srv
      /\ body \in Nat /\ srv.left \in Nat /\ ~streamEnded
  BY FrameDigested DEF WireOK, ServerState, ResponseInv, BodyAccounted
<1>2. Digests(f)
  BY <1>1, FrameDigested
<1>3. /\ f \in DownFrame /\ f = down[1]
      /\ Len(down) \in Nat \ {0} /\ Len(down') = Len(down) - 1
      /\ DOMAIN down = 1..Len(down) /\ DOMAIN down' = 1..(Len(down) - 1)
      /\ \A i \in DOMAIN down' : i + 1 \in DOMAIN down /\ down'[i] = down[i + 1]
  BY <1>1
<1> HIDE DEF f
<1>4. BodyAccounted'
  <2>1. /\ Total(Bytes(down)) = Total(Bytes(down')) + Byte(f)
        /\ Total(Bytes(down')) \in Nat
    BY <1>1, BytesTotals DEF f
  <2>2. Byte(f) \in Nat
    BY <1>3 DEF Byte, DownFrame, PlainFrame, HeaderFrame, DataFrame
  <2> QED BY <1>1, <1>2, <2>1, <2>2 DEF Digests, ResponseInv, BodyAccounted
<1>5. EndComesLast'
  <2>1. /\ ~srv'.preface => srv'.ended = "no" /\ srv'.heads = 0
        /\ srv'.block => srv'.heads > 0 /\ srv'.ended # "data"
        /\ srv'.ended = "data" => srv'.left = 0
    BY <1>1 DEF ResponseInv, EndComesLast
  <2>2. ASSUME NEW i \in DOMAIN down', down'[i].type = "DATA", down'[i].last
        PROVE  i = Len(down') /\ srv'.ended = "data"
    <3>1. i + 1 \in DOMAIN down /\ down[i + 1].type = "DATA" /\ down[i + 1].last
      BY <1>3, <2>2
    <3>2. i + 1 = Len(down) /\ srv.ended = "data"
      BY <3>1 DEF ResponseInv, EndComesLast
    <3> QED BY <1>1, <1>3, <3>2
  <2>3. ASSUME streamEnded' PROVE down' = <<>> /\ srv'.ended = "data" /\ headers'
    <3>1. f.type = "DATA" /\ f.last
      BY <1>2, <2>3 DEF Digests
    <3>2. 1 = Len(down) /\ srv.ended = "data"
      BY <1>3, <3>1 DEF ResponseInv, EndComesLast
    <3>3. headers
      BY <1>3, <3>1 DEF ResponseInv, HeadersFirst
    <3> QED BY <1>1, <1>2, <1>3, <3>2, <3>3 DEF Digests
  <2> QED BY <2>1, <2>2, <2>3 DEF EndComesLast
<1>6. BlocksAreWhole'
  <2>1. ASSUME srv'.block
        PROVE  IF down' = <<>> THEN hdrActive' ELSE Opens(down'[Len(down')])
    <3>1. Opens(down[Len(down)])
      BY <1>1, <2>1 DEF ResponseInv, BlocksAreWhole
    <3>2. CASE down' = <<>>
      <4>1. Len(down) = 1
        BY <1>3, <3>2
      <4> QED BY <1>2, <1>3, <3>1, <3>2, <4>1 DEF Digests
    <3>3. CASE down' # <<>>
      <4>1. Len(down') \in DOMAIN down' /\ Len(down') + 1 = Len(down)
        BY <1>1, <1>3, <3>3
      <4> QED BY <1>3, <3>1, <3>3, <4>1
    <3> QED BY <3>2, <3>3
  <2>2. ASSUME NEW i \in DOMAIN down', down'[i].type = "CONTINUATION"
        PROVE  ~down'[i].more /\ IF i = 1 THEN hdrActive' ELSE Opens(down'[i - 1])
    <3>1. i + 1 \in DOMAIN down /\ down[i + 1] = down'[i] /\ i + 1 # 1 /\ (i + 1) - 1 = i
      BY <1>3
    <3>2. ~down[i + 1].more /\ Opens(down[i])
      BY <2>2, <3>1 DEF ResponseInv, BlocksAreWhole
    <3>3. CASE i = 1
      BY <1>2, <1>3, <3>1, <3>2, <3>3 DEF Digests
    <3>4. CASE i # 1
      <4>1. i - 1 \in DOMAIN down' /\ (i - 1) + 1 = i
        BY <1>3, <3>4
      <4> QED BY <1>3, <3>1, <3>2, <3>4, <4>1
    <3> QED BY <3>3, <3>4
  <2> QED BY <2>1, <2>2 DEF BlocksAreWhole
<1>7. HeadersFirst'
  <2>1. CASE Completes(f)
    <3>1. headers'
      <4>1. CASE f.type = "HEADERS" /\ ~f.more
        BY <1>2, <4>1 DEF Digests
      <4>2. CASE f.type = "CONTINUATION"
        <5>1. ~f.more /\ hdrActive
          BY <1>3, <4>2 DEF ResponseInv, BlocksAreWhole
        <5> QED BY <1>2, <4>2, <5>1 DEF Digests
      <4> QED BY <2>1, <4>1, <4>2 DEF Completes
    <3> QED BY <3>1 DEF HeadersFirst
  <2>2. CASE ~Completes(f)
    <3>1. ASSUME NEW j \in DOMAIN down, Completes(down[j])
          PROVE  j - 1 \in DOMAIN down' /\ Completes(down'[j - 1])
      <4>1. j # 1
        BY <1>3, <2>2, <3>1
      <4>2. j - 1 \in DOMAIN down' /\ (j - 1) + 1 = j
        BY <1>3, <4>1
      <4> QED BY <1>3, <3>1, <4>2
    <3>2. ASSUME srv'.heads > 0, ~srv'.block
          PROVE  headers' \/ \E j \in DOMAIN down' : Completes(down'[j])
      <4>1. headers \/ \E j \in DOMAIN down : Completes(down[j])
        BY <1>1, <3>2 DEF ResponseInv, HeadersFirst
      <4> QED BY <1>2, <3>1, <4>1 DEF Digests
    <3>3. ASSUME NEW i \in DOMAIN down', down'[i].type = "DATA"
          PROVE  headers' \/ \E j \in DOMAIN down' : j < i /\ Completes(down'[j])
      <4>1. i + 1 \in DOMAIN down /\ down[i + 1].type = "DATA"
        BY <1>3, <3>3
      <4>2. headers \/ \E j \in DOMAIN down : j < i + 1 /\ Completes(down[j])
        BY <4>1 DEF ResponseInv, HeadersFirst
      <4>3. ASSUME NEW j \in DOMAIN down, j < i + 1, Completes(down[j])
            PROVE  \E k \in DOMAIN down' : k < i /\ Completes(down'[k])
        <5>1. j - 1 \in DOMAIN down' /\ Completes(down'[j - 1])
          BY <3>1, <4>3
        <5>2. j - 1 < i
          BY <1>3, <4>3
        <5> QED BY <5>1, <5>2
      <4> QED BY <1>2, <4>2, <4>3 DEF Digests
    <3> QED BY <3>2, <3>3 DEF HeadersFirst
  <2> QED BY <2>1, <2>2
<1> QED BY <1>4, <1>5, <1>6, <1>7 DEF ResponseInv

(* What the server adds to the wire, and what it remembers of it. *)
Extends(f) ==
  /\ down' = Append(down, f)
  /\ UNCHANGED <<headers, hdrActive, body, streamEnded>>
  /\ srv'.preface /\ srv.ended # "data"
  /\ srv'.left \in Nat /\ srv'.left + Byte(f) = srv.left
  /\ srv'.ended = "data" => srv'.left = 0 /\ ~srv'.block
  /\ f.type = "DATA" /\ f.last => srv'.ended = "data"
  /\ f.type = "CONTINUATION" => srv.block /\ ~f.more
  /\ srv'.block => srv'.heads > 0 /\ Opens(f)
  /\ srv'.heads > 0 /\ ~srv'.block => Completes(f) \/ (srv.heads > 0 /\ ~srv.block)
  /\ f.type = "DATA" => srv.heads > 0 /\ ~srv.block

(* Sending a frame keeps the response whole. *)
LEMMA ResponseSent ==
  ASSUME WireOK, ResponseInv, NEW f \in DownFrame, Extends(f)
  PROVE  ResponseInv'
<1>1. /\ down \in Seq(DownFrame) /\ down' = Append(down, f) /\ down' # <<>>
      /\ UNCHANGED <<headers, hdrActive, body, streamEnded>>
      /\ body \in Nat /\ srv.left \in Nat /\ ~streamEnded
  BY DEF Extends, WireOK, ServerState, ResponseInv, BodyAccounted, EndComesLast
<1>2. /\ Len(down) \in Nat /\ Len(down') = Len(down) + 1
      /\ DOMAIN down = 1..Len(down) /\ DOMAIN down' = 1..(Len(down) + 1)
      /\ down'[Len(down) + 1] = f
      /\ \A i \in DOMAIN down : i \in DOMAIN down' /\ i # Len(down) + 1 /\ down'[i] = down[i]
      /\ \A i \in DOMAIN down' : i \in DOMAIN down \/ i = Len(down) + 1
  BY <1>1
<1>3. BodyAccounted'
  <2>1. /\ Total(Bytes(down')) = Total(Bytes(down)) + Byte(f)
        /\ Total(Bytes(down)) \in Nat
    BY <1>1, BytesTotals
  <2>2. Byte(f) \in Nat
    BY DEF Byte, DownFrame, PlainFrame, HeaderFrame, DataFrame
  <2> QED BY <1>1, <2>1, <2>2 DEF Extends, ResponseInv, BodyAccounted
<1>4. EndComesLast'
  <2>1. ASSUME NEW i \in DOMAIN down', down'[i].type = "DATA", down'[i].last
        PROVE  i = Len(down') /\ srv'.ended = "data"
    <3>1. CASE i \in DOMAIN down
      BY <1>2, <2>1, <3>1 DEF Extends, ResponseInv, EndComesLast
    <3>2. CASE i = Len(down) + 1
      BY <1>2, <2>1, <3>2 DEF Extends
    <3> QED BY <1>2, <3>1, <3>2
  <2>2. ~streamEnded'
    BY <1>1
  <2>3. /\ ~srv'.preface => srv'.ended = "no" /\ srv'.heads = 0
        /\ srv'.block => srv'.heads > 0 /\ srv'.ended # "data"
        /\ srv'.ended = "data" => srv'.left = 0
    BY DEF Extends
  <2> QED BY <2>1, <2>2, <2>3 DEF EndComesLast
<1>5. BlocksAreWhole'
  <2>1. srv'.block => Opens(down'[Len(down')])
    BY <1>2 DEF Extends
  <2>2. ASSUME NEW i \in DOMAIN down', down'[i].type = "CONTINUATION"
        PROVE  ~down'[i].more /\ IF i = 1 THEN hdrActive' ELSE Opens(down'[i - 1])
    <3>1. CASE i \in DOMAIN down
      <4>1. ~down[i].more /\ IF i = 1 THEN hdrActive ELSE Opens(down[i - 1])
        BY <1>2, <2>2, <3>1 DEF ResponseInv, BlocksAreWhole
      <4>2. i # 1 => i - 1 \in DOMAIN down
        BY <1>2, <3>1
      <4> QED BY <1>1, <1>2, <3>1, <4>1, <4>2
    <3>2. CASE i = Len(down) + 1
      <4>1. ~f.more /\ IF down = <<>> THEN hdrActive ELSE Opens(down[Len(down)])
        BY <1>2, <2>2, <3>2 DEF Extends, ResponseInv, BlocksAreWhole
      <4>2. CASE down = <<>>
        BY <1>1, <1>2, <3>2, <4>1, <4>2
      <4>3. CASE down # <<>>
        <5>1. Len(down) \in DOMAIN down /\ i # 1 /\ i - 1 = Len(down)
          BY <1>1, <1>2, <3>2, <4>3
        <5> QED BY <1>2, <3>2, <4>1, <4>3, <5>1
      <4> QED BY <4>2, <4>3
    <3> QED BY <1>2, <3>1, <3>2
  <2> QED BY <1>1, <2>1, <2>2 DEF BlocksAreWhole
<1>6. HeadersFirst'
  <2>1. ASSUME srv.heads > 0, ~srv.block
        PROVE  headers' \/ \E j \in DOMAIN down : j \in DOMAIN down' /\ Completes(down'[j])
    BY <1>1, <1>2, <2>1 DEF ResponseInv, HeadersFirst
  <2>2. Len(down) + 1 \in DOMAIN down' /\ \A j \in DOMAIN down : j < Len(down) + 1
    BY <1>2
  <2>3. ASSUME srv'.heads > 0, ~srv'.block
        PROVE  headers' \/ \E j \in DOMAIN down' : Completes(down'[j])
    BY <1>2, <2>1, <2>2, <2>3 DEF Extends
  <2>4. ASSUME NEW i \in DOMAIN down', down'[i].type = "DATA"
        PROVE  headers' \/ \E j \in DOMAIN down' : j < i /\ Completes(down'[j])
    <3>1. CASE i \in DOMAIN down
      BY <1>1, <1>2, <2>4, <3>1 DEF ResponseInv, HeadersFirst
    <3>2. CASE i = Len(down) + 1
      BY <1>2, <2>1, <2>2, <2>4, <3>2 DEF Extends
    <3> QED BY <1>2, <3>1, <3>2
  <2> QED BY <2>3, <2>4 DEF HeadersFirst
<1> QED BY <1>3, <1>4, <1>5, <1>6 DEF ResponseInv

(* Every frame the server sends goes on from where its response is. *)
LEMMA ServerExtends ==
  ASSUME WireOK, ResponseInv,
         \/ ServerPreface \/ ServerControl \/ ServerHeaders \/ ServerContinuation
         \/ ServerData \/ ServerAborts
  PROVE  \E f \in DownFrame : Extends(f)
<1>1. /\ srv \in ServerState /\ srv.left \in Nat /\ srv.heads \in Nat
      /\ ~srv.preface => srv.ended = "no" /\ srv.heads = 0
      /\ srv.block => srv.heads > 0 /\ srv.ended # "data"
  BY DEF WireOK, ServerState, ResponseInv, EndComesLast
<1>2. UNCHANGED <<headers, hdrActive, body, streamEnded>>
  BY DEF ServerPreface, ServerControl, ServerHeaders, ServerContinuation, ServerData,
    ServerAborts, Sends, reader
<1>3. CASE ServerPreface \/ ServerControl \/ ServerAborts
  <2>1. PICK type \in {"SETTINGS", "PING", "IGNORED", "RST_STREAM", "GOAWAY", "UNDECODABLE"} :
          down' = Append(down, Plain(type))
    BY <1>3 DEF ServerPreface, ServerControl, ServerAborts, Sends
  <2>2. Plain(type) \in DownFrame /\ Byte(Plain(type)) = 0
        /\ Plain(type).type \notin {"DATA", "HEADERS", "CONTINUATION"}
    BY DEF Plain, DownFrame, PlainFrame, Byte
  <2>3. /\ srv'.preface /\ srv.ended = "no" /\ ~srv.block /\ ~srv'.block
        /\ srv'.left = srv.left /\ srv'.heads = srv.heads /\ srv'.ended # "data"
    <3>1. CASE ServerPreface
      BY <1>1, <3>1 DEF ServerPreface, Sends, ServerState
    <3>2. CASE ServerControl
      BY <1>1, <3>2 DEF ServerControl, Answering, Sends, ServerState
    <3>3. CASE ServerAborts
      BY <1>1, <3>3 DEF ServerAborts, Answering, Sends, ServerState
    <3> QED BY <1>3, <3>1, <3>2, <3>3
  <2>4. Extends(Plain(type))
    BY <1>1, <1>2, <2>1, <2>2, <2>3 DEF Extends
  <2> QED BY <2>2, <2>4
<1>4. CASE ServerHeaders
  <2>1. PICK more \in BOOLEAN, last \in BOOLEAN :
          /\ down' = Append(down, Headers(more, last))
          /\ srv' = [srv EXCEPT !.heads = @ + 1, !.block = more, !.ended = Ending(last, "headers")]
    BY <1>4 DEF ServerHeaders, Sends
  <2> DEFINE f == Headers(more, last)
  <2>2. /\ f \in DownFrame /\ Byte(f) = 0 /\ f.type = "HEADERS" /\ f.more = more
    BY DEF Headers, DownFrame, HeaderFrame, Byte
  <2>3. /\ srv'.preface /\ srv.ended = "no" /\ srv'.left = srv.left
        /\ srv'.heads = srv.heads + 1 /\ srv'.block = more /\ srv'.ended # "data"
    BY <1>1, <1>4, <2>1 DEF ServerHeaders, Answering, ServerState, Ending
  <2> HIDE DEF f
  <2>4. Extends(f)
    BY <1>1, <1>2, <2>1, <2>2, <2>3 DEF Extends, Opens, Completes, f
  <2> QED BY <2>2, <2>4
<1>5. CASE ServerContinuation
  <2> DEFINE f == Continuation(FALSE)
  <2>1. /\ down' = Append(down, f) /\ srv.block
        /\ srv' = [srv EXCEPT !.block = FALSE]
    BY <1>5 DEF ServerContinuation, Sends
  <2>2. f \in DownFrame /\ Byte(f) = 0 /\ f.type = "CONTINUATION" /\ ~f.more
    BY DEF Continuation, DownFrame, HeaderFrame, Byte
  <2>3. /\ srv'.preface /\ srv.ended # "data" /\ srv'.ended # "data"
        /\ srv'.left = srv.left /\ ~srv'.block
    BY <1>1, <2>1 DEF ServerState
  <2> HIDE DEF f
  <2>4. Extends(f)
    <3>1. srv'.left \in Nat /\ srv'.left + Byte(f) = srv.left
      BY <1>1, <2>2, <2>3
    <3>2. Completes(f) /\ f.type # "DATA"
      BY <2>2 DEF Completes
    <3> QED BY <1>2, <2>1, <2>2, <2>3, <3>1, <3>2 DEF Extends
  <2> QED BY <2>2, <2>4
<1>6. CASE ServerData
  <2>1. PICK n \in 0..srv.left, pad \in 0..1, last \in BOOLEAN :
          /\ last => n = srv.left
          /\ down' = Append(down, Data(n, pad, last))
          /\ srv' = [srv EXCEPT !.left = @ - n, !.ended = Ending(last, "data")]
    BY <1>6 DEF ServerData, Sends
  <2> DEFINE f == Data(n, pad, last)
  <2>2. n \in Nat /\ pad \in Nat /\ srv.left - n \in Nat
    BY <1>1
  <2>3. f \in DownFrame /\ Byte(f) = n /\ f.type = "DATA" /\ f.last = last
    BY <2>2 DEF Data, DownFrame, DataFrame, Byte
  <2>4. /\ srv'.preface /\ srv.ended = "no" /\ ~srv.block /\ ~srv'.block
        /\ srv.heads > 0 /\ srv'.heads = srv.heads
        /\ srv'.left = srv.left - n /\ srv'.ended = Ending(last, "data")
    BY <1>1, <1>6, <2>1 DEF ServerData, Answering, ServerState
  <2>5. /\ srv'.left \in Nat /\ srv'.left + Byte(f) = srv.left
        /\ srv'.ended = "data" => srv'.left = 0
        /\ last => srv'.ended = "data"
    BY <1>1, <2>1, <2>2, <2>3, <2>4 DEF Ending
  <2> HIDE DEF f
  <2>6. Extends(f)
    BY <1>2, <2>1, <2>3, <2>4, <2>5 DEF Extends, f
  <2> QED BY <2>3, <2>6
<1> QED BY <1>3, <1>4, <1>5, <1>6

(* While an HTTP/2 request runs, ResponseInv holds; what it returns is whole. *)
WholeInv ==
  /\ result = "none" /\ proto = "h2" => ResponseInv
  /\ AnswerIsWhole

(* The response stays whole over every step of the client and the server. *)
LEMMA WholeStep ==
  ASSUME WireOK, WholeInv, [H2Next]_h2vars
  PROVE  WholeInv'
<1>1. CASE Loop
  <2>1. /\ result = "none" /\ proto = "h2" /\ UNCHANGED <<proto, wire, late>>
        \/ ReadDone
    BY <1>1 DEF Loop, ReadControl, ReadIgnored, ReadHeaders, ReadContinuation, ReadUndecodable,
      ReadData, ReadAbort, ReadEOF, ReadError, Frame, Reading, At
  <2>2. CASE result' = "none"
    <3>1. ~ReadDone
      BY <2>2 DEF ReadDone, Leave, Return
    <3>2. ResponseInv'
      BY <1>1, <2>1, <2>2, <3>1, ResponseRead DEF WholeInv
    <3> QED BY <2>2, <3>2 DEF WholeInv, AnswerIsWhole
  <2>3. CASE result' # "none"
    <3>1. CASE result' # "ok"
      BY <2>3, <3>1 DEF WholeInv, AnswerIsWhole
    <3>2. CASE result' = "ok"
      <4>1. ReadEOF \/ ReadError \/ ReadDone
        <5>1. ~Leave("error") /\ (UNCHANGED result => result' = "none")
          BY <1>1, <2>1, <3>2 DEF Leave, Return, ReadDone, At
        <5> QED BY <1>1, <2>3, <5>1 DEF Loop, ReadControl, ReadIgnored, ReadHeaders, ReadContinuation,
          ReadUndecodable, ReadData, ReadAbort, Quiet, Wrote, WriteBroken
      <4>2. CASE ReadEOF \/ ReadError
        <5>1. wire' # "up" \/ late'
          BY <4>2 DEF ReadEOF, ReadError
        <5> QED BY <2>3, <5>1 DEF WholeInv, AnswerIsWhole
      <4>3. CASE ReadDone
        <5>1. /\ result = "none" /\ streamEnded
              /\ UNCHANGED <<proto, reader, down, srv>>
          BY <4>3 DEF ReadDone, At
        <5>2. SUFFICES ASSUME proto = "h2"
                       PROVE  headers /\ srv.ended = "data" /\ body = Body - srv.left /\ srv.left = 0
          BY <2>3, <5>1 DEF WholeInv, AnswerIsWhole, reader
        <5>3. ResponseInv
          BY <5>1, <5>2 DEF WholeInv
        <5>4. headers /\ srv.ended = "data" /\ srv.left = 0 /\ down = <<>>
          BY <5>1, <5>3 DEF ResponseInv, EndComesLast
        <5>5. Total(Bytes(down)) = 0
          BY <5>4, BytesTotals DEF WireOK
        <5>6. body \in Nat /\ body + Total(Bytes(down)) + srv.left = Body
          BY <5>3 DEF ResponseInv, BodyAccounted
        <5> QED BY <5>4, <5>5, <5>6
      <4> QED BY <4>1, <4>2, <4>3
    <3> QED BY <3>1, <3>2
  <2> QED BY <2>2, <2>3
<1>2. CASE \/ ServerPreface \/ ServerControl \/ ServerHeaders \/ ServerContinuation
           \/ ServerData \/ ServerAborts
  <2>1. result = "none" /\ proto = "h2" /\ result' = "none"
    BY <1>2 DEF ServerPreface, ServerControl, ServerHeaders, ServerContinuation, ServerData,
      ServerAborts, Answering, Serving, Sends
  <2>2. ResponseInv
    BY <2>1 DEF WholeInv
  <2>3. ResponseInv'
    BY <1>2, <2>2, ServerExtends, ResponseSent
  <2> QED BY <2>1, <2>3 DEF WholeInv, AnswerIsWhole
<1>3. CASE ServerReads \/ UNCHANGED h2vars \/ Returned
  <2>1. UNCHANGED <<proto, wire, late, reader, result, down, srv>>
    BY <1>3 DEF ServerReads, Returned, h2vars, link
  <2> QED BY <2>1 DEF WholeInv, ResponseInv, BodyAccounted, EndComesLast, BlocksAreWhole,
    HeadersFirst, AnswerIsWhole, reader
<1>4. CASE ServerCloses \/ Deadline
  <2>1. /\ result = "none" /\ UNCHANGED <<proto, reader, result, down, srv>>
    BY <1>4 DEF ServerCloses, Deadline, Serving, Reading, At
  <2> QED BY <2>1 DEF WholeInv, ResponseInv, BodyAccounted, EndComesLast, BlocksAreWhole,
    HeadersFirst, AnswerIsWhole, reader
<1>5. CASE Dialling
  <2>1. /\ result = "none" /\ UNCHANGED <<reader, down, srv>>
    BY <1>5 DEF Dialling, DialStarts, DialRefused, Connected, ProxyAnswers, ProxyFails,
      HandshakeFails, HandshakeDone, Fallback, Write, WriteFails, ReadAll, At
  <2>2. CASE ReadAll
    BY <2>2 DEF ReadAll, Leave, Return, WholeInv, AnswerIsWhole
  <2>3. CASE ~ReadAll
    <3>1. result' \in {"none", "error"} /\ (proto' = proto \/ proto' = "h1")
      BY <1>5, <2>1, <2>3 DEF Dialling, DialStarts, DialRefused, Connected, ProxyAnswers, ProxyFails,
        HandshakeFails, HandshakeDone, Fallback, Write, WriteFails, Leave, Return, link
    <3> QED BY <2>1, <3>1 DEF WholeInv, ResponseInv, BodyAccounted, EndComesLast, BlocksAreWhole,
      HeadersFirst, AnswerIsWhole, reader
  <2> QED BY <2>2, <2>3
<1> QED BY <1>1, <1>2, <1>3, <1>4, <1>5 DEF H2Next, ServerWorks

LEMMA InitWhole == H2Init => WholeInv
<1> SUFFICES ASSUME H2Init PROVE WholeInv
  OBVIOUS
<1>1. /\ down = <<>> /\ down \in Seq(DownFrame) /\ body = 0 /\ ~streamEnded
      /\ srv.left = Body /\ ~srv.block /\ srv.heads = 0 /\ srv.ended = "no"
      /\ result = "none"
  BY DEF H2Init
<1>2. Total(Bytes(down)) = 0
  BY <1>1, BytesTotals
<1> QED BY <1>1, <1>2 DEF WholeInv, ResponseInv, BodyAccounted, EndComesLast, BlocksAreWhole,
  HeadersFirst, AnswerIsWhole

(* A response that Request returns over HTTP/2, from a connection that stayed
   up within the deadline, has its headers and every byte of its body: however
   the server cuts it into frames and header blocks, and whatever the windows. *)
THEOREM AnswersAreWhole == H2Spec => []AnswerIsWhole
<1>1. H2Init => WholeInv
  BY InitWhole
<1>2. WireOK /\ IInv /\ ConnInv /\ WholeInv /\ [H2Next]_h2vars => WholeInv'
  BY WholeStep
<1>3. WholeInv => AnswerIsWhole
  BY DEF WholeInv
<1> QED BY <1>1, <1>2, <1>3, H2Invariant, PTL DEF H2Spec

-----------------------------------------------------------------------------
(* Why the frame loop reads on when the response has ended.                *)

LastFrame(f) == f.type = "DATA" /\ f.last

(* An end that a DATA frame announces is seen by the loop, or it is still on its way, in
   the last of the frames. *)
EndNotMissed ==
  result = "none" /\ proto = "h2" /\ srv.ended = "data" =>
    streamEnded \/ (down # <<>> /\ LastFrame(down[Len(down)]))

LEMMA OneOrMore == \A n \in Nat : n >= 1 => n = 1 \/ n > 1
OBVIOUS

LEMMA EmptySeqIsEmpty == \A n : n \in 1..Len(<<>>) => FALSE
OBVIOUS

LEMMA EndNotMissedStep ==
  ASSUME WireOK, WholeInv, EndNotMissed, [H2Next]_h2vars
  PROVE  EndNotMissed'
<1> SUFFICES ASSUME result' = "none", proto' = "h2", srv'.ended = "data"
             PROVE  streamEnded' \/ (down' # <<>> /\ LastFrame(down'[Len(down')]))
  BY DEF EndNotMissed
<1> DEFINE Goal == streamEnded' \/ (down' # <<>> /\ LastFrame(down'[Len(down')]))
<1>1. ASSUME UNCHANGED <<proto, down, srv, streamEnded>>, result = "none" PROVE Goal
  BY <1>1 DEF EndNotMissed
<1>2. CASE Loop
  <2>1. result = "none" /\ proto = "h2"
    BY <1>2 DEF Loop, ReadControl, ReadIgnored, ReadHeaders, ReadContinuation, ReadUndecodable,
      ReadData, ReadAbort, ReadEOF, ReadError, ReadDone, Frame, Reading, At
  <2>2. body \in Nat /\ down \in Seq(DownFrame)
    BY <2>1 DEF WholeInv, ResponseInv, BodyAccounted, WireOK
  <2>3. /\ ~streamEnded /\ down # <<>> /\ down' = Tail(down) /\ UNCHANGED srv
        /\ Digests(Head(down))
    BY <1>2, <2>2, FrameDigested
  <2>4. LastFrame(down[Len(down)])
    BY <2>1, <2>3 DEF EndNotMissed
  <2>5. Len(down) \in Nat /\ Len(down) >= 1
    BY <2>2, <2>3
  <2>6. CASE Len(down) = 1
    <3>1. Head(down) = down[Len(down)]
      BY <2>2, <2>3, <2>6
    <3> QED BY <2>3, <2>4, <3>1 DEF Digests, LastFrame
  <2>7. CASE Len(down) > 1
    <3>1. Len(Tail(down)) = Len(down) - 1
          /\ \A i \in 1..Len(Tail(down)) : Tail(down)[i] = down[i + 1]
      BY <2>2, <2>3, HeadTailProperties
    <3>2. Len(Tail(down)) \in 1..Len(Tail(down)) /\ Len(Tail(down)) + 1 = Len(down)
      BY <2>5, <2>7, <3>1
    <3>3. Tail(down)[Len(Tail(down))] = down[Len(down)]
      BY <3>1, <3>2
    <3>4. Tail(down) # <<>>
      BY <3>2, EmptySeqIsEmpty
    <3> QED BY <2>3, <2>4, <3>3, <3>4
  <2>8. Len(down) = 1 \/ Len(down) > 1
    BY <2>5, OneOrMore
  <2> QED BY <2>6, <2>7, <2>8
<1>3. CASE ServerData
  <2>1. PICK n \in 0..srv.left, pad \in 0..1, last \in BOOLEAN :
          /\ down' = Append(down, Data(n, pad, last))
          /\ srv' = [srv EXCEPT !.left = @ - n, !.ended = Ending(last, "data")]
    BY <1>3 DEF ServerData, Sends
  <2>2. srv \in ServerState /\ down \in Seq(DownFrame)
    BY DEF WireOK
  <2>3. last
    BY <2>1, <2>2 DEF ServerState, Ending
  <2> DEFINE f == Data(n, pad, last)
  <2>4. LastFrame(f)
    BY <2>3 DEF LastFrame, Data
  <2> HIDE DEF f
  <2>5. down' = Append(down, f)
    BY <2>1 DEF f
  <2>6. down' # <<>> /\ down'[Len(down')] = f
    BY <2>2, <2>5, AppendProperties
  <2> QED BY <2>4, <2>6
<1>4. CASE ServerPreface \/ ServerControl \/ ServerHeaders \/ ServerContinuation \/ ServerAborts
  <2>1. /\ result = "none" /\ proto = "h2"
    BY <1>4 DEF ServerPreface, ServerControl, ServerHeaders, ServerContinuation, ServerAborts,
      Answering, Serving
  <2>2. /\ srv \in ServerState
        /\ ~srv.preface => srv.ended = "no"
        /\ srv.block => srv.ended # "data"
    BY <2>1 DEF WireOK, WholeInv, ResponseInv, EndComesLast
  <2> USE DEF Answering, Serving, Sends, ServerState
  <2>3. CASE ServerPreface
    BY <2>2, <2>3 DEF ServerPreface
  <2>4. CASE ServerControl
    BY <2>2, <2>4 DEF ServerControl
  <2>5. CASE ServerHeaders
    BY <2>2, <2>5 DEF ServerHeaders, Ending
  <2>6. CASE ServerContinuation
    BY <2>2, <2>6 DEF ServerContinuation
  <2>7. CASE ServerAborts
    BY <2>2, <2>7 DEF ServerAborts
  <2> QED BY <1>4, <2>3, <2>4, <2>5, <2>6, <2>7
<1>5. CASE ServerReads \/ ServerCloses \/ Deadline \/ UNCHANGED h2vars \/ Returned
  BY <1>1, <1>5 DEF ServerReads, ServerCloses, Deadline, Returned, h2vars, link, reader
<1>6. CASE Dialling
  <2>1. result = "none" /\ UNCHANGED <<reader, down, srv>>
    BY <1>6 DEF Dialling, DialStarts, DialRefused, Connected, ProxyAnswers, ProxyFails,
      HandshakeFails, HandshakeDone, Fallback, Write, WriteFails, ReadAll, At
  <2>2. proto = proto'
    BY <1>6 DEF Dialling, DialStarts, DialRefused, Connected, ProxyAnswers, ProxyFails,
      HandshakeFails, HandshakeDone, Fallback, Write, WriteFails, ReadAll, link
  <2> QED BY <1>1, <2>1, <2>2 DEF reader
<1> QED BY <1>2, <1>3, <1>4, <1>5, <1>6 DEF H2Next, ServerWorks

(* StopsAtEndStream, "reads ... until stream 1 reaches EndStream", fails in one case only,
   that of a response which its HEADERS frame ends: an end announced by a DATA frame is
   never missed, whatever the frames before it. *)
THEOREM OnlyHeadersEndUnseen ==
  H2Spec => []((Reading /\ down = <<>> => srv.ended # "data")
               /\ (~StopsAtEndStream => srv.ended = "headers"))
<1> DEFINE Seen == (Reading /\ down = <<>> => srv.ended # "data")
                   /\ (~StopsAtEndStream => srv.ended = "headers")
           Inv == WireOK /\ IInv /\ ConnInv
           Kept == WholeInv /\ EndNotMissed
<1>1. EndNotMissed => Seen
  BY DEF EndNotMissed, Reading, At, StopsAtEndStream
<1>2. H2Init => Kept
  BY InitWhole DEF H2Init, EndNotMissed
<1>3. Inv /\ Kept /\ [H2Next]_h2vars => Kept'
  BY WholeStep, EndNotMissedStep
<1>4. H2Spec => []Inv
  BY H2Invariant
<1>5. Kept => Seen
  BY <1>1
<1> HIDE DEF Seen, Inv, Kept
<1>6. H2Spec => []Seen
  BY <1>2, <1>3, <1>4, <1>5, PTL DEF H2Spec
<1> QED BY <1>6 DEF Seen

=============================================================================
