------------------------------ MODULE H2Client ------------------------------
(***************************************************************************)
(* One request of the TLS client (internal/netlayer/utls_client.go and     *)
(* h2client.go): dial, through a proxy if there is one, TLS handshake, the *)
(* HTTP/2 exchange and its frame loop, and the fallback to HTTP/1.1; with  *)
(* the origin server and the proxy as its environment.                     *)
(*                                                                         *)
(* The windows are those of FlowControl, which this module extends: every  *)
(* DATA frame sent or read and every WINDOW_UPDATE is one of its steps,    *)
(* and down and up hold the frames behind its counters.                    *)
(***************************************************************************)
EXTENDS FlowControl, Sequences

CONSTANTS
  Proxies,   \* what c.proxy may be: "none", "http", "socks5", "socks4"
  Body,      \* bound: bytes of response body
  MaxFrame   \* bound: bytes of one DATA frame, padding included

ASSUME RequestAssumption ==
  /\ Proxies \subseteq {"none", "http", "socks5", "socks4"}
  /\ Body \in Nat
  /\ MaxFrame \in Nat

VARIABLES
  proto,      \* "h2", then "h1" after the fallback
  phase,      \* "start", "dial", "proxy", "tls", "send", "read"
  awaited,    \* what the proxy still has to answer
  open,       \* connections dialled and not closed
  written,    \* requests written to a server
  result,     \* what Request returned: "none" yet, "ok" or "error"
  down, up,   \* frames on their way to the client, to the server
  wire,       \* the connection: "up", closed by the server ("eof"), "reset"
  late,       \* the deadline of SetDeadline has passed
  srv,        \* the server's response so far
  headers,    \* len(respHeaders) > 0
  hdrActive,  \* hdrBlockActive
  body,       \* respBody.Len()
  streamEnded

reader == <<headers, hdrActive, body, streamEnded>>
link == <<proto, awaited, open, written, wire, late>>
h2vars == <<flowVars, link, reader, phase, result, down, up, srv>>

(* Frames: more when END_HEADERS is not set, last when END_STREAM is; data is
   len(f.Data()) and len is f.Length, which counts the padding as well. *)
Headers(more, last) == [type |-> "HEADERS", more |-> more, last |-> last]
Continuation(more) == [type |-> "CONTINUATION", more |-> more, last |-> FALSE]
Data(data, pad, last) == [type |-> "DATA", data |-> data, len |-> data + pad, last |-> last]
Plain(type) == [type |-> type, last |-> FALSE]
Update(stream, inc) == [type |-> "WINDOW_UPDATE", stream |-> stream, inc |-> inc]

(* The replies the proxy's protocol has before the tunnel is up. *)
Replies(proxy) ==
  CASE proxy = "none" -> <<>>
    [] proxy = "http" -> <<"status", "headers">>
    [] proxy = "socks5" -> <<"method", "auth", "connect", "bound">>
    [] proxy = "socks4" -> <<"granted">>

H2Init ==
  /\ FlowInit
  /\ proto = "h2" /\ phase = "start" /\ awaited = <<>>
  /\ open = 0 /\ written = 0 /\ result = "none"
  /\ down = <<>> /\ up = <<>> /\ wire = "up" /\ late = FALSE
  /\ srv = [left |-> Body, block |-> FALSE, heads |-> 0, ended |-> "no",
            preface |-> FALSE, pinged |-> FALSE]
  /\ headers = FALSE /\ hdrActive = FALSE /\ body = 0 /\ streamEnded = FALSE

----------------------------------------------------------------------------
(* Dialling.  Every error path closes the connection it has opened. *)

Return(r) == result' = r

At(s) == phase = s /\ result = "none"

DialStarts ==
  /\ At("start")
  /\ phase' = "dial"
  /\ UNCHANGED <<flowVars, link, reader, result, down, up, srv>>

DialRefused ==
  /\ At("dial")
  /\ Return("error")
  /\ UNCHANGED <<flowVars, link, reader, phase, down, up, srv>>

Connected ==
  /\ At("dial")
  /\ open' = open + 1
  /\ \E proxy \in Proxies : awaited' = Replies(proxy)
  /\ phase' = IF awaited' = <<>> THEN "tls" ELSE "proxy"
  /\ UNCHANGED <<flowVars, proto, written, wire, late, reader, result, down, up, srv>>

(* A reply that lets the client go on.  A SOCKS5 proxy that wants no
   authentication answers the greeting and skips to the connect reply. *)
ProxyAnswers ==
  /\ At("proxy")
  /\ awaited' \in IF Head(awaited) = "method" THEN {Tail(awaited), Tail(Tail(awaited))}
                  ELSE {Tail(awaited)}
  /\ phase' = IF awaited' = <<>> THEN "tls" ELSE "proxy"
  /\ UNCHANGED <<flowVars, proto, open, written, wire, late, reader, result, down, up, srv>>

(* Mutant of ProxyFails: the connection to the proxy is left open. *)
ProxyFailsOpen ==
  /\ At("proxy") /\ Head(awaited) # "bound"
  /\ Return("error")
  /\ UNCHANGED <<flowVars, link, reader, phase, down, up, srv>>

(* A refusal, a malformed reply, a lost connection.  The reads of the bound
   address ignore their errors, so nothing is refused there. *)
ProxyFails ==
  /\ At("proxy") /\ Head(awaited) # "bound"
  /\ open' = open - 1
  /\ Return("error")
  /\ UNCHANGED <<flowVars, proto, awaited, written, wire, late, reader, phase, down, up, srv>>

(* The deferred conn.Close of the request function that holds it. *)
Leave(r) ==
  /\ open' = open - 1
  /\ Return(r)

HandshakeFails ==
  /\ At("tls")
  /\ Leave("error")
  /\ UNCHANGED <<flowVars, proto, awaited, written, wire, late, reader, phase, down, up, srv>>

(* requestH2 goes on only if ALPN chose h2; requestHTTP1 does not look. *)
HandshakeDone ==
  /\ At("tls")
  /\ phase' = "send"
  /\ UNCHANGED <<flowVars, link, reader, result, down, up, srv>>

(* Mutant of Fallback: a failed HTTP/2 read is tried again over HTTP/1.1. *)
FallbackOnError ==
  /\ At("tls") \/ (At("read") /\ (wire = "reset" \/ late))
  /\ proto = "h2"
  /\ open' = open - 1
  /\ proto' = "h1"
  /\ phase' = "start"
  /\ UNCHANGED <<flowVars, awaited, written, wire, late, reader, result, down, up, srv>>

(* errNoH2ALPN: requestH2 returns, closing its connection, and Request starts
   over with HTTP/1.1.  No other error makes it try again. *)
Fallback ==
  /\ At("tls") /\ proto = "h2"
  /\ open' = open - 1
  /\ proto' = "h1"
  /\ phase' = "start"
  /\ UNCHANGED <<flowVars, awaited, written, wire, late, reader, result, down, up, srv>>

(* The one Write of the coalesced frames, or of the HTTP/1.1 request.  What a
   failing Write leaves at the server is unknown: it may have had it all. *)
Write ==
  /\ At("send")
  /\ written' = written + 1
  /\ phase' = "read"
  /\ UNCHANGED <<flowVars, proto, awaited, open, wire, late, reader, result, down, up, srv>>

WriteFails ==
  /\ At("send")
  /\ written' \in {written, written + 1}
  /\ Leave("error")
  /\ UNCHANGED <<flowVars, proto, awaited, wire, late, reader, phase, down, up, srv>>

(* io.ReadAll to the end of the connection: whatever came before a clean end
   is parsed and returned, any other end is an error.  There is no deadline. *)
ReadAll ==
  /\ At("read") /\ proto = "h1"
  /\ \E r \in {"ok", "error"} : Leave(r)
  /\ UNCHANGED <<flowVars, proto, awaited, written, wire, late, reader, phase, down, up, srv>>

----------------------------------------------------------------------------
(* readH2Response: the frame loop. *)

Reading == At("read") /\ proto = "h2" /\ ~streamEnded

(* ReadFrame returns the next frame. *)
Frame(types) ==
  /\ Reading
  /\ down # <<>> /\ Head(down).type \in types
  /\ down' = Tail(down)

(* Frames written while the loop runs; a write fails only on a connection the
   server has left or whose deadline has passed, and ends the request. *)
Wrote(frames) ==
  /\ up' = up \o frames
  /\ UNCHANGED <<open, result>>

WriteBroken ==
  /\ wire # "up" \/ late
  /\ Leave("error")
  /\ UNCHANGED up

Quiet == Wrote(<<>>)

ReadControl ==
  /\ Frame({"SETTINGS", "PING"})
  /\ Wrote(<<Plain("ACK")>>) \/ WriteBroken
  /\ UNCHANGED <<flowVars, proto, awaited, written, wire, late, reader, phase, srv>>

(* The server's own WINDOW_UPDATEs and acknowledgements. *)
ReadIgnored ==
  /\ Frame({"IGNORED"})
  /\ Quiet
  /\ UNCHANGED <<flowVars, proto, awaited, written, wire, late, reader, phase, srv>>

(* END_STREAM on HEADERS is not looked at. *)
ReadHeaders ==
  /\ Frame({"HEADERS"})
  /\ headers' = (headers \/ ~Head(down).more)
  /\ hdrActive' = (hdrActive \/ Head(down).more)
  /\ Quiet
  /\ UNCHANGED <<flowVars, proto, awaited, written, wire, late, body, streamEnded, phase, srv>>

ReadContinuation ==
  /\ Frame({"CONTINUATION"})
  /\ IF hdrActive /\ ~Head(down).more
     THEN headers' = TRUE /\ hdrActive' = FALSE
     ELSE UNCHANGED <<headers, hdrActive>>
  /\ Quiet
  /\ UNCHANGED <<flowVars, proto, awaited, written, wire, late, body, streamEnded, phase, srv>>

(* decodeH2Headers rejects the block: the request fails whatever it has read. *)
ReadUndecodable ==
  /\ Frame({"UNDECODABLE"})
  /\ Leave("error")
  /\ UNCHANGED <<flowVars, proto, awaited, written, wire, late, reader, phase, up, srv>>

(* The update of one window, if charging it n bytes makes one due. *)
Refresh(stream, w, n, total) ==
  LET inc == Refill(w - n, total) - (w - n)
  IN IF inc > 0 THEN <<Update(stream, inc)>> ELSE <<>>

(* Mutant of Due: only the stream's window is refreshed. *)
DueStreamOnly(n) == Refresh(1, streamWindow, n, InitialWindow)

(* The updates a frame of n bytes makes due, the stream's first. *)
Due(n) ==
  Refresh(1, streamWindow, n, InitialWindow) \o Refresh(0, connWindow, n, ConnWindowTotal)

(* Mutant of ReadData: the padding is not charged, as if the code counted
   len(f.Data()). *)
ReadDataUnpadded ==
  /\ Frame({"DATA"})
  /\ body' = body + Head(down).data
  /\ streamEnded' = Head(down).last
  /\ IF Head(down).data = 0 THEN UNCHANGED flowVars ELSE Consume(Head(down).data)
  /\ Wrote(Due(Head(down).data)) \/ (Due(Head(down).data) # <<>> /\ WriteBroken)
  /\ UNCHANGED <<proto, awaited, written, wire, late, headers, hdrActive, phase, srv>>

(* Mutant of ReadData: the loop ends before the last frame's data is kept. *)
ReadDataEndFirst ==
  /\ Frame({"DATA"})
  /\ body' = body + (IF Head(down).last THEN 0 ELSE Head(down).data)
  /\ streamEnded' = Head(down).last
  /\ IF Head(down).len = 0 THEN UNCHANGED flowVars ELSE Consume(Head(down).len)
  /\ Wrote(Due(Head(down).len)) \/ (Due(Head(down).len) # <<>> /\ WriteBroken)
  /\ UNCHANGED <<proto, awaited, written, wire, late, headers, hdrActive, phase, srv>>

(* The body is kept and the end noticed before the updates are written, and a
   failing update still discards the response. *)
ReadData ==
  /\ Frame({"DATA"})
  /\ body' = body + Head(down).data
  /\ streamEnded' = Head(down).last
  /\ IF Head(down).len = 0 THEN UNCHANGED flowVars ELSE Consume(Head(down).len)
  /\ \/ Wrote(Due(Head(down).len))
     \/ Due(Head(down).len) # <<>> /\ WriteBroken
  /\ UNCHANGED <<proto, awaited, written, wire, late, headers, hdrActive, phase, srv>>

(* RST_STREAM of stream 1, GOAWAY. *)
ReadAbort ==
  /\ Frame({"RST_STREAM", "GOAWAY"})
  /\ Leave("error")
  /\ UNCHANGED <<flowVars, proto, awaited, written, wire, late, reader, phase, up, srv>>

(* io.EOF ends the loop, and what has been read is the response. *)
ReadEOF ==
  /\ Reading /\ wire = "eof" /\ down = <<>>
  /\ Leave("ok")
  /\ UNCHANGED <<flowVars, proto, awaited, written, wire, late, reader, phase, down, up, srv>>

(* Any other read error returns partial data, if there is any. *)
ReadError ==
  /\ Reading /\ (wire = "reset" \/ late)
  /\ Leave(IF body > 0 \/ headers THEN "ok" ELSE "error")
  /\ UNCHANGED <<flowVars, proto, awaited, written, wire, late, reader, phase, down, up, srv>>

ReadDone ==
  /\ At("read") /\ streamEnded
  /\ Leave("ok")
  /\ UNCHANGED <<flowVars, proto, awaited, written, wire, late, reader, phase, down, up, srv>>

Deadline ==
  /\ Reading /\ ~late
  /\ late' = TRUE
  /\ UNCHANGED <<flowVars, proto, awaited, open, written, wire, reader, phase, result, down, up, srv>>

----------------------------------------------------------------------------
(* The server: any response the protocol allows, of at most two header blocks
   and Body bytes, cut off at any moment. *)

Serving == written = 1 /\ proto = "h2" /\ result = "none" /\ wire = "up"
Answering == Serving /\ srv.preface /\ srv.ended = "no"

Sends(f, s) ==
  /\ down' = Append(down, f)
  /\ srv' = s
  /\ UNCHANGED <<link, reader, phase, result, up>>

Ending(last, how) == IF last THEN how ELSE "no"

ServerPreface ==
  /\ Serving /\ ~srv.preface
  /\ Sends(Plain("SETTINGS"), [srv EXCEPT !.preface = TRUE])
  /\ UNCHANGED flowVars

ServerControl ==
  /\ Answering /\ ~srv.block /\ ~srv.pinged
  /\ \E type \in {"PING", "IGNORED"} : Sends(Plain(type), [srv EXCEPT !.pinged = TRUE])
  /\ UNCHANGED flowVars

(* The response's headers, interim ones before them, or trailers. *)
ServerHeaders ==
  /\ Answering /\ ~srv.block /\ srv.heads < 2
  /\ \E more, last \in BOOLEAN :
       /\ srv.left < Body => last
       /\ Sends(Headers(more, last),
                [srv EXCEPT !.heads = @ + 1, !.block = more, !.ended = Ending(last, "headers")])
  /\ UNCHANGED flowVars

ServerContinuation ==
  /\ Serving /\ srv.block
  /\ Sends(Continuation(FALSE), [srv EXCEPT !.block = FALSE])
  /\ UNCHANGED flowVars

ServerData ==
  /\ Answering /\ ~srv.block /\ srv.heads > 0
  /\ \E n \in 0..srv.left, pad \in 0..1, last \in BOOLEAN :
       /\ n > 0 \/ last
       /\ n + pad <= MaxFrame
       /\ last => n = srv.left
       /\ IF n + pad = 0 THEN UNCHANGED flowVars ELSE SendData(n + pad)
       /\ Sends(Data(n, pad, last),
                [srv EXCEPT !.left = @ - n, !.ended = Ending(last, "data")])

ServerAborts ==
  /\ Answering /\ ~srv.block
  /\ \E type \in {"RST_STREAM", "GOAWAY", "UNDECODABLE"} :
       Sends(Plain(type), [srv EXCEPT !.ended = "cut"])
  /\ UNCHANGED flowVars

ServerCloses ==
  /\ Serving
  /\ wire' \in {"eof", "reset"}
  /\ UNCHANGED <<flowVars, proto, awaited, open, written, late, reader, phase, result, down, up, srv>>

ServerReads ==
  /\ Serving /\ up # <<>>
  /\ LET f == Head(up)
     IN IF f.type = "ACK" THEN UNCHANGED flowVars
        ELSE IF f.stream = 1 THEN GrantStream(f.inc) ELSE GrantConn(f.inc)
  /\ up' = Tail(up)
  /\ UNCHANGED <<link, reader, phase, result, down, srv>>

ServerWorks ==
  ServerPreface \/ ServerHeaders \/ ServerContinuation \/ ServerData \/ ServerReads

----------------------------------------------------------------------------
Dialling ==
  \/ DialStarts \/ DialRefused \/ Connected \/ ProxyAnswers \/ ProxyFails
  \/ HandshakeFails \/ HandshakeDone \/ Fallback \/ Write \/ WriteFails \/ ReadAll

Loop ==
  \/ ReadControl \/ ReadIgnored \/ ReadHeaders \/ ReadContinuation \/ ReadUndecodable
  \/ ReadData \/ ReadAbort \/ ReadEOF \/ ReadError \/ ReadDone

(* Request has returned. *)
Returned == result # "none" /\ UNCHANGED h2vars

H2Next ==
  \/ Dialling \/ Loop \/ Deadline
  \/ ServerWorks \/ ServerControl \/ ServerAborts \/ ServerCloses
  \/ Returned

H2Spec == H2Init /\ [][H2Next]_h2vars

(* The goroutine runs, the proxy and the TLS peer answer or hang up, and a
   server that has something to send or to read does so while its windows let
   it.  Nothing makes the deadline pass, a server cut its response short or
   send control frames of its own. *)
H2FairSpec ==
  /\ H2Spec
  /\ WF_h2vars(Dialling)
  /\ WF_h2vars(Loop)
  /\ WF_h2vars(ServerWorks)

----------------------------------------------------------------------------
(* The sum of a sequence of numbers: a recursive function over its prefixes. *)
Running(ns) ==
  LET acc[i \in 0..Len(ns)] == IF i = 0 THEN 0 ELSE acc[i - 1] + ns[i]
  IN acc

Total(ns) == Running(ns)[Len(ns)]

Charge(f) == IF f.type = "DATA" THEN f.len ELSE 0
Charges(frames) == [i \in DOMAIN frames |-> Charge(frames[i])]

Grant(f, stream) == IF f.type = "WINDOW_UPDATE" /\ f.stream = stream THEN f.inc ELSE 0
Grants(frames, stream) == [i \in DOMAIN frames |-> Grant(frames[i], stream)]

(* The frames on the wire are what FlowControl's counters count: padding is
   charged on both sides, and every refill is sent once, to the right window. *)
WireMatchesAccounts ==
  result = "none" =>
    /\ inFlight = Total(Charges(down))
    /\ toStream = Total(Grants(up, 1))
    /\ toConn = Total(Grants(up, 0))

(* "Any other error is returned as-is ... re-sending on those would silently
   replay non-idempotent requests" (Request): whatever fails, a server sees
   the request at most once. *)
SentOnce == written <= 1

(* Request leaves no connection open behind it, and holds one at a time. *)
NoConnLeaks ==
  /\ open <= 1
  /\ result # "none" => open = 0

(* A response returned over HTTP/2 from a connection that neither broke nor
   ran into the deadline is the whole response the server sent. *)
AnswerIsWhole ==
  result = "ok" /\ proto = "h2" /\ wire = "up" /\ ~late =>
    headers /\ srv.ended = "data" /\ body = Body - srv.left /\ srv.left = 0

NotBegun == proto = "h2" /\ phase = "start"

(* A server that keeps sending, ends the response with a DATA frame and stays
   connected is read to the end, however large the body: no window runs dry.
   (None of this is taken back: to hold again and again is to hold in the end.) *)
Delivered ==
  []<>(\/ NotBegun \/ result # "none"
       \/ late \/ wire # "up" \/ srv.ended \in {"headers", "cut"})

(* "reads HTTP/2 response frames from the framer until stream 1 reaches
   EndStream" (readH2Response): once all the server's frames are read and one
   of them ended the stream, the loop does not go on reading. *)
StopsAtEndStream ==
  Reading /\ down = <<>> /\ wire = "up" => srv.ended \notin {"headers", "data"}
=============================================================================
