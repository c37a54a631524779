------------------------ MODULE SessionNetworkProofs ------------------------
(***************************************************************************)
(* Theorems about what servers see of a session.  SessionNetwork, for any  *)
(* set of requests, URLs and lines: cookies stay in scope, and a           *)
(* redirected navigation carries its cookies.  Both follow from            *)
(* NetworkInv, whose proof rests on one fact about every store: storing    *)
(* replaces a cookie only by one with the same key.  Every request comes   *)
(* nearer to its end with each of its steps.  SessionIdentity, for any     *)
(* fingerprints and requests: what servers see is one visitor's, for what  *)
(* identifies it was captured when the session was created, and until a    *)
(* swap pages and workers show the same; and ChromeHello: the handshake is *)
(* that of the version which is claimed.                                   *)
(***************************************************************************)
EXTENDS SessionNetwork, SessionIdentity, TLAPS

(* A step of a store: nothing, or one faithful cookie more. *)
Grows(store, new) ==
  \/ new = store
  \/ \E c \in Cookies : Faithful(c) /\ new = Store(store, c)

(* Storing a faithful cookie keeps a store faithful and forgets no line. *)
LEMMA GrowsKeeps ==
  ASSUME NEW store \in SUBSET Cookies, NEW new, Grows(store, new),
         \A c \in store : Faithful(c)
  PROVE  /\ new \subseteq Cookies
         /\ \A c \in new : Faithful(c)
         /\ \A key : Holds(store, key) => Holds(new, key)
BY DEF Grows, Store, Holds

(* A response line is stored faithfully, under the key it has on its host. *)
LEMMA LineStored ==
  ASSUME NEW store \in SUBSET Cookies, NEW host \in Hosts, NEW l \in Lines,
         l.secure \in BOOLEAN
  PROVE  /\ Grows(store, SetRawForHost(store, l, host))
         /\ Accepts(host, l) => Holds(SetRawForHost(store, l, host), KeyGiven(l, host))
<1> DEFINE c == IF l.domain = NoDomain THEN Cookie(l, host, host, TRUE)
                ELSE Cookie(l, host, l.domain, FALSE)
<1>1. c \in Cookies
  BY DEF Cookie, Cookies, Domains
<1>2. Accepts(host, l) => Faithful(c)
  BY DEF Accepts, Faithful, Cookie, DomainMatch
<1>3. Key(c) = KeyGiven(l, host)
  BY DEF Key, KeyGiven, Cookie
<1>4. SetRawForHost(store, l, host) = IF Accepts(host, l) THEN Store(store, c) ELSE store
  BY DEF SetRawForHost, Accepts
<1>5. Key(c) = Key(c) /\ c \in Store(store, c)
  BY DEF Store
<1> HIDE DEF c
<1>6. QED
  BY <1>1, <1>2, <1>3, <1>4, <1>5 DEF Grows, Holds

(* What NetworkInv says of one request. *)
RequestInv(r) ==
  /\ \A c \in header[r] : Faithful(c) /\ Sendable(c, url[r])
  /\ stage[r] \notin {"resolved", "sent"} => header[r] = {}
  /\ \A key \in landed[r] : Holds(session, key)
  /\ stage[r] \in {"jar", "session"} => kept[r] \in 0..Len(answer[r].lines)
  /\ stage[r] \notin {"jar", "session"} => kept[r] = 0
  /\ stage[r] = "session" =>
       \A i \in 1..kept[r] : LET l == answer[r].lines[i] IN
         Accepts(url[r].host, l) => Holds(session, KeyGiven(l, url[r].host))

(* The invariant by request, for steps of one of them. *)
LEMMA NetworkInvParts ==
  NetworkInv <=> /\ TypeOK
                 /\ \A c \in session \cup jar : Faithful(c)
                 /\ \A r \in Requests : RequestInv(r)
BY DEF NetworkInv, RequestInv

(* A request that a step leaves alone keeps its part, whatever the store gains. *)
LEMMA OthersKeepInv ==
  ASSUME TypeOK, NEW r \in Requests, RequestInv(r),
         \A c \in session : Faithful(c), Grows(session, session'),
         stage'[r] = stage[r], url'[r] = url[r], header'[r] = header[r],
         answer'[r] = answer[r], kept'[r] = kept[r], landed'[r] = landed[r]
  PROVE  RequestInv(r)'
<1>1. \A key : Holds(session, key) => Holds(session', key)
  BY GrowsKeeps DEF TypeOK
<1>2. QED
  BY <1>1 DEF RequestInv

(* The stores hold the initial cookies at most. *)
LEMMA InitNetworkInv == Init => NetworkInv
<1> SUFFICES ASSUME Init PROVE NetworkInv
  OBVIOUS
<1>1. session \subseteq Cookies /\ \A c \in session : Faithful(c)
  <2> SUFFICES ASSUME NEW name \in Initial, NEW c \in Set({}, name, Client)
               PROVE  c \in Cookies /\ Faithful(c)
    BY DEF Init
  <2>1. c = [name |-> name, path |-> Root, secure |-> FALSE, domain |-> NoDomain,
             hostOnly |-> TRUE, value |-> [from |-> Client, domain |-> NoDomain]]
    BY DEF Set, Store, Cookie
  <2>2. QED
    BY <2>1 DEF Cookies, Domains, Faithful, ByServer
<1>2. NoAnswer \in [lines : SetCookies \cup {<<>>}, location : Urls \cup {NoUrl}]
  BY DEF NoAnswer
<1>3. TypeOK
  <2>1. answer \in [Requests -> [lines : SetCookies \cup {<<>>}, location : Urls \cup {NoUrl}]]
    BY <1>2 DEF Init
  <2>2. hops \in [Requests -> 0..MaxHops] /\ kept \in [Requests -> Nat] /\ writes \in 0..WriteBound
    BY NetworkAssumption DEF Init
  <2>3. QED
    BY <1>1, <2>1, <2>2 DEF Init, TypeOK
<1>4. QED
  BY <1>1, <1>3 DEF Init, NetworkInv

(* What is left to prove of a step of request r. *)
LEMMA StepOfOne ==
  ASSUME NetworkInv, NEW r \in Requests, TypeOK', RequestInv(r)',
         Grows(session, session'), Grows(jar, jar'),
         \A o \in Requests \ {r} :
           /\ stage'[o] = stage[o] /\ url'[o] = url[o] /\ header'[o] = header[o]
           /\ answer'[o] = answer[o] /\ kept'[o] = kept[o] /\ landed'[o] = landed[o]
  PROVE  NetworkInv'
<1>1. TypeOK /\ \A c \in session \cup jar : Faithful(c)
  BY DEF NetworkInv
<1>2. \A c \in session' \cup jar' : Faithful(c)
  BY <1>1, GrowsKeeps DEF TypeOK
<1>3. \A o \in Requests : RequestInv(o)'
  BY <1>1, OthersKeepInv, NetworkInvParts
<1>4. QED
  BY <1>2, <1>3 DEF NetworkInv, RequestInv

(* The line a store takes next is a line of the instance. *)
LEMMA NextLine ==
  ASSUME TypeOK, NEW r \in Requests, ~AllKept(r),
         kept[r] \in 0..Len(answer[r].lines)
  PROVE  /\ kept[r] + 1 \in 1..Len(answer[r].lines)
         /\ answer[r].lines[kept[r] + 1] \in Lines
         /\ answer[r].lines[kept[r] + 1].secure \in BOOLEAN
         /\ url[r].host \in Hosts
<1>1. answer[r].lines \in Seq(Lines)
  <2>1. answer[r].lines \in SetCookies \cup {<<>>}
    BY DEF TypeOK
  <2>2. <<>> \in Seq(Lines)
    OBVIOUS
  <2>3. QED
    BY <2>1, <2>2, NetworkAssumption
<1>2. kept[r] + 1 \in 1..Len(answer[r].lines)
  BY <1>1 DEF AllKept
<1>3. answer[r].lines[kept[r] + 1] \in Lines
  BY <1>1, <1>2
<1>4. url[r].host \in Hosts
  BY DEF TypeOK, Hosts
<1>5. QED
  BY <1>2, <1>3, <1>4, NetworkAssumption

(* A write into the session's store outside any request. *)
LEMMA WritesKeepInv ==
  ASSUME NetworkInv, Writes, Grows(session, session')
  PROVE  NetworkInv'
<1>1. TypeOK /\ \A c \in session : Faithful(c)
  BY DEF NetworkInv
<1>2. session' \subseteq Cookies /\ \A c \in session' : Faithful(c)
  BY <1>1, GrowsKeeps DEF TypeOK
<1>3. TypeOK'
  BY <1>1, <1>2, NetworkAssumption DEF TypeOK, Writes, request
<1>4. \A o \in Requests : RequestInv(o)'
  BY <1>1, OthersKeepInv, NetworkInvParts DEF Writes, request
<1>5. \A c \in jar' : Faithful(c)
  BY DEF NetworkInv, Writes
<1>6. QED
  BY <1>2, <1>3, <1>4, <1>5 DEF NetworkInv, RequestInv

(* document.cookie. *)
LEMMA ScriptWritesKeepsInv ==
  ASSUME NetworkInv, NEW line \in ScriptLines, ScriptWrites(line)
  PROVE  NetworkInv'
<1> DEFINE c == Cookie(line, Script, line.domain, FALSE)
<1>1. c \in Cookies /\ Faithful(c)
  BY NetworkAssumption DEF Cookie, Cookies, Domains, Faithful, ByServer
<1>2. session' = Store(session, c)
  BY DEF ScriptWrites, SetRaw
<1> HIDE DEF c
<1>3. QED
  BY <1>1, <1>2, WritesKeepInv DEF Grows, ScriptWrites

(* SetCookie of the API. *)
LEMMA SetCookieKeepsInv ==
  ASSUME NetworkInv, NEW name \in Initial, SetCookie(name)
  PROVE  NetworkInv'
<1> DEFINE c == Cookie([name |-> name, path |-> Root, secure |-> FALSE, domain |-> NoDomain],
                       Client, NoDomain, TRUE)
<1>1. c \in Cookies /\ Faithful(c)
  BY DEF Cookie, Cookies, Domains, Faithful, ByServer
<1>2. session' = Store(session, c)
  BY DEF SetCookie, Set
<1> HIDE DEF c
<1>3. QED
  BY <1>1, <1>2, WritesKeepInv DEF Grows, SetCookie

(* A response has a sequence of lines, none if it has not come. *)
LEMMA LinesAreSequences ==
  ASSUME NEW lines \in SetCookies \cup {<<>>}
  PROVE  lines \in Seq(Lines) /\ Len(lines) \in Nat
<1>1. <<>> \in Seq(Lines)
  OBVIOUS
<1>2. lines \in Seq(Lines)
  BY <1>1, NetworkAssumption
<1>3. QED
  BY <1>2

(* A request starts without a header or an answer. *)
LEMMA StartKeepsInv ==
  ASSUME NetworkInv, NEW r \in Requests, NEW u \in Urls, Start(r, u)
  PROVE  NetworkInv'
<1>1. TypeOK /\ RequestInv(r)
  BY NetworkInvParts
<1>2. TypeOK'
  BY <1>1 DEF TypeOK, Start, Goes
<1>3. RequestInv(r)'
  <2>1. header'[r] = {} /\ kept'[r] = 0 /\ stage'[r] = "resolve"
    BY <1>1 DEF Start, Goes, TypeOK, RequestInv
  <2>2. \A key \in landed'[r] : Holds(session', key)
    BY <1>1 DEF Start, RequestInv
  <2>3. QED
    BY <2>1, <2>2 DEF RequestInv
<1>4. QED
  BY <1>1, <1>2, <1>3, StepOfOne DEF Start, Goes, TypeOK, Grows

(* The Cookie header is resolved from the session's store. *)
LEMMA ResolveHeadersKeepsInv ==
  ASSUME NetworkInv, NEW r \in Requests, ResolveHeaders(r)
  PROVE  NetworkInv'
<1>1. TypeOK /\ RequestInv(r) /\ \A c \in session : Faithful(c)
  BY NetworkInvParts DEF NetworkInv
<1>2. CookieHeaderFor(session, url[r]) \subseteq session
  BY DEF CookieHeaderFor
<1>3. TypeOK'
  BY <1>1, <1>2 DEF TypeOK, ResolveHeaders, Goes
<1>4. RequestInv(r)'
  <2>1. /\ header'[r] = CookieHeaderFor(session, url[r])
        /\ kept'[r] = 0 /\ stage'[r] = "resolved"
    BY <1>1 DEF ResolveHeaders, Goes, TypeOK, RequestInv
  <2>2. \A c \in header'[r] : Faithful(c) /\ Sendable(c, url'[r])
    BY <1>1, <2>1 DEF CookieHeaderFor, ResolveHeaders
  <2>3. \A key \in landed'[r] : Holds(session', key)
    BY <1>1 DEF ResolveHeaders, RequestInv
  <2>4. QED
    BY <2>1, <2>2, <2>3 DEF RequestInv
<1>5. QED
  BY <1>1, <1>3, <1>4, StepOfOne DEF ResolveHeaders, Goes, TypeOK, Grows

(* The handler falls back to its jar. *)
LEMMA SendKeepsInv ==
  ASSUME NetworkInv, NEW r \in Requests, Send(r)
  PROVE  NetworkInv'
<1>1. TypeOK /\ RequestInv(r) /\ \A c \in session \cup jar : Faithful(c)
  BY NetworkInvParts DEF NetworkInv
<1>2. CookieHeaderFor(jar, url[r]) \subseteq jar
  BY DEF CookieHeaderFor
<1>3. TypeOK'
  BY <1>1, <1>2 DEF TypeOK, Send, Goes
<1>4. RequestInv(r)'
  <2>1. /\ header'[r] = CookieHeaderFor(jar, url[r]) \/ header'[r] = header[r]
        /\ kept'[r] = 0 /\ stage'[r] = "sent"
    BY <1>1 DEF Send, Goes, TypeOK, RequestInv
  <2>2. \A c \in header'[r] : Faithful(c) /\ Sendable(c, url'[r])
    BY <1>1, <2>1 DEF CookieHeaderFor, Send, RequestInv
  <2>3. \A key \in landed'[r] : Holds(session', key)
    BY <1>1 DEF Send, RequestInv
  <2>4. QED
    BY <2>1, <2>2, <2>3 DEF RequestInv
<1>5. QED
  BY <1>1, <1>3, <1>4, StepOfOne DEF Send, Goes, TypeOK, Grows

(* The fields of a request whose goroutine has ended. *)
LEMMA EndedInv ==
  ASSUME NetworkInv, NEW r \in Requests, Ends(r),
         header'[r] = {}, kept'[r] = 0
  PROVE  RequestInv(r)'
<1>1. TypeOK
  BY DEF NetworkInv
<1>2. landed'[r] = {} /\ stage'[r] = "ended"
  BY <1>1 DEF Ends, TypeOK
<1>3. QED
  BY <1>2 DEF RequestInv

(* A request that fails stores nothing. *)
LEMMA FailKeepsInv ==
  ASSUME NetworkInv, NEW r \in Requests, Fail(r)
  PROVE  NetworkInv'
<1>1. TypeOK /\ RequestInv(r)
  BY NetworkInvParts
<1>2. TypeOK'
  BY <1>1, NetworkAssumption DEF TypeOK, Fail, Ends
<1>3. header'[r] = {} /\ kept'[r] = 0
  BY <1>1 DEF Fail, TypeOK, RequestInv
<1>4. RequestInv(r)'
  BY <1>3, EndedInv DEF Fail
<1>5. QED
  BY <1>1, <1>2, <1>4, StepOfOne DEF Fail, Ends, TypeOK, Grows

(* A response arrives, none of its lines stored yet. *)
LEMMA AnswerKeepsInv ==
  ASSUME NetworkInv, NEW r \in Requests, NEW lines \in SetCookies,
         NEW location \in Urls \cup {NoUrl}, Answer(r, lines, location)
  PROVE  NetworkInv'
<1>1. TypeOK /\ RequestInv(r)
  BY NetworkInvParts
<1>2. TypeOK'
  BY <1>1 DEF TypeOK, Answer, Goes
<1>3. RequestInv(r)'
  <2>1. /\ header'[r] = {} /\ kept'[r] = 0 /\ stage'[r] = "jar"
        /\ answer'[r].lines = lines
    BY <1>1 DEF Answer, Goes, TypeOK, RequestInv
  <2>2. kept'[r] \in 0..Len(answer'[r].lines)
    BY <2>1, LinesAreSequences
  <2>3. \A key \in landed'[r] : Holds(session', key)
    BY <1>1 DEF Answer, RequestInv
  <2>4. QED
    BY <2>1, <2>2, <2>3 DEF RequestInv
<1>4. QED
  BY <1>1, <1>2, <1>3, StepOfOne DEF Answer, Goes, TypeOK, Grows

(* The handler stores the lines in its jar. *)
LEMMA KeepInJarKeepsInv ==
  ASSUME NetworkInv, NEW r \in Requests, KeepInJar(r)
  PROVE  NetworkInv'
<1>1. TypeOK /\ RequestInv(r) /\ \A c \in session \cup jar : Faithful(c)
  BY NetworkInvParts DEF NetworkInv
<1>2. kept[r] \in 0..Len(answer[r].lines) /\ ~AllKept(r)
  BY <1>1 DEF KeepInJar, RequestInv
<1>3. kept[r] + 1 \in 1..Len(answer[r].lines)
  BY <1>1, <1>2, NextLine
<1>4. Grows(jar, jar')
  BY <1>1, <1>2, NextLine, LineStored DEF KeepInJar, KeepNext, TypeOK
<1>5. jar' \subseteq Cookies
  BY <1>1, <1>4, GrowsKeeps DEF TypeOK
<1>6. TypeOK'
  BY <1>1, <1>5 DEF TypeOK, KeepInJar
<1>7. RequestInv(r)'
  <2>1. kept'[r] = kept[r] + 1 /\ stage'[r] = "jar" /\ header'[r] = {}
    BY <1>1 DEF KeepInJar, TypeOK, RequestInv
  <2>2. \A key \in landed'[r] : Holds(session', key)
    BY <1>1 DEF KeepInJar, RequestInv
  <2>3. kept'[r] \in 0..Len(answer'[r].lines)
    BY <1>2, <1>3, <2>1 DEF KeepInJar
  <2>4. QED
    BY <2>1, <2>2, <2>3 DEF RequestInv
<1>8. QED
  BY <1>1, <1>4, <1>6, <1>7, StepOfOne DEF KeepInJar, TypeOK, Grows

(* The handler hands the response to the session. *)
LEMMA HandlerReturnsKeepsInv ==
  ASSUME NetworkInv, NEW r \in Requests, HandlerReturns(r)
  PROVE  NetworkInv'
<1>1. TypeOK /\ RequestInv(r)
  BY NetworkInvParts
<1>2. TypeOK'
  BY <1>1 DEF TypeOK, HandlerReturns, Goes
<1>3. RequestInv(r)'
  <2>1. header'[r] = {} /\ kept'[r] = 0 /\ stage'[r] = "session"
    BY <1>1 DEF HandlerReturns, Goes, TypeOK, RequestInv
  <2>2. \A key \in landed'[r] : Holds(session', key)
    BY <1>1 DEF HandlerReturns, RequestInv
  <2>3. kept'[r] \in 0..Len(answer'[r].lines)
    BY <1>1, <2>1, LinesAreSequences DEF HandlerReturns, TypeOK
  <2>4. QED
    BY <2>1, <2>2, <2>3 DEF RequestInv
<1>4. QED
  BY <1>1, <1>2, <1>3, StepOfOne DEF HandlerReturns, Goes, TypeOK, Grows

(* One line more goes into the session's store. *)
LEMMA KeepInSessionKeepsInv ==
  ASSUME NetworkInv, NEW r \in Requests, KeepInSession(r)
  PROVE  NetworkInv'
<1> DEFINE lines == answer[r].lines
           host == url[r].host
<1>1. TypeOK /\ RequestInv(r) /\ \A c \in session \cup jar : Faithful(c)
  BY NetworkInvParts DEF NetworkInv
<1>2. kept[r] \in 0..Len(lines) /\ ~AllKept(r)
  BY <1>1 DEF KeepInSession, RequestInv
<1>3. kept[r] + 1 \in 1..Len(lines)
  BY <1>1, <1>2, NextLine
<1>4. /\ Grows(session, session')
      /\ Accepts(host, lines[kept[r] + 1]) =>
           Holds(session', KeyGiven(lines[kept[r] + 1], host))
  BY <1>1, <1>2, NextLine, LineStored DEF KeepInSession, KeepNext, TypeOK
<1>5. session' \subseteq Cookies /\ \A key : Holds(session, key) => Holds(session', key)
  BY <1>1, <1>4, GrowsKeeps DEF TypeOK
<1>6. TypeOK'
  BY <1>1, <1>5 DEF TypeOK, KeepInSession
<1>7. RequestInv(r)'
  <2>1. /\ kept'[r] = kept[r] + 1 /\ stage'[r] = "session" /\ header'[r] = {}
        /\ answer' = answer /\ url' = url /\ landed' = landed /\ stage[r] = "session"
    BY <1>1 DEF KeepInSession, TypeOK, RequestInv
  <2>2. \A key \in landed'[r] : Holds(session', key)
    BY <1>1, <1>5, <2>1 DEF RequestInv
  <2>3. kept'[r] \in 0..Len(answer'[r].lines)
    BY <1>2, <1>3, <2>1
  <2>4. ASSUME NEW i \in 1..kept'[r], Accepts(host, lines[i])
        PROVE  Holds(session', KeyGiven(lines[i], host))
    <3>1. CASE i = kept[r] + 1
      BY <1>4, <2>4, <3>1
    <3>2. CASE i # kept[r] + 1
      <4>1. i \in 1..kept[r]
        BY <1>2, <2>1, <3>2
      <4>2. Holds(session, KeyGiven(lines[i], host))
        BY <1>1, <2>1, <2>4, <4>1 DEF RequestInv
      <4>3. QED
        BY <1>5, <4>2
    <3>3. QED
      BY <3>1, <3>2
  <2>5. QED
    BY <2>1, <2>2, <2>3, <2>4 DEF RequestInv
<1>8. QED
  BY <1>1, <1>4, <1>6, <1>7, StepOfOne DEF KeepInSession, TypeOK, Grows

(* The session's store has what a response whose lines are all taken has set. *)
LEMMA GivenIsHeld ==
  ASSUME NetworkInv, NEW r \in Requests, stage[r] = "session", AllKept(r)
  PROVE  \A key \in KeysGiven(r) : Holds(session, key)
<1> DEFINE lines == answer[r].lines
<1>1. TypeOK /\ RequestInv(r)
  BY NetworkInvParts
<1>2. lines \in Seq(Lines)
  BY <1>1, LinesAreSequences DEF TypeOK
<1>3. SUFFICES ASSUME NEW l \in ToSet(lines), Accepts(url[r].host, l)
               PROVE  Holds(session, KeyGiven(l, url[r].host))
  BY DEF KeysGiven
<1>4. PICK i \in 1..Len(lines) : l = lines[i]
  BY <1>2, <1>3 DEF ToSet
<1>5. i \in 1..kept[r]
  BY <1>4 DEF AllKept
<1>6. QED
  BY <1>1, <1>3, <1>4, <1>5 DEF RequestInv

(* A hop ends with the response, or with the next hop. *)
LEMMA EndHopKeepsInv ==
  ASSUME NetworkInv, NEW r \in Requests, EndHop(r)
  PROVE  NetworkInv'
<1>1. TypeOK /\ RequestInv(r)
  BY NetworkInvParts
<1>2. NoAnswer \in [lines : SetCookies \cup {<<>>}, location : Urls \cup {NoUrl}]
  BY DEF NoAnswer
<1>3. /\ header' = header /\ header[r] = {} /\ kept'[r] = 0
      /\ session' = session /\ jar' = jar
  BY <1>1 DEF EndHop, TypeOK, RequestInv
<1>4. \A key \in KeysGiven(r) : Holds(session, key)
  BY GivenIsHeld DEF EndHop
<1>5. answer' \in [Requests -> [lines : SetCookies \cup {<<>>}, location : Urls \cup {NoUrl}]]
  BY <1>1, <1>2 DEF EndHop, TypeOK
<1>6. kept' \in [Requests -> Nat]
  BY <1>1 DEF EndHop, TypeOK
<1>7. CASE Redirected(r)
  <2>1. Follow(r)
    BY <1>7 DEF EndHop
  <2>2. KeysGiven(r) \subseteq {Key(c) : c \in Cookies}
    BY <1>1, <1>4 DEF Holds, TypeOK
  <2>3. hops' \in [Requests -> 0..MaxHops]
    BY <1>1, <1>7, <2>1, NetworkAssumption DEF Follow, Redirected, TypeOK
  <2>4. url' \in [Requests -> Urls \cup {NoUrl}]
    BY <1>1, <2>1 DEF Follow, TypeOK
  <2>5. landed' \in [Requests -> SUBSET {Key(c) : c \in Cookies}]
    BY <1>1, <2>1, <2>2 DEF Follow, TypeOK
  <2>6. stage'[r] = "resolve" /\ landed'[r] = landed[r] \cup KeysGiven(r)
    BY <1>1, <2>1 DEF Follow, TypeOK
  <2>7. TypeOK'
    BY <1>1, <1>3, <1>5, <1>6, <2>1, <2>3, <2>4, <2>5 DEF TypeOK, Follow, EndHop
  <2>8. RequestInv(r)'
    BY <1>1, <1>3, <1>4, <2>6 DEF RequestInv
  <2>9. QED
    BY <1>1, <2>1, <2>7, <2>8, StepOfOne DEF EndHop, Follow, TypeOK, Grows
<1>8. CASE ~Redirected(r)
  <2>1. Ends(r)
    BY <1>8 DEF EndHop
  <2>2. TypeOK'
    BY <1>1, <1>3, <1>5, <1>6, <2>1, NetworkAssumption DEF TypeOK, Ends, EndHop
  <2>3. RequestInv(r)'
    BY <1>3, <2>1, EndedInv
  <2>4. QED
    BY <1>1, <2>1, <2>2, <2>3, StepOfOne DEF EndHop, Ends, TypeOK, Grows
<1>9. QED
  BY <1>7, <1>8

(* Every step keeps the invariant. *)
LEMMA NextNetworkInv == NetworkInv /\ [Next]_vars => NetworkInv'
<1> SUFFICES ASSUME NetworkInv, [Next]_vars PROVE NetworkInv'
  OBVIOUS
<1>1. CASE \E r \in Requests, u \in Urls : Start(r, u)
  BY <1>1, StartKeepsInv
<1>2. CASE \E r \in Requests : Step(r)
  <2> PICK r \in Requests : Step(r)
    BY <1>2
  <2>1. CASE ResolveHeaders(r)
    BY <2>1, ResolveHeadersKeepsInv
  <2>2. CASE Send(r)
    BY <2>2, SendKeepsInv
  <2>3. CASE Fail(r)
    BY <2>3, FailKeepsInv
  <2>4. CASE \E lines \in SetCookies, location \in Urls \cup {NoUrl} : Answer(r, lines, location)
    BY <2>4, AnswerKeepsInv
  <2>5. CASE KeepInJar(r)
    BY <2>5, KeepInJarKeepsInv
  <2>6. CASE HandlerReturns(r)
    BY <2>6, HandlerReturnsKeepsInv
  <2>7. CASE KeepInSession(r)
    BY <2>7, KeepInSessionKeepsInv
  <2>8. CASE EndHop(r)
    BY <2>8, EndHopKeepsInv
  <2>9. QED
    BY <2>1, <2>2, <2>3, <2>4, <2>5, <2>6, <2>7, <2>8 DEF Step
<1>3. CASE \E line \in ScriptLines : ScriptWrites(line)
  BY <1>3, ScriptWritesKeepsInv
<1>4. CASE \E name \in Initial : SetCookie(name)
  BY <1>4, SetCookieKeepsInv
<1>5. CASE UNCHANGED vars
  BY <1>5 DEF vars, request, NetworkInv, TypeOK, Holds
<1>6. QED
  BY <1>1, <1>2, <1>3, <1>4, <1>5 DEF Next

(* Both stores are faithful to what servers asked for, and the store a hop reads
   has what earlier hops were given, in every state and for any instance. *)
THEOREM NetworkInvariant == Spec => []NetworkInv
<1>1. QED
  BY InitNetworkInv, NextNetworkInv, PTL DEF Spec

(* What a faithful store sends is what its server allowed, and all of it. *)
LEMMA SendableIsInScope ==
  ASSUME NEW c, NEW u, ByServer(c), Faithful(c)
  PROVE  /\ InScope(c, u) => Sendable(c, u)
         /\ Sendable(c, u) /\ ~SharesNumbers(c, u) => InScope(c, u)
BY DEF Sendable, InScope, InDomain, SharesNumbers, Faithful, DomainMatch

(* A cookie goes only where the server that set it meant it to, however requests,
   redirects and scripts interleave and whichever of the two stores supplies it. *)
THEOREM CookiesStayInScope == Spec => []CookiesInScope
<1>1. NetworkInv => CookiesInScope
  BY SendableIsInScope DEF NetworkInv, CookiesInScope
<1>2. QED
  BY <1>1, NetworkInvariant, PTL

(* Headers are resolved in one action only. *)
LEMMA OnlyResolveHeaders ==
  ASSUME TypeOK, [Next]_vars, NEW r \in Requests,
         stage[r] = "resolve", stage'[r] = "resolved"
  PROVE  ResolveHeaders(r)
<1>1. ASSUME NEW o \in Requests, Step(o) PROVE ResolveHeaders(r)
  <2>1. ~ResolveHeaders(o) => stage'[r] = stage[r] \/ stage'[r] # "resolved"
    BY <1>1 DEF Step, Send, Fail, Answer, KeepInJar, HandlerReturns, KeepInSession,
                EndHop, Goes, Ends, Follow, TypeOK
  <2>2. ResolveHeaders(o) => o = r
    BY DEF ResolveHeaders, Goes, TypeOK
  <2>3. QED
    BY <2>1, <2>2
<1>2. ASSUME NEW o \in Requests, NEW u \in Urls, Start(o, u) PROVE FALSE
  BY <1>2 DEF Start, Goes, TypeOK
<1>3. QED
  BY <1>1, <1>2 DEF Next, ScriptWrites, SetCookie, Writes, vars

(* A redirected navigation carries the cookies its hops were given. *)
THEOREM HopsCarryTheirCookies == Spec => HopsCarryCookies
<1> DEFINE Carries(r) ==
      stage[r] = "resolve" /\ stage'[r] = "resolved" =>
        \A key \in landed[r] : \E c \in session :
          /\ Key(c) = key
          /\ ByServer(c) /\ InScope(c, url[r]) => c \in header'[r]
<1>1. NetworkInv /\ [Next]_vars => \A r \in Navigations : Carries(r)
  <2> SUFFICES ASSUME NetworkInv, [Next]_vars, NEW r \in Navigations,
                      stage[r] = "resolve", stage'[r] = "resolved",
                      NEW key \in landed[r]
               PROVE  \E c \in session :
                        /\ Key(c) = key
                        /\ ByServer(c) /\ InScope(c, url[r]) => c \in header'[r]
    OBVIOUS
  <2>1. r \in Requests /\ TypeOK /\ \A c \in session : Faithful(c)
    BY DEF Requests, NetworkInv
  <2>2. PICK c \in session : Key(c) = key
    BY <2>1 DEF NetworkInv, Holds
  <2>3. header'[r] = {d \in session : Sendable(d, url[r])}
    BY <2>1, OnlyResolveHeaders DEF ResolveHeaders, CookieHeaderFor, TypeOK
  <2>4. ByServer(c) /\ InScope(c, url[r]) => Sendable(c, url[r])
    BY <2>1, SendableIsInScope
  <2>5. QED
    BY <2>2, <2>3, <2>4
<1>2. Spec => [][\A r \in Navigations : Carries(r)]_vars
  BY <1>1, NetworkInvariant, PTL DEF Spec
<1>3. QED
  BY <1>2 DEF HopsCarryCookies

-----------------------------------------------------------------------------
(* Every request comes to its end. *)

(* The stages a hop has ahead of it, and the lines its store has still to take. *)
StagesLeft(s) ==
  CASE s = "resolve" -> 5 [] s = "resolved" -> 4 [] s = "sent" -> 3 [] s = "jar" -> 2
    [] s = "session" -> 1 [] OTHER -> 0

LinesLeft(r) == IF stage[r] \in {"jar", "session"} THEN Len(answer[r].lines) - kept[r] ELSE 0

(* What a request has ahead of it: hops, the stages of its hop, and lines. *)
HopsLeft(r) == IF stage[r] = "ended" THEN 0 ELSE 1 + MaxHops - hops[r]

Underway(r) == stage[r] \notin {"idle", "ended"}

(* Fewer hops are left; or as many, and fewer stages; or as many of both, and fewer lines. *)
Nearer(r) ==
  \/ HopsLeft(r)' < HopsLeft(r)
  \/ /\ HopsLeft(r)' = HopsLeft(r)
     /\ \/ StagesLeft(stage[r])' < StagesLeft(stage[r])
        \/ StagesLeft(stage[r])' = StagesLeft(stage[r]) /\ LinesLeft(r)' < LinesLeft(r)

AsFar(r) == UNCHANGED <<HopsLeft(r), stage[r], LinesLeft(r)>>

(* The three are counts. *)
WayIsCounted(r) ==
  Underway(r) => HopsLeft(r) \in Nat /\ StagesLeft(stage[r]) \in Nat /\ LinesLeft(r) \in Nat

LEMMA CountsOfWay ==
  ASSUME NetworkInv, NEW r \in Requests
  PROVE  /\ hops[r] \in 0..MaxHops /\ MaxHops \in Nat
         /\ answer[r].lines \in Seq(Lines) /\ Len(answer[r].lines) \in Nat
         /\ stage[r] \in {"jar", "session"} => kept[r] \in 0..Len(answer[r].lines)
         /\ stage[r] \notin {"jar", "session"} => kept[r] = 0
<1>1. answer[r].lines \in SetCookies \cup {<<>>}
  BY DEF NetworkInv, TypeOK
<1>2. answer[r].lines \in Seq(Lines)
  <2>1. <<>> \in Seq(Lines)
    OBVIOUS
  <2> QED BY <1>1, <2>1, NetworkAssumption
<1>3. Len(answer[r].lines) \in Nat
  BY <1>2
<1> QED BY <1>2, <1>3, NetworkAssumption DEF NetworkInv, TypeOK

LEMMA WayCounted ==
  ASSUME NetworkInv, NEW r \in Requests
  PROVE  WayIsCounted(r)
<1>1. HopsLeft(r) \in Nat
  BY CountsOfWay DEF HopsLeft
<1>2. StagesLeft(stage[r]) \in Nat
  BY DEF StagesLeft
<1>3. LinesLeft(r) \in Nat
  BY CountsOfWay DEF LinesLeft
<1> QED BY <1>1, <1>2, <1>3 DEF WayIsCounted

(* A step of the request itself. *)
LEMMA StepsNearer ==
  ASSUME NetworkInv, NEW r \in Requests, Step(r)
  PROVE  Underway(r) /\ Nearer(r)
<1> DEFINE Goal == Underway(r) /\ Nearer(r)
<1>t. stage \in [Requests -> {"idle", "resolve", "resolved", "sent", "jar", "session", "ended"}]
      /\ hops \in [Requests -> 0..MaxHops] /\ kept \in [Requests -> Nat]
  BY DEF NetworkInv, TypeOK
<1>n. hops[r] \in 0..MaxHops /\ MaxHops \in Nat /\ HopsLeft(r) \in Nat
  BY CountsOfWay DEF HopsLeft
<1>1. ASSUME NEW s, NEW t, stage[r] = s, stage'[r] = t, hops' = hops, s # "ended", t # "ended",
             s # "idle", StagesLeft(t) < StagesLeft(s)
      PROVE  Goal
  BY <1>1 DEF Underway, Nearer, HopsLeft
<1>2. ASSUME stage[r] \in {"sent", "session"}, stage'[r] = "ended" PROVE Goal
  BY <1>2, <1>n DEF Underway, Nearer, HopsLeft
<1>3. CASE ResolveHeaders(r)
  <2>1. stage[r] = "resolve" /\ stage'[r] = "resolved" /\ hops' = hops
    BY <1>3, <1>t DEF ResolveHeaders, Goes
  <2> QED BY <2>1, <1>1 DEF StagesLeft
<1>4. CASE Send(r)
  <2>1. stage[r] = "resolved" /\ stage'[r] = "sent" /\ hops' = hops
    BY <1>4, <1>t DEF Send, Goes
  <2> QED BY <2>1, <1>1 DEF StagesLeft
<1>5. CASE Fail(r)
  <2>1. stage[r] = "sent" /\ stage'[r] = "ended"
    BY <1>5, <1>t DEF Fail, Ends
  <2> QED BY <2>1, <1>2
<1>6. ASSUME NEW lines \in SetCookies, NEW location, Answer(r, lines, location) PROVE Goal
  <2>1. stage[r] = "sent" /\ stage'[r] = "jar" /\ hops' = hops
    BY <1>6, <1>t DEF Answer, Goes
  <2> QED BY <2>1, <1>1 DEF StagesLeft
<1>7. CASE KeepInJar(r) \/ KeepInSession(r)
  <2>1. /\ stage[r] \in {"jar", "session"} /\ UNCHANGED <<stage, hops, answer>>
        /\ kept'[r] = kept[r] + 1
    BY <1>7, <1>t DEF KeepInJar, KeepInSession
  <2>2. Len(answer[r].lines) \in Nat /\ kept[r] \in Nat
    BY <1>t, CountsOfWay
  <2>3. LinesLeft(r)' < LinesLeft(r)
    BY <2>1, <2>2 DEF LinesLeft
  <2>4. HopsLeft(r)' = HopsLeft(r) /\ StagesLeft(stage[r])' = StagesLeft(stage[r])
    BY <2>1 DEF HopsLeft
  <2> QED BY <2>1, <2>3, <2>4 DEF Underway, Nearer
<1>8. CASE HandlerReturns(r)
  <2>1. stage[r] = "jar" /\ stage'[r] = "session" /\ hops' = hops
    BY <1>8, <1>t DEF HandlerReturns, Goes
  <2> QED BY <2>1, <1>1 DEF StagesLeft
<1>9. CASE EndHop(r)
  <2>1. CASE Redirected(r)
    <3>1. stage[r] = "session" /\ stage'[r] = "resolve" /\ hops'[r] = hops[r] + 1
      BY <1>9, <1>t, <2>1 DEF EndHop, Follow
    <3> QED BY <3>1, <1>n DEF Underway, Nearer, HopsLeft
  <2>2. CASE ~Redirected(r)
    <3>1. stage[r] = "session" /\ stage'[r] = "ended"
      BY <1>9, <1>t, <2>2 DEF EndHop, Ends
    <3> QED BY <3>1, <1>2
  <2> QED BY <2>1, <2>2
<1> QED BY <1>3, <1>4, <1>5, <1>6, <1>7, <1>8, <1>9 DEF Step

(* A step of another request, or of a script, or of the API. *)
LEMMA OthersLeaveIt ==
  ASSUME NetworkInv, [Next]_vars, NEW r \in Requests, ~Step(r), stage[r] # "idle"
  PROVE  AsFar(r)
<1> DEFINE Same == stage'[r] = stage[r] /\ hops'[r] = hops[r] /\ answer'[r] = answer[r]
                   /\ kept'[r] = kept[r]
<1>t. /\ stage \in [Requests -> {"idle", "resolve", "resolved", "sent", "jar", "session", "ended"}]
      /\ hops \in [Requests -> 0..MaxHops] /\ kept \in [Requests -> Nat]
      /\ answer \in [Requests -> [lines : SetCookies \cup {<<>>}, location : Urls \cup {NoUrl}]]
  BY DEF NetworkInv, TypeOK
<1>1. ASSUME NEW o \in Requests, NEW u \in Urls, Start(o, u) PROVE Same
  BY <1>1, <1>t DEF Start, Goes
<1>2. ASSUME NEW o \in Requests, Step(o) PROVE Same
  <2>1. o # r
    BY <1>2
  <2> QED BY <1>2, <1>t, <2>1 DEF Step, ResolveHeaders, Send, Fail, Ends, Answer, KeepInJar,
          HandlerReturns, KeepInSession, EndHop, Follow, Goes
<1>3. ASSUME NEW line \in ScriptLines, ScriptWrites(line) PROVE Same
  BY <1>3 DEF ScriptWrites, Writes, request
<1>4. ASSUME NEW name \in Initial, SetCookie(name) PROVE Same
  BY <1>4 DEF SetCookie, Writes, request
<1>5. ASSUME UNCHANGED vars PROVE Same
  BY <1>5 DEF vars, request
<1>6. Same
  BY <1>1, <1>2, <1>3, <1>4, <1>5 DEF Next
<1> QED BY <1>6 DEF AsFar, HopsLeft, LinesLeft

(* However servers redirect it and whatever else the session does, a request comes nearer
   to its end with each step of its own, in counts that cannot fall for ever, and no step
   of another sets it back. *)
THEOREM RequestsComeNearer ==
  Spec => /\ [](\A r \in Requests : WayIsCounted(r))
          /\ [][\A r \in Requests : stage[r] # "idle" =>
                  IF Step(r) THEN Nearer(r) ELSE AsFar(r)]_vars
<1> DEFINE Counted == \A r \in Requests : WayIsCounted(r)
           Comes == \A r \in Requests : stage[r] # "idle" =>
                      IF Step(r) THEN Nearer(r) ELSE AsFar(r)
<1>1. NetworkInv => Counted
  BY WayCounted
<1>2. NetworkInv /\ [Next]_vars => [Comes]_vars
  BY StepsNearer, OthersLeaveIt
<1> HIDE DEF Counted, Comes
<1>3. Spec => []Counted /\ [][Comes]_vars
  BY <1>1, <1>2, NetworkInvariant, PTL DEF Spec
<1> QED BY <1>3 DEF Counted, Comes

-----------------------------------------------------------------------------
(* One visitor: the identity that servers and workers see.                   *)

\* The entries of the ladder, and their order.
LEMMA LadderIs ==
  /\ Ladder[1] = 58 /\ Ladder[2] = 62 /\ Ladder[3] = 70 /\ Ladder[4] = 72 /\ Ladder[5] = 83
  /\ Ladder[6] = 87 /\ Ladder[7] = 96 /\ Ladder[8] = 100 /\ Ladder[9] = 102
  /\ Ladder[10] = 106 /\ Ladder[11] = 115 /\ Ladder[12] = 120 /\ Ladder[13] = 131
  /\ Ladder[14] = 133 /\ Len(Ladder) = 14 /\ DOMAIN Ladder = 1..14
  /\ Head(Ladder) = 58
BY DEF Ladder

\* Newer releases are further up.
LEMMA LadderGrows ==
  \A i, j \in 1..14 : Ladder[i] \in Nat /\ (i < j => Ladder[i] < Ladder[j])
BY LadderIs

\* A version from the first entry on is on the last rung that is not newer.
LEMMA RungIs ==
  ASSUME NEW m \in Nat, m >= 58
  PROVE  /\ Rung(m) \in 1..14 /\ Ladder[Rung(m)] <= m
         /\ \A i \in 1..14 : Ladder[i] <= m => i <= Rung(m)
<1> DEFINE newer == {i \in DOMAIN Ladder : m < Ladder[i]}
<1>1. newer = {i \in 1..14 : m < Ladder[i]}
  BY LadderIs
<1>2. CASE newer = {}
  <2>1. Rung(m) = 14
    BY <1>2, LadderIs DEF Rung
  <2>2. ~(m < Ladder[14])
    BY <1>1, <1>2
  <2> QED BY <2>1, <2>2, LadderGrows
<1>3. CASE newer # {}
  <2>1. PICK k \in 1..13 : Ladder[k] <= m /\ m < Ladder[k + 1]
    <3>1. m < 133
      <4>1. PICK i \in 1..14 : m < Ladder[i]
        BY <1>1, <1>3
      <4>2. Ladder[i] \in Nat /\ Ladder[i] <= 133
        BY LadderIs, <4>1
      <4> QED BY <4>1, <4>2
    <3> QED BY <3>1, LadderIs
  <2>2. newer = (k + 1)..14
    <3>1. \A i \in 1..14 : i >= k + 1 => m < Ladder[i]
      BY <2>1, LadderGrows
    <3>2. \A i \in 1..14 : i <= k => ~(m < Ladder[i])
      BY <2>1, LadderGrows
    <3> QED BY <1>1, <3>1, <3>2
  <2> DEFINE least == CHOOSE i \in newer : \A j \in newer : i <= j
  <2>3. least = k + 1
    BY <2>2
  <2>4. Rung(m) = k
    <3>1. Rung(m) = least - 1
      BY <1>3, Zenon DEF Rung
    <3> HIDE DEF least
    <3> QED BY <2>3, <3>1
  <2>5. \A i \in 1..14 : Ladder[i] <= m => i <= k
    BY <1>1, <2>2, LadderGrows
  <2> QED BY <2>1, <2>4, <2>5
<1> QED BY <1>2, <1>3

\* The client of a session shakes hands as the Chrome that its fingerprint names would,
\* whatever version that is.
THEOREM HandshakeFitsVersion ==
  \A v \in Nat \ {0} : Handshake(ClientProfile(TLSTarget(v))) = HandshakeOf(v)
<1> SUFFICES ASSUME NEW v \in Nat \ {0}
             PROVE  Handshake(ClientProfile(TLSTarget(v))) = HandshakeOf(v)
  OBVIOUS
<1>1. ClientProfile(TLSTarget(v)) = ChromeProfileFor(v)
  BY DEF ClientProfile, TLSTarget, ParseChromeVersion, Texts, NoVersion, Unreadable
<1> DEFINE m == ClampUp(v)
           released == {x \in ToSet(Ladder) : x <= v}
<1>2. m \in Nat /\ m >= 58 /\ (v >= 58 => m = v) /\ (v < 58 => m = 58)
  BY LadderIs DEF ClampUp
<1>3. ToSet(Ladder) = {Ladder[i] : i \in 1..14}
  BY LadderIs DEF ToSet
<1>4. Ladder[Rung(m)] = IF released = {} THEN Min(ToSet(Ladder)) ELSE Max(released)
  <2>1. CASE v < 58
    <3>1. released = {}
      <4>1. \A i \in 1..14 : Ladder[i] >= 58
        BY LadderIs, LadderGrows
      <4>2. \A i \in 1..14 : ~(Ladder[i] <= v)
        BY <2>1, <4>1, LadderGrows
      <4> QED BY <1>3, <4>2
    <3>2. Min(ToSet(Ladder)) = 58
      <4>1. 58 \in ToSet(Ladder)
        BY <1>3, LadderIs
      <4>2. \A x \in ToSet(Ladder) : x \in Nat /\ 58 <= x
        BY <1>3, LadderIs
      <4> QED BY <4>1, <4>2 DEF Min
    <3>3. Rung(m) = 1
      <4>1. Rung(m) \in 1..14 /\ Ladder[Rung(m)] <= 58
        BY <1>2, <2>1, RungIs
      <4> QED BY <4>1, LadderIs, LadderGrows
    <3> QED BY <3>1, <3>2, <3>3, LadderIs
  <2>2. CASE v >= 58
    <3>1. Rung(m) \in 1..14 /\ Ladder[Rung(m)] <= v /\ \A i \in 1..14 : Ladder[i] <= v => i <= Rung(m)
      BY <1>2, <2>2, RungIs
    <3> DEFINE top == Rung(m)
    <3> HIDE DEF top
    <3>2. Ladder[top] \in released /\ Ladder[top] \in Nat
      BY <1>3, <3>1, LadderGrows DEF top
    <3>3. \A x \in released : x \in Nat /\ x <= Ladder[top]
      <4> SUFFICES ASSUME NEW x \in released PROVE x \in Nat /\ x <= Ladder[top]
        OBVIOUS
      <4>1. PICK i \in 1..14 : x = Ladder[i] /\ Ladder[i] <= v
        BY <1>3
      <4>2. i <= top /\ top \in 1..14
        BY <3>1, <4>1 DEF top
      <4> QED BY <4>1, <4>2, LadderGrows
    <3>4. Max(released) = Ladder[top]
      BY <3>2, <3>3 DEF Max
    <3> QED BY <3>2, <3>4 DEF top
  <2> QED BY <2>1, <2>2
<1>5. m >= PQSigAlgMin <=> v >= 140
  BY <1>2 DEF PQSigAlgMin
<1> HIDE DEF m, released
<1>6. ChromeProfileFor(v) = [hello |-> Ladder[Rung(m)], pqSigAlgs |-> m >= PQSigAlgMin, h2 |-> ChromeH2]
  BY DEF ChromeProfileFor, m
<1>7. Preface(ChromeProfileFor(v)) = HandshakeOf(v).preface
  BY <1>6 DEF Preface, HandshakeOf, ChromeH2
<1>8. ClientHello(ChromeProfileFor(v)) = HandshakeOf(v).hello
  <2> DEFINE oldest == Min(ToSet(Ladder))
             newest == Max(released)
  <2>1. HandshakeOf(v).hello =
          [preset |-> IF released = {} THEN oldest ELSE newest,
           extraSigAlgs |-> IF v >= 140 THEN PQSchemes ELSE <<>>]
    BY DEF HandshakeOf, released
  <2> HIDE DEF oldest, newest
  <2>2. Ladder[Rung(m)] = IF released = {} THEN oldest ELSE newest
    BY <1>4 DEF oldest, newest
  <2>3. ClientHello(ChromeProfileFor(v)) =
          [preset |-> Ladder[Rung(m)],
           extraSigAlgs |-> IF m >= PQSigAlgMin THEN PQSchemes ELSE <<>>]
    <3> DEFINE hello == Ladder[Rung(m)]
    <3> HIDE DEF hello
    <3>1. CASE m >= PQSigAlgMin
      <4>1. ChromeProfileFor(v) = [hello |-> hello, pqSigAlgs |-> TRUE, h2 |-> ChromeH2]
        BY <1>6, <3>1 DEF hello
      <4> QED BY <3>1, <4>1 DEF ClientHello, hello
    <3>2. CASE ~(m >= PQSigAlgMin)
      <4>1. ChromeProfileFor(v) = [hello |-> hello, pqSigAlgs |-> FALSE, h2 |-> ChromeH2]
        <5>1. (m >= PQSigAlgMin) = FALSE
          BY <1>2, <3>2 DEF PQSigAlgMin
        <5> QED BY <1>6, <5>1, Zenon DEF hello
      <4> QED BY <3>2, <4>1 DEF ClientHello, hello
    <3> QED BY <3>1, <3>2
  <2> QED BY <1>5, <2>1, <2>2, <2>3
<1> QED BY <1>1, <1>7, <1>8 DEF Handshake, HandshakeOf

\* Where nobody has set a value, a header says what the fingerprint has to say.
LEMMA FirstOfFive ==
  ASSUME NEW v PROVE FirstSet(<<Absent, Absent, Absent, v, Absent>>) = v
<1> DEFINE s == <<Absent, Absent, Absent, v, Absent>>
           given == {i \in DOMAIN s : s[i] # Absent}
<1>1. DOMAIN s = 1..5 /\ s[1] = Absent /\ s[2] = Absent /\ s[3] = Absent /\ s[4] = v /\ s[5] = Absent
  OBVIOUS
<1> HIDE DEF s
<1>2. CASE v = Absent
  <2>1. given = {}
    BY <1>1, <1>2
  <2> QED BY <1>2, <2>1, Zenon DEF FirstSet, s
<1>3. CASE v # Absent
  <2>1. given = {4}
    BY <1>1, <1>3
  <2>2. Min({4}) = 4
    BY DEF Min
  <2>3. FirstSet(s) = s[Min(given)]
    BY <2>1 DEF FirstSet
  <2> QED BY <1>1, <2>1, <2>2, <2>3 DEF s
<1> QED BY <1>2, <1>3

\* The same for the headers of navigations.
LEMMA SecondOfFour ==
  ASSUME NEW v PROVE FirstSet(<<Absent, v, Absent, Absent>>) = v
<1> DEFINE s == <<Absent, v, Absent, Absent>>
           given == {i \in DOMAIN s : s[i] # Absent}
<1>1. DOMAIN s = 1..4 /\ s[1] = Absent /\ s[2] = v /\ s[3] = Absent /\ s[4] = Absent
  OBVIOUS
<1> HIDE DEF s
<1>2. CASE v = Absent
  <2>1. given = {}
    BY <1>1, <1>2
  <2> QED BY <1>2, <2>1, Zenon DEF FirstSet, s
<1>3. CASE v # Absent
  <2>1. given = {2}
    BY <1>1, <1>3
  <2>2. Min({2}) = 2
    BY DEF Min
  <2>3. FirstSet(s) = s[Min(given)]
    BY <2>1 DEF FirstSet
  <2> QED BY <1>1, <2>1, <2>2, <2>3 DEF s
<1> QED BY <1>2, <1>3

\* The headers that tell who the visitor is.
Telling == Hints \cup {"User-Agent", "Accept-Language"}

\* A request with headers h and its ask, sent by client, as Seen records it.
Visit(ask, h) == [ask |-> ask, headers |-> OnTheWire(h), handshake |-> Handshake(client)]

\* The client is the one made for the fingerprint that the closures hold.
OwnClient == client = ClientProfile(TLSTarget(captured.version))

\* A client made for a fingerprint of Chrome shakes hands as that Chrome does.
LEMMA HandshakeExplained ==
  ASSUME captured \in Prints, OwnClient, captured.version > 0
  PROVE  Handshake(client) = HandshakeOf(captured.version)
<1>1. captured.version \in Nat \ {0}
  BY IdentityConstants DEF Texts, NoVersion, Unreadable
<1> QED BY <1>1, HandshakeFitsVersion DEF OwnClient

\* What a fingerprint says goes onto the wire as it is.
LEMMA WireSaysIt ==
  ASSUME captured \in Prints, NEW h, DOMAIN h = Names, NEW n \in Telling,
         h[n] = FromPrint(captured, n)
  PROVE  OnTheWire(h)[n] = FromPrint(captured, n)
<1>1. n \in DOMAIN h
  BY DEF Telling, Names, Hints
<1>2. CASE n = "Accept-Language"
  <2>1. FromPrint(captured, n) = AcceptLanguage(captured.languages)
    BY <1>2 DEF FromPrint, Hints
  <2>2. h[n] # Absent
    BY <2>1, EveryPrintSpeaks
  <2> QED BY <1>1, <1>2, <2>2 DEF OnTheWire
<1>3. CASE n # "Accept-Language"
  BY <1>1, <1>3 DEF OnTheWire
<1> QED BY <1>2, <1>3

\* fetch and XMLHttpRequest.
LEMMA SubresourceExplained ==
  ASSUME captured \in Prints, OwnClient, NEW ask
  PROVE  Explains(captured, Visit(ask, SubresourceHeaders(captured, ask)))
<1> DEFINE h == SubresourceHeaders(captured, ask)
           x == Visit(ask, h)
<1>1. ASSUME NEW n \in Telling, Derived(x, n) PROVE h[n] = FromPrint(captured, n)
  <2>1. ask.manual[n] = Absent /\ ask.reserved[n] = Absent /\ options.field[n] = Absent
        /\ options.extra[n] = Absent
    BY <1>1 DEF Derived, Visit
  <2>2. n \in Names /\ n # "Referer"
    BY DEF Telling, Names, Hints
  <2>3. h[n] = FirstSet(<<ask.manual[n], ask.reserved[n], options.field[n],
                          IF n = "Referer" THEN DefaultReferer(ask.target)
                          ELSE FromPrint(captured, n), options.extra[n]>>)
    BY <2>2, Zenon DEF SubresourceHeaders
  <2>4. h[n] = FirstSet(<<Absent, Absent, Absent, FromPrint(captured, n), Absent>>)
    BY <2>1, <2>2, <2>3, Zenon
  <2> QED BY <2>4, FirstOfFive, Zenon
<1>2. x.headers = OnTheWire(h) /\ x.handshake = Handshake(client) /\ DOMAIN h = Names
  BY DEF Visit, SubresourceHeaders
<1> HIDE DEF x, h
<1>3. ASSUME NEW n \in Telling, Derived(x, n) PROVE x.headers[n] = FromPrint(captured, n)
  BY <1>1, <1>2, <1>3, WireSaysIt
<1>4. Explains(captured, x)
  BY <1>2, <1>3, HandshakeExplained DEF Explains, Telling
<1> QED BY <1>4 DEF x, h

\* A navigation.
LEMMA NavigationExplained ==
  ASSUME captured \in Prints, OwnClient, NEW ask, NEW target
  PROVE  Explains(captured, Visit(ask, NavigationHeaders(captured, target)))
<1> DEFINE h == NavigationHeaders(captured, target)
           x == Visit(ask, h)
<1>1. ASSUME NEW n \in Telling, Derived(x, n) PROVE h[n] = FromPrint(captured, n)
  <2>1. options.field[n] = Absent /\ options.extra[n] = Absent
    BY <1>1 DEF Derived, Visit
  <2>2. n \in Names /\ n # "Referer"
    BY DEF Telling, Names, Hints
  <2>3. h[n] = FirstSet(<<IF n = "User-Agent" THEN options.field[n] ELSE Absent,
                          FromPrint(captured, n), options.extra[n],
                          IF n = "Referer" /\ options.location # target THEN options.location
                          ELSE Absent>>)
    BY <2>2, Zenon DEF NavigationHeaders
  <2>4. h[n] = FirstSet(<<Absent, FromPrint(captured, n), Absent, Absent>>)
    BY <2>1, <2>2, <2>3
  <2> QED BY <2>4, SecondOfFour, Zenon
<1>2. x.headers = OnTheWire(h) /\ x.handshake = Handshake(client) /\ DOMAIN h = Names
  BY DEF Visit, NavigationHeaders
<1> HIDE DEF x, h
<1>3. ASSUME NEW n \in Telling, Derived(x, n) PROVE x.headers[n] = FromPrint(captured, n)
  BY <1>1, <1>2, <1>3, WireSaysIt
<1>4. Explains(captured, x)
  BY <1>2, <1>3, HandshakeExplained DEF Explains, Telling
<1> QED BY <1>4 DEF x, h

\* The inductive invariant: the visitor is the fingerprint that the closures captured when
\* the session was created, and the client was made for it.
IdentityInv ==
  /\ sprint = Absent <=> captured = Absent
  /\ DOMAIN workerNav = WorkerNames
  /\ captured = Absent =>
       /\ sent = {}
       /\ \A w \in WorkerNames : workerNav[w] = Absent
       /\ \A c \in Calls \cup Journeys : call[c] = Absent
  /\ captured # Absent =>
       /\ captured \in Prints /\ OwnClient
       /\ \A x \in sent : Explains(captured, x)
       /\ \A w \in WorkerNames :
            workerNav[w] # Absent =>
              workerNav[w] = [userAgent |-> UserAgent(captured), cores |-> captured.cores]

\* Every step keeps it.
LEMMA IdentityStep ==
  ASSUME IdentityInv, [IdentityNext]_identityVars
  PROVE  IdentityInv'
<1> USE DEF IdentityInv
<1>1. ASSUME NEW p \in Prints, CreateWith(p) PROVE IdentityInv'
  <2>1. captured = Absent /\ captured' = p /\ sprint' = p /\ p # Absent
        /\ client' = ClientProfile(TLSTarget(p.version))
        /\ UNCHANGED <<options, workerNav, call, sent>>
    BY <1>1, IdentityConstants DEF CreateWith, Live
  <2>2. sent' = {} /\ \A w \in WorkerNames : workerNav'[w] = Absent
    BY <2>1
  <2>3. OwnClient'
    BY <2>1 DEF OwnClient
  <2> QED BY <2>1, <2>2, <2>3
\* A step of a session that exists, which leaves what was said of it true.
<1>2. ASSUME sprint # Absent, sprint' # Absent, UNCHANGED <<captured, client, options>>,
             \A x \in sent' : x \in sent \/ Explains(captured, x),
             DOMAIN workerNav' = WorkerNames,
             \A w \in WorkerNames : workerNav'[w] = workerNav[w] \/ workerNav'[w] =
               [userAgent |-> UserAgent(captured), cores |-> captured.cores]
      PROVE  IdentityInv'
  <2>1. captured # Absent /\ captured \in Prints /\ OwnClient
    BY <1>2
  <2>2. OwnClient' /\ captured' # Absent /\ captured' \in Prints
    BY <1>2, <2>1 DEF OwnClient
  <2>3. \A x : Explains(captured, x) => Explains(captured, x)'
    BY <1>2 DEF Explains, Derived
  <2>4. \A x \in sent' : Explains(captured, x)'
    BY <1>2, <2>1, <2>3
  <2>5. \A w \in WorkerNames : workerNav'[w] # Absent =>
          workerNav'[w] = [userAgent |-> UserAgent(captured'), cores |-> captured'.cores]
    BY <1>2, <2>1
  <2> QED BY <1>2, <2>1, <2>2, <2>4, <2>5
<1>3. ASSUME NEW p \in Prints, NEW done \in 0..Len(Overwritten), SwapFingerprint(p, done)
      PROVE  IdentityInv'
  <2>1. sprint # Absent /\ sprint' # Absent
        /\ UNCHANGED <<captured, options, client, workerNav, sent>>
    BY <1>3, IdentityConstants DEF SwapFingerprint, Live
  <2> QED BY <1>2, <2>1
<1>4. ASSUME NEW w \in WorkerNames, CreateWorker(w) PROVE IdentityInv'
  <2>1. sprint # Absent /\ UNCHANGED <<sprint, captured, options, client, sent>>
        /\ workerNav' = [workerNav EXCEPT ![w] = WorkerNavigator(captured)]
    BY <1>4 DEF CreateWorker, Live
  <2>2. captured.cores \in 1..64
    BY <2>1, IdentityConstants
  <2>3. WorkerNavigator(captured) = [userAgent |-> UserAgent(captured), cores |-> captured.cores]
    BY <2>2 DEF WorkerNavigator
  <2> QED BY <1>2, <2>1, <2>3
<1>5. ASSUME NEW c \in Calls, NEW ask, SendNow(c, ask) PROVE IdentityInv'
  <2>1. sprint # Absent /\ UNCHANGED <<sprint, captured, options, client, workerNav>>
        /\ sent' = sent \cup {Visit(ask, SubresourceHeaders(captured, ask))}
    BY <1>5 DEF SendNow, Live, Seen, Visit
  <2>2. Explains(captured, Visit(ask, SubresourceHeaders(captured, ask)))
    BY <2>1, SubresourceExplained
  <2> QED BY <1>2, <2>1, <2>2
<1>6. ASSUME NEW c \in Calls, NEW ask, SendLater(c, ask) PROVE IdentityInv'
  <2>1. sprint # Absent /\ UNCHANGED <<sprint, captured, options, client, workerNav, sent>>
    BY <1>6 DEF SendLater, Live
  <2> QED BY <1>2, <2>1
<1>7. ASSUME NEW c \in Calls, Goroutine(c) PROVE IdentityInv'
  <2> DEFINE ask == call[c].ask
  <2>1. call[c] # Absent /\ UNCHANGED <<sprint, captured, options, client, workerNav>>
        /\ sent' = sent \cup {Visit(ask, SubresourceHeaders(captured, ask))}
    BY <1>7 DEF Goroutine, Seen, Visit
  <2>2. sprint # Absent
    BY <2>1
  <2> HIDE DEF ask
  <2>3. Explains(captured, Visit(ask, SubresourceHeaders(captured, ask)))
    BY <2>2, SubresourceExplained
  <2> QED BY <1>2, <2>1, <2>2, <2>3
<1>8. ASSUME NEW j \in Journeys, NEW target, Depart(j, target) PROVE IdentityInv'
  <2>1. sprint # Absent /\ UNCHANGED <<sprint, captured, options, client, workerNav, sent>>
    BY <1>8 DEF Depart, Live
  <2> QED BY <1>2, <2>1
<1>9. ASSUME NEW j \in Journeys, Hop(j) PROVE IdentityInv'
  <2> DEFINE ask == call[j].ask
             target == ask.target
  <2>1. call[j] # Absent /\ UNCHANGED <<sprint, captured, options, client, workerNav>>
        /\ sent' = sent \cup {Visit(ask, NavigationHeaders(captured, target))}
    BY <1>9 DEF Hop, Seen, Visit
  <2>2. sprint # Absent
    BY <2>1
  <2> HIDE DEF ask, target
  <2>3. Explains(captured, Visit(ask, NavigationHeaders(captured, target)))
    BY <2>2, NavigationExplained
  <2> QED BY <1>2, <2>1, <2>2, <2>3
<1>10. CASE UNCHANGED identityVars
  BY <1>10 DEF identityVars, Explains, Derived, OwnClient
<1> QED BY <1>1, <1>3, <1>4, <1>5, <1>6, <1>7, <1>8, <1>9, <1>10 DEF IdentityNext

\* Until a swap, every surface of the page shows the fingerprint that the closures captured.
PageInv ==
  /\ swaps \in Nat
  /\ sprint = Absent <=> captured = Absent
  /\ captured # Absent /\ swaps = 0 => \A s \in Surfaces : page[s] = captured

LEMMA InitPage == IdentityInit => PageInv
BY DEF IdentityInit, PageInv

LEMMA PageStep ==
  ASSUME PageInv, [IdentityNext]_identityVars
  PROVE  PageInv'
<1> USE DEF PageInv
<1>1. ASSUME NEW p \in Prints, CreateWith(p) PROVE PageInv'
  BY <1>1, IdentityConstants DEF CreateWith, Live
<1>2. ASSUME NEW p \in Prints, NEW done \in 0..Len(Overwritten), SwapFingerprint(p, done)
      PROVE  PageInv'
  <2>1. swaps' = swaps + 1 /\ sprint # Absent /\ sprint' = p /\ captured' = captured
    BY <1>2 DEF SwapFingerprint, Live
  <2>2. sprint' # Absent /\ swaps' # 0 /\ swaps' \in Nat
    BY <2>1, IdentityConstants
  <2> QED BY <2>1, <2>2
<1>3. ASSUME UNCHANGED <<sprint, captured, page, swaps>> PROVE PageInv'
  BY <1>3
<1>4. ASSUME NEW w \in WorkerNames, CreateWorker(w) PROVE PageInv'
  BY <1>3, <1>4 DEF CreateWorker
<1>5. ASSUME NEW c \in Calls, NEW ask \in Asks, SendNow(c, ask) \/ SendLater(c, ask) PROVE PageInv'
  BY <1>3, <1>5 DEF SendNow, SendLater
<1>6. ASSUME NEW c \in Calls, Goroutine(c) PROVE PageInv'
  BY <1>3, <1>6 DEF Goroutine
<1>7. ASSUME NEW j \in Journeys, (\E target \in Places : Depart(j, target)) \/ Hop(j) PROVE PageInv'
  BY <1>3, <1>7 DEF Depart, Hop
<1>8. CASE UNCHANGED identityVars
  BY <1>3, <1>8 DEF identityVars
<1> QED BY <1>1, <1>2, <1>4, <1>5, <1>6, <1>7, <1>8 DEF IdentityNext

\* The identity that servers and workers see is one visitor's, for any fingerprints,
\* options, requests and redirects, and whenever the fingerprint of the session is swapped;
\* until the first swap it is the one that the page shows, too.
THEOREM OneVisitorOnly == IdentitySpec => []OneVisitor
<1> DEFINE Told == IdentityInv /\ PageInv
<1>1. IdentityInit => Told
  BY InitPage DEF IdentityInit, IdentityInv
<1>2. Told /\ [IdentityNext]_identityVars => Told'
  BY IdentityStep, PageStep
<1>3. Told => OneVisitor
  <2> SUFFICES ASSUME Told PROVE OneVisitor
    OBVIOUS
  <2>1. CASE captured = Absent
    <3>1. sent = {} /\ (\A w \in WorkerNames : workerNav[w] = Absent) /\ ~Live
      BY <2>1 DEF IdentityInv, Live
    <3>2. PICK p \in Prints : TRUE
      BY IdentityConstants
    <3> QED BY <3>1, <3>2, Zenon DEF OneVisitor
  <2>2. CASE captured # Absent
    <3>1. captured \in Prints /\ (\A x \in sent : Explains(captured, x))
      BY <2>2 DEF IdentityInv
    <3>2. \A w \in WorkerNames : workerNav[w] # Absent =>
            workerNav[w] = [userAgent |-> UserAgent(captured), cores |-> captured.cores]
      BY <2>2 DEF IdentityInv
    <3>3. swaps = 0 => \A s \in Surfaces : page[s] = captured
      BY <2>2 DEF PageInv
    <3> QED BY <3>1, <3>2, <3>3, Zenon DEF OneVisitor
  <2> QED BY <2>1, <2>2
<1> QED BY <1>1, <1>2, <1>3, PTL DEF IdentitySpec

-----------------------------------------------------------------------------
(* Why a worker's User-Agent differs from its page's. *)

\* Only the creation of a worker changes what a worker reports.
LEMMA OnlyCreationTellsWorkers ==
  ASSUME [IdentityNext]_identityVars, NEW w \in WorkerNames, workerNav[w] # workerNav'[w]
  PROVE  CreateWorker(w)
<1>1. ASSUME NEW p \in Prints, CreateWith(p) PROVE FALSE
  BY <1>1 DEF CreateWith
<1>2. ASSUME NEW p \in Prints, NEW done \in 0..Len(Overwritten), SwapFingerprint(p, done)
      PROVE  FALSE
  BY <1>2 DEF SwapFingerprint
<1>3. ASSUME NEW v \in WorkerNames, CreateWorker(v) PROVE v = w
  BY <1>3 DEF CreateWorker
<1>4. ASSUME NEW c \in Calls, NEW ask \in Asks, SendNow(c, ask) \/ SendLater(c, ask) PROVE FALSE
  BY <1>4 DEF SendNow, SendLater
<1>5. ASSUME NEW c \in Calls, Goroutine(c) PROVE FALSE
  BY <1>5 DEF Goroutine
<1>6. ASSUME NEW j \in Journeys, (\E target \in Places : Depart(j, target)) \/ Hop(j) PROVE FALSE
  BY <1>6 DEF Depart, Hop
<1>7. CASE UNCHANGED identityVars
  BY <1>7 DEF identityVars
<1> QED BY <1>1, <1>2, <1>3, <1>4, <1>5, <1>6, <1>7 DEF IdentityNext

\* WorkersMatchSession, which the swap of a fingerprint breaks, holds until the first swap:
\* for any fingerprints, a worker made before it reports the User-Agent of its page.
THEOREM WorkersMatchUntilASwap ==
  IdentitySpec =>
    [][\A w \in WorkerNames : swaps = 0 /\ workerNav[w] # workerNav'[w] =>
         workerNav'[w].userAgent = UserAgent(page["navigator"])]_identityVars
<1> DEFINE Matches == \A w \in WorkerNames : swaps = 0 /\ workerNav[w] # workerNav'[w] =>
                        workerNav'[w].userAgent = UserAgent(page["navigator"])
           Told == IdentityInv /\ PageInv
<1>1. IdentityInit => Told
  BY InitPage DEF IdentityInit, IdentityInv
<1>2. Told /\ [IdentityNext]_identityVars => Told'
  BY IdentityStep, PageStep
<1>3. Told /\ [IdentityNext]_identityVars => [Matches]_identityVars
  <2> SUFFICES ASSUME Told, [IdentityNext]_identityVars, NEW w \in WorkerNames,
                      swaps = 0, workerNav[w] # workerNav'[w]
               PROVE  workerNav'[w].userAgent = UserAgent(page["navigator"])
    OBVIOUS
  <2>1. CreateWorker(w)
    BY OnlyCreationTellsWorkers
  <2>2. captured # Absent /\ workerNav'[w] = WorkerNavigator(captured)
    BY <2>1 DEF CreateWorker, Live, IdentityInv
  <2>3. "navigator" \in Surfaces
    BY DEF Surfaces, FromTemplates
  <2>4. page["navigator"] = captured
    BY <2>2, <2>3 DEF PageInv
  <2> QED BY <2>2, <2>4 DEF WorkerNavigator
<1> HIDE DEF Told, Matches
<1>4. IdentitySpec => [][Matches]_identityVars
  BY <1>1, <1>2, <1>3, PTL DEF IdentitySpec
<1> QED BY <1>4 DEF Matches
=============================================================================
