--------------------------- MODULE SessionNetwork ---------------------------
(***************************************************************************)
(* The requests of one session: the goroutines behind fetch, XMLHttpRequest *)
(* and top-level navigation (injectRealFetchXHR in browser_env.go and      *)
(* FollowRedirects in internal/nav), the network handler they go through   *)
(* (internal/netlayer/handler.go) and the two cookie stores on the way.    *)
(*                                                                         *)
(* The session's store supplies the Cookie header and takes the Set-Cookie *)
(* lines of every response; the handler has a jar of its own, which takes  *)
(* them first and is asked when the session's store had nothing to send.   *)
(* Each store has its mutex and takes a response line by line, so that two *)
(* requests interleave between any two lines.  Delivering the result is    *)
(* the event loop's part (module Timers).                                  *)
(***************************************************************************)
EXTENDS Naturals, CookieStore

CONSTANTS
  Fetches,        \* requests of scripts
  Navigations,    \* top-level navigations
  Urls,           \* [scheme, host, path]
  Addresses,      \* the hosts that are IP addresses
  Lines,          \* parsed Set-Cookie lines: [name, path, domain, secure]
  SetCookies,     \* what responses set: sequences of lines
  ScriptLines,    \* what scripts assign to document.cookie
  Initial,        \* names of cookies without a host: SessionOptions.Cookies, SetCookie
  MaxHops,        \* nav.MaxHops, 10
  WriteBound      \* bound: cookies set by scripts and the API

Requests == Fetches \cup Navigations

ASSUME NetworkAssumption ==
  /\ SetCookies \subseteq Seq(Lines) /\ ScriptLines \subseteq Lines
  /\ \A l \in Lines : l.secure \in BOOLEAN
  /\ MaxHops \in Nat /\ WriteBound \in Nat

VARIABLES
  session,     \* the session's cookie store
  jar,         \* Handler.cookieJar
  stage,       \* where the goroutine of each request is
  url,         \* its URL; of a navigation, that of the hop
  header,      \* the cookies it sends
  answer,      \* the last response: [lines, location]
  kept,        \* how many of those lines the store at hand has taken
  hops,        \* redirects followed
  landed,      \* history: the keys of the cookies a navigation was given
  writes       \* history: cookies scripts and the API have set

request == <<url, header, answer, kept, hops, landed>>
vars == <<session, jar, stage, request, writes>>

(* Who gives the cookies no server gave. *)
Script == <<"script">>
Client == <<"client">>

NoUrl == [scheme |-> "none", host |-> NoDomain, path |-> Root]
NoAnswer == [lines |-> <<>>, location |-> NoUrl]

Init ==
  /\ session = UNION {Set({}, name, Client) : name \in Initial}
  /\ jar = {}
  /\ stage = [r \in Requests |-> "idle"]
  /\ url = [r \in Requests |-> NoUrl]
  /\ header = [r \in Requests |-> {}]
  /\ answer = [r \in Requests |-> NoAnswer]
  /\ kept = [r \in Requests |-> 0]
  /\ hops = [r \in Requests |-> 0]
  /\ landed = [r \in Requests |-> {}]
  /\ writes = 0

Goes(r, from, to) == stage[r] = from /\ stage' = [stage EXCEPT ![r] = to]

(* The script calls fetch, send or location.assign; a goroutine starts. *)
Start(r, u) ==
  /\ Goes(r, "idle", "resolve")
  /\ url' = [url EXCEPT ![r] = u]
  /\ UNCHANGED <<session, jar, header, answer, kept, hops, landed, writes>>

Writes ==
  /\ writes < WriteBound
  /\ writes' = writes + 1
  /\ UNCHANGED <<jar, stage, request>>

(* document.cookie = line. *)
ScriptWrites(line) == Writes /\ session' = SetRaw(session, line, Script)

(* Session.SetCookie, for the API. *)
SetCookie(name) == Writes /\ session' = Set(session, name, Client)

(* The headers of the request, or of the hop, from the session's store. *)
ResolveHeaders(r) ==
  /\ Goes(r, "resolve", "resolved")
  /\ header' = [header EXCEPT ![r] = CookieHeaderFor(session, url[r])]
  /\ UNCHANGED <<session, jar, url, answer, kept, hops, landed, writes>>

(* handleLive: a request without a Cookie header gets one from the jar. *)
Send(r) ==
  /\ Goes(r, "resolved", "sent")
  /\ header' = [header EXCEPT ![r] = IF @ = {} THEN CookieHeaderFor(jar, url[r]) ELSE @]
  /\ UNCHANGED <<session, jar, url, answer, kept, hops, landed, writes>>

(* The goroutine of a request ends and its locals go with it. *)
Ends(r) ==
  /\ stage' = [stage EXCEPT ![r] = "ended"]
  /\ url' = [url EXCEPT ![r] = NoUrl]
  /\ hops' = [hops EXCEPT ![r] = 0]
  /\ landed' = [landed EXCEPT ![r] = {}]

(* A blocked address, no replay store, a failed connection: the error goes to
   the script, and a navigation makes no further hop. *)
Fail(r) ==
  /\ stage[r] = "sent" /\ Ends(r)
  /\ header' = [header EXCEPT ![r] = {}]
  /\ UNCHANGED <<session, jar, answer, kept, writes>>

(* The server sets any of its cookies, and redirects or does not. *)
Answer(r, lines, location) ==
  /\ Goes(r, "sent", "jar")
  /\ answer' = [answer EXCEPT ![r] = [lines |-> lines, location |-> location]]
  /\ header' = [header EXCEPT ![r] = {}]
  /\ UNCHANGED <<session, jar, url, kept, hops, landed, writes>>

(* The next line of the response, for a store that takes them one at a time. *)
KeepNext(store, r) ==
  SetRawForHost(store, answer[r].lines[kept[r] + 1], url[r].host)
AllKept(r) == kept[r] = Len(answer[r].lines)

(* handleLive: the handler's jar takes the lines, and the handler returns. *)
KeepInJar(r) ==
  /\ stage[r] = "jar" /\ ~AllKept(r)
  /\ jar' = KeepNext(jar, r)
  /\ kept' = [kept EXCEPT ![r] = @ + 1]
  /\ UNCHANGED <<session, stage, url, header, answer, hops, landed, writes>>

HandlerReturns(r) ==
  /\ AllKept(r) /\ Goes(r, "jar", "session")
  /\ kept' = [kept EXCEPT ![r] = 0]
  /\ UNCHANGED <<session, jar, url, header, answer, hops, landed, writes>>

(* The session's store takes them in its turn. *)
KeepInSession(r) ==
  /\ stage[r] = "session" /\ ~AllKept(r)
  /\ session' = KeepNext(session, r)
  /\ kept' = [kept EXCEPT ![r] = @ + 1]
  /\ UNCHANGED <<jar, stage, url, header, answer, hops, landed, writes>>

(* The keys of what a response of the hop's host may set. *)
Accepts(host, l) == l.domain = NoDomain \/ DomainMatch(host, l.domain)
KeyGiven(l, host) == <<l.name, IF l.domain = NoDomain THEN host ELSE l.domain, l.path>>
KeysGiven(r) == {KeyGiven(l, url[r].host) :
                   l \in {m \in ToSet(answer[r].lines) : Accepts(url[r].host, m)}}

(* Mutant of Follow: the hops are not counted. *)
FollowUncounted(r) ==
  /\ stage' = [stage EXCEPT ![r] = "resolve"]
  /\ url' = [url EXCEPT ![r] = answer[r].location]
  /\ landed' = [landed EXCEPT ![r] = @ \cup KeysGiven(r)]
  /\ UNCHANGED hops

(* FollowRedirects: the next hop. *)
Follow(r) ==
  /\ stage' = [stage EXCEPT ![r] = "resolve"]
  /\ url' = [url EXCEPT ![r] = answer[r].location]
  /\ hops' = [hops EXCEPT ![r] = @ + 1]
  /\ landed' = [landed EXCEPT ![r] = @ \cup KeysGiven(r)]

Redirected(r) == r \in Navigations /\ answer[r].location # NoUrl /\ hops[r] < MaxHops

(* Mutant of EndHop: a redirect is followed without keeping its cookies. *)
EndHopEarly(r) ==
  /\ stage[r] = "session"
  /\ AllKept(r) \/ Redirected(r)
  /\ IF Redirected(r) THEN Follow(r) ELSE Ends(r)
  /\ kept' = [kept EXCEPT ![r] = 0]
  /\ answer' = [answer EXCEPT ![r] = NoAnswer]
  /\ UNCHANGED <<session, jar, header, writes>>

(* A redirected navigation goes on; everything else has its result. *)
EndHop(r) ==
  /\ stage[r] = "session" /\ AllKept(r)
  /\ IF Redirected(r) THEN Follow(r) ELSE Ends(r)
  /\ kept' = [kept EXCEPT ![r] = 0]
  /\ answer' = [answer EXCEPT ![r] = NoAnswer]
  /\ UNCHANGED <<session, jar, header, writes>>

Step(r) ==
  \/ ResolveHeaders(r) \/ Send(r) \/ Fail(r)
  \/ \E lines \in SetCookies, location \in Urls \cup {NoUrl} :
       (r \in Fetches => location = NoUrl) /\ Answer(r, lines, location)
  \/ KeepInJar(r) \/ HandlerReturns(r) \/ KeepInSession(r) \/ EndHop(r)

Next ==
  \/ \E r \in Requests : (\E u \in Urls : Start(r, u)) \/ Step(r)
  \/ \E line \in ScriptLines : ScriptWrites(line)
  \/ \E name \in Initial : SetCookie(name)

Spec == Init /\ [][Next]_vars

(* The goroutines run, and a server answers or the connection fails. *)
FairSpec == Spec /\ \A r \in Requests : WF_vars(Step(r))

----------------------------------------------------------------------------
ByServer(c) == c.value.from \notin {Script, Client}

(* RFC 6265, 5.1.3, as the comment of domainMatch has it: "host equals domain, or host ends
   with domain and the preceding char is a dot (and host is not an IP)". *)
InDomain(host, domain) ==
  IsPrefix(domain, host) /\ (host \in Addresses => host = domain)

(* A cookie goes where the server that set it meant it to (RFC 6265, 5.4): to
   its own host, or to the hosts of the domain it named and belongs to; under
   its path, and over https if it is secure. *)
InScope(c, u) ==
  /\ c.value.domain = NoDomain => u.host = c.value.from
  /\ c.value.domain # NoDomain =>
       InDomain(c.value.from, c.value.domain) /\ InDomain(u.host, c.value.domain)
  /\ c.secure => u.scheme = "https"
  /\ PathMatch(u.path, c.path)

(* The code does not ask whether a host is an address: the end of an address passes for
   a domain, and a cookie with a Domain gets from one address to another. *)
SharesNumbers(c, u) ==
  c.value.domain # NoDomain /\ {c.value.from, u.host} \cap Addresses # {}

(* Neither jar sends a cookie out of its scope, however the cookies of several hosts,
   scripts and redirects mix; addresses that share a Domain are the one exception. *)
CookiesInScope ==
  \A r \in Requests : stage[r] = "sent" =>
    \A c \in header[r] : ByServer(c) /\ ~SharesNumbers(c, url[r]) => InScope(c, url[r])

(* "Every hop's Set-Cookie is stamped onto the shared jar": a hop sends what an
   earlier hop of the navigation was given for it, or what another request or a
   script has replaced it with since.  A login that spans redirects needs it. *)
HopsCarryCookies ==
  [][\A r \in Navigations : stage[r] = "resolve" /\ stage'[r] = "resolved" =>
       \A key \in landed[r] : \E c \in session :
         /\ Key(c) = key
         /\ ByServer(c) /\ InScope(c, url[r]) => c \in header'[r]]_vars

Hosts == {u.host : u \in Urls \cup {NoUrl}}
Domains == {NoDomain} \cup {l.domain : l \in Lines} \cup Hosts
Cookies == [name : Initial \cup {l.name : l \in Lines},
            path : {Root} \cup {l.path : l \in Lines},
            secure : BOOLEAN, domain : Domains, hostOnly : BOOLEAN,
            value : [from : {Script, Client} \cup Hosts, domain : Domains]]

TypeOK ==
  /\ session \subseteq Cookies /\ jar \subseteq Cookies
  /\ stage \in [Requests -> {"idle", "resolve", "resolved", "sent", "jar", "session", "ended"}]
  /\ url \in [Requests -> Urls \cup {NoUrl}]
  /\ header \in [Requests -> SUBSET Cookies]
  /\ answer \in [Requests -> [lines : SetCookies \cup {<<>>}, location : Urls \cup {NoUrl}]]
  /\ kept \in [Requests -> Nat]
  /\ hops \in [Requests -> 0..MaxHops]
  /\ landed \in [Requests -> SUBSET {Key(c) : c \in Cookies}]
  /\ writes \in 0..WriteBound

(* What is stored of a cookie still tells what its server asked for. *)
Faithful(c) ==
  ByServer(c) => IF c.value.domain = NoDomain THEN c.hostOnly /\ c.domain = c.value.from
                 ELSE /\ ~c.hostOnly /\ c.domain = c.value.domain
                      /\ IsPrefix(c.domain, c.value.from)

Holds(store, key) == \E c \in store : Key(c) = key

(* The inductive invariant: both stores are faithful, a header holds what may be
   sent to its URL, and the session's store has the lines it has taken. *)
NetworkInv ==
  /\ TypeOK
  /\ \A c \in session \cup jar : Faithful(c)
  /\ \A r \in Requests :
       /\ \A c \in header[r] : Faithful(c) /\ Sendable(c, url[r])
       /\ stage[r] \notin {"resolved", "sent"} => header[r] = {}
       /\ \A key \in landed[r] : Holds(session, key)
       /\ stage[r] \in {"jar", "session"} => kept[r] \in 0..Len(answer[r].lines)
       /\ stage[r] \notin {"jar", "session"} => kept[r] = 0
       /\ stage[r] = "session" =>
            \A i \in 1..kept[r] : LET l == answer[r].lines[i] IN
              Accepts(url[r].host, l) => Holds(session, KeyGiven(l, url[r].host))

(* A navigation ends although servers may redirect it for ever.  (No request is
   idle again.) *)
RequestsEnd == \A r \in Requests : []<>(stage[r] \in {"idle", "ended"})
=============================================================================
