---------------------------- MODULE CookieStore ----------------------------
(***************************************************************************)
(* The cookie store (internal/sandbox/cookie_store.go) as operators on its *)
(* state: a set of cookies with at most one for a name, domain and path.   *)
(* A Cookie header is the set of the cookies in it; their order is not     *)
(* modelled.                                                               *)
(*                                                                         *)
(* A host is the sequence of its labels from the last one on, so that the  *)
(* suffix test of the code is a prefix here; a path is the sequence of its *)
(* segments, with an empty last one where the string ends in a slash.      *)
(***************************************************************************)
EXTENDS SequencesExt

NoDomain == <<>>
Root == <<"">>

(* Mutant of DomainMatch: a cookie of a subdomain goes to its parent too. *)
DomainMatchBoth(host, domain) == IsPrefix(domain, host) \/ IsPrefix(host, domain)

DomainMatch(host, domain) == IsPrefix(domain, host)

PathMatch(path, cookiePath) ==
  \/ path = cookiePath
  \/ Last(cookiePath) = "" /\ IsStrictPrefix(Front(cookiePath), path)
  \/ IsStrictPrefix(cookiePath, path)

Key(c) == <<c.name, c.domain, c.path>>

(* store: the last cookie with a key is the only one. *)
Store(store, c) == {d \in store : Key(d) # Key(c)} \cup {c}

(* A cookie made of a parsed line [name, path, domain, secure].  The value of a
   cookie tells who gave it, and the Domain it was given with. *)
Cookie(line, giver, domain, hostOnly) ==
  [name |-> line.name, path |-> line.path, secure |-> line.secure,
   domain |-> domain, hostOnly |-> hostOnly,
   value |-> [from |-> giver, domain |-> line.domain]]

(* Set, NewCookieStore: a cookie by name, without a host of its own. *)
Set(store, name, giver) ==
  Store(store, Cookie([name |-> name, path |-> Root, secure |-> FALSE, domain |-> NoDomain],
                      giver, NoDomain, TRUE))

(* SetRaw: a line written to document.cookie. *)
SetRaw(store, line, giver) == Store(store, Cookie(line, giver, line.domain, FALSE))

(* SetRawForHost: a Set-Cookie line of a response from host. *)
SetRawForHost(store, line, host) ==
  IF line.domain = NoDomain THEN Store(store, Cookie(line, host, host, TRUE))
  ELSE IF DomainMatch(host, line.domain) THEN Store(store, Cookie(line, host, line.domain, FALSE))
       ELSE store

(* What CookieHeaderFor lets through.  A cookie without a domain goes to every
   host, unless it is host-only. *)
Sendable(c, url) ==
  /\ c.secure => url.scheme = "https"
  /\ IF c.hostOnly THEN url.host = c.domain
     ELSE c.domain # NoDomain => DomainMatch(url.host, c.domain)
  /\ PathMatch(url.path, c.path)

CookieHeaderFor(store, url) == {c \in store : Sendable(c, url)}
=============================================================================
