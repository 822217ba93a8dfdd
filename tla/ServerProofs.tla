------------------------------ MODULE ServerProofs ------------------------------
(***************************************************************************)
(* What holds of the server's answers for every request, and of its          *)
(* processes, pages and sockets whatever the hosts, ports and command lines. *)
(***************************************************************************)
EXTENDS Server, TLAPS

(***************************************************************************)
(* The answers.                                                            *)
(***************************************************************************)
LEMMA PlainFacts ==
    ASSUME NEW n PROVE Plain(n).status = n /\ ~Plain(n).sets
BY DEF Plain, Answer

(* The cases of the definitions, one by one. *)
LEMMA RespondArms ==
    ASSUME NEW token, NEW open, NEW req
    PROVE  /\ ~CheckHost(req.host) => Respond(token, open, req) = Plain(403)
           /\ CheckHost(req.host) /\ ~open /\ ~IsHandshake(req)
              /\ ~CheckCookie(req.cookies, token) => Respond(token, open, req) = Plain(401)
           /\ CheckHost(req.host)
              /\ (open \/ IsHandshake(req) \/ CheckCookie(req.cookies, token)) =>
                 Respond(token, open, req) = Route(token, open, req)
BY DEF Respond

LEMMA UpgradeArms ==
    ASSUME NEW req
    PROVE  /\ ~req.upgrade => Upgrade(req) = Plain(400)
           /\ req.upgrade /\ ~CheckOrigin(req) => Upgrade(req) = Plain(403)
           /\ req.upgrade /\ CheckOrigin(req) => Upgrade(req) = Plain(101)
BY DEF Upgrade

LEMMA RouteArms ==
    ASSUME NEW token, NEW open, NEW req
    PROVE  /\ req.path = "/" /\ req.method \in {"GET", "HEAD"} =>
                 Route(token, open, req) = Root(token, open, req)
           /\ req.path \in Sockets /\ req.method \in {"GET", "HEAD"} =>
                 Route(token, open, req) = Upgrade(req)
           /\ req.path = "/assets/main.js" /\ req.method \in {"GET", "HEAD"} =>
                 Route(token, open, req) = Plain(200)
           /\ \/ Route(token, open, req) = Root(token, open, req)
              \/ Route(token, open, req) = Upgrade(req)
              \/ Route(token, open, req) \in {Plain(404), Plain(405), Plain(200)}
BY DEF Route, Paths, Sockets

LEMMA CheckHostArms ==
    ASSUME NEW h
    PROVE  /\ h.kind = "name" => CheckHost(h) = (h.name = "localhost")
           /\ h.kind = "v4" => CheckHost(h) = (/\ ~(h.legacy /\ Len(h.parts) = 4)
                                               /\ ParseIp(h.parts) = Parsed(127))
           /\ h.kind = "v6" => CheckHost(h) = (h.name = "::1")
           /\ h.kind \notin {"name", "v4", "v6"} => ~CheckHost(h)
<1>1. h.kind = "v4" => h.kind # "name"
  OBVIOUS
<1>2. h.kind = "v6" => h.kind # "name" /\ h.kind # "v4"
  OBVIOUS
<1>3. QED
  BY <1>1, <1>2 DEF CheckHost

LEMMA ParseIpArms ==
    ASSUME NEW parts
    PROVE  /\ Len(parts) = 1 => ParseIp(parts) = Parsed(parts[1] \div Below[2])
           /\ Len(parts) = 2 => ParseIp(parts) =
                 IF parts[1] < Byte /\ parts[2] < Below[2] THEN Parsed(parts[1]) ELSE NotParsed
           /\ Len(parts) = 3 => ParseIp(parts) =
                 IF parts[1] < Byte /\ parts[2] < Byte /\ parts[3] < Below[3]
                 THEN Parsed(parts[1]) ELSE NotParsed
           /\ Len(parts) = 4 => ParseIp(parts) =
                 IF \A i \in 1..4 : parts[i] < Byte THEN Parsed(parts[1]) ELSE NotParsed
<1>1. 1 # 2 /\ 1 # 3 /\ 1 # 4 /\ 2 # 3 /\ 2 # 4 /\ 3 # 4
  OBVIOUS
<1>2. Len(parts) = 1 => ParseIp(parts) = Parsed(parts[1] \div Below[2])
  BY <1>1 DEF ParseIp
<1>3. /\ Len(parts) = 2 /\ parts[1] < Byte /\ parts[2] < Below[2] =>
            ParseIp(parts) = Parsed(parts[1])
      /\ Len(parts) = 2 /\ ~(parts[1] < Byte /\ parts[2] < Below[2]) =>
            ParseIp(parts) = NotParsed
  BY <1>1 DEF ParseIp
<1>4. /\ Len(parts) = 3 /\ parts[1] < Byte /\ parts[2] < Byte /\ parts[3] < Below[3] =>
            ParseIp(parts) = Parsed(parts[1])
      /\ Len(parts) = 3 /\ ~(parts[1] < Byte /\ parts[2] < Byte /\ parts[3] < Below[3]) =>
            ParseIp(parts) = NotParsed
  BY <1>1 DEF ParseIp
<1>5. /\ Len(parts) = 4 /\ (\A i \in 1..4 : parts[i] < Byte) =>
            ParseIp(parts) = Parsed(parts[1])
      /\ Len(parts) = 4 /\ ~(\A i \in 1..4 : parts[i] < Byte) =>
            ParseIp(parts) = NotParsed
  BY <1>1 DEF ParseIp
<1>6. QED
  BY <1>2, <1>3, <1>4, <1>5

LEMMA RedirectFacts ==
    ASSUME NEW token, NEW open, NEW v
    PROVE  /\ TokenRedirect(token, open, v).status \in {302, 401}
           /\ ~open /\ v # token => TokenRedirect(token, open, v) = Plain(401)
           /\ TokenRedirect(token, open, v).sets => v = token
BY DEF TokenRedirect, Plain, Answer

LEMMA RootFacts ==
    ASSUME NEW token, NEW open, NEW req
    PROVE  /\ Root(token, open, req).status \in {200, 302, 400, 401}
           /\ (\A i \in DOMAIN req.query : req.query[i].key # "t") =>
                  Root(token, open, req) = Plain(200)
           /\ (/\ ~open
               /\ \E i \in DOMAIN req.query : req.query[i].key = "t"
               /\ \A i \in DOMAIN req.query : req.query[i].value # token) =>
                  Root(token, open, req) \in {Plain(400), Plain(401)}
<1> DEFINE ts == {i \in DOMAIN req.query : req.query[i].key = "t"}
           v == req.query[CHOOSE i \in ts : TRUE].value
<1>1. \/ ts = {} /\ Root(token, open, req) = Plain(200)
      \/ /\ \E i \in ts : ts = {i}
         /\ Root(token, open, req) = TokenRedirect(token, open, v)
      \/ ts # {} /\ Root(token, open, req) = Plain(400)
  BY DEF Root
<1>2. (\E i \in ts : ts = {i}) => (CHOOSE i \in ts : TRUE) \in DOMAIN req.query
  OBVIOUS
<1> HIDE DEF v
<1>3. CASE ts = {} /\ Root(token, open, req) = Plain(200)
  <2>1. \A i \in DOMAIN req.query : req.query[i].key # "t"
    BY <1>3
  <2>2. Root(token, open, req).status = 200
    BY <1>3, PlainFacts
  <2>3. QED
    BY <1>3, <2>1, <2>2
<1>4. CASE /\ \E i \in ts : ts = {i}
           /\ Root(token, open, req) = TokenRedirect(token, open, v)
  <2>1. (\A i \in DOMAIN req.query : req.query[i].value # token) => v # token
    BY <1>2, <1>4 DEF v
  <2>2. Root(token, open, req).status \in {302, 401}
    BY <1>4, RedirectFacts
  <2>3. ~open /\ v # token => Root(token, open, req) = Plain(401)
    BY <1>4, RedirectFacts
  <2>4. \E i \in DOMAIN req.query : req.query[i].key = "t"
    BY <1>4
  <2>5. QED
    BY <1>4, <2>1, <2>2, <2>3, <2>4
<1>5. CASE ts # {} /\ Root(token, open, req) = Plain(400)
  <2>1. \E i \in DOMAIN req.query : req.query[i].key = "t"
    BY <1>5
  <2>2. Root(token, open, req).status = 400
    BY <1>5, PlainFacts
  <2>3. QED
    BY <1>5, <2>1, <2>2
<1>6. QED
  BY <1>1, <1>3, <1>4, <1>5

(* Only a request that passed the origin check is upgraded.                 *)
LEMMA UpgradeChecked ==
    ASSUME NEW token, NEW open, NEW req, Respond(token, open, req).status = 101
    PROVE  CheckOrigin(req)
<1> DEFINE r == Respond(token, open, req)
<1>1. Plain(403).status = 403 /\ Plain(401).status = 401 /\ Plain(404).status = 404
      /\ Plain(405).status = 405 /\ Plain(200).status = 200 /\ Plain(400).status = 400
  BY DEF Plain, Answer
<1>2. r = Plain(403) \/ r = Plain(401) \/ r = Route(token, open, req)
  BY RespondArms
<1>3. r = Route(token, open, req)
  BY <1>1, <1>2
<1>4. Root(token, open, req).status # 101
  BY RootFacts
<1>5. r = Upgrade(req)
  BY <1>1, <1>3, <1>4, RouteArms
<1>6. QED
  BY <1>1, <1>5, UpgradeArms

(* A query text that begins with "t=" is one whose key is "t".              *)
PiecesAsWritten(req) ==
    \A i \in DOMAIN req.query : req.query[i].begins => req.query[i].key = "t"

(* A process that asks for authentication answers every request without its  *)
(* token, of any method, path, host and origin, with a refusal and no cookie  *)
(* (auth.rs:17 and :155).                                                   *)
THEOREM TokenDecides ==
    ASSUME NEW token, NEW open, ~open, NEW req, PiecesAsWritten(req), ~Carries(req, token)
    PROVE  Respond(token, open, req) \in {Plain(400), Plain(401), Plain(403)}
<1>1. ~CheckHost(req.host) => Respond(token, open, req) = Plain(403)
  BY RespondArms
<1>2. ~CheckCookie(req.cookies, token)
  BY DEF CheckCookie, Cookie, Carries
<1>3. CheckHost(req.host) /\ ~IsHandshake(req) => Respond(token, open, req) = Plain(401)
  BY <1>2 DEF Respond
<1>4. ASSUME CheckHost(req.host), IsHandshake(req)
      PROVE  Respond(token, open, req) \in {Plain(400), Plain(401)}
  <2>1. /\ req.path = "/" /\ req.method = "GET"
        /\ \E i \in DOMAIN req.query : req.query[i].key = "t"
    BY <1>4 DEF IsHandshake, PiecesAsWritten
  <2>2. Respond(token, open, req) = Root(token, open, req)
    <3>1. Respond(token, open, req) = Route(token, open, req)
      BY <1>4 DEF Respond
    <3>2. Route(token, open, req) = Root(token, open, req)
      BY <2>1, RouteArms
    <3>3. QED
      BY <3>1, <3>2
  <2>3. \A i \in DOMAIN req.query : req.query[i].value # token
    BY DEF Carries
  <2>4. Root(token, open, req) \in {Plain(400), Plain(401)}
    BY <2>1, <2>3, RootFacts
  <2>5. QED
    BY <2>2, <2>4
<1>5. QED
  BY <1>1, <1>3, <1>4

(***************************************************************************)
(* Hosts and origins.                                                      *)
(***************************************************************************)
LEMMA HostExcept ==
    ASSUME NEW k, NEW n, NEW q, NEW o, NEW d, NEW r, NEW m
    PROVE  /\ [Host(k, n, q, o, d, r) EXCEPT !.port = m] = Host(k, n, q, o, d, m)
           /\ [Host(k, n, q, o, d, r) EXCEPT !.dot = m] = Host(k, n, q, o, m, r)
BY DEF Host

LEMMA HostFields ==
    ASSUME NEW k, NEW n, NEW q, NEW o, NEW d, NEW r
    PROVE  /\ Host(k, n, q, o, d, r).kind = k /\ Host(k, n, q, o, d, r).name = n
           /\ Host(k, n, q, o, d, r).parts = q /\ Host(k, n, q, o, d, r).legacy = o
           /\ Host(k, n, q, o, d, r).dot = d /\ Host(k, n, q, o, d, r).port = r
BY DEF Host

LEMMA HostForm ==
    ASSUME NEW S, NEW h \in HostsOf(S)
    PROVE  /\ h = Host(h.kind, h.name, h.parts, h.legacy, h.dot, 0)
           /\ h.kind \in {"name", "v4", "v6", "none"} /\ h.parts \in Seq(Nat)
           /\ h.legacy \in BOOLEAN /\ h.dot \in BOOLEAN
BY DEF Host, HostsOf

LEMMA AtFacts ==
    ASSUME NEW S, NEW h \in HostsOf(S), NEW n
    PROVE  /\ At(h, n).kind = h.kind /\ At(h, n).name = h.name /\ At(h, n).parts = h.parts
           /\ At(h, n).legacy = h.legacy /\ At(h, n).dot = h.dot /\ At(h, n).port = n
           /\ At(h, n) = Host(h.kind, h.name, h.parts, h.legacy, h.dot, n)
           /\ Bare(At(h, n)) = h
<1>1. h = Host(h.kind, h.name, h.parts, h.legacy, h.dot, 0)
  BY HostForm
<1>2. At(h, n) = Host(h.kind, h.name, h.parts, h.legacy, h.dot, n)
  BY <1>1, HostExcept DEF At
<1>3. Bare(At(h, n)) = Host(h.kind, h.name, h.parts, h.legacy, h.dot, 0)
  BY <1>2, HostExcept DEF Bare
<1>4. Bare(At(h, n)) = h
  BY <1>1, <1>3
<1>5. QED
  BY <1>2, <1>4, HostFields

LEMMA CheckHostAt ==
    ASSUME NEW S, NEW h \in HostsOf(S), NEW n PROVE CheckHost(At(h, n)) <=> CheckHost(h)
<1> DEFINE a == At(h, n)
<1>1. a.kind = h.kind /\ a.name = h.name /\ a.parts = h.parts /\ a.legacy = h.legacy
  BY AtFacts
<1> HIDE DEF a
<1>2. h.kind = "name" => (CheckHost(a) <=> CheckHost(h))
  BY <1>1, CheckHostArms
<1>3. h.kind = "v4" => (CheckHost(a) <=> CheckHost(h))
  BY <1>1, CheckHostArms, ZenonT(30)
<1>4. h.kind = "v6" => (CheckHost(a) <=> CheckHost(h))
  BY <1>1, CheckHostArms
<1>5. h.kind \notin {"name", "v4", "v6"} => (CheckHost(a) <=> CheckHost(h))
  BY <1>1, CheckHostArms
<1>6. CheckHost(a) <=> CheckHost(h)
  BY <1>2, <1>3, <1>4, <1>5
<1>7. QED
  BY <1>6 DEF a

LEMMA TextFacts ==
    ASSUME NEW k, NEW n, NEW q, NEW o, NEW d, NEW r, ~d
    PROVE  LET h == Host(k, n, q, o, d, r)
           IN  /\ HostText(h) = [h |-> Host(k, n, q, o, d, 0), bracketed |-> FALSE]
               /\ OriginText(h) = [h |-> Host(k, n, q, o, d, 0), bracketed |-> (k = "v6")]
<1> DEFINE h == Host(k, n, q, o, d, r)
<1>1. h.kind = k /\ ~h.dot
  BY HostFields
<1>2. [h EXCEPT !.port = 0] = Host(k, n, q, o, d, 0)
  BY HostExcept
<1> HIDE DEF h
<1>3. HostText(h) = [h |-> Host(k, n, q, o, d, 0), bracketed |-> FALSE]
  BY <1>1, <1>2 DEF HostText, Spelled
<1>4. OriginText(h) = [h |-> Host(k, n, q, o, d, 0), bracketed |-> (k = "v6")]
  BY <1>1, <1>2 DEF OriginText, Spelled
<1>5. QED
  BY <1>3, <1>4 DEF h

LEMMA OriginFacts ==
    ASSUME NEW o \in Origins
    PROVE  /\ o.kind \in {"name", "v4", "v6"} /\ o.dot = FALSE /\ o.legacy = FALSE
           /\ o.port \in Ports /\ o.port \in Nat \ {0, 80}
           /\ o = Host(o.kind, o.name, o.parts, o.legacy, o.dot, o.port)
           /\ CheckHost(o) /\ o # NoHost
           /\ Bare(o) \in BrowserHosts
<1>1. PICK h \in BrowserHosts, n \in Ports : o = At(h, n)
  BY DEF Origins
<1>2. h \in HostsOf(BrowserHosts)
  BY HostsAssumption
<1>3. /\ o.kind = h.kind /\ o.name = h.name /\ o.parts = h.parts
      /\ o.legacy = h.legacy /\ o.dot = h.dot /\ o.port = n
      /\ o = Host(h.kind, h.name, h.parts, h.legacy, h.dot, n)
      /\ Bare(o) = h /\ (CheckHost(o) <=> CheckHost(h))
  BY <1>1, <1>2, AtFacts, CheckHostAt
<1>4. CheckHost(h) /\ h.legacy = FALSE /\ h.dot = FALSE
  BY <1>2, HostsAssumption DEF HostsOf
<1>5. h.kind \in {"name", "v4", "v6"}
  BY <1>2, <1>4 DEF HostsOf, CheckHost
<1>6. NoHost.kind = "none"
  BY DEF NoHost, Host
<1>7. n \in Nat \ {0, 80}
  BY ServerAssumption
<1>8. o # NoHost
  BY <1>3, <1>5, <1>6
<1>9. QED
  BY <1>3, <1>4, <1>5, <1>7, <1>8

(* The two spellings agree on one origin alone, and never on an IPv6 one.    *)
LEMMA OriginDecides ==
    ASSUME NEW o \in Origins, NEW page \in Origins, NEW req, req.host = page, req.origin = o
    PROVE  CheckOrigin(req) <=> o = page /\ o.kind # "v6"
<1> DEFINE a == Host(o.kind, o.name, o.parts, o.legacy, o.dot, 0)
           b == Host(page.kind, page.name, page.parts, page.legacy, page.dot, 0)
<1>1. /\ o = Host(o.kind, o.name, o.parts, o.legacy, o.dot, o.port)
      /\ page = Host(page.kind, page.name, page.parts, page.legacy, page.dot, page.port)
      /\ o # NoHost /\ page # NoHost /\ o.port # 0 /\ page.port # 0
      /\ ~o.dot /\ ~page.dot
  BY OriginFacts
<1>2. OriginText(Host(o.kind, o.name, o.parts, o.legacy, o.dot, o.port))
          = [h |-> a, bracketed |-> (o.kind = "v6")]
  BY <1>1, TextFacts
<1>3. HostText(Host(page.kind, page.name, page.parts, page.legacy, page.dot, page.port))
          = [h |-> b, bracketed |-> FALSE]
  <2> DEFINE h == Host(page.kind, page.name, page.parts, page.legacy, page.dot, page.port)
  <2>1. ~h.dot
    BY <1>1, HostFields
  <2>2. [h EXCEPT !.port = 0] = b
    BY HostExcept
  <2> HIDE DEF h, b
  <2>3. HostText(h) = [h |-> b, bracketed |-> FALSE]
    BY <2>1, <2>2 DEF HostText, Spelled
  <2>4. QED
    BY <2>3 DEF h
<1>4. /\ OriginText(o) = [h |-> a, bracketed |-> (o.kind = "v6")]
      /\ HostText(page) = [h |-> b, bracketed |-> FALSE]
  BY <1>1, <1>2, <1>3
<1>5. PortOf(o) = o.port /\ PortOf(page) = page.port
  BY <1>1 DEF PortOf
<1>6. CheckOrigin(req) <=> /\ OriginText(o) = HostText(page)
                           /\ o.port = page.port
  BY <1>1, <1>5 DEF CheckOrigin
<1>7. OriginText(o) = HostText(page) <=> a = b /\ o.kind # "v6"
  <2> HIDE DEF a, b
  <2>1. /\ [h |-> a, bracketed |-> (o.kind = "v6")].h = a
        /\ [h |-> b, bracketed |-> FALSE].h = b
        /\ [h |-> a, bracketed |-> (o.kind = "v6")].bracketed = (o.kind = "v6")
        /\ [h |-> b, bracketed |-> FALSE].bracketed = FALSE
    OBVIOUS
  <2>2. ASSUME a = b, o.kind # "v6" PROVE OriginText(o) = HostText(page)
    <3>1. (o.kind = "v6") = FALSE
      BY <2>2
    <3>2. QED
      BY <1>4, <2>2, <3>1
  <2>3. ASSUME OriginText(o) = HostText(page) PROVE a = b /\ o.kind # "v6"
    BY <1>4, <2>1, <2>3
  <2>4. QED
    BY <2>2, <2>3
<1>8. a = b => /\ o.kind = page.kind /\ o.name = page.name /\ o.parts = page.parts
               /\ o.legacy = page.legacy /\ o.dot = page.dot
  BY HostFields
<1>9. a = b /\ o.port = page.port => o = page
  <2> SUFFICES ASSUME a = b, o.port = page.port PROVE o = page
    OBVIOUS
  <2> DEFINE c == Host(o.kind, o.name, o.parts, o.legacy, o.dot, o.port)
             d == Host(page.kind, page.name, page.parts, page.legacy, page.dot, page.port)
  <2>1. c = d
    BY <1>8
  <2> HIDE DEF c, d
  <2>2. o = c /\ page = d
    BY <1>1 DEF c, d
  <2>3. QED
    BY <2>1, <2>2
<1>10. o = page => a = b /\ o.port = page.port
  OBVIOUS
<1>11. QED
  BY <1>6, <1>7, <1>9, <1>10

(***************************************************************************)
(* The type.  A process has an address exactly when it has started, and a    *)
(* socket belongs to a process that runs.                                   *)
(***************************************************************************)
Attached ==
    \A s \in sockets : /\ proc[s.proc] \in {"serving", "stopping"}
                       /\ s.page.port = bound[s.proc].port

Refused == \A p \in Procs : exitCode[p] # 0 => proc[p] = "exited"

TypeInv == TypeOK /\ Attached /\ Refused

LEMMA ReachedFacts ==
    ASSUME NEW o \in Origins, NEW q \in Reached(o)
    PROVE  q \in Procs /\ proc[q] = "serving" /\ bound[q].port = o.port
BY DEF Reached

LEMMA TypeInit == Init => TypeInv
<1> SUFFICES ASSUME Init PROVE TypeInv
  OBVIOUS
<1>1. /\ \A p \in Procs : proc[p] = "none" /\ bound[p] = NoHost /\ exitCode[p] = 0
      /\ sockets = {}
  BY DEF Init
<1>2. TypeOK
  BY <1>1 DEF Init, TypeOK
<1>3. QED
  BY <1>1, <1>2 DEF TypeInv, Attached, Refused

LEMMA StartsType == TypeInv /\ (\E p \in Procs : Starts(p)) => TypeInv'
<1> SUFFICES ASSUME TypeInv, NEW p \in Procs, Starts(p) PROVE TypeInv'
  OBVIOUS
<1>1. /\ proc[p] = "none" /\ UNCHANGED <<jar, redirected, pages, sockets>>
  BY DEF Starts, browserVars
<1>2. PICK a \in Args, v \in Versions, n \in Ports :
          IF Validates(a) /\ VersionPasses(v) /\ Reached(At(a.bind, n)) = {}
          THEN /\ proc' = [proc EXCEPT ![p] = "serving"]
               /\ bound' = [bound EXCEPT ![p] = At(a.bind, n)]
               /\ noAuth' = [noAuth EXCEPT ![p] = a.noAuth]
               /\ UNCHANGED exitCode
          ELSE /\ proc' = [proc EXCEPT ![p] = "exited"]
               /\ exitCode' = [exitCode EXCEPT ![p] = IF Validates(a) THEN 1 ELSE 2]
               /\ UNCHANGED <<bound, noAuth>>
  BY DEF Starts, Bound
<1>3. \A s \in sockets : s.proc # p /\ s.proc \in Procs
  BY <1>1 DEF TypeInv, TypeOK, Attached
<1>4. exitCode[p] \in 0..2 /\ bound[p] = NoHost
  BY <1>1 DEF TypeInv, TypeOK
<1>5. CASE Validates(a) /\ VersionPasses(v) /\ Reached(At(a.bind, n)) = {}
  <2>1. At(a.bind, n) \in Origins
    BY <1>5, HostsAssumption DEF Validates, Origins
  <2>2. At(a.bind, n) # NoHost
    BY <2>1, OriginFacts
  <2>3. /\ proc' = [proc EXCEPT ![p] = "serving"]
        /\ bound' = [bound EXCEPT ![p] = At(a.bind, n)]
        /\ noAuth' = [noAuth EXCEPT ![p] = a.noAuth]
        /\ UNCHANGED exitCode
    BY <1>2, <1>5
  <2>4. a.noAuth \in BOOLEAN
    BY HostsAssumption
  <2>5. /\ \A q \in Procs \ {p} : proc'[q] = proc[q] /\ bound'[q] = bound[q]
        /\ proc'[p] = "serving" /\ bound'[p] = At(a.bind, n)
    BY <2>3 DEF TypeInv, TypeOK
  <2>6. exitCode[p] = 0
    BY <1>1 DEF TypeInv, Refused
  <2>7. /\ proc' \in [Procs -> {"none", "serving", "stopping", "exited"}]
        /\ noAuth' \in [Procs -> BOOLEAN]
    BY <2>3, <2>4 DEF TypeInv, TypeOK
  <2>8. Attached'
    <3>1. \A s \in sockets : s.proc \in Procs \ {p}
      BY <1>3
    <3>2. QED
      BY <1>1, <2>5, <3>1 DEF TypeInv, Attached
  <2>9. TypeOK'
    BY <1>1, <2>1, <2>2, <2>3, <2>5, <2>6, <2>7 DEF TypeInv, TypeOK
  <2>10. Refused'
    BY <2>3, <2>5, <2>6 DEF TypeInv, Refused
  <2>11. QED
    BY <2>8, <2>9, <2>10 DEF TypeInv
<1>6. CASE ~ (Validates(a) /\ VersionPasses(v) /\ Reached(At(a.bind, n)) = {})
  BY <1>1, <1>2, <1>3, <1>4, <1>6 DEF TypeInv, TypeOK, Attached, Refused
<1>7. QED
  BY <1>5, <1>6

LEMMA BrowserType ==
    ASSUME TypeInv, NEW o \in Origins,
           \/ \E p \in Procs : OpensUrl(p, o)
           \/ Loads(o) \/ PageCloses(o) \/ \E k \in Sockets : Connects(o, k)
    PROVE  TypeInv'
<1>1. Bare(o) \in BrowserHosts
  BY OriginFacts
<1>2. CASE \E p \in Procs : OpensUrl(p, o)
  <2>1. PICK q \in Reached(o) :
          \E answer : jar' = IF answer.sets THEN [jar EXCEPT ![Bare(o)] = q] ELSE jar
    BY <1>2 DEF OpensUrl
  <2>2. redirected' = redirected \cup {o} /\ UNCHANGED <<processVars, pages, sockets>>
    BY <1>2 DEF OpensUrl
  <2>3. jar' \in [BrowserHosts -> Procs \cup {None}]
    BY <1>1, <2>1, ReachedFacts DEF TypeInv, TypeOK
  <2>4. QED
    BY <2>2, <2>3 DEF processVars, TypeInv, TypeOK, Attached, Refused
<1>3. CASE Loads(o)
  <2>1. /\ redirected' = redirected \ {o}
        /\ pages' \subseteq pages \cup {o}
        /\ sockets' \subseteq sockets
        /\ UNCHANGED <<processVars, jar>>
    BY <1>3 DEF Loads
  <2>2. QED
    BY <2>1 DEF processVars, TypeInv, TypeOK, Attached, Refused
<1>4. CASE PageCloses(o)
  <2>1. pages' \subseteq pages /\ sockets' \subseteq sockets
        /\ UNCHANGED <<processVars, jar, redirected>>
    BY <1>4 DEF PageCloses
  <2>2. QED
    BY <2>1 DEF processVars, TypeInv, TypeOK, Attached, Refused
<1>5. ASSUME NEW k \in Sockets, Connects(o, k) PROVE TypeInv'
  <2>1. PICK q \in Reached(o) :
          sockets' = sockets \cup {[page |-> o, proc |-> q, kind |-> k]}
    BY <1>5 DEF Connects
  <2>2. UNCHANGED <<processVars, browserVars>>
    BY <1>5 DEF Connects
  <2>3. q \in Procs /\ proc[q] = "serving" /\ bound[q].port = o.port
    BY ReachedFacts
  <2>4. [page |-> o, proc |-> q, kind |-> k] \in [page : Origins, proc : Procs, kind : Sockets]
    BY <2>3
  <2>5. TypeOK'
    BY <2>1, <2>2, <2>4 DEF processVars, browserVars, TypeInv, TypeOK
  <2>6. Attached' /\ Refused'
    BY <2>1, <2>2, <2>3 DEF processVars, TypeInv, Attached, Refused
  <2>7. QED
    BY <2>5, <2>6 DEF TypeInv
<1>6. QED
  BY <1>2, <1>3, <1>4, <1>5

LEMMA StopsType ==
    ASSUME TypeInv,
           \/ \E p \in Procs : Signalled(p) \/ ServeReturns(p)
           \/ \E s \in sockets : SocketCloses(s)
    PROVE  TypeInv'
<1>1. ASSUME NEW p \in Procs, Signalled(p) PROVE TypeInv'
  <2>1. /\ proc[p] = "serving" /\ proc' = [proc EXCEPT ![p] = "stopping"]
        /\ UNCHANGED <<exitCode, bound, noAuth, browserVars, sockets>>
    BY <1>1 DEF Signalled
  <2>2. \A q \in Procs : /\ q # p => proc'[q] = proc[q]
                         /\ q = p => proc'[q] = "stopping"
    BY <2>1 DEF TypeInv, TypeOK
  <2>3. TypeOK'
    BY <2>1, <2>2 DEF browserVars, TypeInv, TypeOK
  <2>4. Attached' /\ Refused'
    BY <2>1, <2>2 DEF TypeInv, TypeOK, Attached, Refused
  <2>5. QED
    BY <2>3, <2>4 DEF TypeInv
<1>2. ASSUME NEW p \in Procs, ServeReturns(p) PROVE TypeInv'
  <2>1. /\ proc[p] = "stopping" /\ proc' = [proc EXCEPT ![p] = "exited"]
        /\ sockets' = {s \in sockets : s.proc # p}
        /\ UNCHANGED <<exitCode, bound, noAuth, browserVars>>
    BY <1>2 DEF ServeReturns
  <2>2. \A q \in Procs : /\ q # p => proc'[q] = proc[q]
                         /\ q = p => proc'[q] = "exited"
    BY <2>1 DEF TypeInv, TypeOK
  <2>3. TypeOK'
    BY <2>1, <2>2 DEF browserVars, TypeInv, TypeOK
  <2>4. Attached' /\ Refused'
    BY <2>1, <2>2 DEF TypeInv, TypeOK, Attached, Refused
  <2>5. QED
    BY <2>3, <2>4 DEF TypeInv
<1>3. CASE \E s \in sockets : SocketCloses(s)
  <2>1. sockets' \subseteq sockets /\ UNCHANGED <<processVars, browserVars>>
    BY <1>3 DEF SocketCloses
  <2>2. QED
    BY <2>1 DEF processVars, browserVars, TypeInv, TypeOK, Attached, Refused
<1>4. QED
  BY <1>1, <1>2, <1>3

LEMMA TypeStep == TypeInv /\ [Next]_vars => TypeInv'
<1> SUFFICES ASSUME TypeInv, [Next]_vars PROVE TypeInv'
  OBVIOUS
<1>1. CASE UNCHANGED vars
  BY <1>1 DEF vars, TypeInv, TypeOK, Attached, Refused
<1>2. CASE Next
  BY <1>2, StartsType, BrowserType, StopsType DEF Next
<1>3. QED
  BY <1>1, <1>2

LEMMA TypeAlways == Spec => []TypeInv
<1>1. QED
  BY TypeInit, TypeStep, PTL DEF Spec

(* Every variable keeps to its type, and a process has an address exactly     *)
(* when it has started.                                                     *)
THEOREM TypeCorrect == Spec => []TypeOK
<1>1. TypeInv => TypeOK
  BY DEF TypeInv
<1>2. QED
  BY <1>1, TypeAlways, PTL

(***************************************************************************)
(* Sockets and pages.                                                      *)
(***************************************************************************)
LEMMA GetFacts ==
    ASSUME NEW o, NEW path, NEW q
    PROVE  /\ Get(o, path, q).host = o /\ Get(o, path, q).path = path
           /\ Get(o, path, q).method = "GET" /\ Get(o, path, q).query = q
           /\ Get(o, path, q).cookies = BrowserCookies(Bare(o))
BY DEF Get

LEMMA ConnectingFacts ==
    ASSUME NEW o, NEW path
    PROVE  /\ Connecting(o, path).host = o /\ Connecting(o, path).path = path
           /\ Connecting(o, path).method = "GET" /\ Connecting(o, path).upgrade
           /\ Connecting(o, path).origin = o
           /\ Connecting(o, path).cookies = BrowserCookies(Bare(o))
BY DEF Get, Connecting

(* A socket is held by a page of the very host and port it is connected to,   *)
(* and no other page's request for one is granted, whatever cookies the       *)
(* browser sends with it (auth.rs:174).                                      *)
THEOREM SocketsCorrect == Spec => []SocketsAreOwn
<1>1. TypeInv => SocketsAreOwn
  <2> SUFFICES ASSUME TypeInv PROVE SocketsAreOwn
    OBVIOUS
  <2>1. \A s \in sockets : s.page.port = bound[s.proc].port
    BY DEF TypeInv, Attached
  <2>2. ASSUME NEW p \in Procs, NEW page \in Origins, NEW o \in Origins, NEW k \in Sockets, o # page
        PROVE  Answers(p, [Connecting(page, k) EXCEPT !.origin = o]).status # 101
    <3> DEFINE req == [Connecting(page, k) EXCEPT !.origin = o]
    <3>1. req.host = page /\ req.origin = o
      BY DEF Get, Connecting
    <3> HIDE DEF req
    <3>2. ~CheckOrigin(req)
      BY <2>2, <3>1, OriginDecides
    <3>3. QED
      BY <3>2, UpgradeChecked DEF Answers, req
  <2>3. QED
    BY <2>1, <2>2 DEF SocketsAreOwn
<1>2. QED
  BY <1>1, TypeAlways, PTL

(* The browser's own cookie decides, after that of another service. *)
LEMMA CookieSent ==
    ASSUME NEW h, NEW p \in Procs, jar[h] = p PROVE CheckCookie(BrowserCookies(h), p)
<1> DEFINE c == BrowserCookies(h)
<1>1. p # None
  BY ServerAssumption
<1>2. c = <<Cookie("other", None), Cookie(CookieName, p)>>
  BY <1>1 DEF BrowserCookies
<1>3. DOMAIN c = {1, 2} /\ c[1] = Cookie("other", None) /\ c[2] = Cookie(CookieName, p)
  BY <1>2
<1> HIDE DEF c
<1>4. c[1].name # CookieName
  BY <1>3 DEF Cookie, CookieName
<1>5. \A k \in 1..2 - 1 : k = 1
  OBVIOUS
<1>6. QED
  BY <1>3, <1>4, <1>5 DEF CheckCookie, c

(* A page whose host has this process's cookie is served whatever it asks     *)
(* for, its sockets too when its address is not IPv6 (auth.rs:13): of those    *)
(* of an IPv6 page nothing is claimed, UpgradesWork is violated by them.       *)
THEOREM PagesCorrect == Spec => []PagesWork
<1>1. TypeInv => PagesWork
  <2> SUFFICES ASSUME TypeInv, NEW p \in Procs, NEW o \in pages, p \in Reached(o),
                      noAuth[p] \/ jar[Bare(o)] = p
               PROVE  /\ \A path \in {"/", "/assets/main.js"} :
                            Answers(p, Get(o, path, <<>>)).status = 200
                      /\ o.kind # "v6" => \A k \in Sockets :
                            Answers(p, Connecting(o, k)).status = 101
    BY DEF PagesWork, HasCookie
  <2>1. o \in Origins /\ CheckHost(o)
    BY OriginFacts DEF TypeInv, TypeOK
  <2>2. noAuth[p] \/ CheckCookie(BrowserCookies(Bare(o)), p)
    BY CookieSent
  <2>3. ASSUME NEW req, req.host = o, req.cookies = BrowserCookies(Bare(o))
        PROVE  Answers(p, req) = Route(p, noAuth[p], req)
    BY <2>1, <2>2, <2>3, RespondArms DEF Answers
  <2>4. Plain(200).status = 200 /\ Plain(101).status = 101
    BY DEF Plain, Answer
  <2>5. ASSUME NEW path \in {"/", "/assets/main.js"}
        PROVE  Answers(p, Get(o, path, <<>>)).status = 200
    <3> DEFINE req == Get(o, path, <<>>)
    <3>1. /\ req.host = o /\ req.path = path /\ req.method = "GET" /\ req.query = <<>>
          /\ req.cookies = BrowserCookies(Bare(o))
      BY GetFacts
    <3> HIDE DEF req
    <3>2. Answers(p, req) = Route(p, noAuth[p], req)
      BY <2>3, <3>1
    <3>3. CASE path = "/"
      <4>1. Route(p, noAuth[p], req) = Root(p, noAuth[p], req)
        BY <3>1, <3>3, RouteArms
      <4>2. DOMAIN req.query = {}
        BY <3>1
      <4>3. Root(p, noAuth[p], req) = Plain(200)
        BY <4>2, RootFacts
      <4>4. QED
        BY <2>4, <3>2, <4>1, <4>3 DEF req
    <3>4. CASE path = "/assets/main.js"
      <4>1. Route(p, noAuth[p], req) = Plain(200)
        BY <3>1, <3>4, RouteArms
      <4>2. QED
        BY <2>4, <3>2, <4>1 DEF req
    <3>5. QED
      BY <3>3, <3>4
  <2>6. ASSUME NEW k \in Sockets, o.kind # "v6"
        PROVE  Answers(p, Connecting(o, k)).status = 101
    <3> DEFINE req == Connecting(o, k)
    <3>1. /\ req.host = o /\ req.path = k /\ req.method = "GET" /\ req.upgrade
          /\ req.origin = o /\ req.cookies = BrowserCookies(Bare(o))
      BY ConnectingFacts
    <3> HIDE DEF req
    <3>2. Answers(p, req) = Route(p, noAuth[p], req)
      BY <2>3, <3>1
    <3>3. Route(p, noAuth[p], req) = Upgrade(req)
      BY <3>1, RouteArms
    <3>4. CheckOrigin(req)
      BY <2>1, <2>6, <3>1, OriginDecides
    <3>5. Upgrade(req) = Plain(101)
      BY <3>1, <3>4, UpgradeArms
    <3>6. QED
      BY <2>4, <3>2, <3>3, <3>5 DEF req
  <2>7. QED
    BY <2>5, <2>6
<1>2. QED
  BY <1>1, TypeAlways, PTL

(***************************************************************************)
(* The requests of other programs.                                         *)
(***************************************************************************)
LEMMA AskingFacts ==
    ASSUME NEW m, NEW path, NEW q, NEW h, NEW c
    PROVE  /\ Asking(m, path, q, h, c).method = m /\ Asking(m, path, q, h, c).path = path
           /\ Asking(m, path, q, h, c).query = q /\ Asking(m, path, q, h, c).host = h
           /\ Asking(m, path, q, h, c).cookies = c
BY DEF Asking

LEMMA QueryPieces == ASSUME NEW q \in Queries PROVE \A i \in DOMAIN q : q[i].key = "t"
<1>1. \A b, v : Piece(b, "t", v).key = "t"
  BY DEF Piece
<1>2. CASE q = <<>>
  BY <1>2
<1>3. CASE q \in OneKey
  <2>1. PICK b \in BOOLEAN, v \in Tokens : q = <<Piece(b, "t", v)>>
    BY <1>3 DEF OneKey
  <2> DEFINE x == Piece(b, "t", v)
  <2>2. x.key = "t"
    BY <1>1
  <2> HIDE DEF x
  <2>3. DOMAIN <<x>> = {1} /\ <<x>>[1] = x
    OBVIOUS
  <2>4. QED
    BY <2>1, <2>2, <2>3 DEF x
<1>4. CASE q \in TwoKeys
  <2>1. PICK v \in Tokens \X Tokens : q = <<Piece(TRUE, "t", v[1]), Piece(FALSE, "t", v[2])>>
    BY <1>4 DEF TwoKeys
  <2> DEFINE x == Piece(TRUE, "t", v[1])
             y == Piece(FALSE, "t", v[2])
  <2>2. x.key = "t" /\ y.key = "t"
    BY DEF Piece
  <2> HIDE DEF x, y
  <2>3. DOMAIN <<x, y>> = {1, 2} /\ <<x, y>>[1] = x /\ <<x, y>>[2] = y
    OBVIOUS
  <2>4. q = <<x, y>>
    BY <2>1 DEF x, y
  <2>5. QED
    BY <2>2, <2>3, <2>4
<1>5. QED
  BY <1>2, <1>3, <1>4 DEF Queries

(* What a process that asks for authentication shows to a request without    *)
(* its own token: nothing, and no cookie (auth.rs:17).                        *)
THEOREM TokenCorrect == Spec => []TokenIsNeeded
<1>1. TypeInv => TokenIsNeeded
  <2> SUFFICES ASSUME TypeInv, NEW p \in Procs, ~noAuth[p],
                      NEW m \in {"GET", "HEAD"}, NEW path \in {"/", "/debug/state"},
                      NEW q \in Queries, NEW c \in Headers,
                      ~Carries(Asking(m, path, q, Named("localhost", bound[p].port), c), p)
               PROVE  LET answer == Answers(p, Asking(m, path, q,
                                                      Named("localhost", bound[p].port), c))
                      IN  answer.status # 200 /\ ~answer.sets
    BY DEF TokenIsNeeded
  <2> DEFINE req == Asking(m, path, q, Named("localhost", bound[p].port), c)
  <2>1. req.query = q
    BY AskingFacts
  <2> HIDE DEF req
  <2>2. PiecesAsWritten(req)
    BY <2>1, QueryPieces DEF PiecesAsWritten
  <2>3. Answers(p, req) \in {Plain(400), Plain(401), Plain(403)}
    BY <2>2, TokenDecides DEF Answers, req
  <2>4. Answers(p, req).status \in {400, 401, 403}
    BY <2>3, PlainFacts
  <2>5. ~Answers(p, req).sets
    BY <2>3, PlainFacts
  <2>6. QED
    BY <2>4, <2>5 DEF req
<1>2. QED
  BY <1>1, TypeAlways, PTL

(* The parser takes a part for its byte exactly when the parts are in range. *)
LEMMA ParsedFacts ==
    ASSUME NEW n PROVE (Parsed(n) = Parsed(127) <=> n = 127) /\ NotParsed # Parsed(127)
BY DEF Parsed, NotParsed

LEMMA ParseIpRange ==
    ASSUME NEW parts \in Seq(Nat), Len(parts) \in 1..4
    PROVE  ParseIp(parts) = Parsed(127)
           <=> /\ InRange(parts)
               /\ (IF Len(parts) = 1 THEN parts[1] \div Below[2] ELSE parts[1]) = 127
<1>1. DOMAIN parts = 1..Len(parts)
  OBVIOUS
<1>2. Below[4] = Byte /\ 4 \in 2..4
  BY DEF Below
<1>3. CASE Len(parts) = 1
  BY <1>3, ParseIpArms, ParsedFacts DEF InRange
<1>4. CASE Len(parts) = 2
  <2>1. DOMAIN parts = {1, 2}
    BY <1>1, <1>4
  <2>2. InRange(parts) <=> parts[1] < Byte /\ parts[2] < Below[2]
    BY <1>4, <2>1 DEF InRange
  <2>3. QED
    BY <1>4, <2>2, ParseIpArms, ParsedFacts
<1>5. CASE Len(parts) = 3
  <2>1. DOMAIN parts = {1, 2, 3}
    BY <1>1, <1>5
  <2>2. InRange(parts) <=> parts[1] < Byte /\ parts[2] < Byte /\ parts[3] < Below[3]
    BY <1>5, <2>1 DEF InRange
  <2>3. QED
    BY <1>5, <2>2, ParseIpArms, ParsedFacts
<1>6. CASE Len(parts) = 4
  <2>1. DOMAIN parts = 1..4
    BY <1>1, <1>6
  <2>2. InRange(parts) <=> \A i \in 1..4 : parts[i] < Byte
    BY <1>2, <1>6, <2>1 DEF InRange
  <2>3. QED
    BY <1>6, <2>2, ParseIpArms, ParsedFacts
<1>7. QED
  BY <1>3, <1>4, <1>5, <1>6

(* For every host another program may name, the two kinds apart of which       *)
(* HostsAreLoopback claims soundness only.                                    *)
LEMMA HostsDecided ==
    ASSUME NEW h \in ToolHosts
    PROVE  /\ CheckHost(h) => DenotesLoopback(h)
           /\ DenotesLoopback(h) /\ ~Unclaimed(h) => CheckHost(h)
<1>1. /\ h.kind \in {"name", "v4", "v6", "none"} /\ h.parts \in Seq(Nat)
      /\ h.kind = "v4" => Len(h.parts) \in 1..4
  BY HostsAssumption, HostForm
<1>2. CASE h.kind = "name"
  BY <1>2, CheckHostArms DEF DenotesLoopback
<1>3. CASE h.kind = "v6"
  BY <1>3, CheckHostArms DEF DenotesLoopback, Unclaimed
<1>4. CASE h.kind = "none"
  BY <1>4, CheckHostArms DEF DenotesLoopback
<1>5. CASE h.kind = "v4"
  <2>1. /\ CheckHost(h) => ParseIp(h.parts) = Parsed(127)
        /\ ParseIp(h.parts) = Parsed(127) /\ ~Unclaimed(h) => CheckHost(h)
    BY <1>5, CheckHostArms, Zenon DEF Unclaimed
  <2>2. DenotesLoopback(h) <=>
            /\ InRange(h.parts)
            /\ (IF Len(h.parts) = 1 THEN h.parts[1] \div Below[2] ELSE h.parts[1]) = 127
    BY <1>5 DEF DenotesLoopback
  <2>3. QED
    BY <1>1, <1>5, <2>1, <2>2, ParseIpRange
<1>6. QED
  BY <1>1, <1>2, <1>3, <1>4, <1>5

(* The page at a host is served exactly when the host passes the check.       *)
LEMMA HostAnswer ==
    ASSUME NEW p \in Procs, NEW h \in ToolHosts
    PROVE  Answers(p, PageAt(p, h)).status = 200 <=> CheckHost(h)
<1> DEFINE c == <<Cookie(CookieName, p)>>
           o == At(h, bound[p].port)
           req == Asking("GET", "/", <<>>, o, c)
<1>1. /\ req.method = "GET" /\ req.path = "/" /\ req.query = <<>> /\ req.host = o
      /\ req.cookies = c
  BY AskingFacts
<1>2. CheckCookie(c, p)
  <2>1. DOMAIN c = {1} /\ c[1] = Cookie(CookieName, p)
    OBVIOUS
  <2> HIDE DEF c
  <2>2. 1..1 - 1 = {}
    OBVIOUS
  <2>3. QED
    BY <2>1, <2>2 DEF CheckCookie
<1>3. CheckHost(o) <=> CheckHost(h)
  BY HostsAssumption, CheckHostAt
<1> HIDE DEF req, o, c
<1>4. CASE CheckHost(o)
  <2>1. Answers(p, req) = Route(p, noAuth[p], req)
    BY <1>1, <1>2, <1>4, RespondArms DEF Answers
  <2>2. Route(p, noAuth[p], req) = Root(p, noAuth[p], req)
    BY <1>1, RouteArms
  <2>3. DOMAIN req.query = {}
    BY <1>1
  <2>4. Root(p, noAuth[p], req) = Plain(200)
    BY <2>3, RootFacts
  <2>5. Answers(p, req).status = 200
    BY <2>1, <2>2, <2>4 DEF Plain, Answer
  <2>6. QED
    BY <1>3, <1>4, <2>5 DEF req, o, c, PageAt
<1>5. CASE ~CheckHost(o)
  <2>1. Answers(p, req) = Plain(403)
    BY <1>1, <1>5, RespondArms DEF Answers
  <2>2. Answers(p, req).status = 403
    BY <2>1, PlainFacts
  <2>3. QED
    BY <1>3, <1>5, <2>2 DEF req, o, c, PageAt
<1>6. QED
  BY <1>4, <1>5

(* The Host check passes no host that does not denote a loopback address,     *)
(* whatever names and numbers are asked for and however they are written, and *)
(* it passes every one that does, but for four parts with one in hex or octal  *)
(* and for IPv6 addresses other than ::1 (auth.rs:210, auth.rs:247).           *)
THEOREM HostsCorrect == Spec => []HostsAreLoopback
<1>1. HostsAreLoopback
  BY HostAnswer, HostsDecided DEF HostsAreLoopback
<1>2. QED
  BY <1>1, PTL
================================================================================
