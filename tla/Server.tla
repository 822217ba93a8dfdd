--------------------------------- MODULE Server --------------------------------
(***************************************************************************)
(* The process and its clients: start-up (src/main.rs, src/cli.rs,            *)
(* src/tmux/version.rs), serving (src/server.rs, with Requests for what is     *)
(* answered), shutdown and restart.  Several processes may run or have run on  *)
(* one machine, as a second tmonks for another tmux socket or one started      *)
(* again.  External: tmux -V, the ports, and the browser, whose cookies are    *)
(* kept by host and not by port, and whose pages outlive the process that      *)
(* served them.                                                             *)
(*                                                                         *)
(* No handler awaits between the checks and its answer, so a request is one    *)
(* step.                                                                    *)
(***************************************************************************)
EXTENDS Requests, FiniteSets

CONSTANTS
    Procs,         \* processes; each has a token of its own
    Ports,         \* ports of the machine, 80 not among them
    BrowserHosts,  \* hosts, without port, by which the browser reaches them
    Args,          \* command lines
    Versions,      \* what tmux -V may print
    ToolHosts,     \* Host headers other programs may send, without port
    MaxPages       \* bound: pages open in the browser, and sockets they hold

VARIABLES
    proc,      \* each process: "none", "serving", "stopping" or "exited"
    exitCode,  \* of a process that refused to start; 0 otherwise
    bound,     \* AppState.bound_addr, NoHost before there is one
    noAuth,    \* AppState.no_auth
    jar,       \* the browser: the process whose token its cookie of a host is
    redirected,\* the browser: redirects after a handshake, not yet followed
    pages,     \* the browser: pages by origin
    sockets    \* upgraded connections: the page, the process and the kind

vars == <<proc, exitCode, bound, noAuth, jar, redirected, pages, sockets>>
processVars == <<proc, exitCode, bound, noAuth>>
browserVars == <<jar, redirected, pages>>

(* An origin: a host with the port in it. *)
At(host, p) == [host EXCEPT !.port = p]
Origins == {At(h, n) : h \in BrowserHosts, n \in Ports}
Bare(origin) == [origin EXCEPT !.port = 0]

ASSUME ServerAssumption ==
    /\ None \notin Procs
    /\ Ports \subseteq Nat \ {0, 80}
    /\ MaxPages \in Nat

(* A browser writes a loopback host in its plain form; --bind takes an       *)
(* address, which the browser then knows too.                              *)
HostsOf(S) ==
    [kind : {"name", "v4", "v6", "none"}, name : {h.name : h \in S}, parts : Seq(Nat),
     legacy : BOOLEAN, dot : BOOLEAN, port : {0}]
ASSUME HostsAssumption ==
    /\ BrowserHosts \subseteq HostsOf(BrowserHosts) /\ ToolHosts \subseteq HostsOf(ToolHosts)
    /\ \A h \in BrowserHosts : CheckHost(h) /\ ~h.legacy /\ ~h.dot
    /\ \A a \in Args : /\ a.bind.kind \in {"v4", "v6"} /\ a.noAuth \in BOOLEAN
                       /\ CheckHost(a.bind) => a.bind \in BrowserHosts
    /\ \A h \in ToolHosts : h.kind = "v4" => Len(h.parts) \in 1..4

TypeOK ==
    /\ proc \in [Procs -> {"none", "serving", "stopping", "exited"}]
    /\ exitCode \in [Procs -> 0..2]
    /\ bound \in [Procs -> Origins \cup {NoHost}]
    /\ noAuth \in [Procs -> BOOLEAN]
    /\ jar \in [BrowserHosts -> Procs \cup {None}]
    /\ redirected \subseteq Origins /\ pages \subseteq Origins
    /\ sockets \subseteq [page : Origins, proc : Procs, kind : Sockets]
    /\ \A p \in Procs : bound[p] = NoHost <=> proc[p] = "none" \/ exitCode[p] # 0

Init ==
    /\ proc = [p \in Procs |-> "none"]
    /\ exitCode = [p \in Procs |-> 0]
    /\ bound = [p \in Procs |-> NoHost]
    /\ noAuth = [p \in Procs |-> FALSE]
    /\ jar = [h \in BrowserHosts |-> None]
    /\ redirected = {} /\ pages = {} /\ sockets = {}

(* The processes a browser may find at an origin: a name is resolved to      *)
(* either loopback address.                                                *)
Reached(origin) ==
    {p \in Procs :
        /\ proc[p] = "serving"
        /\ \/ bound[p] = origin
           \/ origin.kind = "name" /\ bound[p].port = origin.port}

(***************************************************************************)
(* Start-up: Cli::validate, the probe of tmux, bind.                        *)
(***************************************************************************)
Validates(a) ==
    /\ CheckHost(a.bind)      \* is_loopback(), of an address in its plain form
    /\ a.noAuth => a.confirmed
    /\ a.socket \in {"none", "valid"}

(* version::parse and satisfies_min: at least 3.4, a master build passes. *)
VersionPasses(v) ==
    \/ v.master
    \/ /\ v.parses
       /\ v.major > 3 \/ (v.major = 3 /\ v.minor >= 4)

(* Mutant: the port is the one asked for, 0 for any. *)
BoundAsAsked(asked, got) == asked

(* bound_addr is read back from the listener. *)
Bound(asked, got) == got

(* A port of 0 takes any free one; a port that is taken is an error of bind. *)
Starts(p) ==
    /\ proc[p] = "none"
    /\ \E a \in Args, v \in Versions, n \in Ports :
          /\ a.port \in {0, n}
          /\ IF Validates(a) /\ VersionPasses(v) /\ Reached(At(a.bind, n)) = {}
             THEN /\ proc' = [proc EXCEPT ![p] = "serving"]
                  /\ bound' = [bound EXCEPT ![p] = At(a.bind, Bound(a.port, n))]
                  /\ noAuth' = [noAuth EXCEPT ![p] = a.noAuth]
                  /\ UNCHANGED exitCode
             ELSE /\ a.port = n \/ ~Validates(a) \/ ~VersionPasses(v)
                  /\ proc' = [proc EXCEPT ![p] = "exited"]
                  /\ exitCode' = [exitCode EXCEPT ![p] = IF Validates(a) THEN 1 ELSE 2]
                  /\ UNCHANGED <<bound, noAuth>>
    /\ UNCHANGED <<browserVars, sockets>>

(***************************************************************************)
(* The browser's requests.  It sends the cookie it has for the host, after    *)
(* one of another service.                                                  *)
(***************************************************************************)
BrowserCookies(h) ==
    IF jar[h] = None THEN <<Cookie("other", None)>>
    ELSE <<Cookie("other", None), Cookie(CookieName, jar[h])>>

Get(origin, path, query) ==
    [method |-> "GET", path |-> path, query |-> query, host |-> origin,
     cookies |-> BrowserCookies(Bare(origin)), upgrade |-> FALSE, origin |-> NoHost]
Connecting(origin, path) ==
    [Get(origin, path, <<>>) EXCEPT !.upgrade = TRUE, !.origin = origin]

Answers(p, req) == Respond(p, noAuth[p], req)

(* The URL a process printed, or one with localhost for the address, opened   *)
(* while it serves or after another has taken its port.                      *)
OpensUrl(p, origin) ==
    /\ proc[p] # "none" /\ bound[p] # NoHost
    /\ origin = bound[p] \/ (origin.kind = "name" /\ origin.port = bound[p].port)
    /\ \E q \in Reached(origin) :
          LET answer == Answers(q, Get(origin, "/", <<Piece(TRUE, "t", p)>>))
          IN  /\ answer.status = 302
              /\ jar' = IF answer.sets THEN [jar EXCEPT ![Bare(origin)] = q] ELSE jar
    /\ redirected' = redirected \cup {origin}
    /\ Cardinality(redirected' \cup pages) <= MaxPages
    /\ UNCHANGED <<processVars, pages, sockets>>

(* "/" is loaded, after the redirect or by hand: a page when it is answered  *)
(* so, an error otherwise.                                                 *)
Loads(origin) ==
    /\ origin \in redirected \/ origin \in pages
    /\ redirected' = redirected \ {origin}
    /\ \E q \in Reached(origin) :
          pages' = IF Answers(q, Get(origin, "/", <<>>)).status = 200
                   THEN pages \cup {origin} ELSE pages \ {origin}
    /\ Cardinality(pages') <= MaxPages
    /\ sockets' = {s \in sockets : s.page # origin}
    /\ UNCHANGED <<processVars, jar>>

Connects(origin, kind) ==
    /\ origin \in pages
    /\ \E q \in Reached(origin) :
          /\ Answers(q, Connecting(origin, kind)).status = 101
          /\ sockets' = sockets \cup {[page |-> origin, proc |-> q, kind |-> kind]}
    /\ Cardinality(sockets') <= MaxPages
    /\ UNCHANGED <<processVars, browserVars>>

PageCloses(origin) ==
    /\ origin \in pages
    /\ pages' = pages \ {origin}
    /\ sockets' = {s \in sockets : s.page # origin}
    /\ UNCHANGED <<processVars, jar, redirected>>

(***************************************************************************)
(* Shutdown: the signal cancels the token and axum stops to accept.  The     *)
(* tasks of upgraded connections see the token and close, but nothing waits   *)
(* for them: serve() returns, and the runtime drops what is left.  For a plain *)
(* request that is not yet answered axum does wait; here none takes time.      *)
(***************************************************************************)
Signalled(p) ==
    /\ proc[p] = "serving"
    /\ proc' = [proc EXCEPT ![p] = "stopping"]
    /\ UNCHANGED <<exitCode, bound, noAuth, browserVars, sockets>>

SocketCloses(s) ==
    /\ s \in sockets /\ proc[s.proc] = "stopping"
    /\ sockets' = sockets \ {s}
    /\ UNCHANGED <<processVars, browserVars>>

ServeReturns(p) ==
    /\ proc[p] = "stopping"
    /\ proc' = [proc EXCEPT ![p] = "exited"]
    /\ sockets' = {s \in sockets : s.proc # p}
    /\ UNCHANGED <<exitCode, bound, noAuth, browserVars>>

Next ==
    \/ \E p \in Procs : Starts(p) \/ Signalled(p) \/ ServeReturns(p)
    \/ \E o \in Origins :
          \/ \E p \in Procs : OpensUrl(p, o)
          \/ Loads(o) \/ PageCloses(o)
          \/ \E k \in Sockets : Connects(o, k)
    \/ \E s \in sockets : SocketCloses(s)

Spec == Init /\ [][Next]_vars

--------------------------------------------------------------------------------
(***************************************************************************)
(* The requests of other programs: with and without what looks like the        *)
(* handshake, with cookies of one or two processes, with any Host.            *)
(***************************************************************************)
Tokens  == Procs \cup {None}
OneKey  == {<<Piece(b, "t", v)>> : b \in BOOLEAN, v \in Tokens}
TwoKeys == {<<Piece(TRUE, "t", v[1]), Piece(FALSE, "t", v[2])>> : v \in Tokens \X Tokens}
Queries == {<<>>} \cup OneKey \cup TwoKeys
Headers ==
    {<<>>} \cup {<<Cookie(n, v), Cookie(CookieName, w)>> :
                    n \in {"other", CookieName}, v, w \in Tokens}

Asking(method, path, query, host, cookies) ==
    [method |-> method, path |-> path, query |-> query, host |-> host,
     cookies |-> cookies, upgrade |-> FALSE, origin |-> NoHost]

(* A process that asks for authentication shows nothing to a request that    *)
(* does not carry its own token, and gives no cookie away: neither the        *)
(* exemption of the handshake, nor the token or the cookie of a process that   *)
(* had the port before, nor an escaped or repeated key is a way round         *)
(* (auth.rs:17 "The query string is the only way to obtain the cookie").      *)
Carries(req, p) ==
    \/ \E i \in DOMAIN req.query : req.query[i].value = p
    \/ \E i \in DOMAIN req.cookies : req.cookies[i].value = p
TokenIsNeeded ==
    \A p \in Procs : proc[p] = "serving" /\ ~noAuth[p] =>
        \A m \in {"GET", "HEAD"}, path \in {"/", "/debug/state"}, q \in Queries, c \in Headers :
            LET req == Asking(m, path, q, Named("localhost", bound[p].port), c)
                answer == Answers(p, req)
            IN  ~Carries(req, p) => answer.status # 200 /\ ~answer.sets

(* What a Host header denotes, by inet_aton and RFC 4291, with every part in  *)
(* the range its place leaves it; one part may be any 32-bit number.         *)
InRange(parts) ==
    Len(parts) = 1 \/ \A i \in DOMAIN parts :
        parts[i] < IF i = Len(parts) THEN Below[i] ELSE Byte
DenotesLoopback(h) ==
    \/ h.kind = "name" /\ h.name = "localhost"
    \/ h.kind = "v6" /\ h.name \in {"::1", "::ffff:127.0.0.1"}
    \/ /\ h.kind = "v4" /\ InRange(h.parts)
       /\ (IF Len(h.parts) = 1 THEN h.parts[1] \div Below[2] ELSE h.parts[1]) = 127

(* A host passes the check only if it denotes a loopback address, however it  *)
(* is written (auth.rs:245), and one that does passes.  For two kinds of host  *)
(* the second is not claimed: four parts of which one is in hex or octal, and  *)
(* an IPv6 address other than ::1, such as an IPv4-mapped one.  The list at    *)
(* auth.rs:236 has one of each, 0177.0.0.1 and ::ffff:127.0.0.1.              *)
Unclaimed(h) == (h.legacy /\ Len(h.parts) = 4) \/ (h.kind = "v6" /\ h.name # "::1")
PageAt(p, h) == Asking("GET", "/", <<>>, At(h, bound[p].port), <<Cookie(CookieName, p)>>)
HostsAreLoopback ==
    \A p \in Procs, h \in ToolHosts : proc[p] = "serving" =>
        /\ Answers(p, PageAt(p, h)).status = 200 => DenotesLoopback(h)
        /\ DenotesLoopback(h) /\ ~Unclaimed(h) => Answers(p, PageAt(p, h)).status = 200

(* A socket is held by a page of the very host and port it is connected to,   *)
(* though the browser sends the cookie from every port of the host             *)
(* (auth.rs:174); the page of another service is refused, cookie or not.      *)
SocketsAreOwn ==
    /\ \A s \in sockets : s.page.port = bound[s.proc].port
    /\ \A p \in Procs, page \in Origins, o \in Origins, k \in Sockets :
          /\ proc[p] = "serving" /\ page.port = bound[p].port
          /\ o # page
          => Answers(p, [Connecting(page, k) EXCEPT !.origin = o]).status # 101

(* A page whose host still has this process's cookie gets all it asks for:    *)
(* itself, its assets and both sockets, whatever other cookies there are      *)
(* (auth.rs:13 "for the rest of the session").  The cookie goes only with the *)
(* handshake of another process on the same host.  Of the sockets of a page    *)
(* whose address is IPv6 nothing is said here: see UpgradesWork.               *)
HasCookie(p, o) == p \in Reached(o) /\ (noAuth[p] \/ jar[Bare(o)] = p)
PagesWork ==
    \A p \in Procs, o \in pages : HasCookie(p, o) =>
        /\ \A path \in {"/", "/assets/main.js"} : Answers(p, Get(o, path, <<>>)).status = 200
        /\ o.kind # "v6" => \A k \in Sockets : Answers(p, Connecting(o, k)).status = 101

(* Both sockets are opened to a page with the cookie whatever its address,    *)
(* --bind ::1 (cli.rs:126) included: its Origin exact-matches the request's    *)
(* Host, host and port (auth.rs:174, README.md:82).                           *)
UpgradesWork ==
    \A p \in Procs, o \in pages : HasCookie(p, o) =>
        \A k \in Sockets : Answers(p, Connecting(o, k)).status = 101

================================================================================
