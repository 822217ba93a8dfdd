-------------------------------- MODULE Requests -------------------------------
(***************************************************************************)
(* What the server answers to a request (src/auth.rs, the router of          *)
(* src/server.rs, the upgrade handlers of src/ws_dashboard.rs and            *)
(* src/ws_pane.rs), as operators on the request and on the part of AppState   *)
(* the handlers read: the process's token, which is the process itself, and   *)
(* no_auth.                                                                 *)
(*                                                                         *)
(* A request is a record:                                                   *)
(*   method, path                                                          *)
(*   query    its pieces: whether the text begins with "t=", the key that    *)
(*            Query decodes ("t" for an escaped t as well) and the value      *)
(*   host     the Host header, or NoHost                                     *)
(*   cookies  the pieces of the Cookie header                                *)
(*   upgrade, origin    a WebSocket upgrade, and its Origin or NoHost         *)
(***************************************************************************)
EXTENDS Naturals, Sequences

CONSTANT None

(***************************************************************************)
(* Hosts.  A host is a name, an IPv4 address by its parts as numbers, with    *)
(* legacy telling that one of them is written in hex or octal, or an IPv6     *)
(* address by its name; dot tells a trailing dot, port is 0 when there is     *)
(* none.                                                                    *)
(***************************************************************************)
Host(kind, name, parts, legacy, dot, port) ==
    [kind |-> kind, name |-> name, parts |-> parts, legacy |-> legacy, dot |-> dot,
     port |-> port]
V4(parts, port)  == Host("v4", None, parts, FALSE, FALSE, port)
V6(name, port)   == Host("v6", name, <<>>, FALSE, FALSE, port)
Named(n, port)   == Host("name", n, <<>>, FALSE, FALSE, port)
NoHost           == Host("none", None, <<>>, FALSE, FALSE, 0)

Byte == 256
\* The last of so many parts is below this; a single one is any 32-bit number.
Below == [n \in 2..4 |-> CASE n = 2 -> 16777216 [] n = 3 -> 65536 [] OTHER -> Byte]
Parsed(high) == [ok |-> TRUE, high |-> high]    \* the address's first byte
NotParsed    == [ok |-> FALSE, high |-> 0]

(* Mutant: the parts are shifted into place whatever their size. *)
ParseIpUnbounded(parts) ==
    CASE Len(parts) = 1 -> Parsed(parts[1] \div Below[2])
      [] Len(parts) = 2 -> Parsed((parts[1] * Below[2] + parts[2]) \div Below[2])
      [] Len(parts) = 3 ->
            Parsed((parts[1] * Below[2] + parts[2] * Below[3] + parts[3]) \div Below[2])
      [] OTHER -> IF \A i \in 1..4 : parts[i] < Byte THEN Parsed(parts[1]) ELSE NotParsed

(* parse_ip_with_legacy_forms on the parts of an IPv4 address.  Four parts   *)
(* are left to the standard parser, which takes neither hex nor octal.       *)
ParseIp(parts) ==
    CASE Len(parts) = 1 -> Parsed(parts[1] \div Below[2])
      [] Len(parts) = 2 /\ parts[1] < Byte /\ parts[2] < Below[2] -> Parsed(parts[1])
      [] Len(parts) = 3 /\ parts[1] < Byte /\ parts[2] < Byte /\ parts[3] < Below[3] ->
            Parsed(parts[1])
      [] Len(parts) = 4 /\ \A i \in 1..4 : parts[i] < Byte -> Parsed(parts[1])
      [] OTHER -> NotParsed

(* check_host: is_loopback() of an IPv6 address is true of ::1 alone. *)
CheckHost(h) ==
    CASE h.kind = "name" -> h.name = "localhost"
      [] h.kind = "v4" -> /\ ~(h.legacy /\ Len(h.parts) = 4)
                          /\ ParseIp(h.parts) = Parsed(127)
      [] h.kind = "v6" -> h.name = "::1"
      [] OTHER -> FALSE

(* split_host_port; Url::port_or_known_default of an http origin. *)
PortOf(h) == IF h.port = 0 THEN 80 ELSE h.port

(* The host as each side spells it: split_host_port takes the brackets of an *)
(* IPv6 address off and check_origin_for_ws the dot; Url::host_str (external) *)
(* keeps both.                                                              *)
Spelled(h, bracketed) == [h |-> [h EXCEPT !.port = 0], bracketed |-> bracketed]
HostText(h)   == Spelled(IF h.dot THEN [h EXCEPT !.dot = FALSE] ELSE h, FALSE)
OriginText(h) == Spelled(h, h.kind = "v6")

(* Mutant: any port of the same host will do. *)
CheckOriginAnyPort(req) ==
    /\ req.host # NoHost /\ req.origin # NoHost
    /\ OriginText(req.origin) = HostText(req.host)

CheckOrigin(req) ==
    /\ req.host # NoHost /\ req.origin # NoHost
    /\ OriginText(req.origin) = HostText(req.host)
    /\ PortOf(req.origin) = PortOf(req.host)

(***************************************************************************)
(* Cookies, the handshake and the middleware.                               *)
(***************************************************************************)
Cookie(name, value) == [name |-> name, value |-> value]
CookieName == "tmonks_session"

(* Mutant: only the first cookie is looked at. *)
CheckCookieFirst(cookies, token) ==
    cookies # <<>> /\ cookies[1] = Cookie(CookieName, token)

(* check_cookie: the first piece of the name decides. *)
CheckCookie(cookies, token) ==
    \E i \in DOMAIN cookies :
        /\ cookies[i] = Cookie(CookieName, token)
        /\ \A k \in 1..i - 1 : cookies[k].name # CookieName

Piece(begins, key, value) == [begins |-> begins, key |-> key, value |-> value]

(* Mutant: the exemption is not tied to the path that checks the token. *)
IsHandshakeAnyPath(req) ==
    /\ req.method = "GET"
    /\ \E i \in DOMAIN req.query : req.query[i].begins

(* auth_middleware's exemption. *)
IsHandshake(req) ==
    /\ req.path = "/" /\ req.method = "GET"
    /\ \E i \in DOMAIN req.query : req.query[i].begins

Answer(status, sets) == [status |-> status, sets |-> sets]
Plain(status) == Answer(status, FALSE)

(* token_redirect: the one place that sets the cookie. *)
TokenRedirect(token, noAuth, provided) ==
    IF noAuth THEN Plain(302)
    ELSE IF provided = token THEN Answer(302, TRUE)
    ELSE Plain(401)

(***************************************************************************)
(* The router.  Extractors come before the handler: Query refuses a key that *)
(* occurs twice, WebSocketUpgrade a request that is no upgrade.             *)
(***************************************************************************)
Root(token, noAuth, req) ==
    LET ts == {i \in DOMAIN req.query : req.query[i].key = "t"}
    IN  CASE ts = {} -> Plain(200)
          [] \E i \in ts : ts = {i} ->
                TokenRedirect(token, noAuth, req.query[CHOOSE i \in ts : TRUE].value)
          [] OTHER -> Plain(400)

Sockets == {"/ws/dashboard", "/ws/pane"}

Upgrade(req) ==
    CASE ~req.upgrade -> Plain(400)
      [] req.upgrade /\ ~CheckOrigin(req) -> Plain(403)
      [] OTHER -> Plain(101)

Paths == Sockets \cup {"/", "/assets/main.js", "/debug/state"}

Route(token, noAuth, req) ==
    IF req.path \notin Paths THEN Plain(404)
    ELSE IF req.method \notin {"GET", "HEAD"} THEN Plain(405)
    ELSE IF req.path = "/" THEN Root(token, noAuth, req)
    ELSE IF req.path \in Sockets THEN Upgrade(req)
    ELSE Plain(200)

(* auth_middleware, around every route and the fallback. *)
Respond(token, noAuth, req) ==
    CASE ~CheckHost(req.host) -> Plain(403)
      [] /\ CheckHost(req.host) /\ ~noAuth /\ ~IsHandshake(req)
         /\ ~CheckCookie(req.cookies, token) -> Plain(401)
      [] OTHER -> Route(token, noAuth, req)

================================================================================
