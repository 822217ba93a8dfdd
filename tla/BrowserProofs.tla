------------------------------ MODULE BrowserProofs ------------------------------
(***************************************************************************)
(* What holds of a page's connections for any number of sessions, sockets,   *)
(* delays and resizes: their type, that keys go out once, that a client has   *)
(* one way to a connection, that a session left stays left, and that the      *)
(* server knows the terminal's size.                                         *)
(***************************************************************************)
EXTENDS Browser, TLAPS, FiniteSetTheorems

(***************************************************************************)
(* What may still come on a socket that connects, and on an open one.       *)
(***************************************************************************)
Begins  == {<<>>, <<"open", "seed">>, <<"open", "text", "c1011">>, <<"c1006">>}
Follows == {<<>>, <<"seed">>, <<"text", "c1011">>, <<"c1011">>, <<"c1006">>, <<"c1001">>}

LEMMA ComingFacts ==
    /\ Begins \subseteq Coming /\ Follows \subseteq Coming
    /\ <<"c1011">> \notin Begins /\ <<>> \in Begins /\ <<>> \in Follows
    /\ <<>> # <<"c1011">> /\ <<"c1006">> # <<"c1011">> /\ <<"c1006">> \in Coming
    /\ <<"seed">> # <<"c1011">> /\ <<"text", "c1011">> # <<"c1011">>
BY DEF Begins, Follows, Coming

LEMMA HeardOpen ==
    ASSUME NEW q \in Begins \cup Follows \cup {<<"c1006">>}, q # <<>>, Head(q) \in {"open"}
    PROVE  Tail(q) \in Follows /\ Tail(q) # <<"c1011">>
<1>1. /\ Tail(<<"open", "seed">>) = <<"seed">>
      /\ Tail(<<"open", "text", "c1011">>) = <<"text", "c1011">>
    OBVIOUS
<1>2. q \in {<<"open", "seed">>, <<"open", "text", "c1011">>}
    BY DEF Begins, Follows
<1> QED BY <1>1, <1>2, ComingFacts DEF Follows

LEMMA HeardData ==
    ASSUME NEW q \in Begins \cup Follows \cup {<<"c1006">>}, q # <<>>,
           Head(q) \in {"seed", "text"}
    PROVE  q \notin Begins /\ q # <<"c1006">> /\ Tail(q) \in Follows
<1>1. Tail(<<"seed">>) = <<>> /\ Tail(<<"text", "c1011">>) = <<"c1011">>
    OBVIOUS
<1>2. q \in {<<"seed">>, <<"text", "c1011">>}
    BY DEF Begins, Follows
<1>3. /\ <<"seed">> \notin Begins /\ <<"text", "c1011">> \notin Begins
      /\ <<"seed">> # <<"c1006">> /\ <<"text", "c1011">> # <<"c1006">>
    BY DEF Begins
<1>4. <<>> \in Follows /\ <<"c1011">> \in Follows
    BY DEF Follows
<1> QED BY <1>1, <1>2, <1>3, <1>4

LEMMA HeardCode ==
    ASSUME NEW q \in Begins \cup Follows \cup {<<"c1006">>}, q # <<>>, Head(q) \in Codes
    PROVE  Head(q) = "c1011" => q = <<"c1011">>
BY DEF Begins, Follows, Codes

(***************************************************************************)
(* A socket's events fit its state; after a text frame the client has seen    *)
(* a message, so that an end with 1011 never finds it without.              *)
(***************************************************************************)
Events ==
    \A s \in Sockets :
        /\ sock[s].state = "connecting" => sock[s].coming \in Begins
        /\ sock[s].state = "open" => sock[s].coming \in Follows
        /\ sock[s].state = "closing" => sock[s].coming = <<"c1006">>
        /\ sock[s].coming = <<"c1011">> => saw[sock[s].client]

(* A client's ws is its live socket, and a client has no more than one     *)
(* socket at all: the one that closes included.                            *)
Mine ==
    /\ \A s \in Sockets :
        sock[s].state \in {"connecting", "open"} => ws[sock[s].client] = s
    /\ \A c \in Clients : ws[c] # None =>
        sock[ws[c]].client = c /\ sock[ws[c]].state \in {"connecting", "open"}

OneSocket ==
    \A s, t \in Sockets : sock[s] # NoSocket /\ sock[s].client = sock[t].client => s = t

(* Of a socket, a timer and the button a client has one. *)
Ways ==
    \A c \in Clients :
        /\ timers[c] \in {0, 1}
        /\ timers[c] = 1 => overlay # c
        /\ \A s \in Sockets : sock[s].client = c => timers[c] = 0 /\ overlay # c

Left == \A c \in Panes : stopped[c] => ws[c] = None

Unopened ==
    \A c \in Panes : c > Newest =>
        /\ ~stopped[c] /\ timers[c] = 0 /\ overlay # c
        /\ \A s \in Sockets : sock[s].client # c

Inv == TypeOK /\ Events /\ Mine /\ OneSocket /\ Ways /\ Left /\ Unopened /\ KeysGoOnce

(***************************************************************************)
(* There is a socket for a client that has none: the others have one each.  *)
(***************************************************************************)
LEMMA ClientFacts ==
    ASSUME BrowserAssumption
    PROVE  /\ IsFiniteSet(Clients) /\ Cardinality(Clients) = MaxOpens + 1
           /\ MaxOpens \in Nat \ {0} /\ Backoffs \in Nat \ {0}
           /\ IsFiniteSet(Sockets) /\ Cardinality(Sockets) > MaxOpens
           /\ Clients = 0..MaxOpens /\ Panes \subseteq Clients /\ Dash \in Clients
           /\ Dash \notin Panes /\ None \notin Clients /\ None \notin Sockets
           /\ Panes \subseteq Nat
<1>1. Clients = 0..MaxOpens
    BY DEF Clients, Panes, Dash, BrowserAssumption
<1>2. IsFiniteSet(0..MaxOpens) /\ Cardinality(0..MaxOpens) = MaxOpens + 1
    BY FS_Interval DEF BrowserAssumption
<1>3. /\ MaxOpens \in Nat \ {0} /\ Backoffs \in Nat \ {0}
      /\ IsFiniteSet(Sockets) /\ Cardinality(Sockets) > MaxOpens
      /\ None \notin Sockets /\ None \notin Nat
    BY DEF BrowserAssumption
<1>4. Panes \subseteq Clients /\ Dash \in Clients /\ Dash \notin Panes /\ Panes \subseteq Nat
      /\ Clients \subseteq Nat
    BY <1>1, <1>3 DEF Clients, Panes, Dash
<1> QED BY <1>1, <1>2, <1>3, <1>4

LEMMA FreeSocket ==
    ASSUME BrowserAssumption, TypeOK, OneSocket,
           NEW c \in Clients, \A s \in Sockets : sock[s].client # c
    PROVE  \E s \in Sockets : sock[s] = NoSocket
<1> SUFFICES ASSUME \A s \in Sockets : sock[s] # NoSocket PROVE FALSE
    OBVIOUS
<1> DEFINE owner == [s \in Sockets |-> sock[s].client]
           T == Clients \ {c}
<1>1. IsFiniteSet(T) /\ Cardinality(T) = MaxOpens
    <2>1. IsFiniteSet(Clients) /\ Cardinality(Clients) = MaxOpens + 1 /\ MaxOpens \in Nat
        BY ClientFacts
    <2>2. IsFiniteSet(T) /\ Cardinality(T) = Cardinality(Clients) - 1
        BY <2>1, FS_RemoveElement
    <2> QED BY <2>1, <2>2
<1>2. \A s \in Sockets : sock[s].client \in Clients
    BY DEF TypeOK, Socket
<1>3. owner \in [Sockets -> T]
    BY <1>2
<1>4. \A s, t \in Sockets : owner[s] = owner[t] => s = t
    BY DEF OneSocket
<1>5. IsFiniteSet(Sockets) /\ Cardinality(T) < Cardinality(Sockets)
    BY <1>1, ClientFacts, FS_CardinalityType
<1>6. \E x, y \in Sockets : x # y /\ owner[x] = owner[y]
    <2> HIDE DEF owner, T
    <2> QED BY <1>1, <1>3, <1>5, FS_PigeonHole
<1> QED BY <1>4, <1>6

(* What connecting does to the sockets. *)
LEMMA OpeningFacts ==
    ASSUME BrowserAssumption,
           NEW sk \in [Sockets -> Socket \cup {NoSocket}], NEW c \in Clients,
           \E s \in Sockets : sk[s] = NoSocket
    PROVE  /\ Fresh(sk) \in Sockets /\ sk[Fresh(sk)] = NoSocket
           /\ Opening(sk, c) \in [Sockets -> Socket \cup {NoSocket}]
           /\ \A s \in Sockets : s # Fresh(sk) => Opening(sk, c)[s] = sk[s]
           /\ Opening(sk, c)[Fresh(sk)].client = c
           /\ Opening(sk, c)[Fresh(sk)].state = "connecting"
           /\ Opening(sk, c)[Fresh(sk)].coming = <<>>
           /\ Opening(sk, c)[Fresh(sk)].size = 0
<1>1. Fresh(sk) \in Sockets /\ sk[Fresh(sk)] = NoSocket
    BY DEF Fresh
<1> DEFINE new == [client |-> c, state |-> "connecting", coming |-> <<>>, size |-> 0]
<1>2. new \in Socket
    BY DEF Socket, Sizes, Coming, BrowserAssumption
<1>3. Opening(sk, c) = [sk EXCEPT ![Fresh(sk)] = new]
    BY DEF Opening
<1>4. new.client = c /\ new.state = "connecting" /\ new.coming = <<>> /\ new.size = 0
    OBVIOUS
<1> HIDE DEF new
<1> QED BY <1>1, <1>2, <1>3, <1>4

LEMMA SocketFacts ==
    ASSUME BrowserAssumption, TypeOK, NEW s \in Sockets
    PROVE  /\ sock[s] = NoSocket <=> sock[s].client = None
           /\ sock[s] # NoSocket <=> sock[s].client \in Clients
           /\ sock[s] # NoSocket => sock[s] \in Socket
           /\ sock[s] = NoSocket => sock[s].state = "free" /\ sock[s].coming = <<>>
           /\ sock[s] # NoSocket => sock[s].state \in {"connecting", "open", "closing"}
<1>1. sock[s] \in Socket \cup {NoSocket}
    BY DEF TypeOK
<1>2. NoSocket.client = None /\ NoSocket.state = "free" /\ NoSocket.coming = <<>>
    BY DEF NoSocket
<1>3. sock[s] \in Socket => sock[s].client \in Clients
                            /\ sock[s].state \in {"connecting", "open", "closing"}
    BY DEF Socket
<1>4. None \notin Clients
    BY ClientFacts
<1> QED BY <1>1, <1>2, <1>3, <1>4


(* What ws.close() does to a client's socket, and hearing an event.  *)
LEMMA ClosingFacts ==
    ASSUME BrowserAssumption, NEW sk \in [Sockets -> Socket \cup {NoSocket}],
           NEW s \in Sockets, sk[s] \in Socket
    PROVE  /\ Closing(sk, s) \in [Sockets -> Socket \cup {NoSocket}]
           /\ \A t \in Sockets : t # s => Closing(sk, s)[t] = sk[t]
           /\ Closing(sk, s)[s] \in Socket
           /\ Closing(sk, s)[s].client = sk[s].client
           /\ Closing(sk, s)[s].state = "closing"
           /\ Closing(sk, s)[s].coming = <<"c1006">>
           /\ Closing(sk, s)[s].size = sk[s].size
<1> DEFINE new == [sk[s] EXCEPT !.state = "closing", !.coming = <<"c1006">>]
<1>1. new \in Socket
    BY ComingFacts DEF Socket
<1>2. /\ new.client = sk[s].client /\ new.state = "closing" /\ new.coming = <<"c1006">>
      /\ new.size = sk[s].size
    BY DEF Socket
<1>3. Closing(sk, s) = [sk EXCEPT ![s] = new]
    BY ClientFacts DEF Closing
<1> HIDE DEF new
<1> QED BY <1>1, <1>2, <1>3

Awaits(sk, s, q) == [sk EXCEPT ![s].coming = q]

LEMMA AwaitsFacts ==
    ASSUME NEW sk \in [Sockets -> Socket \cup {NoSocket}],
           NEW s \in Sockets, sk[s] \in Socket, NEW q \in Coming
    PROVE  /\ Awaits(sk, s, q) \in [Sockets -> Socket \cup {NoSocket}]
           /\ Awaits(sk, s, q)[s] \in Socket
           /\ \A t \in Sockets : t # s => Awaits(sk, s, q)[t] = sk[t]
           /\ Awaits(sk, s, q)[s].client = sk[s].client
           /\ Awaits(sk, s, q)[s].state = sk[s].state
           /\ Awaits(sk, s, q)[s].coming = q /\ Awaits(sk, s, q)[s].size = sk[s].size
<1> DEFINE r == Awaits(sk, s, q)
           new == [sk[s] EXCEPT !.coming = q]
<1>1. new \in Socket
    BY DEF Socket
<1>2. /\ new.client = sk[s].client /\ new.state = sk[s].state /\ new.coming = q
      /\ new.size = sk[s].size
    BY DEF Socket
<1>3. r = [sk EXCEPT ![s] = new]
    BY DEF Awaits
<1> HIDE DEF new, r
<1> SUFFICES /\ r \in [Sockets -> Socket \cup {NoSocket}] /\ r[s] \in Socket
             /\ \A t \in Sockets : t # s => r[t] = sk[t]
             /\ r[s].client = sk[s].client /\ r[s].state = sk[s].state
             /\ r[s].coming = q /\ r[s].size = sk[s].size
    BY DEF r
<1> QED BY <1>1, <1>2, <1>3

(***************************************************************************)
(* Connecting, by a timer, the button or the first session.                *)
(***************************************************************************)
LEMMA Connects ==
    ASSUME BrowserAssumption, Inv, NEW c \in Clients,
           \A s \in Sockets : sock[s].client # c, Connect(c, sock), hooks' = hooks
    PROVE  /\ stopped' \in [Clients -> BOOLEAN] /\ saw' \in [Clients -> BOOLEAN]
           /\ ws' \in [Clients -> Sockets \cup {None}]
           /\ sock' \in [Sockets -> Socket \cup {NoSocket}]
           /\ Events' /\ Mine' /\ OneSocket' /\ Left' /\ KeysGoOnce'
           /\ \A s \in Sockets : sock'[s].client \in {sock[s].client, c}
<1> DEFINE f == Fresh(sock)
<1>1. \E s \in Sockets : sock[s] = NoSocket
    BY FreeSocket DEF Inv
<1>2. /\ f \in Sockets /\ sock[f] = NoSocket
      /\ sock' \in [Sockets -> Socket \cup {NoSocket}]
      /\ \A s \in Sockets : s # f => sock'[s] = sock[s]
      /\ sock'[f].client = c /\ sock'[f].state = "connecting" /\ sock'[f].coming = <<>>
    <2>1. sock \in [Sockets -> Socket \cup {NoSocket}] /\ sock' = Opening(sock, c)
        BY DEF Connect, Inv, TypeOK
    <2> QED BY <1>1, <2>1, OpeningFacts
<1>3. /\ stopped' = [stopped EXCEPT ![c] = FALSE] /\ saw' = [saw EXCEPT ![c] = FALSE]
      /\ ws' = [ws EXCEPT ![c] = f]
    BY DEF Connect
<1> HIDE DEF f
<1>4. /\ stopped' \in [Clients -> BOOLEAN] /\ saw' \in [Clients -> BOOLEAN]
      /\ ws' \in [Clients -> Sockets \cup {None}]
    BY <1>2, <1>3 DEF Inv, TypeOK
<1>5. /\ stopped \in [Clients -> BOOLEAN] /\ saw \in [Clients -> BOOLEAN]
      /\ ws \in [Clients -> Sockets \cup {None}]
    BY DEF Inv, TypeOK
<1>6. \A s \in Sockets : sock[s] = NoSocket <=> sock[s].client = None
    BY SocketFacts DEF Inv
<1>7. \A s \in Sockets : s # f => sock[s].client # c /\ sock'[s].client # c
    BY <1>2
<1>8. Events'
    <2> SUFFICES ASSUME NEW s \in Sockets
                 PROVE  /\ sock'[s].state = "connecting" => sock'[s].coming \in Begins
                        /\ sock'[s].state = "open" => sock'[s].coming \in Follows
                        /\ sock'[s].state = "closing" => sock'[s].coming = <<"c1006">>
                        /\ sock'[s].coming = <<"c1011">> => saw'[sock'[s].client]
        BY DEF Events
    <2>1. CASE s = f
        BY <2>1, <1>2, ComingFacts
    <2>2. CASE s # f
        <3>1. saw'[sock'[s].client] = saw[sock[s].client]
              \/ sock[s] = NoSocket
            BY <2>2, <1>2, <1>3, <1>5, <1>7, SocketFacts DEF Inv
        <3>2. sock[s] = NoSocket => sock[s].coming # <<"c1011">>
            BY SocketFacts, ComingFacts DEF Inv
        <3> QED BY <2>2, <3>1, <3>2, <1>2 DEF Inv, Events
    <2> QED BY <2>1, <2>2
<1>9. Mine'
    <2>1. ASSUME NEW s \in Sockets, sock'[s].state \in {"connecting", "open"}
          PROVE  ws'[sock'[s].client] = s
        <3>1. CASE s = f
            BY <3>1, <1>2, <1>3, <1>5
        <3>2. CASE s # f
            <4>1. sock[s].state \in {"connecting", "open"} /\ sock[s].client \in Clients
                BY <3>2, <1>2, <2>1, SocketFacts DEF Inv
            <4> QED BY <3>2, <4>1, <1>2, <1>3, <1>5, <1>7 DEF Inv, Mine
        <3> QED BY <3>1, <3>2
    <2>2. ASSUME NEW d \in Clients, ws'[d] # None
          PROVE  sock'[ws'[d]].client = d /\ sock'[ws'[d]].state \in {"connecting", "open"}
        <3>1. CASE d = c
            BY <3>1, <1>2, <1>3, <1>5
        <3>2. CASE d # c
            <4>1. ws'[d] = ws[d] /\ ws[d] \in Sockets /\ sock[ws[d]].client = d
                  /\ sock[ws[d]].state \in {"connecting", "open"}
                BY <3>2, <2>2, <1>3, <1>5 DEF Inv, Mine
            <4>2. ws[d] # f
                BY <4>1, <1>2, <1>6, ClientFacts
            <4> QED BY <4>1, <4>2, <1>2
        <3> QED BY <3>1, <3>2
    <2> QED BY <2>1, <2>2 DEF Mine
<1>10. OneSocket'
    <2> SUFFICES ASSUME NEW s \in Sockets, NEW t \in Sockets, sock'[s] # NoSocket,
                        sock'[s].client = sock'[t].client
                 PROVE  s = t
        BY DEF OneSocket
    <2> QED BY <1>2, <1>7 DEF Inv, OneSocket
<1>11. Left'
    <2>1. \A d \in Panes : stopped'[d] => d # c /\ stopped[d] /\ ws'[d] = ws[d]
        BY <1>3, <1>5, ClientFacts
    <2> QED BY <2>1 DEF Inv, Left
<1>12. KeysGoOnce'
    <2> SUFFICES ASSUME NEW d \in Panes
                 PROVE  /\ hooks[d] <= 1
                        /\ hooks[d] = 1 <=> ws'[d] # None /\ sock'[ws'[d]].state = "open"
        BY DEF KeysGoOnce
    <2>1. hooks[d] <= 1 /\ (hooks[d] = 1 <=> ws[d] # None /\ sock[ws[d]].state = "open")
        BY DEF Inv, KeysGoOnce
    <2>2. CASE d = c
        <3>1. ws[d] = None
            BY <2>2, <1>5, ClientFacts DEF Inv, Mine
        <3>2. sock'[ws'[d]].state = "connecting"
            BY <2>2, <1>2, <1>3, <1>5
        <3> QED BY <2>1, <3>1, <3>2
    <2>3. CASE d # c
        <3>1. ws'[d] = ws[d] /\ (ws[d] # None => ws[d] \in Sockets /\ sock[ws[d]].client = d)
            BY <2>3, <1>3, <1>5, ClientFacts DEF Inv, Mine
        <3>2. ws[d] # None => sock'[ws[d]] = sock[ws[d]]
            BY <3>1, <1>2, <1>6, ClientFacts
        <3> QED BY <2>1, <3>1, <3>2
    <2> QED BY <2>2, <2>3
<1>13. \A s \in Sockets : sock'[s].client \in {sock[s].client, c}
    BY <1>2
<1> QED BY <1>2, <1>4, <1>8, <1>9, <1>10, <1>11, <1>12, <1>13


(***************************************************************************)
(* The first state.                                                        *)
(***************************************************************************)
LEMMA InitCorrect ==
    ASSUME BrowserAssumption, Init
    PROVE  Inv
<1> DEFINE none == [s \in Sockets |-> NoSocket]
           f == Fresh(none)
<1>1. \E s \in Sockets : none[s] = NoSocket
    <2>1. Sockets # {}
        BY ClientFacts, FS_EmptySet
    <2> QED BY <2>1
<1>2. none \in [Sockets -> Socket \cup {NoSocket}]
    OBVIOUS
<1>3. sock = Opening(none, Dash)
    BY DEF Init
<1>4. /\ f \in Sockets
      /\ sock \in [Sockets -> Socket \cup {NoSocket}]
      /\ \A s \in Sockets : s # f => sock[s] = NoSocket
      /\ sock[f].client = Dash /\ sock[f].state = "connecting" /\ sock[f].coming = <<>>
    <2> HIDE DEF none
    <2>1. \A s \in Sockets : none[s] = NoSocket
        BY DEF none
    <2> QED BY <1>1, <1>2, <1>3, <2>1, OpeningFacts, ClientFacts
<1>5. ws = [c \in Clients |-> IF c = Dash THEN f ELSE None]
    BY DEF Init
<1> HIDE DEF f, none
<1>6. \A s \in Sockets : s # f =>
        sock[s].client = None /\ sock[s].state = "free" /\ sock[s].coming = <<>>
    BY <1>4 DEF NoSocket
<1>7. TypeOK
    <2>1. ws \in [Clients -> Sockets \cup {None}]
        BY <1>4, <1>5
    <2>2. /\ container \in Sizes /\ fitted \in Sizes /\ debounce \subseteq Panes
          /\ reported \in [Panes -> Sizes]
        BY DEF Init, Sizes, BrowserAssumption
    <2>3. /\ stopped \in [Clients -> BOOLEAN] /\ saw \in [Clients -> BOOLEAN]
          /\ timers \in [Clients -> Nat] /\ hooks \in [Clients -> Nat]
          /\ focus \in Panes \cup {None} /\ overlay \in Clients \cup {None}
          /\ ended \in [Clients -> Codes \cup {None}]
        BY DEF Init
    <2>4. attempt \in [Clients -> 0..Backoffs] /\ tries \in [Clients -> 0..MaxTries]
        BY DEF Init, BrowserAssumption
    <2> QED BY <1>4, <2>1, <2>2, <2>3, <2>4 DEF TypeOK
<1>8. Events
    BY <1>4, <1>6, ComingFacts DEF Events
<1>9. Mine
    BY <1>4, <1>5, <1>6, ClientFacts DEF Mine
<1>10. OneSocket
    BY <1>4, <1>6, ClientFacts DEF OneSocket
<1>11. Ways
    BY ClientFacts DEF Init, Ways
<1>12. Left
    BY ClientFacts DEF Init, Left
<1>13. Unopened
    <2>1. \A s \in Sockets : sock[s].client \notin Panes
        BY <1>4, <1>6, ClientFacts
    <2>2. \A c \in Panes : ~stopped[c] /\ timers[c] = 0 /\ overlay # c
        BY ClientFacts DEF Init
    <2> QED BY <2>1, <2>2 DEF Unopened
<1>14. KeysGoOnce
    BY <1>5, ClientFacts DEF Init, KeysGoOnce
<1> QED BY <1>7, <1>8, <1>9, <1>10, <1>11, <1>12, <1>13, <1>14 DEF Inv

(***************************************************************************)
(* The steps.  First the two that connect a client that has no socket.     *)
(***************************************************************************)
LEMMA TypeParts ==
    ASSUME TypeOK
    PROVE  /\ stopped \in [Clients -> BOOLEAN] /\ saw \in [Clients -> BOOLEAN]
           /\ ws \in [Clients -> Sockets \cup {None}]
           /\ attempt \in [Clients -> 0..Backoffs]
           /\ timers \in [Clients -> Nat] /\ hooks \in [Clients -> Nat]
           /\ focus \in Panes \cup {None} /\ overlay \in Clients \cup {None}
           /\ sock \in [Sockets -> Socket \cup {NoSocket}]
           /\ tries \in [Clients -> 0..MaxTries]
           /\ ended \in [Clients -> Codes \cup {None}]
           /\ container \in Sizes /\ fitted \in Sizes
           /\ debounce \subseteq Panes /\ reported \in [Panes -> Sizes]
BY DEF TypeOK

LEMMA RetryCorrect ==
    ASSUME BrowserAssumption, Inv, Retry
    PROVE  Inv'
<1> DEFINE c == overlay
<1>1. c \in Clients /\ c # None
    BY ClientFacts DEF Retry, Inv, TypeOK
<1>2. \A s \in Sockets : sock[s].client # c
    BY <1>1 DEF Inv, Ways
<1>3. Connect(c, sock) /\ hooks' = hooks
    BY DEF Retry
<1>4. /\ overlay' = None /\ attempt' = [attempt EXCEPT ![c] = 0]
      /\ tries' = [tries EXCEPT ![c] = 0]
      /\ timers' = timers /\ focus' = focus /\ ended' = ended
      /\ container' = container /\ fitted' = fitted /\ debounce' = debounce
      /\ reported' = reported
    BY DEF Retry, sizeVars
<1>5. timers[c] = 0
    BY <1>1 DEF Inv, Ways
<1>6. c \in Panes => c <= Newest
    BY <1>1, ClientFacts DEF Inv, Unopened, Newest, TypeOK
<1> HIDE DEF c
<1>7. /\ stopped' \in [Clients -> BOOLEAN] /\ saw' \in [Clients -> BOOLEAN]
      /\ ws' \in [Clients -> Sockets \cup {None}]
      /\ sock' \in [Sockets -> Socket \cup {NoSocket}]
      /\ Events' /\ Mine' /\ OneSocket' /\ Left' /\ KeysGoOnce'
      /\ \A s \in Sockets : sock'[s].client \in {sock[s].client, c}
    BY <1>1, <1>2, <1>3, Connects
<1>8. TypeOK'
    <2>1. 0 \in 0..Backoffs /\ 0 \in 0..MaxTries
        BY DEF BrowserAssumption
    <2>2. attempt' \in [Clients -> 0..Backoffs] /\ tries' \in [Clients -> 0..MaxTries]
        BY <1>4, <2>1, TypeParts DEF Inv
    <2> QED BY <1>3, <1>4, <1>7, <2>2, TypeParts DEF TypeOK, Inv
<1>9. Ways'
    <2> SUFFICES ASSUME NEW d \in Clients
                 PROVE  /\ timers'[d] \in {0, 1}
                        /\ timers'[d] = 1 => overlay' # d
                        /\ \A s \in Sockets : sock'[s].client = d =>
                            timers'[d] = 0 /\ overlay' # d
        BY DEF Ways
    <2> QED BY <1>4, <1>5, <1>7, ClientFacts DEF Inv, Ways
<1>10. Unopened'
    <2> SUFFICES ASSUME NEW d \in Panes, d > Newest'
                 PROVE  /\ ~stopped'[d] /\ timers'[d] = 0 /\ overlay' # d
                        /\ \A s \in Sockets : sock'[s].client # d
        BY DEF Unopened
    <2>1. Newest' = Newest /\ Newest \in Nat
        BY <1>4, ClientFacts DEF Newest, Inv, TypeOK
    <2>2. d # c /\ d \in Clients /\ d > Newest
        BY <1>6, <2>1, ClientFacts
    <2>3. stopped'[d] = stopped[d]
        BY <1>3, <2>2, TypeParts DEF Connect, Inv
    <2> QED BY <1>4, <1>7, <2>2, <2>3, ClientFacts DEF Inv, Unopened
<1> QED BY <1>7, <1>8, <1>9, <1>10 DEF Inv

LEMMA TimerFiresCorrect ==
    ASSUME BrowserAssumption, Inv, NEW c \in Clients, TimerFires(c)
    PROVE  Inv'
<1>1. timers[c] = 1 /\ timers' = [timers EXCEPT ![c] = timers[c] - 1]
    BY DEF TimerFires, Inv, Ways
<1>2. /\ attempt' = attempt /\ hooks' = hooks /\ overlay' = overlay /\ focus' = focus
      /\ ended' = ended /\ container' = container /\ fitted' = fitted
      /\ debounce' = debounce /\ reported' = reported
    BY DEF TimerFires, pageVars, sizeVars
<1>3. (\A s \in Sockets : sock[s].client # c) /\ overlay # c
    BY <1>1 DEF Inv, Ways
<1>4. /\ timers' \in [Clients -> Nat] /\ timers'[c] = 0
      /\ \A d \in Clients : d # c => timers'[d] = timers[d]
    BY <1>1, TypeParts DEF Inv
<1>5. CASE stopped[c]
    <2>1. /\ stopped' = stopped /\ saw' = saw /\ ws' = ws /\ sock' = sock /\ tries' = tries
        BY <1>5 DEF TimerFires
    <2>2. TypeOK'
        BY <1>2, <1>4, <2>1 DEF TypeOK, Inv
    <2>3. Events' /\ Mine' /\ OneSocket' /\ Left' /\ KeysGoOnce'
        BY <1>2, <2>1 DEF Inv, Events, Mine, OneSocket, Left, KeysGoOnce
    <2>4. Ways'
        BY <1>2, <1>3, <1>4, <2>1 DEF Inv, Ways
    <2>5. Unopened'
        <3>1. Newest' = Newest
            BY <1>2 DEF Newest
        <3>2. \A d \in Panes : timers[d] = 0 => timers'[d] = 0
            BY <1>4, ClientFacts
        <3> QED BY <1>2, <2>1, <3>1, <3>2 DEF Inv, Unopened
    <2> QED BY <2>2, <2>3, <2>4, <2>5 DEF Inv
<1>6. CASE ~stopped[c]
    <2>1. /\ Connect(c, sock)
          /\ tries' = [tries EXCEPT ![c] = IF @ < MaxTries THEN @ + 1 ELSE @]
        BY <1>6 DEF TimerFires, Reconnects
    <2>2. c \in Panes => c <= Newest
        <3>1. Newest \in Nat /\ Panes \subseteq Nat
            BY ClientFacts DEF Newest, Inv, TypeOK
        <3>2. c \in Panes => ~(c > Newest)
            BY <1>1 DEF Inv, Unopened
        <3> QED BY <3>1, <3>2
    <2>3. /\ stopped' \in [Clients -> BOOLEAN] /\ saw' \in [Clients -> BOOLEAN]
          /\ ws' \in [Clients -> Sockets \cup {None}]
          /\ sock' \in [Sockets -> Socket \cup {NoSocket}]
          /\ Events' /\ Mine' /\ OneSocket' /\ Left' /\ KeysGoOnce'
          /\ \A s \in Sockets : sock'[s].client \in {sock[s].client, c}
        BY <1>2, <1>3, <2>1, Connects
    <2>4. TypeOK'
        <3>1. MaxTries \in Nat /\ tries \in [Clients -> 0..MaxTries]
            BY DEF BrowserAssumption, Inv, TypeOK
        <3>2. tries' \in [Clients -> 0..MaxTries]
            BY <2>1, <3>1
        <3> QED BY <1>2, <1>4, <2>3, <3>2 DEF TypeOK, Inv
    <2>5. Ways'
        <3> SUFFICES ASSUME NEW d \in Clients
                     PROVE  /\ timers'[d] \in {0, 1}
                            /\ timers'[d] = 1 => overlay' # d
                            /\ \A s \in Sockets : sock'[s].client = d =>
                                timers'[d] = 0 /\ overlay' # d
            BY DEF Ways
        <3> QED BY <1>2, <1>3, <1>4, <2>3 DEF Inv, Ways
    <2>6. Unopened'
        <3> SUFFICES ASSUME NEW d \in Panes, d > Newest'
                     PROVE  /\ ~stopped'[d] /\ timers'[d] = 0 /\ overlay' # d
                            /\ \A s \in Sockets : sock'[s].client # d
            BY DEF Unopened
        <3>1. Newest' = Newest /\ Newest \in Nat
            BY <1>2, ClientFacts DEF Newest, Inv, TypeOK
        <3>2. d # c /\ d \in Clients /\ d > Newest
            BY <2>2, <3>1, ClientFacts
        <3>3. stopped'[d] = stopped[d]
            BY <2>1, <3>2, TypeParts DEF Connect, Inv
        <3> QED BY <1>2, <1>4, <2>3, <3>2, <3>3, ClientFacts DEF Inv, Unopened
    <2> QED BY <2>3, <2>4, <2>5, <2>6 DEF Inv
<1> QED BY <1>5, <1>6


(***************************************************************************)
(* Steps that leave every socket to its client, and as live as it was.     *)
(***************************************************************************)
LEMMA KindFacts ==
    ASSUME BrowserAssumption, NEW k \in Socket \cup {NoSocket}
    PROVE  /\ k = NoSocket <=> k.client = None
           /\ k # NoSocket => k \in Socket
           /\ k # NoSocket <=> k.client \in Clients
           /\ k = NoSocket => k.state = "free" /\ k.coming = <<>>
<1>1. NoSocket.client = None /\ NoSocket.state = "free" /\ NoSocket.coming = <<>>
    BY DEF NoSocket
<1>2. k \in Socket => k.client \in Clients
    BY DEF Socket
<1> QED BY <1>1, <1>2, ClientFacts

LEMMA Steady ==
    ASSUME BrowserAssumption, Inv,
           ws' = ws, timers' = timers, overlay' = overlay, stopped' = stopped, focus' = focus,
           sock' \in [Sockets -> Socket \cup {NoSocket}],
           \A s \in Sockets :
              /\ sock'[s].client = sock[s].client
              /\ sock'[s].state \in {"connecting", "open"}
                    <=> sock[s].state \in {"connecting", "open"}
    PROVE  Mine' /\ OneSocket' /\ Ways' /\ Left' /\ Unopened'
<1>1. Mine'
    <2>1. \A s \in Sockets :
            sock'[s].state \in {"connecting", "open"} => ws'[sock'[s].client] = s
        BY DEF Inv, Mine
    <2>2. \A c \in Clients : ws'[c] # None => ws[c] \in Sockets
        BY TypeParts DEF Inv
    <2>3. \A c \in Clients : ws'[c] # None =>
            sock'[ws'[c]].client = c /\ sock'[ws'[c]].state \in {"connecting", "open"}
        BY <2>2 DEF Inv, Mine
    <2> QED BY <2>1, <2>3 DEF Mine
<1>2. OneSocket'
    <2> SUFFICES ASSUME NEW s \in Sockets, NEW t \in Sockets, sock'[s] # NoSocket,
                        sock'[s].client = sock'[t].client
                 PROVE  s = t
        BY DEF OneSocket
    <2>1. sock'[s].client \in Clients
        BY KindFacts
    <2>2. sock[s] # NoSocket
        BY <2>1, SocketFacts DEF Inv
    <2> QED BY <2>2 DEF Inv, OneSocket
<1>3. Ways'
    BY DEF Inv, Ways
<1>4. Left'
    BY DEF Inv, Left
<1>5. Unopened'
    <2>1. Newest' = Newest
        BY DEF Newest
    <2> QED BY <2>1 DEF Inv, Unopened
<1> QED BY <1>1, <1>2, <1>3, <1>4, <1>5

LEMMA ResizeCorrect ==
    ASSUME BrowserAssumption, Inv, Resize
    PROVE  Inv'
<1>1. /\ clientVars' = clientVars /\ pageVars' = pageVars /\ sock' = sock
      /\ fitted' = fitted /\ reported' = reported
      /\ container <= MaxResizes /\ container' = container + 1
      /\ debounce' = IF focus = None THEN debounce ELSE debounce \cup {focus}
    BY DEF Resize
<1>2. /\ ws' = ws /\ timers' = timers /\ overlay' = overlay /\ stopped' = stopped
      /\ focus' = focus /\ saw' = saw /\ attempt' = attempt /\ hooks' = hooks
      /\ tries' = tries /\ ended' = ended
    BY <1>1 DEF clientVars, pageVars
<1>3. container' \in Sizes /\ debounce' \subseteq Panes
    <2>1. MaxResizes \in Nat /\ container \in 0..MaxResizes + 1
        BY TypeParts DEF BrowserAssumption, Inv, Sizes
    <2> QED BY <1>1, <2>1, TypeParts DEF Inv, Sizes
<1>4. TypeOK'
    BY <1>1, <1>2, <1>3 DEF Inv, TypeOK
<1>5. Events' /\ KeysGoOnce'
    BY <1>1, <1>2 DEF Inv, Events, KeysGoOnce
<1> QED BY <1>1, <1>2, <1>4, <1>5, Steady, TypeParts DEF Inv

(* What _sendResize does to the sockets and to what a client remembers. *)
LEMMA SendResizeFacts ==
    ASSUME BrowserAssumption, NEW sk \in [Sockets -> Socket \cup {NoSocket}],
           NEW c \in Panes, NEW size \in Sizes, SendResize(c, sk, size),
           ws[c] \in Sockets \cup {None},
           ws[c] # None => sk[ws[c]] \in Socket, reported \in [Panes -> Sizes]
    PROVE  /\ sock' \in [Sockets -> Socket \cup {NoSocket}]
           /\ reported' \in [Panes -> Sizes]
           /\ \A s \in Sockets : /\ sock'[s].client = sk[s].client
                                 /\ sock'[s].state = sk[s].state
                                 /\ sock'[s].coming = sk[s].coming
                                 /\ s # ws[c] => sock'[s].size = sk[s].size
           /\ \A d \in Panes : d # c => reported'[d] = reported[d]
           /\ ws[c] # None /\ sk[ws[c]].state = "open" =>
                /\ reported'[c] = size
                /\ IF reported[c] # size THEN sock'[ws[c]].size = size ELSE sock' = sk
           /\ ~(ws[c] # None /\ sk[ws[c]].state = "open") =>
                sock' = sk /\ reported' = reported
<1>1. CASE ws[c] # None /\ sk[ws[c]].state = "open" /\ reported[c] # size
    <2> DEFINE w == ws[c]
               new == [sk[w] EXCEPT !.size = size]
    <2>1. reported' = [reported EXCEPT ![c] = size] /\ sock' = [sk EXCEPT ![w] = new]
        BY <1>1 DEF SendResize
    <2>2. w \in Sockets /\ sk[w] \in Socket
        BY <1>1
    <2>3. new \in Socket /\ new.client = sk[w].client /\ new.state = sk[w].state
          /\ new.coming = sk[w].coming /\ new.size = size
        BY <2>2 DEF Socket
    <2> HIDE DEF new
    <2> QED BY <1>1, <2>1, <2>2, <2>3
<1>2. CASE ~(ws[c] # None /\ sk[ws[c]].state = "open" /\ reported[c] # size)
    BY <1>2 DEF SendResize
<1> QED BY <1>1, <1>2

LEMMA DebounceFiresCorrect ==
    ASSUME BrowserAssumption, Inv, NEW c \in Panes, DebounceFires(c)
    PROVE  Inv'
<1>1. /\ clientVars' = clientVars /\ pageVars' = pageVars /\ container' = container
      /\ fitted' = container /\ debounce' = debounce \ {c}
      /\ SendResize(c, sock, container)
    BY DEF DebounceFires
<1>2. /\ ws' = ws /\ timers' = timers /\ overlay' = overlay /\ stopped' = stopped
      /\ focus' = focus /\ saw' = saw /\ attempt' = attempt /\ hooks' = hooks
      /\ tries' = tries /\ ended' = ended
    BY <1>1 DEF clientVars, pageVars
<1>3. ws[c] \in Sockets \cup {None} /\ (ws[c] # None => sock[ws[c]] \in Socket)
    <2>1. ws[c] \in Sockets \cup {None} /\ c \in Clients
        BY ClientFacts, TypeParts DEF Inv
    <2>2. ws[c] # None => sock[ws[c]].client = c
        BY <2>1 DEF Inv, Mine
    <2> QED BY <2>1, <2>2, SocketFacts DEF Inv
<1>4. /\ sock' \in [Sockets -> Socket \cup {NoSocket}]
      /\ reported' \in [Panes -> Sizes]
      /\ \A s \in Sockets : /\ sock'[s].client = sock[s].client
                            /\ sock'[s].state = sock[s].state
                            /\ sock'[s].coming = sock[s].coming
    BY <1>1, <1>3, SendResizeFacts, TypeParts DEF Inv
<1>5. TypeOK'
    <2>1. debounce' \subseteq Panes
        BY <1>1, TypeParts DEF Inv
    <2> QED BY <1>1, <1>2, <1>4, <2>1 DEF Inv, TypeOK
<1>6. Events'
    BY <1>2, <1>4 DEF Inv, Events
<1>7. KeysGoOnce'
    <2>1. \A d \in Panes : ws[d] # None => ws[d] \in Sockets
        BY ClientFacts, TypeParts DEF Inv
    <2> QED BY <1>2, <1>4, <2>1 DEF Inv, KeysGoOnce
<1> QED BY <1>2, <1>4, <1>5, <1>6, <1>7, Steady DEF Inv

(* The server and the network: an event that fits the state of its socket. *)
LEMMA SendsCorrect ==
    ASSUME BrowserAssumption, Inv, NEW s \in Sockets, NEW q \in Coming, Sends(s, q),
           q # <<"c1011">>,
           \/ sock[s].state = "connecting" /\ q \in Begins
           \/ sock[s].state = "open" /\ q \in Follows
    PROVE  Inv'
<1>1. /\ clientVars' = clientVars /\ pageVars' = pageVars /\ sizeVars' = sizeVars
      /\ sock' = [sock EXCEPT ![s].coming = q]
    BY DEF Sends
<1>2. /\ ws' = ws /\ timers' = timers /\ overlay' = overlay /\ stopped' = stopped
      /\ focus' = focus /\ saw' = saw /\ attempt' = attempt /\ hooks' = hooks
      /\ tries' = tries /\ ended' = ended
      /\ container' = container /\ fitted' = fitted /\ debounce' = debounce
      /\ reported' = reported
    BY <1>1 DEF clientVars, pageVars, sizeVars
<1>3. sock[s] \in Socket
    BY SocketFacts DEF Inv
<1>4. /\ sock' \in [Sockets -> Socket \cup {NoSocket}]
      /\ \A t \in Sockets : t # s => sock'[t] = sock[t]
      /\ sock'[s].client = sock[s].client /\ sock'[s].state = sock[s].state
      /\ sock'[s].coming = q
    <2>1. sock \in [Sockets -> Socket \cup {NoSocket}] /\ sock' = Awaits(sock, s, q)
        BY <1>1, TypeParts DEF Inv, Awaits
    <2> QED BY <1>3, <2>1, AwaitsFacts
<1>5. TypeOK'
    BY <1>2, <1>4 DEF Inv, TypeOK
<1>6. Events'
    <2> SUFFICES ASSUME NEW t \in Sockets
                 PROVE  /\ sock'[t].state = "connecting" => sock'[t].coming \in Begins
                        /\ sock'[t].state = "open" => sock'[t].coming \in Follows
                        /\ sock'[t].state = "closing" => sock'[t].coming = <<"c1006">>
                        /\ sock'[t].coming = <<"c1011">> => saw'[sock'[t].client]
        BY DEF Events
    <2>1. CASE t = s
        BY <2>1, <1>4
    <2>2. CASE t # s
        BY <2>2, <1>2, <1>4 DEF Inv, Events
    <2> QED BY <2>1, <2>2
<1>7. KeysGoOnce'
    <2>1. \A d \in Panes : ws[d] # None => ws[d] \in Sockets
        BY ClientFacts, TypeParts DEF Inv
    <2> QED BY <1>2, <1>4, <2>1 DEF Inv, KeysGoOnce
<1> QED BY <1>2, <1>4, <1>5, <1>6, <1>7, Steady DEF Inv

LEMMA ServerCorrect ==
    ASSUME BrowserAssumption, Inv, Server
    PROVE  Inv'
<1>1. /\ <<"open", "seed">> \in Begins /\ <<"open", "text", "c1011">> \in Begins
      /\ <<"c1006">> \in Begins
      /\ <<"c1006">> \in Follows /\ <<"text", "c1011">> \in Follows /\ <<"c1001">> \in Follows
    BY DEF Begins, Follows
<1>2. /\ <<"open", "seed">> # <<"c1011">> /\ <<"open", "text", "c1011">> # <<"c1011">>
      /\ <<"c1006">> # <<"c1011">> /\ <<"text", "c1011">> # <<"c1011">>
      /\ <<"c1001">> # <<"c1011">>
    OBVIOUS
<1>3. Begins \subseteq Coming /\ Follows \subseteq Coming
    BY ComingFacts
<1>4. PICK s \in Sockets :
        Serves(s) \/ Refuses(s) \/ Fails(s) \/ EndsPane(s) \/ ShutsDown(s)
    BY DEF Server
<1>5. CASE Serves(s)
    BY <1>5, <1>1, <1>2, <1>3, SendsCorrect DEF Serves
<1>6. CASE Refuses(s)
    BY <1>6, <1>1, <1>2, <1>3, SendsCorrect DEF Refuses
<1>7. CASE Fails(s)
    BY <1>7, <1>1, <1>2, <1>3, SendsCorrect DEF Fails
<1>8. CASE EndsPane(s)
    BY <1>8, <1>1, <1>2, <1>3, SendsCorrect DEF EndsPane
<1>9. CASE ShutsDown(s)
    BY <1>9, <1>1, <1>2, <1>3, SendsCorrect DEF ShutsDown
<1> QED BY <1>4, <1>5, <1>6, <1>7, <1>8, <1>9


(***************************************************************************)
(* The events of a socket.  What is heard is what may come.                *)
(***************************************************************************)
LEMMA HearsFacts ==
    ASSUME BrowserAssumption, Inv, NEW s \in Sockets, NEW E, Hears(s, E)
    PROVE  /\ sock[s] \in Socket /\ sock[s].client \in Clients
           /\ sock[s].coming # <<>> /\ Head(sock[s].coming) \in E
           /\ sock[s].coming \in Begins \cup Follows \cup {<<"c1006">>}
           /\ sock[s].state \in {"connecting", "open", "closing"}
<1>1. sock[s].coming # <<>> /\ Head(sock[s].coming) \in E
    BY DEF Hears
<1>2. sock[s] # NoSocket
    BY <1>1, SocketFacts DEF Inv
<1>3. /\ sock[s] \in Socket /\ sock[s].client \in Clients
      /\ sock[s].state \in {"connecting", "open", "closing"}
    BY <1>2, SocketFacts DEF Inv
<1>4. sock[s].coming \in Begins \cup Follows \cup {<<"c1006">>}
    BY <1>3 DEF Inv, Events
<1> QED BY <1>1, <1>3, <1>4

LEMMA OnMessageCorrect ==
    ASSUME BrowserAssumption, Inv, NEW s \in Sockets, OnMessage(s)
    PROVE  Inv'
<1> DEFINE c == sock[s].client
           q == Tail(sock[s].coming)
<1>1. /\ Hears(s, {"seed", "text"})
      /\ saw' = [saw EXCEPT ![c] = TRUE]
      /\ tries' = IF Hears(s, {"seed"}) THEN [tries EXCEPT ![c] = 0] ELSE tries
      /\ sock' = [sock EXCEPT ![s].coming = q]
      /\ stopped' = stopped /\ ws' = ws /\ attempt' = attempt /\ timers' = timers
      /\ hooks' = hooks /\ ended' = ended /\ pageVars' = pageVars /\ sizeVars' = sizeVars
    BY DEF OnMessage, Heard
<1>2. /\ overlay' = overlay /\ focus' = focus
      /\ container' = container /\ fitted' = fitted /\ debounce' = debounce
      /\ reported' = reported
    BY <1>1 DEF pageVars, sizeVars
<1>3. /\ sock[s] \in Socket /\ c \in Clients
      /\ sock[s].coming # <<>> /\ Head(sock[s].coming) \in {"seed", "text"}
      /\ sock[s].coming \in Begins \cup Follows \cup {<<"c1006">>}
      /\ sock[s].state \in {"connecting", "open", "closing"}
    BY <1>1, HearsFacts
<1>4. sock[s].coming \notin Begins /\ sock[s].coming # <<"c1006">> /\ q \in Follows
    BY <1>3, HeardData
<1>5. sock[s].state = "open"
    BY <1>3, <1>4 DEF Inv, Events
<1>6. /\ sock' \in [Sockets -> Socket \cup {NoSocket}]
      /\ \A t \in Sockets : t # s => sock'[t] = sock[t]
      /\ sock'[s].client = sock[s].client /\ sock'[s].state = sock[s].state
      /\ sock'[s].coming = q
    <2>1. sock \in [Sockets -> Socket \cup {NoSocket}] /\ q \in Coming
        BY <1>4, TypeParts, ComingFacts DEF Inv
    <2>2. sock' = Awaits(sock, s, q)
        BY <1>1 DEF Awaits
    <2> HIDE DEF q
    <2> QED BY <1>3, <2>1, <2>2, AwaitsFacts
<1> HIDE DEF q, c
<1>7. /\ saw' \in [Clients -> BOOLEAN] /\ saw'[c]
      /\ \A d \in Clients : saw[d] => saw'[d]
    BY <1>1, <1>3, TypeParts DEF Inv
<1>8. TypeOK'
    <2>1. 0 \in 0..MaxTries
        BY DEF BrowserAssumption
    <2>2. tries' \in [Clients -> 0..MaxTries]
        BY <1>1, <1>3, <2>1, TypeParts DEF Inv
    <2> QED BY <1>1, <1>2, <1>6, <1>7, <2>2 DEF Inv, TypeOK
<1>9. Events'
    <2> SUFFICES ASSUME NEW t \in Sockets
                 PROVE  /\ sock'[t].state = "connecting" => sock'[t].coming \in Begins
                        /\ sock'[t].state = "open" => sock'[t].coming \in Follows
                        /\ sock'[t].state = "closing" => sock'[t].coming = <<"c1006">>
                        /\ sock'[t].coming = <<"c1011">> => saw'[sock'[t].client]
        BY DEF Events
    <2>1. CASE t = s
        BY <2>1, <1>4, <1>5, <1>6, <1>7 DEF c
    <2>2. CASE t # s
        <3>1. sock[t].coming = <<"c1011">> => sock[t].client \in Clients
            BY SocketFacts, ComingFacts DEF Inv
        <3> QED BY <2>2, <3>1, <1>6, <1>7 DEF Inv, Events
    <2> QED BY <2>1, <2>2
<1>10. KeysGoOnce'
    <2>1. \A d \in Panes : ws[d] # None => ws[d] \in Sockets
        BY ClientFacts, TypeParts DEF Inv
    <2>2. \A t \in Sockets : sock'[t].state = sock[t].state
        BY <1>6
    <2> QED BY <1>1, <2>1, <2>2 DEF Inv, KeysGoOnce
<1>11. \A t \in Sockets :
        /\ sock'[t].client = sock[t].client
        /\ sock'[t].state \in {"connecting", "open"} <=> sock[t].state \in {"connecting", "open"}
    BY <1>6
<1> QED BY <1>1, <1>2, <1>6, <1>8, <1>9, <1>10, <1>11, Steady DEF Inv

(* What onopen does, to the sockets first. *)
LEMMA OnOpenFacts ==
    ASSUME BrowserAssumption, Inv, NEW s \in Sockets, OnOpen(s),
           NEW c, c = sock[s].client
    PROVE  /\ sock[s].state = "connecting" /\ c \in Clients /\ ws[c] = s
           /\ sock' \in [Sockets -> Socket \cup {NoSocket}]
           /\ reported' \in [Panes -> Sizes]
           /\ \A t \in Sockets : sock'[t].client = sock[t].client
           /\ \A t \in Sockets : t # s => sock'[t] = sock[t]
           /\ sock'[s].state = "open" /\ sock'[s].coming \in Follows
           /\ sock'[s].coming # <<"c1011">>
           /\ IF c \in Panes
              THEN /\ hooks' = [hooks EXCEPT ![c] = @ + 1]
                   /\ \A d \in Panes : d # c => reported'[d] = reported[d]
                   /\ reported'[c] = fitted
                   /\ IF reported[c] # fitted THEN sock'[s].size = fitted
                                              ELSE sock'[s].size = sock[s].size
              ELSE hooks' = hooks /\ reported' = reported
<1> DEFINE q == Tail(sock[s].coming)
           mid == Heard(s)
           sk == [mid EXCEPT ![s].state = "open"]
<1>1. /\ sock[s].state = "connecting" /\ Hears(s, {"open"})
      /\ IF c \in Panes
         THEN hooks' = [hooks EXCEPT ![c] = @ + 1] /\ SendResize(c, sk, fitted)
         ELSE sock' = sk /\ hooks' = hooks /\ reported' = reported
    BY DEF OnOpen
<1>2. /\ sock[s] \in Socket /\ c \in Clients
      /\ sock[s].coming # <<>> /\ Head(sock[s].coming) \in {"open"}
      /\ sock[s].coming \in Begins \cup Follows \cup {<<"c1006">>}
    BY <1>1, HearsFacts
<1>3. q \in Follows /\ q # <<"c1011">> /\ q \in Coming
    BY <1>2, HeardOpen, ComingFacts
<1>4. ws[c] = s
    BY <1>1 DEF Inv, Mine
<1>5. sock \in [Sockets -> Socket \cup {NoSocket}] /\ mid = Awaits(sock, s, q)
    BY TypeParts DEF Inv, Heard, Awaits
<1> HIDE DEF q, mid
<1>6. /\ mid \in [Sockets -> Socket \cup {NoSocket}] /\ mid[s] \in Socket
      /\ \A t \in Sockets : t # s => mid[t] = sock[t]
      /\ mid[s].client = sock[s].client /\ mid[s].coming = q /\ mid[s].size = sock[s].size
    BY <1>2, <1>3, <1>5, AwaitsFacts
<1>7. /\ sk \in [Sockets -> Socket \cup {NoSocket}] /\ sk[s] \in Socket
      /\ \A t \in Sockets : t # s => sk[t] = sock[t]
      /\ sk[s].client = sock[s].client /\ sk[s].coming = q /\ sk[s].size = sock[s].size
      /\ sk[s].state = "open"
    <2> DEFINE new == [mid[s] EXCEPT !.state = "open"]
    <2>1. /\ new \in Socket /\ new.client = mid[s].client /\ new.coming = mid[s].coming
          /\ new.size = mid[s].size /\ new.state = "open"
        BY <1>6 DEF Socket
    <2>2. sk = [mid EXCEPT ![s] = new]
        OBVIOUS
    <2> HIDE DEF new, sk
    <2> QED BY <1>6, <2>1, <2>2
<1> HIDE DEF sk
<1>8. CASE c \in Panes
    <2>1. fitted \in Sizes /\ reported \in [Panes -> Sizes] /\ None \notin Sockets
        BY TypeParts, ClientFacts DEF Inv
    <2>2. /\ sock' \in [Sockets -> Socket \cup {NoSocket}]
          /\ reported' \in [Panes -> Sizes]
          /\ \A t \in Sockets : /\ sock'[t].client = sk[t].client
                                /\ sock'[t].state = sk[t].state
                                /\ sock'[t].coming = sk[t].coming
                                /\ t # s => sock'[t].size = sk[t].size
          /\ \A d \in Panes : d # c => reported'[d] = reported[d]
          /\ reported'[c] = fitted
          /\ IF reported[c] # fitted THEN sock'[s].size = fitted ELSE sock' = sk
        <3>1. SendResize(c, sk, fitted) /\ ws[c] # None /\ sk[ws[c]].state = "open"
            BY <1>1, <1>4, <1>7, <1>8, <2>1
        <3>2. ws[c] \in Sockets \cup {None} /\ sk[ws[c]] \in Socket
            BY <1>4, <1>7
        <3> QED BY <1>4, <1>7, <1>8, <2>1, <3>1, <3>2, SendResizeFacts
    <2>3. \A t \in Sockets : t # s => sock'[t] = sock[t]
        <3>1. sock' = sk \/ sock' = [sk EXCEPT ![s].size = fitted]
            BY <1>1, <1>4, <1>8 DEF SendResize
        <3> QED BY <1>7, <3>1
    <2> QED BY <1>1, <1>2, <1>3, <1>4, <1>7, <1>8, <2>2, <2>3
<1>9. CASE c \notin Panes
    BY <1>1, <1>2, <1>3, <1>4, <1>7, <1>9, TypeParts DEF Inv
<1> QED BY <1>8, <1>9

LEMMA OnOpenCorrect ==
    ASSUME BrowserAssumption, Inv, NEW s \in Sockets, OnOpen(s)
    PROVE  Inv'
<1> DEFINE c == sock[s].client
<1>1. /\ attempt' = [attempt EXCEPT ![c] = 0]
      /\ stopped' = stopped /\ ws' = ws /\ saw' = saw /\ timers' = timers
      /\ tries' = tries /\ ended' = ended /\ pageVars' = pageVars
      /\ container' = container /\ fitted' = fitted /\ debounce' = debounce
    BY DEF OnOpen
<1>2. overlay' = overlay /\ focus' = focus
    BY <1>1 DEF pageVars
<1>3. /\ sock[s].state = "connecting" /\ c \in Clients /\ ws[c] = s
      /\ sock' \in [Sockets -> Socket \cup {NoSocket}]
      /\ reported' \in [Panes -> Sizes]
      /\ \A t \in Sockets : sock'[t].client = sock[t].client
      /\ \A t \in Sockets : t # s => sock'[t] = sock[t]
      /\ sock'[s].state = "open" /\ sock'[s].coming \in Follows
      /\ sock'[s].coming # <<"c1011">>
      /\ hooks' = IF c \in Panes THEN [hooks EXCEPT ![c] = @ + 1] ELSE hooks
    <2> HIDE DEF c
    <2> QED BY OnOpenFacts DEF c
<1> HIDE DEF c
<1>4. TypeOK'
    <2>1. 0 \in 0..Backoffs
        BY DEF BrowserAssumption
    <2>2. attempt' \in [Clients -> 0..Backoffs]
        BY <1>1, <2>1, TypeParts DEF Inv
    <2>3. hooks' \in [Clients -> Nat]
        BY <1>3, TypeParts DEF Inv
    <2> QED BY <1>1, <1>2, <1>3, <2>2, <2>3 DEF Inv, TypeOK
<1>5. Events'
    <2> SUFFICES ASSUME NEW t \in Sockets
                 PROVE  /\ sock'[t].state = "connecting" => sock'[t].coming \in Begins
                        /\ sock'[t].state = "open" => sock'[t].coming \in Follows
                        /\ sock'[t].state = "closing" => sock'[t].coming = <<"c1006">>
                        /\ sock'[t].coming = <<"c1011">> => saw'[sock'[t].client]
        BY DEF Events
    <2>1. CASE t = s
        BY <2>1, <1>3
    <2>2. CASE t # s
        BY <2>2, <1>1, <1>3 DEF Inv, Events
    <2> QED BY <2>1, <2>2
<1>6. KeysGoOnce'
    <2> SUFFICES ASSUME NEW d \in Panes
                 PROVE  /\ hooks'[d] <= 1
                        /\ hooks'[d] = 1 <=> ws[d] # None /\ sock'[ws[d]].state = "open"
        BY <1>1 DEF KeysGoOnce
    <2>1. /\ hooks[d] <= 1 /\ hooks[d] \in Nat
          /\ hooks[d] = 1 <=> ws[d] # None /\ sock[ws[d]].state = "open"
        BY ClientFacts, TypeParts DEF Inv, KeysGoOnce
    <2>2. CASE d = c
        <3>1. hooks[d] = 0
            BY <2>1, <2>2, <1>3
        <3>2. hooks'[d] = 1
            BY <3>1, <2>2, <1>3, TypeParts DEF Inv
        <3> QED BY <3>2, <2>2, <1>3, ClientFacts
    <2>3. CASE d # c
        <3>1. hooks'[d] = hooks[d]
            <4>1. hooks \in [Clients -> Nat] /\ d \in Clients
                BY ClientFacts, TypeParts DEF Inv
            <4> HIDE DEF c
            <4>2. hooks' = hooks \/ hooks' = [hooks EXCEPT ![c] = @ + 1]
                BY <1>3
            <4> QED BY <2>3, <4>1, <4>2
        <3>2. ws[d] # None => ws[d] \in Sockets /\ ws[d] # s
            <4>1. ws \in [Clients -> Sockets \cup {None}] /\ d \in Clients
                BY ClientFacts, TypeParts DEF Inv
            <4>2. ws[d] # None => sock[ws[d]].client = d
                BY <4>1 DEF Inv, Mine
            <4>3. ws[d] # None => ws[d] # s
                BY <2>3, <4>2 DEF c
            <4> QED BY <4>1, <4>3
        <3> QED BY <2>1, <3>1, <3>2, <1>3
    <2> QED BY <2>2, <2>3
<1>7. \A t \in Sockets :
        /\ sock'[t].client = sock[t].client
        /\ sock'[t].state \in {"connecting", "open"} <=> sock[t].state \in {"connecting", "open"}
    BY <1>3
<1> QED BY <1>1, <1>2, <1>3, <1>4, <1>5, <1>6, <1>7, Steady DEF Inv


(***************************************************************************)
(* onclose: a client that ends with 1011 has seen a message, so that only    *)
(* the second branch is ever taken; after it the client has no socket.      *)
(***************************************************************************)
LEMMA OnCloseFacts ==
    ASSUME BrowserAssumption, Inv, NEW s \in Sockets, OnClose(s),
           NEW c, c = sock[s].client
    PROVE  /\ c \in Clients /\ sock[s] \in Socket
           /\ sock' \in [Sockets -> Socket \cup {NoSocket}]
           /\ sock'[s] = NoSocket /\ \A t \in Sockets : t # s => sock'[t] = sock[t]
           /\ ws' = (IF ws[c] = s THEN [ws EXCEPT ![c] = None] ELSE ws)
           /\ hooks' = [hooks EXCEPT ![c] = IF @ > 0 THEN @ - 1 ELSE 0]
           /\ \E code \in Codes : ended' = [ended EXCEPT ![c] = code]
           /\ saw' = saw /\ stopped' = stopped /\ focus' = focus /\ tries' = tries
           /\ container' = container /\ fitted' = fitted /\ debounce' = debounce
           /\ reported' = reported
           /\ \/ attempt' = attempt /\ timers' = timers /\ overlay' = overlay
              \/ /\ attempt[c] < Backoffs
                 /\ attempt' = [attempt EXCEPT ![c] = @ + 1]
                 /\ timers' = [timers EXCEPT ![c] = @ + 1] /\ overlay' = overlay
              \/ attempt' = attempt /\ timers' = timers /\ overlay' = c
<1> DEFINE code == Head(sock[s].coming)
           left == [sock EXCEPT ![s] = NoSocket]
           mine == IF ws[c] = s THEN [ws EXCEPT ![c] = None] ELSE ws
           dead == ~stopped[c] /\ c \in Panes /\ ~saw[c] /\ code = "c1011"
<1>1. CloseEvent(s, Disposed(c), {"c1001"}, attempt[c] < Backoffs)
    BY DEF OnClose, Owner
<1>2. Hears(s, Codes)
    BY <1>1 DEF CloseEvent
<1>3. /\ sock[s] \in Socket /\ c \in Clients
      /\ sock[s].coming # <<>> /\ code \in Codes
      /\ sock[s].coming \in Begins \cup Follows \cup {<<"c1006">>}
    BY <1>2, HearsFacts
<1>4. ~dead
    <2>1. code = "c1011" => sock[s].coming = <<"c1011">>
        BY <1>3, HeardCode
    <2> QED BY <2>1 DEF Inv, Events
<1>5. /\ hooks' = Disposed(c) /\ ended' = [ended EXCEPT ![c] = code]
      /\ stopped' = stopped /\ focus' = focus /\ tries' = tries /\ sizeVars' = sizeVars
    BY <1>1 DEF CloseEvent
<1>6. /\ sock' = left /\ ws' = mine /\ saw' = saw
      /\ \/ attempt' = attempt /\ timers' = timers /\ overlay' = overlay
         \/ /\ attempt[c] < Backoffs
            /\ attempt' = [attempt EXCEPT ![c] = @ + 1]
            /\ timers' = [timers EXCEPT ![c] = @ + 1] /\ overlay' = overlay
         \/ attempt' = attempt /\ timers' = timers /\ overlay' = c
    BY <1>1, <1>4 DEF CloseEvent
<1>7. left \in [Sockets -> Socket \cup {NoSocket}]
    BY TypeParts DEF Inv
<1>8. /\ left[s] = NoSocket /\ \A t \in Sockets : t # s => left[t] = sock[t]
    BY TypeParts DEF Inv
<1> QED BY <1>3, <1>5, <1>6, <1>7, <1>8 DEF sizeVars, Disposed

LEMMA OnCloseCorrect ==
    ASSUME BrowserAssumption, Inv, NEW s \in Sockets, OnClose(s)
    PROVE  Inv'
<1> DEFINE c == sock[s].client
<1> HIDE DEF c
<1>1. /\ c \in Clients /\ sock[s] \in Socket
      /\ sock' \in [Sockets -> Socket \cup {NoSocket}]
      /\ sock'[s] = NoSocket /\ \A t \in Sockets : t # s => sock'[t] = sock[t]
      /\ ws' = (IF ws[c] = s THEN [ws EXCEPT ![c] = None] ELSE ws)
      /\ hooks' = [hooks EXCEPT ![c] = IF @ > 0 THEN @ - 1 ELSE 0]
      /\ \E code \in Codes : ended' = [ended EXCEPT ![c] = code]
      /\ saw' = saw /\ stopped' = stopped /\ focus' = focus /\ tries' = tries
      /\ container' = container /\ fitted' = fitted /\ debounce' = debounce
      /\ reported' = reported
    BY OnCloseFacts DEF c
<1>2. \/ attempt' = attempt /\ timers' = timers /\ overlay' = overlay
      \/ /\ attempt[c] < Backoffs
         /\ attempt' = [attempt EXCEPT ![c] = @ + 1]
         /\ timers' = [timers EXCEPT ![c] = @ + 1] /\ overlay' = overlay
      \/ attempt' = attempt /\ timers' = timers /\ overlay' = c
    BY OnCloseFacts DEF c
<1>3. timers[c] = 0 /\ overlay # c
    BY <1>1 DEF Inv, Ways, c
<1>4. sock[s] # NoSocket /\ sock'[s].client = None
    BY <1>1, SocketFacts DEF Inv, NoSocket, c
<1>5. \A t \in Sockets : sock'[t].client # c
    <2>1. \A t \in Sockets : t # s => sock[t].client # c
        BY <1>4 DEF Inv, OneSocket, c
    <2>2. c # None
        BY <1>1, ClientFacts
    <2> QED BY <1>1, <1>4, <2>1, <2>2
<1>6. /\ ws'[c] = None /\ \A d \in Clients : d # c => ws'[d] = ws[d] /\ ws[d] # s
    <2>1. /\ ws \in [Clients -> Sockets \cup {None}] /\ None \notin Sockets
        BY TypeParts, ClientFacts DEF Inv
    <2>2. ws[c] # None => ws[c] = s
        BY <1>1, <1>4, <2>1 DEF Inv, Mine, OneSocket, c
    <2>3. \A d \in Clients : d # c => ws[d] # s
        BY <2>1 DEF Inv, Mine, c
    <2> QED BY <1>1, <2>1, <2>2, <2>3
<1>7. TypeOK'
    <2>1. ws' \in [Clients -> Sockets \cup {None}] /\ hooks' \in [Clients -> Nat]
          /\ ended' \in [Clients -> Codes \cup {None}]
        BY <1>1, TypeParts DEF Inv
    <2>2. attempt' \in [Clients -> 0..Backoffs] /\ timers' \in [Clients -> Nat]
          /\ overlay' \in Clients \cup {None}
        <3>1. Backoffs \in Nat /\ attempt \in [Clients -> 0..Backoffs]
              /\ timers \in [Clients -> Nat] /\ overlay \in Clients \cup {None}
            BY ClientFacts, TypeParts DEF Inv
        <3>2. attempt[c] < Backoffs => attempt[c] + 1 \in 0..Backoffs
            BY <1>1, <3>1
        <3> QED BY <1>1, <1>2, <3>1, <3>2
    <2> QED BY <1>1, <2>1, <2>2 DEF Inv, TypeOK
<1>8. Events'
    <2> SUFFICES ASSUME NEW t \in Sockets
                 PROVE  /\ sock'[t].state = "connecting" => sock'[t].coming \in Begins
                        /\ sock'[t].state = "open" => sock'[t].coming \in Follows
                        /\ sock'[t].state = "closing" => sock'[t].coming = <<"c1006">>
                        /\ sock'[t].coming = <<"c1011">> => saw'[sock'[t].client]
        BY DEF Events
    <2>1. CASE t = s
        BY <2>1, <1>1, ComingFacts DEF NoSocket
    <2>2. CASE t # s
        BY <2>2, <1>1 DEF Inv, Events
    <2> QED BY <2>1, <2>2
<1>9. Mine'
    <2>1. ASSUME NEW t \in Sockets, sock'[t].state \in {"connecting", "open"}
          PROVE  ws'[sock'[t].client] = t
        <3>1. t # s
            BY <1>1, <2>1 DEF NoSocket
        <3>2. sock'[t] = sock[t] /\ ws[sock[t].client] = t
            BY <1>1, <2>1, <3>1 DEF Inv, Mine
        <3>3. sock[t].client \in Clients /\ sock[t].client # c
            BY <1>1, <1>5, <2>1, <3>1, <3>2, SocketFacts DEF Inv
        <3> QED BY <1>6, <3>2, <3>3
    <2>2. ASSUME NEW d \in Clients, ws'[d] # None
          PROVE  sock'[ws'[d]].client = d /\ sock'[ws'[d]].state \in {"connecting", "open"}
        <3>1. d # c
            BY <1>6, <2>2
        <3>2. ws'[d] = ws[d] /\ ws[d] # s /\ ws[d] \in Sockets
            BY <1>6, <2>2, <3>1, TypeParts DEF Inv
        <3> QED BY <1>1, <2>2, <3>2 DEF Inv, Mine
    <2> QED BY <2>1, <2>2 DEF Mine
<1>10. OneSocket'
    <2> SUFFICES ASSUME NEW t \in Sockets, NEW u \in Sockets, sock'[t] # NoSocket,
                        sock'[t].client = sock'[u].client
                 PROVE  t = u
        BY DEF OneSocket
    <2>1. t # s /\ sock'[t] = sock[t]
        BY <1>1
    <2>2. sock[t].client \in Clients /\ sock[t] # NoSocket
        BY <2>1, SocketFacts DEF Inv
    <2>3. u # s
        BY <1>4, <2>1, <2>2, ClientFacts
    <2> QED BY <1>1, <2>1, <2>2, <2>3 DEF Inv, OneSocket
<1>12. \A d \in Clients : d # c => timers'[d] = timers[d] /\ (overlay' = d => overlay = d)
    BY <1>2, TypeParts DEF Inv
<1>13. timers'[c] \in {0, 1} /\ (timers'[c] = 1 => overlay' # c)
    <2>1. timers \in [Clients -> Nat]
        BY TypeParts DEF Inv
    <2> QED BY <1>1, <1>2, <1>3, <2>1
<1>14. \A d \in Clients, t \in Sockets : sock'[t].client = d => sock[t].client = d
    BY <1>1, <1>4, ClientFacts
<1>15. Ways'
    <2> SUFFICES ASSUME NEW d \in Clients
                 PROVE  /\ timers'[d] \in {0, 1}
                        /\ timers'[d] = 1 => overlay' # d
                        /\ \A t \in Sockets : sock'[t].client = d =>
                            timers'[d] = 0 /\ overlay' # d
        BY DEF Ways
    <2>1. CASE d = c
        BY <2>1, <1>5, <1>13
    <2>2. CASE d # c
        BY <2>2, <1>12, <1>14 DEF Inv, Ways
    <2> QED BY <2>1, <2>2
<1>16. Left'
    <2>1. \A d \in Panes : ws[d] = None => ws'[d] = None
        BY <1>6, ClientFacts
    <2> QED BY <1>1, <2>1 DEF Inv, Left
<1>17. Unopened'
    <2> SUFFICES ASSUME NEW d \in Panes, d > Newest'
                 PROVE  /\ ~stopped'[d] /\ timers'[d] = 0 /\ overlay' # d
                        /\ \A t \in Sockets : sock'[t].client # d
        BY DEF Unopened
    <2>1. Newest' = Newest
        BY <1>1 DEF Newest
    <2>2. /\ ~stopped[d] /\ timers[d] = 0 /\ overlay # d
          /\ \A t \in Sockets : sock[t].client # d
        BY <2>1 DEF Inv, Unopened
    <2>3. d # c /\ d \in Clients
        BY <2>2, ClientFacts DEF c
    <2> QED BY <1>1, <1>12, <1>14, <2>2, <2>3
<1>18. KeysGoOnce'
    <2> SUFFICES ASSUME NEW d \in Panes
                 PROVE  /\ hooks'[d] <= 1
                        /\ hooks'[d] = 1 <=> ws'[d] # None /\ sock'[ws'[d]].state = "open"
        BY DEF KeysGoOnce
    <2>1. /\ hooks[d] <= 1 /\ hooks[d] \in Nat /\ d \in Clients
          /\ hooks[d] = 1 <=> ws[d] # None /\ sock[ws[d]].state = "open"
        BY ClientFacts, TypeParts DEF Inv, KeysGoOnce
    <2>2. CASE d = c
        <3>1. hooks'[d] = 0
            BY <1>1, <2>1, <2>2, TypeParts DEF Inv
        <3> QED BY <1>6, <2>2, <3>1
    <2>3. CASE d # c
        <3>1. hooks'[d] = hooks[d] /\ ws'[d] = ws[d] /\ ws[d] # s
            BY <1>1, <1>6, <2>1, <2>3, TypeParts DEF Inv
        <3>2. ws[d] # None => sock'[ws[d]] = sock[ws[d]]
            BY <1>1, <2>1, <3>1, TypeParts DEF Inv
        <3> QED BY <2>1, <3>1, <3>2
    <2> QED BY <2>2, <2>3
<1> QED BY <1>7, <1>8, <1>9, <1>10, <1>15, <1>16, <1>17, <1>18 DEF Inv


(***************************************************************************)
(* openSession: the pane that has the focus closes its socket, and the new    *)
(* client takes a free one.                                                *)
(***************************************************************************)
LEMMA SwitchFacts ==
    ASSUME BrowserAssumption, Inv, OpenSession, focus # None
    PROVE  \E f \in Sockets :
           /\ sock[f] = NoSocket
           /\ sock' \in [Sockets -> Socket \cup {NoSocket}]
           /\ sock'[f].client = focus' /\ sock'[f].state = "connecting"
           /\ sock'[f].coming = <<>> /\ sock'[f].size = 0
           /\ \A t \in Sockets : t # f /\ t # ws[focus] => sock'[t] = sock[t]
           /\ ws[focus] # None =>
                /\ ws[focus] # f
                /\ sock'[ws[focus]].client = focus
                /\ sock'[ws[focus]].state = "closing"
                /\ sock'[ws[focus]].coming = <<"c1006">>
           /\ stopped' = [stopped EXCEPT ![focus] = TRUE]
           /\ hooks' = [hooks EXCEPT ![focus] = IF @ > 0 THEN @ - 1 ELSE 0]
           /\ ws' = [ws EXCEPT ![focus] = None, ![focus'] = f]
           /\ saw' = saw
<1> DEFINE sk == Closing(sock, ws[focus])
           f == Fresh(sk)
<1>1. /\ stopped' = [stopped EXCEPT ![focus] = TRUE]
      /\ hooks' = [hooks EXCEPT ![focus] = IF @ > 0 THEN @ - 1 ELSE 0]
      /\ ws' = [ws EXCEPT ![focus] = None, ![focus'] = f]
      /\ sock' = Opening(sk, focus') /\ saw' = saw
      /\ Newest < MaxOpens /\ focus' = Newest + 1
    BY DEF OpenSession, Disposed
<1>2. focus \in Panes /\ focus' \in Panes /\ focus' \in Clients /\ focus' > Newest
    <2>1. Panes = 1..MaxOpens /\ MaxOpens \in Nat /\ focus \in Panes
        BY ClientFacts, TypeParts DEF Inv, Panes
    <2> QED BY <1>1, <2>1, ClientFacts DEF Newest
<1>3. sock \in [Sockets -> Socket \cup {NoSocket}] /\ ws[focus] \in Sockets \cup {None}
    BY <1>2, ClientFacts, TypeParts DEF Inv
<1>4. /\ sk \in [Sockets -> Socket \cup {NoSocket}]
      /\ \A t \in Sockets : t # ws[focus] => sk[t] = sock[t]
      /\ ws[focus] # None => /\ sock[ws[focus]] # NoSocket
                             /\ sk[ws[focus]] # NoSocket
                             /\ sk[ws[focus]].client = focus
                             /\ sk[ws[focus]].state = "closing"
                             /\ sk[ws[focus]].coming = <<"c1006">>
    <2>1. CASE ws[focus] = None
        <3>1. sk = sock
            BY <2>1 DEF Closing
        <3> QED BY <2>1, <3>1, <1>3
    <2>2. CASE ws[focus] # None
        <3>1. ws[focus] \in Sockets /\ sock[ws[focus]].client = focus
            BY <2>2, <1>2, <1>3, ClientFacts DEF Inv, Mine
        <3>2. sock[ws[focus]] \in Socket /\ sock[ws[focus]] # NoSocket
            BY <3>1, <1>2, ClientFacts, SocketFacts DEF Inv
        <3>3. /\ sk \in [Sockets -> Socket \cup {NoSocket}]
              /\ \A t \in Sockets : t # ws[focus] => sk[t] = sock[t]
              /\ sk[ws[focus]] \in Socket
              /\ sk[ws[focus]].client = focus
              /\ sk[ws[focus]].state = "closing"
              /\ sk[ws[focus]].coming = <<"c1006">>
            BY <3>1, <3>2, <1>3, ClosingFacts
        <3>4. sk[ws[focus]] # NoSocket
            BY <3>3, KindFacts, <1>2, ClientFacts
        <3> QED BY <3>2, <3>3, <3>4
    <2> QED BY <2>1, <2>2
<1>5. \E t \in Sockets : sk[t] = NoSocket
    <2>1. \A t \in Sockets : sock[t].client # focus'
        BY <1>2 DEF Inv, Unopened
    <2>2. PICK t \in Sockets : sock[t] = NoSocket
        BY <1>2, <2>1, FreeSocket DEF Inv
    <2>3. t # ws[focus]
        BY <1>4, <2>2, ClientFacts
    <2> HIDE DEF sk
    <2> QED BY <1>4, <2>2, <2>3
<1> HIDE DEF sk
<1>6. /\ f \in Sockets /\ sk[f] = NoSocket
      /\ sock' \in [Sockets -> Socket \cup {NoSocket}]
      /\ \A t \in Sockets : t # f => sock'[t] = sk[t]
      /\ sock'[f].client = focus' /\ sock'[f].state = "connecting"
      /\ sock'[f].coming = <<>> /\ sock'[f].size = 0
    BY <1>1, <1>2, <1>4, <1>5, OpeningFacts
<1> HIDE DEF f
<1>7. f # ws[focus] /\ sock[f] = NoSocket
    BY <1>4, <1>6, ClientFacts
<1>8. \A t \in Sockets : t # f /\ t # ws[focus] => sock'[t] = sock[t]
    BY <1>4, <1>6
<1>9. ws[focus] # None =>
        /\ ws[focus] # f
        /\ sock'[ws[focus]].client = focus
        /\ sock'[ws[focus]].state = "closing"
        /\ sock'[ws[focus]].coming = <<"c1006">>
    BY <1>3, <1>4, <1>6, <1>7
<1> QED BY <1>1, <1>6, <1>7, <1>8, <1>9

LEMMA OpenSessionCorrect ==
    ASSUME BrowserAssumption, Inv, OpenSession
    PROVE  Inv'
<1> DEFINE p == focus'
<1>1. /\ p = Newest + 1 /\ Newest < MaxOpens
      /\ debounce' = debounce \cup {p}
      /\ attempt' = attempt /\ timers' = timers /\ overlay' = overlay /\ tries' = tries
      /\ ended' = ended /\ container' = container /\ fitted' = fitted
      /\ reported' = reported
    BY DEF OpenSession
<1>2. /\ p \in Panes /\ p \in Clients /\ p > Newest /\ Newest \in Nat
      /\ Newest' = p /\ focus \in Panes \cup {None} /\ focus # p
    <2>1. Panes = 1..MaxOpens /\ MaxOpens \in Nat /\ focus \in Panes \cup {None}
          /\ None \notin Nat
        BY ClientFacts, TypeParts DEF Inv, Panes, BrowserAssumption
    <2> QED BY <1>1, <2>1, ClientFacts DEF Newest
<1>3. /\ ~stopped[p] /\ timers[p] = 0 /\ overlay # p
      /\ \A t \in Sockets : sock[t].client # p
    BY <1>2 DEF Inv, Unopened
<1>4. CASE focus = None
    <2>1. Connect(p, sock) /\ hooks' = hooks
        BY <1>4 DEF OpenSession
    <2>2. /\ stopped' \in [Clients -> BOOLEAN] /\ saw' \in [Clients -> BOOLEAN]
          /\ ws' \in [Clients -> Sockets \cup {None}]
          /\ sock' \in [Sockets -> Socket \cup {NoSocket}]
          /\ Events' /\ Mine' /\ OneSocket' /\ Left' /\ KeysGoOnce'
          /\ \A s \in Sockets : sock'[s].client \in {sock[s].client, p}
        <3> HIDE DEF p
        <3> QED BY <1>2, <1>3, <2>1, Connects
    <2>3. TypeOK'
        <3>1. debounce' \subseteq Panes /\ focus' \in Panes \cup {None}
            BY <1>1, <1>2, TypeParts DEF Inv
        <3> QED BY <1>1, <2>1, <2>2, <3>1 DEF Inv, TypeOK
    <2>4. Ways'
        <3> SUFFICES ASSUME NEW d \in Clients
                     PROVE  /\ timers'[d] \in {0, 1}
                            /\ timers'[d] = 1 => overlay' # d
                            /\ \A s \in Sockets : sock'[s].client = d =>
                                timers'[d] = 0 /\ overlay' # d
            BY DEF Ways
        <3> HIDE DEF p
        <3> QED BY <1>1, <1>3, <2>2 DEF Inv, Ways
    <2>5. Unopened'
        <3> SUFFICES ASSUME NEW d \in Panes, d > Newest'
                     PROVE  /\ ~stopped'[d] /\ timers'[d] = 0 /\ overlay' # d
                            /\ \A s \in Sockets : sock'[s].client # d
            BY DEF Unopened
        <3>1. d # p /\ d \in Clients /\ d > Newest
            BY <1>2, ClientFacts
        <3>2. stopped'[d] = stopped[d]
            BY <2>1, <3>1, TypeParts DEF Connect, Inv
        <3> HIDE DEF p
        <3> QED BY <1>1, <2>2, <3>1, <3>2, ClientFacts DEF Inv, Unopened
    <2> QED BY <2>2, <2>3, <2>4, <2>5 DEF Inv
<1>5. CASE focus # None
    <2>1. PICK f \in Sockets :
           /\ sock[f] = NoSocket
           /\ sock' \in [Sockets -> Socket \cup {NoSocket}]
           /\ sock'[f].client = focus' /\ sock'[f].state = "connecting"
           /\ sock'[f].coming = <<>> /\ sock'[f].size = 0
           /\ \A t \in Sockets : t # f /\ t # ws[focus] => sock'[t] = sock[t]
           /\ ws[focus] # None =>
                /\ ws[focus] # f
                /\ sock'[ws[focus]].client = focus
                /\ sock'[ws[focus]].state = "closing"
                /\ sock'[ws[focus]].coming = <<"c1006">>
           /\ stopped' = [stopped EXCEPT ![focus] = TRUE]
           /\ hooks' = [hooks EXCEPT ![focus] = IF @ > 0 THEN @ - 1 ELSE 0]
           /\ ws' = [ws EXCEPT ![focus] = None, ![focus'] = f]
           /\ saw' = saw
        BY <1>5, SwitchFacts
    <2>2. focus \in Panes /\ focus \in Clients /\ focus <= Newest
        BY <1>2, <1>5, ClientFacts DEF Newest
    <2>3. /\ ws \in [Clients -> Sockets \cup {None}] /\ None \notin Sockets
          /\ None \notin Clients
        BY TypeParts, ClientFacts DEF Inv
    <2>4. ws[focus] # None => ws[focus] \in Sockets /\ sock[ws[focus]].client = focus
        BY <2>2, <2>3 DEF Inv, Mine
    <2>5. /\ ws'[focus] = None /\ ws'[p] = f
          /\ \A d \in Clients : d # p /\ d # focus => ws'[d] = ws[d]
        BY <1>2, <2>1, <2>2, <2>3
    <2>6. /\ sock[f].client = None /\ sock[f].state = "free"
          /\ \A t \in Sockets : t # f => sock'[t].client = sock[t].client
          /\ \A d \in Clients : ws[d] # f
        <3>1. sock[f].client = None /\ sock[f].state = "free"
            BY <2>1 DEF NoSocket
        <3>2. \A d \in Clients : ws[d] # f
            BY <2>3, <3>1 DEF Inv, Mine
        <3> QED BY <2>1, <2>4, <3>1, <3>2
    <2>7. \A t \in Sockets : sock'[t].state # "closing" /\ t # f => sock'[t] = sock[t]
        BY <2>1, <2>4
    <2>8. \A d \in Clients : d # focus => ws[d] # ws[focus] \/ ws[d] = None
        BY <2>2, <2>3 DEF Inv, Mine
    <2>9. TypeOK'
        <3>1. debounce' \subseteq Panes /\ focus' \in Panes \cup {None}
            BY <1>1, <1>2, TypeParts DEF Inv
        <3>2. stopped' \in [Clients -> BOOLEAN] /\ hooks' \in [Clients -> Nat]
            BY <2>1, <2>2, TypeParts DEF Inv
        <3>3. ws' \in [Clients -> Sockets \cup {None}]
            BY <2>1, <2>3
        <3> QED BY <1>1, <2>1, <3>1, <3>2, <3>3 DEF Inv, TypeOK
    <2> HIDE DEF p
    <2>10. Events'
        <3> SUFFICES ASSUME NEW t \in Sockets
                     PROVE  /\ sock'[t].state = "connecting" => sock'[t].coming \in Begins
                            /\ sock'[t].state = "open" => sock'[t].coming \in Follows
                            /\ sock'[t].state = "closing" => sock'[t].coming = <<"c1006">>
                            /\ sock'[t].coming = <<"c1011">> => saw'[sock'[t].client]
            BY DEF Events
        <3>1. CASE t = f
            BY <3>1, <2>1, ComingFacts
        <3>2. CASE t # f /\ t = ws[focus]
            BY <3>2, <2>1, <2>3, ComingFacts
        <3>3. CASE t # f /\ t # ws[focus]
            BY <3>3, <2>1 DEF Inv, Events
        <3> QED BY <3>1, <3>2, <3>3
    <2>11. Mine'
        <3>1. ASSUME NEW t \in Sockets, sock'[t].state \in {"connecting", "open"}
              PROVE  ws'[sock'[t].client] = t
            <4>1. CASE t = f
                BY <4>1, <2>1, <2>5 DEF p
            <4>2. CASE t # f
                <5>1. sock'[t] = sock[t] /\ t # ws[focus] /\ ws[sock[t].client] = t
                    BY <4>2, <2>1, <2>3, <2>7, <3>1 DEF Inv, Mine
                <5>2. sock[t].client \in Clients /\ sock[t].client # p
                    BY <1>3, <3>1, <5>1, SocketFacts DEF Inv
                <5>3. sock[t].client # focus
                    BY <5>1
                <5> QED BY <2>5, <5>1, <5>2, <5>3
            <4> QED BY <4>1, <4>2
        <3>2. ASSUME NEW d \in Clients, ws'[d] # None
              PROVE  sock'[ws'[d]].client = d /\ sock'[ws'[d]].state \in {"connecting", "open"}
            <4>1. CASE d = p
                BY <4>1, <2>1, <2>5 DEF p
            <4>2. CASE d # p
                <5>1. d # focus /\ ws'[d] = ws[d] /\ ws[d] # f /\ ws[d] # ws[focus]
                    BY <4>2, <2>5, <2>6, <2>8, <3>2
                <5>2. ws[d] \in Sockets
                    BY <2>3, <3>2, <5>1
                <5>3. sock'[ws[d]] = sock[ws[d]]
                    BY <2>1, <5>1, <5>2
                <5> QED BY <3>2, <5>1, <5>2, <5>3 DEF Inv, Mine
            <4> QED BY <4>1, <4>2
        <3> QED BY <3>1, <3>2 DEF Mine
    <2>12. OneSocket'
        <3> SUFFICES ASSUME NEW t \in Sockets, NEW u \in Sockets, sock'[t] # NoSocket,
                            sock'[t].client = sock'[u].client
                     PROVE  t = u
            BY DEF OneSocket
        <3>1. \A x \in Sockets : x # f => sock'[x].client # p
            BY <1>3, <2>6
        <3>2. CASE t = f \/ u = f
            BY <3>1, <3>2, <2>1 DEF p
        <3>3. CASE t # f /\ u # f
            <4>1. sock'[t].client \in Clients
                BY <2>1, KindFacts
            <4>2. sock[t] # NoSocket
                BY <3>3, <4>1, <2>6, SocketFacts DEF Inv
            <4> QED BY <3>3, <4>2, <2>6 DEF Inv, OneSocket
        <3> QED BY <3>2, <3>3
    <2>13. Ways'
        <3> SUFFICES ASSUME NEW d \in Clients
                     PROVE  /\ timers'[d] \in {0, 1}
                            /\ timers'[d] = 1 => overlay' # d
                            /\ \A s \in Sockets : sock'[s].client = d =>
                                timers'[d] = 0 /\ overlay' # d
            BY DEF Ways
        <3>1. \A s \in Sockets : sock'[s].client = d => d = p \/ sock[s].client = d
            BY <2>1, <2>6 DEF p
        <3> QED BY <1>1, <1>3, <3>1 DEF Inv, Ways
    <2>14. Left'
        <3> SUFFICES ASSUME NEW d \in Panes, stopped'[d] PROVE ws'[d] = None
            BY DEF Left
        <3>1. d = focus \/ (d # focus /\ stopped[d])
            BY <2>1, <2>2, ClientFacts, TypeParts DEF Inv
        <3> QED BY <1>2, <1>3, <2>5, <3>1, ClientFacts DEF Inv, Left
    <2>15. Unopened'
        <3> SUFFICES ASSUME NEW d \in Panes, d > Newest'
                     PROVE  /\ ~stopped'[d] /\ timers'[d] = 0 /\ overlay' # d
                            /\ \A s \in Sockets : sock'[s].client # d
            BY DEF Unopened
        <3>1. d # p /\ d # focus /\ d \in Clients /\ d > Newest
            BY <1>2, <2>2, ClientFacts
        <3>2. stopped'[d] = stopped[d]
            BY <2>1, <2>2, <3>1, TypeParts DEF Inv
        <3>3. \A s \in Sockets : sock'[s].client = d => sock[s].client = d
            BY <2>1, <2>6, <3>1 DEF p
        <3> QED BY <1>1, <3>1, <3>2, <3>3 DEF Inv, Unopened
    <2>16. KeysGoOnce'
        <3> SUFFICES ASSUME NEW d \in Panes
                     PROVE  /\ hooks'[d] <= 1
                            /\ hooks'[d] = 1 <=> ws'[d] # None /\ sock'[ws'[d]].state = "open"
            BY DEF KeysGoOnce
        <3>1. /\ hooks[d] <= 1 /\ hooks[d] \in Nat /\ d \in Clients
              /\ hooks[d] = 1 <=> ws[d] # None /\ sock[ws[d]].state = "open"
            BY ClientFacts, TypeParts DEF Inv, KeysGoOnce
        <3>2. CASE d = focus
            <4>1. hooks'[d] = 0
                BY <3>1, <3>2, <2>1, TypeParts DEF Inv
            <4> QED BY <3>2, <4>1, <2>5
        <3>3. CASE d = p
            <4>1. d # focus /\ ws[d] = None
                BY <3>1, <3>3, <1>2, <1>3, <2>3 DEF Inv, Mine
            <4>2. hooks'[d] = hooks[d]
                <5>1. hooks \in [Clients -> Nat]
                    BY TypeParts DEF Inv
                <5> QED BY <2>1, <3>1, <4>1, <5>1
            <4>3. sock'[ws'[d]].state = "connecting"
                BY <3>3, <2>1, <2>5
            <4> QED BY <3>1, <4>1, <4>2, <4>3
        <3>4. CASE d # focus /\ d # p
            <4>1. hooks'[d] = hooks[d] /\ ws'[d] = ws[d]
                BY <3>1, <3>4, <2>1, <2>5, TypeParts DEF Inv
            <4>2. ws[d] # None => sock'[ws[d]] = sock[ws[d]]
                BY <3>1, <3>4, <2>1, <2>3, <2>6, <2>8
            <4> QED BY <3>1, <4>1, <4>2
        <3> QED BY <3>2, <3>3, <3>4
    <2> QED BY <2>9, <2>10, <2>11, <2>12, <2>13, <2>14, <2>15, <2>16 DEF Inv
<1> QED BY <1>4, <1>5


(***************************************************************************)
(* The invariant, and what it says of the page.                            *)
(***************************************************************************)
LEMMA StepCorrect ==
    ASSUME BrowserAssumption, Inv, [Next]_vars
    PROVE  Inv'
<1>1. CASE OpenSession
    BY <1>1, OpenSessionCorrect
<1>2. CASE Resize
    BY <1>2, ResizeCorrect
<1>3. CASE Retry
    BY <1>3, RetryCorrect
<1>4. CASE Page
    <2>1. ASSUME NEW s \in Sockets, OnOpen(s) PROVE Inv'
        BY <2>1, OnOpenCorrect
    <2>2. ASSUME NEW s \in Sockets, OnMessage(s) PROVE Inv'
        BY <2>2, OnMessageCorrect
    <2>3. ASSUME NEW s \in Sockets, OnClose(s) PROVE Inv'
        BY <2>3, OnCloseCorrect
    <2>4. ASSUME NEW c \in Clients, TimerFires(c) PROVE Inv'
        BY <2>4, TimerFiresCorrect
    <2>5. ASSUME NEW c \in Panes, DebounceFires(c) PROVE Inv'
        BY <2>5, DebounceFiresCorrect
    <2> QED BY <1>4, <2>1, <2>2, <2>3, <2>4, <2>5 DEF Page
<1>5. CASE Server
    BY <1>5, ServerCorrect
<1>6. CASE UNCHANGED vars
    <2>1. /\ stopped' = stopped /\ ws' = ws /\ saw' = saw /\ attempt' = attempt
          /\ timers' = timers /\ hooks' = hooks /\ tries' = tries /\ ended' = ended
          /\ focus' = focus /\ overlay' = overlay /\ sock' = sock
          /\ container' = container /\ fitted' = fitted /\ debounce' = debounce
          /\ reported' = reported
        BY <1>6 DEF vars, clientVars, pageVars, sizeVars
    <2>2. TypeOK'
        BY <2>1 DEF Inv, TypeOK
    <2>3. Events' /\ Mine' /\ OneSocket' /\ Ways' /\ Left' /\ KeysGoOnce'
        BY <2>1 DEF Inv, Events, Mine, OneSocket, Ways, Left, KeysGoOnce
    <2>4. Unopened'
        BY <2>1 DEF Inv, Unopened, Newest
    <2> QED BY <2>2, <2>3, <2>4 DEF Inv
<1> QED BY <1>1, <1>2, <1>3, <1>4, <1>5, <1>6 DEF Next

LEMMA Invariant == Spec => []Inv
<1>1. Init => Inv
    BY InitCorrect, BrowserAssumption
<1>2. Inv /\ [Next]_vars => Inv'
    BY StepCorrect, BrowserAssumption
<1> QED BY <1>1, <1>2, PTL DEF Spec

(* Types hold of the page for any number of sessions, delays and resizes, and *)
(* of sockets no more are needed than clients.                             *)
THEOREM TypeCorrect == Spec => []TypeOK
<1>1. Inv => TypeOK
    BY DEF Inv
<1> QED BY <1>1, Invariant, PTL

(* A key goes out once, over the socket that is open, for any number of      *)
(* sessions and however often their connections were lost.                 *)
THEOREM KeysCorrect == Spec => []KeysGoOnce
<1>1. Inv => KeysGoOnce
    BY DEF Inv
<1> QED BY <1>1, Invariant, PTL

(* A client has one way to a connection: a live socket, a timer or the       *)
(* button, and never two of them.                                          *)
THEOREM AttemptCorrect == Spec => []OneAttempt
<1>1. ASSUME BrowserAssumption, Inv PROVE OneAttempt
    <2> SUFFICES ASSUME NEW c \in Clients
                 PROVE  Cardinality(Live(c)) + timers[c] + (IF overlay = c THEN 1 ELSE 0) <= 1
        BY DEF OneAttempt
    <2>1. /\ timers[c] \in {0, 1} /\ (timers[c] = 1 => overlay # c)
          /\ \A s \in Sockets : sock[s].client = c => timers[c] = 0 /\ overlay # c
        BY <1>1 DEF Inv, Ways
    <2>2. CASE Live(c) = {}
        <3>1. Cardinality(Live(c)) = 0
            BY <2>2, FS_EmptySet
        <3> QED BY <2>1, <3>1
    <2>3. CASE Live(c) # {}
        <3>1. PICK s \in Sockets : sock[s].client = c /\ s \in Live(c)
            BY <2>3 DEF Live
        <3>2. sock[s] # NoSocket
            BY <1>1, <3>1, SocketFacts DEF Inv
        <3>3. Live(c) = {s}
            BY <1>1, <3>1, <3>2 DEF Inv, OneSocket, Live
        <3>4. Cardinality(Live(c)) = 1
            BY <3>3, FS_Singleton
        <3> QED BY <2>1, <3>1, <3>4
    <2> QED BY <2>2, <2>3
<1> QED BY <1>1, Invariant, BrowserAssumption, PTL

(* A session the user has left is connected again by nothing but the button   *)
(* that offers it: not by a timer, a late event or a session opened later.   *)
THEOREM LeftCorrect == Spec => LeftStaysLeft
<1>1. ASSUME BrowserAssumption, Inv, [Next]_vars
      PROVE  [\A c \in Panes : stopped[c] /\ Live(c)' # {} => overlay = c]_vars
    <2> SUFFICES ASSUME NEW c \in Panes, stopped[c], Live(c)' # {}, Next
                 PROVE  overlay = c
        BY <1>1
    <2>1. Inv'
        BY <1>1, StepCorrect
    <2>2. PICK s \in Sockets :
            sock'[s].client = c /\ sock'[s].state \in {"connecting", "open"}
        BY DEF Live
    <2>3. ws'[c] # None
        BY <1>1, <2>1, <2>2, ClientFacts DEF Inv, Mine
    <2>4. ~stopped'[c]
        BY <2>1, <2>3 DEF Inv, Left
    <2>5. stopped \in [Clients -> BOOLEAN] /\ c \in Clients
        BY <1>1, ClientFacts, TypeParts DEF Inv
    <2>6. CASE OpenSession
        <3>1. stopped' = [stopped EXCEPT ![focus'] = FALSE]
              \/ stopped' = [stopped EXCEPT ![focus] = TRUE]
            BY <2>6 DEF OpenSession, Connect
        <3>2. c = focus'
            BY <2>4, <2>5, <3>1
        <3>3. ~stopped[focus']
            <4>1. focus' = Newest + 1 /\ Newest \in Nat
                BY <1>1, <2>6, ClientFacts, TypeParts DEF OpenSession, Inv, Newest
            <4> QED BY <1>1, <3>2, <4>1 DEF Inv, Unopened
        <3> QED BY <3>2, <3>3
    <2>7. CASE Retry
        <3>1. stopped' = [stopped EXCEPT ![overlay] = FALSE]
            BY <2>7 DEF Retry, Connect
        <3> QED BY <2>4, <2>5, <3>1
    <2>8. CASE \E d \in Clients : TimerFires(d)
        <3>1. PICK d \in Clients : TimerFires(d)
            BY <2>8
        <3>2. stopped' = stopped \/ (~stopped[d] /\ stopped' = [stopped EXCEPT ![d] = FALSE])
            BY <3>1 DEF TimerFires, Reconnects, Connect
        <3> QED BY <2>4, <2>5, <3>2
    <2>9. CASE Resize \/ Server \/ (\E d \in Panes : DebounceFires(d))
               \/ \E t \in Sockets : OnOpen(t) \/ OnMessage(t) \/ OnClose(t)
        <3>1. stopped' = stopped
            <4>1. Resize \/ (\E d \in Panes : DebounceFires(d)) => stopped' = stopped
                BY DEF Resize, DebounceFires, clientVars
            <4>2. Server => stopped' = stopped
                BY DEF Server, Serves, Refuses, Fails, EndsPane, ShutsDown, Sends, clientVars
            <4>3. ASSUME NEW t \in Sockets, OnOpen(t) \/ OnMessage(t) \/ OnClose(t)
                  PROVE  stopped' = stopped
                BY <4>3 DEF OnOpen, OnMessage, OnClose, CloseEvent
            <4> QED BY <2>9, <4>1, <4>2, <4>3
        <3> QED BY <2>4, <3>1
    <2> QED BY <2>6, <2>7, <2>8, <2>9 DEF Next, Page
<1>2. Inv /\ [Next]_vars =>
        [\A c \in Panes : stopped[c] /\ Live(c)' # {} => overlay = c]_vars
    BY <1>1, BrowserAssumption
<1> QED BY <1>2, Invariant, PTL DEF Spec, LeftStaysLeft


(***************************************************************************)
(* The size.  Between two sizes of the container its number goes from the     *)
(* container to the terminal, from there to what a client remembers, and      *)
(* with that to its socket; a client that remembers a size without a socket   *)
(* to have told it has ended a connection.                                 *)
(***************************************************************************)
Fits ==
    /\ container > 0 /\ fitted > 0
    /\ focus # None /\ focus \notin debounce => fitted = container

Remembers ==
    \A c \in Panes : reported[c] # 0 =>
        \/ ended[c] # None
        \/ \E s \in Sockets : sock[s].client = c /\ sock[s].state # "connecting"

Informed ==
    \A s \in Sockets :
        /\ sock[s].state = "connecting" => sock[s].size = 0
        /\ sock[s].state = "open" /\ sock[s].client \in Panes =>
            /\ \/ sock[s].size = reported[sock[s].client]
               \/ sock[s].size = 0 /\ ended[sock[s].client] # None
            /\ sock[s].client = focus /\ focus \notin debounce =>
                reported[sock[s].client] = container

Known == Fits /\ Remembers /\ Informed

LEMMA InitKnown ==
    ASSUME BrowserAssumption, Init
    PROVE  Known
<1> DEFINE none == [s \in Sockets |-> NoSocket]
           f == Fresh(none)
<1>1. \E s \in Sockets : none[s] = NoSocket
    <2>1. Sockets # {}
        BY ClientFacts, FS_EmptySet
    <2> QED BY <2>1
<1>2. none \in [Sockets -> Socket \cup {NoSocket}] /\ \A s \in Sockets : none[s] = NoSocket
    OBVIOUS
<1>3. sock = Opening(none, Dash)
    BY DEF Init
<1> HIDE DEF none
<1>4. /\ f \in Sockets
      /\ \A s \in Sockets : s # f => sock[s] = NoSocket
      /\ sock[f].state = "connecting" /\ sock[f].size = 0
    BY <1>1, <1>2, <1>3, OpeningFacts, ClientFacts
<1> HIDE DEF f
<1>5. \A s \in Sockets : sock[s].state = "free" \/ (sock[s].state = "connecting" /\ s = f)
    BY <1>4 DEF NoSocket
<1>6. Fits
    BY DEF Init, Fits
<1>7. Remembers
    BY DEF Init, Remembers
<1>8. Informed
    BY <1>4, <1>5 DEF Informed
<1> QED BY <1>6, <1>7, <1>8 DEF Known

(* Steps that take no part in the size: they may open a socket or close one, *)
(* and move the focus to a client whose resize timer runs.                 *)
LEMMA KnownStays ==
    ASSUME BrowserAssumption, Inv, Known,
           container' = container, fitted' = fitted, reported' = reported, ended' = ended,
           (focus' = focus /\ debounce' = debounce) \/ focus' \in debounce',
           \A t \in Sockets :
              \/ /\ sock'[t].client = sock[t].client /\ sock'[t].state = sock[t].state
                 /\ sock'[t].size = sock[t].size
              \/ sock'[t].state = "connecting" /\ sock'[t].size = 0 /\ sock[t] = NoSocket
              \/ sock'[t].state = "closing" /\ sock'[t].client = sock[t].client
    PROVE  Known'
<1>1. Fits'
    BY DEF Known, Fits
<1>2. Remembers'
    <2> SUFFICES ASSUME NEW c \in Panes, reported[c] # 0, ended[c] = None
                 PROVE  \E s \in Sockets : sock'[s].client = c /\ sock'[s].state # "connecting"
        BY DEF Remembers
    <2>1. PICK s \in Sockets : sock[s].client = c /\ sock[s].state # "connecting"
        BY DEF Known, Remembers
    <2>2. sock[s] # NoSocket
        BY <2>1, ClientFacts, SocketFacts DEF Inv
    <2> QED BY <2>1, <2>2
<1>3. Informed'
    <2> SUFFICES ASSUME NEW t \in Sockets
                 PROVE  /\ sock'[t].state = "connecting" => sock'[t].size = 0
                        /\ sock'[t].state = "open" /\ sock'[t].client \in Panes =>
                            /\ \/ sock'[t].size = reported[sock'[t].client]
                               \/ sock'[t].size = 0 /\ ended[sock'[t].client] # None
                            /\ sock'[t].client = focus' /\ focus' \notin debounce' =>
                                reported[sock'[t].client] = container
        BY DEF Informed
    <2>1. CASE /\ sock'[t].client = sock[t].client /\ sock'[t].state = sock[t].state
               /\ sock'[t].size = sock[t].size
        BY <2>1 DEF Known, Informed
    <2>2. CASE sock'[t].state # "open" /\ (sock'[t].state = "connecting" => sock'[t].size = 0)
        BY <2>2
    <2> QED BY <2>1, <2>2
<1> QED BY <1>1, <1>2, <1>3 DEF Known

LEMMA ConnectKnown ==
    ASSUME BrowserAssumption, Inv, Known, NEW c \in Clients,
           \A s \in Sockets : sock[s].client # c, sock' = Opening(sock, c),
           container' = container, fitted' = fitted, reported' = reported, ended' = ended,
           (focus' = focus /\ debounce' = debounce) \/ focus' \in debounce'
    PROVE  Known'
<1> DEFINE f == Fresh(sock)
<1>1. \E s \in Sockets : sock[s] = NoSocket
    BY FreeSocket DEF Inv
<1>2. sock \in [Sockets -> Socket \cup {NoSocket}]
    BY TypeParts DEF Inv
<1>3. /\ f \in Sockets /\ sock[f] = NoSocket
      /\ \A s \in Sockets : s # f => sock'[s] = sock[s]
      /\ sock'[f].state = "connecting" /\ sock'[f].size = 0
    BY <1>1, <1>2, OpeningFacts
<1> HIDE DEF f
<1>4. \A t \in Sockets :
        \/ /\ sock'[t].client = sock[t].client /\ sock'[t].state = sock[t].state
           /\ sock'[t].size = sock[t].size
        \/ sock'[t].state = "connecting" /\ sock'[t].size = 0 /\ sock[t] = NoSocket
    BY <1>3
<1> QED BY <1>4, KnownStays

LEMMA OpenSessionKnown ==
    ASSUME BrowserAssumption, Inv, Known, OpenSession
    PROVE  Known'
<1>1. /\ focus' = Newest + 1 /\ Newest < MaxOpens /\ focus' \in debounce'
      /\ container' = container /\ fitted' = fitted /\ reported' = reported /\ ended' = ended
    BY DEF OpenSession
<1>2. CASE focus = None
    <2>1. sock' = Opening(sock, focus')
        BY <1>2 DEF OpenSession, Connect
    <2>2. focus' \in Panes /\ focus' > Newest
        <3>1. Panes = 1..MaxOpens /\ MaxOpens \in Nat
            BY ClientFacts DEF Panes
        <3> QED BY <1>1, <1>2, <3>1 DEF Newest
    <2>3. focus' \in Clients /\ \A s \in Sockets : sock[s].client # focus'
        BY <2>2, ClientFacts DEF Inv, Unopened
    <2> QED BY <1>1, <2>1, <2>3, ConnectKnown
<1>3. CASE focus # None
    <2>1. PICK f \in Sockets :
           /\ sock[f] = NoSocket
           /\ sock'[f].state = "connecting" /\ sock'[f].size = 0
           /\ \A t \in Sockets : t # f /\ t # ws[focus] => sock'[t] = sock[t]
           /\ ws[focus] # None =>
                /\ ws[focus] # f
                /\ sock'[ws[focus]].client = focus
                /\ sock'[ws[focus]].state = "closing"
        BY <1>3, SwitchFacts
    <2>2. ws[focus] # None => sock[ws[focus]].client = focus
        BY <1>3, ClientFacts, TypeParts DEF Inv, Mine
    <2>3. \A t \in Sockets :
            \/ /\ sock'[t].client = sock[t].client /\ sock'[t].state = sock[t].state
               /\ sock'[t].size = sock[t].size
            \/ sock'[t].state = "connecting" /\ sock'[t].size = 0 /\ sock[t] = NoSocket
            \/ sock'[t].state = "closing" /\ sock'[t].client = sock[t].client
        BY <2>1, <2>2, ClientFacts
    <2> QED BY <1>1, <2>3, KnownStays
<1> QED BY <1>2, <1>3


LEMMA ResizeKnown ==
    ASSUME BrowserAssumption, Inv, Known, Resize
    PROVE  Known'
<1>1. /\ sock' = sock /\ fitted' = fitted /\ reported' = reported
      /\ focus' = focus /\ ended' = ended /\ container' = container + 1
      /\ debounce' = IF focus = None THEN debounce ELSE debounce \cup {focus}
    BY DEF Resize, clientVars, pageVars
<1>2. container \in Nat
    BY TypeParts DEF Inv, Sizes, BrowserAssumption
<1>3. None \notin Panes
    BY ClientFacts
<1>4. Fits'
    BY <1>1, <1>2 DEF Known, Fits
<1>5. Remembers'
    BY <1>1 DEF Known, Remembers
<1>6. Informed'
    BY <1>1, <1>3 DEF Known, Informed
<1> QED BY <1>4, <1>5, <1>6 DEF Known

(* A first resize after an open connects what the client remembers with what *)
(* is sent: it remembers the size already only if a connection has ended.    *)
LEMMA OnOpenKnown ==
    ASSUME BrowserAssumption, Inv, Known, NEW s \in Sockets, OnOpen(s)
    PROVE  Known'
<1> DEFINE c == sock[s].client
<1> HIDE DEF c
<1>1. /\ container' = container /\ fitted' = fitted /\ debounce' = debounce
      /\ ended' = ended /\ focus' = focus
    BY DEF OnOpen, pageVars
<1>2. /\ sock[s].state = "connecting" /\ c \in Clients
      /\ \A t \in Sockets : sock'[t].client = sock[t].client
      /\ \A t \in Sockets : t # s => sock'[t] = sock[t]
      /\ sock'[s].state = "open"
    BY OnOpenFacts DEF c
<1>3. IF c \in Panes
      THEN /\ \A d \in Panes : d # c => reported'[d] = reported[d]
           /\ reported'[c] = fitted
           /\ IF reported[c] # fitted THEN sock'[s].size = fitted
                                      ELSE sock'[s].size = sock[s].size
      ELSE reported' = reported
    BY OnOpenFacts DEF c
<1>4. \A t \in Sockets : t # s => sock[t].client # c
    <2>1. sock[s] # NoSocket
        BY <1>2, SocketFacts DEF Inv, c
    <2> QED BY <2>1 DEF Inv, OneSocket, c
<1>5. \A d \in Panes : d # c => reported'[d] = reported[d]
    BY <1>3
<1>6. Fits'
    BY <1>1 DEF Known, Fits
<1>7. Remembers'
    <2> SUFFICES ASSUME NEW d \in Panes, reported'[d] # 0, ended[d] = None
                 PROVE  \E u \in Sockets : sock'[u].client = d /\ sock'[u].state # "connecting"
        BY <1>1 DEF Remembers
    <2>1. CASE d = c
        BY <2>1, <1>2 DEF c
    <2>2. CASE d # c
        <3>1. PICK u \in Sockets : sock[u].client = d /\ sock[u].state # "connecting"
            BY <2>2, <1>5 DEF Known, Remembers
        <3>2. u # s
            BY <1>2, <3>1
        <3> QED BY <1>2, <3>1, <3>2
    <2> QED BY <2>1, <2>2
<1>8. Informed'
    <2> SUFFICES ASSUME NEW t \in Sockets
                 PROVE  /\ sock'[t].state = "connecting" => sock'[t].size = 0
                        /\ sock'[t].state = "open" /\ sock'[t].client \in Panes =>
                            /\ \/ sock'[t].size = reported'[sock'[t].client]
                               \/ sock'[t].size = 0 /\ ended[sock'[t].client] # None
                            /\ sock'[t].client = focus /\ focus \notin debounce =>
                                reported'[sock'[t].client] = container
        BY <1>1 DEF Informed
    <2>1. CASE t # s
        <3>1. sock'[t] = sock[t] /\ sock[t].client # c
            BY <2>1, <1>2, <1>4
        <3> QED BY <3>1, <1>5 DEF Known, Informed
    <2>2. CASE t = s /\ c \in Panes
        <3>1. sock'[s].client = c /\ sock[s].size = 0
            BY <1>2 DEF c, Known, Informed
        <3>2. c = focus /\ focus \notin debounce => reported'[c] = container
            BY <2>2, <1>3, ClientFacts DEF Known, Fits
        <3>3. reported[c] = fitted => ended[c] # None
            <4> SUFFICES ASSUME reported[c] = fitted, ended[c] = None PROVE FALSE
                OBVIOUS
            <4>1. reported[c] # 0
                BY DEF Known, Fits
            <4>2. PICK u \in Sockets : sock[u].client = c /\ sock[u].state # "connecting"
                BY <2>2, <4>1 DEF Known, Remembers
            <4> QED BY <1>2, <1>4, <4>2
        <3> QED BY <2>2, <1>2, <1>3, <3>1, <3>2, <3>3
    <2>3. CASE t = s /\ c \notin Panes
        BY <2>3, <1>2 DEF c
    <2> QED BY <2>1, <2>2, <2>3
<1> QED BY <1>6, <1>7, <1>8 DEF Known

LEMMA OnCloseKnown ==
    ASSUME BrowserAssumption, Inv, Known, NEW s \in Sockets, OnClose(s)
    PROVE  Known'
<1> DEFINE c == sock[s].client
<1> HIDE DEF c
<1>1. /\ c \in Clients
      /\ sock'[s] = NoSocket /\ \A t \in Sockets : t # s => sock'[t] = sock[t]
      /\ \E code \in Codes : ended' = [ended EXCEPT ![c] = code]
      /\ focus' = focus /\ container' = container /\ fitted' = fitted
      /\ debounce' = debounce /\ reported' = reported
    BY OnCloseFacts DEF c
<1>2. ended'[c] # None /\ \A d \in Clients : ended[d] # None => ended'[d] # None
    <2>1. ended \in [Clients -> Codes \cup {None}] /\ None \notin Codes
        BY TypeParts DEF Inv, BrowserAssumption
    <2> QED BY <1>1, <2>1
<1>3. Fits'
    BY <1>1 DEF Known, Fits
<1>4. Remembers'
    <2> SUFFICES ASSUME NEW d \in Panes, reported[d] # 0, ended'[d] = None
                 PROVE  \E u \in Sockets : sock'[u].client = d /\ sock'[u].state # "connecting"
        BY <1>1 DEF Remembers
    <2>1. d # c /\ ended[d] = None
        BY <1>2, ClientFacts
    <2>2. PICK u \in Sockets : sock[u].client = d /\ sock[u].state # "connecting"
        BY <2>1 DEF Known, Remembers
    <2> QED BY <1>1, <2>1, <2>2 DEF c
<1>5. Informed'
    <2> SUFFICES ASSUME NEW t \in Sockets
                 PROVE  /\ sock'[t].state = "connecting" => sock'[t].size = 0
                        /\ sock'[t].state = "open" /\ sock'[t].client \in Panes =>
                            /\ \/ sock'[t].size = reported[sock'[t].client]
                               \/ sock'[t].size = 0 /\ ended'[sock'[t].client] # None
                            /\ sock'[t].client = focus /\ focus \notin debounce =>
                                reported[sock'[t].client] = container
        BY <1>1 DEF Informed
    <2>1. CASE t = s
        BY <2>1, <1>1 DEF NoSocket
    <2>2. CASE t # s
        BY <2>2, <1>1, <1>2, ClientFacts DEF Known, Informed
    <2> QED BY <2>1, <2>2
<1> QED BY <1>3, <1>4, <1>5 DEF Known

LEMMA DebounceFiresKnown ==
    ASSUME BrowserAssumption, Inv, Known, NEW c \in Panes, DebounceFires(c)
    PROVE  Known'
<1>1. /\ container' = container /\ fitted' = container /\ debounce' = debounce \ {c}
      /\ focus' = focus /\ ended' = ended /\ ws' = ws
      /\ SendResize(c, sock, container)
    BY DEF DebounceFires, clientVars, pageVars
<1>2. /\ ws[c] \in Sockets \cup {None} /\ (ws[c] # None => sock[ws[c]].client = c)
      /\ (ws[c] # None => sock[ws[c]] \in Socket)
    <2>1. ws[c] \in Sockets \cup {None} /\ c \in Clients
        BY ClientFacts, TypeParts DEF Inv
    <2>2. ws[c] # None => sock[ws[c]].client = c
        BY <2>1 DEF Inv, Mine
    <2> QED BY <2>1, <2>2, SocketFacts DEF Inv
<1>3. /\ \A s \in Sockets : /\ sock'[s].client = sock[s].client
                            /\ sock'[s].state = sock[s].state
                            /\ s # ws[c] => sock'[s].size = sock[s].size
      /\ \A d \in Panes : d # c => reported'[d] = reported[d]
      /\ ws[c] # None /\ sock[ws[c]].state = "open" =>
           /\ reported'[c] = container
           /\ IF reported[c] # container THEN sock'[ws[c]].size = container ELSE sock' = sock
      /\ ~(ws[c] # None /\ sock[ws[c]].state = "open") => sock' = sock /\ reported' = reported
    BY <1>1, <1>2, SendResizeFacts, TypeParts DEF Inv
<1>4. Fits'
    BY <1>1 DEF Known, Fits
<1>5. Remembers'
    <2> SUFFICES ASSUME NEW d \in Panes, reported'[d] # 0, ended[d] = None
                 PROVE  \E u \in Sockets : sock'[u].client = d /\ sock'[u].state # "connecting"
        BY <1>1 DEF Remembers
    <2>1. CASE reported[d] # 0
        <3>1. PICK u \in Sockets : sock[u].client = d /\ sock[u].state # "connecting"
            BY <2>1 DEF Known, Remembers
        <3> QED BY <1>3, <3>1
    <2>2. CASE reported[d] = 0
        <3>1. d = c /\ ws[c] # None /\ sock[ws[c]].state = "open"
            BY <2>2, <1>3
        <3> QED BY <1>2, <1>3, <3>1
    <2> QED BY <2>1, <2>2
<1>6. Informed'
    <2> SUFFICES ASSUME NEW t \in Sockets
                 PROVE  /\ sock'[t].state = "connecting" => sock'[t].size = 0
                        /\ sock'[t].state = "open" /\ sock'[t].client \in Panes =>
                            /\ \/ sock'[t].size = reported'[sock'[t].client]
                               \/ sock'[t].size = 0 /\ ended[sock'[t].client] # None
                            /\ sock'[t].client = focus /\ focus \notin debounce' =>
                                reported'[sock'[t].client] = container
        BY <1>1 DEF Informed
    <2>1. sock[t].state \in {"connecting", "open"} => ws[sock[t].client] = t
        BY DEF Inv, Mine
    <2>2. CASE t = ws[c] /\ sock[t].state = "open"
        <3>1. ws[c] # None
            BY <2>2, ClientFacts
        <3>2. sock'[t].client = c /\ reported'[c] = container
              /\ IF reported[c] # container THEN sock'[t].size = container ELSE sock' = sock
            BY <2>2, <3>1, <1>2, <1>3
        <3>3. sock[t].size = reported[c] \/ (sock[t].size = 0 /\ ended[c] # None)
            BY <2>2, <3>1, <1>2 DEF Known, Informed
        <3>4. sock'[t].size = container \/ (sock'[t].size = 0 /\ ended[c] # None)
            BY <3>2, <3>3
        <3> QED BY <2>2, <1>3, <3>2, <3>4
    <2>3. CASE t # ws[c] \/ sock[t].state # "open"
        <3>1. /\ sock'[t].state = sock[t].state /\ sock'[t].client = sock[t].client
              /\ sock'[t].size = sock[t].size
            BY <2>3, <1>3
        <3>2. sock[t].state = "open" => sock[t].client # c
            BY <2>1, <2>3
        <3>3. sock[t].state = "open" /\ sock[t].client \in Panes =>
                reported'[sock[t].client] = reported[sock[t].client]
            BY <3>2, <1>3
        <3> QED BY <3>1, <3>2, <3>3, <1>1 DEF Known, Informed
    <2> QED BY <2>2, <2>3
<1> QED BY <1>4, <1>5, <1>6 DEF Known

LEMMA StepKnown ==
    ASSUME BrowserAssumption, Inv, Known, [Next]_vars
    PROVE  Known'
<1>1. CASE OpenSession
    BY <1>1, OpenSessionKnown
<1>2. CASE Resize
    BY <1>2, ResizeKnown
<1>3. CASE Retry
    <2>1. /\ overlay \in Clients /\ overlay # None /\ sock' = Opening(sock, overlay)
          /\ \A s \in Sockets : sock[s].client # overlay
        BY <1>3, TypeParts DEF Retry, Connect, Inv, Ways
    <2>2. /\ container' = container /\ fitted' = fitted /\ reported' = reported
          /\ ended' = ended /\ focus' = focus /\ debounce' = debounce
        BY <1>3 DEF Retry, sizeVars
    <2> QED BY <2>1, <2>2, ConnectKnown
<1>4. ASSUME NEW c \in Clients, TimerFires(c) PROVE Known'
    <2>1. /\ container' = container /\ fitted' = fitted /\ reported' = reported
          /\ ended' = ended /\ focus' = focus /\ debounce' = debounce
        BY <1>4 DEF TimerFires, pageVars, sizeVars
    <2>2. CASE stopped[c]
        <3>1. sock' = sock
            BY <1>4, <2>2 DEF TimerFires
        <3> QED BY <2>1, <3>1, KnownStays
    <2>3. CASE ~stopped[c]
        <3>1. sock' = Opening(sock, c) /\ timers[c] # 0
            BY <1>4, <2>3 DEF TimerFires, Reconnects, Connect
        <3>2. \A s \in Sockets : sock[s].client # c
            BY <3>1 DEF Inv, Ways
        <3> QED BY <2>1, <3>1, <3>2, ConnectKnown
    <2> QED BY <2>2, <2>3
<1>5. ASSUME NEW s \in Sockets, NEW q, sock' = Awaits(sock, s, q),
             container' = container, fitted' = fitted, reported' = reported,
             ended' = ended, focus' = focus, debounce' = debounce,
             sock[s] \in Socket, q \in Coming
      PROVE  Known'
    <2>1. sock \in [Sockets -> Socket \cup {NoSocket}]
        BY TypeParts DEF Inv
    <2>2. /\ \A t \in Sockets : t # s => sock'[t] = sock[t]
          /\ sock'[s].client = sock[s].client /\ sock'[s].state = sock[s].state
          /\ sock'[s].size = sock[s].size
        BY <1>5, <2>1, AwaitsFacts
    <2>3. \A t \in Sockets : /\ sock'[t].client = sock[t].client
                             /\ sock'[t].state = sock[t].state
                             /\ sock'[t].size = sock[t].size
        BY <2>2
    <2> QED BY <1>5, <2>3, KnownStays
<1>6. ASSUME NEW s \in Sockets, OnMessage(s) PROVE Known'
    <2>1. /\ sock' = Awaits(sock, s, Tail(sock[s].coming))
          /\ container' = container /\ fitted' = fitted /\ reported' = reported
          /\ ended' = ended /\ focus' = focus /\ debounce' = debounce
          /\ Hears(s, {"seed", "text"})
        BY <1>6 DEF OnMessage, Heard, Awaits, pageVars, sizeVars
    <2>2. /\ sock[s] \in Socket /\ sock[s].coming # <<>>
          /\ Head(sock[s].coming) \in {"seed", "text"}
          /\ sock[s].coming \in Begins \cup Follows \cup {<<"c1006">>}
        BY <2>1, HearsFacts
    <2>3. Tail(sock[s].coming) \in Coming
        BY <2>2, HeardData, ComingFacts
    <2> QED BY <1>5, <2>1, <2>2, <2>3
<1>7. CASE Server
    <2>1. PICK s \in Sockets, q \in Coming : Sends(s, q) /\ sock[s].state # "free"
        <3>1. {<<"open", "seed">>, <<"open", "text", "c1011">>, <<"c1006">>,
               <<"text", "c1011">>, <<"c1001">>} \subseteq Coming
            BY DEF Coming
        <3> QED BY <1>7, <3>1 DEF Server, Serves, Refuses, Fails, EndsPane, ShutsDown
    <2>2. /\ sock' = Awaits(sock, s, q)
          /\ container' = container /\ fitted' = fitted /\ reported' = reported
          /\ ended' = ended /\ focus' = focus /\ debounce' = debounce
        BY <2>1 DEF Sends, Awaits, clientVars, pageVars, sizeVars
    <2>3. sock[s] \in Socket
        BY <2>1, SocketFacts DEF Inv
    <2> QED BY <1>5, <2>1, <2>2, <2>3
<1>8. CASE Page
    BY <1>4, <1>6, <1>8, OnOpenKnown, OnCloseKnown, DebounceFiresKnown DEF Page
<1>9. CASE UNCHANGED vars
    <2>1. /\ sock' = sock /\ focus' = focus /\ ended' = ended
          /\ container' = container /\ fitted' = fitted /\ debounce' = debounce
          /\ reported' = reported
        BY <1>9 DEF vars, clientVars, pageVars, sizeVars
    <2> QED BY <2>1 DEF Known, Fits, Remembers, Informed
<1> QED BY <1>1, <1>2, <1>3, <1>7, <1>8, <1>9 DEF Next

(* The server of an open pane knows the terminal's size once no resize timer  *)
(* runs, or the client thinks it told it before a connection that has ended,   *)
(* for any number of sessions, reconnections and resizes.                  *)
THEOREM SizeCorrect == Spec => []SizeIsTold
<1>1. Init => Inv /\ Known
    BY InitCorrect, InitKnown, BrowserAssumption
<1>2. Inv /\ Known /\ [Next]_vars => Inv' /\ Known'
    BY StepCorrect, StepKnown, BrowserAssumption
<1>3. ASSUME BrowserAssumption, Inv, Known PROVE SizeIsTold
    <2> SUFFICES ASSUME NEW s \in Sockets, sock[s].state = "open", sock[s].client = focus,
                        focus \notin debounce
                 PROVE  \/ sock[s].size = container
                        \/ /\ sock[s].size = 0 /\ ended[focus] # None
                           /\ reported[focus] = container
        BY DEF SizeIsTold, Owner
    <2>1. focus \in Panes
        BY <1>3, SocketFacts, TypeParts, ClientFacts DEF Inv
    <2> QED BY <1>3, <2>1 DEF Known, Informed
<1> QED BY <1>1, <1>2, <1>3, BrowserAssumption, PTL DEF Spec

================================================================================
