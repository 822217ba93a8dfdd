--------------------------------- MODULE Browser ---------------------------------
(***************************************************************************)
(* The connections of one browser page (assets/main.js): the                *)
(* DashboardClient, and a PaneClient for every session the user opens, of   *)
(* which openSession closes the one before.  All share the page's one retry *)
(* overlay and one terminal, whose size each pane's connection is told.      *)
(*                                                                         *)
(* A socket's events (open, message, close) wait in `coming' until the page *)
(* handles them.  The server and the network choose them; the server's      *)
(* handlers send a text frame before every close with 1011 (PaneSession).   *)
(* Time is left out: a timer may fire at any moment.                        *)
(***************************************************************************)
EXTENDS Naturals, Sequences, FiniteSets

CONSTANTS
    MaxOpens,    \* bound: sessions the user opens
    Backoffs,    \* length of RECONNECT_BACKOFFS_MS (5 in the code)
    Sockets,     \* sockets that may exist at a time
    MaxResizes,  \* bound: changes of the container's size
    MaxTries,    \* bound: reconnects that are counted
    None

(* Close codes; c1006 stands for every one main.js does not look at. *)
Codes == {"c1001", "c1006", "c1011"}

ASSUME BrowserAssumption ==
    /\ MaxOpens \in Nat \ {0} /\ Backoffs \in Nat \ {0}
    /\ MaxResizes \in Nat /\ MaxTries \in Nat
    /\ IsFiniteSet(Sockets) /\ Cardinality(Sockets) > MaxOpens   \* enough, never a limit
    /\ None \notin Sockets \cup Nat \cup Codes

Dash    == 0
Panes   == 1..MaxOpens       \* PaneClients, in the order the user opens them
Clients == Panes \cup {Dash}

VARIABLES
    stopped,     \* _stopped of each client
    ws,          \* its socket; None also when that has closed
    saw,         \* _sawAnyMessage
    attempt,     \* _reconnectAttempt
    timers,      \* its reconnect timers that have not fired
    hooks,       \* its listeners on the terminal's keys (_onData)
    focus,       \* window.tmonks.pane
    overlay,     \* whose onRetry the retry overlay holds
    sock,        \* the sockets that exist, each with the last size sent on it
    container,   \* the size of the terminal's container, by its number
    fitted,      \* the size fit() gave the terminal
    debounce,    \* the pane clients whose resize timer runs
    reported,    \* _lastReportedSize of each; 0 for null
    tries,       \* history: reconnects by timer since it last had data or a click
    ended        \* history: code of its last close event

clientVars == <<stopped, ws, saw, attempt, timers, hooks, tries, ended>>
pageVars   == <<focus, overlay>>
sizeVars   == <<container, fitted, debounce, reported>>
vars == <<clientVars, pageVars, sock, sizeVars>>

Coming  == {<<>>, <<"c1001">>, <<"c1006">>, <<"c1011">>, <<"open", "seed">>, <<"seed">>,
            <<"open", "text", "c1011">>, <<"text", "c1011">>}
Sizes   == 0..MaxResizes + 1
NoSocket == [client |-> None, state |-> "free", coming |-> <<>>, size |-> 0]
Socket   == [client : Clients, state : {"connecting", "open", "closing"}, coming : Coming,
             size : Sizes]

TypeOK ==
    /\ stopped \in [Clients -> BOOLEAN] /\ saw \in [Clients -> BOOLEAN]
    /\ ws \in [Clients -> Sockets \cup {None}]
    /\ attempt \in [Clients -> 0..Backoffs]
    /\ timers \in [Clients -> Nat] /\ hooks \in [Clients -> Nat]
    /\ focus \in Panes \cup {None} /\ overlay \in Clients \cup {None}
    /\ sock \in [Sockets -> Socket \cup {NoSocket}]
    /\ tries \in [Clients -> 0..MaxTries]
    /\ ended \in [Clients -> Codes \cup {None}]
    /\ container \in Sizes /\ fitted \in Sizes
    /\ debounce \subseteq Panes /\ reported \in [Panes -> Sizes]

(***************************************************************************)
(* The steps a handler is made of.                                         *)
(***************************************************************************)
Fresh(sk) == CHOOSE s \in Sockets : sk[s] = NoSocket
Opening(sk, c) ==
    [sk EXCEPT ![Fresh(sk)] =
        [client |-> c, state |-> "connecting", coming |-> <<>>, size |-> 0]]

(* ws.close(): no further message is delivered, and a close event comes. *)
Closing(sk, s) ==
    IF s = None THEN sk
    ELSE [sk EXCEPT ![s].state = "closing", ![s].coming = <<"c1006">>]

(* connect() of client c, when the sockets are sk. *)
Connect(c, sk) ==
    /\ stopped' = [stopped EXCEPT ![c] = FALSE]
    /\ saw' = [saw EXCEPT ![c] = FALSE]
    /\ ws' = [ws EXCEPT ![c] = Fresh(sk)]
    /\ sock' = Opening(sk, c)

(* Mutant: the size counts as reported though there was nowhere to send it. *)
SendResizeBlindly(c, sk, size) ==
    /\ reported' = [reported EXCEPT ![c] = size]
    /\ sock' = IF ws[c] # None /\ sk[ws[c]].state = "open" /\ reported[c] # size
               THEN [sk EXCEPT ![ws[c]].size = size] ELSE sk

(* _sendResize, when the sockets are sk and the terminal has this size.     *)
SendResize(c, sk, size) ==
    IF ws[c] # None /\ sk[ws[c]].state = "open" /\ reported[c] # size
    THEN /\ reported' = [reported EXCEPT ![c] = size]
         /\ sock' = [sk EXCEPT ![ws[c]].size = size]
    ELSE sock' = sk /\ UNCHANGED reported

Disposed(c) == [hooks EXCEPT ![c] = IF @ > 0 THEN @ - 1 ELSE 0]

Init ==
    /\ stopped = [c \in Clients |-> FALSE]
    /\ saw = [c \in Clients |-> FALSE]
    /\ ws = [c \in Clients |-> IF c = Dash THEN Fresh([s \in Sockets |-> NoSocket]) ELSE None]
    /\ attempt = [c \in Clients |-> 0]
    /\ timers = [c \in Clients |-> 0]
    /\ hooks = [c \in Clients |-> 0]
    /\ focus = None /\ overlay = None
    /\ sock = Opening([s \in Sockets |-> NoSocket], Dash)
    /\ tries = [c \in Clients |-> 0]
    /\ ended = [c \in Clients |-> None]
    /\ container = 1 /\ fitted = 1
    /\ debounce = {} /\ reported = [c \in Panes |-> 0]

(***************************************************************************)
(* The user.                                                               *)
(***************************************************************************)
Newest == IF focus = None THEN 0 ELSE focus

(* openSession: close() of the pane that has the focus, then a new client,  *)
(* with a ResizeObserver, which begins with a call.                        *)
OpenSession ==
    /\ Newest < MaxOpens
    /\ focus' = Newest + 1
    /\ IF focus = None
       THEN Connect(focus', sock) /\ UNCHANGED hooks
       ELSE LET sk == Closing(sock, ws[focus])
            IN  /\ stopped' = [stopped EXCEPT ![focus] = TRUE]
                /\ hooks' = Disposed(focus)
                /\ ws' = [ws EXCEPT ![focus] = None, ![focus'] = Fresh(sk)]
                /\ sock' = Opening(sk, focus')
                /\ UNCHANGED saw
    /\ debounce' = debounce \cup {focus'}
    /\ UNCHANGED <<attempt, timers, overlay, tries, ended, container, fitted, reported>>

(* The window is resized; the observer tells the client that has the focus. *)
Resize ==
    /\ container <= MaxResizes
    /\ container' = container + 1
    /\ debounce' = IF focus = None THEN debounce ELSE debounce \cup {focus}
    /\ UNCHANGED <<clientVars, pageVars, sock, fitted, reported>>

(* The button of the overlay. *)
Retry ==
    /\ overlay # None
    /\ overlay' = None
    /\ attempt' = [attempt EXCEPT ![overlay] = 0]
    /\ tries' = [tries EXCEPT ![overlay] = 0]
    /\ Connect(overlay, sock)
    /\ UNCHANGED <<timers, hooks, focus, ended, sizeVars>>

(***************************************************************************)
(* The events of a socket.                                                 *)
(***************************************************************************)
Hears(s, events) == sock[s].coming # <<>> /\ Head(sock[s].coming) \in events
Heard(s)         == [sock EXCEPT ![s].coming = Tail(@)]

OnOpen(s) ==
    /\ sock[s].state = "connecting" /\ Hears(s, {"open"})
    /\ LET c == sock[s].client
       IN  /\ attempt' = [attempt EXCEPT ![c] = 0]
           /\ LET sk == [Heard(s) EXCEPT ![s].state = "open"]
              IN  IF c \in Panes
                  THEN /\ hooks' = [hooks EXCEPT ![c] = @ + 1]
                       /\ SendResize(c, sk, fitted)
                  ELSE sock' = sk /\ UNCHANGED <<hooks, reported>>
    /\ UNCHANGED <<stopped, ws, saw, timers, tries, ended, pageVars, container, fitted,
                   debounce>>

(* Mutant: a text frame with an error is not counted as a message. *)
OnMessageData(s) ==
    /\ Hears(s, {"seed", "text"})
    /\ LET c == sock[s].client
       IN  /\ saw' = IF Hears(s, {"seed"}) THEN [saw EXCEPT ![c] = TRUE] ELSE saw
           /\ tries' = IF Hears(s, {"seed"}) THEN [tries EXCEPT ![c] = 0] ELSE tries
    /\ sock' = Heard(s)
    /\ UNCHANGED <<stopped, ws, attempt, timers, hooks, ended, pageVars, sizeVars>>

(* "seed" stands for the server's data: seed and live, sessions and status. *)
OnMessage(s) ==
    /\ Hears(s, {"seed", "text"})
    /\ LET c == sock[s].client
       IN  /\ saw' = [saw EXCEPT ![c] = TRUE]
           /\ tries' = IF Hears(s, {"seed"}) THEN [tries EXCEPT ![c] = 0] ELSE tries
    /\ sock' = Heard(s)
    /\ UNCHANGED <<stopped, ws, attempt, timers, hooks, ended, pageVars, sizeVars>>

(* _onClose of either client; the first branch is PaneClient's alone: it    *)
(* asks the dashboard for a new list, whose refresh() closes and connects.  *)
(* A quiet code ends in silence; the rest is retried after a delay, or      *)
(* offered on the overlay.  disposed is what becomes of the listeners.      *)
CloseEvent(s, disposed, quiet, mayRetry) ==
    /\ Hears(s, Codes)
    /\ LET c    == sock[s].client
           code == Head(sock[s].coming)
           left == [sock EXCEPT ![s] = NoSocket]
           mine == IF ws[c] = s THEN [ws EXCEPT ![c] = None] ELSE ws
       IN  /\ hooks' = disposed
           /\ ended' = [ended EXCEPT ![c] = code]
           /\ IF ~stopped[c] /\ c \in Panes /\ ~saw[c] /\ code = "c1011"
              THEN LET sk == Closing(left, ws[Dash])
                   IN  /\ sock' = Opening(sk, Dash)
                       /\ ws' = [mine EXCEPT ![Dash] = Fresh(sk)]
                       /\ saw' = [saw EXCEPT ![Dash] = FALSE]
                       /\ UNCHANGED <<attempt, timers, overlay>>
              ELSE /\ sock' = left /\ ws' = mine /\ UNCHANGED saw
                   /\ IF stopped[c] \/ code \in quiet
                      THEN UNCHANGED <<attempt, timers, overlay>>
                      ELSE IF mayRetry
                      THEN /\ attempt' = [attempt EXCEPT ![c] = @ + 1]
                           /\ timers' = [timers EXCEPT ![c] = @ + 1]
                           /\ UNCHANGED overlay
                      ELSE overlay' = c /\ UNCHANGED <<attempt, timers>>
    /\ UNCHANGED <<stopped, focus, tries, sizeVars>>

Owner(s) == sock[s].client

(* Mutants: the listener is kept; an abnormal end counts as a normal one;   *)
(* one delay too many.                                                     *)
OnCloseKeepsHook(s) == CloseEvent(s, hooks, {"c1001"}, attempt[Owner(s)] < Backoffs)
OnCloseSilent(s) ==
    CloseEvent(s, Disposed(Owner(s)), {"c1001", "c1006"}, attempt[Owner(s)] < Backoffs)
OnCloseOneMore(s) ==
    CloseEvent(s, Disposed(Owner(s)), {"c1001"}, attempt[Owner(s)] <= Backoffs)

OnClose(s) == CloseEvent(s, Disposed(Owner(s)), {"c1001"}, attempt[Owner(s)] < Backoffs)

(* The callback of the reconnect timer. *)
Reconnects(c) ==
    /\ Connect(c, sock)
    /\ tries' = [tries EXCEPT ![c] = IF @ < MaxTries THEN @ + 1 ELSE @]

(* Mutant: the callback does not look at _stopped. *)
TimerFiresAnyway(c) ==
    /\ timers[c] > 0
    /\ timers' = [timers EXCEPT ![c] = @ - 1]
    /\ Reconnects(c)
    /\ UNCHANGED <<attempt, hooks, ended, pageVars, sizeVars>>

TimerFires(c) ==
    /\ timers[c] > 0
    /\ timers' = [timers EXCEPT ![c] = @ - 1]
    /\ IF stopped[c] THEN UNCHANGED <<stopped, saw, ws, sock, tries>> ELSE Reconnects(c)
    /\ UNCHANGED <<attempt, hooks, ended, pageVars, sizeVars>>

(* The callback of the resize timer: fit(), which all clients share, and    *)
(* _sendResize.  close() does not stop the timer.                          *)
DebounceFires(c) ==
    /\ c \in debounce
    /\ debounce' = debounce \ {c}
    /\ fitted' = container
    /\ SendResize(c, sock, container)
    /\ UNCHANGED <<clientVars, pageVars, container>>

Page == \/ \E s \in Sockets : OnOpen(s) \/ OnMessage(s) \/ OnClose(s)
        \/ \E c \in Clients : TimerFires(c)
        \/ \E c \in Panes : DebounceFires(c)

(***************************************************************************)
(* The server and the network (external).                                  *)
(***************************************************************************)
Sends(s, events) ==
    /\ sock[s].coming = <<>>
    /\ sock' = [sock EXCEPT ![s].coming = events]
    /\ UNCHANGED <<clientVars, pageVars, sizeVars>>

(* The upgrade succeeds whether or not the session exists. *)
Serves(s)   == sock[s].state = "connecting" /\ Sends(s, <<"open", "seed">>)
Refuses(s)  == sock[s].state = "connecting" /\ Owner(s) \in Panes
               /\ Sends(s, <<"open", "text", "c1011">>)
Fails(s)    == sock[s].state \in {"connecting", "open"} /\ Sends(s, <<"c1006">>)
EndsPane(s) == sock[s].state = "open" /\ Owner(s) \in Panes /\ Sends(s, <<"text", "c1011">>)
ShutsDown(s) == sock[s].state = "open" /\ Sends(s, <<"c1001">>)

Server == \E s \in Sockets :
    Serves(s) \/ Refuses(s) \/ Fails(s) \/ EndsPane(s) \/ ShutsDown(s)

Next == OpenSession \/ Resize \/ Retry \/ Page \/ Server

Spec == Init /\ [][Next]_vars

(* The page's event loop runs, and an attempt to connect ends one way or    *)
(* another.  The user owes nothing.                                        *)
Fairness ==
    /\ \A s \in Sockets : WF_vars(OnOpen(s) \/ OnMessage(s) \/ OnClose(s))
    /\ \A c \in Clients : WF_vars(TimerFires(c))
    /\ \A s \in Sockets :
        WF_vars(Serves(s) \/ Refuses(s) \/ (sock[s].state = "connecting" /\ Fails(s)))

FairSpec == Spec /\ Fairness

--------------------------------------------------------------------------------
Live(c) == {s \in Sockets : sock[s].client = c /\ sock[s].state \in {"connecting", "open"}}

(* A key typed into the terminal goes out once: a client listens exactly    *)
(* while its socket is open, however often the connection was lost          *)
(* (main.js:86 adds a listener at each open, :73 and :188 take it away).    *)
KeysGoOnce ==
    \A c \in Panes :
        /\ hooks[c] <= 1
        /\ hooks[c] = 1 <=> ws[c] # None /\ sock[ws[c]].state = "open"

(* A client has one way to a connection at a time: a live socket, a timer,  *)
(* or the button.  With two, the server's frames would be shown twice and a *)
(* second tmux client would stay attached (main.js:205, :513, :526).        *)
OneAttempt ==
    \A c \in Clients :
        Cardinality(Live(c)) + timers[c] + (IF overlay = c THEN 1 ELSE 0) <= 1

(* A session the user has left is not connected again, by a timer that was  *)
(* running or a late close event (main.js:189, :210); only the button that  *)
(* offers it does.                                                         *)
LeftStaysLeft ==
    [][\A c \in Panes : stopped[c] /\ Live(c)' # {} => overlay = c]_vars

(* The server of an open pane knows the terminal's size, once no resize      *)
(* timer runs: resizes while connecting, between two connections and across   *)
(* a switch of session included (main.js:96, :100, :119).  The exception is    *)
(* a connection after the first (main.js:104): the client remembers what it     *)
(* told the one before and says nothing until the size changes.              *)
SizeIsTold ==
    \A s \in Sockets : sock[s].state = "open" /\ Owner(s) = focus /\ focus \notin debounce =>
        \/ sock[s].size = container
        \/ sock[s].size = 0 /\ ended[focus] # None /\ reported[focus] = container

(* A client that lost its connection gets it back, or has used its delays   *)
(* up, unless the server said goodbye or the user has left.                 *)
LostIsRetried ==
    \A c \in Clients :
        ended[c] \in {"c1006", "c1011"} /\ Live(c) = {} ~>
            \/ \E s \in Live(c) : sock[s].state = "open"
            \/ attempt[c] = Backoffs /\ timers[c] = 0 /\ Live(c) = {}
            \/ ended[c] = "c1001"
            \/ stopped[c]

(* "After all 5 exhausted, give up" (main.js:37): without data from the     *)
(* server or a click of the user there are no more reconnects than delays.  *)
RetriesBounded == \A c \in Clients : tries[c] <= Backoffs

================================================================================
