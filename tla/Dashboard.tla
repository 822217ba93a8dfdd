-------------------------------- MODULE Dashboard -------------------------------
(***************************************************************************)
(* One dashboard connection (src/ws_dashboard.rs): the task that owns the   *)
(* WebSocket, the status poller it keeps for every listed session           *)
(* (src/status/poller.rs), the bounded channel between them, and the        *)
(* sidebar at the other end (assets/main.js).  The tmux server behind the   *)
(* polls is external.                                                      *)
(*                                                                         *)
(*  tmux --list-sessions--> dashboard --frames--> sidebar                  *)
(*   |                          ^                                          *)
(*   +--display-message,    poller_rx                                      *)
(*      capture-pane--> pollers-+                                          *)
(*                                                                         *)
(* Time is left out: a tick or a sleep may end at any moment.  A frame      *)
(* reaches the sidebar when it is sent; a socket whose peer reads slowly is *)
(* a dashboard that takes its next step late.                              *)
(***************************************************************************)
EXTENDS Naturals, Sequences, FiniteSets

CONSTANTS
    Sessions,        \* session ids
    Agents, Others,  \* commands match_status knows, and those it does not
    Screens,         \* what the matchers tell apart on an agent's screen
    EventCap,        \* capacity of poller_tx/poller_rx (128 in the code)
    ErrorThreshold,  \* ERROR_THRESHOLD (5)
    None,
    MaxChanges,      \* bound: changes of a pane's command or screen
    MaxFails,        \* bound: polls that fail though the session lives
    MaxFlaps         \* bound: server restarts and listings that miss it

Commands == Agents \cup Others
Statuses == Screens \cup {"unknown"}
Pollers  == Sessions \X (1..MaxFlaps + 1)   \* the k-th poller of a session
Ses(p) == p[1]

ASSUME DashboardAssumption ==
    /\ Agents \cap Others = {}
    /\ Others # {} /\ Screens # {}
    /\ EventCap \in Nat \ {0} /\ ErrorThreshold \in Nat \ {0}
    /\ MaxChanges \in Nat /\ MaxFails \in Nat /\ MaxFlaps \in Nat
    /\ None \notin Statuses \cup {"error"}
    /\ "error" \notin Statuses

VARIABLES
    alive, used,      \* tmux: the sessions, and the ids given out so far
    pane,             \* tmux: the active pane of each session
    changes, fails, flaps,
    dpc,              \* the dashboard task: "start", "loop", "listing" or "done"
    listed,           \* last_sessions
    found,            \* what the list_sessions it awaits has found
    held,             \* keys of the pollers map: the handle of s is of Current(s)
    gen,              \* pollers spawned so far for each session
    ppc,              \* each poller's place
    seen,             \* the command and screen a poll has read
    last,             \* last_status
    errors,           \* consecutive_errors, up to ErrorThreshold + 1
    backedOff,        \* backed_off
    stopped,          \* the pollers' own tokens
    events,           \* poller_tx -> poller_rx
    rows,             \* the sidebar: status and error marker of each row
    socket,           \* "open" or "closed", by the browser
    shutdown          \* the process-wide token

tmuxVars == <<alive, used, pane, changes, fails, flaps>>
dashVars == <<dpc, listed, found, held, gen, stopped>>
pollVars == <<ppc, seen, last, errors, backedOff>>
endVars  == <<socket, shutdown>>
vars == <<tmuxVars, dashVars, pollVars, events, rows, endVars>>

Pane  == [cmd : Commands, screen : Screens]
Row   == [status : Statuses, marked : BOOLEAN]
NoRow == [status |-> None, marked |-> FALSE]

(* match_status: an agent's screen tells its status, any other command none. *)
MatchStatus(cmd, screen) == IF cmd \in Agents THEN screen ELSE "unknown"

(* What a poller sends: StatusChanged or Error, for its session. *)
Event == [session : Sessions, what : Statuses \cup {"error"}]

TypeOK ==
    /\ alive \subseteq used /\ used \subseteq Sessions
    /\ pane \in [Sessions -> Pane]
    /\ changes \in 0..MaxChanges /\ fails \in 0..MaxFails /\ flaps \in 0..MaxFlaps
    /\ dpc \in {"start", "loop", "listing", "done"}
    /\ listed \subseteq Sessions /\ found \subseteq Sessions /\ held \subseteq Sessions
    /\ gen \in [Sessions -> 0..MaxFlaps + 1]
    /\ ppc \in [Pollers -> {"none", "sleep", "asked", "captured", "done"}]
    /\ seen \in [Pollers -> Pane]
    /\ last \in [Pollers -> Statuses \cup {None}]
    /\ errors \in [Pollers -> 0..ErrorThreshold + 1]
    /\ backedOff \in [Pollers -> BOOLEAN]
    /\ stopped \subseteq Pollers
    /\ events \in Seq(Event) /\ Len(events) <= EventCap
    /\ rows \in [Sessions -> Row \cup {NoRow}]
    /\ socket \in {"open", "closed"} /\ shutdown \in BOOLEAN

Current(s) == <<s, gen[s]>>
BlankPane  == CHOOSE p \in Pane : p.cmd \in Others

Init ==
    /\ used \in SUBSET Sessions /\ alive = used
    /\ pane \in [Sessions -> Pane]
    /\ changes = 0 /\ fails = 0 /\ flaps = 0
    /\ dpc = "start" /\ listed = {} /\ found = {} /\ held = {}
    /\ gen = [s \in Sessions |-> 0]
    /\ ppc = [p \in Pollers |-> "none"]
    /\ seen = [p \in Pollers |-> BlankPane]
    /\ last = [p \in Pollers |-> None]
    /\ errors = [p \in Pollers |-> 0]
    /\ backedOff = [p \in Pollers |-> FALSE]
    /\ stopped = {}
    /\ events = <<>>
    /\ rows = [s \in Sessions |-> NoRow]
    /\ socket = "open" /\ shutdown = FALSE

(***************************************************************************)
(* The sidebar (assets/main.js, Sidebar).                                  *)
(***************************************************************************)

(* Mutant: the list is built anew. *)
RenderedAfresh(items) ==
    [s \in Sessions |->
        IF s \notin items THEN NoRow ELSE [status |-> "unknown", marked |-> FALSE]]

(* renderSessions: a set-diff merge that keeps the rows that stay. *)
Rendered(items) ==
    [s \in Sessions |->
        IF s \notin items THEN NoRow
        ELSE IF rows[s] = NoRow THEN [status |-> "unknown", marked |-> FALSE]
        ELSE rows[s]]

(* updateStatus and markError: of a session without a row nothing is kept. *)
RowAfter(ev) ==
    IF rows[ev.session] = NoRow THEN rows
    ELSE IF ev.what = "error"
    THEN [rows EXCEPT ![ev.session].marked = TRUE]
    ELSE [rows EXCEPT ![ev.session].status = ev.what]

(***************************************************************************)
(* A poller: poll_loop and poll_once.                                      *)
(***************************************************************************)
Cancelled(p) == shutdown \/ p \in stopped

(* events.try_send, its result ignored. *)
TrySend(p, what) ==
    IF dpc # "done" /\ Len(events) < EventCap
    THEN events' = Append(events, [session |-> Ses(p), what |-> what])
    ELSE UNCHANGED events

(* The select is biased: the token is looked at before the sleep's end. *)
PollerStops(p) ==
    /\ ppc[p] = "sleep"
    /\ Cancelled(p)
    /\ ppc' = [ppc EXCEPT ![p] = "done"]
    /\ UNCHANGED <<tmuxVars, dashVars, seen, last, errors, backedOff, events, rows,
                   endVars>>

(* The sleep ends and display-message tells the active pane's command. *)
PollerAsks(p) ==
    /\ ppc[p] = "sleep"
    /\ ~Cancelled(p)
    /\ Ses(p) \in alive
    /\ ppc' = [ppc EXCEPT ![p] = "asked"]
    /\ seen' = [seen EXCEPT ![p].cmd = pane[Ses(p)].cmd]
    /\ UNCHANGED <<tmuxVars, dashVars, last, errors, backedOff, events, rows, endVars>>

(* capture-pane, a second process: the screen may belong to another command. *)
PollerCaptures(p) ==
    /\ ppc[p] = "asked"
    /\ Ses(p) \in alive
    /\ ppc' = [ppc EXCEPT ![p] = "captured"]
    /\ seen' = [seen EXCEPT ![p].screen = pane[Ses(p)].screen]
    /\ UNCHANGED <<tmuxVars, dashVars, last, errors, backedOff, events, rows, endVars>>

(* Mutant: what was sent before counts as sent for good. *)
ReportsOnce(p) ==
    /\ ppc[p] = "captured"
    /\ LET status == MatchStatus(seen[p].cmd, seen[p].screen)
       IN  IF backedOff[p] \/ last[p] = None
           THEN /\ TrySend(p, status)
                /\ last' = [last EXCEPT ![p] = status]
           ELSE UNCHANGED <<events, last>>
    /\ errors' = [errors EXCEPT ![p] = 0]
    /\ backedOff' = [backedOff EXCEPT ![p] = FALSE]
    /\ ppc' = [ppc EXCEPT ![p] = "sleep"]
    /\ UNCHANGED <<tmuxVars, dashVars, seen, rows, endVars>>

(* A successful poll: StatusChanged when it differs from the cache, or on    *)
(* the way out of a back-off.  The cache is set whether or not it was sent. *)
PollerReports(p) ==
    /\ ppc[p] = "captured"
    /\ LET status == MatchStatus(seen[p].cmd, seen[p].screen)
       IN  IF backedOff[p] \/ last[p] # status
           THEN /\ TrySend(p, status)
                /\ last' = [last EXCEPT ![p] = status]
           ELSE UNCHANGED <<events, last>>
    /\ errors' = [errors EXCEPT ![p] = 0]
    /\ backedOff' = [backedOff EXCEPT ![p] = FALSE]
    /\ ppc' = [ppc EXCEPT ![p] = "sleep"]
    /\ UNCHANGED <<tmuxVars, dashVars, seen, rows, endVars>>

(* Either command fails, because the session is gone or for reasons of its  *)
(* own.  Only the failure that reaches the threshold is reported.           *)
PollerFails(p) ==
    /\ \/ ppc[p] = "sleep" /\ ~Cancelled(p)
       \/ ppc[p] = "asked"
    /\ \/ Ses(p) \notin alive /\ UNCHANGED fails
       \/ Ses(p) \in alive /\ fails < MaxFails /\ fails' = fails + 1
    /\ LET n == errors[p] + 1
       IN  /\ errors' = [errors EXCEPT ![p] = IF n > ErrorThreshold THEN ErrorThreshold + 1
                                              ELSE n]
           /\ IF n = ErrorThreshold
              THEN /\ TrySend(p, "error")
                   /\ last' = [last EXCEPT ![p] = None]
                   /\ backedOff' = [backedOff EXCEPT ![p] = TRUE]
              ELSE UNCHANGED <<events, last, backedOff>>
    /\ ppc' = [ppc EXCEPT ![p] = "sleep"]
    /\ UNCHANGED <<alive, used, pane, changes, flaps, dashVars, seen, rows, endVars>>

Poller(p) ==
    PollerStops(p) \/ PollerAsks(p) \/ PollerCaptures(p) \/ PollerReports(p) \/ PollerFails(p)

(***************************************************************************)
(* The dashboard task: run_dashboard.                                      *)
(***************************************************************************)

(* spawn_poller for each of S, after stop() for each of T. *)
Spawn(S, T) ==
    /\ stopped' = stopped \cup {Current(s) : s \in T}
    /\ gen' = [s \in Sessions |-> IF s \in S THEN gen[s] + 1 ELSE gen[s]]
    /\ ppc' = [p \in Pollers |->
                  IF Ses(p) \in S /\ p[2] = gen[Ses(p)] + 1 THEN "sleep" ELSE ppc[p]]

(* list_sessions: the sessions there are, or none when tmux says there is no *)
(* server to connect to.                                                   *)
Lists(now) ==
    \/ now = alive /\ UNCHANGED flaps
    \/ now = {} /\ alive # {} /\ flaps < MaxFlaps /\ flaps' = flaps + 1

(* The first snapshot; a listing that fails is an empty one. *)
DashStarts ==
    /\ dpc = "start"
    /\ IF socket = "open"
       THEN \E now \in {alive, {}} :
               /\ Spawn(now, {})
               /\ held' = now /\ listed' = now
               /\ rows' = Rendered(now)
               /\ dpc' = "loop"
       ELSE /\ dpc' = "done"
            /\ UNCHANGED <<held, listed, rows, stopped, gen, ppc>>
    /\ UNCHANGED <<tmuxVars, found, seen, last, errors, backedOff, events, endVars>>

(* The two-second tick asks for the sessions, and the task awaits the answer *)
(* inside the arm, deaf to everything else.  What it finds may be out of     *)
(* date by then.  A listing that finds no change leaves all as it was, as    *)
(* does one that fails: neither is a step here.                            *)
DashLists ==
    /\ dpc = "loop" /\ ~shutdown
    /\ \E now \in SUBSET Sessions : Lists(now) /\ now # listed /\ found' = now
    /\ dpc' = "listing"
    /\ UNCHANGED <<alive, used, pane, changes, fails, listed, held, gen, stopped,
                   pollVars, events, rows, endVars>>

(* The listing has changed: pollers are spawned for S and stopped for T, and *)
(* the frame is sent.                                                      *)
Reconciles(S, T) ==
    /\ dpc = "listing"
    /\ Spawn(S, T)
    /\ held' = found /\ listed' = found
    /\ rows' = Rendered(found)
    /\ dpc' = "loop"
    /\ UNCHANGED <<tmuxVars, found, seen, last, errors, backedOff, events, endVars>>

(* Mutant: the pollers of sessions that have gone are forgotten, not stopped. *)
TicksWithoutStop == Reconciles(found \ held, {})

(* Mutant: pollers are spawned for the sessions that have one already. *)
TicksSpawnAll == Reconciles(found, held \ found)

(* reconcile_pollers, and the frame.  When the frame cannot be sent the task  *)
(* ends (DashEnds), having stopped what it has just spawned.                *)
DashTicks == Reconciles(found \ held, held \ found)

(* A poller's event becomes a frame. *)
DashForwards ==
    /\ dpc = "loop" /\ ~shutdown /\ socket = "open"
    /\ events # <<>>
    /\ events' = Tail(events)
    /\ rows' = RowAfter(Head(events))
    /\ UNCHANGED <<tmuxVars, dashVars, pollVars, endVars>>

(* Mutant: the handles are dropped, which cancels nothing. *)
EndsWithoutStop ==
    /\ dpc = "loop"
    /\ shutdown \/ socket = "closed"
    /\ dpc' = "done"
    /\ held' = {}
    /\ events' = <<>>
    /\ UNCHANGED <<tmuxVars, listed, found, gen, stopped, pollVars, rows, endVars>>

(* Shutdown, or the socket's end, seen by recv or by a send that fails: every *)
(* handle is stopped, poller_rx dropped.                                   *)
DashEnds ==
    /\ dpc = "loop"
    /\ shutdown \/ socket = "closed"
    /\ stopped' = stopped \cup {Current(s) : s \in held}
    /\ dpc' = "done"
    /\ held' = {}
    /\ events' = <<>>
    /\ UNCHANGED <<tmuxVars, listed, found, gen, pollVars, rows, endVars>>

Dash == DashStarts \/ DashLists \/ DashTicks \/ DashForwards \/ DashEnds

(***************************************************************************)
(* The tmux server, the browser and the process's shutdown (external).     *)
(***************************************************************************)
SessionStarts(s) ==
    /\ s \notin used
    /\ used' = used \cup {s} /\ alive' = alive \cup {s}
    /\ UNCHANGED <<pane, changes, fails, flaps, dashVars, pollVars, events, rows, endVars>>

SessionEnds(s) ==
    /\ s \in alive
    /\ alive' = alive \ {s}
    /\ UNCHANGED <<used, pane, changes, fails, flaps, dashVars, pollVars, events, rows,
                   endVars>>

(* A new server gives the ids out again. *)
ServerRestarts ==
    /\ flaps < MaxFlaps
    /\ flaps' = flaps + 1
    /\ alive' = {} /\ used' = {}
    /\ UNCHANGED <<pane, changes, fails, dashVars, pollVars, events, rows, endVars>>

PaneChanges(s) ==
    /\ s \in alive
    /\ changes < MaxChanges
    /\ changes' = changes + 1
    /\ \E p \in Pane \ {pane[s]} : pane' = [pane EXCEPT ![s] = p]
    /\ UNCHANGED <<alive, used, fails, flaps, dashVars, pollVars, events, rows, endVars>>

Closes ==
    /\ socket = "open"
    /\ socket' = "closed"
    /\ UNCHANGED <<tmuxVars, dashVars, pollVars, events, rows, shutdown>>

ShutsDown ==
    /\ ~shutdown
    /\ shutdown' = TRUE
    /\ UNCHANGED <<tmuxVars, dashVars, pollVars, events, rows, socket>>

Next ==
    \/ \E p \in Pollers : Poller(p)
    \/ Dash
    \/ \E s \in Sessions : SessionStarts(s) \/ SessionEnds(s) \/ PaneChanges(s)
    \/ ServerRestarts \/ Closes \/ ShutsDown

Spec == Init /\ [][Next]_vars

(***************************************************************************)
(* Fairness: the tasks are polled, the timers fire and every tmux process   *)
(* ends, one way or the other; of the server and the browser nothing is     *)
(* asked.  A success is not owed: a poll may fail while MaxFails allows it.  *)
(* Nor is a listing that wrongly comes back empty.                         *)
(***************************************************************************)
Fairness ==
    /\ \A p \in Pollers : WF_vars(Poller(p))
    /\ WF_vars(DashStarts \/ DashEnds)
    /\ WF_vars(DashLists /\ UNCHANGED flaps) /\ WF_vars(DashTicks)
    /\ WF_vars(DashForwards)

FairSpec == Spec /\ Fairness

--------------------------------------------------------------------------------
(* Every poller that has not been told to stop is one the dashboard can     *)
(* still stop: no task outlives its session's row or its connection        *)
(* (ws_dashboard.rs:131 and :165).                                         *)
NoPollerLeak ==
    \A p \in Pollers : ppc[p] \notin {"none", "done"} /\ p \notin stopped =>
        dpc \in {"loop", "listing"} /\ Ses(p) \in held /\ p = Current(Ses(p))

(* The sidebar shows what the poller believes it shows.  A poller is silent *)
(* while its status equals its cache (poller.rs:107), so a row that is not  *)
(* what the cache says stays wrong until the status changes.               *)
BadgeMatchesCache ==
    \A s \in held :
        LET p == Current(s)
        IN  last[p] # None /\ (\A i \in DOMAIN events : events[i].session # s)
            => rows[s].status = last[p]

(* "{type:"status", ...} on transition" (ws_dashboard.rs:8): once a pane has *)
(* stopped changing, its row comes to show its status, and keeps it, though  *)
(* a poll may have paired one program's name with another's screen.  (Of the *)
(* status alone: the error marker is MarkerClears.)                          *)
Serving == dpc \in {"loop", "listing"} /\ socket = "open" /\ ~shutdown
BadgeConverges ==
    <>[](Serving => \A s \in alive :
            rows[s].status = MatchStatus(pane[s].cmd, pane[s].screen))

(* "The UI surfaces a small inline marker; the next successful poll clears    *)
(* it" (poller.rs:50-51): a session whose polls succeed has no marker.       *)
MarkerClears ==
    <>[](Serving => \A s \in alive \cap held :
            errors[Current(s)] = 0 => ~rows[s].marked)

(* Status and marker are promised both; the first where no id comes back is  *)
(* BadgeConverges above.  With ids that come back, one behaviour of the code *)
(* breaks the two together.                                                *)
RowRecovers == BadgeConverges \/ MarkerClears

(* When the browser goes or the process shuts down, the dashboard and all   *)
(* its pollers end, the ones in the middle of a poll included.             *)
AllEnd ==
    shutdown \/ socket = "closed" ~>
        dpc = "done" /\ \A p \in Pollers : ppc[p] \in {"none", "done"}

================================================================================
