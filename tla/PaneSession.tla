------------------------------- MODULE PaneSession -------------------------------
(***************************************************************************)
(* One pane connection (src/ws_pane.rs): run_pane_session, which finds the  *)
(* active pane, seeds the browser and then routes events to it, and the     *)
(* inbound task beside it, which turns the browser's frames into commands.  *)
(*                                                                         *)
(*   tmux --events--> main ----------sent--------> browser                 *)
(*    ^                ^-outq-- inbound <--inq----'                        *)
(*    '-----cmds-------+--------'                                          *)
(*                                                                         *)
(* The driver between them and tmux is modelled by what ControlMode shows   *)
(* of it: commands run in the order sent, a caller gets the reply of its    *)
(* own command, or an error, or gives up; an event that tmux wrote before a *)
(* reply is in the channel before the caller has the reply; a command waits  *)
(* for room among those on their way, and no timeout runs meanwhile.  The    *)
(* driver's reader has no step of its own here: the two tasks may be as late *)
(* as they like.                                                           *)
(***************************************************************************)
EXTENDS Naturals, Sequences, FiniteSets, Functions

CONSTANTS
    Panes,        \* panes of the session
    None,
    QueueCap,     \* capacity of ws_outbound_tx/ws_outbound_rx (64 in the code)
    CmdCap,       \* room for commands on their way: cmd_tx, the writer's hand
                  \* and pending_tx (64 + 1 + 64 in the code)
    MaxOutputs,   \* bound: %output events
    MaxNotices,   \* bound: %window-pane-changed and %client-detached
    MaxFrames     \* bound: frames the browser sends

ASSUME PaneSessionAssumption ==
    /\ Panes # {} /\ None \notin Panes \cup {"main", "inbound"}
    /\ QueueCap \in Nat \ {0} /\ CmdCap \in Nat \ {0}
    /\ MaxOutputs \in Nat /\ MaxNotices \in Nat /\ MaxFrames \in Nat

VARIABLES
    active,     \* tmux: the active pane of the session
    written,    \* tmux: how much each pane has written
    notices,
    driver,     \* "none", "up", "leaving" after %exit, "dead"
    cmds,       \* commands sent and not yet run; one whose caller gave up has caller None
    ran,        \* history: the inbound frames tmux has acted upon, in order
    events,     \* the driver's event channel
    mpc,        \* place of run_pane_session
    pane,       \* active_pane, shared by the two tasks
    outq,       \* ws_outbound_tx -> ws_outbound_rx: how many answers it holds
    epoch,      \* history: pane changes the main loop has handled
    seed,       \* history: the pane and how much of it the seed shows
    drained,    \* history: the events thrown away after the seed
    sent,       \* history: seed, live and close frames sent to the browser
    ipc, hand,  \* place of the inbound task, and the frame it has taken up
    inq,        \* the browser's frames
    frames,
    browser,    \* "open" or "closed"
    shutdown,   \* the process-wide token
    late        \* history: it was cancelled between the first two polls of a select

tmuxVars == <<active, written, notices>>
driverVars == <<driver, cmds, ran, events>>
mainVars == <<mpc, pane, epoch, seed, drained, sent>>
inVars   == <<ipc, hand>>
webVars  == <<inq, frames, browser, shutdown, late>>
vars == <<tmuxVars, driverVars, mainVars, outq, inVars, webVars>>

(* Events: "output" n of a pane, "switch" to a pane, "detached", "exit". *)
Event   == [kind : {"output", "switch", "detached", "exit"}, pane : Panes \cup {None}, n : Nat]
Ev(k, p, n) == [kind |-> k, pane |-> p, n |-> n]
(* The browser's frames: stdin or a resize, which the two tasks treat alike, *)
(* a request for the scrollback, the close.                                 *)
Inbound == [kind : {"input", "scroll", "close"}, n : Nat]
NoFrame == [kind |-> "close", n |-> 0]
Command == [what : {"display", "capture", "input", "scroll"},
            caller : {"main", "inbound", None}, n : Nat]
Frame   == [kind : {"seed", "live"}, pane : Panes, n : Nat, epoch : Nat]
Closing == [kind : {"close"}, code : {1001, 1011}]

TypeOK ==
    /\ active \in Panes /\ written \in [Panes -> Nat]
    /\ notices \in 0..MaxNotices
    /\ driver \in {"none", "up", "leaving", "dead"}
    /\ cmds \in Seq(Command) /\ ran \in Seq(1..MaxFrames)
    /\ events \in Seq(Event)
    /\ mpc \in {"connect", "display", "known", "capture", "captured", "drain", "loop",
                "answers", "events", "abort", "closing", "done"}
    /\ pane \in Panes \cup {None}
    /\ outq \in 0..QueueCap
    /\ epoch \in Nat
    /\ seed \in [pane : Panes \cup {None}, n : Nat]
    /\ drained \subseteq Event
    /\ sent \in Seq(Frame \cup Closing)
    /\ ipc \in {"none", "select", "send", "wait", "answer", "done"}
    /\ hand \in Inbound
    /\ inq \in Seq(Inbound) /\ frames \in 0..MaxFrames
    /\ browser \in {"open", "closed"} /\ shutdown \in BOOLEAN /\ late \in BOOLEAN

Init ==
    /\ active \in Panes
    /\ written = [p \in Panes |-> 0]
    /\ notices = 0
    /\ driver = "none" /\ cmds = <<>> /\ ran = <<>> /\ events = <<>>
    /\ mpc = "connect" /\ pane = None /\ outq = 0 /\ epoch = 0
    /\ seed = [pane |-> None, n |-> 0] /\ drained = {} /\ sent = <<>>
    /\ ipc = "none" /\ hand = NoFrame
    /\ inq = <<>> /\ frames = 0 /\ browser = "open" /\ shutdown = FALSE /\ late = FALSE

(***************************************************************************)
(* Sending a command, and no longer waiting for it.  Room is asked for       *)
(* before: the main task sends one command at a time before there is an      *)
(* inbound task, and so finds nothing on the way.                           *)
(***************************************************************************)
Sends(who, what, n) == cmds' = Append(cmds, [what |-> what, caller |-> who, n |-> n])
Orphaned(who) ==
    [i \in DOMAIN cmds |->
        IF cmds[i].caller = who THEN [cmds[i] EXCEPT !.caller = None] ELSE cmds[i]]

ToBrowser(f) == sent' = Append(sent, f)
Close(code)  == [kind |-> "close", code |-> code]
ToClosing    == mpc' = "closing"

(***************************************************************************)
(* run_pane_session up to the main loop.                                   *)
(***************************************************************************)
Connects ==
    /\ mpc = "connect"
    /\ \/ /\ driver' = "up" /\ mpc' = "display"
          /\ Sends("main", "display", 0)
       \/ ToClosing /\ UNCHANGED <<driver, cmds>>       \* "session not found"
    /\ UNCHANGED <<tmuxVars, ran, events, pane, epoch, seed, drained, sent, outq, inVars,
                   webVars>>

AsksSeed ==
    /\ mpc = "known"
    /\ IF driver = "up"
       THEN mpc' = "capture" /\ Sends("main", "capture", 0)
       ELSE ToClosing /\ UNCHANGED cmds
    /\ UNCHANGED <<tmuxVars, driver, ran, events, pane, epoch, seed, drained, sent, outq,
                   inVars, webVars>>

(* Three seconds for display-message, five for capture-pane. *)
MainTimesOut ==
    /\ mpc \in {"display", "capture"}
    /\ ToClosing
    /\ cmds' = Orphaned("main")
    /\ UNCHANGED <<tmuxVars, driver, ran, events, pane, epoch, seed, drained, sent, outq,
                   inVars, webVars>>

(* send_error_close, then the return that drops the driver's handle. *)
ClosesWithError ==
    /\ mpc = "closing"
    /\ ToBrowser(Close(1011))
    /\ mpc' = "done"
    /\ UNCHANGED <<tmuxVars, driverVars, pane, epoch, seed, drained, outq, inVars, webVars>>

SendsSeed ==
    /\ mpc = "captured"
    /\ \/ /\ ToBrowser([kind |-> "seed", pane |-> seed.pane, n |-> seed.n, epoch |-> 0])
          /\ mpc' = "drain"
       \/ browser = "closed" /\ mpc' = "done" /\ UNCHANGED sent
    /\ UNCHANGED <<tmuxVars, driverVars, pane, epoch, seed, drained, outq, inVars, webVars>>

(* The drain: events.recv() under a timeout of zero, until it finds nothing. *)
Drains ==
    /\ mpc = "drain"
    /\ events # <<>>
    /\ events' = Tail(events)
    /\ drained' = drained \cup {Head(events)}
    /\ UNCHANGED <<tmuxVars, driver, cmds, ran, mpc, pane, epoch, seed, sent, outq, inVars,
                   webVars>>

(* Mutant: no drain before the main loop. *)
StartsAtOnce ==
    /\ mpc = "drain"
    /\ mpc' = "loop" /\ ipc' = "select"
    /\ UNCHANGED <<tmuxVars, driverVars, pane, epoch, seed, drained, sent, outq, hand, webVars>>

(* Nothing is queued: the inbound task is spawned, the loop begins. *)
Starts ==
    /\ mpc = "drain"
    /\ events = <<>>
    /\ mpc' = "loop" /\ ipc' = "select"
    /\ UNCHANGED <<tmuxVars, driverVars, pane, epoch, seed, drained, sent, outq, hand, webVars>>

Setup == Connects \/ AsksSeed \/ MainTimesOut \/ ClosesWithError \/ SendsSeed \/ Drains \/ Starts

(***************************************************************************)
(* The main loop.  Its select is biased: shutdown, the inbound task's       *)
(* answers, events.  It polls one after the other, and the world does not    *)
(* stand still between two polls: mpc is the arm that is polled next, "loop"  *)
(* the first.  A poll that finds nothing is woken to begin anew.            *)
(***************************************************************************)
Leaves == mpc' = "abort"
Polls(arm, next) ==
    /\ mpc = arm
    /\ mpc' = next
    /\ UNCHANGED <<tmuxVars, driverVars, pane, epoch, seed, drained, sent, outq, inVars, webVars>>

LoopShutdown ==
    /\ mpc = "loop"
    /\ shutdown
    /\ ToBrowser(Close(1001))
    /\ Leaves
    /\ UNCHANGED <<tmuxVars, driverVars, pane, epoch, seed, drained, outq, inVars, webVars>>

LoopRuns == ~shutdown /\ Polls("loop", "answers")

LoopAnswers ==
    /\ mpc = "answers"
    /\ outq > 0
    /\ outq' = outq - 1
    /\ mpc' = "loop"
    /\ UNCHANGED <<tmuxVars, driverVars, pane, epoch, seed, drained, sent, inVars, webVars>>

NoAnswer == outq = 0 /\ ipc # "done"
NoSender == outq = 0 /\ ipc = "done"

(* Mutant: the select takes its arms in any order. *)
LoopInboundGoneAnyOrder ==
    /\ mpc \in {"loop", "answers"}
    /\ NoSender
    /\ Leaves
    /\ UNCHANGED <<tmuxVars, driverVars, pane, epoch, seed, drained, sent, outq, inVars, webVars>>

(* Mutant: the main loop keeps a sender of its own. *)
LoopInboundGoneNever == NoSender /\ Polls("answers", "events")

(* The inbound task has ended and with it the only sender: recv() is None.   *)
(* It may have ended because of a cancel that came after the first poll.     *)
LoopInboundGone ==
    /\ mpc = "answers"
    /\ NoSender
    /\ Leaves
    /\ UNCHANGED <<tmuxVars, driverVars, pane, epoch, seed, drained, sent, outq, inVars, webVars>>

LoopNoAnswer == NoAnswer /\ Polls("answers", "events")

Receives(kinds) ==
    /\ mpc = "events"
    /\ events # <<>> /\ Head(events).kind \in kinds
    /\ events' = Tail(events)
    /\ UNCHANGED <<tmuxVars, driver, cmds, ran, seed, drained, outq, inVars, webVars>>

(* Output of another pane is left out. *)
LoopOutput ==
    /\ Receives({"output"})
    /\ LET ev == Head(events)
       IN  IF ev.pane = pane
           THEN ToBrowser([kind |-> "live", pane |-> pane, n |-> ev.n, epoch |-> epoch])
           ELSE UNCHANGED sent
    /\ mpc' = "loop"
    /\ UNCHANGED <<pane, epoch>>

(* WindowPaneChanged: the filter follows, without a new seed. *)
LoopSwitch ==
    /\ Receives({"switch"})
    /\ pane' = Head(events).pane
    /\ epoch' = epoch + 1
    /\ mpc' = "loop"
    /\ UNCHANGED sent

LoopTold ==
    /\ Receives({"detached", "exit"})
    /\ ToBrowser(Close(1011))
    /\ Leaves
    /\ UNCHANGED <<pane, epoch>>

(* events.recv() is None: the driver's tasks are gone. *)
LoopEventsEnd == events = <<>> /\ driver = "dead" /\ Polls("events", "abort")

LoopNoEvent == events = <<>> /\ driver # "dead" /\ Polls("events", "loop")

(* A send of an answer or of live output that finds the socket gone. *)
LoopSendFails ==
    /\ browser = "closed"
    /\ \/ outq > 0 /\ Polls("answers", "abort")
       \/ /\ events # <<>> /\ Head(events).kind = "output" /\ Head(events).pane = pane
          /\ Polls("events", "abort")

(* inbound_task.abort() and its await; the handle goes with the two tasks. *)
Aborts ==
    /\ mpc = "abort"
    /\ mpc' = "done" /\ ipc' = "done"
    /\ hand' = NoFrame
    /\ cmds' = Orphaned("inbound")
    /\ outq' = 0
    /\ UNCHANGED <<tmuxVars, driver, ran, events, pane, epoch, seed, drained, sent, webVars>>

Loop ==
    \/ LoopShutdown \/ LoopRuns
    \/ LoopAnswers \/ LoopInboundGone \/ LoopNoAnswer
    \/ LoopOutput \/ LoopSwitch \/ LoopTold \/ LoopEventsEnd \/ LoopNoEvent \/ LoopSendFails
    \/ Aborts

(***************************************************************************)
(* The inbound task.                                                       *)
(***************************************************************************)
InboundStops ==
    /\ ipc = "select"
    /\ \/ shutdown
       \/ inq # <<>> /\ Head(inq).kind = "close"
    /\ ipc' = "done"
    /\ UNCHANGED <<tmuxVars, driverVars, mainVars, outq, hand, webVars>>

(* A request for the scrollback is answered, with it or with an error frame; *)
(* of everything else the result is ignored.                               *)
AfterReply(kind) == IF kind = "scroll" THEN "answer" ELSE "select"

InboundTakes ==
    /\ ipc = "select" /\ ~shutdown
    /\ inq # <<>> /\ Head(inq).kind # "close"
    /\ inq' = Tail(inq) /\ hand' = Head(inq)
    /\ ipc' = "send"
    /\ UNCHANGED <<tmuxVars, driverVars, mainVars, outq, frames, browser, shutdown, late>>

(* cmd_tx.send(..).await: as long as there is no room the task waits here,   *)
(* deaf to the browser and to the token, and no timeout runs.               *)
InboundSends ==
    /\ ipc = "send"
    /\ driver = "up" /\ Len(cmds) < CmdCap
    /\ Sends("inbound", hand.kind, hand.n)
    /\ ipc' = "wait"
    /\ UNCHANGED <<tmuxVars, driver, ran, events, mainVars, outq, hand, webVars>>

(* The writer is gone. *)
InboundRefused ==
    /\ ipc = "send"
    /\ driver # "up"
    /\ ipc' = AfterReply(hand.kind) /\ hand' = NoFrame
    /\ UNCHANGED <<tmuxVars, driverVars, mainVars, outq, webVars>>

(* Mutant: a command that timed out is sent again. *)
InboundRetries ==
    /\ ipc = "wait"
    /\ ipc' = AfterReply(hand.kind) /\ hand' = NoFrame
    /\ cmds' = Append(Orphaned("inbound"), [what |-> hand.kind, caller |-> None, n |-> hand.n])
    /\ UNCHANGED <<tmuxVars, driver, ran, events, mainVars, outq, webVars>>

(* Two seconds, twelve for the scrollback.  The command stays on its way. *)
InboundTimesOut ==
    /\ ipc = "wait"
    /\ ipc' = AfterReply(hand.kind) /\ hand' = NoFrame
    /\ cmds' = Orphaned("inbound")
    /\ UNCHANGED <<tmuxVars, driver, ran, events, mainVars, outq, webVars>>

(* Mutant: an answer is queued whether or not there is room. *)
InboundAnswersUnbounded ==
    /\ ipc = "answer"
    /\ outq' = outq + 1
    /\ ipc' = "select"
    /\ UNCHANGED <<tmuxVars, driverVars, mainVars, hand, webVars>>

(* ws_outbound_tx.send(..).await *)
InboundAnswers ==
    /\ ipc = "answer"
    /\ outq < QueueCap
    /\ outq' = outq + 1
    /\ ipc' = "select"
    /\ UNCHANGED <<tmuxVars, driverVars, mainVars, hand, webVars>>

InboundTask ==
    \/ InboundStops \/ InboundTakes \/ InboundSends \/ InboundRefused
    \/ InboundTimesOut \/ InboundAnswers

(***************************************************************************)
(* tmux, behind the driver (external).                                     *)
(***************************************************************************)
Total == FoldFunction(LAMBDA m, n : m + n, 0, written)

Runs(what) ==
    /\ driver = "up"
    /\ cmds # <<>> /\ Head(cmds).what = what
    /\ cmds' = Tail(cmds)
    /\ UNCHANGED <<tmuxVars, driver, events, epoch, drained, sent, outq, webVars>>
Awaited(who) == Head(cmds).caller = who

(* To the inbound task, if it still waits. *)
Replies ==
    IF Awaited("inbound")
    THEN ipc' = AfterReply(hand.kind) /\ hand' = NoFrame
    ELSE UNCHANGED inVars

TmuxDisplays ==
    /\ Runs("display")
    /\ \/ Awaited("main") /\ pane' = active /\ mpc' = "known"
       \/ Awaited("main") /\ ToClosing /\ UNCHANGED pane
       \/ ~Awaited("main") /\ UNCHANGED <<pane, mpc>>
    /\ UNCHANGED <<ran, seed, inVars>>

(* The seed shows what the pane has written by now. *)
TmuxCaptures ==
    /\ Runs("capture")
    /\ \/ /\ Awaited("main")
          /\ seed' = [pane |-> pane, n |-> written[pane]]
          /\ mpc' = "captured"
       \/ Awaited("main") /\ ToClosing /\ UNCHANGED seed
       \/ ~Awaited("main") /\ UNCHANGED <<seed, mpc>>
    /\ UNCHANGED <<ran, pane, inVars>>

TmuxTakesInput ==
    /\ Runs("input")
    /\ \/ ran' = Append(ran, Head(cmds).n)
       \/ UNCHANGED ran
    /\ Replies
    /\ UNCHANGED <<mpc, pane, seed>>

TmuxScrolls ==
    /\ Runs("scroll")
    /\ Replies
    /\ UNCHANGED <<ran, mpc, pane, seed>>

TmuxWrites(p) ==
    /\ driver = "up"
    /\ Total < MaxOutputs
    /\ written' = [written EXCEPT ![p] = @ + 1]
    /\ events' = Append(events, Ev("output", p, written[p] + 1))
    /\ UNCHANGED <<active, notices, driver, cmds, ran, mainVars, outq, inVars, webVars>>

TmuxSwitches(p) ==
    /\ driver = "up"
    /\ p # active
    /\ notices < MaxNotices
    /\ notices' = notices + 1
    /\ active' = p
    /\ events' = Append(events, Ev("switch", p, 0))
    /\ UNCHANGED <<written, driver, cmds, ran, mainVars, outq, inVars, webVars>>

TmuxDetaches ==
    /\ driver = "up"
    /\ notices < MaxNotices
    /\ notices' = notices + 1
    /\ events' = Append(events, Ev("detached", None, 0))
    /\ UNCHANGED <<active, written, driver, cmds, ran, mainVars, outq, inVars, webVars>>

(* %exit ends the driver's reader, the child's death its supervisor: each    *)
(* fails the calls that wait and tells of an exit.                          *)
DriverFails(place) ==
    /\ driver' = place
    /\ cmds' = <<>>
    /\ events' = Append(events, Ev("exit", None, 0))
    /\ mpc' = IF mpc \in {"display", "capture"} THEN "closing" ELSE mpc
    /\ IF ipc = "wait" THEN ipc' = AfterReply(hand.kind) /\ hand' = NoFrame
                       ELSE UNCHANGED inVars
    /\ UNCHANGED <<tmuxVars, ran, pane, epoch, seed, drained, sent, outq, webVars>>

TmuxExits  == driver = "up" /\ DriverFails("leaving")
DriverEnds == driver \in {"up", "leaving"} /\ DriverFails("dead")

Tmux ==
    \/ TmuxDisplays \/ TmuxCaptures \/ TmuxTakesInput \/ TmuxScrolls
    \/ \E p \in Panes : TmuxWrites(p) \/ TmuxSwitches(p)
    \/ TmuxDetaches \/ TmuxExits \/ DriverEnds

(***************************************************************************)
(* The browser and the process (external).                                 *)
(***************************************************************************)
BrowserSends ==
    /\ browser = "open"
    /\ frames < MaxFrames
    /\ frames' = frames + 1
    /\ \E k \in {"input", "scroll"} : inq' = Append(inq, [kind |-> k, n |-> frames + 1])
    /\ UNCHANGED <<tmuxVars, driverVars, mainVars, outq, inVars, browser, shutdown, late>>

BrowserCloses ==
    /\ browser = "open"
    /\ browser' = "closed"
    /\ inq' = Append(inq, NoFrame)
    /\ UNCHANGED <<tmuxVars, driverVars, mainVars, outq, inVars, frames, shutdown, late>>

ShutsDown ==
    /\ ~shutdown
    /\ shutdown' = TRUE
    /\ late' = (mpc = "answers")
    /\ UNCHANGED <<tmuxVars, driverVars, mainVars, outq, inVars, inq, frames, browser>>

Next ==
    \/ Setup \/ Loop \/ InboundTask \/ Tmux
    \/ BrowserSends \/ BrowserCloses \/ ShutsDown

Spec == Init /\ [][Next]_vars

(***************************************************************************)
(* Fairness: the two tasks are polled, their timers fire, and a socket that *)
(* is open takes what is sent.  The driver of a token that is cancelled, or *)
(* of a session that has returned, ends (ControlMode, TeardownCompletes), as *)
(* does one whose child has said %exit.  Of tmux nothing is asked.          *)
(***************************************************************************)
Fairness ==
    /\ WF_vars(Setup) /\ WF_vars(MainTimesOut)
    /\ WF_vars(Loop)
    /\ WF_vars(InboundTask)
    /\ WF_vars((shutdown \/ mpc = "done" \/ driver = "leaving") /\ DriverEnds)

FairSpec == Spec /\ Fairness

--------------------------------------------------------------------------------
Sent(kind) == {i \in DOMAIN sent : sent[i].kind = kind}

(* Live output goes on where the seed, or the last live frame, ended: none  *)
(* of what the seed shows is drawn again (the plan's "no double-scrollback"  *)
(* and "park-until-seed", ws_pane.rs:147), and while no pane change is      *)
(* handled none is left out, whatever comes between.                        *)
LiveFollows ==
    /\ \A i \in Sent("live") :
            sent[i].pane = seed.pane => sent[i].n > seed.n
    /\ \A i, j \in Sent("live") :
            i < j /\ sent[i].epoch = sent[j].epoch =>
                /\ sent[j].n > sent[i].n
                /\ (~ \E k \in Sent("live") : i < k /\ k < j) => sent[j].n = sent[i].n + 1

(* Input and resizes take effect in the order they were sent, each once,    *)
(* although the inbound task gives a slow command up and goes on            *)
(* (ws_pane.rs:193 and :208, their results ignored).                        *)
InputInOrder ==
    \A i, j \in DOMAIN ran : i < j => ran[i] < ran[j]

(* A session that ends by itself tells the browser with a close frame, so   *)
(* that main.js can tell a shutdown (1001) from a failure (1011).  Two ends  *)
(* are silent: an Exit lost in the drain, and a cancel that reaches the      *)
(* inbound task after the main loop has looked at the token and before it    *)
(* looks for an answer.                                                    *)
EndIsAnnounced ==
    /\ mpc \in {"abort", "done"} /\ browser = "open" =>
         \/ Sent("close") # {}
         \/ \E d \in drained : d.kind = "exit"
         \/ late
    /\ Cardinality(Sent("close")) <= 1

(* A shutdown or a dead child ends both tasks, the ones that wait for a      *)
(* reply or for room in a queue included.  So does a browser that goes,      *)
(* unless the inbound task waits for ever for room for a command of an       *)
(* earlier frame, behind commands a hung tmux does not run.                 *)
Ended == mpc = "done" /\ ipc \in {"none", "done"}
SendHangs == ipc = "send" /\ Len(cmds) = CmdCap
SessionEnds ==
    /\ shutdown \/ driver = "dead" ~> Ended
    /\ (browser = "closed" ~> Ended) \/ <>[]SendHangs

(* "Drain any `%output` events queued before now [..] these bytes are        *)
(* already represented in the screen state we just sent" (ws_pane.rs:147).  *)
DrainedIsSeeded ==
    \A d \in drained :
        d.kind = "output" /\ (d.pane = seed.pane => d.n <= seed.n)

================================================================================
