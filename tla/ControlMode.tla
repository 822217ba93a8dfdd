------------------------------ MODULE ControlMode ------------------------------
(***************************************************************************)
(* The driver of one `tmux -CC attach` child (src/tmux/control_mode.rs):   *)
(* callers of send_command, the writer task, the reader task, the          *)
(* supervisor task, the bounded channels between them, the shutdown token  *)
(* and, as far as the driver depends on it, the tmux child behind the pty. *)
(*                                                                         *)
(*   callers --cmdChan--> writer --tmuxIn--> tmux child                    *)
(*                          |                    |                         *)
(*                      pendingChan           ptyOut                       *)
(*                          v                    v                         *)
(*                       pending  <--------   reader --eventChan-> consumer*)
(*                                                                         *)
(* A command stands for the oneshot sender its caller waits on: the same   *)
(* value travels through cmdChan, pendingChan, pending and inFlight.  Every *)
(* command is sent at most once, so a retry is another command.            *)
(***************************************************************************)
EXTENDS Naturals, Sequences, FiniteSets

CONSTANTS
    Commands,       \* calls of send_command_with_timeout
    Own,            \* those the owner of event_rx awaits itself
    Detach,         \* the detach-client request of ControlMode::shutdown
    None,           \* "no command"
    CmdCap,         \* capacity of cmd_tx/cmd_rx (64 in the code)
    PendingCap,     \* capacity of pending_tx/pending_rx (64)
    EventCap,       \* EVENT_CHANNEL_CAPACITY (1024)
    PtyCap,         \* commands the pty buffers before write_all blocks
    CoalesceLimit,  \* COALESCE_LIMIT (32)
    MaxOutputs,     \* bound: %output lines the child emits
    MaxNotes        \* bound: notifications and unsolicited blocks it emits

AllCommands == Commands \cup {Detach}

ASSUME CommandsAssumption ==
    /\ Detach \notin Commands
    /\ None \notin AllCommands
    /\ Own \subseteq Commands

ASSUME CapacityAssumption ==
    /\ CmdCap \in Nat \ {0} /\ PendingCap \in Nat \ {0}
    /\ EventCap \in Nat \ {0} /\ PtyCap \in Nat \ {0}
    /\ CoalesceLimit \in Nat \ {0}
    /\ MaxOutputs \in Nat /\ MaxNotes \in Nat

VARIABLES
    call,        \* what has become of each call of send_command
    reply,       \* the block an answered call received
    handle,      \* "open", "closing" inside ControlMode::shutdown, "closed"
    cmdChan,     \* cmd_tx -> cmd_rx
    wpc, wcmd,   \* the writer's place, and the request it has in hand
    pendingChan, \* pending_tx -> pending_rx
    pending,     \* the Arc<Mutex<VecDeque<..>>> reader and supervisor share
    rpc, rline,  \* the reader's place, and the line it has in hand
    attempts,    \* timed-out rounds of forward_or_coalesce
    inFlight,    \* in_flight.oneshot
    buf,         \* in_flight.buf: for each line, the block it was part of
    eventChan,   \* event_tx -> event_rx
    consumer,    \* the owner of event_rx: "reading", "ended" or "gone"
    heard,       \* number of the last %output the consumer received
    spc,         \* the supervisor's place
    cancelled,   \* the CancellationToken
    child,       \* "running", "leaving" or "exited"
    tmuxIn,      \* commands written to the pty and not yet run
    open,        \* TRUE while tmux is between %begin and %end
    ran,         \* history: what tmux ran, in order, with its verdict
    ptyOut,      \* lines written by tmux and not yet read
    emitted, noted,  \* history: %output lines and notifications so far
    registered,  \* history: the commands registered, in order
    matched      \* history: how many flags=1 blocks the reader has seen begin

callVars  == <<call, reply, handle>>
writeVars == <<wpc, wcmd, registered>>
readVars  == <<rpc, rline, attempts, inFlight, buf, matched>>
eventVars == <<eventChan, consumer, heard>>
childVars == <<child, tmuxIn, open, ran, ptyOut, emitted, noted>>
vars == <<callVars, cmdChan, writeVars, pendingChan, pending, readVars,
          eventVars, spc, cancelled, childVars>>

(* Where a call can be, and the states from which send_command has returned. *)
Returned  == {"answered", "failed", "gaveup"}
CallState == {"idle", "sending", "waiting"} \cup Returned

(* A line on the pty, as LineClassifier::feed classifies it.  Of a block    *)
(* line, num is the position of its command among those tmux ran (0 for an  *)
(* unsolicited block); of an %output, its position in the pane's stream.    *)
LineKind == {"begin", "data", "end", "error", "output", "note", "exit"}
Line     == [kind : LineKind, flags : {0, 1}, num : Nat]
MkLine(k, f, n) == [kind |-> k, flags |-> f, num |-> n]
ExitLine == MkLine("exit", 0, 0)
NoLine   == MkLine("note", 0, 0)     \* nothing in the reader's hand

Reply   == [ok : BOOLEAN, body : Seq(Nat)]
NoReply == [ok |-> FALSE, body |-> <<>>]

Elems(s) == {s[i] : i \in DOMAIN s}

CallerTypeOK ==
    /\ call \in [Commands -> CallState]
    /\ reply \in [Commands -> Reply]
    /\ handle \in {"open", "closing", "closed"}
    /\ cancelled \in BOOLEAN

WriterTypeOK ==
    /\ cmdChan \in Seq(AllCommands) /\ Len(cmdChan) <= CmdCap
    /\ wpc \in {"select", "register", "write", "done"}
    /\ wcmd \in AllCommands \cup {None}
    /\ pendingChan \in Seq(AllCommands) /\ Len(pendingChan) <= PendingCap
    /\ registered \in Seq(AllCommands)

ReaderTypeOK ==
    /\ pending \in Seq(AllCommands)
    /\ rpc \in {"select", "match", "coalesce", "send", "drain", "drop", "done"}
    /\ rline \in Line
    /\ attempts \in Nat
    /\ inFlight \in AllCommands \cup {None}
    /\ buf \in Seq(Nat)
    /\ matched \in Nat

EventTypeOK ==
    /\ eventChan \in Seq(Line) /\ Len(eventChan) <= EventCap
    /\ consumer \in {"reading", "ended", "gone"}
    /\ heard \in Nat
    /\ spc \in {"watch", "kill", "report", "cancel", "done"}

ChildTypeOK ==
    /\ child \in {"running", "leaving", "exited"}
    /\ tmuxIn \in Seq(AllCommands)
    /\ open \in BOOLEAN
    /\ ran \in Seq([cmd : AllCommands, ok : BOOLEAN])
    /\ ptyOut \in Seq(Line)
    /\ emitted \in Nat
    /\ noted \in Nat

TypeOK ==
    CallerTypeOK /\ WriterTypeOK /\ ReaderTypeOK /\ EventTypeOK /\ ChildTypeOK

Init ==
    /\ call = [c \in Commands |-> "idle"]
    /\ reply = [c \in Commands |-> NoReply]
    /\ handle = "open"
    /\ cmdChan = <<>>
    /\ wpc = "select" /\ wcmd = None
    /\ pendingChan = <<>>
    /\ pending = <<>>
    /\ rpc = "select" /\ rline = NoLine /\ attempts = 0
    /\ inFlight = None /\ buf = <<>>
    /\ eventChan = <<>> /\ consumer = "reading" /\ heard = 0
    /\ spc = "watch"
    /\ cancelled = FALSE
    /\ child = "running" /\ tmuxIn = <<>> /\ open = FALSE
    /\ ran = <<>> /\ ptyOut = <<>> /\ emitted = 0 /\ noted = 0
    /\ registered = <<>> /\ matched = 0

(***************************************************************************)
(* Channels and oneshots.                                                  *)
(***************************************************************************)

(* Dropping or failing the senders in S: a caller that still waits gets an *)
(* error, one that has given up (or detach-client's, whose receiver was    *)
(* never kept) does not notice.                                            *)
Failing(S) ==
    [c \in Commands |->
        IF c \in S /\ call[c] = "waiting" THEN "failed" ELSE call[c]]

WriterGone == wpc = "done"      \* cmd_rx and the pty's write half are dropped
ReaderGone == rpc = "done"      \* pending_rx and the read half are dropped
(* Mutant: a send that does not wait for a permit. *)
EventRoomUnchecked == TRUE
EventRoom  == Len(eventChan) < EventCap
Emit(ev)   == eventChan' = Append(eventChan, ev)

(* Mutant: the guard is dropped before the await. *)
LockReleasedEarly == TRUE
(* The supervisor's guard on `pending` lives until supervisor_loop returns, *)
(* across the await on the Exit event and the cancel.  The reader's         *)
(* critical sections hold no await and are single steps.                    *)
PendingUnlocked == spc \notin {"report", "cancel"}

(***************************************************************************)
(* Callers: send_command_with_timeout, shutdown, and whoever cancels.      *)
(***************************************************************************)

(* run_session in ws_pane.rs asks its own questions first, awaiting each    *)
(* reply, and spawns the task that sends all other commands after that.     *)
Calling(S)   == \E c \in S : call[c] \in {"sending", "waiting"}
OwnersTurn(c) ==
    IF c \in Own THEN ~Calling(Commands) /\ \A d \in Commands \ Own : call[d] = "idle"
                 ELSE ~Calling(Own)

Call(c) ==
    /\ call[c] = "idle"
    /\ OwnersTurn(c)
    /\ call' = [call EXCEPT ![c] = "sending"]
    /\ UNCHANGED <<reply, handle, cmdChan, writeVars, pendingChan, pending,
                   readVars, eventVars, spc, cancelled, childVars>>

(* cmd_tx.send(pending).await goes through: not under the timeout, so while *)
(* a hung tmux keeps writer and channels full the caller stays in "sending". *)
Enqueue(c) ==
    /\ call[c] = "sending"
    /\ ~WriterGone
    /\ Len(cmdChan) < CmdCap
    /\ cmdChan' = Append(cmdChan, c)
    /\ call' = [call EXCEPT ![c] = "waiting"]
    /\ UNCHANGED <<reply, handle, writeVars, pendingChan, pending, readVars,
                   eventVars, spc, cancelled, childVars>>

(* Mutant: cmd_rx outlives the writer, and a send to it waits for room. *)
RefusedNever(c) == FALSE /\ UNCHANGED vars

(* "control-mode writer has shut down" *)
Refused(c) ==
    /\ call[c] = "sending"
    /\ WriterGone
    /\ call' = [call EXCEPT ![c] = "failed"]
    /\ UNCHANGED <<reply, handle, cmdChan, writeVars, pendingChan, pending,
                   readVars, eventVars, spc, cancelled, childVars>>

(* Mutant: the caller takes its place in the FIFO with it. *)
TimeoutUnqueues(c) ==
    /\ call[c] = "waiting"
    /\ call' = [call EXCEPT ![c] = "gaveup"]
    /\ pending' = SelectSeq(pending, LAMBDA d : d # c)
    /\ UNCHANGED <<reply, handle, cmdChan, writeVars, pendingChan, readVars,
                   eventVars, spc, cancelled, childVars>>

(* Mutant: the oneshot is awaited without a timeout. *)
TimeoutMissing(c) == FALSE /\ UNCHANGED vars

(* "command timed out": the receiver is dropped, the sender stays queued. *)
Timeout(c) ==
    /\ call[c] = "waiting"
    /\ call' = [call EXCEPT ![c] = "gaveup"]
    /\ UNCHANGED <<reply, handle, cmdChan, writeVars, pendingChan, pending,
                   readVars, eventVars, spc, cancelled, childVars>>

(* The caller's future is dropped, as when ws_pane.rs aborts its inbound task. *)
Abandon(c) ==
    /\ call[c] \in {"sending", "waiting"}
    /\ call' = [call EXCEPT ![c] = "gaveup"]
    /\ UNCHANGED <<reply, handle, cmdChan, writeVars, pendingChan, pending,
                   readVars, eventVars, spc, cancelled, childVars>>

(* ControlMode::shutdown, first half: try_send of detach-client. *)
ShutdownDetach ==
    /\ handle = "open"
    /\ handle' = "closing"
    /\ cmdChan' = IF ~WriterGone /\ Len(cmdChan) < CmdCap
                  THEN Append(cmdChan, Detach) ELSE cmdChan
    /\ UNCHANGED <<call, reply, writeVars, pendingChan, pending, readVars,
                   eventVars, spc, cancelled, childVars>>

(* ControlMode::shutdown, second half. *)
ShutdownCancel ==
    /\ handle = "closing"
    /\ handle' = "closed"
    /\ cancelled' = TRUE
    /\ UNCHANGED <<call, reply, cmdChan, writeVars, pendingChan, pending,
                   readVars, eventVars, spc, childVars>>

(* The handle is dropped, or the process-wide parent token is cancelled. *)
CancelToken ==
    /\ ~cancelled
    /\ cancelled' = TRUE
    /\ UNCHANGED <<callVars, cmdChan, writeVars, pendingChan, pending, readVars,
                   eventVars, spc, childVars>>

(***************************************************************************)
(* The writer task: writer_loop.                                           *)
(***************************************************************************)

(* Leaving writer_loop drops cmd_rx with the requests still in it, and the *)
(* senders in S.                                                           *)
WriterLeaves(S) ==
    /\ wpc' = "done"
    /\ wcmd' = None
    /\ cmdChan' = <<>>
    /\ call' = Failing(Elems(cmdChan) \cup S)

WriterCancelled ==
    /\ wpc = "select"
    /\ cancelled
    /\ WriterLeaves({})
    /\ UNCHANGED <<reply, handle, registered, pendingChan, pending, readVars,
                   eventVars, spc, cancelled, childVars>>

(* The select is biased: the token is looked at before cmd_rx. *)
WriterRecv ==
    /\ wpc = "select"
    /\ ~cancelled
    /\ cmdChan # <<>>
    /\ wcmd' = Head(cmdChan)
    /\ cmdChan' = Tail(cmdChan)
    /\ wpc' = "register"
    /\ UNCHANGED <<callVars, registered, pendingChan, pending, readVars,
                   eventVars, spc, cancelled, childVars>>

(* pending_tx.send(..).await: waits for room, deaf to the token. *)
WriterRegister ==
    /\ wpc = "register"
    /\ ~ReaderGone
    /\ Len(pendingChan) < PendingCap
    /\ pendingChan' = Append(pendingChan, wcmd)
    /\ registered' = Append(registered, wcmd)
    /\ wpc' = "write"
    /\ UNCHANGED <<callVars, cmdChan, wcmd, pending, readVars, eventVars, spc,
                   cancelled, childVars>>

WriterUnregistered ==
    /\ wpc = "register"
    /\ ReaderGone
    /\ WriterLeaves({wcmd})
    /\ UNCHANGED <<reply, handle, registered, pendingChan, pending, readVars,
                   eventVars, spc, cancelled, childVars>>

(* write_all and flush: wait for room in the pty, deaf to the token. *)
WriterWrite ==
    /\ wpc = "write"
    /\ Len(tmuxIn) < PtyCap
    /\ tmuxIn' = Append(tmuxIn, wcmd)
    /\ wpc' = "select"
    /\ wcmd' = None
    /\ UNCHANGED <<callVars, cmdChan, registered, pendingChan, pending, readVars,
                   eventVars, spc, cancelled, child, open, ran, ptyOut, emitted,
                   noted>>

WriterWriteFails ==
    /\ wpc = "write"
    /\ child = "exited"
    /\ WriterLeaves({})
    /\ UNCHANGED <<reply, handle, registered, pendingChan, pending, readVars,
                   eventVars, spc, cancelled, childVars>>

Writer ==
    \/ WriterCancelled
    \/ WriterRecv
    \/ WriterRegister
    \/ WriterUnregistered
    \/ WriterWrite
    \/ WriterWriteFails

(***************************************************************************)
(* The reader task: reader_loop and forward_or_coalesce.                   *)
(***************************************************************************)

(* Leaving the loop fails the block in flight, "control-mode reader exited  *)
(* mid-block", on the way to pending.lock().await.                         *)
ReaderLeaves ==
    /\ rpc' = "drain"
    /\ rline' = NoLine
    /\ call' = Failing({inFlight})
    /\ inFlight' = None
    /\ buf' = <<>>

(* Out of the loop at the top of it: cancelled, or end of file. *)
ReaderStops ==
    /\ rpc = "select"
    /\ cancelled \/ (ptyOut = <<>> /\ child = "exited")
    /\ ReaderLeaves
    /\ UNCHANGED <<reply, handle, cmdChan, writeVars, pendingChan, pending,
                   attempts, matched, eventVars, spc, cancelled, childVars>>

(* The select is biased, so a line is read only before the cancel. *)
Reading(kinds) ==
    /\ rpc = "select"
    /\ ~cancelled
    /\ ptyOut # <<>>
    /\ Head(ptyOut).kind \in kinds
    /\ ptyOut' = Tail(ptyOut)
    /\ UNCHANGED <<handle, cmdChan, writeVars, pendingChan, pending, consumer,
                   heard, spc, cancelled, child, tmuxIn, open, ran, emitted,
                   noted>>

(* BeginBlock { flags: 1 }: on to pending.lock().await.  Any other flags    *)
(* only clear auto_buf, which nothing reads.                               *)
ReadBegin ==
    /\ Reading({"begin"})
    /\ IF Head(ptyOut).flags = 1
       THEN rpc' = "match" /\ rline' = Head(ptyOut)
       ELSE UNCHANGED <<rpc, rline>>
    /\ UNCHANGED <<call, reply, attempts, inFlight, buf, matched, eventChan>>

(* BlockLine: to the caller in flight, if there is one. *)
ReadData ==
    /\ Reading({"data"})
    /\ buf' = IF inFlight = None THEN buf ELSE Append(buf, Head(ptyOut).num)
    /\ UNCHANGED <<call, reply, rpc, rline, attempts, inFlight, matched, eventChan>>

(* Mutant: an error block is taken for a success. *)
ReadEndIgnoringError ==
    /\ Reading({"end", "error"})
    /\ IF Head(ptyOut).flags = 1 /\ inFlight # None
       THEN /\ inFlight' = None
            /\ buf' = <<>>
            /\ IF inFlight \in Commands /\ call[inFlight] = "waiting"
               THEN /\ call' = [call EXCEPT ![inFlight] = "answered"]
                    /\ reply' = [reply EXCEPT ![inFlight] = [ok |-> TRUE, body |-> buf]]
               ELSE UNCHANGED <<call, reply>>
       ELSE UNCHANGED <<inFlight, buf, call, reply>>
    /\ UNCHANGED <<rpc, rline, attempts, matched, eventChan>>

(* EndBlock and ErrorBlock: a flags=1 block answers the caller in flight. *)
ReadEnd ==
    /\ Reading({"end", "error"})
    /\ IF Head(ptyOut).flags = 1 /\ inFlight # None
       THEN /\ inFlight' = None
            /\ buf' = <<>>
            /\ IF inFlight \in Commands /\ call[inFlight] = "waiting"
               THEN /\ call' = [call EXCEPT ![inFlight] = "answered"]
                    /\ reply' = [reply EXCEPT ![inFlight] =
                         [ok |-> Head(ptyOut).kind = "end", body |-> buf]]
               ELSE UNCHANGED <<call, reply>>
       ELSE UNCHANGED <<inFlight, buf, call, reply>>
    /\ UNCHANGED <<rpc, rline, attempts, matched, eventChan>>

(* Output, first try_send: full means the back-off, closed ends the loop. *)
ReadOutput ==
    /\ Reading({"output"})
    /\ \/ /\ consumer = "reading" /\ EventRoom
          /\ Emit(Head(ptyOut))
          /\ UNCHANGED <<rpc, rline, attempts, call, inFlight, buf>>
       \/ /\ consumer = "reading" /\ ~EventRoom
          /\ rpc' = "coalesce" /\ rline' = Head(ptyOut) /\ attempts' = 0
          /\ UNCHANGED <<eventChan, call, inFlight, buf>>
       \/ /\ consumer # "reading"
          /\ ReaderLeaves
          /\ UNCHANGED <<attempts, eventChan>>
    /\ UNCHANGED <<reply, matched>>

(* Exit and every other notification: an event_tx.send without a bound. *)
ReadNotice ==
    /\ Reading({"note", "exit"})
    /\ rpc' = "send" /\ rline' = Head(ptyOut)
    /\ UNCHANGED <<call, reply, attempts, inFlight, buf, matched, eventChan>>

(* BeginBlock { flags: 1 } with the lock: drain the registrations into the  *)
(* FIFO, pop the oldest.  An empty FIFO leaves the block unclaimed.        *)
ReaderMatch ==
    /\ rpc = "match"
    /\ PendingUnlocked
    /\ LET queue == pending \o pendingChan
       IN  IF queue = <<>>
           THEN UNCHANGED <<pending, inFlight, buf>>
           ELSE /\ inFlight' = Head(queue)
                /\ buf' = <<>>
                /\ pending' = Tail(queue)
    /\ pendingChan' = <<>>
    /\ matched' = matched + 1
    /\ rpc' = "select" /\ rline' = NoLine
    /\ UNCHANGED <<callVars, cmdChan, writeVars, attempts, eventVars, spc,
                   cancelled, childVars>>

(* tx.reserve() or the try_send after its timeout finds room. *)
CoalesceSent ==
    /\ rpc = "coalesce"
    /\ consumer = "reading" /\ EventRoom
    /\ Emit(rline)
    /\ rpc' = "select" /\ rline' = NoLine /\ attempts' = 0
    /\ UNCHANGED <<callVars, cmdChan, writeVars, pendingChan, pending,
                   inFlight, buf, matched, consumer, heard, spc, cancelled,
                   childVars>>

(* Mutant: on overflow the event is dropped and the reader goes on. *)
CoalesceDrops ==
    /\ rpc = "coalesce"
    /\ consumer = "reading" /\ ~EventRoom
    /\ attempts' = attempts + 1
    /\ IF attempts + 1 = CoalesceLimit
       THEN rpc' = "select" /\ rline' = NoLine
       ELSE UNCHANGED <<rpc, rline>>
    /\ UNCHANGED <<callVars, cmdChan, writeVars, pendingChan, pending, inFlight,
                   buf, matched, eventVars, spc, cancelled, childVars>>

(* A round of 100 ms passes without room; the last one is the overflow. *)
CoalesceTimeout ==
    /\ rpc = "coalesce"
    /\ consumer = "reading" /\ ~EventRoom
    /\ attempts' = attempts + 1
    /\ IF attempts + 1 = CoalesceLimit
       THEN ReaderLeaves
       ELSE UNCHANGED <<call, rpc, rline, inFlight, buf>>
    /\ UNCHANGED <<reply, handle, cmdChan, writeVars, pendingChan, pending,
                   matched, eventVars, spc, cancelled, childVars>>

CoalesceClosed ==
    /\ rpc = "coalesce"
    /\ consumer # "reading"
    /\ ReaderLeaves
    /\ UNCHANGED <<reply, handle, cmdChan, writeVars, pendingChan, pending,
                   attempts, matched, eventVars, spc, cancelled, childVars>>

(* event_tx.send(ev).await; a closed channel is ignored, Exit ends the loop. *)
ReaderSend ==
    /\ rpc = "send"
    /\ \/ consumer = "reading" /\ EventRoom /\ Emit(rline)
       \/ consumer # "reading" /\ UNCHANGED eventChan
    /\ IF rline.kind = "exit"
       THEN ReaderLeaves
       ELSE /\ rpc' = "select" /\ rline' = NoLine
            /\ UNCHANGED <<call, inFlight, buf>>
    /\ UNCHANGED <<reply, handle, cmdChan, writeVars, pendingChan, pending,
                   attempts, matched, consumer, heard, spc, cancelled, childVars>>

(* Mutant: only the channel is drained, the shared FIFO is forgotten. *)
ReaderDrainsChannelOnly ==
    /\ rpc = "drain"
    /\ PendingUnlocked
    /\ call' = Failing(Elems(pendingChan))
    /\ pendingChan' = <<>>
    /\ rpc' = "drop"
    /\ UNCHANGED <<reply, handle, cmdChan, writeVars, pending, rline, attempts,
                   inFlight, buf, matched, eventVars, spc, cancelled, childVars>>

(* Under the lock, everyone registered: "control-mode reader exited". *)
ReaderDrain ==
    /\ rpc = "drain"
    /\ PendingUnlocked
    /\ call' = Failing(Elems(pending \o pendingChan))
    /\ pending' = <<>>
    /\ pendingChan' = <<>>
    /\ rpc' = "drop"
    /\ UNCHANGED <<reply, handle, cmdChan, writeVars, rline, attempts, inFlight,
                   buf, matched, eventVars, spc, cancelled, childVars>>

(* The task's locals go: pending_rx with what was registered meanwhile, the *)
(* pty's read half, the event_tx clone.                                    *)
ReaderDrop ==
    /\ rpc = "drop"
    /\ call' = Failing(Elems(pendingChan))
    /\ pendingChan' = <<>>
    /\ rpc' = "done"
    /\ UNCHANGED <<reply, handle, cmdChan, writeVars, pending, rline, attempts,
                   inFlight, buf, matched, eventVars, spc, cancelled, childVars>>

Reader ==
    \/ ReaderStops
    \/ ReadBegin \/ ReadData \/ ReadEnd \/ ReadOutput \/ ReadNotice
    \/ ReaderMatch
    \/ CoalesceSent \/ CoalesceTimeout \/ CoalesceClosed
    \/ ReaderSend
    \/ ReaderDrain \/ ReaderDrop

(***************************************************************************)
(* The supervisor task: supervisor_loop.                                   *)
(***************************************************************************)

(* Mutant: the grace has no end. *)
SupervisorNeverKills == FALSE /\ UNCHANGED vars

(* Cancelled, and the two seconds of grace run out: start_kill. *)
SupervisorKills ==
    /\ spc = "watch"
    /\ cancelled
    /\ spc' = "kill"
    /\ UNCHANGED <<callVars, cmdChan, writeVars, pendingChan, pending, readVars,
                   eventVars, cancelled, childVars>>

(* child.wait() returns, in whichever arm; then, under the lock, those in   *)
(* the FIFO fail: "control-mode supervisor exited".  Up to the lock the     *)
(* task touches nothing another one can see.                               *)
SupervisorReaps ==
    /\ spc \in {"watch", "kill"}
    /\ child = "exited"
    /\ call' = Failing(Elems(pending))
    /\ pending' = <<>>
    /\ spc' = "report"
    /\ UNCHANGED <<reply, handle, cmdChan, writeVars, pendingChan, readVars,
                   eventVars, cancelled, childVars>>

(* event_tx.send(Exit).await, still holding the lock. *)
SupervisorReport ==
    /\ spc = "report"
    /\ \/ consumer = "reading" /\ EventRoom /\ Emit(ExitLine)
       \/ consumer # "reading" /\ UNCHANGED eventChan
    /\ spc' = "cancel"
    /\ UNCHANGED <<callVars, cmdChan, writeVars, pendingChan, pending, readVars,
                   consumer, heard, cancelled, childVars>>

SupervisorCancels ==
    /\ spc = "cancel"
    /\ cancelled' = TRUE
    /\ spc' = "done"
    /\ UNCHANGED <<callVars, cmdChan, writeVars, pendingChan, pending, readVars,
                   eventVars, childVars>>

Supervisor ==
    \/ SupervisorKills \/ SupervisorReaps
    \/ SupervisorReport \/ SupervisorCancels

(***************************************************************************)
(* The owner of event_rx (external to this module: ws_pane.rs).  It does    *)
(* not receive while it awaits the reply to a command of its own.           *)
(***************************************************************************)
Receiving == consumer = "reading" /\ ~Calling(Own)

ConsumerRecv ==
    /\ Receiving
    /\ eventChan # <<>>
    /\ eventChan' = Tail(eventChan)
    /\ heard' = IF Head(eventChan).kind = "output"
                THEN Head(eventChan).num ELSE heard
    /\ UNCHANGED <<callVars, cmdChan, writeVars, pendingChan, pending, readVars,
                   consumer, spc, cancelled, childVars>>

(* recv() returns None: both event_tx clones are gone and nothing is left. *)
ConsumerEnds ==
    /\ Receiving
    /\ eventChan = <<>>
    /\ ReaderGone /\ spc = "done"
    /\ consumer' = "ended"
    /\ UNCHANGED <<callVars, cmdChan, writeVars, pendingChan, pending, readVars,
                   eventChan, heard, spc, cancelled, childVars>>

ConsumerDrops ==
    /\ Receiving
    /\ consumer' = "gone"
    /\ eventChan' = <<>>
    /\ UNCHANGED <<callVars, cmdChan, writeVars, pendingChan, pending, readVars,
                   heard, spc, cancelled, childVars>>

Consumer == ConsumerRecv \/ ConsumerEnds \/ ConsumerDrops

(***************************************************************************)
(* The tmux child (external): it runs commands in the order it reads them,  *)
(* writes nothing inside a block but the block, and may die at any moment. *)
(***************************************************************************)
Writes(lines) == ptyOut' = ptyOut \o lines

TmuxUnchanged ==
    UNCHANGED <<callVars, cmdChan, writeVars, pendingChan, pending, readVars,
                eventVars, spc, cancelled>>

TmuxBegin ==
    /\ child = "running" /\ ~open
    /\ tmuxIn # <<>>
    /\ \E ok \in BOOLEAN : ran' = Append(ran, [cmd |-> Head(tmuxIn), ok |-> ok])
    /\ tmuxIn' = Tail(tmuxIn)
    /\ open' = TRUE
    /\ Writes(<<MkLine("begin", 1, Len(ran) + 1), MkLine("data", 1, Len(ran) + 1)>>)
    /\ UNCHANGED <<child, emitted, noted>>
    /\ TmuxUnchanged

(* A detach-client that succeeds is followed by %exit. *)
TmuxEnd ==
    /\ child = "running" /\ open
    /\ open' = FALSE
    /\ LET last    == ran[Len(ran)]
           closing == MkLine(IF last.ok THEN "end" ELSE "error", 1, Len(ran))
       IN  IF last.cmd = Detach /\ last.ok
           THEN Writes(<<closing, ExitLine>>) /\ child' = "leaving"
           ELSE Writes(<<closing>>) /\ UNCHANGED child
    /\ UNCHANGED <<tmuxIn, ran, emitted, noted>>
    /\ TmuxUnchanged

TmuxOutput ==
    /\ child = "running" /\ ~open
    /\ emitted < MaxOutputs
    /\ emitted' = emitted + 1
    /\ Writes(<<MkLine("output", 0, emitted + 1)>>)
    /\ UNCHANGED <<child, tmuxIn, open, ran, noted>>
    /\ TmuxUnchanged

(* A notification, or a flags=0 block such as the one tmux opens with. *)
TmuxNote ==
    /\ child = "running" /\ ~open
    /\ noted < MaxNotes
    /\ noted' = noted + 1
    /\ \/ Writes(<<MkLine("note", 0, 0)>>)
       \/ Writes(<<MkLine("begin", 0, 0), MkLine("data", 0, 0), MkLine("end", 0, 0)>>)
    /\ UNCHANGED <<child, tmuxIn, open, ran, emitted>>
    /\ TmuxUnchanged

(* The session ends, or another client detaches this one. *)
TmuxLeaves ==
    /\ child = "running" /\ ~open
    /\ child' = "leaving"
    /\ Writes(<<ExitLine>>)
    /\ UNCHANGED <<tmuxIn, open, ran, emitted, noted>>
    /\ TmuxUnchanged

ChildExits ==
    /\ child # "exited"
    /\ child' = "exited"
    /\ UNCHANGED <<tmuxIn, open, ran, ptyOut, emitted, noted>>
    /\ TmuxUnchanged

Tmux == TmuxBegin \/ TmuxEnd \/ TmuxOutput \/ TmuxNote \/ TmuxLeaves \/ ChildExits

Caller(c) == Call(c) \/ Enqueue(c) \/ Refused(c) \/ Timeout(c) \/ Abandon(c)

Next ==
    \/ \E c \in Commands : Caller(c)
    \/ ShutdownDetach \/ ShutdownCancel \/ CancelToken
    \/ Writer
    \/ Reader
    \/ Supervisor
    \/ Consumer
    \/ Tmux

Spec == Init /\ [][Next]_vars

(***************************************************************************)
(* Fairness: tokio polls every task that can run and fires every timer; the *)
(* consumer keeps receiving; a child that has said %exit, was killed, or    *)
(* had its pty hung up (both halves dropped) exits.  Nothing is asked of a  *)
(* running tmux: it may hang.  Each call enters a channel, or times out, at *)
(* most once, so one condition for all of them is one for each.             *)
(***************************************************************************)
ChildMustExit == child = "leaving" \/ spc = "kill" \/ (WriterGone /\ ReaderGone)

Fairness ==
    /\ WF_vars(Writer)
    /\ WF_vars(Reader)
    /\ WF_vars(Supervisor)
    /\ WF_vars(ShutdownCancel)
    /\ WF_vars(ConsumerRecv \/ ConsumerEnds)
    /\ WF_vars(ChildMustExit /\ ChildExits)
    /\ WF_vars(\E c \in Commands : Enqueue(c) \/ Refused(c))
    /\ WF_vars(\E c \in Commands : Timeout(c))

FairSpec == Spec /\ Fairness

(* A tmux that goes on answering, or dies. *)
TmuxServes == WF_vars(TmuxBegin \/ TmuxEnd)
ServingSpec == FairSpec /\ TmuxServes

--------------------------------------------------------------------------------
(* A call gets the reply of its own command and of no other: each line of   *)
(* its body comes from the block tmux wrote for that command, and Ok or Err *)
(* is tmux's verdict on it.  control_mode.rs:207 and events.rs:19 rest the  *)
(* correlation on order alone: timed-out callers keep their place, the      *)
(* registration precedes the write, nobody takes another's place when the  *)
(* child dies.                                                              *)
RepliesAreOwn ==
    \A c \in Commands : call[c] = "answered" =>
        \E k \in DOMAIN ran :
            /\ ran[k].cmd = c /\ ran[k].ok = reply[c].ok
            /\ \A i \in DOMAIN reply[c].body : reply[c].body[i] = k

(* What tmux ran and has still to run are the registered commands, in order. *)
Ordered ==
    /\ \A k \in DOMAIN ran : ran[k].cmd = registered[k]
    /\ \A i \in DOMAIN tmuxIn : tmuxIn[i] = registered[Len(ran) + i]
    /\ Len(ran) + Len(tmuxIn) <= Len(registered)
    /\ wpc \in {"select", "register"} => Len(ran) + Len(tmuxIn) = Len(registered)
    /\ wpc = "write" => /\ Len(ran) + Len(tmuxIn) + 1 = Len(registered)
                        /\ registered[Len(registered)] = wcmd

(* Until the supervisor drains the FIFO, or the reader leaves its loop, the *)
(* senders not yet matched are those of the blocks not yet seen to begin.   *)
Queue == pending \o pendingChan
Matching ==
    /\ rpc \in {"select", "match", "coalesce", "send"}
    /\ spc \in {"watch", "kill"}

Queued ==
    Matching =>
        /\ matched + Len(Queue) = Len(registered)
        /\ \A i \in 1..Len(Queue) : Queue[i] = registered[matched + i]

(* The lines on the pty.  Seen: the last command block the reader has seen  *)
(* begin; the next ones begin there in order, each once.                    *)
Seen == IF rpc = "match" THEN matched + 1 ELSE matched
Begins(l)    == l.flags = 1 /\ l.kind = "begin"
Continues(l) == l.flags = 1 /\ l.kind \in {"data", "end", "error"}
Holds(l)     == l.flags = 1 /\ l.kind \in {"begin", "data"}

Ahead ==
    /\ Seen <= Len(ran)
    /\ \A i \in DOMAIN ptyOut :
            Begins(ptyOut[i]) => ptyOut[i].num \in Seen + 1..Len(ran)
    /\ \A n \in Seen + 1..Len(ran) :
            \E i \in DOMAIN ptyOut : Begins(ptyOut[i]) /\ ptyOut[i].num = n

Rising ==
    \A i, j \in DOMAIN ptyOut : i < j /\ Begins(ptyOut[i]) /\ Begins(ptyOut[j])
        => ptyOut[i].num < ptyOut[j].num

(* Nothing comes between the lines of a command block. *)
Whole ==
    \A i \in DOMAIN ptyOut : i + 1 \in DOMAIN ptyOut /\ Holds(ptyOut[i])
        => Continues(ptyOut[i + 1]) /\ ptyOut[i + 1].num = ptyOut[i].num

Closes(l) == l.flags = 1 /\ l.kind \in {"end", "error"}

Verdicts ==
    \A i \in DOMAIN ptyOut : Closes(ptyOut[i]) =>
        /\ ptyOut[i].num \in DOMAIN ran
        /\ (ptyOut[i].kind = "end") <=> ran[ptyOut[i].num].ok

(* A block the reader is in goes on with the next line; one tmux is in ends *)
(* the lines written so far.                                               *)
InBlock == rpc = "match" \/ inFlight # None

Ends ==
    /\ open => ran # <<>>
    /\ IF ptyOut = <<>>
       THEN ~open => ~InBlock
       ELSE /\ InBlock => Continues(ptyOut[1]) /\ ptyOut[1].num = Seen
            /\ open <=> Holds(ptyOut[Len(ptyOut)])
            /\ open => ptyOut[Len(ptyOut)].num = Len(ran)

Framed == Ahead /\ Rising /\ Whole /\ Verdicts /\ Ends

(* The sender in flight is that of the last block seen to begin, and holds  *)
(* lines of that block only; or the token is cancelled and it will not be   *)
(* answered.                                                                *)
InFlightOwn ==
    /\ inFlight # None /\ ~cancelled =>
         /\ matched \in DOMAIN ran
         /\ inFlight = registered[matched]
         /\ \A i \in DOMAIN buf : buf[i] = matched
    /\ spc = "done" => cancelled

(* The invariant behind RepliesAreOwn. *)
Aligned == Ordered /\ Queued /\ Framed /\ InFlightOwn

(* Once writer and reader are gone no caller is left to its timeout: the    *)
(* exit paths fail or drop every sender, also one registered between the    *)
(* reader's last drain and the closing of the channel (control_mode.rs:411: *)
(* "Fail any in-flight + queued commands so callers don't hang").           *)
NoCallStranded ==
    WriterGone /\ ReaderGone => \A c \in Commands : call[c] # "waiting"

(* "We never drop bytes mid-stream" (control_mode.rs:430): the %output      *)
(* events in the channel continue, without gap or repetition, what the      *)
(* consumer has received, whatever the back-off of a full channel does.     *)
StreamUnbroken ==
    LET outputs(i) == {j \in 1..i : eventChan[j].kind = "output"}
    IN  \A i \in DOMAIN eventChan : eventChan[i].kind = "output" =>
            eventChan[i].num = heard + Cardinality(outputs(i))

(* Callers see no more and no less than CommandService: at most one run of  *)
(* a command, at most one outcome per call, and an answer only from its run. *)
Service == INSTANCE CommandService WITH
    Commands <- Commands, Detach <- Detach, call <- call, reply <- reply, ran <- ran
ImplementsService == Service!SSpec

(* No send_command outlives its driver, and a command that is queued gets   *)
(* its reply or its timeout: 131 waits for room with no timeout, behind a    *)
(* writer that waits for room in the registrations or the pty, so a caller   *)
(* caught there by a hung tmux needs every one of these waits to end when    *)
(* the token is cancelled or the child dies.  (Until then it waits for ever.) *)
(* A command is sent once, so each has returned when none is due to return.  *)
Due(c) == \/ call[c] = "waiting"
          \/ call[c] = "sending" /\ (cancelled \/ child = "exited")
CallsReturn ==
    (\E c \in Commands : Due(c)) ~> (\A c \in Commands : ~Due(c))

(* Cancelling the token winds everything down: the three tasks end and the  *)
(* child is gone, although writer and reader can be blocked outside their   *)
(* selects when it happens.                                                 *)
TeardownCompletes ==
    cancelled ~> /\ WriterGone /\ ReaderGone /\ spc = "done"
                 /\ child = "exited"

(* The consumer learns that the child is gone, also one that awaits a reply  *)
(* of its own, and does not receive, while the reader waits for room in the  *)
(* channel the events fill: the timeout of 136 breaks that circle.           *)
ConsumerLearns == child = "exited" ~> consumer # "reading"

(* control_mode.rs:44: past COALESCE_LIMIT "we treat the channel as          *)
(* overflowing and close the connection".                                   *)
OverflowCloses ==
    rpc = "drain" /\ attempts = CoalesceLimit ~> consumer # "reading"

================================================================================
