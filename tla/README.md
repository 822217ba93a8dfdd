# tmonks: specifications, model checking and proofs

tmonks serves tmux sessions to a browser. A Rust server (axum, tokio) drives tmux
through control-mode children and one-shot tmux commands; a small JavaScript front end
(`assets/main.js`) renders a pane in xterm.js and a sidebar of sessions. This directory
holds TLA+ modules of its concurrent parts, TLC configurations that check them on small
instances, and TLAPS proofs. Paths below are relative to `src/` of the server crate
unless they say otherwise.

## The system

```
 browser                    server                                   tmux
 PaneClient --/ws/pane----> ws_pane --send_command--> ControlMode --pty--> tmux -CC
   (main.js) <-seed, live--   ^----- events ----------'
 DashboardClient -/ws/dash-> ws_dashboard <--events-- pollers --processes--> tmux
   Sidebar   <-sessions, status, error
                 auth (middleware, Origin), server (router, shutdown token), main
```

| Component | State | Operations | What is hard | What makes it correct |
|---|---|---|---|---|
| Control-mode driver, `tmux/control_mode.rs` | four bounded channels, a shared FIFO of oneshot senders, a token, a child on a pty | `send_command`, `shutdown`; writer, reader and supervisor task | replies matched by order alone; timeouts; child dying mid-block; blocked sends; locks across awaits | a reply is the caller's own; nobody outlives the driver; output has no gap; teardown ends |
| Dashboard WebSocket, `ws_dashboard.rs` | listed sessions, handles of pollers | list, reconcile, forward, end | sessions that come, go and come again; the browser or the process ending in the middle | one live poller per listed session, none after the end |
| Status poller, `status/poller.rs` | last status, error count, back-off flag | poll, report, fail, stop | two reads that belong to different moments; cache against a dropped event | the badge converges to the pane's status; the error marker goes with the errors |
| Matchers, `status/matchers.rs` | none | `match_status` | text patterns | a status for every screen |
| Sidebar, `assets/main.js` | a row per session | `renderSessions`, `updateStatus`, `markError` | merge with pollers that stay silent | a row shows what was last sent |
| Pane WebSocket, `ws_pane.rs` | active pane, filters, queue of answers | seed, drain, inbound task, main loop | output between capture and drain; pane switches; Exit and detach | seed followed by live output is the pane; keys in order |
| Browser clients, `assets/main.js` | socket, attempt counter, timers, listeners, overlay, resolver | connect, close, retry, resize, scrollback | late events of closed sockets, timers, stale state across connections | one connection, told the size, no retry of what is gone |
| Line classifier and escapes, `tmux/parser.rs`, `tmux/escape.rs`, `tmux/events.rs` | inside or outside a block | `feed`, `decode` | bodies that look like notifications or guards; payloads cut anywhere | only its own `%end` or `%error` closes a block; each line gives the event tmux meant |
| VT filters, `vt_filter/` | a vte parser per direction | `feed`, `filter` | sequences split over chunks, or one inside the other | chunks make no difference; what passes is harmless as a whole; keys arrive |
| Auth, `auth.rs` | the token | middleware, handshake, Host, Origin and cookie checks | exemption, modes and a browser with cookies of several processes together | no handler without the token or `--no-auth`; a page that has the cookie works, whatever its loopback address |
| Server, `server.rs`, `main.rs`, `cli.rs`, `tmux/version.rs` | the process token, the bound address, `no_auth` | start, router, signal, graceful shutdown | connections that outlive the listener; processes on each other's ports | an ended process holds no connection |
| `tmux/command.rs`, `status/version_probe.rs`, `templates/`, `assets.rs`, `observability.rs`, vendored xterm.js | none that lasts | formatting, startup, static content | nothing concurrent | not modelled |

`PROJECT.json` lists every component with what is modelled of it, and every hazard of the
code at its line with the properties that cover it.

## ControlMode: the driver of one `tmux -CC attach`

`ControlMode.tla` models `tmux/control_mode.rs`. One action per step between two awaits:

| Variables | Code |
|---|---|
| `call`, `reply` | a caller inside `send_command_with_timeout` and what it returned |
| `cmdChan`, `pendingChan`, `eventChan` | the three `mpsc` channels, with their capacities |
| `pending` | `Arc<Mutex<VecDeque<oneshot::Sender>>>` |
| `wpc`, `wcmd` | `writer_loop`: its select, `pending_tx.send`, `write_all` |
| `rpc`, `rline`, `attempts`, `inFlight`, `buf` | `reader_loop` and `forward_or_coalesce` |
| `spc` | `supervisor_loop` |
| `cancelled` | the `CancellationToken` |
| `child`, `tmuxIn`, `open`, `ran`, `ptyOut` | the tmux child, external |
| `registered`, `matched`, `emitted`, `noted` | history, for the properties |

A command's value stands for its oneshot sender: it moves from `cmdChan` through the
writer's hand to `pendingChan`, `pending` and `inFlight`. Each block line carries the
position of its command among those tmux ran, which the code never sees; the properties
compare it with the place where the reply went.

Where the code's details matter:

* The supervisor's guard on `pending` lives to the end of `supervisor_loop`, across the
  send of `Exit` and the cancel (`PendingUnlocked`). The correlation depends on it: if
  the guard were dropped after the drain, the reader could match a buffered block with a
  sender registered later. The mutant `LockReleasedEarly` does that and breaks
  `RepliesAreOwn`.
* `writer_loop`'s inner awaits do not look at the token, nor does `cmd_tx.send` come under
  the caller's timeout. So a tmux that hangs and has enough commands before it (in the pty,
  the writer's hand and two channels of 64) keeps a caller in "sending" for as long as the
  driver lives, although the comment at 115 speaks of the timeout as what surfaces protocol
  stalls. `CallsReturn` says what is left: a call that is queued returns, and one that waits
  for room returns once the token is cancelled or the child gone.
* The owner of `event_rx` calls `send_command` itself (`Own`), as `run_pane_session` does
  before its main loop, and receives nothing meanwhile (`Receiving`). The reader may then
  wait for room in `event_tx` while the owner waits for the reader: only the timeout ends
  that, and `ConsumerLearns` depends on it.
* All three selects are biased to the token.

Abstractions: lines come classified; the buffer of unsolicited blocks is write-only and
left out; exit codes and errors of `child.wait()` are left out; the supervisor's wait and
its lock are one step, since it touches nothing shared between them; a block in flight
fails in the step that leaves the reader's loop; a write to the pty of a child that has
exited may succeed or fail; EIO and end of file are the same. `Timeout` and a dropped
future (`Abandon`) both leave `call = "gaveup"`. tmux runs commands in the order it reads
them, writes nothing between `%begin` and `%end` but the block, and may hang or die at
any moment.

`CommandService.tla` is the abstract specification: a command runs at most once; an
answered call has the verdict and the whole body of that run; otherwise it failed or gave
up, which says nothing of the run. `ImplementsService` is the refinement, with the
identity on `call`, `reply` and `ran`.

Properties: `RepliesAreOwn`, the inductive `Aligned`, `NoCallStranded` (after writer and
reader have ended nobody still waits), `StreamUnbroken` (the `%output` events continue
what was received, without gap or repetition), `CallsReturn`, `TeardownCompletes`,
`ConsumerLearns`, `OverflowCloses`.

## Dashboard: one dashboard connection

`Dashboard.tla` composes `ws_dashboard.rs`, a `status/poller.rs` task per listed session,
the bounded event channel and the `Sidebar` of `assets/main.js`. `Dash*` are the arms of
`run_dashboard`'s select, `Poller*` the steps of `poll_loop` and `poll_once` (the command
and the screen are read by two processes, so by two steps), `Rendered` and `RowAfter` the
sidebar's handlers. A poller is identified by its session and a generation, because a
session id can be given out again by a restarted server while the stopped poller of the
old one is still in a poll. tmux, the browser's end and the process's shutdown are
external actions.

Abstractions: no time (a sleep or tick may end at any moment, so the back-off ladder is
not visible); a frame reaches the sidebar when it is sent; reconciling and sending are one
step, and so are the end of a poller's sleep and `display-message`; `list_sessions` is
awaited between two steps (`dpc = "listing"`), in which the arm sees neither the shutdown
nor the socket, and what it has `found` may be out of date when it is used; names
and the order of the list, and the command's text on a row, are left out; a screen is the
status its matcher finds on it; the error counter saturates above the threshold.

Properties: `NoPollerLeak` (a poller not told to stop is one the dashboard can still
stop), `BadgeMatchesCache` (a row shows what its poller's cache believes it shows),
`BadgeConverges` (the row of a session comes to show its pane's status, though a poll may
have paired the name of one program with the screen of another, or failed), `AllEnd`; and
`MarkerClears` (a session whose polls succeed has no error marker), which the code does not
have, in `RowRecovers`.

## PaneSession: one pane connection

`PaneSession.tla` models `run_pane_session` of `ws_pane.rs` and its inbound task, over an
abstraction of the driver:

| Variables | Code |
|---|---|
| `mpc` | the place of `run_pane_session`: connect, display-message, capture-pane, seed, drain, main loop, abort; "closing" is `send_error_close` |
| `ipc`, `hand` | the place of the inbound task and the frame it works on |
| `pane` | `active_pane`, then `active_pane_for_inbound` |
| `outq` | `ws_outbound_tx` to `ws_outbound_rx`: how many answers it holds |
| `cmds`, `events`, `driver` | commands on their way to tmux, no more than `CmdCap`; the driver's event channel; whether its tasks live |
| `inq`, `browser`, `shutdown` | the browser's frames, its end, the process token |
| `active`, `written` | tmux, external |
| `ran`, `seed`, `drained`, `sent`, `epoch`, `late` | history, for the properties |

`Setup` is the way to the main loop, each early return with its error frame and close;
`Loop*` are the arms of the select. A poll of it is three steps, one for each future, since
the other tasks run on other threads: the token (`mpc = "loop"`), the queue of answers
(`"answers"`), the events (`"events"`). `Inbound*` are the steps of the inbound task;
`"send"` is `cmd_tx.send`, which waits for room with no timeout.

Abstractions: the driver and its reader have no steps of their own here. A command that
tmux runs gets its reply, the calls of a driver whose reader or child has ended fail, and
a caller that times out leaves its command on its way: what `ControlMode` shows. The
channel of commands, the writer's hand and the registrations are one bound, `CmdCap`. Its event
channel has no bound here (a full one, and the reader that gives up on it, are in
`ControlMode`). Input and resizes differ in nothing the properties see and are one kind of
frame; frames the inbound task skips (empty, of an unknown tag, text, ping) change no
state. The VT filters, the contents of seed and scrollback and the text frames with errors
are data; output whose filtered bytes are empty is not set apart. A send to an open socket
succeeds, one to a closed socket may fail or not. The session has one window. The runtime
that `main` drops when `serve` has returned (`main.rs:109`) may cut a close frame off; here
the tasks live on.

Properties: `LiveFollows` (live output continues where the seed or the last live frame
ended, the seed after every pane switch too), `InputInOrder` (input takes effect once and
in order, although the inbound task gives a slow command up and goes on),
`EndIsAnnounced` (a session that ends by itself sends one close frame, unless the drain has
lost the Exit, or the token was cancelled after the main loop had looked at it and before it
looked for an answer), `SessionEnds` (shutdown and a dead child end both tasks; so does a browser that goes, unless a hung tmux keeps the
inbound task waiting for room), `DrainedIsSeeded`.

## Browser: the connections of one page

`Browser.tla` models the connection logic of `assets/main.js`: the `DashboardClient`
(client 0) and a `PaneClient` for each session the user opens in turn.

| Variables | Code |
|---|---|
| `stopped`, `ws`, `saw`, `attempt` | `_stopped`, `ws`, `_sawAnyMessage`, `_reconnectAttempt` of each client |
| `timers` | the `setTimeout`s of `_onClose` that have not fired |
| `hooks` | the listeners a client has on the terminal's keys (`_onData`) |
| `focus`, `overlay` | `window.tmonks.pane`; the client whose `onRetry` the one overlay holds |
| `container`, `fitted`, `debounce`, `reported` | the container's size, the terminal's, the clients whose `_resizeDebounce` runs, `_lastReportedSize` |
| `sock` | the sockets that exist, each with the events the page has still to handle and the size last sent on it |
| `tries`, `ended` | history, for the properties |

`OpenSession` is `openSession` with the `close()` of the pane before and the observer it
sets up; `OnOpen`, `OnMessage`, `OnClose` are the handlers, `TimerFires` the reconnect
timer, `DebounceFires` the resize timer, `Retry` the button. `refresh()` is inside
`CloseEvent`, its only caller. The server is external: it serves, refuses (open, error
text, close 1011: what `PaneSession` shows), fails or shuts down at any moment.

Abstractions: no time, so the delays are not visible; `close()` drops the messages on
their way, as a browser does; the observer's first call is in the step that sets it up,
since its timer may fire at any later moment; the retry strip, toasts and the contents of
frames are left out. `tries` counts up to `MaxTries`, which is 0 in the run that does not
need it.

Properties: `KeysGoOnce`, `OneAttempt` (one live socket, timer or button per client),
`SizeIsTold` (the server of an open pane knows the terminal's size, a connection after
the client's first at an unchanged size excepted), `LeftStaysLeft`, `LostIsRetried`,
`RetriesBounded`.

## PaneIO: the bytes of one pane

`PaneIO.tla` composes three modules' worth of code that only transforms bytes, and asks
what becomes of them from end to end.

* `LineClassifier.tla`, operators: `Feed(state, line)` is `LineClassifier::feed`, with
  `ClassifyOutside`, `ParseOutput`, `ClassifyInside`; `Decode` is `escape::decode`; the
  events are those of `events.rs`. A line is kept as what the code looks at: its first
  word, the other words, the two numbers of a block header (`<<>>` when they do not
  parse), the bytes of a payload.
* `VtFilter.tla`, operators: `VtStep` is the vte crate's parser (external), `Outbound` and
  `Inbound` what the callbacks of the two `Perform` implementations write for an action,
  `Advance` a chunk through a parser that goes on where the last one stopped
  (`OutboundStream`, and the inbound task's), `Filter` the one-shot `filter()`.
* `PaneIO.tla`: `clf` (the reader's classifier), `active`, `serving` (the main loop of
  `ws_pane.rs`), `outp`, `inp` (the two parsers). tmux is external: it escapes what
  programs write, cuts it into `%output` lines anywhere, wraps replies in guards, and
  never writes a line of another kind inside a block. `Stdin` is the inbound task's arm
  for a key frame.

Abstractions: a line is read, classified and handled in the step that writes it (the
channels and tasks in between are `ControlMode`'s and `PaneSession`'s); characters have
one or two bytes; a URL is safe when it is in `SafeUrls`; a reply's body does not hold
the very guard that closes its block, number included, which the code could not tell
from the guard (tmux numbers its blocks upwards, and the guard has the time in it, which
the code does not compare).

Properties: `FramingHolds` (the classifier is in a block exactly when tmux is, and in the
same one), `EventsAreMeant` (each line gives the event tmux meant, or is not UTF-8 and gives
none), `LiveIsFiltered` (the live frames are `filter()` of all that was read, however it was
cut, and that is all that tmux passed on, `shown`, unless a line was lost: `misread` keeps
the last one), `LiveIsHarmless` (nothing forbidden arises from what is left over),
`KeysArrive`; and `OutputArrives` (what tmux passed on is read), which the code does not
have, in `OneWayArrives`.

## Server: processes, requests and a browser

`Requests.tla`, operators: `Respond(token, noAuth, req)` is the whole answer to a request,
`auth_middleware` around the router of `server.rs`, the extractors, the handlers'
`token_redirect` and `check_origin_for_ws`. `CheckHost` and `ParseIp` are the Host check
with the legacy forms of IPv4 addresses (one to four parts, each a number), `CheckCookie`
the cookie header, `IsHandshake` the exemption.

`Server.tla`: processes that start (`Cli::validate`, the version check, `bind`), serve,
are signalled and return from `serve()`; a browser with one cookie per host (`jar`),
redirects, pages and the sockets they hold. Pages outlive the process that served them,
another process may take its port, and a host name reaches either loopback address. Other
programs are in the properties: all requests of a kind, in each reachable state.

| Variables | Code |
|---|---|
| `proc`, `exitCode` | `run()` of `main.rs`: not started, serving, cancelled by the signal, ended, and how |
| `bound`, `noAuth` | `AppState.bound_addr`, `AppState.no_auth` |
| `jar`, `redirected`, `pages` | the browser, external |
| `sockets` | the upgraded connections |

Abstractions: a token is the process that drew it, and comparing takes no time; no handler
awaits before its answer, so a request is one step; a half-sent request, the tracing layer
and the headers of static answers are left out; the paths that behave alike are one.

Axum's graceful shutdown waits for plain requests that are not finished and not for upgraded
connections. As a request is one step here, `ServeReturns` may come at any moment after the
signal, and no property says that it comes: that would restate its fairness.

Properties: `TokenIsNeeded`, `HostsAreLoopback` (a host that passes denotes a loopback
address, and one that does passes, two forms apart), `SocketsAreOwn`, `PagesWork`;
`UpgradesWork` (a page with the cookie gets both sockets, IPv6 or not), which the code does
not have. `TypeOK` ties `bound` to the state of the process.

## Runs

| Run | Question | Bounds and why they are enough |
|---|---|---|
| `control_mode` | replies, alignment, stranded calls, refinement; output without gap; calls return, teardown completes, the consumer learns of the child's death | 4 calls, one of the event owner's own, detach-client, 2 outputs and 1 notification, in the cases that `Apart` keeps apart (below); `PendingCap = 2`, the least with which the shared FIFO ever holds a sender (a match takes one of those it drains), the other capacities 1, so that each is full at times, and a `CoalesceLimit` of 2; a tmux that may hang: the first two commands then fill pty and writer, the third the channel, and the fourth call finds no room |
| `control_mode_overflow` | violation: the overflow closes nothing | one round of back-off |
| `dashboard` | rows against caches, convergence, no leak, all end | 2 sessions; an agent and a shell, 2 statuses; 2 changes at any point of a poll, so that the name read before and the screen read after belong to different programs and pair to a third status; or 1 change and 2 failures, which reach the threshold of 2; or a session that vanishes from a listing and returns with its id; browser and shutdown at any step; a channel that never fills |
| `dashboard_relisted` | violation: a stopped poller's late event, and a marker that stays | one restart, then one change and 2 failed polls; a channel that never fills |
| `pane_session` | live output, input, close frames, the end of both tasks | 2 panes, 2 outputs, one switch or detach, 2 frames, three of these five together; a queue of one answer and room for one command (so that both are full at times, and a hung tmux blocks the second frame); the first active pane is fixed, since another choice only renames; 360,000 states (without the bound on what comes together they are 2.6 million, and the properties hold in all of them) |
| `pane_drain` | violation: what the drain throws away | one output is enough |
| `browser` | one attempt at a time, keys once, sizes, left sessions, retries | the dashboard and 2 panes, 1 back-off delay (so that giving up, the overlay and a new chain all happen), 4 sockets, one more than are there at a time; one resize; connections fail and return for ever |
| `browser_retries` | violation: reconnects without end | 1 pane, 1 delay |
| `pane_io` | framing, events, filters, keys | 2 panes, 2 writes out of 6 (a character of two bytes and text that reads like an escape, SGR and a charset, private modes allowed and banned in one sequence, OSC 52, an OSC 8 inside another, DCS and a mouse report), cut twice at any place; 1 block with 2 lines out of 4 kinds and the guards of other blocks, or 1 notification; 2 key frames out of 7 |
| `pane_io_loss` | violation: neither a cut character nor the Esc key comes through | 1 write, cut once; 2 frames |
| `server` | who gets what | 2 processes (the fewest that can take each other's port or cookie), 2 ports, 3 hosts (an address, a name, IPv6), 7 command lines, 5 versions, 18 Host headers, 2 pages |
| `server_ipv6` | violation: the upgrades of a page at `[::1]` | as `server` |

Each property of a passing run has a mutant in `PROJECT.json`: a plausible slip in a
mapped definition under which TLC finds the property violated.

A run that checks several questions has one state graph for all of them: `Apart` of
the MC modules, an action constraint, keeps
apart what has no bearing on each other and would multiply the states (no action with a
fairness condition is among what it rules out). `MCControlMode`: one call with every end;
two calls, given up at any time; a third behind them while tmux dies; four before a hung
tmux; tmux's own lines with every end; tmux's own lines while the consumer awaits a command.
`MCDashboard`: two sessions and one change; the first alone with two changes, with failures,
or with an id that is given out twice. `MCPaneSession`: any three things from outside.
`MCBrowser`: a dashboard connection that fails, or resize timers that fire. `MCPaneIO`: keys,
or output. To keep changes apart from relistings is more than economy: with both the code
does not have `BadgeConverges` (`dashboard_relisted`). The channel of the dashboard's runs
never fills:
a transition that `try_send` drops is not sent again, by design (the repository's plan,
System-Wide Impact), and the row is then wrong until the next one.

A run may stop (all calls returned, tasks ended, bounds used up), hence
`CHECK_DEADLOCK FALSE`; that nothing stops too early is what the liveness properties say.

## What the violation runs show

* `OverflowCloses`: `control_mode.rs:44` promises a closed connection after
  `COALESCE_LIMIT` rounds; only the reader ends.
* `RowRecovers`, in one behaviour of a server that restarts and gives an id out again.
  `BadgeConverges`: a stopped poller's late event leaves a badge wrong for as long as the
  status lasts. `MarkerClears`: `poller.rs:50` has the next successful poll clear the error
  marker; it does send the status again, but `updateStatus` (`main.js:597`) takes no marker
  away, and none goes before its session leaves the list.
* `DrainedIsSeeded`: the drain is meant to discard output the seed shows
  (`ws_pane.rs:147`), but runs after the reply and the send of the seed, and discards
  whatever has come by then, pane switches and `Exit` included.
* `RetriesBounded`: `main.js:37` gives up after five delays and `main.js:191` does not
  retry a session that is gone; but the upgrade succeeds before the session is looked for,
  which resets the counter, and the error text counts as data, so the client reconnects
  every 200 ms for ever.
* `OneWayArrives`, in one behaviour. `OutputArrives`: `control_mode.rs:430` never drops bytes
  mid-stream and `escape.rs:18` passes UTF-8 sequences on verbatim, but a line that cuts a
  character in two is not UTF-8, and it is lost with all that it held (`parser.rs:58`).
  `KeysArrive`: `inbound.rs:86` says that ESC passes with the other C0 controls, but vte
  takes it for the beginning of a sequence and keeps it until the next byte: the Esc key
  alone (the key row has a button for it) reaches tmux with the next key, as Alt and that
  key, or not at all when that key begins a string (`P`, `X`, `]`, `^`, `_`).
* `UpgradesWork`: with `--bind ::1` (`cli.rs:126`) a page is served and both its sockets are
  refused, although Origin and Host match exactly (`auth.rs:174`): `Url::host_str` keeps the
  brackets of an IPv6 address, `split_host_port` takes them off (`auth.rs:186`).

`RowRecovers` and `OneWayArrives` are disjunctions of two promises, and are violated by a
behaviour that breaks both.

Exceptions that are written into properties which hold, since a reader of the code would
not expect them:

* `HostsAreLoopback`: nothing is claimed of two kinds of host that denote a loopback address
  and are refused: four parts with one in hex or octal (`auth.rs:283`), and IPv6 addresses
  other than `::1`. The list at `auth.rs:236` has one of each that must be accepted,
  `0177.0.0.1` and the IPv4-mapped `::ffff:127.0.0.1`, and `README.md:81` the second.
* `EventsAreMeant`, `LiveIsFiltered`: lines that are lost, see `OneWayArrives`.
* `CallsReturn`, `SessionEnds`: a caller that waits for room before a hung tmux, and with it
  the session whose browser has gone.
* `EndIsAnnounced`: an `Exit` lost in the drain, and a cancel between the polls of two arms of
  the select.
* `SizeIsTold`: after a reconnect at the same size the new tmux client is told no size
  (`main.js:104`).

`README.md:36` of the repository calls the token "consumed" by the handshake; it is good
for as long as the process runs, and the model has it so.

## Fairness

`ControlMode!Fairness`: tokio polls runnable tasks and fires timers (writer, reader,
supervisor, the callers' sends, when there is room, and timeouts); the consumer keeps
receiving when it awaits no reply of its own; a child that
said `%exit`, was killed, or lost both halves of its pty exits. Nothing is asked of a
running tmux; `ServingSpec` adds that it answers or dies, and only `OverflowCloses`, a
violation, uses it, so that the counterexample is not a stopped tmux.

`Dashboard!Fairness`: each poller, and the dashboard's arms, proceed when they can
(their timers fire, tmux processes end one way or the other); a success is not owed as
long as `MaxFails` permits a failure, and a tick need not be one whose listing wrongly
comes back empty (`DashTicks /\ UNCHANGED flaps`).

`PaneSession!Fairness`: the two tasks are polled and their timers fire (the timeouts of
display-message and capture-pane included; `cmd_tx.send` has none), a socket that is open
takes what is sent, and a driver that is cancelled, dropped or has seen `%exit` ends, which is
`TeardownCompletes` of `ControlMode`.

`Browser!Fairness`: the page's event loop handles what has come, its timers fire, an
attempt to connect ends one way or another.

`PaneIO` and `Server` have no liveness property and no fairness.

Users and tmux owe nothing. Weak fairness is enough: no arm is disabled again and again
by another one that the code would prefer for ever, except by shutdown, which ends the
loop.

## Proofs

Seven modules hold the theorems, one or two for each component, and an eighth what they
need about folds; TLAPS checks them for all
constants that meet the component's assumptions, not just those of the runs. Each
theorem follows from an inductive invariant, which TLC first checked on the component's
instance, and each invariant is preserved by one lemma per group of actions, with a step
per action. Two properties turned out to say less than was meant, or to hold only while
something else does, when the invariant was looked for: see `LiveFollows` and
`BadgeMatchesCache` below.

| Component | Theorems | Properties stated |
|---|---|---|
| `ControlMode` | `ControlModeProofs`: `TypeCorrect`, `AlignedAlways`, `CorrelationCorrect` | `TypeOK`, `Aligned`, `RepliesAreOwn` |
| | `ControlServiceProofs`: `ServiceImplemented`, `NobodyStranded`, `StreamCorrect` | `ImplementsService`, `NoCallStranded`, `StreamUnbroken` |
| `Dashboard` | `DashboardProofs`: `TypeCorrect`, `NothingLeaks`, `BadgeCorrect` | `TypeOK`, `NoPollerLeak`, `BadgeMatchesCache` |
| `PaneSession` | `PaneSessionProofs`: `TypeCorrect`, `InputCorrect`, `LiveCorrect`, `EndCorrect` | `TypeOK`, `InputInOrder`, `LiveFollows`, `EndIsAnnounced` |
| `Browser` | `BrowserProofs`: `TypeCorrect`, `KeysCorrect`, `AttemptCorrect`, `LeftCorrect`, `SizeCorrect` | `TypeOK`, `KeysGoOnce`, `OneAttempt`, `LeftStaysLeft`, `SizeIsTold` |
| `PaneIO` | `PaneIOProofs`: `FramingCorrect`, `EventsCorrect`, `LiveCorrect`, `HarmlessCorrect` | `FramingHolds`, `EventsAreMeant`, `LiveIsFiltered`, `LiveIsHarmless` |
| | `WholeKeysArrive`, `KeysCorrect`, `SentClosed` | `KeysArrive` of keys that are `Typeable`; `SentIsClean`, which no run checks |
| | and of the operators: `DecodeEncoded`, `EncodedUtf8`, `AdvanceInParts`, `PassInParts` | |
| `Server` | `ServerProofs`: `TypeCorrect`, `TokenDecides`, `TokenCorrect`, `SocketsCorrect`, `PagesCorrect`, `HostsCorrect` | `TypeOK`, `TokenIsNeeded`, `SocketsAreOwn`, `PagesWork`, `HostsAreLoopback` |

### ControlMode

`ControlModeProofs.tla`: for every set of calls and all capacities and bounds, from the
two assumptions of `ControlMode` (distinct values; capacities are positive naturals).

* `TypeCorrect`: `Spec => []TypeOK`. `TypeOK` alone is not inductive: the writer registers
  and writes what it has in hand, so `TypeInv` adds that the hand is not empty there, and
  that the reader matches only on a begin line.
* `AlignedAlways`: `Spec => []Aligned`. `Aligned` has four parts. `Ordered`: what tmux ran
  and has still to read is a prefix of the registrations, all but the one being written.
  `Queued`: until the supervisor drains the FIFO, `pending \o pendingChan` is the
  registrations not yet matched. `Framed`: the begin lines on the pty are those of the
  blocks not yet seen, in order and each once (`Ahead`, `Rising`), a block's lines follow
  each other (`Whole`), its last line carries tmux's verdict (`Verdicts`), and the block
  the reader is in, and the one tmux is in, are the first and the last (`Ends`).
  `InFlightOwn`: the sender in flight is the registration of the last block seen to begin
  and its buffer holds lines of that block. Each part is preserved given all of them; the
  proof has one lemma per part and one step per action, on top of a few lemmas about
  sequences.
* `CorrelationCorrect`: `Spec => []RepliesAreOwn`, from `Aligned`: at the end line,
  `Verdicts` and `InFlightOwn` name the run whose caller is answered.

`ControlServiceProofs.tla`, on top of it:

* `ServiceImplemented`: `Spec => ImplementsService`, each step mapped to a step of
  `CommandService` or a stutter. `ServiceInv` is `TypeInv`, `Aligned` and four more parts.
  `Once`: a request is in one place on its way (the call's send, the channel, the
  writer's hand, the registrations) and there once, so that tmux runs it once. `OneLine`: a block
  holds one data line, all of it read when its end line comes, so that the answer is the
  whole body. `Held`: the sender of a caller that waits is in the custody of the channel,
  the writer, the pending channel or the FIFO, or in flight. `Emptied`: these places
  hold nothing once their owner has ended.
* `NobodyStranded`: `Spec => []NoCallStranded`, from `Held` and `Emptied`.
* `StreamCorrect`: `Spec => []StreamUnbroken`. `Stream` says that the outputs in the
  channel and the one held back run on from the last heard (`Passed`), and, as long as
  the reader is in its loop, that those still on the pty run on from there (`Coming`).
  A reader that gave up leaves a gap, with nobody left to send what lies behind it.

### Dashboard

From `DashboardAssumption` (statuses and markers are distinct, some command is no agent,
there are screens, capacity and threshold are positive).

* `TypeCorrect`. `Counted` adds what bounds the generations: a session gets a new poller
  only if a listing, or a server, has missed it since the last.
* `NothingLeaks`: `NoPollerLeak` is inductive, given `TypeInv`.
* `BadgeCorrect`: `Spec /\ []Undisturbed => []BadgeMatchesCache`. Nothing less would be
  true: `Undisturbed` excludes exactly the two things after which row and cache part for
  good, a full channel (`Room`: `try_send` drops the transition, by design) and a former
  poller of a listed session that is still in a poll (`NoOverlap`: the `dashboard_relisted`
  violation). It is not vacuous: every behaviour of the run `dashboard` in which no
  session is listed a second time satisfies it, and each of its two halves fails in some behaviour of `Spec`.
  `Shows`: a poller of a generation to come has cached nothing (`Fresh`), a listed session
  has a row (`Shown`), and the last event under way about a session, or the row when there
  is none, carries what its poller has cached (`Latest`).

### PaneSession

From `PaneSessionAssumption` (`None` is no pane, the queue of answers and the channel of
commands have a place).

* `TypeCorrect`. To the types `TypeInv` adds that the main task has at most the one
  command on its way that it waits for (`Asked`), and when the panes are known.
* `InputCorrect`: `Numbered`: the frames tmux has acted upon, those on their way to it
  and those the inbound task has still to read have rising numbers, each part in order and
  before the next, although the task goes on when a command times out.
* `LiveCorrect`: `Stream` (the outputs of a pane in the event channel rise without a gap up
  to what it has written), `Continues` (the channel goes on where the last live frame of
  this epoch ended) and `Seeded` (what is in the channel in the main loop is later than
  the seed). `LiveFollows` was
  strengthened on the way: it now also relates live output to the seed in every epoch,
  the one after a switch back to the seed's pane included.
* `EndCorrect`: `Told`: a driver that is going has left its Exit in the channel, unless that
  was drained or the task has ended; so an end without a close frame has a browser that
  closed, a drained Exit or a late cancel behind it.

### Browser

From `BrowserAssumption` (bounds; more sockets than panes, which are "enough": a client has
one at most, `OneSocket`, so that by the pigeonhole principle a free one is always there).

* `TypeCorrect`, `KeysCorrect` and `AttemptCorrect` share one invariant. `Events`: what
  comes on a socket fits its state, and a 1011 that is next finds its client with a message
  seen, so that the refresh branch of `CloseEvent` is never taken. `Mine`: `ws` of a client
  is its live socket. `OneSocket`: a client has one, the one that closes included. `Ways`:
  of a socket, a timer and the button a client has one. `Left`, `Unopened`: a session left
  or not yet opened has none of them.
* `LeftCorrect`: the action property `LeftStaysLeft` from the same invariant.
* `SizeCorrect`: `Fits` (the terminal has the container's size unless its resize timer
  runs), `Remembers` (a client with a size in `_lastReportedSize` has a socket that has been open,
  or has ended a connection) and `Informed` (the size last sent on an open socket is the
  one remembered, for the pane in focus the container's, or the connection is a later one
  that was told none). The theorem holds without `Apart`, the run's action constraint.

### Server

From `ServerAssumption` and `HostsAssumption` (a browser writes a loopback host in its plain
form, `--bind` takes an address, an IPv4 host has one to four parts).

`Requests.tla` is a chain of conditions, as the code is; "arm" lemmas turn it into cases.

* `TokenDecides`: every request that does not carry the token, and is answered by a process
  that asks for it, gets a refusal and no cookie: for all methods, paths, hosts, origins,
  cookies and queries whatever, not just those a run enumerates. `TokenCorrect` states it
  of all reachable states.
* `TypeCorrect`: `TypeInv` adds `Attached` (a socket's process runs, at the port of the
  socket's page) and `Refused` (an exit code other than 0 is that of an ended process).
* `SocketsCorrect` and `PagesCorrect`: the Origin and Host checks together grant a page the
  sockets of its own origin and, but for IPv6, no fewer; `HostsCorrect`: `CheckHost` passes
  only hosts that denote a loopback address, and all of them but those of `Unclaimed`.

### PaneIO

`PaneIOProofs.tla`, for all panes, contents of panes and replies and all bounds, from the
assumption of `PaneIO` (what programs write and users type is bytes; a body holds no guard
but those `BodyLines` adds; a notification is UTF-8 and no guard).

* `FramingCorrect`: `Spec => []FramingHolds`. `Framing` adds to it that the classifier is
  in a state it can reach, with flags of 0 or 1, so that the guard tmux closes the block
  with is the one the classifier expects. The lemmas say what `Feed` does to each kind of
  line: outside, only `%begin` changes the state (`OutsideStays`, `BeginOpens`); inside,
  only the block's own guard does (`InsideStays`, `EndCloses`).
* `DecodeEncoded`: `Decode(Encoded(s)) = s` for every sequence of bytes. `CodeStands` says
  where in the encoding the code of each byte is, and the recursion of `Decode` is followed
  from the end of the line to its beginning. `EncodedUtf8`: the encoding of `s` is UTF-8
  exactly when `s` is.
* `EventsCorrect`: `Spec => []EventsAreMeant`, from `Framing` and one lemma for each kind of
  line; for a line of output the two theorems before: it is misread only if it cuts a
  character in two.
* `AdvanceInParts`: the filter makes of a whole what it makes of the first part and then,
  from the state it left the parser in, of the second, for all bytes and all cuts.
  Underneath it are the types of the parser: each step of vte leaves it in a state of
  `Parser` and performs actions of `Acted` (`VtStepType`), for which the filter writes bytes
  (`OutboundType`).
* `LiveCorrect`: `Spec => []LiveIsFiltered`. `Streamed` says that `outp` and `live` are what
  `Advance` makes of `read`, and that `read` is `shown` as long as nothing was misread;
  `AdvanceInParts` carries it over a line of output, and no other event reaches the filter.
* `HarmlessCorrect`: `Spec => []LiveIsHarmless`. A sequence of bytes is `Safe` when the
  parser, from the ground and back to it, performs on it actions the filter passes
  unchanged, and the filter writes the same bytes for them again. The empty sequence is safe
  and two safe ones in a row are (`SafeJoin`), so it is enough that what the filter writes
  for one action is safe (`OutboundSafe`). For that the text must be read back as the action
  it was written for: the digits of a parameter (by induction over them), the parameters
  with their subparameters and separators, then a CSI, an OSC and an escape as a whole.
  `PutSafe` carries it over all the actions, and `Streamed` says that `live` is what the
  filter wrote for those of `read`.
* `PassInParts`: as `AdvanceInParts`, of the inbound filter. `Typed` says that `inp` and
  `sent` are what it makes of `typed`, so how the browser cuts keys into frames makes no
  difference.
* `WholeKeysArrive`: `Spec => [](typed \in Typeable => KeysArrive)`. `Typeable` is every
  sequence of strokes: a byte other than ESC, Alt and a character of `AltFinal`, a CSI
  sequence with parameters as the filter writes them. A sequence is `Kept` when it passes
  unchanged and leaves the parser in the ground state; the strokes are
  (`PlainKept`, `AltKept`, `CsiKept`, the last one by the reading of parameters that
  `HarmlessCorrect` rests on), and two kept sequences in a row are. `KeysCorrect` is the
  case where each frame brings whole strokes, as the keys of the run `pane_io` do: then
  every byte is with tmux when its frame was handled. What `Typeable` leaves out, the code
  does not pass as it was typed: ESC by itself (`pane_io_loss`), so also Alt with a control
  character, with DEL or with a character beyond ASCII, Alt with `P`, `X`, `[`, `]`, `^`,
  `_`, numbers with leading zeros or beyond 65535, an empty parameter where there are
  several, intermediates after the parameters (written before them, `inbound.rs:122`).
* `SentClosed`: `Spec => []SentIsClean`, for all bytes a browser can send, not just
  `Typeable` ones: what has reached tmux is whole sequences with no OSC or control string
  begun or ended in them. The invariant is about the parser: what it keeps before the
  parameters of a CSI, and between ESC and the final byte, can stand there (`Tidy`), so
  what is written for an action is read from the ground state to the ground state
  (`CsiWordClean`, `EscWordClean`).

These are facts about recursive definitions for inputs of any length, so they need
induction. The induction theorems of the library take a predicate as parameter, which the
provers cannot instantiate; `FoldFacts.tla` derives induction over naturals and sequences
for a set in place of the predicate, from the least element of a set of naturals, and from it
the two equations of a fold from the left (`FoldEmpty`, `FoldAppend`) and what a fold keeps
(`FoldKeeps`). Its parameter is the operation `Op`, and `PaneIOProofs` has one instance of
the module for each fold of the model.

### Only model-checked

All liveness (`CallsReturn`, `TeardownCompletes`, `ConsumerLearns`, `BadgeConverges`,
`AllEnd`, `SessionEnds`, `LostIsRetried`), which is out of the prover's
reach. Of the safety properties, `KeysArrive` and `BadgeMatchesCache` are proved under a
condition (`Typeable` keys, `Undisturbed`), without which runs show them, or what they
stand for, violated.

## Plan

All modules of the plan are written, and every safety property of the runs is proved. What is
left:

1. `PaneSession` against `ControlMode`: what the abstract driver assumes of the detailed
   one, a refinement of the commands and the event channel.

## Not modelled

* `status/matchers.rs`: the text patterns of the three agents. The model has
  `match_status`'s decision, with a screen as the status its matcher finds on it.
* `tmux/command.rs`: the text of commands. A command is a value; what `send-keys` carries
  is its bytes.
* `status/version_probe.rs`: three programs run once, their output logged.
  `tmux/version.rs`: the scan of the text; the decision on the result is in `Server`.
* `assets/main.js` beyond connections, sizes and rows: search, paste, drawer, toasts, and
  the scrollback request, whose promise is settled by the first answer or its timer, late
  answers of an earlier request included.
* `cap_scrollback` of `ws_pane.rs` and the intervals of the back-off ladder of
  `poller.rs`: data and time.
* `templates/`, `assets.rs`, `observability.rs`, vendored terminal: static or third-party.

Known weaknesses of the code that the models show or leave out and no property is about:
the command's text on a row goes stale when the status stays (`poller.rs:107`);
detach-client is dropped when the biased select sees the token first
(`control_mode.rs:150`); a tmux that hangs with a full channel of commands keeps the pane
session of a browser that has gone, and its tmux child, until the process is stopped
(`control_mode.rs:131`; written into `SessionEnds`); a close frame that is on its way when
the runtime is dropped may be cut off (`main.rs:109`); keys typed across a pane switch may go to either pane
(`ws_pane.rs:298`); `%window-pane-changed` of another window of the session is followed
(`ws_pane.rs:295`); the page's one overlay is taken by the client that gives up last
(`main.js:444`); the 1011 branch at `main.js:194` and with it `refresh()` is never reached
from a served session; `CSI M` without a parameter, which deletes a line, is dropped as a
mouse report (`outbound.rs:230`); device queries pass, so tmux and xterm.js both answer;
`InboundFilter`'s cap of 4096 bytes is not used by `ws_pane.rs` (`inbound.rs:33`).
