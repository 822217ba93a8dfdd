--------------------------------- MODULE PaneIO --------------------------------
(***************************************************************************)
(* The way of the bytes between a pane and its browser.                     *)
(*                                                                         *)
(*  program -> tmux (external) --lines--> LineClassifier -> main loop of     *)
(*    ws_pane.rs -> outbound filter -> xterm.js                              *)
(*  keys (external) -> inbound task of ws_pane.rs -> inbound filter -> tmux  *)
(*                                                                         *)
(* A line is read, classified and handled in the step that writes it: the   *)
(* channels and the tasks between are the subject of ControlMode and        *)
(* PaneSession, here it is what becomes of the bytes.                      *)
(***************************************************************************)
EXTENDS LineClassifier, VtFilter

CONSTANTS
    Shows,       \* what programs write to their panes
    Keys,        \* what the browser sends in one frame
    Bodies,      \* lines a reply may hold, guards apart
    Notices,     \* notifications, changes of pane apart
    MaxShows,    \* bound: writes of programs
    MaxCuts,     \* bound: pieces that leave a rest behind
    MaxFrames,   \* bound: frames of the browser
    MaxTurns,    \* bound: blocks and notifications together
    MaxBody      \* bound: lines of one body

VARIABLES
    shows, cuts, frames, turns, body,   \* counted for the bounds
    tmuxPane,    \* tmux: the pane it names as active
    block,       \* tmux: the number of the open block, or 0
    blocks,      \* tmux: blocks so far
    unsent,      \* tmux: of each pane, written and in no %output line yet
    clf,         \* the reader's LineClassifier
    serving,     \* the main loop of the pane WebSocket runs
    active,      \* active_pane
    outp, inp,   \* out_filter's parser, and the inbound task's
    read,        \* history: the bytes of the output events of the active pane
    live,        \* history: the bytes of the live frames
    sent,        \* history: the bytes of the send-keys commands
    shown,       \* history: the bytes that tmux has passed on of the active pane
    typed,       \* history: the bytes of the browser's frames
    misread      \* history: the last line that gave another event than it meant

tmuxVars == <<shows, cuts, turns, body, tmuxPane, block, blocks, unsent>>
liveVars == <<serving, active, outp, read, live>>
keyVars  == <<frames, inp, sent, typed>>
vars == <<tmuxVars, clf, liveVars, keyVars, shown, misread>>

Numbers1 == 1..MaxTurns + 1
Byte     == 0..255
Misread(line, out) == [line |-> line, out |-> out]
AllRead  == Misread(MkLine("none", <<>>, <<>>, <<>>), <<>>)

ASSUME PaneIOAssumption ==
    /\ MaxShows \in Nat /\ MaxCuts \in Nat /\ MaxFrames \in Nat /\ MaxTurns \in Nat /\ MaxBody \in Nat
    /\ Panes # {}
    /\ Shows \subseteq Seq(Byte) /\ Keys \subseteq Seq(Byte)
    /\ \A l \in Bodies : l.verb \notin {"%end", "%error"}
    /\ \A n \in Notices :
          n.verb \notin {"text", "%begin", "%output", "%window-pane-changed"} /\ IsUtf8(n.bytes)

Init ==
    /\ shows = 0 /\ cuts = 0 /\ frames = 0 /\ turns = 0 /\ body = 0
    /\ tmuxPane \in Panes /\ active = tmuxPane
    /\ block = 0 /\ blocks = 0
    /\ unsent = [p \in Panes |-> <<>>]
    /\ clf = Outside /\ serving = TRUE
    /\ outp = Ground /\ inp = Ground
    /\ read = <<>> /\ live = <<>> /\ sent = <<>> /\ shown = <<>> /\ typed = <<>>
    /\ misread = AllRead

Turn == turns < MaxTurns /\ turns' = turns + 1

(***************************************************************************)
(* The main loop's arms for what the reader yields.                        *)
(***************************************************************************)

(* Mutant: a parser for each chunk. *)
ToBrowserAfresh(ev) ==
    IF ev.pane # active THEN UNCHANGED liveVars
    ELSE LET f == Advance("outbound", Ground, ev.data)
         IN  /\ outp' = f.p
             /\ read' = read \o ev.data
             /\ live' = live \o f.out
             /\ UNCHANGED <<serving, active>>

(* Output of another pane is skipped, what the filter holds back no frame. *)
ToBrowser(ev) ==
    IF ev.pane # active THEN UNCHANGED liveVars
    ELSE LET f == Advance("outbound", outp, ev.data)
         IN  /\ outp' = f.p
             /\ read' = read \o ev.data
             /\ live' = live \o f.out
             /\ UNCHANGED <<serving, active>>

Handle(ev) ==
    CASE ~serving -> UNCHANGED liveVars
      [] serving /\ ev.kind = "output" -> ToBrowser(ev)
      [] serving /\ ev.kind = "%window-pane-changed" ->
            active' = ev.args[2] /\ UNCHANGED <<serving, outp, read, live>>
      [] serving /\ ev.kind \in {"%client-detached", "%exit"} ->
            serving' = FALSE /\ UNCHANGED <<active, outp, read, live>>
      [] OTHER -> UNCHANGED liveVars

(* tmux writes a line that means these events (at most one). *)
Writes(line, meant) ==
    LET r == Feed(clf, line)
    IN  /\ clf' = r.state
        /\ misread' = IF r.out = meant THEN misread ELSE Misread(line, r.out)
        /\ IF r.out = <<>> THEN UNCHANGED liveVars ELSE Handle(r.out[1])
        /\ UNCHANGED keyVars

(***************************************************************************)
(* tmux (external): a program writes, tmux passes on what there is in        *)
(* pieces of its own choice, never inside a block.                          *)
(***************************************************************************)
Shown(p, bytes) ==
    /\ shows < MaxShows /\ shows' = shows + 1
    /\ unsent[p] = <<>>
    /\ unsent' = [unsent EXCEPT ![p] = bytes]
    /\ UNCHANGED <<cuts, turns, body, tmuxPane, block, blocks, clf, liveVars, keyVars, shown,
                   misread>>

Escape(b) ==
    IF b < 32 \/ b = Backslash
    THEN <<Backslash, 48 + (b \div 64), 48 + ((b \div 8) % 8), 48 + (b % 8)>>
    ELSE <<b>>
Encoded(bytes) == FoldLeft(LAMBDA s, b : s \o Escape(b), <<>>, bytes)

(* A piece may end inside a character. *)
OutputLine(p) ==
    /\ block = 0
    /\ \E n \in 1..Len(unsent[p]) :
          LET piece == SubSeq(unsent[p], 1, n)
          IN  /\ cuts' = IF n < Len(unsent[p]) THEN cuts + 1 ELSE cuts
              /\ cuts' <= MaxCuts
              /\ unsent' = [unsent EXCEPT ![p] = SubSeq(@, n + 1, Len(@))]
              /\ Writes(MkLine("%output", <<p, "payload">>, <<>>, Encoded(piece)),
                        <<Output(p, piece)>>)
              /\ shown' = IF p = active /\ serving THEN shown \o piece ELSE shown
    /\ UNCHANGED <<shows, turns, body, tmuxPane, block, blocks>>

PaneChangedLine(p) ==
    /\ Turn
    /\ block = 0 /\ p # tmuxPane
    /\ tmuxPane' = p
    /\ LET words == <<"@1", p>>
       IN  Writes(Notice("%window-pane-changed", words), <<Note("%window-pane-changed", words)>>)
    /\ UNCHANGED <<shows, cuts, body, block, blocks, unsent, shown>>

NoticeLine(n) ==
    /\ Turn
    /\ block = 0
    /\ Writes(n, IF IsNote(n.verb, n.args) THEN <<Note(n.verb, n.args)>>
                 ELSE <<Ignored(n.verb)>>)
    /\ UNCHANGED <<shows, cuts, body, tmuxPane, block, blocks, unsent, shown>>

BeginLine ==
    /\ Turn
    /\ block = 0
    /\ block' = blocks + 1 /\ blocks' = blocks + 1 /\ body' = 0
    /\ \E flags \in {0, 1} :
          Writes(Guard("%begin", block', flags), <<Block("begin", block', flags)>>)
    /\ UNCHANGED <<shows, cuts, tmuxPane, unsent, shown>>

(* What a reply holds may be anything a pane shows, notifications and the    *)
(* guards of other blocks among it; its own guard is taken not to occur.     *)
BodyLines ==
    Bodies \cup {Guard(v, n, 1) : v \in {"%begin", "%end", "%error"}, n \in Numbers1 \ {block}}
BodyLine(line) ==
    /\ block # 0
    /\ body < MaxBody /\ body' = body + 1
    /\ Writes(line, <<BlockLine(block, line)>>)
    /\ UNCHANGED <<shows, cuts, turns, tmuxPane, block, blocks, unsent, shown>>

EndLine(ok) ==
    /\ block # 0
    /\ block' = 0
    /\ Writes(Guard(IF ok THEN "%end" ELSE "%error", block, clf.flags),
              <<Block(IF ok THEN "end" ELSE "error", block, clf.flags)>>)
    /\ UNCHANGED <<shows, cuts, turns, body, tmuxPane, blocks, unsent, shown>>

(***************************************************************************)
(* The inbound task, for a TAG_STDIN frame.                                 *)
(***************************************************************************)
Stdin(keys) ==
    /\ frames < MaxFrames /\ frames' = frames + 1
    /\ serving
    /\ LET f == Advance("inbound", inp, keys)
       IN  inp' = f.p /\ sent' = sent \o f.out
    /\ typed' = typed \o keys
    /\ UNCHANGED <<tmuxVars, clf, liveVars, shown, misread>>

Next ==
    \/ \E p \in Panes : \/ \E w \in Shows : Shown(p, w)
                        \/ OutputLine(p) \/ PaneChangedLine(p)
    \/ \E n \in Notices : NoticeLine(n)
    \/ BeginLine
    \/ \E l \in BodyLines : BodyLine(l)
    \/ \E ok \in BOOLEAN : EndLine(ok)
    \/ \E k \in Keys : Stdin(k)

Spec == Init /\ [][Next]_vars

--------------------------------------------------------------------------------
(* The reader's idea of the protocol is tmux's: it is inside a block exactly *)
(* when tmux is, and inside the same one (parser.rs:12 and :181).           *)
FramingHolds ==
    /\ clf = Outside <=> block = 0
    /\ block # 0 => clf.num = block

(* Each line of whole characters gives the event tmux meant by it: content   *)
(* stays content, though it reads like a notification or like a guard, and a *)
(* piece of output comes back from its encoding byte by byte (parser.rs:180,  *)
(* escape.rs:21).  Of any other line not a wrong event is made, but none.     *)
EventsAreMeant ==
    misread # AllRead => ~IsUtf8(misread.line.bytes) /\ misread.out = <<>>

(* The pieces tmux cuts the output into, across sequences and escapes, make  *)
(* no difference to the filter: the browser has what filter() makes of all    *)
(* that was read of its pane, in one piece, and that is all the pane has      *)
(* shown as long as no line was lost (outbound.rs:31, ws_pane.rs:283).        *)
LiveIsFiltered ==
    /\ live = Filter("outbound", read)
    /\ misread = AllRead => read = shown

(* What the terminal of the browser is told to do by all live bytes together *)
(* has no mouse or focus mode, no clipboard, no unsafe link, no device string *)
(* and no mouse report in it, and would pass the filter once more unchanged:  *)
(* nothing that was held back arises from the parts that were not            *)
(* (outbound.rs:7).                                                        *)
Harmless(act) ==
    CASE act.do = "csi" ->
            /\ ~IsMouse(act)
            /\ act.inter = <<63>> /\ act.final = 104 =>
                  \A i \in DOMAIN act.params : act.params[i][1] \notin BannedModes
      [] act.do = "osc" ->
            /\ act.params[1] # Dec[52]
            /\ act.params[1] = Dec[8] => Url(act) \in SafeUrls \cup {<<>>}
      [] OTHER -> TRUE
LiveIsHarmless ==
    LET seen == Performed(live)
    IN  /\ seen.p = Ground
        /\ \A i \in DOMAIN seen.acts : Harmless(seen.acts[i])
        /\ Filter("outbound", live) = live

(* Every key reaches tmux with the frame that brings it, as it was typed     *)
(* (inbound.rs:84 "Pass all C0 through", inbound.rs:122 "byte-faithful").    *)
KeysArrive == sent = typed

(* All that tmux passes on of the active pane is read: "We never drop bytes  *)
(* mid-stream" (control_mode.rs:430), "UTF-8 multibyte sequences pass through *)
(* verbatim" (escape.rs:18).                                               *)
OutputArrives == read = shown

(* Of the two streams of a pane, the keys and the output, at least one comes  *)
(* through whole: the least that the comments quoted above promise of them.   *)
OneWayArrives == KeysArrive \/ OutputArrives

================================================================================
