---------------------------- MODULE LineClassifier -----------------------------
(***************************************************************************)
(* The classifier of control-mode lines (src/tmux/parser.rs) and the decoder *)
(* of %output payloads (src/tmux/escape.rs), as operators: the state and a   *)
(* line give the next state and at most one event (src/tmux/events.rs).      *)
(***************************************************************************)
EXTENDS Naturals, Sequences

CONSTANT Panes   \* pane ids: words that begin with "%"

(***************************************************************************)
(* Lines and events.  Of a line the classifier looks at: its first word     *)
(* ("text" for one that does not begin with "%"), the words after it, the   *)
(* numbers of a block header (<<>> when they do not parse), and, for a      *)
(* payload or a line of a body, its bytes.                                 *)
(***************************************************************************)
MkLine(verb, args, header, bytes) ==
    [verb |-> verb, args |-> args, header |-> header, bytes |-> bytes]
Notice(verb, args)   == MkLine(verb, args, <<>>, <<>>)
Guard(verb, n, flags) == MkLine(verb, <<"time", "number", "flags">>, <<n, flags>>, <<>>)

Output(pane, data)     == [kind |-> "output", pane |-> pane, data |-> data]
Block(kind, n, flags)  == [kind |-> kind, num |-> n, flags |-> flags]
BlockLine(n, line)     == [kind |-> "block-line", num |-> n, line |-> line]
Note(verb, args)       == [kind |-> verb, args |-> args]
Ignored(verb)          == [kind |-> "ignored", verb |-> verb]

Outside               == [at |-> "outside"]
InsideBlock(n, flags) == [at |-> "block", num |-> n, flags |-> flags]

(* str::from_utf8, for the characters of one and two bytes. *)
Lead == 194..223
Tail2 == 128..191
IsUtf8(bytes) ==
    \A i \in DOMAIN bytes :
        /\ bytes[i] \in Lead => i < Len(bytes) /\ bytes[i + 1] \in Tail2
        /\ bytes[i] \in Tail2 => i > 1 /\ bytes[i - 1] \in Lead
        /\ bytes[i] \in 0..255 \ (192..193 \cup 224..255)

(***************************************************************************)
(* escape::decode: "\" and three octal digits are a byte, all else itself.  *)
(***************************************************************************)
Backslash == 92
Octal     == 48..55

Decode(in) ==
    LET escaped(i) == /\ in[i] = Backslash /\ i + 3 <= Len(in)
                      /\ \A k \in 1..3 : in[i + k] \in Octal
        byte(i) == (in[i + 1] - 48) * 64 + (in[i + 2] - 48) * 8 + (in[i + 3] - 48)
        from[i \in 1..Len(in) + 4] ==
            IF i > Len(in) THEN <<>>
            ELSE IF escaped(i) THEN <<byte(i) % 256>> \o from[i + 4]
            ELSE <<in[i]>> \o from[i + 1]
    IN  from[1]

(***************************************************************************)
(* classify_outside, parse_output, classify_inside and feed.               *)
(***************************************************************************)
Yields(state, ev) == [state |-> state, out |-> <<ev>>]
Silent(state)     == [state |-> state, out |-> <<>>]

(* Notifications that need a word after the verb, that must have none, and   *)
(* that may have some.                                                     *)
WithWords == {"%session-changed", "%window-add", "%window-close", "%window-renamed",
              "%layout-change", "%pane-mode-changed"}
Bare      == {"%sessions-changed"}
EitherWay == {"%client-detached", "%exit"}

IsNote(verb, args) ==
    \/ verb \in WithWords /\ args # <<>>
    \/ verb \in Bare /\ args = <<>>
    \/ verb \in EitherWay
    \/ verb = "%window-pane-changed" /\ Len(args) >= 2

(* "%output %<pane> <encoded>". *)
ParseOutput(line) ==
    IF Len(line.args) >= 2 /\ line.args[1] \in Panes
    THEN Yields(Outside, Output(line.args[1], Decode(line.bytes)))
    ELSE Silent(Outside)

(* A line that is not UTF-8, a payload or a header that does not parse and a *)
(* plain line leave no trace; a verb nobody knows is an event of its own.    *)
ClassifyOutside(line) ==
    LET verb == line.verb
    IN  IF ~IsUtf8(line.bytes) \/ verb = "text" THEN Silent(Outside)
        ELSE IF verb = "%output" /\ line.args # <<>> THEN ParseOutput(line)
        ELSE IF verb = "%begin" /\ line.args # <<>> THEN
                IF line.header = <<>> THEN Silent(Outside)
                ELSE Yields(InsideBlock(line.header[1], line.header[2]),
                            Block("begin", line.header[1], line.header[2]))
        ELSE IF IsNote(verb, line.args) THEN Yields(Outside, Note(verb, line.args))
        ELSE IF verb = "%window-pane-changed" /\ Len(line.args) = 1 THEN Silent(Outside)
        ELSE Yields(Outside, Ignored(verb))

(* Mutant: any %end or %error closes the block. *)
ClosesAny(state, line) == line.verb \in {"%end", "%error"} /\ line.header # <<>>

(* A body may hold anything: only a guard with the block's number closes it. *)
Closes(state, line) ==
    /\ line.verb \in {"%end", "%error"}
    /\ line.header # <<>> /\ line.header[1] = state.num
    /\ IsUtf8(line.bytes)

ClassifyInside(state, line) ==
    IF Closes(state, line)
    THEN Yields(Outside, Block(IF line.verb = "%end" THEN "end" ELSE "error",
                               state.num, state.flags))
    ELSE Yields(state, BlockLine(state.num, line))

(* Mutant: a line that begins with "%" is a notification wherever it stands. *)
FeedVerbsFirst(state, line) ==
    IF state = Outside \/ line.verb \in WithWords \cup Bare \cup EitherWay
    THEN ClassifyOutside(line) ELSE ClassifyInside(state, line)

Feed(state, line) ==
    IF state.at = "outside" THEN ClassifyOutside(line) ELSE ClassifyInside(state, line)

================================================================================
