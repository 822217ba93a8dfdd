-------------------------------- MODULE VtFilter -------------------------------
(***************************************************************************)
(* The filters between a pane and its browser (src/vt_filter): a parser of  *)
(* terminal sequences, the vte crate (external), and what the outbound and   *)
(* the inbound filter write for each action it performs.  Bytes are numbers, *)
(* their ASCII codes; a character of two bytes is printed byte by byte.      *)
(***************************************************************************)
EXTENDS Naturals, Sequences, SequencesExt

CONSTANT SafeUrls   \* the URLs that parse, with scheme http, https or mailto

BEL == 7
CAN == 24
SUBST == 26
ESC == 27
C0     == 0..31
Digit  == 48..57
Param  == 48..63      \* digits, ":" ";" and the private markers
Marker == 60..63      \* "<" "=" ">" "?"
Inter  == 32..47
Final  == 64..126
MaxParam == 65535      \* a parameter is a u16

(***************************************************************************)
(* vte: one step of the parser.  A sequence being parsed is its state, its   *)
(* intermediates, the parameters and their subparameters with the last one   *)
(* open, and the parameters of an OSC as they came.                        *)
(***************************************************************************)
Start(st) == [st |-> st, inter |-> <<>>, params |-> <<<<0>>>>, osc |-> <<<<>>>>]
Ground    == Start("ground")

Act(do, bytes) == [do |-> do, bytes |-> bytes]
Csi(p, b)      == [do |-> "csi", params |-> p.params, inter |-> p.inter, final |-> b]
Esc(p, b)      == [do |-> "esc", inter |-> p.inter, final |-> b]
Step(p, acts)  == [p |-> p, acts |-> acts]

(* An OSC is performed when it is ended, by whatever ends it. *)
OscEnd(p) == IF p.st = "osc" THEN <<[do |-> "osc", params |-> p.osc]>> ELSE <<>>

AddLast(s, x) == [s EXCEPT ![Len(s)] = Append(@, x)]
OpenParam(params) == params[Len(params)][Len(params[Len(params)])]
AddDigit(params, b) ==
    [params EXCEPT ![Len(params)][Len(params[Len(params)])] =
        LET n == OpenParam(params) * 10 + (b - 48) IN IF n > MaxParam THEN MaxParam ELSE n]

InEscape(p, b) ==
    CASE b \in C0 -> Step(p, <<Act("execute", <<b>>)>>)
      [] b \in Inter -> Step([p EXCEPT !.inter = Append(@, b)], <<>>)
      [] b = 91 /\ p.inter = <<>> -> Step(Start("entry"), <<>>)
      [] b = 93 /\ p.inter = <<>> -> Step(Start("osc"), <<>>)
      [] b \in {80, 88, 94, 95} /\ p.inter = <<>> -> Step(Start("string"), <<>>)
      [] b \in 127..255 -> Step(p, <<>>)
      [] OTHER -> Step(Ground, <<Esc(p, b)>>)

(* "entry" until the first parameter, "param", "inter" after an intermediate, *)
(* "ignore" once the sequence is malformed.                                 *)
InCsi(p, b) ==
    IF b \in C0 THEN Step(p, <<Act("execute", <<b>>)>>)
    ELSE IF b \in Final THEN Step(Ground, IF p.st = "ignore" THEN <<>> ELSE <<Csi(p, b)>>)
    ELSE IF b \in 127..255 \/ p.st = "ignore" THEN Step(p, <<>>)
    ELSE IF b \in Inter THEN
            Step([p EXCEPT !.st = IF Len(p.inter) = 2 THEN "ignore" ELSE "inter",
                           !.inter = Append(@, b)], <<>>)
    ELSE IF p.st = "inter" \/ (b \in Marker /\ p.st # "entry") THEN
            Step([p EXCEPT !.st = "ignore"], <<>>)
    ELSE IF b \in Marker THEN Step([p EXCEPT !.st = "param", !.inter = Append(@, b)], <<>>)
    ELSE Step([p EXCEPT !.st = "param",
                           !.params = CASE b = 59 -> Append(@, <<0>>)
                                        [] b = 58 -> AddLast(@, 0)
                                        [] OTHER -> AddDigit(@, b)], <<>>)

InOsc(p, b) ==
    IF b = BEL THEN Step(Ground, OscEnd(p))
    ELSE IF b \in C0 THEN Step(p, <<>>)
    ELSE IF b = 59 THEN Step([p EXCEPT !.osc = Append(@, <<>>)], <<>>)
    ELSE Step([p EXCEPT !.osc = AddLast(@, b)], <<>>)

(* DCS, SOS, PM and APC strings ("string") perform nothing either filter     *)
(* writes down.  ESC begins a sequence and CAN or SUB ends one, anywhere.    *)
VtStep(p, b) ==
    IF b = ESC THEN Step(Start("esc"), OscEnd(p))
    ELSE IF b \in {CAN, SUBST} THEN Step(Ground, Append(OscEnd(p), Act("execute", <<b>>)))
    ELSE IF p.st = "ground" THEN Step(p, <<Act(IF b \in C0 THEN "execute" ELSE "print", <<b>>)>>)
    ELSE IF p.st = "esc" THEN InEscape(p, b)
    ELSE IF p.st = "osc" THEN InOsc(p, b)
    ELSE IF p.st = "string" THEN Step(p, <<>>)
    ELSE InCsi(p, b)

(***************************************************************************)
(* What is written: emit_csi, emit_osc.                                     *)
(***************************************************************************)
Dec[n \in 0..MaxParam] == IF n < 10 THEN <<48 + n>> ELSE Append(Dec[n \div 10], 48 + (n % 10))

Joined(parts, sep) ==
    FoldLeft(LAMBDA s, part : IF s = <<>> THEN part ELSE Append(s, sep) \o part, <<>>, parts)
Numbers(ns, sep) == Joined([i \in DOMAIN ns |-> Dec[ns[i]]], sep)

(* is_default_params: vte gives a sequence without parameters a single 0. *)
IsDefault(params) == params = <<<<0>>>>

(* Mutant: the default that vte adds is written out. *)
EmitCsiDefaults(act) ==
    <<ESC, 91>> \o act.inter
    \o Joined([i \in DOMAIN act.params |-> Numbers(act.params[i], 58)], 59)
    \o <<act.final>>

EmitCsi(act) ==
    <<ESC, 91>> \o act.inter
    \o (IF IsDefault(act.params) THEN <<>>
        ELSE Joined([i \in DOMAIN act.params |-> Numbers(act.params[i], 58)], 59))
    \o <<act.final>>

(* The parts may be empty: each is joined to what there is. *)
ST == <<ESC, 92>>
EmitOsc(act) ==
    <<ESC, 93>> \o FoldLeft(LAMBDA s, part : Append(s, 59) \o part, Head(act.params),
                            Tail(act.params))
    \o ST

(***************************************************************************)
(* OutboundFilter: what the pane's program may do to the browser's terminal. *)
(***************************************************************************)
BannedModes     == {1000, 1002, 1003, 1004, 1005, 1006, 1015}
AllowedControls == 7..13 \cup {ESC}
AllowedOscs     == {Dec[n] : n \in {0, 1, 2, 4, 7, 10, 11, 12, 104, 110, 111, 112}}
StandardFinals  == 64..77 \cup {80, 83, 84, 88, 90, 96, 97} \cup 99..102
                   \cup {104, 108, 109, 110} \cup 114..117
PlainEscapes    == {55, 56, 61, 62, 68, 69, 72, 77, 99}    \* 7 8 = > D E H M c
Charsets        == 40..43                                   \* ( ) * +

(* Mutant: a sequence with one mode that may pass passes whole. *)
PrivateModesWhole(act) ==
    LET modes == [i \in DOMAIN act.params |-> act.params[i][1]]
    IN  IF \A i \in DOMAIN modes : modes[i] \in BannedModes THEN <<>>
        ELSE <<ESC, 91, 63>> \o Numbers(modes, 59) \o <<act.final>>

(* CSI ? h and l: the first subparameter of each mode that is not banned. *)
PrivateModes(act) ==
    LET modes == FoldLeft(LAMBDA ms, n : IF n \in BannedModes THEN ms ELSE Append(ms, n), <<>>,
                          [i \in DOMAIN act.params |-> act.params[i][1]])
    IN  IF modes = <<>> THEN <<>>
        ELSE <<ESC, 91, 63>> \o Numbers(modes, 59) \o <<act.final>>

(* A "M" whose parameters are all 0 is taken for a mouse report. *)
IsMouse(act) ==
    \/ act.inter = <<>> /\ act.final = 77
       /\ \A i \in DOMAIN act.params : \A k \in DOMAIN act.params[i] : act.params[i][k] = 0
    \/ act.inter = <<60>> /\ act.final \in {77, 109}

OutboundCsi(act) ==
    IF act.inter = <<63>> /\ act.final \in {104, 108} THEN PrivateModes(act)
    ELSE IF IsMouse(act) THEN <<>>
    ELSE IF act.inter = <<>> /\ act.final \in StandardFinals THEN EmitCsi(act)
    ELSE IF act.inter = <<63>> /\ act.final \in {115, 117} THEN EmitCsi(act)
    ELSE <<>>

(* OSC 52 is on no list; of OSC 8 the URL decides, and none ends a link. *)
Url(act) == IF Len(act.params) < 3 THEN <<>> ELSE act.params[3]
OutboundOsc(act) ==
    IF \/ act.params[1] \in AllowedOscs
       \/ act.params[1] = Dec[8] /\ Url(act) \in SafeUrls \cup {<<>>}
    THEN EmitOsc(act) ELSE <<>>

OutboundEsc(act) ==
    IF \/ Len(act.inter) = 1 /\ act.inter[1] \in Charsets
       \/ act.inter = <<>> /\ act.final \in PlainEscapes
    THEN <<ESC>> \o act.inter \o <<act.final>> ELSE <<>>

Outbound(act) ==
    CASE act.do = "print" -> act.bytes
      [] act.do = "execute" -> IF act.bytes[1] \in AllowedControls THEN act.bytes ELSE <<>>
      [] act.do = "osc" -> OutboundOsc(act)
      [] act.do = "csi" -> OutboundCsi(act)
      [] act.do = "esc" -> OutboundEsc(act)

(***************************************************************************)
(* InboundFilter: what the browser may type.  No OSC passes, every other    *)
(* sequence that has been performed is written again.                      *)
(***************************************************************************)
Inbound(act) ==
    CASE act.do \in {"print", "execute"} -> act.bytes
      [] act.do = "osc" -> <<>>
      [] act.do = "csi" -> EmitCsi(act)
      [] act.do = "esc" -> <<ESC>> \o act.inter \o <<act.final>>

(***************************************************************************)
(* Parser::advance over a chunk, and what the filter has for take().  The    *)
(* parser goes on where the last chunk left it (OutboundStream); filter()    *)
(* begins a new one.                                                       *)
(***************************************************************************)
Written(way, act) == IF way = "outbound" THEN Outbound(act) ELSE Inbound(act)

Advance(way, p, bytes) ==
    FoldLeft(LAMBDA r, b :
                LET s == VtStep(r.p, b)
                IN  [p |-> s.p,
                     out |-> FoldLeft(LAMBDA o, a : o \o Written(way, a), r.out, s.acts)],
             [p |-> p, out |-> <<>>], bytes)

Filter(way, bytes) == Advance(way, Ground, bytes).out

(* What a terminal that reads these bytes is told to do. *)
Performed(bytes) ==
    FoldLeft(LAMBDA r, b : LET s == VtStep(r.p, b) IN [p |-> s.p, acts |-> r.acts \o s.acts],
             [p |-> Ground, acts |-> <<>>], bytes)

================================================================================
