---------------------------- MODULE PaneSessionProofs ----------------------------
(***************************************************************************)
(* What holds of every pane connection, whatever the panes, the capacity of *)
(* the queue and the bounds: its type, that the browser's frames take       *)
(* effect in order, that live output goes on where the seed ended, and that  *)
(* the end is announced.                                                    *)
(***************************************************************************)
EXTENDS PaneSession, TLAPS, FiniteSetTheorems

LEMMA ElementFacts ==
    ASSUME NEW S, NEW s \in Seq(S)
    PROVE  /\ Len(s) \in Nat /\ DOMAIN s = 1..Len(s)
           /\ \A i \in DOMAIN s : s[i] \in S
OBVIOUS

LEMMA AppendFacts ==
    ASSUME NEW S, NEW s \in Seq(S), NEW x \in S
    PROVE  /\ Append(s, x) \in Seq(S)
           /\ Len(s) \in Nat /\ DOMAIN s = 1..Len(s)
           /\ DOMAIN Append(s, x) = 1..Len(s) + 1
           /\ \A i \in 1..Len(s) : Append(s, x)[i] = s[i]
           /\ Append(s, x)[Len(s) + 1] = x
OBVIOUS

LEMMA TailFacts ==
    ASSUME NEW S, NEW s \in Seq(S), s # <<>>
    PROVE  /\ Head(s) \in S /\ Head(s) = s[1] /\ Tail(s) \in Seq(S)
           /\ Len(s) \in Nat \ {0} /\ DOMAIN s = 1..Len(s)
           /\ DOMAIN Tail(s) = 1..Len(s) - 1
           /\ \A i \in 1..Len(s) - 1 : Tail(s)[i] = s[i + 1]
OBVIOUS

LEMMA SeqWithin ==
    ASSUME NEW S, NEW T, S \subseteq T, NEW s \in Seq(S)
    PROVE  s \in Seq(T)
OBVIOUS

(***************************************************************************)
(* The type.  A frame that is not a close carries a number the browser has  *)
(* given, and an event of output or of a switch a pane; the main task has   *)
(* one command on its way, the one it waits for; and it knows its pane from *)
(* display-message on, the seed's from capture-pane on.                     *)
(***************************************************************************)
Looping     == {"loop", "answers", "events"}
RealEvent   == {e \in Event : e.kind \in {"output", "switch"} => e.pane \in Panes}
RealCommand == {c \in Command : c.what = "input" => c.n \in 1..MaxFrames}
RealFrame   == {f \in Inbound : f.kind # "close" => f.n \in 1..MaxFrames}

TmuxType ==
    /\ active \in Panes /\ written \in [Panes -> Nat] /\ notices \in 0..MaxNotices
DriverType ==
    /\ driver \in {"none", "up", "leaving", "dead"}
    /\ cmds \in Seq(RealCommand) /\ ran \in Seq(1..MaxFrames)
    /\ events \in Seq(RealEvent)
MainType ==
    /\ mpc \in {"connect", "display", "known", "capture", "captured", "drain", "loop",
                "answers", "events", "abort", "closing", "done"}
    /\ pane \in Panes \cup {None}
    /\ epoch \in Nat
    /\ seed \in [pane : Panes \cup {None}, n : Nat]
    /\ drained \subseteq Event
    /\ sent \in Seq(Frame \cup Closing)
    /\ mpc \in {"known", "capture", "captured", "drain", "loop", "answers", "events"} =>
            pane \in Panes
    /\ mpc \in {"captured", "drain", "loop", "answers", "events"} => seed.pane \in Panes
InType ==
    /\ outq \in 0..QueueCap
    /\ ipc \in {"none", "select", "send", "wait", "answer", "done"}
    /\ hand \in Inbound
    /\ ipc = "send" => hand \in RealFrame /\ hand.kind # "close"
WebType ==
    /\ inq \in Seq(RealFrame) /\ frames \in 0..MaxFrames
    /\ browser \in {"open", "closed"} /\ shutdown \in BOOLEAN /\ late \in BOOLEAN

Asked ==
    /\ \A i \in DOMAIN cmds : cmds[i].caller = "main" => cmds[i].what = mpc
    /\ \A i, j \in DOMAIN cmds : cmds[i].caller = "main" /\ cmds[j].caller = "main" => i = j

TypeInv == TmuxType /\ DriverType /\ MainType /\ InType /\ WebType /\ Asked

LEMMA TypeImplied == TypeInv => TypeOK
<1> SUFFICES ASSUME TypeInv PROVE TypeOK
  OBVIOUS
<1>1. cmds \in Seq(Command) /\ events \in Seq(Event) /\ inq \in Seq(Inbound)
  BY SeqWithin DEF TypeInv, DriverType, WebType, RealCommand, RealEvent, RealFrame
<1>2. QED
  BY <1>1 DEF TypeInv, TypeOK, TmuxType, DriverType, MainType, InType, WebType

LEMMA FrameFacts == NoFrame \in Inbound /\ NoFrame \in RealFrame /\ NoFrame.kind = "close"
BY DEF NoFrame, Inbound, RealFrame

LEMMA TypeInit == Init => TypeInv
<1> SUFFICES ASSUME Init PROVE TypeInv
  OBVIOUS
<1> USE PaneSessionAssumption DEF Init
<1>1. TmuxType
  BY DEF TmuxType
<1>2. DriverType
  BY DEF DriverType
<1>3. MainType
  <2>1. mpc = "connect" /\ pane = None /\ epoch = 0 /\ drained = {} /\ sent = <<>>
    OBVIOUS
  <2>2. seed \in [pane : Panes \cup {None}, n : Nat]
    OBVIOUS
  <2>3. QED
    BY <2>1, <2>2 DEF MainType
<1>4. InType
  BY FrameFacts DEF InType
<1>5. WebType
  <2>1. inq \in Seq(RealFrame) /\ frames \in 0..MaxFrames /\ browser \in {"open", "closed"}
    OBVIOUS
  <2>2. shutdown \in BOOLEAN /\ late \in BOOLEAN
    OBVIOUS
  <2>3. QED
    BY <2>1, <2>2, Zenon DEF WebType
<1>6. Asked
  BY DEF Asked
<1>7. QED
  BY <1>1, <1>2, <1>3, <1>4, <1>5, <1>6 DEF TypeInv

(* A caller that gives up leaves its command on its way. *)
LEMMA Orphaning ==
    ASSUME DriverType, NEW who
    PROVE  /\ Orphaned(who) \in Seq(RealCommand)
           /\ DOMAIN Orphaned(who) = DOMAIN cmds
           /\ \A i \in DOMAIN cmds :
                 /\ Orphaned(who)[i].what = cmds[i].what
                 /\ Orphaned(who)[i].n = cmds[i].n
                 /\ Orphaned(who)[i].caller =
                        IF cmds[i].caller = who THEN None ELSE cmds[i].caller
<1>1. /\ Len(cmds) \in Nat /\ DOMAIN cmds = 1..Len(cmds)
      /\ \A i \in DOMAIN cmds : cmds[i] \in RealCommand
  BY ElementFacts DEF DriverType
<1>2. \A i \in DOMAIN cmds : Orphaned(who)[i] =
          IF cmds[i].caller = who THEN [cmds[i] EXCEPT !.caller = None] ELSE cmds[i]
  BY DEF Orphaned
<1>3. ASSUME NEW c \in RealCommand
      PROVE  /\ [c EXCEPT !.caller = None] \in RealCommand
             /\ [c EXCEPT !.caller = None].what = c.what
             /\ [c EXCEPT !.caller = None].n = c.n
             /\ [c EXCEPT !.caller = None].caller = None
  BY DEF RealCommand, Command
<1>4. DOMAIN Orphaned(who) = 1..Len(cmds)
  BY <1>1 DEF Orphaned
<1>5. \A i \in DOMAIN cmds : Orphaned(who)[i] \in RealCommand
  BY <1>1, <1>2, <1>3
<1>6. Orphaned(who) \in Seq(RealCommand)
  <2>1. Orphaned(who) = [i \in 1..Len(cmds) |-> Orphaned(who)[i]]
    BY <1>1, <1>4 DEF Orphaned
  <2>2. Orphaned(who) \in [1..Len(cmds) -> RealCommand]
    BY <1>1, <1>5, <2>1
  <2>3. QED
    BY <1>1, <2>2
<1>7. ASSUME NEW i \in DOMAIN cmds
      PROVE  /\ Orphaned(who)[i].what = cmds[i].what
             /\ Orphaned(who)[i].n = cmds[i].n
             /\ Orphaned(who)[i].caller =
                    IF cmds[i].caller = who THEN None ELSE cmds[i].caller
  <2> DEFINE c == cmds[i]
             o == Orphaned(who)[i]
  <2>1. c \in RealCommand /\ o = IF c.caller = who THEN [c EXCEPT !.caller = None] ELSE c
    BY <1>1, <1>2
  <2> HIDE DEF c, o
  <2>2. o.what = c.what /\ o.n = c.n /\ o.caller = IF c.caller = who THEN None ELSE c.caller
    BY <1>3, <2>1
  <2>3. QED
    BY <2>2 DEF c, o
<1>8. QED
  BY <1>1, <1>4, <1>6, <1>7

(* What is on its way for the main task: nothing, unless it waits; and the  *)
(* steps of the others leave it there.                                     *)
LEMMA NoneAsked ==
    ASSUME DriverType, MainType, Asked, mpc \notin {"display", "capture"}
    PROVE  \A i \in DOMAIN cmds : cmds[i].caller # "main"
<1>1. \A i \in DOMAIN cmds : cmds[i].what \in {"display", "capture", "input", "scroll"}
  BY ElementFacts DEF DriverType, RealCommand, Command
<1>2. QED
  BY <1>1 DEF MainType, Asked

LEMMA AskedKeeps ==
    ASSUME DriverType, MainType, Asked,
           \/ cmds' = cmds \/ cmds' = <<>> \/ cmds' = Orphaned("inbound")
           \/ cmds # <<>> /\ cmds' = Tail(cmds)
           \/ \E c \in RealCommand : c.caller # "main" /\ cmds' = Append(cmds, c),
           mpc' = mpc \/ mpc \notin {"display", "capture"}
    PROVE  Asked'
<1>1. CASE mpc' = mpc
  <2>1. cmds \in Seq(RealCommand)
    BY DEF DriverType
  <2>2. CASE cmds' = cmds
    BY <1>1, <2>2 DEF Asked
  <2>3. CASE cmds' = <<>>
    BY <2>3 DEF Asked
  <2>4. CASE cmds' = Orphaned("inbound")
    <3>1. DOMAIN cmds' = DOMAIN cmds
          /\ \A i \in DOMAIN cmds : cmds'[i].what = cmds[i].what
                /\ (cmds'[i].caller = "main" => cmds[i].caller = "main")
      BY <2>4, Orphaning, PaneSessionAssumption
    <3>2. QED
      BY <1>1, <3>1 DEF Asked
  <2>5. CASE cmds # <<>> /\ cmds' = Tail(cmds)
    <3>1. /\ \A i \in DOMAIN cmds' : i + 1 \in DOMAIN cmds /\ cmds'[i] = cmds[i + 1] /\ i \in Nat
      BY <2>1, <2>5, TailFacts
    <3>2. \A i \in DOMAIN cmds' : cmds'[i].caller = "main" => cmds'[i].what = mpc'
      BY <1>1, <3>1 DEF Asked
    <3>3. \A i, j \in DOMAIN cmds' :
              cmds'[i].caller = "main" /\ cmds'[j].caller = "main" => i + 1 = j + 1
      BY <3>1 DEF Asked
    <3>4. QED
      BY <3>1, <3>2, <3>3 DEF Asked
  <2>6. ASSUME NEW c \in RealCommand, c.caller # "main", cmds' = Append(cmds, c)
        PROVE  Asked'
    <3>1. \A i \in DOMAIN cmds' : cmds'[i].caller = "main" =>
              i \in DOMAIN cmds /\ cmds'[i] = cmds[i]
      BY <2>1, <2>6, AppendFacts
    <3>2. QED
      BY <1>1, <3>1 DEF Asked
  <2>7. QED
    BY <2>2, <2>3, <2>4, <2>5, <2>6
<1>2. CASE mpc \notin {"display", "capture"}
  <2>1. cmds \in Seq(RealCommand) /\ \A i \in DOMAIN cmds : cmds[i].caller # "main"
    BY <1>2, NoneAsked DEF DriverType
  <2>2. \A i \in DOMAIN cmds' : cmds'[i].caller # "main"
    <3>1. CASE cmds' = cmds \/ cmds' = <<>>
      BY <2>1, <3>1
    <3>2. CASE cmds' = Orphaned("inbound")
      BY <2>1, <3>2, Orphaning, PaneSessionAssumption
    <3>3. CASE cmds # <<>> /\ cmds' = Tail(cmds)
      <4>1. \A i \in DOMAIN cmds' : i + 1 \in DOMAIN cmds /\ cmds'[i] = cmds[i + 1]
        BY <2>1, <3>3, TailFacts
      <4>2. QED
        BY <2>1, <4>1
    <3>4. ASSUME NEW c \in RealCommand, c.caller # "main", cmds' = Append(cmds, c)
          PROVE  \A i \in DOMAIN cmds' : cmds'[i].caller # "main"
      <4>1. \A i \in DOMAIN cmds' : cmds'[i] = c \/ (i \in DOMAIN cmds /\ cmds'[i] = cmds[i])
        BY <2>1, <3>4, AppendFacts
      <4>2. QED
        BY <2>1, <3>4, <4>1
    <3>5. QED
      BY <3>1, <3>2, <3>3, <3>4
  <2>3. QED
    BY <2>2 DEF Asked
<1>3. QED
  BY <1>1, <1>2

(* The main task asks. *)
LEMMA AskedAsks ==
    ASSUME DriverType, MainType, Asked, mpc \notin {"display", "capture"},
           NEW what \in {"display", "capture"}, Sends("main", what, 0), mpc' = what
    PROVE  cmds' \in Seq(RealCommand) /\ Asked'
<1> DEFINE c == [what |-> what, caller |-> "main", n |-> 0]
<1>1. c \in RealCommand /\ c.what = what
  BY DEF RealCommand, Command
<1>2. cmds' = Append(cmds, c)
  BY DEF Sends
<1> HIDE DEF c
<1>3. cmds \in Seq(RealCommand) /\ \A i \in DOMAIN cmds : cmds[i].caller # "main"
  BY NoneAsked DEF DriverType
<1>4. \A i \in DOMAIN cmds' : cmds'[i].caller = "main" => i = Len(cmds) + 1 /\ cmds'[i] = c
  BY <1>1, <1>2, <1>3, AppendFacts
<1>5. QED
  BY <1>1, <1>2, <1>3, <1>4, AppendFacts DEF Asked

(* The main task has its reply, or gives up. *)
LEMMA AskedAnswered ==
    ASSUME DriverType, MainType, Asked,
           \/ cmds' = Orphaned("main")
           \/ cmds # <<>> /\ Awaited("main") /\ cmds' = Tail(cmds)
    PROVE  Asked'
<1>1. cmds \in Seq(RealCommand)
  BY DEF DriverType
<1>2. CASE cmds' = Orphaned("main")
  BY <1>2, Orphaning, PaneSessionAssumption DEF Asked
<1>3. CASE cmds # <<>> /\ Awaited("main") /\ cmds' = Tail(cmds)
  <2>1. /\ 1 \in DOMAIN cmds /\ cmds[1].caller = "main"
        /\ \A i \in DOMAIN cmds' : i + 1 \in DOMAIN cmds /\ i + 1 # 1 /\ cmds'[i] = cmds[i + 1]
    BY <1>1, <1>3, TailFacts DEF Awaited
  <2>2. \A i \in DOMAIN cmds' : cmds'[i].caller # "main"
    BY <2>1 DEF Asked
  <2>3. QED
    BY <2>2 DEF Asked
<1>4. QED
  BY <1>2, <1>3

(* What is built is of its type. *)
LEMMA BuiltTypes ==
    /\ \A p \in Panes \cup {None}, n \in Nat :
          /\ p \in Panes => Ev("output", p, n) \in RealEvent /\ Ev("switch", p, n) \in RealEvent
    /\ Ev("detached", None, 0) \in RealEvent /\ Ev("exit", None, 0) \in RealEvent
    /\ \A c \in {1001, 1011} : Close(c) \in Closing /\ Close(c).kind = "close"
    /\ \A k : AfterReply(k) \in {"answer", "select"}
BY DEF Ev, RealEvent, Event, Close, Closing, AfterReply

LEMMA FrameBuilt ==
    ASSUME NEW k \in {"seed", "live"}, NEW p \in Panes, NEW n \in Nat, NEW e \in Nat
    PROVE  [kind |-> k, pane |-> p, n |-> n, epoch |-> e] \in Frame
BY DEF Frame

LEMMA SetupType == TypeInv /\ Setup => TypeInv'
<1> SUFFICES ASSUME TypeInv, Setup PROVE TypeInv'
  OBVIOUS
<1> USE DEF TypeInv
<1>1. CASE Connects
  <2>1. CASE Sends("main", "display", 0) /\ mpc' = "display" /\ driver' = "up"
    <3>1. cmds' \in Seq(RealCommand) /\ Asked'
      BY <1>1, <2>1, AskedAsks DEF Connects
    <3>2. QED
      BY <1>1, <2>1, <3>1 DEF Connects, tmuxVars, inVars, webVars, TmuxType, DriverType,
         MainType, InType, WebType
  <2>2. CASE ToClosing /\ UNCHANGED <<driver, cmds>>
    <3>1. Asked'
      BY <1>1, <2>2, AskedKeeps DEF Connects
    <3>2. QED
      BY <1>1, <2>2, <3>1 DEF Connects, ToClosing, tmuxVars, inVars, webVars, TmuxType,
         DriverType, MainType, InType, WebType
  <2>3. QED
    BY <1>1, <2>1, <2>2 DEF Connects
<1>2. CASE AsksSeed
  <2>1. CASE Sends("main", "capture", 0) /\ mpc' = "capture"
    <3>1. cmds' \in Seq(RealCommand) /\ Asked'
      BY <1>2, <2>1, AskedAsks DEF AsksSeed
    <3>2. QED
      BY <1>2, <2>1, <3>1 DEF AsksSeed, tmuxVars, inVars, webVars, TmuxType, DriverType,
         MainType, InType, WebType
  <2>2. CASE ToClosing /\ UNCHANGED cmds
    <3>1. Asked'
      BY <1>2, <2>2, AskedKeeps DEF AsksSeed
    <3>2. QED
      BY <1>2, <2>2, <3>1 DEF AsksSeed, ToClosing, tmuxVars, inVars, webVars, TmuxType,
         DriverType, MainType, InType, WebType
  <2>3. QED
    BY <1>2, <2>1, <2>2 DEF AsksSeed
<1>3. CASE MainTimesOut
  <2>1. cmds' \in Seq(RealCommand) /\ Asked'
    BY <1>3, Orphaning, AskedAnswered DEF MainTimesOut
  <2>2. QED
    BY <1>3, <2>1 DEF MainTimesOut, ToClosing, tmuxVars, inVars, webVars, TmuxType,
       DriverType, MainType, InType, WebType
<1>4. CASE ClosesWithError
  <2>1. sent' \in Seq(Frame \cup Closing)
    BY <1>4, BuiltTypes, AppendFacts DEF ClosesWithError, ToBrowser, MainType
  <2>2. Asked'
    BY <1>4, AskedKeeps DEF ClosesWithError, driverVars
  <2>3. QED
    BY <1>4, <2>1, <2>2 DEF ClosesWithError, tmuxVars, driverVars, inVars, webVars,
       TmuxType, DriverType, MainType, InType, WebType
<1>5. CASE SendsSeed
  <2>1. sent' \in Seq(Frame \cup Closing)
    <3> DEFINE f == [kind |-> "seed", pane |-> seed.pane, n |-> seed.n, epoch |-> 0]
    <3>1. seed.pane \in Panes /\ seed.n \in Nat /\ sent \in Seq(Frame \cup Closing)
      BY <1>5 DEF SendsSeed, MainType
    <3>2. f \in Frame
      BY <3>1, FrameBuilt
    <3>3. sent' = sent \/ sent' = Append(sent, f)
      BY <1>5 DEF SendsSeed, ToBrowser
    <3> HIDE DEF f
    <3>4. QED
      BY <3>1, <3>2, <3>3, AppendFacts
  <2>2. Asked'
    BY <1>5, AskedKeeps DEF SendsSeed, driverVars
  <2>3. QED
    BY <1>5, <2>1, <2>2 DEF SendsSeed, tmuxVars, driverVars, inVars, webVars,
       TmuxType, DriverType, MainType, InType, WebType
<1>6. CASE Drains
  <2>1. events' \in Seq(RealEvent) /\ Head(events) \in RealEvent
    BY <1>6, TailFacts DEF Drains, DriverType
  <2>2. drained' \subseteq Event
    BY <1>6, <2>1 DEF Drains, MainType, RealEvent
  <2>3. Asked'
    BY <1>6, AskedKeeps DEF Drains
  <2>4. QED
    BY <1>6, <2>1, <2>2, <2>3 DEF Drains, tmuxVars, inVars, webVars,
       TmuxType, DriverType, MainType, InType, WebType
<1>7. CASE Starts
  <2>1. Asked'
    BY <1>7, AskedKeeps DEF Starts, driverVars
  <2>2. QED
    BY <1>7, <2>1 DEF Starts, tmuxVars, driverVars, webVars,
       TmuxType, DriverType, MainType, InType, WebType
<1>8. QED
  BY <1>1, <1>2, <1>3, <1>4, <1>5, <1>6, <1>7 DEF Setup

LEMMA LoopType == TypeInv /\ Loop => TypeInv'
<1> SUFFICES ASSUME TypeInv, Loop PROVE TypeInv'
  OBVIOUS
<1> USE DEF TypeInv
<1>1. CASE LoopShutdown
  <2>1. sent' \in Seq(Frame \cup Closing)
    BY <1>1, BuiltTypes, AppendFacts DEF LoopShutdown, ToBrowser, MainType
  <2>2. Asked'
    BY <1>1, AskedKeeps DEF LoopShutdown, driverVars
  <2>3. QED
    BY <1>1, <2>1, <2>2 DEF LoopShutdown, Leaves, tmuxVars, driverVars, inVars, webVars,
       TmuxType, DriverType, MainType, InType, WebType
<1>2. CASE LoopAnswers
  <2>1. Asked'
    BY <1>2, AskedKeeps DEF LoopAnswers, driverVars
  <2>2. /\ mpc = "answers" /\ mpc' = "loop"
        /\ UNCHANGED <<tmuxVars, driverVars, pane, epoch, seed, drained, sent, inVars, webVars>>
    BY <1>2 DEF LoopAnswers
  <2>3. outq' \in 0..QueueCap
    BY <1>2, PaneSessionAssumption DEF LoopAnswers, InType
  <2>4. InType' /\ MainType'
    BY <2>2, <2>3 DEF InType, MainType, inVars
  <2>5. QED
    BY <2>1, <2>2, <2>4 DEF tmuxVars, driverVars, webVars, TmuxType, DriverType, WebType
<1>3. CASE \/ LoopRuns \/ LoopNoAnswer \/ LoopNoEvent
           \/ LoopInboundGone \/ LoopEventsEnd \/ LoopSendFails
  <2>1. /\ mpc \in Looping /\ mpc' \in Looping \cup {"abort"}
        /\ UNCHANGED <<tmuxVars, driverVars, pane, epoch, seed, drained, sent, outq, inVars,
                       webVars>>
    BY <1>3 DEF LoopRuns, LoopNoAnswer, LoopNoEvent, LoopInboundGone, LoopEventsEnd,
       LoopSendFails, Polls, Leaves, Looping
  <2>2. Asked'
    BY <2>1, AskedKeeps DEF driverVars, Looping
  <2>3. QED
    BY <2>1, <2>2 DEF tmuxVars, driverVars, inVars, webVars,
       TmuxType, DriverType, MainType, InType, WebType, Looping
<1>4. ASSUME NEW kinds, Receives(kinds)
      PROVE  /\ events' \in Seq(RealEvent) /\ Head(events) \in RealEvent
             /\ mpc = "events" /\ Asked'
             /\ TmuxType' /\ DriverType' /\ InType' /\ WebType'
  <2>1. events' \in Seq(RealEvent) /\ Head(events) \in RealEvent
    BY <1>4, TailFacts DEF Receives, DriverType
  <2>2. Asked'
    BY <1>4, AskedKeeps DEF Receives
  <2>3. QED
    BY <1>4, <2>1, <2>2 DEF Receives, tmuxVars, inVars, webVars,
       TmuxType, DriverType, InType, WebType
<1>5. CASE LoopOutput
  <2>1. Receives({"output"})
    BY <1>5 DEF LoopOutput
  <2>2. sent' \in Seq(Frame \cup Closing)
    <3> DEFINE f == [kind |-> "live", pane |-> pane, n |-> Head(events).n, epoch |-> epoch]
    <3>1. /\ pane \in Panes /\ Head(events).n \in Nat /\ epoch \in Nat
          /\ sent \in Seq(Frame \cup Closing)
      BY <1>4, <2>1 DEF MainType, RealEvent, Event
    <3>2. f \in Frame
      BY <3>1, FrameBuilt
    <3>3. sent' = sent \/ sent' = Append(sent, f)
      BY <1>5 DEF LoopOutput, ToBrowser
    <3> HIDE DEF f
    <3>4. QED
      BY <3>1, <3>2, <3>3, AppendFacts
  <2>3. mpc = "events" /\ mpc' = "loop" /\ UNCHANGED <<pane, epoch, seed, drained>>
    BY <1>5 DEF LoopOutput, Receives
  <2>4. MainType'
    BY <2>2, <2>3 DEF MainType
  <2>5. QED
    BY <1>4, <2>1, <2>4
<1>6. CASE LoopSwitch
  <2>1. Receives({"switch"}) /\ Head(events).kind = "switch"
    BY <1>6 DEF LoopSwitch, Receives
  <2>2. pane' \in Panes /\ epoch' \in Nat
    <3>1. Head(events).pane \in Panes
      BY <1>4, <2>1 DEF RealEvent
    <3>2. pane' = Head(events).pane /\ epoch' = epoch + 1
      BY <1>6 DEF LoopSwitch
    <3>3. QED
      BY <3>1, <3>2 DEF MainType
  <2>3. mpc = "events" /\ mpc' = "loop" /\ UNCHANGED <<seed, drained, sent>>
    BY <1>6 DEF LoopSwitch, Receives
  <2>4. QED
    BY <1>4, <2>1, <2>2, <2>3 DEF MainType
<1>7. CASE LoopTold
  <2>1. Receives({"detached", "exit"})
    BY <1>7 DEF LoopTold
  <2>2. sent' \in Seq(Frame \cup Closing)
    BY <1>7, BuiltTypes, AppendFacts DEF LoopTold, ToBrowser, MainType
  <2>3. mpc' = "abort" /\ UNCHANGED <<pane, epoch, seed, drained>>
    BY <1>7 DEF LoopTold, Leaves, Receives
  <2>4. QED
    BY <1>4, <2>1, <2>2, <2>3 DEF MainType
<1>8. CASE Aborts
  <2>1. cmds' \in Seq(RealCommand) /\ Asked'
    BY <1>8, Orphaning, AskedKeeps DEF Aborts
  <2>2. QED
    BY <1>8, <2>1, FrameFacts, PaneSessionAssumption DEF Aborts, tmuxVars, webVars,
       TmuxType, DriverType, MainType, InType, WebType
<1>9. QED
  BY <1>1, <1>2, <1>3, <1>5, <1>6, <1>7, <1>8 DEF Loop

LEMMA CommandBuilt ==
    ASSUME NEW f \in RealFrame, f.kind # "close"
    PROVE  /\ f \in Inbound /\ f.kind \in {"input", "scroll"} /\ f.n \in 1..MaxFrames
           /\ [what |-> f.kind, caller |-> "inbound", n |-> f.n] \in RealCommand
           /\ [what |-> f.kind, caller |-> "inbound", n |-> f.n].caller # "main"
<1>1. f \in Inbound /\ f.kind \in {"input", "scroll"} /\ f.n \in 1..MaxFrames
  BY DEF RealFrame, Inbound
<1>2. ASSUME NEW k \in {"input", "scroll"}, NEW n \in 1..MaxFrames
      PROVE  /\ [what |-> k, caller |-> "inbound", n |-> n] \in RealCommand
             /\ [what |-> k, caller |-> "inbound", n |-> n].caller # "main"
  BY <1>2, PaneSessionAssumption DEF RealCommand, Command
<1>3. QED
  BY <1>1, <1>2

LEMMA InboundType == TypeInv /\ InboundTask => TypeInv'
<1> SUFFICES ASSUME TypeInv, InboundTask PROVE TypeInv'
  OBVIOUS
<1> USE DEF TypeInv
<1>1. CASE InboundStops
  <2>1. Asked'
    BY <1>1, AskedKeeps DEF InboundStops, driverVars, mainVars
  <2>2. QED
    BY <1>1, <2>1 DEF InboundStops, tmuxVars, driverVars, mainVars, webVars,
       TmuxType, DriverType, MainType, InType, WebType
<1>2. CASE InboundTakes
  <2>1. /\ Head(inq) \in RealFrame /\ Head(inq).kind # "close"
        /\ inq' \in Seq(RealFrame)
    BY <1>2, TailFacts DEF InboundTakes, WebType
  <2>2. UNCHANGED <<tmuxVars, driverVars, mainVars, outq, frames, browser, shutdown, late>>
    BY <1>2 DEF InboundTakes
  <2>3. Asked'
    BY <2>2, AskedKeeps DEF driverVars, mainVars
  <2>4. InType'
    BY <1>2, <2>1, <2>2 DEF InboundTakes, InType, RealFrame
  <2>5. QED
    BY <2>1, <2>2, <2>3, <2>4 DEF tmuxVars, driverVars, mainVars,
       TmuxType, DriverType, MainType, WebType
<1>6. CASE InboundSends
  <2> DEFINE c == [what |-> hand.kind, caller |-> "inbound", n |-> hand.n]
  <2>1. hand \in RealFrame /\ hand.kind # "close"
    BY <1>6 DEF InboundSends, InType
  <2>2. c \in RealCommand /\ c.caller # "main"
    BY <2>1, CommandBuilt
  <2>3. cmds' = Append(cmds, c)
    BY <1>6 DEF InboundSends, Sends
  <2> HIDE DEF c
  <2>4. cmds' \in Seq(RealCommand)
    BY <2>2, <2>3, AppendFacts DEF DriverType
  <2>5. Asked'
    BY <1>6, <2>2, <2>3, AskedKeeps DEF InboundSends, mainVars
  <2>6. InType'
    BY <1>6 DEF InboundSends, InType
  <2>7. QED
    BY <1>6, <2>4, <2>5, <2>6 DEF InboundSends, tmuxVars, mainVars, webVars,
       TmuxType, DriverType, MainType, WebType
<1>7. CASE InboundRefused
  <2>1. Asked'
    BY <1>7, AskedKeeps DEF InboundRefused, driverVars, mainVars
  <2>2. InType'
    BY <1>7, BuiltTypes, FrameFacts DEF InboundRefused, InType
  <2>3. QED
    BY <1>7, <2>1, <2>2 DEF InboundRefused, tmuxVars, driverVars, mainVars, webVars,
       TmuxType, DriverType, MainType, WebType
<1>3. CASE InboundTimesOut
  <2>1. cmds' \in Seq(RealCommand) /\ Asked'
    BY <1>3, Orphaning, AskedKeeps DEF InboundTimesOut, mainVars
  <2>2. InType'
    BY <1>3, BuiltTypes, FrameFacts DEF InboundTimesOut, InType
  <2>3. QED
    BY <1>3, <2>1, <2>2 DEF InboundTimesOut, tmuxVars, mainVars, webVars,
       TmuxType, DriverType, MainType, WebType
<1>4. CASE InboundAnswers
  <2>1. Asked'
    BY <1>4, AskedKeeps DEF InboundAnswers, driverVars, mainVars
  <2>2. InType'
    BY <1>4, PaneSessionAssumption DEF InboundAnswers, InType
  <2>3. QED
    BY <1>4, <2>1, <2>2 DEF InboundAnswers, tmuxVars, driverVars, mainVars, webVars,
       TmuxType, DriverType, MainType, WebType
<1>5. QED
  BY <1>1, <1>2, <1>3, <1>4, <1>6, <1>7 DEF InboundTask

(* What every command that tmux runs changes, and what DriverFails does.    *)
LEMMA RunsFacts ==
    ASSUME TypeInv, NEW what, Runs(what)
    PROVE  /\ cmds # <<>> /\ 1 \in DOMAIN cmds /\ Head(cmds) = cmds[1]
           /\ cmds[1] \in RealCommand /\ cmds[1].what = what
           /\ cmds' = Tail(cmds) /\ cmds' \in Seq(RealCommand)
           /\ UNCHANGED <<tmuxVars, driver, events, epoch, drained, sent, outq, webVars>>
<1>1. cmds # <<>> /\ cmds \in Seq(RealCommand)
  BY DEF Runs, TypeInv, DriverType
<1>2. /\ Head(cmds) = cmds[1] /\ Head(cmds) \in RealCommand /\ Tail(cmds) \in Seq(RealCommand)
      /\ 1 \in DOMAIN cmds
  BY <1>1, TailFacts
<1>3. QED
  BY <1>1, <1>2 DEF Runs

LEMMA RepliesType ==
    ASSUME InType, Replies, UNCHANGED outq
    PROVE  InType'
BY BuiltTypes, FrameFacts DEF Replies, InType, inVars

LEMMA FailsType ==
    ASSUME TypeInv, NEW place \in {"leaving", "dead"}, DriverFails(place)
    PROVE  TypeInv'
<1> USE DEF TypeInv
<1>1. events' \in Seq(RealEvent) /\ cmds' \in Seq(RealCommand)
  <2>1. events' = Append(events, Ev("exit", None, 0)) /\ cmds' = <<>>
    BY DEF DriverFails
  <2>2. QED
    BY <2>1, BuiltTypes, AppendFacts DEF DriverType
<1>2. Asked'
  BY DEF DriverFails, Asked
<1>3. InType'
  BY BuiltTypes, FrameFacts DEF DriverFails, InType, inVars
<1>4. MainType'
  <2>1. mpc' = mpc \/ mpc' = "closing"
    BY DEF DriverFails
  <2>2. QED
    BY <2>1 DEF DriverFails, MainType, Looping
<1>5. QED
  BY <1>1, <1>2, <1>3, <1>4 DEF DriverFails, tmuxVars, webVars, TmuxType, DriverType, WebType

LEMMA TmuxStepType == TypeInv /\ Tmux => TypeInv'
<1> SUFFICES ASSUME TypeInv, Tmux PROVE TypeInv'
  OBVIOUS
<1> USE DEF TypeInv
<1>1. CASE TmuxDisplays
  <2>1. Runs("display")
    BY <1>1 DEF TmuxDisplays
  <2>2. Asked'
    <3>1. CASE Awaited("main")
      BY <2>1, <3>1, RunsFacts, AskedAnswered
    <3>2. CASE ~Awaited("main")
      BY <1>1, <2>1, <3>2, RunsFacts, AskedKeeps DEF TmuxDisplays
    <3>3. QED
      BY <3>1, <3>2
  <2>3. MainType'
    <3>1. \/ pane' \in Panes /\ mpc' = "known"
          \/ mpc' = "closing" /\ UNCHANGED pane
          \/ UNCHANGED <<pane, mpc>>
      BY <1>1 DEF TmuxDisplays, ToClosing, TmuxType
    <3>2. UNCHANGED <<epoch, drained, sent, seed>>
      BY <1>1, <2>1, RunsFacts DEF TmuxDisplays
    <3>3. QED
      BY <3>1, <3>2 DEF MainType
  <2>4. UNCHANGED <<tmuxVars, driver, ran, events, outq, webVars, inVars>>
    BY <1>1, <2>1, RunsFacts DEF TmuxDisplays
  <2>5. QED
    BY <2>1, <2>2, <2>3, <2>4, RunsFacts DEF tmuxVars, inVars, webVars,
       TmuxType, DriverType, InType, WebType
<1>2. CASE TmuxCaptures
  <2>1. Runs("capture")
    BY <1>2 DEF TmuxCaptures
  <2>2. Asked'
    <3>1. CASE Awaited("main")
      BY <2>1, <3>1, RunsFacts, AskedAnswered
    <3>2. CASE ~Awaited("main")
      BY <1>2, <2>1, <3>2, RunsFacts, AskedKeeps DEF TmuxCaptures
    <3>3. QED
      BY <3>1, <3>2
  <2>3. Awaited("main") => mpc = "capture" /\ pane \in Panes
    BY <2>1, RunsFacts DEF Awaited, Asked, MainType
  <2>4. UNCHANGED <<epoch, drained, sent, pane>>
    BY <1>2, <2>1, RunsFacts DEF TmuxCaptures
  <2>5. MainType'
    <3>1. CASE Awaited("main") /\ seed' = [pane |-> pane, n |-> written[pane]]
               /\ mpc' = "captured"
      <4>1. written[pane] \in Nat
        BY <2>3, <3>1 DEF TmuxType
      <4>2. seed' \in [pane : Panes \cup {None}, n : Nat] /\ seed'.pane \in Panes
        BY <2>3, <3>1, <4>1
      <4>3. QED
        BY <2>3, <2>4, <3>1, <4>2 DEF MainType
    <3>2. CASE mpc' = "closing" /\ UNCHANGED seed
      BY <2>4, <3>2 DEF MainType
    <3>3. CASE UNCHANGED <<seed, mpc>>
      BY <2>4, <3>3 DEF MainType
    <3>4. QED
      BY <1>2, <3>1, <3>2, <3>3 DEF TmuxCaptures, ToClosing
  <2>6. UNCHANGED <<tmuxVars, driver, ran, events, outq, webVars, inVars>>
    BY <1>2, <2>1, RunsFacts DEF TmuxCaptures
  <2>7. QED
    BY <2>1, <2>2, <2>5, <2>6, RunsFacts DEF tmuxVars, inVars, webVars,
       TmuxType, DriverType, InType, WebType
<1>3. CASE TmuxTakesInput
  <2>1. Runs("input")
    BY <1>3 DEF TmuxTakesInput
  <2>2. ran' \in Seq(1..MaxFrames)
    <3>1. Head(cmds).n \in 1..MaxFrames
      BY <2>1, RunsFacts DEF RealCommand
    <3> DEFINE n == Head(cmds).n
               S == 1..MaxFrames
    <3>2. ran' = ran \/ ran' = Append(ran, n)
      BY <1>3 DEF TmuxTakesInput
    <3>3. n \in S /\ ran \in Seq(S)
      BY <3>1 DEF DriverType
    <3> HIDE DEF n, S
    <3>4. ran' \in Seq(S)
      BY <3>2, <3>3, AppendFacts
    <3>5. QED
      BY <3>4 DEF S
  <2>3. UNCHANGED <<mpc, pane, seed, tmuxVars, driver, events, epoch, drained, sent, outq,
                    webVars>>
    BY <1>3, <2>1, RunsFacts DEF TmuxTakesInput
  <2>4. Asked'
    BY <2>1, <2>3, RunsFacts, AskedKeeps
  <2>5. InType'
    BY <1>3, <2>3, RepliesType DEF TmuxTakesInput
  <2>6. QED
    BY <2>1, <2>2, <2>3, <2>4, <2>5, RunsFacts DEF tmuxVars, webVars,
       TmuxType, DriverType, MainType, WebType
<1>4. CASE TmuxScrolls
  <2>1. Runs("scroll")
    BY <1>4 DEF TmuxScrolls
  <2>2. UNCHANGED <<ran, mpc, pane, seed, tmuxVars, driver, events, epoch, drained, sent,
                    outq, webVars>>
    BY <1>4, <2>1, RunsFacts DEF TmuxScrolls
  <2>3. Asked'
    BY <2>1, <2>2, RunsFacts, AskedKeeps
  <2>4. InType'
    BY <1>4, <2>2, RepliesType DEF TmuxScrolls
  <2>5. QED
    BY <2>1, <2>2, <2>3, <2>4, RunsFacts DEF tmuxVars, webVars,
       TmuxType, DriverType, MainType, WebType
<1>5. ASSUME NEW p \in Panes, TmuxWrites(p) PROVE TypeInv'
  <2>1. written[p] + 1 \in Nat /\ written' \in [Panes -> Nat]
    BY <1>5 DEF TmuxWrites, TmuxType
  <2>2. events' \in Seq(RealEvent)
    <3> DEFINE e == Ev("output", p, written[p] + 1)
    <3>1. e \in RealEvent
      BY <2>1, BuiltTypes
    <3>2. events' = Append(events, e) /\ events \in Seq(RealEvent)
      BY <1>5 DEF TmuxWrites, DriverType
    <3> HIDE DEF e
    <3>3. QED
      BY <3>1, <3>2, AppendFacts
  <2>3. Asked'
    BY <1>5, AskedKeeps DEF TmuxWrites, mainVars
  <2>4. QED
    <3>1. UNCHANGED <<active, notices, driver, cmds, ran, mainVars, outq, inVars, webVars>>
      BY <1>5 DEF TmuxWrites
    <3>2. TmuxType' /\ DriverType'
      BY <2>1, <2>2, <3>1 DEF TmuxType, DriverType
    <3>3. MainType'
      BY <3>1 DEF mainVars, MainType
    <3>4. InType' /\ WebType'
      BY <3>1 DEF inVars, webVars, InType, WebType
    <3>5. QED
      BY <2>3, <3>2, <3>3, <3>4
<1>6. ASSUME NEW p \in Panes, TmuxSwitches(p) PROVE TypeInv'
  <2>1. events' \in Seq(RealEvent)
    <3> DEFINE e == Ev("switch", p, 0)
    <3>1. e \in RealEvent
      BY BuiltTypes
    <3>2. events' = Append(events, e) /\ events \in Seq(RealEvent)
      BY <1>6 DEF TmuxSwitches, DriverType
    <3> HIDE DEF e
    <3>3. QED
      BY <3>1, <3>2, AppendFacts
  <2>2. Asked'
    BY <1>6, AskedKeeps DEF TmuxSwitches, mainVars
  <2>3. QED
    BY <1>6, <2>1, <2>2, PaneSessionAssumption DEF TmuxSwitches, mainVars, inVars, webVars,
       TmuxType, DriverType, MainType, InType, WebType
<1>7. CASE TmuxDetaches
  <2>1. events' \in Seq(RealEvent)
    BY <1>7, BuiltTypes, AppendFacts DEF TmuxDetaches, DriverType
  <2>2. Asked'
    BY <1>7, AskedKeeps DEF TmuxDetaches, mainVars
  <2>3. QED
    BY <1>7, <2>1, <2>2, PaneSessionAssumption DEF TmuxDetaches, mainVars, inVars, webVars,
       TmuxType, DriverType, MainType, InType, WebType
<1>8. CASE TmuxExits \/ DriverEnds
  BY <1>8, FailsType DEF TmuxExits, DriverEnds
<1>9. QED
  BY <1>1, <1>2, <1>3, <1>4, <1>5, <1>6, <1>7, <1>8 DEF Tmux

LEMMA OutsideType ==
    TypeInv /\ (BrowserSends \/ BrowserCloses \/ ShutsDown \/ UNCHANGED vars) => TypeInv'
<1> SUFFICES ASSUME TypeInv, BrowserSends \/ BrowserCloses \/ ShutsDown \/ UNCHANGED vars
             PROVE  TypeInv'
  OBVIOUS
<1> USE DEF TypeInv
<1>1. UNCHANGED <<tmuxVars, driverVars, mainVars, outq, inVars>>
  BY DEF BrowserSends, BrowserCloses, ShutsDown, vars
<1>2. Asked'
  BY <1>1, AskedKeeps DEF driverVars, mainVars
<1>3. WebType'
  <2>1. CASE BrowserSends
    <3>1. frames' = frames + 1 /\ frames' \in 1..MaxFrames /\ UNCHANGED <<browser, shutdown, late>>
      BY <2>1, PaneSessionAssumption DEF BrowserSends, WebType
    <3>2. PICK k \in {"input", "scroll"} : inq' = Append(inq, [kind |-> k, n |-> frames'])
      BY <2>1, <3>1 DEF BrowserSends
    <3> DEFINE f == [kind |-> k, n |-> frames']
    <3>3. f \in RealFrame
      BY <3>1, PaneSessionAssumption DEF RealFrame, Inbound
    <3> HIDE DEF f
    <3>4. inq' \in Seq(RealFrame)
      BY <3>2, <3>3, AppendFacts DEF WebType, f
    <3>5. QED
      BY <3>1, <3>4, PaneSessionAssumption DEF WebType
  <2>2. CASE BrowserCloses
    <3>1. inq' \in Seq(RealFrame)
      BY <2>2, FrameFacts, AppendFacts DEF BrowserCloses, WebType
    <3>2. QED
      BY <2>2, <3>1 DEF BrowserCloses, WebType
  <2>3. CASE ShutsDown
    <3>1. inq' = inq /\ frames' = frames /\ browser' = browser
      BY <2>3 DEF ShutsDown
    <3>2. shutdown' \in BOOLEAN /\ late' \in BOOLEAN
      BY <2>3 DEF ShutsDown
    <3>3. QED
      BY <3>1, <3>2 DEF WebType
  <2>4. CASE UNCHANGED vars
    BY <2>4 DEF vars, webVars, WebType
  <2>5. QED
    BY <2>1, <2>2, <2>3, <2>4
<1>4. QED
  BY <1>1, <1>2, <1>3 DEF tmuxVars, driverVars, mainVars, inVars,
     TmuxType, DriverType, MainType, InType

LEMMA TypeStep == TypeInv /\ [Next]_vars => TypeInv'
BY SetupType, LoopType, InboundType, TmuxStepType, OutsideType DEF Next

LEMMA TypeAlways == Spec => []TypeInv
<1>1. Init => TypeInv
  BY TypeInit
<1>2. TypeInv /\ [Next]_vars => TypeInv'
  BY TypeStep
<1>3. QED
  BY <1>1, <1>2, PTL DEF Spec

(* The queue of answers keeps to its capacity, and the main task knows the  *)
(* pane and the seed wherever it uses them.                                *)
THEOREM TypeCorrect == Spec => []TypeOK
<1>1. TypeInv => TypeOK
  BY TypeImplied
<1>2. QED
  BY <1>1, TypeAlways, PTL

--------------------------------------------------------------------------------
(***************************************************************************)
(* The order of the browser's frames.  Their numbers rise along their way:  *)
(* what tmux has acted upon comes before what is on its way to it, that     *)
(* before the frame the inbound task holds while it waits for room, and     *)
(* that before what it has still to read, each part in order.               *)
(***************************************************************************)
WebCmds   == {i \in DOMAIN cmds : cmds[i].what \in {"input", "scroll"}}
WebFrames == {i \in DOMAIN inq : inq[i].kind # "close"}

Numbered ==
    /\ \A i \in DOMAIN ran : ran[i] <= frames
    /\ \A i \in WebCmds : cmds[i].n <= frames
    /\ \A i \in WebFrames : inq[i].n <= frames
    /\ \A i, j \in DOMAIN ran : i < j => ran[i] < ran[j]
    /\ \A i, j \in WebCmds : i < j => cmds[i].n < cmds[j].n
    /\ \A i, j \in WebFrames : i < j => inq[i].n < inq[j].n
    /\ \A i \in DOMAIN ran, j \in WebCmds : ran[i] < cmds[j].n
    /\ \A i \in DOMAIN ran, j \in WebFrames : ran[i] < inq[j].n
    /\ \A i \in WebCmds, j \in WebFrames : cmds[i].n < inq[j].n

HandNumbered ==
    ipc = "send" =>
        /\ hand.n <= frames
        /\ \A i \in DOMAIN ran : ran[i] < hand.n
        /\ \A i \in WebCmds : cmds[i].n < hand.n
        /\ \A i \in WebFrames : hand.n < inq[i].n

(* No frame is taken in hand. *)
HandKept == ipc' = "send" => ipc = "send" /\ hand' = hand

LEMMA NumbersType ==
    ASSUME TypeInv
    PROVE  /\ \A i \in DOMAIN ran : ran[i] \in Nat
           /\ \A i \in WebCmds : cmds[i].n \in Nat /\ i \in Nat
           /\ \A i \in WebFrames : inq[i].n \in Nat /\ i \in Nat
           /\ frames \in Nat /\ DOMAIN ran \subseteq Nat
<1>1. /\ \A i \in DOMAIN cmds : cmds[i] \in RealCommand /\ i \in Nat
      /\ \A i \in DOMAIN inq : inq[i] \in RealFrame /\ i \in Nat
      /\ \A i \in DOMAIN ran : ran[i] \in 1..MaxFrames /\ i \in Nat
  <2>1. \A S : \A s \in Seq(S) : \A i \in DOMAIN s : s[i] \in S /\ i \in Nat
    BY ElementFacts
  <2>2. cmds \in Seq(RealCommand) /\ inq \in Seq(RealFrame) /\ ran \in Seq(1..MaxFrames)
    BY DEF TypeInv, DriverType, WebType
  <2>3. \A i \in DOMAIN cmds : cmds[i] \in RealCommand /\ i \in Nat
    BY <2>1, <2>2
  <2>4. \A i \in DOMAIN inq : inq[i] \in RealFrame /\ i \in Nat
    BY <2>1, <2>2
  <2>5. \A i \in DOMAIN ran : ran[i] \in 1..MaxFrames /\ i \in Nat
    BY <2>1, <2>2
  <2>6. QED
    BY <2>3, <2>4, <2>5
<1>2. /\ \A c \in RealCommand : c.n \in Nat
      /\ \A f \in RealFrame : f.n \in Nat
  BY DEF RealCommand, RealFrame, Command, Inbound
<1>3. QED
  BY <1>1, <1>2, PaneSessionAssumption DEF WebCmds, WebFrames, TypeInv, WebType

(* What is on its way may move up by one place, or leave. *)
LEMMA NumberedMoves ==
    ASSUME TypeInv, Numbered, NEW a \in {0, 1}, NEW b \in {0, 1}, UNCHANGED <<ran, frames>>,
           \A i \in WebCmds' : i \in Nat /\ i + a \in WebCmds /\ cmds'[i].n = cmds[i + a].n,
           \A i \in WebFrames' : i \in Nat /\ i + b \in WebFrames /\ inq'[i].n = inq[i + b].n
    PROVE  Numbered'
<1>1. \A i, j \in WebCmds' : i < j => cmds'[i].n < cmds'[j].n
  <2>1. \A i, j \in WebCmds' : i < j => i + a < j + a
    OBVIOUS
  <2>2. QED
    BY <2>1 DEF Numbered
<1>2. \A i, j \in WebFrames' : i < j => inq'[i].n < inq'[j].n
  <2>1. \A i, j \in WebFrames' : i < j => i + b < j + b
    OBVIOUS
  <2>2. QED
    BY <2>1 DEF Numbered
<1>3. /\ \A i \in DOMAIN ran' : ran'[i] <= frames'
      /\ \A i, j \in DOMAIN ran' : i < j => ran'[i] < ran'[j]
      /\ \A i \in WebCmds' : cmds'[i].n <= frames'
      /\ \A i \in WebFrames' : inq'[i].n <= frames'
  BY DEF Numbered
<1>4. /\ \A i \in DOMAIN ran', j \in WebCmds' : ran'[i] < cmds'[j].n
      /\ \A i \in DOMAIN ran', j \in WebFrames' : ran'[i] < inq'[j].n
      /\ \A i \in WebCmds', j \in WebFrames' : cmds'[i].n < inq'[j].n
  BY DEF Numbered
<1>5. QED
  BY <1>1, <1>2, <1>3, <1>4 DEF Numbered

(* What a step does to the way of the frames. *)
LEMMA WaySteps ==
    ASSUME TypeInv, [Next]_vars
    PROVE  \/ /\ UNCHANGED <<ran, inq, frames>> /\ HandKept
              /\ \/ cmds' = cmds \/ cmds' = <<>>
                 \/ \E who : cmds' = Orphaned(who)
                 \/ \E c \in RealCommand : c.what \in {"display", "capture"}
                                           /\ cmds' = Append(cmds, c)
           \/ \E what : Runs(what) /\ ran' = ran /\ HandKept
           \/ TmuxTakesInput /\ HandKept
           \/ InboundTakes \/ InboundSends
           \/ (BrowserSends \/ BrowserCloses) /\ HandKept
<1> USE DEF tmuxVars, driverVars, mainVars, inVars, webVars, HandKept
<1>11. \A k : AfterReply(k) # "send"
  BY BuiltTypes
<1>1. CASE Setup
  <2>1. ASSUME NEW what \in {"display", "capture"}, Sends("main", what, 0)
        PROVE  \E c \in RealCommand : c.what \in {"display", "capture"}
                                      /\ cmds' = Append(cmds, c)
    <3> DEFINE c == [what |-> what, caller |-> "main", n |-> 0]
    <3>1. c \in RealCommand /\ c.what = what
      BY DEF RealCommand, Command
    <3>2. cmds' = Append(cmds, c)
      BY <2>1 DEF Sends
    <3> HIDE DEF c
    <3>3. QED
      BY <2>1, <3>1, <3>2
  <2>2. CASE Connects \/ AsksSeed
    BY <2>1, <2>2 DEF Connects, AsksSeed
  <2>3. CASE MainTimesOut
    BY <2>3 DEF MainTimesOut
  <2>4. CASE ClosesWithError \/ SendsSeed \/ Drains \/ Starts
    BY <2>4 DEF ClosesWithError, SendsSeed, Drains, Starts
  <2>5. QED
    BY <1>1, <2>2, <2>3, <2>4 DEF Setup
<1>2. CASE Aborts
  BY <1>2 DEF Aborts
<1>3. CASE Loop /\ ~Aborts
  BY <1>3 DEF Loop, LoopShutdown, LoopRuns, LoopAnswers, LoopInboundGone, LoopNoAnswer,
     LoopOutput, LoopSwitch, LoopTold, LoopEventsEnd, LoopNoEvent, LoopSendFails, Receives,
     Polls
<1>4. CASE InboundStops \/ InboundAnswers \/ InboundRefused
  BY <1>4, <1>11 DEF InboundStops, InboundAnswers, InboundRefused
<1>5. CASE InboundTimesOut
  BY <1>5, <1>11 DEF InboundTimesOut
<1>6. CASE TmuxDisplays \/ TmuxCaptures \/ TmuxScrolls \/ TmuxTakesInput
  BY <1>6, <1>11 DEF TmuxDisplays, TmuxCaptures, TmuxScrolls, TmuxTakesInput, Replies
<1>7. ASSUME NEW p \in Panes, TmuxWrites(p) \/ TmuxSwitches(p)
      PROVE  UNCHANGED <<ran, inq, frames, cmds, inVars>>
  BY <1>7 DEF TmuxWrites, TmuxSwitches
<1>8. CASE TmuxDetaches \/ TmuxExits \/ DriverEnds
  BY <1>8, <1>11 DEF TmuxDetaches, TmuxExits, DriverEnds, DriverFails
<1>9. CASE ShutsDown \/ BrowserSends \/ BrowserCloses \/ UNCHANGED vars
  BY <1>9 DEF ShutsDown, BrowserSends, BrowserCloses, vars
<1>10. QED
  BY <1>1, <1>2, <1>3, <1>4, <1>5, <1>6, <1>7, <1>8, <1>9 DEF Next, InboundTask, Tmux

LEMMA NumberedInit == Init => Numbered /\ HandNumbered
<1> SUFFICES ASSUME Init PROVE Numbered /\ HandNumbered
  OBVIOUS
<1>1. DOMAIN ran = {} /\ DOMAIN cmds = {} /\ DOMAIN inq = {}
  BY DEF Init
<1>2. QED
  BY <1>1 DEF Init, Numbered, HandNumbered, WebCmds, WebFrames

LEMMA NumberedStep == TypeInv /\ Numbered /\ HandNumbered /\ [Next]_vars => Numbered'
<1> SUFFICES ASSUME TypeInv, Numbered, HandNumbered, [Next]_vars PROVE Numbered'
  OBVIOUS
<1>1. cmds \in Seq(RealCommand) /\ inq \in Seq(RealFrame) /\ ran \in Seq(1..MaxFrames)
      /\ frames \in Nat
  BY PaneSessionAssumption DEF TypeInv, DriverType, WebType
<1>2. /\ \A i \in DOMAIN ran : ran[i] \in Nat
      /\ \A i \in WebCmds : cmds[i].n \in Nat /\ i \in Nat
      /\ \A i \in WebFrames : inq[i].n \in Nat /\ i \in Nat
      /\ DOMAIN ran \subseteq Nat
  BY NumbersType
<1>3. UNCHANGED inq => \A i \in WebFrames' : i + 0 \in WebFrames /\ inq'[i].n = inq[i + 0].n
                                             /\ i \in Nat
  BY <1>2 DEF WebFrames
<1>4. UNCHANGED cmds => \A i \in WebCmds' : i + 0 \in WebCmds /\ cmds'[i].n = cmds[i + 0].n
                                            /\ i \in Nat
  BY <1>2 DEF WebCmds
<1>5. cmds # <<>> /\ cmds' = Tail(cmds) =>
          /\ \A i \in WebCmds' : i \in Nat /\ i + 1 \in WebCmds /\ cmds'[i].n = cmds[i + 1].n
          /\ \A i \in WebCmds' : i + 1 > 1
  <2> SUFFICES ASSUME cmds # <<>>, cmds' = Tail(cmds)
               PROVE  \A i \in WebCmds' : /\ i \in Nat /\ i + 1 \in WebCmds
                                          /\ cmds'[i].n = cmds[i + 1].n /\ i + 1 > 1
    OBVIOUS
  <2>1. \A i \in DOMAIN cmds' : /\ i \in Nat /\ i + 1 \in DOMAIN cmds /\ i + 1 > 1
                                /\ cmds'[i] = cmds[i + 1]
    BY <1>1, TailFacts
  <2>2. QED
    BY <2>1 DEF WebCmds
<1>6. CASE /\ UNCHANGED <<ran, inq, frames>>
           /\ \/ cmds' = cmds \/ cmds' = <<>>
              \/ \E who : cmds' = Orphaned(who)
              \/ \E c \in RealCommand : c.what \in {"display", "capture"}
                                        /\ cmds' = Append(cmds, c)
  <2>1. \A i \in WebCmds' : i \in WebCmds /\ cmds'[i].n = cmds[i].n
    <3>1. CASE cmds' = cmds \/ cmds' = <<>>
      BY <3>1 DEF WebCmds
    <3>2. ASSUME NEW who, cmds' = Orphaned(who)
          PROVE  \A i \in WebCmds' : i \in WebCmds /\ cmds'[i].n = cmds[i].n
      BY <3>2, Orphaning DEF WebCmds, TypeInv
    <3>3. ASSUME NEW c \in RealCommand, c.what \in {"display", "capture"},
                 cmds' = Append(cmds, c)
          PROVE  \A i \in WebCmds' : i \in WebCmds /\ cmds'[i].n = cmds[i].n
      <4>1. \A i \in DOMAIN cmds' : cmds'[i] = c \/ (i \in DOMAIN cmds /\ cmds'[i] = cmds[i])
        BY <1>1, <3>3, AppendFacts
      <4>2. QED
        BY <3>3, <4>1 DEF WebCmds
    <3>4. QED
      BY <1>6, <3>1, <3>2, <3>3
  <2>2. \A i \in WebCmds' : i \in Nat /\ i + 0 \in WebCmds /\ cmds'[i].n = cmds[i + 0].n
    BY <1>2, <2>1
  <2>3. QED
    BY <1>3, <1>6, <2>2, NumberedMoves
<1>7. ASSUME NEW what, Runs(what), ran' = ran PROVE Numbered'
  <2>1. cmds # <<>> /\ cmds' = Tail(cmds) /\ UNCHANGED <<inq, frames>>
    BY <1>7 DEF Runs, webVars
  <2>2. QED
    BY <1>3, <1>5, <1>7, <2>1, NumberedMoves
<1>8. CASE TmuxTakesInput
  <2>1. /\ Runs("input") /\ cmds # <<>> /\ cmds' = Tail(cmds) /\ UNCHANGED <<inq, frames>>
    BY <1>8 DEF TmuxTakesInput, Runs, webVars
  <2>2. 1 \in WebCmds /\ Head(cmds) = cmds[1]
    BY <2>1, RunsFacts DEF WebCmds
  <2>3. CASE ran' = ran
    BY <1>7, <2>1, <2>3
  <2>4. CASE ran' = Append(ran, Head(cmds).n)
    <3> DEFINE n == cmds[1].n
               S == 1..MaxFrames
    <3>1. n \in S
      BY <2>1, RunsFacts DEF RealCommand
    <3>2. ran \in Seq(S) /\ ran' = Append(ran, n)
      BY <1>1, <2>2, <2>4
    <3> HIDE DEF S
    <3>3. \A i \in DOMAIN ran' :
              \/ i \in DOMAIN ran /\ ran'[i] = ran[i] /\ i < Len(ran) + 1
              \/ i = Len(ran) + 1 /\ ran'[i] = n
      BY <3>1, <3>2, AppendFacts
    <3>4. /\ n \in Nat /\ n <= frames
          /\ \A i \in DOMAIN ran : ran[i] < n
          /\ \A i \in WebFrames : n < inq[i].n
      BY <1>2, <2>2 DEF Numbered
    <3>5. \A i \in WebCmds' : n < cmds'[i].n
      BY <1>5, <2>1, <2>2 DEF Numbered
    <3> HIDE DEF n
    <3>6. WebFrames' = WebFrames /\ Len(ran) \in Nat
      BY <2>1, <3>2, ElementFacts DEF WebFrames
    <3>7. /\ \A i \in DOMAIN ran' : ran'[i] <= frames'
          /\ \A i, j \in DOMAIN ran' : i < j => ran'[i] < ran'[j]
          /\ \A i \in DOMAIN ran', j \in WebFrames' : ran'[i] < inq'[j].n
      BY <1>2, <2>1, <3>3, <3>4, <3>6 DEF Numbered
    <3>8. \A i \in DOMAIN ran', j \in WebCmds' : ran'[i] < cmds'[j].n
      BY <1>2, <1>5, <2>1, <3>3, <3>5 DEF Numbered
    <3>9. /\ \A i, j \in WebCmds' : i < j => cmds'[i].n < cmds'[j].n
          /\ \A i \in WebCmds' : cmds'[i].n <= frames'
      <4>1. \A i, j \in WebCmds' : i < j => i + 1 < j + 1
        BY <1>5, <2>1
      <4>2. QED
        BY <1>5, <2>1, <4>1 DEF Numbered
    <3>10. /\ \A i, j \in WebFrames' : i < j => inq'[i].n < inq'[j].n
           /\ \A i \in WebFrames' : inq'[i].n <= frames'
           /\ \A i \in WebCmds', j \in WebFrames' : cmds'[i].n < inq'[j].n
      BY <1>5, <2>1, <3>6 DEF Numbered
    <3>11. QED
      BY <3>7, <3>8, <3>9, <3>10 DEF Numbered
  <2>5. QED
    BY <1>8, <2>3, <2>4 DEF TmuxTakesInput
<1>9. CASE InboundTakes
  <2>1. /\ inq # <<>> /\ inq' = Tail(inq) /\ UNCHANGED <<ran, frames, cmds>>
    BY <1>9 DEF InboundTakes, driverVars
  <2>2. \A i \in DOMAIN inq' : i \in Nat /\ i + 1 \in DOMAIN inq /\ inq'[i] = inq[i + 1]
    BY <1>1, <2>1, TailFacts
  <2>3. \A i \in WebFrames' : i \in Nat /\ i + 1 \in WebFrames /\ inq'[i].n = inq[i + 1].n
    BY <2>2 DEF WebFrames
  <2>4. QED
    BY <1>4, <2>1, <2>3, NumberedMoves
<1>13. CASE InboundSends
  <2> DEFINE n == hand.n
             c == [what |-> hand.kind, caller |-> "inbound", n |-> hand.n]
  <2>1. /\ ipc = "send" /\ cmds' = Append(cmds, c)
        /\ UNCHANGED <<ran, inq, frames>>
    BY <1>13 DEF InboundSends, Sends, webVars
  <2>2. c \in RealCommand /\ n \in Nat /\ c.n = n
    BY <2>1, CommandBuilt DEF TypeInv, InType
  <2>3. /\ n <= frames
        /\ \A i \in DOMAIN ran : ran[i] < n
        /\ \A i \in WebCmds : cmds[i].n < n
        /\ \A i \in WebFrames : n < inq[i].n
    BY <2>1 DEF HandNumbered
  <2> HIDE DEF c, n
  <2>4. \A i \in DOMAIN cmds' :
            \/ i \in DOMAIN cmds /\ cmds'[i] = cmds[i] /\ i < Len(cmds) + 1
            \/ i = Len(cmds) + 1 /\ cmds'[i] = c
    BY <1>1, <2>1, <2>2, AppendFacts
  <2>5. \A i \in WebCmds' :
            \/ i \in WebCmds /\ cmds'[i].n = cmds[i].n /\ i < Len(cmds) + 1
            \/ i = Len(cmds) + 1 /\ cmds'[i].n = n
    BY <2>2, <2>4 DEF WebCmds
  <2>6. Len(cmds) \in Nat /\ WebFrames' = WebFrames
    BY <1>1, <2>1, ElementFacts DEF WebFrames
  <2>7. /\ \A i, j \in WebCmds' : i < j => cmds'[i].n < cmds'[j].n
        /\ \A i \in WebCmds' : cmds'[i].n <= frames'
    <3>1. /\ \A i \in WebCmds : cmds[i].n \in Nat /\ i \in Nat /\ cmds[i].n <= frames
          /\ frames \in Nat
      BY <1>1, <1>2 DEF Numbered
    <3>2. \A i, j \in WebCmds : i < j => cmds[i].n < cmds[j].n
      BY DEF Numbered
    <3>3. ASSUME NEW i \in WebCmds', NEW j \in WebCmds', i < j
          PROVE  cmds'[i].n < cmds'[j].n
      <4>1. i \in WebCmds /\ cmds'[i].n = cmds[i].n
        BY <2>5, <2>6, <3>1, <3>3
      <4>2. CASE j \in WebCmds /\ cmds'[j].n = cmds[j].n
        BY <3>2, <3>3, <4>1, <4>2
      <4>3. CASE cmds'[j].n = n
        BY <2>3, <4>1, <4>3
      <4>4. QED
        BY <2>5, <4>2, <4>3
    <3>4. ASSUME NEW i \in WebCmds' PROVE cmds'[i].n <= frames'
      BY <2>1, <2>3, <2>5, <3>1
    <3>5. QED
      BY <3>3, <3>4
  <2>8. /\ \A i \in DOMAIN ran', j \in WebCmds' : ran'[i] < cmds'[j].n
        /\ \A i \in WebCmds', j \in WebFrames' : cmds'[i].n < inq'[j].n
    BY <2>1, <2>3, <2>5, <2>6 DEF Numbered
  <2>9. /\ \A i \in DOMAIN ran' : ran'[i] <= frames'
        /\ \A i, j \in DOMAIN ran' : i < j => ran'[i] < ran'[j]
        /\ \A i \in WebFrames' : inq'[i].n <= frames'
        /\ \A i, j \in WebFrames' : i < j => inq'[i].n < inq'[j].n
        /\ \A i \in DOMAIN ran', j \in WebFrames' : ran'[i] < inq'[j].n
    BY <2>1, <2>6 DEF Numbered
  <2>10. QED
    BY <2>7, <2>8, <2>9 DEF Numbered
<1>10. CASE BrowserSends
  <2>1. /\ frames' = frames + 1 /\ UNCHANGED <<ran, cmds>>
    BY <1>10 DEF BrowserSends, driverVars
  <2>2. PICK k \in {"input", "scroll"} : inq' = Append(inq, [kind |-> k, n |-> frames + 1])
    BY <1>10 DEF BrowserSends
  <2> DEFINE f == [kind |-> k, n |-> frames + 1]
  <2>3. f \in RealFrame
    BY <1>1, <1>10, PaneSessionAssumption DEF RealFrame, Inbound, BrowserSends
  <2>4. f.n = frames + 1 /\ inq' = Append(inq, f)
    BY <2>2
  <2> HIDE DEF f
  <2>5. \A i \in WebFrames' :
            \/ i \in WebFrames /\ inq'[i].n = inq[i].n /\ i < Len(inq) + 1
            \/ i = Len(inq) + 1 /\ inq'[i].n = frames + 1
    BY <1>1, <2>3, <2>4, AppendFacts DEF WebFrames
  <2>6. WebCmds' = WebCmds /\ Len(inq) \in Nat
    BY <1>1, <2>1, ElementFacts DEF WebCmds
  <2>7. /\ \A i, j \in WebFrames' : i < j => inq'[i].n < inq'[j].n
        /\ \A i \in WebFrames' : inq'[i].n <= frames'
    <3>1. /\ \A i \in WebFrames : inq[i].n \in Nat /\ i \in Nat /\ inq[i].n <= frames
          /\ frames \in Nat
      BY <1>1, <1>2 DEF Numbered
    <3>2. \A i, j \in WebFrames : i < j => inq[i].n < inq[j].n
      BY <1>2 DEF Numbered
    <3>3. ASSUME NEW i \in WebFrames', NEW j \in WebFrames', i < j
          PROVE  inq'[i].n < inq'[j].n
      <4>1. i \in WebFrames /\ inq'[i].n = inq[i].n
        BY <2>5, <2>6, <3>1, <3>3
      <4>2. CASE j \in WebFrames /\ inq'[j].n = inq[j].n
        BY <3>2, <3>3, <4>1, <4>2
      <4>3. CASE inq'[j].n = frames + 1
        BY <3>1, <4>1, <4>3
      <4>4. QED
        BY <2>5, <4>2, <4>3
    <3>4. ASSUME NEW i \in WebFrames' PROVE inq'[i].n <= frames'
      BY <2>1, <2>5, <3>1
    <3>5. QED
      BY <3>3, <3>4
  <2>8. /\ \A i \in DOMAIN ran', j \in WebFrames' : ran'[i] < inq'[j].n
        /\ \A i \in WebCmds', j \in WebFrames' : cmds'[i].n < inq'[j].n
    <3>1. /\ \A i \in DOMAIN ran : ran[i] < frames + 1
          /\ \A i \in WebCmds : cmds[i].n < frames + 1
      BY <1>1, <1>2 DEF Numbered
    <3>2. \A i \in DOMAIN ran', j \in WebFrames' : ran'[i] < inq'[j].n
      BY <2>1, <2>5, <3>1 DEF Numbered
    <3>3. \A i \in WebCmds', j \in WebFrames' : cmds'[i].n < inq'[j].n
      BY <2>1, <2>5, <2>6, <3>1 DEF Numbered
    <3>4. QED
      BY <3>2, <3>3
  <2>9. QED
    BY <1>1, <1>2, <2>1, <2>6, <2>7, <2>8 DEF Numbered
<1>11. CASE BrowserCloses
  <2>1. inq' = Append(inq, NoFrame) /\ UNCHANGED <<ran, cmds, frames>>
    BY <1>11 DEF BrowserCloses, driverVars
  <2>2. \A i \in WebFrames' : i \in WebFrames /\ inq'[i].n = inq[i].n
    BY <1>1, <2>1, AppendFacts, FrameFacts DEF WebFrames
  <2>3. \A i \in WebFrames' : i \in Nat /\ i + 0 \in WebFrames /\ inq'[i].n = inq[i + 0].n
    BY <1>2, <2>2
  <2>4. QED
    BY <1>4, <2>1, <2>3, NumberedMoves
<1>12. QED
  BY <1>6, <1>7, <1>8, <1>9, <1>10, <1>11, <1>13, WaySteps

(* The frame in hand stays behind what is on its way, and before the rest.  *)
LEMMA HandKeeps ==
    ASSUME TypeInv, Numbered, HandNumbered, HandKept, ipc' = "send", frames' \in Nat,
           frames <= frames',
           \A i \in DOMAIN ran' : \/ i \in DOMAIN ran /\ ran'[i] = ran[i]
                                  \/ \E j \in WebCmds : ran'[i] = cmds[j].n,
           \A i \in WebCmds' : \E j \in WebCmds : cmds'[i].n = cmds[j].n,
           \A i \in WebFrames' : \/ \E j \in WebFrames : inq'[i].n = inq[j].n
                                 \/ inq'[i].n = frames + 1
    PROVE  HandNumbered'
<1>1. /\ ipc = "send" /\ hand' = hand /\ hand.n \in Nat /\ frames \in Nat
  BY NumbersType DEF HandKept, TypeInv, InType, Inbound
<1>2. /\ hand.n <= frames
      /\ \A i \in DOMAIN ran : ran[i] < hand.n
      /\ \A i \in WebCmds : cmds[i].n < hand.n
      /\ \A i \in WebFrames : hand.n < inq[i].n
  BY <1>1 DEF HandNumbered
<1>3. hand'.n <= frames' /\ hand.n < frames + 1
  BY <1>1, <1>2
<1>4. \A i \in DOMAIN ran' : ran'[i] < hand'.n
  BY <1>1, <1>2
<1>5. \A i \in WebCmds' : cmds'[i].n < hand'.n
  BY <1>1, <1>2
<1>6. \A i \in WebFrames' : hand'.n < inq'[i].n
  BY <1>1, <1>2, <1>3
<1>7. QED
  BY <1>3, <1>4, <1>5, <1>6 DEF HandNumbered

LEMMA HandStays ==
    ASSUME TypeInv, Numbered, HandNumbered, HandKept, ipc' = "send", UNCHANGED frames,
           \A i \in DOMAIN ran' : \/ i \in DOMAIN ran /\ ran'[i] = ran[i]
                                  \/ \E j \in WebCmds : ran'[i] = cmds[j].n,
           \A i \in WebCmds' : \E j \in WebCmds : cmds'[i].n = cmds[j].n,
           \A i \in WebFrames' : \E j \in WebFrames : inq'[i].n = inq[j].n
    PROVE  HandNumbered'
<1>1. frames' \in Nat /\ frames <= frames'
  BY NumbersType
<1>2. \A i \in WebFrames' : \/ \E j \in WebFrames : inq'[i].n = inq[j].n
                             \/ inq'[i].n = frames + 1
  OBVIOUS
<1>3. QED
  BY <1>1, <1>2, HandKeeps

LEMMA HandStep == TypeInv /\ Numbered /\ HandNumbered /\ [Next]_vars => HandNumbered'
<1> SUFFICES ASSUME TypeInv, Numbered, HandNumbered, [Next]_vars, ipc' = "send"
             PROVE  HandNumbered'
  BY DEF HandNumbered
<1>1. /\ cmds \in Seq(RealCommand) /\ inq \in Seq(RealFrame) /\ ran \in Seq(1..MaxFrames)
      /\ frames \in Nat
  BY PaneSessionAssumption DEF TypeInv, DriverType, WebType
<1>2. cmds # <<>> /\ cmds' = Tail(cmds) =>
          \A i \in WebCmds' : \E j \in WebCmds : cmds'[i].n = cmds[j].n
  <2> SUFFICES ASSUME cmds # <<>>, cmds' = Tail(cmds), NEW i \in WebCmds'
               PROVE  i + 1 \in WebCmds /\ cmds'[i].n = cmds[i + 1].n
    OBVIOUS
  <2>1. \A k \in DOMAIN cmds' : k + 1 \in DOMAIN cmds /\ cmds'[k] = cmds[k + 1]
    BY <1>1, TailFacts
  <2>2. QED
    BY <2>1 DEF WebCmds
<1>3. CASE /\ UNCHANGED <<ran, inq, frames>> /\ HandKept
           /\ \/ cmds' = cmds \/ cmds' = <<>>
              \/ \E who : cmds' = Orphaned(who)
              \/ \E c \in RealCommand : c.what \in {"display", "capture"}
                                        /\ cmds' = Append(cmds, c)
  <2>1. \A i \in WebCmds' : i \in WebCmds /\ cmds'[i].n = cmds[i].n
    <3>1. CASE cmds' = cmds \/ cmds' = <<>>
      BY <3>1 DEF WebCmds
    <3>2. ASSUME NEW who, cmds' = Orphaned(who)
          PROVE  \A i \in WebCmds' : i \in WebCmds /\ cmds'[i].n = cmds[i].n
      BY <3>2, Orphaning DEF WebCmds, TypeInv
    <3>3. ASSUME NEW c \in RealCommand, c.what \in {"display", "capture"},
                 cmds' = Append(cmds, c)
          PROVE  \A i \in WebCmds' : i \in WebCmds /\ cmds'[i].n = cmds[i].n
      <4>1. \A i \in DOMAIN cmds' : cmds'[i] = c \/ (i \in DOMAIN cmds /\ cmds'[i] = cmds[i])
        BY <1>1, <3>3, AppendFacts
      <4>2. QED
        BY <3>3, <4>1 DEF WebCmds
    <3>4. QED
      BY <1>3, <3>1, <3>2, <3>3
  <2>2. WebFrames' = WebFrames
    BY <1>3 DEF WebFrames
  <2>3. QED
    BY <1>1, <1>3, <2>1, <2>2, HandStays
<1>4. ASSUME NEW what, Runs(what), ran' = ran, HandKept PROVE HandNumbered'
  <2>1. cmds # <<>> /\ cmds' = Tail(cmds) /\ UNCHANGED <<inq, frames>>
    BY <1>4 DEF Runs, webVars
  <2>2. WebFrames' = WebFrames
    BY <2>1 DEF WebFrames
  <2>3. QED
    BY <1>1, <1>2, <1>4, <2>1, <2>2, HandStays
<1>5. CASE TmuxTakesInput /\ HandKept
  <2>1. Runs("input") /\ cmds # <<>> /\ cmds' = Tail(cmds) /\ UNCHANGED <<inq, frames>>
    BY <1>5 DEF TmuxTakesInput, Runs, webVars
  <2>2. 1 \in WebCmds /\ Head(cmds) = cmds[1] /\ cmds[1].n \in 1..MaxFrames
    BY <2>1, RunsFacts DEF WebCmds, RealCommand
  <2>3. \A i \in DOMAIN ran' : \/ i \in DOMAIN ran /\ ran'[i] = ran[i]
                               \/ ran'[i] = cmds[1].n
    <3>1. CASE ran' = ran
      BY <3>1
    <3>2. CASE ran' = Append(ran, Head(cmds).n)
      <4> DEFINE n == cmds[1].n
                 S == 1..MaxFrames
      <4>1. n \in S /\ ran \in Seq(S) /\ ran' = Append(ran, n)
        BY <1>1, <2>2, <3>2
      <4> HIDE DEF n, S
      <4>2. \A i \in DOMAIN ran' : (i \in DOMAIN ran /\ ran'[i] = ran[i]) \/ ran'[i] = n
        BY <4>1, AppendFacts
      <4>3. QED
        BY <4>2 DEF n
    <3>3. QED
      BY <1>5, <3>1, <3>2 DEF TmuxTakesInput
  <2>4. WebFrames' = WebFrames
    BY <2>1 DEF WebFrames
  <2>5. QED
    <3>1. \A i \in WebCmds' : \E j \in WebCmds : cmds'[i].n = cmds[j].n
      BY <1>2, <2>1
    <3>2. \A i \in DOMAIN ran' : \/ i \in DOMAIN ran /\ ran'[i] = ran[i]
                                 \/ \E j \in WebCmds : ran'[i] = cmds[j].n
      BY <2>2, <2>3
    <3>3. \A i \in WebFrames' : \E j \in WebFrames : inq'[i].n = inq[j].n
      BY <2>1, <2>4
    <3>4. QED
      BY <1>1, <1>5, <2>1, <3>1, <3>2, <3>3, HandStays
<1>6. CASE InboundTakes
  <2>1. /\ inq # <<>> /\ Head(inq).kind # "close" /\ inq' = Tail(inq) /\ hand' = Head(inq)
        /\ UNCHANGED <<ran, frames, cmds>>
    BY <1>6 DEF InboundTakes, driverVars
  <2>2. \A i \in DOMAIN inq' : i + 1 \in DOMAIN inq /\ i + 1 > 1 /\ inq'[i] = inq[i + 1]
    BY <1>1, <2>1, TailFacts
  <2>3. 1 \in WebFrames /\ hand' = inq[1]
    BY <1>1, <2>1, TailFacts DEF WebFrames
  <2>4. \A i \in WebFrames' : i + 1 \in WebFrames /\ 1 < i + 1 /\ inq'[i] = inq[i + 1]
    BY <2>2 DEF WebFrames
  <2>5. \A i \in WebFrames' : hand'.n < inq'[i].n
    BY <2>3, <2>4 DEF Numbered
  <2>6. WebCmds' = WebCmds
    BY <2>1 DEF WebCmds
  <2>7. QED
    BY <2>1, <2>3, <2>5, <2>6 DEF Numbered, HandNumbered
<1>7. CASE InboundSends
  BY <1>7 DEF InboundSends
<1>8. CASE BrowserSends /\ HandKept
  <2>1. /\ frames' = frames + 1 /\ UNCHANGED <<ran, cmds>>
    BY <1>8 DEF BrowserSends, driverVars
  <2>2. PICK k \in {"input", "scroll"} : inq' = Append(inq, [kind |-> k, n |-> frames + 1])
    BY <1>8 DEF BrowserSends
  <2> DEFINE f == [kind |-> k, n |-> frames + 1]
  <2>3. f \in RealFrame
    BY <1>1, <1>8, PaneSessionAssumption DEF RealFrame, Inbound, BrowserSends
  <2>4. f.n = frames + 1 /\ inq' = Append(inq, f)
    BY <2>2
  <2> HIDE DEF f
  <2>5. \A i \in WebFrames' : (i \in WebFrames /\ inq'[i] = inq[i]) \/ inq'[i].n = frames + 1
    BY <1>1, <2>3, <2>4, AppendFacts DEF WebFrames
  <2>6. WebCmds' = WebCmds
    BY <2>1 DEF WebCmds
  <2>7. QED
    BY <1>1, <1>8, <2>1, <2>5, <2>6, HandKeeps
<1>9. CASE BrowserCloses /\ HandKept
  <2>1. inq' = Append(inq, NoFrame) /\ UNCHANGED <<ran, cmds, frames>>
    BY <1>9 DEF BrowserCloses, driverVars
  <2>2. \A i \in WebFrames' : i \in WebFrames /\ inq'[i] = inq[i]
    BY <1>1, <2>1, AppendFacts, FrameFacts DEF WebFrames
  <2>3. WebCmds' = WebCmds
    BY <2>1 DEF WebCmds
  <2>4. \A i \in WebFrames' : \E j \in WebFrames : inq'[i].n = inq[j].n
    BY <2>2
  <2>5. QED
    BY <1>1, <1>9, <2>1, <2>3, <2>4, HandStays
<1>10. QED
  BY <1>3, <1>4, <1>5, <1>6, <1>7, <1>8, <1>9, WaySteps

(* Input and resizes take effect in the order the browser sent them, each   *)
(* once, whatever the inbound task gives up and however late tmux is.       *)
THEOREM InputCorrect == Spec => []InputInOrder
<1>1. Init => TypeInv /\ Numbered /\ HandNumbered
  BY TypeInit, NumberedInit
<1>2. TypeInv /\ Numbered /\ HandNumbered /\ [Next]_vars => (TypeInv /\ Numbered /\ HandNumbered)'
  BY TypeStep, NumberedStep, HandStep
<1>3. Numbered => InputInOrder
  BY DEF Numbered, InputInOrder
<1>4. QED
  BY <1>1, <1>2, <1>3, PTL DEF Spec

--------------------------------------------------------------------------------
(***************************************************************************)
(* The output of a pane.  In the channel its numbers rise without a gap up  *)
(* to what the pane has written; so what is next after the last live frame  *)
(* is the first that is queued.                                            *)
(***************************************************************************)
Outputs == {i \in DOMAIN events : events[i].kind = "output"}

Stream ==
    /\ \A i, j \in Outputs :
          i < j /\ events[i].pane = events[j].pane => events[i].n < events[j].n
    /\ \A i \in Outputs : \A p \in Panes : events[i].pane = p =>
          /\ events[i].n \in 1..written[p]
          /\ \A m \in events[i].n..written[p] :
                \E j \in Outputs : events[j].pane = p /\ events[j].n = m

LEMMA OutputsType ==
    ASSUME TypeInv
    PROVE  /\ \A i \in Outputs : events[i].pane \in Panes /\ events[i].n \in Nat /\ i \in Nat
           /\ \A p \in Panes : written[p] \in Nat
<1>1. /\ \A i \in DOMAIN events : events[i] \in RealEvent /\ i \in Nat
  BY ElementFacts DEF TypeInv, DriverType
<1>2. \A e \in RealEvent : e.n \in Nat /\ (e.kind = "output" => e.pane \in Panes)
  BY DEF RealEvent, Event
<1>3. QED
  BY <1>1, <1>2 DEF Outputs, TypeInv, TmuxType

LEMMA EvFields == \A k, p, n : Ev(k, p, n).kind = k /\ Ev(k, p, n).pane = p /\ Ev(k, p, n).n = n
BY DEF Ev

(* What a step does to the channel. *)
Appends(e) == events' = Append(events, e) /\ UNCHANGED written
Removes    == events # <<>> /\ events' = Tail(events) /\ UNCHANGED written

LEMMA EventSteps ==
    ASSUME TypeInv, [Next]_vars
    PROVE  \/ UNCHANGED <<events, written>>
           \/ \E e \in RealEvent : e.kind # "output" /\ Appends(e)
           \/ \E p \in Panes : TmuxWrites(p)
           \/ Removes /\ (Drains \/ LoopOutput \/ LoopSwitch \/ LoopTold)
<1> USE DEF tmuxVars, driverVars, mainVars, inVars, webVars
<1>1. CASE Setup /\ ~Drains
  BY <1>1 DEF Setup, Connects, AsksSeed, MainTimesOut, ClosesWithError, SendsSeed, Starts
<1>2. CASE Drains
  BY <1>2 DEF Drains, Removes
<1>3. CASE LoopOutput \/ LoopSwitch \/ LoopTold
  BY <1>3 DEF LoopOutput, LoopSwitch, LoopTold, Receives, Removes
<1>4. CASE \/ LoopShutdown \/ LoopRuns \/ LoopAnswers \/ LoopInboundGone \/ LoopNoAnswer
           \/ LoopEventsEnd \/ LoopNoEvent \/ LoopSendFails \/ Aborts
  BY <1>4 DEF LoopShutdown, LoopRuns, LoopAnswers, LoopInboundGone, LoopNoAnswer,
     LoopEventsEnd, LoopNoEvent, LoopSendFails, Aborts, Polls
<1>5. CASE InboundTask
  BY <1>5 DEF InboundTask, InboundStops, InboundTakes, InboundSends, InboundRefused,
     InboundTimesOut, InboundAnswers
<1>6. CASE TmuxDisplays \/ TmuxCaptures \/ TmuxTakesInput \/ TmuxScrolls
  BY <1>6, RunsFacts DEF TmuxDisplays, TmuxCaptures, TmuxTakesInput, TmuxScrolls
<1>7. ASSUME NEW p \in Panes, TmuxSwitches(p)
      PROVE  \E e \in RealEvent : e.kind # "output" /\ Appends(e)
  <2> DEFINE e == Ev("switch", p, 0)
  <2>1. e \in RealEvent /\ e.kind # "output"
    BY BuiltTypes, EvFields
  <2>2. Appends(e)
    BY <1>7 DEF TmuxSwitches, Appends
  <2>3. QED
    BY <2>1, <2>2
<1>8. CASE TmuxDetaches
  <2> DEFINE e == Ev("detached", None, 0)
  <2>1. e \in RealEvent /\ e.kind # "output"
    BY BuiltTypes, EvFields
  <2>2. Appends(e)
    BY <1>8 DEF TmuxDetaches, Appends
  <2>3. QED
    BY <2>1, <2>2
<1>9. CASE TmuxExits \/ DriverEnds
  <2> DEFINE e == Ev("exit", None, 0)
  <2>1. e \in RealEvent /\ e.kind # "output"
    BY BuiltTypes, EvFields
  <2>2. Appends(e)
    BY <1>9 DEF TmuxExits, DriverEnds, DriverFails, Appends
  <2>3. QED
    BY <2>1, <2>2
<1>10. CASE BrowserSends \/ BrowserCloses \/ ShutsDown \/ UNCHANGED vars
  BY <1>10 DEF BrowserSends, BrowserCloses, ShutsDown, vars
<1>11. QED
  BY <1>1, <1>2, <1>3, <1>4, <1>5, <1>6, <1>7, <1>8, <1>9, <1>10 DEF Next, Loop, Tmux

(* The outputs in the channel, after each. *)
LEMMA OutputsAppend ==
    ASSUME TypeInv, NEW e \in RealEvent, e.kind # "output", Appends(e)
    PROVE  Outputs' = Outputs /\ \A i \in Outputs : events'[i] = events[i]
<1>1. events \in Seq(RealEvent)
  BY DEF TypeInv, DriverType
<1>2. /\ DOMAIN events = 1..Len(events) /\ DOMAIN events' = 1..Len(events) + 1
      /\ \A i \in 1..Len(events) : events'[i] = events[i]
      /\ events'[Len(events) + 1] = e /\ Len(events) \in Nat
  BY <1>1, AppendFacts DEF Appends
<1>3. QED
  BY <1>2 DEF Outputs

LEMMA OutputsWrite ==
    ASSUME TypeInv, NEW p \in Panes, TmuxWrites(p)
    PROVE  /\ Len(events) + 1 \in Outputs' /\ Len(events) \in Nat
           /\ events'[Len(events) + 1].pane = p
           /\ events'[Len(events) + 1].n = written[p] + 1
           /\ Outputs' = Outputs \cup {Len(events) + 1}
           /\ \A i \in Outputs : events'[i] = events[i] /\ i < Len(events) + 1
           /\ written'[p] = written[p] + 1
           /\ \A q \in Panes \ {p} : written'[q] = written[q]
<1> DEFINE e == Ev("output", p, written[p] + 1)
<1>1. events \in Seq(RealEvent) /\ written \in [Panes -> Nat]
  BY DEF TypeInv, DriverType, TmuxType
<1>2. e \in RealEvent /\ e.kind = "output" /\ e.pane = p /\ e.n = written[p] + 1
  <2>1. written[p] + 1 \in Nat
    BY <1>1
  <2>2. e \in RealEvent
    BY <2>1, BuiltTypes
  <2>3. QED
    BY <2>2, EvFields
<1>3. events' = Append(events, e)
  BY DEF TmuxWrites
<1> HIDE DEF e
<1>4. /\ DOMAIN events = 1..Len(events) /\ DOMAIN events' = 1..Len(events) + 1
      /\ \A i \in 1..Len(events) : events'[i] = events[i]
      /\ events'[Len(events) + 1] = e /\ Len(events) \in Nat
  BY <1>1, <1>2, <1>3, AppendFacts
<1>5. /\ written'[p] = written[p] + 1
      /\ \A q \in Panes \ {p} : written'[q] = written[q]
  BY <1>1 DEF TmuxWrites
<1>6. /\ Len(events) + 1 \in Outputs' /\ Outputs' = Outputs \cup {Len(events) + 1}
      /\ \A i \in Outputs : events'[i] = events[i] /\ i < Len(events) + 1
  BY <1>2, <1>4 DEF Outputs
<1>7. QED
  BY <1>2, <1>4, <1>5, <1>6

LEMMA OutputsTail ==
    ASSUME TypeInv, Removes
    PROVE  /\ \A i \in Outputs' : /\ i \in Nat /\ i + 1 \in Outputs /\ i + 1 # 1
                                  /\ events'[i] = events[i + 1]
           /\ \A i \in Outputs \ {1} : i - 1 \in Outputs' /\ events'[i - 1] = events[i]
           /\ Head(events) = events[1] /\ 1 \in DOMAIN events
<1>1. events \in Seq(RealEvent)
  BY DEF TypeInv, DriverType
<1>2. /\ Len(events) \in Nat \ {0} /\ DOMAIN events = 1..Len(events)
      /\ DOMAIN events' = 1..Len(events) - 1
      /\ \A i \in 1..Len(events) - 1 : events'[i] = events[i + 1]
      /\ Head(events) = events[1]
  BY <1>1, TailFacts DEF Removes
<1>3. \A i \in Outputs' : /\ i \in Nat /\ i + 1 \in Outputs /\ i + 1 # 1
                          /\ events'[i] = events[i + 1]
  BY <1>2 DEF Outputs
<1>4. \A i \in Outputs \ {1} : i - 1 \in Outputs' /\ events'[i - 1] = events[i]
  <2> SUFFICES ASSUME NEW i \in Outputs \ {1}
               PROVE  i - 1 \in Outputs' /\ events'[i - 1] = events[i]
    OBVIOUS
  <2>1. i - 1 \in 1..Len(events) - 1 /\ (i - 1) + 1 = i
    BY <1>2 DEF Outputs
  <2>2. QED
    BY <1>2, <2>1 DEF Outputs
<1>5. QED
  BY <1>2, <1>3, <1>4

LEMMA StreamInit == Init => Stream
<1> SUFFICES ASSUME Init PROVE Stream
  OBVIOUS
<1>1. Outputs = {}
  BY DEF Init, Outputs
<1>2. QED
  BY <1>1 DEF Stream

LEMMA StreamStep == TypeInv /\ Stream /\ [Next]_vars => Stream'
<1> SUFFICES ASSUME TypeInv, Stream, [Next]_vars PROVE Stream'
  OBVIOUS
<1>1. /\ \A i \in Outputs : events[i].pane \in Panes /\ events[i].n \in Nat /\ i \in Nat
      /\ \A p \in Panes : written[p] \in Nat
  BY OutputsType
<1>2. CASE UNCHANGED <<events, written>>
  BY <1>2 DEF Stream, Outputs
<1>3. ASSUME NEW e \in RealEvent, e.kind # "output", Appends(e) PROVE Stream'
  <2>1. Outputs' = Outputs /\ (\A i \in Outputs : events'[i] = events[i]) /\ written' = written
    BY <1>3, OutputsAppend DEF Appends
  <2>2. \A i, j \in Outputs' :
            i < j /\ events'[i].pane = events'[j].pane => events'[i].n < events'[j].n
    BY <2>1 DEF Stream
  <2>3. \A i \in Outputs' : \A p \in Panes : events'[i].pane = p =>
            /\ events'[i].n \in 1..written'[p]
            /\ \A m \in events'[i].n..written'[p] :
                  \E j \in Outputs' : events'[j].pane = p /\ events'[j].n = m
    BY <2>1 DEF Stream
  <2>4. QED
    BY <2>2, <2>3 DEF Stream
<1>4. ASSUME NEW p \in Panes, TmuxWrites(p) PROVE Stream'
  <2> DEFINE l == Len(events) + 1
  <2>1. /\ l \in Outputs' /\ l \in Nat /\ events'[l].pane = p /\ events'[l].n = written[p] + 1
        /\ Outputs' = Outputs \cup {l}
        /\ \A i \in Outputs : events'[i] = events[i] /\ i < l
        /\ written'[p] = written[p] + 1
        /\ \A q \in Panes \ {p} : written'[q] = written[q]
    BY <1>4, OutputsWrite
  <2> HIDE DEF l
  <2>2. \A i, j \in Outputs' :
            i < j /\ events'[i].pane = events'[j].pane => events'[i].n < events'[j].n
    <3>1. \A i \in Outputs : events[i].pane = p => events[i].n < written[p] + 1
      BY <1>1 DEF Stream
    <3>2. \A i \in Outputs' : i = l \/ (i \in Outputs /\ i < l /\ events'[i] = events[i])
      BY <2>1
    <3>3. QED
      BY <1>1, <2>1, <3>1, <3>2 DEF Stream
  <2>3. ASSUME NEW i \in Outputs', NEW q \in Panes, events'[i].pane = q
        PROVE  /\ events'[i].n \in 1..written'[q]
               /\ \A m \in events'[i].n..written'[q] :
                     \E j \in Outputs' : events'[j].pane = q /\ events'[j].n = m
    <3>1. CASE i = l
      <4>1. q = p /\ events'[i].n = written'[q]
        BY <2>1, <2>3, <3>1
      <4>2. events'[i].n \in 1..written'[q]
        BY <1>1, <2>1, <4>1
      <4>3. \A m \in events'[i].n..written'[q] : m = events'[i].n
        BY <1>1, <2>1, <4>1
      <4>4. QED
        BY <2>3, <4>2, <4>3
    <3>2. CASE i \in Outputs
      <4>1. events'[i] = events[i] /\ events[i].pane = q
        BY <2>1, <2>3, <3>2
      <4>2. /\ events[i].n \in 1..written[q]
            /\ \A m \in events[i].n..written[q] :
                  \E j \in Outputs : events[j].pane = q /\ events[j].n = m
        BY <3>2, <4>1 DEF Stream
      <4>3. \A m \in events[i].n..written[q] :
                \E j \in Outputs' : events'[j].pane = q /\ events'[j].n = m
        BY <2>1, <4>2
      <4>4. CASE q = p
        <5>1. \A m \in events[i].n..written'[q] : m \in events[i].n..written[q] \/ m = written[p] + 1
          BY <1>1, <2>1, <4>4
        <5>2. events[i].n \in 1..written'[q]
          BY <1>1, <2>1, <4>2, <4>4
        <5>3. \E j \in Outputs' : events'[j].pane = q /\ events'[j].n = written[p] + 1
          BY <2>1, <4>4
        <5>4. QED
          BY <4>1, <4>3, <5>1, <5>2, <5>3
      <4>5. CASE q # p
        BY <2>1, <4>1, <4>2, <4>3, <4>5
      <4>6. QED
        BY <4>4, <4>5
    <3>3. QED
      BY <2>1, <3>1, <3>2
  <2>4. QED
    BY <2>2, <2>3 DEF Stream
<1>5. CASE Removes
  <2>1. /\ \A i \in Outputs' : /\ i \in Nat /\ i + 1 \in Outputs /\ i + 1 # 1
                               /\ events'[i] = events[i + 1]
        /\ \A i \in Outputs \ {1} : i - 1 \in Outputs' /\ events'[i - 1] = events[i]
    BY <1>5, OutputsTail
  <2>2. \A i, j \in Outputs' :
            i < j /\ events'[i].pane = events'[j].pane => events'[i].n < events'[j].n
    <3>1. \A i, j \in Outputs' : i < j => i + 1 < j + 1
      BY <2>1
    <3>2. QED
      BY <2>1, <3>1 DEF Stream
  <2>3. ASSUME NEW i \in Outputs', NEW q \in Panes, events'[i].pane = q,
               NEW m \in events'[i].n..written[q]
        PROVE  \E j \in Outputs' : events'[j].pane = q /\ events'[j].n = m
    <3>1. i + 1 \in Outputs /\ events'[i] = events[i + 1] /\ i + 1 # 1
      BY <2>1
    <3>2. PICK j \in Outputs : events[j].pane = q /\ events[j].n = m
      BY <2>3, <3>1 DEF Stream
    <3>3. j # 1
      <4> SUFFICES ASSUME j = 1 PROVE FALSE
        OBVIOUS
      <4>1. 1 < i + 1
        BY <2>1
      <4>2. events[1].n < events[i + 1].n
        BY <2>3, <3>1, <3>2, <4>1 DEF Stream
      <4>3. events[i + 1].n \in Nat /\ events[1].n = m /\ written[q] \in Nat
        BY <1>1, <3>1, <3>2
      <4>4. m \in events[i + 1].n..written[q]
        BY <2>3, <3>1
      <4>5. QED
        BY <4>2, <4>3, <4>4
    <3>4. QED
      BY <2>1, <3>2, <3>3
  <2>4. \A i \in Outputs' : \A q \in Panes : events'[i].pane = q => events'[i].n \in 1..written[q]
    BY <2>1 DEF Stream
  <2>5. written' = written
    BY <1>5 DEF Removes
  <2>6. QED
    BY <2>2, <2>3, <2>4, <2>5 DEF Stream
<1>6. QED
  BY <1>2, <1>3, <1>4, <1>5, EventSteps

--------------------------------------------------------------------------------
(***************************************************************************)
(* Live output.  A frame of the present epoch shows what was next of the    *)
(* pane, so that the last one and the channel together reach what the pane  *)
(* has written; and the main loop begins where the seed ends.               *)
(***************************************************************************)
Lives == Sent("live")

Continues ==
    \A i \in Lives :
        /\ sent[i].epoch <= epoch
        /\ sent[i].epoch = epoch =>
              /\ sent[i].pane = pane /\ sent[i].n \in 1..written[pane]
              /\ \A j \in Outputs : events[j].pane = pane => sent[i].n < events[j].n
              /\ (\A k \in Lives : k <= i) =>
                    \A m \in sent[i].n + 1..written[pane] :
                        \E j \in Outputs : events[j].pane = pane /\ events[j].n = m

Seeded ==
    /\ seed.pane \in Panes => seed.n <= written[seed.pane]
    /\ mpc \in Looping =>
          \A i \in Outputs : events[i].pane = seed.pane => seed.n < events[i].n
    /\ Lives # {} => mpc \in Looping \cup {"abort", "done"}

LEMMA LivesType ==
    ASSUME TypeInv
    PROVE  \A i \in Lives : /\ sent[i].pane \in Panes /\ sent[i].n \in Nat
                            /\ sent[i].epoch \in Nat /\ i \in Nat
<1>1. \A i \in DOMAIN sent : sent[i] \in Frame \cup Closing /\ i \in Nat
  BY ElementFacts DEF TypeInv, MainType
<1>2. \A f \in Frame \cup Closing : f.kind = "live" =>
          f.pane \in Panes /\ f.n \in Nat /\ f.epoch \in Nat
  BY DEF Frame, Closing
<1>3. QED
  BY <1>1, <1>2 DEF Lives, Sent

(* What a step does to the frames that were sent. *)
Adds(f) == sent' = Append(sent, f) /\ UNCHANGED <<pane, epoch>>
Shows   == LoopOutput /\ 1 \in Outputs /\ events[1].pane = pane

LEMMA MainSteps ==
    ASSUME TypeInv, [Next]_vars
    PROVE  /\ mpc \in Looping \cup {"abort", "done"} => mpc' \in Looping \cup {"abort", "done"}
           /\ mpc' \in Looping => mpc \in Looping \/ Starts
           /\ \/ UNCHANGED seed
              \/ /\ mpc = "capture" /\ mpc' = "captured" /\ pane \in Panes
                 /\ seed' = [pane |-> pane, n |-> written[pane]]
                 /\ UNCHANGED <<sent, pane, epoch, written>>
           /\ \/ UNCHANGED <<sent, pane, epoch>>
              \/ mpc = "display" /\ UNCHANGED <<sent, epoch>>
              \/ \E f \in Frame \cup Closing : f.kind # "live" /\ Adds(f)
              \/ Shows
              \/ LoopSwitch
<1> USE DEF tmuxVars, driverVars, mainVars, inVars, webVars, Looping
<1>1. \A c \in {1001, 1011} : Close(c) \in Frame \cup Closing /\ Close(c).kind # "live"
  BY BuiltTypes
<1>2. CASE Connects \/ AsksSeed \/ MainTimesOut \/ Drains \/ Starts
  BY <1>2 DEF Connects, AsksSeed, MainTimesOut, Drains, Starts, ToClosing
<1>3. CASE ClosesWithError
  <2>1. Adds(Close(1011)) /\ mpc = "closing" /\ mpc' = "done" /\ UNCHANGED seed
    BY <1>3 DEF ClosesWithError, Adds, ToBrowser
  <2>2. \E f \in Frame \cup Closing : f.kind # "live" /\ Adds(f)
    BY <1>1, <2>1
  <2>3. QED
    BY <2>1, <2>2
<1>4. CASE SendsSeed
  <2> DEFINE f == [kind |-> "seed", pane |-> seed.pane, n |-> seed.n, epoch |-> 0]
  <2>1. seed.pane \in Panes /\ seed.n \in Nat
    BY <1>4 DEF SendsSeed, TypeInv, MainType
  <2>2. f \in Frame
    BY <2>1, FrameBuilt
  <2>3. f.kind # "live"
    OBVIOUS
  <2>4. /\ mpc = "captured" /\ mpc' \in {"drain", "done"} /\ UNCHANGED <<seed, pane, epoch>>
        /\ sent' = sent \/ sent' = Append(sent, f)
    BY <1>4 DEF SendsSeed, ToBrowser
  <2> HIDE DEF f
  <2>5. UNCHANGED sent \/ \E g \in Frame \cup Closing : g.kind # "live" /\ Adds(g)
    BY <2>2, <2>3, <2>4 DEF Adds
  <2>6. QED
    BY <2>4, <2>5
<1>5. CASE LoopShutdown
  <2>1. Adds(Close(1001)) /\ mpc = "loop" /\ mpc' = "abort" /\ UNCHANGED seed
    BY <1>5 DEF LoopShutdown, Adds, ToBrowser, Leaves
  <2>2. \E f \in Frame \cup Closing : f.kind # "live" /\ Adds(f)
    BY <1>1, <2>1
  <2>3. QED
    BY <2>1, <2>2
<1>6. CASE LoopRuns \/ LoopAnswers \/ LoopInboundGone \/ LoopNoAnswer \/ LoopEventsEnd
           \/ LoopNoEvent \/ LoopSendFails \/ Aborts
  BY <1>6 DEF LoopRuns, LoopAnswers, LoopInboundGone, LoopNoAnswer, LoopEventsEnd, LoopNoEvent,
     LoopSendFails, Aborts, Polls, Leaves
<1>7. CASE LoopTold
  <2>1. Adds(Close(1011)) /\ mpc = "events" /\ mpc' = "abort" /\ UNCHANGED seed
    BY <1>7 DEF LoopTold, Receives, Adds, ToBrowser, Leaves
  <2>2. \E f \in Frame \cup Closing : f.kind # "live" /\ Adds(f)
    BY <1>1, <2>1
  <2>3. QED
    BY <2>1, <2>2
<1>8. CASE LoopOutput
  <2>1. Removes /\ Head(events).kind = "output"
    BY <1>8 DEF LoopOutput, Receives, Removes
  <2>2. Head(events) = events[1] /\ 1 \in Outputs
    BY <2>1, OutputsTail DEF Outputs
  <2>3. mpc = "events" /\ mpc' = "loop" /\ UNCHANGED <<pane, epoch, seed>>
    BY <1>8 DEF LoopOutput, Receives
  <2>4. UNCHANGED sent \/ Shows
    BY <1>8, <2>2 DEF LoopOutput, Shows
  <2>5. QED
    BY <2>3, <2>4
<1>9. CASE LoopSwitch
  BY <1>9 DEF LoopSwitch, Receives
<1>10. CASE InboundTask
  BY <1>10 DEF InboundTask, InboundStops, InboundTakes, InboundSends, InboundRefused,
     InboundTimesOut, InboundAnswers
<1>11. ASSUME NEW what, Runs(what), Awaited("main") PROVE mpc = what
  BY <1>11, RunsFacts DEF Awaited, TypeInv, Asked
<1>12. CASE TmuxDisplays
  BY <1>11, <1>12, RunsFacts DEF TmuxDisplays, ToClosing
<1>13. CASE TmuxCaptures
  <2>1. Runs("capture") /\ UNCHANGED <<sent, pane, epoch, written>>
    BY <1>13, RunsFacts DEF TmuxCaptures
  <2>2. Awaited("main") => mpc = "capture" /\ pane \in Panes
    BY <1>11, <2>1 DEF TypeInv, MainType
  <2>3. QED
    BY <1>13, <2>1, <2>2 DEF TmuxCaptures, ToClosing
<1>14. CASE TmuxTakesInput \/ TmuxScrolls
  BY <1>14, RunsFacts DEF TmuxTakesInput, TmuxScrolls
<1>15. ASSUME NEW p \in Panes, TmuxWrites(p) \/ TmuxSwitches(p)
       PROVE  UNCHANGED mainVars
  BY <1>15 DEF TmuxWrites, TmuxSwitches
<1>16. CASE TmuxDetaches \/ BrowserSends \/ BrowserCloses \/ ShutsDown \/ UNCHANGED vars
  BY <1>16 DEF TmuxDetaches, BrowserSends, BrowserCloses, ShutsDown, vars
<1>17. CASE TmuxExits \/ DriverEnds
  BY <1>17 DEF TmuxExits, DriverEnds, DriverFails
<1>18. QED
  BY <1>2, <1>3, <1>4, <1>5, <1>6, <1>7, <1>8, <1>9, <1>10, <1>12, <1>13, <1>14, <1>15,
     <1>16, <1>17 DEF Next, Setup, Loop, Tmux

(* The live frames, after each. *)
LEMMA LivesAdd ==
    ASSUME TypeInv, NEW f \in Frame \cup Closing, f.kind # "live", sent' = Append(sent, f)
    PROVE  Lives' = Lives /\ \A i \in Lives : sent'[i] = sent[i]
<1>1. sent \in Seq(Frame \cup Closing)
  BY DEF TypeInv, MainType
<1>2. /\ DOMAIN sent = 1..Len(sent) /\ DOMAIN sent' = 1..Len(sent) + 1
      /\ \A i \in 1..Len(sent) : sent'[i] = sent[i]
      /\ sent'[Len(sent) + 1] = f /\ Len(sent) \in Nat
  BY <1>1, AppendFacts
<1>3. QED
  BY <1>2 DEF Lives, Sent

LEMMA LivesShow ==
    ASSUME TypeInv, Shows
    PROVE  /\ Lives' = Lives \cup {Len(sent) + 1} /\ Len(sent) \in Nat
           /\ \A i \in Lives : sent'[i] = sent[i] /\ i < Len(sent) + 1
           /\ sent'[Len(sent) + 1].pane = pane
           /\ sent'[Len(sent) + 1].n = events[1].n
           /\ sent'[Len(sent) + 1].epoch = epoch
           /\ Removes /\ mpc = "events" /\ UNCHANGED <<pane, epoch, seed>>
<1> DEFINE f == [kind |-> "live", pane |-> pane, n |-> events[1].n, epoch |-> epoch]
<1>1. Removes /\ mpc = "events" /\ UNCHANGED <<pane, epoch, seed>>
  BY DEF Shows, LoopOutput, Receives, Removes, tmuxVars
<1>2. Head(events) = events[1]
  BY <1>1, OutputsTail
<1>3. sent' = Append(sent, f)
  BY <1>2 DEF Shows, LoopOutput, ToBrowser
<1>4. pane \in Panes /\ events[1].n \in Nat /\ epoch \in Nat /\ sent \in Seq(Frame \cup Closing)
  BY OutputsType DEF Shows, TypeInv, MainType
<1>5. f \in Frame \cup Closing
  BY <1>4, FrameBuilt
<1>6. f.kind = "live" /\ f.pane = pane /\ f.n = events[1].n /\ f.epoch = epoch
  OBVIOUS
<1> HIDE DEF f
<1>7. /\ DOMAIN sent = 1..Len(sent) /\ DOMAIN sent' = 1..Len(sent) + 1
      /\ \A i \in 1..Len(sent) : sent'[i] = sent[i]
      /\ sent'[Len(sent) + 1] = f /\ Len(sent) \in Nat
  BY <1>3, <1>4, <1>5, AppendFacts
<1>8. /\ Lives' = Lives \cup {Len(sent) + 1}
      /\ \A i \in Lives : sent'[i] = sent[i] /\ i < Len(sent) + 1
  BY <1>6, <1>7 DEF Lives, Sent
<1>9. QED
  BY <1>1, <1>6, <1>7, <1>8

LEMMA LiveInit == Init => Continues /\ Seeded /\ LiveFollows
<1> SUFFICES ASSUME Init PROVE Continues /\ Seeded /\ LiveFollows
  OBVIOUS
<1>1. Lives = {} /\ seed.pane \notin Panes /\ mpc = "connect"
  BY PaneSessionAssumption DEF Init, Lives, Sent
<1>2. QED
  BY <1>1 DEF Continues, Seeded, LiveFollows, Lives, Looping

(* Nothing is shown, and the pane that is shown keeps its place. *)
LEMMA ContinuesKeeps ==
    ASSUME TypeInv, Stream, Continues, Lives' = Lives, \A i \in Lives : sent'[i] = sent[i],
           UNCHANGED <<pane, epoch>>,
           \/ UNCHANGED <<events, written>>
           \/ \E e \in RealEvent : e.kind # "output" /\ Appends(e)
           \/ \E p \in Panes : TmuxWrites(p)
           \/ Removes /\ (1 \in Outputs => events[1].pane # pane \/ Lives = {})
    PROVE  Continues'
<1>1. /\ \A i \in Outputs : events[i].pane \in Panes /\ events[i].n \in Nat /\ i \in Nat
      /\ \A p \in Panes : written[p] \in Nat
  BY OutputsType
<1>2. \A i \in Lives : /\ sent[i].pane \in Panes /\ sent[i].n \in Nat
                       /\ sent[i].epoch \in Nat /\ i \in Nat
  BY LivesType
<1>3. SUFFICES ASSUME NEW i \in Lives, sent[i].epoch = epoch
               PROVE  /\ sent[i].pane = pane /\ sent[i].n \in 1..written'[pane]
                      /\ \A j \in Outputs' : events'[j].pane = pane => sent[i].n < events'[j].n
                      /\ (\A k \in Lives : k <= i) =>
                            \A m \in sent[i].n + 1..written'[pane] :
                                \E j \in Outputs' : events'[j].pane = pane /\ events'[j].n = m
  BY DEF Continues
<1>4. /\ sent[i].pane = pane /\ sent[i].n \in 1..written[pane] /\ pane \in Panes
      /\ \A j \in Outputs : events[j].pane = pane => sent[i].n < events[j].n
      /\ (\A k \in Lives : k <= i) =>
            \A m \in sent[i].n + 1..written[pane] :
                \E j \in Outputs : events[j].pane = pane /\ events[j].n = m
  BY <1>2, <1>3 DEF Continues
<1>5. CASE UNCHANGED <<events, written>>
  BY <1>4, <1>5 DEF Outputs
<1>6. ASSUME NEW e \in RealEvent, e.kind # "output", Appends(e)
      PROVE  /\ sent[i].n \in 1..written'[pane]
             /\ \A j \in Outputs' : events'[j].pane = pane => sent[i].n < events'[j].n
             /\ (\A k \in Lives : k <= i) =>
                   \A m \in sent[i].n + 1..written'[pane] :
                       \E j \in Outputs' : events'[j].pane = pane /\ events'[j].n = m
  <2>1. Outputs' = Outputs /\ (\A j \in Outputs : events'[j] = events[j]) /\ written' = written
    BY <1>6, OutputsAppend DEF Appends
  <2>2. QED
    BY <1>4, <2>1
<1>7. ASSUME NEW p \in Panes, TmuxWrites(p)
      PROVE  /\ sent[i].n \in 1..written'[pane]
             /\ \A j \in Outputs' : events'[j].pane = pane => sent[i].n < events'[j].n
             /\ (\A k \in Lives : k <= i) =>
                   \A m \in sent[i].n + 1..written'[pane] :
                       \E j \in Outputs' : events'[j].pane = pane /\ events'[j].n = m
  <2> DEFINE l == Len(events) + 1
  <2>1. /\ l \in Outputs' /\ events'[l].pane = p /\ events'[l].n = written[p] + 1
        /\ Outputs' = Outputs \cup {l}
        /\ \A j \in Outputs : events'[j] = events[j]
        /\ written'[p] = written[p] + 1
        /\ \A q \in Panes \ {p} : written'[q] = written[q]
    BY <1>7, OutputsWrite
  <2> HIDE DEF l
  <2>2. CASE p = pane
    <3>1. sent[i].n \in 1..written'[pane] /\ sent[i].n < written[pane] + 1
      BY <1>1, <1>2, <1>4, <2>1, <2>2
    <3>2. \A j \in Outputs' : events'[j].pane = pane => sent[i].n < events'[j].n
      BY <1>4, <2>1, <2>2, <3>1
    <3>3. \A m \in sent[i].n + 1..written'[pane] :
              m \in sent[i].n + 1..written[pane] \/ m = written[p] + 1
      BY <1>1, <1>2, <1>4, <2>1, <2>2
    <3>4. (\A k \in Lives : k <= i) =>
              \A m \in sent[i].n + 1..written'[pane] :
                  \E j \in Outputs' : events'[j].pane = pane /\ events'[j].n = m
      BY <1>4, <2>1, <2>2, <3>3
    <3>5. QED
      BY <3>1, <3>2, <3>4
  <2>3. CASE p # pane
    <3>1. written'[pane] = written[pane]
      BY <1>4, <2>1, <2>3
    <3>2. QED
      BY <1>4, <2>1, <2>3, <3>1
  <2>4. QED
    BY <2>2, <2>3
<1>8. CASE Removes /\ (1 \in Outputs => events[1].pane # pane \/ Lives = {})
  <2>1. /\ \A j \in Outputs' : j + 1 \in Outputs /\ events'[j] = events[j + 1]
        /\ \A j \in Outputs \ {1} : j - 1 \in Outputs' /\ events'[j - 1] = events[j]
    BY <1>8, OutputsTail
  <2>2. \A j \in Outputs : events[j].pane = pane => j \in Outputs \ {1}
    BY <1>8
  <2>3. written' = written
    BY <1>8 DEF Removes
  <2>4. QED
    BY <1>4, <2>1, <2>2, <2>3
<1>9. QED
  BY <1>4, <1>5, <1>6, <1>7, <1>8

LEMMA LiveKeeps ==
    ASSUME LiveFollows, Lives' = Lives, \A i \in Lives : sent'[i] = sent[i],
           seed' = seed \/ Lives = {}
    PROVE  LiveFollows'
<1>1. CASE Lives = {}
  BY <1>1 DEF LiveFollows, Lives
<1>2. CASE seed' = seed
  <2>1. \A i \in Lives' : sent'[i].pane = seed'.pane => sent'[i].n > seed'.n
    BY <1>2 DEF LiveFollows, Lives
  <2>2. \A i, j \in Lives' :
            i < j /\ sent'[i].epoch = sent'[j].epoch =>
                /\ sent'[j].n > sent'[i].n
                /\ (~ \E k \in Lives' : i < k /\ k < j) => sent'[j].n = sent'[i].n + 1
    BY DEF LiveFollows, Lives
  <2>3. QED
    BY <2>1, <2>2 DEF LiveFollows, Lives
<1>3. QED
  BY <1>1, <1>2

(* The main loop shows the first output of its pane that is queued. *)
LEMMA LiveShows ==
    ASSUME TypeInv, Stream, Continues, Seeded, LiveFollows, Shows
    PROVE  Continues' /\ LiveFollows'
<1> DEFINE l == Len(sent) + 1
           n == events[1].n
<1>1. /\ Lives' = Lives \cup {l} /\ l \in Nat
      /\ \A i \in Lives : sent'[i] = sent[i] /\ i < l
      /\ sent'[l].pane = pane /\ sent'[l].n = n /\ sent'[l].epoch = epoch
      /\ Removes /\ mpc \in Looping /\ UNCHANGED <<pane, epoch, seed>>
  BY LivesShow DEF Looping
<1>2. 1 \in Outputs /\ events[1].pane = pane
  BY DEF Shows
<1>3. /\ \A i \in Outputs : events[i].pane \in Panes /\ events[i].n \in Nat /\ i \in Nat
      /\ \A p \in Panes : written[p] \in Nat
  BY OutputsType
<1>4. pane \in Panes /\ n \in Nat /\ written[pane] \in Nat
  BY <1>2, <1>3
<1>5. \A i \in Lives : /\ sent[i].pane \in Panes /\ sent[i].n \in Nat
                       /\ sent[i].epoch \in Nat /\ i \in Nat
  BY LivesType
<1>6. /\ n \in 1..written[pane]
      /\ \A m \in n..written[pane] : \E j \in Outputs : events[j].pane = pane /\ events[j].n = m
      /\ \A j \in Outputs : 1 < j /\ events[j].pane = pane => n < events[j].n
  BY <1>2, <1>4 DEF Stream
<1>7. /\ \A j \in Outputs' : /\ j \in Nat /\ j + 1 \in Outputs /\ 1 < j + 1
                             /\ events'[j] = events[j + 1]
      /\ \A j \in Outputs \ {1} : j - 1 \in Outputs' /\ events'[j - 1] = events[j]
      /\ written' = written
  <2>1. /\ \A j \in Outputs' : /\ j \in Nat /\ j + 1 \in Outputs /\ j + 1 # 1
                               /\ events'[j] = events[j + 1]
        /\ \A j \in Outputs \ {1} : j - 1 \in Outputs' /\ events'[j - 1] = events[j]
    BY <1>1, OutputsTail
  <2>2. \A j \in Outputs' : 1 < j + 1
    BY <2>1
  <2>3. written' = written
    BY <1>1 DEF Removes
  <2>4. QED
    BY <2>1, <2>2, <2>3
<1> HIDE DEF l, n
<1>8. \A j \in Outputs' : events'[j].pane = pane => n < events'[j].n
  BY <1>6, <1>7
<1>9. ASSUME NEW m \in n + 1..written[pane]
      PROVE  \E j \in Outputs' : events'[j].pane = pane /\ events'[j].n = m
  <2>1. m \in n..written[pane] /\ m # n
    BY <1>4, <1>9
  <2>2. PICK j \in Outputs : events[j].pane = pane /\ events[j].n = m
    BY <1>6, <2>1
  <2>3. j # 1
    BY <2>1, <2>2 DEF n
  <2>4. QED
    BY <1>7, <2>2, <2>3
<1>10. ASSUME NEW i \in Lives, sent[i].epoch = epoch
       PROVE  /\ sent[i].pane = pane /\ sent[i].n \in 1..written[pane] /\ sent[i].n < n
              /\ (\A k \in Lives : k <= i) => n = sent[i].n + 1
  <2>1. /\ sent[i].pane = pane /\ sent[i].n \in 1..written[pane]
        /\ \A j \in Outputs : events[j].pane = pane => sent[i].n < events[j].n
        /\ (\A k \in Lives : k <= i) =>
              \A m \in sent[i].n + 1..written[pane] :
                  \E j \in Outputs : events[j].pane = pane /\ events[j].n = m
    BY <1>10 DEF Continues
  <2>2. sent[i].n < n
    BY <1>2, <2>1 DEF n
  <2>3. ASSUME \A k \in Lives : k <= i PROVE n = sent[i].n + 1
    <3>1. sent[i].n + 1 \in sent[i].n + 1..written[pane]
      BY <1>4, <1>5, <1>6, <2>2
    <3>2. PICK j \in Outputs : events[j].pane = pane /\ events[j].n = sent[i].n + 1
      BY <2>1, <2>3, <3>1
    <3>3. CASE j = 1
      BY <3>2, <3>3 DEF n
    <3>4. CASE j # 1
      <4>1. j \in Nat /\ (j = 0 \/ 1 < j)
        BY <1>3, <3>4
      <4>2. j # 0
        BY ElementFacts DEF Outputs, TypeInv, DriverType
      <4>3. n < sent[i].n + 1
        BY <1>6, <3>2, <4>1, <4>2
      <4>4. QED
        BY <1>4, <1>5, <2>2, <4>3
    <3>5. QED
      BY <3>3, <3>4
  <2>4. QED
    BY <2>1, <2>2, <2>3
<1>11. Continues'
  <2>1. ASSUME NEW i \in Lives'
        PROVE  sent'[i].epoch <= epoch
    BY <1>1, <1>5 DEF Continues, TypeInv, MainType
  <2>2. ASSUME NEW i \in Lives', sent'[i].epoch = epoch
        PROVE  /\ sent'[i].pane = pane /\ sent'[i].n \in 1..written[pane]
               /\ \A j \in Outputs' : events'[j].pane = pane => sent'[i].n < events'[j].n
               /\ (\A k \in Lives' : k <= i) =>
                     \A m \in sent'[i].n + 1..written[pane] :
                         \E j \in Outputs' : events'[j].pane = pane /\ events'[j].n = m
    <3>1. CASE i = l
      BY <1>1, <1>6, <1>8, <1>9, <3>1
    <3>2. CASE i \in Lives
      <4>1. /\ sent'[i] = sent[i] /\ i < l /\ l \in Lives' /\ i \in Nat
            /\ sent[i].pane = pane /\ sent[i].n \in 1..written[pane] /\ sent[i].n < n
        BY <1>1, <1>5, <1>10, <2>2, <3>2
      <4>2. ~(l <= i)
        BY <1>1, <4>1
      <4>3. \A j \in Outputs' : events'[j].pane = pane => sent[i].n < events'[j].n
        BY <1>3, <1>4, <1>5, <1>7, <1>8, <3>2, <4>1
      <4>4. QED
        BY <4>1, <4>2, <4>3
    <3>3. QED
      BY <1>1, <3>1, <3>2
  <2>3. QED
    BY <1>1, <1>7, <2>1, <2>2 DEF Continues
<1>12. LiveFollows'
  <2>1. ASSUME NEW i \in Lives', sent'[i].pane = seed.pane PROVE sent'[i].n > seed.n
    <3>1. CASE i = l
      <4>1. seed.n < events[1].n /\ seed.n \in Nat
        BY <1>1, <1>2, <2>1, <3>1 DEF Seeded, TypeInv, MainType
      <4>2. QED
        BY <1>1, <1>4, <3>1, <4>1 DEF n
    <3>2. CASE i \in Lives
      BY <1>1, <2>1, <3>2 DEF LiveFollows, Lives
    <3>3. QED
      BY <1>1, <3>1, <3>2
  <2>2. ASSUME NEW i \in Lives', NEW j \in Lives', i < j, sent'[i].epoch = sent'[j].epoch
        PROVE  /\ sent'[j].n > sent'[i].n
               /\ (~ \E k \in Lives' : i < k /\ k < j) => sent'[j].n = sent'[i].n + 1
    <3>1. i \in Lives
      BY <1>1, <1>5, <2>2
    <3>2. CASE j = l
      <4>1. sent'[i] = sent[i] /\ sent[i].epoch = epoch
        BY <1>1, <2>2, <3>1, <3>2
      <4>2. sent[i].n < n /\ ((\A k \in Lives : k <= i) => n = sent[i].n + 1)
        BY <1>10, <3>1, <4>1
      <4>3. (~ \E k \in Lives' : i < k /\ k < j) => \A k \in Lives : k <= i
        <5>1. \A k \in Lives : k \in Lives' /\ k < j
          BY <1>1, <3>2
        <5>2. i \in Nat /\ \A k \in Lives : k \in Nat
          BY <1>5, <3>1
        <5>3. QED
          BY <5>1, <5>2
      <4>4. QED
        BY <1>1, <1>4, <1>5, <3>1, <3>2, <4>1, <4>2, <4>3
    <3>3. CASE j \in Lives
      <4>1. /\ sent'[i] = sent[i] /\ sent'[j] = sent[j]
        BY <1>1, <3>1, <3>3
      <4>2. /\ sent[j].n > sent[i].n
            /\ (~ \E k \in Lives : i < k /\ k < j) => sent[j].n = sent[i].n + 1
        BY <2>2, <3>1, <3>3, <4>1 DEF LiveFollows, Lives
      <4>3. (~ \E k \in Lives' : i < k /\ k < j) => ~ \E k \in Lives : i < k /\ k < j
        BY <1>1
      <4>4. QED
        BY <4>1, <4>2, <4>3
    <3>4. QED
      BY <1>1, <3>2, <3>3
  <2>3. QED
    BY <1>1, <2>1, <2>2 DEF LiveFollows, Lives
<1>13. QED
  BY <1>11, <1>12

LEMMA ContinuesStep ==
    ASSUME TypeInv, Stream, Continues, Seeded, LiveFollows, [Next]_vars
    PROVE  Continues' /\ LiveFollows'
<1>1. CASE Shows
  BY <1>1, LiveShows
<1>2. CASE Lives' = Lives /\ (\A i \in Lives : sent'[i] = sent[i]) /\ UNCHANGED <<pane, epoch>>
           /\ ~Shows
  <2>1. seed' = seed \/ Lives = {}
    BY MainSteps DEF Seeded, Looping
  <2>2. \/ UNCHANGED <<events, written>>
        \/ \E e \in RealEvent : e.kind # "output" /\ Appends(e)
        \/ \E p \in Panes : TmuxWrites(p)
        \/ Removes /\ (1 \in Outputs => events[1].pane # pane \/ Lives = {})
    <3>1. CASE Removes /\ Drains
      BY <3>1 DEF Drains, Seeded, Looping
    <3>2. CASE Removes /\ LoopOutput
      BY <1>2, <3>2 DEF Shows
    <3>3. CASE Removes /\ (LoopSwitch \/ LoopTold)
      <4>1. Head(events) = events[1]
        BY <3>3, OutputsTail
      <4>2. 1 \notin Outputs
        BY <3>3, <4>1 DEF LoopSwitch, LoopTold, Receives, Outputs
      <4>3. QED
        BY <3>3, <4>2
    <3>4. QED
      BY <3>1, <3>2, <3>3, EventSteps
  <2>3. Continues'
    BY <1>2, <2>2, ContinuesKeeps
  <2>4. LiveFollows'
    BY <1>2, <2>1, LiveKeeps
  <2>5. QED
    BY <2>3, <2>4
<1>3. CASE LoopSwitch
  <2>1. /\ UNCHANGED sent /\ epoch' = epoch + 1 /\ UNCHANGED seed
    BY <1>3 DEF LoopSwitch, Receives
  <2>2. Lives' = Lives /\ \A i \in Lives : sent'[i] = sent[i]
    BY <2>1 DEF Lives, Sent
  <2>3. \A i \in Lives : sent[i].epoch \in Nat /\ sent[i].epoch <= epoch /\ epoch \in Nat
    BY LivesType DEF Continues, TypeInv, MainType
  <2>4. \A i \in Lives' : sent'[i].epoch <= epoch' /\ sent'[i].epoch # epoch'
    BY <2>1, <2>2, <2>3
  <2>5. Continues'
    BY <2>4 DEF Continues
  <2>6. QED
    BY <2>1, <2>2, <2>5, LiveKeeps
<1>4. CASE mpc = "display" /\ UNCHANGED <<sent, epoch>>
  <2>1. Lives = {} /\ Lives' = {}
    BY <1>4 DEF Seeded, Lives, Sent, Looping
  <2>2. QED
    BY <2>1 DEF Continues, LiveFollows, Lives
<1>5. CASE UNCHANGED <<sent, pane, epoch>>
  BY <1>1, <1>2, <1>5 DEF Lives, Sent
<1>6. ASSUME NEW f \in Frame \cup Closing, f.kind # "live", Adds(f)
      PROVE  Continues' /\ LiveFollows'
  BY <1>1, <1>2, <1>6, LivesAdd DEF Adds
<1>7. QED
  BY <1>1, <1>3, <1>4, <1>5, <1>6, MainSteps

LEMMA SeededStep ==
    ASSUME TypeInv, Stream, Seeded, [Next]_vars
    PROVE  Seeded'
<1>1. /\ \A i \in Outputs : events[i].pane \in Panes /\ events[i].n \in Nat
      /\ \A p \in Panes : written[p] \in Nat
  BY OutputsType
<1>2. seed.n \in Nat /\ written \in [Panes -> Nat]
  BY DEF TypeInv, MainType, TmuxType
<1>3. \A p \in Panes : written[p] <= written'[p]
  <2>1. ASSUME NEW p \in Panes, TmuxWrites(p)
        PROVE  \A q \in Panes : written[q] <= written'[q]
    BY <1>2, <2>1 DEF TmuxWrites
  <2>2. QED
    BY <1>1, <2>1, EventSteps DEF Appends, Removes
<1>4. seed'.pane \in Panes => seed'.n <= written'[seed'.pane]
  <2>1. CASE UNCHANGED seed
    <3>1. TypeInv'
      BY TypeStep
    <3>2. \A p \in Panes : written'[p] \in Nat
      BY <3>1 DEF TypeInv, TmuxType
    <3>3. QED
      BY <1>1, <1>2, <1>3, <2>1, <3>2 DEF Seeded
  <2>2. CASE seed' = [pane |-> pane, n |-> written[pane]] /\ UNCHANGED written /\ pane \in Panes
    BY <1>1, <2>2
  <2>3. QED
    BY <2>1, <2>2, MainSteps
<1>5. ASSUME mpc' \in Looping
      PROVE  \A i \in Outputs' : events'[i].pane = seed'.pane => seed'.n < events'[i].n
  <2>1. CASE Starts
    <3>1. Outputs' = {}
      BY <2>1 DEF Starts, Outputs, driverVars
    <3>2. QED
      BY <3>1
  <2>2. CASE mpc \in Looping
    <3>1. seed' = seed
      BY <1>5, MainSteps DEF Looping
    <3>2. \A i \in Outputs : events[i].pane = seed.pane => seed.n < events[i].n
      BY <2>2 DEF Seeded
    <3>3. CASE UNCHANGED <<events, written>>
      BY <3>1, <3>2, <3>3 DEF Outputs
    <3>4. ASSUME NEW e \in RealEvent, e.kind # "output", Appends(e)
          PROVE  \A i \in Outputs' : events'[i].pane = seed.pane => seed.n < events'[i].n
      BY <3>2, <3>4, OutputsAppend
    <3>5. ASSUME NEW p \in Panes, TmuxWrites(p)
          PROVE  \A i \in Outputs' : events'[i].pane = seed.pane => seed.n < events'[i].n
      <4> DEFINE l == Len(events) + 1
      <4>1. /\ events'[l].pane = p /\ events'[l].n = written[p] + 1
            /\ Outputs' = Outputs \cup {l}
            /\ \A i \in Outputs : events'[i] = events[i]
        BY <3>5, OutputsWrite
      <4> HIDE DEF l
      <4>2. p = seed.pane => seed.n < written[p] + 1
        BY <1>1, <1>2 DEF Seeded
      <4>3. QED
        BY <3>2, <4>1, <4>2
    <3>6. CASE Removes
      <4>1. \A i \in Outputs' : i + 1 \in Outputs /\ events'[i] = events[i + 1]
        BY <3>6, OutputsTail
      <4>2. QED
        BY <3>1, <3>2, <4>1
    <3>7. QED
      BY <3>1, <3>3, <3>4, <3>5, <3>6, EventSteps
  <2>3. QED
    BY <1>5, <2>1, <2>2, MainSteps
<1>6. Lives' # {} => mpc' \in Looping \cup {"abort", "done"}
  <2>1. CASE Lives # {}
    BY <2>1, MainSteps DEF Seeded
  <2>2. CASE Lives = {}
    <3>1. CASE Shows
      BY <3>1, LivesShow DEF Shows, LoopOutput, Looping
    <3>2. CASE ~Shows
      <4>1. UNCHANGED sent => Lives' = Lives
        BY DEF Lives, Sent
      <4>2. LoopSwitch => UNCHANGED sent
        BY DEF LoopSwitch
      <4>3. \A f \in Frame \cup Closing : f.kind # "live" /\ Adds(f) => Lives' = Lives
        BY LivesAdd DEF Adds
      <4>4. QED
        BY <2>2, <3>2, <4>1, <4>2, <4>3, MainSteps
    <3>3. QED
      BY <3>1, <3>2
  <2>3. QED
    BY <2>1, <2>2
<1>7. QED
  BY <1>4, <1>5, <1>6 DEF Seeded

(* Live output begins after the seed, and goes on without a gap or a         *)
(* repetition while the pane stays the same.                               *)
THEOREM LiveCorrect == Spec => []LiveFollows
<1> DEFINE Inv == TypeInv /\ Stream /\ Continues /\ Seeded /\ LiveFollows
<1>1. Init => Inv
  BY TypeInit, StreamInit, LiveInit
<1>2. Inv /\ [Next]_vars => Inv'
  BY TypeStep, StreamStep, ContinuesStep, SeededStep
<1>3. Inv => LiveFollows
  OBVIOUS
<1>4. QED
  BY <1>1, <1>2, <1>3, PTL DEF Spec

--------------------------------------------------------------------------------
(***************************************************************************)
(* The end.  The inbound task ends only when the browser has closed or the  *)
(* process shuts down; a driver that is going has left its Exit in the      *)
(* channel, unless that was drained; the main loop that is about to look for  *)
(* an answer has seen a token that was not cancelled, or it was cancelled    *)
(* late; so an end without a close frame has a closed browser, a drained    *)
(* Exit or a late cancel behind it.                                        *)
(***************************************************************************)
Closes == Sent("close")
ExitQueued  == \E i \in DOMAIN events : events[i].kind = "exit"
ExitDrained == \E d \in drained : d.kind = "exit"
Ending == mpc \in {"abort", "done"}

Told ==
    /\ browser = "open" => \A i \in DOMAIN inq : inq[i].kind # "close"
    /\ ipc = "done" => shutdown \/ browser = "closed" \/ mpc = "done"
    /\ driver \in {"leaving", "dead"} => ExitQueued \/ ExitDrained \/ Ending
    /\ Closes # {} => Ending
    /\ mpc = "answers" /\ shutdown => late
    /\ late => shutdown
    /\ Ending /\ browser = "open" => Closes # {} \/ ExitDrained \/ late
    /\ \A i, j \in Closes : i = j

LEMMA ToldInit == Init => Told
<1> SUFFICES ASSUME Init PROVE Told
  OBVIOUS
<1>1. Closes = {} /\ DOMAIN inq = {}
  BY DEF Init, Closes, Sent
<1>2. QED
  BY <1>1 DEF Init, Told, Ending

(* What a step does to the ends. *)
LEMMA EndSteps ==
    ASSUME TypeInv, [Next]_vars
    PROVE  /\ browser' = "open" => browser = "open"
           /\ shutdown => shutdown' /\ late' = late
           /\ \/ shutdown' = shutdown /\ late' = late
              \/ shutdown' /\ late' = (mpc = "answers") /\ mpc' = mpc
           /\ mpc' = "answers" => mpc = "answers" \/ (~shutdown' /\ ~shutdown)
           /\ drained \subseteq drained'
           /\ mpc = "done" => mpc' = "done"
           /\ Ending => Ending' /\ UNCHANGED sent
           /\ ~Ending =>
                 \/ ~Ending' /\ UNCHANGED sent
                 \/ ~Ending' /\ \E f \in Frame : sent' = Append(sent, f)
                 \/ Ending' /\ \E c \in {1001, 1011} : sent' = Append(sent, Close(c))
                 \/ Ending' /\ UNCHANGED sent
                       /\ (browser' = "closed" \/ LoopInboundGone \/ LoopEventsEnd)
<1> USE DEF tmuxVars, driverVars, mainVars, inVars, webVars, Ending
<1>1. CASE Connects \/ AsksSeed \/ MainTimesOut \/ Drains \/ Starts
  BY <1>1 DEF Connects, AsksSeed, MainTimesOut, Drains, Starts, ToClosing
<1>2. CASE ClosesWithError
  BY <1>2 DEF ClosesWithError, ToBrowser
<1>3. CASE SendsSeed
  <2> DEFINE f == [kind |-> "seed", pane |-> seed.pane, n |-> seed.n, epoch |-> 0]
  <2>1. seed.pane \in Panes /\ seed.n \in Nat
    BY <1>3 DEF SendsSeed, TypeInv, MainType
  <2>2. f \in Frame
    BY <2>1, FrameBuilt
  <2>3. /\ mpc = "captured" /\ UNCHANGED <<drained, browser, shutdown, late>>
        /\ \/ mpc' = "drain" /\ sent' = Append(sent, f)
           \/ mpc' = "done" /\ UNCHANGED sent /\ browser = "closed"
    BY <1>3 DEF SendsSeed, ToBrowser
  <2> HIDE DEF f
  <2>4. QED
    BY <2>2, <2>3
<1>4. CASE LoopShutdown
  BY <1>4 DEF LoopShutdown, ToBrowser, Leaves
<1>5. CASE LoopRuns \/ LoopAnswers \/ LoopInboundGone \/ LoopNoAnswer \/ LoopEventsEnd
           \/ LoopNoEvent \/ LoopSendFails \/ Aborts
  BY <1>5 DEF LoopRuns, LoopAnswers, LoopInboundGone, LoopNoAnswer, LoopEventsEnd, LoopNoEvent,
     LoopSendFails, Aborts, Polls, Leaves
<1>6. CASE LoopTold
  BY <1>6 DEF LoopTold, Receives, ToBrowser, Leaves
<1>7. CASE LoopOutput
  <2> DEFINE f == [kind |-> "live", pane |-> pane, n |-> Head(events).n, epoch |-> epoch]
  <2>1. /\ mpc = "events" /\ mpc' = "loop" /\ events # <<>>
        /\ UNCHANGED <<drained, browser, shutdown, late>>
    BY <1>7 DEF LoopOutput, Receives
  <2>2. Head(events) \in RealEvent
    BY <2>1, TailFacts DEF TypeInv, DriverType
  <2>3. pane \in Panes /\ Head(events).n \in Nat /\ epoch \in Nat
    BY <2>1, <2>2 DEF TypeInv, MainType, RealEvent, Event
  <2>4. f \in Frame
    BY <2>3, FrameBuilt
  <2>5. UNCHANGED sent \/ sent' = Append(sent, f)
    BY <1>7 DEF LoopOutput, ToBrowser
  <2> HIDE DEF f
  <2>6. QED
    BY <2>1, <2>4, <2>5
<1>8. CASE LoopSwitch
  BY <1>8 DEF LoopSwitch, Receives
<1>9. CASE InboundTask
  BY <1>9 DEF InboundTask, InboundStops, InboundTakes, InboundSends, InboundRefused,
     InboundTimesOut, InboundAnswers
<1>10. ASSUME NEW what, Runs(what), Awaited("main") PROVE mpc = what
  BY <1>10, RunsFacts DEF Awaited, TypeInv, Asked
<1>11. CASE TmuxDisplays
  BY <1>10, <1>11, RunsFacts DEF TmuxDisplays, ToClosing
<1>12. CASE TmuxCaptures
  BY <1>10, <1>12, RunsFacts DEF TmuxCaptures, ToClosing
<1>13. CASE TmuxTakesInput \/ TmuxScrolls
  BY <1>13, RunsFacts DEF TmuxTakesInput, TmuxScrolls
<1>14. ASSUME NEW p \in Panes, TmuxWrites(p) \/ TmuxSwitches(p)
       PROVE  UNCHANGED <<mainVars, webVars>>
  BY <1>14 DEF TmuxWrites, TmuxSwitches
<1>15. CASE TmuxDetaches \/ BrowserSends \/ BrowserCloses \/ ShutsDown \/ UNCHANGED vars
  BY <1>15 DEF TmuxDetaches, BrowserSends, BrowserCloses, ShutsDown, vars
<1>16. CASE TmuxExits \/ DriverEnds
  BY <1>16 DEF TmuxExits, DriverEnds, DriverFails
<1>17. QED
  BY <1>1, <1>2, <1>3, <1>4, <1>5, <1>6, <1>7, <1>8, <1>9, <1>11, <1>12, <1>13, <1>14,
     <1>15, <1>16 DEF Next, Setup, Loop, Tmux

LEMMA TaskSteps ==
    ASSUME TypeInv, [Next]_vars
    PROVE  /\ ipc' = "done" => ipc = "done" \/ InboundStops \/ Aborts
           /\ driver' \in {"leaving", "dead"} =>
                 \/ driver \in {"leaving", "dead"}
                 \/ events' = Append(events, Ev("exit", None, 0))
           /\ \/ UNCHANGED inq
              \/ inq # <<>> /\ inq' = Tail(inq)
              \/ \E k \in {"input", "scroll"}, n \in Nat :
                    inq' = Append(inq, [kind |-> k, n |-> n])
              \/ browser' = "closed"
<1> USE DEF tmuxVars, driverVars, mainVars, inVars, webVars
<1>1. \A k : AfterReply(k) # "done"
  BY BuiltTypes
<1>2. CASE Connects \/ AsksSeed \/ MainTimesOut \/ Drains \/ Starts \/ ClosesWithError
           \/ SendsSeed
  BY <1>2 DEF Connects, AsksSeed, MainTimesOut, Drains, Starts, ClosesWithError, SendsSeed
<1>3. CASE Loop
  BY <1>3 DEF Loop, LoopShutdown, LoopRuns, LoopAnswers, LoopInboundGone, LoopNoAnswer,
     LoopOutput, LoopSwitch, LoopTold, LoopEventsEnd, LoopNoEvent, LoopSendFails, Aborts,
     Receives, Polls
<1>4. CASE InboundTask
  BY <1>1, <1>4 DEF InboundTask, InboundStops, InboundTakes, InboundSends, InboundRefused,
     InboundTimesOut, InboundAnswers
<1>5. CASE TmuxDisplays \/ TmuxCaptures
  BY <1>5, RunsFacts DEF TmuxDisplays, TmuxCaptures
<1>6. CASE TmuxTakesInput \/ TmuxScrolls
  BY <1>1, <1>6, RunsFacts DEF TmuxTakesInput, TmuxScrolls, Replies
<1>7. ASSUME NEW p \in Panes, TmuxWrites(p) \/ TmuxSwitches(p)
      PROVE  UNCHANGED <<driver, inVars, webVars>>
  BY <1>7 DEF TmuxWrites, TmuxSwitches
<1>8. CASE TmuxDetaches \/ BrowserCloses \/ ShutsDown \/ UNCHANGED vars
  BY <1>8 DEF TmuxDetaches, BrowserCloses, ShutsDown, vars
<1>9. CASE BrowserSends
  <2>1. frames + 1 \in Nat
    BY PaneSessionAssumption DEF TypeInv, WebType
  <2>2. QED
    BY <1>9, <2>1 DEF BrowserSends
<1>10. CASE TmuxExits \/ DriverEnds
  BY <1>1, <1>10 DEF TmuxExits, DriverEnds, DriverFails
<1>11. QED
  BY <1>2, <1>3, <1>4, <1>5, <1>6, <1>7, <1>8, <1>9, <1>10 DEF Next, Setup, Tmux

LEMMA ClosesAppend ==
    ASSUME TypeInv, NEW f \in Frame \cup Closing, sent' = Append(sent, f)
    PROVE  /\ f.kind # "close" => Closes' = Closes
           /\ f.kind = "close" => Closes' = Closes \cup {Len(sent) + 1}
<1>1. sent \in Seq(Frame \cup Closing)
  BY DEF TypeInv, MainType
<1>2. /\ DOMAIN sent = 1..Len(sent) /\ DOMAIN sent' = 1..Len(sent) + 1
      /\ \A i \in 1..Len(sent) : sent'[i] = sent[i]
      /\ sent'[Len(sent) + 1] = f /\ Len(sent) \in Nat
  BY <1>1, AppendFacts
<1>3. QED
  BY <1>2 DEF Closes, Sent

LEMMA ToldStep == TypeInv /\ Told /\ [Next]_vars => Told'
<1> SUFFICES ASSUME TypeInv, Told, [Next]_vars PROVE Told'
  OBVIOUS
<1>1. browser \in {"open", "closed"} /\ browser' \in {"open", "closed"}
  BY TypeStep DEF TypeInv, WebType
<1>2. browser' = "open" => \A i \in DOMAIN inq' : inq'[i].kind # "close"
  <2> SUFFICES ASSUME browser' = "open" PROVE \A i \in DOMAIN inq' : inq'[i].kind # "close"
    OBVIOUS
  <2>1. inq \in Seq(RealFrame) /\ \A i \in DOMAIN inq : inq[i].kind # "close"
    BY EndSteps DEF Told, TypeInv, WebType
  <2>2. CASE inq # <<>> /\ inq' = Tail(inq)
    <3>1. \A i \in DOMAIN inq' : i + 1 \in DOMAIN inq /\ inq'[i] = inq[i + 1]
      BY <2>1, <2>2, TailFacts
    <3>2. QED
      BY <2>1, <3>1
  <2>3. ASSUME NEW k \in {"input", "scroll"}, NEW n \in Nat,
               inq' = Append(inq, [kind |-> k, n |-> n])
        PROVE  \A i \in DOMAIN inq' : inq'[i].kind # "close"
    <3> DEFINE f == [kind |-> k, n |-> n]
    <3>1. f \in Inbound /\ f.kind # "close"
      BY DEF Inbound
    <3>2. inq \in Seq(Inbound) /\ inq' = Append(inq, f)
      BY <2>1, <2>3, SeqWithin DEF RealFrame
    <3> HIDE DEF f
    <3>3. \A i \in DOMAIN inq' : inq'[i] = f \/ (i \in DOMAIN inq /\ inq'[i] = inq[i])
      BY <3>1, <3>2, AppendFacts
    <3>4. QED
      BY <2>1, <3>1, <3>3
  <2>4. QED
    BY <2>1, <2>2, <2>3, TaskSteps
<1>3. ipc' = "done" => shutdown' \/ browser' = "closed" \/ mpc' = "done"
  <2>1. CASE InboundStops
    <3>1. inq # <<>> => Head(inq) = inq[1] /\ 1 \in DOMAIN inq
      BY TailFacts DEF TypeInv, WebType
    <3>2. shutdown \/ browser = "closed"
      BY <1>1, <2>1, <3>1 DEF InboundStops, Told
    <3>3. QED
      BY <1>1, <3>2, EndSteps
  <2>2. CASE Aborts
    BY <2>2 DEF Aborts
  <2>3. CASE ipc = "done"
    BY <1>1, <2>3, EndSteps DEF Told
  <2>4. QED
    BY <2>1, <2>2, <2>3, TaskSteps
<1>4. driver' \in {"leaving", "dead"} => ExitQueued' \/ ExitDrained' \/ Ending'
  <2>1. events \in Seq(RealEvent)
    BY DEF TypeInv, DriverType
  <2>2. ASSUME NEW e \in RealEvent, events' = Append(events, e)
        PROVE  ExitQueued \/ e.kind = "exit" => ExitQueued'
    <3>1. /\ Len(events) + 1 \in DOMAIN events' /\ events'[Len(events) + 1] = e
          /\ \A i \in DOMAIN events : i \in DOMAIN events' /\ events'[i] = events[i]
      BY <2>1, <2>2, AppendFacts
    <3>2. QED
      BY <3>1 DEF ExitQueued
  <2>3. CASE events' = Append(events, Ev("exit", None, 0))
    BY <2>2, <2>3, BuiltTypes, EvFields
  <2>4. CASE driver \in {"leaving", "dead"}
    <3>1. ExitQueued \/ ExitDrained \/ Ending
      BY <2>4 DEF Told
    <3>2. CASE ExitDrained \/ Ending
      BY <3>2, EndSteps DEF ExitDrained
    <3>3. CASE ExitQueued
      <4>1. CASE UNCHANGED <<events, written>>
        BY <3>3, <4>1 DEF ExitQueued
      <4>2. ASSUME NEW e \in RealEvent, Appends(e) PROVE ExitQueued'
        BY <2>2, <3>3, <4>2 DEF Appends
      <4>3. ASSUME NEW p \in Panes, TmuxWrites(p) PROVE ExitQueued'
        <5>1. written[p] + 1 \in Nat
          BY OutputsType
        <5>2. Ev("output", p, written[p] + 1) \in RealEvent
          BY <5>1, BuiltTypes
        <5>3. QED
          BY <2>2, <3>3, <4>3, <5>2 DEF TmuxWrites
      <4>4. CASE Removes /\ (Drains \/ LoopOutput \/ LoopSwitch \/ LoopTold)
        <5>1. PICK i \in DOMAIN events : events[i].kind = "exit"
          BY <3>3 DEF ExitQueued
        <5>2. /\ Head(events) = events[1] /\ DOMAIN events = 1..Len(events) /\ Len(events) \in Nat
              /\ DOMAIN events' = 1..Len(events) - 1
              /\ \A k \in 1..Len(events) - 1 : events'[k] = events[k + 1]
          BY <2>1, <4>4, TailFacts DEF Removes
        <5>3. CASE i # 1
          <6>1. i - 1 \in DOMAIN events' /\ events'[i - 1] = events[i]
            <7>1. i - 1 \in 1..Len(events) - 1 /\ (i - 1) + 1 = i
              BY <5>2, <5>3
            <7>2. QED
              BY <5>2, <7>1
          <6>2. QED
            BY <5>1, <6>1 DEF ExitQueued
        <5>4. CASE i = 1
          <6>1. Head(events).kind = "exit"
            BY <5>1, <5>2, <5>4
          <6>2. Drains \/ LoopTold
            BY <4>4, <6>1 DEF LoopOutput, LoopSwitch, Receives
          <6>3. CASE Drains
            BY <6>1, <6>3 DEF Drains, ExitDrained
          <6>4. CASE LoopTold
            BY <6>4 DEF LoopTold, Leaves, Ending
          <6>5. QED
            BY <6>2, <6>3, <6>4
        <5>5. QED
          BY <5>3, <5>4
      <4>5. QED
        BY <4>1, <4>2, <4>3, <4>4, EventSteps
    <3>4. QED
      BY <3>1, <3>2, <3>3
  <2>5. QED
    BY <2>3, <2>4, TaskSteps
<1>5. UNCHANGED sent => Closes' = Closes
  BY DEF Closes, Sent
<1>6. \A f \in Frame : f \in Frame \cup Closing /\ f.kind # "close"
  BY DEF Frame
<1>12. /\ mpc' = "answers" /\ shutdown' => late'
       /\ late' => shutdown'
       /\ late => late'
  BY EndSteps, TypeStep DEF Told, TypeInv, WebType
<1>7. CASE Ending
  <2>1. Ending' /\ Closes' = Closes
    BY <1>5, <1>7, EndSteps
  <2>2. browser' = "open" => Closes # {} \/ ExitDrained' \/ late'
    BY <1>7, <1>12, EndSteps DEF Told, ExitDrained
  <2>3. QED
    BY <1>2, <1>3, <1>4, <1>12, <2>1, <2>2 DEF Told
<1>8. CASE ~Ending /\ ~Ending'
  <2>1. Closes' = Closes
    BY <1>5, <1>6, <1>8, ClosesAppend, EndSteps
  <2>2. QED
    BY <1>2, <1>3, <1>4, <1>8, <1>12, <2>1 DEF Told
<1>9. ASSUME ~Ending, Ending', NEW c \in {1001, 1011}, sent' = Append(sent, Close(c))
      PROVE  Told'
  <2>1. Closes = {} /\ Close(c) \in Frame \cup Closing /\ Close(c).kind = "close"
    BY <1>9, BuiltTypes DEF Told
  <2>2. Closes' = {Len(sent) + 1}
    BY <1>9, <2>1, ClosesAppend
  <2>3. QED
    BY <1>2, <1>3, <1>4, <1>9, <1>12, <2>2 DEF Told
<1>10. CASE ~Ending /\ Ending' /\ UNCHANGED sent
            /\ (browser' = "closed" \/ LoopInboundGone \/ LoopEventsEnd)
  <2>1. Closes' = {}
    BY <1>5, <1>10 DEF Told
  <2>2. browser' = "open" => ExitDrained' \/ late'
    <3>1. CASE LoopInboundGone
      <4>1. ipc = "done" /\ mpc = "answers" /\ UNCHANGED <<browser, late>>
        BY <3>1 DEF LoopInboundGone, NoSender, webVars
      <4>2. QED
        BY <1>1, <4>1 DEF Told
    <3>2. CASE LoopEventsEnd
      <4>1. events = <<>> /\ driver = "dead" /\ drained' = drained
        BY <3>2 DEF LoopEventsEnd, Polls
      <4>2. ~ExitQueued
        BY <4>1 DEF ExitQueued
      <4>3. QED
        BY <1>10, <4>1, <4>2 DEF Told, ExitDrained
    <3>3. QED
      BY <1>1, <1>10, <3>1, <3>2
  <2>3. QED
    BY <1>2, <1>3, <1>4, <1>10, <1>12, <2>1, <2>2 DEF Told
<1>11. QED
  BY <1>7, <1>8, <1>9, <1>10, EndSteps

(* A session that ends by itself sends one close frame, unless the Exit was  *)
(* lost in the drain or the process was told to stop between two polls of    *)
(* the main loop.                                                          *)
THEOREM EndCorrect == Spec => []EndIsAnnounced
<1>1. Init => TypeInv /\ Told
  BY TypeInit, ToldInit
<1>2. TypeInv /\ Told /\ [Next]_vars => (TypeInv /\ Told)'
  BY TypeStep, ToldStep
<1>3. Told => EndIsAnnounced
  <2> SUFFICES ASSUME Told PROVE EndIsAnnounced
    OBVIOUS
  <2>1. Cardinality(Closes) <= 1
    <3>1. CASE Closes = {}
      BY <3>1, FS_EmptySet
    <3>2. ASSUME NEW i \in Closes PROVE Cardinality(Closes) <= 1
      <4>1. Closes = {i}
        BY <3>2 DEF Told
      <4>2. QED
        BY <4>1, FS_Singleton
    <3>3. QED
      BY <3>1, <3>2
  <2>2. QED
    BY <2>1 DEF Told, EndIsAnnounced, Closes, Ending, ExitDrained
<1>4. QED
  BY <1>1, <1>2, <1>3, PTL DEF Spec
================================================================================
