----------------------------- MODULE DashboardProofs ----------------------------
(***************************************************************************)
(* What holds of every dashboard connection, whatever the sessions, the     *)
(* capacity of the channel and the bounds: its type, that no poller is left *)
(* behind, and when a row shows what its poller believes it shows.          *)
(***************************************************************************)
EXTENDS Dashboard, TLAPS

(***************************************************************************)
(* The type.  A session is given a new poller only when it has been missed  *)
(* by a listing, or by a server, since the last one: this bounds gen.  While *)
(* a listing is under way its answer may be of a server that is gone, which  *)
(* has cost a flap of its own.                                             *)
(***************************************************************************)
Counted ==
    \A s \in Sessions :
        /\ gen[s] <= flaps + 1
        /\ s \notin used => gen[s] <= flaps
        /\ dpc # "done" /\ s \in alive \ held => gen[s] <= flaps
        /\ s \in held => gen[s] > 0 /\ dpc \in {"loop", "listing"}

CountedFound ==
    dpc = "listing" =>
        \A s \in Sessions :
            /\ s \in found \ held => gen[s] <= flaps /\ (s \notin used => gen[s] < flaps)
            /\ s \in alive \ found => gen[s] <= flaps

TypeInv == TypeOK /\ Counted /\ CountedFound

LEMMA PollerFacts ==
    /\ \A p \in Pollers : Ses(p) \in Sessions /\ p[2] \in 1..MaxFlaps + 1
                          /\ p = <<Ses(p), p[2]>>
    /\ \A s \in Sessions, k \in 1..MaxFlaps + 1 :
          <<s, k>> \in Pollers /\ Ses(<<s, k>>) = s /\ <<s, k>>[2] = k
BY DEF Pollers, Ses

LEMMA BlankPaneType == BlankPane \in Pane
<1>1. PICK c \in Others, t \in Screens : TRUE
  BY DashboardAssumption
<1>2. [cmd |-> c, screen |-> t] \in Pane /\ [cmd |-> c, screen |-> t].cmd \in Others
  BY DEF Pane, Commands
<1>3. \E p \in Pane : p.cmd \in Others
  BY <1>2
<1>4. QED
  BY <1>3 DEF BlankPane

LEMMA TypeInit == Init => TypeInv
<1> SUFFICES ASSUME Init PROVE TypeInv
  OBVIOUS
<1>1. TypeOK
  <2>1. /\ seen \in [Pollers -> Pane] /\ last \in [Pollers -> Statuses \cup {None}]
        /\ errors \in [Pollers -> 0..ErrorThreshold + 1]
        /\ backedOff \in [Pollers -> BOOLEAN]
        /\ ppc \in [Pollers -> {"none", "sleep", "asked", "captured", "done"}]
    BY BlankPaneType, DashboardAssumption DEF Init
  <2>2. /\ gen \in [Sessions -> 0..MaxFlaps + 1] /\ rows \in [Sessions -> Row \cup {NoRow}]
        /\ changes \in 0..MaxChanges /\ fails \in 0..MaxFails /\ flaps \in 0..MaxFlaps
    BY DashboardAssumption DEF Init
  <2>3. events \in Seq(Event) /\ Len(events) <= EventCap
    BY DashboardAssumption DEF Init
  <2>4. QED
    BY <2>1, <2>2, <2>3 DEF Init, TypeOK
<1>2. Counted
  BY <1>1, DashboardAssumption DEF Init, Counted, TypeOK
<1>3. QED
  BY <1>1, <1>2 DEF TypeInv, Init, CountedFound

(* What the task sends is an event, and the channel keeps to its capacity.  *)
LEMMA TrySendType ==
    ASSUME TypeOK, NEW p \in Pollers, NEW w \in Statuses \cup {"error"}, TrySend(p, w)
    PROVE  events' \in Seq(Event) /\ Len(events') <= EventCap
<1>1. Ses(p) \in Sessions
  BY PollerFacts
<1>2. [session |-> Ses(p), what |-> w] \in Event
  BY <1>1 DEF Event
<1>3. events \in Seq(Event) /\ Len(events) <= EventCap /\ EventCap \in Nat
  BY DashboardAssumption DEF TypeOK
<1>4. CASE Len(events) < EventCap
  <2> DEFINE e == [session |-> Ses(p), what |-> w]
  <2>1. e \in Event
    BY <1>2
  <2>2. events' = Append(events, e) \/ events' = events
    BY DEF TrySend
  <2> HIDE DEF e
  <2>3. QED
    BY <1>3, <1>4, <2>1, <2>2
<1>5. CASE ~ (Len(events) < EventCap)
  BY <1>3, <1>5 DEF TrySend
<1>6. QED
  BY <1>4, <1>5

LEMMA MatchType ==
    ASSUME NEW s \in Pane PROVE MatchStatus(s.cmd, s.screen) \in Statuses
BY DEF MatchStatus, Statuses, Pane

LEMMA PollerType == TypeInv /\ (\E p \in Pollers : Poller(p)) => TypeInv'
<1> SUFFICES ASSUME TypeInv, NEW p \in Pollers, Poller(p) PROVE TypeInv'
  OBVIOUS
<1> USE DEF tmuxVars, dashVars, endVars
<1>1. UNCHANGED <<alive, used, changes, flaps, dashVars, endVars, rows, pane>>
  BY DEF Poller, PollerStops, PollerAsks, PollerCaptures, PollerReports, PollerFails
<1>2. Counted' /\ CountedFound'
  BY <1>1 DEF TypeInv, Counted, CountedFound
<1>3. TypeOK'
  <2>1. CASE PollerStops(p)
    BY <2>1 DEF TypeInv, TypeOK, PollerStops
  <2>2. CASE PollerAsks(p)
    <3>1. pane[Ses(p)].cmd \in Commands
      BY PollerFacts DEF TypeInv, TypeOK, Pane
    <3>2. [seen EXCEPT ![p].cmd = pane[Ses(p)].cmd] \in [Pollers -> Pane]
      BY <3>1 DEF TypeInv, TypeOK, Pane
    <3>3. QED
      BY <2>2, <3>2 DEF TypeInv, TypeOK, PollerAsks
  <2>3. CASE PollerCaptures(p)
    <3>1. pane[Ses(p)].screen \in Screens
      BY PollerFacts DEF TypeInv, TypeOK, Pane
    <3>2. [seen EXCEPT ![p].screen = pane[Ses(p)].screen] \in [Pollers -> Pane]
      BY <3>1 DEF TypeInv, TypeOK, Pane
    <3>3. QED
      BY <2>3, <3>2 DEF TypeInv, TypeOK, PollerCaptures
  <2>4. CASE PollerReports(p)
    <3> DEFINE w == MatchStatus(seen[p].cmd, seen[p].screen)
    <3>1. w \in Statuses
      BY MatchType DEF TypeInv, TypeOK
    <3>2. \/ TrySend(p, w) /\ last' = [last EXCEPT ![p] = w]
          \/ UNCHANGED <<events, last>>
      BY <2>4 DEF PollerReports
    <3> HIDE DEF w
    <3>3. events' \in Seq(Event) /\ Len(events') <= EventCap
      BY <3>1, <3>2, TrySendType DEF TypeInv, TypeOK
    <3>4. last' \in [Pollers -> Statuses \cup {None}]
      BY <3>1, <3>2 DEF TypeInv, TypeOK
    <3>5. /\ ppc' = [ppc EXCEPT ![p] = "sleep"] /\ errors' = [errors EXCEPT ![p] = 0]
          /\ backedOff' = [backedOff EXCEPT ![p] = FALSE]
          /\ UNCHANGED <<tmuxVars, dashVars, seen, rows, endVars>>
      BY <2>4 DEF PollerReports
    <3>6. errors' \in [Pollers -> 0..ErrorThreshold + 1]
      BY <3>5, DashboardAssumption DEF TypeInv, TypeOK
    <3>7. QED
      BY <3>3, <3>4, <3>5, <3>6 DEF TypeInv, TypeOK
  <2>5. CASE PollerFails(p)
    <3>1. events' \in Seq(Event) /\ Len(events') <= EventCap
      BY <2>5, TrySendType DEF TypeInv, TypeOK, PollerFails
    <3>2. fails' \in 0..MaxFails
      BY <2>5, DashboardAssumption DEF TypeInv, TypeOK, PollerFails
    <3>3. errors' \in [Pollers -> 0..ErrorThreshold + 1]
      BY <2>5, DashboardAssumption DEF TypeInv, TypeOK, PollerFails
    <3>4. last' \in [Pollers -> Statuses \cup {None}] /\ backedOff' \in [Pollers -> BOOLEAN]
      BY <2>5 DEF TypeInv, TypeOK, PollerFails
    <3>5. QED
      BY <2>5, <3>1, <3>2, <3>3, <3>4 DEF TypeInv, TypeOK, PollerFails
  <2>6. QED
    BY <2>1, <2>2, <2>3, <2>4, <2>5 DEF Poller
<1>4. QED
  BY <1>2, <1>3 DEF TypeInv

(* What a change of the listing keeps, the first one included.              *)
LEMMA SpawnType ==
    ASSUME TypeInv, NEW S \in SUBSET Sessions, NEW T \in SUBSET held, Spawn(S, T),
           \A s \in S : gen[s] <= flaps
    PROVE  /\ gen' \in [Sessions -> 0..MaxFlaps + 1]
           /\ ppc' \in [Pollers -> {"none", "sleep", "asked", "captured", "done"}]
           /\ stopped' \subseteq Pollers
<1>1. /\ gen \in [Sessions -> 0..MaxFlaps + 1] /\ flaps \in 0..MaxFlaps
      /\ MaxFlaps \in Nat /\ held \subseteq Sessions
  BY DashboardAssumption DEF TypeInv, TypeOK
<1>2. \A s \in held : gen[s] \in 1..MaxFlaps + 1
  BY <1>1 DEF TypeInv, Counted
<1>3. \A s \in T : Current(s) \in Pollers
  BY <1>1, <1>2, PollerFacts DEF Current
<1>4. \A s \in S : gen[s] + 1 \in 0..MaxFlaps + 1
  BY <1>1
<1>5. QED
  BY <1>1, <1>3, <1>4 DEF Spawn, TypeInv, TypeOK

LEMMA RenderedType ==
    ASSUME TypeOK, NEW now \in SUBSET Sessions
    PROVE  Rendered(now) \in [Sessions -> Row \cup {NoRow}]
<1>1. [status |-> "unknown", marked |-> FALSE] \in Row
  BY DEF Row, Statuses
<1>2. QED
  BY <1>1 DEF TypeOK, Rendered

LEMMA DashType == TypeInv /\ Dash => TypeInv'
<1> SUFFICES ASSUME TypeInv, Dash PROVE TypeInv'
  OBVIOUS
<1> USE DEF tmuxVars, dashVars, pollVars, endVars
<1>1. CASE DashStarts
  <2>1. UNCHANGED <<alive, used, flaps, found, pane, changes, fails, seen, last, errors,
                    backedOff, events, socket, shutdown>> /\ dpc = "start"
    BY <1>1 DEF DashStarts
  <2>2. CASE socket = "open"
    <3>1. PICK now \in {alive, {}} :
               Spawn(now, {}) /\ held' = now /\ listed' = now
               /\ rows' = Rendered(now) /\ dpc' = "loop"
      BY <1>1, <2>2 DEF DashStarts
    <3>2. now \in SUBSET Sessions /\ held = {}
      BY <2>1, <3>1 DEF TypeInv, TypeOK, Counted
    <3>3. \A s \in now : gen[s] <= flaps
      BY <2>1, <3>1, <3>2 DEF TypeInv, Counted
    <3>4. /\ gen' \in [Sessions -> 0..MaxFlaps + 1]
          /\ ppc' \in [Pollers -> {"none", "sleep", "asked", "captured", "done"}]
          /\ stopped' \subseteq Pollers
      BY <3>1, <3>2, <3>3, SpawnType
    <3>5. TypeOK'
      BY <2>1, <3>1, <3>2, <3>4, RenderedType DEF TypeInv, TypeOK
    <3>6. \A s \in Sessions : gen'[s] = IF s \in now THEN gen[s] + 1 ELSE gen[s]
      BY <3>1 DEF Spawn
    <3>7. Counted'
      BY <2>1, <3>1, <3>2, <3>3, <3>6 DEF TypeInv, TypeOK, Counted
    <3>8. QED
      BY <3>1, <3>5, <3>7 DEF TypeInv, CountedFound
  <2>3. CASE socket # "open"
    <3>1. dpc' = "done" /\ UNCHANGED <<held, listed, rows, stopped, gen, ppc>>
      BY <1>1, <2>3 DEF DashStarts
    <3>2. QED
      BY <2>1, <3>1 DEF TypeInv, TypeOK, Counted, CountedFound
  <2>4. QED
    BY <2>2, <2>3
<1>2. CASE DashTicks
  <2>1. /\ UNCHANGED <<alive, used, flaps, found, pane, changes, fails, seen, last, errors,
                       backedOff, events, socket, shutdown>>
        /\ dpc = "listing" /\ dpc' = "loop"
        /\ Spawn(found \ held, held \ found)
        /\ held' = found /\ listed' = found /\ rows' = Rendered(found)
    BY <1>2 DEF DashTicks, Reconciles
  <2>2. /\ found \in SUBSET Sessions /\ held \in SUBSET Sessions
        /\ flaps \in Nat /\ gen \in [Sessions -> Nat] /\ alive \subseteq used
    BY DashboardAssumption DEF TypeInv, TypeOK
  <2>3. \A s \in found \ held : gen[s] <= flaps /\ (s \notin used => gen[s] < flaps)
    BY <2>1, <2>2 DEF TypeInv, CountedFound
  <2>4. /\ gen' \in [Sessions -> 0..MaxFlaps + 1]
        /\ ppc' \in [Pollers -> {"none", "sleep", "asked", "captured", "done"}]
        /\ stopped' \subseteq Pollers
    BY <2>1, <2>2, <2>3, SpawnType
  <2>5. TypeOK'
    BY <2>1, <2>2, <2>4, RenderedType DEF TypeInv, TypeOK
  <2>6. \A s \in Sessions : gen'[s] = IF s \in found \ held THEN gen[s] + 1 ELSE gen[s]
    BY <2>1 DEF Spawn
  <2>7. ASSUME NEW s \in Sessions
        PROVE  /\ gen'[s] <= flaps + 1
               /\ s \notin used => gen'[s] <= flaps
               /\ s \in alive \ found => gen'[s] <= flaps
               /\ s \in found => gen'[s] > 0
    <3>1. CASE s \in found \ held
      BY <2>2, <2>3, <2>6, <3>1
    <3>2. CASE s \notin found \ held
      <4>1. gen'[s] = gen[s] /\ (s \in found => s \in held)
        BY <2>6, <3>2
      <4>2. QED
        BY <2>1, <4>1 DEF TypeInv, Counted, CountedFound
    <3>3. QED
      BY <3>1, <3>2
  <2>8. Counted'
    BY <2>1, <2>7 DEF Counted
  <2>9. QED
    BY <2>1, <2>5, <2>8 DEF TypeInv, CountedFound
<1>6. CASE DashLists
  <2>1. PICK now \in SUBSET Sessions : Lists(now) /\ found' = now
    BY <1>6 DEF DashLists
  <2>2. /\ dpc = "loop" /\ dpc' = "listing"
        /\ UNCHANGED <<alive, used, pane, changes, fails, listed, held, gen, stopped,
                       pollVars, events, rows, endVars>>
    BY <1>6 DEF DashLists
  <2>3. /\ flaps \in Nat /\ flaps' \in 0..MaxFlaps /\ flaps <= flaps'
        /\ now \subseteq alive /\ (now = alive \/ flaps' = flaps + 1)
    BY <2>1, DashboardAssumption DEF Lists, TypeInv, TypeOK
  <2>4. gen \in [Sessions -> Nat] /\ alive \subseteq used
    BY DEF TypeInv, TypeOK
  <2>5. TypeOK'
    BY <2>1, <2>2, <2>3 DEF TypeInv, TypeOK
  <2>6. Counted'
    BY <2>2, <2>3, <2>4 DEF TypeInv, Counted
  <2>7. CountedFound'
    BY <2>1, <2>2, <2>3, <2>4 DEF TypeInv, Counted, CountedFound
  <2>8. QED
    BY <2>5, <2>6, <2>7 DEF TypeInv
<1>3. CASE DashForwards
  <2>1. UNCHANGED <<alive, used, flaps, found, dpc, gen, held>>
    BY <1>3 DEF DashForwards
  <2>2. events' \in Seq(Event) /\ Len(events') <= EventCap /\ Head(events) \in Event
    BY <1>3, DashboardAssumption DEF TypeInv, TypeOK, DashForwards
  <2>3. rows' \in [Sessions -> Row \cup {NoRow}]
    <3> DEFINE ev == Head(events)
    <3>1. ev.session \in Sessions /\ ev.what \in Statuses \cup {"error"}
      BY <2>2 DEF Event
    <3> HIDE DEF ev
    <3>2. rows' = RowAfter(ev) /\ rows \in [Sessions -> Row \cup {NoRow}]
      BY <1>3 DEF DashForwards, TypeInv, TypeOK, ev
    <3>3. CASE rows[ev.session] = NoRow
      BY <3>2, <3>3 DEF RowAfter
    <3>4. CASE rows[ev.session] # NoRow
      <4>1. rows[ev.session] \in Row
        BY <3>1, <3>2, <3>4
      <4>2. /\ [rows[ev.session] EXCEPT !.marked = TRUE] \in Row
            /\ ev.what # "error" => [rows[ev.session] EXCEPT !.status = ev.what] \in Row
        BY <3>1, <4>1 DEF Row
      <4>3. QED
        BY <3>1, <3>2, <3>4, <4>2 DEF RowAfter
    <3>5. QED
      BY <3>3, <3>4
  <2>4. QED
    BY <1>3, <2>1, <2>2, <2>3 DEF TypeInv, TypeOK, Counted, CountedFound, DashForwards
<1>4. CASE DashEnds
  <2>1. \A s \in held : Current(s) \in Pollers
    BY PollerFacts, DashboardAssumption DEF Current, TypeInv, TypeOK, Counted
  <2>2. QED
    BY <1>4, <2>1, DashboardAssumption DEF TypeInv, TypeOK, Counted, CountedFound, DashEnds
<1>5. QED
  BY <1>1, <1>2, <1>3, <1>4, <1>6 DEF Dash

LEMMA OutsideType ==
    ASSUME TypeInv,
           \/ \E s \in Sessions : SessionStarts(s) \/ SessionEnds(s) \/ PaneChanges(s)
           \/ ServerRestarts \/ Closes \/ ShutsDown
    PROVE  TypeInv'
<1> USE DEF tmuxVars, dashVars, pollVars, endVars
<1>1. CASE \E s \in Sessions : SessionStarts(s)
  BY <1>1 DEF TypeInv, TypeOK, Counted, CountedFound, SessionStarts
<1>2. CASE \E s \in Sessions : SessionEnds(s)
  BY <1>2 DEF TypeInv, TypeOK, Counted, CountedFound, SessionEnds
<1>3. ASSUME NEW s \in Sessions, PaneChanges(s) PROVE TypeInv'
  <2>1. pane' \in [Sessions -> Pane]
    BY <1>3 DEF TypeInv, TypeOK, PaneChanges
  <2>2. changes' \in 0..MaxChanges
    BY <1>3, DashboardAssumption DEF TypeInv, TypeOK, PaneChanges
  <2>3. QED
    BY <1>3, <2>1, <2>2 DEF TypeInv, TypeOK, Counted, CountedFound, PaneChanges
<1>4. CASE ServerRestarts
  <2>1. flaps' = flaps + 1 /\ flaps' \in 0..MaxFlaps /\ flaps \in Nat
    BY <1>4, DashboardAssumption DEF TypeInv, TypeOK, ServerRestarts
  <2>2. Counted' /\ CountedFound'
    BY <1>4, <2>1 DEF TypeInv, TypeOK, Counted, CountedFound, ServerRestarts
  <2>3. QED
    BY <1>4, <2>1, <2>2 DEF TypeInv, TypeOK, ServerRestarts
<1>5. CASE Closes
  BY <1>5 DEF TypeInv, TypeOK, Counted, CountedFound, Closes
<1>6. CASE ShutsDown
  BY <1>6 DEF TypeInv, TypeOK, Counted, CountedFound, ShutsDown
<1>7. QED
  BY <1>1, <1>2, <1>3, <1>4, <1>5, <1>6

LEMMA TypeStep == TypeInv /\ [Next]_vars => TypeInv'
<1> SUFFICES ASSUME TypeInv, [Next]_vars PROVE TypeInv'
  OBVIOUS
<1>1. CASE \E p \in Pollers : Poller(p)
  BY <1>1, PollerType
<1>2. CASE Dash
  BY <1>2, DashType
<1>3. CASE \/ \E s \in Sessions : SessionStarts(s) \/ SessionEnds(s) \/ PaneChanges(s)
           \/ ServerRestarts \/ Closes \/ ShutsDown
  BY <1>3, OutsideType
<1>4. CASE UNCHANGED vars
  BY <1>4 DEF vars, tmuxVars, dashVars, pollVars, endVars, TypeInv, TypeOK, Counted,
                 CountedFound
<1>5. QED
  BY <1>1, <1>2, <1>3, <1>4 DEF Next

LEMMA TypeAlways == Spec => []TypeInv
<1>1. QED
  BY TypeInit, TypeStep, PTL DEF Spec

(* Every variable keeps to its type, and the pollers of a session are as    *)
(* many as the times it was found anew, at most one more than the times a   *)
(* listing or a server missed it.                                          *)
THEOREM TypeCorrect == Spec => []TypeOK
<1>1. TypeInv => TypeOK
  BY DEF TypeInv
<1>2. QED
  BY <1>1, TypeAlways, PTL

(***************************************************************************)
(* No poller is left behind: NoPollerLeak is inductive.                     *)
(***************************************************************************)
LEMMA LeakPoller ==
    ASSUME TypeInv, NoPollerLeak, \E p \in Pollers : Poller(p) PROVE NoPollerLeak'
<1>1. PICK p \in Pollers : Poller(p)
  OBVIOUS
<1> USE DEF tmuxVars, dashVars, endVars
<1>2. UNCHANGED <<dpc, held, gen, stopped>>
  BY <1>1 DEF Poller, PollerStops, PollerAsks, PollerCaptures, PollerReports, PollerFails
<1>3. \E w \in {"sleep", "asked", "captured", "done"} : ppc' = [ppc EXCEPT ![p] = w]
  BY <1>1 DEF Poller, PollerStops, PollerAsks, PollerCaptures, PollerReports, PollerFails
<1>4. ppc[p] \notin {"none", "done"}
  BY <1>1 DEF Poller, PollerStops, PollerAsks, PollerCaptures, PollerReports, PollerFails
<1>5. \A q \in Pollers : ppc'[q] \notin {"none", "done"} => ppc[q] \notin {"none", "done"}
  BY <1>3, <1>4 DEF TypeInv, TypeOK
<1>6. QED
  BY <1>2, <1>5 DEF NoPollerLeak, Current

LEMMA LeakSpawn ==
    ASSUME TypeInv, NoPollerLeak, NEW now \in SUBSET Sessions, Spawn(now \ held, held \ now),
           held' = now, dpc' = "loop"
    PROVE  NoPollerLeak'
<1> SUFFICES ASSUME NEW p \in Pollers, ppc'[p] \notin {"none", "done"}, p \notin stopped'
             PROVE  Ses(p) \in now /\ p = Current(Ses(p))'
  BY DEF NoPollerLeak
<1>1. Ses(p) \in Sessions /\ p = <<Ses(p), p[2]>> /\ gen \in [Sessions -> Nat]
  BY PollerFacts DEF TypeInv, TypeOK
<1>2. gen'[Ses(p)] = IF Ses(p) \in now \ held THEN gen[Ses(p)] + 1 ELSE gen[Ses(p)]
  BY <1>1 DEF Spawn
<1>3. CASE Ses(p) \in now \ held /\ p[2] = gen[Ses(p)] + 1
  BY <1>1, <1>2, <1>3 DEF Current
<1>4. CASE ~ (Ses(p) \in now \ held /\ p[2] = gen[Ses(p)] + 1)
  <2>1. ppc'[p] = ppc[p] /\ p \notin stopped
    BY <1>4 DEF Spawn
  <2>2. Ses(p) \in held /\ p = <<Ses(p), gen[Ses(p)]>>
    BY <2>1 DEF NoPollerLeak, Current
  <2>3. Ses(p) \notin held \ now
    BY <2>2 DEF Spawn, Current
  <2>4. QED
    BY <1>2, <2>2, <2>3 DEF Current
<1>5. QED
  BY <1>3, <1>4

LEMMA LeakStep == TypeInv /\ NoPollerLeak /\ [Next]_vars => NoPollerLeak'
<1> SUFFICES ASSUME TypeInv, NoPollerLeak, [Next]_vars PROVE NoPollerLeak'
  OBVIOUS
<1> USE DEF tmuxVars, dashVars, pollVars, endVars
<1>1. CASE \E p \in Pollers : Poller(p)
  BY <1>1, LeakPoller
<1>2. CASE DashStarts
  <2>1. CASE socket = "open"
    <3>1. PICK now \in {alive, {}} :
               Spawn(now, {}) /\ held' = now /\ dpc' = "loop"
      BY <1>2, <2>1 DEF DashStarts
    <3>2. now \in SUBSET Sessions /\ held = {}
      BY <1>2, <3>1 DEF TypeInv, TypeOK, Counted, DashStarts
    <3>3. Spawn(now \ held, held \ now)
      <4>1. now \ held = now /\ held \ now = {}
        BY <3>2
      <4>2. QED
        BY <3>1, <4>1
    <3>4. QED
      BY <3>1, <3>2, <3>3, LeakSpawn
  <2>2. CASE socket # "open"
    <3>1. dpc = "start" /\ UNCHANGED <<ppc, stopped>>
      BY <1>2, <2>2 DEF DashStarts
    <3>2. QED
      BY <3>1 DEF NoPollerLeak
  <2>3. QED
    BY <2>1, <2>2
<1>3. CASE DashTicks
  <2>1. Spawn(found \ held, held \ found) /\ held' = found /\ dpc' = "loop"
    BY <1>3 DEF DashTicks, Reconciles
  <2>2. found \in SUBSET Sessions
    BY DEF TypeInv, TypeOK
  <2>3. QED
    BY <2>1, <2>2, LeakSpawn
<1>9. CASE DashLists
  <2>1. dpc' = "listing" /\ UNCHANGED <<held, gen, stopped, ppc>>
    BY <1>9 DEF DashLists
  <2>2. QED
    BY <2>1 DEF NoPollerLeak, Current
<1>4. CASE DashForwards
  BY <1>4 DEF DashForwards, NoPollerLeak, Current
<1>5. CASE DashEnds
  <2>1. stopped' = stopped \cup {Current(s) : s \in held} /\ UNCHANGED ppc
    BY <1>5 DEF DashEnds
  <2>2. \A p \in Pollers : ppc[p] \notin {"none", "done"} => p \in stopped'
    BY <2>1 DEF NoPollerLeak
  <2>3. QED
    BY <2>1, <2>2 DEF NoPollerLeak
<1>6. CASE \/ \E s \in Sessions : SessionStarts(s) \/ SessionEnds(s) \/ PaneChanges(s)
           \/ ServerRestarts \/ Closes \/ ShutsDown
  <2>1. UNCHANGED <<dpc, held, gen, stopped, ppc>>
    BY <1>6 DEF SessionStarts, SessionEnds, PaneChanges, ServerRestarts, Closes, ShutsDown
  <2>2. QED
    BY <2>1 DEF NoPollerLeak, Current
<1>7. CASE UNCHANGED vars
  BY <1>7 DEF vars, NoPollerLeak, Current
<1>8. QED
  BY <1>1, <1>2, <1>3, <1>4, <1>5, <1>6, <1>7, <1>9 DEF Next, Dash

(* Every poller that has not been told to stop has a handle the dashboard   *)
(* still holds: whichever way a session leaves the listing and whenever the  *)
(* connection ends, none is forgotten (ws_dashboard.rs:131 and :165).       *)
THEOREM NothingLeaks == Spec => []NoPollerLeak
<1>1. Init => NoPollerLeak
  BY DEF Init, NoPollerLeak
<1>2. QED
  BY <1>1, TypeAlways, LeakStep, PTL DEF Spec

(***************************************************************************)
(* When a row shows what its poller believes it shows.  Two things can      *)
(* part them for good: a transition dropped by a full channel, and the last  *)
(* word of a session's former poller, told to stop in the middle of a poll,  *)
(* when the session is listed again.  As long as neither has happened, they  *)
(* agree: the last event of a session under way carries what its poller has  *)
(* cached.                                                                 *)
(***************************************************************************)
Room == Len(events) < EventCap
NoOverlap ==
    \A p \in Pollers :
        ppc[p] \notin {"none", "done"} /\ Ses(p) \in held => p = Current(Ses(p))
Undisturbed == Room /\ NoOverlap

(* Events e on the way to row r: the last that is told of s is l.           *)
Tells(e, r, s, l) ==
    \/ r.status = l /\ \A i \in DOMAIN e : e[i].session # s
    \/ \E i \in DOMAIN e : /\ e[i] = [session |-> s, what |-> l]
                           /\ \A j \in DOMAIN e : j > i => e[j].session # s

Fresh == \A p \in Pollers : p[2] > gen[Ses(p)] => ppc[p] = "none" /\ last[p] = None
Shown == \A s \in held : rows[s] # NoRow
Latest ==
    \A s \in held : LET l == last[Current(s)] IN l # None => Tells(events, rows[s], s, l)
Shows == Fresh /\ Shown /\ Latest

LEMMA AppendFacts ==
    ASSUME NEW S, NEW e \in Seq(S), NEW v \in S
    PROVE  /\ Append(e, v) \in Seq(S) /\ Len(Append(e, v)) = Len(e) + 1 /\ Len(e) \in Nat
           /\ DOMAIN e = 1..Len(e) /\ DOMAIN Append(e, v) = 1..Len(e) + 1
           /\ \A i \in 1..Len(e) : Append(e, v)[i] = e[i]
           /\ Append(e, v)[Len(e) + 1] = v
OBVIOUS

LEMMA TailFacts ==
    ASSUME NEW S, NEW e \in Seq(S), e # <<>>
    PROVE  /\ Len(e) \in Nat \ {0} /\ DOMAIN e = 1..Len(e)
           /\ DOMAIN Tail(e) = 1..Len(e) - 1 /\ Tail(e) \in Seq(S)
           /\ \A i \in 1..Len(e) - 1 : Tail(e)[i] = e[i + 1]
           /\ Head(e) = e[1]
OBVIOUS

LEMMA TellsOwn ==
    ASSUME NEW e \in Seq(Event), NEW r, NEW s, NEW l, [session |-> s, what |-> l] \in Event
    PROVE  Tells(Append(e, [session |-> s, what |-> l]), r, s, l)
<1> DEFINE v == [session |-> s, what |-> l]
           f == Append(e, v)
<1>1. /\ Len(e) \in Nat /\ DOMAIN f = 1..Len(e) + 1 /\ f[Len(e) + 1] = v
  BY AppendFacts
<1> HIDE DEF f
<1>2. f[Len(e) + 1] = v /\ \A j \in DOMAIN f : ~ (j > Len(e) + 1)
  BY <1>1
<1>3. Len(e) + 1 \in DOMAIN f
  BY <1>1
<1>4. QED
  BY <1>2, <1>3 DEF Tells, f

LEMMA TellsOther ==
    ASSUME NEW e \in Seq(Event), NEW r, NEW s, NEW l, NEW v \in Event, v.session # s,
           Tells(e, r, s, l)
    PROVE  Tells(Append(e, v), r, s, l)
<1> DEFINE f == Append(e, v)
<1>1. /\ Len(e) \in Nat /\ DOMAIN e = 1..Len(e) /\ DOMAIN f = 1..Len(e) + 1
      /\ \A i \in 1..Len(e) : f[i] = e[i]
      /\ f[Len(e) + 1] = v
  BY AppendFacts
<1> HIDE DEF f
<1>2. \A i \in DOMAIN f : (i \in DOMAIN e /\ f[i] = e[i]) \/ f[i].session # s
  BY <1>1
<1>3. CASE r.status = l /\ \A i \in DOMAIN e : e[i].session # s
  BY <1>2, <1>3 DEF Tells, f
<1>4. ASSUME NEW i \in DOMAIN e, e[i] = [session |-> s, what |-> l],
             \A j \in DOMAIN e : j > i => e[j].session # s
      PROVE  Tells(f, r, s, l)
  <2>1. i \in DOMAIN f /\ f[i] = [session |-> s, what |-> l]
    BY <1>1, <1>4
  <2>2. \A j \in DOMAIN f : j > i => f[j].session # s
    BY <1>2, <1>4
  <2>3. QED
    BY <2>1, <2>2 DEF Tells
<1>5. QED
  BY <1>3, <1>4 DEF Tells, f

LEMMA TellsTail ==
    ASSUME NEW e \in Seq(Event), e # <<>>, NEW r, NEW q, NEW s, NEW l,
           Tells(e, r, s, l),
           Head(e).session # s => q.status = r.status,
           Head(e) = [session |-> s, what |-> l] => q.status = l
    PROVE  Tells(Tail(e), q, s, l)
<1> DEFINE f == Tail(e)
<1>1. /\ Len(e) \in Nat \ {0} /\ DOMAIN e = 1..Len(e) /\ DOMAIN f = 1..Len(e) - 1
      /\ \A i \in 1..Len(e) - 1 : f[i] = e[i + 1]
      /\ Head(e) = e[1]
  BY TailFacts
<1> HIDE DEF f
<1>2. \A i \in DOMAIN f : i \in Nat /\ i + 1 \in DOMAIN e /\ f[i] = e[i + 1]
  BY <1>1
<1>3. CASE r.status = l /\ \A i \in DOMAIN e : e[i].session # s
  <2>1. Head(e).session # s
    BY <1>1, <1>3
  <2>2. QED
    BY <1>2, <1>3, <2>1 DEF Tells, f
<1>4. ASSUME NEW i \in DOMAIN e, e[i] = [session |-> s, what |-> l],
             \A j \in DOMAIN e : j > i => e[j].session # s
      PROVE  Tells(f, q, s, l)
  <2>1. CASE i = 1
    <3>1. q.status = l
      BY <1>1, <1>4, <2>1
    <3>2. \A j \in DOMAIN f : j + 1 > i
      BY <1>2, <2>1
    <3>3. \A j \in DOMAIN f : f[j].session # s
      BY <1>2, <1>4, <3>2
    <3>4. QED
      BY <3>1, <3>3 DEF Tells
  <2>2. CASE i # 1
    <3>1. i - 1 \in DOMAIN f /\ f[i - 1] = e[i]
      BY <1>1, <2>2
    <3>2. \A j \in DOMAIN f : j > i - 1 => j + 1 > i
      BY <1>1, <1>2
    <3>3. \A j \in DOMAIN f : j > i - 1 => f[j].session # s
      BY <1>2, <1>4, <3>2
    <3>4. QED
      BY <1>4, <3>1, <3>3 DEF Tells
  <2>3. QED
    BY <2>1, <2>2
<1>5. QED
  BY <1>3, <1>4 DEF Tells, f

LEMMA ShowsPoller ==
    ASSUME TypeInv, Shows, Undisturbed, NEW p \in Pollers, Poller(p) PROVE Shows'
<1> USE DEF tmuxVars, dashVars, endVars
<1>1. UNCHANGED <<held, gen, rows>>
  BY DEF Poller, PollerStops, PollerAsks, PollerCaptures, PollerReports, PollerFails
<1>2. \/ UNCHANGED <<events, last>>
      \/ \E w \in Statuses : TrySend(p, w) /\ last' = [last EXCEPT ![p] = w]
      \/ TrySend(p, "error") /\ last' = [last EXCEPT ![p] = None]
  <2>1. CASE PollerReports(p)
    <3> DEFINE w == MatchStatus(seen[p].cmd, seen[p].screen)
    <3>1. w \in Statuses
      BY MatchType DEF TypeInv, TypeOK
    <3>2. \/ TrySend(p, w) /\ last' = [last EXCEPT ![p] = w]
          \/ UNCHANGED <<events, last>>
      BY <2>1 DEF PollerReports
    <3>3. QED
      BY <3>1, <3>2
  <2>2. CASE PollerFails(p)
    BY <2>2 DEF PollerFails
  <2>3. CASE PollerStops(p) \/ PollerAsks(p) \/ PollerCaptures(p)
    BY <2>3 DEF PollerStops, PollerAsks, PollerCaptures
  <2>4. QED
    BY <2>1, <2>2, <2>3 DEF Poller
<1>3. ppc[p] \notin {"none", "done"}
  BY DEF Poller, PollerStops, PollerAsks, PollerCaptures, PollerReports, PollerFails
<1>4. \A q \in Pollers \ {p} : ppc'[q] = ppc[q]
  BY DEF Poller, PollerStops, PollerAsks, PollerCaptures, PollerReports, PollerFails,
         TypeInv, TypeOK
<1>5. \A q \in Pollers \ {p} : last'[q] = last[q]
  BY <1>2 DEF TypeInv, TypeOK
<1>6. Fresh'
  BY <1>1, <1>3, <1>4, <1>5 DEF Shows, Fresh
<1>7. ASSUME NEW s \in held, last'[Current(s)] # None
      PROVE  Tells(events', rows[s], s, last'[Current(s)])
  <2>1. Current(s) \in Pollers /\ Ses(Current(s)) = s
    BY PollerFacts DEF TypeInv, TypeOK, Counted, Current
  <2>2. dpc # "done" /\ Len(events) < EventCap /\ events \in Seq(Event)
    BY DEF TypeInv, TypeOK, Counted, Undisturbed, Room
  <2>3. last[Current(s)] # None => Tells(events, rows[s], s, last[Current(s)])
    BY DEF Shows, Latest
  <2>4. CASE UNCHANGED <<events, last>>
    BY <1>7, <2>3, <2>4
  <2>5. ASSUME NEW w \in Statuses \cup {"error"}, NEW v, TrySend(p, w),
               last' = [last EXCEPT ![p] = v], v # None => w = v
        PROVE  Tells(events', rows[s], s, last'[Current(s)])
    <3> DEFINE e == [session |-> Ses(p), what |-> w]
    <3>1. e \in Event /\ events' = Append(events, e)
      BY <2>2, <2>5, PollerFacts DEF TrySend, Event
    <3>2. CASE Ses(p) = s
      <4>1. p = Current(s)
        BY <1>3, <3>2 DEF Undisturbed, NoOverlap
      <4>2. last'[Current(s)] = v /\ v = w
        BY <1>7, <2>5, <4>1 DEF TypeInv, TypeOK
      <4>3. QED
        BY <2>2, <3>1, <3>2, <4>2, TellsOwn
    <3>3. CASE Ses(p) # s
      <4>1. last'[Current(s)] = last[Current(s)]
        BY <1>5, <2>1, <3>3
      <4>2. Tells(events, rows[s], s, last'[Current(s)])
        BY <1>7, <2>3, <4>1
      <4>3. e.session # s
        BY <3>3
      <4> HIDE DEF e
      <4>4. QED
        BY <2>2, <3>1, <4>2, <4>3, TellsOther
    <3>4. QED
      BY <3>2, <3>3
  <2>6. QED
    BY <1>2, <2>4, <2>5
<1>8. Latest' /\ Shown'
  BY <1>1, <1>7 DEF Shows, Shown, Latest, Current
<1>9. QED
  BY <1>6, <1>8 DEF Shows

LEMMA ShowsSpawn ==
    ASSUME TypeInv, TypeInv', Shows, NEW now \in SUBSET Sessions,
           Spawn(now \ held, held \ now),
           held' = now, rows' = Rendered(now), UNCHANGED <<last, events>>
    PROVE  Shows'
<1>1. \A s \in Sessions : gen'[s] = IF s \in now \ held THEN gen[s] + 1 ELSE gen[s]
  BY DEF Spawn
<1>2. gen \in [Sessions -> Nat] /\ gen' \in [Sessions -> Nat]
  BY DEF TypeInv, TypeOK
<1>3. ASSUME NEW p \in Pollers, p[2] > gen'[Ses(p)] PROVE ppc'[p] = "none" /\ last'[p] = None
  <2>1. Ses(p) \in Sessions /\ p[2] \in Nat
    BY PollerFacts
  <2>2. p[2] > gen[Ses(p)] /\ ~ (Ses(p) \in now \ held /\ p[2] = gen[Ses(p)] + 1)
    BY <1>1, <1>2, <1>3, <2>1
  <2>3. ppc'[p] = ppc[p]
    BY <2>2 DEF Spawn
  <2>4. QED
    BY <2>2, <2>3 DEF Shows, Fresh
<1>4. \A s \in now : rows'[s] # NoRow /\ (s \in held => rows'[s] = rows[s])
  <2>1. [status |-> "unknown", marked |-> FALSE] # NoRow
    <3>1. "unknown" # None
      BY DashboardAssumption DEF Statuses
    <3>2. QED
      BY <3>1 DEF NoRow
  <2>2. QED
    BY <2>1 DEF Rendered, Shows, Shown
<1>5. ASSUME NEW s \in now
      PROVE  LET l == last[<<s, gen'[s]>>] IN l # None => Tells(events, rows'[s], s, l)
  <2>1. CASE s \in held
    <3>1. gen'[s] = gen[s] /\ rows'[s] = rows[s]
      BY <1>1, <1>4, <2>1
    <3>2. QED
      BY <2>1, <3>1 DEF Shows, Latest, Current
  <2>2. CASE s \notin held
    <3>1. gen'[s] = gen[s] + 1 /\ gen[s] \in Nat /\ gen'[s] \in 1..MaxFlaps + 1
      BY <1>1, <1>2, <2>2 DEF TypeInv, TypeOK
    <3>2. <<s, gen'[s]>> \in Pollers /\ Ses(<<s, gen'[s]>>) = s /\ <<s, gen'[s]>>[2] = gen'[s]
      BY <3>1, PollerFacts
    <3>3. last[<<s, gen'[s]>>] = None
      BY <3>1, <3>2 DEF Shows, Fresh
    <3>4. QED
      BY <3>3
  <2>3. QED
    BY <2>1, <2>2
<1>6. Fresh'
  BY <1>3 DEF Fresh
<1>7. Shown' /\ Latest'
  BY <1>4, <1>5 DEF Shown, Latest, Current
<1>8. QED
  BY <1>6, <1>7 DEF Shows

LEMMA ShowsForwards == TypeInv /\ Shows /\ DashForwards => Shows'
<1> SUFFICES ASSUME TypeInv, Shows, DashForwards PROVE Shows'
  OBVIOUS
<1> DEFINE h == Head(events)
<1>1. /\ events \in Seq(Event) /\ events # <<>> /\ events' = Tail(events)
      /\ rows' = RowAfter(h) /\ rows \in [Sessions -> Row \cup {NoRow}]
      /\ UNCHANGED <<held, gen, last, ppc>> /\ held \subseteq Sessions
  BY DEF DashForwards, dashVars, pollVars, TypeInv, TypeOK
<1>2. h \in Event /\ h.session \in Sessions
  <2>1. h \in Event
    BY <1>1
  <2> HIDE DEF h
  <2>2. QED
    BY <2>1 DEF Event
<1> HIDE DEF h
<1>3. ASSUME NEW s \in held
      PROVE  /\ rows'[s] # NoRow
             /\ h.session # s => rows'[s] = rows[s]
             /\ h.session = s /\ h.what # "error" => rows'[s].status = h.what
  <2>1. rows[s] \in Row
    BY <1>1 DEF Shows, Shown
  <2>2. CASE h.session # s
    <3>1. rows'[s] = rows[s]
      BY <1>1, <2>2 DEF RowAfter
    <3>2. QED
      BY <2>2, <3>1 DEF Shows, Shown
  <2>3. CASE h.session = s
    <3>1. rows'[s] = IF h.what = "error" THEN [rows[s] EXCEPT !.marked = TRUE]
                     ELSE [rows[s] EXCEPT !.status = h.what]
      BY <1>1, <2>3 DEF RowAfter, Shows, Shown
    <3>2. /\ h.what = "error" => rows'[s] \in Row
          /\ h.what # "error" => rows'[s] \in Row /\ rows'[s].status = h.what
      BY <1>2, <2>1, <3>1 DEF Row, Event
    <3>3. NoRow \notin Row
      BY DashboardAssumption DEF NoRow, Row, Statuses
    <3>4. QED
      BY <2>3, <3>2, <3>3
  <2>4. QED
    BY <2>2, <2>3
<1>4. ASSUME NEW s \in held, last[Current(s)] # None
      PROVE  Tells(events', rows'[s], s, last[Current(s)])
  <2> DEFINE l == last[Current(s)]
  <2>1. Current(s) \in Pollers
    BY PollerFacts DEF TypeInv, TypeOK, Counted, Current
  <2>2. l # "error" /\ Tells(events, rows[s], s, l)
    BY <1>4, <2>1, DashboardAssumption DEF Shows, Latest, TypeInv, TypeOK
  <2>3. h = [session |-> s, what |-> l] => h.session = s /\ h.what = l
    OBVIOUS
  <2> HIDE DEF l
  <2>4. /\ h.session # s => rows'[s].status = rows[s].status
        /\ h = [session |-> s, what |-> l] => rows'[s].status = l
    BY <1>3, <2>2, <2>3
  <2>5. Tells(Tail(events), rows'[s], s, l)
    BY <1>1, <2>2, <2>4, TellsTail DEF h
  <2>6. QED
    BY <1>1, <2>5 DEF l
<1>5. Fresh' /\ Shown'
  BY <1>1, <1>3 DEF Shows, Fresh, Shown
<1>6. Latest'
  BY <1>1, <1>4 DEF Latest, Current
<1>7. QED
  BY <1>5, <1>6 DEF Shows

LEMMA ShowsStep ==
    TypeInv /\ TypeInv' /\ Shows /\ Undisturbed /\ [Next]_vars => Shows'
<1> SUFFICES ASSUME TypeInv, TypeInv', Shows, Undisturbed, [Next]_vars PROVE Shows'
  OBVIOUS
<1> USE DEF tmuxVars, dashVars, pollVars, endVars
<1>1. CASE \E p \in Pollers : Poller(p)
  BY <1>1, ShowsPoller
<1>2. CASE DashStarts
  <2>1. UNCHANGED <<last, events>> /\ held = {}
    BY <1>2 DEF DashStarts, TypeInv, TypeOK, Counted
  <2>2. CASE socket = "open"
    <3>1. PICK now \in {alive, {}} :
               Spawn(now, {}) /\ held' = now /\ rows' = Rendered(now)
      BY <1>2, <2>2 DEF DashStarts
    <3>2. now \in SUBSET Sessions /\ now \ held = now /\ held \ now = {}
      BY <2>1, <3>1 DEF TypeInv, TypeOK
    <3>3. Spawn(now \ held, held \ now)
      BY <3>1, <3>2
    <3>4. QED
      BY <2>1, <3>1, <3>2, <3>3, ShowsSpawn
  <2>3. CASE socket # "open"
    <3>1. UNCHANGED <<held, gen, ppc, rows>>
      BY <1>2, <2>3 DEF DashStarts
    <3>2. QED
      BY <2>1, <3>1 DEF Shows, Fresh, Shown, Latest
  <2>4. QED
    BY <2>2, <2>3
<1>3. CASE DashTicks
  <2>1. /\ Spawn(found \ held, held \ found)
        /\ held' = found /\ rows' = Rendered(found) /\ UNCHANGED <<last, events>>
    BY <1>3 DEF DashTicks, Reconciles
  <2>2. found \in SUBSET Sessions
    BY DEF TypeInv, TypeOK
  <2>3. QED
    BY <2>1, <2>2, ShowsSpawn
<1>9. CASE DashLists
  <2>1. UNCHANGED <<held, gen, ppc, last, events, rows>>
    BY <1>9 DEF DashLists
  <2>2. QED
    BY <2>1 DEF Shows, Fresh, Shown, Latest, Current
<1>4. CASE DashForwards
  BY <1>4, ShowsForwards
<1>5. CASE DashEnds
  <2>1. held' = {} /\ UNCHANGED <<gen, ppc, last>>
    BY <1>5 DEF DashEnds
  <2>2. QED
    BY <2>1 DEF Shows, Fresh, Shown, Latest
<1>6. CASE \/ \E s \in Sessions : SessionStarts(s) \/ SessionEnds(s) \/ PaneChanges(s)
           \/ ServerRestarts \/ Closes \/ ShutsDown
  <2>1. UNCHANGED <<held, gen, ppc, last, events, rows>>
    BY <1>6 DEF SessionStarts, SessionEnds, PaneChanges, ServerRestarts, Closes, ShutsDown
  <2>2. QED
    BY <2>1 DEF Shows, Fresh, Shown, Latest, Current
<1>7. CASE UNCHANGED vars
  BY <1>7 DEF vars, Shows, Fresh, Shown, Latest, Current
<1>8. QED
  BY <1>1, <1>2, <1>3, <1>4, <1>5, <1>6, <1>7, <1>9 DEF Next, Dash

(* A row shows what its poller has cached whenever nothing is on the way to  *)
(* it (poller.rs:107 keeps silent about what the cache says), as long as the *)
(* channel never fills (poller.rs:109 drops what does not fit) and no former *)
(* poller of a session is still in a poll when the session is listed again.  *)
THEOREM BadgeCorrect == Spec /\ []Undisturbed => []BadgeMatchesCache
<1>1. Init => Shows
  BY DEF Init, Shows, Fresh, Shown, Latest
<1>2. Shows => BadgeMatchesCache
  <2> SUFFICES ASSUME Shows, NEW s \in held, last[Current(s)] # None,
                      \A i \in DOMAIN events : events[i].session # s
               PROVE  rows[s].status = last[Current(s)]
    BY DEF BadgeMatchesCache
  <2>1. Tells(events, rows[s], s, last[Current(s)])
    BY DEF Shows, Latest
  <2>2. \A i \in DOMAIN events : events[i] # [session |-> s, what |-> last[Current(s)]]
    OBVIOUS
  <2>3. QED
    BY <2>1, <2>2 DEF Tells
<1>3. QED
  BY <1>1, <1>2, TypeAlways, ShowsStep, PTL DEF Spec
================================================================================
