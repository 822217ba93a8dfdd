-------------------------- MODULE ControlServiceProofs --------------------------
(* What the callers and the consumer of the control-mode driver are owed,   *)
(* for every set of commands and all capacities: the driver implements      *)
(* CommandService, leaves no call behind when its tasks are gone, and hands *)
(* on the pane's output without a gap.                                     *)
EXTENDS ControlModeProofs, FiniteSetTheorems

(* The request the writer has received and not yet registered, and those    *)
(* that have not entered cmdChan.                                          *)
Hand   == {d \in AllCommands : wpc = "register" /\ wcmd = d}
Unsent == {d \in AllCommands :
              IF d = Detach THEN handle = "open" ELSE call[d] \in {"idle", "sending"}}

(* A request is in one place on its way to registration, and takes the way  *)
(* once.                                                                   *)
Once ==
    /\ \A i, j \in DOMAIN registered : registered[i] = registered[j] => i = j
    /\ \A i, j \in DOMAIN cmdChan : cmdChan[i] = cmdChan[j] => i = j
    /\ \A i \in DOMAIN cmdChan, j \in DOMAIN registered : cmdChan[i] # registered[j]
    /\ \A i \in DOMAIN cmdChan : cmdChan[i] \notin Hand \cup Unsent
    /\ \A i \in DOMAIN registered : registered[i] \notin Hand \cup Unsent
    /\ Hand \cap Unsent = {}

(* A call moves forward: idle, sending, waiting or returned. *)
LEMMA CallsMoveOn ==
    ASSUME TypeInv, [Next]_vars
    PROVE  /\ \A c \in Commands : call'[c] \in {"idle", "sending"} =>
                                  call[c] \in {"idle", "sending"}
           /\ handle' = "open" => handle = "open"
<1> USE DEF callVars, writeVars, readVars, eventVars, childVars
<1>1. call \in [Commands -> CallState]
  BY DEF TypeInv, TypeOK, CallerTypeOK
<1>2. ASSUME UNCHANGED handle, \E S : call' = Failing(S) \/ call' = call
      PROVE  /\ \A c \in Commands : call'[c] \in {"idle", "sending"} =>
                                    call[c] \in {"idle", "sending"}
             /\ handle' = "open" => handle = "open"
  BY <1>2 DEF Failing
<1>3. ASSUME NEW c \in Commands, Caller(c)
      PROVE  /\ \A d \in Commands : call'[d] \in {"idle", "sending"} =>
                                    call[d] \in {"idle", "sending"}
             /\ handle' = "open" => handle = "open"
  BY <1>1, <1>3 DEF Caller, Call, Enqueue, Refused, Timeout, Abandon
<1>4. CASE ShutdownDetach \/ ShutdownCancel \/ CancelToken
  BY <1>4 DEF ShutdownDetach, ShutdownCancel, CancelToken
<1>5. CASE Writer
  BY <1>2, <1>5 DEF Writer, WriterCancelled, WriterRecv, WriterRegister,
     WriterUnregistered, WriterWrite, WriterWriteFails, WriterLeaves
<1>6. CASE ReaderStops \/ ReadBegin \/ ReadData \/ ReadOutput \/ ReadNotice \/ ReaderMatch
  BY <1>2, <1>6 DEF ReaderStops, ReadBegin, ReadData, ReadOutput, ReadNotice, Reading,
     ReaderMatch, ReaderLeaves
<1>7. CASE ReadEnd
  BY <1>1, <1>7 DEF ReadEnd, Reading
<1>8. CASE CoalesceSent \/ CoalesceTimeout \/ CoalesceClosed \/ ReaderSend
           \/ ReaderDrain \/ ReaderDrop
  BY <1>2, <1>8 DEF CoalesceSent, CoalesceTimeout, CoalesceClosed, ReaderSend, ReaderDrain,
     ReaderDrop, ReaderLeaves
<1>9. CASE Supervisor
  BY <1>2, <1>9 DEF Supervisor, SupervisorKills, SupervisorReaps, SupervisorReport,
     SupervisorCancels
<1>10. CASE Consumer \/ Tmux
  BY <1>10 DEF Consumer, ConsumerRecv, ConsumerEnds, ConsumerDrops, Tmux, TmuxBegin,
     TmuxEnd, TmuxOutput, TmuxNote, TmuxLeaves, ChildExits, TmuxUnchanged
<1>11. CASE UNCHANGED vars
  BY <1>11 DEF vars
<1>12. QED
  BY <1>3, <1>4, <1>5, <1>6, <1>7, <1>8, <1>9, <1>10, <1>11 DEF Next, Reader

(* Only callers, shutdown and the writer touch the way to registration. *)
LEMMA WayFrame ==
    ASSUME [Next]_vars
    PROVE  \/ UNCHANGED <<cmdChan, writeVars>>
           \/ \E c \in Commands : Enqueue(c)
           \/ ShutdownDetach
           \/ Writer
<1> USE DEF callVars, readVars, eventVars, childVars
<1>1. ASSUME NEW c \in Commands, Caller(c), ~Enqueue(c) PROVE UNCHANGED <<cmdChan, writeVars>>
  BY <1>1 DEF Caller, Call, Refused, Timeout, Abandon
<1>2. CASE ShutdownCancel \/ CancelToken
  BY <1>2 DEF ShutdownCancel, CancelToken
<1>3. CASE Reader
  BY <1>3 DEF Reader, ReaderStops, ReadBegin, ReadData, ReadEnd, ReadOutput, ReadNotice,
     Reading, ReaderMatch, CoalesceSent, CoalesceTimeout, CoalesceClosed, ReaderSend,
     ReaderDrain, ReaderDrop
<1>4. CASE Supervisor
  BY <1>4 DEF Supervisor, SupervisorKills, SupervisorReaps, SupervisorReport,
     SupervisorCancels
<1>5. CASE Consumer \/ Tmux
  BY <1>5 DEF Consumer, ConsumerRecv, ConsumerEnds, ConsumerDrops, Tmux, TmuxBegin,
     TmuxEnd, TmuxOutput, TmuxNote, TmuxLeaves, ChildExits, TmuxUnchanged
<1>6. CASE UNCHANGED vars
  BY <1>6 DEF vars
<1>7. QED
  BY <1>1, <1>2, <1>3, <1>4, <1>5, <1>6 DEF Next

LEMMA OnceInit == Init => Once
<1> SUFFICES ASSUME Init PROVE Once
  OBVIOUS
<1>1. cmdChan = <<>> /\ registered = <<>> /\ wpc = "select"
  BY DEF Init
<1>2. DOMAIN cmdChan = {} /\ DOMAIN registered = {}
  BY <1>1
<1>3. QED
  BY <1>1, <1>2 DEF Once, Hand

(* The tail of a sequence without repetition: no repetition, and its head   *)
(* is gone.                                                                *)
LEMMA DistinctTail ==
    ASSUME NEW S, NEW s \in Seq(S), s # <<>>,
           \A i, j \in DOMAIN s : s[i] = s[j] => i = j
    PROVE  /\ \A i, j \in DOMAIN Tail(s) : Tail(s)[i] = Tail(s)[j] => i = j
           /\ \A i \in DOMAIN Tail(s) : Tail(s)[i] # Head(s)
           /\ \A i \in DOMAIN Tail(s) : \E j \in DOMAIN s : Tail(s)[i] = s[j]
<1>1. /\ Head(s) = s[1] /\ Len(s) \in Nat /\ Len(s) > 0
      /\ DOMAIN s = 1..Len(s) /\ DOMAIN Tail(s) = 1..(Len(s) - 1)
      /\ \A i \in 1..Len(s) - 1 : Tail(s)[i] = s[i + 1]
  BY TailFacts
<1>2. \A i \in DOMAIN Tail(s) : i \in Nat /\ i + 1 \in DOMAIN s /\ Tail(s)[i] = s[i + 1]
  BY <1>1
<1>3. 1 \in DOMAIN s
  BY <1>1
<1>4. QED
  BY <1>1, <1>2, <1>3

LEMMA DistinctAppend ==
    ASSUME NEW S, NEW s \in Seq(S), NEW x \in S,
           \A i, j \in DOMAIN s : s[i] = s[j] => i = j,
           \A i \in DOMAIN s : s[i] # x
    PROVE  /\ \A i, j \in DOMAIN Append(s, x) : Append(s, x)[i] = Append(s, x)[j] => i = j
           /\ \A i \in DOMAIN Append(s, x) :
                 \/ Append(s, x)[i] = x
                 \/ \E j \in DOMAIN s : Append(s, x)[i] = s[j]
<1>1. /\ Len(s) \in Nat /\ DOMAIN s = 1..Len(s)
      /\ DOMAIN Append(s, x) = 1..(Len(s) + 1)
      /\ \A i \in 1..Len(s) : Append(s, x)[i] = s[i]
      /\ Append(s, x)[Len(s) + 1] = x
  BY AppendFacts
<1>2. \A i \in DOMAIN Append(s, x) : i \in DOMAIN s \/ i = Len(s) + 1
  BY <1>1
<1>3. QED
  BY <1>1, <1>2

LEMMA OnceStep == TypeInv /\ Once /\ [Next]_vars => Once'
<1> SUFFICES ASSUME TypeInv, Once, [Next]_vars PROVE Once'
  OBVIOUS
<1> USE DEF writeVars
<1>1. /\ cmdChan \in Seq(AllCommands) /\ registered \in Seq(AllCommands)
      /\ Detach \notin Commands /\ None \notin AllCommands
      /\ AllCommands = Commands \cup {Detach}
      /\ call \in [Commands -> CallState]
  BY CommandsAssumption DEF TypeInv, TypeOK, WriterTypeOK, CallerTypeOK, AllCommands
<1>2. Unsent' \subseteq Unsent
  BY <1>1, CallsMoveOn DEF Unsent
<1>3. /\ \A i \in DOMAIN cmdChan : cmdChan[i] \in AllCommands
      /\ \A i \in DOMAIN registered : registered[i] \in AllCommands
  BY <1>1, ElementFacts
<1>4. CASE UNCHANGED <<cmdChan, writeVars>>
  BY <1>2, <1>3, <1>4 DEF Once, Hand
<1>5. ASSUME NEW d \in AllCommands, cmdChan' = Append(cmdChan, d), UNCHANGED writeVars,
             d \in Unsent, d \notin Unsent'
      PROVE  Once'
  <2>1. \A i \in DOMAIN cmdChan : cmdChan[i] # d
    BY <1>5 DEF Once
  <2>2. /\ \A i, j \in DOMAIN cmdChan' : cmdChan'[i] = cmdChan'[j] => i = j
        /\ \A i \in DOMAIN cmdChan' :
              cmdChan'[i] = d \/ \E j \in DOMAIN cmdChan : cmdChan'[i] = cmdChan[j]
    BY <1>1, <1>5, <2>1, DistinctAppend DEF Once
  <2>3. d \notin Hand' /\ \A j \in DOMAIN registered : registered[j] # d
    BY <1>5 DEF Once, Hand
  <2>4. QED
    BY <1>2, <1>3, <1>5, <2>2, <2>3 DEF Once, Hand
<1>6. ASSUME NEW c \in Commands, Enqueue(c) PROVE Once'
  <2>1. cmdChan' = Append(cmdChan, c) /\ UNCHANGED writeVars /\ c \in AllCommands
    BY <1>1, <1>6 DEF Enqueue
  <2>2. c \in Unsent /\ c \notin Unsent'
    BY <1>1, <1>6 DEF Enqueue, Unsent
  <2>3. QED
    BY <1>5, <2>1, <2>2
<1>7. CASE ShutdownDetach
  <2>1. CASE UNCHANGED cmdChan
    BY <1>4, <1>7, <2>1 DEF ShutdownDetach
  <2>2. CASE cmdChan' = Append(cmdChan, Detach)
    BY <1>1, <1>5, <1>7, <2>2 DEF ShutdownDetach, Unsent
  <2>3. QED
    BY <1>7, <2>1, <2>2 DEF ShutdownDetach
<1>8. CASE cmdChan' = <<>> /\ wpc' = "done" /\ UNCHANGED registered
  <2>1. DOMAIN cmdChan' = {}
    BY <1>8
  <2>2. QED
    BY <1>2, <1>3, <1>8, <2>1 DEF Once, Hand
<1>9. CASE WriterRecv
  <2>1. /\ cmdChan # <<>> /\ cmdChan' = Tail(cmdChan) /\ wcmd' = Head(cmdChan)
        /\ wpc' = "register" /\ UNCHANGED registered
    BY <1>9 DEF WriterRecv
  <2>2. /\ \A i, j \in DOMAIN cmdChan' : cmdChan'[i] = cmdChan'[j] => i = j
        /\ \A i \in DOMAIN cmdChan' : cmdChan'[i] # wcmd'
        /\ \A i \in DOMAIN cmdChan' : \E j \in DOMAIN cmdChan : cmdChan'[i] = cmdChan[j]
    BY <1>1, <2>1, DistinctTail DEF Once
  <2>3. 1 \in DOMAIN cmdChan /\ wcmd' = cmdChan[1]
    BY <1>1, <2>1, TailFacts
  <2>4. wcmd' \in AllCommands /\ wcmd' \notin Unsent'
    BY <1>2, <1>3, <2>3 DEF Once
  <2>5. Hand' = {wcmd'}
    BY <2>1, <2>4 DEF Hand
  <2>6. \A i \in DOMAIN cmdChan' : cmdChan'[i] \in AllCommands
    BY <1>3, <2>2
  <2>7. Hand' \cap Unsent' = {}
    BY <2>4, <2>5
  <2>8. \A i \in DOMAIN cmdChan' : cmdChan'[i] \notin Hand' \cup Unsent'
    BY <1>2, <2>2, <2>5, <2>6 DEF Once
  <2>9. \A i \in DOMAIN registered : registered[i] \notin Hand' \cup Unsent'
    BY <1>2, <1>3, <2>3, <2>5 DEF Once
  <2>10. \A i \in DOMAIN cmdChan', j \in DOMAIN registered : cmdChan'[i] # registered[j]
    BY <2>2 DEF Once
  <2>11. QED
    BY <2>1, <2>2, <2>7, <2>8, <2>9, <2>10 DEF Once
<1>10. CASE WriterRegister
  <2>1. /\ wpc = "register" /\ wpc' = "write" /\ wcmd \in AllCommands
        /\ registered' = Append(registered, wcmd) /\ UNCHANGED cmdChan
    BY <1>10 DEF WriterRegister, TypeInv, HandOK
  <2>2. wcmd \in Hand /\ Hand' = {}
    BY <2>1 DEF Hand
  <2>3. \A i \in DOMAIN registered : registered[i] # wcmd
    BY <2>2 DEF Once
  <2>4. /\ \A i, j \in DOMAIN registered' : registered'[i] = registered'[j] => i = j
        /\ \A i \in DOMAIN registered' :
              \/ registered'[i] = wcmd
              \/ \E j \in DOMAIN registered : registered'[i] = registered[j]
    BY <1>1, <2>1, <2>3, DistinctAppend DEF Once
  <2>5. \A i \in DOMAIN cmdChan : cmdChan[i] # wcmd
    BY <2>2 DEF Once
  <2>6. wcmd \notin Unsent'
    BY <1>2, <2>1, <2>2 DEF Once
  <2>7. QED
    BY <1>2, <1>3, <2>1, <2>2, <2>4, <2>5, <2>6 DEF Once
<1>11. CASE WriterWrite
  BY <1>2, <1>3, <1>11 DEF WriterWrite, Once, Hand
<1>12. CASE WriterCancelled \/ WriterUnregistered \/ WriterWriteFails
  BY <1>8, <1>12 DEF WriterCancelled, WriterUnregistered, WriterWriteFails, WriterLeaves
<1>13. QED
  BY <1>4, <1>6, <1>7, <1>9, <1>10, <1>11, <1>12, WayFrame DEF Writer

--------------------------------------------------------------------------------
(* A command block holds one line of data, and the block in flight holds it *)
(* once it is read: what an answered caller gets is the whole block.        *)
Body(l) == l.flags = 1 /\ l.kind = "data"

OneLine ==
    /\ \A i \in DOMAIN ptyOut : Begins(ptyOut[i]) =>
            i + 1 \in DOMAIN ptyOut /\ Body(ptyOut[i + 1])
    /\ \A i \in DOMAIN ptyOut : Body(ptyOut[i]) /\ i + 1 \in DOMAIN ptyOut =>
            Closes(ptyOut[i + 1])
    /\ rpc = "match" => inFlight = None /\ ptyOut # <<>> /\ Body(ptyOut[1])
    /\ inFlight # None =>
            buf = IF ptyOut # <<>> /\ Body(ptyOut[1]) THEN <<>> ELSE <<matched>>

LEMMA OneLineInit == Init => OneLine
<1> SUFFICES ASSUME Init PROVE OneLine
  OBVIOUS
<1>1. DOMAIN ptyOut = {} /\ rpc = "select" /\ inFlight = None
  BY DEF Init
<1>2. QED
  BY <1>1 DEF OneLine

(* What tmux writes at once: whole beginnings and whole ends of blocks. *)
OneBody(lines) ==
    /\ \A i \in DOMAIN lines : Begins(lines[i]) =>
            i + 1 \in DOMAIN lines /\ Body(lines[i + 1])
    /\ \A i \in DOMAIN lines : Body(lines[i]) /\ i + 1 \in DOMAIN lines =>
            Closes(lines[i + 1])
    /\ ~Body(lines[1])
    /\ open => Closes(lines[1])

LEMMA TmuxBodies ==
    ASSUME TypeInv, TmuxBegin \/ TmuxEnd \/ TmuxOutput \/ TmuxNote \/ TmuxLeaves
    PROVE  \E lines \in Seq(Line) : lines # <<>> /\ Writes(lines) /\ OneBody(lines)
<1>1. Len(ran) \in Nat /\ emitted \in Nat
  BY DEF TypeInv, TypeOK, ChildTypeOK
<1>2. CASE TmuxBegin
  <2> DEFINE b == MkLine("begin", 1, Len(ran) + 1)
             d == MkLine("data", 1, Len(ran) + 1)
  <2>1. b \in Line /\ d \in Line
    BY <1>1, LineFacts DEF LineKind
  <2>2. ~open /\ Writes(<<b, d>>)
    BY <1>2 DEF TmuxBegin
  <2>3. ~Body(b) /\ Body(d) /\ ~Begins(d)
    BY DEF Body, Begins, MkLine
  <2> HIDE DEF b, d
  <2>4. /\ <<b, d>> \in Seq(Line) /\ <<b, d>> # <<>> /\ DOMAIN <<b, d>> = {1, 2}
        /\ <<b, d>>[1] = b /\ <<b, d>>[2] = d
    BY <2>1
  <2>5. \A i \in {1, 2} : (i = 1 /\ i + 1 = 2) \/ (i = 2 /\ i + 1 \notin {1, 2})
    OBVIOUS
  <2>6. OneBody(<<b, d>>)
    BY <2>2, <2>3, <2>4, <2>5 DEF OneBody
  <2>7. QED
    BY <2>2, <2>4, <2>6
<1>3. CASE TmuxEnd
  <2> DEFINE c == MkLine(IF ran[Len(ran)].ok THEN "end" ELSE "error", 1, Len(ran))
  <2>1. c \in Line /\ ExitLine \in Line
    BY <1>1, LineFacts DEF LineKind
  <2>2. Writes(<<c>>) \/ Writes(<<c, ExitLine>>)
    BY <1>3 DEF TmuxEnd
  <2>3. Closes(c) /\ ~Body(c) /\ ~Begins(c) /\ ~Body(ExitLine) /\ ~Begins(ExitLine)
    BY DEF Closes, Body, Begins, MkLine, ExitLine
  <2> HIDE DEF c
  <2>4. /\ <<c>> \in Seq(Line) /\ <<c>> # <<>> /\ DOMAIN <<c>> = {1} /\ <<c>>[1] = c
        /\ <<c, ExitLine>> \in Seq(Line) /\ <<c, ExitLine>> # <<>>
        /\ DOMAIN <<c, ExitLine>> = {1, 2}
        /\ <<c, ExitLine>>[1] = c /\ <<c, ExitLine>>[2] = ExitLine
    BY <2>1
  <2>5. OneBody(<<c>>) /\ OneBody(<<c, ExitLine>>)
    BY <2>3, <2>4 DEF OneBody
  <2>6. QED
    BY <2>2, <2>4, <2>5
<1>4. ASSUME NEW lines \in Seq(Line), lines # <<>>, Writes(lines),
             \A i \in DOMAIN lines : lines[i].flags = 0, ~open
      PROVE  \E lns \in Seq(Line) : lns # <<>> /\ Writes(lns) /\ OneBody(lns)
  <2>1. 1 \in DOMAIN lines
    BY <1>4
  <2>2. OneBody(lines)
    BY <1>4, <2>1 DEF OneBody, Begins, Body
  <2>3. QED
    BY <1>4, <2>2
<1>5. CASE TmuxOutput \/ TmuxLeaves
  <2> DEFINE o == MkLine("output", 0, emitted + 1)
  <2>1. o \in Line /\ ExitLine \in Line /\ o.flags = 0 /\ ExitLine.flags = 0
    BY <1>1, LineFacts DEF LineKind, MkLine, ExitLine
  <2>2. ~open /\ (Writes(<<o>>) \/ Writes(<<ExitLine>>))
    BY <1>5 DEF TmuxOutput, TmuxLeaves
  <2> HIDE DEF o
  <2>3. /\ <<o>> \in Seq(Line) /\ <<o>> # <<>>
        /\ <<ExitLine>> \in Seq(Line) /\ <<ExitLine>> # <<>>
        /\ \A i \in DOMAIN <<o>> : <<o>>[i].flags = 0
        /\ \A i \in DOMAIN <<ExitLine>> : <<ExitLine>>[i].flags = 0
    BY <2>1
  <2>4. QED
    BY <1>4, <2>2, <2>3
<1>6. CASE TmuxNote
  <2> DEFINE n == MkLine("note", 0, 0)
             b == MkLine("begin", 0, 0)
             d == MkLine("data", 0, 0)
             e == MkLine("end", 0, 0)
  <2>1. /\ n \in Line /\ b \in Line /\ d \in Line /\ e \in Line
        /\ n.flags = 0 /\ b.flags = 0 /\ d.flags = 0 /\ e.flags = 0
    BY LineFacts DEF LineKind, MkLine
  <2>2. ~open /\ (Writes(<<n>>) \/ Writes(<<b, d, e>>))
    BY <1>6 DEF TmuxNote
  <2> HIDE DEF n, b, d, e
  <2>3. /\ <<n>> \in Seq(Line) /\ <<n>> # <<>>
        /\ <<b, d, e>> \in Seq(Line) /\ <<b, d, e>> # <<>>
        /\ \A i \in DOMAIN <<n>> : <<n>>[i].flags = 0
        /\ \A i \in DOMAIN <<b, d, e>> : <<b, d, e>>[i].flags = 0
    BY <2>1
  <2>4. QED
    BY <1>4, <2>2, <2>3
<1>7. QED
  BY <1>2, <1>3, <1>5, <1>6

LEMMA OneLineWrites ==
    ASSUME TypeInv, Framed, OneLine, UNCHANGED <<matched, rpc, inFlight, buf>>,
           NEW lines \in Seq(Line), lines # <<>>, Writes(lines), OneBody(lines)
    PROVE  OneLine'
<1> DEFINE p == Len(ptyOut)
<1>1. /\ ptyOut \in Seq(Line) /\ p \in Nat /\ DOMAIN ptyOut = 1..p
      /\ DOMAIN lines = 1..Len(lines) /\ Len(lines) \in Nat
  BY DEF TypeInv, TypeOK, ChildTypeOK
<1>2. /\ ptyOut' = ptyOut \o lines /\ ptyOut' # <<>>
      /\ \A i \in DOMAIN ptyOut' :
            \/ i \in DOMAIN ptyOut /\ i <= p /\ ptyOut'[i] = ptyOut[i]
            \/ i > p /\ i - p \in DOMAIN lines /\ ptyOut'[i] = lines[i - p]
      /\ \A i \in DOMAIN ptyOut : i \in DOMAIN ptyOut' /\ ptyOut'[i] = ptyOut[i]
      /\ \A i \in DOMAIN lines : p + i \in DOMAIN ptyOut' /\ ptyOut'[p + i] = lines[i]
      /\ ptyOut'[1] = IF ptyOut = <<>> THEN lines[1] ELSE ptyOut[1]
  BY <1>1, ConcatIndices DEF Writes
<1> HIDE DEF p
<1>3. ASSUME NEW i \in DOMAIN ptyOut', Begins(ptyOut'[i])
      PROVE  i + 1 \in DOMAIN ptyOut' /\ Body(ptyOut'[i + 1])
  <2>1. CASE i \in DOMAIN ptyOut /\ ptyOut'[i] = ptyOut[i]
    <3>1. i + 1 \in DOMAIN ptyOut /\ Body(ptyOut[i + 1])
      BY <1>3, <2>1 DEF OneLine
    <3>2. QED
      BY <1>2, <3>1
  <2>2. CASE i > p /\ i - p \in DOMAIN lines /\ ptyOut'[i] = lines[i - p]
    <3>1. (i - p) + 1 \in DOMAIN lines /\ Body(lines[(i - p) + 1])
      BY <1>3, <2>2 DEF OneBody
    <3>2. i \in Nat /\ p + ((i - p) + 1) = i + 1
      BY <1>1, <1>2, <2>2
    <3>3. QED
      BY <1>2, <3>1, <3>2
  <2>3. QED
    BY <1>2, <2>1, <2>2
<1>4. ASSUME NEW i \in DOMAIN ptyOut', Body(ptyOut'[i]), i + 1 \in DOMAIN ptyOut'
      PROVE  Closes(ptyOut'[i + 1])
  <2>1. CASE i \in DOMAIN ptyOut /\ ptyOut'[i] = ptyOut[i]
    <3>1. CASE i + 1 \in DOMAIN ptyOut
      BY <1>2, <1>4, <2>1, <3>1 DEF OneLine
    <3>2. CASE i + 1 \notin DOMAIN ptyOut
      <4>1. i = p /\ ptyOut # <<>>
        BY <1>1, <2>1, <3>2
      <4>2. open
        BY <1>4, <2>1, <4>1 DEF Framed, Ends, Holds, Body, p
      <4>3. 1 \in DOMAIN lines /\ p + 1 = i + 1
        BY <1>1, <4>1
      <4>4. QED
        BY <1>2, <4>2, <4>3 DEF OneBody
    <3>3. QED
      BY <3>1, <3>2
  <2>2. CASE i > p /\ i - p \in DOMAIN lines /\ ptyOut'[i] = lines[i - p]
    <3>1. i \in Nat /\ p + ((i - p) + 1) = i + 1 /\ ~(i + 1 <= p)
      BY <1>1, <1>2, <2>2
    <3>2. (i + 1) - p \in DOMAIN lines /\ (i + 1) - p = (i - p) + 1
      BY <1>1, <1>2, <1>4, <3>1
    <3>3. Closes(lines[(i - p) + 1])
      BY <1>4, <2>2, <3>2 DEF OneBody
    <3>4. QED
      BY <1>2, <3>1, <3>2, <3>3
  <2>3. QED
    BY <1>2, <2>1, <2>2
<1>5. rpc' = "match" => inFlight' = None /\ ptyOut' # <<>> /\ Body(ptyOut'[1])
  BY <1>2 DEF OneLine
<1>6. inFlight' # None =>
         buf' = IF ptyOut' # <<>> /\ Body(ptyOut'[1]) THEN <<>> ELSE <<matched'>>
  BY <1>2 DEF OneLine, OneBody
<1>7. QED
  BY <1>3, <1>4, <1>5, <1>6 DEF OneLine

LEMMA OneLineReads ==
    ASSUME TypeInv, Framed, OneLine, rpc = "select", ptyOut # <<>>,
           ptyOut' = Tail(ptyOut), UNCHANGED matched,
           rpc' = "match" <=> Begins(Head(ptyOut)),
           inFlight' # None => UNCHANGED inFlight /\ Body(Head(ptyOut))
                                  /\ buf' = Append(buf, Head(ptyOut).num)
    PROVE  OneLine'
<1> DEFINE l == Head(ptyOut)
<1>1. /\ ptyOut \in Seq(Line) /\ matched \in Nat /\ l \in Line /\ l = ptyOut[1]
      /\ Len(ptyOut) \in Nat /\ Len(ptyOut) > 0 /\ DOMAIN ptyOut = 1..Len(ptyOut)
      /\ DOMAIN ptyOut' = 1..(Len(ptyOut) - 1)
      /\ \A i \in 1..Len(ptyOut) - 1 : ptyOut'[i] = ptyOut[i + 1]
  BY TailFacts DEF TypeInv, TypeOK, ReaderTypeOK, ChildTypeOK
<1>2. /\ \A i \in DOMAIN ptyOut' : i + 1 \in DOMAIN ptyOut /\ ptyOut'[i] = ptyOut[i + 1]
      /\ \A i \in DOMAIN ptyOut' : i \in Nat
      /\ \A i \in Nat : i + 1 \in DOMAIN ptyOut /\ i # 0 => i \in DOMAIN ptyOut'
  BY <1>1
<1>3. 1 \in DOMAIN ptyOut /\ (ptyOut' # <<>> => 1 \in DOMAIN ptyOut' /\ 2 \in DOMAIN ptyOut
                                                /\ ptyOut'[1] = ptyOut[2])
  BY <1>1
<1> HIDE DEF l
<1>4. ASSUME NEW i \in DOMAIN ptyOut', Begins(ptyOut'[i])
      PROVE  i + 1 \in DOMAIN ptyOut' /\ Body(ptyOut'[i + 1])
  <2>1. i + 1 \in DOMAIN ptyOut /\ Begins(ptyOut[i + 1]) /\ i \in Nat
    BY <1>2, <1>4
  <2>2. (i + 1) + 1 \in DOMAIN ptyOut /\ Body(ptyOut[(i + 1) + 1])
    BY <2>1 DEF OneLine
  <2>3. i + 1 \in Nat /\ i + 1 # 0
    BY <2>1
  <2>4. QED
    BY <1>2, <2>2, <2>3
<1>5. ASSUME NEW i \in DOMAIN ptyOut', Body(ptyOut'[i]), i + 1 \in DOMAIN ptyOut'
      PROVE  Closes(ptyOut'[i + 1])
  <2>1. i + 1 \in DOMAIN ptyOut /\ Body(ptyOut[i + 1])
    BY <1>2, <1>5
  <2>2. (i + 1) + 1 \in DOMAIN ptyOut /\ ptyOut'[i + 1] = ptyOut[(i + 1) + 1]
    BY <1>2, <1>5
  <2>3. QED
    BY <2>1, <2>2 DEF OneLine
<1>6. InBlock => Continues(l) /\ l.num = matched
  BY <1>1 DEF Framed, Ends, Seen
<1>7. inFlight # None => InBlock
  BY DEF InBlock
<1>8. ASSUME rpc' = "match" PROVE inFlight' = None /\ ptyOut' # <<>> /\ Body(ptyOut'[1])
  <2>1. Begins(l)
    BY <1>8 DEF l
  <2>2. 1 + 1 \in DOMAIN ptyOut /\ Body(ptyOut[1 + 1])
    BY <1>1, <1>3, <2>1 DEF OneLine
  <2>3. ptyOut' # <<>> /\ ptyOut'[1] = ptyOut[2]
    <3>1. 1 \in DOMAIN ptyOut'
      BY <1>2, <2>2
    <3>2. DOMAIN <<>> = {}
      OBVIOUS
    <3>3. QED
      BY <1>3, <3>1, <3>2
  <2>4. inFlight' = None
    BY <1>6, <1>7, <2>1 DEF Body, Begins, l
  <2>5. QED
    BY <2>2, <2>3, <2>4
<1>9. ASSUME inFlight' # None
      PROVE  buf' = IF ptyOut' # <<>> /\ Body(ptyOut'[1]) THEN <<>> ELSE <<matched'>>
  <2>1. inFlight # None /\ Body(l) /\ buf' = Append(buf, l.num)
    BY <1>9 DEF l
  <2>2. buf = <<>> /\ l.num = matched
    BY <1>1, <1>6, <1>7, <2>1 DEF OneLine
  <2>3. buf' = <<matched>>
    BY <2>1, <2>2
  <2>4. ptyOut' # <<>> => ~Body(ptyOut'[1])
    <3>1. ptyOut' # <<>> => 1 + 1 \in DOMAIN ptyOut /\ Closes(ptyOut[1 + 1])
      BY <1>1, <1>3, <2>1 DEF OneLine
    <3>2. QED
      BY <1>3, <3>1 DEF Closes, Body
  <2>5. QED
    BY <2>3, <2>4
<1>10. QED
  BY <1>4, <1>5, <1>8, <1>9 DEF OneLine

LEMMA OneLineKeeps ==
    ASSUME OneLine, UNCHANGED <<ptyOut, matched>>, rpc' = "match" => rpc = "match",
           inFlight' # None => UNCHANGED <<inFlight, buf>>
    PROVE  OneLine'
BY DEF OneLine

LEMMA OneLineStep == TypeInv /\ Framed /\ OneLine /\ [Next]_vars => OneLine'
<1> SUFFICES ASSUME TypeInv, Framed, OneLine, [Next]_vars PROVE OneLine'
  OBVIOUS
<1> USE DEF callVars, writeVars, readVars, eventVars, childVars
<1>1. ASSUME UNCHANGED <<ptyOut, matched, rpc, inFlight, buf>> PROVE OneLine'
  BY <1>1, OneLineKeeps
<1>2. CASE ReaderStops \/ CoalesceSent \/ CoalesceTimeout \/ CoalesceClosed
           \/ ReaderSend \/ ReaderDrain \/ ReaderDrop
  <2>1. /\ UNCHANGED <<ptyOut, matched>>
        /\ rpc' = "match" => rpc = "match"
        /\ inFlight' # None => UNCHANGED <<inFlight, buf>>
    BY <1>2 DEF ReaderStops, CoalesceSent, CoalesceTimeout, CoalesceClosed, ReaderSend,
       ReaderDrain, ReaderDrop, ReaderLeaves
  <2>2. QED
    BY <2>1, OneLineKeeps
<1>3. CASE ReaderMatch
  <2>1. UNCHANGED ptyOut /\ rpc = "match" /\ rpc' = "select"
    BY <1>3 DEF ReaderMatch
  <2>2. inFlight = None /\ ptyOut # <<>> /\ Body(ptyOut[1])
    BY <2>1 DEF OneLine
  <2>3. inFlight' # None => buf' = <<>>
    BY <1>3, <2>2 DEF ReaderMatch
  <2>4. QED
    BY <2>1, <2>2, <2>3 DEF OneLine
<1>4. CASE ReadBegin \/ ReadData \/ ReadEnd \/ ReadOutput \/ ReadNotice
  <2>1. /\ rpc = "select" /\ ptyOut # <<>> /\ ptyOut' = Tail(ptyOut) /\ UNCHANGED matched
    BY <1>4 DEF ReadBegin, ReadData, ReadEnd, ReadOutput, ReadNotice, Reading
  <2>2. rpc' = "match" <=> Begins(Head(ptyOut))
    BY <1>4 DEF ReadBegin, ReadData, ReadEnd, ReadOutput, ReadNotice, Reading, Begins,
       ReaderLeaves
  <2>3. inFlight # None => Continues(Head(ptyOut))
    <3>1. Head(ptyOut) = ptyOut[1]
      BY <2>1, TailFacts DEF TypeInv, TypeOK, ChildTypeOK
    <3>2. QED
      BY <2>1, <3>1 DEF Framed, Ends, InBlock
  <2>4. inFlight' # None => inFlight # None
    BY <1>4 DEF ReadBegin, ReadData, ReadEnd, ReadOutput, ReadNotice, Reading, ReaderLeaves
  <2>5. inFlight # None => ReadData \/ ReadEnd
    BY <1>4, <2>3 DEF ReadBegin, ReadOutput, ReadNotice, Reading, Continues
  <2>6. inFlight # None /\ ReadEnd => inFlight' = None
    BY <2>3 DEF ReadEnd, Reading, Continues
  <2>7. inFlight # None /\ ReadData =>
           UNCHANGED inFlight /\ Body(Head(ptyOut)) /\ buf' = Append(buf, Head(ptyOut).num)
    BY <2>3 DEF ReadData, Reading, Continues, Body
  <2>8. QED
    BY <2>1, <2>2, <2>4, <2>5, <2>6, <2>7, OneLineReads
<1>5. CASE TmuxBegin \/ TmuxEnd \/ TmuxOutput \/ TmuxNote \/ TmuxLeaves
  <2>1. UNCHANGED <<matched, rpc, inFlight, buf>>
    BY <1>5 DEF TmuxBegin, TmuxEnd, TmuxOutput, TmuxNote, TmuxLeaves, TmuxUnchanged
  <2>2. QED
    BY <1>5, <2>1, TmuxBodies, OneLineWrites
<1>6. ASSUME NEW c \in Commands, Caller(c) PROVE OneLine'
  BY <1>1, <1>6 DEF Caller, Call, Enqueue, Refused, Timeout, Abandon
<1>7. CASE ShutdownDetach \/ ShutdownCancel \/ CancelToken
  BY <1>1, <1>7 DEF ShutdownDetach, ShutdownCancel, CancelToken
<1>8. CASE Writer
  BY <1>1, <1>8 DEF Writer, WriterCancelled, WriterRecv, WriterRegister, WriterUnregistered,
     WriterWrite, WriterWriteFails
<1>9. CASE Supervisor
  BY <1>1, <1>9 DEF Supervisor, SupervisorKills, SupervisorReaps, SupervisorReport,
     SupervisorCancels
<1>10. CASE Consumer \/ ChildExits
  BY <1>1, <1>10 DEF Consumer, ConsumerRecv, ConsumerEnds, ConsumerDrops, ChildExits,
     TmuxUnchanged
<1>11. CASE UNCHANGED vars
  BY <1>1, <1>11 DEF vars
<1>12. QED
  BY <1>2, <1>3, <1>4, <1>5, <1>6, <1>7, <1>8, <1>9, <1>10, <1>11 DEF Next, Reader, Tmux

--------------------------------------------------------------------------------
(* Where the sender a caller waits for can be: a waiting caller's is there,  *)
(* and the places are empty when their owners are gone.                    *)
Custody == Elems(cmdChan) \cup Hand \cup Elems(pendingChan) \cup Elems(pending)
               \cup {inFlight}

Held == \A c \in Commands : call[c] = "waiting" => c \in Custody

Emptied ==
    /\ wpc = "done" => cmdChan = <<>>
    /\ rpc \in {"drain", "drop", "done"} => inFlight = None
    /\ rpc \in {"drop", "done"} => pending = <<>>
    /\ rpc = "done" => pendingChan = <<>>

(* The elements of a sequence that grows at its end, loses its head, is     *)
(* joined to another.                                                      *)
LEMMA ElemsWithin ==
    ASSUME NEW s, NEW X, \A i \in DOMAIN s : s[i] \in X
    PROVE  Elems(s) \subseteq X
BY DEF Elems

LEMMA ElemsHave ==
    ASSUME NEW s, NEW i \in DOMAIN s
    PROVE  s[i] \in Elems(s)
BY DEF Elems

LEMMA ElemsEmpty == Elems(<<>>) = {}
<1>1. DOMAIN <<>> = {}
  OBVIOUS
<1>2. QED
  BY <1>1 DEF Elems

LEMMA ElemsAppend ==
    ASSUME NEW S, NEW s \in Seq(S), NEW x \in S
    PROVE  Elems(Append(s, x)) = Elems(s) \cup {x}
<1>1. /\ Len(s) \in Nat /\ DOMAIN s = 1..Len(s)
      /\ DOMAIN Append(s, x) = 1..(Len(s) + 1)
      /\ \A i \in 1..Len(s) : Append(s, x)[i] = s[i]
      /\ Append(s, x)[Len(s) + 1] = x
  BY AppendFacts
<1>2. \A i : i \in DOMAIN Append(s, x) <=> i \in DOMAIN s \/ i = Len(s) + 1
  BY <1>1
<1>3. /\ \A i \in DOMAIN Append(s, x) :
            (i \in DOMAIN s /\ Append(s, x)[i] = s[i]) \/ Append(s, x)[i] = x
      /\ \A i \in DOMAIN s : i \in DOMAIN Append(s, x) /\ Append(s, x)[i] = s[i]
      /\ Len(s) + 1 \in DOMAIN Append(s, x)
  BY <1>1, <1>2
<1>4. Elems(Append(s, x)) \subseteq Elems(s) \cup {x}
  <2>1. \A i \in DOMAIN Append(s, x) : Append(s, x)[i] \in Elems(s) \cup {x}
    BY <1>3, ElemsHave
  <2>2. QED
    BY <2>1, ElemsWithin
<1>5. Elems(s) \subseteq Elems(Append(s, x))
  <2>1. \A i \in DOMAIN s : s[i] \in Elems(Append(s, x))
    BY <1>3, ElemsHave
  <2>2. QED
    BY <2>1, ElemsWithin
<1>6. x \in Elems(Append(s, x))
  BY <1>1, <1>3, ElemsHave
<1>7. QED
  BY <1>4, <1>5, <1>6

LEMMA ElemsTail ==
    ASSUME NEW S, NEW s \in Seq(S), s # <<>>
    PROVE  Elems(s) = {Head(s)} \cup Elems(Tail(s))
<1>1. /\ Head(s) = s[1] /\ Len(s) \in Nat /\ Len(s) > 0
      /\ DOMAIN s = 1..Len(s) /\ DOMAIN Tail(s) = 1..(Len(s) - 1)
      /\ \A i \in 1..Len(s) - 1 : Tail(s)[i] = s[i + 1]
  BY TailFacts
<1>2. /\ 1 \in DOMAIN s
      /\ \A i \in DOMAIN Tail(s) : i + 1 \in DOMAIN s /\ Tail(s)[i] = s[i + 1]
      /\ \A i \in DOMAIN s : i = 1 \/ (i - 1 \in DOMAIN Tail(s) /\ Tail(s)[i - 1] = s[i])
  BY <1>1
<1>3. Elems(s) \subseteq {Head(s)} \cup Elems(Tail(s))
  <2>1. \A i \in DOMAIN s : s[i] \in {Head(s)} \cup Elems(Tail(s))
    BY <1>1, <1>2, ElemsHave
  <2>2. QED
    BY <2>1, ElemsWithin
<1>4. Elems(Tail(s)) \subseteq Elems(s)
  <2>1. \A i \in DOMAIN Tail(s) : Tail(s)[i] \in Elems(s)
    BY <1>2, ElemsHave
  <2>2. QED
    BY <2>1, ElemsWithin
<1>5. Head(s) \in Elems(s)
  BY <1>1, <1>2, ElemsHave
<1>6. QED
  BY <1>3, <1>4, <1>5

LEMMA ElemsConcat ==
    ASSUME NEW S, NEW s \in Seq(S), NEW t \in Seq(S)
    PROVE  Elems(s \o t) = Elems(s) \cup Elems(t)
<1>1. /\ Len(s) \in Nat /\ Len(t) \in Nat /\ DOMAIN s = 1..Len(s) /\ DOMAIN t = 1..Len(t)
      /\ DOMAIN (s \o t) = 1..(Len(s) + Len(t))
      /\ \A i \in 1..Len(s) : (s \o t)[i] = s[i]
      /\ \A i \in 1..Len(t) : (s \o t)[Len(s) + i] = t[i]
  BY ConcatFacts
<1>2. /\ \A i \in DOMAIN s : i \in DOMAIN (s \o t) /\ (s \o t)[i] = s[i]
      /\ \A i \in DOMAIN t : Len(s) + i \in DOMAIN (s \o t) /\ (s \o t)[Len(s) + i] = t[i]
  BY <1>1
<1>3. \A i \in DOMAIN (s \o t) :
         \/ i \in DOMAIN s /\ (s \o t)[i] = s[i]
         \/ i - Len(s) \in DOMAIN t /\ (s \o t)[i] = t[i - Len(s)]
  <2>1. \A i \in DOMAIN (s \o t) :
           i \in DOMAIN s \/ (i - Len(s) \in DOMAIN t /\ Len(s) + (i - Len(s)) = i)
    BY <1>1
  <2>2. QED
    BY <1>1, <1>2, <2>1
<1>4. Elems(s \o t) \subseteq Elems(s) \cup Elems(t)
  <2>1. \A i \in DOMAIN (s \o t) : (s \o t)[i] \in Elems(s) \cup Elems(t)
    BY <1>3, ElemsHave
  <2>2. QED
    BY <2>1, ElemsWithin
<1>5. Elems(s) \subseteq Elems(s \o t) /\ Elems(t) \subseteq Elems(s \o t)
  <2>1. /\ \A i \in DOMAIN s : s[i] \in Elems(s \o t)
        /\ \A i \in DOMAIN t : t[i] \in Elems(s \o t)
    BY <1>2, ElemsHave
  <2>2. QED
    BY <2>1, ElemsWithin
<1>6. QED
  BY <1>4, <1>5

LEMMA HeldInit == Init => Held /\ Emptied
BY DEF Init, Held, Emptied

LEMMA FailingFacts ==
    ASSUME NEW S, call' = Failing(S)
    PROVE  \A c \in Commands : call'[c] = "waiting" => call[c] = "waiting" /\ c \notin S
BY DEF Failing

LEMMA HeldStep == TypeInv /\ OneLine /\ Held /\ Emptied /\ [Next]_vars => Held'
<1> SUFFICES ASSUME TypeInv, OneLine, Held, Emptied, [Next]_vars PROVE Held'
  OBVIOUS
<1> USE DEF callVars, writeVars, readVars, eventVars, childVars
<1>1. /\ cmdChan \in Seq(AllCommands) /\ pendingChan \in Seq(AllCommands)
      /\ pending \in Seq(AllCommands) /\ None \notin Commands
      /\ call \in [Commands -> CallState]
      /\ wpc \in {"register", "write"} => wcmd \in AllCommands
  BY CommandsAssumption DEF TypeInv, TypeOK, WriterTypeOK, CallerTypeOK, ReaderTypeOK,
     HandOK, AllCommands
<1>2. ASSUME NEW S, call' = Failing(S),
             Custody \ S \subseteq Custody' \cup {None}
      PROVE  Held'
  BY <1>1, <1>2, FailingFacts DEF Held
<1>3. ASSUME UNCHANGED call, Custody \subseteq Custody' \cup {None} PROVE Held'
  BY <1>1, <1>3 DEF Held
<1>4. ASSUME UNCHANGED <<call, cmdChan, wpc, wcmd, pendingChan, pending, inFlight>>
      PROVE  Held'
  BY <1>3, <1>4 DEF Custody, Hand, Elems
<1>5. ASSUME NEW c \in Commands, Enqueue(c) PROVE Held'
  <2>1. /\ cmdChan' = Append(cmdChan, c) /\ call' = [call EXCEPT ![c] = "waiting"]
        /\ UNCHANGED <<wpc, wcmd, pendingChan, pending, inFlight>>
        /\ c \in AllCommands
    BY <1>5 DEF Enqueue, AllCommands
  <2>2. Elems(cmdChan') = Elems(cmdChan) \cup {c}
    BY <1>1, <2>1, ElemsAppend
  <2>3. Custody' = Custody \cup {c}
    BY <2>1, <2>2 DEF Custody, Hand
  <2>4. QED
    BY <1>1, <2>1, <2>3 DEF Held
<1>6. ASSUME NEW c \in Commands, Call(c) \/ Refused(c) \/ Timeout(c) \/ Abandon(c)
      PROVE  Held'
  <2>1. /\ UNCHANGED <<cmdChan, wpc, wcmd, pendingChan, pending, inFlight>>
        /\ \E s \in {"sending", "failed", "gaveup"} : call' = [call EXCEPT ![c] = s]
    BY <1>6 DEF Call, Refused, Timeout, Abandon
  <2>2. Custody' = Custody
    BY <2>1 DEF Custody, Hand, Elems
  <2>3. \A d \in Commands : call'[d] = "waiting" => call[d] = "waiting"
    BY <1>1, <2>1
  <2>4. QED
    BY <2>2, <2>3 DEF Held
<1>7. CASE ShutdownDetach
  <2>1. /\ cmdChan' = cmdChan \/ cmdChan' = Append(cmdChan, Detach)
        /\ UNCHANGED <<call, wpc, wcmd, pendingChan, pending, inFlight>>
        /\ Detach \in AllCommands
    BY <1>7 DEF ShutdownDetach, AllCommands
  <2>2. Elems(cmdChan) \subseteq Elems(cmdChan')
    <3>1. Elems(Append(cmdChan, Detach)) = Elems(cmdChan) \cup {Detach}
      BY <1>1, <2>1, ElemsAppend
    <3>2. QED
      BY <2>1, <3>1
  <2>3. QED
    BY <1>3, <2>1, <2>2 DEF Custody, Hand
<1>8. CASE ShutdownCancel \/ CancelToken
  BY <1>4, <1>8 DEF ShutdownCancel, CancelToken
<1>9. ASSUME NEW S, WriterLeaves(S), Hand \subseteq S,
             UNCHANGED <<pendingChan, pending, inFlight>>
      PROVE  Held'
  <2>1. call' = Failing(Elems(cmdChan) \cup S)
    BY <1>9 DEF WriterLeaves
  <2>2. Custody \ (Elems(cmdChan) \cup S) \subseteq Custody'
    BY <1>9 DEF Custody
  <2>3. QED
    BY <1>2, <2>1, <2>2
<1>10. CASE WriterCancelled \/ WriterUnregistered \/ WriterWriteFails
  <2>1. WriterCancelled \/ WriterWriteFails => Hand = {}
    BY DEF WriterCancelled, WriterWriteFails, Hand
  <2>2. Hand \subseteq {wcmd}
    BY DEF Hand
  <2>3. UNCHANGED <<pendingChan, pending, inFlight>>
    BY <1>10 DEF WriterCancelled, WriterUnregistered, WriterWriteFails
  <2>4. (WriterLeaves({}) /\ Hand = {}) \/ WriterLeaves({wcmd})
    BY <1>10, <2>1 DEF WriterCancelled, WriterUnregistered, WriterWriteFails
  <2>5. QED
    BY <1>9, <2>2, <2>3, <2>4
<1>11. CASE WriterRecv
  <2>1. /\ cmdChan # <<>> /\ cmdChan' = Tail(cmdChan) /\ wcmd' = Head(cmdChan)
        /\ wpc = "select" /\ wpc' = "register"
        /\ UNCHANGED <<call, pendingChan, pending, inFlight>>
    BY <1>11 DEF WriterRecv
  <2>2. Elems(cmdChan) = {wcmd'} \cup Elems(cmdChan') /\ wcmd' \in AllCommands
    BY <1>1, <2>1, ElemsTail, TailFacts
  <2>3. Hand = {} /\ Hand' = {wcmd'}
    BY <2>1, <2>2 DEF Hand
  <2>4. QED
    BY <1>3, <2>1, <2>2, <2>3 DEF Custody
<1>12. CASE WriterRegister
  <2>1. /\ wpc = "register" /\ pendingChan' = Append(pendingChan, wcmd)
        /\ UNCHANGED <<call, cmdChan, pending, inFlight>>
    BY <1>12 DEF WriterRegister
  <2>2. Elems(pendingChan') = Elems(pendingChan) \cup {wcmd}
    BY <1>1, <2>1, ElemsAppend
  <2>3. Hand \subseteq {wcmd}
    BY DEF Hand
  <2>4. QED
    BY <1>3, <2>1, <2>2, <2>3 DEF Custody
<1>13. CASE WriterWrite
  <2>1. Hand = {} /\ UNCHANGED <<call, cmdChan, pendingChan, pending, inFlight>>
    BY <1>13 DEF WriterWrite, Hand
  <2>2. QED
    BY <1>3, <2>1 DEF Custody
<1>14. ASSUME ReaderLeaves, UNCHANGED <<cmdChan, wpc, wcmd, pendingChan, pending>>
       PROVE  Held'
  <2>1. call' = Failing({inFlight})
    BY <1>14 DEF ReaderLeaves
  <2>2. Custody \ {inFlight} \subseteq Custody'
    BY <1>14 DEF Custody, Hand
  <2>3. QED
    BY <1>2, <2>1, <2>2
<1>15. CASE ReaderStops \/ CoalesceSent \/ CoalesceTimeout \/ CoalesceClosed \/ ReaderSend
            \/ ReadBegin \/ ReadData \/ ReadOutput \/ ReadNotice
  <2>1. UNCHANGED <<cmdChan, wpc, wcmd, pendingChan, pending>>
    BY <1>15 DEF ReaderStops, CoalesceSent, CoalesceTimeout, CoalesceClosed, ReaderSend,
       ReadBegin, ReadData, ReadOutput, ReadNotice, Reading
  <2>2. UNCHANGED <<call, inFlight>> \/ ReaderLeaves
    BY <1>15 DEF ReaderStops, CoalesceSent, CoalesceTimeout, CoalesceClosed, ReaderSend,
       ReadBegin, ReadData, ReadOutput, ReadNotice, Reading
  <2>3. QED
    BY <1>4, <1>14, <2>1, <2>2
<1>16. CASE ReadEnd
  <2>1. UNCHANGED <<cmdChan, wpc, wcmd, pendingChan, pending>>
    BY <1>16 DEF ReadEnd, Reading
  <2>2. CASE UNCHANGED <<call, inFlight>>
    BY <1>4, <2>1, <2>2
  <2>3. CASE UNCHANGED call /\ ~(inFlight \in Commands /\ call[inFlight] = "waiting")
    <3>1. Custody \ {inFlight} \subseteq Custody'
      BY <2>1 DEF Custody, Hand
    <3>2. QED
      BY <2>3, <3>1 DEF Held
  <2>4. CASE call' = [call EXCEPT ![inFlight] = "answered"]
    <3>1. Custody \ {inFlight} \subseteq Custody'
      BY <2>1 DEF Custody, Hand
    <3>2. \A c \in Commands : call'[c] = "waiting" => call[c] = "waiting" /\ c # inFlight
      BY <1>1, <2>4
    <3>3. QED
      BY <3>1, <3>2 DEF Held
  <2>5. QED
    BY <1>16, <2>2, <2>3, <2>4 DEF ReadEnd
<1>17. CASE ReaderMatch
  <2> DEFINE queue == pending \o pendingChan
  <2>1. /\ rpc = "match" /\ UNCHANGED <<call, cmdChan, wpc, wcmd>>
        /\ pendingChan' = <<>>
        /\ IF queue = <<>> THEN UNCHANGED <<pending, inFlight>>
           ELSE inFlight' = Head(queue) /\ pending' = Tail(queue)
    BY <1>17 DEF ReaderMatch
  <2>2. inFlight = None
    BY <2>1 DEF OneLine
  <2>3. /\ queue \in Seq(AllCommands)
        /\ Elems(queue) = Elems(pending) \cup Elems(pendingChan)
    BY <1>1, ElemsConcat, ConcatFacts
  <2> HIDE DEF queue
  <2>4. queue = <<>> => Elems(queue) = {}
    BY ElemsEmpty
  <2>5. queue # <<>> => Elems(queue) = {inFlight'} \cup Elems(pending')
    BY <2>1, <2>3, ElemsTail
  <2>6. Elems(pending) \cup Elems(pendingChan) \subseteq Elems(pending') \cup {inFlight'}
    BY <2>3, <2>4, <2>5
  <2>7. Elems(cmdChan') = Elems(cmdChan) /\ Hand' = Hand
    BY <2>1 DEF Elems, Hand
  <2>8. Custody' = Elems(cmdChan') \cup Hand' \cup Elems(pendingChan')
                     \cup Elems(pending') \cup {inFlight'}
    BY DEF Custody, Elems
  <2>9. Custody = Elems(cmdChan) \cup Hand \cup Elems(pendingChan)
                    \cup Elems(pending) \cup {None}
    BY <2>2 DEF Custody
  <2>10. Custody \subseteq Custody' \cup {None}
    BY <2>6, <2>7, <2>8, <2>9
  <2>11. QED
    BY <1>3, <2>1, <2>10
<1>18. CASE ReaderDrain
  <2>1. /\ call' = Failing(Elems(pending \o pendingChan))
        /\ UNCHANGED <<cmdChan, wpc, wcmd, inFlight>>
    BY <1>18 DEF ReaderDrain
  <2>2. Elems(pending \o pendingChan) = Elems(pending) \cup Elems(pendingChan)
    BY <1>1, ElemsConcat
  <2>3. Custody \ Elems(pending \o pendingChan) \subseteq Custody'
    BY <2>1, <2>2 DEF Custody, Hand
  <2>4. QED
    BY <1>2, <2>1, <2>3
<1>19. CASE ReaderDrop
  <2>1. /\ call' = Failing(Elems(pendingChan))
        /\ UNCHANGED <<cmdChan, wpc, wcmd, pending, inFlight>>
    BY <1>19 DEF ReaderDrop
  <2>2. Custody \ Elems(pendingChan) \subseteq Custody'
    BY <2>1 DEF Custody, Hand
  <2>3. QED
    BY <1>2, <2>1, <2>2
<1>20. CASE SupervisorReaps
  <2>1. /\ call' = Failing(Elems(pending))
        /\ UNCHANGED <<cmdChan, wpc, wcmd, pendingChan, inFlight>>
    BY <1>20 DEF SupervisorReaps
  <2>2. Custody \ Elems(pending) \subseteq Custody'
    BY <2>1 DEF Custody, Hand
  <2>3. QED
    BY <1>2, <2>1, <2>2
<1>21. CASE SupervisorKills \/ SupervisorReport \/ SupervisorCancels
  BY <1>4, <1>21 DEF SupervisorKills, SupervisorReport, SupervisorCancels
<1>22. CASE Consumer
  BY <1>4, <1>22 DEF Consumer, ConsumerRecv, ConsumerEnds, ConsumerDrops
<1>23. CASE Tmux
  BY <1>4, <1>23 DEF Tmux, TmuxBegin, TmuxEnd, TmuxOutput, TmuxNote, TmuxLeaves, ChildExits,
     TmuxUnchanged
<1>24. CASE UNCHANGED vars
  BY <1>4, <1>24 DEF vars
<1>25. QED
  BY <1>5, <1>6, <1>7, <1>8, <1>10, <1>11, <1>12, <1>13, <1>15, <1>16, <1>17, <1>18, <1>19,
     <1>20, <1>21, <1>22, <1>23, <1>24 DEF Next, Caller, Writer, Reader, Supervisor

LEMMA EmptiedStep == Emptied /\ [Next]_vars => Emptied'
<1> SUFFICES ASSUME Emptied, [Next]_vars PROVE Emptied'
  OBVIOUS
<1> USE DEF callVars, writeVars, readVars, eventVars, childVars, Emptied
<1>1. ASSUME NEW c \in Commands, Caller(c) PROVE Emptied'
  BY <1>1 DEF Caller, Call, Enqueue, Refused, Timeout, Abandon, WriterGone
<1>2. CASE ShutdownDetach \/ ShutdownCancel \/ CancelToken
  BY <1>2 DEF ShutdownDetach, ShutdownCancel, CancelToken, WriterGone
<1>3. CASE Writer
  BY <1>3 DEF Writer, WriterCancelled, WriterRecv, WriterRegister, WriterUnregistered,
     WriterWrite, WriterWriteFails, WriterLeaves, ReaderGone
<1>4. CASE ReaderStops \/ ReadBegin \/ ReadData \/ ReadEnd \/ ReadOutput \/ ReadNotice
  BY <1>4 DEF ReaderStops, ReadBegin, ReadData, ReadEnd, ReadOutput, ReadNotice, Reading,
     ReaderLeaves
<1>5. CASE ReaderMatch \/ ReaderDrain \/ ReaderDrop
  BY <1>5 DEF ReaderMatch, ReaderDrain, ReaderDrop
<1>6. CASE CoalesceSent \/ CoalesceTimeout \/ CoalesceClosed \/ ReaderSend
  BY <1>6 DEF CoalesceSent, CoalesceTimeout, CoalesceClosed, ReaderSend, ReaderLeaves
<1>7. CASE Supervisor
  BY <1>7 DEF Supervisor, SupervisorKills, SupervisorReaps, SupervisorReport,
     SupervisorCancels
<1>8. CASE Consumer \/ Tmux
  BY <1>8 DEF Consumer, ConsumerRecv, ConsumerEnds, ConsumerDrops, Tmux, TmuxBegin,
     TmuxEnd, TmuxOutput, TmuxNote, TmuxLeaves, ChildExits, TmuxUnchanged
<1>9. CASE UNCHANGED vars
  BY <1>9 DEF vars
<1>10. QED
  BY <1>1, <1>2, <1>3, <1>4, <1>5, <1>6, <1>7, <1>8, <1>9 DEF Next, Reader

(* The inductive invariant behind the two theorems that follow. *)
ServiceInv == TypeInv /\ Aligned /\ Once /\ OneLine /\ Held /\ Emptied

LEMMA ServiceInvInit == Init => ServiceInv
BY TypeInvInit, AlignedInit, OnceInit, OneLineInit, HeldInit DEF ServiceInv

LEMMA ServiceInvStep == ServiceInv /\ [Next]_vars => ServiceInv'
<1> SUFFICES ASSUME ServiceInv, [Next]_vars PROVE ServiceInv'
  OBVIOUS
<1>1. TypeInv'
  BY TypeInvStep DEF ServiceInv
<1>2. Ordered' /\ Queued' /\ Framed' /\ InFlightOwn'
  BY <1>1, OrderedStep, QueuedStep, FramedStep, InFlightStep DEF ServiceInv, Aligned
<1>3. Once' /\ OneLine' /\ Held' /\ Emptied'
  BY OnceStep, OneLineStep, HeldStep, EmptiedStep DEF ServiceInv, Aligned
<1>4. QED
  BY <1>1, <1>2, <1>3 DEF ServiceInv, Aligned

(* When writer and reader are gone, however they ended and whatever was in   *)
(* flight or queued, no caller is left to its timeout (control_mode.rs:411).  *)
THEOREM NobodyStranded == Spec => []NoCallStranded
<1>1. ServiceInv => NoCallStranded
  <2> SUFFICES ASSUME ServiceInv, WriterGone, ReaderGone,
                      NEW c \in Commands, call[c] = "waiting"
               PROVE  FALSE
    BY DEF NoCallStranded
  <2>1. /\ Hand = {} /\ cmdChan = <<>> /\ pendingChan = <<>> /\ pending = <<>>
        /\ inFlight = None
    BY DEF ServiceInv, Emptied, WriterGone, ReaderGone, Hand
  <2>3. Custody = {None}
    BY <2>1, ElemsEmpty DEF Custody
  <2>4. QED
    BY <2>3, CommandsAssumption DEF ServiceInv, Held, AllCommands
<1>2. QED
  BY <1>1, ServiceInvInit, ServiceInvStep, PTL DEF Spec

--------------------------------------------------------------------------------
(* The refinement: each action of the driver is one of the service, or      *)
(* leaves what the service speaks of alone.                                *)

LEMMA ServiceFails ==
    ASSUME TypeInv, UNCHANGED <<reply, ran>>, NEW S, call' = Failing(S)
    PROVE  Service!SNext
<1> DEFINE T == {c \in Commands : c \in S /\ call[c] = "waiting"}
<1>1. T \in SUBSET Commands /\ \A c \in T : call[c] = "waiting"
  OBVIOUS
<1>2. call' = [c \in Commands |-> IF c \in T THEN "failed" ELSE call[c]]
  BY DEF Failing
<1>3. Service!Fail(T)
  BY <1>1, <1>2 DEF Service!Fail
<1>4. QED
  BY <1>1, <1>3 DEF Service!SNext

LEMMA ServiceRuns ==
    ASSUME ServiceInv, TmuxBegin
    PROVE  Service!SNext
<1>1. /\ tmuxIn \in Seq(AllCommands) /\ registered \in Seq(AllCommands)
      /\ ran \in Seq([cmd : AllCommands, ok : BOOLEAN])
      /\ Len(ran) \in Nat /\ Len(tmuxIn) \in Nat /\ Len(registered) \in Nat
      /\ DOMAIN registered = 1..Len(registered) /\ DOMAIN ran = 1..Len(ran)
  BY DEF ServiceInv, TypeInv, TypeOK, WriterTypeOK, ChildTypeOK
<1>2. /\ tmuxIn # <<>> /\ UNCHANGED <<call, reply>>
      /\ \E ok \in BOOLEAN : ran' = Append(ran, [cmd |-> Head(tmuxIn), ok |-> ok])
  BY DEF TmuxBegin, TmuxUnchanged, callVars
<1> DEFINE d == Head(tmuxIn)
           n == Len(ran) + 1
<1>3. d \in AllCommands /\ d = tmuxIn[1] /\ Len(tmuxIn) > 0 /\ 1 \in DOMAIN tmuxIn
  BY <1>1, <1>2, TailFacts
<1>4. d = registered[n] /\ n \in DOMAIN registered
  <2>1. /\ tmuxIn[1] = registered[Len(ran) + 1]
        /\ Len(ran) + Len(tmuxIn) <= Len(registered)
    BY <1>3 DEF ServiceInv, Aligned, Ordered
  <2>2. QED
    BY <1>1, <1>3, <2>1
<1>5. ~Service!HasRun(d)
  <2> SUFFICES ASSUME NEW k \in DOMAIN ran, ran[k].cmd = d PROVE FALSE
    BY DEF Service!HasRun
  <2>1. registered[k] = registered[n]
    BY <1>4 DEF ServiceInv, Aligned, Ordered
  <2>2. k \in DOMAIN registered /\ k # n
    BY <1>1, <1>4
  <2>3. QED
    BY <1>4, <2>1, <2>2 DEF ServiceInv, Once
<1>6. d \in Commands => call[d] \notin {"idle", "sending"}
  <2>1. d \notin Unsent
    BY <1>4 DEF ServiceInv, Once
  <2>2. QED
    BY <1>3, <2>1, CommandsAssumption DEF Unsent
<1> HIDE DEF d
<1>7. PICK ok \in BOOLEAN : ran' = Append(ran, [cmd |-> d, ok |-> ok])
  BY <1>2 DEF d
<1>8. Service!Run(d, ok)
  BY <1>2, <1>5, <1>6, <1>7 DEF Service!Run
<1>9. QED
  BY <1>3, <1>8 DEF Service!SNext, AllCommands

LEMMA ServiceAnswers ==
    ASSUME ServiceInv, ReadEnd, ~UNCHANGED <<call, reply>>
    PROVE  Service!SNext
<1> DEFINE l == Head(ptyOut)
           c == inFlight
<1>1. /\ ptyOut # <<>> /\ ~cancelled /\ rpc = "select" /\ l.kind \in {"end", "error"}
      /\ l.flags = 1 /\ c # None /\ c \in Commands /\ call[c] = "waiting"
      /\ call' = [call EXCEPT ![c] = "answered"]
      /\ reply' = [reply EXCEPT ![c] = [ok |-> l.kind = "end", body |-> buf]]
      /\ UNCHANGED ran
  BY DEF ReadEnd, Reading
<1>2. l = ptyOut[1] /\ 1 \in DOMAIN ptyOut
  BY <1>1, TailFacts DEF ServiceInv, TypeInv, TypeOK, ChildTypeOK
<1> HIDE DEF l
<1>3. Closes(l) /\ ~Body(l)
  BY <1>1 DEF Closes, Body
<1>4. l.num = matched
  BY <1>1, <1>2 DEF ServiceInv, Aligned, Framed, Ends, InBlock, Seen
<1>5. matched \in DOMAIN ran /\ ((l.kind = "end") <=> ran[matched].ok)
  BY <1>2, <1>3, <1>4 DEF ServiceInv, Aligned, Framed, Verdicts
<1>6. ran[matched].cmd = c
  BY <1>1, <1>5 DEF ServiceInv, Aligned, InFlightOwn, Ordered
<1>7. buf = <<matched>>
  BY <1>1, <1>2, <1>3 DEF ServiceInv, OneLine
<1>8. ran[matched].ok \in BOOLEAN
  <2>1. ran \in Seq([cmd : AllCommands, ok : BOOLEAN])
    BY DEF ServiceInv, TypeInv, TypeOK, ChildTypeOK
  <2>2. ran[matched] \in [cmd : AllCommands, ok : BOOLEAN]
    BY <1>5, <2>1, ElementFacts
  <2>3. QED
    BY <2>2
<1>9. (l.kind = "end") = ran[matched].ok
  BY <1>5, <1>8
<1>10. reply' = [reply EXCEPT ![c] = [ok |-> ran[matched].ok, body |-> <<matched>>]]
  BY <1>1, <1>7, <1>9
<1> HIDE DEF c
<1>11. Service!Answer(c)
  BY <1>1, <1>5, <1>6, <1>10 DEF Service!Answer
<1>12. QED
  BY <1>1, <1>11 DEF Service!SNext

LEMMA ServiceStep == ServiceInv /\ [Next]_vars => [Service!SNext]_(Service!svars)
<1> SUFFICES ASSUME ServiceInv, [Next]_vars PROVE Service!SNext \/ UNCHANGED <<call, reply, ran>>
  BY DEF Service!svars
<1> USE DEF callVars, writeVars, readVars, eventVars, childVars
<1>1. TypeInv
  BY DEF ServiceInv
<1>2. ASSUME UNCHANGED <<reply, ran>>, \E S : call' = Failing(S) \/ call' = call
      PROVE  Service!SNext \/ UNCHANGED <<call, reply, ran>>
  BY <1>1, <1>2, ServiceFails
<1>3. ASSUME NEW c \in Commands, Caller(c) PROVE Service!SNext
  <2>1. \/ Service!Start(c) \/ Service!Accept(c) \/ Service!GiveUp(c) \/ Service!Refuse(c)
    BY <1>3 DEF Caller, Call, Enqueue, Refused, Timeout, Abandon, Service!Start,
       Service!Accept, Service!GiveUp, Service!Refuse
  <2>2. QED
    BY <2>1 DEF Service!SNext
<1>4. CASE ShutdownDetach \/ ShutdownCancel \/ CancelToken
  BY <1>4 DEF ShutdownDetach, ShutdownCancel, CancelToken
<1>5. CASE Writer
  BY <1>2, <1>5 DEF Writer, WriterCancelled, WriterRecv, WriterRegister, WriterUnregistered,
     WriterWrite, WriterWriteFails, WriterLeaves
<1>6. CASE ReaderStops \/ ReadBegin \/ ReadData \/ ReadOutput \/ ReadNotice \/ ReaderMatch
  BY <1>2, <1>6 DEF ReaderStops, ReadBegin, ReadData, ReadOutput, ReadNotice, Reading,
     ReaderMatch, ReaderLeaves
<1>7. CASE ReadEnd
  <2>1. UNCHANGED ran
    BY <1>7 DEF ReadEnd, Reading
  <2>2. QED
    BY <1>7, <2>1, ServiceAnswers
<1>8. CASE CoalesceSent \/ CoalesceTimeout \/ CoalesceClosed \/ ReaderSend
           \/ ReaderDrain \/ ReaderDrop
  BY <1>2, <1>8 DEF CoalesceSent, CoalesceTimeout, CoalesceClosed, ReaderSend, ReaderDrain,
     ReaderDrop, ReaderLeaves
<1>9. CASE Supervisor
  BY <1>2, <1>9 DEF Supervisor, SupervisorKills, SupervisorReaps, SupervisorReport,
     SupervisorCancels
<1>10. CASE Consumer
  BY <1>10 DEF Consumer, ConsumerRecv, ConsumerEnds, ConsumerDrops
<1>11. CASE TmuxBegin
  BY <1>11, ServiceRuns
<1>12. CASE TmuxEnd \/ TmuxOutput \/ TmuxNote \/ TmuxLeaves \/ ChildExits
  BY <1>12 DEF TmuxEnd, TmuxOutput, TmuxNote, TmuxLeaves, ChildExits, TmuxUnchanged
<1>13. CASE UNCHANGED vars
  BY <1>13 DEF vars
<1>14. QED
  BY <1>3, <1>4, <1>5, <1>6, <1>7, <1>8, <1>9, <1>10, <1>11, <1>12, <1>13
     DEF Next, Reader, Tmux

(* The driver implements the service: a command runs at most once and only  *)
(* if it was accepted, each call has one outcome, and an answer is the      *)
(* whole block of its command's own run.                                   *)
THEOREM ServiceImplemented == Spec => ImplementsService
<1>1. Init => Service!SInit
  BY DEF Init, Service!SInit, NoReply
<1>2. QED
  BY <1>1, ServiceInvInit, ServiceInvStep, ServiceStep, PTL
     DEF Spec, ImplementsService, Service!SSpec

--------------------------------------------------------------------------------
(* The pane's output.  Numbers(s): the %output lines in s.                  *)
Outputs(s)  == {i \in DOMAIN s : s[i].kind = "output"}
Numbers(s)  == {s[i].num : i \in Outputs(s)}
Climbs(s)   == \A i, j \in Outputs(s) : i < j => s[i].num < s[j].num
Below(A, B) == \A a \in A, b \in B : a < b
NumberOf(l) == IF l.kind = "output" THEN {l.num} ELSE {}

(* The line the reader holds back while the channel is full. *)
HeldBack == IF rpc = "coalesce" THEN {rline.num} ELSE {}

(* What has passed into the channel goes on from what was heard. *)
Passed ==
    /\ Climbs(eventChan)
    /\ \A n \in Numbers(eventChan) :
          n > heard /\ \A m \in heard + 1..n : m \in Numbers(eventChan)
    /\ consumer # "reading" => eventChan = <<>>
    /\ rpc = "send" => rline.kind # "output"
    /\ rpc = "coalesce" => rline.kind = "output"

(* As long as the reader is in its loop, what was not heard is on its way,   *)
(* each line once and in order.                                            *)
InLoop == consumer = "reading" /\ rpc \in {"select", "match", "coalesce", "send"}

Coming ==
    InLoop =>
      /\ Climbs(ptyOut)
      /\ Below(Numbers(eventChan), HeldBack \cup Numbers(ptyOut))
      /\ Below(HeldBack, Numbers(ptyOut))
      /\ heard <= emitted
      /\ Numbers(eventChan) \cup HeldBack \cup Numbers(ptyOut) = heard + 1..emitted

LEMMA NumbersEmpty == Numbers(<<>>) = {} /\ Climbs(<<>>)
<1>1. DOMAIN <<>> = {}
  OBVIOUS
<1>2. QED
  BY <1>1 DEF Numbers, Outputs, Climbs

LEMMA NumbersWithin ==
    ASSUME NEW s, NEW X, \A i \in Outputs(s) : s[i].num \in X
    PROVE  Numbers(s) \subseteq X
BY DEF Numbers

LEMMA NumbersHave ==
    ASSUME NEW s, NEW i \in Outputs(s)
    PROVE  s[i].num \in Numbers(s)
BY DEF Numbers

LEMMA NumbersAre ==
    ASSUME NEW s, NEW n \in Numbers(s)
    PROVE  \E i \in Outputs(s) : s[i].num = n
BY DEF Numbers

LEMMA NumbersType ==
    ASSUME NEW s \in Seq(Line)
    PROVE  Numbers(s) \subseteq Nat
<1>1. \A i \in Outputs(s) : s[i].num \in Nat
  BY ElementFacts, LineFacts DEF Outputs
<1>2. QED
  BY <1>1, NumbersWithin

LEMMA NumbersAppend ==
    ASSUME NEW s \in Seq(Line), NEW l \in Line
    PROVE  /\ Numbers(Append(s, l)) = Numbers(s) \cup NumberOf(l)
           /\ Climbs(s) /\ Below(Numbers(s), NumberOf(l)) => Climbs(Append(s, l))
<1> DEFINE t == Append(s, l)
<1>1. /\ Len(s) \in Nat /\ DOMAIN s = 1..Len(s) /\ DOMAIN t = 1..(Len(s) + 1)
      /\ \A i \in 1..Len(s) : t[i] = s[i]
      /\ t[Len(s) + 1] = l
  BY AppendFacts
<1>2. /\ \A i \in Outputs(t) :
            (i \in Outputs(s) /\ t[i] = s[i]) \/ (i = Len(s) + 1 /\ t[i] = l /\ l.kind = "output")
      /\ \A i \in Outputs(s) : i \in Outputs(t) /\ t[i] = s[i] /\ i < Len(s) + 1 /\ i \in Nat
      /\ l.kind = "output" => Len(s) + 1 \in Outputs(t)
  BY <1>1 DEF Outputs
<1> HIDE DEF t
<1>3. Numbers(t) \subseteq Numbers(s) \cup NumberOf(l)
  <2>1. \A i \in Outputs(t) : t[i].num \in Numbers(s) \cup NumberOf(l)
    BY <1>2, NumbersHave DEF NumberOf
  <2>2. QED
    BY <2>1, NumbersWithin
<1>4. Numbers(s) \subseteq Numbers(t)
  <2>1. \A i \in Outputs(s) : s[i].num \in Numbers(t)
    BY <1>2, NumbersHave
  <2>2. QED
    BY <2>1, NumbersWithin
<1>5. NumberOf(l) \subseteq Numbers(t)
  BY <1>1, <1>2, NumbersHave DEF NumberOf
<1>6. ASSUME Climbs(s), Below(Numbers(s), NumberOf(l)) PROVE Climbs(t)
  <2> SUFFICES ASSUME NEW i \in Outputs(t), NEW j \in Outputs(t), i < j
               PROVE  t[i].num < t[j].num
    BY DEF Climbs
  <2>1. CASE j \in Outputs(s) /\ i \in Outputs(s)
    BY <1>2, <1>6, <2>1 DEF Climbs
  <2>2. CASE j = Len(s) + 1 /\ t[j] = l /\ l.kind = "output" /\ i \in Outputs(s)
    BY <1>2, <1>6, <2>2, NumbersHave DEF Below, NumberOf
  <2>3. CASE i = Len(s) + 1
    <3>1. j \in 1..(Len(s) + 1)
      BY <1>1 DEF Outputs
    <3>2. QED
      BY <1>1, <2>3, <3>1
  <2>4. QED
    BY <1>2, <2>1, <2>2, <2>3
<1>7. QED
  BY <1>3, <1>4, <1>5, <1>6 DEF t

LEMMA NumbersTail ==
    ASSUME NEW s \in Seq(Line), s # <<>>
    PROVE  /\ Numbers(s) = NumberOf(Head(s)) \cup Numbers(Tail(s))
           /\ Climbs(s) => Climbs(Tail(s)) /\ Below(NumberOf(Head(s)), Numbers(Tail(s)))
<1> DEFINE h == Head(s)
           t == Tail(s)
<1>1. /\ h = s[1] /\ Len(s) \in Nat /\ Len(s) > 0
      /\ DOMAIN s = 1..Len(s) /\ DOMAIN t = 1..(Len(s) - 1)
      /\ \A i \in 1..Len(s) - 1 : t[i] = s[i + 1]
  BY TailFacts
<1> HIDE DEF h, t
<1>2. /\ \A i \in DOMAIN t : i + 1 \in DOMAIN s /\ t[i] = s[i + 1] /\ i \in Nat /\ 1 < i + 1
      /\ \A i \in DOMAIN s : i = 1 \/ (i - 1 \in DOMAIN t /\ t[i - 1] = s[i])
      /\ 1 \in DOMAIN s
  BY <1>1
<1>3. /\ \A i \in Outputs(t) : i + 1 \in Outputs(s) /\ t[i] = s[i + 1] /\ i \in Nat /\ 1 < i + 1
      /\ \A i \in Outputs(s) : i = 1 \/ (i - 1 \in Outputs(t) /\ t[i - 1] = s[i])
      /\ 1 \in Outputs(s) <=> h.kind = "output"
  BY <1>1, <1>2 DEF Outputs
<1>4. Numbers(s) \subseteq NumberOf(h) \cup Numbers(t)
  <2>1. \A i \in Outputs(s) : s[i].num \in NumberOf(h) \cup Numbers(t)
    BY <1>1, <1>3, NumbersHave DEF NumberOf
  <2>2. QED
    BY <2>1, NumbersWithin
<1>5. Numbers(t) \subseteq Numbers(s)
  <2>1. \A i \in Outputs(t) : t[i].num \in Numbers(s)
    BY <1>3, NumbersHave
  <2>2. QED
    BY <2>1, NumbersWithin
<1>6. NumberOf(h) \subseteq Numbers(s)
  BY <1>1, <1>3, NumbersHave DEF NumberOf
<1>7. ASSUME Climbs(s) PROVE Climbs(t) /\ Below(NumberOf(h), Numbers(t))
  <2>1. ASSUME NEW i \in Outputs(t), NEW j \in Outputs(t), i < j PROVE t[i].num < t[j].num
    <3>1. i + 1 < j + 1
      BY <1>3, <2>1
    <3>2. QED
      BY <1>3, <1>7, <3>1 DEF Climbs
  <2>2. ASSUME h.kind = "output", NEW n \in Numbers(t) PROVE h.num < n
    <3>1. PICK i \in Outputs(t) : t[i].num = n
      BY NumbersAre
    <3>2. s[1].num < s[i + 1].num
      BY <1>3, <1>7, <2>2 DEF Climbs
    <3>3. QED
      BY <1>1, <1>3, <3>1, <3>2
  <2>3. QED
    BY <2>1, <2>2 DEF Climbs, Below, NumberOf
<1>8. QED
  BY <1>4, <1>5, <1>6, <1>7 DEF h, t

(* Lines that are no output leave the stream alone. *)
LEMMA NumbersConcat ==
    ASSUME NEW s \in Seq(Line), NEW t \in Seq(Line),
           \A i \in DOMAIN t : t[i].kind # "output"
    PROVE  Numbers(s \o t) = Numbers(s) /\ (Climbs(s) => Climbs(s \o t))
<1> DEFINE u == s \o t
<1>1. /\ Len(s) \in Nat /\ Len(t) \in Nat /\ DOMAIN s = 1..Len(s) /\ DOMAIN t = 1..Len(t)
      /\ DOMAIN u = 1..(Len(s) + Len(t))
      /\ \A i \in 1..Len(s) : u[i] = s[i]
      /\ \A i \in 1..Len(t) : u[Len(s) + i] = t[i]
  BY ConcatFacts
<1> HIDE DEF u
<1>2. /\ \A i \in DOMAIN s : i \in DOMAIN u /\ u[i] = s[i]
      /\ \A i \in DOMAIN u : i \in DOMAIN s \/ u[i].kind # "output"
  <2>1. \A i \in DOMAIN u :
           i \in DOMAIN s \/ (i - Len(s) \in 1..Len(t) /\ Len(s) + (i - Len(s)) = i)
    BY <1>1
  <2>2. QED
    BY <1>1, <2>1
<1>3. /\ \A i \in Outputs(u) : i \in Outputs(s) /\ u[i] = s[i]
      /\ \A i \in Outputs(s) : i \in Outputs(u) /\ u[i] = s[i]
  BY <1>2 DEF Outputs
<1>4. Numbers(u) \subseteq Numbers(s)
  <2>1. \A i \in Outputs(u) : u[i].num \in Numbers(s)
    BY <1>3, NumbersHave
  <2>2. QED
    BY <2>1, NumbersWithin
<1>5. Numbers(s) \subseteq Numbers(u)
  <2>1. \A i \in Outputs(s) : s[i].num \in Numbers(u)
    BY <1>3, NumbersHave
  <2>2. QED
    BY <2>1, NumbersWithin
<1>6. Climbs(s) => Climbs(u)
  BY <1>3 DEF Climbs
<1>7. QED
  BY <1>4, <1>5, <1>6 DEF u

Stream == Passed /\ Coming

LEMMA StreamInit == Init => Stream
<1> SUFFICES ASSUME Init PROVE Stream
  OBVIOUS
<1>1. /\ eventChan = <<>> /\ ptyOut = <<>> /\ heard = 0 /\ emitted = 0 /\ rpc = "select"
  BY DEF Init
<1>2. HeldBack = {} /\ 0 + 1..0 = {}
  BY <1>1 DEF HeldBack
<1>3. QED
  BY <1>1, <1>2, NumbersEmpty DEF Stream, Passed, Coming, Below

(* A step that neither takes from nor adds to the stream. *)
LEMMA StreamKeeps ==
    ASSUME Stream, UNCHANGED <<heard, emitted>>,
           consumer' = consumer,
           Numbers(eventChan)' = Numbers(eventChan), Climbs(eventChan)',
           consumer # "reading" => eventChan' = <<>>,
           rpc' = "send" => rline'.kind # "output",
           rpc' = "coalesce" => rline'.kind = "output",
           InLoop' => /\ InLoop /\ HeldBack' = HeldBack
                      /\ Numbers(ptyOut)' = Numbers(ptyOut) /\ Climbs(ptyOut)'
    PROVE  Stream'
BY DEF Stream, Passed, Coming

LEMMA StreamSame ==
    ASSUME Stream, UNCHANGED <<heard, emitted, consumer, eventChan, rpc, rline, ptyOut>>
    PROVE  Stream'
<1>1. HeldBack' = HeldBack /\ (InLoop' <=> InLoop)
  BY DEF HeldBack, InLoop
<1>2. QED
  BY <1>1, StreamKeeps DEF Stream, Passed, Coming

(* The next line goes into the channel. *)
LEMMA StreamPasses ==
    ASSUME TypeInv, Passed, NEW l \in Line, l.kind = "output", Emit(l),
           UNCHANGED <<heard, emitted, consumer>>, consumer = "reading",
           rpc' = "select", Climbs(ptyOut)', Numbers(ptyOut)' \subseteq Nat,
           Numbers(eventChan) \cup {l.num} \cup Numbers(ptyOut)' = heard + 1..emitted,
           heard <= emitted,
           Below(Numbers(eventChan), {l.num} \cup Numbers(ptyOut)'),
           Below({l.num}, Numbers(ptyOut)')
    PROVE  Stream'
<1> DEFINE A == Numbers(eventChan)
           B == Numbers(ptyOut)'
           n == l.num
<1>1. /\ eventChan \in Seq(Line) /\ heard \in Nat /\ emitted \in Nat /\ n \in Nat
      /\ A \subseteq Nat
  BY LineFacts, NumbersType DEF TypeInv, TypeOK, EventTypeOK, ChildTypeOK
<1>2. NumberOf(l) = {n}
  BY DEF NumberOf
<1>3. Numbers(eventChan)' = A \cup {n} /\ Climbs(eventChan)'
  <2>1. Below(A, {n})
    BY DEF Below
  <2>2. eventChan' = Append(eventChan, l)
    BY DEF Emit
  <2>3. QED
    BY <1>1, <1>2, <2>1, <2>2, NumbersAppend DEF Passed
<1>4. A \cup {n} \cup B = heard + 1..emitted
  OBVIOUS
<1>5. Below(A, B) /\ Below({n}, B) /\ Below(A, {n})
  BY DEF Below
<1>6. ASSUME NEW k \in A \cup {n}, NEW m \in heard + 1..k PROVE k > heard /\ m \in A \cup {n}
  <2>1. k > heard
    BY <1>1, <1>4
  <2>2. CASE k \in A
    BY <2>2 DEF Passed
  <2>3. CASE k = n
    <3>1. m \in heard + 1..emitted
      BY <1>1, <1>4, <2>3
    <3>2. m \notin B
      BY <1>1, <1>5, <2>3 DEF Below
    <3>3. QED
      BY <1>4, <2>1, <3>1, <3>2
  <2>4. QED
    BY <2>1, <2>2, <2>3
<1>7. ASSUME NEW k \in A \cup {n} PROVE k > heard
  BY <1>1, <1>4
<1>8. HeldBack' = {}
  BY DEF HeldBack
<1> HIDE DEF A, B, n
<1>9. Passed'
  BY <1>3, <1>6, <1>7 DEF Passed
<1>10. Coming'
  <2>1. Below(A \cup {n}, B) /\ Below({}, B)
    BY <1>5 DEF Below
  <2>2. Numbers(eventChan)' \cup HeldBack' \cup Numbers(ptyOut)' = heard' + 1..emitted'
    BY <1>3, <1>4, <1>8 DEF B
  <2>3. Below(Numbers(eventChan)', HeldBack' \cup Numbers(ptyOut)')
    BY <1>3, <1>8, <2>1 DEF B
  <2>4. Below(HeldBack', Numbers(ptyOut)')
    BY <1>8, <2>1 DEF B
  <2>5. QED
    BY <2>2, <2>3, <2>4 DEF Coming
<1>11. QED
  BY <1>9, <1>10 DEF Stream

(* An event that is no output passes it by. *)
LEMMA StreamPassedBy ==
    ASSUME TypeInv, Stream, NEW l \in Line, l.kind # "output", Emit(l)
    PROVE  Numbers(eventChan)' = Numbers(eventChan) /\ Climbs(eventChan)'
<1>1. eventChan \in Seq(Line) /\ eventChan' = Append(eventChan, l) /\ NumberOf(l) = {}
  BY DEF TypeInv, TypeOK, EventTypeOK, Emit, NumberOf
<1>2. Below(Numbers(eventChan), NumberOf(l))
  BY <1>1 DEF Below
<1>3. QED
  BY <1>1, <1>2, NumbersAppend DEF Stream, Passed

LEMMA StreamReads ==
    ASSUME TypeInv, Stream,
           ReadBegin \/ ReadData \/ ReadEnd \/ ReadOutput \/ ReadNotice
    PROVE  Stream'
<1> DEFINE l == Head(ptyOut)
<1>1. /\ rpc = "select" /\ ptyOut # <<>> /\ ptyOut' = Tail(ptyOut)
      /\ UNCHANGED <<heard, emitted, consumer>>
  BY DEF ReadBegin, ReadData, ReadEnd, ReadOutput, ReadNotice, Reading
<1>2. /\ ptyOut \in Seq(Line) /\ ptyOut' \in Seq(Line) /\ l \in Line
  BY <1>1, TailFacts DEF TypeInv, TypeOK, ChildTypeOK
<1>3. /\ Numbers(ptyOut) = NumberOf(l) \cup Numbers(ptyOut)'
      /\ Climbs(ptyOut) => Climbs(ptyOut)' /\ Below(NumberOf(l), Numbers(ptyOut)')
  BY <1>1, <1>2, NumbersTail
<1>4. HeldBack = {} /\ (InLoop <=> consumer = "reading")
  BY <1>1 DEF HeldBack, InLoop
<1> HIDE DEF l
<1>5. CASE l.kind # "output"
  <2>1. UNCHANGED eventChan /\ rpc' \in {"select", "match", "send"}
    BY <1>1, <1>5 DEF ReadBegin, ReadData, ReadEnd, ReadOutput, ReadNotice, Reading, l
  <2>2. rpc' = "send" => rline' = l
    BY <1>1, <1>5 DEF ReadBegin, ReadData, ReadEnd, ReadOutput, ReadNotice, Reading, l
  <2>3. NumberOf(l) = {} /\ HeldBack' = {}
    BY <1>5, <2>1 DEF NumberOf, HeldBack
  <2>4. Numbers(ptyOut)' = Numbers(ptyOut)
    BY <1>3, <2>3
  <2>5. InLoop' => InLoop /\ HeldBack' = HeldBack /\ Numbers(ptyOut)' = Numbers(ptyOut)
                      /\ Climbs(ptyOut)'
    BY <1>1, <1>3, <1>4, <2>3, <2>4 DEF InLoop, Stream, Coming
  <2>6. Numbers(eventChan)' = Numbers(eventChan) /\ Climbs(eventChan)'
    BY <2>1 DEF Stream, Passed
  <2>7. QED
    BY <1>1, <1>5, <2>1, <2>2, <2>5, <2>6, StreamKeeps DEF Stream, Passed
<1>6. CASE l.kind = "output"
  <2>1. ReadOutput /\ NumberOf(l) = {l.num}
    BY <1>1, <1>6 DEF ReadBegin, ReadData, ReadEnd, ReadOutput, ReadNotice, Reading, l,
       NumberOf
  <2>2. CASE consumer # "reading"
    <3>1. rpc' = "drain" /\ UNCHANGED eventChan
      BY <2>1, <2>2 DEF ReadOutput, ReaderLeaves
    <3>2. ~InLoop' /\ consumer' # "reading"
      BY <1>1, <2>2 DEF InLoop
    <3>3. QED
      BY <1>1, <3>1, <3>2, StreamKeeps DEF Stream, Passed
  <2>3. CASE consumer = "reading"
    <3>1. /\ Climbs(ptyOut) /\ heard <= emitted
          /\ Below(Numbers(eventChan), Numbers(ptyOut))
          /\ Numbers(eventChan) \cup Numbers(ptyOut) = heard + 1..emitted
      BY <1>4, <2>3 DEF Stream, Coming
    <3>2. /\ Climbs(ptyOut)' /\ Below({l.num}, Numbers(ptyOut)')
          /\ Numbers(eventChan) \cup {l.num} \cup Numbers(ptyOut)' = heard + 1..emitted
          /\ Below(Numbers(eventChan), {l.num} \cup Numbers(ptyOut)')
      BY <1>3, <2>1, <3>1
    <3>3. CASE Emit(l) /\ UNCHANGED <<rpc, rline>>
      <4>1. Numbers(ptyOut)' \subseteq Nat
        BY <1>2, NumbersType
      <4>2. QED
        BY <1>1, <1>2, <1>6, <2>3, <3>1, <3>2, <3>3, <4>1, StreamPasses DEF Stream
    <3>4. CASE rpc' = "coalesce" /\ rline' = l /\ UNCHANGED eventChan
      <4>1. HeldBack' = {l.num}
        BY <3>4 DEF HeldBack
      <4>2. Passed'
        BY <1>1, <1>6, <3>4 DEF Stream, Passed
      <4>3. Coming'
        BY <1>1, <3>1, <3>2, <3>4, <4>1 DEF Coming
      <4>4. QED
        BY <4>2, <4>3 DEF Stream
    <3>5. QED
      BY <2>1, <2>3, <3>3, <3>4 DEF ReadOutput, l
  <2>4. QED
    BY <2>2, <2>3
<1>7. QED
  BY <1>5, <1>6

LEMMA StreamReader ==
    ASSUME TypeInv, Stream,
           ReaderStops \/ ReaderMatch \/ CoalesceSent \/ CoalesceTimeout \/ CoalesceClosed
             \/ ReaderSend \/ ReaderDrain \/ ReaderDrop
    PROVE  Stream'
<1> USE DEF eventVars, childVars, readVars, writeVars, callVars
<1>1. Climbs(eventChan) /\ (consumer # "reading" => eventChan = <<>>)
  BY DEF Stream, Passed
<1>2. ASSUME UNCHANGED <<heard, emitted, consumer, eventChan>>, ~InLoop',
             rpc' \notin {"send", "coalesce"}
      PROVE  Stream'
  BY <1>1, <1>2, StreamKeeps
<1>3. CASE ReaderStops \/ CoalesceClosed \/ ReaderDrain \/ ReaderDrop
  <2>1. UNCHANGED <<heard, emitted, consumer, eventChan>>
    BY <1>3 DEF ReaderStops, CoalesceClosed, ReaderDrain, ReaderDrop
  <2>2. rpc' \in {"drain", "drop", "done"}
    BY <1>3 DEF ReaderStops, CoalesceClosed, ReaderDrain, ReaderDrop, ReaderLeaves
  <2>3. QED
    BY <1>2, <2>1, <2>2 DEF InLoop
<1>4. CASE CoalesceTimeout
  <2>1. UNCHANGED <<heard, emitted, consumer, eventChan, ptyOut>>
    BY <1>4 DEF CoalesceTimeout
  <2>2. UNCHANGED <<rpc, rline>> \/ rpc' = "drain"
    BY <1>4 DEF CoalesceTimeout, ReaderLeaves
  <2>3. QED
    BY <1>2, <2>1, <2>2, StreamSame DEF InLoop
<1>5. CASE ReaderMatch
  <2>1. /\ UNCHANGED <<heard, emitted, consumer, eventChan, ptyOut>>
        /\ rpc = "match" /\ rpc' = "select"
    BY <1>5 DEF ReaderMatch
  <2>2. (InLoop' => InLoop) /\ HeldBack' = HeldBack
    BY <2>1 DEF InLoop, HeldBack
  <2>3. InLoop => Climbs(ptyOut)
    BY DEF Stream, Coming
  <2>4. QED
    BY <1>1, <2>1, <2>2, <2>3, StreamKeeps
<1>6. CASE CoalesceSent
  <2>1. /\ rpc = "coalesce" /\ rpc' = "select" /\ consumer = "reading" /\ Emit(rline)
        /\ UNCHANGED <<heard, emitted, consumer, ptyOut>>
    BY <1>6 DEF CoalesceSent
  <2>2. rline \in Line /\ rline.kind = "output" /\ ptyOut \in Seq(Line)
    BY <2>1 DEF TypeInv, TypeOK, ReaderTypeOK, ChildTypeOK, Stream, Passed
  <2>3. HeldBack = {rline.num} /\ InLoop
    BY <2>1 DEF HeldBack, InLoop
  <2>4. /\ Climbs(ptyOut) /\ heard <= emitted
        /\ Below(Numbers(eventChan), {rline.num} \cup Numbers(ptyOut))
        /\ Below({rline.num}, Numbers(ptyOut))
        /\ Numbers(eventChan) \cup {rline.num} \cup Numbers(ptyOut) = heard + 1..emitted
    BY <2>3 DEF Stream, Coming
  <2>5. Numbers(ptyOut) \subseteq Nat
    BY <2>2, NumbersType
  <2>6. QED
    BY <2>1, <2>2, <2>4, <2>5, StreamPasses DEF Stream
<1>7. CASE ReaderSend
  <2>1. /\ rpc = "send" /\ UNCHANGED <<heard, emitted, consumer, ptyOut>>
        /\ rpc' = "select" \/ rpc' = "drain"
        /\ (Emit(rline) /\ consumer = "reading") \/ UNCHANGED eventChan
    BY <1>7 DEF ReaderSend, ReaderLeaves
  <2>2. rline \in Line /\ rline.kind # "output"
    BY <2>1 DEF TypeInv, TypeOK, ReaderTypeOK, Stream, Passed
  <2>3. Numbers(eventChan)' = Numbers(eventChan) /\ Climbs(eventChan)'
    BY <1>1, <2>1, <2>2, StreamPassedBy
  <2>4. InLoop' => InLoop /\ HeldBack' = HeldBack
    BY <2>1 DEF InLoop, HeldBack
  <2>5. InLoop => Climbs(ptyOut)
    BY DEF Stream, Coming
  <2>6. consumer # "reading" => eventChan' = <<>>
    BY <1>1, <2>1
  <2>7. QED
    BY <2>1, <2>3, <2>4, <2>5, <2>6, StreamKeeps
<1>8. QED
  BY <1>3, <1>4, <1>5, <1>6, <1>7

LEMMA StreamConsumer ==
    ASSUME TypeInv, Stream, Consumer
    PROVE  Stream'
<1> USE DEF eventVars, childVars, readVars, writeVars, callVars
<1>1. CASE ConsumerRecv
  <2> DEFINE l == Head(eventChan)
             A == Numbers(eventChan)'
  <2>1. /\ eventChan # <<>> /\ eventChan' = Tail(eventChan) /\ consumer = "reading"
        /\ heard' = IF l.kind = "output" THEN l.num ELSE heard
        /\ UNCHANGED <<consumer, rpc, rline, ptyOut, emitted>>
    BY <1>1 DEF ConsumerRecv, Receiving
  <2>2. /\ eventChan \in Seq(Line) /\ eventChan' \in Seq(Line) /\ l \in Line
        /\ heard \in Nat /\ emitted \in Nat /\ ptyOut \in Seq(Line) /\ rline \in Line
    BY <2>1, TailFacts DEF TypeInv, TypeOK, EventTypeOK, ChildTypeOK, ReaderTypeOK
  <2>3. /\ Numbers(eventChan) = NumberOf(l) \cup A
        /\ Climbs(eventChan)' /\ Below(NumberOf(l), A)
    BY <2>1, <2>2, NumbersTail DEF Stream, Passed
  <2>4. A \subseteq Nat /\ Numbers(eventChan) \subseteq Nat /\ Numbers(ptyOut) \subseteq Nat
        /\ l.num \in Nat /\ HeldBack \subseteq Nat
    BY <2>2, NumbersType, LineFacts DEF HeldBack
  <2>5. HeldBack' = HeldBack /\ (InLoop' <=> InLoop)
    BY <2>1 DEF HeldBack, InLoop
  <2>6. CASE l.kind # "output"
    <3>1. A = Numbers(eventChan) /\ heard' = heard
      BY <2>1, <2>3, <2>6 DEF NumberOf
    <3>2. InLoop => Climbs(ptyOut)
      BY DEF Stream, Coming
    <3>3. QED
      BY <2>1, <2>3, <2>5, <3>1, <3>2, StreamKeeps DEF Stream, Passed
  <2>7. CASE l.kind = "output"
    <3> DEFINE n == l.num
    <3>1. /\ heard' = n /\ NumberOf(l) = {n} /\ n \in Nat
          /\ Numbers(eventChan) = {n} \cup A /\ Below({n}, A)
      BY <2>1, <2>3, <2>4, <2>7 DEF NumberOf
    <3> HIDE DEF l, A
    <3>2. n > heard
      BY <3>1 DEF Stream, Passed
    <3>3. ASSUME NEW k \in A PROVE k > n /\ \A m \in n + 1..k : m \in A
      <4>1. k > n
        BY <3>1, <3>3, <2>4 DEF Below
      <4>2. ASSUME NEW m \in n + 1..k PROVE m \in A
        <5>1. m \in heard + 1..k /\ m # n
          BY <2>2, <2>4, <3>1, <3>2
        <5>2. m \in Numbers(eventChan)
          BY <3>1, <5>1 DEF Stream, Passed
        <5>3. QED
          BY <3>1, <5>1, <5>2
      <4>3. QED
        BY <4>1, <4>2
    <3>4. Passed'
      <4>1. Climbs(eventChan') /\ heard' = n /\ Numbers(eventChan') = A
        BY <2>3, <3>1 DEF A
      <4>2. \A k \in Numbers(eventChan') :
               k > heard' /\ \A m \in heard' + 1..k : m \in Numbers(eventChan')
        BY <3>3, <4>1
      <4>3. QED
        BY <2>1, <4>1, <4>2 DEF Stream, Passed
    <3>5. ASSUME InLoop PROVE Coming'
      <4> DEFINE R == HeldBack \cup Numbers(ptyOut)
      <4>1. /\ Climbs(ptyOut) /\ heard <= emitted
            /\ Below({n} \cup A, R) /\ Below(HeldBack, Numbers(ptyOut))
            /\ {n} \cup A \cup R = heard + 1..emitted
        BY <3>1, <3>5 DEF Stream, Coming
      <4>2. R \subseteq Nat
        BY <2>4
      <4> HIDE DEF R
      <4>3. n \in heard + 1..emitted /\ n <= emitted
        BY <2>2, <4>1
      <4>4. ASSUME NEW m \in A \cup R PROVE m \in n + 1..emitted
        <5>1. m \in heard + 1..emitted
          BY <4>1
        <5>2. m > n
          BY <2>4, <3>1, <4>1, <4>2 DEF Below
        <5>3. QED
          BY <2>2, <3>1, <5>1, <5>2
      <4>5. ASSUME NEW m \in n + 1..emitted PROVE m \in A \cup R
        <5>1. m \in heard + 1..emitted /\ m # n
          BY <2>2, <3>1, <3>2
        <5>2. QED
          BY <4>1, <5>1
      <4>6. A \cup R = n + 1..emitted
        BY <4>4, <4>5
      <4>7. Below(A, R)
        BY <4>1 DEF Below
      <4>8. heard' <= emitted' /\ UNCHANGED <<ptyOut, emitted>> /\ heard' = n
        BY <2>1, <3>1, <4>3
      <4>9. Numbers(eventChan)' = A /\ HeldBack' = HeldBack /\ Numbers(ptyOut)' = Numbers(ptyOut)
        BY <2>1, <2>5 DEF A
      <4>10. A \cup HeldBack \cup Numbers(ptyOut) = n + 1..emitted
        BY <4>6 DEF R
      <4>11. QED
        BY <4>1, <4>7, <4>8, <4>9, <4>10 DEF Coming, R
    <3>6. QED
      BY <2>5, <3>4, <3>5 DEF Stream, Coming
  <2>8. QED
    BY <2>6, <2>7
<1>2. CASE ConsumerEnds \/ ConsumerDrops
  <2>1. eventChan' = <<>> /\ consumer' # "reading" /\ UNCHANGED <<rpc, rline>>
    BY <1>2 DEF ConsumerEnds, ConsumerDrops
  <2>2. Passed'
    BY <2>1, NumbersEmpty DEF Stream, Passed
  <2>3. Coming'
    BY <2>1 DEF Coming, InLoop
  <2>4. QED
    BY <2>2, <2>3 DEF Stream
<1>3. QED
  BY <1>1, <1>2 DEF Consumer

\* One, two or three lines that are not output: what the connection writes beside events.
Quiet(lines) == lines \in Seq(Line) /\ \A i \in DOMAIN lines : lines[i].kind # "output"

LEMMA QuietOne == ASSUME NEW a \in Line, a.kind # "output" PROVE Quiet(<<a>>)
<1>1. <<a>> \in Seq(Line) /\ DOMAIN <<a>> = {1} /\ <<a>>[1] = a
  OBVIOUS
<1>2. QED
  BY <1>1 DEF Quiet

LEMMA QuietTwo ==
  ASSUME NEW a \in Line, NEW b \in Line, a.kind # "output", b.kind # "output"
  PROVE  Quiet(<<a, b>>)
<1>1. /\ <<a, b>> \in Seq(Line) /\ DOMAIN <<a, b>> = {1, 2}
      /\ <<a, b>>[1] = a /\ <<a, b>>[2] = b
  OBVIOUS
<1>2. QED
  BY <1>1 DEF Quiet

LEMMA QuietThree ==
  ASSUME NEW a \in Line, NEW b \in Line, NEW c \in Line,
         a.kind # "output", b.kind # "output", c.kind # "output"
  PROVE  Quiet(<<a, b, c>>)
<1>1. /\ <<a, b, c>> \in Seq(Line) /\ DOMAIN <<a, b, c>> = {1, 2, 3}
      /\ <<a, b, c>>[1] = a /\ <<a, b, c>>[2] = b /\ <<a, b, c>>[3] = c
  OBVIOUS
<1>2. QED
  BY <1>1 DEF Quiet

LEMMA StreamTmux ==
    ASSUME TypeInv, Stream, Tmux
    PROVE  Stream'
<1> USE DEF eventVars, childVars, readVars, writeVars, callVars
<1>1. /\ UNCHANGED <<heard, eventChan, consumer, rpc, rline>>
      /\ HeldBack' = HeldBack /\ (InLoop' <=> InLoop)
  BY DEF Tmux, TmuxBegin, TmuxEnd, TmuxOutput, TmuxNote, TmuxLeaves, ChildExits,
     TmuxUnchanged, HeldBack, InLoop
<1>2. ptyOut \in Seq(Line) /\ emitted \in Nat /\ heard \in Nat /\ Len(ran) \in Nat
  BY DEF TypeInv, TypeOK, ChildTypeOK, EventTypeOK
<1>3. ASSUME NEW lines, Quiet(lines), Writes(lines), UNCHANGED emitted
      PROVE  Stream'
  <2>1. /\ Numbers(ptyOut)' = Numbers(ptyOut)
        /\ Climbs(ptyOut) => Climbs(ptyOut)'
    BY <1>2, <1>3, NumbersConcat DEF Writes, Quiet
  <2>2. InLoop => Climbs(ptyOut)
    BY DEF Stream, Coming
  <2>3. QED
    BY <1>1, <1>3, <2>1, <2>2, StreamKeeps DEF Stream, Passed
<1>4. CASE TmuxOutput
  <2> DEFINE o == MkLine("output", 0, emitted + 1)
  <2>1. o \in Line /\ o.kind = "output" /\ o.num = emitted + 1
    BY <1>2, LineFacts DEF MkLine, LineKind
  <2>2. emitted' = emitted + 1 /\ Writes(<<o>>)
    BY <1>4 DEF TmuxOutput
  <2> HIDE DEF o
  <2>3. ptyOut' = Append(ptyOut, o)
    BY <1>2, <2>1, <2>2 DEF Writes
  <2>4. NumberOf(o) = {emitted + 1}
    BY <2>1 DEF NumberOf
  <2>5. /\ Numbers(ptyOut)' = Numbers(ptyOut) \cup {emitted + 1}
        /\ Climbs(ptyOut) /\ Below(Numbers(ptyOut), {emitted + 1}) => Climbs(ptyOut)'
    BY <1>2, <2>1, <2>3, <2>4, NumbersAppend
  <2>6. Passed'
    BY <1>1 DEF Stream, Passed
  <2>7. ASSUME InLoop PROVE Coming'
    <3> DEFINE A == Numbers(eventChan)
               P == Numbers(ptyOut)
    <3>1. /\ Climbs(ptyOut) /\ heard <= emitted
          /\ Below(A, HeldBack \cup P) /\ Below(HeldBack, P)
          /\ A \cup HeldBack \cup P = heard + 1..emitted
      BY <2>7 DEF Stream, Coming
    <3>2. Numbers(ptyOut)' = P \cup {emitted + 1} /\ Numbers(eventChan)' = A
      BY <1>1, <2>5
    <3> HIDE DEF A, P
    <3>3. Below(A \cup HeldBack \cup P, {emitted + 1})
      BY <1>2, <3>1 DEF Below
    <3>4. Climbs(ptyOut)'
      BY <2>5, <3>1, <3>3 DEF Below, P
    <3>5. /\ Below(A, HeldBack \cup (P \cup {emitted + 1}))
          /\ Below(HeldBack, P \cup {emitted + 1})
      BY <3>1, <3>3 DEF Below
    <3>6. (heard + 1..emitted) \cup {emitted + 1} = heard + 1..(emitted + 1)
      BY <1>2, <3>1
    <3>7. A \cup HeldBack \cup (P \cup {emitted + 1}) = heard + 1..(emitted + 1)
      BY <3>1, <3>6
    <3>8. heard' <= emitted'
      BY <1>1, <1>2, <2>2, <3>1
    <3>9. QED
      BY <1>1, <2>2, <3>2, <3>4, <3>5, <3>7, <3>8 DEF Coming
  <2>8. QED
    BY <1>1, <2>6, <2>7 DEF Stream, Coming
<1>5. CASE TmuxBegin
  <2> DEFINE b == MkLine("begin", 1, Len(ran) + 1)
             d == MkLine("data", 1, Len(ran) + 1)
  <2>1. b \in Line /\ d \in Line /\ b.kind # "output" /\ d.kind # "output"
    BY <1>2, LineFacts DEF LineKind, MkLine
  <2>2. UNCHANGED emitted /\ Writes(<<b, d>>)
    BY <1>5 DEF TmuxBegin
  <2> HIDE DEF b, d
  <2>3. QED
    BY <1>3, <2>1, <2>2, QuietTwo
<1>6. CASE TmuxEnd
  <2> DEFINE c == MkLine(IF ran[Len(ran)].ok THEN "end" ELSE "error", 1, Len(ran))
  <2>1. c \in Line /\ ExitLine \in Line /\ c.kind # "output" /\ ExitLine.kind # "output"
    BY <1>2, LineFacts DEF LineKind, MkLine, ExitLine
  <2>2. UNCHANGED emitted /\ (Writes(<<c>>) \/ Writes(<<c, ExitLine>>))
    BY <1>6 DEF TmuxEnd
  <2> HIDE DEF c
  <2>3. QED
    BY <1>3, <2>1, <2>2, QuietOne, QuietTwo
<1>7. CASE TmuxNote
  <2> DEFINE n == MkLine("note", 0, 0)
             b == MkLine("begin", 0, 0)
             d == MkLine("data", 0, 0)
             e == MkLine("end", 0, 0)
  <2>1. /\ n \in Line /\ b \in Line /\ d \in Line /\ e \in Line
        /\ n.kind # "output" /\ b.kind # "output" /\ d.kind # "output" /\ e.kind # "output"
    BY LineFacts DEF LineKind, MkLine
  <2>2. UNCHANGED emitted /\ (Writes(<<n>>) \/ Writes(<<b, d, e>>))
    BY <1>7 DEF TmuxNote
  <2> HIDE DEF n, b, d, e
  <2>3. QED
    BY <1>3, <2>1, <2>2, QuietOne, QuietThree
<1>8. CASE TmuxLeaves
  <2>1. ExitLine \in Line /\ ExitLine.kind # "output"
    BY LineFacts DEF MkLine, ExitLine
  <2>2. UNCHANGED emitted /\ Writes(<<ExitLine>>)
    BY <1>8 DEF TmuxLeaves
  <2>3. QED
    BY <1>3, <2>1, <2>2, QuietOne
<1>9. CASE ChildExits
  <2>1. UNCHANGED <<ptyOut, emitted>>
    BY <1>9 DEF ChildExits
  <2>2. QED
    BY <1>1, <2>1, StreamSame
<1>10. QED
  BY <1>4, <1>5, <1>6, <1>7, <1>8, <1>9 DEF Tmux

LEMMA StreamStep == TypeInv /\ Stream /\ [Next]_vars => Stream'
<1> SUFFICES ASSUME TypeInv, Stream, [Next]_vars PROVE Stream'
  OBVIOUS
<1> USE DEF callVars, writeVars, readVars, eventVars, childVars
<1>1. ASSUME NEW c \in Commands, Caller(c) PROVE Stream'
  BY <1>1, StreamSame DEF Caller, Call, Enqueue, Refused, Timeout, Abandon
<1>2. CASE ShutdownDetach \/ ShutdownCancel \/ CancelToken
  BY <1>2, StreamSame DEF ShutdownDetach, ShutdownCancel, CancelToken
<1>3. CASE Writer
  BY <1>3, StreamSame DEF Writer, WriterCancelled, WriterRecv, WriterRegister,
     WriterUnregistered, WriterWrite, WriterWriteFails
<1>4. CASE Reader
  BY <1>4, StreamReads, StreamReader DEF Reader
<1>5. CASE SupervisorKills \/ SupervisorReaps \/ SupervisorCancels
  BY <1>5, StreamSame DEF SupervisorKills, SupervisorReaps, SupervisorCancels
<1>6. CASE SupervisorReport
  <2>1. /\ UNCHANGED <<heard, emitted, consumer, rpc, rline, ptyOut>>
        /\ (Emit(ExitLine) /\ consumer = "reading") \/ UNCHANGED eventChan
    BY <1>6 DEF SupervisorReport
  <2>2. ExitLine \in Line /\ ExitLine.kind # "output"
    BY LineFacts DEF MkLine, ExitLine
  <2>3. Numbers(eventChan)' = Numbers(eventChan) /\ Climbs(eventChan)'
    BY <2>1, <2>2, StreamPassedBy DEF Stream, Passed
  <2>4. HeldBack' = HeldBack /\ (InLoop' <=> InLoop)
    BY <2>1 DEF HeldBack, InLoop
  <2>5. InLoop => Climbs(ptyOut)
    BY DEF Stream, Coming
  <2>6. QED
    BY <2>1, <2>3, <2>4, <2>5, StreamKeeps DEF Stream, Passed
<1>7. CASE Consumer
  BY <1>7, StreamConsumer
<1>8. CASE Tmux
  BY <1>8, StreamTmux
<1>9. CASE UNCHANGED vars
  BY <1>9, StreamSame DEF vars
<1>10. QED
  BY <1>1, <1>2, <1>3, <1>4, <1>5, <1>6, <1>7, <1>8, <1>9 DEF Next, Supervisor

(* The numbers of the outputs up to an output are those from heard on: as    *)
(* many as there are such outputs.                                         *)
LEMMA PassedCount ==
    ASSUME Passed, eventChan \in Seq(Line), heard \in Nat, NEW i \in Outputs(eventChan)
    PROVE  eventChan[i].num = heard
               + Cardinality({j \in 1..i : eventChan[j].kind = "output"})
<1> DEFINE e == eventChan
           n == e[i].num
           S == {j \in 1..i : e[j].kind = "output"}
           T == heard + 1..n
           f == [j \in S |-> e[j].num]
<1>1. /\ DOMAIN e = 1..Len(e) /\ Len(e) \in Nat /\ i \in 1..Len(e)
      /\ \A j \in Outputs(e) : e[j].num \in Nat /\ e[j].num \in Numbers(e)
  BY ElementFacts, LineFacts, NumbersHave DEF Outputs
<1>2. S = {j \in Outputs(e) : j <= i} /\ \A j \in Outputs(e) : j \in Nat
  BY <1>1 DEF Outputs
<1>3. n \in Nat /\ n > heard /\ \A m \in T : m \in Numbers(e)
  BY <1>1 DEF Passed
<1> HIDE DEF e, n, S
<1>4. \A j \in S : e[j].num \in T
  <2> SUFFICES ASSUME NEW j \in S PROVE e[j].num \in T
    OBVIOUS
  <2>1. j \in Outputs(e) /\ j <= i /\ i \in Outputs(e)
    BY <1>2 DEF e
  <2>2. e[j].num > heard /\ e[j].num \in Nat
    BY <1>1, <2>1 DEF Passed, e
  <2>3. e[j].num <= n
    BY <1>1, <1>2, <1>3, <2>1, <2>2 DEF Passed, Climbs, e, n
  <2>4. QED
    BY <1>3, <2>2, <2>3
<1>5. \A j, k \in S : e[j].num = e[k].num => j = k
  <2> SUFFICES ASSUME NEW j \in S, NEW k \in S, e[j].num = e[k].num, j # k PROVE FALSE
    OBVIOUS
  <2>1. j \in Outputs(e) /\ k \in Outputs(e) /\ (j < k \/ k < j)
    BY <1>2
  <2>2. e[j].num \in Nat /\ e[k].num \in Nat
    BY <1>1, <2>1
  <2>3. QED
    BY <2>1, <2>2 DEF Passed, Climbs, e
<1>6. \A m \in T : \E j \in S : e[j].num = m
  <2> SUFFICES ASSUME NEW m \in T PROVE \E j \in S : e[j].num = m
    OBVIOUS
  <2>1. PICK j \in Outputs(e) : e[j].num = m
    BY <1>3, NumbersAre
  <2>2. j <= i
    <3>1. j \in Nat /\ i \in Nat
      BY <1>1, <1>2, <2>1
    <3>2. ASSUME i < j PROVE n < m
      <4>1. i \in Outputs(e)
        BY DEF e
      <4>2. e[i].num < e[j].num
        BY <2>1, <3>2, <4>1 DEF Passed, Climbs, e
      <4>3. QED
        BY <2>1, <4>2 DEF n
    <3>3. ~ (i < j)
      BY <1>3, <3>2
    <3>4. QED
      BY <3>1, <3>3
  <2>3. QED
    BY <1>2, <2>1, <2>2
<1>7. f \in Bijection(S, T)
  BY <1>4, <1>5, <1>6 DEF Bijection, Injection, Surjection, IsInjective
<1>8. ExistsBijection(S, T)
  BY <1>7 DEF ExistsBijection
<1>9. IsFiniteSet(S)
  <2>1. IsFiniteSet(1..i)
    BY <1>1, FS_Interval
  <2>2. S \subseteq 1..i
    BY DEF S
  <2>3. QED
    BY <2>1, <2>2, FS_Subset
<1>10. Cardinality(S) = Cardinality(T)
  BY <1>8, <1>9, FS_Bijection
<1>11. Cardinality(T) = n - heard
  BY <1>3, FS_Interval
<1>12. QED
  BY <1>3, <1>10, <1>11 DEF e, n, S

(* Whatever the back-off of a full channel does, and wherever it gives up:   *)
(* the outputs in the channel go on from the last one heard, without gap or *)
(* repetition (control_mode.rs:430).                                       *)
THEOREM StreamCorrect == Spec => []StreamUnbroken
<1>1. TypeInv /\ Stream => StreamUnbroken
  <2> SUFFICES ASSUME TypeInv, Stream, NEW i \in DOMAIN eventChan,
                      eventChan[i].kind = "output"
               PROVE  eventChan[i].num = heard
                        + Cardinality({j \in 1..i : eventChan[j].kind = "output"})
    BY DEF StreamUnbroken
  <2>1. eventChan \in Seq(Line) /\ heard \in Nat /\ i \in Outputs(eventChan)
    BY DEF TypeInv, TypeOK, EventTypeOK, Outputs
  <2>2. QED
    BY <2>1, PassedCount DEF Stream
<1>2. QED
  BY <1>1, TypeInvInit, TypeInvStep, StreamInit, StreamStep, PTL DEF Spec
================================================================================
