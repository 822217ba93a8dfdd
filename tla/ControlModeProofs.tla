--------------------------- MODULE ControlModeProofs ---------------------------
(* Theorems about the control-mode driver, for every set of commands and    *)
(* all channel capacities.                                                 *)
EXTENDS ControlMode, TLAPS

(* The lines and replies the actions build are lines and replies. *)
LEMMA LineFacts ==
    /\ NoLine \in Line /\ ExitLine \in Line
    /\ \A k \in LineKind, f \in {0, 1}, n \in Nat : MkLine(k, f, n) \in Line
    /\ \A l \in Line : l.num \in Nat
BY DEF Line, LineKind, NoLine, ExitLine, MkLine

LEMMA ReplyFacts ==
    /\ NoReply \in Reply
    /\ \A b \in BOOLEAN, s \in Seq(Nat) : [ok |-> b, body |-> s] \in Reply
BY DEF NoReply, Reply

LEMMA SeqFacts ==
    /\ \A S : <<>> \in Seq(S) /\ Len(<<>>) = 0
    /\ \A S : \A s \in Seq(S), x \in S :
          Append(s, x) \in Seq(S) /\ Len(Append(s, x)) = Len(s) + 1
OBVIOUS

(* Appending, taking the tail and concatenating, index by index. *)
LEMMA AppendFacts ==
    ASSUME NEW S, NEW s \in Seq(S), NEW x \in S
    PROVE  /\ Append(s, x) \in Seq(S)
           /\ Len(Append(s, x)) = Len(s) + 1
           /\ \A i \in 1..Len(s) : Append(s, x)[i] = s[i]
           /\ Append(s, x)[Len(s) + 1] = x
OBVIOUS

LEMMA AppendSame ==
    ASSUME NEW S, NEW s \in Seq(S), NEW x \in S, \A i \in DOMAIN s : s[i] = x
    PROVE  \A i \in DOMAIN Append(s, x) : Append(s, x)[i] = x
<1>1. /\ DOMAIN s = 1..Len(s) /\ Len(s) \in Nat
      /\ DOMAIN Append(s, x) = 1..(Len(s) + 1)
  OBVIOUS
<1>2. SUFFICES ASSUME NEW i \in 1..(Len(s) + 1) PROVE Append(s, x)[i] = x
  BY <1>1
<1>3. i \in 1..Len(s) \/ i = Len(s) + 1
  BY <1>1
<1>4. QED
  BY <1>1, <1>3, AppendFacts

LEMMA ElementFacts ==
    ASSUME NEW S, NEW s \in Seq(S), NEW i \in DOMAIN s
    PROVE  s[i] \in S
OBVIOUS

LEMMA TailFacts ==
    ASSUME NEW S, NEW s \in Seq(S), s # <<>>
    PROVE  /\ Head(s) \in S /\ Head(s) = s[1] /\ Len(s) > 0
           /\ Tail(s) \in Seq(S)
           /\ Len(Tail(s)) = Len(s) - 1
           /\ \A i \in 1..Len(s) - 1 : Tail(s)[i] = s[i + 1]
OBVIOUS

LEMMA ConcatFacts ==
    ASSUME NEW S, NEW s \in Seq(S), NEW t \in Seq(S)
    PROVE  /\ s \o t \in Seq(S)
           /\ Len(s \o t) = Len(s) + Len(t)
           /\ \A i \in 1..Len(s) : (s \o t)[i] = s[i]
           /\ \A i \in 1..Len(t) : (s \o t)[Len(s) + i] = t[i]
OBVIOUS

(* The writer has a request in hand between cmd_rx.recv and the write. *)
HandOK == wpc \in {"register", "write"} => wcmd \in AllCommands

TypeInv == TypeOK /\ HandOK

(* What the shared parts of the actions do to the types. *)
LEMMA EmitType ==
    ASSUME EventTypeOK, EventRoom, NEW ev \in Line, Emit(ev)
    PROVE  eventChan' \in Seq(Line) /\ Len(eventChan') <= EventCap
BY CapacityAssumption, SeqFacts DEF CapacityAssumption, EventTypeOK, EventRoom, Emit

LEMMA WritesType ==
    ASSUME ChildTypeOK, NEW lines \in Seq(Line), Writes(lines)
    PROVE  ptyOut' \in Seq(Line)
BY DEF ChildTypeOK, Writes

LEMMA LeavesType ==
    ASSUME CallerTypeOK, ReaderLeaves
    PROVE  /\ call' \in [Commands -> CallState]
           /\ rpc' = "drain" /\ rline' \in Line
           /\ inFlight' = None /\ buf' \in Seq(Nat)
BY LineFacts, SeqFacts DEF CallerTypeOK, ReaderLeaves, Failing, CallState, Returned

LEMMA TypeInvInit == Init => TypeInv
<1> SUFFICES ASSUME Init PROVE TypeInv
  OBVIOUS
<1> USE CapacityAssumption, LineFacts, ReplyFacts, SeqFacts
    DEF Init, CallState, Returned, AllCommands
<1>1. CallerTypeOK
  BY DEF CallerTypeOK
<1>2. WriterTypeOK
  BY DEF WriterTypeOK
<1>3. ReaderTypeOK
  BY DEF ReaderTypeOK
<1>4. EventTypeOK
  BY DEF EventTypeOK
<1>5. ChildTypeOK
  BY DEF ChildTypeOK
<1>6. HandOK
  BY DEF HandOK
<1>7. QED
  BY <1>1, <1>2, <1>3, <1>4, <1>5, <1>6 DEF TypeInv, TypeOK

LEMMA TypeInvStep == TypeInv /\ [Next]_vars => TypeInv'
<1> SUFFICES ASSUME TypeInv, [Next]_vars PROVE TypeInv'
  OBVIOUS
<1> USE CapacityAssumption
    DEF CapacityAssumption, TypeInv, TypeOK, CallerTypeOK, WriterTypeOK, ReaderTypeOK, EventTypeOK,
        ChildTypeOK, HandOK, CallState, Returned, AllCommands,
        callVars, writeVars, readVars, eventVars, childVars
<1>1. ASSUME NEW c \in Commands, Call(c) PROVE TypeInv'
  BY <1>1 DEF Call
<1>2. ASSUME NEW c \in Commands, Enqueue(c) PROVE TypeInv'
  BY <1>2 DEF Enqueue, WriterGone
<1>3. ASSUME NEW c \in Commands, Refused(c) PROVE TypeInv'
  BY <1>3 DEF Refused, WriterGone
<1>4. ASSUME NEW c \in Commands, Timeout(c) PROVE TypeInv'
  BY <1>4 DEF Timeout
<1>5. ASSUME NEW c \in Commands, Abandon(c) PROVE TypeInv'
  BY <1>5 DEF Abandon
<1>6. ASSUME ShutdownDetach PROVE TypeInv'
  BY <1>6 DEF ShutdownDetach, WriterGone
<1>7. ASSUME ShutdownCancel PROVE TypeInv'
  BY <1>7 DEF ShutdownCancel
<1>8. ASSUME CancelToken PROVE TypeInv'
  BY <1>8 DEF CancelToken
<1>9. ASSUME WriterCancelled PROVE TypeInv'
  BY <1>9 DEF WriterCancelled, WriterLeaves, Failing
<1>10. ASSUME WriterRecv PROVE TypeInv'
  BY <1>10 DEF WriterRecv
<1>11. ASSUME WriterRegister PROVE TypeInv'
  BY <1>11 DEF WriterRegister, ReaderGone
<1>12. ASSUME WriterUnregistered PROVE TypeInv'
  BY <1>12 DEF WriterUnregistered, ReaderGone, WriterLeaves, Failing
<1>13. ASSUME WriterWrite PROVE TypeInv'
  BY <1>13 DEF WriterWrite
<1>14. ASSUME WriterWriteFails PROVE TypeInv'
  BY <1>14 DEF WriterWriteFails, WriterLeaves, Failing
<1>15. ASSUME ReaderStops PROVE TypeInv'
  BY <1>15, LineFacts DEF ReaderStops, ReaderLeaves, Failing
<1>16. ASSUME ReadBegin PROVE TypeInv'
  BY <1>16, LineFacts DEF ReadBegin, Reading
<1>17. ASSUME ReadData PROVE TypeInv'
  BY <1>17, LineFacts DEF ReadData, Reading
<1>18. ASSUME ReadEnd PROVE TypeInv'
  <2>1. CallerTypeOK'
    BY <1>18, LineFacts, SeqFacts, ReplyFacts DEF ReadEnd, Reading
  <2>2. WriterTypeOK'
    BY <1>18, LineFacts, SeqFacts, ReplyFacts DEF ReadEnd, Reading
  <2>3. ReaderTypeOK'
    BY <1>18, LineFacts, SeqFacts, ReplyFacts DEF ReadEnd, Reading
  <2>4. EventTypeOK'
    BY <1>18, LineFacts, SeqFacts, ReplyFacts DEF ReadEnd, Reading
  <2>5. ChildTypeOK'
    BY <1>18, LineFacts, SeqFacts, ReplyFacts DEF ReadEnd, Reading
  <2>6. HandOK'
    BY <1>18, LineFacts, SeqFacts, ReplyFacts DEF ReadEnd, Reading
  <2>7. QED
    BY <2>1, <2>2, <2>3, <2>4, <2>5, <2>6
<1>19. ASSUME ReadOutput PROVE TypeInv'
  <2>1. CallerTypeOK'
    BY <1>19, LineFacts, SeqFacts, EmitType, LeavesType DEF ReadOutput,
       Reading
  <2>2. WriterTypeOK'
    BY <1>19, LineFacts, SeqFacts, EmitType, LeavesType DEF ReadOutput,
       Reading
  <2>3. ReaderTypeOK'
    <3>1. Head(ptyOut) \in Line
      BY <1>19 DEF ReadOutput, Reading
    <3>2. UNCHANGED <<pending, matched>>
      BY <1>19 DEF ReadOutput, Reading
    <3>3. CASE UNCHANGED <<rpc, rline, attempts, inFlight, buf>>
      BY <3>2, <3>3
    <3>4. CASE /\ rpc' = "coalesce" /\ rline' = Head(ptyOut) /\ attempts' = 0
               /\ UNCHANGED <<inFlight, buf>>
      BY <3>1, <3>2, <3>4
    <3>5. CASE ReaderLeaves /\ UNCHANGED attempts
      BY <3>2, <3>5, LeavesType
    <3>6. QED
      BY <1>19, <3>3, <3>4, <3>5 DEF ReadOutput
  <2>4. EventTypeOK'
    BY <1>19, LineFacts, SeqFacts, EmitType, LeavesType DEF ReadOutput,
       Reading
  <2>5. ChildTypeOK'
    BY <1>19, LineFacts, SeqFacts, EmitType, LeavesType DEF ReadOutput,
       Reading
  <2>6. HandOK'
    BY <1>19, LineFacts, SeqFacts, EmitType, LeavesType DEF ReadOutput,
       Reading
  <2>7. QED
    BY <2>1, <2>2, <2>3, <2>4, <2>5, <2>6
<1>20. ASSUME ReadNotice PROVE TypeInv'
  BY <1>20, LineFacts DEF ReadNotice, Reading
<1>21. ASSUME ReaderMatch PROVE TypeInv'
  <2>1. CallerTypeOK'
    BY <1>21, LineFacts, SeqFacts DEF ReaderMatch, PendingUnlocked
  <2>2. WriterTypeOK'
    BY <1>21, LineFacts, SeqFacts DEF ReaderMatch, PendingUnlocked
  <2>3. ReaderTypeOK'
    <3>1. pending \o pendingChan \in Seq(AllCommands)
      BY DEF ReaderMatch
    <3>2. CASE pending \o pendingChan = <<>>
      BY <1>21, <3>2, LineFacts DEF ReaderMatch
    <3>3. CASE pending \o pendingChan # <<>>
      <4>1. /\ pending' = Tail(pending \o pendingChan)
            /\ inFlight' = Head(pending \o pendingChan)
            /\ buf' = <<>>
        BY <1>21, <3>3 DEF ReaderMatch
      <4>2. pending' \in Seq(AllCommands) /\ inFlight' \in AllCommands
        <5> DEFINE q == pending \o pendingChan
        <5>1. /\ q \in Seq(AllCommands) /\ q # <<>>
              /\ pending' = Tail(q) /\ inFlight' = Head(q)
          BY <3>1, <3>3, <4>1
        <5> HIDE DEF q
        <5>2. QED
          BY <5>1
      <4>3. QED
        <5>1. rpc' = "select" /\ rline' = NoLine /\ matched' = matched + 1 /\ UNCHANGED attempts
          BY <1>21 DEF ReaderMatch
        <5>2. buf' \in Seq(Nat)
          BY <4>1
        <5>3. QED
          BY <4>2, <5>1, <5>2, LineFacts
    <3>4. QED
      BY <3>2, <3>3
  <2>4. EventTypeOK'
    BY <1>21, LineFacts, SeqFacts DEF ReaderMatch, PendingUnlocked
  <2>5. ChildTypeOK'
    BY <1>21, LineFacts, SeqFacts DEF ReaderMatch, PendingUnlocked
  <2>6. HandOK'
    BY <1>21, LineFacts, SeqFacts DEF ReaderMatch, PendingUnlocked
  <2>7. QED
    BY <2>1, <2>2, <2>3, <2>4, <2>5, <2>6
<1>22. ASSUME CoalesceSent PROVE TypeInv'
  BY <1>22, LineFacts DEF CoalesceSent, EventRoom, Emit
<1>23. ASSUME CoalesceTimeout PROVE TypeInv'
  <2>1. CallerTypeOK'
    BY <1>23, LineFacts, SeqFacts, LeavesType DEF CoalesceTimeout
  <2>2. WriterTypeOK'
    BY <1>23, LineFacts, SeqFacts, LeavesType DEF CoalesceTimeout
  <2>3. ReaderTypeOK'
    BY <1>23, LineFacts, SeqFacts, LeavesType DEF CoalesceTimeout
  <2>4. EventTypeOK'
    BY <1>23, LineFacts, SeqFacts, LeavesType DEF CoalesceTimeout
  <2>5. ChildTypeOK'
    BY <1>23, LineFacts, SeqFacts, LeavesType DEF CoalesceTimeout
  <2>6. HandOK'
    BY <1>23, LineFacts, SeqFacts, LeavesType DEF CoalesceTimeout
  <2>7. QED
    BY <2>1, <2>2, <2>3, <2>4, <2>5, <2>6
<1>24. ASSUME CoalesceClosed PROVE TypeInv'
  BY <1>24, LineFacts DEF CoalesceClosed, ReaderLeaves, Failing
<1>25. ASSUME ReaderSend PROVE TypeInv'
  <2>1. CallerTypeOK'
    BY <1>25, LineFacts, SeqFacts, EmitType, LeavesType DEF ReaderSend
  <2>2. WriterTypeOK'
    BY <1>25, LineFacts, SeqFacts, EmitType, LeavesType DEF ReaderSend
  <2>3. ReaderTypeOK'
    BY <1>25, LineFacts, SeqFacts, EmitType, LeavesType DEF ReaderSend
  <2>4. EventTypeOK'
    BY <1>25, LineFacts, SeqFacts, EmitType, LeavesType DEF ReaderSend
  <2>5. ChildTypeOK'
    BY <1>25, LineFacts, SeqFacts, EmitType, LeavesType DEF ReaderSend
  <2>6. HandOK'
    BY <1>25, LineFacts, SeqFacts, EmitType, LeavesType DEF ReaderSend
  <2>7. QED
    BY <2>1, <2>2, <2>3, <2>4, <2>5, <2>6
<1>26. ASSUME ReaderDrain PROVE TypeInv'
  BY <1>26 DEF ReaderDrain, Failing, PendingUnlocked
<1>27. ASSUME ReaderDrop PROVE TypeInv'
  BY <1>27 DEF ReaderDrop, Failing
<1>28. ASSUME SupervisorKills PROVE TypeInv'
  BY <1>28 DEF SupervisorKills
<1>29. ASSUME SupervisorReaps PROVE TypeInv'
  BY <1>29 DEF SupervisorReaps, Failing
<1>30. ASSUME SupervisorReport PROVE TypeInv'
  <2>1. CallerTypeOK'
    BY <1>30, LineFacts, SeqFacts, EmitType DEF SupervisorReport
  <2>2. WriterTypeOK'
    BY <1>30, LineFacts, SeqFacts, EmitType DEF SupervisorReport
  <2>3. ReaderTypeOK'
    BY <1>30, LineFacts, SeqFacts, EmitType DEF SupervisorReport
  <2>4. EventTypeOK'
    BY <1>30, LineFacts, SeqFacts, EmitType DEF SupervisorReport
  <2>5. ChildTypeOK'
    BY <1>30, LineFacts, SeqFacts, EmitType DEF SupervisorReport
  <2>6. HandOK'
    <3>1. UNCHANGED <<wpc, wcmd>>
      BY <1>30 DEF SupervisorReport
    <3>2. QED
      BY <3>1
  <2>7. QED
    BY <2>1, <2>2, <2>3, <2>4, <2>5, <2>6
<1>31. ASSUME SupervisorCancels PROVE TypeInv'
  BY <1>31 DEF SupervisorCancels
<1>32. ASSUME ConsumerRecv PROVE TypeInv'
  <2>1. /\ UNCHANGED <<callVars, cmdChan, writeVars, pendingChan, pending, readVars,
                        consumer, spc, cancelled, childVars>>
        /\ eventChan # <<>> /\ eventChan' = Tail(eventChan)
        /\ heard' = IF Head(eventChan).kind = "output" THEN Head(eventChan).num ELSE heard
    BY <1>32 DEF ConsumerRecv
  <2>2. EventTypeOK'
    <3>1. /\ eventChan \in Seq(Line) /\ Len(eventChan) <= EventCap /\ heard \in Nat
          /\ EventCap \in Nat
      BY CapacityAssumption DEF CapacityAssumption, EventTypeOK
    <3>2. Tail(eventChan) \in Seq(Line) /\ Len(Tail(eventChan)) <= EventCap
      BY <2>1, <3>1
    <3>3. Head(eventChan).num \in Nat
      BY <2>1, <3>1, LineFacts
    <3>4. QED
      BY <2>1, <3>1, <3>2, <3>3 DEF EventTypeOK
  <2>3. QED
    BY <2>1, <2>2
<1>33. ASSUME ConsumerEnds PROVE TypeInv'
  BY <1>33 DEF ConsumerEnds, ReaderGone
<1>34. ASSUME ConsumerDrops PROVE TypeInv'
  BY <1>34 DEF ConsumerDrops
<1>35. ASSUME TmuxBegin PROVE TypeInv'
  <2>1. CallerTypeOK'
    BY <1>35, LineFacts, SeqFacts, WritesType DEF TmuxBegin, TmuxUnchanged,
       LineKind
  <2>2. WriterTypeOK'
    BY <1>35, LineFacts, SeqFacts, WritesType DEF TmuxBegin, TmuxUnchanged,
       LineKind
  <2>3. ReaderTypeOK'
    BY <1>35, LineFacts, SeqFacts, WritesType DEF TmuxBegin, TmuxUnchanged,
       LineKind
  <2>4. EventTypeOK'
    BY <1>35, LineFacts, SeqFacts, WritesType DEF TmuxBegin, TmuxUnchanged,
       LineKind
  <2>5. ChildTypeOK'
    <3>1. <<MkLine("begin", 1, Len(ran) + 1), MkLine("data", 1, Len(ran) + 1)>>
            \in Seq(Line)
      BY LineFacts DEF LineKind
    <3>2. ptyOut' \in Seq(Line)
      BY <1>35, <3>1, WritesType DEF TmuxBegin
    <3>3. tmuxIn' \in Seq(AllCommands) /\ ran' \in Seq([cmd : AllCommands, ok : BOOLEAN])
      BY <1>35 DEF TmuxBegin
    <3>4. QED
      BY <1>35, <3>2, <3>3 DEF TmuxBegin
  <2>6. HandOK'
    BY <1>35, LineFacts, SeqFacts, WritesType DEF TmuxBegin, TmuxUnchanged,
       LineKind
  <2>7. QED
    BY <2>1, <2>2, <2>3, <2>4, <2>5, <2>6
<1>36. ASSUME TmuxEnd PROVE TypeInv'
  <2>1. CallerTypeOK'
    BY <1>36, LineFacts, SeqFacts, WritesType DEF TmuxEnd, TmuxUnchanged,
       LineKind
  <2>2. WriterTypeOK'
    BY <1>36, LineFacts, SeqFacts, WritesType DEF TmuxEnd, TmuxUnchanged,
       LineKind
  <2>3. ReaderTypeOK'
    BY <1>36, LineFacts, SeqFacts, WritesType DEF TmuxEnd, TmuxUnchanged,
       LineKind
  <2>4. EventTypeOK'
    BY <1>36, LineFacts, SeqFacts, WritesType DEF TmuxEnd, TmuxUnchanged,
       LineKind
  <2>5. ChildTypeOK'
    <3> DEFINE closing == MkLine(IF ran[Len(ran)].ok THEN "end" ELSE "error", 1, Len(ran))
    <3>1. closing \in Line
      BY LineFacts DEF LineKind
    <3>2. <<closing>> \in Seq(Line) /\ <<closing, ExitLine>> \in Seq(Line)
      BY <3>1, LineFacts
    <3>3. Writes(<<closing>>) \/ Writes(<<closing, ExitLine>>)
      BY <1>36 DEF TmuxEnd
    <3>4. ptyOut' \in Seq(Line)
      BY <3>2, <3>3, WritesType
    <3>5. QED
      BY <1>36, <3>4 DEF TmuxEnd
  <2>6. HandOK'
    <3>1. UNCHANGED <<wpc, wcmd>>
      BY <1>36 DEF TmuxEnd, TmuxUnchanged
    <3>2. QED
      BY <3>1
  <2>7. QED
    BY <2>1, <2>2, <2>3, <2>4, <2>5, <2>6
<1>37. ASSUME TmuxOutput PROVE TypeInv'
  <2>1. /\ Writes(<<MkLine("output", 0, emitted + 1)>>) /\ emitted' = emitted + 1
        /\ UNCHANGED <<child, tmuxIn, open, ran, noted>> /\ TmuxUnchanged
    BY <1>37 DEF TmuxOutput
  <2>2. emitted + 1 \in Nat /\ MkLine("output", 0, emitted + 1) \in Line
    BY LineFacts DEF ChildTypeOK, LineKind
  <2>3. ptyOut' \in Seq(Line)
    <3>1. <<MkLine("output", 0, emitted + 1)>> \in Seq(Line)
      BY <2>2
    <3>2. QED
      BY <2>1, <3>1, WritesType
  <2>4. ChildTypeOK'
    BY <2>1, <2>2, <2>3 DEF ChildTypeOK
  <2>5. QED
    BY <2>1, <2>4 DEF TmuxUnchanged
<1>38. ASSUME TmuxNote PROVE TypeInv'
  <2>1. CallerTypeOK'
    BY <1>38, LineFacts, SeqFacts, WritesType DEF TmuxNote, TmuxUnchanged,
       LineKind
  <2>2. WriterTypeOK'
    BY <1>38, LineFacts, SeqFacts, WritesType DEF TmuxNote, TmuxUnchanged,
       LineKind
  <2>3. ReaderTypeOK'
    BY <1>38, LineFacts, SeqFacts, WritesType DEF TmuxNote, TmuxUnchanged,
       LineKind
  <2>4. EventTypeOK'
    BY <1>38, LineFacts, SeqFacts, WritesType DEF TmuxNote, TmuxUnchanged,
       LineKind
  <2>5. ChildTypeOK'
    <3> DEFINE block == <<MkLine("begin", 0, 0), MkLine("data", 0, 0), MkLine("end", 0, 0)>>
    <3>1. <<MkLine("note", 0, 0)>> \in Seq(Line) /\ block \in Seq(Line)
      BY LineFacts DEF LineKind
    <3>2. Writes(<<MkLine("note", 0, 0)>>) \/ Writes(block)
      BY <1>38 DEF TmuxNote
    <3>3. ptyOut' \in Seq(Line)
      BY <3>1, <3>2, WritesType
    <3>4. QED
      BY <1>38, <3>3 DEF TmuxNote
  <2>6. HandOK'
    BY <1>38, LineFacts, SeqFacts, WritesType DEF TmuxNote, TmuxUnchanged,
       LineKind
  <2>7. QED
    BY <2>1, <2>2, <2>3, <2>4, <2>5, <2>6
<1>39. ASSUME TmuxLeaves PROVE TypeInv'
  BY <1>39, LineFacts DEF TmuxLeaves, Writes, TmuxUnchanged
<1>40. ASSUME ChildExits PROVE TypeInv'
  BY <1>40 DEF ChildExits, TmuxUnchanged
<1>41. CASE UNCHANGED vars
  BY <1>41 DEF vars
<1>42. QED
  BY <1>1, <1>2, <1>3, <1>4, <1>5, <1>6, <1>7, <1>8, <1>9, <1>10, <1>11,
     <1>12, <1>13, <1>14, <1>15, <1>16, <1>17, <1>18, <1>19, <1>20, <1>21,
     <1>22, <1>23, <1>24, <1>25, <1>26, <1>27, <1>28, <1>29, <1>30, <1>31,
     <1>32, <1>33, <1>34, <1>35, <1>36, <1>37, <1>38, <1>39, <1>40, <1>41
     DEF Next, Caller, Writer, Reader, Supervisor, Consumer, Tmux

(* Every variable keeps its type and no channel exceeds its capacity.       *)
THEOREM TypeCorrect == Spec => []TypeOK
<1>1. TypeInv => TypeOK
  BY DEF TypeInv
<1>2. QED
  BY TypeInvInit, TypeInvStep, <1>1, PTL DEF Spec

--------------------------------------------------------------------------------
(* The correlation of replies with callers: one lemma per conjunct of       *)
(* Aligned, each with the actions that can disturb it.                      *)

LEMMA OrderedStep == TypeInv /\ Ordered /\ [Next]_vars => Ordered'
<1> SUFFICES ASSUME TypeInv, Ordered, [Next]_vars PROVE Ordered'
  OBVIOUS
<1> USE DEF TypeInv, TypeOK, WriterTypeOK, ChildTypeOK, HandOK,
            callVars, writeVars, readVars, eventVars, childVars
<1>1. CASE UNCHANGED <<ran, tmuxIn, writeVars>>
  BY <1>1 DEF Ordered
<1>2. CASE wpc' = "done" /\ UNCHANGED <<ran, tmuxIn, registered>>
  BY <1>2 DEF Ordered
<1>3. CASE WriterRecv
  BY <1>3 DEF WriterRecv, Ordered
<1>4. CASE WriterRegister
  <2>1. /\ wpc = "register" /\ wpc' = "write" /\ wcmd \in AllCommands
        /\ registered' = Append(registered, wcmd)
        /\ UNCHANGED <<ran, tmuxIn, wcmd>>
    BY <1>4 DEF WriterRegister
  <2>2. /\ Len(registered') = Len(registered) + 1
        /\ registered'[Len(registered')] = wcmd
        /\ \A i \in 1..Len(registered) : registered'[i] = registered[i]
    BY <2>1, AppendFacts
  <2>3. \A k \in DOMAIN ran : k \in 1..Len(registered)
    BY DEF Ordered
  <2>4. \A i \in DOMAIN tmuxIn : Len(ran) + i \in 1..Len(registered)
    BY DEF Ordered
  <2>5. Len(ran) + Len(tmuxIn) = Len(registered)
    BY <2>1 DEF Ordered
  <2>6. \A k \in DOMAIN ran' : ran'[k].cmd = registered'[k]
    BY <2>1, <2>2, <2>3 DEF Ordered
  <2>7. \A i \in DOMAIN tmuxIn' : tmuxIn'[i] = registered'[Len(ran') + i]
    BY <2>1, <2>2, <2>4 DEF Ordered
  <2>8. Len(ran') + Len(tmuxIn') + 1 = Len(registered')
    BY <2>1, <2>2, <2>5
  <2>9. QED
    BY <2>1, <2>2, <2>6, <2>7, <2>8 DEF Ordered
<1>5. CASE WriterWrite
  <2>1. /\ wpc = "write" /\ wpc' = "select" /\ wcmd \in AllCommands
        /\ tmuxIn' = Append(tmuxIn, wcmd)
        /\ UNCHANGED <<ran, registered>>
    BY <1>5 DEF WriterWrite
  <2>2. /\ Len(tmuxIn') = Len(tmuxIn) + 1
        /\ tmuxIn'[Len(tmuxIn')] = wcmd
        /\ \A i \in 1..Len(tmuxIn) : tmuxIn'[i] = tmuxIn[i]
        /\ DOMAIN tmuxIn' = 1..Len(tmuxIn') /\ DOMAIN tmuxIn = 1..Len(tmuxIn)
        /\ Len(tmuxIn) \in Nat
    BY <2>1, AppendFacts
  <2>3. Len(ran) \in Nat
    OBVIOUS
  <2>4. /\ Len(ran) + Len(tmuxIn) + 1 = Len(registered)
        /\ registered[Len(registered)] = wcmd
        /\ \A i \in 1..Len(tmuxIn) : tmuxIn[i] = registered[Len(ran) + i]
        /\ \A k \in DOMAIN ran : ran[k].cmd = registered[k]
    BY <2>1, <2>2 DEF Ordered
  <2>5. Len(ran) + Len(tmuxIn') = Len(registered)
    BY <2>2, <2>3, <2>4
  <2>6. ASSUME NEW i \in 1..Len(tmuxIn') PROVE tmuxIn'[i] = registered[Len(ran) + i]
    <3>1. i \in 1..Len(tmuxIn) \/ i = Len(tmuxIn')
      BY <2>2
    <3>2. QED
      BY <2>2, <2>4, <2>5, <3>1
  <2>7. QED
    BY <2>1, <2>2, <2>4, <2>5, <2>6 DEF Ordered
<1>6. CASE TmuxBegin
  <2> DEFINE n == Len(ran)
             m == Len(tmuxIn)
  <2>1. /\ tmuxIn # <<>> /\ tmuxIn' = Tail(tmuxIn)
        /\ UNCHANGED <<wpc, wcmd, registered>>
    BY <1>6 DEF TmuxBegin, TmuxUnchanged
  <2>2. PICK ok \in BOOLEAN : ran' = Append(ran, [cmd |-> Head(tmuxIn), ok |-> ok])
    BY <1>6 DEF TmuxBegin
  <2>3. /\ n \in Nat /\ m \in Nat /\ m > 0 /\ DOMAIN ran = 1..n /\ DOMAIN tmuxIn = 1..m
        /\ Len(ran') = n + 1 /\ Len(tmuxIn') = m - 1
        /\ DOMAIN ran' = 1..n + 1 /\ DOMAIN tmuxIn' = 1..m - 1
    BY <2>1, <2>2
  <2>4. /\ \A k \in 1..n : ran'[k] = ran[k]
        /\ ran'[n + 1].cmd = tmuxIn[1]
        /\ \A i \in 1..m - 1 : tmuxIn'[i] = tmuxIn[i + 1]
    BY <2>1, <2>2
  <2> HIDE DEF n, m
  <2>5. /\ \A k \in 1..n : ran[k].cmd = registered[k]
        /\ \A i \in 1..m : tmuxIn[i] = registered[n + i]
        /\ n + m <= Len(registered)
        /\ wpc \in {"select", "register"} => n + m = Len(registered)
        /\ wpc = "write" => n + m + 1 = Len(registered) /\ registered[Len(registered)] = wcmd
    BY <2>3 DEF Ordered, n, m
  <2>6. \A k \in 1..n + 1 : ran'[k].cmd = registered[k]
    <3>1. \A k \in 1..n + 1 : k \in 1..n \/ k = n + 1
      BY <2>3
    <3>2. tmuxIn[1] = registered[n + 1]
      BY <2>3, <2>5
    <3>3. QED
      BY <2>4, <2>5, <3>1, <3>2
  <2>7. \A i \in 1..m - 1 : tmuxIn'[i] = registered[(n + 1) + i]
    <3>1. \A i \in 1..m - 1 : i + 1 \in 1..m /\ n + (i + 1) = (n + 1) + i
      BY <2>3
    <3>2. QED
      BY <2>4, <2>5, <3>1
  <2>8. (n + 1) + (m - 1) = n + m
    BY <2>3
  <2>9. QED
    BY <2>1, <2>3, <2>5, <2>6, <2>7, <2>8 DEF Ordered
<1>7. ASSUME NEW c \in Commands, Caller(c) PROVE UNCHANGED <<ran, tmuxIn, writeVars>>
  BY <1>7 DEF Caller, Call, Enqueue, Refused, Timeout, Abandon
<1>8. CASE ShutdownDetach \/ ShutdownCancel \/ CancelToken
  BY <1>1, <1>8 DEF ShutdownDetach, ShutdownCancel, CancelToken
<1>9. CASE WriterCancelled \/ WriterUnregistered \/ WriterWriteFails
  BY <1>2, <1>9 DEF WriterCancelled, WriterUnregistered, WriterWriteFails, WriterLeaves
<1>10. ASSUME Reader PROVE UNCHANGED <<ran, tmuxIn, writeVars>>
  BY <1>10 DEF Reader, ReaderStops, ReadBegin, ReadData, ReadEnd, ReadOutput, ReadNotice,
     Reading, ReaderMatch, CoalesceSent, CoalesceTimeout, CoalesceClosed, ReaderSend,
     ReaderDrain, ReaderDrop
<1>11. ASSUME Supervisor PROVE UNCHANGED <<ran, tmuxIn, writeVars>>
  BY <1>11 DEF Supervisor, SupervisorKills, SupervisorReaps, SupervisorReport,
     SupervisorCancels
<1>12. ASSUME Consumer PROVE UNCHANGED <<ran, tmuxIn, writeVars>>
  BY <1>12 DEF Consumer, ConsumerRecv, ConsumerEnds, ConsumerDrops
<1>13. ASSUME TmuxEnd \/ TmuxOutput \/ TmuxNote \/ TmuxLeaves \/ ChildExits
       PROVE  UNCHANGED <<ran, tmuxIn, writeVars>>
  BY <1>13 DEF TmuxEnd, TmuxOutput, TmuxNote, TmuxLeaves, ChildExits, TmuxUnchanged
<1>14. CASE UNCHANGED vars
  BY <1>1, <1>14 DEF vars
<1>15. QED
  BY <1>1, <1>3, <1>4, <1>5, <1>6, <1>7, <1>8, <1>9, <1>10, <1>11, <1>12, <1>13, <1>14
     DEF Next, Writer, Tmux
LEMMA QueuedStep == TypeInv /\ Aligned /\ [Next]_vars => Queued'
<1> SUFFICES ASSUME TypeInv, Aligned, [Next]_vars PROVE Queued'
  OBVIOUS
<1> USE DEF TypeInv, TypeOK, WriterTypeOK, ReaderTypeOK, EventTypeOK, HandOK,
            callVars, writeVars, readVars, eventVars, childVars
<1>1. ASSUME UNCHANGED <<registered, pending, pendingChan, matched>>,
             Matching' => Matching
      PROVE  Queued'
  BY <1>1 DEF Aligned, Queued, Queue
<1>2. ASSUME ~Matching' PROVE Queued'
  BY <1>2 DEF Queued
<1>3. CASE WriterRegister
  <2>1. /\ registered' = Append(registered, wcmd) /\ wcmd \in AllCommands
        /\ pendingChan' = Append(pendingChan, wcmd)
        /\ UNCHANGED <<pending, matched, rpc, spc>>
    BY <1>3 DEF WriterRegister
  <2>2. Queue' = Append(Queue, wcmd)
    BY <2>1 DEF Queue
  <2>3. Queue \in Seq(AllCommands)
    BY DEF Queue
  <2>4. /\ Len(Queue') = Len(Queue) + 1
        /\ Queue'[Len(Queue) + 1] = wcmd
        /\ \A i \in 1..Len(Queue) : Queue'[i] = Queue[i]
    BY <2>1, <2>2, <2>3, AppendFacts
  <2>5. /\ Len(registered') = Len(registered) + 1
        /\ registered'[Len(registered) + 1] = wcmd
        /\ \A i \in 1..Len(registered) : registered'[i] = registered[i]
    BY <2>1, AppendFacts
  <2>6. SUFFICES ASSUME Matching' PROVE Queued'
    BY DEF Queued
  <2>7. /\ matched + Len(Queue) = Len(registered)
        /\ \A i \in 1..Len(Queue) : Queue[i] = registered[matched + i]
    BY <2>1, <2>6 DEF Aligned, Queued, Matching
  <2> HIDE DEF TypeInv
  <2>8. matched' = matched /\ matched \in Nat /\ Len(Queue) \in Nat
    BY <2>1, <2>3 DEF TypeInv
  <2>9. matched' + Len(Queue') = Len(registered')
    BY <2>4, <2>5, <2>7, <2>8
  <2>10. ASSUME NEW i \in 1..Len(Queue') PROVE Queue'[i] = registered'[matched' + i]
    <3>1. CASE i = Len(Queue) + 1
      BY <2>4, <2>5, <2>7, <2>8, <3>1
    <3>2. CASE i \in 1..Len(Queue)
      BY <2>4, <2>5, <2>7, <2>8, <3>2
    <3>3. QED
      BY <2>4, <2>8, <3>1, <3>2
  <2>11. QED
    BY <2>9, <2>10 DEF Queued
<1>4. CASE ReaderMatch
  <2>1. /\ pendingChan' = <<>> /\ matched' = matched + 1
        /\ pending' = IF Queue = <<>> THEN <<>> ELSE Tail(Queue)
        /\ UNCHANGED <<registered, spc>>
        /\ Matching' => Matching
    BY <1>4 DEF ReaderMatch, Queue, Matching
  <2>2. Queue' = pending' /\ Queue \in Seq(AllCommands)
    BY <2>1 DEF Queue
  <2>3. SUFFICES ASSUME Matching' PROVE Queued'
    BY DEF Queued
  <2>4. /\ matched + Len(Queue) = Len(registered)
        /\ \A i \in 1..Len(Queue) : Queue[i] = registered[matched + i]
    BY <2>1, <2>3 DEF Aligned, Queued
  <2>5. matched + 1 <= Len(registered)
    BY <1>4 DEF ReaderMatch, Aligned, Ordered, Framed, Ahead, Seen
  <2>6. Queue # <<>>
    BY <2>4, <2>5
  <2>7. /\ Queue' = Tail(Queue) /\ Len(Queue') = Len(Queue) - 1
        /\ \A i \in 1..Len(Queue) - 1 : Queue'[i] = Queue[i + 1]
    BY <2>1, <2>2, <2>6, TailFacts
  <2> HIDE DEF TypeInv
  <2>8. /\ matched' = matched + 1 /\ matched \in Nat /\ Len(Queue) \in Nat
        /\ registered' = registered
    BY <2>1, <2>2 DEF TypeInv
  <2>9. matched' + Len(Queue') = Len(registered')
    <3>1. matched' = matched + 1 /\ Len(Queue') = Len(Queue) - 1
      BY <2>7, <2>8
    <3>2. Len(registered') = matched + Len(Queue)
      BY <2>4, <2>8
    <3>3. matched + 1 + (Len(Queue) - 1) = matched + Len(Queue)
      BY <2>8
    <3>4. QED
      BY <3>1, <3>2, <3>3
  <2>10. ASSUME NEW i \in 1..Len(Queue') PROVE Queue'[i] = registered'[matched' + i]
    BY <2>4, <2>7, <2>8
  <2>11. QED
    BY <2>9, <2>10 DEF Queued
<1>5. ASSUME NEW c \in Commands, Caller(c) PROVE Queued'
  BY <1>1, <1>5 DEF Caller, Call, Enqueue, Refused, Timeout, Abandon, Matching
<1>6. CASE ShutdownDetach \/ ShutdownCancel \/ CancelToken
  BY <1>1, <1>6 DEF ShutdownDetach, ShutdownCancel, CancelToken, Matching
<1>7. CASE WriterCancelled \/ WriterRecv \/ WriterUnregistered \/ WriterWrite \/ WriterWriteFails
  BY <1>1, <1>7 DEF WriterCancelled, WriterRecv, WriterUnregistered, WriterWrite,
     WriterWriteFails, Matching
<1>8. CASE ReaderStops \/ ReadBegin \/ ReadData \/ ReadEnd \/ ReadOutput \/ ReadNotice
  <2>1. rpc = "select" /\ UNCHANGED <<registered, pending, pendingChan, matched, spc>>
    BY <1>8 DEF ReaderStops, ReadBegin, ReadData, ReadEnd, ReadOutput, ReadNotice, Reading
  <2>2. QED
    BY <1>1, <2>1 DEF Matching
<1>9. CASE CoalesceSent \/ CoalesceTimeout \/ CoalesceClosed \/ ReaderSend
  <2>1. /\ rpc \in {"coalesce", "send"}
        /\ UNCHANGED <<registered, pending, pendingChan, matched, spc>>
    BY <1>9 DEF CoalesceSent, CoalesceTimeout, CoalesceClosed, ReaderSend
  <2>2. QED
    BY <1>1, <2>1 DEF Matching
<1>10. CASE ReaderDrain \/ ReaderDrop
  BY <1>2, <1>10 DEF ReaderDrain, ReaderDrop, Matching
<1>11. CASE SupervisorKills
  BY <1>1, <1>11 DEF SupervisorKills, Queued, Queue, Aligned, Matching
<1>12. CASE SupervisorReaps \/ SupervisorReport \/ SupervisorCancels
  BY <1>2, <1>12 DEF SupervisorReaps, SupervisorReport, SupervisorCancels, Matching
<1>13. CASE Consumer
  BY <1>1, <1>13 DEF Consumer, ConsumerRecv, ConsumerEnds, ConsumerDrops, Matching
<1>14. CASE Tmux
  BY <1>1, <1>14 DEF Tmux, TmuxBegin, TmuxEnd, TmuxOutput, TmuxNote, TmuxLeaves, ChildExits,
     TmuxUnchanged, Matching
<1>15. CASE UNCHANGED vars
  BY <1>1, <1>15 DEF vars, Matching
<1>16. QED
  BY <1>3, <1>4, <1>5, <1>6, <1>7, <1>8, <1>9, <1>10, <1>11, <1>12, <1>13, <1>14, <1>15
     DEF Next, Writer, Reader, Supervisor
(* Framed, when neither the pty nor what tmux ran changes. *)
LEMMA FramedKeeps ==
    ASSUME Framed, UNCHANGED <<ptyOut, ran, open>>, Seen' = Seen,
           InBlock' => InBlock
    PROVE  Framed'
<1>1. Ahead' /\ Rising' /\ Whole' /\ Verdicts'
  BY DEF Framed, Ahead, Rising, Whole, Verdicts
<1>2. Ends'
  BY DEF Framed, Ends
<1>3. QED
  BY <1>1, <1>2 DEF Framed

(* The line read: it leaves a block only as its end, and one that begins a  *)
(* command block begins the next one.                                      *)
LEMMA FramedReads ==
    ASSUME TypeInv, Framed, rpc = "select", ptyOut # <<>>, ptyOut' = Tail(ptyOut),
           UNCHANGED <<ran, open, matched>>,
           rpc' = "match" <=> Begins(Head(ptyOut)),
           inFlight' # None => inFlight # None,
           Closes(Head(ptyOut)) => inFlight' = None
    PROVE  Framed'
<1> DEFINE l == Head(ptyOut)
<1>1. /\ ptyOut \in Seq(Line) /\ Len(ptyOut) \in Nat /\ matched \in Nat
      /\ ran \in Seq([cmd : AllCommands, ok : BOOLEAN]) /\ Len(ran) \in Nat
  BY DEF TypeInv, TypeOK, ChildTypeOK, ReaderTypeOK
<1>2. /\ l \in Line /\ l = ptyOut[1] /\ Len(ptyOut) > 0
      /\ ptyOut' \in Seq(Line)
      /\ Len(ptyOut') = Len(ptyOut) - 1
      /\ \A i \in 1..Len(ptyOut) - 1 : ptyOut'[i] = ptyOut[i + 1]
  BY <1>1, TailFacts
<1>3. /\ DOMAIN ptyOut = 1..Len(ptyOut) /\ DOMAIN ptyOut' = 1..Len(ptyOut) - 1
      /\ DOMAIN ran = 1..Len(ran) /\ ran' = ran /\ Len(ran') = Len(ran)
  BY <1>1, <1>2
<1>4. \A i \in DOMAIN ptyOut' : i + 1 \in DOMAIN ptyOut /\ ptyOut'[i] = ptyOut[i + 1]
  BY <1>1, <1>2, <1>3
<1>5. \A i \in DOMAIN ptyOut : i = 1 \/ (i - 1 \in DOMAIN ptyOut' /\ ptyOut'[i - 1] = ptyOut[i])
  BY <1>1, <1>2, <1>3
<1>6. Seen = matched /\ Seen \in Nat
  BY <1>1 DEF Seen
<1> HIDE DEF l
<1>7. Begins(l) => l.num = Seen + 1
  <2> SUFFICES ASSUME Begins(l) PROVE l.num = Seen + 1
    OBVIOUS
  <2>1. l.num \in Seen + 1..Len(ran)
    BY <1>2, <1>3 DEF Framed, Ahead
  <2>2. Seen + 1 \in Seen + 1..Len(ran)
    BY <1>1, <1>6, <2>1
  <2>3. PICK i \in DOMAIN ptyOut : Begins(ptyOut[i]) /\ ptyOut[i].num = Seen + 1
    BY <2>2 DEF Framed, Ahead
  <2>4. CASE i = 1
    BY <1>2, <2>3, <2>4
  <2>5. CASE i # 1
    <3>1. 1 < i /\ 1 \in DOMAIN ptyOut
      BY <1>1, <1>3, <2>5
    <3>2. l.num < Seen + 1
      BY <1>2, <2>3, <3>1 DEF Framed, Rising
    <3>3. QED
      BY <1>1, <1>6, <2>1, <3>2
  <2>6. QED
    BY <2>4, <2>5
<1>8. Seen' = IF Begins(l) THEN Seen + 1 ELSE Seen
  BY <1>6 DEF Seen, l
<1>9. Rising'
  BY <1>1, <1>3, <1>4 DEF Framed, Rising
<1>10. Whole'
  BY <1>1, <1>3, <1>4 DEF Framed, Whole
<1>11. Verdicts'
  BY <1>3, <1>4 DEF Framed, Verdicts
<1>12. Ahead'
  <2>1. Seen' <= Len(ran')
    BY <1>1, <1>2, <1>3, <1>6, <1>7, <1>8 DEF Framed, Ahead
  <2>2. ASSUME NEW i \in DOMAIN ptyOut', Begins(ptyOut'[i])
        PROVE  ptyOut'[i].num \in Seen' + 1..Len(ran')
    <3>1. i + 1 \in DOMAIN ptyOut /\ ptyOut[i + 1] = ptyOut'[i] /\ Begins(ptyOut[i + 1])
      BY <1>4, <2>2
    <3>2. ptyOut[i + 1].num \in Seen + 1..Len(ran)
      BY <3>1 DEF Framed, Ahead
    <3>3. Begins(l) => l.num < ptyOut[i + 1].num
      <4>1. 1 \in DOMAIN ptyOut /\ 1 < i + 1
        BY <1>1, <1>3
      <4>2. QED
        BY <1>2, <3>1, <4>1 DEF Framed, Rising
    <3>4. QED
      BY <1>1, <1>3, <1>6, <1>7, <1>8, <3>1, <3>2, <3>3
  <2>3. ASSUME NEW n \in Seen' + 1..Len(ran')
        PROVE  \E i \in DOMAIN ptyOut' : Begins(ptyOut'[i]) /\ ptyOut'[i].num = n
    <3>1. n \in Seen + 1..Len(ran) /\ (Begins(l) => n # l.num)
      BY <1>1, <1>3, <1>6, <1>7, <1>8
    <3>2. PICK i \in DOMAIN ptyOut : Begins(ptyOut[i]) /\ ptyOut[i].num = n
      BY <3>1 DEF Framed, Ahead
    <3>3. i # 1
      BY <1>2, <3>1, <3>2
    <3>4. i - 1 \in DOMAIN ptyOut' /\ ptyOut'[i - 1] = ptyOut[i]
      BY <1>5, <3>3
    <3>5. QED
      BY <3>2, <3>4
  <2>4. QED
    BY <2>1, <2>2, <2>3 DEF Ahead
<1>13. Ends'
  <2>0. open' => ran' # <<>>
    BY <1>3 DEF Framed, Ends
  <2>1. InBlock' => Begins(l) \/ (InBlock /\ ~Closes(l))
    BY DEF InBlock, l
  <2>2. InBlock => Continues(l) /\ l.num = Seen
    BY <1>2 DEF Framed, Ends
  <2>3. InBlock' => Holds(l) /\ l.num = Seen'
    BY <1>7, <1>8, <2>1, <2>2 DEF Begins, Continues, Holds, Closes
  <2>4. CASE ptyOut' = <<>>
    <3>0. Len(ptyOut') = 0
      BY <2>4, SeqFacts
    <3>1. Len(ptyOut) = 1
      BY <1>1, <1>2, <3>0
    <3>2. open <=> Holds(l)
      BY <1>2, <3>1 DEF Framed, Ends
    <3>3. QED
      BY <2>0, <2>3, <2>4, <3>2 DEF Ends
  <2>5. CASE ptyOut' # <<>>
    <3>1. Len(ptyOut') > 0 /\ Len(ptyOut) > 1
      BY <1>1, <1>2, <2>5
    <3>2. /\ ptyOut'[1] = ptyOut[2] /\ 1 \in DOMAIN ptyOut /\ 2 \in DOMAIN ptyOut
          /\ ptyOut'[Len(ptyOut')] = ptyOut[Len(ptyOut)]
      BY <1>1, <1>2, <1>3, <3>1
    <3>3. Holds(l) => Continues(ptyOut[2]) /\ ptyOut[2].num = l.num
      BY <1>2, <3>2 DEF Framed, Whole
    <3>4. /\ open <=> Holds(ptyOut[Len(ptyOut)])
          /\ open => ptyOut[Len(ptyOut)].num = Len(ran)
      BY DEF Framed, Ends
    <3>5. QED
      BY <1>3, <2>0, <2>3, <2>5, <3>2, <3>3, <3>4 DEF Ends
  <2>6. QED
    BY <2>4, <2>5
<1>14. QED
  BY <1>9, <1>10, <1>11, <1>12, <1>13 DEF Framed
(* Appending non-empty t to s: where each index, and each pair of           *)
(* neighbours, comes from.                                                 *)
LEMMA ConcatIndices ==
    ASSUME NEW S, NEW s \in Seq(S), NEW t \in Seq(S), t # <<>>
    PROVE  /\ \A i \in DOMAIN (s \o t) :
                 \/ i \in DOMAIN s /\ i <= Len(s) /\ (s \o t)[i] = s[i]
                 \/ /\ i > Len(s) /\ i - Len(s) \in DOMAIN t
                    /\ (s \o t)[i] = t[i - Len(s)]
           /\ \A i \in DOMAIN s : i \in DOMAIN (s \o t) /\ (s \o t)[i] = s[i]
           /\ \A i \in DOMAIN t : /\ Len(s) + i \in DOMAIN (s \o t)
                                  /\ (s \o t)[Len(s) + i] = t[i]
           /\ s \o t # <<>> /\ (s \o t)[Len(s \o t)] = t[Len(t)]
           /\ (s \o t)[1] = IF s = <<>> THEN t[1] ELSE s[1]
           /\ 1 \in DOMAIN t
<1>1. /\ Len(s) \in Nat /\ Len(t) \in Nat /\ Len(t) > 0
      /\ DOMAIN s = 1..Len(s) /\ DOMAIN t = 1..Len(t)
      /\ DOMAIN (s \o t) = 1..(Len(s) + Len(t)) /\ Len(s \o t) = Len(s) + Len(t)
  OBVIOUS
<1>2. /\ \A i \in 1..Len(s) : (s \o t)[i] = s[i]
      /\ \A i \in 1..Len(t) : (s \o t)[Len(s) + i] = t[i]
  BY ConcatFacts
<1>3. ASSUME NEW i \in 1..(Len(s) + Len(t))
      PROVE  \/ i \in 1..Len(s) /\ i <= Len(s)
             \/ i > Len(s) /\ i - Len(s) \in 1..Len(t) /\ Len(s) + (i - Len(s)) = i
  BY <1>1
<1>4. ASSUME NEW i \in DOMAIN (s \o t)
      PROVE  \/ i \in DOMAIN s /\ i <= Len(s) /\ (s \o t)[i] = s[i]
             \/ /\ i > Len(s) /\ i - Len(s) \in DOMAIN t
                /\ (s \o t)[i] = t[i - Len(s)]
  BY <1>1, <1>2, <1>3
<1>5. ASSUME NEW i \in DOMAIN s PROVE i \in DOMAIN (s \o t) /\ (s \o t)[i] = s[i]
  BY <1>1, <1>2
<1>6. ASSUME NEW i \in DOMAIN t
      PROVE  Len(s) + i \in DOMAIN (s \o t) /\ (s \o t)[Len(s) + i] = t[i]
  BY <1>1, <1>2
<1>7. s \o t # <<>> /\ (s \o t)[Len(s \o t)] = t[Len(t)] /\ 1 \in DOMAIN t
  <2>1. Len(s \o t) # 0
    BY <1>1
  <2>2. s \o t # <<>>
    BY <2>1, SeqFacts
  <2>3. Len(t) \in DOMAIN t /\ 1 \in DOMAIN t
    BY <1>1
  <2>4. QED
    BY <1>1, <1>6, <2>2, <2>3
<1>8. (s \o t)[1] = IF s = <<>> THEN t[1] ELSE s[1]
  <2>1. CASE s = <<>>
    <3>1. Len(s) = 0 /\ Len(s) + 1 = 1
      BY <2>1, SeqFacts
    <3>2. (s \o t)[Len(s) + 1] = t[1]
      BY <1>6, <1>7
    <3>3. QED
      BY <2>1, <3>1, <3>2
  <2>2. CASE s # <<>>
    BY <1>1, <1>2, <2>2
  <2>3. QED
    BY <2>1, <2>2
<1>9. QED
  BY <1>4, <1>5, <1>6, <1>7, <1>8

(* What tmux may write next: the rest of the block that is open, then other *)
(* lines; a command block begins with the first of them, one past what had *)
(* run.                                                                    *)
Continuing(lines) ==
    /\ \A k \in DOMAIN ran : k \in DOMAIN ran' /\ ran'[k] = ran[k]
    /\ \A i \in DOMAIN lines : Begins(lines[i]) =>
           i = 1 /\ lines[i].num = Len(ran) + 1 /\ Len(ran') = Len(ran) + 1
    /\ \/ Len(ran') = Len(ran)
       \/ Len(ran') = Len(ran) + 1 /\ Begins(lines[1])
    /\ open => Continues(lines[1]) /\ lines[1].num = Len(ran)
    /\ \A i \in DOMAIN lines : i + 1 \in DOMAIN lines /\ Holds(lines[i]) =>
           Continues(lines[i + 1]) /\ lines[i + 1].num = lines[i].num
    /\ \A i \in DOMAIN lines : Closes(lines[i]) =>
           /\ lines[i].num \in DOMAIN ran'
           /\ (lines[i].kind = "end") <=> ran'[lines[i].num].ok
    /\ open' <=> Holds(lines[Len(lines)])
    /\ open' => ran' # <<>> /\ lines[Len(lines)].num = Len(ran')

LEMMA FramedWrites ==
    ASSUME TypeInv, TypeInv', Framed, UNCHANGED <<matched, rpc, inFlight>>,
           NEW lines \in Seq(Line), lines # <<>>, Writes(lines), Continuing(lines)
    PROVE  Framed'
<1> DEFINE p == Len(ptyOut)
<1>1. /\ ptyOut \in Seq(Line) /\ p \in Nat /\ matched \in Nat
      /\ Len(ran) \in Nat /\ Len(ran') \in Nat
      /\ DOMAIN ptyOut = 1..p /\ DOMAIN ptyOut' = 1..Len(ptyOut')
      /\ DOMAIN lines = 1..Len(lines) /\ Len(lines) \in Nat
  BY DEF TypeInv, TypeOK, ChildTypeOK, ReaderTypeOK
<1>2. /\ \A i \in DOMAIN ptyOut' :
            \/ i \in DOMAIN ptyOut /\ i <= p /\ ptyOut'[i] = ptyOut[i]
            \/ /\ i > p /\ i - p \in DOMAIN lines
               /\ ptyOut'[i] = lines[i - p]
      /\ \A i \in DOMAIN ptyOut : i \in DOMAIN ptyOut' /\ ptyOut'[i] = ptyOut[i]
      /\ \A i \in DOMAIN lines : /\ p + i \in DOMAIN ptyOut'
                                 /\ ptyOut'[p + i] = lines[i]
      /\ ptyOut' # <<>> /\ ptyOut'[Len(ptyOut')] = lines[Len(lines)]
      /\ ptyOut'[1] = IF ptyOut = <<>> THEN lines[1] ELSE ptyOut[1]
      /\ 1 \in DOMAIN lines
  <2> DEFINE r == ptyOut \o lines
  <2>1. ptyOut' = r
    BY DEF Writes
  <2>2. /\ \A i \in DOMAIN r :
               \/ i \in DOMAIN ptyOut /\ i <= p /\ r[i] = ptyOut[i]
               \/ i > p /\ i - p \in DOMAIN lines /\ r[i] = lines[i - p]
        /\ \A i \in DOMAIN ptyOut : i \in DOMAIN r /\ r[i] = ptyOut[i]
        /\ \A i \in DOMAIN lines : p + i \in DOMAIN r /\ r[p + i] = lines[i]
        /\ r # <<>> /\ r[Len(r)] = lines[Len(lines)]
        /\ r[1] = IF ptyOut = <<>> THEN lines[1] ELSE ptyOut[1]
        /\ 1 \in DOMAIN lines
    BY <1>1, ConcatIndices
  <2> HIDE DEF r, p
  <2>3. QED
    BY <2>1, <2>2
<1> HIDE DEF p
<1>3. Seen' = Seen /\ (InBlock' <=> InBlock) /\ Seen \in Nat
  BY <1>1 DEF Seen, InBlock
<1>4. Ahead'
  <2>1. Seen' <= Len(ran')
    BY <1>1, <1>3 DEF Framed, Ahead, Continuing
  <2>2. ASSUME NEW i \in DOMAIN ptyOut', Begins(ptyOut'[i])
        PROVE  ptyOut'[i].num \in Seen' + 1..Len(ran')
    <3>1. CASE i \in DOMAIN ptyOut /\ ptyOut'[i] = ptyOut[i]
      <4>1. ptyOut[i].num \in Seen + 1..Len(ran)
        BY <2>2, <3>1 DEF Framed, Ahead
      <4>2. Len(ran) <= Len(ran')
        BY <1>1 DEF Continuing
      <4>3. QED
        BY <1>1, <1>3, <3>1, <4>1, <4>2
    <3>2. CASE i - p \in DOMAIN lines /\ ptyOut'[i] = lines[i - p]
      <4>1. ptyOut'[i].num = Len(ran) + 1 /\ Len(ran') = Len(ran) + 1
        BY <2>2, <3>2 DEF Continuing
      <4>2. Seen <= Len(ran)
        BY DEF Framed, Ahead
      <4>3. QED
        BY <1>1, <1>3, <4>1, <4>2
    <3>3. QED
      BY <1>2, <3>1, <3>2
  <2>3. ASSUME NEW n \in Seen' + 1..Len(ran')
        PROVE  \E i \in DOMAIN ptyOut' : Begins(ptyOut'[i]) /\ ptyOut'[i].num = n
    <3>1. CASE n \in Seen + 1..Len(ran)
      <4>1. PICK i \in DOMAIN ptyOut : Begins(ptyOut[i]) /\ ptyOut[i].num = n
        BY <3>1 DEF Framed, Ahead
      <4>2. QED
        BY <1>2, <4>1
    <3>2. CASE n \notin Seen + 1..Len(ran)
      <4>1. Len(ran') # Len(ran)
        BY <1>1, <1>3, <3>2
      <4>2. Len(ran') = Len(ran) + 1 /\ Begins(lines[1])
        BY <4>1 DEF Continuing
      <4>3. lines[1].num = Len(ran) + 1
        BY <1>2, <4>2 DEF Continuing
      <4>4. n = Len(ran) + 1
        BY <1>1, <1>3, <3>2, <4>2
      <4>5. QED
        BY <1>2, <4>2, <4>3, <4>4
    <3>3. QED
      BY <3>1, <3>2
  <2>4. QED
    BY <2>1, <2>2, <2>3 DEF Ahead
<1>5. Rising'
  <2> SUFFICES ASSUME NEW i \in DOMAIN ptyOut', NEW j \in DOMAIN ptyOut', i < j,
                      Begins(ptyOut'[i]), Begins(ptyOut'[j])
               PROVE  ptyOut'[i].num < ptyOut'[j].num
    BY DEF Rising
  <2>0. i \in Nat /\ j \in Nat
    BY <1>1
  <2>1. CASE j \in DOMAIN ptyOut /\ j <= p /\ ptyOut'[j] = ptyOut[j]
    <3>1. ~(i > p)
      BY <1>1, <2>0, <2>1
    <3>2. i \in DOMAIN ptyOut /\ ptyOut'[i] = ptyOut[i]
      BY <1>2, <3>1
    <3>3. QED
      BY <2>1, <3>2 DEF Framed, Rising
  <2>2. CASE j > p /\ j - p \in DOMAIN lines /\ ptyOut'[j] = lines[j - p]
    <3>1. j - p = 1 /\ ptyOut'[j].num = Len(ran) + 1
      BY <2>2 DEF Continuing
    <3>2. ~(i > p)
      BY <1>1, <2>0, <3>1
    <3>3. i \in DOMAIN ptyOut /\ ptyOut'[i] = ptyOut[i]
      BY <1>2, <3>2
    <3>4. ptyOut[i].num \in Seen + 1..Len(ran)
      BY <3>3 DEF Framed, Ahead
    <3>5. QED
      BY <1>1, <1>3, <3>1, <3>3, <3>4
  <2>3. QED
    BY <1>2, <2>1, <2>2
<1>6. Whole'
  <2> SUFFICES ASSUME NEW i \in DOMAIN ptyOut', i + 1 \in DOMAIN ptyOut', Holds(ptyOut'[i])
               PROVE  Continues(ptyOut'[i + 1]) /\ ptyOut'[i + 1].num = ptyOut'[i].num
    BY DEF Whole
  <2>0. i \in Nat
    BY <1>1
  <2>1. CASE i \in DOMAIN ptyOut /\ i <= p /\ ptyOut'[i] = ptyOut[i]
    <3>1. CASE i + 1 \in DOMAIN ptyOut /\ ptyOut'[i + 1] = ptyOut[i + 1]
      BY <2>1, <3>1 DEF Framed, Whole
    <3>2. CASE i + 1 > p /\ ptyOut'[i + 1] = lines[(i + 1) - p]
      <4>1. i = p /\ (i + 1) - p = 1
        BY <1>1, <2>0, <2>1, <3>2
      <4>2. ptyOut # <<>>
        BY <2>1
      <4>3. open /\ ptyOut[p].num = Len(ran)
        BY <2>1, <4>1, <4>2 DEF Framed, Ends, p
      <4>4. QED
        BY <2>1, <3>2, <4>1, <4>3 DEF Continuing
    <3>3. QED
      BY <1>2, <3>1, <3>2
  <2>2. CASE i > p /\ i - p \in DOMAIN lines /\ ptyOut'[i] = lines[i - p]
    <3>1. ~(i + 1 <= p) /\ (i + 1) - p = (i - p) + 1
      BY <1>1, <2>0, <2>2
    <3>2. (i - p) + 1 \in DOMAIN lines /\ ptyOut'[i + 1] = lines[(i - p) + 1]
      BY <1>2, <3>1
    <3>3. QED
      BY <2>2, <3>2 DEF Continuing
  <2>3. QED
    BY <1>2, <2>1, <2>2
<1>7. Verdicts'
  <2> SUFFICES ASSUME NEW i \in DOMAIN ptyOut', Closes(ptyOut'[i])
               PROVE  /\ ptyOut'[i].num \in DOMAIN ran'
                      /\ (ptyOut'[i].kind = "end") <=> ran'[ptyOut'[i].num].ok
    BY DEF Verdicts
  <2>1. CASE i \in DOMAIN ptyOut /\ ptyOut'[i] = ptyOut[i]
    <3>1. /\ ptyOut[i].num \in DOMAIN ran
          /\ (ptyOut[i].kind = "end") <=> ran[ptyOut[i].num].ok
      BY <2>1 DEF Framed, Verdicts
    <3>2. QED
      BY <2>1, <3>1 DEF Continuing
  <2>2. CASE i - p \in DOMAIN lines /\ ptyOut'[i] = lines[i - p]
    BY <2>2 DEF Continuing
  <2>3. QED
    BY <1>2, <2>1, <2>2
<1>8. Ends'
  <2>1. InBlock' => Continues(ptyOut'[1]) /\ ptyOut'[1].num = Seen'
    <3>1. CASE ptyOut = <<>>
      <4>1. InBlock => open
        BY <3>1 DEF Framed, Ends
      <4>2. Seen = Len(ran)
        <5>1. SUFFICES ASSUME Seen # Len(ran) PROVE FALSE
          OBVIOUS
        <5>2. Len(ran) \in Seen + 1..Len(ran)
          BY <1>1, <1>3, <5>1 DEF Framed, Ahead
        <5>3. \E i \in DOMAIN ptyOut : Begins(ptyOut[i])
          BY <5>2 DEF Framed, Ahead
        <5>4. DOMAIN ptyOut = {}
          BY <3>1
        <5>5. QED
          BY <5>3, <5>4
      <4>3. QED
        BY <1>2, <1>3, <3>1, <4>1, <4>2 DEF Continuing
    <3>2. CASE ptyOut # <<>>
      BY <1>2, <1>3, <3>2 DEF Framed, Ends
    <3>3. QED
      BY <3>1, <3>2
  <2>2. QED
    BY <1>2, <2>1 DEF Ends, Continuing
<1>9. QED
  BY <1>4, <1>5, <1>6, <1>7, <1>8 DEF Framed
(* Each line tmux writes continues what it has written. *)
LEMMA TmuxContinues ==
    ASSUME TypeInv, Framed,
           TmuxBegin \/ TmuxEnd \/ TmuxOutput \/ TmuxNote \/ TmuxLeaves
    PROVE  \E lines \in Seq(Line) :
               lines # <<>> /\ Writes(lines) /\ Continuing(lines)
<1>1. /\ ran \in Seq([cmd : AllCommands, ok : BOOLEAN]) /\ Len(ran) \in Nat
      /\ DOMAIN ran = 1..Len(ran) /\ tmuxIn \in Seq(AllCommands)
      /\ emitted \in Nat /\ open \in BOOLEAN
  BY DEF TypeInv, TypeOK, ChildTypeOK
<1>2. CASE TmuxBegin
  <2> DEFINE b == MkLine("begin", 1, Len(ran) + 1)
             d == MkLine("data", 1, Len(ran) + 1)
  <2>1. b \in Line /\ d \in Line
    BY <1>1, LineFacts DEF LineKind
  <2>2. <<b, d>> \in Seq(Line) /\ <<b, d>> # <<>> /\ Writes(<<b, d>>)
    BY <1>2, <2>1 DEF TmuxBegin
  <2>3. PICK r \in [cmd : AllCommands, ok : BOOLEAN] : ran' = Append(ran, r)
    BY <1>1, <1>2, TailFacts DEF TmuxBegin
  <2>4. /\ Len(ran') = Len(ran) + 1 /\ DOMAIN ran' = 1..Len(ran')
        /\ \A k \in DOMAIN ran : k \in DOMAIN ran' /\ ran'[k] = ran[k]
        /\ ran' # <<>>
    BY <1>1, <2>3, AppendFacts
  <2>5. ~open /\ open'
    BY <1>2 DEF TmuxBegin
  <2>6. /\ DOMAIN <<b, d>> = {1, 2} /\ Len(<<b, d>>) = 2
        /\ <<b, d>>[1] = b /\ <<b, d>>[2] = d
    OBVIOUS
  <2>7. /\ Begins(b) /\ Holds(b) /\ Continues(d) /\ Holds(d) /\ ~Begins(d)
        /\ ~Closes(b) /\ ~Closes(d)
        /\ b.num = Len(ran) + 1 /\ d.num = Len(ran) + 1
    BY DEF Begins, Continues, Holds, Closes, MkLine
  <2> HIDE DEF b, d
  <2>8. Continuing(<<b, d>>)
    BY <2>4, <2>5, <2>6, <2>7 DEF Continuing
  <2>9. QED
    BY <2>2, <2>8
<1>3. CASE TmuxEnd
  <2> DEFINE last == ran[Len(ran)]
             c == MkLine(IF last.ok THEN "end" ELSE "error", 1, Len(ran))
  <2>1. open /\ ~open' /\ ran' = ran
    BY <1>3 DEF TmuxEnd
  <2>2. ran # <<>> /\ Len(ran) \in DOMAIN ran
    <3>1. ran # <<>>
      BY <2>1 DEF Framed, Ends
    <3>2. Len(ran) > 0
      BY <1>1, <3>1
    <3>3. QED
      BY <1>1, <3>1, <3>2
  <2>3. c \in Line /\ ExitLine \in Line
    BY <1>1, LineFacts DEF LineKind
  <2>4. Continues(c) /\ Closes(c) /\ ~Begins(c) /\ ~Holds(c) /\ c.num = Len(ran)
    BY DEF Begins, Continues, Holds, Closes, MkLine
  <2>5. (c.kind = "end") <=> last.ok
    BY <2>2 DEF MkLine
  <2>6. ~Begins(ExitLine) /\ ~Holds(ExitLine) /\ ~Closes(ExitLine)
    BY DEF Begins, Holds, Closes, ExitLine, MkLine
  <2>7. Writes(<<c>>) \/ Writes(<<c, ExitLine>>)
    BY <1>3 DEF TmuxEnd
  <2> HIDE DEF c
  <2>8. /\ DOMAIN <<c>> = {1} /\ Len(<<c>>) = 1 /\ <<c>>[1] = c
        /\ DOMAIN <<c, ExitLine>> = {1, 2} /\ Len(<<c, ExitLine>>) = 2
        /\ <<c, ExitLine>>[1] = c /\ <<c, ExitLine>>[2] = ExitLine
    OBVIOUS
  <2>9. ASSUME NEW lines, lines = <<c>> \/ lines = <<c, ExitLine>>
        PROVE  Continuing(lines)
    <3>1. /\ lines[1] = c /\ ~Holds(lines[Len(lines)])
          /\ \A i \in DOMAIN lines : lines[i] = c \/ lines[i] = ExitLine
      BY <2>4, <2>6, <2>8, <2>9
    <3>2. \A i \in DOMAIN lines : Closes(lines[i]) =>
             /\ lines[i].num \in DOMAIN ran'
             /\ (lines[i].kind = "end") <=> ran'[lines[i].num].ok
      BY <2>1, <2>2, <2>4, <2>5, <2>6, <3>1
    <3>3. \A i \in DOMAIN lines : ~Begins(lines[i]) /\ ~Holds(lines[i])
      BY <2>4, <2>6, <3>1
    <3>4. QED
      BY <2>1, <2>4, <3>1, <3>2, <3>3 DEF Continuing
  <2>10. /\ <<c>> \in Seq(Line) /\ <<c>> # <<>>
         /\ <<c, ExitLine>> \in Seq(Line) /\ <<c, ExitLine>> # <<>>
    BY <2>3
  <2>11. QED
    BY <2>7, <2>9, <2>10
<1>4. ASSUME NEW lines \in Seq(Line), lines # <<>>, Writes(lines),
             \A i \in DOMAIN lines : lines[i].flags = 0,
             ~open, UNCHANGED <<open, ran>>
      PROVE  \E lns \in Seq(Line) : lns # <<>> /\ Writes(lns) /\ Continuing(lns)
  <2>1. Len(lines) \in DOMAIN lines
    BY <1>4
  <2>2. Continuing(lines)
    <3>1. \A i \in DOMAIN lines : ~Begins(lines[i]) /\ ~Holds(lines[i]) /\ ~Closes(lines[i])
      BY <1>4 DEF Begins, Holds, Closes
    <3>2. ~Holds(lines[Len(lines)])
      BY <2>1, <3>1
    <3>3. QED
      BY <1>4, <3>1, <3>2 DEF Continuing
  <2>3. QED
    BY <1>4, <2>2
<1>5. CASE TmuxOutput \/ TmuxLeaves
  <2> DEFINE o == MkLine("output", 0, emitted + 1)
  <2>1. o \in Line /\ ExitLine \in Line /\ o.flags = 0 /\ ExitLine.flags = 0
    BY <1>1, LineFacts DEF LineKind, MkLine, ExitLine
  <2>2. /\ ~open /\ UNCHANGED <<open, ran>>
        /\ Writes(<<o>>) \/ Writes(<<ExitLine>>)
    BY <1>5 DEF TmuxOutput, TmuxLeaves
  <2> HIDE DEF o
  <2>3. /\ <<o>> \in Seq(Line) /\ <<o>> # <<>>
        /\ <<ExitLine>> \in Seq(Line) /\ <<ExitLine>> # <<>>
        /\ \A i \in DOMAIN <<o>> : <<o>>[i].flags = 0
        /\ \A i \in DOMAIN <<ExitLine>> : <<ExitLine>>[i].flags = 0
    BY <2>1
  <2>4. QED
    BY <1>4, <2>2, <2>3
<1>6. CASE TmuxNote
  <2> DEFINE n == MkLine("note", 0, 0)
             b == MkLine("begin", 0, 0)
             d == MkLine("data", 0, 0)
             e == MkLine("end", 0, 0)
  <2>1. /\ n \in Line /\ b \in Line /\ d \in Line /\ e \in Line
        /\ n.flags = 0 /\ b.flags = 0 /\ d.flags = 0 /\ e.flags = 0
    BY LineFacts DEF LineKind, MkLine
  <2>2. /\ ~open /\ UNCHANGED <<open, ran>>
        /\ Writes(<<n>>) \/ Writes(<<b, d, e>>)
    BY <1>6 DEF TmuxNote
  <2> HIDE DEF n, b, d, e
  <2>3. /\ <<n>> \in Seq(Line) /\ <<n>> # <<>>
        /\ <<b, d, e>> \in Seq(Line) /\ <<b, d, e>> # <<>>
        /\ \A i \in DOMAIN <<n>> : <<n>>[i].flags = 0
        /\ \A i \in DOMAIN <<b, d, e>> : <<b, d, e>>[i].flags = 0
    BY <2>1
  <2>4. QED
    BY <1>4, <2>2, <2>3
<1>7. QED
  BY <1>2, <1>3, <1>5, <1>6

LEMMA FramedStep == TypeInv /\ TypeInv' /\ Framed /\ [Next]_vars => Framed'
<1> SUFFICES ASSUME TypeInv, TypeInv', Framed, [Next]_vars PROVE Framed'
  OBVIOUS
<1> USE DEF callVars, writeVars, readVars, eventVars, childVars
<1>1. CASE ReaderStops \/ ReaderMatch \/ CoalesceSent \/ CoalesceTimeout \/ CoalesceClosed
           \/ ReaderSend \/ ReaderDrain \/ ReaderDrop
  <2>1. UNCHANGED <<ptyOut, ran, open>>
    BY <1>1 DEF ReaderStops, ReaderMatch, CoalesceSent, CoalesceTimeout, CoalesceClosed,
       ReaderSend, ReaderDrain, ReaderDrop
  <2>2. Seen' = Seen
    BY <1>1 DEF ReaderStops, ReaderMatch, CoalesceSent, CoalesceTimeout, CoalesceClosed,
       ReaderSend, ReaderDrain, ReaderDrop, ReaderLeaves, Seen
  <2>3. InBlock' => InBlock
    BY <1>1 DEF ReaderStops, ReaderMatch, CoalesceSent, CoalesceTimeout, CoalesceClosed,
       ReaderSend, ReaderDrain, ReaderDrop, ReaderLeaves, InBlock
  <2>4. QED
    BY <2>1, <2>2, <2>3, FramedKeeps
<1>2. CASE ReadBegin \/ ReadData \/ ReadEnd \/ ReadOutput \/ ReadNotice
  <2>1. /\ rpc = "select" /\ ptyOut # <<>> /\ ptyOut' = Tail(ptyOut)
        /\ UNCHANGED <<ran, open, matched>>
    BY <1>2 DEF ReadBegin, ReadData, ReadEnd, ReadOutput, ReadNotice, Reading
  <2>2. rpc' = "match" <=> Begins(Head(ptyOut))
    BY <1>2 DEF ReadBegin, ReadData, ReadEnd, ReadOutput, ReadNotice, Reading, Begins,
       ReaderLeaves
  <2>3. inFlight' # None => inFlight # None
    BY <1>2 DEF ReadBegin, ReadData, ReadEnd, ReadOutput, ReadNotice, Reading, ReaderLeaves
  <2>4. Closes(Head(ptyOut)) => inFlight' = None
    BY <1>2 DEF ReadBegin, ReadData, ReadEnd, ReadOutput, ReadNotice, Reading, Closes,
       ReaderLeaves
  <2>5. QED
    BY <2>1, <2>2, <2>3, <2>4, FramedReads
<1>3. CASE TmuxBegin \/ TmuxEnd \/ TmuxOutput \/ TmuxNote \/ TmuxLeaves
  <2>1. UNCHANGED <<matched, rpc, inFlight>>
    BY <1>3 DEF TmuxBegin, TmuxEnd, TmuxOutput, TmuxNote, TmuxLeaves, TmuxUnchanged
  <2>2. QED
    BY <1>3, <2>1, TmuxContinues, FramedWrites
<1>4. ASSUME UNCHANGED <<ptyOut, ran, open, matched, rpc, inFlight>> PROVE Framed'
  BY <1>4, FramedKeeps DEF Seen, InBlock
<1>5. ASSUME NEW c \in Commands, Caller(c) PROVE Framed'
  BY <1>4, <1>5 DEF Caller, Call, Enqueue, Refused, Timeout, Abandon
<1>6. CASE ShutdownDetach \/ ShutdownCancel \/ CancelToken
  BY <1>4, <1>6 DEF ShutdownDetach, ShutdownCancel, CancelToken
<1>7. CASE Writer
  BY <1>4, <1>7 DEF Writer, WriterCancelled, WriterRecv, WriterRegister, WriterUnregistered,
     WriterWrite, WriterWriteFails
<1>8. CASE Supervisor
  BY <1>4, <1>8 DEF Supervisor, SupervisorKills, SupervisorReaps, SupervisorReport,
     SupervisorCancels
<1>9. CASE Consumer
  BY <1>4, <1>9 DEF Consumer, ConsumerRecv, ConsumerEnds, ConsumerDrops
<1>10. CASE ChildExits
  BY <1>4, <1>10 DEF ChildExits, TmuxUnchanged
<1>11. CASE UNCHANGED vars
  BY <1>4, <1>11 DEF vars
<1>12. QED
  BY <1>1, <1>2, <1>3, <1>5, <1>6, <1>7, <1>8, <1>9, <1>10, <1>11 DEF Next, Reader, Tmux
(* InFlightOwn, when the block in flight is the same or none. *)
LEMMA InFlightKeeps ==
    ASSUME InFlightOwn, cancelled => cancelled',
           spc' = "done" => cancelled' \/ spc = "done",
           \/ inFlight' = None
           \/ UNCHANGED <<inFlight, buf, matched, ran, registered>>
    PROVE  InFlightOwn'
BY DEF InFlightOwn

LEMMA InFlightStep == TypeInv /\ Aligned /\ [Next]_vars => InFlightOwn'
<1> SUFFICES ASSUME TypeInv, Aligned, [Next]_vars PROVE InFlightOwn'
  OBVIOUS
<1> USE DEF callVars, writeVars, readVars, eventVars, childVars
<1>1. InFlightOwn
  BY DEF Aligned
<1>2. /\ matched \in Nat /\ registered \in Seq(AllCommands) /\ Len(registered) \in Nat
      /\ ran \in Seq([cmd : AllCommands, ok : BOOLEAN]) /\ Len(ran) \in Nat
      /\ DOMAIN ran = 1..Len(ran) /\ DOMAIN registered = 1..Len(registered)
      /\ pending \in Seq(AllCommands) /\ pendingChan \in Seq(AllCommands)
      /\ ptyOut \in Seq(Line) /\ buf \in Seq(Nat) /\ tmuxIn \in Seq(AllCommands)
      /\ Len(tmuxIn) \in Nat
      /\ spc \in {"watch", "kill", "report", "cancel", "done"}
  BY DEF TypeInv, TypeOK, WriterTypeOK, ReaderTypeOK, EventTypeOK, ChildTypeOK
<1>3. Len(ran) <= Len(registered)
  <2>1. Len(ran) + Len(tmuxIn) <= Len(registered)
    BY DEF Aligned, Ordered
  <2>2. /\ Len(ran) \in Nat /\ Len(tmuxIn) \in Nat /\ Len(registered) \in Nat
    BY <1>2
  <2>3. QED
    BY <2>1, <2>2
<1>4. CASE ReaderMatch
  <2>1. /\ matched' = matched + 1 /\ rpc = "match" /\ spc \notin {"report", "cancel"}
        /\ UNCHANGED <<ran, registered, cancelled, spc>>
        /\ Queue # <<>> => inFlight' = Head(Queue) /\ buf' = <<>>
    BY <1>4 DEF ReaderMatch, Queue, PendingUnlocked
  <2>2. SUFFICES ASSUME ~cancelled
                 PROVE  /\ matched' \in DOMAIN ran'
                        /\ inFlight' = registered'[matched']
                        /\ \A i \in DOMAIN buf' : buf'[i] = matched'
    BY <1>1, <2>1 DEF InFlightOwn
  <2>3. Matching
    BY <1>1, <1>2, <2>1, <2>2 DEF Matching, InFlightOwn
  <2>4. /\ matched + Len(Queue) = Len(registered)
        /\ \A i \in 1..Len(Queue) : Queue[i] = registered[matched + i]
    BY <2>3 DEF Aligned, Queued
  <2>5. matched + 1 <= Len(ran)
    BY <2>1 DEF Aligned, Framed, Ahead, Seen
  <2>6. Queue \in Seq(AllCommands) /\ Len(Queue) \in Nat
    BY <1>2 DEF Queue
  <2>7. Len(Queue) # 0
    BY <1>2, <1>3, <2>4, <2>5, <2>6
  <2>8. Queue # <<>> /\ 1 \in 1..Len(Queue) /\ Head(Queue) = Queue[1]
    BY <2>6, <2>7
  <2>9. inFlight' = registered[matched + 1] /\ buf' = <<>>
    BY <2>1, <2>4, <2>8
  <2>10. matched + 1 \in DOMAIN ran
    BY <1>2, <2>5
  <2>11. QED
    BY <2>1, <2>9, <2>10
<1>5. CASE ReadData
  <2>1. /\ ~cancelled /\ ptyOut # <<>> /\ rpc = "select"
        /\ buf' = IF inFlight = None THEN buf ELSE Append(buf, Head(ptyOut).num)
        /\ UNCHANGED <<inFlight, matched, ran, registered, cancelled, spc>>
    BY <1>5 DEF ReadData, Reading
  <2>2. CASE inFlight = None
    BY <1>1, <2>1, <2>2 DEF InFlightOwn
  <2>3. CASE inFlight # None
    <3>1. Head(ptyOut).num = matched
      <4>1. ptyOut[1].num = Seen
        BY <2>1, <2>3 DEF Aligned, Framed, Ends, InBlock
      <4>2. QED
        BY <1>2, <2>1, <4>1 DEF Seen
    <3>2. \A i \in DOMAIN buf : buf[i] = matched
      BY <1>1, <2>1, <2>3 DEF InFlightOwn
    <3>3. buf' = Append(buf, matched)
      BY <2>1, <2>3, <3>1
    <3>4. \A i \in DOMAIN buf' : buf'[i] = matched
      BY <1>2, <3>2, <3>3, AppendSame
    <3>5. QED
      BY <1>1, <2>1, <3>4 DEF InFlightOwn
  <2>4. QED
    BY <2>2, <2>3
<1>6. CASE TmuxBegin
  <2>1. UNCHANGED <<inFlight, buf, matched, registered, cancelled, spc>>
    BY <1>6 DEF TmuxBegin, TmuxUnchanged
  <2>2. PICK r \in [cmd : AllCommands, ok : BOOLEAN] : ran' = Append(ran, r)
    BY <1>2, <1>6, TailFacts DEF TmuxBegin
  <2>3. \A k \in DOMAIN ran : k \in DOMAIN ran'
    BY <1>2, <2>2
  <2>4. QED
    BY <1>1, <2>1, <2>3 DEF InFlightOwn
<1>7. CASE WriterRegister
  <2>1. UNCHANGED <<inFlight, buf, matched, ran, cancelled, spc>>
    BY <1>7 DEF WriterRegister
  <2>2. registered' = Append(registered, wcmd) /\ wcmd \in AllCommands
    BY <1>7 DEF WriterRegister, TypeInv, HandOK
  <2>3. \A k \in 1..Len(registered) : registered'[k] = registered[k]
    BY <1>2, <2>2, AppendFacts
  <2>4. \A k \in DOMAIN ran : registered'[k] = registered[k]
    BY <1>2, <1>3, <2>3
  <2>5. QED
    BY <1>1, <2>1, <2>4 DEF InFlightOwn
<1>8. CASE ReaderStops \/ ReadBegin \/ ReadEnd \/ ReadOutput \/ ReadNotice
  <2>1. /\ UNCHANGED <<cancelled, spc>>
        /\ \/ inFlight' = None
           \/ UNCHANGED <<inFlight, buf, matched, ran, registered>>
    BY <1>8 DEF ReaderStops, ReadBegin, ReadEnd, ReadOutput, ReadNotice, Reading,
       ReaderLeaves
  <2>2. QED
    BY <1>1, <2>1, InFlightKeeps
<1>9. CASE CoalesceSent \/ CoalesceTimeout \/ CoalesceClosed \/ ReaderSend
           \/ ReaderDrain \/ ReaderDrop
  <2>1. /\ UNCHANGED <<cancelled, spc>>
        /\ \/ inFlight' = None
           \/ UNCHANGED <<inFlight, buf, matched, ran, registered>>
    BY <1>9 DEF CoalesceSent, CoalesceTimeout, CoalesceClosed, ReaderSend, ReaderDrain,
       ReaderDrop, ReaderLeaves
  <2>2. QED
    BY <1>1, <2>1, InFlightKeeps
<1>10. CASE Supervisor
  <2>1. /\ cancelled => cancelled'
        /\ spc' = "done" => cancelled'
        /\ UNCHANGED <<inFlight, buf, matched, ran, registered>>
    BY <1>10 DEF Supervisor, SupervisorKills, SupervisorReaps, SupervisorReport,
       SupervisorCancels
  <2>2. QED
    BY <1>1, <2>1, InFlightKeeps
<1>11. ASSUME UNCHANGED <<inFlight, buf, matched, ran, registered, spc>>,
              cancelled => cancelled'
       PROVE  InFlightOwn'
  BY <1>1, <1>11, InFlightKeeps
<1>12. ASSUME NEW c \in Commands, Caller(c) PROVE InFlightOwn'
  BY <1>11, <1>12 DEF Caller, Call, Enqueue, Refused, Timeout, Abandon
<1>13. CASE ShutdownDetach \/ ShutdownCancel \/ CancelToken
  BY <1>11, <1>13 DEF ShutdownDetach, ShutdownCancel, CancelToken
<1>14. CASE WriterCancelled \/ WriterRecv \/ WriterUnregistered \/ WriterWrite \/ WriterWriteFails
  BY <1>11, <1>14 DEF WriterCancelled, WriterRecv, WriterUnregistered, WriterWrite,
     WriterWriteFails
<1>15. CASE Consumer
  BY <1>11, <1>15 DEF Consumer, ConsumerRecv, ConsumerEnds, ConsumerDrops
<1>16. CASE TmuxEnd \/ TmuxOutput \/ TmuxNote \/ TmuxLeaves \/ ChildExits
  BY <1>11, <1>16 DEF TmuxEnd, TmuxOutput, TmuxNote, TmuxLeaves, ChildExits, TmuxUnchanged
<1>17. CASE UNCHANGED vars
  BY <1>11, <1>17 DEF vars
<1>18. QED
  BY <1>4, <1>5, <1>6, <1>7, <1>8, <1>9, <1>10, <1>12, <1>13, <1>14, <1>15, <1>16, <1>17
     DEF Next, Writer, Reader, Tmux

LEMMA AlignedInit == Init => Aligned
<1> SUFFICES ASSUME Init PROVE Aligned
  OBVIOUS
<1> USE DEF Init
<1>0. Len(<<>>) = 0 /\ DOMAIN <<>> = {}
  OBVIOUS
<1>1. Ordered
  BY <1>0 DEF Ordered
<1>2. Queued
  BY <1>0 DEF Queued, Queue
<1>3. Framed
  <2>1. Seen = 0
    BY DEF Seen
  <2>2. Ahead
    BY <1>0, <2>1 DEF Ahead
  <2>3. QED
    BY <1>0, <2>2 DEF Framed, Rising, Whole, Verdicts, Ends, InBlock
<1>4. InFlightOwn
  BY DEF InFlightOwn
<1>5. QED
  BY <1>1, <1>2, <1>3, <1>4 DEF Aligned
(* The reply given: the lines and the verdict of the block in flight. *)
LEMMA RepliesStep == TypeInv /\ Aligned /\ RepliesAreOwn /\ [Next]_vars => RepliesAreOwn'
<1> SUFFICES ASSUME TypeInv, Aligned, RepliesAreOwn, [Next]_vars PROVE RepliesAreOwn'
  OBVIOUS
<1> USE DEF callVars, writeVars, readVars, eventVars, childVars
<1>1. /\ ran \in Seq([cmd : AllCommands, ok : BOOLEAN]) /\ DOMAIN ran = 1..Len(ran)
      /\ matched \in Nat /\ tmuxIn \in Seq(AllCommands)
      /\ call \in [Commands -> CallState] /\ reply \in [Commands -> Reply]
  BY DEF TypeInv, TypeOK, CallerTypeOK, ReaderTypeOK, ChildTypeOK
<1>2. ASSUME NEW c \in Commands, call'[c] = "answered",
             call[c] = "answered", reply'[c] = reply[c],
             \A k \in DOMAIN ran : k \in DOMAIN ran' /\ ran'[k] = ran[k]
      PROVE  \E k \in DOMAIN ran' :
                /\ ran'[k].cmd = c /\ ran'[k].ok = reply'[c].ok
                /\ \A i \in DOMAIN reply'[c].body : reply'[c].body[i] = k
  BY <1>2 DEF RepliesAreOwn
<1>3. ASSUME UNCHANGED <<reply, ran>>,
             \A c \in Commands : call'[c] = "answered" => call[c] = "answered"
      PROVE  RepliesAreOwn'
  BY <1>2, <1>3 DEF RepliesAreOwn
<1>4. CASE ReadEnd
  <2>1. UNCHANGED ran /\ ~cancelled /\ rpc = "select" /\ ptyOut # <<>>
    BY <1>4 DEF ReadEnd, Reading
  <2>2. CASE UNCHANGED <<call, reply>>
    BY <1>3, <2>1, <2>2
  <2>3. CASE ~UNCHANGED <<call, reply>>
    <3> DEFINE l == Head(ptyOut)
    <3>1. /\ inFlight # None /\ inFlight \in Commands /\ l.flags = 1
          /\ l.kind \in {"end", "error"}
          /\ call' = [call EXCEPT ![inFlight] = "answered"]
          /\ reply' = [reply EXCEPT ![inFlight] = [ok |-> l.kind = "end", body |-> buf]]
      BY <1>4, <2>3 DEF ReadEnd, Reading
    <3>2. l = ptyOut[1] /\ 1 \in DOMAIN ptyOut
      BY <2>1, TailFacts DEF TypeInv, TypeOK, ChildTypeOK
    <3>3. l.num = matched
      BY <2>1, <3>1, <3>2 DEF Aligned, Framed, Ends, InBlock, Seen
    <3>4. /\ matched \in DOMAIN ran /\ inFlight = registered[matched]
          /\ \A i \in DOMAIN buf : buf[i] = matched
      BY <2>1, <3>1 DEF Aligned, InFlightOwn
    <3>5. ran[matched].cmd = inFlight
      BY <3>4 DEF Aligned, Ordered
    <3>6. (l.kind = "end") <=> ran[matched].ok
      BY <3>1, <3>2, <3>3 DEF Aligned, Framed, Verdicts, Closes
    <3>7. ran[matched].ok \in BOOLEAN
      <4>1. ran[matched] \in [cmd : AllCommands, ok : BOOLEAN]
        BY <1>1, <3>4, ElementFacts
      <4>2. QED
        BY <4>1
    <3>8. ran[matched].ok = (l.kind = "end")
      BY <3>6, <3>7
    <3> HIDE DEF l
    <3>9. reply'[inFlight] = [ok |-> l.kind = "end", body |-> buf]
      BY <1>1, <3>1
    <3>10. \A c \in Commands : c # inFlight => call'[c] = call[c] /\ reply'[c] = reply[c]
      BY <1>1, <3>1
    <3>11. SUFFICES ASSUME NEW c \in Commands, call'[c] = "answered"
                    PROVE  \E k \in DOMAIN ran' :
                              /\ ran'[k].cmd = c /\ ran'[k].ok = reply'[c].ok
                              /\ \A i \in DOMAIN reply'[c].body : reply'[c].body[i] = k
      BY DEF RepliesAreOwn
    <3>12. CASE c = inFlight
      BY <2>1, <3>4, <3>5, <3>8, <3>9, <3>12
    <3>13. CASE c # inFlight
      BY <1>2, <2>1, <3>10, <3>11, <3>13
    <3>14. QED
      BY <3>12, <3>13
  <2>4. QED
    BY <2>2, <2>3
<1>5. CASE TmuxBegin
  <2>1. UNCHANGED <<call, reply>>
    BY <1>5 DEF TmuxBegin, TmuxUnchanged
  <2>2. PICK r \in [cmd : AllCommands, ok : BOOLEAN] : ran' = Append(ran, r)
    BY <1>1, <1>5, TailFacts DEF TmuxBegin
  <2>3. \A k \in DOMAIN ran : k \in DOMAIN ran' /\ ran'[k] = ran[k]
    BY <1>1, <2>2
  <2>4. QED
    BY <1>2, <2>1, <2>3 DEF RepliesAreOwn
<1>6. ASSUME UNCHANGED <<reply, ran>>,
             \E S : call' = Failing(S) \/ call' = call
      PROVE  RepliesAreOwn'
  <2>1. \A c \in Commands : call'[c] = "answered" => call[c] = "answered"
    BY <1>6 DEF Failing
  <2>2. QED
    BY <1>3, <1>6, <2>1
<1>7. ASSUME NEW c \in Commands, Caller(c) PROVE RepliesAreOwn'
  <2>1. UNCHANGED <<reply, ran>>
    BY <1>7 DEF Caller, Call, Enqueue, Refused, Timeout, Abandon
  <2>2. \E s \in {"sending", "waiting", "failed", "gaveup"} : call' = [call EXCEPT ![c] = s]
    BY <1>7 DEF Caller, Call, Enqueue, Refused, Timeout, Abandon
  <2>3. \A d \in Commands : call'[d] = "answered" => call[d] = "answered"
    BY <1>1, <2>2
  <2>4. QED
    BY <1>3, <2>1, <2>3
<1>8. CASE ShutdownDetach \/ ShutdownCancel \/ CancelToken
  BY <1>6, <1>8 DEF ShutdownDetach, ShutdownCancel, CancelToken
<1>9. CASE Writer
  <2>1. UNCHANGED <<reply, ran>> /\ \E S : call' = Failing(S) \/ call' = call
    BY <1>9 DEF Writer, WriterCancelled, WriterRecv, WriterRegister, WriterUnregistered,
       WriterWrite, WriterWriteFails, WriterLeaves
  <2>2. QED
    BY <1>6, <2>1
<1>10. CASE ReaderStops \/ ReadBegin \/ ReadData \/ ReadOutput \/ ReadNotice \/ ReaderMatch
  <2>1. UNCHANGED <<reply, ran>> /\ \E S : call' = Failing(S) \/ call' = call
    BY <1>10 DEF ReaderStops, ReadBegin, ReadData, ReadOutput, ReadNotice, Reading,
       ReaderMatch, ReaderLeaves
  <2>2. QED
    BY <1>6, <2>1
<1>11. CASE CoalesceSent \/ CoalesceTimeout \/ CoalesceClosed \/ ReaderSend
            \/ ReaderDrain \/ ReaderDrop
  <2>1. UNCHANGED <<reply, ran>> /\ \E S : call' = Failing(S) \/ call' = call
    BY <1>11 DEF CoalesceSent, CoalesceTimeout, CoalesceClosed, ReaderSend, ReaderDrain,
       ReaderDrop, ReaderLeaves
  <2>2. QED
    BY <1>6, <2>1
<1>12. CASE Supervisor
  <2>1. UNCHANGED <<reply, ran>> /\ \E S : call' = Failing(S) \/ call' = call
    BY <1>12 DEF Supervisor, SupervisorKills, SupervisorReaps, SupervisorReport,
       SupervisorCancels
  <2>2. QED
    BY <1>6, <2>1
<1>13. CASE Consumer
  BY <1>6, <1>13 DEF Consumer, ConsumerRecv, ConsumerEnds, ConsumerDrops
<1>14. CASE TmuxEnd \/ TmuxOutput \/ TmuxNote \/ TmuxLeaves \/ ChildExits
  BY <1>6, <1>14 DEF TmuxEnd, TmuxOutput, TmuxNote, TmuxLeaves, ChildExits, TmuxUnchanged
<1>15. CASE UNCHANGED vars
  BY <1>6, <1>15 DEF vars
<1>16. QED
  BY <1>4, <1>5, <1>7, <1>8, <1>9, <1>10, <1>11, <1>12, <1>13, <1>14, <1>15
     DEF Next, Reader, Tmux

(* Aligned is inductive with the types: the order of registration, of the   *)
(* FIFO, of the pty and of the block in flight agree at every moment.      *)
THEOREM AlignedAlways == Spec => []Aligned
<1>1. TypeInv /\ Aligned /\ [Next]_vars => TypeInv' /\ Aligned'
  <2>1. TypeInv /\ [Next]_vars => TypeInv'
    BY TypeInvStep
  <2>2. QED
    BY <2>1, OrderedStep, QueuedStep, FramedStep, InFlightStep DEF Aligned
<1>2. Init => TypeInv /\ Aligned
  BY TypeInvInit, AlignedInit
<1>3. QED
  BY <1>1, <1>2, PTL DEF Spec

(* The correlation itself, for any number of commands and any capacities:   *)
(* no caller is given the reply of another's command (control_mode.rs:207). *)
THEOREM CorrelationCorrect == Spec => []RepliesAreOwn
<1>1. Init => RepliesAreOwn
  BY DEF Init, RepliesAreOwn
<1>2. TypeInv /\ Aligned /\ RepliesAreOwn /\ [Next]_vars => RepliesAreOwn'
  BY RepliesStep
<1>3. Spec => []TypeInv
  BY TypeInvInit, TypeInvStep, PTL DEF Spec
<1>4. Spec => []Aligned
  BY AlignedAlways
<1>5. QED
  BY <1>1, <1>2, <1>3, <1>4, PTL DEF Spec
================================================================================
