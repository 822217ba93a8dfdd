----------------------------- MODULE MCControlMode -----------------------------
(***************************************************************************)
(* Small instances of the control-mode driver.  One state graph holds these  *)
(* cases, apart from each other:                                           *)
(*   - one call, while tmux answers, errs, dies or leaves and the handle is  *)
(*     shut down, dropped or cancelled;                                    *)
(*   - two calls at once, given up at any time, while tmux answers, errs or  *)
(*     dies; also cancelled before tmux has run any;                        *)
(*   - a third call while the reader is in the block of the first and has    *)
(*     the second in its FIFO, and tmux dies at any time;                   *)
(*   - a hung tmux: the first two commands, given up by their callers, fill  *)
(*     the pty and the writer's hand, the third the channel, and the fourth  *)
(*     call finds no room;                                                 *)
(*   - tmux printing, the consumer, its end and every other end, no call;   *)
(*   - tmux printing while the consumer awaits a command of its own.         *)
(***************************************************************************)
EXTENDS ControlMode

CONSTANTS c1, c2, c3, c4, own

Callers == <<c1, c2, c3, c4>>
Calls(c) == call[c] = "idle" /\ call'[c] # "idle"

Living == ~cancelled /\ child = "running"
Behind ==
    /\ Living
    /\ \A c \in {c1, c2} : call[c] # "gaveup"
    /\ pending = <<c2>> /\ Len(ran) = 1 /\ ran[1].ok
Jammed ==
    /\ Living
    /\ \A c \in {c1, c2} : call[c] = "gaveup"
    /\ ran = <<>> /\ Len(tmuxIn) = PtyCap /\ wpc = "write"

EndedByChild == cancelled => spc = "done"
Undisturbed  == handle = "open" /\ child # "leaving" /\ consumer # "gone"

(* An action constraint: nothing it rules out has a fairness condition.      *)
Apart ==
    /\ emitted' + noted' <= 2
    /\ emitted' + noted' > 1 => handle' = "open"
    /\ emitted' + noted' > 0 => call'[c1] = "idle"
    /\ call'[c1] # "idle" => consumer' # "gone" /\ call'[own] = "idle"
    /\ \A i \in 1..3 : call'[Callers[i + 1]] # "idle" => call'[Callers[i]] # "idle"
    /\ call'[c2] # "idle" => Undisturbed' /\ (EndedByChild' \/ ran' = <<>>)
    /\ Calls(c3) => Behind \/ Jammed
    /\ call'[c3] # "idle" =>
         IF matched = 0 THEN ran' = <<>>
                        ELSE EndedByChild' /\ (ran' # ran => ran'[2].ok /\ Len(ran') = 2)
    /\ Calls(c4) => Jammed /\ cmdChan # <<>>
    /\ Calls(own) => \A c \in Commands : call[c] = "idle"
    /\ call'[own] # "idle" => Undisturbed' /\ EndedByChild'
================================================================================
