---------------------------- MODULE CommandService -----------------------------
(***************************************************************************)
(* What the control-mode driver promises the callers of send_command,      *)
(* without its tasks and channels: a command runs at most once; its caller *)
(* gets the block of that run, or an error, once; giving up or being       *)
(* failed says nothing of whether the command runs.                        *)
(***************************************************************************)
EXTENDS Naturals, Sequences

CONSTANTS Commands, Detach

VARIABLES
    call,   \* where each call is
    reply,  \* what an answered call received
    ran     \* what tmux ran, in order, with its verdict

svars == <<call, reply, ran>>

SInit ==
    /\ call = [c \in Commands |-> "idle"]
    /\ reply = [c \in Commands |-> [ok |-> FALSE, body |-> <<>>]]
    /\ ran = <<>>

HasRun(c) == \E k \in DOMAIN ran : ran[k].cmd = c

Start(c) ==
    /\ call[c] = "idle"
    /\ call' = [call EXCEPT ![c] = "sending"]
    /\ UNCHANGED <<reply, ran>>

Accept(c) ==
    /\ call[c] = "sending"
    /\ call' = [call EXCEPT ![c] = "waiting"]
    /\ UNCHANGED <<reply, ran>>

GiveUp(c) ==
    /\ call[c] \in {"sending", "waiting"}
    /\ call' = [call EXCEPT ![c] = "gaveup"]
    /\ UNCHANGED <<reply, ran>>

Refuse(c) ==
    /\ call[c] = "sending"
    /\ call' = [call EXCEPT ![c] = "failed"]
    /\ UNCHANGED <<reply, ran>>

(* A task that ends fails everyone whose sender it held, in one step. *)
Fail(S) ==
    /\ \A c \in S : call[c] = "waiting"
    /\ call' = [c \in Commands |-> IF c \in S THEN "failed" ELSE call[c]]
    /\ UNCHANGED <<reply, ran>>

(* tmux runs a command once, if it was ever accepted; detach-client is the  *)
(* driver's own.                                                           *)
Run(c, ok) ==
    /\ ~HasRun(c)
    /\ c \in Commands => call[c] \notin {"idle", "sending"}
    /\ ran' = Append(ran, [cmd |-> c, ok |-> ok])
    /\ UNCHANGED <<call, reply>>

(* The answer to c: the verdict of its run, and the whole block, no other. *)
Answer(c) ==
    /\ call[c] = "waiting"
    /\ \E k \in DOMAIN ran :
          /\ ran[k].cmd = c
          /\ reply' = [reply EXCEPT ![c] = [ok |-> ran[k].ok, body |-> <<k>>]]
    /\ call' = [call EXCEPT ![c] = "answered"]
    /\ UNCHANGED ran

SNext ==
    \/ \E c \in Commands : Start(c) \/ Accept(c) \/ GiveUp(c) \/ Refuse(c) \/ Answer(c)
    \/ \E S \in SUBSET Commands : Fail(S)
    \/ \E c \in Commands \cup {Detach}, ok \in BOOLEAN : Run(c, ok)

SSpec == SInit /\ [][SNext]_svars
================================================================================
