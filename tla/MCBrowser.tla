------------------------------- MODULE MCBrowser ------------------------------
(***************************************************************************)
(* A small instance of the page.  In one state graph: connections that fail   *)
(* and return while the first resize timer of each client has not fired; and,  *)
(* while the dashboard's connection lasts, timers that fire and resizes.      *)
(***************************************************************************)
EXTENDS Browser

Resizing == container # 1 \/ \E c \in Panes : c <= Newest /\ c \notin debounce
Calm     == ended[Dash] = None /\ sock[ws[Dash]].coming = <<>>
            /\ sock[ws[Dash]].state = "open"

(* An action constraint.  Nothing it rules out has a fairness condition.     *)
Apart == Resizing' => Calm'
================================================================================
