------------------------------ MODULE MCDashboard -------------------------------
(***************************************************************************)
(* Small instances of the dashboard.  One state graph holds these cases,     *)
(* apart from each other, each with a browser that goes and a shutdown:      *)
(*   - two sessions that come and go, the pane of the first changing once;   *)
(*   - the first alone, its pane changing twice, which pairs the name and    *)
(*     the screen of two moments;                                          *)
(*   - the first alone, changing once, and its polls failing;               *)
(*   - the first alone, and a listing or a server that loses it.            *)
(***************************************************************************)
EXTENDS Dashboard, TLC

CONSTANT First

MCInit == Init /\ pane \in [Sessions -> {BlankPane}]

(* An action constraint.  Nothing it rules out has a fairness condition.     *)
Alone == used \subseteq {First} /\ \A s \in Sessions \ {First} : gen[s] = 0
Apart ==
    /\ \A s \in Sessions \ {First} : pane'[s] = pane[s]
    /\ fails' # fails => errors'[<<First, 1>>] # errors[<<First, 1>>]
    /\ changes' > 1 => fails' = 0
    /\ flaps' > 0 => changes' = 0 /\ fails' = 0
    /\ changes' > 1 \/ fails' > 0 \/ flaps' > 0 => Alone'

(* A server that restarts and gives the id out again: the session changes     *)
(* after that, and the polls of its second poller fail.  Browser and process  *)
(* stay.                                                                   *)
Relisted ==
    /\ socket' = "open" /\ ~shutdown'
    /\ flaps' # flaps => used' = {}
    /\ changes' > 0 \/ fails' > 0 => gen'[First] = 2
    /\ fails' # fails => errors'[<<First, 2>>] # errors[<<First, 2>>]

MCFairSpec == MCInit /\ [][Next]_vars /\ Fairness
================================================================================
