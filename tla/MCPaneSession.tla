----------------------------- MODULE MCPaneSession -----------------------------
(* PaneSession for TLC: the pane that is active at first is fixed, since     *)
(* another choice only exchanges the names of the panes.                    *)
EXTENDS PaneSession

CONSTANT First

MCInit == Init /\ active = First

(* The environment does at most Together things: outputs, changes of the     *)
(* pane or detaches, and frames of the browser, in any mixture.  None of     *)
(* them is asked for by the fairness.                                      *)
CONSTANT Together
Apart == frames' + Total' + notices' <= Together

MCFairSpec == MCInit /\ [][Next]_vars /\ Fairness

================================================================================
