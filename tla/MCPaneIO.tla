-------------------------------- MODULE MCPaneIO -------------------------------
(* Small instances of the way between a pane and its browser. *)
EXTENDS PaneIO

Bracket(rest) == <<ESC, 91>> \o rest
OscOf(rest)   == <<ESC, 93>> \o rest

MCSafeUrls == {<<104>>}                           \* "h" for http://...

MCShows == {
    <<195, 169, 14, 92, 48, 51, 51>>,             \* e acute, SO, \033 as text
    Bracket(<<49, 59, 51, 49, 109>>) \o <<ESC, 40, 48>>,         \* SGR 1;31, ESC ( 0
    Bracket(<<63, 50, 53, 59, 49, 48, 48, 48, 104>>),            \* private modes 25;1000
    OscOf(<<53, 50, 59, 120, BEL>>),                             \* OSC 52;x
    OscOf(<<56, 59, 59, 106>>) \o OscOf(<<56, 59, 59, 104, BEL>>),
                                                  \* OSC 8;;j (unsafe), OSC 8;;h (safe)
    <<ESC, 80, 113>> \o ST \o Bracket(<<77>>) }   \* DCS q, CSI M

MCKeys == {
    <<97>>, <<3>>, <<195, 169>>, <<ESC, 98>>,     \* a, Ctrl-C, e acute, Alt-b
    Bracket(<<65>>), Bracket(<<49, 59, 50, 65>>), \* Up, Shift-Up
    Bracket(<<50, 48, 48, 126, 120>>) }           \* a paste begins

MCEscKeys == { <<ESC>>, <<97>>, <<80>> }          \* Esc, a, P

MCAccents == { <<195, 169>> }                     \* e acute

MCNothing == {}

MCBodies == {
    MkLine("text", <<>>, <<>>, <<104, 105>>),
    MkLine("text", <<>>, <<>>, <<195>>),
    MkLine("%output", <<"%1", "payload">>, <<>>, <<97>>),
    Notice("%exit", <<>>) }

(* Keys have no part in what is shown: behaviours with both are left out, as  *)
(* is the choice of the first pane.                                         *)
CONSTANT First
MCInit == Init /\ tmuxPane = First
MCSpec == MCInit /\ [][Next]_vars

Apart ==
    \/ typed' = <<>>
    \/ shown' = <<>> /\ blocks' = 0 /\ unsent' = [p \in Panes |-> <<>>]

MCNotices == { Notice("%sessions-changed", <<>>), Notice("%window-add", <<"@2">>),
               Notice("%pause", <<"%1">>), Notice("%exit", <<>>) }
================================================================================
