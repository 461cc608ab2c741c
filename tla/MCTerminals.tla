----------------------------- MODULE MCTerminals -----------------------------
(* Two tabs and three panes: a tab with one pane beside one that is split.     *)
EXTENDS Terminals
==============================================================================
