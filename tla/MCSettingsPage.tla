--------------------------- MODULE MCSettingsPage ---------------------------
(* SettingsPage with small numbers for the milliseconds.                     *)
EXTENDS SettingsPage

MCDefault == [warn |-> 1, bad |-> 2]
MCTyped == {BAD, [warn |-> 1, bad |-> 3], [warn |-> 3, bad |-> 2]}
MCBodies == {[n \in {"warn"} |-> 3], [n \in {"bad"} |-> 3]}
MCEdits == {[n \in {"bad"} |-> 0]}
=============================================================================
