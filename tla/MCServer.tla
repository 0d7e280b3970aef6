------------------------------ MODULE MCServer ------------------------------
(* Small instances of the server's life cycle for TLC: one store that is   *)
(* restored besides the tasks is enough to collect a snapshot while it     *)
(* changes, and one that is saved and not restored.                        *)
EXTENDS Server

MCOrder == <<"tasks", "agents", "branches">>
MCRestored == {"tasks", "agents"}
MCSnapshots == [{"tasks", "agents", "branches"} -> 0..MaxChanges]
=============================================================================
