---------------------------- MODULE MCTaskTools ----------------------------
(* Small instances of the task store for TLC, called by the tools of the    *)
(* server, or, as the unit tests do, by whoever has the store: with all of *)
(* its operations and no creation by a tool.                               *)
EXTENDS TaskTools, TLC

VARIABLE tools

MCInit == ToolInit /\ tools \in BOOLEAN

MCNext ==
    /\ \/ tools /\ ToolNext
       \/ ~tools /\ Next /\ UNCHANGED <<job, named>>
    /\ UNCHANGED tools

MCSpec == MCInit /\ [][MCNext]_<<toolVars, tools>>

Symmetry == Permutations(Tasks) \cup Permutations(Threads)
=============================================================================
