----------------------------- MODULE MCProtocol -----------------------------
(* Two scenarios of the protocol for TLC: clients that post batches, or one *)
(* that lists its tools.  They share nothing that changes.                 *)
EXTENDS McpPost, McpList

VARIABLE listing

Request(method, name, id, claim) ==
    [method |-> method, name |-> name, id |-> id, auth |-> claim, inner |-> claim]

Initialize(i) == Request("initialize", "", i, NoRole)
Read(i) == Request("resources/read", "swarm://tasks", i, NoRole)
Heartbeat == Request("tools/call", "heartbeat", NoId, NoRole)
Call(tool, i) == Request("tools/call", tool, i, "coordinator")

(* Requests that a batch begins with, and that it goes on with; a request's *)
(* id is its position.                                                     *)
MCFirst == {Initialize(1), Heartbeat, Call("task_create", 1), Call("merge_approve", 1)}
MCSecond == {Read(2), Heartbeat, Call("task_create", 2), Malformed}
MCSingle == {Malformed, Call("no such", 1), Read(1),
             Request("prompts/get", "sync_context", 1, NoRole),
             Request("notifications/initialized", "", NoId, NoRole),
             Request("unknown", "", 1, NoRole), Request("invalid", "", 1, NoRole)}

MCBodies == {<<>>} \cup {<<r>> : r \in MCFirst \cup MCSingle}
                   \cup {<<r, s>> : r \in MCFirst, s \in MCSecond}

MCRegistered == {"task_list", "event_recent", "task_create", "merge_approve"}

MCInit ==
    /\ PostInit
    /\ \/ listing = TRUE /\ ListInit
       \/ /\ listing = FALSE /\ order = <<>> /\ lister = "observer" /\ careful = FALSE
          /\ cursor = NoCursor /\ seen = <<>> /\ stopped = FALSE

MCNext ==
    \/ ~listing /\ PostNext /\ UNCHANGED <<listVars, listing>>
    \/ listing /\ ListNext /\ UNCHANGED <<postVars, listing>>

MCSpec == MCInit /\ [][MCNext]_<<postVars, listVars, listing>>

Symmetry == Permutations(Workers)
=============================================================================
