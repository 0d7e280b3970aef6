----------------------------- MODULE McpProtocol -----------------------------
(***************************************************************************)
(* One JSON-RPC request in McpProtocol::handle_request (mcp/protocol.cpp): *)
(* which checks it meets, in which order, and what it is answered.  A      *)
(* request is its method, what it names, its id, and two places where the  *)
(* caller's role is looked for: `_auth` of params, by which the protocol   *)
(* decides, and `_auth` of the arguments, which a tool's handler is given. *)
(*                                                                         *)
(* The methods that only read and check nothing (ping and resources/list)  *)
(* are alike here, and so are the other requests of a kind.  Arguments and *)
(* results are left out.                                                   *)
(***************************************************************************)
EXTENDS Roles

CONSTANTS
    NoId,       \* a request without an id, or with null: a notification
    NoRole      \* no `_auth`

ASSUME NoRoleAssumption == NoRole \notin Roles

Methods == {"invalid", "initialize", "notifications/initialized", "ping",
            "tools/list", "tools/call", "resources/read", "resources/subscribe",
            "prompts/list", "prompts/get", "unknown"}

(* The dispatch's own check, before what is named is looked up. *)
Prompting == {"prompts/list", "prompts/get"}
Checked == Prompting \cup {"tools/call", "resources/read", "resources/subscribe"}
MethodPermission == [m \in Checked |-> IF m \in Prompting THEN "PromptUse" ELSE "TaskRead"]

Resources == {"swarm://tasks", "swarm://tasks/ready", "swarm://agents",
              "swarm://agents/idle", "swarm://agents/capabilities",
              "swarm://context", "swarm://events/recent", "swarm://capabilities"}

Prompts == {"delegate_task", "review_and_merge", "sync_context", "plan_parallel_work"}

(* What a request can name: only tools ask for a permission of their own,  *)
(* resources for that of the method.                                       *)
Named(method) ==
    CASE method = "tools/call" -> Tools
      [] method = "resources/read" -> Resources
      [] method = "prompts/get" -> Prompts

Naming == {"tools/call", "resources/read", "prompts/get"}

-----------------------------------------------------------------------------
(* A request whose `_auth` the transport has set meets all checks, the flag *)
(* initialized_ being up or not.                                           *)
Permitted(r) ==
    /\ r.method \in Checked => HasPermission(r.auth, MethodPermission[r.method])
    /\ r.method \in Naming => r.name \in Named(r.method)
    /\ r.method = "tools/call" => HasPermission(r.auth, Required[r.name])

Admitted(r, up) ==
    \/ r.method = "initialize"
    \/ r.method \notin {"invalid", "unknown"} /\ up /\ Permitted(r)

(* A tool's handler runs, and is given params' `_auth` for the arguments'. *)
Runs(r, up) == r.method = "tools/call" /\ Admitted(r, up)
RoleGiven(r) == IF r.auth # NoRole THEN r.auth ELSE r.inner

Kinds == {"nothing", "result", "tool error", "not initialized", "refused"}

Nothing == [id |-> NoId, kind |-> "nothing"]

(* A notification is answered with an empty object, one that is refused    *)
(* with an error that names no id.  ok: the handler did not throw.         *)
Answer(r, up, ok) ==
    LET refusal == IF up \/ r.method = "invalid" THEN "refused" ELSE "not initialized"
        result  == IF ok THEN "result" ELSE "tool error"
    IN  CASE ~Admitted(r, up) -> [id |-> r.id, kind |-> refusal]
          [] Admitted(r, up) /\ (r.id = NoId \/ r.method = "notifications/initialized") -> Nothing
          [] OTHER -> [id |-> r.id, kind |-> result]
=============================================================================
