-------------------------------- MODULE Roles --------------------------------
(* Roles and permissions (util/auth's header), and the permission each tool *)
(* of mcp/tools.cpp asks for when it is registered.                         *)
EXTENDS Naturals, TLC

Roles == {"coordinator", "worker", "observer"}

TaskPermissions == {"TaskCreate", "TaskRead", "TaskAssign", "TaskUpdateStatus", "TaskDelete"}
AgentPermissions == {"AgentRegister", "AgentRead", "AgentManage"}
ContextPermissions == {"ContextWrite", "ContextRead"}
BranchPermissions == {"BranchCreate", "BranchCommit"}
MergePermissions == {"MergeRequest", "MergeApprove", "MergeExecute"}
OtherPermissions == {"EventPublish", "EventRead", "PromptUse", "Admin"}

Permissions == TaskPermissions \cup AgentPermissions \cup ContextPermissions
                 \cup BranchPermissions \cup MergePermissions \cup OtherPermissions

ReadPermissions == {"TaskRead", "AgentRead", "ContextRead", "EventRead", "PromptUse"}

RolePermissions ==
    [coordinator |-> Permissions,
     worker      |-> Permissions \ {"TaskDelete", "AgentRegister", "AgentManage",
                                    "MergeApprove", "MergeExecute", "Admin"},
     observer    |-> ReadPermissions]

HasPermission(role, permission) == permission \in RolePermissions[role]

-----------------------------------------------------------------------------
TaskTool ==
    [task_create |-> "TaskCreate", task_assign |-> "TaskAssign",
     task_update_status |-> "TaskUpdateStatus",
     task_list |-> "TaskRead", task_get |-> "TaskRead", task_ready |-> "TaskRead"]

AgentTool ==
    [agent_register |-> "AgentRegister", agent_set_role |-> "AgentManage",
     agent_list |-> "AgentRead", agent_find_capability |-> "AgentRead",
     agent_describe |-> "AgentRead", heartbeat |-> "AgentRead"]

ContextTool ==
    [context_set |-> "ContextWrite", context_merge |-> "ContextWrite",
     context_get |-> "ContextRead", context_list |-> "ContextRead"]

BranchTool == [branch_create |-> "BranchCreate", branch_commit |-> "BranchCommit"]

MergeTool ==
    [merge_request |-> "MergeRequest", merge_approve |-> "MergeApprove",
     merge_execute |-> "MergeExecute"]

EventTool == [event_publish |-> "EventPublish", event_recent |-> "EventRead"]

(* required_permission, of every tool there is. *)
Required == TaskTool @@ AgentTool @@ ContextTool @@ BranchTool @@ MergeTool @@ EventTool

Tools == DOMAIN Required

Allowed(role) == {tool \in Tools : HasPermission(role, Required[tool])}
=============================================================================
