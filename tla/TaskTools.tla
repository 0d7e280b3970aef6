----------------------------- MODULE TaskTools -----------------------------
(***************************************************************************)
(* The task tools of the MCP server (mcp/tools.cpp) on top of the task     *)
(* store.  Worker threads of the HTTP server run the tool handlers         *)
(* concurrently.  task_assign and task_update_status are one operation of  *)
(* the store.  task_create is several: it stores the task, its listener    *)
(* runs, and only then add_dependency is called once per dependency named  *)
(* in the request, each call with its own lock and listener, its result    *)
(* ignored.  Agents see the store between any two of these calls.  What    *)
(* names a dependency need not be a string: then the handler throws in     *)
(* between, and the task stays as it is by then.                           *)
(*                                                                         *)
(* The server gives agents no tool that deletes a task, removes a          *)
(* dependency or overwrites a task.  The MQTT broadcast at the end of each *)
(* handler touches nothing modelled here.                                  *)
(***************************************************************************)
EXTENDS TaskManager

CONSTANTS
    Unknown,    \* an id no task has: mistyped, or of a task lost in a restart
    Garbled,    \* what is no string
    NoJob       \* a thread that runs no task_create

ASSUME UnknownAssumption == Unknown \notin Tasks /\ Garbled \notin Tasks

Names == Tasks \cup {Unknown, Garbled}

Jobs == [id : Tasks, left : SUBSET Names]

ASSUME NoJobAssumption == NoJob \notin Jobs

VARIABLES
    job,        \* per thread, the task_create it runs: the task and the
                \* dependencies of the request it has not yet added
    named       \* history: what the request that created a task named, unless
                \* it was answered with an error

toolVars == <<tasks, issued, note, job, named>>

-----------------------------------------------------------------------------
ToolInit ==
    /\ Init
    /\ job = [t \in Threads |-> NoJob]
    /\ named = [x \in {} |-> {}]

(* A request can name ids it has seen, and ids no task has. *)
CallCreate(t) ==
    /\ job[t] = NoJob
    /\ \E id \in Tasks, names \in SUBSET (issued \cup {Unknown, Garbled}) :
          /\ CreateTask(t, id)
          /\ job' = [job EXCEPT ![t] = [id |-> id, left |-> names]]
          /\ named' = [x \in DOMAIN named \cup {id} |-> IF x = id THEN names ELSE named[x]]

(* One turn of the loop over the request's dependencies; what the store    *)
(* refuses is skipped without a word.                                      *)
NameDropped(t, dep) ==
    /\ dep \in job[t].left
    /\ job' = [job EXCEPT ![t].left = {}]
    /\ AddDependency(t, job[t].id, dep) \/ UNCHANGED vars
Name(t, dep) ==
    /\ dep \in job[t].left
    /\ job' = [job EXCEPT ![t].left = @ \ {dep}]
    /\ \/ AddDependency(t, job[t].id, dep)
       \/ ~MayDepend(job[t].id, dep) /\ UNCHANGED vars

CreateDependency(t) ==
    /\ job[t] # NoJob
    /\ Free(t)
    /\ \E dep \in Names \ {Garbled} : Name(t, dep)
    /\ UNCHANGED named

(* get<std::string>() throws at what is no string; tags are met before.    *)
CreateThrows(t) ==
    /\ job[t] # NoJob
    /\ Free(t)
    /\ Garbled \in job[t].left
    /\ job' = [job EXCEPT ![t] = NoJob]
    /\ named' = Restrict(named, DOMAIN named \ {job[t].id})
    /\ UNCHANGED vars

(* The loop is through: the reply goes out. *)
CreateAnswer(t) ==
    /\ job[t] # NoJob
    /\ Free(t)
    /\ job[t].left = {}
    /\ job' = [job EXCEPT ![t] = NoJob]
    /\ UNCHANGED <<vars, named>>

TaskAssign(t) ==
    /\ job[t] = NoJob
    /\ \E id \in Tasks : AssignTask(t, id)
    /\ UNCHANGED <<job, named>>

TaskUpdateStatus(t) ==
    /\ job[t] = NoJob
    /\ \E id \in Tasks, s \in Statuses : SetStatus(t, id, s)
    /\ UNCHANGED <<job, named>>

Listener(t) == Notify(t) /\ UNCHANGED <<job, named>>

ThreadStep(t) ==
    \/ CallCreate(t)
    \/ CreateDependency(t)
    \/ CreateThrows(t)
    \/ CreateAnswer(t)
    \/ TaskAssign(t)
    \/ TaskUpdateStatus(t)
    \/ Listener(t)

ToolNext == \E t \in Threads : ThreadStep(t)

ToolSpec == ToolInit /\ [][ToolNext]_toolVars

-----------------------------------------------------------------------------
InFlight == {job[t].id : t \in {u \in Threads : job[u] # NoJob}}

(* A task_create that answers with the task has made it depend on exactly   *)
(* the tasks its creator named that exist: no concurrent request made the  *)
(* store refuse or lose one, though each dependency was added in a call of *)
(* its own, and nothing changes it later.                                  *)
AnsweredAsNamed ==
    \A x \in DOMAIN named \ InFlight : tasks[x].deps = named[x] \cap Stored
=============================================================================
