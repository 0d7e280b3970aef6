---------------------------- MODULE TaskManager ----------------------------
(***************************************************************************)
(* The task store of the swarm server (workspace/task_manager.cpp).        *)
(*                                                                         *)
(* tasks_ is a map from task id to task behind one shared_mutex; an HTTP   *)
(* worker thread calls an operation, the operation changes the map under   *)
(* the exclusive lock, releases the lock, and only then calls the listener *)
(* registered with on_task_event with a copy of the task.  So an operation *)
(* is two steps here: the locked change, which leaves in note[t] the copy  *)
(* still to be delivered, and Notify(t), which delivers it.                *)
(*                                                                         *)
(* A task is its status and the set of ids it depends on.  Titles, tags,   *)
(* assignee, priority, context and time stamps guard nothing in this       *)
(* component and are left out.  update_task, which no code of the server   *)
(* calls, is not modelled; restore_task is part of Load in Server.          *)
(***************************************************************************)
EXTENDS Functions

CONSTANTS
    Tasks,      \* the ids generate_uuid can hand out
    Threads,    \* the threads that call the task manager
    NoNote      \* a thread with no listener call outstanding

-----------------------------------------------------------------------------
(* "failed" stands for Blocked, Failed and Cancelled, which no code of the *)
(* component tells apart.                                                  *)
Statuses == {"pending", "in_progress", "completed", "failed"}

Events == {"task.created", "task.deleted", "task.assigned",
           "task.status_changed", "task.dependency_added",
           "task.dependency_removed", "task.updated", "task.restored"}

Task == [status : Statuses, deps : SUBSET Tasks]

Notes == [event : Events, id : Tasks, task : Task]

NewTask == [status |-> "pending", deps |-> {}]

ASSUME NoNoteAssumption == NoNote \notin Notes

VARIABLES
    tasks,      \* tasks_, a function whose domain is the ids stored
    issued,     \* every id generate_uuid has handed out; it repeats none
    note        \* per thread, the listener call it must still make

vars == <<tasks, issued, note>>

-----------------------------------------------------------------------------
Stored == DOMAIN tasks

(* The dependency list the cycle search follows: none for an id not stored. *)
Depends(x) == IF x \in Stored THEN tasks[x].deps ELSE {}

(* Slips of the kind a change to these functions could introduce; the       *)
(* properties below must notice each of them.                               *)
WouldCreateCycleDirectOnly(id, dep) == id \in Depends(dep)
WouldCreateCycleSwapped(id, dep) ==
    \A C \in SUBSET Tasks :
        (id \in C /\ \A x \in C : Depends(x) \subseteq C) => dep \in C

(* The answer of would_create_cycle: the depth-first search from dep meets  *)
(* id.  Said without the search: every set that holds dep and is closed     *)
(* under dependencies holds id.  CycleSearch models the search itself.      *)
WouldCreateCycle(id, dep) ==
    \A C \in SUBSET Tasks :
        (dep \in C /\ \A x \in C : Depends(x) \subseteq C) => id \in C

(* get_ready_tasks: pending, and every dependency is stored and completed.  *)
Completed == {x \in Stored : tasks[x].status = "completed"}
Pending == {x \in Stored : tasks[x].status = "pending"}
Ready == {x \in Pending : tasks[x].deps \subseteq Completed}

-----------------------------------------------------------------------------
Init ==
    /\ tasks = [x \in {} |-> NewTask]
    /\ issued = {}
    /\ note = [t \in Threads |-> NoNote]

(* Thread t is between two calls. *)
Free(t) == note[t] = NoNote

(* The operation of t leaves a listener call to make outside the lock. *)
Leaves(t, event, id, task) ==
    note' = [note EXCEPT ![t] = [event |-> event, id |-> id, task |-> task]]

(* One operation body that rewrites the stored task id and announces it. *)
Rewrite(t, event, id, task) ==
    /\ tasks' = [tasks EXCEPT ![id] = task]
    /\ Leaves(t, event, id, task)
    /\ UNCHANGED issued

CreateTask(t, id) ==
    /\ Free(t)
    /\ id \notin issued
    /\ issued' = issued \cup {id}
    /\ tasks' = [x \in Stored \cup {id} |-> IF x = id THEN NewTask ELSE tasks[x]]
    /\ Leaves(t, "task.created", id, NewTask)

DeleteTask(t, id) ==
    /\ Free(t)
    /\ id \in Stored
    /\ tasks' = Restrict(tasks, Stored \ {id})
    /\ Leaves(t, "task.deleted", id, tasks[id])
    /\ UNCHANGED issued

AssignTask(t, id) ==
    /\ Free(t)
    /\ id \in Stored
    /\ Rewrite(t, "task.assigned", id, [tasks[id] EXCEPT !.status = "in_progress"])

SetStatus(t, id, status) ==
    /\ Free(t)
    /\ id \in Stored
    /\ Rewrite(t, "task.status_changed", id, [tasks[id] EXCEPT !.status = status])

(* A slip: whatever the caller names is taken for a dependency. *)
MayDependUnchecked(id, dep) ==
    /\ id \in Stored
    /\ id # dep

(* The checks of add_dependency that make it return false; a dependency    *)
(* the task already has changes nothing and is not announced.              *)
MayDepend(id, dep) ==
    /\ id \in Stored
    /\ dep \in Stored
    /\ id # dep
    /\ ~WouldCreateCycle(id, dep)

AddDependency(t, id, dep) ==
    /\ Free(t)
    /\ MayDepend(id, dep)
    /\ dep \notin tasks[id].deps
    /\ Rewrite(t, "task.dependency_added", id,
               [tasks[id] EXCEPT !.deps = @ \cup {dep}])

RemoveDependency(t, id, dep) ==
    /\ Free(t)
    /\ id \in Stored
    /\ dep \in tasks[id].deps
    /\ Rewrite(t, "task.dependency_removed", id,
               [tasks[id] EXCEPT !.deps = @ \ {dep}])

(* notify(): the listener runs after the lock is released. *)
Notify(t) ==
    /\ note[t] # NoNote
    /\ note' = [note EXCEPT ![t] = NoNote]
    /\ UNCHANGED <<tasks, issued>>

Operation(t, id) ==
    \/ CreateTask(t, id)
    \/ DeleteTask(t, id)
    \/ AssignTask(t, id)
    \/ \E s \in Statuses : SetStatus(t, id, s)
    \/ \E dep \in Tasks : AddDependency(t, id, dep)
    \/ \E dep \in Tasks : RemoveDependency(t, id, dep)

Next == \E t \in Threads : Notify(t) \/ \E id \in Tasks : Operation(t, id)

Spec == Init /\ [][Next]_vars

-----------------------------------------------------------------------------
(* The store, the ids handed out and the outstanding listener calls have   *)
(* their types, and only ids that were handed out are stored, depended on  *)
(* or announced.                                                           *)
TypeOK ==
    /\ issued \subseteq Tasks
    /\ Stored \subseteq issued
    /\ tasks \in [Stored -> [status : Statuses, deps : SUBSET issued]]
    /\ note \in [Threads -> {NoNote} \cup
                             [event : Events, id : issued, task : Task]]

(* add_dependency's cycle check keeps the dependencies free of cycles       *)
(* whatever the other operations do in between: in every set of stored     *)
(* tasks there is one that waits for none of the set.                      *)
NoCircularWait ==
    \A S \in SUBSET Stored : S # {} => \E x \in S : Depends(x) \cap S = {}

(* What the cycle check is for: work never stops with every agent waiting  *)
(* for another.  While tasks are pending, get_ready_tasks offers one, or   *)
(* a pending task waits for one that is being worked on, failed, or was    *)
(* deleted.                                                                *)
ReadyUnlessHeld ==
    Pending # {} =>
        \/ Ready # {}
        \/ \E x \in Pending : ~(Depends(x) \subseteq Pending \cup Completed)
=============================================================================
