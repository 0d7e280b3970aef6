---------------------------- MODULE CycleSearch ----------------------------
(***************************************************************************)
(* The loop of TaskManager::would_create_cycle.  It runs under the lock of *)
(* its caller, so the store does not change while it searches; the store   *)
(* may be any one, also one with cycles and with dependencies on tasks     *)
(* that were deleted.  One step is one turn of the while loop.             *)
(***************************************************************************)
EXTENDS Sequences, FiniteSets, Naturals

CONSTANTS
    Tasks,      \* the ids in use
    Threads,    \* as in TaskManager
    NoNote      \* as in TaskManager

ASSUME FiniteTasks == IsFiniteSet(Tasks)

VARIABLES
    tasks,      \* the store under search
    id, dep,    \* the arguments: the dependency of id on dep is being added
    stack,      \* ids still to visit; the back of the vector is the last one
    visited,    \* ids whose dependencies were pushed
    answer      \* "searching", then what the function returns

vars == <<tasks, id, dep, stack, visited, answer>>

(* The store whose operations call this search. *)
TM == INSTANCE TaskManager
        WITH issued <- Tasks, note <- [t \in Threads |-> NoNote]

-----------------------------------------------------------------------------
(* The orders in which a dependency list with the members D can be stored. *)
Orders(D) ==
    {s \in [1 .. Cardinality(D) -> D] : \A d \in D : \E i \in DOMAIN s : s[i] = d}

Back == stack[Len(stack)]
Popped == SubSeq(stack, 1, Len(stack) - 1)
OnStack == {stack[i] : i \in DOMAIN stack}

Init ==
    /\ tasks \in UNION {[D -> [status : {"pending"}, deps : SUBSET Tasks]] :
                           D \in SUBSET Tasks}
    /\ id \in Tasks
    /\ dep \in Tasks
    /\ stack = <<dep>>
    /\ visited = {}
    /\ answer = "searching"

(* The popped id is the one searched for. *)
Found ==
    /\ Back = id
    /\ answer' = "cycle"
    /\ stack' = Popped
    /\ UNCHANGED visited

(* The popped id was visited before. *)
SkipKeepsTop ==
    /\ Back # id
    /\ Back \in visited
    /\ UNCHANGED <<stack, visited, answer>>
Skip ==
    /\ Back # id
    /\ Back \in visited
    /\ stack' = Popped
    /\ UNCHANGED <<visited, answer>>

(* A new id: its dependencies are pushed, none if the task is not stored.  *)
VisitTopOnly ==
    /\ Back # id
    /\ Back \notin visited
    /\ visited' = visited \cup {Back}
    /\ \E s \in Orders(TM!Depends(Back)) : stack' = s
    /\ UNCHANGED answer
Visit ==
    /\ Back # id
    /\ Back \notin visited
    /\ visited' = visited \cup {Back}
    /\ \E s \in Orders(TM!Depends(Back)) : stack' = Popped \o s
    /\ UNCHANGED answer

(* while (!stack.empty()) *)
Turn ==
    /\ answer = "searching"
    /\ stack # << >>
    /\ Found \/ Skip \/ Visit
    /\ UNCHANGED <<tasks, id, dep>>

GiveUp ==
    /\ answer = "searching"
    /\ stack = << >>
    /\ answer' = "no cycle"
    /\ UNCHANGED <<tasks, id, dep, stack, visited>>

Next == Turn \/ GiveUp

Spec == Init /\ [][Next]_vars

(* The thread that runs the loop runs it to its end. *)
FairSpec == Spec /\ WF_vars(Next)

-----------------------------------------------------------------------------
TypeOK ==
    /\ DOMAIN tasks \subseteq Tasks
    /\ \A x \in DOMAIN tasks : tasks[x].deps \subseteq Tasks
    /\ id \in Tasks
    /\ dep \in Tasks
    /\ stack \in Seq(Tasks)
    /\ visited \subseteq Tasks
    /\ answer \in {"searching", "cycle", "no cycle"}

(* What the loop maintains: every visited id had all its dependencies      *)
(* visited or pushed, the id searched for was never passed over, and every *)
(* id on the stack or visited is one the dependency depends on.            *)
SearchInvariant ==
    /\ dep \in visited \cup OnStack \/ answer = "cycle"
    /\ id \notin visited
    /\ answer # "cycle" =>
         \A x \in visited : TM!Depends(x) \subseteq visited \cup OnStack
    /\ \A C \in SUBSET Tasks :
         (dep \in C /\ \A x \in C : TM!Depends(x) \subseteq C)
            => visited \cup OnStack \subseteq C
    /\ answer = "no cycle" => stack = << >>
    /\ answer = "cycle" => TM!WouldCreateCycle(id, dep)

(* The search answers "cycle" exactly if the dependency would close one:   *)
(* the operations of TaskManager may take the answer in one step.          *)
AnswersRight ==
    /\ answer = "cycle" => TM!WouldCreateCycle(id, dep)
    /\ answer = "no cycle" => ~TM!WouldCreateCycle(id, dep)

(* The loop ends on every store, cyclic ones included, so a caller never    *)
(* keeps the task lock for ever.                                           *)
Terminates == <>(answer # "searching")
=============================================================================
