------------------------- MODULE TaskManagerProofs -------------------------
(***************************************************************************)
(* Proofs about the task store and the tools that call it, for every set   *)
(* of tasks and threads.                                                   *)
(*                                                                         *)
(* NoCircularWait is inductive once the types are known.  Only             *)
(* add_dependency adds an edge; when it does, the search it ran left a set *)
(* C of tasks closed under dependencies that holds dep and not id.  A set  *)
(* S that meets C has its member that waits for nobody inside S \cap C,    *)
(* where no edge was added; a set that misses C does not hold dep, so the  *)
(* new edge leaves it as it was.                                           *)
(*                                                                         *)
(* AnsweredAsNamed needs that no name of a running task_create is refused: *)
(* the ids there were when its task was created form a set that misses the *)
(* task and stays closed under the dependencies there are and those still  *)
(* to be added (Apart), so the search from a name cannot meet the task.    *)
(***************************************************************************)
EXTENDS TaskTools, TLAPS

(* The store keeps its types under every operation. *)
LEMMA TypeStep ==
  ASSUME TypeOK, [Next]_vars
  PROVE  TypeOK'
<1> USE NoNoteAssumption DEF TypeOK, Stored, Task
<1>1. ASSUME NEW t \in Threads, NEW id \in Tasks, CreateTask(t, id)
      PROVE  TypeOK'
  BY <1>1 DEF CreateTask, Leaves, NewTask, Statuses, Events
<1>2. ASSUME NEW t \in Threads, NEW id \in Tasks, DeleteTask(t, id)
      PROVE  TypeOK'
  BY <1>2 DEF DeleteTask, Leaves, Restrict, Events
<1>3. ASSUME NEW t \in Threads, NEW id \in Tasks, AssignTask(t, id)
      PROVE  TypeOK'
  BY <1>3 DEF AssignTask, Rewrite, Leaves, Statuses, Events
<1>4. ASSUME NEW t \in Threads, NEW id \in Tasks, NEW s \in Statuses,
             SetStatus(t, id, s)
      PROVE  TypeOK'
  BY <1>4 DEF SetStatus, Rewrite, Leaves, Events
<1>5. ASSUME NEW t \in Threads, NEW id \in Tasks, NEW dep \in Tasks,
             AddDependency(t, id, dep)
      PROVE  TypeOK'
  BY <1>5 DEF AddDependency, MayDepend, Rewrite, Leaves, Events
<1>6. ASSUME NEW t \in Threads, NEW id \in Tasks, NEW dep \in Tasks,
             RemoveDependency(t, id, dep)
      PROVE  TypeOK'
  BY <1>6 DEF RemoveDependency, Rewrite, Leaves, Events
<1>7. ASSUME NEW t \in Threads, Notify(t)
      PROVE  TypeOK'
  BY <1>7 DEF Notify
<1>8. CASE UNCHANGED vars
  BY <1>8 DEF vars
<1> QED
  BY <1>1, <1>2, <1>3, <1>4, <1>5, <1>6, <1>7, <1>8 DEF Next, Operation

(* Only ids that were handed out are stored, depended on or announced.     *)
THEOREM TypeCorrect == Spec => []TypeOK
<1>1. Init => TypeOK
  BY DEF Init, TypeOK, Stored
<1>2. TypeOK /\ [Next]_vars => TypeOK'
  BY TypeStep
<1> QED
  BY <1>1, <1>2, PTL DEF Spec

-----------------------------------------------------------------------------
(* A task whose operation neither stores it nor extends its dependencies    *)
(* adds no edge: the edges after the step are among those before it.       *)
NoNewEdge == \A x \in Stored' : Depends(x)' \subseteq Depends(x)

(* Fewer edges: no set of tasks starts to wait for itself.                  *)
LEMMA FewerEdges ==
  ASSUME NoCircularWait, NoNewEdge,
         \A x \in Stored' \ Stored : Depends(x)' = {}
  PROVE  NoCircularWait'
<1> SUFFICES ASSUME NEW S \in SUBSET Stored', S # {}
             PROVE  \E x \in S : Depends(x)' \cap S = {}
  BY DEF NoCircularWait
<1>1. CASE \E x \in S : x \notin Stored
  BY <1>1
<1>2. CASE S \subseteq Stored
  <2>1. PICK x \in S : Depends(x) \cap S = {}
    BY <1>2 DEF NoCircularWait
  <2> QED
    BY <2>1 DEF NoNewEdge
<1> QED
  BY <1>1, <1>2

(* One more edge, from id to dep, where the cycle search from dep missed    *)
(* id: still no set of tasks waits for itself.                             *)
LEMMA CheckedEdge ==
  ASSUME NoCircularWait, NEW id \in Stored, NEW dep \in Stored,
         ~WouldCreateCycle(id, dep),
         Stored' = Stored,
         \A x \in Stored : Depends(x)' = IF x = id THEN Depends(x) \cup {dep}
                                                   ELSE Depends(x)
  PROVE  NoCircularWait'
<1>1. PICK C \in SUBSET Tasks :
           dep \in C /\ id \notin C /\ \A x \in C : Depends(x) \subseteq C
  BY DEF WouldCreateCycle
<1> SUFFICES ASSUME NEW S \in SUBSET Stored, S # {}
             PROVE  \E x \in S : Depends(x)' \cap S = {}
  BY DEF NoCircularWait
<1>2. CASE S \cap C # {}
  <2>1. PICK x \in S \cap C : Depends(x) \cap (S \cap C) = {}
    BY <1>2 DEF NoCircularWait
  <2>2. Depends(x) \subseteq C /\ x # id
    BY <1>1
  <2> QED
    BY <2>1, <2>2
<1>3. CASE S \cap C = {}
  <2>1. PICK x \in S : Depends(x) \cap S = {}
    BY DEF NoCircularWait
  <2>2. dep \notin S
    BY <1>1, <1>3
  <2> QED
    BY <2>1, <2>2
<1> QED
  BY <1>2, <1>3

(* Every operation keeps the dependencies free of circular waits.           *)
LEMMA StepKeepsOrder ==
  ASSUME TypeOK, NoCircularWait, [Next]_vars
  PROVE  NoCircularWait'
<1>1. ASSUME NEW t \in Threads, NEW id \in Tasks, CreateTask(t, id)
      PROVE  NoCircularWait'
  <2>1. Stored' = Stored \cup {id} /\ id \notin Stored
    BY <1>1 DEF CreateTask, TypeOK, Stored
  <2>2. \A x \in Stored' : Depends(x)' = IF x = id THEN {} ELSE Depends(x)
    BY <1>1, <2>1 DEF CreateTask, Depends, Stored, NewTask
  <2> QED
    BY <2>1, <2>2, FewerEdges DEF NoNewEdge
<1>2. ASSUME NEW t \in Threads, NEW id \in Tasks, DeleteTask(t, id)
      PROVE  NoCircularWait'
  <2>1. Stored' = Stored \ {id} /\ \A x \in Stored' : Depends(x)' = Depends(x)
    BY <1>2 DEF DeleteTask, Restrict, Depends, Stored
  <2> QED
    BY <2>1, FewerEdges DEF NoNewEdge
<1>3. ASSUME NEW t \in Threads, NEW id \in Tasks, AssignTask(t, id)
      PROVE  NoCircularWait'
  <2>1. Stored' = Stored /\ \A x \in Stored' : Depends(x)' = Depends(x)
    BY <1>3 DEF AssignTask, Rewrite, Depends, Stored, TypeOK
  <2> QED
    BY <2>1, FewerEdges DEF NoNewEdge
<1>4. ASSUME NEW t \in Threads, NEW id \in Tasks, NEW s \in Statuses,
             SetStatus(t, id, s)
      PROVE  NoCircularWait'
  <2>1. Stored' = Stored /\ \A x \in Stored' : Depends(x)' = Depends(x)
    BY <1>4 DEF SetStatus, Rewrite, Depends, Stored, TypeOK
  <2> QED
    BY <2>1, FewerEdges DEF NoNewEdge
<1>5. ASSUME NEW t \in Threads, NEW id \in Tasks, NEW dep \in Tasks,
             AddDependency(t, id, dep)
      PROVE  NoCircularWait'
  <2>1. /\ id \in Stored /\ dep \in Stored /\ ~WouldCreateCycle(id, dep)
        /\ Stored' = Stored
    BY <1>5 DEF AddDependency, MayDepend, Rewrite, Stored
  <2>2. \A x \in Stored : Depends(x)' = IF x = id THEN Depends(x) \cup {dep}
                                                  ELSE Depends(x)
    BY <1>5, <2>1 DEF AddDependency, Rewrite, Depends, Stored, TypeOK
  <2> QED
    BY <2>1, <2>2, CheckedEdge
<1>6. ASSUME NEW t \in Threads, NEW id \in Tasks, NEW dep \in Tasks,
             RemoveDependency(t, id, dep)
      PROVE  NoCircularWait'
  <2>1. Stored' = Stored
    BY <1>6 DEF RemoveDependency, Rewrite, Stored
  <2>2. NoNewEdge
    BY <1>6, <2>1 DEF NoNewEdge, RemoveDependency, Rewrite, Depends, Stored, TypeOK
  <2> QED
    BY <2>1, <2>2, FewerEdges
<1>7. CASE UNCHANGED tasks
  BY <1>7 DEF NoCircularWait, Depends, Stored
<1> QED
  BY <1>1, <1>2, <1>3, <1>4, <1>5, <1>6, <1>7 DEF Next, Operation, Notify, vars

(* No set of tasks ever waits for itself, whatever operations the threads   *)
(* interleave: the check add_dependency makes is enough on its own.        *)
THEOREM CircularWaitFree == Spec => []NoCircularWait
<1>1. Init => NoCircularWait
  BY DEF Init, NoCircularWait, Stored
<1>2. TypeOK /\ NoCircularWait /\ [Next]_vars => NoCircularWait'
  BY StepKeepsOrder
<1> QED
  BY <1>1, <1>2, TypeCorrect, PTL DEF Spec

-----------------------------------------------------------------------------
(* A pending task that waits for none of the pending tasks is ready unless  *)
(* one of its dependencies is neither pending nor completed.               *)
LEMMA OrderKeepsWorkMoving ==
  ASSUME TypeOK, NoCircularWait
  PROVE  ReadyUnlessHeld
<1> SUFFICES ASSUME Pending # {}, Ready = {},
                    \A x \in Pending : Depends(x) \subseteq Pending \cup Completed
             PROVE  FALSE
  BY DEF ReadyUnlessHeld
<1>1. Pending \subseteq Stored
  BY DEF Pending
<1>2. PICK x \in Pending : Depends(x) \cap Pending = {}
  BY <1>1 DEF NoCircularWait
<1>3. tasks[x].deps \subseteq Completed
  BY <1>1, <1>2 DEF Depends
<1> QED
  BY <1>3 DEF Ready

(* While tasks are pending the server offers one, or something outside the  *)
(* pending tasks holds one up: agents never all wait for each other.       *)
THEOREM WorkKeepsMoving == Spec => []ReadyUnlessHeld
<1>1. TypeOK /\ NoCircularWait => ReadyUnlessHeld
  BY OrderKeepsWorkMoving
<1> QED
  BY <1>1, TypeCorrect, CircularWaitFree, PTL

-----------------------------------------------------------------------------
(* Each running task_create works on a stored task of its own. *)
JobsApart ==
    /\ Stored = issued
    /\ job \in [Threads -> Jobs \cup {NoJob}]
    /\ \A t \in Threads : job[t] # NoJob => job[t].id \in DOMAIN named
    /\ \A t, u \in Threads :
          job[t] # NoJob /\ job[u] # NoJob /\ job[t].id = job[u].id => t = u

(* What is still to be added was named, and what was named had an id. *)
NamedIssued ==
    /\ DOMAIN named \subseteq issued
    /\ \A x \in DOMAIN named : named[x] \cap Tasks \subseteq issued
    /\ \A t \in Threads : job[t] # NoJob => job[t].left \subseteq named[job[t].id]

(* A task depends on what was named for it and is not still to be added.   *)
AddedIsNamed ==
    \A x \in DOMAIN named : \A d \in Tasks :
        d \in tasks[x].deps <=>
            /\ d \in named[x]
            /\ \A t \in Threads : job[t] # NoJob /\ job[t].id = x => d \notin job[t].left

(* A set that holds what t has still to add and not t's task, and is closed *)
(* under the dependencies there are and those still to be added.           *)
Apart ==
    \A t \in Threads : job[t] # NoJob =>
        \E C \in SUBSET issued :
            /\ job[t].id \notin C
            /\ job[t].left \cap Tasks \subseteq C
            /\ \A y \in C : tasks[y].deps \subseteq C
            /\ \A u \in Threads : job[u] # NoJob /\ job[u].id \in C =>
                  job[u].left \cap Tasks \subseteq C

ToolInv == TypeOK /\ JobsApart /\ NamedIssued /\ AddedIsNamed /\ Apart

(* Nothing named is refused: add_dependency's result hides unknown ids and *)
(* nothing else.                                                           *)
LEMMA NoNameIsRefused ==
  ASSUME ToolInv, NEW t \in Threads, job[t] # NoJob, NEW dep \in job[t].left \cap Tasks
  PROVE  MayDepend(job[t].id, dep)
<1>1. PICK C \in SUBSET issued :
        /\ job[t].id \notin C
        /\ job[t].left \cap Tasks \subseteq C
        /\ \A y \in C : tasks[y].deps \subseteq C
  BY DEF ToolInv, Apart
<1>2. Stored = issued /\ issued \subseteq Tasks /\ job[t].id \in Stored
  BY DEF ToolInv, TypeOK, JobsApart, NamedIssued
<1>3. dep \in C /\ dep \in Stored /\ job[t].id # dep
  BY <1>1, <1>2
<1>4. \A x \in C : Depends(x) \subseteq C
  BY <1>1, <1>2 DEF Depends
<1>5. ~WouldCreateCycle(job[t].id, dep)
  BY <1>1, <1>2, <1>3, <1>4 DEF WouldCreateCycle
<1> QED
  BY <1>2, <1>3, <1>5 DEF MayDepend

(* A step that adds nothing and ends no creation. *)
LEMMA QuietToolStep ==
  ASSUME ToolInv, TypeOK', issued' = issued, Stored' = Stored,
         job' = job, named' = named,
         \A x \in issued : tasks'[x].deps = tasks[x].deps
  PROVE  ToolInv'
<1>1. JobsApart' /\ NamedIssued'
  BY DEF ToolInv, JobsApart, NamedIssued
<1>2. AddedIsNamed'
  BY DEF ToolInv, NamedIssued, AddedIsNamed
<1>3. Apart'
  <2> SUFFICES ASSUME NEW t \in Threads, job[t] # NoJob
               PROVE  \E C \in SUBSET issued :
                        /\ job[t].id \notin C
                        /\ job[t].left \cap Tasks \subseteq C
                        /\ \A y \in C : tasks'[y].deps \subseteq C
                        /\ \A u \in Threads : job[u] # NoJob /\ job[u].id \in C =>
                              job[u].left \cap Tasks \subseteq C
    BY DEF Apart
  <2> QED
    BY DEF ToolInv, Apart
<1> QED
  BY <1>1, <1>2, <1>3 DEF ToolInv

(* A step that adds to a task what is still to be added, at most, and takes *)
(* from what is still to be added, keeps the sets apart.                   *)
LEMMA StaysApart ==
  ASSUME Apart, issued' = issued,
         \A t \in Threads : job'[t] # NoJob =>
            job[t] # NoJob /\ job'[t].id = job[t].id /\ job'[t].left \subseteq job[t].left,
         \A y \in issued : \A d \in tasks'[y].deps :
            \/ d \in tasks[y].deps
            \/ d \in Tasks /\ \E u \in Threads :
                                 job[u] # NoJob /\ job[u].id = y /\ d \in job[u].left
  PROVE  Apart'
<1> SUFFICES ASSUME NEW t \in Threads, job'[t] # NoJob
             PROVE  \E C \in SUBSET issued :
                      /\ job'[t].id \notin C
                      /\ job'[t].left \cap Tasks \subseteq C
                      /\ \A y \in C : tasks'[y].deps \subseteq C
                      /\ \A u \in Threads : job'[u] # NoJob /\ job'[u].id \in C =>
                            job'[u].left \cap Tasks \subseteq C
  BY DEF Apart
<1>1. PICK C \in SUBSET issued :
        /\ job[t].id \notin C
        /\ job[t].left \cap Tasks \subseteq C
        /\ \A y \in C : tasks[y].deps \subseteq C
        /\ \A u \in Threads : job[u] # NoJob /\ job[u].id \in C =>
              job[u].left \cap Tasks \subseteq C
  BY DEF Apart
<1>2. \A y \in C : tasks'[y].deps \subseteq C
  BY <1>1
<1>3. \A u \in Threads : job'[u] # NoJob /\ job'[u].id \in C => job'[u].left \cap Tasks \subseteq C
  BY <1>1
<1>4. job'[t].id \notin C /\ job'[t].left \cap Tasks \subseteq C
  BY <1>1
<1> QED
  BY <1>2, <1>3, <1>4

(* A task_create begins: its task is new to all. *)
LEMMA CallCreateKeeps ==
  ASSUME ToolInv, TypeOK', NEW t \in Threads, CallCreate(t)
  PROVE  ToolInv'
<1>1. PICK id \in Tasks, names \in SUBSET (issued \cup {Unknown, Garbled}) :
        /\ CreateTask(t, id)
        /\ job' = [job EXCEPT ![t] = [id |-> id, left |-> names]]
        /\ named' = [x \in DOMAIN named \cup {id} |-> IF x = id THEN names ELSE named[x]]
  BY DEF CallCreate
<1> DEFINE j == [id |-> id, left |-> names]
<1>2. /\ id \notin issued /\ issued' = issued \cup {id} /\ Stored' = issued' /\ Stored = issued
      /\ tasks'[id].deps = {} /\ \A x \in issued : tasks'[x] = tasks[x]
      /\ issued \subseteq Tasks
  BY <1>1 DEF CreateTask, NewTask, ToolInv, JobsApart, TypeOK, Stored
<1>3. names \in SUBSET Names /\ names \cap Tasks \subseteq issued
  BY <1>2, UnknownAssumption DEF Names
<1>4. j \in Jobs /\ j # NoJob /\ j.id = id /\ j.left = names
  BY <1>3, NoJobAssumption DEF Jobs
<1>5. /\ job[t] = NoJob
      /\ \A u \in Threads : job'[u] = IF u = t THEN j ELSE job[u]
      /\ job' \in [Threads -> Jobs \cup {NoJob}]
  BY <1>1, <1>4 DEF CallCreate, ToolInv, JobsApart
<1> HIDE DEF j
<1>6. /\ DOMAIN named' = DOMAIN named \cup {id} /\ named'[id] = names
      /\ \A x \in DOMAIN named : x # id /\ named'[x] = named[x]
      /\ DOMAIN named \subseteq issued
  BY <1>1, <1>2 DEF ToolInv, NamedIssued
<1>7. \A u \in Threads : job[u] # NoJob => u # t /\ job[u].id \in DOMAIN named /\ job[u].id # id
  BY <1>5, <1>6 DEF ToolInv, JobsApart
<1>8. JobsApart'
  BY <1>2, <1>4, <1>5, <1>6, <1>7 DEF ToolInv, JobsApart
<1>9. NamedIssued'
  BY <1>2, <1>3, <1>4, <1>5, <1>6, <1>7 DEF ToolInv, NamedIssued
<1>10. AddedIsNamed'
  <2> SUFFICES ASSUME NEW x \in DOMAIN named', NEW d \in Tasks
               PROVE  d \in tasks'[x].deps <=>
                         /\ d \in named'[x]
                         /\ \A u \in Threads : job'[u] # NoJob /\ job'[u].id = x =>
                                                  d \notin job'[u].left
    BY DEF AddedIsNamed
  <2>1. CASE x = id
    BY <2>1, <1>2, <1>4, <1>5, <1>6
  <2>2. CASE x # id
    BY <2>2, <1>2, <1>4, <1>5, <1>6, <1>7 DEF ToolInv, AddedIsNamed
  <2> QED
    BY <2>1, <2>2
<1>11. Apart'
  <2> SUFFICES ASSUME NEW u \in Threads, job'[u] # NoJob
               PROVE  \E C \in SUBSET issued' :
                        /\ job'[u].id \notin C
                        /\ job'[u].left \cap Tasks \subseteq C
                        /\ \A y \in C : tasks'[y].deps \subseteq C
                        /\ \A v \in Threads : job'[v] # NoJob /\ job'[v].id \in C =>
                              job'[v].left \cap Tasks \subseteq C
    BY DEF Apart
  <2>1. CASE u = t
    <3>1. issued \in SUBSET issued' /\ job'[u].id \notin issued /\ job'[u].left \cap Tasks \subseteq issued
      BY <2>1, <1>2, <1>3, <1>4, <1>5
    <3>2. \A y \in issued : tasks'[y].deps \subseteq issued
      BY <1>2 DEF ToolInv, TypeOK
    <3>3. \A v \in Threads : job'[v] # NoJob /\ job'[v].id \in issued => job'[v].left \cap Tasks \subseteq issued
      BY <1>2, <1>4, <1>5, <1>7 DEF ToolInv, NamedIssued
    <3> QED
      BY <3>1, <3>2, <3>3
  <2>2. CASE u # t
    <3>1. job'[u] = job[u]
      BY <2>2, <1>5
    <3>2. PICK C \in SUBSET issued :
            /\ job[u].id \notin C
            /\ job[u].left \cap Tasks \subseteq C
            /\ \A y \in C : tasks[y].deps \subseteq C
            /\ \A v \in Threads : job[v] # NoJob /\ job[v].id \in C =>
                  job[v].left \cap Tasks \subseteq C
      BY <3>1 DEF ToolInv, Apart
    <3>3. C \in SUBSET issued' /\ \A y \in C : tasks'[y].deps \subseteq C
      BY <3>2, <1>2
    <3>4. \A v \in Threads : job'[v] # NoJob /\ job'[v].id \in C => job'[v].left \cap Tasks \subseteq C
      BY <3>2, <1>2, <1>4, <1>5
    <3> QED
      BY <3>1, <3>2, <3>3, <3>4
  <2> QED
    BY <2>1, <2>2
<1> QED
  BY <1>8, <1>9, <1>10, <1>11 DEF ToolInv

(* A turn of the loop: the name becomes a dependency, or no task has it.    *)
LEMMA NameKeeps ==
  ASSUME ToolInv, TypeOK', NEW t \in Threads, job[t] # NoJob,
         NEW dep \in Names \ {Garbled}, Name(t, dep), named' = named
  PROVE  ToolInv'
<1> DEFINE id == job[t].id
<1>1. /\ id \in DOMAIN named /\ id \in issued /\ Stored = issued /\ issued \subseteq Tasks
      /\ job[t] \in Jobs /\ dep \in job[t].left
  BY DEF Name, ToolInv, JobsApart, NamedIssued, TypeOK
<1>2. /\ job' \in [Threads -> Jobs \cup {NoJob}]
      /\ \A u \in Threads : u # t => job'[u] = job[u]
      /\ job'[t] # NoJob /\ job'[t].id = id /\ job'[t].left = job[t].left \ {dep}
  <2>1. job' = [job EXCEPT ![t].left = job[t].left \ {dep}]
    BY DEF Name
  <2>2. [job[t] EXCEPT !.left = job[t].left \ {dep}] \in Jobs
    BY <1>1 DEF Jobs
  <2> QED
    BY <2>1, <2>2, <1>1, NoJobAssumption DEF ToolInv, JobsApart, Jobs
<1>3. dep \in Tasks => MayDepend(id, dep)
  BY <1>1, NoNameIsRefused
<1>4. /\ issued' = issued /\ Stored' = Stored
      /\ \A x \in issued : x # id => tasks'[x].deps = tasks[x].deps
      /\ tasks'[id].deps = IF dep \in Tasks THEN tasks[id].deps \cup {dep} ELSE tasks[id].deps
  <2>1. CASE dep \in Tasks
    <3>1. AddDependency(t, id, dep)
      BY <2>1, <1>3 DEF Name
    <3> QED
      BY <2>1, <3>1, <1>1 DEF AddDependency, Rewrite, ToolInv, TypeOK, Stored
  <2>2. CASE dep \notin Tasks
    <3>1. UNCHANGED vars
      BY <2>2, <1>1 DEF Name, AddDependency, MayDepend
    <3> QED
      BY <2>2, <3>1 DEF vars, Stored
  <2> QED
    BY <2>1, <2>2
<1> HIDE DEF id
<1>5. JobsApart'
  BY <1>1, <1>2, <1>4 DEF ToolInv, JobsApart, id
<1>6. NamedIssued'
  BY <1>1, <1>2, <1>4 DEF ToolInv, NamedIssued, id
<1>7. AddedIsNamed'
  <2> SUFFICES ASSUME NEW x \in DOMAIN named, NEW d \in Tasks
               PROVE  d \in tasks'[x].deps <=>
                         /\ d \in named[x]
                         /\ \A u \in Threads : job'[u] # NoJob /\ job'[u].id = x =>
                                                  d \notin job'[u].left
    BY DEF AddedIsNamed
  <2>0. /\ x \in issued /\ job[t].left \subseteq named[id]
        /\ d \in tasks[x].deps <=>
              /\ d \in named[x]
              /\ \A u \in Threads : job[u] # NoJob /\ job[u].id = x => d \notin job[u].left
    BY DEF ToolInv, NamedIssued, AddedIsNamed, id
  <2>1. CASE x # id
    BY <2>0, <2>1, <1>2, <1>4 DEF id
  <2>2. CASE x = id
    <3>1. \A u \in Threads : job[u] # NoJob /\ job[u].id = x => u = t
      BY <2>2 DEF ToolInv, JobsApart, id
    <3>2. \A u \in Threads : job'[u] # NoJob /\ job'[u].id = x => u = t
      BY <3>1, <1>2
    <3>3. d \in tasks[x].deps <=> d \in named[x] /\ d \notin job[t].left
      BY <2>0, <2>2, <3>1 DEF id
    <3>4. (\A u \in Threads : job'[u] # NoJob /\ job'[u].id = x => d \notin job'[u].left)
             <=> d \notin job[t].left \ {dep}
      BY <2>2, <3>2, <1>2
    <3>5. CASE d = dep
      BY <3>3, <3>4, <3>5, <2>0, <2>2, <1>1, <1>4
    <3>6. CASE d # dep
      BY <3>3, <3>4, <3>6, <2>2, <1>4
    <3> QED
      BY <3>5, <3>6
  <2> QED
    BY <2>1, <2>2
<1>8. Apart'
  <2>1. \A u \in Threads : job'[u] # NoJob =>
           job[u] # NoJob /\ job'[u].id = job[u].id /\ job'[u].left \subseteq job[u].left
    BY <1>2 DEF id
  <2>2. \A y \in issued : \A d \in tasks'[y].deps :
           \/ d \in tasks[y].deps
           \/ d \in Tasks /\ \E u \in Threads : job[u] # NoJob /\ job[u].id = y /\ d \in job[u].left
    BY <1>1, <1>4 DEF id
  <2> QED
    BY <2>1, <2>2, <1>4, StaysApart DEF ToolInv
<1> QED
  BY <1>5, <1>6, <1>7, <1>8 DEF ToolInv

(* A task_create ends; if it threw, nothing is claimed of its task.        *)
LEMMA EndKeeps ==
  ASSUME ToolInv, TypeOK', NEW t \in Threads, job[t] # NoJob, UNCHANGED vars,
         job' = [job EXCEPT ![t] = NoJob],
         \/ job[t].left = {} /\ named' = named
         \/ named' = Restrict(named, DOMAIN named \ {job[t].id})
  PROVE  ToolInv'
<1>1. /\ tasks' = tasks /\ issued' = issued /\ Stored' = Stored
      /\ job' \in [Threads -> Jobs \cup {NoJob}]
      /\ \A u \in Threads : job'[u] = IF u = t THEN NoJob ELSE job[u]
  BY DEF vars, Stored, ToolInv, JobsApart
<1>2. /\ DOMAIN named' \subseteq DOMAIN named
      /\ \A x \in DOMAIN named' : named'[x] = named[x]
      /\ \A x \in DOMAIN named : x # job[t].id => x \in DOMAIN named'
      /\ job[t].id \in DOMAIN named' => job[t].left = {}
  BY DEF Restrict
<1>3. \A u \in Threads : u # t /\ job[u] # NoJob => job[u].id # job[t].id
  BY DEF ToolInv, JobsApart
<1>4. JobsApart'
  BY <1>1, <1>2, <1>3 DEF ToolInv, JobsApart
<1>5. NamedIssued'
  BY <1>1, <1>2, <1>3 DEF ToolInv, NamedIssued, JobsApart
<1>6. AddedIsNamed'
  <2> SUFFICES ASSUME NEW x \in DOMAIN named', NEW d \in Tasks
               PROVE  d \in tasks[x].deps <=>
                         /\ d \in named'[x]
                         /\ \A u \in Threads : job'[u] # NoJob /\ job'[u].id = x =>
                                                  d \notin job'[u].left
    BY <1>1 DEF AddedIsNamed
  <2>1. /\ x \in DOMAIN named /\ named'[x] = named[x]
        /\ d \in tasks[x].deps <=>
              /\ d \in named[x]
              /\ \A u \in Threads : job[u] # NoJob /\ job[u].id = x => d \notin job[u].left
    BY <1>2 DEF ToolInv, AddedIsNamed
  <2>2. (\A u \in Threads : job'[u] # NoJob /\ job'[u].id = x => d \notin job'[u].left)
          <=> (\A u \in Threads : job[u] # NoJob /\ job[u].id = x => d \notin job[u].left)
    <3>1. job[t].id = x => d \notin job[t].left
      BY <1>2
    <3> QED
      BY <3>1, <1>1
  <2> QED
    BY <2>1, <2>2
<1>7. Apart'
  BY <1>1, StaysApart DEF ToolInv
<1> QED
  BY <1>4, <1>5, <1>6, <1>7 DEF ToolInv

LEMMA ToolStepKeeps ==
  ASSUME ToolInv, [ToolNext]_toolVars
  PROVE  ToolInv'
<1>1. ASSUME NEW t \in Threads, CallCreate(t)
      PROVE  ToolInv'
  <2>1. [Next]_vars
    BY <1>1 DEF CallCreate, Next, Operation
  <2> QED
    BY <2>1, <1>1, TypeStep, CallCreateKeeps DEF ToolInv
<1>2. ASSUME NEW t \in Threads, CreateDependency(t)
      PROVE  ToolInv'
  <2>1. PICK dep \in Names \ {Garbled} : Name(t, dep)
    BY <1>2 DEF CreateDependency
  <2>2. job[t].id \in Tasks /\ job[t] # NoJob /\ named' = named
    BY <1>2 DEF CreateDependency, ToolInv, JobsApart, Jobs
  <2>3. [Next]_vars
    <3>1. AddDependency(t, job[t].id, dep) => dep \in Tasks
      BY DEF AddDependency, MayDepend, ToolInv, TypeOK
    <3> QED
      BY <2>1, <2>2, <3>1 DEF Name, Next, Operation
  <2> QED
    BY <2>1, <2>2, <2>3, TypeStep, NameKeeps DEF ToolInv
<1>3. ASSUME NEW t \in Threads, CreateThrows(t) \/ CreateAnswer(t)
      PROVE  ToolInv'
  <2>1. job[t] # NoJob /\ UNCHANGED vars /\ job' = [job EXCEPT ![t] = NoJob]
    BY <1>3 DEF CreateThrows, CreateAnswer
  <2>2. \/ job[t].left = {} /\ named' = named
        \/ named' = Restrict(named, DOMAIN named \ {job[t].id})
    BY <1>3 DEF CreateThrows, CreateAnswer
  <2>3. TypeOK'
    BY <2>1, TypeStep DEF ToolInv
  <2> QED
    BY <2>1, <2>2, <2>3, EndKeeps
<1>4. ASSUME NEW t \in Threads, TaskAssign(t) \/ TaskUpdateStatus(t)
      PROVE  ToolInv'
  <2>1. PICK id \in Tasks : AssignTask(t, id) \/ \E s \in Statuses : SetStatus(t, id, s)
    BY <1>4 DEF TaskAssign, TaskUpdateStatus
  <2>2. job' = job /\ named' = named
    BY <1>4 DEF TaskAssign, TaskUpdateStatus
  <2>3. TypeOK'
    BY <2>1, TypeStep DEF Next, Operation, ToolInv
  <2>4. /\ issued' = issued /\ Stored' = Stored
        /\ \A x \in issued : tasks'[x].deps = tasks[x].deps
    <3>1. PICK s : tasks' = [tasks EXCEPT ![id] = [tasks[id] EXCEPT !.status = s]]
      BY <2>1 DEF AssignTask, SetStatus, Rewrite
    <3>2. issued' = issued /\ Stored' = Stored
      BY <2>1, <3>1 DEF AssignTask, SetStatus, Rewrite, Stored
    <3>3. tasks \in [issued -> [status : Statuses, deps : SUBSET issued]]
      BY DEF ToolInv, JobsApart, TypeOK
    <3> QED
      BY <3>1, <3>2, <3>3
  <2> QED
    BY <2>2, <2>3, <2>4, QuietToolStep
<1>5. ASSUME NEW t \in Threads, Listener(t)
      PROVE  ToolInv'
  <2>1. TypeOK'
    BY <1>5, TypeStep DEF Listener, Next, ToolInv
  <2> QED
    BY <1>5, <2>1, QuietToolStep DEF Listener, Notify, Stored
<1>6. CASE UNCHANGED toolVars
  <2>1. TypeOK'
    BY <1>6, TypeStep DEF toolVars, vars, ToolInv
  <2> QED
    BY <1>6, <2>1, QuietToolStep DEF toolVars, Stored
<1> QED
  BY <1>1, <1>2, <1>3, <1>4, <1>5, <1>6 DEF ToolNext, ThreadStep

(* The tools keep their invariant. *)
LEMMA ToolInvariant == ToolSpec => []ToolInv
<1>1. ToolInit => ToolInv
  BY DEF ToolInit, Init, ToolInv, TypeOK, Stored, JobsApart, NamedIssued, AddedIsNamed, Apart
<1>2. ToolInv /\ [ToolNext]_toolVars => ToolInv'
  BY ToolStepKeeps
<1> QED
  BY <1>1, <1>2, PTL DEF ToolSpec

(* Whatever task_create calls overlap, a task that was answered depends on  *)
(* all that its creator named and that exists: nothing named is refused.   *)
THEOREM AnswersAreKept == ToolSpec => []AnsweredAsNamed
<1>1. ToolInv => AnsweredAsNamed
  <2> SUFFICES ASSUME ToolInv, NEW x \in DOMAIN named \ InFlight
               PROVE  tasks[x].deps = named[x] \cap Stored
    BY DEF AnsweredAsNamed
  <2>1. \A t \in Threads : job[t] # NoJob => job[t].id # x
    BY DEF InFlight
  <2>2. /\ Stored = issued /\ issued \subseteq Tasks /\ named[x] \cap Tasks \subseteq issued
        /\ x \in Stored /\ tasks[x].deps \subseteq Tasks
    BY DEF ToolInv, JobsApart, NamedIssued, TypeOK
  <2>3. \A d \in Tasks : d \in tasks[x].deps <=> d \in named[x]
    BY <2>1 DEF ToolInv, AddedIsNamed
  <2> QED
    BY <2>2, <2>3
<1> QED
  BY <1>1, ToolInvariant, PTL

-----------------------------------------------------------------------------
(* A step of a tool is an operation of the store, or leaves it alone: what  *)
(* a request calls a dependency and is none never gets into the store.     *)
LEMMA ToolStepIsStoreStep ==
  ASSUME ToolInv, [ToolNext]_toolVars
  PROVE  [Next]_vars
<1>1. ASSUME NEW t \in Threads, CreateDependency(t)
      PROVE  [Next]_vars
  <2>1. job[t].id \in Tasks
    BY <1>1 DEF CreateDependency, ToolInv, JobsApart, Jobs
  <2>2. PICK dep \in Names \ {Garbled} : Name(t, dep)
    BY <1>1 DEF CreateDependency
  <2>3. ASSUME AddDependency(t, job[t].id, dep)
        PROVE  Next
    <3>1. dep \in Tasks
      BY <2>3 DEF AddDependency, MayDepend, ToolInv, TypeOK
    <3> QED
      BY <2>1, <2>3, <3>1 DEF Next, Operation
  <2> QED
    BY <2>2, <2>3 DEF Name
<1>2. ASSUME NEW t \in Threads, CallCreate(t)
      PROVE  Next
  BY <1>2 DEF CallCreate, Next, Operation
<1>3. ASSUME NEW t \in Threads, TaskAssign(t) \/ TaskUpdateStatus(t) \/ Listener(t)
      PROVE  Next
  BY <1>3 DEF TaskAssign, TaskUpdateStatus, Listener, Next, Operation
<1>4. ASSUME NEW t \in Threads, CreateThrows(t) \/ CreateAnswer(t)
      PROVE  UNCHANGED vars
  BY <1>4 DEF CreateThrows, CreateAnswer
<1>5. CASE UNCHANGED toolVars
  BY <1>5 DEF toolVars, vars
<1> QED
  BY <1>1, <1>2, <1>3, <1>4, <1>5 DEF ToolNext, ThreadStep

(* The tools implement the store: whatever handlers run at once and        *)
(* wherever one of them throws, what they do to the store is a behaviour   *)
(* of its operations, so its dependencies never form a cycle and pending   *)
(* work never stops with every agent waiting for another.                  *)
THEOREM ToolsImplementStore ==
  ToolSpec => Spec /\ []NoCircularWait /\ []ReadyUnlessHeld
<1>1. ToolInit => Init
  BY DEF ToolInit
<1>2. ToolSpec => Spec
  BY <1>1, ToolInvariant, ToolStepIsStoreStep, PTL DEF ToolSpec, Spec
<1> QED
  BY <1>2, CircularWaitFree, WorkKeepsMoving, PTL
=============================================================================
