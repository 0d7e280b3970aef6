-------------------------- MODULE MergeCoordinator --------------------------
(***************************************************************************)
(* The merge requests of the server (git/merge_coordinator.cpp), composed  *)
(* with the branch manager and the repository they share.  execute_merge   *)
(* reads the request under the lock, releases the lock, runs the git       *)
(* commands of the request's strategy, takes the lock again to settle the  *)
(* status, and last marks the source branch merged.  exec[t] says where    *)
(* thread t is in that.  Requester, reviewer and the reason text are left  *)
(* out, and requests are never removed.                                    *)
(***************************************************************************)
EXTENDS BranchManager

CONSTANT Requests   \* the ids generate_uuid can hand out to requests

Strategies == {"merge", "rebase", "squash"}
Statuses == {"pending", "approved", "rejected", "completed", "failed"}

Request == [source : Names, target : Names,
            strategy : Strategies, status : Statuses]

(* The git commands still to run, "settle" when perform_merge returned     *)
(* (ok is its result), "mark" when the status is set.                      *)
Commands == {"to target", "to source", "rebase", "back to target", "merge",
             "merge --no-ff", "squash", "add", "commit"}

Execs == [id : Requests, pc : Commands \cup {"settle", "mark"}, ok : BOOLEAN]

ASSUME IdleExecAssumption == Idle \notin Execs

VARIABLES
    requests,   \* requests_, by id
    exec,       \* per thread, the execute_merge it runs, or Idle
    held        \* history: per request, what its source, if a branch, held
                \* when perform_merge last returned true

mergeVars == <<gitVars, branches, call, requests, exec, held>>

Made == DOMAIN requests

MergeTypeOK ==
    /\ BranchTypeOK
    /\ Made \subseteq Requests
    /\ requests \in [Made -> Request]
    /\ exec \in [Threads -> {Idle} \cup Execs]
    /\ held \in [Requests -> SUBSET Changes]

MergeInit ==
    /\ BranchInit
    /\ requests = [r \in {} |-> [source |-> Main, target |-> Main,
                                 strategy |-> "merge", status |-> "pending"]]
    /\ exec = [t \in Threads |-> Idle]
    /\ held = [r \in Requests |-> {}]

-----------------------------------------------------------------------------
Free(t) == call[t] = Idle /\ exec[t] = Idle

Quiet == UNCHANGED <<gitVars, branches, call, held>>

(* request_merge: any two names; nothing says they must be branches.       *)
RequestMerge(t, r, source, target, strategy) ==
    /\ Free(t)
    /\ r \notin Made
    /\ LET new == [source |-> source, target |-> target,
                   strategy |-> strategy, status |-> "pending"]
       IN  requests' = [x \in Made \cup {r} |-> IF x = r THEN new ELSE requests[x]]
    /\ Quiet
    /\ UNCHANGED exec

(* auto_merge_completed_tasks: a squash request into its base for each     *)
(* active branch with changes that its base has not.  A base that is not    *)
(* the name of a commit gives no difference.  One request is one turn of    *)
(* its loop; the turns share no lock.                                      *)
AutoMerge(t, r, b) ==
    /\ b \in Registered
    /\ branches[b].state = "active"
    /\ \E C \in Holds(branches[b].base) : ~(tip[b] \subseteq C)
    /\ RequestMerge(t, r, b, branches[b].base, "squash")

(* approve_merge and reject_merge: only a pending request. *)
ReviewAnyTime(t, r, status) ==
    /\ Free(t)
    /\ r \in Made
    /\ requests' = [requests EXCEPT ![r].status = status]
    /\ Quiet
    /\ UNCHANGED exec
Review(t, r, status) ==
    /\ Free(t)
    /\ r \in Made
    /\ requests[r].status = "pending"
    /\ requests' = [requests EXCEPT ![r].status = status]
    /\ Quiet
    /\ UNCHANGED exec

(* execute_merge up to the release of the lock. *)
ExecuteUnapproved(t, r) ==
    /\ Free(t)
    /\ r \in Made
    /\ exec' = [exec EXCEPT ![t] = [id |-> r, pc |-> "to target", ok |-> FALSE]]
    /\ Quiet
    /\ UNCHANGED requests
Execute(t, r) ==
    /\ Free(t)
    /\ r \in Made
    /\ requests[r].status = "approved"
    /\ exec' = [exec EXCEPT ![t] = [id |-> r, pc |-> "to target", ok |-> FALSE]]
    /\ Quiet
    /\ UNCHANGED requests

-----------------------------------------------------------------------------
(* perform_merge *)

Running(t, pc) == exec[t] # Idle /\ exec[t].pc = pc

Source(t) == requests[exec[t].id].source
Target(t) == requests[exec[t].id].target
Strategy(t) == requests[exec[t].id].strategy

Proceed(t, pc) ==
    /\ exec' = [exec EXCEPT ![t].pc = pc]
    /\ UNCHANGED held

(* perform_merge returns; true says that the target holds the source now.  *)
Succeed(t) ==
    /\ exec' = [exec EXCEPT ![t].pc = "settle", ![t].ok = TRUE]
    /\ held' = [held EXCEPT ![exec[t].id] = IF Source(t) \in Existing THEN tip[Source(t)] ELSE {}]
Fail(t) ==
    /\ exec' = [exec EXCEPT ![t].pc = "settle", ![t].ok = FALSE]
    /\ UNCHANGED held

AfterTarget(t) ==
    CASE Strategy(t) = "merge"  -> "merge --no-ff"
      [] Strategy(t) = "rebase" -> "to source"
      [] Strategy(t) = "squash" -> "squash"

(* The next command of perform_merge: it goes on at pc if the command       *)
(* succeeds, and returns false if it fails or is killed, before or after   *)
(* the effect.                                                             *)
Command(t, effect, pc) ==
    \/ effect /\ Proceed(t, pc)
    \/ (effect \/ CommandFails) /\ Fail(t)

(* The last command: its result is perform_merge's.                        *)
LastCommand(t, effect) ==
    \/ effect /\ Succeed(t)
    \/ (effect \/ CommandFails) /\ Fail(t)

ToTarget(t) ==
    /\ Running(t, "to target")
    /\ Command(t, Checkout(Target(t)), AfterTarget(t))

MergeNoFf(t) ==
    /\ Running(t, "merge --no-ff")
    /\ \/ LastCommand(t, Merge(Source(t)))
       \/ MergeStops(Source(t), "merge") /\ Fail(t)

ToSource(t) ==
    /\ Running(t, "to source")
    /\ Command(t, Checkout(Source(t)), "rebase")

RebaseSource(t) ==
    /\ Running(t, "rebase")
    /\ \/ Command(t, Rebase(Target(t)), "back to target")
       \/ RebaseStops(Target(t)) /\ Fail(t)

BackToTargetSkipped(t) ==
    /\ Running(t, "back to target")
    /\ CommandFails /\ Proceed(t, "merge")
BackToTarget(t) ==
    /\ Running(t, "back to target")
    /\ Command(t, Checkout(Target(t)), "merge")

MergeRebased(t) ==
    /\ Running(t, "merge")
    /\ \/ LastCommand(t, Merge(Source(t)))
       \/ MergeStops(Source(t), "merge") /\ Fail(t)

SquashIgnoresStop(t) ==
    /\ Running(t, "squash")
    /\ \/ Command(t, MergeSquash(Source(t)), "add")
       \/ MergeStops(Source(t), "none") /\ Proceed(t, "add")
Squash(t) ==
    /\ Running(t, "squash")
    /\ \/ Command(t, MergeSquash(Source(t)), "add")
       \/ MergeStops(Source(t), "none") /\ Fail(t)

SquashAdd(t) ==
    /\ Running(t, "add")
    /\ Command(t, AddAll, "commit")

SquashCommit(t) ==
    /\ Running(t, "commit")
    /\ LastCommand(t, Commit)

Perform(t) ==
    /\ \/ ToTarget(t) \/ MergeNoFf(t)
       \/ ToSource(t) \/ RebaseSource(t) \/ BackToTarget(t) \/ MergeRebased(t)
       \/ Squash(t) \/ SquashAdd(t) \/ SquashCommit(t)
    /\ UNCHANGED <<branches, call, requests>>

-----------------------------------------------------------------------------
(* execute_merge after perform_merge: the status is set whatever it is now, *)
(* and outside the lock the source branch is marked merged.                *)
Settle(t) ==
    /\ Running(t, "settle")
    /\ requests' = [requests EXCEPT ![exec[t].id].status =
                       IF exec[t].ok THEN "completed" ELSE "failed"]
    /\ exec' = IF exec[t].ok THEN [exec EXCEPT ![t].pc = "mark"]
                             ELSE [exec EXCEPT ![t] = Idle]
    /\ Quiet

Mark(t) ==
    /\ Running(t, "mark")
    /\ IF Source(t) \in Registered THEN SetState(Source(t), "merged")
                                   ELSE UNCHANGED branches
    /\ exec' = [exec EXCEPT ![t] = Idle]
    /\ UNCHANGED <<gitVars, call, requests, held>>

MergeStep(t) ==
    \/ \E r \in Requests, s, g \in Names, strategy \in Strategies :
          RequestMerge(t, r, s, g, strategy)
    \/ \E r \in Requests, b \in Branches : AutoMerge(t, r, b)
    \/ \E r \in Requests : Review(t, r, "approved") \/ Review(t, r, "rejected")
    \/ \E r \in Requests : Execute(t, r)
    \/ Perform(t)
    \/ Settle(t)
    \/ Mark(t)

(* The branch manager's calls, made by threads that run no execute_merge.  *)
BranchCall(t) ==
    /\ exec[t] = Idle
    /\ BranchStep(t)
    /\ UNCHANGED <<requests, exec, held>>

MergeNext ==
    \/ Environment /\ UNCHANGED <<requests, exec, held>>
    \/ \E t \in Threads : MergeStep(t) \/ BranchCall(t)

MergeSpec == MergeInit /\ [][MergeNext]_mergeVars

-----------------------------------------------------------------------------
(* Only a reviewed and approved request is ever run, and while it runs it   *)
(* cannot be rejected: execute_merge acts on a status it read before it    *)
(* let go of the lock, and that status cannot have turned into pending or  *)
(* rejected.                                                               *)
OnlyApprovedRuns ==
    \A t \in Threads :
        exec[t] # Idle =>
            /\ exec[t].id \in Made
            /\ requests[exec[t].id].status \in {"approved", "completed", "failed"}

(* A request is reviewed once: it leaves "pending" for good, a rejected one *)
(* stays rejected, and none but an approved one is ever completed or       *)
(* failed, whatever threads review and run it at the same time.            *)
ReviewedOnce ==
    [][\A r \in Made :
          requests'[r] # requests[r] =>
             \/ requests[r].status = "pending"
                  /\ requests'[r].status \in {"approved", "rejected"}
             \/ requests[r].status \in {"approved", "completed", "failed"}
                  /\ requests'[r].status \in {"completed", "failed"}]_mergeVars

(* The rest holds of calls that do not overlap: each returns before the     *)
(* next is made, by whatever thread.                                       *)
InTurn == \A t, u \in Threads : Free(t) \/ Free(u) \/ t = u

TurnSpec == MergeInit /\ [][MergeNext /\ InTurn']_mergeVars

(* And some of it only if commit_changes is told names of branches.  Given  *)
(* the name of a file it stays where it is, on a conflict that waits there  *)
(* too, and takes it for resolved.                                         *)
CommitsAreNamed ==
    \A t \in Threads : call[t] # Idle => call[t].branch \in Branches

NamedSpec == MergeInit /\ [][MergeNext /\ InTurn' /\ CommitsAreNamed']_mergeVars

(* "Execute an approved merge request" (tools.cpp:432): a request that was  *)
(* run is not approved any more, so its outcome stays what it was.         *)
OutcomeStays ==
    \A r \in Made :
        requests[r].status \in {"completed", "failed"}
           => requests'[r].status = requests[r].status

(* The call that t is in was told to work on b; told a name that is no      *)
(* branch, it works on whatever branch HEAD is on.                         *)
ToldTo(t, b) ==
    LET n == IF call[t] # Idle THEN call[t].branch
             ELSE IF exec[t].pc = "rebase" THEN Source(t) ELSE Target(t)
    IN  n \in Branches => n = b

(* "Committed on {branch}" (branch_manager.cpp:169), "merged successfully": *)
(* a commit lands where the call that makes it was told to put it,          *)
(* commit_changes on the branch it names, a merge on its target, a rebase  *)
(* on its source, though every command works on whatever branch HEAD is on. *)
(* A branch that no call under way was told to change moves only if one was *)
(* told a name that git checkout takes and that is not a branch.           *)
CommitsLand ==
    \A b \in Existing :
        tip'[b] # tip[b] =>
           \E t \in Threads :
              /\ \/ At(t, "commit") /\ call'[t] = Idle
                 \/ exec[t] # Idle /\ exec'[t] # exec[t]
              /\ ToldTo(t, b)

(* A completed request's target, if it is to be a branch, is one, and holds *)
(* what its source held when the merge returned: "merged successfully"      *)
(* (merge_coordinator.cpp:114).                                            *)
CompletedIsHeld ==
    \A r \in Made :
        requests[r].status = "completed" /\ requests[r].target \in Branches
           => /\ requests[r].target \in Existing
              /\ held[r] \subseteq tip[requests[r].target]

(* "Serialize git commands to prevent working tree corruption"              *)
(* (git_operations.hpp:62): no branch gets a commit with conflict markers.  *)
NothingDamaged == damaged = {}
=============================================================================
