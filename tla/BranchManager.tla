--------------------------- MODULE BranchManager ---------------------------
(***************************************************************************)
(* The task branches of the server (git/branch_manager.cpp): a registry of *)
(* the branches it created, behind a shared_mutex, next to the repository  *)
(* itself.  create_branch and commit_changes run several git commands and  *)
(* hold no lock across them, so a call is a record in call[t] that says    *)
(* which command of the call is next.  Agent names, time stamps and the    *)
(* registered callback are left out; a task is its branch, which           *)
(* make_branch_name derives from the task's id.                            *)
(***************************************************************************)
EXTENDS GitRepo

CONSTANTS
    Threads,    \* the threads that call the branch manager
    Idle        \* a thread that runs no call

States == {"active", "merged", "abandoned", "locked"}

Calls == [pc : {"create", "register"}, branch : Branches, base : Names]
           \cup [pc : {"checkout", "add", "commit"}, branch : Names, base : Names]

ASSUME IdleAssumption == Idle \notin Calls

VARIABLES
    branches,   \* branches_: per registered branch its state and base
    call        \* per thread, the call it runs

branchVars == <<gitVars, branches, call>>

Registered == DOMAIN branches

BranchInfo == [state : States, base : Names]

BranchTypeOK ==
    /\ GitTypeOK
    /\ Registered \subseteq Branches
    /\ branches \in [Registered -> BranchInfo]
    /\ call \in [Threads -> {Idle} \cup Calls]

BranchInit ==
    /\ GitInit
    /\ branches = [b \in {} |-> [state |-> "active", base |-> Main]]
    /\ call = [t \in Threads |-> Idle]

-----------------------------------------------------------------------------
At(t, pc) == call[t] # Idle /\ call[t].pc = pc

Go(t, pc) == call' = [call EXCEPT ![t].pc = pc]

Return(t) == call' = [call EXCEPT ![t] = Idle]

(* The next command of t's call: if it succeeds the call goes on at pc; if *)
(* it fails, or is killed before or after it took effect, the call returns *)
(* false and leaves things as they are.                                    *)
Step(t, command, pc) ==
    \/ command /\ Go(t, pc)
    \/ (command \/ CommandFails) /\ Return(t)

(* create_branch: the base is the name the caller gives, or what HEAD is on *)
(* now; it is not looked up.                                               *)
CallCreate(t, b, base) ==
    /\ call[t] = Idle
    /\ call' = [call EXCEPT ![t] = [pc |-> "create", branch |-> b, base |-> base]]
    /\ UNCHANGED <<gitVars, branches>>

(* The base is recorded; git is not told of it.                            *)
CreateCheckoutUnchecked(t) ==
    /\ At(t, "create")
    /\ CheckoutNew(call[t].branch) \/ CommandFails
    /\ Go(t, "register")
    /\ UNCHANGED branches
CreateCheckout(t) ==
    /\ At(t, "create")
    /\ Step(t, CheckoutNew(call[t].branch), "register")
    /\ UNCHANGED branches

CreateRegister(t) ==
    /\ At(t, "register")
    /\ LET b == call[t].branch
           info == [state |-> "active", base |-> call[t].base]
       IN  branches' = [x \in Registered \cup {b} |->
                           IF x = b THEN info ELSE branches[x]]
    /\ Return(t)
    /\ UNCHANGED gitVars

(* commit_changes: any name, registered or not, of a branch or not.        *)
CallCommit(t, n) ==
    /\ call[t] = Idle
    /\ call' = [call EXCEPT ![t] = [pc |-> "checkout", branch |-> n, base |-> n]]
    /\ UNCHANGED <<gitVars, branches>>

CommitCheckoutIgnored(t) ==
    /\ At(t, "checkout")
    /\ \/ Checkout(call[t].branch) /\ Go(t, "add")
       \/ CommandFails /\ Go(t, "add")
    /\ UNCHANGED branches
CommitCheckout(t) ==
    /\ At(t, "checkout")
    /\ Step(t, Checkout(call[t].branch), "add")
    /\ UNCHANGED branches

CommitAdd(t) ==
    /\ At(t, "add")
    /\ Step(t, AddAll, "commit")
    /\ UNCHANGED branches

CommitCommit(t) ==
    /\ At(t, "commit")
    /\ Commit \/ CommandFails
    /\ Return(t)
    /\ UNCHANGED branches

(* lock_branch, unlock_branch, mark_merged and mark_abandoned set the state *)
(* of a registered branch whatever it was.                                 *)
SetState(b, state) ==
    /\ b \in Registered
    /\ branches' = [branches EXCEPT ![b].state = state]

ChangeState(t, b, state) ==
    /\ call[t] = Idle
    /\ SetState(b, state)
    /\ UNCHANGED <<gitVars, call>>

(* What people and agents do to the repository by themselves. *)
Environment ==
    /\ Repair \/ \E c \in Changes : Edit(c)
    /\ UNCHANGED <<branches, call>>

BranchStep(t) ==
    \/ \E b \in Branches, base \in Names : CallCreate(t, b, base)
    \/ CreateCheckout(t)
    \/ CreateRegister(t)
    \/ \E n \in Names : CallCommit(t, n)
    \/ CommitCheckout(t)
    \/ CommitAdd(t)
    \/ CommitCommit(t)
    \/ \E b \in Branches, state \in States : ChangeState(t, b, state)

BranchNext == Environment \/ \E t \in Threads : BranchStep(t)

BranchSpec == BranchInit /\ [][BranchNext]_branchVars

-----------------------------------------------------------------------------
(* A branch the registry knows, or is about to, exists in git: the registry *)
(* is written in a later step than the repository, and by another thread's *)
(* order of steps, but never gets ahead of it.                             *)
RegistryMatchesGit ==
    /\ Registered \subseteq Existing
    /\ \A t \in Threads : At(t, "register") => call[t].branch \in Existing

(* git creates a branch once, so a second create_branch for the same task  *)
(* can never overwrite a registered branch and with it the branch's lock,  *)
(* its merged mark or its base, even if two calls race.                    *)
RegisteredOnce ==
    /\ Registered \cap {call[t].branch : t \in {u \in Threads : At(u, "register")}} = {}
    /\ \A t, u \in Threads :
          At(t, "register") /\ At(u, "register") /\ call[t].branch = call[u].branch
             => t = u

(* "Branch created: {} from {base}" (branch_manager.cpp:73): a registered   *)
(* branch started from the base recorded for it, if there is such a branch. *)
ForksFromBase ==
    \A b \in Registered :
        branches[b].base \in Existing => origin[b] = branches[b].base
=============================================================================
