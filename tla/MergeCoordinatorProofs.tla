----------------------- MODULE MergeCoordinatorProofs -----------------------
(***************************************************************************)
(* Proofs about the branch registry and the merge requests, for every set  *)
(* of branches, changes, threads and requests, and whatever git does.      *)
(*                                                                         *)
(* The registry and git are two stores changed in separate steps of        *)
(* create_branch; they agree because git itself refuses to create a branch *)
(* twice, and because a call that got its branch from git holds a claim on *)
(* it until it has registered it.                                          *)
(*                                                                         *)
(* execute_merge lets go of the lock between reading the status and        *)
(* setting it; the invariant that carries the argument is that no thread   *)
(* ever runs a request whose status went anywhere but to an outcome since. *)
(* The registry's agreement with git survives the merges.                  *)
(*                                                                         *)
(* Of calls in turn, TurnInv says where the one call under way stands: if   *)
(* it was told the name of a branch, HEAD is on the branch that its next   *)
(* command is meant for.  NamedInv adds, of calls of commit_changes that    *)
(* name branches, that no conflict waits where something is committed, and *)
(* that what is staged or on the target makes up what a run merges.        *)
(* People can edit meanwhile, but repair only what is stopped.             *)
(***************************************************************************)
EXTENDS MCMergeCoordinator, TLAPS

(* Every command of git keeps the repository's types. *)
LEMMA StagingTypes ==
  ASSUME GitTypeOK,
         \/ CommandFails \/ AddAll \/ Commit \/ Repair
         \/ \E c \in Changes : Edit(c)
  PROVE  GitTypeOK' /\ Existing' = Existing
<1> USE MainAssumption DEF GitTypeOK, Existing
<1>1. CASE CommandFails
  BY <1>1 DEF CommandFails, gitVars
<1>2. CASE AddAll
  BY <1>2 DEF AddAll
<1>3. CASE Commit
  BY <1>3 DEF Commit, Advance
<1>4. CASE Repair
  BY <1>4 DEF Repair
<1>5. CASE \E c \in Changes : Edit(c)
  BY <1>5 DEF Edit
<1> QED
  BY <1>1, <1>2, <1>3, <1>4, <1>5

(* What a name or HEAD stands for is made of changes. *)
LEMMA HoldsTypes ==
  ASSUME GitTypeOK, NEW n \in Names
  PROVE  /\ HeadTip \in SUBSET Changes
         /\ Commits \subseteq SUBSET Changes
         /\ Holds(n) \subseteq SUBSET Changes
<1> USE DEF GitTypeOK, Existing
<1>1. HeadTip \in SUBSET Changes
  BY DEF HeadTip
<1>2. \A b \in Existing : tip[b] \in SUBSET Changes
  OBVIOUS
<1>3. Commits \subseteq SUBSET Changes
  BY <1>2 DEF Commits
<1> QED
  BY <1>1, <1>2, <1>3 DEF Holds

LEMMA MergingTypes ==
  ASSUME GitTypeOK, NEW n \in Names,
         \/ Merge(n) \/ MergeSquash(n) \/ Rebase(n) \/ RebaseStops(n)
         \/ \E wait \in {"none", "merge"} : MergeStops(n, wait)
  PROVE  GitTypeOK' /\ Existing' = Existing
<1>1. HeadTip \in SUBSET Changes /\ Holds(n) \subseteq SUBSET Changes
  BY HoldsTypes
<1> USE MainAssumption DEF GitTypeOK, Existing
<1>2. ASSUME NEW C \in SUBSET Changes, Advance(C)
      PROVE  /\ tip' \in [Existing -> SUBSET Changes] /\ Existing' = Existing
             /\ loose' \in SUBSET Changes
  BY <1>2 DEF Advance
<1>3. CASE Merge(n) \/ Rebase(n)
  <2>1. PICK C \in Holds(n) : Advance(C)
    BY <1>3 DEF Merge, Rebase
  <2>2. /\ tip' \in [Existing -> SUBSET Changes] /\ Existing' = Existing
        /\ loose' \in SUBSET Changes
    BY <1>1, <1>2, <2>1
  <2> QED
    BY <1>3, <2>2 DEF Merge, Rebase
<1>4. CASE MergeSquash(n)
  BY <1>1, <1>4 DEF MergeSquash
<1>5. CASE RebaseStops(n)
  BY <1>1, <1>5 DEF RebaseStops
<1>6. CASE \E wait \in {"none", "merge"} : MergeStops(n, wait)
  BY <1>1, <1>6 DEF MergeStops
<1> QED
  BY <1>3, <1>4, <1>5, <1>6

LEMMA StartTypes ==
  ASSUME GitTypeOK, NEW b \in Branches, NEW C \in SUBSET Changes, Start(b, C)
  PROVE  GitTypeOK' /\ Existing' = Existing \cup {b}
<1> USE DEF GitTypeOK, Existing
<1>1. tip' = [x \in Existing \cup {b} |-> IF x = b THEN C ELSE tip[x]]
  BY DEF Start
<1>2. tip' \in [Existing \cup {b} -> SUBSET Changes] /\ Existing' = Existing \cup {b}
  BY <1>1
<1>3. origin' \in [Existing \cup {b} -> Names]
  BY DEF Start, Names
<1> QED
  BY <1>2, <1>3 DEF Start, ForgetMerge

LEMMA CreationTypes ==
  ASSUME GitTypeOK, NEW b \in Branches, CheckoutNew(b)
  PROVE  GitTypeOK' /\ b \notin Existing /\ Existing' = Existing \cup {b}
<1>1. b \in Names
  BY DEF Names
<1>2. HeadTip \in SUBSET Changes
  BY <1>1, HoldsTypes
<1> QED
  BY <1>2, StartTypes DEF CheckoutNew

LEMMA CheckoutTypes ==
  ASSUME GitTypeOK, NEW n \in Names, Checkout(n)
  PROVE  GitTypeOK' /\ Existing \subseteq Existing'
<1>1. Commits \subseteq SUBSET Changes
  BY HoldsTypes
<1>2. ASSUME NEW b, CheckoutBranch(b) PROVE GitTypeOK' /\ Existing' = Existing
  BY <1>2 DEF CheckoutBranch, ForgetMerge, GitTypeOK, Existing
<1>3. CASE CheckoutRemote(n)
  BY <1>1, <1>3, StartTypes DEF CheckoutRemote
<1>4. CASE CheckoutCommit
  BY <1>1, <1>4 DEF CheckoutCommit, ForgetMerge, GitTypeOK, Existing
<1>5. CASE CheckoutFiles
  BY <1>5 DEF CheckoutFiles, GitTypeOK, Existing
<1> QED
  BY <1>2, <1>3, <1>4, <1>5 DEF Checkout

-----------------------------------------------------------------------------
RegistryInv == BranchTypeOK /\ RegistryMatchesGit /\ RegisteredOnce

(* A call that waits to register its branch holds a claim on it.  A step    *)
(* that leaves the registry and the claims alone keeps the agreement.      *)
LEMMA NoNewBranch ==
  ASSUME RegistryInv, Existing \subseteq Existing', Registered' = Registered,
         \A t \in Threads : At(t, "register")' <=> At(t, "register"),
         \A t \in Threads : At(t, "register") => call'[t].branch = call[t].branch
  PROVE  RegistryMatchesGit' /\ RegisteredOnce' 
BY DEF RegistryInv, RegistryMatchesGit, RegisteredOnce

(* A step of a call that is not about to register, that changes the call    *)
(* and the repository, and takes no branch away.                           *)
LEMMA QuietCall ==
  ASSUME RegistryInv, NEW t \in Threads, ~At(t, "register"),
         GitTypeOK', Existing \subseteq Existing', branches' = branches,
         NEW c \in {Idle} \cup Calls, c = Idle \/ c.pc # "register",
         call' = [call EXCEPT ![t] = c]
  PROVE  RegistryInv'
<1>1. call \in [Threads -> {Idle} \cup Calls]
  BY DEF RegistryInv, BranchTypeOK
<1>2. BranchTypeOK' /\ Registered' = Registered
  BY <1>1 DEF RegistryInv, BranchTypeOK, Registered
<1>3. /\ \A u \in Threads : At(u, "register")' <=> At(u, "register")
      /\ \A u \in Threads : At(u, "register") => call'[u].branch = call[u].branch
  BY <1>1 DEF At
<1> QED
  BY <1>2, <1>3, NoNewBranch DEF RegistryInv

(* git created the branch of t's call, which now waits to register it.     *)
LEMMA CreatedClaims ==
  ASSUME RegistryInv, NEW t \in Threads, At(t, "create"),
         CheckoutNew(call[t].branch), Go(t, "register"), branches' = branches
  PROVE  RegistryInv'
<1> DEFINE b == call[t].branch
<1>1. /\ GitTypeOK
      /\ call \in [Threads -> {Idle} \cup Calls]
      /\ call[t] \in Calls /\ b \in Branches
  BY DEF RegistryInv, BranchTypeOK, At, Calls
<1>2. GitTypeOK' /\ b \notin Existing /\ Existing' = Existing \cup {b}
  BY <1>1, CreationTypes
<1>3. [call[t] EXCEPT !.pc = "register"] \in Calls
  BY <1>1 DEF Calls
<1>4. call' = [call EXCEPT ![t] = [call[t] EXCEPT !.pc = "register"]]
  BY DEF Go
<1>5. BranchTypeOK' /\ Registered' = Registered
  BY <1>1, <1>2, <1>3, <1>4 DEF RegistryInv, BranchTypeOK, Registered
<1>6. /\ ~At(t, "register") /\ At(t, "register")' /\ call'[t].branch = b
      /\ \A u \in Threads \ {t} :
            (At(u, "register")' <=> At(u, "register")) /\ call'[u] = call[u]
  BY <1>1, <1>3, <1>4, IdleAssumption DEF At, Calls
<1> HIDE DEF b
<1>7. RegistryMatchesGit'
  BY <1>2, <1>5, <1>6 DEF RegistryInv, RegistryMatchesGit
<1>8. RegisteredOnce'
  <2>1. \A u \in Threads \ {t} : At(u, "register") => call[u].branch # b
    BY <1>2 DEF RegistryInv, RegistryMatchesGit
  <2>2. b \notin Registered
    BY <1>2 DEF RegistryInv, RegistryMatchesGit
  <2> QED
    BY <1>5, <1>6, <2>1, <2>2 DEF RegistryInv, RegisteredOnce
<1> QED
  BY <1>5, <1>7, <1>8 DEF RegistryInv

(* The claimed branch is registered, and with that the claim is gone.      *)
LEMMA RegisteredKeeps ==
  ASSUME RegistryInv, NEW t \in Threads, CreateRegister(t)
  PROVE  RegistryInv'
<1> DEFINE b == call[t].branch
<1> DEFINE info == [state |-> "active", base |-> call[t].base]
<1>1. /\ At(t, "register")
      /\ call \in [Threads -> {Idle} \cup Calls]
      /\ call[t] \in Calls /\ b \in Branches /\ call[t].base \in Names
  BY DEF RegistryInv, BranchTypeOK, At, Calls, CreateRegister
<1>2. branches' = [x \in Registered \cup {b} |-> IF x = b THEN info ELSE branches[x]]
  BY DEF CreateRegister
<1>3. call' = [call EXCEPT ![t] = Idle] /\ tip' = tip
  BY DEF CreateRegister, Return, gitVars
<1>4. info \in BranchInfo
  BY <1>1 DEF BranchInfo, States
<1> HIDE DEF info
<1>5. BranchTypeOK' /\ Registered' = Registered \cup {b}
  <2>1. branches' \in [Registered \cup {b} -> BranchInfo]
    BY <1>2, <1>4 DEF RegistryInv, BranchTypeOK
  <2>2. GitTypeOK'
    BY DEF CreateRegister, gitVars, GitTypeOK, Existing, RegistryInv, BranchTypeOK
  <2> QED
    BY <1>1, <1>2, <1>3, <2>1, <2>2 DEF RegistryInv, BranchTypeOK, Registered
<1>6. /\ ~At(t, "register")'
      /\ \A u \in Threads \ {t} :
            (At(u, "register")' <=> At(u, "register")) /\ call'[u] = call[u]
  BY <1>1, <1>3 DEF At
<1> HIDE DEF b
<1>7. Existing' = Existing
  BY <1>3 DEF Existing
<1>8. b \in Existing
  BY <1>1 DEF RegistryInv, RegistryMatchesGit, b
<1>9. RegistryMatchesGit'
  BY <1>1, <1>5, <1>6, <1>7, <1>8 DEF RegistryInv, RegistryMatchesGit, b
<1>10. RegisteredOnce'
  <2>1. \A u \in Threads \ {t} : At(u, "register") => call[u].branch # b
    BY <1>1 DEF RegistryInv, RegisteredOnce, b
  <2> QED
    BY <1>5, <1>6, <2>1 DEF RegistryInv, RegisteredOnce
<1> QED
  BY <1>5, <1>8, <1>9, <1>10 DEF RegistryInv

-----------------------------------------------------------------------------
(* The marks on a registered branch do not touch the agreement.            *)
LEMMA StateKeeps ==
  ASSUME RegistryInv, NEW b \in Branches, NEW state \in States, SetState(b, state),
         UNCHANGED <<gitVars, call>>
  PROVE  RegistryInv'
<1>1. branches' \in [Registered -> BranchInfo] /\ Registered' = Registered
  BY DEF RegistryInv, BranchTypeOK, SetState, BranchInfo, Registered
<1>2. BranchTypeOK' /\ Existing' = Existing
  BY <1>1 DEF RegistryInv, BranchTypeOK, GitTypeOK, Existing, gitVars
<1> QED
  BY <1>1, <1>2, NoNewBranch DEF RegistryInv, At

LEMMA UnchangedKeeps ==
  ASSUME RegistryInv, UNCHANGED branchVars
  PROVE  RegistryInv'
<1>1. BranchTypeOK' /\ Registered' = Registered /\ Existing' = Existing
  BY DEF RegistryInv, BranchTypeOK, GitTypeOK, Existing, Registered, gitVars, branchVars
<1> QED
  BY <1>1, NoNewBranch DEF RegistryInv, At, branchVars

(* Commands run outside the branch manager.                                *)
LEMMA CommandKeeps ==
  ASSUME RegistryInv, GitTypeOK', Existing \subseteq Existing', UNCHANGED <<branches, call>>
  PROVE  RegistryInv'
<1>1. BranchTypeOK' /\ Registered' = Registered
  BY DEF RegistryInv, BranchTypeOK, Registered
<1> QED
  BY <1>1, NoNewBranch DEF RegistryInv, At

LEMMA StepKeepsRegistry ==
  ASSUME RegistryInv, NEW t \in Threads, BranchStep(t)
  PROVE  RegistryInv'
<1>1. /\ GitTypeOK
      /\ call \in [Threads -> {Idle} \cup Calls]
  BY DEF RegistryInv, BranchTypeOK
<1>2. ASSUME NEW c \in Calls, c.pc # "register", call[t] = Idle,
             call' = [call EXCEPT ![t] = c],
             UNCHANGED <<gitVars, branches>>
      PROVE  RegistryInv'
  <2>1. ~At(t, "register") /\ Existing' = Existing /\ GitTypeOK' /\ branches' = branches
    BY <1>1, <1>2 DEF At, Existing, gitVars, GitTypeOK
  <2> QED
    BY <1>2, <2>1, QuietCall
<1>3. ASSUME NEW pc \in {"create", "checkout", "add", "commit"}, At(t, pc),
             GitTypeOK', Existing \subseteq Existing', branches' = branches,
             \/ Return(t)
             \/ pc # "create" /\ \E next \in {"add", "commit"} : Go(t, next)
      PROVE  RegistryInv'
  <2>1. call[t] \in Calls /\ ~At(t, "register") /\ call[t].pc = pc
    BY <1>1, <1>3 DEF At
  <2>2. CASE Return(t)
    BY <1>3, <2>1, <2>2, QuietCall DEF Return
  <2>3. ASSUME pc # "create", NEW next \in {"add", "commit"}, Go(t, next)
        PROVE  RegistryInv'
    <3>1. [call[t] EXCEPT !.pc = next] \in Calls
      BY <2>1, <2>3 DEF Calls
    <3>2. call' = [call EXCEPT ![t] = [call[t] EXCEPT !.pc = next]]
      BY <2>3 DEF Go
    <3>3. [call[t] EXCEPT !.pc = next].pc # "register"
      BY <2>1 DEF Calls
    <3> QED
      BY <1>3, <2>1, <3>1, <3>2, <3>3, QuietCall
  <2> QED
    BY <1>3, <2>2, <2>3
<1>4. CASE CreateCheckout(t)
  <2>1. CASE (CheckoutNew(call[t].branch) \/ CommandFails) /\ Return(t)
    <3>1. call[t].branch \in Branches
      BY <1>1, <1>4 DEF CreateCheckout, At, Calls
    <3>2. GitTypeOK' /\ Existing \subseteq Existing'
      BY <1>1, <2>1, <3>1, CreationTypes, StagingTypes
    <3> QED
      BY <1>3, <1>4, <2>1, <3>2 DEF CreateCheckout
  <2> QED
    BY <1>4, <2>1, CreatedClaims DEF CreateCheckout, Step
<1>5. CASE CommitCheckout(t)
  <2>1. call[t].branch \in Names
    BY <1>1, <1>5 DEF CommitCheckout, At, Calls, Names
  <2>2. GitTypeOK' /\ Existing \subseteq Existing'
    BY <1>1, <1>5, <2>1, CheckoutTypes, StagingTypes DEF CommitCheckout, Step
  <2> QED
    BY <1>3, <1>5, <2>2 DEF CommitCheckout, Step
<1>6. CASE CommitAdd(t)
  <2>1. GitTypeOK' /\ Existing' = Existing
    BY <1>1, <1>6, StagingTypes DEF CommitAdd, Step
  <2> QED
    BY <1>3, <1>6, <2>1 DEF CommitAdd, Step
<1>7. CASE CommitCommit(t)
  <2>1. GitTypeOK' /\ Existing' = Existing
    BY <1>1, <1>7, StagingTypes DEF CommitCommit
  <2> QED
    BY <1>3, <1>7, <2>1 DEF CommitCommit
<1>8. ASSUME NEW b \in Branches, NEW base \in Names, CallCreate(t, b, base)
      PROVE  RegistryInv'
  <2> DEFINE c == [pc |-> "create", branch |-> b, base |-> base]
  <2>1. c \in Calls /\ c.pc # "register"
    BY DEF Calls
  <2> QED
    BY <1>2, <1>8, <2>1 DEF CallCreate
<1>9. ASSUME NEW n \in Names, CallCommit(t, n)
      PROVE  RegistryInv'
  <2> DEFINE c == [pc |-> "checkout", branch |-> n, base |-> n]
  <2>1. c \in Calls /\ c.pc # "register"
    BY DEF Calls
  <2> QED
    BY <1>2, <1>9, <2>1 DEF CallCommit
<1>10. ASSUME NEW b \in Branches, NEW state \in States, ChangeState(t, b, state)
       PROVE  RegistryInv'
  BY <1>10, StateKeeps DEF ChangeState
<1> QED
  BY <1>4, <1>5, <1>6, <1>7, <1>8, <1>9, <1>10, RegisteredKeeps DEF BranchStep

LEMMA EnvironmentKeepsRegistry ==
  ASSUME RegistryInv, Environment
  PROVE  RegistryInv'
BY StagingTypes, CommandKeeps DEF Environment, RegistryInv, BranchTypeOK

LEMMA StartsRegistered == BranchInit => RegistryInv
BY MainAssumption
   DEF BranchInit, GitInit, RegistryInv, BranchTypeOK, GitTypeOK, Existing, Registered,
       RegistryMatchesGit, RegisteredOnce, At, Calls, Names

(* The registry and git know the same branches, up to Main and the calls   *)
(* that have a branch still to register, and no call ever registers over   *)
(* another's branch.                                                       *)
THEOREM RegistryAgrees ==
  BranchSpec => [](BranchTypeOK /\ RegistryMatchesGit /\ RegisteredOnce)
<1>1. RegistryInv /\ [BranchNext]_branchVars => RegistryInv'
  BY StepKeepsRegistry, EnvironmentKeepsRegistry, UnchangedKeeps DEF BranchNext
<1>2. RegistryInv => BranchTypeOK /\ RegistryMatchesGit /\ RegisteredOnce
  BY DEF RegistryInv
<1> QED
  BY StartsRegistered, <1>1, <1>2, PTL DEF BranchSpec

-----------------------------------------------------------------------------
(* The part of the type invariant the argument needs. *)
RequestTypes ==
    /\ Made \subseteq Requests
    /\ requests \in [Made -> Request]
    /\ exec \in [Threads -> {Idle} \cup Execs]

MergeInv == RegistryInv /\ RequestTypes /\ OnlyApprovedRuns

(* A git command of perform_merge moves its own run on, and nothing else.   *)
LEMMA PerformMoves ==
  ASSUME MergeInv, NEW t \in Threads, Perform(t)
  PROVE  /\ requests' = requests
         /\ exec[t] # Idle
         /\ \E pc \in Commands \cup {"settle"}, ok \in BOOLEAN :
               exec' = [exec EXCEPT ![t].pc = pc, ![t].ok = ok]
<1>1. requests' = requests /\ exec[t] # Idle
  BY DEF Perform, ToTarget, MergeNoFf, ToSource, RebaseSource, BackToTarget,
         MergeRebased, Squash, SquashAdd, SquashCommit, Running
<1>2. exec[t] \in Execs /\ Strategy(t) \in Strategies
  BY <1>1 DEF MergeInv, RequestTypes, OnlyApprovedRuns, Strategy, Request
<1>3. ASSUME NEW pc \in Commands, Proceed(t, pc)
      PROVE  exec' = [exec EXCEPT ![t].pc = pc, ![t].ok = exec[t].ok]
  <2>1. exec' = [exec EXCEPT ![t] = [exec[t] EXCEPT !.pc = pc]]
    BY <1>3 DEF Proceed
  <2>2. [exec[t] EXCEPT !.pc = pc] = [exec[t] EXCEPT !.pc = pc, !.ok = exec[t].ok]
    BY <1>2 DEF Execs
  <2> QED
    BY <2>1, <2>2
<1>4. exec[t].ok \in BOOLEAN
  BY <1>2 DEF Execs
<1>5. AfterTarget(t) \in Commands
  BY <1>2 DEF AfterTarget, Strategies, Commands
<1>6. (\E pc \in Commands : Proceed(t, pc)) \/ Succeed(t) \/ Fail(t)
  <2>1. CASE ToTarget(t)
    BY <1>5, <2>1 DEF ToTarget, Command
  <2>2. CASE ToSource(t) \/ RebaseSource(t) \/ BackToTarget(t)
    BY <2>2 DEF ToSource, RebaseSource, BackToTarget, Command, Commands
  <2>3. CASE MergeNoFf(t) \/ MergeRebased(t)
    BY <2>3 DEF MergeNoFf, MergeRebased, LastCommand
  <2>4. CASE Squash(t) \/ SquashAdd(t) \/ SquashCommit(t)
    BY <2>4 DEF Squash, SquashAdd, SquashCommit, Command, LastCommand, Commands
  <2> QED
    BY <2>1, <2>2, <2>3, <2>4 DEF Perform
<1> QED
  BY <1>1, <1>3, <1>4, <1>6 DEF Succeed, Fail

(* ... and the repository keeps its types, and what branches it has.       *)
LEMMA PerformKeepsRegistry ==
  ASSUME MergeInv, NEW t \in Threads, Perform(t)
  PROVE  RegistryInv'
<1>1. GitTypeOK
  BY DEF MergeInv, RegistryInv, BranchTypeOK
<1>2. Source(t) \in Names /\ Target(t) \in Names
  <2>1. exec[t].id \in Made
    BY PerformMoves DEF MergeInv, OnlyApprovedRuns
  <2> QED
    BY <2>1 DEF MergeInv, RequestTypes, Request, Source, Target
<1>3. GitTypeOK' /\ Existing \subseteq Existing'
  <2>1. CASE ToTarget(t) \/ BackToTarget(t)
    BY <1>1, <1>2, <2>1, CheckoutTypes, StagingTypes DEF ToTarget, BackToTarget, Command
  <2>2. CASE ToSource(t)
    BY <1>1, <1>2, <2>2, CheckoutTypes, StagingTypes DEF ToSource, Command
  <2>3. CASE RebaseSource(t)
    BY <1>1, <1>2, <2>3, MergingTypes, StagingTypes DEF RebaseSource, Command
  <2>4. CASE MergeNoFf(t) \/ MergeRebased(t)
    BY <1>1, <1>2, <2>4, MergingTypes, StagingTypes DEF MergeNoFf, MergeRebased, LastCommand
  <2>5. CASE Squash(t)
    BY <1>1, <1>2, <2>5, MergingTypes, StagingTypes DEF Squash, Command
  <2>6. CASE SquashAdd(t) \/ SquashCommit(t)
    BY <1>1, <2>6, StagingTypes DEF SquashAdd, SquashCommit, Command, LastCommand
  <2> QED
    BY <2>1, <2>2, <2>3, <2>4, <2>5, <2>6 DEF Perform
<1> QED
  BY <1>3, CommandKeeps DEF Perform, MergeInv

(* The approval part of the invariant, over the requests and the runs.     *)
LEMMA StepKeepsApproval ==
  ASSUME MergeInv, [MergeNext]_mergeVars
  PROVE  RequestTypes' /\ OnlyApprovedRuns'
<1> USE IdleExecAssumption DEF RequestTypes, OnlyApprovedRuns, Made
<1>0. RequestTypes /\ OnlyApprovedRuns
  BY DEF MergeInv
<1> DEFINE Goal == RequestTypes' /\ OnlyApprovedRuns'
<1>1. ASSUME NEW t \in Threads, NEW r \in Requests, NEW s \in Names,
             NEW g \in Names, NEW strategy \in Strategies,
             RequestMerge(t, r, s, g, strategy)
      PROVE  Goal
  BY <1>0, <1>1 DEF RequestMerge, Request, Statuses
<1>2. ASSUME NEW t \in Threads, NEW r \in Requests, NEW b \in Branches,
             AutoMerge(t, r, b)
      PROVE  Goal
  <2>1. b \in Names /\ branches[b].base \in Names
    BY <1>2 DEF AutoMerge, Names, MergeInv, RegistryInv, BranchTypeOK, BranchInfo
  <2> QED
    BY <1>1, <1>2, <2>1 DEF AutoMerge, Strategies
<1>3. ASSUME NEW t \in Threads, NEW r \in Requests,
             NEW status \in {"approved", "rejected"}, Review(t, r, status)
      PROVE  Goal
  BY <1>0, <1>3 DEF Review, Request, Statuses
<1>4. ASSUME NEW t \in Threads, NEW r \in Requests, Execute(t, r)
      PROVE  Goal
  BY <1>0, <1>4 DEF Execute, Execs, Commands
<1>5. ASSUME NEW t \in Threads, Perform(t)
      PROVE  Goal
  <2>1. PICK pc \in Commands \cup {"settle"}, ok \in BOOLEAN :
             exec' = [exec EXCEPT ![t].pc = pc, ![t].ok = ok]
    BY <1>5, PerformMoves
  <2>2. requests' = requests /\ exec[t] \in Execs
    BY <1>0, <1>5, PerformMoves
  <2>3. [exec[t] EXCEPT !.pc = pc, !.ok = ok] \in Execs
    BY <2>2 DEF Execs
  <2> QED
    BY <1>0, <2>1, <2>2, <2>3
<1>6. ASSUME NEW t \in Threads, Settle(t)
      PROVE  Goal
  <2>1. exec[t] \in Execs /\ exec[t].id \in Made
    BY <1>0, <1>6 DEF Settle, Running
  <2>2. requests'= [requests EXCEPT ![exec[t].id].status =
                       IF exec[t].ok THEN "completed" ELSE "failed"]
    BY <1>6 DEF Settle
  <2>3. requests' \in [Made -> Request] /\ DOMAIN requests' = Made
    BY <1>0, <2>1, <2>2 DEF Request, Statuses
  <2>4. exec' \in [Threads -> {Idle} \cup Execs]
        /\ \A u \in Threads : exec'[u] # Idle =>
              exec[u] # Idle /\ exec'[u].id = exec[u].id
    BY <1>0, <1>6, <2>1 DEF Settle, Execs
  <2> QED
    BY <1>0, <2>2, <2>3, <2>4
<1>7. ASSUME NEW t \in Threads, Mark(t)
      PROVE  Goal
  BY <1>0, <1>7 DEF Mark
<1>8. CASE UNCHANGED <<requests, exec>>
  BY <1>0, <1>8
<1> QED
  BY <1>1, <1>2, <1>3, <1>4, <1>5, <1>6, <1>7, <1>8
     DEF MergeNext, MergeStep, BranchCall, mergeVars

LEMMA MergeStepKeepsRegistry ==
  ASSUME MergeInv, [MergeNext]_mergeVars
  PROVE  RegistryInv'
<1>0. RegistryInv
  BY DEF MergeInv
<1>1. CASE UNCHANGED branchVars
  BY <1>0, <1>1, UnchangedKeeps
<1>2. ASSUME NEW t \in Threads, Perform(t)
      PROVE  RegistryInv'
  BY <1>2, PerformKeepsRegistry
<1>3. ASSUME NEW t \in Threads, Mark(t)
      PROVE  RegistryInv'
  <2>1. Registered \subseteq Branches
    BY DEF MergeInv, RegistryInv, BranchTypeOK
  <2>2. CASE Source(t) \in Registered /\ SetState(Source(t), "merged")
    BY <1>0, <1>3, <2>1, <2>2, StateKeeps DEF Mark, States
  <2> QED
    BY <1>1, <1>3, <2>2 DEF Mark, branchVars
<1>4. ASSUME NEW t \in Threads, BranchCall(t)
      PROVE  RegistryInv'
  BY <1>0, <1>4, StepKeepsRegistry DEF BranchCall
<1>5. CASE Environment
  BY <1>0, <1>5, EnvironmentKeepsRegistry
<1>6. ASSUME NEW t \in Threads, MergeStep(t)
      PROVE  RegistryInv'
  BY <1>1, <1>2, <1>3, <1>6
     DEF MergeStep, AutoMerge, RequestMerge, Review, Execute, Settle, Quiet, branchVars
<1> QED
  BY <1>1, <1>4, <1>5, <1>6 DEF MergeNext, mergeVars, branchVars

LEMMA MergeInvariant == MergeSpec => []MergeInv
<1>1. MergeInit => MergeInv
  BY StartsRegistered DEF MergeInit, MergeInv, RequestTypes, OnlyApprovedRuns, Made
<1>2. MergeInv /\ [MergeNext]_mergeVars => MergeInv'
  BY StepKeepsApproval, MergeStepKeepsRegistry DEF MergeInv
<1> QED
  BY <1>1, <1>2, PTL DEF MergeSpec

(* No request runs without approval, and a run is not overtaken by a        *)
(* rejection.                                                              *)
THEOREM ApprovedRunsOnly == MergeSpec => []OnlyApprovedRuns
BY MergeInvariant, PTL DEF MergeInv

(* Merges and the branch manager's own calls together keep the registry in *)
(* agreement with git.                                                     *)
THEOREM MergesKeepRegistry == MergeSpec => [](RegistryMatchesGit /\ RegisteredOnce)
<1>1. MergeInv => RegistryMatchesGit /\ RegisteredOnce
  BY DEF MergeInv, RegistryInv
<1> QED
  BY <1>1, MergeInvariant, PTL

(* A request's status only ever goes from pending to a review, and from an  *)
(* approval to an outcome.                                                 *)
THEOREM ReviewsAreFinal == MergeSpec => ReviewedOnce
<1> DEFINE Change(r) ==
      requests'[r] # requests[r] =>
         \/ requests[r].status = "pending"
              /\ requests'[r].status \in {"approved", "rejected"}
         \/ requests[r].status \in {"approved", "completed", "failed"}
              /\ requests'[r].status \in {"completed", "failed"}
<1>1. ASSUME MergeInv, [MergeNext]_mergeVars, NEW r \in Made
      PROVE  Change(r)
  <2>0. RequestTypes /\ OnlyApprovedRuns
    BY <1>1 DEF MergeInv
  <2>1. ASSUME NEW t \in Threads, NEW q \in Requests, NEW s, NEW g, NEW strategy,
               RequestMerge(t, q, s, g, strategy)
        PROVE  Change(r)
    BY <2>1 DEF RequestMerge
  <2>2. ASSUME NEW t \in Threads, NEW q \in Requests,
               NEW status \in {"approved", "rejected"}, Review(t, q, status)
        PROVE  Change(r)
    BY <2>0, <2>2 DEF Review, RequestTypes, Request
  <2>3. ASSUME NEW t \in Threads, Settle(t)
        PROVE  Change(r)
    BY <2>0, <2>3 DEF Settle, Running, OnlyApprovedRuns, RequestTypes, Request
  <2>4. CASE UNCHANGED requests
    BY <2>4
  <2> QED
    BY <1>1, <2>1, <2>2, <2>3, <2>4
       DEF MergeNext, MergeStep, AutoMerge, Execute, Perform, Mark, BranchCall, mergeVars
<1>2. MergeInv /\ [MergeNext]_mergeVars => \A r \in Made : Change(r)
  BY <1>1
<1> QED
  BY <1>2, MergeInvariant, PTL DEF MergeSpec, ReviewedOnce

-----------------------------------------------------------------------------
(* Calls in turn.  A thread that was told the name of a branch works there: *)
(* HEAD is on the branch that its next command is meant for.  Nobody but    *)
(* the thread could change that, since a person puts HEAD on a branch only *)
(* when it is on none.                                                     *)
Working(t) == exec[t] # Idle /\ exec[t].pc \in Commands \ {"to target"}

Where(t, pc) == IF pc \in {"rebase", "back to target"} THEN Source(t) ELSE Target(t)

Place(t) == Where(t, exec[t].pc)

CallInPlace(t) ==
    /\ call[t] # Idle => exec[t] = Idle
    /\ (At(t, "add") \/ At(t, "commit")) /\ call[t].branch \in Branches
          => head = call[t].branch

RunInPlace(t) ==
    exec[t] # Idle =>
        /\ Working(t) /\ Place(t) \in Branches => head = Place(t)
        /\ exec[t].pc # "mark" => requests[exec[t].id].status = "approved"

TurnInv ==
    /\ MergeInv
    /\ InTurn
    /\ \A t \in Threads : CallInPlace(t) /\ RunInPlace(t)

LEMMA CheckoutPuts ==
  ASSUME NEW b \in Branches, Checkout(b)
  PROVE  head' = b /\ ~unmerged'
BY MainAssumption DEF Checkout, CheckoutBranch, CheckoutRemote, Start

(* Fewer than two are busy: a step of one leaves the others free.          *)
LEMMA OthersFree ==
  ASSUME InTurn, InTurn', NEW t \in Threads, ~Free(t) \/ ~Free(t)',
         \A u \in Threads \ {t} : call'[u] = call[u] /\ exec'[u] = exec[u]
  PROVE  \A u \in Threads \ {t} : Free(u) /\ Free(u)'
BY DEF InTurn, Free

(* What a step of the one busy thread must show. *)
LEMMA BusyKeeps ==
  ASSUME TurnInv, MergeInv', InTurn', NEW t \in Threads, ~Free(t) \/ ~Free(t)',
         \A u \in Threads \ {t} : call'[u] = call[u] /\ exec'[u] = exec[u],
         CallInPlace(t)', RunInPlace(t)'
  PROVE  TurnInv'
<1>1. \A u \in Threads \ {t} : Free(u)'
  BY OthersFree DEF TurnInv
<1>2. \A u \in Threads \ {t} : CallInPlace(u)' /\ RunInPlace(u)'
  BY <1>1 DEF Free, CallInPlace, RunInPlace, At
<1> QED
  BY <1>2 DEF TurnInv

LEMMA MergeInvStays ==
  ASSUME MergeInv, [MergeNext]_mergeVars
  PROVE  MergeInv'
BY StepKeepsApproval, MergeStepKeepsRegistry DEF MergeInv

(* Steps that leave the calls where they are. *)
LEMMA BesideKeepsTurn ==
  ASSUME TurnInv, MergeInv', UNCHANGED <<call, exec>>,
         head \in Branches => head' = head,
         \A r \in Made : requests[r].status # "pending" => requests'[r] = requests[r]
  PROVE  TurnInv'
<1>1. InTurn'
  BY DEF TurnInv, InTurn, Free
<1>2. ASSUME NEW t \in Threads PROVE CallInPlace(t)' /\ RunInPlace(t)'
  <2>1. CallInPlace(t) /\ RunInPlace(t)
    BY DEF TurnInv
  <2>2. exec[t] # Idle => requests'[exec[t].id] = requests[exec[t].id]
    BY DEF TurnInv, MergeInv, OnlyApprovedRuns
  <2>3. CallInPlace(t)'
    BY <2>1 DEF CallInPlace, At
  <2>4. CASE exec[t] = Idle
    BY <2>3, <2>4 DEF RunInPlace
  <2>5. CASE exec[t] # Idle
    <3>1. Source(t)' = Source(t) /\ Target(t)' = Target(t)
      BY <2>2, <2>5 DEF Source, Target
    <3>2. Working(t)' = Working(t) /\ Place(t)' = Place(t)
      BY <3>1 DEF Working, Place, Where
    <3> QED
      BY <2>1, <2>2, <2>3, <2>5, <3>2 DEF RunInPlace
  <2> QED
    BY <2>3, <2>4, <2>5
<1> QED
  BY <1>1, <1>2 DEF TurnInv

LEMMA EnvironmentKeepsTurn ==
  ASSUME TurnInv, MergeInv', Environment, UNCHANGED <<requests, exec, held>>
  PROVE  TurnInv'
<1>1. head \in Branches => head' = head
  BY MainAssumption DEF Environment, Repair, Edit
<1> QED
  BY <1>1, BesideKeepsTurn DEF Environment

-----------------------------------------------------------------------------
(* The branch manager's calls.                                             *)
LEMMA BranchCallKeepsTurn ==
  ASSUME TurnInv, MergeInv', InTurn', NEW t \in Threads, BranchCall(t)
  PROVE  TurnInv'
<1>1. /\ exec[t] = Idle /\ UNCHANGED <<requests, exec, held>> /\ BranchStep(t)
      /\ call \in [Threads -> {Idle} \cup Calls]
  BY DEF BranchCall, TurnInv, MergeInv, RegistryInv, BranchTypeOK
<1>2. RunInPlace(t)'
  BY <1>1 DEF RunInPlace
<1>3. ASSUME NEW c, call' = [call EXCEPT ![t] = c],
             call[t] # Idle \/ c # Idle,
             c = Idle \/ c.pc \notin {"add", "commit"} \/ (c.branch \in Branches => head' = c.branch)
      PROVE  TurnInv'
  <2>1. call'[t] = c /\ \A u \in Threads \ {t} : call'[u] = call[u] /\ exec'[u] = exec[u]
    BY <1>1, <1>3
  <2>2. CallInPlace(t)'
    BY <1>1, <1>3, <2>1 DEF CallInPlace, At
  <2>3. ~Free(t) \/ ~Free(t)'
    BY <1>3, <2>1 DEF Free
  <2> QED
    BY <1>2, <2>1, <2>2, <2>3, BusyKeeps
<1>4. ASSUME NEW b \in Branches, NEW base \in Names, CallCreate(t, b, base)
      PROVE  TurnInv'
  <2>1. [pc |-> "create", branch |-> b, base |-> base] \in Calls
    BY DEF Calls
  <2> QED
    BY <1>3, <1>4, <2>1, IdleAssumption DEF CallCreate
<1>5. ASSUME NEW n \in Names, CallCommit(t, n)
      PROVE  TurnInv'
  <2>1. [pc |-> "checkout", branch |-> n, base |-> n] \in Calls
    BY DEF Calls
  <2> QED
    BY <1>3, <1>5, <2>1, IdleAssumption DEF CallCommit
<1>6. ASSUME call[t] # Idle, Return(t)
      PROVE  TurnInv'
  BY <1>3, <1>6 DEF Return
<1>7. ASSUME NEW pc, call[t] # Idle, Go(t, pc),
             pc \notin {"add", "commit"} \/ (call[t].branch \in Branches => head' = call[t].branch)
      PROVE  TurnInv'
  <2>1. call' = [call EXCEPT ![t] = [call[t] EXCEPT !.pc = pc]]
    BY <1>7 DEF Go
  <2>2. call[t] \in Calls
    BY <1>1, <1>7
  <2>3. [call[t] EXCEPT !.pc = pc].pc = pc /\ [call[t] EXCEPT !.pc = pc].branch = call[t].branch
    BY <2>2 DEF Calls
  <2> QED
    BY <1>3, <1>7, <2>1, <2>3
<1>8. CASE CreateCheckout(t)
  BY <1>6, <1>7, <1>8 DEF CreateCheckout, Step, At
<1>9. CASE CreateRegister(t)
  BY <1>6, <1>9 DEF CreateRegister, At
<1>10. CASE CommitCheckout(t)
  BY <1>6, <1>7, <1>10, CheckoutPuts DEF CommitCheckout, Step, At
<1>11. CASE CommitAdd(t)
  <2>1. call[t] # Idle /\ (call[t].branch \in Branches => head = call[t].branch)
    BY <1>11 DEF CommitAdd, TurnInv, CallInPlace, At
  <2>2. AddAll => head' = head
    BY DEF AddAll
  <2> QED
    BY <1>6, <1>7, <1>11, <2>1, <2>2 DEF CommitAdd, Step
<1>12. CASE CommitCommit(t)
  BY <1>6, <1>12 DEF CommitCommit, At
<1>13. ASSUME NEW b \in Branches, NEW state \in States, ChangeState(t, b, state)
       PROVE  TurnInv'
  BY <1>1, <1>13, BesideKeepsTurn DEF ChangeState, gitVars
<1> QED
  BY <1>1, <1>4, <1>5, <1>8, <1>9, <1>10, <1>11, <1>12, <1>13 DEF BranchStep

-----------------------------------------------------------------------------
(* What a run does next.                                                   *)
LEMMA RunMoves ==
  ASSUME MergeInv, NEW t \in Threads, exec[t] # Idle, NEW pc \in Commands \cup {"settle", "mark"},
         NEW ok \in BOOLEAN, exec' = [exec EXCEPT ![t].pc = pc, ![t].ok = ok]
  PROVE  /\ exec'[t] # Idle /\ exec'[t].id = exec[t].id /\ exec'[t].pc = pc /\ exec'[t].ok = ok
         /\ \A u \in Threads \ {t} : exec'[u] = exec[u]
<1>1. exec \in [Threads -> {Idle} \cup Execs] /\ exec[t] \in Execs
  BY DEF MergeInv, RequestTypes
<1>2. exec' = [exec EXCEPT ![t] = [exec[t] EXCEPT !.pc = pc, !.ok = ok]]
  OBVIOUS
<1>3. [exec[t] EXCEPT !.pc = pc, !.ok = ok] \in Execs
  BY <1>1 DEF Execs
<1>4. exec'[t] = [exec[t] EXCEPT !.pc = pc, !.ok = ok]
  BY <1>1, <1>2
<1>5. exec'[t].id = exec[t].id /\ exec'[t].pc = pc /\ exec'[t].ok = ok
  BY <1>1, <1>4 DEF Execs
<1> QED
  BY <1>1, <1>2, <1>3, <1>4, <1>5, IdleExecAssumption

LEMMA RunFacts ==
  ASSUME TurnInv, NEW t \in Threads, exec[t] # Idle
  PROVE  /\ exec[t] \in Execs /\ exec[t].id \in Requests /\ exec[t].id \in Made
         /\ Source(t) \in Names /\ Target(t) \in Names /\ Strategy(t) \in Strategies
         /\ Working(t) /\ Place(t) \in Branches => head = Place(t) /\ head \in Existing
<1>1. MergeInv /\ RunInPlace(t)
  BY DEF TurnInv
<1>2. exec[t] \in Execs /\ exec[t].id \in Made /\ exec[t].id \in Requests
  BY <1>1 DEF MergeInv, RequestTypes, OnlyApprovedRuns
<1>3. requests[exec[t].id] \in Request
  BY <1>1, <1>2 DEF MergeInv, RequestTypes
<1>4. Source(t) \in Names /\ Target(t) \in Names /\ Strategy(t) \in Strategies
  BY <1>3 DEF Source, Target, Strategy, Request
<1>5. ASSUME Working(t), Place(t) \in Branches PROVE head = Place(t) /\ head \in Existing
  <2>1. head = Place(t) /\ head \in Branches
    BY <1>1, <1>5 DEF RunInPlace, Working
  <2>2. head \in Existing
    BY <1>1, <2>1, MainAssumption DEF MergeInv, RegistryInv, BranchTypeOK, GitTypeOK
  <2> QED
    BY <2>1, <2>2
<1> QED
  BY <1>2, <1>4, <1>5

(* A command of perform_merge goes on at pc, or ends with a result.        *)
LEMMA ProceedMoves ==
  ASSUME TurnInv, NEW t \in Threads, exec[t] # Idle, NEW pc, Proceed(t, pc)
  PROVE  /\ exec[t].ok \in BOOLEAN /\ held' = held
         /\ exec' = [exec EXCEPT ![t].pc = pc, ![t].ok = exec[t].ok]
<1>1. exec[t] \in Execs
  BY RunFacts
<1>2. exec' = [exec EXCEPT ![t] = [exec[t] EXCEPT !.pc = pc]] /\ held' = held
  BY DEF Proceed
<1>3. [exec[t] EXCEPT !.pc = pc] = [exec[t] EXCEPT !.pc = pc, !.ok = exec[t].ok]
  BY <1>1 DEF Execs
<1>4. exec' = [exec EXCEPT ![t].pc = pc, ![t].ok = exec[t].ok]
  BY <1>2, <1>3
<1> QED
  BY <1>1, <1>2, <1>4 DEF Execs

(* A run whose command left HEAD where its next command needs it.          *)
LEMMA RunKeepsTurn ==
  ASSUME TurnInv, MergeInv', InTurn', NEW t \in Threads, exec[t] # Idle, exec[t].pc # "mark",
         UNCHANGED <<call, requests>>,
         NEW pc \in Commands \cup {"settle"}, NEW ok \in BOOLEAN,
         exec' = [exec EXCEPT ![t].pc = pc, ![t].ok = ok],
         pc # "settle" /\ Where(t, pc) \in Branches => head' = Where(t, pc)
  PROVE  TurnInv'
<1>1. MergeInv /\ RunInPlace(t) /\ CallInPlace(t)
  BY DEF TurnInv
<1>2. /\ exec'[t] # Idle /\ exec'[t].id = exec[t].id /\ exec'[t].pc = pc
      /\ \A u \in Threads \ {t} : exec'[u] = exec[u]
  BY <1>1, RunMoves
<1>3. requests[exec[t].id].status = "approved" /\ call[t] = Idle
  BY <1>1 DEF RunInPlace, CallInPlace
<1>4. Source(t)' = Source(t) /\ Target(t)' = Target(t)
  BY <1>2 DEF Source, Target
<1>5. "settle" \notin Commands
  BY DEF Commands
<1>6. CallInPlace(t)'
  BY <1>3 DEF CallInPlace, At
<1>7. RunInPlace(t)'
  BY <1>2, <1>3, <1>4, <1>5 DEF RunInPlace, Working, Place, Where
<1>8. ~Free(t)
  BY DEF Free
<1> QED
  BY <1>2, <1>6, <1>7, <1>8, BusyKeeps

LEMMA ProceedKeepsTurn ==
  ASSUME TurnInv, MergeInv', InTurn', NEW t \in Threads, exec[t] # Idle, exec[t].pc # "mark",
         UNCHANGED <<call, requests>>, NEW pc \in Commands, Proceed(t, pc),
         Where(t, pc) \in Branches => head' = Where(t, pc)
  PROVE  TurnInv'
BY ProceedMoves, RunKeepsTurn

LEMMA EndKeepsTurn ==
  ASSUME TurnInv, MergeInv', InTurn', NEW t \in Threads, exec[t] # Idle, exec[t].pc # "mark",
         UNCHANGED <<call, requests>>, Succeed(t) \/ Fail(t)
  PROVE  TurnInv'
<1>1. PICK ok \in BOOLEAN : exec' = [exec EXCEPT ![t].pc = "settle", ![t].ok = ok]
  BY DEF Succeed, Fail
<1> DEFINE pc == "settle"
<1>2. pc \in Commands \cup {"settle"} /\ ~(pc # "settle")
  OBVIOUS
<1>3. exec' = [exec EXCEPT ![t].pc = pc, ![t].ok = ok]
  BY <1>1
<1> HIDE DEF pc
<1> QED
  BY <1>2, <1>3, RunKeepsTurn

LEMMA PerformKeepsTurn ==
  ASSUME TurnInv, MergeInv', InTurn', NEW t \in Threads, Perform(t)
  PROVE  TurnInv'
<1>1. exec[t] # Idle /\ exec[t].pc # "mark" /\ UNCHANGED <<branches, call, requests>>
  BY DEF Perform, ToTarget, MergeNoFf, ToSource, RebaseSource, BackToTarget,
         MergeRebased, Squash, SquashAdd, SquashCommit, Running
<1>2. /\ Strategy(t) \in Strategies
      /\ Working(t) /\ Place(t) \in Branches => head = Place(t)
  BY <1>1, RunFacts
<1>3. Succeed(t) \/ Fail(t) => TurnInv'
  BY <1>1, EndKeepsTurn
<1>4. ASSUME NEW pc \in Commands, Proceed(t, pc), Where(t, pc) \in Branches => head' = Where(t, pc)
      PROVE  TurnInv'
  BY <1>1, <1>4, ProceedKeepsTurn
<1>5. CASE ToTarget(t)
  <2>1. ASSUME Checkout(Target(t)), Proceed(t, AfterTarget(t)) PROVE TurnInv'
    <3>1. AfterTarget(t) \in {"merge --no-ff", "to source", "squash"}
      BY <1>2 DEF AfterTarget, Strategies
    <3>2. AfterTarget(t) \in Commands /\ Where(t, AfterTarget(t)) = Target(t)
      BY <3>1 DEF Where, Commands
    <3> QED
      BY <1>4, <2>1, <3>2, CheckoutPuts
  <2> QED
    BY <1>3, <1>5, <2>1 DEF ToTarget, Command
<1>6. CASE MergeNoFf(t) \/ MergeRebased(t) \/ SquashCommit(t)
  BY <1>3, <1>6 DEF MergeNoFf, MergeRebased, SquashCommit, LastCommand
<1>7. CASE ToSource(t)
  <2>1. "rebase" \in Commands /\ Where(t, "rebase") = Source(t)
    BY DEF Where, Commands
  <2> QED
    BY <1>3, <1>4, <1>7, <2>1, CheckoutPuts DEF ToSource, Command
<1>8. CASE RebaseSource(t)
  <2>1. /\ "back to target" \in Commands /\ Where(t, "back to target") = Source(t)
        /\ Source(t) \in Branches => head = Source(t)
    BY <1>2, <1>8 DEF RebaseSource, Running, Working, Place, Where, Commands
  <2>2. Rebase(Target(t)) => head' = head
    BY DEF Rebase
  <2> QED
    BY <1>3, <1>4, <1>8, <2>1, <2>2 DEF RebaseSource, Command
<1>9. CASE BackToTarget(t)
  <2>1. "merge" \in Commands /\ Where(t, "merge") = Target(t)
    BY DEF Where, Commands
  <2> QED
    BY <1>3, <1>4, <1>9, <2>1, CheckoutPuts DEF BackToTarget, Command
<1>10. CASE Squash(t) \/ SquashAdd(t)
  <2>1. /\ {"add", "commit"} \subseteq Commands
        /\ Where(t, "add") = Target(t) /\ Where(t, "commit") = Target(t)
        /\ Target(t) \in Branches => head = Target(t)
    BY <1>2, <1>10 DEF Squash, SquashAdd, Running, Working, Place, Where, Commands
  <2>2. MergeSquash(Source(t)) \/ AddAll => head' = head
    BY DEF MergeSquash, AddAll
  <2> QED
    BY <1>3, <1>4, <1>10, <2>1, <2>2 DEF Squash, SquashAdd, Command
<1> QED
  BY <1>5, <1>6, <1>7, <1>8, <1>9, <1>10 DEF Perform

(* The steps of execute_merge itself. *)
LEMMA ExecuteKeepsTurn ==
  ASSUME TurnInv, MergeInv', InTurn', NEW t \in Threads, NEW r \in Requests, Execute(t, r)
  PROVE  TurnInv'
<1> DEFINE run == [id |-> r, pc |-> "to target", ok |-> FALSE]
<1>1. exec \in [Threads -> {Idle} \cup Execs]
  BY DEF TurnInv, MergeInv, RequestTypes
<1>2. /\ Free(t) /\ requests[r].status = "approved" /\ exec' = [exec EXCEPT ![t] = run]
      /\ UNCHANGED <<gitVars, branches, call, held, requests>>
  BY DEF Execute, Quiet
<1>3. run \in Execs /\ run.id = r /\ run.pc = "to target"
  BY DEF Execs, Commands
<1> HIDE DEF run
<1>4. exec'[t] = run /\ \A u \in Threads \ {t} : exec'[u] = exec[u]
  BY <1>1, <1>2
<1>5. exec'[t] # Idle
  BY <1>3, <1>4, IdleExecAssumption
<1>6. CallInPlace(t)'
  BY <1>2 DEF CallInPlace, At, Free
<1>7. RunInPlace(t)'
  BY <1>2, <1>3, <1>4 DEF RunInPlace, Working
<1>8. ~Free(t)'
  BY <1>5 DEF Free
<1> QED
  BY <1>2, <1>4, <1>6, <1>7, <1>8, BusyKeeps

LEMMA EndOfRunKeepsTurn ==
  ASSUME TurnInv, MergeInv', InTurn', NEW t \in Threads, Settle(t) \/ Mark(t)
  PROVE  TurnInv'
<1>1. /\ CallInPlace(t) /\ exec \in [Threads -> {Idle} \cup Execs]
  BY DEF TurnInv, MergeInv, RequestTypes
<1>2. /\ exec[t] # Idle /\ call' = call
      /\ \/ exec' = [exec EXCEPT ![t].pc = "mark"]
         \/ exec' = [exec EXCEPT ![t] = Idle]
  BY DEF Settle, Mark, Running, Quiet
<1>3. exec[t] \in Execs
  BY <1>2, RunFacts
<1>4. \A u \in Threads \ {t} : exec'[u] = exec[u]
  BY <1>1, <1>2
<1>5. exec'[t] = Idle \/ exec'[t] = [exec[t] EXCEPT !.pc = "mark"]
  BY <1>1, <1>2
<1>6. [exec[t] EXCEPT !.pc = "mark"].pc = "mark"
  BY <1>3 DEF Execs
<1>7. CallInPlace(t)' /\ ~Free(t)
  BY <1>1, <1>2 DEF CallInPlace, At, Free
<1>8. RunInPlace(t)'
  BY <1>5, <1>6 DEF RunInPlace, Working, Commands
<1> QED
  BY <1>2, <1>4, <1>7, <1>8, BusyKeeps

(* The paper side: requests come, and pending ones are reviewed.           *)
LEMMA PaperworkDoes ==
  ASSUME RequestTypes, NEW t \in Threads, NEW r \in Requests,
         \/ \E s \in Names, g \in Names, strategy \in Strategies :
               RequestMerge(t, r, s, g, strategy)
         \/ \E status \in {"approved", "rejected"} : Review(t, r, status)
  PROVE  /\ UNCHANGED <<gitVars, branches, call, exec, held>>
         /\ \A x \in Made : requests[x].status # "pending" => requests'[x] = requests[x]
         /\ \A x \in Made' : requests'[x].status \in {"completed", "failed"} =>
               x \in Made /\ requests'[x] = requests[x]
<1>1. ASSUME NEW s \in Names, NEW g \in Names, NEW strategy \in Strategies,
             RequestMerge(t, r, s, g, strategy)
      PROVE  /\ \A x \in Made : requests'[x] = requests[x]
             /\ \A x \in Made' : x \in Made \/ requests'[x].status = "pending"
  <2> DEFINE new == [source |-> s, target |-> g, strategy |-> strategy, status |-> "pending"]
  <2>1. r \notin Made /\ requests' = [x \in Made \cup {r} |-> IF x = r THEN new ELSE requests[x]]
    BY <1>1 DEF RequestMerge
  <2>2. new.status = "pending"
    OBVIOUS
  <2> HIDE DEF new
  <2> QED
    BY <2>1, <2>2 DEF Made
<1>2. ASSUME NEW status \in {"approved", "rejected"}, Review(t, r, status)
      PROVE  /\ \A x \in Made : requests[x].status # "pending" => requests'[x] = requests[x]
             /\ \A x \in Made' : requests'[x].status \in {"completed", "failed"} =>
                   x \in Made /\ requests'[x] = requests[x]
  <2>1. /\ r \in Made /\ requests[r].status = "pending" /\ requests[r] \in Request
        /\ requests' = [requests EXCEPT ![r].status = status]
    BY <1>2 DEF Review, RequestTypes
  <2>2. /\ Made' = Made /\ requests'[r].status = status
        /\ \A x \in Made \ {r} : requests'[x] = requests[x]
    BY <2>1 DEF Made, Request
  <2> QED
    BY <2>1, <2>2
<1>3. UNCHANGED <<gitVars, branches, call, exec, held>>
  BY DEF RequestMerge, Review, Quiet
<1> QED
  BY <1>1, <1>2, <1>3

(* A request that the server makes by itself is one that could be made.    *)
LEMMA AutoRequests ==
  ASSUME MergeInv, NEW t \in Threads, NEW r \in Requests, NEW b \in Branches, AutoMerge(t, r, b)
  PROVE  \E s \in Names, g \in Names, strategy \in Strategies :
            RequestMerge(t, r, s, g, strategy)
<1>1. b \in Names /\ branches[b].base \in Names
  BY DEF AutoMerge, Names, MergeInv, RegistryInv, BranchTypeOK, BranchInfo
<1> QED
  BY <1>1 DEF AutoMerge, Strategies

LEMMA StepKeepsTurn ==
  ASSUME TurnInv, [MergeNext /\ InTurn']_mergeVars
  PROVE  TurnInv'
<1>0. MergeInv' /\ MergeInv /\ RequestTypes
  BY MergeInvStays DEF TurnInv, MergeInv
<1>1. CASE UNCHANGED mergeVars
  BY <1>0, <1>1, BesideKeepsTurn DEF mergeVars, gitVars
<1>2. CASE MergeNext /\ InTurn'
  <2> USE <1>0, <1>2
  <2>1. CASE Environment /\ UNCHANGED <<requests, exec, held>>
    BY <2>1, EnvironmentKeepsTurn
  <2>2. ASSUME NEW t \in Threads, BranchCall(t) PROVE TurnInv'
    BY <2>2, BranchCallKeepsTurn
  <2>3. ASSUME NEW t \in Threads, NEW r \in Requests,
               \/ \E s \in Names, g \in Names, strategy \in Strategies :
                     RequestMerge(t, r, s, g, strategy)
               \/ \E status \in {"approved", "rejected"} : Review(t, r, status)
        PROVE  TurnInv'
    BY <2>3, PaperworkDoes, BesideKeepsTurn DEF gitVars
  <2>4. ASSUME NEW t \in Threads, NEW r \in Requests, NEW b \in Branches, AutoMerge(t, r, b)
        PROVE  TurnInv'
    BY <2>3, <2>4, AutoRequests
  <2>5. ASSUME NEW t \in Threads, MergeStep(t) PROVE TurnInv'
    BY <2>3, <2>4, <2>5, ExecuteKeepsTurn, PerformKeepsTurn, EndOfRunKeepsTurn
       DEF MergeStep
  <2> QED
    BY <2>1, <2>2, <2>5 DEF MergeNext
<1> QED
  BY <1>1, <1>2

LEMMA StartsInTurn == MergeInit => TurnInv
<1> SUFFICES ASSUME MergeInit PROVE TurnInv
  OBVIOUS
<1>1. MergeInv
  BY StartsRegistered DEF MergeInit, MergeInv, RequestTypes, OnlyApprovedRuns, Made
<1>2. \A t \in Threads : call[t] = Idle /\ exec[t] = Idle
  BY DEF MergeInit, BranchInit
<1> QED
  BY <1>1, <1>2 DEF TurnInv, InTurn, Free, CallInPlace, RunInPlace, At

LEMMA TurnInvariant == TurnSpec => []TurnInv
<1>1. TurnInv /\ [MergeNext /\ InTurn']_mergeVars => TurnInv'
  BY StepKeepsTurn
<1> QED
  BY StartsInTurn, <1>1, PTL DEF TurnSpec

(* The same of the instances TLC runs, in the scenarios whose calls are    *)
(* made in turn.                                                           *)
MCTurnInv ==
    /\ scenario \in {"any", "in turn", "named"}
    /\ scenario # "any" => TurnInv

LEMMA MCStepInTurn ==
  ASSUME MCTurnInv, [MCNext]_<<mergeVars, scenario>>
  PROVE  /\ scenario' = scenario
         /\ scenario # "any" => [MergeNext /\ InTurn']_mergeVars
         /\ scenario = "named" => [MergeNext /\ InTurn' /\ CommitsAreNamed']_mergeVars
BY DEF MCTurnInv, MCNext, Bounds

LEMMA MCTurnInvariant == MCSpec => []MCTurnInv
<1>1. MCInit => MCTurnInv
  BY StartsInTurn DEF MCInit, MCTurnInv
<1>2. MCTurnInv /\ [MCNext]_<<mergeVars, scenario>> => MCTurnInv'
  BY MCStepInTurn, StepKeepsTurn DEF MCTurnInv
<1> QED
  BY <1>1, <1>2, PTL DEF MCSpec

-----------------------------------------------------------------------------
(* What git commands and people do to branches: they move the one HEAD is  *)
(* on, and add new ones.  Everything is staged only if no conflict waits.  *)
GitStep ==
    \/ CommandFails \/ Repair \/ Commit \/ (AddAll /\ ~unmerged)
    \/ \E c \in Changes : Edit(c)
    \/ \E b \in Branches : CheckoutNew(b)
    \/ \E n \in Names : \/ Checkout(n) \/ Merge(n) \/ MergeSquash(n)
                        \/ Rebase(n) \/ RebaseStops(n)
                        \/ \E wait \in {"none", "merge"} : MergeStops(n, wait)

LEMMA StartMoves ==
  ASSUME NEW x, NEW C, Start(x, C), x \notin Existing, NEW b \in Existing
  PROVE  b \in Existing' /\ tip'[b] = tip[b]
BY DEF Start, Existing

LEMMA CheckoutMoves ==
  ASSUME NEW n \in Names, Checkout(n), NEW b \in Existing
  PROVE  b \in Existing' /\ tip'[b] = tip[b]
<1>1. CASE CheckoutRemote(n)
  BY <1>1, StartMoves DEF CheckoutRemote
<1> QED
  BY <1>1 DEF Checkout, CheckoutBranch, CheckoutCommit, CheckoutFiles, Existing

LEMMA AdvanceMoves ==
  ASSUME NEW C, Advance(C), NEW b \in Existing
  PROVE  /\ b \in Existing' /\ tip[b] \subseteq tip'[b]
         /\ tip'[b] # tip[b] => b = head
         /\ b = head => tip'[b] = tip[b] \cup C
BY DEF Advance, Existing

LEMMA GitMoves ==
  ASSUME GitStep, NEW b \in Existing
  PROVE  /\ b \in Existing' /\ tip[b] \subseteq tip'[b]
         /\ tip'[b] # tip[b] =>
               b = head /\ (Commit \/ \E n \in Names : Merge(n) \/ Rebase(n))
<1>1. CASE tip' = tip
  BY <1>1 DEF Existing
<1>2. ASSUME NEW x \in Branches, CheckoutNew(x) PROVE b \in Existing' /\ tip'[b] = tip[b]
  BY <1>2, StartMoves DEF CheckoutNew
<1>3. CASE Commit \/ \E n \in Names : Merge(n) \/ Rebase(n)
  <2>1. PICK C : Advance(C)
    BY <1>3 DEF Commit, Merge, Rebase
  <2> QED
    BY <1>3, <2>1, AdvanceMoves
<1> QED
  BY <1>1, <1>2, <1>3, CheckoutMoves
     DEF GitStep, CommandFails, gitVars, AddAll, Repair, Edit, MergeSquash, RebaseStops,
         MergeStops

-----------------------------------------------------------------------------
(* Where commits land.                                                     *)
LEMMA RunMovesOn ==
  ASSUME MergeInv, NEW t \in Threads, exec[t] # Idle, NEW pc, pc # exec[t].pc,
         Proceed(t, pc) \/ (pc = "settle" /\ (Succeed(t) \/ Fail(t)))
  PROVE  exec'[t] # exec[t]
<1>1. exec \in [Threads -> {Idle} \cup Execs] /\ exec[t] \in Execs
  BY DEF MergeInv, RequestTypes
<1>2. CASE Proceed(t, pc)
  <2>1. exec' = [exec EXCEPT ![t] = [exec[t] EXCEPT !.pc = pc]]
    BY <1>2 DEF Proceed
  <2> QED
    BY <1>1, <2>1 DEF Execs
<1>3. ASSUME NEW ok, pc = "settle", exec' = [exec EXCEPT ![t].pc = "settle", ![t].ok = ok]
      PROVE  exec'[t] # exec[t]
  <2>1. exec' = [exec EXCEPT ![t] = [exec[t] EXCEPT !.pc = pc, !.ok = ok]]
    BY <1>3
  <2>2. [exec[t] EXCEPT !.pc = pc, !.ok = ok].pc = pc
    BY <1>1 DEF Execs
  <2> QED
    BY <1>1, <2>1, <2>2
<1> QED
  BY <1>2, <1>3 DEF Succeed, Fail

(* A command of perform_merge that moves a branch is a commit or a merge at *)
(* the target, or a rebase at the source.                                  *)
LEMMA PerformLands ==
  ASSUME TurnInv, NEW t \in Threads, Perform(t), NEW b \in Existing, tip'[b] # tip[b]
  PROVE  exec[t] # Idle /\ exec'[t] # exec[t] /\ ToldTo(t, b)
<1> DEFINE Goal == exec[t] # Idle /\ exec'[t] # exec[t] /\ ToldTo(t, b)
<1>1. exec[t] # Idle /\ MergeInv /\ CallInPlace(t)
  BY DEF Perform, ToTarget, MergeNoFf, ToSource, RebaseSource, BackToTarget,
         MergeRebased, Squash, SquashAdd, SquashCommit, Running, TurnInv
<1>2. /\ Source(t) \in Names /\ Target(t) \in Names
      /\ Working(t) /\ Place(t) \in Branches => head = Place(t)
  BY <1>1, RunFacts
<1>3. ASSUME GitStep, NEW pc, pc # exec[t].pc,
             Proceed(t, pc) \/ (pc = "settle" /\ (Succeed(t) \/ Fail(t))),
             Working(t), exec[t].pc # "back to target"
      PROVE  Goal
  <2>1. exec'[t] # exec[t]
    BY <1>1, <1>3, RunMovesOn
  <2>2. b = head
    BY <1>3, GitMoves
  <2>3. call[t] = Idle
    BY <1>1 DEF CallInPlace
  <2>4. ToldTo(t, b)
    BY <1>2, <1>3, <2>2, <2>3 DEF ToldTo, Place, Where
  <2> QED
    BY <1>1, <2>1, <2>4
<1>4. tip' # tip
  OBVIOUS
<1>5. CASE ToTarget(t) \/ ToSource(t) \/ BackToTarget(t)
  BY <1>2, <1>4, <1>5, CheckoutMoves
     DEF ToTarget, ToSource, BackToTarget, Command, CommandFails, gitVars
<1>6. CASE Squash(t) \/ SquashAdd(t)
  BY <1>4, <1>6
     DEF Squash, SquashAdd, Command, CommandFails, gitVars, MergeSquash, MergeStops, AddAll
<1>7. CASE MergeNoFf(t) \/ MergeRebased(t)
  <2>1. exec[t].pc \in {"merge --no-ff", "merge"} /\ exec[t].pc # "settle" /\ Working(t)
    BY <1>7 DEF MergeNoFf, MergeRebased, Running, Working, Commands
  <2>2. Merge(Source(t)) /\ (Succeed(t) \/ Fail(t))
    BY <1>4, <1>7 DEF MergeNoFf, MergeRebased, LastCommand, CommandFails, gitVars, MergeStops
  <2> QED
    BY <1>2, <1>3, <2>1, <2>2 DEF GitStep
<1>8. CASE RebaseSource(t)
  <2>1. exec[t].pc = "rebase" /\ Working(t)
    BY <1>8 DEF RebaseSource, Running, Working, Commands
  <2>2. Rebase(Target(t)) /\ (Proceed(t, "back to target") \/ Fail(t))
    BY <1>4, <1>8 DEF RebaseSource, Command, CommandFails, gitVars, RebaseStops
  <2> QED
    BY <1>2, <1>3, <2>1, <2>2 DEF GitStep
<1>9. CASE SquashCommit(t)
  <2>1. exec[t].pc = "commit" /\ Working(t)
    BY <1>9 DEF SquashCommit, Running, Working, Commands
  <2>2. Commit /\ (Succeed(t) \/ Fail(t))
    BY <1>4, <1>9 DEF SquashCommit, LastCommand, CommandFails, gitVars
  <2> QED
    BY <1>2, <1>3, <2>1, <2>2 DEF GitStep
<1> QED
  BY <1>5, <1>6, <1>7, <1>8, <1>9 DEF Perform

LEMMA StepsLand ==
  ASSUME TurnInv, [MergeNext]_mergeVars
  PROVE  CommitsLand
<1> SUFFICES ASSUME NEW b \in Existing, tip'[b] # tip[b]
             PROVE  \E t \in Threads :
                       /\ \/ At(t, "commit") /\ call'[t] = Idle
                          \/ exec[t] # Idle /\ exec'[t] # exec[t]
                       /\ ToldTo(t, b)
  BY DEF CommitsLand
<1>1. tip' # tip
  OBVIOUS
<1>2. PICK t \in Threads : Perform(t) \/ BranchCall(t)
  BY <1>1
     DEF MergeNext, Environment, Repair, Edit, MergeStep, RequestMerge, AutoMerge, Review,
         Execute, Settle, Mark, Quiet, gitVars, mergeVars
<1>3. CASE Perform(t)
  BY <1>3, PerformLands
<1>4. CASE BranchCall(t)
  <2>0. call \in [Threads -> {Idle} \cup Calls]
    BY DEF TurnInv, MergeInv, RegistryInv, BranchTypeOK
  <2>1. ~CreateCheckout(t)
    BY StartMoves DEF CreateCheckout, Step, CheckoutNew, CommandFails, gitVars
  <2>2. ~CommitCheckout(t)
    <3>1. ASSUME CommitCheckout(t) PROVE call[t].branch \in Names
      BY <2>0, <3>1 DEF CommitCheckout, At, Calls, Names
    <3> QED
      BY <3>1, CheckoutMoves DEF CommitCheckout, Step, CommandFails, gitVars
  <2>3. CommitCommit(t) /\ Commit
    BY <1>1, <1>4, <2>1, <2>2
       DEF BranchCall, BranchStep, CallCreate, CreateRegister, CallCommit,
           CommitAdd, CommitCommit, ChangeState, Step, CommandFails, gitVars, AddAll
  <2>4. At(t, "commit") /\ (call[t].branch \in Branches => head = call[t].branch)
    BY <2>3 DEF CommitCommit, TurnInv, CallInPlace
  <2>5. b = head
    BY <2>3, GitMoves DEF GitStep
  <2>6. call'[t] = Idle
    BY <2>0, <2>3 DEF CommitCommit, Return
  <2> QED
    BY <2>4, <2>5, <2>6 DEF ToldTo, At
<1> QED
  BY <1>2, <1>3, <1>4

(* A request that was settled is not approved, and only an approved one is  *)
(* run.                                                                    *)
LEMMA StepsKeepOutcome ==
  ASSUME TurnInv, [MergeNext]_mergeVars
  PROVE  OutcomeStays
<1> SUFFICES ASSUME NEW r \in Made, requests[r].status \in {"completed", "failed"}
             PROVE  requests'[r] = requests[r]
  BY DEF OutcomeStays
<1>1. ASSUME NEW t \in Threads, NEW q, NEW s, NEW g, NEW strategy, RequestMerge(t, q, s, g, strategy)
      PROVE  requests'[r] = requests[r]
  BY <1>1 DEF RequestMerge
<1>2. ASSUME NEW t \in Threads, NEW q, NEW status, Review(t, q, status)
      PROVE  requests'[r] = requests[r]
  BY <1>2 DEF Review
<1>3. ASSUME NEW t \in Threads, Settle(t)
      PROVE  requests'[r] = requests[r]
  BY <1>3 DEF Settle, Running, TurnInv, RunInPlace
<1>4. CASE UNCHANGED requests
  BY <1>4
<1> QED
  BY <1>1, <1>2, <1>3, <1>4
     DEF MergeNext, MergeStep, AutoMerge, Execute, Perform, Mark, BranchCall, mergeVars

-----------------------------------------------------------------------------
(* Calls in turn, of which commit_changes is told names of branches.  A     *)
(* conflict that waits is seen by every command that could commit it; and  *)
(* what a run has staged or put on its target makes up what it merges.     *)
Calm == stopped # "none" \/ markers => unmerged

CallUnspoilt(t) == At(t, "add") \/ At(t, "commit") => ~unmerged

RunHolds(t) ==
    exec[t] # Idle =>
        /\ exec[t].pc \in {"add", "commit"} =>
              /\ ~unmerged
              /\ Source(t) \in Existing /\ Target(t) \in Branches
                    => tip[Source(t)] \subseteq tip[Target(t)] \cup staged
        /\ exec[t].pc = "settle" /\ exec[t].ok /\ Target(t) \in Branches =>
              Target(t) \in Existing /\ held[exec[t].id] \subseteq tip[Target(t)]

NamedInv ==
    /\ TurnInv
    /\ DOMAIN held = Requests
    /\ Calm
    /\ \A t \in Threads : CallUnspoilt(t) /\ RunHolds(t)
    /\ CompletedIsHeld
    /\ NothingDamaged

(* A command that finds no conflict leaves none in what it commits.        *)
LEMMA CalmStays ==
  ASSUME Calm, NothingDamaged, GitStep
  PROVE  Calm' /\ NothingDamaged'
<1> USE DEF Calm, NothingDamaged
<1>1. CASE CommandFails \/ Repair \/ (AddAll /\ ~unmerged) \/ \E c \in Changes : Edit(c)
  BY <1>1 DEF CommandFails, gitVars, Repair, AddAll, Edit
<1>2. CASE Commit
  BY <1>2 DEF Commit
<1>3. ASSUME NEW b, NEW C, Start(b, C) PROVE Calm' /\ NothingDamaged'
  BY <1>3 DEF Start, ForgetMerge
<1>4. ASSUME NEW n \in Names, Checkout(n) PROVE Calm' /\ NothingDamaged'
  <2>1. CASE CheckoutRemote(n)
    BY <1>3, <2>1 DEF CheckoutRemote
  <2> QED
    BY <1>4, <2>1
       DEF Checkout, CheckoutBranch, CheckoutCommit, CheckoutFiles, ForgetMerge
<1>5. ASSUME NEW n \in Names, Merge(n) \/ MergeSquash(n) \/ Rebase(n)
      PROVE  Calm' /\ NothingDamaged'
  BY <1>5 DEF Merge, MergeSquash, Rebase
<1>6. ASSUME NEW n \in Names, RebaseStops(n) \/ \E wait \in {"none", "merge"} : MergeStops(n, wait)
      PROVE  Calm' /\ NothingDamaged'
  BY <1>6 DEF RebaseStops, MergeStops
<1> QED
  BY <1>1, <1>2, <1>3, <1>4, <1>5, <1>6 DEF GitStep, CheckoutNew

(* Completed requests stay held as long as they, what they held and the     *)
(* branches are kept.                                                      *)
LEMMA HeldStays ==
  ASSUME CompletedIsHeld, GitStep,
         \A r \in Made' : requests'[r].status = "completed" =>
            r \in Made /\ requests'[r] = requests[r] /\ held'[r] = held[r]
  PROVE  CompletedIsHeld'
BY GitMoves DEF CompletedIsHeld

(* A step of the one busy thread, that touches no request but its own.     *)
LEMMA WorkKeeps ==
  ASSUME NamedInv, TurnInv', NEW t \in Threads, ~Free(t) \/ ~Free(t)',
         \A u \in Threads \ {t} : call'[u] = call[u] /\ exec'[u] = exec[u],
         GitStep, DOMAIN held' = Requests,
         \A r \in Made' : requests'[r].status = "completed" =>
            r \in Made /\ requests'[r] = requests[r] /\ held'[r] = held[r],
         CallUnspoilt(t)', RunHolds(t)'
  PROVE  NamedInv'
<1>1. \A u \in Threads \ {t} : Free(u)'
  BY OthersFree DEF NamedInv, TurnInv
<1>2. \A u \in Threads \ {t} : CallUnspoilt(u)' /\ RunHolds(u)'
  BY <1>1 DEF Free, CallUnspoilt, RunHolds, At
<1>3. Calm' /\ NothingDamaged' /\ CompletedIsHeld'
  BY CalmStays, HeldStays DEF NamedInv
<1> QED
  BY <1>2, <1>3 DEF NamedInv

-----------------------------------------------------------------------------
(* Steps that leave the calls and the runs where they are. *)
LEMMA BesideKeepsNamed ==
  ASSUME NamedInv, TurnInv', UNCHANGED <<tip, call, exec, held>>, GitStep,
         ~unmerged => UNCHANGED <<unmerged, staged>>,
         \A r \in Made : requests[r].status # "pending" => requests'[r] = requests[r],
         \A r \in Made' : requests'[r].status = "completed" => r \in Made /\ requests'[r] = requests[r]
  PROVE  NamedInv'
<1>1. Calm' /\ NothingDamaged' /\ CompletedIsHeld'
  BY CalmStays, HeldStays DEF NamedInv
<1>2. ASSUME NEW t \in Threads PROVE CallUnspoilt(t)' /\ RunHolds(t)'
  <2>1. CallUnspoilt(t) /\ RunHolds(t)
    BY DEF NamedInv
  <2>2. exec[t] # Idle => requests'[exec[t].id] = requests[exec[t].id]
    BY DEF NamedInv, TurnInv, MergeInv, OnlyApprovedRuns
  <2>3. CallUnspoilt(t)'
    BY <2>1 DEF CallUnspoilt, At
  <2>4. CASE exec[t] = Idle
    BY <2>3, <2>4 DEF RunHolds
  <2>5. CASE exec[t] # Idle
    <3>1. Source(t)' = Source(t) /\ Target(t)' = Target(t) /\ Existing' = Existing
      BY <2>2, <2>5 DEF Source, Target, Existing
    <3> QED
      BY <2>1, <2>3, <2>5, <3>1 DEF RunHolds
  <2> QED
    BY <2>3, <2>4, <2>5
<1> QED
  BY <1>1, <1>2 DEF NamedInv

LEMMA PaperworkKeepsNamed ==
  ASSUME NamedInv, TurnInv', UNCHANGED <<gitVars, call, exec, held>>,
         \A r \in Made : requests[r].status # "pending" => requests'[r] = requests[r],
         \A r \in Made' : requests'[r].status = "completed" => r \in Made /\ requests'[r] = requests[r]
  PROVE  NamedInv'
<1>1. /\ \A b \in Existing : b \in Existing' /\ tip'[b] = tip[b]
      /\ UNCHANGED <<tip, staged, unmerged, stopped, markers, damaged, call, exec, held>>
  BY DEF gitVars, Existing
<1>2. GitStep
  BY DEF GitStep, CommandFails
<1> QED
  BY <1>1, <1>2, BesideKeepsNamed

-----------------------------------------------------------------------------
(* The branch manager's calls.                                             *)
LEMMA BranchCallKeepsNamed ==
  ASSUME NamedInv, TurnInv', CommitsAreNamed, CommitsAreNamed', NEW t \in Threads, BranchCall(t)
  PROVE  NamedInv'
<1>1. /\ exec[t] = Idle /\ UNCHANGED <<requests, exec, held>> /\ BranchStep(t)
      /\ call \in [Threads -> {Idle} \cup Calls]
      /\ DOMAIN held = Requests
  BY DEF BranchCall, NamedInv, TurnInv, MergeInv, RegistryInv, BranchTypeOK
<1>2. RunHolds(t)'
  BY <1>1 DEF RunHolds
<1>3. ASSUME NEW c, call' = [call EXCEPT ![t] = c], GitStep,
             call[t] # Idle \/ c # Idle,
             c = Idle \/ c.pc \notin {"add", "commit"} \/ ~unmerged'
      PROVE  NamedInv'
  <2>1. call'[t] = c /\ \A u \in Threads \ {t} : call'[u] = call[u] /\ exec'[u] = exec[u]
    BY <1>1, <1>3
  <2>2. CallUnspoilt(t)'
    BY <1>1, <1>3, <2>1 DEF CallUnspoilt, At
  <2>3. ~Free(t) \/ ~Free(t)'
    BY <1>3, <2>1 DEF Free
  <2> QED
    BY <1>1, <1>2, <1>3, <2>1, <2>2, <2>3, WorkKeeps DEF Made
<1>4. ASSUME NEW b \in Branches, NEW base \in Names, CallCreate(t, b, base)
      PROVE  NamedInv'
  <2>1. [pc |-> "create", branch |-> b, base |-> base] \in Calls
    BY DEF Calls
  <2> QED
    BY <1>3, <1>4, <2>1, IdleAssumption DEF CallCreate, GitStep, CommandFails
<1>5. ASSUME NEW n \in Names, CallCommit(t, n)
      PROVE  NamedInv'
  <2>1. [pc |-> "checkout", branch |-> n, base |-> n] \in Calls
    BY DEF Calls
  <2> QED
    BY <1>3, <1>5, <2>1, IdleAssumption DEF CallCommit, GitStep, CommandFails
<1>6. ASSUME call[t] # Idle, GitStep, Return(t)
      PROVE  NamedInv'
  BY <1>3, <1>6 DEF Return
<1>7. ASSUME NEW pc, call[t] # Idle, GitStep, Go(t, pc),
             pc \notin {"add", "commit"} \/ ~unmerged'
      PROVE  NamedInv'
  <2>1. call' = [call EXCEPT ![t] = [call[t] EXCEPT !.pc = pc]]
    BY <1>7 DEF Go
  <2>2. call[t] \in Calls
    BY <1>1, <1>7
  <2>3. [call[t] EXCEPT !.pc = pc].pc = pc
    BY <2>2 DEF Calls
  <2> QED
    BY <1>3, <1>7, <2>1, <2>3
<1>8. call[t] # Idle => call[t].branch \in Branches /\ call[t].branch \in Names
  BY DEF CommitsAreNamed, Names
<1>9. CASE CreateCheckout(t)
  <2>1. call[t] # Idle /\ (CheckoutNew(call[t].branch) \/ CommandFails => GitStep)
    BY <1>8, <1>9 DEF CreateCheckout, At, GitStep
  <2> QED
    BY <1>6, <1>7, <1>9, <2>1 DEF CreateCheckout, Step
<1>10. CASE CreateRegister(t)
  BY <1>6, <1>10 DEF CreateRegister, At, GitStep, CommandFails
<1>11. CASE CommitCheckout(t)
  <2>1. call[t] # Idle /\ (Checkout(call[t].branch) \/ CommandFails => GitStep)
    BY <1>8, <1>11 DEF CommitCheckout, At, GitStep
  <2>2. Checkout(call[t].branch) => ~unmerged'
    BY <1>8, <2>1, CheckoutPuts
  <2> QED
    BY <1>6, <1>7, <1>11, <2>1, <2>2 DEF CommitCheckout, Step
<1>12. CASE CommitAdd(t)
  <2>1. call[t] # Idle /\ ~unmerged
    BY <1>12 DEF CommitAdd, NamedInv, CallUnspoilt, At
  <2>2. AddAll \/ CommandFails => GitStep
    BY <2>1 DEF GitStep
  <2>3. AddAll => ~unmerged'
    BY DEF AddAll
  <2> QED
    BY <1>6, <1>7, <1>12, <2>1, <2>2, <2>3 DEF CommitAdd, Step
<1>13. CASE CommitCommit(t)
  BY <1>6, <1>13 DEF CommitCommit, At, GitStep
<1>14. ASSUME NEW b \in Branches, NEW state \in States, ChangeState(t, b, state)
       PROVE  NamedInv'
  BY <1>1, <1>14, PaperworkKeepsNamed DEF ChangeState, Made
<1> QED
  BY <1>1, <1>4, <1>5, <1>9, <1>10, <1>11, <1>12, <1>13, <1>14 DEF BranchStep

-----------------------------------------------------------------------------
(* A run whose command left what its next command, or its result, needs.   *)
LEMMA RunKeepsNamed ==
  ASSUME NamedInv, TurnInv', NEW t \in Threads, exec[t] # Idle, exec[t].pc # "mark",
         UNCHANGED <<call, requests>>, GitStep,
         NEW pc \in Commands \cup {"settle"}, NEW ok \in BOOLEAN, NEW C,
         exec' = [exec EXCEPT ![t].pc = pc, ![t].ok = ok],
         held' = held \/ held' = [held EXCEPT ![exec[t].id] = C],
         pc \in {"add", "commit"} =>
            /\ ~unmerged'
            /\ Source(t) \in Existing' /\ Target(t) \in Branches
                  => tip'[Source(t)] \subseteq tip'[Target(t)] \cup staged',
         pc = "settle" /\ ok /\ Target(t) \in Branches =>
            Target(t) \in Existing' /\ held'[exec[t].id] \subseteq tip'[Target(t)]
  PROVE  NamedInv'
<1>1. TurnInv /\ MergeInv /\ RunInPlace(t) /\ CallInPlace(t) /\ DOMAIN held = Requests
  BY DEF NamedInv, TurnInv
<1>2. /\ exec'[t] # Idle /\ exec'[t].id = exec[t].id /\ exec'[t].pc = pc /\ exec'[t].ok = ok
      /\ \A u \in Threads \ {t} : exec'[u] = exec[u]
  BY <1>1, RunMoves
<1>3. requests[exec[t].id].status = "approved" /\ call[t] = Idle
  BY <1>1 DEF RunInPlace, CallInPlace
<1>4. Source(t)' = Source(t) /\ Target(t)' = Target(t)
  BY <1>2 DEF Source, Target
<1>5. CallUnspoilt(t)'
  BY <1>3 DEF CallUnspoilt, At
<1>6. RunHolds(t)'
  BY <1>2, <1>4 DEF RunHolds
<1>7. DOMAIN held' = Requests /\ \A r \in Requests \ {exec[t].id} : held'[r] = held[r]
  BY <1>1
<1>8. \A r \in Made' : requests'[r].status = "completed" =>
          r \in Made /\ requests'[r] = requests[r] /\ held'[r] = held[r]
  <2>1. Made \subseteq Requests /\ Made' = Made
    BY <1>1 DEF Made, MergeInv, RequestTypes
  <2> QED
    BY <1>3, <1>7, <2>1
<1>9. ~Free(t)
  BY DEF Free
<1> QED
  BY <1>2, <1>5, <1>6, <1>7, <1>8, <1>9, WorkKeeps

LEMMA ProceedKeepsNamed ==
  ASSUME NamedInv, TurnInv', NEW t \in Threads, exec[t] # Idle, exec[t].pc # "mark",
         UNCHANGED <<call, requests>>, GitStep, NEW pc \in Commands, Proceed(t, pc),
         pc \in {"add", "commit"} =>
            /\ ~unmerged'
            /\ Source(t) \in Existing' /\ Target(t) \in Branches
                  => tip'[Source(t)] \subseteq tip'[Target(t)] \cup staged'
  PROVE  NamedInv'
<1>1. TurnInv
  BY DEF NamedInv
<1>2. /\ exec[t].ok \in BOOLEAN /\ held' = held
      /\ exec' = [exec EXCEPT ![t].pc = pc, ![t].ok = exec[t].ok]
  BY <1>1, ProceedMoves
<1>3. pc # "settle"
  BY DEF Commands
<1> QED
  BY <1>2, <1>3, RunKeepsNamed

LEMMA FailKeepsNamed ==
  ASSUME NamedInv, TurnInv', NEW t \in Threads, exec[t] # Idle, exec[t].pc # "mark",
         UNCHANGED <<call, requests>>, GitStep, Fail(t)
  PROVE  NamedInv'
<1>1. exec' = [exec EXCEPT ![t].pc = "settle", ![t].ok = FALSE] /\ held' = held
  BY DEF Fail
<1> DEFINE pc == "settle"
           ok == FALSE
<1>2. /\ pc \in Commands \cup {"settle"} /\ pc \notin {"add", "commit"}
      /\ ok \in BOOLEAN /\ ~ok
  OBVIOUS
<1>3. exec' = [exec EXCEPT ![t].pc = pc, ![t].ok = ok]
  BY <1>1
<1> HIDE DEF pc, ok
<1> QED
  BY <1>1, <1>2, <1>3, RunKeepsNamed

(* perform_merge may return true where the target holds the source.        *)
LEMMA SucceedKeepsNamed ==
  ASSUME NamedInv, TurnInv', NEW t \in Threads, exec[t] # Idle, exec[t].pc # "mark",
         UNCHANGED <<call, requests>>, GitStep, Succeed(t),
         Target(t) \in Branches =>
            /\ Target(t) \in Existing'
            /\ Source(t) \in Existing => tip[Source(t)] \subseteq tip'[Target(t)]
  PROVE  NamedInv'
<1> DEFINE C == IF Source(t) \in Existing THEN tip[Source(t)] ELSE {}
<1>1. /\ exec' = [exec EXCEPT ![t].pc = "settle", ![t].ok = TRUE]
      /\ held' = [held EXCEPT ![exec[t].id] = C]
  BY DEF Succeed
<1>2. TurnInv /\ DOMAIN held = Requests
  BY DEF NamedInv
<1>3. exec[t].id \in DOMAIN held
  BY <1>2, RunFacts
<1>4. held'[exec[t].id] = C
  BY <1>1, <1>3
<1>5. Target(t) \in Branches => Target(t) \in Existing' /\ held'[exec[t].id] \subseteq tip'[Target(t)]
  BY <1>4
<1> DEFINE pc == "settle"
           ok == TRUE
<1>6. pc \in Commands \cup {"settle"} /\ pc \notin {"add", "commit"} /\ ok \in BOOLEAN
  OBVIOUS
<1>7. exec' = [exec EXCEPT ![t].pc = pc, ![t].ok = ok]
  BY <1>1
<1> HIDE DEF pc, ok, C
<1> QED
  BY <1>1, <1>5, <1>6, <1>7, RunKeepsNamed

(* What merging the source puts on the branch HEAD is on, or stages.       *)
LEMMA MergePuts ==
  ASSUME NEW s \in Existing, head \in Existing
  PROVE  /\ Merge(s) => tip[s] \subseteq tip'[head]
         /\ MergeSquash(s) => tip' = tip /\ ~unmerged' /\ tip[s] \subseteq tip[head] \cup staged'
<1>1. Holds(s) = {tip[s]} /\ HeadTip = tip[head]
  BY DEF Holds, HeadTip
<1>2. ASSUME Merge(s) PROVE tip[s] \subseteq tip'[head]
  BY <1>1, <1>2, AdvanceMoves DEF Merge
<1>3. ASSUME MergeSquash(s)
      PROVE  tip' = tip /\ ~unmerged' /\ tip[s] \subseteq tip[head] \cup staged'
  BY <1>1, <1>3 DEF MergeSquash, CanMerge
<1> QED
  BY <1>2, <1>3

LEMMA PerformKeepsNamed ==
  ASSUME NamedInv, TurnInv', NEW t \in Threads, Perform(t)
  PROVE  NamedInv'
<1>1. exec[t] # Idle /\ exec[t].pc # "mark" /\ UNCHANGED <<branches, call, requests>>
  BY DEF Perform, ToTarget, MergeNoFf, ToSource, RebaseSource, BackToTarget,
         MergeRebased, Squash, SquashAdd, SquashCommit, Running
<1>2. TurnInv /\ RunHolds(t)
  BY DEF NamedInv
<1>3. /\ Source(t) \in Names /\ Target(t) \in Names /\ Strategy(t) \in Strategies
      /\ Working(t) /\ Place(t) \in Branches => head = Place(t) /\ head \in Existing
  BY <1>1, <1>2, RunFacts
<1>4. GitStep /\ Fail(t) => NamedInv'
  BY <1>1, FailKeepsNamed
<1>5. ASSUME CommandFails, Fail(t) PROVE NamedInv'
  BY <1>4, <1>5 DEF GitStep
<1>6. ASSUME NEW n \in {Source(t), Target(t)}, Merge(n) \/ Rebase(n) \/ Checkout(n) \/ MergeSquash(n)
                \/ RebaseStops(n) \/ \E wait \in {"none", "merge"} : MergeStops(n, wait)
      PROVE  GitStep
  BY <1>3, <1>6 DEF GitStep
<1>7. ASSUME NEW pc \in Commands \ {"add", "commit"}, GitStep, Proceed(t, pc)
      PROVE  NamedInv'
  BY <1>1, <1>7, ProceedKeepsNamed
<1>8. CASE ToTarget(t)
  <2>1. AfterTarget(t) \in Commands \ {"add", "commit"}
    BY <1>3 DEF AfterTarget, Strategies, Commands
  <2> QED
    BY <1>4, <1>5, <1>6, <1>7, <1>8, <2>1 DEF ToTarget, Command
<1>9. CASE ToSource(t) \/ RebaseSource(t) \/ BackToTarget(t)
  <2>1. {"rebase", "back to target", "merge"} \subseteq Commands \ {"add", "commit"}
    BY DEF Commands
  <2> QED
    BY <1>4, <1>5, <1>6, <1>7, <1>9, <2>1 DEF ToSource, RebaseSource, BackToTarget, Command
<1>10. CASE MergeNoFf(t) \/ MergeRebased(t)
  <2>1. Target(t) \in Branches => head = Target(t) /\ head \in Existing
    BY <1>3, <1>10 DEF MergeNoFf, MergeRebased, Running, Working, Place, Where, Commands
  <2>2. ASSUME Merge(Source(t)), Succeed(t) PROVE NamedInv'
    <3>1. GitStep
      BY <1>6, <2>2
    <3>2. ASSUME Target(t) \in Branches
          PROVE  /\ Target(t) \in Existing'
                 /\ Source(t) \in Existing => tip[Source(t)] \subseteq tip'[Target(t)]
      BY <2>1, <2>2, <3>1, <3>2, GitMoves, MergePuts
    <3> QED
      BY <1>1, <2>2, <3>1, <3>2, SucceedKeepsNamed
  <2> QED
    BY <1>4, <1>5, <1>6, <1>10, <2>2 DEF MergeNoFf, MergeRebased, LastCommand
<1>11. CASE Squash(t)
  <2>1. Target(t) \in Branches => head = Target(t) /\ head \in Existing
    BY <1>3, <1>11 DEF Squash, Running, Working, Place, Where, Commands
  <2>2. ASSUME MergeSquash(Source(t)), Proceed(t, "add") PROVE NamedInv'
    <3>1. GitStep /\ ~unmerged' /\ tip' = tip /\ Existing' = Existing
      BY <1>6, <2>2 DEF MergeSquash, CanMerge, Existing
    <3>2. Source(t) \in Existing' /\ Target(t) \in Branches
             => tip'[Source(t)] \subseteq tip'[Target(t)] \cup staged'
      BY <2>1, <2>2, <3>1, MergePuts
    <3> QED
      BY <1>1, <2>2, <3>1, <3>2, ProceedKeepsNamed DEF Commands
  <2> QED
    BY <1>4, <1>5, <1>6, <1>11, <2>2 DEF Squash, Command
<1>12. CASE SquashAdd(t) \/ SquashCommit(t)
  <2>1. /\ ~unmerged
        /\ Source(t) \in Existing /\ Target(t) \in Branches
              => tip[Source(t)] \subseteq tip[Target(t)] \cup staged
        /\ Target(t) \in Branches => head = Target(t) /\ head \in Existing
    BY <1>2, <1>3, <1>12 DEF SquashAdd, SquashCommit, Running, Working, Place, Where, Commands,
                             RunHolds
  <2>2. AddAll \/ Commit => GitStep
    BY <2>1 DEF GitStep
  <2>3. ASSUME AddAll, Proceed(t, "commit") PROVE NamedInv'
    <3>1. ~unmerged' /\ tip' = tip /\ Existing' = Existing /\ staged \subseteq staged'
      BY <2>3 DEF AddAll, Existing
    <3>2. Source(t) \in Existing' /\ Target(t) \in Branches
             => tip'[Source(t)] \subseteq tip'[Target(t)] \cup staged'
      BY <2>1, <3>1
    <3> QED
      BY <1>1, <2>2, <2>3, <3>1, <3>2, ProceedKeepsNamed DEF Commands
  <2>4. ASSUME Commit, Succeed(t) PROVE NamedInv'
    <3>1. ASSUME Target(t) \in Branches
          PROVE  /\ Target(t) \in Existing'
                 /\ tip'[Target(t)] = tip[Target(t)] \cup staged
      BY <2>1, <2>4, <3>1, AdvanceMoves DEF Commit
    <3> QED
      BY <1>1, <2>1, <2>2, <2>4, <3>1, SucceedKeepsNamed
  <2> QED
    BY <1>4, <1>5, <1>12, <2>2, <2>3, <2>4 DEF SquashAdd, SquashCommit, Command, LastCommand
<1> QED
  BY <1>8, <1>9, <1>10, <1>11, <1>12 DEF Perform

(* Steps of execute_merge that run no command, and what the environment    *)
(* does, by people who repair only what is stopped.                        *)
LEMMA EnvironmentKeepsNamed ==
  ASSUME NamedInv, TurnInv', Environment, UNCHANGED <<requests, exec, held>>
  PROVE  NamedInv'
<1>1. /\ UNCHANGED <<tip, call>> /\ GitStep
      /\ Repair \/ \E c \in Changes : Edit(c)
  BY DEF Environment, GitStep, Repair, Edit
<1>2. ~unmerged => UNCHANGED <<unmerged, staged>>
  BY <1>1 DEF NamedInv, Calm, Repair, Edit
<1> QED
  BY <1>1, <1>2, BesideKeepsNamed DEF Made

LEMMA ExecuteKeepsNamed ==
  ASSUME NamedInv, TurnInv', NEW t \in Threads, NEW r \in Requests, Execute(t, r)
  PROVE  NamedInv'
<1> DEFINE run == [id |-> r, pc |-> "to target", ok |-> FALSE]
<1>1. exec \in [Threads -> {Idle} \cup Execs] /\ DOMAIN held = Requests
  BY DEF NamedInv, TurnInv, MergeInv, RequestTypes
<1>2. /\ Free(t) /\ exec' = [exec EXCEPT ![t] = run]
      /\ UNCHANGED <<gitVars, branches, call, held, requests>>
  BY DEF Execute, Quiet
<1>3. run \in Execs /\ run.pc = "to target"
  BY DEF Execs, Commands
<1> HIDE DEF run
<1>4. exec'[t] = run /\ \A u \in Threads \ {t} : exec'[u] = exec[u]
  BY <1>1, <1>2
<1>5. ~Free(t)'
  BY <1>3, <1>4, IdleExecAssumption DEF Free
<1>6. CallUnspoilt(t)' /\ RunHolds(t)' /\ GitStep
  BY <1>2, <1>3, <1>4 DEF CallUnspoilt, RunHolds, At, Free, GitStep, CommandFails
<1> QED
  BY <1>1, <1>2, <1>4, <1>5, <1>6, WorkKeeps DEF Made

LEMMA MarkKeepsNamed ==
  ASSUME NamedInv, TurnInv', NEW t \in Threads, Mark(t)
  PROVE  NamedInv'
<1>1. /\ TurnInv /\ CallInPlace(t) /\ DOMAIN held = Requests
      /\ exec \in [Threads -> {Idle} \cup Execs]
  BY DEF NamedInv, TurnInv, MergeInv, RequestTypes
<1>2. /\ exec[t] # Idle /\ exec' = [exec EXCEPT ![t] = Idle]
      /\ UNCHANGED <<gitVars, call, held, requests>>
  BY DEF Mark, Running
<1>3. exec'[t] = Idle /\ \A u \in Threads \ {t} : exec'[u] = exec[u]
  BY <1>1, <1>2
<1>4. CallUnspoilt(t)' /\ RunHolds(t)' /\ ~Free(t) /\ GitStep
  BY <1>1, <1>2, <1>3
     DEF CallInPlace, CallUnspoilt, RunHolds, At, Free, GitStep, CommandFails
<1> QED
  BY <1>1, <1>2, <1>3, <1>4, WorkKeeps DEF Made

(* A request is completed only where perform_merge returned true, and then *)
(* its target holds what its source held.                                  *)
LEMMA SettleKeepsNamed ==
  ASSUME NamedInv, TurnInv', NEW t \in Threads, Settle(t)
  PROVE  NamedInv'
<1> DEFINE id == exec[t].id
<1>1. /\ TurnInv /\ CallInPlace(t) /\ RunHolds(t) /\ DOMAIN held = Requests /\ CompletedIsHeld
      /\ exec \in [Threads -> {Idle} \cup Execs] /\ requests \in [Made -> Request]
      /\ Calm /\ NothingDamaged /\ InTurn /\ InTurn'
  BY DEF NamedInv, TurnInv, MergeInv, RequestTypes
<1>2. /\ exec[t] # Idle /\ exec[t].pc = "settle"
      /\ requests' = [requests EXCEPT ![id].status = IF exec[t].ok THEN "completed" ELSE "failed"]
      /\ exec' = IF exec[t].ok THEN [exec EXCEPT ![t].pc = "mark"] ELSE [exec EXCEPT ![t] = Idle]
      /\ UNCHANGED <<gitVars, branches, call, held>>
  BY DEF Settle, Running, Quiet
<1>3. exec[t] \in Execs /\ id \in Made
  BY <1>1, <1>2, RunFacts
<1>4. \A u \in Threads \ {t} : exec'[u] = exec[u]
  BY <1>1, <1>2
<1>5. exec'[t] = Idle \/ exec'[t] = [exec[t] EXCEPT !.pc = "mark"]
  BY <1>1, <1>2
<1>6. [exec[t] EXCEPT !.pc = "mark"].pc = "mark"
  BY <1>3 DEF Execs
<1>7. /\ UNCHANGED <<tip, staged, unmerged, stopped, markers, damaged, call, held>>
      /\ Existing' = Existing
  BY <1>2 DEF gitVars, Existing
<1>8. CallUnspoilt(t)' /\ RunHolds(t)' /\ ~Free(t)
  BY <1>1, <1>2, <1>5, <1>6, <1>7 DEF CallInPlace, CallUnspoilt, RunHolds, At, Free
<1>9. \A u \in Threads \ {t} : CallUnspoilt(u)' /\ RunHolds(u)'
  <2>1. \A u \in Threads \ {t} : Free(u)'
    BY <1>1, <1>4, <1>7, <1>8, OthersFree
  <2> QED
    BY <2>1 DEF Free, CallUnspoilt, RunHolds, At
<1>10. Calm' /\ NothingDamaged'
  BY <1>1, <1>7 DEF Calm, NothingDamaged
<1>11. CompletedIsHeld'
  <2>1. Made' = Made /\ \A r \in Made \ {id} : requests'[r] = requests[r]
    BY <1>1, <1>2 DEF Made
  <2>2. /\ requests'[id].target = requests[id].target
        /\ requests'[id].status = "completed" => exec[t].ok
    BY <1>1, <1>2, <1>3 DEF Request, Execs
  <2>3. exec[t].ok /\ requests[id].target \in Branches
          => requests[id].target \in Existing /\ held[id] \subseteq tip[requests[id].target]
    BY <1>1, <1>2 DEF RunHolds, Target
  <2> HIDE DEF id
  <2> QED
    BY <1>1, <1>7, <2>1, <2>2, <2>3 DEF CompletedIsHeld
<1> QED
  BY <1>1, <1>7, <1>8, <1>9, <1>10, <1>11 DEF NamedInv

LEMMA StepKeepsNamed ==
  ASSUME NamedInv, CommitsAreNamed, [MergeNext /\ InTurn' /\ CommitsAreNamed']_mergeVars
  PROVE  NamedInv' /\ CommitsAreNamed'
<1>0. TurnInv' /\ MergeInv /\ RequestTypes
  BY StepKeepsTurn DEF NamedInv, TurnInv, MergeInv
<1>1. CASE UNCHANGED mergeVars
  <2>1. NamedInv'
    BY <1>0, <1>1, PaperworkKeepsNamed DEF mergeVars, Made
  <2> QED
    BY <1>1, <2>1 DEF mergeVars, CommitsAreNamed
<1>2. CASE MergeNext /\ InTurn' /\ CommitsAreNamed'
  <2> USE <1>0, <1>2
  <2>1. CASE Environment /\ UNCHANGED <<requests, exec, held>>
    BY <2>1, EnvironmentKeepsNamed
  <2>2. ASSUME NEW t \in Threads, BranchCall(t) PROVE NamedInv'
    BY <2>2, BranchCallKeepsNamed
  <2>3. ASSUME NEW t \in Threads, NEW r \in Requests,
               \/ \E s \in Names, g \in Names, strategy \in Strategies :
                     RequestMerge(t, r, s, g, strategy)
               \/ \E status \in {"approved", "rejected"} : Review(t, r, status)
        PROVE  NamedInv'
    BY <2>3, PaperworkDoes, PaperworkKeepsNamed
  <2>4. ASSUME NEW t \in Threads, NEW r \in Requests, NEW b \in Branches, AutoMerge(t, r, b)
        PROVE  NamedInv'
    BY <2>3, <2>4, AutoRequests
  <2>5. ASSUME NEW t \in Threads, MergeStep(t) PROVE NamedInv'
    BY <2>3, <2>4, <2>5, ExecuteKeepsNamed, PerformKeepsNamed, SettleKeepsNamed, MarkKeepsNamed
       DEF MergeStep
  <2> QED
    BY <2>1, <2>2, <2>5 DEF MergeNext
<1> QED
  BY <1>1, <1>2

LEMMA StartsNamed == MergeInit => NamedInv /\ CommitsAreNamed
<1> SUFFICES ASSUME MergeInit PROVE NamedInv /\ CommitsAreNamed
  OBVIOUS
<1>1. TurnInv
  BY StartsInTurn
<1>2. \A t \in Threads : call[t] = Idle /\ exec[t] = Idle
  BY DEF MergeInit, BranchInit
<1>3. Made = {} /\ DOMAIN held = Requests
  BY DEF MergeInit, Made
<1>4. Calm /\ NothingDamaged
  BY DEF MergeInit, BranchInit, GitInit, Calm, NothingDamaged
<1> QED
  BY <1>1, <1>2, <1>3, <1>4
     DEF NamedInv, CallUnspoilt, RunHolds, At, CompletedIsHeld, CommitsAreNamed

LEMMA NamedInvariant == NamedSpec => []NamedInv
<1>1. NamedInv /\ CommitsAreNamed /\ [MergeNext /\ InTurn' /\ CommitsAreNamed']_mergeVars
        => (NamedInv /\ CommitsAreNamed)'
  BY StepKeepsNamed
<1> QED
  BY StartsNamed, <1>1, PTL DEF NamedSpec

(* The same of the instances TLC runs, in the scenario whose calls are     *)
(* made in turn and commit to branches.                                    *)
MCNamedInv == scenario = "named" => NamedInv /\ CommitsAreNamed

LEMMA MCNamedInvariant == MCSpec => []MCNamedInv
<1>1. MCInit => MCNamedInv
  BY StartsNamed DEF MCInit, MCNamedInv
<1>2. MCTurnInv /\ MCNamedInv /\ [MCNext]_<<mergeVars, scenario>> => MCNamedInv'
  BY MCStepInTurn, StepKeepsNamed DEF MCNamedInv
<1> QED
  BY <1>1, <1>2, MCTurnInvariant, PTL DEF MCSpec

-----------------------------------------------------------------------------
(* Of calls in turn, of which commit_changes is told names of branches and *)
(* the others whatever names: if the target of a completed request is the  *)
(* name of a branch, the branch holds what the source held, whatever people *)
(* edit and whichever commands fail on the way.                            *)
THEOREM MergedIsHeld ==
  (NamedSpec => []CompletedIsHeld) /\ (MCSpec => []CompletedIsHeldInTurn)
<1>1. NamedInv => CompletedIsHeld
  BY DEF NamedInv
<1>2. MCNamedInv => CompletedIsHeldInTurn
  BY <1>1 DEF MCNamedInv, CompletedIsHeldInTurn
<1> QED
  BY <1>1, <1>2, NamedInvariant, MCNamedInvariant, PTL

(* Of the same calls: no branch gets a commit with conflict markers.       *)
THEOREM MarkersAreNotCommitted ==
  (NamedSpec => []NothingDamaged) /\ (MCSpec => []NothingDamagedInTurn)
<1>1. NamedInv => NothingDamaged
  BY DEF NamedInv
<1>2. MCNamedInv => NothingDamagedInTurn
  BY <1>1 DEF MCNamedInv, NothingDamagedInTurn
<1> QED
  BY <1>1, <1>2, NamedInvariant, MCNamedInvariant, PTL

(* Of calls in turn: a request that was run keeps its outcome.             *)
THEOREM OutcomesAreFinal ==
  (TurnSpec => [][OutcomeStays]_mergeVars) /\ (MCSpec => OutcomeStaysInTurn)
<1>1. TurnInv /\ [MergeNext /\ InTurn']_mergeVars => [OutcomeStays]_mergeVars
  BY StepsKeepOutcome
<1>2. MCTurnInv /\ [MCNext]_<<mergeVars, scenario>> => [scenario # "any" => OutcomeStays]_mergeVars
  BY StepsKeepOutcome DEF MCTurnInv, MCNext
<1>3. TurnSpec => [][OutcomeStays]_mergeVars
  BY <1>1, TurnInvariant, PTL DEF TurnSpec
<1>4. MCSpec => OutcomeStaysInTurn
  BY <1>2, MCTurnInvariant, PTL DEF MCSpec, OutcomeStaysInTurn
<1> QED
  BY <1>3, <1>4

(* Of calls in turn, given any names: a commit is made by a call that is    *)
(* under way, and lands on the branch that the call was told, unless what  *)
(* it was told is not the name of a branch.                                *)
THEOREM CommitsLandWhereTold ==
  (TurnSpec => [][CommitsLand]_mergeVars) /\ (MCSpec => CommitsLandInTurn)
<1>1. TurnInv /\ [MergeNext /\ InTurn']_mergeVars => [CommitsLand]_mergeVars
  BY StepsLand
<1>2. MCTurnInv /\ [MCNext]_<<mergeVars, scenario>> => [scenario # "any" => CommitsLand]_mergeVars
  BY StepsLand DEF MCTurnInv, MCNext
<1>3. TurnSpec => [][CommitsLand]_mergeVars
  BY <1>1, TurnInvariant, PTL DEF TurnSpec
<1>4. MCSpec => CommitsLandInTurn
  BY <1>2, MCTurnInvariant, PTL DEF MCSpec, CommitsLandInTurn
<1> QED
  BY <1>3, <1>4

(* A server with one HTTP worker makes its calls in turn, so it takes       *)
(* overlapping calls to give a request a second outcome, or to make a       *)
(* commit land on a branch other than the one its call named; and if its   *)
(* calls of commit_changes name branches, neither failing commands nor      *)
(* conflicts nor people editing make a completed merge one that is not.    *)
THEOREM OneWorkerIsInTurn ==
  ASSUME \A t, u \in Threads : t = u
  PROVE  MergeSpec => /\ [][OutcomeStays]_mergeVars /\ [][CommitsLand]_mergeVars
                      /\ []CommitsAreNamed => []CompletedIsHeld /\ []NothingDamaged
<1>1. InTurn'
  BY DEF InTurn
<1>2. [MergeNext]_mergeVars => [MergeNext /\ InTurn']_mergeVars
  BY <1>1
<1>3. MergeSpec => TurnSpec
  BY <1>2, PTL DEF MergeSpec, TurnSpec
<1>4. CommitsAreNamed' /\ [MergeNext]_mergeVars
        => [MergeNext /\ InTurn' /\ CommitsAreNamed']_mergeVars
  BY <1>1
<1>5. MergeSpec /\ []CommitsAreNamed => NamedSpec
  BY <1>4, PTL DEF MergeSpec, NamedSpec
<1> QED
  BY <1>3, <1>5, MergedIsHeld, MarkersAreNotCommitted, OutcomesAreFinal, CommitsLandWhereTold,
     PTL
=============================================================================
