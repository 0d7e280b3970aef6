------------------------------ MODULE GitRepo ------------------------------
(***************************************************************************)
(* The git repository the server drives, through the wrappers of           *)
(* git/operations.cpp.  exec runs one git process at a time (exec_mutex_), *)
(* so one command is one step; nothing spans two commands.  There is one   *)
(* working tree, shared by every thread of the server and by the agents,   *)
(* who edit its files.                                                     *)
(*                                                                         *)
(* A branch is the set of changes its tip contains; merging is union.  A   *)
(* wrapper returns whether the process exited with 0: each command below   *)
(* is a successful outcome, CommandFails the outcome without effect, and   *)
(* MergeStops and RebaseStops the failures that leave conflicts behind.    *)
(* exec kills a process after 30 seconds and reports failure; the process  *)
(* may have done its work by then, so a caller can see failure after any   *)
(* successful outcome too.                                                 *)
(*                                                                         *)
(* The wrappers give git whatever name they are given.  All names that are *)
(* not those of branches are one, Elsewhere: what git takes such a name    *)
(* for, a commit, a file or nothing, is chosen at every use of it.         *)
(***************************************************************************)
EXTENDS FiniteSets

CONSTANTS
    Branches,   \* the branch names in use
    Main,       \* the branch the repository starts on
    Elsewhere,  \* any other name: HEAD, a commit, a tag, origin/x, a file;
                \* and where HEAD is when it is on no branch
    Changes     \* the edits agents can make

ASSUME MainAssumption == Main \in Branches /\ Elsewhere \notin Branches

Names == Branches \cup {Elsewhere}

VARIABLES
    head,       \* the branch checked out, or Elsewhere
    tip,        \* per existing branch, the changes it contains
    loose,      \* what a HEAD that is on no branch contains
    tree,       \* changes in the working tree that are not staged
    staged,     \* changes in the index that are not committed
    unmerged,   \* the index has conflicting entries
    stopped,    \* "none", or the merge or rebase git waits to conclude
    markers,    \* conflict markers lie in the working tree or the index
    damaged,    \* history: the branches that got a commit with such markers
    origin      \* history: per branch, where HEAD was when it was created

gitVars == <<head, tip, loose, tree, staged, unmerged, stopped, markers, damaged, origin>>

Existing == DOMAIN tip

(* The repository has its types; Main exists, and HEAD is on a branch that  *)
(* does.                                                                   *)
GitTypeOK ==
    /\ Existing \subseteq Branches
    /\ Main \in Existing
    /\ head \in Existing \cup {Elsewhere}
    /\ tip \in [Existing -> SUBSET Changes]
    /\ loose \in SUBSET Changes
    /\ tree \in SUBSET Changes
    /\ staged \in SUBSET Changes
    /\ unmerged \in BOOLEAN
    /\ stopped \in {"none", "merge", "rebase"}
    /\ markers \in BOOLEAN
    /\ damaged \subseteq Branches
    /\ origin \in [Existing -> Names]

GitInit ==
    /\ head = Main
    /\ tip = [b \in {Main} |-> {}]
    /\ loose = {}
    /\ tree = {}
    /\ staged = {}
    /\ unmerged = FALSE
    /\ stopped = "none"
    /\ markers = FALSE
    /\ damaged = {}
    /\ origin = [b \in {Main} |-> Main]

-----------------------------------------------------------------------------
(* What HEAD contains. *)
HeadTip == IF head \in Existing THEN tip[head] ELSE loose

(* What a commit can contain. *)
Commits == SUBSET (loose \cup UNION {tip[b] : b \in Existing})

(* What the commit a name stands for contains; no file stands for one.     *)
Holds(n) ==
    IF n \in Existing THEN {tip[n]} ELSE IF n = Elsewhere THEN Commits ELSE {}

Clean == tree = {} /\ staged = {}

(* Put the changes C on the branch checked out, or on HEAD alone. *)
Advance(C) ==
    IF head \in Existing THEN /\ tip' = [tip EXCEPT ![head] = @ \cup C]
                              /\ UNCHANGED loose
                         ELSE /\ loose' = loose \cup C
                              /\ UNCHANGED tip

(* An agent edits the working tree: a change no branch has yet. *)
Edit(c) ==
    /\ c \notin tree \cup staged \cup UNION {tip[b] : b \in Existing}
    /\ tree' = tree \cup {c}
    /\ UNCHANGED <<head, tip, loose, staged, unmerged, stopped, markers, damaged, origin>>

(* Any command can fail without effect. *)
CommandFails == UNCHANGED gitVars

(* git checkout gives up a merge to conclude, and keeps a stopped rebase. *)
ForgetMerge == stopped' = IF stopped = "merge" THEN "none" ELSE stopped

(* git checkout of a branch: uncommitted changes travel along. *)
CheckoutBranch(b) ==
    /\ b \in Existing
    /\ ~unmerged
    /\ head' = b
    /\ loose' = {}
    /\ ForgetMerge
    /\ UNCHANGED <<tip, tree, staged, unmerged, markers, damaged, origin>>

(* A branch b made to hold C, from where HEAD is. *)
Start(b, C) ==
    /\ ~unmerged
    /\ head' = b
    /\ loose' = {}
    /\ ForgetMerge
    /\ tip' = [x \in Existing \cup {b} |-> IF x = b THEN C ELSE tip[x]]
    /\ origin' = [x \in Existing \cup {b} |-> IF x = b THEN head ELSE origin[x]]
    /\ UNCHANGED <<tree, staged, unmerged, markers, damaged>>

(* Of a name only a remote has a branch by, git makes one here. *)
CheckoutRemote(b) == b \in Branches \ Existing /\ \E C \in Commits : Start(b, C)

(* Of a commit, HEAD is put on no branch. *)
CheckoutCommit ==
    /\ ~unmerged
    /\ head' = Elsewhere
    /\ loose' \in Commits
    /\ ForgetMerge
    /\ UNCHANGED <<tip, tree, staged, unmerged, markers, damaged, origin>>

(* Of files, they get back what the index has, and HEAD stays; that a merge *)
(* or rebase has stopped in other files does not matter.                    *)
CheckoutFiles ==
    /\ tree' \in SUBSET tree
    /\ UNCHANGED <<head, tip, loose, staged, unmerged, stopped, markers, damaged, origin>>

(* git checkout n.  HEAD and @{-1} are names for the branch HEAD is or was  *)
(* on.                                                                     *)
Checkout(n) ==
    \/ CheckoutBranch(n)
    \/ CheckoutRemote(n)
    \/ /\ n = Elsewhere
       /\ CheckoutCommit \/ CheckoutFiles \/ \E b \in Existing : CheckoutBranch(b)

(* What git checkout -B would do in place of -b.                           *)
CheckoutReset(b) == Start(b, HeadTip)

(* git checkout -b b: from where HEAD is, and only if b does not exist. *)
CheckoutNew(b) == b \notin Existing /\ Start(b, HeadTip)

(* git add -A, git add .: everything is staged, and conflicting entries are *)
(* taken to be resolved.                                                   *)
AddAll ==
    /\ staged' = staged \cup tree
    /\ tree' = {}
    /\ unmerged' = FALSE
    /\ UNCHANGED <<head, tip, loose, stopped, markers, damaged, origin>>

(* git commit: there must be something to commit, or a merge to conclude.  *)
Commit ==
    /\ ~unmerged
    /\ staged # {} \/ stopped = "merge"
    /\ Advance(staged)
    /\ staged' = {}
    /\ markers' = FALSE
    /\ damaged' = IF markers THEN damaged \cup ({head} \cap Branches) ELSE damaged
    /\ stopped' = IF stopped = "merge" THEN "none" ELSE stopped
    /\ UNCHANGED <<head, tree, unmerged, origin>>

(* git merge needs a commit, no merge to conclude, and an index equal to   *)
(* HEAD unless there is nothing to merge.                                  *)
CanMerge(C) ==
    /\ ~unmerged
    /\ stopped # "merge"
    /\ staged = {} \/ C \subseteq HeadTip

Merge(n) ==
    /\ \E C \in Holds(n) : CanMerge(C) /\ Advance(C)
    /\ UNCHANGED <<head, tree, staged, unmerged, stopped, markers, damaged, origin>>

(* git merge --squash: the changes are staged and not committed. *)
MergeSquash(n) ==
    /\ \E C \in Holds(n) : CanMerge(C) /\ staged' = staged \cup (C \ HeadTip)
    /\ UNCHANGED <<head, tip, loose, tree, unmerged, stopped, markers, damaged, origin>>

(* Two sides that both have changes the other lacks can conflict. *)
Conflicts(C) == ~(C \subseteq HeadTip) /\ ~(HeadTip \subseteq C)

(* Git leaves the conflict in the index and the working tree and fails.    *)
MergeStops(n, wait) ==
    /\ \E C \in Holds(n) :
          CanMerge(C) /\ Conflicts(C) /\ staged' = staged \cup (C \ HeadTip)
    /\ unmerged' = TRUE
    /\ markers' = TRUE
    /\ stopped' = IF wait = "none" THEN stopped ELSE wait
    /\ UNCHANGED <<head, tip, loose, tree, damaged, origin>>

(* git rebase n: what is checked out gets n's changes below its own.       *)
CanRebase == ~unmerged /\ stopped = "none" /\ Clean

Rebase(n) ==
    /\ CanRebase
    /\ \E C \in Holds(n) : Advance(C)
    /\ UNCHANGED <<head, tree, staged, unmerged, stopped, markers, damaged, origin>>

(* HEAD is left on the commits of n. *)
RebaseStops(n) ==
    /\ CanRebase
    /\ \E C \in Holds(n) : Conflicts(C) /\ loose' = C /\ staged' = HeadTip \ C
    /\ head' = Elsewhere
    /\ unmerged' = TRUE
    /\ markers' = TRUE
    /\ stopped' = "rebase"
    /\ UNCHANGED <<tip, tree, damaged, origin>>

(* The code runs no command that concludes or aborts a stopped merge or    *)
(* rebase; a person does, in a shell: git merge --abort, git rebase        *)
(* --abort or git reset, then git checkout.                                *)
Repair ==
    /\ unmerged \/ stopped # "none"
    /\ head' = IF head = Elsewhere THEN Main ELSE head
    /\ loose' = {}
    /\ staged' = {}
    /\ unmerged' = FALSE
    /\ markers' = FALSE
    /\ stopped' = "none"
    /\ UNCHANGED <<tip, tree, damaged, origin>>
=============================================================================
