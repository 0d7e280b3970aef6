------------------------- MODULE MCMergeCoordinator -------------------------
(* Small instances of the merge coordinator for TLC, in three scenarios.    *)
(*   any      calls of several threads at once, all given names of branches *)
(*   in turn  calls in turn; commit_changes is given any name               *)
(*   named    calls in turn; requests are given any two names               *)
(* The last has two changes, which is what it takes for branches to         *)
(* conflict; the others have one.                                          *)
EXTENDS MergeCoordinator, Naturals, TLC

VARIABLE scenario

MCInit == MergeInit /\ scenario \in {"any", "in turn", "named"}

OneChange ==
    Cardinality(tree \cup staged \cup loose \cup UNION {tip[b] : b \in Existing}) <= 1

BasesAreNamed == \A t \in Threads : call[t] # Idle => call[t].base \in Branches

RequestsAreNamed ==
    \A r \in Made : {requests[r].source, requests[r].target} \subseteq Branches

(* No other state of a branch makes a difference to what is done with it.  *)
TwoStates == \A b \in Registered : branches[b].state \in {"active", "merged"}

Bounds ==
    CASE scenario = "any"     -> /\ CommitsAreNamed /\ BasesAreNamed
                                 /\ RequestsAreNamed /\ OneChange /\ TwoStates
      [] scenario = "in turn" -> InTurn /\ RequestsAreNamed /\ OneChange
      [] scenario = "named"   -> InTurn /\ CommitsAreNamed /\ TwoStates

MCNext == MergeNext /\ UNCHANGED scenario /\ Bounds'

MCSpec == MCInit /\ [][MCNext]_<<mergeVars, scenario>>

Symmetry == Permutations(Changes) \cup Permutations(Threads)
              \cup Permutations(Requests) \cup Permutations(Branches \ {Main})

-----------------------------------------------------------------------------
(* Of calls in turn that commit to branches and merge any two names: a      *)
(* completed request's target, if it is a branch, holds what the source did. *)
CompletedIsHeldInTurn == scenario = "named" => CompletedIsHeld

(* Of the same calls: none commits the conflict markers that a merge or a   *)
(* rebase left, in its own run or in an earlier call.                      *)
NothingDamagedInTurn == scenario = "named" => NothingDamaged

(* Of calls in turn: a request that was run keeps its outcome.             *)
OutcomeStaysInTurn == [][scenario # "any" => OutcomeStays]_mergeVars

(* Of calls in turn, given any names: every commit lands where its call was *)
(* told to put it, if that is a branch.                                    *)
CommitsLandInTurn == [][scenario # "any" => CommitsLand]_mergeVars
=============================================================================
