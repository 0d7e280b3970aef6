------------------------------ MODULE HttpAccess ------------------------------
(***************************************************************************)
(* How the HTTP transport lets a request in (http/handler.cpp, handle_post *)
(* and handle_get): first the rate limiter, for the remote address, then   *)
(* authenticate, each under a lock of its own, on any worker.  What is     *)
(* done with an authenticated request is in other modules.                 *)
(***************************************************************************)
EXTENDS RateLimiter, AuthProvider

CONSTANT MaxPending     \* bound: requests between the two steps

ASSUME PendingAssumption == MaxPending \in Nat

VARIABLE pending        \* the number of requests between the two steps

vars == <<now, limiterVars, tokenVars, pending>>

AccessTypeOK ==
    /\ LimiterTypeOK
    /\ TokenTypeOK
    /\ pending \in 0..MaxPending

Init ==
    /\ ClockInit /\ LimiterInit /\ TokenInit
    /\ pending = 0

(* A request of address k is let through to authenticate, *)
Arrives(k) ==
    /\ pending < MaxPending
    /\ Admit(k)
    /\ pending' = pending + 1
    /\ UNCHANGED <<now, tokenVars>>

(* or answered 429. *)
Throttled(k) ==
    /\ Refuse(k)
    /\ UNCHANGED <<now, tokenVars, pending>>

(* authenticate: the request goes on, with the role of its token, *)
Accepted(t) ==
    /\ pending > 0
    /\ Valid(t)
    /\ pending' = pending - 1
    /\ UNCHANGED <<now, limiterVars, tokenVars>>

(* or is answered 401: it has no token, or not a valid one. *)
Denied ==
    /\ pending > 0
    /\ pending' = pending - 1
    /\ UNCHANGED <<now, limiterVars, tokenVars>>

Restart ==
    /\ Forget
    /\ buckets' = Empty /\ admitted' = Empty
    /\ pending' = 0
    /\ UNCHANGED now

Next ==
    \/ Passes /\ UNCHANGED <<limiterVars, tokenVars, pending>>
    \/ TokenStep /\ UNCHANGED <<now, limiterVars, pending>>
    \/ \E k \in Keys : Arrives(k) \/ Throttled(k)
    \/ Denied \/ \E t \in Tokens : Accepted(t)
    \/ Restart

Spec == Init /\ [][Next]_vars

-----------------------------------------------------------------------------
(* Whoever is answered 429 had its share of the last period: a refusal     *)
(* costs nothing and one address cannot use up another's.                  *)
RefusedOnlyAtLimit == [][\A k \in Keys : Throttled(k) => RefusedAtLimit(k)]_vars

(* A revoked token is never accepted again.  The set of revoked ids is lost *)
(* when the process ends, but so is the set of active ones, and a token    *)
(* that was being refreshed does not come back either.                     *)
RevokedForever == [][\A t \in Tokens : Accepted(t) => t \notin withdrawn]_vars

(* "Use this token as: Authorization: Bearer <token>" (main.cpp:257): what  *)
(* --enroll printed is accepted while it has not expired.                  *)
EnrolledIsAccepted == \A t \in enrolled \ withdrawn : now <= expires[t] => Valid(t)
=============================================================================
