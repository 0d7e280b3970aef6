----------------------------- MODULE RateLimiter -----------------------------
(***************************************************************************)
(* RateLimiter::allow (http/handler.cpp): a sliding window over the times  *)
(* of the requests it let through, one deque per remote address.  The      *)
(* mutex is held over the whole call, the reading of the clock included.   *)
(* A limit of 0 or less, which turns it off, is left out.                  *)
(***************************************************************************)
EXTENDS Clock, Sequences

CONSTANTS
    Keys,       \* remote addresses
    Limit,      \* max_rpm_
    Period      \* the length of the window in seconds, 60 in the code

ASSUME LimiterAssumption == Limit \in Nat \ {0} /\ Period \in Nat \ {0}

VARIABLES
    buckets,    \* buckets_: for every address the times in its deque
    admitted    \* history: the times of all its admissions

limiterVars == <<buckets, admitted>>

Times == 0..MaxTime

LimiterTypeOK ==
    /\ now \in Times
    /\ buckets \in [Keys -> Seq(Times)]
    /\ \A k \in Keys : Len(buckets[k]) <= Limit
    /\ admitted \in [Keys -> Seq(Times)]

Empty == [k \in Keys |-> <<>>]

LimiterInit == buckets = Empty /\ admitted = Empty

(* Rounded up, a time is aged a second early. *)
AgedRoundedUp(t) == (now - t + Second - 1) \div Second >= Period
Aged(t) == SecondsSince(t) >= Period

(* The loop takes n times from the front: all aged, and the next one is not. *)
Evicts(k, n) ==
    /\ n \in 0..Len(buckets[k])
    /\ \A i \in 1..n : Aged(buckets[k][i])
    /\ n < Len(buckets[k]) => ~Aged(buckets[k][n + 1])

Kept(k, n) == SubSeq(buckets[k], n + 1, Len(buckets[k]))

Admit(k) == \E n \in 0..Len(buckets[k]) :
    /\ Evicts(k, n)
    /\ Len(Kept(k, n)) < Limit
    /\ buckets' = [buckets EXCEPT ![k] = Append(Kept(k, n), now)]
    /\ admitted' = [admitted EXCEPT ![k] = Append(@, now)]

(* A refusal that counts as a request, too. *)
RefuseAndCount(k) == \E n \in 0..Len(buckets[k]) :
    /\ Evicts(k, n)
    /\ Len(Kept(k, n)) >= Limit
    /\ buckets' = [buckets EXCEPT ![k] = Append(Tail(Kept(k, n)), now)]
    /\ UNCHANGED admitted
Refuse(k) == \E n \in 0..Len(buckets[k]) :
    /\ Evicts(k, n)
    /\ Len(Kept(k, n)) >= Limit
    /\ buckets' = [buckets EXCEPT ![k] = Kept(k, n)]
    /\ UNCHANGED admitted

-----------------------------------------------------------------------------
(* "this prevents a client from sending 2x the limit in a burst straddling  *)
(* a window boundary" (transport_http.hpp:48): of any Limit + 1 admissions  *)
(* of an address the last is a full period after the first.                *)
NeverOverLimit ==
    \A k \in Keys : \A i \in 1 .. Len(admitted[k]) - Limit :
        admitted[k][i + Limit] - admitted[k][i] >= Period * Second

(* An address is refused only when Limit requests of its were let through  *)
(* within the last period; refusals and other addresses count for nothing. *)
RefusedAtLimit(k) ==
    /\ Len(admitted[k]) >= Limit
    /\ now - admitted[k][Len(admitted[k]) + 1 - Limit] < Period * Second
=============================================================================
