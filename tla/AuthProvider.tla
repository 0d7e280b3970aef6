----------------------------- MODULE AuthProvider -----------------------------
(***************************************************************************)
(* Tokens (util/auth.cpp).  A token is its id here: signed means that its  *)
(* HMAC was made with the swarm's secret, by the server's own provider or  *)
(* by the process that `--enroll` runs.  A provider keeps what it issued   *)
(* and what it revoked in memory.  issue_token, revoke_token and           *)
(* refresh_token are its interface; the server's program calls none of     *)
(* them itself.                                                            *)
(***************************************************************************)
EXTENDS Clock

CONSTANTS
    Tokens,     \* token ids
    Ttl,        \* ticks a token lives
    Refreshers, \* threads that call refresh_token
    NoToken

ASSUME TokenAssumption == NoToken \notin Tokens /\ Ttl \in Nat

VARIABLES
    signed,     \* the tokens there are, with a good signature
    expires,    \* expires_at
    active,     \* active_tokens_ of the server's provider
    revoked,    \* revoked_token_ids_ of the server's provider
    refresh,    \* what a refresh_token call has done of what to which token
    enrolled,   \* history: the tokens that --enroll printed
    withdrawn   \* history: the tokens that were revoked, in any run

tokenVars == <<signed, expires, active, revoked, refresh, enrolled, withdrawn>>

Idle == [stage |-> "idle", token |-> NoToken]

TokenTypeOK ==
    /\ signed \subseteq Tokens /\ active \subseteq signed
    /\ expires \in [Tokens -> 0..MaxTime + Ttl]
    /\ revoked \subseteq Tokens /\ enrolled \subseteq signed /\ withdrawn \subseteq Tokens
    /\ refresh \in [Refreshers ->
         [stage : {"idle", "validated", "revoked"}, token : Tokens \cup {NoToken}]]

TokenInit ==
    /\ signed = {} /\ active = {} /\ revoked = {}
    /\ expires = [t \in Tokens |-> 0]
    /\ refresh = [r \in Refreshers |-> Idle]
    /\ enrolled = {} /\ withdrawn = {}

(* validate_token: what the provider did not issue in this run is unknown.  *)
ValidBySignature(t) == t \in signed /\ t \notin revoked /\ now <= expires[t]
Valid(t) ==
    /\ t \in signed
    /\ t \in active
    /\ t \notin revoked
    /\ now <= expires[t]

Signs(t) ==
    /\ t \in Tokens \ signed
    /\ signed' = signed \cup {t}
    /\ expires' = [expires EXCEPT ![t] = now + Ttl]

(* `swarm-mcp --enroll`: a provider of its own issues and prints a token.   *)
Enroll(t) ==
    /\ Signs(t)
    /\ enrolled' = enrolled \cup {t}
    /\ UNCHANGED <<active, revoked, refresh, withdrawn>>

Issue(t) ==
    /\ Signs(t)
    /\ active' = active \cup {t}

IssueToken(t) ==
    /\ Issue(t)
    /\ UNCHANGED <<revoked, refresh, enrolled, withdrawn>>

Revoke(t) ==
    /\ revoked' = revoked \cup {t}
    /\ active' = active \ {t}
    /\ withdrawn' = withdrawn \cup {t}

RevokeToken(t) ==
    /\ t \in signed
    /\ Revoke(t)
    /\ UNCHANGED <<signed, expires, refresh, enrolled>>

(* refresh_token validates, revokes and issues, each under the lock alone. *)
RefreshValidates(r, t) ==
    /\ refresh[r].stage = "idle"
    /\ Valid(t)
    /\ refresh' = [refresh EXCEPT ![r] = [stage |-> "validated", token |-> t]]
    /\ UNCHANGED <<signed, expires, active, revoked, enrolled, withdrawn>>

RefreshRevokes(r) ==
    /\ refresh[r].stage = "validated"
    /\ Revoke(refresh[r].token)
    /\ refresh' = [refresh EXCEPT ![r].stage = "revoked"]
    /\ UNCHANGED <<signed, expires, enrolled>>

RefreshIssues(r, t) ==
    /\ refresh[r].stage = "revoked"
    /\ Issue(t)
    /\ refresh' = [refresh EXCEPT ![r] = Idle]
    /\ UNCHANGED <<revoked, enrolled, withdrawn>>

(* The server's process starts anew; what was signed stays signed. *)
Forget ==
    /\ active' = {} /\ revoked' = {}
    /\ refresh' = [r \in Refreshers |-> Idle]
    /\ UNCHANGED <<signed, expires, enrolled, withdrawn>>

TokenStep ==
    \/ \E t \in Tokens : Enroll(t) \/ IssueToken(t) \/ RevokeToken(t)
    \/ \E r \in Refreshers :
         \/ RefreshRevokes(r)
         \/ \E t \in Tokens : RefreshValidates(r, t) \/ RefreshIssues(r, t)
=============================================================================
