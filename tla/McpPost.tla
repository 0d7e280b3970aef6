------------------------------- MODULE McpPost -------------------------------
(***************************************************************************)
(* A POST to the server from authentication to its reply (handle_post in   *)
(* http/handler.cpp) on the workers of the HTTP library.  The body is a    *)
(* batch; a single request is a batch of one.  Each request of it is given *)
(* the identity of the POST's token and handled in turn, while other       *)
(* workers do the same: the protocol keeps one flag initialized_ for all   *)
(* clients.  What a token is good for is in HttpAccess; here it is a role. *)
(* A process that is killed replies to nothing.                            *)
(***************************************************************************)
EXTENDS McpProtocol, Sequences

CONSTANTS
    Workers,
    Bodies,     \* the batches that clients send, sequences of requests
    Malformed,  \* a request with a member of a type the code does not expect
    NoPost      \* a worker without a POST

Requests == [method : Methods, name : Tools \cup Resources \cup Prompts \cup {"", "no such"},
             id : Nat \cup {NoId}, auth : Roles \cup {NoRole}, inner : Roles \cup {NoRole}]

(* At most kMaxJsonRpcBatchSize of them; a client numbers its requests.     *)
ASSUME BodiesAssumption ==
    /\ Bodies \subseteq Seq(Requests \cup {Malformed})
    /\ Malformed \notin Requests

VARIABLES
    initialized,    \* initialized_
    post            \* per worker: the role of the token, the body, what its
                    \* requests were answered, and with which role the handlers
                    \* they called have run, as far as it was worked on, and
                    \* the reply

postVars == <<initialized, post>>

Replies == {"pending", "answers", "accepted", "rejected", "failed"}

PostInit ==
    /\ initialized = FALSE
    /\ post = [w \in Workers |-> NoPost]

-----------------------------------------------------------------------------
NewPost(role, body, reply) ==
    [role |-> role, body |-> body, answers |-> <<>>, ran |-> <<>>, reply |-> reply]

Receive(w) ==
    /\ post[w] = NoPost
    /\ \E role \in Roles, body \in Bodies :
          post' = [post EXCEPT ![w] = NewPost(role, body, "pending")]
    /\ UNCHANGED initialized

(* An empty body, one that is no JSON, a batch of more than the maximum.   *)
Reject(w) ==
    /\ post[w] = NoPost
    /\ \E role \in Roles : post' = [post EXCEPT ![w] = NewPost(role, <<>>, "rejected")]
    /\ UNCHANGED initialized

Pending(w) == post[w] # NoPost /\ post[w].reply = "pending"

(* The request of the body whose turn it is. *)
Turn(w) == Len(post[w].answers) + 1

(* merge_patch: the token's `_auth` replaces what the client put there.     *)
InjectedIfMissing(r, role) == IF r.auth = NoRole THEN [r EXCEPT !.auth = role] ELSE r
Injected(r, role) == [r EXCEPT !.auth = role]

Handle(w) ==
    /\ Pending(w)
    /\ Turn(w) \in DOMAIN post[w].body
    /\ post[w].body[Turn(w)] # Malformed
    /\ LET r == Injected(post[w].body[Turn(w)], post[w].role)
           saw == IF Runs(r, initialized) THEN RoleGiven(r) ELSE NoRole
       IN  /\ initialized' = (initialized \/ r.method = "initialize")
           /\ \E ok \in BOOLEAN :
                 /\ ok \/ Runs(r, initialized)
                 /\ post' = [post EXCEPT
                      ![w].answers = Append(@, Answer(r, initialized, ok)),
                      ![w].ran = Append(@, saw)]

(* The exception leaves handle_post: 500, and no answer to any request.    *)
Fail(w) ==
    /\ Pending(w)
    /\ Turn(w) \in DOMAIN post[w].body
    /\ post[w].body[Turn(w)] = Malformed
    /\ post' = [post EXCEPT ![w].reply = "failed"]
    /\ UNCHANGED initialized

(* 202 without answers if nothing in the body has an id. *)
HasId(body, i) == body[i] # Malformed /\ body[i].id # NoId
ReplyByLast(body) ==
    IF body # <<>> /\ HasId(body, Len(body)) THEN "answers" ELSE "accepted"
ReplyTo(body) ==
    IF \E i \in DOMAIN body : HasId(body, i) THEN "answers" ELSE "accepted"

Reply(w) ==
    /\ Pending(w)
    /\ Turn(w) \notin DOMAIN post[w].body
    /\ post' = [post EXCEPT ![w].reply = ReplyTo(post[w].body)]
    /\ UNCHANGED initialized

(* The reply is sent and the worker free again. *)
Sent(w) ==
    /\ post[w] # NoPost /\ post[w].reply # "pending"
    /\ post' = [post EXCEPT ![w] = NoPost]
    /\ UNCHANGED initialized

(* The process starts anew; its clients are not told. *)
Restart ==
    /\ initialized' = FALSE
    /\ post' = [w \in Workers |-> NoPost]

PostNext ==
    \/ \E w \in Workers : Receive(w) \/ Reject(w) \/ Handle(w) \/ Fail(w) \/ Reply(w) \/ Sent(w)
    \/ Restart

PostSpec == PostInit /\ [][PostNext]_postVars

-----------------------------------------------------------------------------
Outcomes == [id : Nat \cup {NoId}, kind : Kinds]

Posts == [role : Roles, body : Seq(Requests \cup {Malformed}), answers : Seq(Outcomes),
          ran : Seq(Roles \cup {NoRole}), reply : Replies]

(* A POST is answered as far as it was worked on, and completely when it    *)
(* is replied to with answers.                                             *)
PostTypeOK ==
    /\ initialized \in BOOLEAN
    /\ post \in [Workers -> Posts \cup {NoPost}]
    /\ \A w \in Workers : post[w] # NoPost =>
          /\ Len(post[w].answers) <= Len(post[w].body)
          /\ Len(post[w].ran) = Len(post[w].answers)

(* Roles decide what agents can do (include/mcp_collab/auth.hpp:22), not    *)
(* what a request says of its sender: a tool runs only for a POST whose     *)
(* token's role has the tool's permission, the tool is given that role,    *)
(* and somebody initialized the server before, whatever else is in the     *)
(* batch and in those of other workers.                                    *)
OnlyPermittedRuns ==
    \A w \in Workers : post[w] # NoPost =>
        \A i \in DOMAIN post[w].ran : post[w].ran[i] # NoRole =>
            /\ post[w].ran[i] = post[w].role
            /\ post[w].body[i].method = "tools/call"
            /\ HasPermission(post[w].role, Required[post[w].body[i].name])
            /\ initialized

(* What a client is told is what happened.  In a reply with answers each   *)
(* request that has an id is answered in its place and under its id, and   *)
(* an answer is a tool's if and only if the tool ran.  A reply without     *)
(* answers other than 500 hides no run the client asked an answer for.     *)
AnswersTell(p) ==
    p.reply = "answers" =>
        \A i \in DOMAIN p.body :
            p.body[i].id # NoId /\ p.body[i].method = "tools/call" =>
                /\ p.answers[i].id = p.body[i].id
                /\ p.answers[i].kind \in {"result", "tool error"} <=> p.ran[i] # NoRole

SilenceTells(p) ==
    p.reply \in {"accepted", "rejected"} =>
        \A i \in DOMAIN p.ran : p.ran[i] # NoRole => p.body[i].id = NoId

ToldIsTrue ==
    \A w \in Workers : post[w] # NoPost => AnswersTell(post[w]) /\ SilenceTells(post[w])
=============================================================================
