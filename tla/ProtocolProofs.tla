--------------------------- MODULE ProtocolProofs ---------------------------
(***************************************************************************)
(* Proofs about the MCP protocol: for every set of workers and batches of  *)
(* any length, and every table of tools and limits of any size.            *)
(***************************************************************************)
EXTENDS McpPost, McpList, SequenceTheorems, FiniteSetTheorems, TLAPS

(* What an answer says of a request that has met the transport.            *)
LEMMA AnswerTells ==
  ASSUME NEW r \in Requests, NEW up \in BOOLEAN, NEW ok \in BOOLEAN
  PROVE  /\ Answer(r, up, ok) \in Outcomes
         /\ r.id # NoId /\ r.method = "tools/call" =>
              /\ Answer(r, up, ok).id = r.id
              /\ Answer(r, up, ok).kind \in {"result", "tool error"} <=> Runs(r, up)
<1>1. r.id \in Nat \cup {NoId}
  BY DEF Requests
<1>2. CASE ~Admitted(r, up)
  BY <1>1, <1>2 DEF Answer, Outcomes, Kinds, Runs
<1>3. CASE Admitted(r, up) /\ (r.id = NoId \/ r.method = "notifications/initialized")
  BY <1>1, <1>3 DEF Answer, Outcomes, Kinds, Runs, Nothing
<1>4. CASE Admitted(r, up) /\ ~(r.id = NoId \/ r.method = "notifications/initialized")
  BY <1>1, <1>4 DEF Answer, Outcomes, Kinds, Runs
<1> QED
  BY <1>2, <1>3, <1>4

(* What injecting the token's role leaves of a request. *)
LEMMA InjectedKeeps ==
  ASSUME NEW r \in Requests, NEW role \in Roles
  PROVE  /\ Injected(r, role) \in Requests
         /\ Injected(r, role).auth = role
         /\ Injected(r, role).id = r.id
         /\ Injected(r, role).name = r.name
         /\ Injected(r, role).method = r.method
BY DEF Injected, Requests

(* The part of a POST that was worked on. *)
Handled(p) ==
    \A i \in DOMAIN p.answers :
        /\ p.body[i] \in Requests
        /\ p.body[i].id # NoId /\ p.body[i].method = "tools/call" =>
             /\ p.answers[i].id = p.body[i].id
             /\ p.answers[i].kind \in {"result", "tool error"} <=> p.ran[i] # NoRole
        /\ p.ran[i] # NoRole =>
             /\ p.ran[i] = p.role
             /\ p.body[i].method = "tools/call"
             /\ HasPermission(p.role, Required[p.body[i].name])

RepliedTo(p) ==
    /\ p.reply = "answers" => Len(p.answers) = Len(p.body)
    /\ p.reply = "accepted" => \A i \in DOMAIN p.body : ~HasId(p.body, i)
    /\ p.reply = "rejected" => p.answers = <<>>

PostOK(p) ==
    /\ p \in Posts
    /\ Len(p.answers) <= Len(p.body)
    /\ Len(p.ran) = Len(p.answers)
    /\ Handled(p)
    /\ RepliedTo(p)

AnyRan(p) == \E i \in DOMAIN p.ran : p.ran[i] # NoRole

PostInv ==
    /\ initialized \in BOOLEAN
    /\ post = [w \in Workers |-> post[w]]
    /\ \A w \in Workers : post[w] # NoPost => PostOK(post[w]) /\ (AnyRan(post[w]) => initialized)

(* A new POST. *)
LEMMA NewIsOK ==
  ASSUME NEW role \in Roles, NEW body \in Seq(Requests \cup {Malformed}),
         NEW reply \in {"pending", "rejected"}
  PROVE  PostOK(NewPost(role, body, reply)) /\ ~AnyRan(NewPost(role, body, reply))
<1> DEFINE p == NewPost(role, body, reply)
<1>1. p \in Posts /\ p.answers = <<>> /\ p.ran = <<>> /\ p.body = body /\ p.reply = reply
  BY DEF NewPost, Posts, Replies
<1> QED
  BY <1>1 DEF PostOK, Handled, RepliedTo, AnyRan

(* The next request of a POST is handled. *)
HandledPost(p, up, ok) ==
    LET r   == Injected(p.body[Len(p.answers) + 1], p.role)
        saw == IF Runs(r, up) THEN RoleGiven(r) ELSE NoRole
    IN  [p EXCEPT !.answers = Append(@, Answer(r, up, ok)), !.ran = Append(@, saw)]

LEMMA HandledIsOK ==
  ASSUME NEW p, PostOK(p), p.reply = "pending",
         Len(p.answers) + 1 \in DOMAIN p.body, p.body[Len(p.answers) + 1] # Malformed,
         NEW up \in BOOLEAN, NEW ok \in BOOLEAN
  PROVE  /\ PostOK(HandledPost(p, up, ok))
         /\ AnyRan(HandledPost(p, up, ok)) => AnyRan(p) \/ up
<1>1. PICK n : n = Len(p.answers) + 1
  OBVIOUS
<1>2. PICK r : r = Injected(p.body[n], p.role)
  OBVIOUS
<1>3. PICK saw : saw = IF Runs(r, up) THEN RoleGiven(r) ELSE NoRole
  OBVIOUS
<1>4. PICK a : a = Answer(r, up, ok)
  OBVIOUS
<1>5. PICK q : q = [p EXCEPT !.answers = Append(@, a), !.ran = Append(@, saw)]
  OBVIOUS
<1>6. q = HandledPost(p, up, ok)
  BY <1>1, <1>2, <1>3, <1>4, <1>5 DEF HandledPost
<1>7. n \in DOMAIN p.body /\ p.body[n] # Malformed
  BY <1>1
<1>8. /\ p \in Posts /\ p.answers \in Seq(Outcomes) /\ p.ran \in Seq(Roles \cup {NoRole})
      /\ p.body \in Seq(Requests \cup {Malformed}) /\ p.role \in Roles
      /\ Len(p.ran) = Len(p.answers) /\ Len(p.answers) <= Len(p.body)
  BY DEF PostOK, Posts
<1>9. p.body[n] \in Requests
  BY <1>8, <1>7
<1>10. /\ r \in Requests /\ r.auth = p.role /\ r.id = p.body[n].id
      /\ r.name = p.body[n].name /\ r.method = p.body[n].method
  BY <1>8, <1>9, <1>2, InjectedKeeps
<1>11. a \in Outcomes
  BY <1>10, <1>4, AnswerTells
<1>12. r.id # NoId /\ r.method = "tools/call" =>
           /\ a.id = r.id
           /\ a.kind \in {"result", "tool error"} <=> Runs(r, up)
  BY <1>10, <1>4, AnswerTells
<1>13. saw = IF Runs(r, up) THEN p.role ELSE NoRole
  BY <1>8, <1>10, <1>3, NoRoleAssumption DEF RoleGiven
<1>14. saw \in Roles \cup {NoRole}
  BY <1>8, <1>13
<1>15. saw # NoRole <=> Runs(r, up)
  BY <1>8, <1>13, NoRoleAssumption
<1>16. Runs(r, up) =>
        /\ r.method = "tools/call" /\ up
        /\ HasPermission(p.role, Required[p.body[n].name])
  BY <1>10 DEF Runs, Admitted, Permitted
<1> DEFINE as == Append(p.answers, a)
           rs == Append(p.ran, saw)
<1>17. /\ as \in Seq(Outcomes) /\ Len(as) = Len(p.answers) + 1 /\ as[Len(p.answers) + 1] = a
      /\ \A i \in 1..Len(p.answers) : as[i] = p.answers[i]
  BY <1>8, <1>11, AppendProperties
<1>18. /\ rs \in Seq(Roles \cup {NoRole}) /\ Len(rs) = Len(p.ran) + 1 /\ rs[Len(p.ran) + 1] = saw
      /\ \A i \in 1..Len(p.ran) : rs[i] = p.ran[i]
  BY <1>8, <1>14, AppendProperties
<1> HIDE DEF as, rs
<1>19. n \in Nat /\ Len(p.answers) = n - 1 /\ Len(p.ran) = n - 1 /\ n <= Len(p.body)
  BY <1>8, <1>1, <1>7
<1>20. /\ Len(as) = n /\ Len(rs) = n /\ as[n] = a /\ rs[n] = saw
      /\ \A i \in 1..(n - 1) : as[i] = p.answers[i] /\ rs[i] = p.ran[i]
  <2>1. /\ Len(as) = n /\ as[n] = a /\ \A i \in 1..(n - 1) : as[i] = p.answers[i]
    <3>1. Len(p.answers) + 1 = n /\ Len(p.answers) = n - 1
      BY <1>19
    <3> QED
      BY <3>1, <1>17, Zenon
  <2>2. /\ Len(rs) = n /\ rs[n] = saw /\ \A i \in 1..(n - 1) : rs[i] = p.ran[i]
    BY <1>18, <1>19
  <2> QED
    BY <2>1, <2>2
<1>21. DOMAIN p.answers = 1..(n - 1) /\ DOMAIN as = 1..n /\ DOMAIN rs = 1..n
  <2>1. DOMAIN p.answers = 1..Len(p.answers)
    BY <1>8
  <2>2. as \in Seq(Outcomes) /\ rs \in Seq(Roles \cup {NoRole})
    BY <1>17, <1>18
  <2>3. DOMAIN as = 1..Len(as)
    BY <2>2, LenProperties
  <2>4. DOMAIN rs = 1..Len(rs)
    BY <2>2
  <2> QED
    BY <2>1, <2>3, <2>4, <1>19, <1>20
<1>22. ASSUME NEW i \in DOMAIN as, i # n
      PROVE  i \in DOMAIN p.answers /\ as[i] = p.answers[i] /\ rs[i] = p.ran[i]
  <2>1. i \in 1..(n - 1)
    BY <1>19, <1>21, <1>22
  <2> QED
    BY <2>1, <1>20, <1>21
<1>23. q = [p EXCEPT !.answers = as, !.ran = rs]
  BY <1>5 DEF as, rs
<1>24. /\ q \in Posts /\ q.role = p.role /\ q.body = p.body /\ q.reply = "pending"
      /\ q.answers = as /\ q.ran = rs
  BY <1>8, <1>17, <1>18, <1>23 DEF Posts, PostOK
<1>25. Len(q.answers) = n /\ Len(q.ran) = n /\ n <= Len(q.body)
  BY <1>24, <1>19, <1>20
<1>26. q.answers[n] = a /\ q.ran[n] = saw
  BY <1>24, <1>19, <1>20
<1>27. ASSUME NEW i \in DOMAIN q.answers, i # n
       PROVE  i \in DOMAIN p.answers /\ q.answers[i] = p.answers[i] /\ q.ran[i] = p.ran[i]
  BY <1>24, <1>22, <1>27
<1>28. Handled(q)
  <2> SUFFICES ASSUME NEW i \in DOMAIN q.answers
               PROVE  /\ q.body[i] \in Requests
                      /\ q.body[i].id # NoId /\ q.body[i].method = "tools/call" =>
                           /\ q.answers[i].id = q.body[i].id
                           /\ q.answers[i].kind \in {"result", "tool error"} <=> q.ran[i] # NoRole
                      /\ q.ran[i] # NoRole =>
                           /\ q.ran[i] = q.role
                           /\ q.body[i].method = "tools/call"
                           /\ HasPermission(q.role, Required[q.body[i].name])
    BY DEF Handled
  <2>1. CASE i = n
    <3>1. /\ q.body[i] = p.body[n] /\ q.answers[i] = a /\ q.ran[i] = saw /\ q.role = p.role
      BY <2>1, <1>24, <1>26
    <3>2. saw # NoRole => saw = p.role
      BY <1>13
    <3> QED
      BY <3>1, <3>2, <1>9, <1>10, <1>12, <1>15, <1>16
  <2>2. CASE i # n
    <3>1. i \in DOMAIN p.answers /\ q.answers[i] = p.answers[i] /\ q.ran[i] = p.ran[i]
      BY <2>2, <1>27
    <3> QED
      BY <3>1, <1>24 DEF PostOK, Handled
  <2> QED
    BY <2>1, <2>2
<1>29. AnyRan(q) => AnyRan(p) \/ up
  <2> SUFFICES ASSUME NEW i \in DOMAIN q.ran, q.ran[i] # NoRole
               PROVE  AnyRan(p) \/ up
    BY DEF AnyRan
  <2>1. DOMAIN q.ran = DOMAIN q.answers /\ DOMAIN p.ran = DOMAIN p.answers
    BY <1>8, <1>24, <1>25 DEF Posts
  <2>2. CASE i = n
    <3>1. saw # NoRole
      BY <2>2, <1>26
    <3> QED
      BY <3>1, <1>15, <1>16
  <2>3. CASE i # n
    BY <2>1, <2>3, <1>27 DEF AnyRan
  <2> QED
    BY <2>2, <2>3
<1>30. PostOK(q)
  BY <1>24, <1>25, <1>28 DEF PostOK, RepliedTo
<1> QED
  BY <1>6, <1>29, <1>30

(* A POST is replied to: nothing in it changes but the reply. *)
LEMMA RepliedIsOK ==
  ASSUME NEW p, PostOK(p), NEW reply \in {"answers", "accepted", "failed"},
         reply # "failed" => Len(p.answers) = Len(p.body),
         reply = "accepted" => \A i \in DOMAIN p.body : ~HasId(p.body, i),
         NEW q, q = [p EXCEPT !.reply = reply]
  PROVE  PostOK(q) /\ (AnyRan(q) => AnyRan(p))
<1>1. /\ q \in Posts /\ q.role = p.role /\ q.body = p.body /\ q.reply = reply
      /\ q.answers = p.answers /\ q.ran = p.ran
  BY DEF PostOK, Posts, Replies
<1> QED
  BY <1>1 DEF PostOK, Handled, RepliedTo, AnyRan

LEMMA PostInvInit == PostInit => PostInv
BY DEF PostInit, PostInv

(* A worker's POST is replaced by another one, the flag stays or goes up.  *)
LEMMA OneWorker ==
  ASSUME PostInv, NEW w \in Workers, NEW q, post' = [post EXCEPT ![w] = q],
         initialized' \in BOOLEAN, initialized => initialized',
         q # NoPost => PostOK(q) /\ (AnyRan(q) => initialized')
  PROVE  PostInv'
<1>1. post' = [v \in Workers |-> IF v = w THEN q ELSE post[v]]
  BY DEF PostInv
<1>2. \A v \in Workers : post'[v] = IF v = w THEN q ELSE post[v]
  BY <1>1
<1>3. post' = [v \in Workers |-> post'[v]]
  BY <1>1
<1>4. ASSUME NEW v \in Workers, post'[v] # NoPost
      PROVE  PostOK(post'[v]) /\ (AnyRan(post'[v]) => initialized')
  <2>1. CASE v = w
    BY <2>1, <1>2, <1>4
  <2>2. CASE v # w
    <3>1. post'[v] = post[v]
      BY <2>2, <1>2
    <3> QED
      BY <3>1, <1>4 DEF PostInv
  <2> QED
    BY <2>1, <2>2
<1> QED
  BY <1>3, <1>4 DEF PostInv

(* No step of a worker, and no restart, breaks the invariant. *)
LEMMA PostInvStep ==
  ASSUME PostInv, [PostNext]_postVars
  PROVE  PostInv'
<1>1. ASSUME NEW w \in Workers, Receive(w)
      PROVE  PostInv'
  <2>1. PICK role \in Roles, body \in Bodies :
          post' = [post EXCEPT ![w] = NewPost(role, body, "pending")]
    BY <1>1 DEF Receive
  <2>2. body \in Seq(Requests \cup {Malformed})
    BY BodiesAssumption
  <2>3. PostOK(NewPost(role, body, "pending")) /\ ~AnyRan(NewPost(role, body, "pending"))
    BY <2>2, NewIsOK
  <2> QED
    BY <1>1, <2>1, <2>3, OneWorker DEF Receive, PostInv
<1>2. ASSUME NEW w \in Workers, Reject(w)
      PROVE  PostInv'
  <2>1. PICK role \in Roles : post' = [post EXCEPT ![w] = NewPost(role, <<>>, "rejected")]
    BY <1>2 DEF Reject
  <2>2. <<>> \in Seq(Requests \cup {Malformed})
    OBVIOUS
  <2>3. PostOK(NewPost(role, <<>>, "rejected")) /\ ~AnyRan(NewPost(role, <<>>, "rejected"))
    BY <2>2, NewIsOK
  <2> QED
    BY <1>2, <2>1, <2>3, OneWorker DEF Reject, PostInv
<1>3. ASSUME NEW w \in Workers, Handle(w)
      PROVE  PostInv'
  <2>1. /\ post[w] # NoPost /\ PostOK(post[w]) /\ post[w].reply = "pending"
        /\ AnyRan(post[w]) => initialized
        /\ initialized \in BOOLEAN
    BY <1>3 DEF Handle, Pending, PostInv
  <2>2. /\ Len(post[w].answers) + 1 \in DOMAIN post[w].body
        /\ post[w].body[Len(post[w].answers) + 1] # Malformed
    BY <1>3 DEF Handle, Turn
  <2>3. PICK ok \in BOOLEAN : post' = [post EXCEPT ![w] = HandledPost(post[w], initialized, ok)]
    BY <1>3 DEF Handle, Turn, HandledPost, PostInv
  <2>4. initialized' \in BOOLEAN /\ (initialized => initialized')
    BY <1>3, <2>1 DEF Handle
  <2>5. /\ PostOK(HandledPost(post[w], initialized, ok))
        /\ AnyRan(HandledPost(post[w], initialized, ok)) => AnyRan(post[w]) \/ initialized
    BY <2>1, <2>2, HandledIsOK
  <2> QED
    BY <2>1, <2>3, <2>4, <2>5, OneWorker
<1>4. ASSUME NEW w \in Workers, Fail(w)
      PROVE  PostInv'
  <2> DEFINE q == [post[w] EXCEPT !.reply = "failed"]
  <2>1. post[w] # NoPost /\ PostOK(post[w]) /\ (AnyRan(post[w]) => initialized)
    BY <1>4 DEF Fail, Pending, PostInv
  <2>2. post' = [post EXCEPT ![w] = q] /\ initialized' = initialized
    BY <1>4 DEF Fail, PostInv
  <2>3. PostOK(q) /\ (AnyRan(q) => AnyRan(post[w]))
    BY <2>1, RepliedIsOK
  <2> HIDE DEF q
  <2> QED
    BY <2>1, <2>2, <2>3, OneWorker DEF PostInv
<1>5. ASSUME NEW w \in Workers, Reply(w)
      PROVE  PostInv'
  <2> DEFINE p == post[w]
             q == [p EXCEPT !.reply = ReplyTo(p.body)]
  <2>1. p # NoPost /\ PostOK(p) /\ (AnyRan(p) => initialized)
    BY <1>5 DEF Reply, Pending, PostInv
  <2>2. post' = [post EXCEPT ![w] = q] /\ initialized' = initialized
    BY <1>5 DEF Reply, PostInv
  <2>3. Len(p.answers) = Len(p.body)
    <3>1. Len(p.answers) + 1 \notin DOMAIN p.body
      BY <1>5 DEF Reply, Turn
    <3>2. p.answers \in Seq(Outcomes) /\ p.body \in Seq(Requests \cup {Malformed})
          /\ Len(p.answers) <= Len(p.body)
      BY <2>1 DEF PostOK, Posts
    <3> HIDE DEF p
    <3> QED
      BY <3>1, <3>2
  <2>4. /\ ReplyTo(p.body) \in {"answers", "accepted", "failed"}
        /\ ReplyTo(p.body) = "accepted" => \A i \in DOMAIN p.body : ~HasId(p.body, i)
    BY DEF ReplyTo
  <2>5. PostOK(q) /\ (AnyRan(q) => AnyRan(p))
    <3> HIDE DEF p
    <3> QED
      BY <2>1, <2>3, <2>4, RepliedIsOK
  <2> HIDE DEF q, p
  <2> QED
    BY <2>1, <2>2, <2>5, OneWorker DEF PostInv
<1>6. ASSUME NEW w \in Workers, Sent(w)
      PROVE  PostInv'
  BY <1>6, OneWorker DEF Sent, PostInv
<1>7. CASE Restart
  BY <1>7 DEF Restart, PostInv
<1>8. CASE UNCHANGED postVars
  BY <1>8 DEF postVars, PostInv
<1> QED
  BY <1>1, <1>2, <1>3, <1>4, <1>5, <1>6, <1>7, <1>8 DEF PostNext

LEMMA PostInvariant == PostSpec => []PostInv
<1>1. PostInit => PostInv
  BY PostInvInit
<1>2. PostInv /\ [PostNext]_postVars => PostInv'
  BY PostInvStep
<1> QED
  BY <1>1, <1>2, PTL DEF PostSpec

(* Type correctness: a POST's answers and runs go as far as it was worked  *)
(* on (the loop over the batch in handle_post).                            *)
THEOREM PostTypes == PostSpec => []PostTypeOK
<1>1. PostInv => PostTypeOK
  <2> SUFFICES ASSUME PostInv
               PROVE  PostTypeOK
    OBVIOUS
  <2>1. \A w \in Workers : post[w] \in Posts \cup {NoPost}
    BY DEF PostInv, PostOK
  <2> QED
    BY <2>1 DEF PostInv, PostOK, PostTypeOK
<1> QED
  BY <1>1, PostInvariant, PTL

(* A tool runs only with the role of the POST's token, that role having    *)
(* the tool's permission, and after the server was initialized.            *)
THEOREM RunsArePermitted == PostSpec => []OnlyPermittedRuns
<1>1. PostInv => OnlyPermittedRuns
  <2> SUFFICES ASSUME PostInv, NEW w \in Workers, post[w] # NoPost,
                      NEW i \in DOMAIN post[w].ran, post[w].ran[i] # NoRole
               PROVE  /\ post[w].ran[i] = post[w].role
                      /\ post[w].body[i].method = "tools/call"
                      /\ HasPermission(post[w].role, Required[post[w].body[i].name])
                      /\ initialized
    BY DEF OnlyPermittedRuns
  <2> DEFINE p == post[w]
  <2>1. PostOK(p) /\ (AnyRan(p) => initialized)
    BY DEF PostInv
  <2>2. i \in DOMAIN p.answers
    BY <2>1 DEF PostOK, Posts
  <2> QED
    BY <2>1, <2>2 DEF PostOK, Handled, AnyRan
<1> QED
  BY <1>1, PostInvariant, PTL

(* What a client is told is what happened, in batches of any length.       *)
THEOREM RepliesTell == PostSpec => []ToldIsTrue
<1>1. PostInv => ToldIsTrue
  <2> SUFFICES ASSUME PostInv, NEW w \in Workers, post[w] # NoPost
               PROVE  AnswersTell(post[w]) /\ SilenceTells(post[w])
    BY DEF ToldIsTrue
  <2> DEFINE p == post[w]
  <2>1. PostOK(p)
    BY DEF PostInv
  <2>2. /\ p.answers \in Seq(Outcomes) /\ p.body \in Seq(Requests \cup {Malformed})
        /\ p.ran \in Seq(Roles \cup {NoRole})
        /\ Len(p.ran) = Len(p.answers) /\ Len(p.answers) <= Len(p.body)
    BY <2>1 DEF PostOK, Posts
  <2> HIDE DEF p
  <2>3. AnswersTell(p)
    <3>1. p.reply = "answers" => DOMAIN p.body = DOMAIN p.answers
      BY <2>1, <2>2 DEF PostOK, RepliedTo
    <3> QED
      BY <2>1, <3>1 DEF PostOK, Handled, AnswersTell
  <2>4. SilenceTells(p)
    <3> SUFFICES ASSUME p.reply \in {"accepted", "rejected"},
                        NEW i \in DOMAIN p.ran, p.ran[i] # NoRole
                 PROVE  p.body[i].id = NoId
      BY DEF SilenceTells
    <3>1. i \in DOMAIN p.answers /\ i \in DOMAIN p.body
      BY <2>2
    <3>2. p.answers # <<>>
      BY <3>1
    <3>3. \A j \in DOMAIN p.body : ~HasId(p.body, j)
      BY <2>1, <3>2 DEF PostOK, RepliedTo
    <3>4. p.body[i] # Malformed
      BY <2>1, <3>1, BodiesAssumption DEF PostOK, Handled
    <3> QED
      BY <3>1, <3>3, <3>4 DEF HasId
  <2> QED
    BY <2>3, <2>4 DEF p
<1> QED
  BY <1>1, PostInvariant, PTL


-----------------------------------------------------------------------------
(* What a page adds to the pages before it. *)
LEMMA PageExtends ==
  ASSUME NEW S, NEW o \in Seq(S), NEW from \in 0..Len(o), NEW to \in from..Len(o)
  PROVE  /\ SubSeq(o, 1, from) \o SubSeq(o, from + 1, to) = SubSeq(o, 1, to)
         /\ SubSeq(o, from + 1, to) = <<>> => to = from
         /\ SubSeq(o, 1, Len(o)) = o
         /\ SubSeq(o, 1, 0) = <<>>
<1>1. Len(o) \in Nat /\ from \in Nat /\ to \in Nat /\ from <= to /\ to <= Len(o)
  BY LenProperties
<1>2. SubSeq(o, 1, from) \o SubSeq(o, from + 1, to) = SubSeq(o, 1, to)
  <2>1. 1 \in 1..Len(o) + 1 /\ from \in (1 - 1)..Len(o) /\ to \in from..Len(o)
    BY <1>1
  <2> QED
    BY <2>1, ConcatAdjacentSubSeq
<1>3. SubSeq(o, from + 1, to) = <<>> => to = from
  <2>1. \A i \in (from + 1)..to : o[i] \in S
    BY <1>1, ElementOfSeq
  <2>2. from + 1 \in Int /\ to \in Int
    BY <1>1
  <2>3. Len(SubSeq(o, from + 1, to)) = IF from + 1 <= to THEN to - (from + 1) + 1 ELSE 0
    BY <2>1, <2>2, SubSeqProperties
  <2>4. SubSeq(o, from + 1, to) = <<>> => Len(SubSeq(o, from + 1, to)) = 0
    OBVIOUS
  <2> QED
    BY <2>3, <2>4, <1>1
<1>4. SubSeq(o, 1, Len(o)) = o
  BY SubSeqFull
<1>5. SubSeq(o, 1, 0) = <<>>
  BY SubSeqEmpty
<1> QED
  BY <1>2, <1>3, <1>4, <1>5

(* The visible tools in an order. *)
LEMMA OrdersAreSeqs ==
  ASSUME NEW S, IsFiniteSet(S), NEW o \in Orders(S)
  PROVE  o \in Seq(S) /\ Len(o) = Cardinality(S) /\ {o[i] : i \in DOMAIN o} = S
<1>1. Cardinality(S) \in Nat
  BY FS_CardinalityType
<1>2. o \in [1..Cardinality(S) -> S] /\ \A x \in S : \E i \in DOMAIN o : o[i] = x
  BY DEF Orders
<1>3. o \in Seq(S) /\ Len(o) = Cardinality(S)
  BY <1>1, <1>2
<1>4. \A i \in DOMAIN o : o[i] \in S
  BY <1>2
<1> QED
  BY <1>2, <1>3, <1>4

LEMMA VisibleIsFinite ==
  ASSUME NEW role
  PROVE  /\ IsFiniteSet(Visible(role))
         /\ Cardinality(Visible(role)) \in Nat /\ Cardinality(Registered) \in Nat
         /\ Cardinality(Visible(role)) <= Cardinality(Registered)
<1>1. IsFiniteSet(Registered) /\ Visible(role) \in SUBSET Registered
  BY ListAssumption DEF Visible
<1>2. IsFiniteSet(Visible(role)) /\ Cardinality(Visible(role)) <= Cardinality(Registered)
  BY <1>1, FS_Subset
<1> QED
  BY <1>1, <1>2, FS_CardinalityType

(* Where the loop stops: ahead of where it began, but for the end. *)
LEMMA AfterAdvances ==
  ASSUME NEW from \in 0..Len(order), Len(order) \in Nat, NEW limit \in Limits
  PROVE  /\ After(from, limit) \in from..Len(order)
         /\ from < Len(order) => After(from, limit) > from
<1>1. limit \in Int /\ DefaultLimit \in Nat \ {0} /\ LimitCap \in Nat \ {0}
  BY ListAssumption
<1>2. Limited(limit) \in Nat \ {0}
  BY <1>1 DEF Limited, AtMost
<1> QED
  BY <1>2 DEF After, AtMost

ListInv ==
    /\ lister \in Roles /\ careful \in BOOLEAN /\ stopped \in BOOLEAN
    /\ order \in Orders(Visible(lister))
    /\ cursor \in 0..Len(order) \cup {NoCursor}
    /\ cursor # NoCursor => seen = SubSeq(order, 1, cursor)
    /\ cursor = NoCursor => stopped
    /\ stopped => seen = order

(* A page of a client that has not stopped. *)
LEMMA PageStep ==
  ASSUME ListInv, FollowCursor
  PROVE  ListInv' /\ (careful \/ Visible(lister) = Registered => stopped' \/ cursor' > cursor)
<1>1. PICK limit \in Limits :
        /\ seen' = seen \o Page(cursor, limit)
        /\ cursor' = NextCursor(cursor, limit)
        /\ stopped' = (cursor' = NoCursor \/ (careful /\ Page(cursor, limit) = <<>>))
  BY DEF FollowCursor
<1> DEFINE S == Visible(lister)
           to == After(cursor, limit)
<1>2. /\ order \in Seq(S) /\ Len(order) = Cardinality(S)
      /\ Len(order) \in Nat /\ Cardinality(Registered) \in Nat
      /\ Len(order) <= Cardinality(Registered)
  BY VisibleIsFinite, OrdersAreSeqs DEF ListInv
<1>3. cursor # NoCursor /\ cursor \in 0..Len(order) /\ seen = SubSeq(order, 1, cursor)
  BY DEF ListInv, FollowCursor
<1>4. to \in cursor..Len(order) /\ (cursor < Len(order) => to > cursor)
  BY <1>2, <1>3, AfterAdvances
<1>5. /\ SubSeq(order, 1, cursor) \o SubSeq(order, cursor + 1, to) = SubSeq(order, 1, to)
      /\ SubSeq(order, cursor + 1, to) = <<>> => to = cursor
      /\ SubSeq(order, 1, Len(order)) = order
  BY <1>2, <1>3, <1>4, PageExtends
<1>6. seen' = SubSeq(order, 1, to)
  BY <1>1, <1>3, <1>5 DEF Page
<1>7. Page(cursor, limit) = <<>> => to = cursor
  BY <1>5 DEF Page
<1>8. cursor' = IF to < Cardinality(Registered) THEN to ELSE NoCursor
  BY <1>1 DEF NextCursor
<1>9. order' = order /\ lister' = lister /\ careful' = careful
  BY DEF FollowCursor
<1> HIDE DEF to, S
<1>10. to \in Nat /\ cursor \in Nat
  BY <1>2, <1>3, <1>4
<1>11. cursor' \in 0..Len(order) \cup {NoCursor} /\ (cursor' # NoCursor => cursor' = to)
  BY <1>2, <1>4, <1>8, <1>10
<1>12. to = cursor => to = Len(order)
  BY <1>2, <1>3, <1>4, <1>10
<1>13. cursor' = NoCursor => to = Len(order)
  BY <1>2, <1>4, <1>8, <1>10 DEF NoCursor
<1>14. stopped' => seen' = order
  BY <1>1, <1>5, <1>6, <1>7, <1>12, <1>13
<1>15. ListInv'
  <2>1. stopped' \in BOOLEAN /\ (cursor' = NoCursor => stopped')
    BY <1>1
  <2>2. cursor' # NoCursor => seen' = SubSeq(order', 1, cursor')
    BY <1>6, <1>9, <1>11
  <2>3. order' \in Orders(Visible(lister'))
    BY <1>9 DEF ListInv
  <2> QED
    BY <1>9, <1>11, <1>14, <2>1, <2>2, <2>3 DEF ListInv
<1>16. ASSUME careful \/ S = Registered, ~stopped'
       PROVE  cursor' > cursor
  <2>1. cursor' # NoCursor /\ cursor' = to
    BY <1>1, <1>11, <1>16
  <2>2. to < Cardinality(Registered)
    BY <1>8, <2>1
  <2>3. CASE to > cursor
    BY <2>1, <2>3
  <2>4. CASE ~(to > cursor)
    <3>1. to = cursor /\ to = Len(order)
      BY <2>4, <1>2, <1>3, <1>4, <1>10, <1>12
    <3>2. S # Registered
      BY <3>1, <2>2, <1>2
    <3>3. Page(cursor, limit) = <<>>
      BY <3>1, <1>10, SubSeqEmpty DEF Page, to
    <3> QED
      BY <3>2, <3>3, <1>1, <1>16
  <2> QED
    BY <2>3, <2>4
<1> QED
  BY <1>15, <1>16 DEF S

LEMMA ListInvInit == ListInit => ListInv
<1> SUFFICES ASSUME ListInit
             PROVE  ListInv
  OBVIOUS
<1>1. order \in Seq(Visible(lister)) /\ Len(order) \in Nat
  BY VisibleIsFinite, OrdersAreSeqs DEF ListInit
<1>2. SubSeq(order, 1, 0) = <<>>
  BY SubSeqEmpty
<1>3. cursor = 0 /\ cursor \in 0..Len(order) /\ cursor # NoCursor
  BY <1>1 DEF ListInit, NoCursor
<1>4. seen = SubSeq(order, 1, cursor)
  BY <1>2, <1>3 DEF ListInit
<1> QED
  BY <1>3, <1>4 DEF ListInit, ListInv

LEMMA ListInvStep ==
  ASSUME ListInv, [ListNext]_listVars
  PROVE  ListInv' /\ [careful \/ Visible(lister) = Registered => stopped' \/ cursor' > cursor]_listVars
<1>1. CASE FollowCursor
  BY <1>1, PageStep
<1>2. CASE UNCHANGED listVars
  BY <1>2 DEF listVars, ListInv
<1> QED
  BY <1>1, <1>2 DEF ListNext

LEMMA ListInvariant == ListSpec => []ListInv
<1>1. ListInv /\ [ListNext]_listVars => ListInv'
  BY ListInvStep
<1> QED
  BY <1>1, ListInvInit, PTL DEF ListSpec

(* A client that stopped was shown the tools it may call, each once: for   *)
(* every table of tools, every role and every choice of limits.            *)
THEOREM ListedTools == ListSpec => []ListedIsCallable
<1>1. ListInv => ListedIsCallable
  <2> SUFFICES ASSUME ListInv, stopped
               PROVE  /\ seen = order
                      /\ {seen[i] : i \in DOMAIN seen}
                           = {tool \in Registered : Admitted(CallOf(tool), TRUE)}
    BY DEF ListedIsCallable
  <2>1. seen = order /\ lister \in Roles
    BY DEF ListInv
  <2>2. {order[i] : i \in DOMAIN order} = Visible(lister)
    BY VisibleIsFinite, OrdersAreSeqs DEF ListInv
  <2>3. HasPermission(lister, "TaskRead")
    BY <2>1 DEF Roles, HasPermission, RolePermissions, Permissions, ReadPermissions, TaskPermissions
  <2>4. ASSUME NEW tool \in Tools
        PROVE  Admitted(CallOf(tool), TRUE) <=> HasPermission(lister, Required[tool])
    <3>1. MethodPermission["tools/call"] = "TaskRead"
      BY DEF MethodPermission, Checked, Prompting
    <3>2. Named("tools/call") = Tools
      BY DEF Named
    <3> QED
      BY <2>3, <3>1, <3>2 DEF Admitted, Permitted, CallOf
  <2>5. Visible(lister) = {tool \in Registered : Admitted(CallOf(tool), TRUE)}
    BY <2>4, ListAssumption DEF Visible, Allowed
  <2> QED
    BY <2>1, <2>2, <2>5
<1> QED
  BY <1>1, ListInvariant, PTL

(* Every page is a step ahead or the last, for a careful client and for a  *)
(* role that may use every tool.                                           *)
THEOREM PagesAdvance == ListSpec => PagingAdvances
<1>1. ListInv /\ [ListNext]_listVars =>
        [careful \/ Visible(lister) = Registered => stopped' \/ cursor' > cursor]_listVars
  BY ListInvStep
<1> QED
  BY <1>1, ListInvariant, PTL DEF ListSpec, PagingAdvances

=============================================================================
