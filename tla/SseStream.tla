------------------------------ MODULE SseStream ------------------------------
(***************************************************************************)
(* The event streams of the HTTP transport (http/handler.cpp): a GET adds  *)
(* a client with a queue of its own to SseStream, a worker of the HTTP     *)
(* library stays with it and writes what the queue holds, a broadcast      *)
(* calls every client's sink in turn while it holds SseStream's mutex, and *)
(* a DELETE removes a client.  Notices are numbered in the order they are  *)
(* broadcast.  The library runs the provider once, for it only returns to  *)
(* end the stream, and the releaser after it, whatever happened.           *)
(***************************************************************************)
EXTENDS Naturals, Sequences, Functions

CONSTANTS
    Streams,    \* GET requests, each with its client id
    MaxQueue,   \* kMaxSseQueueEntries
    MaxNotices  \* bound: notices broadcast

ASSUME BoundsAssumption == MaxQueue \in Nat \ {0} /\ MaxNotices \in Nat

VARIABLES
    clients,    \* clients_
    visiting,   \* the clients the broadcast under way has not called yet
    sent,       \* number of notices broadcast
    stream,     \* how far a stream is
    queue,      \* its queue
    message,    \* the notice its worker is writing, or 0
    peer,       \* whether its client still listens
    got,        \* history: what its client received
    since       \* history: the notices broadcast before it was added

sseVars == <<clients, visiting, sent, stream, queue, message, peer, got, since>>

Notices == 1..MaxNotices

Stages == {"none", "opening", "waiting", "writing", "releasing", "done"}

SseTypeOK ==
    /\ clients \subseteq Streams /\ visiting \subseteq clients
    /\ sent \in 0..MaxNotices
    /\ stream \in [Streams -> Stages]
    /\ queue \in [Streams -> Seq(Notices)]
    /\ \A s \in Streams : Len(queue[s]) <= MaxQueue
    /\ message \in [Streams -> 0..MaxNotices]
    /\ \A s \in Streams : message[s] # 0 <=> stream[s] = "writing"
    /\ peer \in [Streams -> {"there", "left"}]
    /\ got \in [Streams -> Seq(Notices)]
    /\ since \in [Streams -> 0..MaxNotices]

SseInit ==
    /\ clients = {} /\ visiting = {}
    /\ sent = 0
    /\ stream = [s \in Streams |-> "none"]
    /\ queue = [s \in Streams |-> <<>>]
    /\ message = [s \in Streams |-> 0]
    /\ peer = [s \in Streams |-> "there"]
    /\ got = [s \in Streams |-> <<>>]
    /\ since = [s \in Streams |-> 0]

(* SseStream's mutex is free. *)
Unlocked == visiting = {}

Becomes(s, from, to) == stream[s] = from /\ stream' = [stream EXCEPT ![s] = to]

-----------------------------------------------------------------------------
(* A GET and the worker that stays with its stream.                         *)

(* An accepted GET: the client is added before the response is begun. *)
Get(s) ==
    /\ Becomes(s, "none", "opening")
    /\ Unlocked
    /\ clients' = clients \cup {s}
    /\ since' = [since EXCEPT ![s] = sent]
    /\ UNCHANGED <<visiting, sent, queue, message, peer, got>>

(* The provider begins; it ignores whether "connected" could be written. *)
Open(s) ==
    /\ Becomes(s, "opening", "waiting")
    /\ UNCHANGED <<clients, visiting, sent, queue, message, peer, got, since>>

(* The library cannot write the headers and never calls the provider. *)
OpenFails(s) ==
    /\ Becomes(s, "opening", "releasing")
    /\ peer[s] = "left"
    /\ UNCHANGED <<clients, visiting, sent, queue, message, peer, got, since>>

TakeNewest(s) ==
    /\ Becomes(s, "waiting", "writing")
    /\ queue[s] # <<>>
    /\ message' = [message EXCEPT ![s] = queue[s][Len(queue[s])]]
    /\ queue' = [queue EXCEPT ![s] = SubSeq(@, 1, Len(@) - 1)]
    /\ UNCHANGED <<clients, visiting, sent, peer, got, since>>
TakeAndClear(s) ==
    /\ Becomes(s, "waiting", "writing")
    /\ queue[s] # <<>>
    /\ message' = [message EXCEPT ![s] = Head(queue[s])]
    /\ queue' = [queue EXCEPT ![s] = <<>>]
    /\ UNCHANGED <<clients, visiting, sent, peer, got, since>>
Take(s) ==
    /\ Becomes(s, "waiting", "writing")
    /\ queue[s] # <<>>
    /\ message' = [message EXCEPT ![s] = Head(queue[s])]
    /\ queue' = [queue EXCEPT ![s] = Tail(queue[s])]
    /\ UNCHANGED <<clients, visiting, sent, peer, got, since>>

(* Writing to a client that left may succeed as far as the worker can tell. *)
Written(s) ==
    /\ Becomes(s, "writing", "waiting")
    /\ message' = [message EXCEPT ![s] = 0]
    /\ got' = IF peer[s] = "there" THEN [got EXCEPT ![s] = Append(@, message[s])] ELSE got
    /\ UNCHANGED <<clients, visiting, sent, queue, peer, since>>

WriteFails(s) ==
    /\ Becomes(s, "writing", "releasing")
    /\ peer[s] = "left"
    /\ message' = [message EXCEPT ![s] = 0]
    /\ UNCHANGED <<clients, visiting, sent, queue, peer, got, since>>

(* The releaser has set disconnected and removes the client. *)
ReleaseOnly(s) ==
    /\ Becomes(s, "releasing", "done")
    /\ UNCHANGED <<clients, visiting, sent, queue, message, peer, got, since>>
Release(s) ==
    /\ Becomes(s, "releasing", "done")
    /\ Unlocked
    /\ clients' = clients \ {s}
    /\ UNCHANGED <<visiting, sent, queue, message, peer, got, since>>

Worker(s) ==
    \/ Open(s) \/ OpenFails(s) \/ Take(s) \/ Written(s) \/ WriteFails(s) \/ Release(s)

-----------------------------------------------------------------------------
(* A DELETE, on another worker, by a client that knows its id from         *)
(* "connected".  Its stream goes on: nothing tells the provider.           *)
Delete(s) ==
    /\ stream[s] \notin {"none", "opening"}
    /\ s \in clients
    /\ Unlocked
    /\ clients' = clients \ {s}
    /\ UNCHANGED <<visiting, sent, stream, queue, message, peer, got, since>>

Leave(s) ==
    /\ peer[s] = "there"
    /\ stream[s] # "none"
    /\ peer' = [peer EXCEPT ![s] = "left"]
    /\ UNCHANGED <<clients, visiting, sent, stream, queue, message, got, since>>

(* send_sse_notification: the mutex is held until every client was called. *)
Broadcast ==
    /\ Unlocked
    /\ sent < MaxNotices
    /\ sent' = sent + 1
    /\ visiting' = clients
    /\ UNCHANGED <<clients, stream, queue, message, peer, got, since>>

Disconnected(s) == stream[s] \in {"releasing", "done"}

(* The sink: a full queue drops its oldest entry. *)
PushedNewestDropped(q) == IF Len(q) >= MaxQueue THEN q ELSE Append(q, sent)
PushedUnbounded(q) == Append(q, sent)
Pushed(q) == Append(IF Len(q) >= MaxQueue THEN Tail(q) ELSE q, sent)

Call(s) ==
    /\ s \in visiting
    /\ visiting' = visiting \ {s}
    /\ IF Disconnected(s)
         THEN clients' = clients \ {s} /\ UNCHANGED queue
         ELSE queue' = [queue EXCEPT ![s] = Pushed(@)] /\ UNCHANGED clients
    /\ UNCHANGED <<sent, stream, message, peer, got, since>>

SseNext ==
    \/ Broadcast
    \/ \E s \in Streams : Get(s) \/ Worker(s) \/ Delete(s) \/ Leave(s) \/ Call(s)

SseSpec == SseInit /\ [][SseNext]_sseVars

(* A worker and a broadcast under way are threads that keep running. *)
FairSseSpec ==
    /\ SseSpec
    /\ \A s \in Streams : WF_sseVars(Worker(s)) /\ WF_sseVars(Call(s))

-----------------------------------------------------------------------------
(* What was pushed to a stream last, while it is a client. *)
Newest(s) == IF s \in visiting THEN sent - 1 ELSE sent

Reached(s) == Range(got[s]) \cup {message[s]} \cup Range(queue[s])

(* "the client keeps seeing the most recent events rather than the stalest  *)
(* ones" (handler.cpp:303): of what was broadcast since it connected, a     *)
(* client that listens misses only what MaxQueue later notices pushed out. *)
NewestKept ==
    \A s \in clients : ~Disconnected(s) /\ peer[s] = "there" =>
        \A n \in since[s] + 1 .. Newest(s) : n \in Reached(s) \/ n + MaxQueue <= Newest(s)

Increasing(q) == \A i, j \in DOMAIN q : i < j => q[i] < q[j]

(* Notices reach a client in the order of the broadcasts, none twice, though *)
(* the broadcasting thread pushes and drops while the worker takes.        *)
InOrder ==
    \A s \in Streams :
        /\ Increasing(got[s])
        /\ Increasing(queue[s])
        /\ \A g \in Range(got[s]), q \in Range(queue[s]) : g < q
        /\ message[s] # 0 => /\ \A g \in Range(got[s]) : g < message[s]
                            /\ \A q \in Range(queue[s]) : message[s] < q

(* A stream that has ended is not a client, so no sink of it is called: the *)
(* releaser and a broadcast that finds it disconnected both remove it.     *)
EndedIsForgotten == \A s \in Streams : stream[s] = "done" => s \notin clients

(* The last notices arrive: a notice that a client was due to get arrives  *)
(* unless the client leaves or so many later ones push it out.             *)
NewestArrives ==
    \A s \in Streams : \A n \in Notices :
        sent = n /\ s \in clients /\ since[s] < n
            ~> \/ n \in Range(got[s])
               \/ peer[s] = "left"
               \/ sent >= n + MaxQueue
=============================================================================
