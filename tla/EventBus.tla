------------------------------- MODULE EventBus -------------------------------
(***************************************************************************)
(* EventBus (workspace/event_bus.cpp).  emit runs in the thread that made  *)
(* a change, after the change's lock was released: it copies the handlers  *)
(* of the event's type and the wildcard handlers under the shared lock,    *)
(* calls them without a lock, and then appends the event to a log that     *)
(* keeps the MaxLog newest.  Emissions of several threads interleave, and  *)
(* so do subscriptions.  What a handler throws is caught and logged.       *)
(***************************************************************************)
EXTENDS Naturals, SequencesExt

CONSTANTS
    Threads,        \* the threads that emit
    Handlers,       \* subscription ids, handed out in this order
    Types,          \* event types an event or a subscription can name
    MaxLog,         \* max_log_size_
    NoEmission      \* a thread that is not in emit

Wildcard == "*"

ASSUME BusAssumption ==
    /\ Handlers \subseteq Nat \ {0}
    /\ MaxLog \in Nat \ {0}

VARIABLES
    handlers,       \* handlers_: for every type its subscriptions, oldest first
    joined,         \* history: how many events were emitted before it
    due,            \* per thread, the events its listener calls will emit
    emission,       \* per thread, the event it emits and the handlers to call
    emitted,        \* number of events so far; an event's id is its number
    heard,          \* history: the ids of the events a handler was called with
    log             \* event_log_, oldest first

busVars == <<handlers, joined, due, emission, emitted, heard, log>>

BusInit ==
    /\ handlers = [type \in Types |-> <<>>]
    /\ joined = [h \in {} |-> 0]
    /\ due = [t \in Threads |-> <<>>]
    /\ emission = [t \in Threads |-> NoEmission]
    /\ emitted = 0
    /\ heard = [h \in Handlers |-> {}]
    /\ log = <<>>

-----------------------------------------------------------------------------
Subscribe(h, type) ==
    /\ h \notin DOMAIN joined
    /\ \A i \in Handlers : i < h => i \in DOMAIN joined
    /\ handlers' = [handlers EXCEPT ![type] = Append(@, h)]
    /\ joined' = [i \in DOMAIN joined \cup {h} |-> IF i = h THEN emitted ELSE joined[i]]
    /\ UNCHANGED <<due, emission, emitted, heard, log>>

(* An id is in one list, once. *)
Unsubscribe(h) ==
    /\ \E type \in Types : \E i \in DOMAIN handlers[type] :
          /\ handlers[type][i] = h
          /\ handlers' = [handlers EXCEPT ![type] = RemoveAt(@, i)]
    /\ UNCHANGED <<joined, due, emission, emitted, heard, log>>

(* The thread neither emits nor has anything to emit. *)
Silent(t) == emission[t] = NoEmission /\ due[t] = <<>>

(* A change leaves the thread with events to emit. *)
Announce(t, events) ==
    /\ due' = [due EXCEPT ![t] = events]
    /\ UNCHANGED <<handlers, joined, emission, emitted, heard, log>>

(* Nobody subscribes to a type that is not in Types. *)
HandlersOf(type) == IF type \in Types THEN handlers[type] ELSE <<>>

(* A copy without the wildcard handlers. *)
CopiedTypedOnly(type) == HandlersOf(type)
Copied(type) == HandlersOf(type) \o HandlersOf(Wildcard)

(* The event gets its id and the handlers are copied. *)
Emit(t) ==
    /\ emission[t] = NoEmission
    /\ due[t] # <<>>
    /\ emitted' = emitted + 1
    /\ emission' = [emission EXCEPT ![t] =
            [id |-> emitted + 1, event |-> Head(due[t]),
             calls |-> Copied(Head(due[t]).type)]]
    /\ due' = [due EXCEPT ![t] = Tail(@)]
    /\ UNCHANGED <<handlers, joined, heard, log>>

CallHandler(t) ==
    /\ emission[t] # NoEmission
    /\ emission[t].calls # <<>>
    /\ heard' = [heard EXCEPT ![Head(emission[t].calls)] = @ \cup {emission[t].id}]
    /\ emission' = [emission EXCEPT ![t].calls = Tail(@)]
    /\ UNCHANGED <<handlers, joined, due, emitted, log>>

(* One event too many before the oldest goes. *)
TrimmedLate(l) == IF Len(l) > MaxLog + 1 THEN Tail(l) ELSE l
Trimmed(l) == IF Len(l) > MaxLog THEN Tail(l) ELSE l

LogEvent(t) ==
    /\ emission[t] # NoEmission
    /\ emission[t].calls = <<>>
    /\ log' = Trimmed(Append(log, [id |-> emission[t].id, event |-> emission[t].event]))
    /\ emission' = [emission EXCEPT ![t] = NoEmission]
    /\ UNCHANGED <<handlers, joined, due, emitted, heard>>

EmitStep(t) == Emit(t) \/ CallHandler(t) \/ LogEvent(t)

Subscription ==
    \E h \in Handlers : Unsubscribe(h) \/ \E type \in Types : Subscribe(h, type)

-----------------------------------------------------------------------------
(* A subscriber that acts on events need not look into the log: whatever   *)
(* the log shows that was emitted after it subscribed, it was called with, *)
(* though subscriptions come and go while events are emitted.              *)
SubscribersOf(type) == ToSet(HandlersOf(type)) \cup ToSet(HandlersOf(Wildcard))

LoggedIsHeard ==
    \A i \in DOMAIN log : \A h \in SubscribersOf(log[i].event.type) :
        log[i].id > joined[h] => log[i].id \in heard[h]
=============================================================================
