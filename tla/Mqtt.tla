--------------------------------- MODULE Mqtt ---------------------------------
(***************************************************************************)
(* The MQTT connection of the server: MqttClient (mqtt/client.cpp) under   *)
(* SecureMqttClient (mqtt/secure_mqtt.cpp), whose subscriptions are what   *)
(* ChannelManager (mqtt/channel.cpp) asks for.                             *)
(*                                                                         *)
(* Two threads meet here.  The caller subscribes and unsubscribes, one     *)
(* call at a time, as channels_mutex_ sees to.  A call is three steps:     *)
(* verified_callbacks_ under cb_mutex_, callbacks_ under topics_mutex_,    *)
(* the library.  The library's thread tells of the connection and hands in *)
(* messages; it keeps topics_mutex_ shared while handle_message runs and   *)
(* cb_mutex_ shared while a handler runs.                                  *)
(*                                                                         *)
(* The library (Paho) and the broker are external: a session is clean, so  *)
(* nothing of it survives the connection; the library takes commands while *)
(* connected and sends them in order.  It reconnects by itself, but calls  *)
(* on_connect_success for the first connection after connect() only: it    *)
(* drops the callbacks of a connect with the answer to the first attempt,  *)
(* and the code has set none for later ones (MQTTAsync_setConnected).  The *)
(* broker grants every subscription.                                       *)
(*                                                                         *)
(* A message is the set of filters that match its topic.  publish changes  *)
(* nothing here: that the server hears its own messages is a message like  *)
(* any other.                                                              *)
(***************************************************************************)
EXTENDS Naturals, FiniteSets, SequencesExt

CONSTANTS
    Filters,        \* topic filters
    MaxNotices,     \* bound on connection changes the code was not told of
    MaxOutbox,      \* bound on commands the caller leaves to be sent
    NoCall,         \* the caller is not in a call
    NoHandler       \* no handler runs

Calls == [op : {"subscribe", "unsubscribe"}, filter : Filters, next : {"topics", "library"}]

ASSUME MqttAssumption == IsFiniteSet(Filters) /\ NoCall \notin Calls /\ MaxNotices \in Nat

VARIABLES
    link,           \* the library's connection: "off" before connect and
                    \* after disconnect, "down" while it retries, or "up"
    attempt,        \* "first" for the connection that answers connect(), as
                    \* long as it is tried and lives; "later" for what follows
    notices,        \* callbacks on the connection the library has to make
    outbox,         \* commands the library has to send
    broker,         \* filters the broker has for this session
    connected,      \* connected_
    callbacks,      \* the keys of callbacks_
    verified,       \* the keys of verified_callbacks_
    call,           \* what the caller is in: the call, its filter, the next step
    stage,          \* of handle_message: "idle", "arrived", "matched" (it keeps
                    \* topics_mutex_) or "running" (cb_mutex_ as well)
    message,        \* the message it handles
    handler         \* the handler that runs

libraryVars == <<link, attempt, notices, outbox, broker>>
handlingVars == <<stage, message, handler>>
mqttVars == <<libraryVars, connected, callbacks, verified, call, handlingVars>>

MqttInit ==
    /\ link = "off"
    /\ attempt = "first"
    /\ notices = <<>>
    /\ outbox = <<>>
    /\ broker = {}
    /\ connected = FALSE
    /\ callbacks = {}
    /\ verified = {}
    /\ call = NoCall
    /\ stage = "idle"
    /\ message = {}
    /\ handler = NoHandler

Command(op, f) == [op |-> op, filter |-> f]

-----------------------------------------------------------------------------
(* The library and the broker. *)
Notice(n) == Len(notices) < MaxNotices /\ notices' = Append(notices, n)

(* Only the first connection is told of. *)
LinkUp ==
    /\ link = "down"
    /\ link' = "up"
    /\ IF attempt = "first" THEN Notice("connected") ELSE UNCHANGED notices
    /\ UNCHANGED <<attempt, outbox, broker, connected, callbacks, verified, call, handlingVars>>

(* on_connect_failure changes nothing that anything reads; the library goes *)
(* on trying.                                                              *)
ConnectFails ==
    /\ link = "down"
    /\ attempt' = "later"
    /\ UNCHANGED <<link, notices, outbox, broker, connected, callbacks, verified, call, handlingVars>>

(* The session goes with the connection, and so does what was not sent. *)
SessionEnds == outbox' = <<>> /\ broker' = {}

LinkLost ==
    /\ link = "up"
    /\ link' = "down"
    /\ attempt' = "later"
    /\ Notice("lost")
    /\ SessionEnds
    /\ UNCHANGED <<connected, callbacks, verified, call, handlingVars>>

Send ==
    /\ link = "up"
    /\ outbox # <<>>
    /\ outbox' = Tail(outbox)
    /\ LET c == Head(outbox)
       IN  broker' = IF c.op = "subscribe" THEN broker \cup {c.filter}
                                           ELSE broker \ {c.filter}
    /\ UNCHANGED <<link, attempt, notices, connected, callbacks, verified, call, handlingVars>>

(* MQTTAsync_subscribe and its like fail while there is no connection. *)
Accepts(commands) == outbox' = IF link = "up" THEN outbox \o commands ELSE outbox

-----------------------------------------------------------------------------
(* start() and stop() call these while no channel is being made. *)
Connect ==
    /\ link = "off"
    /\ call = NoCall
    /\ link' = "down"
    /\ attempt' = "first"
    /\ UNCHANGED <<notices, outbox, broker, connected, callbacks, verified, call, handlingVars>>

(* disconnect() does nothing before on_connect_success was called, and so   *)
(* nothing after the library reconnected by itself.                         *)
Disconnect ==
    /\ connected
    /\ call = NoCall
    /\ link' = "off"
    /\ Notice("disconnected")
    /\ SessionEnds
    /\ connected' = FALSE
    /\ UNCHANGED <<attempt, callbacks, verified, call, handlingVars>>

(* cb_mutex_, which a running handler holds, and as a copy of the handler,  *)
(* like the event bus makes, would not.                                     *)
HandlersFreeCopied == TRUE
HandlersFree == stage # "running"

TopicsFree == stage \in {"idle", "arrived"}

(* The first step of a call, on verified_callbacks_. *)
Enters(op, f) ==
    /\ call = NoCall
    /\ Len(outbox) < MaxOutbox
    /\ HandlersFree
    /\ call' = [op |-> op, filter |-> f, next |-> "topics"]
    /\ UNCHANGED <<libraryVars, connected, callbacks, handlingVars>>

SubscribeVerified(f) ==
    /\ Enters("subscribe", f)
    /\ verified' = verified \cup {f}

Unsubscribe(f) ==
    /\ f \in verified
    /\ Enters("unsubscribe", f)
    /\ verified' = verified \ {f}

(* MqttClient::subscribe and unsubscribe, up to the end of their lock; and   *)
(* an unsubscribe that erases nothing.                                      *)
TopicsAfterKept == callbacks \cup {call.filter}
TopicsAfter == IF call.op = "subscribe" THEN callbacks \cup {call.filter}
                                        ELSE callbacks \ {call.filter}

ChangeTopics ==
    /\ call # NoCall
    /\ call.next = "topics"
    /\ TopicsFree
    /\ callbacks' = TopicsAfter
    /\ call' = [call EXCEPT !.next = "library"]
    /\ UNCHANGED <<libraryVars, connected, verified, handlingVars>>

(* What the library refuses is answered with false, and stays registered.   *)
CallLibrary ==
    /\ call # NoCall
    /\ call.next = "library"
    /\ Accepts(<<Command(call.op, call.filter)>>)
    /\ call' = NoCall
    /\ UNCHANGED <<link, attempt, notices, broker, connected, callbacks, verified, handlingVars>>

-----------------------------------------------------------------------------
(* Reconnection without subscribing again. *)
ResubscribeNothing == UNCHANGED outbox
(* on_connect_success asks for every topic again, in the map's order. *)
Resubscribe ==
    \E order \in SetToSeqs(callbacks) :
        Accepts([i \in DOMAIN order |-> Command("subscribe", order[i])])

(* The library's thread makes one call at a time, in the order of what it   *)
(* reads from the connection.                                               *)
Told(n) ==
    /\ stage = "idle"
    /\ notices # <<>>
    /\ Head(notices) = n
    /\ notices' = Tail(notices)

OnConnectSuccess ==
    /\ Told("connected")
    /\ connected' = TRUE
    /\ Resubscribe
    /\ UNCHANGED <<link, attempt, broker, callbacks, verified, call, handlingVars>>

(* on_connection_lost, on_disconnect_success *)
OnDisconnect ==
    /\ Told("lost") \/ Told("disconnected")
    /\ connected' = FALSE
    /\ UNCHANGED <<link, attempt, outbox, broker, callbacks, verified, call, handlingVars>>

Callback == OnConnectSuccess \/ OnDisconnect

(* The broker sends what the session asked for. *)
MessageArrives ==
    /\ stage = "idle"
    /\ link = "up" /\ notices = <<>>
    /\ \E m \in SUBSET Filters : m \cap broker # {} /\ message' = m
    /\ stage' = "arrived"
    /\ UNCHANGED <<libraryVars, connected, callbacks, verified, call, handler>>

HandlingOnly == UNCHANGED <<libraryVars, connected, callbacks, verified, call>>

Done == stage' = "idle" /\ message' = {} /\ handler' = NoHandler

(* handle_message takes topics_mutex_ and goes on if a callback matches.    *)
Match ==
    /\ stage = "arrived"
    /\ message \cap callbacks # {}
    /\ stage' = "matched"
    /\ UNCHANGED <<message, handler>>
    /\ HandlingOnly

NoMatch ==
    /\ stage = "arrived"
    /\ message \cap callbacks = {}
    /\ Done
    /\ HandlingOnly

(* on_raw_message drops what is not signed, not fresh or of another swarm.  *)
Drop == stage = "matched" /\ Done /\ HandlingOnly

(* It calls one verified callback that matches, or finds none.              *)
Dispatch ==
    /\ stage = "matched"
    /\ \E f \in message \cap verified : handler' = f
    /\ stage' = "running"
    /\ UNCHANGED message
    /\ HandlingOnly

HandlerReturns == stage = "running" /\ Done /\ HandlingOnly

Handle == Match \/ NoMatch \/ Drop \/ Dispatch \/ HandlerReturns

MqttNext ==
    \/ LinkUp \/ ConnectFails \/ LinkLost \/ Send
    \/ Connect \/ Disconnect
    \/ \E f \in Filters : SubscribeVerified(f) \/ Unsubscribe(f)
    \/ ChangeTopics \/ CallLibrary
    \/ Callback
    \/ MessageArrives
    \/ Handle

MqttSpec == MqttInit /\ [][MqttNext]_mqttVars

FairMqttSpec ==
    /\ MqttSpec
    /\ WF_mqttVars(Send)
    /\ WF_mqttVars(CallLibrary)
    /\ WF_mqttVars(Callback)
    /\ WF_mqttVars(Handle)

-----------------------------------------------------------------------------
(* The types. *)
MqttTypeOK ==
    /\ link \in {"off", "down", "up"}
    /\ attempt \in {"first", "later"}
    /\ notices \in Seq({"connected", "lost", "disconnected"})
    /\ Len(notices) <= MaxNotices
    /\ outbox \in Seq([op : {"subscribe", "unsubscribe"}, filter : Filters])
    /\ broker \subseteq Filters
    /\ connected \in BOOLEAN
    /\ callbacks \subseteq Filters
    /\ verified \subseteq Filters
    /\ call \in {NoCall} \cup Calls
    /\ stage \in {"idle", "arrived", "matched", "running"}
    /\ message \subseteq Filters
    /\ handler \in Filters \cup {NoHandler}

(* When unsubscribe is through with its first lock, the handler neither     *)
(* runs nor will: its owner may destroy what the handler uses.              *)
QuietAfterUnsubscribe == stage = "running" => handler \in verified

(* When nothing is under way, client and broker agree as far as the code    *)
(* was told of the connection: what SecureMqttClient and MqttClient have    *)
(* registered is the same, no message is let in for nothing, and in the     *)
(* connection that answered connect() the flag is right and the broker has  *)
(* all that is registered, though commands were refused meanwhile.  In one  *)
(* that the library made by itself the flag stays false, and the broker has *)
(* no more than what is registered.                                         *)
SettledAgree ==
    link = "up" /\ notices = <<>> /\ outbox = <<>> /\ call = NoCall =>
        /\ callbacks = verified
        /\ broker \subseteq callbacks
        /\ connected = (attempt = "first")
        /\ connected => broker = callbacks

(* The caller is about to ask the library for f, in a connection. *)
Asks(f) ==
    /\ link = "up"
    /\ call # NoCall
    /\ call.op = "subscribe" /\ call.next = "library" /\ call.filter = f

(* Once the connection that answered connect() stays up, the client knows   *)
(* that it is connected and the broker has every filter that stays          *)
(* registered, also those asked for before there was a connection.  In any  *)
(* connection that stays up the broker comes to have what is asked for in   *)
(* it, and nothing that stays unregistered.                                 *)
HeardOnceUp ==
    /\ <>[](link = "up" /\ attempt = "first") =>
          /\ <>[]connected
          /\ \A f \in Filters : <>[](f \in callbacks) => <>[](f \in broker)
    /\ <>[](link = "up") => \A f \in Filters : <>[](f \notin callbacks) => <>[](f \notin broker)
    /\ \A f \in Filters : Asks(f) ~> (f \in broker \/ f \notin callbacks \/ link # "up")
=============================================================================
