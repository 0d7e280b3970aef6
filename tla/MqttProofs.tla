------------------------------ MODULE MqttProofs ------------------------------
(***************************************************************************)
(* Proofs about MQTT: the connection and what is subscribed, for any        *)
(* finite set of filters, however often the connection comes and goes; and  *)
(* heartbeats that come over it, for any number of agents, any timeout, age *)
(* of an envelope, error of clocks and resolution of the clock.             *)
(*                                                                         *)
(* What client and broker will agree on is in what was not sent yet: the    *)
(* broker will have a filter if the last command about it in the outbox     *)
(* says so.  While the link is up that is at most what is registered, but   *)
(* for the call that is about to reach the library, and all of it once the  *)
(* code has been told of the connection.  It is told of the first one after *)
(* connect() only: that is what the flag will say when all is told.         *)
(***************************************************************************)
EXTENDS Presence, Mqtt, FiniteSetTheorems, SequenceTheorems, TLAPS

Commands == [op : {"subscribe", "unsubscribe"}, filter : Filters]

WillHave(out, has, f) ==
    \/ f \in has /\ \A i \in DOMAIN out : out[i].filter # f
    \/ \E i \in DOMAIN out :
          /\ out[i].filter = f /\ out[i].op = "subscribe"
          /\ \A j \in DOMAIN out : out[j].filter = f => j <= i

(* The caller is about to give the library this command.                   *)
Awaits(op, f) ==
    call # NoCall /\ call.next = "library" /\ call.op = op /\ call.filter = f

MapsInv ==
    /\ call = NoCall => callbacks = verified
    /\ call # NoCall /\ call.next = "topics" => verified = TopicsAfter
    /\ call # NoCall /\ call.next = "library" =>
          /\ callbacks = verified
          /\ call.op = "subscribe" <=> call.filter \in callbacks

(* What the flag will be when every notice is taken.                       *)
WillKnow == IF notices = <<>> THEN connected ELSE notices[Len(notices)] = "connected"

SessionInv ==
    /\ WillKnow <=> link = "up" /\ attempt = "first"
    /\ link # "up" => outbox = <<>> /\ broker = {}
    /\ link = "up" =>
          /\ \A f \in Filters :
                WillHave(outbox, broker, f) => f \in callbacks \/ Awaits("unsubscribe", f)
          /\ attempt = "first" /\ notices = <<>> =>
                \A f \in callbacks : WillHave(outbox, broker, f) \/ Awaits("subscribe", f)

MqttInv == MqttTypeOK /\ MapsInv /\ SessionInv

-----------------------------------------------------------------------------
(* Sequences of commands. *)
LEMMA Appending ==
  ASSUME NEW out \in Seq(Commands), NEW has, NEW c \in Commands, NEW f
  PROVE  /\ Append(out, c) \in Seq(Commands)
         /\ WillHave(Append(out, c), has, f) <=>
               IF c.filter = f THEN c.op = "subscribe" ELSE WillHave(out, has, f)
<1> DEFINE m == Append(out, c)
<1>1. /\ m \in Seq(Commands) /\ Len(out) \in Nat
      /\ DOMAIN m = 1..(Len(out) + 1) /\ DOMAIN out = 1..Len(out)
      /\ \A i \in 1..Len(out) : m[i] = out[i]
      /\ m[Len(out) + 1] = c
  BY AppendProperties, LenProperties
<1> HIDE DEF m
<1>2. CASE c.filter = f
  <2>1. ~(\A i \in DOMAIN m : m[i].filter # f)
    BY <1>1, <1>2
  <2>2. ASSUME NEW i \in DOMAIN m, \A j \in DOMAIN m : m[j].filter = f => j <= i
        PROVE  m[i] = c
    <3>1. Len(out) + 1 <= i
      BY <1>1, <1>2, <2>2
    <3>2. i = Len(out) + 1
      BY <1>1, <3>1
    <3> QED
      BY <1>1, <3>2
  <2>3. ASSUME c.op = "subscribe" PROVE WillHave(m, has, f)
    <3>1. /\ Len(out) + 1 \in DOMAIN m /\ m[Len(out) + 1].filter = f
          /\ m[Len(out) + 1].op = "subscribe"
          /\ \A j \in DOMAIN m : j <= Len(out) + 1
      BY <1>1, <1>2, <2>3
    <3> QED
      BY <3>1 DEF WillHave
  <2>4. WillHave(m, has, f) => c.op = "subscribe"
    BY <2>1, <2>2 DEF WillHave
  <2> QED
    BY <1>1, <1>2, <2>3, <2>4 DEF m
<1>3. CASE c.filter # f
  <2>1. \A i \in DOMAIN m : m[i].filter = f => i \in DOMAIN out
    BY <1>1, <1>3
  <2>2. \A i \in DOMAIN out : i \in DOMAIN m /\ m[i] = out[i]
    BY <1>1
  <2>3. WillHave(m, has, f) <=> WillHave(out, has, f)
    BY <2>1, <2>2 DEF WillHave
  <2> QED
    BY <1>1, <1>3, <2>3 DEF m
<1> QED
  BY <1>2, <1>3

LEMMA SendingHead ==
  ASSUME NEW out \in Seq(Commands), out # <<>>, NEW has, NEW f
  PROVE  /\ Tail(out) \in Seq(Commands) /\ Head(out) \in Commands
         /\ WillHave(Tail(out), IF Head(out).op = "subscribe" THEN has \cup {Head(out).filter}
                                                             ELSE has \ {Head(out).filter}, f)
              <=> WillHave(out, has, f)
<1> DEFINE q == Tail(out)
           c == Head(out)
           now2 == IF c.op = "subscribe" THEN has \cup {c.filter} ELSE has \ {c.filter}
<1>1. /\ q \in Seq(Commands) /\ c \in Commands /\ c = out[1]
      /\ DOMAIN out = 1..Len(out) /\ DOMAIN q = 1..(Len(out) - 1)
      /\ Len(out) \in Nat /\ Len(out) >= 1
      /\ \A i \in 1..(Len(out) - 1) : q[i] = out[i + 1]
  BY HeadTailProperties, LenProperties
<1>2. \A x : x \in now2 <=> IF c.filter = x THEN c.op = "subscribe" ELSE x \in has
  OBVIOUS
<1> HIDE DEF q, c, now2
<1>3. \A i \in DOMAIN q : i + 1 \in DOMAIN out /\ q[i] = out[i + 1] /\ i \in Nat
  BY <1>1
<1>4. \A i \in DOMAIN out : i = 1 \/ (i - 1 \in DOMAIN q /\ out[i] = q[i - 1] /\ i \in Nat)
  BY <1>1
<1>5. 1 \in DOMAIN out
  BY <1>1
<1>6. ASSUME WillHave(q, now2, f) PROVE WillHave(out, has, f)
  <2>1. CASE f \in now2 /\ \A i \in DOMAIN q : q[i].filter # f
    <3>1. \A i \in DOMAIN out : out[i].filter = f => i = 1
      BY <1>4, <2>1
    <3>2. CASE c.filter = f
      <4>1. out[1].filter = f /\ out[1].op = "subscribe"
        BY <1>1, <1>2, <2>1, <3>2
      <4>2. \A j \in DOMAIN out : out[j].filter = f => j <= 1
        BY <3>1
      <4> QED
        BY <1>5, <4>1, <4>2 DEF WillHave
    <3>3. CASE c.filter # f
      <4>1. f \in has /\ \A i \in DOMAIN out : out[i].filter # f
        BY <1>1, <1>2, <2>1, <3>1, <3>3
      <4> QED
        BY <4>1 DEF WillHave
    <3> QED
      BY <3>2, <3>3
  <2>2. CASE \E i \in DOMAIN q : /\ q[i].filter = f /\ q[i].op = "subscribe"
                                 /\ \A j \in DOMAIN q : q[j].filter = f => j <= i
    <3>1. PICK i \in DOMAIN q : /\ q[i].filter = f /\ q[i].op = "subscribe"
                                /\ \A j \in DOMAIN q : q[j].filter = f => j <= i
      BY <2>2
    <3>2. i + 1 \in DOMAIN out /\ out[i + 1].filter = f /\ out[i + 1].op = "subscribe" /\ i \in Nat
      BY <1>3, <3>1
    <3>3. ASSUME NEW j \in DOMAIN out, out[j].filter = f PROVE j <= i + 1
      <4>1. CASE j = 1
        BY <3>2, <4>1
      <4>2. CASE j # 1
        <5>1. j - 1 \in DOMAIN q /\ q[j - 1].filter = f /\ j \in Nat
          BY <1>4, <3>3, <4>2
        <5>2. j - 1 <= i
          BY <3>1, <5>1
        <5> QED
          BY <3>2, <5>1, <5>2
      <4> QED
        BY <4>1, <4>2
    <3> QED
      BY <3>2, <3>3 DEF WillHave
  <2> QED
    BY <1>6, <2>1, <2>2 DEF WillHave
<1>7. ASSUME WillHave(out, has, f) PROVE WillHave(q, now2, f)
  <2>1. CASE f \in has /\ \A i \in DOMAIN out : out[i].filter # f
    <3>1. c.filter # f /\ \A i \in DOMAIN q : q[i].filter # f
      BY <1>1, <1>3, <1>5, <2>1
    <3> QED
      BY <1>2, <2>1, <3>1 DEF WillHave
  <2>2. CASE \E i \in DOMAIN out : /\ out[i].filter = f /\ out[i].op = "subscribe"
                                   /\ \A j \in DOMAIN out : out[j].filter = f => j <= i
    <3>1. PICK i \in DOMAIN out : /\ out[i].filter = f /\ out[i].op = "subscribe"
                                  /\ \A j \in DOMAIN out : out[j].filter = f => j <= i
      BY <2>2
    <3>2. CASE i = 1
      <4>1. \A j \in DOMAIN q : q[j].filter # f
        <5> SUFFICES ASSUME NEW j \in DOMAIN q, q[j].filter = f PROVE FALSE
          OBVIOUS
        <5>1. j + 1 \in DOMAIN out /\ out[j + 1].filter = f /\ j \in 1..(Len(out) - 1)
          BY <1>1, <1>3
        <5>2. j + 1 <= 1
          BY <3>1, <3>2, <5>1
        <5> QED
          BY <1>1, <5>1, <5>2
      <4>2. f \in now2
        BY <1>1, <1>2, <3>1, <3>2
      <4> QED
        BY <4>1, <4>2 DEF WillHave
    <3>3. CASE i # 1
      <4>1. i - 1 \in DOMAIN q /\ q[i - 1].filter = f /\ q[i - 1].op = "subscribe" /\ i \in Nat
        BY <1>4, <3>1, <3>3
      <4>2. ASSUME NEW j \in DOMAIN q, q[j].filter = f PROVE j <= i - 1
        <5>1. j + 1 \in DOMAIN out /\ out[j + 1].filter = f /\ j \in Nat
          BY <1>3, <4>2
        <5>2. j + 1 <= i
          BY <3>1, <5>1
        <5> QED
          BY <4>1, <5>1, <5>2
      <4> QED
        BY <4>1, <4>2 DEF WillHave
    <3> QED
      BY <3>2, <3>3
  <2> QED
    BY <1>7, <2>1, <2>2 DEF WillHave
<1> QED
  BY <1>1, <1>6, <1>7 DEF q, c, now2

(* Asking for every filter of a set once more. *)
LEMMA AskingAgain ==
  ASSUME NEW out \in Seq(Commands), NEW has, NEW n \in Nat, NEW order \in [1..n -> Filters],
         \A i, j \in 1..n : order[i] = order[j] => i = j
  PROVE  LET b == [i \in DOMAIN order |-> Command("subscribe", order[i])]
         IN  /\ out \o b \in Seq(Commands)
             /\ \A f : WillHave(out \o b, has, f)
                          <=> (\E i \in 1..n : order[i] = f) \/ WillHave(out, has, f)
<1> DEFINE b == [i \in DOMAIN order |-> Command("subscribe", order[i])]
           m == out \o b
<1>1. /\ b \in Seq(Commands) /\ Len(b) = n
      /\ \A i \in 1..n : b[i].filter = order[i] /\ b[i].op = "subscribe"
  BY DEF Command, Commands
<1> HIDE DEF b
<1>2. /\ m \in Seq(Commands) /\ Len(m) = Len(out) + n /\ Len(out) \in Nat
      /\ DOMAIN m = 1..(Len(out) + n) /\ DOMAIN out = 1..Len(out)
      /\ \A i \in 1..(Len(out) + n) : m[i] = IF i <= Len(out) THEN out[i] ELSE b[i - Len(out)]
  <2>0. out \in Seq(Commands) /\ b \in Seq(Commands)
    BY <1>1
  <2>1. /\ m \in Seq(Commands) /\ Len(m) = Len(out) + Len(b)
        /\ \A i \in 1 .. Len(out) + Len(b) :
              m[i] = IF i <= Len(out) THEN out[i] ELSE b[i - Len(out)]
    BY <2>0
  <2>2. DOMAIN m = 1..Len(m) /\ DOMAIN out = 1..Len(out) /\ Len(out) \in Nat
    BY <2>1, LenProperties
  <2> QED
    BY <1>1, <2>1, <2>2
<1> HIDE DEF m
<1>3. \A i \in DOMAIN out : i \in DOMAIN m /\ m[i] = out[i] /\ i <= Len(out) /\ i \in Nat
  BY <1>2
<1>4. \A i \in 1..n : Len(out) + i \in DOMAIN m /\ m[Len(out) + i].filter = order[i]
                      /\ m[Len(out) + i].op = "subscribe"
  <2> SUFFICES ASSUME NEW i \in 1..n
               PROVE  /\ Len(out) + i \in DOMAIN m
                      /\ m[Len(out) + i].filter = order[i] /\ m[Len(out) + i].op = "subscribe"
    OBVIOUS
  <2>1. Len(out) + i \in 1..(Len(out) + n) /\ ~(Len(out) + i <= Len(out)) /\ (Len(out) + i) - Len(out) = i
    BY <1>2
  <2>2. m[Len(out) + i] = b[i]
    BY <1>2, <2>1
  <2> QED
    BY <1>1, <1>2, <2>1, <2>2
<1>5. \A i \in DOMAIN m : i \in DOMAIN out \/ \E k \in 1..n : i = Len(out) + k
  <2> SUFFICES ASSUME NEW i \in DOMAIN m, i \notin DOMAIN out PROVE \E k \in 1..n : i = Len(out) + k
    OBVIOUS
  <2>1. i - Len(out) \in 1..n /\ i = Len(out) + (i - Len(out))
    BY <1>2
  <2> QED
    BY <2>1
<1>6. ASSUME NEW f, NEW k \in 1..n, order[k] = f PROVE WillHave(m, has, f)
  <2>1. ASSUME NEW j \in DOMAIN m, m[j].filter = f PROVE j <= Len(out) + k
    <3>1. CASE j \in DOMAIN out
      BY <1>2, <1>3, <3>1
    <3>2. ASSUME NEW l \in 1..n, j = Len(out) + l PROVE j <= Len(out) + k
      <4>1. order[l] = f
        BY <1>4, <2>1, <3>2
      <4>2. l = k
        BY <1>6, <4>1
      <4> QED
        BY <1>2, <3>2, <4>2
    <3> QED
      BY <1>5, <3>1, <3>2
  <2> QED
    BY <1>4, <1>6, <2>1 DEF WillHave
<1>7. ASSUME NEW f, ~\E i \in 1..n : order[i] = f PROVE WillHave(m, has, f) <=> WillHave(out, has, f)
  <2>1. ASSUME NEW i \in DOMAIN m, m[i].filter = f PROVE i \in DOMAIN out
    <3>1. ASSUME NEW k \in 1..n, i = Len(out) + k PROVE FALSE
      BY <1>4, <1>7, <2>1, <3>1
    <3> QED
      BY <1>5, <3>1
  <2> QED
    BY <1>3, <2>1 DEF WillHave
<1>8. \A f : WillHave(m, has, f) <=> (\E i \in 1..n : order[i] = f) \/ WillHave(out, has, f)
  BY <1>6, <1>7
<1> QED
  BY <1>2, <1>8 DEF b, m

-----------------------------------------------------------------------------
(* The steps. *)
LEMMA Noticed ==
  ASSUME NEW n \in {"connected", "lost", "disconnected"}, MqttInv, Notice(n)
  PROVE  /\ notices' \in Seq({"connected", "lost", "disconnected"}) /\ Len(notices') <= MaxNotices
         /\ notices' # <<>> /\ notices'[Len(notices')] = n
         /\ WillKnow' <=> n = "connected"
<1>1. notices \in Seq({"connected", "lost", "disconnected"})
  BY DEF MqttInv, MqttTypeOK
<1>2. /\ Append(notices, n) \in Seq({"connected", "lost", "disconnected"})
      /\ Len(Append(notices, n)) = Len(notices) + 1 /\ Append(notices, n)[Len(notices) + 1] = n
      /\ Append(notices, n) # <<>>
  BY <1>1, AppendProperties
<1>3. Len(notices) \in Nat /\ Len(notices) < MaxNotices /\ notices' = Append(notices, n)
  BY <1>1, LenProperties DEF Notice
<1>4. Len(notices) + 1 <= MaxNotices
  BY <1>3, MqttAssumption
<1>5. /\ notices' \in Seq({"connected", "lost", "disconnected"}) /\ Len(notices') <= MaxNotices
      /\ notices' # <<>> /\ notices'[Len(notices')] = n
  BY <1>2, <1>3, <1>4
<1>6. WillKnow' <=> n = "connected"
  BY <1>5 DEF WillKnow
<1> QED
  BY <1>5, <1>6

LEMMA LinkKeeps ==
  ASSUME MqttInv, LinkUp \/ ConnectFails \/ LinkLost \/ Connect \/ Disconnect
  PROVE  MqttInv'
<1>1. UNCHANGED <<callbacks, verified, call, handlingVars>>
  BY DEF LinkUp, ConnectFails, LinkLost, Connect, Disconnect
<1>2. MapsInv'
  BY <1>1 DEF MqttInv, MapsInv, TopicsAfter
<1>3. CASE LinkUp
  <2>1. /\ link = "down" /\ link' = "up" /\ UNCHANGED <<attempt, outbox, broker, connected>>
        /\ IF attempt = "first" THEN Notice("connected") ELSE UNCHANGED notices
    BY <1>3 DEF LinkUp
  <2>2. outbox = <<>> /\ broker = {} /\ ~WillKnow
    BY <2>1 DEF MqttInv, SessionInv
  <2>3. \A f : ~WillHave(<<>>, {}, f)
    BY DEF WillHave
  <2>4. CASE attempt = "first"
    <3>1. /\ notices' \in Seq({"connected", "lost", "disconnected"}) /\ Len(notices') <= MaxNotices
          /\ notices' # <<>> /\ WillKnow'
      BY <2>1, <2>4, Noticed
    <3>2. MqttTypeOK'
      BY <1>1, <2>1, <3>1 DEF MqttInv, MqttTypeOK, handlingVars
    <3>3. SessionInv'
      BY <2>1, <2>2, <2>3, <2>4, <3>1 DEF SessionInv
    <3> QED
      BY <1>2, <3>2, <3>3 DEF MqttInv
  <2>5. CASE attempt # "first"
    <3>1. UNCHANGED notices /\ (WillKnow' <=> WillKnow)
      BY <2>1, <2>5 DEF WillKnow
    <3>2. MqttTypeOK'
      BY <1>1, <2>1, <3>1 DEF MqttInv, MqttTypeOK, handlingVars
    <3>3. SessionInv'
      BY <2>1, <2>2, <2>3, <2>5, <3>1 DEF SessionInv
    <3> QED
      BY <1>2, <3>2, <3>3 DEF MqttInv
  <2> QED
    BY <2>4, <2>5
<1>4. CASE LinkLost
  <2>1. /\ link' = "down" /\ attempt' = "later" /\ Notice("lost")
        /\ outbox' = <<>> /\ broker' = {} /\ connected' = connected
    BY <1>4 DEF LinkLost, SessionEnds
  <2>2. /\ notices' \in Seq({"connected", "lost", "disconnected"}) /\ Len(notices') <= MaxNotices
        /\ ~WillKnow'
    BY <2>1, Noticed
  <2>3. MqttTypeOK'
    BY <1>1, <2>1, <2>2 DEF MqttInv, MqttTypeOK, handlingVars
  <2>4. SessionInv'
    BY <2>1, <2>2 DEF SessionInv
  <2> QED
    BY <1>2, <2>3, <2>4 DEF MqttInv
<1>5. CASE ConnectFails \/ Connect
  <2>1. /\ link # "up" /\ link' = "down" /\ attempt' \in {"first", "later"}
        /\ UNCHANGED <<notices, outbox, broker, connected>>
    BY <1>5 DEF ConnectFails, Connect
  <2>2. WillKnow' <=> WillKnow
    BY <2>1 DEF WillKnow
  <2>3. MqttTypeOK'
    BY <1>1, <2>1 DEF MqttInv, MqttTypeOK, handlingVars
  <2>4. SessionInv'
    BY <2>1, <2>2 DEF MqttInv, SessionInv
  <2> QED
    BY <1>2, <2>3, <2>4 DEF MqttInv
<1>6. CASE Disconnect
  <2>1. /\ link' = "off" /\ Notice("disconnected") /\ attempt' = attempt
        /\ outbox' = <<>> /\ broker' = {} /\ connected' = FALSE
    BY <1>6 DEF Disconnect, SessionEnds
  <2>2. /\ notices' \in Seq({"connected", "lost", "disconnected"}) /\ Len(notices') <= MaxNotices
        /\ ~WillKnow'
    BY <2>1, Noticed
  <2>3. MqttTypeOK'
    <3>1. connected' \in BOOLEAN /\ link' \in {"off", "down", "up"}
      BY <2>1
    <3>2. outbox' \in Seq([op : {"subscribe", "unsubscribe"}, filter : Filters]) /\ broker' \subseteq Filters
      BY <2>1
    <3> QED
      BY <1>1, <2>1, <2>2, <3>1, <3>2 DEF MqttInv, MqttTypeOK, handlingVars
  <2>4. SessionInv'
    BY <2>1, <2>2 DEF SessionInv
  <2> QED
    BY <1>2, <2>3, <2>4 DEF MqttInv
<1> QED
  BY <1>3, <1>4, <1>5, <1>6

(* A command on the way to the broker changes nothing of what it will have. *)
LEMMA SendKeeps ==
  ASSUME MqttInv, Send
  PROVE  MqttInv'
<1>1. /\ link = "up" /\ outbox # <<>> /\ outbox' = Tail(outbox)
      /\ broker' = IF Head(outbox).op = "subscribe" THEN broker \cup {Head(outbox).filter}
                                                   ELSE broker \ {Head(outbox).filter}
      /\ UNCHANGED <<link, attempt, notices, connected, callbacks, verified, call, handlingVars>>
  BY DEF Send
<1>2. outbox \in Seq(Commands)
  BY DEF MqttInv, MqttTypeOK, Commands
<1>3. /\ outbox' \in Seq(Commands) /\ Head(outbox) \in Commands
      /\ \A f : WillHave(outbox', broker', f) <=> WillHave(outbox, broker, f)
  BY <1>1, <1>2, SendingHead
<1>4. broker' \subseteq Filters
  BY <1>1, <1>3 DEF MqttInv, MqttTypeOK, Commands
<1>5. MqttTypeOK'
  BY <1>1, <1>3, <1>4 DEF MqttInv, MqttTypeOK, handlingVars, Commands
<1>6. MapsInv'
  BY <1>1 DEF MqttInv, MapsInv, TopicsAfter
<1>7. SessionInv'
  BY <1>1, <1>3 DEF MqttInv, SessionInv, WillKnow, Awaits
<1> QED
  BY <1>5, <1>6, <1>7 DEF MqttInv

LEMMA EntersKeeps ==
  ASSUME MqttInv, NEW f \in Filters, SubscribeVerified(f) \/ Unsubscribe(f)
  PROVE  MqttInv'
<1>1. PICK op \in {"subscribe", "unsubscribe"} :
         /\ call = NoCall /\ call' = [op |-> op, filter |-> f, next |-> "topics"]
         /\ verified' = IF op = "subscribe" THEN verified \cup {f} ELSE verified \ {f}
         /\ UNCHANGED <<libraryVars, connected, callbacks, handlingVars>>
  BY DEF SubscribeVerified, Unsubscribe, Enters
<1>2. call' \in Calls /\ call' # NoCall /\ call'.op = op /\ call'.filter = f /\ call'.next = "topics"
  BY <1>1, MqttAssumption DEF Calls
<1>3. MqttTypeOK'
  BY <1>1, <1>2 DEF MqttInv, MqttTypeOK, libraryVars, handlingVars
<1>4. MapsInv'
  <2>1. callbacks = verified /\ callbacks' = callbacks
    BY <1>1 DEF MqttInv, MapsInv
  <2> QED
    BY <1>1, <1>2, <2>1 DEF MapsInv, TopicsAfter
<1>5. SessionInv'
  <2>1. \A o, g : ~Awaits(o, g)
    BY <1>1 DEF Awaits
  <2> QED
    BY <1>1, <1>2, <2>1 DEF MqttInv, SessionInv, WillKnow, libraryVars
<1> QED
  BY <1>3, <1>4, <1>5 DEF MqttInv

LEMMA ChangeTopicsKeeps ==
  ASSUME MqttInv, ChangeTopics
  PROVE  MqttInv'
<1>1. /\ call # NoCall /\ call.next = "topics" /\ callbacks' = TopicsAfter
      /\ call' = [call EXCEPT !.next = "library"]
      /\ UNCHANGED <<libraryVars, connected, verified, handlingVars>>
  BY DEF ChangeTopics
<1>2. call \in Calls
  BY <1>1 DEF MqttInv, MqttTypeOK
<1>3. /\ call' \in Calls /\ call' # NoCall /\ call'.next = "library"
      /\ call'.op = call.op /\ call'.filter = call.filter
      /\ call.op \in {"subscribe", "unsubscribe"} /\ call.filter \in Filters
  BY <1>1, <1>2, MqttAssumption DEF Calls
<1>4. callbacks' = IF call.op = "subscribe" THEN callbacks \cup {call.filter}
                                            ELSE callbacks \ {call.filter}
  BY <1>1 DEF TopicsAfter
<1>5. MqttTypeOK'
  BY <1>1, <1>3, <1>4 DEF MqttInv, MqttTypeOK, libraryVars, handlingVars
<1>6. MapsInv'
  BY <1>1, <1>3, <1>4 DEF MqttInv, MapsInv, TopicsAfter
<1>7. SessionInv'
  <2>1. \A o, f : ~Awaits(o, f)
    BY <1>1 DEF Awaits
  <2>2. \A f : f # call.filter => (f \in callbacks' <=> f \in callbacks)
    BY <1>4
  <2>3. /\ call.filter \in callbacks' => call.op = "subscribe"
        /\ call.filter \notin callbacks' => call.op = "unsubscribe"
    BY <1>3, <1>4
  <2>5. UNCHANGED <<link, attempt, outbox, broker, notices, connected>>
    BY <1>1 DEF libraryVars
  <2>6. ASSUME link = "up", NEW f \in Filters, WillHave(outbox, broker, f), f \notin callbacks'
        PROVE  f = call.filter /\ call.op = "unsubscribe"
    <3>1. f \in callbacks
      BY <2>1, <2>6 DEF MqttInv, SessionInv
    <3>2. f = call.filter
      BY <2>2, <2>6, <3>1
    <3> QED
      BY <2>3, <2>6, <3>2
  <2>7. ASSUME link = "up", attempt = "first", notices = <<>>, NEW f \in callbacks', ~WillHave(outbox, broker, f)
        PROVE  f = call.filter /\ call.op = "subscribe"
    <3>1. f \notin callbacks
      BY <2>1, <2>7 DEF MqttInv, SessionInv
    <3>2. f = call.filter
      BY <2>2, <2>7, <3>1
    <3> QED
      BY <2>3, <2>7, <3>2
  <2> QED
    BY <1>3, <2>5, <2>6, <2>7 DEF MqttInv, SessionInv, WillKnow, Awaits
<1> QED
  BY <1>5, <1>6, <1>7 DEF MqttInv

(* A refused command is made up for if the code is told of the connection. *)
LEMMA CallLibraryKeeps ==
  ASSUME MqttInv, CallLibrary
  PROVE  MqttInv'
<1> DEFINE c == Command(call.op, call.filter)
<1>1. /\ call # NoCall /\ call.next = "library" /\ call' = NoCall
      /\ outbox' = IF link = "up" THEN outbox \o <<c>> ELSE outbox
      /\ UNCHANGED <<link, attempt, notices, broker, connected, callbacks, verified, handlingVars>>
  BY DEF CallLibrary, Accepts
<1>2. call \in Calls
  BY <1>1 DEF MqttInv, MqttTypeOK
<1>3. c \in Commands /\ c.op = call.op /\ c.filter = call.filter
      /\ call.op \in {"subscribe", "unsubscribe"} /\ call.filter \in Filters
  BY <1>2 DEF Command, Commands, Calls
<1>4. outbox \in Seq(Commands)
  BY DEF MqttInv, MqttTypeOK, Commands
<1> HIDE DEF c
<1>5. outbox \o <<c>> = Append(outbox, c)
  BY <1>3, <1>4, AppendIsConcat
<1>6. /\ Append(outbox, c) \in Seq(Commands)
      /\ \A f : WillHave(Append(outbox, c), broker, f) <=>
                   IF c.filter = f THEN c.op = "subscribe" ELSE WillHave(outbox, broker, f)
  BY <1>3, <1>4, Appending
<1>7. callbacks = verified /\ (call.op = "subscribe" <=> call.filter \in callbacks)
  BY <1>1 DEF MqttInv, MapsInv
<1>8. MqttTypeOK'
  BY <1>1, <1>4, <1>5, <1>6 DEF MqttInv, MqttTypeOK, handlingVars, Commands
<1>9. MapsInv'
  BY <1>1, <1>7 DEF MapsInv
<1>10. SessionInv'
  <2>1. CASE link = "up"
    <3>1. outbox' = Append(outbox, c)
      BY <1>1, <1>5, <2>1
    <3>2. ASSUME NEW f \in Filters, WillHave(outbox', broker, f) PROVE f \in callbacks
      <4>1. CASE f = c.filter
        BY <1>3, <1>6, <1>7, <3>1, <3>2, <4>1
      <4>2. CASE f # c.filter
        BY <1>3, <1>6, <2>1, <3>1, <3>2, <4>2 DEF MqttInv, SessionInv, Awaits
      <4> QED
        BY <4>1, <4>2
    <3>3. ASSUME attempt = "first", notices = <<>>, NEW f \in callbacks PROVE WillHave(outbox', broker, f)
      <4>1. CASE f = c.filter
        BY <1>3, <1>6, <1>7, <3>1, <3>3, <4>1
      <4>2. CASE f # c.filter
        BY <1>3, <1>6, <2>1, <3>1, <3>3, <4>2 DEF MqttInv, SessionInv, Awaits
      <4> QED
        BY <4>1, <4>2
    <3> QED
      BY <1>1, <2>1, <3>2, <3>3 DEF MqttInv, SessionInv, WillKnow
  <2>2. CASE link # "up"
    BY <1>1, <2>2 DEF MqttInv, SessionInv, WillKnow
  <2> QED
    BY <2>1, <2>2
<1> QED
  BY <1>8, <1>9, <1>10 DEF MqttInv

LEMMA NoticeTaken ==
  ASSUME NEW n, Told(n), notices \in Seq({"connected", "lost", "disconnected"}), Len(notices) <= MaxNotices
  PROVE  /\ notices' \in Seq({"connected", "lost", "disconnected"}) /\ Len(notices') <= MaxNotices
         /\ notices' # <<>> => notices'[Len(notices')] = notices[Len(notices)]
         /\ notices' = <<>> => notices[Len(notices)] = n
         /\ notices # <<>>
<1>1. notices # <<>> /\ notices' = Tail(notices) /\ Head(notices) = n
  BY DEF Told
<1>2. Len(notices) \in Nat /\ Len(notices) >= 1
  BY <1>1, LenProperties
<1>3. /\ Tail(notices) \in Seq({"connected", "lost", "disconnected"})
      /\ Len(Tail(notices)) = Len(notices) - 1
      /\ \A i \in 1..(Len(notices) - 1) : Tail(notices)[i] = notices[i + 1]
      /\ Head(notices) = notices[1]
  BY <1>1, HeadTailProperties
<1>4. Len(notices') \in Nat /\ Len(notices') <= MaxNotices
  BY <1>1, <1>2, <1>3, MqttAssumption
<1>5. CASE notices' = <<>>
  <2>1. Len(notices) = 1
    <3>1. Tail(notices) = <<>>
      BY <1>1, <1>5, Zenon
    <3>2. Len(<<>>) = 0
      OBVIOUS
    <3>3. Len(notices) - 1 = 0
      BY <1>3, <3>1, <3>2, Zenon
    <3> QED
      BY <1>2, <3>3
  <2> QED
    BY <1>1, <1>3, <1>4, <1>5, <2>1
<1>6. CASE notices' # <<>>
  <2>1. Len(notices') # 0
    BY <1>1, <1>3, <1>6
  <2>2. Len(notices) - 1 \in 1..(Len(notices) - 1) /\ (Len(notices) - 1) + 1 = Len(notices)
    BY <1>1, <1>2, <1>3, <2>1
  <2>3. Tail(notices)[Len(notices) - 1] = notices[Len(notices)]
    BY <1>3, <2>2
  <2> QED
    BY <1>1, <1>3, <1>4, <1>6, <2>3
<1> QED
  BY <1>5, <1>6

(* Everything registered is asked for again. *)
LEMMA ConnectSuccessKeeps ==
  ASSUME MqttInv, OnConnectSuccess
  PROVE  MqttInv'
<1>1. /\ Told("connected") /\ connected' = TRUE /\ Resubscribe
      /\ UNCHANGED <<link, attempt, broker, callbacks, verified, call, handlingVars>>
  BY DEF OnConnectSuccess
<1>2. /\ notices \in Seq({"connected", "lost", "disconnected"}) /\ Len(notices) <= MaxNotices
      /\ outbox \in Seq(Commands) /\ callbacks \subseteq Filters
  BY DEF MqttInv, MqttTypeOK, Commands
<1>3. /\ notices' \in Seq({"connected", "lost", "disconnected"}) /\ Len(notices') <= MaxNotices
      /\ notices' # <<>> => notices'[Len(notices')] = notices[Len(notices)]
      /\ notices' = <<>> => notices[Len(notices)] = "connected"
      /\ notices # <<>>
  BY <1>1, <1>2, NoticeTaken
<1>4. PICK order \in SetToSeqs(callbacks) :
         Accepts([i \in DOMAIN order |-> Command("subscribe", order[i])])
  BY <1>1 DEF Resubscribe
<1> DEFINE n == Cardinality(callbacks)
           b == [i \in DOMAIN order |-> Command("subscribe", order[i])]
<1>5. n \in Nat /\ IsFiniteSet(callbacks)
  BY <1>2, MqttAssumption, FS_Subset, FS_CardinalityType
<1>6. /\ order \in [1..n -> callbacks] /\ \A i, j \in 1..n : order[i] = order[j] => i = j
  BY <1>4 DEF SetToSeqs
<1>7. \A f : (\E i \in 1..n : order[i] = f) <=> f \in callbacks
  <2>1. order \in Injection(1..n, callbacks)
    BY <1>6 DEF Injection, IsInjective
  <2>2. IsFiniteSet(1..n) /\ Cardinality(1..n) = n
    BY <1>5, FS_Interval
  <2>3. order \in Surjection(1..n, callbacks)
    BY <1>5, <2>1, <2>2, FS_Injection
  <2> QED
    BY <1>6, <2>3 DEF Surjection
<1>8. outbox' = IF link = "up" THEN outbox \o b ELSE outbox
  BY <1>4 DEF Accepts
<1>9. /\ outbox \o b \in Seq(Commands)
      /\ \A f : WillHave(outbox \o b, broker, f)
                   <=> (\E i \in 1..n : order[i] = f) \/ WillHave(outbox, broker, f)
  <2>1. order \in [1..n -> Filters]
    BY <1>2, <1>6
  <2> HIDE DEF n
  <2> QED
    BY <1>2, <1>5, <1>6, <2>1, AskingAgain
<1> HIDE DEF n, b
<1>10. MqttTypeOK'
  BY <1>1, <1>2, <1>3, <1>8, <1>9 DEF MqttInv, MqttTypeOK, handlingVars, Commands
<1>11. MapsInv'
  BY <1>1 DEF MqttInv, MapsInv, TopicsAfter
<1>12. SessionInv'
  <2>0. WillKnow' <=> WillKnow
    BY <1>1, <1>3 DEF WillKnow
  <2>1. CASE link = "up"
    <3>1. \A f : WillHave(outbox', broker, f) <=> f \in callbacks \/ WillHave(outbox, broker, f)
      BY <1>7, <1>8, <1>9, <2>1
    <3> QED
      BY <1>1, <2>0, <2>1, <3>1 DEF MqttInv, SessionInv, Awaits
  <2>2. CASE link # "up"
    BY <1>1, <1>8, <2>0, <2>2 DEF MqttInv, SessionInv
  <2> QED
    BY <2>1, <2>2
<1> QED
  BY <1>10, <1>11, <1>12 DEF MqttInv

LEMMA DisconnectToldKeeps ==
  ASSUME MqttInv, OnDisconnect
  PROVE  MqttInv'
<1>1. PICK n \in {"lost", "disconnected"} : Told(n)
  BY DEF OnDisconnect
<1>2. connected' = FALSE /\ UNCHANGED <<link, attempt, outbox, broker, callbacks, verified, call, handlingVars>>
  BY DEF OnDisconnect
<1>3. /\ notices' \in Seq({"connected", "lost", "disconnected"}) /\ Len(notices') <= MaxNotices
      /\ notices' # <<>> => notices'[Len(notices')] = notices[Len(notices)]
      /\ notices' = <<>> => notices[Len(notices)] = n
      /\ notices # <<>>
  BY <1>1, NoticeTaken DEF MqttInv, MqttTypeOK
<1>4. MqttTypeOK'
  BY <1>2, <1>3 DEF MqttInv, MqttTypeOK, handlingVars
<1>5. MapsInv'
  BY <1>2 DEF MqttInv, MapsInv, TopicsAfter
<1>6. SessionInv'
  <2>1. WillKnow' <=> WillKnow
    BY <1>2, <1>3 DEF WillKnow
  <2>2. notices' = <<>> => ~WillKnow
    BY <1>3 DEF WillKnow
  <2> QED
    BY <1>2, <2>1, <2>2 DEF MqttInv, SessionInv, Awaits
<1> QED
  BY <1>4, <1>5, <1>6 DEF MqttInv

LEMMA HandlingKeeps ==
  ASSUME MqttInv, MessageArrives \/ Handle
  PROVE  MqttInv'
<1>1. UNCHANGED <<libraryVars, connected, callbacks, verified, call>>
  BY DEF MessageArrives, Handle, Match, NoMatch, Drop, Dispatch, HandlerReturns, HandlingOnly
<1>2. /\ stage' \in {"idle", "arrived", "matched", "running"} /\ message' \subseteq Filters
      /\ handler' \in Filters \cup {NoHandler}
  BY DEF MessageArrives, Handle, Match, NoMatch, Drop, Dispatch, HandlerReturns, Done, MqttInv, MqttTypeOK
<1>3. MqttTypeOK'
  BY <1>1, <1>2 DEF MqttInv, MqttTypeOK, libraryVars
<1>4. MapsInv'
  BY <1>1 DEF MqttInv, MapsInv, TopicsAfter
<1>5. SessionInv'
  BY <1>1 DEF MqttInv, SessionInv, WillKnow, Awaits, libraryVars
<1> QED
  BY <1>3, <1>4, <1>5 DEF MqttInv

LEMMA StepKeepsMqtt ==
  ASSUME MqttInv, [MqttNext]_mqttVars
  PROVE  MqttInv'
<1>1. CASE UNCHANGED mqttVars
  BY <1>1 DEF mqttVars, libraryVars, handlingVars, MqttInv, MqttTypeOK, MapsInv, SessionInv, WillKnow, Awaits, TopicsAfter
<1> QED
  BY <1>1, LinkKeeps, SendKeeps, EntersKeeps, ChangeTopicsKeeps, CallLibraryKeeps,
     ConnectSuccessKeeps, DisconnectToldKeeps, HandlingKeeps DEF MqttNext, Callback

LEMMA MqttInvariant == MqttSpec => []MqttInv
<1>1. MqttInit => MqttInv
  <2> SUFFICES ASSUME MqttInit PROVE MqttInv
    OBVIOUS
  <2>1. MqttTypeOK
    <3>1. <<>> \in Seq({"connected", "lost", "disconnected"}) /\ Len(<<>>) = 0 /\ 0 <= MaxNotices
      BY MqttAssumption
    <3>2. <<>> \in Seq([op : {"subscribe", "unsubscribe"}, filter : Filters])
      OBVIOUS
    <3>3. notices \in Seq({"connected", "lost", "disconnected"}) /\ Len(notices) <= MaxNotices
      BY <3>1 DEF MqttInit
    <3> QED
      BY <3>2, <3>3 DEF MqttInit, MqttTypeOK
  <2> QED
    BY <2>1 DEF MqttInit, MqttInv, MapsInv, SessionInv, WillKnow
<1>2. MqttInv /\ [MqttNext]_mqttVars => MqttInv'
  BY StepKeepsMqtt
<1> QED
  BY <1>1, <1>2, PTL DEF MqttSpec

(* The variables of the connection, of the maps and of a message keep their *)
(* types, and no more notices wait than the bound says (mqtt/client.cpp).   *)
THEOREM MqttTypes == MqttSpec => []MqttTypeOK
<1>1. MqttInv => MqttTypeOK
  BY DEF MqttInv
<1> QED
  BY <1>1, MqttInvariant, PTL

(* When nothing is under way, the two clients agree on what is subscribed,  *)
(* the flag is set just in the connection that answered connect(), the      *)
(* broker has all that is registered then and never more: subscribe,        *)
(* unsubscribe and on_connect_success of MqttClient, however often the      *)
(* connection was refused or lost before.                                   *)
THEOREM AgreeWhenSettled == MqttSpec => []SettledAgree
<1>1. MqttInv => SettledAgree
  <2> SUFFICES ASSUME MqttInv, link = "up", notices = <<>>, outbox = <<>>, call = NoCall
               PROVE  /\ callbacks = verified /\ broker \subseteq callbacks
                      /\ connected = (attempt = "first")
                      /\ connected => callbacks \subseteq broker
    BY DEF SettledAgree
  <2>1. \A f : WillHave(<<>>, broker, f) <=> f \in broker
    BY DEF WillHave
  <2>2. \A op, f : ~Awaits(op, f)
    BY DEF Awaits
  <2>3. broker \subseteq Filters /\ callbacks \subseteq Filters
    BY DEF MqttInv, MqttTypeOK
  <2>4. broker \subseteq callbacks /\ (attempt = "first" => callbacks \subseteq broker)
    BY <2>1, <2>2, <2>3 DEF MqttInv, SessionInv
  <2>5. connected <=> attempt = "first"
    BY DEF MqttInv, SessionInv, WillKnow
  <2>6. connected \in BOOLEAN
    BY DEF MqttInv, MqttTypeOK
  <2> QED
    BY <2>4, <2>5, <2>6 DEF MqttInv, MapsInv
<1> QED
  BY <1>1, MqttInvariant, PTL

(* No handler runs for a filter whose unsubscribe has taken the first lock: *)
(* cb_mutex_ is held by the handler while it runs.                          *)
THEOREM NoHandlerAfterUnsubscribe == MqttSpec => []QuietAfterUnsubscribe
<1>1. MqttInit => QuietAfterUnsubscribe
  BY DEF MqttInit, QuietAfterUnsubscribe
<1>2. QuietAfterUnsubscribe /\ [MqttNext]_mqttVars => QuietAfterUnsubscribe'
  <2> SUFFICES ASSUME QuietAfterUnsubscribe, [MqttNext]_mqttVars PROVE QuietAfterUnsubscribe'
    OBVIOUS
  <2>1. ASSUME NEW f \in Filters, SubscribeVerified(f) \/ Unsubscribe(f) PROVE QuietAfterUnsubscribe'
    BY <2>1 DEF SubscribeVerified, Unsubscribe, Enters, HandlersFree, handlingVars, QuietAfterUnsubscribe
  <2>2. CASE MessageArrives \/ Handle
    BY <2>2 DEF MessageArrives, Handle, Match, NoMatch, Drop, Dispatch, HandlerReturns, Done,
                HandlingOnly, QuietAfterUnsubscribe
  <2>3. ASSUME UNCHANGED <<verified, handlingVars>> PROVE QuietAfterUnsubscribe'
    BY <2>3 DEF handlingVars, QuietAfterUnsubscribe
  <2>4. CASE LinkUp \/ ConnectFails \/ LinkLost \/ Send \/ Connect \/ Disconnect
    BY <2>3, <2>4 DEF LinkUp, ConnectFails, LinkLost, Send, Connect, Disconnect
  <2>5. CASE ChangeTopics \/ CallLibrary \/ Callback \/ UNCHANGED mqttVars
    BY <2>3, <2>5 DEF ChangeTopics, CallLibrary, Callback, OnConnectSuccess, OnDisconnect, mqttVars
  <2> QED
    BY <2>1, <2>2, <2>4, <2>5 DEF MqttNext
<1> QED
  BY <1>1, <1>2, PTL DEF MqttSpec

-----------------------------------------------------------------------------
LEMMA Periods ==
  /\ Second \in Nat \ {0} /\ Timeout \in Nat /\ Timeout * Second \in Nat
  /\ Timeout * Second > 0
<1>1. Second \in Nat /\ Second > 0 /\ Timeout \in Nat /\ Timeout > 0
  BY ClockAssumption, TimeoutAssumption
<1>2. Timeout * Second \in Nat /\ Timeout * Second > 0
  BY <1>1
<1> QED
  BY <1>1, <1>2

-----------------------------------------------------------------------------
(* Heartbeats over MQTT.  An envelope of ours is dated by what was last     *)
(* reported for its agent and the error of clocks, an entry by the envelope *)
(* and the age it may have.                                                 *)
PresenceInv ==
    /\ now \in Nat
    /\ Registered \subseteq Agents
    /\ spoke \in [Agents -> Nat]
    /\ \A a \in Registered :
          agents[a] \in Nat /\ agents[a] <= now /\ agents[a] < spoke[a] + MaxAge * Second + Drift
    /\ \A a \in Agents : spoke[a] <= now
    /\ mail \subseteq Envelopes
    /\ \A e \in mail : e.origin = "ours" => e.stamp <= spoke[e.about] + Drift

LEMMA Ages == MaxAge * Second \in Nat /\ MaxAge * Second > 0 /\ Drift \in Nat
<1>1. Second \in Nat /\ Second > 0 /\ MaxAge \in Nat /\ MaxAge > 0
  BY ClockAssumption, PresenceAssumption
<1>2. MaxAge * Second \in Nat /\ MaxAge * Second > 0
  BY <1>1
<1> QED
  BY <1>2, PresenceAssumption

LEMMA LongEnough ==
  ASSUME NEW d \in Nat, d >= Timeout * Second
  PROVE  d \div Second >= Timeout
<1> DEFINE q == d \div Second
<1>1. q \in Int /\ d < Second * (q + 1)
  BY Periods
<1> HIDE DEF q
<1>2. SUFFICES ASSUME q < Timeout PROVE FALSE
  BY <1>1, Periods DEF q
<1>3. q + 1 <= Timeout
  BY <1>1, <1>2, Periods
<1>4. Second * (q + 1) <= Timeout * Second
  BY <1>1, <1>3, Periods
<1> QED
  BY <1>1, <1>4, Periods

LEMMA ReportToolKeeps ==
  ASSUME PresenceInv, ReportTool
  PROVE  PresenceInv'
<1>1. PICK a \in Agents :
         (RegisterAgent(a) \/ UpdateAgent(a) \/ Heartbeat(a)) /\ spoke' = [spoke EXCEPT ![a] = now]
  BY DEF ReportTool
<1>2. /\ DOMAIN agents' = Registered \cup {a} /\ agents'[a] = now
      /\ \A x \in Registered \ {a} : agents'[x] = agents[x]
  BY <1>1 DEF RegisterAgent, UpdateAgent, Heartbeat, Report, Put, Registered
<1>3. now' = now /\ mail' = mail
  BY DEF ReportTool
<1>4. /\ spoke' \in [Agents -> Nat] /\ spoke'[a] = now
      /\ \A x \in Agents \ {a} : spoke'[x] = spoke[x]
  BY <1>1 DEF PresenceInv
<1>5. \A x \in Agents : spoke[x] \in Nat /\ spoke'[x] \in Nat /\ spoke[x] <= spoke'[x] /\ spoke'[x] <= now
  BY <1>4 DEF PresenceInv
<1>6. ASSUME NEW e \in mail, e.origin = "ours" PROVE e.stamp <= spoke'[e.about] + Drift
  <2>1. e.about \in Agents /\ e.stamp \in Int /\ e.stamp <= spoke[e.about] + Drift
    BY <1>6 DEF PresenceInv, Envelopes
  <2> QED
    BY <1>5, <2>1, Ages
<1>7. ASSUME NEW x \in Registered \cup {a}
      PROVE  agents'[x] \in Nat /\ agents'[x] <= now /\ agents'[x] < spoke'[x] + MaxAge * Second + Drift
  <2>1. CASE x = a
    BY <1>2, <1>4, <2>1, Ages DEF PresenceInv
  <2>2. CASE x # a
    <3>1. x \in Registered /\ x \in Agents /\ agents'[x] = agents[x] /\ spoke'[x] = spoke[x]
      BY <1>2, <1>4, <1>7, <2>2 DEF PresenceInv
    <3> QED
      BY <3>1 DEF PresenceInv
  <2> QED
    BY <2>1, <2>2
<1> QED
  BY <1>2, <1>3, <1>4, <1>5, <1>6, <1>7 DEF PresenceInv, Registered

(* Fewer entries, fewer envelopes. *)
LEMMA LessKeeps ==
  ASSUME PresenceInv, now' = now, spoke' = spoke, mail' \subseteq mail,
         Registered' \subseteq Registered,
         \A x \in Registered' : agents'[x] = agents[x]
  PROVE  PresenceInv'
BY DEF PresenceInv

LEMMA PublishKeepsPresence ==
  ASSUME PresenceInv, Publish
  PROVE  PresenceInv'
<1>1. PICK a \in Agents, off \in -Drift..Drift, origin \in Origins :
         /\ mail' = mail \cup {[about |-> a, stamp |-> now + off, origin |-> origin]}
         /\ spoke' = IF origin = "ours" THEN [spoke EXCEPT ![a] = now] ELSE spoke
  BY DEF Publish
<1> DEFINE new == [about |-> a, stamp |-> now + off, origin |-> origin]
<1>2. now \in Nat /\ off \in Int /\ off <= Drift
  BY Ages DEF PresenceInv
<1>3. new \in Envelopes /\ new.origin = origin /\ new.about = a /\ new.stamp = now + off
  BY <1>2 DEF Envelopes
<1>4. /\ spoke' \in [Agents -> Nat]
      /\ \A x \in Agents : spoke[x] \in Nat /\ spoke'[x] \in Nat /\ spoke[x] <= spoke'[x] /\ spoke'[x] <= now
      /\ origin = "ours" => spoke'[a] = now
  BY <1>1 DEF PresenceInv
<1>5. mail' = mail \cup {new}
  BY <1>1
<1> HIDE DEF new
<1>6. ASSUME NEW e \in mail', e.origin = "ours" PROVE e.stamp <= spoke'[e.about] + Drift
  <2>1. CASE e = new
    <3>1. spoke'[e.about] = now /\ e.stamp = now + off
      BY <1>3, <1>4, <1>6, <2>1
    <3> QED
      BY <1>2, <3>1, Ages
  <2>2. CASE e \in mail
    <3>1. e.about \in Agents /\ e.stamp \in Int /\ e.stamp <= spoke[e.about] + Drift
      BY <1>6, <2>2 DEF PresenceInv, Envelopes
    <3> QED
      BY <1>4, <3>1, Ages
  <2> QED
    BY <1>5, <2>1, <2>2
<1>7. agents' = agents /\ now' = now
  BY DEF Publish, registryVars
<1>8. ASSUME NEW x \in Registered
      PROVE  agents[x] \in Nat /\ agents[x] <= now /\ agents[x] < spoke'[x] + MaxAge * Second + Drift
  <2>1. x \in Agents /\ agents[x] \in Nat /\ agents[x] <= now
        /\ agents[x] < spoke[x] + MaxAge * Second + Drift
    BY DEF PresenceInv
  <2> QED
    BY <1>4, <2>1, Ages
<1>9. mail' \subseteq Envelopes
  BY <1>3, <1>5 DEF PresenceInv
<1> QED
  BY <1>4, <1>6, <1>7, <1>8, <1>9 DEF PresenceInv, Registered

LEMMA DeliverKeeps ==
  ASSUME PresenceInv, Deliver
  PROVE  PresenceInv'
<1>1. PICK e \in mail : Accepted(e) /\ Heartbeat(e.about)
  BY DEF Deliver
<1>2. e.about \in Registered /\ e.about \in Agents /\ e.stamp \in Int
  BY <1>1 DEF PresenceInv, Envelopes, Heartbeat
<1>3. e.stamp <= spoke[e.about] + Drift /\ now - e.stamp < MaxAge * Second
  BY <1>1 DEF PresenceInv, Accepted, Fresh
<1>4. /\ DOMAIN agents' = Registered /\ agents'[e.about] = now
      /\ \A x \in Registered \ {e.about} : agents'[x] = agents[x]
  BY <1>1, <1>2 DEF Heartbeat, Report, Put, Registered
<1>5. now' = now /\ mail' = mail /\ spoke' = spoke
  BY DEF Deliver
<1>6. spoke[e.about] \in Nat /\ now \in Nat
  BY <1>2 DEF PresenceInv
<1>7. now < spoke[e.about] + MaxAge * Second + Drift
  BY <1>2, <1>3, <1>6, Ages
<1> QED
  BY <1>4, <1>5, <1>6, <1>7 DEF PresenceInv, Registered

LEMMA StepKeepsPresence ==
  ASSUME PresenceInv, [PresenceNext]_presenceVars
  PROVE  PresenceInv'
<1>1. CASE Deregistered
  <2>1. PICK a \in Agents : DeregisterAgent(a)
    BY <1>1 DEF Deregistered
  <2>2. Registered' \subseteq Registered /\ \A x \in Registered' : agents'[x] = agents[x]
    BY <2>1 DEF DeregisterAgent, Without, Restrict, Registered
  <2> QED
    BY <1>1, <2>2, LessKeeps DEF Deregistered
<1>2. CASE PruneRound
  <2>1. Registered' \subseteq Registered /\ \A x \in Registered' : agents'[x] = agents[x]
    BY <1>2 DEF PruneRound, PruneStale, Without, Restrict, Registered
  <2> QED
    BY <1>2, <2>1, LessKeeps DEF PruneRound
<1>3. CASE Discard
  BY <1>3, LessKeeps DEF Discard, registryVars, Registered
<1>4. CASE PresenceTick
  <2>1. now' = now + 1 /\ now \in Nat
    BY <1>4 DEF PresenceTick, Passes, PresenceInv
  <2>2. agents' = agents /\ mail' = mail /\ spoke' = spoke
    BY <1>4 DEF PresenceTick, registryVars
  <2>3. \A x \in Agents : spoke[x] \in Nat /\ spoke[x] <= now + 1
    BY <2>1 DEF PresenceInv
  <2>4. \A x \in Registered : agents[x] \in Nat /\ agents[x] <= now + 1
    BY <2>1 DEF PresenceInv
  <2> QED
    BY <2>1, <2>2, <2>3, <2>4 DEF PresenceInv, Registered
<1>5. CASE UNCHANGED presenceVars
  BY <1>5, LessKeeps DEF presenceVars, Registered
<1> QED
  BY <1>1, <1>2, <1>3, <1>4, <1>5, ReportToolKeeps, PublishKeepsPresence, DeliverKeeps
     DEF PresenceNext

(* An agent that nobody reports for any more is stale when the timeout, the *)
(* age an envelope may have and the error of clocks have passed, however    *)
(* late and how often its envelopes are delivered.                          *)
THEOREM GhostsLeave == PresenceSpec => []GhostsGoStale
<1>1. PresenceInit => PresenceInv
  BY DEF PresenceInit, ClockInit, RegistryInit, NoAgents, PresenceInv, Registered
<1>2. PresenceInv /\ [PresenceNext]_presenceVars => PresenceInv'
  BY StepKeepsPresence
<1>3. PresenceInv => GhostsGoStale
  <2> SUFFICES ASSUME PresenceInv, NEW a \in Registered,
                      now - spoke[a] >= (Timeout + MaxAge) * Second + Drift
               PROVE  a \in Stale
    BY DEF GhostsGoStale
  <2>1. /\ now \in Nat /\ spoke[a] \in Nat /\ agents[a] \in Nat /\ agents[a] <= now
        /\ agents[a] < spoke[a] + MaxAge * Second + Drift
    BY DEF PresenceInv
  <2>2. (Timeout + MaxAge) * Second = Timeout * Second + MaxAge * Second
    BY ClockAssumption, TimeoutAssumption, PresenceAssumption
  <2>3. now - agents[a] \in Nat /\ now - agents[a] >= Timeout * Second
    BY <2>1, <2>2, Ages, Periods
  <2>4. SecondsSince(agents[a]) >= Timeout
    BY <2>3, LongEnough DEF SecondsSince
  <2> QED
    BY <2>4 DEF Stale
<1> QED
  BY <1>1, <1>2, <1>3, PTL DEF PresenceSpec
=============================================================================
