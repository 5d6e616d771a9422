----------------------------- MODULE MqttClient -----------------------------
(***************************************************************************)
(* The MQTT client the root talks to the broker with: the task that keeps   *)
(* the connection (esp_mqtt_task), the functions other tasks call, and the  *)
(* outbox between them. The broker and the TCP connection are external.     *)
(*                                                                          *)
(* The task holds api_lock for one pass of its loop, except while it polls  *)
(* the socket; pc says where it is. A function another task calls takes the *)
(* lock, so it is one action that needs the lock free. Timers are not       *)
(* counted: what may be due is due or is not.                               *)
(***************************************************************************)
EXTENDS MqttOutbox

CONSTANTS
    Msg,             \* what the application publishes
    QosOf,           \* its quality of service
    Topic,           \* what the event handler subscribes to
    None,            \* the body of a packet that has none
    MsgId,           \* message identifiers
    Reuse,           \* whether an identifier still in use may be drawn again
    Onward,          \* the packet on which the broker passes a QoS 2 message on
    MaxPublished,    \* bound: messages handed to the client
    MaxFailures,     \* bound: links lost, connections refused, answers too late
    MaxExpiries,     \* bound: passes on which something expires
    MaxOther,        \* bound: calls of esp_mqtt_client_stop and commands received
    MaxWire          \* bound: packets under way when a timer or a command makes one more

ASSUME ContentAssumption == QosOf \in [Msg -> 0 .. 2] /\ Msg \cap Topic = {} /\ None \notin Msg \cup Topic
ASSUME IdAssumption == MsgId \subseteq Nat \ {0} /\ Reuse \in BOOLEAN
ASSUME BrokerAssumption == Onward \in {"PUBLISH", "PUBREL"}
ASSUME BoundAssumption ==
    MaxPublished \in Nat /\ MaxFailures \in Nat /\ MaxExpiries \in Nat
    /\ MaxOther \in Nat /\ MaxWire \in Nat

VARIABLES
    state,           \* client->state
    run,             \* client->run
    pc,              \* where esp_mqtt_task is
    outbox,          \* client->outbox
    wait_for_ping_resp,
    mqtt_connected,  \* the application's flag, which its event handler keeps
    asked,           \* topics the handler has subscribed to on this connection
    link,            \* the TCP connection
    toBroker,        \* packets under way
    toClient,
    session,         \* the broker: QoS 2 messages that await PUBREL, by identifier
    subscribed,      \* the broker: topics subscribed to in this session
    count,           \* the broker: deliveries of a message in this session
    delivered,       \* messages the broker has delivered
    lost,            \* messages the broker held when their session ended
    published,       \* messages handed to the client
    discarded,       \* messages of the outbox that expired or went with the client
    budget           \* what the bounds leave

taskVars == <<state, run, pc, wait_for_ping_resp, mqtt_connected, asked>>
linkVars == <<link, toBroker, toClient>>
brokerVars == <<session, subscribed, count, delivered, lost>>
ghostVars == <<published, discarded, budget>>
vars == <<taskVars, outbox, linkVars, brokerVars, ghostVars>>

Body == Msg \cup Topic

Packet(type, id, body) == [type |-> type, id |-> id, body |-> body]

\* outbox_item_get_data: what is sent of an item of the outbox.
outbox_item_get_data(e) == Packet(e.type, e.id, e.body)

\* The PUBLISH for a message; one of QoS 0 has no identifier.
make_publish(m, id) == Packet("PUBLISH", IF QosOf[m] = 0 THEN 0 ELSE id, m)

\* The outbox after a packet was put into it.
mqtt_enqueue(id, type, qos, body) == outbox_enqueue(outbox, id, type, qos, body)

\* api_lock is free: the task is between two passes, polls, or is not there.
Unlocked == pc \in {"none", "loop", "poll"}

InUse ==
    {outbox[i].id : i \in DOMAIN outbox} \cup {toBroker[i].id : i \in DOMAIN toBroker}
    \cup {toClient[i].id : i \in DOMAIN toClient} \cup {e.id : e \in session}

\* append_message_id: a random number, which nothing compares with those in use.
NewIds ==
    IF Reuse THEN MsgId
    ELSE {i \in MsgId \ InUse : \A j \in MsgId \ InUse : i <= j}

Spend(what) == budget[what] > 0 /\ budget' = [budget EXCEPT ![what] = @ - 1]

\* The bound on what timers send and others publish.
Room == Len(toBroker) + Len(toClient) < MaxWire
-----------------------------------------------------------------------------
\* esp_mqtt_write succeeds: on a link that is up the broker gets the packet, on one
\* that is dead nobody will and nobody can tell.
Written(p) ==
    \/ link = "up" /\ toBroker' = Append(toBroker, p)
    \/ link = "dead" /\ UNCHANGED toBroker

\* esp_mqtt_write fails, at once or after the network timeout.
WriteFails == link # "up"

\* Reading ends with an error or with the end of the stream, not with a timeout.
ReadFails == link = "broken"

\* The end of a pass: the lock is released, and a connected client polls.
EndOfPass == pc' = IF state' = "CONNECTED" THEN "poll" ELSE "loop"

\* Mutant: the event handler is not told.
AbortSilently ==
    /\ state' = "WAIT_RECONNECT"
    /\ wait_for_ping_resp' = FALSE
    /\ UNCHANGED mqtt_connected
    /\ link' = "none"
    /\ toBroker' = <<>>
    /\ toClient' = <<>>

\* esp_mqtt_abort_connection and the DISCONNECTED event.
Abort ==
    /\ state' = "WAIT_RECONNECT"
    /\ wait_for_ping_resp' = FALSE
    /\ mqtt_connected' = FALSE
    /\ link' = "none"
    /\ toBroker' = <<>>
    /\ toClient' = <<>>

\* What is written stays on the wire, or writing fails and the connection is aborted.
WrittenOrAborted(p) ==
    \/ Written(p) /\ UNCHANGED <<state, wait_for_ping_resp, mqtt_connected, link, toClient>>
    \/ WriteFails /\ Abort

\* The ERROR event, whose handler takes the connection for lost.
esp_mqtt_client_dispatch_transport_error == mqtt_connected' = FALSE

\* A ping is written, and its answer awaited from then on.
esp_mqtt_client_ping ==
    /\ Written(Packet("PINGREQ", 0, None))
    /\ wait_for_ping_resp' = TRUE
-----------------------------------------------------------------------------
Init ==
    /\ state = "INIT"
    /\ run = FALSE
    /\ pc = "none"
    /\ outbox = outbox_init
    /\ wait_for_ping_resp = FALSE
    /\ mqtt_connected = FALSE
    /\ asked = {}
    /\ link = "none"
    /\ toBroker = <<>>
    /\ toClient = <<>>
    /\ session = {}
    /\ subscribed = {}
    /\ count = [m \in Msg |-> 0]
    /\ delivered = {}
    /\ lost = {}
    /\ published = {}
    /\ discarded = {}
    /\ budget = [failure |-> MaxFailures, expiry |-> MaxExpiries, other |-> MaxOther]

\* esp_mqtt_client_start, and the first lines of the task it creates, which has a
\* higher priority than its callers.
Start ==
    /\ pc = "none"
    /\ state = "INIT"
    /\ run' = TRUE
    /\ state' = "INIT"
    /\ pc' = "loop"
    /\ UNCHANGED <<outbox, wait_for_ping_resp, mqtt_connected, asked, linkVars,
                   brokerVars, ghostVars>>

\* The top of the loop, maybe after the poll of the socket, which has ended with data
\* or without.
AtTop == pc = "loop" \/ (pc = "poll" /\ link # "broken")

\* The lock, and what has been in the outbox for too long goes.
Lock ==
    /\ AtTop
    /\ run
    /\ pc' = "state"
    /\ \/ UNCHANGED <<outbox, discarded, budget>>
       \/ \E old \in SUBSET Bodies(outbox) \ {{}} :
            /\ Spend("expiry")
            /\ outbox' = outbox_delete_expired(outbox, old)
            /\ discarded' = discarded \cup (old \cap Msg)
    /\ UNCHANGED <<state, run, wait_for_ping_resp, mqtt_connected, asked, linkVars,
                   brokerVars, published>>

\* The end of the task: no DISCONNECTED event.
Exit ==
    /\ AtTop
    /\ ~run
    /\ link' = "none"
    /\ toBroker' = <<>>
    /\ toClient' = <<>>
    /\ outbox' = outbox_delete_all_items(outbox)
    /\ discarded' = discarded \cup (Bodies(outbox) \cap Msg)
    /\ state' = "DISCONNECTED"
    /\ pc' = "none"
    /\ UNCHANGED <<run, wait_for_ping_resp, mqtt_connected, asked, brokerVars,
                   published, budget>>

\* What is left in the outbox goes with the client.
esp_mqtt_client_destroy == discarded' = discarded \cup (Bodies(outbox) \cap Msg)

\* A new client, for which there is memory.
esp_mqtt_client_init ==
    /\ state' = "INIT"
    /\ outbox' = outbox_init
    /\ wait_for_ping_resp' = FALSE

\* What mqtt_disconnect does with a client it has stopped: it is destroyed, the flag
\* is cleared, and the next call of init_mqtt makes another one.
Recreate ==
    /\ pc = "none"
    /\ state = "DISCONNECTED"
    /\ esp_mqtt_client_destroy
    /\ esp_mqtt_client_init
    /\ mqtt_connected' = FALSE
    /\ asked' = {}
    /\ UNCHANGED <<run, pc, linkVars, brokerVars, published, budget>>
-----------------------------------------------------------------------------
(* MQTT_STATE_INIT and MQTT_STATE_WAIT_RECONNECT. *)

\* What the broker has of QoS 2 and has not passed on.
Held == {e.body : e \in session} \ delivered

\* CONNECT asks for a clean session: the broker forgets the one before, and what it held.
NewSession ==
    /\ session' = {}
    /\ lost' = lost \cup Held
    /\ subscribed' = {}
    /\ count' = [m \in Msg |-> 0]

\* Mutant: the handler subscribes on its first connection only.
SubscribesOnce ==
    /\ pc = "state"
    /\ state = "INIT"
    /\ link' = "up"
    /\ NewSession
    /\ state' = "CONNECTED"
    /\ wait_for_ping_resp' = FALSE
    /\ mqtt_connected' = TRUE
    /\ pc' = "event"
    /\ UNCHANGED <<run, outbox, asked, toBroker, toClient, delivered, ghostVars>>

\* esp_mqtt_connect ends with CONNACK for a clean session: the CONNECTED event.
ConnectSucceeds ==
    /\ pc = "state"
    /\ state = "INIT"
    /\ link' = "up"
    /\ NewSession
    /\ state' = "CONNECTED"
    /\ wait_for_ping_resp' = FALSE
    /\ mqtt_connected' = TRUE
    /\ asked' = {}
    /\ pc' = "event"
    /\ UNCHANGED <<run, outbox, toBroker, toClient, delivered, ghostVars>>

\* No transport, no CONNACK in time, or a refusal.
ConnectFails ==
    /\ pc = "state"
    /\ state = "INIT"
    /\ Spend("failure")
    /\ Abort
    /\ EndOfPass
    /\ UNCHANGED <<run, outbox, asked, brokerVars, published, discarded>>

\* esp_mqtt_client_subscribe, from the handler of the CONNECTED event: the request
\* is in the outbox before it is written and stays there if that fails; the
\* connection is not aborted then, but the ERROR event clears the flag, unless
\* the write has timed out. The item's qos, in the code that of the last message
\* published, is only read of items that are QUEUED.
Subscribe(t, id) ==
    /\ pc = "event"
    /\ t \in Topic \ asked
    /\ asked' = asked \cup {t}
    /\ outbox' = outbox_set_pending(mqtt_enqueue(id, "SUBSCRIBE", 0, t), id, "TRANSMITTED")
    /\ \/ Written(Packet("SUBSCRIBE", id, t)) /\ UNCHANGED mqtt_connected
       \/ /\ WriteFails
          /\ \/ esp_mqtt_client_dispatch_transport_error
             \/ link = "dead" /\ UNCHANGED mqtt_connected
          /\ UNCHANGED toBroker
    /\ UNCHANGED <<state, run, pc, wait_for_ping_resp, link, toClient, brokerVars,
                   ghostVars>>

\* The handler returns.
Handled ==
    /\ pc = "event"
    /\ Topic \subseteq asked
    /\ pc' = IF state = "CONNECTED" THEN "poll" ELSE "loop"
    /\ UNCHANGED <<state, run, outbox, wait_for_ping_resp, mqtt_connected, asked,
                   linkVars, brokerVars, ghostVars>>

\* reconnect_timeout_ms is over. Until then the task stays at the top of its loop.
Reconnect ==
    /\ pc = "state"
    /\ state = "WAIT_RECONNECT"
    /\ state' = "INIT"
    /\ pc' = "loop"
    /\ UNCHANGED <<run, outbox, wait_for_ping_resp, mqtt_connected, asked, linkVars,
                   brokerVars, ghostVars>>
-----------------------------------------------------------------------------
(* MQTT_STATE_CONNECTED: receive, then resend, then keep alive. *)

\* mqtt_process_receive, when there is nothing to read.
ReceiveNothing ==
    /\ pc = "state"
    /\ state = "CONNECTED"
    /\ ~ReadFails
    /\ toClient = <<>>
    /\ pc' = "resend"
    /\ UNCHANGED <<state, run, outbox, wait_for_ping_resp, mqtt_connected, asked,
                   linkVars, brokerVars, ghostVars>>

ReceiveFails ==
    /\ pc = "state"
    /\ state = "CONNECTED"
    /\ ReadFails
    /\ Abort
    /\ EndOfPass
    /\ UNCHANGED <<run, outbox, asked, brokerVars, ghostVars>>

\* The outbox without the first packet of that type and identifier.
remove_initiator_message(id, type) == outbox_delete(outbox, id, type)

\* Mutant: a PUBREC leaves the message as it is.
AnsweredEarly(a) ==
    CASE a.type \in {"PUBACK", "PUBCOMP"} -> remove_initiator_message(a.id, "PUBLISH")
      [] a.type = "PUBREC" -> outbox_set_pending(outbox, a.id, "TRANSMITTED")
      [] a.type = "SUBACK" -> remove_initiator_message(a.id, "SUBSCRIBE")
      [] OTHER -> outbox

\* What an answer of the broker does to the outbox.
Answered(a) ==
    CASE a.type \in {"PUBACK", "PUBCOMP"} -> remove_initiator_message(a.id, "PUBLISH")
      [] a.type = "PUBREC" -> outbox_set_pending(outbox, a.id, "ACKNOWLEDGED")
      [] a.type = "SUBACK" -> remove_initiator_message(a.id, "SUBSCRIBE")
      [] OTHER -> outbox

\* The answer to a ping is awaited until it comes.
StillAwaited(a) == wait_for_ping_resp /\ a.type # "PINGRESP"

\* The PUBREL that answers a PUBREC, whether or not that is for a message we know. If it is
\* not written, after the network timeout or with an ERROR event, the connection goes on.
AnswerWithPubrel(id) ==
    \/ /\ Written(Packet("PUBREL", id, None))
       /\ UNCHANGED <<mqtt_connected, budget>>
    \/ /\ Spend("failure")
       /\ UNCHANGED mqtt_connected \/ esp_mqtt_client_dispatch_transport_error
       /\ UNCHANGED toBroker

\* A PUBLISH, of quality of service 0 like the subscriptions, is a command: the DATA event.
Receive ==
    /\ pc = "state"
    /\ state = "CONNECTED"
    /\ toClient # <<>>
    /\ LET a == Head(toClient)
       IN  /\ outbox' = Answered(a)
           /\ IF a.type = "PUBREC" THEN AnswerWithPubrel(a.id)
              ELSE UNCHANGED <<toBroker, mqtt_connected, budget>>
           /\ wait_for_ping_resp' = StillAwaited(a)
    /\ toClient' = Tail(toClient)
    /\ pc' = IF Head(toClient).type = "PUBLISH" THEN "data" ELSE "resend"
    /\ UNCHANGED <<state, run, asked, link, brokerVars, published, discarded>>

\* The handler of the DATA event returns; it may have published, and thereby aborted the
\* connection whose message it handled.
DataHandled ==
    /\ pc = "data"
    /\ pc' = "resend"
    /\ UNCHANGED <<state, run, outbox, wait_for_ping_resp, mqtt_connected, asked,
                   linkVars, brokerVars, ghostVars>>

\* Mutants: a message of QoS 1 or 2 is forgotten once it has been transmitted; or is
\* marked with the state that has no name here.
TransmittedOnce(i) == outbox_delete_item(outbox, i)
TransmittedConfirmed(i) == outbox_set_pending(outbox, outbox[i].id, "CONFIRMED")

\* What becomes of an item that was in the outbox and not yet transmitted. A
\* request that is not a PUBLISH has no quality of service and stays as it is.
Transmitted(i) ==
    LET e == outbox[i]
    IN  IF e.qos > 0 THEN outbox_set_pending(outbox, e.id, "TRANSMITTED")
        ELSE IF e.type = "PUBLISH" THEN outbox_delete_item(outbox, i)
        ELSE outbox

\* mqtt_resend_queued, for the first item that was never transmitted.
ResendQueued ==
    /\ pc = "resend"
    /\ LET i == outbox_dequeue(outbox, "QUEUED")
       IN  /\ i # 0
           /\ \/ /\ Written(outbox_item_get_data(outbox[i]))
                 /\ outbox' = Transmitted(i)
                 /\ UNCHANGED <<state, wait_for_ping_resp, mqtt_connected, link, toClient>>
              \/ WriteFails /\ Abort /\ UNCHANGED outbox
    /\ pc' = "keepalive"
    /\ UNCHANGED <<run, asked, brokerVars, ghostVars>>

\* message_retransmit_timeout is over: the first item that was transmitted is
\* transmitted again ...
ResendTransmitted ==
    /\ pc = "resend"
    /\ outbox_dequeue(outbox, "QUEUED") = 0
    /\ Room
    /\ LET i == outbox_dequeue(outbox, "TRANSMITTED")
       IN  /\ i # 0
           /\ WrittenOrAborted(outbox_item_get_data(outbox[i]))
    /\ pc' = "pubrel"
    /\ UNCHANGED <<run, outbox, asked, brokerVars, ghostVars>>

\* ... unless the timeout is not over, there is none, or it is too young.
TransmittedNotDue ==
    /\ pc = "resend"
    /\ outbox_dequeue(outbox, "QUEUED") = 0
    /\ pc' = "pubrel"
    /\ UNCHANGED <<state, run, outbox, wait_for_ping_resp, mqtt_connected, asked,
                   linkVars, brokerVars, ghostVars>>

\* Mutant: the item is looked for among the transmitted ones.
ReleaseTransmitted ==
    /\ pc = "pubrel"
    /\ Room
    /\ LET i == outbox_dequeue(outbox, "TRANSMITTED")
       IN  i # 0 /\ WrittenOrAborted(Packet("PUBREL", outbox[i].id, None))
    /\ pc' = "keepalive"
    /\ UNCHANGED <<run, outbox, asked, brokerVars, ghostVars>>

\* And the first that was acknowledged is released again, even if the connection
\* has just been aborted.
ResendPubrel ==
    /\ pc = "pubrel"
    /\ Room
    /\ LET i == outbox_dequeue(outbox, "ACKNOWLEDGED")
       IN  i # 0 /\ WrittenOrAborted(Packet("PUBREL", outbox[i].id, None))
    /\ pc' = "keepalive"
    /\ UNCHANGED <<run, outbox, asked, brokerVars, ghostVars>>

PubrelNotDue ==
    /\ pc = "pubrel"
    /\ pc' = "keepalive"
    /\ UNCHANGED <<state, run, outbox, wait_for_ping_resp, mqtt_connected, asked,
                   linkVars, brokerVars, ghostVars>>

\* process_keepalive, when nothing is due.
StaysAlive ==
    /\ pc = "keepalive"
    /\ pc' = IF state = "CONNECTED" THEN "poll" ELSE "loop"
    /\ UNCHANGED <<state, run, outbox, wait_for_ping_resp, mqtt_connected, asked,
                   linkVars, brokerVars, ghostVars>>

\* Mutant: no answer is awaited.
PingForgotten ==
    /\ pc = "keepalive"
    /\ ~wait_for_ping_resp
    /\ Room
    /\ WrittenOrAborted(Packet("PINGREQ", 0, None))
    /\ EndOfPass
    /\ UNCHANGED <<run, outbox, asked, brokerVars, ghostVars>>

\* Half the keep-alive time is over.
Ping ==
    /\ pc = "keepalive"
    /\ ~wait_for_ping_resp
    /\ Room
    /\ \/ esp_mqtt_client_ping /\ UNCHANGED <<state, mqtt_connected, link, toClient>>
       \/ WriteFails /\ Abort
    /\ EndOfPass
    /\ UNCHANGED <<run, outbox, asked, brokerVars, ghostVars>>

\* The keep-alive time is over. An answer that is late on a good link is a failure.
PingOverdue ==
    /\ pc = "keepalive"
    /\ wait_for_ping_resp
    /\ IF link = "up" THEN Spend("failure") ELSE UNCHANGED budget
    /\ Abort
    /\ EndOfPass
    /\ UNCHANGED <<run, outbox, asked, brokerVars, published, discarded>>

\* The poll of the socket fails, maybe because another task closed it after this one
\* had seen the state CONNECTED.
PollFails ==
    /\ pc = "poll"
    /\ link \in {"broken", "none"}
    /\ Abort
    /\ pc' = "loop"
    /\ UNCHANGED <<run, outbox, asked, brokerVars, ghostVars>>
-----------------------------------------------------------------------------
(* What other tasks call, and the event handlers at their end. *)

MayCall == Unlocked \/ pc = "data" \/ (pc = "event" /\ Topic \subseteq asked)

\* The outbox after a message of QoS 1 or 2 was enqueued and could not be written.
Unwritten(m, id) == mqtt_enqueue(id, "PUBLISH", QosOf[m], m)

\* esp_mqtt_client_publish. A message of QoS 0 is written now or never; any other
\* is first enqueued, and stays when writing fails, although the caller is told -1.
Publish(m, id) ==
    /\ MayCall
    /\ m \notin published /\ Cardinality(published) < MaxPublished
    /\ published' = published \cup {m}
    /\ LET kept == IF QosOf[m] = 0 THEN outbox ELSE Unwritten(m, id)
       IN  \/ /\ state # "CONNECTED"
              /\ outbox' = kept
              /\ UNCHANGED <<state, wait_for_ping_resp, mqtt_connected, linkVars>>
           \/ /\ state = "CONNECTED"
              /\ Written(make_publish(m, id))
              /\ outbox' = IF QosOf[m] = 0 THEN outbox
                           ELSE outbox_set_pending(kept, id, "TRANSMITTED")
              /\ UNCHANGED <<state, wait_for_ping_resp, mqtt_connected, link, toClient>>
           \/ /\ state = "CONNECTED"
              /\ WriteFails
              /\ Abort
              /\ outbox' = kept
    /\ UNCHANGED <<run, pc, asked, brokerVars, discarded, budget>>

\* esp_mqtt_client_enqueue, with "store": the task will transmit it.
Enqueue(m, id) ==
    /\ MayCall
    /\ m \notin published /\ Cardinality(published) < MaxPublished
    /\ published' = published \cup {m}
    /\ outbox' = mqtt_enqueue(id, "PUBLISH", QosOf[m], m)
    /\ UNCHANGED <<taskVars, linkVars, brokerVars, discarded, budget>>

\* esp_mqtt_client_stop up to its wait for the task: DISCONNECT to the broker, and
\* no event for the application.
Stop ==
    /\ Unlocked
    /\ run
    /\ Spend("other")
    /\ run' = FALSE
    /\ state' = "DISCONNECTED"
    /\ UNCHANGED <<pc, outbox, wait_for_ping_resp, mqtt_connected, asked, linkVars,
                   brokerVars, published, discarded>>
-----------------------------------------------------------------------------
(* The network and the broker. *)

\* The connection is reset, or goes silent; what is under way is lost.
LoseLink(to) ==
    /\ link = "up"
    /\ Spend("failure")
    /\ link' = to
    /\ toBroker' = <<>>
    /\ toClient' = <<>>
    /\ UNCHANGED <<taskVars, outbox, brokerVars, published, discarded>>

Qos(p) == IF p.type = "PUBLISH" THEN QosOf[p.body] ELSE 0

Reply(p) ==
    CASE p.type = "PUBLISH" -> <<"none", "PUBACK", "PUBREC">>[Qos(p) + 1]
      [] p.type = "PUBREL" -> "PUBCOMP"
      [] p.type = "SUBSCRIBE" -> "SUBACK"
      [] p.type = "PINGREQ" -> "PINGRESP"

\* The messages a packet makes the broker pass on: a message of QoS 2 once in a
\* session, when its identifier is first seen or when it is released.
PassedOn(p) ==
    LET held == {e \in session : e.id = p.id}
    IN  CASE p.type = "PUBLISH" /\ Qos(p) < 2 -> {p.body}
          [] p.type = "PUBLISH" /\ Qos(p) = 2 ->
                IF Onward = "PUBLISH" /\ held = {} THEN {p.body} ELSE {}
          [] p.type = "PUBREL" ->
                IF Onward = "PUBREL" THEN {e.body : e \in held} ELSE {}
          [] OTHER -> {}

BrokerReceives ==
    /\ link = "up"
    /\ toBroker # <<>>
    /\ LET p == Head(toBroker)
           held == {e \in session : e.id = p.id}
       IN  /\ delivered' = delivered \cup PassedOn(p)
           /\ count' = [m \in Msg |-> IF m \in PassedOn(p) /\ count[m] < 2
                                     THEN count[m] + 1 ELSE count[m]]
           /\ session' = IF Qos(p) = 2 /\ held = {}
                         THEN session \cup {[id |-> p.id, body |-> p.body]}
                         ELSE IF p.type = "PUBREL" THEN session \ held ELSE session
           /\ subscribed' = IF p.type = "SUBSCRIBE" THEN subscribed \cup {p.body}
                            ELSE subscribed
           /\ toClient' = IF Reply(p) = "none" THEN toClient
                          ELSE Append(toClient, Packet(Reply(p), p.id, None))
    /\ toBroker' = Tail(toBroker)
    /\ UNCHANGED <<taskVars, outbox, link, lost, ghostVars>>

\* A command is published to a topic the client has subscribed to.
BrokerPublishes ==
    /\ link = "up"
    /\ Room
    /\ \E t \in subscribed : toClient' = Append(toClient, Packet("PUBLISH", 0, t))
    /\ Spend("other")
    /\ UNCHANGED <<taskVars, outbox, link, toBroker, brokerVars, published, discarded>>
-----------------------------------------------------------------------------
Connect == ConnectSucceeds \/ ConnectFails \/ Reconnect

HandlerStep ==
    \/ \E t \in Topic : \E id \in NewIds : Subscribe(t, id)
    \/ Handled \/ DataHandled

ReceiveStep == ReceiveNothing \/ ReceiveFails \/ Receive

ResendStep ==
    \/ ResendQueued
    \/ ResendTransmitted \/ TransmittedNotDue
    \/ ResendPubrel \/ PubrelNotDue

KeepaliveStep == StaysAlive \/ Ping \/ PingOverdue

TaskStep ==
    \/ Lock \/ Exit \/ Connect \/ HandlerStep \/ ReceiveStep \/ ResendStep
    \/ KeepaliveStep \/ PollFails

Call ==
    \/ Start \/ Stop \/ Recreate
    \/ \E m \in Msg : \E id \in NewIds : Publish(m, id) \/ Enqueue(m, id)

Network == BrokerReceives \/ BrokerPublishes \/ \E to \in {"broken", "dead"} : LoseLink(to)

Next == TaskStep \/ Call \/ Network

Spec == Init /\ [][Next]_vars

\* The task and the broker keep going, a server that can be reached is reached, and
\* a timer that is started again and again runs out some time.
Fairness ==
    /\ WF_vars(TaskStep)
    /\ SF_vars(ResendTransmitted)
    /\ SF_vars(ResendPubrel)
    /\ SF_vars(Ping)
    /\ SF_vars(link # "up" /\ PingOverdue)
    /\ WF_vars(BrokerReceives)

FairSpec == Spec /\ Fairness
-----------------------------------------------------------------------------
(* What must hold. *)

\* Types of the variables.
TypeOK ==
    /\ state \in {"INIT", "DISCONNECTED", "CONNECTED", "WAIT_RECONNECT"}
    /\ run \in BOOLEAN
    /\ pc \in {"none", "loop", "state", "event", "data", "resend", "pubrel", "keepalive",
              "poll"}
    /\ outbox \in Seq(Items(MsgId, Body))
    /\ wait_for_ping_resp \in BOOLEAN
    /\ mqtt_connected \in BOOLEAN
    /\ asked \subseteq Topic
    /\ link \in {"none", "up", "dead", "broken"}
    /\ session \subseteq [id : MsgId, body : Msg]
    /\ subscribed \subseteq Topic
    /\ delivered \cup lost \cup published \cup discarded \subseteq Msg

\* Within one session the broker delivers a message at most once, unless it is of QoS
\* 1, although PUBLISH and PUBREL are sent again on the same connection.
AtMostOnce == \A m \in Msg : QosOf[m] # 1 => count[m] <= 1

\* The flag that is_mqtt_connected returns is never left set when the connection is
\* gone, by whichever task it was aborted; only esp_mqtt_client_stop sends no event.
FlagSound == mqtt_connected => state = "CONNECTED" \/ ~run

\* A message of QoS 1 or 2 is kept until the broker has passed it on, or has lost it with
\* the session it held it in (the outbox, the identifiers and the reconnection together).
Reliable == {m \in Msg : QosOf[m] > 0}
D == INSTANCE MqttDelivery WITH
        Msg <- Reliable, pending <- Bodies(outbox) \cap Reliable, held <- Held,
        delivered <- delivered \cap Reliable, lost <- lost,
        discarded <- discarded \cap Reliable
KeptUntilDelivered == D!Spec

\* What is in the outbox of a running client leaves it, acknowledged or expired,
\* although only the first item of each kind is sent again.
OutboxDrains ==
    \A b \in Body : b \in Bodies(outbox) /\ run ~> b \notin Bodies(outbox) \/ ~run

\* A connection that has gone silent is noticed, although writing to it succeeds.
DeadLinkNoticed == link = "dead" /\ run ~> link # "dead" \/ ~run

\* Once connected, the client gets the broker to know every topic, unless the
\* connection is lost; its SUBSCRIBE may have gone out on an earlier connection.
Resubscribes ==
    link = "up" /\ run ~> subscribed = Topic \/ link # "up" \/ ~run
=============================================================================
