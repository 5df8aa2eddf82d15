----------------------------- MODULE MqttBridge -----------------------------
(***************************************************************************)
(* The MQTT bridge of the i.MX6ULL: the main loop, the thread of the MQTT  *)
(* library that runs message_arrived, and the broker as far as the bridge  *)
(* uses it: the session with its last will, the retained status and the    *)
(* commands waiting for the bridge.                                        *)
(*                                                                         *)
(* A command has an id here that the code does not have; the code knows    *)
(* the value alone.  Telemetry is QoS 0 and leaves no state behind, so its *)
(* publication is part of the step Rest.                                   *)
(***************************************************************************)
EXTENDS Naturals, Sequences

CONSTANTS Values,        \* payloads of cmd/led: LED states and "invalid"
          MaxCommands,   \* bound on the commands sent
          MaxDelay,      \* RECONNECT_MAX_SECONDS, 30; the delay begins with 1 s
          Budget,        \* how many faults of each kind may happen
          None

Faults == {"refuse", "break", "slow", "led", "again", "kill"}
LedStates == {"off", "on", "heartbeat"}

ASSUME BridgeAssumption ==
    /\ Values \subseteq LedStates \cup {"invalid"}
    /\ MaxCommands \in Nat /\ MaxDelay \in Nat \ {0}
    /\ Budget \in [Faults -> Nat]

VARIABLES
    pc,          \* where the main loop is
    running,     \* g_running
    delay,       \* reconnect_delay
    conn,        \* what MQTTClient_isConnected returns
    link,        \* the TCP connection of the session works
    session,     \* the broker holds a session of the bridge, its will armed
    subscribed,  \* the session has the subscription to cmd/led
    retained,    \* the retained message of the status topic
    queue,       \* commands the broker has for the bridge
    sent,        \* id of the latest command
    handler,     \* message_arrived: the command and where it is
    slot,        \* context.response and response_pending
    taken,       \* the main loop's copy of it
    led,         \* what the LED does
    answers,     \* responses the broker has been given
    left         \* faults that may still happen

main == <<pc, running, delay, conn>>
broker == <<link, session, subscribed, retained>>
callback == <<queue, handler, slot, led>>
vars == <<pc, running, delay, conn, link, session, subscribed, retained, queue,
          sent, handler, slot, taken, led, answers, left>>

Commands == [id : 1..MaxCommands, value : Values]
Responses == [id : 1..MaxCommands, value : Values, ok : BOOLEAN]
Idle == [at |-> "idle", cmd |-> None, ok |-> FALSE]

TypeOK ==
    /\ pc \in {"loop", "connect", "subscribe", "announce", "backoff", "respond",
               "publish", "rest", "goodbye", "leave", "stopped"}
    /\ running \in BOOLEAN /\ delay \in 1..MaxDelay
    /\ conn \in BOOLEAN /\ link \in BOOLEAN
    /\ session \in BOOLEAN /\ subscribed \in BOOLEAN
    /\ retained \in {"none", "online", "unexpected", "clean"}
    /\ queue \in Seq(Commands) /\ sent \in 0..MaxCommands
    /\ handler \in [at : {"idle"}, cmd : {None}, ok : {FALSE}]
              \cup [at : {"parse", "brightness", "report"}, cmd : Commands, ok : BOOLEAN]
    /\ slot \in Responses \cup {None} /\ taken \in Responses \cup {None}
    /\ led \in LedStates
    /\ answers \in Seq(Responses)
    /\ left \in [Faults -> Nat]

Init ==
    /\ pc = "loop" /\ running = TRUE /\ delay = 1 /\ conn = FALSE
    /\ link = FALSE /\ session = FALSE /\ subscribed = FALSE /\ retained = "none"
    /\ queue = <<>> /\ sent = 0 /\ handler = Idle /\ slot = None /\ taken = None
    /\ led \in LedStates
    /\ answers = <<>> /\ left = Budget

Spend(f) == left[f] > 0 /\ left' = [left EXCEPT ![f] = @ - 1]

-----------------------------------------------------------------------------
(* The MQTT library and the broker *)

\* MQTTClient_disconnect: a DISCONNECT that arrives discards the will.
CleanDisconnect ==
    /\ conn' = FALSE /\ link' = FALSE
    /\ IF link THEN session' = FALSE /\ subscribed' = FALSE /\ queue' = <<>>
               ELSE UNCHANGED <<session, subscribed, queue>>

\* publish_message at QoS 1: did the broker get it, did the caller learn so?
Publication(got, acked) ==
    \/ link /\ got /\ acked /\ UNCHANGED <<link, left>>
    \/ link /\ got /\ ~acked /\ Spend("slow") /\ UNCHANGED link
    \/ link /\ got /\ ~acked /\ Spend("break") /\ link' = FALSE
    \/ ~link /\ ~got /\ ~acked /\ UNCHANGED <<link, left>>

Break ==
    /\ link /\ Spend("break") /\ link' = FALSE
    /\ UNCHANGED <<main, session, subscribed, retained, callback, sent, taken, answers>>

\* The library sees the broken connection; connection_lost only logs.
Notice ==
    /\ conn /\ ~link /\ conn' = FALSE
    /\ UNCHANGED <<pc, running, delay, broker, callback, sent, taken, answers, left>>

\* The keep-alive ends at the broker, which publishes the will.
BrokerNotices ==
    /\ session /\ ~link
    /\ session' = FALSE /\ subscribed' = FALSE /\ queue' = <<>>
    /\ retained' = "unexpected"
    /\ UNCHANGED <<main, link, sent, handler, slot, taken, led, answers, left>>

\* The broker takes a command; without a subscription it is dropped.
Take(c) ==
    /\ sent' = c.id
    /\ queue' = IF subscribed THEN Append(queue, c) ELSE queue
    /\ UNCHANGED <<main, broker, handler, slot, taken, led, answers, left>>

\* Of an arbitrary sender: each command is newer than the ones before.
Arrive(c) == c.id > sent /\ Take(c)

Send == \E c \in Commands : Arrive(c)

-----------------------------------------------------------------------------
(* message_arrived, in the library's thread *)

\* QoS 1 may deliver a command once more.
Deliver ==
    /\ link /\ queue # <<>> /\ handler = Idle
    /\ handler' = [at |-> "parse", cmd |-> Head(queue), ok |-> FALSE]
    /\ \/ queue' = Tail(queue) /\ UNCHANGED left
       \/ Spend("again") /\ UNCHANGED queue
    /\ UNCHANGED <<main, broker, sent, slot, taken, led, answers>>

Refuse ==
    /\ handler.at = "parse" /\ handler.cmd.value = "invalid"
    /\ handler' = [handler EXCEPT !.at = "report"]
    /\ UNCHANGED <<main, broker, queue, sent, slot, taken, led, answers, left>>

\* Mutant: one write for every state.
MutantWriteTrigger ==
    /\ handler.at = "parse" /\ handler.cmd.value # "invalid"
    /\ led' = IF handler.cmd.value = "heartbeat" THEN "heartbeat"
              ELSE IF led = "heartbeat" THEN "off" ELSE led
    /\ handler' = [handler EXCEPT !.at = "report", !.ok = TRUE]
    /\ UNCHANGED <<main, broker, queue, sent, slot, taken, answers, left>>

\* apply_led_command, the trigger file; writing "none" ends a heartbeat.
WriteTrigger ==
    /\ handler.at = "parse" /\ handler.cmd.value # "invalid"
    /\ IF handler.cmd.value = "heartbeat"
       THEN /\ led' = "heartbeat"
            /\ handler' = [handler EXCEPT !.at = "report", !.ok = TRUE]
       ELSE /\ led' = IF led = "heartbeat" THEN "off" ELSE led
            /\ handler' = [handler EXCEPT !.at = "brightness"]
    /\ UNCHANGED <<main, broker, queue, sent, slot, taken, answers, left>>

\* ... and the brightness file.
WriteBrightness ==
    /\ handler.at = "brightness"
    /\ led' = handler.cmd.value
    /\ handler' = [handler EXCEPT !.at = "report", !.ok = TRUE]
    /\ UNCHANGED <<main, broker, queue, sent, slot, taken, answers, left>>

\* Either write fails: the answer is sysfs_write_failed.
WriteFails ==
    /\ \/ handler.at = "parse" /\ handler.cmd.value # "invalid"
       \/ handler.at = "brightness"
    /\ Spend("led")
    /\ handler' = [handler EXCEPT !.at = "report"]
    /\ UNCHANGED <<main, broker, queue, sent, slot, taken, led, answers>>

\* Mutant: a full slot is kept.
MutantQueueResponse ==
    /\ handler.at = "report"
    /\ slot' = IF slot # None THEN slot
               ELSE [id |-> handler.cmd.id, value |-> handler.cmd.value, ok |-> handler.ok]
    /\ handler' = Idle
    /\ UNCHANGED <<main, broker, queue, sent, taken, led, answers, left>>

\* queue_response: one slot, what was in it is overwritten.
QueueResponse ==
    /\ handler.at = "report"
    /\ slot' = [id |-> handler.cmd.id, value |-> handler.cmd.value, ok |-> handler.ok]
    /\ handler' = Idle
    /\ UNCHANGED <<main, broker, queue, sent, taken, led, answers, left>>

-----------------------------------------------------------------------------
(* The main loop *)

Loop ==
    /\ pc = "loop"
    /\ pc' = IF running THEN IF conn THEN "respond" ELSE "connect"
             ELSE IF conn THEN "goodbye" ELSE "stopped"
    /\ UNCHANGED <<running, delay, conn, broker, callback, sent, taken, answers, left>>

\* A session the broker still has is taken over: its will is published.
Connect ==
    /\ pc = "connect"
    /\ pc' = "subscribe" /\ conn' = TRUE
    /\ link' = TRUE /\ session' = TRUE /\ subscribed' = FALSE /\ queue' = <<>>
    /\ retained' = IF session THEN "unexpected" ELSE retained
    /\ UNCHANGED <<running, delay, sent, handler, slot, taken, led, answers, left>>

ConnectFails ==
    /\ pc = "connect" /\ Spend("refuse") /\ pc' = "backoff"
    /\ UNCHANGED <<running, delay, conn, broker, callback, sent, taken, answers>>

Subscribe ==
    /\ pc = "subscribe" /\ link
    /\ pc' = "announce" /\ subscribed' = TRUE
    /\ UNCHANGED <<running, delay, conn, link, session, retained, callback, sent,
                   taken, answers, left>>

\* Mutant: the client of a failed attempt is kept.
MutantSubscribeFails ==
    /\ pc = "subscribe" /\ pc' = "backoff"
    /\ IF link THEN Spend("refuse") ELSE UNCHANGED left
    /\ UNCHANGED <<running, delay, conn, broker, callback, sent, taken, answers>>

SubscribeFails ==
    /\ pc = "subscribe"
    /\ IF link THEN Spend("refuse") ELSE UNCHANGED left
    /\ pc' = "backoff" /\ CleanDisconnect
    /\ UNCHANGED <<running, delay, retained, sent, handler, slot, taken, led, answers>>

\* Mutant: the online status is sent once only.
MutantAnnounce ==
    /\ pc = "announce" /\ link /\ pc' = "respond" /\ delay' = 1
    /\ retained' = IF retained = "none" THEN "online" ELSE retained
    /\ UNCHANGED <<running, conn, link, session, subscribed, callback, sent, taken,
                   answers, left>>

\* The retained online status; without an acknowledgement the bridge leaves.
Announce ==
    /\ pc = "announce"
    /\ \/ /\ link /\ pc' = "respond" /\ delay' = 1 /\ retained' = "online"
          /\ UNCHANGED <<conn, link, session, subscribed, queue, left>>
       \/ /\ link /\ Spend("slow") /\ pc' = "backoff" /\ retained' = "online"
          /\ CleanDisconnect /\ UNCHANGED delay
       \/ /\ link /\ Spend("break") /\ pc' = "backoff" /\ retained' = "online"
          /\ conn' = FALSE /\ link' = FALSE
          /\ UNCHANGED <<delay, session, subscribed, queue>>
       \/ /\ ~link /\ pc' = "backoff" /\ CleanDisconnect
          /\ UNCHANGED <<delay, retained, left>>
    /\ UNCHANGED <<running, sent, handler, slot, taken, led, answers>>

\* sleep_ms ends early when the process is told to stop.
BackOff ==
    /\ pc = "backoff" /\ pc' = "loop"
    /\ delay' = IF delay * 2 > MaxDelay THEN MaxDelay ELSE delay * 2
    /\ UNCHANGED <<running, conn, broker, callback, sent, taken, answers, left>>

\* take_response
TakeResponse ==
    /\ pc = "respond"
    /\ IF slot = None
       THEN pc' = "rest" /\ UNCHANGED <<slot, taken>>
       ELSE pc' = "publish" /\ taken' = slot /\ slot' = None
    /\ UNCHANGED <<running, delay, conn, broker, queue, sent, handler, led, answers, left>>

\* Mutant: an unacknowledged response is tried again.
MutantPublishResponse ==
    /\ pc = "publish" /\ pc' = "rest"
    /\ \E got, acked \in BOOLEAN :
          /\ Publication(got, acked)
          /\ answers' = IF got THEN Append(answers, taken) ELSE answers
          /\ slot' = IF acked THEN slot ELSE taken
    /\ taken' = None
    /\ UNCHANGED <<running, delay, conn, session, subscribed, retained, queue, sent,
                   handler, led>>

\* A publication that fails is logged: the response is gone.
PublishResponse ==
    /\ pc = "publish" /\ pc' = "rest"
    /\ \E got, acked \in BOOLEAN :
          /\ Publication(got, acked)
          /\ answers' = IF got THEN Append(answers, taken) ELSE answers
    /\ taken' = None
    /\ UNCHANGED <<running, delay, conn, session, subscribed, retained, callback, sent>>

\* Telemetry when it is due, and the pause of 200 ms.
Rest ==
    /\ pc = "rest" /\ pc' = "loop"
    /\ UNCHANGED <<running, delay, conn, broker, callback, sent, taken, answers, left>>

\* Mutant: no offline status at the end.
MutantGoodbye ==
    /\ pc = "goodbye" /\ pc' = "leave"
    /\ UNCHANGED <<running, delay, conn, broker, callback, sent, taken, answers, left>>

Goodbye ==
    /\ pc = "goodbye" /\ pc' = "leave"
    /\ \E got, acked \in BOOLEAN :
          /\ Publication(got, acked)
          /\ retained' = IF got THEN "clean" ELSE retained
    /\ UNCHANGED <<running, delay, conn, session, subscribed, callback, sent, taken, answers>>

Leave ==
    /\ pc = "leave" /\ pc' = "stopped" /\ CleanDisconnect
    /\ UNCHANGED <<running, delay, retained, sent, handler, slot, taken, led, answers, left>>

-----------------------------------------------------------------------------

\* SIGTERM or SIGINT
Stop ==
    /\ running /\ running' = FALSE
    /\ UNCHANGED <<pc, delay, conn, broker, callback, sent, taken, answers, left>>

\* The process dies and its supervisor starts a new one.
Kill ==
    /\ running /\ Spend("kill")
    /\ pc' = "loop" /\ delay' = 1 /\ conn' = FALSE /\ link' = FALSE
    /\ queue' = <<>> /\ handler' = Idle /\ slot' = None /\ taken' = None
    /\ UNCHANGED <<running, session, subscribed, retained, sent, led, answers>>

MainLoop ==
    \/ Loop \/ Connect \/ ConnectFails \/ Subscribe \/ SubscribeFails \/ Announce
    \/ BackOff \/ TakeResponse \/ PublishResponse \/ Rest \/ Goodbye \/ Leave
MessageArrived ==
    Refuse \/ WriteTrigger \/ WriteBrightness \/ WriteFails \/ QueueResponse
Environment == Break \/ Stop \/ Kill

Next == MainLoop \/ MessageArrived \/ Deliver \/ Notice \/ BrokerNotices
        \/ Environment \/ Send

Spec == Init /\ [][Next]_vars

(* Every thread gets on; nothing has to fail and nobody has to send or stop. *)
Fairness ==
    /\ WF_vars(MainLoop) /\ WF_vars(MessageArrived) /\ WF_vars(Deliver)
    /\ WF_vars(Notice) /\ WF_vars(BrokerNotices)
FairSpec == Spec /\ Fairness

-----------------------------------------------------------------------------
(* Properties *)

Serving == link /\ session /\ subscribed /\ retained = "online"

\* A bridge past its connection phase on a live connection has its commands
\* subscribed and is shown online: no will of an earlier session comes after
\* its own status (connect_bridge; take-over by the same client id).
OnlineWhileServing ==
    conn /\ link /\ pc \notin {"subscribe", "announce", "leave"} => Serving

\* A success that waits in the slot is what the LED does, unless a newer
\* command is being applied (message_arrived applies before it answers).
ReportedIsSet == handler = Idle /\ slot # None /\ slot.ok => led = slot.value

\* A success the broker has been given stays true as long as its command is
\* the latest one: a redelivered command finds the LED as it would set it, and
\* no older command comes after a newer one (docs/MQTT_BRIDGE.md, "LED state
\* assignment is idempotent").
AnswerStaysTrue ==
    \A i \in 1..Len(answers) :
        answers[i].ok /\ answers[i].id = sent => led = answers[i].value

\* Without redelivery no command is answered twice, and the answers leave in
\* the order of the commands (take_response empties the slot first).
AnsweredOnce ==
    left["again"] = Budget["again"] =>
        \A i, j \in 1..Len(answers) : i < j => answers[i].id < answers[j].id

\* A stopped bridge is shown offline, by its own message or by its will, unless
\* an acknowledgement came too late: the bridge that gives its online status up
\* for that reason leaves in order, which discards the will (main's shutdown).
ShutdownShown ==
    (pc = "stopped" /\ left["slow"] = Budget["slow"]) ~> (retained # "online")

\* A running bridge gets back to serving after any finite number of faults
\* (the reconnect part of the main loop).
BridgeRecovers == running ~> (Serving \/ ~running)

Answered(i) == \E n \in 1..Len(answers) : answers[n].id = i
Handling(i) == handler # Idle /\ handler.cmd.id = i
Quiet == running /\ \A f \in {"break", "slow", "kill"} : left[f] = Budget[f]

\* Without a broken connection or a crash the latest command is answered,
\* whatever the single slot has lost before.
LastAnswered ==
    \A i \in 1..MaxCommands :
        Handling(i) ~> Answered(i) \/ ~Quiet \/ \E j \in 1..MaxCommands : j # i /\ Handling(j)
=============================================================================
