---------------------------- MODULE CommandLoop ----------------------------
(***************************************************************************)
(* The closed loop of an LED command: the dashboard, the broker and the    *)
(* bridge together.  The broker hands a command to the bridge when it has  *)
(* it from the dashboard, and an answer to the dashboard, once and in      *)
(* order, or to nobody when the dashboard is not there (clean sessions).   *)
(* This dashboard is the only one that sends commands.                     *)
(***************************************************************************)
EXTENDS DashboardLink

CONSTANTS Budget,    \* faults of the bridge's side
          MaxDelay   \* see MqttBridge

VARIABLES pc, running, delay, conn, link, session, subscribed, retained, queue, sent,
          handler, slot, taken, led, answers, left,   \* see MqttBridge
          read       \* answers the broker has passed on

B == INSTANCE MqttBridge

ASSUME LoopAssumption ==
    /\ Values \subseteq B!LedStates
    /\ Budget \in [B!Faults -> Nat]
    /\ MaxDelay \in Nat \ {0}

bridgeVars == <<pc, running, delay, conn, link, session, subscribed, retained, queue,
                sent, handler, slot, taken, led, answers, left>>
loopVars == <<dashVars, bridgeVars, read>>

LoopInit == Init /\ B!Init /\ read = 0

DashboardStep ==
    /\ Gui \/ User \/ Connecting \/ Publish \/ PublishFails \/ DisconnectBroker
       \/ Break \/ ConnectionLost
    /\ UNCHANGED <<bridgeVars, read>>

BridgeStep ==
    /\ B!MainLoop \/ B!MessageArrived \/ B!Deliver \/ B!Notice \/ B!BrokerNotices
       \/ B!Environment
    /\ UNCHANGED <<dashVars, read>>

\* The broker takes a command from the dashboard and has it for the bridge,
\* whatever command that is.
Uplink ==
    /\ Published \/ PublishedLate
    /\ B!Take(worker.cmd)
    /\ UNCHANGED read

\* Mutant: the broker keeps the subscription of a dashboard that has gone.
MutantPassOn ==
    /\ read < Len(answers) /\ read' = read + 1
    /\ LET r == answers[read + 1]
       IN  IF Len(events) < MaxEvents
           THEN /\ Emit([is |-> "answer", cmd |-> [id |-> r.id, value |-> r.value],
                         ok |-> r.ok])
                /\ UNCHANGED <<gui, jobs, worker, flag, client, accepted, used>>
           ELSE UNCHANGED dashVars
    /\ UNCHANGED bridgeVars

\* The broker passes an answer on.
Downlink ==
    /\ read < Len(answers) /\ read' = read + 1
    /\ LET r == answers[read + 1]
       IN  IF client = "open" THEN Receive([id |-> r.id, value |-> r.value], r.ok)
                              ELSE UNCHANGED dashVars
    /\ UNCHANGED bridgeVars

LoopNext == DashboardStep \/ BridgeStep \/ Uplink \/ Downlink

LoopSpec == LoopInit /\ [][LoopNext]_loopVars

-----------------------------------------------------------------------------
(* Properties *)

\* In the composition the dashboard meets only the environment its own module
\* assumes: every answer is one to a command the broker has taken.
DashboardImplemented == Spec

\* Commands reach the broker in the order of the clicks and each of them once,
\* though the window goes on to the next while an earlier one still waits for
\* the worker, or was given up for a late acknowledgement, a timeout or a
\* lost connection (mqtttransport.cpp: one queue, no second try).
CommandsInOrder == [][Uplink => worker.cmd.id > sent]_loopVars

\* When the window shows a success that is the answer to the newest command,
\* the LED does what this command says, redelivery and failed writes of the
\* LED files included (docs/MQTT_BRIDGE.md, "LED state assignment is
\* idempotent").
SuccessMeansLed ==
    shown.what = "success" /\ shown.cause = shown.asked /\ shown.asked.id = clicks
        => led = shown.asked.value
=============================================================================
