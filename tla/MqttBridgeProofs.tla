-------------------------- MODULE MqttBridgeProofs --------------------------
(***************************************************************************)
(* Proofs about MqttBridge: its types, the retained status while the       *)
(* bridge serves, and the meaning of the answer in the slot, for every     *)
(* number of commands and every budget of faults.                          *)
(***************************************************************************)
EXTENDS MqttBridge, SequenceTheorems, TLAPS

\* The actions of Next in one place, for the case splits below.
LEMMA NextCases ==
    ASSUME Next
    PROVE  \/ Loop \/ Connect \/ ConnectFails \/ Subscribe \/ SubscribeFails \/ Announce
           \/ BackOff \/ TakeResponse \/ PublishResponse \/ Rest \/ Goodbye \/ Leave
           \/ Refuse \/ WriteTrigger \/ WriteBrightness \/ WriteFails \/ QueueResponse
           \/ Break \/ Stop \/ Kill \/ Deliver \/ Notice \/ BrokerNotices
           \/ \E c \in Commands : Arrive(c)
BY DEF Next, MainLoop, MessageArrived, Environment, Send

-----------------------------------------------------------------------------
(* The connection and the retained status *)

\* A working connection belongs to a session of the broker and is known to the
\* client; the bridge is without one in the states around a connection attempt.
Wire ==
    /\ link => conn /\ session
    /\ pc \in {"connect", "backoff", "stopped"} => ~conn
    /\ link /\ pc # "subscribe" => subscribed
    /\ link /\ pc \notin {"subscribe", "announce", "leave"} => retained = "online"

LEMMA WireInit == ASSUME Init PROVE Wire
BY DEF Init, Wire

\* Every step keeps Wire: the status is published before the bridge serves, and
\* whatever ends the service also ends the connection.
LEMMA WireNext == ASSUME Wire, [Next]_vars PROVE Wire'
<1>1. CASE UNCHANGED vars
  BY <1>1 DEF Wire, vars
<1>2. CASE Loop BY <1>2 DEF Wire, Loop, broker
<1>3. CASE Connect BY <1>3 DEF Wire, Connect
<1>4. CASE ConnectFails BY <1>4 DEF Wire, ConnectFails, broker
<1>5. CASE Subscribe BY <1>5 DEF Wire, Subscribe
<1>6. CASE SubscribeFails BY <1>6 DEF Wire, SubscribeFails, CleanDisconnect
<1>7. CASE Announce BY <1>7 DEF Wire, Announce, CleanDisconnect
<1>8. CASE BackOff BY <1>8 DEF Wire, BackOff, broker
<1>9. CASE TakeResponse BY <1>9 DEF Wire, TakeResponse, broker
<1>10. CASE PublishResponse BY <1>10 DEF Wire, PublishResponse, Publication
<1>11. CASE Rest BY <1>11 DEF Wire, Rest, broker
<1>12. CASE Goodbye BY <1>12 DEF Wire, Goodbye, Publication
<1>13. CASE Leave BY <1>13 DEF Wire, Leave, CleanDisconnect
<1>14. CASE Refuse BY <1>14 DEF Wire, Refuse, main, broker
<1>15. CASE WriteTrigger BY <1>15 DEF Wire, WriteTrigger, main, broker
<1>16. CASE WriteBrightness BY <1>16 DEF Wire, WriteBrightness, main, broker
<1>17. CASE WriteFails BY <1>17 DEF Wire, WriteFails, main, broker
<1>18. CASE QueueResponse BY <1>18 DEF Wire, QueueResponse, main, broker
<1>19. CASE Break BY <1>19 DEF Wire, Break, main
<1>20. CASE Stop BY <1>20 DEF Wire, Stop, broker
<1>21. CASE Kill BY <1>21 DEF Wire, Kill
<1>22. CASE Deliver BY <1>22 DEF Wire, Deliver, main, broker
<1>23. CASE Notice BY <1>23 DEF Wire, Notice, broker
<1>24. CASE BrokerNotices BY <1>24 DEF Wire, BrokerNotices, main
<1>25. CASE \E c \in Commands : Arrive(c) BY <1>25 DEF Wire, Arrive, Take, main, broker
<1> QED
  BY NextCases, <1>1, <1>2, <1>3, <1>4, <1>5, <1>6, <1>7, <1>8, <1>9, <1>10, <1>11,
     <1>12, <1>13, <1>14, <1>15, <1>16, <1>17, <1>18, <1>19, <1>20, <1>21, <1>22,
     <1>23, <1>24, <1>25

\* A bridge past its connection phase on a live connection is subscribed and
\* shown online, whatever breaks, is refused or is killed before.
THEOREM ServingIsOnline == Spec => []OnlineWhileServing
<1>1. Init => Wire BY WireInit
<1>2. Wire /\ [Next]_vars => Wire' BY WireNext
<1>3. Wire => OnlineWhileServing BY DEF Wire, OnlineWhileServing, Serving
<1> QED BY <1>1, <1>2, <1>3, PTL DEF Spec

-----------------------------------------------------------------------------
(* Types *)

HandlerType ==
    handler \in {Idle} \cup [at : {"parse", "brightness", "report"},
                             cmd : Commands, ok : BOOLEAN]
MainType ==
    /\ pc \in {"loop", "connect", "subscribe", "announce", "backoff", "respond",
               "publish", "rest", "goodbye", "leave", "stopped"}
    /\ running \in BOOLEAN /\ delay \in 1..MaxDelay
    /\ conn \in BOOLEAN /\ link \in BOOLEAN
    /\ session \in BOOLEAN /\ subscribed \in BOOLEAN
    /\ retained \in {"none", "online", "unexpected", "clean"}
    /\ left \in [Faults -> Nat]
DataType ==
    /\ queue \in Seq(Commands) /\ sent \in 0..MaxCommands
    /\ slot \in Responses \cup {None} /\ taken \in Responses \cup {None}
    /\ led \in LedStates /\ answers \in Seq(Responses)

\* TypeOK in three parts, each with its own proof.
LEMMA TypeParts == TypeOK <=> MainType /\ HandlerType /\ DataType
<1>1. ASSUME NEW h \in [at : {"idle"}, cmd : {None}, ok : {FALSE}] PROVE h = Idle
  BY <1>1 DEF Idle
<1>2. Idle \in [at : {"idle"}, cmd : {None}, ok : {FALSE}] BY DEF Idle
<1>3. [at : {"idle"}, cmd : {None}, ok : {FALSE}] = {Idle} BY <1>1, <1>2, Zenon
<1> QED BY <1>3 DEF TypeOK, MainType, HandlerType, DataType

LEMMA Spending ==
    ASSUME NEW f \in Faults, left \in [Faults -> Nat], Spend(f)
    PROVE  left' \in [Faults -> Nat]
BY DEF Spend

LEMMA FirstDelay == 1 \in 1..MaxDelay
BY BridgeAssumption

\* The control state and the connection keep their types.
LEMMA MainTypeNext == ASSUME MainType, Wire, [Next]_vars PROVE MainType'
<1> USE BridgeAssumption DEF MainType
<1>0. \A f \in Faults : Spend(f) => left' \in [Faults -> Nat] BY Spending
<1>f. /\ "refuse" \in Faults /\ "break" \in Faults /\ "slow" \in Faults
      /\ "led" \in Faults /\ "again" \in Faults /\ "kill" \in Faults
  BY DEF Faults
<1>1. CASE UNCHANGED vars
  BY <1>1 DEF vars
<1>2. CASE Loop BY <1>2 DEF Loop, broker
<1>3. CASE Connect BY <1>3 DEF Connect
<1>4. CASE ConnectFails BY <1>0, <1>f, <1>4 DEF ConnectFails, broker
<1>5. CASE Subscribe BY <1>5 DEF Subscribe
<1>6. CASE SubscribeFails BY <1>0, <1>f, <1>6 DEF SubscribeFails, CleanDisconnect
<1>7. CASE Announce BY <1>0, <1>f, <1>7, FirstDelay DEF Announce, CleanDisconnect
<1>8. CASE BackOff BY <1>8 DEF BackOff, broker
<1>9. CASE TakeResponse BY <1>9 DEF TakeResponse, broker
<1>10. CASE PublishResponse BY <1>0, <1>f, <1>10 DEF PublishResponse, Publication
<1>11. CASE Rest BY <1>11 DEF Rest, broker
<1>12. CASE Goodbye BY <1>0, <1>f, <1>12 DEF Goodbye, Publication
<1>13. CASE Leave BY <1>13 DEF Leave, CleanDisconnect
<1>14. CASE Refuse BY <1>14 DEF Refuse, main, broker
<1>15. CASE WriteTrigger BY <1>15 DEF WriteTrigger, main, broker
<1>16. CASE WriteBrightness BY <1>16 DEF WriteBrightness, main, broker
<1>17. CASE WriteFails BY <1>0, <1>f, <1>17 DEF WriteFails, main, broker
<1>18. CASE QueueResponse BY <1>18 DEF QueueResponse, main, broker
<1>19. CASE Break BY <1>0, <1>f, <1>19 DEF Break, main
<1>20. CASE Stop BY <1>20 DEF Stop, broker
<1>21. CASE Kill BY <1>0, <1>f, <1>21, FirstDelay DEF Kill
<1>22. CASE Deliver BY <1>0, <1>f, <1>22 DEF Deliver, main, broker
<1>23. CASE Notice BY <1>23 DEF Notice, broker
<1>24. CASE BrokerNotices BY <1>24 DEF BrokerNotices, main
<1>25. CASE \E c \in Commands : Arrive(c) BY <1>25 DEF Arrive, Take, main, broker
<1> QED
  BY NextCases, <1>1, <1>2, <1>3, <1>4, <1>5, <1>6, <1>7, <1>8, <1>9, <1>10, <1>11,
     <1>12, <1>13, <1>14, <1>15, <1>16, <1>17, <1>18, <1>19, <1>20, <1>21, <1>22,
     <1>23, <1>24, <1>25

\* What the handler holds while it is not idle, field by field.
LEMMA Handled ==
    ASSUME HandlerType, handler.at # "idle"
    PROVE  /\ handler = [at |-> handler.at, cmd |-> handler.cmd, ok |-> handler.ok]
           /\ handler.at \in {"parse", "brightness", "report"}
           /\ handler.cmd \in Commands /\ handler.ok \in BOOLEAN
<1>1. handler # Idle BY DEF Idle
<1>2. handler \in [at : {"parse", "brightness", "report"}, cmd : Commands, ok : BOOLEAN]
  BY <1>1 DEF HandlerType
<1> QED BY <1>2

LEMMA MovedHandler ==
    ASSUME NEW a \in {"parse", "brightness", "report"}, NEW c \in Commands,
           NEW b \in BOOLEAN, handler' = [at |-> a, cmd |-> c, ok |-> b]
    PROVE  HandlerType'
BY Zenon DEF HandlerType

\* What the two threads carry from one step to the next: the main loop only
\* publishes a response it has, and only an LED state reaches the LED files.
Carried ==
    /\ pc = "publish" => taken # None
    /\ handler.at = "brightness" => handler.cmd.value \in LedStates

LEMMA CarriedNext == ASSUME Carried, HandlerType, [Next]_vars PROVE Carried'
<1>1. CASE UNCHANGED vars BY <1>1 DEF vars, Carried
<1>2. CASE TakeResponse BY <1>2 DEF Carried, TakeResponse
<1>3. CASE PublishResponse BY <1>3 DEF Carried, PublishResponse, callback
<1>4. CASE Kill BY <1>4 DEF Carried, Kill, Idle
<1>5. CASE Refuse
  <2>1. handler.at # "idle" BY <1>5 DEF Refuse
  <2>2. handler'.at = "report" BY <1>5, <2>1, Handled DEF Refuse
  <2> QED BY <2>2, <1>5 DEF Carried, Refuse, main
<1>6. CASE WriteTrigger
  <2>1. handler.at # "idle" BY <1>6 DEF WriteTrigger
  <2>2. handler = [at |-> handler.at, cmd |-> handler.cmd, ok |-> handler.ok]
        /\ handler.cmd \in Commands
    BY <2>1, Handled
  <2>3. handler'.cmd.value = handler.cmd.value BY <2>2, <1>6 DEF WriteTrigger
  <2>4. handler.cmd.value \in LedStates
    BY <2>2, <1>6, BridgeAssumption DEF WriteTrigger, Commands
  <2> QED BY <2>3, <2>4, <1>6 DEF Carried, WriteTrigger, main
<1>7. CASE WriteBrightness
  <2>1. handler.at # "idle" BY <1>7 DEF WriteBrightness
  <2>2. handler'.at = "report" BY <1>7, <2>1, Handled DEF WriteBrightness
  <2> QED BY <2>2, <1>7 DEF Carried, WriteBrightness, main
<1>8. CASE WriteFails
  <2>1. handler.at # "idle" BY <1>8 DEF WriteFails
  <2>2. handler'.at = "report" BY <1>8, <2>1, Handled DEF WriteFails
  <2> QED BY <2>2, <1>8 DEF Carried, WriteFails, main
<1>9. CASE QueueResponse BY <1>9 DEF Carried, QueueResponse, Idle, main
<1>10. CASE Deliver BY <1>10 DEF Carried, Deliver, main
<1>11. CASE \/ Loop \/ Connect \/ ConnectFails \/ Subscribe \/ SubscribeFails \/ Announce
            \/ BackOff \/ Rest \/ Goodbye \/ Leave
  BY <1>11 DEF Carried, Loop, Connect, ConnectFails, Subscribe, SubscribeFails, Announce,
     BackOff, Rest, Goodbye, Leave, callback
<1>12. CASE Break \/ Stop \/ Notice \/ BrokerNotices \/ \E c \in Commands : Arrive(c)
  BY <1>12 DEF Carried, Break, Stop, Notice, BrokerNotices, Arrive, Take, main, callback
<1> QED
  BY NextCases, <1>1, <1>2, <1>3, <1>4, <1>5, <1>6, <1>7, <1>8, <1>9, <1>10, <1>11, <1>12

LEMMA HandlerTypeNext == ASSUME HandlerType, DataType, [Next]_vars PROVE HandlerType'
<1>i. ASSUME handler' = Idle PROVE HandlerType' BY <1>i DEF HandlerType
<1>u. ASSUME UNCHANGED handler PROVE HandlerType' BY <1>u DEF HandlerType
<1>m. ASSUME handler.at # "idle",
             \/ handler' = [handler EXCEPT !.at = "report"]
             \/ handler' = [handler EXCEPT !.at = "brightness"]
             \/ handler' = [handler EXCEPT !.at = "report", !.ok = TRUE]
      PROVE  HandlerType'
  <2>1. handler = [at |-> handler.at, cmd |-> handler.cmd, ok |-> handler.ok]
    BY <1>m, Handled
  <2>2. handler.cmd \in Commands /\ handler.ok \in BOOLEAN
    BY <1>m, Handled
  <2>3. CASE handler' = [handler EXCEPT !.at = "report"]
    <3>1. handler' = [at |-> "report", cmd |-> handler.cmd, ok |-> handler.ok]
      BY <2>1, <2>3
    <3> QED BY <3>1, <2>2, MovedHandler
  <2>4. CASE handler' = [handler EXCEPT !.at = "brightness"]
    <3>1. handler' = [at |-> "brightness", cmd |-> handler.cmd, ok |-> handler.ok]
      BY <2>1, <2>4
    <3> QED BY <3>1, <2>2, MovedHandler
  <2>5. CASE handler' = [handler EXCEPT !.at = "report", !.ok = TRUE]
    <3>1. handler' = [at |-> "report", cmd |-> handler.cmd, ok |-> TRUE]
      BY <2>1, <2>5
    <3> QED BY <3>1, <2>2, MovedHandler
  <2> QED BY <1>m, <2>3, <2>4, <2>5
<1>1. CASE UNCHANGED vars BY <1>1, <1>u DEF vars
<1>2. CASE Refuse BY <1>2, <1>m DEF Refuse
<1>3. CASE WriteTrigger BY <1>3, <1>m DEF WriteTrigger
<1>4. CASE WriteBrightness BY <1>4, <1>m DEF WriteBrightness
<1>5. CASE WriteFails BY <1>5, <1>m DEF WriteFails
<1>6. CASE QueueResponse BY <1>6, <1>i DEF QueueResponse
<1>7. CASE Kill BY <1>7, <1>i DEF Kill
<1>8. CASE Deliver
  <2>1. Head(queue) \in Commands BY <1>8 DEF Deliver, DataType
  <2>2. handler' = [at |-> "parse", cmd |-> Head(queue), ok |-> FALSE]
    BY <1>8 DEF Deliver
  <2> QED BY <2>1, <2>2, MovedHandler
<1>9. CASE \/ Loop \/ Connect \/ ConnectFails \/ Subscribe \/ SubscribeFails \/ Announce
           \/ BackOff \/ TakeResponse \/ PublishResponse \/ Rest \/ Goodbye \/ Leave
  BY <1>9, <1>u DEF Loop, Connect, ConnectFails, Subscribe, SubscribeFails, Announce,
     BackOff, TakeResponse, PublishResponse, Rest, Goodbye, Leave, callback
<1>10. CASE Break \/ Stop \/ Notice \/ BrokerNotices \/ \E c \in Commands : Arrive(c)
  BY <1>10, <1>u DEF Break, Stop, Notice, BrokerNotices, Arrive, Take, callback
<1> QED BY NextCases, <1>1, <1>2, <1>3, <1>4, <1>5, <1>6, <1>7, <1>8, <1>9, <1>10

LEMMA DataTypeNext == ASSUME DataType, HandlerType, Carried, [Next]_vars PROVE DataType'
<1>e. <<>> \in Seq(Commands) OBVIOUS
<1>1. CASE UNCHANGED vars BY <1>1 DEF vars, DataType
<1>2. CASE Loop BY <1>2 DEF DataType, Loop, callback
<1>3. CASE Connect BY <1>e, <1>3 DEF DataType, Connect
<1>4. CASE ConnectFails BY <1>4 DEF DataType, ConnectFails, callback
<1>5. CASE Subscribe BY <1>5 DEF DataType, Subscribe, callback
<1>6. CASE SubscribeFails BY <1>e, <1>6 DEF DataType, SubscribeFails, CleanDisconnect
<1>7. CASE Announce BY <1>e, <1>7 DEF DataType, Announce, CleanDisconnect
<1>8. CASE BackOff BY <1>8 DEF DataType, BackOff, callback
<1>9. CASE TakeResponse BY <1>9 DEF DataType, TakeResponse
<1>10. CASE PublishResponse
  <2>1. answers' = Append(answers, taken) \/ answers' = answers
    BY <1>10 DEF PublishResponse
  <2>2. taken \in Responses => answers' \in Seq(Responses) BY <2>1 DEF DataType
  <2>3. taken # None BY <1>10 DEF PublishResponse, Carried
  <2> QED BY <2>2, <2>3, <1>10 DEF DataType, PublishResponse, callback
<1>11. CASE Rest BY <1>11 DEF DataType, Rest, callback
<1>12. CASE Goodbye BY <1>12 DEF DataType, Goodbye, callback
<1>13. CASE Leave BY <1>e, <1>13 DEF DataType, Leave, CleanDisconnect
<1>14. CASE Refuse BY <1>14 DEF DataType, Refuse
<1>15. CASE WriteTrigger BY <1>15 DEF DataType, WriteTrigger, LedStates
<1>16. CASE WriteBrightness BY <1>16 DEF DataType, WriteBrightness, Carried
<1>17. CASE WriteFails BY <1>17 DEF DataType, WriteFails
<1>18. CASE QueueResponse
  <2>1. handler.at # "idle" BY <1>18 DEF QueueResponse
  <2>2. handler.cmd \in Commands /\ handler.ok \in BOOLEAN BY <2>1, Handled
  <2>3. slot' \in Responses BY <2>2, <1>18, Zenon DEF QueueResponse, Responses, Commands
  <2> QED BY <2>3, <1>18 DEF DataType, QueueResponse
<1>19. CASE Break BY <1>19 DEF DataType, Break, callback
<1>20. CASE Stop BY <1>20 DEF DataType, Stop, callback
<1>21. CASE Kill BY <1>e, <1>21 DEF DataType, Kill
<1>22. CASE Deliver
  <2>1. queue \in Seq(Commands) /\ queue # <<>> BY <1>22 DEF DataType, Deliver
  <2>2. Tail(queue) \in Seq(Commands) BY <2>1
  <2>3. queue' \in Seq(Commands) BY <2>1, <2>2, <1>22 DEF Deliver
  <2> QED BY <2>3, <1>22 DEF DataType, Deliver
<1>23. CASE Notice BY <1>23 DEF DataType, Notice, callback
<1>24. CASE BrokerNotices BY <1>e, <1>24 DEF DataType, BrokerNotices
<1>25. CASE \E c \in Commands : Arrive(c)
  <2>1. PICK c \in Commands : Arrive(c) BY <1>25
  <2>2. c.id \in 1..MaxCommands BY DEF Commands
  <2>3. sent' \in 0..MaxCommands BY <2>1, <2>2, BridgeAssumption DEF Arrive, Take
  <2>4. queue' \in Seq(Commands) BY <2>1 DEF Arrive, Take, DataType
  <2> QED BY <2>1, <2>3, <2>4 DEF DataType, Arrive, Take
<1> QED
  BY NextCases, <1>1, <1>2, <1>3, <1>4, <1>5, <1>6, <1>7, <1>8, <1>9, <1>10, <1>11,
     <1>12, <1>13, <1>14, <1>15, <1>16, <1>17, <1>18, <1>19, <1>20, <1>21, <1>22,
     <1>23, <1>24, <1>25

LEMMA TypesInit == ASSUME Init PROVE MainType /\ HandlerType /\ DataType /\ Carried
<1>1. <<>> \in Seq(Commands) /\ <<>> \in Seq(Responses) OBVIOUS
<1>2. MainType BY FirstDelay, BridgeAssumption DEF Init, MainType
<1>3. HandlerType /\ Carried BY DEF Init, HandlerType, Carried, Idle
<1>4. DataType BY <1>1, BridgeAssumption DEF Init, DataType
<1> QED BY <1>2, <1>3, <1>4

TypeInv == MainType /\ HandlerType /\ DataType /\ Carried /\ Wire

LEMMA TypeInvNext == ASSUME TypeInv, [Next]_vars PROVE TypeInv'
BY MainTypeNext, HandlerTypeNext, DataTypeNext, CarriedNext, WireNext DEF TypeInv

\* The variables keep their types; among them, the delay of the reconnection
\* stays between its limits however often the broker refuses.
THEOREM BridgeTypes == Spec => []TypeOK
<1>1. Init => TypeInv BY TypesInit, WireInit DEF TypeInv
<1>2. TypeInv /\ [Next]_vars => TypeInv' BY TypeInvNext
<1>3. TypeInv => TypeOK BY TypeParts DEF TypeInv
<1> QED BY <1>1, <1>2, <1>3, PTL DEF Spec

-----------------------------------------------------------------------------
(* What a success means *)

\* A success is recorded after the last write, and nothing is written before
\* the next command is taken.
Applied ==
    /\ handler.at \in {"parse", "brightness"} => handler.ok = FALSE
    /\ handler.at = "report" /\ handler.ok => led = handler.cmd.value
    /\ handler.at = "idle" /\ slot # None /\ slot.ok => led = slot.value

LEMMA AppliedNext == ASSUME Applied, HandlerType, [Next]_vars PROVE Applied'
<1>u. ASSUME UNCHANGED <<handler, slot, led>> PROVE Applied' BY <1>u DEF Applied
<1>1. CASE UNCHANGED vars BY <1>1, <1>u DEF vars
<1>2. CASE TakeResponse BY <1>2 DEF Applied, TakeResponse
<1>3. CASE Kill BY <1>3 DEF Applied, Kill, Idle
<1>4. CASE Deliver BY <1>4 DEF Applied, Deliver
<1>5. CASE Refuse
  <2>1. handler.at # "idle" BY <1>5 DEF Refuse
  <2>2. handler'.at = "report" /\ handler'.ok = handler.ok
    BY <1>5, <2>1, Handled DEF Refuse
  <2> QED BY <2>2, <1>5 DEF Applied, Refuse
<1>6. CASE WriteTrigger
  <2>1. handler.at # "idle" BY <1>6 DEF WriteTrigger
  <2>2. CASE handler.cmd.value = "heartbeat"
    <3>1. handler'.at = "report" /\ handler'.cmd = handler.cmd
      BY <1>6, <2>1, <2>2, Handled DEF WriteTrigger
    <3> QED BY <2>2, <3>1, <1>6 DEF Applied, WriteTrigger
  <2>3. CASE handler.cmd.value # "heartbeat"
    <3>1. handler'.at = "brightness" /\ handler'.ok = handler.ok
      BY <1>6, <2>1, <2>3, Handled DEF WriteTrigger
    <3> QED BY <3>1, <1>6 DEF Applied, WriteTrigger
  <2> QED BY <2>2, <2>3
<1>7. CASE WriteBrightness
  <2>1. handler.at # "idle" BY <1>7 DEF WriteBrightness
  <2>2. handler'.at = "report" /\ handler'.cmd = handler.cmd
    BY <1>7, <2>1, Handled DEF WriteBrightness
  <2> QED BY <2>2, <1>7 DEF Applied, WriteBrightness
<1>8. CASE WriteFails
  <2>1. handler.at # "idle" BY <1>8 DEF WriteFails
  <2>2. handler'.at = "report" /\ handler'.ok = handler.ok
    BY <1>8, <2>1, Handled DEF WriteFails
  <2> QED BY <2>2, <1>8 DEF Applied, WriteFails
<1>9. CASE QueueResponse BY <1>9 DEF Applied, QueueResponse, Idle
<1>10. CASE \/ Loop \/ Connect \/ ConnectFails \/ Subscribe \/ SubscribeFails \/ Announce
            \/ BackOff \/ PublishResponse \/ Rest \/ Goodbye \/ Leave
  BY <1>10, <1>u DEF Loop, Connect, ConnectFails, Subscribe, SubscribeFails, Announce,
     BackOff, PublishResponse, Rest, Goodbye, Leave, callback
<1>11. CASE Break \/ Stop \/ Notice \/ BrokerNotices \/ \E c \in Commands : Arrive(c)
  BY <1>11, <1>u DEF Break, Stop, Notice, BrokerNotices, Arrive, Take, main, callback
<1> QED
  BY NextCases, <1>1, <1>2, <1>3, <1>4, <1>5, <1>6, <1>7, <1>8, <1>9, <1>10, <1>11

\* A success waiting in the slot says what the LED does, whatever fails in the
\* two writes and wherever the main loop is.
THEOREM ReportIsTrue == Spec => []ReportedIsSet
<1>1. Init => TypeInv /\ Applied
  <2>1. Init => Applied BY DEF Init, Applied, Idle
  <2> QED BY <2>1, TypesInit, WireInit DEF TypeInv
<1>2. TypeInv /\ Applied /\ [Next]_vars => (TypeInv /\ Applied)'
  <2>1. TypeInv /\ Applied /\ [Next]_vars => Applied' BY AppliedNext DEF TypeInv
  <2> QED BY <2>1, TypeInvNext
<1>3. Applied => ReportedIsSet BY DEF Applied, ReportedIsSet, Idle
<1> QED BY <1>1, <1>2, <1>3, PTL DEF Spec

-----------------------------------------------------------------------------
(* The order of the answers *)

\* Everything the bridge has done, up to one of its stations, is about commands
\* before n.
AnswersBefore(n) == \A i \in 1..Len(answers) : answers[i].id < n
TakenBefore(n) == AnswersBefore(n) /\ (taken # None => taken.id < n)
SlotBefore(n) == TakenBefore(n) /\ (slot # None => slot.id < n)
HandlerBefore(n) == SlotBefore(n) /\ (handler.at # "idle" => handler.cmd.id < n)

\* Without redelivery the commands keep their order from the broker's queue to
\* the published answers, and none is in two places.
InOrder ==
    /\ \A i, j \in 1..Len(answers) : i < j => answers[i].id < answers[j].id
    /\ taken # None => AnswersBefore(taken.id)
    /\ slot # None => TakenBefore(slot.id)
    /\ handler.at # "idle" => SlotBefore(handler.cmd.id)
    /\ \A k \in 1..Len(queue) : HandlerBefore(queue[k].id) /\ queue[k].id <= sent
    /\ \A k, l \in 1..Len(queue) : k < l => queue[k].id < queue[l].id
    /\ HandlerBefore(sent + 1)
Fresh == left["again"] = Budget["again"]
Ordered == left["again"] <= Budget["again"] /\ (Fresh => InOrder)

LEMMA OtherFault ==
    ASSUME MainType, NEW f \in Faults, f # "again", Spend(f)
    PROVE  left'["again"] = left["again"]
BY DEF MainType, Spend, Faults

\* Ids are numbers, wherever they are.
LEMMA IdsAreNumbers ==
    /\ \A c \in Commands : c.id \in Int
    /\ \A r \in Responses : r.id \in Int
    /\ \A q \in Seq(Commands) : \A k \in 1..Len(q) : q[k].id \in Int
    /\ \A q \in Seq(Responses) : \A k \in 1..Len(q) : q[k].id \in Int
<1>1. \A c \in Commands : c.id \in Int BY DEF Commands
<1>2. \A r \in Responses : r.id \in Int BY DEF Responses
<1>3. \A S : \A q \in Seq(S) : \A k \in 1..Len(q) : q[k] \in S OBVIOUS
<1>4. \A q \in Seq(Commands) : \A k \in 1..Len(q) : q[k].id \in Int BY <1>1, <1>3
<1>5. \A q \in Seq(Responses) : \A k \in 1..Len(q) : q[k].id \in Int BY <1>2, <1>3
<1> QED BY <1>1, <1>2, <1>4, <1>5

\* A step that leaves the stations alone, or empties the broker's queue.
LEMMA StationsSame ==
    ASSUME Ordered, UNCHANGED <<answers, taken, slot, handler, sent>>,
           queue' = queue \/ queue' = <<>>, left'["again"] = left["again"]
    PROVE  Ordered'
<1> USE DEF InOrder, AnswersBefore, TakenBefore, SlotBefore, HandlerBefore
<1>1. CASE ~Fresh BY <1>1 DEF Ordered, Fresh
<1>2. CASE Fresh /\ queue' = queue BY <1>2 DEF Ordered, Fresh
<1>3. CASE Fresh /\ queue' = <<>> BY <1>3 DEF Ordered, Fresh
<1> QED BY <1>1, <1>2, <1>3

\* A handler that moves on keeps its command.
LEMMA HandlerMoves ==
    ASSUME Ordered, HandlerType, UNCHANGED <<answers, taken, slot, queue, sent>>,
           handler.at # "idle", handler'.at # "idle", handler'.cmd = handler.cmd,
           left'["again"] = left["again"]
    PROVE  Ordered'
<1> USE DEF InOrder, AnswersBefore, TakenBefore, SlotBefore, HandlerBefore
<1> QED BY DEF Ordered, Fresh

LEMMA OrderedTake == ASSUME Ordered, TypeInv, TakeResponse PROVE Ordered'
<1>1. CASE slot = None
  <2>1. UNCHANGED <<answers, taken, slot, handler, sent, queue, left>>
    BY <1>1 DEF TakeResponse
  <2> QED BY <2>1, StationsSame
<1>2. CASE slot # None
  <2> USE DEF InOrder, AnswersBefore, TakenBefore, SlotBefore, HandlerBefore
  <2>1. taken' = slot /\ slot' = None /\ UNCHANGED <<answers, handler, sent, queue, left>>
    BY <1>2 DEF TakeResponse
  <2> QED BY <1>2, <2>1 DEF Ordered, Fresh
<1> QED BY <1>1, <1>2

LEMMA OrderedPublish == ASSUME Ordered, TypeInv, PublishResponse PROVE Ordered'
<1> USE DEF InOrder, AnswersBefore, TakenBefore, SlotBefore, HandlerBefore
<1>1. UNCHANGED <<handler, slot, queue, sent>> /\ taken' = None
  BY DEF PublishResponse, callback
<1>2. left'["again"] = left["again"]
  BY OtherFault DEF PublishResponse, Publication, TypeInv, Faults
<1>3. CASE answers' = answers
  BY <1>1, <1>2, <1>3 DEF Ordered, Fresh
<1>4. CASE answers' = Append(answers, taken)
  <2>1. taken # None /\ taken \in Responses /\ answers \in Seq(Responses)
    BY DEF PublishResponse, TypeInv, DataType, Carried
  <2>2. Len(answers') = Len(answers) + 1 /\ Len(answers) \in Nat
        /\ answers'[Len(answers) + 1] = taken
        /\ \A i \in 1..Len(answers) : answers'[i] = answers[i]
    BY <1>4, <2>1
  <2>3. SUFFICES ASSUME InOrder PROVE InOrder'
    BY <1>2 DEF Ordered, Fresh
  <2>4. \A i \in 1..Len(answers') : answers'[i].id < taken.id \/ answers'[i].id = taken.id
    BY <2>1, <2>2, <2>3
  <2>5. taken.id \in Int BY <2>1 DEF Responses
  <2>6. \A i \in 1..Len(answers') : answers'[i].id \in Int
    BY <2>1, <2>2, IdsAreNumbers
  <2>7. \A n \in Int : TakenBefore(n) => AnswersBefore(n)'
    BY <2>1, <2>2
  <2>8. \A i, j \in 1..Len(answers') : i < j => answers'[i].id < answers'[j].id
    BY <2>1, <2>2, <2>3
  <2>9. slot # None => slot.id \in Int
    BY IdsAreNumbers DEF TypeInv, DataType
  <2>10. handler.at # "idle" => handler.cmd.id \in Int
    BY Handled DEF TypeInv, Commands
  <2>11. sent \in Int /\ \A k \in 1..Len(queue) : queue[k].id \in Int
    BY IdsAreNumbers DEF TypeInv, DataType
  <2>12. \A n \in Int : TakenBefore(n) => TakenBefore(n)'
    BY <1>1, <2>7
  <2>13. \A n \in Int : SlotBefore(n) => SlotBefore(n)'
    BY <1>1, <2>12
  <2>14. \A n \in Int : HandlerBefore(n) => HandlerBefore(n)'
    BY <1>1, <2>13
  <2>15. slot' # None => TakenBefore(slot.id)'
    BY <1>1, <2>3, <2>9, <2>12
  <2>16. handler'.at # "idle" => SlotBefore(handler.cmd.id)'
    BY <1>1, <2>3, <2>10, <2>13
  <2>17. ASSUME NEW k \in 1..Len(queue) PROVE HandlerBefore(queue[k].id)'
    <3>1. HandlerBefore(queue[k].id) /\ queue[k].id \in Int BY <2>3, <2>11
    <3>2. \A i \in 1..Len(answers') : answers'[i].id < queue[k].id BY <2>7, <3>1
    <3> QED BY <1>1, <3>1, <3>2
  <2>18. HandlerBefore(sent + 1)'
    <3>1. HandlerBefore(sent + 1) /\ sent + 1 \in Int BY <2>3, <2>11
    <3>2. \A i \in 1..Len(answers') : answers'[i].id < sent + 1 BY <2>7, <3>1
    <3> QED BY <1>1, <3>1, <3>2
  <2> QED BY <1>1, <2>3, <2>8, <2>15, <2>16, <2>17, <2>18
<1> QED BY <1>3, <1>4 DEF PublishResponse

LEMMA OrderedDeliver == ASSUME Ordered, TypeInv, Deliver PROVE Ordered'
<1> USE DEF InOrder, AnswersBefore, TakenBefore, SlotBefore, HandlerBefore
<1>1. CASE queue' = Tail(queue) /\ UNCHANGED left
  <2>1. queue \in Seq(Commands) /\ queue # <<>> BY DEF Deliver, TypeInv, DataType
  <2>2. Len(queue') = Len(queue) - 1 /\ Len(queue) \in Nat \ {0}
        /\ \A k \in 1..Len(queue') : queue'[k] = queue[k + 1] /\ k + 1 \in 1..Len(queue)
    BY <1>1, <2>1
  <2>3. handler' = [at |-> "parse", cmd |-> queue[1], ok |-> FALSE]
        /\ UNCHANGED <<answers, taken, slot, sent>>
    BY <2>1 DEF Deliver
  <2>4. SUFFICES ASSUME InOrder PROVE InOrder'
    BY <1>1 DEF Ordered, Fresh
  <2>5. 1 \in 1..Len(queue) BY <2>2
  <2>6. \A k \in 1..Len(queue) : queue[k].id \in Int BY <2>1, IdsAreNumbers
  <2>7. handler'.at # "idle" /\ handler'.cmd.id = queue[1].id BY <2>3
  <2>14. /\ \A k, l \in 1..Len(queue) : k < l => queue[k].id < queue[l].id
         /\ \A k \in 1..Len(queue) : queue[k].id <= sent
    BY <2>4
  <2>8. ASSUME NEW k \in 1..Len(queue')
        PROVE  queue[1].id < queue'[k].id /\ queue'[k].id <= sent
    <3>1. queue'[k] = queue[k + 1] /\ k + 1 \in 1..Len(queue) /\ 1 < k + 1 BY <2>2
    <3> QED BY <2>5, <2>14, <3>1
  <2>9. ASSUME NEW k \in 1..Len(queue'), NEW l \in 1..Len(queue'), k < l
        PROVE  queue'[k].id < queue'[l].id
    <3>1. /\ queue'[k] = queue[k + 1] /\ queue'[l] = queue[l + 1]
          /\ k + 1 \in 1..Len(queue) /\ l + 1 \in 1..Len(queue) /\ k + 1 < l + 1
      BY <2>2, <2>9
    <3> QED BY <2>14, <3>1
  <2>10. sent \in Int BY DEF TypeInv, DataType
  <2>11. queue[1].id < sent + 1 BY <2>4, <2>5, <2>6, <2>10
  <2>12. SlotBefore(queue[1].id) BY <2>4, <2>5
  <2>13. \A k \in 1..Len(queue') : SlotBefore(queue'[k].id) BY <2>2, <2>4
  <2> QED BY <2>3, <2>4, <2>7, <2>8, <2>9, <2>11, <2>12, <2>13
<1>2. CASE Spend("again")
  <2>1. left'["again"] < left["again"] /\ left["again"] \in Nat
    BY <1>2 DEF Spend, TypeInv, MainType, Faults
  <2>2. Budget["again"] \in Nat BY BridgeAssumption DEF Faults
  <2>3. left'["again"] \in Nat BY <1>2 DEF Spend, TypeInv, MainType, Faults
  <2> QED BY <2>1, <2>2, <2>3 DEF Ordered, Fresh
<1> QED BY <1>1, <1>2 DEF Deliver

LEMMA OrderedQueue == ASSUME Ordered, TypeInv, QueueResponse PROVE Ordered'
<1> USE DEF InOrder, AnswersBefore, TakenBefore, SlotBefore, HandlerBefore
<1>1. handler.at # "idle" BY DEF QueueResponse
<1>2. slot' = [id |-> handler.cmd.id, value |-> handler.cmd.value, ok |-> handler.ok]
      /\ handler'.at = "idle" /\ UNCHANGED <<answers, taken, queue, sent, left>>
  BY DEF QueueResponse, Idle
<1>3. slot'.id = handler.cmd.id BY <1>2
<1> QED BY <1>1, <1>2, <1>3 DEF Ordered, Fresh

LEMMA OrderedKill == ASSUME Ordered, TypeInv, Kill PROVE Ordered'
<1> USE DEF InOrder, AnswersBefore, TakenBefore, SlotBefore, HandlerBefore
<1>1. left'["again"] = left["again"] BY OtherFault DEF Kill, TypeInv, Faults
<1>2. queue' = <<>> /\ handler'.at = "idle" /\ slot' = None /\ taken' = None
      /\ UNCHANGED <<answers, sent>>
  BY DEF Kill, Idle
<1> QED BY <1>1, <1>2 DEF Ordered, Fresh

LEMMA OrderedArrive ==
    ASSUME Ordered, TypeInv, NEW c \in Commands, Arrive(c) PROVE Ordered'
<1> USE DEF InOrder, AnswersBefore, TakenBefore, SlotBefore, HandlerBefore
<1>1. c.id > sent /\ sent' = c.id /\ UNCHANGED <<answers, taken, slot, handler, left>>
  BY DEF Arrive, Take
<1>2. sent \in Int /\ c.id \in Int /\ queue \in Seq(Commands)
  BY DEF TypeInv, DataType, Commands
<1>3. SUFFICES ASSUME InOrder PROVE InOrder'
  BY <1>1 DEF Ordered, Fresh
<1>4. \A i \in 1..Len(answers) : answers[i].id \in Int
  BY IdsAreNumbers DEF TypeInv, DataType
<1>5. (taken # None => taken.id \in Int) /\ (slot # None => slot.id \in Int)
  BY DEF TypeInv, DataType, Responses
<1>6. handler.at # "idle" => handler.cmd.id \in Int
  BY Handled DEF TypeInv, Commands
<1>7. HandlerBefore(c.id) /\ HandlerBefore(c.id + 1)
  BY <1>1, <1>2, <1>3, <1>4, <1>5, <1>6
<1>8. \A k \in 1..Len(queue) : queue[k].id \in Int /\ queue[k].id < c.id
  BY <1>1, <1>2, <1>3, IdsAreNumbers
<1>9. CASE queue' = queue
  <2>1. \A k \in 1..Len(queue) : queue[k].id <= c.id BY <1>2, <1>8
  <2>2. HandlerBefore(sent + 1)' BY <1>1, <1>7
  <2> QED BY <1>1, <1>3, <1>9, <2>1, <2>2
<1>10. CASE queue' = Append(queue, c)
  <2>1. Len(queue') = Len(queue) + 1 /\ Len(queue) \in Nat
        /\ queue'[Len(queue) + 1] = c
        /\ \A k \in 1..Len(queue) : queue'[k] = queue[k]
    BY <1>2, <1>10
  <2>2. \A k, l \in 1..Len(queue') : k < l => queue'[k].id < queue'[l].id
    BY <1>3, <1>8, <2>1
  <2>3. \A k \in 1..Len(queue') : HandlerBefore(queue'[k].id) /\ queue'[k].id <= c.id
    BY <1>2, <1>3, <1>7, <1>8, <2>1
  <2> QED BY <1>1, <1>3, <1>7, <2>2, <2>3
<1> QED BY <1>9, <1>10 DEF Arrive, Take

LEMMA OrderedNext == ASSUME Ordered, TypeInv, [Next]_vars PROVE Ordered'
<1>s. ASSUME NEW f \in {"refuse", "break", "slow", "led", "kill"}, Spend(f)
      PROVE  left'["again"] = left["again"]
  BY <1>s, OtherFault DEF TypeInv, Faults
<1>1. CASE UNCHANGED vars BY <1>1, StationsSame DEF vars
<1>2. CASE TakeResponse BY <1>2, OrderedTake
<1>3. CASE PublishResponse BY <1>3, OrderedPublish
<1>4. CASE Deliver BY <1>4, OrderedDeliver
<1>5. CASE QueueResponse BY <1>5, OrderedQueue
<1>6. CASE Kill BY <1>6, OrderedKill
<1>7. CASE \E c \in Commands : Arrive(c) BY <1>7, OrderedArrive
<1>8. CASE Refuse
  <2>1. handler.at # "idle" BY <1>8 DEF Refuse
  <2>2. handler'.at = "report" /\ handler'.cmd = handler.cmd
    BY <1>8, <2>1, Handled DEF Refuse, TypeInv
  <2> QED BY <2>1, <2>2, <1>8, HandlerMoves DEF Refuse, TypeInv
<1>9. CASE WriteTrigger
  <2>1. handler.at # "idle" BY <1>9 DEF WriteTrigger
  <2>2. handler'.at # "idle" /\ handler'.cmd = handler.cmd
    BY <1>9, <2>1, Handled DEF WriteTrigger, TypeInv
  <2> QED BY <2>1, <2>2, <1>9, HandlerMoves DEF WriteTrigger, TypeInv
<1>10. CASE WriteBrightness
  <2>1. handler.at # "idle" BY <1>10 DEF WriteBrightness
  <2>2. handler'.at # "idle" /\ handler'.cmd = handler.cmd
    BY <1>10, <2>1, Handled DEF WriteBrightness, TypeInv
  <2> QED BY <2>1, <2>2, <1>10, HandlerMoves DEF WriteBrightness, TypeInv
<1>11. CASE WriteFails
  <2>1. handler.at # "idle" BY <1>11 DEF WriteFails
  <2>2. handler'.at # "idle" /\ handler'.cmd = handler.cmd
    BY <1>11, <2>1, Handled DEF WriteFails, TypeInv
  <2>3. left'["again"] = left["again"] BY <1>s, <1>11 DEF WriteFails
  <2> QED BY <2>1, <2>2, <2>3, <1>11, HandlerMoves DEF WriteFails, TypeInv
<1>12. CASE Loop \/ Subscribe \/ BackOff \/ Rest \/ Connect \/ Leave
  BY <1>12, StationsSame DEF Loop, Subscribe, BackOff, Rest, Connect, Leave,
     CleanDisconnect, callback
<1>13. CASE ConnectFails BY <1>13, <1>s, StationsSame DEF ConnectFails, callback
<1>14. CASE SubscribeFails
  <2>1. left'["again"] = left["again"] BY <1>14, <1>s DEF SubscribeFails
  <2> QED BY <2>1, <1>14, StationsSame DEF SubscribeFails, CleanDisconnect
<1>15. CASE Announce
  <2>1. left'["again"] = left["again"] BY <1>15, <1>s DEF Announce
  <2> QED BY <2>1, <1>15, StationsSame DEF Announce, CleanDisconnect
<1>16. CASE Goodbye
  <2>1. left'["again"] = left["again"] BY <1>16, <1>s DEF Goodbye, Publication
  <2> QED BY <2>1, <1>16, StationsSame DEF Goodbye, callback
<1>17. CASE Break BY <1>17, <1>s, StationsSame DEF Break, callback
<1>18. CASE Stop \/ Notice \/ BrokerNotices
  BY <1>18, StationsSame DEF Stop, Notice, BrokerNotices, callback
<1> QED
  BY NextCases, <1>1, <1>2, <1>3, <1>4, <1>5, <1>6, <1>7, <1>8, <1>9, <1>10, <1>11,
     <1>12, <1>13, <1>14, <1>15, <1>16, <1>17, <1>18

\* Without redelivery no command is answered twice and answers do not overtake
\* each other, for any number of commands, lost answers and restarts.
THEOREM AnswersInOrder == Spec => []AnsweredOnce
<1>1. Init => TypeInv /\ Ordered
  <2>1. Init => Ordered
    BY BridgeAssumption DEF Init, Ordered, Fresh, InOrder, AnswersBefore, TakenBefore,
       SlotBefore, HandlerBefore, Idle, Faults
  <2> QED BY <2>1, TypesInit, WireInit DEF TypeInv
<1>2. TypeInv /\ Ordered /\ [Next]_vars => (TypeInv /\ Ordered)'
  BY TypeInvNext, OrderedNext
<1>3. Ordered => AnsweredOnce BY DEF Ordered, Fresh, InOrder, AnsweredOnce
<1> QED BY <1>1, <1>2, <1>3, PTL DEF Spec

-----------------------------------------------------------------------------
(* A success that has been answered stays true *)

\* c is the command of x or a newer one.
Upto(x, c) == x.id < c.id \/ (x.id = c.id /\ x.value = c.value)

\* Nothing older than x is still to be applied.
NotAfter(x) ==
    /\ x.id <= sent
    /\ handler.at # "idle" => Upto(x, handler.cmd)
    /\ \A k \in 1..Len(queue) : Upto(x, queue[k])

\* A response about the latest command that says success is what the LED does.
Settled(r) == NotAfter(r) /\ (r.ok /\ r.id = sent => led = r.value)

\* The broker's queue is in the order of the commands, the handler is not ahead
\* of it, and every response is settled, wherever it is.
QueueInOrder ==
    /\ \A k, l \in 1..Len(queue) : k < l => queue[k].id < queue[l].id
    /\ \A k \in 1..Len(queue) : queue[k].id <= sent
    /\ handler.at # "idle" => NotAfter(handler.cmd)
AllSettled ==
    /\ slot # None => Settled(slot)
    /\ taken # None => Settled(taken)
    /\ \A i \in 1..Len(answers) : Settled(answers[i])
Truthful == Applied /\ QueueInOrder /\ AllSettled

\* The handler gets no new command, and the broker's queue is kept or lost.
Calm ==
    /\ handler'.at # "idle" => handler.at # "idle" /\ handler'.cmd = handler.cmd
    /\ queue' \in {queue, <<>>} /\ UNCHANGED sent

\* What a step does to the commands that are still to be applied ...
LEMMA StepKinds ==
    ASSUME HandlerType, [Next]_vars
    PROVE  \/ Calm /\ UNCHANGED led
           \/ Calm /\ (WriteTrigger \/ WriteBrightness)
           \/ Deliver
           \/ \E c \in Commands : Arrive(c)
<1> USE DEF Calm
<1>1. CASE UNCHANGED vars BY <1>1 DEF vars
<1>2. CASE Loop \/ Connect \/ ConnectFails \/ Subscribe \/ SubscribeFails \/ Announce
  BY <1>2 DEF Loop, Connect, ConnectFails, Subscribe, SubscribeFails, Announce,
     CleanDisconnect, callback
<1>3. CASE BackOff \/ TakeResponse \/ PublishResponse \/ Rest \/ Goodbye \/ Leave
  BY <1>3 DEF BackOff, TakeResponse, PublishResponse, Rest, Goodbye, Leave, CleanDisconnect,
     callback
<1>4. CASE Refuse \/ WriteTrigger \/ WriteBrightness \/ WriteFails
  <2>1. handler.at # "idle" BY <1>4 DEF Refuse, WriteTrigger, WriteBrightness, WriteFails
  <2>2. handler = [at |-> handler.at, cmd |-> handler.cmd, ok |-> handler.ok]
    BY <2>1, Handled
  <2>3. handler'.cmd = handler.cmd
    BY <1>4, <2>2 DEF Refuse, WriteTrigger, WriteBrightness, WriteFails
  <2>4. UNCHANGED <<queue, sent>>
    BY <1>4 DEF Refuse, WriteTrigger, WriteBrightness, WriteFails
  <2>5. WriteTrigger \/ WriteBrightness \/ UNCHANGED led
    BY <1>4 DEF Refuse, WriteFails
  <2> QED BY <2>1, <2>3, <2>4, <2>5
<1>5. CASE QueueResponse \/ Kill BY <1>5 DEF QueueResponse, Kill, Idle
<1>6. CASE Break \/ Stop \/ Notice \/ BrokerNotices
  BY <1>6 DEF Break, Stop, Notice, BrokerNotices, callback
<1> QED BY NextCases, <1>1, <1>2, <1>3, <1>4, <1>5, <1>6

\* ... and to the responses on their way.
LEMMA Stations ==
    ASSUME Carried, [Next]_vars
    PROVE  /\ slot' \in {slot, None} \/ QueueResponse
           /\ taken' \in {taken, None} \/ (slot # None /\ taken' = slot)
           /\ answers' = answers \/ (taken # None /\ answers' = Append(answers, taken))
<1>1. CASE UNCHANGED vars BY <1>1 DEF vars
<1>2. CASE Loop \/ Connect \/ ConnectFails \/ Subscribe \/ SubscribeFails \/ Announce
  BY <1>2 DEF Loop, Connect, ConnectFails, Subscribe, SubscribeFails, Announce, callback
<1>3. CASE BackOff \/ Rest \/ Goodbye \/ Leave
  BY <1>3 DEF BackOff, Rest, Goodbye, Leave, callback
<1>4. CASE TakeResponse BY <1>4 DEF TakeResponse
<1>5. CASE PublishResponse BY <1>5 DEF PublishResponse, callback, Carried
<1>6. CASE Refuse \/ WriteTrigger \/ WriteBrightness \/ WriteFails \/ Deliver
  BY <1>6 DEF Refuse, WriteTrigger, WriteBrightness, WriteFails, Deliver
<1>7. CASE QueueResponse BY <1>7 DEF QueueResponse
<1>8. CASE Break \/ Stop \/ Kill \/ Notice \/ BrokerNotices \/ \E c \in Commands : Arrive(c)
  BY <1>8 DEF Break, Stop, Kill, Notice, BrokerNotices, Arrive, Take, callback
<1> QED BY NextCases, <1>1, <1>2, <1>3, <1>4, <1>5, <1>6, <1>7, <1>8

\* The rest of a sequence keeps its members, in their order.
LEMMA RestOf ==
    ASSUME NEW S, NEW q \in Seq(S), q # <<>>
    PROVE  /\ 1 \in 1..Len(q) /\ Head(q) = q[1]
           /\ \A k \in 1..Len(Tail(q)) : Tail(q)[k] = q[k + 1] /\ k + 1 \in 2..Len(q)
OBVIOUS

LEMMA Appended ==
    ASSUME NEW S, NEW q \in Seq(S), NEW e
    PROVE  /\ Len(Append(q, e)) = Len(q) + 1 /\ Len(q) \in Nat
           /\ Append(q, e)[Len(q) + 1] = e
           /\ \A k \in 1..Len(q) : Append(q, e)[k] = q[k]
OBVIOUS

\* Only newer commands come after x.
LEMMA NotAfterKept ==
    ASSUME TypeInv, [Next]_vars, NEW x, x.id \in Int, NotAfter(x) PROVE NotAfter(x)'
<1> USE DEF NotAfter
<1>1. CASE Calm BY <1>1 DEF Calm
<1>2. CASE Deliver
  <2>1. queue \in Seq(Commands) /\ queue # <<>> BY <1>2 DEF TypeInv, DataType, Deliver
  <2>2. handler'.cmd = queue[1] /\ queue' \in {queue, Tail(queue)} /\ UNCHANGED sent
    BY <1>2, <2>1, RestOf DEF Deliver
  <2>3. \A k \in 1..Len(queue') : \E l \in 1..Len(queue) : queue'[k] = queue[l]
    BY <2>1, <2>2, RestOf
  <2>4. Upto(x, queue[1]) BY <2>1, RestOf
  <2>5. \A k \in 1..Len(queue') : Upto(x, queue'[k]) BY <2>3
  <2> QED BY <2>2, <2>4, <2>5 DEF Upto
<1>3. ASSUME NEW c \in Commands, Arrive(c) PROVE NotAfter(x)'
  <2>1. c.id \in Int /\ sent \in Int /\ queue \in Seq(Commands)
    BY DEF Commands, TypeInv, DataType
  <2>2. x.id < c.id /\ sent' = c.id /\ UNCHANGED handler BY <1>3, <2>1 DEF Arrive, Take
  <2>3. queue' \in {queue, Append(queue, c)} BY <1>3 DEF Arrive, Take
  <2>4. \A k \in 1..Len(queue') : queue'[k] = c \/ (k \in 1..Len(queue) /\ queue'[k] = queue[k])
    BY <2>1, <2>3, Appended
  <2>5. \A k \in 1..Len(queue') : Upto(x, queue'[k]) BY <2>2, <2>4 DEF Upto
  <2> QED BY <2>1, <2>2, <2>5 DEF Upto
<1> QED BY <1>1, <1>2, <1>3, StepKinds DEF TypeInv

\* A later write to the LED files is that of the same command, redelivered.
LEMMA SettledKept ==
    ASSUME TypeInv, QueueInOrder, [Next]_vars, NEW r \in Responses, Settled(r)
    PROVE  Settled(r)'
<1>1. r.id \in Int BY DEF Responses
<1>2. NotAfter(r)' BY <1>1, NotAfterKept DEF Settled
<1>3. SUFFICES ASSUME r.ok, r.id = sent' PROVE led' = r.value
  BY <1>2 DEF Settled
<1>4. r.id <= sent /\ sent \in Int BY DEF Settled, NotAfter, TypeInv, DataType
<1>5. CASE Calm /\ UNCHANGED led BY <1>3, <1>5 DEF Calm, Settled
<1>6. CASE Calm /\ (WriteTrigger \/ WriteBrightness)
  <2>1. led = r.value /\ r.id = sent BY <1>3, <1>6 DEF Calm, Settled
  <2>2. handler.at # "idle" BY <1>6 DEF WriteTrigger, WriteBrightness
  <2>3. handler.cmd.id \in Int BY <2>2, Handled DEF TypeInv, Commands
  <2>4. Upto(r, handler.cmd) /\ handler.cmd.id <= sent
    BY <2>2 DEF Settled, NotAfter, QueueInOrder
  <2>5. handler.cmd.value = r.value BY <1>1, <2>1, <2>3, <2>4 DEF Upto
  <2> QED BY <1>6, <2>1, <2>5 DEF WriteTrigger, WriteBrightness
<1>7. CASE Deliver BY <1>3, <1>7 DEF Deliver, Settled
<1>8. ASSUME NEW c \in Commands, Arrive(c) PROVE led' = r.value
  <2>1. c.id \in Int BY DEF Commands
  <2> QED BY <1>1, <1>3, <1>4, <1>8, <2>1 DEF Arrive, Take
<1> QED BY <1>5, <1>6, <1>7, <1>8, StepKinds DEF TypeInv

LEMMA QueueInOrderNext ==
    ASSUME TypeInv, QueueInOrder, [Next]_vars PROVE QueueInOrder'
<1>q. queue \in Seq(Commands) /\ sent \in Int
      /\ \A k \in 1..Len(queue) : queue[k] \in Commands /\ queue[k].id \in Int
  BY IdsAreNumbers DEF TypeInv, DataType
<1>1. CASE Calm
  <2>1. handler'.at # "idle" => NotAfter(handler.cmd)'
    <3> SUFFICES ASSUME handler'.at # "idle" PROVE NotAfter(handler.cmd)'
      OBVIOUS
    <3>1. handler.at # "idle" /\ handler'.cmd = handler.cmd BY <1>1 DEF Calm
    <3>2. handler.cmd.id \in Int BY <3>1, Handled DEF TypeInv, Commands
    <3>3. NotAfter(handler.cmd) BY <3>1 DEF QueueInOrder
    <3> QED BY <3>1, <3>2, <3>3, <1>1 DEF Calm, NotAfter
  <2> QED BY <1>1, <2>1 DEF Calm, QueueInOrder
<1>2. CASE Deliver
  <2>1. queue # <<>> BY <1>2 DEF Deliver
  <2>2. handler'.cmd = queue[1] /\ queue' \in {queue, Tail(queue)} /\ UNCHANGED sent
    BY <1>2, <1>q, <2>1, RestOf DEF Deliver
  <2>3. \A k \in 1..Len(queue) : Upto(queue[1], queue[k])
    BY <1>q, <2>1, RestOf DEF QueueInOrder, Upto
  <2>4. CASE queue' = queue
    <3>1. NotAfter(handler.cmd)' BY <1>q, <2>1, <2>2, <2>3, <2>4, RestOf
      DEF NotAfter, QueueInOrder, Upto
    <3> QED BY <2>2, <2>4, <3>1 DEF QueueInOrder
  <2>5. CASE queue' = Tail(queue)
    <3>1. \A k \in 1..Len(queue') : queue'[k] = queue[k + 1] /\ k + 1 \in 2..Len(queue)
      BY <1>q, <2>1, <2>5, RestOf
    <3>2. \A k \in 1..Len(queue') : k + 1 \in 1..Len(queue) BY <3>1
    <3>3. NotAfter(handler.cmd)'
      BY <1>q, <2>1, <2>2, <2>3, <3>1, <3>2, RestOf DEF NotAfter, QueueInOrder, Upto
    <3>4. ASSUME NEW k \in 1..Len(queue'), NEW l \in 1..Len(queue'), k < l
          PROVE  queue'[k].id < queue'[l].id
      BY <3>1, <3>2, <3>4 DEF QueueInOrder
    <3>5. \A k \in 1..Len(queue') : queue'[k].id <= sent BY <3>1, <3>2 DEF QueueInOrder
    <3> QED BY <2>2, <3>3, <3>4, <3>5 DEF QueueInOrder
  <2> QED BY <2>2, <2>4, <2>5
<1>3. ASSUME NEW c \in Commands, Arrive(c) PROVE QueueInOrder'
  <2>1. c.id \in Int /\ c.id > sent /\ sent' = c.id /\ UNCHANGED handler
    BY <1>3 DEF Commands, Arrive, Take
  <2>2. CASE queue' = queue
    <3>1. \A k \in 1..Len(queue) : queue[k].id <= c.id BY <1>q, <2>1 DEF QueueInOrder
    <3>2. handler.at # "idle" => NotAfter(handler.cmd)'
      <4> SUFFICES ASSUME handler.at # "idle" PROVE NotAfter(handler.cmd)'
        OBVIOUS
      <4>1. handler.cmd.id \in Int BY Handled DEF TypeInv, Commands
      <4>2. NotAfter(handler.cmd) BY DEF QueueInOrder
      <4> QED BY <1>q, <2>1, <2>2, <4>1, <4>2 DEF NotAfter
    <3> QED BY <2>1, <2>2, <3>1, <3>2 DEF QueueInOrder
  <2>3. CASE queue' = Append(queue, c)
    <3>1. Len(queue') = Len(queue) + 1 /\ Len(queue) \in Nat /\ queue'[Len(queue) + 1] = c
          /\ \A k \in 1..Len(queue) : queue'[k] = queue[k]
      BY <1>q, <2>3, Appended
    <3>2. \A k \in 1..Len(queue) : queue[k].id < c.id BY <1>q, <2>1 DEF QueueInOrder
    <3>3. \A k, l \in 1..Len(queue') : k < l => queue'[k].id < queue'[l].id
      BY <3>1, <3>2 DEF QueueInOrder
    <3>4. \A k \in 1..Len(queue') : queue'[k].id <= c.id BY <1>q, <2>1, <3>1, <3>2
    <3>5. handler.at # "idle" => NotAfter(handler.cmd)'
      <4> SUFFICES ASSUME handler.at # "idle" PROVE NotAfter(handler.cmd)'
        OBVIOUS
      <4>1. handler.cmd.id \in Int BY Handled DEF TypeInv, Commands
      <4>2. NotAfter(handler.cmd) BY DEF QueueInOrder
      <4> QED BY <1>q, <2>1, <3>1, <4>1, <4>2 DEF NotAfter, Upto
    <3> QED BY <2>1, <3>3, <3>4, <3>5 DEF QueueInOrder
  <2> QED BY <1>3, <2>2, <2>3 DEF Arrive, Take
<1> QED BY <1>1, <1>2, <1>3, StepKinds DEF TypeInv

LEMMA AllSettledNext ==
    ASSUME TypeInv, Truthful, [Next]_vars PROVE AllSettled'
<1>t. /\ slot \in Responses \cup {None} /\ taken \in Responses \cup {None}
      /\ answers \in Seq(Responses) /\ Carried
  BY DEF TypeInv, DataType
<1>k. \A r \in Responses : Settled(r) => Settled(r)' BY SettledKept DEF Truthful
<1>1. slot' # None => Settled(slot)'
  <2>1. CASE slot' \in {slot, None}
    BY <1>t, <1>k, <2>1 DEF Truthful, AllSettled, Settled, NotAfter
  <2>2. CASE QueueResponse
    <3>1. handler.at # "idle" /\ handler.at = "report" BY <2>2 DEF QueueResponse
    <3>2. NotAfter(handler.cmd) BY <3>1 DEF Truthful, QueueInOrder
    <3>3. slot' = [id |-> handler.cmd.id, value |-> handler.cmd.value, ok |-> handler.ok]
          /\ handler'.at = "idle" /\ UNCHANGED <<queue, sent, led>>
      BY <2>2 DEF QueueResponse, Idle
    <3>4. slot'.id = handler.cmd.id /\ slot'.value = handler.cmd.value /\ slot'.ok = handler.ok
      BY <3>3
    <3>5. handler.ok => led = handler.cmd.value BY <3>1 DEF Truthful, Applied
    <3> QED BY <3>2, <3>3, <3>4, <3>5 DEF Settled, NotAfter, Upto
  <2> QED BY <1>t, <2>1, <2>2, Stations
<1>2. taken' # None => Settled(taken)'
  BY <1>t, <1>k, Stations DEF Truthful, AllSettled, Settled, NotAfter
<1>3. \A i \in 1..Len(answers') : Settled(answers[i])'
  <2>1. CASE answers' = answers
    BY <1>t, <1>k, <2>1 DEF Truthful, AllSettled, Settled, NotAfter
  <2>2. CASE taken # None /\ answers' = Append(answers, taken)
    <3>1. \A i \in 1..Len(answers') :
              answers'[i] = taken \/ (i \in 1..Len(answers) /\ answers'[i] = answers[i])
      BY <1>t, <2>2, Appended
    <3>2. \A i \in 1..Len(answers') : answers'[i] \in Responses /\ Settled(answers'[i])
      BY <1>t, <2>2, <3>1 DEF Truthful, AllSettled
    <3> QED BY <1>k, <3>2 DEF Settled, NotAfter
  <2> QED BY <1>t, <2>1, <2>2, Stations
<1> QED BY <1>1, <1>2, <1>3 DEF AllSettled

LEMMA TruthfulInit == ASSUME Init PROVE Truthful
BY DEF Init, Idle, Truthful, Applied, QueueInOrder, AllSettled

LEMMA TruthfulNext == ASSUME TypeInv, Truthful, [Next]_vars PROVE Truthful'
<1>1. Applied' BY AppliedNext DEF Truthful, TypeInv
<1>2. QueueInOrder' BY QueueInOrderNext DEF Truthful
<1>3. AllSettled' BY AllSettledNext
<1> QED BY <1>1, <1>2, <1>3 DEF Truthful

\* A success stays true until the next command, whatever is delivered again,
\* fails, is lost or is restarted in between.
THEOREM AnswersStayTrue == Spec => []AnswerStaysTrue
<1>1. Init => TypeInv /\ Truthful BY TruthfulInit, TypesInit, WireInit DEF TypeInv
<1>2. TypeInv /\ Truthful /\ [Next]_vars => (TypeInv /\ Truthful)'
  BY TruthfulNext, TypeInvNext
<1>3. Truthful => AnswerStaysTrue BY DEF Truthful, AllSettled, Settled, AnswerStaysTrue
<1> QED BY <1>1, <1>2, <1>3, PTL DEF Spec
=============================================================================
