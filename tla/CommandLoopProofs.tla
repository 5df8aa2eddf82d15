------------------------- MODULE CommandLoopProofs -------------------------
(***************************************************************************)
(* Proofs about the dashboard, which CommandLoop extends, and about the    *)
(* composition: first the types and the control widgets of DashboardLink,  *)
(* then that the composition implements both of its parts, each one with   *)
(* the other part in place of its environment.                             *)
(***************************************************************************)
EXTENDS CommandLoop, SequenceTheorems, TLAPS

P == INSTANCE MqttBridgeProofs

\* The actions of Next in one place, for the case splits below.
LEMMA NextCases ==
    ASSUME Next
    PROVE  \/ CommandTimedOut \/ AttemptConnect \/ ConnectionResult \/ HandleResponse
           \/ HandlePublishFailure \/ TransportRecreated
           \/ Click \/ ToggleConnection \/ ApplySettings
           \/ ConnectBroker \/ ConnectRefused \/ Subscribe \/ SubscribeFails \/ SetFlag
           \/ Announce \/ Publish \/ Published \/ PublishedLate \/ PublishFails
           \/ DisconnectBroker \/ Break \/ ConnectionLost \/ Answer
BY DEF Next, Gui, User, Worker, Connecting, Publishing

-----------------------------------------------------------------------------
(* Types, variable by variable *)

GuiType ==
    /\ desired \in BOOLEAN /\ connected \in BOOLEAN
    /\ pending \in Cmds \cup {None} /\ timer \in BOOLEAN /\ buttons \in BOOLEAN
    /\ retry \in BOOLEAN /\ backoff \in {1, 2, 4, 8, 16, 30}
    /\ applying \in BOOLEAN
ShownType == shown \in [what : Outcomes, asked : Cmds \cup {None}, cause : Cmds \cup {None}]
QueueType == jobs \in Seq(Jobs) /\ events \in Seq(Events)
WorkerType ==
    /\ worker \in [at : {"idle", "subscribing", "connected", "announcing"}, cmd : {None}]
             \cup [at : {"publishing"}, cmd : Cmds]
    /\ flag \in BOOLEAN /\ client \in {"none", "open", "broken", "lost"}
    /\ accepted \subseteq Cmds
CountType ==
    /\ clicks \in 0..MaxCommands /\ toggles \in 0..MaxToggles /\ applies \in 0..MaxApplies
    /\ refusals \in 0..MaxRefusals /\ breaks \in 0..MaxBreaks /\ slows \in 0..MaxSlows

LEMMA TypeParts ==
    TypeOK <=> GuiType /\ ShownType /\ QueueType /\ WorkerType /\ CountType
BY DEF TypeOK, GuiType, ShownType, QueueType, WorkerType, CountType

\* The members of the queues.
LEMMA JobTypes ==
    /\ [do |-> "connect"] \in Jobs /\ [do |-> "disconnect"] \in Jobs
    /\ \A c \in Cmds : [do |-> "publish", cmd |-> c] \in Jobs
    /\ \A j \in Jobs : j.do = "publish" => j.cmd \in Cmds
<1>1. [do |-> "connect"] \in Jobs /\ [do |-> "disconnect"] \in Jobs BY Zenon DEF Jobs
<1>2. \A c \in Cmds : [do |-> "publish", cmd |-> c] \in Jobs BY Zenon DEF Jobs
<1>3. ASSUME NEW j \in Jobs, j.do = "publish" PROVE j.cmd \in Cmds
  <2>1. CASE j \in [do : {"connect", "disconnect"}]
    <3>1. j.do \in {"connect", "disconnect"} BY <2>1
    <3> QED BY <3>1, <1>3
  <2>2. CASE j \in [do : {"publish"}, cmd : Cmds] BY <2>2
  <2> QED BY <2>1, <2>2 DEF Jobs
<1> QED BY <1>1, <1>2, <1>3

LEMMA EventTypes ==
    /\ \A b \in BOOLEAN : Result(b) \in Events
    /\ \A c \in Cmds, b \in BOOLEAN : [is |-> "answer", cmd |-> c, ok |-> b] \in Events
    /\ \A c \in Cmds : [is |-> "publishError", cmd |-> c] \in Events
<1>1. \A b \in BOOLEAN : Result(b) \in Events BY Zenon DEF Events, Result
<1>2. \A c \in Cmds, b \in BOOLEAN : [is |-> "answer", cmd |-> c, ok |-> b] \in Events
  BY Zenon DEF Events
<1>3. \A c \in Cmds : [is |-> "publishError", cmd |-> c] \in Events BY Zenon DEF Events
<1> QED BY <1>1, <1>2, <1>3

LEMMA EventFields ==
    ASSUME NEW e \in Events
    PROVE  /\ e.is = "result" => e.ok \in BOOLEAN
           /\ e.is = "answer" => e.cmd \in Cmds /\ e.ok \in BOOLEAN
           /\ e.is = "publishError" => e.cmd \in Cmds
<1>1. CASE e \in [is : {"result"}, ok : BOOLEAN]
  <2>1. e.is \in {"result"} /\ e.ok \in BOOLEAN BY <1>1, Zenon
  <2> QED BY <2>1
<1>2. CASE e \in [is : {"answer"}, cmd : Cmds, ok : BOOLEAN]
  <2>1. e.is \in {"answer"} /\ e.cmd \in Cmds /\ e.ok \in BOOLEAN BY <1>2, Zenon
  <2> QED BY <2>1
<1>3. CASE e \in [is : {"publishError"}, cmd : Cmds]
  <2>1. e.is \in {"publishError"} /\ e.cmd \in Cmds BY <1>3, Zenon
  <2> QED BY <2>1
<1> QED BY <1>1, <1>2, <1>3 DEF Events

LEMMA WorkerFields ==
    ASSUME WorkerType, worker.at = "publishing" PROVE worker.cmd \in Cmds
<1>1. CASE worker \in [at : {"idle", "subscribing", "connected", "announcing"}, cmd : {None}]
  <2>1. worker.at \in {"idle", "subscribing", "connected", "announcing"} BY <1>1
  <2> QED BY <2>1
<1>2. CASE worker \in [at : {"publishing"}, cmd : Cmds] BY <1>2
<1> QED BY <1>1, <1>2 DEF WorkerType

\* The head of a queue and what is left of it.
LEMMA NextJobTyped ==
    ASSUME QueueType, NEW d, NextJob(d)
    PROVE  Head(jobs) \in Jobs /\ jobs' \in Seq(Jobs) /\ Head(jobs).do = d
BY DEF QueueType, NextJob

LEMMA NextEventTyped ==
    ASSUME QueueType, NEW s, NextEvent(s)
    PROVE  Head(events) \in Events /\ events' \in Seq(Events) /\ Head(events).is = s
BY DEF QueueType, NextEvent

LEMMA EmitTyped ==
    ASSUME QueueType, NEW e \in Events, Emit(e) PROVE events' \in Seq(Events)
BY DEF QueueType, Emit

LEMMA PostTyped ==
    ASSUME QueueType, NEW j \in Jobs, Post(j) PROVE jobs' \in Seq(Jobs)
BY DEF QueueType, Post

LEMMA FinishTyped ==
    ASSUME GuiType, NEW w \in Outcomes, NEW c \in Cmds \cup {None}, Finish(w, c)
    PROVE  pending' = None /\ timer' = FALSE /\ ShownType'
<1>1. pending \in Cmds \cup {None} BY DEF GuiType
<1>2. shown' = [what |-> w, asked |-> pending, cause |-> c] BY DEF Finish
<1>3. ShownType' BY <1>1, <1>2, Zenon DEF ShownType
<1> QED BY <1>3 DEF Finish

-----------------------------------------------------------------------------
(* Every step keeps the types *)

LEMMA SetConnectedTyped ==
    ASSUME GuiType, ShownType, NEW b \in BOOLEAN, SetConnected(b)
    PROVE  /\ pending' \in Cmds \cup {None} /\ timer' \in BOOLEAN /\ buttons' \in BOOLEAN
           /\ ShownType'
<1>1. CASE pending = None BY <1>1 DEF SetConnected, GuiType, ShownType
<1>2. CASE pending # None /\ b BY <1>2 DEF SetConnected, GuiType, ShownType, control
<1>3. CASE pending # None /\ ~b
  <2>1. Finish("disconnected", None) /\ UNCHANGED buttons BY <1>3 DEF SetConnected
  <2>2. "disconnected" \in Outcomes BY DEF Outcomes
  <2> QED BY <2>1, <2>2, FinishTyped DEF GuiType
<1> QED BY <1>1, <1>2, <1>3

LEMMA GuiTypeNext ==
    ASSUME GuiType, ShownType, QueueType, CountType, Next PROVE GuiType' /\ ShownType'
<1>n. None \in Cmds \cup {None} OBVIOUS
<1>g. ASSUME UNCHANGED gui PROVE GuiType' /\ ShownType'
  BY <1>g DEF gui, control, transport, GuiType, ShownType
<1>1. CASE CommandTimedOut
  <2>1. Finish("timeout", None) BY <1>1 DEF CommandTimedOut
  <2>2. "timeout" \in Outcomes BY DEF Outcomes
  <2>3. pending' = None /\ timer' = FALSE /\ ShownType' BY <2>1, <2>2, FinishTyped
  <2> QED BY <2>3, <1>1 DEF CommandTimedOut, GuiType, transport
<1>2. CASE AttemptConnect
  BY <1>2 DEF AttemptConnect, control, GuiType, ShownType
<1>3. CASE ConnectionResult
  <2>1. Head(events).ok \in BOOLEAN
    BY <1>3, NextEventTyped, EventFields DEF ConnectionResult
  <2>2. SetConnected(Head(events).ok) /\ connected' = Head(events).ok
    BY <1>3 DEF ConnectionResult
  <2>3. /\ pending' \in Cmds \cup {None} /\ timer' \in BOOLEAN /\ buttons' \in BOOLEAN
        /\ ShownType'
    BY <2>1, <2>2, SetConnectedTyped
  <2>4. retry' \in BOOLEAN /\ backoff' \in {1, 2, 4, 8, 16, 30}
    <3>1. retry' \in {TRUE, retry}
          /\ backoff' \in {1, backoff, IF backoff * 2 > 30 THEN 30 ELSE backoff * 2}
      BY <1>3 DEF ConnectionResult
    <3>2. retry \in BOOLEAN /\ backoff \in {1, 2, 4, 8, 16, 30} BY DEF GuiType
    <3>3. retry' \in BOOLEAN BY <3>1, <3>2, Zenon
    <3>4. backoff' \in {1, 2, 4, 8, 16, 30} BY <3>1, <3>2
    <3> QED BY <3>3, <3>4
  <2> QED BY <2>1, <2>2, <2>3, <2>4, <1>3 DEF ConnectionResult, GuiType
<1>4. CASE HandleResponse
  <2>1. Head(events).cmd \in Cmds /\ Head(events).ok \in BOOLEAN
    BY <1>4, NextEventTyped, EventFields DEF HandleResponse
  <2>2. "success" \in Outcomes /\ "failed" \in Outcomes BY DEF Outcomes
  <2>3. CASE UNCHANGED control
    BY <2>3, <1>4 DEF HandleResponse, control, transport, GuiType, ShownType
  <2>4. CASE /\ Finish(IF Head(events).ok THEN "success" ELSE "failed", Head(events).cmd)
             /\ buttons' = connected
    <3>1. pending' = None /\ timer' = FALSE /\ ShownType' BY <2>1, <2>2, <2>4, FinishTyped
    <3> QED BY <2>4, <3>1, <1>4 DEF HandleResponse, GuiType, transport
  <2> QED BY <2>3, <2>4, <1>4 DEF HandleResponse
<1>5. CASE HandlePublishFailure
  <2>1. Head(events).cmd \in Cmds
    BY <1>5, NextEventTyped, EventFields DEF HandlePublishFailure
  <2>2. "publishError" \in Outcomes BY DEF Outcomes
  <2>3. CASE UNCHANGED control
    BY <2>3, <1>5 DEF HandlePublishFailure, control, transport, GuiType, ShownType
  <2>4. CASE Finish("publishError", Head(events).cmd) /\ buttons' = connected
    <3>1. pending' = None /\ timer' = FALSE /\ ShownType' BY <2>1, <2>2, <2>4, FinishTyped
    <3> QED BY <2>4, <3>1, <1>5 DEF HandlePublishFailure, GuiType, transport
  <2> QED BY <2>3, <2>4, <1>5 DEF HandlePublishFailure
<1>6. CASE TransportRecreated
  <2>1. SetConnected(FALSE) BY <1>6 DEF TransportRecreated
  <2>2. /\ pending' \in Cmds \cup {None} /\ timer' \in BOOLEAN /\ buttons' \in BOOLEAN
        /\ ShownType'
    BY <2>1, SetConnectedTyped
  <2> QED BY <2>2, <1>6 DEF TransportRecreated, ConnectToBroker, transport, GuiType
<1>7. CASE Click
  <2>1. PICK v \in Values :
          LET c == [id |-> clicks + 1, value |-> v]
          IN  /\ pending' = c /\ timer' = TRUE /\ buttons' = FALSE
              /\ shown' = [what |-> "waiting", asked |-> c, cause |-> None]
    BY <1>7 DEF Click
  <2> DEFINE c == [id |-> clicks + 1, value |-> v]
  <2>2. clicks + 1 \in 1..MaxCommands
    BY <1>7, DashboardAssumption DEF Click, CountType
  <2>3. c \in Cmds BY <2>2, Zenon DEF Cmds
  <2>4. "waiting" \in Outcomes BY DEF Outcomes
  <2>5. ShownType' BY <2>1, <2>3, <2>4, <1>n, Zenon DEF ShownType
  <2> QED BY <2>1, <2>3, <2>5, <1>7 DEF Click, GuiType, transport
<1>8. CASE ToggleConnection
  BY <1>8 DEF ToggleConnection, ConnectToBroker, control, GuiType, ShownType
<1>9. CASE ApplySettings
  BY <1>9 DEF ApplySettings, control, GuiType, ShownType
<1>10. CASE \/ ConnectBroker \/ ConnectRefused \/ Subscribe \/ SubscribeFails \/ SetFlag
            \/ Announce \/ Publish \/ Published \/ PublishedLate \/ PublishFails
            \/ DisconnectBroker \/ Break \/ ConnectionLost
  BY <1>10, <1>g DEF ConnectBroker, ConnectRefused, Subscribe, SubscribeFails, SetFlag,
     Announce, Publish, Published, PublishedLate, PublishFails, DisconnectBroker, Break,
     ConnectionLost
<1>11. CASE Answer BY <1>11, <1>g DEF Answer, Receive
<1> QED
  BY NextCases, <1>1, <1>2, <1>3, <1>4, <1>5, <1>6, <1>7, <1>8, <1>9, <1>10, <1>11

LEMMA CountTypeNext == ASSUME CountType, Next PROVE CountType'
<1> USE DashboardAssumption DEF CountType
<1>1. CASE \/ CommandTimedOut \/ AttemptConnect \/ ConnectionResult \/ HandleResponse
           \/ HandlePublishFailure \/ TransportRecreated
  BY <1>1 DEF CommandTimedOut, AttemptConnect, ConnectionResult, HandleResponse,
     HandlePublishFailure, TransportRecreated, used
<1>2. CASE Click BY <1>2 DEF Click
<1>3. CASE ToggleConnection BY <1>3 DEF ToggleConnection
<1>4. CASE ApplySettings BY <1>4 DEF ApplySettings
<1>5. CASE \/ ConnectBroker \/ Subscribe \/ SetFlag \/ Announce \/ Publish \/ Published
           \/ PublishFails \/ DisconnectBroker \/ ConnectionLost
  BY <1>5 DEF ConnectBroker, Subscribe, SetFlag, Announce, Publish, Published,
     PublishFails, DisconnectBroker, ConnectionLost, used
<1>6. CASE ConnectRefused BY <1>6 DEF ConnectRefused
<1>7. CASE SubscribeFails BY <1>7 DEF SubscribeFails
<1>8. CASE PublishedLate BY <1>8 DEF PublishedLate
<1>9. CASE Break BY <1>9 DEF Break
<1>10. CASE Answer BY <1>10 DEF Answer, Receive, used
<1> QED
  BY NextCases, <1>1, <1>2, <1>3, <1>4, <1>5, <1>6, <1>7, <1>8, <1>9, <1>10

LEMMA WorkerTypeNext == ASSUME WorkerType, QueueType, Next PROVE WorkerType'
<1>p. ASSUME UNCHANGED paho PROVE WorkerType' BY <1>p DEF paho, WorkerType
<1>r. ASSUME NEW a \in {"idle", "subscribing", "connected", "announcing"}
      PROVE  [at |-> a, cmd |-> None] \in
                 [at : {"idle", "subscribing", "connected", "announcing"}, cmd : {None}]
  BY Zenon
<1>f. Free = [at |-> "idle", cmd |-> None] BY DEF Free
<1>1. CASE \/ CommandTimedOut \/ AttemptConnect \/ ConnectionResult \/ HandleResponse
           \/ HandlePublishFailure \/ TransportRecreated
           \/ Click \/ ToggleConnection \/ ApplySettings
  BY <1>1, <1>p DEF CommandTimedOut, AttemptConnect, ConnectionResult, HandleResponse,
     HandlePublishFailure, TransportRecreated, Click, ToggleConnection, ApplySettings
<1>2. CASE \/ ConnectBroker \/ Subscribe \/ SetFlag
  BY <1>2, <1>r DEF ConnectBroker, Subscribe, SetFlag, WorkerType
<1>3. CASE ConnectRefused \/ DisconnectBroker \/ Break \/ ConnectionLost
  BY <1>3 DEF ConnectRefused, DisconnectBroker, Break, ConnectionLost, WorkerType
<1>4. CASE SubscribeFails \/ Announce \/ PublishFails
  BY <1>4, <1>r, <1>f DEF SubscribeFails, Announce, PublishFails, WorkerType
<1>5. CASE Publish
  <2>1. Head(jobs).cmd \in Cmds BY <1>5, NextJobTyped, JobTypes DEF Publish
  <2>2. [at |-> "publishing", cmd |-> Head(jobs).cmd] \in [at : {"publishing"}, cmd : Cmds]
    BY <2>1, Zenon
  <2>3. worker' = [at |-> "publishing", cmd |-> Head(jobs).cmd] \/ worker' = worker
    BY <1>5 DEF Publish
  <2> QED BY <2>2, <2>3, <1>5 DEF Publish, WorkerType
<1>6. CASE Published \/ PublishedLate
  <2>1. worker.cmd \in Cmds BY <1>6, WorkerFields DEF Published, PublishedLate
  <2> QED BY <2>1, <1>6, <1>r, <1>f DEF Published, PublishedLate, WorkerType
<1>7. CASE Answer BY <1>7, <1>p DEF Answer, Receive, paho
<1> QED BY NextCases, <1>1, <1>2, <1>3, <1>4, <1>5, <1>6, <1>7

LEMMA QueueTypeNext ==
    ASSUME QueueType, WorkerType, CountType, Next PROVE QueueType'
<1>j. ASSUME jobs' \in Seq(Jobs), UNCHANGED events PROVE QueueType'
  BY <1>j DEF QueueType
<1>e. ASSUME events' \in Seq(Events), UNCHANGED jobs PROVE QueueType'
  BY <1>e DEF QueueType
<1>r. Result(TRUE) \in Events /\ Result(FALSE) \in Events BY EventTypes
<1>1. CASE CommandTimedOut \/ Subscribe \/ SetFlag \/ Published \/ Break
  BY <1>1 DEF CommandTimedOut, Subscribe, SetFlag, Published, Break, QueueType
<1>2. CASE AttemptConnect \/ ToggleConnection \/ ApplySettings
  BY <1>2, PostTyped, JobTypes DEF AttemptConnect, ToggleConnection, ApplySettings,
     ConnectToBroker, QueueType
<1>3. CASE ConnectionResult \/ HandleResponse \/ HandlePublishFailure
  BY <1>3, <1>e, NextEventTyped DEF ConnectionResult, HandleResponse, HandlePublishFailure
<1>4. CASE TransportRecreated
  <2>1. events' \in Seq(Events) BY <1>4 DEF TransportRecreated
  <2>2. jobs' \in Seq(Jobs)
    BY <1>4, PostTyped, JobTypes DEF TransportRecreated, ConnectToBroker, QueueType
  <2> QED BY <2>1, <2>2 DEF QueueType
<1>5. CASE Click
  <2>1. PICK v \in Values : Post([do |-> "publish", cmd |-> [id |-> clicks + 1, value |-> v]])
    BY <1>5 DEF Click
  <2>2. clicks + 1 \in 1..MaxCommands
    BY <1>5, DashboardAssumption DEF Click, CountType
  <2>3. [id |-> clicks + 1, value |-> v] \in Cmds BY <2>2, Zenon DEF Cmds
  <2>4. jobs' \in Seq(Jobs) BY <2>1, <2>3, JobTypes, PostTyped
  <2> QED BY <2>4, <1>5, <1>j DEF Click
<1>6. CASE ConnectBroker BY <1>6, <1>j, NextJobTyped DEF ConnectBroker
<1>7. CASE ConnectRefused
  <2>1. jobs' \in Seq(Jobs) BY <1>7, NextJobTyped DEF ConnectRefused
  <2>2. events' \in Seq(Events) BY <1>7, <1>r, EmitTyped DEF ConnectRefused
  <2> QED BY <2>1, <2>2 DEF QueueType
<1>8. CASE DisconnectBroker
  <2>1. jobs' \in Seq(Jobs) BY <1>8, NextJobTyped DEF DisconnectBroker
  <2>2. events' \in Seq(Events) BY <1>8, <1>r, EmitTyped DEF DisconnectBroker
  <2> QED BY <2>1, <2>2 DEF QueueType
<1>9. CASE SubscribeFails \/ Announce \/ ConnectionLost
  BY <1>9, <1>r, <1>e, EmitTyped DEF SubscribeFails, Announce, ConnectionLost
<1>10. CASE Publish
  <2>1. jobs' \in Seq(Jobs) BY <1>10, NextJobTyped DEF Publish
  <2>2. Head(jobs).cmd \in Cmds BY <1>10, NextJobTyped, JobTypes DEF Publish
  <2>3. [is |-> "publishError", cmd |-> Head(jobs).cmd] \in Events BY <2>2, EventTypes
  <2>4. UNCHANGED events \/ Emit([is |-> "publishError", cmd |-> Head(jobs).cmd])
    BY <1>10 DEF Publish
  <2>5. events' \in Seq(Events) BY <2>3, <2>4, EmitTyped DEF QueueType
  <2> QED BY <2>1, <2>5 DEF QueueType
<1>11. CASE PublishedLate \/ PublishFails
  <2>1. worker.cmd \in Cmds BY <1>11, WorkerFields DEF PublishedLate, PublishFails
  <2>2. [is |-> "publishError", cmd |-> worker.cmd] \in Events BY <2>1, EventTypes
  <2> QED BY <2>2, <1>11, <1>e, EmitTyped DEF PublishedLate, PublishFails
<1>12. CASE Answer
  <2>1. PICK c \in accepted, b \in BOOLEAN : Receive(c, b) BY <1>12 DEF Answer
  <2>2. [is |-> "answer", cmd |-> c, ok |-> b] \in Events BY EventTypes DEF WorkerType
  <2> QED BY <2>1, <2>2, <1>e, EmitTyped DEF Receive
<1> QED
  BY NextCases, <1>1, <1>2, <1>3, <1>4, <1>5, <1>6, <1>7, <1>8, <1>9, <1>10, <1>11, <1>12

LEMMA TypesInit == ASSUME Init PROVE TypeOK
<1>1. GuiType BY DEF Init, GuiType
<1>7. CountType BY DashboardAssumption DEF Init, CountType
<1>2. QueueType BY DEF Init, QueueType
<1>3. Free \in [at : {"idle", "subscribing", "connected", "announcing"}, cmd : {None}]
  BY Zenon DEF Free
<1>4. WorkerType BY <1>3 DEF Init, WorkerType
<1>5. "none" \in Outcomes /\ None \in Cmds \cup {None} BY DEF Outcomes
<1>6. ShownType BY <1>5, Zenon DEF Init, ShownType
<1> QED BY <1>1, <1>2, <1>4, <1>6, <1>7, TypeParts

\* A step keeps the types; the composition uses this lemma too.
LEMMA TypesNext == ASSUME TypeOK, [Next]_dashVars PROVE TypeOK'
<1>1. CASE Next
  <2>1. GuiType /\ ShownType /\ QueueType /\ WorkerType /\ CountType BY TypeParts
  <2>2. GuiType' /\ ShownType' BY <1>1, <2>1, GuiTypeNext
  <2>3. QueueType' /\ WorkerType' /\ CountType'
    BY <1>1, <2>1, QueueTypeNext, WorkerTypeNext, CountTypeNext
  <2> QED BY <2>2, <2>3 DEF TypeOK, GuiType, ShownType, QueueType, WorkerType, CountType
<1>2. CASE UNCHANGED dashVars
  BY <1>2 DEF dashVars, gui, control, transport, paho, used, TypeOK
<1> QED BY <1>1, <1>2

\* The variables keep their types; the delay of the reconnection stays among
\* 1, 2, 4, ... 30 seconds.
THEOREM DashboardTypes == Spec => []TypeOK
<1>1. Init => TypeOK BY TypesInit
<1>2. TypeOK /\ [Next]_dashVars => TypeOK' BY TypesNext
<1> QED BY <1>1, <1>2, PTL DEF Spec

-----------------------------------------------------------------------------
(* Buttons, timer and pending command *)

LEMMA ControlNext ==
    ASSUME ControlConsistent, GuiType, QueueType, CountType, [Next]_dashVars
    PROVE  ControlConsistent'
<1>u. ASSUME UNCHANGED <<connected, control>> PROVE ControlConsistent'
  BY <1>u DEF ControlConsistent, control
<1>f. ASSUME NEW w, NEW c, Finish(w, c), buttons' = connected, UNCHANGED connected
      PROVE  ControlConsistent'
  BY <1>f, Zenon DEF Finish, ControlConsistent, GuiType
<1>1. CASE CommandTimedOut BY <1>1, <1>f DEF CommandTimedOut
<1>2. CASE HandleResponse BY <1>2, <1>f, <1>u DEF HandleResponse
<1>3. CASE HandlePublishFailure BY <1>3, <1>f, <1>u DEF HandlePublishFailure
<1>4. ASSUME NEW b \in BOOLEAN, SetConnected(b), connected' = b
      PROVE  ControlConsistent'
  <2>1. CASE pending = None
    BY <1>4, <2>1 DEF SetConnected, ControlConsistent
  <2>2. CASE pending # None /\ b
    BY <1>4, <2>2 DEF SetConnected, ControlConsistent, control
  <2>3. CASE pending # None /\ ~b
    BY <1>4, <2>3 DEF SetConnected, ControlConsistent, Finish
  <2> QED BY <2>1, <2>2, <2>3
<1>5. CASE ConnectionResult
  <2>1. Head(events).ok \in BOOLEAN
    BY <1>5, NextEventTyped, EventFields DEF ConnectionResult
  <2> QED BY <2>1, <1>4, <1>5 DEF ConnectionResult
<1>6. CASE TransportRecreated BY <1>4, <1>6 DEF TransportRecreated
<1>7. CASE Click
  <2>1. PICK v \in Values : pending' = [id |-> clicks + 1, value |-> v]
    BY <1>7 DEF Click
  <2>2. clicks + 1 \in 1..MaxCommands
    BY <1>7, DashboardAssumption DEF Click, CountType
  <2>3. pending' \in [id : 1..MaxCommands, value : Values] BY <2>1, <2>2, Zenon
  <2>4. pending' # None BY <2>3, DashboardAssumption
  <2>5. timer' = TRUE /\ buttons' = FALSE BY <1>7 DEF Click
  <2> QED BY <2>4, <2>5 DEF ControlConsistent
<1>8. CASE AttemptConnect \/ ToggleConnection \/ ApplySettings
  BY <1>8, <1>u DEF AttemptConnect, ToggleConnection, ApplySettings
<1>9. CASE \/ ConnectBroker \/ ConnectRefused \/ Subscribe \/ SubscribeFails \/ SetFlag
           \/ Announce \/ Publish \/ Published \/ PublishedLate \/ PublishFails
           \/ DisconnectBroker \/ Break \/ ConnectionLost \/ Answer \/ UNCHANGED dashVars
  BY <1>9, <1>u DEF ConnectBroker, ConnectRefused, Subscribe, SubscribeFails, SetFlag,
     Announce, Publish, Published, PublishedLate, PublishFails, DisconnectBroker, Break,
     ConnectionLost, Answer, Receive, dashVars, gui
<1> QED BY NextCases, <1>1, <1>2, <1>3, <1>5, <1>6, <1>7, <1>8, <1>9

\* The buttons are enabled exactly when the window is connected and nothing is
\* pending, and the timer runs exactly while something is, in every order of
\* answers, failures, timeouts, disconnections and changes of the settings.
THEOREM ControlAgrees == Spec => []ControlConsistent
<1>1. Init => TypeOK /\ ControlConsistent
  <2>1. Init => ControlConsistent BY DEF Init, ControlConsistent
  <2> QED BY <2>1, TypesInit
<1>2. TypeOK /\ ControlConsistent /\ [Next]_dashVars => (TypeOK /\ ControlConsistent)'
  BY TypesNext, ControlNext, TypeParts
<1> QED BY <1>1, <1>2, PTL DEF Spec

-----------------------------------------------------------------------------
(* The composition *)

\* The command a response is about.
Cmd(r) == [id |-> r.id, value |-> r.value]

\* Whatever the bridge holds came from the dashboard through the broker.
Flow ==
    /\ queue \in Seq(accepted)
    /\ handler.at # "idle" => handler.cmd \in accepted
    /\ slot # None => Cmd(slot) \in accepted
    /\ taken # None => Cmd(taken) \in accepted
    /\ \A i \in 1..Len(answers) : Cmd(answers[i]) \in accepted
    /\ read \in Nat

IsPublish(j) == j.do = "publish"

\* Ids grow on the way from the button to the broker: those of the queued
\* commands, of the command being published and of the broker's latest one.
Numbered ==
    /\ sent <= clicks
    /\ worker.at = "publishing" => sent < worker.cmd.id /\ worker.cmd.id <= clicks
    /\ \A i \in 1..Len(jobs) :
          IsPublish(jobs[i]) =>
              /\ sent < jobs[i].cmd.id /\ jobs[i].cmd.id <= clicks
              /\ worker.at = "publishing" => worker.cmd.id < jobs[i].cmd.id
    /\ \A i, j \in 1..Len(jobs) :
          i < j /\ IsPublish(jobs[i]) /\ IsPublish(jobs[j]) => jobs[i].cmd.id < jobs[j].cmd.id

\* Everything about the composition that the steps of either side rest on.
LoopInv == TypeOK /\ P!TypeInv /\ Flow /\ Numbered

\* The rest of a sequence, and one with an element added.
LEMMA RestOf ==
    ASSUME NEW S, NEW q \in Seq(S), q # <<>>
    PROVE  /\ 1 \in 1..Len(q) /\ Head(q) = q[1]
           /\ \A k \in 1..Len(Tail(q)) : Tail(q)[k] = q[k + 1] /\ k + 1 \in 2..Len(q)
OBVIOUS

LEMMA Appended ==
    ASSUME NEW S, NEW q \in Seq(S), NEW e
    PROVE  /\ Len(Append(q, e)) = Len(q) + 1 /\ Len(q) \in Nat
           /\ Append(q, e)[Len(q) + 1] = e
           /\ \A k \in 1..Len(q) : Append(q, e)[k] = q[k]
OBVIOUS

LEMMA BridgeAssumed == P!BridgeAssumption
BY LoopAssumption, DashboardAssumption
   DEF P!BridgeAssumption, B!LedStates, P!LedStates, B!Faults, P!Faults

LEMMA LoopToDashboard ==
    ASSUME LoopInv, [LoopNext]_loopVars PROVE [Next]_dashVars
<1>1. CASE UNCHANGED loopVars BY <1>1 DEF loopVars
<1>2. CASE DashboardStep
  BY <1>2 DEF DashboardStep, Next, Worker, Publishing
<1>3. CASE BridgeStep BY <1>3 DEF BridgeStep
<1>4. CASE Uplink BY <1>4 DEF Uplink, Next, Worker, Publishing
<1>5. CASE Downlink
  <2> DEFINE r == answers[read + 1]
  <2>1. CASE UNCHANGED dashVars BY <2>1
  <2>2. CASE Receive([id |-> r.id, value |-> r.value], r.ok)
    <3>1. read + 1 \in 1..Len(answers) BY <1>5 DEF Downlink, LoopInv, Flow
    <3>2. Cmd(r) \in accepted BY <3>1 DEF LoopInv, Flow
    <3>3. answers \in Seq(P!Responses) BY DEF LoopInv, P!TypeInv, P!DataType
    <3>4. r \in P!Responses BY <3>1, <3>3
    <3>5. r.ok \in BOOLEAN BY <3>4 DEF P!Responses
    <3> QED BY <2>2, <3>2, <3>5 DEF Next, Answer, Cmd
  <2> QED BY <2>1, <2>2, <1>5 DEF Downlink
<1> QED BY <1>1, <1>2, <1>3, <1>4, <1>5 DEF LoopNext

\* The command being published is newer than those before.
LEMMA NumberedNewer ==
    ASSUME LoopInv, worker.at = "publishing" PROVE worker.cmd.id > sent
<1>1. sent < worker.cmd.id BY DEF LoopInv, Numbered
<1>2. worker.cmd.id \in Int /\ sent \in Int
  BY WorkerFields, TypeParts DEF LoopInv, Cmds, P!TypeInv, P!DataType
<1> QED BY <1>1, <1>2

LEMMA LoopToBridge ==
    ASSUME LoopInv, [LoopNext]_loopVars PROVE [B!Next]_(B!vars)
<1>u. ASSUME UNCHANGED bridgeVars PROVE UNCHANGED B!vars
  BY <1>u DEF bridgeVars, B!vars
<1>1. CASE UNCHANGED loopVars BY <1>1, <1>u DEF loopVars
<1>2. CASE DashboardStep BY <1>2, <1>u DEF DashboardStep
<1>3. CASE BridgeStep BY <1>3 DEF BridgeStep, B!Next
<1>4. CASE Uplink
  <2>1. worker.at = "publishing" BY <1>4 DEF Uplink, Published, PublishedLate
  <2>2. worker.cmd \in Cmds BY <2>1, WorkerFields, TypeParts DEF LoopInv
  <2>3. worker.cmd \in B!Commands BY <2>2 DEF Cmds, B!Commands
  <2>4. worker.cmd.id > sent BY <2>1, NumberedNewer
  <2> QED BY <2>3, <2>4, <1>4 DEF Uplink, B!Next, B!Send, B!Arrive
<1>5. CASE Downlink BY <1>5, <1>u DEF Downlink
<1> QED BY <1>1, <1>2, <1>3, <1>4, <1>5 DEF LoopNext

-----------------------------------------------------------------------------
(* No step brings a command into the bridge that the broker does not have *)

\* Commands are kept, or lost with the session or the process.
FlowLost ==
    /\ queue' \in {queue, <<>>} /\ handler' \in {handler, B!Idle}
    /\ slot' \in {slot, None} /\ taken' \in {taken, None}
    /\ UNCHANGED <<answers, accepted, read>>

LEMMA LosingFlow == ASSUME Flow, FlowLost PROVE Flow'
<1>1. B!Idle.at = "idle" BY DEF B!Idle
<1>2. <<>> \in Seq(accepted) OBVIOUS
<1> QED BY <1>1, <1>2 DEF Flow, FlowLost, Cmd

\* The callback goes on with the command it has.
LEMMA HandlingFlow ==
    ASSUME Flow, handler.at # "idle", handler'.cmd = handler.cmd,
           UNCHANGED <<queue, slot, taken, answers, accepted, read>>
    PROVE  Flow'
BY DEF Flow, Cmd

LEMMA CallbackFlow ==
    ASSUME LoopInv, B!MessageArrived, UNCHANGED <<accepted, read>> PROVE Flow'
<1>h. P!HandlerType BY DEF LoopInv, P!TypeInv
<1>m. ASSUME handler.at # "idle",
             \/ handler' = [handler EXCEPT !.at = "report"]
             \/ handler' = [handler EXCEPT !.at = "brightness"]
             \/ handler' = [handler EXCEPT !.at = "report", !.ok = TRUE]
      PROVE  handler'.cmd = handler.cmd
  <2>1. handler = [at |-> handler.at, cmd |-> handler.cmd, ok |-> handler.ok]
    BY <1>h, <1>m, P!Handled, BridgeAssumed
  <2> QED BY <1>m, <2>1
<1>1. CASE B!Refuse BY <1>1, <1>m, HandlingFlow DEF B!Refuse, LoopInv
<1>2. CASE B!WriteTrigger BY <1>2, <1>m, HandlingFlow DEF B!WriteTrigger, LoopInv
<1>3. CASE B!WriteBrightness BY <1>3, <1>m, HandlingFlow DEF B!WriteBrightness, LoopInv
<1>4. CASE B!WriteFails BY <1>4, <1>m, HandlingFlow DEF B!WriteFails, LoopInv
<1>5. CASE B!QueueResponse
  <2>1. handler.at # "idle" BY <1>5 DEF B!QueueResponse
  <2>2. handler.cmd \in P!Commands
    BY <2>1, <1>h, P!Handled, BridgeAssumed
  <2>3. handler.cmd = [id |-> handler.cmd.id, value |-> handler.cmd.value]
    BY <2>2 DEF P!Commands
  <2>4. Cmd(slot') \in accepted
    BY <2>1, <2>3, <1>5 DEF B!QueueResponse, LoopInv, Flow, Cmd
  <2>5. handler'.at = "idle" /\ UNCHANGED <<queue, taken, answers>>
    BY <1>5 DEF B!QueueResponse, B!Idle
  <2> QED BY <2>4, <2>5 DEF LoopInv, Flow, Cmd
<1> QED BY <1>1, <1>2, <1>3, <1>4, <1>5 DEF B!MessageArrived

LEMMA DeliverFlow == ASSUME LoopInv, B!Deliver, UNCHANGED <<accepted, read>> PROVE Flow'
<1>1. queue \in Seq(accepted) /\ queue # <<>> BY DEF LoopInv, Flow, B!Deliver
<1>2. Head(queue) \in accepted /\ Tail(queue) \in Seq(accepted) BY <1>1
<1>3. handler'.cmd = Head(queue) /\ queue' \in {queue, Tail(queue)}
      /\ UNCHANGED <<slot, taken, answers>>
  BY DEF B!Deliver
<1> QED BY <1>1, <1>2, <1>3 DEF LoopInv, Flow, Cmd

LEMMA MainLoopFlow ==
    ASSUME LoopInv, B!MainLoop, UNCHANGED <<accepted, read>> PROVE Flow'
<1> USE DEF B!callback
<1>l. ASSUME FlowLost PROVE Flow' BY <1>l, LosingFlow DEF LoopInv
<1> USE DEF FlowLost
<1>1. CASE B!Loop BY <1>1, <1>l DEF B!Loop
<1>2. CASE B!Connect BY <1>2, <1>l DEF B!Connect
<1>3. CASE B!ConnectFails BY <1>3, <1>l DEF B!ConnectFails
<1>4. CASE B!Subscribe BY <1>4, <1>l DEF B!Subscribe
<1>5. CASE B!SubscribeFails BY <1>5, <1>l DEF B!SubscribeFails, B!CleanDisconnect
<1>6. CASE B!Announce BY <1>6, <1>l DEF B!Announce, B!CleanDisconnect
<1>7. CASE B!BackOff BY <1>7, <1>l DEF B!BackOff
<1>8. CASE B!TakeResponse
  <2>1. CASE slot = None BY <1>8, <2>1, <1>l DEF B!TakeResponse
  <2>2. CASE slot # None BY <1>8, <2>2 DEF B!TakeResponse, LoopInv, Flow, Cmd
  <2> QED BY <2>1, <2>2
<1>9. CASE B!PublishResponse
  <2>1. CASE answers' = answers BY <1>9, <2>1, <1>l DEF B!PublishResponse
  <2>2. CASE answers' = Append(answers, taken)
    <3>1. answers \in Seq(P!Responses) BY DEF LoopInv, P!TypeInv, P!DataType
    <3>2. taken # None BY <1>9 DEF B!PublishResponse, LoopInv, P!TypeInv, P!Carried
    <3>3. Cmd(taken) \in accepted BY <3>2 DEF LoopInv, Flow
    <3>4. \A i \in 1..Len(answers') : answers'[i] = taken \/ (i \in 1..Len(answers)
                                                              /\ answers'[i] = answers[i])
      BY <2>2, <3>1
    <3>5. \A i \in 1..Len(answers') : Cmd(answers'[i]) \in accepted
      BY <3>3, <3>4 DEF LoopInv, Flow, Cmd
    <3>6. UNCHANGED <<queue, handler, slot>> /\ taken' = None
      BY <1>9 DEF B!PublishResponse
    <3> QED BY <3>5, <3>6 DEF LoopInv, Flow, Cmd
  <2> QED BY <1>9, <2>1, <2>2 DEF B!PublishResponse
<1>10. CASE B!Rest BY <1>10, <1>l DEF B!Rest
<1>11. CASE B!Goodbye BY <1>11, <1>l DEF B!Goodbye
<1>12. CASE B!Leave BY <1>12, <1>l DEF B!Leave, B!CleanDisconnect
<1> QED BY <1>1, <1>2, <1>3, <1>4, <1>5, <1>6, <1>7, <1>8, <1>9, <1>10, <1>11, <1>12
        DEF B!MainLoop

LEMMA UplinkFlow == ASSUME LoopInv, Uplink PROVE Flow'
<1>1. accepted' = accepted \cup {worker.cmd} BY DEF Uplink, Published, PublishedLate
<1>2. queue' \in {queue, Append(queue, worker.cmd)}
      /\ UNCHANGED <<handler, slot, taken, answers, read>>
  BY DEF Uplink, B!Take
<1>3. queue \in Seq(accepted) BY DEF LoopInv, Flow
<1>4. queue \in Seq(accepted') BY <1>1, <1>3
<1>5. Append(queue, worker.cmd) \in Seq(accepted') BY <1>1, <1>4
<1> QED BY <1>1, <1>2, <1>4, <1>5 DEF LoopInv, Flow, Cmd

LEMMA FlowNext == ASSUME LoopInv, [LoopNext]_loopVars PROVE Flow'
<1>l. ASSUME FlowLost PROVE Flow' BY <1>l, LosingFlow DEF LoopInv
<1>1. CASE UNCHANGED loopVars
  <2>1. FlowLost BY <1>1 DEF loopVars, bridgeVars, dashVars, paho, FlowLost
  <2> QED BY <2>1, <1>l
<1>2. CASE DashboardStep
  <2>1. UNCHANGED accepted
    <3> USE DEF paho
    <3>1. CASE Gui
      BY <3>1 DEF Gui, CommandTimedOut, AttemptConnect, ConnectionResult, HandleResponse,
                  HandlePublishFailure, TransportRecreated
    <3>2. CASE User BY <3>2 DEF User, Click, ToggleConnection, ApplySettings
    <3>3. CASE Connecting
      BY <3>3 DEF Connecting, ConnectBroker, ConnectRefused, Subscribe, SubscribeFails,
                  SetFlag, Announce
    <3>4. CASE Publish \/ PublishFails \/ DisconnectBroker \/ Break \/ ConnectionLost
      BY <3>4 DEF Publish, PublishFails, DisconnectBroker, Break, ConnectionLost
    <3> QED BY <1>2, <3>1, <3>2, <3>3, <3>4 DEF DashboardStep
  <2>2. FlowLost BY <1>2, <2>1 DEF DashboardStep, bridgeVars, FlowLost
  <2> QED BY <2>2, <1>l
<1>3. CASE BridgeStep
  <2>1. UNCHANGED <<accepted, read>> BY <1>3 DEF BridgeStep, dashVars, paho
  <2>2. CASE B!MainLoop BY <2>1, <2>2, MainLoopFlow
  <2>3. CASE B!MessageArrived BY <2>1, <2>3, CallbackFlow
  <2>4. CASE B!Deliver BY <2>1, <2>4, DeliverFlow
  <2>5. CASE B!Notice \/ B!BrokerNotices \/ B!Environment
    <3>1. FlowLost
      BY <2>1, <2>5 DEF B!Notice, B!BrokerNotices, B!Environment, B!Break, B!Stop, B!Kill,
                        B!callback, FlowLost
    <3> QED BY <3>1, <1>l
  <2> QED BY <1>3, <2>2, <2>3, <2>4, <2>5 DEF BridgeStep
<1>4. CASE Uplink BY <1>4, UplinkFlow
<1>5. CASE Downlink
  <2>1. UNCHANGED accepted BY <1>5 DEF Downlink, Receive, dashVars, paho
  <2>2. read' \in Nat /\ UNCHANGED <<queue, handler, slot, taken, answers>>
    BY <1>5 DEF Downlink, LoopInv, Flow, bridgeVars
  <2> QED BY <2>1, <2>2 DEF LoopInv, Flow, Cmd
<1> QED BY <1>1, <1>2, <1>3, <1>4, <1>5 DEF LoopNext

-----------------------------------------------------------------------------
(* The order of the commands *)

\* A job that is not a command joins, or nothing does; the worker may stop.
LEMMA NumberedOther ==
    ASSUME QueueType, Numbered, UNCHANGED <<sent, clicks>>,
           worker'.at = "publishing" => worker' = worker,
           jobs' = jobs \/ \E d \in {"connect", "disconnect"} : Post([do |-> d])
    PROVE  Numbered'
<1>1. CASE jobs' = jobs BY <1>1 DEF Numbered
<1>2. ASSUME NEW d \in {"connect", "disconnect"}, Post([do |-> d]) PROVE Numbered'
  <2> DEFINE j == [do |-> d]
  <2>1. ~IsPublish(j) BY DEF IsPublish
  <2>2. /\ Len(jobs') = Len(jobs) + 1 /\ Len(jobs) \in Nat /\ jobs'[Len(jobs) + 1] = j
        /\ \A i \in 1..Len(jobs) : jobs'[i] = jobs[i]
    BY <1>2, Appended DEF QueueType, Post
  <2>3. \A i \in 1..Len(jobs') :
            IsPublish(jobs'[i]) => i \in 1..Len(jobs) /\ jobs'[i] = jobs[i]
    BY <2>1, <2>2
  <2> HIDE DEF j
  <2> QED BY <2>3 DEF Numbered
<1> QED BY <1>1, <1>2

\* The worker takes a job from the queue.
LEMMA NumberedRest ==
    ASSUME QueueType, Numbered, UNCHANGED <<sent, clicks>>, worker.at # "publishing",
           jobs # <<>>, jobs' = Tail(jobs),
           worker'.at = "publishing" => IsPublish(jobs[1]) /\ worker'.cmd = jobs[1].cmd
    PROVE  Numbered'
<1>1. \A i \in 1..Len(jobs') : jobs'[i] = jobs[i + 1] /\ i + 1 \in 1..Len(jobs) /\ 1 < i + 1
  BY RestOf DEF QueueType
<1>2. 1 \in 1..Len(jobs) BY RestOf DEF QueueType
<1>3. worker'.at = "publishing" => sent < worker'.cmd.id /\ worker'.cmd.id <= clicks
  BY <1>2 DEF Numbered
<1>4. ASSUME NEW i \in 1..Len(jobs'), IsPublish(jobs'[i])
      PROVE  /\ sent < jobs'[i].cmd.id /\ jobs'[i].cmd.id <= clicks
             /\ worker'.at = "publishing" => worker'.cmd.id < jobs'[i].cmd.id
  BY <1>1, <1>2, <1>4 DEF Numbered
<1>5. ASSUME NEW i \in 1..Len(jobs'), NEW j \in 1..Len(jobs'), i < j,
             IsPublish(jobs'[i]), IsPublish(jobs'[j])
      PROVE  jobs'[i].cmd.id < jobs'[j].cmd.id
  <2>1. i + 1 < j + 1 BY <1>5
  <2> QED BY <1>1, <1>5, <2>1 DEF Numbered
<1> QED BY <1>3, <1>4, <1>5 DEF Numbered

LEMMA NumberedClick ==
    ASSUME QueueType, CountType, WorkerType, sent \in Int, Numbered, UNCHANGED sent, Click
    PROVE  Numbered'
<1>1. PICK v \in Values : Post([do |-> "publish", cmd |-> [id |-> clicks + 1, value |-> v]])
  BY DEF Click
<1>2. clicks' = clicks + 1 /\ clicks \in Nat /\ UNCHANGED worker
  BY DashboardAssumption DEF Click, CountType, paho
<1> DEFINE e == [do |-> "publish", cmd |-> [id |-> clicks + 1, value |-> v]]
<1>3. e.cmd.id = clicks + 1 OBVIOUS
<1>4. /\ Len(jobs') = Len(jobs) + 1 /\ Len(jobs) \in Nat /\ jobs'[Len(jobs) + 1] = e
      /\ \A i \in 1..Len(jobs) : jobs'[i] = jobs[i]
  BY <1>1, Appended DEF QueueType, Post
<1> HIDE DEF e
<1>5. \A i \in 1..Len(jobs) : IsPublish(jobs[i]) => jobs[i].cmd.id \in Int
  BY JobTypes DEF QueueType, IsPublish, Cmds
<1>6. worker.at = "publishing" => worker.cmd.id \in Int BY WorkerFields DEF Cmds
<1>7. sent' <= clicks' BY <1>2 DEF Numbered
<1>8. worker'.at = "publishing" => sent' < worker'.cmd.id /\ worker'.cmd.id <= clicks'
  BY <1>2, <1>6 DEF Numbered
<1>9. ASSUME NEW i \in 1..Len(jobs'), IsPublish(jobs'[i])
      PROVE  /\ sent' < jobs'[i].cmd.id /\ jobs'[i].cmd.id <= clicks'
             /\ worker'.at = "publishing" => worker'.cmd.id < jobs'[i].cmd.id
  <2>1. CASE i \in 1..Len(jobs) BY <1>2, <1>4, <1>5, <1>9, <2>1 DEF Numbered
  <2>2. CASE i = Len(jobs) + 1 BY <1>2, <1>3, <1>4, <1>6, <2>2 DEF Numbered
  <2> QED BY <1>4, <2>1, <2>2
<1>10. ASSUME NEW i \in 1..Len(jobs'), NEW j \in 1..Len(jobs'), i < j,
              IsPublish(jobs'[i]), IsPublish(jobs'[j])
       PROVE  jobs'[i].cmd.id < jobs'[j].cmd.id
  <2>1. i \in 1..Len(jobs) /\ jobs'[i] = jobs[i] BY <1>4, <1>10
  <2>2. CASE j \in 1..Len(jobs) BY <1>4, <1>10, <2>1, <2>2 DEF Numbered
  <2>3. CASE j = Len(jobs) + 1
    <3>1. jobs[i].cmd.id \in Int /\ jobs[i].cmd.id <= clicks BY <1>5, <1>10, <2>1 DEF Numbered
    <3> QED BY <1>2, <1>3, <1>4, <2>1, <2>3, <3>1
  <2> QED BY <1>4, <2>2, <2>3
<1> QED BY <1>7, <1>8, <1>9, <1>10 DEF Numbered

LEMMA NumberedNext ==
    ASSUME LoopInv, [LoopNext]_loopVars PROVE Numbered'
<1>t. QueueType /\ CountType /\ WorkerType /\ sent \in Int
  BY TypeParts DEF LoopInv, P!TypeInv, P!DataType
<1>n. Numbered BY DEF LoopInv
<1>1. CASE UNCHANGED loopVars
  BY <1>1, <1>t, <1>n, NumberedOther DEF loopVars, dashVars, paho, used, bridgeVars
<1>2. CASE DashboardStep
  <2>s. UNCHANGED sent BY <1>2 DEF DashboardStep, bridgeVars
  <2>1. CASE Click BY <1>t, <1>n, <2>1, <2>s, NumberedClick
  <2>2. CASE AttemptConnect \/ ToggleConnection \/ ApplySettings \/ TransportRecreated
    BY <1>t, <1>n, <2>2, <2>s, NumberedOther DEF AttemptConnect, ToggleConnection, ApplySettings,
       TransportRecreated, ConnectToBroker, paho, used
  <2>3. CASE CommandTimedOut \/ ConnectionResult \/ HandleResponse \/ HandlePublishFailure
    BY <1>t, <1>n, <2>3, <2>s, NumberedOther DEF CommandTimedOut, ConnectionResult, HandleResponse,
       HandlePublishFailure, paho, used
  <2>4. CASE Subscribe \/ SubscribeFails \/ SetFlag \/ Announce \/ PublishFails \/ Break
             \/ ConnectionLost
    <3>1. UNCHANGED <<jobs, clicks>>
      BY <2>4 DEF Subscribe, SubscribeFails, SetFlag, Announce, PublishFails, Break,
         ConnectionLost, used
    <3>2. \/ worker' \in {worker, Free}
          \/ worker' \in {[at |-> "connected", cmd |-> None], [at |-> "announcing", cmd |-> None]}
      BY <2>4 DEF Subscribe, SubscribeFails, SetFlag, Announce, PublishFails, Break,
         ConnectionLost
    <3>3. worker'.at = "publishing" => worker' = worker BY <3>2 DEF Free
    <3> QED BY <1>t, <1>n, <2>s, <3>1, <3>3, NumberedOther
  <2>5. CASE ConnectBroker \/ ConnectRefused \/ DisconnectBroker
    <3>1. worker = Free /\ jobs # <<>> /\ jobs' = Tail(jobs) /\ UNCHANGED clicks
      BY <2>5 DEF ConnectBroker, ConnectRefused, DisconnectBroker, NextJob, used
    <3>2. worker' = worker \/ worker' = [at |-> "subscribing", cmd |-> None]
      BY <2>5 DEF ConnectBroker, ConnectRefused, DisconnectBroker
    <3>3. worker.at # "publishing" /\ worker'.at # "publishing" BY <3>1, <3>2 DEF Free
    <3> QED BY <1>t, <1>n, <2>s, <3>1, <3>3, NumberedRest
  <2>6. CASE Publish
    <3>1. jobs # <<>> /\ jobs' = Tail(jobs) /\ worker = Free /\ UNCHANGED clicks
      BY <2>6 DEF Publish, NextJob, used
    <3>2. Head(jobs) = jobs[1] BY <1>t, <3>1, RestOf DEF QueueType
    <3>3. IsPublish(jobs[1]) BY <2>6, <3>2 DEF Publish, NextJob, IsPublish
    <3>4. worker' = worker \/ worker'.cmd = jobs[1].cmd BY <2>6, <3>2 DEF Publish
    <3>5. worker.at # "publishing" BY <3>1 DEF Free
    <3> QED BY <1>t, <1>n, <2>s, <3>1, <3>3, <3>4, <3>5, NumberedRest
  <2> QED
    BY <1>2, <2>1, <2>2, <2>3, <2>4, <2>5, <2>6
       DEF DashboardStep, Gui, User, Connecting
<1>3. CASE BridgeStep
  <2>1. UNCHANGED <<jobs, worker, clicks>> BY <1>3 DEF BridgeStep, dashVars, paho, used
  <2>2. UNCHANGED sent
    <3> USE DEF B!callback
    <3>1. CASE B!MainLoop
      BY <3>1 DEF B!MainLoop, B!Loop, B!Connect, B!ConnectFails, B!Subscribe,
         B!SubscribeFails, B!Announce, B!BackOff, B!TakeResponse, B!PublishResponse, B!Rest,
         B!Goodbye, B!Leave
    <3>2. CASE B!MessageArrived \/ B!Deliver
      BY <3>2 DEF B!MessageArrived, B!Refuse, B!WriteTrigger, B!WriteBrightness,
         B!WriteFails, B!QueueResponse, B!Deliver
    <3>3. CASE B!Notice \/ B!BrokerNotices \/ B!Environment
      BY <3>3 DEF B!Notice, B!BrokerNotices, B!Environment, B!Break, B!Stop, B!Kill
    <3> QED BY <1>3, <3>1, <3>2, <3>3 DEF BridgeStep
  <2> QED BY <1>t, <1>n, <2>1, <2>2, NumberedOther
<1>4. CASE Uplink
  <2>1. worker.at = "publishing" /\ worker' = Free /\ UNCHANGED <<jobs, clicks>>
        /\ sent' = worker.cmd.id
    BY <1>4 DEF Uplink, Published, PublishedLate, B!Take, used
  <2>2. worker'.at # "publishing" BY <2>1 DEF Free
  <2> QED BY <1>n, <2>1, <2>2 DEF Numbered
<1>5. CASE Downlink
  <2>1. UNCHANGED <<jobs, worker, clicks, sent>>
    BY <1>5 DEF Downlink, Receive, dashVars, paho, used, bridgeVars
  <2> QED BY <1>t, <1>n, <2>1, NumberedOther
<1> QED BY <1>1, <1>2, <1>3, <1>4, <1>5 DEF LoopNext

-----------------------------------------------------------------------------

\* The same actions under the two names.
LEMMA SameNext == B!Next <=> P!Next
<1> USE DEF B!main, B!broker, B!callback, B!Spend, B!Publication, B!CleanDisconnect, B!Idle,
        P!main, P!broker, P!callback, P!Spend, P!Publication, P!CleanDisconnect, P!Idle
<1>1. B!Loop <=> P!Loop BY Zenon DEF B!Loop, P!Loop
<1>2. B!Connect <=> P!Connect BY Zenon DEF B!Connect, P!Connect
<1>3. B!ConnectFails <=> P!ConnectFails BY Zenon DEF B!ConnectFails, P!ConnectFails
<1>4. B!Subscribe <=> P!Subscribe BY Zenon DEF B!Subscribe, P!Subscribe
<1>5. B!SubscribeFails <=> P!SubscribeFails BY Zenon DEF B!SubscribeFails, P!SubscribeFails
<1>6. B!Announce <=> P!Announce BY Zenon DEF B!Announce, P!Announce
<1>7. B!BackOff <=> P!BackOff BY Zenon DEF B!BackOff, P!BackOff
<1>8. B!TakeResponse <=> P!TakeResponse BY Zenon DEF B!TakeResponse, P!TakeResponse
<1>9. B!PublishResponse <=> P!PublishResponse BY Zenon DEF B!PublishResponse, P!PublishResponse
<1>10. B!Rest <=> P!Rest BY Zenon DEF B!Rest, P!Rest
<1>11. B!Goodbye <=> P!Goodbye BY Zenon DEF B!Goodbye, P!Goodbye
<1>12. B!Leave <=> P!Leave BY Zenon DEF B!Leave, P!Leave
<1>13. B!Refuse <=> P!Refuse BY Zenon DEF B!Refuse, P!Refuse
<1>14. B!WriteTrigger <=> P!WriteTrigger BY Zenon DEF B!WriteTrigger, P!WriteTrigger
<1>15. B!WriteBrightness <=> P!WriteBrightness BY Zenon DEF B!WriteBrightness, P!WriteBrightness
<1>16. B!WriteFails <=> P!WriteFails BY Zenon DEF B!WriteFails, P!WriteFails
<1>17. B!QueueResponse <=> P!QueueResponse BY Zenon DEF B!QueueResponse, P!QueueResponse
<1>18. B!Break <=> P!Break BY Zenon DEF B!Break, P!Break
<1>19. B!Stop <=> P!Stop BY Zenon DEF B!Stop, P!Stop
<1>20. B!Kill <=> P!Kill BY Zenon DEF B!Kill, P!Kill
<1>21. B!Deliver <=> P!Deliver BY Zenon DEF B!Deliver, P!Deliver
<1>22. B!Notice <=> P!Notice BY Zenon DEF B!Notice, P!Notice
<1>23. B!BrokerNotices <=> P!BrokerNotices BY Zenon DEF B!BrokerNotices, P!BrokerNotices
<1>24. B!Send <=> P!Send BY Zenon DEF B!Send, P!Send, B!Arrive, P!Arrive, B!Take, P!Take,
        B!Commands, P!Commands
<1> QED
  BY <1>1, <1>2, <1>3, <1>4, <1>5, <1>6, <1>7, <1>8, <1>9, <1>10, <1>11, <1>12,
     <1>13, <1>14, <1>15, <1>16, <1>17, <1>18, <1>19, <1>20, <1>21, <1>22, <1>23,
     <1>24
  DEF B!Next, P!Next, B!MainLoop, P!MainLoop, B!MessageArrived, P!MessageArrived,
      B!Environment, P!Environment

LEMMA LoopInvInit == ASSUME LoopInit PROVE LoopInv
<1>1. TypeOK BY TypesInit DEF LoopInit
<1>2. B!Init BY DEF LoopInit
<1>3. P!Init BY <1>2 DEF B!Init, P!Init, B!Idle, P!Idle, B!LedStates, P!LedStates
<1>4. P!TypeInv
  BY <1>3, P!TypesInit, P!WireInit, BridgeAssumed DEF P!TypeInv
<1>5. <<>> \in Seq(accepted) OBVIOUS
<1>6. Flow BY <1>2, <1>5 DEF LoopInit, B!Init, B!Idle, Flow
<1>7. Numbered BY <1>2 DEF LoopInit, Init, B!Init, Numbered, Free
<1> QED BY <1>1, <1>4, <1>6, <1>7 DEF LoopInv

LEMMA LoopInvNext == ASSUME LoopInv, [LoopNext]_loopVars PROVE LoopInv'
<1>1. TypeOK' BY LoopToDashboard, TypesNext DEF LoopInv
<1>b. [P!Next]_(P!vars) BY LoopToBridge, SameNext DEF B!vars, P!vars
<1>2. P!TypeInv' BY <1>b, P!TypeInvNext, BridgeAssumed DEF LoopInv
<1>3. Flow' /\ Numbered' BY FlowNext, NumberedNext
<1> QED BY <1>1, <1>2, <1>3 DEF LoopInv

\* With the real bridge behind the broker in place of an environment that may
\* answer anything, the dashboard does only what its own module says.
THEOREM LoopImplementsDashboard == LoopSpec => DashboardImplemented
<1>1. LoopInit => Init BY DEF LoopInit
<1>2. LoopInit => LoopInv BY LoopInvInit
<1>3. LoopInv /\ [LoopNext]_loopVars => LoopInv' BY LoopInvNext
<1>4. LoopInv /\ [LoopNext]_loopVars => [Next]_dashVars BY LoopToDashboard
<1> QED BY <1>1, <1>2, <1>3, <1>4, PTL DEF LoopSpec, DashboardImplemented, Spec

\* Commands reach the broker in the order of the clicks and each of them once,
\* for any number of commands, timeouts, failures and reconnections.
THEOREM CommandsComeInOrder == LoopSpec => CommandsInOrder
<1>1. LoopInit => LoopInv BY LoopInvInit
<1>2. LoopInv /\ [LoopNext]_loopVars => LoopInv' BY LoopInvNext
<1>3. LoopInv => (Uplink => worker.cmd.id > sent)
  BY NumberedNewer DEF Uplink, Published, PublishedLate
<1>4. LoopInv => [Uplink => worker.cmd.id > sent]_loopVars BY <1>3
<1> QED BY <1>1, <1>2, <1>4, PTL DEF LoopSpec, CommandsInOrder

\* With the dashboard in place of a sender of its own, the bridge does only what
\* its own module says, whose environment sends ever newer commands: what is
\* proved of the bridge holds in the closed loop.
THEOREM LoopImplementsBridge == LoopSpec => B!Spec
<1>1. LoopInit => B!Init BY DEF LoopInit
<1>2. LoopInit => LoopInv BY LoopInvInit
<1>3. LoopInv /\ [LoopNext]_loopVars => LoopInv' BY LoopInvNext
<1>4. LoopInv /\ [LoopNext]_loopVars => [B!Next]_(B!vars) BY LoopToBridge
<1> QED BY <1>1, <1>2, <1>3, <1>4, PTL DEF LoopSpec, B!Spec

-----------------------------------------------------------------------------
(* What the dashboard shows is what the LED does *)

\* The bridge has answered this.
Reported(c, ok) ==
    \E i \in 1..Len(answers) : Cmd(answers[i]) = c /\ answers[i].ok = ok

Told(e) == e.is = "answer" => Reported(e.cmd, e.ok)

\* The dashboard has its answers from the bridge, and shows no other success.
Heard ==
    /\ \A i \in 1..Len(events) : Told(events[i])
    /\ shown.what = "success" => Reported(shown.cause, TRUE)

LedInv == LoopInv /\ P!Truthful /\ Heard

-----------------------------------------------------------------------------
(* The way of an answer *)

\* What the bridge has answered stays answered.
LEMMA ReportedKept ==
    ASSUME LoopInv, [LoopNext]_loopVars, NEW c, NEW ok, Reported(c, ok)
    PROVE  Reported(c, ok)'
<1>1. [P!Next]_(P!vars) BY LoopToBridge, SameNext DEF B!vars, P!vars
<1>2. P!Carried BY DEF LoopInv, P!TypeInv
<1>3. answers' = answers \/ (taken # None /\ answers' = Append(answers, taken))
  BY <1>1, <1>2, P!Stations, BridgeAssumed
<1>4. answers \in Seq(P!Responses) BY DEF LoopInv, P!TypeInv, P!DataType
<1>5. \A i \in 1..Len(answers) : i \in 1..Len(answers') /\ answers'[i] = answers[i]
  BY <1>3, <1>4, Appended
<1> QED BY <1>5 DEF Reported, Cmd

\* What is in the GUI's queue stays, or goes; a signal that is true comes.
LEMMA EventsHeard ==
    ASSUME QueueType, Heard, \A e : Told(e) => Told(e)',
           \/ events' \in {events, <<>>} \/ (events # <<>> /\ events' = Tail(events))
           \/ \E e \in Events : Emit(e) /\ Told(e)
    PROVE  \A i \in 1..Len(events') : Told(events[i])'
<1>h. \A i \in 1..Len(events) : Told(events[i]) BY DEF Heard
<1>k. \A e : Told(e) => (e.is = "answer" =>
                  \E i \in 1..Len(answers') : Cmd(answers'[i]) = e.cmd /\ answers'[i].ok = e.ok)
  BY DEF Told, Reported, Cmd
<1>s. SUFFICES ASSUME NEW i \in 1..Len(events') PROVE Told(events'[i])
  BY <1>k DEF Told, Reported, Cmd
<1>1. CASE events' \in {events, <<>>} BY <1>h, <1>1
<1>2. CASE events # <<>> /\ events' = Tail(events)
  <2>1. \E j \in 1..Len(events) : events'[i] = events[j] BY <1>2, RestOf DEF QueueType
  <2> QED BY <1>h, <2>1
<1>3. ASSUME NEW e \in Events, Emit(e), Told(e) PROVE Told(events'[i])
  <2>1. events'[i] = e \/ (i \in 1..Len(events) /\ events'[i] = events[i])
    BY <1>3, Appended DEF QueueType, Emit
  <2> QED BY <1>h, <1>3, <2>1
<1> QED BY <1>1, <1>2, <1>3

\* The GUI thread takes a signal, or the settings drop them all; a success is
\* shown for an answer the GUI has.
LEMMA GuiHeard ==
    ASSUME LoopInv, Heard, \A e : Told(e) => Told(e)',
           \A c : Reported(c, TRUE) => Reported(c, TRUE)', Gui \/ User
    PROVE  Heard'
<1>t. QueueType /\ GuiType BY TypeParts DEF LoopInv
<1>e. events' \in {events, <<>>} \/ (events # <<>> /\ events' = Tail(events))
  <2>1. CASE CommandTimedOut \/ AttemptConnect \/ TransportRecreated
    BY <2>1 DEF CommandTimedOut, AttemptConnect, TransportRecreated
  <2>2. CASE ConnectionResult \/ HandleResponse \/ HandlePublishFailure
    BY <2>2 DEF ConnectionResult, HandleResponse, HandlePublishFailure, NextEvent
  <2>3. CASE User BY <2>3 DEF User, Click, ToggleConnection, ApplySettings
  <2> QED BY <2>1, <2>2, <2>3 DEF Gui
<1>1. \A i \in 1..Len(events') : Told(events[i])' BY <1>t, <1>e, EventsHeard
<1>f. ASSUME NEW w, NEW c, Finish(w, c), w = "success" => Reported(c, TRUE)
      PROVE  shown'.what = "success" => Reported(shown.cause, TRUE)'
  <2>1. shown' = [what |-> w, asked |-> pending, cause |-> c] BY <1>f DEF Finish
  <2>2. shown'.what = w /\ shown'.cause = c BY <2>1
  <2>3. Reported(c, TRUE) => \E i \in 1..Len(answers') : Cmd(answers'[i]) = c /\ answers'[i].ok = TRUE
    BY DEF Reported, Cmd
  <2> QED BY <1>f, <2>2, <2>3 DEF Reported, Cmd
<1>u. ASSUME UNCHANGED shown PROVE shown'.what = "success" => Reported(shown.cause, TRUE)'
  BY <1>u DEF Heard, Reported, Cmd
<1>c. ASSUME NEW b \in BOOLEAN, SetConnected(b)
      PROVE  shown'.what = "success" => Reported(shown.cause, TRUE)'
  BY <1>c, <1>f, <1>u DEF SetConnected, control
<1>2. shown'.what = "success" => Reported(shown.cause, TRUE)'
  <2>1. CASE CommandTimedOut BY <2>1, <1>f DEF CommandTimedOut
  <2>2. CASE AttemptConnect \/ ToggleConnection \/ ApplySettings
    BY <2>2, <1>u DEF AttemptConnect, ToggleConnection, ApplySettings, control
  <2>3. CASE ConnectionResult
    <3>1. Head(events).ok \in BOOLEAN
      BY <1>t, <2>3, NextEventTyped, EventFields DEF ConnectionResult
    <3> QED BY <2>3, <3>1, <1>c DEF ConnectionResult
  <2>4. CASE HandleResponse
    <3>1. CASE UNCHANGED control BY <3>1, <1>u DEF control
    <3>2. CASE Finish(IF Head(events).ok THEN "success" ELSE "failed", Head(events).cmd)
      <4>1. events # <<>> /\ Head(events).is = "answer" /\ Head(events) \in Events
        BY <1>t, <2>4, NextEventTyped DEF HandleResponse, NextEvent
      <4>2. Head(events) = events[1] /\ 1 \in 1..Len(events)
        BY <1>t, <4>1, RestOf DEF QueueType
      <4>3. Reported(Head(events).cmd, Head(events).ok) BY <4>1, <4>2 DEF Heard, Told
      <4>4. Head(events).ok \in BOOLEAN BY <4>1, EventFields
      <4> QED BY <3>2, <4>3, <4>4, <1>f
    <3> QED BY <2>4, <3>1, <3>2 DEF HandleResponse
  <2>5. CASE HandlePublishFailure
    BY <2>5, <1>f, <1>u DEF HandlePublishFailure, control
  <2>6. CASE TransportRecreated BY <2>6, <1>c DEF TransportRecreated
  <2>7. CASE Click
    <3>1. shown'.what = "waiting" BY <2>7 DEF Click
    <3> QED BY <3>1
  <2> QED BY <2>1, <2>2, <2>3, <2>4, <2>5, <2>6, <2>7 DEF Gui, User
<1> QED BY <1>1, <1>2 DEF Heard

LEMMA HeardNext == ASSUME LoopInv, Heard, [LoopNext]_loopVars PROVE Heard'
<1>t. QueueType /\ GuiType /\ WorkerType BY TypeParts DEF LoopInv
<1>r. \A c, ok : Reported(c, ok) => Reported(c, ok)' BY ReportedKept
<1>k. \A e : Told(e) => Told(e)'
  <2>1. SUFFICES ASSUME NEW e, Told(e) PROVE Told(e)'
    OBVIOUS
  <2> QED BY <2>1, <1>r DEF Told
<1>s. ASSUME UNCHANGED shown PROVE shown'.what = "success" => Reported(shown.cause, TRUE)'
  <2>1. ASSUME NEW c, Reported(c, TRUE)
        PROVE  \E i \in 1..Len(answers') : Cmd(answers'[i]) = c /\ answers'[i].ok = TRUE
    <3>1. Reported(c, TRUE)' BY <1>r, <2>1
    <3> QED BY <3>1 DEF Reported, Cmd
  <2> QED BY <1>s, <2>1 DEF Heard, Reported, Cmd
<1>u. ASSUME UNCHANGED <<events, shown>> PROVE Heard'
  <2>1. \A i \in 1..Len(events') : Told(events[i])' BY <1>k, <1>t, <1>u, EventsHeard
  <2> QED BY <2>1, <1>s, <1>u DEF Heard
<1>e. ASSUME NEW e \in Events, Emit(e), Told(e), UNCHANGED shown PROVE Heard'
  <2>1. \A i \in 1..Len(events') : Told(events[i])' BY <1>k, <1>t, <1>e, EventsHeard
  <2> QED BY <2>1, <1>s, <1>e DEF Heard
<1>p. ASSUME NEW c \in Cmds PROVE LET e == [is |-> "publishError", cmd |-> c]
                                  IN  e \in Events /\ Told(e)
  BY EventTypes DEF Told
<1>q. ASSUME NEW b \in BOOLEAN PROVE Result(b) \in Events /\ Told(Result(b))
  BY EventTypes DEF Told, Result
<1>1. CASE UNCHANGED loopVars BY <1>1, <1>u DEF loopVars, dashVars, gui, control
<1>2. CASE DashboardStep
  <2>1. CASE Gui \/ User BY <2>1, <1>k, <1>r, GuiHeard
  <2>2. CASE ConnectBroker \/ Subscribe \/ SetFlag \/ Break
    BY <2>2, <1>u DEF ConnectBroker, Subscribe, SetFlag, Break, gui, control
  <2>3. CASE ConnectRefused \/ SubscribeFails \/ DisconnectBroker \/ ConnectionLost
    BY <2>3, <1>e, <1>q DEF ConnectRefused, SubscribeFails, DisconnectBroker, ConnectionLost,
       gui, control
  <2>4. CASE Announce BY <2>4, <1>e, <1>q DEF Announce, gui, control
  <2>5. CASE Publish
    <3>1. Head(jobs).cmd \in Cmds BY <1>t, <2>5, NextJobTyped, JobTypes DEF Publish
    <3>2. UNCHANGED shown BY <2>5 DEF Publish, gui, control
    <3>3. UNCHANGED events \/ Emit([is |-> "publishError", cmd |-> Head(jobs).cmd])
      BY <2>5 DEF Publish
    <3> QED BY <3>1, <3>2, <3>3, <1>e, <1>p, <1>u
  <2>6. CASE PublishFails
    <3>1. worker.cmd \in Cmds BY <1>t, <2>6, WorkerFields DEF PublishFails
    <3> QED BY <2>6, <3>1, <1>e, <1>p DEF PublishFails, gui, control
  <2> QED
    BY <1>2, <2>1, <2>2, <2>3, <2>4, <2>5, <2>6 DEF DashboardStep, Connecting
<1>3. CASE BridgeStep BY <1>3, <1>u DEF BridgeStep, dashVars, gui, control
<1>4. CASE Uplink
  <2>1. worker.cmd \in Cmds BY <1>4, <1>t, WorkerFields DEF Uplink, Published, PublishedLate
  <2>2. CASE Published BY <2>2, <1>u DEF Published, gui, control
  <2>3. CASE PublishedLate BY <2>1, <2>3, <1>e, <1>p DEF PublishedLate, gui, control
  <2> QED BY <1>4, <2>2, <2>3 DEF Uplink
<1>5. CASE Downlink
  <2> DEFINE r == answers[read + 1]
             e == [is |-> "answer", cmd |-> [id |-> r.id, value |-> r.value], ok |-> r.ok]
  <2>1. read + 1 \in 1..Len(answers) BY <1>5 DEF Downlink, LoopInv, Flow
  <2>2. CASE UNCHANGED dashVars BY <2>2, <1>u DEF dashVars, gui, control
  <2>3. CASE Receive([id |-> r.id, value |-> r.value], r.ok)
    <3>1. Cmd(r) \in Cmds BY <2>1, <1>t DEF LoopInv, Flow, WorkerType
    <3>2. answers \in Seq(P!Responses) BY DEF LoopInv, P!TypeInv, P!DataType
    <3>3. r \in P!Responses BY <2>1, <3>2
    <3>4. r.ok \in BOOLEAN BY <3>3 DEF P!Responses
    <3>5. e \in Events BY <3>1, <3>4, EventTypes DEF Cmd
    <3>6. Reported(Cmd(r), r.ok) BY <2>1 DEF Reported
    <3>7. Told(e) BY <3>6 DEF Told, Cmd
    <3>8. Emit(e) /\ UNCHANGED shown BY <2>3 DEF Receive, gui, control
    <3> QED BY <3>5, <3>7, <3>8, <1>e
  <2> QED BY <1>5, <2>2, <2>3 DEF Downlink
<1> QED BY <1>1, <1>2, <1>3, <1>4, <1>5 DEF LoopNext

-----------------------------------------------------------------------------

LEMMA LedInvInit == ASSUME LoopInit PROVE LedInv
<1>1. LoopInv BY LoopInvInit
<1>2. B!Init BY DEF LoopInit
<1>3. P!Init BY <1>2 DEF B!Init, P!Init, B!Idle, P!Idle, B!LedStates, P!LedStates
<1>4. P!Truthful BY <1>3, P!TruthfulInit, BridgeAssumed
<1>5. Heard BY DEF LoopInit, Init, Heard
<1> QED BY <1>1, <1>4, <1>5 DEF LedInv

LEMMA LedInvNext == ASSUME LedInv, [LoopNext]_loopVars PROVE LedInv'
<1>1. LoopInv' BY LoopInvNext DEF LedInv
<1>2. [P!Next]_(P!vars) BY LoopToBridge, SameNext DEF LedInv, B!vars, P!vars
<1>3. P!Truthful' BY <1>2, P!TruthfulNext, BridgeAssumed DEF LedInv, LoopInv
<1>4. Heard' BY HeardNext DEF LedInv
<1> QED BY <1>1, <1>3, <1>4 DEF LedInv

LEMMA LedInvariant == LoopSpec => []LedInv
<1>1. LoopInit => LedInv BY LedInvInit
<1>2. LedInv /\ [LoopNext]_loopVars => LedInv' BY LedInvNext
<1> QED BY <1>1, <1>2, PTL DEF LoopSpec

\* A success that the window shows as the answer to the newest command is what
\* the LED does, for any number of commands, redeliveries, failed writes, lost
\* connections and restarts of the bridge.
THEOREM SuccessShownIsTrue == LoopSpec => []SuccessMeansLed
<1>1. LedInv => SuccessMeansLed
  <2> SUFFICES ASSUME LedInv, shown.what = "success", shown.cause = shown.asked,
                      shown.asked.id = clicks
               PROVE  led = shown.asked.value
    BY DEF SuccessMeansLed
  <2>1. Reported(shown.cause, TRUE) BY DEF LedInv, Heard
  <2>2. PICK i \in 1..Len(answers) : Cmd(answers[i]) = shown.cause /\ answers[i].ok = TRUE
    BY <2>1 DEF Reported
  <2>3. answers[i].id = clicks /\ answers[i].value = shown.asked.value BY <2>2 DEF Cmd
  <2>4. P!Settled(answers[i]) BY DEF LedInv, P!Truthful, P!AllSettled
  <2>5. answers[i].id <= sent BY <2>4 DEF P!Settled, P!NotAfter
  <2>6. sent <= clicks BY DEF LedInv, LoopInv, Numbered
  <2>7. sent \in Int /\ clicks \in Int
    BY DashboardAssumption, TypeParts DEF LedInv, LoopInv, CountType, P!TypeInv, P!DataType
  <2>8. answers[i].id = sent BY <2>3, <2>5, <2>6, <2>7
  <2> QED BY <2>2, <2>3, <2>4, <2>8 DEF P!Settled
<1> QED BY <1>1, LedInvariant, PTL
=============================================================================
