--------------------------- MODULE DashboardLink ---------------------------
(***************************************************************************)
(* The MQTT dashboard on the PC: the control page, the main window and the *)
(* transport, which live in the GUI thread; the worker thread that makes   *)
(* the blocking calls of the MQTT library; and the thread of that library, *)
(* which reports messages and the loss of the connection.  The GUI calls   *)
(* the worker, and is called back, through the event queues of Qt.         *)
(*                                                                         *)
(* A command has an id here that the code does not have: the dashboard     *)
(* tells answers apart by the LED value alone.                             *)
(***************************************************************************)
EXTENDS Naturals, Sequences

CONSTANTS Values,          \* LED values
          MaxCommands,     \* bound on the commands
          MaxToggles,      \* bound on uses of the connect button
          MaxApplies,      \* bound on changes of the settings
          MaxEvents,       \* bound on the messages waiting for the GUI
          MaxRefusals,     \* bound on refused connections
          MaxBreaks,       \* bound on broken connections
          MaxSlows,        \* bound on acknowledgements later than 5 s
          None

ASSUME DashboardAssumption ==
    /\ MaxCommands \in Nat /\ MaxToggles \in Nat /\ MaxApplies \in Nat
    /\ MaxEvents \in Nat \ {0}
    /\ MaxRefusals \in Nat /\ MaxBreaks \in Nat /\ MaxSlows \in Nat
    /\ None \notin [id : 1..MaxCommands, value : Values]

VARIABLES
    desired,    \* m_connectionRequested and m_desiredConnected
    connected,  \* m_connected of the main window and of the control page
    pending,    \* m_pendingValue, with the id of its command
    timer,      \* m_timeout of the control page is active
    buttons,    \* the command buttons are enabled
    shown,      \* the outcome shown: what, of which command, caused by which
    retry,      \* m_retryTimer is active
    backoff,    \* m_retryDelaySeconds
    applying,   \* the GUI waits for the worker to shut down
    jobs,       \* slots queued for the worker
    worker,     \* what the worker is doing
    flag,       \* m_connected of the worker
    client,     \* the MQTT client
    events,     \* signals queued for the GUI
    accepted,   \* commands the broker has taken
    clicks, toggles, applies, refusals, breaks, slows

control == <<pending, timer, buttons, shown>>
transport == <<desired, retry, backoff>>
gui == <<connected, control, transport, applying>>
paho == <<worker, flag, client, accepted>>
used == <<clicks, toggles, applies, refusals, breaks, slows>>
dashVars == <<gui, jobs, paho, events, used>>

Cmds == [id : 1..MaxCommands, value : Values]
Jobs == [do : {"connect", "disconnect"}] \cup [do : {"publish"}, cmd : Cmds]
Events == [is : {"result"}, ok : BOOLEAN]
     \cup [is : {"answer"}, cmd : Cmds, ok : BOOLEAN]
     \cup [is : {"publishError"}, cmd : Cmds]
Outcomes == {"none", "waiting", "success", "failed", "timeout", "publishError",
             "disconnected"}
Free == [at |-> "idle", cmd |-> None]

TypeOK ==
    /\ desired \in BOOLEAN /\ connected \in BOOLEAN
    /\ pending \in Cmds \cup {None} /\ timer \in BOOLEAN /\ buttons \in BOOLEAN
    /\ shown \in [what : Outcomes, asked : Cmds \cup {None}, cause : Cmds \cup {None}]
    /\ retry \in BOOLEAN /\ backoff \in {1, 2, 4, 8, 16, 30}
    /\ applying \in BOOLEAN
    /\ jobs \in Seq(Jobs) /\ events \in Seq(Events)
    /\ worker \in [at : {"idle", "subscribing", "connected", "announcing"}, cmd : {None}]
             \cup [at : {"publishing"}, cmd : Cmds]
    /\ flag \in BOOLEAN /\ client \in {"none", "open", "broken", "lost"}
    /\ accepted \subseteq Cmds
    /\ clicks \in 0..MaxCommands /\ toggles \in 0..MaxToggles /\ applies \in 0..MaxApplies
    /\ refusals \in 0..MaxRefusals /\ breaks \in 0..MaxBreaks /\ slows \in 0..MaxSlows

Init ==
    /\ desired = FALSE /\ connected = FALSE
    /\ pending = None /\ timer = FALSE /\ buttons = FALSE
    /\ shown = [what |-> "none", asked |-> None, cause |-> None]
    /\ retry = FALSE /\ backoff = 1 /\ applying = FALSE
    /\ jobs = <<>> /\ events = <<>> /\ worker = Free
    /\ flag = FALSE /\ client = "none" /\ accepted = {}
    /\ clicks = 0 /\ toggles = 0 /\ applies = 0
    /\ refusals = 0 /\ breaks = 0 /\ slows = 0

Post(j) == jobs' = Append(jobs, j)
Emit(e) == events' = Append(events, e)
Result(b) == [is |-> "result", ok |-> b]

-----------------------------------------------------------------------------
(* The GUI thread *)

\* Mutant: the timer of an earlier command is kept.
MutantClick ==
    /\ ~applying /\ buttons /\ connected /\ clicks < MaxCommands
    /\ \E v \in Values :
          LET c == [id |-> clicks + 1, value |-> v]
          IN  /\ pending' = c /\ buttons' = FALSE
              /\ shown' = [what |-> "waiting", asked |-> c, cause |-> None]
              /\ Post([do |-> "publish", cmd |-> c])
    /\ clicks' = clicks + 1
    /\ UNCHANGED <<timer, connected, transport, applying, paho, events, toggles, applies,
                   refusals, breaks, slows>>

\* A command button: handleLedCommand and beginCommand.
Click ==
    /\ ~applying /\ buttons /\ connected /\ clicks < MaxCommands
    /\ \E v \in Values :
          LET c == [id |-> clicks + 1, value |-> v]
          IN  /\ pending' = c /\ timer' = TRUE /\ buttons' = FALSE
              /\ shown' = [what |-> "waiting", asked |-> c, cause |-> None]
              /\ Post([do |-> "publish", cmd |-> c])
    /\ clicks' = clicks + 1
    /\ UNCHANGED <<connected, transport, applying, paho, events, toggles, applies,
                   refusals, breaks, slows>>

\* The pending command is over; "why" is what is shown for it.
Finish(why, cause) ==
    /\ pending' = None /\ timer' = FALSE
    /\ shown' = [what |-> why, asked |-> pending, cause |-> cause]

\* Mutant: the buttons stay as they are.
MutantCommandTimedOut ==
    /\ ~applying /\ timer
    /\ Finish("timeout", None) /\ UNCHANGED buttons
    /\ UNCHANGED <<connected, transport, applying, jobs, paho, events, used>>

\* commandTimedOut
CommandTimedOut ==
    /\ ~applying /\ timer
    /\ Finish("timeout", None) /\ buttons' = connected
    /\ UNCHANGED <<connected, transport, applying, jobs, paho, events, used>>

\* connectToBroker
ConnectToBroker ==
    /\ desired' = TRUE /\ backoff' = 1 /\ retry' = FALSE
    /\ Post([do |-> "connect"])

\* toggleConnection, requestConnection and disconnectFromBroker
ToggleConnection ==
    /\ ~applying /\ toggles < MaxToggles /\ toggles' = toggles + 1
    /\ IF desired
       THEN /\ desired' = FALSE /\ retry' = FALSE /\ UNCHANGED backoff
            /\ Post([do |-> "disconnect"])
       ELSE ConnectToBroker
    /\ UNCHANGED <<connected, control, applying, paho, events, clicks, applies,
                   refusals, breaks, slows>>

\* m_retryTimer fires: attemptConnect.
AttemptConnect ==
    /\ ~applying /\ retry /\ retry' = FALSE
    /\ IF desired THEN Post([do |-> "connect"]) ELSE UNCHANGED jobs
    /\ UNCHANGED <<connected, control, desired, backoff, applying, paho, events, used>>

NextEvent(is) == ~applying /\ events # <<>> /\ Head(events).is = is /\ events' = Tail(events)

\* setConnected of the control page
SetConnected(b) ==
    IF pending = None THEN buttons' = b /\ UNCHANGED <<pending, timer, shown>>
    ELSE IF b THEN UNCHANGED control
    ELSE Finish("disconnected", None) /\ UNCHANGED buttons

\* Mutant: a success stops the retry timer.
MutantConnectionResult ==
    /\ NextEvent("result")
    /\ LET up == Head(events).ok
       IN  /\ connected' = up /\ SetConnected(up)
           /\ IF up THEN backoff' = 1 /\ retry' = FALSE
              ELSE IF desired /\ ~retry
              THEN retry' = TRUE /\ backoff' = IF backoff * 2 > 30 THEN 30 ELSE backoff * 2
              ELSE UNCHANGED <<retry, backoff>>
    /\ UNCHANGED <<desired, applying, jobs, paho, used>>

\* handleConnectionChanged, then the rest of handleConnectionResult: the
\* retry timer is started on a failure and not stopped on a success.
ConnectionResult ==
    /\ NextEvent("result")
    /\ LET up == Head(events).ok
       IN  /\ connected' = up /\ SetConnected(up)
           /\ IF up THEN backoff' = 1 /\ UNCHANGED retry
              ELSE IF desired /\ ~retry
              THEN retry' = TRUE /\ backoff' = IF backoff * 2 > 30 THEN 30 ELSE backoff * 2
              ELSE UNCHANGED <<retry, backoff>>
    /\ UNCHANGED <<desired, applying, jobs, paho, used>>

\* handleMessage and handleResponse: only the value is compared.
HandleResponse ==
    /\ NextEvent("answer")
    /\ LET r == Head(events)
       IN  IF pending # None /\ r.cmd.value = pending.value
           THEN /\ Finish(IF r.ok THEN "success" ELSE "failed", r.cmd)
                /\ buttons' = connected
           ELSE UNCHANGED control
    /\ UNCHANGED <<connected, transport, applying, jobs, paho, used>>

\* handlePublishFailure: whatever command is pending.
HandlePublishFailure ==
    /\ NextEvent("publishError")
    /\ IF pending # None
       THEN Finish("publishError", Head(events).cmd) /\ buttons' = connected
       ELSE UNCHANGED control
    /\ UNCHANGED <<connected, transport, applying, jobs, paho, used>>

\* recreateTransport, first half: the destructor waits for the worker.
ApplySettings ==
    /\ ~applying /\ applies < MaxApplies /\ applies' = applies + 1
    /\ applying' = TRUE /\ desired' = FALSE /\ retry' = FALSE
    /\ Post([do |-> "disconnect"])
    /\ UNCHANGED <<connected, control, backoff, paho, events, clicks, toggles,
                   refusals, breaks, slows>>

\* ... second half: a new transport, connected again when that is set.
TransportRecreated ==
    /\ applying /\ jobs = <<>> /\ worker = Free
    /\ applying' = FALSE /\ connected' = FALSE /\ events' = <<>>
    /\ SetConnected(FALSE)
    /\ \/ ConnectToBroker
       \/ backoff' = 1 /\ UNCHANGED <<desired, retry, jobs>>
    /\ UNCHANGED <<paho, used>>

-----------------------------------------------------------------------------
(* The worker thread *)

NextJob(do) == worker = Free /\ jobs # <<>> /\ Head(jobs).do = do /\ jobs' = Tail(jobs)

\* connectBroker up to MQTTClient_connect; it begins with shutdown().
ConnectBroker ==
    /\ NextJob("connect")
    /\ client' = "open" /\ flag' = FALSE
    /\ worker' = [at |-> "subscribing", cmd |-> None]
    /\ UNCHANGED <<gui, events, accepted, used>>

ConnectRefused ==
    /\ NextJob("connect") /\ refusals < MaxRefusals /\ refusals' = refusals + 1
    /\ client' = "none" /\ flag' = FALSE /\ Emit(Result(FALSE))
    /\ UNCHANGED <<gui, worker, accepted, clicks, toggles, applies, breaks, slows>>

Subscribe ==
    /\ worker.at = "subscribing" /\ client = "open"
    /\ worker' = [at |-> "connected", cmd |-> None]
    /\ UNCHANGED <<gui, jobs, events, flag, client, accepted, used>>

SubscribeFails ==
    /\ worker.at = "subscribing"
    /\ IF client = "open" THEN refusals < MaxRefusals /\ refusals' = refusals + 1
                          ELSE UNCHANGED refusals
    /\ client' = "none" /\ flag' = FALSE /\ worker' = Free /\ Emit(Result(FALSE))
    /\ UNCHANGED <<gui, jobs, accepted, clicks, toggles, applies, breaks, slows>>

\* m_connected = true, whatever has become of the connection meanwhile.
SetFlag ==
    /\ worker.at = "connected"
    /\ flag' = TRUE /\ worker' = [at |-> "announcing", cmd |-> None]
    /\ UNCHANGED <<gui, jobs, events, client, accepted, used>>

Announce ==
    /\ worker.at = "announcing" /\ worker' = Free /\ Emit(Result(TRUE))
    /\ UNCHANGED <<gui, jobs, flag, client, accepted, used>>

DisconnectBroker ==
    /\ NextJob("disconnect")
    /\ client' = "none" /\ flag' = FALSE /\ Emit(Result(FALSE))
    /\ UNCHANGED <<gui, worker, accepted, used>>

\* publish: refused without a connection, else wait up to 5 s for the PUBACK.
Publish ==
    /\ NextJob("publish")
    /\ LET c == Head(jobs).cmd
       IN  IF client # "none" /\ flag
           THEN worker' = [at |-> "publishing", cmd |-> c] /\ UNCHANGED events
           ELSE Emit([is |-> "publishError", cmd |-> c]) /\ UNCHANGED worker
    /\ UNCHANGED <<gui, flag, client, accepted, used>>

\* The broker has the command and says so in time; publishOk only changes the
\* footer line.
Published ==
    /\ worker.at = "publishing" /\ client = "open"
    /\ accepted' = accepted \cup {worker.cmd} /\ worker' = Free
    /\ UNCHANGED <<gui, jobs, events, flag, client, used>>

\* Mutant: what was not acknowledged is sent again.
MutantPublishedLate ==
    /\ worker.at = "publishing" /\ client = "open"
    /\ slows < MaxSlows /\ slows' = slows + 1
    /\ accepted' = accepted \cup {worker.cmd} /\ UNCHANGED worker
    /\ Emit([is |-> "publishError", cmd |-> worker.cmd])
    /\ UNCHANGED <<gui, jobs, flag, client, clicks, toggles, applies, refusals, breaks>>

\* The broker has the command and the PUBACK comes too late.
PublishedLate ==
    /\ worker.at = "publishing" /\ client = "open"
    /\ slows < MaxSlows /\ slows' = slows + 1
    /\ accepted' = accepted \cup {worker.cmd} /\ worker' = Free
    /\ Emit([is |-> "publishError", cmd |-> worker.cmd])
    /\ UNCHANGED <<gui, jobs, flag, client, clicks, toggles, applies, refusals, breaks>>

PublishFails ==
    /\ worker.at = "publishing" /\ client # "open" /\ worker' = Free
    /\ Emit([is |-> "publishError", cmd |-> worker.cmd])
    /\ UNCHANGED <<gui, jobs, flag, client, accepted, used>>

-----------------------------------------------------------------------------
(* The network and the library's thread *)

Break ==
    /\ client = "open" /\ breaks < MaxBreaks
    /\ client' = "broken" /\ breaks' = breaks + 1
    /\ UNCHANGED <<gui, jobs, events, worker, flag, accepted, clicks, toggles, applies,
                   refusals, slows>>

\* connectionLostCallback, once for each connection
ConnectionLost ==
    /\ client = "broken" /\ client' = "lost" /\ flag' = FALSE
    /\ Emit(Result(FALSE))
    /\ UNCHANGED <<gui, jobs, worker, accepted, used>>

\* messageArrivedCallback with the response to command c
Receive(c, ok) ==
    /\ client = "open" /\ Len(events) < MaxEvents
    /\ Emit([is |-> "answer", cmd |-> c, ok |-> ok])
    /\ UNCHANGED <<gui, jobs, worker, flag, client, accepted, used>>

\* Any command the broker has may be answered, at any time and again.
Answer == \E c \in accepted, ok \in BOOLEAN : Receive(c, ok)

-----------------------------------------------------------------------------
Gui == \/ CommandTimedOut \/ AttemptConnect \/ ConnectionResult \/ HandleResponse
       \/ HandlePublishFailure \/ TransportRecreated
User == Click \/ ToggleConnection \/ ApplySettings
Connecting == ConnectBroker \/ ConnectRefused \/ Subscribe \/ SubscribeFails \/ SetFlag
              \/ Announce
Publishing == Publish \/ Published \/ PublishedLate \/ PublishFails
Worker == Connecting \/ Publishing \/ DisconnectBroker

Next == Gui \/ User \/ Worker \/ Break \/ ConnectionLost \/ Answer

Spec == Init /\ [][Next]_dashVars

(* The event loops run and the timers fire; a user does nothing of himself,   *)
(* the network need not fail and the broker need not answer.                  *)
Fairness ==
    /\ WF_dashVars(Worker) /\ WF_dashVars(ConnectionLost)
    /\ WF_dashVars(CommandTimedOut) /\ WF_dashVars(AttemptConnect)
    /\ WF_dashVars(ConnectionResult \/ HandleResponse \/ HandlePublishFailure)
    /\ WF_dashVars(TransportRecreated)
FairSpec == Spec /\ Fairness

-----------------------------------------------------------------------------
(* Properties *)

\* The command buttons are enabled exactly when the window is connected and no
\* command is pending, and a pending command always has its timer running:
\* every way out of a command (answer, failed publication, timeout, loss of
\* the connection, new settings) sets the three together (controlpage.cpp).
ControlConsistent ==
    /\ buttons = (connected /\ pending = None)
    /\ timer = (pending # None)

\* Every command comes to an end although its answer may be lost
\* (m_timeout, 5 s).
CommandEnds == (pending # None) ~> (pending = None)

\* When the user, the network and the broker are quiet, the window shows the
\* truth and the truth is what the user asked for.  The connection may be lost
\* between the last subscription and "m_connected = true": the loss is then
\* reported before the success, and it is the retry timer, still running
\* after the success, that brings the connection back (mqtttransport.cpp).
ViewSettles == <>[](connected = desired /\ (client = "open") = desired)
=============================================================================
