--------------------------- MODULE TelemetryChain ---------------------------
(***************************************************************************)
(* The way of a reading to the display: the STM32 node sends CAN frames,   *)
(* the sensor client keeps a state file, the i.MX6ULL gateway samples the  *)
(* file and sends it over TCP, the T113 receiver keeps a state file, LVGL  *)
(* polls that.  Five processes on three boards, each with its own idea of  *)
(* what is old.                                                            *)
(*                                                                         *)
(* Time is time(NULL): Tick is the change of the second, and the code's    *)
(* differences of seconds are the ages kept here.  A process that runs     *)
(* more often than once a second has run when the second changes; what     *)
(* waits longer has a timer.  A reading is the flag "online" of the node.  *)
(***************************************************************************)
EXTENDS Naturals, Sequences

CONSTANTS
    OfflineAfter,     \* 3 s, stm32_can_sensor_client.c:436
    ClientPeriod,     \* ticks within which the client's select returns, 1
    SocketTimeout,    \* 8 s, both ends
    ConnectTimeout,   \* 3 s
    ReconnectMax,     \* 8 s, back-off from 1
    StaleAfter,       \* 3 s, GATEWAY_STATE_STALE_SECONDS
    MaxConns,         \* connections the receiver's backlog holds
    BufferFrames,     \* frames that fit the sender's socket buffer
    MaxHeard,         \* bound: ages above it are not told apart
    MaxFaults,        \* bound on what fails
    MaxStops          \* bound on stops of the sensor client

\* What a flag taken from the client's file can be late.
SourceLimit == OfflineAfter + ClientPeriod

ASSUME ChainAssumption ==
    /\ OfflineAfter \in Nat /\ StaleAfter \in Nat
    /\ ClientPeriod \in Nat \ {0} /\ SocketTimeout \in Nat \ {0}
    /\ ConnectTimeout \in Nat /\ ReconnectMax \in Nat \ {0}
    /\ MaxConns \in Nat \ {0} /\ BufferFrames \in Nat \ {0}
    /\ MaxFaults \in Nat /\ MaxStops \in Nat
    /\ MaxHeard \in Nat
    /\ MaxHeard > SourceLimit + SocketTimeout * (MaxConns + MaxFaults) + StaleAfter + 1

VARIABLES
    node,        \* the STM32 sends frames
    heard,       \* seconds since a client took a valid frame
    client,      \* [up, online, idle, wrote]: alive, state.online, seconds
                 \*   since its last loop, state written in this second
    canFile,     \* STM32_CAN_STATE: "none" or the flag in it
    gateway,     \* [pc, fd, timer, delay]
    link,        \* Ethernet carries packets
    conns,       \* TCP connections at the receiver, oldest first: [frames, open]
    receiver,    \* [up, serving, idle, wrote]
    dispFile,    \* the T113 state file: [online, stm32], and
    dispAge,     \*   seconds since it was written
    view,        \* what the main page shows: [imx6ull, stm32]
    polled,      \* LVGL has polled in this second
    faults, stops

vars == <<node, heard, client, canFile, gateway, link, conns, receiver,
          dispFile, dispAge, view, polled, faults, stops>>
canSide == <<node, heard, client, canFile, stops>>
display == <<dispFile, dispAge, view, polled>>

Frames == [stm32 : BOOLEAN, age : Nat]

TypeOK ==
    /\ node \in BOOLEAN /\ heard \in 0..MaxHeard
    /\ client \in [up : BOOLEAN, online : BOOLEAN, idle : 0..ClientPeriod, wrote : BOOLEAN]
    /\ canFile \in {"none", "online", "offline"}
    /\ gateway \in [pc : {"loop", "send", "dead"}, fd : {"none", "joined", "reset", "refused"},
                    timer : Nat, delay : 1..ReconnectMax]
    /\ link \in BOOLEAN
    /\ conns \in Seq([frames : Seq(Frames), open : BOOLEAN]) /\ Len(conns) <= MaxConns
    /\ receiver \in [up : BOOLEAN, serving : BOOLEAN, idle : 0..SocketTimeout, wrote : BOOLEAN]
    /\ dispFile \in [online : BOOLEAN, stm32 : BOOLEAN] /\ dispAge \in 0..StaleAfter+1
    /\ view \in [imx6ull : BOOLEAN, stm32 : BOOLEAN] /\ polled \in BOOLEAN
    /\ faults \in 0..MaxFaults /\ stops \in 0..MaxStops

OfflineFile == [online |-> FALSE, stm32 |-> FALSE]
Older(n, limit) == IF n < limit THEN n + 1 ELSE n

\* The processes start; the receiver may still have a connection of a gateway
\* whose board has lost power.
Init ==
    /\ node = TRUE /\ heard = MaxHeard
    /\ client = [up |-> TRUE, online |-> FALSE, idle |-> 0, wrote |-> TRUE]
    /\ canFile = "offline"
    /\ gateway = [pc |-> "loop", fd |-> "none", timer |-> 0, delay |-> 1]
    /\ link = TRUE
    /\ conns \in {<<>>, <<[frames |-> <<>>, open |-> TRUE]>>}
    /\ receiver = [up |-> TRUE, serving |-> FALSE, idle |-> 0, wrote |-> FALSE]
    /\ dispFile = OfflineFile /\ dispAge = 0
    /\ view = [imx6ull |-> FALSE, stm32 |-> FALSE] /\ polled = TRUE
    /\ faults = 0 /\ stops = 0

----------------------------------------------------------------------------
(* Sensor client *)

TimedOut == client.online /\ heard > OfflineAfter
FlagOf(online) == IF online THEN "online" ELSE "offline"

\* Mutant: the offline check is made when select times out only.
MutantClientLoop(frame) ==
    LET silent == frame = "none" /\ TimedOut
        online == frame = "valid" \/ (client.online /\ ~silent)
    IN  /\ client.up
        /\ frame # "none" => node
        /\ heard' = IF frame = "valid" THEN 0 ELSE heard
        /\ canFile' = IF frame # "none" /\ ~client.wrote THEN FlagOf(online)
                      ELSE IF silent THEN "offline" ELSE canFile
        /\ client' = [client EXCEPT !.online = online, !.idle = 0,
                                    !.wrote = @ \/ frame # "none"]
        /\ UNCHANGED <<node, gateway, link, conns, receiver, display, faults, stops>>

\* One pass of the loop: the offline check, which writes at once, comes before
\* the frame.  A frame with a wrong checksum changes no state but is published.
ClientLoop(frame) ==
    LET online == \/ frame = "valid"
                  \/ client.online /\ ~TimedOut
    IN  /\ client.up
        /\ frame # "none" => node
        /\ heard' = IF frame = "valid" THEN 0 ELSE heard
        /\ canFile' = IF frame # "none" /\ ~client.wrote THEN FlagOf(online)
                      ELSE IF TimedOut THEN "offline" ELSE canFile
        /\ client' = [client EXCEPT !.online = online, !.idle = 0,
                                    !.wrote = @ \/ frame # "none"]
        /\ UNCHANGED <<node, gateway, link, conns, receiver, display, faults, stops>>

\* SIGTERM by stop_client.sh, or a crash: the file stays.
ClientStops ==
    /\ client.up /\ stops < MaxStops
    /\ stops' = stops + 1
    /\ client' = [client EXCEPT !.up = FALSE, !.online = FALSE, !.idle = 0]
    /\ UNCHANGED <<node, heard, canFile, gateway, link, conns, receiver, display, faults>>

\* start_client.sh removes the file; the client writes an empty state first.
ClientStarts ==
    /\ ~client.up
    /\ client' = [client EXCEPT !.up = TRUE, !.wrote = TRUE]
    /\ canFile' = "offline"
    /\ UNCHANGED <<node, heard, gateway, link, conns, receiver, display, faults, stops>>

----------------------------------------------------------------------------
(* Gateway *)

Last == Len(conns)
Snapshot == [stm32 |-> canFile = "online", age |-> 0]
Double(d) == IF 2 * d < ReconnectMax THEN 2 * d ELSE ReconnectMax
Sleep(n, pc, fd) == gateway' = [gateway EXCEPT !.pc = pc, !.fd = fd, !.timer = n]
Awake(pc) == gateway.pc = pc /\ gateway.timer = 0

\* What the gateway leaves behind when it gives a connection up: the frames in
\* the socket buffer, not the one that send() was still waiting with.
Buffered(frames) ==
    SubSeq(frames, 1, IF Len(frames) < BufferFrames THEN Len(frames) ELSE BufferFrames)
GiveUp(open) ==
    conns' = [conns EXCEPT ![Last] = [frames |-> Buffered(@.frames), open |-> open]]

\* connect() fails or runs into its timeout; the delay doubles.
ConnectFails ==
    /\ Awake("loop") /\ gateway.fd = "none"
    /\ ~link \/ ~receiver.up \/ Last = MaxConns
    /\ gateway' = [gateway EXCEPT !.timer = @ + gateway.delay
                                      + (IF receiver.up THEN ConnectTimeout ELSE 0),
                                  !.delay = Double(@)]
    /\ UNCHANGED <<canSide, link, conns, receiver, display, faults>>

\* connect() succeeds once the connection is in the backlog; the same pass
\* samples and sends.  A pass takes its interval of a second, or a little more.
Connect ==
    /\ Awake("loop") /\ gateway.fd = "none"
    /\ link /\ receiver.up /\ Last < MaxConns
    /\ conns' = Append(conns, [frames |-> <<Snapshot>>, open |-> TRUE])
    /\ \E pause \in 1..2 :
          gateway' = [gateway EXCEPT !.fd = "joined", !.timer = pause, !.delay = 1]
    /\ UNCHANGED <<canSide, link, receiver, display, faults>>

\* send() returns when the frame is in the socket buffer, else it waits.
SendData ==
    /\ Awake("loop") /\ gateway.fd = "joined"
    /\ conns' = [conns EXCEPT ![Last].frames = Append(@, Snapshot)]
    /\ IF Len(conns[Last].frames) < BufferFrames
       THEN \E pause \in 1..2 : Sleep(pause, "loop", "joined")
       ELSE Sleep(SocketTimeout, "send", "joined")
    /\ UNCHANGED <<canSide, link, receiver, display, faults>>

\* Room in time.
SendReturns ==
    /\ gateway.pc = "send"
    /\ gateway.fd = "joined" => Len(conns[Last].frames) <= BufferFrames
    /\ \E pause \in 1..2 : Sleep(pause, "loop", gateway.fd)
    /\ UNCHANGED <<canSide, link, conns, receiver, display, faults>>

\* SO_SNDTIMEO; close() sends what is buffered and a FIN.
SendTimesOut ==
    /\ Awake("send") /\ gateway.fd = "joined"
    /\ Len(conns[Last].frames) > BufferFrames
    /\ GiveUp(FALSE)
    /\ Sleep(1, "loop", "none")
    /\ UNCHANGED <<canSide, link, receiver, display, faults>>

\* Mutant: a failed send does not close the socket.
MutantSendOnReset ==
    /\ gateway.fd \in {"reset", "refused"} /\ Awake("loop")
    /\ Sleep(1, "loop", "refused")
    /\ UNCHANGED <<canSide, link, conns, receiver, display, faults>>

\* The receiver has closed, or does not know the connection any more.  A first
\* send is still accepted and lost; what comes back fails the next one.
SendOnReset ==
    /\ gateway.fd \in {"reset", "refused"} /\ Awake("loop")
    /\ \/ Sleep(1, "loop", "none")
       \/ /\ gateway.fd = "reset"
          /\ \E pause \in 1..2 : Sleep(pause, "loop", IF link THEN "refused" ELSE "reset")
    /\ UNCHANGED <<canSide, link, conns, receiver, display, faults>>

----------------------------------------------------------------------------
(* T113 receiver *)

Serving == receiver.serving
Front == conns[1]

Accept ==
    /\ receiver.up /\ ~Serving /\ conns # <<>>
    /\ receiver' = [receiver EXCEPT !.serving = TRUE, !.idle = 0]
    /\ dispFile' = OfflineFile /\ dispAge' = 0        \* waiting_data
    /\ UNCHANGED <<canSide, gateway, link, conns, view, polled, faults>>

\* A DATA frame; the state is written at most once a second.
Receive ==
    /\ Serving /\ link /\ Front.frames # <<>>
    /\ conns' = [conns EXCEPT ![1].frames = Tail(@)]
    /\ receiver' = [receiver EXCEPT !.idle = 0, !.wrote = TRUE]
    /\ IF receiver.wrote THEN UNCHANGED <<dispFile, dispAge>>
       ELSE dispAge' = 0 /\ dispFile' = [online |-> TRUE, stm32 |-> Head(Front.frames).stm32]
    /\ UNCHANGED <<canSide, gateway, link, view, polled, faults>>

\* The end of handle_client.
CloseClient ==
    /\ conns' = Tail(conns)
    /\ gateway' = [gateway EXCEPT !.fd = IF @ = "joined" /\ Last = 1 THEN "reset" ELSE @]
    /\ receiver' = [receiver EXCEPT !.serving = FALSE]
    /\ dispFile' = OfflineFile /\ dispAge' = 0
    /\ UNCHANGED <<canSide, link, view, polled>>

Disconnected == Serving /\ link /\ Front.frames = <<>> /\ ~Front.open
                /\ CloseClient /\ UNCHANGED faults
ReceiveTimeout == Serving /\ receiver.idle = SocketTimeout
                  /\ CloseClient /\ UNCHANGED faults
ProtocolError == Serving /\ link /\ Front.frames # <<>> /\ faults < MaxFaults
                 /\ CloseClient /\ faults' = faults + 1

----------------------------------------------------------------------------
(* Display *)

PollNow ==
    /\ LET imx == dispFile.online /\ dispAge <= StaleAfter
       IN  view' = [imx6ull |-> imx, stm32 |-> imx /\ dispFile.stm32]
    /\ polled' = TRUE
    /\ UNCHANGED <<canSide, gateway, link, conns, receiver, dispFile, dispAge, faults>>

----------------------------------------------------------------------------
(* Failures and repairs *)

Fault == faults < MaxFaults /\ faults' = faults + 1

NodeSilent == /\ node /\ node' = FALSE /\ Fault
              /\ UNCHANGED <<heard, client, canFile, stops, gateway, link, conns, receiver, display>>
NodeBack == /\ ~node /\ node' = TRUE
            /\ UNCHANGED <<heard, client, canFile, stops, gateway, link, conns, receiver, display, faults>>
LinkDown == /\ link /\ link' = FALSE /\ Fault
            /\ UNCHANGED <<canSide, gateway, conns, receiver, display>>
LinkUp == /\ ~link /\ link' = TRUE
          /\ UNCHANGED <<canSide, gateway, conns, receiver, display, faults>>

\* A killed process leaves a FIN behind, a board that loses power does not.
GatewayDies ==
    /\ gateway.pc # "dead" /\ Fault
    /\ IF gateway.fd = "joined" THEN \E open \in BOOLEAN : GiveUp(open)
       ELSE UNCHANGED conns
    /\ Sleep(0, "dead", "none")
    /\ UNCHANGED <<canSide, link, receiver, display>>
GatewayStarts ==
    /\ gateway.pc = "dead"
    /\ gateway' = [pc |-> "loop", fd |-> "none", timer |-> 0, delay |-> 1]
    /\ UNCHANGED <<canSide, link, conns, receiver, display, faults>>

\* The kernel closes the connections; the file stays.
ReceiverDies ==
    /\ receiver.up /\ Fault
    /\ receiver' = [receiver EXCEPT !.up = FALSE, !.serving = FALSE]
    /\ conns' = <<>>
    /\ gateway' = [gateway EXCEPT !.fd = IF @ = "joined" THEN "reset" ELSE @]
    /\ UNCHANGED <<canSide, link, display>>
ReceiverStarts ==
    /\ ~receiver.up
    /\ receiver' = [up |-> TRUE, serving |-> FALSE, idle |-> 0, wrote |-> FALSE]
    /\ dispFile' = OfflineFile /\ dispAge' = 0
    /\ UNCHANGED <<canSide, gateway, link, conns, view, polled, faults>>

----------------------------------------------------------------------------
(* Time *)

\* What takes less than a second has been done.
ReceiverQuiet ==
    /\ receiver.up /\ conns # <<>> => Serving
    /\ Serving => receiver.idle < SocketTimeout
    /\ Serving /\ link => Front.frames = <<>> /\ Front.open
GatewayQuiet == gateway.pc # "dead" => gateway.timer > 0
ClientQuiet == client.up => client.idle < ClientPeriod

OlderFrames(frames) == [i \in DOMAIN frames |-> [frames[i] EXCEPT !.age = @ + 1]]

Tick ==
    /\ ReceiverQuiet /\ GatewayQuiet /\ ClientQuiet /\ polled
    /\ heard' = Older(heard, MaxHeard)
    /\ client' = [client EXCEPT !.idle = IF client.up THEN @ + 1 ELSE @, !.wrote = FALSE]
    /\ gateway' = [gateway EXCEPT !.timer = IF @ > 0 THEN @ - 1 ELSE @]
    /\ conns' = [i \in DOMAIN conns |-> [conns[i] EXCEPT !.frames = OlderFrames(@)]]
    /\ receiver' = [receiver EXCEPT !.idle = IF Serving THEN @ + 1 ELSE @, !.wrote = FALSE]
    /\ dispAge' = Older(dispAge, StaleAfter + 1)
    /\ polled' = FALSE
    /\ UNCHANGED <<node, canFile, link, dispFile, view, faults, stops>>

Client == \E frame \in {"none", "valid", "corrupt"} : ClientLoop(frame)
Gateway == ConnectFails \/ Connect \/ SendData \/ SendReturns \/ SendTimesOut \/ SendOnReset
Receiver == Accept \/ Receive \/ Disconnected \/ ReceiveTimeout
Repair == NodeBack \/ LinkUp \/ GatewayStarts \/ ReceiverStarts \/ ClientStarts
Failure == NodeSilent \/ LinkDown \/ GatewayDies \/ ReceiverDies \/ ProtocolError \/ ClientStops

Next == Client \/ Gateway \/ Receiver \/ PollNow \/ Tick \/ Repair \/ Failure

Spec == Init /\ [][Next]_vars

\* Every process is scheduled and what failed is repaired; again and again the
\* first frame that the client reads in a second is valid (the node sends two
\* valid frames a second).  Nothing has to fail.
Fairness ==
    /\ WF_vars(Tick) /\ WF_vars(PollNow) /\ WF_vars(Gateway) /\ WF_vars(Receiver)
    /\ SF_vars(~client.wrote /\ ClientLoop("valid"))
    /\ WF_vars(NodeBack) /\ WF_vars(LinkUp) /\ WF_vars(GatewayStarts)
    /\ WF_vars(ReceiverStarts) /\ WF_vars(ClientStarts)

FairSpec == Spec /\ Fairness

----------------------------------------------------------------------------
(* Properties *)

\* The oldest a frame can get on its way: the receiver's timeout for each
\* connection before it, and for each failure so far.
FrameLimit == SocketTimeout * (MaxConns + faults)

\* No frame waits longer than that.
FramesAreRecent ==
    \A i \in DOMAIN conns : \A k \in DOMAIN conns[i].frames :
        conns[i].frames[k].age <= FrameLimit

\* What the display calls STM32 ONLINE was heard on the CAN bus not long ago:
\* the delays of the five processes can hide a silent node for the sum of their
\* limits and no longer.  After a stop of the sensor client it is false: the
\* gateway does not look at the age of its file.
OnlineIsRecent ==
    stops = 0 /\ view.stm32 => heard <= SourceLimit + FrameLimit + StaleAfter + 1

\* After the last failure the display finds its way back and stays there, past
\* the back-off, a full socket buffer and a half-open connection that still
\* occupies the receiver.  The node itself is shown again and again.
DisplayRecovers == <>[]view.imx6ull /\ []<>view.stm32
=============================================================================
