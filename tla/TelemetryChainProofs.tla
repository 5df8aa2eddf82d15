------------------------ MODULE TelemetryChainProofs ------------------------
(***************************************************************************)
(* Proofs about TelemetryChain, for every value of its constants: how old  *)
(* what the display shows can be.                                          *)
(*                                                                         *)
(* The argument follows a flag along the chain and bounds at each place    *)
(* how long ago the node was heard.  The delay of a frame on the TCP way   *)
(* is the hard part: the receiver serves one connection at a time, its     *)
(* timeout starts again with every frame, and the link may fail in         *)
(* between.  AgeLimit charges SocketTimeout to each connection before the  *)
(* frame and to each failure so far.                                       *)
(***************************************************************************)
EXTENDS TelemetryChain, TLAPS

\* Serving: how long the receiver has waited for the front connection.
Waited == IF Serving THEN receiver.idle ELSE 0
Charges(i) == faults + (IF link THEN 1 ELSE 0) + (MaxConns - i)
AgeLimit(i) == SocketTimeout * Charges(i)
               + (IF link /\ Front.frames # <<>> THEN 0 ELSE Waited)

Structure ==
    /\ Serving => receiver.up
    /\ Serving => conns # <<>>
    /\ ~receiver.up => conns = <<>>
    /\ gateway.fd = "joined" => conns # <<>>

\* Once the client has been stopped nothing is claimed about the node.
Known == IF stops = 0 THEN heard ELSE 0

ClientGood ==
    /\ client.up
    /\ client.online => heard <= OfflineAfter + client.idle
    /\ canFile = "online" => client.online

ClientOK == stops = 0 => ClientGood

FrameOK(f, limit) == f.age <= limit /\ (f.stm32 => Known <= SourceLimit + f.age)

FramesOK ==
    \A i \in DOMAIN conns : \A k \in DOMAIN conns[i].frames :
        FrameOK(conns[i].frames[k], AgeLimit(i))

FileOK ==
    dispFile.stm32 /\ dispAge <= StaleAfter => Known <= SourceLimit + FrameLimit + dispAge

ViewOK ==
    view.stm32 => Known <= SourceLimit + FrameLimit + StaleAfter + (IF polled THEN 0 ELSE 1)

IInv == TypeOK /\ Structure /\ ClientOK /\ FramesOK /\ FileOK /\ ViewOK

----------------------------------------------------------------------------
(* Arithmetic and sequences *)

\* The assumption without its product.
LEMMA Constants ==
    /\ OfflineAfter \in Nat /\ StaleAfter \in Nat /\ SourceLimit \in Nat
    /\ ClientPeriod \in Nat \ {0} /\ SocketTimeout \in Nat \ {0}
    /\ ConnectTimeout \in Nat /\ ReconnectMax \in Nat \ {0}
    /\ MaxConns \in Nat \ {0} /\ BufferFrames \in Nat \ {0}
    /\ MaxFaults \in Nat /\ MaxStops \in Nat /\ MaxHeard \in Nat
  BY ChainAssumption, SMT DEF SourceLimit

Conn == [frames : Seq(Frames), open : BOOLEAN]

\* Multiples of the timeout.
LEMMA Multiples ==
    /\ \A a \in Nat : SocketTimeout * a \in Nat
    /\ \A a \in Nat : SocketTimeout * (a + 1) = SocketTimeout * a + SocketTimeout
    /\ \A a, b \in Nat : a <= b => SocketTimeout * a <= SocketTimeout * b
  <1>0. SocketTimeout \in Nat /\ SocketTimeout > 0
    BY Constants, SMT
  <1>1. \A a \in Nat : SocketTimeout * a \in Nat
    BY <1>0, SMT
  <1>2. \A a \in Nat : SocketTimeout * (a + 1) = SocketTimeout * a + SocketTimeout
    BY <1>0, SMT
  <1>3. ASSUME NEW a \in Nat, NEW b \in Nat, a <= b
        PROVE  SocketTimeout * a <= SocketTimeout * b
    <2>1. PICK d \in Nat : b = a + d
      <3>1. b - a \in Nat /\ b = a + (b - a)
        BY <1>3, SMT
      <3> QED BY <3>1
    <2>2. SocketTimeout * b = SocketTimeout * a + SocketTimeout * d
      BY <1>0, <2>1, SMT
    <2>3. SocketTimeout * d \in Nat /\ SocketTimeout * a \in Nat /\ SocketTimeout * b \in Nat
      BY <1>1
    <2> QED BY <2>2, <2>3, SMT
  <1> QED BY <1>1, <1>2, <1>3

\* Replacing one connection.
LEMMA Replace ==
    ASSUME NEW c \in Seq(Conn), NEW n \in 1..Len(c), NEW x \in Conn
    PROVE  /\ [c EXCEPT ![n] = x] \in Seq(Conn)
           /\ Len([c EXCEPT ![n] = x]) = Len(c)
           /\ DOMAIN [c EXCEPT ![n] = x] = DOMAIN c
           /\ \A i \in DOMAIN c : [c EXCEPT ![n] = x][i] = IF i = n THEN x ELSE c[i]
  BY SMT

\* The connections without the first.
LEMMA WithoutFirst ==
    ASSUME NEW c \in Seq(Conn), c # <<>>
    PROVE  /\ Tail(c) \in Seq(Conn)
           /\ Len(Tail(c)) = Len(c) - 1
           /\ \A i \in DOMAIN Tail(c) : i + 1 \in DOMAIN c /\ Tail(c)[i] = c[i + 1]
  BY SMT

\* The frames without the first, with one more, and those in the buffer.
LEMMA FrameOps ==
    ASSUME NEW s \in Seq(Frames)
    PROVE  /\ s # <<>> => /\ Tail(s) \in Seq(Frames)
                          /\ \A k \in DOMAIN Tail(s) : k + 1 \in DOMAIN s /\ Tail(s)[k] = s[k + 1]
           /\ \A f \in Frames :
                /\ Append(s, f) \in Seq(Frames)
                /\ \A k \in DOMAIN Append(s, f) :
                      \/ k \in DOMAIN s /\ Append(s, f)[k] = s[k]
                      \/ Append(s, f)[k] = f
           /\ Buffered(s) \in Seq(Frames)
           /\ \A k \in DOMAIN Buffered(s) : k \in DOMAIN s /\ Buffered(s)[k] = s[k]
  <1>1. s # <<>> => /\ Tail(s) \in Seq(Frames)
                    /\ \A k \in DOMAIN Tail(s) : k + 1 \in DOMAIN s /\ Tail(s)[k] = s[k + 1]
    BY SMT
  <1>2. ASSUME NEW f \in Frames
        PROVE  /\ Append(s, f) \in Seq(Frames)
               /\ \A k \in DOMAIN Append(s, f) :
                     \/ k \in DOMAIN s /\ Append(s, f)[k] = s[k]
                     \/ Append(s, f)[k] = f
    BY SMT
  <1>3. /\ Buffered(s) \in Seq(Frames)
        /\ \A k \in DOMAIN Buffered(s) : k \in DOMAIN s /\ Buffered(s)[k] = s[k]
    BY Constants, SMT DEF Buffered
  <1> QED BY <1>1, <1>2, <1>3

----------------------------------------------------------------------------
(* Types and structure *)

ConnsOK == conns \in Seq(Conn) /\ Len(conns) \in 0..MaxConns

ClientType == [up : BOOLEAN, online : BOOLEAN, idle : 0..ClientPeriod, wrote : BOOLEAN]
GatewayType == [pc : {"loop", "send", "dead"}, fd : {"none", "joined", "reset", "refused"},
                timer : Nat, delay : 1..ReconnectMax]
ReceiverType == [up : BOOLEAN, serving : BOOLEAN, idle : 0..SocketTimeout, wrote : BOOLEAN]

RestOK ==
    /\ node \in BOOLEAN /\ heard \in 0..MaxHeard
    /\ client \in ClientType /\ canFile \in {"none", "online", "offline"}
    /\ gateway \in GatewayType /\ link \in BOOLEAN /\ receiver \in ReceiverType
    /\ dispFile \in [online : BOOLEAN, stm32 : BOOLEAN] /\ dispAge \in 0..StaleAfter+1
    /\ view \in [imx6ull : BOOLEAN, stm32 : BOOLEAN] /\ polled \in BOOLEAN
    /\ faults \in 0..MaxFaults /\ stops \in 0..MaxStops

\* The connections and the rest of the state, of which only the emptiness of
\* conns matters.
LEMMA TypeParts == TypeOK <=> ConnsOK /\ RestOK
  <1>1. \A s \in Seq(Conn) : Len(s) \in Nat
    BY SMT
  <1>2. MaxConns \in Nat
    BY Constants
  <1>3. conns \in Seq(Conn) => (Len(conns) <= MaxConns <=> Len(conns) \in 0..MaxConns)
    BY <1>1, <1>2, SMT
  <1> QED BY <1>3, Zenon DEF TypeOK, ConnsOK, RestOK, Conn, ClientType, GatewayType, ReceiverType

LEMMA InitTypes == Init => TypeOK /\ Structure
  <1> SUFFICES ASSUME Init PROVE TypeOK /\ Structure
    OBVIOUS
  <1> DEFINE Left == [frames |-> <<>>, open |-> TRUE]
  <1>1. conns \in {<<>>, <<Left>>}
    BY Zenon DEF Init
  <1>2. conns \in Seq([frames : Seq(Frames), open : BOOLEAN]) /\ Len(conns) <= MaxConns
    <2>1. <<>> \in Seq(Frames)
      BY SMT
    <2>2. Left \in [frames : Seq(Frames), open : BOOLEAN]
      BY <2>1, Zenon
    <2> HIDE DEF Left
    <2>3. \A S, x : x \in S => <<x>> \in Seq(S) /\ Len(<<x>>) = 1
      BY SMT
    <2>4. \A S : <<>> \in Seq(S) /\ Len(<<>>) = 0
      BY SMT
    <2>5. MaxConns \in Nat /\ 0 <= MaxConns /\ 1 <= MaxConns
      BY Constants, SMT
    <2> QED BY <1>1, <2>2, <2>3, <2>4, <2>5, Zenon
  <1>4. TypeOK
    BY <1>2, Constants, SMT DEF Init, TypeOK, OfflineFile
  <1>3. Structure
    BY SMT DEF Init, Structure, Serving
  <1> QED BY <1>3, <1>4

\* The steps that leave the connections alone.
QuietStep ==
    \/ \E frame \in {"none", "valid", "corrupt"} : ClientLoop(frame)
    \/ ClientStops \/ ClientStarts \/ ConnectFails \/ SendReturns \/ SendOnReset
    \/ Accept \/ PollNow \/ NodeSilent \/ NodeBack \/ LinkDown \/ LinkUp
    \/ GatewayStarts \/ ReceiverStarts

\* Numbers in their ranges.
LEMMA Ranges ==
    /\ 0 \in 0..MaxHeard /\ 0 \in 0..ClientPeriod /\ 0 \in 0..SocketTimeout
    /\ 0 \in 0..StaleAfter + 1 /\ 1 \in 1..ReconnectMax
    /\ \A n \in 0..MaxFaults : n < MaxFaults => n + 1 \in 0..MaxFaults
    /\ \A n \in 0..MaxStops : n < MaxStops => n + 1 \in 0..MaxStops
    /\ \A n \in 0..ClientPeriod : n < ClientPeriod => n + 1 \in 0..ClientPeriod
    /\ \A n \in 0..SocketTimeout : n < SocketTimeout => n + 1 \in 0..SocketTimeout
    /\ \A n \in 0..MaxHeard : Older(n, MaxHeard) \in 0..MaxHeard
    /\ \A n \in 0..StaleAfter + 1 : Older(n, StaleAfter + 1) \in 0..StaleAfter + 1
    /\ \A d \in 1..ReconnectMax : Double(d) \in 1..ReconnectMax
    /\ SocketTimeout \in Nat /\ 1..2 \subseteq Nat /\ 0 \in Nat /\ 1 \in Nat
  BY Constants, SMT DEF Older, Double

LEMMA SleepType ==
    ASSUME gateway \in GatewayType, NEW n \in Nat, NEW pc \in {"loop", "send", "dead"},
           NEW fd \in {"none", "joined", "reset", "refused"}, Sleep(n, pc, fd)
    PROVE  gateway' \in GatewayType /\ gateway'.fd = fd
  BY Zenon DEF Sleep, GatewayType

LEMMA FaultType == ASSUME RestOK, Fault PROVE faults' \in 0..MaxFaults
  BY Ranges, Zenon DEF RestOK, Fault

LEMMA QuietStepTypes ==
    ASSUME RestOK, Structure, QuietStep
    PROVE  RestOK' /\ Structure' /\ UNCHANGED conns
  <1> USE Ranges
  <1>1. ASSUME NEW frame \in {"none", "valid", "corrupt"}, ClientLoop(frame)
        PROVE  RestOK' /\ Structure' /\ UNCHANGED conns
    <2>1. TimedOut \in BOOLEAN
      BY DEF TimedOut
    <2>2. client' \in ClientType
      <3>1. PICK b \in BOOLEAN : client' = [client EXCEPT !.online = b, !.idle = 0,
                                              !.wrote = @ \/ frame # "none"]
        BY <1>1, Zenon DEF ClientLoop
      <3> QED BY <3>1, Zenon DEF RestOK, ClientType
    <2>3. heard' \in 0..MaxHeard /\ canFile' \in {"none", "online", "offline"}
      BY <1>1, Zenon DEF ClientLoop, RestOK, FlagOf
    <2> QED BY <1>1, <2>2, <2>3, Zenon DEF ClientLoop, display, RestOK, Structure, Serving
  <1>2. ASSUME ClientStops \/ ClientStarts
        PROVE  RestOK' /\ Structure' /\ UNCHANGED conns
    <2>1. client' \in ClientType
      BY <1>2, Zenon DEF ClientStops, ClientStarts, RestOK, ClientType
    <2>2. stops' \in 0..MaxStops
      BY <1>2, Zenon DEF ClientStops, ClientStarts, RestOK
    <2> QED BY <1>2, <2>1, <2>2, Zenon
            DEF ClientStops, ClientStarts, display, RestOK, Structure, Serving
  <1>3. ASSUME ConnectFails
        PROVE  RestOK' /\ Structure' /\ UNCHANGED conns
    <2>1. gateway.timer + gateway.delay + (IF receiver.up THEN ConnectTimeout ELSE 0) \in Nat
      <3>1. gateway.timer \in Nat /\ gateway.delay \in 1..ReconnectMax
        BY Zenon DEF RestOK, GatewayType
      <3>2. (IF receiver.up THEN ConnectTimeout ELSE 0) \in Nat
        BY Constants, Zenon
      <3> HIDE Ranges
      <3> QED BY <3>1, <3>2, Constants, SMT
    <2>2. gateway' \in GatewayType /\ gateway'.fd = gateway.fd
      BY <1>3, <2>1, Zenon DEF ConnectFails, RestOK, GatewayType
    <2> QED BY <1>3, <2>2, Zenon DEF ConnectFails, canSide, display, RestOK, Structure, Serving
  <1>4. ASSUME SendReturns
        PROVE  RestOK' /\ Structure' /\ UNCHANGED conns
    <2>1. gateway' \in GatewayType /\ gateway'.fd = gateway.fd
      <3>1. PICK pause \in 1..2 : Sleep(pause, "loop", gateway.fd)
        BY <1>4, Zenon DEF SendReturns
      <3>2. gateway.fd \in {"none", "joined", "reset", "refused"} /\ pause \in Nat
        BY Zenon DEF RestOK, GatewayType
      <3> QED BY <3>1, <3>2, SleepType, Zenon DEF RestOK
    <2> QED BY <1>4, <2>1, Zenon DEF SendReturns, canSide, display, RestOK, Structure, Serving
  <1>5. ASSUME SendOnReset
        PROVE  RestOK' /\ Structure' /\ UNCHANGED conns
    <2>1. gateway' \in GatewayType /\ gateway'.fd \in {"none", "reset", "refused"}
      <3>1. CASE Sleep(1, "loop", "none")
        BY <3>1, SleepType, Zenon DEF RestOK
      <3>2. CASE \E pause \in 1..2 : Sleep(pause, "loop", IF link THEN "refused" ELSE "reset")
        <4>1. PICK pause \in 1..2 : Sleep(pause, "loop", IF link THEN "refused" ELSE "reset")
          BY <3>2
        <4>2. (IF link THEN "refused" ELSE "reset") \in {"reset", "refused"} /\ pause \in Nat
          BY Zenon
        <4> QED BY <4>1, <4>2, SleepType, Zenon DEF RestOK
      <3> QED BY <1>5, <3>1, <3>2, Zenon DEF SendOnReset
    <2> QED BY <1>5, <2>1, Zenon DEF SendOnReset, canSide, display, RestOK, Structure, Serving
  <1>6. ASSUME Accept PROVE RestOK' /\ Structure' /\ UNCHANGED conns
    <2>1. receiver' \in ReceiverType /\ receiver'.up = receiver.up
      BY <1>6, Zenon DEF Accept, RestOK, ReceiverType
    <2> QED BY <1>6, <2>1, Zenon DEF Accept, OfflineFile, canSide, RestOK, Structure, Serving
  <1>7. ASSUME ReceiverStarts PROVE RestOK' /\ Structure' /\ UNCHANGED conns
    <2>1. receiver' \in ReceiverType /\ receiver'.up /\ ~receiver'.serving
      BY <1>7, Zenon DEF ReceiverStarts, ReceiverType
    <2> QED BY <1>7, <2>1, Zenon DEF ReceiverStarts, OfflineFile, canSide, RestOK, Structure, Serving
  <1>8. ASSUME PollNow PROVE RestOK' /\ Structure' /\ UNCHANGED conns
    <2>1. view' \in [imx6ull : BOOLEAN, stm32 : BOOLEAN]
      <3>1. PICK a \in BOOLEAN, b \in BOOLEAN : view' = [imx6ull |-> a, stm32 |-> b]
        BY <1>8, Zenon DEF PollNow
      <3> QED BY <3>1, Zenon
    <2> QED BY <1>8, <2>1, Zenon DEF PollNow, canSide, RestOK, Structure, Serving
  <1>9. ASSUME NodeSilent \/ NodeBack \/ LinkDown \/ LinkUp
        PROVE  RestOK' /\ Structure' /\ UNCHANGED conns
    <2>1. faults' \in 0..MaxFaults
      BY <1>9, FaultType, Zenon DEF NodeSilent, NodeBack, LinkDown, LinkUp, RestOK
    <2> QED BY <1>9, <2>1, Zenon
            DEF NodeSilent, NodeBack, LinkDown, LinkUp, canSide, display, RestOK, Structure, Serving
  <1>10. ASSUME GatewayStarts PROVE RestOK' /\ Structure' /\ UNCHANGED conns
    <2>1. gateway' \in GatewayType /\ gateway'.fd = "none"
      BY <1>10, Zenon DEF GatewayStarts, GatewayType
    <2> QED BY <1>10, <2>1, Zenon DEF GatewayStarts, canSide, display, RestOK, Structure, Serving
  <1> QED BY <1>1, <1>2, <1>3, <1>4, <1>5, <1>6, <1>7, <1>8, <1>9, <1>10 DEF QuietStep

\* A frame after a step of the gateway was there before, or is the new sample.
WasThere(i, k) ==
    i \in DOMAIN conns /\ \E l \in DOMAIN conns[i].frames :
        conns'[i].frames[k] = conns[i].frames[l]

GatewayConns ==
    /\ ConnsOK'
    /\ conns # <<>> => conns' # <<>>
    /\ conns # <<>> /\ Len(conns) # 1 => conns'[1] = conns[1]
    /\ \A i \in DOMAIN conns' : \A k \in DOMAIN conns'[i].frames :
          WasThere(i, k) \/ conns'[i].frames[k] = Snapshot

LEMMA SnapshotType == Snapshot \in Frames /\ Snapshot.age = 0
  BY SMT DEF Snapshot, Frames

LEMMA ConnTypes ==
    ASSUME ConnsOK
    PROVE  /\ Len(conns) \in Nat /\ DOMAIN conns = 1..Len(conns)
           /\ \A i \in DOMAIN conns : conns[i] \in Conn /\ conns[i].frames \in Seq(Frames)
           /\ conns # <<>> => Last \in DOMAIN conns /\ 1 \in DOMAIN conns
           /\ conns = <<>> => Len(conns) = 0
  <1>1. /\ Len(conns) \in Nat /\ DOMAIN conns = 1..Len(conns)
        /\ conns # <<>> => Len(conns) \in 1..Len(conns) /\ 1 \in 1..Len(conns)
        /\ conns = <<>> => Len(conns) = 0
    BY SMT DEF ConnsOK
  <1>2. \A i \in DOMAIN conns : conns[i] \in Conn
    BY SMT DEF ConnsOK
  <1>3. \A c \in Conn : c.frames \in Seq(Frames)
    BY Zenon DEF Conn
  <1> QED BY <1>1, <1>2, <1>3 DEF Last

\* Replacing the last connection by one whose frames have that origin.
LEMMA ReplaceLast ==
    ASSUME ConnsOK, conns # <<>>, NEW x \in Conn, conns' = [conns EXCEPT ![Last] = x],
           \A k \in DOMAIN x.frames :
               \/ x.frames[k] = Snapshot
               \/ \E l \in DOMAIN conns[Last].frames : x.frames[k] = conns[Last].frames[l]
    PROVE  GatewayConns
  <1>1. /\ conns \in Seq(Conn) /\ Last \in 1..Len(conns) /\ DOMAIN conns = 1..Len(conns)
        /\ Len(conns) \in 0..MaxConns
    BY ConnTypes DEF ConnsOK
  <1>2. /\ conns' \in Seq(Conn) /\ Len(conns') = Len(conns) /\ DOMAIN conns' = DOMAIN conns
        /\ \A i \in DOMAIN conns : conns'[i] = IF i = Last THEN x ELSE conns[i]
    BY <1>1, Replace, Zenon
  <1>3. ConnsOK'
    BY <1>1, <1>2 DEF ConnsOK
  <1>4. conns' # <<>>
    BY <1>1, <1>2, SMT DEF Last
  <1>5. Len(conns) # 1 => conns'[1] = conns[1]
    BY <1>1, <1>2, SMT DEF Last
  <1>6. ASSUME NEW i \in DOMAIN conns', NEW k \in DOMAIN conns'[i].frames
        PROVE  WasThere(i, k) \/ conns'[i].frames[k] = Snapshot
    <2>1. CASE i = Last
      BY <1>2, <1>6, <2>1, Zenon DEF WasThere
    <2>2. CASE i # Last
      BY <1>2, <1>6, <2>2, Zenon DEF WasThere
    <2> QED BY <2>1, <2>2
  <1> QED BY <1>3, <1>4, <1>5, <1>6 DEF GatewayConns

LEMMA GiveUpConns ==
    ASSUME ConnsOK, conns # <<>>, NEW open \in BOOLEAN, GiveUp(open)
    PROVE  GatewayConns
  <1> DEFINE x == [frames |-> Buffered(conns[Last].frames), open |-> open]
  <1>1. conns[Last].frames \in Seq(Frames)
    BY ConnTypes
  <1>2. /\ Buffered(conns[Last].frames) \in Seq(Frames)
        /\ \A k \in DOMAIN Buffered(conns[Last].frames) :
              k \in DOMAIN conns[Last].frames
              /\ Buffered(conns[Last].frames)[k] = conns[Last].frames[k]
    BY <1>1, FrameOps
  <1>3. x \in Conn /\ x.frames = Buffered(conns[Last].frames)
    BY <1>2 DEF Conn
  <1>4. conns' = [conns EXCEPT ![Last] = x]
    BY Zenon DEF GiveUp
  <1>5. \A k \in DOMAIN x.frames : \E l \in DOMAIN conns[Last].frames :
            x.frames[k] = conns[Last].frames[l]
    BY <1>2, <1>3
  <1> HIDE DEF x
  <1> QED BY <1>3, <1>4, <1>5, ReplaceLast

LEMMA GatewaySteps ==
    ASSUME ConnsOK, Structure, Connect \/ SendData \/ SendTimesOut \/ GatewayDies
    PROVE  GatewayConns
  <1>0. conns \in Seq(Conn) /\ Len(conns) \in 0..MaxConns
    BY DEF ConnsOK
  <1>1. ASSUME Connect PROVE GatewayConns
    <2> DEFINE x == [frames |-> <<Snapshot>>, open |-> TRUE]
    <2>1. x \in Conn /\ DOMAIN x.frames = {1} /\ x.frames[1] = Snapshot
      <3>1. <<Snapshot>> \in Seq(Frames) /\ DOMAIN <<Snapshot>> = {1} /\ <<Snapshot>>[1] = Snapshot
        BY SnapshotType, SMT
      <3> QED BY <3>1 DEF Conn
    <2>2. conns' = Append(conns, x) /\ Len(conns) < MaxConns
      BY <1>1 DEF Connect, Last
    <2> HIDE DEF x
    <2>3. /\ conns' \in Seq(Conn) /\ Len(conns') = Len(conns) + 1
          /\ DOMAIN conns' = 1..Len(conns) + 1
          /\ \A i \in 1..Len(conns) : conns'[i] = conns[i]
          /\ conns'[Len(conns) + 1] = x
      BY <1>0, <2>1, <2>2, SMT
    <2>4. ConnsOK'
      BY <1>0, <2>2, <2>3, Constants, SMT DEF ConnsOK
    <2>5. conns' # <<>>
      BY <1>0, <2>3, SMT
    <2>6. conns # <<>> => conns'[1] = conns[1]
      BY <2>3, ConnTypes
    <2>7. ASSUME NEW i \in DOMAIN conns', NEW k \in DOMAIN conns'[i].frames
          PROVE  WasThere(i, k) \/ conns'[i].frames[k] = Snapshot
      <3>1. CASE i \in 1..Len(conns)
        <4>1. i \in DOMAIN conns /\ conns'[i] = conns[i]
          BY <2>3, <3>1, ConnTypes
        <4> QED BY <2>7, <4>1, Zenon DEF WasThere
      <3>2. CASE i \notin 1..Len(conns)
        <4>1. i = Len(conns) + 1
          BY <1>0, <2>3, <2>7, <3>2, SMT
        <4> QED BY <2>1, <2>3, <2>7, <4>1
      <3> QED BY <3>1, <3>2
    <2> QED BY <2>4, <2>5, <2>6, <2>7 DEF GatewayConns
  <1>2. ASSUME SendData PROVE GatewayConns
    <2>1. conns # <<>>
      BY <1>2 DEF SendData, Structure
    <2> DEFINE s == conns[Last].frames
               x == [conns[Last] EXCEPT !.frames = Append(s, Snapshot)]
    <2>2. conns[Last] \in Conn /\ s \in Seq(Frames)
      BY <2>1, ConnTypes
    <2>3. /\ Append(s, Snapshot) \in Seq(Frames)
          /\ \A k \in DOMAIN Append(s, Snapshot) :
                \/ k \in DOMAIN s /\ Append(s, Snapshot)[k] = s[k]
                \/ Append(s, Snapshot)[k] = Snapshot
      BY <2>2, SnapshotType, FrameOps
    <2>4. x \in Conn /\ x.frames = Append(s, Snapshot)
      BY <2>2, <2>3 DEF Conn
    <2>5. conns' = [conns EXCEPT ![Last] = x]
      BY <1>2 DEF SendData
    <2>6. \A k \in DOMAIN x.frames :
              \/ x.frames[k] = Snapshot
              \/ \E l \in DOMAIN conns[Last].frames : x.frames[k] = conns[Last].frames[l]
      BY <2>3, <2>4
    <2> HIDE DEF x
    <2> QED BY <2>1, <2>4, <2>5, <2>6, ReplaceLast
  <1>3. ASSUME SendTimesOut PROVE GatewayConns
    <2>1. conns # <<>> /\ GiveUp(FALSE)
      BY <1>3 DEF SendTimesOut, Structure
    <2> QED BY <2>1, GiveUpConns
  <1>4. ASSUME GatewayDies PROVE GatewayConns
    <2>1. CASE gateway.fd = "joined"
      <3>1. PICK open \in BOOLEAN : GiveUp(open)
        BY <1>4, <2>1 DEF GatewayDies
      <3> QED BY <2>1, <3>1, GiveUpConns DEF Structure
    <2>2. CASE gateway.fd # "joined"
      <3>1. conns' = conns
        BY <1>4, <2>2 DEF GatewayDies
      <3> QED BY <3>1, Zenon DEF GatewayConns, ConnsOK, WasThere
    <2> QED BY <2>1, <2>2
  <1> QED BY <1>1, <1>2, <1>3, <1>4

LEMMA ReceiveConns ==
    ASSUME ConnsOK, Structure, Receive
    PROVE  /\ ConnsOK' /\ conns' # <<>>
           /\ \A i \in DOMAIN conns' : \A k \in DOMAIN conns'[i].frames : WasThere(i, k)
           /\ Head(conns[1].frames) \in Frames
           /\ \E l \in DOMAIN conns[1].frames : Head(conns[1].frames) = conns[1].frames[l]
  <1> DEFINE s == conns[1].frames
             x == [conns[1] EXCEPT !.frames = Tail(s)]
  <1>1. conns # <<>> /\ s # <<>>
    BY DEF Receive, Structure, Serving, Front
  <1>2. conns \in Seq(Conn) /\ Len(conns) \in 0..MaxConns /\ DOMAIN conns = 1..Len(conns)
        /\ 1 \in 1..Len(conns) /\ conns[1] \in Conn /\ s \in Seq(Frames)
    BY <1>1, ConnTypes DEF ConnsOK
  <1>3. Tail(s) \in Seq(Frames)
        /\ \A k \in DOMAIN Tail(s) : k + 1 \in DOMAIN s /\ Tail(s)[k] = s[k + 1]
    BY <1>1, <1>2, FrameOps
  <1>4. x \in Conn /\ x.frames = Tail(s)
    BY <1>2, <1>3 DEF Conn
  <1>5. conns' = [conns EXCEPT ![1] = x]
    BY DEF Receive
  <1>6. 1 \in DOMAIN s /\ Head(s) = s[1] /\ Head(s) \in Frames
    BY <1>1, <1>2, SMT
  <1> HIDE DEF x
  <1>7. /\ conns' \in Seq(Conn) /\ Len(conns') = Len(conns) /\ DOMAIN conns' = DOMAIN conns
        /\ \A i \in DOMAIN conns : conns'[i] = IF i = 1 THEN x ELSE conns[i]
    BY <1>2, <1>4, <1>5, Replace, Zenon
  <1>8. ConnsOK' /\ conns' # <<>>
    BY <1>2, <1>7, SMT DEF ConnsOK
  <1>9. ASSUME NEW i \in DOMAIN conns', NEW k \in DOMAIN conns'[i].frames
        PROVE  WasThere(i, k)
    <2>1. CASE i = 1
      <3>1. k \in DOMAIN Tail(s) /\ conns'[i].frames[k] = s[k + 1] /\ k + 1 \in DOMAIN s
        BY <1>3, <1>4, <1>7, <1>9, <2>1
      <3> QED BY <1>7, <1>9, <2>1, <3>1 DEF WasThere
    <2>2. CASE i # 1
      BY <1>7, <1>9, <2>2, Zenon DEF WasThere
    <2> QED BY <2>1, <2>2
  <1> QED BY <1>6, <1>8, <1>9

LEMMA CloseConns ==
    ASSUME ConnsOK, conns # <<>>, CloseClient
    PROVE  /\ ConnsOK' /\ Len(conns') = Len(conns) - 1
           /\ Len(conns) # 1 => conns' # <<>>
           /\ \A i \in DOMAIN conns' : i \in Nat /\ i + 1 \in DOMAIN conns /\ conns'[i] = conns[i + 1]
  <1>1. conns' = Tail(conns)
    BY DEF CloseClient
  <1>2. conns \in Seq(Conn) /\ Len(conns) \in 0..MaxConns
    BY DEF ConnsOK
  <1>3. /\ conns' \in Seq(Conn) /\ Len(conns') = Len(conns) - 1
        /\ \A i \in DOMAIN conns' : i + 1 \in DOMAIN conns /\ conns'[i] = conns[i + 1]
    BY <1>1, <1>2, WithoutFirst
  <1>4. ConnsOK' /\ (Len(conns) # 1 => conns' # <<>>) /\ \A i \in DOMAIN conns' : i \in Nat
    BY <1>2, <1>3, Constants, SMT DEF ConnsOK
  <1> QED BY <1>3, <1>4

LEMMA TickConns ==
    ASSUME ConnsOK, Tick
    PROVE  /\ ConnsOK' /\ DOMAIN conns' = DOMAIN conns /\ (conns = <<>> <=> conns' = <<>>)
           /\ \A i \in DOMAIN conns' :
                /\ DOMAIN conns'[i].frames = DOMAIN conns[i].frames
                /\ \A k \in DOMAIN conns[i].frames :
                     /\ conns[i].frames[k] \in Frames
                     /\ conns'[i].frames[k].age = conns[i].frames[k].age + 1
                     /\ conns'[i].frames[k].stm32 = conns[i].frames[k].stm32
  <1>1. conns \in Seq(Conn) /\ Len(conns) \in 0..MaxConns /\ DOMAIN conns = 1..Len(conns)
    BY ConnTypes DEF ConnsOK
  <1>2. conns' = [i \in DOMAIN conns |-> [conns[i] EXCEPT !.frames = OlderFrames(@)]]
    BY DEF Tick
  <1>3. ASSUME NEW f \in Frames
        PROVE  LET g == [f EXCEPT !.age = @ + 1]
               IN  g \in Frames /\ g.age = f.age + 1 /\ g.stm32 = f.stm32
    BY SMT DEF Frames
  <1>4. ASSUME NEW s \in Seq(Frames)
        PROVE  /\ OlderFrames(s) \in Seq(Frames) /\ DOMAIN OlderFrames(s) = DOMAIN s
               /\ \A k \in DOMAIN s : /\ s[k] \in Frames
                                      /\ OlderFrames(s)[k] = [s[k] EXCEPT !.age = @ + 1]
    <2>1. DOMAIN s = 1..Len(s) /\ Len(s) \in Nat /\ \A k \in DOMAIN s : s[k] \in Frames
      BY <1>4, SMT
    <2>2. \A k \in DOMAIN s : [s[k] EXCEPT !.age = @ + 1] \in Frames
      BY <1>3, <2>1
    <2>3. OlderFrames(s) = [k \in 1..Len(s) |-> [s[k] EXCEPT !.age = @ + 1]]
      BY <2>1 DEF OlderFrames
    <2>4. OlderFrames(s) \in Seq(Frames)
      <3> DEFINE g(k) == [s[k] EXCEPT !.age = @ + 1]
      <3>1. OlderFrames(s) = [k \in 1..Len(s) |-> g(k)]
        BY <2>3
      <3>2. \A k \in 1..Len(s) : g(k) \in Frames
        BY <2>1, <2>2
      <3> HIDE DEF g
      <3> QED BY <2>1, <3>1, <3>2, SMT
    <2> QED BY <2>1, <2>3, <2>4
  <1>5. ASSUME NEW i \in DOMAIN conns
        PROVE  /\ conns'[i] \in Conn
               /\ conns'[i].frames = OlderFrames(conns[i].frames)
               /\ conns[i].frames \in Seq(Frames)
    <2>1. conns[i] \in Conn /\ conns[i].frames \in Seq(Frames)
      BY <1>5, ConnTypes
    <2>2. conns'[i] = [conns[i] EXCEPT !.frames = OlderFrames(@)]
      BY <1>2, <1>5
    <2>3. OlderFrames(conns[i].frames) \in Seq(Frames)
      BY <1>4, <2>1
    <2> QED BY <2>1, <2>2, <2>3 DEF Conn
  <1>6. conns' \in Seq(Conn) /\ Len(conns') = Len(conns) /\ DOMAIN conns' = DOMAIN conns
    <2> DEFINE g(i) == [conns[i] EXCEPT !.frames = OlderFrames(@)]
    <2>1. conns' = [i \in 1..Len(conns) |-> g(i)]
      BY <1>1, <1>2
    <2>2. \A i \in 1..Len(conns) : g(i) \in Conn
      BY <1>1, <1>2, <1>5
    <2> HIDE DEF g
    <2> QED BY <1>1, <2>1, <2>2, SMT
  <1>7. ConnsOK' /\ (conns = <<>> <=> conns' = <<>>)
    BY <1>1, <1>6, SMT DEF ConnsOK
  <1>8. ASSUME NEW i \in DOMAIN conns'
        PROVE  /\ DOMAIN conns'[i].frames = DOMAIN conns[i].frames
               /\ \A k \in DOMAIN conns[i].frames :
                     /\ conns[i].frames[k] \in Frames
                     /\ conns'[i].frames[k].age = conns[i].frames[k].age + 1
                     /\ conns'[i].frames[k].stm32 = conns[i].frames[k].stm32
    <2>1. /\ conns'[i].frames = OlderFrames(conns[i].frames)
          /\ conns[i].frames \in Seq(Frames)
      BY <1>5, <1>6, <1>8
    <2>2. /\ DOMAIN conns'[i].frames = DOMAIN conns[i].frames
          /\ \A k \in DOMAIN conns[i].frames :
                /\ conns[i].frames[k] \in Frames
                /\ conns'[i].frames[k] = [conns[i].frames[k] EXCEPT !.age = @ + 1]
      BY <1>4, <2>1
    <2> QED BY <1>3, <2>2
  <1> QED BY <1>6, <1>7, <1>8

LEMMA ConnStepTypes ==
    ASSUME ConnsOK, RestOK, Structure,
           \/ Connect \/ SendData \/ SendTimesOut \/ Receive \/ Disconnected
           \/ ReceiveTimeout \/ ProtocolError \/ GatewayDies \/ ReceiverDies \/ Tick
    PROVE  ConnsOK' /\ RestOK' /\ Structure'
  <1> USE Ranges
  <1>1. ASSUME Connect \/ SendData \/ SendTimesOut \/ GatewayDies
        PROVE  ConnsOK' /\ RestOK' /\ Structure'
    <2>1. ConnsOK' /\ (conns # <<>> => conns' # <<>>)
      BY <1>1, GatewaySteps DEF GatewayConns
    <2>2. CASE Connect
      <3>1. conns' # <<>>
        <4>1. conns \in Seq(Conn)
          BY DEF ConnsOK
        <4>2. \E x : conns' = Append(conns, x)
          BY <2>2, Zenon DEF Connect
        <4> QED BY <4>1, <4>2, SMT
      <3>2. gateway' \in GatewayType
        BY <2>2, Zenon DEF Connect, RestOK, GatewayType
      <3> QED BY <2>1, <2>2, <3>1, <3>2, Zenon
              DEF Connect, canSide, display, RestOK, Structure, Serving
    <2>3. CASE SendData
      <3>1. gateway' \in GatewayType
        <4>1. PICK n \in Nat, pc \in {"loop", "send", "dead"} : Sleep(n, pc, "joined")
          BY <2>3, Zenon DEF SendData
        <4> QED BY <4>1, SleepType, Zenon DEF RestOK
      <3> QED BY <2>1, <2>3, <3>1, Zenon DEF SendData, canSide, display, RestOK, Structure, Serving
    <2>4. CASE SendTimesOut
      <3>1. gateway' \in GatewayType /\ gateway'.fd = "none"
        BY <2>4, SleepType, Zenon DEF SendTimesOut, RestOK
      <3> QED BY <2>1, <2>4, <3>1, Zenon
              DEF SendTimesOut, canSide, display, RestOK, Structure, Serving
    <2>5. CASE GatewayDies
      <3>1. conns = <<>> => conns' = <<>>
        BY <2>5 DEF GatewayDies, Structure
      <3>2. gateway' \in GatewayType /\ gateway'.fd = "none"
        BY <2>5, SleepType, Zenon DEF GatewayDies, RestOK
      <3>3. faults' \in 0..MaxFaults
        BY <2>5, FaultType DEF GatewayDies
      <3> QED BY <2>1, <2>5, <3>1, <3>2, <3>3, Zenon
              DEF GatewayDies, canSide, display, RestOK, Structure, Serving
    <2> QED BY <1>1, <2>2, <2>3, <2>4, <2>5
  <1>2. ASSUME Receive PROVE ConnsOK' /\ RestOK' /\ Structure'
    <2>1. ConnsOK' /\ conns' # <<>> /\ Head(Front.frames).stm32 \in BOOLEAN
      BY <1>2, ReceiveConns DEF Frames, Front
    <2>2. receiver' \in ReceiverType /\ receiver'.up = receiver.up
      BY <1>2, Zenon DEF Receive, RestOK, ReceiverType
    <2>3. /\ dispFile' \in [online : BOOLEAN, stm32 : BOOLEAN] /\ dispAge' \in 0..StaleAfter + 1
      <3>1. CASE receiver.wrote
        BY <1>2, <3>1, Zenon DEF Receive, RestOK
      <3>2. CASE ~receiver.wrote
        <4>1. dispFile' = [online |-> TRUE, stm32 |-> Head(Front.frames).stm32] /\ dispAge' = 0
          BY <1>2, <3>2, Zenon DEF Receive
        <4> QED BY <2>1, <4>1, Zenon
      <3> QED BY <3>1, <3>2
    <2> QED BY <1>2, <2>1, <2>2, <2>3, Zenon DEF Receive, canSide, RestOK, Structure, Serving
  <1>3. ASSUME Disconnected \/ ReceiveTimeout \/ ProtocolError
        PROVE  ConnsOK' /\ RestOK' /\ Structure'
    <2>1. conns # <<>> /\ CloseClient /\ Serving
      BY <1>3, Zenon DEF Disconnected, ReceiveTimeout, ProtocolError, Structure
    <2>2. faults' \in 0..MaxFaults
      BY <1>3, Zenon DEF Disconnected, ReceiveTimeout, ProtocolError, RestOK
    <2>3. ConnsOK' /\ (Len(conns) # 1 => conns' # <<>>)
      BY <2>1, CloseConns
    <2>4. receiver' \in ReceiverType /\ receiver'.up = receiver.up /\ ~receiver'.serving
      BY <2>1, Zenon DEF CloseClient, RestOK, ReceiverType
    <2>5. gateway' \in GatewayType /\ (gateway'.fd = "joined" => Len(conns) # 1)
      <3>1. CASE gateway.fd = "joined" /\ Len(conns) = 1
        <4>1. gateway' = [gateway EXCEPT !.fd = "reset"]
          BY <2>1, <3>1, Zenon DEF CloseClient, Last
        <4> QED BY <4>1, Zenon DEF RestOK, GatewayType
      <3>2. CASE ~(gateway.fd = "joined" /\ Len(conns) = 1)
        <4>1. gateway' = [gateway EXCEPT !.fd = gateway.fd]
          BY <2>1, <3>2, Zenon DEF CloseClient, Last
        <4> QED BY <3>2, <4>1, Zenon DEF RestOK, GatewayType
      <3> QED BY <3>1, <3>2
    <2>6. receiver.up
      BY <2>1, Zenon DEF Structure
    <2>7. RestOK'
      BY <2>1, <2>2, <2>4, <2>5, Zenon DEF CloseClient, OfflineFile, canSide, RestOK
    <2>8. Structure'
      BY <2>3, <2>4, <2>5, <2>6, Zenon DEF Structure, Serving
    <2> QED BY <2>3, <2>7, <2>8
  <1>4. ASSUME ReceiverDies PROVE ConnsOK' /\ RestOK' /\ Structure'
    <2>1. <<>> \in Seq(Conn) /\ Len(<<>>) \in 0..MaxConns
      BY Constants, SMT
    <2>2. ConnsOK'
      BY <1>4, <2>1 DEF ReceiverDies, ConnsOK
    <2>3. receiver' \in ReceiverType /\ ~receiver'.serving
      BY <1>4, Zenon DEF ReceiverDies, RestOK, ReceiverType
    <2>4. gateway' \in GatewayType /\ gateway'.fd # "joined"
      <3>1. CASE gateway.fd = "joined"
        <4>1. gateway' = [gateway EXCEPT !.fd = "reset"]
          BY <1>4, <3>1, Zenon DEF ReceiverDies
        <4> QED BY <4>1, Zenon DEF RestOK, GatewayType
      <3>2. CASE gateway.fd # "joined"
        <4>1. gateway' = [gateway EXCEPT !.fd = gateway.fd]
          BY <1>4, <3>2, Zenon DEF ReceiverDies
        <4> QED BY <3>2, <4>1, Zenon DEF RestOK, GatewayType
      <3> QED BY <3>1, <3>2
    <2>5. faults' \in 0..MaxFaults
      BY <1>4, FaultType DEF ReceiverDies
    <2> QED BY <1>4, <2>2, <2>3, <2>4, <2>5, Zenon
            DEF ReceiverDies, canSide, display, RestOK, Structure, Serving
  <1>5. ASSUME Tick PROVE ConnsOK' /\ RestOK' /\ Structure'
    <2>1. ConnsOK' /\ (conns = <<>> <=> conns' = <<>>)
      BY <1>5, TickConns
    <2>2. client' \in ClientType
      <3>1. (IF client.up THEN client.idle + 1 ELSE client.idle) \in 0..ClientPeriod
        BY <1>5, Zenon DEF Tick, ClientQuiet, RestOK, ClientType
      <3> QED BY <1>5, <3>1, Zenon DEF Tick, RestOK, ClientType
    <2>3. receiver' \in ReceiverType /\ receiver'.up = receiver.up
          /\ receiver'.serving = receiver.serving
      <3>1. (IF Serving THEN receiver.idle + 1 ELSE receiver.idle) \in 0..SocketTimeout
        BY <1>5, Zenon DEF Tick, ReceiverQuiet, RestOK, ReceiverType
      <3> QED BY <1>5, <3>1, Zenon DEF Tick, RestOK, ReceiverType
    <2>4. gateway' \in GatewayType /\ gateway'.fd = gateway.fd
      <3>1. (IF gateway.timer > 0 THEN gateway.timer - 1 ELSE gateway.timer) \in Nat
        <4>1. gateway.timer \in Nat
          BY Zenon DEF RestOK, GatewayType
        <4> HIDE Ranges
        <4> QED BY <4>1, SMT
      <3> QED BY <1>5, <3>1, Zenon DEF Tick, RestOK, GatewayType
    <2>5. heard' \in 0..MaxHeard /\ dispAge' \in 0..StaleAfter + 1
      BY <1>5, Zenon DEF Tick, RestOK
    <2>6. RestOK'
      BY <1>5, <2>2, <2>3, <2>4, <2>5, Zenon DEF Tick, RestOK
    <2>7. Structure'
      BY <2>1, <2>3, <2>4, Zenon DEF Structure, Serving
    <2> QED BY <2>1, <2>6, <2>7
  <1> QED BY <1>1, <1>2, <1>3, <1>4, <1>5

\* Every step keeps types and structure.
LEMMA StepTypes ==
    ASSUME TypeOK, Structure, [Next]_vars
    PROVE  TypeOK' /\ Structure'
  <1>1. ConnsOK /\ RestOK
    BY TypeParts
  <1>2. (ConnsOK /\ RestOK)' => TypeOK'
    BY TypeParts, PTL
  <1>3. CASE UNCHANGED vars
    <2>1. UNCHANGED <<node, heard, client, canFile, gateway, link, conns, receiver,
                      dispFile, dispAge, view, polled, faults, stops>>
      BY <1>3 DEF vars, canSide, display
    <2>2. (ConnsOK /\ RestOK)' /\ Structure'
      BY <1>1, <2>1, Zenon DEF ConnsOK, RestOK, Structure, Serving
    <2> QED BY <1>2, <2>2
  <1>4. CASE QuietStep
    BY <1>1, <1>2, <1>4, QuietStepTypes, Zenon DEF ConnsOK
  <1>5. CASE Next /\ ~QuietStep
    BY <1>1, <1>2, <1>5, ConnStepTypes
       DEF Next, Client, Gateway, Receiver, Repair, Failure, QuietStep
  <1> QED BY <1>3, <1>4, <1>5

\* Every state has the types of the code's data, the ages within their timeouts
\* and the receiver's backlog within its size.
THEOREM ChainTypes == Spec => []TypeOK
  <1>1. TypeOK /\ Structure /\ [Next]_vars => (TypeOK /\ Structure)'
    BY StepTypes
  <1> QED BY <1>1, InitTypes, PTL DEF Spec

----------------------------------------------------------------------------
(* Frames on their way *)

\* A limit is a number, and what is added to the charges is at most a timeout.
LEMMA Limits ==
    ASSUME ConnsOK, RestOK, NEW i \in DOMAIN conns
    PROVE  /\ i \in 1..MaxConns /\ Charges(i) \in Nat /\ Waited \in 0..SocketTimeout
           /\ AgeLimit(i) \in Nat
           /\ SocketTimeout * Charges(i) <= AgeLimit(i)
           /\ AgeLimit(i) <= SocketTimeout * Charges(i) + SocketTimeout
  <1>1. i \in 1..MaxConns
    <2>1. Len(conns) \in 0..MaxConns /\ i \in 1..Len(conns)
      BY ConnTypes DEF ConnsOK
    <2> QED BY <2>1, Constants, SMT
  <1>2. faults \in Nat
    BY Constants, SMT DEF RestOK
  <1>3. Charges(i) \in Nat
    BY <1>1, <1>2, Constants, SMT DEF Charges
  <1>4. Waited \in 0..SocketTimeout
    BY Ranges, Zenon DEF Waited, RestOK, ReceiverType
  <1>5. SocketTimeout * Charges(i) \in Nat
    BY <1>3, Multiples
  <1> DEFINE c == SocketTimeout * Charges(i)
             w == IF link /\ Front.frames # <<>> THEN 0 ELSE Waited
  <1>6. w \in 0..SocketTimeout /\ AgeLimit(i) = c + w /\ c \in Nat
    BY <1>4, <1>5, Ranges, Zenon DEF AgeLimit
  <1> HIDE DEF c, w
  <1>7. AgeLimit(i) \in Nat /\ c <= AgeLimit(i) /\ AgeLimit(i) <= c + SocketTimeout
    BY <1>6, Constants, SMT
  <1> QED BY <1>1, <1>3, <1>4, <1>7 DEF c

LimitsOK == \A i \in DOMAIN conns : AgeLimit(i) \in Nat /\ Charges(i) \in Nat

LEMMA LimitTypes == ConnsOK /\ RestOK => LimitsOK
  BY Limits DEF LimitsOK

LEMMA HeardTypes ==
    ASSUME RestOK PROVE Known \in Nat /\ faults \in Nat /\ dispAge \in Nat
  BY Constants, SMT DEF RestOK, Known

\* A frame that was within its limit and is now under a limit not lower.
LEMMA Carry ==
    ASSUME NEW f \in Frames, NEW a \in Nat, NEW b \in Nat, a <= b,
           RestOK, Known' \in Nat, Known' <= Known, FrameOK(f, a)
    PROVE  f.age <= b /\ (f.stm32 => Known' <= SourceLimit + f.age)
  <1>1. f.age \in Nat /\ Known \in Nat /\ SourceLimit \in Nat
    BY Constants, HeardTypes, Zenon DEF Frames
  <1>2. f.age <= b
    BY <1>1, SMT DEF FrameOK
  <1>3. ASSUME f.stm32 PROVE Known' <= SourceLimit + f.age
    <2>1. Known <= SourceLimit + f.age
      BY <1>3 DEF FrameOK
    <2> QED BY <1>1, <2>1, SMT
  <1> QED BY <1>2, <1>3

\* What the gateway samples is as old as the client's file allows.
LEMMA SampleOK ==
    ASSUME RestOK, ClientOK
    PROVE  Snapshot.stm32 => Known <= SourceLimit
  <1>1. ASSUME canFile = "online" PROVE Known <= SourceLimit
    <2>1. stops = 0 => heard <= OfflineAfter + client.idle
      BY <1>1 DEF ClientOK, ClientGood
    <2>2. client.idle \in 0..ClientPeriod
      BY Zenon DEF RestOK, ClientType
    <2> QED BY <2>1, <2>2, HeardTypes, Constants, SMT DEF SourceLimit, Known
  <1> QED BY <1>1 DEF Snapshot

\* Steps that change neither connections, link nor receiver.
LEMMA FramesUnchanged ==
    ASSUME ConnsOK, RestOK, RestOK', FramesOK, UNCHANGED <<conns, link, receiver>>,
           Known' <= Known, faults <= faults'
    PROVE  FramesOK'
  <1> SUFFICES ASSUME NEW i \in DOMAIN conns, NEW k \in DOMAIN conns[i].frames
               PROVE  /\ conns[i].frames[k].age <= AgeLimit(i)'
                      /\ conns[i].frames[k].stm32
                           => Known' <= SourceLimit + conns[i].frames[k].age
    BY Zenon DEF FramesOK, FrameOK
  <1>1. ConnsOK'
    BY DEF ConnsOK
  <1>2. AgeLimit(i) \in Nat /\ AgeLimit(i)' \in Nat /\ Charges(i) \in Nat /\ Charges(i)' \in Nat
    <2>1. LimitsOK /\ LimitsOK'
      BY <1>1, LimitTypes, PTL
    <2> QED BY <2>1 DEF LimitsOK
  <1>3. AgeLimit(i) <= AgeLimit(i)'
    <2>1. i \in 1..MaxConns /\ Waited \in 0..SocketTimeout
      BY Limits
    <2>2. faults \in Nat /\ faults' \in Nat
      BY HeardTypes, Constants, SMT DEF RestOK
    <2>3. Charges(i) <= Charges(i)'
      BY <2>1, <2>2, Constants, SMT DEF Charges
    <2>4. SocketTimeout * Charges(i) <= SocketTimeout * Charges(i)'
      BY <1>2, <2>3, Multiples
    <2> DEFINE w == IF link /\ Front.frames # <<>> THEN 0 ELSE Waited
    <2>5. w \in 0..SocketTimeout /\ AgeLimit(i) = SocketTimeout * Charges(i) + w
          /\ AgeLimit(i)' = SocketTimeout * Charges(i)' + w
      BY <2>1, Ranges, Zenon DEF AgeLimit, Front, Waited, Serving
    <2>6. SocketTimeout * Charges(i) \in Nat /\ SocketTimeout * Charges(i)' \in Nat
      BY <1>2, Multiples
    <2> HIDE DEF w
    <2> QED BY <2>4, <2>5, <2>6, SMT
  <1>4. conns[i].frames[k] \in Frames /\ FrameOK(conns[i].frames[k], AgeLimit(i))
    <2>1. conns[i].frames \in Seq(Frames)
      BY ConnTypes
    <2>2. \A s \in Seq(Frames) : \A l \in DOMAIN s : s[l] \in Frames
      BY SMT
    <2> QED BY <2>1, <2>2 DEF FramesOK
  <1>5. Known' \in Nat
    BY Constants, SMT DEF RestOK, Known
  <1> QED BY <1>2, <1>3, <1>4, <1>5, Carry

\* What is added to the charges.
Extra == IF link /\ Front.frames # <<>> THEN 0 ELSE Waited

LEMMA ExtraType == ASSUME RestOK PROVE Extra \in 0..SocketTimeout
  BY Ranges, Zenon DEF Extra, Waited, RestOK, ReceiverType

LEMMA Sums ==
    \A t, c, d \in Nat : \A e, f \in 0..t :
        /\ c + t <= d => c + e <= d + f
        /\ c <= d /\ e <= f => c + e <= d + f
  BY SMT

\* A limit does not fall when one more is charged, or when neither part falls.
LEMMA LimitGrows ==
    ASSUME ConnsOK, RestOK, ConnsOK', RestOK', NEW i \in DOMAIN conns', NEW j \in DOMAIN conns,
           \/ Charges(j) + 1 <= Charges(i)'
           \/ Charges(j) <= Charges(i)' /\ Extra <= Extra'
    PROVE  AgeLimit(j) <= AgeLimit(i)'
  <1>1. LimitsOK /\ LimitsOK'
    BY LimitTypes, PTL
  <1>2. Charges(j) \in Nat /\ Charges(i)' \in Nat
    BY <1>1 DEF LimitsOK
  <1> DEFINE c == SocketTimeout * Charges(j)
             d == SocketTimeout * Charges(i)'
  <1>3. c \in Nat /\ d \in Nat
    BY <1>2, Multiples
  <1>4. Extra \in 0..SocketTimeout /\ Extra' \in 0..SocketTimeout
    <2>1. RestOK => Extra \in 0..SocketTimeout
      BY ExtraType
    <2>2. Extra' \in 0..SocketTimeout
      BY Ranges, Zenon DEF Extra, Waited, RestOK, ReceiverType
    <2> QED BY <2>1, <2>2
  <1>5. AgeLimit(j) = c + Extra /\ AgeLimit(i)' = d + Extra'
    BY DEF AgeLimit, Extra
  <1>6. CASE Charges(j) + 1 <= Charges(i)'
    <2>1. SocketTimeout * (Charges(j) + 1) <= d
      <3>1. Charges(j) + 1 \in Nat
        BY <1>2, SMT
      <3> QED BY <1>2, <1>6, <3>1, Multiples
    <2>2. c + SocketTimeout <= d
      BY <1>2, <2>1, Multiples
    <2> QED BY <1>3, <1>4, <1>5, <2>2, Constants, Sums, Zenon
  <1>7. CASE Charges(j) <= Charges(i)' /\ Extra <= Extra'
    <2>1. c <= d
      BY <1>2, <1>7, Multiples
    <2> QED BY <1>3, <1>4, <1>5, <1>7, <2>1, Constants, Sums, Zenon
  <1> QED BY <1>6, <1>7

\* Frames keep their age when they move, and a new one has none.
LEMMA FramesMove ==
    ASSUME ConnsOK, RestOK, ConnsOK', RestOK', FramesOK, ClientOK, Known' = Known,
           \A i \in DOMAIN conns' : \A k \in DOMAIN conns'[i].frames :
              \/ conns'[i].frames[k] = Snapshot
              \/ \E j \in DOMAIN conns : \E l \in DOMAIN conns[j].frames :
                    /\ conns'[i].frames[k] = conns[j].frames[l]
                    /\ AgeLimit(j) <= AgeLimit(i)'
    PROVE  FramesOK'
  <1> SUFFICES ASSUME NEW i \in DOMAIN conns', NEW k \in DOMAIN conns'[i].frames
               PROVE  /\ conns'[i].frames[k].age <= AgeLimit(i)'
                      /\ conns'[i].frames[k].stm32
                           => Known' <= SourceLimit + conns'[i].frames[k].age
    BY Zenon DEF FramesOK, FrameOK
  <1>1. LimitsOK /\ LimitsOK'
    BY LimitTypes, PTL
  <1>2. Known' \in Nat /\ Known \in Nat
    BY HeardTypes
  <1>3. CASE conns'[i].frames[k] = Snapshot
    <2>1. Snapshot.age = 0 /\ (Snapshot.stm32 => Known <= SourceLimit)
      BY SnapshotType, SampleOK
    <2>2. AgeLimit(i)' \in Nat
      BY <1>1 DEF LimitsOK
    <2>3. 0 <= AgeLimit(i)' /\ SourceLimit + 0 = SourceLimit
      BY <2>2, Constants, SMT
    <2> QED BY <1>3, <2>1, <2>3
  <1>4. CASE conns'[i].frames[k] # Snapshot
    <2>0. PICK j \in DOMAIN conns : \E l \in DOMAIN conns[j].frames :
             /\ conns'[i].frames[k] = conns[j].frames[l] /\ AgeLimit(j) <= AgeLimit(i)'
      BY <1>4
    <2>1. PICK l \in DOMAIN conns[j].frames :
             /\ conns'[i].frames[k] = conns[j].frames[l] /\ AgeLimit(j) <= AgeLimit(i)'
      BY <2>0
    <2>2. conns[j].frames[l] \in Frames
      <3>1. conns[j].frames \in Seq(Frames)
        BY ConnTypes
      <3>2. \A s \in Seq(Frames) : \A m \in DOMAIN s : s[m] \in Frames
        BY SMT
      <3> QED BY <3>1, <3>2
    <2>3. FrameOK(conns[j].frames[l], AgeLimit(j)) /\ AgeLimit(j) \in Nat /\ AgeLimit(i)' \in Nat
      BY <1>1 DEF FramesOK, LimitsOK
    <2>4. Known' <= Known
      BY <1>2, SMT
    <2> QED BY <1>2, <2>1, <2>2, <2>3, <2>4, Carry
  <1> QED BY <1>3, <1>4

LEMMA LinkAndAcceptFrames ==
    ASSUME ConnsOK, RestOK, RestOK', Structure, FramesOK, ClientOK,
           LinkDown \/ LinkUp \/ Accept \/ ReceiverStarts
    PROVE  FramesOK'
  <1>1. conns' = conns /\ Known' = Known /\ ConnsOK'
    BY DEF LinkDown, LinkUp, Accept, ReceiverStarts, canSide, ConnsOK, Known
  <1>2. faults \in Nat /\ faults' \in Nat /\ LimitsOK
    BY HeardTypes, LimitTypes, Constants, SMT DEF RestOK
  <1>3. ASSUME NEW i \in DOMAIN conns, NEW k \in DOMAIN conns[i].frames
        PROVE  AgeLimit(i) <= AgeLimit(i)'
    <2>0. i \in 1..MaxConns /\ Waited \in 0..SocketTimeout
      BY Limits
    <2>1. CASE LinkDown
      <3>1. Charges(i) <= Charges(i)'
        BY <1>2, <2>0, <2>1, Constants, SMT DEF LinkDown, Fault, Charges
      <3>2. Extra \in {0, Waited} /\ Extra' = Waited
        BY <2>1, Zenon DEF LinkDown, Extra, Waited, Serving
      <3>3. Extra <= Extra'
        BY <2>0, <3>2, Constants, SMT
      <3> QED BY <1>1, <3>1, <3>3, LimitGrows
    <2>2. CASE LinkUp
      <3>1. Charges(i) + 1 <= Charges(i)'
        BY <1>2, <2>0, <2>2, Constants, SMT DEF LinkUp, Charges
      <3> QED BY <1>1, <3>1, LimitGrows
    <2>3. CASE Accept
      <3>1. Charges(i)' = Charges(i)
        BY <2>3, Zenon DEF Accept, Charges
      <3>2. Extra = 0 /\ Extra' = 0
        <4>1. Waited = 0
          BY <2>3, Zenon DEF Accept, Waited
        <4>2. receiver'.idle = 0
          BY <2>3, Zenon DEF Accept, RestOK, ReceiverType
        <4> QED BY <4>1, <4>2, Zenon DEF Extra, Waited
      <3>3. Charges(i) <= Charges(i)' /\ Extra <= Extra'
        BY <1>2, <3>1, <3>2, SMT DEF LimitsOK
      <3> QED BY <1>1, <3>3, LimitGrows
    <2>4. CASE ReceiverStarts
      <3>1. conns = <<>>
        BY <2>4, Zenon DEF ReceiverStarts, Structure
      <3>2. DOMAIN conns = 1..0
        BY <3>1, ConnTypes
      <3>3. 1..0 = {}
        BY SMT
      <3> QED BY <3>2, <3>3, <1>3
    <2> QED BY <2>1, <2>2, <2>3, <2>4
  <1>4. ASSUME NEW i \in DOMAIN conns', NEW k \in DOMAIN conns'[i].frames
        PROVE  \E j \in DOMAIN conns : \E l \in DOMAIN conns[j].frames :
                    /\ conns'[i].frames[k] = conns[j].frames[l]
                    /\ AgeLimit(j) <= AgeLimit(i)'
    BY <1>1, <1>3, <1>4, Zenon
  <1> QED BY <1>1, <1>4, FramesMove

LEMMA GatewayFrames ==
    ASSUME ConnsOK, RestOK, ConnsOK', RestOK', Structure, FramesOK, ClientOK,
           Connect \/ SendData \/ SendTimesOut \/ GatewayDies
    PROVE  FramesOK'
  <1>1. GatewayConns /\ Known' = Known /\ link' = link /\ receiver' = receiver
    BY GatewaySteps DEF Connect, SendData, SendTimesOut, GatewayDies, canSide, Known
  <1>2. faults \in Nat /\ faults' \in Nat /\ faults <= faults'
    <2>1. faults' = faults \/ faults' = faults + 1
      BY Zenon DEF Connect, SendData, SendTimesOut, GatewayDies, Fault
    <2>2. faults \in Nat
      BY HeardTypes
    <2> QED BY <2>1, <2>2, SMT
  <1>3. ASSUME NEW i \in DOMAIN conns, i \in DOMAIN conns', NEW l \in DOMAIN conns[i].frames
        PROVE  AgeLimit(i) <= AgeLimit(i)'
    <2>0. i \in 1..MaxConns /\ Waited \in 0..SocketTimeout
      BY Limits
    <2>1. Charges(i) <= Charges(i)'
      BY <1>1, <1>2, <2>0, Constants, SMT DEF Charges
    <2>2. Waited' = Waited
      BY <1>1, Zenon DEF Waited, Serving
    <2>3. conns'[1] = conns[1] \/ Front.frames # <<>>
      <3>1. CASE i = 1
        <4>1. Front.frames \in Seq(Frames) /\ l \in DOMAIN Front.frames
          BY <1>3, <3>1, ConnTypes DEF Front
        <4>2. Front.frames # <<>>
          BY <4>1, SMT
        <4> QED BY <4>2
      <3>2. CASE i # 1
        <4>1. conns # <<>> /\ Len(conns) # 1
          BY <1>3, <3>2, ConnTypes, SMT
        <4> QED BY <1>1, <4>1 DEF GatewayConns
      <3> QED BY <3>1, <3>2
    <2>4. Extra' = Extra \/ Extra = 0
      BY <1>1, <2>2, <2>3, Zenon DEF Extra, Front
    <2>5. Extra \in 0..SocketTimeout /\ Extra' \in 0..SocketTimeout
      BY Ranges, Zenon DEF Extra, Waited, RestOK, ReceiverType
    <2>6. Extra <= Extra'
      BY <2>4, <2>5, Constants, SMT
    <2> QED BY <1>3, <2>1, <2>6, LimitGrows
  <1>4. ASSUME NEW i \in DOMAIN conns', NEW k \in DOMAIN conns'[i].frames
        PROVE  \/ conns'[i].frames[k] = Snapshot
               \/ \E j \in DOMAIN conns : \E l \in DOMAIN conns[j].frames :
                    /\ conns'[i].frames[k] = conns[j].frames[l]
                    /\ AgeLimit(j) <= AgeLimit(i)'
    <2>1. WasThere(i, k) \/ conns'[i].frames[k] = Snapshot
      BY <1>1 DEF GatewayConns
    <2> QED BY <1>3, <1>4, <2>1, Zenon DEF WasThere
  <1> QED BY <1>1, <1>4, FramesMove

LEMMA ReceiveFrames ==
    ASSUME ConnsOK, RestOK, ConnsOK', RestOK', Structure, FramesOK, ClientOK, Receive
    PROVE  FramesOK'
  <1>1. Known' = Known /\ faults' = faults /\ link' = link
    BY Zenon DEF Receive, canSide, Known
  <1>2. ASSUME NEW i \in DOMAIN conns, i \in DOMAIN conns'
        PROVE  AgeLimit(i) <= AgeLimit(i)'
    <2>1. Charges(i)' = Charges(i) /\ Charges(i) \in Nat
      BY <1>1, LimitTypes, Zenon DEF Charges, LimitsOK
    <2>2. Extra = 0
      BY Zenon DEF Receive, Extra
    <2>3. Extra' \in 0..SocketTimeout
      BY Ranges, Zenon DEF Extra, Waited, RestOK, ReceiverType
    <2>4. Charges(i) <= Charges(i)' /\ Extra <= Extra'
      BY <2>1, <2>2, <2>3, Constants, SMT
    <2> QED BY <1>2, <2>4, LimitGrows
  <1>3. \A i \in DOMAIN conns' : \A k \in DOMAIN conns'[i].frames : WasThere(i, k)
    BY ReceiveConns
  <1>4. ASSUME NEW i \in DOMAIN conns', NEW k \in DOMAIN conns'[i].frames
        PROVE  \E j \in DOMAIN conns : \E l \in DOMAIN conns[j].frames :
                    /\ conns'[i].frames[k] = conns[j].frames[l]
                    /\ AgeLimit(j) <= AgeLimit(i)'
    BY <1>2, <1>3, <1>4, Zenon DEF WasThere
  <1> QED BY <1>1, <1>4, FramesMove

LEMMA CloseFrames ==
    ASSUME ConnsOK, RestOK, ConnsOK', RestOK', Structure, FramesOK, ClientOK,
           Disconnected \/ ReceiveTimeout \/ ProtocolError
    PROVE  FramesOK'
  <1>1. CloseClient /\ conns # <<>> /\ Known' = Known /\ link' = link
    BY Zenon DEF Disconnected, ReceiveTimeout, ProtocolError, CloseClient, Structure, canSide, Known
  <1>2. faults \in Nat /\ faults' \in Nat /\ faults <= faults'
    <2>1. faults' = faults \/ faults' = faults + 1
      BY Zenon DEF Disconnected, ReceiveTimeout, ProtocolError
    <2>2. faults \in Nat
      BY HeardTypes
    <2> QED BY <2>1, <2>2, SMT
  <1>3. \A i \in DOMAIN conns' : i \in Nat /\ i + 1 \in DOMAIN conns /\ conns'[i] = conns[i + 1]
    BY <1>1, CloseConns
  <1>4. ASSUME NEW i \in DOMAIN conns'
        PROVE  AgeLimit(i + 1) <= AgeLimit(i)'
    <2>1. i + 1 \in DOMAIN conns /\ i + 1 \in 1..MaxConns /\ i \in Nat
      <3>1. i \in Nat /\ i + 1 \in DOMAIN conns
        BY <1>3
      <3> QED BY <3>1, Limits
    <2>2. Charges(i + 1) + 1 <= Charges(i)'
      BY <1>1, <1>2, <2>1, Constants, SMT DEF Charges
    <2> QED BY <1>4, <2>1, <2>2, LimitGrows
  <1>5. ASSUME NEW i \in DOMAIN conns', NEW k \in DOMAIN conns'[i].frames
        PROVE  \E j \in DOMAIN conns : \E l \in DOMAIN conns[j].frames :
                    /\ conns'[i].frames[k] = conns[j].frames[l]
                    /\ AgeLimit(j) <= AgeLimit(i)'
    BY <1>3, <1>4, <1>5, Zenon
  <1> QED BY <1>1, <1>5, FramesMove

LEMMA ReceiverDiesFrames == ASSUME ConnsOK', ReceiverDies PROVE FramesOK'
  <1>1. conns' = <<>>
    BY DEF ReceiverDies
  <1>2. DOMAIN conns' = {}
    BY <1>1, SMT
  <1> QED BY <1>2, Zenon DEF FramesOK

\* Time passes only while the receiver waits for the front connection, and then
\* either the link is down or nothing has come on that connection.
LEMMA TickFrames ==
    ASSUME ConnsOK, RestOK, ConnsOK', RestOK', Structure, FramesOK, Tick
    PROVE  FramesOK'
  <1> SUFFICES ASSUME NEW i \in DOMAIN conns', NEW k \in DOMAIN conns'[i].frames
               PROVE  /\ conns'[i].frames[k].age <= AgeLimit(i)'
                      /\ conns'[i].frames[k].stm32
                           => Known' <= SourceLimit + conns'[i].frames[k].age
    BY Zenon DEF FramesOK, FrameOK
  <1>1. /\ i \in DOMAIN conns /\ k \in DOMAIN conns[i].frames
        /\ conns[i].frames[k] \in Frames
        /\ conns'[i].frames[k].age = conns[i].frames[k].age + 1
        /\ conns'[i].frames[k].stm32 = conns[i].frames[k].stm32
    BY TickConns
  <1>2. Serving
    <2>1. conns # <<>>
      <3>1. i \in 1..Len(conns) /\ Len(conns) \in Nat
        BY <1>1, ConnTypes
      <3> QED BY <3>1, ConnTypes, SMT
    <2>2. receiver.up
      BY <2>1, Zenon DEF Structure
    <2> QED BY <2>1, <2>2, Zenon DEF Tick, ReceiverQuiet
  <1>3. ~(link /\ Front.frames # <<>>) /\ link' = link
    BY <1>2, Zenon DEF Tick, ReceiverQuiet
  <1>4. ~(link' /\ Front.frames' # <<>>)
    <2>1. CASE ~link
      BY <1>3, <2>1
    <2>2. CASE link
      <3>1. Front.frames = <<>>
        BY <1>3, <2>2
      <3>2. 1 \in DOMAIN conns
        <4>1. i \in 1..Len(conns) /\ Len(conns) \in Nat /\ DOMAIN conns = 1..Len(conns)
          BY <1>1, ConnTypes
        <4> QED BY <4>1, SMT
      <3>3. conns'[1].frames = OlderFrames(conns[1].frames)
        <4>1. conns'[1] = [conns[1] EXCEPT !.frames = OlderFrames(@)]
          BY <3>2, Zenon DEF Tick
        <4>2. conns[1] \in Conn
          BY <3>2, ConnTypes
        <4> QED BY <4>1, <4>2, Zenon DEF Conn
      <3>4. conns'[1].frames = <<>>
        BY <3>1, <3>3, SMT DEF OlderFrames, Front
      <3> QED BY <3>4 DEF Front
    <2> QED BY <2>1, <2>2
  <1>5. Extra = receiver.idle /\ Extra' = receiver.idle + 1 /\ receiver.idle \in Nat
    <2>1. receiver'.idle = receiver.idle + 1 /\ receiver'.serving
      BY <1>2, Zenon DEF Tick, Serving, RestOK, ReceiverType
    <2>2. receiver.idle \in 0..SocketTimeout
      BY Zenon DEF RestOK, ReceiverType
    <2>3. receiver.idle \in Nat
      BY <2>2, Constants, SMT
    <2> QED BY <1>2, <1>3, <1>4, <2>1, <2>3, Zenon DEF Extra, Waited, Serving
  <1>6. Charges(i)' = Charges(i) /\ SocketTimeout * Charges(i) \in Nat
    <2>1. faults' = faults /\ link' = link
      BY Zenon DEF Tick
    <2>2. Charges(i) \in Nat
      BY <1>1, LimitTypes DEF LimitsOK
    <2> QED BY <2>1, <2>2, Multiples, Zenon DEF Charges
  <1>7. AgeLimit(i)' = AgeLimit(i) + 1
    <2> DEFINE c == SocketTimeout * Charges(i)
    <2>1. AgeLimit(i) = c + receiver.idle /\ AgeLimit(i)' = c + (receiver.idle + 1)
      BY <1>5, <1>6, Zenon DEF AgeLimit, Extra
    <2>2. \A a, b \in Nat : a + (b + 1) = (a + b) + 1
      BY SMT
    <2> QED BY <1>5, <1>6, <2>1, <2>2, Zenon
  <1>8. /\ conns[i].frames[k].age \in Nat
        /\ FrameOK(conns[i].frames[k], AgeLimit(i))
        /\ AgeLimit(i) \in Nat
    BY <1>1, LimitTypes, Zenon DEF FramesOK, Frames, LimitsOK
  <1>9. Known' \in Nat /\ Known' <= Known + 1 /\ Known \in Nat
    BY HeardTypes, Constants, SMT DEF Tick, Older, Known, RestOK
  <1>10. \A a, b \in Nat : a <= b => a + 1 <= b + 1
    BY SMT
  <1>11. \A h, g, a \in Nat : h <= SourceLimit + a /\ g <= h + 1 => g <= SourceLimit + (a + 1)
    BY Constants, SMT
  <1> QED BY <1>1, <1>7, <1>8, <1>9, <1>10, <1>11, Zenon DEF FrameOK

----------------------------------------------------------------------------
(* Client and display *)

LEMMA GoodSteps ==
    ASSUME RestOK, RestOK', ClientGood, [Next]_vars, stops' = 0
    PROVE  ClientGood'
  <1>0. heard \in Nat /\ client \in ClientType /\ client.idle \in Nat
    <2>1. client.idle \in 0..ClientPeriod
      BY Zenon DEF RestOK, ClientType
    <2> QED BY <2>1, Constants, SMT DEF RestOK
  <1>1. ASSUME NEW frame \in {"none", "valid", "corrupt"}, ClientLoop(frame)
        PROVE  ClientGood'
    <2> DEFINE online == frame = "valid" \/ (client.online /\ ~TimedOut)
    <2>1. /\ client'.up = client.up /\ client'.online = online /\ client'.idle = 0
          /\ heard' = IF frame = "valid" THEN 0 ELSE heard
          /\ canFile' = IF frame # "none" /\ ~client.wrote THEN FlagOf(online)
                        ELSE IF TimedOut THEN "offline" ELSE canFile
      BY <1>0, <1>1, Zenon DEF ClientLoop, ClientType
    <2>2. ASSUME online PROVE heard' <= OfflineAfter + 0
      <3>1. CASE frame = "valid"
        BY <2>1, <3>1, Constants, SMT
      <3>2. CASE frame # "valid"
        <4>1. ~(heard > OfflineAfter)
          BY <2>2, <3>2 DEF TimedOut
        <4> QED BY <1>0, <2>1, <3>2, <4>1, Constants, SMT
      <3> QED BY <3>1, <3>2
    <2>3. canFile' = "online" => online
      <3>1. CASE frame # "none" /\ ~client.wrote
        BY <2>1, <3>1 DEF FlagOf
      <3>2. CASE ~(frame # "none" /\ ~client.wrote)
        BY <2>1, <3>2, Zenon DEF ClientGood
      <3> QED BY <3>1, <3>2
    <2> HIDE DEF online
    <2> QED BY <2>1, <2>2, <2>3, Zenon DEF ClientGood
  <1>2. ~ClientStops /\ ~ClientStarts
    <2>1. stops' # stops + 1
      <3>1. stops \in 0..MaxStops
        BY Zenon DEF RestOK
      <3> QED BY <3>1, Constants, SMT
    <2> QED BY <2>1 DEF ClientStops, ClientStarts, ClientGood
  <1>3. ASSUME Tick PROVE ClientGood'
    <2>1. heard' <= heard + 1 /\ heard' \in Nat
      BY <1>0, <1>3, Constants, SMT DEF Tick, Older
    <2>2. /\ client'.up = client.up /\ client'.online = client.online
          /\ client'.idle = client.idle + 1 /\ canFile' = canFile
      BY <1>0, <1>3, Zenon DEF Tick, ClientGood, ClientType
    <2>3. \A h, g, a \in Nat : h <= OfflineAfter + a /\ g <= h + 1 => g <= OfflineAfter + (a + 1)
      BY Constants, SMT
    <2> QED BY <1>0, <2>1, <2>2, <2>3, Zenon DEF ClientGood
  <1>4. ASSUME UNCHANGED <<heard, client, canFile>> PROVE ClientGood'
    BY <1>4, Zenon DEF ClientGood
  <1>5. CASE UNCHANGED vars
    BY <1>4, <1>5 DEF vars, canSide
  <1>6. CASE Next
    <2>1. \/ \E frame \in {"none", "valid", "corrupt"} : ClientLoop(frame)
          \/ Tick \/ UNCHANGED <<heard, client, canFile>>
      BY <1>2, <1>6, Zenon DEF Next, Client, Gateway, Receiver, Repair, Failure, Connect,
         ConnectFails, SendData, SendReturns, SendTimesOut, SendOnReset, Accept, Receive,
         Disconnected, ReceiveTimeout, ProtocolError, CloseClient, PollNow, NodeBack, LinkUp,
         GatewayStarts, ReceiverStarts, NodeSilent, LinkDown, GatewayDies, ReceiverDies, canSide
    <2> QED BY <1>1, <1>3, <1>4, <2>1
  <1> QED BY <1>5, <1>6

\* A stop is not undone.
LEMMA StopsStay == ASSUME RestOK, stops' = 0, [Next]_vars PROVE stops = 0
  <1>1. stops' = stops \/ stops' = stops + 1
    <2>1. CASE UNCHANGED vars
      BY <2>1 DEF vars, canSide
    <2>2. CASE Next
      BY <2>2, Zenon DEF Next, Client, ClientLoop, Gateway, Receiver, Repair, Failure, Connect,
         ConnectFails, SendData, SendReturns, SendTimesOut, SendOnReset, Accept, Receive,
         Disconnected, ReceiveTimeout, ProtocolError, CloseClient, PollNow, NodeBack, LinkUp,
         Tick, GatewayStarts, ReceiverStarts, ClientStarts, ClientStops, NodeSilent, LinkDown,
         GatewayDies, ReceiverDies, canSide
    <2> QED BY <2>1, <2>2
  <1>2. stops \in 0..MaxStops
    BY Zenon DEF RestOK
  <1> QED BY <1>1, <1>2, Constants, SMT

LEMMA ClientSteps == ASSUME RestOK, RestOK', ClientOK, [Next]_vars PROVE ClientOK'
  <1> SUFFICES ASSUME stops' = 0 PROVE ClientGood'
    BY DEF ClientOK
  <1>1. ClientGood
    BY StopsStay DEF ClientOK
  <1> QED BY <1>1, GoodSteps

\* What is known of the node gets older with time only.
LEMMA KnownFalls ==
    ASSUME RestOK, [Next]_vars, heard' \in {0, heard}
    PROVE  Known' \in {0, Known}
  <1>1. CASE stops' = 0
    <2>1. stops = 0
      BY <1>1, StopsStay
    <2> QED BY <1>1, <2>1, Zenon DEF Known
  <1>2. CASE stops' # 0
    BY <1>2, Zenon DEF Known
  <1> QED BY <1>1, <1>2

LEMMA FrameLimits ==
    ASSUME RestOK, RestOK', faults <= faults'
    PROVE  FrameLimit \in Nat /\ FrameLimit' \in Nat /\ FrameLimit <= FrameLimit'
  <1>1. /\ MaxConns + faults \in Nat /\ MaxConns + faults' \in Nat
        /\ MaxConns + faults <= MaxConns + faults'
    <2>1. faults \in 0..MaxFaults /\ faults' \in 0..MaxFaults
      BY Zenon DEF RestOK
    <2>2. \A m \in Nat : \A a, b \in 0..MaxFaults :
             m + a \in Nat /\ m + b \in Nat /\ (a <= b => m + a <= m + b)
      BY Constants, SMT
    <2> QED BY <2>1, <2>2, Constants, Zenon
  <1> QED BY <1>1, Multiples, Zenon DEF FrameLimit

LEMMA FaultsGrow == ASSUME RestOK, RestOK', [Next]_vars PROVE faults <= faults'
  <1>1. faults' = faults \/ faults' = faults + 1
    <2>1. CASE UNCHANGED vars
      BY <2>1 DEF vars
    <2>2. CASE Next
      BY <2>2, Zenon DEF Next, Client, ClientLoop, Gateway, Receiver, Repair, Failure, Connect,
         ConnectFails, SendData, SendReturns, SendTimesOut, SendOnReset, Accept, Receive,
         Disconnected, ReceiveTimeout, ProtocolError, PollNow, NodeBack, LinkUp, Tick,
         GatewayStarts, ReceiverStarts, ClientStarts, ClientStops, NodeSilent, LinkDown,
         GatewayDies, ReceiverDies, Fault, canSide
    <2> QED BY <2>1, <2>2
  <1>2. faults \in Nat
    BY HeardTypes
  <1> QED BY <1>1, <1>2, SMT

\* The bound with the charges spelled out gives the one that is claimed.
LEMMA RecentFrames == ASSUME ConnsOK, RestOK, FramesOK PROVE FramesAreRecent
  <1> SUFFICES ASSUME NEW i \in DOMAIN conns, NEW k \in DOMAIN conns[i].frames
               PROVE  conns[i].frames[k].age <= FrameLimit
    BY DEF FramesAreRecent
  <1>1. /\ i \in 1..MaxConns /\ Charges(i) \in Nat /\ AgeLimit(i) \in Nat
        /\ AgeLimit(i) <= SocketTimeout * Charges(i) + SocketTimeout
    BY Limits
  <1>2. conns[i].frames[k].age \in Nat /\ conns[i].frames[k].age <= AgeLimit(i)
    <2>1. conns[i].frames \in Seq(Frames)
      BY ConnTypes
    <2>2. conns[i].frames[k] \in Frames
      BY <2>1, SMT
    <2> QED BY <2>2, Zenon DEF FramesOK, FrameOK, Frames
  <1>3. faults \in Nat /\ MaxConns + faults \in Nat /\ FrameLimit \in Nat
    <2>1. faults \in Nat /\ MaxConns + faults \in Nat
      BY HeardTypes, Constants, SMT
    <2> QED BY <2>1, Multiples DEF FrameLimit
  <1>4. CASE Charges(i) + 1 <= MaxConns + faults
    <2>1. Charges(i) + 1 \in Nat
      BY <1>1, SMT
    <2>2. SocketTimeout * (Charges(i) + 1) <= FrameLimit
      BY <1>3, <1>4, <2>1, Multiples DEF FrameLimit
    <2>3. AgeLimit(i) <= FrameLimit
      <3>1. SocketTimeout * Charges(i) + SocketTimeout <= FrameLimit
        BY <1>1, <2>2, Multiples
      <3>2. SocketTimeout * Charges(i) + SocketTimeout \in Nat
        <4>1. SocketTimeout * Charges(i) \in Nat
          BY <1>1, Multiples
        <4>2. \A n \in Nat : n + SocketTimeout \in Nat
          BY Constants, SMT
        <4> QED BY <4>1, <4>2
      <3>3. \A a, b, c \in Nat : a <= b /\ b <= c => a <= c
        BY SMT
      <3> QED BY <1>1, <1>3, <3>1, <3>2, <3>3
    <2> QED BY <1>1, <1>2, <1>3, <2>3, SMT
  <1>5. CASE ~(Charges(i) + 1 <= MaxConns + faults)
    <2>1. link /\ i = 1 /\ Charges(i) = MaxConns + faults
      <3>1. CASE link
        BY <1>1, <1>3, <1>5, <3>1, Constants, SMT DEF Charges
      <3>2. CASE ~link
        BY <1>1, <1>3, <1>5, <3>2, Constants, SMT DEF Charges
      <3> QED BY <3>1, <3>2
    <2>2. Front.frames # <<>>
      <3>1. Front.frames \in Seq(Frames) /\ k \in DOMAIN Front.frames
        BY <2>1, ConnTypes DEF Front
      <3> QED BY <3>1, SMT
    <2>3. AgeLimit(i) = FrameLimit + 0
      BY <2>1, <2>2 DEF AgeLimit, FrameLimit
    <2> QED BY <1>2, <1>3, <2>3, SMT
  <1> QED BY <1>4, <1>5

\* The state file and the display.
LEMMA DisplaySteps ==
    ASSUME ConnsOK, RestOK, RestOK', Structure, FramesOK, FileOK, ViewOK, [Next]_vars
    PROVE  FileOK' /\ ViewOK'
  <1>1. /\ Known \in Nat /\ Known' \in Nat /\ dispAge \in Nat /\ dispAge' \in Nat
        /\ FrameLimit \in Nat /\ FrameLimit' \in Nat /\ FrameLimit <= FrameLimit'
        /\ SourceLimit \in Nat /\ StaleAfter \in Nat
    <2>1. Known \in Nat /\ Known' \in Nat /\ dispAge \in Nat /\ dispAge' \in Nat
      BY HeardTypes, Constants, SMT DEF RestOK, Known
    <2> QED BY <2>1, FrameLimits, FaultsGrow, Constants
  <1> DEFINE late == IF polled THEN 0 ELSE 1
  <1>2. late \in Nat /\ late' \in Nat
    BY SMT
  <1>3. ASSUME Known' <= Known, UNCHANGED <<dispFile, dispAge>>
        PROVE  FileOK'
    <2>1. \A l, m, a, h, g \in Nat :
             l <= m /\ g <= h /\ h <= SourceLimit + l + a => g <= SourceLimit + m + a
      BY <1>1, SMT
    <2> QED BY <1>1, <1>3, <2>1, Zenon DEF FileOK
  <1>4. ASSUME Known' <= Known, UNCHANGED <<view, polled>>
        PROVE  ViewOK'
    <2>1. \A l, m, a, h, g \in Nat :
             l <= m /\ g <= h /\ h <= SourceLimit + l + StaleAfter + a
             => g <= SourceLimit + m + StaleAfter + a
      BY <1>1, SMT
    <2> QED BY <1>1, <1>2, <1>4, <2>1, Zenon DEF ViewOK
  <1>5. ASSUME dispFile' = OfflineFile PROVE FileOK'
    BY <1>5, Zenon DEF FileOK, OfflineFile
  <1>6. ASSUME Receive PROVE FileOK' /\ ViewOK'
    <2>1. Known' <= Known /\ UNCHANGED <<view, polled>>
      <3>1. Known' = Known /\ UNCHANGED <<view, polled>>
        BY <1>6, Zenon DEF Receive, canSide, Known
      <3> QED BY <1>1, <3>1, SMT
    <2>2. CASE receiver.wrote
      <3>1. UNCHANGED <<dispFile, dispAge>>
        BY <1>6, <2>2 DEF Receive
      <3> QED BY <1>3, <1>4, <2>1, <3>1
    <2>3. CASE ~receiver.wrote
      <3>1. dispAge' = 0 /\ dispFile' = [online |-> TRUE, stm32 |-> Head(conns[1].frames).stm32]
        BY <1>6, <2>3 DEF Receive, Front
      <3>2. PICK l \in DOMAIN conns[1].frames : Head(conns[1].frames) = conns[1].frames[l]
        BY <1>6, ReceiveConns
      <3>3. 1 \in DOMAIN conns
        BY <1>6, ConnTypes DEF Receive, Structure
      <3>4. /\ conns[1].frames[l].age <= FrameLimit
            /\ conns[1].frames[l].stm32 => Known <= SourceLimit + conns[1].frames[l].age
        BY <3>3, RecentFrames DEF FramesAreRecent, FramesOK, FrameOK
      <3>5. conns[1].frames[l].age \in Nat
        BY <1>6, <3>2, ReceiveConns DEF Frames
      <3>6. conns[1].frames[l].stm32 => Known' <= SourceLimit + FrameLimit' + 0
        <4>1. \A l1, m, a, h, g \in Nat :
                 l1 <= m /\ g <= h /\ a <= l1 /\ h <= SourceLimit + a => g <= SourceLimit + m + 0
          BY <1>1, SMT
        <4>2. FrameLimit \in Nat /\ FrameLimit' \in Nat /\ FrameLimit <= FrameLimit'
              /\ Known \in Nat /\ Known' \in Nat
          BY <1>1
        <4>3. ASSUME conns[1].frames[l].stm32
              PROVE  Known' <= SourceLimit + FrameLimit' + 0
          BY <2>1, <3>4, <3>5, <4>1, <4>2, <4>3, Zenon
        <4> QED BY <4>3
      <3>7. FileOK'
        BY <3>1, <3>2, <3>6, Zenon DEF FileOK
      <3> QED BY <1>4, <2>1, <3>7
    <2> QED BY <2>2, <2>3
  <1>7. ASSUME PollNow PROVE FileOK' /\ ViewOK'
    <2>1. Known' = Known /\ UNCHANGED <<dispFile, dispAge>> /\ polled' = TRUE
      BY <1>7, Zenon DEF PollNow, canSide, Known
    <2>2. view'.stm32 => dispAge <= StaleAfter /\ dispFile.stm32
      BY <1>7, Zenon DEF PollNow
    <2>3. \A l, m, a, h \in Nat :
             l <= m /\ a <= StaleAfter /\ h <= SourceLimit + l + a
             => h <= SourceLimit + m + StaleAfter + 0
      BY <1>1, SMT
    <2>4. ViewOK'
      BY <1>1, <2>1, <2>2, <2>3, Zenon DEF FileOK, ViewOK
    <2>5. Known' <= Known
      BY <1>1, <2>1, SMT
    <2> QED BY <1>3, <2>1, <2>4, <2>5
  <1>8. ASSUME Tick PROVE FileOK' /\ ViewOK'
    <2>1. /\ Known' <= Known + 1
          /\ dispAge' <= StaleAfter => dispAge' = dispAge + 1 /\ dispAge <= StaleAfter
      <3>1. heard \in Nat /\ dispAge \in 0..StaleAfter + 1
        BY Constants, SMT DEF RestOK
      <3> QED BY <1>1, <1>8, <3>1, Constants, SMT DEF Tick, Older, Known
    <2>2. UNCHANGED <<dispFile, view>> /\ polled = TRUE /\ polled' = FALSE
      BY <1>8, Zenon DEF Tick
    <2>3. \A l, m, a, h, g \in Nat :
             l <= m /\ g <= h + 1 /\ h <= SourceLimit + l + a => g <= SourceLimit + m + (a + 1)
      BY <1>1, SMT
    <2>4. FileOK'
      BY <1>1, <2>1, <2>2, <2>3, Zenon DEF FileOK
    <2>5. \A l, m, h, g \in Nat :
             l <= m /\ g <= h + 1 /\ h <= SourceLimit + l + StaleAfter + 0
             => g <= SourceLimit + m + StaleAfter + 1
      BY <1>1, SMT
    <2>6. ViewOK'
      BY <1>1, <2>1, <2>2, <2>5, Zenon DEF ViewOK
    <2> QED BY <2>4, <2>6
  <1>9. ASSUME NEW frame \in {"none", "valid", "corrupt"}, ClientLoop(frame)
        PROVE  FileOK' /\ ViewOK'
    <2>1. Known' \in {0, Known} /\ UNCHANGED <<dispFile, dispAge, view, polled>>
      <3>1. heard' \in {0, heard} /\ UNCHANGED <<dispFile, dispAge, view, polled>>
        BY <1>9, Zenon DEF ClientLoop, display
      <3> QED BY <3>1, KnownFalls
    <2>2. Known' <= Known
      BY <1>1, <2>1, SMT
    <2> QED BY <1>3, <1>4, <2>1, <2>2
  <1>10. ASSUME Known' \in {0, Known}, UNCHANGED <<view, polled>>,
                dispFile' = OfflineFile \/ UNCHANGED <<dispFile, dispAge>>
         PROVE  FileOK' /\ ViewOK'
    <2>1. Known' <= Known
      BY <1>1, <1>10, SMT
    <2> QED BY <1>3, <1>4, <1>5, <1>10, <2>1
  <1>11. CASE UNCHANGED vars
    BY <1>10, <1>11 DEF vars, canSide, display, Known
  <1>12. CASE Next
    <2>1. \/ \E frame \in {"none", "valid", "corrupt"} : ClientLoop(frame)
          \/ Receive \/ PollNow \/ Tick
          \/ /\ heard' \in {0, heard} /\ UNCHANGED <<view, polled>>
             /\ dispFile' = OfflineFile \/ UNCHANGED <<dispFile, dispAge>>
      BY <1>12, Zenon DEF Next, Client, Gateway, Receiver, Repair, Failure, Connect,
         ConnectFails, SendData, SendReturns, SendTimesOut, SendOnReset, Accept,
         Disconnected, ReceiveTimeout, ProtocolError, CloseClient, NodeBack, LinkUp,
         GatewayStarts, ReceiverStarts, ClientStarts, ClientStops, NodeSilent, LinkDown,
         GatewayDies, ReceiverDies, canSide, display
    <2> QED BY <1>6, <1>7, <1>8, <1>9, <1>10, <2>1, KnownFalls
  <1> QED BY <1>11, <1>12

----------------------------------------------------------------------------
(* The theorems *)

LEMMA InitInv == Init => IInv
  <1> SUFFICES ASSUME Init PROVE IInv
    OBVIOUS
  <1>1. TypeOK /\ Structure
    BY InitTypes
  <1>2. ClientOK
    BY Zenon DEF Init, ClientOK, ClientGood
  <1>3. FramesOK
    <2> DEFINE Left == [frames |-> <<>>, open |-> TRUE]
    <2>1. conns \in {<<>>, <<Left>>}
      BY Zenon DEF Init
    <2>2. Left.frames = <<>> /\ DOMAIN <<>> = {}
      BY SMT
    <2> HIDE DEF Left
    <2>3. \A x : DOMAIN <<x>> = 1..1 /\ <<x>>[1] = x
      BY SMT
    <2>4. \A i \in 1..1 : i = 1
      BY SMT
    <2>5. \A i \in DOMAIN conns : conns[i].frames = <<>>
      BY <2>1, <2>2, <2>3, <2>4, Zenon
    <2> QED BY <2>2, <2>5, Zenon DEF FramesOK
  <1>4. FileOK /\ ViewOK
    BY Zenon DEF Init, FileOK, ViewOK, OfflineFile
  <1> QED BY <1>1, <1>2, <1>3, <1>4 DEF IInv

LEMMA StepInv == ASSUME IInv, [Next]_vars PROVE IInv'
  <1>1. TypeOK' /\ Structure'
    BY StepTypes DEF IInv
  <1>2. ConnsOK /\ RestOK /\ ConnsOK' /\ RestOK'
    BY <1>1, TypeParts, PTL DEF IInv
  <1>3. ClientOK'
    BY <1>2, ClientSteps DEF IInv
  <1>4. FileOK' /\ ViewOK'
    BY <1>2, DisplaySteps DEF IInv
  <1>5. FramesOK'
    <2> USE <1>2 DEF IInv
    <2>1. CASE LinkDown \/ LinkUp \/ Accept \/ ReceiverStarts
      BY <2>1, LinkAndAcceptFrames
    <2>2. CASE Connect \/ SendData \/ SendTimesOut \/ GatewayDies
      BY <2>2, GatewayFrames
    <2>3. CASE Receive
      BY <2>3, ReceiveFrames
    <2>4. CASE Disconnected \/ ReceiveTimeout \/ ProtocolError
      BY <2>4, CloseFrames
    <2>5. CASE ReceiverDies
      BY <2>5, ReceiverDiesFrames
    <2>6. CASE Tick
      BY <2>6, TickFrames
    <2>7. ASSUME UNCHANGED <<conns, link, receiver>>, Known' \in {0, Known}
          PROVE  FramesOK'
      <3>1. Known' <= Known
        BY <2>7, HeardTypes, SMT
      <3> QED BY <2>7, <3>1, FaultsGrow, FramesUnchanged
    <2>8. CASE UNCHANGED vars
      BY <2>7, <2>8 DEF vars, canSide, Known
    <2>9. CASE /\ Next
               /\ ~(\/ LinkDown \/ LinkUp \/ Accept \/ ReceiverStarts \/ Connect \/ SendData
                    \/ SendTimesOut \/ GatewayDies \/ Receive \/ Disconnected
                    \/ ReceiveTimeout \/ ProtocolError \/ ReceiverDies \/ Tick)
      <3>1. UNCHANGED <<conns, link, receiver>> /\ heard' \in {0, heard}
        BY <2>9, Zenon DEF Next, Client, ClientLoop, Gateway, Receiver, Repair, Failure,
           ConnectFails, SendReturns, SendOnReset, PollNow, NodeBack, GatewayStarts,
           ClientStarts, ClientStops, NodeSilent, canSide
      <3> QED BY <2>7, <3>1, KnownFalls
    <2> QED BY <2>1, <2>2, <2>3, <2>4, <2>5, <2>6, <2>8, <2>9
  <1> QED BY <1>1, <1>3, <1>4, <1>5 DEF IInv

\* No frame waits on the TCP way longer than the receiver's timeout for each
\* connection before it and for each failure, for any size of the backlog and
\* of the socket buffer.
THEOREM FramesRecent == Spec => []FramesAreRecent
  <1>1. IInv /\ [Next]_vars => IInv'
    BY StepInv
  <1>2. IInv => FramesAreRecent
    BY RecentFrames, TypeParts DEF IInv
  <1> QED BY <1>1, <1>2, InitInv, PTL DEF Spec

\* The display never calls the STM32 node online when no frame of it was Known
\* for longer than the sum of the limits of the chain, as long as the sensor
\* client is not stopped.
THEOREM DisplayRecent == Spec => []OnlineIsRecent
  <1>1. IInv /\ [Next]_vars => IInv'
    BY StepInv
  <1>2. IInv => OnlineIsRecent
    <2> SUFFICES ASSUME IInv, view.stm32
                 PROVE  Known <= SourceLimit + FrameLimit + StaleAfter + 1
      BY DEF OnlineIsRecent, Known
    <2>1. RestOK
      BY TypeParts DEF IInv
    <2>2. FrameLimit \in Nat /\ Known \in Nat
      <3>1. MaxConns + faults \in Nat
        BY <2>1, HeardTypes, Constants, SMT
      <3> QED BY <2>1, <3>1, HeardTypes, Multiples DEF FrameLimit
    <2>3. Known <= SourceLimit + FrameLimit + StaleAfter + (IF polled THEN 0 ELSE 1)
      BY DEF IInv, ViewOK
    <2> QED BY <2>2, <2>3, Constants, SMT
  <1> QED BY <1>1, <1>2, InitInv, PTL DEF Spec
=============================================================================
