--------------------------- MODULE OtaLockProofs ---------------------------
(***************************************************************************)
(* Proofs about OtaLock: its types, and the two properties of the lock,    *)
(* which hold on a board with systemd as long as updates are started one   *)
(* at a time and nothing crashes, for every number of updates, clients and *)
(* signals.                                                                *)
(***************************************************************************)
EXTENDS OtaLock, TLAPS

LEMMA FreshIsClient == ASSUME FreshClients # {} PROVE NewClient \in Clients
BY DEF FreshClients, NewClient

Counters ==
    /\ crashes \in 0..MaxCrashes /\ kills \in 0..MaxKills /\ signals \in 0..MaxSignals
    /\ calm \in BOOLEAN
FileTypes ==
    /\ lock \in Wrappers \cup {NoFile, Truncated} /\ linked \subseteq Wrappers
    /\ pidfile \in Clients \cup {NoFile}
ClientTypes ==
    /\ running \subseteq Clients /\ stopping \subseteq running
    /\ spawned \in [Actors -> Clients \cup {NoFile}]
UnitTypes ==
    /\ unit \in {"none", "active", "inactive", "waiting"} /\ services \in BOOLEAN
HostTypes == hosts \subseteq Wrappers /\ disturbed \subseteq hosts
ControlTypes ==
    /\ restore \in [Wrappers -> {"none", "unit", "client"}]
    /\ pc \in [Actors -> Before \cup Trapped \cup Leaving \cup Ended
                         \cup {"off", "sleep", "unlink", "client"}]

LEMMA TypeParts ==
    TypeOK <=> Counters /\ FileTypes /\ ClientTypes /\ UnitTypes /\ HostTypes /\ ControlTypes
BY DEF TypeOK, Counters, FileTypes, ClientTypes, UnitTypes, HostTypes, ControlTypes

LEMMA TypeInit == ASSUME Init PROVE TypeOK
<1>1. Counters BY LockAssumption DEF Init, Counters
<1>2. FileTypes /\ UnitTypes /\ HostTypes BY LockAssumption DEF Init, FileTypes, UnitTypes, HostTypes
<1>3. ClientTypes BY LockAssumption DEF Init, ClientTypes
<1>4. ControlTypes
  BY DEF Init, ControlTypes, Actors, Before, Trapped, Leaving, Ended
<1> QED BY <1>1, <1>2, <1>3, <1>4, TypeParts

LEMMA CountersNext == ASSUME Counters, [Next]_vars PROVE Counters'
<1> USE DEF Counters, budget, failures, WrapperStep, StartClient, SupervisorStep, Failure, RunUnit
<1> USE LockAssumption
<1>1. CASE UNCHANGED vars BY <1>1 DEF vars
<1>2. ASSUME NEW w \in Wrappers, Start(w) \/ WrapperStep(w) PROVE Counters'
  BY <1>2 DEF Start, TestLock, CreateLock, WriteLock, SetTraps, LookForClient, StopUnit,
              KillClient, RemovePid, SetupCan, LaunchHost, HostEnds, ExitTrap, StartUnit
<1>3. ASSUME NEW a \in Actors, StartClient(a) PROVE Counters'
  BY <1>3 DEF StartTest, StartSetup, StartRun, StartPid
<1>4. CASE SupervisorStep \/ RestartUnit
  BY <1>4 DEF CheckLock, RemoveStaleLock, CheckClient, RestartUnit
<1>5. CASE Failure
  <2>1. calm' \in BOOLEAN BY <1>5 DEF ClientCrashes, Interrupt, Kill
  <2>2. ASSUME NEW c \in Clients, ClientCrashes(c) PROVE Counters'
    BY <2>1, <2>2 DEF ClientCrashes
  <2>3. ASSUME NEW w \in Wrappers, Interrupt(w) PROVE Counters' BY <2>1, <2>3 DEF Interrupt
  <2>4. ASSUME NEW w \in Wrappers, Kill(w) PROVE Counters' BY <2>1, <2>4 DEF Kill
  <2> QED BY <1>5, <2>2, <2>3, <2>4
<1>6. ASSUME NEW c \in Clients, ClientExits(c) PROVE Counters' BY <1>6 DEF ClientExits
<1> QED BY <1>1, <1>2, <1>3, <1>4, <1>5, <1>6 DEF Next

LEMMA FileTypesNext == ASSUME FileTypes, ClientTypes, [Next]_vars PROVE FileTypes'
<1> USE DEF FileTypes, files, WrapperStep, StartClient, SupervisorStep, Failure, RunUnit, Unlink
<1>1. CASE UNCHANGED vars BY <1>1 DEF vars
<1>2. ASSUME NEW w \in Wrappers, Start(w) \/ WrapperStep(w) PROVE FileTypes'
  BY <1>2, FreshIsClient
     DEF Start, TestLock, CreateLock, WriteLock, SetTraps, LookForClient, StopUnit,
         KillClient, RemovePid, SetupCan, LaunchHost, HostEnds, ExitTrap, StartUnit
<1>3. ASSUME NEW a \in Actors, StartClient(a) PROVE FileTypes'
  BY <1>3 DEF StartTest, StartSetup, StartRun, StartPid, ClientTypes
<1>4. CASE SupervisorStep \/ RestartUnit
  BY <1>4, FreshIsClient DEF CheckLock, RemoveStaleLock, CheckClient, RestartUnit
<1>5. CASE Failure BY <1>5 DEF ClientCrashes, Interrupt, Kill
<1>6. ASSUME NEW c \in Clients, ClientExits(c) PROVE FileTypes' BY <1>6 DEF ClientExits
<1> QED BY <1>1, <1>2, <1>3, <1>4, <1>5, <1>6 DEF Next

LEMMA ClientTypesNext == ASSUME ClientTypes, FileTypes, [Next]_vars PROVE ClientTypes'
<1> USE DEF ClientTypes, clients, WrapperStep, StartClient, SupervisorStep, Failure
<1>r. ASSUME RunUnit PROVE ClientTypes'
  BY <1>r, FreshIsClient DEF RunUnit
<1>1. CASE UNCHANGED vars BY <1>1 DEF vars
<1>2. ASSUME NEW w \in Wrappers, Start(w) \/ WrapperStep(w) PROVE ClientTypes'
  BY <1>2, <1>r
     DEF Start, TestLock, CreateLock, WriteLock, SetTraps, LookForClient, StopUnit,
         KillClient, RemovePid, SetupCan, LaunchHost, HostEnds, ExitTrap, StartUnit
<1>3. ASSUME NEW a \in Actors, StartClient(a) PROVE ClientTypes'
  BY <1>3, FreshIsClient DEF StartTest, StartSetup, StartRun, StartPid
<1>4. CASE SupervisorStep \/ RestartUnit
  BY <1>4, <1>r DEF CheckLock, RemoveStaleLock, CheckClient, RestartUnit
<1>5. CASE Failure BY <1>5 DEF ClientCrashes, Interrupt, Kill
<1>6. ASSUME NEW c \in Clients, ClientExits(c) PROVE ClientTypes' BY <1>6 DEF ClientExits
<1> QED BY <1>1, <1>2, <1>3, <1>4, <1>5, <1>6 DEF Next

LEMMA UnitTypesNext == ASSUME UnitTypes, [Next]_vars PROVE UnitTypes'
<1> USE DEF UnitTypes, units, WrapperStep, StartClient, SupervisorStep, Failure, RunUnit
<1>1. CASE UNCHANGED vars BY <1>1 DEF vars
<1>2. ASSUME NEW w \in Wrappers, Start(w) \/ WrapperStep(w) PROVE UnitTypes'
  BY <1>2 DEF Start, TestLock, CreateLock, WriteLock, SetTraps, LookForClient, StopUnit,
              KillClient, RemovePid, SetupCan, LaunchHost, HostEnds, ExitTrap, StartUnit
<1>3. ASSUME NEW a \in Actors, StartClient(a) PROVE UnitTypes'
  BY <1>3 DEF StartTest, StartSetup, StartRun, StartPid
<1>4. CASE SupervisorStep \/ RestartUnit
  BY <1>4 DEF CheckLock, RemoveStaleLock, CheckClient, RestartUnit
<1>5. CASE Failure BY <1>5 DEF ClientCrashes, Interrupt, Kill
<1>6. ASSUME NEW c \in Clients, ClientExits(c) PROVE UnitTypes' BY <1>6 DEF ClientExits
<1> QED BY <1>1, <1>2, <1>3, <1>4, <1>5, <1>6 DEF Next

LEMMA HostTypesNext == ASSUME HostTypes, [Next]_vars PROVE HostTypes'
<1> USE DEF HostTypes, WrapperStep, StartClient, SupervisorStep, Failure, RunUnit, ResetLink
<1>1. CASE UNCHANGED vars BY <1>1 DEF vars
<1>2. ASSUME NEW w \in Wrappers, Start(w) \/ WrapperStep(w) PROVE HostTypes'
  BY <1>2 DEF Start, TestLock, CreateLock, WriteLock, SetTraps, LookForClient, StopUnit,
              KillClient, RemovePid, SetupCan, LaunchHost, HostEnds, ExitTrap, StartUnit
<1>3. ASSUME NEW a \in Actors, StartClient(a) PROVE HostTypes'
  BY <1>3 DEF StartTest, StartSetup, StartRun, StartPid
<1>4. CASE SupervisorStep \/ RestartUnit
  BY <1>4 DEF CheckLock, RemoveStaleLock, CheckClient, RestartUnit
<1>5. CASE Failure BY <1>5 DEF ClientCrashes, Interrupt, Kill
<1>6. ASSUME NEW c \in Clients, ClientExits(c) PROVE HostTypes' BY <1>6 DEF ClientExits
<1> QED BY <1>1, <1>2, <1>3, <1>4, <1>5, <1>6 DEF Next

LEMMA ControlTypesNext == ASSUME ControlTypes, [Next]_vars PROVE ControlTypes'
<1> USE DEF ControlTypes, Actors, Before, Trapped, Leaving, Ended, Go, At
<1> USE DEF WrapperStep, StartClient, SupervisorStep, Failure
<1>1. CASE UNCHANGED vars BY <1>1 DEF vars
<1>2. ASSUME NEW w \in Wrappers, Start(w) \/ WrapperStep(w) PROVE ControlTypes'
  BY <1>2 DEF Start, TestLock, CreateLock, WriteLock, SetTraps, LookForClient, StopUnit,
              KillClient, RemovePid, SetupCan, LaunchHost, HostEnds, ExitTrap, StartUnit,
              RunUnit
<1>3. ASSUME NEW a \in Actors, StartClient(a) PROVE ControlTypes'
  BY <1>3 DEF StartTest, StartSetup, StartRun, StartPid, Finish
<1>4. CASE SupervisorStep \/ RestartUnit
  BY <1>4 DEF CheckLock, RemoveStaleLock, CheckClient, RestartUnit, RunUnit
<1>5. CASE Failure BY <1>5 DEF ClientCrashes, Interrupt, Kill
<1>6. ASSUME NEW c \in Clients, ClientExits(c) PROVE ControlTypes' BY <1>6 DEF ClientExits
<1> QED BY <1>1, <1>2, <1>3, <1>4, <1>5, <1>6 DEF Next

LEMMA TypeNext == ASSUME TypeOK, [Next]_vars PROVE TypeOK'
<1>1. Counters' BY TypeParts, CountersNext
<1>2. FileTypes' /\ ClientTypes' BY TypeParts, FileTypesNext, ClientTypesNext
<1>3. UnitTypes' /\ HostTypes' /\ ControlTypes'
  BY TypeParts, UnitTypesNext, HostTypesNext, ControlTypesNext
<1> QED BY <1>1, <1>2, <1>3
        DEF TypeOK, Counters, FileTypes, ClientTypes, UnitTypes, HostTypes, ControlTypes

\* The variables keep their types whatever crashes; in particular every client
\* that is being stopped is one that runs, and only a host that runs can be
\* disturbed.
THEOREM LockTypes == Spec => []TypeOK
<1>1. Init => TypeOK BY TypeInit
<1>2. TypeOK /\ [Next]_vars => TypeOK' BY TypeNext
<1> QED BY <1>1, <1>2, PTL DEF Spec
-----------------------------------------------------------------------------
(* systemd, and so far one update at a time, no crash and no SIGKILL *)

\* The labels of a wrapper on a board with systemd: it never runs the client's
\* start and stop scripts.
Mine == {"test", "create", "write", "trap", "look", "stopUnit", "setup", "launch", "host",
         "exit", "startUnit", "idle", "refused", "done", "cut", "killed"}

\* Between the two writes of the lock the file keeps its name, and from then
\* on the lock is the wrapper's.  The client is stopped before the interface is
\* set up, and stays so until the wrapper is at its exit.
Held(w) ==
    /\ pc[w] \in Mine /\ restore[w] # "client"
    /\ pc[w] = "write" => w \in linked
    /\ pc[w] \in {"trap"} \cup Trapped => lock = w
    /\ pc[w] \in {"setup", "launch", "host"} => unit = "inactive"
    /\ w \in hosts => pc[w] = "host"

Orderly ==
    /\ pc[Supervisor] = "off"
    /\ unit \in {"active", "inactive"}
    /\ unit = "inactive" => running = {}
    /\ disturbed = {}
    /\ \A v, w \in Wrappers : Alive(v) /\ Alive(w) => v = w
    /\ \A w \in Wrappers : Held(w)

LEMMA OrderlyInit == ASSUME Init, calm PROVE Orderly
BY LockAssumption DEF Init, Orderly, Held, Mine, Actors, Alive, Ended, Trapped

\* With one update under way nobody else has a host.
LEMMA Alone ==
    ASSUME Orderly, NEW w \in Wrappers, Alive(w), HostTypes, pc[w] # "host"
    PROVE  hosts = {}
BY DEF Orderly, Held, Alive, Ended, HostTypes

\* What has gone wrong stays wrong: a calm state comes from a calm one.
LEMMA CalmBefore == ASSUME calm', calm \in BOOLEAN, [Next]_vars PROVE calm
<1> USE DEF budget, failures, WrapperStep, StartClient, SupervisorStep, Failure
<1>1. CASE UNCHANGED vars BY <1>1 DEF vars
<1>2. ASSUME NEW w \in Wrappers, Start(w) \/ WrapperStep(w) PROVE calm
  BY <1>2
     DEF Start, TestLock, CreateLock, WriteLock, SetTraps, LookForClient, StopUnit,
         KillClient, RemovePid, SetupCan, LaunchHost, HostEnds, ExitTrap, StartUnit, RunUnit
<1>3. ASSUME NEW a \in Actors, StartClient(a) PROVE calm
  BY <1>3 DEF StartTest, StartSetup, StartRun, StartPid, Finish
<1>4. CASE SupervisorStep \/ RestartUnit
  BY <1>4 DEF CheckLock, RemoveStaleLock, CheckClient, RestartUnit, RunUnit
<1>5. CASE Failure BY <1>5 DEF ClientCrashes, Interrupt, Kill
<1>6. ASSUME NEW c \in Clients, ClientExits(c) PROVE calm BY <1>6 DEF ClientExits
<1> QED BY <1>1, <1>2, <1>3, <1>4, <1>5, <1>6 DEF Next

LEMMA OrderlyNext == ASSUME Orderly, TypeOK, calm', [Next]_vars PROVE Orderly'
<1>t. Counters /\ FileTypes /\ ClientTypes /\ HostTypes /\ ControlTypes BY TypeParts
<1>p. \A a \in Actors : \A l : Go(a, l) => pc'[a] = l /\ \A b \in Actors \ {a} : pc'[b] = pc[b]
  BY <1>t DEF Go, ControlTypes
<1>w. Wrappers \subseteq Actors /\ Supervisor \in Actors /\ Supervisor \notin Wrappers
  BY LockAssumption DEF Actors
<1> USE DEF Orderly, Held, At, Alive, Ended, Mine, Trapped
<1>1. CASE UNCHANGED vars BY <1>1 DEF vars
<1>2. ASSUME NEW w \in Wrappers, Start(w) PROVE Orderly'
  <2>1. \A v \in Wrappers : ~Alive(v)
    <3>1. calm' = (calm /\ \A v \in Wrappers : ~Alive(v)) BY <1>2 DEF Start
    <3> QED BY <3>1, Zenon
  <2> QED BY <1>2, <2>1, <1>p, <1>w DEF Start, files, clients, units
<1>3. ASSUME NEW w \in Wrappers, TestLock(w) PROVE Orderly'
  BY <1>3, <1>p, <1>w DEF TestLock, files, clients, units
<1>4. ASSUME NEW w \in Wrappers, CreateLock(w) PROVE Orderly'
  BY <1>4, <1>p, <1>w DEF CreateLock, clients, units
<1>5. ASSUME NEW w \in Wrappers, WriteLock(w) PROVE Orderly'
  BY <1>5, <1>p, <1>w DEF WriteLock, clients, units
<1>6. ASSUME NEW w \in Wrappers, SetTraps(w) PROVE Orderly'
  BY <1>6, <1>p, <1>w DEF SetTraps, files, clients, units
<1>7. ASSUME NEW w \in Wrappers, LookForClient(w) PROVE Orderly'
  BY <1>7, <1>p, <1>w, <1>t DEF LookForClient, files, clients, units, ClientAlive, ControlTypes
<1>8. ASSUME NEW w \in Wrappers, StopUnit(w) PROVE Orderly'
  BY <1>8, <1>p, <1>w DEF StopUnit, files
<1>9. ASSUME NEW w \in Wrappers, KillClient(w) \/ RemovePid(w) PROVE Orderly'
  BY <1>9 DEF KillClient, RemovePid
<1>10. ASSUME NEW w \in Wrappers, SetupCan(w) PROVE Orderly'
  <2>1. hosts = {} BY <1>10, <1>t, Alone DEF SetupCan
  <2> QED BY <1>10, <2>1, <1>p, <1>w DEF SetupCan, ResetLink, files, clients, units
<1>11. ASSUME NEW w \in Wrappers, LaunchHost(w) PROVE Orderly'
  BY <1>11, <1>p, <1>w DEF LaunchHost, files, clients, units
<1>12. ASSUME NEW w \in Wrappers, HostEnds(w) PROVE Orderly'
  BY <1>12, <1>p, <1>w DEF HostEnds, files, clients, units
<1>13. ASSUME NEW w \in Wrappers, ExitTrap(w) PROVE Orderly'
  BY <1>13, <1>p, <1>w, <1>t DEF ExitTrap, Unlink, clients, units, ControlTypes
<1>14. ASSUME NEW w \in Wrappers, StartUnit(w) PROVE Orderly'
  <2>1. hosts = {} BY <1>14, <1>t, Alone DEF StartUnit
  <2> QED BY <1>14, <2>1, <1>p, <1>w, FreshIsClient
          DEF StartUnit, RunUnit, ResetLink, files, clients, units
<1>15. ASSUME NEW a \in Actors, StartClient(a) PROVE Orderly'
  BY <1>15, <1>w DEF StartClient, StartTest, StartSetup, StartRun, StartPid, Actors
<1>16. CASE SupervisorStep \/ RestartUnit
  BY <1>16 DEF SupervisorStep, CheckLock, RemoveStaleLock, CheckClient, RestartUnit
<1>17. ASSUME NEW w \in Wrappers, Interrupt(w) PROVE Orderly'
  BY <1>17, <1>p, <1>w DEF Interrupt, files, clients, units
<1>18. ASSUME NEW w \in Wrappers, Kill(w) PROVE Orderly'
  BY <1>18 DEF Kill
<1>19. ASSUME NEW c \in Clients, ClientCrashes(c) PROVE Orderly'
  BY <1>19 DEF ClientCrashes
<1>20. ASSUME NEW c \in Clients, ClientExits(c) PROVE Orderly'
  BY <1>20, <1>t DEF ClientExits, files, units, ClientTypes
<1> QED BY <1>1, <1>2, <1>3, <1>4, <1>5, <1>6, <1>7, <1>8, <1>9, <1>10, <1>11, <1>12,
           <1>13, <1>14, <1>15, <1>16, <1>17, <1>18, <1>19, <1>20
        DEF Next, WrapperStep, Failure

CalmIsOrderly == calm => Orderly

LEMMA Invariant ==
    ASSUME TypeOK, CalmIsOrderly, [Next]_vars
    PROVE  TypeOK' /\ CalmIsOrderly'
<1>1. TypeOK' BY TypeNext
<1>2. ASSUME calm' PROVE Orderly'
  <2>1. calm BY <1>2, CalmBefore DEF TypeOK
  <2> QED BY <1>2, <2>1, OrderlyNext DEF CalmIsOrderly
<1> QED BY <1>1, <1>2 DEF CalmIsOrderly

\* With systemd, updates one at a time and no crash so far, the interface is
\* the host's alone while it runs, however often the update is interrupted.
THEOREM HostAlone == Spec => []InterfaceIsTheHosts
<1>1. Init => TypeOK /\ CalmIsOrderly BY TypeInit, OrderlyInit DEF CalmIsOrderly
<1>2. TypeOK /\ CalmIsOrderly /\ [Next]_vars => (TypeOK /\ CalmIsOrderly)'
  BY Invariant
<1>3. TypeOK /\ CalmIsOrderly => InterfaceIsTheHosts
  BY DEF TypeOK, CalmIsOrderly, Orderly, Held, InterfaceIsTheHosts
<1> QED BY <1>1, <1>2, <1>3, PTL DEF Spec

\* ... and its wrapper's name stands in the lock, so that a second update is
\* refused.
THEOREM HostLocked == Spec => []LockCoversHost
<1>1. Init => TypeOK /\ CalmIsOrderly BY TypeInit, OrderlyInit DEF CalmIsOrderly
<1>2. TypeOK /\ CalmIsOrderly /\ [Next]_vars => (TypeOK /\ CalmIsOrderly)'
  BY Invariant
<1>3. TypeOK /\ CalmIsOrderly => LockCoversHost
  BY DEF TypeOK, CalmIsOrderly, Orderly, Held, LockCoversHost, At, Trapped
<1> QED BY <1>1, <1>2, <1>3, PTL DEF Spec
=============================================================================
