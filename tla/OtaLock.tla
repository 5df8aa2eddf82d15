------------------------------ MODULE OtaLock ------------------------------
(***************************************************************************)
(* Who owns the CAN interface of the i.MX6ULL: runs of run_ota.sh, the     *)
(* sensor client with its start and stop scripts, and either the BusyBox   *)
(* supervisor or systemd.  They agree by two files, the OTA lock and the   *)
(* client's pid file, and every test of a file is a step of its own: the   *)
(* scripts run as separate processes.                                      *)
(*                                                                         *)
(* A process id is the identity of the process and is not used again.      *)
(***************************************************************************)
EXTENDS Naturals, FiniteSets

CONSTANTS Wrappers,      \* the runs of run_ota.sh
          Clients,       \* process ids of sensor clients
          Supervisor,    \* the BusyBox supervisor
          NoFile,        \* a file that does not exist
          Truncated,     \* a lock file that is open for writing and empty
          MaxCrashes, MaxKills, MaxSignals   \* bounds on the failures

ASSUME LockAssumption ==
    /\ Supervisor \notin Wrappers
    /\ NoFile \notin Wrappers \cup Clients
    /\ Clients # {}
    /\ Truncated \notin Wrappers \cup {NoFile}
    /\ MaxCrashes \in Nat /\ MaxKills \in Nat /\ MaxSignals \in Nat

VARIABLES
    lock,        \* content of OTA_LOCK: a wrapper, Truncated or NoFile
    linked,      \* wrappers whose open file is still the one of that name
    pidfile,     \* content of STM32_CAN_PID
    running,     \* sensor clients alive
    stopping,    \* those of them that have been sent SIGTERM
    unit,        \* iot-can-sensor.service
    services,    \* iot-imx6ull-gateway.service and iot-mqtt-bridge.service run
    hosts,       \* wrappers whose OTA host is alive
    disturbed,   \* hosts under which somebody took the interface down
    restore,     \* what a wrapper restarts on exit
    spawned,     \* the client a start script has just started
    pc,          \* the next command of a wrapper or of the supervisor
    crashes, kills, signals,
    calm         \* history: the board has systemd, and so far no update was
                 \* started under another, no client crashed, no wrapper was killed

vars == <<lock, linked, pidfile, running, stopping, unit, services, hosts,
          disturbed, restore, spawned, pc, crashes, kills, signals, calm>>
files == <<lock, linked, pidfile>>
units == <<unit, services>>
clients == <<running, stopping, spawned>>
failures == <<crashes, kills, signals>>
budget == <<failures, calm>>

Actors == Wrappers \cup {Supervisor}
Before == {"test", "create", "write", "trap"}                \* no EXIT trap yet
Trapped == {"look", "stopUnit", "stopKill", "stopRemove", "setup", "launch", "host"}
Leaving == {"exit", "startUnit", "startTest", "startSetup", "startRun", "startPid"}
Ended == {"idle", "refused", "done", "cut", "killed"}   \* cut: by a signal, without the trap

Alive(w) == pc[w] \notin Ended
NoUpdate == hosts = {} /\ \A w \in Wrappers : ~Alive(w)

TypeOK ==
    /\ lock \in Wrappers \cup {NoFile, Truncated}
    /\ linked \subseteq Wrappers
    /\ pidfile \in Clients \cup {NoFile}
    /\ running \subseteq Clients /\ stopping \subseteq running
    /\ unit \in {"none", "active", "inactive", "waiting"} /\ services \in BOOLEAN
    /\ hosts \subseteq Wrappers /\ disturbed \subseteq hosts
    /\ restore \in [Wrappers -> {"none", "unit", "client"}]
    /\ spawned \in [Actors -> Clients \cup {NoFile}]
    /\ pc \in [Actors -> Before \cup Trapped \cup Leaving \cup Ended
                         \cup {"off", "sleep", "unlink", "client"}]
    /\ crashes \in 0..MaxCrashes /\ kills \in 0..MaxKills /\ signals \in 0..MaxSignals
    /\ calm \in BOOLEAN

\* The board is up: one client runs, under the unit of systemd or beside the
\* BusyBox supervisor.
Init ==
    /\ lock = NoFile /\ linked = {}
    /\ LET c == CHOOSE c \in Clients : TRUE IN pidfile = c /\ running = {c}
    /\ stopping = {}
    /\ unit \in {"none", "active"}
    /\ services = TRUE
    /\ hosts = {} /\ disturbed = {}
    /\ restore = [w \in Wrappers |-> "none"]
    /\ spawned = [a \in Actors |-> NoFile]
    /\ pc = [a \in Actors |-> IF a \in Wrappers THEN "idle"
                              ELSE IF unit = "none" THEN "sleep" ELSE "off"]
    /\ crashes = 0 /\ kills = 0 /\ signals = 0
    /\ calm = (unit = "active")

Go(a, label) == pc' = [pc EXCEPT ![a] = label]
At(a, label) == pc[a] = label

\* setup_can.sh: the interface goes down and up, whoever is using it.
ResetLink == disturbed' = disturbed \cup hosts
Unlink == lock' = NoFile /\ linked' = {}
FreshClients == Clients \ (running \cup {pidfile})
NewClient == CHOOSE c \in FreshClients : TRUE
ClientAlive == pidfile \in running

----------------------------------------------------------------------------
(* run_ota.sh *)

Start(w) ==
    /\ At(w, "idle")
    /\ Go(w, "test")
    /\ calm' = (calm /\ \A v \in Wrappers : ~Alive(v))
    /\ UNCHANGED <<files, clients, units, hosts, disturbed, restore, failures>>

\* A lock whose owner does not run, or without a number in it, is no lock.
TestLock(w) ==
    /\ At(w, "test")
    /\ Go(w, IF lock \in Wrappers /\ Alive(lock) THEN "refused" ELSE "create")
    /\ UNCHANGED <<files, clients, units, hosts, disturbed, restore, budget>>

\* echo "$$" > lock: open with O_TRUNC, write; a name removed in between
\* leaves the number in a file that no longer has one.
CreateLock(w) ==
    /\ At(w, "create")
    /\ lock' = Truncated /\ linked' = linked \cup {w}
    /\ Go(w, "write")
    /\ UNCHANGED <<pidfile, clients, units, hosts, disturbed, restore, budget>>

WriteLock(w) ==
    /\ At(w, "write")
    /\ lock' = IF w \in linked THEN w ELSE lock
    /\ linked' = linked \ {w}
    /\ Go(w, "trap")
    /\ UNCHANGED <<pidfile, clients, units, hosts, disturbed, restore, budget>>

SetTraps(w) ==
    /\ At(w, "trap")
    /\ Go(w, "look")
    /\ UNCHANGED <<files, clients, units, hosts, disturbed, restore, budget>>

\* Mutant: the flag for the unit is not set.
MutantLookForClient(w) ==
    /\ At(w, "look")
    /\ \/ unit = "active" /\ UNCHANGED restore /\ Go(w, "stopUnit")
       \/ unit # "active" /\ ClientAlive
          /\ restore' = [restore EXCEPT ![w] = "client"] /\ Go(w, "stopKill")
       \/ unit # "active" /\ ~ClientAlive /\ UNCHANGED restore /\ Go(w, "setup")
    /\ UNCHANGED <<files, clients, units, hosts, disturbed, budget>>

\* The flag is set before the client is stopped.
LookForClient(w) ==
    /\ At(w, "look")
    /\ \/ unit = "active" /\ restore' = [restore EXCEPT ![w] = "unit"] /\ Go(w, "stopUnit")
       \/ unit # "active" /\ ClientAlive
          /\ restore' = [restore EXCEPT ![w] = "client"] /\ Go(w, "stopKill")
       \/ unit # "active" /\ ~ClientAlive /\ UNCHANGED restore /\ Go(w, "setup")
    /\ UNCHANGED <<files, clients, units, hosts, disturbed, budget>>

\* Mutant: a stop that does not wait for the process.
MutantStopUnit(w) ==
    /\ At(w, "stopUnit")
    /\ stopping' = running
    /\ unit' = "inactive" /\ services' = FALSE
    /\ Go(w, "setup")
    /\ UNCHANGED <<files, running, spawned, hosts, disturbed, restore, budget>>

\* systemctl stop waits for the process.  The gateway Requires= this unit and
\* the bridge Requires= the gateway: they are stopped with it.
StopUnit(w) ==
    /\ At(w, "stopUnit")
    /\ running' = {} /\ stopping' = {}
    /\ unit' = "inactive" /\ services' = FALSE
    /\ Go(w, "setup")
    /\ UNCHANGED <<files, spawned, hosts, disturbed, restore, budget>>

\* stop_client.sh: kill does not wait, and fails on a process that is gone.
KillClient(w) ==
    /\ At(w, "stopKill")
    /\ stopping' = stopping \cup ({pidfile} \cap running)
    /\ Go(w, "stopRemove")
    /\ UNCHANGED <<files, running, spawned, units, hosts, disturbed, restore, budget>>

RemovePid(w) ==
    /\ At(w, "stopRemove")
    /\ pidfile' = NoFile
    /\ Go(w, "setup")
    /\ UNCHANGED <<lock, linked, clients, units, hosts, disturbed, restore, budget>>

\* set -e: a failure leaves through the EXIT trap.
SetupCan(w) ==
    /\ At(w, "setup")
    /\ ResetLink
    /\ Go(w, "launch") \/ Go(w, "exit")
    /\ UNCHANGED <<files, clients, units, hosts, restore, budget>>

LaunchHost(w) ==
    /\ At(w, "launch")
    /\ hosts' = hosts \cup {w}
    /\ Go(w, "host")
    /\ UNCHANGED <<files, clients, units, disturbed, restore, budget>>

\* A host whose wrapper was killed goes on without it.
HostEnds(w) ==
    /\ w \in hosts
    /\ hosts' = hosts \ {w} /\ disturbed' = disturbed \ {w}
    /\ IF At(w, "host") THEN Go(w, "exit") ELSE UNCHANGED pc
    /\ UNCHANGED <<files, clients, units, restore, budget>>

\* restart_can_client, as the EXIT trap.  The lock is removed whoever owns it.
ExitTrap(w) ==
    /\ At(w, "exit")
    /\ Unlink
    /\ Go(w, CASE restore[w] = "unit" -> "startUnit"
               [] restore[w] = "client" -> "startTest"
               [] OTHER -> "done")
    /\ UNCHANGED <<pidfile, clients, units, hosts, disturbed, restore, budget>>

----------------------------------------------------------------------------
(* start_client.sh, run by a wrapper or by the supervisor *)

Finish(a) == Go(a, IF a = Supervisor THEN "sleep" ELSE "done")

StartTest(a) ==
    /\ At(a, "startTest")
    /\ IF ClientAlive THEN Finish(a) ELSE Go(a, "startSetup")
    /\ UNCHANGED <<files, clients, units, hosts, disturbed, restore, budget>>

StartSetup(a) ==
    /\ At(a, "startSetup")
    /\ ResetLink
    /\ Go(a, "startRun")
    /\ UNCHANGED <<files, clients, units, hosts, restore, budget>>

StartRun(a) ==
    /\ At(a, "startRun")
    /\ FreshClients # {}
    /\ running' = running \cup {NewClient}
    /\ spawned' = [spawned EXCEPT ![a] = NewClient]
    /\ Go(a, "startPid")
    /\ UNCHANGED <<files, stopping, units, hosts, disturbed, restore, budget>>

StartPid(a) ==
    /\ At(a, "startPid")
    /\ pidfile' = spawned[a]
    /\ spawned' = [spawned EXCEPT ![a] = NoFile]
    /\ Finish(a)
    /\ UNCHANGED <<lock, linked, running, stopping, units, hosts, disturbed, restore, budget>>

----------------------------------------------------------------------------
(* runtime_supervisor.sh *)

\* Mutant: a stale lock is left where it is.
MutantCheckLock ==
    /\ At(Supervisor, "sleep")
    /\ Go(Supervisor, IF lock = NoFile THEN "client" ELSE "sleep")
    /\ UNCHANGED <<files, clients, units, hosts, disturbed, restore, budget>>

\* After its sleep, ota_in_progress; between reading the file and removing it time passes.
CheckLock ==
    /\ At(Supervisor, "sleep")
    /\ Go(Supervisor, CASE lock = NoFile -> "client"
                        [] lock \in Wrappers /\ Alive(lock) -> "sleep"
                        [] OTHER -> "unlink")
    /\ UNCHANGED <<files, clients, units, hosts, disturbed, restore, budget>>

RemoveStaleLock ==
    /\ At(Supervisor, "unlink")
    /\ Unlink
    /\ Go(Supervisor, "client")
    /\ UNCHANGED <<pidfile, clients, units, hosts, disturbed, restore, budget>>

CheckClient ==
    /\ At(Supervisor, "client")
    /\ Go(Supervisor, IF ClientAlive THEN "sleep" ELSE "startTest")
    /\ UNCHANGED <<files, clients, units, hosts, disturbed, restore, budget>>

----------------------------------------------------------------------------
(* systemd, external but for the unit files.  run_can_client.sh sets up the *)
(* interface, writes its pid and becomes the client.                        *)

RunUnit ==
    /\ ResetLink
    /\ FreshClients # {}
    /\ running' = running \cup {NewClient} /\ pidfile' = NewClient
    /\ unit' = "active"
    /\ UNCHANGED <<lock, linked, stopping, spawned, services, hosts, restore, budget>>

StartUnit(w) ==
    /\ At(w, "startUnit")
    /\ IF unit = "active"
       THEN UNCHANGED <<files, clients, units, hosts, disturbed, restore, budget>>
       ELSE RunUnit
    /\ Go(w, "done")

\* Restart=always, RestartSec=3.
RestartUnit == unit = "waiting" /\ RunUnit /\ UNCHANGED pc

----------------------------------------------------------------------------
(* Failures *)

ClientExits(c) ==
    /\ c \in stopping
    /\ running' = running \ {c} /\ stopping' = stopping \ {c}
    /\ UNCHANGED <<files, spawned, units, hosts, disturbed, restore, pc, budget>>

ClientCrashes(c) ==
    /\ c \in running \ stopping /\ crashes < MaxCrashes
    /\ running' = running \ {c}
    /\ unit' = IF unit = "active" THEN "waiting" ELSE unit
    /\ crashes' = crashes + 1 /\ calm' = FALSE
    /\ UNCHANGED <<files, stopping, spawned, services, hosts, disturbed, restore,
                   pc, kills, signals>>

\* Mutant: the signal ends the wrapper and not its host.
MutantInterrupt(w) ==
    /\ Alive(w) /\ signals < MaxSignals
    /\ signals' = signals + 1
    /\ Go(w, IF pc[w] \in Trapped THEN "exit" ELSE "cut")
    /\ UNCHANGED <<files, clients, units, hosts, disturbed, restore, crashes, kills, calm>>

\* Ctrl-C reaches the wrapper and its child.  Before the traps it ends the
\* script; after them it runs the EXIT trap; in the trap, a second one ends it.
Interrupt(w) ==
    /\ Alive(w) /\ signals < MaxSignals
    /\ signals' = signals + 1
    /\ hosts' = hosts \ {w} /\ disturbed' = disturbed \ {w}
    /\ Go(w, IF pc[w] \in Trapped THEN "exit" ELSE "cut")
    /\ UNCHANGED <<files, clients, units, restore, crashes, kills, calm>>

\* SIGKILL, of the wrapper alone.
Kill(w) ==
    /\ Alive(w) /\ kills < MaxKills
    /\ kills' = kills + 1 /\ calm' = FALSE
    /\ Go(w, "killed")
    /\ UNCHANGED <<files, clients, units, hosts, disturbed, restore, crashes, signals>>

----------------------------------------------------------------------------
WrapperStep(w) ==
    \/ TestLock(w) \/ CreateLock(w) \/ WriteLock(w) \/ SetTraps(w) \/ LookForClient(w)
    \/ StopUnit(w) \/ KillClient(w) \/ RemovePid(w) \/ SetupCan(w) \/ LaunchHost(w)
    \/ HostEnds(w) \/ ExitTrap(w) \/ StartUnit(w)

StartClient(a) == StartTest(a) \/ StartSetup(a) \/ StartRun(a) \/ StartPid(a)

SupervisorStep == CheckLock \/ RemoveStaleLock \/ CheckClient

Failure ==
    \/ \E c \in Clients : ClientCrashes(c)
    \/ \E w \in Wrappers : Interrupt(w) \/ Kill(w)

Next ==
    \/ \E w \in Wrappers : Start(w) \/ WrapperStep(w)
    \/ \E a \in Actors : StartClient(a)
    \/ SupervisorStep \/ RestartUnit \/ Failure
    \/ \E c \in Clients : ClientExits(c)

Spec == Init /\ [][Next]_vars

\* Scripts and processes keep running, a host ends; nobody has to start an
\* update and no failure has to happen.
Fairness ==
    /\ \A w \in Wrappers : WF_vars(WrapperStep(w))
    /\ \A a \in Actors : WF_vars(StartClient(a))
    /\ WF_vars(SupervisorStep) /\ WF_vars(RestartUnit)
    /\ \A c \in Clients : WF_vars(ClientExits(c))

FairSpec == Spec /\ Fairness

----------------------------------------------------------------------------
(* Properties *)

Systemd == At(Supervisor, "off")
\* A wrapper that did not get to the end of its EXIT trap.
CutShort == \E w \in Wrappers : pc[w] \in {"cut", "killed"}

\* While the OTA host talks to the board, no sensor client is alive on the
\* interface and nobody has taken it down under the host.  With the supervisor,
\* with overlapping updates, or with a crashed client that systemd is about to
\* restart, it is false.
InterfaceIsTheHosts == calm /\ hosts # {} => running = {} /\ disturbed = {}

\* While a host runs its wrapper's name is in the lock, from before the host
\* starts until the wrapper leaves: that is what refuses a second update.
LockCoversHost == calm => \A w \in hosts : At(w, "host") /\ lock = w

\* Two hosts never talk to the board at the same time (run_ota.sh:77).
HostsExclusive == \A v, w \in hosts : v = w

\* Whatever ended the last update, and whoever removed whose lock, a client
\* runs again: the supervisor finds it missing, and no dead wrapper's lock
\* stops it.  systemd starts a unit again only if it was not stopped.
ClientReturns ==
    NoUpdate ~> (running \ stopping # {} \/ ~NoUpdate \/ (Systemd /\ CutShort))

\* A unit that an update has stopped is started again, unless the EXIT trap was
\* cut short.
UnitRestored == unit = "inactive" ~> (unit = "active" \/ CutShort)
=============================================================================
