# TLA+ verification of the i.MX6ULL / T113 / STM32F103 gateway

This directory holds TLA+ modules that model the program in `src/`, the
configurations that model-check them with TLC, and theorems about them that the
TLA+ proof system (TLAPS) checks.  It covers the three places where this system has
state that several actors change: the firmware update of the STM32 node over CAN, the way of a
reading from the CAN bus to the display, and the LED command from the PC to the
board and back.

## 1. The system

Three boards and a PC.

| component | state it keeps | operations | talks to | module |
|---|---|---|---|---|
| record log (`ota_ab_metadata.c`, `ota_resume_journal.c`) | two flash pages of 16 records each | load, append (scan, erase, body, magic) | flash; used by bootloader and application | `FlashRecordLog` |
| A/B bootloader (`can_ota.c`, `main_can_ota.c`) | metadata, journal, two slots; session in RAM | wait for ENTER, session, boot decision, trial, rollback | host (CAN), application (metadata, jump) | `ABBootloader` |
| A/B application (`main_dht11_can.c`) | nothing of its own; confirms in the metadata | confirm, heartbeat, sensor data, LED, reset to the bootloader | host, sensor client (CAN) | `ABBootloader`, `CanOtaLink` |
| OTA host (`can_ota_host_ab_secure/`) | package, target slot, resume offset, sequence numbers | enter, manifest, table, image, confirmation | bootloader, application (CAN) | `CanOtaLink` |
| v1 single-slot OTA (`stm32/common`, `can_ota_bootloader`) | one slot, one metadata record with two markers | pending, trial, confirm | historic; its record is imported once | `SingleSlotOta` |
| OTA wrapper, supervisor, units (`run_ota.sh`, `runtime_supervisor.sh`, `deploy/systemd`) | OTA lock, pid file | stop and start of the sensor client, restarts | processes of the gateway | `OtaLock` |
| CAN sensor client | node state, online flag, state file | frames to state file, 3 s offline timeout | gateway (file) | `TelemetryChain` |
| gateway (`imx6ull_gateway/`) | connection, back-off | sample, send frames, reconnect | T113 (TCP), MQTT bridge (file) | `TelemetryChain` |
| T113 receiver, LVGL state | one connection at a time, state file; age of the file | frames, 8 s timeout; staleness | display | `TelemetryChain` |
| MQTT bridge | response slot, connection, LED files | publish, command callback, last will, reconnect | broker, LED | `MqttBridge` |
| Qt dashboard | pending command, retry timer, worker | commands, timeout, connection | broker | `DashboardLink` |
| kernel drivers | one mutex each | read | I2C, SPI | none |

What is hard, and what makes each part correct:

* **Record log.** Power may go at any halfword, an erase may stop half way, the
  driver may report an error although the record counts, and sequence numbers wrap.  Correct
  means: it is an atomic register.
* **Bootloader.** A session is twenty flash operations and log writes in a row, any of
  which may be the last before a reset, and the boot decision sees only what they left.
  Correct means: there is always an intact confirmed image, only verified images
  run, a candidate is tried once, a resumed session skips nothing that is not there,
  no silent downgrade, and a restarted board comes back into service.
* **Link.** The board polls a FIFO of three frames and not while it programs flash, so
  that host and board must agree, frame by frame, on who speaks.  Both restart
  independently.  Correct means: they never lose step, a lost frame never reaches the
  flash, success means confirmed, and a run without failures succeeds.
* **Wrapper and supervisor.** Scripts that test a file and act on it later, and may be
  interrupted or killed between any two commands.  Correct means: while the OTA host runs the
  interface is its own, and afterwards a sensor client runs again.
* **Telemetry chain.** Five processes, each with its own timeout, throttle or buffer.
  Correct means: no reading is shown for much longer than it is true, and the display
  finds its way back after every failure.
* **Bridge and dashboard.** A library thread, a main loop or worker, a broker that
  acts for a client that is gone, one-place buffers, late acknowledgements.  Correct means:
  the retained status is the truth, answers are true and in order, every command ends, and
  the window shows the connection there is.

## 2. Modules

```
AtomicRegister  <== implemented by ==  FlashRecordLog        (log)
                                            | abstracted to meta, journal
ABBootloader    <== implemented by ==  CanOtaLink            (host + board)
  (board on an arbitrary bus)

MqttBridge      <== implemented by ==  CommandLoop           (dashboard + broker + bridge)
DashboardLink   <== implemented by ==  CommandLoop
  (each with an arbitrary environment)

OtaLock, TelemetryChain, SingleSlotOta stand for themselves.
```

Each model `M` has a module `MCM` with the constants of its small instance and a module
`MProofs` with its theorems; the theorems of `DashboardLink` are in `CommandLoopProofs`, and
`AtomicRegister` has nothing to prove.

| module | models |
|---|---|
| `AtomicRegister` | what a log promises: a write takes effect or leaves the old value |
| `FlashRecordLog` | the append of both log files, one action per flash operation |
| `ABBootloader` | the board: session, boot decision, confirmation, failures; the bus is arbitrary |
| `CanOtaLink` | host and board, frame by frame; the board's steps are those of `ABBootloader` |
| `SingleSlotOta` | the v1 board on an arbitrary bus: session, metadata page, trial, confirmation |
| `OtaLock` | runs of `run_ota.sh`, the client's scripts, supervisor or systemd, command by command |
| `TelemetryChain` | node, sensor client, gateway, receiver and display, with time |
| `MqttBridge` | main loop and library thread of the bridge, its session at the broker, the LED |
| `DashboardLink` | GUI, worker and library threads of the dashboard |
| `CommandLoop` | dashboard and bridge with the broker between them |

### FlashRecordLog

`cell` is the flash content by record index: erased, torn (fails the validity check) or
a valid record with its sequence number and payload.  `BeginAppend` is the scan and
the choice of the cell in `ota_ab_metadata_append` / `ota_resume_append`; `ErasePage`,
`ProgramBody`, `ProgramMagic` are `erase_page` and the two halves of `program_record`;
`EraseStops`, `BodyStops`, `MagicStops` are a power loss or a driver error in each.  A
torn cell stands for any content the CRC rejects, so a record is valid from its magic
number on and not before (the CRC is computed with the magic in place and checked
together with it).  Sequence numbers are modulo `SeqModulus` (2^32) and compared by
signed difference.  `Survives` leaves out one thing: a record that interrupted erases
have spared until it is half the range of numbers old, 2^31 appends.

### ABBootloader

`meta` and `journal` are the newest records of the two logs, written atomically
(`WriteMeta`, `WriteJournal`), with an error that leaves it open whether the write
counts.  An action holds at most one such write.  `flash` is the content of both slots
by page; a page holds the page of an image, or `Other`.  `pc` follows
`can_ota_ab_run`, `jump_to_app_if_valid` and the application's `main` from one write
or one wait to the next.  Actions and functions have the same order and names close to
the code's.  A package is a model value with the properties the checks decide
(`Authentic`, `WellFormed`, `Healthy`, `TrueVersion`, `Downgrade`, `Version`).
`peer` says whether another node acknowledges frames: `can_send` waits for that
without a limit.  `legacy` and `legacyRoom` follow the v1 record that shares its
address with Resume page 1.

`trialStarts` is the only history variable.  `faults` and `enters` count failures and
ENTER requests; their bounds close the model.

### CanOtaLink

Adds the receive FIFO, the sequence number and page buffer of the board, the host
(`hpc` is the loop it is in) and the host's socket queue.  Every board step is an
`ABBootloader` action together with the statuses it sends, or a frame that is stored
or dropped.  `MaxLosses` bounds the frames of the host that the bus drops (a bus-off, from
which `restart-ms` of `setup_can.sh` recovers).  Time is abstracted into guards, each with
the durations that justify it:

| guard | meaning | why |
|---|---|---|
| `Paced` | the host sends when a polling board has emptied its FIFO | 1 ms or 5 ms between frames; the polling loop takes microseconds, 2 ms in `wait_enter` |
| `Settled` | no AUTH frame before the session polls | `BOOTLOADER_SESSION_SETTLE_US`, 100 ms |
| `HostBlocked` | the board's 3 s and 5 s run out only while the host waits or is gone | the host sleeps milliseconds, and retries ENTER every second |
| `ProbeTimeout` | an ENTER goes unanswered only if the board could not answer it | one second; a reset takes less |
| `StatusTimeout` | 15 s without a status need a board outside a session that sends no heartbeats | session steps take less |
| `ConfirmTimeout` | the 15 s deadline is not met before a sound trial has started | boot takes less than a second; `OTA_CONFIRM_DELAY_MS` is 0 in the release build |

The image a host sends is the one of the slot READY named; that this is the slot the
session writes is part of `InStep`.  A frame of the image carries its position, so that a
shifted or mixed page is seen as such.

### SingleSlotOta

The v1 board: `app` is the slot as a whole, `record`, `trial` and `confirmed` are the
metadata page of `ota_metadata.c`, whose markers are programmed once after an erase.  The
bus may bring any ENTER and any manifest; `Rescue` is what the host sends in the
end.  An interrupted erase leaves any part of the page, an interrupted program a torn record
or marker, and the action decides with one disjunct for success and one for each failure.
`trials` and `good` are history.  A record whose state field itself says TRIAL or CONFIRMED,
which `ota_metadata_current_state` accepts from "the first v1.2 prototype"
(`ota_metadata.c:106-113`), is left out: this code writes PENDING alone and goes on with the
markers, so that no such record is reached from an initial state without one.

### OtaLock

`pc` has, for each wrapper and for the supervisor, the next command of its script; a test of
a file and the action on its result are two steps.  `lock` and `pidfile` are the files;
`linked` is there because `echo $$ > lock` opens and writes, and the name may be
removed in between.  `Interrupt` is a terminal signal: before the traps it ends the
script, after them it runs the EXIT trap, in the trap it ends it; it reaches the host as
well.  `Kill` is SIGKILL of the wrapper alone, whose host lives on.  `restore` stands for
`SYSTEMD_WAS_RUNNING` and `CLIENT_WAS_RUNNING`.  Either the unit of systemd or the
supervisor looks after the client (`Systemd`); the initial state chooses.

Abstractions: process ids are not used again; `systemctl start` and the script of the unit
are one step (`RunUnit`); gateway and bridge are one flag, `services`, because
`Requires=` stops them with the sensor unit.  `calm` is history: it says that up to now no
update was started beside another, no client crashed and no wrapper was killed.

### TelemetryChain

Time is a tick per change of `time(NULL)`, and the code's differences of seconds are ages
with the code's comparisons on them.  A process that runs more often than once a second
must have run before a tick (`ClientQuiet`, `GatewayQuiet`, `ReceiverQuiet`, `polled`); what
blocks has a timer.  `conns` are the receiver's connections, oldest first; only the first is
served.  `gateway.fd` is the gateway's view of its socket, which may still be open when the
other end has gone: the send after a reset is accepted and lost (`SendOnReset`), a full
buffer blocks until the socket timeout (`SendTimesOut`).  `heard` is the age of the last
valid frame, against which everything shown is measured.

Abstractions: a reading is the flag `online` of the node; a DATA frame is whole or a
`ProtocolError`; heartbeat frames are left out, since each follows a DATA frame that has
reset the same timer.

### MqttBridge and DashboardLink

`MqttBridge` is the main loop (`pc`, from `Loop` over `Connect`, `Subscribe`, `Announce` to
`PublishResponse` and `Rest`), the library thread (`handler`: parsing, the two LED files,
the response) and the broker as far as it acts for the bridge: `session`, its will, the
retained status.  `slot` is the one response buffer.  `conn` is what
`MQTTClient_isConnected` says, `link` whether it is true.  A command carries an id that the
code does not have, so that properties can say which one is answered.  `Budget` says how many
refusals, broken connections, late acknowledgements, LED errors, redeliveries and crashes
may happen.  A redelivered command comes before the next one (`Deliver`): both clients ask
for clean sessions, so that nothing of a broken connection comes back, and on one connection
the broker keeps the order.  A broker that sends a copy behind a newer command is not
modelled; it would set the LED back.  Telemetry is QoS 0, leaves no state in the bridge and is part of `Rest`.

`DashboardLink` is the GUI thread (control page, main window, transport object), the worker
thread that makes the library's blocking calls, and the library's thread that reports
messages and losses.  `jobs` and `events` are the Qt queues between them; one step of the
GUI is one slot.  `worker` is the blocking call under way, so that a connection can be lost in
the middle of being established, before `m_connected` is set.  `applying` is
the wait of `recreateTransport` for the old worker.

### CommandLoop

Extends `DashboardLink` and instantiates `MqttBridge` with the same variable names.  The
environment actions of both (`Answer` here, `Send` there) are replaced by the broker: a command
that the broker takes from the dashboard is queued for the bridge if it is subscribed
(`Uplink`), an answer goes to the dashboard if it is connected (`Downlink`).  `Uplink` takes
whatever the worker publishes.  That it is newer than what came before, which the bridge's own
module assumes of its environment (`Arrive`), is the property `CommandsInOrder` of the
composition; the rest of the bridge's steps are those of its module as they stand.

## 3. Model checking

`tlc -config X.cfg M` in this directory; module and configuration of each run are in
`PROJECT.json`.

| run | distinct states | question | answer |
|---|---|---|---|
| log | 122 246 | is the log an atomic register, with every failure at every step and wrapping numbers, and can it always append? | yes |
| boot | 2 434 660 | the six invariants of the board, no step touches the confirmed slot, and a restarted board comes back into service | hold, the last once somebody else is on the bus |
| link | 1 039 208 | do host and board stay in step; what does a lost frame do; does success mean confirmed; is the board an `ABBootloader`; does an undisturbed run succeed on whatever earlier runs left? | yes; a lost frame ends the session and reaches no flash |
| lock | 665 550 | is the interface the host's, does the lock cover it, does a client come back, is a dead lock no lock? | yes, the first two as long as it is calm |
| chain | 651 782 | for how long can the display be wrong; does it recover? | for the sum of the limits; yes |
| bridge | 1 012 092 | is the status true, are answers true when given and afterwards, and in order, does the bridge recover? | yes |
| dashboard | 792 029 | do buttons, timer and pending command agree, does every command end, does the window settle on the truth? | yes |
| loop | 3 613 038 | is a success what the LED does; does the dashboard meet the environment it assumes; do commands come once and in the order of the clicks? | yes |
| single | 268 894 | does the v1 board run only what it verified, try once, keep confirmation with its image, and can it always be rescued? | yes |
| legacy_rollback | | rollback to an imported v1 application | **endless resets** |
| link_hang | | does a host run end? | **not while heartbeats arrive** |
| lock_race | | are two OTA hosts impossible? | **no, the lock is tested and then written** |

The last three are violations: a document or the code's own message states the property, the
code does otherwise, and `PROJECT.json` quotes both under `findings`.

Every property of a passing run has a mutant: an operator named `Mutant...` next to the
definition it would replace, a plausible bug (a dropped guard, an off-by-one, the wrong
slot) under which the property fails.

**Bounds.**

* *log*: two records a page (the code has 16) is the smallest size at which a page can hold
  an old and a new record; modulus 18 with four cells leaves the live numbers, with the
  ones that interrupted erases may spare, less than half the range apart, as 32 cells do in
  2^32; the numbers wrap for ever, so every page is recycled any number of times; two payloads
  tell old from new.
* *boot*: two pages an image, so that a session can stop before, between and after pages;
  six packages, one for each way a package can differ; three failures (one may hit a
  session, one the trial, one the rollback) and four ENTER requests (a confirmed image, a
  failed session, a resume, a second update).
* *link*: pages of five frames and a status every three, so that a status falls inside a page,
  at its end, and on both; a manifest longer than the FIFO, which holds three as in the
  code; a package whose image fills its last page and two whose image does not; three runs,
  one board failure, one killed host, one lost frame.  `MaxEnters` is never reached there.
* *lock*: two wrappers (the race needs two), three process ids, one crash, one kill and
  one signal, which may all meet in one behaviour.
* *chain*: the limits are smaller than the code's (3 s offline, 4 s socket timeout for 8 s,
  back-off up to 2 s, 2 s stale) and keep their order; a backlog of two connections and a
  socket buffer of one frame; at the start the receiver may hold a connection of a gateway that
  lost power; one failure of any kind and one stop of the client.
  `MaxHeard` lies above the largest age a property tells apart.
* *bridge*: two commands, one of them invalid; a back-off that doubles once to its limit;
  each of the six faults once, and together.
* *dashboard*: two commands with two values; the user connects and disconnects and changes the
  settings once; a refusal, a broken connection and a late acknowledgement.
* *loop*: an LED fault, a redelivery and a crash of the bridge, a late acknowledgement to the
  dashboard, and a user who disconnects; the connection failures that *bridge* and *dashboard* cover are left out here.
* *single*: three failures, three manifests of packages other than `Rescue`; six packages,
  one for each way a v1 package can differ.

**Fairness.**  Failures, users, kills and commands have none anywhere.

* `ABBootloader`: the processor keeps executing (`Bootloader`), and an application before
  its confirmation neither hangs nor waits (`Application`): it has no loop there.  There
  is no watchdog, so that the second is an assumption about images.  Nothing is assumed of
  the bus; `ReturnsToService` has `<>[]peer` as its premise because sending waits for an
  acknowledgement.
* `CanOtaLink`: board and host keep executing, a running application keeps sending
  heartbeats (its main loop sends one every two seconds) and the confirmation deadline is
  absolute.
* `OtaLock`: scripts and processes get on; a host ends; a process that has been sent SIGTERM
  exits (the client's loop tests its flag at least once a second).
* `TelemetryChain`: every process is scheduled, the clock ticks, and what failed is repaired
  (supervisor, systemd).  Strong fairness in one place: again and again the first frame the
  client reads in a second is a valid one, since the throttle writes one frame a second and the node
  sends two.
* `MqttBridge`, `DashboardLink`: the threads get on, the timers fire, the library
  reports a loss.  The broker need not answer.
* `SingleSlotOta`: the board gets on and a host goes on sending the rescue package.

**Deadlock** is checked in *log* and *chain*, which never stop.  In the others the system
may stop when the bounds are used up, and a board with no peer stops by design.

### Further disagreements

Met while modelling, each reproduced with an instance of these modules that broke it, and
stated here rather than as a run.  The properties above say under which condition
they hold; this is what happens without it.

* *Rollback alone on the bus.*  `rollback_and_jump` (`main_can_ota.c:58`) sends the
  ROLLBACK status before it jumps, and `can_send` waits until a mailbox is free, which
  with automatic retransmission needs an acknowledgement.  A board alone on the bus never
  starts its confirmed slot after a failed trial, although `docs/OTA_AB_SECURE_V3.md:13`
  says it switches back by itself.  Hence the premise of `ReturnsToService`.
* *Pages behind a wrong one.*  `prepare_resumable_write` truncates the journal at the
  first page that does not match and rewrites the correct ones behind it;
  `docs/OTA_AB_SECURE_V3.md:140-141` says complete and correct pages are not rewritten.
* *A comment of the v1 application* in `dht11_can_app_slot_a/User/main_dht11_can.c:215`
  says a reset before confirmation leads to recovery; the A/B bootloader rolls back.
* *Supervisor.*  `start_missing` looks at the lock first and starts the client afterwards, so
  that it may reset the interface under a host that started in between.
* *Cut traps.*  A second signal while `restart_can_client` runs, or SIGKILL, leaves the
  unit stopped; `docs/RUNTIME_MANAGEMENT.md:100-101` speaks of every exit path.
* *Required units.*  `systemctl stop iot-can-sensor.service` stops gateway and bridge through
  `Requires=`; `run_ota.sh:59` starts the sensor unit alone.
* *Stopped client.*  The gateway searches the client's file for `"online":1` and ignores
  `last_seen` (`sensors.c:104`); a stopped or crashed client leaves its file, and the
  display shows STM32 ONLINE for ever.  Hence `stops = 0` in `OnlineIsRecent`.
* *Status after a late acknowledgement.*  When the online status is not acknowledged in
  time, `connect_bridge` disconnects cleanly, which discards the will; a stop
  during the back-off then publishes nothing (`mqtt_bridge.c:361`, `:552`), and the status
  stays online, against `docs/MQTT_BRIDGE.md:158`.  Hence the condition of `ShutdownShown`.
* *One response slot.*  A command that arrives within one pass of the loop overwrites the
  failure response to an invalid one (`mqtt_bridge.c:180`; `docs/MQTT_BRIDGE.md:160`).
  Hence `LastAnswered` speaks of the latest.
* *Answers by value.*  The dashboard compares values only (`controlpage.cpp:131`): the
  answer to a command that timed out is shown for a later one with the same value; and
  `handlePublishFailure` (`:140`) ends whatever command is pending.  Hence
  `SuccessMeansLed` names the cause.
* *v1 downgrade.*  `wait_manifest` compares versions only while the record is readable; an
  interrupted erase of its page takes the version along, and an older package without
  the flag is accepted (`docs/OTA_FLOW.md:108-109` says it is refused).

## 4. Proofs

`tlapm MProofs.tla` for each of the eight modules with proofs.  The theorems hold for every
value of the constants that satisfies the named `ASSUME` of the module, which says what
the constants are and little more.  Every safety property of a passing run, invariant, action
property or refinement, is the statement of one of these theorems.  The type
invariant of each of these modules is proved and not model-checked again.  The inductive
invariants were model-checked on the instances of the runs before they were proved.

**Log.** One hypothesis, `SmallPages`: four times the records of a page are fewer than
there are sequence numbers (64 against 2^32).  The numbers may wrap for ever.  The inductive
invariant says that the numbers of valid records are different and one is newer than all
others, that the append under way has the next number, what state its cell is in and that it
is the first that is free, and that no record grows half the range old before its page is
erased (`Young`).  The last part is the reason why comparing by signed difference is sound,
and the hard one, because an interrupted erase leaves any subset of the old records behind: it
bounds the age of a record by the cells that are filled before its page is erased the next
time, which depend on the page it is in, the page of the newest record and the next free cell;
both pages have free cells only while the log is filled for the first time
(`FilledInOrder`).  `Survives`, in `EraseStops`, is exactly what a spared record needs.
From the invariant follow `LogSequencesOrdered`, `LogWritesAreSafe` and, with a lemma that a
newer record becomes what a load returns and that nothing else changes what it returns,
`LogImplementsRegister`.  This last theorem is the licence for the atomic `meta` and
`journal` of `ABBootloader`.

`LogScanFindsLatest` is about a recursive function, the best of the first n cells.
`SetInduction` gives induction without a schema: a set that holds 0 and with each number the
next one holds all of them, because the missing numbers up to the least missing one would be as
many as themselves without it.  With it the recursion has a solution (`BestsExist`)
and each pass of the loop keeps its meaning (`ScanPass`).

**Board.** The inductive invariant `IInv` is the conjunction of the type invariant, the
checked invariants and what they need of the steps in between: that from power-up to the
jump the target is the slot the newest metadata record leaves free (`TargetFree`), what the
journal says at each step of a session (`ResumeOK`), and what is known of the slot that is
about to be jumped to (`RunOK`).  One step of the proof per action.
`BootConfirmedSlotUntouched` is the action property, from the same invariant.

**Link, refinement.** `LinkImplementsBoard`: every step of host and board is a step of
`ABBootloader` or leaves its variables alone.  The board's actions are conjoined with what
they do to the queues, so that most of this is by definition; what is not is that the
values a frame brings are among those the arbitrary bus may bring.  That needs the
invariant `LinkInv`: the types of both queues, `IInv` itself, that an AUTH frame carries one of
the packages, and for the positions (`LinkTypeCorrect`) that the numbers of a
transmission do not overtake its positions and that a WRITING status names a block of the
image.  With it the theorems about the board hold for the composed system;
`LinkConfirmedKept` states the two that matter most.

**Link, agreement.** `LinkQuietWhileBusy`, `LinkBufferInPlace`, `LinkInStep` and
`LinkSuccessMeansConfirmed`, for any depth of the FIFO, any number of runs, lost frames, killed
hosts and board failures.  None of the four is inductive, nor are they together: each
depends on who may have sent what is still in the two queues.  `SyncInv` says it:

* `FifoOK`: frames of a session come before the ENTER of a later one, a board in a session
  holds at most one frame and none while it does not read, and a host in a session has no
  ENTER of its own under way.  The one exception is `Again`: a power loss ends a session
  whose READY is still unread, so that the host reads a READY of a session that is over and
  an ENTER is on its way.
* `ReadyOK`, `PhaseOK`, `SameSession`: which loops of the host go with which states of the
  board, and that both mean the same slot and package there.
* `AnswersOK`: how many statuses can be unread; in the image at most one, for the
  last frame sent, so that no answer is taken for another's.
* `BufferOK`, `PlaceOK`, `FrameOK`: the buffer holds the frames from the page's start, and
  number and position of the host, of the frame in the FIFO and of the board differ by the
  same amount (numbers start again with each transmission, positions where it is resumed).
  A frame of the wrong number is refused, so a lost frame cannot shift a page.
* `LosslessOK`: with no frame lost, only the frame in the FIFO is between host and board.
* `OutcomeOK`: once DONE is sent the record names the host's package, and a heartbeat from
  its slot that is still unread means that it is confirmed.

**Lock.** `HostAlone` and `HostLocked` for any number of wrappers, clients and signals, from
`CalmIsOrderly`: as long as it is calm, at most one wrapper is alive, the lock is what its
next command says (`Held`), a host belongs to it, the unit is stopped from `StopUnit` on
while it sets up and runs the host, a stopped unit means no client, and nobody has disturbed a
host.  `calm` never comes back (`CalmBefore`), so that the proof of a step may assume it on
both sides.

**Chain.** `DisplayRecent` and `FramesRecent`, for any limits and any number of failures.
The invariant `IInv` gives each frame an age limit by its place: `SocketTimeout` for each
connection that may be served before its own, for the time the receiver has waited on the
served one, and for each failure, which can start such a wait again; a frame with the flag
set is no younger than what is known of the node minus `SourceLimit`.  `Known` is `heard`
until the client is stopped and nothing afterwards, so that ages stay bounded although the
flag then lies.  The same limits are carried to the state file and the view, each with
its own age on top (`FileOK`, `ViewOK`).

**Bridge.** `TypeInv` adds to the types what each place of the main loop and of the
callback carries, and `Wire`: that a connection past `announce` has its session,
subscription and status.  `ServingIsOnline` is `Wire`; `ReportIsTrue` needs `Applied`, which
follows a command through the two LED files; `AnswersInOrder` needs `Ordered`: ids grow from
the answers over the copy, the slot and the callback to the queue.  `AnswersStayTrue` says
that a reported success stays true while no newer command has been taken.  Its invariant
`Truthful` is about every response between the callback and the broker: it is no newer than
what is in the callback and the queue, and if it reports success for the latest command
the LED has its value (`Settled`); the broker's queue is in the order of the commands
(`QueueInOrder`), so that no older command is applied after a newer one.

**Dashboard.** `ControlAgrees` from the types and the conjunction itself.

**Loop.** `LoopImplementsDashboard` and `LoopImplementsBridge`: with them the theorems of
both modules hold in the closed loop.  `LoopInv` is the types of both, `Flow` and `Numbered`.
`Flow`: every command in the bridge's queue and callback, and every answer in its slot, in the
main loop's copy and at the broker, is to a command that the broker has taken from the
dashboard, with its value.  `Numbered`: ids grow from the broker's latest command over the one
being published and the worker's queue to the button; `CommandsComeInOrder` follows from it,
and with that the bridge's side of the composition.
`SuccessShownIsTrue` is the promise to the user: what the window calls a success is
what the LED does, unless a newer command is with the broker.  It puts together the bridge's
`Truthful`, `Numbered`, and that the window shows no success that the bridge has not answered
(`Heard`).

**Single-slot.** `StartedIsVerified`, `TriedOnce` and `ConfirmationNotInherited`, from
`SlotInv`: the slot holds the complete image of the manifest when its metadata is touched
(`Verified`), the record is written to a page that is erased as a whole, so that no marker of
an old record stands beside a new one (`Blank`, `Owned`), what the bootloader has decided
still holds when it acts on it (`Decided`), and a trial is counted only when its marker is
in flash (`Counted`).

**Not proved.** Liveness, which is outside the prover's reach: `ReturnsToService`,
`UpdateSucceeds`, `ClientReturns`, `UnitRestored`, `DisplayRecovers`, `BridgeRecovers`,
`ShutdownShown`, `LastAnswered`, `CommandEnds`, `ViewSettles`, `Recovers`; and the absence
of deadlock in *log* and *chain*.  TLC checks them on the instances of section 3.

## 5. Not modelled

* Cryptography and checksums are predicates; collisions do not happen.  The vector check
  of an image is a property of the package.  The parser and the packager of `.ota3` files are
  pure functions over bytes.
* The v1 host: nothing of it survives its run, and its frames are among those the bus of
  `SingleSlotOta` may bring.
* Byte-level framing of the TCP protocol: a frame is whole or a protocol error.
* Telemetry over MQTT: it is published without a session state.  The bridge republishes the
  gateway's file whatever its age, and the dashboard goes by the time of receipt, so that a dead
  gateway looks alive there; this is known by reading, not by a run.
* CSV files, logs and their rotation (`runtime_maintenance.sh`), the other pages of the
  dashboard and of LVGL, display, console and sensor code, the kernel drivers (one mutex
  around a bus transfer).
* Concurrent writers of the two logs do not exist: application and bootloader never run
  together.  CAN arbitration, error counters and a second host on the bus are left out of
  `CanOtaLink`; `OtaLock` shows when a second host can exist.  A hang of the application or
  of the flash driver has no counterpart in the code that would react.
* LVGL, HAL and CMSIS, micro-ecc, Qt and Paho are third-party; the last two appear as the
  code uses them.  They are most of the lines of the repository.

## 6. Plan

1. *Core* (done): record log, bootloader, link; theorems about them.
2. *Around it* (done): lock, chain, bridge, dashboard, the closed loop, the v1 board.
3. *Safety* (done): a theorem for each safety property that a run checks; of the log
   also beyond the wrap of the sequence numbers.
4. *Bounds as theorems*: the parts of the liveness arguments that are safety, where they say
   more than the runs: how many frames a transmission can still send, how often an erase
   can be repeated without an append.
