# HCJ device server: models, checks and proofs

`src/DevMng` is the server part of HCJ: devices (a Modbus relay board and a
solar charge controller behind a GPRS modem) connect to it by TCP and register,
the server then asks them for their inputs, outputs and readings and switches
their relays. `src/HCJ` is the MFC program around it with its SQLite access.
This directory holds TLA+ modules of that server, the TLC configurations that
check them and proofs checked by TLAPS.

Check a run with `tlc -config <cfg> <MC module>` (the configuration is named after
the run, `MCSockProc.cfg` for the run `SockProc`), the proofs of a module with
`tlapm <module>Proofs.tla`. `PROJECT.json` lists every run, what it checks, the
source lines every definition stands for, and the hazards the properties are
for.

## 1. The system

### Components, their state and operations

| Component | State | Operations | Module |
|---|---|---|---|
| Channel, `CSockProc` + `MC_thread_client` | `m_sock`, `m_thread_hand`, `flg_event_exit`, `flg_online`, `m_beat_count`, `m_list_msg_recv`, two mutexes | `StartProc`, `StopProc`, `AttachSock`, `ResetData`, `L_send`, `L_recv`, `FrameSend`, `FrameRecvBySSID` | `SockProc`; `FrameSend` in `UDPSvr`, `L_recv` in `ModbusFrame` |
| Device, `CSockDevice` | `m_DO`, `m_DI`, `m_AI`, `m_Do_count`, `m_cfg`, `m_bat_v`, `m_load_I`, `m_env_temp`, `m_lock` | `SetDO`, `SetDOAuto`, `GetDO`, `GetDI`, `GetAI`, `GetPowerV`, `GetLoadI`, `GetTemp`, `ResetPower`, `RefreshData`, `SetCfg`, `ResetData` | `SockDevice`; `m_DI`, `m_AI` in `ModbusFrame` |
| Registration, `CSockProcListen` | waiting slots `m_socket_wait`, `m_thread_wait`, `socket_wait_index_new` | listening thread, temporary threads, `AddTmpSocket`, `DelTmpSocket`, `CloseTmpSocket`, `RemoveTmpSocket`, `StopProc` | `ListenSvr` |
| Manager, `CSockDevMng` | `m_list_device`, `m_mutex_listdev`, `m_flg_running` | `startSvr`, `stopSvr`, `DevLogin`, `DevKickout`, `addDev`, `delDev`, `GetDevByID` | each operation where its effect is: `SockProc`, `ListenSvr`, `UDPSvr` |
| UDP queries, `CSockProcUDPSvr` | UDP socket, `m_list_msg_send`, `m_ssid` | its thread, `NotifyLogin` | `UDPSvr` |
| Framing, `SockCommon` | none | `CRC16_modbus`, `crc32_ccitt`, `SOCK_recv`, `SOCK_send` | `ModbusFrame`, `Checksum` |
| Database thread, `CMySqlite` | `db`, `m_hRead`, `sqlTemp`, `ssTemp`, `nResult` | `ExecuteSQL`, `ThreadFunc`, `DoSQL`, `OpenDB`, `CloseDB` | `MySqlite` |
| Windows, `HCJ` | dialogs | painting | not modelled |

`HCJ.vcxproj` compiles only `src/HCJ` today; `src/DevMng` is on its include path
and no code of the window calls it yet, as nothing calls `ExecuteSQL` (the
window only opens and closes the database). The modules therefore let every
public operation be called by any thread at any moment, which is what the
mutexes and events of the code are there for. `SockProcMC` and `SockProcLD`
belong to an earlier protocol and no longer compile.

### How they interact

- A device connects. The **listening thread** accepts, puts the socket into a
  free slot and starts a **temporary thread**, which waits for the registration
  frame and calls `DevLogin` of the **manager**.
- `DevLogin` holds the list mutex. It stops what the device's channel was doing
  (`StopProc` waits for the old client thread), attaches the socket and starts
  `MC_thread_client`, the **client thread** of the device.
- The client thread reads frames, keeps the heartbeat count, fills in the
  device's data and queues every frame. **Callers** send a request under the
  device lock and look for the answer in the queue by `ssid`, the device and
  function code.
- The **UDP server's thread** answers questions about devices: it looks them up
  in the manager's list and queues its replies, as `NotifyLogin` queues messages
  of other threads; they are sent when nothing comes in for a moment.
- `stopSvr` and `DevKickout` stop channels under the list mutex.
- A caller of `ExecuteSQL` leaves its statement in members of `CMySqlite`, starts
  a **database thread** and waits for its end; an auto-reset event lets the next
  caller in.
- Lock order: list mutex, device lock `CSockDevice::m_lock`, channel lock
  `CSockProc::m_lock`, socket lock `m_lock_sock`. The UDP thread takes the list
  mutex under its socket lock, against that order.

### What is hard

Threads are ended by closing their socket under them and waiting without limit,
with up to three locks held. A thread finds its socket through the shared
object, not in a variable of its own. Exit events are auto-reset. Answers are
matched by two bytes. Timers are written by the client thread without the lock.
A new thread learns its slot from a shared field that only a sleep protects.
Sockets are remembered by value after they were handed over. A list is walked
without its mutex. A byte stream is cut into frames and never resynchronised.
Every statement goes through the same four members. `PROJECT.json` lists each of
these under `hazards`, at its line, with the properties that cover it or the
reason none does.

### What makes each component correct

- Channel: one client thread at a time, on its own connection, that ends when it
  is told to and when the peer is gone; a request only gets answers of its own
  connection; the window is told the truth; login, kick and stop return.
- Device: an answer is used for the request it answers; a relay that is on is
  timed.
- Registration: no slot is lost, none is served by two threads, a socket is
  closed once and by its owner, the server can be stopped.
- UDP: replies leave, in order and never after a restart; all devices are
  reported; the server can be stopped.
- Framing: what is accepted is what was sent, readings come from the right bytes,
  both checksums are what they are called.
- Database thread: a caller gets the result of its own statement, no connection
  is lost, no caller is kept out for ever.

Not all of this is so: section 3 says what the code violates, and under which
conditions it does hold.

## 2. Modules

| Module | What it is |
|---|---|
| `DeviceLink` | abstract specification: the link of a device is up on one connection, must go down before another is taken, and no connection is taken twice |
| `SockProc` | the channel: controllers, the client threads, requesters |
| `ListenSvr` | the registration server |
| `SockDevice` | requests, answers, relays and timers over the channel |
| `ReplyQueue` | abstract specification: messages leave in the order of their numbers, each at most once |
| `UDPSvr` | the UDP server with the device list |
| `Checksum` | the two checksums, and what they are by definition |
| `ModbusFrame` | frames out of a byte stream, readings out of frames, over any checksum |
| `MySqlite` | `ExecuteSQL` and its thread |
| `SockProcProofs`, `ListenSvrProofs`, `SockDeviceProofs`, `UDPSvrProofs`, `MySqliteProofs`, `ModbusFrameProofs` | the proofs about each |
| `ListenSvrOwners` | proofs about who may close which connection of `ListenSvr`, on top of `ListenSvrProofs` |
| `SeqLemmas` | lemmas about the message lists of the code, used by two of them |
| `MCSockProc`, `MCListenSvr`, `MCSockDevice`, `MCUDPSvr`, `MCModbusFrame`, `MCMySqlite` | small instances for TLC; `MCModbusFrame` puts `Checksum` and `ModbusFrame` together |

Common conventions. Variables and operators have the names of the code; a
variable commented as *history* exists only in the model. A mutex that is held
while its owner waits for something is a variable with the owner's name;
sections under a mutex that contain only straight-line code, or socket calls with
a time limit, are one action. Windows mutexes may be taken again by their owner.
A thread's place in the code is a string in a `pc`-like variable.

Next to some definitions stands a variant with a longer name (`AddTailNoDrop`
beside `AddTail`). Nothing uses it: it is the definition with a plausible slip,
and substituting it must make the named property fail, which shows that the
property depends on that piece of code.

### SockProc and DeviceLink

*Controllers* are threads in `DevLogin`, `DevKickout` or the loop of `stopSvr`;
`pc` is the position inside the operation, `op` which one it is, `arg` the
connection of a login. `StopProc` is called from three places, `lvl` is the
return address. One action per section between two waits:

| Action | Code |
|---|---|
| `DevLogin`, `DevKickout`, `StopSvrKick` | take the list mutex |
| `GetStatus`, `DevStopProc` | `CSockDevice::GetStatus`, `StopProc` |
| `StopProcSignal`, `StopProcJoin`, `StopProcReset` | `CSockProc::StopProc` before, at and after the wait for the thread |
| `DevResetData`, `AttachSock`, `StartProc`, `SpawnThread`, `Leave` | the rest of the operations |
| `McUp` ... `McExit` | `MC_thread_client` from its first sleep to `END0` |
| `RqCheck`, `RqLock`, `RqSend`, `RqSendFail`, `RqTake`, `RqTimeout` | `GetDO` and its likes |

A thread is named by the connection its login attached, but like the code it
always uses `m_sock`, so that a thread working on a foreign connection would
show. `McRecvFrame` stamps a frame with the connection it was read from: that is
what `NoStaleReply` compares, the code has no such mark. Frames carry no data;
whether a frame is good is the choice between `McRecvFrame` and `McRecvError`.

`ImplementsLink` instantiates `DeviceLink` with `up <- flg_online`; `taken` is the
history variable of connections attached.

### ListenSvr

Sockets are handle values, because the code compares and closes them by value.
`owner` says who may close a value now, `wrong` collects what the server closed
that was not its to close: a connection of nobody, of the device, or of a slot
whose thread is another one (`ThreadOf`). `HandleReuse` decides whether `accept`
may return a value that is still kept somewhere (`Remembered`: the slots, the
variable of a thread, the device).

`AddTmpSocket` sleeps 500 ms under `m_lock_sock`, so that lock is a variable here.
The sleep itself takes no model time: a new thread may read its slot number
(`TmpStart`) before or after `LnCheckThread`, or not before the listening thread has
written the next number (`LnAddSlot`). The history variable `overtaken` says that
this last case has occurred. It is no guard of any action; properties that hold
only without it name it, and `SlotServed` is checked without that excuse by a run
of its own.

`DevLogin` is one action that takes the socket over or refuses it; `DevDrop` is
the device's own thread closing it later.

### SockDevice

A session is up or down; logging in, dropping and kicking are one action each
(their details are `SockProc`'s). Requests and answers are records of the
function, what it is about (the relay, the register) and the relays that are on;
they travel in order over the two wires `req` and `rsp`, both external, as is the
device that executes them. The value of a register is the register's own name:
`ReadingsMatch` then says that a reading came from its register. `Late` decides
whether an answer may come after `SOCK_MSG_TIMEOUT`. A caller works through a
list of requests (`todo`) under one lock: one for a single call, six for
`RefreshData`, one or none for `SetDOAuto`. `SetDO` changes `m_Do_count` after the
request was sent and `m_DO` after its answer came, so these are two actions, and
so are the unlocked test and write of `m_Do_count` in the client thread
(`McData`, `McArm`).
The values of `m_DI` and `m_AI` are left to `ModbusFrame`, where they come out of
the bytes; here their requests take answers like the others.

### UDPSvr and ReplyQueue

A packet is what the thread tells apart: a wrong label or length, a wrong
checksum, an unknown type, "all", or a device. The bytes of a reply and the
address it goes to are left out. The thread holds `m_lock_sock` from `recvfrom` to
the end of a request, while it walks the list (`UdpWalk`, one device a step, no
mutex) or waits for the list mutex (`UdpLookup`), so both mutexes are variables;
everybody else takes `m_lock_sock` for straight-line code only. `delDev` closes up
the list under the walk; `steady` keeps the devices that have been in the list
ever since the walk began, and `shifted` counts the deletions at places the walk has
passed, each of which may hide one device. Packets of an unknown type may come
without end. The ways out of
the loop differ in what they leave behind, and so they do here: `UdpEnd` clears
`flg_online` and closes the socket, `UdpClosed`, `UdpSelectFails` and
`UdpRecvFails` do not clear it, a packet with a wrong checksum leaves with the
mutex held, which Windows gives up when the thread ends. `startSvr` and `stopSvr`
appear with what they do to this server; what they do to registrations and
channels is in `ListenSvr` and `SockProc`.

`ImplementsReplyQueue` instantiates `ReplyQueue` with the numbers of the queued
messages, `m_ssid`, and the history variable `last_sent`. A message that is taken
while the socket is being closed is lost (`ReplyQueue!Lose`), a stop drops all
(`Drop`).

### ModbusFrame and Checksum

Here bytes are numbers, because the properties are about bytes. The device
(external) sends answers, an echo, a refusal or a heartbeat, and noise may flip a
bit. `Recv` returns any part of what has arrived; `RecvNothing` counts the polls of
`L_recv`. `FrameSize` and the readings are computed from the bytes as
`MC_thread_client` computes them; `arrived` and `ends` record what became of each
frame on its way and where on the wire it ends.

The checksum is the constant `CRC16` with what the framing asks of it as
assumption: it is 0 for every frame the device sends, not 0 for one with a bit
flipped, and not 0 for a refusal followed by three bytes of another frame.
`MCModbusFrame` binds it to `CalCRC16` of `Checksum`, and TLC evaluates the
assumption with it. What no such checksum can promise is said in `HeadsTold`: noise
that hits the function code or the size makes the thread cut the frame off
somewhere else, and whether what it has then in its hands passes for a frame is a
matter of the bytes that follow. `Checksum` contains `CRC16_modbus` bit by bit and
`crc32_ccitt` with its table of 256 words, each kept as two halves because TLC
counts in 32 bits with a sign; beside them stands what a checksum is by
definition, long division of polynomials written as sets of powers.

### MySqlite

The four members that carry a request are variables, the callers have a position
in `ExecuteSQL` and their threads one in `ThreadFunc`. The caller waits for a
handle of `_beginthread`, which belongs to the thread and is closed when it ends.
So `Wait` has four outcomes: the caller is in time and waits for its own thread;
the handle is invalid and the wait returns at once; the handle is by now that of
a thread another caller has started (`awaits`); or it is anything else in the
process, and the wait ends some time or never (`astray`). `nResult` is read after
that in a step of its own (`Return`), when another caller may have been let in.
`outcome` records how a statement really went: well, with an error of SQLite, or
not at all because the database could not be opened. SQLite is external:
connections are numbers, `sqlite3_close` refuses one with statements, and what it
returns for one that is closed already is a free choice.

## 3. Runs

| Run | Result | Instance | Shows |
|---|---|---|---|
| `SockProc` | holds, 58 k states | 2 controllers, 1 requester, 2 connections, 2 session ids, queue limit 2, 2 idle rounds | safety of the channel, refinement of `DeviceLink`, operations return, silent links end |
| `ListenSvrSafety` | holds, 1.2 M states | 3 connections, 2 slots, 2 threads, 2 idle seconds | slots are neither lost nor shared unless a slow thread was overtaken, a stopped server is quiet |
| `ListenSvrLiveness` | holds, 11 k states | 2 connections, 1 slot, 2 threads | silent connections are dropped, `stopSvr` returns but for one deadlock |
| `ListenSvrHandOver` | **violated** | 2 slots, 2 threads | the socket of a registered device is closed |
| `ListenSvrSlowThread` | **violated** | 2 slots, 2 threads | a slow thread leaves a connection in a slot nobody serves |
| `ListenSvrReuse` | **violated** | 1 connection, 1 slot, 1 thread, `HandleReuse` | a thread closes the connection of a later client |
| `SockDeviceRelay` | holds, 1.4 M states | 2 callers, 1 relay, delays 0 and 1, 3 time units, queue limit 3 | a relay ordered on or shown on is timed, orders get their own answers |
| `SockDeviceAnswers` | holds, 174 k states | 2 callers, `RefreshData`, a single reading and `ResetPower` | readings come from their own register if answers are in time; requests return |
| `SockDeviceLate` | **violated** | 1 caller, 2 registers, late answers | a late answer is taken for another register |
| `UDPSvr` | holds, 350 k states | 2 callers, 2 devices, 2 packets and any number of unknown ones, 1 notification, 2 starts, 1 deletion behind the walk | no left-over event or reply, devices are passed over only for deleted ones, refinement of `ReplyQueue`, replies leave when the clients are quiet, stopping returns |
| `MySqlite` | holds, 263 k states | 2 callers, 4 calls | one call at a time, the result of the last call, connections lost only where SQLite refused to close them and closed twice only after a failed statement, calls return |
| `ModbusFrame` | holds, 94 k states | 2 frames of 6 kinds, 1 flipped bit, 2 polls | damage to a head is seen, frame boundaries, accepted frames, readings, both checksums, reading ends |

### Bounds and why they are enough

- Two controllers or callers: the list mutex, the device lock and `m_hRead` admit
  one at a time, so a second one is all that is needed to have every operation
  start at every moment the first allows. Two connections: the old one and its
  successor; a connection is never registered twice, so the number of logins is
  bounded by theirs.
- Two session ids: answers that match a request, and answers that push those out
  of the queue. A queue limit of 2 keeps one message; `SockDeviceRelay` keeps two,
  so that a request also finds its answer behind another message and takes it from
  there while the queue is trimmed.
- Two idle rounds or seconds let a count start, be reset, and reach its limit.
- Two slots and three connections fill the server and leave one to refuse; with
  two threads one can be overtaken by the other.
- `MaxTime` bounds the clock of `SockDevice`, `MaxWire` the frames under way; 3
  units with a delay of 1 contain an expired and an unexpired timer.
- `UDPSvr`: two packets are one that is worked on and one behind it, two starts a
  run and the one after it, two devices a list that grows and shrinks under the
  walk. `MaxNotes` bounds the calls of `NotifyLogin`, `MaxInbox` the buffer of the
  socket, `MaxShifts` the deletions behind the walk in one walk. `MaxPackets` would
  make the clients fall silent and every reply leave; packets of unknown type are
  therefore not counted, so that the stream of packets need not end, and
  `RepliesLeaveWhenQuiet` has the silence as its condition.
- `MySqlite`: after two calls that fail in different ways come two that find what
  they left.
- `ModbusFrame`: a second frame shows whether the first was cut off where it
  ends; `TimeOut` is 2 of the code's 5, one poll that fails and the last one.
  `NoiseBits` are two of the eight bits of a byte.
- The proofs show the safety properties for all values of the bounds.

The passing runs of `ListenSvr` have `HandleReuse = FALSE`: they say what holds as
long as no handle value that somebody remembers is given out again. With `TRUE` a
temporary thread that has handed its connection over may find the value again in
another slot and close that one (`SockProcListen.cpp:488`), which is what
`ListenSvrReuse` is about; the slot is then freed under the thread that serves it,
and the other properties of the slots fall with it. What holds of a stopped server
does not depend on it (`StoppedHoldsNothing`). Likewise the passing
runs of `SockDevice` have `Late = FALSE` (a device answers before
`SOCK_MSG_TIMEOUT` or not at all), because late answers are what `SockDeviceLate`
is about.

Some runs do not check for deadlock, because the program may stop there: the runs
of `ListenSvr` and `UDPSvr` have the mutual waits described below, in `MySqlite`
all calls may be used up or a caller wait for a thread that never started, in
`ModbusFrame` the device may fall silent and the link end.

### Fairness

Threads run, so every thread's steps are weakly fair; a Windows mutex serves its
waiters in order, so a thread waiting for one that is free again and again gets
it: the steps of threads that take locks or wait for `m_hRead` are strongly fair.
A caller of `ExecuteSQL` whose wait went astray is never obliged to return, which
is why `ExecuteReturns` names that case.
Failures (`LnFail`, `UdpFails`, `RecvFails`, `EnterFails`) are never obliged to
happen, and nobody is obliged to call an operation, connect, register, send or
answer. The only external fairness is `SF(PeerServe)` in `SockDevice`, and only
when `Late = FALSE` says that a device answers in time or not at all; `Coming`
would otherwise wait for it.

### Findings

Four runs end in a violation; each states what a comment of the code says and is
listed with its line under `findings`:

1. A temporary thread that does not run within 500 ms takes the slot of the next
   connection; its own stays in its slot, served by nobody, until `stopSvr`
   (`SockProcListen.cpp:75`).
2. A socket handed to a device can be closed by the listening thread, when the
   temporary thread was quick (`SockProcListen.cpp:347`).
3. A temporary thread closes the connection of a later client that was given the
   handle value of the one it has handed over (`SockProcListen.cpp:488`).
4. Late answers to register requests are stored as other readings
   (`SockDevice.cpp:499`).

Other faults are named in properties that hold, as the only exception, so that the
passing runs show both that nothing else goes wrong there and how far it goes:

5. `stopSvr` and a registering connection can block each other for good
   (`SockProcListen.cpp:157` against `SockDevMng.cpp:217`, both under the list mutex):
   `Circle` in `StopSvrReturns` of `ListenSvr`.
6. `stopSvr` waits for the socket lock of the UDP server with the list mutex held,
   the UDP thread for the list mutex with its socket lock held
   (`SockProcUDPSvr.cpp:233`): `Stuck` in `StopSvrReturns` of `UDPSvr`.
7. As long as packets keep coming the UDP server sends no reply
   (`SockProcUDPSvr.cpp:111`). `RepliesLeaveWhenQuiet`: replies leave once the clients
   are quiet for good; without that condition `RepliesLeave` is violated by a stream
   of packets of unknown type.
8. A device in the list all the time is left out of the answer about all devices
   when one before it is deleted meanwhile (`SockProcUDPSvr.cpp:216`), although the
   comment says "check all dev". `PassedOverByDeletion`: one for each deletion at a place
   the walk has passed, and none for anything else.
9. A caller of `ExecuteSQL` can be given the result of another's statement, as the
   next caller is let in before the first has read `nResult` (`MySqlite.cpp:131`), and a
   database that cannot be opened is reported as success, also to the call that is
   there to find out (`MySqlite.cpp:142`, `:146`). `ResultOfLastIn`: what is told is
   whether the statement of the caller that entered last failed in `sqlite3_exec`,
   never that of an earlier one, and never that the open failed.
10. A statement that fails closes the database connection and keeps the handle,
   and the next call closes it again (`MySqlite.cpp:161`), which `sqlite3.h:314-318`
   forbids. `ClosedTwiceForACause`: that is the only way to close one twice.

For 1, `SlotServedInTime` and `OneThreadPerSlot` say what holds until a thread has been
overtaken by the next slot number.

Remarks: behaviour the models contain, about which the repository states nothing
that could be refuted, or which needs no model checker.

- An order to switch a relay off that is not answered leaves it shown on and
  untimed until a report or an answer comes (`SockDevice.cpp:195`); `ShownOnIsTimed`
  says that there is no other way to that state. A relay that goes off at the
  device keeps its old time, and `McArm` may overwrite a time a caller took
  meanwhile (`SockDevice.cpp:939`) when the report answers a `GetDO` that has given up,
  so that a relay may be switched off early.
- After a `_beginthread` that failed the caller waits for the process itself. After
  one whose thread ended before the caller came to wait, it waits on a handle that
  is closed (`MySqlite.cpp:122`).
- A device that refuses a request answers with 5 bytes, which are read as the
  beginning of 8, so that the link is dropped (`WrongForACause`). Heartbeats are
  taken without looking at their checksum (`AcceptedWereSent`).
- Comments that do not match: 10 time-outs where the code has 15 and 1200
  (`SockProcListen.cpp:416`, `SockDevice.cpp:839`), 10 seconds for the rest of a
  frame where the code polls 5 times (`SockDevice.cpp:910`); `ResetData`, said to
  reset all data, leaves the three readings of the solar controller
  (`SockDevice.cpp:707`).

## 4. Proofs

Each proof module proves an inductive invariant `IInv`, a conjunction of named
parts, and from it type correctness and the safety properties its runs check. The
assumptions are those on the constants (`...Assumption`: names are disjoint from
each other and from `None`, limits are numbers, positive where the code's are),
and where stated `~Late` or `~HandleReuse`, the conditions of the passing runs. A
theorem "in behaviours without" a step has `[][~LateStep]_vars` or
`[][\A c : ~ExecuteFails(c)]_vars` beside `Spec`: a condition on what happens, not on
the constants.

| Module | Theorems |
|---|---|
| `SockProcProofs` | `TypeCorrect`, `OneThread` (`AtMostOneThread`), `OwnSock` (`ThreadOwnsSock`), `AttachedSurvives` (`AttachedSockSurvives`), `FreshReply` (`NoStaleReply`), `Served` (`OnlineImpliesServed`), `FreshExit` (`NoStaleExit`), `Alternate` (`EventsAlternate`), `Refinement` (`ImplementsLink`); `NoCircularWait`, `JoinedThreadEnds`, `SessionsAsAssumed` |
| `ListenSvrProofs` | `TypeCorrect`, `StoppedHoldsNothing`, `OneCircleOnly`, `ListenerEnds`, `StuckForGood`, `DeadListenerStays`; with `~HandleReuse`: `Served` (`SlotServedInTime`), `OneThread` (`OneThreadPerSlot`), `Quiet` (`StoppedIsQuiet`), `JoinedTmpEnds` |
| `ListenSvrOwners` | with `~HandleReuse`: `LoginGetsOpen`, `NoConnectionLost`, `ClosedByRefusalOnly` |
| `SockDeviceProofs` | `TypeCorrect`, `CommandedTimed` (`CommandedOnIsTimed`), `ShownTimed` (`ShownOnIsTimed`), `LockReturned`, `RequestEnds`, `WrongAnswersOutOfStep`, `StepLostByLateness`, `NeverPostponed`; in behaviours without `LateStep`: `OwnUnlessLate`, `TimersKeptUnlessLate`; with `~Late`: `OwnAnswer` (`AnswersMatch`), `OwnReading` (`ReadingsMatch`) |
| `UDPSvrProofs` | `TypeCorrect`, `FreshExit` (`NoStaleExit`), `OwnRun` (`NoReplyOfEarlierRun`), `Reported` (`PassedOverByDeletion`), `AllReportedUnlessShifted`, `Refinement` (`ImplementsReplyQueue`); `OneCircleOnly`, `JoinedServerEnds`, `StuckForGood` |
| `MySqliteProofs` | `TypeCorrect`, `Exclusive` (`WorksForItsCaller`), `NoLeak` (`LostOnlyIfRefused`), `Told` (`ResultOfLastIn`); `TurnKept`, `TurnGivenBack`, `StuckForGood`, `ClosedTwice` (`ClosedTwiceForACause`); in behaviours without `ExecuteFails`: `NoFailureNoDoubleClose` |
| `ModbusFrameProofs` | `TypeCorrect`, `EndsForACause` (`WrongForACause`), `DamageBehindTheHead`; with `HeadsTold`: `StaysOnBoundary` (`OnBoundary`), `AcceptsWhatWasSent` (`AcceptedWereSent`), `ReadsTheAnswers` (`ReadingsAreAnswers`) |

So every safety property a passing run checks is also proved, except those about
the checksum itself (`HeadsTold`, `ChecksumsDivide`).

**SockProc.** None of the properties is inductive by itself: that a login does not
start a second thread depends on the handle being NULL, which depends on the join
before it, which depends on nobody else having started one meanwhile.

- `MutexInv`: a controller inside an operation holds the list mutex, so there is
  one. `DevLockInv`, with the channel lock: who holds which lock where.
- `FlowInv`: what a controller has achieved at each position, e.g. from the join
  to `SpawnThread` the handle is NULL and no thread is alive.
- `ThreadInv`: a live thread is the registered one, works on the latest
  connection, and `m_sock` is that connection or none.
- `RequestInv`: a waiting request holds the device lock and was sent on the
  connection the queue belongs to. A login changes the connection only when the
  device was offline or after it had the device lock itself.

There is one lemma per action (`...Step`). `Refinement` rests on `AttachConnects` (a
login attaches only while the link is down) and `StepRefines`.

**ListenSvr.** There are two layers. The types (`BaseInv`) and what `stopSvr`
leaves behind (`SettledInv`) need no assumption: the slots before `del_i` are empty
and the listening thread is gone (`StopInv`), so a stopped server has no connection
(`EmptyInv`, the theorem `StoppedHoldsNothing`). About the slots, `SafeInv` holds
with `~HandleReuse` until a thread is overtaken, and the theorem `Invariance` is
`overtaken \/ IInv`:

- `At`, `Conn`: the slot and the connection of a thread; for one that has not read its
  slot number yet, those it would find now. A number that `LnAddSlot` writes while
  there is such a thread changes them: that is the step that sets `overtaken`.
- `NewInv`: the slot `AddTmpSocket` has taken keeps its connection until a thread
  works on it.
- `HolderInv`: a thread that works on a slot is the one `DelTmpSocket` will find in
  `m_thread_wait`, or the one `AddTmpSocket` is just starting (`StartInv`).
- `SockInv`: its connection is in the slot, unless `stopSvr` has closed it and
  waits. `SlotInv`: a connection in a slot has such a thread.
- `DistinctInv`, `AddInv`: no two slots and no other thread have the same handle
  value, so whoever looks for its connection by value finds its own slot. Only
  here `~HandleReuse` is used, in `LnAcceptSafe`.
- `EndedInv`: a stopped server has no thread that could still register.

There is one lemma per action that needs an argument (`...Safe`); the first step
of each covers the parts the action does not disturb.

`ListenSvrOwners` adds who may close what (`OwnInv`): a connection in a slot is the
server's, except between `DevLogin` and `RemoveTmpSocket` of the slot's own thread
(`SlotOwner`); the device has at most one connection and none while `stopSvr` is at
work (`DevOwner`); only the listening thread, once `AddTmpSocket` has returned, has
a connection in its hands without knowing whose it is by now (`AddOwner`);
everything the server has accepted is in one of these places (`NothingLeaked`).
These theorems, too, speak of what happens before a thread is overtaken; after that
two threads may hold the value of one connection, and nothing of the kind is claimed.

**SockDevice.** A relay ordered on is timed because `SetDO` takes the time before it
waits and clears it only after the order to switch off is out (`TimedInv`), and
`McArm` sets times but clears none (`ShownInv`). That answers match although they
carry no number rests on `OneInFlight`: at any moment at most one frame of the
session is a request to be answered or an answer, on whichever wire, in the
client thread or in the queue, and it belongs to the caller that waits. A login
begins with nothing, and every step keeps it so (`InStep`) but one: a caller that
gives up while its answer is under way (`LateStep`). The same fact protects the
timers: while the device is in step, the report in the hands of the client thread
answers a `GetDO` whose caller holds the lock, so that no `SetDO` comes between the
unlocked test and write (`RestInv`). When it is not, `McArm` may set a running timer
back, never forward (`ArmedInv`).

**UDPSvr.** `RunInv` ties `m_flg_running` to the existence of the thread. `WalkInv` is
about the devices in the list ever since the walk began: each is reported, still
ahead of the walk, or passed over, and no more are passed over than deletions have
moved the list under the walk (`NoMorePassed`, `DelWalk`): a deletion behind it moves
one device from ahead to behind, one ahead of it none. `SeqLemmas` has
what `AddTail`, `RemoveHead` and `RemoveAt` do to lists.

**MySqlite.** Everything rests on `WorksForItsCaller`: one thread works at a time,
so `db` between the two halves of `OpenDB` is its own (`Handles`), and `nResult` is
the error of SQLite of the caller that entered last (`TellsOfLastIn`), which is the
one in `ssTemp`. A thread at work is attended: its caller is about to wait or waits
for it and nothing else. What a caller reads when it
returns late is then the result of whoever is in by that time.

**ModbusFrame.** For every set of readings the device can have, any number of
frames and flipped bits, every way the bytes arrive in pieces and every checksum
with the assumption above.

- `StreamInv`: the wire is what arrived of the frames, one after the other.
- `AlignInv`: the thread reads the frame after those it has accepted, from its first
  byte, and never beyond the size its head gives. This is what keeps the stream in
  step; a frame boundary in `select` alone is not inductive, because nothing ties
  the pieces taken since to a frame. `FrameInBuffer` says what `buf_recv` holds when
  the thread has what it wanted: the frame, or something whose checksum is wrong.
- `AcceptInv`: accepted frames are those that arrived, undamaged but for
  heartbeats. `ReadingInv`: the readings are decoded from the last accepted answers;
  `CoilsRoundTrip` and `ValuesShape` show that decoding undoes the device's encoding
  for every set of relays and all values of 16 bits.

`AlignInv` and `AcceptInv` are invariant as long as `HeadsTold` is true, so three of
the theorems have it as condition. It is a condition on the noise and not on the
thread: it is true if no head was damaged, becomes false only when damage and
following bytes together happen to make a valid checksum, and TLC finds it true
throughout the run, so there the properties are checked without the condition.
`EndsForACause` needs no condition: in an undamaged stream it is true; and so it is
where the damage is behind the heads (`DamageBehindTheHead`).

**How far the findings go.** For most of them a theorem says how far they go, for any
number of threads (the numbers are those of section 3):

- 1 and 3: without a handle value given out again, a thread overtaken by the next slot
  number is the only cause of a slot that is not served or is shared (`Served`,
  `OneThread`); and whatever slow threads and handle values do, a stop clears all
  slots (`StoppedHoldsNothing`).
- 2: as long as no handle value that somebody remembers is given out again and no
  thread was overtaken, the server closes the socket of a registered device at
  `SockProcListen.cpp:347` only (`ClosedByRefusalOnly`); otherwise its connections are
  neither lost (`NoConnectionLost`) nor handed over closed (`LoginGetsOpen`).
- 4: wrong answers and readings occur only in a session that is out of step
  (`WrongAnswersOutOfStep`); only a late time-out brings it there, and the next login
  ends it (`StepLostByLateness`); without late time-outs there are none, also when the
  device is silent, the link breaks or the device is kicked (`OwnUnlessLate`).
- 5 and 6: only `stopSvr` and a temporary thread in `DevLogin`, or the UDP thread in
  `GetDevByID`, can wait for each other (`OneCircleOnly`), and then for good
  (`StuckForGood`).
- 8: one device at most for each one deleted behind the walk (`Reported`); none, if
  there is no such deletion (`AllReportedUnlessShifted`).
- 9: `Told` is `ResultOfLastIn` for any number of callers.
- 10: a connection is closed twice only by the call that follows a statement which
  failed in `DoSQL` (`ClosedTwice`), and never if no statement fails
  (`NoFailureNoDoubleClose`).
- Of the remarks: a listening thread that failed stays dead until a `stopSvr`
  (`DeadListenerStays`); times are overwritten only by a late report
  (`TimersKeptUnlessLate`) and never put the switch-off of a relay off
  (`NeverPostponed`).

**How the modules fit together.** `SockDevice` has logging in, losing the peer and
kicking as one step each, `ListenSvr` has the device as the one socket it owns.
`SessionsAsAssumed` shows of the many steps these are in `SockProc` what the two take
for granted: `AttachSock` meets an offline device with no client thread, no socket
that `DetachSock` would forget, an empty queue and nobody waiting (`Login` of
`SockDevice`); only `END0` of the latest thread takes a device offline (`Drop`); only
that thread queues frames; and no queue is emptied under a request that waits
(`Kick`), although `DevLogin` stops the channel without the device lock. In the other
direction, `DevLogin` of `SockProc` takes any connection that was never attached, and
`LoginGetsOpen` shows that `ListenSvr` calls it with an open one of its own. This is
argued at the interfaces; the modules are not composed into one specification.

**Who waits for whom.** Liveness cannot be proved here, but what it rests on can, for
any number of threads. For the places where the code waits without a time limit
(a lock, a join, `m_hRead`) three facts are stated in the proof module, as invariants
or as action properties:

- *No circle*: whoever is waited for is at a place from which it goes on by itself
  (`WaitsEnd`, `OneCircle`, `LockWithCaller`, `OneTurn`). They follow from small
  invariants about the owners of locks (`OwnerInv`, `HoldInv`, `LockInv`, `HeldInv`)
  and about what a thread can still find once it has been told to stop
  (`JoinInv`, `StopInv`, `ClosedInv`): no socket, an exit event, a closed
  connection. `ClosedInv` needs that nobody accepts while `stopSvr` goes through the
  slots; `HandleInv` that a handle in a slot is that of the slot's thread.
- *Progress*: each step of the thread that is waited for makes a number smaller
  (`StepsNearer`, `LnNearer`, `TmpNearer`, `HolderNearer`, `TurnNearer`), so the wait is
  over after a number of its steps that the definition gives: six for a client
  thread, six for the listening thread, three for a temporary thread, the length of
  the queue plus three for the UDP thread, 3n + 1 for n requests, four for a
  database thread. That a thread does take its next step is the fairness assumed.
- *The exceptions*: `OneCircle` of `ListenSvr` and of `UDPSvr` each leave out one pair of
  threads (`Circle`, `Stuck`), and `ExecuteReturns` one failure. `StuckForGood` shows that
  these are permanent: once the circle has closed, no step of any thread, client or
  device opens it; after a `_beginthread` that failed no thread of the database works
  again. `stopSvr` and all who need the device list then wait for ever.

`JoinedTmpEnds` of `ListenSvr` needs `~HandleReuse` and that no thread was overtaken: only
then is the handle `DelTmpSocket` waits for known to be that of the thread whose
connection it closed. That there is no other circle, the deadlock and the end of the
listening thread need no such condition.

Model-checked only:

- liveness (`ControllersReturn`, `SilentLinkEnds`, `RequestsReturn`,
  `SilentConnectionDropped`, `RepliesLeaveWhenQuiet`, `StopSvrReturns`,
  `ExecuteReturns`, `ReadEnds`), because fairness and `ENABLED` are beyond the
  prover; proved is that nobody waits in a circle and that each step brings the end
  nearer, as above;
- the routines of `Checksum` (`ChecksumsDivide`, `HeadsTold` and the
  assumption about `CRC16`): bit operations and recursion over bytes, for which the
  prover has neither the operators nor induction.

## 5. Not modelled

- Windows and dialogs of `src/HCJ`: layout and painting. The window opens and
  closes the database once to set its name, which is where `MySqlite` begins.
- `SockProcMC`, `SockProcLD`: not compilable, superseded by `SockDevice.cpp`.
- `src/SQLite/sqlite3.h`: third-party. It is the largest file of the repository
  (10342 of 15779 lines), so the lines the modules stand for, some 2560, are 16%
  of all lines but nearly half of the 5430 the project wrote itself, and 80% of
  the six files with the code of the components above (`SockProc.cpp`,
  `SockDevice.cpp`, `SockDevMng.cpp`, `SockProcListen.cpp`, `SockProcUDPSvr.cpp`,
  `MySqlite.cpp`). What remains is windows, headers with layouts and error
  codes, code that cannot be compiled, and functions nobody calls.
- `FrameRecv`, `GenerateCRC16` and `crc16_ccitt`: no caller.
- `setCfg` of the manager: copies a record nothing reads.
- Names, models and versions of a device: copied, never decided upon.
- What a UDP reply contains, and to whom it is sent (the last sender).
- Memory: message objects are values; `delete` is removal. What becomes of a
  device object that is deleted while somebody holds a pointer to it
  (`SockProcUDPSvr.cpp:233`) is undefined; in
  `UDPSvr` it is the order `UdpLookup`, `DelDev`, `UdpServe`.

## 6. Plan

Done: `SockProc` with `DeviceLink`, `ListenSvr`, `SockDevice`, `UDPSvr` with
`ReplyQueue`, `ModbusFrame` with `Checksum`, `MySqlite`, and the proofs of their
safety properties. Left, in order of what it would add:

1. `ListenSvr`, `SockProc` and `SockDevice` as one specification. Today each has the
   part of the others it needs, and the theorems named under "How the modules fit
   together" show that these parts are right.
2. A device object with a life of its own, referenced by the UDP thread while
   `delDev` deletes it.
