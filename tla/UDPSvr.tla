------------------------------- MODULE UDPSvr -------------------------------
(***************************************************************************)
(* The UDP query server CSockProcUDPSvr m_svr_udp of CSockDevMng, and the  *)
(* device list its requests are about.                                     *)
(*                                                                         *)
(* One thread receives requests, looks the devices up and queues replies;  *)
(* the replies leave when a round of select finds nothing to receive.      *)
(* Other threads start and stop the server (startSvr, stopSvr), change the *)
(* list (addDev, delDev) and queue a message of their own (NotifyLogin).   *)
(*                                                                         *)
(* The thread holds m_lock_sock from recvfrom to the end of a request,     *)
(* also while it waits for m_mutex_listdev in GetDevByID, so both mutexes  *)
(* are variables.  m_lock is only taken under m_mutex_listdev and is left  *)
(* out, and so are the registration server and the links of the devices,   *)
(* which stopSvr stops first.  A request with pu_id 0 is "all", one for a  *)
(* device names it; what a reply says about the device is left out.        *)
(***************************************************************************)
EXTENDS Integers, Sequences, FiniteSets, SequencesExt

CONSTANTS
  Callers,     \* threads of the program other than the server's
  Udp,         \* the thread SOCKUDP_thread_server
  Devs,        \* pu_id of the devices
  MaxPackets,  \* bound: packets the clients send, but for those of a type
               \* the server does not know, which may come for ever
  MaxInbox,    \* bound: packets in the buffer of the socket
  MaxShifts,   \* bound: deletions behind the loop over all devices
  MaxNotes,    \* bound: calls of NotifyLogin
  MaxRuns,     \* bound: starts of the server
  None         \* a free mutex

ASSUME UDPSvrAssumption ==
  /\ Udp \notin Callers /\ None \notin Callers \cup {Udp} \cup Devs
  /\ Devs \cap {"badlabel", "badcrc", "unknown", "all"} = {}
  /\ MaxPackets \in Nat /\ MaxNotes \in Nat /\ MaxRuns \in Nat
  /\ MaxInbox \in Nat /\ MaxShifts \in Nat

VARIABLES
  m_mutex_listdev, m_flg_running, m_list_device,       \* CSockDevMng
  m_lock_sock, m_sock, flg_event_exit, flg_online,     \* CSockProc m_svr_udp
  m_list_msg_send, m_ssid,
  upc, request, walk,          \* the thread: position, request, device of the loop
  pc,                          \* the callers: position
  inbox,                       \* packets in the buffer of the socket
  packets, notes, runs,        \* counters for the bounds
  last_sent,                   \* history: number after the last one sent
  steady, reported,            \* history: devices in the list ever since the
                               \* loop over all began, devices it has reported
  shifted                      \* history: deletions behind the loop

mng   == <<m_mutex_listdev, m_flg_running, m_list_device>>
queue == <<m_list_msg_send, m_ssid>>
loop  == <<request, walk, steady, reported, shifted>>
bound == <<packets, notes, runs>>
vars  == <<mng, m_lock_sock, m_sock, flg_event_exit, flg_online, queue, upc,
           loop, pc, inbox, bound, last_sent>>

\* What a packet can be: wrong label or length, wrong checksum, a type the
\* server does not know, a question about all devices, or one about a device
\* (its state, its sensors, an order to a relay).
Packets == {"badlabel", "badcrc", "unknown", "all"} \cup Devs

Init ==
  /\ m_mutex_listdev = None /\ m_flg_running = FALSE
  /\ m_list_device = <<>>
  /\ m_lock_sock = None /\ m_sock = FALSE
  /\ flg_event_exit = FALSE /\ flg_online = FALSE
  /\ m_list_msg_send = <<>> /\ m_ssid = 0
  /\ upc = "none" /\ request = None /\ walk = 0
  /\ pc = [c \in Callers |-> "idle"]
  /\ inbox = <<>> /\ packets = 0 /\ notes = 0 /\ runs = 0
  /\ last_sent = 0 /\ steady = {} /\ reported = {} /\ shifted = 0

Listed(d) == \E i \in DOMAIN m_list_device : m_list_device[i] = d

-----------------------------------------------------------------------------
(***************************************************************************)
(* FrameSend: number the message and queue it, if the server says it is    *)
(* online.  asked tells a reply from a message of NotifyLogin, run is the  *)
(* start of the server it belongs to; both exist only here.                *)
(***************************************************************************)
Message(asked) == [ssid |-> m_ssid, asked |-> asked, run |-> runs]

EnqueueFirst(msg) == m_list_msg_send' = <<msg>> \o m_list_msg_send
Enqueue(msg) == m_list_msg_send' = Append(m_list_msg_send, msg)

FrameSend(asked) ==
  IF flg_online THEN Enqueue(Message(asked)) /\ m_ssid' = m_ssid + 1
  ELSE UNCHANGED queue

-----------------------------------------------------------------------------
(***************************************************************************)
(* The thread SOCKUDP_thread_server.                                       *)
(***************************************************************************)
UdpBind ==
  /\ upc = "bind" /\ m_lock_sock = None
  /\ upc' = "loop" /\ m_sock' = TRUE /\ flg_online' = TRUE
  /\ UNCHANGED <<mng, m_lock_sock, flg_event_exit, queue, loop, pc, inbox,
                 bound, last_sent>>

\* The port is in use; flg_online keeps the value an earlier run left.
UdpBindFails ==
  /\ upc = "bind" /\ m_lock_sock = None
  /\ upc' = "exited"
  /\ UNCHANGED <<mng, m_lock_sock, m_sock, flg_event_exit, flg_online, queue,
                 loop, pc, inbox, bound, last_sent>>

\* The loop condition consumes the exit event.
UdpLoop ==
  /\ upc = "loop"
  /\ upc' = IF flg_event_exit THEN "end" ELSE "select"
  /\ flg_event_exit' = FALSE
  /\ UNCHANGED <<mng, m_lock_sock, m_sock, flg_online, queue, loop, pc,
                 inbox, bound, last_sent>>

\* select fails because StopProc closed the socket.  The thread ends without
\* clearing flg_online.
UdpClosed ==
  /\ upc = "select" /\ m_lock_sock = None /\ ~m_sock
  /\ upc' = "exited"
  /\ UNCHANGED <<mng, m_lock_sock, m_sock, flg_event_exit, flg_online, queue,
                 loop, pc, inbox, bound, last_sent>>

\* select fails for another reason; closeSock.
UdpSelectFails ==
  /\ upc = "select" /\ m_lock_sock = None /\ m_sock
  /\ upc' = "exited" /\ m_sock' = FALSE /\ inbox' = <<>>
  /\ UNCHANGED <<mng, m_lock_sock, flg_event_exit, flg_online, queue, loop,
                 pc, bound, last_sent>>

\* recvfrom fails; the socket stays open.
UdpRecvFails ==
  /\ upc = "select" /\ m_lock_sock = None /\ m_sock
  /\ upc' = "exited"
  /\ UNCHANGED <<mng, m_lock_sock, m_sock, flg_event_exit, flg_online, queue,
                 loop, pc, inbox, bound, last_sent>>

\* 100 ms without a packet: send what is queued.
AfterIdleNothing == "loop"
AfterIdle == "drain"

UdpIdle ==
  /\ upc = "select" /\ m_sock /\ inbox = <<>>
  /\ upc' = AfterIdle
  /\ UNCHANGED <<mng, m_lock_sock, m_sock, flg_event_exit, flg_online, queue,
                 loop, pc, inbox, bound, last_sent>>

\* Take the first message and send it; sendto does nothing on a closed socket.
UdpSend ==
  /\ upc = "drain" /\ m_lock_sock = None /\ m_list_msg_send # <<>>
  /\ m_list_msg_send' = Tail(m_list_msg_send)
  /\ last_sent' = IF m_sock THEN Head(m_list_msg_send).ssid + 1 ELSE last_sent
  /\ UNCHANGED <<mng, m_lock_sock, m_sock, flg_event_exit, flg_online, m_ssid,
                 upc, loop, pc, inbox, bound>>

UdpDrained ==
  /\ upc = "drain" /\ m_lock_sock = None /\ m_list_msg_send = <<>>
  /\ upc' = "loop"
  /\ UNCHANGED <<mng, m_lock_sock, m_sock, flg_event_exit, flg_online, queue,
                 loop, pc, inbox, bound, last_sent>>

\* The loop over the devices starts with the first one.
FirstDevSkipped == 2
FirstDev == 1

\* recvfrom, under m_lock_sock.  A packet with a wrong checksum leaves the
\* loop without releasing it.
Accepts(p) == p \notin {"badlabel", "badcrc"}

UdpRecv ==
  /\ upc = "select" /\ m_lock_sock = None /\ m_sock /\ inbox # <<>>
  /\ inbox' = Tail(inbox)
  /\ LET p == Head(inbox) IN
       /\ m_lock_sock' = IF p \in {"badlabel", "unknown"} THEN None ELSE Udp
       /\ upc' = CASE ~Accepts(p) -> "end"
                   [] p = "unknown" -> "loop"
                   [] p = "all" -> "walk"
                   [] p \in Devs -> "lookup"
       /\ request' = IF p \in Devs THEN p ELSE None
       /\ walk' = IF p = "all" THEN FirstDev ELSE 0
       /\ steady' = IF p = "all" THEN ToSet(m_list_device) ELSE {}
  /\ UNCHANGED <<mng, m_sock, flg_event_exit, flg_online, queue, reported,
                 shifted, pc, bound, last_sent>>

\* One round of the loop over m_list_device, without its mutex.
UdpWalk ==
  /\ upc = "walk" /\ walk <= Len(m_list_device)
  /\ FrameSend(TRUE)
  /\ reported' = reported \cup {m_list_device[walk]}
  /\ walk' = walk + 1
  /\ UNCHANGED <<mng, m_lock_sock, m_sock, flg_event_exit, flg_online, upc,
                 request, steady, shifted, pc, inbox, bound, last_sent>>

UdpWalkDone ==
  /\ upc = "walk" /\ walk > Len(m_list_device)
  /\ upc' = "loop" /\ m_lock_sock' = None
  /\ walk' = 0 /\ steady' = {} /\ reported' = {} /\ shifted' = 0
  /\ UNCHANGED <<mng, m_sock, flg_event_exit, flg_online, queue, request, pc,
                 inbox, bound, last_sent>>

\* GetDevByID waits for the list mutex, with m_lock_sock held.
UdpLookup ==
  /\ upc = "lookup" /\ m_mutex_listdev = None
  /\ IF Listed(request)
     THEN upc' = "serve" /\ UNCHANGED <<m_lock_sock, request>>
     ELSE upc' = "loop" /\ m_lock_sock' = None /\ request' = None
  /\ UNCHANGED <<mng, m_sock, flg_event_exit, flg_online, queue, walk, steady,
                 reported, shifted, pc, inbox, bound, last_sent>>

\* GetStatus or SetDO of the device, and the reply.
UdpServe ==
  /\ upc = "serve"
  /\ FrameSend(TRUE)
  /\ upc' = "loop" /\ m_lock_sock' = None /\ request' = None
  /\ UNCHANGED <<mng, m_sock, flg_event_exit, flg_online, walk, steady,
                 reported, shifted, pc, inbox, bound, last_sent>>

\* After the loop: offline, closeSock.  m_lock_sock may still be the
\* thread's; it is given up when the thread ends.
UdpEnd ==
  /\ upc = "end" /\ m_lock_sock \in {None, Udp}
  /\ upc' = "exited" /\ m_lock_sock' = None
  /\ flg_online' = FALSE /\ m_sock' = FALSE /\ inbox' = <<>>
  /\ UNCHANGED <<mng, flg_event_exit, queue, loop, pc, bound, last_sent>>

UdpStep ==
  \/ UdpBind \/ UdpLoop \/ UdpClosed \/ UdpIdle \/ UdpSend \/ UdpDrained
  \/ UdpRecv \/ UdpWalk \/ UdpWalkDone \/ UdpLookup \/ UdpServe \/ UdpEnd

UdpFails == UdpBindFails \/ UdpSelectFails \/ UdpRecvFails

-----------------------------------------------------------------------------
(***************************************************************************)
(* startSvr and stopSvr.                                                   *)
(***************************************************************************)
Goto(c, label) == pc' = [pc EXCEPT ![c] = label]

\* StartProc: the exit event of an earlier thread is reset.
ResetExitEventForgotten == UNCHANGED flg_event_exit
ResetExitEvent == flg_event_exit' = FALSE

StartSvr(c) ==
  /\ pc[c] = "idle" /\ m_mutex_listdev = None /\ ~m_flg_running
  /\ m_lock_sock = None
  /\ runs < MaxRuns /\ runs' = runs + 1
  /\ m_flg_running' = TRUE
  /\ ResetExitEvent
  /\ upc' = "bind"
  /\ UNCHANGED <<m_mutex_listdev, m_list_device, m_lock_sock, m_sock,
                 flg_online, queue, loop, pc, inbox, packets, notes,
                 last_sent>>

StopSvr(c) ==
  /\ pc[c] = "idle" /\ m_mutex_listdev = None /\ m_flg_running
  /\ m_mutex_listdev' = c
  /\ Goto(c, "signal")
  /\ UNCHANGED <<m_flg_running, m_list_device, m_lock_sock, m_sock,
                 flg_event_exit, flg_online, queue, upc, loop, inbox,
                 bound, last_sent>>

\* StopProc, under m_lock_sock: raise the exit event, close the socket.
SignalStopSkipped == UNCHANGED <<flg_event_exit, m_sock, inbox>>
SignalStop == flg_event_exit' = TRUE /\ m_sock' = FALSE /\ inbox' = <<>>

StopSignal(c) ==
  /\ pc[c] = "signal" /\ m_lock_sock = None
  /\ SignalStop
  /\ Goto(c, "join")
  /\ UNCHANGED <<mng, m_lock_sock, flg_online, queue, upc, loop,
                 bound, last_sent>>

\* The thread has ended.  ResetData empties the queue.
ResetDataKept == UNCHANGED m_list_msg_send
ResetData == m_list_msg_send' = <<>>

StopJoin(c) ==
  /\ pc[c] = "join" /\ upc = "exited" /\ m_lock_sock = None
  /\ upc' = "none"
  /\ ResetData
  /\ m_flg_running' = FALSE /\ m_mutex_listdev' = None
  /\ Goto(c, "idle")
  /\ UNCHANGED <<m_list_device, m_lock_sock, m_sock, flg_event_exit,
                 flg_online, m_ssid, loop, inbox, bound, last_sent>>

-----------------------------------------------------------------------------
(***************************************************************************)
(* addDev, delDev and NotifyLogin.                                         *)
(***************************************************************************)
\* A device with this pu_id already in the list is refused.
AlreadyExists(d) == Listed(d)

AddDev(c, d) ==
  /\ pc[c] = "idle" /\ m_mutex_listdev = None /\ ~AlreadyExists(d)
  /\ m_list_device' = Append(m_list_device, d)
  /\ UNCHANGED <<m_mutex_listdev, m_flg_running, m_lock_sock, m_sock,
                 flg_event_exit, flg_online, queue, upc, loop, pc, inbox,
                 bound, last_sent>>

\* The link of the device is stopped and the device deleted; those after it
\* move up, past the loop over all if it has come as far.
DelDev(c, d) ==
  /\ pc[c] = "idle" /\ m_mutex_listdev = None
  /\ \E i \in DOMAIN m_list_device :
       /\ m_list_device[i] = d /\ m_list_device' = RemoveAt(m_list_device, i)
       /\ IF i < walk THEN shifted < MaxShifts /\ shifted' = shifted + 1
          ELSE UNCHANGED shifted
  /\ steady' = steady \ {d}
  /\ UNCHANGED <<m_mutex_listdev, m_flg_running, m_lock_sock, m_sock,
                 flg_event_exit, flg_online, queue, upc, request, walk,
                 reported, pc, inbox, bound, last_sent>>

\* NotifyLogin of some device: GetDevByID, then FrameSend.
NotifyLogin(c) ==
  /\ pc[c] = "idle" /\ m_mutex_listdev = None /\ m_list_device # <<>>
  /\ notes < MaxNotes /\ notes' = notes + 1
  /\ Goto(c, "notify")
  /\ UNCHANGED <<mng, m_lock_sock, m_sock, flg_event_exit, flg_online, queue,
                 upc, loop, inbox, packets, runs, last_sent>>

NotifySend(c) ==
  /\ pc[c] = "notify" /\ (flg_online => m_lock_sock = None)
  /\ FrameSend(FALSE)
  /\ Goto(c, "idle")
  /\ UNCHANGED <<mng, m_lock_sock, m_sock, flg_event_exit, flg_online, upc,
                 loop, inbox, bound, last_sent>>

CallerStep(c) == StopSignal(c) \/ StopJoin(c) \/ NotifySend(c)

\* A client sends a packet; it waits in the buffer of the socket.
ClientSend ==
  /\ m_sock /\ Len(inbox) < MaxInbox
  /\ \E p \in Packets :
       /\ inbox' = Append(inbox, p)
       /\ IF p = "unknown" THEN UNCHANGED packets
          ELSE packets < MaxPackets /\ packets' = packets + 1
  /\ UNCHANGED <<mng, m_lock_sock, m_sock, flg_event_exit, flg_online, queue,
                 upc, loop, pc, notes, runs, last_sent>>

-----------------------------------------------------------------------------
Next ==
  \/ UdpStep \/ UdpFails \/ ClientSend
  \/ \E c \in Callers : StartSvr(c) \/ StopSvr(c) \/ NotifyLogin(c) \/ CallerStep(c)
  \/ \E c \in Callers, d \in Devs : AddDev(c, d) \/ DelDev(c, d)

Spec == Init /\ [][Next]_vars

(***************************************************************************)
(* The threads keep running and get the mutexes they wait for.  Nobody has *)
(* to call anything or to send a packet.                                   *)
(***************************************************************************)
Fairness == SF_vars(UdpStep) /\ \A c \in Callers : SF_vars(CallerStep(c))

FairSpec == Spec /\ Fairness

-----------------------------------------------------------------------------
(***************************************************************************)
(* Properties.                                                             *)
(***************************************************************************)
MessageType == [ssid : Nat, asked : BOOLEAN, run : Nat]

\* Every variable has its type, no device is in the list twice, and only the
\* server's thread holds m_lock_sock between two steps.
TypeOK ==
  /\ m_mutex_listdev \in Callers \cup {None} /\ m_flg_running \in BOOLEAN
  /\ m_list_device \in Seq(Devs) /\ IsInjective(m_list_device)
  /\ m_lock_sock \in {Udp, None} /\ m_sock \in BOOLEAN
  /\ flg_event_exit \in BOOLEAN /\ flg_online \in BOOLEAN
  /\ m_list_msg_send \in Seq(MessageType) /\ m_ssid \in Nat
  /\ upc \in {"none", "bind", "loop", "select", "drain", "walk", "lookup",
              "serve", "end", "exited"}
  /\ request \in Devs \cup {None} /\ walk \in Nat
  /\ pc \in [Callers -> {"idle", "signal", "join", "notify"}]
  /\ inbox \in Seq(Packets)
  /\ packets \in 0 .. MaxPackets /\ notes \in 0 .. MaxNotes
  /\ runs \in 0 .. MaxRuns
  /\ last_sent \in Nat
  /\ steady \subseteq Devs /\ reported \subseteq Devs /\ shifted \in 0 .. MaxShifts

\* An exit event a live thread can see was raised for that thread.  A thread
\* that died of a bad packet leaves the event of its stopSvr unconsumed; it
\* must not end the thread of the next startSvr.
NoStaleExit ==
  flg_event_exit /\ upc \notin {"none", "exited"} =>
    \E c \in Callers : pc[c] = "join"

\* A reply never outlives the run of the server it was asked in: whatever
\* way the thread ended, nothing of it is sent after a restart.
NoReplyOfEarlierRun ==
  \A i \in DOMAIN m_list_msg_send :
     m_list_msg_send[i].asked =>
       m_flg_running /\ m_list_msg_send[i].run = runs

\* The server and NotifyLogin queue from different threads, the server
\* takes out while they do: still the messages leave in the order of their
\* numbers, each at most once.
RQ == INSTANCE ReplyQueue
        WITH waiting <- [i \in DOMAIN m_list_msg_send |-> m_list_msg_send[i].ssid],
             next <- m_ssid, last <- last_sent

ImplementsReplyQueue == RQ!Spec

\* The thread waits for the list mutex, whose owner waits for the thread.
Stuck(c) == pc[c] = "signal" /\ m_mutex_listdev = c /\ upc = "lookup"

\* A queued message leaves, or the server ends.
RepliesLeave ==
  m_list_msg_send # <<>> /\ upc \notin {"none", "exited"}
    ~> \/ m_list_msg_send = <<>> \/ upc \in {"none", "exited"}
       \/ \E c \in Callers : Stuck(c)

\* Replies are only sent in a round of select that finds nothing to receive,
\* so an endless stream of packets holds them back for ever.  They leave if at
\* some time the clients stop sending for good: then also all that is queued
\* behind the requests still to be answered.
RepliesLeaveWhenQuiet == <>[](inbox = <<>>) => RepliesLeave

\* stopSvr returns, whatever the thread is doing when it is called, but for
\* one case: a request for one device that has just been received.
StopSvrReturns ==
  \A c \in Callers : pc[c] = "signal" ~> pc[c] = "idle" \/ Stuck(c)

\* "check all dev" (SockProcUDPSvr.cpp:214): every device that was in the list
\* all the time is reported.
AllReported ==
  upc = "walk" /\ walk > Len(m_list_device) => steady \subseteq reported

\* The loop goes over the list without its mutex, so that is not always so: it
\* passes over one device at most for each device deleted at a place behind
\* it, and none for whatever is added, or deleted ahead of it.
PassedOverByDeletion ==
  upc = "walk" /\ walk > Len(m_list_device)
    => Cardinality(steady \ reported) <= shifted
=============================================================================
