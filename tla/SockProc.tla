------------------------------ MODULE SockProc ------------------------------
(***************************************************************************)
(* The life of the TCP channel of one device: the CSockProc object         *)
(* m_sock_modbus of a CSockDevice, its thread MC_thread_client, the        *)
(* threads that log the device in or kick it out (DevLogin, DevKickout and *)
(* stopSvr of CSockDevMng) and the threads that send it Modbus requests.   *)
(*                                                                         *)
(* Locks: m_mutex_listdev (manager), m_lock_dev (CSockDevice::m_lock) and  *)
(* m_lock (CSockProc::m_lock) are variables, because they are held while   *)
(* waiting for something else.  m_lock_sock of this object is only held    *)
(* over straight-line code and bounded socket calls, so each section under *)
(* it is one action.                                                       *)
(***************************************************************************)
EXTENDS Integers, Sequences, FiniteSets, SequencesExt

CONSTANTS
  Controllers,  \* threads calling DevLogin, DevKickout, stopSvr
  Requesters,   \* threads calling SetDO, GetDO, GetDI, ...
  Sock,         \* accepted connections; also names the thread serving it
  SSID,         \* (dev_id << 8) + func_code of a Modbus frame
  BufNum,       \* SOCK_MSG_BUFNUM
  BeatLimit,    \* MC_BEATEN_TIMEOUT
  None          \* INVALID_SOCKET, a NULL handle, a free mutex

ASSUME SockProcAssumption ==
  /\ None \notin Controllers \cup Requesters \cup Sock
  /\ Controllers \cap Requesters = {}
  /\ BufNum \in Nat \ {0}
  /\ BeatLimit \in Nat \ {0}

VARIABLES
  m_mutex_listdev, m_lock_dev, m_lock,                      \* mutex owners
  m_sock, flg_online, flg_event_exit, m_thread_hand,        \* CSockProc
  m_beat_count, m_list_msg_recv,
  dev_flg_online,                                           \* CSockDevice
  mc, buf_recv,                                             \* MC threads
  pc, op, arg, lvl,                                         \* controllers
  rpc, rssid, rsess,                                        \* requesters
  taken,                                  \* history: connections attached
  last,                                   \* history: the latest of them
  posted                                  \* history: ON/OFFLINE messages sent

locks   == <<m_mutex_listdev, m_lock_dev, m_lock>>
channel == <<m_sock, flg_online, flg_event_exit, m_thread_hand>>
data    == <<m_beat_count, m_list_msg_recv>>
thr     == <<mc, buf_recv>>
ctl     == <<pc, op, arg, lvl>>
req     == <<rpc, rssid, rsess>>
hist    == <<taken, last>>
vars == <<locks, channel, data, dev_flg_online, thr, ctl, req, hist, posted>>

Frame == [sess : Sock, ssid : SSID]
NoFrame == [sess |-> None, ssid |-> None]

\* Code positions of MC_thread_client.
Up   == {"loop", "copy", "select", "recv", "got", "end"}
Live == {"start"} \cup Up

Init ==
  /\ m_mutex_listdev = None /\ m_lock_dev = None /\ m_lock = None
  /\ m_sock = None /\ flg_online = FALSE /\ flg_event_exit = FALSE
  /\ m_thread_hand = None /\ m_beat_count = 0 /\ m_list_msg_recv = <<>>
  /\ dev_flg_online = FALSE
  /\ mc = [t \in Sock |-> "none"] /\ buf_recv = [t \in Sock |-> NoFrame]
  /\ pc = [c \in Controllers |-> "idle"]
  /\ op = [c \in Controllers |-> "none"]
  /\ arg = [c \in Controllers |-> None]
  /\ lvl = [c \in Controllers |-> "proc"]
  /\ rpc = [r \in Requesters |-> "idle"]
  /\ rssid = [r \in Requesters |-> None]
  /\ rsess = [r \in Requesters |-> None]
  /\ taken = {} /\ last = None
  /\ posted = [on |-> 0, off |-> 0]

-----------------------------------------------------------------------------
(***************************************************************************)
(* Controllers.  lvl[c] names the caller of the CSockProc::StopProc that c *)
(* is executing: "dev" CSockDevice::StopProc, "proc" DevLogin itself,      *)
(* "start" CSockProc::StartProc.                                           *)
(***************************************************************************)
Goto(c, label) == pc' = [pc EXCEPT ![c] = label]

\* Take the device list mutex and enter an operation of CSockDevMng.
Enter(c, o, s, label) ==
  /\ pc[c] = "idle" /\ m_mutex_listdev = None
  /\ m_mutex_listdev' = c
  /\ op' = [op EXCEPT ![c] = o] /\ arg' = [arg EXCEPT ![c] = s]
  /\ Goto(c, label)
  /\ UNCHANGED <<m_lock_dev, m_lock, lvl, channel, data, dev_flg_online, thr,
                 req, hist, posted>>

\* DevLogin: the key matched, the connection s waits to be taken over.
DevLogin(c) == \E s \in Sock \ taken : Enter(c, "login", s, "status")

\* DevKickout stops the device whether it is online or not.
DevKickout(c) == Enter(c, "kick", None, "devstop")

\* The loop of stopSvr kicks the devices that are online.
StopSvrKick(c) == Enter(c, "stopsvr", None, "status")

\* Where DevLogin and stopSvr go after GetStatus.
AfterStatusNoStop(c) == IF flg_online THEN "devstop" ELSE "attach"
AfterStatusAttach(c) ==
  IF op[c] = "login" THEN "attach"
  ELSE IF flg_online THEN "devstop" ELSE "leave"
AfterStatus(c) ==
  IF flg_online THEN "devstop" ELSE IF op[c] = "login" THEN "stop" ELSE "leave"

\* CSockDevice::GetStatus reads the flag under the device lock.
GetStatus(c) ==
  /\ pc[c] = "status" /\ m_lock_dev = None
  /\ Goto(c, AfterStatus(c))
  /\ lvl' = [lvl EXCEPT ![c] = "proc"]
  /\ UNCHANGED <<locks, channel, data, dev_flg_online, thr, op, arg, req, hist,
                 posted>>

\* CSockDevice::StopProc takes the device lock around CSockProc::StopProc.
DevStopProc(c) ==
  /\ pc[c] = "devstop" /\ m_lock_dev = None
  /\ m_lock_dev' = c
  /\ lvl' = [lvl EXCEPT ![c] = "dev"]
  /\ Goto(c, "stop")
  /\ UNCHANGED <<m_mutex_listdev, m_lock, channel, data, dev_flg_online, thr,
                 op, arg, req, hist, posted>>

\* SetEvent(flg_event_exit) and closesocket(m_sock).
SignalStopSkipped == UNCHANGED <<flg_event_exit, m_sock>>
SignalStop == flg_event_exit' = TRUE /\ m_sock' = None

\* StopProc up to the join.
StopProcSignal(c) ==
  /\ pc[c] = "stop" /\ m_lock \in {None, c}
  /\ m_lock' = c
  /\ IF m_thread_hand # None
     THEN SignalStop /\ Goto(c, "join")
     ELSE UNCHANGED <<flg_event_exit, m_sock>> /\ Goto(c, "reset")
  /\ UNCHANGED <<m_mutex_listdev, m_lock_dev, flg_online, m_thread_hand, data,
                 dev_flg_online, thr, op, arg, lvl, req, hist, posted>>

\* What WaitForSingleObject(m_thread_hand, INFINITE) waits for.
ThreadGoneNoWait == TRUE
ThreadGone == mc[m_thread_hand] = "exited"

\* StopProc: the thread has ended, its handle is closed.
StopProcJoin(c) ==
  /\ pc[c] = "join" /\ ThreadGone
  /\ m_thread_hand' = None
  /\ Goto(c, "reset")
  /\ UNCHANGED <<locks, m_sock, flg_online, flg_event_exit, data,
                 dev_flg_online, thr, op, arg, lvl, req, hist, posted>>

\* CSockProc::ResetData: heartbeat count and message queues.
ResetQueueKept == m_beat_count' = 0 /\ UNCHANGED m_list_msg_recv
ResetQueue == m_beat_count' = 0 /\ m_list_msg_recv' = <<>>

\* StopProc: reset the data, release the locks, return to the caller.
StopProcReset(c) ==
  /\ pc[c] = "reset"
  /\ ResetQueue
  /\ m_lock' = IF lvl[c] = "start" THEN c ELSE None
  /\ m_lock_dev' = IF lvl[c] = "dev" THEN None ELSE m_lock_dev
  /\ Goto(c, CASE lvl[c] = "dev" -> "devreset"
               [] lvl[c] = "proc" -> "attach"
               [] lvl[c] = "start" -> "spawn")
  /\ UNCHANGED <<m_mutex_listdev, channel, dev_flg_online, thr, op, arg, lvl,
                 req, hist, posted>>

\* CSockDevice::ResetData after the channel has stopped.  DevLogin then
\* stops the channel once more, the others are done.
DevResetData(c) ==
  /\ pc[c] = "devreset" /\ m_lock_dev = None /\ m_lock = None
  /\ dev_flg_online' = FALSE
  /\ ResetQueue
  /\ lvl' = [lvl EXCEPT ![c] = "proc"]
  /\ Goto(c, IF op[c] = "login" THEN "stop" ELSE "leave")
  /\ UNCHANGED <<locks, channel, thr, op, arg, req, hist, posted>>

\* AttachSock; DetachSock inside it forgets a socket without closing it.
AttachSock(c) ==
  /\ pc[c] = "attach"
  /\ m_sock' = arg[c] /\ flg_online' = TRUE
  /\ taken' = taken \cup {arg[c]} /\ last' = arg[c]
  /\ Goto(c, "start")
  /\ UNCHANGED <<locks, flg_event_exit, m_thread_hand, data, dev_flg_online,
                 thr, op, arg, lvl, req, posted>>

\* StartProc stops a thread that is still registered, else starts one.
StartProc(c) ==
  /\ pc[c] = "start" /\ m_lock = None
  /\ m_lock' = c
  /\ lvl' = [lvl EXCEPT ![c] = "start"]
  /\ Goto(c, IF m_thread_hand # None THEN "stop" ELSE "spawn")
  /\ UNCHANGED <<m_mutex_listdev, m_lock_dev, channel, data, dev_flg_online,
                 thr, op, arg, req, hist, posted>>

\* ResetEvent of the auto-reset exit event, before the thread is created.
ResetExitEventForgotten == UNCHANGED flg_event_exit
ResetExitEvent == flg_event_exit' = FALSE

\* StartProc creates MC_thread_client; DevLogin records the device online.
SpawnThread(c) ==
  /\ pc[c] = "spawn"
  /\ ResetExitEvent
  /\ m_thread_hand' = arg[c]
  /\ mc' = [mc EXCEPT ![arg[c]] = "start"]
  /\ m_lock' = None
  /\ dev_flg_online' = (dev_flg_online \/ flg_online)
  /\ Goto(c, "leave")
  /\ UNCHANGED <<m_mutex_listdev, m_lock_dev, m_sock, flg_online, data,
                 buf_recv, op, arg, lvl, req, hist, posted>>

\* Release the list mutex and return.
Leave(c) ==
  /\ pc[c] = "leave"
  /\ m_mutex_listdev' = None
  /\ op' = [op EXCEPT ![c] = "none"] /\ arg' = [arg EXCEPT ![c] = None]
  /\ Goto(c, "idle")
  /\ UNCHANGED <<m_lock_dev, m_lock, lvl, channel, data, dev_flg_online, thr,
                 req, hist, posted>>

ControllerStep(c) ==
  \/ GetStatus(c) \/ DevStopProc(c) \/ StopProcSignal(c) \/ StopProcJoin(c)
  \/ StopProcReset(c) \/ DevResetData(c) \/ AttachSock(c) \/ StartProc(c)
  \/ SpawnThread(c) \/ Leave(c)

ControllerCall(c) == DevLogin(c) \/ DevKickout(c) \/ StopSvrKick(c)

-----------------------------------------------------------------------------
(***************************************************************************)
(* MC_thread_client.  t is the connection its login handed over; the code  *)
(* itself always uses whatever handle->m_sock holds.                       *)
(***************************************************************************)
McGoto(t, label) == mc' = [mc EXCEPT ![t] = label]

\* After the initial sleep: heartbeat 0, online, tell the window.
McUp(t) ==
  /\ mc[t] = "start"
  /\ m_beat_count' = 0 /\ flg_online' = TRUE
  /\ posted' = [posted EXCEPT !.on = @ + 1]
  /\ McGoto(t, "loop")
  /\ UNCHANGED <<locks, m_sock, flg_event_exit, m_thread_hand,
                 m_list_msg_recv, dev_flg_online, buf_recv, ctl, req, hist>>

\* The loop condition consumes the auto-reset event.
McCheckExit(t) ==
  /\ mc[t] = "loop"
  /\ flg_event_exit' = FALSE
  /\ McGoto(t, IF flg_event_exit THEN "end" ELSE "copy")
  /\ UNCHANGED <<locks, m_sock, flg_online, m_thread_hand, data,
                 dev_flg_online, buf_recv, ctl, req, hist, posted>>

\* s_client = handle->m_sock, copied under the socket lock.
McCopySock(t) ==
  /\ mc[t] = "copy"
  /\ McGoto(t, IF m_sock = None THEN "end" ELSE "select")
  /\ UNCHANGED <<locks, channel, data, dev_flg_online, buf_recv, ctl, req,
                 hist, posted>>

\* select failed, or reported an exception on the socket.
McSelectError(t) ==
  /\ mc[t] = "select" /\ McGoto(t, "end")
  /\ UNCHANGED <<locks, channel, data, dev_flg_online, buf_recv, ctl, req,
                 hist, posted>>

\* 100 ms without traffic: one heartbeat is missing.
BeatStuck == m_beat_count
NextBeat == m_beat_count + 1

McSelectIdle(t) ==
  /\ mc[t] = "select"
  /\ m_beat_count' = NextBeat
  /\ McGoto(t, IF m_beat_count' >= BeatLimit THEN "end" ELSE "loop")
  /\ UNCHANGED <<locks, channel, m_list_msg_recv, dev_flg_online, buf_recv,
                 ctl, req, hist, posted>>

McSelectReady(t) ==
  /\ mc[t] = "select" /\ McGoto(t, "recv")
  /\ UNCHANGED <<locks, channel, data, dev_flg_online, buf_recv, ctl, req,
                 hist, posted>>

\* Head and body of one frame arrive on handle->m_sock with a good CRC.
McRecvFrame(t) ==
  /\ mc[t] = "recv" /\ m_sock # None
  /\ \E x \in SSID :
       buf_recv' = [buf_recv EXCEPT ![t] = [sess |-> m_sock, ssid |-> x]]
  /\ McGoto(t, "got")
  /\ UNCHANGED <<locks, channel, data, dev_flg_online, ctl, req, hist, posted>>

\* Socket closed, peer gone, short frame or bad CRC.
McRecvError(t) ==
  /\ mc[t] = "recv" /\ McGoto(t, "end")
  /\ UNCHANGED <<locks, channel, data, dev_flg_online, buf_recv, ctl, req,
                 hist, posted>>

\* AddTail, then drop the oldest message when the buffer is full.
AddTailNoDrop(q, m) == Append(q, m)
AddTail(q, m) ==
  IF Len(Append(q, m)) >= BufNum THEN Tail(Append(q, m)) ELSE Append(q, m)

\* The frame is processed: heartbeat cleared, message queued.
McEnqueue(t) ==
  /\ mc[t] = "got"
  /\ m_beat_count' = 0
  /\ m_list_msg_recv' = AddTail(m_list_msg_recv, buf_recv[t])
  /\ buf_recv' = [buf_recv EXCEPT ![t] = NoFrame]
  /\ McGoto(t, "loop")
  /\ UNCHANGED <<locks, channel, dev_flg_online, ctl, req, hist, posted>>

\* What END0 leaves in flg_online.
OnlineAfterEndKept == flg_online
OnlineAfterEnd == FALSE

\* END0: close the connection, offline, tell the window.
McExit(t) ==
  /\ mc[t] = "end"
  /\ m_sock' = None /\ flg_online' = OnlineAfterEnd
  /\ posted' = [posted EXCEPT !.off = @ + 1]
  /\ McGoto(t, "exited")
  /\ UNCHANGED <<locks, flg_event_exit, m_thread_hand, data, dev_flg_online,
                 buf_recv, ctl, req, hist>>

McStep(t) ==
  \/ McUp(t) \/ McCheckExit(t) \/ McCopySock(t) \/ McSelectError(t)
  \/ McSelectIdle(t) \/ McSelectReady(t) \/ McRecvFrame(t) \/ McRecvError(t)
  \/ McEnqueue(t) \/ McExit(t)

-----------------------------------------------------------------------------
(***************************************************************************)
(* Requesters: SetDO, GetDO, GetDI, ... of CSockDevice.                    *)
(***************************************************************************)
RqGoto(r, label) == rpc' = [rpc EXCEPT ![r] = label]

\* GetStatus before the request; an offline device ends the call at once.
RqCheck(r) ==
  /\ rpc[r] = "idle" /\ m_lock_dev = None /\ flg_online
  /\ \E x \in SSID : rssid' = [rssid EXCEPT ![r] = x]
  /\ RqGoto(r, "checked")
  /\ UNCHANGED <<locks, channel, data, dev_flg_online, thr, ctl, rsess, hist,
                 posted>>

\* Lock() of the device, held until the call returns.
RqLock(r) ==
  /\ rpc[r] = "checked" /\ m_lock_dev = None
  /\ m_lock_dev' = r
  /\ RqGoto(r, "locked")
  /\ UNCHANGED <<m_mutex_listdev, m_lock, channel, data, dev_flg_online, thr,
                 ctl, rssid, rsess, hist, posted>>

\* L_send on the current socket.
RqSend(r) ==
  /\ rpc[r] = "locked" /\ m_sock # None
  /\ rsess' = [rsess EXCEPT ![r] = m_sock]
  /\ RqGoto(r, "wait")
  /\ UNCHANGED <<locks, channel, data, dev_flg_online, thr, ctl, rssid, hist,
                 posted>>

RqReturn(r) ==
  /\ m_lock_dev' = None
  /\ rssid' = [rssid EXCEPT ![r] = None]
  /\ rsess' = [rsess EXCEPT ![r] = None]
  /\ RqGoto(r, "idle")

\* L_send failed: Unlock and return.
RqSendFail(r) ==
  /\ rpc[r] = "locked" /\ RqReturn(r)
  /\ UNCHANGED <<m_mutex_listdev, m_lock, channel, data, dev_flg_online, thr,
                 ctl, hist, posted>>

\* The first queued message with this session id.
IsFirstBySSID(q, x, i) ==
  /\ q[i].ssid = x
  /\ \A j \in 1 .. i - 1 : q[j].ssid # x

\* FrameRecvBySSID found an answer.
RqTake(r) ==
  /\ rpc[r] = "wait" /\ flg_online
  /\ \E i \in 1 .. Len(m_list_msg_recv) :
       /\ IsFirstBySSID(m_list_msg_recv, rssid[r], i)
       /\ m_list_msg_recv' = RemoveAt(m_list_msg_recv, i)
  /\ RqReturn(r)
  /\ UNCHANGED <<m_mutex_listdev, m_lock, channel, m_beat_count,
                 dev_flg_online, thr, ctl, hist, posted>>

\* SOCK_MSG_TIMEOUT polls found nothing.
RqTimeout(r) ==
  /\ rpc[r] = "wait" /\ RqReturn(r)
  /\ UNCHANGED <<m_mutex_listdev, m_lock, channel, data, dev_flg_online, thr,
                 ctl, hist, posted>>

RqStep(r) == RqLock(r) \/ RqSend(r) \/ RqSendFail(r) \/ RqTake(r) \/ RqTimeout(r)

-----------------------------------------------------------------------------
Next ==
  \/ \E c \in Controllers : ControllerCall(c) \/ ControllerStep(c)
  \/ \E t \in Sock : McStep(t)
  \/ \E r \in Requesters : RqCheck(r) \/ RqStep(r)

Spec == Init /\ [][Next]_vars

(***************************************************************************)
(* Threads keep running (weak fairness), and a Windows mutex queues its    *)
(* waiters, so a thread waiting for one is not overtaken for ever (strong  *)
(* fairness of the threads that acquire locks).  Nothing obliges anyone to *)
(* start an operation.                                                     *)
(***************************************************************************)
Fairness ==
  /\ \A t \in Sock : WF_vars(McStep(t))
  /\ \A c \in Controllers : SF_vars(ControllerStep(c))
  /\ \A r \in Requesters : SF_vars(RqStep(r))

FairSpec == Spec /\ Fairness
-----------------------------------------------------------------------------
(***************************************************************************)
(* Properties.                                                             *)
(***************************************************************************)
Threads == {t \in Sock : mc[t] \in Live}

\* Types.  The receive queue never reaches SOCK_MSG_BUFNUM once the socket
\* lock is released (SockDevice.cpp:1002).
TypeOK ==
  /\ m_mutex_listdev \in Controllers \cup {None}
  /\ m_lock_dev \in Controllers \cup Requesters \cup {None}
  /\ m_lock \in Controllers \cup {None}
  /\ m_sock \in Sock \cup {None} /\ m_thread_hand \in Sock \cup {None}
  /\ flg_online \in BOOLEAN /\ flg_event_exit \in BOOLEAN
  /\ dev_flg_online \in BOOLEAN
  /\ m_beat_count \in Nat
  /\ m_list_msg_recv \in Seq(Frame) /\ Len(m_list_msg_recv) < BufNum
  /\ mc \in [Sock -> {"none", "exited"} \cup Live]
  /\ buf_recv \in [Sock -> Frame \cup {NoFrame}]
  /\ \A t \in Sock : mc[t] = "got" => buf_recv[t] \in Frame
  /\ pc \in [Controllers -> {"idle", "status", "devstop", "stop", "join",
             "reset", "devreset", "attach", "start", "spawn", "leave"}]
  /\ op \in [Controllers -> {"none", "login", "kick", "stopsvr"}]
  /\ arg \in [Controllers -> Sock \cup {None}]
  /\ lvl \in [Controllers -> {"dev", "proc", "start"}]
  /\ rpc \in [Requesters -> {"idle", "checked", "locked", "wait"}]
  /\ rssid \in [Requesters -> SSID \cup {None}]
  /\ rsess \in [Requesters -> Sock \cup {None}]
  /\ taken \subseteq Sock /\ last \in Sock \cup {None}
  /\ posted \in [on : Nat, off : Nat]

\* One MC_thread_client at a time reads the device's socket, whatever
\* logins, kicks and disconnections race: the join in StopProc is what the
\* socket, the queue and the exit event rely on.
AtMostOneThread == \A s, t \in Threads : s = t

\* A running thread works on the connection its own login handed over, or
\* on none; it never reads or closes the socket of a later login, although
\* it always goes through handle->m_sock.
ThreadOwnsSock == \A t \in Threads : m_sock \in {t, None}

\* The connection a login attached is still there when its thread starts:
\* "the stop must come first, or stop closes the attached socket"
\* (SockDevMng.cpp:245).
AttachedSockSurvives ==
  \A c \in Controllers :
     op[c] = "login" /\ arg[c] \in taken /\ pc[c] # "leave" => m_sock = arg[c]

\* A request that waits for its answer can only find frames of the
\* connection it was sent on, never one left by an earlier connection of
\* the same device (FrameRecvBySSID compares device and function only).
NoStaleReply ==
  \A r \in Requesters : rpc[r] = "wait" =>
     \A i \in 1 .. Len(m_list_msg_recv) : m_list_msg_recv[i].sess = rsess[r]

\* An online device has a thread that will notice the loss of the link, or
\* a login about to start one.
OnlineImpliesServed ==
  flg_online => \/ Threads # {}
                \/ \E c \in Controllers : pc[c] \in {"start", "spawn"}

\* The exit event kills only the thread it was raised for: while a thread
\* lives, the event is raised only if somebody waits for its end, so a
\* thread never starts with an event left by the stop of its predecessor
\* (auto-reset event, ResetEvent in StartProc).
NoStaleExit ==
  Threads # {} /\ flg_event_exit => \E c \in Controllers : pc[c] = "join"

\* The window is told ONLINE and OFFLINE strictly in turn, and the last
\* message agrees with whether a thread is serving the link.
EventsAlternate ==
  posted.on - posted.off = IF \E t \in Sock : mc[t] \in Up THEN 1 ELSE 0

\* The link of a device is taken and dropped as DeviceLink says: a
\* registration only ever takes the place of a link that went down first.
Link == INSTANCE DeviceLink WITH up <- flg_online
ImplementsLink == Link!LinkSpec

\* Login, kick and stop always return: nobody waits for ever on the list
\* mutex, the device lock or the end of the client thread.
ControllersReturn ==
  \A c \in Controllers : pc[c] = "status" \/ pc[c] = "devstop" ~> pc[c] = "idle"

\* A silent peer does not keep the device online: unless frames keep
\* arriving, the thread ends after MC_BEATEN_TIMEOUT idle rounds.
SilentLinkEnds == \A t \in Sock : mc[t] = "start" ~> mc[t] \in {"got", "exited"}

\* Request functions return, also when the device is kicked meanwhile.
RequestsReturn == \A r \in Requesters : rpc[r] = "checked" ~> rpc[r] = "idle"
=============================================================================
