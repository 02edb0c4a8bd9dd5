--------------------------- MODULE SockProcProofs ---------------------------
(***************************************************************************)
(* Proofs about SockProc: for any number of threads, connections, session  *)
(* ids and any buffer size, its safety properties hold and it implements   *)
(* DeviceLink.                                                             *)
(*                                                                         *)
(* The argument.  The list mutex lets one controller at a time through     *)
(* (MutexInv), so the only thread that can be alive is the one whose       *)
(* handle is registered (ThreadInv), and once StopProc has joined it the   *)
(* handle is NULL until the login starts the next one (FlowInv).  While    *)
(* the controller is between the join and AttachSock the device is offline *)
(* and no request is waiting (RequestInv): a request waits under the       *)
(* device lock, which the controller has taken once since (DevLockInv).    *)
(***************************************************************************)
EXTENDS SockProc, SequenceTheorems, TLAPS

-----------------------------------------------------------------------------
(***************************************************************************)
(* Sequences.                                                              *)
(***************************************************************************)

\* RemoveAt of a message list (m_list_msg_recv.RemoveAt) yields a list of
\* messages that is one shorter.
LEMMA RemoveAtType ==
  ASSUME NEW S, NEW q \in Seq(S), NEW i \in 1 .. Len(q)
  PROVE  RemoveAt(q, i) \in Seq(S) /\ Len(RemoveAt(q, i)) = Len(q) - 1
<1>1. /\ SubSeq(q, 1, i - 1) \in Seq(S)
      /\ Len(SubSeq(q, 1, i - 1)) = i - 1
  <2>1. \A j \in 1 .. i - 1 : q[j] \in S
    BY LenProperties
  <2>2. QED
    BY <2>1, SubSeqProperties, LenProperties
<1>2. /\ SubSeq(q, i + 1, Len(q)) \in Seq(S)
      /\ Len(SubSeq(q, i + 1, Len(q))) = Len(q) - i
  <2>1. \A j \in i + 1 .. Len(q) : q[j] \in S
    BY LenProperties
  <2>2. QED
    BY <2>1, SubSeqProperties, LenProperties
<1>3. Len(q) \in Nat /\ i \in Nat
  BY LenProperties
<1>4. RemoveAt(q, i) = SubSeq(q, 1, i - 1) \o SubSeq(q, i + 1, Len(q))
  BY DEF RemoveAt
<1>5. \A u, v \in Seq(S) : /\ u \o v \in Seq(S)
                            /\ Len(u \o v) = Len(u) + Len(v)
  BY ConcatProperties
<1>6. /\ RemoveAt(q, i) \in Seq(S)
      /\ Len(RemoveAt(q, i)) = (i - 1) + (Len(q) - i)
  BY <1>1, <1>2, <1>4, <1>5, Zenon
<1>7. QED
  BY <1>3, <1>6

\* AddTail keeps the message list below SOCK_MSG_BUFNUM.
LEMMA AddTailType ==
  ASSUME NEW S, NEW q \in Seq(S), Len(q) < BufNum, NEW m \in S
  PROVE  AddTail(q, m) \in Seq(S) /\ Len(AddTail(q, m)) < BufNum
<1>1. /\ Append(q, m) \in Seq(S) /\ Append(q, m) # <<>>
      /\ Len(Append(q, m)) = Len(q) + 1
  BY AppendProperties
<1>2. Tail(Append(q, m)) \in Seq(S) /\ Len(Tail(Append(q, m))) = Len(q)
  BY <1>1, HeadTailProperties, LenProperties
<1>3. QED
  BY <1>1, <1>2, SockProcAssumption, LenProperties DEF AddTail

-----------------------------------------------------------------------------
(***************************************************************************)
(* The inductive invariant.                                                *)
(***************************************************************************)

\* A controller is inside an operation iff it owns the list mutex.
MutexInv == \A c \in Controllers : pc[c] # "idle" <=> m_mutex_listdev = c

\* CSockDevice::StopProc and waiting requests own the device lock.
DevLockInv ==
  /\ \A c \in Controllers :
       pc[c] \in {"stop", "join", "reset"} /\ lvl[c] = "dev" => m_lock_dev = c
  /\ \A r \in Requesters : rpc[r] \in {"locked", "wait"} => m_lock_dev = r

\* What is known at each position of a controller.
FlowInv ==
  \A c \in Controllers :
    /\ pc[c] = "idle" => op[c] = "none"
    /\ pc[c] \in {"stop", "join", "reset"} =>
         lvl[c] = "dev" \/ (lvl[c] = "proc" /\ op[c] = "login")
    /\ pc[c] \in {"attach", "start", "spawn"} => op[c] = "login"
    /\ op[c] = "login" => arg[c] \in Sock
    /\ op[c] = "login" /\ pc[c] \notin {"start", "spawn", "leave"} =>
         arg[c] \notin taken
    /\ pc[c] \in {"reset", "devreset", "attach", "start", "spawn"} =>
         m_thread_hand = None
    /\ pc[c] \in {"start", "spawn"} => m_sock = arg[c] /\ flg_online

\* A live thread is the registered one and serves the latest connection.
ThreadInv ==
  \A t \in Threads : /\ m_thread_hand = t /\ last = t
                     /\ flg_online /\ m_sock \in {t, None}

\* A socket is only there while the device is online.
SockInv == m_sock # None => flg_online /\ m_sock = last

\* Queued frames came from the latest connection, and a login attaches its
\* socket to an empty queue.
QueueInv ==
  /\ m_list_msg_recv \in Seq([sess : {last}, ssid : SSID])
  /\ \A t \in Sock : mc[t] = "got" => buf_recv[t].sess = last
  /\ \A c \in Controllers : pc[c] = "attach" => m_list_msg_recv = <<>>

\* Requests wait on the latest connection, and nobody waits while a
\* controller is past CSockDevice::StopProc or past an offline GetStatus.
Settled(c) == \/ pc[c] \in {"devreset", "attach"}
              \/ pc[c] \in {"stop", "join", "reset"} /\ lvl[c] = "proc"

RequestInv ==
  /\ \A r \in Requesters : rpc[r] = "wait" => rsess[r] = last
  /\ \A c \in Controllers : Settled(c) =>
       ~flg_online /\ \A r \in Requesters : rpc[r] # "wait"

IInv == /\ TypeOK /\ MutexInv /\ DevLockInv /\ FlowInv /\ ThreadInv
        /\ OnlineImpliesServed /\ SockInv /\ QueueInv /\ RequestInv
        /\ NoStaleExit /\ EventsAlternate

-----------------------------------------------------------------------------
(***************************************************************************)
(* Every action preserves the invariant.                                   *)
(***************************************************************************)

\* Entering an operation of CSockDevMng.
LEMMA EnterStep ==
  ASSUME IInv, NEW c \in Controllers,
         NEW o \in {"login", "kick", "stopsvr"},
         NEW s \in Sock \cup {None}, o = "login" => s \in Sock \ taken,
         NEW label \in {"status", "devstop"}, Enter(c, o, s, label)
  PROVE  IInv'
<1>1. TypeOK'
  BY SockProcAssumption DEF IInv, TypeOK, Frame, NoFrame, Live, Up, Enter,
       Goto, channel, data, thr, req, hist
<1>2. MutexInv'
  BY SockProcAssumption DEF IInv, TypeOK, MutexInv, Enter, Goto
<1>3. DevLockInv'
  BY DEF IInv, TypeOK, DevLockInv, Enter, Goto, req
<1>4. FlowInv'
  BY DEF IInv, TypeOK, FlowInv, Enter, Goto, channel, hist
<1>5. OnlineImpliesServed'
  BY DEF IInv, TypeOK, OnlineImpliesServed, Threads, Live, Up, Enter, Goto,
       channel, thr
<1>6. QueueInv'
  BY DEF IInv, TypeOK, QueueInv, Enter, Goto, data, thr, hist
<1>7. RequestInv'
  BY DEF IInv, TypeOK, RequestInv, Settled, Enter, Goto, channel, req, hist
<1>8. NoStaleExit'
  BY DEF IInv, TypeOK, NoStaleExit, Threads, Live, Up, Enter, Goto, channel,
       thr
<1>9. ThreadInv' /\ SockInv' /\ EventsAlternate'
  BY DEF IInv, ThreadInv, SockInv, EventsAlternate, Threads, Live, Up, Enter,
       Goto, channel, thr, hist
<1>10. QED
  BY <1>1, <1>2, <1>3, <1>4, <1>5, <1>6, <1>7, <1>8, <1>9 DEF IInv

\* CSockDevice::GetStatus inside DevLogin and stopSvr.
LEMMA GetStatusStep ==
  ASSUME IInv, NEW c \in Controllers, GetStatus(c)
  PROVE  IInv'
<1>1. TypeOK'
  BY SockProcAssumption DEF IInv, TypeOK, Frame, NoFrame, Live, Up, GetStatus,
       Goto, AfterStatus, locks, channel, data, thr, req, hist
<1>2. MutexInv'
  BY DEF IInv, TypeOK, MutexInv, GetStatus, Goto, AfterStatus, locks
<1>3. DevLockInv'
  BY DEF IInv, TypeOK, DevLockInv, GetStatus, Goto, AfterStatus, locks, req
<1>4. FlowInv'
  BY DEF IInv, TypeOK, FlowInv, GetStatus, Goto, AfterStatus, channel, hist
<1>5. OnlineImpliesServed'
  BY DEF IInv, TypeOK, OnlineImpliesServed, Threads, Live, Up, GetStatus, Goto,
       AfterStatus, channel, thr
<1>6. QueueInv'
  BY DEF IInv, TypeOK, QueueInv, GetStatus, Goto, AfterStatus, data, thr, hist
<1>7. RequestInv'
  BY SockProcAssumption DEF IInv, TypeOK, RequestInv, Settled, DevLockInv,
       GetStatus, Goto, AfterStatus, channel, req, hist
<1>8. NoStaleExit'
  BY DEF IInv, TypeOK, NoStaleExit, Threads, Live, Up, GetStatus, Goto,
       AfterStatus, channel, thr
<1>9. ThreadInv' /\ SockInv' /\ EventsAlternate'
  BY DEF IInv, ThreadInv, SockInv, EventsAlternate, Threads, Live, Up,
       GetStatus, Goto, AfterStatus, channel, thr, hist
<1>10. QED
  BY <1>1, <1>2, <1>3, <1>4, <1>5, <1>6, <1>7, <1>8, <1>9 DEF IInv

\* Taking the device lock in CSockDevice::StopProc.
LEMMA DevStopProcStep ==
  ASSUME IInv, NEW c \in Controllers, DevStopProc(c)
  PROVE  IInv'
<1>1. TypeOK'
  BY SockProcAssumption DEF IInv, TypeOK, Frame, NoFrame, Live, Up,
       DevStopProc, Goto, channel, data, thr, req, hist
<1>2. MutexInv'
  BY DEF IInv, TypeOK, MutexInv, DevStopProc, Goto
<1>3. DevLockInv'
  BY SockProcAssumption DEF IInv, TypeOK, DevLockInv, MutexInv, DevStopProc,
       Goto, req
<1>4. FlowInv'
  BY DEF IInv, TypeOK, FlowInv, DevStopProc, Goto, channel, hist
<1>5. OnlineImpliesServed'
  BY DEF IInv, TypeOK, OnlineImpliesServed, Threads, Live, Up, DevStopProc,
       Goto, channel, thr
<1>6. QueueInv'
  BY DEF IInv, TypeOK, QueueInv, DevStopProc, Goto, data, thr, hist
<1>7. RequestInv'
  BY DEF IInv, TypeOK, RequestInv, Settled, DevStopProc, Goto, channel, req,
       hist
<1>8. NoStaleExit'
  BY DEF IInv, TypeOK, NoStaleExit, Threads, Live, Up, DevStopProc, Goto,
       channel, thr
<1>9. ThreadInv' /\ SockInv' /\ EventsAlternate'
  BY DEF IInv, ThreadInv, SockInv, EventsAlternate, Threads, Live, Up,
       DevStopProc, Goto, channel, thr, hist
<1>10. QED
  BY <1>1, <1>2, <1>3, <1>4, <1>5, <1>6, <1>7, <1>8, <1>9 DEF IInv

\* Raising the exit event and closing the socket.
LEMMA StopProcSignalStep ==
  ASSUME IInv, NEW c \in Controllers, StopProcSignal(c)
  PROVE  IInv'
<1>1. TypeOK'
  BY SockProcAssumption DEF IInv, TypeOK, Frame, NoFrame, Live, Up,
       StopProcSignal, Goto, SignalStop, data, thr, req, hist
<1>2. MutexInv'
  BY DEF IInv, TypeOK, MutexInv, StopProcSignal, Goto, SignalStop
<1>3. DevLockInv'
  BY DEF IInv, TypeOK, DevLockInv, StopProcSignal, Goto, SignalStop, req
<1>4. FlowInv'
  BY DEF IInv, TypeOK, FlowInv, StopProcSignal, Goto, SignalStop, hist
<1>5. ThreadInv'
  BY DEF IInv, TypeOK, ThreadInv, Threads, Live, Up, StopProcSignal, Goto,
       SignalStop, thr, hist
<1>6. OnlineImpliesServed'
  BY DEF IInv, TypeOK, OnlineImpliesServed, Threads, Live, Up, StopProcSignal,
       Goto, SignalStop, thr
<1>7. SockInv'
  BY DEF IInv, TypeOK, SockInv, StopProcSignal, Goto, SignalStop, hist
<1>8. QueueInv'
  BY DEF IInv, TypeOK, QueueInv, StopProcSignal, Goto, SignalStop, data, thr,
       hist
<1>9. RequestInv'
  BY DEF IInv, TypeOK, RequestInv, Settled, StopProcSignal, Goto, SignalStop,
       req, hist
<1>10. NoStaleExit'
  BY DEF IInv, TypeOK, NoStaleExit, Threads, Live, Up, StopProcSignal, Goto,
       SignalStop, thr
<1>11. EventsAlternate'
  BY DEF IInv, EventsAlternate, Up, StopProcSignal, Goto, SignalStop, thr
<1>12. QED
  BY <1>1, <1>2, <1>3, <1>4, <1>5, <1>6, <1>7, <1>8, <1>9, <1>10, <1>11 DEF
       IInv

\* Joining the client thread: no thread is left.
LEMMA StopProcJoinStep ==
  ASSUME IInv, NEW c \in Controllers, StopProcJoin(c)
  PROVE  IInv'
<1>1. TypeOK'
  BY SockProcAssumption DEF IInv, TypeOK, Frame, NoFrame, Live, Up,
       StopProcJoin, Goto, ThreadGone, locks, data, thr, req, hist
<1>2. MutexInv'
  BY DEF IInv, TypeOK, MutexInv, StopProcJoin, Goto, ThreadGone, locks
<1>3. DevLockInv'
  BY DEF IInv, TypeOK, DevLockInv, StopProcJoin, Goto, ThreadGone, locks, req
<1>4. FlowInv'
  BY DEF IInv, TypeOK, FlowInv, StopProcJoin, Goto, ThreadGone, hist
<1>5. ThreadInv'
  BY DEF IInv, TypeOK, ThreadInv, Threads, Live, Up, StopProcJoin, Goto,
       ThreadGone, thr, hist
<1>6. OnlineImpliesServed'
  BY DEF IInv, TypeOK, OnlineImpliesServed, Threads, Live, Up, StopProcJoin,
       Goto, ThreadGone, thr
<1>7. QueueInv'
  BY DEF IInv, TypeOK, QueueInv, StopProcJoin, Goto, ThreadGone, data, thr,
       hist
<1>8. RequestInv'
  BY DEF IInv, TypeOK, RequestInv, Settled, StopProcJoin, Goto, ThreadGone,
       req, hist
<1>9. NoStaleExit'
  BY DEF IInv, NoStaleExit, ThreadInv, Threads, Live, Up, StopProcJoin,
         ThreadGone, thr
<1>10. SockInv' /\ EventsAlternate'
  BY DEF IInv, SockInv, EventsAlternate, Up, StopProcJoin, Goto, ThreadGone,
       thr, hist
<1>11. QED
  BY <1>1, <1>2, <1>3, <1>4, <1>5, <1>6, <1>7, <1>8, <1>9, <1>10 DEF IInv

\* Emptying the queues and returning from StopProc.
LEMMA StopProcResetStep ==
  ASSUME IInv, NEW c \in Controllers, StopProcReset(c)
  PROVE  IInv'
<1>1. TypeOK'
  BY SockProcAssumption DEF IInv, TypeOK, Frame, NoFrame, Live, Up,
       StopProcReset, Goto, ResetQueue, channel, thr, req, hist
<1>2. MutexInv'
  BY DEF IInv, TypeOK, MutexInv, StopProcReset, Goto, ResetQueue
<1>3. DevLockInv'
  BY SockProcAssumption DEF IInv, TypeOK, DevLockInv, MutexInv, StopProcReset,
       Goto, ResetQueue, req
<1>4. FlowInv'
  BY DEF IInv, TypeOK, FlowInv, StopProcReset, Goto, ResetQueue, channel, hist
<1>5. OnlineImpliesServed'
  BY DEF IInv, TypeOK, OnlineImpliesServed, Threads, Live, Up, StopProcReset,
       Goto, ResetQueue, channel, thr
<1>6. QueueInv'
  BY DEF IInv, TypeOK, QueueInv, StopProcReset, Goto, ResetQueue, thr, hist
<1>7. RequestInv'
  BY SockProcAssumption DEF IInv, TypeOK, RequestInv, Settled, MutexInv,
       FlowInv, ThreadInv, Threads, Live, Up, DevLockInv, OnlineImpliesServed,
       StopProcReset, Goto, ResetQueue, channel, req, hist
<1>8. NoStaleExit'
  BY DEF IInv, TypeOK, NoStaleExit, Threads, Live, Up, StopProcReset, Goto,
       ResetQueue, channel, thr
<1>9. ThreadInv' /\ SockInv' /\ EventsAlternate'
  BY DEF IInv, ThreadInv, SockInv, EventsAlternate, Threads, Live, Up,
       StopProcReset, Goto, ResetQueue, channel, thr, hist
<1>10. QED
  BY <1>1, <1>2, <1>3, <1>4, <1>5, <1>6, <1>7, <1>8, <1>9 DEF IInv

\* CSockDevice::ResetData.
LEMMA DevResetDataStep ==
  ASSUME IInv, NEW c \in Controllers, DevResetData(c)
  PROVE  IInv'
<1>1. TypeOK'
  <2>1. m_list_msg_recv' \in Seq(Frame) /\ Len(m_list_msg_recv') < BufNum
    BY SockProcAssumption DEF IInv, TypeOK, DevResetData, ResetQueue
  <2>2. lvl' \in [Controllers -> {"dev", "proc", "start"}]
    BY DEF IInv, TypeOK, DevResetData
  <2>3. pc' \in [Controllers -> {"idle", "status", "devstop", "stop", "join",
                  "reset", "devreset", "attach", "start", "spawn", "leave"}]
    BY DEF IInv, TypeOK, DevResetData, Goto
  <2>4. dev_flg_online' \in BOOLEAN /\ m_beat_count' \in Nat
    BY DEF IInv, TypeOK, DevResetData, ResetQueue
  <2>5. QED
    BY <2>1, <2>2, <2>3, <2>4
       DEF IInv, TypeOK, DevResetData, locks, channel, thr, req, hist
<1>2. MutexInv'
  BY DEF IInv, TypeOK, MutexInv, DevResetData, Goto, ResetQueue, locks
<1>3. DevLockInv'
  BY DEF IInv, TypeOK, DevLockInv, DevResetData, Goto, ResetQueue, locks, req
<1>4. FlowInv'
  BY DEF IInv, TypeOK, FlowInv, DevResetData, Goto, ResetQueue, channel, hist
<1>5. OnlineImpliesServed'
  BY DEF IInv, TypeOK, OnlineImpliesServed, Threads, Live, Up, DevResetData,
       Goto, ResetQueue, channel, thr
<1>6. QueueInv'
  BY DEF IInv, TypeOK, QueueInv, DevResetData, Goto, ResetQueue, thr, hist
<1>7. RequestInv'
  BY DEF IInv, TypeOK, RequestInv, Settled, DevResetData, Goto, ResetQueue,
       channel, req, hist
<1>8. NoStaleExit'
  BY DEF IInv, TypeOK, NoStaleExit, Threads, Live, Up, DevResetData, Goto,
       ResetQueue, channel, thr
<1>9. ThreadInv' /\ SockInv' /\ EventsAlternate'
  BY DEF IInv, ThreadInv, SockInv, EventsAlternate, Threads, Live, Up,
       DevResetData, Goto, ResetQueue, channel, thr, hist
<1>10. QED
  BY <1>1, <1>2, <1>3, <1>4, <1>5, <1>6, <1>7, <1>8, <1>9 DEF IInv

\* Attaching the connection of a login.
LEMMA AttachSockStep ==
  ASSUME IInv, NEW c \in Controllers, AttachSock(c)
  PROVE  IInv'
<1>1. TypeOK'
  BY SockProcAssumption DEF IInv, TypeOK, Frame, NoFrame, Live, Up, FlowInv,
       AttachSock, Goto, locks, data, thr, req
<1>2. MutexInv'
  BY DEF IInv, TypeOK, MutexInv, AttachSock, Goto, locks
<1>3. DevLockInv'
  BY DEF IInv, TypeOK, DevLockInv, AttachSock, Goto, locks, req
<1>4. FlowInv'
  BY DEF IInv, TypeOK, FlowInv, MutexInv, AttachSock, Goto
<1>5. ThreadInv'
  BY DEF IInv, TypeOK, ThreadInv, Threads, Live, Up, RequestInv, Settled,
       AttachSock, Goto, thr
<1>6. OnlineImpliesServed'
  BY DEF IInv, TypeOK, OnlineImpliesServed, Threads, Live, Up, AttachSock,
       Goto, thr
<1>7. SockInv'
  BY DEF IInv, TypeOK, SockInv, AttachSock, Goto
<1>8. QueueInv'
  BY SockProcAssumption DEF IInv, TypeOK, QueueInv, MutexInv, FlowInv,
       ThreadInv, Threads, Live, Up, AttachSock, Goto, data, thr
<1>9. RequestInv'
  BY DEF IInv, TypeOK, RequestInv, Settled, MutexInv, AttachSock, Goto, req
<1>10. NoStaleExit'
  BY DEF IInv, TypeOK, NoStaleExit, Threads, Live, Up, AttachSock, Goto, thr
<1>11. EventsAlternate'
  BY DEF IInv, EventsAlternate, Up, AttachSock, Goto, thr
<1>12. QED
  BY <1>1, <1>2, <1>3, <1>4, <1>5, <1>6, <1>7, <1>8, <1>9, <1>10, <1>11 DEF
       IInv

\* StartProc finds no registered thread.
LEMMA StartProcStep ==
  ASSUME IInv, NEW c \in Controllers, StartProc(c)
  PROVE  IInv'
<1>1. TypeOK'
  BY SockProcAssumption DEF IInv, TypeOK, Frame, NoFrame, Live, Up, StartProc,
       Goto, channel, data, thr, req, hist
<1>2. MutexInv'
  BY DEF IInv, TypeOK, MutexInv, StartProc, Goto
<1>3. DevLockInv'
  BY DEF IInv, TypeOK, DevLockInv, StartProc, Goto, req
<1>4. FlowInv'
  BY DEF IInv, TypeOK, FlowInv, StartProc, Goto, channel, hist
<1>5. OnlineImpliesServed'
  BY DEF IInv, TypeOK, OnlineImpliesServed, Threads, Live, Up, FlowInv,
       StartProc, Goto, channel, thr
<1>6. QueueInv'
  BY DEF IInv, TypeOK, QueueInv, StartProc, Goto, data, thr, hist
<1>7. RequestInv'
  BY DEF IInv, TypeOK, RequestInv, Settled, StartProc, Goto, channel, req, hist
<1>8. NoStaleExit'
  BY DEF IInv, TypeOK, NoStaleExit, Threads, Live, Up, StartProc, Goto,
       channel, thr
<1>9. ThreadInv' /\ SockInv' /\ EventsAlternate'
  BY DEF IInv, ThreadInv, SockInv, EventsAlternate, Threads, Live, Up,
       StartProc, Goto, channel, thr, hist
<1>10. QED
  BY <1>1, <1>2, <1>3, <1>4, <1>5, <1>6, <1>7, <1>8, <1>9 DEF IInv

\* Starting the client thread.
LEMMA SpawnThreadStep ==
  ASSUME IInv, NEW c \in Controllers, SpawnThread(c)
  PROVE  IInv'
<1>1. TypeOK'
  BY SockProcAssumption DEF IInv, TypeOK, Frame, NoFrame, Live, Up,
       SpawnThread, Goto, ResetExitEvent, data, req, hist
<1>2. MutexInv'
  BY DEF IInv, TypeOK, MutexInv, SpawnThread, Goto, ResetExitEvent
<1>3. DevLockInv'
  BY DEF IInv, TypeOK, DevLockInv, SpawnThread, Goto, ResetExitEvent, req
<1>4. FlowInv'
  BY DEF IInv, TypeOK, FlowInv, MutexInv, SpawnThread, Goto, ResetExitEvent,
       hist
<1>5. ThreadInv'
  BY SockProcAssumption DEF IInv, TypeOK, ThreadInv, Threads, Live, Up,
       FlowInv, SockInv, SpawnThread, Goto, ResetExitEvent, hist
<1>6. OnlineImpliesServed'
  BY DEF IInv, TypeOK, OnlineImpliesServed, Threads, Live, Up, FlowInv,
       SpawnThread, Goto, ResetExitEvent
<1>7. QueueInv'
  BY DEF IInv, TypeOK, QueueInv, SpawnThread, Goto, ResetExitEvent, data, hist
<1>8. RequestInv'
  BY DEF IInv, TypeOK, RequestInv, Settled, SpawnThread, Goto, ResetExitEvent,
       req, hist
<1>9. NoStaleExit'
  BY SockProcAssumption DEF IInv, TypeOK, NoStaleExit, Threads, Live, Up,
       ThreadInv, FlowInv, SpawnThread, Goto, ResetExitEvent
<1>10. EventsAlternate'
  BY SockProcAssumption DEF IInv, TypeOK, EventsAlternate, Up, ThreadInv,
       Threads, Live, FlowInv, SpawnThread, Goto, ResetExitEvent
<1>11. SockInv'
  BY DEF IInv, SockInv, SpawnThread, Goto, ResetExitEvent, hist
<1>12. QED
  BY <1>1, <1>2, <1>3, <1>4, <1>5, <1>6, <1>7, <1>8, <1>9, <1>10, <1>11 DEF
       IInv

\* Returning from an operation of CSockDevMng.
LEMMA LeaveStep ==
  ASSUME IInv, NEW c \in Controllers, Leave(c)
  PROVE  IInv'
<1>1. TypeOK'
  BY SockProcAssumption DEF IInv, TypeOK, Frame, NoFrame, Live, Up, Leave,
       Goto, channel, data, thr, req, hist
<1>2. MutexInv'
  BY SockProcAssumption DEF IInv, TypeOK, MutexInv, Leave, Goto
<1>3. DevLockInv'
  BY DEF IInv, TypeOK, DevLockInv, Leave, Goto, req
<1>4. FlowInv'
  BY DEF IInv, TypeOK, FlowInv, Leave, Goto, channel, hist
<1>5. OnlineImpliesServed'
  BY DEF IInv, TypeOK, OnlineImpliesServed, Threads, Live, Up, Leave, Goto,
       channel, thr
<1>6. QueueInv'
  BY DEF IInv, TypeOK, QueueInv, Leave, Goto, data, thr, hist
<1>7. RequestInv'
  BY DEF IInv, TypeOK, RequestInv, Settled, Leave, Goto, channel, req, hist
<1>8. NoStaleExit'
  BY DEF IInv, TypeOK, NoStaleExit, Threads, Live, Up, Leave, Goto, channel,
       thr
<1>9. ThreadInv' /\ SockInv' /\ EventsAlternate'
  BY DEF IInv, ThreadInv, SockInv, EventsAlternate, Threads, Live, Up, Leave,
       Goto, channel, thr, hist
<1>10. QED
  BY <1>1, <1>2, <1>3, <1>4, <1>5, <1>6, <1>7, <1>8, <1>9 DEF IInv

\* The client thread reports the device online.
LEMMA McUpStep ==
  ASSUME IInv, NEW t \in Sock, McUp(t)
  PROVE  IInv'
<1>1. TypeOK'
  BY SockProcAssumption DEF IInv, TypeOK, Frame, NoFrame, Live, Up, ThreadInv,
       Threads, McUp, McGoto, locks, ctl, req, hist
<1>2. FlowInv'
  BY DEF IInv, TypeOK, FlowInv, McUp, McGoto, ctl, hist
<1>3. ThreadInv'
  BY DEF IInv, TypeOK, ThreadInv, Threads, Live, Up, McUp, McGoto, hist
<1>4. OnlineImpliesServed'
  BY DEF IInv, TypeOK, OnlineImpliesServed, Threads, Live, Up, McUp, McGoto,
       ctl
<1>5. SockInv'
  BY DEF IInv, TypeOK, SockInv, McUp, McGoto, hist
<1>6. QueueInv'
  BY DEF IInv, TypeOK, QueueInv, McUp, McGoto, ctl, hist
<1>7. RequestInv'
  BY DEF IInv, TypeOK, RequestInv, Settled, ThreadInv, Threads, Live, Up, McUp,
       McGoto, ctl, req, hist
<1>8. NoStaleExit'
  BY DEF IInv, TypeOK, NoStaleExit, Threads, Live, Up, McUp, McGoto, ctl
<1>9. EventsAlternate'
  <2>1. \A u \in Sock : mc[u] \notin Up
    BY DEF IInv, ThreadInv, Threads, Live, Up, McUp
  <2>2. mc'[t] \in Up
    BY DEF IInv, TypeOK, McUp, McGoto, Up
  <2>3. posted'.on = posted.on + 1 /\ posted'.off = posted.off
    BY DEF IInv, TypeOK, McUp
  <2>4. posted.on \in Nat /\ posted.off \in Nat
    BY DEF IInv, TypeOK
  <2>5. QED
    BY <2>1, <2>2, <2>3, <2>4 DEF IInv, EventsAlternate
<1>10. MutexInv' /\ DevLockInv'
  BY DEF IInv, MutexInv, DevLockInv, McUp, McGoto, locks, ctl, req
<1>11. QED
  BY <1>1, <1>2, <1>3, <1>4, <1>5, <1>6, <1>7, <1>8, <1>9, <1>10 DEF IInv

\* The steps of the client thread that only move it on, consume the exit
\* event or count heartbeats.
LEMMA ThreadMovesStep ==
  ASSUME IInv, NEW t \in Sock, mc[t] \in Up, NEW label \in Up \ {"got"},
         McGoto(t, label),
         flg_event_exit' \in {flg_event_exit, FALSE}, m_beat_count' \in Nat,
         UNCHANGED <<locks, m_sock, flg_online, m_thread_hand,
                     m_list_msg_recv, dev_flg_online, buf_recv, ctl, req, hist,
                     posted>>
  PROVE  IInv'
<1>1. TypeOK'
  <2>1. flg_event_exit' \in BOOLEAN
    BY DEF IInv, TypeOK
  <2>2. mc' \in [Sock -> {"none", "exited"} \cup Live]
    BY DEF IInv, TypeOK, McGoto, Live, Up
  <2>3. \A u \in Sock : mc'[u] = "got" => mc[u] = "got"
    BY DEF IInv, TypeOK, McGoto
  <2>4. QED
    BY <2>1, <2>2, <2>3 DEF IInv, TypeOK, locks, ctl, req, hist
<1>2. ThreadInv'
  BY DEF IInv, TypeOK, ThreadInv, Threads, Live, Up, McGoto, hist
<1>3. OnlineImpliesServed'
  BY DEF IInv, TypeOK, OnlineImpliesServed, Threads, Live, Up, McGoto, ctl
<1>4. QueueInv'
  BY DEF IInv, TypeOK, QueueInv, McGoto, ctl, hist
<1>5. NoStaleExit'
  BY DEF IInv, TypeOK, NoStaleExit, Threads, Live, Up, McGoto, ctl
<1>6. EventsAlternate'
  BY DEF IInv, TypeOK, EventsAlternate, Up, McGoto
<1>7. MutexInv' /\ DevLockInv' /\ FlowInv' /\ SockInv' /\ RequestInv'
  BY DEF IInv, MutexInv, DevLockInv, FlowInv, SockInv, RequestInv, Settled,
       McGoto, locks, ctl, req, hist
<1>8. QED
  BY <1>1, <1>2, <1>3, <1>4, <1>5, <1>6, <1>7 DEF IInv

\* A frame arrives.
LEMMA McRecvFrameStep ==
  ASSUME IInv, NEW t \in Sock, McRecvFrame(t)
  PROVE  IInv'
<1>1. TypeOK'
  BY SockProcAssumption DEF IInv, TypeOK, Frame, NoFrame, Live, Up,
       McRecvFrame, McGoto, locks, channel, data, ctl, req, hist
<1>2. ThreadInv'
  BY DEF IInv, TypeOK, ThreadInv, Threads, Live, Up, McRecvFrame, McGoto,
       channel, hist
<1>3. OnlineImpliesServed'
  BY DEF IInv, TypeOK, OnlineImpliesServed, Threads, Live, Up, McRecvFrame,
       McGoto, channel, ctl
<1>4. QueueInv'
  BY DEF IInv, TypeOK, QueueInv, ThreadInv, Threads, Live, Up, McRecvFrame,
       McGoto, data, ctl, hist
<1>5. NoStaleExit'
  BY DEF IInv, TypeOK, NoStaleExit, Threads, Live, Up, McRecvFrame, McGoto,
       channel, ctl
<1>6. EventsAlternate'
  BY DEF IInv, TypeOK, EventsAlternate, Up, McRecvFrame, McGoto
<1>7. MutexInv' /\ DevLockInv' /\ FlowInv' /\ SockInv' /\ RequestInv'
  BY DEF IInv, MutexInv, DevLockInv, FlowInv, SockInv, RequestInv, Settled,
       McRecvFrame, McGoto, locks, channel, ctl, req, hist
<1>8. QED
  BY <1>1, <1>2, <1>3, <1>4, <1>5, <1>6, <1>7 DEF IInv

\* A frame is queued.
LEMMA McEnqueueStep ==
  ASSUME IInv, NEW t \in Sock, McEnqueue(t)
  PROVE  IInv'
<1>1. TypeOK'
  BY SockProcAssumption, AddTailType DEF IInv, TypeOK, Frame, NoFrame, Live,
       Up, McEnqueue, McGoto, locks, channel, ctl, req, hist
<1>2. ThreadInv'
  BY DEF IInv, TypeOK, ThreadInv, Threads, Live, Up, McEnqueue, McGoto,
       channel, hist
<1>3. OnlineImpliesServed'
  BY DEF IInv, TypeOK, OnlineImpliesServed, Threads, Live, Up, McEnqueue,
       McGoto, channel, ctl
<1>4. QueueInv'
  <2>1. buf_recv[t] \in [sess : {last}, ssid : SSID]
    BY DEF IInv, TypeOK, QueueInv, McEnqueue, Frame
  <2>2. m_list_msg_recv' \in Seq([sess : {last}, ssid : SSID])
    BY <2>1, AddTailType DEF IInv, TypeOK, QueueInv, McEnqueue
  <2>3. \A u \in Sock : mc'[u] = "got" => /\ mc[u] = "got"
                                              /\ buf_recv'[u] = buf_recv[u]
    BY DEF IInv, TypeOK, McEnqueue, McGoto
  <2>4. \A c \in Controllers : pc[c] # "attach"
    BY SockProcAssumption
       DEF IInv, FlowInv, ThreadInv, Threads, Live, Up, McEnqueue
  <2>5. QED
    BY <2>2, <2>3, <2>4 DEF IInv, QueueInv, McEnqueue, ctl, hist
<1>5. NoStaleExit'
  BY DEF IInv, TypeOK, NoStaleExit, Threads, Live, Up, McEnqueue, McGoto,
       channel, ctl
<1>6. EventsAlternate'
  BY DEF IInv, TypeOK, EventsAlternate, Up, McEnqueue, McGoto
<1>7. MutexInv' /\ DevLockInv' /\ FlowInv' /\ SockInv' /\ RequestInv'
  BY DEF IInv, MutexInv, DevLockInv, FlowInv, SockInv, RequestInv, Settled,
       McEnqueue, McGoto, locks, channel, ctl, req, hist
<1>8. QED
  BY <1>1, <1>2, <1>3, <1>4, <1>5, <1>6, <1>7 DEF IInv

\* END0 of the client thread.
LEMMA McExitStep ==
  ASSUME IInv, NEW t \in Sock, McExit(t)
  PROVE  IInv'
<1>1. TypeOK'
  <2>1. m_sock' \in Sock \cup {None} /\ flg_online' \in BOOLEAN
    BY DEF IInv, TypeOK, McExit, OnlineAfterEnd
  <2>2. mc' \in [Sock -> {"none", "exited"} \cup Live]
    BY DEF IInv, TypeOK, McExit, McGoto
  <2>3. \A u \in Sock : mc'[u] = "got" => mc[u] = "got"
    BY DEF IInv, TypeOK, McExit, McGoto
  <2>4. posted' \in [on : Nat, off : Nat]
    BY DEF IInv, TypeOK, McExit
  <2>5. QED
    BY <2>1, <2>2, <2>3, <2>4
       DEF IInv, TypeOK, McExit, locks, data, ctl, req, hist
<1>2. FlowInv'
  BY SockProcAssumption DEF IInv, TypeOK, FlowInv, ThreadInv, Threads, Live,
       Up, McExit, McGoto, OnlineAfterEnd, ctl, hist
<1>3. ThreadInv'
  BY DEF IInv, TypeOK, ThreadInv, Threads, Live, Up, McExit, McGoto,
       OnlineAfterEnd, hist
<1>4. OnlineImpliesServed'
  BY DEF IInv, TypeOK, OnlineImpliesServed, Threads, Live, Up, McExit, McGoto,
       OnlineAfterEnd, ctl
<1>5. SockInv'
  BY DEF IInv, TypeOK, SockInv, McExit, McGoto, OnlineAfterEnd, hist
<1>6. QueueInv'
  BY DEF IInv, TypeOK, QueueInv, McExit, McGoto, OnlineAfterEnd, data, ctl,
       hist
<1>7. RequestInv'
  BY DEF IInv, TypeOK, RequestInv, Settled, McExit, McGoto, OnlineAfterEnd,
       ctl, req, hist
<1>8. NoStaleExit'
  BY DEF IInv, TypeOK, NoStaleExit, Threads, Live, Up, McExit, McGoto,
       OnlineAfterEnd, ctl
<1>9. EventsAlternate'
  <2>1. \A u \in Sock : mc'[u] \notin Up
    BY DEF IInv, TypeOK, ThreadInv, Threads, Live, Up, McExit, McGoto
  <2>2. mc[t] \in Up
    BY DEF McExit, Up
  <2>3. posted'.on = posted.on /\ posted'.off = posted.off + 1
    BY DEF IInv, TypeOK, McExit
  <2>4. posted.on \in Nat /\ posted.off \in Nat
    BY DEF IInv, TypeOK
  <2>5. QED
    BY <2>1, <2>2, <2>3, <2>4 DEF IInv, EventsAlternate
<1>10. MutexInv' /\ DevLockInv'
  BY DEF IInv, MutexInv, DevLockInv, McExit, McGoto, OnlineAfterEnd, locks,
       ctl, req
<1>11. QED
  BY <1>1, <1>2, <1>3, <1>4, <1>5, <1>6, <1>7, <1>8, <1>9, <1>10 DEF IInv

\* A request is started.
LEMMA RqCheckStep ==
  ASSUME IInv, NEW r \in Requesters, RqCheck(r)
  PROVE  IInv'
<1>1. TypeOK'
  BY SockProcAssumption DEF IInv, TypeOK, Frame, NoFrame, Live, Up, RqCheck,
       RqGoto, locks, channel, data, thr, ctl, hist
<1>2. DevLockInv'
  BY DEF IInv, TypeOK, DevLockInv, RqCheck, RqGoto, locks, ctl
<1>3. RequestInv'
  BY DEF IInv, TypeOK, RequestInv, Settled, RqCheck, RqGoto, channel, ctl, hist
<1>4. MutexInv' /\ FlowInv' /\ ThreadInv' /\ OnlineImpliesServed' /\ SockInv'
     /\ QueueInv' /\ NoStaleExit' /\ EventsAlternate'
  BY DEF IInv, MutexInv, FlowInv, ThreadInv, OnlineImpliesServed, SockInv,
       QueueInv, NoStaleExit, EventsAlternate, Threads, Live, Up, RqCheck,
       RqGoto, locks, channel, data, thr, ctl, hist
<1>5. QED
  BY <1>1, <1>2, <1>3, <1>4 DEF IInv

\* A request takes the device lock.
LEMMA RqLockStep ==
  ASSUME IInv, NEW r \in Requesters, RqLock(r)
  PROVE  IInv'
<1>1. TypeOK'
  BY SockProcAssumption DEF IInv, TypeOK, Frame, NoFrame, Live, Up, RqLock,
       RqGoto, channel, data, thr, ctl, hist
<1>2. DevLockInv'
  BY SockProcAssumption DEF IInv, TypeOK, DevLockInv, RqLock, RqGoto, ctl
<1>3. RequestInv'
  BY DEF IInv, TypeOK, RequestInv, Settled, RqLock, RqGoto, channel, ctl, hist
<1>4. MutexInv' /\ FlowInv' /\ ThreadInv' /\ OnlineImpliesServed' /\ SockInv'
     /\ QueueInv' /\ NoStaleExit' /\ EventsAlternate'
  BY DEF IInv, MutexInv, FlowInv, ThreadInv, OnlineImpliesServed, SockInv,
       QueueInv, NoStaleExit, EventsAlternate, Threads, Live, Up, RqLock,
       RqGoto, channel, data, thr, ctl, hist
<1>5. QED
  BY <1>1, <1>2, <1>3, <1>4 DEF IInv

\* A request is sent.
LEMMA RqSendStep ==
  ASSUME IInv, NEW r \in Requesters, RqSend(r)
  PROVE  IInv'
<1>1. TypeOK'
  BY SockProcAssumption DEF IInv, TypeOK, Frame, NoFrame, Live, Up, RqSend,
       RqGoto, locks, channel, data, thr, ctl, hist
<1>2. DevLockInv'
  BY DEF IInv, TypeOK, DevLockInv, RqSend, RqGoto, locks, ctl
<1>3. RequestInv'
  BY DEF IInv, TypeOK, RequestInv, Settled, SockInv, RqSend, RqGoto, channel,
       ctl, hist
<1>4. MutexInv' /\ FlowInv' /\ ThreadInv' /\ OnlineImpliesServed' /\ SockInv'
     /\ QueueInv' /\ NoStaleExit' /\ EventsAlternate'
  BY DEF IInv, MutexInv, FlowInv, ThreadInv, OnlineImpliesServed, SockInv,
       QueueInv, NoStaleExit, EventsAlternate, Threads, Live, Up, RqSend,
       RqGoto, locks, channel, data, thr, ctl, hist
<1>5. QED
  BY <1>1, <1>2, <1>3, <1>4 DEF IInv

\* A request returns; it may have taken a message off the queue.
LEMMA RqReturnStep ==
  ASSUME IInv, NEW r \in Requesters, rpc[r] \in {"locked", "wait"},
         RqReturn(r),
         \/ UNCHANGED m_list_msg_recv
         \/ \E i \in 1 .. Len(m_list_msg_recv) :
              m_list_msg_recv' = RemoveAt(m_list_msg_recv, i),
         UNCHANGED <<m_mutex_listdev, m_lock, channel, m_beat_count,
                     dev_flg_online, thr, ctl, hist, posted>>
  PROVE  IInv'
<1>1. TypeOK'
  BY SockProcAssumption, RemoveAtType DEF IInv, TypeOK, Frame, NoFrame, Live,
       Up, RqReturn, RqGoto, channel, thr, ctl, hist
<1>2. DevLockInv'
  BY SockProcAssumption DEF IInv, TypeOK, DevLockInv, RqReturn, RqGoto, ctl
<1>3. QueueInv'
  BY RemoveAtType DEF IInv, TypeOK, QueueInv, RqReturn, RqGoto, thr, ctl, hist
<1>4. RequestInv'
  BY DEF IInv, TypeOK, RequestInv, Settled, RqReturn, RqGoto, channel, ctl,
       hist
<1>5. MutexInv' /\ FlowInv' /\ ThreadInv' /\ OnlineImpliesServed' /\ SockInv'
     /\ NoStaleExit' /\ EventsAlternate'
  BY DEF IInv, MutexInv, FlowInv, ThreadInv, OnlineImpliesServed, SockInv,
       NoStaleExit, EventsAlternate, Threads, Live, Up, RqReturn, RqGoto,
       channel, thr, ctl, hist
<1>6. QED
  BY <1>1, <1>2, <1>3, <1>4, <1>5 DEF IInv

-----------------------------------------------------------------------------
(***************************************************************************)
(* The invariant holds throughout, and with it the safety properties.      *)
(***************************************************************************)

LEMMA InitInvariant == Init => IInv
<1> SUFFICES ASSUME Init PROVE IInv
  OBVIOUS
<1>1. m_list_msg_recv = <<>> /\ Len(<<>>) < BufNum
  BY SockProcAssumption DEF Init
<1>2. TypeOK
  <2>1. /\ m_list_msg_recv \in Seq(Frame) /\ Len(m_list_msg_recv) < BufNum
        /\ m_beat_count \in Nat /\ posted \in [on : Nat, off : Nat]
    BY <1>1 DEF Init
  <2>2. /\ mc \in [Sock -> {"none", "exited"} \cup Live]
        /\ buf_recv \in [Sock -> Frame \cup {NoFrame}]
        /\ \A t \in Sock : mc[t] # "got"
    BY DEF Init
  <2>3. flg_online \in BOOLEAN /\ flg_event_exit \in BOOLEAN
        /\ dev_flg_online \in BOOLEAN
    BY DEF Init
  <2>4. /\ pc \in [Controllers -> {"idle", "status", "devstop", "stop", "join",
             "reset", "devreset", "attach", "start", "spawn", "leave"}]
        /\ op \in [Controllers -> {"none", "login", "kick", "stopsvr"}]
        /\ arg \in [Controllers -> Sock \cup {None}]
        /\ lvl \in [Controllers -> {"dev", "proc", "start"}]
    BY DEF Init
  <2>5. /\ rpc \in [Requesters -> {"idle", "checked", "locked", "wait"}]
        /\ rssid \in [Requesters -> SSID \cup {None}]
        /\ rsess \in [Requesters -> Sock \cup {None}]
    BY DEF Init
  <2>6. QED
    BY <2>1, <2>2, <2>3, <2>4, <2>5 DEF Init, TypeOK
<1>3. MutexInv /\ DevLockInv /\ FlowInv /\ RequestInv
  BY SockProcAssumption
     DEF Init, MutexInv, DevLockInv, FlowInv, RequestInv, Settled
<1>4. ThreadInv /\ OnlineImpliesServed /\ SockInv /\ NoStaleExit
  BY DEF Init, ThreadInv, OnlineImpliesServed, SockInv, NoStaleExit, Threads,
         Live, Up
<1>5. QueueInv /\ EventsAlternate
  BY <1>1 DEF Init, QueueInv, EventsAlternate, Up
<1>6. QED
  BY <1>2, <1>3, <1>4, <1>5 DEF IInv

\* The steps of a controller.
LEMMA ControllerInvariant ==
  ASSUME IInv, NEW c \in Controllers, ControllerCall(c) \/ ControllerStep(c)
  PROVE  IInv'
<1>1. CASE DevLogin(c)
  <2>1. PICK s \in Sock \ taken : Enter(c, "login", s, "status")
    BY <1>1 DEF DevLogin
  <2>2. QED
    BY <2>1, EnterStep
<1>2. CASE DevKickout(c)
  BY <1>2, EnterStep DEF DevKickout
<1>3. CASE StopSvrKick(c)
  BY <1>3, EnterStep DEF StopSvrKick
<1>4. CASE ControllerStep(c)
  BY <1>4, GetStatusStep, DevStopProcStep, StopProcSignalStep,
     StopProcJoinStep, StopProcResetStep, DevResetDataStep, AttachSockStep,
     StartProcStep, SpawnThreadStep, LeaveStep DEF ControllerStep
<1>5. QED
  BY <1>1, <1>2, <1>3, <1>4 DEF ControllerCall

\* The steps of a client thread.
LEMMA ThreadInvariant ==
  ASSUME IInv, NEW t \in Sock, McStep(t)
  PROVE  IInv'
<1>1. CASE McUp(t) \/ McRecvFrame(t) \/ McEnqueue(t) \/ McExit(t)
  BY <1>1, McUpStep, McRecvFrameStep, McEnqueueStep, McExitStep
<1>2. m_beat_count \in Nat
  BY DEF IInv, TypeOK
<1>3. CASE McCheckExit(t)
  <2>1. PICK label \in Up \ {"got"} : McGoto(t, label)
    BY <1>3 DEF McCheckExit, Up
  <2>2. QED
    BY <1>2, <1>3, <2>1, ThreadMovesStep DEF McCheckExit, Up, data
<1>4. CASE McCopySock(t)
  <2>1. PICK label \in Up \ {"got"} : McGoto(t, label)
    BY <1>4 DEF McCopySock, Up
  <2>2. QED
    BY <1>2, <1>4, <2>1, ThreadMovesStep DEF McCopySock, Up, channel, data
<1>5. CASE McSelectIdle(t)
  <2>1. PICK label \in Up \ {"got"} : McGoto(t, label)
    BY <1>5 DEF McSelectIdle, Up
  <2>2. m_beat_count' \in Nat
    BY <1>2, <1>5 DEF McSelectIdle, NextBeat
  <2>3. QED
    BY <1>5, <2>1, <2>2, ThreadMovesStep DEF McSelectIdle, Up, channel
<1>6. CASE McSelectError(t) \/ McSelectReady(t) \/ McRecvError(t)
  <2>1. PICK label \in Up \ {"got"} : McGoto(t, label)
    BY <1>6 DEF McSelectError, McSelectReady, McRecvError, Up
  <2>2. QED
    BY <1>2, <1>6, <2>1, ThreadMovesStep
       DEF McSelectError, McSelectReady, McRecvError, Up, channel, data
<1>7. QED
  BY <1>1, <1>3, <1>4, <1>5, <1>6 DEF McStep

\* The steps of a requester.
LEMMA RequesterInvariant ==
  ASSUME IInv, NEW r \in Requesters, RqCheck(r) \/ RqStep(r)
  PROVE  IInv'
<1>1. CASE RqCheck(r) \/ RqLock(r) \/ RqSend(r)
  BY <1>1, RqCheckStep, RqLockStep, RqSendStep
<1>2. CASE RqSendFail(r) \/ RqTimeout(r)
  BY <1>2, RqReturnStep DEF RqSendFail, RqTimeout, data
<1>3. CASE RqTake(r)
  BY <1>3, RqReturnStep DEF RqTake
<1>4. QED
  BY <1>1, <1>2, <1>3 DEF RqStep

LEMMA StepInvariant == IInv /\ [Next]_vars => IInv'
<1> SUFFICES ASSUME IInv, [Next]_vars PROVE IInv'
  OBVIOUS
<1>1. CASE UNCHANGED vars
  BY <1>1 DEF IInv, TypeOK, MutexInv, DevLockInv, FlowInv, ThreadInv,
              OnlineImpliesServed, SockInv, QueueInv, RequestInv, Settled,
              NoStaleExit, EventsAlternate, Threads, vars, locks, channel,
              data, thr, ctl, req, hist
<1>2. CASE Next
  BY <1>2, ControllerInvariant, ThreadInvariant, RequesterInvariant DEF Next
<1>3. QED
  BY <1>1, <1>2

\* The inductive invariant holds in every behaviour.
THEOREM Invariance == Spec => []IInv
<1>1. QED
  BY InitInvariant, StepInvariant, PTL DEF Spec

\* Every variable keeps its type; in particular the receive queue stays
\* below SOCK_MSG_BUFNUM, for every buffer size.
THEOREM TypeCorrect == Spec => []TypeOK
<1>1. IInv => TypeOK
  BY DEF IInv
<1>2. QED
  BY <1>1, Invariance, PTL

\* However logins, kicks and link failures interleave, one client thread at
\* a time serves the device.
THEOREM OneThread == Spec => []AtMostOneThread
<1>1. IInv => AtMostOneThread
  BY DEF IInv, ThreadInv, AtMostOneThread
<1>2. QED
  BY <1>1, Invariance, PTL

\* A client thread only ever works on the connection of its own login.
THEOREM OwnSock == Spec => []ThreadOwnsSock
<1>1. IInv => ThreadOwnsSock
  BY DEF IInv, ThreadInv, ThreadOwnsSock
<1>2. QED
  BY <1>1, Invariance, PTL

\* No stop closes the connection a login has just attached.
THEOREM AttachedSurvives == Spec => []AttachedSockSurvives
<1>1. IInv => AttachedSockSurvives
  BY DEF IInv, FlowInv, AttachedSockSurvives
<1>2. QED
  BY <1>1, Invariance, PTL

\* A request is never answered by a frame of another connection.
THEOREM FreshReply == Spec => []NoStaleReply
<1>1. IInv => NoStaleReply
  <2>1. SUFFICES ASSUME IInv, NEW r \in Requesters, rpc[r] = "wait",
                        NEW i \in 1 .. Len(m_list_msg_recv)
                 PROVE  m_list_msg_recv[i].sess = rsess[r]
    BY DEF NoStaleReply
  <2>2. m_list_msg_recv[i] \in [sess : {last}, ssid : SSID]
    BY <2>1, LenProperties DEF IInv, QueueInv
  <2>3. QED
    BY <2>1, <2>2 DEF IInv, RequestInv
<1>2. QED
  BY <1>1, Invariance, PTL

\* A device shown online has a thread that serves it, or a login is about to
\* start one.
THEOREM Served == Spec => []OnlineImpliesServed
<1>1. IInv => OnlineImpliesServed
  BY DEF IInv
<1>2. QED
  BY <1>1, Invariance, PTL

\* The exit event never outlives the thread it was raised for: no login
\* starts a thread that ends at once.
THEOREM FreshExit == Spec => []NoStaleExit
<1>1. IInv => NoStaleExit
  BY DEF IInv
<1>2. QED
  BY <1>1, Invariance, PTL

\* The window hears ONLINE and OFFLINE in turn, whichever threads post them.
THEOREM Alternate == Spec => []EventsAlternate
<1>1. IInv => EventsAlternate
  BY DEF IInv
<1>2. QED
  BY <1>1, Invariance, PTL

-----------------------------------------------------------------------------
(***************************************************************************)
(* What the other modules take for granted of a session.  In SockDevice    *)
(* logging in, losing the peer and kicking are one step each, and in       *)
(* ListenSvr the device is the one socket it has; here they are many steps *)
(* of several threads.                                                     *)
(***************************************************************************)
NobodyWaits == \A r \in Requesters : rpc[r] # "wait"

\* A login attaches its connection when the device is offline, its last
\* client thread gone, the queue empty and no request waiting (SockDevice!Login),
\* and when no socket is left that DetachSock would forget without closing it
\* (SockProc.cpp:358).
LoginStartsClean ==
  \A c \in Controllers : AttachSock(c) =>
    /\ ~flg_online /\ m_sock = None /\ Threads = {}
    /\ m_list_msg_recv' = <<>> /\ NobodyWaits

\* A device only goes offline by END0 of the thread of the latest connection,
\* which has no frame in its hands then (SockDevice!Drop).
OnlyThreadEnds ==
  flg_online /\ ~flg_online' => \E t \in Threads : McExit(t) /\ last = t

\* Only that thread puts frames into the queue, while the device is online and
\* frames of that connection (SockDevice!McQueue).
OnlyThreadFills ==
  Len(m_list_msg_recv') > Len(m_list_msg_recv) =>
    \E t \in Threads : McEnqueue(t) /\ flg_online /\ buf_recv[t].sess = last

\* The queue is not emptied under a request that waits, although DevLogin stops
\* the channel without the device lock (SockDevice!Kick, !Login).
EmptiedUnwaited ==
  (\E c \in Controllers : StopProcReset(c) \/ DevResetData(c)) => NobodyWaits

SessionSteps ==
  LoginStartsClean /\ OnlyThreadEnds /\ OnlyThreadFills /\ EmptiedUnwaited

\* However many logins, kicks, requests and lost connections overlap, sessions
\* begin and end as SockDevice and ListenSvr have them.
THEOREM SessionsAsAssumed == Spec => [][SessionSteps]_vars
<1>1. IInv => LoginStartsClean
  <2> SUFFICES ASSUME IInv, NEW c \in Controllers, AttachSock(c)
               PROVE  /\ ~flg_online /\ m_sock = None /\ Threads = {}
                      /\ m_list_msg_recv' = <<>> /\ NobodyWaits
    BY DEF LoginStartsClean
  <2>1. pc[c] = "attach" /\ UNCHANGED m_list_msg_recv
    BY DEF AttachSock, data
  <2>2. ~flg_online /\ NobodyWaits
    BY <2>1 DEF IInv, RequestInv, Settled, NobodyWaits
  <2>3. m_sock = None
    BY <2>2 DEF IInv, SockInv
  <2>4. Threads = {}
    BY <2>1, SockProcAssumption DEF IInv, FlowInv, ThreadInv, Threads
  <2> QED
    BY <2>1, <2>2, <2>3, <2>4 DEF IInv, QueueInv
<1>2. IInv /\ [Next]_vars => OnlyThreadEnds /\ OnlyThreadFills
  <2> SUFFICES ASSUME IInv, [Next]_vars PROVE OnlyThreadEnds /\ OnlyThreadFills
    OBVIOUS
  <2>1. ASSUME NEW t \in Sock, McExit(t) PROVE OnlyThreadEnds /\ OnlyThreadFills
    <3>1. t \in Threads /\ UNCHANGED m_list_msg_recv
      BY <2>1 DEF McExit, Threads, Live, Up, data
    <3>2. last = t
      BY <3>1 DEF IInv, ThreadInv
    <3> QED
      BY <2>1, <3>1, <3>2, LenProperties DEF IInv, TypeOK, OnlyThreadEnds, OnlyThreadFills
  <2>2. ASSUME NEW t \in Sock, McEnqueue(t) PROVE OnlyThreadEnds /\ OnlyThreadFills
    <3>1. t \in Threads /\ mc[t] = "got" /\ UNCHANGED flg_online
      BY <2>2 DEF McEnqueue, Threads, Live, Up, channel
    <3>2. flg_online /\ buf_recv[t].sess = last
      BY <3>1 DEF IInv, ThreadInv, QueueInv
    <3> QED
      BY <2>2, <3>1, <3>2 DEF OnlyThreadEnds, OnlyThreadFills
  <2>3. ASSUME NEW t \in Sock, McStep(t), ~McExit(t), ~McEnqueue(t)
        PROVE  (flg_online => flg_online') /\ UNCHANGED m_list_msg_recv
    BY <2>3 DEF McStep, McUp, McCheckExit, McCopySock, McSelectError, McSelectIdle,
                McSelectReady, McRecvFrame, McRecvError, channel, data
  <2>4. ASSUME NEW c \in Controllers, ControllerCall(c) \/ ControllerStep(c)
        PROVE  (flg_online => flg_online') /\ m_list_msg_recv' \in {m_list_msg_recv, <<>>}
    BY <2>4 DEF ControllerCall, DevLogin, DevKickout, StopSvrKick, Enter,
                ControllerStep, GetStatus, DevStopProc, StopProcSignal, StopProcJoin,
                StopProcReset, ResetQueue, DevResetData, AttachSock, StartProc,
                SpawnThread, Leave, channel, data
  <2>5. ASSUME NEW r \in Requesters, RqCheck(r) \/ RqStep(r)
        PROVE  /\ UNCHANGED flg_online
               /\ Len(m_list_msg_recv') <= Len(m_list_msg_recv)
    <3>1. m_list_msg_recv \in Seq(Frame) /\ Len(m_list_msg_recv) \in Nat
      BY LenProperties DEF IInv, TypeOK
    <3>2. CASE RqTake(r)
      <4>1. PICK i \in 1 .. Len(m_list_msg_recv) :
              m_list_msg_recv' = RemoveAt(m_list_msg_recv, i)
        BY <3>2 DEF RqTake
      <4>2. Len(m_list_msg_recv') = Len(m_list_msg_recv) - 1
        BY <3>1, <4>1, RemoveAtType
      <4> QED
        BY <3>1, <3>2, <4>2 DEF RqTake, channel
    <3> QED
      BY <2>5, <3>1, <3>2 DEF RqCheck, RqStep, RqLock, RqSend, RqSendFail, RqTimeout,
                              channel, data
  <2>6. /\ Len(m_list_msg_recv) \in Nat /\ Len(<<>>) = 0
        /\ ~(Len(m_list_msg_recv) > Len(m_list_msg_recv))
    BY LenProperties DEF IInv, TypeOK
  <2>7. ASSUME flg_online => flg_online',
               Len(m_list_msg_recv') \in Nat,
               Len(m_list_msg_recv') <= Len(m_list_msg_recv)
        PROVE  OnlyThreadEnds /\ OnlyThreadFills
    BY <2>6, <2>7 DEF OnlyThreadEnds, OnlyThreadFills
  <2>8. IInv'
    BY StepInvariant
  <2>9. Len(m_list_msg_recv') \in Nat
    BY <2>8, LenProperties DEF IInv, TypeOK
  <2>10. CASE UNCHANGED vars
    BY <2>6, <2>7, <2>9, <2>10 DEF vars, channel, data
  <2> QED
    BY <2>1, <2>2, <2>3, <2>4, <2>5, <2>6, <2>7, <2>9, <2>10 DEF Next
<1>3. IInv => EmptiedUnwaited
  <2> SUFFICES ASSUME IInv, NEW c \in Controllers, StopProcReset(c) \/ DevResetData(c)
               PROVE  NobodyWaits
    BY DEF EmptiedUnwaited
  <2>1. \/ pc[c] = "devreset"
        \/ pc[c] = "reset" /\ lvl[c] \in {"dev", "proc"}
    BY DEF StopProcReset, DevResetData, IInv, FlowInv
  <2>2. CASE pc[c] = "reset" /\ lvl[c] = "dev"
    BY <2>2, SockProcAssumption DEF IInv, DevLockInv, NobodyWaits
  <2>3. CASE pc[c] = "devreset" \/ (pc[c] = "reset" /\ lvl[c] = "proc")
    BY <2>3 DEF IInv, RequestInv, Settled, NobodyWaits
  <2> QED
    BY <2>1, <2>2, <2>3
<1> QED
  BY <1>1, <1>2, <1>3, Invariance, PTL DEF Spec, SessionSteps

-----------------------------------------------------------------------------
(***************************************************************************)
(* Nobody waits for ever: what the liveness properties rest on.  Who waits *)
(* for the list mutex waits for a controller, who waits for the device     *)
(* lock for a controller in StopProc or for a request with a time limit,   *)
(* and StopProc for a thread that waits for nothing and is on its way out. *)
(***************************************************************************)
\* Who owns a lock is at a place from which it will be released.
OwnerInv ==
  /\ \A c \in Controllers : m_lock_dev = c =>
       pc[c] \in {"stop", "join", "reset"} /\ lvl[c] = "dev"
  /\ \A r \in Requesters : m_lock_dev = r => rpc[r] \in {"locked", "wait"}
  /\ \A c \in Controllers : m_lock = c => pc[c] \in {"join", "reset", "spawn"}

\* StopProc waits for a thread that was started, and that finds no socket.
JoinInv ==
  /\ m_thread_hand # None => mc[m_thread_hand] # "none"
  /\ \A c \in Controllers : pc[c] = "join" => m_thread_hand # None /\ m_sock = None

\* No two threads wait for each other: of the locks a controller or a request
\* needs, the device lock is held by a request that only waits for its
\* time-out, or by a controller that is not the one waiting but in StopProc;
\* the channel's lock is never held by another; and the thread joined has no
\* socket any more.
WaitsEnd ==
  /\ \A c \in Controllers :
       /\ pc[c] \in {"status", "devstop", "devreset"} =>
            \/ m_lock_dev = None
            \/ \E r \in Requesters : m_lock_dev = r /\ rpc[r] \in {"locked", "wait"}
       /\ pc[c] \in {"stop", "start", "devreset"} => m_lock = None
       /\ pc[c] = "join" => /\ m_thread_hand \in Sock /\ m_sock = None
                            /\ mc[m_thread_hand] \in Live \cup {"exited"}
  /\ \A r \in Requesters : rpc[r] = "checked" =>
       \/ m_lock_dev = None
       \/ \E q \in Requesters : m_lock_dev = q /\ rpc[q] \in {"locked", "wait"}
       \/ \E c \in Controllers : m_lock_dev = c /\ pc[c] \in {"stop", "join", "reset"}

\* How many of its steps a thread has before it at most, once its socket is
\* gone.
StepsLeft(t) ==
  CASE mc[t] = "select" -> 6
    [] mc[t] = "recv" -> 5
    [] mc[t] \in {"start", "got"} -> 4
    [] mc[t] = "loop" -> 3
    [] mc[t] = "copy" -> 2
    [] mc[t] = "end" -> 1
    [] OTHER -> 0

\* Every step of the thread that StopProc waits for brings it nearer to its
\* end, whatever arrives meanwhile.
StepsNearer ==
  \A t \in Sock : (\E c \in Controllers : pc[c] = "join") /\ McStep(t) =>
    StepsLeft(t)' < StepsLeft(t)

\* A controller's step keeps the owners of the locks where they release them.
LEMMA OwnerController ==
  ASSUME IInv, OwnerInv, NEW c \in Controllers, ControllerCall(c) \/ ControllerStep(c)
  PROVE  OwnerInv'
<1>1. CASE ControllerCall(c)
  BY <1>1, SockProcAssumption
     DEF IInv, TypeOK, OwnerInv, ControllerCall, DevLogin, DevKickout, StopSvrKick,
         Enter, Goto, req
<1>2. CASE GetStatus(c) \/ AttachSock(c) \/ Leave(c)
  BY <1>2, SockProcAssumption
     DEF IInv, TypeOK, OwnerInv, GetStatus, AttachSock, Leave, Goto, locks, req
<1>3. CASE DevStopProc(c) \/ StartProc(c)
  BY <1>3, SockProcAssumption
     DEF IInv, TypeOK, FlowInv, OwnerInv, DevStopProc, StartProc, Goto, req
<1>4. CASE StopProcSignal(c) \/ StopProcJoin(c)
  BY <1>4, SockProcAssumption
     DEF IInv, TypeOK, OwnerInv, StopProcSignal, StopProcJoin, Goto, locks, req
<1>5. CASE StopProcReset(c)
  BY <1>5, SockProcAssumption
     DEF IInv, TypeOK, FlowInv, OwnerInv, StopProcReset, Goto, req
<1>6. CASE DevResetData(c) \/ SpawnThread(c)
  BY <1>6, SockProcAssumption
     DEF IInv, TypeOK, OwnerInv, DevResetData, SpawnThread, Goto, locks, req
<1>7. QED BY <1>1, <1>2, <1>3, <1>4, <1>5, <1>6 DEF ControllerStep

\* So does a request's.
LEMMA OwnerRequester ==
  ASSUME IInv, OwnerInv, NEW r \in Requesters, RqCheck(r) \/ RqStep(r)
  PROVE  OwnerInv'
<1>1. CASE RqCheck(r) \/ RqLock(r) \/ RqSend(r)
  BY <1>1, SockProcAssumption
     DEF IInv, TypeOK, OwnerInv, RqCheck, RqLock, RqSend, RqGoto, locks, ctl
<1>2. CASE RqSendFail(r) \/ RqTake(r) \/ RqTimeout(r)
  BY <1>2, SockProcAssumption
     DEF IInv, TypeOK, OwnerInv, RqSendFail, RqTake, RqTimeout, RqReturn, RqGoto, ctl
<1>3. QED BY <1>1, <1>2 DEF RqStep

\* While a controller waits in StopProc nobody attaches a socket, and no
\* handle is registered of a thread that was not started.
LEMMA JoinController ==
  ASSUME IInv, JoinInv, NEW c \in Controllers, ControllerCall(c) \/ ControllerStep(c)
  PROVE  JoinInv'
<1>1. \A d \in Controllers : pc[d] # "idle" => (d = c <=> pc[c] # "idle")
  BY SockProcAssumption
     DEF IInv, MutexInv, ControllerCall, DevLogin, DevKickout, StopSvrKick, Enter,
         ControllerStep, GetStatus, DevStopProc, StopProcSignal, StopProcJoin,
         StopProcReset, DevResetData, AttachSock, StartProc, SpawnThread, Leave
<1>2. CASE ControllerCall(c)
  BY <1>2 DEF IInv, TypeOK, JoinInv, ControllerCall, DevLogin, DevKickout, StopSvrKick,
              Enter, Goto, channel, thr
<1>3. CASE GetStatus(c) \/ DevStopProc(c) \/ StopProcReset(c) \/ DevResetData(c)
             \/ StartProc(c) \/ Leave(c)
  BY <1>3 DEF IInv, TypeOK, JoinInv, GetStatus, AfterStatus, DevStopProc, StopProcReset,
              DevResetData, StartProc, Leave, Goto, channel, thr
<1>4. CASE StopProcSignal(c)
  BY <1>4 DEF IInv, TypeOK, JoinInv, StopProcSignal, SignalStop, Goto, thr
<1>5. CASE StopProcJoin(c)
  BY <1>1, <1>5 DEF IInv, TypeOK, JoinInv, StopProcJoin, Goto, thr
<1>6. CASE AttachSock(c)
  BY <1>1, <1>6 DEF IInv, TypeOK, JoinInv, AttachSock, Goto, thr
<1>7. CASE SpawnThread(c)
  <2>1. arg[c] \in Sock
    BY <1>7 DEF IInv, FlowInv, SpawnThread
  <2>2. QED BY <1>1, <1>7, <2>1 DEF IInv, TypeOK, JoinInv, SpawnThread, Goto
<1>8. QED BY <1>2, <1>3, <1>4, <1>5, <1>6, <1>7 DEF ControllerStep

\* Both facts hold in every reachable state.
LEMMA WaitInvariance == Spec => [](IInv /\ OwnerInv /\ JoinInv)
<1>1. Init => OwnerInv /\ JoinInv
  BY SockProcAssumption DEF Init, OwnerInv, JoinInv
<1>2. IInv /\ OwnerInv /\ JoinInv /\ [Next]_vars => OwnerInv' /\ JoinInv'
  <2> SUFFICES ASSUME IInv, OwnerInv, JoinInv, [Next]_vars PROVE OwnerInv' /\ JoinInv'
    OBVIOUS
  <2>1. ASSUME NEW t \in Sock, McStep(t) PROVE OwnerInv' /\ JoinInv'
    <3>1. /\ UNCHANGED <<locks, m_thread_hand, ctl, req>>
          /\ m_sock' \in {m_sock, None}
          /\ \E label \in Up \cup {"exited"} : mc' = [mc EXCEPT ![t] = label]
      BY <2>1 DEF McStep, McUp, McCheckExit, McCopySock, McSelectError, McSelectIdle,
                  McSelectReady, McRecvFrame, McRecvError, McEnqueue, McExit, McGoto,
                  channel, Up
    <3>2. QED BY <3>1 DEF IInv, TypeOK, OwnerInv, JoinInv, Up, locks, ctl, req
  <2>2. ASSUME NEW r \in Requesters, RqCheck(r) \/ RqStep(r) PROVE OwnerInv' /\ JoinInv'
    <3>1. UNCHANGED <<channel, thr, ctl>>
      BY <2>2 DEF RqCheck, RqStep, RqLock, RqSend, RqSendFail, RqTake, RqTimeout
    <3>2. QED BY <2>2, <3>1, OwnerRequester DEF JoinInv, channel, thr, ctl
  <2>3. CASE UNCHANGED vars
    BY <2>3 DEF OwnerInv, JoinInv, vars, locks, channel, thr, ctl, req
  <2>4. QED BY <2>1, <2>2, <2>3, OwnerController, JoinController DEF Next
<1>3. QED BY <1>1, <1>2, Invariance, PTL DEF Spec

\* However many controllers and requests there are, none of them waits for
\* something that waits for it: StopProc, which waits for the client thread
\* under three locks, cannot block the server.
THEOREM NoCircularWait == Spec => []WaitsEnd
<1>1. IInv /\ OwnerInv /\ JoinInv => WaitsEnd
  <2> SUFFICES ASSUME IInv, OwnerInv, JoinInv PROVE WaitsEnd
    OBVIOUS
  <2>1. ASSUME NEW c \in Controllers, NEW d \in Controllers, pc[c] # "idle", pc[d] # "idle"
        PROVE  c = d
    BY <2>1 DEF IInv, MutexInv
  <2>2. ASSUME NEW c \in Controllers, pc[c] \in {"status", "devstop", "devreset"}
        PROVE  \/ m_lock_dev = None
               \/ \E r \in Requesters : m_lock_dev = r /\ rpc[r] \in {"locked", "wait"}
    <3>1. m_lock_dev \notin Controllers
      BY <2>1, <2>2 DEF OwnerInv
    <3>2. QED BY <3>1 DEF IInv, TypeOK, OwnerInv
  <2>3. ASSUME NEW c \in Controllers, pc[c] \in {"stop", "start", "devreset"}
        PROVE  m_lock = None
    BY <2>1, <2>3 DEF IInv, TypeOK, OwnerInv
  <2>4. ASSUME NEW c \in Controllers, pc[c] = "join"
        PROVE  /\ m_thread_hand \in Sock /\ m_sock = None
               /\ mc[m_thread_hand] \in Live \cup {"exited"}
    BY <2>4 DEF IInv, TypeOK, JoinInv
  <2>5. ASSUME NEW r \in Requesters, rpc[r] = "checked"
        PROVE  \/ m_lock_dev = None
               \/ \E q \in Requesters : m_lock_dev = q /\ rpc[q] \in {"locked", "wait"}
               \/ \E c \in Controllers : m_lock_dev = c /\ pc[c] \in {"stop", "join", "reset"}
    BY DEF IInv, TypeOK, OwnerInv
  <2>6. QED BY <2>2, <2>3, <2>4, <2>5 DEF WaitsEnd
<1>2. QED BY <1>1, WaitInvariance, PTL

\* The thread that StopProc waits for is at its end after six steps at the
\* latest: it finds no socket when it comes round.
THEOREM JoinedThreadEnds == Spec => [][StepsNearer]_vars
<1>1. IInv /\ JoinInv /\ [Next]_vars => [StepsNearer]_vars
  <2> SUFFICES ASSUME IInv, JoinInv, NEW t \in Sock, McStep(t),
                      NEW c \in Controllers, pc[c] = "join"
               PROVE  StepsLeft(t)' < StepsLeft(t)
    BY DEF StepsNearer
  <2>1. m_sock = None /\ mc \in [Sock -> {"none", "exited"} \cup Live]
    BY DEF IInv, TypeOK, JoinInv
  <2>2. CASE mc[t] = "select"
    <3>1. mc'[t] \in {"end", "loop", "recv"}
      BY <2>1, <2>2 DEF McStep, McUp, McCheckExit, McCopySock, McSelectError, McSelectIdle,
                  McSelectReady, McRecvFrame, McRecvError, McEnqueue, McExit, McGoto
    <3>2. QED BY <2>2, <3>1 DEF StepsLeft
  <2>3. CASE mc[t] = "recv"
    <3>1. mc'[t] \in {"end", "got"}
      BY <2>1, <2>3 DEF McStep, McUp, McCheckExit, McCopySock, McSelectError, McSelectIdle,
                  McSelectReady, McRecvFrame, McRecvError, McEnqueue, McExit, McGoto
    <3>2. QED BY <2>3, <3>1 DEF StepsLeft
  <2>4. CASE mc[t] \in {"start", "got"}
    <3>1. mc'[t] = "loop"
      BY <2>1, <2>4 DEF McStep, McUp, McCheckExit, McCopySock, McSelectError, McSelectIdle,
                  McSelectReady, McRecvFrame, McRecvError, McEnqueue, McExit, McGoto
    <3>2. QED BY <2>4, <3>1 DEF StepsLeft
  <2>5. CASE mc[t] = "loop"
    <3>1. mc'[t] \in {"end", "copy"}
      BY <2>1, <2>5 DEF McStep, McUp, McCheckExit, McCopySock, McSelectError, McSelectIdle,
                  McSelectReady, McRecvFrame, McRecvError, McEnqueue, McExit, McGoto
    <3>2. QED BY <2>5, <3>1 DEF StepsLeft
  <2>6. CASE mc[t] = "copy"
    <3>1. mc'[t] = "end"
      BY <2>1, <2>6 DEF McStep, McUp, McCheckExit, McCopySock, McSelectError, McSelectIdle,
                  McSelectReady, McRecvFrame, McRecvError, McEnqueue, McExit, McGoto
    <3>2. QED BY <2>6, <3>1 DEF StepsLeft
  <2>7. CASE mc[t] = "end"
    <3>1. mc'[t] = "exited"
      BY <2>1, <2>7 DEF McStep, McUp, McCheckExit, McCopySock, McSelectError, McSelectIdle,
                  McSelectReady, McRecvFrame, McRecvError, McEnqueue, McExit, McGoto
    <3>2. QED BY <2>7, <3>1 DEF StepsLeft
  <2>8. mc[t] \in {"select", "recv", "start", "got", "loop", "copy", "end"}
    BY DEF McStep, McUp, McCheckExit, McCopySock, McSelectError, McSelectIdle,
           McSelectReady, McRecvFrame, McRecvError, McEnqueue, McExit
  <2>9. QED BY <2>2, <2>3, <2>4, <2>5, <2>6, <2>7, <2>8
<1>2. QED BY <1>1, WaitInvariance, PTL DEF Spec

-----------------------------------------------------------------------------
(***************************************************************************)
(* Refinement.                                                             *)
(***************************************************************************)

\* AttachSock finds the device offline: the old thread has been joined and
\* no other login is under way.
LEMMA AttachConnects ==
  ASSUME IInv, NEW c \in Controllers, AttachSock(c)
  PROVE  Link!Connect(arg[c])
<1>1. ~flg_online /\ arg[c] \in Sock /\ arg[c] \notin taken
  BY DEF IInv, RequestInv, Settled, FlowInv, AttachSock
<1>2. QED
  BY <1>1 DEF AttachSock, Link!Connect

\* Every step of SockProc is a step of DeviceLink or leaves the link alone.
LEMMA StepRefines == IInv /\ [Next]_vars => [Link!LinkNext]_Link!linkVars
<1> SUFFICES ASSUME IInv, [Next]_vars
             PROVE  Link!LinkNext \/ UNCHANGED <<flg_online, taken>>
  BY DEF Link!linkVars
<1>1. CASE UNCHANGED vars
  BY <1>1 DEF vars, channel, hist
<1>2. ASSUME NEW c \in Controllers, ControllerCall(c) \/ ControllerStep(c)
      PROVE  Link!LinkNext \/ UNCHANGED <<flg_online, taken>>
  <2>1. CASE AttachSock(c)
    <3>1. arg[c] \in Sock
      BY <2>1 DEF IInv, FlowInv, AttachSock
    <3>2. QED
      BY <2>1, <3>1, AttachConnects DEF Link!LinkNext
  <2>2. CASE ~AttachSock(c)
    BY <1>2, <2>2
       DEF ControllerCall, DevLogin, DevKickout, StopSvrKick, Enter,
           ControllerStep, GetStatus, DevStopProc, StopProcSignal,
           StopProcJoin, StopProcReset, DevResetData, StartProc, SpawnThread,
           Leave, channel, hist
  <2>3. QED
    BY <2>1, <2>2
<1>3. ASSUME NEW t \in Sock, McStep(t)
      PROVE  Link!LinkNext \/ UNCHANGED <<flg_online, taken>>
  <2>1. CASE McExit(t)
    <3>1. flg_online
      BY <2>1 DEF IInv, ThreadInv, Threads, Live, Up, McExit
    <3>2. flg_online' = FALSE /\ taken' = taken
      BY <2>1 DEF McExit, OnlineAfterEnd, hist
    <3>3. QED
      BY <3>1, <3>2 DEF Link!LinkNext, Link!Drop
  <2>2. CASE McUp(t)
    <3>1. flg_online
      BY <2>2 DEF IInv, ThreadInv, Threads, Live, McUp
    <3>2. flg_online' = TRUE /\ taken' = taken
      BY <2>2 DEF McUp, hist
    <3>3. flg_online = TRUE
      BY <3>1 DEF IInv, TypeOK
    <3>4. QED
      BY <3>2, <3>3
  <2>3. CASE ~McExit(t) /\ ~McUp(t)
    BY <1>3, <2>3
       DEF McStep, McCheckExit, McCopySock, McSelectError, McSelectIdle,
           McSelectReady, McRecvFrame, McRecvError, McEnqueue, channel, hist
  <2>4. QED
    BY <2>1, <2>2, <2>3
<1>4. ASSUME NEW r \in Requesters, RqCheck(r) \/ RqStep(r)
      PROVE  UNCHANGED <<flg_online, taken>>
  BY <1>4 DEF RqCheck, RqStep, RqLock, RqSend, RqSendFail, RqTake, RqTimeout,
              channel, hist
<1>5. QED
  BY <1>1, <1>2, <1>3, <1>4 DEF Next

\* The channel implements DeviceLink: a registration takes the place of a
\* link only after that link went down, and no connection is taken twice.
THEOREM Refinement == Spec => ImplementsLink
<1>1. Init => Link!LinkInit
  BY DEF Init, Link!LinkInit
<1>2. QED
  BY <1>1, Invariance, StepRefines, PTL DEF Spec, ImplementsLink, Link!LinkSpec
=============================================================================
