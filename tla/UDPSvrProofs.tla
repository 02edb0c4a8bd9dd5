---------------------------- MODULE UDPSvrProofs ----------------------------
(***************************************************************************)
(* Proofs about UDPSvr, for any number of threads, devices, packets and    *)
(* restarts.                                                               *)
(*                                                                         *)
(* The argument.  m_flg_running says whether there is a server thread      *)
(* (RunInv), so replies are queued for the run that goes on.  The loop     *)
(* over all devices goes through a list that others only append to or      *)
(* delete from: of the devices that stay in it, one more at most slips     *)
(* behind the loop unreported at each deletion there (WalkInv).            *)
(***************************************************************************)
EXTENDS UDPSvr, SeqLemmas, FiniteSetTheorems

\* There is a thread, or one that ended and was not waited for, exactly while
\* the server counts as running.
RunInv == m_flg_running <=> upc # "none"

\* The device is still ahead of the loop over all.
Ahead(d) == \E i \in DOMAIN m_list_device : i >= walk /\ m_list_device[i] = d

\* The devices in the list all the time that the loop will not report.
PassedOver == {d \in steady \ reported : ~Ahead(d)}

\* Each of them slipped behind the loop by a deletion there.
WalkInv ==
  upc = "walk" =>
    /\ walk >= 1
    /\ IsFiniteSet(steady) /\ Cardinality(PassedOver) <= shifted

IInv == TypeOK /\ RunInv /\ NoStaleExit /\ NoReplyOfEarlierRun /\ WalkInv

-----------------------------------------------------------------------------
(***************************************************************************)
(* The list of devices and the send queue.                                 *)
(***************************************************************************)

\* A device that is not in the list may be added to it.
LEMMA AddedOnce ==
  ASSUME NEW q \in Seq(Devs), IsInjective(q), NEW d \in Devs,
         \A i \in DOMAIN q : q[i] # d
  PROVE  Append(q, d) \in Seq(Devs) /\ IsInjective(Append(q, d))
<1>1. /\ Append(q, d) \in Seq(Devs) /\ Len(q) \in Nat /\ DOMAIN q = 1 .. Len(q)
      /\ DOMAIN Append(q, d) = 1 .. Len(q) + 1
      /\ \A i \in 1 .. Len(q) : Append(q, d)[i] = q[i]
      /\ Append(q, d)[Len(q) + 1] = d
  BY AppendProperties, LenProperties
<1>2. QED
  BY <1>1 DEF IsInjective

\* A list stays without repetitions when a device is deleted.
LEMMA DeletedOnce ==
  ASSUME NEW q \in Seq(Devs), IsInjective(q), NEW i \in DOMAIN q
  PROVE  RemoveAt(q, i) \in Seq(Devs) /\ IsInjective(RemoveAt(q, i))
<1>1. /\ Len(q) \in Nat /\ DOMAIN q = 1 .. Len(q) /\ i \in 1 .. Len(q)
  BY LenProperties
<1>2. /\ RemoveAt(q, i) \in Seq(Devs)
      /\ Len(RemoveAt(q, i)) = Len(q) - 1
      /\ \A j \in 1 .. Len(q) - 1 :
           RemoveAt(q, i)[j] = IF j < i THEN q[j] ELSE q[j + 1]
  BY <1>1, RemoveAtType
<1>3. DOMAIN RemoveAt(q, i) = 1 .. Len(q) - 1
  BY <1>2, LenProperties
<1> DEFINE r == RemoveAt(q, i)
<1> HIDE DEF r
<1>4. ASSUME NEW a \in 1 .. Len(q) - 1, NEW b \in 1 .. Len(q) - 1, r[a] = r[b]
      PROVE  a = b
  <2> DEFINE x == IF a < i THEN a ELSE a + 1
             y == IF b < i THEN b ELSE b + 1
  <2>1. x \in DOMAIN q /\ y \in DOMAIN q /\ r[a] = q[x] /\ r[b] = q[y]
    BY <1>1, <1>2 DEF r
  <2>2. x = y
    BY <1>4, <2>1 DEF IsInjective
  <2> QED
    BY <1>1, <2>2
<1>5. QED
  BY <1>2, <1>3, <1>4 DEF IsInjective, r

\* FrameSend queues messages, and only messages.
LEMMA SendType ==
  ASSUME TypeOK, NEW a \in BOOLEAN, FrameSend(a)
  PROVE  m_list_msg_send' \in Seq(MessageType) /\ m_ssid' \in Nat
<1>1. /\ m_list_msg_send \in Seq(MessageType) /\ m_ssid \in Nat /\ runs \in Nat
  BY UDPSvrAssumption DEF TypeOK
<1>2. Message(a) \in MessageType
  BY <1>1 DEF Message, MessageType
<1>3. Append(m_list_msg_send, Message(a)) \in Seq(MessageType)
  BY <1>1, <1>2, AppendProperties
<1> QED
  BY <1>1, <1>3 DEF FrameSend, Enqueue, queue

\* FrameSend adds at most one message, at the end, of the present run.
LEMMA SendAdds ==
  ASSUME TypeOK, NEW a \in BOOLEAN, FrameSend(a)
  PROVE  \A i \in DOMAIN m_list_msg_send' :
           \/ i \in DOMAIN m_list_msg_send
                /\ m_list_msg_send'[i] = m_list_msg_send[i]
           \/ m_list_msg_send'[i] = Message(a)
<1>1. m_list_msg_send \in Seq(MessageType)
  BY DEF TypeOK
<1>2. CASE flg_online
  <2>1. m_list_msg_send' = Append(m_list_msg_send, Message(a))
    BY <1>2 DEF FrameSend, Enqueue
  <2>2. /\ DOMAIN Append(m_list_msg_send, Message(a)) = 1 .. Len(m_list_msg_send) + 1
        /\ \A i \in 1 .. Len(m_list_msg_send) :
             Append(m_list_msg_send, Message(a))[i] = m_list_msg_send[i]
        /\ Append(m_list_msg_send, Message(a))[Len(m_list_msg_send) + 1] = Message(a)
        /\ Len(m_list_msg_send) \in Nat
        /\ DOMAIN m_list_msg_send = 1 .. Len(m_list_msg_send)
    <3>1. m_list_msg_send \in Seq(MessageType \cup {Message(a)})
      BY <1>1, SeqWiden
    <3> QED
      BY <3>1, AppendProperties, LenProperties
  <2> QED
    BY <2>1, <2>2
<1>3. CASE ~flg_online
  BY <1>3 DEF FrameSend, queue
<1> QED
  BY <1>2, <1>3

-----------------------------------------------------------------------------
(***************************************************************************)
(* The invariant is inductive.                                             *)
(***************************************************************************)
\* The initial states are in the invariant.
LEMMA InitIInv == Init => IInv
<1> SUFFICES ASSUME Init PROVE IInv
  OBVIOUS
<1> <<>> \in Seq(Devs) /\ <<>> \in Seq(MessageType) /\ <<>> \in Seq(Packets)
  OBVIOUS
<1>1. IsInjective(m_list_device) /\ DOMAIN m_list_msg_send = {}
  BY DEF Init, IsInjective
<1>2. TypeOK
  <2>1. m_flg_running \in BOOLEAN /\ m_sock \in BOOLEAN
    BY DEF Init
  <2>2. flg_event_exit \in BOOLEAN /\ flg_online \in BOOLEAN
    BY DEF Init
  <2>3. /\ packets \in 0 .. MaxPackets /\ notes \in 0 .. MaxNotes
        /\ runs \in 0 .. MaxRuns /\ shifted \in 0 .. MaxShifts
    BY UDPSvrAssumption DEF Init
  <2>4. pc \in [Callers -> {"idle", "signal", "join", "notify"}]
    BY DEF Init
  <2> QED
    BY <1>1, <2>1, <2>2, <2>3, <2>4 DEF Init, TypeOK
<1>3. RunInv /\ NoStaleExit /\ WalkInv
  BY DEF Init, RunInv, NoStaleExit, WalkInv
<1>4. NoReplyOfEarlierRun
  BY <1>1 DEF NoReplyOfEarlierRun
<1> QED
  BY <1>2, <1>3, <1>4 DEF IInv

\* The steps of the server's thread keep the types.
LEMMA UdpType ==
  ASSUME TypeOK, WalkInv, UdpStep \/ UdpFails
  PROVE  TypeOK'
<1> USE DEF TypeOK, mng, queue, loop, bound
<1>1. CASE UdpBind \/ UdpLoop \/ UdpClosed \/ UdpIdle \/ UdpDrained
  BY <1>1 DEF UdpBind, UdpLoop, UdpClosed, UdpIdle, UdpDrained, AfterIdle
<1>2. CASE UdpFails \/ UdpEnd
  <2> <<>> \in Seq(Packets)
    OBVIOUS
  <2> QED
    BY <1>2 DEF UdpFails, UdpBindFails, UdpSelectFails, UdpRecvFails, UdpEnd
<1>3. CASE UdpSend
  <2>1. /\ Tail(m_list_msg_send) \in Seq(MessageType)
        /\ Head(m_list_msg_send) \in MessageType
    BY <1>3, HeadTailProperties DEF UdpSend
  <2>2. last_sent' \in Nat
    BY <1>3, <2>1 DEF UdpSend, MessageType
  <2> QED
    BY <1>3, <2>1, <2>2 DEF UdpSend
<1>4. CASE UdpRecv
  <2>1. Tail(inbox) \in Seq(Packets) /\ Head(inbox) \in Packets
    BY <1>4, HeadTailProperties DEF UdpRecv
  <2>2. ToSet(m_list_device) \subseteq Devs
    BY LenProperties DEF ToSet
  <2>3. m_lock_sock' \in {Udp, None}
    BY <1>4 DEF UdpRecv
  <2>4. upc' \in {"end", "loop", "walk", "lookup"}
    BY <1>4, <2>1 DEF UdpRecv, Packets, Accepts
  <2>5. request' \in Devs \cup {None} /\ walk' \in Nat
    BY <1>4 DEF UdpRecv, FirstDev
  <2>6. steady' \subseteq Devs
    BY <1>4, <2>2 DEF UdpRecv
  <2> QED
    BY <1>4, <2>1, <2>3, <2>4, <2>5, <2>6 DEF UdpRecv
<1>5. CASE UdpWalk
  <2>1. m_list_msg_send' \in Seq(MessageType) /\ m_ssid' \in Nat
    BY <1>5, SendType DEF UdpWalk
  <2>2. m_list_device[walk] \in Devs
    BY <1>5, ElementOfSeq DEF UdpWalk, WalkInv
  <2>3. QED
    BY <1>5, <2>1, <2>2 DEF UdpWalk
<1>6. CASE UdpServe
  <2>1. m_list_msg_send' \in Seq(MessageType) /\ m_ssid' \in Nat
    BY <1>6, SendType DEF UdpServe
  <2>2. QED
    BY <1>6, <2>1 DEF UdpServe
<1>7. CASE UdpWalkDone \/ UdpLookup
  <2>1. 0 \in 0 .. MaxShifts
    BY UDPSvrAssumption
  <2> QED
    BY <1>7, <2>1 DEF UdpWalkDone, UdpLookup
<1> QED
  BY <1>1, <1>2, <1>3, <1>4, <1>5, <1>6, <1>7 DEF UdpStep

\* So do those of the other threads and of the clients.
LEMMA OtherType ==
  ASSUME TypeOK,
         \/ ClientSend
         \/ \E c \in Callers : StartSvr(c) \/ StopSvr(c) \/ NotifyLogin(c) \/ CallerStep(c)
         \/ \E c \in Callers, d \in Devs : AddDev(c, d) \/ DelDev(c, d)
  PROVE  TypeOK'
<1> USE DEF TypeOK, mng, queue, loop, bound, Goto
<1>1. CASE ClientSend
  <2>1. PICK p \in Packets : inbox' = Append(inbox, p)
    BY <1>1 DEF ClientSend
  <2>2. Append(inbox, p) \in Seq(Packets)
    BY AppendProperties
  <2>3. packets' \in 0 .. MaxPackets
    BY <1>1, UDPSvrAssumption DEF ClientSend
  <2> QED
    BY <1>1, <2>1, <2>2, <2>3 DEF ClientSend
<1>2. ASSUME NEW c \in Callers, StartSvr(c) PROVE TypeOK'
  <2>1. runs' \in 0 .. MaxRuns
    BY <1>2, UDPSvrAssumption DEF StartSvr
  <2> QED
    BY <1>2, <2>1 DEF StartSvr, ResetExitEvent
<1>3. ASSUME NEW c \in Callers, StopSvr(c) PROVE TypeOK'
  BY <1>3 DEF StopSvr
<1>4. ASSUME NEW c \in Callers, NotifyLogin(c) PROVE TypeOK'
  <2>1. notes' \in 0 .. MaxNotes
    BY <1>4, UDPSvrAssumption DEF NotifyLogin
  <2> QED
    BY <1>4, <2>1 DEF NotifyLogin
<1>5. ASSUME NEW c \in Callers, StopSignal(c) PROVE TypeOK'
  <2> <<>> \in Seq(Packets)
    OBVIOUS
  <2> QED
    BY <1>5 DEF StopSignal, SignalStop
<1>6. ASSUME NEW c \in Callers, StopJoin(c) PROVE TypeOK'
  <2> <<>> \in Seq(MessageType)
    OBVIOUS
  <2> QED
    BY <1>6 DEF StopJoin, ResetData
<1>7. ASSUME NEW c \in Callers, NotifySend(c) PROVE TypeOK'
  <2>1. m_list_msg_send' \in Seq(MessageType) /\ m_ssid' \in Nat
    BY <1>7, SendType DEF NotifySend
  <2> QED
    BY <1>7, <2>1 DEF NotifySend
<1>8. ASSUME NEW c \in Callers, NEW d \in Devs, AddDev(c, d) PROVE TypeOK'
  <2>1. m_list_device' \in Seq(Devs) /\ IsInjective(m_list_device')
    BY <1>8, AddedOnce DEF AddDev, AlreadyExists, Listed
  <2> QED
    BY <1>8, <2>1 DEF AddDev
<1>9. ASSUME NEW c \in Callers, NEW d \in Devs, DelDev(c, d) PROVE TypeOK'
  <2>1. m_list_device' \in Seq(Devs) /\ IsInjective(m_list_device')
    BY <1>9, DeletedOnce DEF DelDev
  <2>2. shifted' \in 0 .. MaxShifts
    BY <1>9, UDPSvrAssumption DEF DelDev
  <2> QED
    BY <1>9, <2>1, <2>2 DEF DelDev
<1> QED
  BY <1>1, <1>2, <1>3, <1>4, <1>5, <1>6, <1>7, <1>8, <1>9 DEF CallerStep

\* Every step keeps the types.
LEMMA TypeNext ==
  ASSUME TypeOK, WalkInv, [Next]_vars
  PROVE  TypeOK'
<1>1. CASE UNCHANGED vars
  BY <1>1 DEF vars, mng, queue, loop, bound, TypeOK
<1>2. CASE Next
  BY <1>2, UdpType, OtherType DEF Next
<1> QED
  BY <1>1, <1>2

\* A thread is started when there is none, and startSvr resets the event;
\* only a stop that then waits raises it.
LEMMA RunNext ==
  ASSUME TypeOK, RunInv, NoStaleExit, [Next]_vars
  PROVE  RunInv' /\ NoStaleExit'
<1> USE DEF TypeOK, mng, queue, loop, bound, Goto, RunInv, NoStaleExit
<1>1. CASE UNCHANGED vars
  BY <1>1 DEF vars
<1>2. CASE UdpStep \/ UdpFails
  <2> HIDE DEF TypeOK, RunInv, NoStaleExit
  <2>1. m_flg_running' = m_flg_running /\ pc' = pc
    BY <1>2 DEF UdpStep, UdpFails, UdpBind, UdpBindFails, UdpLoop, UdpClosed,
                UdpSelectFails, UdpRecvFails, UdpIdle, UdpSend, UdpDrained,
                UdpRecv, UdpWalk, UdpWalkDone, UdpLookup, UdpServe, UdpEnd
  <2>4. flg_event_exit' = flg_event_exit \/ flg_event_exit' = FALSE
    BY <1>2 DEF UdpStep, UdpFails, UdpBind, UdpBindFails, UdpLoop, UdpClosed,
                UdpSelectFails, UdpRecvFails, UdpIdle, UdpSend, UdpDrained,
                UdpRecv, UdpWalk, UdpWalkDone, UdpLookup, UdpServe, UdpEnd
  <2>2. upc \notin {"none", "exited"}
    BY <1>2 DEF UdpStep, UdpFails, UdpBind, UdpBindFails, UdpLoop, UdpClosed,
                UdpSelectFails, UdpRecvFails, UdpIdle, UdpSend, UdpDrained,
                UdpRecv, UdpWalk, UdpWalkDone, UdpLookup, UdpServe, UdpEnd
  <2>3. upc' # "none"
    <3>1. CASE UdpRecv
      <4>1. Head(inbox) \in Packets
        BY <3>1, HeadTailProperties DEF UdpRecv, TypeOK
      <4> QED
        BY <3>1, <4>1 DEF UdpRecv, Packets, Accepts
    <3>2. CASE (UdpStep /\ ~UdpRecv) \/ UdpFails
      BY <2>2, <3>2
         DEF UdpStep, UdpFails, UdpBind, UdpBindFails, UdpLoop, UdpClosed,
             UdpSelectFails, UdpRecvFails, UdpIdle, UdpSend, UdpDrained,
             UdpWalk, UdpWalkDone, UdpLookup, UdpServe, UdpEnd, AfterIdle
    <3> QED
      BY <1>2, <3>1, <3>2
  <2> QED
    BY <2>1, <2>2, <2>3, <2>4 DEF RunInv, NoStaleExit
<1>3. ASSUME NEW c \in Callers, StartSvr(c) PROVE RunInv' /\ NoStaleExit'
  BY <1>3 DEF StartSvr, ResetExitEvent
<1>4. ASSUME NEW c \in Callers, StopSignal(c) PROVE RunInv' /\ NoStaleExit'
  BY <1>4 DEF StopSignal, SignalStop
<1>5. ASSUME NEW c \in Callers, StopJoin(c) PROVE RunInv' /\ NoStaleExit'
  BY <1>5 DEF StopJoin
<1>6. ASSUME NEW c \in Callers, StopSvr(c) \/ NotifyLogin(c) \/ NotifySend(c)
      PROVE  RunInv' /\ NoStaleExit'
  <2>1. /\ UNCHANGED <<m_flg_running, upc, flg_event_exit>>
        /\ \A d \in Callers : pc[d] = "join" => pc'[d] = "join"
    BY <1>6 DEF StopSvr, NotifyLogin, NotifySend
  <2> QED
    BY <2>1
<1>7. ASSUME \/ ClientSend
             \/ \E c \in Callers, d \in Devs : AddDev(c, d) \/ DelDev(c, d)
      PROVE  RunInv' /\ NoStaleExit'
  BY <1>7 DEF ClientSend, AddDev, DelDev
<1> QED
  BY <1>1, <1>2, <1>3, <1>4, <1>5, <1>6, <1>7 DEF Next, CallerStep

\* Replies are queued by a live thread, and the join that ends a run empties
\* the queue.
LEMMA ReplyNext ==
  ASSUME TypeOK, RunInv, NoReplyOfEarlierRun, [Next]_vars
  PROVE  NoReplyOfEarlierRun'
<1> USE DEF mng, queue, loop, bound, Goto, NoReplyOfEarlierRun
<1>1. CASE UdpWalk \/ UdpServe
  <2>1. FrameSend(TRUE) /\ UNCHANGED <<m_flg_running, runs>> /\ m_flg_running
    BY <1>1 DEF UdpWalk, UdpServe, RunInv
  <2>2. Message(TRUE).run = runs
    BY DEF Message
  <2>3. \A i \in DOMAIN m_list_msg_send' :
           \/ i \in DOMAIN m_list_msg_send
                /\ m_list_msg_send'[i] = m_list_msg_send[i]
           \/ m_list_msg_send'[i] = Message(TRUE)
    BY <2>1, SendAdds
  <2> QED
    BY <2>1, <2>2, <2>3
<1>2. ASSUME NEW c \in Callers, NotifySend(c) PROVE NoReplyOfEarlierRun'
  <2>1. FrameSend(FALSE) /\ UNCHANGED <<m_flg_running, runs>>
    BY <1>2 DEF NotifySend
  <2>2. ~Message(FALSE).asked
    BY DEF Message
  <2>3. \A i \in DOMAIN m_list_msg_send' :
           \/ i \in DOMAIN m_list_msg_send
                /\ m_list_msg_send'[i] = m_list_msg_send[i]
           \/ m_list_msg_send'[i] = Message(FALSE)
    BY <2>1, SendAdds
  <2> QED
    BY <2>1, <2>2, <2>3
<1>3. CASE UdpSend
  <2>1. /\ m_list_msg_send \in Seq(MessageType) /\ m_list_msg_send # <<>>
        /\ m_list_msg_send' = Tail(m_list_msg_send)
        /\ UNCHANGED <<m_flg_running, runs>>
    BY <1>3 DEF UdpSend, TypeOK
  <2>2. \A i \in DOMAIN Tail(m_list_msg_send) :
          /\ i + 1 \in DOMAIN m_list_msg_send
          /\ Tail(m_list_msg_send)[i] = m_list_msg_send[i + 1]
    BY <2>1, HeadTailProperties, LenProperties
  <2> QED
    BY <2>1, <2>2
<1>4. ASSUME NEW c \in Callers, StartSvr(c) PROVE NoReplyOfEarlierRun'
  BY <1>4 DEF StartSvr
<1>5. ASSUME NEW c \in Callers, StopJoin(c) PROVE NoReplyOfEarlierRun'
  <2>1. m_list_msg_send' = <<>> /\ DOMAIN <<>> = {}
    BY <1>5 DEF StopJoin, ResetData
  <2> QED
    BY <2>1
<1>6. ASSUME \/ UNCHANGED vars \/ UdpBind \/ UdpLoop \/ UdpClosed \/ UdpIdle
             \/ UdpDrained \/ UdpRecv \/ UdpWalkDone \/ UdpLookup \/ UdpEnd
             \/ UdpFails \/ ClientSend
             \/ \E c \in Callers : StopSvr(c) \/ NotifyLogin(c) \/ StopSignal(c)
             \/ \E c \in Callers, d \in Devs : AddDev(c, d) \/ DelDev(c, d)
      PROVE  NoReplyOfEarlierRun'
  <2>1. UNCHANGED <<m_list_msg_send, m_flg_running, runs>>
    BY <1>6 DEF vars, UdpFails, UdpBind, UdpBindFails, UdpLoop, UdpClosed,
                UdpSelectFails, UdpRecvFails, UdpIdle, UdpDrained, UdpRecv,
                UdpWalkDone, UdpLookup, UdpEnd, ClientSend, StopSvr, NotifyLogin,
                StopSignal, AddDev, DelDev
  <2> QED
    BY <2>1
<1> QED
  BY <1>1, <1>2, <1>3, <1>4, <1>5, <1>6 DEF Next, UdpStep, CallerStep

\* Fewer devices passed over, or as many, are not more than before.
LEMMA NoMorePassed ==
  ASSUME TypeOK, WalkInv, upc = "walk", IsFiniteSet(steady), steady' \subseteq steady,
         PassedOver' \subseteq PassedOver, shifted' = shifted, walk' >= 1
  PROVE  WalkInv'
<1>1. IsFiniteSet(PassedOver) /\ IsFiniteSet(steady')
  BY FS_Subset DEF PassedOver
<1>2. IsFiniteSet(PassedOver') /\ Cardinality(PassedOver') <= Cardinality(PassedOver)
  BY <1>1, FS_Subset
<1>3. Cardinality(PassedOver) \in Nat /\ Cardinality(PassedOver') \in Nat
  BY <1>1, <1>2, FS_CardinalityType
<1>4. Cardinality(PassedOver)' <= shifted'
  BY <1>2, <1>3 DEF WalkInv, TypeOK
<1> QED
  BY <1>1, <1>4 DEF WalkInv

\* A deletion ahead of the loop, or where it is, makes nobody slip behind it;
\* one behind the loop makes the device slip there that would have been next.
LEMMA DelWalk ==
  ASSUME TypeOK, WalkInv, upc = "walk",
         NEW c \in Callers, NEW d \in Devs, DelDev(c, d)
  PROVE  WalkInv'
<1>1. /\ m_list_device \in Seq(Devs) /\ Len(m_list_device) \in Nat
      /\ DOMAIN m_list_device = 1 .. Len(m_list_device) /\ walk \in Nat
      /\ walk >= 1 /\ IsFiniteSet(steady) /\ Cardinality(PassedOver) <= shifted
      /\ shifted \in Nat
  BY LenProperties, UDPSvrAssumption DEF TypeOK, WalkInv
<1>2. PICK i \in DOMAIN m_list_device :
        /\ m_list_device[i] = d /\ m_list_device' = RemoveAt(m_list_device, i)
        /\ IF i < walk THEN shifted < MaxShifts /\ shifted' = shifted + 1
           ELSE UNCHANGED shifted
  BY DEF DelDev
<1>3. steady' = steady \ {d} /\ UNCHANGED <<upc, walk, reported>>
  BY DEF DelDev
<1>4. /\ m_list_device' \in Seq(Devs)
      /\ DOMAIN m_list_device' = 1 .. Len(m_list_device) - 1
      /\ \A j \in 1 .. Len(m_list_device) - 1 :
           m_list_device'[j] = IF j < i THEN m_list_device[j] ELSE m_list_device[j + 1]
  <2>1. /\ RemoveAt(m_list_device, i) \in Seq(Devs)
        /\ Len(RemoveAt(m_list_device, i)) = Len(m_list_device) - 1
        /\ \A j \in 1 .. Len(m_list_device) - 1 : RemoveAt(m_list_device, i)[j]
             = IF j < i THEN m_list_device[j] ELSE m_list_device[j + 1]
    BY <1>1, RemoveAtType
  <2> QED
    BY <1>2, <2>1, LenProperties
\* Where a device that stays has moved.
<1>5. ASSUME NEW j \in DOMAIN m_list_device, m_list_device[j] # d
      PROVE  LET k == IF j < i THEN j ELSE j - 1
             IN  k \in DOMAIN m_list_device' /\ m_list_device'[k] = m_list_device[j]
  <2>1. j # i
    BY <1>2, <1>5
  <2>2. CASE j < i
    BY <1>1, <1>4, <2>2
  <2>3. CASE j > i
    <3>1. j - 1 \in 1 .. Len(m_list_device) - 1 /\ ~(j - 1 < i) /\ (j - 1) + 1 = j
      BY <1>1, <2>3
    <3> QED
      BY <1>1, <1>4, <2>3, <3>1
  <2> QED
    BY <1>1, <2>1, <2>2, <2>3
<1>6. CASE i >= walk
  <2>1. \A e \in steady' : Ahead(e) => Ahead(e)'
    <3> SUFFICES ASSUME NEW e \in steady', Ahead(e) PROVE Ahead(e)'
      OBVIOUS
    <3>1. PICK j \in DOMAIN m_list_device : j >= walk /\ m_list_device[j] = e
      BY DEF Ahead
    <3>2. e # d
      BY <1>3
    <3> DEFINE k == IF j < i THEN j ELSE j - 1
    <3>3. k \in DOMAIN m_list_device' /\ m_list_device'[k] = e
      BY <1>5, <3>1, <3>2
    <3>4. j # i
      BY <1>2, <3>1, <3>2
    <3>5. k >= walk
      BY <1>1, <1>6, <3>1, <3>4
    <3> QED
      BY <1>3, <3>3, <3>5 DEF Ahead
  <2>2. PassedOver' \subseteq PassedOver
    BY <1>3, <2>1 DEF PassedOver
  <2>3. shifted' = shifted
    BY <1>1, <1>2, <1>6
  <2> QED
    BY <1>1, <1>3, <2>2, <2>3, NoMorePassed
<1>7. CASE i < walk
  <2>1. \A e \in steady' : Ahead(e) => Ahead(e)' \/ e = m_list_device[walk]
    <3> SUFFICES ASSUME NEW e \in steady', Ahead(e), e # m_list_device[walk]
                 PROVE  Ahead(e)'
      OBVIOUS
    <3>1. PICK j \in DOMAIN m_list_device : j >= walk /\ m_list_device[j] = e
      BY DEF Ahead
    <3>2. e # d /\ j # walk
      BY <1>3, <3>1
    <3> DEFINE k == IF j < i THEN j ELSE j - 1
    <3>3. k \in DOMAIN m_list_device' /\ m_list_device'[k] = e
      BY <1>5, <3>1, <3>2
    <3>4. k >= walk
      BY <1>1, <1>7, <3>1, <3>2
    <3> QED
      BY <1>3, <3>3, <3>4 DEF Ahead
  <2> DEFINE More == PassedOver \cup {m_list_device[walk]}
  <2>2. PassedOver' \subseteq More
    BY <1>3, <2>1 DEF PassedOver
  <2>3. IsFiniteSet(PassedOver) /\ IsFiniteSet(steady')
    BY <1>1, <1>3, FS_Subset DEF PassedOver
  <2>4. /\ IsFiniteSet(More)
        /\ Cardinality(More) = Cardinality(PassedOver)
           \/ Cardinality(More) = Cardinality(PassedOver) + 1
    BY <2>3, FS_AddElement
  <2>5. /\ IsFiniteSet(PassedOver') /\ Cardinality(PassedOver') <= Cardinality(More)
    BY <2>2, <2>4, FS_Subset
  <2>6. /\ Cardinality(PassedOver) \in Nat /\ Cardinality(PassedOver') \in Nat
        /\ Cardinality(More) \in Nat
    BY <2>3, <2>4, <2>5, FS_CardinalityType
  <2> HIDE DEF More
  <2>7. shifted' = shifted + 1
    BY <1>2, <1>7
  <2>8. Cardinality(PassedOver)' <= shifted'
    BY <1>1, <2>4, <2>5, <2>6, <2>7
  <2> QED
    BY <1>1, <1>3, <2>3, <2>8 DEF WalkInv
<1> QED
  BY <1>1, <1>2, <1>6, <1>7

\* The devices of the list are finitely many.
LEMMA ListFinite ==
  ASSUME NEW q \in Seq(Devs)
  PROVE  IsFiniteSet(ToSet(q))
<1>1. Len(q) \in Nat /\ DOMAIN q = 1 .. Len(q)
  BY LenProperties
<1>2. IsFiniteSet(1 .. Len(q))
  BY <1>1, FS_Interval
<1>3. ToSet(q) = {q[i] : i \in 1 .. Len(q)}
  BY <1>1 DEF ToSet
<1> DEFINE f == [i \in 1 .. Len(q) |-> q[i]]
<1>4. f \in Surjection(1 .. Len(q), ToSet(q))
  BY <1>3 DEF Surjection
<1> QED
  BY <1>2, <1>4, FS_Surjection

\* The loop reports the device it is at; devices are added ahead of it.
LEMMA WalkNext ==
  ASSUME TypeOK, WalkInv, [Next]_vars
  PROVE  WalkInv'
<1> USE DEF mng, queue, loop, bound, Goto
<1>0. /\ m_list_device \in Seq(Devs) /\ Len(m_list_device) \in Nat
      /\ DOMAIN m_list_device = 1 .. Len(m_list_device) /\ walk \in Nat
      /\ shifted \in Nat
  BY LenProperties, UDPSvrAssumption DEF TypeOK
<1>1. CASE UdpRecv
  <2>1. CASE Head(inbox) = "all"
    <3>1. /\ walk' = 1 /\ steady' = ToSet(m_list_device)
          /\ UNCHANGED <<m_list_device, shifted>>
      BY <1>1, <2>1 DEF UdpRecv, FirstDev
    <3>2. IsFiniteSet(steady')
      BY <1>0, <3>1, ListFinite
    <3>3. \A d \in steady' : Ahead(d)'
      BY <1>0, <3>1 DEF ToSet, Ahead
    <3>4. PassedOver' = {}
      BY <3>3 DEF PassedOver
    <3>5. Cardinality(PassedOver)' <= shifted'
      BY <1>0, <3>1, <3>4, FS_EmptySet
    <3> QED
      BY <3>1, <3>2, <3>5 DEF WalkInv
  <2>2. CASE Head(inbox) # "all"
    <3>1. Head(inbox) \in Packets
      BY <1>1, HeadTailProperties DEF UdpRecv, TypeOK
    <3>2. upc' # "walk"
      BY <1>1, <2>2, <3>1 DEF UdpRecv, Packets, Accepts
    <3> QED
      BY <3>2 DEF WalkInv
  <2> QED
    BY <2>1, <2>2
<1>2. CASE UdpWalk
  <2>1. /\ upc = "walk" /\ walk' = walk + 1
        /\ reported' = reported \cup {m_list_device[walk]}
        /\ UNCHANGED <<steady, m_list_device, shifted>>
    BY <1>2 DEF UdpWalk
  <2>2. \A d \in steady \ reported' : Ahead(d) => Ahead(d)'
    BY <1>0, <2>1 DEF Ahead
  <2>3. PassedOver' \subseteq PassedOver
    BY <2>1, <2>2 DEF PassedOver
  <2> QED
    BY <1>0, <2>1, <2>3, NoMorePassed DEF WalkInv
<1>3. ASSUME NEW c \in Callers, NEW d \in Devs, AddDev(c, d) PROVE WalkInv'
  <2>1. /\ m_list_device' = Append(m_list_device, d)
        /\ UNCHANGED <<upc, walk, steady, reported, shifted>>
    BY <1>3 DEF AddDev
  <2>2. \A i \in DOMAIN m_list_device :
          i \in DOMAIN m_list_device' /\ m_list_device'[i] = m_list_device[i]
    BY <1>0, <2>1, AppendProperties
  <2>3. \A e \in steady : Ahead(e) => Ahead(e)'
    BY <2>1, <2>2 DEF Ahead
  <2>4. PassedOver' \subseteq PassedOver
    BY <2>1, <2>3 DEF PassedOver
  <2>5. CASE upc = "walk"
    BY <1>0, <2>1, <2>4, <2>5, NoMorePassed DEF WalkInv
  <2>6. CASE upc # "walk"
    BY <2>1, <2>6 DEF WalkInv
  <2> QED
    BY <2>5, <2>6
<1>4. ASSUME NEW c \in Callers, NEW d \in Devs, DelDev(c, d) PROVE WalkInv'
  <2>1. CASE upc = "walk"
    BY <1>4, <2>1, DelWalk
  <2>2. CASE upc # "walk"
    BY <1>4, <2>2 DEF DelDev, WalkInv
  <2> QED
    BY <2>1, <2>2
<1>5. ASSUME NEW c \in Callers, StartSvr(c) \/ StopJoin(c) PROVE WalkInv'
  BY <1>5 DEF StartSvr, StopJoin, WalkInv
<1>6. CASE UdpBind \/ UdpLoop \/ UdpClosed \/ UdpIdle \/ UdpSend \/ UdpDrained
           \/ UdpWalkDone \/ UdpLookup \/ UdpServe \/ UdpEnd \/ UdpFails
  <2>1. upc' # "walk"
    BY <1>6 DEF UdpBind, UdpBindFails, UdpLoop, UdpClosed, UdpSelectFails, UdpFails,
                UdpRecvFails, UdpIdle, UdpSend, UdpDrained, UdpWalkDone,
                UdpLookup, UdpServe, UdpEnd, AfterIdle
  <2> QED
    BY <2>1 DEF WalkInv
<1>7. ASSUME \/ UNCHANGED vars \/ ClientSend
             \/ \E c \in Callers : StopSvr(c) \/ NotifyLogin(c) \/ StopSignal(c)
                                   \/ NotifySend(c)
      PROVE  WalkInv'
  <2>1. UNCHANGED <<upc, walk, steady, reported, shifted, m_list_device>>
    BY <1>7 DEF vars, ClientSend, StopSvr, NotifyLogin, StopSignal, NotifySend
  <2> QED
    BY <2>1 DEF WalkInv, PassedOver, Ahead
<1> QED
  BY <1>1, <1>2, <1>3, <1>4, <1>5, <1>6, <1>7 DEF Next, UdpStep, CallerStep

\* The parts together.
LEMMA StepIInv == IInv /\ [Next]_vars => IInv'
  BY TypeNext, RunNext, ReplyNext, WalkNext DEF IInv

-----------------------------------------------------------------------------
(***************************************************************************)
(* Every step is one of ReplyQueue or leaves the queue alone.              *)
(***************************************************************************)
\* The numbers of a list of messages.
Numbers(q) == [i \in DOMAIN q |-> q[i].ssid]

\* The numbers of a list of messages are a list of numbers.
LEMMA NumbersType ==
  ASSUME NEW q \in Seq(MessageType)
  PROVE  /\ Numbers(q) \in Seq(Nat) /\ Len(Numbers(q)) = Len(q)
         /\ \A i \in 1 .. Len(q) : Numbers(q)[i] = q[i].ssid
<1>1. Len(q) \in Nat /\ DOMAIN q = 1 .. Len(q)
  BY LenProperties
<1>2. \A i \in 1 .. Len(q) : q[i].ssid \in Nat
  <2>1. \A i \in 1 .. Len(q) : q[i] \in MessageType
    BY ElementOfSeq
  <2> QED
    BY <2>1 DEF MessageType
<1>3. Numbers(q) = [i \in 1 .. Len(q) |-> q[i].ssid]
  BY <1>1 DEF Numbers
<1>4. Numbers(q) \in Seq(Nat)
  BY <1>1, <1>2, <1>3, SeqDef
<1> QED
  BY <1>1, <1>3, <1>4, LenProperties

\* A message more is a number more.
LEMMA NumbersAppend ==
  ASSUME NEW q \in Seq(MessageType), NEW m \in MessageType
  PROVE  Numbers(Append(q, m)) = Append(Numbers(q), m.ssid)
<1>1. /\ Append(q, m) \in Seq(MessageType) /\ Len(Append(q, m)) = Len(q) + 1
      /\ \A i \in 1 .. Len(q) : Append(q, m)[i] = q[i]
      /\ Append(q, m)[Len(q) + 1] = m /\ Len(q) \in Nat
  BY AppendProperties, LenProperties
<1>2. m.ssid \in Nat
  BY DEF MessageType
<1>3. /\ Numbers(q) \in Seq(Nat) /\ Len(Numbers(q)) = Len(q)
      /\ \A i \in 1 .. Len(q) : Numbers(q)[i] = q[i].ssid
  BY NumbersType
<1>4. /\ Numbers(Append(q, m)) \in Seq(Nat) /\ Len(Numbers(Append(q, m))) = Len(q) + 1
      /\ \A i \in 1 .. Len(q) + 1 : Numbers(Append(q, m))[i] = Append(q, m)[i].ssid
  BY <1>1, NumbersType
<1>5. /\ Append(Numbers(q), m.ssid) \in Seq(Nat)
      /\ Len(Append(Numbers(q), m.ssid)) = Len(q) + 1
      /\ \A i \in 1 .. Len(q) : Append(Numbers(q), m.ssid)[i] = q[i].ssid
      /\ Append(Numbers(q), m.ssid)[Len(q) + 1] = m.ssid
  BY <1>2, <1>3, AppendProperties
<1>6. \A i \in 1 .. Len(q) + 1 :
        Numbers(Append(q, m))[i] = Append(Numbers(q), m.ssid)[i]
  <2>1. ASSUME NEW i \in 1 .. Len(q)
        PROVE  Numbers(Append(q, m))[i] = Append(Numbers(q), m.ssid)[i]
    <3>1. i \in 1 .. Len(q) + 1
      BY <1>1
    <3>2. Numbers(Append(q, m))[i] = q[i].ssid
      BY <1>1, <1>4, <3>1
    <3> QED
      BY <1>5, <3>2
  <2>2. Numbers(Append(q, m))[Len(q) + 1] = Append(Numbers(q), m.ssid)[Len(q) + 1]
    <3>1. Len(q) + 1 \in 1 .. Len(q) + 1
      BY <1>1
    <3>2. Numbers(Append(q, m))[Len(q) + 1] = m.ssid
      BY <1>1, <1>4, <3>1
    <3> QED
      BY <1>5, <3>2
  <2>3. \A i \in 1 .. Len(q) + 1 : i \in 1 .. Len(q) \/ i = Len(q) + 1
    BY <1>1
  <2> QED
    BY <2>1, <2>2, <2>3
<1> QED
  BY <1>4, <1>5, <1>6, SeqEqual

\* Without the first message the first number is gone.
LEMMA NumbersTail ==
  ASSUME NEW q \in Seq(MessageType), q # <<>>
  PROVE  /\ Numbers(q) # <<>> /\ Head(Numbers(q)) = Head(q).ssid
         /\ Numbers(Tail(q)) = Tail(Numbers(q))
<1>1. /\ Tail(q) \in Seq(MessageType) /\ Len(q) \in Nat \ {0} /\ Head(q) = q[1]
      /\ Len(Tail(q)) = Len(q) - 1
      /\ \A i \in 1 .. Len(q) - 1 : Tail(q)[i] = q[i + 1]
  BY HeadTailProperties, LenProperties, EmptySeq
<1>2. /\ Numbers(q) \in Seq(Nat) /\ Len(Numbers(q)) = Len(q)
      /\ \A i \in 1 .. Len(q) : Numbers(q)[i] = q[i].ssid
  BY NumbersType
<1>3. Numbers(q) # <<>> /\ Head(Numbers(q)) = Head(q).ssid
  BY <1>1, <1>2, HeadTailProperties, EmptySeq
<1>4. /\ Numbers(Tail(q)) \in Seq(Nat) /\ Len(Numbers(Tail(q))) = Len(q) - 1
      /\ \A i \in 1 .. Len(q) - 1 : Numbers(Tail(q))[i] = Tail(q)[i].ssid
  BY <1>1, NumbersType
<1>5. /\ Tail(Numbers(q)) \in Seq(Nat) /\ Len(Tail(Numbers(q))) = Len(q) - 1
      /\ \A i \in 1 .. Len(q) - 1 : Tail(Numbers(q))[i] = q[i + 1].ssid
  BY <1>1, <1>2, <1>3, HeadTailProperties
<1>6. \A i \in 1 .. Len(q) - 1 : Numbers(Tail(q))[i] = Tail(Numbers(q))[i]
  BY <1>1, <1>4, <1>5
<1>7. Numbers(Tail(q)) = Tail(Numbers(q))
  BY <1>1, <1>4, <1>5, <1>6, SeqEqual
<1> QED
  BY <1>3, <1>7

\* The numbers of the messages that wait, as RQ sees them.
waiting == Numbers(m_list_msg_send)

\* Queueing a message appends its number.
LEMMA SendRefines ==
  ASSUME TypeOK, NEW a \in BOOLEAN, FrameSend(a), UNCHANGED last_sent
  PROVE  RQ!Queue \/ UNCHANGED <<waiting, m_ssid, last_sent>>
<1>1. m_list_msg_send \in Seq(MessageType) /\ m_ssid \in Nat /\ runs \in Nat
  BY UDPSvrAssumption DEF TypeOK
<1>2. CASE flg_online
  <2> DEFINE m == Message(a)
  <2>1. m_list_msg_send' = Append(m_list_msg_send, m) /\ m_ssid' = m_ssid + 1
    BY <1>2 DEF FrameSend, Enqueue
  <2>2. m \in MessageType /\ m.ssid = m_ssid
    BY <1>1 DEF Message, MessageType
  <2>3. waiting' = Append(waiting, m_ssid)
    BY <1>1, <2>1, <2>2, NumbersAppend DEF waiting
  <2> QED
    BY <2>1, <2>3 DEF RQ!Queue, waiting, Numbers
<1>3. CASE ~flg_online
  BY <1>3 DEF FrameSend, queue, waiting, Numbers
<1> QED
  BY <1>2, <1>3

\* The other steps take a message out, drop them all or touch none.
LEMMA StepRefines ==
  ASSUME TypeOK, [Next]_vars
  PROVE  RQ!Next \/ UNCHANGED <<waiting, m_ssid, last_sent>>
<1> USE DEF mng, queue, loop, bound
<1>1. ASSUME UdpWalk \/ UdpServe \/ \E c \in Callers : NotifySend(c)
      PROVE  RQ!Next \/ UNCHANGED <<waiting, m_ssid, last_sent>>
  <2>1. (FrameSend(TRUE) \/ FrameSend(FALSE)) /\ UNCHANGED last_sent
    BY <1>1 DEF UdpWalk, UdpServe, NotifySend
  <2> QED
    BY <2>1, SendRefines DEF RQ!Next
<1>2. CASE UdpSend
  <2>1. /\ m_list_msg_send \in Seq(MessageType) /\ m_list_msg_send # <<>>
        /\ m_list_msg_send' = Tail(m_list_msg_send) /\ m_ssid' = m_ssid
        /\ last_sent' = IF m_sock THEN Head(m_list_msg_send).ssid + 1 ELSE last_sent
    BY <1>2 DEF UdpSend, TypeOK
  <2>2. /\ waiting # <<>> /\ Head(waiting) = Head(m_list_msg_send).ssid
        /\ waiting' = Tail(waiting)
    BY <2>1, NumbersTail DEF waiting
  <2> QED
    BY <2>1, <2>2 DEF RQ!Next, RQ!Leave, RQ!Lose, waiting, Numbers
<1>3. ASSUME NEW c \in Callers, StopJoin(c)
      PROVE  RQ!Next
  <2>1. m_list_msg_send' = <<>> /\ UNCHANGED <<m_ssid, last_sent>>
    BY <1>3 DEF StopJoin, ResetData
  <2>2. waiting' = <<>>
    BY <2>1 DEF waiting, Numbers
  <2> QED
    BY <2>1, <2>2 DEF RQ!Next, RQ!Drop, waiting, Numbers
<1>4. ASSUME \/ UNCHANGED vars \/ UdpBind \/ UdpLoop \/ UdpClosed \/ UdpIdle
             \/ UdpDrained \/ UdpRecv \/ UdpWalkDone \/ UdpLookup \/ UdpEnd
             \/ UdpFails \/ ClientSend
             \/ \E c \in Callers : StartSvr(c) \/ StopSvr(c) \/ NotifyLogin(c)
                                   \/ StopSignal(c)
             \/ \E c \in Callers, d \in Devs : AddDev(c, d) \/ DelDev(c, d)
      PROVE  UNCHANGED <<waiting, m_ssid, last_sent>>
  <2>1. UNCHANGED <<m_list_msg_send, m_ssid, last_sent>>
    BY <1>4 DEF vars, UdpFails, UdpBind, UdpBindFails, UdpLoop, UdpClosed,
                UdpSelectFails, UdpRecvFails, UdpIdle, UdpDrained, UdpRecv,
                UdpWalkDone, UdpLookup, UdpEnd, ClientSend, StartSvr, StopSvr,
                NotifyLogin, StopSignal, AddDev, DelDev
  <2> QED
    BY <2>1 DEF waiting, Numbers
<1> QED
  BY <1>1, <1>2, <1>3, <1>4 DEF Next, UdpStep, CallerStep

-----------------------------------------------------------------------------
(***************************************************************************)
(* The theorems.                                                           *)
(***************************************************************************)

\* IInv holds in every reachable state.
THEOREM Invariance == Spec => []IInv
  BY InitIInv, StepIInv, PTL DEF Spec

\* Every variable has its type and no device is in the list twice.
THEOREM TypeCorrect == Spec => []TypeOK
  BY Invariance, PTL DEF IInv

\* The exit event never ends a thread it was not raised for.
THEOREM FreshExit == Spec => []NoStaleExit
  BY Invariance, PTL DEF IInv

\* No reply is sent after the server was started again.
THEOREM OwnRun == Spec => []NoReplyOfEarlierRun
  BY Invariance, PTL DEF IInv

\* However many devices there are, and whatever is added and deleted while the
\* loop over all goes through the list, of the devices that stay in it no more
\* are passed over than others were deleted behind the loop.
THEOREM Reported == Spec => []PassedOverByDeletion
<1>1. IInv => PassedOverByDeletion
  <2> SUFFICES ASSUME IInv, upc = "walk", walk > Len(m_list_device)
               PROVE  Cardinality(steady \ reported) <= shifted
    BY DEF PassedOverByDeletion
  <2>1. \A d \in steady : ~Ahead(d)
    BY LenProperties DEF IInv, TypeOK, Ahead
  <2>2. PassedOver = steady \ reported
    BY <2>1 DEF PassedOver
  <2> QED
    BY <2>2 DEF IInv, WalkInv
<1> QED
  BY <1>1, Invariance, PTL

\* Where nothing is deleted behind the loop, every device is reported.
COROLLARY AllReportedUnlessShifted ==
  Spec => [](shifted = 0 => AllReported)
<1>1. IInv /\ PassedOverByDeletion /\ shifted = 0 => AllReported
  <2> SUFFICES ASSUME IInv, PassedOverByDeletion, shifted = 0,
                      upc = "walk", walk > Len(m_list_device)
               PROVE  steady \subseteq reported
    BY DEF AllReported
  <2>1. IsFiniteSet(steady \ reported)
    BY FS_Subset DEF IInv, WalkInv
  <2>2. Cardinality(steady \ reported) = 0
    BY <2>1, FS_CardinalityType DEF PassedOverByDeletion
  <2> QED
    BY <2>1, <2>2, FS_EmptySet
<1> QED
  BY <1>1, Invariance, Reported, PTL

\* Messages leave in the order of their numbers, each at most once.
THEOREM Refinement == Spec => ImplementsReplyQueue
<1>1. Init => RQ!Init
  BY DEF Init, RQ!Init
<1>2. IInv /\ [Next]_vars => [RQ!Next]_<<waiting, m_ssid, last_sent>>
  BY StepRefines DEF IInv
<1> QED
  BY <1>1, <1>2, Invariance, PTL DEF Spec, ImplementsReplyQueue, RQ!Spec, waiting, Numbers

-----------------------------------------------------------------------------
(***************************************************************************)
(* Who waits for whom: what the liveness properties rest on.  stopSvr, and *)
(* every other thread that needs m_lock_sock, waits for the server's       *)
(* thread; the thread waits for nobody but in GetDevByID, and there for    *)
(* the owner of the list mutex, which is a thread in stopSvr.              *)
(***************************************************************************)
\* The thread holds m_lock_sock while it works at a request, and until its
\* end after a packet with a wrong checksum.
HoldInv ==
  /\ m_lock_sock = Udp => upc \in {"walk", "lookup", "serve", "end"}
  /\ upc \in {"walk", "lookup", "serve"} => m_lock_sock = Udp

\* The list mutex is held by who is in stopSvr, of a server that runs; once
\* the exit event was raised and the socket closed, the thread will see one
\* or the other before it could take another request.
StopInv ==
  \A c \in Callers :
    /\ pc[c] \in {"signal", "join"} <=> m_mutex_listdev = c
    /\ pc[c] \in {"signal", "join"} => m_flg_running
    /\ pc[c] = "join" =>
         /\ m_lock_sock = None
         /\ upc \in {"bind", "loop", "drain"} => flg_event_exit
         /\ upc \in {"select", "drain"} => ~m_sock

\* The thread is on the way to release m_lock_sock, and nothing it still
\* does needs another lock.
WillRelease == upc \in {"walk", "serve", "end"}

\* The only threads that wait for each other are the server's, in
\* GetDevByID, and one in stopSvr that has not signalled yet.
OneCircle ==
  \A c \in Callers :
    /\ pc[c] = "signal" => m_lock_sock = None \/ WillRelease \/ Stuck(c)
    /\ pc[c] = "join" =>
         m_lock_sock = None /\ upc \in {"bind", "loop", "select", "drain", "end", "exited"}
    /\ pc[c] = "notify" =>
         \/ m_lock_sock = None \/ WillRelease
         \/ upc = "lookup" /\ (m_mutex_listdev = None \/ \E d \in Callers : Stuck(d))

\* How many of its steps the thread has before it at most, once stopSvr has
\* signalled: it sends what is queued, sees the event and ends.
StepsLeft ==
  CASE upc = "drain" -> Len(m_list_msg_send) + 3
    [] upc = "bind" -> 3
    [] upc = "loop" -> 2
    [] upc \in {"select", "end"} -> 1
    [] OTHER -> 0

\* Every step of the thread that stopSvr waits for brings it nearer to its
\* end, whatever it was doing when it was told to stop.
StepsNearer ==
  (\E c \in Callers : pc[c] = "join") /\ (UdpStep \/ UdpFails) => StepsLeft' < StepsLeft

\* Nothing ends the circle once it has closed.
StuckStays == \A c \in Callers : Stuck(c) => Stuck(c)'

\* A step of the server's thread keeps both: it cannot take a request while
\* it is waited for, as it would need the socket.
LEMMA WaitUdp ==
  ASSUME IInv, HoldInv, StopInv, UdpStep \/ UdpFails
  PROVE  HoldInv' /\ StopInv'
<1> USE UDPSvrAssumption DEF mng
<1>1. /\ UNCHANGED <<m_mutex_listdev, m_flg_running, pc>>
      /\ \A c \in Callers : pc[c] = "join" => upc \notin {"walk", "lookup", "serve"}
      /\ None # Udp
  BY DEF HoldInv, StopInv, UdpStep, UdpFails, UdpBind, UdpBindFails, UdpLoop,
         UdpClosed, UdpSelectFails, UdpRecvFails, UdpIdle, UdpSend, UdpDrained,
         UdpRecv, UdpWalk, UdpWalkDone, UdpLookup, UdpServe, UdpEnd
<1>2. CASE UdpBind \/ UdpBindFails \/ UdpLoop \/ UdpClosed
  BY <1>1, <1>2 DEF HoldInv, StopInv, UdpBind, UdpBindFails, UdpLoop, UdpClosed
<1>3. CASE UdpSelectFails \/ UdpRecvFails \/ UdpIdle
  BY <1>1, <1>3 DEF HoldInv, StopInv, UdpSelectFails, UdpRecvFails, UdpIdle, AfterIdle
<1>4. CASE UdpSend \/ UdpDrained
  BY <1>1, <1>4 DEF HoldInv, StopInv, UdpSend, UdpDrained
<1>5. CASE UdpRecv
  <2>1. Head(inbox) \in Packets
    BY <1>5, HeadTailProperties DEF UdpRecv, IInv, TypeOK
  <2>2. HoldInv'
    BY <1>1, <1>5, <2>1 DEF HoldInv, UdpRecv, Packets, Accepts
  <2>3. \A c \in Callers : pc[c] # "join"
    BY <1>5 DEF StopInv, UdpRecv
  <2> QED
    BY <1>1, <2>2, <2>3 DEF StopInv
<1>6. CASE UdpWalk \/ UdpWalkDone
  BY <1>1, <1>6 DEF HoldInv, StopInv, UdpWalk, UdpWalkDone
<1>7. CASE UdpLookup \/ UdpServe
  BY <1>1, <1>7 DEF HoldInv, StopInv, UdpLookup, UdpServe
<1>8. CASE UdpEnd
  BY <1>1, <1>8 DEF HoldInv, StopInv, UdpEnd
<1> QED
  BY <1>2, <1>3, <1>4, <1>5, <1>6, <1>7, <1>8 DEF UdpStep, UdpFails

\* So does a step of another thread, or of a client.
LEMMA WaitOthers ==
  ASSUME IInv, HoldInv, StopInv,
         \/ ClientSend
         \/ \E c \in Callers : StartSvr(c) \/ StopSvr(c) \/ NotifyLogin(c) \/ CallerStep(c)
         \/ \E c \in Callers, d \in Devs : AddDev(c, d) \/ DelDev(c, d)
  PROVE  HoldInv' /\ StopInv'
<1> USE UDPSvrAssumption DEF mng
<1>1. /\ None # Udp /\ None \notin Callers
      /\ pc \in [Callers -> {"idle", "signal", "join", "notify"}]
      /\ m_flg_running <=> upc # "none"
  BY DEF IInv, TypeOK, RunInv
<1>2. ASSUME NEW c \in Callers, StartSvr(c) PROVE HoldInv' /\ StopInv'
  BY <1>1, <1>2 DEF HoldInv, StopInv, StartSvr
<1>3. ASSUME NEW c \in Callers, StopSvr(c) PROVE HoldInv' /\ StopInv'
  BY <1>1, <1>3 DEF HoldInv, StopInv, StopSvr, Goto
<1>4. ASSUME NEW c \in Callers, StopSignal(c) PROVE HoldInv' /\ StopInv'
  BY <1>1, <1>4 DEF HoldInv, StopInv, StopSignal, SignalStop, Goto
<1>5. ASSUME NEW c \in Callers, StopJoin(c) PROVE HoldInv' /\ StopInv'
  BY <1>1, <1>5 DEF HoldInv, StopInv, StopJoin, Goto
<1>6. ASSUME NEW c \in Callers, NotifyLogin(c) \/ NotifySend(c)
      PROVE  HoldInv' /\ StopInv'
  <2>1. /\ UNCHANGED <<mng, m_lock_sock, m_sock, flg_event_exit, upc>>
        /\ \A d \in Callers, l \in {"signal", "join"} : pc'[d] = l <=> pc[d] = l
    BY <1>1, <1>6 DEF NotifyLogin, NotifySend, Goto
  <2> QED
    BY <2>1 DEF HoldInv, StopInv
<1>7. ASSUME \/ ClientSend
             \/ \E c \in Callers, d \in Devs : AddDev(c, d) \/ DelDev(c, d)
      PROVE  HoldInv' /\ StopInv'
  BY <1>7 DEF HoldInv, StopInv, ClientSend, AddDev, DelDev
<1> QED
  BY <1>2, <1>3, <1>4, <1>5, <1>6, <1>7 DEF CallerStep

\* Both hold in every reachable state.
LEMMA WaitInvariance == Spec => [](IInv /\ HoldInv /\ StopInv)
<1>1. Init => HoldInv /\ StopInv
  BY UDPSvrAssumption DEF Init, HoldInv, StopInv
<1>2. IInv /\ HoldInv /\ StopInv /\ [Next]_vars => HoldInv' /\ StopInv'
  <2>1. HoldInv /\ StopInv /\ UNCHANGED vars => HoldInv' /\ StopInv'
    BY DEF vars, mng, HoldInv, StopInv
  <2> QED
    BY <2>1, WaitUdp, WaitOthers DEF Next
<1> QED
  BY <1>1, <1>2, Invariance, PTL DEF Spec

\* Whatever the number of threads and devices, the one circle they can close
\* is the one of stopSvr and a request for one device: apart from it, who
\* waits for m_lock_sock waits for a thread that is about to release it, and
\* stopSvr joins a thread that waits for nothing.
THEOREM OneCircleOnly == Spec => []OneCircle
<1>1. IInv /\ HoldInv /\ StopInv => OneCircle
  <2> SUFFICES ASSUME IInv, HoldInv, StopInv PROVE OneCircle
    OBVIOUS
  <2>1. /\ m_lock_sock \in {Udp, None} /\ m_mutex_listdev \in Callers \cup {None}
        /\ m_flg_running => upc # "none"
        /\ upc \in {"none", "bind", "loop", "select", "drain", "walk", "lookup",
                    "serve", "end", "exited"}
        /\ Udp # None
    BY UDPSvrAssumption DEF IInv, TypeOK, RunInv
  <2>2. ASSUME NEW c \in Callers, pc[c] = "signal"
        PROVE  m_lock_sock = None \/ WillRelease \/ Stuck(c)
    BY <2>1, <2>2 DEF HoldInv, StopInv, WillRelease, Stuck
  <2>3. ASSUME NEW c \in Callers, pc[c] = "join"
        PROVE  m_lock_sock = None /\ upc \in {"bind", "loop", "select", "drain", "end", "exited"}
    BY <2>1, <2>3 DEF HoldInv, StopInv
  <2>4. ASSUME m_lock_sock = Udp, upc = "lookup", m_mutex_listdev # None
        PROVE  \E d \in Callers : Stuck(d)
    BY <2>1, <2>4 DEF HoldInv, StopInv, Stuck
  <2>5. m_lock_sock = None \/ WillRelease \/ upc = "lookup"
    BY <2>1 DEF HoldInv, WillRelease
  <2> QED
    BY <2>1, <2>2, <2>3, <2>4, <2>5 DEF OneCircle
<1> QED
  BY <1>1, WaitInvariance, PTL

\* Once stopSvr has signalled, each step of the thread is one less to wait
\* for: the safety content of StopSvrReturns.
THEOREM JoinedServerEnds == Spec => [][StepsNearer]_vars
<1>1. IInv /\ HoldInv /\ StopInv => StepsNearer
  <2> SUFFICES ASSUME IInv, HoldInv, StopInv, NEW c \in Callers, pc[c] = "join",
                      UdpStep \/ UdpFails
               PROVE  StepsLeft' < StepsLeft
    BY DEF StepsNearer
  <2>1. /\ upc \notin {"walk", "lookup", "serve"}
        /\ upc \in {"bind", "loop", "drain"} => flg_event_exit
        /\ upc \in {"select", "drain"} => ~m_sock
    BY UDPSvrAssumption DEF HoldInv, StopInv
  <2>2. CASE UdpBind \/ UdpBindFails \/ UdpLoop \/ UdpEnd
    BY <2>1, <2>2 DEF StepsLeft, UdpBind, UdpBindFails, UdpLoop, UdpEnd
  <2>3. CASE UdpClosed \/ UdpSelectFails \/ UdpRecvFails \/ UdpIdle \/ UdpRecv
    BY <2>1, <2>3 DEF StepsLeft, UdpClosed, UdpSelectFails, UdpRecvFails, UdpIdle, UdpRecv
  <2>4. CASE UdpSend \/ UdpDrained
    <3>1. m_list_msg_send \in Seq(MessageType)
      BY DEF IInv, TypeOK
    <3>2. Len(m_list_msg_send) \in Nat
      BY <3>1, LenProperties
    <3>3. m_list_msg_send # <<>> =>
            Len(Tail(m_list_msg_send)) = Len(m_list_msg_send) - 1
      BY <3>1, HeadTailProperties
    <3> QED
      BY <2>4, <3>2, <3>3 DEF StepsLeft, UdpSend, UdpDrained
  <2>5. CASE UdpWalk \/ UdpWalkDone \/ UdpLookup \/ UdpServe
    BY <2>1, <2>5 DEF UdpWalk, UdpWalkDone, UdpLookup, UdpServe
  <2> QED
    BY <2>2, <2>3, <2>4, <2>5 DEF UdpStep, UdpFails
<1> QED
  BY <1>1, WaitInvariance, PTL

\* And the circle is a real deadlock: once closed, no step of any thread
\* opens it, so the server and every thread that needs the device list stop.
THEOREM StuckForGood == Spec => [][StuckStays]_vars
<1>1. IInv /\ HoldInv /\ [Next]_vars => StuckStays
  <2> SUFFICES ASSUME IInv, HoldInv, [Next]_vars, NEW c \in Callers, Stuck(c)
               PROVE  Stuck(c)'
    BY DEF StuckStays
  <2> USE UDPSvrAssumption DEF Stuck
  <2>1. /\ m_lock_sock = Udp /\ m_mutex_listdev = c /\ upc = "lookup"
        /\ pc[c] = "signal" /\ None # Udp /\ None # c
        /\ pc \in [Callers -> {"idle", "signal", "join", "notify"}]
    BY DEF IInv, TypeOK, HoldInv
  <2>2. ~UdpStep /\ ~UdpFails
    BY <2>1 DEF UdpStep, UdpFails, UdpBind, UdpBindFails, UdpLoop, UdpClosed,
                UdpSelectFails, UdpRecvFails, UdpIdle, UdpSend, UdpDrained,
                UdpRecv, UdpWalk, UdpWalkDone, UdpLookup, UdpServe, UdpEnd
  <2>3. CASE ClientSend \/ UNCHANGED vars
    BY <2>1, <2>3 DEF ClientSend, vars, mng
  <2>4. ASSUME NEW d \in Callers,
               StartSvr(d) \/ StopSvr(d) \/ NotifyLogin(d) \/ StopSignal(d) \/ StopJoin(d)
        PROVE  FALSE
    BY <2>1, <2>4 DEF StartSvr, StopSvr, NotifyLogin, StopSignal, StopJoin
  <2>5. ASSUME NEW d \in Callers, NotifySend(d) PROVE Stuck(c)'
    BY <2>1, <2>5 DEF NotifySend, Goto, mng
  <2>6. ASSUME NEW d \in Callers, NEW e \in Devs, AddDev(d, e) \/ DelDev(d, e)
        PROVE  FALSE
    BY <2>1, <2>6 DEF AddDev, DelDev
  <2> QED
    BY <2>2, <2>3, <2>4, <2>5, <2>6 DEF Next, CallerStep
<1> QED
  BY <1>1, WaitInvariance, PTL DEF Spec
=============================================================================
