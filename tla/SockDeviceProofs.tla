-------------------------- MODULE SockDeviceProofs --------------------------
(***************************************************************************)
(* Proofs about SockDevice, for any number of callers and relays, any      *)
(* delays and any bounds: relays that are on are timed, and every request  *)
(* gets its own answer until a caller gives up on an answer that is still  *)
(* under way; then the session is out of step until the next login.        *)
(*                                                                         *)
(* The argument.  Whoever asks holds the device lock (LockInv), so one     *)
(* request at a time is waited for.  Answers do not say what they answer;  *)
(* but at any moment at most one frame of the session is a request to be   *)
(* answered or an answer, wherever it is on its way, and it belongs to the *)
(* caller that waits (InStep): a login begins with nothing under way, and  *)
(* a caller that gives up when nothing of its kind is under way leaves     *)
(* nothing behind.  LateStep is the one step that does.                    *)
(***************************************************************************)
EXTENDS SockDevice, SeqLemmas

-----------------------------------------------------------------------------
(***************************************************************************)
(* The inductive invariant.                                                *)
(***************************************************************************)
Asking == {"sent", "wait"}

\* Whoever is inside a request or in SetDOAuto has the device lock.
LockInv == \A c \in Callers : pc[c] \in Asking \cup {"auto", "next"} => m_lock = c

\* What a caller is waiting for: a request that has an answer, a SetDO as
\* long as its timer is not set; in SetDOAuto it knows the relay.
TodoInv ==
  \A c \in Callers :
    /\ pc[c] \in Asking => todo[c] # <<>> /\ Head(todo[c]).ssid # "power"
    /\ pc[c] = "sent" => Head(todo[c]).ssid = "set"
    /\ pc[c] = "auto" => auto[c] # None

\* The client thread has a frame after it read one, and timers to start
\* between looking at the relays and starting them.
ThreadInv ==
  /\ IF mc = "recv" THEN frame = None ELSE frame # None
  /\ armed # {} => mc = "arm"

\* Nothing is under way without a session.
SessionInv == ~online => mc = "recv" /\ req = <<>> /\ rsp = <<>>

\* SetDO starts the timer before it waits; before it clears the timer it has
\* ordered the relay off.
TimedInv ==
  \A c \in Callers :
    /\ pc[c] = "sent" /\ Head(todo[c]).on = {} => Head(todo[c]).what \notin commanded
    /\ pc[c] = "wait" /\ Head(todo[c]).ssid = "set" /\ Head(todo[c]).on # {}
         => m_Do_count[Head(todo[c]).what] > 0

\* A relay shown on is timed, about to be, or was ordered off.
ShownInv ==
  \A i \in DO :
    m_DO[i] = 1 => \/ m_Do_count[i] > 0
                   \/ i \in unsure
                   \/ \E t \in 1 .. now : <<i, t>> \in armed

\* Frames of requests that are waited for, the others, and those the caller
\* that waits asked for.
Waited == {x \in Frame : x.ssid \in {"set", "do", "di", "ai", "reg"}}
Others == Frame \ Waited

Asks(c, x) ==
  /\ pc[c] \in Asking
  /\ x.ssid = Head(todo[c]).ssid /\ x.what = Head(todo[c]).what
  /\ x.ssid = "set" => x.on = Head(todo[c]).on

Own == {x \in Waited : \E c \in Callers : Asks(c, x)}

\* At most one frame to be waited for is in q.
One(q) == Single(q, Waited)

\* Nothing to be waited for is in q.
Free(q) == q \in Seq(Others)

OneInFlight ==
  /\ req \in Seq(Others \cup Own) /\ rsp \in Seq(Others \cup Own)
  /\ m_list_msg_recv \in Seq(Others \cup Own)
  /\ frame \in Others \cup Own \cup {None}
  /\ One(req) /\ One(rsp) /\ One(m_list_msg_recv)
  /\ ~Free(req) => Free(rsp) /\ frame \notin Waited /\ Free(m_list_msg_recv)
  /\ ~Free(rsp) => frame \notin Waited /\ Free(m_list_msg_recv)
  /\ frame \in Waited => Free(m_list_msg_recv)

InStep == online => OneInFlight

\* A caller gives up although the answer is still to come.
LateStep == \E c \in Callers : Timeout(c) /\ online /\ Coming(Head(todo[c]))

IInv ==
  /\ TypeOK /\ LockInv /\ TodoInv /\ ThreadInv /\ SessionInv
  /\ TimedInv /\ CommandedOnIsTimed /\ ShownInv

-----------------------------------------------------------------------------
(***************************************************************************)
(* Requests and frames.                                                    *)
(***************************************************************************)

\* The bounds are numbers.
LEMMA Bounds ==
  /\ None \notin Callers /\ Delay \in Nat /\ Delays \subseteq Nat
  /\ BufNum \in Nat \ {0} /\ MaxTime \in Nat \ {0} /\ MaxWire \in Nat \ {0}
  BY SockDeviceAssumption, Zenon

\* What the kind of a request says about its subject and the relays in it.
LEMMA RequestFacts ==
  \A x \in Requests :
    /\ x \in Frame
    /\ x.ssid \in {"set", "do", "di", "ai", "reg", "power"}
    /\ x.ssid = "set" => x.what \in DO /\ x.on \subseteq {x.what}
    /\ x.ssid # "set" => x.what \notin DO /\ x.on = {}
    /\ x.ssid = "reg" => x.what \in Reg
    /\ x.ssid = "do" => x = GetDO
    /\ x.ssid = "power" <=> x = ResetPower
<1> SUFFICES ASSUME NEW x \in Requests
             PROVE  /\ x \in Frame
                    /\ x.ssid \in {"set", "do", "di", "ai", "reg", "power"}
                    /\ x.ssid = "set" => x.what \in DO /\ x.on \subseteq {x.what}
                    /\ x.ssid # "set" => x.what \notin DO /\ x.on = {}
                    /\ x.ssid = "reg" => x.what \in Reg
                    /\ x.ssid = "do" => x = GetDO
                    /\ x.ssid = "power" <=> x = ResetPower
  OBVIOUS
<1> x \in Frame
  BY DEF Frame
<1>1. CASE \E i \in DO, v \in {0, 1} : x = SetDO(i, v)
  BY <1>1 DEF SetDO, GetDO, ResetPower
<1>2. CASE \E r \in Reg : x = GetReg(r)
  BY <1>2, SockDeviceAssumption DEF GetReg, GetDO, ResetPower, Reg
<1>3. CASE x \in {GetDO, GetDI, GetAI, ResetPower}
  BY <1>3, SockDeviceAssumption DEF GetDO, GetDI, GetAI, ResetPower
<1> QED
  BY <1>1, <1>2, <1>3 DEF Requests

\* The same of frames, which may also be beats and reports of the relays.
LEMMA FrameFacts ==
  /\ Beat \in Frame /\ Beat.ssid = "beat"
  /\ \A x \in Frame :
       /\ x.ssid \in {"set", "do", "di", "ai", "reg", "power", "beat"}
       /\ x.on \subseteq DO
       /\ x.ssid = "set" => x.what \in DO /\ x.on \subseteq {x.what}
       /\ x.ssid = "reg" => x.what \in Reg
<1>1. Beat \in Frame /\ Beat.ssid = "beat" /\ Beat.on = {}
  BY DEF Frame, Beat
<1>2. ASSUME NEW s \in SUBSET DO
      PROVE  /\ [GetDO EXCEPT !.on = s].ssid = "do"
             /\ [GetDO EXCEPT !.on = s].on = s
  BY DEF GetDO
<1>3. ASSUME NEW x \in Frame
      PROVE  /\ x.ssid \in {"set", "do", "di", "ai", "reg", "power", "beat"}
             /\ x.on \subseteq DO
             /\ x.ssid = "set" => x.what \in DO /\ x.on \subseteq {x.what}
             /\ x.ssid = "reg" => x.what \in Reg
  <2>1. CASE x \in Requests
    BY <2>1, RequestFacts
  <2>2. CASE x = Beat
    BY <2>2, <1>1
  <2>3. CASE \E s \in SUBSET DO : x = [GetDO EXCEPT !.on = s]
    BY <2>3, <1>2
  <2> QED
    BY <2>1, <2>2, <2>3 DEF Frame
<1> QED
  BY <1>1, <1>3

\* The device answers with a frame about the same.
LEMMA ReplyFacts ==
  ASSUME NEW q \in Requests, relay \subseteq DO
  PROVE  /\ Reply(q) \in Frame /\ Reply(q).ssid = q.ssid
         /\ Reply(q).what = q.what
         /\ q.ssid = "set" => Reply(q).on = q.on
<1>1. CASE q.ssid = "do"
  <2>1. q = GetDO
    BY <1>1, RequestFacts
  <2>2. Reply(q) = [GetDO EXCEPT !.on = relay]
    BY <1>1, <2>1 DEF Reply
  <2>3. Reply(q) \in Frame
    BY <2>2 DEF Frame
  <2> QED
    BY <2>1, <2>2, <2>3 DEF GetDO
<1>2. CASE q.ssid # "do"
  BY <1>2, RequestFacts DEF Reply
<1> QED
  BY <1>1, <1>2

\* The group of RefreshData consists of requests.
LEMMA RefreshType == RefreshData \in Seq(Requests)
  BY DEF RefreshData, Requests, GetDI, GetAI, GetDO, GetReg, Reg

\* AddTail keeps the message list below SOCK_MSG_BUFNUM.
LEMMA AddTailType ==
  ASSUME NEW S, NEW q \in Seq(S), Len(q) < BufNum, NEW m \in S
  PROVE  AddTail(q, m) \in Seq(S) /\ Len(AddTail(q, m)) < BufNum
<1>1. /\ Append(q, m) \in Seq(S) /\ Append(q, m) # <<>>
      /\ Len(Append(q, m)) = Len(q) + 1
  BY AppendProperties
<1>2. Tail(Append(q, m)) \in Seq(S) /\ Len(Tail(Append(q, m))) = Len(q)
  BY <1>1, HeadTailProperties, LenProperties
<1>3. QED
  BY <1>1, <1>2, SockDeviceAssumption, LenProperties DEF AddTail

-----------------------------------------------------------------------------
(***************************************************************************)
(* The steps keep the types.                                               *)
(***************************************************************************)

\* The initial states are in the inductive invariant.
LEMMA InitIInv == Init => IInv
<1> SUFFICES ASSUME Init PROVE IInv
  OBVIOUS
<1> <<>> \in Seq(Frame) /\ <<>> \in Seq(Requests) /\ Len(<<>>) = 0
  OBVIOUS
<1>1. TypeOK
  <2>1. /\ now \in 1 .. MaxTime /\ m_lock \in Callers \cup {None}
        /\ m_list_msg_recv \in Seq(Frame) /\ Len(m_list_msg_recv) < BufNum
        /\ m_DO_delay \in [DO -> Nat]
    BY Bounds DEF Init
  <2>2. online \in BOOLEAN
    BY DEF Init
  <2>3. /\ m_DO \in [DO -> {0, 1}] /\ m_Do_count \in [DO -> 0 .. now]
        /\ reading \in [Reg -> Reg \cup {"unread"}]
        /\ mc \in {"recv", "data", "arm", "queue"}
        /\ frame \in Frame \cup {None} /\ armed \subseteq DO \X (1 .. now)
    BY DEF Init
  <2>4. /\ pc \in [Callers -> {"idle", "lock", "auto", "next", "sent", "wait"}]
        /\ todo \in [Callers -> Seq(Requests)]
        /\ auto \in [Callers -> [index : DO, time_now : 1 .. now] \cup {None}]
    BY DEF Init
  <2>5. /\ relay \subseteq DO /\ req \in Seq(Requests) /\ rsp \in Seq(Frame)
        /\ Len(req) <= MaxWire /\ Len(rsp) <= MaxWire
        /\ commanded \subseteq DO /\ unsure \subseteq DO
        /\ wrong \subseteq {"set", "do", "di", "ai", "reg"}
    BY Bounds DEF Init
  <2> QED
    BY <2>1, <2>2, <2>3, <2>4, <2>5 DEF TypeOK
<1>2. LockInv /\ TodoInv /\ ThreadInv /\ SessionInv
  BY DEF Init, LockInv, TodoInv, ThreadInv, SessionInv, Asking
<1>3. TimedInv /\ CommandedOnIsTimed /\ ShownInv
  BY DEF Init, TimedInv, CommandedOnIsTimed, ShownInv
<1> QED
  BY <1>1, <1>2, <1>3 DEF IInv

\* The steps of the callers keep the types.
LEMMA CallerType ==
  ASSUME TypeOK, TodoInv, NEW c \in Callers,
         Call(c) \/ CallRefresh(c) \/ CallAuto(c) \/ CallerStep(c)
  PROVE  TypeOK'
<1> USE DEF TypeOK, Goto, vars, dev, thr, cal, wire, hist
<1>1. CASE Call(c)
  BY <1>1, FrameAssumption DEF Call
<1>2. CASE CallRefresh(c)
  BY <1>2, RefreshType DEF CallRefresh
<1>3. CASE CallAuto(c)
  <2>1. PICK i \in DO : auto' = [auto EXCEPT ![c] = [index |-> i, time_now |-> now]]
    BY <1>3 DEF CallAuto
  <2>2. [index |-> i, time_now |-> now] \in [index : DO, time_now : 1 .. now]
    OBVIOUS
  <2>3. auto' \in [Callers -> [index : DO, time_now : 1 .. now] \cup {None}]
    BY <2>1, <2>2
  <2> QED
    BY <1>3, <2>3 DEF CallAuto
<1>4. CASE Lock(c)
  BY <1>4 DEF Lock
<1>5. CASE SwitchOff(c)
  <2>1. auto[c].index \in DO
    BY <1>5 DEF SwitchOff, TodoInv
  <2>2. SetDO(auto[c].index, 0) \in Requests
    BY <2>1 DEF Requests
  <2>3. <<SetDO(auto[c].index, 0)>> \in Seq(Requests)
    BY <2>2
  <2>4. todo' \in [Callers -> Seq(Requests)]
    BY <1>5, <2>3 DEF SwitchOff
  <2> QED
    BY <1>5, <2>4 DEF SwitchOff
<1>6. CASE Unlock(c)
  BY <1>6 DEF Unlock
<1>7. CASE Send(c)
  <2>1. /\ Head(todo[c]) \in Requests /\ Tail(todo[c]) \in Seq(Requests)
    BY <1>7, HeadTailProperties DEF Send
  <2>2. req' \in Seq(Requests) /\ Len(req') <= MaxWire
    BY <1>7, <2>1, AppendProperties, Bounds, LenProperties DEF Send
  <2>3. commanded' \subseteq DO
    BY <1>7, <2>1, RequestFacts DEF Send, AfterSet
  <2>4. todo' \in [Callers -> Seq(Requests)]
    BY <1>7, <2>1 DEF Send, Finish
  <2>5. pc' \in [Callers -> {"idle", "lock", "auto", "next", "sent", "wait"}]
    BY <1>7 DEF Send
  <2> QED
    BY <1>7, <2>2, <2>3, <2>4, <2>5 DEF Send
<1>8. CASE SendFail(c)
  <2>1. Tail(todo[c]) \in Seq(Requests)
    BY <1>8, HeadTailProperties DEF SendFail
  <2> QED
    BY <1>8, <2>1 DEF SendFail, Finish
<1>9. CASE SetTimer(c)
  <2>1. Head(todo[c]).what \in DO
    BY <1>9, RequestFacts, HeadTailProperties DEF SetTimer, TodoInv, Asking
  <2>2. m_Do_count' \in [DO -> 0 .. now]
    <3>1. PICK n \in 0 .. now :
            m_Do_count' = [m_Do_count EXCEPT ![Head(todo[c]).what] = n]
      <4>1. now \in 0 .. now /\ 0 \in 0 .. now
        OBVIOUS
      <4> QED
        BY <1>9, <4>1, Zenon DEF SetTimer, Timer
    <3> QED
      BY <3>1
  <2> QED
    BY <1>9, <2>1, <2>2 DEF SetTimer
<1>10. CASE Take(c)
  <2>1. /\ Head(todo[c]) \in Requests /\ Tail(todo[c]) \in Seq(Requests)
        /\ Head(todo[c]).ssid # "power"
    BY <1>10, HeadTailProperties DEF Take, TodoInv, Asking
  <2>2. PICK i \in Answers(c) :
          /\ UseAnswer(Head(todo[c]), m_list_msg_recv[i])
          /\ unsure' = unsure \ {Head(todo[c]).what}
          /\ m_list_msg_recv' = RemoveAt(m_list_msg_recv, i)
    BY <1>10 DEF Take
  <2>3. /\ i \in 1 .. Len(m_list_msg_recv)
        /\ m_list_msg_recv[i] \in Frame
        /\ m_list_msg_recv[i].ssid = Head(todo[c]).ssid
    BY <2>2, LenProperties DEF Answers
  <2>4. m_list_msg_recv' \in Seq(Frame) /\ Len(m_list_msg_recv') < BufNum
    <3>1. /\ RemoveAt(m_list_msg_recv, i) \in Seq(Frame)
          /\ Len(RemoveAt(m_list_msg_recv, i)) = Len(m_list_msg_recv) - 1
      BY <2>3, RemoveAtType
    <3>2. Len(m_list_msg_recv) \in Nat /\ Len(m_list_msg_recv) < BufNum
      BY LenProperties
    <3> QED
      BY <2>2, <3>1, <3>2, Bounds
  <2>5. m_DO' \in [DO -> {0, 1}]
    BY <2>2 DEF UseAnswer
  <2>6. reading' \in [Reg -> Reg \cup {"unread"}]
    BY <2>1, <2>2, <2>3, FrameFacts DEF UseAnswer
  <2>7. wrong' \subseteq {"set", "do", "di", "ai", "reg"}
    BY <2>1, <2>2, RequestFacts DEF UseAnswer
  <2>8. todo' \in [Callers -> Seq(Requests)]
    BY <1>10, <2>1 DEF Take, Finish
  <2> QED
    BY <1>10, <2>2, <2>4, <2>5, <2>6, <2>7, <2>8 DEF Take
<1>11. CASE Timeout(c)
  <2>1. Tail(todo[c]) \in Seq(Requests)
    BY <1>11, HeadTailProperties DEF Timeout, TodoInv, Asking
  <2> QED
    BY <1>11, <2>1 DEF Timeout, Finish
<1> QED
  BY <1>1, <1>2, <1>3, <1>4, <1>5, <1>6, <1>7, <1>8, <1>9, <1>10, <1>11
     DEF CallerStep

\* The client thread starts the timers it found at rest and leaves the others.
LEMMA ArmStarts ==
  ASSUME TypeOK, McArm, NEW i \in DO
  PROVE  /\ m_Do_count'[i] \in 0 .. now
         /\ m_Do_count[i] > 0 => m_Do_count'[i] > 0
         /\ (\E t \in 1 .. now : <<i, t>> \in armed) => m_Do_count'[i] > 0
<1>1. m_Do_count[i] \in 0 .. now /\ now \in Nat
  BY DEF TypeOK
<1>2. CASE \E t \in 1 .. now : <<i, t>> \in armed
  <2>1. (CHOOSE t \in 1 .. now : <<i, t>> \in armed) \in 1 .. now
    BY <1>2
  <2>2. m_Do_count'[i] = CHOOSE t \in 1 .. now : <<i, t>> \in armed
    BY <1>2, Zenon DEF McArm
  <2>3. m_Do_count'[i] \in 1 .. now
    BY <2>1, <2>2
  <2> QED
    BY <1>1, <2>3
<1>3. CASE ~\E t \in 1 .. now : <<i, t>> \in armed
  <2>1. m_Do_count'[i] = m_Do_count[i]
    BY <1>3, Zenon DEF McArm
  <2> QED
    BY <1>1, <1>3, <2>1
<1> QED
  BY <1>2, <1>3

\* The steps of the client thread keep the types.
LEMMA ThreadType ==
  ASSUME TypeOK, ThreadInv, McStep
  PROVE  TypeOK'
<1> USE DEF TypeOK, vars, dev, thr, cal, wire, hist
<1>1. CASE McRecv
  <2>1. Head(rsp) \in Frame /\ Tail(rsp) \in Seq(Frame) /\ Len(Tail(rsp)) <= MaxWire
    BY <1>1, HeadTailProperties, LenProperties, Bounds DEF McRecv
  <2> QED
    BY <1>1, <2>1 DEF McRecv
<1>2. CASE McData
  <2>1. frame \in Frame
    BY <1>2 DEF McData, ThreadInv
  <2>2. AtRest(frame.on) \X {now} \subseteq DO \X (1 .. now)
    BY <2>1, FrameFacts DEF AtRest
  <2> QED
    BY <1>2, <2>2 DEF McData
<1>3. CASE McArm
  <2>1. m_Do_count' \in [DO -> 0 .. now]
    BY <1>3, ArmStarts DEF McArm
  <2> QED
    BY <1>3, <2>1 DEF McArm
<1>4. CASE McQueue
  <2>1. frame \in Frame
    BY <1>4 DEF McQueue, ThreadInv
  <2> QED
    BY <1>4, <2>1, AddTailType DEF McQueue
<1> QED
  BY <1>1, <1>2, <1>3, <1>4 DEF McStep

\* The other steps keep the types.
LEMMA OtherType ==
  ASSUME TypeOK, SetCfg \/ Drop \/ Kick \/ Login \/ PeerServe \/ PeerBeat
                 \/ PeerSwitch \/ Tick
  PROVE  TypeOK'
<1> USE DEF TypeOK, vars, dev, thr, cal, wire, hist
<1>0. <<>> \in Seq(Frame) /\ <<>> \in Seq(Requests) /\ Len(<<>>) = 0
  OBVIOUS
<1>1. CASE SetCfg
  <2>1. m_DO_delay' \in [DO -> Nat]
    BY <1>1, Bounds DEF SetCfg
  <2>2. UNCHANGED <<now, online, m_lock, m_list_msg_recv, m_DO, m_Do_count,
                    reading, thr, cal, wire, hist>>
    BY <1>1 DEF SetCfg
  <2> HIDE DEF vars, dev
  <2> QED
    BY <2>1, <2>2
<1>2. CASE Drop
  <2>1. /\ req' \in Seq(Requests) /\ rsp' \in Seq(Frame)
        /\ Len(req') <= MaxWire /\ Len(rsp') <= MaxWire
    BY <1>0, <1>2, Bounds DEF Drop
  <2>2. online' \in BOOLEAN
    BY <1>2 DEF Drop
  <2>3. UNCHANGED <<now, m_lock, m_list_msg_recv, m_DO, m_Do_count, m_DO_delay,
                    reading, thr, cal, relay, hist>>
    BY <1>2 DEF Drop
  <2>4. (now \in 1 .. MaxTime /\ m_lock \in Callers \cup {None})'
    BY <2>3
  <2>5. (/\ m_list_msg_recv \in Seq(Frame) /\ Len(m_list_msg_recv) < BufNum
         /\ m_DO \in [DO -> {0, 1}] /\ m_Do_count \in [DO -> 0 .. now]
         /\ m_DO_delay \in [DO -> Nat]
         /\ reading \in [Reg -> Reg \cup {"unread"}])'
    BY <2>3
  <2>6. (/\ mc \in {"recv", "data", "arm", "queue"} /\ frame \in Frame \cup {None}
         /\ armed \subseteq DO \X (1 .. now))'
    BY <2>3
  <2>7. (/\ pc \in [Callers -> {"idle", "lock", "auto", "next", "sent", "wait"}]
         /\ todo \in [Callers -> Seq(Requests)]
         /\ auto \in [Callers -> [index : DO, time_now : 1 .. now] \cup {None}])'
    BY <2>3
  <2>8. (/\ relay \subseteq DO /\ commanded \subseteq DO /\ unsure \subseteq DO
         /\ wrong \subseteq {"set", "do", "di", "ai", "reg"})'
    BY <2>3
  <2> QED
    BY <2>1, <2>2, <2>4, <2>5, <2>6, <2>7, <2>8
<1>3. CASE Kick
  <2>1. /\ req' \in Seq(Requests) /\ rsp' \in Seq(Frame)
        /\ Len(req') <= MaxWire /\ Len(rsp') <= MaxWire
        /\ m_list_msg_recv' \in Seq(Frame) /\ Len(m_list_msg_recv') < BufNum
    BY <1>0, <1>3, Bounds DEF Kick
  <2>2. online' \in BOOLEAN
    BY <1>3 DEF Kick
  <2>3. (/\ m_DO \in [DO -> {0, 1}] /\ m_Do_count \in [DO -> 0 .. now]
         /\ m_DO_delay \in [DO -> Nat]
         /\ reading \in [Reg -> Reg \cup {"unread"}])'
    BY <1>3, Bounds DEF Kick
  <2>4. (/\ now \in 1 .. MaxTime /\ m_lock \in Callers \cup {None}
         /\ mc \in {"recv", "data", "arm", "queue"} /\ frame \in Frame \cup {None}
         /\ armed \subseteq DO \X (1 .. now))'
    BY <1>3 DEF Kick
  <2>5. (/\ pc \in [Callers -> {"idle", "lock", "auto", "next", "sent", "wait"}]
         /\ todo \in [Callers -> Seq(Requests)]
         /\ auto \in [Callers -> [index : DO, time_now : 1 .. now] \cup {None}])'
    BY <1>3 DEF Kick
  <2>6. (/\ relay \subseteq DO /\ commanded \subseteq DO /\ unsure \subseteq DO
         /\ wrong \subseteq {"set", "do", "di", "ai", "reg"})'
    BY <1>3 DEF Kick
  <2> QED
    BY <2>1, <2>2, <2>3, <2>4, <2>5, <2>6
<1>4. CASE Login
  BY <1>0, <1>4, Bounds DEF Login, QueueEmptied
<1>5. CASE PeerServe
  <2>1. /\ Head(req) \in Requests /\ Tail(req) \in Seq(Requests)
        /\ Len(Tail(req)) <= MaxWire
    BY <1>5, HeadTailProperties, LenProperties, Bounds DEF PeerServe
  <2>2. relay' \subseteq DO
    BY <1>5, <2>1, RequestFacts DEF PeerServe, AfterSet
  <2>3. Reply(Head(req)) \in Frame
    BY <2>1, ReplyFacts
  <2>4. rsp' \in Seq(Frame) /\ Len(rsp') <= MaxWire
    <3>1. CASE Len(rsp) < MaxWire /\ rsp' = Append(rsp, Reply(Head(req)))
      BY <2>3, <3>1, AppendProperties, LenProperties, Bounds
    <3>2. CASE rsp' = rsp
      BY <3>2
    <3> QED
      BY <1>5, <3>1, <3>2 DEF PeerServe
  <2> QED
    BY <1>5, <2>1, <2>2, <2>4 DEF PeerServe
<1>6. CASE PeerBeat
  <2>1. rsp' \in Seq(Frame) /\ Len(rsp') <= MaxWire
    BY <1>6, FrameFacts, AppendProperties, LenProperties, Bounds
       DEF PeerBeat
  <2> QED
    BY <1>6, <2>1 DEF PeerBeat
<1>7. CASE PeerSwitch
  BY <1>7 DEF PeerSwitch
<1>8. CASE Tick
  <2>1. now' \in 1 .. MaxTime /\ now' = now + 1
    BY <1>8, Bounds DEF Tick
  <2>2. m_Do_count' \in [DO -> 0 .. now']
    BY <1>8, <2>1 DEF Tick
  <2>3. armed' \subseteq DO \X (1 .. now')
    BY <1>8, <2>1 DEF Tick
  <2>4. auto' \in [Callers -> [index : DO, time_now : 1 .. now'] \cup {None}]
    <3>1. [index : DO, time_now : 1 .. now] \subseteq [index : DO, time_now : 1 .. now']
      BY <2>1
    <3> QED
      BY <1>8, <3>1 DEF Tick
  <2> QED
    BY <1>8, <2>1, <2>2, <2>3, <2>4 DEF Tick
<1> QED
  BY <1>1, <1>2, <1>3, <1>4, <1>5, <1>6, <1>7, <1>8

\* Every step keeps the types.
LEMMA TypeNext ==
  ASSUME TypeOK, TodoInv, ThreadInv, [Next]_vars
  PROVE  TypeOK'
<1>1. CASE UNCHANGED vars
  BY <1>1 DEF TypeOK, vars, dev, thr, cal, wire, hist
<1> QED
  BY <1>1, CallerType, ThreadType, OtherType DEF Next

-----------------------------------------------------------------------------
(***************************************************************************)
(* The lock, the requests and the session.                                 *)
(***************************************************************************)

\* Every step keeps the lock with the one caller inside.
LEMMA LockNext ==
  ASSUME TypeOK, LockInv, [Next]_vars
  PROVE  LockInv'
<1> USE DEF TypeOK, LockInv, Asking, Goto, vars, dev, thr, cal, wire, hist
<1>1. CASE UNCHANGED vars
  BY <1>1
<1>2. ASSUME NEW c \in Callers, Call(c) \/ CallRefresh(c) \/ CallAuto(c)
      PROVE  LockInv'
  BY <1>2 DEF Call, CallRefresh, CallAuto
<1>3. ASSUME NEW c \in Callers, Lock(c) \/ Unlock(c)
      PROVE  LockInv'
  <2>1. \A d \in Callers \ {c} : pc[d] \notin Asking \cup {"auto", "next"}
    <3>1. m_lock \in {None, c}
      BY <1>3 DEF Lock, LockFree, Unlock
    <3> QED
      BY <3>1, Bounds
  <2>2. \A d \in Callers \ {c} : pc'[d] = pc[d]
    BY <1>3 DEF Lock, Unlock
  <2>3. m_lock' = c \/ pc'[c] = "idle"
    BY <1>3 DEF Lock, Unlock
  <2> QED
    BY <2>1, <2>2, <2>3
<1>4. ASSUME NEW c \in Callers,
             SwitchOff(c) \/ Send(c) \/ SendFail(c) \/ SetTimer(c) \/ Take(c) \/ Timeout(c)
      PROVE  LockInv'
  <2>1. m_lock = c /\ m_lock' = m_lock
    BY <1>4 DEF SwitchOff, Send, SendFail, SetTimer, Take, Timeout
  <2>2. \A d \in Callers \ {c} : pc'[d] = pc[d]
    BY <1>4 DEF SwitchOff, Send, SendFail, SetTimer, Take, Timeout
  <2> QED
    BY <2>1, <2>2
<1>5. CASE SetCfg \/ McStep \/ Drop \/ Kick \/ Login \/ PeerServe \/ PeerBeat
           \/ PeerSwitch \/ Tick
  BY <1>5 DEF SetCfg, McStep, McRecv, McData, McArm, McQueue, Drop, Kick, Login,
              PeerServe, PeerBeat, PeerSwitch, Tick
<1> QED
  BY <1>1, <1>2, <1>3, <1>4, <1>5 DEF Next, CallerStep

\* Every step leaves every caller with the request its position needs.
LEMMA TodoNext ==
  ASSUME TypeOK, TodoInv, [Next]_vars
  PROVE  TodoInv'
<1> USE DEF TypeOK, TodoInv, Asking, Goto, vars, dev, thr, cal, wire, hist
<1>1. CASE UNCHANGED vars
  BY <1>1
<1>2. ASSUME NEW c \in Callers, Call(c) \/ CallRefresh(c) \/ CallAuto(c)
      PROVE  TodoInv'
  BY <1>2 DEF Call, CallRefresh, CallAuto
<1>3. ASSUME NEW c \in Callers,
             Lock(c) \/ Unlock(c) \/ SwitchOff(c) \/ SendFail(c) \/ Take(c) \/ Timeout(c)
      PROVE  TodoInv'
  BY <1>3 DEF Lock, Unlock, SwitchOff, SendFail, Take, Timeout, Finish
<1>4. ASSUME NEW c \in Callers, Send(c)
      PROVE  TodoInv'
  <2>1. /\ Head(todo[c]) \in Requests /\ todo[c] # <<>>
        /\ \A d \in Callers \ {c} : pc'[d] = pc[d] /\ todo'[d] = todo[d]
        /\ auto' = auto
    BY <1>4, HeadTailProperties DEF Send, Finish
  <2>2. CASE Head(todo[c]) = ResetPower
    BY <1>4, <2>1, <2>2 DEF Send
  <2>3. CASE Head(todo[c]) # ResetPower
    <3>1. Head(todo[c]).ssid # "power"
      BY <2>1, <2>3, RequestFacts
    <3> QED
      BY <1>4, <2>1, <2>3, <3>1 DEF Send
  <2> QED
    BY <2>2, <2>3
<1>5. ASSUME NEW c \in Callers, SetTimer(c)
      PROVE  TodoInv'
  BY <1>5 DEF SetTimer
<1>6. CASE SetCfg \/ McStep \/ Drop \/ Kick \/ Login \/ PeerServe \/ PeerBeat
           \/ PeerSwitch \/ Tick
  BY <1>6 DEF SetCfg, McStep, McRecv, McData, McArm, McQueue, Drop, Kick, Login,
              PeerServe, PeerBeat, PeerSwitch, Tick
<1> QED
  BY <1>1, <1>2, <1>3, <1>4, <1>5, <1>6 DEF Next, CallerStep

\* Every step keeps what the client thread holds and what a session begins
\* with.
LEMMA SessionNext ==
  ASSUME TypeOK, ThreadInv, SessionInv, [Next]_vars
  PROVE  ThreadInv' /\ SessionInv'
<1> USE DEF TypeOK, ThreadInv, SessionInv, vars, dev, thr, cal, wire, hist
<1>1. CASE UNCHANGED vars
  BY <1>1
<1>2. ASSUME NEW c \in Callers,
             Call(c) \/ CallRefresh(c) \/ CallAuto(c) \/ CallerStep(c)
      PROVE  ThreadInv' /\ SessionInv'
  BY <1>2 DEF Call, CallRefresh, CallAuto, CallerStep, Lock, Unlock, SwitchOff, Send,
              SendFail, SetTimer, Take, Timeout
<1>3. CASE McRecv
  <2>1. Head(rsp) \in Frame
    BY <1>3, HeadTailProperties DEF McRecv
  <2> QED
    BY <1>3, <2>1, FrameAssumption DEF McRecv
<1>4. CASE McData \/ McArm \/ McQueue
  BY <1>4 DEF McData, McArm, McQueue
<1>5. CASE SetCfg \/ Drop \/ Kick \/ Login \/ PeerServe \/ PeerBeat \/ PeerSwitch
           \/ Tick
  BY <1>5 DEF SetCfg, Drop, Kick, Login, PeerServe, PeerBeat, PeerSwitch, Tick
<1> QED
  BY <1>1, <1>2, <1>3, <1>4, <1>5 DEF Next, McStep

-----------------------------------------------------------------------------
(***************************************************************************)
(* The timers.                                                             *)
(***************************************************************************)

\* Only SetDO clears a timer that runs, and a kick, after which no relay is
\* shown on or remembered as ordered on; the client thread only starts
\* timers.
LEMMA TimedNext ==
  ASSUME TypeOK, LockInv, TodoInv, TimedInv, CommandedOnIsTimed, [Next]_vars
  PROVE  TimedInv' /\ CommandedOnIsTimed'
<1> USE DEF TypeOK, TimedInv, CommandedOnIsTimed, Goto, vars, dev, thr, cal,
            wire, hist
<1>1. CASE UNCHANGED vars
  BY <1>1
<1>2. ASSUME NEW c \in Callers,
             Call(c) \/ CallRefresh(c) \/ CallAuto(c) \/ Lock(c) \/ Unlock(c)
               \/ SwitchOff(c) \/ SendFail(c) \/ Take(c) \/ Timeout(c)
      PROVE  TimedInv' /\ CommandedOnIsTimed'
  <2>1. /\ pc[c] \notin {"sent"} /\ pc'[c] \notin {"sent", "wait"}
        /\ \A d \in Callers \ {c} : pc'[d] = pc[d] /\ todo'[d] = todo[d]
        /\ m_Do_count' = m_Do_count /\ commanded' = commanded
    BY <1>2 DEF Call, CallRefresh, CallAuto, Lock, Unlock, SwitchOff, SendFail, Take,
                Timeout, Finish
  <2>2. TimedInv'
    <3>1. \A d \in Callers : pc'[d] \in {"sent", "wait"} =>
                              d # c /\ pc'[d] = pc[d] /\ todo'[d] = todo[d]
      BY <2>1
    <3>2. ASSUME NEW d \in Callers
          PROVE  /\ pc'[d] = "sent" /\ Head(todo'[d]).on = {} =>
                      Head(todo'[d]).what \notin commanded'
                 /\ pc'[d] = "wait" /\ Head(todo'[d]).ssid = "set"
                      /\ Head(todo'[d]).on # {} => m_Do_count'[Head(todo'[d]).what] > 0
      <4> HIDE DEF TypeOK, CommandedOnIsTimed
      <4>1. CASE pc'[d] \in {"sent", "wait"}
        <5>1. /\ pc'[d] = pc[d] /\ todo'[d] = todo[d]
              /\ commanded' = commanded /\ m_Do_count' = m_Do_count
          BY <2>1, <3>1, <4>1
        <5> QED
          BY <5>1
      <4>2. CASE pc'[d] \notin {"sent", "wait"}
        BY <4>2
      <4> QED
        BY <4>1, <4>2
    <3> QED
      BY <3>2
  <2>3. ASSUME NEW i \in commanded'
        PROVE  m_Do_count'[i] > 0
                 \/ \E d \in Callers : pc'[d] = "sent" /\ Head(todo'[d]).what = i
    <3> HIDE DEF TypeOK, TimedInv
    <3>1. CASE m_Do_count[i] > 0
      BY <2>1, <3>1
    <3>2. CASE \E d \in Callers : pc[d] = "sent" /\ Head(todo[d]).what = i
      BY <2>1, <3>2
    <3> QED
      BY <2>1, <2>3, <3>1, <3>2
  <2>4. CommandedOnIsTimed'
    BY <2>3
  <2> QED
    BY <2>2, <2>4
<1>3. ASSUME NEW c \in Callers, Send(c)
      PROVE  TimedInv' /\ CommandedOnIsTimed'
  <2> DEFINE q == Head(todo[c])
  <2>1. q \in Requests /\ pc[c] = "next" /\ m_Do_count' = m_Do_count
        /\ commanded' = AfterSet(commanded, q)
        /\ \A d \in Callers \ {c} : pc'[d] = pc[d] /\ todo'[d] = todo[d]
    BY <1>3, HeadTailProperties DEF Send, Finish
  <2>2. \A d \in Callers : d # c => pc[d] \notin {"sent", "wait"}
    BY <2>1, Bounds DEF LockInv, Asking
  <2>3. CASE q.ssid = "set"
    <3>1. q # ResetPower
      BY <2>1, <2>3, RequestFacts
    <3>2. pc'[c] = "sent" /\ todo' = todo
      BY <1>3, <2>3, <3>1 DEF Send
    <3>3. commanded' = (commanded \ {q.what}) \cup q.on
      BY <2>1, <2>3 DEF AfterSet
    <3>4. q.on \subseteq {q.what}
      BY <2>1, <2>3, RequestFacts
    <3>5. TimedInv'
      <4>1. \A d \in Callers : pc'[d] \in {"sent", "wait"} => d = c
        BY <2>1, <2>2
      <4>2. q.on = {} => q.what \notin commanded'
        BY <3>3
      <4> HIDE DEF TypeOK
      <4> QED
        BY <3>2, <4>1, <4>2
    <3>6. CommandedOnIsTimed'
      BY <2>1, <2>2, <3>2, <3>3, <3>4
    <3> QED
      BY <3>5, <3>6
  <2>4. CASE q.ssid # "set"
    <3>1. pc'[c] \in {"next", "wait"} /\ commanded' = commanded
      BY <1>3, <2>1, <2>4 DEF Send, AfterSet
    <3>2. pc'[c] = "wait" => todo'[c] = todo[c]
      BY <1>3 DEF Send
    <3>3. TimedInv'
      BY <2>1, <2>2, <2>4, <3>1, <3>2
    <3>4. CommandedOnIsTimed'
      BY <2>1, <2>2, <3>1
    <3> QED
      BY <3>3, <3>4
  <2> QED
    BY <2>3, <2>4
<1>4. ASSUME NEW c \in Callers, SetTimer(c)
      PROVE  TimedInv' /\ CommandedOnIsTimed'
  <2> DEFINE q == Head(todo[c])
  <2>1. /\ q \in Requests /\ q.ssid = "set" /\ q.what \in DO
        /\ pc[c] = "sent" /\ pc' = [pc EXCEPT ![c] = "wait"]
        /\ todo' = todo /\ commanded' = commanded
    BY <1>4, RequestFacts, HeadTailProperties DEF SetTimer, TodoInv, Asking
  <2>2. \A d \in Callers : d # c => pc[d] \notin {"sent", "wait"}
    BY <2>1, Bounds DEF LockInv, Asking
  <2>3. /\ m_Do_count'[q.what] = IF q.on # {} THEN now ELSE 0
        /\ \A i \in DO \ {q.what} : m_Do_count'[i] = m_Do_count[i]
    BY <1>4, <2>1 DEF SetTimer, Timer
  <2>4. TimedInv'
    <3>1. \A d \in Callers : pc'[d] \in {"sent", "wait"} => d = c
      BY <2>1, <2>2
    <3>2. pc'[c] = "wait" /\ todo'[c] = todo[c]
      BY <2>1
    <3>3. q.on # {} => m_Do_count'[q.what] > 0
      BY <2>3
    <3>4. ASSUME NEW d \in Callers
          PROVE  /\ pc'[d] = "sent" /\ Head(todo'[d]).on = {} =>
                      Head(todo'[d]).what \notin commanded'
                 /\ pc'[d] = "wait" /\ Head(todo'[d]).ssid = "set"
                      /\ Head(todo'[d]).on # {} => m_Do_count'[Head(todo'[d]).what] > 0
      <4> HIDE DEF TypeOK, CommandedOnIsTimed, TimedInv
      <4>1. CASE d = c
        BY <3>2, <3>3, <4>1
      <4>2. CASE pc'[d] \notin {"sent", "wait"}
        BY <4>2
      <4> QED
        BY <3>1, <4>1, <4>2
    <3> QED
      BY <3>4
  <2>5. ASSUME NEW i \in commanded' PROVE m_Do_count'[i] > 0
    <3>1. i \in DO /\ now > 0
      BY <2>1
    <3>2. CASE i = q.what
      <4>1. q.on # {}
        BY <2>1, <2>5, <3>2
      <4> QED
        BY <2>3, <3>1, <3>2, <4>1
    <3>3. CASE i # q.what
      <4>1. ~\E d \in Callers : pc[d] = "sent" /\ Head(todo[d]).what = i
        BY <2>2, <3>3
      <4>2. m_Do_count[i] > 0
        BY <2>1, <2>5, <4>1
      <4> QED
        BY <2>3, <3>1, <3>3, <4>2
    <3> QED
      BY <3>2, <3>3
  <2>6. CommandedOnIsTimed'
    BY <2>5
  <2> QED
    BY <2>4, <2>6
<1>5. CASE McArm
  <2>1. \A i \in DO : m_Do_count[i] > 0 => m_Do_count'[i] > 0
    BY <1>5, ArmStarts
  <2>2. \A c \in Callers :
          pc[c] = "wait" /\ Head(todo[c]).ssid = "set" => Head(todo[c]).what \in DO
    BY RequestFacts, HeadTailProperties DEF TodoInv, Asking
  <2> QED
    BY <1>5, <2>1, <2>2 DEF McArm
<1>6. CASE Kick
  <2>1. \A c \in Callers : pc[c] \notin {"sent", "wait"}
    BY <1>6, Bounds DEF Kick, LockInv, Asking
  <2> QED
    BY <1>6, <2>1 DEF Kick
<1>7. CASE SetCfg \/ McRecv \/ McData \/ McQueue \/ Drop \/ Login \/ PeerServe
           \/ PeerBeat \/ PeerSwitch \/ Tick
  BY <1>7 DEF SetCfg, McRecv, McData, McQueue, Drop, Login, PeerServe, PeerBeat,
              PeerSwitch, Tick
<1> QED
  BY <1>1, <1>2, <1>3, <1>4, <1>5, <1>6, <1>7 DEF Next, CallerStep, McStep

\* A relay becomes shown on by an answer to an order that has started its
\* timer, or by a report, which starts the timer if it is at rest.
LEMMA ShownNext ==
  ASSUME TypeOK, TodoInv, ThreadInv, TimedInv, ShownInv, [Next]_vars
  PROVE  ShownInv'
<1> USE DEF TypeOK, ShownInv, Goto, vars, dev, thr, cal, wire, hist
<1>1. CASE UNCHANGED vars
  BY <1>1
<1>2. ASSUME NEW c \in Callers,
             Call(c) \/ CallRefresh(c) \/ CallAuto(c) \/ Lock(c) \/ Unlock(c)
               \/ SwitchOff(c) \/ Send(c) \/ SendFail(c) \/ Timeout(c)
      PROVE  ShownInv'
  BY <1>2 DEF Call, CallRefresh, CallAuto, Lock, Unlock, SwitchOff, Send, SendFail,
              Timeout
<1>3. ASSUME NEW c \in Callers, SetTimer(c)
      PROVE  ShownInv'
  <2> DEFINE q == Head(todo[c])
  <2>1. /\ q.what \in DO /\ m_DO' = m_DO /\ armed' = armed /\ now' = now
        /\ unsure' = IF q.on # {} THEN unsure ELSE unsure \cup {q.what}
        /\ m_Do_count' = [m_Do_count EXCEPT ![q.what] = IF q.on # {} THEN now ELSE 0]
    BY <1>3, RequestFacts, HeadTailProperties DEF SetTimer, Timer, TodoInv, Asking
  <2> QED
    BY <2>1
<1>4. ASSUME NEW c \in Callers, Take(c)
      PROVE  ShownInv'
  <2> DEFINE q == Head(todo[c])
  <2>1. /\ q \in Requests /\ pc[c] = "wait"
        /\ m_Do_count' = m_Do_count /\ armed' = armed /\ now' = now
        /\ unsure' = unsure \ {q.what}
        /\ m_DO' = IF q.ssid = "set"
                   THEN [m_DO EXCEPT ![q.what] = IF q.on # {} THEN 1 ELSE 0]
                   ELSE m_DO
    BY <1>4, HeadTailProperties DEF Take, UseAnswer, TodoInv, Asking
  <2>2. CASE q.ssid = "set"
    <3>1. q.what \in DO /\ (q.on # {} => m_Do_count[q.what] > 0)
      BY <2>1, <2>2, RequestFacts DEF TimedInv
    <3> QED
      BY <2>1, <2>2, <3>1
  <2>3. CASE q.ssid # "set"
    <3>1. q.what \notin DO
      BY <2>1, <2>3, RequestFacts
    <3> QED
      BY <2>1, <2>3, <3>1
  <2> QED
    BY <2>2, <2>3
<1>5. CASE McData
  <2>1. frame \in Frame
    BY <1>5 DEF McData, ThreadInv
  <2>2. CASE frame.ssid = "do"
    <3>1. /\ m_DO' = [i \in DO |-> IF i \in frame.on THEN 1 ELSE 0]
          /\ armed' = AtRest(frame.on) \X {now}
          /\ m_Do_count' = m_Do_count /\ now' = now
      BY <1>5, <2>2 DEF McData
    <3>2. ASSUME NEW i \in DO, m_DO'[i] = 1, m_Do_count'[i] = 0
          PROVE  \E t \in 1 .. now' : <<i, t>> \in armed'
      <4>1. i \in AtRest(frame.on)
        BY <3>1, <3>2 DEF AtRest
      <4>2. now \in 1 .. now' /\ <<i, now>> \in armed'
        BY <3>1, <4>1
      <4> QED
        BY <4>2
    <3>3. \A i \in DO : m_Do_count'[i] = 0 \/ m_Do_count'[i] > 0
      BY <3>1
    <3> QED
      BY <3>2, <3>3
  <2>3. CASE frame.ssid # "do"
    BY <1>5, <2>3 DEF McData
  <2> QED
    BY <2>2, <2>3
<1>6. CASE McArm
  <2>1. ASSUME NEW i \in DO, m_Do_count[i] > 0 \/ \E t \in 1 .. now : <<i, t>> \in armed
        PROVE  m_Do_count'[i] > 0
    BY <1>6, <2>1, ArmStarts
  <2>2. m_DO' = m_DO /\ unsure' = unsure
    BY <1>6 DEF McArm
  <2> QED
    BY <2>1, <2>2
<1>7. CASE Kick
  BY <1>7 DEF Kick
<1>8. CASE Tick
  <2>1. now' = now + 1 /\ UNCHANGED <<m_DO, m_Do_count, unsure, armed>>
    BY <1>8 DEF Tick
  <2> QED
    BY <2>1
<1>9. CASE SetCfg \/ McRecv \/ McQueue \/ Drop \/ Login \/ PeerServe
           \/ PeerBeat \/ PeerSwitch
  BY <1>9 DEF SetCfg, McRecv, McQueue, Drop, Login, PeerServe, PeerBeat, PeerSwitch
<1> QED
  BY <1>1, <1>2, <1>3, <1>4, <1>5, <1>6, <1>7, <1>8, <1>9
     DEF Next, CallerStep, McStep

-----------------------------------------------------------------------------
(***************************************************************************)
(* One request at a time is under way.                                     *)
(***************************************************************************)

\* Nothing that somebody waits for is under way.
Quiet ==
  /\ Free(req) /\ Free(rsp) /\ Free(m_list_msg_recv)
  /\ frame \in Others \cup {None}

\* A list without such frames has at most one, and more than enough types.
LEMMA FreeFacts ==
  ASSUME NEW q, Free(q), NEW T, Others \subseteq T
  PROVE  One(q) /\ q \in Seq(T)
<1>1. q \in Seq(Others)
  BY DEF Free
<1>2. \A i \in DOMAIN q : q[i] \notin Waited
  BY <1>1, LenProperties DEF Others
<1> QED
  BY <1>1, <1>2, SeqWiden DEF One, Single

\* When nothing is under way, at most one is.
LEMMA QuietIsOne == Quiet => OneInFlight
<1> SUFFICES ASSUME Quiet PROVE OneInFlight
  OBVIOUS
<1>1. frame \notin Waited
  BY FrameAssumption DEF Quiet, Others, Waited
<1>2. \A q : Free(q) => One(q) /\ q \in Seq(Others \cup Own)
  BY FreeFacts
<1> QED
  BY <1>1, <1>2 DEF Quiet, OneInFlight

\* While nobody asks, what is under way belongs to nobody.
LEMMA NobodyAsks ==
  ASSUME OneInFlight, \A c \in Callers : pc[c] \notin Asking
  PROVE  Quiet
<1>1. Own = {}
  BY DEF Own, Asks
<1>2. Others \cup Own = Others
  BY <1>1
<1> QED
  BY <1>2 DEF OneInFlight, Quiet, Free

\* Who asks does not change if only callers that do not ask move.
LEMMA SameOwn ==
  ASSUME \A c \in Callers :
           /\ pc'[c] \in Asking <=> pc[c] \in Asking
           /\ pc[c] \in Asking => todo'[c] = todo[c]
  PROVE  Own' = Own
<1>1. \A c \in Callers : \A x \in Waited : Asks(c, x)' <=> Asks(c, x)
  BY DEF Asks
<1>2. Waited' = Waited
  BY DEF Waited, Frame
<1> QED
  BY <1>1, <1>2 DEF Own

\* The other callers do not ask while one has the lock.
LEMMA OnlyOneAsks ==
  ASSUME LockInv, NEW c \in Callers, pc[c] \in Asking \cup {"auto", "next"}
  PROVE  \A d \in Callers \ {c} : pc[d] \notin Asking
  BY DEF LockInv

\* What the caller c that waits has under way is of the kind it asked for.
LEMMA OwnIsAsked ==
  ASSUME LockInv, NEW c \in Callers, pc[c] \in Asking, NEW x \in Own
  PROVE  Asks(c, x)
  BY OnlyOneAsks DEF Own, Asks

\* AddTail in a list: one frame more, at most one of them waited for.
LEMMA AddTailOne ==
  ASSUME NEW q \in Seq(Frame), NEW x \in Frame,
         One(q), x \in Waited => Free(q)
  PROVE  One(AddTail(q, x))
<1>1. Append(q, x) \in Seq(Frame) /\ Append(q, x) # <<>>
  BY AppendProperties
<1>2. One(Append(q, x))
  <2>1. CASE x \in Waited
    BY <2>1, AppendSingle DEF One, Free, Others
  <2>2. CASE x \notin Waited
    BY <2>2, AppendOther DEF One
  <2> QED
    BY <2>1, <2>2
<1>3. One(Tail(Append(q, x)))
  BY <1>1, <1>2, TailSingle DEF One
<1> QED
  BY <1>2, <1>3 DEF AddTail

\* Taking the answer from the queue leaves nothing under way.
LEMMA TakeClears ==
  ASSUME TypeOK, LockInv, TodoInv, OneInFlight,
         NEW c \in Callers, pc[c] = "wait", NEW i \in Answers(c)
  PROVE  /\ Asks(c, m_list_msg_recv[i])
         /\ Free(req) /\ Free(rsp) /\ frame \in Others \cup {None}
         /\ Free(RemoveAt(m_list_msg_recv, i))
<1> DEFINE q == m_list_msg_recv
           h == Head(todo[c])
<1>1. /\ q \in Seq(Frame) /\ i \in 1 .. Len(q) /\ q[i] \in Frame
      /\ q[i].ssid = h.ssid
  BY LenProperties DEF TypeOK, Answers
<1>2. h \in Requests /\ h.ssid # "power"
  BY HeadTailProperties DEF TypeOK, TodoInv, Asking
<1>3. q[i] \in Waited
  BY <1>1, <1>2, RequestFacts DEF Waited
<1>4. ~Free(q)
  BY <1>1, <1>3, LenProperties DEF Free, Others
<1>5. q[i] \in Own
  BY <1>1, <1>3, LenProperties DEF OneInFlight, Others
<1>6. Asks(c, q[i])
  BY <1>5, OwnIsAsked DEF Asking
<1>7. Free(RemoveAt(q, i))
  BY <1>1, <1>3, RemoveSingle DEF OneInFlight, One, Free, Others
<1>8. Free(req) /\ Free(rsp) /\ frame \notin Waited
  BY <1>4 DEF OneInFlight
<1>9. frame \in Others \cup {None}
  BY <1>8 DEF OneInFlight, Own
<1> QED
  BY <1>6, <1>7, <1>8, <1>9

\* The steps of a caller keep the one frame with the caller that waits.
LEMMA CallerFlight ==
  ASSUME TypeOK, LockInv, TodoInv, SessionInv, ~LateStep, online, OneInFlight,
         NEW c \in Callers,
         Call(c) \/ CallRefresh(c) \/ CallAuto(c) \/ CallerStep(c)
  PROVE  OneInFlight'
<1> USE DEF TypeOK, Goto, vars, dev, thr, cal, wire, hist
<1>0. /\ Frame' = Frame /\ Waited' = Waited /\ Others' = Others
      /\ Others \cup Waited = Frame
  BY DEF Frame, Waited, Others
<1>1. ASSUME UNCHANGED <<req, rsp, m_list_msg_recv, frame>>, Own' = Own
      PROVE  OneInFlight'
  BY <1>0, <1>1 DEF OneInFlight, One, Single, Free
<1>2. CASE \/ Call(c) \/ CallRefresh(c) \/ CallAuto(c) \/ Lock(c) \/ Unlock(c)
           \/ SwitchOff(c) \/ SendFail(c)
  <2>1. /\ pc[c] \notin Asking /\ pc'[c] \notin Asking
        /\ \A d \in Callers \ {c} : pc'[d] = pc[d] /\ todo'[d] = todo[d]
        /\ UNCHANGED <<req, rsp, m_list_msg_recv, frame>>
    BY <1>2 DEF Call, CallRefresh, CallAuto, Lock, Unlock, SwitchOff, SendFail,
                Finish, Asking
  <2>2. Own' = Own
    BY <2>1, SameOwn
  <2> QED
    BY <1>1, <2>1, <2>2
<1>3. CASE SetTimer(c)
  <2>1. /\ pc[c] \in Asking /\ pc'[c] \in Asking /\ todo' = todo
        /\ \A d \in Callers \ {c} : pc'[d] = pc[d]
        /\ UNCHANGED <<req, rsp, m_list_msg_recv, frame>>
    BY <1>3 DEF SetTimer, Asking
  <2>2. Own' = Own
    BY <2>1, SameOwn
  <2> QED
    BY <1>1, <2>1, <2>2
<1>4. CASE Send(c)
  <2> DEFINE h == Head(todo[c])
  <2>1. /\ h \in Requests /\ pc[c] = "next" /\ req' = Append(req, h)
        /\ UNCHANGED <<rsp, m_list_msg_recv, frame>>
    BY <1>4, HeadTailProperties DEF Send
  <2>2. \A d \in Callers : pc[d] \notin Asking
    BY <2>1, OnlyOneAsks DEF Asking
  <2>3. Quiet
    BY <2>2, NobodyAsks
  <2>4. h \in Frame
    BY <2>1, RequestFacts
  <2>5. CASE h = ResetPower
    <3>1. h \in Others
      BY <2>4, <2>5, <2>1, RequestFacts DEF Others, Waited
    <3>2. Append(req, h) \in Seq(Others)
      BY <2>3, <3>1, AppendProperties DEF Quiet, Free
    <3>3. Quiet'
      BY <1>0, <2>1, <2>3, <3>2 DEF Quiet, Free
    <3>4. \A q : Free(q)' => One(q)' /\ q \in Seq((Others \cup Own)')
      <4>1. Others' \subseteq (Others \cup Own)'
        OBVIOUS
      <4>2. \A q : Free(q) => One(q) /\ q \in Seq((Others \cup Own)')
        BY <1>0, <4>1, FreeFacts
      <4> QED
        BY <1>0, <4>2 DEF Free, One
    <3>5. frame' \notin Waited'
      BY <1>0, <3>3, FrameAssumption DEF Quiet, Others, Waited
    <3> QED
      BY <1>0, <3>3, <3>4, <3>5 DEF Quiet, OneInFlight
  <2>6. CASE h # ResetPower
    <3>1. h \in Waited
      BY <2>1, <2>4, <2>6, RequestFacts DEF Waited
    <3>2. /\ pc'[c] \in Asking /\ todo' = todo
      BY <1>4, <2>6 DEF Send, Asking
    <3>3. h \in Own'
      BY <1>0, <3>1, <3>2 DEF Own, Asks
    <3>4. Append(req, h) \in Seq(Others \cup Own')
      <4>1. req \in Seq(Others \cup Own')
        BY <2>3, FreeFacts DEF Quiet
      <4> QED
        BY <3>3, <4>1, AppendProperties
    <3>5. One(Append(req, h))
      BY <2>3, AppendSingle DEF Quiet, Free, One, Others
    <3>6. \A q : Free(q) => One(q) /\ q \in Seq(Others \cup Own')
      BY FreeFacts
    <3>7. frame \notin Waited
      BY <2>3, FrameAssumption DEF Quiet, Others, Waited
    <3> QED
      BY <1>0, <2>1, <2>3, <3>4, <3>5, <3>6, <3>7
         DEF Quiet, OneInFlight, Free, One, Single
  <2> QED
    BY <2>5, <2>6
<1>5. ASSUME Take(c) \/ Timeout(c) PROVE OneInFlight'
  <2>1. Quiet'
    <3>1. CASE Take(c)
      <4>1. PICK i \in Answers(c) : m_list_msg_recv' = RemoveAt(m_list_msg_recv, i)
        BY <3>1 DEF Take
      <4>2. pc[c] = "wait" /\ UNCHANGED <<req, rsp, frame>>
        BY <3>1 DEF Take
      <4> QED
        BY <1>0, <4>1, <4>2, TakeClears DEF Quiet, Free
    <3>2. CASE Timeout(c)
      <4>1. /\ pc[c] = "wait" /\ ~Coming(Head(todo[c]))
            /\ UNCHANGED <<req, rsp, frame, m_list_msg_recv>>
        BY <3>2 DEF Timeout, LateStep
      <4>2. \A x \in Own : x.ssid = Head(todo[c]).ssid
        BY <4>1, OwnIsAsked DEF Asks, Asking
      <4>3. \A q \in Seq(Others \cup Own) :
              (\A i \in DOMAIN q : q[i].ssid # Head(todo[c]).ssid) => q \in Seq(Others)
        <5>1. ASSUME NEW q \in Seq(Others \cup Own),
                     \A i \in DOMAIN q : q[i].ssid # Head(todo[c]).ssid
              PROVE  q \in Seq(Others)
          <6>1. \A i \in DOMAIN q : q[i] \in Others
            BY <4>2, <5>1, LenProperties
          <6> QED
            BY <6>1, SeqNarrow
        <5> QED
          BY <5>1
      <4>4. req \in Seq(Others) /\ rsp \in Seq(Others) /\ m_list_msg_recv \in Seq(Others)
        BY <4>1, <4>3 DEF OneInFlight, Coming
      <4>5. frame \in Others \cup {None}
        BY <4>1, <4>2 DEF OneInFlight, Coming
      <4> QED
        BY <1>0, <4>1, <4>4, <4>5 DEF Quiet, Free
    <3> QED
      BY <1>5, <3>1, <3>2
  <2> QED
    BY <2>1, QuietIsOne, PTL
<1> QED
  BY <1>2, <1>3, <1>4, <1>5 DEF CallerStep

\* What is known of the frames stays known if the queues and the caller that
\* waits stay as they are.
LEMMA SameFlight ==
  ASSUME OneInFlight, UNCHANGED <<req, rsp, m_list_msg_recv, frame>>,
         UNCHANGED <<pc, todo>>
  PROVE  OneInFlight'
<1>1. Own' = Own
  BY SameOwn
<1> QED
  BY <1>1 DEF OneInFlight, One, Single, Free, Others, Waited, Frame

\* MC_thread_client carries the frame on to the message list.
LEMMA ThreadFlight ==
  ASSUME TypeOK, ThreadInv, OneInFlight, McStep
  PROVE  OneInFlight'
<1> USE DEF TypeOK, cal, wire
<1>0. Frame' = Frame /\ Waited' = Waited /\ Others' = Others /\ Own' = Own
  <2>1. UNCHANGED <<pc, todo>>
    BY DEF McStep, McRecv, McData, McArm, McQueue
  <2> QED
    BY <2>1, SameOwn DEF Frame, Waited, Others
<1> HIDE DEF TypeOK
<1>1. CASE McRecv
  <2>1. /\ frame = None /\ rsp \in Seq(Frame) /\ rsp # <<>>
        /\ frame' = Head(rsp) /\ rsp' = Tail(rsp)
        /\ UNCHANGED <<req, m_list_msg_recv>>
    BY <1>1 DEF McRecv, ThreadInv, TypeOK
  <2>2. /\ rsp \in Seq(Others \cup Own) /\ One(rsp)
    BY DEF OneInFlight
  <2>3. Tail(rsp) \in Seq(Others \cup Own) /\ Head(rsp) \in Others \cup Own
    BY <2>1, <2>2, HeadTailProperties
  <2>4. One(Tail(rsp)) /\ (Head(rsp) \in Waited => Free(Tail(rsp)))
    BY <2>1, <2>2, TailSingle DEF One, Free, Others
  <2>5. Free(rsp) => Free(Tail(rsp)) /\ Head(rsp) \notin Waited
    BY <2>1, HeadTailProperties DEF Free, Others
  <2> HIDE DEF Free, One
  <2>6. Free(req)' = Free(req) /\ Free(m_list_msg_recv)' = Free(m_list_msg_recv)
        /\ Free(rsp)' = Free(Tail(rsp))
    BY <1>0, <2>1 DEF Free
  <2>7. One(req)' = One(req) /\ One(m_list_msg_recv)' = One(m_list_msg_recv)
        /\ One(rsp)' = One(Tail(rsp))
    BY <1>0, <2>1 DEF One, Single
  <2> QED
    BY <1>0, <2>1, <2>3, <2>4, <2>5, <2>6, <2>7 DEF OneInFlight
<1>2. CASE McData \/ McArm
  BY <1>2, SameFlight DEF McData, McArm, cal, wire
<1>3. CASE McQueue
  <2>1. /\ frame \in Others \cup Own /\ frame \in Frame
        /\ m_list_msg_recv \in Seq(Frame) /\ Len(m_list_msg_recv) < BufNum
        /\ m_list_msg_recv' = AddTail(m_list_msg_recv, frame)
        /\ frame' = None /\ UNCHANGED <<req, rsp>>
    BY <1>3 DEF McQueue, ThreadInv, OneInFlight, TypeOK, wire
  <2> DEFINE q == AddTail(m_list_msg_recv, frame)
  <2>2. q \in Seq(Others \cup Own)
    BY <2>1, AddTailType DEF OneInFlight
  <2>3. One(q)
    BY <2>1, AddTailOne DEF OneInFlight
  <2>4. Free(m_list_msg_recv) /\ frame \notin Waited => Free(q)
    BY <2>1, AddTailType DEF Free, Others
  <2> HIDE DEF q
  <2>5. Free(req)' = Free(req) /\ Free(rsp)' = Free(rsp)
        /\ Free(m_list_msg_recv)' = Free(q)
    BY <1>0, <2>1 DEF Free, q
  <2>6. One(req)' = One(req) /\ One(rsp)' = One(rsp)
        /\ One(m_list_msg_recv)' = One(q)
    BY <1>0, <2>1 DEF One, Single, q
  <2>7. None \notin Waited
    BY FrameAssumption DEF Waited
  <2>8. m_list_msg_recv' = q
    BY <2>1 DEF q
  <2> QED
    BY <1>0, <2>1, <2>2, <2>3, <2>4, <2>5, <2>6, <2>7, <2>8 DEF OneInFlight
<1> QED
  BY <1>1, <1>2, <1>3 DEF McStep

\* The device takes a request and may answer it; beats are not waited for.
LEMMA OtherFlight ==
  ASSUME TypeOK, OneInFlight, PeerServe \/ PeerBeat
  PROVE  OneInFlight'
<1>0. Frame' = Frame /\ Waited' = Waited /\ Others' = Others /\ Own' = Own
  <2>1. UNCHANGED <<pc, todo>>
    BY DEF PeerServe, PeerBeat, cal
  <2> QED
    BY <2>1, SameOwn DEF Frame, Waited, Others
<1>1. \A q : Free(q)' = Free(q) /\ One(q)' = One(q)
  BY <1>0 DEF Free, One, Single
<1>2. /\ req \in Seq(Others \cup Own) /\ rsp \in Seq(Others \cup Own)
      /\ One(req) /\ One(rsp) /\ rsp \in Seq(Frame) /\ req \in Seq(Requests)
      /\ relay \subseteq DO
  BY DEF OneInFlight, TypeOK
<1>3. CASE PeerServe
  <2> DEFINE h == Head(req)
             r == Reply(h)
  <2>1. /\ req # <<>> /\ req' = Tail(req)
        /\ rsp' = rsp \/ rsp' = Append(rsp, r)
        /\ UNCHANGED <<frame, m_list_msg_recv>>
    BY <1>3 DEF PeerServe, thr
  <2>2. h \in Requests /\ h \in Others \cup Own /\ Tail(req) \in Seq(Others \cup Own)
    BY <1>2, <2>1, HeadTailProperties
  <2>3. h \in Frame
    BY <2>2, RequestFacts
  <2>4. /\ r \in Frame /\ r.ssid = h.ssid /\ r.what = h.what
        /\ h.ssid = "set" => r.on = h.on
    <3>1. \A q \in Requests :
            /\ Reply(q) \in Frame /\ Reply(q).ssid = q.ssid
            /\ Reply(q).what = q.what
            /\ q.ssid = "set" => Reply(q).on = q.on
      BY <1>2, ReplyFacts
    <3> HIDE DEF h
    <3> QED
      BY <2>2, <3>1
  <2> HIDE DEF h, r
  <2>5. r \in Waited <=> h \in Waited
    BY <2>3, <2>4 DEF Waited
  <2>6. r \in Others \cup Own
    <3>1. CASE h \in Others
      BY <2>4, <2>5, <3>1 DEF Others
    <3>2. CASE h \in Own
      <4>1. PICK c \in Callers : Asks(c, h)
        BY <3>2 DEF Own
      <4>2. Asks(c, r)
        BY <2>4, <4>1 DEF Asks
      <4>3. r \in Waited
        BY <2>5, <3>2 DEF Own
      <4> QED
        BY <4>2, <4>3 DEF Own
    <3> QED
      BY <2>2, <3>1, <3>2
  <2>7. One(Tail(req)) /\ (h \in Waited => Free(Tail(req)))
    <3>1. req \in Seq(Frame)
      BY <1>2, SeqWiden DEF Frame
    <3> QED
      BY <1>2, <2>1, <3>1, TailSingle DEF One, Free, Others, h
  <2>8. Free(req) => Free(Tail(req)) /\ h \notin Waited
    BY <2>1, HeadTailProperties DEF Free, Others, h
  <2>9. Append(rsp, r) \in Seq(Others \cup Own)
    BY <1>2, <2>6, AppendProperties
  <2>10. h \in Waited => Free(rsp)
    BY <2>8 DEF OneInFlight
  <2>11. One(Append(rsp, r))
    <3>1. CASE r \in Waited
      <4>1. rsp \in Seq(Frame \ Waited)
        BY <2>5, <2>10, <3>1 DEF Free, Others
      <4> QED
        BY <4>1, AppendSingle DEF One
    <3>2. CASE r \notin Waited
      BY <1>2, <2>4, <3>2, AppendOther DEF One
    <3> QED
      BY <3>1, <3>2
  <2>12. Free(rsp) /\ r \notin Waited => Free(Append(rsp, r))
    BY <2>4, AppendProperties DEF Free, Others
  <2>13. /\ rsp' \in Seq(Others \cup Own) /\ One(rsp')
         /\ Free(rsp) /\ r \notin Waited => Free(rsp')
    BY <1>2, <2>1, <2>9, <2>11, <2>12
  <2>14. /\ ~Free(rsp') => ~Free(rsp) \/ h \in Waited
         /\ ~Free(req') => ~Free(req) /\ h \notin Waited
    BY <2>1, <2>5, <2>7, <2>8, <2>13
  <2>15. /\ ~Free(req') => Free(rsp') /\ frame \notin Waited /\ Free(m_list_msg_recv)
         /\ ~Free(rsp') => frame \notin Waited /\ Free(m_list_msg_recv)
    BY <2>5, <2>8, <2>13, <2>14 DEF OneInFlight
  <2>16. /\ req' \in Seq(Others \cup Own) /\ One(req')
    BY <2>1, <2>2, <2>7
  <2> QED
    BY <1>0, <1>1, <2>1, <2>13, <2>15, <2>16 DEF OneInFlight
<1>4. CASE PeerBeat
  <2>1. rsp' = Append(rsp, Beat) /\ UNCHANGED <<req, frame, m_list_msg_recv>>
    BY <1>4 DEF PeerBeat, thr
  <2>2. Beat \in Others /\ Beat \in Frame /\ Beat \notin Waited
    BY FrameFacts DEF Others, Waited
  <2>3. Append(rsp, Beat) \in Seq(Others \cup Own)
    BY <1>2, <2>2, AppendProperties
  <2>4. One(Append(rsp, Beat))
    BY <1>2, <2>2, AppendOther DEF One
  <2>5. Free(rsp) => Free(Append(rsp, Beat))
    BY <2>2, AppendProperties DEF Free
  <2> QED
    BY <1>0, <1>1, <2>1, <2>3, <2>4, <2>5 DEF OneInFlight
<1> QED
  BY <1>3, <1>4

\* A login finds nothing under way.
LEMMA LoginFlight ==
  ASSUME ThreadInv, SessionInv, Login
  PROVE  OneInFlight'
<1>1. /\ ~online /\ UNCHANGED <<req, rsp, frame>> /\ m_list_msg_recv' = <<>>
  BY DEF Login, QueueEmptied, thr, wire
<1>2. req = <<>> /\ rsp = <<>> /\ frame = None
  BY <1>1 DEF SessionInv, ThreadInv
<1>3. <<>> \in Seq(Others')
  OBVIOUS
<1>4. Quiet'
  BY <1>1, <1>2, <1>3 DEF Quiet, Free
<1> QED
  BY <1>4, QuietIsOne, PTL

\* Every step but LateStep keeps the one frame with the caller that waits.
LEMMA FlightNext ==
  ASSUME TypeOK, LockInv, TodoInv, ThreadInv, SessionInv, InStep, [Next]_vars,
         ~LateStep
  PROVE  InStep'
<1> SUFFICES ASSUME online' PROVE OneInFlight'
  BY DEF InStep
<1>1. CASE UNCHANGED vars
  BY <1>1, SameFlight DEF InStep, vars, thr, cal, wire
<1>2. ASSUME NEW c \in Callers,
             Call(c) \/ CallRefresh(c) \/ CallAuto(c) \/ CallerStep(c)
      PROVE  OneInFlight'
  <2>1. online
    BY <1>2 DEF Call, CallRefresh, CallAuto, CallerStep, Lock, SwitchOff, Unlock, Send,
                SendFail, SetTimer, Take, Timeout
  <2> QED
    BY <1>2, <2>1, CallerFlight DEF InStep
<1>3. CASE McStep
  <2>1. online
    BY <1>3 DEF McStep, McRecv, McData, McArm, McQueue
  <2> QED
    BY <1>3, <2>1, ThreadFlight DEF InStep
<1>4. CASE PeerServe \/ PeerBeat
  BY <1>4, OtherFlight DEF InStep, PeerServe, PeerBeat
<1>5. CASE SetCfg \/ PeerSwitch \/ Tick
  BY <1>5, SameFlight DEF InStep, SetCfg, PeerSwitch, Tick, thr, cal, wire
<1>6. CASE Drop \/ Kick
  BY <1>6 DEF Drop, Kick
<1>7. CASE Login
  BY <1>7, LoginFlight
<1> QED
  BY <1>1, <1>2, <1>3, <1>4, <1>5, <1>6, <1>7 DEF Next

\* Only Take compares answers with requests and reads registers; in step it
\* finds its own answer.
LEMMA MatchNext ==
  ASSUME TypeOK, LockInv, TodoInv, InStep, [Next]_vars
  PROVE  /\ wrong' = wrong
         /\ ReadingsMatch => ReadingsMatch'
<1>1. ASSUME UNCHANGED <<reading, wrong>>
      PROVE  wrong' = wrong /\ (ReadingsMatch => ReadingsMatch')
  BY <1>1 DEF ReadingsMatch
<1>2. ASSUME NEW c \in Callers, Take(c)
      PROVE  wrong' = wrong /\ (ReadingsMatch => ReadingsMatch')
  <2>1. PICK i \in Answers(c) : UseAnswer(Head(todo[c]), m_list_msg_recv[i])
    BY <1>2 DEF Take
  <2>2. pc[c] = "wait" /\ online
    BY <1>2 DEF Take
  <2>3. OneInFlight
    BY <2>2 DEF InStep
  <2>4. Asks(c, m_list_msg_recv[i])
    BY <2>1, <2>2, <2>3, TakeClears
  <2>5. m_list_msg_recv[i].ssid = Head(todo[c]).ssid
    BY <2>1 DEF Answers
  <2> DEFINE q == Head(todo[c])
             a == m_list_msg_recv[i]
  <2>6. a.what = q.what /\ (q.ssid = "set" => a.on = q.on)
    BY <2>4, <2>5 DEF Asks
  <2>7. wrong' = wrong
    BY <2>1, <2>6 DEF UseAnswer
  <2>8. reading' = IF q.ssid = "reg" THEN [reading EXCEPT ![q.what] = q.what]
                   ELSE reading
    BY <2>1, <2>6 DEF UseAnswer
  <2>9. reading \in [Reg -> Reg \cup {"unread"}]
    BY DEF TypeOK
  <2> HIDE DEF q, a
  <2> QED
    BY <2>7, <2>8, <2>9 DEF ReadingsMatch
<1>3. ASSUME NEW c \in Callers,
             \/ Call(c) \/ CallRefresh(c) \/ CallAuto(c) \/ Lock(c) \/ SwitchOff(c)
             \/ Unlock(c) \/ Send(c) \/ SendFail(c) \/ SetTimer(c) \/ Timeout(c)
      PROVE  UNCHANGED <<reading, wrong>>
  BY <1>3 DEF Call, CallRefresh, CallAuto, Lock, SwitchOff, Unlock, Send, SendFail,
              SetTimer, Timeout, dev, hist
<1>4. CASE \/ UNCHANGED vars \/ SetCfg \/ McStep \/ Drop \/ Kick \/ Login
           \/ PeerServe \/ PeerBeat \/ PeerSwitch \/ Tick
  <2>1. UNCHANGED <<reading, wrong>>
    BY <1>4 DEF vars, SetCfg, McStep, McRecv, McData, McArm, McQueue, Drop, Kick,
                Login, PeerServe, PeerBeat, PeerSwitch, Tick, dev, hist
  <2> QED
    BY <1>1, <2>1
<1> QED
  BY <1>1, <1>2, <1>3, <1>4 DEF Next, CallerStep

-----------------------------------------------------------------------------
(***************************************************************************)
(* The theorems.                                                           *)
(***************************************************************************)

\* The invariant is inductive.
LEMMA StepIInv == IInv /\ [Next]_vars => IInv'
  BY TypeNext, LockNext, TodoNext, SessionNext, TimedNext, ShownNext DEF IInv

\* IInv holds in every reachable state.
THEOREM Invariance == Spec => []IInv
  BY InitIInv, StepIInv, PTL DEF Spec

\* Every variable has its type: the queue stays below SOCK_MSG_BUFNUM and no
\* timer is ahead of the clock.
THEOREM TypeCorrect == Spec => []TypeOK
  BY Invariance, PTL DEF IInv

\* A relay ordered on is being timed for SetDOAuto.
THEOREM CommandedTimed == Spec => []CommandedOnIsTimed
  BY Invariance, PTL DEF IInv

\* A relay shown on is timed, or was ordered off and not heard of since.
THEOREM ShownTimed == Spec => []ShownOnIsTimed
<1>1. IInv => ShownOnIsTimed
  BY DEF IInv, ThreadInv, ShownInv, ShownOnIsTimed
<1> QED
  BY <1>1, Invariance, PTL

\* A request takes the answer to another one only in a session that is out
\* of step: where more is under way than the answer of the caller that waits.
WrongOnlyOutOfStep ==
  /\ wrong' # wrong => ~InStep
  /\ ReadingsMatch /\ ~ReadingsMatch' => ~InStep

THEOREM WrongAnswersOutOfStep == Spec => [][WrongOnlyOutOfStep]_vars
<1>1. IInv /\ [Next]_vars => WrongOnlyOutOfStep
  BY MatchNext DEF IInv, WrongOnlyOutOfStep
<1> QED
  BY <1>1, Invariance, PTL DEF Spec

\* A session gets out of step by one kind of step only, a caller that gives
\* up after SOCK_MSG_TIMEOUT while its answer is under way (the requests look
\* at nothing but the first frame of their kind), and the next login puts the
\* device in step again, because DevLogin empties the queue.
LostByLatenessOnly ==
  /\ InStep /\ ~InStep' => LateStep
  /\ Login => OneInFlight'

THEOREM StepLostByLateness == Spec => [][LostByLatenessOnly]_vars
<1>1. IInv /\ [Next]_vars => LostByLatenessOnly
  BY FlightNext, LoginFlight DEF IInv, LostByLatenessOnly
<1> QED
  BY <1>1, Invariance, PTL DEF Spec

\* A caller that gives up takes a step.
LEMMA NoLateStutter ==
  ASSUME TypeOK, [~LateStep]_vars
  PROVE  ~LateStep
<1> SUFFICES ASSUME UNCHANGED vars, NEW c \in Callers, Timeout(c) PROVE FALSE
  BY DEF LateStep
<1>1. pc[c] = "wait" /\ pc' = [pc EXCEPT ![c] = "next"] /\ pc' = pc
  BY DEF Timeout, Goto, vars, cal
<1>2. pc \in [Callers -> {"idle", "lock", "auto", "next", "sent", "wait"}]
  BY DEF TypeOK
<1> QED
  BY <1>1, <1>2

\* While no caller gives up on an answer under way, whatever else happens (a
\* device that does not answer, a lost session, a kick), every request gets
\* its own answer and every reading comes from its own register.
OwnInv == InStep /\ AnswersMatch /\ ReadingsMatch

THEOREM OwnUnlessLate ==
  Spec /\ [][~LateStep]_vars => [](AnswersMatch /\ ReadingsMatch)
<1>1. Init => OwnInv
  BY DEF Init, OwnInv, InStep, AnswersMatch, ReadingsMatch
<1>2. IInv /\ OwnInv /\ [Next]_vars /\ [~LateStep]_vars => OwnInv'
  <2> SUFFICES ASSUME IInv, OwnInv, [Next]_vars, [~LateStep]_vars PROVE OwnInv'
    OBVIOUS
  <2>1. ~LateStep
    BY NoLateStutter DEF IInv
  <2> QED
    BY <2>1, FlightNext, MatchNext DEF IInv, OwnInv, AnswersMatch
<1>3. OwnInv => AnswersMatch /\ ReadingsMatch
  BY DEF OwnInv
<1> QED
  BY <1>1, <1>2, <1>3, Invariance, PTL DEF Spec

\* Where answers are never late, nobody gives up on one.
LEMMA NeverLate == ASSUME ~Late PROVE Spec => [][~LateStep]_vars
<1>1. [Next]_vars => ~LateStep
  BY DEF LateStep, Timeout
<1> QED
  BY <1>1, PTL DEF Spec

\* If no answer comes after SOCK_MSG_TIMEOUT, no request takes the answer to
\* another one.
THEOREM OwnAnswer == ASSUME ~Late PROVE Spec => []AnswersMatch
  BY NeverLate, OwnUnlessLate, PTL

\* If no answer comes after SOCK_MSG_TIMEOUT, each reading comes from its own
\* register.
THEOREM OwnReading == ASSUME ~Late PROVE Spec => []ReadingsMatch
  BY NeverLate, OwnUnlessLate, PTL

-----------------------------------------------------------------------------
(***************************************************************************)
(* The timers, which the client thread tests and starts without the lock   *)
(* under which SetDO and SetDOAuto use them.                               *)
(***************************************************************************)
\* The clock goes on while the thread is on its way: a timer it found at rest
\* is at rest still, or was started since.
ArmedInv == \A x \in armed : m_Do_count[x[1]] = 0 \/ m_Do_count[x[1]] >= x[2]

\* A timer that runs is set or cleared by SetDO for its relay, cleared by a
\* kick, or set back by the client thread to when it looked at the report.
TimerBy(i) == \/ \E c \in Callers : SetTimer(c) /\ Head(todo[c]).what = i
              \/ Kick

RunningTimer ==
  \A i \in DO : m_Do_count[i] > 0 /\ m_Do_count'[i] # m_Do_count[i] =>
    TimerBy(i) \/ (McArm /\ m_Do_count'[i] < m_Do_count[i])

\* What McArm makes of a timer.
LEMMA ArmedTime ==
  ASSUME TypeOK, McArm, NEW i \in DO, m_Do_count'[i] # m_Do_count[i]
  PROVE  <<i, m_Do_count'[i]>> \in armed /\ m_Do_count'[i] \in 1 .. now
<1>1. CASE \E t \in 1 .. now : <<i, t>> \in armed
  <2>1. m_Do_count'[i] = CHOOSE t \in 1 .. now : <<i, t>> \in armed
    BY <1>1, Zenon DEF McArm
  <2> QED
    BY <1>1, <2>1
<1>2. CASE ~\E t \in 1 .. now : <<i, t>> \in armed
  BY <1>2, Zenon DEF McArm
<1> QED
  BY <1>1, <1>2

\* A caller at SetTimer orders a relay.
LEMMA TimerOfRelay ==
  ASSUME TypeOK, TodoInv, NEW c \in Callers, SetTimer(c)
  PROVE  /\ Head(todo[c]).what \in DO /\ Head(todo[c]).ssid = "set"
         /\ m_Do_count' = [m_Do_count EXCEPT
                              ![Head(todo[c]).what] = IF Head(todo[c]).on # {} THEN now ELSE 0]
         /\ UNCHANGED <<armed, frame, now>>
<1>1. pc[c] = "sent" /\ todo[c] \in Seq(Requests) /\ todo[c] # <<>>
  BY DEF SetTimer, TypeOK, TodoInv, Asking
<1>2. Head(todo[c]) \in Requests /\ Head(todo[c]).ssid = "set"
  BY <1>1, HeadTailProperties DEF TodoInv
<1> QED
  BY <1>2, RequestFacts DEF SetTimer, Timer, thr

\* The steps that leave all timers alone.
LEMMA TimersAlone ==
  ASSUME [Next]_vars, ~McArm, ~Kick, \A c \in Callers : ~SetTimer(c)
  PROVE  UNCHANGED m_Do_count
  BY DEF Next, vars, CallerStep, Call, CallRefresh, CallAuto, Lock, SwitchOff, Unlock,
         Send, SendFail, Take, UseAnswer, Timeout, McStep, McRecv, McData, McQueue,
         SetCfg, Drop, Login, PeerServe, PeerBeat, PeerSwitch, Tick, dev

\* The steps that leave alone what the thread found.
LEMMA FoundAlone ==
  ASSUME [Next]_vars, ~McStep
  PROVE  UNCHANGED <<armed, frame>>
  BY DEF Next, vars, CallerStep, Call, CallRefresh, CallAuto, Lock, SwitchOff, Unlock,
         Send, SendFail, SetTimer, Take, Timeout, SetCfg, Drop, Kick, Login, PeerServe,
         PeerBeat, PeerSwitch, Tick, thr

\* Every step keeps ArmedInv.
LEMMA ArmedNext ==
  ASSUME TypeOK, TodoInv, ThreadInv, ArmedInv, [Next]_vars
  PROVE  ArmedInv'
<1>0. armed \subseteq DO \X (1 .. now) /\ m_Do_count \in [DO -> 0 .. now] /\ now \in Nat
  BY DEF TypeOK
<1>1. CASE McArm
  BY <1>1 DEF McArm, ArmedInv
<1>2. CASE McData
  BY <1>0, <1>2 DEF McData, AtRest, ArmedInv
<1>3. CASE McRecv \/ McQueue
  BY <1>3 DEF McRecv, McQueue, dev, ArmedInv
<1>4. CASE Kick
  BY <1>0, <1>4 DEF Kick, thr, ArmedInv
<1>5. ASSUME NEW c \in Callers, SetTimer(c) PROVE ArmedInv'
  <2>1. /\ Head(todo[c]).what \in DO /\ UNCHANGED armed
        /\ m_Do_count' = [m_Do_count EXCEPT
                            ![Head(todo[c]).what] = IF Head(todo[c]).on # {} THEN now ELSE 0]
    BY <1>5, TimerOfRelay
  <2> QED
    BY <1>0, <2>1 DEF ArmedInv
<1>6. CASE ~McStep /\ ~Kick /\ \A c \in Callers : ~SetTimer(c)
  BY <1>6, TimersAlone, FoundAlone DEF ArmedInv, McStep
<1> QED
  BY <1>1, <1>2, <1>3, <1>4, <1>5, <1>6 DEF McStep

\* No report of the device, and nothing else that is not an order to this
\* relay, puts its switch-off by SetDOAuto off: the client thread never sets a
\* running timer forward, although it tests it and starts it in two steps.
THEOREM NeverPostponed == Spec => [][RunningTimer]_vars
<1>1. Init => ArmedInv
  BY DEF Init, ArmedInv
<1>2. IInv /\ ArmedInv /\ [Next]_vars => ArmedInv'
  BY ArmedNext DEF IInv
<1>3. IInv /\ ArmedInv /\ [Next]_vars => RunningTimer
  <2> SUFFICES ASSUME IInv, ArmedInv, [Next]_vars, NEW i \in DO,
                      m_Do_count[i] > 0, m_Do_count'[i] # m_Do_count[i]
               PROVE  TimerBy(i) \/ (McArm /\ m_Do_count'[i] < m_Do_count[i])
    BY DEF RunningTimer
  <2>0. TypeOK /\ TodoInv /\ m_Do_count \in [DO -> 0 .. now] /\ now \in Nat
    BY DEF IInv, TypeOK
  <2>1. CASE McArm
    <3>1. <<i, m_Do_count'[i]>> \in armed /\ m_Do_count'[i] \in 1 .. now
      BY <2>0, <2>1, ArmedTime
    <3>2. m_Do_count[i] >= m_Do_count'[i]
      BY <2>0, <3>1 DEF ArmedInv
    <3> QED
      BY <2>0, <2>1, <3>1, <3>2
  <2>2. ASSUME NEW c \in Callers, SetTimer(c) PROVE TimerBy(i)
    <3>1. Head(todo[c]).what = i
      BY <2>0, <2>2, TimerOfRelay
    <3> QED
      BY <2>2, <3>1 DEF TimerBy
  <2> QED
    BY <2>1, <2>2, TimersAlone DEF TimerBy
<1> QED
  BY <1>1, <1>2, <1>3, Invariance, PTL DEF Spec

\* While the device is in step the report under way answers a GetDO that
\* still waits, with the lock: no SetDO comes between test and start.
RestInv == armed # {} =>
  online /\ frame \in Waited /\ frame.ssid = "do"
    /\ \A x \in armed : m_Do_count[x[1]] = 0

\* Every step that is not late keeps RestInv.
LEMMA RestNext ==
  ASSUME IInv, InStep, RestInv, [Next]_vars
  PROVE  RestInv'
<1>0. /\ TypeOK /\ LockInv /\ TodoInv /\ ThreadInv /\ SessionInv
      /\ armed \subseteq DO \X (1 .. now) /\ m_Do_count \in [DO -> 0 .. now]
      /\ frame \in Frame \cup {None} /\ Waited' = Waited
  BY DEF IInv, TypeOK, Waited, Frame
<1>1. CASE McArm
  BY <1>1 DEF McArm, RestInv
<1>2. CASE McData
  <2>1. frame \in Frame /\ online
    BY <1>0, <1>2 DEF McData, ThreadInv, SessionInv
  <2>2. mc = "data" /\ armed = {} /\ UNCHANGED <<frame, online, m_Do_count>>
    BY <1>0, <1>2 DEF McData, ThreadInv
  <2>3. CASE frame.ssid = "do"
    <3>1. armed' = AtRest(frame.on) \X {now} /\ frame \in Waited
      BY <1>2, <2>1, <2>3 DEF McData, Waited
    <3>2. \A x \in armed' : m_Do_count[x[1]] = 0
      BY <3>1 DEF AtRest
    <3> QED
      BY <1>0, <2>1, <2>2, <2>3, <3>1, <3>2 DEF RestInv
  <2>4. CASE frame.ssid # "do"
    BY <1>2, <2>2, <2>4 DEF McData, RestInv
  <2> QED
    BY <2>3, <2>4
<1>3. CASE McRecv \/ McQueue
  <2>1. armed = {} /\ armed' = {}
    BY <1>0, <1>3 DEF McRecv, McQueue, ThreadInv
  <2> QED
    BY <2>1 DEF RestInv
<1>4. CASE Kick \/ Drop
  <2>1. armed = {} /\ armed' = {}
    BY <1>0, <1>4 DEF Kick, Drop, thr, ThreadInv
  <2> QED
    BY <2>1 DEF RestInv
<1>5. ASSUME NEW c \in Callers, SetTimer(c) PROVE RestInv'
  <2>1. Head(todo[c]).ssid = "set" /\ pc[c] \in Asking /\ UNCHANGED <<armed, frame, online>>
    BY <1>0, <1>5, TimerOfRelay DEF SetTimer, Asking
  <2>2. ASSUME armed # {} PROVE FALSE
    <3>1. frame \in Own /\ frame.ssid = "do"
      BY <2>2, FrameAssumption DEF RestInv, InStep, OneInFlight, Others, Waited
    <3>2. frame.ssid = Head(todo[c]).ssid
      BY <1>0, <2>1, <3>1, OwnIsAsked DEF Asks
    <3> QED
      BY <2>1, <3>1, <3>2
  <2> QED
    BY <2>1, <2>2 DEF RestInv
<1>6. CASE Login
  <2>1. armed = {} /\ armed' = {}
    BY <1>0, <1>6 DEF Login, thr, SessionInv, ThreadInv
  <2> QED
    BY <2>1 DEF RestInv
<1>7. CASE ~McStep /\ ~Kick /\ ~Drop /\ ~Login /\ \A c \in Callers : ~SetTimer(c)
  <2>1. UNCHANGED <<armed, frame, m_Do_count>>
    BY <1>7, TimersAlone, FoundAlone DEF McStep
  <2>2. UNCHANGED online
    BY <1>7 DEF Next, vars, CallerStep, Call, CallRefresh, CallAuto, Lock, SwitchOff,
                Unlock, Send, SendFail, Take, Timeout, SetCfg, PeerServe, PeerBeat,
                PeerSwitch, Tick
  <2> QED
    BY <1>0, <2>1, <2>2 DEF RestInv
<1> QED
  BY <1>1, <1>2, <1>3, <1>4, <1>5, <1>6, <1>7 DEF McStep

\* A timer that runs is only changed by an order to its relay, or a kick.
ByOrderOnly ==
  \A i \in DO : m_Do_count[i] > 0 /\ m_Do_count'[i] # m_Do_count[i] => TimerBy(i)

\* The unlocked test and write of m_Do_count (SockDevice.cpp:939) does no harm
\* while no caller gives up on an answer under way: then the thread never
\* overwrites a time that SetDO took.
THEOREM TimersKeptUnlessLate == Spec /\ [][~LateStep]_vars => [][ByOrderOnly]_vars
<1>1. Init => InStep /\ RestInv
  BY DEF Init, InStep, RestInv
<1>2. IInv /\ InStep /\ RestInv /\ [Next]_vars /\ [~LateStep]_vars => InStep' /\ RestInv'
  <2> SUFFICES ASSUME IInv, InStep, RestInv, [Next]_vars, [~LateStep]_vars
               PROVE  InStep' /\ RestInv'
    OBVIOUS
  <2>1. ~LateStep
    BY NoLateStutter DEF IInv
  <2> QED
    BY <2>1, FlightNext, RestNext DEF IInv
<1>3. IInv /\ RestInv /\ [Next]_vars => ByOrderOnly
  <2> SUFFICES ASSUME IInv, RestInv, [Next]_vars, NEW i \in DO,
                      m_Do_count[i] > 0, m_Do_count'[i] # m_Do_count[i]
               PROVE  TimerBy(i)
    BY DEF ByOrderOnly
  <2>0. TypeOK /\ TodoInv /\ m_Do_count \in [DO -> 0 .. now] /\ now \in Nat
    BY DEF IInv, TypeOK
  <2>1. CASE McArm
    <3>1. <<i, m_Do_count'[i]>> \in armed
      BY <2>0, <2>1, ArmedTime
    <3>2. m_Do_count[i] = 0
      BY <3>1 DEF RestInv
    <3> QED
      BY <3>2
  <2>2. ASSUME NEW c \in Callers, SetTimer(c) PROVE TimerBy(i)
    <3>1. Head(todo[c]).what = i
      BY <2>0, <2>2, TimerOfRelay
    <3> QED
      BY <2>2, <3>1 DEF TimerBy
  <2> QED
    BY <2>1, <2>2, TimersAlone DEF TimerBy
<1> QED
  BY <1>1, <1>2, <1>3, Invariance, PTL DEF Spec

-----------------------------------------------------------------------------
(***************************************************************************)
(* The device lock comes back: what RequestsReturn rests on.               *)
(***************************************************************************)
\* Inside a request, a group of requests or SetDOAuto.
Inside == Asking \cup {"auto", "next"}

\* The lock is held by a caller that is inside; who is outside has nothing
\* left to ask, and SetDOAuto has not decided yet what to ask.
HeldInv ==
  /\ m_lock # None => pc[m_lock] \in Inside
  /\ \A c \in Callers : /\ pc[c] = "idle" => todo[c] = <<>>
                        /\ auto[c] # None => pc[c] \in {"lock", "auto"} /\ todo[c] = <<>>

\* The device lock is nobody's exactly while nobody is inside: no way out of
\* a request, offline, failed or timed out, keeps it.
LockWithCaller ==
  /\ \A c \in Callers : m_lock = c <=> pc[c] \in Inside
  /\ m_lock = None <=> \A c \in Callers : pc[c] \notin Inside

\* How many of its steps a caller has before it at most, until it returns
\* the lock.
HolderLeft(c) ==
  CASE pc[c] = "auto" -> 5
    [] pc[c] = "next" -> 3 * Len(todo[c]) + 1
    [] pc[c] = "sent" -> 3 * Len(todo[c])
    [] pc[c] = "wait" -> 3 * Len(todo[c]) - 1
    [] OTHER -> 0

\* Every step of the holder brings it nearer to returning the lock, and
\* nothing anybody else does, reports, losses of the session and logins
\* included, takes it further away.
HolderNearer ==
  \A c \in Callers : m_lock = c =>
    /\ CallerStep(c) => HolderLeft(c)' < HolderLeft(c)
    /\ ~CallerStep(c) => HolderLeft(c)' = HolderLeft(c)

\* Every step keeps it so.
LEMMA HeldNext ==
  ASSUME TypeOK, LockInv, TodoInv, HeldInv, [Next]_vars
  PROVE  HeldInv'
<1> USE DEF Goto, dev, thr, cal, wire, hist
<1>1. /\ pc \in [Callers -> {"idle", "lock", "auto", "next", "sent", "wait"}]
      /\ todo \in [Callers -> Seq(Requests)] /\ m_lock \in Callers \cup {None}
      /\ auto \in [Callers -> [index : DO, time_now : 1 .. now] \cup {None}]
      /\ None \notin Callers
  BY Bounds DEF TypeOK
<1>2. ASSUME NEW c \in Callers, Call(c) \/ CallRefresh(c) \/ CallAuto(c)
      PROVE  HeldInv'
  <2>1. m_lock' = m_lock /\ m_lock # c
    BY <1>1, <1>2 DEF HeldInv, Inside, Asking, Call, CallRefresh, CallAuto
  <2>2. auto[c] = None /\ todo[c] = <<>> /\ pc' = [pc EXCEPT ![c] = "lock"]
    BY <1>2 DEF HeldInv, Call, CallRefresh, CallAuto
  <2>3. \A d \in Callers \ {c} : todo'[d] = todo[d] /\ auto'[d] = auto[d]
    BY <1>1, <1>2 DEF Call, CallRefresh, CallAuto
  <2>4. auto'[c] = None \/ todo'[c] = <<>>
    BY <1>1, <1>2, <2>2 DEF Call, CallRefresh, CallAuto
  <2> QED
    BY <1>1, <2>1, <2>2, <2>3, <2>4 DEF HeldInv
<1>3. ASSUME NEW c \in Callers, Lock(c) PROVE HeldInv'
  BY <1>1, <1>3 DEF HeldInv, Inside, Asking, Lock, LockFree
<1>4. ASSUME NEW c \in Callers, Unlock(c) PROVE HeldInv'
  BY <1>1, <1>4 DEF HeldInv, Inside, Unlock
<1>5. ASSUME NEW c \in Callers,
             SwitchOff(c) \/ Send(c) \/ SendFail(c) \/ SetTimer(c) \/ Take(c) \/ Timeout(c)
      PROVE  HeldInv'
  <2>1. m_lock = c /\ m_lock' = m_lock
    BY <1>5 DEF LockInv, Asking, SwitchOff, Send, SendFail, SetTimer, Take, Timeout
  <2>2. pc'[c] \in Asking \cup {"next"} /\ auto'[c] = None
    BY <1>1, <1>5 DEF HeldInv, Asking, SwitchOff, Send, SendFail, SetTimer, Take, Timeout
  <2>3. \A d \in Callers \ {c} :
          pc'[d] = pc[d] /\ todo'[d] = todo[d] /\ auto'[d] = auto[d]
    BY <1>1, <1>5 DEF SwitchOff, Send, SendFail, SetTimer, Take, Timeout, Finish
  <2> QED
    BY <1>1, <2>1, <2>2, <2>3 DEF HeldInv, Inside, Asking
<1>6. CASE SetCfg \/ McStep \/ Drop \/ Kick \/ Login \/ PeerServe \/ PeerBeat
           \/ PeerSwitch \/ Tick \/ UNCHANGED vars
  <2>1. UNCHANGED <<m_lock, pc, todo, auto>>
    BY <1>6 DEF SetCfg, McStep, McRecv, McData, McArm, McQueue, Drop, Kick, Login,
                PeerServe, PeerBeat, PeerSwitch, Tick, vars
  <2> QED
    BY <2>1 DEF HeldInv
<1> QED
  BY <1>2, <1>3, <1>4, <1>5, <1>6 DEF Next, CallerStep

\* So it is in every reachable state.
LEMMA HeldInvariance == Spec => [](IInv /\ HeldInv)
<1>1. Init => HeldInv
  BY DEF Init, HeldInv
<1>2. IInv /\ HeldInv /\ [Next]_vars => HeldInv'
  BY HeldNext DEF IInv
<1> QED
  BY <1>1, <1>2, Invariance, PTL DEF Spec

\* However many callers there are, the device lock is with the one that is
\* inside a request and with nobody else.
THEOREM LockReturned == Spec => []LockWithCaller
<1>1. IInv /\ HeldInv => LockWithCaller
  BY Bounds DEF IInv, TypeOK, LockInv, HeldInv, LockWithCaller, Inside
<1> QED
  BY <1>1, HeldInvariance, PTL

\* A step of the holder.
LEMMA HolderStep ==
  ASSUME IInv, HeldInv, NEW c \in Callers, m_lock = c, CallerStep(c)
  PROVE  HolderLeft(c)' < HolderLeft(c)
<1> USE DEF Goto
<1>1. /\ pc \in [Callers -> {"idle", "lock", "auto", "next", "sent", "wait"}]
      /\ todo \in [Callers -> Seq(Requests)]
  BY DEF IInv, TypeOK
<1>2. Len(todo[c]) \in Nat
  BY <1>1, LenProperties
<1>3. ~Lock(c)
  BY Bounds DEF Lock, LockFree
<1>4. CASE Unlock(c)
  BY <1>1, <1>2, <1>4 DEF HolderLeft, Unlock
<1>5. CASE SwitchOff(c)
  <2>1. todo[c] = <<>> /\ pc'[c] = "next" /\ pc[c] = "auto"
    BY <1>1, <1>5 DEF IInv, TodoInv, HeldInv, SwitchOff
  <2>2. todo'[c] = <<>> \/ todo'[c] = <<SetDO(auto[c].index, 0)>>
    BY <1>1, <1>5, <2>1 DEF SwitchOff
  <2>3. Len(todo'[c]) = 0 \/ Len(todo'[c]) = 1
    <3> DEFINE q == SetDO(auto[c].index, 0)
    <3> HIDE DEF q
    <3>1. Len(<<>>) = 0 /\ Len(<<q>>) = 1
      OBVIOUS
    <3> QED
      BY <2>2, <3>1 DEF q
  <2>4. CASE Len(todo'[c]) = 0
    BY <2>1, <2>4 DEF HolderLeft
  <2>5. CASE Len(todo'[c]) = 1
    BY <2>1, <2>5 DEF HolderLeft
  <2> QED
    BY <2>3, <2>4, <2>5
<1>6. CASE SetTimer(c)
  BY <1>1, <1>2, <1>6 DEF HolderLeft, SetTimer, cal
<1>7. CASE Send(c) \/ SendFail(c) \/ Take(c) \/ Timeout(c)
  <2>1. todo[c] # <<>>
    BY <1>7 DEF IInv, TodoInv, Asking, Send, SendFail, Take, Timeout
  <2>2. Len(Tail(todo[c])) = Len(todo[c]) - 1
    BY <1>1, <2>1, HeadTailProperties
  <2>3. CASE Send(c)
    BY <1>1, <1>2, <2>2, <2>3 DEF HolderLeft, Send, Finish
  <2>4. CASE SendFail(c) \/ Take(c) \/ Timeout(c)
    BY <1>1, <1>2, <2>2, <2>4 DEF HolderLeft, SendFail, Take, Timeout, Finish
  <2> QED
    BY <1>7, <2>3, <2>4
<1> QED
  BY <1>3, <1>4, <1>5, <1>6, <1>7 DEF CallerStep

\* A group of n requests keeps the device lock for at most 3n + 1 steps of
\* its own, SetDOAuto for five: the safety content of RequestsReturn.
THEOREM RequestEnds == Spec => [][HolderNearer]_vars
<1>1. IInv /\ HeldInv /\ [Next]_vars => HolderNearer
  <2> SUFFICES ASSUME IInv, HeldInv, [Next]_vars, NEW c \in Callers, m_lock = c,
                      ~CallerStep(c)
               PROVE  HolderLeft(c)' = HolderLeft(c)
    BY HolderStep DEF HolderNearer
  <2> USE DEF Goto, dev, thr, cal, wire, hist
  <2>1. pc[c] \in Inside
    BY Bounds DEF HeldInv
  <2>2. ASSUME NEW d \in Callers, Call(d) \/ CallRefresh(d) \/ CallAuto(d)
        PROVE  pc'[c] = pc[c] /\ todo'[c] = todo[c]
    <3>1. d # c
      BY <2>1, <2>2 DEF Inside, Asking, Call, CallRefresh, CallAuto
    <3> QED
      BY <2>2, <3>1 DEF Call, CallRefresh, CallAuto, IInv, TypeOK
  <2>3. ASSUME NEW d \in Callers, CallerStep(d) PROVE FALSE
    <3>1. m_lock = d
      BY <2>3, Bounds DEF IInv, LockInv, Asking, CallerStep, Lock, LockFree, Unlock,
                          SwitchOff, Send, SendFail, SetTimer, Take, Timeout
    <3> QED
      BY <2>3, <3>1
  <2>4. ASSUME SetCfg \/ McStep \/ Drop \/ Kick \/ Login \/ PeerServe \/ PeerBeat
               \/ PeerSwitch \/ Tick \/ UNCHANGED vars
        PROVE  pc' = pc /\ todo' = todo
    BY <2>4 DEF SetCfg, McStep, McRecv, McData, McArm, McQueue, Drop, Kick, Login,
                PeerServe, PeerBeat, PeerSwitch, Tick, vars
  <2>5. pc'[c] = pc[c] /\ todo'[c] = todo[c]
    BY <2>2, <2>3, <2>4 DEF Next
  <2> QED
    BY <2>5 DEF HolderLeft
<1> QED
  BY <1>1, HeldInvariance, PTL DEF Spec
=============================================================================
