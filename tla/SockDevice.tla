----------------------------- MODULE SockDevice -----------------------------
(***************************************************************************)
(* What CSockDevice does over its channel: the Modbus requests SetDO,      *)
(* GetDO, GetDI, GetAI, GetPowerV, GetLoadI, GetTemp, ResetPower, the      *)
(* group RefreshData, the timed SetDOAuto, and MC_thread_client filling in *)
(* the device's data and the queue the requests are answered from.         *)
(*                                                                         *)
(* The life of the channel is module SockProc.  Here a login empties the   *)
(* queue and starts a session, the peer can end it (Drop), and a kick ends *)
(* it and resets the data; each is one action.                             *)
(*                                                                         *)
(* An answer is known by device and function code only (ssid); what it     *)
(* answers (a relay or a register, and a value) is in the frame but is not *)
(* compared.  The value read from a register is the register's name.       *)
(* The Modbus device and TCP are external: requests and answers travel in  *)
(* order, may be late, and may be left unanswered.                         *)
(***************************************************************************)
EXTENDS Integers, Sequences, SequencesExt

CONSTANTS
  Callers,   \* threads calling the requests
  DO,        \* the relays
  Asked,     \* what they ask for: sequences of requests
  Delay,     \* m_cfg.m_DO_delay of every relay after a reset
  Delays,    \* delays that SetCfg may set; 0 is never
  BufNum,    \* SOCK_MSG_BUFNUM
  Late,      \* can an answer come after SOCK_MSG_TIMEOUT?
  MaxTime,   \* bound of the clock
  MaxWire,   \* bound of the frames under way in one direction
  None       \* a free mutex, no frame

ASSUME SockDeviceAssumption ==
  /\ None \notin Callers
  /\ DO \cap {"PowerV", "LoadI", "Temp", "coils", "inputs", "analog", "reset",
              "beat"} = {}
  /\ Delay \in Nat /\ Delays \subseteq Nat /\ BufNum \in Nat \ {0} /\ Late \in BOOLEAN
  /\ MaxTime \in Nat \ {0} /\ MaxWire \in Nat \ {0}

\* A request or an answer: function, subject, and the relays it says are on.
SetDO(i, v)  == [ssid |-> "set", what |-> i, on |-> {j \in {i} : v = 1}]
GetDO        == [ssid |-> "do", what |-> "coils", on |-> {}]
GetDI        == [ssid |-> "di", what |-> "inputs", on |-> {}]
GetAI        == [ssid |-> "ai", what |-> "analog", on |-> {}]
GetReg(r)    == [ssid |-> "reg", what |-> r, on |-> {}]
ResetPower   == [ssid |-> "power", what |-> "reset", on |-> {}]
Beat         == [ssid |-> "beat", what |-> "beat", on |-> {}]

Reg == {"PowerV", "LoadI", "Temp"}
Requests == {SetDO(i, v) : i \in DO, v \in {0, 1}} \cup {GetReg(r) : r \in Reg}
              \cup {GetDO, GetDI, GetAI, ResetPower}

\* RefreshData asks for everything in one go.
RefreshData == <<GetDI, GetAI, GetDO, GetReg("PowerV"), GetReg("LoadI"),
                 GetReg("Temp")>>

\* A frame on the link: a request, its echo, a report of the relays, a beat.
Frame == Requests \cup {Beat} \cup {[GetDO EXCEPT !.on = s] : s \in SUBSET DO}

ASSUME FrameAssumption == Asked \subseteq Seq(Requests) /\ None \notin Frame

VARIABLES
  now,                      \* _time32
  online, m_lock, m_list_msg_recv,
  m_DO, m_Do_count,
  m_DO_delay,               \* of m_cfg
  reading,                  \* m_bat_v, m_load_I, m_env_temp
  mc, frame, armed,         \* MC_thread_client
  pc, todo, auto,           \* callers
  relay, req, rsp,          \* external: the device's relays, the wires
  commanded,                \* history: relays last ordered on
  unsure,                   \* history: relays ordered off, not known to be
  wrong                     \* history: kinds of requests wrongly answered

dev  == <<m_DO, m_Do_count, m_DO_delay, reading>>
thr  == <<mc, frame, armed>>
cal  == <<pc, todo, auto>>
wire == <<relay, req, rsp>>
hist == <<commanded, unsure, wrong>>
vars == <<now, online, m_lock, m_list_msg_recv, dev, thr, cal, wire, hist>>

Init ==
  /\ now = 1 /\ online = FALSE /\ m_lock = None /\ m_list_msg_recv = <<>>
  /\ m_DO = [i \in DO |-> 0] /\ m_Do_count = [i \in DO |-> 0]
  /\ m_DO_delay = [i \in DO |-> Delay]
  /\ reading = [r \in Reg |-> "unread"]
  /\ mc = "recv" /\ frame = None /\ armed = {}
  /\ pc = [c \in Callers |-> "idle"] /\ todo = [c \in Callers |-> <<>>]
  /\ auto = [c \in Callers |-> None]
  /\ relay \in SUBSET DO /\ req = <<>> /\ rsp = <<>>
  /\ commanded = {} /\ unsure = {} /\ wrong = {}

-----------------------------------------------------------------------------
(***************************************************************************)
(* Callers.                                                                *)
(***************************************************************************)
Goto(c, label) == pc' = [pc EXCEPT ![c] = label]

\* A single request looks at the status first and ends if it is offline.
Call(c) ==
  /\ pc[c] = "idle" /\ m_lock = None /\ online
  /\ \E q \in Asked \ {RefreshData} : todo' = [todo EXCEPT ![c] = q]
  /\ Goto(c, "lock")
  /\ UNCHANGED <<now, online, m_lock, m_list_msg_recv, dev, thr, auto, wire,
                 hist>>

CallRefresh(c) ==
  /\ pc[c] = "idle" /\ RefreshData \in Asked
  /\ todo' = [todo EXCEPT ![c] = RefreshData]
  /\ Goto(c, "lock")
  /\ UNCHANGED <<now, online, m_lock, m_list_msg_recv, dev, thr, auto, wire,
                 hist>>

\* SetDOAuto(index, time_now): the caller read the clock.
CallAuto(c) ==
  /\ pc[c] = "idle" /\ m_lock = None /\ online
  /\ \E i \in DO : auto' = [auto EXCEPT ![c] = [index |-> i, time_now |-> now]]
  /\ Goto(c, "lock")
  /\ UNCHANGED <<now, online, m_lock, m_list_msg_recv, dev, thr, todo, wire,
                 hist>>

LockNotAsked == TRUE
LockFree == m_lock = None

Lock(c) ==
  /\ pc[c] = "lock" /\ LockFree
  /\ m_lock' = c
  /\ Goto(c, IF auto[c] = None THEN "next" ELSE "auto")
  /\ UNCHANGED <<now, online, m_list_msg_recv, dev, thr, todo, auto, wire, hist>>

\* Has relay i been on for longer than its delay, at time t?
Expired(i, t) ==
  /\ m_DO_delay[i] > 0 /\ m_Do_count[i] > 0
  /\ t > m_Do_count[i] /\ t - m_Do_count[i] > m_DO_delay[i]

\* SetDOAuto switches the relay off when its time is over.
SwitchOff(c) ==
  /\ pc[c] = "auto" /\ Goto(c, "next")
  /\ LET i == auto[c].index
         t == auto[c].time_now
     IN todo' = IF Expired(i, t) THEN [todo EXCEPT ![c] = <<SetDO(i, 0)>>]
                ELSE todo
  /\ auto' = [auto EXCEPT ![c] = None]
  /\ UNCHANGED <<now, online, m_lock, m_list_msg_recv, dev, thr, wire, hist>>

\* SetCfg replaces the delays of all relays.
SetCfg ==
  /\ m_lock = None
  /\ m_DO_delay' \in [DO -> Delays]
  /\ UNCHANGED <<now, online, m_lock, m_list_msg_recv, m_DO, m_Do_count, reading,
                 thr, cal, wire, hist>>

\* The request at the head of c's list is over.
FinishForgotten(c) == UNCHANGED todo
Finish(c) == todo' = [todo EXCEPT ![c] = Tail(@)]

Unlock(c) ==
  /\ pc[c] = "next" /\ todo[c] = <<>>
  /\ m_lock' = None /\ Goto(c, "idle")
  /\ UNCHANGED <<now, online, m_list_msg_recv, dev, thr, todo, auto, wire, hist>>

\* The relays that are on after q, if s were on before.
AfterSet(s, q) == IF q.ssid = "set" THEN (s \ {q.what}) \cup q.on ELSE s

\* L_send succeeds.  ResetPower does not wait for an answer.
Send(c) ==
  /\ pc[c] = "next" /\ todo[c] # <<>> /\ online /\ Len(req) < MaxWire
  /\ req' = Append(req, Head(todo[c]))
  /\ IF Head(todo[c]) = ResetPower
     THEN Finish(c) /\ UNCHANGED pc
     ELSE /\ Goto(c, IF Head(todo[c]).ssid = "set" THEN "sent" ELSE "wait")
          /\ UNCHANGED todo
  /\ commanded' = AfterSet(commanded, Head(todo[c]))
  /\ UNCHANGED <<now, online, m_lock, m_list_msg_recv, dev, thr, auto, relay,
                 rsp, unsure, wrong>>

\* Offline, or L_send fails: the request returns.
SendFail(c) ==
  /\ pc[c] = "next" /\ todo[c] # <<>> /\ Finish(c)
  /\ UNCHANGED <<now, online, m_lock, m_list_msg_recv, dev, thr, pc, auto, wire,
                 hist>>

\* SetDO starts or clears the relay's timer once the request is out.
TimerForgotten(q) == UNCHANGED m_Do_count
Timer(q) == m_Do_count' = [m_Do_count EXCEPT ![q.what] = IF q.on # {} THEN now ELSE 0]

SetTimer(c) ==
  /\ pc[c] = "sent" /\ Goto(c, "wait")
  /\ Timer(Head(todo[c]))
  /\ unsure' = IF Head(todo[c]).on # {} THEN unsure
               ELSE unsure \cup {Head(todo[c]).what}
  /\ UNCHANGED <<now, online, m_lock, m_list_msg_recv, m_DO, m_DO_delay,
                 reading, thr, todo, auto, wire, commanded, wrong>>

\* FrameRecvBySSID: the first queued frame with the request's ssid.
Answers(c) == {i \in DOMAIN m_list_msg_recv :
                 /\ m_list_msg_recv[i].ssid = Head(todo[c]).ssid
                 /\ \A j \in 1 .. i - 1 :
                      m_list_msg_recv[j].ssid # Head(todo[c]).ssid}

\* SetDO and the register requests use the answer.
UseAnswer(q, a) ==
  /\ m_DO' = IF q.ssid = "set"
            THEN [m_DO EXCEPT ![q.what] = IF q.on # {} THEN 1 ELSE 0]
            ELSE m_DO
  /\ reading' = IF q.ssid = "reg" THEN [reading EXCEPT ![q.what] = a.what]
                ELSE reading
  /\ wrong' = IF a.what # q.what \/ (q.ssid = "set" /\ a.on # q.on)
              THEN wrong \cup {q.ssid} ELSE wrong

Take(c) ==
  /\ pc[c] = "wait" /\ online
  /\ \E i \in Answers(c) :
       /\ UseAnswer(Head(todo[c]), m_list_msg_recv[i])
       /\ unsure' = unsure \ {Head(todo[c]).what}
       /\ m_list_msg_recv' = RemoveAt(m_list_msg_recv, i)
  /\ Finish(c) /\ Goto(c, "next")
  /\ UNCHANGED <<now, online, m_lock, m_Do_count, m_DO_delay, thr, auto, wire,
                 commanded>>

\* Is the answer to q still to come?
Coming(q) ==
  \/ \E i \in DOMAIN req : req[i].ssid = q.ssid
  \/ \E i \in DOMAIN rsp : rsp[i].ssid = q.ssid
  \/ frame # None /\ frame.ssid = q.ssid
  \/ \E i \in DOMAIN m_list_msg_recv : m_list_msg_recv[i].ssid = q.ssid

\* SOCK_MSG_TIMEOUT: the request returns without an answer.
Timeout(c) ==
  /\ pc[c] = "wait" /\ (Late \/ ~online \/ ~Coming(Head(todo[c])))
  /\ Finish(c) /\ Goto(c, "next")
  /\ UNCHANGED <<now, online, m_lock, m_list_msg_recv, dev, thr, auto, wire,
                 hist>>

CallerStep(c) ==
  \/ Lock(c) \/ SwitchOff(c) \/ Unlock(c) \/ Send(c) \/ SendFail(c) \/ SetTimer(c)
  \/ Take(c) \/ Timeout(c)

-----------------------------------------------------------------------------
(***************************************************************************)
(* MC_thread_client: the frames of a session.                              *)
(***************************************************************************)
McRecv ==
  /\ mc = "recv" /\ online /\ rsp # <<>>
  /\ frame' = Head(rsp) /\ rsp' = Tail(rsp) /\ mc' = "data"
  /\ UNCHANGED <<now, online, m_lock, m_list_msg_recv, dev, armed, cal, relay,
                 req, hist>>

\* A report of the relays goes to m_DO, without a lock; a relay found on
\* whose timer does not run is to be timed from now.
AtRestNone(on) == {}
AtRest(on) == {i \in on : m_Do_count[i] = 0}

McData ==
  /\ mc = "data" /\ mc' = "arm"
  /\ IF frame.ssid = "do"
     THEN /\ m_DO' = [i \in DO |-> IF i \in frame.on THEN 1 ELSE 0]
          /\ armed' = AtRest(frame.on) \X {now}
          /\ unsure' = {}
     ELSE UNCHANGED <<m_DO, armed, unsure>>
  /\ UNCHANGED <<now, online, m_lock, m_list_msg_recv, m_Do_count, m_DO_delay,
                 reading, frame, cal, wire, commanded, wrong>>

\* The timers found at rest are started; the lock is not held here either.
McArm ==
  /\ mc = "arm" /\ mc' = "queue"
  /\ m_Do_count' = [i \in DO |-> IF \E t \in 1 .. now : <<i, t>> \in armed
                                 THEN CHOOSE t \in 1 .. now : <<i, t>> \in armed
                                 ELSE m_Do_count[i]]
  /\ armed' = {}
  /\ UNCHANGED <<now, online, m_lock, m_list_msg_recv, m_DO, m_DO_delay, reading,
                 frame, cal, wire, hist>>

AddTail(q, m) ==
  IF Len(Append(q, m)) >= BufNum THEN Tail(Append(q, m)) ELSE Append(q, m)

McQueue ==
  /\ mc = "queue" /\ mc' = "recv"
  /\ m_list_msg_recv' = AddTail(m_list_msg_recv, frame)
  /\ frame' = None
  /\ UNCHANGED <<now, online, m_lock, dev, armed, cal, wire, hist>>

McStep == McRecv \/ McData \/ McArm \/ McQueue

-----------------------------------------------------------------------------
(***************************************************************************)
(* Sessions.                                                               *)
(***************************************************************************)
\* The peer is gone: END0 of the thread.  The data stays.
Drop ==
  /\ mc = "recv" /\ online /\ online' = FALSE
  /\ req' = <<>> /\ rsp' = <<>>
  /\ UNCHANGED <<now, m_lock, m_list_msg_recv, dev, thr, cal, relay, hist>>

\* CSockDevice::StopProc: the channel stops, then ResetData.  The readings
\* of the solar controller are not among the data it resets.
Kick ==
  /\ m_lock = None /\ mc = "recv"
  /\ online' = FALSE /\ req' = <<>> /\ rsp' = <<>> /\ m_list_msg_recv' = <<>>
  /\ m_DO' = [i \in DO |-> 0] /\ m_Do_count' = [i \in DO |-> 0]
  /\ m_DO_delay' = [i \in DO |-> Delay]
  /\ commanded' = {}
  /\ UNCHANGED <<now, m_lock, reading, thr, cal, relay, unsure, wrong>>

\* DevLogin of a device that is offline: only the channel is reset.
QueueKept == UNCHANGED m_list_msg_recv
QueueEmptied == m_list_msg_recv' = <<>>

Login ==
  /\ ~online /\ m_lock = None /\ online' = TRUE
  /\ QueueEmptied
  /\ UNCHANGED <<now, m_lock, dev, thr, cal, wire, hist>>

-----------------------------------------------------------------------------
(***************************************************************************)
(* External: the Modbus device, and time.                                  *)
(***************************************************************************)
Reply(q) == IF q.ssid = "do" THEN [q EXCEPT !.on = relay] ELSE q

\* The device executes the next request and may answer.
PeerServe ==
  /\ online /\ req # <<>> /\ req' = Tail(req)
  /\ relay' = AfterSet(relay, Head(req))
  /\ \/ Len(rsp) < MaxWire /\ rsp' = Append(rsp, Reply(Head(req)))
     \/ UNCHANGED rsp
  /\ UNCHANGED <<now, online, m_lock, m_list_msg_recv, dev, thr, cal, hist>>

PeerBeat ==
  /\ online /\ Len(rsp) < MaxWire /\ rsp' = Append(rsp, Beat)
  /\ UNCHANGED <<now, online, m_lock, m_list_msg_recv, dev, thr, cal, relay, req,
                 hist>>

\* A relay changes at the device itself.
PeerSwitch ==
  /\ \E i \in DO : relay' = IF i \in relay THEN relay \ {i} ELSE relay \cup {i}
  /\ UNCHANGED <<now, online, m_lock, m_list_msg_recv, dev, thr, cal, req, rsp,
                 hist>>

Tick ==
  /\ now < MaxTime /\ now' = now + 1
  /\ UNCHANGED <<online, m_lock, m_list_msg_recv, dev, thr, cal, wire, hist>>

-----------------------------------------------------------------------------
Next ==
  \/ \E c \in Callers : Call(c) \/ CallRefresh(c) \/ CallAuto(c) \/ CallerStep(c)
  \/ SetCfg \/ McStep \/ Drop \/ Kick \/ Login
  \/ PeerServe \/ PeerBeat \/ PeerSwitch \/ Tick

Spec == Init /\ [][Next]_vars

\* Threads keep running; the lock is granted in turn.  A device that is
\* never late also keeps working.
FairSpec == /\ Spec /\ WF_vars(McStep)
            /\ \A c \in Callers : SF_vars(CallerStep(c))
            /\ ~Late => SF_vars(PeerServe)

-----------------------------------------------------------------------------
(***************************************************************************)
(* Properties.                                                             *)
(***************************************************************************)
TypeOK ==
  /\ now \in 1 .. MaxTime /\ online \in BOOLEAN /\ m_lock \in Callers \cup {None}
  /\ m_list_msg_recv \in Seq(Frame) /\ Len(m_list_msg_recv) < BufNum
  /\ m_DO \in [DO -> {0, 1}] /\ m_Do_count \in [DO -> 0 .. now]
  /\ m_DO_delay \in [DO -> Nat]
  /\ reading \in [Reg -> Reg \cup {"unread"}]
  /\ mc \in {"recv", "data", "arm", "queue"} /\ frame \in Frame \cup {None}
  /\ armed \subseteq DO \X (1 .. now)
  /\ pc \in [Callers -> {"idle", "lock", "auto", "next", "sent", "wait"}]
  /\ todo \in [Callers -> Seq(Requests)]
  /\ auto \in [Callers -> [index : DO, time_now : 1 .. now] \cup {None}]
  /\ relay \subseteq DO /\ req \in Seq(Requests) /\ rsp \in Seq(Frame)
  /\ Len(req) <= MaxWire /\ Len(rsp) <= MaxWire
  /\ commanded \subseteq DO /\ unsure \subseteq DO
  /\ wrong \subseteq {"set", "do", "di", "ai", "reg"}

\* A relay that was ordered on is being timed for SetDOAuto, whether the
\* order was answered or not, and whatever reports come in between.
CommandedOnIsTimed ==
  \A i \in commanded :
    \/ m_Do_count[i] > 0
    \/ \E c \in Callers : pc[c] = "sent" /\ Head(todo[c]).what = i

\* "Battery voltage", "load current", "ambient temperature"
\* (SockDevice.h:48): each reading comes from its own register.
ReadingsMatch == \A r \in Reg : reading[r] \in {"unread", r}

\* A request never takes the answer to another one, although answers are
\* found by device and function only: the device lock keeps requests apart
\* and a login empties the queue.
AnswersMatch == wrong = {}

\* "If a relay is on when the device registers ..., initialise [its timer]
\* so that it can be switched off automatically" (SockDevice.cpp:936): a
\* relay shown on with its timer at rest is one that was ordered off, and
\* neither the answer nor a report has come since.
ShownOnIsTimed ==
  mc # "arm" =>
    \A i \in DO : m_DO[i] = 1 => m_Do_count[i] > 0 \/ i \in unsure

\* Every request, the group of six included, returns the device lock in the
\* end, whether the link is up, silent or lost half way.
RequestsReturn == \A c \in Callers : pc[c] = "lock" ~> pc[c] = "idle"
=============================================================================
