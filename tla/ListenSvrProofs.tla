--------------------------- MODULE ListenSvrProofs --------------------------
(***************************************************************************)
(* Proofs about ListenSvr, for any number of connections, temporary        *)
(* threads, slots and callers, any time-out.                               *)
(*                                                                         *)
(* The argument.  A temporary thread that works on a slot is the thread    *)
(* DelTmpSocket finds in m_thread_wait, or the one AddTmpSocket is just    *)
(* starting (HolderInv); its connection is in the slot until it has handed *)
(* it over or closed it, or until stopSvr closed it and waits (SockInv);   *)
(* and a connection in a slot has such a thread (SlotInv).  A thread that  *)
(* has not begun counts as working on the slot whose number was written    *)
(* last (At, Conn).  All of that holds because connections are recognised  *)
(* by handle values nobody else has (DistinctInv, AddInv), which needs     *)
(* ~HandleReuse, and until a thread is overtaken by the next number: the   *)
(* theorems that rest on it say so.  What stopSvr leaves behind it in the  *)
(* slots (SettledInv) needs neither.                                       *)
(***************************************************************************)
EXTENDS ListenSvr, TLAPS, WellFoundedInduction

-----------------------------------------------------------------------------
(***************************************************************************)
(* The inductive invariant.                                                *)
(***************************************************************************)

\* Where a temporary thread is on its way to a slot, waits there for
\* registration or hands over.
Serving == {"start", "loop", "select", "login", "remove"}

\* Where AddTmpSocket has taken a slot and does not know yet what came of it.
Adding == {"create", "relock", "sleep"}

\* A thread has its slot number from its first step on, and a count of idle
\* seconds that lets it go on; stopSvr holds the list mutex.
BaseInv ==
  /\ TypeOK
  /\ \A t \in Tmp : tpc[t] \notin {"none", "start"} => index[t] \in Slots
  /\ \A t \in Tmp : tpc[t] \in {"start", "loop", "select"} => time_timeout[t] < TimeLimit
  /\ \A t \in Tmp : tpc[t] = "none" => time_timeout[t] = 0
  /\ \A t \in Tmp : tpc[t] \in {"none", "start"} => s_client[t] = None
  /\ \A a \in Admins : /\ pc[a] # "idle" => m_mutex_listdev = a
                       /\ pc[a] = "slots" => del_i >= 1
                       /\ pc[a] = "jointmp" => del_i \in Slots

\* stopSvr begins with the slots when the listening
\* thread is gone, and leaves them empty behind it.
StopInv ==
  \A a \in Admins :
    /\ pc[a] \in {"signal", "join", "slots", "jointmp"} => m_flg_running
    /\ pc[a] = "done" => ~m_flg_running
    /\ pc[a] \in {"slots", "jointmp"} =>
         /\ lpc = "none"
         /\ \A i \in Slots : i < del_i => m_socket_wait[i] = None
    /\ pc[a] = "jointmp" => m_socket_wait[del_i] = None

\* The listening socket is open only while its thread runs.
ListenInv == m_sock => lpc \notin {"none", "start", "exited"}

\* A stopped server has no connection and takes none.
EmptyInv ==
  ~m_flg_running => lpc = "none" /\ ~m_sock /\ \A i \in Slots : m_socket_wait[i] = None

SettledInv == StopInv /\ ListenInv /\ EmptyInv

\* The slot and the connection of thread t.
At(t)   == IF tpc[t] = "start" THEN socket_wait_index_new ELSE index[t]
Conn(t) == IF tpc[t] = "start" THEN m_socket_wait[socket_wait_index_new] ELSE s_client[t]

\* t works on slot i.
Serves(t, i) == tpc[t] # "none" /\ At(t) = i /\ Conn(t) = m_socket_wait[i]

\* AddTmpSocket: the slot it has taken keeps its connection until a thread
\* serves it, and no other thread has it.
NewInv ==
  lpc \in Adding =>
    /\ add_i \in Slots /\ socket_wait_index_new = add_i
    /\ m_thread_wait[add_i] = None
    /\ client_h = None => m_socket_wait[add_i] # None
    /\ client_h # None /\ m_socket_wait[add_i] # None => Serves(client_h, add_i)

\* AddTmpSocket knows the thread it has just created.
StartInv == client_h # None => lpc \in {"relock", "sleep"}

\* t is the thread of its slot for AddTmpSocket and DelTmpSocket.
Holds(t) ==
  \/ m_thread_wait[At(t)] = t
  \/ lpc \in {"relock", "sleep"} /\ client_h = t /\ add_i = At(t)

\* A thread that works, or whose connection is still in its slot, is the
\* thread of the slot.
HolderInv ==
  \A t \in Tmp :
    \/ tpc[t] \in Serving
    \/ tpc[t] = "close" /\ Conn(t) # None /\ m_socket_wait[At(t)] = Conn(t)
    => Holds(t)

\* A thread that works finds its connection in its slot, unless stopSvr has
\* just closed it and waits.
SockInv ==
  \A t \in Tmp : tpc[t] \in Serving =>
    \/ Conn(t) # None /\ m_socket_wait[At(t)] = Conn(t)
    \/ \E a \in Admins : pc[a] = "jointmp" /\ At(t) = del_i

\* A connection that waits in a slot is served by the slot's thread.
SlotInv ==
  \A i \in Slots : m_socket_wait[i] # None =>
    \/ lpc \in Adding /\ add_i = i
    \/ m_thread_wait[i] # None /\ Serves(m_thread_wait[i], i)

\* No connection is in two slots, and none in the slot of another thread.
DistinctInv ==
  /\ \A i, j \in Slots : m_socket_wait[i] # None /\ m_socket_wait[i] = m_socket_wait[j] => i = j
  /\ \A t \in Tmp : \A i \in Slots :
       Conn(t) # None /\ m_socket_wait[i] = Conn(t) => i = At(t)

\* A connection just accepted is one nobody has.
AddInv ==
  lpc = "add" =>
    /\ client_s \in Sock
    /\ \A i \in Slots : m_socket_wait[i] # client_s
    /\ \A t \in Tmp : Conn(t) # client_s

\* A stopped server has no thread that works.
EndedInv == ~m_flg_running => \A t \in Tmp : tpc[t] \in {"none", "close"}

SafeInv ==
  /\ NewInv /\ StartInv /\ HolderInv /\ SockInv /\ SlotInv /\ DistinctInv
  /\ AddInv /\ EndedInv

IInv == BaseInv /\ SettledInv /\ SafeInv

-----------------------------------------------------------------------------
(***************************************************************************)
(* Types.                                                                  *)
(***************************************************************************)

\* The limits are numbers.
LEMMA Bounds ==
  /\ None \notin Admins \cup Tmp \cup Sock
  /\ WaitMax \in Nat \ {0} /\ TimeLimit \in Nat \ {0}
  BY ListenSvrAssumption, Zenon

\* A set of numbers has a smallest one.
LEMMA MinExists ==
  ASSUME NEW S, S \subseteq Nat, S # {}
  PROVE  Min(S) \in S /\ \A y \in S : Min(S) <= y
<1>1. PICK m \in S : \A k \in S : <<k, m>> \notin OpToRel(<, Nat)
  BY WFMin, NatLessThanWellFounded, Zenon
<1>2. \A k \in S : m <= k
  <2>1. \A k \in S : ~(k < m)
    BY <1>1, Zenon DEF OpToRel
  <2> QED
    BY <2>1
<1> QED
  BY <1>2 DEF Min

\* The first slot of some slots is one of them.
LEMMA MinSlot ==
  ASSUME NEW S, S \subseteq Slots, S # {}
  PROVE  Min(S) \in S
<1>1. S \subseteq Nat
  BY Bounds DEF Slots
<1> QED
  BY <1>1, MinExists

\* closesocket keeps the types.
LEMMA CloseType ==
  ASSUME TypeOK, NEW s, Close(s)
  PROVE  /\ owner' \in [Sock -> {"free", "listen", "dev"}]
         /\ wrong' \subseteq {"free", "dev", "other"} /\ dev_sock' = dev_sock
  BY DEF TypeOK, Close

\* The initial states have the right types.
LEMMA InitBase == Init => BaseInv
<1> SUFFICES ASSUME Init PROVE BaseInv
  OBVIOUS
<1>1. TypeOK
  <2>1. m_flg_running \in BOOLEAN /\ m_lock_sock \in BOOLEAN /\ overtaken \in BOOLEAN
    BY DEF Init
  <2>2. m_sock \in BOOLEAN /\ flg_event_exit \in BOOLEAN
    BY DEF Init
  <2>3. /\ m_socket_wait \in [Slots -> Sock \cup {None}]
        /\ m_thread_wait \in [Slots -> Tmp \cup {None}]
        /\ socket_wait_index_new \in Slots
    BY Bounds DEF Init, Slots
  <2>4. /\ index \in [Tmp -> 0 .. WaitMax] /\ time_timeout \in [Tmp -> 0 .. TimeLimit]
        /\ del_i \in 0 .. WaitMax + 1 /\ add_i \in 0 .. WaitMax
    BY Bounds DEF Init
  <2> QED
    BY <2>1, <2>2, <2>3, <2>4 DEF Init, TypeOK
<1>2. /\ \A t \in Tmp : tpc[t] = "none" /\ time_timeout[t] = 0 /\ s_client[t] = None
  BY DEF Init
<1>3. \A a \in Admins : pc[a] = "idle"
  BY DEF Init
<1> QED
  BY <1>1, <1>2, <1>3 DEF BaseInv

\* The steps of the listening thread keep the types.
LEMMA LnBase ==
  ASSUME BaseInv, LnAccept \/ LnFail \/ LnStep
  PROVE  BaseInv'
<1> USE DEF BaseInv, TypeOK, slots, lsn, tmp, adm, socks
<1>1. CASE LnStart \/ LnExit \/ LnFail \/ LnFull \/ LnCreateFails \/ LnRelock
  <2>1. CASE LnStart
    BY <2>1 DEF LnStart
  <2>2. CASE LnExit \/ LnFail
    <3>1. /\ m_sock' = FALSE /\ lpc' = "exited" /\ flg_event_exit' \in BOOLEAN
          /\ UNCHANGED <<m_mutex_listdev, m_flg_running, m_lock_sock, slots, client_s,
                         add_i, client_h, tmp, adm, socks>>
      BY <2>2 DEF LnExit, LnFail, LnEnd
    <3> QED
      BY <3>1
  <2>3. CASE LnFull
    BY <2>3 DEF LnFull
  <2>4. CASE LnCreateFails
    BY <2>4 DEF LnCreateFails
  <2>5. CASE LnRelock
    BY <2>5 DEF LnRelock
  <2> QED
    BY <1>1, <2>1, <2>2, <2>3, <2>4, <2>5
<1>2. CASE LnAccept
  BY <1>2 DEF LnAccept
<1>3. CASE LnAddSlot
  <2>1. Min(FreeSlots) \in Slots
    <3>1. FreeSlots \subseteq Slots /\ FreeSlots # {}
      BY <1>3 DEF LnAddSlot, FreeSlots
    <3>2. Min(FreeSlots) \in FreeSlots
      BY <3>1, MinSlot
    <3> QED
      BY <3>1, <3>2
  <2>2. Min(FreeSlots) \in 0 .. WaitMax
    BY <2>1, Bounds DEF Slots
  <2> QED
    BY <1>3, <2>1, <2>2 DEF LnAddSlot, PublishIndex
<1>4. CASE LnCreate
  <2>1. PICK t \in Tmp : tpc[t] = "none" /\ client_h' = t /\ tpc' = [tpc EXCEPT ![t] = "start"]
    BY <1>4 DEF LnCreate
  <2>2. 0 < TimeLimit
    BY Bounds
  <2> QED
    BY <1>4, <2>1, <2>2 DEF LnCreate
<1>5. CASE LnCheckThread
  <2>1. 0 \in 0 .. WaitMax
    BY Bounds
  <2>2. m_thread_wait' \in [Slots -> Tmp \cup {None}]
    BY <1>5 DEF LnCheckThread
  <2>3. client_s' \in Sock \cup {None} /\ lpc' \in {"accept", "refuse"}
    BY <1>5 DEF LnCheckThread
  <2>4. /\ m_lock_sock' = FALSE /\ client_h' = None /\ add_i' = 0
        /\ UNCHANGED <<m_mutex_listdev, m_flg_running, m_sock, flg_event_exit,
                 m_socket_wait, socket_wait_index_new, overtaken, tmp, adm,
                 socks>>
    BY <1>5 DEF LnCheckThread
  <2> QED
    BY <2>1, <2>2, <2>3, <2>4
<1>6. CASE LnNoThread
  <2>1. 0 \in 0 .. WaitMax
    BY Bounds
  <2>2. /\ owner' \in [Sock -> {"free", "listen", "dev"}]
        /\ wrong' \subseteq {"free", "dev", "other"} /\ dev_sock' = dev_sock
    BY <1>6, CloseType DEF LnNoThread
  <2> QED
    BY <1>6, <2>1, <2>2 DEF LnNoThread
<1>7. CASE LnRefuse
  <2>1. /\ owner' \in [Sock -> {"free", "listen", "dev"}]
        /\ wrong' \subseteq {"free", "dev", "other"} /\ dev_sock' = dev_sock
    BY <1>7, CloseType DEF LnRefuse
  <2> QED
    BY <1>7, <2>1 DEF LnRefuse
<1> QED
  BY <1>1, <1>2, <1>3, <1>4, <1>5, <1>6, <1>7 DEF LnStep

\* So do those of the temporary threads.
LEMMA TmpBase ==
  ASSUME BaseInv, NEW t \in Tmp, TmpStep(t)
  PROVE  BaseInv'
<1> USE DEF BaseInv, TypeOK, slots, lsn, tmp, adm, socks, Goto
<1>0. Slots \subseteq 0 .. WaitMax
  BY Bounds DEF Slots
<1>1. CASE TmpStart(t)
  BY <1>0, <1>1 DEF TmpStart
<1>2. CASE TmpLoop(t)
  <2>1. m_socket_wait[index[t]] \in Sock \cup {None}
    BY <1>2 DEF TmpLoop
  <2> QED
    BY <1>2, <2>1 DEF TmpLoop
<1>3. CASE TmpIdle(t)
  <2>1. /\ time_timeout[t] + 1 \in 0 .. TimeLimit
        /\ ~TimedOut(TimeNext(t)) => time_timeout[t] + 1 < TimeLimit
    BY <1>3, Bounds DEF TmpIdle, TimedOut, TimeNext
  <2> QED
    BY <1>3, <2>1 DEF TmpIdle, TimeNext
<1>4. CASE TmpRegister(t)
  <2>1. 0 \in 0 .. TimeLimit
    BY Bounds
  <2> QED
    BY <1>4, <2>1 DEF TmpRegister
<1>5. CASE TmpError(t) \/ TmpLogin(t) \/ TmpLoginRefused(t)
  <2>1. CASE TmpError(t)
    BY <2>1 DEF TmpError
  <2>2. CASE TmpLogin(t)
    BY <2>2 DEF TmpLogin
  <2>3. CASE TmpLoginRefused(t)
    BY <2>3 DEF TmpLoginRefused, AfterRefusal
  <2> QED
    BY <1>5, <2>1, <2>2, <2>3
<1>6. CASE TmpRemove(t)
  BY <1>6 DEF TmpRemove
<1>7. CASE TmpExit(t) \/ TmpClose(t)
  <2>1. 0 \in 0 .. TimeLimit /\ 0 \in 0 .. WaitMax
    BY Bounds
  <2>2. CASE TmpExit(t)
    BY <2>1, <2>2 DEF TmpExit, TmpReturn
  <2>3. CASE TmpClose(t)
    <3>1. /\ m_socket_wait' \in [Slots -> Sock \cup {None}]
          /\ owner' \in [Sock -> {"free", "listen", "dev"}]
      BY <2>3 DEF TmpClose
    <3>2. wrong' \subseteq {"free", "dev", "other"}
      <4>1. s_client[t] \in Sock
        BY <2>3 DEF TmpClose
      <4>2. owner[s_client[t]] \in {"free", "listen", "dev"}
        BY <4>1
      <4>3. wrong' \subseteq wrong \cup {"other"} \cup ({owner[s_client[t]]} \ {"listen"})
        BY <2>3 DEF TmpClose
      <4> QED
        BY <4>2, <4>3
    <3>3. /\ tpc' = [tpc EXCEPT ![t] = "none"] /\ index' = [index EXCEPT ![t] = 0]
          /\ s_client' = [s_client EXCEPT ![t] = None]
          /\ time_timeout' = [time_timeout EXCEPT ![t] = 0]
      BY <2>3 DEF TmpClose, TmpReturn
    <3>4. UNCHANGED <<m_mutex_listdev, m_flg_running, m_lock_sock, m_sock,
                      flg_event_exit, m_thread_wait, socket_wait_index_new,
                      overtaken, lsn, adm, dev_sock>>
      BY <2>3 DEF TmpClose
    <3> QED
      BY <2>1, <3>1, <3>2, <3>3, <3>4
  <2> QED
    BY <1>7, <2>2, <2>3
<1> QED
  BY <1>1, <1>2, <1>3, <1>4, <1>5, <1>6, <1>7 DEF TmpStep

\* And those of startSvr, stopSvr and the device.
LEMMA AdmBase ==
  ASSUME BaseInv,
         DevDrop \/ \E a \in Admins : StartSvr(a) \/ StopSvr(a) \/ AdmStep(a)
  PROVE  BaseInv'
<1> USE DEF BaseInv, TypeOK, slots, lsn, tmp, adm, socks, AdmGoto
<1>1. CASE DevDrop
  BY <1>1 DEF DevDrop
<1>2. ASSUME NEW a \in Admins, StartSvr(a) PROVE BaseInv'
  BY <1>2 DEF StartSvr
<1>7. ASSUME NEW a \in Admins, StopSvr(a) PROVE BaseInv'
  <2>1. /\ owner' \in [Sock -> {"free", "listen", "dev"}]
        /\ pc' \in [Admins -> {"idle", "signal", "join", "slots", "jointmp", "done"}]
        /\ m_mutex_listdev' \in Admins \cup {None}
    BY <1>7 DEF StopSvr
  <2>2. \A b \in Admins : b # a => pc[b] = "idle" /\ pc'[b] = "idle"
    BY <1>7, Bounds DEF StopSvr
  <2>3. m_mutex_listdev' = a /\ pc'[a] \in {"signal", "done"}
    BY <1>7 DEF StopSvr
  <2>4. dev_sock' = None /\ UNCHANGED <<m_flg_running, m_lock_sock, m_sock,
                 flg_event_exit, slots, lsn, tmp, del_i, wrong>>
    BY <1>7 DEF StopSvr
  <2> QED
    BY <2>1, <2>2, <2>3, <2>4
<1>8. ASSUME NEW a \in Admins, StopSignal(a) PROVE BaseInv'
  <2>1. /\ flg_event_exit' \in BOOLEAN /\ m_sock' \in BOOLEAN
        /\ pc[a] = "signal" /\ pc' = [pc EXCEPT ![a] = "join"]
        /\ UNCHANGED <<m_mutex_listdev, m_flg_running, m_lock_sock, slots, lsn, tmp,
                       del_i, socks>>
    BY <1>8 DEF StopSignal, SignalStop
  <2> QED
    BY <2>1
<1>0. ASSUME NEW a \in Admins, pc[a] # "idle"
      PROVE  \A b \in Admins \ {a} : pc[b] = "idle"
  BY <1>0, Bounds
<1>3. ASSUME NEW a \in Admins, StopJoin(a) \/ StopDone(a)
      PROVE  BaseInv'
  <2>1. 0 \in 0 .. WaitMax + 1 /\ 1 \in 0 .. WaitMax + 1
    BY Bounds
  <2>2. \A b \in Admins \ {a} : pc[b] = "idle"
    BY <1>0, <1>3 DEF StopJoin, StopDone
  <2>3. CASE StopJoin(a)
    <3>1. /\ del_i' = 1 /\ lpc' = "none"
          /\ pc[a] = "join" /\ pc' = [pc EXCEPT ![a] = "slots"]
          /\ UNCHANGED <<m_mutex_listdev, m_flg_running, m_lock_sock, m_sock,
                         flg_event_exit, slots, client_s, add_i, client_h, tmp, socks>>
      BY <2>3 DEF StopJoin, FirstSlot
    <3> QED
      BY <2>1, <2>2, <3>1
  <2>4. CASE StopDone(a)
    <3>1. /\ del_i' = 0 /\ m_flg_running' = FALSE /\ m_mutex_listdev' = None
          /\ pc[a] # "idle" /\ pc' = [pc EXCEPT ![a] = "idle"]
          /\ UNCHANGED <<m_lock_sock, m_sock, flg_event_exit, slots, lsn, tmp, socks>>
      BY <2>4 DEF StopDone
    <3>2. \A b \in Admins : pc'[b] = "idle"
      BY <2>2, <3>1
    <3>3. pc' \in [Admins -> {"idle", "signal", "join", "slots", "jointmp", "done"}]
      BY <3>1
    <3>4. TypeOK'
      BY <2>1, <3>1, <3>3, Zenon
    <3> QED
      BY <3>1, <3>2, <3>4
  <2> QED
    BY <1>3, <2>3, <2>4
<1>4. ASSUME NEW a \in Admins, StopDelSlot(a) PROVE BaseInv'
  <2>1. /\ owner' \in [Sock -> {"free", "listen", "dev"}]
        /\ wrong' \subseteq {"free", "dev", "other"} /\ dev_sock' = dev_sock
    BY <1>4, CloseType DEF StopDelSlot
  <2>2. CleanHandles \in [Slots -> Tmp \cup {None}]
    BY DEF CleanHandles
  <2>3. \A b \in Admins \ {a} : pc[b] = "idle"
    BY <1>0, <1>4 DEF StopDelSlot
  <2>4. del_i \in Slots
    BY <1>4, Bounds DEF StopDelSlot, Slots
  <2>5. /\ m_socket_wait' = [m_socket_wait EXCEPT ![del_i] = None]
        /\ m_thread_wait' = CleanHandles /\ pc' = [pc EXCEPT ![a] = "jointmp"]
        /\ UNCHANGED <<m_mutex_listdev, m_flg_running, m_lock_sock, m_sock,
                       flg_event_exit, socket_wait_index_new, overtaken, lsn, tmp,
                       del_i>>
    BY <1>4 DEF StopDelSlot
  <2>6. /\ m_socket_wait' \in [Slots -> Sock \cup {None}]
        /\ m_thread_wait' \in [Slots -> Tmp \cup {None}]
    BY <2>2, <2>5
  <2>7. TypeOK'
    BY <2>1, <2>5, <2>6
  <2>8. \A b \in Admins : /\ pc'[b] # "idle" => m_mutex_listdev' = b
                          /\ pc'[b] = "slots" => del_i' >= 1
                          /\ pc'[b] = "jointmp" => del_i' \in Slots
    BY <1>4, <2>3, <2>4, <2>5 DEF StopDelSlot
  <2> QED
    BY <2>5, <2>7, <2>8
<1>5. ASSUME NEW a \in Admins, StopSkipSlot(a) PROVE BaseInv'
  <2>1. del_i + 1 \in 0 .. WaitMax + 1
    BY <1>5, Bounds DEF StopSkipSlot
  <2> QED
    BY <1>5, <2>1 DEF StopSkipSlot
<1>6. ASSUME NEW a \in Admins, StopJoinTmp(a) PROVE BaseInv'
  <2>1. del_i + 1 \in 0 .. WaitMax + 1
    BY <1>6, Bounds DEF StopJoinTmp, Slots
  <2> QED
    BY <1>6, <2>1 DEF StopJoinTmp
<1> QED
  BY <1>1, <1>2, <1>3, <1>4, <1>5, <1>6, <1>7, <1>8 DEF AdmStep

-----------------------------------------------------------------------------
(***************************************************************************)
(* What stopSvr leaves behind it in the slots.                             *)
(***************************************************************************)

\* Only one caller is in stopSvr.
LEMMA Others ==
  ASSUME BaseInv, NEW a \in Admins, pc[a] # "idle"
  PROVE  \A b \in Admins \ {a} : pc[b] = "idle"
  BY Bounds DEF BaseInv

\* The listening thread only fills a slot while the server runs and stopSvr
\* has not got to the slots.
LEMMA LnSettled ==
  ASSUME BaseInv, SettledInv, LnAccept \/ LnFail \/ LnStep
  PROVE  SettledInv'
<1> USE DEF slots, adm
<1>1. /\ lpc # "none" /\ lpc' # "none"
      /\ UNCHANGED <<m_flg_running, pc, del_i>>
      /\ m_sock' => lpc' \notin {"none", "start", "exited"}
  <2>1. CASE LnAccept \/ LnAddSlot \/ LnFull
    BY <2>1 DEF LnAccept, LnAddSlot, LnFull
  <2>2. CASE LnStart \/ LnExit \/ LnFail
    BY <2>2 DEF LnStart, LnExit, LnFail, LnEnd
  <2>3. CASE LnCreate \/ LnCreateFails \/ LnRelock
    BY <2>3 DEF LnCreate, LnCreateFails, LnRelock
  <2>4. CASE LnCheckThread \/ LnNoThread \/ LnRefuse
    BY <2>4 DEF LnCheckThread, LnNoThread, LnRefuse
  <2> QED
    BY <2>1, <2>2, <2>3, <2>4 DEF LnStep
<1>2. m_flg_running /\ \A a \in Admins : pc[a] \notin {"slots", "jointmp"}
  BY <1>1, Zenon DEF SettledInv, EmptyInv, StopInv
<1>3. StopInv' /\ EmptyInv'
  BY <1>1, <1>2 DEF SettledInv, StopInv, EmptyInv
<1>4. ListenInv'
  BY <1>1 DEF ListenInv
<1> QED
  BY <1>3, <1>4 DEF SettledInv

\* A temporary thread fills none.
LEMMA TmpSettled ==
  ASSUME BaseInv, SettledInv, NEW t \in Tmp, TmpStep(t)
  PROVE  SettledInv'
<1> USE DEF slots, lsn, adm
<1>1. UNCHANGED <<m_flg_running, lpc, m_sock, pc, del_i>>
  BY DEF TmpStep, TmpStart, TmpLoop, TmpIdle, TmpError, TmpRegister, TmpLogin,
         TmpLoginRefused, TmpRemove, TmpExit, TmpClose
<1>2. \A i \in Slots : m_socket_wait'[i] \in {m_socket_wait[i], None}
  <2>1. CASE TmpRemove(t)
    BY <2>1 DEF TmpRemove
  <2>2. CASE TmpClose(t)
    BY <2>2 DEF TmpClose, BaseInv, TypeOK
  <2> QED
    BY <2>1, <2>2 DEF TmpStep, TmpStart, TmpLoop, TmpIdle, TmpError, TmpRegister, TmpLogin,
                      TmpLoginRefused, TmpExit
<1>3. \A a \in Admins : pc[a] = "jointmp" => del_i \in Slots
  BY DEF BaseInv
<1> QED
  BY <1>1, <1>2, <1>3 DEF SettledInv, StopInv, ListenInv, EmptyInv

\* stopSvr empties one slot after the other.
LEMMA AdmSettled ==
  ASSUME BaseInv, SettledInv, NEW a \in Admins, StartSvr(a) \/ StopSvr(a) \/ AdmStep(a)
  PROVE  SettledInv'
<1> USE DEF slots, lsn, AdmGoto
<1>0. /\ pc \in [Admins -> {"idle", "signal", "join", "slots", "jointmp", "done"}]
      /\ m_socket_wait \in [Slots -> Sock \cup {None}]
      /\ del_i \in Nat /\ Slots \subseteq Int
  BY Bounds DEF BaseInv, TypeOK, Slots
<1>1. CASE StartSvr(a)
  <2>1. \A b \in Admins : pc[b] = "idle"
    BY <1>1, Bounds DEF StartSvr, BaseInv
  <2>2. ~m_sock
    BY <1>1, Zenon DEF StartSvr, SettledInv, EmptyInv
  <2> QED
    BY <1>1, <2>1, <2>2 DEF StartSvr, adm, SettledInv, StopInv, ListenInv, EmptyInv
<1>2. CASE StopSvr(a)
  BY <1>0, <1>2 DEF StopSvr, SettledInv, StopInv, ListenInv, EmptyInv
<1>3. CASE StopSignal(a)
  BY <1>0, <1>3 DEF StopSignal, SignalStop, SettledInv, StopInv, ListenInv, EmptyInv
<1>4. ASSUME pc[a] # "idle" PROVE \A b \in Admins \ {a} : pc[b] = "idle"
  BY <1>4, Others
<1>5. CASE StopJoin(a)
  <2>1. \A b \in Admins \ {a} : pc[b] = "idle"
    BY <1>4, <1>5 DEF StopJoin
  <2>2. /\ del_i' = 1 /\ pc[a] = "join" /\ lpc = "exited" /\ lpc' = "none"
        /\ pc' = [pc EXCEPT ![a] = "slots"]
        /\ UNCHANGED <<m_flg_running, m_sock, m_socket_wait>>
    BY <1>5 DEF StopJoin, FirstSlot
  <2>3. m_flg_running /\ ~m_sock
    BY <2>2 DEF SettledInv, StopInv, ListenInv
  <2>4. \A i \in Slots : ~(i < 1)
    BY Bounds DEF Slots
  <2> QED
    BY <1>0, <2>1, <2>2, <2>3, <2>4 DEF SettledInv, StopInv, ListenInv, EmptyInv
<1>6. CASE StopDelSlot(a)
  <2>1. \A b \in Admins \ {a} : pc[b] = "idle"
    BY <1>4, <1>6 DEF StopDelSlot
  <2>2. del_i \in Slots /\ m_socket_wait' = [m_socket_wait EXCEPT ![del_i] = None]
    BY <1>0, <1>6, Bounds DEF StopDelSlot, BaseInv, Slots
  <2> QED
    BY <1>0, <1>6, <2>1, <2>2 DEF StopDelSlot, SettledInv, StopInv, ListenInv, EmptyInv
<1>7. CASE StopSkipSlot(a)
  <2>1. \A b \in Admins \ {a} : pc[b] = "idle"
    BY <1>4, <1>7 DEF StopSkipSlot
  <2> QED
    BY <1>0, <1>7, <2>1 DEF StopSkipSlot, SettledInv, StopInv, ListenInv, EmptyInv
<1>8. CASE StopJoinTmp(a)
  <2>1. \A b \in Admins \ {a} : pc[b] = "idle"
    BY <1>4, <1>8 DEF StopJoinTmp
  <2> QED
    BY <1>0, <1>8, <2>1 DEF StopJoinTmp, SettledInv, StopInv, ListenInv, EmptyInv
<1>9. CASE StopDone(a)
  <2>1. \A b \in Admins : pc'[b] = "idle"
    BY <1>0, <1>4, <1>9 DEF StopDone
  <2>2. lpc = "none" /\ ~m_sock /\ \A i \in Slots : m_socket_wait[i] = None
    <3>1. CASE pc[a] = "done"
      BY <3>1, Zenon DEF SettledInv, StopInv, EmptyInv
    <3>2. CASE pc[a] = "slots" /\ del_i > WaitMax
      BY <1>0, <3>2, Bounds DEF SettledInv, StopInv, ListenInv, Slots
    <3> QED
      BY <1>9, <3>1, <3>2 DEF StopDone
  <2> QED
    BY <1>9, <2>1, <2>2 DEF StopDone, SettledInv, StopInv, ListenInv, EmptyInv
<1> QED
  BY <1>1, <1>2, <1>3, <1>5, <1>6, <1>7, <1>8, <1>9 DEF AdmStep

-----------------------------------------------------------------------------
(***************************************************************************)
(* Lemmas.                                                                 *)
(***************************************************************************)

\* The types the proofs below need.
Types ==
  /\ m_socket_wait \in [Slots -> Sock \cup {None}]
  /\ m_thread_wait \in [Slots -> Tmp \cup {None}]
  /\ socket_wait_index_new \in Slots /\ client_h \in Tmp \cup {None}
  /\ tpc \in [Tmp -> {"none", "start", "loop", "select", "login", "remove", "close"}]
  /\ index \in [Tmp -> 0 .. WaitMax] /\ s_client \in [Tmp -> Sock \cup {None}]
  /\ pc \in [Admins -> {"idle", "signal", "join", "slots", "jointmp", "done"}]
  /\ \A t \in Tmp : tpc[t] # "none" => At(t) \in Slots
  /\ \A t \in Tmp : tpc[t] = "none" => Conn(t) = None
  /\ None \notin Sock /\ None \notin Tmp /\ None \notin Admins

LEMMA SafeTypes == ASSUME BaseInv PROVE Types
  BY Bounds DEF BaseInv, TypeOK, At, Conn, Types

\* A slot has one thread.
LEMMA OneHolder ==
  ASSUME IInv, NEW t \in Tmp, NEW u \in Tmp, Holds(t), Holds(u), At(t) = At(u)
  PROVE  t = u
<1>1. ASSUME lpc \in {"relock", "sleep"} PROVE m_thread_wait[add_i] = None
  BY <1>1 DEF IInv, SafeInv, NewInv, Adding
<1> QED
  BY <1>1, Bounds DEF Holds

\* A thread that looks for its connection finds it in its own slot.
LEMMA OwnSlot ==
  ASSUME IInv, NEW t \in Tmp, tpc[t] # "start", s_client[t] # None, SlotOf(s_client[t]) # {}
  PROVE  /\ Min(SlotOf(s_client[t])) = index[t] /\ index[t] \in Slots
         /\ m_socket_wait[index[t]] = s_client[t]
<1>1. SlotOf(s_client[t]) \subseteq Nat
  BY Bounds DEF SlotOf, Slots
<1>2. Min(SlotOf(s_client[t])) \in SlotOf(s_client[t])
  BY <1>1, MinExists
<1> QED
  BY <1>2 DEF SlotOf, IInv, SafeInv, DistinctInv, At, Conn

\* Nothing runs in the initial states.
LEMMA InitSafe == Init => SettledInv /\ SafeInv
<1> SUFFICES ASSUME Init PROVE SettledInv /\ SafeInv
  OBVIOUS
<1>1. /\ lpc = "none" /\ ~m_sock /\ ~m_flg_running /\ client_h = None
      /\ \A i \in Slots : m_socket_wait[i] = None
      /\ \A t \in Tmp : tpc[t] = "none" /\ s_client[t] = None
      /\ \A a \in Admins : pc[a] = "idle"
  BY DEF Init
<1>2. StopInv /\ ListenInv /\ EmptyInv
  BY <1>1 DEF StopInv, ListenInv, EmptyInv
<1>3. NewInv /\ StartInv /\ HolderInv /\ SockInv /\ SlotInv /\ DistinctInv /\ AddInv /\ EndedInv
  BY <1>1 DEF NewInv, StartInv, Adding, HolderInv, SockInv, SlotInv, DistinctInv, AddInv,
              Serving, Conn, EndedInv
<1> QED
  BY <1>2, <1>3 DEF SafeInv, SettledInv

\* A step that leaves the slots alone, and the slot and the connection of
\* every thread, disturbs nothing unless stopSvr or the server's state moves.
LEMMA SameSlots ==
  ASSUME IInv, UNCHANGED <<m_socket_wait, m_thread_wait, socket_wait_index_new, add_i, client_h>>,
         \A t \in Tmp : At(t)' = At(t) /\ Conn(t)' = Conn(t),
         \A t \in Tmp : \/ tpc'[t] = tpc[t]
                        \/ tpc[t] \in Serving /\ tpc'[t] \in Serving \cup {"close"},
         lpc' \in Adding <=> lpc \in Adding,
         client_h # None => lpc' \in {"relock", "sleep"},
         lpc' = "add" => lpc = "add" /\ client_s' = client_s
  PROVE  NewInv' /\ StartInv' /\ HolderInv' /\ SlotInv' /\ DistinctInv' /\ AddInv'
<1> USE DEF IInv, SafeInv, Serving
<1>t. Types
  BY SafeTypes
<1> USE <1>t DEF Types
<1>1. NewInv' /\ StartInv'
  BY DEF NewInv, StartInv, Serves
<1>2. ASSUME NEW t \in Tmp, Holds(t) PROVE Holds(t)'
  BY <1>2 DEF Holds
<1>3. ASSUME NEW t \in Tmp, tpc[t] \in Serving PROVE Holds(t)
  BY <1>3 DEF HolderInv
<1>4. HolderInv'
  BY <1>2, <1>3 DEF HolderInv
<1>5. SlotInv'
  BY DEF SlotInv, Serves
<1>6. DistinctInv' /\ AddInv'
  BY DEF DistinctInv, AddInv
<1> QED
  BY <1>1, <1>4, <1>5, <1>6

\* If those do not move either, it keeps the whole invariant.
LEMMA SameAll ==
  ASSUME IInv, UNCHANGED <<m_socket_wait, m_thread_wait, socket_wait_index_new, add_i, client_h>>,
         \A t \in Tmp : At(t)' = At(t) /\ Conn(t)' = Conn(t),
         \A t \in Tmp : \/ tpc'[t] = tpc[t]
                        \/ tpc[t] \in Serving /\ tpc'[t] \in Serving \cup {"close"},
         lpc' \in Adding <=> lpc \in Adding,
         client_h # None => lpc' \in {"relock", "sleep"},
         lpc' = "add" => lpc = "add" /\ client_s' = client_s,
         \A a \in Admins : pc[a] = "jointmp" => pc'[a] = "jointmp" /\ del_i' = del_i,
         ~m_flg_running' => ~m_flg_running
  PROVE  SafeInv'
<1>1. NewInv' /\ StartInv' /\ HolderInv' /\ SlotInv' /\ DistinctInv' /\ AddInv'
  BY SameSlots
<1>2. SockInv'
  BY DEF IInv, SafeInv, SockInv
<1>3. EndedInv'
  <2>1. ASSUME NEW t \in Tmp, ~m_flg_running' PROVE tpc'[t] \in {"none", "close"}
    BY <2>1 DEF IInv, SafeInv, EndedInv, Serving
  <2> QED
    BY <2>1 DEF EndedInv
<1> QED
  BY <1>1, <1>2, <1>3 DEF SafeInv

-----------------------------------------------------------------------------
(***************************************************************************)
(* The listening thread.                                                   *)
(***************************************************************************)

\* Steps that only move the listening thread, or close what is in no slot.
LEMMA LnMoveSafe ==
  ASSUME IInv,
         \/ LnStart \/ LnExit \/ LnFail \/ LnFull \/ LnCreateFails \/ LnRelock \/ LnRefuse
  PROVE  SafeInv'
<1> USE DEF slots, tmp, adm
<1>1. /\ UNCHANGED <<m_socket_wait, m_thread_wait, socket_wait_index_new, add_i, tpc,
                     index, s_client, pc, del_i, m_flg_running>>
      /\ lpc' # "add"
  BY DEF LnStart, LnExit, LnFail, LnEnd, LnFull, LnCreateFails, LnRelock, LnRefuse
<1>2. client_h # None => lpc \in {"relock", "sleep"}
  BY DEF IInv, SafeInv, StartInv
<1>3. /\ lpc' \in Adding <=> lpc \in Adding
      /\ client_h' = client_h /\ (client_h # None => lpc' \in {"relock", "sleep"})
  BY <1>2 DEF LnStart, LnExit, LnFail, LnEnd, LnFull, LnCreateFails, LnRelock, LnRefuse,
              Adding
<1>4. \A t \in Tmp : At(t)' = At(t) /\ Conn(t)' = Conn(t)
  BY <1>1 DEF At, Conn
<1> QED
  BY <1>1, <1>3, <1>4, SameAll

\* Nobody has the handle value of a connection just accepted.
LEMMA LnAcceptSafe ==
  ASSUME IInv, ~HandleReuse, LnAccept
  PROVE  SafeInv'
<1>t. Types
  BY SafeTypes DEF IInv
<1> USE <1>t DEF Types, slots, tmp, adm
<1>1. PICK s \in Sock : s \notin Remembered /\ client_s' = s
  BY DEF LnAccept
<1>2. /\ UNCHANGED <<m_socket_wait, m_thread_wait, socket_wait_index_new, add_i, client_h,
                     tpc, index, s_client, pc, del_i, m_flg_running>>
      /\ lpc = "accept" /\ lpc' = "add"
  BY DEF LnAccept
<1>3. \A t \in Tmp : At(t)' = At(t) /\ Conn(t)' = Conn(t)
  BY <1>2 DEF At, Conn
<1>4. \A i \in Slots : m_socket_wait[i] # s
  BY <1>1 DEF Remembered
<1>5. ASSUME NEW t \in Tmp PROVE Conn(t) # s
  BY <1>1, <1>4 DEF Remembered, Conn
<1>6. NewInv' /\ StartInv'
  BY <1>2 DEF NewInv, StartInv, Adding, IInv, SafeInv
<1>7. HolderInv' /\ SockInv' /\ SlotInv' /\ DistinctInv' /\ EndedInv'
  BY <1>2, <1>3 DEF IInv, SafeInv, HolderInv, Holds, SockInv, SlotInv, Serves, Adding,
                    DistinctInv, EndedInv
<1>8. AddInv'
  BY <1>1, <1>2, <1>3, <1>4, <1>5 DEF AddInv
<1> QED
  BY <1>6, <1>7, <1>8 DEF SafeInv

\* The slot that is taken has no thread that still works, as long as none has
\* still to read the number of its own.
LEMMA LnAddSlotSafe ==
  ASSUME IInv, LnAddSlot, ~overtaken'
  PROVE  SafeInv'
<1>t. Types
  BY SafeTypes DEF IInv
<1> USE <1>t DEF Types, slots, lsn, tmp, adm, socks
<1>0. DEFINE i == Min(FreeSlots)
<1>a. i \in Slots /\ m_socket_wait[i] = None
  <2>1. FreeSlots \subseteq Slots /\ FreeSlots # {}
    BY DEF LnAddSlot, FreeSlots
  <2>2. i \in FreeSlots
    BY <2>1, MinSlot
  <2> QED
    BY <2>2 DEF FreeSlots
<1>b. /\ add_i' = i /\ socket_wait_index_new' = i
      /\ m_thread_wait' = [m_thread_wait EXCEPT ![i] = None]
      /\ m_socket_wait' = [m_socket_wait EXCEPT ![i] = client_s]
      /\ lpc = "add" /\ lpc' = "create"
      /\ UNCHANGED <<tpc, index, s_client, client_h, pc, del_i, m_flg_running>>
  BY DEF LnAddSlot, PublishIndex
<1>c. \A t \in Tmp : tpc[t] # "start"
  BY DEF LnAddSlot
<1> HIDE DEF i
<1>d. \A t \in Tmp : /\ At(t) = index[t] /\ Conn(t) = s_client[t]
                     /\ At(t)' = index[t] /\ Conn(t)' = s_client[t]
  BY <1>b, <1>c DEF At, Conn
<1>e. /\ client_s \in Sock /\ client_h = None
      /\ \A j \in Slots : m_socket_wait[j] # client_s
      /\ \A t \in Tmp : s_client[t] # client_s
  BY <1>b, <1>d DEF IInv, SafeInv, AddInv, StartInv
<1>f. ASSUME NEW t \in Tmp, tpc[t] \in Serving
      PROVE  index[t] # i /\ s_client[t] # None /\ m_socket_wait[index[t]] = s_client[t]
  <2>1. \A a \in Admins : pc[a] # "jointmp"
    BY <1>b DEF IInv, SettledInv, StopInv
  <2> QED
    BY <1>a, <1>d, <1>f, <2>1 DEF IInv, SafeInv, SockInv
<1>1. StartInv' /\ SlotInv' /\ AddInv' /\ EndedInv'
  <2>1. StartInv' /\ AddInv' /\ EndedInv'
    BY <1>b, <1>e DEF StartInv, AddInv, EndedInv, IInv, SafeInv
  <2>2. ASSUME NEW j \in Slots, m_socket_wait'[j] # None, j # i
        PROVE  m_thread_wait'[j] # None /\ Serves(m_thread_wait[j], j)'
    <3>1. /\ m_socket_wait'[j] = m_socket_wait[j] /\ m_thread_wait'[j] = m_thread_wait[j]
      BY <1>b, <2>2
    <3>2. m_thread_wait[j] # None /\ Serves(m_thread_wait[j], j) /\ m_thread_wait[j] \in Tmp
      BY <1>b, <2>2, <3>1 DEF IInv, SafeInv, SlotInv, Adding
    <3> QED
      BY <1>b, <1>d, <3>1, <3>2 DEF Serves
  <2> QED
    BY <1>b, <2>1, <2>2 DEF SlotInv, Adding
<1>2. NewInv'
  BY <1>a, <1>b, <1>e DEF NewInv
<1>3. HolderInv'
  <2>1. ASSUME NEW t \in Tmp,
               \/ tpc[t] \in Serving
               \/ tpc[t] = "close" /\ s_client[t] # None /\ m_socket_wait'[index[t]] = s_client[t]
        PROVE  Holds(t)'
    <3>1. index[t] \in Slots /\ index[t] # i
      BY <1>a, <1>b, <1>d, <1>e, <1>f, <2>1 DEF Serving
    <3>2. m_socket_wait'[index[t]] = m_socket_wait[index[t]]
      BY <1>b, <3>1
    <3>3. m_thread_wait[index[t]] = t
      BY <1>b, <1>d, <2>1, <3>2 DEF IInv, SafeInv, HolderInv, Holds
    <3> QED
      BY <1>b, <1>d, <3>1, <3>3 DEF Holds
  <2> QED
    BY <1>b, <1>d, <2>1 DEF HolderInv
<1>4. SockInv'
  BY <1>b, <1>d, <1>f DEF SockInv, Serving
<1>5. DistinctInv'
  BY <1>a, <1>b, <1>d, <1>e DEF IInv, SafeInv, DistinctInv
<1> QED
  BY <1>1, <1>2, <1>3, <1>4, <1>5 DEF SafeInv

\* The new thread is the one AddTmpSocket waits for.
LEMMA LnCreateSafe ==
  ASSUME IInv, LnCreate
  PROVE  SafeInv'
<1>t. Types
  BY SafeTypes DEF IInv
<1> USE <1>t DEF Types, slots, lsn, tmp, adm, socks
<1>1. PICK t \in Tmp : /\ tpc[t] = "none" /\ client_h' = t
                       /\ tpc' = [tpc EXCEPT ![t] = "start"]
  BY DEF LnCreate
<1>2. /\ UNCHANGED <<m_socket_wait, m_thread_wait, socket_wait_index_new, add_i, index,
                     s_client, pc, del_i, m_flg_running>>
      /\ lpc = "create" /\ lpc' = "relock"
  BY DEF LnCreate
<1>3. /\ add_i \in Slots /\ socket_wait_index_new = add_i /\ m_socket_wait[add_i] # None
      /\ m_thread_wait[add_i] = None /\ client_h = None
  BY <1>2 DEF IInv, SafeInv, NewInv, StartInv, Adding
<1>4. \A u \in Tmp : u # t => tpc'[u] = tpc[u] /\ At(u)' = At(u) /\ Conn(u)' = Conn(u)
  BY <1>1, <1>2 DEF At, Conn
<1>5. tpc'[t] = "start" /\ At(t)' = add_i /\ Conn(t)' = m_socket_wait[add_i]
  BY <1>1, <1>2, <1>3 DEF At, Conn
<1>6. NewInv' /\ StartInv' /\ AddInv'
  BY <1>1, <1>2, <1>3, <1>5 DEF NewInv, StartInv, AddInv, Serves
<1>7. HolderInv'
  <2>1. ASSUME NEW u \in Tmp, u # t, Holds(u) PROVE Holds(u)'
    BY <1>2, <1>3, <1>4, <2>1 DEF Holds
  <2>2. Holds(t)'
    BY <1>1, <1>2, <1>5 DEF Holds
  <2> QED
    BY <1>2, <1>4, <2>1, <2>2 DEF HolderInv, IInv, SafeInv
<1>8. SockInv' /\ DistinctInv'
  BY <1>2, <1>3, <1>4, <1>5 DEF SockInv, DistinctInv, IInv, SafeInv
<1>9. SlotInv'
  BY <1>1, <1>2, <1>4 DEF SlotInv, Serves, Adding, IInv, SafeInv
<1>10. EndedInv'
  BY <1>2, Zenon DEF EndedInv, IInv, SettledInv, EmptyInv
<1> QED
  BY <1>6, <1>7, <1>8, <1>9, <1>10 DEF SafeInv

\* After the sleep the thread is the slot's, or it has freed the slot.
LEMMA LnCheckThreadSafe ==
  ASSUME IInv, LnCheckThread
  PROVE  SafeInv'
<1>t. Types
  BY SafeTypes DEF IInv
<1> USE <1>t DEF Types, slots, lsn, tmp, adm, socks
<1>a. /\ lpc = "sleep" /\ client_h \in Tmp /\ add_i \in Slots /\ m_thread_wait[add_i] = None
      /\ m_socket_wait[add_i] # None => Serves(client_h, add_i)
  BY DEF LnCheckThread, IInv, SafeInv, NewInv, Adding
<1>c. /\ lpc' \in {"accept", "refuse"} /\ client_h' = None
      /\ UNCHANGED <<m_socket_wait, socket_wait_index_new, tpc, index, s_client, pc, del_i,
                     m_flg_running>>
      /\ tpc[client_h] # "none" => m_thread_wait' = [m_thread_wait EXCEPT ![add_i] = client_h]
      /\ tpc[client_h] = "none" => m_thread_wait' = m_thread_wait
  BY DEF LnCheckThread
<1>d. \A t \in Tmp : At(t)' = At(t) /\ Conn(t)' = Conn(t)
  BY <1>c DEF At, Conn
<1>1. NewInv' /\ StartInv' /\ SockInv' /\ DistinctInv' /\ AddInv' /\ EndedInv'
  BY <1>c, <1>d DEF NewInv, StartInv, SockInv, DistinctInv, AddInv, EndedInv, Adding, IInv,
                    SafeInv
<1>2. HolderInv'
  <2>1. ASSUME NEW t \in Tmp,
               \/ tpc[t] \in Serving
               \/ tpc[t] = "close" /\ Conn(t) # None /\ m_socket_wait[At(t)] = Conn(t)
        PROVE  m_thread_wait'[At(t)] = t
    <3>1. Holds(t) /\ At(t) \in Slots /\ tpc[t] # "none"
      BY <2>1 DEF IInv, SafeInv, HolderInv, Serving
    <3>2. CASE m_thread_wait[At(t)] = t
      BY <1>a, <1>c, <3>1, <3>2
    <3>3. CASE client_h = t /\ add_i = At(t)
      BY <1>a, <1>c, <3>1, <3>3
    <3> QED
      BY <3>1, <3>2, <3>3 DEF Holds
  <2> QED
    BY <1>c, <1>d, <2>1 DEF HolderInv, Holds
<1>3. SlotInv'
  <2>1. ASSUME NEW i \in Slots, m_socket_wait[i] # None
        PROVE  m_thread_wait'[i] # None /\ Serves(m_thread_wait'[i], i) /\ m_thread_wait'[i] \in Tmp
    <3>1. CASE i = add_i
      <4>1. Serves(client_h, add_i)
        BY <1>a, <2>1, <3>1
      <4>2. m_thread_wait'[i] = client_h
        BY <1>a, <1>c, <3>1, <4>1 DEF Serves
      <4> QED
        BY <1>a, <3>1, <4>1, <4>2
    <3>2. CASE i # add_i
      <4>1. m_thread_wait[i] # None /\ Serves(m_thread_wait[i], i)
        BY <2>1, <3>2 DEF IInv, SafeInv, SlotInv
      <4>2. m_thread_wait'[i] = m_thread_wait[i]
        BY <1>c, <3>2
      <4> QED
        BY <4>1, <4>2
    <3> QED
      BY <3>1, <3>2
  <2> QED
    BY <1>c, <1>d, <2>1 DEF SlotInv, Serves
<1> QED
  BY <1>1, <1>2, <1>3 DEF SafeInv

\* No thread was created for the slot that is freed.
LEMMA LnNoThreadSafe ==
  ASSUME IInv, LnNoThread
  PROVE  SafeInv'
<1>t. Types
  BY SafeTypes DEF IInv
<1> USE <1>t DEF Types, slots, lsn, tmp, adm, socks
<1>a. /\ lpc = "sleep" /\ lpc' = "refuse" /\ client_h = None
      /\ add_i \in Slots /\ m_thread_wait[add_i] = None /\ socket_wait_index_new = add_i
      /\ m_socket_wait' = [m_socket_wait EXCEPT ![add_i] = None]
      /\ UNCHANGED <<m_thread_wait, socket_wait_index_new, tpc, index, s_client, client_h, pc,
                     del_i, m_flg_running>>
  BY DEF LnNoThread, IInv, SafeInv, NewInv, Adding
<1>b. ASSUME NEW t \in Tmp, Holds(t) PROVE At(t) # add_i /\ m_thread_wait[At(t)] = t
  BY <1>a, <1>b DEF Holds
<1>c. \A t \in Tmp : tpc[t] # "start"
  BY <1>a, <1>b DEF IInv, SafeInv, HolderInv, Serving, At
<1>d. \A t \in Tmp : At(t)' = At(t) /\ Conn(t)' = Conn(t)
  BY <1>a, <1>c DEF At, Conn
<1>1. NewInv' /\ StartInv' /\ AddInv' /\ EndedInv'
  BY <1>a DEF NewInv, StartInv, AddInv, EndedInv, Adding, IInv, SafeInv
<1>2. DistinctInv'
  BY <1>a, <1>d DEF DistinctInv, IInv, SafeInv
<1>3. HolderInv'
  <2>1. ASSUME NEW t \in Tmp,
               \/ tpc[t] \in Serving
               \/ tpc[t] = "close" /\ Conn(t) # None /\ m_socket_wait'[At(t)] = Conn(t)
        PROVE  m_thread_wait[At(t)] = t
    <3>1. At(t) \in Slots
      BY <2>1 DEF Serving
    <3>2. m_socket_wait'[At(t)] \in {m_socket_wait[At(t)], None}
      BY <1>a, <3>1
    <3>3. Holds(t)
      BY <2>1, <3>2 DEF IInv, SafeInv, HolderInv
    <3> QED
      BY <1>b, <3>3
  <2> QED
    BY <1>a, <1>d, <2>1 DEF HolderInv, Holds
<1>4. SockInv'
  <2>1. ASSUME NEW t \in Tmp, tpc[t] \in Serving
        PROVE  m_socket_wait'[At(t)] = m_socket_wait[At(t)]
    <3>1. Holds(t) /\ At(t) \in Slots
      BY <2>1 DEF IInv, SafeInv, HolderInv, Serving
    <3> QED
      BY <1>a, <1>b, <3>1
  <2> QED
    BY <1>a, <1>d, <2>1 DEF SockInv, IInv, SafeInv
<1>5. SlotInv'
  BY <1>a, <1>d DEF IInv, SafeInv, SlotInv, Adding, Serves
<1> QED
  BY <1>1, <1>2, <1>3, <1>4, <1>5 DEF SafeInv

\* The listening thread keeps the invariant.
LEMMA LnSafe ==
  ASSUME IInv, ~HandleReuse, ~overtaken', LnAccept \/ LnFail \/ LnStep
  PROVE  SafeInv'
  BY LnMoveSafe, LnAcceptSafe, LnAddSlotSafe, LnCreateSafe, LnCheckThreadSafe, LnNoThreadSafe
     DEF LnStep

-----------------------------------------------------------------------------
(***************************************************************************)
(* The temporary threads.                                                  *)
(***************************************************************************)

\* Steps on the way through the thread that touch no slot.
LEMMA TmpMoveSafe ==
  ASSUME IInv, NEW t \in Tmp,
         \/ TmpStart(t) \/ TmpIdle(t) \/ TmpError(t) \/ TmpRegister(t) \/ TmpLogin(t)
         \/ TmpLoginRefused(t)
  PROVE  SafeInv'
<1>t. Types
  BY SafeTypes DEF IInv
<1> USE <1>t DEF Types, slots, lsn, adm
<1>1. UNCHANGED <<m_socket_wait, m_thread_wait, socket_wait_index_new, lpc, client_s, add_i,
                  client_h, pc, del_i, m_flg_running>>
  BY DEF TmpStart, TmpIdle, TmpError, TmpRegister, TmpLogin, TmpLoginRefused
<1>2. /\ \A u \in Tmp \ {t} : UNCHANGED <<tpc[u], index[u], s_client[u]>>
      /\ tpc[t] \in Serving /\ tpc'[t] \in (Serving \cup {"close"}) \ {"start"}
  BY DEF TmpStart, TmpIdle, TmpError, TmpRegister, TmpLogin, TmpLoginRefused, AfterRefusal,
         Goto, Serving
<1>3. At(t)' = At(t) /\ Conn(t)' = Conn(t)
  <2>1. CASE TmpStart(t)
    BY <2>1 DEF TmpStart, Goto, At, Conn
  <2>2. CASE ~TmpStart(t)
    BY <2>2 DEF TmpIdle, TmpError, TmpRegister, TmpLogin, TmpLoginRefused, AfterRefusal,
                Goto, At, Conn
  <2> QED
    BY <2>1, <2>2
<1>4. \A u \in Tmp : At(u)' = At(u) /\ Conn(u)' = Conn(u)
  BY <1>1, <1>2, <1>3 DEF At, Conn
<1>5. client_h # None => lpc \in {"relock", "sleep"}
  BY DEF IInv, SafeInv, StartInv
<1>6. ASSUME NEW u \in Tmp
      PROVE  \/ tpc'[u] = tpc[u]
             \/ tpc[u] \in Serving /\ tpc'[u] \in Serving \cup {"close"}
  <2>1. CASE u = t
    BY <1>2, <2>1
  <2>2. CASE u # t
    BY <1>2, <2>2
  <2> QED
    BY <2>1, <2>2
<1> QED
  BY <1>1, <1>4, <1>5, <1>6, SameAll

\* The thread looks at its slot again: its connection is there, or stopSvr
\* has closed it.
LEMMA TmpLoopSafe ==
  ASSUME IInv, NEW t \in Tmp, TmpLoop(t)
  PROVE  SafeInv'
<1>t. Types
  BY SafeTypes DEF IInv
<1> USE <1>t DEF Types, slots, lsn, adm
<1>1. /\ UNCHANGED <<m_socket_wait, m_thread_wait, socket_wait_index_new, lpc, client_s, add_i,
                     client_h, index, pc, del_i, m_flg_running>>
      /\ tpc[t] = "loop" /\ s_client' = [s_client EXCEPT ![t] = m_socket_wait[index[t]]]
      /\ tpc' = [tpc EXCEPT ![t] = IF m_socket_wait[index[t]] = None THEN "close" ELSE "select"]
  BY DEF TmpLoop, Goto
<1>2. /\ index[t] \in Slots /\ m_socket_wait[index[t]] \in Sock \cup {None}
      /\ At(t) = index[t] /\ Conn(t) = s_client[t]
      /\ At(t)' = index[t] /\ Conn(t)' = m_socket_wait[index[t]]
  BY <1>1 DEF At, Conn
<1>3. \A u \in Tmp \ {t} : tpc'[u] = tpc[u] /\ At(u)' = At(u) /\ Conn(u)' = Conn(u)
  BY <1>1 DEF At, Conn
<1>4. CASE m_socket_wait[index[t]] = s_client[t]
  <2>1. client_h # None => lpc \in {"relock", "sleep"}
    BY DEF IInv, SafeInv, StartInv
  <2>2. \A u \in Tmp : \/ tpc'[u] = tpc[u]
                       \/ tpc[u] \in Serving /\ tpc'[u] \in Serving \cup {"close"}
    BY <1>1, <1>3 DEF Serving
  <2>3. \A u \in Tmp : At(u)' = At(u) /\ Conn(u)' = Conn(u)
    BY <1>2, <1>3, <1>4
  <2> QED
    BY <1>1, <2>1, <2>2, <2>3, SameAll
<1>5. CASE m_socket_wait[index[t]] # s_client[t]
  <2>1. PICK a \in Admins : pc[a] = "jointmp" /\ index[t] = del_i
    BY <1>1, <1>2, <1>5 DEF IInv, SafeInv, SockInv, Serving
  <2>2. m_socket_wait[index[t]] = None /\ lpc = "none"
    BY <2>1 DEF IInv, SettledInv, StopInv
  <2>3. tpc'[t] = "close" /\ Conn(t)' = None
    BY <1>1, <1>2, <2>2
  <2>4. NewInv' /\ StartInv' /\ AddInv' /\ EndedInv'
    BY <1>1, <1>3, <2>2, <2>3
       DEF NewInv, StartInv, AddInv, EndedInv, Adding, IInv, SafeInv
  <2>5. ASSUME NEW u \in Tmp, Holds(u) PROVE Holds(u)'
    BY <1>1, <1>2, <1>3, <2>5 DEF Holds
  <2>6. HolderInv'
    BY <1>1, <1>3, <2>3, <2>5 DEF HolderInv, IInv, SafeInv, Serving
  <2>7. SockInv' /\ DistinctInv'
    BY <1>1, <1>2, <1>3, <2>3 DEF SockInv, DistinctInv, IInv, SafeInv, Serving
  <2>8. SlotInv'
    <3>1. ASSUME NEW i \in Slots, m_socket_wait[i] # None
          PROVE  m_thread_wait[i] # None /\ Serves(m_thread_wait[i], i)'
      <4>1. /\ m_thread_wait[i] # None /\ Serves(m_thread_wait[i], i)
            /\ m_thread_wait[i] \in Tmp
        BY <2>2, <3>1 DEF IInv, SafeInv, SlotInv, Adding
      <4>2. m_thread_wait[i] # t
        BY <1>2, <2>2, <3>1, <4>1 DEF Serves
      <4> QED
        BY <1>1, <1>3, <4>1, <4>2 DEF Serves
    <3> QED
      BY <1>1, <3>1 DEF SlotInv
  <2> QED
    BY <2>4, <2>6, <2>7, <2>8 DEF SafeInv
<1> QED
  BY <1>4, <1>5

\* A slot is freed by the thread that holds it, on its last steps.
LEMMA FreedSafe ==
  ASSUME IInv, NEW t \in Tmp, Holds(t), tpc[t] \in {"remove", "close"},
         m_socket_wait' = [m_socket_wait EXCEPT ![index[t]] = None],
         UNCHANGED <<m_thread_wait, socket_wait_index_new, lsn, adm, m_flg_running>>,
         \A u \in Tmp \ {t} : UNCHANGED <<tpc[u], index[u], s_client[u]>>,
         \/ tpc'[t] = "close" /\ UNCHANGED <<index[t], s_client[t]>>
         \/ tpc'[t] = "none" /\ s_client'[t] = None
  PROVE  SafeInv'
<1>t. Types
  BY SafeTypes DEF IInv
<1> USE <1>t DEF Types, lsn, adm
<1>1. At(t) = index[t] /\ Conn(t) = s_client[t] /\ index[t] \in Slots
  BY DEF At, Conn
<1>2. /\ m_socket_wait'[index[t]] = None
      /\ \A i \in Slots \ {index[t]} : m_socket_wait'[i] = m_socket_wait[i]
  BY <1>1
<1>3. ASSUME NEW u \in Tmp, u # t, Holds(u) PROVE At(u) # index[t]
  BY <1>1, <1>3, OneHolder
<1>4. ASSUME NEW u \in Tmp, u # t PROVE At(u)' = At(u) /\ Conn(u)' = Conn(u)
  <2>1. CASE tpc[u] = "start"
    <3>1. Holds(u)
      BY <2>1 DEF IInv, SafeInv, HolderInv, Serving
    <3> QED
      BY <1>2, <1>3, <1>4, <2>1, <3>1 DEF At, Conn
  <2>2. CASE tpc[u] # "start"
    BY <1>4, <2>2 DEF At, Conn
  <2> QED
    BY <2>1, <2>2
<1>5. Conn(t)' \in {Conn(t), None} /\ (tpc'[t] = "close" => At(t)' = At(t))
  BY <1>1 DEF At, Conn
<1>6. NewInv'
  <2>1. SUFFICES ASSUME lpc \in Adding
                 PROVE  /\ client_h = None => m_socket_wait'[add_i] # None
                        /\ client_h # None /\ m_socket_wait'[add_i] # None =>
                             Serves(client_h, add_i)'
    BY DEF NewInv, IInv, SafeInv, Adding
  <2>2. /\ add_i \in Slots /\ m_thread_wait[add_i] = None
        /\ client_h = None => m_socket_wait[add_i] # None
        /\ client_h # None /\ m_socket_wait[add_i] # None => Serves(client_h, add_i)
    BY <2>1 DEF IInv, SafeInv, NewInv
  <2>3. CASE index[t] = add_i
    <3>1. client_h = t
      BY <1>1, <2>2, <2>3 DEF Holds
    <3> QED
      BY <1>2, <2>3, <3>1
  <2>4. CASE index[t] # add_i
    <3>1. m_socket_wait'[add_i] = m_socket_wait[add_i]
      BY <1>2, <2>2, <2>4
    <3>2. ASSUME client_h # None, m_socket_wait[add_i] # None PROVE Serves(client_h, add_i)'
      <4>1. client_h # t /\ Serves(client_h, add_i)
        BY <1>1, <2>2, <2>4, <3>2 DEF Serves
      <4> QED
        BY <1>4, <3>1, <3>2, <4>1 DEF Serves
    <3> QED
      BY <2>2, <3>1, <3>2
  <2> QED
    BY <2>3, <2>4
<1>7. StartInv' /\ EndedInv'
  BY DEF StartInv, EndedInv, IInv, SafeInv
<1>8. HolderInv'
  <2>1. ASSUME NEW u \in Tmp, u # t,
               \/ tpc[u] \in Serving
               \/ tpc[u] = "close" /\ Conn(u) # None /\ m_socket_wait'[At(u)] = Conn(u)
        PROVE  Holds(u)'
    <3>1. Holds(u)
      <4>1. At(u) \in Slots
        BY <2>1 DEF Serving
      <4> QED
        BY <1>2, <2>1, <4>1 DEF IInv, SafeInv, HolderInv
    <3> QED
      BY <1>4, <2>1, <3>1 DEF Holds
  <2>2. tpc'[t] = "close" => Holds(t)'
    BY <1>5 DEF Holds
  <2> QED
    BY <1>4, <2>1, <2>2 DEF HolderInv, Serving
<1>9. SockInv'
  <2>1. ASSUME NEW u \in Tmp, u # t, tpc[u] \in Serving
        PROVE  m_socket_wait'[At(u)] = m_socket_wait[At(u)]
    <3>1. Holds(u) /\ At(u) \in Slots
      BY <2>1 DEF IInv, SafeInv, HolderInv, Serving
    <3> QED
      BY <1>2, <1>3, <2>1, <3>1
  <2> QED
    BY <1>4, <2>1 DEF SockInv, IInv, SafeInv, Serving
<1>10. SlotInv'
  <2>1. ASSUME NEW i \in Slots, m_socket_wait'[i] # None, ~(lpc \in Adding /\ add_i = i)
        PROVE  m_thread_wait[i] # None /\ Serves(m_thread_wait[i], i)'
    <3>1. i # index[t] /\ m_socket_wait'[i] = m_socket_wait[i]
      BY <1>2, <2>1
    <3>2. /\ m_thread_wait[i] # None /\ Serves(m_thread_wait[i], i)
          /\ m_thread_wait[i] \in Tmp
      BY <2>1, <3>1 DEF IInv, SafeInv, SlotInv
    <3>3. m_thread_wait[i] # t
      BY <1>1, <3>1, <3>2 DEF Serves
    <3> QED
      BY <1>4, <3>1, <3>2, <3>3 DEF Serves
  <2> QED
    BY <2>1 DEF SlotInv
<1>11. DistinctInv'
  <2>1. \A i \in Slots : m_socket_wait'[i] # None => m_socket_wait'[i] = m_socket_wait[i]
    BY <1>2
  <2>2. \A i, j \in Slots : m_socket_wait'[i] # None /\ m_socket_wait'[i] = m_socket_wait'[j] => i = j
    BY <2>1 DEF DistinctInv, IInv, SafeInv
  <2>3. ASSUME NEW u \in Tmp, NEW i \in Slots, Conn(u)' # None, m_socket_wait'[i] = Conn(u)'
        PROVE  i = At(u)'
    <3>1. Conn(u)' = Conn(u) /\ m_socket_wait'[i] = m_socket_wait[i]
      BY <1>4, <1>5, <2>1, <2>3
    <3>2. i = At(u)
      BY <2>3, <3>1 DEF DistinctInv, IInv, SafeInv
    <3>3. u # t
      BY <1>1, <1>2, <2>3, <3>2
    <3> QED
      BY <1>4, <3>2, <3>3
  <2> QED
    BY <2>2, <2>3 DEF DistinctInv
<1>12. AddInv'
  <2>1. \A u \in Tmp : Conn(u)' \in {Conn(u), None}
    BY <1>4, <1>5
  <2>2. \A i \in Slots : m_socket_wait'[i] \in {m_socket_wait[i], None}
    BY <1>2
  <2> QED
    BY <2>1, <2>2 DEF AddInv, IInv, SafeInv
<1> QED
  BY <1>6, <1>7, <1>8, <1>9, <1>10, <1>11, <1>12 DEF SafeInv

\* Only the thread's own slot is freed when it has handed over.
LEMMA TmpRemoveSafe ==
  ASSUME IInv, NEW t \in Tmp, TmpRemove(t)
  PROVE  SafeInv'
<1>t. Types
  BY SafeTypes DEF IInv
<1> USE <1>t DEF Types, slots, lsn, adm
<1>1. /\ tpc[t] = "remove" /\ tpc' = [tpc EXCEPT ![t] = "close"]
      /\ UNCHANGED <<m_thread_wait, socket_wait_index_new, lsn, adm, m_flg_running, index,
                     s_client>>
      /\ m_socket_wait' = [i \in Slots |->
           IF SlotOf(s_client[t]) # {} /\ i = Min(SlotOf(s_client[t]))
           THEN None ELSE m_socket_wait[i]]
  BY DEF TmpRemove, Goto
<1>2. Holds(t) /\ index[t] \in Slots
  BY <1>1 DEF IInv, SafeInv, HolderInv, Serving, At
<1>3. /\ \A u \in Tmp \ {t} : UNCHANGED <<tpc[u], index[u], s_client[u]>>
      /\ tpc'[t] = "close" /\ UNCHANGED <<index[t], s_client[t]>>
  BY <1>1
<1>4. m_socket_wait' = [m_socket_wait EXCEPT ![index[t]] = None]
  <2>1. CASE SlotOf(s_client[t]) # {} /\ s_client[t] # None
    <3>1. Min(SlotOf(s_client[t])) = index[t]
      BY <1>1, <2>1, OwnSlot
    <3> QED
      BY <1>1, <1>2, <2>1, <3>1
  <2>2. CASE s_client[t] = None \/ SlotOf(s_client[t]) = {}
    <3>1. m_socket_wait[index[t]] # s_client[t] \/ s_client[t] = None
      BY <1>2, <2>2 DEF SlotOf
    <3>2. PICK a \in Admins : pc[a] = "jointmp" /\ index[t] = del_i
      BY <1>1, <3>1 DEF IInv, SafeInv, SockInv, Serving, At, Conn
    <3>3. m_socket_wait[index[t]] = None
      BY <3>2 DEF IInv, SettledInv, StopInv
    <3>4. m_socket_wait' = m_socket_wait
      <4>1. CASE SlotOf(s_client[t]) = {}
        BY <1>1, <4>1
      <4>2. CASE SlotOf(s_client[t]) # {} /\ s_client[t] = None
        <5>1. Min(SlotOf(s_client[t])) \in SlotOf(s_client[t])
          BY <4>2, MinSlot DEF SlotOf
        <5>2. m_socket_wait[Min(SlotOf(s_client[t]))] = None
          BY <4>2, <5>1 DEF SlotOf
        <5> QED
          BY <1>1, <5>2
      <4> QED
        BY <2>2, <4>1, <4>2
    <3> QED
      BY <1>2, <3>3, <3>4
  <2> QED
    BY <2>1, <2>2
<1>5. UNCHANGED <<lsn, adm>>
  BY <1>1
<1> QED
  BY <1>1, <1>2, <1>3, <1>4, <1>5, FreedSafe

\* And when it closes the connection.
LEMMA TmpCloseSafe ==
  ASSUME IInv, NEW t \in Tmp, TmpClose(t)
  PROVE  SafeInv'
<1>t. Types
  BY SafeTypes DEF IInv
<1> USE <1>t DEF Types, slots, lsn, adm
<1>1. /\ tpc[t] = "close" /\ s_client[t] # None /\ SlotOf(s_client[t]) # {}
      /\ UNCHANGED <<m_thread_wait, socket_wait_index_new, lsn, adm, m_flg_running>>
      /\ m_socket_wait' = [m_socket_wait EXCEPT ![Min(SlotOf(s_client[t]))] = None]
      /\ tpc' = [tpc EXCEPT ![t] = "none"] /\ index' = [index EXCEPT ![t] = 0]
      /\ s_client' = [s_client EXCEPT ![t] = None]
  BY DEF TmpClose, TmpReturn, Goto
<1>2. /\ Min(SlotOf(s_client[t])) = index[t] /\ index[t] \in Slots
      /\ m_socket_wait[index[t]] = s_client[t]
  BY <1>1, OwnSlot
<1>3. Holds(t)
  BY <1>1, <1>2 DEF IInv, SafeInv, HolderInv, At, Conn
<1>4. /\ \A u \in Tmp \ {t} : UNCHANGED <<tpc[u], index[u], s_client[u]>>
      /\ tpc'[t] = "none" /\ s_client'[t] = None
  BY <1>1
<1>5. UNCHANGED <<lsn, adm>>
  BY <1>1
<1> QED
  BY <1>1, <1>2, <1>3, <1>4, <1>5, FreedSafe

\* A thread that ends leaves no slot behind.
LEMMA TmpExitSafe ==
  ASSUME IInv, NEW t \in Tmp, TmpExit(t)
  PROVE  SafeInv'
<1>t. Types
  BY SafeTypes DEF IInv
<1> USE <1>t DEF Types, slots, lsn, adm
<1>1. /\ tpc[t] = "close" /\ (s_client[t] = None \/ SlotOf(s_client[t]) = {})
      /\ UNCHANGED <<m_socket_wait, m_thread_wait, socket_wait_index_new, lsn, adm,
                     m_flg_running>>
      /\ tpc' = [tpc EXCEPT ![t] = "none"] /\ index' = [index EXCEPT ![t] = 0]
      /\ s_client' = [s_client EXCEPT ![t] = None]
  BY DEF TmpExit, TmpReturn, Goto
<1>2. \A u \in Tmp \ {t} : tpc'[u] = tpc[u] /\ At(u)' = At(u) /\ Conn(u)' = Conn(u)
  BY <1>1 DEF At, Conn
<1>3. tpc'[t] = "none" /\ Conn(t)' = None /\ Conn(t) = s_client[t]
  BY <1>1 DEF Conn
<1>4. ASSUME NEW i \in Slots, m_socket_wait[i] # None PROVE ~Serves(t, i)
  BY <1>1, <1>3, <1>4 DEF Serves, SlotOf
<1>5. ASSUME NEW u \in Tmp, NEW i \in Slots, m_socket_wait[i] # None, Serves(u, i)
      PROVE  Serves(u, i)'
  BY <1>1, <1>2, <1>4, <1>5 DEF Serves
<1>6. NewInv' /\ StartInv' /\ SlotInv'
  BY <1>1, <1>5 DEF NewInv, StartInv, SlotInv, IInv, SafeInv
<1>7. HolderInv' /\ SockInv' /\ EndedInv'
  BY <1>1, <1>2, <1>3
     DEF HolderInv, Holds, SockInv, EndedInv, Serving, IInv, SafeInv
<1>8. DistinctInv' /\ AddInv'
  BY <1>1, <1>2, <1>3 DEF DistinctInv, AddInv, IInv, SafeInv
<1> QED
  BY <1>6, <1>7, <1>8 DEF SafeInv

\* The temporary threads keep the invariant.
LEMMA TmpSafe ==
  ASSUME IInv, NEW t \in Tmp, TmpStep(t)
  PROVE  SafeInv'
  BY TmpMoveSafe, TmpLoopSafe, TmpRemoveSafe, TmpExitSafe, TmpCloseSafe DEF TmpStep

-----------------------------------------------------------------------------
(***************************************************************************)
(* startSvr and stopSvr.                                                   *)
(***************************************************************************)

\* Steps that touch no slot while no slot has been closed.
LEMMA AdmMoveSafe ==
  ASSUME IInv, NEW a \in Admins,
         StartSvr(a) \/ StopSvr(a) \/ StopSignal(a) \/ StopJoin(a) \/ StopSkipSlot(a)
  PROVE  SafeInv'
<1>t. Types
  BY SafeTypes DEF IInv
<1> USE <1>t DEF Types, slots, lsn, tmp, adm, AdmGoto
<1>1. /\ UNCHANGED <<m_socket_wait, m_thread_wait, socket_wait_index_new, client_s, add_i,
                     client_h, tpc, index, s_client>>
      /\ ~m_flg_running' => ~m_flg_running
  BY DEF StartSvr, StopSvr, StopSignal, SignalStop, StopJoin, StopSkipSlot
<1>2. \A b \in Admins : pc[b] # "jointmp"
  BY Others DEF StartSvr, StopSvr, StopSignal, StopJoin, StopSkipSlot, IInv, BaseInv
<1>3. /\ lpc' = lpc \/ (lpc \in {"none", "exited"} /\ lpc' \in {"none", "start"})
  <2>1. CASE StartSvr(a)
    BY <2>1, Zenon DEF StartSvr, IInv, SettledInv, EmptyInv
  <2> QED
    BY <2>1 DEF StopSvr, StopSignal, StopJoin, StopSkipSlot
<1>4. client_h # None => lpc \in {"relock", "sleep"}
  BY DEF IInv, SafeInv, StartInv
<1>5. \A t \in Tmp : At(t)' = At(t) /\ Conn(t)' = Conn(t)
  BY <1>1 DEF At, Conn
<1>6. /\ lpc' \in Adding <=> lpc \in Adding
      /\ lpc' = "add" => lpc = "add"
      /\ client_h # None => lpc' \in {"relock", "sleep"}
  BY <1>3, <1>4 DEF Adding
<1> QED
  BY <1>1, <1>2, <1>5, <1>6, SameAll

\* The connection is closed under its thread, which the slot still knows.
LEMMA StopDelSlotSafe ==
  ASSUME IInv, NEW a \in Admins, StopDelSlot(a)
  PROVE  SafeInv'
<1>t. Types
  BY SafeTypes DEF IInv
<1> USE <1>t DEF Types, slots, lsn, tmp, adm, AdmGoto
<1>1. /\ pc[a] = "slots" /\ lpc = "none" /\ del_i \in Slots /\ client_h = None
      /\ m_socket_wait' = [m_socket_wait EXCEPT ![del_i] = None]
      /\ \A i \in Slots : m_socket_wait[i] # None => m_thread_wait'[i] = m_thread_wait[i]
      /\ pc' = [pc EXCEPT ![a] = "jointmp"]
      /\ UNCHANGED <<lpc, client_s, add_i, client_h, tpc, index, s_client, del_i,
                     socket_wait_index_new, m_flg_running>>
  <2>1. /\ pc[a] = "slots" /\ lpc = "none" /\ del_i \in Slots
    BY Bounds DEF StopDelSlot, IInv, BaseInv, SettledInv, StopInv, Slots, TypeOK
  <2>2. client_h = None
    BY <2>1 DEF IInv, SafeInv, StartInv
  <2>3. /\ m_socket_wait' = [m_socket_wait EXCEPT ![del_i] = None]
        /\ \A i \in Slots : m_socket_wait[i] # None => m_thread_wait'[i] = m_thread_wait[i]
        /\ pc' = [pc EXCEPT ![a] = "jointmp"]
        /\ UNCHANGED <<lpc, client_s, add_i, client_h, tpc, index, s_client, del_i,
                       socket_wait_index_new, m_flg_running>>
    BY DEF StopDelSlot, CleanHandles
  <2> QED
    BY <2>1, <2>2, <2>3
<1>2. \A b \in Admins : pc[b] # "jointmp"
  BY <1>1, Others DEF IInv
<1>3. \A t \in Tmp : tpc[t] \in Serving => Conn(t) # None /\ m_socket_wait[At(t)] = Conn(t)
  BY <1>2 DEF IInv, SafeInv, SockInv
<1>4. ASSUME NEW t \in Tmp
      PROVE  /\ At(t)' = At(t) /\ Conn(t)' \in {Conn(t), None}
             /\ (tpc[t] = "start" /\ At(t) = del_i) \/ Conn(t)' = Conn(t)
  BY <1>1 DEF At, Conn
<1>5. NewInv' /\ StartInv' /\ AddInv' /\ EndedInv'
  BY <1>1 DEF NewInv, StartInv, AddInv, EndedInv, Adding, IInv, SafeInv
<1>6. HolderInv'
  <2>1. ASSUME NEW t \in Tmp,
               \/ tpc[t] \in Serving
               \/ tpc[t] = "close" /\ Conn(t)' # None /\ m_socket_wait'[At(t)] = Conn(t)'
        PROVE  m_thread_wait'[At(t)] = t
    <3>1. At(t) \in Slots
      BY <2>1 DEF Serving
    <3>2. Conn(t) # None /\ m_socket_wait[At(t)] = Conn(t)
      BY <1>1, <1>3, <1>4, <2>1, <3>1
    <3>3. m_thread_wait[At(t)] = t
      BY <1>1, <2>1, <3>2 DEF IInv, SafeInv, HolderInv, Holds
    <3> QED
      BY <1>1, <3>1, <3>2, <3>3
  <2> QED
    BY <1>1, <1>4, <2>1 DEF HolderInv, Holds
<1>7. SockInv'
  <2>1. ASSUME NEW t \in Tmp, tpc[t] \in Serving, At(t) # del_i
        PROVE  Conn(t)' # None /\ m_socket_wait'[At(t)] = Conn(t)'
    BY <1>1, <1>3, <1>4, <2>1 DEF Serving
  <2>2. pc'[a] = "jointmp"
    BY <1>1
  <2> QED
    BY <1>1, <1>4, <2>1, <2>2 DEF SockInv
<1>8. SlotInv'
  <2>1. ASSUME NEW i \in Slots, m_socket_wait'[i] # None
        PROVE  m_thread_wait'[i] # None /\ Serves(m_thread_wait[i], i) /\ i # del_i
               /\ m_thread_wait'[i] = m_thread_wait[i] /\ m_socket_wait'[i] = m_socket_wait[i]
               /\ m_thread_wait[i] \in Tmp
    BY <1>1, <2>1 DEF SlotInv, Adding, IInv, SafeInv
  <2>2. ASSUME NEW i \in Slots, m_socket_wait'[i] # None
        PROVE  m_thread_wait'[i] # None /\ Serves(m_thread_wait[i], i)'
    <3>1. PICK u \in Tmp :
            /\ u # None /\ m_thread_wait'[i] = u /\ tpc[u] # "none" /\ At(u) = i
            /\ Conn(u) = m_socket_wait[i] /\ i # del_i /\ m_socket_wait'[i] = m_socket_wait[i]
      BY <2>1, <2>2 DEF Serves
    <3>2. tpc'[u] # "none" /\ At(u)' = i /\ Conn(u)' = m_socket_wait'[i]
      BY <1>1, <1>4, <3>1
    <3> QED
      BY <3>1, <3>2 DEF Serves
  <2> QED
    BY <2>2 DEF SlotInv
<1>9. DistinctInv'
  BY <1>1, <1>4 DEF DistinctInv, IInv, SafeInv
<1> QED
  BY <1>5, <1>6, <1>7, <1>8, <1>9 DEF SafeInv

\* The thread of the slot has ended.
LEMMA StopJoinTmpSafe ==
  ASSUME IInv, NEW a \in Admins, StopJoinTmp(a)
  PROVE  SafeInv'
<1>t. Types
  BY SafeTypes DEF IInv
<1> USE <1>t DEF Types, slots, lsn, tmp, adm, AdmGoto
<1>1. /\ pc[a] = "jointmp" /\ lpc = "none" /\ del_i \in Slots /\ m_socket_wait[del_i] = None
      /\ m_thread_wait[del_i] # None => tpc[m_thread_wait[del_i]] = "none"
      /\ m_thread_wait' = [m_thread_wait EXCEPT ![del_i] = None]
      /\ UNCHANGED <<m_socket_wait, socket_wait_index_new, lpc, client_s, add_i, client_h,
                     tpc, index, s_client, m_flg_running>>
  BY DEF StopJoinTmp, IInv, BaseInv, SettledInv, StopInv
<1>2. \A t \in Tmp : At(t)' = At(t) /\ Conn(t)' = Conn(t)
  BY <1>1 DEF At, Conn
<1>3. ASSUME NEW t \in Tmp, Holds(t), tpc[t] # "none" PROVE At(t) # del_i /\ Holds(t)'
  BY <1>1, <1>2, <1>3 DEF Holds
<1>4. NewInv' /\ StartInv' /\ AddInv' /\ EndedInv' /\ DistinctInv'
  BY <1>1, <1>2
     DEF NewInv, StartInv, AddInv, EndedInv, DistinctInv, Adding, IInv, SafeInv
<1>5. HolderInv'
  <2>1. ASSUME NEW t \in Tmp,
               \/ tpc[t] \in Serving
               \/ tpc[t] = "close" /\ Conn(t) # None /\ m_socket_wait[At(t)] = Conn(t)
        PROVE  Holds(t)'
    <3>1. Holds(t) /\ tpc[t] # "none"
      BY <2>1 DEF HolderInv, Serving, IInv, SafeInv
    <3> QED
      BY <1>3, <3>1
  <2> QED
    BY <1>1, <1>2, <2>1 DEF HolderInv
<1>6. SockInv'
  <2>1. ASSUME NEW t \in Tmp, tpc[t] \in Serving PROVE At(t) # del_i
    BY <1>3, <2>1 DEF HolderInv, Serving, IInv, SafeInv
  <2>2. \A b \in Admins : pc[b] = "jointmp" => b = a
    BY <1>1, Others DEF IInv
  <2>3. ASSUME NEW t \in Tmp, tpc[t] \in Serving
        PROVE  Conn(t) # None /\ m_socket_wait[At(t)] = Conn(t)
    BY <2>1, <2>3 DEF SockInv, IInv, SafeInv
  <2> QED
    BY <1>1, <1>2, <2>3 DEF SockInv
<1>7. SlotInv'
  BY <1>1, <1>2 DEF SlotInv, Serves, Adding, IInv, SafeInv
<1> QED
  BY <1>4, <1>5, <1>6, <1>7 DEF SafeInv

\* All slots are empty, so no thread works.
LEMMA StopDoneSafe ==
  ASSUME IInv, NEW a \in Admins, StopDone(a)
  PROVE  SafeInv'
<1>t. Types
  BY SafeTypes DEF IInv
<1> USE <1>t DEF Types, slots, lsn, tmp, adm, AdmGoto
<1>1. /\ UNCHANGED <<m_socket_wait, m_thread_wait, socket_wait_index_new, lpc, client_s, add_i,
                     client_h, tpc, index, s_client>>
  BY DEF StopDone
<1>2. \A b \in Admins : pc[b] # "jointmp"
  BY Others DEF StopDone, IInv
<1>3. \A t \in Tmp : At(t)' = At(t) /\ Conn(t)' = Conn(t)
  BY <1>1 DEF At, Conn
<1>4. client_h # None => lpc \in {"relock", "sleep"}
  BY DEF IInv, SafeInv, StartInv
<1>5. NewInv' /\ StartInv' /\ HolderInv' /\ SlotInv' /\ DistinctInv' /\ AddInv'
  BY <1>1, <1>3, <1>4, SameSlots
<1>6. SockInv'
  BY <1>1, <1>2, <1>3 DEF SockInv, IInv, SafeInv
<1>7. EndedInv'
  <2>1. \A i \in Slots : m_socket_wait[i] = None
    <3>1. ~m_flg_running'
      BY DEF StopDone
    <3>2. SettledInv'
      BY AdmSettled DEF IInv, AdmStep
    <3> QED
      BY <1>1, <3>1, <3>2, Zenon DEF SettledInv, EmptyInv
  <2>2. ASSUME NEW t \in Tmp PROVE tpc[t] \notin Serving
    BY <1>2, <2>1, <2>2 DEF SockInv, Serving, IInv, SafeInv
  <2> QED
    BY <1>1, <2>2 DEF EndedInv, Serving
<1> QED
  BY <1>5, <1>6, <1>7 DEF SafeInv

\* startSvr and stopSvr keep the invariant.
LEMMA AdmSafe ==
  ASSUME IInv, NEW a \in Admins, StartSvr(a) \/ StopSvr(a) \/ AdmStep(a)
  PROVE  SafeInv'
  BY AdmMoveSafe, StopDelSlotSafe, StopJoinTmpSafe, StopDoneSafe DEF AdmStep
-----------------------------------------------------------------------------
(***************************************************************************)
(* Theorems.                                                               *)
(***************************************************************************)

\* A step that changes nothing keeps the invariant.
LEMMA StutterBase == BaseInv /\ UNCHANGED vars => BaseInv'
  BY DEF BaseInv, TypeOK, vars, slots, lsn, tmp, adm, socks

\* The device's loss of its connection is none of the server's business.
LEMMA StutterSafe ==
  ASSUME UNCHANGED <<m_mutex_listdev, m_flg_running, m_lock_sock, m_sock,
                     flg_event_exit, slots, lsn, tmp, adm>>
  PROVE  /\ (SettledInv => SettledInv') /\ (SafeInv => SafeInv')
         /\ overtaken' = overtaken
<1> USE DEF slots, lsn, tmp, adm
<1>1. SettledInv => SettledInv'
  BY DEF SettledInv, StopInv, ListenInv, EmptyInv
<1>2. SafeInv => NewInv' /\ StartInv' /\ AddInv' /\ EndedInv'
  BY DEF SafeInv, NewInv, StartInv, AddInv, EndedInv, Serves, At, Conn
<1>3. SafeInv => HolderInv' /\ SockInv' /\ SlotInv' /\ DistinctInv'
  BY DEF SafeInv, HolderInv, SockInv, SlotInv, DistinctInv, Holds, Serves, At, Conn
<1> QED
  BY <1>1, <1>2, <1>3 DEF SafeInv

\* Every step keeps the types.
LEMMA NextBase == BaseInv /\ [Next]_vars => BaseInv'
<1> SUFFICES ASSUME BaseInv, [Next]_vars PROVE BaseInv'
  OBVIOUS
<1>1. CASE LnAccept \/ LnFail \/ LnStep
  BY <1>1, LnBase
<1>2. ASSUME NEW t \in Tmp, TmpStep(t) PROVE BaseInv'
  BY <1>2, TmpBase
<1>3. CASE DevDrop \/ \E a \in Admins : StartSvr(a) \/ StopSvr(a) \/ AdmStep(a)
  BY <1>3, AdmBase
<1>4. CASE UNCHANGED vars
  BY <1>4, StutterBase
<1> QED
  BY <1>1, <1>2, <1>3, <1>4 DEF Next

\* So the types are right in every reachable state.
LEMMA BaseInvariance == Spec => []BaseInv
<1>1. Init => BaseInv
  BY InitBase
<1>2. BaseInv /\ [Next]_vars => BaseInv'
  BY NextBase
<1> QED
  BY <1>1, <1>2, PTL DEF Spec

\* The variables keep their types, whatever handle values the system gives
\* out.
THEOREM TypeCorrect == Spec => []TypeOK
<1>1. BaseInv => TypeOK
  BY DEF BaseInv
<1> QED
  BY <1>1, BaseInvariance, PTL

\* Every step keeps what stopSvr leaves behind.
LEMMA NextSettled == BaseInv /\ SettledInv /\ [Next]_vars => SettledInv'
<1> SUFFICES ASSUME BaseInv, SettledInv, [Next]_vars PROVE SettledInv'
  OBVIOUS
<1>1. CASE LnAccept \/ LnFail \/ LnStep
  BY <1>1, LnSettled
<1>2. ASSUME NEW t \in Tmp, TmpStep(t) PROVE SettledInv'
  BY <1>2, TmpSettled
<1>3. ASSUME NEW a \in Admins, StartSvr(a) \/ StopSvr(a) \/ AdmStep(a) PROVE SettledInv'
  BY <1>3, AdmSettled
<1>4. CASE DevDrop \/ UNCHANGED vars
  BY <1>4, StutterSafe DEF DevDrop, vars
<1> QED
  BY <1>1, <1>2, <1>3, <1>4 DEF Next

\* So it is there in every reachable state.
LEMMA SettledInvariance == Spec => [](BaseInv /\ SettledInv)
<1>1. Init => BaseInv /\ SettledInv
  BY InitBase, InitSafe
<1>2. BaseInv /\ SettledInv /\ [Next]_vars => BaseInv' /\ SettledInv'
  BY NextBase, NextSettled
<1> QED
  BY <1>1, <1>2, PTL DEF Spec

\* A stopped server has no listening thread, no listening socket and no
\* connection in a slot: whatever handle values the system gives out, and
\* whichever threads were overtaken.
THEOREM StoppedHoldsNothing == Spec => []EmptyInv
<1>1. SettledInv => EmptyInv
  BY DEF SettledInv
<1> QED
  BY <1>1, SettledInvariance, PTL

\* A thread that was overtaken stays on record.
LEMMA OvertakenStays == [Next]_vars /\ overtaken => overtaken'
<1> SUFFICES ASSUME [Next]_vars, overtaken PROVE overtaken'
  OBVIOUS
<1> USE DEF slots
<1>1. CASE LnAccept \/ LnFail \/ LnStep
  BY <1>1 DEF LnAccept, LnFail, LnEnd, LnStep, LnStart, LnExit, LnAddSlot, LnFull, LnCreate,
              LnCreateFails, LnRelock, LnCheckThread, LnNoThread, LnRefuse
<1>2. ASSUME NEW t \in Tmp, TmpStep(t) PROVE overtaken'
  BY <1>2 DEF TmpStep, TmpStart, TmpLoop, TmpIdle, TmpError, TmpRegister, TmpLogin,
              TmpLoginRefused, TmpRemove, TmpExit, TmpClose
<1>3. ASSUME NEW a \in Admins, StartSvr(a) \/ StopSvr(a) \/ AdmStep(a) PROVE overtaken'
  BY <1>3 DEF StartSvr, StopSvr, AdmStep, StopSignal, StopJoin, StopDelSlot, StopSkipSlot,
              StopJoinTmp, StopDone
<1>4. CASE DevDrop \/ UNCHANGED vars
  BY <1>4 DEF DevDrop, vars
<1> QED
  BY <1>1, <1>2, <1>3, <1>4 DEF Next

\* Every step keeps the invariant until a thread is overtaken, as long as the
\* system does not give out handle values that somebody still remembers.
LEMMA NextSafe ==
  ASSUME ~HandleReuse
  PROVE  BaseInv /\ SettledInv /\ (overtaken \/ SafeInv) /\ [Next]_vars
           => overtaken' \/ SafeInv'
<1> SUFFICES ASSUME BaseInv, SettledInv, overtaken \/ SafeInv, [Next]_vars, ~overtaken'
             PROVE  SafeInv'
  OBVIOUS
<1>0. IInv
  BY OvertakenStays DEF IInv
<1>1. CASE LnAccept \/ LnFail \/ LnStep
  BY <1>0, <1>1, LnSafe
<1>2. ASSUME NEW t \in Tmp, TmpStep(t) PROVE SafeInv'
  BY <1>0, <1>2, TmpSafe
<1>3. ASSUME NEW a \in Admins, StartSvr(a) \/ StopSvr(a) \/ AdmStep(a) PROVE SafeInv'
  BY <1>0, <1>3, AdmSafe
<1>4. CASE DevDrop \/ UNCHANGED vars
  BY <1>0, <1>4, StutterSafe DEF IInv, DevDrop, vars
<1> QED
  BY <1>1, <1>2, <1>3, <1>4 DEF Next

\* The slots, their threads and their connections fit together in every
\* reachable state that no overtaken thread precedes.
THEOREM Invariance ==
  ASSUME ~HandleReuse
  PROVE  Spec => [](overtaken \/ IInv)
<1>1. Init => SafeInv
  BY InitSafe
<1>2. BaseInv /\ SettledInv /\ (overtaken \/ SafeInv) /\ [Next]_vars
        => overtaken' \/ SafeInv'
  BY NextSafe
<1>3. BaseInv /\ SettledInv /\ SafeInv => IInv
  BY DEF IInv
<1> QED
  BY <1>1, <1>2, <1>3, SettledInvariance, PTL DEF Spec

\* A connection never sits in a slot nobody works on, unless the next slot
\* number came before a thread had read its own.
THEOREM Served ==
  ASSUME ~HandleReuse
  PROVE  Spec => []SlotServedInTime
<1>1. overtaken \/ IInv => SlotServedInTime
  <2> SUFFICES ASSUME IInv, NEW i \in Slots, m_socket_wait[i] # None,
                      ~(lpc \in Adding /\ add_i = i)
               PROVE  \/ \E t \in Tmp : Alive(t) /\ index[t] = i
                      \/ m_thread_wait[i] # None /\ tpc[m_thread_wait[i]] = "start"
    BY DEF SlotServedInTime, SlotServed, Adding
  <2>1. m_thread_wait[i] # None /\ Serves(m_thread_wait[i], i)
    BY DEF IInv, SafeInv, SlotInv
  <2>2. m_thread_wait[i] \in Tmp
    BY <2>1 DEF IInv, BaseInv, TypeOK
  <2> QED
    BY <2>1, <2>2 DEF Serves, Alive, At
<1> QED
  BY <1>1, Invariance, PTL

\* Two temporary threads never wait on the same slot, unless one was
\* overtaken.
THEOREM OneThread ==
  ASSUME ~HandleReuse
  PROVE  Spec => []OneThreadPerSlot
<1>1. overtaken \/ IInv => OneThreadPerSlot
  <2> SUFFICES ASSUME IInv, NEW t \in Tmp, NEW u \in Tmp,
                      tpc[t] \in {"loop", "select", "login"},
                      tpc[u] \in {"loop", "select", "login"}, index[t] = index[u]
               PROVE  t = u
    BY DEF OneThreadPerSlot
  <2>1. Holds(t) /\ Holds(u)
    BY DEF IInv, SafeInv, HolderInv, Serving
  <2>2. At(t) = At(u)
    BY DEF At
  <2> QED
    BY <2>1, <2>2, OneHolder
<1> QED
  BY <1>1, Invariance, PTL

\* When the server is stopped nothing of it is left that takes connections,
\* and, unless a thread was overtaken, nothing that could still register a
\* device.
THEOREM Quiet ==
  ASSUME ~HandleReuse
  PROVE  Spec => []StoppedIsQuiet
<1>1. EmptyInv /\ (overtaken \/ IInv) => StoppedIsQuiet
  <2>1. EmptyInv /\ IInv => StoppedIsQuiet
    BY Zenon DEF IInv, SafeInv, EndedInv, EmptyInv, StoppedIsQuiet
  <2>2. EmptyInv /\ overtaken => StoppedIsQuiet
    BY Zenon DEF EmptyInv, StoppedIsQuiet
  <2> QED
    BY <2>1, <2>2
<1> QED
  BY <1>1, Invariance, StoppedHoldsNothing, PTL

-----------------------------------------------------------------------------
(***************************************************************************)
(* Who waits for whom: what the liveness properties rest on.  stopSvr      *)
(* waits for the listening thread, which waits for nobody but a thread it  *)
(* has just started, and then for one temporary thread after another.      *)
(* Those wait for m_lock_sock, which nobody has by then, and in DevLogin   *)
(* for the list mutex, which stopSvr holds.                                *)
(***************************************************************************)
\* m_lock_sock is held from one step to the next only during the sleep; the
\* listening thread that stopSvr waits for has an exit event to find.
LockInv ==
  /\ m_lock_sock <=> lpc = "sleep"
  /\ m_flg_running => lpc # "none" \/ \E a \in Admins : pc[a] \in {"slots", "jointmp"}
  /\ \A a \in Admins :
       /\ pc[a] \in {"signal", "join"} => m_flg_running
       /\ pc[a] = "join" => lpc = "exited" \/ flg_event_exit

\* The handle in a slot is that of the thread that works on it, or of one
\* that has ended.
HandleInv ==
  /\ \A i \in Slots : LET t == m_thread_wait[i] IN
       t # None /\ tpc[t] # "none" => At(t) = i
  /\ client_h # None /\ tpc[client_h] # "none" => At(client_h) = add_i

\* The connection DelTmpSocket has closed can not register any more.
ClosedInv ==
  \A a \in Admins, t \in Tmp :
    pc[a] = "jointmp" /\ tpc[t] \in Serving /\ At(t) = del_i =>
      \/ tpc[t] \in {"start", "loop"} /\ Conn(t) = None
      \/ Conn(t) \in Sock /\ owner[Conn(t)] # "listen"

\* The only threads that wait for each other are stopSvr and a temporary
\* thread in DevLogin.
OneCircle ==
  \A a \in Admins :
    /\ pc[a] = "signal" => ~m_lock_sock \/ lpc = "sleep"
    /\ pc[a] = "join" => lpc # "none" /\ (lpc = "exited" \/ flg_event_exit)
    /\ pc[a] = "slots" => ~m_lock_sock
    /\ pc[a] = "jointmp" =>
         /\ ~m_lock_sock
         /\ \A t \in Tmp : m_thread_wait[del_i] = t =>
              tpc[t] \in {"none", "start", "loop", "select", "remove", "close"} \/ Circle(a, t)

\* How many of its steps the listening thread has before it at most, once the
\* exit event was raised.
LnLeft ==
  CASE lpc = "add" -> 6
    [] lpc = "create" -> 5
    [] lpc = "relock" -> 4
    [] lpc = "sleep" -> 3
    [] lpc \in {"start", "refuse"} -> 2
    [] lpc = "accept" -> 1
    [] OTHER -> 0

\* And a temporary thread whose connection was closed under it, if it is not
\* about to hand that connection over.
TmpLeft(t) ==
  CASE tpc[t] \in {"start", "select"} -> 3
    [] tpc[t] \in {"loop", "remove"} -> 2
    [] tpc[t] = "close" -> 1
    [] OTHER -> 0

\* Every step of the thread that stopSvr waits for brings it nearer to its
\* end, whatever the clients do.
LnNearer ==
  (\E a \in Admins : pc[a] = "join") /\ (LnStep \/ LnAccept \/ LnFail) => LnLeft' < LnLeft

TmpNearer ==
  ~overtaken => \A a \in Admins, t \in Tmp :
    pc[a] = "jointmp" /\ m_thread_wait[del_i] = t /\ TmpStep(t) => TmpLeft(t)' < TmpLeft(t)

\* Nothing ends the circle once it has closed.
CircleStays == \A a \in Admins, t \in Tmp : Circle(a, t) => Circle(a, t)'

\* Both facts about the listening thread hold whatever handle values the
\* system gives out.
LEMMA LockNext ==
  ASSUME BaseInv, LockInv, [Next]_vars
  PROVE  LockInv'
<1> USE Bounds DEF LnEnd
<1>1. CASE LnAccept \/ LnFail \/ LnStep
  <2>1. /\ UNCHANGED <<m_flg_running, pc>> /\ lpc # "none" /\ lpc' # "none"
        /\ flg_event_exit' = flg_event_exit \/ lpc' = "exited"
        /\ lpc = "exited" => lpc' = "exited"
    BY <1>1 DEF LnAccept, LnFail, LnStep, LnStart, LnExit, LnAddSlot, LnFull, LnCreate,
                LnCreateFails, LnRelock, LnCheckThread, LnNoThread, LnRefuse, adm
  <2>2. m_lock_sock' <=> lpc' = "sleep"
    BY <1>1 DEF LockInv, LnAccept, LnFail, LnStep, LnStart, LnExit, LnAddSlot, LnFull,
                LnCreate, LnCreateFails, LnRelock, LnCheckThread, LnNoThread, LnRefuse
  <2> QED
    BY <2>1, <2>2 DEF LockInv
<1>2. ASSUME NEW t \in Tmp, TmpStep(t) PROVE LockInv'
  <2>1. UNCHANGED <<m_lock_sock, lpc, m_flg_running, pc, flg_event_exit>>
    BY <1>2 DEF TmpStep, TmpStart, TmpLoop, TmpIdle, TmpError, TmpRegister, TmpLogin,
                TmpLoginRefused, TmpRemove, TmpExit, TmpClose, lsn, adm
  <2> QED
    BY <2>1 DEF LockInv
<1>3. CASE DevDrop \/ UNCHANGED vars
  BY <1>3 DEF LockInv, DevDrop, vars, lsn, adm
<1>4. ASSUME NEW a \in Admins, StartSvr(a) \/ StopSvr(a) PROVE LockInv'
  <2>1. \A b \in Admins : pc[b] = "idle"
    BY <1>4 DEF BaseInv, StartSvr, StopSvr
  <2> QED
    BY <1>4, <2>1 DEF LockInv, BaseInv, TypeOK, StartSvr, StopSvr, AdmGoto, lsn, adm
<1>5. ASSUME NEW a \in Admins, AdmStep(a) PROVE LockInv'
  <2>1. \A b \in Admins \ {a} : pc[b] = "idle"
    BY <1>5, Others DEF AdmStep, StopSignal, StopJoin, StopDelSlot, StopSkipSlot,
                        StopJoinTmp, StopDone
  <2>2. pc \in [Admins -> {"idle", "signal", "join", "slots", "jointmp", "done"}]
    BY DEF BaseInv, TypeOK
  <2>3. CASE StopSignal(a)
    BY <2>1, <2>2, <2>3 DEF LockInv, StopSignal, SignalStop, AdmGoto, lsn
  <2>4. CASE StopJoin(a)
    BY <2>1, <2>2, <2>4 DEF LockInv, StopJoin, AdmGoto
  <2>5. CASE StopDelSlot(a)
    BY <2>1, <2>2, <2>5 DEF LockInv, StopDelSlot, AdmGoto, lsn
  <2>6. CASE StopSkipSlot(a) \/ StopJoinTmp(a)
    BY <2>1, <2>2, <2>6 DEF LockInv, StopSkipSlot, StopJoinTmp, AdmGoto, lsn
  <2>7. CASE StopDone(a)
    BY <2>1, <2>2, <2>7 DEF LockInv, StopDone, AdmGoto, lsn
  <2> QED
    BY <1>5, <2>3, <2>4, <2>5, <2>6, <2>7 DEF AdmStep
<1> QED
  BY <1>1, <1>2, <1>3, <1>4, <1>5 DEF Next

\* So they hold in every reachable state.
LEMMA LockInvariance == Spec => [](BaseInv /\ LockInv)
<1>1. Init => LockInv
  BY DEF Init, LockInv
<1>2. BaseInv /\ LockInv /\ [Next]_vars => LockInv'
  BY LockNext
<1> QED
  BY <1>1, <1>2, BaseInvariance, PTL DEF Spec

\* A handle gets into a slot when its thread has the number of the slot, or
\* is going to read it.
LEMMA HandleNext ==
  ASSUME IInv, HandleInv, [Next]_vars, ~overtaken'
  PROVE  HandleInv'
<1>t. Types
  BY SafeTypes DEF IInv
<1> USE <1>t DEF Types, LnEnd
<1>1. client_h # None => lpc \in {"relock", "sleep"}
  BY DEF IInv, SafeInv, StartInv
<1>2. ASSUME UNCHANGED <<m_thread_wait, client_h, add_i, tpc, index, socket_wait_index_new>>
      PROVE  HandleInv'
  BY <1>2 DEF HandleInv, At
<1>3. CASE LnAccept \/ LnFail \/ LnStart \/ LnExit \/ LnFull \/ LnRelock \/ LnRefuse
             \/ DevDrop \/ UNCHANGED vars
  BY <1>2, <1>3 DEF LnAccept, LnFail, LnStart, LnExit, LnFull, LnRelock, LnRefuse, DevDrop,
                    vars, slots, lsn, tmp
<1>4. CASE LnNoThread \/ LnCreateFails
  BY <1>4 DEF HandleInv, At, LnNoThread, LnCreateFails, slots, tmp
<1>5. CASE LnAddSlot
  <2>1. /\ client_h = None /\ client_h' = client_h /\ UNCHANGED <<tpc, index>>
        /\ \A i \in Slots : m_thread_wait'[i] \in {m_thread_wait[i], None}
        /\ \A t \in Tmp : tpc[t] # "start"
    BY <1>1, <1>5 DEF LnAddSlot, tmp
  <2> QED
    BY <2>1 DEF HandleInv, At
<1>6. CASE LnCreate
  <2>1. socket_wait_index_new = add_i
    BY <1>6 DEF IInv, SafeInv, NewInv, Adding, LnCreate
  <2>2. PICK t \in Tmp : /\ tpc[t] = "none" /\ \A i \in Slots : m_thread_wait[i] # t
                         /\ client_h' = t /\ tpc' = [tpc EXCEPT ![t] = "start"]
    BY <1>6 DEF LnCreate
  <2>3. UNCHANGED <<m_thread_wait, index, socket_wait_index_new, add_i>>
    BY <1>6 DEF LnCreate, slots
  <2> QED
    BY <2>1, <2>2, <2>3 DEF HandleInv, At
<1>7. CASE LnCheckThread
  <2>1. add_i \in Slots
    BY <1>7 DEF IInv, SafeInv, NewInv, Adding, LnCheckThread
  <2> QED
    BY <1>7, <2>1 DEF HandleInv, At, LnCheckThread, tmp
<1>8. ASSUME NEW t \in Tmp, TmpStep(t) PROVE HandleInv'
  <2>1. /\ UNCHANGED <<m_thread_wait, client_h, add_i, socket_wait_index_new>>
        /\ \A u \in Tmp \ {t} : UNCHANGED <<tpc[u], index[u]>>
        /\ tpc[t] # "none"
    BY <1>8 DEF TmpStep, TmpStart, TmpLoop, TmpIdle, TmpError, TmpRegister, TmpLogin,
                TmpLoginRefused, TmpRemove, TmpExit, TmpClose, TmpReturn, Goto, slots, lsn
  <2>2. tpc'[t] = "none" \/ At(t)' = At(t)
    <3>1. CASE TmpStart(t)
      BY <3>1 DEF TmpStart, Goto, At
    <3>2. CASE TmpExit(t) \/ TmpClose(t)
      BY <3>2 DEF TmpExit, TmpClose, TmpReturn, Goto
    <3>3. CASE TmpLoop(t) \/ TmpIdle(t) \/ TmpError(t) \/ TmpRegister(t) \/ TmpLogin(t)
               \/ TmpLoginRefused(t) \/ TmpRemove(t)
      BY <3>3 DEF TmpLoop, TmpIdle, TmpError, TmpRegister, TmpLogin, TmpLoginRefused,
                  TmpRemove, AfterRefusal, Goto, At
    <3> QED
      BY <1>8, <3>1, <3>2, <3>3 DEF TmpStep
  <2>3. ASSUME NEW u \in Tmp PROVE tpc'[u] = "none" \/ (At(u)' = At(u) /\ tpc[u] # "none")
    <3>1. CASE u = t
      BY <2>1, <2>2, <3>1
    <3>2. CASE u # t
      <4>1. tpc'[u] = tpc[u] /\ At(u)' = At(u)
        BY <2>1, <3>2 DEF At
      <4> QED
        BY <4>1
    <3> QED
      BY <3>1, <3>2
  <2> QED
    BY <2>1, <2>3 DEF HandleInv
<1>9. ASSUME NEW a \in Admins, StartSvr(a) \/ StopSvr(a) \/ AdmStep(a) PROVE HandleInv'
  <2>1. /\ UNCHANGED <<client_h, add_i, tpc, index, socket_wait_index_new>>
        /\ \A i \in Slots : m_thread_wait'[i] \in {m_thread_wait[i], None}
    BY <1>9 DEF StartSvr, StopSvr, AdmStep, StopSignal, StopJoin, StopDelSlot, StopSkipSlot,
                StopJoinTmp, StopDone, CleanHandles, slots, lsn, tmp
  <2> QED
    BY <2>1 DEF HandleInv, At
<1> QED
  BY <1>3, <1>4, <1>5, <1>6, <1>7, <1>8, <1>9 DEF Next, LnStep

\* DelTmpSocket frees the handle value of the connection whose thread it then
\* waits for; while it waits nobody accepts a connection.
LEMMA ClosedNext ==
  ASSUME IInv, ClosedInv, [Next]_vars
  PROVE  ClosedInv'
<1>t. Types /\ owner \in [Sock -> {"free", "listen", "dev"}]
  BY SafeTypes DEF IInv, BaseInv, TypeOK
<1> USE <1>t DEF Types
<1>1. ASSUME NEW a \in Admins, pc[a] = "jointmp"
      PROVE  /\ m_mutex_listdev = a /\ lpc = "none" /\ m_socket_wait[del_i] = None
             /\ del_i \in Slots /\ \A b \in Admins \ {a} : pc[b] = "idle"
  BY <1>1, Others DEF IInv, BaseInv, SettledInv, StopInv
<1>2. CASE LnAccept \/ LnFail \/ LnStep
  <2>1. lpc # "none" /\ pc' = pc
    BY <1>2 DEF LnAccept, LnFail, LnEnd, LnStep, LnStart, LnExit, LnAddSlot, LnFull,
                LnCreate, LnCreateFails, LnRelock, LnCheckThread, LnNoThread, LnRefuse, adm
  <2> QED
    BY <1>1, <2>1 DEF ClosedInv
<1>3. ASSUME NEW t \in Tmp, TmpStep(t) PROVE ClosedInv'
  <2> SUFFICES ASSUME NEW a \in Admins, pc[a] = "jointmp", NEW u \in Tmp,
                      pc' = pc, del_i' = del_i, socket_wait_index_new' = socket_wait_index_new,
                      tpc'[u] \in Serving, At(u)' = del_i
               PROVE  \/ tpc'[u] \in {"start", "loop"} /\ Conn(u)' = None
                      \/ Conn(u)' \in Sock /\ owner'[Conn(u)'] # "listen"
    <3>1. UNCHANGED <<pc, del_i, socket_wait_index_new>>
      BY <1>3 DEF TmpStep, TmpStart, TmpLoop, TmpIdle, TmpError, TmpRegister, TmpLogin,
                  TmpLoginRefused, TmpRemove, TmpExit, TmpClose, adm, slots
    <3> QED
      BY <3>1 DEF ClosedInv
  <2>0. /\ m_socket_wait[del_i] = None /\ del_i \in Slots /\ m_mutex_listdev # None
        /\ \A i \in Slots : m_socket_wait'[i] \in {m_socket_wait[i], None}
    <3>1. \A i \in Slots : m_socket_wait'[i] \in {m_socket_wait[i], None}
      BY <1>3 DEF TmpStep, TmpStart, TmpLoop, TmpIdle, TmpError, TmpRegister, TmpLogin,
                  TmpLoginRefused, TmpRemove, TmpExit, TmpClose, slots
    <3> QED
      BY <1>1, <3>1
  <2>1. ~TmpLogin(t) /\ ~TmpLoginRefused(t)
    BY <2>0 DEF TmpLogin, TmpLoginRefused
  <2>2. CASE u # t
    <3>1. /\ UNCHANGED <<tpc[u], index[u], s_client[u]>>
          /\ \A s \in Sock : owner'[s] = owner[s] \/ owner'[s] = "free"
      BY <1>3, <2>1, <2>2 DEF TmpStep, TmpStart, TmpLoop, TmpIdle, TmpError, TmpRegister,
                              TmpRemove, TmpExit, TmpClose, TmpReturn, Goto, socks
    <3>2. At(u) = del_i /\ Conn(u)' \in {Conn(u), None}
          /\ (tpc[u] = "start" \/ Conn(u)' = Conn(u))
      BY <2>0, <3>1 DEF At, Conn
    <3> QED
      BY <3>1, <3>2 DEF ClosedInv
  <2>3. CASE u = t
    <3>1. ~TmpLoop(t) /\ ~TmpError(t) /\ ~TmpRemove(t) /\ ~TmpExit(t) /\ ~TmpClose(t)
      BY <2>0, <2>3 DEF TmpLoop, TmpError, TmpRemove, TmpExit, TmpClose, TmpReturn, Goto,
                        Serving, At
    <3>2. CASE TmpStart(t)
      BY <2>0, <2>3, <3>2 DEF TmpStart, Goto, At, Conn
    <3>3. CASE TmpIdle(t) \/ TmpRegister(t)
      <4>1. /\ tpc[t] = "select" /\ tpc'[t] # "start" /\ UNCHANGED <<index, s_client, owner>>
        BY <2>3, <3>3 DEF TmpIdle, TmpRegister, Goto, socks
      <4>2. At(t) = del_i /\ Conn(t)' = Conn(t)
        BY <2>3, <4>1 DEF At, Conn
      <4> QED
        BY <2>3, <4>1, <4>2 DEF ClosedInv, Serving
    <3> QED
      BY <1>3, <2>1, <3>1, <3>2, <3>3 DEF TmpStep
  <2> QED
    BY <2>2, <2>3
<1>4. CASE DevDrop \/ UNCHANGED vars
  <2>1. /\ UNCHANGED <<pc, del_i, tpc, index, s_client, socket_wait_index_new, m_socket_wait>>
        /\ \A s \in Sock : owner'[s] = owner[s] \/ owner'[s] = "free"
    BY <1>4 DEF DevDrop, vars, tmp, adm, socks, slots
  <2> QED
    BY <2>1 DEF ClosedInv, At, Conn
<1>5. ASSUME NEW b \in Admins, StartSvr(b) \/ StopSvr(b) PROVE ClosedInv'
  <2>1. \A a \in Admins : pc'[a] # "jointmp"
    BY <1>1, <1>5 DEF StartSvr, StopSvr, AdmGoto, adm
  <2> QED
    BY <2>1 DEF ClosedInv
<1>6. ASSUME NEW b \in Admins, StopDelSlot(b) PROVE ClosedInv'
  <2>1. /\ pc[b] = "slots" /\ \A a \in Admins \ {b} : pc[a] = "idle" /\ del_i \in Slots
        /\ UNCHANGED <<tpc, index, s_client, del_i, socket_wait_index_new>>
        /\ m_socket_wait' = [m_socket_wait EXCEPT ![del_i] = None]
        /\ pc' = [pc EXCEPT ![b] = "jointmp"] /\ Close(m_socket_wait[del_i])
    BY <1>6, Others, Bounds DEF StopDelSlot, AdmGoto, IInv, BaseInv, TypeOK, Slots, tmp
  <2>2. ASSUME NEW t \in Tmp, tpc[t] \in Serving, At(t) = del_i
        PROVE  \/ tpc[t] = "start" /\ Conn(t)' = None
               \/ Conn(t)' \in Sock /\ owner'[Conn(t)'] # "listen"
    <3>1. Conn(t) # None /\ m_socket_wait[del_i] = Conn(t)
      BY <2>1, <2>2 DEF IInv, SafeInv, SockInv
    <3>2. CASE tpc[t] = "start"
      BY <2>1, <2>2, <3>2 DEF At, Conn
    <3>3. CASE tpc[t] # "start"
      BY <2>1, <2>2, <3>1, <3>3 DEF Conn, Close
    <3> QED
      BY <3>2, <3>3
  <2>3. \A t \in Tmp : At(t)' = At(t)
    BY <2>1 DEF At
  <2> QED
    BY <2>1, <2>2, <2>3 DEF ClosedInv
<1>7. ASSUME NEW b \in Admins, StopSignal(b) \/ StopJoin(b) \/ StopSkipSlot(b)
                               \/ StopJoinTmp(b) \/ StopDone(b)
      PROVE  ClosedInv'
  <2>1. \A a \in Admins \ {b} : pc[a] = "idle"
    BY <1>7, Others DEF StopSignal, StopJoin, StopSkipSlot, StopJoinTmp, StopDone, IInv
  <2>2. \A a \in Admins : pc'[a] # "jointmp"
    BY <1>7, <2>1 DEF StopSignal, StopJoin, StopSkipSlot, StopJoinTmp, StopDone,
                            AdmGoto
  <2> QED
    BY <2>2 DEF ClosedInv
<1> QED
  BY <1>2, <1>3, <1>4, <1>5, <1>6, <1>7 DEF Next, AdmStep

\* All of it holds in every reachable state no overtaken thread precedes.
LEMMA WaitInvariance ==
  ASSUME ~HandleReuse
  PROVE  Spec => [](overtaken \/ (IInv /\ HandleInv /\ ClosedInv))
<1>1. Init => HandleInv /\ ClosedInv
  BY DEF Init, HandleInv, ClosedInv
<1>2. ~overtaken' /\ [Next]_vars => ~overtaken
  BY OvertakenStays
<1>3. IInv /\ HandleInv /\ ClosedInv /\ [Next]_vars /\ ~overtaken'
        => HandleInv' /\ ClosedInv'
  BY HandleNext, ClosedNext
<1> QED
  BY <1>1, <1>2, <1>3, Invariance, PTL DEF Spec

\* stopSvr and a temporary thread in DevLogin are the only ones that can wait
\* for each other, whatever handle values the system gives out.
THEOREM OneCircleOnly == Spec => []OneCircle
<1>1. BaseInv /\ SettledInv /\ LockInv => OneCircle
  <2> SUFFICES ASSUME BaseInv, SettledInv, LockInv, NEW a \in Admins, pc[a] # "idle"
               PROVE  /\ pc[a] = "signal" => ~m_lock_sock \/ lpc = "sleep"
                      /\ pc[a] = "join" => lpc # "none" /\ (lpc = "exited" \/ flg_event_exit)
                      /\ pc[a] = "slots" => ~m_lock_sock
                      /\ pc[a] = "jointmp" =>
                           /\ ~m_lock_sock
                           /\ \A t \in Tmp : m_thread_wait[del_i] = t =>
                                \/ tpc[t] \in {"none", "start", "loop", "select", "remove",
                                               "close"}
                                \/ Circle(a, t)
    BY DEF OneCircle
  <2>1. m_mutex_listdev = a /\ \A b \in Admins \ {a} : pc[b] = "idle"
    BY Others DEF BaseInv
  <2>2. pc[a] \in {"slots", "jointmp"} => lpc = "none"
    BY DEF SettledInv, StopInv
  <2>3. pc[a] = "join" => lpc # "none"
    BY <2>1 DEF LockInv
  <2>4. ASSUME pc[a] = "jointmp", NEW t \in Tmp, m_thread_wait[del_i] = t
        PROVE  \/ tpc[t] \in {"none", "start", "loop", "select", "remove", "close"}
               \/ Circle(a, t)
    BY <2>1, <2>2, <2>4 DEF Circle, BaseInv, TypeOK
  <2> QED
    BY <2>2, <2>3, <2>4 DEF LockInv
<1> QED
  BY <1>1, SettledInvariance, LockInvariance, PTL

\* The listening thread ends within six steps of its own when stopSvr has
\* told it to, whatever handle values the system gives out: the safety
\* content of StopSvrReturns up to the join.
THEOREM ListenerEnds == Spec => [][LnNearer]_vars
<1>1. LockInv => LnNearer
  <2> SUFFICES ASSUME LockInv, NEW a \in Admins, pc[a] = "join",
                      LnStep \/ LnAccept \/ LnFail
               PROVE  LnLeft' < LnLeft
    BY DEF LnNearer
  <2>1. ~LnAccept
    BY DEF LockInv, LnAccept
  <2>2. CASE LnStart \/ LnExit \/ LnFail
    BY <2>2 DEF LnLeft, LnStart, LnExit, LnFail, LnEnd
  <2>3. CASE LnAddSlot \/ LnFull \/ LnCreate \/ LnCreateFails \/ LnRelock
    BY <2>3 DEF LnLeft, LnAddSlot, LnFull, LnCreate, LnCreateFails, LnRelock
  <2>4. CASE LnCheckThread \/ LnNoThread \/ LnRefuse
    BY <2>4 DEF LnLeft, LnCheckThread, LnNoThread, LnRefuse
  <2> QED
    BY <2>1, <2>2, <2>3, <2>4 DEF LnStep
<1> QED
  BY <1>1, LockInvariance, PTL

\* A temporary thread that is waited for and not in DevLogin can not get
\* there any more, and ends within three steps of its own, unless a thread
\* was overtaken.
THEOREM JoinedTmpEnds ==
  ASSUME ~HandleReuse
  PROVE  Spec => [][TmpNearer]_vars
<1>1. overtaken \/ (IInv /\ HandleInv /\ ClosedInv) => TmpNearer
  <2> SUFFICES ASSUME IInv, HandleInv, ClosedInv, NEW a \in Admins, NEW t \in Tmp,
                      pc[a] = "jointmp", m_thread_wait[del_i] = t, TmpStep(t)
               PROVE  TmpLeft(t)' < TmpLeft(t)
    BY DEF TmpNearer
  <2>t. Types
    BY SafeTypes DEF IInv
  <2> USE <2>t DEF Types
  <2>1. /\ m_mutex_listdev = a /\ del_i \in Slots /\ m_socket_wait[del_i] = None
    BY DEF IInv, BaseInv, SettledInv, StopInv
  <2>2. tpc[t] # "none"
    BY DEF TmpStep, TmpStart, TmpLoop, TmpIdle, TmpError, TmpRegister, TmpLogin,
           TmpLoginRefused, TmpRemove, TmpExit, TmpClose
  <2>3. At(t) = del_i
    BY <2>1, <2>2 DEF HandleInv
  <2>4. ~TmpLogin(t) /\ ~TmpLoginRefused(t)
    BY <2>1 DEF TmpLogin, TmpLoginRefused
  <2>5. ~TmpRegister(t)
    BY <2>3 DEF TmpRegister, ClosedInv, Serving, Conn
  <2>6. CASE TmpStart(t)
    BY <2>6 DEF TmpLeft, TmpStart, Goto
  <2>7. CASE TmpLoop(t)
    BY <2>1, <2>3, <2>7 DEF TmpLeft, TmpLoop, Goto, At
  <2>8. CASE TmpIdle(t) \/ TmpError(t) \/ TmpRemove(t)
    BY <2>8 DEF TmpLeft, TmpIdle, TmpError, TmpRemove, Goto
  <2>9. CASE TmpExit(t) \/ TmpClose(t)
    BY <2>9 DEF TmpLeft, TmpExit, TmpClose, TmpReturn, Goto
  <2> QED
    BY <2>4, <2>5, <2>6, <2>7, <2>8, <2>9 DEF TmpStep
<1> QED
  BY <1>1, WaitInvariance, PTL

\* And the circle is a real deadlock, whatever handle values the system gives
\* out: stopSvr keeps the list mutex and DevLogin waits for it for ever.
THEOREM StuckForGood == Spec => [][CircleStays]_vars
<1>1. BaseInv /\ [Next]_vars => CircleStays
  <2> SUFFICES ASSUME BaseInv, [Next]_vars, NEW a \in Admins, NEW t \in Tmp, Circle(a, t)
               PROVE  Circle(a, t)'
    BY DEF CircleStays
  <2> USE Bounds DEF Circle
  <2>1. /\ \A b \in Admins \ {a} : pc[b] = "idle"
        /\ tpc \in [Tmp -> {"none", "start", "loop", "select", "login", "remove", "close"}]
        /\ None \notin Admins /\ None \notin Tmp
    BY Others DEF BaseInv, TypeOK
  <2>2. ~LnAccept /\ ~LnFail /\ ~LnStep
    BY DEF LnAccept, LnFail, LnEnd, LnStep, LnStart, LnExit, LnAddSlot, LnFull, LnCreate,
           LnCreateFails, LnRelock, LnCheckThread, LnNoThread, LnRefuse
  <2>3. ASSUME NEW u \in Tmp, TmpStep(u) PROVE Circle(a, t)'
    <3>1. u # t
      BY <2>1, <2>3 DEF TmpStep, TmpStart, TmpLoop, TmpIdle, TmpError, TmpRegister,
                        TmpLogin, TmpLoginRefused, TmpRemove, TmpExit, TmpClose
    <3>2. /\ UNCHANGED <<pc, m_mutex_listdev, lpc, m_thread_wait, del_i>>
          /\ tpc'[t] = tpc[t]
      BY <2>1, <2>3, <3>1
         DEF TmpStep, TmpStart, TmpLoop, TmpIdle, TmpError, TmpRegister, TmpLogin,
             TmpLoginRefused, TmpRemove, TmpExit, TmpClose, TmpReturn, Goto, slots, lsn, adm
    <3> QED
      BY <3>2
  <2>4. CASE DevDrop \/ UNCHANGED vars
    BY <2>4 DEF DevDrop, vars, slots, lsn, tmp, adm
  <2>5. ASSUME NEW b \in Admins, StartSvr(b) \/ StopSvr(b) \/ AdmStep(b) PROVE FALSE
    <3>1. b = a
      BY <2>1, <2>5 DEF StartSvr, StopSvr, AdmStep, StopSignal, StopJoin, StopDelSlot,
                        StopSkipSlot, StopJoinTmp, StopDone
    <3> QED
      BY <2>1, <2>5, <3>1 DEF StartSvr, StopSvr, AdmStep, StopSignal, StopJoin,
                              StopDelSlot, StopSkipSlot, StopJoinTmp, StopDone
  <2> QED
    BY <2>2, <2>3, <2>4, <2>5 DEF Next
<1> QED
  BY <1>1, BaseInvariance, PTL DEF Spec

-----------------------------------------------------------------------------
(***************************************************************************)
(* A listening thread that has failed, whatever handle values the system   *)
(* gives out.                                                              *)
(***************************************************************************)
\* A thread that was started and not yet waited for means m_flg_running, and
\* stopSvr only clears that when it has waited.
RunInv ==
  /\ lpc # "none" => m_flg_running
  /\ \A a \in Admins : pc[a] \in {"slots", "jointmp", "done"} => lpc = "none"

\* When bind, listen, select or accept has failed (SockProcListen.cpp:273, 283,
\* 303, 322) the thread ends, but the server still counts as running, so
\* startSvr does nothing; only a stopSvr that waits for the thread makes room
\* for another.
DeadUntilStopped ==
  lpc = "exited" => m_flg_running /\ (lpc' = "exited" \/ \E a \in Admins : StopJoin(a))

\* Every step keeps it so.
LEMMA RunNext ==
  ASSUME BaseInv, RunInv, [Next]_vars
  PROVE  RunInv'
<1> USE Bounds DEF BaseInv, TypeOK
<1>1. CASE LnAccept \/ LnFail \/ LnStep
  <2>1. lpc # "none" /\ UNCHANGED <<pc, m_flg_running>>
    BY <1>1 DEF LnAccept, LnFail, LnEnd, LnStep, LnStart, LnExit, LnAddSlot, LnFull,
                LnCreate, LnCreateFails, LnRelock, LnCheckThread, LnNoThread, LnRefuse, adm
  <2> QED
    BY <2>1 DEF RunInv
<1>2. ASSUME NEW t \in Tmp, TmpStep(t) PROVE RunInv'
  <2>1. UNCHANGED <<lpc, pc, m_flg_running>>
    BY <1>2 DEF TmpStep, TmpStart, TmpLoop, TmpIdle, TmpError, TmpRegister, TmpLogin,
                TmpLoginRefused, TmpRemove, TmpExit, TmpClose, lsn, adm
  <2> QED
    BY <2>1 DEF RunInv
<1>3. CASE DevDrop \/ UNCHANGED vars
  BY <1>3 DEF RunInv, DevDrop, vars, lsn, adm
<1>4. ASSUME NEW a \in Admins, StartSvr(a) PROVE RunInv'
  BY <1>4 DEF RunInv, StartSvr, adm
<1>5. ASSUME NEW a \in Admins, StopSvr(a) PROVE RunInv'
  BY <1>5 DEF RunInv, StopSvr, AdmGoto, lsn
<1>6. ASSUME NEW a \in Admins, AdmStep(a) PROVE RunInv'
  <2>1. \A b \in Admins \ {a} : pc[b] = "idle"
    BY <1>6, Others DEF AdmStep, StopSignal, StopJoin, StopDelSlot, StopSkipSlot,
                        StopJoinTmp, StopDone
  <2>2. CASE StopSignal(a) \/ StopJoin(a)
    BY <2>1, <2>2 DEF RunInv, StopSignal, StopJoin, AdmGoto, lsn
  <2>3. CASE StopDelSlot(a) \/ StopSkipSlot(a) \/ StopJoinTmp(a)
    BY <2>1, <2>3 DEF RunInv, StopDelSlot, StopSkipSlot, StopJoinTmp, AdmGoto, lsn
  <2>4. CASE StopDone(a)
    BY <2>1, <2>4 DEF RunInv, StopDone, AdmGoto, lsn
  <2> QED
    BY <1>6, <2>2, <2>3, <2>4 DEF AdmStep
<1> QED
  BY <1>1, <1>2, <1>3, <1>4, <1>5, <1>6 DEF Next

\* Once the listening thread has ended nobody can register until a stopSvr
\* has been through, and startSvr alone does not help.
THEOREM DeadListenerStays == Spec => [][DeadUntilStopped]_vars
<1>1. Init => RunInv
  BY DEF Init, RunInv
<1>2. BaseInv /\ RunInv /\ [Next]_vars => RunInv'
  BY RunNext
<1>3. RunInv /\ [Next]_vars => DeadUntilStopped
  <2> SUFFICES ASSUME RunInv, [Next]_vars, lpc = "exited"
               PROVE  lpc' = "exited" \/ \E a \in Admins : StopJoin(a)
    BY DEF DeadUntilStopped, RunInv
  <2>1. ~LnAccept /\ ~LnFail /\ ~LnStep
    BY DEF LnAccept, LnFail, LnStep, LnStart, LnExit, LnAddSlot, LnFull,
           LnCreate, LnCreateFails, LnRelock, LnCheckThread, LnNoThread, LnRefuse
  <2>2. ASSUME NEW t \in Tmp, TmpStep(t) PROVE lpc' = lpc
    BY <2>2 DEF TmpStep, TmpStart, TmpLoop, TmpIdle, TmpError, TmpRegister, TmpLogin,
                TmpLoginRefused, TmpRemove, TmpExit, TmpClose, lsn
  <2>3. CASE DevDrop \/ UNCHANGED vars
    BY <2>3 DEF DevDrop, vars, lsn
  <2>4. ASSUME NEW a \in Admins, StartSvr(a) \/ StopSvr(a) \/ AdmStep(a)
        PROVE  lpc' = lpc \/ StopJoin(a)
    BY <2>4 DEF RunInv, StartSvr, StopSvr, AdmStep, StopSignal, StopDelSlot, StopSkipSlot,
                StopJoinTmp, StopDone, lsn
  <2> QED
    BY <2>1, <2>2, <2>3, <2>4 DEF Next
<1> QED
  BY <1>1, <1>2, <1>3, BaseInvariance, PTL DEF Spec
=============================================================================
