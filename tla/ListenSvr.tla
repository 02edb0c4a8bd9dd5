----------------------------- MODULE ListenSvr ------------------------------
(***************************************************************************)
(* The registration server: CSockProcListen m_svr_mc of CSockDevMng.       *)
(*                                                                         *)
(* A listening thread accepts connections and puts each into one of the    *)
(* SOCK_WAIT_MAX waiting slots with a temporary thread of its own.  The    *)
(* temporary thread waits for the registration frame and hands the         *)
(* connection to the device (DevLogin), or closes it.  startSvr and        *)
(* stopSvr start and stop all that.                                        *)
(*                                                                         *)
(* Sockets are handle values that the system gives out again once they are *)
(* closed; closesocket works on whatever connection has the value now, so  *)
(* owner says who may close it and wrong collects the mistakes.  The slot  *)
(* number goes to a new thread through one field, with nothing but a sleep *)
(* before the next number is written there; overtaken says that a thread   *)
(* was slower than that.                                                   *)
(*                                                                         *)
(* m_lock_sock is a variable because AddTmpSocket sleeps 500 ms under it;  *)
(* the other sections under it are single actions.  m_lock is only taken   *)
(* by threads that hold m_mutex_listdev, so it is left out.  The device is *)
(* the socket it owns (dev_sock); SockProc has the details.                *)
(***************************************************************************)
EXTENDS Integers, FiniteSets, FiniteSetsExt

CONSTANTS
  Admins,      \* threads calling startSvr and stopSvr
  Tmp,         \* temporary threads that can exist at the same time
  Sock,        \* socket handle values
  WaitMax,     \* SOCK_WAIT_MAX
  TimeLimit,   \* idle seconds before a waiting connection is dropped
  HandleReuse, \* may the system give out a handle value somebody remembers?
  None         \* INVALID_SOCKET, a NULL handle, a free mutex

ASSUME ListenSvrAssumption ==
  /\ None \notin Admins \cup Tmp \cup Sock
  /\ WaitMax \in Nat \ {0} /\ TimeLimit \in Nat \ {0}
  /\ HandleReuse \in BOOLEAN

Slots == 1 .. WaitMax

VARIABLES
  m_mutex_listdev, m_flg_running,                   \* CSockDevMng
  m_lock_sock, m_sock, flg_event_exit,              \* CSockProc m_svr_mc
  m_socket_wait, m_thread_wait, socket_wait_index_new,
  lpc, client_s, add_i, client_h,                   \* listening thread
  tpc, index, s_client, time_timeout,               \* temporary threads
  pc, del_i,                                        \* startSvr, stopSvr
  dev_sock,                                         \* the device's socket
  owner,       \* who may close a handle: "free", "listen" or "dev"
  wrong,       \* history: wrong targets of closesocket in the server
  overtaken    \* history: the next slot number came before a thread read its own

slots == <<m_socket_wait, m_thread_wait, socket_wait_index_new, overtaken>>
lsn   == <<lpc, client_s, add_i, client_h>>
tmp   == <<tpc, index, s_client, time_timeout>>
adm   == <<pc, del_i>>
socks == <<dev_sock, owner, wrong>>
vars  == <<m_mutex_listdev, m_flg_running, m_lock_sock, m_sock, flg_event_exit,
           slots, lsn, tmp, adm, socks>>

Init ==
  /\ m_mutex_listdev = None /\ m_flg_running = FALSE
  /\ m_lock_sock = FALSE /\ m_sock = FALSE /\ flg_event_exit = FALSE
  /\ m_socket_wait = [i \in Slots |-> None]
  /\ m_thread_wait = [i \in Slots |-> None]
  /\ socket_wait_index_new = 1 /\ overtaken = FALSE
  /\ lpc = "none" /\ client_s = None /\ add_i = 0 /\ client_h = None
  /\ tpc = [t \in Tmp |-> "none"] /\ index = [t \in Tmp |-> 0]
  /\ s_client = [t \in Tmp |-> None] /\ time_timeout = [t \in Tmp |-> 0]
  /\ pc = [a \in Admins |-> "idle"] /\ del_i = 0
  /\ dev_sock = None /\ owner = [s \in Sock |-> "free"] /\ wrong = {}

\* closesocket(s) by the server: whatever it hits is closed; nothing happens
\* on INVALID_SOCKET.
Close(s) ==
  /\ owner' = [h \in Sock |-> IF h = s THEN "free" ELSE owner[h]]
  /\ wrong' = wrong \cup ({owner[h] : h \in Sock \cap {s}} \ {"listen"})
  /\ UNCHANGED dev_sock

-----------------------------------------------------------------------------
(***************************************************************************)
(* The listening thread SOCKLISTEN_thread_server.                          *)
(***************************************************************************)
\* socket, bind and listen.
LnStart ==
  /\ lpc = "start" /\ ~m_lock_sock
  /\ m_sock' = TRUE /\ lpc' = "accept"
  /\ UNCHANGED <<m_mutex_listdev, m_flg_running, m_lock_sock, flg_event_exit,
                 slots, client_s, add_i, client_h, tmp, adm, socks>>

\* The thread closes the listening socket and ends.
LnEnd ==
  /\ ~m_lock_sock
  /\ m_sock' = FALSE /\ lpc' = "exited"
  /\ UNCHANGED <<m_mutex_listdev, m_flg_running, m_lock_sock, slots, client_s,
                 add_i, client_h, tmp, adm, socks>>

\* The exit event was raised; the loop condition consumes it.
LnExit ==
  /\ lpc = "accept" /\ flg_event_exit /\ LnEnd
  /\ flg_event_exit' = FALSE

\* The port is in use, or listen, select or accept failed.
LnFail ==
  /\ lpc \in {"start", "accept"} /\ LnEnd
  /\ UNCHANGED flg_event_exit

\* Handle values that are still kept somewhere although they may be closed.
Remembered == {dev_sock} \cup {m_socket_wait[i] : i \in Slots}
                         \cup {s_client[t] : t \in {u \in Tmp : tpc[u] # "none"}}

LnAccept ==
  /\ lpc = "accept" /\ m_sock /\ ~flg_event_exit
  /\ \E s \in Sock : /\ owner[s] = "free" /\ (HandleReuse \/ s \notin Remembered)
                     /\ client_s' = s
                     /\ owner' = [owner EXCEPT ![s] = "listen"]
  /\ lpc' = "add"
  /\ UNCHANGED <<m_mutex_listdev, m_flg_running, m_lock_sock, m_sock,
                 flg_event_exit, slots, add_i, client_h, tmp, adm, dev_sock,
                 wrong>>

FreeSlots == {i \in Slots : m_socket_wait[i] = None}

\* AddTmpSocket hands the slot number to the new thread in a field.
PublishIndexForgotten(i) == UNCHANGED socket_wait_index_new
PublishIndex(i) == socket_wait_index_new' = i

\* AddTmpSocket: take the first free slot.
LnAddSlot ==
  /\ lpc = "add" /\ FreeSlots # {} /\ ~m_lock_sock
  /\ LET i == Min(FreeSlots) IN
       /\ add_i' = i
       /\ m_thread_wait' = [m_thread_wait EXCEPT ![i] = None]
       /\ m_socket_wait' = [m_socket_wait EXCEPT ![i] = client_s]
       /\ PublishIndex(i)
  /\ overtaken' = (overtaken \/ \E t \in Tmp : tpc[t] = "start")
  /\ lpc' = "create"
  /\ UNCHANGED <<m_mutex_listdev, m_flg_running, m_lock_sock, m_sock,
                 flg_event_exit, client_s, client_h, tmp, adm, socks>>

\* AddTmpSocket: all slots are taken.
LnFull ==
  /\ lpc = "add" /\ FreeSlots = {} /\ lpc' = "refuse"
  /\ UNCHANGED <<m_mutex_listdev, m_flg_running, m_lock_sock, m_sock,
                 flg_event_exit, slots, client_s, add_i, client_h, tmp, adm,
                 socks>>

\* _beginthreadex, between the two sections under m_lock_sock.
LnCreate ==
  /\ lpc = "create" /\ lpc' = "relock"
  /\ \E t \in Tmp :
       /\ tpc[t] = "none" /\ \A i \in Slots : m_thread_wait[i] # t
       /\ client_h' = t
       /\ tpc' = [tpc EXCEPT ![t] = "start"]
  /\ UNCHANGED <<m_mutex_listdev, m_flg_running, m_lock_sock, m_sock,
                 flg_event_exit, slots, client_s, add_i, index, s_client,
                 time_timeout, adm, socks>>

LnCreateFails ==
  /\ lpc = "create" /\ lpc' = "relock"
  /\ client_h' = None
  /\ UNCHANGED <<m_mutex_listdev, m_flg_running, m_lock_sock, m_sock,
                 flg_event_exit, slots, client_s, add_i, tmp, adm, socks>>

\* lockSock and Sleep(500).
LnRelock ==
  /\ lpc = "relock" /\ ~m_lock_sock
  /\ m_lock_sock' = TRUE /\ lpc' = "sleep"
  /\ UNCHANGED <<m_mutex_listdev, m_flg_running, m_sock, flg_event_exit, slots,
                 client_s, add_i, client_h, tmp, adm, socks>>

\* After the sleep: a thread that has not ended, or not even begun, is
\* STILL_ACTIVE and its handle is kept.
LnCheckThread ==
  /\ lpc = "sleep" /\ client_h # None
  /\ m_lock_sock' = FALSE
  /\ IF tpc[client_h] # "none"
     THEN /\ m_thread_wait' = [m_thread_wait EXCEPT ![add_i] = client_h]
          /\ lpc' = "accept" /\ client_s' = None
     ELSE UNCHANGED <<m_thread_wait, client_s>> /\ lpc' = "refuse"
  /\ client_h' = None /\ add_i' = 0
  /\ UNCHANGED <<m_mutex_listdev, m_flg_running, m_sock, flg_event_exit,
                 m_socket_wait, socket_wait_index_new, overtaken, tmp, adm,
                 socks>>

\* No thread was created: close the connection and free the slot.
LnNoThread ==
  /\ lpc = "sleep" /\ client_h = None
  /\ m_lock_sock' = FALSE
  /\ Close(m_socket_wait[add_i])
  /\ m_socket_wait' = [m_socket_wait EXCEPT ![add_i] = None]
  /\ lpc' = "refuse" /\ add_i' = 0
  /\ UNCHANGED <<m_mutex_listdev, m_flg_running, m_sock, flg_event_exit,
                 m_thread_wait, socket_wait_index_new, overtaken, client_s,
                 client_h, tmp, adm>>

\* AddTmpSocket returned -1: close the connection a second later.
LnRefuse ==
  /\ lpc = "refuse" /\ lpc' = "accept"
  /\ Close(client_s) /\ client_s' = None
  /\ UNCHANGED <<m_mutex_listdev, m_flg_running, m_lock_sock, m_sock,
                 flg_event_exit, slots, add_i, client_h, tmp, adm>>

LnStep == \/ LnStart \/ LnExit \/ LnAddSlot \/ LnFull \/ LnCreate
          \/ LnCreateFails \/ LnRelock \/ LnCheckThread \/ LnNoThread \/ LnRefuse

-----------------------------------------------------------------------------
(***************************************************************************)
(* Temporary threads SOCKLISTEN_thread_client.                             *)
(***************************************************************************)
Goto(t, label) == tpc' = [tpc EXCEPT ![t] = label]

\* Read the slot number and the connection, without a lock.
TmpStart(t) ==
  /\ tpc[t] = "start" /\ Goto(t, "loop")
  /\ index' = [index EXCEPT ![t] = socket_wait_index_new]
  /\ s_client' = [s_client EXCEPT ![t] = m_socket_wait[socket_wait_index_new]]
  /\ UNCHANGED <<m_mutex_listdev, m_flg_running, m_lock_sock, m_sock,
                 flg_event_exit, slots, lsn, time_timeout, adm, socks>>

\* Look at the slot again in every round.
TmpLoop(t) ==
  /\ tpc[t] = "loop" /\ ~m_lock_sock
  /\ s_client' = [s_client EXCEPT ![t] = m_socket_wait[index[t]]]
  /\ Goto(t, IF m_socket_wait[index[t]] = None THEN "close" ELSE "select")
  /\ UNCHANGED <<m_mutex_listdev, m_flg_running, m_lock_sock, m_sock,
                 flg_event_exit, slots, lsn, index, time_timeout, adm, socks>>

\* A second passed without data.
TimeStuck(t) == time_timeout[t]
TimeNext(t) == time_timeout[t] + 1

TimedOut(n) == n >= TimeLimit

TmpIdle(t) ==
  /\ tpc[t] = "select"
  /\ time_timeout' = [time_timeout EXCEPT ![t] = TimeNext(t)]
  /\ Goto(t, IF TimedOut(TimeNext(t)) THEN "close" ELSE "loop")
  /\ UNCHANGED <<m_mutex_listdev, m_flg_running, m_lock_sock, m_sock,
                 flg_event_exit, slots, lsn, index, s_client, adm, socks>>

\* select or recv failed, or it is no registration frame.
TmpError(t) ==
  /\ tpc[t] = "select" /\ Goto(t, "close")
  /\ UNCHANGED <<m_mutex_listdev, m_flg_running, m_lock_sock, m_sock,
                 flg_event_exit, slots, lsn, index, s_client, time_timeout,
                 adm, socks>>

\* A registration frame; its checksum does not matter.
TmpRegister(t) ==
  /\ tpc[t] = "select" /\ owner[s_client[t]] = "listen" /\ Goto(t, "login")
  /\ time_timeout' = [time_timeout EXCEPT ![t] = 0]
  /\ UNCHANGED <<m_mutex_listdev, m_flg_running, m_lock_sock, m_sock,
                 flg_event_exit, slots, lsn, index, s_client, adm, socks>>

\* DevLogin accepts: the device drops its old connection for this one.
TmpLogin(t) ==
  /\ tpc[t] = "login" /\ m_mutex_listdev = None /\ Goto(t, "remove")
  /\ dev_sock' = s_client[t]
  /\ owner' = [s \in Sock |-> IF s = dev_sock THEN "free"
                              ELSE IF s = s_client[t] THEN "dev" ELSE owner[s]]
  /\ UNCHANGED <<m_mutex_listdev, m_flg_running, m_lock_sock, m_sock,
                 flg_event_exit, slots, lsn, index, s_client, time_timeout,
                 adm, wrong>>

\* Where the thread goes when DevLogin refuses.
AfterRefusalNoClose == "none"
AfterRefusal == "close"

\* DevLogin does not know the device or its key.
TmpLoginRefused(t) ==
  /\ tpc[t] = "login" /\ m_mutex_listdev = None /\ Goto(t, AfterRefusal)
  /\ UNCHANGED <<m_mutex_listdev, m_flg_running, m_lock_sock, m_sock,
                 flg_event_exit, slots, lsn, index, s_client, time_timeout,
                 adm, socks>>

\* The slots that hold handle s; at most the first one is acted on.
SlotOf(s) == {i \in Slots : m_socket_wait[i] = s}

\* RemoveTmpSocket.
TmpRemove(t) ==
  /\ tpc[t] = "remove" /\ ~m_lock_sock /\ Goto(t, "close")
  /\ m_socket_wait' = [i \in Slots |->
       IF SlotOf(s_client[t]) # {} /\ i = Min(SlotOf(s_client[t]))
       THEN None ELSE m_socket_wait[i]]
  /\ UNCHANGED <<m_mutex_listdev, m_flg_running, m_lock_sock, m_sock,
                 flg_event_exit, m_thread_wait, socket_wait_index_new,
                 overtaken, lsn, index, s_client, time_timeout, adm, socks>>

\* The thread returns; its local variables are gone.
TmpReturn(t) ==
  /\ Goto(t, "none")
  /\ index' = [index EXCEPT ![t] = 0]
  /\ s_client' = [s_client EXCEPT ![t] = None]
  /\ time_timeout' = [time_timeout EXCEPT ![t] = 0]

\* END0: CloseTmpSocket finds nothing to close.
TmpExit(t) ==
  /\ tpc[t] = "close" /\ ~m_lock_sock
  /\ s_client[t] = None \/ SlotOf(s_client[t]) = {}
  /\ TmpReturn(t)
  /\ UNCHANGED <<m_mutex_listdev, m_flg_running, m_lock_sock, m_sock,
                 flg_event_exit, slots, lsn, adm, socks>>

\* The thread AddTmpSocket created for slot i.
ThreadOf(i) == IF m_thread_wait[i] # None THEN m_thread_wait[i]
               ELSE IF add_i = i THEN client_h ELSE None

\* END0: CloseTmpSocket closes the connection and frees the slot.
TmpClose(t) ==
  /\ tpc[t] = "close" /\ ~m_lock_sock
  /\ s_client[t] # None /\ SlotOf(s_client[t]) # {}
  /\ LET i == Min(SlotOf(s_client[t])) IN
       /\ m_socket_wait' = [m_socket_wait EXCEPT ![i] = None]
       /\ owner' = [owner EXCEPT ![s_client[t]] = "free"]
       /\ wrong' = wrong
            \cup (IF ThreadOf(i) # t THEN {"other"} ELSE {})
            \cup (IF owner[s_client[t]] # "listen" THEN {owner[s_client[t]]}
                  ELSE {})
  /\ TmpReturn(t)
  /\ UNCHANGED <<m_mutex_listdev, m_flg_running, m_lock_sock, m_sock,
                 flg_event_exit, m_thread_wait, socket_wait_index_new,
                 overtaken, lsn, adm, dev_sock>>

TmpStep(t) ==
  \/ TmpStart(t) \/ TmpLoop(t) \/ TmpIdle(t) \/ TmpError(t) \/ TmpRegister(t)
  \/ TmpLogin(t) \/ TmpLoginRefused(t) \/ TmpRemove(t) \/ TmpExit(t)
  \/ TmpClose(t)

-----------------------------------------------------------------------------
(***************************************************************************)
(* startSvr and stopSvr, and the device losing its connection.             *)
(***************************************************************************)
AdmGoto(a, label) == pc' = [pc EXCEPT ![a] = label]

\* startSvr does nothing when it believes the server is running.
StartSvr(a) ==
  /\ pc[a] = "idle" /\ m_mutex_listdev = None /\ ~m_flg_running /\ ~m_lock_sock
  /\ m_flg_running' = TRUE
  /\ flg_event_exit' = FALSE
  /\ lpc' = "start"
  /\ UNCHANGED <<m_mutex_listdev, m_lock_sock, m_sock, slots, client_s, add_i,
                 client_h, tmp, adm, socks>>

\* stopSvr: kick the device, then stop the server if it is running.
StopSvr(a) ==
  /\ pc[a] = "idle" /\ m_mutex_listdev = None
  /\ m_mutex_listdev' = a
  /\ AdmGoto(a, IF m_flg_running THEN "signal" ELSE "done")
  /\ dev_sock' = None
  /\ owner' = [s \in Sock |-> IF s = dev_sock THEN "free" ELSE owner[s]]
  /\ UNCHANGED <<m_flg_running, m_lock_sock, m_sock, flg_event_exit, slots, lsn,
                 tmp, del_i, wrong>>

\* CSockProc::StopProc: exit event, listening socket.
SignalStopSkipped == UNCHANGED <<flg_event_exit, m_sock>>
SignalStop == flg_event_exit' = TRUE /\ m_sock' = FALSE

StopSignal(a) ==
  /\ pc[a] = "signal" /\ ~m_lock_sock
  /\ SignalStop
  /\ AdmGoto(a, "join")
  /\ UNCHANGED <<m_mutex_listdev, m_flg_running, m_lock_sock, slots, lsn, tmp,
                 del_i, socks>>

\* The slots StopProc still has to look at once the listening thread ended.
FirstSlotNone == WaitMax + 1
FirstSlot == 1

StopJoin(a) ==
  /\ pc[a] = "join" /\ lpc = "exited"
  /\ lpc' = "none"
  /\ del_i' = FirstSlot
  /\ AdmGoto(a, "slots")
  /\ UNCHANGED <<m_mutex_listdev, m_flg_running, m_lock_sock, m_sock,
                 flg_event_exit, slots, client_s, add_i, client_h, tmp, socks>>

\* Handles of threads whose slot is free again are closed.
CleanHandles == [i \in Slots |-> IF m_socket_wait[i] = None THEN None
                                 ELSE m_thread_wait[i]]

\* DelTmpSocket: close the connection that waits in slot del_i.
StopDelSlot(a) ==
  /\ pc[a] = "slots" /\ del_i <= WaitMax /\ ~m_lock_sock
  /\ m_socket_wait[del_i] # None
  /\ Close(m_socket_wait[del_i])
  /\ m_socket_wait' = [m_socket_wait EXCEPT ![del_i] = None]
  /\ m_thread_wait' = CleanHandles
  /\ AdmGoto(a, "jointmp")
  /\ UNCHANGED <<m_mutex_listdev, m_flg_running, m_lock_sock, m_sock,
                 flg_event_exit, socket_wait_index_new, overtaken, lsn, tmp,
                 del_i>>

StopSkipSlot(a) ==
  /\ pc[a] = "slots" /\ del_i <= WaitMax /\ m_socket_wait[del_i] = None
  /\ del_i' = del_i + 1
  /\ UNCHANGED <<m_mutex_listdev, m_flg_running, m_lock_sock, m_sock,
                 flg_event_exit, slots, lsn, tmp, pc, socks>>

\* DelTmpSocket waits for the temporary thread, without a time limit.
StopJoinTmp(a) ==
  /\ pc[a] = "jointmp"
  /\ m_thread_wait[del_i] # None => tpc[m_thread_wait[del_i]] = "none"
  /\ m_thread_wait' = [m_thread_wait EXCEPT ![del_i] = None]
  /\ del_i' = del_i + 1
  /\ AdmGoto(a, "slots")
  /\ UNCHANGED <<m_mutex_listdev, m_flg_running, m_lock_sock, m_sock,
                 flg_event_exit, m_socket_wait, socket_wait_index_new,
                 overtaken, lsn, tmp, socks>>

StopDone(a) ==
  /\ pc[a] = "done" \/ (pc[a] = "slots" /\ del_i > WaitMax)
  /\ m_flg_running' = FALSE /\ m_mutex_listdev' = None
  /\ AdmGoto(a, "idle") /\ del_i' = 0
  /\ UNCHANGED <<m_lock_sock, m_sock, flg_event_exit, slots, lsn, tmp, socks>>

AdmStep(a) == \/ StopSignal(a) \/ StopJoin(a) \/ StopDelSlot(a)
              \/ StopSkipSlot(a) \/ StopJoinTmp(a) \/ StopDone(a)

\* The device's own thread closes its socket.
DevDrop ==
  /\ dev_sock # None /\ dev_sock' = None
  /\ owner' = [owner EXCEPT ![dev_sock] = "free"]
  /\ UNCHANGED <<m_mutex_listdev, m_flg_running, m_lock_sock, m_sock,
                 flg_event_exit, slots, lsn, tmp, adm, wrong>>

-----------------------------------------------------------------------------
Next ==
  \/ LnAccept \/ LnFail \/ LnStep \/ DevDrop
  \/ \E t \in Tmp : TmpStep(t)
  \/ \E a \in Admins : StartSvr(a) \/ StopSvr(a) \/ AdmStep(a)

Spec == Init /\ [][Next]_vars

(***************************************************************************)
(* Every thread keeps running, and a thread that waits for a mutex gets it *)
(* in the end.  Connections, registrations and calls are up to others.     *)
(***************************************************************************)
Fairness ==
  /\ SF_vars(LnStep)
  /\ \A t \in Tmp : SF_vars(TmpStep(t))
  /\ \A a \in Admins : SF_vars(AdmStep(a))

FairSpec == Spec /\ Fairness

-----------------------------------------------------------------------------
(***************************************************************************)
(* Properties.                                                             *)
(***************************************************************************)
TypeOK ==
  /\ m_mutex_listdev \in Admins \cup {None} /\ m_flg_running \in BOOLEAN
  /\ m_lock_sock \in BOOLEAN /\ m_sock \in BOOLEAN /\ flg_event_exit \in BOOLEAN
  /\ m_socket_wait \in [Slots -> Sock \cup {None}]
  /\ m_thread_wait \in [Slots -> Tmp \cup {None}]
  /\ socket_wait_index_new \in Slots /\ overtaken \in BOOLEAN
  /\ lpc \in {"none", "start", "accept", "add", "create", "relock", "sleep",
              "refuse", "exited"}
  /\ client_s \in Sock \cup {None} /\ add_i \in 0 .. WaitMax
  /\ client_h \in Tmp \cup {None}
  /\ tpc \in [Tmp -> {"none", "start", "loop", "select", "login", "remove",
                      "close"}]
  /\ index \in [Tmp -> 0 .. WaitMax]
  /\ s_client \in [Tmp -> Sock \cup {None}]
  /\ time_timeout \in [Tmp -> 0 .. TimeLimit]
  /\ pc \in [Admins -> {"idle", "signal", "join", "slots", "jointmp", "done"}]
  /\ del_i \in 0 .. WaitMax + 1
  /\ dev_sock \in Sock \cup {None}
  /\ owner \in [Sock -> {"free", "listen", "dev"}]
  /\ wrong \subseteq {"free", "dev", "other"}

Alive(t) == tpc[t] # "none"

\* "Handle every device connection" (SockProcListen.cpp:358): a connection
\* never sits in a slot whose thread works on another one or has ended.  Such
\* a slot is lost until the server stops, and four of them end registration.
SlotServed ==
  \A i \in Slots : m_socket_wait[i] # None =>
    \/ lpc \in {"create", "relock", "sleep"} /\ add_i = i
    \/ \E t \in Tmp : Alive(t) /\ index[t] = i
    \/ m_thread_wait[i] # None /\ tpc[m_thread_wait[i]] = "start"

\* That is so as long as every thread has read its slot number before the
\* next one is written: no other order of the threads, of time-outs, refusals
\* and stops leaves a connection behind.
SlotServedInTime == overtaken \/ SlotServed

\* Two temporary threads never wait on the same slot, although the slot
\* number is passed through one shared field, unless a thread was overtaken.
OneThreadPerSlot ==
  overtaken \/ \A t, u \in Tmp :
     tpc[t] \in {"loop", "select", "login"} /\ tpc[u] \in {"loop", "select", "login"}
     /\ index[t] = index[u] => t = u

\* When the server is stopped it takes no connection and has none, whatever
\* its threads were doing; and unless one was overtaken none of them is left
\* that could still register a device.
StoppedIsQuiet ==
  ~m_flg_running =>
    /\ lpc = "none" /\ ~m_sock
    /\ \A i \in Slots : m_socket_wait[i] = None
    /\ overtaken \/ \A t \in Tmp : tpc[t] \in {"none", "close"}

\* A thread does not wait for ever for a connection that never registers.
SilentConnectionDropped ==
  \A t \in Tmp : tpc[t] = "start" ~> tpc[t] \in {"login", "none"}

\* stopSvr holds the list mutex and waits for t, t waits for the mutex.
Circle(a, t) ==
  /\ pc[a] = "jointmp" /\ m_mutex_listdev = a /\ lpc = "none"
  /\ m_thread_wait[del_i] = t /\ tpc[t] = "login"

\* DelTmpSocket "ends the thread and closes the socket"
\* (SockProcListen.cpp:120), and the listening thread ends when it is told
\* to: stopSvr returns, whatever the threads were doing, but for one case, a
\* thread that has received its registration frame and not logged in yet.
StopSvrReturns ==
  \A a \in Admins :
    pc[a] = "signal" ~> pc[a] = "idle" \/ \E t \in Tmp : Circle(a, t)

\* "From here on the socket is managed by the manager's threads"
\* (SockProcListen.cpp:478): the server does not close it any more.
HandedOverIsKept == "dev" \notin wrong

\* "On exit close the temporary connection" (SockProcListen.cpp:485): a
\* thread that ends closes the connection it was created for, not one that
\* came later and has the same handle value.
ClosesOwnConnection == "other" \notin wrong
=============================================================================
