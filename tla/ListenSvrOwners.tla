--------------------------- MODULE ListenSvrOwners --------------------------
(***************************************************************************)
(* Proofs about who closes which connection in ListenSvr: what DevLogin is *)
(* handed, that no connection is lost, and which steps of the server can   *)
(* close a connection that is not its own.  The run ListenSvrHandOver      *)
(* shows that one can; the theorems here say that no other does.           *)
(*                                                                         *)
(* The argument.  What is in a slot belongs to the server, except between  *)
(* DevLogin and RemoveTmpSocket of the slot's own thread (SlotOwner).  The *)
(* device has at most one connection, and none while stopSvr is at work    *)
(* (DevOwner).  Only the listening thread, after AddTmpSocket, holds a     *)
(* connection without knowing whose it is by now (AddOwner).  As in        *)
(* ListenSvrProofs, all of it holds until a thread is overtaken.           *)
(***************************************************************************)
EXTENDS ListenSvrProofs

\* t has handed the connection of slot i to the device and not yet removed
\* it from the slot.
HandedOver(t, i) ==
  tpc[t] = "remove" /\ index[t] = i /\ s_client[t] = m_socket_wait[i]

\* A connection in a slot is the server's unless it has just been handed over.
SlotOwner ==
  /\ \A i \in Slots : m_socket_wait[i] # None =>
       owner[m_socket_wait[i]] = "listen" \/ \E t \in Tmp : HandedOver(t, i)
  /\ \A t \in Tmp : tpc[t] = "remove" => s_client[t] \in Sock /\ owner[s_client[t]] # "listen"

\* The device has one connection, which is not the server's, and while a
\* caller is in stopSvr it has none.
DevOwner ==
  /\ dev_sock # None => owner[dev_sock] # "listen"
  /\ \A s \in Sock : owner[s] = "dev" => s = dev_sock
  /\ \A a \in Admins : pc[a] # "idle" => dev_sock = None

\* Between accept and the end of AddTmpSocket the connection is in no slot
\* but the one taken for it; when AddTmpSocket has returned -1, in none.
AddOwner ==
  /\ lpc = "add" => owner[client_s] = "listen"
  /\ lpc \in Adding =>
       /\ client_s \in Sock /\ m_socket_wait[add_i] \in {client_s, None}
       /\ \A i \in Slots : m_socket_wait[i] = client_s => i = add_i
  /\ lpc = "refuse" => client_s \in Sock /\ \A i \in Slots : m_socket_wait[i] # client_s

\* A connection of the server is in a slot, or in the hands of the listening
\* thread.
Kept ==
  \A s \in Sock : owner[s] = "listen" =>
    \/ \E i \in Slots : m_socket_wait[i] = s
    \/ lpc \in {"add", "refuse"} /\ client_s = s

\* So none is left open that nobody will ever close, unless a thread was
\* overtaken.
NothingLeaked == overtaken \/ Kept

OwnInv == SlotOwner /\ DevOwner /\ AddOwner /\ Kept

-----------------------------------------------------------------------------
(***************************************************************************)
(* Every step keeps the invariant.                                         *)
(***************************************************************************)

\* The types the proofs below need.
LEMMA OwnTypes ==
  ASSUME IInv
  PROVE  /\ m_socket_wait \in [Slots -> Sock \cup {None}]
         /\ tpc \in [Tmp -> {"none", "start", "loop", "select", "login", "remove", "close"}]
         /\ index \in [Tmp -> 0 .. WaitMax] /\ s_client \in [Tmp -> Sock \cup {None}]
         /\ owner \in [Sock -> {"free", "listen", "dev"}]
         /\ client_s \in Sock \cup {None} /\ dev_sock \in Sock \cup {None}
         /\ pc \in [Admins -> {"idle", "signal", "join", "slots", "jointmp", "done"}]
         /\ None \notin Sock /\ None \notin Tmp /\ None \notin Admins
  BY Bounds DEF IInv, BaseInv, TypeOK

\* A step that touches neither connections nor slots, and after which the
\* same threads are between DevLogin and RemoveTmpSocket.
LEMMA SameOwn ==
  ASSUME OwnInv, UNCHANGED <<m_socket_wait, owner, dev_sock, client_s, add_i>>,
         \A t \in Tmp : tpc[t] = "remove" <=> tpc'[t] = "remove",
         \A t \in Tmp : tpc[t] = "remove" => index'[t] = index[t] /\ s_client'[t] = s_client[t],
         \A a \in Admins : pc[a] = "idle" => pc'[a] = "idle",
         \/ lpc' = lpc
         \/ /\ lpc \notin {"add", "refuse"} /\ lpc' \notin {"add", "refuse"}
            /\ lpc' \in Adding => lpc \in Adding
  PROVE  OwnInv'
<1>1. SlotOwner'
  BY DEF OwnInv, SlotOwner, HandedOver
<1>2. DevOwner'
  BY DEF OwnInv, DevOwner
<1>3. AddOwner'
  BY DEF OwnInv, AddOwner, Adding
<1>4. Kept'
  BY DEF OwnInv, Kept
<1> QED
  BY <1>1, <1>2, <1>3, <1>4 DEF OwnInv

\* The connection of slot i is closed, and the slot freed: that disturbs no
\* other slot.
LEMMA FreeSlotOwn ==
  ASSUME IInv, OwnInv, NEW i \in Slots, m_socket_wait[i] # None,
         m_socket_wait' = [m_socket_wait EXCEPT ![i] = None],
         owner' = [owner EXCEPT ![m_socket_wait[i]] = "free"], dev_sock' = dev_sock,
         \A t \in Tmp : tpc'[t] = "remove" => tpc[t] = "remove",
         \A t \in Tmp : index[t] # i /\ tpc[t] = "remove" => tpc'[t] = "remove",
         \A t \in Tmp : tpc'[t] = "remove" => index'[t] = index[t] /\ s_client'[t] = s_client[t],
         \A a \in Admins : pc[a] = "idle" => pc'[a] = "idle"
  PROVE  /\ SlotOwner' /\ DevOwner'
         /\ client_s' = client_s /\ (lpc \in {"add", "refuse"} => lpc' = lpc) => Kept'
<1> USE OwnTypes
<1>0. /\ m_socket_wait[i] \in Sock
      /\ \A j \in Slots : j # i /\ m_socket_wait[j] # None => m_socket_wait[j] # m_socket_wait[i]
  BY DEF IInv, SafeInv, DistinctInv
<1>1. SlotOwner'
  <2>1. ASSUME NEW j \in Slots, m_socket_wait'[j] # None
        PROVE  owner'[m_socket_wait'[j]] = "listen" \/ \E t \in Tmp : HandedOver(t, j)'
    <3>1. j # i /\ m_socket_wait'[j] = m_socket_wait[j] /\ m_socket_wait[j] \in Sock
      BY <2>1
    <3>2. owner'[m_socket_wait[j]] = owner[m_socket_wait[j]]
      BY <1>0, <3>1
    <3>3. ASSUME NEW t \in Tmp, HandedOver(t, j) PROVE HandedOver(t, j)'
      BY <3>1, <3>3 DEF HandedOver
    <3> QED
      BY <3>1, <3>2, <3>3 DEF OwnInv, SlotOwner
  <2>2. ASSUME NEW t \in Tmp, tpc'[t] = "remove"
        PROVE  s_client'[t] \in Sock /\ owner'[s_client'[t]] # "listen"
    BY <1>0, <2>2 DEF OwnInv, SlotOwner
  <2> QED
    BY <2>1, <2>2 DEF SlotOwner
<1>2. DevOwner'
  BY <1>0 DEF OwnInv, DevOwner
<1>3. ASSUME client_s' = client_s, lpc \in {"add", "refuse"} => lpc' = lpc
      PROVE  Kept'
  BY <1>0, <1>3 DEF OwnInv, Kept
<1> QED
  BY <1>1, <1>2, <1>3

\* The listening thread: what it accepts is its own, what it puts into a
\* slot too.
LEMMA LnOwn ==
  ASSUME IInv, OwnInv, ~HandleReuse, LnAccept \/ LnFail \/ LnStep
  PROVE  OwnInv'
<1> USE OwnTypes DEF slots, tmp, adm, socks
<1>1. CASE LnStart \/ LnExit \/ LnFail \/ LnCreateFails \/ LnRelock
  <2>1. /\ UNCHANGED <<m_socket_wait, owner, dev_sock, client_s, add_i, tpc, index, s_client, pc>>
        /\ lpc \notin {"add", "refuse"} /\ lpc' \notin {"add", "refuse"}
        /\ lpc' \in Adding => lpc \in Adding
    BY <1>1 DEF LnStart, LnExit, LnFail, LnEnd, LnCreateFails, LnRelock, Adding
  <2> QED
    BY <2>1, SameOwn
<1>2. CASE LnAccept
  <2>1. PICK s \in Sock :
          /\ owner[s] = "free" /\ s \notin Remembered /\ client_s' = s
          /\ owner' = [owner EXCEPT ![s] = "listen"]
    BY <1>2 DEF LnAccept
  <2>2. /\ UNCHANGED <<m_socket_wait, dev_sock, tpc, index, s_client, pc>>
        /\ lpc = "accept" /\ lpc' = "add"
    BY <1>2 DEF LnAccept
  <2>3. SlotOwner'
    BY <2>1, <2>2 DEF OwnInv, SlotOwner, HandedOver, Remembered
  <2>4. DevOwner'
    BY <2>1, <2>2 DEF OwnInv, DevOwner, Remembered
  <2>5. AddOwner' /\ Kept'
    BY <2>1, <2>2 DEF OwnInv, AddOwner, Adding, Kept
  <2> QED
    BY <2>3, <2>4, <2>5 DEF OwnInv
<1>3. CASE LnAddSlot
  <2>1. PICK i \in Slots : /\ m_socket_wait[i] = None /\ add_i' = i
                           /\ m_socket_wait' = [m_socket_wait EXCEPT ![i] = client_s]
    <3>1. FreeSlots \subseteq Slots /\ FreeSlots # {}
      BY <1>3 DEF LnAddSlot, FreeSlots
    <3>2. Min(FreeSlots) \in FreeSlots
      <4>1. FreeSlots \subseteq Nat
        BY <3>1, Bounds DEF Slots
      <4> QED
        BY <3>1, <4>1, MinExists
    <3> QED
      BY <1>3, <3>2 DEF LnAddSlot, FreeSlots
  <2>2. /\ UNCHANGED <<client_s, owner, dev_sock, tpc, index, s_client, pc>>
        /\ lpc = "add" /\ lpc' = "create"
    BY <1>3 DEF LnAddSlot
  <2>3. /\ client_s \in Sock /\ owner[client_s] = "listen"
        /\ \A j \in Slots : m_socket_wait[j] # client_s
    BY <2>2 DEF IInv, SafeInv, AddInv, OwnInv, AddOwner
  <2>4. SlotOwner'
    BY <2>1, <2>2, <2>3 DEF OwnInv, SlotOwner, HandedOver
  <2>5. DevOwner'
    BY <2>2 DEF OwnInv, DevOwner
  <2>6. AddOwner' /\ Kept'
    BY <2>1, <2>2, <2>3 DEF AddOwner, Adding, OwnInv, Kept
  <2> QED
    BY <2>4, <2>5, <2>6 DEF OwnInv
<1>4. CASE LnFull
  <2>1. /\ UNCHANGED <<m_socket_wait, owner, dev_sock, client_s, tpc, index, s_client, pc>>
        /\ lpc = "add" /\ lpc' = "refuse"
    BY <1>4 DEF LnFull
  <2>2. client_s \in Sock /\ \A i \in Slots : m_socket_wait[i] # client_s
    BY <2>1 DEF IInv, SafeInv, AddInv
  <2> QED
    BY <2>1, <2>2 DEF OwnInv, SlotOwner, HandedOver, DevOwner, AddOwner, Adding, Kept
<1>5. CASE LnCreate
  <2>1. PICK t \in Tmp : tpc[t] = "none" /\ tpc' = [tpc EXCEPT ![t] = "start"]
    BY <1>5 DEF LnCreate
  <2>2. /\ UNCHANGED <<m_socket_wait, owner, dev_sock, client_s, add_i, index, s_client, pc>>
        /\ lpc = "create" /\ lpc' = "relock"
    BY <1>5 DEF LnCreate
  <2> QED
    BY <2>1, <2>2, SameOwn DEF Adding
<1>6. CASE LnCheckThread
  <2>1. /\ UNCHANGED <<m_socket_wait, owner, dev_sock, tpc, index, s_client, pc>>
        /\ lpc = "sleep" /\ client_h # None
        /\ IF tpc[client_h] # "none" THEN lpc' = "accept" ELSE client_s' = client_s /\ lpc' = "refuse"
    BY <1>6 DEF LnCheckThread
  <2>2. /\ add_i \in Slots
        /\ tpc[client_h] = "none" => m_socket_wait[add_i] = None
    BY <2>1 DEF IInv, SafeInv, NewInv, Adding, Serves
  <2>3. AddOwner'
    BY <2>1, <2>2 DEF OwnInv, AddOwner, Adding
  <2>4. SlotOwner' /\ DevOwner' /\ Kept'
    BY <2>1 DEF OwnInv, SlotOwner, HandedOver, DevOwner, Kept
  <2> QED
    BY <2>3, <2>4 DEF OwnInv
<1>7. CASE LnNoThread
  <2>1. /\ add_i \in Slots /\ m_socket_wait[add_i] # None /\ lpc = "sleep" /\ lpc' = "refuse"
        /\ m_socket_wait[add_i] = client_s /\ client_s \in Sock
        /\ \A i \in Slots : m_socket_wait[i] = client_s => i = add_i
    BY <1>7 DEF LnNoThread, IInv, SafeInv, NewInv, Adding, OwnInv, AddOwner
  <2>2. /\ m_socket_wait' = [m_socket_wait EXCEPT ![add_i] = None]
        /\ UNCHANGED <<dev_sock, client_s, tpc, index, s_client, pc>>
        /\ owner' = [owner EXCEPT ![m_socket_wait[add_i]] = "free"]
    BY <1>7 DEF LnNoThread, Close
  <2>3. SlotOwner' /\ DevOwner' /\ Kept'
    BY <2>1, <2>2, FreeSlotOwn
  <2>4. AddOwner'
    BY <2>1, <2>2 DEF AddOwner, Adding
  <2> QED
    BY <2>3, <2>4 DEF OwnInv
<1>8. CASE LnRefuse
  <2>1. /\ UNCHANGED <<m_socket_wait, dev_sock, tpc, index, s_client, pc>>
        /\ lpc = "refuse" /\ lpc' = "accept"
        /\ owner' = [h \in Sock |-> IF h = client_s THEN "free" ELSE owner[h]]
    BY <1>8 DEF LnRefuse, Close
  <2>2. client_s \in Sock /\ \A i \in Slots : m_socket_wait[i] # client_s
    BY <2>1 DEF OwnInv, AddOwner
  <2>3. SlotOwner'
    BY <2>1, <2>2 DEF OwnInv, SlotOwner, HandedOver
  <2>4. DevOwner'
    BY <2>1 DEF OwnInv, DevOwner
  <2>5. AddOwner' /\ Kept'
    BY <2>1, <2>2 DEF OwnInv, AddOwner, Adding, Kept
  <2> QED
    BY <2>3, <2>4, <2>5 DEF OwnInv
<1> QED
  BY <1>1, <1>2, <1>3, <1>4, <1>5, <1>6, <1>7, <1>8 DEF LnStep

\* DevLogin gets a connection of the server, which the device does not have
\* yet; the slot's thread is the only one that could have taken it away.
LEMMA LoginOwn ==
  ASSUME IInv, OwnInv, NEW t \in Tmp, TmpLogin(t)
  PROVE  /\ s_client[t] \in Sock /\ owner[s_client[t]] = "listen" /\ s_client[t] # dev_sock
         /\ index[t] \in Slots /\ m_socket_wait[index[t]] = s_client[t]
<1> USE OwnTypes
<1>1. tpc[t] = "login" /\ \A a \in Admins : pc[a] = "idle"
  BY DEF TmpLogin, IInv, BaseInv
<1>2. index[t] \in Slots /\ s_client[t] # None /\ m_socket_wait[index[t]] = s_client[t]
  BY <1>1 DEF IInv, BaseInv, SafeInv, SockInv, Serving, At, Conn
<1>3. ~\E u \in Tmp : HandedOver(u, index[t])
  <2> SUFFICES ASSUME NEW u \in Tmp, HandedOver(u, index[t]) PROVE FALSE
    OBVIOUS
  <2>1. Holds(t) /\ Holds(u) /\ At(u) = At(t)
    BY <1>1 DEF HandedOver, IInv, SafeInv, HolderInv, Serving, At
  <2>2. u = t
    BY <2>1, OneHolder
  <2> QED
    BY <1>1, <2>2 DEF HandedOver
<1>4. owner[s_client[t]] = "listen"
  BY <1>2, <1>3 DEF OwnInv, SlotOwner
<1> QED
  BY <1>2, <1>4 DEF OwnInv, DevOwner

\* What a temporary thread closes at its end belongs to the server.
LEMMA CloseIsOwn ==
  ASSUME IInv, OwnInv, NEW t \in Tmp, TmpClose(t)
  PROVE  /\ index[t] \in Slots /\ m_socket_wait[index[t]] = s_client[t]
         /\ Min(SlotOf(s_client[t])) = index[t]
         /\ s_client[t] \in Sock /\ owner[s_client[t]] = "listen"
         /\ \A u \in Tmp : tpc[u] = "remove" => index[u] # index[t]
<1> USE OwnTypes
<1>1. /\ tpc[t] = "close" /\ s_client[t] # None /\ SlotOf(s_client[t]) # {}
  BY DEF TmpClose
<1>2. /\ Min(SlotOf(s_client[t])) = index[t] /\ index[t] \in Slots
      /\ m_socket_wait[index[t]] = s_client[t]
  BY <1>1, OwnSlot
<1>3. ASSUME NEW u \in Tmp, tpc[u] = "remove", index[u] = index[t] PROVE FALSE
  <2>1. Holds(t) /\ Holds(u) /\ At(t) = At(u)
    BY <1>1, <1>2, <1>3 DEF IInv, SafeInv, HolderInv, Serving, At, Conn
  <2>2. u = t
    BY <1>3, <2>1, OneHolder
  <2> QED
    BY <1>1, <1>3, <2>2
<1>4. owner[s_client[t]] = "listen"
  BY <1>1, <1>2, <1>3 DEF OwnInv, SlotOwner, HandedOver
<1> QED
  BY <1>1, <1>2, <1>3, <1>4

\* The temporary threads.
LEMMA TmpOwn ==
  ASSUME IInv, OwnInv, NEW t \in Tmp, TmpStep(t)
  PROVE  OwnInv'
<1> USE OwnTypes DEF slots, lsn, adm, socks, Goto
<1>1. CASE TmpStart(t) \/ TmpLoop(t) \/ TmpIdle(t) \/ TmpError(t) \/ TmpRegister(t)
             \/ TmpLoginRefused(t) \/ TmpExit(t)
  <2>1. /\ UNCHANGED <<m_socket_wait, owner, dev_sock, client_s, add_i, pc, lpc>>
        /\ tpc[t] # "remove"
        /\ \E label \in {"none", "loop", "select", "login", "close"} :
             tpc' = [tpc EXCEPT ![t] = label]
        /\ \A u \in Tmp \ {t} : index'[u] = index[u] /\ s_client'[u] = s_client[u]
    BY <1>1 DEF TmpStart, TmpLoop, TmpIdle, TmpError, TmpRegister, TmpLoginRefused,
                AfterRefusal, TmpExit, TmpReturn
  <2>2. \A u \in Tmp : tpc[u] = "remove" <=> tpc'[u] = "remove"
    BY <2>1
  <2>3. \A u \in Tmp : tpc[u] = "remove" => index'[u] = index[u] /\ s_client'[u] = s_client[u]
    BY <2>1
  <2> QED
    BY <2>1, <2>2, <2>3, SameOwn
<1>2. CASE TmpLogin(t)
  <2>1. /\ s_client[t] \in Sock /\ owner[s_client[t]] = "listen" /\ s_client[t] # dev_sock
        /\ index[t] \in Slots /\ m_socket_wait[index[t]] = s_client[t]
    BY <1>2, LoginOwn
  <2>2. /\ UNCHANGED <<m_socket_wait, lpc, client_s, add_i, index, s_client, pc>>
        /\ tpc[t] = "login" /\ tpc' = [tpc EXCEPT ![t] = "remove"]
        /\ dev_sock' = s_client[t]
        /\ owner' = [s \in Sock |-> IF s = dev_sock THEN "free"
                                    ELSE IF s = s_client[t] THEN "dev" ELSE owner[s]]
        /\ \A a \in Admins : pc[a] = "idle"
    BY <1>2 DEF TmpLogin, IInv, BaseInv
  <2>3. SlotOwner'
    <3>1. ASSUME NEW i \in Slots, m_socket_wait[i] # None
          PROVE  owner'[m_socket_wait[i]] = "listen" \/ \E u \in Tmp : HandedOver(u, i)'
      <4>1. CASE i = index[t]
        BY <2>1, <2>2, <4>1 DEF HandedOver
      <4>2. CASE i # index[t]
        <5>1. m_socket_wait[i] # s_client[t] /\ m_socket_wait[i] \in Sock
          BY <2>1, <3>1, <4>2 DEF IInv, SafeInv, DistinctInv
        <5>2. CASE owner[m_socket_wait[i]] = "listen"
          <6>1. m_socket_wait[i] # dev_sock
            BY <3>1, <5>2 DEF OwnInv, DevOwner
          <6> QED
            BY <2>2, <5>1, <5>2, <6>1
        <5>3. CASE \E u \in Tmp : HandedOver(u, i)
          <6>1. PICK u \in Tmp : HandedOver(u, i)
            BY <5>3
          <6>2. HandedOver(u, i)'
            BY <2>2, <6>1 DEF HandedOver
          <6> QED
            BY <6>2
        <5> QED
          BY <3>1, <5>2, <5>3 DEF OwnInv, SlotOwner
      <4> QED
        BY <4>1, <4>2
    <3>2. ASSUME NEW u \in Tmp, tpc'[u] = "remove"
          PROVE  s_client[u] \in Sock /\ owner'[s_client[u]] # "listen"
      BY <2>1, <2>2, <3>2 DEF OwnInv, SlotOwner
    <3> QED
      BY <2>2, <3>1, <3>2 DEF SlotOwner
  <2>4. DevOwner'
    BY <2>1, <2>2 DEF OwnInv, DevOwner
  <2>5. AddOwner'
    <3>1. lpc = "add" => client_s # s_client[t] /\ client_s \in Sock /\ client_s # dev_sock
      BY <2>1 DEF IInv, SafeInv, AddInv, OwnInv, AddOwner, DevOwner
    <3> QED
      BY <2>2, <3>1 DEF OwnInv, AddOwner, Adding
  <2>6. Kept'
    BY <2>2 DEF OwnInv, Kept
  <2> QED
    BY <2>3, <2>4, <2>5, <2>6 DEF OwnInv
<1>3. CASE TmpRemove(t)
  <2>1. /\ UNCHANGED <<owner, dev_sock, lpc, client_s, add_i, index, s_client, pc>>
        /\ tpc[t] = "remove" /\ tpc' = [tpc EXCEPT ![t] = "close"]
        /\ s_client[t] \in Sock /\ owner[s_client[t]] # "listen"
    BY <1>3 DEF TmpRemove, OwnInv, SlotOwner
  <2>2. \/ m_socket_wait' = m_socket_wait /\ m_socket_wait[index[t]] # s_client[t]
        \/ /\ m_socket_wait[index[t]] = s_client[t]
           /\ m_socket_wait' = [m_socket_wait EXCEPT ![index[t]] = None]
    <3>1. m_socket_wait' = [i \in Slots |->
             IF SlotOf(s_client[t]) # {} /\ i = Min(SlotOf(s_client[t]))
             THEN None ELSE m_socket_wait[i]]
      BY <1>3 DEF TmpRemove
    <3>2. index[t] \in Slots
      BY <2>1 DEF IInv, BaseInv
    <3>3. CASE SlotOf(s_client[t]) = {}
      <4>1. m_socket_wait' = m_socket_wait
        BY <3>1, <3>3
      <4> QED
        BY <3>2, <3>3, <4>1 DEF SlotOf
    <3>4. CASE SlotOf(s_client[t]) # {}
      <4>1. /\ Min(SlotOf(s_client[t])) = index[t] /\ m_socket_wait[index[t]] = s_client[t]
        BY <2>1, <3>4, OwnSlot
      <4>2. m_socket_wait' = [m_socket_wait EXCEPT ![index[t]] = None]
        BY <3>1, <3>4, <4>1
      <4> QED
        BY <4>1, <4>2
    <3> QED
      BY <3>3, <3>4
  <2>3. index[t] \in Slots
    BY <2>1 DEF IInv, BaseInv
  <2>4. SlotOwner'
    <3>1. ASSUME NEW i \in Slots, m_socket_wait'[i] # None
          PROVE  owner[m_socket_wait'[i]] = "listen" \/ \E u \in Tmp : HandedOver(u, i)'
      <4>1. m_socket_wait'[i] = m_socket_wait[i]
        BY <2>2, <2>3, <3>1
      <4>2. ASSUME NEW u \in Tmp, HandedOver(u, i) PROVE HandedOver(u, i)'
        <5>1. u # t
          BY <2>2, <2>3, <3>1, <4>1, <4>2 DEF HandedOver
        <5> QED
          BY <2>1, <4>1, <4>2, <5>1 DEF HandedOver
      <4> QED
        BY <3>1, <4>1, <4>2 DEF OwnInv, SlotOwner
    <3>2. \A u \in Tmp : tpc'[u] = "remove" => s_client[u] \in Sock /\ owner[s_client[u]] # "listen"
      BY <2>1 DEF OwnInv, SlotOwner
    <3> QED
      BY <2>1, <3>1, <3>2 DEF SlotOwner
  <2>5. DevOwner'
    BY <2>1 DEF OwnInv, DevOwner
  <2>6. AddOwner'
    <3>1. lpc \in Adding => m_socket_wait'[add_i] \in {client_s, None}
      <4>1. lpc \in Adding => add_i \in Slots
        BY DEF IInv, SafeInv, NewInv
      <4> QED
        BY <2>2, <2>3, <4>1 DEF OwnInv, AddOwner
    <3>2. \A i \in Slots : m_socket_wait'[i] \in {m_socket_wait[i], None}
      BY <2>2, <2>3
    <3> QED
      BY <2>1, <3>1, <3>2 DEF OwnInv, AddOwner, Adding
  <2>7. Kept'
    BY <2>1, <2>2, <2>3 DEF OwnInv, Kept
  <2> QED
    BY <2>4, <2>5, <2>6, <2>7 DEF OwnInv
<1>4. CASE TmpClose(t)
  <2>1. /\ index[t] \in Slots /\ m_socket_wait[index[t]] = s_client[t]
        /\ Min(SlotOf(s_client[t])) = index[t] /\ s_client[t] \in Sock
        /\ \A u \in Tmp : tpc[u] = "remove" => index[u] # index[t]
    BY <1>4, CloseIsOwn
  <2>2. /\ m_socket_wait' = [m_socket_wait EXCEPT ![index[t]] = None]
        /\ owner' = [owner EXCEPT ![m_socket_wait[index[t]]] = "free"]
        /\ UNCHANGED <<dev_sock, lpc, client_s, add_i, pc>>
        /\ tpc[t] = "close" /\ tpc' = [tpc EXCEPT ![t] = "none"]
        /\ \A u \in Tmp \ {t} : index'[u] = index[u] /\ s_client'[u] = s_client[u]
    BY <1>4, <2>1 DEF TmpClose, TmpReturn
  <2>3. SlotOwner' /\ DevOwner' /\ Kept'
    BY <2>1, <2>2, FreeSlotOwn
  <2>4. AddOwner'
    <3>1. lpc = "add" => client_s # s_client[t]
      BY <2>1 DEF IInv, SafeInv, AddInv
    <3>2. lpc \in Adding => m_socket_wait'[add_i] \in {client_s, None}
      <4>1. lpc \in Adding => add_i \in Slots
        BY DEF IInv, SafeInv, NewInv
      <4> QED
        BY <2>1, <2>2, <4>1 DEF OwnInv, AddOwner
    <3>3. \A i \in Slots : m_socket_wait'[i] \in {m_socket_wait[i], None}
      BY <2>1, <2>2
    <3> QED
      BY <2>1, <2>2, <3>1, <3>2, <3>3 DEF OwnInv, AddOwner, Adding
  <2> QED
    BY <2>3, <2>4 DEF OwnInv
<1> QED
  BY <1>1, <1>2, <1>3, <1>4 DEF TmpStep

\* startSvr and stopSvr, and the device dropping its connection.
LEMMA AdmOwn ==
  ASSUME IInv, OwnInv,
         DevDrop \/ UNCHANGED vars
           \/ \E a \in Admins : StartSvr(a) \/ StopSvr(a) \/ AdmStep(a)
  PROVE  OwnInv'
<1> USE OwnTypes DEF slots, lsn, tmp, AdmGoto
<1>1. ASSUME UNCHANGED <<m_socket_wait, lpc, client_s, add_i, tpc, index, s_client>>,
             dev_sock' = None,
             owner' = [s \in Sock |-> IF s = dev_sock THEN "free" ELSE owner[s]]
      PROVE  OwnInv'
  <2>1. \A i \in Slots : m_socket_wait[i] # None /\ owner[m_socket_wait[i]] = "listen"
          => owner'[m_socket_wait[i]] = "listen"
    BY <1>1 DEF OwnInv, DevOwner
  <2>2. SlotOwner'
    <3>1. ASSUME NEW i \in Slots, m_socket_wait[i] # None
          PROVE  owner'[m_socket_wait[i]] = "listen" \/ \E u \in Tmp : HandedOver(u, i)'
      BY <1>1, <2>1, <3>1 DEF OwnInv, SlotOwner, HandedOver
    <3> QED
      BY <1>1, <3>1 DEF OwnInv, SlotOwner
  <2>3. DevOwner'
    BY <1>1 DEF OwnInv, DevOwner
  <2>4. AddOwner'
    <3>1. lpc = "add" => client_s # dev_sock /\ client_s \in Sock
      BY <2>1 DEF IInv, SafeInv, AddInv, OwnInv, AddOwner, DevOwner
    <3> QED
      BY <1>1, <3>1 DEF OwnInv, AddOwner, Adding
  <2>5. Kept'
    BY <1>1 DEF OwnInv, Kept
  <2> QED
    BY <2>2, <2>3, <2>4, <2>5 DEF OwnInv
<1>2. CASE DevDrop
  BY <1>1, <1>2 DEF DevDrop
<1>3. CASE UNCHANGED vars
  BY <1>3, SameOwn DEF vars, adm, socks
<1>4. ASSUME NEW a \in Admins, StartSvr(a) PROVE OwnInv'
  <2>1. lpc = "none" /\ lpc' = "start"
    BY <1>4, Zenon DEF StartSvr, IInv, SettledInv, EmptyInv
  <2>2. UNCHANGED <<m_socket_wait, owner, dev_sock, client_s, add_i, tpc, index, s_client, pc>>
    BY <1>4 DEF StartSvr, adm, socks
  <2> QED
    BY <2>1, <2>2, SameOwn DEF Adding
<1>5. ASSUME NEW a \in Admins, StopSvr(a) PROVE OwnInv'
  BY <1>1, <1>5 DEF StopSvr
<1>6. ASSUME NEW a \in Admins, StopSignal(a) \/ StopSkipSlot(a) \/ StopJoinTmp(a) \/ StopDone(a)
      PROVE  OwnInv'
  <2>1. UNCHANGED <<m_socket_wait, owner, dev_sock, client_s, add_i, tpc, index, s_client, lpc>>
    BY <1>6 DEF StopSignal, StopSkipSlot, StopJoinTmp, StopDone, socks
  <2>2. \A b \in Admins : pc[b] = "idle" => pc'[b] = "idle"
    BY <1>6 DEF StopSignal, StopSkipSlot, StopJoinTmp, StopDone
  <2> QED
    BY <2>1, <2>2, SameOwn
<1>7. ASSUME NEW a \in Admins, StopJoin(a) PROVE OwnInv'
  <2>1. /\ UNCHANGED <<m_socket_wait, owner, dev_sock, client_s, add_i, tpc, index, s_client>>
        /\ lpc = "exited" /\ lpc' = "none" /\ pc[a] = "join"
        /\ \A b \in Admins : pc[b] = "idle" => pc'[b] = "idle"
    BY <1>7 DEF StopJoin, socks
  <2> QED
    BY <2>1, SameOwn DEF Adding
<1>8. ASSUME NEW a \in Admins, StopDelSlot(a) PROVE OwnInv'
  <2>1. /\ del_i \in Slots /\ m_socket_wait[del_i] # None /\ pc[a] = "slots" /\ lpc = "none"
    BY <1>8, Bounds DEF StopDelSlot, Slots, IInv, BaseInv, TypeOK, SettledInv, StopInv
  <2>2. /\ m_socket_wait' = [m_socket_wait EXCEPT ![del_i] = None]
        /\ owner' = [owner EXCEPT ![m_socket_wait[del_i]] = "free"] /\ dev_sock' = dev_sock
        /\ UNCHANGED <<client_s, add_i, tpc, index, s_client, lpc>>
        /\ \A b \in Admins : pc[b] = "idle" => pc'[b] = "idle"
    BY <1>8 DEF StopDelSlot, Close
  <2>3. SlotOwner' /\ DevOwner' /\ Kept'
    BY <2>1, <2>2, FreeSlotOwn
  <2>4. AddOwner'
    BY <2>1, <2>2 DEF AddOwner, Adding
  <2> QED
    BY <2>3, <2>4 DEF OwnInv
<1> QED
  BY <1>2, <1>3, <1>4, <1>5, <1>6, <1>7, <1>8 DEF AdmStep

\* It holds in every reachable state no overtaken thread precedes.
LEMMA OwnInvariance ==
  ASSUME ~HandleReuse
  PROVE  Spec => [](overtaken \/ (IInv /\ OwnInv))
<1>1. Init => OwnInv
  BY Bounds DEF Init, OwnInv, SlotOwner, DevOwner, AddOwner, Adding, Kept
<1>2. IInv /\ OwnInv /\ [Next]_vars => OwnInv'
  BY LnOwn, TmpOwn, AdmOwn DEF Next
<1>3. ~overtaken' /\ [Next]_vars => ~overtaken
  BY OvertakenStays
<1> QED
  BY <1>1, <1>2, <1>3, Invariance, PTL DEF Spec

-----------------------------------------------------------------------------
(***************************************************************************)
(* What follows.                                                           *)
(***************************************************************************)

\* DevLogin is handed an open connection of the server that the device does
\* not have: what SockProc takes for granted of a login's connection.
HandsOverOpen ==
  ~overtaken => \A t \in Tmp : TmpLogin(t) =>
    s_client[t] \in Sock /\ owner[s_client[t]] = "listen" /\ s_client[t] # dev_sock

\* The server closes what is not its own at two places at most: when
\* AddTmpSocket has returned -1 (SockProcListen.cpp:347), and in DelTmpSocket.
\* The socket of a registered device is only hit at the first.
WrongCloseForACause ==
  ~overtaken =>
    /\ wrong' # wrong => LnRefuse \/ \E a \in Admins : StopDelSlot(a)
    /\ "dev" \in wrong' /\ "dev" \notin wrong => LnRefuse /\ client_s = dev_sock

\* No connection the server has accepted is lost, unless a thread was
\* overtaken: it is in a slot, or the listening thread is about to put it there
\* or to close it.
THEOREM NoConnectionLost ==
  ASSUME ~HandleReuse
  PROVE  Spec => []NothingLeaked
<1>1. overtaken \/ (IInv /\ OwnInv) => NothingLeaked
  BY DEF OwnInv, NothingLeaked
<1> QED
  BY <1>1, OwnInvariance, PTL

\* Every step of DevLogin gets an open connection that is new to the device,
\* unless a thread was overtaken.
THEOREM LoginGetsOpen ==
  ASSUME ~HandleReuse
  PROVE  Spec => [][HandsOverOpen]_vars
<1>1. overtaken \/ (IInv /\ OwnInv) => HandsOverOpen
  BY LoginOwn DEF HandsOverOpen
<1> QED
  BY <1>1, OwnInvariance, PTL

\* The socket of a registered device is closed by the server at one place
\* only, the end of AddTmpSocket: no temporary thread and no stopSvr does it,
\* unless a thread was overtaken.
THEOREM ClosedByRefusalOnly ==
  ASSUME ~HandleReuse
  PROVE  Spec => [][WrongCloseForACause]_vars
<1>1. (overtaken \/ (IInv /\ OwnInv)) /\ [Next]_vars => WrongCloseForACause
  <2> SUFFICES ASSUME IInv, OwnInv, [Next]_vars PROVE WrongCloseForACause
    BY DEF WrongCloseForACause
  <2> USE OwnTypes DEF slots, lsn, tmp, adm, socks
  <2>1. CASE LnAccept \/ LnFail \/ LnStart \/ LnExit \/ LnAddSlot \/ LnFull \/ LnCreate
             \/ LnCreateFails \/ LnRelock \/ LnCheckThread
    BY <2>1 DEF WrongCloseForACause, LnAccept, LnFail, LnEnd, LnStart, LnExit, LnAddSlot,
                LnFull, LnCreate, LnCreateFails, LnRelock, LnCheckThread
  <2>2. CASE LnNoThread
    <3>1. /\ add_i \in Slots /\ m_socket_wait[add_i] # None /\ m_thread_wait[add_i] = None
          /\ lpc = "sleep" /\ client_h = None /\ Close(m_socket_wait[add_i])
      BY <2>2 DEF LnNoThread, IInv, SafeInv, NewInv, Adding
    <3>2. ASSUME NEW t \in Tmp, HandedOver(t, add_i) PROVE FALSE
      <4>1. Holds(t) /\ At(t) = add_i
        BY <3>2 DEF HandedOver, IInv, SafeInv, HolderInv, Serving, At
      <4> QED
        BY <3>1, <4>1 DEF Holds
    <3>3. owner[m_socket_wait[add_i]] = "listen"
      BY <3>1, <3>2 DEF OwnInv, SlotOwner
    <3> QED
      BY <3>1, <3>3 DEF Close, WrongCloseForACause
  <2>3. CASE LnRefuse
    <3>1. client_s \in Sock /\ Close(client_s)
      BY <2>3 DEF LnRefuse, OwnInv, AddOwner
    <3> QED
      BY <2>3, <3>1 DEF Close, WrongCloseForACause, OwnInv, DevOwner
  <2>4. ASSUME NEW t \in Tmp, TmpStep(t) PROVE wrong' = wrong
    <3>1. CASE TmpClose(t)
      <4>1. /\ Min(SlotOf(s_client[t])) = index[t] /\ owner[s_client[t]] = "listen"
            /\ m_socket_wait[index[t]] = s_client[t]
        BY <3>1, CloseIsOwn
      <4>2. ThreadOf(index[t]) = t
        <5>1. Holds(t) /\ At(t) = index[t]
          BY <3>1, <4>1 DEF TmpClose, IInv, SafeInv, HolderInv, At, Conn
        <5>2. lpc \in {"relock", "sleep"} => m_thread_wait[add_i] = None
          BY DEF IInv, SafeInv, NewInv, Adding
        <5> QED
          BY <5>1, <5>2 DEF Holds, ThreadOf
      <4> QED
        BY <3>1, <4>1, <4>2 DEF TmpClose
    <3> QED
      BY <2>4, <3>1 DEF TmpStep, TmpStart, TmpLoop, TmpIdle, TmpError, TmpRegister, TmpLogin,
                        TmpLoginRefused, TmpRemove, TmpExit
  <2>5. ASSUME NEW a \in Admins, StopDelSlot(a) PROVE WrongCloseForACause
    <3>1. pc[a] = "slots" /\ Close(m_socket_wait[del_i])
      BY <2>5 DEF StopDelSlot
    <3>2. \A s \in Sock : owner[s] # "dev"
      BY <3>1 DEF OwnInv, DevOwner
    <3> QED
      BY <2>5, <3>1, <3>2 DEF Close, WrongCloseForACause
  <2>6. CASE DevDrop \/ UNCHANGED vars
    BY <2>6 DEF DevDrop, vars, WrongCloseForACause
  <2>7. ASSUME NEW a \in Admins,
               StartSvr(a) \/ StopSvr(a) \/ StopSignal(a) \/ StopJoin(a) \/ StopSkipSlot(a)
                 \/ StopJoinTmp(a) \/ StopDone(a)
        PROVE  wrong' = wrong
    BY <2>7 DEF StartSvr, StopSvr, StopSignal, StopJoin, StopSkipSlot, StopJoinTmp, StopDone
  <2> QED
    BY <2>1, <2>2, <2>3, <2>4, <2>5, <2>6, <2>7 DEF Next, LnStep, AdmStep, WrongCloseForACause
<1> QED
  BY <1>1, OwnInvariance, PTL DEF Spec
=============================================================================
