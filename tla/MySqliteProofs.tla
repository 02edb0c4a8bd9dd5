--------------------------- MODULE MySqliteProofs ---------------------------
(***************************************************************************)
(* Proofs of the invariants of MySqlite, of ResultOfLastIn, and of how the *)
(* turn is passed on.                                                      *)
(*                                                                         *)
(* Everything rests on WorksForItsCaller: one thread is at work at a time, *)
(* the one of the caller that entered last.  So whoever touches the handle *)
(* knows where in OpenDB or CloseDB the others are: nowhere.               *)
(***************************************************************************)
EXTENDS MySqlite, TLAPS

\* Between the two halves of OpenDB nothing is left that could be lost; a
\* thread that executes has a connection.
Handles ==
  /\ \A c \in Callers : thread[c] = "open" => open \subseteq refused
  /\ \A c \in Callers : thread[c] = "do" => db # 0

\* nResult tells of the caller that entered last, and of nobody before it.
TellsOfLastIn ==
  /\ ssTemp # None => (nResult = "error" <=> outcome[ssTemp] = "error")
  /\ \A c \in Callers : pc[c] \in {"called", "join", "astray"} => ssTemp # None
  /\ \A c \in Callers : thread[c] \in {"start", "open"} => outcome[c] = "ok"

IInv == TypeOK /\ WorksForItsCaller /\ Handles /\ LostOnlyIfRefused /\ TellsOfLastIn

\* The initial states are in the inductive invariant.
LEMMA InitIInv == Init => IInv
<1> SUFFICES ASSUME Init PROVE IInv
  OBVIOUS
<1>1. TypeOK
  <2>1. /\ m_hRead \in BOOLEAN /\ db \in 0 .. opened
        /\ sqlTemp \in Kinds /\ ssTemp \in Callers \cup {None}
        /\ nResult \in {"ok", "error"}
    BY DEF Init, Kinds
  <2>2. /\ pc \in [Callers -> {"idle", "wait", "called", "join", "stuck", "astray"}]
        /\ wants \in [Callers -> Kinds]
        /\ thread \in [Callers -> {"start", "open", "do", "setevent", "ended"}]
        /\ awaits \in [Callers -> Callers \cup {None}]
        /\ Attended
    BY DEF Init, Working, Attended, Kinds
  <2>3. /\ opened \in Nat /\ open \subseteq 1 .. opened
        /\ refused \subseteq 1 .. opened
    BY DEF Init
  <2>4. statement \in [Callers -> 0 .. opened]
    BY DEF Init
  <2>5. /\ result \in [Callers -> {"ok", "error"}]
        /\ outcome \in [Callers -> {"ok", "error", "noopen"}]
    BY DEF Init
  <2>6. calls \in 0 .. MaxCalls
    BY MySqliteAssumption DEF Init
  <2>7. misused \in BOOLEAN
    BY DEF Init
  <2> QED
    BY <2>1, <2>2, <2>3, <2>4, <2>5, <2>6, <2>7 DEF TypeOK
<1>2. WorksForItsCaller /\ Handles /\ LostOnlyIfRefused /\ TellsOfLastIn
  BY DEF Init, WorksForItsCaller, Handles, LostOnlyIfRefused, TellsOfLastIn, Working
<1> QED
  BY <1>1, <1>2 DEF IInv

\* CloseDB closes the connection of the handle unless a statement keeps SQLite
\* from it: a connection that is still open afterwards has been refused.
LEMMA CloseDBLeaves ==
  ASSUME TypeOK, LostOnlyIfRefused, CloseDB
  PROVE  /\ db' \in {0, db} /\ open' \subseteq open \cap refused'
         /\ refused' \subseteq 1 .. opened /\ misused' \in BOOLEAN
<1> USE DEF TypeOK
<1>1. CASE db = 0
  <2>1. UNCHANGED <<db, open, refused, misused>>
    BY <1>1 DEF CloseDB
  <2>2. open \subseteq refused
    BY <1>1 DEF LostOnlyIfRefused
  <2> QED
    BY <2>1, <2>2
<1>2. CASE db # 0
  <2>1. PICK returns \in {"ok", "failed"} :
          Sqlite3Close(returns) /\ db' = IF returns = "ok" THEN 0 ELSE db
    BY <1>2 DEF CloseDB
  <2>2. misused' \in BOOLEAN
    BY <2>1 DEF Sqlite3Close
  <2>3. refused' = IF Busy(db) THEN refused \cup {db} ELSE refused
    BY <2>1 DEF Sqlite3Close
  <2>4. refused' \subseteq 1 .. opened
    BY <1>2, <2>3
  <2>5. open' \subseteq open \cap refused'
    <3>1. CASE returns = "ok"
      BY <2>1, <2>3, <3>1 DEF Sqlite3Close, LostOnlyIfRefused
    <3>2. CASE returns = "failed"
      BY <2>1, <2>3, <3>2 DEF Sqlite3Close, LostOnlyIfRefused
    <3> QED
      BY <3>1, <3>2
  <2> QED
    BY <2>1, <2>2, <2>4, <2>5
<1> QED
  BY <1>1, <1>2

\* One thread is at work at a time.
LEMMA Alone ==
  ASSUME WorksForItsCaller, NEW c \in Callers, NEW d \in Callers,
         Working(c), Working(d)
  PROVE  c = d
  BY DEF WorksForItsCaller

-----------------------------------------------------------------------------
(***************************************************************************)
(* Every step preserves the inductive invariant.                           *)
(***************************************************************************)
\* A caller asks, and waits.
LEMMA CallPreserves ==
  ASSUME IInv, NEW c \in Callers, NEW kind \in Kinds, Call(c, kind)
  PROVE  IInv'
<1> USE DEF Call, Set, request, sqlite
<1>1. TypeOK'
  <2>1. calls' \in 0 .. MaxCalls
    BY MySqliteAssumption DEF IInv, TypeOK
  <2> QED
    BY <2>1 DEF IInv, TypeOK, Attended, Working
<1>2. WorksForItsCaller'
  BY DEF IInv, TypeOK, Attended, WorksForItsCaller, Working
<1>3. Handles' /\ LostOnlyIfRefused'
  BY DEF IInv, Handles, LostOnlyIfRefused
<1>4. TellsOfLastIn'
  BY DEF IInv, TypeOK, TellsOfLastIn
<1> QED
  BY <1>1, <1>2, <1>3, <1>4 DEF IInv

\* A caller is let in only when nobody is at work.
LEMMA EnterPreserves ==
  ASSUME IInv, NEW c \in Callers, Enter(c) \/ EnterFails(c)
  PROVE  IInv'
<1> USE DEF Enter, EnterFails, TakeTurn, Set, sqlite
<1>1. \A d \in Callers : ~Working(d) /\ awaits[d] = None
  BY DEF IInv, TypeOK, Attended, WorksForItsCaller
<1>2. TypeOK'
  <2>1. CASE Enter(c)
    <3>1. Attended'
      BY <1>1, <2>1 DEF IInv, TypeOK, Attended, Working
    <3>2. /\ pc' \in [Callers -> {"idle", "wait", "called", "join", "stuck", "astray"}]
          /\ thread' \in [Callers -> {"start", "open", "do", "setevent", "ended"}]
          /\ outcome' \in [Callers -> {"ok", "error", "noopen"}]
      BY <2>1 DEF IInv, TypeOK
    <3> QED
      BY <2>1, <3>1, <3>2 DEF IInv, TypeOK
  <2>2. CASE EnterFails(c)
    BY <1>1, <2>2 DEF IInv, TypeOK, Attended, Working
  <2> QED
    BY <2>1, <2>2
<1>3. WorksForItsCaller'
  BY <1>1 DEF IInv, TypeOK, Attended, WorksForItsCaller, Working
<1>4. Handles' /\ LostOnlyIfRefused'
  BY DEF IInv, TypeOK, Handles, LostOnlyIfRefused
<1>5. TellsOfLastIn'
  BY <1>1, MySqliteAssumption DEF IInv, TypeOK, Attended, TellsOfLastIn, Working
<1> QED
  BY <1>2, <1>3, <1>4, <1>5 DEF IInv

\* A caller waits for its own thread, or comes too late to.
LEMMA WaitPreserves ==
  ASSUME IInv, NEW c \in Callers, Wait(c)
  PROVE  IInv'
<1> USE DEF Wait, Set, sqlite, request
<1>1. TypeOK'
  <2>1. pc[c] = "called" /\ awaits[c] = None
    BY DEF IInv, TypeOK, Attended
  <2>2. CASE Working(c)
    BY <2>1, <2>2 DEF IInv, TypeOK, Attended, Working
  <2>3. CASE ~Working(c)
    BY <2>1, <2>3 DEF IInv, TypeOK, Attended, Working
  <2> QED
    BY <2>2, <2>3
<1>2. WorksForItsCaller'
  BY DEF IInv, WorksForItsCaller, Working
<1>3. Handles' /\ LostOnlyIfRefused'
  BY DEF IInv, Handles, LostOnlyIfRefused
<1>4. TellsOfLastIn'
  BY DEF IInv, TypeOK, TellsOfLastIn
<1> QED
  BY <1>1, <1>2, <1>3, <1>4 DEF IInv

\* A caller returns when its wait is over; its thread has ended long since.
LEMMA ReturnPreserves ==
  ASSUME IInv, NEW c \in Callers, Return(c)
  PROVE  IInv'
<1> USE DEF Return, Joined, Set, sqlite, request
<1>1. TypeOK'
  <2>1. ~Working(c) /\ awaits[c] = None
    BY MySqliteAssumption DEF IInv, TypeOK, Attended
  <2> QED
    BY <2>1 DEF IInv, TypeOK, Attended, Working
<1>2. WorksForItsCaller'
  BY DEF IInv, TypeOK, Attended, WorksForItsCaller, Working
<1>3. Handles' /\ LostOnlyIfRefused'
  BY DEF IInv, Handles, LostOnlyIfRefused
<1>4. TellsOfLastIn'
  BY DEF IInv, TypeOK, TellsOfLastIn
<1> QED
  BY <1>1, <1>2, <1>3, <1>4 DEF IInv

\* Finalizing a statement touches nothing the members are about.
LEMMA FinalizePreserves ==
  ASSUME IInv, NEW c \in Callers, Finalize(c)
  PROVE  IInv'
<1> USE DEF Finalize, Set, caller, request
<1>1. TypeOK'
  BY DEF IInv, TypeOK, Attended, Working
<1>2. WorksForItsCaller' /\ LostOnlyIfRefused' /\ TellsOfLastIn'
  BY DEF IInv, WorksForItsCaller, LostOnlyIfRefused, TellsOfLastIn, Working
<1>3. Handles'
  BY DEF IInv, TypeOK, Handles
<1> QED
  BY <1>1, <1>2, <1>3 DEF IInv

\* The conjuncts of TypeOK a thread can disturb by going on from one step to
\* the next.
LEMMA StillWaitedFor ==
  ASSUME TypeOK, NEW c \in Callers, Working(c), UNCHANGED <<pc, awaits>>,
         NEW label \in {"open", "do", "setevent"}, thread' = Set(thread, c, label)
  PROVE  /\ thread' \in [Callers -> {"start", "open", "do", "setevent", "ended"}]
         /\ Attended'
  BY DEF TypeOK, Attended, Working, Set

\* The thread closes what is left before it opens.
LEMMA StartPreserves ==
  ASSUME IInv, NEW c \in Callers, Start(c)
  PROVE  IInv'
<1> USE DEF Start, CloseBeforeOpen, caller, request
<1>1. /\ db' \in {0, db} /\ open' \subseteq open \cap refused'
      /\ refused' \subseteq 1 .. opened /\ misused' \in BOOLEAN
  BY CloseDBLeaves DEF IInv
<1>2. TypeOK'
  <2>1. Working(c) /\ thread' = Set(thread, c, "open") /\ UNCHANGED <<pc, awaits>>
    BY DEF Working
  <2> QED
    BY <1>1, <2>1, StillWaitedFor DEF IInv, TypeOK
<1> USE DEF Set
<1>3. WorksForItsCaller'
  BY DEF IInv, TypeOK, Attended, WorksForItsCaller, Working
<1>4. Handles'
  <2>1. \A d \in Callers : thread[d] # "ended" => d = c
    BY Alone DEF IInv, Working
  <2> QED
    BY <1>1, <2>1 DEF IInv, TypeOK, Handles
<1>5. LostOnlyIfRefused'
  BY <1>1 DEF LostOnlyIfRefused
<1>6. TellsOfLastIn'
  BY DEF IInv, TypeOK, Attended, TellsOfLastIn, WorksForItsCaller, Working
<1> QED
  BY <1>2, <1>3, <1>4, <1>5, <1>6 DEF IInv

\* The new connection is the one in the handle, all others were refused.
LEMMA OpenPreserves ==
  ASSUME IInv, NEW c \in Callers, Open(c) \/ OpenFails(c)
  PROVE  IInv'
<1> USE DEF Open, OpenFails, AfterOpenError, caller, request
<1>1. /\ opened' = opened + 1 /\ db' = opened + 1
      /\ open' = open \cup {opened + 1} /\ thread[c] = "open"
      /\ UNCHANGED <<m_hRead, request, nResult, caller, statement, refused, misused>>
  OBVIOUS
<1>2. PICK label \in {"do", "setevent"} : thread' = Set(thread, c, label)
  OBVIOUS
<1>3. PICK how \in {outcome[c], "noopen"} : outcome' = Set(outcome, c, how)
  <2>1. CASE Open(c)
    BY <2>1 DEF Set, IInv, TypeOK
  <2>2. CASE OpenFails(c)
    BY <2>2
  <2> QED
    BY <2>1, <2>2
<1>4. TypeOK'
  <2>1. /\ thread' \in [Callers -> {"start", "open", "do", "setevent", "ended"}]
        /\ Attended'
    BY <1>1, <1>2, StillWaitedFor DEF IInv, Working
  <2>2. /\ opened' \in Nat /\ db' \in 0 .. opened'
        /\ open' \subseteq 1 .. opened' /\ refused' \subseteq 1 .. opened'
        /\ statement' \in [Callers -> 0 .. opened']
    BY <1>1 DEF IInv, TypeOK
  <2>3. outcome' \in [Callers -> {"ok", "error", "noopen"}]
    BY <1>3 DEF IInv, TypeOK, Set
  <2> QED
    BY <1>1, <2>1, <2>2, <2>3 DEF IInv, TypeOK
<1> USE DEF Set
<1>5. WorksForItsCaller'
  BY <1>1, <1>2 DEF IInv, TypeOK, Attended, WorksForItsCaller, Working
<1>6. Handles'
  <2>1. \A d \in Callers : thread[d] # "ended" => d = c
    BY <1>1, Alone DEF IInv, Working
  <2>2. db' # 0
    BY <1>1 DEF IInv, TypeOK
  <2> QED
    BY <1>1, <1>2, <2>1, <2>2 DEF IInv, TypeOK, Handles
<1>7. LostOnlyIfRefused'
  BY <1>1 DEF IInv, Handles, LostOnlyIfRefused
<1>8. TellsOfLastIn'
  <2>1. ssTemp = c /\ outcome[c] = "ok" /\ nResult # "error"
    BY <1>1, MySqliteAssumption DEF IInv, TypeOK, Attended, WorksForItsCaller,
       Working, TellsOfLastIn
  <2>2. \A d \in Callers : d # c => outcome'[d] = outcome[d] /\ thread'[d] = thread[d]
    BY <1>2, <1>3 DEF IInv, TypeOK
  <2>3. outcome'[c] # "error" /\ thread'[c] \notin {"start", "open"}
    BY <1>2, <1>3, <2>1 DEF IInv, TypeOK
  <2> QED
    BY <1>1, <2>1, <2>2, <2>3 DEF IInv, TypeOK, TellsOfLastIn
<1> QED
  BY <1>4, <1>5, <1>6, <1>7, <1>8 DEF IInv

\* After a statement without an answer the database is closed.
LEMMA ExecutePreserves ==
  ASSUME IInv, NEW c \in Callers, Execute(c)
  PROVE  IInv'
<1> USE DEF Execute, caller, request
<1>1. /\ db' \in {0, db} /\ open' \subseteq open \cap refused'
      /\ refused' \subseteq 1 .. opened /\ misused' \in BOOLEAN
  BY CloseDBLeaves DEF IInv
<1>2. TypeOK'
  <2>1. Working(c) /\ thread' = Set(thread, c, "setevent") /\ UNCHANGED <<pc, awaits>>
    BY DEF Working
  <2> QED
    BY <1>1, <2>1, StillWaitedFor DEF IInv, TypeOK
<1> USE DEF Set
<1>3. WorksForItsCaller'
  BY DEF IInv, TypeOK, Attended, WorksForItsCaller, Working
<1>4. Handles'
  <2>1. \A d \in Callers : thread[d] # "ended" => d = c
    BY Alone DEF IInv, Working
  <2> QED
    BY <1>1, <2>1 DEF IInv, TypeOK, Handles
<1>5. LostOnlyIfRefused'
  BY <1>1 DEF LostOnlyIfRefused
<1>6. TellsOfLastIn'
  BY DEF IInv, TypeOK, TellsOfLastIn
<1> QED
  BY <1>2, <1>3, <1>4, <1>5, <1>6 DEF IInv

\* A failing statement closes the connection and keeps the handle.
LEMMA ExecuteFailsPreserves ==
  ASSUME IInv, NEW c \in Callers, ExecuteFails(c)
  PROVE  IInv'
<1> USE DEF ExecuteFails, ErrorCode, caller, request
<1>1. PICK returns \in {"ok", "failed"} : Sqlite3Close(returns)
  OBVIOUS
<1>2. /\ open' \subseteq open /\ misused' \in BOOLEAN
      /\ refused \subseteq refused' /\ refused' \subseteq 1 .. opened
  <2>1. db \in 1 .. opened
    BY DEF IInv, TypeOK, Handles
  <2> QED
    BY <1>1, <2>1 DEF Sqlite3Close, IInv, TypeOK
<1>3. TypeOK'
  <2>1. Working(c) /\ thread' = Set(thread, c, "setevent") /\ UNCHANGED <<pc, awaits>>
    BY DEF Working
  <2>2. outcome' \in [Callers -> {"ok", "error", "noopen"}]
    BY DEF IInv, TypeOK, Set
  <2> QED
    BY <1>2, <2>1, <2>2, StillWaitedFor DEF IInv, TypeOK
<1> USE DEF Set
<1>4. WorksForItsCaller'
  BY DEF IInv, TypeOK, Attended, WorksForItsCaller, Working
<1>5. Handles'
  BY <1>2 DEF IInv, TypeOK, Handles
<1>6. LostOnlyIfRefused'
  BY <1>2 DEF IInv, LostOnlyIfRefused
<1>7. TellsOfLastIn'
  BY DEF IInv, TypeOK, Attended, TellsOfLastIn, WorksForItsCaller, Working
<1> QED
  BY <1>3, <1>4, <1>5, <1>6, <1>7 DEF IInv

\* A query lends the connection to the caller whose pointer ssTemp is.
LEMMA PreparePreserves ==
  ASSUME IInv, NEW c \in Callers, Prepare(c)
  PROVE  IInv'
<1> USE DEF Prepare, caller, request
<1>1. TypeOK'
  <2>1. Working(c) /\ thread' = Set(thread, c, "setevent") /\ UNCHANGED <<pc, awaits>>
    BY DEF Working
  <2>2. statement' \in [Callers -> 0 .. opened]
    BY DEF IInv, TypeOK, Set
  <2> QED
    BY <2>1, <2>2, StillWaitedFor DEF IInv, TypeOK
<1> USE DEF Set
<1>2. WorksForItsCaller'
  BY DEF IInv, TypeOK, Attended, WorksForItsCaller, Working
<1>3. Handles' /\ LostOnlyIfRefused'
  BY DEF IInv, TypeOK, Handles, LostOnlyIfRefused
<1>4. TellsOfLastIn'
  BY DEF IInv, TypeOK, TellsOfLastIn
<1> QED
  BY <1>1, <1>2, <1>3, <1>4 DEF IInv

\* The thread raises the event as the last thing it does.
LEMMA LetNextInPreserves ==
  ASSUME IInv, NEW c \in Callers, LetNextIn(c)
  PROVE  IInv'
<1> USE DEF LetNextIn, Set, caller, request, sqlite
<1>1. \A d \in Callers : (thread[d] # "ended" => d = c) /\ awaits[d] \in {c, None}
  BY Alone DEF IInv, TypeOK, Attended, Working
<1>2. \A d \in Callers : thread'[d] = "ended" /\ awaits'[d] = None
  BY <1>1 DEF IInv, TypeOK
<1>3. TypeOK'
  <2>1. /\ thread' \in [Callers -> {"start", "open", "do", "setevent", "ended"}]
        /\ awaits' \in [Callers -> Callers \cup {None}]
    BY DEF IInv, TypeOK
  <2> QED
    BY <1>2, <2>1 DEF IInv, TypeOK, Attended, Working
<1>4. WorksForItsCaller'
  BY <1>2 DEF WorksForItsCaller, Working
<1>5. Handles' /\ LostOnlyIfRefused'
  BY <1>2 DEF IInv, Handles, LostOnlyIfRefused
<1>6. TellsOfLastIn'
  BY <1>2 DEF IInv, TellsOfLastIn
<1> QED
  BY <1>3, <1>4, <1>5, <1>6 DEF IInv

\* The inductive step.
LEMMA NextIInv == IInv /\ [Next]_vars => IInv'
<1> SUFFICES ASSUME IInv, [Next]_vars PROVE IInv'
  OBVIOUS
<1>1. ASSUME NEW c \in Callers, NEW kind \in Kinds, Call(c, kind) PROVE IInv'
  BY <1>1, CallPreserves
<1>2. ASSUME NEW c \in Callers, Enter(c) \/ EnterFails(c) PROVE IInv'
  BY <1>2, EnterPreserves
<1>3. ASSUME NEW c \in Callers, Wait(c) \/ Return(c) PROVE IInv'
  BY <1>3, WaitPreserves, ReturnPreserves
<1>4. ASSUME NEW c \in Callers, Finalize(c) PROVE IInv'
  BY <1>4, FinalizePreserves
<1>5. ASSUME NEW c \in Callers, ThreadStep(c) PROVE IInv'
  BY <1>5, StartPreserves, OpenPreserves, ExecutePreserves,
     ExecuteFailsPreserves, PreparePreserves, LetNextInPreserves DEF ThreadStep
<1>6. CASE UNCHANGED vars
  BY <1>6 DEF IInv, TypeOK, Attended, WorksForItsCaller, Handles, LostOnlyIfRefused,
     TellsOfLastIn, Working, vars, request, caller, sqlite
<1> QED
  BY <1>1, <1>2, <1>3, <1>4, <1>5, <1>6 DEF Next

-----------------------------------------------------------------------------
(***************************************************************************)
(* The theorems.                                                           *)
(***************************************************************************)
\* The inductive invariant holds in every reachable state.
LEMMA AlwaysIInv == Spec => []IInv
  BY InitIInv, NextIInv, PTL DEF Spec

\* Variables keep their types, and a thread works only while its caller waits.
THEOREM TypeCorrect == Spec => []TypeOK
<1>1. IInv => TypeOK
  BY DEF IInv
<1> QED
  BY <1>1, AlwaysIInv, PTL

\* However many callers there are, the members that carry a request are those
\* of the caller whose thread is at work.
THEOREM Exclusive == Spec => []WorksForItsCaller
<1>1. IInv => WorksForItsCaller
  BY DEF IInv
<1> QED
  BY <1>1, AlwaysIInv, PTL

\* No connection is lost but those SQLite refused to close because of a
\* statement nobody had finalized in time.
THEOREM NoLeak == Spec => []LostOnlyIfRefused
<1>1. IInv => LostOnlyIfRefused
  BY DEF IInv
<1> QED
  BY <1>1, AlwaysIInv, PTL

\* Only Return takes a caller from its wait to idle, with nResult as it is
\* then, and that tells of the caller that entered last.
LEMMA ReturnsLast ==
  ASSUME IInv, [Next]_vars, NEW c \in Callers,
         pc[c] \in {"join", "astray"}, pc'[c] = "idle"
  PROVE  result'[c] = "error" <=> outcome[ssTemp] = "error"
<1> USE DEF Set
<1>t. TypeOK /\ TellsOfLastIn
  BY DEF IInv
<1>1. ASSUME NEW d \in Callers, NEW kind \in Kinds, Call(d, kind) PROVE FALSE
  BY <1>t, <1>1 DEF Call, TypeOK
<1>2. ASSUME NEW d \in Callers, Enter(d) \/ EnterFails(d) \/ Wait(d) PROVE FALSE
  BY <1>t, <1>2 DEF Enter, EnterFails, Wait, TypeOK
<1>3. ASSUME NEW d \in Callers, Return(d)
      PROVE  result'[c] = "error" <=> outcome[ssTemp] = "error"
  <2>1. d = c
    BY <1>t, <1>3 DEF Return, TypeOK
  <2>2. result'[c] = nResult
    BY <1>t, <1>3, <2>1 DEF Return, TypeOK
  <2> QED
    BY <1>t, <2>2 DEF TellsOfLastIn
<1>4. ASSUME NEW d \in Callers, Finalize(d) PROVE FALSE
  BY <1>4 DEF Finalize, caller
<1>5. ASSUME NEW d \in Callers, ThreadStep(d) PROVE FALSE
  BY <1>5 DEF ThreadStep, Start, Open, OpenFails, Execute, ExecuteFails,
     Prepare, LetNextIn, caller
<1>6. CASE UNCHANGED vars
  BY <1>6 DEF vars, caller
<1> QED
  BY <1>1, <1>2, <1>3, <1>4, <1>5, <1>6 DEF Next

\* Whatever it waited for and however late it returns, a caller is told how
\* the statement of the caller that entered last went; that is its own unless
\* another has entered meanwhile.
THEOREM Told == Spec => ResultOfLastIn
<1>1. IInv /\ [Next]_vars
        => [\A c \in Callers :
              pc[c] \in {"join", "astray"} /\ pc'[c] = "idle"
                => (result'[c] = "error" <=> outcome[ssTemp] = "error")]_vars
  BY ReturnsLast
<1> QED
  BY <1>1, AlwaysIInv, PTL DEF Spec, ResultOfLastIn

-----------------------------------------------------------------------------
(***************************************************************************)
(* The turn: what ExecuteReturns rests on.                                 *)
(***************************************************************************)
\* c has consumed m_hRead and its thread has not raised it again; a caller
\* whose thread could not be started is stuck with it.
HasTurn(c) == Working(c) \/ pc[c] = "stuck"

\* The turn is never lost and never doubled: m_hRead is raised when nobody
\* has it, and otherwise exactly one caller has, whatever SQLite did to the
\* statements before.
OneTurn ==
  /\ m_hRead <=> \A c \in Callers : ~HasTurn(c)
  /\ \A c, d \in Callers : HasTurn(c) /\ HasTurn(d) => c = d

\* How many steps a thread has before it until it raises m_hRead.
TurnLeft(c) ==
  CASE thread[c] = "start" -> 4
    [] thread[c] = "open" -> 3
    [] thread[c] = "do" -> 2
    [] thread[c] = "setevent" -> 1
    [] OTHER -> 0

\* Every step of a thread brings it nearer to raising m_hRead, with an error
\* in SQLite as without one.
TurnNearer == \A c \in Callers : ThreadStep(c) => TurnLeft(c)' < TurnLeft(c)

\* One thread that cannot be started stops the database for good.
NobodyAfterStuck ==
  \A c \in Callers : pc[c] = "stuck" =>
    pc'[c] = "stuck" /\ \A d \in Callers : thread[d] = "ended" /\ thread'[d] = "ended"

\* Callers take the turn from m_hRead, threads give it back.
LEMMA TurnNext == IInv /\ OneTurn /\ [Next]_vars => OneTurn'
<1> SUFFICES ASSUME IInv, OneTurn, [Next]_vars PROVE OneTurn'
  OBVIOUS
<1> USE DEF Set
<1>1. /\ pc \in [Callers -> {"idle", "wait", "called", "join", "stuck", "astray"}]
      /\ thread \in [Callers -> {"start", "open", "do", "setevent", "ended"}]
  BY DEF IInv, TypeOK
<1>2. ASSUME NEW c \in Callers, NEW kind \in Kinds, Call(c, kind) PROVE OneTurn'
  <2>1. m_hRead' = m_hRead /\ \A d \in Callers : HasTurn(d)' <=> HasTurn(d)
    BY <1>1, <1>2 DEF Call, HasTurn, Working
  <2> QED
    BY <2>1 DEF OneTurn
<1>3. ASSUME NEW c \in Callers, Enter(c) \/ EnterFails(c) PROVE OneTurn'
  <2>1. \A d \in Callers : ~HasTurn(d)
    BY <1>3 DEF OneTurn, Enter, EnterFails
  <2>2. ~m_hRead' /\ \A d \in Callers : HasTurn(d)' <=> d = c
    BY <1>1, <1>3, <2>1 DEF Enter, EnterFails, TakeTurn, HasTurn, Working
  <2> QED
    BY <2>2 DEF OneTurn
<1>4. ASSUME NEW c \in Callers, Wait(c) \/ Return(c) \/ Finalize(c) PROVE OneTurn'
  <2>1. m_hRead' = m_hRead /\ \A d \in Callers : HasTurn(d)' <=> HasTurn(d)
    BY <1>1, <1>4 DEF Wait, Return, Finalize, HasTurn, Working, caller
  <2> QED
    BY <2>1 DEF OneTurn
<1>5. ASSUME NEW c \in Callers, LetNextIn(c) PROVE OneTurn'
  <2>1. HasTurn(c) /\ pc[c] \in {"called", "join"}
    BY <1>5 DEF LetNextIn, HasTurn, Working, IInv, TypeOK, Attended
  <2>2. m_hRead' /\ \A d \in Callers : ~HasTurn(d)'
    BY <1>1, <1>5, <2>1 DEF OneTurn, LetNextIn, HasTurn, Working, caller
  <2> QED
    BY <2>2 DEF OneTurn
<1>6. ASSUME NEW c \in Callers, ThreadStep(c), ~LetNextIn(c) PROVE OneTurn'
  <2>1. /\ UNCHANGED <<m_hRead, pc>> /\ thread[c] # "ended"
        /\ \E label \in {"open", "do", "setevent"} : thread' = [thread EXCEPT ![c] = label]
    BY <1>6 DEF ThreadStep, Start, Open, OpenFails, Execute, ExecuteFails, Prepare,
                AfterOpenError, caller
  <2>2. \A d \in Callers : HasTurn(d)' <=> HasTurn(d)
    BY <1>1, <2>1 DEF HasTurn, Working
  <2> QED
    BY <2>1, <2>2 DEF OneTurn
<1>7. CASE UNCHANGED vars
  BY <1>7 DEF OneTurn, HasTurn, Working, vars, caller
<1> QED
  BY <1>2, <1>3, <1>4, <1>5, <1>6, <1>7 DEF Next

\* There is always exactly one who may let the next caller in.
THEOREM TurnKept == Spec => []OneTurn
<1>1. Init => OneTurn
  BY DEF Init, OneTurn, HasTurn, Working
<1> QED
  BY <1>1, TurnNext, AlwaysIInv, PTL DEF Spec

\* A thread raises m_hRead after at most four steps of its own: the safety
\* content of ExecuteReturns.
THEOREM TurnGivenBack == Spec => [][TurnNearer]_vars
<1>1. IInv => TurnNearer
  <2> SUFFICES ASSUME IInv, NEW c \in Callers, ThreadStep(c)
               PROVE  TurnLeft(c)' < TurnLeft(c)
    BY DEF TurnNearer
  <2> USE DEF Set
  <2>1. thread \in [Callers -> {"start", "open", "do", "setevent", "ended"}]
    BY DEF IInv, TypeOK
  <2>2. CASE Start(c) \/ Open(c) \/ OpenFails(c)
    BY <2>1, <2>2 DEF TurnLeft, Start, Open, OpenFails, AfterOpenError
  <2>3. CASE Execute(c) \/ ExecuteFails(c) \/ Prepare(c) \/ LetNextIn(c)
    BY <2>1, <2>3 DEF TurnLeft, Execute, ExecuteFails, Prepare, LetNextIn
  <2> QED
    BY <2>2, <2>3 DEF ThreadStep
<1> QED
  BY <1>1, AlwaysIInv, PTL

\* The exception of ExecuteReturns is needed: after one _beginthread that
\* failed nobody ever executes a statement again.
THEOREM StuckForGood == Spec => [][NobodyAfterStuck]_vars
<1>1. IInv /\ OneTurn /\ [Next]_vars => NobodyAfterStuck
  <2> SUFFICES ASSUME IInv, OneTurn, [Next]_vars, NEW c \in Callers, pc[c] = "stuck"
               PROVE  /\ pc'[c] = "stuck"
                      /\ \A d \in Callers : thread[d] = "ended" /\ thread'[d] = "ended"
    BY DEF NobodyAfterStuck
  <2> USE DEF Set
  <2>1. /\ pc \in [Callers -> {"idle", "wait", "called", "join", "stuck", "astray"}]
        /\ thread \in [Callers -> {"start", "open", "do", "setevent", "ended"}]
        /\ \A d \in Callers : Working(d) => pc[d] \in {"called", "join"}
    BY DEF IInv, TypeOK, Attended
  <2>2. ~m_hRead /\ \A d \in Callers : thread[d] = "ended"
    BY <2>1 DEF OneTurn, HasTurn, Working
  <2>3. ASSUME NEW d \in Callers, NEW kind \in Kinds, Call(d, kind)
        PROVE  thread' = thread /\ pc'[c] = "stuck"
    BY <2>1, <2>3 DEF Call
  <2>4. ASSUME NEW d \in Callers, Wait(d) \/ Return(d) \/ Finalize(d)
        PROVE  thread' = thread /\ pc'[c] = "stuck"
    BY <2>1, <2>4 DEF Wait, Return, Finalize, caller
  <2>5. ASSUME NEW d \in Callers PROVE ~Enter(d) /\ ~EnterFails(d) /\ ~ThreadStep(d)
    BY <2>2 DEF Enter, EnterFails, ThreadStep, Start, Open, OpenFails, Execute,
                ExecuteFails, Prepare, LetNextIn
  <2>6. ASSUME UNCHANGED vars PROVE thread' = thread /\ pc'[c] = "stuck"
    BY <2>6 DEF vars, caller
  <2>7. thread' = thread /\ pc'[c] = "stuck"
    BY <2>3, <2>4, <2>5, <2>6 DEF Next
  <2> QED
    BY <2>2, <2>7
<1> QED
  BY <1>1, TurnKept, AlwaysIInv, PTL DEF Spec

-----------------------------------------------------------------------------
(***************************************************************************)
(* How a connection comes to be closed twice.                              *)
(***************************************************************************)
\* A thread that executes has an open connection, and one that opens has
\* either no closed one in the handle or has just closed it again.
CloseInv ==
  /\ \A c \in Callers : thread[c] = "do" => db \in open
  /\ \A c \in Callers : thread[c] = "open" /\ Dangling => misused

\* What ClosedTwiceForACause says of a step.
ForACause ==
  /\ ~Dangling /\ Dangling' => \E c \in Callers : ExecuteFails(c)
  /\ Dangling => Dangling' \/ misused'
  /\ misused' # misused => Dangling /\ \E c \in Callers : Start(c)

\* What CloseDB does to the handle, to what is open, and by mistake.
LEMMA CloseDBFacts ==
  ASSUME TypeOK, CloseDB
  PROVE  /\ Dangling' => Dangling /\ db' = db
         /\ misused' = (misused \/ Dangling)
<1>1. CASE db = 0
  BY <1>1 DEF CloseDB, Dangling, TypeOK
<1>2. CASE db # 0
  <2>1. PICK returns \in {"ok", "failed"} :
          Sqlite3Close(returns) /\ db' = IF returns = "ok" THEN 0 ELSE db
    BY <1>2 DEF CloseDB
  <2>2. misused' = (misused \/ Dangling)
    BY <1>2, <2>1 DEF Sqlite3Close, Dangling, TypeOK
  <2>3. Dangling' => Dangling /\ db' = db
    BY <1>2, <2>1 DEF Sqlite3Close, Dangling
  <2> QED
    BY <2>2, <2>3
<1> QED
  BY <1>1, <1>2

\* What one step does.
LEMMA CloseNext ==
  ASSUME IInv, CloseInv, [Next]_vars
  PROVE  CloseInv' /\ ForACause
<1> USE DEF Set
<1>1. /\ thread \in [Callers -> {"start", "open", "do", "setevent", "ended"}]
      /\ misused \in BOOLEAN /\ open \subseteq 1 .. opened /\ opened \in Nat
      /\ db \in 0 .. opened
  BY DEF IInv, TypeOK
<1>2. ASSUME NEW c \in Callers, thread[c] # "ended"
      PROVE  \A d \in Callers : d # c => thread[d] = "ended"
  BY <1>2, Alone DEF IInv, Working
<1>3. ASSUME UNCHANGED <<db, open, misused>>,
             \A c \in Callers : thread'[c] \in {"open", "do"} => thread[c] = thread'[c]
      PROVE  CloseInv' /\ ForACause
  BY <1>3 DEF CloseInv, ForACause, Dangling
<1>4. ASSUME NEW c \in Callers,
             (\E kind \in Kinds : Call(c, kind)) \/ Enter(c) \/ EnterFails(c) \/ Wait(c)
               \/ Return(c) \/ Finalize(c) \/ Prepare(c) \/ LetNextIn(c)
      PROVE  CloseInv' /\ ForACause
  <2>1. UNCHANGED <<db, open, misused>>
    BY <1>4 DEF Call, Enter, EnterFails, Wait, Return, Finalize, Prepare, LetNextIn, sqlite
  <2>2. \A d \in Callers : thread'[d] \in {"open", "do"} => thread[d] = thread'[d]
    BY <1>1, <1>4 DEF Call, Enter, EnterFails, Wait, Return, Finalize, Prepare, LetNextIn
  <2> QED
    BY <1>3, <2>1, <2>2
<1>5. ASSUME NEW c \in Callers, Start(c) PROVE CloseInv' /\ ForACause
  <2>1. /\ thread[c] = "start" /\ thread' = [thread EXCEPT ![c] = "open"] /\ CloseDB
    BY <1>5 DEF Start, CloseBeforeOpen
  <2>2. /\ Dangling' => Dangling /\ db' = db
        /\ misused' = (misused \/ Dangling)
    BY <2>1, CloseDBFacts DEF IInv
  <2>3. CloseInv'
    <3>1. \A d \in Callers : thread'[d] # "do"
      BY <1>1, <1>2, <2>1
    <3>2. Dangling' => misused'
      BY <2>2
    <3> QED
      BY <3>1, <3>2 DEF CloseInv
  <2>4. ForACause
    <3>1. misused' # misused => Dangling
      BY <1>1, <2>2
    <3>2. Dangling => misused'
      BY <2>2
    <3> QED
      BY <1>5, <2>2, <3>1, <3>2 DEF ForACause
  <2> QED
    BY <2>3, <2>4
<1>6. ASSUME NEW c \in Callers, Open(c) \/ OpenFails(c)
      PROVE  CloseInv' /\ ForACause
  <2>1. /\ thread[c] = "open" /\ db' = opened + 1 /\ open' = open \cup {opened + 1}
        /\ misused' = misused
        /\ \A d \in Callers : d # c => thread'[d] = thread[d]
        /\ thread'[c] \in {"do", "setevent"}
    BY <1>1, <1>6 DEF Open, OpenFails, AfterOpenError
  <2>2. ~Dangling' /\ db' \in open'
    BY <2>1 DEF Dangling
  <2>3. Dangling => misused'
    BY <2>1 DEF CloseInv
  <2> QED
    BY <2>1, <2>2, <2>3 DEF CloseInv, ForACause
<1>7. ASSUME NEW c \in Callers, Execute(c) PROVE CloseInv' /\ ForACause
  <2>1. thread[c] = "do" /\ thread' = [thread EXCEPT ![c] = "setevent"] /\ CloseDB
    BY <1>7 DEF Execute
  <2>2. ~Dangling
    BY <2>1 DEF CloseInv, Dangling
  <2>3. ~Dangling' /\ misused' = misused
    BY <1>1, <2>1, <2>2, CloseDBFacts DEF IInv
  <2>4. \A d \in Callers : thread'[d] \notin {"open", "do"}
    BY <1>1, <1>2, <2>1
  <2> QED
    BY <2>2, <2>3, <2>4 DEF CloseInv, ForACause
<1>8. ASSUME NEW c \in Callers, ExecuteFails(c) PROVE CloseInv' /\ ForACause
  <2>1. thread[c] = "do" /\ thread' = [thread EXCEPT ![c] = "setevent"]
    BY <1>8 DEF ExecuteFails
  <2>2. ~Dangling /\ misused' = misused
    BY <1>1, <1>8, <2>1 DEF CloseInv, Dangling, ExecuteFails, Sqlite3Close
  <2>3. \A d \in Callers : thread'[d] \notin {"open", "do"}
    BY <1>1, <1>2, <2>1
  <2> QED
    BY <1>8, <2>2, <2>3 DEF CloseInv, ForACause
<1>9. CASE UNCHANGED vars
  BY <1>3, <1>9 DEF vars, sqlite
<1> QED
  BY <1>4, <1>5, <1>6, <1>7, <1>8, <1>9 DEF Next, ThreadStep

\* It holds in every reachable state.
LEMMA AlwaysCloseInv == Spec => [](IInv /\ CloseInv)
<1>1. Init => CloseInv
  BY DEF Init, CloseInv
<1>2. IInv /\ CloseInv /\ [Next]_vars => CloseInv'
  BY CloseNext
<1> QED
  BY <1>1, <1>2, AlwaysIInv, PTL DEF Spec

\* Every double close is that of a connection a failed statement left in the
\* handle, and every connection left there will be closed twice if it leaves
\* the handle at all.
THEOREM ClosedTwice == Spec => ClosedTwiceForACause
<1>1. IInv /\ CloseInv /\ [Next]_vars
        => [/\ ~Dangling /\ Dangling' => \E c \in Callers : ExecuteFails(c)
            /\ Dangling => Dangling' \/ misused'
            /\ misused' # misused => Dangling /\ \E c \in Callers : Start(c)]_vars
  BY CloseNext DEF ForACause
<1> QED
  BY <1>1, AlwaysCloseInv, PTL DEF Spec, ClosedTwiceForACause

\* Nothing else is wrong with how connections are closed: in a behaviour in
\* which no statement fails, whatever opens and prepares do, none is closed
\* twice.
THEOREM NoFailureNoDoubleClose ==
  Spec /\ [][\A c \in Callers : ~ExecuteFails(c)]_vars => []NoDoubleClose
<1> DEFINE Clean == ~Dangling /\ ~misused
<1>1. Init => Clean
  BY DEF Init, Dangling
<1>2. IInv /\ CloseInv /\ [Next]_vars /\ [\A c \in Callers : ~ExecuteFails(c)]_vars /\ Clean
        => Clean'
  <2> SUFFICES ASSUME IInv, CloseInv, [Next]_vars, ~Dangling, ~misused,
                      (\A c \in Callers : ~ExecuteFails(c)) \/ UNCHANGED vars
               PROVE  ~Dangling' /\ ~misused'
    OBVIOUS
  <2>1. ForACause
    BY CloseNext
  <2>2. CASE UNCHANGED vars
    BY <2>2 DEF vars, sqlite, Dangling
  <2>3. CASE \A c \in Callers : ~ExecuteFails(c)
    BY <2>1, <2>3 DEF ForACause
  <2> QED
    BY <2>2, <2>3
<1>3. Clean => NoDoubleClose
  BY DEF NoDoubleClose
<1> QED
  BY <1>1, <1>2, <1>3, AlwaysCloseInv, PTL DEF Spec
=============================================================================
