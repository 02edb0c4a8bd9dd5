------------------------------ MODULE MySqlite ------------------------------
(***************************************************************************)
(* CMySqlite: statements executed one at a time by a thread of their own.  *)
(*                                                                         *)
(* A caller of ExecuteSQL waits for the auto-reset event m_hRead, leaves   *)
(* its request in the members sqlTemp and ssTemp, starts a thread and      *)
(* waits for it to end; the thread opens the database, executes, closes    *)
(* it, and raises m_hRead for the next caller.  A query leaves the         *)
(* database open and hands a statement to the caller, who finalizes it.    *)
(* m_lock_rw is only ever taken by the one thread at work and is left out. *)
(*                                                                         *)
(* The handle _beginthread returns belongs to the thread, and the runtime  *)
(* closes it when the thread ends: a caller that comes to wait later waits *)
(* on nothing, or on whatever has the same handle by then.                 *)
(*                                                                         *)
(* Of SQLite, connections are numbered in the order they are opened and 0  *)
(* is NULL; sqlite3_close refuses a connection with statements.            *)
(***************************************************************************)
EXTENDS Naturals, FiniteSets

CONSTANTS
  Callers,    \* threads that call ExecuteSQL
  MaxCalls,   \* bound: calls of ExecuteSQL
  None        \* no caller

ASSUME MySqliteAssumption == MaxCalls \in Nat /\ None \notin Callers

VARIABLES
  m_hRead, db, sqlTemp, ssTemp, nResult,   \* members; ssTemp is the caller
                                           \* whose pointer it is
  pc, wants,       \* the callers: position, kind of the statement
  awaits,          \* awaits[c]: caller whose thread the handle c waits on is
  thread,          \* thread[c]: position of the thread c started last
  opened, open,    \* number of connections opened so far; the open ones
  statement,       \* statement[c]: connection of a statement c holds, or 0
  result,          \* result[c]: what ExecuteSQL last returned to c
  calls,           \* counter for the bound
  outcome,         \* history: how the statement of c really went
  refused,         \* history: connections SQLite refused to close, since a
                   \* statement was not finalized
  misused          \* history: a closed connection was closed again

request == <<sqlTemp, ssTemp>>
sqlite  == <<opened, open, statement, refused, misused>>
caller  == <<pc, wants, awaits, result, calls>>
vars    == <<m_hRead, db, request, nResult, caller, thread, sqlite, outcome>>

\* sql and stat both NULL; only stat NULL; both given.
Kinds == {"check", "exec", "query"}

\* CHCJDlg has opened and closed the database once, to set its name.
Init ==
  /\ m_hRead = TRUE /\ db = 0 /\ nResult = "ok"
  /\ sqlTemp = "check" /\ ssTemp = None
  /\ pc = [c \in Callers |-> "idle"] /\ wants = [c \in Callers |-> "check"]
  /\ awaits = [c \in Callers |-> None]
  /\ thread = [c \in Callers |-> "ended"]
  /\ opened = 0 /\ open = {} /\ statement = [c \in Callers |-> 0]
  /\ result = [c \in Callers |-> "ok"] /\ calls = 0
  /\ outcome = [c \in Callers |-> "ok"] /\ refused = {} /\ misused = FALSE

Set(f, c, v) == [f EXCEPT ![c] = v]

-----------------------------------------------------------------------------
(***************************************************************************)
(* SQLite, as the code uses it.                                            *)
(***************************************************************************)
Busy(n) == \E c \in Callers : statement[c] = n

\* sqlite3_close(db) with db # NULL, and what it returns.  The outcome for a
\* connection that is closed already is undefined.
Sqlite3Close(returns) ==
  /\ returns = "ok" => ~Busy(db)
  /\ returns = "failed" => Busy(db) \/ db \notin open
  /\ open' = IF returns = "ok" THEN open \ {db} ELSE open
  /\ refused' = IF Busy(db) THEN refused \cup {db} ELSE refused
  /\ misused' = (misused \/ db \notin open)

\* CloseDB: the handle is forgotten if SQLite has closed the connection.
CloseDBKeeps ==
  IF db = 0 THEN UNCHANGED <<db, open, refused, misused>>
  ELSE UNCHANGED db /\ \E returns \in {"ok", "failed"} : Sqlite3Close(returns)

CloseDB ==
  IF db = 0 THEN UNCHANGED <<db, open, refused, misused>>
  ELSE \E returns \in {"ok", "failed"} :
         /\ Sqlite3Close(returns)
         /\ db' = IF returns = "ok" THEN 0 ELSE db

-----------------------------------------------------------------------------
(***************************************************************************)
(* ExecuteSQL.                                                             *)
(***************************************************************************)
\* A caller has finalized its statement before it asks for another.
Call(c, kind) ==
  /\ pc[c] = "idle" /\ calls < MaxCalls
  /\ kind = "query" => statement[c] = 0
  /\ pc' = Set(pc, c, "wait") /\ wants' = Set(wants, c, kind)
  /\ calls' = calls + 1
  /\ UNCHANGED <<m_hRead, db, request, nResult, awaits, thread, sqlite, result,
                 outcome>>

\* The wait for m_hRead consumes the event.
TakeTurnKept == UNCHANGED m_hRead
TakeTurn == m_hRead' = FALSE

Enter(c) ==
  /\ pc[c] = "wait" /\ m_hRead
  /\ TakeTurn
  /\ nResult' = "ok" /\ sqlTemp' = wants[c] /\ ssTemp' = c
  /\ outcome' = Set(outcome, c, "ok")
  /\ pc' = Set(pc, c, "called") /\ thread' = Set(thread, c, "start")
  /\ UNCHANGED <<db, wants, awaits, sqlite, result, calls>>

\* _beginthread fails; the handle -1 it returns is the process itself, and
\* waiting for that never ends.
EnterFails(c) ==
  /\ pc[c] = "wait" /\ m_hRead
  /\ TakeTurn
  /\ nResult' = "ok" /\ sqlTemp' = wants[c] /\ ssTemp' = c
  /\ outcome' = Set(outcome, c, "ok")
  /\ pc' = Set(pc, c, "stuck")
  /\ UNCHANGED <<db, wants, awaits, thread, sqlite, result, calls>>

\* WaitForSingleObject on the handle of the thread.  Once the thread has ended
\* the handle is invalid and the wait fails at once, or it is that of the
\* thread another caller has started since, or of anything else.
Wait(c) ==
  /\ pc[c] = "called"
  /\ IF thread[c] # "ended"
     THEN pc' = Set(pc, c, "join") /\ awaits' = Set(awaits, c, c)
     ELSE \/ pc' = Set(pc, c, "join") /\ UNCHANGED awaits
          \/ \E d \in Callers : /\ thread[d] # "ended"
                               /\ pc' = Set(pc, c, "join")
                               /\ awaits' = Set(awaits, c, d)
          \/ pc' = Set(pc, c, "astray") /\ UNCHANGED awaits
  /\ UNCHANGED <<m_hRead, db, request, nResult, wants, thread, sqlite, result,
                 calls, outcome>>

Joined(c) == awaits[c] = None

\* By now another caller may have entered.  When a wait that went astray ends,
\* nobody can tell.
Return(c) ==
  /\ (pc[c] = "join" /\ Joined(c)) \/ pc[c] = "astray"
  /\ result' = Set(result, c, nResult)
  /\ pc' = Set(pc, c, "idle")
  /\ UNCHANGED <<m_hRead, db, request, nResult, wants, awaits, thread, sqlite,
                 calls, outcome>>

Finalize(c) ==
  /\ pc[c] = "idle" /\ statement[c] # 0
  /\ statement' = Set(statement, c, 0)
  /\ UNCHANGED <<m_hRead, db, request, nResult, caller, thread, opened, open,
                 refused, misused, outcome>>

-----------------------------------------------------------------------------
(***************************************************************************)
(* ThreadFunc and DoSQL, in the thread caller c has started.               *)
(***************************************************************************)
\* The first half of OpenDB: a connection that is still there is closed.
CloseBeforeOpenNot == UNCHANGED <<db, open, refused, misused>>
CloseBeforeOpen == CloseDB

Start(c) ==
  /\ thread[c] = "start"
  /\ nResult' = "ok"
  /\ CloseBeforeOpen
  /\ thread' = Set(thread, c, "open")
  /\ UNCHANGED <<m_hRead, request, caller, opened, statement, outcome>>

Open(c) ==
  /\ thread[c] = "open"
  /\ opened' = opened + 1 /\ db' = opened + 1 /\ open' = open \cup {opened + 1}
  /\ thread' = Set(thread, c, "do")
  /\ UNCHANGED <<m_hRead, request, nResult, caller, statement, refused, misused,
                 outcome>>

\* Also a failing sqlite3_open16 leaves a connection.  DoSQL returns -1, which
\* ThreadFunc throws away; nResult stays 0.
AfterOpenErrorLeave == "ended"
AfterOpenError == "setevent"

OpenFails(c) ==
  /\ thread[c] = "open"
  /\ opened' = opened + 1 /\ db' = opened + 1 /\ open' = open \cup {opened + 1}
  /\ outcome' = Set(outcome, c, "noopen")
  /\ thread' = Set(thread, c, AfterOpenError)
  /\ UNCHANGED <<m_hRead, request, nResult, caller, statement, refused, misused>>

\* Nothing to execute, or sqlite3_exec succeeds.
Execute(c) ==
  /\ thread[c] = "do" /\ sqlTemp \in {"check", "exec"}
  /\ CloseDB
  /\ thread' = Set(thread, c, "setevent")
  /\ UNCHANGED <<m_hRead, request, nResult, caller, opened, statement, outcome>>

\* sqlite3_exec fails; the connection is closed, the handle kept.
ErrorCodeLost == nResult' = nResult
ErrorCode == nResult' = "error"

ExecuteFails(c) ==
  /\ thread[c] = "do" /\ sqlTemp = "exec"
  /\ ErrorCode /\ outcome' = Set(outcome, c, "error")
  /\ \E returns \in {"ok", "failed"} : Sqlite3Close(returns)
  /\ thread' = Set(thread, c, "setevent")
  /\ UNCHANGED <<m_hRead, db, request, caller, opened, statement>>

\* sqlite3_prepare through the pointer in ssTemp; its result is not looked at.
Prepare(c) ==
  /\ thread[c] = "do" /\ sqlTemp = "query"
  /\ \/ statement' = Set(statement, ssTemp, db)
     \/ UNCHANGED statement
  /\ thread' = Set(thread, c, "setevent")
  /\ UNCHANGED <<m_hRead, db, request, nResult, caller, opened, open, refused,
                 misused, outcome>>

\* SetEvent, and the end of the thread for all who wait for it.
LetNextIn(c) ==
  /\ thread[c] = "setevent"
  /\ m_hRead' = TRUE
  /\ thread' = Set(thread, c, "ended")
  /\ awaits' = [d \in Callers |-> IF awaits[d] = c THEN None ELSE awaits[d]]
  /\ UNCHANGED <<db, request, nResult, pc, wants, result, calls, sqlite, outcome>>

ThreadStep(c) ==
  \/ Start(c) \/ Open(c) \/ OpenFails(c) \/ Execute(c) \/ ExecuteFails(c)
  \/ Prepare(c) \/ LetNextIn(c)

-----------------------------------------------------------------------------
Next ==
  \E c \in Callers :
     \/ \E kind \in Kinds : Call(c, kind)
     \/ Enter(c) \/ EnterFails(c) \/ Wait(c) \/ Return(c) \/ Finalize(c)
     \/ ThreadStep(c)

Spec == Init /\ [][Next]_vars

\* Threads run; of the callers that wait for m_hRead none is passed over for
\* ever.  Nobody has to call or to finalize anything, and a wait that went
\* astray need not end.
Fairness ==
  \A c \in Callers : /\ WF_vars(ThreadStep(c)) /\ WF_vars(Wait(c))
                     /\ WF_vars(pc[c] = "join" /\ Return(c))
                     /\ SF_vars(Enter(c))

FairSpec == Spec /\ Fairness

-----------------------------------------------------------------------------
(***************************************************************************)
(* Properties.                                                             *)
(***************************************************************************)
Working(c) == thread[c] # "ended"

\* A thread is only at work, with the pointers of the caller that started it,
\* while that caller is about to wait for it or waits for it and nothing else;
\* and nobody waits for a thread that has ended.
Attended ==
  \A c \in Callers :
    /\ Working(c) => pc[c] = "called" \/ (pc[c] = "join" /\ awaits[c] = c)
    /\ awaits[c] # None => pc[c] = "join" /\ Working(awaits[c])

\* Every variable has its type, and threads are attended.
TypeOK ==
  /\ m_hRead \in BOOLEAN /\ db \in 0 .. opened
  /\ sqlTemp \in Kinds /\ ssTemp \in Callers \cup {None}
  /\ nResult \in {"ok", "error"}
  /\ pc \in [Callers -> {"idle", "wait", "called", "join", "stuck", "astray"}]
  /\ awaits \in [Callers -> Callers \cup {None}]
  /\ wants \in [Callers -> Kinds]
  /\ thread \in [Callers -> {"start", "open", "do", "setevent", "ended"}]
  /\ Attended
  /\ opened \in Nat /\ open \subseteq 1 .. opened
  /\ statement \in [Callers -> 0 .. opened] /\ refused \subseteq 1 .. opened
  /\ result \in [Callers -> {"ok", "error"}]
  /\ outcome \in [Callers -> {"ok", "error", "noopen"}]
  /\ calls \in 0 .. MaxCalls /\ misused \in BOOLEAN

\* The members that carry a request belong to one caller at a time: a thread
\* at work finds in them what its own caller asked for, and nobody is let in.
WorksForItsCaller ==
  \A c \in Callers : Working(c) => ssTemp = c /\ sqlTemp = wants[c] /\ ~m_hRead

\* Opening the database again overwrites the handle.  The only connections
\* lost that way are those SQLite refused to close just before, since the
\* caller of the query had not finalized its statement by then: not those of a
\* query finalized in time, of a failed open, prepare or statement.
LostOnlyIfRefused == open \subseteq {db} \cup refused

\* What ExecuteSQL returns is how the statement of the caller that entered
\* last went: with nobody in between, a caller learns whether its own
\* statement failed in SQLite, and however late it looks at nResult, it never
\* sees the result of a caller that came before it.  That the database could
\* not be opened is reported to nobody.
ResultOfLastIn ==
  [][\A c \in Callers :
       pc[c] \in {"join", "astray"} /\ pc'[c] = "idle"
         => (result'[c] = "error" <=> outcome[ssTemp] = "error")]_vars

\* ExecuteSQL returns, however the statements before it ended, unless a
\* thread could not be started, or the caller came too late to wait for its
\* own and waits for something else.
ExecuteReturns ==
  \A c \in Callers :
    pc[c] = "wait" ~> pc[c] \in {"idle", "astray"} \/ \E d \in Callers : pc[d] = "stuck"

\* The handle is that of a connection that is closed already.
Dangling == db # 0 /\ db \notin open

\* sqlite3.h:314-318: what is passed to sqlite3_close must be NULL or a
\* connection "not previously closed".
NoDoubleClose == ~misused

\* That is violated in one way only.  A closed connection stays in the handle
\* only where a statement failed in sqlite3_exec (MySqlite.cpp:161); it leaves
\* the handle only by being closed again, and that is at the beginning of the
\* next thread and nowhere else.
ClosedTwiceForACause ==
  [][/\ ~Dangling /\ Dangling' => \E c \in Callers : ExecuteFails(c)
     /\ Dangling => Dangling' \/ misused'
     /\ misused' # misused => Dangling /\ \E c \in Callers : Start(c)]_vars
=============================================================================
