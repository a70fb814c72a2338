-------------------------- MODULE CaseWorkflowProofs --------------------------
(***************************************************************************)
(* CaseWorkflow for every value of its constants: types, no leaks, the     *)
(* exclusiveness of the two tables, what one user can do to another, and,  *)
(* for users who wait for the bot, the way of a case to its user.  IInv is *)
(* inductive; the proof goes action by action.  Most actions of a handler  *)
(* touch nothing that others rely on (Local) and share one argument; the   *)
(* actions that hand a token from one place to another are treated one by  *)
(* one.  The later parts add an invariant of their own to IInv each.       *)
(***************************************************************************)
EXTENDS CaseWorkflow, TLAPS

USE NoneIsNothing, NoneIsNobody

-------------------------------------------------------------------------------
(* Facts every action needs                                                *)

(* A task's and a session's variables have their types.                    *)
LEMMA Typing ==
  ASSUME IInv, NEW h \in Handler
  PROVE  /\ task \in [Handler -> Task] /\ session \in [User -> Session]
         /\ task[h] \in Task /\ Idle \in Task /\ NoSession \in Session
         /\ task[h].pc # "idle" => task[h].user \in User /\ session[task[h].user] \in Session
BY DEF IInv, TypeOK, TaskShape, Task, PC, Idle, NoSession, NewSession, Session

(* A step of h publishes nothing and h ends up verifying nothing: the      *)
(* candidates of the other searches stay theirs alone.                     *)
LEMMA VettedKept ==
  ASSUME IInv, NEW h \in Handler,
         \A g \in Handler : g # h => task'[g] = task[g],
         ~Vetting(h)',
         \A t \in Token : Public(t)' => Public(t),
         \A t \in Token : judgment'[t] = judgment[t] \/ (Vetting(h) /\ t = task[h].token)
  PROVE  VettedAlone'
<1>1. \A g \in Handler : Vetting(g)' => g # h /\ Vetting(g) /\ task'[g] = task[g]
  BY DEF Vetting
<1>2. \A g \in Handler : task[g].token \in Token \cup {None}
  BY DEF IInv, TypeOK, Task
<1> QED
  BY <1>1, <1>2 DEF IInv, VettedAlone

(* A step of h leaves the locks of others and the empty sessions behind    *)
(* them alone.                                                             *)
LEMMA LocksKept ==
  ASSUME IInv, NEW h \in Handler,
         \A g \in Handler : g # h => task'[g] = task[g],
         \A u \in User : lock[u] \notin {h, None} =>
             lock'[u] = lock[u] /\ (session[u] = NoSession => session'[u] = NoSession),
         task'[h].pc \in Searching =>
             lock'[task'[h].user] = h /\ session'[task'[h].user] = NoSession
  PROVE  LockHeld'
<1> SUFFICES ASSUME NEW g \in Handler, task'[g].pc \in Searching, g # h
             PROVE  lock'[task'[g].user] = g /\ session'[task'[g].user] = NoSession
  BY DEF LockHeld
<1>1. task'[g] = task[g] /\ task[g].user \in User
  BY DEF IInv, TaskShape, Searching
<1>2. lock[task[g].user] = g /\ session[task[g].user] = NoSession
  BY <1>1 DEF IInv, LockHeld
<1> QED
  BY <1>1, <1>2

-------------------------------------------------------------------------------
(* Steps that hand no token over                                           *)

(* Task h goes on with the local variables r and is not searching or        *)
(* selecting any more.                                                     *)
LocalTask(h, r) ==
    /\ task' = [task EXCEPT ![h] = r]
    /\ r.pc \notin Searching \cup Selecting
    /\ r.cases = {} /\ r.drop = {}
    /\ r.pc # "idle" => r.user \in User
    /\ r.pc = "lock" => r.token = None
    /\ r.pc \in Sending => r.token # None
    /\ r.pc \in {"insert", "audit", "unreserve", "unlink"} => r.row # None
    /\ r.row \in {None, task[h].row} \/ \E u \in User : r.row \in session[u].all

(* Files and reservations are only released, and what the search of h held *)
(* is released or abandoned.  At most the row h waited to insert is        *)
(* inserted, at most a session is marked recorded, at most h unlocks.      *)
LocalState(h) ==
    /\ judgment' = judgment /\ owner' = owner
    /\ reserved' \subseteq reserved /\ aged' \subseteq reserved'
    /\ files' \subseteq files
    /\ history' \subseteq history \cup ({task[h].row} \ {None})
    /\ picks' \cup regens' \cup gotPdf' \cup gotDocx' \cup abandoned' \subseteq Token
    /\ abandoned \subseteq abandoned'
    /\ session' \in [User -> Session]
    /\ \A u \in User : session'[u] \in {session[u], [session[u] EXCEPT !.recorded = TRUE]}
    /\ \A u \in User : session[u] = NoSession => session'[u] = NoSession
    /\ lock' \in [User -> Handler \cup {None}]
    /\ \A u \in User : lock[u] # h => lock'[u] = lock[u]
    /\ SearchHolds(h) \cap (files' \cup reserved') \subseteq abandoned'

Local(h, r) == LocalTask(h, r) /\ LocalState(h)

(* Such a step preserves the invariant.                                    *)
LEMMA LocalStep ==
  ASSUME IInv, NEW h \in Handler, NEW r \in Task, Local(h, r)
  PROVE  IInv'
<1>1. /\ \A g \in Handler : g # h => task'[g] = task[g]
      /\ task'[h] = r
  BY DEF Local, LocalTask, LocalState, IInv, TypeOK
<1>2. \A u \in User : /\ session'[u].all = session[u].all
                      /\ session'[u].cases = session[u].cases
                      /\ session'[u].selected = session[u].selected
  BY DEF Local, LocalTask, LocalState, IInv, TypeOK, Session
<1>3. \A t \in Token : Public(t)' => Public(t)
  BY <1>1, <1>2 DEF Public, Local, LocalTask, LocalState
<1>4. TypeOK'
  <2>1. judgment' = judgment /\ reserved' \cup files' \cup history' \subseteq Issued
    BY DEF Local, LocalTask, LocalState, IInv, TypeOK, LedgerTypeOK, Issued, PublicIssued, Public, Task
  <2>2. task' \in [Handler -> Task]
    BY DEF Local, LocalTask, LocalState, IInv, TypeOK
  <2> QED
    BY <2>1, <2>2 DEF Local, LocalTask, LocalState, IInv, TypeOK, LedgerTypeOK, Issued
<1>5. PublicIssued'
  BY <1>3 DEF IInv, PublicIssued, Local, LocalTask, LocalState
<1>6. VettedAlone'
  <2>1. ~Vetting(h)'
    BY <1>1 DEF Vetting, Local, LocalTask, LocalState, Searching
  <2> QED
    BY <1>1, <1>3, <2>1, VettedKept DEF Local, LocalTask, LocalState
<1>7. VerifiedAlone'
  BY <1>1, <1>2 DEF IInv, VerifiedAlone, Local, LocalTask, LocalState
<1>8. TaskShape'
  BY <1>1 DEF IInv, TaskShape, Local, LocalTask, LocalState, Searching, Selecting, Sending
<1>9. LockHeld'
  BY <1>1, LocksKept DEF Local, LocalTask, LocalState
<1>10. SessionShape'
  BY <1>2 DEF IInv, SessionShape, WellFormed
<1>11. SelectShape'
  BY <1>1, <1>2 DEF IInv, SelectShape, Local, LocalTask, LocalState, Selecting, TaskShape
<1>12. NothingLeaks'
  <2>1. \A g \in Handler : g # h => SearchHolds(g)' = SearchHolds(g)
    BY <1>1 DEF SearchHolds
  <2>2. Held \subseteq Held' \cup SearchHolds(h)
    BY <2>1, <1>2 DEF Held
  <2> QED
    BY <2>2 DEF IInv, NothingLeaks, Local, LocalTask, LocalState
<1> QED
  BY <1>4, <1>5, <1>6, <1>7, <1>8, <1>9, <1>10, <1>11, <1>12 DEF IInv

(* Starting and failing a search, everything from the draft to the record, *)
(* and every failure on the way are such steps.                            *)
LocalAction(h) ==
    \/ \E u \in User : StartSearch(h, u)
    \/ AbortSearch(h) \/ SearchFails(h) \/ DropFails(h) \/ MessageRefused(h)
    \/ Draft(h) \/ SendPdf(h) \/ SendDocx(h) \/ SendFails(h) \/ ReplyLost(h)
    \/ RecordSent(h) \/ InsertRow(h) \/ AuditRow(h) \/ Unreserve(h) \/ Complete(h)

LEMMA LocalActions ==
  ASSUME IInv, NEW h \in Handler, LocalAction(h)
  PROVE  IInv'
<1>t. /\ task \in [Handler -> Task] /\ session \in [User -> Session]
      /\ task[h] \in Task /\ Idle \in Task
      /\ task[h].pc # "idle" => task[h].user \in User /\ session[task[h].user] \in Session
  BY Typing
<1> SUFFICES \E r \in Task : Local(h, r)
  BY LocalStep
<1>1. CASE \E u \in User : StartSearch(h, u)
  <2>0. PICK u \in User : StartSearch(h, u)
    BY <1>1
  <2> DEFINE r == [Idle EXCEPT !.pc = "lock", !.user = u]
  <2>1. r \in Task /\ task' = [task EXCEPT ![h] = r]
    BY <1>t, <2>0 DEF StartSearch, CanPress, At, Task, PC, Searching, Selecting, Sending, Session, Idle
  <2>2. LocalTask(h, r)
    BY <1>t, <2>1, <2>0 DEF StartSearch, CanPress, At, LocalTask, IInv, TaskShape, Searching, Selecting, Sending, Task, Idle
  <2>3. LocalState(h)
    BY <1>t, <2>0 DEF StartSearch, CanPress, At, LocalState, IInv, TypeOK, LedgerTypeOK, Issued,
       SearchHolds, Searching, Selecting, Sending, Task, TaskShape, ledgerVars, seen
  <2> QED
    BY <2>1, <2>2, <2>3 DEF Local
<1>2. CASE AbortSearch(h)
  <2>1. Idle \in Task /\ task' = [task EXCEPT ![h] = Idle]
    BY <1>t, <1>2 DEF AbortSearch, Unlock, Finish, Task, PC, Searching, Selecting, Sending, Session
  <2>2. LocalTask(h, Idle)
    BY <1>t, <2>1, <1>2 DEF AbortSearch, Unlock, Finish, LocalTask, IInv, TaskShape, Searching, Selecting, Sending, Task, Idle
  <2>3. LocalState(h)
    BY <1>t, <1>2 DEF AbortSearch, Unlock, Finish, LocalState, IInv, TypeOK, LedgerTypeOK, Issued,
       SearchHolds, Searching, Selecting, Sending, Task, TaskShape, ledgerVars, seen
  <2> QED
    BY <2>1, <2>2, <2>3 DEF Local
<1>3. CASE SearchFails(h)
  <2>1. Idle \in Task /\ task' = [task EXCEPT ![h] = Idle]
    BY <1>t, <1>3 DEF SearchFails, At, Unlock, Finish, Task, PC, Searching, Selecting, Sending, Session
  <2>2. LocalTask(h, Idle)
    BY <1>t, <2>1, <1>3 DEF SearchFails, At, Unlock, Finish, LocalTask, IInv, TaskShape, Searching, Selecting, Sending, Task, Idle
  <2>3. LocalState(h)
    BY <1>t, <1>3 DEF SearchFails, At, Unlock, Finish, LocalState, IInv, TypeOK, LedgerTypeOK, Issued,
       SearchHolds, Searching, Selecting, Sending, Task, TaskShape, ledgerVars, seen
  <2> QED
    BY <2>1, <2>2, <2>3 DEF Local
<1>4. CASE DropFails(h)
  <2>1. Idle \in Task /\ task' = [task EXCEPT ![h] = Idle]
    BY <1>t, <1>4 DEF DropFails, At, Unlock, Finish, Task, PC, Searching, Selecting, Sending, Session
  <2>2. LocalTask(h, Idle)
    BY <1>t, <2>1, <1>4 DEF DropFails, At, Unlock, Finish, LocalTask, IInv, TaskShape, Searching, Selecting, Sending, Task, Idle
  <2>3. LocalState(h)
    BY <1>t, <1>4 DEF DropFails, At, Unlock, Finish, LocalState, IInv, TypeOK, LedgerTypeOK, Issued,
       SearchHolds, Searching, Selecting, Sending, Task, TaskShape, ledgerVars, seen
  <2> QED
    BY <2>1, <2>2, <2>3 DEF Local
<1>5. CASE Draft(h)
  <2> DEFINE r == [task[h] EXCEPT !.pc = IF task[h].mode = "send" THEN "pdf" ELSE "docx"]
  <2>1. r \in Task /\ task' = [task EXCEPT ![h] = r]
    BY <1>t, <1>5 DEF Draft, At, Goto, Task, PC, Searching, Selecting, Sending, Session
  <2>2. LocalTask(h, r)
    BY <1>t, <2>1, <1>5 DEF Draft, At, Goto, LocalTask, IInv, TaskShape, Searching, Selecting, Sending, Task, Idle
  <2>3. LocalState(h)
    BY <1>t, <1>5 DEF Draft, At, Goto, LocalState, IInv, TypeOK, LedgerTypeOK, Issued,
       SearchHolds, Searching, Selecting, Sending, Task, TaskShape, ledgerVars, seen
  <2> QED
    BY <2>1, <2>2, <2>3 DEF Local
<1>6. CASE SendPdf(h)
  <2> DEFINE r == [task[h] EXCEPT !.pc = "docx"]
  <2>0. task[h].token \in Token
    BY <1>t, <1>6 DEF SendPdf, At, IInv, TaskShape, Sending, Task
  <2>1. r \in Task /\ task' = [task EXCEPT ![h] = r]
    BY <1>t, <1>6 DEF SendPdf, At, Goto, Task, PC, Searching, Selecting, Sending, Session
  <2>2. LocalTask(h, r)
    BY <1>t, <2>1, <1>6 DEF SendPdf, At, Goto, LocalTask, IInv, TaskShape, Searching, Selecting, Sending, Task, Idle
  <2>3. LocalState(h)
    BY <1>t, <2>0, <1>6 DEF SendPdf, At, Goto, LocalState, IInv, TypeOK, LedgerTypeOK, Issued,
       SearchHolds, Searching, Selecting, Sending, Task, TaskShape, ledgerVars, seen
  <2> QED
    BY <2>1, <2>2, <2>3 DEF Local
<1>7. CASE SendDocx(h)
  <2> DEFINE r == [task[h] EXCEPT !.pc = "record"]
  <2>0. task[h].token \in Token
    BY <1>t, <1>7 DEF SendDocx, At, IInv, TaskShape, Sending, Task
  <2>1. r \in Task /\ task' = [task EXCEPT ![h] = r]
    BY <1>t, <1>7 DEF SendDocx, At, Goto, Task, PC, Searching, Selecting, Sending, Session
  <2>2. LocalTask(h, r)
    BY <1>t, <2>1, <1>7 DEF SendDocx, At, Goto, LocalTask, IInv, TaskShape, Searching, Selecting, Sending, Task, Idle
  <2>3. LocalState(h)
    BY <1>t, <2>0, <1>7 DEF SendDocx, At, Goto, LocalState, IInv, TypeOK, LedgerTypeOK, Issued,
       SearchHolds, Searching, Selecting, Sending, Task, TaskShape, ledgerVars, seen
  <2> QED
    BY <2>1, <2>2, <2>3 DEF Local
<1>8. CASE SendFails(h)
  <2>1. Idle \in Task /\ task' = [task EXCEPT ![h] = Idle]
    BY <1>t, <1>8 DEF SendFails, OfferRetry, RetryWithPdf, Finish, At, Task, PC, Searching, Selecting, Sending, Session
  <2>2. LocalTask(h, Idle)
    BY <1>t, <2>1, <1>8 DEF SendFails, OfferRetry, RetryWithPdf, Finish, At, LocalTask, IInv, TaskShape, Searching, Selecting, Sending, Task, Idle
  <2>3. LocalState(h)
    BY <1>t, <1>8 DEF SendFails, OfferRetry, RetryWithPdf, Finish, At, LocalState, IInv, TypeOK, LedgerTypeOK, Issued,
       SearchHolds, Searching, Selecting, Sending, Task, TaskShape, ledgerVars, seen
  <2> QED
    BY <2>1, <2>2, <2>3 DEF Local
<1>9. CASE ReplyLost(h)
  <2>1. Idle \in Task /\ task' = [task EXCEPT ![h] = Idle]
    BY <1>t, <1>9 DEF ReplyLost, OfferRetry, RetryWithPdf, Finish, At, Task, PC, Searching, Selecting, Sending, Session
  <2>2. LocalTask(h, Idle)
    BY <1>t, <2>1, <1>9 DEF ReplyLost, OfferRetry, RetryWithPdf, Finish, At, LocalTask, IInv, TaskShape, Searching, Selecting, Sending, Task, Idle
  <2>3. LocalState(h)
    BY <1>t, <1>9 DEF ReplyLost, OfferRetry, RetryWithPdf, Finish, At, LocalState, IInv, TypeOK, LedgerTypeOK, Issued,
       SearchHolds, Searching, Selecting, Sending, Task, TaskShape, ledgerVars, seen
  <2> QED
    BY <2>1, <2>2, <2>3 DEF Local
<1>10. CASE RecordSent(h)
  <2> DEFINE r == [task[h] EXCEPT !.row = Mine(h).selected, !.pc = IF Mine(h).recorded THEN "unreserve" ELSE "insert"]
  <2>1. r \in Task /\ task' = [task EXCEPT ![h] = r]
    BY <1>t, <1>10 DEF RecordSent, At, Mine, Task, PC, Searching, Selecting, Sending, Session
  <2>2. LocalTask(h, r)
    BY <1>t, <2>1, <1>10 DEF RecordSent, At, Mine, LocalTask, IInv, TaskShape, SessionShape, WellFormed, Searching, Selecting, Sending, Task, Idle
  <2>3. LocalState(h)
    BY <1>t, <1>10 DEF RecordSent, At, Mine, LocalState, IInv, TypeOK, LedgerTypeOK, Issued,
       SearchHolds, Searching, Selecting, Sending, Task, TaskShape, ledgerVars, seen
  <2> QED
    BY <2>1, <2>2, <2>3 DEF Local
<1>11. CASE InsertRow(h)
  <2> DEFINE r == [task[h] EXCEPT !.pc = "audit"]
  <2>1. r \in Task /\ task' = [task EXCEPT ![h] = r]
    BY <1>t, <1>11 DEF InsertRow, At, Goto, RecordCase, Task, PC, Searching, Selecting, Sending, Session
  <2>2. LocalTask(h, r)
    BY <1>t, <2>1, <1>11 DEF InsertRow, At, Goto, RecordCase, LocalTask, IInv, TaskShape, Searching, Selecting, Sending, Task, Idle
  <2>3. LocalState(h)
    BY <1>t, <1>11 DEF InsertRow, At, Goto, RecordCase, LocalState, IInv, TypeOK, LedgerTypeOK, Issued,
       SearchHolds, Searching, Selecting, Sending, Task, TaskShape, ledgerVars, seen
  <2> QED
    BY <2>1, <2>2, <2>3 DEF Local
<1>12. CASE AuditRow(h)
  <2> DEFINE r == [task[h] EXCEPT !.pc = "unreserve"]
  <2> DEFINE u == task[h].user
  <2>1. r \in Task /\ task' = [task EXCEPT ![h] = r] /\ u \in User /\ session[u] \in Session
    BY <1>t, <1>12 DEF AuditRow, At, Goto, Task, PC, Sending
  <2>2. session' \in {session, [session EXCEPT ![u] = [session[u] EXCEPT !.recorded = TRUE]]}
    BY <1>12 DEF AuditRow
  <2>3. \A v \in User : session'[v] \in {session[v], [session[v] EXCEPT !.recorded = TRUE]}
    BY <1>t, <2>1, <2>2
  <2>4. \A v \in User : session[v] = NoSession => session'[v] = NoSession
    <3>1. session[u] = NoSession => session' = session
      BY <1>12 DEF AuditRow, NoSession, NewSession
    <3> QED
      BY <1>t, <2>1, <2>2, <3>1
  <2>5. session' \in [User -> Session]
    <3>1. [session[u] EXCEPT !.recorded = TRUE] \in Session
      BY <2>1 DEF Session
    <3> QED
      BY <1>t, <2>1, <2>2, <3>1
  <2>6. LocalTask(h, r)
    BY <1>t, <2>1, <1>12 DEF AuditRow, At, LocalTask, IInv, TaskShape, Searching, Selecting, Sending, Task
  <2>7. LocalState(h)
    BY <1>t, <2>3, <2>4, <2>5, <1>12 DEF AuditRow, At, LocalState, IInv, TypeOK, LedgerTypeOK,
       Issued, SearchHolds, Searching, Sending, ledgerVars, seen
  <2> QED
    BY <2>1, <2>6, <2>7 DEF Local
<1>13. CASE Unreserve(h)
  <2> DEFINE r == [task[h] EXCEPT !.pc = "unlink"]
  <2>1. r \in Task /\ task' = [task EXCEPT ![h] = r]
    BY <1>t, <1>13 DEF Unreserve, At, Goto, Release, Task, PC, Searching, Selecting, Sending, Session
  <2>2. LocalTask(h, r)
    BY <1>t, <2>1, <1>13 DEF Unreserve, At, Goto, Release, LocalTask, IInv, TaskShape, Searching, Selecting, Sending, Task, Idle
  <2>3. LocalState(h)
    BY <1>t, <1>13 DEF Unreserve, At, Goto, Release, LocalState, IInv, TypeOK, LedgerTypeOK, Issued,
       SearchHolds, Searching, Selecting, Sending, Task, TaskShape, ledgerVars, seen
  <2> QED
    BY <2>1, <2>2, <2>3 DEF Local
<1>14. CASE Complete(h)
  <2>1. Idle \in Task /\ task' = [task EXCEPT ![h] = Idle]
    BY <1>t, <1>14 DEF Complete, At, Finish, Task, PC, Searching, Selecting, Sending, Session
  <2>2. LocalTask(h, Idle)
    BY <1>t, <2>1, <1>14 DEF Complete, At, Finish, LocalTask, IInv, TaskShape, Searching, Selecting, Sending, Task, Idle
  <2>3. LocalState(h)
    BY <1>t, <1>14 DEF Complete, At, Finish, LocalState, IInv, TypeOK, LedgerTypeOK, Issued,
       SearchHolds, Searching, Selecting, Sending, Task, TaskShape, ledgerVars, seen
  <2> QED
    BY <2>1, <2>2, <2>3 DEF Local
<1>15. CASE MessageRefused(h)
  <2>1. Idle \in Task /\ task' = [task EXCEPT ![h] = Idle]
    BY <1>t, <1>15 DEF MessageRefused, At, Finish, Task, PC, Searching, Selecting, Sending, Session
  <2>2. LocalTask(h, Idle)
    BY <1>t, <2>1, <1>15 DEF MessageRefused, At, Finish, LocalTask, IInv, TaskShape, Searching, Selecting, Sending, Task, Idle
  <2>3. LocalState(h)
    BY <1>t, <1>15 DEF MessageRefused, At, Finish, LocalState, IInv, TypeOK, LedgerTypeOK, Issued,
       SearchHolds, Searching, Selecting, Sending, Task, TaskShape, ledgerVars, seen
  <2> QED
    BY <2>1, <2>2, <2>3 DEF Local
<1> QED
  BY <1>1, <1>2, <1>3, <1>4, <1>5, <1>6, <1>7, <1>8, <1>9, <1>10, <1>11, <1>12, <1>13, <1>14, <1>15 DEF LocalAction

-------------------------------------------------------------------------------
(* Steps that hand tokens over                                             *)

(* The lock is granted: the old session's cases wait to be released.       *)
LEMMA AcquireLockStep ==
  ASSUME IInv, NEW h \in Handler, AcquireLock(h)
  PROVE  IInv'
<1> DEFINE u == task[h].user
           c == session[u].cases
<1>t. /\ task \in [Handler -> Task] /\ session \in [User -> Session] /\ task[h] \in Task
      /\ u \in User /\ session[u] \in Session /\ NoSession \in Session
  BY Typing DEF AcquireLock, At
<1>g. /\ files' = files \ c
      /\ lock[u] = None /\ lock' = [lock EXCEPT ![u] = h]
      /\ session' = [session EXCEPT ![u] = NoSession]
      /\ judgment' = judgment /\ reserved' = reserved /\ aged' = aged /\ history' = history
      /\ picks' = picks /\ regens' = regens /\ owner' = owner
      /\ gotPdf' = gotPdf /\ gotDocx' = gotDocx /\ abandoned' = abandoned
  BY DEF AcquireLock, Leftovers, ledgerVars, seen
<1>f. /\ task[h].pc = "lock" /\ task'[h].pc \in {"search", "cleanup"}
      /\ task'[h].pc = "search" => c = {}
      /\ task'[h].user = u /\ task'[h].token = task[h].token
      /\ task'[h].cases = task[h].cases /\ task'[h].drop = c /\ task'[h].row = task[h].row
      /\ task' \in [Handler -> Task]
      /\ \A g \in Handler : g # h => task'[g] = task[g]
  <2> DEFINE r == [task[h] EXCEPT !.drop = c, !.pc = IF c = {} THEN "search" ELSE "cleanup"]
  <2>1. task[h].pc = "lock" /\ task' = [task EXCEPT ![h] = r]
    BY DEF AcquireLock, At, Leftovers
  <2>2. c \subseteq Token
    BY <1>t DEF Session
  <2>3. r \in Task
    BY <1>t, <2>2 DEF Task, PC, Searching
  <2> QED
    BY <1>t, <2>1, <2>3 DEF Task
<1>s. /\ session' \in [User -> Session] /\ session'[u] = NoSession
      /\ session'[u].all = {} /\ session'[u].cases = {}
      /\ \A v \in User : v # u => session'[v] = session[v]
  BY <1>t, <1>g DEF NoSession, NewSession
<1>l. /\ lock' \in [User -> Handler \cup {None}] /\ lock'[u] = h
      /\ \A v \in User : v # u => lock'[v] = lock[v]
  BY <1>t, <1>g DEF IInv, TypeOK
<1> HIDE DEF u, c
<1>p. c \subseteq session[u].all /\ \A t \in Token : Public(t)' => Public(t)
  <2>1. c \subseteq session[u].all
    BY <1>t DEF IInv, SessionShape, WellFormed, c
  <2> QED
    BY <1>t, <1>g, <1>f, <1>s, <2>1 DEF Public, Selecting
<1>1. TypeOK'
  BY <1>f, <1>g, <1>s, <1>l DEF IInv, TypeOK, LedgerTypeOK, Issued
<1>2. PublicIssued'
  BY <1>g, <1>p DEF IInv, PublicIssued
<1>3. VettedAlone'
  <2>1. ~Vetting(h)'
    BY <1>f DEF Vetting
  <2> QED
    BY <1>f, <1>g, <1>p, <2>1, VettedKept
<1>4. VerifiedAlone'
  BY <1>t, <1>f, <1>s, <1>p DEF IInv, VerifiedAlone, TaskShape, Searching, Selecting
<1>5. TaskShape'
  BY <1>t, <1>f DEF IInv, TaskShape, Searching, Selecting, Sending
<1>6. LockHeld'
  BY <1>t, <1>f, <1>g, <1>s, <1>l, LocksKept
<1>7. SessionShape'
  <2>1. WellFormed(NoSession)
    BY DEF WellFormed, NoSession, NewSession
  <2> QED
    BY <1>s, <2>1 DEF IInv, SessionShape
<1>8. SelectShape'
  BY <1>t, <1>f, <1>g, <1>s DEF IInv, SelectShape, Selecting
<1>9. NothingLeaks'
  BY <1>t, <1>f, <1>g, <1>s DEF IInv, NothingLeaks, Held, SearchHolds, Searching, TaskShape, c
<1> QED
  BY <1>1, <1>2, <1>3, <1>4, <1>5, <1>6, <1>7, <1>8, <1>9 DEF IInv

(* The DELETE inside prepare() and the one inside select(): reservations   *)
(* of the discarded cases go, and only those.                              *)
LEMMA DropStep ==
  ASSUME IInv, NEW h \in Handler, CleanupReleased(h) \/ DropReservations(h)
  PROVE  IInv'
<1>t. task \in [Handler -> Task] /\ task[h] \in Task
  BY Typing
<1>g. /\ reserved' = reserved \ task[h].drop /\ aged' = aged \ task[h].drop
      /\ judgment' = judgment /\ history' = history /\ files' = files
      /\ session' = session /\ lock' = lock /\ picks' = picks /\ regens' = regens
      /\ owner' = owner /\ gotPdf' = gotPdf /\ gotDocx' = gotDocx /\ abandoned' = abandoned
  BY DEF CleanupReleased, DropReservations, Release, seen
<1>f. /\ \/ task[h].pc = "cleanup" /\ task'[h].pc = "search" /\ task'[h].drop = {}
         \/ task[h].pc = "drop" /\ task'[h].pc = "dropped" /\ task'[h].drop = task[h].drop
      /\ task'[h].user = task[h].user /\ task'[h].token = task[h].token
      /\ task'[h].cases = task[h].cases /\ task'[h].row = task[h].row
      /\ task' \in [Handler -> Task]
      /\ \A g \in Handler : g # h => task'[g] = task[g]
  <2>1. CASE CleanupReleased(h)
    BY <1>t, <2>1 DEF CleanupReleased, At, Task, PC, Searching
  <2>2. CASE DropReservations(h)
    BY <1>t, <2>2 DEF DropReservations, At, Goto, Task, PC, Selecting
  <2> QED
    BY <2>1, <2>2
<1>p. \A t \in Token : Public(t)' => Public(t)
  BY <1>f, <1>g DEF Public, Selecting
<1>1. TypeOK'
  BY <1>f, <1>g DEF IInv, TypeOK, LedgerTypeOK, Issued
<1>2. PublicIssued'
  BY <1>g, <1>p DEF IInv, PublicIssued
<1>3. VettedAlone'
  <2>1. ~Vetting(h)'
    BY <1>f DEF Vetting
  <2> QED
    BY <1>f, <1>g, <1>p, <2>1, VettedKept
<1>4. VerifiedAlone'
  BY <1>f, <1>g DEF IInv, VerifiedAlone, Selecting
<1>5. TaskShape'
  BY <1>f DEF IInv, TaskShape, Searching, Selecting, Sending
<1>6. LockHeld'
  BY <1>f, <1>g DEF IInv, LockHeld, Searching
<1>7. SessionShape'
  BY <1>g DEF IInv, SessionShape
<1>8. SelectShape'
  BY <1>f, <1>g DEF IInv, SelectShape, Selecting
<1>9. NothingLeaks'
  BY <1>f, <1>g DEF IInv, NothingLeaks, Held, SearchHolds, Searching, SelectShape
<1> QED
  BY <1>1, <1>2, <1>3, <1>4, <1>5, <1>6, <1>7, <1>8, <1>9 DEF IInv

(* A candidate gets a token nobody has seen.                               *)
LEMMA DownloadStep ==
  ASSUME IInv, NEW h \in Handler, NEW j \in Judgment, NEW n \in Token, Download(h, j, n)
  PROVE  IInv'
<1>t. task \in [Handler -> Task] /\ task[h] \in Task /\ task[h].pc = "search" /\ task[h].user \in User
  BY Typing DEF Download, At
<1>g. /\ judgment[n] = None /\ judgment' = [judgment EXCEPT ![n] = j]
      /\ files' = files \cup {n} /\ owner' = [owner EXCEPT ![n] = task[h].user]
      /\ reserved' = reserved /\ aged' = aged /\ history' = history
      /\ session' = session /\ lock' = lock /\ picks' = picks /\ regens' = regens
      /\ gotPdf' = gotPdf /\ gotDocx' = gotDocx /\ abandoned' = abandoned
  BY DEF Download, Issue
<1>f. /\ task'[h].pc = "vet" /\ task'[h].token = n
      /\ task'[h].user = task[h].user /\ task'[h].cases = task[h].cases
      /\ task'[h].drop = task[h].drop /\ task'[h].row = task[h].row
      /\ task' \in [Handler -> Task]
      /\ \A g \in Handler : g # h => task'[g] = task[g]
  <2> DEFINE r == [task[h] EXCEPT !.token = n, !.tried = @ \cup {j}, !.pc = "vet"]
  <2>1. task' = [task EXCEPT ![h] = r]
    BY <1>t DEF Download
  <2>2. r \in Task
    BY <1>t DEF Task, PC, Searching
  <2> QED
    BY <1>t, <2>1, <2>2 DEF Task
<1>j. /\ judgment' \in [Token -> Judgment \cup {None}]
      /\ judgment'[n] # None
      /\ \A t \in Token : t # n => judgment'[t] = judgment[t]
      /\ \A t \in Token : judgment[t] # None => judgment'[t] # None
  BY <1>g DEF IInv, TypeOK, LedgerTypeOK
<1>p. ~Public(n) /\ \A t \in Token : Public(t)' => Public(t)
  <2>1. ~Public(n)
    BY <1>g DEF IInv, PublicIssued
  <2> QED
    BY <1>f, <1>g, <2>1 DEF Public, Selecting
<1>1. TypeOK'
  BY <1>t, <1>f, <1>g, <1>j DEF IInv, TypeOK, LedgerTypeOK, Issued
<1>2. PublicIssued'
  BY <1>j, <1>p DEF IInv, PublicIssued
<1>3. VettedAlone'
  <2>1. \A g \in Handler : Vetting(g)' => g = h \/ (Vetting(g) /\ task'[g] = task[g])
    BY <1>f DEF Vetting
  <2>2. \A g \in Handler : task[g].token \in Token \cup {None}
    BY DEF IInv, TypeOK, Task
  <2>3. \A g \in Handler : Vetting(g) => task[g].token # n
    BY <1>g DEF IInv, VettedAlone
  <2> QED
    BY <1>f, <1>j, <1>p, <2>1, <2>2, <2>3 DEF IInv, VettedAlone
<1>4. VerifiedAlone'
  BY <1>f, <1>g DEF IInv, VerifiedAlone, Selecting
<1>5. TaskShape'
  BY <1>t, <1>f DEF IInv, TaskShape, Searching, Selecting, Sending
<1>6. LockHeld'
  BY <1>t, <1>f, <1>g DEF IInv, LockHeld, Searching
<1>7. SessionShape'
  BY <1>g DEF IInv, SessionShape
<1>8. SelectShape'
  <2>1. \A g \in Handler : n \notin task[g].drop
    BY <1>p DEF Public
  <2> QED
    BY <1>t, <1>f, <1>g, <2>1 DEF IInv, SelectShape, Selecting
<1>9. NothingLeaks'
  BY <1>t, <1>f, <1>g DEF IInv, NothingLeaks, Held, SearchHolds, Searching, TaskShape
<1> QED
  BY <1>1, <1>2, <1>3, <1>4, <1>5, <1>6, <1>7, <1>8, <1>9 DEF IInv

(* A candidate is given up: its token means nothing again.                 *)
LEMMA GiveUpStep ==
  ASSUME IInv, NEW h \in Handler, Vetting(h), GiveUp(h)
  PROVE  IInv'
<1> DEFINE n == task[h].token
<1>t. /\ task \in [Handler -> Task] /\ task[h] \in Task /\ task[h].user \in User
      /\ n \in Token /\ ~Public(n)
  BY Typing DEF Vetting, IInv, VettedAlone, Task
<1>g. /\ judgment' = [judgment EXCEPT ![n] = None]
      /\ files' = files \ {n} /\ owner' = [owner EXCEPT ![n] = None]
      /\ reserved' = reserved /\ aged' = aged /\ history' = history
      /\ session' = session /\ lock' = lock /\ picks' = picks /\ regens' = regens
      /\ gotPdf' = gotPdf /\ gotDocx' = gotDocx /\ abandoned' = abandoned
  BY DEF GiveUp, GiveUpFile, Forget
<1>f. /\ task'[h].pc = "search" /\ task'[h].token = None
      /\ task'[h].user = task[h].user /\ task'[h].cases = task[h].cases
      /\ task'[h].drop = task[h].drop /\ task'[h].row = task[h].row
      /\ task' \in [Handler -> Task]
      /\ \A g \in Handler : g # h => task'[g] = task[g]
  <2> DEFINE r == [task[h] EXCEPT !.token = None, !.pc = "search"]
  <2>1. task' = [task EXCEPT ![h] = r]
    BY <1>t DEF GiveUp
  <2>2. r \in Task
    BY <1>t DEF Task, PC, Searching
  <2> QED
    BY <1>t, <2>1, <2>2 DEF Task
<1>j. /\ judgment' \in [Token -> Judgment \cup {None}]
      /\ \A t \in Token : t # n => judgment'[t] = judgment[t]
  BY <1>t, <1>g DEF IInv, TypeOK, LedgerTypeOK
<1>p. \A t \in Token : Public(t)' => Public(t) /\ t # n
  <2>1. \A t \in Token : Public(t)' => Public(t)
    BY <1>f, <1>g DEF Public, Selecting
  <2> QED
    BY <1>t, <2>1
<1> HIDE DEF n
<1>1. TypeOK'
  <2>1. n \notin reserved \cup history
    BY <1>t DEF Public
  <2> QED
    BY <1>t, <1>f, <1>g, <1>j, <2>1 DEF IInv, TypeOK, LedgerTypeOK, Issued
<1>2. PublicIssued'
  BY <1>j, <1>p DEF IInv, PublicIssued
<1>3. VettedAlone'
  <2>1. ~Vetting(h)'
    BY <1>f DEF Vetting
  <2> QED
    BY <1>f, <1>j, <1>p, <2>1, VettedKept DEF n
<1>4. VerifiedAlone'
  BY <1>f, <1>g DEF IInv, VerifiedAlone, Selecting
<1>5. TaskShape'
  BY <1>t, <1>f DEF IInv, TaskShape, Vetting, Searching, Selecting, Sending
<1>6. LockHeld'
  BY <1>t, <1>f, <1>g DEF IInv, LockHeld, Vetting, Searching
<1>7. SessionShape'
  BY <1>g DEF IInv, SessionShape
<1>8. SelectShape'
  BY <1>t, <1>f, <1>g DEF IInv, SelectShape, Selecting
<1>9. NothingLeaks'
  <2>1. n \notin reserved
    BY <1>t DEF Public
  <2>2. SearchHolds(h) = SearchHolds(h)' \cup {n}
    BY <1>t, <1>f DEF SearchHolds, Vetting, Searching, n
  <2>3. \A g \in Handler : g # h => SearchHolds(g)' = SearchHolds(g)
    BY <1>f DEF SearchHolds
  <2> QED
    BY <1>g, <2>1, <2>2, <2>3 DEF IInv, NothingLeaks, Held
<1> QED
  BY <1>1, <1>2, <1>3, <1>4, <1>5, <1>6, <1>7, <1>8, <1>9 DEF IInv

(* A candidate that was not used before goes on to be read and scored.     *)
LEMMA CheckedStep ==
  ASSUME IInv, NEW h \in Handler, At(h, "vet"), Goto(h, "checked"),
         UNCHANGED <<ledgerVars, files, session, lock, picks, regens, seen>>
  PROVE  IInv'
<1>t. task \in [Handler -> Task] /\ task[h] \in Task
  BY Typing
<1>g. /\ judgment' = judgment /\ reserved' = reserved /\ aged' = aged /\ history' = history
      /\ files' = files /\ session' = session /\ lock' = lock /\ picks' = picks
      /\ regens' = regens /\ owner' = owner
      /\ gotPdf' = gotPdf /\ gotDocx' = gotDocx /\ abandoned' = abandoned
  BY DEF ledgerVars, seen
<1>f. /\ task[h].pc = "vet" /\ task'[h].pc = "checked" /\ task'[h].token = task[h].token
      /\ task'[h].user = task[h].user /\ task'[h].cases = task[h].cases
      /\ task'[h].drop = task[h].drop /\ task'[h].row = task[h].row
      /\ task' \in [Handler -> Task]
      /\ \A g \in Handler : g # h => task'[g] = task[g]
  BY <1>t DEF At, Goto, Task, PC, Searching
<1>p. \A t \in Token : Public(t)' <=> Public(t)
  BY <1>f, <1>g DEF Public, Selecting
<1>1. TypeOK'
  BY <1>f, <1>g DEF IInv, TypeOK, LedgerTypeOK, Issued
<1>2. PublicIssued'
  BY <1>g, <1>p DEF IInv, PublicIssued
<1>3. VettedAlone'
  <2>1. \A g \in Handler : (Vetting(g)' <=> Vetting(g)) /\ task'[g].token = task[g].token
    BY <1>f DEF Vetting
  <2>2. \A g \in Handler : task[g].token \in Token \cup {None}
    BY DEF IInv, TypeOK, Task
  <2> QED
    BY <1>g, <1>p, <2>1, <2>2 DEF IInv, VettedAlone
<1>4. VerifiedAlone'
  BY <1>f, <1>g DEF IInv, VerifiedAlone, Selecting
<1>5. TaskShape'
  BY <1>f DEF IInv, TaskShape, Searching, Selecting, Sending
<1>6. LockHeld'
  BY <1>f, <1>g DEF IInv, LockHeld, Searching
<1>7. SessionShape'
  BY <1>g DEF IInv, SessionShape
<1>8. SelectShape'
  BY <1>f, <1>g DEF IInv, SelectShape, Selecting
<1>9. NothingLeaks'
  BY <1>f, <1>g DEF IInv, NothingLeaks, Held, SearchHolds, Searching
<1> QED
  BY <1>1, <1>2, <1>3, <1>4, <1>5, <1>6, <1>7, <1>8, <1>9 DEF IInv

(* A candidate is reserved and joins the verified cases of its search.     *)
LEMMA ReserveStep ==
  ASSUME IInv, NEW h \in Handler, Reserve(h)
  PROVE  IInv'
<1> DEFINE n == task[h].token
<1>v. Vetting(h)
  BY DEF Reserve, At, Vetting
<1>1. CASE GiveUp(h)
  BY <1>1, <1>v, GiveUpStep
<1>2. CASE ~GiveUp(h)
  <2>t. /\ task \in [Handler -> Task] /\ task[h] \in Task /\ task[h].user \in User
        /\ n \in Token /\ ~Public(n) /\ judgment[n] # None
    BY Typing, <1>v DEF Vetting, IInv, VettedAlone, Task
  <2>g. /\ reserved' = (reserved \ aged) \cup {n} /\ aged' = {}
        /\ judgment' = judgment /\ history' = history
        /\ files' = files /\ session' = session /\ lock' = lock /\ picks' = picks
        /\ regens' = regens /\ owner' = owner
        /\ gotPdf' = gotPdf /\ gotDocx' = gotDocx /\ abandoned' = abandoned
    BY <1>2 DEF Reserve, ReserveCase, Unexpired, seen
  <2>f. /\ task[h].pc = "checked" /\ task'[h].pc = "search" /\ task'[h].token = None
        /\ task'[h].user = task[h].user /\ task'[h].cases = task[h].cases \cup {n}
        /\ task'[h].drop = task[h].drop /\ task'[h].row = task[h].row
        /\ task' \in [Handler -> Task]
        /\ \A g \in Handler : g # h => task'[g] = task[g]
    <3> DEFINE r == [task[h] EXCEPT !.cases = @ \cup {n}, !.token = None, !.pc = "search"]
    <3>1. task[h].pc = "checked" /\ task' = [task EXCEPT ![h] = r]
      BY <2>t, <1>2 DEF Reserve, At
    <3>2. r \in Task
      BY <2>t DEF Task, PC, Searching
    <3> QED
      BY <2>t, <3>1, <3>2 DEF Task
  <2>p. \A t \in Token : Public(t)' => Public(t) \/ t = n
    BY <2>f, <2>g DEF Public, Selecting
  <2> HIDE DEF n
  <2>1. TypeOK'
    BY <2>t, <2>f, <2>g DEF IInv, TypeOK, LedgerTypeOK, Issued
  <2>2. PublicIssued'
    BY <2>t, <2>g, <2>p DEF IInv, PublicIssued
  <2>3. VettedAlone'
    <3>1. \A g \in Handler : Vetting(g)' => g # h /\ Vetting(g) /\ task'[g] = task[g]
      BY <2>f DEF Vetting
    <3>2. \A g \in Handler : task[g].token \in Token \cup {None}
      BY DEF IInv, TypeOK, Task
    <3>3. \A g \in Handler : g # h /\ Vetting(g) => task[g].token # n
      BY <1>v DEF IInv, VettedAlone, n
    <3> QED
      BY <2>g, <2>p, <3>1, <3>2, <3>3 DEF IInv, VettedAlone
  <2>4. VerifiedAlone'
    <3>1. /\ \A u \in User : n \notin session[u].all
          /\ \A g \in Handler : n \notin task[g].cases /\ n \notin task[g].drop
          /\ \A g \in Handler : task[g].pc \in Selecting => task[g].token # n
      BY <2>t DEF Public
    <3> QED
      BY <2>f, <2>g, <3>1 DEF IInv, VerifiedAlone, Selecting
  <2>5. TaskShape'
    BY <2>t, <2>f DEF IInv, TaskShape, Searching, Selecting, Sending
  <2>6. LockHeld'
    BY <2>f, <2>g DEF IInv, LockHeld, Searching
  <2>7. SessionShape'
    BY <2>g DEF IInv, SessionShape
  <2>8. SelectShape'
    <3>1. \A g \in Handler : n \notin task[g].drop
      BY <2>t DEF Public
    <3> QED
      BY <2>f, <2>g, <3>1 DEF IInv, SelectShape, Selecting
  <2>9. NothingLeaks'
    <3>1. SearchHolds(h)' = SearchHolds(h)
      BY <2>t, <2>f DEF SearchHolds, Searching, n
    <3>2. n \in SearchHolds(h)
      BY <2>t, <2>f DEF SearchHolds, Searching, n
    <3>3. \A g \in Handler : g # h => SearchHolds(g)' = SearchHolds(g)
      BY <2>f DEF SearchHolds
    <3> QED
      BY <2>t, <2>g, <3>1, <3>2, <3>3 DEF IInv, NothingLeaks, Held
  <2> QED
    BY <2>1, <2>2, <2>3, <2>4, <2>5, <2>6, <2>7, <2>8, <2>9 DEF IInv
<1> QED
  BY <1>1, <1>2

(* The search ends well: its verified cases become the user's session.     *)
LEMMA OfferCasesStep ==
  ASSUME IInv, NEW h \in Handler, OfferCases(h)
  PROVE  IInv'
<1> DEFINE u == task[h].user
           c == task[h].cases
<1>t. /\ task \in [Handler -> Task] /\ session \in [User -> Session] /\ task[h] \in Task
      /\ u \in User /\ task[h].pc = "search" /\ c \subseteq Token /\ Idle \in Task
  BY Typing DEF OfferCases, At, Task
<1>g. /\ session' = [session EXCEPT ![u] = NewSession(c)] /\ picks' \subseteq Token
      /\ judgment' = judgment /\ reserved' = reserved /\ aged' = aged /\ history' = history
      /\ files' = files /\ regens' = regens /\ owner' = owner
      /\ gotPdf' = gotPdf /\ gotDocx' = gotDocx /\ abandoned' = abandoned
  BY <1>t DEF OfferCases, ledgerVars, seen, IInv, TypeOK
<1>l. /\ lock' \in [User -> Handler \cup {None}]
      /\ \A v \in User : lock[v] # h => lock'[v] = lock[v]
  BY DEF OfferCases, Unlock, IInv, TypeOK
<1>f. /\ task'[h].pc = "idle" /\ task'[h].cases = {} /\ task'[h].drop = {} /\ task'[h].row = None
      /\ task' \in [Handler -> Task]
      /\ \A g \in Handler : g # h => task'[g] = task[g]
  BY <1>t DEF OfferCases, Finish, Idle
<1>s. /\ session' \in [User -> Session]
      /\ session'[u].all = c /\ session'[u].cases = c /\ WellFormed(session'[u])
      /\ session[u].cases = {} /\ lock[u] = h
      /\ \A v \in User : v # u => session'[v] = session[v]
  <2>1. session[u] = NoSession /\ lock[u] = h
    BY <1>t DEF IInv, LockHeld, Searching
  <2>2. session' = [session EXCEPT ![u] = [all |-> c, cases |-> c, selected |-> None, recorded |-> FALSE]]
    BY <1>g DEF NewSession
  <2> QED
    BY <1>t, <2>1, <2>2 DEF NoSession, NewSession, Session, WellFormed
<1>p. \A t \in Token : Public(t)' => Public(t)
  BY <1>t, <1>f, <1>g, <1>s DEF Public, Selecting
<1> HIDE DEF u, c
<1>1. TypeOK'
  BY <1>f, <1>g, <1>s, <1>l DEF IInv, TypeOK, LedgerTypeOK, Issued
<1>2. PublicIssued'
  BY <1>g, <1>p DEF IInv, PublicIssued
<1>3. VettedAlone'
  <2>1. ~Vetting(h)'
    BY <1>f DEF Vetting
  <2> QED
    BY <1>f, <1>g, <1>p, <2>1, VettedKept
<1>4. VerifiedAlone'
  BY <1>t, <1>f, <1>s DEF IInv, VerifiedAlone, Selecting, c
<1>5. TaskShape'
  BY <1>t, <1>f DEF IInv, TaskShape, Searching, Selecting, Sending
<1>6. LockHeld'
  <2>1. \A v \in User : lock[v] \notin {h, None} => lock'[v] = lock[v] /\ session'[v] = session[v]
    BY <1>s, <1>l
  <2> QED
    BY <1>f, <2>1, LocksKept DEF Searching
<1>7. SessionShape'
  BY <1>s DEF IInv, SessionShape
<1>8. SelectShape'
  <2>1. \A g \in Handler : task[g].pc \in Selecting => task[g].token \notin c
    BY <1>t DEF IInv, VerifiedAlone, c
  <2> QED
    BY <1>t, <1>f, <1>g, <1>s, <2>1 DEF IInv, SelectShape, Selecting
<1>9. NothingLeaks'
  <2>1. SearchHolds(h) = c
    BY <1>t DEF SearchHolds, Searching, IInv, TaskShape, c
  <2>2. \A g \in Handler : g # h => SearchHolds(g)' = SearchHolds(g)
    BY <1>f DEF SearchHolds
  <2> QED
    BY <1>t, <1>g, <1>s, <2>1, <2>2 DEF IInv, NothingLeaks, Held
<1> QED
  BY <1>1, <1>2, <1>3, <1>4, <1>5, <1>6, <1>7, <1>8, <1>9 DEF IInv

(* A case is chosen: by a press on the user's session, by the handler that *)
(* sends it, or by prepare() from the session it is about to install.      *)
LEMMA BeginSelectStep ==
  ASSUME IInv, NEW h \in Handler, NEW u \in User, NEW s \in Session, NEW n \in s.cases,
         NEW mode \in {"send", "regen"}, NEW next \in {"select", "generate"},
         \/ s = session[u] /\ task[h].pc \in {"idle", "select"}
         \/ s = NewSession(task[h].cases) /\ task[h].pc = "search" /\ u = task[h].user,
         BeginSelect(h, u, s, n, mode, next),
         UNCHANGED <<ledgerVars, picks, regens, seen>>
  PROVE  IInv'
<1> DEFINE d == s.cases \ {n}
<1>t. /\ task \in [Handler -> Task] /\ session \in [User -> Session] /\ task[h] \in Task
      /\ s.cases \subseteq Token /\ s.all \subseteq Token /\ n \in Token
  BY Typing DEF Session
<1>w. WellFormed(s) /\ s.cases \subseteq s.all /\ n \in s.all /\ (d # {} => s.all = d \cup {n})
  <2>1. WellFormed(s)
    BY DEF IInv, SessionShape, NewSession, WellFormed
  <2> QED
    BY <2>1 DEF WellFormed
<1>g. /\ files' = files \ d
      /\ judgment' = judgment /\ reserved' = reserved /\ aged' = aged /\ history' = history
      /\ picks' = picks /\ regens' = regens /\ owner' = owner
      /\ gotPdf' = gotPdf /\ gotDocx' = gotDocx /\ abandoned' = abandoned
  BY DEF BeginSelect, Discarded, ledgerVars, seen
<1>l. /\ lock' \in [User -> Handler \cup {None}]
      /\ \A v \in User : lock[v] # h => lock'[v] = lock[v]
  BY DEF BeginSelect, Unlock, IInv, TypeOK
<1>f. /\ task'[h].pc = IF d = {} THEN next ELSE "drop"
      /\ task'[h].user = u /\ task'[h].token = n
      /\ task'[h].cases = {} /\ task'[h].drop = d /\ task'[h].row = None
      /\ task' \in [Handler -> Task]
      /\ \A g \in Handler : g # h => task'[g] = task[g]
  <2>1. CASE d = {}
    <3> DEFINE r == [Idle EXCEPT !.pc = next, !.user = u, !.mode = mode, !.token = n]
    <3>1. task' = [task EXCEPT ![h] = r]
      BY <2>1 DEF BeginSelect, Discarded
    <3>2. r \in Task
      BY <1>t DEF Idle, Task, PC, Sending
    <3> QED
      BY <1>t, <2>1, <3>1, <3>2 DEF Idle
  <2>2. CASE d # {}
    <3> DEFINE r == [Idle EXCEPT !.pc = "drop", !.user = u, !.mode = mode, !.token = n,
                                 !.drop = d, !.then = next]
    <3>1. task' = [task EXCEPT ![h] = r]
      BY <2>2 DEF BeginSelect, Discarded
    <3>2. r \in Task
      BY <1>t DEF Idle, Task, PC, Selecting
    <3> QED
      BY <1>t, <2>2, <3>1, <3>2 DEF Idle
  <2> QED
    BY <2>1, <2>2
<1>s. /\ session' \in [User -> Session]
      /\ session'[u].all = s.all /\ session'[u].cases = s.cases /\ WellFormed(session'[u])
      /\ \A v \in User : v # u => session'[v] = session[v]
  <2>1. CASE d = {}
    <3> DEFINE s1 == [s EXCEPT !.cases = {n}, !.selected = n]
    <3>1. session' = [session EXCEPT ![u] = s1]
      BY <1>t, <2>1 DEF BeginSelect, Discarded
    <3>2. s1 \in Session /\ s1.all = s.all /\ s1.cases = s.cases /\ s1.selected = n
      <4>1. s.cases = {n}
        BY <2>1
      <4> QED
        BY <1>t, <4>1 DEF Session
    <3>3. WellFormed(s1)
      BY <1>w, <2>1, <3>2 DEF WellFormed
    <3> QED
      BY <1>t, <3>1, <3>2, <3>3
  <2>2. CASE d # {}
    <3>1. session' = [session EXCEPT ![u] = s]
      BY <2>2 DEF BeginSelect, Discarded
    <3> QED
      BY <1>t, <1>w, <3>1
  <2> QED
    BY <2>1, <2>2
<1>k. /\ \A t \in s.all : Public(t)
      /\ \A g \in Handler : g # h => s.all \cap task[g].cases = {}
      /\ \A g \in Handler : task[g].pc \in Selecting /\ task[g].token \in s.all => s = session[u]
      /\ \A g \in Handler : s.all \cap task[g].drop = {} \/ s = session[u]
      /\ \A v \in User : v = u => lock[v] = h \/ session[v] # NoSession
  <2>1. CASE s = session[u]
    BY <1>t, <2>1 DEF Public, IInv, VerifiedAlone, NoSession, NewSession
  <2>2. CASE s = NewSession(task[h].cases) /\ task[h].pc = "search" /\ u = task[h].user
    BY <1>t, <2>2 DEF Public, IInv, VerifiedAlone, NewSession, LockHeld, Searching
  <2> QED
    BY <2>1, <2>2
<1>h. SearchHolds(h) \cup session[u].cases = s.cases
  <2>1. CASE s = session[u] /\ task[h].pc \in {"idle", "select"}
    BY <2>1 DEF SearchHolds, Searching
  <2>2. CASE s = NewSession(task[h].cases) /\ task[h].pc = "search" /\ u = task[h].user
    BY <2>2 DEF SearchHolds, Searching, IInv, TaskShape, LockHeld, NewSession, NoSession
  <2> QED
    BY <2>1, <2>2
<1>p. \A t \in Token : Public(t)' => Public(t)
  BY <1>t, <1>w, <1>f, <1>g, <1>s, <1>k DEF Public, Selecting
<1> HIDE DEF d
<1>1. TypeOK'
  BY <1>f, <1>g, <1>s, <1>l DEF IInv, TypeOK, LedgerTypeOK, Issued
<1>2. PublicIssued'
  BY <1>g, <1>p DEF IInv, PublicIssued
<1>3. VettedAlone'
  <2>1. ~Vetting(h)'
    BY <1>f DEF Vetting
  <2> QED
    BY <1>f, <1>g, <1>p, <2>1, VettedKept
<1>4. VerifiedAlone'
  <2>1. d \subseteq s.all
    BY <1>w DEF d
  <2> QED
    BY <1>w, <1>f, <1>s, <1>k, <2>1 DEF IInv, VerifiedAlone, Selecting
<1>5. TaskShape'
  BY <1>t, <1>f DEF IInv, TaskShape, Searching, Selecting, Sending, d
<1>6. LockHeld'
  <2>1. \A v \in User : lock[v] \notin {h, None} =>
            lock'[v] = lock[v] /\ (session[v] = NoSession => session'[v] = NoSession)
    BY <1>s, <1>l, <1>k
  <2> QED
    BY <1>f, <2>1, LocksKept DEF Searching
<1>7. SessionShape'
  BY <1>s DEF IInv, SessionShape
<1>8. SelectShape'
  <2>1. d # {} => s.all = d \cup {n}
    BY <1>w DEF d
  <2>2. \A g \in Handler : g # h =>
            /\ task'[g].drop \cap files' = {}
            /\ task'[g].pc = "dropped" => task'[g].drop \cap reserved' = {}
    BY <1>f, <1>g DEF IInv, SelectShape
  <2>3. \A g \in Handler : /\ g # h /\ task'[g].pc \in Selecting
                            /\ task'[g].token \in session'[task'[g].user].all
            => session'[task'[g].user].all = task'[g].drop \cup {task'[g].token}
    <3> SUFFICES ASSUME NEW g \in Handler, g # h, task[g].pc \in Selecting,
                        task[g].token \in session'[task[g].user].all
                 PROVE  session'[task[g].user].all = task[g].drop \cup {task[g].token}
      BY <1>f
    <3>1. session'[task[g].user].all = session[task[g].user].all
      <4>1. task[g].user \in User
        BY DEF IInv, TaskShape, Selecting
      <4> QED
        BY <1>s, <1>k, <4>1
    <3> QED
      BY <3>1 DEF IInv, SelectShape
  <2>4. /\ task'[h].drop \cap files' = {} /\ task'[h].pc # "dropped"
        /\ task'[h].pc \in Selecting => session'[u].all = task'[h].drop \cup {n}
    BY <1>f, <1>g, <1>s, <2>1 DEF Selecting
  <2> QED
    BY <1>f, <2>2, <2>3, <2>4 DEF SelectShape
<1>9. NothingLeaks'
  <2>1. \A g \in Handler : g # h => SearchHolds(g)' = SearchHolds(g)
    BY <1>f DEF SearchHolds
  <2> QED
    BY <1>t, <1>g, <1>s, <1>h, <2>1 DEF IInv, NothingLeaks, Held
<1> QED
  BY <1>1, <1>2, <1>3, <1>4, <1>5, <1>6, <1>7, <1>8, <1>9 DEF IInv

(* Every way a selection starts is that step.                              *)
LEMMA SelectActions ==
  ASSUME IInv, NEW h \in Handler,
         \/ AutoSelect(h) \/ SendSelect(h)
         \/ \E u \in User, t \in Token : PressPick(h, u, t) \/ PressRegenerate(h, u, t)
  PROVE  IInv'
<1>t. /\ session \in [User -> Session] /\ task[h] \in Task
      /\ task[h].pc # "idle" => task[h].user \in User
  BY Typing
<1>1. CASE AutoSelect(h)
  <2>1. PICK t \in task[h].cases :
            BeginSelect(h, task[h].user, NewSession(task[h].cases), t, "send", "select")
    BY <1>1 DEF AutoSelect
  <2>2. /\ NewSession(task[h].cases) \in Session /\ t \in NewSession(task[h].cases).cases
        /\ task[h].pc = "search" /\ task[h].user \in User
    BY <1>t, <1>1 DEF AutoSelect, At, NewSession, Session, Task
  <2>3. UNCHANGED <<ledgerVars, picks, regens, seen>>
    BY <1>1 DEF AutoSelect
  <2> QED
    BY <2>1, <2>2, <2>3, BeginSelectStep
<1>2. CASE SendSelect(h)
  <2> DEFINE u == task[h].user
             t == task[h].token
  <2>1. task[h].pc = "select" /\ u \in User /\ UNCHANGED <<ledgerVars, picks, regens, seen>>
    BY <1>t, <1>2 DEF SendSelect, At
  <2>2. CASE t \in session[u].cases
    <3>1. BeginSelect(h, u, session[u], t, "send", "generate")
      BY <1>2, <2>2 DEF SendSelect
    <3> QED
      BY <1>t, <2>1, <2>2, <3>1, BeginSelectStep
  <2>3. CASE t \notin session[u].cases
    <3>1. Idle \in Task /\ LocalTask(h, Idle)
      BY <1>2, <2>3, Typing DEF SendSelect, Finish, LocalTask, Idle, Searching, Selecting, Sending
    <3>2. LocalState(h)
      BY <1>2, <2>1, <2>3 DEF SendSelect, LocalState, IInv, TypeOK, LedgerTypeOK, Issued,
         SearchHolds, Searching, ledgerVars, seen
    <3> QED
      BY <3>1, <3>2, LocalStep DEF Local
  <2> QED
    BY <2>2, <2>3
<1>3. CASE \E u \in User, t \in Token : PressPick(h, u, t) \/ PressRegenerate(h, u, t)
  <2>1. PICK u \in User, t \in Token : PressPick(h, u, t) \/ PressRegenerate(h, u, t)
    BY <1>3
  <2>2. /\ t \in session[u].cases /\ task[h].pc = "idle"
        /\ UNCHANGED <<ledgerVars, picks, regens, seen>>
        /\ \/ BeginSelect(h, u, session[u], t, "send", "select")
           \/ BeginSelect(h, u, session[u], t, "regen", "generate")
    BY <2>1 DEF PressPick, PressRegenerate, CanPress, At
  <2> QED
    BY <1>t, <2>2, BeginSelectStep
<1> QED
  BY <1>1, <1>2, <1>3

(* select() resumes: the session object keeps the chosen case, unless a    *)
(* new search has replaced the object meanwhile.                           *)
LEMMA FinishSelectStep ==
  ASSUME IInv, NEW h \in Handler, FinishSelect(h)
  PROVE  IInv'
<1> DEFINE u == task[h].user
           n == task[h].token
<1>t. /\ task \in [Handler -> Task] /\ session \in [User -> Session] /\ task[h] \in Task
      /\ u \in User /\ session[u] \in Session /\ task[h].pc = "dropped" /\ n \in Token
  <2>1. task[h].pc = "dropped" /\ task[h] \in Task
    BY Typing DEF FinishSelect, At
  <2>2. n \in Token
    BY <2>1 DEF IInv, TaskShape, Selecting, Task
  <2> QED
    BY <2>1, <2>2, Typing
<1>g. /\ session' = Chosen(u, n)
      /\ judgment' = judgment /\ reserved' = reserved /\ aged' = aged /\ history' = history
      /\ files' = files /\ picks' = picks /\ regens' = regens /\ owner' = owner
      /\ gotPdf' = gotPdf /\ gotDocx' = gotDocx /\ abandoned' = abandoned
  BY DEF FinishSelect, ledgerVars, seen
<1>l. /\ lock' \in [User -> Handler \cup {None}]
      /\ \A v \in User : lock[v] # h => lock'[v] = lock[v]
  BY DEF FinishSelect, Unlock, IInv, TypeOK
<1>f. /\ task'[h].pc \in {"idle", "select", "generate"}
      /\ task'[h].pc # "idle" => task'[h].user = u /\ task'[h].token = n
      /\ task'[h].cases = {} /\ task'[h].drop = {} /\ task'[h].row \in {None, task[h].row}
      /\ task' \in [Handler -> Task]
      /\ \A g \in Handler : g # h => task'[g] = task[g]
  <2>0. task[h].cases = {}
    BY <1>t DEF IInv, TaskShape, Searching
  <2>1. CASE task[h].then = "generate" /\ session[u].all = {}
    <3>1. task' = [task EXCEPT ![h] = Idle]
      BY <2>1 DEF FinishSelect, Finish
    <3>2. Idle \in Task
      BY Typing
    <3> QED
      BY <1>t, <3>1, <3>2 DEF Idle
  <2>2. CASE ~(task[h].then = "generate" /\ session[u].all = {})
    <3> DEFINE r == [task[h] EXCEPT !.pc = task[h].then, !.drop = {}, !.then = "idle"]
    <3>1. task' = [task EXCEPT ![h] = r]
      BY <1>t, <2>2 DEF FinishSelect
    <3>2. r \in Task /\ task[h].then \in {"idle", "select", "generate"}
      BY <1>t DEF Task, PC, Sending
    <3> QED
      BY <1>t, <2>0, <3>1, <3>2 DEF Task
  <2> QED
    BY <2>1, <2>2
<1>s. /\ session' \in [User -> Session]
      /\ session'[u].all = session[u].all
      /\ \A v \in User : v # u => session'[v] = session[v]
      /\ n \in session[u].all =>
             session'[u].cases = {n} /\ session'[u].selected = n
      /\ n \notin session[u].all => session' = session
  <2>1. CASE n \in session[u].all
    <3> DEFINE s1 == [session[u] EXCEPT !.cases = {n}, !.selected = n]
    <3>1. session' = [session EXCEPT ![u] = s1]
      BY <1>t, <1>g, <2>1 DEF Chosen
    <3>2. s1 \in Session
      BY <1>t DEF Session
    <3> QED
      BY <1>t, <2>1, <3>1, <3>2 DEF Session
  <2>2. CASE n \notin session[u].all
    BY <1>t, <1>g, <2>2 DEF Chosen
  <2> QED
    BY <2>1, <2>2
<1>p. \A t \in Token : Public(t)' => Public(t)
  BY <1>t, <1>f, <1>g, <1>s DEF Public, Selecting
<1> HIDE DEF u, n
<1>1. TypeOK'
  BY <1>f, <1>g, <1>s, <1>l DEF IInv, TypeOK, LedgerTypeOK, Issued
<1>2. PublicIssued'
  BY <1>g, <1>p DEF IInv, PublicIssued
<1>3. VettedAlone'
  <2>1. ~Vetting(h)'
    BY <1>f DEF Vetting
  <2> QED
    BY <1>f, <1>g, <1>p, <2>1, VettedKept
<1>4. VerifiedAlone'
  BY <1>t, <1>f, <1>s DEF IInv, VerifiedAlone, Selecting
<1>5. TaskShape'
  BY <1>t, <1>f DEF IInv, TaskShape, Searching, Selecting, Sending, n
<1>6. LockHeld'
  <2>1. \A v \in User : session[v] = NoSession => session'[v] = NoSession
    <3>1. n \in session[u].all => session[u] # NoSession
      BY DEF NoSession, NewSession
    <3> QED
      BY <1>s, <3>1
  <2> QED
    BY <1>f, <1>l, <2>1, LocksKept DEF Searching
<1>7. SessionShape'
  <2>1. WellFormed(session'[u])
    BY <1>t, <1>s DEF IInv, SessionShape, WellFormed
  <2> QED
    BY <1>s, <2>1 DEF IInv, SessionShape
<1>8. SelectShape'
  <2>1. \A v \in User : session'[v].all = session[v].all
    BY <1>s
  <2> QED
    BY <1>t, <1>f, <1>g, <2>1 DEF IInv, SelectShape, TaskShape, Selecting
<1>9. NothingLeaks'
  <2>1. SearchHolds(h) = {} /\ SearchHolds(h)' = {}
    BY <1>t, <1>f DEF SearchHolds, Searching
  <2>2. \A g \in Handler : g # h => SearchHolds(g)' = SearchHolds(g)
    BY <1>f DEF SearchHolds
  <2>3. n \in session[u].all => session[u].cases \cap (files \cup reserved) \subseteq {n}
    BY <1>t DEF IInv, SelectShape, SessionShape, WellFormed, Selecting, u, n
  <2> QED
    BY <1>t, <1>g, <1>s, <2>1, <2>2, <2>3 DEF IInv, NothingLeaks, Held
<1> QED
  BY <1>1, <1>2, <1>3, <1>4, <1>5, <1>6, <1>7, <1>8, <1>9 DEF IInv

-------------------------------------------------------------------------------
(* The environment, and the theorems                                       *)

(* A reservation that expires is still a reservation.                      *)
LEMMA AgesStep ==
  ASSUME IInv, NEW t \in Token, ReservationAges(t)
  PROVE  IInv'
<1>1. /\ aged' = aged \cup {t} /\ t \in reserved
      /\ judgment' = judgment /\ reserved' = reserved /\ history' = history
      /\ files' = files /\ session' = session /\ lock' = lock /\ task' = task
      /\ picks' = picks /\ regens' = regens /\ owner' = owner
      /\ gotPdf' = gotPdf /\ gotDocx' = gotDocx /\ abandoned' = abandoned
  BY DEF ReservationAges, Age, botVars, seen
<1>2. TypeOK'
  BY <1>1 DEF IInv, TypeOK, LedgerTypeOK, Issued
<1>3. PublicIssued' /\ VettedAlone'
  <2>1. \A n : Public(n)' <=> Public(n)
    BY <1>1 DEF Public
  <2> QED
    BY <1>1, <2>1 DEF IInv, PublicIssued, VettedAlone, Vetting
<1>4. VerifiedAlone' /\ TaskShape'
  BY <1>1 DEF IInv, VerifiedAlone, TaskShape
<1>5. LockHeld' /\ SessionShape' /\ SelectShape'
  BY <1>1 DEF IInv, LockHeld, SessionShape, SelectShape
<1>6. NothingLeaks'
  BY <1>1 DEF IInv, NothingLeaks, Held, SearchHolds
<1> QED
  BY <1>2, <1>3, <1>4, <1>5, <1>6 DEF IInv

(* A restart forgets every session and task; what they held is abandoned.  *)
LEMMA RestartStep ==
  ASSUME IInv, Restart
  PROVE  IInv'
<1>1. /\ judgment' = judgment /\ reserved' = reserved /\ aged' = aged /\ history' = history
      /\ picks' = picks /\ regens' = regens /\ owner' = owner
      /\ gotPdf' = gotPdf /\ gotDocx' = gotDocx
      /\ files' \subseteq files /\ abandoned' = abandoned \cup files' \cup reserved
  BY DEF Restart, ledgerVars
<1>2. /\ task' = [h \in Handler |-> Idle] /\ session' = [u \in User |-> NoSession]
      /\ lock' = [u \in User |-> None]
  BY DEF Restart
<1>3. \A h \in Handler : /\ task'[h].pc = "idle" /\ task'[h].cases = {}
                         /\ task'[h].drop = {} /\ task'[h].row = None
  BY <1>2 DEF Idle
<1>4. \A u \in User : session'[u] = NoSession /\ session'[u].all = {}
  BY <1>2 DEF NoSession, NewSession
<1>5. TypeOK'
  <2>1. Idle \in Task /\ NoSession \in Session
    BY DEF Idle, Task, PC, NoSession, NewSession, Session
  <2> QED
    BY <1>1, <1>2, <2>1 DEF IInv, TypeOK, LedgerTypeOK, Issued
<1>6. PublicIssued'
  <2>1. \A t \in Token : Public(t)' => t \in reserved \cup history
    BY <1>1, <1>3, <1>4 DEF Public, Selecting
  <2> QED
    BY <1>1, <2>1 DEF IInv, TypeOK, LedgerTypeOK, PublicIssued, Issued
<1>7. VettedAlone' /\ VerifiedAlone' /\ LockHeld'
  BY <1>3 DEF VettedAlone, Vetting, VerifiedAlone, LockHeld, Searching
<1>8. TaskShape' /\ SelectShape'
  BY <1>3 DEF TaskShape, SelectShape, Searching, Selecting, Sending
<1>9. SessionShape'
  BY <1>4 DEF SessionShape, WellFormed, NoSession, NewSession
<1>10. NothingLeaks'
  BY <1>1 DEF NothingLeaks
<1> QED
  BY <1>5, <1>6, <1>7, <1>8, <1>9, <1>10 DEF IInv

(* The invariant holds of the empty bot.                                   *)
LEMMA InitIInv == Init => IInv
<1> SUFFICES ASSUME Init PROVE IInv
  OBVIOUS
<1>1. /\ \A h \in Handler : task[h] = Idle
      /\ \A u \in User : session[u] = NoSession
  BY DEF Init
<1>2. /\ \A h \in Handler : /\ task[h].pc = "idle" /\ task[h].cases = {}
                            /\ task[h].drop = {} /\ task[h].row = None
      /\ \A u \in User : session[u].all = {}
  BY <1>1 DEF Idle, NoSession, NewSession
<1>3. TypeOK
  <2>1. Idle \in Task /\ NoSession \in Session
    BY DEF Idle, Task, PC, NoSession, NewSession, Session
  <2> QED
    BY <2>1 DEF Init, LedgerInit, TypeOK, LedgerTypeOK, Issued
<1>4. PublicIssued
  BY <1>2 DEF PublicIssued, Public, Selecting, Init, LedgerInit
<1>5. VettedAlone /\ VerifiedAlone /\ LockHeld
  BY <1>2 DEF VettedAlone, Vetting, VerifiedAlone, LockHeld, Searching
<1>6. TaskShape /\ SelectShape
  BY <1>2 DEF TaskShape, SelectShape, Searching, Selecting, Sending
<1>7. SessionShape
  BY <1>1 DEF SessionShape, WellFormed, NoSession, NewSession
<1>8. NothingLeaks
  BY DEF NothingLeaks, Init, LedgerInit
<1> QED
  BY <1>3, <1>4, <1>5, <1>6, <1>7, <1>8 DEF IInv

(* Every step preserves it.                                                *)
LEMMA NextIInv == IInv /\ [Next]_vars => IInv'
<1> SUFFICES ASSUME IInv, [Next]_vars PROVE IInv'
  OBVIOUS
<1>1. ASSUME NEW h \in Handler, Press(h) PROVE IInv'
  BY <1>1, LocalActions, SelectActions DEF Press, LocalAction
<1>2. ASSUME NEW h \in Handler, AcquireLock(h) PROVE IInv'
  BY <1>2, AcquireLockStep
<1>3. ASSUME NEW h \in Handler, Step(h) PROVE IInv'
  <2>1. CASE LocalAction(h)
    BY <2>1, LocalActions
  <2>2. CASE CleanupReleased(h) \/ DropReservations(h)
    BY <2>2, DropStep
  <2>3. CASE \E j \in Judgment, t \in Token : Download(h, j, t)
    BY <2>3, DownloadStep
  <2>4. CASE Reject(h)
    BY <2>4, GiveUpStep DEF Reject, Vetting
  <2>5. CASE CheckUsed(h)
    BY <2>5, GiveUpStep, CheckedStep DEF CheckUsed, Vetting, At
  <2>6. CASE Reserve(h)
    BY <2>6, ReserveStep
  <2>7. CASE OfferCases(h)
    BY <2>7, OfferCasesStep
  <2>8. CASE AutoSelect(h) \/ SendSelect(h)
    BY <2>8, SelectActions
  <2>9. CASE FinishSelect(h)
    BY <2>9, FinishSelectStep
  <2> QED
    BY <1>3, <2>1, <2>2, <2>3, <2>4, <2>5, <2>6, <2>7, <2>8, <2>9 DEF Step, LocalAction
<1>4. ASSUME NEW t \in Token, ReservationAges(t) PROVE IInv'
  BY <1>4, AgesStep
<1>5. CASE Restart
  BY <1>5, RestartStep
<1>6. CASE UNCHANGED vars
  BY <1>6 DEF vars, ledgerVars, botVars, seen, IInv, TypeOK, LedgerTypeOK, Issued, PublicIssued,
     Public, VettedAlone, Vetting, VerifiedAlone, TaskShape, LockHeld, SessionShape, SelectShape,
     NothingLeaks, Held, SearchHolds
<1> QED
  BY <1>1, <1>2, <1>3, <1>4, <1>5, <1>6 DEF Next

(* The inductive invariant, for any number of users, tasks, tokens and     *)
(* judgments, any faults, users who wait for the bot or do not.            *)
THEOREM Inductive == Spec => []IInv
<1>1. Init => IInv
  BY InitIInv
<1>2. IInv /\ [Next]_vars => IInv'
  BY NextIInv
<1> QED
  BY <1>1, <1>2, PTL DEF Spec

(* Every variable of the bot and of its tables keeps its type.             *)
THEOREM TypeCorrect == Spec => []TypeOK
<1>1. IInv => TypeOK
  BY DEF IInv
<1> QED
  BY <1>1, Inductive, PTL

(* No PDF and no reservation is ever left without a session or a search    *)
(* that answers for it, aborted searches and restarts aside.               *)
THEOREM LeakFree == Spec => []NothingLeaks
<1>1. IInv => NothingLeaks
  BY DEF IInv
<1> QED
  BY <1>1, Inductive, PTL

-------------------------------------------------------------------------------
(* The tables                                                              *)

(* The six transactions keep the rows of each table apart.                 *)
LEMMA LedgerKeepsExclusive ==
  ASSUME LedgerTypeOK, LedgerExclusive, [LedgerNext]_ledgerVars
  PROVE  LedgerExclusive'
<1>t. /\ reserved \subseteq Token /\ history \subseteq Token
      /\ \A t \in reserved \cup history : judgment[t] # None
      /\ judgment \in [Token -> Judgment \cup {None}]
  BY DEF LedgerTypeOK, Issued
<1>1. ASSUME NEW t \in Token, NEW j \in Judgment, Issue(t, j)
      PROVE  LedgerExclusive'
  <2>1. /\ reserved' = reserved /\ history' = history
        /\ \A r \in reserved \cup history : judgment'[r] = judgment[r]
    BY <1>t, <1>1 DEF Issue
  <2> QED
    BY <1>t, <2>1 DEF LedgerExclusive, Collide
<1>2. ASSUME NEW t \in Token, Forget(t)
      PROVE  LedgerExclusive'
  <2>1. /\ reserved' = reserved /\ history' = history
        /\ \A r \in reserved \cup history : judgment'[r] = judgment[r]
    BY <1>t, <1>2 DEF Forget
  <2> QED
    BY <1>t, <2>1 DEF LedgerExclusive, Collide
<1>3. ASSUME NEW t \in Token, ReserveCase(t)
      PROVE  LedgerExclusive'
  <2>1. /\ judgment' = judgment /\ history' = history
        /\ reserved' \subseteq reserved \cup {t}
        /\ \A r \in reserved' : r = t \/ ~Collide(judgment[r], judgment[t])
    BY <1>3 DEF ReserveCase, CanReserve, Unexpired
  <2> QED
    BY <2>1 DEF LedgerExclusive, Collide
<1>4. ASSUME NEW t \in Token, RecordCase(t)
      PROVE  LedgerExclusive'
  <2>1. /\ judgment' = judgment /\ reserved' = reserved
        /\ \/ history' = history
           \/ /\ history' = history \cup {t}
              /\ \A r \in history : ~Collide(judgment[r], judgment[t])
    BY <1>4 DEF RecordCase, Used
  <2> QED
    BY <2>1 DEF LedgerExclusive, Collide
<1>5. ASSUME NEW t \in Token, Age(t)
      PROVE  LedgerExclusive'
  BY <1>5 DEF Age, LedgerExclusive
<1>6. ASSUME NEW T \in SUBSET Token, Release(T)
      PROVE  LedgerExclusive'
  BY <1>6 DEF Release, LedgerExclusive
<1>7. CASE UNCHANGED ledgerVars
  BY <1>7 DEF ledgerVars, LedgerExclusive
<1> QED
  BY <1>1, <1>2, <1>3, <1>4, <1>5, <1>6, <1>7 DEF LedgerNext

(* Whatever the handlers do, the tables change by those transactions only, *)
(* and each is called with a token that stands for a judgment.             *)
LEMMA StepsTheLedger ==
  ASSUME IInv, [Next]_vars
  PROVE  [LedgerNext]_ledgerVars
<1>1. ASSUME NEW h \in Handler, Press(h) PROVE UNCHANGED ledgerVars
  BY <1>1 DEF Press, StartSearch, PressPick, PressRegenerate
<1>2. ASSUME NEW h \in Handler, AcquireLock(h) PROVE UNCHANGED ledgerVars
  BY <1>2 DEF AcquireLock
<1>3. ASSUME NEW h \in Handler, Step(h) PROVE [LedgerNext]_ledgerVars
  <2>t. /\ task[h] \in Task
        /\ Vetting(h) => /\ task[h].token \in Token /\ judgment[task[h].token] # None
                         /\ task[h].token \notin reserved
        /\ task[h].row # None => task[h].row \in Token /\ judgment[task[h].row] # None
    BY Typing DEF IInv, VettedAlone, PublicIssued, Public, Task
  <2>d. task[h].drop \in SUBSET Token
    BY <2>t DEF Task
  <2>1. CASE CleanupReleased(h) \/ DropReservations(h)
    BY <2>1, <2>d DEF CleanupReleased, DropReservations, LedgerNext
  <2>2. CASE Unreserve(h)
    <3>1. {task[h].row} \in SUBSET Token
      BY <2>t, <2>2 DEF Unreserve, At, IInv, TaskShape
    <3> QED
      BY <2>2, <3>1 DEF Unreserve, LedgerNext
  <2>3. CASE \E j \in Judgment, t \in Token : Download(h, j, t)
    BY <2>3 DEF Download, LedgerNext
  <2>4. CASE Vetting(h) /\ GiveUp(h)
    BY <2>t, <2>4 DEF GiveUp, LedgerNext
  <2>5. CASE Reject(h)
    BY <2>4, <2>5 DEF Reject, Vetting
  <2>6. CASE CheckUsed(h)
    BY <2>4, <2>6 DEF CheckUsed, At, Vetting
  <2>7. CASE Reserve(h)
    <3>1. Vetting(h)
      BY <2>7 DEF Reserve, At, Vetting
    <3> QED
      BY <2>t, <2>4, <2>7, <3>1 DEF Reserve, LedgerNext
  <2>8. CASE InsertRow(h)
    <3>1. task[h].row # None
      BY <2>8 DEF InsertRow, At, IInv, TaskShape
    <3> QED
      BY <2>t, <2>8, <3>1 DEF InsertRow, LedgerNext
  <2>9. CASE \/ AbortSearch(h) \/ SearchFails(h) \/ OfferCases(h) \/ AutoSelect(h)
             \/ SendSelect(h) \/ MessageRefused(h) \/ DropFails(h) \/ FinishSelect(h) \/ Draft(h) \/ SendPdf(h)
             \/ SendDocx(h) \/ SendFails(h) \/ ReplyLost(h) \/ RecordSent(h) \/ AuditRow(h)
             \/ Complete(h)
    BY <2>9 DEF AbortSearch, SearchFails, OfferCases, AutoSelect, SendSelect, MessageRefused,
       DropFails, FinishSelect, Draft, SendPdf, SendDocx, SendFails, ReplyLost, OfferRetry, RecordSent,
       AuditRow, Complete
  <2> QED
    BY <1>3, <2>1, <2>2, <2>3, <2>5, <2>6, <2>7, <2>8, <2>9 DEF Step
<1>4. ASSUME NEW t \in Token, ReservationAges(t) PROVE LedgerNext
  BY <1>4 DEF ReservationAges, LedgerNext
<1>5. CASE Restart
  BY <1>5 DEF Restart
<1>6. CASE UNCHANGED vars
  BY <1>6 DEF vars
<1> QED
  BY <1>1, <1>2, <1>3, <1>4, <1>5, <1>6 DEF Next

(* The bot implements the ledger: its handlers never write the tables in a *)
(* way CaseLedger does not allow.                                          *)
THEOREM ImplementsLedger == Spec => LedgerSpec
<1>1. Init => LedgerInit
  BY DEF Init
<1>2. IInv /\ [Next]_vars => [LedgerNext]_ledgerVars
  BY StepsTheLedger
<1> QED
  BY <1>1, <1>2, Inductive, PTL DEF Spec, LedgerSpec

(* Two rows never stand for one judgment, however many users search at the *)
(* same time, whatever digests and case numbers their judgments have.      *)
THEOREM Exclusive == Spec => []LedgerExclusive
<1>1. Init => LedgerExclusive
  BY DEF Init, LedgerInit, LedgerExclusive
<1>2. IInv /\ LedgerExclusive /\ [Next]_vars => LedgerExclusive'
  BY StepsTheLedger, LedgerKeepsExclusive DEF IInv, TypeOK
<1> QED
  BY <1>1, <1>2, Inductive, PTL DEF Spec

-------------------------------------------------------------------------------
(* Delivery before the record, for users who wait for the bot              *)

(* A user's handler is alone with the user's session: the token it works   *)
(* on is the one the session has selected, and what the handler has sent   *)
(* so far follows from where it is.                                        *)
Alone == \A g, h \in Handler : task[g].user = task[h].user /\ task[g].user # None => g = h

Delivers(h) ==
    /\ task[h].pc \in Selecting \cup Sending /\ task[h].mode = "regen" => task[h].token \in gotPdf
    /\ task[h].pc \in {"docx", "record", "insert", "audit", "unreserve", "unlink"}
          => task[h].token \in gotPdf
    /\ task[h].pc = "record" => task[h].token \in gotDocx
    /\ task[h].pc = "insert" => task[h].row \in gotPdf \cap gotDocx
    /\ task[h].pc \in Selecting => task[h].token \in session[task[h].user].all
    /\ task[h].pc \in {"generate", "pdf", "docx", "record"}
          => session[task[h].user].selected = task[h].token

DeliveryInv ==
    /\ Alone
    /\ \A h \in Handler : Delivers(h)
    /\ regens \subseteq gotPdf
    /\ RecordedOnlyAfterDelivery

(* A step of h leaves the sessions of other users alone.                   *)
Acts(h) ==
    /\ \A g \in Handler : g # h => task'[g] = task[g]
    /\ \A u \in User : session'[u] = session[u] \/ u \in {task[h].user, task'[h].user}
    /\ task'[h].user \in {None, task[h].user} \/ \A g \in Handler : task[g].user # task'[h].user
    /\ gotPdf \subseteq gotPdf' /\ gotDocx \subseteq gotDocx'

LEMMA ActsAlone ==
  ASSUME IInv, DeliveryInv, NEW h \in Handler, Acts(h), Delivers(h)',
         regens' \subseteq gotPdf', history' \subseteq gotPdf' \cap gotDocx'
  PROVE  DeliveryInv'
<1>1. Alone'
  BY DEF DeliveryInv, Alone, Acts
<1>2. ASSUME NEW g \in Handler, g # h
      PROVE  Delivers(g)'
  <2>1. task'[g] = task[g]
    BY <1>2 DEF Acts
  <2>2. CASE task[g].pc = "idle"
    BY <2>1, <2>2 DEF Delivers, Selecting, Sending
  <2>3. CASE task[g].pc # "idle"
    <3>1. task[g].user \in User
      BY <2>3 DEF IInv, TaskShape
    <3>2. task[g].user \notin {task[h].user, task'[h].user}
      BY <1>2, <3>1 DEF DeliveryInv, Alone, Acts
    <3>3. session'[task[g].user] = session[task[g].user]
      BY <3>1, <3>2 DEF Acts
    <3> QED
      BY <2>1, <3>3 DEF Delivers, DeliveryInv, Acts
  <2> QED
    BY <2>2, <2>3
<1> QED
  BY <1>1, <1>2 DEF DeliveryInv, RecordedOnlyAfterDelivery

(* _select_session_case up to its await, and to the end without one.       *)
LEMMA BeginSelectDelivers ==
  ASSUME IInv, DeliveryInv, NEW h \in Handler, NEW u \in User, NEW s \in Session,
         NEW t \in Token, t \in s.cases, s.cases \subseteq s.all,
         NEW mode \in {"send", "regen"}, mode = "regen" => t \in gotPdf,
         NEW next \in {"select", "generate"},
         BeginSelect(h, u, s, t, mode, next),
         u = task[h].user \/ \A g \in Handler : task[g].user # u,
         UNCHANGED <<ledgerVars, picks, regens, seen>>
  PROVE  DeliveryInv'
<1>t. /\ task \in [Handler -> Task] /\ session \in [User -> Session] /\ Idle \in Task
  BY Typing
<1>0. UNCHANGED <<history, regens, gotPdf, gotDocx>>
  BY DEF ledgerVars, seen
<1> DEFINE S == [session EXCEPT ![u] = s]
<1>1. S \in [User -> Session] /\ S[u] = s /\ \A v \in User : v # u => S[v] = session[v]
  BY <1>t
<1>2. CASE s.cases \ {t} = {}
  <2>1. /\ session' = [S EXCEPT ![u].cases = {t}, ![u].selected = t]
        /\ task' = [task EXCEPT ![h] = [Idle EXCEPT !.pc = next, !.user = u,
                                                    !.mode = mode, !.token = t]]
    BY <1>2 DEF BeginSelect, Discarded
  <2>2. task'[h].pc = next /\ task'[h].user = u /\ task'[h].token = t /\ task'[h].mode = mode
    BY <1>t, <2>1 DEF Idle
  <2>3. session'[u].selected = t /\ \A v \in User : v # u => session'[v] = session[v]
    BY <1>1, <2>1 DEF Session
  <2>4. Acts(h)
    BY <1>t, <1>0, <2>1, <2>2, <2>3 DEF Acts
  <2>5. Delivers(h)'
    BY <1>0, <2>2, <2>3 DEF Delivers, Selecting, Sending
  <2> QED
    BY <1>0, <2>4, <2>5, ActsAlone DEF DeliveryInv, RecordedOnlyAfterDelivery
<1>3. CASE s.cases \ {t} # {}
  <2>1. /\ session' = S
        /\ task' = [task EXCEPT ![h] = [Idle EXCEPT !.pc = "drop", !.user = u,
                                                    !.mode = mode, !.token = t,
                                                    !.drop = s.cases \ {t}, !.then = next]]
    BY <1>3 DEF BeginSelect, Discarded
  <2>2. task'[h].pc = "drop" /\ task'[h].user = u /\ task'[h].token = t /\ task'[h].mode = mode
    BY <1>t, <2>1 DEF Idle
  <2>3. session'[u] = s /\ \A v \in User : v # u => session'[v] = session[v]
    BY <1>1, <2>1
  <2>4. Acts(h)
    BY <1>t, <1>0, <2>1, <2>2, <2>3 DEF Acts
  <2>5. Delivers(h)'
    BY <1>0, <2>2, <2>3 DEF Delivers, Selecting, Sending
  <2> QED
    BY <1>0, <2>4, <2>5, ActsAlone DEF DeliveryInv, RecordedOnlyAfterDelivery
<1> QED
  BY <1>2, <1>3

(* Of the steps of a handler that has nothing to send yet, or is done.     *)
LEMMA QuietSteps ==
  ASSUME IInv, DeliveryInv, NEW h \in Handler,
         \A g \in Handler : g # h => task'[g] = task[g],
         task'[h].pc \in {"idle", "lock"} \cup Searching,
         task'[h].user \in {None, task[h].user} \/ \A g \in Handler : task[g].user # task'[h].user,
         \A u \in User : session'[u] = session[u] \/ u = task[h].user,
         gotPdf \subseteq gotPdf' /\ gotDocx \subseteq gotDocx',
         history' = history, regens' \subseteq gotPdf'
  PROVE  DeliveryInv'
<1>1. Acts(h)
  BY DEF Acts
<1>2. Delivers(h)'
  BY DEF Delivers, Searching, Selecting, Sending
<1> QED
  BY <1>1, <1>2, ActsAlone DEF DeliveryInv, RecordedOnlyAfterDelivery

(* A step within the sending of a case, of the same user and token.        *)
LEMMA SendingSteps ==
  ASSUME IInv, DeliveryInv, NEW h \in Handler,
         \A g \in Handler : g # h => task'[g] = task[g],
         task'[h].user = task[h].user,
         \A u \in User : session'[u] = session[u] \/ u = task[h].user,
         gotPdf \subseteq gotPdf' /\ gotDocx \subseteq gotDocx',
         history' \subseteq gotPdf' \cap gotDocx', regens' = regens,
         Delivers(h)'
  PROVE  DeliveryInv'
<1>1. Acts(h)
  BY DEF Acts
<1>2. regens' \subseteq gotPdf'
  BY DEF DeliveryInv
<1> QED
  BY <1>1, <1>2, ActsAlone

(* Steps that stay before the delivery or give it up.                      *)
LEMMA BeforeDelivery ==
  ASSUME IInv, DeliveryInv, NEW h \in Handler,
         \/ AcquireLock(h)
         \/ CleanupReleased(h)
         \/ \E j \in Judgment, t \in Token : Download(h, j, t)
         \/ Reject(h) \/ CheckUsed(h) \/ Reserve(h) \/ AbortSearch(h) \/ SearchFails(h)
         \/ OfferCases(h) \/ MessageRefused(h) \/ DropFails(h)
  PROVE  DeliveryInv'
<1>t. task \in [Handler -> Task] /\ session \in [User -> Session] /\ Idle \in Task
  BY Typing
<1>i. Idle.pc = "idle" /\ Idle.user = None
  BY DEF Idle
<1>q. ASSUME \A g \in Handler : g # h => task'[g] = task[g],
             task'[h].pc \in {"idle"} \cup Searching,
             task'[h].user \in {None, task[h].user},
             \A u \in User : session'[u] = session[u] \/ u = task[h].user,
             UNCHANGED <<history, regens, gotPdf, gotDocx>>
      PROVE  DeliveryInv'
  BY <1>q, QuietSteps DEF DeliveryInv
<1>1. CASE AcquireLock(h)
  <2>1. UNCHANGED <<history, regens, gotPdf, gotDocx>>
    BY <1>1 DEF AcquireLock, At, ledgerVars, seen
  <2>2. \A u \in User : session'[u] = session[u] \/ u = task[h].user
    BY <1>t, <1>1 DEF AcquireLock, At
  <2>3. /\ \A g \in Handler : g # h => task'[g] = task[g]
        /\ task'[h].pc \in {"idle"} \cup Searching /\ task'[h].user \in {None, task[h].user}
    BY <1>t, <1>i, <1>1 DEF AcquireLock, At, Searching, Task
  <2> QED
    BY <1>q, <2>1, <2>2, <2>3
<1>2. CASE CleanupReleased(h)
  <2>1. UNCHANGED <<history, regens, gotPdf, gotDocx>>
    BY <1>2 DEF CleanupReleased, At, Release, ledgerVars, seen
  <2>2. \A u \in User : session'[u] = session[u] \/ u = task[h].user
    BY <1>t, <1>2 DEF CleanupReleased, At, Release
  <2>3. /\ \A g \in Handler : g # h => task'[g] = task[g]
        /\ task'[h].pc \in {"idle"} \cup Searching /\ task'[h].user \in {None, task[h].user}
    BY <1>t, <1>i, <1>2 DEF CleanupReleased, At, Release, Searching, Task
  <2> QED
    BY <1>q, <2>1, <2>2, <2>3
<1>3. CASE Reject(h)
  <2>1. UNCHANGED <<history, regens, gotPdf, gotDocx>>
    BY <1>3 DEF Reject, GiveUp, Forget, ledgerVars, seen
  <2>2. \A u \in User : session'[u] = session[u] \/ u = task[h].user
    BY <1>t, <1>3 DEF Reject, GiveUp, Forget
  <2>3. /\ \A g \in Handler : g # h => task'[g] = task[g]
        /\ task'[h].pc \in {"idle"} \cup Searching /\ task'[h].user \in {None, task[h].user}
    BY <1>t, <1>i, <1>3 DEF Reject, GiveUp, Forget, Searching, Task
  <2> QED
    BY <1>q, <2>1, <2>2, <2>3
<1>4. CASE CheckUsed(h)
  <2>1. UNCHANGED <<history, regens, gotPdf, gotDocx>>
    BY <1>4 DEF CheckUsed, GiveUp, Forget, Goto, At, ledgerVars, seen
  <2>2. \A u \in User : session'[u] = session[u] \/ u = task[h].user
    BY <1>t, <1>4 DEF CheckUsed, GiveUp, Forget, Goto, At
  <2>3. /\ \A g \in Handler : g # h => task'[g] = task[g]
        /\ task'[h].pc \in {"idle"} \cup Searching /\ task'[h].user \in {None, task[h].user}
    BY <1>t, <1>i, <1>4 DEF CheckUsed, GiveUp, Forget, Goto, At, Searching, Task
  <2> QED
    BY <1>q, <2>1, <2>2, <2>3
<1>5. CASE Reserve(h)
  <2>1. UNCHANGED <<history, regens, gotPdf, gotDocx>>
    BY <1>5 DEF Reserve, ReserveCase, GiveUp, Forget, At, ledgerVars, seen
  <2>2. \A u \in User : session'[u] = session[u] \/ u = task[h].user
    BY <1>t, <1>5 DEF Reserve, ReserveCase, GiveUp, Forget, At
  <2>3. /\ \A g \in Handler : g # h => task'[g] = task[g]
        /\ task'[h].pc \in {"idle"} \cup Searching /\ task'[h].user \in {None, task[h].user}
    BY <1>t, <1>i, <1>5 DEF Reserve, ReserveCase, GiveUp, Forget, At, Searching, Task
  <2> QED
    BY <1>q, <2>1, <2>2, <2>3
<1>6. CASE AbortSearch(h)
  <2>1. UNCHANGED <<history, regens, gotPdf, gotDocx>>
    BY <1>6 DEF AbortSearch, Finish, ledgerVars, seen
  <2>2. \A u \in User : session'[u] = session[u] \/ u = task[h].user
    BY <1>t, <1>6 DEF AbortSearch, Finish
  <2>3. /\ \A g \in Handler : g # h => task'[g] = task[g]
        /\ task'[h].pc \in {"idle"} \cup Searching /\ task'[h].user \in {None, task[h].user}
    BY <1>t, <1>i, <1>6 DEF AbortSearch, Finish, Searching, Task
  <2> QED
    BY <1>q, <2>1, <2>2, <2>3
<1>7. CASE SearchFails(h)
  <2>1. UNCHANGED <<history, regens, gotPdf, gotDocx>>
    BY <1>7 DEF SearchFails, Finish, At, ledgerVars, seen
  <2>2. \A u \in User : session'[u] = session[u] \/ u = task[h].user
    BY <1>t, <1>7 DEF SearchFails, Finish, At
  <2>3. /\ \A g \in Handler : g # h => task'[g] = task[g]
        /\ task'[h].pc \in {"idle"} \cup Searching /\ task'[h].user \in {None, task[h].user}
    BY <1>t, <1>i, <1>7 DEF SearchFails, Finish, At, Searching, Task
  <2> QED
    BY <1>q, <2>1, <2>2, <2>3
<1>8. CASE OfferCases(h)
  <2>1. UNCHANGED <<history, regens, gotPdf, gotDocx>>
    BY <1>8 DEF OfferCases, Finish, At, ledgerVars, seen
  <2>2. \A u \in User : session'[u] = session[u] \/ u = task[h].user
    BY <1>t, <1>8 DEF OfferCases, Finish, At
  <2>3. /\ \A g \in Handler : g # h => task'[g] = task[g]
        /\ task'[h].pc \in {"idle"} \cup Searching /\ task'[h].user \in {None, task[h].user}
    BY <1>t, <1>i, <1>8 DEF OfferCases, Finish, At, Searching, Task
  <2> QED
    BY <1>q, <2>1, <2>2, <2>3
<1>9. CASE MessageRefused(h)
  <2>1. UNCHANGED <<history, regens, gotPdf, gotDocx>>
    BY <1>9 DEF MessageRefused, Finish, At, ledgerVars, seen
  <2>2. \A u \in User : session'[u] = session[u] \/ u = task[h].user
    BY <1>t, <1>9 DEF MessageRefused, Finish, At
  <2>3. /\ \A g \in Handler : g # h => task'[g] = task[g]
        /\ task'[h].pc \in {"idle"} \cup Searching /\ task'[h].user \in {None, task[h].user}
    BY <1>t, <1>i, <1>9 DEF MessageRefused, Finish, At, Searching, Task
  <2> QED
    BY <1>q, <2>1, <2>2, <2>3
<1>10. CASE DropFails(h)
  <2>1. UNCHANGED <<history, regens, gotPdf, gotDocx>>
    BY <1>10 DEF DropFails, Finish, At, ledgerVars, seen
  <2>2. \A u \in User : session'[u] = session[u] \/ u = task[h].user
    BY <1>t, <1>10 DEF DropFails, Finish, At
  <2>3. /\ \A g \in Handler : g # h => task'[g] = task[g]
        /\ task'[h].pc \in {"idle"} \cup Searching /\ task'[h].user \in {None, task[h].user}
    BY <1>t, <1>i, <1>10 DEF DropFails, Finish, At, Searching, Task
  <2> QED
    BY <1>q, <2>1, <2>2, <2>3
<1>11. CASE \E j \in Judgment, t \in Token : Download(h, j, t)
  <2> PICK j \in Judgment, t \in Token : Download(h, j, t)
    BY <1>11
  <2>1. UNCHANGED <<history, regens, gotPdf, gotDocx, session>>
    BY DEF Download, At, Issue
  <2>3. /\ \A g \in Handler : g # h => task'[g] = task[g]
        /\ task'[h].pc \in {"idle"} \cup Searching /\ task'[h].user \in {None, task[h].user}
    BY <1>t DEF Download, At, Issue, Searching, Task
  <2> QED
    BY <1>q, <2>1, <2>3
<1> QED
  BY <1>1, <1>2, <1>3, <1>4, <1>5, <1>6, <1>7, <1>8, <1>9, <1>10, <1>11

(* A handler that stops sending offers the commentary again only once the  *)
(* judgment was sent.                                                      *)
LEMMA AfterDelivery ==
  ASSUME IInv, DeliveryInv, NEW h \in Handler,
         SendFails(h) \/ ReplyLost(h) \/ Complete(h)
  PROVE  DeliveryInv'
<1>t. task \in [Handler -> Task] /\ session \in [User -> Session] /\ Idle \in Task
  BY Typing
<1>i. Idle.pc = "idle" /\ Idle.user = None
  BY DEF Idle
<1>1. task' = [task EXCEPT ![h] = Idle]
  BY DEF SendFails, ReplyLost, Complete, OfferRetry, Finish
<1>2. session' = session /\ history' = history
  BY DEF SendFails, ReplyLost, Complete, OfferRetry, ledgerVars
<1>3. gotPdf \subseteq gotPdf' /\ gotDocx \subseteq gotDocx'
  BY DEF SendFails, ReplyLost, Complete, seen
<1>4. regens' \subseteq regens \/ (regens' = regens \cup {task[h].token} /\ task[h].token \in gotPdf)
  BY DEF SendFails, ReplyLost, Complete, OfferRetry, RetryWithPdf, DeliveryInv, Delivers, At
<1>5. regens' \subseteq gotPdf'
  BY <1>3, <1>4 DEF DeliveryInv
<1>6. /\ \A g \in Handler : g # h => task'[g] = task[g]
      /\ task'[h].pc = "idle" /\ task'[h].user = None
  BY <1>t, <1>i, <1>1
<1> QED
  BY <1>2, <1>3, <1>5, <1>6, QuietSteps

(* The presses of a user who waits, and the three selections.              *)
LEMMA Selections ==
  ASSUME Sequential, IInv, DeliveryInv, NEW h \in Handler,
         Press(h) \/ AutoSelect(h) \/ SendSelect(h)
  PROVE  DeliveryInv'
<1>t. /\ task \in [Handler -> Task] /\ session \in [User -> Session] /\ Idle \in Task
      /\ task[h] \in Task /\ task[h].pc # "idle" => task[h].user \in User
  BY Typing
<1>i. Idle.pc = "idle" /\ Idle.user = None
  BY DEF Idle
<1>w. \A u \in User : session[u] \in Session /\ session[u].cases \subseteq session[u].all
  BY <1>t DEF IInv, SessionShape, WellFormed
<1>1. ASSUME NEW u \in User, StartSearch(h, u)
      PROVE  DeliveryInv'
  <2>1. task' = [task EXCEPT ![h] = [Idle EXCEPT !.pc = "lock", !.user = u]]
    BY <1>1 DEF StartSearch
  <2>2. task'[h].pc = "lock" /\ task'[h].user = u /\ \A g \in Handler : g # h => task'[g] = task[g]
    BY <1>t, <2>1 DEF Idle
  <2>3. \A g \in Handler : task[g].user # u
    BY <1>1 DEF StartSearch, CanPress, Quiet
  <2>4. UNCHANGED <<session, history, regens, gotPdf, gotDocx>>
    BY <1>1 DEF StartSearch, ledgerVars, seen
  <2> QED
    BY <2>2, <2>3, <2>4, QuietSteps DEF DeliveryInv
<1>2. ASSUME NEW u \in User, NEW t \in Token, PressPick(h, u, t)
      PROVE  DeliveryInv'
  <2>1. /\ t \in session[u].cases /\ \A g \in Handler : task[g].user # u
        /\ BeginSelect(h, u, session[u], t, "send", "select")
        /\ UNCHANGED <<ledgerVars, picks, regens, seen>>
    BY <1>2 DEF PressPick, CanPress, Quiet
  <2> QED
    BY <1>w, <2>1, BeginSelectDelivers
<1>3. ASSUME NEW u \in User, NEW t \in Token, PressRegenerate(h, u, t)
      PROVE  DeliveryInv'
  <2>1. /\ t \in session[u].cases /\ \A g \in Handler : task[g].user # u
        /\ BeginSelect(h, u, session[u], t, "regen", "generate")
        /\ UNCHANGED <<ledgerVars, picks, regens, seen>>
    BY <1>3 DEF PressRegenerate, CanPress, Quiet
  <2>2. t \in gotPdf
    BY <1>3 DEF PressRegenerate, DeliveryInv
  <2> QED
    BY <1>w, <2>1, <2>2, BeginSelectDelivers
<1>4. CASE AutoSelect(h)
  <2>0. At(h, "search") /\ UNCHANGED <<ledgerVars, picks, regens, seen>>
    BY <1>4 DEF AutoSelect
  <2> PICK t \in task[h].cases :
          BeginSelect(h, task[h].user, NewSession(task[h].cases), t, "send", "select")
    BY <1>4 DEF AutoSelect
  <2>1. task[h].user \in User
    BY <1>t, <2>0 DEF At
  <2>2. t \in Token /\ NewSession(task[h].cases) \in Session
    BY <1>t DEF Task, Session, NewSession
  <2>3. t \in NewSession(task[h].cases).cases
        /\ NewSession(task[h].cases).cases \subseteq NewSession(task[h].cases).all
    BY DEF NewSession
  <2> QED
    BY <2>0, <2>1, <2>2, <2>3, BeginSelectDelivers
<1>5. CASE SendSelect(h)
  <2>0. At(h, "select") /\ UNCHANGED <<ledgerVars, picks, regens, seen>>
    BY <1>5 DEF SendSelect
  <2>1. task[h].user \in User
    BY <1>t, <2>0 DEF At
  <2>2. CASE task[h].token \in session[task[h].user].cases
    <3>1. BeginSelect(h, task[h].user, session[task[h].user], task[h].token, "send", "generate")
      BY <1>5, <2>2 DEF SendSelect
    <3>2. task[h].token \in Token
      BY <1>w, <2>1, <2>2 DEF Session
    <3> QED
      BY <1>w, <2>0, <2>1, <2>2, <3>1, <3>2, BeginSelectDelivers
  <2>3. CASE task[h].token \notin session[task[h].user].cases
    <3>1. task' = [task EXCEPT ![h] = Idle] /\ session' = session
      BY <1>5, <2>3 DEF SendSelect, Finish
    <3>2. UNCHANGED <<history, regens, gotPdf, gotDocx>>
      BY <2>0 DEF ledgerVars, seen
    <3>3. /\ \A g \in Handler : g # h => task'[g] = task[g]
          /\ task'[h].pc = "idle" /\ task'[h].user = None
      BY <1>t, <1>i, <3>1
    <3> QED
      BY <3>1, <3>2, <3>3, QuietSteps DEF DeliveryInv
  <2> QED
    BY <2>2, <2>3
<1> QED
  BY <1>1, <1>2, <1>3, <1>4, <1>5 DEF Press

(* The deliveries and the record.                                          *)
LEMMA Deliveries ==
  ASSUME IInv, DeliveryInv, NEW h \in Handler,
         DropReservations(h) \/ Draft(h) \/ SendPdf(h) \/ SendDocx(h)
         \/ RecordSent(h) \/ InsertRow(h) \/ AuditRow(h) \/ Unreserve(h) \/ FinishSelect(h)
  PROVE  DeliveryInv'
<1>t. /\ task \in [Handler -> Task] /\ session \in [User -> Session]
      /\ task[h] \in Task /\ task[h].pc # "idle" => task[h].user \in User
  BY Typing
<1>d. /\ Delivers(h) /\ history \subseteq gotPdf \cap gotDocx
  BY DEF DeliveryInv, RecordedOnlyAfterDelivery
<1>1. CASE DropReservations(h)
  <2>1. gotPdf \subseteq gotPdf' /\ gotDocx \subseteq gotDocx' /\ regens' = regens
    BY <1>1 DEF DropReservations, Release, Goto, At, seen
  <2>2. history' \subseteq gotPdf' \cap gotDocx'
    BY <1>d, <1>1, <2>1 DEF DropReservations, Release, Goto, At, ledgerVars, Delivers
  <2>3. \A u \in User : /\ session'[u] = session[u] \/ u = task[h].user
                        /\ session'[u].all = session[u].all /\ session'[u].selected = session[u].selected
    BY <1>t, <1>1 DEF DropReservations, Release, Goto, At, Session
  <2>4. /\ \A g \in Handler : g # h => task'[g] = task[g]
        /\ task'[h].user = task[h].user
    BY <1>t, <1>1 DEF DropReservations, Release, Goto, At, Task
  <2>5. Delivers(h)'
    BY <1>t, <1>d, <1>1, <2>1, <2>3 DEF DropReservations, Release, Goto, At, Delivers, Task, Selecting, Sending
  <2> QED
    BY <2>1, <2>2, <2>3, <2>4, <2>5, SendingSteps
<1>2. CASE Draft(h)
  <2>1. gotPdf \subseteq gotPdf' /\ gotDocx \subseteq gotDocx' /\ regens' = regens
    BY <1>2 DEF Draft, Goto, At, seen
  <2>2. history' \subseteq gotPdf' \cap gotDocx'
    BY <1>d, <1>2, <2>1 DEF Draft, Goto, At, ledgerVars, Delivers
  <2>3. \A u \in User : /\ session'[u] = session[u] \/ u = task[h].user
                        /\ session'[u].all = session[u].all /\ session'[u].selected = session[u].selected
    BY <1>t, <1>2 DEF Draft, Goto, At, Session
  <2>4. /\ \A g \in Handler : g # h => task'[g] = task[g]
        /\ task'[h].user = task[h].user
    BY <1>t, <1>2 DEF Draft, Goto, At, Task
  <2>5. Delivers(h)'
    BY <1>t, <1>d, <1>2, <2>1, <2>3 DEF Draft, Goto, At, Delivers, Task, Selecting, Sending
  <2> QED
    BY <2>1, <2>2, <2>3, <2>4, <2>5, SendingSteps
<1>3. CASE SendPdf(h)
  <2>1. gotPdf \subseteq gotPdf' /\ gotDocx \subseteq gotDocx' /\ regens' = regens
    BY <1>3 DEF SendPdf, Goto, At, seen
  <2>2. history' \subseteq gotPdf' \cap gotDocx'
    BY <1>d, <1>3, <2>1 DEF SendPdf, Goto, At, ledgerVars, Delivers
  <2>3. \A u \in User : /\ session'[u] = session[u] \/ u = task[h].user
                        /\ session'[u].all = session[u].all /\ session'[u].selected = session[u].selected
    BY <1>t, <1>3 DEF SendPdf, Goto, At, Session
  <2>4. /\ \A g \in Handler : g # h => task'[g] = task[g]
        /\ task'[h].user = task[h].user
    BY <1>t, <1>3 DEF SendPdf, Goto, At, Task
  <2>5. Delivers(h)'
    BY <1>t, <1>d, <1>3, <2>1, <2>3 DEF SendPdf, Goto, At, Delivers, Task, Selecting, Sending
  <2> QED
    BY <2>1, <2>2, <2>3, <2>4, <2>5, SendingSteps
<1>4. CASE SendDocx(h)
  <2>1. gotPdf \subseteq gotPdf' /\ gotDocx \subseteq gotDocx' /\ regens' = regens
    BY <1>4 DEF SendDocx, Goto, At, seen
  <2>2. history' \subseteq gotPdf' \cap gotDocx'
    BY <1>d, <1>4, <2>1 DEF SendDocx, Goto, At, ledgerVars, Delivers
  <2>3. \A u \in User : /\ session'[u] = session[u] \/ u = task[h].user
                        /\ session'[u].all = session[u].all /\ session'[u].selected = session[u].selected
    BY <1>t, <1>4 DEF SendDocx, Goto, At, Session
  <2>4. /\ \A g \in Handler : g # h => task'[g] = task[g]
        /\ task'[h].user = task[h].user
    BY <1>t, <1>4 DEF SendDocx, Goto, At, Task
  <2>5. Delivers(h)'
    BY <1>t, <1>d, <1>4, <2>1, <2>3 DEF SendDocx, Goto, At, Delivers, Task, Selecting, Sending
  <2> QED
    BY <2>1, <2>2, <2>3, <2>4, <2>5, SendingSteps
<1>5. CASE RecordSent(h)
  <2>1. gotPdf \subseteq gotPdf' /\ gotDocx \subseteq gotDocx' /\ regens' = regens
    BY <1>5 DEF RecordSent, Mine, At, seen
  <2>2. history' \subseteq gotPdf' \cap gotDocx'
    BY <1>d, <1>5, <2>1 DEF RecordSent, Mine, At, ledgerVars, Delivers
  <2>3. \A u \in User : /\ session'[u] = session[u] \/ u = task[h].user
                        /\ session'[u].all = session[u].all /\ session'[u].selected = session[u].selected
    BY <1>t, <1>5 DEF RecordSent, Mine, At, Session
  <2>4. /\ \A g \in Handler : g # h => task'[g] = task[g]
        /\ task'[h].user = task[h].user
    BY <1>t, <1>5 DEF RecordSent, Mine, At, Task
  <2>5. Delivers(h)'
    BY <1>t, <1>d, <1>5, <2>1, <2>3 DEF RecordSent, Mine, At, Delivers, Task, Selecting, Sending
  <2> QED
    BY <2>1, <2>2, <2>3, <2>4, <2>5, SendingSteps
<1>6. CASE InsertRow(h)
  <2>1. gotPdf \subseteq gotPdf' /\ gotDocx \subseteq gotDocx' /\ regens' = regens
    BY <1>6 DEF InsertRow, RecordCase, Goto, At, seen
  <2>2. history' \subseteq gotPdf' \cap gotDocx'
    BY <1>d, <1>6, <2>1 DEF InsertRow, RecordCase, Goto, At, ledgerVars, Delivers
  <2>3. \A u \in User : /\ session'[u] = session[u] \/ u = task[h].user
                        /\ session'[u].all = session[u].all /\ session'[u].selected = session[u].selected
    BY <1>t, <1>6 DEF InsertRow, RecordCase, Goto, At, Session
  <2>4. /\ \A g \in Handler : g # h => task'[g] = task[g]
        /\ task'[h].user = task[h].user
    BY <1>t, <1>6 DEF InsertRow, RecordCase, Goto, At, Task
  <2>5. Delivers(h)'
    BY <1>t, <1>d, <1>6, <2>1, <2>3 DEF InsertRow, RecordCase, Goto, At, Delivers, Task, Selecting, Sending
  <2> QED
    BY <2>1, <2>2, <2>3, <2>4, <2>5, SendingSteps
<1>7. CASE AuditRow(h)
  <2>1. gotPdf \subseteq gotPdf' /\ gotDocx \subseteq gotDocx' /\ regens' = regens
    BY <1>7 DEF AuditRow, Goto, At, seen
  <2>2. history' \subseteq gotPdf' \cap gotDocx'
    BY <1>d, <1>7, <2>1 DEF AuditRow, Goto, At, ledgerVars, Delivers
  <2>3. \A u \in User : /\ session'[u] = session[u] \/ u = task[h].user
                        /\ session'[u].all = session[u].all /\ session'[u].selected = session[u].selected
    BY <1>t, <1>7 DEF AuditRow, Goto, At, Session
  <2>4. /\ \A g \in Handler : g # h => task'[g] = task[g]
        /\ task'[h].user = task[h].user
    BY <1>t, <1>7 DEF AuditRow, Goto, At, Task
  <2>5. Delivers(h)'
    BY <1>t, <1>d, <1>7, <2>1, <2>3 DEF AuditRow, Goto, At, Delivers, Task, Selecting, Sending
  <2> QED
    BY <2>1, <2>2, <2>3, <2>4, <2>5, SendingSteps
<1>8. CASE Unreserve(h)
  <2>1. gotPdf \subseteq gotPdf' /\ gotDocx \subseteq gotDocx' /\ regens' = regens
    BY <1>8 DEF Unreserve, Release, Goto, At, seen
  <2>2. history' \subseteq gotPdf' \cap gotDocx'
    BY <1>d, <1>8, <2>1 DEF Unreserve, Release, Goto, At, ledgerVars, Delivers
  <2>3. \A u \in User : /\ session'[u] = session[u] \/ u = task[h].user
                        /\ session'[u].all = session[u].all /\ session'[u].selected = session[u].selected
    BY <1>t, <1>8 DEF Unreserve, Release, Goto, At, Session
  <2>4. /\ \A g \in Handler : g # h => task'[g] = task[g]
        /\ task'[h].user = task[h].user
    BY <1>t, <1>8 DEF Unreserve, Release, Goto, At, Task
  <2>5. Delivers(h)'
    BY <1>t, <1>d, <1>8, <2>1, <2>3 DEF Unreserve, Release, Goto, At, Delivers, Task, Selecting, Sending
  <2> QED
    BY <2>1, <2>2, <2>3, <2>4, <2>5, SendingSteps
<1>9. CASE FinishSelect(h)
  <2>1. /\ At(h, "dropped") /\ session' = Chosen(task[h].user, task[h].token)
        /\ UNCHANGED <<history, regens, gotPdf, gotDocx>>
    BY <1>9 DEF FinishSelect, ledgerVars, seen
  <2>2. task[h].user \in User /\ task[h].token \in session[task[h].user].all
    BY <1>t, <1>d, <2>1 DEF At, Delivers, Selecting
  <2>3. /\ session'[task[h].user].selected = task[h].token
        /\ \A u \in User : u # task[h].user => session'[u] = session[u]
    BY <1>t, <2>1, <2>2 DEF Chosen, Session
  <2>4. CASE task' = [task EXCEPT ![h] = Idle]
    <3>1. /\ \A g \in Handler : g # h => task'[g] = task[g]
          /\ task'[h].pc = "idle" /\ task'[h].user = None
      BY <1>t, <2>4 DEF Idle
    <3> QED
      BY <2>1, <2>3, <3>1, QuietSteps DEF DeliveryInv
  <2>5. CASE task' = [task EXCEPT ![h].pc = task[h].then, ![h].drop = {}, ![h].then = "idle"]
    <3>1. /\ \A g \in Handler : g # h => task'[g] = task[g]
          /\ task'[h].user = task[h].user /\ task'[h].token = task[h].token
          /\ task'[h].mode = task[h].mode /\ task'[h].pc = task[h].then
      BY <1>t, <2>5 DEF Task
    <3>2. task[h].then \in {"idle", "select", "generate"}
      BY <1>t DEF Task
    <3>3. Delivers(h)'
      BY <1>d, <2>1, <2>3, <3>1, <3>2 DEF Delivers, At, Selecting, Sending
    <3> QED
      BY <1>d, <2>1, <2>3, <3>1, <3>3, SendingSteps
  <2> QED
    BY <1>9, <2>4, <2>5 DEF FinishSelect, Finish
<1> QED
  BY <1>1, <1>2, <1>3, <1>4, <1>5, <1>6, <1>7, <1>8, <1>9

LEMMA DeliveryStep == Sequential /\ IInv /\ DeliveryInv /\ [Next]_vars => DeliveryInv'
<1> SUFFICES ASSUME Sequential, IInv, DeliveryInv, [Next]_vars
             PROVE  DeliveryInv'
  OBVIOUS
<1>1. ASSUME NEW h \in Handler, Press(h) \/ AcquireLock(h) \/ Step(h)
      PROVE  DeliveryInv'
  BY <1>1, BeforeDelivery, AfterDelivery, Selections, Deliveries DEF Step
<1>2. ASSUME NEW t \in Token, ReservationAges(t)
      PROVE  DeliveryInv'
  BY <1>2 DEF ReservationAges, Age, botVars, seen, DeliveryInv, Alone, Delivers,
     RecordedOnlyAfterDelivery
<1>3. CASE Restart
  <2>1. task' = [h \in Handler |-> Idle] /\ UNCHANGED <<history, regens, gotPdf, gotDocx>>
    BY <1>3 DEF Restart, ledgerVars
  <2>2. \A h \in Handler : task'[h].pc = "idle" /\ task'[h].user = None
    BY <2>1 DEF Idle
  <2> QED
    BY <2>1, <2>2 DEF DeliveryInv, Alone, Delivers, RecordedOnlyAfterDelivery, Selecting, Sending
<1>4. CASE UNCHANGED vars
  BY <1>4 DEF vars, ledgerVars, botVars, seen, DeliveryInv, Alone, Delivers,
     RecordedOnlyAfterDelivery
<1> QED
  BY <1>1, <1>2, <1>3, <1>4 DEF Next

(* For users who wait for the bot before they press again, a judgment is   *)
(* recorded as used only after both files reached its user, whatever fails *)
(* in between.                                                             *)
THEOREM RecordedAfterDelivery ==
  ASSUME Sequential
  PROVE  Spec => []RecordedOnlyAfterDelivery
<1>1. Init => DeliveryInv
  BY DEF Init, LedgerInit, DeliveryInv, Alone, Delivers, RecordedOnlyAfterDelivery, Idle,
     Selecting, Sending
<1>2. IInv /\ DeliveryInv /\ [Next]_vars => DeliveryInv'
  BY DeliveryStep
<1>3. DeliveryInv => RecordedOnlyAfterDelivery
  BY DEF DeliveryInv
<1> QED
  BY <1>1, <1>2, <1>3, Inductive, PTL DEF Spec

-------------------------------------------------------------------------------
(* What belongs to a user is taken away by that user's tasks alone         *)

(* Every token a session or a task refers to came from its user's search.  *)
Theirs(h) ==
    /\ \A t \in task[h].cases \cup task[h].drop : owner[t] = task[h].user
    /\ Vetting(h) => owner[task[h].token] = task[h].user
    /\ task[h].row # None => owner[task[h].row] = task[h].user

OwnerInv ==
    /\ \A u \in User : \A t \in session[u].all : owner[t] = u
    /\ \A h \in Handler : Theirs(h)

Taken(t) == t \in (reserved \ aged) \ reserved' \/ t \in files \ files'

(* Task h alone moves, and takes from its own user only.                   *)
TakesOwn(h) ==
    /\ \A g \in Handler : g # h => task'[g] = task[g]
    /\ task'[h] # task[h]
    /\ \A t \in Token : Taken(t) => owner[t] \in {task[h].user, task'[h].user}

(* A step of h that names no owner anew but for a candidate only h knows,  *)
(* and puts its own user's tokens only into a session.                     *)
LEMMA OwnerStep ==
  ASSUME IInv, OwnerInv, NEW h \in Handler, TakesOwn(h), Theirs(h)',
         \A t \in Token : \/ owner'[t] = owner[t]
                          \/ /\ ~Public(t)
                             /\ \A g \in Handler : g # h /\ Vetting(g) => task[g].token # t,
         \A u \in User : \A t \in session'[u].all : t \in session[u].all \/ owner'[t] = u
  PROVE  OwnerInv'
<1>t. /\ task \in [Handler -> Task] /\ session \in [User -> Session]
      /\ \A g \in Handler : task[g] \in Task
  BY Typing
<1>1. ASSUME NEW t \in Token, Public(t) PROVE owner'[t] = owner[t]
  BY <1>1
<1>2. ASSUME NEW u \in User, NEW t \in session'[u].all PROVE owner'[t] = u
  <2>1. CASE t \in session[u].all
    <3>1. t \in Token /\ Public(t) /\ owner[t] = u
      BY <1>t, <2>1 DEF Session, Public, OwnerInv
    <3> QED
      BY <1>1, <3>1
  <2> QED
    BY <1>2, <2>1
<1>3. ASSUME NEW g \in Handler, g # h PROVE Theirs(g)'
  <2>1. task'[g] = task[g] /\ Theirs(g)
    BY <1>3 DEF TakesOwn, OwnerInv
  <2>2. ASSUME NEW t \in task[g].cases \cup task[g].drop PROVE owner'[t] = owner[t]
    <3>1. t \in Token /\ Public(t)
      BY <1>t DEF Task, Public
    <3> QED
      BY <1>1, <3>1
  <2>3. task[g].row # None => owner'[task[g].row] = owner[task[g].row]
    <3>1. task[g].row # None => task[g].row \in Token /\ Public(task[g].row)
      BY <1>t DEF Task, Public
    <3> QED
      BY <1>1, <3>1
  <2>4. Vetting(g) => owner'[task[g].token] = owner[task[g].token]
    <3>1. Vetting(g) => task[g].token \in Token
      BY <1>t DEF IInv, VettedAlone, Task
    <3> QED
      BY <1>3, <3>1
  <2> QED
    BY <2>1, <2>2, <2>3, <2>4 DEF Theirs, Vetting
<1> QED
  BY <1>2, <1>3 DEF OwnerInv

(* A step that leaves owners and session contents alone, of a task that    *)
(* holds nothing afterwards but perhaps the row it is about to record.     *)
LEMMA OwnerKept ==
  ASSUME IInv, OwnerInv, NEW h \in Handler, TakesOwn(h), owner' = owner,
         \A u \in User : session'[u].all = session[u].all,
         task'[h].cases = {}, task'[h].drop = {}, ~Vetting(h)',
         \/ task'[h].row = None
         \/ /\ task'[h].user = task[h].user
            /\ \/ task'[h].row = task[h].row
               \/ task[h].user \in User /\ task'[h].row \in session[task[h].user].all
  PROVE  OwnerInv'
<1>1. Theirs(h)'
  BY DEF Theirs, OwnerInv
<1> QED
  BY <1>1, OwnerStep

(* Handlers that end.                                                      *)
LEMMA OwnerEnds ==
  ASSUME IInv, OwnerInv, NEW h \in Handler,
         \/ AbortSearch(h) \/ SearchFails(h) \/ DropFails(h) \/ MessageRefused(h)
         \/ SendFails(h) \/ ReplyLost(h) \/ Complete(h)
  PROVE  OwnerInv' /\ TakesOwn(h)
<1>t. task \in [Handler -> Task] /\ task[h] \in Task
  BY Typing
<1>1. task' = [task EXCEPT ![h] = Idle] /\ task[h].pc # "idle" /\ UNCHANGED <<owner, session, reserved>>
  <2>1. CASE AbortSearch(h) \/ SearchFails(h) \/ DropFails(h) \/ MessageRefused(h)
    BY <2>1 DEF AbortSearch, SearchFails, DropFails, MessageRefused, At, Finish, Searching,
       ledgerVars, seen
  <2>2. CASE SendFails(h) \/ ReplyLost(h) \/ Complete(h)
    BY <2>2 DEF SendFails, ReplyLost, Complete, OfferRetry, At, Finish, ledgerVars, seen
  <2> QED
    BY <2>1, <2>2
<1>2. files' = files \/ files' = files \ {task[h].row}
  <2>1. CASE AbortSearch(h) \/ SearchFails(h) \/ DropFails(h) \/ MessageRefused(h)
    BY <2>1 DEF AbortSearch, SearchFails, DropFails, MessageRefused
  <2>2. CASE SendFails(h) \/ ReplyLost(h) \/ Complete(h)
    BY <2>2 DEF SendFails, ReplyLost, Complete, OfferRetry
  <2> QED
    BY <2>1, <2>2
<1>3. task'[h] = Idle /\ task'[h] # task[h] /\ \A g \in Handler : g # h => task'[g] = task[g]
  BY <1>t, <1>1 DEF Idle
<1>4. TakesOwn(h)
  <2>1. ASSUME NEW t \in Token, Taken(t) PROVE owner[t] = task[h].user
    <3>1. t = task[h].row
      BY <1>1, <1>2, <2>1 DEF Taken
    <3> QED
      BY <3>1 DEF OwnerInv, Theirs
  <2> QED
    BY <1>3, <2>1 DEF TakesOwn
<1>5. /\ task'[h].cases = {} /\ task'[h].drop = {} /\ ~Vetting(h)' /\ task'[h].row = None
  BY <1>3 DEF Idle, Vetting
<1> QED
  BY <1>1, <1>4, <1>5, OwnerKept

(* A new search, and sending up to the record.                             *)
LEMMA OwnerGoesOn ==
  ASSUME IInv, OwnerInv, NEW h \in Handler,
         \/ \E u \in User : StartSearch(h, u)
         \/ Draft(h) \/ SendPdf(h) \/ SendDocx(h) \/ RecordSent(h) \/ InsertRow(h)
         \/ AuditRow(h) \/ Unreserve(h)
  PROVE  OwnerInv' /\ TakesOwn(h)
<1>t. /\ task \in [Handler -> Task] /\ session \in [User -> Session] /\ task[h] \in Task
      /\ task[h].pc # "idle" => task[h].user \in User /\ session[task[h].user] \in Session
  BY Typing
<1>1. CASE \E u \in User : StartSearch(h, u)
  <2> PICK u \in User : StartSearch(h, u)
    BY <1>1
  <2>1. /\ task' = [task EXCEPT ![h] = [Idle EXCEPT !.pc = "lock", !.user = u]]
        /\ task[h].pc = "idle" /\ UNCHANGED <<owner, session, files, reserved>>
    BY DEF StartSearch, CanPress, At, ledgerVars, seen
  <2>2. task'[h] = [Idle EXCEPT !.pc = "lock", !.user = u] /\ \A g \in Handler : g # h => task'[g] = task[g]
    BY <1>t, <2>1
  <2>3. TakesOwn(h)
    <3>1. task'[h].pc = "lock"
      BY <2>2 DEF Idle
    <3> QED
      BY <2>1, <2>2, <3>1 DEF TakesOwn, Taken
  <2>4. task'[h].cases = {} /\ task'[h].drop = {} /\ ~Vetting(h)' /\ task'[h].row = None
    BY <2>2 DEF Idle, Vetting
  <2> QED
    BY <2>1, <2>3, <2>4, OwnerKept
<1>2. CASE ~\E u \in User : StartSearch(h, u)
  <2>1. /\ task[h].pc \in {"generate", "pdf", "docx", "record", "insert", "audit", "unreserve"}
        /\ owner' = owner /\ files' = files
    BY <1>2 DEF Draft, SendPdf, SendDocx, RecordSent, InsertRow, AuditRow, Unreserve, At, seen
  <2>2. task[h].cases = {} /\ task[h].drop = {}
    BY <2>1 DEF IInv, TaskShape, Searching, Selecting
  <2>3. \A t \in Token : t \in reserved \ reserved' => t = task[h].row
    BY <1>2 DEF Draft, SendPdf, SendDocx, RecordSent, InsertRow, AuditRow, Unreserve, Release,
       RecordCase, ledgerVars
  <2>4. \A u \in User : session'[u].all = session[u].all
    <3>1. CASE AuditRow(h)
      BY <1>t, <3>1 DEF AuditRow, Session
    <3>2. CASE ~AuditRow(h)
      BY <1>2, <3>2 DEF Draft, SendPdf, SendDocx, RecordSent, InsertRow, Unreserve
    <3> QED
      BY <3>1, <3>2
  <2>5. /\ \A g \in Handler : g # h => task'[g] = task[g]
        /\ task'[h].user = task[h].user /\ task'[h].cases = {} /\ task'[h].drop = {}
        /\ task'[h].pc # task[h].pc /\ ~Vetting(h)'
        /\ task'[h].row = task[h].row \/ task'[h].row = session[task[h].user].selected
    <3>1. CASE RecordSent(h)
      BY <1>t, <2>2, <3>1 DEF RecordSent, Mine, At, Task, Vetting
    <3>2. CASE Draft(h)
      BY <1>t, <2>2, <3>2 DEF Draft, Goto, At, Task, Vetting
    <3>3. CASE SendPdf(h) \/ SendDocx(h)
      BY <1>t, <2>2, <3>3 DEF SendPdf, SendDocx, Goto, At, Task, Vetting
    <3>4. CASE InsertRow(h) \/ AuditRow(h) \/ Unreserve(h)
      BY <1>t, <2>2, <3>4 DEF InsertRow, AuditRow, Unreserve, Goto, At, Task, Vetting
    <3> QED
      BY <1>2, <3>1, <3>2, <3>3, <3>4
  <2>6. session[task[h].user].selected \in session[task[h].user].all \cup {None}
    BY <1>t, <2>1 DEF IInv, SessionShape, WellFormed
  <2>7. TakesOwn(h)
    <3>1. ASSUME NEW t \in Token, Taken(t) PROVE owner[t] = task[h].user
      <4>1. t = task[h].row
        BY <2>1, <2>3, <3>1 DEF Taken
      <4> QED
        BY <4>1 DEF OwnerInv, Theirs
    <3> QED
      BY <2>5, <3>1 DEF TakesOwn
  <2> QED
    BY <1>t, <2>1, <2>4, <2>5, <2>6, <2>7, OwnerKept
<1> QED
  BY <1>1, <1>2

(* A search on its way to a verified case or to the next candidate.        *)
LEMMA OwnerSearches ==
  ASSUME IInv, OwnerInv, NEW h \in Handler,
         \/ AcquireLock(h) \/ CleanupReleased(h) \/ DropReservations(h)
         \/ \E j \in Judgment, t \in Token : Download(h, j, t)
         \/ Reject(h) \/ CheckUsed(h) \/ Reserve(h) \/ OfferCases(h)
  PROVE  OwnerInv' /\ TakesOwn(h)
<1>t. /\ task \in [Handler -> Task] /\ session \in [User -> Session] /\ task[h] \in Task
      /\ task[h].pc # "idle" => task[h].user \in User /\ session[task[h].user] \in Session
  BY Typing
<1>o. Theirs(h)
  BY DEF OwnerInv
<1>1. CASE AcquireLock(h)
  <2> DEFINE u == task[h].user
             c == session[u].cases
  <2>1. /\ u \in User /\ task[h].pc = "lock" /\ UNCHANGED <<owner, reserved>>
        /\ files' = files \ c
        /\ session' = [session EXCEPT ![u] = NoSession]
        /\ task' = [task EXCEPT ![h].drop = c, ![h].pc = IF c = {} THEN "search" ELSE "cleanup"]
    BY <1>t, <1>1 DEF AcquireLock, Leftovers, At, ledgerVars, seen
  <2>2. \A t \in c : t \in Token /\ owner[t] = u
    BY <1>t, <2>1 DEF IInv, SessionShape, WellFormed, OwnerInv, Session
  <2>3. /\ \A g \in Handler : g # h => task'[g] = task[g]
        /\ task'[h].user = u /\ task'[h].cases = task[h].cases /\ task'[h].drop = c
        /\ task'[h].row = task[h].row /\ task'[h].pc \in {"search", "cleanup"}
    BY <1>t, <2>1 DEF Task
  <2>4. TakesOwn(h)
    BY <2>1, <2>2, <2>3 DEF TakesOwn, Taken
  <2>5. Theirs(h)'
    BY <1>o, <2>1, <2>2, <2>3 DEF Theirs, Vetting
  <2>6. \A v \in User : session'[v].all \subseteq session[v].all
    BY <1>t, <2>1 DEF NoSession, NewSession
  <2> QED
    BY <2>1, <2>4, <2>5, <2>6, OwnerStep
<1>2. CASE CleanupReleased(h) \/ DropReservations(h)
  <2>1. /\ UNCHANGED <<owner, files, session>> /\ reserved' = reserved \ task[h].drop
        /\ task[h].pc \in {"cleanup", "drop"}
    BY <1>2 DEF CleanupReleased, DropReservations, Release, At, seen
  <2>2. /\ \A g \in Handler : g # h => task'[g] = task[g]
        /\ task'[h].user = task[h].user /\ task'[h].cases = task[h].cases
        /\ task'[h].drop \subseteq task[h].drop
        /\ task'[h].row = task[h].row /\ task'[h].pc \in {"search", "dropped"}
    BY <1>t, <1>2 DEF CleanupReleased, DropReservations, Goto, Task
  <2>3. TakesOwn(h)
    BY <1>o, <2>1, <2>2 DEF TakesOwn, Taken, Theirs
  <2>4. Theirs(h)'
    BY <1>o, <2>1, <2>2 DEF Theirs, Vetting
  <2> QED
    BY <2>1, <2>3, <2>4, OwnerStep
<1>3. CASE \E j \in Judgment, t \in Token : Download(h, j, t)
  <2> PICK j \in Judgment, n \in Token : Download(h, j, n)
    BY <1>3
  <2>1. /\ task[h].pc = "search" /\ judgment[n] = None
        /\ UNCHANGED <<reserved, session>> /\ files' = files \cup {n}
        /\ owner' = [owner EXCEPT ![n] = task[h].user]
        /\ task' = [task EXCEPT ![h].token = n, ![h].tried = @ \cup {j}, ![h].pc = "vet"]
    BY DEF Download, Issue, At
  <2>2. ~Public(n) /\ \A g \in Handler : Vetting(g) => task[g].token # n
    BY <2>1 DEF IInv, PublicIssued, VettedAlone
  <2>3. /\ \A g \in Handler : g # h => task'[g] = task[g]
        /\ task'[h].user = task[h].user /\ task'[h].cases = task[h].cases
        /\ task'[h].drop = task[h].drop /\ task'[h].token = n
        /\ task'[h].row = task[h].row /\ task'[h].pc = "vet"
    BY <1>t, <2>1 DEF Task
  <2>4. TakesOwn(h)
    BY <2>1, <2>3 DEF TakesOwn, Taken
  <2>5. owner \in [Token -> User \cup {None}]
    BY DEF IInv, TypeOK
  <2>6. owner'[n] = task[h].user /\ \A t \in Token : t # n => owner'[t] = owner[t]
    BY <2>1, <2>5
  <2>7. Theirs(h)'
    <3>1. \A t \in task[h].cases \cup task[h].drop : t # n /\ t \in Token
      BY <1>t, <2>2 DEF Public, Task
    <3>2. task[h].row # n /\ task[h].row \in Token \cup {None}
      BY <1>t, <2>2 DEF Public, Task
    <3> QED
      BY <1>o, <2>3, <2>6, <3>1, <3>2 DEF Theirs
  <2> QED
    BY <2>1, <2>2, <2>4, <2>6, <2>7, OwnerStep
<1>4. ASSUME Vetting(h), GiveUp(h) PROVE OwnerInv' /\ TakesOwn(h)
  <2> DEFINE n == task[h].token
  <2>1. /\ UNCHANGED <<reserved, session>> /\ files' = files \ {n}
        /\ owner' = [owner EXCEPT ![n] = None]
        /\ task' = [task EXCEPT ![h].token = None, ![h].pc = "search"]
    BY <1>4 DEF GiveUp, GiveUpFile, Forget
  <2>2. /\ n \in Token /\ ~Public(n)
        /\ \A g \in Handler : g # h /\ Vetting(g) => task[g].token # n
    BY <1>t, <1>4 DEF IInv, VettedAlone, Task
  <2>3. /\ \A g \in Handler : g # h => task'[g] = task[g]
        /\ task'[h].user = task[h].user /\ task'[h].cases = task[h].cases
        /\ task'[h].drop = task[h].drop
        /\ task'[h].row = task[h].row /\ task'[h].pc = "search"
    BY <1>t, <2>1 DEF Task
  <2>4. TakesOwn(h)
    <3>1. task'[h] # task[h]
      BY <1>4, <2>3 DEF Vetting
    <3> QED
      BY <1>4, <1>o, <2>1, <2>3, <3>1 DEF TakesOwn, Taken, Theirs
  <2>5. \A t \in Token : t # n => owner'[t] = owner[t]
    BY <2>1 DEF IInv, TypeOK
  <2>6. Theirs(h)'
    <3>1. \A t \in task[h].cases \cup task[h].drop : t # n /\ t \in Token
      BY <1>t, <2>2 DEF Public, Task
    <3>2. task[h].row # n /\ task[h].row \in Token \cup {None}
      BY <1>t, <2>2 DEF Public, Task
    <3> QED
      BY <1>o, <2>3, <2>5, <3>1, <3>2 DEF Theirs, Vetting
  <2> QED
    BY <2>1, <2>2, <2>4, <2>5, <2>6, OwnerStep
<1>5. CASE CheckUsed(h) /\ ~GiveUp(h)
  <2>1. /\ UNCHANGED <<owner, files, session, reserved>> /\ task[h].pc = "vet"
        /\ task' = [task EXCEPT ![h].pc = "checked"]
    BY <1>5 DEF CheckUsed, Goto, At, ledgerVars, seen
  <2>2. /\ \A g \in Handler : g # h => task'[g] = task[g]
        /\ task'[h].user = task[h].user /\ task'[h].cases = task[h].cases
        /\ task'[h].drop = task[h].drop /\ task'[h].token = task[h].token
        /\ task'[h].row = task[h].row /\ task'[h].pc = "checked"
    BY <1>t, <2>1 DEF Task
  <2>3. TakesOwn(h)
    BY <2>1, <2>2 DEF TakesOwn, Taken
  <2>4. Theirs(h)'
    BY <1>o, <2>1, <2>2 DEF Theirs, Vetting
  <2> QED
    BY <2>1, <2>3, <2>4, OwnerStep
<1>6. CASE Reserve(h) /\ ~GiveUp(h)
  <2> DEFINE n == task[h].token
  <2>1. /\ UNCHANGED <<owner, files, session>> /\ task[h].pc = "checked"
        /\ reserved' = (reserved \ aged) \cup {n}
        /\ task' = [task EXCEPT ![h].cases = @ \cup {n}, ![h].token = None, ![h].pc = "search"]
    BY <1>6 DEF Reserve, ReserveCase, Unexpired, At, seen
  <2>2. /\ \A g \in Handler : g # h => task'[g] = task[g]
        /\ task'[h].user = task[h].user /\ task'[h].cases = task[h].cases \cup {n}
        /\ task'[h].drop = task[h].drop
        /\ task'[h].row = task[h].row /\ task'[h].pc = "search"
    BY <1>t, <2>1 DEF Task
  <2>3. TakesOwn(h)
    BY <2>1, <2>2 DEF TakesOwn, Taken
  <2>4. Theirs(h)'
    BY <1>o, <2>1, <2>2 DEF Theirs, Vetting
  <2> QED
    BY <2>1, <2>3, <2>4, OwnerStep
<1>7. CASE OfferCases(h)
  <2> DEFINE u == task[h].user
  <2>1. /\ UNCHANGED <<owner, files, reserved>> /\ task[h].pc = "search" /\ u \in User
        /\ session' = [session EXCEPT ![u] = NewSession(task[h].cases)]
        /\ task' = [task EXCEPT ![h] = Idle]
    BY <1>t, <1>7 DEF OfferCases, Finish, At, ledgerVars, seen
  <2>2. task'[h] = Idle /\ \A g \in Handler : g # h => task'[g] = task[g]
    BY <1>t, <2>1
  <2>3. TakesOwn(h)
    <3>1. task'[h] # task[h]
      BY <2>1, <2>2 DEF Idle
    <3> QED
      BY <2>1, <2>2, <3>1 DEF TakesOwn, Taken
  <2>4. Theirs(h)'
    BY <2>2 DEF Theirs, Vetting, Idle
  <2>5. \A v \in User : \A t \in session'[v].all : t \in session[v].all \/ owner'[t] = v
    BY <1>t, <1>o, <2>1 DEF NewSession, Theirs
  <2> QED
    BY <2>1, <2>3, <2>4, <2>5, OwnerStep
<1> QED
  <2>1. CASE Reject(h) \/ CheckUsed(h) \/ Reserve(h)
    <3>1. Vetting(h)
      BY <2>1 DEF Reject, CheckUsed, Reserve, Vetting, At
    <3> QED
      BY <1>4, <1>5, <1>6, <2>1, <3>1 DEF Reject
  <2> QED
    BY <1>1, <1>2, <1>3, <1>7, <2>1

(* _select_session_case on a session whose cases are u's.                  *)
LEMMA OwnerBeginsSelect ==
  ASSUME IInv, OwnerInv, NEW h \in Handler, NEW u \in User, NEW s \in Session,
         \A t \in s.all : owner[t] = u, s.cases \subseteq s.all,
         NEW t \in Token, NEW mode \in {"send", "regen"}, NEW next \in {"select", "generate"},
         task[h].pc # next, task[h].pc # "drop",
         BeginSelect(h, u, s, t, mode, next), UNCHANGED <<ledgerVars, seen>>
  PROVE  OwnerInv' /\ TakesOwn(h)
<1>t. /\ task \in [Handler -> Task] /\ session \in [User -> Session]
  BY Typing
<1>1. /\ UNCHANGED <<owner, reserved>> /\ files' = files \ (s.cases \ {t})
  BY DEF BeginSelect, Discarded, ledgerVars, seen
<1>2. \E r : /\ task' = [task EXCEPT ![h] = r]
             /\ r.pc \in {next, "drop"} /\ r.user = u /\ r.cases = {} /\ r.row = None
             /\ r.drop \subseteq s.all
  <2>1. CASE s.cases \ {t} = {}
    <3> DEFINE r == [Idle EXCEPT !.pc = next, !.user = u, !.mode = mode, !.token = t]
    <3>1. task' = [task EXCEPT ![h] = r]
      BY <2>1 DEF BeginSelect, Discarded
    <3>2. r.pc = next /\ r.user = u /\ r.cases = {} /\ r.row = None /\ r.drop = {}
      BY DEF Idle
    <3> HIDE DEF r
    <3> QED
      BY <3>1, <3>2
  <2>2. CASE s.cases \ {t} # {}
    <3> DEFINE r == [Idle EXCEPT !.pc = "drop", !.user = u, !.mode = mode, !.token = t,
                                 !.drop = s.cases \ {t}, !.then = next]
    <3>1. task' = [task EXCEPT ![h] = r]
      BY <2>2 DEF BeginSelect, Discarded
    <3>2. /\ r.pc = "drop" /\ r.user = u /\ r.cases = {} /\ r.row = None
          /\ r.drop = s.cases \ {t}
      BY DEF Idle
    <3> HIDE DEF r
    <3> QED
      BY <3>1, <3>2
  <2> QED
    BY <2>1, <2>2
<1>3. /\ \A g \in Handler : g # h => task'[g] = task[g]
      /\ task'[h].pc \in {next, "drop"} /\ task'[h].user = u
      /\ task'[h].cases = {} /\ task'[h].row = None /\ task'[h].drop \subseteq s.all
  BY <1>t, <1>2
<1>4. \A v \in User : session'[v].all = session[v].all \/ (v = u /\ session'[v].all = s.all)
  <2> DEFINE S == [session EXCEPT ![u] = s]
  <2>1. S \in [User -> Session] /\ S[u] = s /\ \A v \in User : v # u => S[v] = session[v]
    BY <1>t
  <2>2. session' = S \/ session' = [S EXCEPT ![u].cases = {t}, ![u].selected = t]
    BY DEF BeginSelect
  <2> QED
    BY <2>1, <2>2 DEF Session
<1>5. TakesOwn(h)
  <2>1. task'[h] # task[h]
    BY <1>3
  <2> QED
    BY <1>1, <1>3, <2>1 DEF TakesOwn, Taken
<1>6. Theirs(h)'
  BY <1>1, <1>3 DEF Theirs, Vetting
<1> QED
  BY <1>1, <1>4, <1>5, <1>6, OwnerStep

LEMMA OwnerSelects ==
  ASSUME IInv, OwnerInv, NEW h \in Handler,
         \/ \E u \in User, t \in Token : PressPick(h, u, t) \/ PressRegenerate(h, u, t)
         \/ AutoSelect(h) \/ SendSelect(h) \/ FinishSelect(h)
  PROVE  OwnerInv' /\ TakesOwn(h)
<1>t. /\ task \in [Handler -> Task] /\ session \in [User -> Session] /\ task[h] \in Task
      /\ task[h].pc # "idle" => task[h].user \in User /\ session[task[h].user] \in Session
  BY Typing
<1>s. \A u \in User : /\ session[u] \in Session /\ session[u].cases \subseteq session[u].all
                      /\ \A t \in session[u].all : owner[t] = u
  BY <1>t DEF IInv, SessionShape, WellFormed, OwnerInv
<1>1. ASSUME NEW u \in User, NEW t \in Token, PressPick(h, u, t) \/ PressRegenerate(h, u, t)
      PROVE  OwnerInv' /\ TakesOwn(h)
  <2>1. /\ task[h].pc = "idle" /\ UNCHANGED <<ledgerVars, seen>>
        /\ \/ BeginSelect(h, u, session[u], t, "send", "select")
           \/ BeginSelect(h, u, session[u], t, "regen", "generate")
    BY <1>1 DEF PressPick, PressRegenerate, CanPress, At
  <2> QED
    BY <1>s, <2>1, OwnerBeginsSelect
<1>2. CASE AutoSelect(h)
  <2>1. task[h].pc = "search" /\ task[h].user \in User /\ UNCHANGED <<ledgerVars, seen>>
    BY <1>t, <1>2 DEF AutoSelect, At
  <2> DEFINE s == NewSession(task[h].cases)
  <2>2. PICK t \in task[h].cases : BeginSelect(h, task[h].user, s, t, "send", "select")
    BY <1>2 DEF AutoSelect
  <2>3. s \in Session /\ s.cases \subseteq s.all /\ t \in Token
    BY <1>t DEF NewSession, Session, Task
  <2>4. \A n \in s.all : owner[n] = task[h].user
    BY DEF NewSession, OwnerInv, Theirs
  <2> HIDE DEF s
  <2> QED
    BY <2>1, <2>2, <2>3, <2>4, OwnerBeginsSelect
<1>3. CASE SendSelect(h)
  <2>1. task[h].pc = "select" /\ task[h].user \in User /\ UNCHANGED <<ledgerVars, seen>>
    BY <1>t, <1>3 DEF SendSelect, At
  <2>2. CASE task[h].token \in session[task[h].user].cases
    <3>1. BeginSelect(h, task[h].user, session[task[h].user], task[h].token, "send", "generate")
      BY <1>3, <2>2 DEF SendSelect
    <3>2. task[h].token \in Token
      BY <1>t, <2>1, <2>2 DEF Session
    <3> QED
      BY <1>s, <2>1, <3>1, <3>2, OwnerBeginsSelect
  <2>3. CASE task[h].token \notin session[task[h].user].cases
    <3>1. task' = [task EXCEPT ![h] = Idle] /\ UNCHANGED <<owner, session, files, reserved>>
      BY <1>3, <2>1, <2>3 DEF SendSelect, Finish, ledgerVars, seen
    <3>2. /\ task'[h] = Idle /\ \A g \in Handler : g # h => task'[g] = task[g]
      BY <1>t, <3>1
    <3>3. /\ task'[h].pc = "idle" /\ task'[h].cases = {} /\ task'[h].drop = {}
          /\ ~Vetting(h)' /\ task'[h].row = None
      BY <3>2 DEF Idle, Vetting
    <3>4. TakesOwn(h)
      BY <2>1, <3>1, <3>2, <3>3 DEF TakesOwn, Taken
    <3> QED
      BY <3>1, <3>3, <3>4, OwnerKept
  <2> QED
    BY <2>2, <2>3
<1>4. CASE FinishSelect(h)
  <2>1. /\ task[h].pc = "dropped" /\ UNCHANGED <<owner, files, reserved>>
        /\ task[h].user \in User /\ session' = Chosen(task[h].user, task[h].token)
    BY <1>t, <1>4 DEF FinishSelect, At, ledgerVars, seen
  <2>2. \A u \in User : session'[u].all = session[u].all
    BY <1>t, <2>1 DEF Chosen, Session
  <2>3. \E r \in {Idle, [task[h] EXCEPT !.pc = task[h].then, !.drop = {}, !.then = "idle"]} :
            task' = [task EXCEPT ![h] = r]
    BY <1>t, <1>4 DEF FinishSelect, Finish
  <2>4. /\ \A g \in Handler : g # h => task'[g] = task[g]
        /\ task'[h] = Idle \/ task'[h] = [task[h] EXCEPT !.pc = task[h].then, !.drop = {}, !.then = "idle"]
    BY <1>t, <2>3
  <2>5. /\ task'[h].pc \in {"idle", "select", "generate"} /\ task'[h].cases = {}
        /\ task'[h].drop = {}
        /\ task'[h].row = None \/ (task'[h].row = task[h].row /\ task'[h].user = task[h].user)
    <3>1. task[h].cases = {}
      BY <2>1 DEF IInv, TaskShape, Searching
    <3>2. CASE task'[h] = Idle
      BY <3>2 DEF Idle
    <3>3. CASE task'[h] = [task[h] EXCEPT !.pc = task[h].then, !.drop = {}, !.then = "idle"]
      BY <1>t, <3>1, <3>3 DEF Task
    <3> QED
      BY <2>4, <3>2, <3>3
  <2>6. TakesOwn(h)
    BY <2>1, <2>4, <2>5 DEF TakesOwn, Taken
  <2>7. ~Vetting(h)'
    BY <2>5 DEF Vetting
  <2> QED
    BY <2>1, <2>2, <2>5, <2>6, <2>7, OwnerKept
<1> QED
  BY <1>1, <1>2, <1>3, <1>4

(* Whatever a task does.                                                   *)
LEMMA OwnerActs ==
  ASSUME IInv, OwnerInv, NEW h \in Handler, Press(h) \/ AcquireLock(h) \/ Step(h)
  PROVE  OwnerInv' /\ TakesOwn(h)
BY OwnerEnds, OwnerGoesOn, OwnerSearches, OwnerSelects DEF Press, Step

LEMMA OwnerNext == IInv /\ OwnerInv /\ [Next]_vars => OwnerInv'
<1> SUFFICES ASSUME IInv, OwnerInv, [Next]_vars PROVE OwnerInv'
  OBVIOUS
<1>1. ASSUME NEW h \in Handler, Press(h) \/ AcquireLock(h) \/ Step(h) PROVE OwnerInv'
  BY <1>1, OwnerActs
<1>2. ASSUME NEW t \in Token, ReservationAges(t) PROVE OwnerInv'
  BY <1>2 DEF ReservationAges, botVars, seen, OwnerInv, Theirs, Vetting
<1>3. CASE Restart
  <2>1. /\ session' = [u \in User |-> NoSession] /\ task' = [h \in Handler |-> Idle]
    BY <1>3 DEF Restart
  <2>2. \A u \in User : session'[u].all = {}
    BY <2>1 DEF NoSession, NewSession
  <2>3. \A h \in Handler : task'[h] = Idle
    BY <2>1
  <2> QED
    BY <2>2, <2>3 DEF OwnerInv, Theirs, Vetting, Idle
<1>4. CASE UNCHANGED vars
  BY <1>4 DEF vars, ledgerVars, botVars, seen, OwnerInv, Theirs, Vetting
<1> QED
  BY <1>1, <1>2, <1>3, <1>4 DEF Next

(* One user's buttons never cost another user a file or an unexpired       *)
(* reservation, however the tasks of the users interleave.                 *)
THEOREM NobodyTakesFromOthers == Spec => OthersUntouched
<1> DEFINE Step1 ==
      \A t \in Token :
          \/ t \in (reserved \ aged) /\ t \notin reserved'
          \/ t \in files /\ t \notin files'
          => \/ \E h \in Handler : /\ task'[h] # task[h]
                                  /\ owner[t] \in {task[h].user, task'[h].user}
             \/ Restart
<1>1. Init => OwnerInv
  BY DEF Init, OwnerInv, Theirs, Vetting, Idle, NoSession, NewSession
<1>2. IInv /\ OwnerInv /\ [Next]_vars => OwnerInv'
  BY OwnerNext
<1>3. IInv /\ OwnerInv /\ [Next]_vars => [Step1]_vars
  <2> SUFFICES ASSUME IInv, OwnerInv, Next PROVE Step1
    OBVIOUS
  <2>1. ASSUME NEW h \in Handler, Press(h) \/ AcquireLock(h) \/ Step(h) PROVE Step1
    BY <2>1, OwnerActs DEF TakesOwn, Taken
  <2>2. ASSUME NEW t \in Token, ReservationAges(t) PROVE Step1
    BY <2>2 DEF ReservationAges, Age, botVars
  <2> QED
    BY <2>1, <2>2 DEF Next
<1> QED
  BY <1>1, <1>2, <1>3, Inductive, PTL DEF Spec, OthersUntouched

-------------------------------------------------------------------------------
(* A held case can be sent, for users who wait for the bot                 *)

(* As long as no reservation expires and sqlite releases what a selection  *)
(* discards.                                                               *)
Reliable == Sequential /\ "select" \notin Faults /\ "expiry" \notin Faults

Kept == files \cap reserved

Sendable(h) ==
    /\ task[h].cases \subseteq Kept
    /\ Vetting(h) => task[h].token \in files
    /\ task[h].pc \in {"insert", "audit"} => task[h].row \in session[task[h].user].all
    /\ task[h].pc \in {"unreserve", "unlink"} => session[task[h].user].recorded
    /\ task[h].pc \in Selecting =>
          session[task[h].user].recorded \/ task[h].token \in Kept

(* While a user's task selects, its session still lists what it discards.  *)
Whole(u) ==
    \/ session[u].recorded \/ session[u].cases \subseteq Kept
    \/ \E h \in Handler : task[h].user = u /\ task[h].pc \in Selecting

SendInv ==
    /\ aged = {}
    /\ \A h \in Handler : Sendable(h)
    /\ \A u \in User : Whole(u)

OnlyOwnSession(h) ==
    \A u \in User : session'[u] = session[u] \/ u \in {task[h].user, task'[h].user}

(* A step of h cannot disturb the tasks and sessions of other users.       *)
LEMMA SendableStep ==
  ASSUME IInv, OwnerInv, DeliveryInv, SendInv, NEW h \in Handler, TakesOwn(h), DeliveryInv',
         OnlyOwnSession(h),
         aged' = {}, Sendable(h)',
         \A u \in {task[h].user, task'[h].user} : u \in User => Whole(u)'
  PROVE  SendInv'
<1>t. /\ task \in [Handler -> Task] /\ session \in [User -> Session]
      /\ \A g \in Handler : task[g] \in Task
  BY Typing
<1>1. ASSUME NEW t \in Kept, owner[t] \notin {task[h].user, task'[h].user}
      PROVE  t \in Kept'
  <2>1. t \in Token
    BY <1>1 DEF Kept, IInv, TypeOK, LedgerTypeOK, Issued
  <2> QED
    BY <1>1, <2>1 DEF TakesOwn, Taken, Kept, SendInv
<1>2. ASSUME NEW g \in Handler, g # h PROVE Sendable(g)'
  <2>1. task'[g] = task[g] /\ Sendable(g) /\ Theirs(g) /\ Delivers(g)
    BY <1>2 DEF TakesOwn, SendInv, OwnerInv, DeliveryInv
  <2>2. CASE task[g].pc = "idle"
    <3>1. task[g].cases = {}
      BY <2>2 DEF IInv, TaskShape, Searching
    <3> QED
      BY <2>1, <2>2, <3>1 DEF Sendable, Vetting, Selecting
  <2>3. CASE task[g].pc # "idle"
    <3>1. task[g].user \in User /\ task[g].user \notin {task[h].user, task'[h].user}
      BY <1>2, <2>1, <2>3 DEF IInv, TaskShape, DeliveryInv, Alone
    <3>2. session'[task[g].user] = session[task[g].user]
      BY <3>1 DEF OnlyOwnSession
    <3>3. task[g].cases \subseteq Kept'
      BY <1>1, <2>1, <3>1 DEF Sendable, Theirs
    <3>4. Vetting(g) => task[g].token \in files'
      <4>1. Vetting(g) => task[g].token \in Token
        BY <1>t DEF IInv, VettedAlone, Task
      <4> QED
        BY <2>1, <3>1, <4>1 DEF Sendable, Theirs, TakesOwn, Taken
    <3>5. task[g].pc \in Selecting => session[task[g].user].recorded \/ task[g].token \in Kept'
      <4>1. task[g].pc \in Selecting => owner[task[g].token] = task[g].user
        BY <2>1, <3>1 DEF Delivers, OwnerInv
      <4> QED
        BY <1>1, <2>1, <3>1, <4>1 DEF Sendable
    <3> QED
      BY <2>1, <3>2, <3>3, <3>4, <3>5 DEF Sendable, Vetting
  <2> QED
    BY <2>2, <2>3
<1>3. ASSUME NEW u \in User, u \notin {task[h].user, task'[h].user} PROVE Whole(u)'
  <2>1. session'[u] = session[u] /\ Whole(u)
    BY <1>3 DEF OnlyOwnSession, SendInv
  <2>2. CASE session[u].cases \subseteq Kept
    <3>1. \A t \in session[u].cases : owner[t] = u
      BY <1>t DEF IInv, SessionShape, WellFormed, OwnerInv
    <3> QED
      BY <1>1, <1>3, <2>1, <2>2, <3>1 DEF Whole
  <2>3. CASE \E g \in Handler : task[g].user = u /\ task[g].pc \in Selecting
    BY <1>3, <2>3 DEF Whole, TakesOwn
  <2> QED
    BY <2>1, <2>2, <2>3 DEF Whole
<1> QED
  BY <1>2, <1>3 DEF SendInv

(* Steps that leave the user's session and everything kept as they are.    *)
LEMMA SendableKept ==
  ASSUME IInv, OwnerInv, DeliveryInv, SendInv, NEW h \in Handler, TakesOwn(h), DeliveryInv',
         aged' = {}, Sendable(h)', Kept \subseteq Kept', session' = session,
         \/ task[h].pc \notin Selecting
         \/ task'[h].pc \in Selecting /\ task'[h].user = task[h].user
  PROVE  SendInv'
<1>1. ASSUME NEW u \in User PROVE Whole(u)'
  <2>1. CASE session[u].recorded \/ session[u].cases \subseteq Kept
    BY <2>1 DEF Whole
  <2>2. CASE \E g \in Handler : task[g].user = u /\ task[g].pc \in Selecting
    <3> PICK g \in Handler : task[g].user = u /\ task[g].pc \in Selecting
      BY <2>2
    <3>1. task'[g].user = u /\ task'[g].pc \in Selecting
      BY DEF TakesOwn
    <3> QED
      BY <3>1 DEF Whole
  <2> QED
    BY <2>1, <2>2 DEF SendInv, Whole
<1> QED
  BY <1>1, SendableStep DEF OnlyOwnSession

(* Handlers that end with the session as it is.                            *)
LEMMA SendableEnds ==
  ASSUME Reliable, IInv, OwnerInv, DeliveryInv, SendInv, NEW h \in Handler,
         TakesOwn(h), DeliveryInv',
         \/ AbortSearch(h) \/ SearchFails(h) \/ DropFails(h) \/ MessageRefused(h)
         \/ SendFails(h) \/ ReplyLost(h) \/ Complete(h)
  PROVE  SendInv'
<1>t. task \in [Handler -> Task] /\ session \in [User -> Session] /\ task[h] \in Task
  BY Typing
<1>1. task' = [task EXCEPT ![h] = Idle] /\ UNCHANGED <<session, reserved, aged>>
  <2>1. CASE AbortSearch(h) \/ SearchFails(h) \/ DropFails(h) \/ MessageRefused(h)
    BY <2>1 DEF AbortSearch, SearchFails, DropFails, MessageRefused, Finish, ledgerVars
  <2>2. CASE SendFails(h) \/ ReplyLost(h) \/ Complete(h)
    BY <2>2 DEF SendFails, ReplyLost, Complete, OfferRetry, Finish, ledgerVars
  <2> QED
    BY <2>1, <2>2
<1>2. task'[h] = Idle
  BY <1>t, <1>1
<1>3. Sendable(h)' /\ aged' = {}
  BY <1>1, <1>2 DEF Sendable, Vetting, Selecting, Idle, SendInv
<1>4. CASE ~Complete(h)
  <2>1. task[h].pc \notin Selecting /\ files' = files
    <3>1. CASE AbortSearch(h) \/ SearchFails(h) \/ DropFails(h) \/ MessageRefused(h)
      BY <3>1 DEF AbortSearch, SearchFails, DropFails, MessageRefused, At, Searching, Selecting,
         Reliable
    <3>2. CASE SendFails(h) \/ ReplyLost(h)
      BY <3>2 DEF SendFails, ReplyLost, OfferRetry, At, Selecting
    <3> QED
      BY <1>4, <3>1, <3>2
  <2>k. Kept \subseteq Kept' /\ task[h].pc \notin Selecting
    BY <1>1, <1>3, <2>1 DEF Kept, Selecting
  <2> QED
    BY <1>1, <1>3, <2>1, <2>k, SendableKept
<1>5. CASE Complete(h)
  <2>1. session[task[h].user].recorded
    BY <1>5 DEF Complete, At, SendInv, Sendable
  <2>2. task'[h].user = None
    BY <1>2 DEF Idle
  <2> QED
    BY <1>1, <1>3, <2>1, <2>2, SendableStep DEF OnlyOwnSession, Whole
<1> QED
  BY <1>4, <1>5

(* Steps that keep the session and what is there to send.                  *)
LEMMA SendableGoesOn ==
  ASSUME IInv, OwnerInv, DeliveryInv, SendInv, NEW h \in Handler,
         TakesOwn(h), DeliveryInv',
         \/ \E u \in User : StartSearch(h, u)
         \/ CleanupReleased(h) \/ DropReservations(h)
         \/ Draft(h) \/ SendPdf(h) \/ SendDocx(h) \/ RecordSent(h) \/ InsertRow(h)
  PROVE  SendInv'
<1>t. /\ task \in [Handler -> Task] /\ session \in [User -> Session] /\ task[h] \in Task
      /\ task[h].pc # "idle" => task[h].user \in User /\ session[task[h].user] \in Session
  BY Typing
<1>s. Sendable(h) /\ aged = {}
  BY DEF SendInv
<1>1. CASE \E u \in User : StartSearch(h, u)
  <2> PICK u \in User : StartSearch(h, u)
    BY <1>1
  <2>1. /\ task' = [task EXCEPT ![h] = [Idle EXCEPT !.pc = "lock", !.user = u]]
        /\ task[h].pc = "idle" /\ UNCHANGED <<session, files, reserved, aged>>
    BY DEF StartSearch, CanPress, At, ledgerVars
  <2>2. task'[h].pc = "lock" /\ task'[h].cases = {}
    BY <1>t, <2>1 DEF Idle
  <2>3. Sendable(h)'
    BY <2>2 DEF Sendable, Vetting, Selecting
  <2>k. Kept \subseteq Kept' /\ task[h].pc \notin Selecting
    BY <1>s, <2>1, <2>3 DEF Kept, Selecting
  <2> QED
    BY <1>s, <2>1, <2>3, <2>k, SendableKept
<1>2. CASE CleanupReleased(h) \/ DropReservations(h)
  <2>1. /\ UNCHANGED <<files, session>> /\ reserved' = reserved \ task[h].drop
        /\ aged' = aged \ task[h].drop
        /\ task[h].pc \in {"cleanup", "drop"}
    BY <1>2 DEF CleanupReleased, DropReservations, Release, At
  <2>2. /\ task'[h].cases = task[h].cases /\ task'[h].token = task[h].token
        /\ task'[h].user = task[h].user
        /\ \/ task[h].pc = "cleanup" /\ task'[h].pc = "search"
           \/ task[h].pc = "drop" /\ task'[h].pc = "dropped"
    BY <1>t, <1>2 DEF CleanupReleased, DropReservations, Goto, At, Task
  <2>3. Kept' = Kept
    BY <2>1 DEF Kept, IInv, SelectShape
  <2>4. Sendable(h)'
    BY <1>s, <2>1, <2>2, <2>3 DEF Sendable, Vetting, Selecting
  <2> QED
    BY <1>s, <2>1, <2>2, <2>3, <2>4, SendableKept DEF Selecting
<1>3. CASE Draft(h) \/ SendPdf(h) \/ SendDocx(h) \/ RecordSent(h) \/ InsertRow(h)
  <2>1. /\ task[h].pc \in {"generate", "pdf", "docx", "record", "insert"}
        /\ UNCHANGED <<files, session, reserved, aged>>
    BY <1>3 DEF Draft, SendPdf, SendDocx, RecordSent, InsertRow, RecordCase, At, ledgerVars
  <2>2. task[h].cases = {}
    BY <2>1 DEF IInv, TaskShape, Searching
  <2>3. /\ task'[h].cases = {} /\ task'[h].user = task[h].user
        /\ \/ task'[h].pc \in {"pdf", "docx", "record"}
           \/ task'[h].pc = "insert" /\ task'[h].row = session[task[h].user].selected
              /\ task'[h].row # None
           \/ task'[h].pc = "unreserve" /\ session[task[h].user].recorded
           \/ task'[h].pc = "audit" /\ task'[h].row = task[h].row /\ task[h].pc = "insert"
    <3>1. CASE Draft(h) \/ SendPdf(h) \/ SendDocx(h)
      BY <1>t, <2>2, <3>1 DEF Draft, SendPdf, SendDocx, Goto, Task
    <3>2. CASE RecordSent(h)
      BY <1>t, <2>2, <3>2 DEF RecordSent, Mine, Task
    <3>3. CASE InsertRow(h)
      BY <1>t, <2>2, <3>3 DEF InsertRow, Goto, At, Task
    <3> QED
      BY <1>3, <3>1, <3>2, <3>3
  <2>4. session[task[h].user].selected \in session[task[h].user].all \cup {None}
    BY <1>t, <2>1 DEF IInv, SessionShape, WellFormed
  <2>5. Sendable(h)'
    BY <1>s, <2>1, <2>3, <2>4 DEF Sendable, Vetting, Selecting
  <2>k. Kept \subseteq Kept' /\ task[h].pc \notin Selecting
    BY <1>s, <2>1, <2>5 DEF Kept, Selecting
  <2> QED
    BY <1>s, <2>1, <2>5, <2>k, SendableKept
<1> QED
  BY <1>1, <1>2, <1>3

(* The record and the release of the reservation.                          *)
LEMMA SendableRecords ==
  ASSUME IInv, OwnerInv, DeliveryInv, SendInv, NEW h \in Handler,
         TakesOwn(h), DeliveryInv', AuditRow(h) \/ Unreserve(h)
  PROVE  SendInv'
<1>t. /\ task \in [Handler -> Task] /\ session \in [User -> Session] /\ task[h] \in Task
      /\ task[h].pc # "idle" => task[h].user \in User /\ session[task[h].user] \in Session
  BY Typing
<1> DEFINE u == task[h].user
<1>1. /\ task[h].pc \in {"audit", "unreserve"} /\ u \in User /\ aged' \subseteq aged
  BY <1>t DEF AuditRow, Unreserve, Release, At, ledgerVars
<1>2. task[h].cases = {}
  BY <1>1 DEF IInv, TaskShape, Searching
<1>3. /\ task'[h].cases = {} /\ task'[h].user = u /\ task'[h].pc \in {"unreserve", "unlink"}
  BY <1>t, <1>2 DEF AuditRow, Unreserve, Goto, Task
<1>4. session'[u].recorded /\ \A v \in User : v # u => session'[v] = session[v]
  <2>1. CASE AuditRow(h)
    <3>1. task[h].row \in session[u].all
      BY <2>1 DEF AuditRow, At, SendInv, Sendable
    <3>2. session' = [session EXCEPT ![u].recorded = TRUE]
      BY <2>1, <3>1 DEF AuditRow
    <3> QED
      BY <1>t, <1>1, <3>2 DEF Session
  <2>2. CASE Unreserve(h)
    BY <2>2 DEF Unreserve, At, SendInv, Sendable
  <2> QED
    BY <2>1, <2>2
<1>5. Sendable(h)'
  BY <1>3, <1>4 DEF Sendable, Vetting, Selecting
<1>6. aged' = {}
  BY <1>1 DEF SendInv
<1> QED
  BY <1>3, <1>4, <1>5, <1>6, SendableStep DEF OnlyOwnSession, Whole

(* A search.                                                               *)
LEMMA SendableSearches ==
  ASSUME IInv, OwnerInv, DeliveryInv, SendInv, NEW h \in Handler,
         TakesOwn(h), DeliveryInv',
         \/ AcquireLock(h)
         \/ \E j \in Judgment, t \in Token : Download(h, j, t)
         \/ Reject(h) \/ CheckUsed(h) \/ Reserve(h) \/ OfferCases(h)
  PROVE  SendInv'
<1>t. /\ task \in [Handler -> Task] /\ session \in [User -> Session] /\ task[h] \in Task
      /\ task[h].pc # "idle" => task[h].user \in User /\ session[task[h].user] \in Session
  BY Typing
<1>s. Sendable(h) /\ aged = {}
  BY DEF SendInv
<1>1. CASE AcquireLock(h)
  <2> DEFINE u == task[h].user
  <2>1. /\ u \in User /\ task[h].pc = "lock" /\ UNCHANGED <<reserved, aged>>
        /\ session' = [session EXCEPT ![u] = NoSession]
    BY <1>t, <1>1 DEF AcquireLock, At, ledgerVars
  <2>2. task[h].cases = {}
    BY <2>1 DEF IInv, TaskShape, Searching
  <2>3. task'[h].user = u /\ task'[h].cases = {} /\ task'[h].pc \in {"search", "cleanup"}
    BY <1>t, <1>1, <2>2 DEF AcquireLock, Task
  <2>4. Sendable(h)'
    BY <2>3 DEF Sendable, Vetting, Selecting
  <2>5. session'[u].cases = {} /\ OnlyOwnSession(h)
    BY <1>t, <2>1 DEF OnlyOwnSession, NoSession, NewSession
  <2> QED
    BY <1>s, <2>1, <2>3, <2>4, <2>5, SendableStep DEF Whole
<1>2. CASE \E j \in Judgment, t \in Token : Download(h, j, t)
  <2> PICK j \in Judgment, n \in Token : Download(h, j, n)
    BY <1>2
  <2>1. /\ task[h].pc = "search" /\ UNCHANGED <<reserved, aged, session>>
        /\ files' = files \cup {n}
    BY DEF Download, Issue, At
  <2>2. task'[h].cases = task[h].cases /\ task'[h].token = n /\ task'[h].pc = "vet"
    BY <1>t DEF Download, Task
  <2>3. Sendable(h)'
    BY <1>s, <2>1, <2>2 DEF Sendable, Vetting, Selecting, Kept
  <2>k. Kept \subseteq Kept' /\ task[h].pc \notin Selecting
    BY <1>s, <2>1, <2>3 DEF Kept, Selecting
  <2> QED
    BY <1>s, <2>1, <2>3, <2>k, SendableKept
<1>3. ASSUME Vetting(h), GiveUp(h) PROVE SendInv'
  <2> DEFINE n == task[h].token
  <2>1. UNCHANGED <<reserved, aged, session>> /\ files' = files \ {n}
    BY <1>3 DEF GiveUp, GiveUpFile, Forget
  <2>2. n \notin reserved
    BY <1>t, <1>3 DEF IInv, VettedAlone, Public, Task
  <2>3. task'[h].cases = task[h].cases /\ task'[h].pc = "search"
    BY <1>t, <1>3 DEF GiveUp, Task
  <2>4. Kept' = Kept
    BY <2>1, <2>2 DEF Kept
  <2>5. Sendable(h)'
    BY <1>s, <2>3, <2>4 DEF Sendable, Vetting, Selecting
  <2> QED
    BY <1>3, <1>s, <2>1, <2>4, <2>5, SendableKept DEF Vetting, Selecting
<1>4. CASE CheckUsed(h) /\ ~GiveUp(h)
  <2>1. UNCHANGED <<files, session, reserved, aged>> /\ task[h].pc = "vet"
    BY <1>4 DEF CheckUsed, At, ledgerVars
  <2>2. /\ task'[h].cases = task[h].cases /\ task'[h].token = task[h].token
        /\ task'[h].pc = "checked"
    BY <1>t, <1>4 DEF CheckUsed, Goto, Task
  <2>3. Sendable(h)'
    BY <1>s, <2>1, <2>2 DEF Sendable, Vetting, Selecting, Kept
  <2>k. Kept \subseteq Kept' /\ task[h].pc \notin Selecting
    BY <1>s, <2>1, <2>3 DEF Kept, Selecting
  <2> QED
    BY <1>s, <2>1, <2>3, <2>k, SendableKept
<1>5. CASE Reserve(h) /\ ~GiveUp(h)
  <2> DEFINE n == task[h].token
  <2>1. /\ UNCHANGED <<files, session>> /\ task[h].pc = "checked" /\ aged' = {}
        /\ reserved' = reserved \cup {n}
    BY <1>5, <1>s DEF Reserve, ReserveCase, Unexpired, At
  <2>2. task'[h].cases = task[h].cases \cup {n} /\ task'[h].pc = "search"
    BY <1>t, <1>5 DEF Reserve, Task
  <2>3. Sendable(h)'
    BY <1>s, <2>1, <2>2 DEF Sendable, Vetting, Selecting, Kept
  <2>k. Kept \subseteq Kept' /\ task[h].pc \notin Selecting
    BY <2>1, <2>3 DEF Kept, Selecting
  <2> QED
    BY <2>1, <2>3, <2>k, SendableKept
<1>6. CASE OfferCases(h)
  <2> DEFINE u == task[h].user
  <2>1. /\ UNCHANGED <<files, reserved, aged>> /\ task[h].pc = "search" /\ u \in User
        /\ session' = [session EXCEPT ![u] = NewSession(task[h].cases)]
        /\ task' = [task EXCEPT ![h] = Idle]
    BY <1>t, <1>6 DEF OfferCases, Finish, At, ledgerVars
  <2>2. task'[h].pc = "idle" /\ task'[h].user = None /\ task'[h].cases = {}
    BY <1>t, <2>1 DEF Idle
  <2>3. Sendable(h)'
    BY <2>2 DEF Sendable, Vetting, Selecting
  <2>4. session'[u].cases = task[h].cases /\ OnlyOwnSession(h)
    BY <1>t, <2>1 DEF OnlyOwnSession, NewSession
  <2> QED
    BY <1>s, <2>1, <2>2, <2>3, <2>4, SendableStep DEF Whole, Sendable, Kept
<1> QED
  <2>1. CASE Reject(h) \/ CheckUsed(h) \/ Reserve(h)
    <3>1. Vetting(h)
      BY <2>1 DEF Reject, CheckUsed, Reserve, Vetting, At
    <3> QED
      BY <1>3, <1>4, <1>5, <2>1, <3>1 DEF Reject
  <2> QED
    BY <1>1, <1>2, <1>6, <2>1

(* A selection among cases that can all be sent, or of a recorded session. *)
LEMMA SendableBeginsSelect ==
  ASSUME IInv, OwnerInv, DeliveryInv, SendInv, NEW h \in Handler, TakesOwn(h), DeliveryInv',
         NEW u \in User, NEW s \in Session, s.recorded \/ s.cases \subseteq Kept,
         NEW t \in s.cases,
         NEW mode \in {"send", "regen"}, NEW next \in {"select", "generate"},
         BeginSelect(h, u, s, t, mode, next), UNCHANGED <<ledgerVars, seen>>,
         task[h].pc \notin Selecting, s.cases \subseteq s.all, \A n \in s.all : owner[n] = u
  PROVE  SendInv'
<1>t. /\ task \in [Handler -> Task] /\ session \in [User -> Session]
  BY Typing
<1> DEFINE S == [session EXCEPT ![u] = s]
<1>1. S \in [User -> Session] /\ S[u] = s /\ \A v \in User : v # u => S[v] = session[v]
  BY <1>t
<1>2. UNCHANGED <<reserved, aged>> /\ files' = files \ (s.cases \ {t}) /\ aged' = {}
  BY DEF BeginSelect, Discarded, ledgerVars, SendInv
<1>o. ASSUME NEW v \in User, v # u, v = task[h].user, session'[v] = session[v]
      PROVE  Whole(v)'
  <2>1. session[v].recorded \/ session[v].cases \subseteq Kept
    BY <1>o DEF SendInv, Whole, DeliveryInv, Alone
  <2>2. \A n \in session[v].cases : owner[n] = v
    BY DEF IInv, SessionShape, WellFormed, OwnerInv
  <2> QED
    BY <1>2, <1>o, <2>1, <2>2 DEF Whole, Kept
<1>3. CASE s.cases \ {t} = {}
  <2> DEFINE r == [Idle EXCEPT !.pc = next, !.user = u, !.mode = mode, !.token = t]
  <2>1. /\ session' = [S EXCEPT ![u].cases = {t}, ![u].selected = t]
        /\ task' = [task EXCEPT ![h] = r]
    BY <1>3 DEF BeginSelect, Discarded
  <2>2. r.pc = next /\ r.user = u /\ r.cases = {}
    BY DEF Idle
  <2> HIDE DEF r
  <2>3. task'[h].pc = next /\ task'[h].user = u /\ task'[h].cases = {}
    BY <1>t, <2>1, <2>2
  <2>4. /\ session'[u].cases = {t} /\ session'[u].recorded = s.recorded
        /\ \A v \in User : v # u => session'[v] = session[v]
    BY <1>1, <2>1 DEF Session
  <2>5. Sendable(h)'
    BY <2>3 DEF Sendable, Vetting, Selecting
  <2>6. Whole(u)'
    BY <1>2, <1>3, <2>4 DEF Whole, Kept
  <2> QED
    BY <1>2, <1>o, <2>3, <2>4, <2>5, <2>6, SendableStep DEF OnlyOwnSession
<1>4. CASE s.cases \ {t} # {}
  <2> DEFINE r == [Idle EXCEPT !.pc = "drop", !.user = u, !.mode = mode, !.token = t,
                               !.drop = s.cases \ {t}, !.then = next]
  <2>1. session' = S /\ task' = [task EXCEPT ![h] = r]
    BY <1>4 DEF BeginSelect, Discarded
  <2>2. r.pc = "drop" /\ r.user = u /\ r.cases = {} /\ r.token = t
    BY DEF Idle
  <2> HIDE DEF r
  <2>3. task'[h].pc = "drop" /\ task'[h].user = u /\ task'[h].cases = {} /\ task'[h].token = t
    BY <1>t, <2>1, <2>2
  <2>4. session'[u] = s /\ \A v \in User : v # u => session'[v] = session[v]
    BY <1>1, <2>1
  <2>5. Sendable(h)'
    BY <1>2, <2>3, <2>4 DEF Sendable, Vetting, Selecting, Kept
  <2>6. Whole(u)'
    BY <2>3 DEF Whole, Selecting
  <2> QED
    BY <1>2, <1>o, <2>3, <2>4, <2>5, <2>6, SendableStep DEF OnlyOwnSession
<1> QED
  BY <1>3, <1>4

LEMMA SendableSelects ==
  ASSUME Reliable, IInv, OwnerInv, DeliveryInv, SendInv, NEW h \in Handler,
         TakesOwn(h), DeliveryInv',
         \/ \E u \in User, t \in Token : PressPick(h, u, t) \/ PressRegenerate(h, u, t)
         \/ AutoSelect(h) \/ SendSelect(h) \/ FinishSelect(h)
  PROVE  SendInv'
<1>t. /\ task \in [Handler -> Task] /\ session \in [User -> Session] /\ task[h] \in Task
      /\ task[h].pc # "idle" => task[h].user \in User /\ session[task[h].user] \in Session
  BY Typing
<1>s. Sendable(h) /\ aged = {}
  BY DEF SendInv
<1>a. \A u \in User : /\ session[u].cases \subseteq session[u].all
                      /\ \A n \in session[u].all : owner[n] = u
  BY DEF IInv, SessionShape, WellFormed, OwnerInv
<1>w. ASSUME NEW u \in User,
             \A g \in Handler : task[g].user = u => task[g].pc \notin Selecting
      PROVE  session[u].recorded \/ session[u].cases \subseteq Kept
  BY <1>w DEF SendInv, Whole
<1>1. ASSUME NEW u \in User, NEW t \in Token, PressPick(h, u, t) \/ PressRegenerate(h, u, t)
      PROVE  SendInv'
  <2>1. /\ UNCHANGED <<ledgerVars, seen>> /\ t \in session[u].cases
        /\ \/ BeginSelect(h, u, session[u], t, "send", "select")
           \/ BeginSelect(h, u, session[u], t, "regen", "generate")
    BY <1>1 DEF PressPick, PressRegenerate
  <2>2. \A g \in Handler : task[g].user # u
    BY <1>1 DEF PressPick, PressRegenerate, CanPress, Quiet, Reliable
  <2>3. task[h].pc \notin Selecting
    BY <1>1 DEF PressPick, PressRegenerate, CanPress, At, Selecting
  <2> QED
    BY <1>t, <1>a, <1>w, <2>1, <2>2, <2>3, SendableBeginsSelect
<1>2. CASE AutoSelect(h)
  <2>1. task[h].pc = "search" /\ task[h].user \in User /\ UNCHANGED <<ledgerVars, seen>>
    BY <1>t, <1>2 DEF AutoSelect, At
  <2> DEFINE s == NewSession(task[h].cases)
  <2>2. PICK t \in task[h].cases : BeginSelect(h, task[h].user, s, t, "send", "select")
    BY <1>2 DEF AutoSelect
  <2>3. /\ s \in Session /\ t \in s.cases /\ s.cases \subseteq Kept
        /\ s.cases \subseteq s.all /\ \A n \in s.all : owner[n] = task[h].user
    BY <1>t, <1>s DEF NewSession, Session, Task, Sendable, OwnerInv, Theirs
  <2>4. task[h].pc \notin Selecting
    BY <2>1 DEF Selecting
  <2> HIDE DEF s
  <2> QED
    BY <2>1, <2>2, <2>3, <2>4, SendableBeginsSelect
<1>3. CASE SendSelect(h)
  <2>1. task[h].pc = "select" /\ task[h].user \in User /\ UNCHANGED <<ledgerVars, seen>>
    BY <1>t, <1>3 DEF SendSelect, At
  <2>2. CASE task[h].token \in session[task[h].user].cases
    <3>1. BeginSelect(h, task[h].user, session[task[h].user], task[h].token, "send", "generate")
      BY <1>3, <2>2 DEF SendSelect
    <3>2. /\ task[h].pc \notin Selecting
          /\ \A g \in Handler : task[g].user = task[h].user => task[g].pc \notin Selecting
      BY <2>1 DEF DeliveryInv, Alone, Selecting
    <3> QED
      BY <1>t, <1>a, <1>w, <2>1, <2>2, <3>1, <3>2, SendableBeginsSelect
  <2>3. CASE task[h].token \notin session[task[h].user].cases
    <3>1. task' = [task EXCEPT ![h] = Idle] /\ UNCHANGED <<session, files, reserved, aged>>
      BY <1>3, <2>1, <2>3 DEF SendSelect, Finish, ledgerVars
    <3>2. task'[h].pc = "idle" /\ task'[h].cases = {}
      BY <1>t, <3>1 DEF Idle
    <3>3. Sendable(h)'
      BY <3>2 DEF Sendable, Vetting, Selecting
    <3> QED
      BY <1>s, <2>1, <3>1, <3>3, SendableKept DEF Kept, Selecting
  <2> QED
    BY <2>2, <2>3
<1>4. CASE FinishSelect(h)
  <2> DEFINE u == task[h].user
  <2>1. /\ task[h].pc = "dropped" /\ UNCHANGED <<files, reserved, aged>> /\ u \in User
        /\ session' = Chosen(u, task[h].token)
    BY <1>t, <1>4 DEF FinishSelect, At, ledgerVars
  <2>2. /\ task[h].token \in session[u].all
        /\ session[u].recorded \/ task[h].token \in Kept
    BY <1>s, <2>1 DEF DeliveryInv, Delivers, Sendable, Selecting
  <2>3. /\ session'[u].cases = {task[h].token} /\ session'[u].recorded = session[u].recorded
        /\ \A v \in User : v # u => session'[v] = session[v]
    BY <1>t, <2>1, <2>2 DEF Chosen, Session
  <2>4. task[h].cases = {}
    BY <2>1 DEF IInv, TaskShape, Searching
  <2>5. /\ task'[h].pc \in {"idle", "select", "generate"} /\ task'[h].cases = {}
        /\ task'[h].user \in {u, None}
    <3>1. CASE task' = [task EXCEPT ![h] = Idle]
      BY <1>t, <3>1 DEF Idle
    <3>2. CASE task' = [task EXCEPT ![h].pc = task[h].then, ![h].drop = {}, ![h].then = "idle"]
      BY <1>t, <2>4, <3>2 DEF Task
    <3> QED
      BY <1>4, <3>1, <3>2 DEF FinishSelect, Finish
  <2>6. Sendable(h)'
    BY <2>5 DEF Sendable, Vetting, Selecting
  <2>7. \A v \in User : v = u => Whole(v)'
    BY <2>1, <2>2, <2>3 DEF Whole, Kept
  <2> QED
    BY <1>s, <2>1, <2>3, <2>5, <2>6, <2>7, SendableStep DEF OnlyOwnSession
<1> QED
  BY <1>1, <1>2, <1>3, <1>4

LEMMA SendableNext ==
  Reliable /\ IInv /\ OwnerInv /\ DeliveryInv /\ SendInv /\ [Next]_vars => SendInv'
<1> SUFFICES ASSUME Reliable, IInv, OwnerInv, DeliveryInv, SendInv, [Next]_vars
             PROVE  SendInv'
  OBVIOUS
<1>1. ASSUME NEW h \in Handler, Press(h) \/ AcquireLock(h) \/ Step(h) PROVE SendInv'
  <2>1. TakesOwn(h)
    BY <1>1, OwnerActs
  <2>2. DeliveryInv'
    BY DeliveryStep DEF Reliable
  <2> QED
    BY <1>1, <2>1, <2>2, SendableEnds, SendableGoesOn, SendableRecords, SendableSearches,
       SendableSelects DEF Press, Step
<1>2. ASSUME NEW t \in Token, ReservationAges(t) PROVE SendInv'
  BY <1>2 DEF ReservationAges, Reliable
<1>3. CASE Restart
  <2>1. /\ session' = [u \in User |-> NoSession] /\ task' = [h \in Handler |-> Idle]
        /\ aged' = aged
    BY <1>3 DEF Restart, ledgerVars
  <2>2. \A u \in User : Whole(u)'
    BY <2>1 DEF Whole, NoSession, NewSession
  <2>3. \A h \in Handler : Sendable(h)'
    <3>1. \A h \in Handler : task'[h] = Idle
      BY <2>1
    <3> QED
      BY <3>1 DEF Sendable, Vetting, Selecting, Idle
  <2> QED
    BY <2>1, <2>2, <2>3 DEF SendInv
<1>4. CASE UNCHANGED vars
  BY <1>4 DEF vars, ledgerVars, botVars, seen, SendInv, Sendable, Whole, Kept, Vetting
<1> QED
  BY <1>1, <1>2, <1>3, <1>4 DEF Next

(* Between presses every case a session offers can be sent, whatever other *)
(* users do, if users wait for the bot, reservations do not expire and     *)
(* discarded reservations are released.                                    *)
THEOREM HeldCasesCanBeSent ==
  ASSUME Reliable
  PROVE  Spec => []HeldCaseIsSendable
<1>1. Init => OwnerInv /\ DeliveryInv /\ SendInv
  BY DEF Init, LedgerInit, OwnerInv, Theirs, Vetting, Idle, NoSession, NewSession, DeliveryInv,
     Alone, Delivers, RecordedOnlyAfterDelivery, Selecting, Sending, SendInv, Sendable, Whole
<1>2. IInv /\ OwnerInv /\ DeliveryInv /\ SendInv /\ [Next]_vars
         => OwnerInv' /\ DeliveryInv' /\ SendInv'
  BY OwnerNext, DeliveryStep, SendableNext DEF Reliable
<1>3. SendInv => HeldCaseIsSendable
  BY DEF SendInv, Whole, Kept, HeldCaseIsSendable
<1> QED
  BY <1>1, <1>2, <1>3, Inductive, PTL DEF Spec

-------------------------------------------------------------------------------
(* The handlers implement CaseDelivery                                     *)

(* A step touches the session of its own user only.                        *)
LEMMA SessionsOfOthers ==
  ASSUME IInv, NEW h \in Handler, Press(h) \/ AcquireLock(h) \/ Step(h)
  PROVE  OnlyOwnSession(h)
<1>t. /\ task \in [Handler -> Task] /\ session \in [User -> Session] /\ task[h] \in Task
      /\ task[h].pc # "idle" => task[h].user \in User /\ session[task[h].user] \in Session
  BY Typing
<1>b. ASSUME NEW u \in User, NEW s, NEW t, NEW mode, NEW next, BeginSelect(h, u, s, t, mode, next)
      PROVE  OnlyOwnSession(h)
  <2> DEFINE S == [session EXCEPT ![u] = s]
  <2>1. S \in [User -> {session[v] : v \in User} \cup {s}]
        /\ \A v \in User : v # u => S[v] = session[v]
    BY <1>t
  <2>2. session' = S \/ session' = [S EXCEPT ![u].cases = {t}, ![u].selected = t]
    BY <1>b DEF BeginSelect
  <2>3. \A v \in User : v # u => session'[v] = session[v]
    BY <2>1, <2>2
  <2>4. task'[h].user = u
    <3>1. CASE s.cases \ {t} = {}
      BY <1>t, <1>b, <3>1 DEF BeginSelect, Discarded, Idle
    <3>2. CASE s.cases \ {t} # {}
      BY <1>t, <1>b, <3>2 DEF BeginSelect, Discarded, Idle
    <3> QED
      BY <3>1, <3>2
  <2> QED
    BY <2>3, <2>4 DEF OnlyOwnSession
<1>1. CASE \/ \E u \in User, t \in Token : PressPick(h, u, t) \/ PressRegenerate(h, u, t)
           \/ AutoSelect(h) \/ SendSelect(h)
  <2>1. CASE \E u \in User, t \in Token : PressPick(h, u, t) \/ PressRegenerate(h, u, t)
    BY <1>b, <2>1 DEF PressPick, PressRegenerate
  <2>2. CASE AutoSelect(h)
    BY <1>t, <1>b, <2>2 DEF AutoSelect, At
  <2>3. CASE SendSelect(h) /\ task[h].token \in session[task[h].user].cases
    BY <1>t, <1>b, <2>3 DEF SendSelect, At
  <2>4. CASE SendSelect(h) /\ task[h].token \notin session[task[h].user].cases
    BY <2>4 DEF SendSelect, OnlyOwnSession
  <2> QED
    BY <1>1, <2>1, <2>2, <2>3, <2>4
<1>2. CASE AcquireLock(h) \/ OfferCases(h) \/ AuditRow(h) \/ FinishSelect(h)
  <2>1. \A v \in User : v # task[h].user => session'[v] = session[v]
    BY <1>t, <1>2 DEF AcquireLock, OfferCases, AuditRow, FinishSelect, Chosen
  <2> QED
    BY <2>1 DEF OnlyOwnSession
<1>3. CASE \/ \E u \in User : StartSearch(h, u)
           \/ CleanupReleased(h)
           \/ \E j \in Judgment, t \in Token : Download(h, j, t)
           \/ Reject(h) \/ CheckUsed(h) \/ Reserve(h) \/ AbortSearch(h) \/ SearchFails(h)
           \/ MessageRefused(h) \/ DropReservations(h) \/ DropFails(h)
  <2>1. session' = session
    BY <1>3 DEF StartSearch, CleanupReleased, Download, Reject, GiveUp, CheckUsed, Reserve,
       AbortSearch, SearchFails, MessageRefused, DropReservations, DropFails
  <2> QED
    BY <2>1 DEF OnlyOwnSession
<1>4. CASE \/ Draft(h) \/ SendPdf(h) \/ SendDocx(h) \/ SendFails(h) \/ ReplyLost(h)
           \/ RecordSent(h) \/ InsertRow(h) \/ Unreserve(h) \/ Complete(h)
  <2>1. session' = session
    BY <1>4 DEF Draft, SendPdf, SendDocx, SendFails, ReplyLost, OfferRetry, RecordSent,
       InsertRow, Unreserve, Complete
  <2> QED
    BY <2>1 DEF OnlyOwnSession
<1> QED
  BY <1>1, <1>2, <1>3, <1>4 DEF Press, Step

(* Discarded reservations are released, and users wait for the bot.        *)
Patient == Sequential /\ "select" \notin Faults

(* A case on its way to the user is in the user's session.                 *)
Holds(h) ==
    /\ task[h].pc \in Selecting \cup {"generate", "pdf", "docx", "record"}
          => task[h].token \in session[task[h].user].cases \ task[h].drop
    /\ task[h].pc = "insert" => task[h].row \in session[task[h].user].cases

SeenInv ==
    /\ gotDocx \subseteq gotPdf
    /\ \A t \in gotPdf : ~Fresh(t)
    /\ \A h \in Handler : Holds(h)

Before == IInv /\ OwnerInv /\ DeliveryInv /\ SeenInv

(* What somebody holds is no longer fresh.                                 *)
LEMMA HeldIsNotFresh ==
  ASSUME IInv, NEW t \in Token, Public(t)
  PROVE  ~Fresh(t)
BY DEF IInv, PublicIssued, VettedAlone, Fresh

(* The other tasks and their sessions stay as they are.                    *)
LEMMA SeenStep ==
  ASSUME Before, NEW h \in Handler, TakesOwn(h), OnlyOwnSession(h), DeliveryInv',
         Holds(h)', gotDocx' \subseteq gotPdf', \A t \in gotPdf' : ~Fresh(t)'
  PROVE  SeenInv'
<1>1. ASSUME NEW g \in Handler, g # h PROVE Holds(g)'
  <2>1. task'[g] = task[g] /\ Holds(g)
    BY <1>1 DEF TakesOwn, Before, SeenInv
  <2>2. CASE task[g].pc = "idle"
    BY <2>1, <2>2 DEF Holds, Selecting
  <2>3. CASE task[g].pc # "idle"
    <3>1. task[g].user \in User
      BY <2>3 DEF Before, IInv, TaskShape
    <3>2. task[g].user \notin {task[h].user, task'[h].user}
      BY <1>1, <2>1, <3>1 DEF Before, DeliveryInv, Alone
    <3>3. session'[task[g].user] = session[task[g].user]
      BY <3>1, <3>2 DEF OnlyOwnSession
    <3> QED
      BY <2>1, <3>3 DEF Holds
  <2> QED
    BY <2>2, <2>3
<1> QED
  BY <1>1 DEF SeenInv

(* What is not live afterwards and was no longer fresh is let go of.       *)
LEMMA LetsGo ==
  ASSUME Before, UNCHANGED <<history, gotPdf, gotDocx>>,
         \A t \in Token : Fresh(t)' => Fresh(t),
         \A t \in Token : Live(t)' => Live(t)
  PROVE  [Delivery!Next]_[t \in Token |-> Stage(t)]
<1>1. ASSUME NEW t \in Token
      PROVE  \/ Stage(t)' = Stage(t)
             \/ Stage(t)' = "gone" /\ Stage(t) \notin {"recorded", "gone"}
  <2>1. Live(t) => ~Fresh(t)
    <3>1. Live(t) => \/ \E u \in User : t \in session[u].cases
                     \/ \E g \in Handler : t \in task[g].cases
      BY DEF Live
    <3>2. \A u \in User : session[u].cases \subseteq session[u].all
      BY DEF Before, IInv, SessionShape, WellFormed
    <3>3. Live(t) => Public(t)
      BY <3>1, <3>2 DEF Public
    <3> QED
      BY <3>3, HeldIsNotFresh DEF Before
  <2> QED
    BY <2>1 DEF Stage
<1> DEFINE st == [t \in Token |-> Stage(t)]
           S == {t \in Token : Stage(t)' = "gone" /\ Stage(t) \notin {"recorded", "gone"}}
<1>2. \A t \in S : st[t] \notin {"recorded", "gone"}
  OBVIOUS
<1>3. st' = [t \in Token |-> IF t \in S THEN "gone" ELSE st[t]]
  <2>1. st' = [t \in Token |-> Stage(t)']
    OBVIOUS
  <2>2. \A t \in Token : Stage(t)' = IF t \in S THEN "gone" ELSE st[t]
    BY <1>1
  <2> HIDE DEF st, S
  <2> QED
    BY <2>1, <2>2
<1>4. Delivery!LetGo(S)
  BY <1>2, <1>3 DEF Delivery!LetGo
<1>5. S \in SUBSET Token
  OBVIOUS
<1> QED
  BY <1>4, <1>5 DEF Delivery!Next

(* A step that records and delivers nothing, and brings nothing to life:   *)
(* it lets go of what ends up with nobody.                                 *)
Silent(h) ==
    /\ UNCHANGED <<history, gotPdf, gotDocx>>
    /\ \A t \in Token : Fresh(t)' => Fresh(t)
    /\ \A t \in Token : Live(t)' => Live(t)
    /\ Holds(h)'

LEMMA SilentStep ==
  ASSUME Before, NEW h \in Handler, TakesOwn(h), OnlyOwnSession(h), DeliveryInv', Silent(h)
  PROVE  SeenInv' /\ [Delivery!Next]_[t \in Token |-> Stage(t)]
<1>1. SeenInv'
  <2>1. \A t \in gotPdf : t \in Token
    BY DEF Before, IInv, TypeOK
  <2> QED
    BY <2>1, SeenStep DEF Silent, Before, SeenInv
<1>2. [Delivery!Next]_[t \in Token |-> Stage(t)]
  BY LetsGo DEF Silent
<1> QED
  BY <1>1, <1>2

(* A step that moves one case on by one stage, or none.                    *)
LEMMA MoveStep ==
  ASSUME NEW n \in Token, \A t \in Token \ {n} : Stage(t)' = Stage(t),
         \/ Stage(n)' = Stage(n)
         \/ <<Stage(n), Stage(n)'>> \in {<<"new", "held">>, <<"held", "judged">>,
                <<"judged", "delivered">>, <<"delivered", "recorded">>}
  PROVE  [Delivery!Next]_[t \in Token |-> Stage(t)]
<1> DEFINE st == [t \in Token |-> Stage(t)]
<1>0. st' = [t \in Token |-> Stage(t)'] /\ \A t \in Token : st[t] = Stage(t)
  OBVIOUS
<1>1. CASE Stage(n)' = Stage(n)
  <2>1. st' = st
    BY <1>1
  <2> QED
    BY <2>1
<1>2. CASE Stage(n)' # Stage(n)
  <2>1. \A to : Stage(n)' = to => st' = [st EXCEPT ![n] = to]
    <3> SUFFICES ASSUME NEW to, Stage(n)' = to PROVE st' = [st EXCEPT ![n] = to]
      OBVIOUS
    <3>1. \A t \in Token : Stage(t)' = IF t = n THEN to ELSE Stage(t)
      OBVIOUS
    <3> QED
      BY <1>0, <3>1
  <2>2. \E from, to \in {"new", "held", "judged", "delivered", "recorded"} :
            /\ <<from, to>> \in {<<"new", "held">>, <<"held", "judged">>,
                                 <<"judged", "delivered">>, <<"delivered", "recorded">>}
            /\ Delivery!Move(n, from, to)
    BY <1>0, <1>2, <2>1 DEF Delivery!Move
  <2>3. Delivery!Hold(n) \/ Delivery!DeliverJudgment(n) \/ Delivery!DeliverCommentary(n)
        \/ Delivery!Record(n)
    BY <2>2 DEF Delivery!Hold, Delivery!DeliverJudgment, Delivery!DeliverCommentary, Delivery!Record
  <2> QED
    BY <2>3 DEF Delivery!Next
<1> QED
  BY <1>1, <1>2

(* h gains no case but those of its own search, and what it stops          *)
(* discarding is held by nobody.                                           *)
LEMMA LiveKept ==
  ASSUME IInv, NEW h \in Handler, \A g \in Handler : g # h => task'[g] = task[g],
         \A u \in User : session'[u].cases \subseteq session[u].cases \cup task[h].cases,
         task'[h].cases \subseteq task[h].cases,
         \A t \in task[h].drop \ task'[h].drop :
             /\ \A u \in User : t \notin session'[u].cases
             /\ \A g \in Handler : t \notin task'[g].cases
  PROVE  \A t \in Token : Live(t)' => Live(t)
<1> SUFFICES ASSUME NEW t \in Token, Live(t)' PROVE Live(t)
  OBVIOUS
<1>1. /\ \/ \E u \in User : t \in session'[u].cases
         \/ \E g \in Handler : t \in task'[g].cases
      /\ \A g \in Handler : t \notin task'[g].drop
  BY DEF Live
<1>2. \/ \E u \in User : t \in session[u].cases
      \/ \E g \in Handler : t \in task[g].cases
  BY <1>1
<1>3. \A g \in Handler : t \notin task[g].drop
  BY <1>1
<1> QED
  BY <1>2, <1>3 DEF Live

(* No candidate comes under verification, none is forgotten.               *)
LEMMA FreshKept ==
  ASSUME NEW h \in Handler, \A g \in Handler : g # h => task'[g] = task[g],
         judgment' = judgment,
         ~Vetting(h)' \/ (Vetting(h) /\ task'[h].token = task[h].token)
  PROVE  \A t \in Token : Fresh(t)' => Fresh(t)
BY DEF Fresh, Vetting

(* What a search clears away is held by nobody.                            *)
LEMMA ClearedIsFree ==
  ASSUME Before, NEW h \in Handler, task[h].pc = "cleanup", NEW t \in task[h].drop
  PROVE  /\ \A u \in User : t \notin session[u].cases
         /\ \A g \in Handler : t \notin task[g].cases
<1>t. task[h] \in Task /\ task[h].user \in User
  BY Typing DEF Before
<1>1. session[task[h].user].cases = {}
  BY DEF Before, IInv, LockHeld, Searching, NoSession, NewSession
<1>2. \A u \in User : t \in session[u].cases => u = task[h].user
  BY DEF Before, OwnerInv, Theirs, IInv, SessionShape, WellFormed
<1>3. \A g \in Handler : t \notin task[g].cases
  <2>1. t \in Token
    BY <1>t DEF Task
  <2> QED
    BY <2>1 DEF Before, IInv, VerifiedAlone
<1> QED
  BY <1>1, <1>2, <1>3

(* Handlers that end without having delivered or recorded anything.        *)
LEMMA SilentEnds ==
  ASSUME Patient, Before, NEW h \in Handler, TakesOwn(h),
         \/ AbortSearch(h) \/ SearchFails(h) \/ DropFails(h) \/ MessageRefused(h)
         \/ SendFails(h) \/ Complete(h)
  PROVE  Silent(h)
<1>t. task \in [Handler -> Task] /\ session \in [User -> Session] /\ task[h] \in Task
  BY Typing DEF Before
<1>1. /\ task' = [task EXCEPT ![h] = Idle]
      /\ UNCHANGED <<session, judgment, history, gotPdf, gotDocx>>
  <2>1. CASE AbortSearch(h) \/ SearchFails(h) \/ DropFails(h) \/ MessageRefused(h)
    BY <2>1 DEF AbortSearch, SearchFails, DropFails, MessageRefused, Finish, ledgerVars, seen
  <2>2. CASE SendFails(h) \/ Complete(h)
    BY <2>2 DEF SendFails, Complete, OfferRetry, Finish, ledgerVars, seen
  <2> QED
    BY <2>1, <2>2
<1>2. task'[h] = Idle
  BY <1>t, <1>1
<1>3. task'[h].cases = {} /\ task'[h].drop = {} /\ task'[h].pc = "idle"
  BY <1>2 DEF Idle
<1>4. \A g \in Handler : g # h => task'[g] = task[g]
  BY DEF TakesOwn
<1>5. task[h].pc = "cleanup" \/ task[h].drop = {}
  <2>1. CASE AbortSearch(h)
    BY <2>1 DEF AbortSearch, Before, IInv, TaskShape, Searching, Selecting
  <2>2. CASE ~AbortSearch(h)
    BY <2>2 DEF SearchFails, DropFails, MessageRefused, SendFails, Complete, At, Patient,
       Before, IInv, TaskShape, Selecting
  <2> QED
    BY <2>1, <2>2
<1>6. \A t \in Token : Live(t)' => Live(t)
  <2>1. \A g \in Handler : task'[g].cases \subseteq task[g].cases
    BY <1>3, <1>4
  <2>2. \A t \in task[h].drop : /\ \A u \in User : t \notin session'[u].cases
                                /\ \A g \in Handler : t \notin task'[g].cases
    BY <1>1, <1>5, <2>1, ClearedIsFree
  <2> QED
    BY <1>1, <1>3, <1>4, <2>2, LiveKept DEF Before
<1>7. \A t \in Token : Fresh(t)' => Fresh(t)
  BY <1>1, <1>3, <1>4, FreshKept DEF Vetting
<1>8. Holds(h)'
  BY <1>3 DEF Holds, Selecting
<1> QED
  BY <1>1, <1>6, <1>7, <1>8 DEF Silent

(* Steps that leave the sessions and the tables' judgments alone.          *)
LEMMA SilentGoesOn ==
  ASSUME Before, NEW h \in Handler, TakesOwn(h),
         \/ \E u \in User : StartSearch(h, u)
         \/ CleanupReleased(h) \/ DropReservations(h)
         \/ Draft(h) \/ RecordSent(h) \/ AuditRow(h) \/ Unreserve(h)
  PROVE  Silent(h)
<1>t. /\ task \in [Handler -> Task] /\ session \in [User -> Session] /\ task[h] \in Task
      /\ task[h].pc # "idle" => task[h].user \in User /\ session[task[h].user] \in Session
  BY Typing DEF Before
<1>o. \A g \in Handler : g # h => task'[g] = task[g]
  BY DEF TakesOwn
<1>1. UNCHANGED <<judgment, history, gotPdf, gotDocx>>
  BY DEF StartSearch, CleanupReleased, DropReservations, Release, Draft, RecordSent, AuditRow,
     Unreserve, ledgerVars, seen
<1>2. \A u \in User : session'[u].cases = session[u].cases
  <2>1. CASE AuditRow(h)
    BY <1>t, <2>1 DEF AuditRow, Session
  <2>2. CASE ~AuditRow(h)
    BY <2>2 DEF StartSearch, CleanupReleased, DropReservations, Draft, RecordSent, Unreserve
  <2> QED
    BY <2>1, <2>2
<1>3. CASE \E u \in User : StartSearch(h, u)
  <2> PICK u \in User : StartSearch(h, u)
    BY <1>3
  <2>1. /\ task' = [task EXCEPT ![h] = [Idle EXCEPT !.pc = "lock", !.user = u]]
        /\ task[h].pc = "idle"
    BY DEF StartSearch, CanPress, At
  <2>2. task'[h].pc = "lock" /\ task'[h].cases = {}
    BY <1>t, <2>1 DEF Idle
  <2>3. task[h].drop = {}
    BY <2>1 DEF Before, IInv, TaskShape, Selecting
  <2>4. \A t \in Token : Live(t)' => Live(t)
    BY <1>o, <1>2, <2>2, <2>3, LiveKept DEF Before
  <2>5. \A t \in Token : Fresh(t)' => Fresh(t)
    BY <1>o, <1>1, <2>2, FreshKept DEF Vetting
  <2> QED
    BY <1>1, <2>2, <2>4, <2>5 DEF Silent, Holds, Selecting
<1>4. CASE CleanupReleased(h)
  <2>1. /\ task[h].pc = "cleanup" /\ session' = session
        /\ task'[h].cases = task[h].cases /\ task'[h].pc = "search"
    BY <1>t, <1>4 DEF CleanupReleased, At, Task
  <2>2. \A t \in task[h].drop : /\ \A u \in User : t \notin session'[u].cases
                                /\ \A g \in Handler : t \notin task'[g].cases
    BY <1>o, <2>1, ClearedIsFree
  <2>4. \A t \in Token : Live(t)' => Live(t)
    BY <1>o, <1>2, <2>1, <2>2, LiveKept DEF Before
  <2>5. \A t \in Token : Fresh(t)' => Fresh(t)
    BY <1>o, <1>1, <2>1, FreshKept DEF Vetting
  <2> QED
    BY <1>1, <2>1, <2>4, <2>5 DEF Silent, Holds, Selecting
<1>5. CASE DropReservations(h) \/ Draft(h) \/ RecordSent(h) \/ AuditRow(h) \/ Unreserve(h)
  <2>1. /\ task'[h].cases = task[h].cases /\ task'[h].drop = task[h].drop
        /\ task'[h].token = task[h].token /\ task'[h].user = task[h].user
        /\ \/ task'[h].pc \in {"audit", "unreserve", "unlink"}
           \/ task'[h].pc = "dropped" /\ task[h].pc = "drop"
           \/ task'[h].pc \in {"pdf", "docx"} /\ task[h].pc = "generate"
           \/ /\ task'[h].pc = "insert" /\ task[h].pc = "record"
              /\ task'[h].row = session[task[h].user].selected
    <3>1. CASE DropReservations(h) \/ Draft(h)
      BY <1>t, <3>1 DEF DropReservations, Draft, Goto, At, Task
    <3>2. CASE RecordSent(h)
      BY <1>t, <3>2 DEF RecordSent, Mine, At, Task
    <3>3. CASE AuditRow(h) \/ Unreserve(h)
      BY <1>t, <3>3 DEF AuditRow, Unreserve, Goto, Task
    <3> QED
      BY <1>5, <3>1, <3>2, <3>3
  <2>2. Holds(h) /\ Delivers(h)
    BY DEF Before, SeenInv, DeliveryInv
  <2>3. Holds(h)'
    <3>1. task[h].pc \in {"drop", "generate", "record"} => task[h].user \in User
      BY <1>t
    <3> QED
      BY <1>2, <2>1, <2>2, <3>1 DEF Holds, Delivers, Selecting
  <2>4. \A t \in Token : Live(t)' => Live(t)
    BY <1>o, <1>2, <2>1, LiveKept DEF Before
  <2>5. \A t \in Token : Fresh(t)' => Fresh(t)
    BY <1>o, <1>1, <2>1, FreshKept DEF Vetting
  <2> QED
    BY <1>1, <2>3, <2>4, <2>5 DEF Silent
<1> QED
  BY <1>3, <1>4, <1>5

(* A search up to the reservation.                                         *)
LEMMA SilentSearches ==
  ASSUME Before, NEW h \in Handler, TakesOwn(h),
         \/ AcquireLock(h)
         \/ \E j \in Judgment, t \in Token : Download(h, j, t)
         \/ Vetting(h) /\ GiveUp(h)
         \/ CheckUsed(h) \/ OfferCases(h)
  PROVE  Silent(h)
<1>t. /\ task \in [Handler -> Task] /\ session \in [User -> Session] /\ task[h] \in Task
      /\ task[h].pc # "idle" => task[h].user \in User /\ session[task[h].user] \in Session
  BY Typing DEF Before
<1>o. \A g \in Handler : g # h => task'[g] = task[g]
  BY DEF TakesOwn
<1>1. CASE AcquireLock(h)
  <2> DEFINE u == task[h].user
  <2>1. /\ task[h].pc = "lock" /\ UNCHANGED <<judgment, history, gotPdf, gotDocx>>
        /\ session' = [session EXCEPT ![u] = NoSession]
    BY <1>1 DEF AcquireLock, At, ledgerVars, seen
  <2>2. task'[h].cases = task[h].cases /\ task'[h].pc \in {"search", "cleanup"}
    BY <1>t, <1>1 DEF AcquireLock, Task
  <2>3. task[h].drop = {}
    BY <2>1 DEF Before, IInv, TaskShape, Selecting
  <2>4. \A v \in User : session'[v].cases \subseteq session[v].cases
    BY <1>t, <2>1 DEF NoSession, NewSession
  <2>5. \A t \in Token : Live(t)' => Live(t)
    BY <1>o, <2>2, <2>3, <2>4, LiveKept DEF Before
  <2>6. \A t \in Token : Fresh(t)' => Fresh(t)
    BY <1>o, <2>1, <2>2, FreshKept DEF Vetting
  <2> QED
    BY <2>1, <2>2, <2>5, <2>6 DEF Silent, Holds, Selecting
<1>2. CASE \E j \in Judgment, t \in Token : Download(h, j, t)
  <2> PICK j \in Judgment, n \in Token : Download(h, j, n)
    BY <1>2
  <2>1. /\ task[h].pc = "search" /\ UNCHANGED <<history, gotPdf, gotDocx, session>>
        /\ judgment[n] = None /\ judgment' = [judgment EXCEPT ![n] = j]
    BY DEF Download, Issue, At
  <2>2. /\ task'[h].cases = task[h].cases /\ task'[h].token = n /\ task'[h].pc = "vet"
        /\ task'[h].drop = task[h].drop
    BY <1>t DEF Download, Task
  <2>3. \A t \in Token : Live(t)' => Live(t)
    BY <1>o, <2>1, <2>2, LiveKept DEF Before
  <2>4. \A t \in Token : Fresh(t)' => Fresh(t)
    <3>1. \A t \in Token : t # n => judgment'[t] = judgment[t]
      BY <2>1 DEF Before, IInv, TypeOK, LedgerTypeOK
    <3> QED
      BY <1>o, <2>1, <2>2, <3>1 DEF Fresh, Vetting
  <2> QED
    BY <2>1, <2>2, <2>3, <2>4 DEF Silent, Holds, Selecting
<1>3. CASE Vetting(h) /\ GiveUp(h)
  <2> DEFINE n == task[h].token
  <2>1. /\ UNCHANGED <<history, gotPdf, gotDocx, session>>
        /\ judgment' = [judgment EXCEPT ![n] = None]
    BY <1>3 DEF GiveUp, Forget
  <2>2. /\ task'[h].cases = task[h].cases /\ task'[h].pc = "search"
        /\ task'[h].drop = task[h].drop
    BY <1>t, <1>3 DEF GiveUp, Task
  <2>3. \A t \in Token : Live(t)' => Live(t)
    BY <1>o, <2>1, <2>2, LiveKept DEF Before
  <2>4. \A t \in Token : Fresh(t)' => Fresh(t)
    <3>1. \A t \in Token : t # n => judgment'[t] = judgment[t]
      BY <2>1 DEF Before, IInv, TypeOK, LedgerTypeOK
    <3> QED
      BY <1>o, <1>3, <2>2, <3>1 DEF Fresh, Vetting
  <2> QED
    BY <2>1, <2>2, <2>3, <2>4 DEF Silent, Holds, Selecting
<1>4. CASE CheckUsed(h) /\ ~GiveUp(h)
  <2>1. /\ task[h].pc = "vet" /\ UNCHANGED <<judgment, history, gotPdf, gotDocx, session>>
    BY <1>4 DEF CheckUsed, At, ledgerVars, seen
  <2>2. /\ task'[h].cases = task[h].cases /\ task'[h].token = task[h].token
        /\ task'[h].pc = "checked" /\ task'[h].drop = task[h].drop
    BY <1>t, <1>4 DEF CheckUsed, Goto, Task
  <2>3. \A t \in Token : Live(t)' => Live(t)
    BY <1>o, <2>1, <2>2, LiveKept DEF Before
  <2>4. \A t \in Token : Fresh(t)' => Fresh(t)
    BY <1>o, <2>1, <2>2, FreshKept DEF Vetting
  <2> QED
    BY <2>1, <2>2, <2>3, <2>4 DEF Silent, Holds, Selecting
<1>5. CASE OfferCases(h)
  <2> DEFINE u == task[h].user
  <2>1. /\ task[h].pc = "search" /\ UNCHANGED <<judgment, history, gotPdf, gotDocx>>
        /\ session' = [session EXCEPT ![u] = NewSession(task[h].cases)]
        /\ task' = [task EXCEPT ![h] = Idle]
    BY <1>5 DEF OfferCases, Finish, At, ledgerVars, seen
  <2>2. task'[h].cases = {} /\ task'[h].pc = "idle"
    BY <1>t, <2>1 DEF Idle
  <2>3. task[h].drop = {}
    BY <2>1 DEF Before, IInv, TaskShape, Selecting
  <2>4. \A v \in User : session'[v].cases \subseteq session[v].cases \cup task[h].cases
    BY <1>t, <2>1 DEF NewSession
  <2>5. \A t \in Token : Live(t)' => Live(t)
    BY <1>o, <2>2, <2>3, <2>4, LiveKept DEF Before
  <2>6. \A t \in Token : Fresh(t)' => Fresh(t)
    BY <1>o, <2>1, <2>2, FreshKept DEF Vetting
  <2> QED
    BY <2>1, <2>2, <2>5, <2>6 DEF Silent, Holds, Selecting
<1> QED
  <2>1. CheckUsed(h) => Vetting(h)
    BY DEF CheckUsed, Vetting, At
  <2> QED
    BY <1>1, <1>2, <1>3, <1>4, <1>5, <2>1

(* A selection among the cases of the user's session or of h's search.     *)
LEMMA SilentBeginsSelect ==
  ASSUME Before, NEW h \in Handler, TakesOwn(h), NEW u \in User, NEW s \in Session,
         s.cases \subseteq session[u].cases \cup task[h].cases, task[h].drop = {},
         NEW t \in s.cases, NEW mode \in {"send", "regen"}, NEW next \in {"select", "generate"},
         BeginSelect(h, u, s, t, mode, next), UNCHANGED <<ledgerVars, seen>>
  PROVE  Silent(h)
<1>t. /\ task \in [Handler -> Task] /\ session \in [User -> Session]
  BY Typing DEF Before
<1>o. \A g \in Handler : g # h => task'[g] = task[g]
  BY DEF TakesOwn
<1> DEFINE S == [session EXCEPT ![u] = s]
<1>1. S \in [User -> Session] /\ S[u] = s /\ \A v \in User : v # u => S[v] = session[v]
  BY <1>t
<1>2. UNCHANGED <<judgment, history, gotPdf, gotDocx>>
  BY DEF ledgerVars, seen
<1>3. /\ task'[h].cases = {} /\ task'[h].pc \in {next, "drop"} /\ ~Vetting(h)'
      /\ \A v \in User : session'[v].cases \subseteq session[v].cases \cup task[h].cases
      /\ Holds(h)'
  <2>1. CASE s.cases \ {t} = {}
    <3> DEFINE r == [Idle EXCEPT !.pc = next, !.user = u, !.mode = mode, !.token = t]
    <3>1. /\ session' = [S EXCEPT ![u].cases = {t}, ![u].selected = t]
          /\ task' = [task EXCEPT ![h] = r]
      BY <2>1 DEF BeginSelect, Discarded
    <3>2. r.pc = next /\ r.user = u /\ r.cases = {} /\ r.token = t /\ r.drop = {}
      BY DEF Idle
    <3> HIDE DEF r
    <3>3. /\ task'[h].pc = next /\ task'[h].user = u /\ task'[h].cases = {}
          /\ task'[h].token = t /\ task'[h].drop = {}
      BY <1>t, <3>1, <3>2
    <3>4. session'[u].cases = {t} /\ \A v \in User : v # u => session'[v] = session[v]
      BY <1>1, <3>1 DEF Session
    <3> QED
      BY <3>3, <3>4 DEF Holds, Selecting, Vetting
  <2>2. CASE s.cases \ {t} # {}
    <3> DEFINE r == [Idle EXCEPT !.pc = "drop", !.user = u, !.mode = mode, !.token = t,
                                 !.drop = s.cases \ {t}, !.then = next]
    <3>1. session' = S /\ task' = [task EXCEPT ![h] = r]
      BY <2>2 DEF BeginSelect, Discarded
    <3>2. r.pc = "drop" /\ r.user = u /\ r.cases = {} /\ r.token = t /\ r.drop = s.cases \ {t}
      BY DEF Idle
    <3> HIDE DEF r
    <3>3. /\ task'[h].pc = "drop" /\ task'[h].user = u /\ task'[h].cases = {}
          /\ task'[h].token = t /\ task'[h].drop = s.cases \ {t}
      BY <1>t, <3>1, <3>2
    <3>4. session'[u] = s /\ \A v \in User : v # u => session'[v] = session[v]
      BY <1>1, <3>1
    <3> QED
      BY <3>3, <3>4 DEF Holds, Selecting, Vetting
  <2> QED
    BY <2>1, <2>2
<1>4. \A n \in Token : Live(n)' => Live(n)
  BY <1>o, <1>3, LiveKept DEF Before
<1>5. \A n \in Token : Fresh(n)' => Fresh(n)
  BY <1>o, <1>2, <1>3, FreshKept
<1> QED
  BY <1>2, <1>3, <1>4, <1>5 DEF Silent

LEMMA SilentSelects ==
  ASSUME Before, NEW h \in Handler, TakesOwn(h),
         \/ \E u \in User, t \in Token : PressPick(h, u, t) \/ PressRegenerate(h, u, t)
         \/ AutoSelect(h) \/ SendSelect(h) \/ FinishSelect(h)
  PROVE  Silent(h)
<1>t. /\ task \in [Handler -> Task] /\ session \in [User -> Session] /\ task[h] \in Task
      /\ task[h].pc # "idle" => task[h].user \in User /\ session[task[h].user] \in Session
  BY Typing DEF Before
<1>o. \A g \in Handler : g # h => task'[g] = task[g]
  BY DEF TakesOwn
<1>d. task[h].pc \in {"idle", "search", "select"} => task[h].drop = {}
  BY DEF Before, IInv, TaskShape, Selecting
<1>1. ASSUME NEW u \in User, NEW t \in Token, PressPick(h, u, t) \/ PressRegenerate(h, u, t)
      PROVE  Silent(h)
  <2>1. /\ UNCHANGED <<ledgerVars, seen>> /\ t \in session[u].cases /\ task[h].pc = "idle"
        /\ \/ BeginSelect(h, u, session[u], t, "send", "select")
           \/ BeginSelect(h, u, session[u], t, "regen", "generate")
    BY <1>1 DEF PressPick, PressRegenerate, CanPress, At
  <2> QED
    BY <1>t, <1>d, <2>1, SilentBeginsSelect
<1>2. CASE AutoSelect(h)
  <2>1. task[h].pc = "search" /\ task[h].user \in User /\ UNCHANGED <<ledgerVars, seen>>
    BY <1>t, <1>2 DEF AutoSelect, At
  <2> DEFINE s == NewSession(task[h].cases)
  <2>2. PICK t \in task[h].cases : BeginSelect(h, task[h].user, s, t, "send", "select")
    BY <1>2 DEF AutoSelect
  <2>3. s \in Session /\ t \in s.cases /\ s.cases \subseteq task[h].cases
    BY <1>t DEF NewSession, Session, Task
  <2> HIDE DEF s
  <2> QED
    BY <1>d, <2>1, <2>2, <2>3, SilentBeginsSelect
<1>3. CASE SendSelect(h)
  <2>1. task[h].pc = "select" /\ task[h].user \in User /\ UNCHANGED <<ledgerVars, seen>>
    BY <1>t, <1>3 DEF SendSelect, At
  <2>2. CASE task[h].token \in session[task[h].user].cases
    <3>1. BeginSelect(h, task[h].user, session[task[h].user], task[h].token, "send", "generate")
      BY <1>3, <2>2 DEF SendSelect
    <3> QED
      BY <1>t, <1>d, <2>1, <2>2, <3>1, SilentBeginsSelect
  <2>3. CASE task[h].token \notin session[task[h].user].cases
    <3>1. /\ task' = [task EXCEPT ![h] = Idle]
          /\ UNCHANGED <<session, judgment, history, gotPdf, gotDocx>>
      BY <1>3, <2>1, <2>3 DEF SendSelect, Finish, ledgerVars, seen
    <3>2. task'[h].pc = "idle" /\ task'[h].cases = {}
      BY <1>t, <3>1 DEF Idle
    <3>3. \A t \in Token : Live(t)' => Live(t)
      BY <1>o, <1>d, <2>1, <3>1, <3>2, LiveKept DEF Before
    <3>4. \A t \in Token : Fresh(t)' => Fresh(t)
      BY <1>o, <3>1, <3>2, FreshKept DEF Vetting
    <3> QED
      BY <3>1, <3>2, <3>3, <3>4 DEF Silent, Holds, Selecting
  <2> QED
    BY <2>2, <2>3
<1>4. CASE FinishSelect(h)
  <2> DEFINE u == task[h].user
             n == task[h].token
  <2>1. /\ task[h].pc = "dropped" /\ UNCHANGED <<judgment, history, gotPdf, gotDocx>>
        /\ u \in User /\ session' = Chosen(u, n)
    BY <1>t, <1>4 DEF FinishSelect, At, ledgerVars, seen
  <2>2. n \in session[u].cases /\ n \notin task[h].drop /\ n \in session[u].all
    BY <2>1 DEF Before, SeenInv, Holds, DeliveryInv, Delivers, Selecting
  <2>3. session'[u].cases = {n} /\ \A v \in User : v # u => session'[v] = session[v]
    BY <1>t, <2>1, <2>2 DEF Chosen, Session
  <2>4. task[h].cases = {}
    BY <2>1 DEF Before, IInv, TaskShape, Searching
  <2>5. /\ task'[h].pc \in {"idle", "select", "generate"} /\ task'[h].cases = {}
        /\ task'[h].drop = {}
        /\ task'[h].pc # "idle" => task'[h].user = u /\ task'[h].token = n
    <3>1. CASE task' = [task EXCEPT ![h] = Idle]
      BY <1>t, <3>1 DEF Idle
    <3>2. CASE task' = [task EXCEPT ![h].pc = task[h].then, ![h].drop = {}, ![h].then = "idle"]
      BY <1>t, <2>4, <3>2 DEF Task
    <3> QED
      BY <1>4, <3>1, <3>2 DEF FinishSelect, Finish
  <2>6. ASSUME NEW t \in task[h].drop
        PROVE  /\ \A v \in User : t \notin session'[v].cases
               /\ \A g \in Handler : t \notin task'[g].cases
    <3>1. t \in Token /\ owner[t] = u
      BY <1>t DEF Task, Before, OwnerInv, Theirs
    <3>2. \A v \in User : v # u => t \notin session[v].cases
      BY <3>1 DEF Before, OwnerInv, IInv, SessionShape, WellFormed
    <3>3. \A g \in Handler : t \notin task[g].cases
      BY <3>1 DEF Before, IInv, VerifiedAlone
    <3> QED
      BY <1>o, <2>2, <2>3, <2>5, <3>2, <3>3
  <2>7. \A v \in User : session'[v].cases \subseteq session[v].cases \cup task[h].cases
    BY <2>2, <2>3
  <2>8. \A t \in Token : Live(t)' => Live(t)
    BY <1>o, <2>4, <2>5, <2>6, <2>7, LiveKept DEF Before
  <2>9. \A t \in Token : Fresh(t)' => Fresh(t)
    BY <1>o, <2>1, <2>5, FreshKept DEF Vetting
  <2>10. Holds(h)'
    BY <2>3, <2>5 DEF Holds, Selecting
  <2> QED
    BY <2>1, <2>8, <2>9, <2>10 DEF Silent
<1> QED
  BY <1>1, <1>2, <1>3, <1>4

(* The case a user's task sends is live: nobody else discards it.          *)
LEMMA SentIsLive ==
  ASSUME Before, NEW h \in Handler, task[h].pc # "idle", task[h].drop = {},
         NEW n \in session[task[h].user].cases
  PROVE  n \in Token /\ Live(n) /\ ~Fresh(n)
<1>t. task[h].user \in User /\ session[task[h].user] \in Session
  BY Typing DEF Before
<1>1. n \in Token /\ owner[n] = task[h].user /\ Public(n)
  BY <1>t DEF Session, Before, OwnerInv, IInv, SessionShape, WellFormed, Public
<1>2. ASSUME NEW g \in Handler PROVE n \notin task[g].drop
  <2>1. n \in task[g].drop => task[g].user = task[h].user
    BY <1>1 DEF Before, OwnerInv, Theirs
  <2> QED
    BY <1>t, <2>1 DEF Before, DeliveryInv, Alone
<1> QED
  BY <1>t, <1>1, <1>2, HeldIsNotFresh DEF Live, Before

(* The deliveries and the record.                                          *)
LEMMA SendingMoves ==
  ASSUME Before, NEW h \in Handler, TakesOwn(h), OnlyOwnSession(h), DeliveryInv',
         SendPdf(h) \/ SendDocx(h) \/ ReplyLost(h) \/ InsertRow(h)
  PROVE  SeenInv' /\ [Delivery!Next]_[t \in Token |-> Stage(t)]
<1>t. /\ task \in [Handler -> Task] /\ session \in [User -> Session] /\ task[h] \in Task
      /\ task[h].pc # "idle" => task[h].user \in User /\ session[task[h].user] \in Session
  BY Typing DEF Before
<1>o. \A g \in Handler : g # h => task'[g] = task[g]
  BY DEF TakesOwn
<1>h. Holds(h) /\ Delivers(h)
  BY DEF Before, SeenInv, DeliveryInv
<1>1. /\ task[h].pc \in {"pdf", "docx", "insert"} /\ UNCHANGED <<session, judgment>>
  BY DEF SendPdf, SendDocx, ReplyLost, OfferRetry, InsertRow, RecordCase, At, ledgerVars
<1>2. task[h].cases = {} /\ task[h].drop = {} /\ ~Vetting(h)
  BY <1>1 DEF Before, IInv, TaskShape, Searching, Selecting, Vetting
<1>3. /\ task'[h].cases = {} /\ task'[h].drop = {} /\ ~Vetting(h)'
      /\ \/ task'[h].pc \in {"idle", "audit"}
         \/ /\ task'[h].pc \in {"docx", "record"} /\ task[h].pc \in {"pdf", "docx"}
            /\ task'[h].token = task[h].token /\ task'[h].user = task[h].user
  <2>1. CASE SendPdf(h) \/ SendDocx(h)
    BY <1>t, <1>2, <2>1 DEF SendPdf, SendDocx, Goto, At, Task, Vetting
  <2>2. CASE ReplyLost(h)
    BY <1>t, <2>2 DEF ReplyLost, OfferRetry, Finish, Idle, Vetting
  <2>3. CASE InsertRow(h)
    BY <1>t, <1>2, <2>3 DEF InsertRow, Goto, Task, Vetting
  <2> QED
    BY <2>1, <2>2, <2>3
<1>4. Holds(h)'
  BY <1>h, <1>1, <1>3 DEF Holds, Selecting
<1>5. \A t \in Token : (Fresh(t)' <=> Fresh(t)) /\ (Live(t)' <=> Live(t))
  <2>1. \A g \in Handler : /\ task'[g].cases = task[g].cases /\ task'[g].drop = task[g].drop
                           /\ Vetting(g)' <=> Vetting(g)
                           /\ Vetting(g) => task'[g].token = task[g].token
    BY <1>o, <1>2, <1>3 DEF Vetting
  <2> QED
    BY <1>1, <2>1 DEF Fresh, Live
<1>6. \E n \in Token :
          /\ Live(n) /\ ~Fresh(n)
          /\ \/ UNCHANGED <<history, gotDocx>> /\ gotPdf' = gotPdf \cup {n}
             \/ UNCHANGED <<history, gotPdf>> /\ gotDocx' = gotDocx \cup {n} /\ n \in gotPdf
             \/ /\ UNCHANGED <<gotPdf, gotDocx>> /\ n \in gotPdf \cap gotDocx
                /\ history' \in {history, history \cup {n}}
  <2>1. CASE task[h].pc \in {"pdf", "docx"}
    <3> DEFINE n == task[h].token
    <3>1. n \in session[task[h].user].cases /\ (task[h].pc = "docx" => n \in gotPdf)
      BY <1>h, <2>1 DEF Holds, Delivers
    <3>2. n \in Token /\ Live(n) /\ ~Fresh(n)
      BY <1>1, <1>2, <3>1, SentIsLive
    <3>3. \/ UNCHANGED <<history, gotDocx>> /\ gotPdf' = gotPdf \cup {n}
          \/ UNCHANGED <<history, gotPdf>> /\ gotDocx' = gotDocx \cup {n} /\ task[h].pc = "docx"
      BY <2>1 DEF SendPdf, SendDocx, ReplyLost, OfferRetry, InsertRow, At, ledgerVars
    <3> QED
      BY <3>1, <3>2, <3>3
  <2>2. CASE task[h].pc = "insert"
    <3> DEFINE n == task[h].row
    <3>1. n \in session[task[h].user].cases /\ n \in gotPdf \cap gotDocx
      BY <1>h, <2>2 DEF Holds, Delivers
    <3>2. n \in Token /\ Live(n) /\ ~Fresh(n)
      BY <1>1, <1>2, <3>1, SentIsLive
    <3>3. UNCHANGED <<gotPdf, gotDocx>> /\ history' \in {history, history \cup {n}}
      BY <2>2 DEF SendPdf, SendDocx, ReplyLost, InsertRow, RecordCase, At, seen
    <3> QED
      BY <3>1, <3>2, <3>3
  <2> QED
    BY <1>1, <2>1, <2>2
<1>7. PICK n \in Token :
          /\ Live(n) /\ ~Fresh(n)
          /\ \/ UNCHANGED <<history, gotDocx>> /\ gotPdf' = gotPdf \cup {n}
             \/ UNCHANGED <<history, gotPdf>> /\ gotDocx' = gotDocx \cup {n} /\ n \in gotPdf
             \/ /\ UNCHANGED <<gotPdf, gotDocx>> /\ n \in gotPdf \cap gotDocx
                /\ history' \in {history, history \cup {n}}
  BY <1>6
<1>8. SeenInv'
  <2>1. gotDocx' \subseteq gotPdf' /\ \A t \in gotPdf' : t \in Token
    BY <1>7 DEF Before, SeenInv, IInv, TypeOK
  <2>2. \A t \in gotPdf' : ~Fresh(t)'
    BY <1>5, <1>7, <2>1 DEF Before, SeenInv
  <2> QED
    BY <1>4, <2>1, <2>2, SeenStep
<1>9. [Delivery!Next]_[t \in Token |-> Stage(t)]
  <2>1. \A t \in Token \ {n} : Stage(t)' = Stage(t)
    BY <1>5, <1>7 DEF Stage
  <2>2. \/ Stage(n)' = Stage(n)
        \/ <<Stage(n), Stage(n)'>> \in {<<"new", "held">>, <<"held", "judged">>,
               <<"judged", "delivered">>, <<"delivered", "recorded">>}
    <3>1. gotDocx \subseteq gotPdf
      BY DEF Before, SeenInv
    <3> QED
      BY <1>5, <1>7, <3>1 DEF Stage
  <2> QED
    BY <2>1, <2>2, MoveStep
<1> QED
  BY <1>8, <1>9

(* A reservation makes the case held.                                      *)
LEMMA ReservingMoves ==
  ASSUME Before, NEW h \in Handler, TakesOwn(h), OnlyOwnSession(h), DeliveryInv',
         Reserve(h), ~GiveUp(h)
  PROVE  SeenInv' /\ [Delivery!Next]_[t \in Token |-> Stage(t)]
<1>t. /\ task \in [Handler -> Task] /\ task[h] \in Task
  BY Typing DEF Before
<1>o. \A g \in Handler : g # h => task'[g] = task[g]
  BY DEF TakesOwn
<1> DEFINE n == task[h].token
<1>1. /\ task[h].pc = "checked" /\ UNCHANGED <<judgment, history, gotPdf, gotDocx, session>>
      /\ task' = [task EXCEPT ![h].cases = @ \cup {n}, ![h].token = None, ![h].pc = "search"]
  BY DEF Reserve, ReserveCase, At, seen
<1>2. /\ n \in Token /\ ~Public(n) /\ judgment[n] # None /\ Fresh(n)
      /\ \A g \in Handler : g # h /\ Vetting(g) => task[g].token # n
  BY <1>t, <1>1 DEF Before, IInv, VettedAlone, Task, Vetting, Fresh
<1>3. /\ task'[h].cases = task[h].cases \cup {n} /\ task'[h].drop = task[h].drop
      /\ task'[h].pc = "search"
  BY <1>t, <1>1 DEF Task
<1>4. \A t \in Token \ {n} : (Fresh(t)' <=> Fresh(t)) /\ (Live(t)' <=> Live(t))
  <2>1. \A t \in Token \ {n} : Fresh(t)' <=> Fresh(t)
    BY <1>o, <1>1, <1>3 DEF Fresh, Vetting
  <2>2. \A t \in Token \ {n} : Live(t)' <=> Live(t)
    <3>1. \A g \in Handler : task'[g].drop = task[g].drop
      BY <1>o, <1>3
    <3>2. \A t \in Token \ {n} : \A g \in Handler : t \in task'[g].cases <=> t \in task[g].cases
      BY <1>o, <1>3
    <3> QED
      BY <1>1, <3>1, <3>2 DEF Live
  <2> QED
    BY <2>1, <2>2
<1>5. ASSUME NEW t \in Token, t = n
      PROVE  ~Fresh(t)' /\ Live(t)'
  <2>1. ~Fresh(t)'
    BY <1>o, <1>1, <1>2, <1>3, <1>5 DEF Fresh, Vetting
  <2>2. \A g \in Handler : t \notin task'[g].drop
    BY <1>o, <1>2, <1>3, <1>5 DEF Public
  <2>3. t \in task'[h].cases
    BY <1>3, <1>5
  <2> QED
    BY <2>1, <2>2, <2>3 DEF Live
<1>6. n \notin gotPdf
  BY <1>2 DEF Before, SeenInv
<1>7. SeenInv'
  <2>1. Holds(h)'
    BY <1>3 DEF Holds, Selecting
  <2>2. gotDocx' \subseteq gotPdf'
    BY <1>1 DEF Before, SeenInv
  <2>3. \A t \in gotPdf' : ~Fresh(t)'
    <3>1. \A t \in gotPdf : t \in Token \ {n}
      BY <1>6 DEF Before, IInv, TypeOK
    <3> QED
      BY <1>1, <1>4, <3>1 DEF Before, SeenInv
  <2> QED
    BY <2>1, <2>2, <2>3, SeenStep
<1>8. \A t \in Token \ {n} : Stage(t)' = Stage(t)
  BY <1>1, <1>4 DEF Stage
<1>9. ASSUME NEW t \in Token, t = n
      PROVE  Stage(t) = "new" /\ Stage(t)' = "held"
  <2>1. t \notin history
    BY <1>2, <1>9 DEF Public
  <2> QED
    BY <1>1, <1>2, <1>5, <1>6, <1>9, <2>1 DEF Stage
<1> QED
  <2>1. PICK t \in Token : t = n
    BY <1>2
  <2> QED
    BY <1>7, <1>8, <1>9, <2>1, MoveStep

LEMMA DeliveryImplemented ==
  Patient /\ Before /\ [Next]_vars => SeenInv' /\ [Delivery!Next]_[t \in Token |-> Stage(t)]
<1> SUFFICES ASSUME Patient, Before, [Next]_vars
             PROVE  SeenInv' /\ [Delivery!Next]_[t \in Token |-> Stage(t)]
  OBVIOUS
<1>1. ASSUME NEW h \in Handler, Press(h) \/ AcquireLock(h) \/ Step(h)
      PROVE  SeenInv' /\ [Delivery!Next]_[t \in Token |-> Stage(t)]
  <2>1. TakesOwn(h) /\ OnlyOwnSession(h)
    BY <1>1, OwnerActs, SessionsOfOthers DEF Before
  <2>2. DeliveryInv'
    BY DeliveryStep DEF Patient, Before
  <2>3. CASE SendPdf(h) \/ SendDocx(h) \/ ReplyLost(h) \/ InsertRow(h)
    BY <2>1, <2>2, <2>3, SendingMoves
  <2>4. CASE Reserve(h) /\ ~GiveUp(h)
    BY <2>1, <2>2, <2>4, ReservingMoves
  <2>5. CASE \/ AbortSearch(h) \/ SearchFails(h) \/ DropFails(h) \/ MessageRefused(h)
             \/ SendFails(h) \/ Complete(h)
    BY <2>1, <2>2, <2>5, SilentEnds, SilentStep
  <2>6. CASE \/ \E u \in User : StartSearch(h, u)
             \/ CleanupReleased(h) \/ DropReservations(h)
             \/ Draft(h) \/ RecordSent(h) \/ AuditRow(h) \/ Unreserve(h)
    BY <2>1, <2>2, <2>6, SilentGoesOn, SilentStep
  <2>7. CASE \/ AcquireLock(h)
             \/ \E j \in Judgment, t \in Token : Download(h, j, t)
             \/ Vetting(h) /\ GiveUp(h)
             \/ CheckUsed(h) \/ OfferCases(h)
    BY <2>1, <2>2, <2>7, SilentSearches, SilentStep
  <2>8. CASE \/ \E u \in User, t \in Token : PressPick(h, u, t) \/ PressRegenerate(h, u, t)
             \/ AutoSelect(h) \/ SendSelect(h) \/ FinishSelect(h)
    BY <2>1, <2>2, <2>8, SilentSelects, SilentStep
  <2>9. (Reject(h) => Vetting(h) /\ GiveUp(h)) /\ (Reserve(h) => Vetting(h))
    BY DEF Reject, Reserve, At, Vetting
  <2> QED
    BY <1>1, <2>3, <2>4, <2>5, <2>6, <2>7, <2>8, <2>9 DEF Press, Step
<1>2. CASE (\E t \in Token : ReservationAges(t)) \/ UNCHANGED vars
  <2>1. UNCHANGED <<judgment, history, session, task, gotPdf, gotDocx>>
    BY <1>2 DEF ReservationAges, Age, botVars, seen, vars, ledgerVars
  <2>2. SeenInv'
    BY <2>1 DEF Before, SeenInv, Fresh, Vetting, Holds
  <2>3. \A t \in Token : Stage(t)' = Stage(t)
    BY <2>1 DEF Stage, Fresh, Live, Vetting
  <2> QED
    BY <2>2, <2>3
<1>3. CASE Restart
  <2>1. /\ session' = [u \in User |-> NoSession] /\ task' = [h \in Handler |-> Idle]
        /\ UNCHANGED <<judgment, history, gotPdf, gotDocx>>
    BY <1>3 DEF Restart, ledgerVars
  <2>2. \A h \in Handler : task'[h].pc = "idle" /\ task'[h].cases = {} /\ task'[h].drop = {}
    BY <2>1 DEF Idle
  <2>3. \A u \in User : session'[u].cases = {}
    BY <2>1 DEF NoSession, NewSession
  <2>4. \A t \in Token : ~Live(t)' /\ (Fresh(t)' => Fresh(t))
    BY <2>1, <2>2, <2>3 DEF Live, Fresh, Vetting
  <2>5. \A h \in Handler : Holds(h)'
    BY <2>2 DEF Holds, Selecting
  <2>6. SeenInv'
    <3>1. \A t \in gotPdf : t \in Token
      BY DEF Before, IInv, TypeOK
    <3> QED
      BY <2>1, <2>4, <2>5, <3>1 DEF Before, SeenInv
  <2>7. [Delivery!Next]_[t \in Token |-> Stage(t)]
    BY <2>1, <2>4, LetsGo
  <2> QED
    BY <2>6, <2>7
<1> QED
  BY <1>1, <1>2, <1>3 DEF Next

(* For users who wait for the bot, the handlers keep the promise of        *)
(* CaseDelivery for every case, whatever else fails.                       *)
THEOREM HandlersDeliverInOrder ==
  ASSUME Patient
  PROVE  Spec => DeliveryInOrder
<1>1. Init => OwnerInv /\ DeliveryInv /\ SeenInv /\ Delivery!Init
  <2> SUFFICES ASSUME Init PROVE OwnerInv /\ DeliveryInv /\ SeenInv /\ Delivery!Init
    OBVIOUS
  <2>1. OwnerInv /\ DeliveryInv /\ SeenInv
    BY DEF Init, LedgerInit, OwnerInv, Theirs, Vetting, Idle, NoSession, NewSession, DeliveryInv,
       Alone, Delivers, RecordedOnlyAfterDelivery, Selecting, Sending, SeenInv, Fresh, Holds
  <2>2. \A t \in Token : Stage(t) = "new"
    BY DEF Init, LedgerInit, Stage, Fresh
  <2> QED
    BY <2>1, <2>2 DEF Delivery!Init
<1>2. IInv /\ OwnerInv /\ DeliveryInv /\ SeenInv /\ [Next]_vars
         => /\ OwnerInv' /\ DeliveryInv' /\ SeenInv'
            /\ [Delivery!Next]_[t \in Token |-> Stage(t)]
  BY OwnerNext, DeliveryStep, DeliveryImplemented DEF Patient, Before
<1> QED
  BY <1>1, <1>2, Inductive, PTL DEF Spec, DeliveryInOrder, Delivery!Spec
===============================================================================
