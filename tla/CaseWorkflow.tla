----------------------------- MODULE CaseWorkflow -----------------------------
(***************************************************************************)
(* The bot's handlers for one judgment's way to a student: search, pick,   *)
(* send, regenerate (app/bot/routers/subjects.py) over CaseWorkflowService *)
(* (app/services/case_workflow.py) and the two tables of CaseLedger.       *)
(*                                                                         *)
(* Every button press is an asyncio task of its own.  One action is what a *)
(* task does between two suspensions: the awaited operation's effect and   *)
(* the synchronous code up to the next real suspension.  Tasks interleave  *)
(* at every such point; only prepare() holds the user's lock.              *)
(*                                                                         *)
(* A token names a PreparedCase: its file on disk, its reservation, its    *)
(* place in a session.  Candidates, ranking and texts are abstracted to    *)
(* the choices they lead to.                                               *)
(***************************************************************************)
EXTENDS CaseLedger

CONSTANTS
    User,            \* Telegram users
    Handler,         \* asyncio tasks that may run at once (a bound)
    Faults,          \* which failures the environment produces, see below
    Sequential,      \* TRUE: a user waits for the bot before the next press
    DeleteAfterSend  \* settings.delete_files_after_send

(* "abort":   an exception verification does not catch ends the search     *)
(* "select":  sqlite fails while discarded reservations are released       *)
(* "record":  sqlite fails inside record_sent                              *)
(* "reply":   Telegram refuses a message, or delivers a file and its       *)
(*            answer is lost                                               *)
(* "expiry":  reservations outlive their 30 minutes                        *)
(* "restart": the process is killed and started again                      *)
FaultKind == {"abort", "select", "record", "reply", "expiry", "restart"}

ASSUME FaultsAssumption == Faults \subseteq FaultKind
ASSUME SwitchesAssumption == Sequential \in BOOLEAN /\ DeleteAfterSend \in BOOLEAN
ASSUME NoneIsNobody == None \notin User \cup Handler

VARIABLES
    files,      \* tokens whose PDF is on disk
    session,    \* [User -> WorkflowSession]
    lock,       \* [User -> the task inside prepare(), or None]
    task,       \* [Handler -> where the task is and its local variables]
    picks,      \* tokens with a "pick:" button in some chat
    regens,     \* tokens with a "regenerate:" button in some chat
    \* what was observed, not part of the program's state
    owner,      \* [Token -> the user whose search made it]
    gotPdf,     \* tokens whose judgment the user received
    gotDocx,    \* tokens whose commentary the user received
    abandoned   \* tokens left behind by an aborted search or a restart

botVars == <<files, session, lock, task, picks, regens>>
seen == <<owner, gotPdf, gotDocx, abandoned>>
vars == <<ledgerVars, botVars, seen>>

(* "all" is the identity of the session object: the tokens it was made     *)
(* with.  A task that still refers to a popped session finds its token     *)
(* outside the user's current "all".                                       *)
NewSession(cs) == [all |-> cs, cases |-> cs, selected |-> None, recorded |-> FALSE]
NoSession == NewSession({})

Idle == [pc |-> "idle", user |-> None, mode |-> "send", token |-> None,
         cases |-> {}, drop |-> {}, then |-> "idle", tried |-> {}, row |-> None]

(* Inside prepare(), with the user's lock held.                            *)
Searching == {"cleanup", "search", "vet", "checked"}
(* Inside _select_session_case, waiting for the DELETE and then resumed.   *)
Selecting == {"drop", "dropped"}
(* From the chosen case to the last line of the handler.                   *)
Sending == {"select", "generate", "pdf", "docx", "record", "insert", "audit",
            "unreserve", "unlink"}
PC == {"idle", "lock"} \cup Searching \cup Selecting \cup Sending

Session == [all: SUBSET Token, cases: SUBSET Token,
            selected: Token \cup {None}, recorded: BOOLEAN]
Task == [pc: PC, user: User \cup {None}, mode: {"send", "regen"},
         token: Token \cup {None}, cases: SUBSET Token, drop: SUBSET Token,
         then: {"idle", "select", "generate"}, tried: SUBSET Judgment,
         row: Token \cup {None}]

TypeOK ==
    /\ LedgerTypeOK
    /\ files \subseteq Issued
    /\ session \in [User -> Session]
    /\ lock \in [User -> Handler \cup {None}]
    /\ task \in [Handler -> Task]
    /\ picks \subseteq Token /\ regens \subseteq Token
    /\ owner \in [Token -> User \cup {None}]
    /\ gotPdf \subseteq Token /\ gotDocx \subseteq Token
    /\ abandoned \subseteq Token

Init ==
    /\ LedgerInit
    /\ files = {}
    /\ session = [u \in User |-> NoSession]
    /\ lock = [u \in User |-> None]
    /\ task = [h \in Handler |-> Idle]
    /\ picks = {} /\ regens = {}
    /\ owner = [t \in Token |-> None]
    /\ gotPdf = {} /\ gotDocx = {} /\ abandoned = {}

-------------------------------------------------------------------------------
(* Helpers                                                                 *)

At(h, pc) == task[h].pc = pc
Mine(h) == session[task[h].user]

Quiet(u) == Sequential => \A g \in Handler : task[g].user # u
CanPress(h, u) == At(h, "idle") /\ Quiet(u)

Goto(h, pc) == task' = [task EXCEPT ![h].pc = pc]
Finish(h) == task' = [task EXCEPT ![h] = Idle]

(* Leaving "async with self._lock(user_id)", for a task that is in it.     *)
MutKeepLock(h) == lock' = lock
Unlock(h) == lock' = [u \in User |-> IF lock[u] = h THEN None ELSE lock[u]]

(* _select_session_case after its await: the session object keeps one      *)
(* case.  If the object was popped meanwhile nobody reads it again.        *)
Chosen(u, t) ==
    IF t \in session[u].all
    THEN [session EXCEPT ![u].cases = {t}, ![u].selected = t]
    ELSE session

-------------------------------------------------------------------------------
(* prepare(): the search behind "search:" and "new_case:" buttons          *)

StartSearch(h, u) ==
    /\ CanPress(h, u)
    /\ task' = [task EXCEPT ![h] = [Idle EXCEPT !.pc = "lock", !.user = u]]
    /\ UNCHANGED <<ledgerVars, files, session, lock, picks, regens, seen>>

(* The lock is granted and _cleanup_session pops the old session: its      *)
(* files go at once, its reservations after the next await.                *)
MutLeftovers(u) == session[u].cases \ {session[u].selected}
Leftovers(u) == session[u].cases
AcquireLock(h) ==
    LET u == task[h].user IN
    /\ At(h, "lock")
    /\ lock[u] = None
    /\ lock' = [lock EXCEPT ![u] = h]
    /\ files' = files \ Leftovers(u)
    /\ session' = [session EXCEPT ![u] = NoSession]
    /\ task' = [task EXCEPT ![h].drop = Leftovers(u),
                            ![h].pc = IF Leftovers(u) = {} THEN "search" ELSE "cleanup"]
    /\ UNCHANGED <<ledgerVars, picks, regens, seen>>

CleanupReleased(h) ==
    /\ At(h, "cleanup")
    /\ Release(task[h].drop)
    /\ task' = [task EXCEPT ![h].drop = {}, ![h].pc = "search"]
    /\ UNCHANGED <<files, session, lock, picks, regens, seen>>

(* The next candidate of the round (identities are tried once): its PDF is *)
(* acquired and passes the structural stages.                              *)
Download(h, j, t) ==
    /\ At(h, "search")
    /\ j \notin task[h].tried
    /\ Issue(t, j)
    /\ files' = files \cup {t}
    /\ owner' = [owner EXCEPT ![t] = task[h].user]
    /\ task' = [task EXCEPT ![h].token = t, ![h].tried = @ \cup {j}, ![h].pc = "vet"]
    /\ UNCHANGED <<session, lock, picks, regens, gotPdf, gotDocx, abandoned>>

(* Every way a candidate is given up: the file is unlinked, nothing is     *)
(* reserved under its token (the handler's release is a no-op), the search *)
(* goes on.                                                                *)
MutGiveUpFile(h) == files' = files
GiveUpFile(h) == files' = files \ {task[h].token}
GiveUp(h) ==
    /\ GiveUpFile(h)
    /\ Forget(task[h].token)
    /\ owner' = [owner EXCEPT ![task[h].token] = None]
    /\ task' = [task EXCEPT ![h].token = None, ![h].pc = "search"]
    /\ UNCHANGED <<session, lock, picks, regens, gotPdf, gotDocx, abandoned>>

(* PdfAcquisitionError, OSError or ValueError in a stage: too little text, *)
(* not relevant to the course, a stage past its deadline.                  *)
Reject(h) ==
    /\ task[h].pc \in {"vet", "checked"}
    /\ GiveUp(h)

CheckUsed(h) ==
    /\ At(h, "vet")
    /\ IF Used(judgment[task[h].token])
       THEN GiveUp(h)
       ELSE /\ Goto(h, "checked")
            /\ UNCHANGED <<ledgerVars, files, session, lock, picks, regens, seen>>

(* Text extraction, relevance and scoring lie between CheckUsed and this.  *)
Reserve(h) ==
    LET t == task[h].token IN
    /\ At(h, "checked")
    /\ \/ /\ ReserveCase(t)
          /\ task' = [task EXCEPT ![h].cases = @ \cup {t}, ![h].token = None,
                                  ![h].pc = "search"]
          /\ UNCHANGED <<files, session, lock, picks, regens, seen>>
       \/ /\ ~CanReserve(t)
          /\ GiveUp(h)

(* An exception outside that tuple (sqlite3.OperationalError, a pypdf      *)
(* error) leaves prepare(): the lock is released, what was verified so far *)
(* stays on disk and in case_reservations with nobody to release it.       *)
AbortSearch(h) ==
    /\ "abort" \in Faults
    /\ task[h].pc \in Searching
    /\ Unlock(h)
    /\ abandoned' = abandoned \cup task[h].drop \cup task[h].cases
                        \cup ({task[h].token} \ {None})
    /\ Finish(h)
    /\ UNCHANGED <<ledgerVars, files, session, picks, regens, owner, gotPdf, gotDocx>>

(* NoSuitableCasesError, or the provider failed before anything was        *)
(* verified (a later failure only ends the rounds).                        *)
SearchFails(h) ==
    /\ At(h, "search")
    /\ task[h].cases = {}
    /\ Unlock(h)
    /\ Finish(h)
    /\ UNCHANGED <<ledgerVars, files, session, picks, regens, seen>>

(* No automatic choice: the session is installed, the best few are shown.  *)
OfferCases(h) ==
    /\ At(h, "search")
    /\ task[h].cases # {}
    /\ session' = [session EXCEPT ![task[h].user] = NewSession(task[h].cases)]
    /\ \E shown \in SUBSET task[h].cases :
          /\ shown = {} => "reply" \in Faults
          /\ picks' = picks \cup shown
    /\ Unlock(h)
    /\ Finish(h)
    /\ UNCHANGED <<ledgerVars, files, regens, seen>>

-------------------------------------------------------------------------------
(* select(): no lock is taken                                              *)

(* The synchronous half of _select_session_case on the session s, which    *)
(* ends at the await of release_reservations unless there is nothing to    *)
(* discard; control then goes on to "next".                                *)
Discarded(s, t) == s.cases \ {t}
BeginSelect(h, u, s, t, mode, next) ==
    LET drop == Discarded(s, t)
        S == [session EXCEPT ![u] = s]
    IN  /\ files' = files \ drop
        /\ IF drop = {}
           THEN /\ session' = [S EXCEPT ![u].cases = {t}, ![u].selected = t]
                /\ Unlock(h)
                /\ task' = [task EXCEPT ![h] = [Idle EXCEPT !.pc = next, !.user = u,
                                                            !.mode = mode, !.token = t]]
           ELSE /\ session' = S
                /\ UNCHANGED lock
                /\ task' = [task EXCEPT ![h] = [Idle EXCEPT !.pc = "drop", !.user = u,
                                                            !.mode = mode, !.token = t,
                                                            !.drop = drop, !.then = next]]

(* The top score is accepted: prepare() selects it before it returns, and  *)
(* the handler goes on to _send_assignment.                                *)
AutoSelect(h) ==
    /\ At(h, "search")
    /\ \E t \in task[h].cases :
          BeginSelect(h, task[h].user, NewSession(task[h].cases), t, "send", "select")
    /\ UNCHANGED <<ledgerVars, picks, regens, seen>>

(* A press on a button of a case the session does not hold answers         *)
(* "expired" and changes nothing.                                          *)
PressPick(h, u, t) ==
    /\ CanPress(h, u)
    /\ t \in picks \cap session[u].cases
    /\ BeginSelect(h, u, session[u], t, "send", "select")
    /\ UNCHANGED <<ledgerVars, picks, regens, seen>>

PressRegenerate(h, u, t) ==
    /\ CanPress(h, u)
    /\ t \in regens \cap session[u].cases
    /\ BeginSelect(h, u, session[u], t, "regen", "generate")
    /\ UNCHANGED <<ledgerVars, picks, regens, seen>>

(* _send_assignment selects the token again.                               *)
SendSelect(h) ==
    LET u == task[h].user
        t == task[h].token
    IN  /\ At(h, "select")
        /\ IF t \in session[u].cases
           THEN BeginSelect(h, u, session[u], t, "send", "generate")
           ELSE Finish(h) /\ UNCHANGED <<files, session, lock>>
        /\ UNCHANGED <<ledgerVars, picks, regens, seen>>

(* Telegram refuses the message that announces the draft: the handler dies *)
(* outside its try block, the session stays as it is.                      *)
MessageRefused(h) ==
    /\ "reply" \in Faults
    /\ At(h, "select")
    /\ Finish(h)
    /\ UNCHANGED <<ledgerVars, files, session, lock, picks, regens, seen>>

DropReservations(h) ==
    /\ At(h, "drop")
    /\ Release(task[h].drop)
    /\ Goto(h, "dropped")
    /\ UNCHANGED <<files, session, lock, picks, regens, seen>>

(* sqlite fails there: the discarded files are gone, the session still     *)
(* lists every case.                                                       *)
DropFails(h) ==
    /\ "select" \in Faults
    /\ At(h, "drop")
    /\ Unlock(h)
    /\ Finish(h)
    /\ UNCHANGED <<ledgerVars, files, session, picks, regens, seen>>

(* select() returns; session_subject() then needs some session.            *)
FinishSelect(h) ==
    LET u == task[h].user IN
    /\ At(h, "dropped")
    /\ session' = Chosen(u, task[h].token)
    /\ Unlock(h)
    /\ IF task[h].then = "generate" /\ session[u].all = {}
       THEN Finish(h)
       ELSE task' = [task EXCEPT ![h].pc = task[h].then, ![h].drop = {}, ![h].then = "idle"]
    /\ UNCHANGED <<ledgerVars, files, picks, regens, seen>>

-------------------------------------------------------------------------------
(* _send_assignment and regenerate from the draft on                       *)

Draft(h) ==
    /\ At(h, "generate")
    /\ Goto(h, IF task[h].mode = "send" THEN "pdf" ELSE "docx")
    /\ UNCHANGED <<ledgerVars, files, session, lock, picks, regens, seen>>

MutSendPdf(h) ==
    /\ At(h, "pdf")
    /\ task[h].token \in files
    /\ gotPdf' = gotPdf \cup {task[h].token}
    /\ Goto(h, "record")
    /\ UNCHANGED <<ledgerVars, files, session, lock, picks, regens, owner, gotDocx, abandoned>>
SendPdf(h) ==
    /\ At(h, "pdf")
    /\ task[h].token \in files
    /\ gotPdf' = gotPdf \cup {task[h].token}
    /\ Goto(h, "docx")
    /\ UNCHANGED <<ledgerVars, files, session, lock, picks, regens, owner, gotDocx, abandoned>>

SendDocx(h) ==
    /\ At(h, "docx")
    /\ gotDocx' = gotDocx \cup {task[h].token}
    /\ Goto(h, "record")
    /\ UNCHANGED <<ledgerVars, files, session, lock, picks, regens, owner, gotPdf, abandoned>>

(* "except Exception" of both handlers.  A send offers the same case again *)
(* with the words "still saved in the session": the commentary alone once  *)
(* the judgment was sent, everything otherwise.                            *)
MutRetryWithPdf(h) == FALSE
RetryWithPdf(h) == task[h].pc \in {"generate", "pdf"}
OfferRetry(h) ==
    /\ regens' = IF task[h].mode = "send" /\ ~RetryWithPdf(h)
                 THEN regens \cup {task[h].token} ELSE regens
    /\ picks' = IF task[h].mode = "send" /\ RetryWithPdf(h)
                THEN picks \cup {task[h].token} ELSE picks
    /\ Finish(h)
    /\ UNCHANGED <<ledgerVars, files, session, lock>>

(* Drafting fails, Telegram refuses, the file is gone, record_sent finds   *)
(* no selected case (KeyError) or sqlite fails in it.                      *)
SendFails(h) ==
    /\ \/ task[h].pc \in {"generate", "pdf", "docx"}
       \/ At(h, "record") /\ Mine(h).selected = None
       \/ "record" \in Faults /\ task[h].pc \in {"insert", "audit", "unreserve"}
    /\ OfferRetry(h)
    /\ UNCHANGED seen

(* The user has the file, the handler gets an exception.                   *)
ReplyLost(h) ==
    /\ "reply" \in Faults
    /\ \/ /\ At(h, "pdf") /\ task[h].token \in files
          /\ gotPdf' = gotPdf \cup {task[h].token}
          /\ UNCHANGED gotDocx
       \/ /\ At(h, "docx")
          /\ gotDocx' = gotDocx \cup {task[h].token}
          /\ UNCHANGED gotPdf
    /\ OfferRetry(h)
    /\ UNCHANGED <<owner, abandoned>>

(* record_sent(user_id) looks at the user's session as it is now, not at   *)
(* the token that was sent.                                                *)
RecordSent(h) ==
    /\ At(h, "record")
    /\ Mine(h).selected # None
    /\ task' = [task EXCEPT ![h].row = Mine(h).selected,
                            ![h].pc = IF Mine(h).recorded THEN "unreserve" ELSE "insert"]
    /\ UNCHANGED <<ledgerVars, files, session, lock, picks, regens, seen>>

InsertRow(h) ==
    /\ At(h, "insert")
    /\ RecordCase(task[h].row)
    /\ Goto(h, "audit")
    /\ UNCHANGED <<files, session, lock, picks, regens, seen>>

(* add_audit, then session.recorded = True on the object record_sent read. *)
MutAuditRow(h) ==
    /\ At(h, "audit")
    /\ Goto(h, "unreserve")
    /\ UNCHANGED <<ledgerVars, files, session, lock, picks, regens, seen>>
AuditRow(h) ==
    LET u == task[h].user IN
    /\ At(h, "audit")
    /\ session' = IF task[h].row \in session[u].all
                  THEN [session EXCEPT ![u].recorded = TRUE] ELSE session
    /\ Goto(h, "unreserve")
    /\ UNCHANGED <<ledgerVars, files, lock, picks, regens, seen>>

Unreserve(h) ==
    /\ At(h, "unreserve")
    /\ Release({task[h].row})
    /\ Goto(h, "unlink")
    /\ UNCHANGED <<files, session, lock, picks, regens, seen>>

(* The file goes; a send ends with the "regenerate:" and "new_case:" row.  *)
Complete(h) ==
    /\ At(h, "unlink")
    /\ files' = IF DeleteAfterSend THEN files \ {task[h].row} ELSE files
    /\ regens' = IF task[h].mode = "send" THEN regens \cup {task[h].token} ELSE regens
    /\ Finish(h)
    /\ UNCHANGED <<ledgerVars, session, lock, picks, seen>>

-------------------------------------------------------------------------------
(* The environment                                                         *)

ReservationAges(t) ==
    /\ "expiry" \in Faults
    /\ Age(t)
    /\ UNCHANGED <<botVars, seen>>

(* Memory is lost, the tables and the files stay; cleanup_stale_files      *)
(* removes whatever is old enough before polling starts.  Buttons of the   *)
(* old run stay in the chats and name tokens no session will ever hold.    *)
Restart ==
    /\ "restart" \in Faults
    /\ \E stale \in SUBSET files : files' = files \ stale
    /\ session' = [u \in User |-> NoSession]
    /\ lock' = [u \in User |-> None]
    /\ task' = [h \in Handler |-> Idle]
    /\ abandoned' = abandoned \cup files' \cup reserved
    /\ UNCHANGED <<ledgerVars, picks, regens, owner, gotPdf, gotDocx>>

Press(h) ==
    \E u \in User :
        \/ StartSearch(h, u)
        \/ \E t \in Token : PressPick(h, u, t) \/ PressRegenerate(h, u, t)

(* What a task does on its own once it has been started, the lock aside.   *)
Step(h) ==
    \/ CleanupReleased(h)
    \/ \E j \in Judgment, t \in Token : Download(h, j, t)
    \/ Reject(h)
    \/ CheckUsed(h)
    \/ Reserve(h)
    \/ AbortSearch(h)
    \/ SearchFails(h)
    \/ OfferCases(h)
    \/ AutoSelect(h)
    \/ SendSelect(h)
    \/ MessageRefused(h)
    \/ DropReservations(h)
    \/ DropFails(h)
    \/ FinishSelect(h)
    \/ Draft(h)
    \/ SendPdf(h)
    \/ SendDocx(h)
    \/ SendFails(h)
    \/ ReplyLost(h)
    \/ RecordSent(h)
    \/ InsertRow(h)
    \/ AuditRow(h)
    \/ Unreserve(h)
    \/ Complete(h)

Next ==
    \/ \E h \in Handler : Press(h) \/ AcquireLock(h) \/ Step(h)
    \/ \E t \in Token : ReservationAges(t)
    \/ Restart

Spec == Init /\ [][Next]_vars

(* The event loop runs every ready task, each await is bounded by a        *)
(* timeout, and asyncio.Lock wakes its waiters first come first served.    *)
(* Users owe the bot nothing: presses are not fair.                        *)
Fairness ==
    \A h \in Handler : WF_vars(Step(h)) /\ SF_vars(AcquireLock(h))

FairSpec == Spec /\ Fairness

-------------------------------------------------------------------------------
(* Properties                                                              *)

(* What a search holds: the cases it verified, the one it is looking at,   *)
(* and the old session it is clearing away.                                *)
SearchHolds(h) ==
    IF task[h].pc \in Searching
    THEN task[h].cases \cup task[h].drop \cup ({task[h].token} \ {None})
    ELSE {}

Held ==
    {t \in Token : \/ \E u \in User : t \in session[u].cases
                   \/ \E h \in Handler : t \in SearchHolds(h)}

(* Nothing leaks: every PDF on disk and every reservation belongs to a     *)
(* session or to a running search, however picks, sends and new searches   *)
(* overlap; only an aborted search or a restart leaves anything behind.    *)
NothingLeaks == files \cup reserved \subseteq Held \cup abandoned

-------------------------------------------------------------------------------
(* Why nothing leaks: the inductive invariant                              *)

Vetting(h) == task[h].pc \in {"vet", "checked"}

(* Tokens the tables, a session object or a task refers to, the candidate  *)
(* a search is still looking at aside.                                     *)
Public(t) ==
    \/ t \in reserved \cup history
    \/ \E u \in User : t \in session[u].all
    \/ \E h \in Handler : \/ t \in task[h].cases \cup task[h].drop
                           \/ t = task[h].row
                           \/ (task[h].pc \in Selecting /\ t = task[h].token)
PublicIssued == \A t \in Token : Public(t) => judgment[t] # None

(* A candidate under verification is known to its own search alone.        *)
VettedAlone ==
    \A h \in Handler : Vetting(h) =>
        /\ task[h].token # None /\ judgment[task[h].token] # None
        /\ ~Public(task[h].token)
        /\ \A g \in Handler : g # h /\ Vetting(g) => task[g].token # task[h].token

(* So is a verified case until the session is installed.                   *)
VerifiedAlone ==
    \A h \in Handler : \A t \in task[h].cases :
        /\ \A u \in User : t \notin session[u].all
        /\ \A g \in Handler :
              /\ g # h => t \notin task[g].cases
              /\ t \notin task[g].drop
              /\ task[g].pc \in Selecting => task[g].token # t

(* What the local variables hold at each point of a handler.               *)
TaskShape ==
    \A h \in Handler :
        /\ task[h].pc # "idle" => task[h].user \in User
        /\ task[h].pc \in {"lock", "cleanup", "search"} => task[h].token = None
        /\ task[h].pc \in Selecting \cup Sending => task[h].token # None
        /\ task[h].pc \in {"insert", "audit", "unreserve", "unlink"} => task[h].row # None
        /\ task[h].pc \notin {"cleanup"} \cup Selecting => task[h].drop = {}
        /\ task[h].pc \notin Searching \ {"cleanup"} => task[h].cases = {}

(* prepare() has the user's lock, and the user has no session, until it    *)
(* installs one.                                                           *)
LockHeld ==
    \A h \in Handler : task[h].pc \in Searching =>
        lock[task[h].user] = h /\ session[task[h].user] = NoSession

WellFormed(s) ==
    /\ s.cases \subseteq s.all
    /\ s.cases = s.all \/ \E t \in s.all : s.cases = {t}
    /\ s.selected \in s.all \cup {None}
SessionShape == \A u \in User : WellFormed(session[u])

(* A file is unlinked before its token waits for the DELETE, and a         *)
(* selection under way discards all of its session but one case.           *)
SelectShape ==
    \A h \in Handler :
        /\ task[h].drop \cap files = {}
        /\ task[h].pc = "dropped" => task[h].drop \cap reserved = {}
        /\ (task[h].pc \in Selecting /\ task[h].token \in session[task[h].user].all)
              => session[task[h].user].all = task[h].drop \cup {task[h].token}

IInv ==
    /\ TypeOK
    /\ PublicIssued
    /\ VettedAlone
    /\ VerifiedAlone
    /\ TaskShape
    /\ LockHeld
    /\ SessionShape
    /\ SelectShape
    /\ NothingLeaks

-------------------------------------------------------------------------------
(* Further properties                                                      *)

(* One user's buttons never cost another user anything: a file or a        *)
(* reservation within its 30 minutes disappears only by a step of a task   *)
(* of the user whose search made it, or when the process is restarted.     *)
OthersUntouched ==
    [][\A t \in Token :
          \/ t \in (reserved \ aged) /\ t \notin reserved'
          \/ t \in files /\ t \notin files'
          => \/ \E h \in Handler : /\ task'[h] # task[h]
                                  /\ owner[t] \in {task[h].user, task'[h].user}
             \/ Restart]_vars

(* A judgment is recorded as used only after both files reached the user   *)
(* (README: recorded only after a successful send).                        *)
RecordedOnlyAfterDelivery == history \subseteq gotPdf \cap gotDocx

(* Between presses, every case the session still offers can be sent: its   *)
(* file is there and its reservation too, until it has been recorded.      *)
HeldCaseIsSendable ==
    \A u \in User :
        (\A h \in Handler : task[h].user # u) /\ ~session[u].recorded
            => session[u].cases \subseteq files \cap reserved

(* The duplicate protection is global: no judgment reaches users under two *)
(* tokens.                                                                 *)
NoJudgmentTwice ==
    \A t, u \in gotPdf \cap gotDocx :
        t # u => ~Collide(judgment[t], judgment[u])

(* The life of a case as CaseDelivery promises it: a search holds it once   *)
(* it is reserved, and whoever neither a search nor a session holds is gone *)
(* unless it was recorded.  A discarded case is gone when its file is, so   *)
(* cases waiting for their DELETE count as gone.                            *)
Fresh(t) == judgment[t] = None \/ \E h \in Handler : task[h].token = t /\ Vetting(h)
Live(t) ==
    /\ \/ \E u \in User : t \in session[u].cases
       \/ \E h \in Handler : t \in task[h].cases
    /\ \A h \in Handler : t \notin task[h].drop
Stage(t) ==
    IF t \in history THEN "recorded"
    ELSE IF Fresh(t) THEN "new"
    ELSE IF ~Live(t) THEN "gone"
    ELSE IF t \notin gotPdf THEN "held"
    ELSE IF t \notin gotDocx THEN "judged" ELSE "delivered"

Delivery == INSTANCE CaseDelivery WITH Case <- Token, stage <- [t \in Token |-> Stage(t)]

(* With users who wait for the bot, the handlers implement that promise.    *)
DeliveryInOrder == Delivery!Spec

(* A failed send tells the user the verified case is still saved in the    *)
(* session, with no need to search or download again: when it says so the  *)
(* session holds the case and, for a full retry, its file exists.          *)
SavedMessageIsTrue ==
    [][\A h \in Handler :
          SendFails(h) /\ task[h].mode = "send"
              => /\ task[h].token \in Mine(h).cases
                 /\ RetryWithPdf(h) => task[h].token \in files]_vars

(* Every press ends: no task waits for ever, for the lock or anything else.*)
EveryPressEnds == \A h \in Handler : task[h].pc # "idle" ~> At(h, "idle")
===============================================================================
