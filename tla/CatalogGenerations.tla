-------------------------- MODULE CatalogGenerations --------------------------
(***************************************************************************)
(* The blue/green catalog: refreshes (app/catalog/__main__.py, indexer.py) *)
(* build generations of the official case catalog through CatalogStore     *)
(* (store.py) while searches (provider.py) read the active one.            *)
(*                                                                         *)
(* A refresh is a process of its own, started by the weekly timer or by    *)
(* hand; it shares nothing with the bot but the SQLite file.  One action   *)
(* is one transaction, or one SELECT outside of any, with the code up to   *)
(* the next.  A search is a task of the bot; it reads the active pointer   *)
(* and searches what it read some awaits later.                            *)
(*                                                                         *)
(* All processes run one CATALOG_PARSER_VERSION.  A document stands for    *)
(* its collection of cases; finishing times are distinct.                  *)
(***************************************************************************)
EXTENDS Naturals, FiniteSets

CONSTANTS
    Gen,        \* uuids; one whose rows are deleted stands for a new one later
    Doc,        \* documents of the manifest
    Refresher,  \* processes "python -m app.catalog refresh" at one time (a bound)
    Searcher,   \* searches of the bot at one time (a bound)
    None,       \* no generation
    Keep,       \* settings.catalog_keep_inactive_generations
    Faults      \* "error": an exception inside refresh(); "crash": a process ends

ASSUME KeepAssumption == Keep \in Nat
ASSUME NoneIsNoGeneration == None \notin Gen
ASSUME FaultsAssumption == Faults \subseteq {"error", "crash"}

VARIABLES
    status,     \* [Gen -> catalog_generations.status, "none" without a row]
    rows,       \* [Gen -> documents with rows in catalog_generation_cases]
    older,      \* <<g, h>>: the finished_at of g lies before that of h
    active,     \* catalog_active_generation, or None
    process,    \* [Refresher -> where it is and its local variables]
    reading,    \* [Searcher -> the generation it will search, or None]
    \* what was observed
    approved,   \* [Gen -> the documents the gate saw when it passed, or {}]
    partial,    \* generations of diagnostic refreshes
    orphaned    \* generations whose process ended while it built them

store == <<status, rows, older, active>>
seen == <<approved, partial, orphaned>>
vars == <<store, process, reading, seen>>

Waiting == [pc |-> "idle", gen |-> None, full |-> TRUE, todo |-> {},
            pointer |-> None, doomed |-> {}]

(* Between begin_generation and the status that ends the build.            *)
Building == {"index", "count", "gate", "promote", "reject"}
PC == {"idle", "cleanup", "list", "delete"} \cup Building
Status == {"none", "building", "ready", "failed", "discarded", "superseded"}
Inactive == {"failed", "discarded", "superseded"}

Process == [pc: PC, gen: Gen \cup {None}, full: BOOLEAN, todo: SUBSET Doc,
            pointer: Gen \cup {None}, doomed: SUBSET Gen]

TypeOK ==
    /\ status \in [Gen -> Status]
    /\ rows \in [Gen -> SUBSET Doc]
    /\ older \subseteq Gen \X Gen
    /\ active \in Gen \cup {None}
    /\ process \in [Refresher -> Process]
    /\ reading \in [Searcher -> Gen \cup {None}]
    /\ approved \in [Gen -> SUBSET Doc]
    /\ partial \subseteq Gen
    /\ orphaned \subseteq Gen

Init ==
    /\ status = [g \in Gen |-> "none"]
    /\ rows = [g \in Gen |-> {}]
    /\ older = {}
    /\ active = None
    /\ process = [p \in Refresher |-> Waiting]
    /\ reading = [s \in Searcher |-> None]
    /\ approved = [g \in Gen |-> {}]
    /\ partial = {}
    /\ orphaned = {}

-------------------------------------------------------------------------------
(* Helpers                                                                 *)

At(p, pc) == process[p].pc = pc
Mine(p) == process[p].gen

Goto(p, pc) == process' = [process EXCEPT ![p].pc = pc]
Exit(p) == process' = [process EXCEPT ![p] = Waiting]

(* idx_catalog_single_build                                                *)
MutNobodyBuilds == TRUE
NobodyBuilds == \A g \in Gen : status[g] # "building"

(* finished_at = CURRENT_TIMESTAMP                                         *)
Finished == {g \in Gen : status[g] \in Inactive \cup {"ready"}}
Latest(g) ==
    older' = {pair \in older : g \notin {pair[1], pair[2]}} \cup ((Finished \ {g}) \X {g})

(* update_generation_result with a status that ends the build              *)
EndsAs(g, s) ==
    /\ status' = [status EXCEPT ![g] = s]
    /\ Latest(g)

-------------------------------------------------------------------------------
(* refresh()                                                               *)

(* begin_generation for a full refresh, or one limited by --source or      *)
(* --max-documents to some of the documents.                               *)
Begin(p, g) ==
    /\ At(p, "idle")
    /\ NobodyBuilds
    /\ status[g] = "none"
    /\ g \notin {reading[s] : s \in Searcher}
    /\ g \notin UNION {process[q].doomed \cup {process[q].pointer} : q \in Refresher}
    /\ status' = [status EXCEPT ![g] = "building"]
    /\ approved' = [approved EXCEPT ![g] = {}]
    /\ \E full \in BOOLEAN, todo \in SUBSET Doc :
          /\ full => todo = Doc
          /\ process' = [process EXCEPT ![p] = [Waiting EXCEPT !.pc = "index", !.gen = g,
                                                              !.full = full, !.todo = todo]]
          /\ partial' = IF full THEN partial \ {g} ELSE partial \cup {g}
    /\ UNCHANGED <<rows, older, active, reading, orphaned>>

(* "another catalog generation is already building": the process ends.     *)
BeginRefused(p) ==
    /\ At(p, "idle")
    /\ ~NobodyBuilds
    /\ UNCHANGED vars

(* _index_document: the document's cases replace what the generation had   *)
(* of it, in one transaction.  It may contain no usable case, and a        *)
(* document that cannot be downloaded or parsed is only counted.           *)
IndexDocument(p, d) ==
    /\ At(p, "index")
    /\ d \in process[p].todo
    /\ rows' \in {[rows EXCEPT ![Mine(p)] = @ \cup {d}], [rows EXCEPT ![Mine(p)] = @ \ {d}]}
    /\ process' = [process EXCEPT ![p].todo = @ \ {d}, ![p].pc = "count"]
    /\ UNCHANGED <<status, older, active, reading, seen>>

(* update_generation_result(status="building"), whatever the row says      *)
CountDocument(p) ==
    /\ At(p, "count")
    /\ status' = [status EXCEPT ![Mine(p)] = "building"]
    /\ Goto(p, "index")
    /\ UNCHANGED <<rows, older, active, reading, seen>>

(* A partial refresh ends here.                                            *)
MutDiscard(p) == FALSE
Discard(p) == ~process[p].full
Indexed(p) ==
    /\ At(p, "index")
    /\ process[p].todo = {}
    /\ IF Discard(p)
       THEN EndsAs(Mine(p), "discarded") /\ Exit(p)
       ELSE Goto(p, "gate") /\ UNCHANGED <<status, older>>
    /\ UNCHANGED <<rows, active, reading, seen>>

(* "except Exception" of refresh: the status is stored, the process ends.  *)
MutBuildFails(p) ==
    /\ "error" \in Faults
    /\ process[p].pc \in {"index", "count"}
    /\ Exit(p)
    /\ UNCHANGED <<store, reading, seen>>
BuildFails(p) ==
    /\ "error" \in Faults
    /\ process[p].pc \in {"index", "count"}
    /\ EndsAs(Mine(p), "failed")
    /\ Exit(p)
    /\ UNCHANGED <<rows, active, reading, seen>>

-------------------------------------------------------------------------------
(* _run() after refresh()                                                  *)

(* evaluate_generation: without a single case it fails; coverage, failure  *)
(* ratio and the other thresholds are a free choice.                       *)
Evaluate(p) ==
    /\ At(p, "gate")
    /\ \/ /\ rows[Mine(p)] # {}
          /\ approved' = [approved EXCEPT ![Mine(p)] = rows[Mine(p)]]
          /\ Goto(p, "promote")
       \/ /\ UNCHANGED approved
          /\ Goto(p, "reject")
    /\ UNCHANGED <<store, reading, partial, orphaned>>

Reject(p) ==
    /\ At(p, "reject")
    /\ EndsAs(Mine(p), "failed")
    /\ Goto(p, "cleanup")
    /\ UNCHANGED <<rows, active, reading, seen>>

(* promote_generation: one immediate transaction.                          *)
MutSuperseded(g) == status
Superseded(g) ==
    IF active # None /\ active # g /\ status[active] = "ready"
    THEN [status EXCEPT ![active] = "superseded"]
    ELSE status
Promote(p) ==
    LET g == Mine(p) IN
    /\ At(p, "promote")
    /\ status[g] = "building"
    /\ rows[g] # {}
    /\ status' = [Superseded(g) EXCEPT ![g] = "ready"]
    /\ Latest(g)
    /\ active' = g
    /\ Goto(p, "cleanup")
    /\ UNCHANGED <<rows, reading, seen>>

(* cleanup_inactive_generations: two SELECTs, then the DELETEs.            *)
ReadPointer(p) ==
    /\ At(p, "cleanup")
    /\ process' = [process EXCEPT ![p].pointer = active, ![p].pc = "list"]
    /\ UNCHANGED <<store, reading, seen>>

(* All but the latest max(1, Keep) of the others.                          *)
KeepAtLeast == IF Keep = 0 THEN 1 ELSE Keep
Candidates(p) == {g \in Gen : status[g] \in Inactive} \ {process[p].pointer}
MutTooOld(p) ==
    {g \in Gen : status[g] # "none"} \ {process[p].pointer}
TooOld(p) ==
    {g \in Candidates(p) :
        Cardinality({h \in Candidates(p) : <<g, h>> \in older}) >= KeepAtLeast}
ListInactive(p) ==
    /\ At(p, "list")
    /\ IF TooOld(p) = {}
       THEN Exit(p)
       ELSE process' = [process EXCEPT ![p].doomed = TooOld(p), ![p].pc = "delete"]
    /\ UNCHANGED <<store, reading, seen>>

DeleteGenerations(p) ==
    LET doomed == process[p].doomed IN
    /\ At(p, "delete")
    /\ status' = [g \in Gen |-> IF g \in doomed THEN "none" ELSE status[g]]
    /\ rows' = [g \in Gen |-> IF g \in doomed THEN {} ELSE rows[g]]
    /\ older' = older \cap ((Gen \ doomed) \X (Gen \ doomed))
    /\ Exit(p)
    /\ UNCHANGED <<active, reading, seen>>

(* The process is killed, or an exception nobody catches ends it: in the   *)
(* gate, in a promotion, in the handler that stores "failed".              *)
Crash(p) ==
    /\ "crash" \in Faults
    /\ ~At(p, "idle")
    /\ orphaned' = IF process[p].pc \in Building THEN orphaned \cup {Mine(p)} ELSE orphaned
    /\ Exit(p)
    /\ UNCHANGED <<store, reading, approved, partial>>

-------------------------------------------------------------------------------
(* CatalogResearchProvider.search_cases                                    *)

MutReadable == {g \in Gen : status[g] \in {"building", "ready"}}
Readable == {g \in {active} \ {None} : status[g] = "ready"}
ReadActive(s) ==
    /\ reading[s] = None
    /\ \E g \in Readable : reading' = [reading EXCEPT ![s] = g]
    /\ UNCHANGED <<store, process, seen>>

(* CatalogNotReadyError                                                    *)
NotReady(s) ==
    /\ reading[s] = None
    /\ Readable = {}
    /\ UNCHANGED vars

(* One SELECT over rows[reading[s]].                                       *)
Search(s) ==
    /\ reading[s] # None
    /\ reading' = [reading EXCEPT ![s] = None]
    /\ UNCHANGED <<store, process, seen>>

Step(p) ==
    \/ \E d \in Doc : IndexDocument(p, d)
    \/ CountDocument(p)
    \/ Indexed(p)
    \/ BuildFails(p)
    \/ Evaluate(p)
    \/ Reject(p)
    \/ Promote(p)
    \/ ReadPointer(p)
    \/ ListInactive(p)
    \/ DeleteGenerations(p)

Next ==
    \/ \E p \in Refresher :
          \/ \E g \in Gen : Begin(p, g)
          \/ BeginRefused(p)
          \/ Step(p)
          \/ Crash(p)
    \/ \E s \in Searcher : ReadActive(s) \/ NotReady(s) \/ Search(s)

Spec == Init /\ [][Next]_vars

-------------------------------------------------------------------------------
(* Properties                                                              *)

(* The pointer and the statuses agree at every commit: the active          *)
(* generation, and no other, is "ready", and it has cases; whatever order  *)
(* refreshes promote and clean up in, none is deleted while it is active.  *)
ActiveIsReady ==
    /\ \A g \in Gen : status[g] = "ready" <=> g = active
    /\ active # None => rows[active] # {}

(* "prevents overlapping timers/manual refreshes from racing to            *)
(* activation": two refreshes are never both at work on a generation.      *)
NoRace ==
    \A p, q \in Refresher :
        process[p].pc \in Building /\ process[q].pc \in Building => p = q

(* Searches are shown exactly what the quality gate looked at, and never   *)
(* a diagnostic build.                                                     *)
ShownAsApproved ==
    active # None => rows[active] = approved[active] /\ active \notin partial

(* A search under way finds the cases of one approved snapshot, all of     *)
(* them or, when it was deleted meanwhile, none; never a build in progress.*)
SearchSeesOneSnapshot ==
    \A s \in Searcher : reading[s] # None =>
        /\ rows[reading[s]] \in {approved[reading[s]], {}}
        /\ approved[reading[s]] # {}
        /\ reading[s] \notin partial

(* "Deterministic search over one immutable verified generation": what a   *)
(* search read as active is still there when it searches it.               *)
SearchSeesWholeSnapshot ==
    \A s \in Searcher : reading[s] # None => rows[reading[s]] = approved[reading[s]]

(* A generation that blocks other builds is being built by some process.   *)
BuildLockHasOwner ==
    \A g \in Gen : status[g] = "building" =>
        \E p \in Refresher : process[p].pc \in Building /\ Mine(p) = g

(* A build gives way to the next one, whatever goes wrong in it, unless    *)
(* its process is killed or ends outside refresh(): as long as its row     *)
(* blocks other builds a process is at work on it.                         *)
BuildAccountedFor ==
    \A g \in Gen : status[g] = "building" /\ g \notin orphaned =>
        \E p \in Refresher : process[p].pc \in Building /\ Mine(p) = g

(* What a search can find changes only from one approved snapshot to the   *)
(* next: the promise of ActiveCatalog.                                     *)
Shown == IF active = None THEN {} ELSE rows[active]
Promoting == {p \in Refresher : At(p, "promote")}
Offered == IF Promoting = {} THEN {} ELSE rows[Mine(CHOOSE p \in Promoting : TRUE)]
Runtime == INSTANCE ActiveCatalog WITH shown <- Shown, offered <- Offered
SwitchesWhole == Runtime!Spec

-------------------------------------------------------------------------------
(* Why: the inductive invariant                                            *)

(* A build owns the row that is the lock, and only a full one comes to the *)
(* gate.                                                                   *)
BuildOwned ==
    \A p \in Refresher : process[p].pc \in Building =>
        /\ Mine(p) # None
        /\ status[Mine(p)] = "building"
        /\ Mine(p) \in partial <=> ~process[p].full
        /\ process[p].pc \in {"gate", "promote", "reject"} => process[p].full
        /\ At(p, "promote") => rows[Mine(p)] # {} /\ approved[Mine(p)] = rows[Mine(p)]

(* A generation that was ever active keeps what the gate approved.         *)
Frozen ==
    \A g \in Gen : status[g] \in {"ready", "superseded"} =>
        approved[g] # {} /\ rows[g] = approved[g] /\ g \notin partial

(* What a search read is ready, superseded or deleted since.               *)
ReadingOld ==
    \A s \in Searcher : reading[s] # None =>
        \/ status[reading[s]] \in {"ready", "superseded"}
        \/ /\ status[reading[s]] = "none" /\ rows[reading[s]] = {}
           /\ approved[reading[s]] # {} /\ reading[s] \notin partial

(* Nothing marked for deletion comes to life again.                        *)
DoomedStay ==
    \A p \in Refresher : \A g \in process[p].doomed : status[g] \in Inactive \cup {"none"}

IInv ==
    /\ TypeOK
    /\ ActiveIsReady
    /\ NoRace
    /\ BuildOwned
    /\ BuildAccountedFor
    /\ Frozen
    /\ ReadingOld
    /\ DoomedStay
===============================================================================
