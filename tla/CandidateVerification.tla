------------------------ MODULE CandidateVerification ------------------------
(***************************************************************************)
(* CaseWorkflowService._verify_candidate (app/services/case_workflow.py):  *)
(* one candidate from its download to a reserved case with a file of its   *)
(* own, through the stages that CaseWorkflow takes for one step.           *)
(*                                                                         *)
(* The stages run pypdf in threads (asyncio.to_thread) under a deadline.   *)
(* A stage that is given up goes on in its thread; only the one that cuts  *)
(* a judgment out of a compilation (_extract_compilation_case) touches     *)
(* files, so its thread is a process here, the others are one step.        *)
(*                                                                         *)
(* Candidates follow one another; their files have names of their own, so  *)
(* the next begins when the two names of this one are free again.          *)
(***************************************************************************)
EXTENDS PdfAcquisition, JudgmentBoundaries

CONSTANTS
    Candidate,  \* what a provider may propose
    Threshold   \* settings.compilation_page_threshold

(* A catalog row carries the digest of the file the indexer took it from:  *)
(* 'of' is that file.  start = 0 stands for a candidate without a range.   *)
ASSUME CandidateAssumption ==
    Candidate \subseteq [number: Number \cup {None}, start: Nat, end: Nat, of: Body \cup {None}]
ASSUME RowAssumption ==
    \A candidate \in Candidate : candidate.of # None =>
        [start |-> candidate.start, end |-> candidate.end, number |-> candidate.number]
            \in IndexedRows(candidate.of.pages)
ASSUME BodyAssumption ==
    /\ Body \subseteq [pages: Seq(Page), physical: Nat, sound: BOOLEAN]
    /\ \A body \in Body : body.physical <= Len(body.pages)
    /\ None \notin Body /\ Body # {} /\ Url # {}

VARIABLES
    job,        \* the local variables of _verify_candidate
    worker      \* the thread in _extract_compilation_case

vars == <<fetching, job, worker>>

Stages == {"classify", "range", "cut", "cutting", "check", "used", "text", "reserve"}

(* The file of the artifact, the body it was loaded with (source) and the  *)
(* pages that are in it now.                                               *)
Idle == [at |-> "idle", route |-> "number", number |-> None, start |-> 0, end |-> 0, of |-> None,
         source |-> None, pages |-> <<>>, file |-> None]
NoThread == [at |-> "off", start |-> 0, end |-> 0, source |-> None, number |-> None]

(* candidate.catalog_range_verified, candidate.has_page_range.             *)
Route(candidate) ==
    IF candidate.of # None THEN "catalog" ELSE IF candidate.start # 0 THEN "hint" ELSE "number"

Init ==
    /\ download = NoDownload
    /\ disk = {} /\ stranded = {} /\ sent = <<>>
    /\ job = Idle /\ worker = NoThread

Goto(stage) == job' = [job EXCEPT !.at = stage]

(* except (PdfAcquisitionError, OSError, ValueError): the file of the      *)
(* artifact it knows goes; and so it does for a case already used or       *)
(* reserved by another session.                                            *)
GiveUp ==
    /\ job' = Idle
    /\ disk' = disk \ {job.file}
    /\ UNCHANGED <<download, sent>>

Begin(candidate, url) ==
    /\ job.at = "idle" /\ disk = {} /\ worker = NoThread
    /\ url.secure /\ url.approved
    /\ StartAcquire(url)
    /\ job' = [Idle EXCEPT !.at = "acquire", !.route = Route(candidate),
                           !.number = candidate.number, !.of = candidate.of,
                           !.start = candidate.start, !.end = candidate.end]
    /\ stranded' = {}
    /\ UNCHANGED <<disk, sent, worker>>

Downloading == job.at = "acquire" /\ Acquire /\ UNCHANGED <<job, worker>>

Acquired ==
    /\ job.at = "acquire"
    /\ \/ /\ download.at = "have"
          /\ job' = [job EXCEPT !.at = "classify", !.file = "raw", !.source = download.body,
                                !.pages = download.body.pages]
       \/ download.at = "failed" /\ job' = Idle
    /\ EndAcquire
    /\ UNCHANGED <<disk, stranded, worker>>

IsCompilation ==
    \/ job.route # "number"
    \/ job.source.physical > Threshold
    \/ Cardinality(PrimaryNumbers(job.pages)) > 1

Classify ==
    /\ job.at = "classify"
    /\ Goto(IF IsCompilation THEN "range" ELSE "check")
    /\ UNCHANGED <<fetching, worker>>

(* A verified catalog range is taken as it is while the file is still the  *)
(* one that was indexed; a hint of the web search is refined, and brings   *)
(* the number of the header it found; a number alone is looked up.         *)
UseRange(range, number) ==
    IF range = NoRange
    THEN GiveUp
    ELSE /\ job' = [job EXCEPT !.at = "cut", !.start = range.start, !.end = range.end,
                               !.number = number]
         /\ UNCHANGED <<download, disk, sent>>

MutCatalogRange ==
    IF job.end <= job.source.physical
    THEN [start |-> job.start, end |-> job.end]
    ELSE NoRange
CatalogRange ==
    IF job.of = job.source /\ job.end <= job.source.physical
    THEN [start |-> job.start, end |-> job.end]
    ELSE NoRange

FindRange ==
    /\ job.at = "range"
    /\ \/ job.route = "catalog" /\ UseRange(CatalogRange, job.number)
       \/ job.route = "number" /\ UseRange(LocatedRange(job.pages, job.number), job.number)
       \/ /\ job.route = "hint"
          /\ LET range == RefinedRange(job.pages, job.start, job.end, job.number)
             IN  UseRange(range, IF range = NoRange THEN None ELSE job.pages[range.start].head)
    /\ UNCHANGED <<stranded, worker>>

StartCut ==
    /\ job.at = "cut"
    /\ Goto("cutting")
    /\ worker' = [at |-> "read", start |-> job.start, end |-> job.end,
                  source |-> job.source, number |-> job.number]
    /\ UNCHANGED fetching

(*----------------------- the thread of the extraction --------------------*)

Move(position) == worker' = [worker EXCEPT !.at = position]
MutCutPages == SubSeq(worker.source.pages, worker.start + 1, worker.end)
CutPages == SubSeq(worker.source.pages, worker.start, worker.end)

(* PdfReader reads the whole file first: without it, or with a range that  *)
(* is none, extract_page_range raises before it writes anything.           *)
ReadSource ==
    /\ worker.at = "read"
    /\ Move(IF /\ "raw" \in disk
               /\ 1 <= worker.start /\ worker.start <= worker.end
               /\ worker.end <= worker.source.physical
            THEN "write" ELSE "raised")
    /\ UNCHANGED <<fetching, job>>

WriteExtract ==
    /\ worker.at = "write"
    /\ disk' = disk \cup {"extract"}
    /\ \/ Move("unlink") /\ UNCHANGED stranded
       \/ Move("raised") /\ stranded' = stranded \cup {"write"}
    /\ UNCHANGED <<download, sent, job>>

UnlinkSource ==
    /\ worker.at = "unlink"
    /\ disk' = disk \ {"raw"}
    /\ Move("validate")
    /\ UNCHANGED <<download, stranded, sent, job>>

MutValidateExtract ==
    /\ worker.at = "validate"
    /\ Move(IF OneJudgment(CutPages, worker.number) THEN "digest" ELSE "raised")
    /\ UNCHANGED <<fetching, job>>
ValidateExtract ==
    /\ worker.at = "validate"
    /\ IF OneJudgment(CutPages, worker.number)
       THEN Move("digest") /\ UNCHANGED disk
       ELSE Move("raised") /\ disk' = disk \ {"extract"}
    /\ UNCHANGED <<download, stranded, sent, job>>

(* validate_pdf_file and read_bytes of the extract, outside of any try.    *)
DigestExtract ==
    /\ worker.at = "digest"
    /\ \/ Move("returned") /\ UNCHANGED stranded
       \/ Move("raised") /\ stranded' = stranded \cup {"digest"}
    /\ UNCHANGED <<download, disk, sent, job>>

Thread == ReadSource \/ WriteExtract \/ UnlinkSource \/ ValidateExtract \/ DigestExtract

-----------------------------------------------------------------------------

CutReturns ==
    /\ job.at = "cutting"
    /\ \/ /\ worker.at = "returned"
          /\ job' = [job EXCEPT !.at = "check", !.file = "extract", !.pages = CutPages]
          /\ UNCHANGED <<download, disk, sent>>
       \/ worker.at = "raised" /\ GiveUp
    /\ worker' = NoThread
    /\ UNCHANGED stranded

(* A thread nobody waits for any more ends unnoticed.                      *)
ThreadForgotten ==
    /\ job.at # "cutting" /\ worker.at \in {"returned", "raised"}
    /\ worker' = NoThread
    /\ UNCHANGED <<fetching, job>>

(* The metadata replace what the provider claimed: of an extract those of  *)
(* its header, of a whole file what the text of its first two pages gives. *)
(* Then: one primary number, and the number of the case on the first page; *)
(* a file without headers is compared by labels, which may match or not.   *)
MetadataNumbers ==
    IF job.file = "extract" /\ HasHead(job.pages[1])
    THEN {job.pages[1].head}
    ELSE Number \cup {None}

MutIdentified(pages, number) ==
    /\ Cardinality(PrimaryNumbers(pages)) <= 1
    /\ number # None /\ PrimaryNumbers(pages) # {} => number \in PrimaryNumbers(pages)
Identified(pages, number) ==
    /\ Cardinality(PrimaryNumbers(pages)) <= 1
    /\ number # None /\ PrimaryNumbers(pages) # {} => HeadersConfirm(pages, number)

Check ==
    /\ job.at = "check"
    /\ \E found \in MetadataNumbers :
          LET number == IF found = None THEN job.number ELSE found
          IN  \/ /\ job.file = "extract" => OneJudgment(job.pages, job.number)
                 /\ Identified(job.pages, number)
                 /\ job' = [job EXCEPT !.at = "used", !.number = number]
                 /\ UNCHANGED <<download, disk, sent>>
              \/ /\ \/ job.file = "extract" /\ ~OneJudgment(job.pages, job.number)
                    \/ ~Identified(job.pages, number)
                    \/ number # None /\ PrimaryNumbers(job.pages) = {}
                 /\ GiveUp
    /\ UNCHANGED <<stranded, worker>>

(* is_case_used; then the text, its length and its relevance; then         *)
(* reserve_case.                                                           *)
CheckUsed ==
    /\ job.at = "used"
    /\ \/ Goto("text") /\ UNCHANGED <<download, disk, sent>>
       \/ GiveUp
    /\ UNCHANGED <<stranded, worker>>

ReadText ==
    /\ job.at = "text"
    /\ \/ Goto("reserve") /\ UNCHANGED <<download, disk, sent>>
       \/ GiveUp
    /\ UNCHANGED <<stranded, worker>>

Reserve ==
    /\ job.at = "reserve"
    /\ \/ Goto("accepted") /\ UNCHANGED <<download, disk, sent>>
       \/ GiveUp
    /\ UNCHANGED <<stranded, worker>>

(* _run_pdf_stage: wait_for gives up; a thread that cuts goes on.          *)
MutInStage == job.at \in {"classify", "range", "check", "text"}
InStage == job.at \in {"classify", "range", "cutting", "check", "text"}
StageTimesOut ==
    /\ InStage
    /\ GiveUp
    /\ stranded' = IF job.at = "cutting" THEN stranded \cup {"stage"} ELSE stranded
    /\ UNCHANGED worker

(* Any other exception (the database, Telegram, pypdf's own) or the end of *)
(* the task passes the handler: nothing is deleted.                        *)
Abort ==
    /\ job.at \in {"acquire"} \cup Stages
    /\ job' = Idle
    /\ EndAcquire
    /\ stranded' = stranded \cup {"abort"}
    /\ UNCHANGED <<disk, worker>>

(* The case belongs to the session now (CaseWorkflow), which deletes the   *)
(* file; what was left over goes with cleanup_stale_files at a restart.    *)
HandOver ==
    /\ job.at = "accepted"
    /\ GiveUp
    /\ UNCHANGED <<stranded, worker>>

CleanUp ==
    /\ job.at = "idle" /\ worker = NoThread /\ disk # {}
    /\ disk' = {}
    /\ UNCHANGED <<download, stranded, sent, job, worker>>

Proceed ==
    \/ Downloading \/ Acquired \/ Classify \/ FindRange \/ StartCut
    \/ Thread \/ CutReturns \/ ThreadForgotten
    \/ Check \/ CheckUsed \/ ReadText \/ Reserve
    \/ StageTimesOut \/ Abort \/ HandOver \/ CleanUp

Next ==
    \/ \E candidate \in Candidate, url \in Url : Begin(candidate, url)
    \/ Proceed

(* The event loop goes on, the two deadlines fire and the database answers *)
(* or fails; nothing is assumed of a source that should answer or of a     *)
(* thread that should end.                                                 *)
Fairness ==
    /\ WF_vars(TotalDeadline /\ Downloading) /\ WF_vars(Acquired)
    /\ WF_vars(StageTimesOut) /\ WF_vars(StartCut) /\ WF_vars(CheckUsed) /\ WF_vars(Reserve)

Spec == Init /\ [][Next]_vars /\ Fairness

-----------------------------------------------------------------------------
(* Types of what is kept, of this module and the acquisition.              *)
ThreadPositions == {"off", "read", "write", "unlink", "validate", "digest", "returned", "raised"}

TypeOK ==
    /\ download \in Download
    /\ disk \subseteq {"raw", "extract"}
    /\ stranded \subseteq {"deadline", "stage", "write", "digest", "abort"}
    /\ sent \in Seq(Url)
    /\ job \in [at: {"idle", "acquire", "accepted"} \cup Stages,
                route: {"catalog", "hint", "number"}, number: Number \cup {None},
                start: Int, end: Int, of: Body \cup {None}, source: Body \cup {None},
                pages: Seq(Page), file: {"raw", "extract", None}]
    /\ worker \in [at: ThreadPositions, start: Int, end: Int, source: Body \cup {None},
                   number: Number \cup {None}]

(* A file of a candidate belongs to the candidate whose artifact it is, to *)
(* the download that writes it or to the thread that cuts it out.          *)
Owned(file) ==
    \/ job.at # "idle" /\ job.file = file
    \/ file = "raw" /\ job.at = "acquire" /\ download.at \in {"stream", "parse", "have"}
    \/ /\ file = "extract" /\ job.at = "cutting"
       /\ worker.at \in {"unlink", "validate", "digest", "returned"}

(* What loses a file, and which: no failure, refusal or timeout but the    *)
(* total deadline leaves a downloaded PDF without owner, and none but a    *)
(* stage given up while it cuts, a failing write or a failing digest an    *)
(* extract; an exception the handler does not expect may leave either.     *)
FilesOwned ==
    /\ "raw" \in disk /\ ~Owned("raw") => stranded \cap {"deadline", "abort"} # {}
    /\ "extract" \in disk /\ ~Owned("extract") =>
          stranded \cap {"stage", "write", "digest", "abort"} # {}

(* What the documents promise: try/finally attempts the cleanup on success *)
(* and on failure.  A candidate that was given up, by anything but an      *)
(* exception nobody expects, leaves no download behind, and when its       *)
(* thread is done no extract either.                                       *)
CleanedUp ==
    job.at = "idle" /\ "abort" \notin stranded =>
        /\ "raw" \notin disk
        /\ worker = NoThread => "extract" \notin disk

(* An accepted case has its file, which no thread is left to delete or     *)
(* write, and which holds the pages that were verified.                    *)
AcceptedIntact ==
    job.at = "accepted" =>
        /\ job.file \in disk /\ worker = NoThread
        /\ job.pages = IF job.file = "raw"
                       THEN job.source.pages
                       ELSE SubSeq(job.source.pages, job.start, job.end)

(* A source that hangs, a thread that never returns or a file pypdf chokes  *)
(* on does not hold up the search, in which the user's lock is held: every *)
(* candidate is accepted or given up.                                      *)
CandidateEnds == job.at = "acquire" ~> job.at \in {"idle", "accepted"}

(* Whatever a provider claimed, an accepted file holds one judgment: at    *)
(* most one primary case number, that of the case if it has a number, and  *)
(* then on the first page.                                                 *)
AcceptedIsOneJudgment ==
    job.at = "accepted" =>
        /\ Cardinality(PrimaryNumbers(job.pages)) <= 1
        /\ job.file = "extract" => OneJudgment(job.pages, job.number) /\ job.number # None
        /\ job.number # None /\ PrimaryNumbers(job.pages) # {} => job.pages[1].head = job.number

(* An extract by catalog range or by case number is the whole judgment: it *)
(* begins with its first page and nothing but decoration is cut off, even  *)
(* when the source replaced the file since it was indexed.                 *)
AcceptedIsWhole ==
    job.at = "accepted" /\ job.file = "extract" /\ job.route # "hint" =>
        /\ WholeJudgment(job.source.pages, job.start, job.end)
        /\ BeginsIt(job.source.pages, job.start)
===============================================================================
