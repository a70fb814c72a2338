# JudicialCommentBot: the formal model

JudicialCommentBot is a Telegram bot for law students. A student chooses a
course; the bot finds an official judgment that fits it, verifies the PDF,
writes an academic commentary as a DOCX, sends both, and records the judgment
so that nobody is ever given it again. This directory holds TLA+ models of
the code under `src/app`, the TLC configurations that check them, and TLAPS
proofs about them.

## 1. The system and its parts

The bot is one asyncio process (`python -m app`, long polling). aiogram starts
a task of its own for every update, so two presses of one user, and the
presses of all users, run interleaved at every suspension point. Weekly a
second process (`python -m app.catalog refresh`) rebuilds the catalog in the
same SQLite file. Every database operation opens its own connection.

| Component | State it keeps | Operations | Who it talks to |
|---|---|---|---|
| Handlers (`bot/routers/subjects.py`) | buttons in chats; local variables of running tasks | search, new case, pick, send, regenerate | workflow, assignment service, Telegram |
| Case workflow (`services/case_workflow.py`) | one session and one lock per user, in memory; PDFs in the temporary directory | `prepare`, `select`, `record_sent`, cleanup | database, research, PDF acquisition |
| Ledger (`db/database.py`, `db/migrations.py`) | `case_history`, `case_reservations` | `is_case_used`, `reserve_case`, `release_*`, `record_case` | SQLite |
| Catalog (`catalog/`) | generations, their documents and cases, the active pointer | begin, index, gate, promote, clean up, search | SQLite, PDF acquisition |
| Research (`research/`, `deepseek/`) | time of the last account check, shared by all searches | check the account, discover, synthesise, stream, merge with the catalog | DeepSeek, catalog |
| PDF acquisition (`pdf/acquisition.py`, `security.py`, `validation.py`) | a temporary file | redirects, limits, deadline | HTTP |
| PDF structure (`pdf/compilation.py`, `headers.py`) | none | page ranges of judgments | pypdf |
| Ranking (`ranking/`) | weights | score, choose | - |
| Assignment (`services/assignment_service.py`, `commentary/`) | a temporary DOCX | draft, validate, retry, render | DeepSeek |
| Progress (`bot/progress.py`) | ticker task, current phase | start, set_phase, stop | Telegram |
| Access (`services/access_service.py`, `bot/middlewares/auth.py`) | `allowed_users` | allow, deny, check | SQLite |
| Migrations (`Database.initialize`) | `schema_migrations` | apply what is missing | SQLite |

What makes it hard:

* **Interleaving.** `asyncio` switches tasks at every await that really
  suspends. Only `prepare()` holds the per-user lock; `select`,
  `record_sent`, sending and regenerating do not, and all of them work on the
  session of the user.
* **Two stores, one life.** A verified case exists as a file, a row of
  `case_reservations` and an entry of a session in memory, changed in
  different transactions with awaits in between. SQLite, Telegram or the PDF
  library may fail between any two of them, and the process may be restarted.
* **Time.** Reservations expire after 30 minutes while a session lives on;
  buttons stay in a chat for ever.
* **Two processes.** The catalog refresh and the bot share a database file
  and nothing else; a refresh may be killed at any point.
* **Boundaries.** Byte limits, redirect limits, page ranges, score margins.

What makes each part correct, in a sentence: the *ledger* never keeps one
judgment twice; the *workflow* leaves nothing without an owner and never
touches what belongs to another user; a *case* is held, delivered and recorded
in that order; a *press* ends; the *catalog* shows one approved snapshot as a
whole, and builds never overlap; *acquisition* never exceeds its limits and
deletes the file of a candidate it gives up; *boundaries* of adjacent
judgments neither overlap nor lose a page; *selection* is bounded and monotone
in its margin; *migrations* leave every process that is up with the complete
schema. Where the code falls short of this, section 6 says how.
`PROJECT.json` lists the hazards line by line.

## 2. The modules

| Module | What it is |
|---|---|
| `CaseLedger` | `case_history` and `case_reservations`: one operator per transaction of `db/database.py` |
| `CaseWorkflow` | handlers, workflow service, lock, sessions and files over `CaseLedger` (which it EXTENDS) |
| `CaseDelivery` | abstract: the life of one case, as the documents promise it |
| `MCCaseWorkflow` | judgments, symmetry and view for TLC |
| `CaseWorkflowProofs` | theorems about `CaseWorkflow` |
| `CatalogGenerations` | refresh processes, the generation tables, searches of the bot |
| `ActiveCatalog` | abstract: what a search may see change |
| `MCCatalogGenerations` | symmetry for TLC |
| `CatalogGenerationsProofs` | theorems about `CatalogGenerations` |
| `PdfAcquisition` | one download: requests, redirects, limits, the temporary file, the total deadline |
| `JudgmentBoundaries` | the page ranges of judgments in a compilation, as operators over classified pages |
| `CandidateVerification` | `_verify_candidate` over both of these: stages, deadlines, the thread that cuts |
| `MCCandidateVerification` | documents, URLs and candidates for TLC |
| `MCSearch` | `Research` and `CandidateVerification`, the two halves of a search, each on a small instance |
| `JudgmentRanges` | `JudgmentBoundaries` on a compilation that grows page by page |
| `Research` | catalog first, account check, web research with its attempts |
| `CaseSearch` | the rounds of `prepare()`, ranking and decision |
| `Suitability` | relevance, estimate and final score of a text |
| `JudicialHeaders` | the grammars that give a page its case number |
| `ResponseStream` | a response put together from server-sent events |
| `CommentaryWriting` | drafts, checks and the Word file of `AssignmentService` |
| `StatusTicker` | the status message |
| `Migrations` | `Database.initialize` by several processes |
| `MCServices` | `JudgmentRanges` and the seven from `CaseSearch` to `Migrations`, each on one small instance |
| `Counting` | lemmas about numbers and finite sets: the least element, induction, the places in an order |
| `JudgmentBoundariesProofs` | lemmas about the range operators, used by `CandidateVerificationProofs` and `ServicesProofs` |
| `CandidateVerificationProofs`, `ResearchProofs`, `MigrationsProofs` | theorems about the module in the name |
| `ServicesProofs` | theorems about `StatusTicker`, `Suitability`, `CommentaryWriting`, `JudicialHeaders`, `CaseSearch`, `JudgmentRanges`, `ResponseStream` |

How they fit together: `CaseWorkflow` takes the verification of a candidate
as the steps at which it touches what others can see (download, duplicate
check, reservation); `CandidateVerification` opens that interval up, with
`PdfAcquisition` inside it and the range operators it calls; `CaseSearch` is
the loop around it with the ranking; `Research` is where the candidates of a
round come from; `JudicialHeaders` is what gives a page the number that
`JudgmentBoundaries` works on; `Suitability` is the score by which
`CatalogGenerations`' rows are proposed and verified cases ranked.

### CaseLedger

A row is named by the *token* of the prepared case it was written for, and
`judgment[t]` is what the token stands for. `Collide` is what the unique
indexes compare: the PDF digest, or case number and court when both are there
(normalised by LOWER and TRIM in both tables, hence one key). Each operator is
one transaction: `Used` is `is_case_used`; `ReserveCase` is the DELETE of
expired rows and the INSERT of `reserve_case` (refused: rolled back, the
DELETE too); `Release` and `RecordCase` (INSERT OR IGNORE) are the others;
`Age` is the clock. `LedgerSpec` lets anybody perform any transaction at any
time; `CaseWorkflow` is proved to be one such use.

### CaseWorkflow

| Variable | In the code |
|---|---|
| `files` | paths of `PreparedCase.pdf` that exist |
| `session[u]` | `_sessions[u]`: `cases`, `selected`, `recorded`; `all` identifies the object |
| `lock[u]` | who is inside `async with self._lock(u)` |
| `task[h]` | a running handler: where it is suspended and its local variables |
| `picks`, `regens` | buttons that exist in chats; they stay usable for ever |
| `owner`, `gotPdf`, `gotDocx`, `abandoned` | observed only, no action's guard reads them |

One action is what a task does between two suspensions: the effect of the
awaited operation and the synchronous code up to the next one. So
`AcquireLock` is the grant of the lock together with the pop of the session
and the unlinking of its files, up to the await of the DELETE
(`CleanupReleased`); `BeginSelect` unlinks the discarded files, up to the
DELETE (`DropReservations`), and `FinishSelect` is what runs when the handler
resumes, on the session object it looked up *before* (`Chosen` writes it only
if it is still the user's). `Download`, `CheckUsed` and `Reserve` keep the
three points apart at which `_verify_candidate` touches disk and tables.
`RecordSent` reads the session as it is then, as the code does, not the token
that was sent.

Abstracted: the candidate list of a round is the choice of a judgment not
`tried` before (coarser than `_candidate_identity`, which compares what the
provider claimed); ranking is the choice which cases are offered and whether
one is chosen automatically; the stages between download and the duplicate
check are `Reject` or going on; texts, course slugs and message wording are
left out, except the claim "still saved", which `SavedMessageIsTrue` is
about. Buttons carry the token of a case and are pressed by the user they
were sent to. A press on a button whose session is gone only answers and
changes nothing, so it is not an action. When the closing answer after
`record_sent` fails, the handler offers the same regenerate button that
`Complete` gives, so it is not a case of its own.

### CatalogGenerations

| Variable | In the code |
|---|---|
| `status`, `older` | `catalog_generations`: `status` and the order of `finished_at` |
| `rows` | `catalog_generation_cases`: documents of which a generation has cases |
| `active` | the row of `catalog_active_generation` |
| `process[p]` | a run of `python -m app.catalog refresh`: position and local variables |
| `reading[s]` | the generation id a search has read and not yet searched |
| `approved`, `partial`, `orphaned` | observed only |

One action is one transaction, or one SELECT outside of any, with the code up
to the next: the three phases of `cleanup_inactive_generations` (read the
pointer, list, delete) are three actions, `promote_generation` is one
(BEGIN IMMEDIATE). `NobodyBuilds` is the partial unique index that is the
build lock. `Evaluate` approves or rejects: only "at least one case" is kept
of the gate, whose thresholds depend on the data. `Crash` is the kill of a
process, and any exception outside the `try` of `refresh()`: in the gate, in
the promotion, in the error handler itself.

Abstracted: all processes run one `CATALOG_PARSER_VERSION`; two generations
never get one `finished_at`; a generation whose rows are deleted may be
begun again, standing for a fresh uuid, once nobody refers to it.

### PdfAcquisition and CandidateVerification

| Variable | In the code |
|---|---|
| `download` | local variables of `acquire` and `_save_response`, and the await it is at |
| `disk` | the two files of a candidate that exist: the download (`raw`), the `extract` |
| `job` | local variables of `_verify_candidate`; `at` is the stage |
| `worker` | the thread in `_extract_compilation_case` |
| `sent`, `stranded` | observed: URLs contacted; which event made the code lose a path |

A body is what `pypdf` would make of a file: its pages (a page keeps the
number of its header, the length of its text and whether it has a word of
judgments), how many of them the page tree has, whether the file is sound. A
URL keeps the verdicts of `validate_pdf_url`. A redirect, a chunk, the end of
a body are actions, because the total deadline may cut in before each:
`TotalDeadline` cancels the coroutine, and the `except Exception` that deletes
the file does not see a `CancelledError`.

A stage that times out (`StageTimesOut`) is left by the coroutine while its
thread goes on. Only the thread of the extraction changes files, so only that
one is a process: `ReadSource`, `WriteExtract`, `UnlinkSource`,
`ValidateExtract` and `DigestExtract` interleave with everything the
coroutine does after it gave up. `Check` is the three checks of the metadata
and headers; where a file has no header the code compares labels in its text,
and the model allows both outcomes. Files of different candidates have
different names, so the next candidate begins when the two names are free.

### JudgmentBoundaries and JudgmentRanges

Operators, no state: `CaseStarts`, `IndexedEnd` and `IndexedRows` are what
`CatalogIndexer` stores; `LocatedRange`, `RefinedRange` and their parts are
what the bot finds in the downloaded file by a number or from a hint;
`OneJudgment` is `validate_single_case_pdf`. Page numbers start at 1; the
code's conversions to and from 0 are not visible in the result.
`JudgmentRanges` applies them to a compilation to which pages are appended.

### Research

`search[s]` holds the local variables of one `search_cases` through the three
providers; `trusted` is `_preflight_ok_at`, the one variable they share;
`account` is what the service would say now. An answer is one of the kinds
the code tells apart. A transport error becomes a `ValueError`, is reported
as unusable output and costs an attempt; an HTTP error or a broken stream
passes all attempts and ends the web research. `asked` counts requests.
`Merge` says of the loop that drops repeated candidates what it leaves: those
at the first place of their key, in order, up to the limit. The lists of the
catalog may repeat a case: a compilation can hold two parts of one, and the
store does not compare what it returns.

### The services

* `CaseSearch`: `round`, `queue`, `seen`, `verified`, `outcome` are the local
  variables of `prepare()`. `Ranked` is the stable sort, said by counting
  those in front (`InFront`), `Select` is `select_candidates`. `Held` is what
  `reserve_case` refuses: a digest, or a number and court, that a row of this
  search still has. The rows are those of `verified` but for the first
  `lapsed`, which were reserved more than 30 minutes ago; `reserve_case`
  deletes them before it inserts. What other sessions hold is the second
  branch of `NextCandidate`, as is any other reason to give a candidate up.
* `Suitability`: of a text only counts are kept. A step reads on in the text.
* `JudicialHeaders`: `Readings` lists what each grammar of
  `_primary_scan` makes of a text, in the order in which they are asked.
  `sample` has the markers and labels the scan finds in the text itself and
  those it finds in the text with every line reversed, on which the scan falls
  back when the first finds nothing; nothing relates the two, so any page
  is covered. A step adds a marker, with the markers it contains (`With`: a
  marker is looked for as a substring), or a label behind the others.
* `ResponseStream`: the service (`Send...`), a proxy that repeats, drops or
  cuts, and the client (`ReadLine`, `StreamEnds`) line by line. A piece is a
  list of words and may be empty; joining them is `FlattenSeq`. An item has an
  id; items without one are appended as often as they come and not modelled.
* `CommentaryWriting`: a draft is the set of what is wrong with it.
* `StatusTicker`: an edit is a pending request; `Answer` lets Telegram carry
  out any of them or none. `Stop` cancels the task, not its request.
* `Migrations`: `executescript` statement by statement; `Scripts` says which
  statements may be repeated.

## 3. Runs

| Run | Question | Bounds |
|---|---|---|
| `concurrent` | do files and reservations leak, or does one user harm another, when handlers overlap? | 2 users, 2 tasks, 2 tokens, 2 judgments, every fault |
| `sequential` | do the promises hold for users who wait for the bot? | 2 users, 2 tasks, 2 tokens, 3 judgments, two of them PDFs of one |
| `live` | does every press end? is the proof's invariant right? | 1 user, 2 tasks, 2 tokens, sqlite failing in a selection |
| `generations` | do overlapping refreshes, errors and kills ever show a search anything but one approved snapshot? | 2 processes, 3 generations, 2 documents, 1 search, 1 generation kept |
| `search` | of `CandidateVerification`: is an accepted file one whole judgment, and which event loses which file? Of `Research`: are requests bounded, is the catalog's part kept? Does every candidate and every search end? | all documents of 1 to 3 pages over 4 kinds of page, 4 URLs, 1 redirect, 1 chunk, every row an index of one of these documents may have, every hint; 2 searches, 4 cases, 3 lists of the catalog (one names a case twice, one fills the limit of 3), 2 lists of the web, 2 attempts, 2 syntheses, a clock of 3 with a time to live of 2 |
| `services` | the parts of the next table | below |
| `unsent`, `twice`, `saved`, `vanished`, `stuck` | findings, section 6 | as small as shows it |
| `leftovers` | finding, section 6 | those of `search`, documents of up to 2 pages |

`services` has a variable `part` that says which part runs; the others stay
in their initial states. They share no variable, so running two of them in
one behaviour would multiply states and show nothing more. `search` does the
same with the two halves that need fairness; a half that has not begun has no
fair step enabled, so the fairness of the one excludes no behaviour of the
other.

| Part | Bounds in `services` |
|---|---|
| `CaseSearch` | 2 rounds of up to 2 candidates, 5 proposals of which two share a digest and two a number and court, scores equal and on both sides of threshold and margin, reservations that lapse at any time, 2 displayed |
| `Suitability` | both modes, up to 4 hits of each kind, lengths at each threshold |
| `JudgmentRanges` | up to 4 pages of 5 kinds, a judgment at most 3 pages long |
| `JudicialHeaders` | 6 markers (shared, containing others, neither), up to 3 on a page, 2 labels of 6 kinds at 2 offsets, each in the text or in its reversed lines |
| `ResponseStream` | 2 pieces, 3 items, 1 repetition, a cut after any line |
| `CommentaryWriting` | 3 attempts, every set of defects |
| `StatusTicker` | 3 phases, 2 seconds |
| `Migrations` | all nine scripts, 2 processes |

Why the bounds are enough: every interference in `CaseWorkflow` is between two
tasks, over one session (one user) or over one row of a table (two users); two
tokens are what a selection needs to discard one and keep the other, or a new
search to replace an old one. Tokens that are forgotten are issued again, so
behaviours are not cut short. In `generations` three generations are one
active, one being built or just superseded, and one that failed, which is what
the cleanup has to tell apart when it keeps one; with two documents a snapshot
can be half full. In `search` three pages are a judgment, what follows it and
what precedes it; one chunk and one redirect are the limit, and the step over
it is there; two attempts have a first and a last, and the clock passes the
time to live. Every limit of `services` has values on both
sides of it, but for the later offsets of a case label (3000, 3600 and 4600),
which only the proof covers. Most of the properties of these runs are proved
for all values besides (section 5).

`concurrent` uses a VIEW (`WhatMatters`) that identifies states that differ
only in what no step reads again and no property of that run looks at.
Symmetry is used only in runs without liveness. `services` does not check
for deadlock: its parts come to an end.

**Fairness.** `FairSpec` has weak fairness of every task's own steps (the
event loop runs each ready task, every await of the code is bounded by a
timeout) and strong fairness of getting the lock (`asyncio.Lock` wakes its
waiters first come first served). Presses and faults are not fair.
`CandidateVerification` assumes that the event loop goes on, that the two
deadlines fire (`asyncio.timeout`, `asyncio.wait_for`) and that the database
answers or fails (its busy timeout); nothing is assumed of sources, of
threads or of `pypdf`. `Research` assumes that a request is answered, refused
or times out, and that a stream that is answered ends: the client has an
idle time-out only, so a stream that never ends and never pauses is not
covered. Nothing is assumed of the catalog's processes.

## 4. Properties

* `NothingLeaks`: every file and reservation has a session or a running
  search that owns it; only an aborted search or a restart leaves something.
* `OthersUntouched`: an unexpired reservation or a file disappears only by a
  step of a task of the user whose search made it, or a restart.
* `LedgerExclusive`: no table ever holds one judgment twice.
* `RecordedOnlyAfterDelivery`, `HeldCaseIsSendable`, `DeliveryInOrder` (the
  refinement of `CaseDelivery`): hold for a user who waits for the bot
  (`Sequential`). For impatient users the first does not (run `unsent`).
* `EveryPressEnds`: no task waits for ever.
* `ActiveIsReady`, `NoRace`, `ShownAsApproved`, `SearchSeesOneSnapshot`,
  `BuildAccountedFor`, and `SwitchesWhole` (the refinement of
  `ActiveCatalog`), for every interleaving, error and kill.
* `WithinLimits`, `FilesOwned`, `AcceptedIntact`: no limit is exceeded; a
  download loses its owner only by the total deadline or an unexpected
  exception, an extract only by a stage given up while it cuts, a failing
  write, a failing digest or an unexpected exception; no abandoned thread
  touches an accepted file. That these events may lose a file at all is
  against the documents: `CleanedUp` states what those promise, and the run
  `leftovers` shows it violated.
* `AcceptedIsOneJudgment`, `AcceptedIsWhole`: what a student gets is one
  judgment, and not a part of one, although the source may have replaced the
  file since it was indexed. By a hint of the web search only the first is
  promised: the hint may end early.
* `CandidateEnds`, `SearchEnds`: nothing a source, a thread or the service
  does holds up a search.
* `AskedWithinAttempts`, `ChecksFirst`, `CatalogSurvives`, `ResultInOrder`:
  the paid service is asked no more often than configured and only after a
  check that succeeded; the catalog's candidates are kept and come first; a
  list with candidates of the web names none twice.
* `AutoIsClear`, `ShownAreBest`, `BatchIsSound`: the decision, for any order
  in which cases were verified; two verified cases collide in the indexes only
  if the reservation of the first was too old to count. The documents promise
  that none do (section 6).
* `EstimateIsFinal`, `MoreTextFitsBetter`: the two computations of a score
  agree; reading more of a text, as the workflow does, costs a case at most the
  penalty of the patterns to avoid that it brings, and the case itself only
  when that takes the score under the pass mark.
* `RangesAreOneJudgment`, `RowsAreJudgments`: boundaries. `HeaderStays`: more
  text on a page changes its number only to that of a grammar asked before.
* `AnswerIsWhole`, `ReturnedIsChecked`, `UpIsMigrated`: what the stream, the
  writer and the migrations deliver; of the writer, that a draft with anything
  against it never becomes a file.
* `FinalTextStays`: the final text is replaced at most once, by the request of
  the cancelled ticker, and then nothing more is on its way.

## 5. Proofs

`tlapm` checks every theorem to the last leaf. The theorems hold for all
values of the constants under the named assumptions of the modules: `None` is
no token, judgment, user, handler, number or generation, and limits are
natural numbers (`...Assumption`, next to the constants).

**CaseWorkflow.** `NothingLeaks` is not inductive: that a token a search drops
is in no table and no session needs that a candidate under verification is
known to nobody else (`VettedAlone`), that a verified case is not in a session
yet (`VerifiedAlone`), that a searching user has no session because the lock
is held (`LockHeld`), and that a selection under way discards exactly the
other cases of the session it read, whose files are gone already
(`SelectShape`). `IInv` is their conjunction. Most actions change one task and
no table: `LocalStep` proves the invariant once for all of those and
`LocalActions` lists them; the others have a lemma each. `Inductive` gives
`TypeCorrect` and `LeakFree`. `ImplementsLedger` maps each step to a
transaction of `LedgerSpec` or a stutter; `Exclusive` follows from the
ledger's own invariant. `RecordedAfterDelivery` assumes `Sequential`: then a
handler is alone with its user's session (`Alone`), so the case the session
has selected is the one that was sent, and from where the handler is follows
what was sent (`Delivers`).

`NobodyTakesFromOthers` needs no such assumption. Its invariant `OwnerInv` says
that whatever a session or a task refers to came from a search of its own
user; every action then takes from its own user only (`TakesOwn`), but for
the rows `reserve_case` finds expired and the files a restart finds stale.
`HeldCasesCanBeSent` builds on it (`Reliable`: users wait, nothing expires,
the DELETE of discarded reservations works): what one user holds cannot be
lost to another, so only the steps of that user's one handler matter, and
`SendInv` says what they keep. All three assumptions are needed: drop one and
TLC has a counterexample.
`HandlersDeliverInOrder` is the refinement of `CaseDelivery`: `Stage` reads
the stage of a case off the tables, sessions and tasks, most steps only let
cases go (`SilentStep`), four deliver or record one (`SendingMoves`), and a
reservation holds one (`ReservingMoves`). Expiring reservations do not disturb
it; a failing DELETE does, because the session lists again what was discarded.

**CatalogGenerations.** That the pointer names the one ready generation needs:
a build owns the row that is the lock, and what stands before the promotion is
full, approved and not empty (`BuildOwned`, with `NoRace`); what was ever
active keeps its rows until they are deleted (`Frozen`); what a process marked
for deletion never becomes building or ready again, although other processes
promote between its SELECT and its DELETE (`DoomedStay`); what a search read
is ready, superseded or deleted (`ReadingOld`). `ProcessStep` and `EndsStep`
prove the invariant for steps that store nothing and for those that end a
build. `RefreshesSwitchWhole` maps `Evaluate` to `Offer`, `Promote` to
`Switch`, a `Crash` before the promotion to `Withdraw`, everything else to a
stutter.

**Boundaries.** `JudgmentBoundariesProofs` has what the range operators
return: `LocatedIsOne` and `RefinedIsOne` (a range they find begins with a
header and holds no other), `CutOutIsOne` (a row of the index, cut out, is one
judgment unless a page too short for the indexer has a header). They rest on
the least and greatest element of a set of numbers, from well-founded
induction on the naturals, and on `SameUpToNextStart`: between two starts all
headers name one case. `RangesHoldOneJudgment` and `RowsHoldOneJudgment` (in
`ServicesProofs`) state them for documents of any length.

**CandidateVerification.** The invariant follows a file: a download that
stands before its end has its file (`DownloadOK`), a range was checked before
it is cut (`RangeOK`), the thread and the coroutine agree on the range while
the coroutine waits (`ThreadOK`), the file of the artifact is there
(`FileThere`), the other one is gone while none of the events happened that
may lose it (`OthersGone`, of each file its own events), and what passed
`Check` is one judgment (`FoundOne`). A thread that was given up can only
unlink the download and write or unlink the extract, and by then the candidate
is idle; that is why `AcceptedIntact` needs the whole of it.

`AcceptedStaysWhole` adds `WholeInv`: a catalog row stays what the indexer
stored until its range is taken, and a range that is taken `Reaches` as far as
its judgment. `RowReaches` shows that of every row: what `IndexedEnd` leaves
out before the next start is short, the next start is a page of another case
because of `SameUpToNextStart`, and a page before the row with the same number
would have made the row no start. `LocatedReaches` shows it of a range found
by number: trimming takes decoration only, and nothing with that number comes
before. `Reaches` alone is not the property: a page too short for the indexer
may have a header of another case inside the range; `ReachesWhole` needs that
the extract was validated. That rows come from the indexer and name the file
they were taken from is `RowAssumption`; `CatalogRange` compares that file with
the one downloaded.

**Research.** `Accounted` relates the counters of a search to where it is:
discoveries never exceed the attempt it is in, syntheses are at most
`Syntheses` for each discovery; with the types of the clock (`Clock`) that is
`AskedIsWithinAttempts`. `ChecksComeFirst` uses that `trusted` is 0 or
the time of a check that succeeded. `ResultsAreInOrder` needs what `Merge`
returns for any two lists: the n-th element of the result is the one at the
n-th first place, by the lemmas of `Counting` (`Place` numbers the elements of
a finite set of numbers, without a gap and in order), so a list of the catalog
without repetition keeps its places.

**Migrations.** What is recorded is a prefix of the versions, complete in the
schema; while only one process ever migrated and no script was cut, the
process that runs has done what stands before its place and nothing after it
(`AloneIsClean`, `UncutIsAccounted`). Hence a refused start has one of the two
causes.

**Services.** `OutcomeStaysShown`: only the handler's last request carries the
final text, and no request of the running task survives `Stop` under its name
(`WhoseRequests`, `OneFinal`). `EstimateIsTheScore` and `MoreTextIsNoWorse`
are arithmetic over a typed text, with the cardinality of subsets of the four
parts. `ReturnedFileIsChecked`: a file there is, is the last draft, which had
nothing to refuse. `HeaderOfAPageStays`: what a grammar reads in a text it
reads in every longer one (`ReadingsStay`), because labels are added behind
those there are (`Behind`) and markers only become more (`HitsGrow`). A step
adds to the text or to its reversed lines and leaves the other, so the grammar
that gave the number still gives it unless one before it in the text does, or,
for a page read by its reversed lines, any of the text (`GrammarStays`).
`SearchBatchIsSound`: the rows that count are those behind `lapsed`, and a
case that collides with one of them is not verified. `AutomaticChoiceIsClear`
and `ShownCasesAreBest` rest on what `Ranked` returns for any list: every case
is behind exactly those that beat it or were before it at the same score,
these sets are ordered by inclusion, so every place is taken once and scores
fall from place to place. `AnswersAreWhole`: what the client has is always
what the service said so far (`Reflects`), up to the event on the wire, whose
effect is already part of the invariant (`Reflects(Handled(event), told)`); a
repeated item changes nothing and the whole text counts only when no piece
came. That the joined pieces grow by prefixes is `JoinGrows`, over the partial
results of `FlattenSeq` (`FlattenJoins`).

**Induction.** The library's induction theorems take an operator as a
parameter, which the installed provers do not instantiate. `InductionOverSet`
says the same of a set of numbers and is proved from the least element, so
the lemmas about sorting, merging and joining are inductions over a set that
the proof defines.

Every invariant, action property and refinement that a passing run checks is
the statement of a theorem. Only model-checked: the liveness properties
(`EveryPressEnds`, `CandidateEnds`, `SearchEnds`), which need ENABLED and the
fairness of section 3.

## 6. Where the code and its documents disagree

* `unsent`: `record_sent` records the case that is selected *now*. "Another
  case" pressed while an alternative commentary is written makes it record,
  and delete, a case that was never sent.
* `twice`: `is_case_used` and `reserve_case` are two transactions with minutes
  between them, and the second does not look at `case_history`: a judgment
  recorded and released in between reaches a second user.
* `saved`: the pick button of a completed case leads to "the verified case is
  still saved" although its file was deleted after the first send.
* `vanished`: a refresh can delete the generation a search has just read as
  active, because the cleanup counts a superseded generation's age from when
  it was built; the search finds nothing.
* `stuck`: a refresh that is killed, or fails in the gate or the promotion,
  leaves its lock row, and nothing takes it over.
* `leftovers`: `docs/WORKFLOW.md:58` says that try/finally guarantees a cleanup
  attempt on success and on failure ("يضمن محاولة التنظيف في النجاح والفشل"),
  `docs/SECURITY.md:34-35` promises cleanup in `finally` and a periodic one of
  what is left. The total deadline of a download passes the `except Exception`
  that deletes the file (`acquisition.py:199`). An extract whose write fails,
  whose digest fails after the download was unlinked, or whose stage was given
  up while the thread goes on, is at a path the handler does not know
  (`case_workflow.py:385`). `CleanedUp` is violated by each of these;
  `FilesOwned`, which passes and is proved, says that nothing else loses a
  file. `CleanedUp` leaves out the exceptions that the handler of a candidate
  does not catch (`case_workflow.py:382`), which pass all cleanup too.
  What is left goes when the bot is started again; there is no periodic task.

`PROJECT.json` quotes the lines.

Two more follow from the models without a run of their own:

* A Word file whose own check fails (`assignment_service.py:117`) stays in the
  temporary directory, since `create` raises before it returns the path, and
  the `finally` of the handler has nothing to unlink. That is against the same
  lines, `docs/WORKFLOW.md:58` and `docs/SECURITY.md:34-35`. In
  `CommentaryWriting` it is the state `writer = "raised"` with a `docx`, which
  the last conjunct of `ReturnedIsChecked` permits.
* `reserve_case` deletes reservations older than 30 minutes, also those of the
  search that calls it (`database.py:113`). With the settings of
  `.env.example` a candidate may take 45 seconds to download and 90 in each of
  up to seven stages, so a search of five candidates can take longer, verify a
  judgment twice and offer it beside itself, although `README.md:14` and
  `docs/TEST_PLAN.md:28-29` call the same number and court, or the same
  digest, a duplicate that is prevented. In `CaseSearch` it is
  `ReservationLapses`, which `BatchIsSound` names as the only way there.

Met while modelling, where no document says otherwise:

* A process that dies inside a migration with ADD COLUMN makes every later
  start fail, because the column is there and the version row is not;
  `UpIsMigrated` names the causes of a refused start.
* An edit the cancelled ticker had sent may be carried out after the final
  text and replace it for good; `FinalTextStays` says that it is the only one.
* Metadata that contain a forbidden word make every attempt to write a
  commentary fail, after the drafting was paid for.
* Two PDFs of one judgment whose number or court is not known differ in their
  digest and collide in no index: both may be verified and offered.
* An appeal label of the tax committees outranks the claim label, wherever on
  the page the two are; a later appeal label therefore changes the number of
  a page. So does text that makes any grammar read the page as it is, when its
  number came from the reversed lines, even a less specific grammar than the
  one that gave it. Both are the last disjunct of `HeaderStays`.
* The result of the account check is trusted for its time to live; a balance
  used up meanwhile is met as a refused request (`CatalogSurvives`,
  `SearchEnds` say what is kept then).
* Transport errors of the research are reported as unusable output of the
  model.
* Migration 2 removes duplicate history rows by keys that are not transitive
  (digest, or number and court), so a row may go that only had a common
  duplicate with the one that stays.

## 7. Not modelled

* The text of commentaries, prompts and messages, the DOCX layout: data of an
  external model and of libraries. What is done with a draft is
  `CommentaryWriting`.
* The regular expressions, the normalisation of Arabic text, the two text
  layers of a PDF, the score of the full-text search, the recovery of JSON
  from an answer character by character: pure text matching, without state.
  Their verdicts are inputs of the models.
* DNS, TLS and HTTP: a verdict of the URL, and the replies a source may give.
* Access control, keyboards, menus and course files: one lookup when an
  update arrives, or none; no step of theirs can come between two others.
* Settings, wiring, health check, logging, the maintenance and backup
  scripts. The configuration without a web fallback is not an instance: it is
  the catalog's half of `Research` alone.
* Parser versions in `CatalogGenerations` (all processes run one).
