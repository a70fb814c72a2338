------------------------------- MODULE Research -------------------------------
(***************************************************************************)
(* A search for candidates as main.py wires it: the official catalog first *)
(* (CatalogFirstResearchProvider in app/catalog/provider.py), web research *)
(* as a fallback (DeepSeekResearchProvider in app/research/deepseek.py),   *)
(* behind a check of the account (RobustResearchProvider in                *)
(* app/research/robust.py) whose result all searches share for some time.  *)
(*                                                                         *)
(* A step is what a search does between two awaits.  An answer of the      *)
(* service is one of the kinds the code tells apart: an HTTP error or a    *)
(* broken stream, a transport error or time-out, or a response with or     *)
(* without web searches whose text is missing, unreadable, readable but    *)
(* without a valid candidate, or good.                                     *)
(***************************************************************************)
EXTENDS Integers, FiniteSets, SequencesExt

CONSTANTS
    Searcher,       \* users who search at the same time
    Case,           \* candidates; the same case and PDF is the same candidate
    Limit,          \* settings.search_candidate_limit
    MinCatalog,     \* settings.catalog_min_candidates_before_fallback
    Attempts,       \* settings.deepseek_research_attempts
    Syntheses,      \* settings.deepseek_synthesis_attempts
    Ttl,            \* preflight_ttl_seconds
    Listed,         \* what a catalog search may return: sequences of cases
    Found,          \* what web research may return
    MaxTime         \* bound of the model: the clock stops here

ASSUME ResearchAssumption ==
    /\ {Limit, MinCatalog, Attempts, Syntheses} \subseteq Nat \ {0}
    /\ {Ttl, MaxTime} \subseteq Nat
    /\ Listed \subseteq Seq(Case) /\ Found \subseteq Seq(Case)

VARIABLES
    now,        \* time.monotonic()
    trusted,    \* _preflight_ok_at
    account,    \* what of the account is in order
    search,     \* the local variables of each search_cases
    passed,     \* observed: when a check of the account succeeded
    asked       \* observed: the requests of each search

researchVars == <<now, trusted, account, search, passed, asked>>

Smaller(a, b) == IF a < b THEN a ELSE b

Sound == {"balance", "model"}
NoSearch == [at |-> "idle", local |-> <<>>, result |-> <<>>, attempt |-> 0, synthesis |-> 0]
NothingAsked == [discovery |-> 0, synthesis |-> 0, refused |-> FALSE]

ResearchInit ==
    /\ now = 1 /\ trusted = 0 /\ account = Sound
    /\ search = [s \in Searcher |-> NoSearch]
    /\ passed = {}
    /\ asked = [s \in Searcher |-> NothingAsked]

At(s, place) == search[s].at = place
MovesTo(s, place) == search' = [search EXCEPT ![s].at = place]

(* Both lists in order, each candidate where it is first, up to the limit. *)
FirstPlaces(both) == {i \in DOMAIN both : \A j \in 1..i - 1 : both[j] # both[i]}
PlaceOf(n, places) == CHOOSE i \in places : Cardinality({j \in places : j < i}) = n - 1
MutMerge(local, remote) == SubSeq(local \o remote, 1, Smaller(Limit, Len(local \o remote)))
Merge(local, remote) ==
    LET both == local \o remote
        first == FirstPlaces(both)
    IN  [n \in 1..Smaller(Limit, Cardinality(first)) |-> both[PlaceOf(n, first)]]
UpToLimit(local) == SubSeq(local, 1, Smaller(Limit, Len(local)))

Returns(s, result) == search' = [search EXCEPT ![s].at = "done", ![s].result = result]

(* "except Exception" of the fallback: the catalog's own candidates do.    *)
MutWebFails(s) == MovesTo(s, "failed")
WebFails(s) ==
    IF search[s].local # <<>> THEN Returns(s, UpToLimit(search[s].local)) ELSE MovesTo(s, "failed")

(* An HTTP error or a broken stream is not caught in the attempts: it ends *)
(* the web research.                                                       *)
Refused(s) ==
    /\ WebFails(s)
    /\ asked' = [asked EXCEPT ![s].refused = TRUE]

(* RequestError, ValueError: the next attempt, after a pause, if any.      *)
MutAttemptFails(s) == MovesTo(s, "discover")
AttemptFails(s) ==
    IF search[s].attempt < Attempts
    THEN search' = [search EXCEPT ![s].at = "discover", ![s].attempt = @ + 1]
    ELSE WebFails(s)

-----------------------------------------------------------------------------

AskCatalog(s) ==
    /\ At(s, "idle")
    /\ \/ \E local \in Listed :
             IF Len(local) >= Smaller(Limit, MinCatalog)
             THEN search' = [search EXCEPT ![s] = [NoSearch EXCEPT !.at = "done", !.local = local,
                                                                   !.result = UpToLimit(local)]]
             ELSE search' = [search EXCEPT ![s] = [NoSearch EXCEPT !.at = "preflight",
                                                                   !.local = local]]
       \/ MovesTo(s, "failed")
    /\ UNCHANGED <<now, trusted, account, passed, asked>>

StartAttempts(s) == search' = [search EXCEPT ![s].at = "discover", ![s].attempt = 1]

Trusts == trusted # 0 /\ now - trusted < Ttl
Preflight(s) ==
    /\ At(s, "preflight")
    /\ IF Trusts THEN StartAttempts(s) ELSE MovesTo(s, "balance")
    /\ UNCHANGED <<now, trusted, account, passed, asked>>

MutCheckBalance(s) ==
    /\ At(s, "balance")
    /\ "balance" \in account /\ MovesTo(s, "model")
    /\ UNCHANGED <<now, trusted, account, passed, asked>>
CheckBalance(s) ==
    /\ At(s, "balance")
    /\ \/ "balance" \in account /\ MovesTo(s, "model")
       \/ WebFails(s)
    /\ UNCHANGED <<now, trusted, account, passed, asked>>

MutCheckModel(s) ==
    /\ At(s, "model")
    /\ trusted' = now
    /\ \/ /\ "model" \in account
          /\ StartAttempts(s)
          /\ passed' = passed \cup {now}
       \/ WebFails(s) /\ UNCHANGED passed
    /\ UNCHANGED <<now, account, asked>>
CheckModel(s) ==
    /\ At(s, "model")
    /\ \/ /\ "model" \in account
          /\ StartAttempts(s)
          /\ trusted' = now
          /\ passed' = passed \cup {now}
       \/ WebFails(s) /\ UNCHANGED <<trusted, passed>>
    /\ UNCHANGED <<now, account, asked>>

(* Stage 1 searches the web; text without a search is taken if it is good. *)
Discover(s) ==
    /\ At(s, "discover")
    /\ \/ Refused(s)
       \/ /\ asked' = [asked EXCEPT ![s].discovery = @ + 1]
          /\ \/ AttemptFails(s)
             \/ /\ account = Sound
                /\ \/ search' = [search EXCEPT ![s].at = "synthesize", ![s].synthesis = 1]
                   \/ \E remote \in Found : Returns(s, Merge(search[s].local, remote))
    /\ UNCHANGED <<now, trusted, account, passed>>

(* Stage 2 puts the same results in order, again if its text is missing or *)
(* unreadable; without a valid candidate the search is repeated instead.   *)
Synthesize(s) ==
    /\ At(s, "synthesize")
    /\ \/ Refused(s)
       \/ /\ asked' = [asked EXCEPT ![s].synthesis = @ + 1]
          /\ \/ AttemptFails(s)
             \/ /\ account = Sound
                /\ \/ /\ search[s].synthesis < Syntheses
                      /\ search' = [search EXCEPT ![s].synthesis = @ + 1]
                   \/ \E remote \in Found : Returns(s, Merge(search[s].local, remote))
    /\ UNCHANGED <<now, trusted, account, passed>>

(* prepare() takes the result or the exception.                            *)
Finish(s) ==
    /\ search[s].at \in {"done", "failed"}
    /\ search' = [search EXCEPT ![s] = NoSearch]
    /\ asked' = [asked EXCEPT ![s] = NothingAsked]
    /\ UNCHANGED <<now, trusted, account, passed>>

Tick ==
    /\ now < MaxTime
    /\ now' = now + 1
    /\ UNCHANGED <<trusted, account, search, passed, asked>>

AccountChanges ==
    /\ account' \in SUBSET Sound /\ account' # account
    /\ UNCHANGED <<now, trusted, search, passed, asked>>

SearchStep(s) ==
    \/ AskCatalog(s) \/ Preflight(s) \/ CheckBalance(s) \/ CheckModel(s)
    \/ Discover(s) \/ Synthesize(s) \/ Finish(s)

ResearchNext == Tick \/ AccountChanges \/ \E s \in Searcher : SearchStep(s)

(* A search goes on: every request of it has time-outs, and a stream that  *)
(* is answered comes to an end.                                            *)
ResearchFairness ==
    \A s \in Searcher :
        WF_researchVars(Preflight(s) \/ CheckBalance(s) \/ CheckModel(s)
                          \/ Discover(s) \/ Synthesize(s))

ResearchSpec == ResearchInit /\ [][ResearchNext]_researchVars /\ ResearchFairness

-----------------------------------------------------------------------------
Places == {"idle", "preflight", "balance", "model", "discover", "synthesize", "done", "failed"}

(* How often the service was asked.                                        *)
WithinAttempts ==
    \A s \in Searcher :
        /\ asked[s].discovery <= search[s].attempt \/ search[s].at = "idle"
        /\ asked[s].discovery <= Attempts
        /\ asked[s].synthesis <= asked[s].discovery * Syntheses
        /\ asked[s].refused => search[s].at \in {"done", "failed"}

(* Types, and that the searches of the web, the expensive part, keep to    *)
(* the attempts: reorganising their results never repeats one, and after   *)
(* an answer that says no (an HTTP error, a broken stream) the service is  *)
(* not asked again.                                                        *)
AskedWithinAttempts ==
    /\ search \in [Searcher -> [at: Places, local: Seq(Case), result: Seq(Case),
                                attempt: 0..Attempts, synthesis: 0..Syntheses]]
    /\ trusted \in 0..now /\ passed \subseteq 1..now
    /\ WithinAttempts

(* A search of the web starts only shortly after a check of the account    *)
(* that succeeded, its own or that of another search: not after a check    *)
(* that failed half-way, and not because the clock still is near zero.     *)
ChecksFirst ==
    [][\A s \in Searcher :
          search'[s].at = "discover" /\ search[s].at # "discover" /\ search'[s].attempt = 1 =>
              \E t \in passed' : now - t < Ttl \/ t = now]_researchVars

(* Whatever goes wrong with the web, a search that found something in the  *)
(* catalog returns it; it fails only with nothing in its hands.            *)
CatalogSurvives == \A s \in Searcher : At(s, "failed") => search[s].local = <<>>

(* The result keeps to the limit and has every candidate of the catalog    *)
(* within it, first and in the catalog's order if that names none twice;   *)
(* with candidates of the web in it, it names none twice in any case; the  *)
(* web is asked only when the catalog had too few.                         *)
InOrder(local, result) ==
    /\ Len(result) <= Limit
    /\ ToSet(UpToLimit(local)) \subseteq ToSet(result)
    /\ IsInjective(local) => IsPrefix(UpToLimit(local), result)
    /\ IsInjective(result) \/ result = UpToLimit(local)

ResultInOrder ==
    \A s \in Searcher :
        /\ At(s, "done") => InOrder(search[s].local, search[s].result)
        /\ asked[s].discovery > 0 /\ ~At(s, "idle") =>
              Len(search[s].local) < Smaller(Limit, MinCatalog)

(* Every search ends, with candidates or with an error.                    *)
SearchEnds == \A s \in Searcher : At(s, "preflight") ~> search[s].at \in {"done", "failed"}
===============================================================================
