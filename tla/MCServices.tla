------------------------------ MODULE MCServices ------------------------------
(* The parts of the system that share no state with one another, each on   *)
(* its own small instance: 'part' is the one that runs, the others stay in *)
(* their initial state.                                                    *)
EXTENDS CaseSearch, Suitability, JudgmentRanges, JudicialHeaders,
        ResponseStream, CommentaryWriting, StatusTicker, Migrations

CONSTANTS k1, n1, n2

VARIABLE part

vars == <<part, caseVars, suitabilityVars, pages, headerVars, streamVars, writingVars,
          tickerVars, migrationVars>>

(* Five claimed identities: two of them lead to one file, a third to       *)
(* another PDF of the same case; scores fall on both sides of the          *)
(* threshold and of the margin, and two are equal.                         *)
Proposals ==
    {[identity |-> 1, sha |-> 1, key |-> k1, score |-> 90],
     [identity |-> 2, sha |-> 1, key |-> NoKey, score |-> 80],
     [identity |-> 3, sha |-> 2, key |-> k1, score |-> 86],
     [identity |-> 4, sha |-> 3, key |-> NoKey, score |-> 86],
     [identity |-> 5, sha |-> 4, key |-> NoKey, score |-> 85]}

PagesToAppend ==
    {[head |-> n1, length |-> 900, legal |-> TRUE],
     [head |-> n2, length |-> 900, legal |-> TRUE],
     [head |-> n1, length |-> 90, legal |-> TRUE],
     [head |-> None, length |-> 900, legal |-> TRUE],
     [head |-> None, length |-> 150, legal |-> FALSE]}

TextPieces == <<<<"a">>, <<"b">>>>
ResponseItems == <<"call 1", "call 2", "message">>

Init ==
    /\ part \in {"search", "suitability", "ranges", "headers", "stream", "writing",
                 "ticker", "migrations"}
    /\ CaseInit /\ SuitabilityInit /\ RangesInit /\ HeadersInit
    /\ StreamInit /\ WritingInit /\ TickerInit /\ MigrationsInit
    /\ part = "suitability" \/ mode = "direct"
    /\ part = "stream" \/ pieces
    /\ part = "writing" \/ judgment = [numbered |-> TRUE, tainted |-> FALSE]

SearchRuns == part = "search" /\ CaseNext
    /\ UNCHANGED <<part, suitabilityVars, pages, headerVars, streamVars, writingVars, tickerVars, migrationVars>>
SuitabilityRuns == part = "suitability" /\ Extend
    /\ UNCHANGED <<part, caseVars, pages, headerVars, streamVars, writingVars, tickerVars, migrationVars>>
RangesRun == part = "ranges" /\ AppendPage
    /\ UNCHANGED <<part, caseVars, suitabilityVars, headerVars, streamVars, writingVars, tickerVars, migrationVars>>
HeadersRun == part = "headers" /\ HeadersNext
    /\ UNCHANGED <<part, caseVars, suitabilityVars, pages, streamVars, writingVars, tickerVars, migrationVars>>
StreamRuns == part = "stream" /\ StreamNext
    /\ UNCHANGED <<part, caseVars, suitabilityVars, pages, headerVars, writingVars, tickerVars, migrationVars>>
WritingRuns == part = "writing" /\ WritingNext
    /\ UNCHANGED <<part, caseVars, suitabilityVars, pages, headerVars, streamVars, tickerVars, migrationVars>>
TickerRuns == part = "ticker" /\ TickerNext
    /\ UNCHANGED <<part, caseVars, suitabilityVars, pages, headerVars, streamVars, writingVars, migrationVars>>
MigrationsRun == part = "migrations" /\ MigrationsNext
    /\ UNCHANGED <<part, caseVars, suitabilityVars, pages, headerVars, streamVars, writingVars, tickerVars>>

Next ==
    \/ SearchRuns \/ SuitabilityRuns \/ RangesRun \/ HeadersRun
    \/ StreamRuns \/ WritingRuns \/ TickerRuns \/ MigrationsRun

Spec == Init /\ [][Next]_vars
===============================================================================
