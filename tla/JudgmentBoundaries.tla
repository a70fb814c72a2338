-------------------------- MODULE JudgmentBoundaries --------------------------
(***************************************************************************)
(* Where one judgment begins and ends inside an official compilation:      *)
(* app/pdf/compilation.py, which the bot runs on a downloaded PDF, and     *)
(* CatalogIndexer, which ran earlier on the same or an older file.         *)
(*                                                                         *)
(* A document is the sequence of its pages.  Of a page is kept the case    *)
(* number of the primary judicial header found on it (or None), the length *)
(* of its text and whether the text has a word of judgments in it; how a   *)
(* header is recognised is JudicialHeaders.  Pages are numbered from 1.    *)
(***************************************************************************)
EXTENDS Integers, Sequences, FiniteSetsExt

CONSTANTS
    Number,         \* case numbers, normalised
    None,           \* no case number, no digest, no file
    MaxCasePages,   \* max_case_pages of refine_ and locate_case_page_range
    MinCaseChars    \* min_case_text_chars of the manifest

ASSUME NoneIsNoNumber == None \notin Number
ASSUME PagesAssumption == MaxCasePages \in Nat \ {0}

Page == [head: Number \cup {None}, length: Nat, legal: BOOLEAN]
PageRange == [start: Int, end: Int]
NoRange == [start |-> 0, end |-> 0]

HasHead(page) == page.head # None

(* _is_decorative_page: nothing is lost when it is cut off at the end.     *)
Decorative(page) == page.length < 220 \/ (page.length < 420 /\ ~page.legal)

(* primary_case_numbers_in_pdf, as a set.                                  *)
PrimaryNumbers(pages) == {pages[i].head : i \in DOMAIN pages} \ {None}

-----------------------------------------------------------------------------
(* The catalog indexer.                                                    *)

(* Pages _case_starts looks at, and the last of them before page i.        *)
Headed(pages) == {i \in DOMAIN pages : pages[i].length >= 100 /\ HasHead(pages[i])}
HeadedBefore(pages, i) == {j \in Headed(pages) : j < i}

CaseStarts(pages) ==
    {i \in Headed(pages) :
        HeadedBefore(pages, i) # {} =>
            pages[Max(HeadedBefore(pages, i))].head # pages[i].head}

(* Up to the page before the next start, without the short pages at the    *)
(* end; the first page stays however short it is.                          *)
MutIndexedEnd(pages, start) ==
    LET next == {i \in CaseStarts(pages) : i > start}
        last == IF next = {} THEN Len(pages) ELSE Min(next)
    IN  Max({i \in start..last : i = start \/ pages[i].length >= 120})
IndexedEnd(pages, start) ==
    LET next == {i \in CaseStarts(pages) : i > start}
        last == IF next = {} THEN Len(pages) ELSE Min(next) - 1
    IN  Max({i \in start..last : i = start \/ pages[i].length >= 120})

TextLength(pages, first, last) ==
    MapThenSumSet(LAMBDA i : pages[i].length, first..last)

(* The rows _index_document stores for one collection.                     *)
IndexedRows(pages) ==
    {[start |-> s, end |-> IndexedEnd(pages, s), number |-> pages[s].head] :
        s \in {i \in CaseStarts(pages) :
                  TextLength(pages, i, IndexedEnd(pages, i)) >= MinCaseChars}}

-----------------------------------------------------------------------------
(* The bot.                                                                *)

(* while end > start and the page at the end is decorative: one back.      *)
Trimmed(pages, start, end) ==
    IF end < start
    THEN end
    ELSE Max({i \in start..end : i = start \/ ~Decorative(pages[i])})

(* min(..., key=distance): the nearer one, the earlier of two as near.     *)
Distance(i, j) == IF i < j THEN j - i ELSE i - j
Nearest(S, hint) ==
    CHOOSE i \in S : \A j \in S :
        \/ Distance(i, hint) < Distance(j, hint)
        \/ Distance(i, hint) = Distance(j, hint) /\ i <= j

(* The pages around a hint that refine_case_page_range searches.           *)
HintWindow(pages, first, last) ==
    Max({1, first - 2}) ..
        Min({Len(pages), Max({last + 3, first + MaxCasePages + 2})})

RefinedStart(pages, headers, first, last, expected) ==
    LET named == {i \in headers : pages[i].head = expected}
        hinted == {i \in headers : first <= i /\ i <= last}
    IN  IF expected # None /\ named # {}
        THEN Min(named)
        ELSE Nearest(IF hinted # {} THEN hinted ELSE headers, first)

MutRefinedEnd(pages, headers, start, last) ==
    LET later == {i \in headers : i > start /\ pages[i].head # pages[start].head}
    IN  IF later # {} THEN Min(later) ELSE Min({Len(pages), start + MaxCasePages - 1, last})
RefinedEnd(pages, headers, start, last) ==
    LET later == {i \in headers : i > start /\ pages[i].head # pages[start].head}
    IN  IF later # {}
        THEN Min(later) - 1
        ELSE Min({Len(pages), start + MaxCasePages - 1, last})

(* refine_case_page_range; NoRange when it raises.  The range ends before  *)
(* it starts when the header it chose lies behind the hint and nothing     *)
(* follows: extract_page_range refuses that.                               *)
RefinedRange(pages, first, hintEnd, expected) ==
    LET last == Min({hintEnd, Len(pages)})
        headers == {i \in HintWindow(pages, first, last) : HasHead(pages[i])}
        start == RefinedStart(pages, headers, first, last, expected)
    IN  IF first < 1 \/ hintEnd < first \/ first > Len(pages) \/ headers = {}
        THEN NoRange
        ELSE [start |-> start,
              end |-> Trimmed(pages, start, RefinedEnd(pages, headers, start, last))]

(* locate_case_page_range; NoRange when it raises.                         *)
LocatedRange(pages, number) ==
    LET found == {i \in DOMAIN pages : pages[i].head = number}
        start == Min(found)
        hardEnd == Min({Len(pages), start + MaxCasePages - 1})
        other == {i \in start + 1 .. hardEnd : pages[i].head \notin {None, number}}
        end == IF other = {} THEN hardEnd ELSE Min(other) - 1
    IN  IF number = None \/ found = {}
        THEN NoRange
        ELSE [start |-> start, end |-> Trimmed(pages, start, end)]

(* validate_extracted_judgment_pdf does not raise.                         *)
OneJudgment(pages, expected) ==
    /\ pages # <<>>
    /\ HasHead(pages[1])
    /\ expected # None => pages[1].head = expected
    /\ \A i \in DOMAIN pages : pages[i].head \in {None, pages[1].head}

(* verify_case_number_in_pdf of a file with primary headers: all of them,  *)
(* and one of them on the first page.                                      *)
HeadersConfirm(pages, number) ==
    pages[1].head = number /\ PrimaryNumbers(pages) = {number}

-----------------------------------------------------------------------------
(* What the ranges are compared with: the judgment that begins on a page   *)
(* goes on until a page with the header of another one.                    *)

OtherAfter(pages, start) ==
    {i \in start + 1 .. Len(pages) : pages[i].head \notin {None, pages[start].head}}

SpanEnd(pages, start) ==
    IF OtherAfter(pages, start) = {}
    THEN Len(pages)
    ELSE Min(OtherAfter(pages, start)) - 1

(* The pages are those of one judgment from its first on, and what is cut  *)
(* off at its end is decorative, or beyond the page limit.                 *)
WholeJudgment(pages, start, end) ==
    /\ HasHead(pages[start])
    /\ end \in start..SpanEnd(pages, start)
    /\ \A i \in end + 1 .. SpanEnd(pages, start) :
          Decorative(pages[i]) \/ i >= start + MaxCasePages

(* The range, unless it is none, begins with a header and no page of it    *)
(* has the header of another judgment.                                     *)
HoldsOneJudgment(pages, range) ==
    range # NoRange /\ range.start <= range.end =>
        /\ 1 <= range.start /\ range.end <= Len(pages)
        /\ HasHead(pages[range.start])
        /\ \A i \in range.start..range.end :
              pages[i].head \in {None, pages[range.start].head}

(* No page before it belongs to the same judgment, but for decoration.     *)
BeginsIt(pages, start) ==
    \A i \in 1..start - 1 :
        pages[i].head = pages[start].head =>
            Decorative(pages[i]) \/ start \notin i..SpanEnd(pages, i)
===============================================================================
