---------------------------- MODULE JudgmentRanges ----------------------------
(***************************************************************************)
(* The page ranges of JudgmentBoundaries on a compilation that is built up *)
(* page by page: what the indexer stores of it, and what the bot finds by  *)
(* a case number or from a hint.                                           *)
(***************************************************************************)
EXTENDS JudgmentBoundaries

CONSTANTS
    SomePages,      \* the pages a compilation is made of
    MaxPages        \* bound of the model: its length

ASSUME SomePagesAssumption == SomePages \subseteq Page /\ MaxPages \in Nat

VARIABLE pages      \* extract_pdf_page_texts of the file

RangesInit == pages = <<>>
AppendPage ==
    /\ Len(pages) < MaxPages
    /\ \E page \in SomePages : pages' = Append(pages, page)

RangesSpec == RangesInit /\ [][AppendPage]_pages

-----------------------------------------------------------------------------
(* Whatever pages a web search names and whatever number, the pages the    *)
(* bot cuts out begin with a judicial header and hold no page with the     *)
(* header of another judgment; looked up by number, they have that number. *)
RangesAreOneJudgment ==
    /\ \A number \in Number \cup {None} :
          LET range == LocatedRange(pages, number) IN
          /\ HoldsOneJudgment(pages, range)
          /\ range # NoRange => pages[range.start].head = number
    /\ \A first, last \in 0..Len(pages) + 1, expected \in Number \cup {None} :
          HoldsOneJudgment(pages, RefinedRange(pages, first, last, expected))

(* The judgments of an index do not overlap, and the bot accepts the file  *)
(* it cuts out by a row, unless a page too short for the indexer has a     *)
(* header.                                                                 *)
RowsAreJudgments ==
    \A row \in IndexedRows(pages) :
        /\ row.start <= row.end /\ row.end <= Len(pages)
        /\ \A other \in IndexedRows(pages) \ {row} :
              row.end < other.start \/ other.end < row.start
        /\ \/ \E i \in row.start..row.end : HasHead(pages[i]) /\ pages[i].length < 100
           \/ OneJudgment(SubSeq(pages, row.start, row.end), row.number)
===============================================================================
