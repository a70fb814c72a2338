----------------------- MODULE MCCandidateVerification -----------------------
(* Short documents for TLC: full pages with a header of one of two cases   *)
(* or with text only, and a page that carries a header but is too short    *)
(* for the indexer.                                                        *)
EXTENDS CandidateVerification

CONSTANTS n1, n2, MaxLength

FullPage(head) == [head |-> head, length |-> 500, legal |-> TRUE]
Pages == {FullPage(n1), FullPage(n2), FullPage(None),
          [head |-> n2, length |-> 90, legal |-> TRUE]}

Loads(pages, physical, sound) == [pages |-> pages, physical |-> physical, sound |-> sound]
Documents == UNION {[1..n -> Pages] : n \in 1..MaxLength}
Bodies ==
    {Loads(pages, Len(pages), TRUE) : pages \in Documents}
      \cup {Loads(<<FullPage(n1)>>, 1, FALSE), Loads(<<FullPage(n1), FullPage(None)>>, 1, TRUE)}

Urls == {[secure |-> TRUE, approved |-> TRUE, addresses |-> {"public"}],
         [secure |-> TRUE, approved |-> FALSE, addresses |-> {"public"}],
         [secure |-> FALSE, approved |-> TRUE, addresses |-> {"public"}],
         [secure |-> TRUE, approved |-> TRUE, addresses |-> {"public", "private"}]}

(* Rows of a catalog that indexed any of the documents, hints of a web     *)
(* search, plain candidates.                                               *)
Candidates ==
    UNION {{[number |-> row.number, start |-> row.start, end |-> row.end, of |-> body] :
              row \in IndexedRows(body.pages)} : body \in Bodies}
      \cup {candidate \in [number: Number \cup {None}, start: 1..MaxLength,
                            end: 1..MaxLength + 1, of: {None}] :
                candidate.start <= candidate.end}
      \cup {[number |-> n, start |-> 0, end |-> 0, of |-> None] : n \in Number \cup {None}}
===============================================================================
