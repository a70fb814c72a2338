---------------------------- MODULE JudicialHeaders ----------------------------
(***************************************************************************)
(* primary_judicial_header (app/pdf/headers.py): the case number of the    *)
(* judgment whose text begins on a page, by the publication grammars of    *)
(* the sources, the most specific first; and when none reads a number, by  *)
(* the same grammars over the text with each of its lines reversed, as     *)
(* some text layers store Arabic.  The catalog indexer and the bot both    *)
(* find the boundaries of judgments with it.                               *)
(*                                                                         *)
(* Of the text, scanned either way, are kept the markers in it and the     *)
(* labels that a number follows, each with its offset; a label's number is *)
(* named by that offset and may be none (no digit in it, or a single       *)
(* character).  A step adds whole lines further down the page, and with    *)
(* the label of the administrative courts what ends its number.            *)
(***************************************************************************)
EXTENDS Integers, Sequences, FiniteSetsExt

CONSTANTS
    Markers,    \* of the markers below, those that occur
    Offsets,    \* where a label may be
    MaxMarkers, \* bound of the model: markers of a text, both ways together
    MaxLabels   \* bound of the model: labels of a text, both ways together

ASSUME HeadersAssumption ==
    Offsets \subseteq Nat \ {0} /\ MaxMarkers \in Nat /\ MaxLabels \in Nat

VARIABLE sample     \* [Ways -> [markers, labels]]; a label is [kind, at, valid]

headerVars == <<sample>>

Ways == {"direct", "reversed"}
Kinds == {"bog", "crsd", "appeal", "claim", "case", "decision"}
MaxLabelOffset == 4600

(* _marker_present looks for a substring: a marker brings those it holds.  *)
With(marker) == {marker} \cup
    CASE marker = "instrument number" -> {"instrument"}
      [] marker = "confirmation number" -> {"confirmation"}
      [] marker = "administrative appeal" -> {"appeal court"}
      [] marker = "the insurance committee" -> {"insurance committee"}
      [] marker = "first decision number" -> {"decision number"}
      [] marker = "topic class" -> {"class"}
      [] OTHER -> {}

ModernMarkers == {"first instance", "appeal court", "decision number", "serial number"}
LegacyMarkers ==
    {"instrument number", "instrument", "confirmation", "confirmation number", "appeal court",
     "subjects", "sharia basis", "statutory basis", "case summary", "claim summary",
     "subject of claim"}
BogMarkers == {"administrative court", "administrative appeal", "subjects", "document", "reasons"}
CrsdMarkers == {"securities", "securities appeal", "committee decision", "kind of claim", "class"}
IdcMarkers ==
    {"insurance committees", "insurance committee", "the insurance committee", "first decision",
     "first decision number", "kind of document", "topic class"}
GstcMarkers ==
    {"zakat and customs", "tax disputes", "customs committee", "circuit", "appeal circuit",
     "appeal circuit misspelt", "ruling"}
LegacyHeadings == {"subjects", "sharia basis", "statutory basis", "case summary", "claim summary"}
AppealMetadata == {"confirmation", "appeal court"}

HeadersInit == sample = [way \in Ways |-> [markers |-> {}, labels |-> {}]]

Direct == sample["direct"]
Reversed == sample["reversed"]

AddMarker(way) ==
    /\ Cardinality(Direct.markers) + Cardinality(Reversed.markers) < MaxMarkers
    /\ \E marker \in Markers \ sample[way].markers :
          sample' = [sample EXCEPT ![way].markers = @ \cup With(marker)]
AddLabel(way) ==
    /\ Cardinality(Direct.labels) + Cardinality(Reversed.labels) < MaxLabels
    /\ \E kind \in Kinds, at \in Offsets, valid \in BOOLEAN :
          /\ \A other \in sample[way].labels : other.at < at
          /\ sample' = [sample EXCEPT ![way].labels =
                           @ \cup {[kind |-> kind, at |-> at, valid |-> valid]}]

HeadersNext == \E way \in Ways : AddMarker(way) \/ AddLabel(way)
HeadersSpec == HeadersInit /\ [][HeadersNext]_headerVars

-----------------------------------------------------------------------------
(* _primary_scan of a text t; 0 stands for no number.                      *)
Hits(t, those) == Cardinality(t.markers \cap those)
If(condition, number) == IF condition THEN number ELSE 0

(* _first_normalized: the first label of the kind counts, or none does.    *)
FirstOf(t, kind) ==
    LET those == {label \in t.labels : label.kind = kind}
        first == CHOOSE label \in those : \A other \in those : label.at <= other.at
    IN  IF those # {} /\ first.at <= MaxLabelOffset /\ first.valid THEN first.at ELSE 0

(* matches: the first that has a number.                                   *)
CaseOffsets(t) ==
    {label.at : label \in {l \in t.labels : /\ l.kind \in {"case", "claim"}
                                            /\ l.valid /\ l.at <= MaxLabelOffset}}
MutFirstCase(t) == IF CaseOffsets(t) = {} THEN 0 ELSE Max(CaseOffsets(t))
FirstCase(t) == IF CaseOffsets(t) = {} THEN 0 ELSE Min(CaseOffsets(t))

LegacyConfidence(t) ==
    Hits(t, LegacyMarkers) + If("instrument" \in t.markers, 2)
        + If(t.markers \cap LegacyHeadings # {}, 2)
IsLegacy(t) ==
    /\ "instrument" \in t.markers
    /\ t.markers \cap (LegacyHeadings \cup AppealMetadata) # {}
    /\ LegacyConfidence(t) >= 5

(* What each grammar makes of the text, in the order they are asked.       *)
Readings(t) ==
    << If(Hits(t, BogMarkers) >= 2, FirstOf(t, "bog")),
       If(Hits(t, CrsdMarkers) >= 2, FirstOf(t, "crsd")),
       If(Hits(t, GstcMarkers) >= 2, FirstOf(t, "appeal")),
       If(Hits(t, GstcMarkers) >= 2, FirstOf(t, "claim")),
       If("first instance" \in t.markers /\ FirstCase(t) <= 2000, FirstCase(t)),
       If(Hits(t, IdcMarkers) >= 2 /\ FirstCase(t) <= 3000, FirstCase(t)),
       If(Hits(t, CrsdMarkers) >= 2 /\ FirstCase(t) <= 3000, FirstCase(t)),
       If(IsLegacy(t) /\ FirstCase(t) <= 3600, FirstCase(t)),
       If(Hits(t, ModernMarkers \cup LegacyMarkers) >= 3 /\ FirstCase(t) <= 2200, FirstCase(t)),
       If(Hits(t, CrsdMarkers \cup IdcMarkers \cup GstcMarkers) >= 1, FirstOf(t, "decision")) >>

NoHeader == 11
Grammar(t) == Min({g \in 1..10 : Readings(t)[g] # 0} \cup {NoHeader})
NumberIn(t) == IF Grammar(t) = NoHeader THEN 0 ELSE Readings(t)[Grammar(t)]

HeaderNumber == IF Grammar(Direct) # NoHeader THEN NumberIn(Direct) ELSE NumberIn(Reversed)

-----------------------------------------------------------------------------
(* The place of the grammar that gave the number among all that are asked: *)
(* ten of the text, then ten of its reversed lines.                        *)
AskedInTurn ==
    IF Grammar(Direct) # NoHeader THEN Grammar(Direct) ELSE 10 + Grammar(Reversed)

(* The head of a page decides whose judgment it is: whatever follows       *)
(* further down - other cases cited, other courts named - leaves the       *)
(* number as it is, unless a grammar that is asked before the one that     *)
(* gave it now reads one too.  Of a page that was read through its         *)
(* reversed lines that may be any grammar over the text itself.            *)
HeaderStays ==
    [][HeaderNumber # 0 =>
          \/ AskedInTurn' = AskedInTurn /\ HeaderNumber' = HeaderNumber
          \/ AskedInTurn' < AskedInTurn]_headerVars
===============================================================================
