---------------------------- MODULE ResponseStream ----------------------------
(***************************************************************************)
(* DeepSeekResponsesClient.create (app/deepseek/client.py): a response is  *)
(* put together from the lines of a stream of server-sent events.          *)
(*                                                                         *)
(* The service sends the pieces of a text, the whole text, each completed  *)
(* item and at last the response.  A proxy may repeat an item, leave out   *)
(* the pieces or the last event, put an event's data on two lines, and     *)
(* end the stream after any line.                                          *)
(***************************************************************************)
EXTENDS Integers, SequencesExt

CONSTANTS
    Pieces,         \* the pieces of the text of the response, each a list of words
    Items,          \* the ids of its items, in order; the message is the last
    MaxRepeats      \* bound of the model: repeated items

ASSUME StreamAssumption ==
    /\ Pieces \in Seq(Seq(STRING))
    /\ Items \in Seq(STRING) /\ Items # <<>> /\ IsInjective(Items)
    /\ MaxRepeats \in Nat

VARIABLES
    pieces,     \* whether the proxy lets the pieces through
    told,       \* what the service has sent: [pieces, done, items, ended]
    repeats,    \* items sent twice so far
    event,      \* the event on the wire
    lines,      \* its lines still to come
    pending,    \* how many lines are in data_lines
    client,     \* "reading", "returned" or "raised"
    got         \* [chunks, items, final]: text_chunks, output_items, final_response

streamVars == <<pieces, told, repeats, event, lines, pending, client, got>>

Whole == FlattenSeq(Pieces)

StreamInit ==
    /\ pieces \in BOOLEAN
    /\ told = [pieces |-> 0, done |-> FALSE, items |-> 0, ended |-> FALSE]
    /\ repeats = 0
    /\ event = [type |-> "none"] /\ lines = <<>> /\ pending = 0
    /\ client = "reading"
    /\ got = [chunks |-> <<>>, items |-> <<>>, final |-> FALSE]

(* "event:", "data:" once or twice, and the empty line that ends it.       *)
Sends(e) ==
    /\ client = "reading" /\ lines = <<>>
    /\ event' = e
    /\ lines' \in {<<"event", "data", "blank">>, <<"event", "data", "data", "blank">>}
    /\ UNCHANGED <<pieces, pending, client, got>>

SendPiece ==
    /\ pieces /\ told.pieces < Len(Pieces) /\ told.items = Len(Items) - 1
    /\ told' = [told EXCEPT !.pieces = @ + 1]
    /\ Sends([type |-> "delta", delta |-> Pieces[told.pieces + 1]])
    /\ UNCHANGED repeats

SendText ==
    /\ ~told.done /\ told.items = Len(Items) - 1
    /\ pieces => told.pieces = Len(Pieces)
    /\ told' = [told EXCEPT !.done = TRUE]
    /\ Sends([type |-> "text", text |-> Whole])
    /\ UNCHANGED repeats

SendItem ==
    /\ told.items < Len(Items)
    /\ told.items = Len(Items) - 1 => told.done
    /\ told' = [told EXCEPT !.items = @ + 1]
    /\ Sends([type |-> "item", item |-> Items[told.items + 1]])
    /\ UNCHANGED repeats

RepeatItem ==
    /\ repeats < MaxRepeats /\ ~told.ended
    /\ repeats' = repeats + 1
    /\ \E i \in 1..told.items : Sends([type |-> "item", item |-> Items[i]])
    /\ UNCHANGED told

SendResponse ==
    /\ told.items = Len(Items) /\ ~told.ended
    /\ told' = [told EXCEPT !.ended = TRUE]
    /\ Sends([type |-> "response"])
    /\ UNCHANGED repeats

-----------------------------------------------------------------------------
(* flush_event: the whole text counts only if it is not empty and no piece *)
(* of it came, an item only if none with its id did.                       *)
MutHandled(e) ==
    CASE e.type = "delta" -> [got EXCEPT !.chunks = Append(@, e.delta)]
      [] e.type = "text" -> [got EXCEPT !.chunks = Append(@, e.text)]
      [] e.type = "item" /\ ~Contains(got.items, e.item) -> [got EXCEPT !.items = Append(@, e.item)]
      [] e.type = "response" -> [got EXCEPT !.final = TRUE]
      [] OTHER -> got
Handled(e) ==
    CASE e.type = "delta" -> [got EXCEPT !.chunks = Append(@, e.delta)]
      [] e.type = "text" /\ e.text # <<>> /\ got.chunks = <<>> -> [got EXCEPT !.chunks = <<e.text>>]
      [] e.type = "item" /\ ~Contains(got.items, e.item) -> [got EXCEPT !.items = Append(@, e.item)]
      [] e.type = "response" -> [got EXCEPT !.final = TRUE]
      [] OTHER -> got
Flushed == IF pending = 0 THEN got ELSE Handled(event)

ReadLine ==
    /\ client = "reading" /\ lines # <<>>
    /\ lines' = Tail(lines)
    /\ \/ Head(lines) = "event" /\ UNCHANGED <<pending, got>>
       \/ Head(lines) = "data" /\ pending' = pending + 1 /\ UNCHANGED got
       \/ Head(lines) = "blank" /\ got' = Flushed /\ pending' = 0
    /\ UNCHANGED <<pieces, told, repeats, event, client>>

(* The end, in order or not: what is left is flushed, unless it is not     *)
(* JSON because a part of it is missing; then the response is returned, or *)
(* what came of it, or it raises.                                          *)
StreamEnds ==
    /\ client = "reading"
    /\ \/ client' = "raised" /\ UNCHANGED <<pending, got>>
       \/ /\ pending > 0 => ~Contains(lines, "data")
          /\ got' = Flushed /\ pending' = 0
          /\ client' = IF Flushed.final \/ Flushed.items # <<>> \/ Flushed.chunks # <<>>
                       THEN "returned" ELSE "raised"
    /\ UNCHANGED <<pieces, told, repeats, event, lines>>

StreamNext ==
    \/ SendPiece \/ SendText \/ SendItem \/ RepeatItem \/ SendResponse
    \/ ReadLine \/ StreamEnds

StreamSpec == StreamInit /\ [][StreamNext]_streamVars

-----------------------------------------------------------------------------
ReturnedText == IF got.final THEN Whole ELSE FlattenSeq(got.chunks)

(* A response that is returned has every item once and in order, as far as *)
(* they came, and of the text a beginning, never a part of it twice; the   *)
(* text is whole when the message came, whatever the proxy left out, and   *)
(* the response is not empty, unless the service sent an empty piece.      *)
AnswerIsWhole ==
    client = "returned" =>
        /\ IsPrefix(got.items, Items)
        /\ IsPrefix(ReturnedText, Whole)
        /\ got.final \/ Contains(got.items, Last(Items)) => ReturnedText = Whole
        /\ got.final => got.items = Items
        /\ (\A i \in DOMAIN Pieces : Pieces[i] # <<>>) => got.items # <<>> \/ ReturnedText # <<>>
===============================================================================
