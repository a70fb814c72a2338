---------------------------- MODULE PdfAcquisition ----------------------------
(***************************************************************************)
(* PdfAcquisitionService.acquire (app/pdf/acquisition.py) with the URL     *)
(* checks of security.py and the file checks of validation.py: one         *)
(* download at a time, from the first request to a file that passed, or to *)
(* an exception.                                                           *)
(*                                                                         *)
(* One action is what the coroutine does between two awaits.  The total    *)
(* deadline (asyncio.timeout) may cut in at any of them: it cancels the    *)
(* coroutine, and CancelledError passes the 'except Exception' that        *)
(* deletes the file.                                                       *)
(***************************************************************************)
EXTENDS Naturals, Sequences

CONSTANTS
    Url,            \* what the URL checks tell apart
    Body,           \* PDFs a source may serve: see Loadable
    MaxRedirects,   \* settings.pdf_max_redirects
    MaxBytes,       \* settings.pdf_max_bytes, in chunks
    MaxPages        \* settings.pdf_max_pages

ASSUME UrlAssumption ==
    Url \subseteq [secure: BOOLEAN, approved: BOOLEAN, addresses: SUBSET {"public", "private"}]
ASSUME LimitsAssumption == MaxRedirects \in Nat /\ MaxBytes \in Nat /\ MaxPages \in Nat

VARIABLES
    download,   \* the local variables of acquire, and where it is suspended
    disk,       \* the files of this candidate: "raw" here, "extract" later
    stranded,   \* observed: why a file may be left that nobody will delete
    sent        \* observed: the URLs a request was sent to, in order

fetching == <<download, disk, stranded, sent>>

(* validate_pdf_url: HTTPS with a host, without credentials and on the     *)
(* standard port; an approved source; and every address it resolves to,    *)
(* at least one, is public.                                                *)
ValidUrl(url) ==
    /\ url.secure
    /\ url.approved
    /\ url.addresses # {}
    /\ "private" \notin url.addresses

(* validate_pdf_file: starts with %PDF-, is not encrypted, parses, has     *)
(* pages and not too many.                                                 *)
Loadable(body) == body.sound /\ body.physical >= 1 /\ body.physical <= MaxPages

Positions == {"off", "connect", "reply", "stream", "parse", "have", "failed"}
NoDownload == [at |-> "off", url |-> CHOOSE u \in Url : TRUE, hop |-> 0, size |-> 0,
               pdf |-> FALSE, body |-> CHOOSE body \in Body : TRUE]

Download == [at: Positions, url: Url, hop: 0..MaxRedirects, size: 0..MaxBytes,
             pdf: BOOLEAN, body: Body]

(* An exception in _save_response deletes the file, as long as it is an    *)
(* Exception.                                                              *)
Fails == download' = [download EXCEPT !.at = "failed"]
FailsWithFile == Fails /\ disk' = disk \ {"raw"}

StartAcquire(url) == download' = [NoDownload EXCEPT !.at = "connect", !.url = url]
EndAcquire == download' = NoDownload /\ sent' = <<>>

Request ==
    /\ download.at = "connect"
    /\ IF ValidUrl(download.url)
       THEN /\ download' = [download EXCEPT !.at = "reply"]
            /\ sent' = Append(sent, download.url)
       ELSE Fails /\ UNCHANGED sent
    /\ UNCHANGED <<disk, stranded>>

(* The loop over range(max_redirects + 1).                                 *)
MutRedirect(url) ==
    /\ download.at = "reply"
    /\ IF download.hop >= MaxRedirects
       THEN Fails /\ UNCHANGED sent
       ELSE /\ download' = [download EXCEPT !.url = url, !.hop = @ + 1]
            /\ sent' = Append(sent, url)
    /\ UNCHANGED <<disk, stranded>>
Redirect(url) ==
    /\ download.at = "reply"
    /\ IF download.hop >= MaxRedirects
       THEN Fails
       ELSE download' = [download EXCEPT !.at = "connect", !.url = url, !.hop = @ + 1]
    /\ UNCHANGED <<disk, stranded, sent>>

(* No Location, a status of 400 or more, a network error, a time-out.      *)
NoResponse ==
    /\ download.at = "reply"
    /\ Fails
    /\ UNCHANGED <<disk, stranded, sent>>

OpenFile ==
    /\ download.at = "reply"
    /\ download' = [download EXCEPT !.at = "stream"]
    /\ disk' = disk \cup {"raw"}
    /\ UNCHANGED <<stranded, sent>>

(* The magic is taken of the first chunk; a chunk is counted before it is  *)
(* written.                                                                *)
MutWriteChunk ==
    /\ download.at = "stream"
    /\ \E pdf \in BOOLEAN :
          /\ download.size > 0 => pdf = download.pdf
          /\ IF download.size > MaxBytes
             THEN FailsWithFile
             ELSE /\ download' = [download EXCEPT !.size = @ + 1, !.pdf = pdf]
                  /\ UNCHANGED disk
    /\ UNCHANGED <<stranded, sent>>
WriteChunk ==
    /\ download.at = "stream"
    /\ \E pdf \in BOOLEAN :
          /\ download.size > 0 => pdf = download.pdf
          /\ IF download.size + 1 > MaxBytes
             THEN FailsWithFile
             ELSE /\ download' = [download EXCEPT !.size = @ + 1, !.pdf = pdf]
                  /\ UNCHANGED disk
    /\ UNCHANGED <<stranded, sent>>

StreamBreaks ==
    /\ download.at = "stream"
    /\ FailsWithFile
    /\ UNCHANGED <<stranded, sent>>

EndOfStream(body) ==
    /\ download.at = "stream"
    /\ IF download.pdf
       THEN download' = [download EXCEPT !.at = "parse", !.body = body] /\ UNCHANGED disk
       ELSE FailsWithFile
    /\ UNCHANGED <<stranded, sent>>

(* validate_pdf_file returns from its thread.                              *)
CheckFile ==
    /\ download.at = "parse"
    /\ IF Loadable(download.body)
       THEN download' = [download EXCEPT !.at = "have"] /\ UNCHANGED disk
       ELSE FailsWithFile
    /\ UNCHANGED <<stranded, sent>>

(* asyncio.timeout: the file stays, and its path is forgotten.             *)
TotalDeadline ==
    /\ download.at \in {"connect", "reply", "stream", "parse"}
    /\ Fails
    /\ stranded' = IF "raw" \in disk THEN stranded \cup {"deadline"} ELSE stranded
    /\ UNCHANGED <<disk, sent>>

Acquire ==
    \/ Request \/ NoResponse \/ OpenFile \/ WriteChunk \/ StreamBreaks
    \/ CheckFile \/ TotalDeadline
    \/ \E url \in Url : Redirect(url)
    \/ \E body \in Body : EndOfStream(body)

-----------------------------------------------------------------------------
(* However a source redirects and whatever it sends, only checked URLs are *)
(* contacted, at most one more of them than redirects are allowed, and the *)
(* file on disk never holds more than the byte limit; a file that is kept  *)
(* is a whole and sound PDF from the last of those URLs.                   *)
WithinLimits ==
    /\ Len(sent) <= MaxRedirects + 1
    /\ \A i \in DOMAIN sent : ValidUrl(sent[i])
    /\ download.size <= MaxBytes
    /\ download.at = "have" =>
         /\ Loadable(download.body) /\ download.pdf /\ "raw" \in disk
         /\ sent # <<>> /\ sent[Len(sent)] = download.url
===============================================================================
