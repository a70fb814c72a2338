---------------------- MODULE CandidateVerificationProofs ----------------------
(***************************************************************************)
(* Theorems about a candidate between its download and its reservation,    *)
(* for any sources, documents, candidates and limits: what is on disk and  *)
(* whose it is, and what an accepted file holds.                           *)
(***************************************************************************)
EXTENDS CandidateVerification, JudgmentBoundariesProofs

(* Positions of the job, by what holds in them.                            *)
Looking == {"classify", "range", "cut"}         \* at the whole file
Checked == {"used", "text", "reserve", "accepted"}
Settled == {"check"} \cup Checked               \* the artifact is final
Cutting == {"write", "unlink", "validate", "digest", "returned"}

InRange(r) == 1 <= r.start /\ r.start <= r.end /\ r.end <= r.source.physical

-----------------------------------------------------------------------------
(* The inductive invariant.  The download: what was sent so far, and that  *)
(* the file is there as soon as it was opened.                             *)
DownloadOK ==
    /\ job.at # "acquire" => download = NoDownload /\ sent = <<>>
    /\ \A i \in DOMAIN sent : ValidUrl(sent[i])
    /\ Len(sent) <= download.hop + 1
    /\ download.at = "connect" => Len(sent) <= download.hop
    /\ download.at \in {"reply", "stream", "parse", "have"} =>
          sent # <<>> /\ sent[Len(sent)] = download.url
    /\ download.at \in {"stream", "parse", "have"} => "raw" \in disk
    /\ download.at \in {"parse", "have"} => download.pdf
    /\ download.at = "have" => Loadable(download.body)

(* The job and its thread work on the same range of the same file.         *)
RangeOK ==
    /\ job.at \in {"acquire", "classify", "range"} => job.start \in Nat /\ job.end \in Nat
    /\ job.at \in Stages \cup {"accepted"} => job.source \in Body
    /\ job.at \in Looking \cup {"cutting"} =>
          job.file = "raw" /\ job.pages = job.source.pages
    /\ job.at = "cutting" =>
          /\ worker.at # "off" /\ worker.source = job.source /\ worker.number = job.number
          /\ worker.start = job.start /\ worker.end = job.end
    /\ job.at \in Settled =>
          \/ job.file = "raw" /\ job.pages = job.source.pages
          \/ /\ job.file = "extract" /\ InRange(job)
             /\ job.pages = SubSeq(job.source.pages, job.start, job.end)
    /\ worker.at # "off" => worker.source \in Body
    /\ worker.at \in Cutting => InRange(worker)

(* A thread runs only for a job that waits for it, or that was left.       *)
ThreadOK == job.at \notin {"idle", "cutting"} => worker = NoThread

(* The file the job goes on with is there.                                 *)
FileThere ==
    /\ job.at \in Looking => "raw" \in disk
    /\ job.at = "cutting" /\ worker.at \in Cutting \ {"write"} => "extract" \in disk
    /\ job.at \in Settled => job.file \in disk

(* As long as no path to it was lost, a file is only where it has an       *)
(* owner; and as long as no extract was lost, no forgotten thread is left. *)
RawKept == stranded \cap {"deadline", "abort"} = {}
ExtractKept == stranded \cap {"stage", "write", "digest", "abort"} = {}

RawGone ==
    RawKept =>
        /\ job.at = "idle" => "raw" \notin disk
        /\ job.at = "acquire" /\ download.at \notin {"stream", "parse", "have"} =>
              "raw" \notin disk
        /\ job.at = "cutting" /\ worker.at \in {"validate", "digest", "returned"} =>
              "raw" \notin disk
        /\ job.at \in Settled /\ job.file = "extract" => "raw" \notin disk
ExtractGone ==
    ExtractKept =>
        /\ worker.at # "off" => job.at = "cutting"
        /\ job.at \in {"idle", "acquire"} \cup Looking => "extract" \notin disk
        /\ job.at = "cutting" /\ worker.at \in {"read", "write", "raised"} =>
              "extract" \notin disk
        /\ job.at \in Settled /\ job.file = "raw" => "extract" \notin disk
OthersGone == RawGone /\ ExtractGone

(* What Check found is what is accepted.                                   *)
FoundOne ==
    job.at \in Checked =>
        /\ Cardinality(PrimaryNumbers(job.pages)) <= 1
        /\ job.file = "extract" => OneJudgment(job.pages, job.number) /\ job.number # None
        /\ job.number # None /\ PrimaryNumbers(job.pages) # {} => job.pages[1].head = job.number

Inv ==
    /\ TypeOK /\ DownloadOK /\ RangeOK /\ ThreadOK /\ FileThere /\ OthersGone /\ FoundOne

USE DEF Stages, Looking, Checked, Settled, Cutting

-----------------------------------------------------------------------------
(* Types of what is built from constants.                                  *)

Strands == {"deadline", "stage", "write", "digest", "abort"}
Jobs ==
    [at: {"idle", "acquire", "accepted"} \cup Stages,
     route: {"catalog", "hint", "number"}, number: Number \cup {None},
     start: Int, end: Int, of: Body \cup {None}, source: Body \cup {None},
     pages: Seq(Page), file: {"raw", "extract", None}]
Threads ==
    [at: ThreadPositions, start: Int, end: Int, source: Body \cup {None},
     number: Number \cup {None}]

LEMMA TypeParts ==
    TypeOK <=> /\ download \in Download /\ disk \subseteq {"raw", "extract"}
               /\ stranded \subseteq Strands /\ sent \in Seq(Url)
               /\ job \in Jobs /\ worker \in Threads
BY DEF TypeOK, Jobs, Threads, Strands

LEMMA BodyIsTyped ==
    ASSUME NEW body \in Body
    PROVE  /\ body.pages \in Seq(Page) /\ body.physical \in Nat
           /\ body.physical <= Len(body.pages)
BY BodyAssumption

LEMMA ConstantsAreTyped ==
    /\ Idle \in Jobs /\ Idle.at = "idle" /\ Idle.file = None
    /\ NoThread \in Threads /\ NoThread.at = "off"
    /\ NoDownload \in Download /\ NoDownload.at = "off"
    /\ NoDownload.hop = 0 /\ NoDownload.size = 0
<1>1. <<>> \in Seq(Page)
    OBVIOUS
<1>2. Idle \in Jobs /\ Idle.at = "idle" /\ Idle.file = None
    BY <1>1 DEF Idle, Jobs
<1>3. NoThread \in Threads /\ NoThread.at = "off"
    BY DEF NoThread, Threads, ThreadPositions
<1>4. (CHOOSE u \in Url : TRUE) \in Url /\ (CHOOSE body \in Body : TRUE) \in Body
    BY BodyAssumption
<1>5. NoDownload \in Download /\ NoDownload.at = "off"
      /\ NoDownload.hop = 0 /\ NoDownload.size = 0
    BY <1>4, LimitsAssumption DEF NoDownload, Download, Positions
<1> QED
    BY <1>2, <1>3, <1>5

(* The pages of an extract.                                                *)
LEMMA ExtractIsTyped ==
    ASSUME NEW r, r.source \in Body, r.start \in Int, r.end \in Int, InRange(r)
    PROVE  /\ SubSeq(r.source.pages, r.start, r.end) \in Seq(Page)
           /\ SubSeq(r.source.pages, r.start, r.end) # <<>>
<1>1. /\ r.source.pages \in Seq(Page) /\ r.source.physical \in Nat
      /\ r.source.physical <= Len(r.source.pages)
    BY BodyIsTyped
<1>2. Len(SubSeq(r.source.pages, r.start, r.end)) = r.end - r.start + 1
      /\ SubSeq(r.source.pages, r.start, r.end) \in Seq(Page)
    BY <1>1 DEF InRange
<1>3. r.end - r.start + 1 >= 1
    BY DEF InRange
<1> DEFINE part == SubSeq(r.source.pages, r.start, r.end)
<1>4. Len(part) >= 1
    BY <1>2, <1>3
<1> HIDE DEF part
<1>5. part # <<>>
    BY <1>4
<1>6. SubSeq(r.source.pages, r.start, r.end) # <<>>
    BY <1>5 DEF part
<1> QED
    BY <1>2, <1>6

LEMMA InitInv == Init => Inv
<1> SUFFICES ASSUME Init PROVE Inv
    OBVIOUS
<1>1. /\ job = Idle /\ worker = NoThread /\ download = NoDownload
      /\ disk = {} /\ stranded = {} /\ sent = <<>>
      /\ job.at = "idle" /\ worker.at = "off" /\ download.at = "off" /\ download.hop = 0
    BY ConstantsAreTyped DEF Init
<1>2. TypeOK
    BY <1>1, ConstantsAreTyped, TypeParts
<1>3. DownloadOK
    BY <1>1 DEF DownloadOK
<1>4. RangeOK
    BY <1>1 DEF RangeOK
<1>5. ThreadOK
    BY <1>1 DEF ThreadOK
<1>6. FileThere
    BY <1>1 DEF FileThere
<1>7. OthersGone
    BY <1>1 DEF OthersGone, RawGone, ExtractGone, RawKept, ExtractKept
<1>8. FoundOne
    BY <1>1 DEF FoundOne
<1> QED
    BY <1>2, <1>3, <1>4, <1>5, <1>6, <1>7, <1>8 DEF Inv

-----------------------------------------------------------------------------
(* The steps of the download.                                              *)

LEMMA DownloadLeavesJob ==
    ASSUME Inv, job.at = "acquire", UNCHANGED <<job, worker>>
    PROVE  RangeOK' /\ ThreadOK' /\ FileThere' /\ FoundOne' /\ worker.at = "off"
<1>1. worker.at = "off"
    BY ConstantsAreTyped DEF Inv, ThreadOK
<1>2. RangeOK' /\ ThreadOK' /\ FoundOne'
    BY DEF Inv, RangeOK, ThreadOK, FoundOne
<1>3. FileThere'
    BY DEF FileThere
<1> QED
    BY <1>1, <1>2, <1>3

(* What every step of it has to show.                                      *)
LEMMA DownloadKeepsInv ==
    ASSUME Inv, job.at = "acquire", UNCHANGED <<job, worker>>,
           download' \in Download, disk' \subseteq {"raw", "extract"},
           stranded \subseteq stranded', stranded' \subseteq Strands, sent' \in Seq(Url),
           DownloadOK',
           RawKept' /\ download'.at \notin {"stream", "parse", "have"} => "raw" \notin disk',
           ExtractKept' => "extract" \notin disk'
    PROVE  Inv'
<1>1. RangeOK' /\ ThreadOK' /\ FileThere' /\ FoundOne' /\ worker.at = "off"
    BY DownloadLeavesJob
<1>2. TypeOK'
    BY TypeParts DEF Inv, TypeOK, Strands
<1>3. OthersGone'
    BY <1>1 DEF OthersGone, RawGone, ExtractGone, RawKept, ExtractKept
<1> QED
    BY <1>1, <1>2, <1>3 DEF Inv

(* It fails, with or without its file.                                     *)
LEMMA FailKeepsInv ==
    ASSUME Inv, job.at = "acquire", UNCHANGED <<job, worker, sent>>,
           download.at # "off", Fails, disk' \in {disk, disk \ {"raw"}},
           stranded \subseteq stranded', stranded' \subseteq Strands,
           RawKept' => "raw" \notin disk', ExtractKept' => "extract" \notin disk'
    PROVE  Inv'
<1>1. download \in Download /\ disk \subseteq {"raw", "extract"} /\ sent \in Seq(Url)
    BY TypeParts DEF Inv
<1>2. download' \in Download /\ download'.at = "failed" /\ download'.hop = download.hop
    BY <1>1 DEF Fails, Download, Positions
<1>3. DownloadOK'
    BY <1>2 DEF Inv, DownloadOK
<1>4. disk' \subseteq {"raw", "extract"}
    BY <1>1
<1> QED
    BY <1>1, <1>2, <1>3, <1>4, DownloadKeepsInv

LEMMA RequestKeepsInv ==
    ASSUME Inv, job.at = "acquire", UNCHANGED <<job, worker>>, Request
    PROVE  Inv'
<1>1. /\ download.at = "connect" /\ UNCHANGED <<disk, stranded>>
      /\ RawKept' => "raw" \notin disk
      /\ ExtractKept' => "extract" \notin disk
    BY DEF Inv, OthersGone, RawGone, ExtractGone, RawKept, ExtractKept, Request
<1>2. download \in Download /\ sent \in Seq(Url) /\ stranded \subseteq Strands
      /\ disk \subseteq {"raw", "extract"}
    BY TypeParts DEF Inv
<1>3. CASE ValidUrl(download.url)
  <2>1. /\ download' = [download EXCEPT !.at = "reply"]
        /\ sent' = Append(sent, download.url)
    BY <1>1, <1>3 DEF Request
  <2>2. /\ download' \in Download /\ download'.at = "reply"
        /\ download'.url = download.url /\ download'.hop = download.hop
        /\ download.url \in Url /\ download.hop \in Nat
    BY <1>2, <2>1, LimitsAssumption DEF Download, Positions
  <2>3. /\ sent' \in Seq(Url) /\ Len(sent') = Len(sent) + 1 /\ sent' # <<>>
        /\ sent'[Len(sent')] = download.url
        /\ \A i \in DOMAIN sent' : i = Len(sent') \/ (i \in DOMAIN sent /\ sent'[i] = sent[i])
    BY <1>2, <2>1, <2>2
  <2>4. \A i \in DOMAIN sent' : ValidUrl(sent'[i])
    BY <1>3, <2>3 DEF Inv, DownloadOK
  <2>5. Len(sent') <= download'.hop + 1
    BY <1>1, <1>2, <2>2, <2>3 DEF Inv, DownloadOK
  <2>6. DownloadOK'
    BY <2>2, <2>3, <2>4, <2>5 DEF DownloadOK
  <2> QED
    BY <1>1, <1>2, <2>2, <2>3, <2>6, DownloadKeepsInv
<1>4. CASE ~ValidUrl(download.url)
  <2>1. Fails /\ UNCHANGED sent
    BY <1>4 DEF Request
  <2> QED
    BY <1>1, <1>2, <2>1, FailKeepsInv
<1> QED
    BY <1>3, <1>4

LEMMA RedirectKeepsInv ==
    ASSUME Inv, job.at = "acquire", UNCHANGED <<job, worker>>, NEW url \in Url, Redirect(url)
    PROVE  Inv'
<1>1. /\ download.at = "reply" /\ UNCHANGED <<disk, stranded, sent>>
      /\ RawKept' => "raw" \notin disk
      /\ ExtractKept' => "extract" \notin disk
    BY DEF Inv, OthersGone, RawGone, ExtractGone, RawKept, ExtractKept, Redirect
<1>2. download \in Download /\ sent \in Seq(Url) /\ stranded \subseteq Strands
      /\ disk \subseteq {"raw", "extract"}
    BY TypeParts DEF Inv
<1>3. CASE download.hop >= MaxRedirects
  <2>1. Fails
    BY <1>3 DEF Redirect
  <2> QED
    BY <1>1, <1>2, <2>1, FailKeepsInv
<1>4. CASE ~ (download.hop >= MaxRedirects)
  <2>1. download' = [download EXCEPT !.at = "connect", !.url = url, !.hop = @ + 1]
    BY <1>4 DEF Redirect
  <2>2. download.hop \in 0..MaxRedirects /\ download.hop + 1 \in 0..MaxRedirects
    BY <1>2, <1>4, LimitsAssumption DEF Download
  <2>3. /\ download' \in Download /\ download'.at = "connect"
        /\ download'.hop = download.hop + 1
    BY <1>2, <2>1, <2>2 DEF Download, Positions
  <2>4. Len(sent) <= download'.hop /\ Len(sent) <= download'.hop + 1
    BY <1>2, <2>2, <2>3, LimitsAssumption DEF Inv, DownloadOK
  <2>5. DownloadOK'
    BY <1>1, <2>3, <2>4 DEF Inv, DownloadOK
  <2> QED
    BY <1>1, <1>2, <2>3, <2>5, DownloadKeepsInv
<1> QED
    BY <1>3, <1>4

LEMMA OpenKeepsInv ==
    ASSUME Inv, job.at = "acquire", UNCHANGED <<job, worker>>, OpenFile
    PROVE  Inv'
<1>1. /\ download.at = "reply" /\ download' = [download EXCEPT !.at = "stream"]
      /\ disk' = disk \cup {"raw"} /\ UNCHANGED <<stranded, sent>>
      /\ RawKept' => "raw" \notin disk
      /\ ExtractKept' => "extract" \notin disk
    BY DEF Inv, OthersGone, RawGone, ExtractGone, RawKept, ExtractKept, OpenFile
<1>2. download \in Download /\ sent \in Seq(Url) /\ stranded \subseteq Strands
      /\ disk \subseteq {"raw", "extract"}
    BY TypeParts DEF Inv
<1>3. /\ download' \in Download /\ download'.at = "stream"
      /\ download'.url = download.url /\ download'.hop = download.hop
    BY <1>1, <1>2 DEF Download, Positions
<1>4. DownloadOK'
    BY <1>1, <1>3 DEF Inv, DownloadOK
<1> QED
    BY <1>1, <1>2, <1>3, <1>4, DownloadKeepsInv

(* The three steps with the file open go on or fail and delete it.         *)
LEMMA StreamKeepsInv ==
    ASSUME Inv, job.at = "acquire", UNCHANGED <<job, worker, stranded, sent>>,
           download.at \in {"stream", "parse"},
           \/ FailsWithFile
           \/ /\ UNCHANGED disk /\ download' \in Download
              /\ download'.at \in {"stream", "parse", "have"}
              /\ download'.url = download.url /\ download'.hop = download.hop
              /\ download'.at \in {"parse", "have"} => download'.pdf
              /\ download'.at = "have" => Loadable(download'.body)
    PROVE  Inv'
<1>1. stranded \subseteq Strands /\ disk \subseteq {"raw", "extract"} /\ sent \in Seq(Url)
    BY TypeParts DEF Inv
<1>2. ExtractKept' => "extract" \notin disk
    BY DEF Inv, OthersGone, ExtractGone, ExtractKept
<1>3. CASE FailsWithFile
    BY <1>1, <1>2, <1>3, FailKeepsInv DEF FailsWithFile
<1>4. CASE /\ UNCHANGED disk /\ download' \in Download
           /\ download'.at \in {"stream", "parse", "have"}
           /\ download'.url = download.url /\ download'.hop = download.hop
           /\ download'.at \in {"parse", "have"} => download'.pdf
           /\ download'.at = "have" => Loadable(download'.body)
  <2>1. DownloadOK'
    BY <1>4 DEF Inv, DownloadOK
  <2> QED
    BY <1>1, <1>2, <1>4, <2>1, DownloadKeepsInv
<1> QED
    BY <1>3, <1>4

LEMMA AcquireKeepsInv ==
    ASSUME Inv, Downloading
    PROVE  Inv'
<1>1. job.at = "acquire" /\ UNCHANGED <<job, worker>>
    BY DEF Downloading
<1>2. download \in Download /\ stranded \subseteq Strands /\ disk \subseteq {"raw", "extract"}
    BY TypeParts DEF Inv
<1>3. CASE Request
    BY <1>1, <1>3, RequestKeepsInv
<1>4. CASE NoResponse
    BY <1>1, <1>2, <1>4, FailKeepsInv
    DEF NoResponse, Inv, OthersGone, RawGone, ExtractGone, RawKept, ExtractKept
<1>5. CASE OpenFile
    BY <1>1, <1>5, OpenKeepsInv
<1>6. CASE WriteChunk
  <2>1. PICK pdf \in BOOLEAN :
            IF download.size + 1 > MaxBytes
            THEN FailsWithFile
            ELSE download' = [download EXCEPT !.size = @ + 1, !.pdf = pdf] /\ UNCHANGED disk
    BY <1>6 DEF WriteChunk
  <2>2. CASE download.size + 1 > MaxBytes
    BY <1>1, <1>6, <2>1, <2>2, StreamKeepsInv DEF WriteChunk
  <2>3. CASE ~ (download.size + 1 > MaxBytes)
    <3>1. download' = [download EXCEPT !.size = @ + 1, !.pdf = pdf] /\ UNCHANGED disk
      BY <2>1, <2>3
    <3>2. download.size \in 0..MaxBytes /\ download.size + 1 \in 0..MaxBytes
      BY <1>2, <2>3, LimitsAssumption DEF Download
    <3>3. /\ download' \in Download /\ download'.at = download.at
          /\ download'.url = download.url /\ download'.hop = download.hop
      BY <1>2, <3>1, <3>2 DEF Download
    <3>4. download.at = "stream" /\ UNCHANGED <<stranded, sent>>
      BY <1>6 DEF WriteChunk
    <3> QED
      BY <1>1, <3>1, <3>3, <3>4, StreamKeepsInv
  <2> QED
    BY <2>2, <2>3
<1>7. CASE StreamBreaks
    BY <1>1, <1>7, StreamKeepsInv DEF StreamBreaks
<1>8. CASE CheckFile
  <2>1. download.at = "parse" /\ UNCHANGED <<stranded, sent>> /\ download.pdf
    BY <1>8 DEF CheckFile, Inv, DownloadOK
  <2>2. CASE Loadable(download.body)
    <3>1. download' = [download EXCEPT !.at = "have"] /\ UNCHANGED disk
      BY <1>8, <2>2 DEF CheckFile
    <3>2. /\ download' \in Download /\ download'.at = "have" /\ download'.body = download.body
          /\ download'.url = download.url /\ download'.hop = download.hop
          /\ download'.pdf = download.pdf
      BY <1>2, <3>1 DEF Download, Positions
    <3> QED
      BY <1>1, <2>1, <2>2, <3>1, <3>2, StreamKeepsInv
  <2>3. CASE ~Loadable(download.body)
    BY <1>1, <1>8, <2>1, <2>3, StreamKeepsInv DEF CheckFile
  <2> QED
    BY <2>2, <2>3
<1>9. CASE TotalDeadline
  <2>1. /\ download.at # "off" /\ Fails /\ UNCHANGED <<disk, sent>>
        /\ stranded' = IF "raw" \in disk THEN stranded \cup {"deadline"} ELSE stranded
    BY <1>9 DEF TotalDeadline
  <2>2. stranded \subseteq stranded' /\ stranded' \subseteq Strands
    BY <1>2, <2>1 DEF Strands
  <2>3. RawKept' => "raw" \notin disk
    BY <2>1 DEF RawKept
  <2>4. ExtractKept' => "extract" \notin disk
    BY <1>1, <2>2 DEF Inv, OthersGone, ExtractGone, ExtractKept
  <2> QED
    BY <1>1, <2>1, <2>2, <2>3, <2>4, FailKeepsInv
<1>10. ASSUME NEW url \in Url, Redirect(url) PROVE Inv'
    BY <1>1, <1>10, RedirectKeepsInv
<1>11. ASSUME NEW body \in Body, EndOfStream(body) PROVE Inv'
  <2>1. download.at = "stream" /\ UNCHANGED <<stranded, sent>>
    BY <1>11 DEF EndOfStream
  <2>2. CASE download.pdf
    <3>1. download' = [download EXCEPT !.at = "parse", !.body = body] /\ UNCHANGED disk
      BY <1>11, <2>2 DEF EndOfStream
    <3>2. /\ download' \in Download /\ download'.at = "parse"
          /\ download'.url = download.url /\ download'.hop = download.hop
          /\ download'.pdf = download.pdf
      BY <1>2, <3>1 DEF Download, Positions
    <3> QED
      BY <1>1, <2>1, <2>2, <3>1, <3>2, StreamKeepsInv
  <2>3. CASE ~download.pdf
    BY <1>1, <1>11, <2>1, <2>3, StreamKeepsInv DEF EndOfStream
  <2> QED
    BY <2>2, <2>3
<1> QED
    BY <1>3, <1>4, <1>5, <1>6, <1>7, <1>8, <1>9, <1>10, <1>11 DEF Downloading, Acquire

-----------------------------------------------------------------------------
(* The steps that end the job.                                             *)

LEMMA EndKeepsInv ==
    ASSUME Inv, job' = Idle, download' = NoDownload, sent' = <<>>,
           worker' \in {worker, NoThread}, disk' \subseteq disk,
           stranded \subseteq stranded', stranded' \subseteq Strands,
           RawKept' => "raw" \notin disk',
           ExtractKept' => "extract" \notin disk' /\ worker' = NoThread
    PROVE  Inv'
<1>1. job'.at = "idle" /\ NoThread.at = "off" /\ download'.at = "off" /\ download'.hop = 0
    BY ConstantsAreTyped
<1>2. TypeOK'
  <2>1. /\ job' \in Jobs /\ download' \in Download /\ sent' \in Seq(Url)
        /\ worker' \in Threads
    BY ConstantsAreTyped, TypeParts DEF Inv
  <2>2. disk' \subseteq {"raw", "extract"}
    BY TypeParts DEF Inv
  <2> QED
    BY <2>1, <2>2 DEF TypeOK, Jobs, Threads, Strands
<1>3. DownloadOK'
    BY <1>1 DEF DownloadOK
<1>4. RangeOK'
    BY <1>1 DEF Inv, RangeOK
<1>5. ThreadOK' /\ FileThere' /\ FoundOne'
    BY <1>1 DEF ThreadOK, FileThere, FoundOne
<1>6. OthersGone'
    BY <1>1 DEF OthersGone, RawGone, ExtractGone, RawKept, ExtractKept
<1> QED
    BY <1>2, <1>3, <1>4, <1>5, <1>6 DEF Inv

(* A job that is not downloading gives up its file: the other one is gone, *)
(* or the path to it was lost before.                                      *)
LEMMA GiveUpKeepsInv ==
    ASSUME Inv, GiveUp, UNCHANGED <<stranded, worker>>,
           job.at \in (Looking \ {"cut"}) \cup Settled
    PROVE  Inv'
<1>1. /\ job' = Idle /\ disk' = disk \ {job.file} /\ UNCHANGED <<download, sent>>
      /\ download = NoDownload /\ sent = <<>> /\ worker = NoThread
    BY DEF Inv, GiveUp, DownloadOK, ThreadOK
<1>2. job.file \in {"raw", "extract"} /\ (job.at \in Looking => job.file = "raw")
    BY DEF Inv, RangeOK
<1>3. stranded' \subseteq Strands /\ RawKept' = RawKept /\ ExtractKept' = ExtractKept
    BY TypeParts DEF Inv, RawKept, ExtractKept
<1>4. RawKept => "raw" \notin disk'
    BY <1>1, <1>2 DEF Inv, OthersGone, RawGone
<1>5. ExtractKept => "extract" \notin disk'
    BY <1>1, <1>2 DEF Inv, OthersGone, ExtractGone
<1> QED
    BY <1>1, <1>3, <1>4, <1>5, EndKeepsInv

LEMMA AbortKeepsInv ==
    ASSUME Inv, Abort
    PROVE  Inv'
BY EndKeepsInv, TypeParts DEF Abort, EndAcquire, Strands, Inv, RawKept, ExtractKept

LEMMA TimeOutKeepsInv ==
    ASSUME Inv, StageTimesOut
    PROVE  Inv'
<1>1. /\ InStage /\ GiveUp /\ UNCHANGED worker
      /\ stranded' = IF job.at = "cutting" THEN stranded \cup {"stage"} ELSE stranded
    BY DEF StageTimesOut
<1>2. CASE job.at = "cutting"
  <2>1. /\ download = NoDownload /\ sent = <<>> /\ stranded \subseteq Strands
        /\ job.file = "raw"
    BY <1>2, TypeParts DEF Inv, DownloadOK, RangeOK
  <2>2. "raw" \notin disk' /\ ~ExtractKept'
    BY <1>1, <1>2, <2>1 DEF GiveUp, ExtractKept
  <2> QED
    BY <1>1, <1>2, <2>1, <2>2, EndKeepsInv DEF GiveUp, Strands
<1>3. CASE job.at # "cutting"
    BY <1>1, <1>3, GiveUpKeepsInv DEF InStage
<1> QED
    BY <1>2, <1>3

LEMMA AcquiredKeepsInv ==
    ASSUME Inv, Acquired
    PROVE  Inv'
<1>1. /\ job.at = "acquire" /\ EndAcquire /\ UNCHANGED <<disk, stranded, worker>>
      /\ worker = NoThread /\ worker.at = "off"
    BY ConstantsAreTyped DEF Acquired, Inv, ThreadOK
<1>2. /\ job \in Jobs /\ download \in Download /\ worker \in Threads
      /\ stranded \subseteq Strands /\ disk \subseteq {"raw", "extract"}
    BY TypeParts DEF Inv
<1>3. CASE download.at = "failed" /\ job' = Idle
  <2>1. (RawKept' => "raw" \notin disk) /\ (ExtractKept' => "extract" \notin disk)
    BY <1>1, <1>3 DEF Inv, OthersGone, RawGone, ExtractGone, RawKept, ExtractKept
  <2> QED
    BY <1>1, <1>2, <1>3, <2>1, EndKeepsInv DEF EndAcquire
<1>4. CASE /\ download.at = "have"
           /\ job' = [job EXCEPT !.at = "classify", !.file = "raw", !.source = download.body,
                                 !.pages = download.body.pages]
  <2>1. download.body \in Body /\ download.body.pages \in Seq(Page)
    BY <1>2, BodyIsTyped DEF Download
  <2>2. /\ job' \in Jobs /\ job'.at = "classify" /\ job'.file = "raw"
        /\ job'.source = download.body /\ job'.pages = job'.source.pages
        /\ job'.start = job.start /\ job'.end = job.end
    BY <1>2, <1>4, <2>1 DEF Jobs
  <2>3. /\ download' = NoDownload /\ sent' = <<>> /\ sent' \in Seq(Url)
        /\ download' \in Download /\ download'.at = "off" /\ download'.hop = 0
    BY <1>1, ConstantsAreTyped DEF EndAcquire
  <2>4. TypeOK'
    BY <1>1, <1>2, <2>2, <2>3 DEF TypeOK, Jobs, Threads, Strands
  <2>5. DownloadOK'
    BY <2>3 DEF DownloadOK
  <2>6. RangeOK'
    BY <1>1, <2>1, <2>2 DEF Inv, RangeOK
  <2>7. ThreadOK' /\ FoundOne'
    BY <1>1, <2>2 DEF ThreadOK, FoundOne
  <2>8. FileThere'
    BY <1>1, <1>4, <2>2 DEF Inv, DownloadOK, FileThere
  <2>9. OthersGone'
    BY <1>1, <2>2 DEF Inv, OthersGone, RawGone, ExtractGone, RawKept, ExtractKept
  <2> QED
    BY <2>4, <2>5, <2>6, <2>7, <2>8, <2>9 DEF Inv
<1> QED
    BY <1>3, <1>4 DEF Acquired

-----------------------------------------------------------------------------
(* The steps that take the job on, with the download and the thread at     *)
(* rest.                                                                   *)

LEMMA OnwardKeepsInv ==
    ASSUME Inv, UNCHANGED <<download, disk, stranded, sent, worker>>,
           job.at \notin {"idle", "acquire", "cutting"},
           job' \in Jobs, job'.at \notin {"idle", "acquire", "cutting"},
           RangeOK', FoundOne', job'.file = job.file,
           job'.at \in Looking => job.at \in Looking,
           job'.at \in Settled => job.at \in Settled \/ (job.at \in Looking /\ job.file = "raw")
    PROVE  Inv'
<1>1. TypeOK'
    BY TypeParts DEF Inv, TypeOK, Jobs, Threads, Strands
<1>2. DownloadOK'
    BY DEF Inv, DownloadOK
<1>3. ThreadOK'
    BY DEF Inv, ThreadOK
<1>4. FileThere'
    BY DEF Inv, FileThere
<1>5. OthersGone'
    BY DEF Inv, OthersGone, RawGone, ExtractGone, RawKept, ExtractKept, RangeOK
<1> QED
    BY <1>1, <1>2, <1>3, <1>4, <1>5 DEF Inv

LEMMA GotoSets ==
    ASSUME NEW stage \in Stages \cup {"accepted"}, job \in Jobs, Goto(stage)
    PROVE  /\ job' \in Jobs /\ job'.at = stage /\ job'.file = job.file
           /\ job'.source = job.source /\ job'.pages = job.pages /\ job'.number = job.number
           /\ job'.start = job.start /\ job'.end = job.end
BY DEF Goto, Jobs

LEMMA ClassifyKeepsInv ==
    ASSUME Inv, Classify
    PROVE  Inv'
<1>1. job \in Jobs
    BY TypeParts DEF Inv
<1>2. PICK stage \in {"range", "check"} : Goto(stage)
    BY DEF Classify
<1>3. /\ job' \in Jobs /\ job'.at = stage /\ job'.file = job.file
      /\ job'.source = job.source /\ job'.pages = job.pages
      /\ job'.start = job.start /\ job'.end = job.end
    BY <1>1, <1>2, GotoSets
<1>4. job.at = "classify" /\ UNCHANGED <<download, disk, stranded, sent, worker>>
    BY DEF Classify, fetching
<1>5. RangeOK' /\ job.file = "raw"
    BY <1>2, <1>3, <1>4 DEF Inv, RangeOK
<1>6. FoundOne'
    BY <1>2, <1>3 DEF FoundOne
<1> QED
    BY <1>2, <1>3, <1>4, <1>5, <1>6, OnwardKeepsInv

LEMMA RangeIsUsed ==
    ASSUME Inv, job.at = "range", NEW range \in PageRange, NEW number,
           range # NoRange => number \in Number \cup {None},
           UseRange(range, number), UNCHANGED <<stranded, worker>>
    PROVE  Inv'
<1>1. CASE range = NoRange
    BY <1>1, GiveUpKeepsInv DEF UseRange
<1>2. CASE range # NoRange
  <2>1. /\ job' = [job EXCEPT !.at = "cut", !.start = range.start, !.end = range.end,
                              !.number = number]
        /\ UNCHANGED <<download, disk, sent>>
    BY <1>2 DEF UseRange
  <2>2. job \in Jobs
    BY TypeParts DEF Inv
  <2>3. /\ job' \in Jobs /\ job'.at = "cut" /\ job'.file = job.file
        /\ job'.source = job.source /\ job'.pages = job.pages
    BY <1>2, <2>1, <2>2 DEF Jobs, PageRange
  <2>4. RangeOK' /\ FoundOne'
    BY <2>3 DEF Inv, RangeOK, FoundOne
  <2> QED
    BY <2>1, <2>3, <2>4, OnwardKeepsInv
<1> QED
    BY <1>1, <1>2

LEMMA FindRangeKeepsInv ==
    ASSUME Inv, FindRange
    PROVE  Inv'
<1>1. /\ job.at = "range" /\ UNCHANGED <<stranded, worker>>
      /\ job \in Jobs /\ job.start \in Nat /\ job.end \in Nat
      /\ job.pages \in Seq(Page) /\ job.number \in Number \cup {None}
    BY TypeParts DEF FindRange, Inv, RangeOK, Jobs
<1>2. CASE job.route = "catalog" /\ UseRange(CatalogRange, job.number)
  <2>1. CatalogRange \in PageRange
    BY <1>1 DEF CatalogRange, PageRange, NoRange
  <2> QED
    BY <1>1, <1>2, <2>1, RangeIsUsed
<1>3. CASE job.route = "number" /\ UseRange(LocatedRange(job.pages, job.number), job.number)
  <2>1. LocatedRange(job.pages, job.number) \in PageRange
    BY <1>1, LocatedIsOne DEF IsRangeOf
  <2> QED
    BY <1>1, <1>3, <2>1, RangeIsUsed
<1>4. CASE job.route = "hint"
  <2> DEFINE range == RefinedRange(job.pages, job.start, job.end, job.number)
             number == IF range = NoRange THEN None ELSE job.pages[range.start].head
  <2>1. UseRange(range, number)
    BY <1>4 DEF FindRange
  <2>2. range \in PageRange /\ (range # NoRange => range.start \in DOMAIN job.pages)
    BY <1>1, RefinedIsOne DEF IsRangeOf
  <2> HIDE DEF range
  <2>3. range # NoRange => job.pages[range.start] \in Page
    BY <1>1, <2>2
  <2>4. number \in Number \cup {None}
    BY <2>3 DEF Page
  <2> HIDE DEF number
  <2> QED
    BY <1>1, <2>1, <2>2, <2>4, RangeIsUsed
<1> QED
    BY <1>2, <1>3, <1>4 DEF FindRange

LEMMA CheckKeepsInv ==
    ASSUME Inv, Check
    PROVE  Inv'
<1>1. job.at = "check" /\ UNCHANGED <<stranded, worker>> /\ job \in Jobs
    BY TypeParts DEF Check, Inv
<1>2. PICK found \in MetadataNumbers :
          LET number == IF found = None THEN job.number ELSE found
          IN  \/ /\ job.file = "extract" => OneJudgment(job.pages, job.number)
                 /\ Identified(job.pages, number)
                 /\ job' = [job EXCEPT !.at = "used", !.number = number]
                 /\ UNCHANGED <<download, disk, sent>>
              \/ GiveUp
    BY DEF Check
<1> DEFINE number == IF found = None THEN job.number ELSE found
<1>3. CASE GiveUp
    BY <1>1, <1>3, GiveUpKeepsInv
<1>4. CASE /\ job.file = "extract" => OneJudgment(job.pages, job.number)
           /\ Identified(job.pages, number)
           /\ job' = [job EXCEPT !.at = "used", !.number = number]
           /\ UNCHANGED <<download, disk, sent>>
  <2>1. job.file = "extract" => job.pages \in Seq(Page) /\ job.pages # <<>>
    <3> SUFFICES ASSUME job.file = "extract"
                 PROVE  job.pages \in Seq(Page) /\ job.pages # <<>>
      OBVIOUS
    <3>1. CASE job.pages = SubSeq(job.source.pages, job.start, job.end) /\ InRange(job)
      <4>1. job.source \in Body /\ job.start \in Int /\ job.end \in Int
        BY <1>1 DEF Inv, RangeOK, Jobs
      <4> QED
        BY <3>1, <4>1, ExtractIsTyped
    <3> QED
      BY <1>1, <3>1 DEF Inv, RangeOK
  <2>2. found \in Number \cup {None}
    <3>1. CASE job.file = "extract" /\ HasHead(job.pages[1])
      <4>1. job.pages[1] \in Page
        BY <2>1, <3>1
      <4> QED
        BY <3>1, <4>1 DEF MetadataNumbers, Page
    <3>2. CASE ~ (job.file = "extract" /\ HasHead(job.pages[1]))
      BY <3>2 DEF MetadataNumbers
    <3> QED
      BY <3>1, <3>2
  <2>3. number \in Number \cup {None}
    BY <1>1, <2>2 DEF Jobs
  <2>4. job.file = "extract" => OneJudgment(job.pages, number) /\ number # None
    <3> SUFFICES ASSUME job.file = "extract"
                 PROVE  OneJudgment(job.pages, number) /\ number # None
      OBVIOUS
    <3>1. OneJudgment(job.pages, job.number) /\ HasHead(job.pages[1])
      BY <1>4 DEF OneJudgment
    <3>2. found = job.pages[1].head /\ found # None
      BY <3>1 DEF MetadataNumbers, HasHead
    <3> QED
      BY <3>1, <3>2 DEF OneJudgment
  <2>5. /\ Cardinality(PrimaryNumbers(job.pages)) <= 1
        /\ number # None /\ PrimaryNumbers(job.pages) # {} => job.pages[1].head = number
    BY <1>4 DEF Identified, HeadersConfirm
  <2> HIDE DEF number
  <2>6. /\ job' \in Jobs /\ job'.at = "used" /\ job'.file = job.file /\ job'.number = number
        /\ job'.source = job.source /\ job'.pages = job.pages
        /\ job'.start = job.start /\ job'.end = job.end
    BY <1>1, <1>4, <2>3 DEF Jobs
  <2>7. RangeOK'
    BY <1>1, <2>6 DEF Inv, RangeOK, InRange
  <2>8. FoundOne'
    BY <2>4, <2>5, <2>6 DEF FoundOne
  <2>9. UNCHANGED <<download, disk, stranded, sent, worker>>
    BY <1>1, <1>4
  <2>10. job.at \notin {"idle", "acquire", "cutting"} /\ job.at \in Settled
    BY <1>1
  <2>11. job'.at \notin {"idle", "acquire", "cutting"} /\ job'.at \notin Looking
    BY <2>6
  <2>12. job' \in Jobs /\ job'.file = job.file
    BY <2>6
  <2>13. /\ job'.at \in Looking => job.at \in Looking
         /\ job'.at \in Settled => job.at \in Settled \/ (job.at \in Looking /\ job.file = "raw")
    BY <2>10, <2>11
  <2> QED
    BY <2>7, <2>8, <2>9, <2>10, <2>11, <2>12, <2>13, OnwardKeepsInv
<1> QED
    BY <1>2, <1>3, <1>4

(* From one stage to the next with what was found.                         *)
LEMMA StageKeepsInv ==
    ASSUME Inv, job.at \in Checked, NEW stage \in Checked, Goto(stage),
           UNCHANGED <<download, disk, stranded, sent, worker>>
    PROVE  Inv'
<1>1. job \in Jobs
    BY TypeParts DEF Inv
<1>2. /\ job' \in Jobs /\ job'.at = stage /\ job'.file = job.file
      /\ job'.source = job.source /\ job'.pages = job.pages /\ job'.number = job.number
      /\ job'.start = job.start /\ job'.end = job.end
    BY <1>1, GotoSets
<1>3. RangeOK'
    BY <1>2 DEF Inv, RangeOK, InRange
<1>4. FoundOne'
    BY <1>2 DEF Inv, FoundOne
<1>5. job.at \notin {"idle", "acquire", "cutting"} /\ job.at \in Settled
    OBVIOUS
<1>6. job'.at \notin {"idle", "acquire", "cutting"} /\ job'.at \notin Looking
    BY <1>2
<1>7. job' \in Jobs /\ job'.file = job.file
    BY <1>2
<1> HIDE DEF Looking, Settled
<1> QED
    BY <1>3, <1>4, <1>5, <1>6, <1>7, OnwardKeepsInv

LEMMA LaterStagesKeepInv ==
    ASSUME Inv, CheckUsed \/ ReadText \/ Reserve \/ HandOver
    PROVE  Inv'
<1>1. CASE CheckUsed
    BY <1>1, StageKeepsInv, GiveUpKeepsInv DEF CheckUsed
<1>2. CASE ReadText
    BY <1>2, StageKeepsInv, GiveUpKeepsInv DEF ReadText
<1>3. CASE Reserve
    BY <1>3, StageKeepsInv, GiveUpKeepsInv DEF Reserve
<1>4. CASE HandOver
    BY <1>4, GiveUpKeepsInv DEF HandOver
<1> QED
    BY <1>1, <1>2, <1>3, <1>4

-----------------------------------------------------------------------------
(* The thread of the extraction, with its start and its end.               *)

LEMMA StartCutKeepsInv ==
    ASSUME Inv, StartCut
    PROVE  Inv'
<1>1. /\ job.at = "cut" /\ Goto("cutting") /\ UNCHANGED <<download, disk, stranded, sent>>
      /\ worker' = [at |-> "read", start |-> job.start, end |-> job.end,
                    source |-> job.source, number |-> job.number]
    BY DEF StartCut, fetching
<1>2. job \in Jobs /\ job.source \in Body
    BY <1>1, TypeParts DEF Inv, RangeOK
<1>3. /\ job' \in Jobs /\ job'.at = "cutting" /\ job'.file = job.file
      /\ job'.source = job.source /\ job'.pages = job.pages /\ job'.number = job.number
      /\ job'.start = job.start /\ job'.end = job.end
    BY <1>1, <1>2, GotoSets
<1>4. /\ worker' \in Threads /\ worker'.at = "read" /\ worker'.source = job.source
      /\ worker'.number = job.number
      /\ worker'.start = job.start /\ worker'.end = job.end
    BY <1>1, <1>2 DEF Threads, ThreadPositions, Jobs
<1>5. TypeOK'
    BY <1>1, <1>3, <1>4, TypeParts DEF Inv, TypeOK, Jobs, Threads, Strands
<1>6. DownloadOK'
    BY <1>1, <1>3 DEF Inv, DownloadOK
<1>7. RangeOK'
    BY <1>1, <1>2, <1>3, <1>4 DEF Inv, RangeOK
<1>8. ThreadOK' /\ FileThere' /\ FoundOne'
    BY <1>3, <1>4 DEF ThreadOK, FileThere, FoundOne
<1>9. OthersGone'
    BY <1>1, <1>3, <1>4 DEF Inv, OthersGone, RawGone, ExtractGone, RawKept, ExtractKept
<1> QED
    BY <1>5, <1>6, <1>7, <1>8, <1>9 DEF Inv

(* A step of the thread: what it reads stays, and the files it touches are *)
(* those of the job that waits for it, or of one whose path was lost.      *)
LEMMA ThreadKeepsInv ==
    ASSUME Inv, worker.at # "off", UNCHANGED <<download, sent, job>>,
           NEW position \in ThreadPositions \ {"off"}, Move(position),
           position \in Cutting => InRange(worker),
           disk' \subseteq {"raw", "extract"},
           stranded \subseteq stranded', stranded' \subseteq Strands,
           position \in Cutting \ {"write"} /\ job.at = "cutting" => "extract" \in disk',
           "raw" \in disk' => "raw" \in disk,
           RawKept' /\ job.at = "cutting" /\ position \in {"validate", "digest", "returned"} =>
               "raw" \notin disk',
           ExtractKept' /\ position \in {"write", "raised"} => "extract" \notin disk',
           position # "read"
    PROVE  Inv'
<1>1. worker \in Threads /\ job.at \in {"idle", "cutting"}
    BY ConstantsAreTyped, TypeParts DEF Inv, ThreadOK
<1>2. /\ worker' \in Threads /\ worker'.at = position /\ worker'.source = worker.source
      /\ worker'.number = worker.number
      /\ worker'.start = worker.start /\ worker'.end = worker.end
    BY <1>1 DEF Move, Threads
<1>3. TypeOK'
    BY <1>2, TypeParts DEF Inv, TypeOK, Jobs, Threads, Strands
<1>4. DownloadOK'
    BY <1>1 DEF Inv, DownloadOK
<1>5. RangeOK'
    BY <1>1, <1>2 DEF Inv, RangeOK, InRange
<1>6. ThreadOK' /\ FileThere' /\ FoundOne'
    BY <1>1, <1>2 DEF ThreadOK, FileThere, FoundOne
<1>7. OthersGone'
  <2>1. (RawKept' => RawKept) /\ (ExtractKept' => ExtractKept)
    BY DEF RawKept, ExtractKept
  <2>2. ExtractKept => job.at = "cutting"
    BY DEF Inv, OthersGone, ExtractGone
  <2>3. RawGone'
    BY <1>1, <1>2, <2>1 DEF Inv, OthersGone, RawGone
  <2>4. ExtractGone'
    BY <1>1, <1>2, <2>1, <2>2 DEF ExtractGone
  <2> QED
    BY <2>3, <2>4 DEF OthersGone
<1> QED
    BY <1>3, <1>4, <1>5, <1>6, <1>7 DEF Inv

LEMMA ThreadStepsKeepInv ==
    ASSUME Inv, Thread
    PROVE  Inv'
<1>1. disk \subseteq {"raw", "extract"} /\ stranded \subseteq Strands
    BY TypeParts DEF Inv
<1>2. CASE ReadSource
  <2>1. worker.at = "read" /\ UNCHANGED <<download, disk, stranded, sent, job>>
    BY <1>2 DEF ReadSource, fetching
  <2>2. PICK position \in {"write", "raised"} :
            Move(position) /\ (position = "write" => InRange(worker))
    BY <1>2 DEF ReadSource, InRange
  <2>3. position \in ThreadPositions \ {"off"}
    BY DEF ThreadPositions
  <2>4. ExtractKept' => "extract" \notin disk
    BY <2>1 DEF Inv, OthersGone, ExtractGone, ExtractKept
  <2> QED
    BY <1>1, <2>1, <2>2, <2>3, <2>4, ThreadKeepsInv
<1>3. CASE WriteExtract
  <2>1. /\ worker.at = "write" /\ UNCHANGED <<download, sent, job>>
        /\ disk' = disk \cup {"extract"} /\ InRange(worker)
    BY <1>3 DEF WriteExtract, Inv, RangeOK
  <2>2. CASE Move("unlink") /\ UNCHANGED stranded
    BY <1>1, <2>1, <2>2, ThreadKeepsInv DEF ThreadPositions
  <2>3. CASE Move("raised") /\ stranded' = stranded \cup {"write"}
    BY <1>1, <2>1, <2>3, ThreadKeepsInv DEF ThreadPositions, Strands, ExtractKept
  <2> QED
    BY <1>3, <2>2, <2>3 DEF WriteExtract
<1>4. CASE UnlinkSource
  <2>1. /\ worker.at = "unlink" /\ UNCHANGED <<download, stranded, sent, job>>
        /\ disk' = disk \ {"raw"} /\ InRange(worker) /\ Move("validate")
    BY <1>4 DEF UnlinkSource, Inv, RangeOK
  <2>2. job.at = "cutting" => "extract" \in disk'
    BY <2>1 DEF Inv, FileThere
  <2> QED
    BY <1>1, <2>1, <2>2, ThreadKeepsInv DEF ThreadPositions
<1>5. CASE ValidateExtract
  <2>1. /\ worker.at = "validate" /\ UNCHANGED <<download, stranded, sent, job>>
        /\ InRange(worker)
        /\ RawKept /\ job.at = "cutting" => "raw" \notin disk
        /\ job.at = "cutting" => "extract" \in disk
    BY <1>5 DEF ValidateExtract, Inv, RangeOK, OthersGone, RawGone, ExtractGone, RawKept, ExtractKept, FileThere
  <2>2. CASE Move("digest") /\ UNCHANGED disk
    BY <1>1, <2>1, <2>2, ThreadKeepsInv DEF ThreadPositions, RawKept
  <2>3. CASE Move("raised") /\ disk' = disk \ {"extract"}
    BY <1>1, <2>1, <2>3, ThreadKeepsInv DEF ThreadPositions
  <2> QED
    BY <1>5, <2>2, <2>3 DEF ValidateExtract
<1>6. CASE DigestExtract
  <2>1. /\ worker.at = "digest" /\ UNCHANGED <<download, disk, sent, job>>
        /\ InRange(worker)
        /\ RawKept /\ job.at = "cutting" => "raw" \notin disk
        /\ job.at = "cutting" => "extract" \in disk
    BY <1>6 DEF DigestExtract, Inv, RangeOK, OthersGone, RawGone, ExtractGone, RawKept, ExtractKept, FileThere
  <2>2. CASE Move("returned") /\ UNCHANGED stranded
    BY <1>1, <2>1, <2>2, ThreadKeepsInv DEF ThreadPositions, RawKept
  <2>3. CASE Move("raised") /\ stranded' = stranded \cup {"digest"}
    BY <1>1, <2>1, <2>3, ThreadKeepsInv DEF ThreadPositions, Strands, ExtractKept
  <2> QED
    BY <1>6, <2>2, <2>3 DEF DigestExtract
<1> QED
    BY <1>2, <1>3, <1>4, <1>5, <1>6 DEF Thread

LEMMA CutReturnsKeepsInv ==
    ASSUME Inv, CutReturns
    PROVE  Inv'
<1>1. /\ job.at = "cutting" /\ worker' = NoThread /\ UNCHANGED stranded
      /\ download = NoDownload /\ sent = <<>>
      /\ job \in Jobs /\ job.source \in Body /\ job.file = "raw"
      /\ stranded \subseteq Strands /\ disk \subseteq {"raw", "extract"}
    BY TypeParts DEF CutReturns, Inv, DownloadOK, RangeOK
<1>2. CASE worker.at = "raised" /\ GiveUp
  <2>1. "raw" \notin disk' /\ (ExtractKept' => "extract" \notin disk')
    BY <1>1, <1>2 DEF Inv, OthersGone, ExtractGone, ExtractKept, GiveUp
  <2> QED
    BY <1>1, <1>2, <2>1, EndKeepsInv DEF GiveUp
<1>3. CASE /\ worker.at = "returned" /\ UNCHANGED <<download, disk, sent>>
           /\ job' = [job EXCEPT !.at = "check", !.file = "extract", !.pages = CutPages]
  <2>1. /\ worker.source = job.source /\ worker.start = job.start /\ worker.end = job.end
        /\ InRange(worker)
    BY <1>1, <1>3 DEF Inv, RangeOK
  <2>2. InRange(job) /\ CutPages = SubSeq(job.source.pages, job.start, job.end)
    BY <2>1 DEF InRange, CutPages
  <2>3. CutPages \in Seq(Page)
    <3>1. job.start \in Int /\ job.end \in Int
      BY <1>1 DEF Jobs
    <3> QED
      BY <1>1, <2>2, <3>1, ExtractIsTyped
  <2>4. /\ job' \in Jobs /\ job'.at = "check" /\ job'.file = "extract" /\ job'.pages = CutPages
        /\ job'.source = job.source /\ job'.start = job.start /\ job'.end = job.end
    BY <1>1, <1>3, <2>3 DEF Jobs
  <2>5. worker'.at = "off" /\ worker' \in Threads
    BY <1>1, ConstantsAreTyped
  <2>6. TypeOK'
    BY <1>1, <1>3, <2>4, <2>5, TypeParts DEF Inv, TypeOK, Jobs, Threads, Strands
  <2>7. DownloadOK'
    BY <1>1, <1>3, <2>4 DEF Inv, DownloadOK
  <2>8. RangeOK'
    BY <1>1, <2>2, <2>4, <2>5 DEF RangeOK, InRange
  <2>9. ThreadOK' /\ FoundOne'
    BY <1>1, <2>4 DEF ThreadOK, FoundOne
  <2>10. FileThere'
    BY <1>1, <1>3, <2>4 DEF Inv, FileThere
  <2>11. OthersGone'
    BY <1>1, <1>3, <2>4, <2>5 DEF Inv, OthersGone, RawGone, ExtractGone, RawKept, ExtractKept
  <2> QED
    BY <2>6, <2>7, <2>8, <2>9, <2>10, <2>11 DEF Inv
<1> QED
    BY <1>2, <1>3 DEF CutReturns

LEMMA ThreadForgottenKeepsInv ==
    ASSUME Inv, ThreadForgotten
    PROVE  Inv'
<1>1. /\ job.at # "cutting" /\ worker' = NoThread /\ worker'.at = "off" /\ worker' \in Threads
      /\ UNCHANGED <<download, disk, stranded, sent, job>>
    BY ConstantsAreTyped DEF ThreadForgotten, fetching
<1>2. TypeOK'
    BY <1>1, TypeParts DEF Inv, TypeOK, Jobs, Threads, Strands
<1>3. DownloadOK' /\ FoundOne'
    BY <1>1 DEF Inv, DownloadOK, FoundOne
<1>4. RangeOK'
    BY <1>1 DEF Inv, RangeOK, InRange
<1>5. ThreadOK' /\ FileThere'
    BY <1>1 DEF Inv, ThreadOK, FileThere
<1>6. OthersGone'
    BY <1>1 DEF Inv, OthersGone, RawGone, ExtractGone, RawKept, ExtractKept
<1> QED
    BY <1>2, <1>3, <1>4, <1>5, <1>6 DEF Inv

-----------------------------------------------------------------------------
(* The start of a candidate, and the clean-up after one.                   *)

LEMMA BeginKeepsInv ==
    ASSUME Inv, NEW candidate \in Candidate, NEW url \in Url, Begin(candidate, url)
    PROVE  Inv'
<1>1. /\ job.at = "idle" /\ disk = {} /\ worker = NoThread /\ worker.at = "off"
      /\ download' = [NoDownload EXCEPT !.at = "connect", !.url = url]
      /\ job' = [Idle EXCEPT !.at = "acquire", !.route = Route(candidate),
                             !.number = candidate.number, !.of = candidate.of,
                             !.start = candidate.start, !.end = candidate.end]
      /\ stranded' = {} /\ UNCHANGED <<disk, sent, worker>>
    BY ConstantsAreTyped DEF Begin, StartAcquire
<1>2. /\ candidate.number \in Number \cup {None} /\ candidate.of \in Body \cup {None}
      /\ candidate.start \in Nat /\ candidate.end \in Nat
      /\ Route(candidate) \in {"catalog", "hint", "number"}
    BY CandidateAssumption DEF Route
<1>3. /\ job' \in Jobs /\ job'.at = "acquire"
      /\ job'.start = candidate.start /\ job'.end = candidate.end
  <2>1. job' = [at |-> "acquire", route |-> Route(candidate), number |-> candidate.number,
                start |-> candidate.start, end |-> candidate.end, of |-> candidate.of,
                source |-> None, pages |-> <<>>, file |-> None]
    BY <1>1 DEF Idle
  <2>2. <<>> \in Seq(Page) /\ candidate.start \in Int /\ candidate.end \in Int
    BY <1>2
  <2> QED
    BY <1>2, <2>1, <2>2 DEF Jobs
<1>4. /\ download' \in Download /\ download'.at = "connect" /\ download'.hop = 0
    BY <1>1, ConstantsAreTyped DEF Download, Positions
<1>5. sent = <<>> /\ Len(sent) = 0
    BY <1>1 DEF Inv, DownloadOK
<1>6. TypeOK'
    BY <1>1, <1>3, <1>4, TypeParts DEF Inv, TypeOK, Jobs, Threads, Strands
<1>7. DownloadOK'
    BY <1>1, <1>3, <1>4, <1>5 DEF DownloadOK
<1>8. RangeOK'
    BY <1>1, <1>2, <1>3 DEF RangeOK
<1>9. ThreadOK' /\ FileThere' /\ FoundOne'
    BY <1>1, <1>3 DEF ThreadOK, FileThere, FoundOne
<1>10. OthersGone'
    BY <1>1, <1>3 DEF OthersGone, RawGone, ExtractGone, RawKept, ExtractKept
<1> QED
    BY <1>6, <1>7, <1>8, <1>9, <1>10 DEF Inv

LEMMA CleanUpKeepsInv ==
    ASSUME Inv, CleanUp
    PROVE  Inv'
<1>1. /\ job.at = "idle" /\ worker = NoThread /\ worker.at = "off" /\ disk' = {}
      /\ UNCHANGED <<download, stranded, sent, job, worker>>
    BY ConstantsAreTyped DEF CleanUp
<1>2. TypeOK'
    BY <1>1, TypeParts DEF Inv, TypeOK, Jobs, Threads, Strands
<1>3. DownloadOK'
  <2>1. download.at = "off" /\ download.hop = 0 /\ sent = <<>>
    BY <1>1, ConstantsAreTyped DEF Inv, DownloadOK
  <2> QED
    BY <1>1, <2>1 DEF Inv, DownloadOK
<1>4. RangeOK' /\ ThreadOK' /\ FoundOne'
    BY <1>1 DEF Inv, RangeOK, ThreadOK, FoundOne, InRange
<1>5. FileThere' /\ OthersGone'
    BY <1>1 DEF FileThere, OthersGone, RawGone, ExtractGone, RawKept, ExtractKept
<1> QED
    BY <1>2, <1>3, <1>4, <1>5 DEF Inv

LEMMA NextKeepsInv == Inv /\ [Next]_vars => Inv'
<1> SUFFICES ASSUME Inv, [Next]_vars PROVE Inv'
    OBVIOUS
<1>1. CASE UNCHANGED vars
    BY <1>1 DEF vars, fetching, Inv, TypeOK, DownloadOK, RangeOK, ThreadOK, FileThere,
                OthersGone, RawGone, ExtractGone, RawKept, ExtractKept, FoundOne, InRange
<1>2. ASSUME NEW candidate \in Candidate, NEW url \in Url, Begin(candidate, url) PROVE Inv'
    BY <1>2, BeginKeepsInv
<1>3. CASE Next
    BY <1>2, <1>3, AcquireKeepsInv, AcquiredKeepsInv, ClassifyKeepsInv, FindRangeKeepsInv,
       StartCutKeepsInv, ThreadStepsKeepInv, CutReturnsKeepsInv, ThreadForgottenKeepsInv,
       CheckKeepsInv, LaterStagesKeepInv, TimeOutKeepsInv, AbortKeepsInv, CleanUpKeepsInv
    DEF Next, Proceed
<1> QED
    BY <1>1, <1>3

(* The invariant holds throughout, whatever sources and threads do.        *)
LEMMA AlwaysInv == Spec => []Inv
BY InitInv, NextKeepsInv, PTL DEF Spec

-----------------------------------------------------------------------------
(* Every variable keeps its type.                                          *)
THEOREM TypeCorrect == Spec => []TypeOK
<1>1. Inv => TypeOK
    BY DEF Inv
<1> QED
    BY <1>1, AlwaysInv, PTL

(* However a source redirects and whatever it sends: only checked URLs are *)
(* contacted, no more than the limit allows, and what is kept is a whole   *)
(* and sound PDF within the byte limit.                                    *)
THEOREM DownloadsWithinLimits == Spec => []WithinLimits
<1>1. Inv => WithinLimits
  <2> SUFFICES ASSUME Inv PROVE WithinLimits
    OBVIOUS
  <2>1. download \in Download /\ sent \in Seq(Url)
    BY TypeParts DEF Inv
  <2>2. download.hop \in 0..MaxRedirects /\ download.size \in 0..MaxBytes
    BY <2>1 DEF Download
  <2>3. Len(sent) <= MaxRedirects + 1
    BY <2>1, <2>2, LimitsAssumption DEF Inv, DownloadOK
  <2>4. download.size <= MaxBytes
    BY <2>2, LimitsAssumption
  <2> QED
    BY <2>3, <2>4 DEF Inv, DownloadOK, WithinLimits
<1> QED
    BY <1>1, AlwaysInv, PTL

(* A downloaded PDF nobody owns exists only after the total deadline, an   *)
(* extract only after a stage given up while it cuts or a failing write or *)
(* digest, and either after an exception nobody expects.                   *)
THEOREM FilesAreOwned == Spec => []FilesOwned
<1>1. Inv => FilesOwned
  <2> SUFFICES ASSUME Inv
      PROVE  FilesOwned
    OBVIOUS
  <2>1. /\ job \in Jobs /\ worker \in Threads /\ job.file \in {"raw", "extract", None}
        /\ worker.at \in ThreadPositions
        /\ job.at \in {"idle", "acquire", "accepted"} \cup Stages
    BY TypeParts DEF Inv, Jobs, Threads
  <2>2. job.at \in Settled => job.file \in {"raw", "extract"}
    BY DEF Inv, RangeOK
  <2>3. /\ job.at \in Looking \cup {"cutting"} => job.file = "raw"
        /\ job.at = "cutting" => worker.at # "off"
    BY DEF Inv, RangeOK
  <2>4. ASSUME RawKept, "raw" \in disk
        PROVE  Owned("raw")
    <3>1. job.at \notin {"idle", "acquire"} => job.file = "raw"
      BY <2>1, <2>2, <2>3, <2>4 DEF Inv, OthersGone, RawGone
    <3>2. job.at # "idle"
      BY <2>4 DEF Inv, OthersGone, RawGone
    <3>3. job.at = "acquire" => download.at \in {"stream", "parse", "have"}
      BY <2>4 DEF Inv, OthersGone, RawGone
    <3> QED
      BY <3>1, <3>2, <3>3 DEF Owned
  <2>5. ASSUME ExtractKept, "extract" \in disk
        PROVE  Owned("extract")
    <3>1. job.at \in Settled \cup {"cutting"}
      BY <2>1, <2>5 DEF Inv, OthersGone, ExtractGone
    <3>2. job.at \in Settled => job.file = "extract"
      BY <2>2, <2>5 DEF Inv, OthersGone, ExtractGone
    <3>3. job.at = "cutting" => worker.at \in {"unlink", "validate", "digest", "returned"}
      BY <2>1, <2>3, <2>5 DEF Inv, OthersGone, ExtractGone, ThreadPositions
    <3> QED
      BY <3>1, <3>2, <3>3 DEF Owned
  <2> QED
    BY <2>4, <2>5 DEF FilesOwned, RawKept, ExtractKept
<1> QED
    BY <1>1, AlwaysInv, PTL

(* An accepted case has its file with the pages that were verified, and no *)
(* thread is left that could write or delete it.                           *)
THEOREM AcceptedStaysIntact == Spec => []AcceptedIntact
<1>1. Inv => AcceptedIntact
  <2> SUFFICES ASSUME Inv, job.at = "accepted"
      PROVE  /\ job.file \in disk /\ worker = NoThread
             /\ job.pages = IF job.file = "raw"
                            THEN job.source.pages
                            ELSE SubSeq(job.source.pages, job.start, job.end)
    BY DEF AcceptedIntact
  <2> QED
    BY DEF Inv, FileThere, ThreadOK, RangeOK
<1> QED
    BY <1>1, AlwaysInv, PTL

(* Whatever a provider claimed and a document holds: an accepted file is   *)
(* one judgment and has the number of the case.                            *)
THEOREM AcceptedHoldsOne == Spec => []AcceptedIsOneJudgment
<1>1. Inv => AcceptedIsOneJudgment
    BY DEF Inv, FoundOne, AcceptedIsOneJudgment
<1> QED
    BY <1>1, AlwaysInv, PTL

-----------------------------------------------------------------------------
(* A range reaches as far as its judgment: it begins where that begins,    *)
(* and what lies between its end and the next judgment may go.             *)
Reaches(pages, start, end) ==
    /\ start \in DOMAIN pages /\ HasHead(pages[start])
    /\ end \in start..Len(pages)
    /\ \A i \in end + 1 .. SpanEnd(pages, start) :
          Decorative(pages[i]) \/ i >= start + MaxCasePages
    /\ BeginsIt(pages, start)

LEMMA SpanEndBounds ==
    ASSUME NEW pages \in Seq(Page), NEW start \in DOMAIN pages
    PROVE  /\ SpanEnd(pages, start) \in start..Len(pages)
           /\ \A i \in OtherAfter(pages, start) : SpanEnd(pages, start) < i
           /\ \A e \in start..Len(pages) :
                (\A i \in start + 1 .. e : pages[i].head \in {None, pages[start].head})
                    => e <= SpanEnd(pages, start)
<1> DEFINE other == OtherAfter(pages, start)
<1>1. start \in Nat /\ 1 <= start /\ start <= Len(pages) /\ Len(pages) \in Nat
    OBVIOUS
<1>2. other \subseteq start + 1 .. Len(pages) /\ other \subseteq Nat
    BY <1>1 DEF OtherAfter
<1>3. CASE other = {}
  <2>1. SpanEnd(pages, start) = Len(pages)
    BY <1>3 DEF SpanEnd
  <2> QED
    BY <1>1, <1>3, <2>1
<1>4. CASE other # {}
  <2>1. Min(other) \in other /\ \A i \in other : Min(other) <= i
    BY <1>2, <1>4, LeastOfSome
  <2>2. SpanEnd(pages, start) = Min(other) - 1
    BY <1>4 DEF SpanEnd
  <2> DEFINE least == Min(other)
  <2>3. /\ least \in start + 1 .. Len(pages) /\ pages[least].head \notin {None, pages[start].head}
        /\ \A i \in other : least <= i /\ i \in Nat
    BY <1>2, <2>1 DEF OtherAfter
  <2>4. SpanEnd(pages, start) = least - 1
    BY <2>2
  <2> HIDE DEF least
  <2>5. SpanEnd(pages, start) \in start..Len(pages)
    BY <1>1, <2>3, <2>4
  <2>6. \A i \in other : SpanEnd(pages, start) < i
    BY <1>1, <2>3, <2>4
  <2>7. ASSUME NEW e \in start..Len(pages),
               \A i \in start + 1 .. e : pages[i].head \in {None, pages[start].head}
        PROVE  e <= SpanEnd(pages, start)
    <3>1. ~(least <= e)
      BY <1>1, <2>3, <2>7
    <3> QED
      BY <1>1, <2>3, <2>4, <3>1
  <2> QED
    BY <2>5, <2>6, <2>7
<1> QED
    BY <1>3, <1>4

(* Cut where it was validated, it is the whole judgment.                   *)
LEMMA ReachesWhole ==
    ASSUME NEW pages \in Seq(Page), NEW start, NEW end, NEW number,
           Reaches(pages, start, end), OneJudgment(SubSeq(pages, start, end), number)
    PROVE  WholeJudgment(pages, start, end) /\ BeginsIt(pages, start)
<1> DEFINE part == SubSeq(pages, start, end)
<1>1. /\ start \in Nat /\ 1 <= start /\ start <= Len(pages) /\ Len(pages) \in Nat
      /\ end \in start..Len(pages) /\ start \in DOMAIN pages
    BY DEF Reaches
<1>2. /\ Len(part) = end - start + 1 /\ part \in Seq(Page)
      /\ \A i \in 1..end - start + 1 : part[i] = pages[start + i - 1]
    BY <1>1
<1>3. \A i \in DOMAIN part : part[i].head \in {None, part[1].head}
    BY DEF OneJudgment
<1>4. ASSUME NEW i \in start + 1 .. end PROVE pages[i].head \in {None, pages[start].head}
  <2> DEFINE j == i - start + 1
  <2>1. /\ j \in 1..end - start + 1 /\ 1 \in 1..end - start + 1
        /\ start + j - 1 = i /\ start + 1 - 1 = start
    BY <1>1
  <2>2. j \in DOMAIN part
    BY <1>2, <2>1
  <2> HIDE DEF j, part
  <2>3. part[j] = pages[i] /\ part[1] = pages[start]
    BY <1>2, <2>1
  <2> QED
    BY <1>3, <2>2, <2>3
<1>5. end <= SpanEnd(pages, start) /\ SpanEnd(pages, start) \in start..Len(pages)
    BY <1>1, <1>4, SpanEndBounds
<1>6. end \in start..SpanEnd(pages, start)
    BY <1>1, <1>5
<1> QED
    BY <1>6 DEF Reaches, WholeJudgment

(* A row of the index: the pages left out before the next start are short, *)
(* and a page before it that belongs to its case comes before another's.   *)
LEMMA RowReaches ==
    ASSUME NEW pages \in Seq(Page), NEW row \in IndexedRows(pages)
    PROVE  Reaches(pages, row.start, row.end)
<1>1. PICK start \in CaseStarts(pages) :
          row = [start |-> start, end |-> IndexedEnd(pages, start), number |-> pages[start].head]
    BY DEF IndexedRows
<1> DEFINE end == IndexedEnd(pages, start)
           last == LastPage(pages, start)
           span == SpanEnd(pages, start)
<1>2. /\ start \in Headed(pages) /\ start \in DOMAIN pages /\ start \in Nat
      /\ DOMAIN pages = 1..Len(pages) /\ Len(pages) \in Nat /\ Headed(pages) \subseteq 1..Len(pages)
    BY StartsArePages
<1>3. /\ end \in start..last /\ last \in start..Len(pages)
      /\ \A i \in CaseStarts(pages) : i > start => last < i
    BY IndexedEndInside, LastPageBounds
<1>4. HasHead(pages[start])
    BY <1>2 DEF Headed
<1>5. \A i \in DOMAIN pages : pages[i] \in Page /\ pages[i].length \in Nat
  <2>1. \A i \in DOMAIN pages : pages[i] \in Page
    BY <1>2
  <2> QED
    BY <2>1 DEF Page
<1>6. ASSUME NEW i \in end + 1 .. last PROVE Decorative(pages[i])
  <2> DEFINE kept == {k \in start..last : k = start \/ pages[k].length >= 120}
  <2>1. kept \subseteq 0..last /\ kept # {} /\ last \in Nat
    BY <1>2, <1>3
  <2>2. \A k \in kept : k <= Max(kept)
    BY <2>1, GreatestOfSome
  <2>3. Max(kept) = end
    BY DEF IndexedEnd, LastPage
  <2>4. i \in start..last /\ ~(i <= end) /\ i \in DOMAIN pages
    BY <1>2, <1>3
  <2>5. ~(pages[i].length >= 120)
    BY <2>2, <2>3, <2>4
  <2> QED
    BY <1>5, <2>4, <2>5 DEF Decorative
<1>7. span <= last
  <2> DEFINE next == {i \in CaseStarts(pages) : i > start}
  <2>1. span \in start..Len(pages)
    BY <1>2, SpanEndBounds
  <2>2. CASE next = {}
    <3>1. last = Len(pages)
      BY <2>2 DEF LastPage
    <3> QED
      BY <1>2, <2>1, <3>1
  <2>3. CASE next # {}
    <3>1. next \subseteq Nat
      BY <1>2, StartsArePages
    <3>2. PICK n \in next : last = n - 1
      <4>1. Min(next) \in next
        BY <2>3, <3>1, LeastOfSome
      <4>2. last = Min(next) - 1
        BY <2>3 DEF LastPage
      <4> QED
        BY <4>1, <4>2
    <3>3. n \in CaseStarts(pages) /\ n \in Headed(pages) /\ n \in 1..Len(pages) /\ n > start
      BY <1>2, StartsArePages
    <3> DEFINE before == HeadedBefore(pages, n)
    <3>4. start \in before /\ before \subseteq 0..n /\ before \subseteq Headed(pages)
      BY <1>2, <3>3 DEF HeadedBefore
    <3>5. Max(before) \in before /\ \A i \in before : i <= Max(before)
      BY <3>3, <3>4, GreatestOfSome
    <3>6. /\ Max(before) \in Headed(pages) /\ Max(before) \in start..last
      BY <1>2, <3>2, <3>3, <3>4, <3>5 DEF HeadedBefore
    <3>7. pages[Max(before)].head = pages[start].head
      BY <3>6, SameUpToNextStart
    <3>8. pages[n].head # pages[start].head /\ HasHead(pages[n])
      BY <3>3, <3>4, <3>7 DEF CaseStarts, Headed
    <3>9. n \in OtherAfter(pages, start)
      BY <1>2, <3>3, <3>8 DEF OtherAfter, HasHead
    <3>10. span < n
      BY <1>2, <3>9, SpanEndBounds
    <3> QED
      BY <1>2, <2>1, <3>2, <3>3, <3>10
  <2> QED
    BY <2>2, <2>3
<1>8. \A i \in end + 1 .. span : Decorative(pages[i]) \/ i >= start + MaxCasePages
  <2>1. span \in start..Len(pages)
    BY <1>2, SpanEndBounds
  <2>2. \A i \in end + 1 .. span : i \in end + 1 .. last
    BY <1>2, <1>3, <1>7, <2>1
  <2> QED
    BY <1>6, <2>2
<1>9. BeginsIt(pages, start)
  <2> SUFFICES ASSUME NEW i \in 1..start - 1, pages[i].head = pages[start].head,
                      ~Decorative(pages[i])
               PROVE  start \notin i..SpanEnd(pages, i)
    BY DEF BeginsIt
  <2>1. i \in DOMAIN pages /\ i \in Nat /\ i < start
    BY <1>2
  <2>2. i \in Headed(pages)
    <3>1. pages[i].length >= 100
      BY <1>5, <2>1 DEF Decorative
    <3> QED
      BY <1>4, <2>1, <3>1 DEF Headed, HasHead
  <2> DEFINE before == HeadedBefore(pages, start)
  <2>3. i \in before /\ before \subseteq 0..start /\ before \subseteq Headed(pages)
    BY <1>2, <2>1, <2>2 DEF HeadedBefore
  <2>4. Max(before) \in before /\ \A j \in before : j <= Max(before)
    BY <1>2, <2>3, GreatestOfSome
  <2>5. pages[Max(before)].head # pages[start].head
    BY <2>3 DEF CaseStarts
  <2> DEFINE m == Max(before)
  <2>6. /\ m \in Headed(pages) /\ m < start /\ i <= m /\ m \in 1..Len(pages)
        /\ pages[m].head # pages[start].head /\ HasHead(pages[m])
    BY <1>2, <2>3, <2>4, <2>5 DEF HeadedBefore, Headed
  <2> HIDE DEF m
  <2>7. m # i
    BY <2>6
  <2>8. m \in OtherAfter(pages, i)
    BY <2>1, <2>6, <2>7 DEF OtherAfter, HasHead
  <2>9. SpanEnd(pages, i) < m /\ SpanEnd(pages, i) \in i..Len(pages)
    BY <2>1, <2>8, SpanEndBounds
  <2> QED
    BY <2>1, <2>6, <2>9
<1>10. end \in start..Len(pages)
    BY <1>2, <1>3
<1>11. Reaches(pages, start, end)
    BY <1>2, <1>4, <1>8, <1>9, <1>10 DEF Reaches
<1> QED
    BY <1>1, <1>11

(* Looked up by its number: from the first page with it.                   *)
LEMMA TrimmedIsDecoration ==
    ASSUME NEW some, NEW start \in Nat, NEW end \in Nat, start <= end
    PROVE  /\ Trimmed(some, start, end) \in start..end
           /\ \A i \in Trimmed(some, start, end) + 1 .. end : Decorative(some[i])
<1> DEFINE kept == {i \in start..end : i = start \/ ~Decorative(some[i])}
<1>1. kept \subseteq 0..end /\ kept # {}
    OBVIOUS
<1>2. Max(kept) \in kept /\ \A i \in kept : i <= Max(kept)
    BY <1>1, GreatestOfSome
<1>3. Trimmed(some, start, end) = Max(kept)
    BY DEF Trimmed
<1> DEFINE top == Max(kept)
<1>4. top \in start..end /\ \A i \in start..end : ~Decorative(some[i]) => i <= top
    BY <1>2
<1>5. Trimmed(some, start, end) = top
    BY <1>3
<1> HIDE DEF top
<1>6. ASSUME NEW i \in top + 1 .. end PROVE Decorative(some[i])
  <2>1. i \in start..end /\ ~(i <= top)
    BY <1>4
  <2> QED
    BY <1>4, <2>1
<1> QED
    BY <1>4, <1>5, <1>6

LEMMA LocatedReaches ==
    ASSUME NEW pages \in Seq(Page), NEW number \in Number \cup {None},
           LocatedRange(pages, number) # NoRange
    PROVE  Reaches(pages, LocatedRange(pages, number).start, LocatedRange(pages, number).end)
<1> DEFINE found == {i \in DOMAIN pages : pages[i].head = number}
           start == Min(found)
           hardEnd == Min({Len(pages), start + MaxCasePages - 1})
           other == {i \in start + 1 .. hardEnd : pages[i].head \notin {None, number}}
           end == IF other = {} THEN hardEnd ELSE Min(other) - 1
<1>1. number # None /\ found # {}
    BY DEF LocatedRange
<1>2. LocatedRange(pages, number) = [start |-> start, end |-> Trimmed(pages, start, end)]
    BY <1>1 DEF LocatedRange
<1>3. found \subseteq Nat /\ Len(pages) \in Nat /\ MaxCasePages \in Nat /\ MaxCasePages >= 1
    BY PagesAssumption
<1>4. start \in found /\ \A i \in found : start <= i
    BY <1>1, <1>3, LeastOfSome
<1>5. /\ start \in DOMAIN pages /\ start \in Nat /\ 1 <= start /\ start <= Len(pages)
      /\ pages[start].head = number /\ HasHead(pages[start])
      /\ \A i \in DOMAIN pages : pages[i].head = number => start <= i
    BY <1>1, <1>3, <1>4 DEF HasHead
<1> DEFINE range == [start |-> start, end |-> Trimmed(pages, start, end)]
           span == SpanEnd(pages, start)
<1> HIDE DEF start, found
<1>6. /\ hardEnd \in start..Len(pages)
      /\ hardEnd = Len(pages) \/ hardEnd = start + MaxCasePages - 1
  <2> DEFINE most == start + MaxCasePages - 1
  <2>1. Len(pages) \in Int /\ most \in Int /\ start <= most
    BY <1>3, <1>5
  <2> HIDE DEF most
  <2>2. /\ Min({Len(pages), most}) \in {Len(pages), most}
        /\ Min({Len(pages), most}) <= Len(pages)
    BY <2>1, LeastOfTwo
  <2>3. hardEnd = Min({Len(pages), most})
    BY DEF most
  <2>4. hardEnd \in start..Len(pages) /\ (hardEnd = Len(pages) \/ hardEnd = most)
    <3> HIDE DEF hardEnd
    <3> QED
      BY <1>3, <1>5, <2>1, <2>2, <2>3
  <2> QED
    BY <2>4 DEF most
<1> HIDE DEF hardEnd
<1>7. span \in start..Len(pages) /\ \A i \in OtherAfter(pages, start) : span < i
    BY <1>5, SpanEndBounds
<1>8. end \in start..Len(pages) /\ \A i \in end + 1 .. span : i >= start + MaxCasePages
  <2>1. CASE other = {}
    BY <1>3, <1>5, <1>6, <1>7, <2>1
  <2>2. CASE other # {}
    <3>1. other \subseteq Nat
      BY <1>5, <1>6
    <3>2. Min(other) \in other
      BY <2>2, <3>1, LeastOfSome
    <3> DEFINE first == Min(other)
    <3>3. first \in start + 1 .. hardEnd /\ pages[first].head \notin {None, number}
      BY <3>2
    <3>4. end = first - 1
      BY <2>2
    <3> HIDE DEF first, end
    <3>5. first \in OtherAfter(pages, start)
      BY <1>3, <1>5, <1>6, <3>3 DEF OtherAfter
    <3>6. span < first
      BY <1>7, <3>5
    <3> QED
      BY <1>3, <1>5, <1>6, <1>7, <3>3, <3>4, <3>6
  <2> QED
    BY <2>1, <2>2
<1> HIDE DEF end
<1> DEFINE trimmed == Trimmed(pages, start, end)
<1>9. trimmed \in start..end /\ \A i \in trimmed + 1 .. end : Decorative(pages[i])
    BY <1>3, <1>5, <1>8, TrimmedIsDecoration
<1> HIDE DEF trimmed
<1>10. ASSUME NEW i \in trimmed + 1 .. span
       PROVE  Decorative(pages[i]) \/ i >= start + MaxCasePages
  <2>1. i \in trimmed + 1 .. end \/ i \in end + 1 .. span
    BY <1>3, <1>5, <1>7, <1>8, <1>9
  <2> QED
    BY <1>8, <1>9, <2>1
<1>11. BeginsIt(pages, start)
  <2> SUFFICES ASSUME NEW i \in 1..start - 1, pages[i].head = pages[start].head PROVE FALSE
    BY DEF BeginsIt
  <2>1. i \in DOMAIN pages /\ ~(start <= i)
    BY <1>3, <1>5
  <2> QED
    BY <1>5, <2>1
<1>12. trimmed \in start..Len(pages)
    BY <1>3, <1>5, <1>8, <1>9
<1>13. Reaches(pages, start, trimmed)
    BY <1>5, <1>10, <1>11, <1>12 DEF Reaches
<1> QED
    BY <1>2, <1>13 DEF trimmed

-----------------------------------------------------------------------------
(* A catalog row stays what the indexer stored until its range is taken;   *)
(* the range that is taken reaches as far as its judgment.                 *)
RowKept ==
    job.at \in {"acquire", "classify", "range"} /\ job.route = "catalog" =>
        /\ job.of \in Body
        /\ [start |-> job.start, end |-> job.end, number |-> job.number]
              \in IndexedRows(job.of.pages)
RangeReaches ==
    /\ job.route # "hint"
    /\ job.at \in {"cut", "cutting"} \/ (job.at \in Settled /\ job.file = "extract")
    => Reaches(job.source.pages, job.start, job.end)
WholeInv == RowKept /\ RangeReaches

LEMMA IdleIsWhole == job' = Idle => WholeInv'
BY DEF Idle, WholeInv, RowKept, RangeReaches

LEMMA UnchangedIsWhole == job' = job /\ WholeInv => WholeInv'
BY DEF WholeInv, RowKept, RangeReaches

LEMMA OnwardIsWhole ==
    ASSUME Inv, WholeInv, NEW stage, Goto(stage),
           \/ job.at = "classify" /\ stage \in {"range", "check"}
           \/ job.at = "cut" /\ stage = "cutting"
           \/ job.at \in Settled /\ stage \in Settled
    PROVE  WholeInv'
<1>1. job \in Jobs
    BY TypeParts DEF Inv
<1>2. /\ job'.at = stage /\ job'.route = job.route /\ job'.number = job.number
      /\ job'.start = job.start /\ job'.end = job.end /\ job'.of = job.of
      /\ job'.source = job.source /\ job'.file = job.file
    BY <1>1 DEF Goto, Jobs
<1>3. job.at = "classify" => job.file = "raw"
    BY DEF Inv, RangeOK
<1> QED
    BY <1>2, <1>3 DEF WholeInv, RowKept, RangeReaches

LEMMA BeginIsWhole ==
    ASSUME NEW candidate \in Candidate, NEW url \in Url, Begin(candidate, url)
    PROVE  WholeInv'
<1>1. /\ job'.at = "acquire" /\ job'.route = Route(candidate)
      /\ job'.number = candidate.number /\ job'.of = candidate.of
      /\ job'.start = candidate.start /\ job'.end = candidate.end
    BY DEF Begin, Idle
<1>2. Route(candidate) = "catalog" => candidate.of # None
    BY DEF Route
<1>3. candidate.of \in Body \cup {None}
    BY CandidateAssumption
<1> QED
    BY <1>1, <1>2, <1>3, RowAssumption DEF WholeInv, RowKept, RangeReaches

LEMMA AcquiredIsWhole ==
    ASSUME Inv, WholeInv, Acquired
    PROVE  WholeInv'
<1>1. job \in Jobs /\ job.at = "acquire"
    BY TypeParts DEF Inv, Acquired
<1>2. CASE job' = Idle
    BY <1>2, IdleIsWhole
<1>3. CASE job' = [job EXCEPT !.at = "classify", !.file = "raw", !.source = download.body,
                              !.pages = download.body.pages]
  <2>1. /\ job'.at = "classify" /\ job'.route = job.route /\ job'.number = job.number
        /\ job'.start = job.start /\ job'.end = job.end /\ job'.of = job.of
    BY <1>1, <1>3 DEF Jobs
  <2> QED
    BY <1>1, <2>1 DEF WholeInv, RowKept, RangeReaches
<1> QED
    BY <1>2, <1>3 DEF Acquired

LEMMA FindRangeIsWhole ==
    ASSUME Inv, WholeInv, FindRange
    PROVE  WholeInv'
<1>1. /\ job \in Jobs /\ job.at = "range" /\ job.source \in Body
      /\ job.pages = job.source.pages /\ job.pages \in Seq(Page)
      /\ job.number \in Number \cup {None}
    BY TypeParts DEF Inv, RangeOK, FindRange, Jobs
<1>2. ASSUME NEW range, NEW number, UseRange(range, number),
             range # NoRange /\ job.route # "hint" =>
                Reaches(job.source.pages, range.start, range.end)
      PROVE  WholeInv'
  <2>1. CASE range = NoRange
    BY <1>2, <2>1, IdleIsWhole DEF UseRange, GiveUp
  <2>2. CASE range # NoRange
    <3>1. job' = [job EXCEPT !.at = "cut", !.start = range.start, !.end = range.end,
                             !.number = number]
      BY <1>2, <2>2 DEF UseRange
    <3>2. /\ job'.at = "cut" /\ job'.route = job.route /\ job'.source = job.source
          /\ job'.start = range.start /\ job'.end = range.end
      BY <1>1, <3>1 DEF Jobs
    <3> QED
      BY <1>2, <2>2, <3>2 DEF WholeInv, RowKept, RangeReaches
  <2> QED
    BY <2>1, <2>2
<1>3. CASE job.route = "catalog" /\ UseRange(CatalogRange, job.number)
  <2>1. ASSUME CatalogRange # NoRange
        PROVE  Reaches(job.source.pages, CatalogRange.start, CatalogRange.end)
    <3>1. /\ job.of = job.source
          /\ CatalogRange.start = job.start /\ CatalogRange.end = job.end
      BY <2>1 DEF CatalogRange
    <3> DEFINE row == [start |-> job.start, end |-> job.end, number |-> job.number]
    <3>2. row \in IndexedRows(job.source.pages)
      BY <1>1, <1>3, <3>1 DEF WholeInv, RowKept
    <3>3. row.start = job.start /\ row.end = job.end
      OBVIOUS
    <3> HIDE DEF row
    <3>4. Reaches(job.source.pages, row.start, row.end)
      BY <1>1, <3>2, RowReaches
    <3> QED
      BY <3>1, <3>3, <3>4
  <2> QED
    BY <1>2, <1>3, <2>1
<1>4. CASE job.route = "number" /\ UseRange(LocatedRange(job.pages, job.number), job.number)
  <2> DEFINE range == LocatedRange(job.pages, job.number)
  <2>1. range # NoRange => Reaches(job.source.pages, range.start, range.end)
    BY <1>1, LocatedReaches
  <2> HIDE DEF range
  <2> QED
    BY <1>2, <1>4, <2>1 DEF range
<1>5. CASE job.route = "hint"
  <2> DEFINE range == RefinedRange(job.pages, job.start, job.end, job.number)
             number == IF range = NoRange THEN None ELSE job.pages[range.start].head
  <2>1. UseRange(range, number)
    BY <1>5 DEF FindRange
  <2> HIDE DEF range, number
  <2> QED
    BY <1>2, <1>5, <2>1
<1> QED
    BY <1>3, <1>4, <1>5 DEF FindRange

LEMMA CutReturnsIsWhole ==
    ASSUME Inv, WholeInv, CutReturns
    PROVE  WholeInv'
<1>1. job \in Jobs /\ job.at = "cutting"
    BY TypeParts DEF Inv, CutReturns
<1>2. CASE job' = Idle
    BY <1>2, IdleIsWhole
<1>3. CASE job' = [job EXCEPT !.at = "check", !.file = "extract", !.pages = CutPages]
  <2>1. /\ job'.at = "check" /\ job'.route = job.route /\ job'.source = job.source
        /\ job'.start = job.start /\ job'.end = job.end
    BY <1>1, <1>3 DEF Jobs
  <2> QED
    BY <1>1, <2>1 DEF WholeInv, RowKept, RangeReaches
<1> QED
    BY <1>2, <1>3 DEF CutReturns, GiveUp

LEMMA CheckIsWhole ==
    ASSUME Inv, WholeInv, Check
    PROVE  WholeInv'
<1>1. job \in Jobs /\ job.at = "check"
    BY TypeParts DEF Inv, Check
<1>2. PICK number : job' = Idle \/ job' = [job EXCEPT !.at = "used", !.number = number]
    BY DEF Check, GiveUp
<1>3. CASE job' = Idle
    BY <1>3, IdleIsWhole
<1>4. CASE job' = [job EXCEPT !.at = "used", !.number = number]
  <2>1. /\ job'.at = "used" /\ job'.route = job.route /\ job'.source = job.source
        /\ job'.start = job.start /\ job'.end = job.end /\ job'.file = job.file
    BY <1>1, <1>4 DEF Jobs
  <2> QED
    BY <1>1, <2>1 DEF WholeInv, RowKept, RangeReaches
<1> QED
    BY <1>2, <1>3, <1>4

LEMMA NextIsWhole == Inv /\ WholeInv /\ [Next]_vars => WholeInv'
<1> SUFFICES ASSUME Inv, WholeInv, [Next]_vars PROVE WholeInv'
    OBVIOUS
<1>1. CASE UNCHANGED vars
    BY <1>1, UnchangedIsWhole DEF vars
<1>2. ASSUME NEW candidate \in Candidate, NEW url \in Url, Begin(candidate, url) PROVE WholeInv'
    BY <1>2, BeginIsWhole
<1>3. CASE Downloading \/ Thread \/ ThreadForgotten \/ CleanUp
  <2>1. job' = job
    BY <1>3 DEF Downloading, Thread, ReadSource, WriteExtract, UnlinkSource, ValidateExtract,
                DigestExtract, ThreadForgotten, CleanUp
  <2> QED
    BY <2>1, UnchangedIsWhole
<1>4. CASE StageTimesOut \/ Abort \/ HandOver
    BY <1>4, IdleIsWhole DEF StageTimesOut, Abort, HandOver, GiveUp
<1>5. CASE Classify
  <2>1. PICK stage \in {"range", "check"} : Goto(stage)
    BY <1>5 DEF Classify
  <2> QED
    BY <1>5, <2>1, OnwardIsWhole DEF Classify
<1>6. CASE StartCut
    BY <1>6, OnwardIsWhole DEF StartCut
<1>7. CASE CheckUsed \/ ReadText \/ Reserve
  <2>1. CASE job' = Idle
    BY <2>1, IdleIsWhole
  <2>2. CASE job' # Idle
    <3>1. /\ job.at \in Settled
          /\ Goto("text") \/ Goto("reserve") \/ Goto("accepted")
      BY <1>7, <2>2 DEF CheckUsed, ReadText, Reserve, GiveUp
    <3>2. \A stage \in {"text", "reserve", "accepted"} : Goto(stage) => WholeInv'
      BY <3>1, OnwardIsWhole
    <3> QED
      BY <3>1, <3>2
  <2> QED
    BY <2>1, <2>2
<1> QED
    BY <1>1, <1>2, <1>3, <1>4, <1>5, <1>6, <1>7, AcquiredIsWhole, FindRangeIsWhole,
       CutReturnsIsWhole, CheckIsWhole DEF Next, Proceed

(* An extract by catalog row or case number is its whole judgment, for any *)
(* documents, rows of the indexer and limits, whatever file the source     *)
(* serves by now.                                                          *)
THEOREM AcceptedStaysWhole == Spec => []AcceptedIsWhole
<1>1. Init => WholeInv
    BY DEF Init, Idle, WholeInv, RowKept, RangeReaches
<1>2. Inv /\ WholeInv => AcceptedIsWhole
  <2> SUFFICES ASSUME Inv, WholeInv, job.at = "accepted", job.file = "extract",
                      job.route # "hint"
               PROVE  /\ WholeJudgment(job.source.pages, job.start, job.end)
                      /\ BeginsIt(job.source.pages, job.start)
    BY DEF AcceptedIsWhole
  <2>1. /\ job.source \in Body
        /\ job.pages = SubSeq(job.source.pages, job.start, job.end)
        /\ OneJudgment(job.pages, job.number)
    BY DEF Inv, RangeOK, FoundOne
  <2>2. job.source.pages \in Seq(Page)
    BY <2>1, BodyIsTyped
  <2>3. Reaches(job.source.pages, job.start, job.end)
    BY DEF WholeInv, RangeReaches
  <2> QED
    BY <2>1, <2>2, <2>3, ReachesWhole
<1> QED
    BY <1>1, <1>2, AlwaysInv, NextIsWhole, PTL DEF Spec
===============================================================================
