---------------------------- MODULE PreviewSession ----------------------------
(***************************************************************************)
(* One scheduler session of one torrent: finding its metadata, then         *)
(* attempt after attempt to make a preview (preview_pipeline._run_session,  *)
(* metadata.py, PreviewEngine, the download loop of torrent/client.py).     *)
(*                                                                         *)
(* Clocks are abstracted: wherever the code compares a time with a budget,  *)
(* either side is possible.  Bytes are small numbers; what is downloaded    *)
(* counts in whole pieces.  A candidate frame is its anchor and its rank    *)
(* by score.  Sessions that overlap are in TorrentCache and                 *)
(* PreviewArtifacts, the queue in TorrentScheduler.  An operator named      *)
(* ..._Fault is a seeded fault and not part of the model.                   *)
(***************************************************************************)
EXTENDS Integers, Sequences, SequencesExt, FiniteSetsExt, Sequencing

CONSTANTS
    Payloads,       \* what a metadata source may send, see Payload
    NoPayload,
    Resolvers,      \* number of HTTP resolvers
    DhtEnabled,
    Target,         \* TARGET_FRAMES
    AnchorRange, EdgeRange, RetryRanges,    \* bytes
    MinCandidates, MaxCandidates,           \* of an anchor, for the selector
    ExtractPerAnchor,
    Bootstrap       \* _METADATA_BOOTSTRAP_PIECES_PER_EDGE

VARIABLES
    pc,
    answers,    \* kinds of the errors of the sources asked so far
    payload,    \* the stored .torrent
    active,     \* the libtorrent handle is retained
    have,       \* pieces libtorrent has
    ranges,     \* byte ranges of the last download
    floor,      \* last_decode_complete_piece_count
    count,      \* last_complete_piece_count of the attempt
    downloaded, \* downloaded_bytes, in pieces, when the attempt last looked
    clean,      \* clean candidates of each anchor, those above the cap not counted
    missing,    \* anchors with too few
    previous,   \* previous_retry_anchor_indexes
    rung,       \* steps of the retry ladder taken
    result,     \* the attempt's PreviewResult
    outcome,    \* processingLastOutcome
    checked     \* history: downloaded when floor was set

source == <<answers, payload>>
torrent == <<active, have, ranges>>
progress == <<count, downloaded>>
ladder == <<clean, missing, previous, rung>>
checkpoint == <<floor, checked>>
vars == <<pc, answers, payload, active, have, ranges, floor, count, downloaded, clean,
          missing, previous, rung, result, outcome, checked>>

None == -1

Anchor == 0 .. Target - 1

Kind == {"transient", "permanent"}

File == [video : BOOLEAN, shared : Nat, length : Int]

\* .torrent bytes: bencoded, cut short inside a token, or something else.
Payload == [shape : {"bencoded", "cut", "other"}, info : BOOLEAN, named : BOOLEAN,
            piece : Nat \ {0}, files : Seq(File)]

\* PreviewEngineConfig.__post_init__
ConfigOK ==
    /\ 1 <= MinCandidates /\ MinCandidates <= MaxCandidates
    /\ MaxCandidates <= ExtractPerAnchor
    /\ 1 <= AnchorRange /\ 1 <= EdgeRange
    /\ \A i \in DOMAIN RetryRanges :
          RetryRanges[i] > IF i = 1 THEN AnchorRange ELSE RetryRanges[i - 1]

\* What the worker's settings add to it.
SettingsOK == 1 <= Resolvers /\ ConfigOK

ASSUME SessionAssumption ==
    /\ Payloads \subseteq Payload /\ NoPayload \notin Payload
    /\ Resolvers \in Nat /\ DhtEnabled \in BOOLEAN
    /\ {Target, Bootstrap} \subseteq Nat \ {0}
    /\ Target < 1000000     \* or a ratio of six digits cannot tell the last anchors from the end
    /\ {AnchorRange, EdgeRange, MinCandidates, MaxCandidates, ExtractPerAnchor} \subseteq Nat
    /\ RetryRanges \in Seq(Nat)
    /\ SettingsOK

Sizes(files) == Folded(LAMBDA sum, f : sum + f.length, 0, files)
-----------------------------------------------------------------------------
(***************************************************************************)
(* The two parsers: metadata.parse_torrent, which decides whether a payload *)
(* is stored, and parse_torrent_metadata, which the engine reads it with.   *)
(***************************************************************************)

\* bytes.index and int raise ValueError inside a token that is cut.
Bdecoded(p) ==
    CASE p.shape = "cut" -> "raises" [] p.shape = "other" -> "transient" [] OTHER -> "success"

\* A length that is no integer counts 0, a negative one what it is.
ParseTorrent(p) ==
    CASE Bdecoded(p) # "success" -> Bdecoded(p)
      [] ~p.info -> "permanent"
      [] Sizes(p.files) <= 0 -> "permanent"
      [] OTHER -> "success"

ExpectFiles(files) == \A i \in DOMAIN files : files[i].length >= 0

\* The strict parser takes bencoded dictionaries only, without an end missing or more.
Bencoded(p) == p.shape = "bencoded"

Usable(p) == Bencoded(p) /\ p.info /\ p.named /\ ExpectFiles(p.files)

IsVideo(f) == f.video /\ f.length > 0

Videos(p) == {i \in DOMAIN p.files : IsVideo(p.files[i])}

\* The video most like the torrent's name, then the largest, then the first.
Selected(p) ==
    LET Beats(f, g) == f.shared > g.shared \/ (f.shared = g.shared /\ f.length > g.length)
    IN CHOOSE i \in Videos(p) : \A j \in Videos(p) \ {i} :
          \/ Beats(p.files[i], p.files[j])
          \/ (~Beats(p.files[j], p.files[i]) /\ i < j)

Length(p) == p.files[Selected(p)].length

Offset(p) == Sizes(SubSeq(p.files, 1, Selected(p) - 1))
-----------------------------------------------------------------------------
(***************************************************************************)
(* PreviewLayoutBuilder: the byte ranges to download, half open.            *)
(***************************************************************************)

Bytes(start, end) == [start |-> start, end |-> end]

\* (a + 1) / (Target + 1) rounded to six digits, in millionths.
Ratio(a) == (2000000 * (a + 1) + Target + 1) \div (2 * (Target + 1))

Center(size, a) == (size * Ratio(a)) \div 1000000

AtMost(size, b) == Max({1, Min({size, b})})

EdgeRanges(size, b) == {Bytes(0, Min({size, b})), Bytes(Max({0, size - b}), size)}

Window(size, b, a) ==
    LET start == Min({Max({0, Center(size, a) - b \div 2}), Max({0, size - b})})
    IN Bytes(start, Min({size, start + b}))

Windows(size, b, anchors) == {Window(size, b, a) : a \in anchors}

\* A range that touches the one before it extends it.
Merge_Fault(merged, r) ==     \* and may cut it short
    IF merged = <<>> \/ r.start > Last(merged).end THEN Append(merged, r)
    ELSE [merged EXCEPT ![Len(merged)].end = r.end]
Merge(merged, r) ==
    IF merged = <<>> \/ r.start > Last(merged).end THEN Append(merged, r)
    ELSE [merged EXCEPT ![Len(merged)].end = Max({@, r.end})]

Merged(rs) ==
    LET Before(r, s) == r.start < s.start \/ (r.start = s.start /\ r.end > s.end)
    IN Folded(Merge, <<>>, Sorted(rs, Before))

Layout(size) ==
    LET a == AtMost(size, AnchorRange)
        e == AtMost(size, EdgeRange)
    IN IF a >= size /\ e >= size THEN <<Bytes(0, size)>>
       ELSE Merged(EdgeRanges(size, e) \cup Windows(size, a, Anchor))

AnchorLayout(size, b, anchors) == Merged(Windows(size, AtMost(size, b), anchors))
-----------------------------------------------------------------------------
(***************************************************************************)
(* The pieces of a layout and the order of their deadlines.                 *)
(***************************************************************************)

PieceOf(p, byte) == (Offset(p) + byte) \div p.piece

PiecesOf(p, r) == PieceOf(p, r.start) .. PieceOf(p, Max({r.start, r.end - 1}))

Requested(p, rs) == UNION {PiecesOf(p, rs[i]) : i \in DOMAIN rs}

FilePieces(p) == PiecesOf(p, Bytes(0, Length(p)))

\* The pieces a range adds to those before it; the range at the end backwards.
Groups(p, rs) ==
    LET New(i) == PiecesOf(p, rs[i]) \ Requested(p, SubSeq(rs, 1, i - 1))
        Group(i) == IF rs[i].end >= Length(p) THEN Sorted(New(i), >)
                    ELSE Ascending(New(i))
    IN Passing([i \in DOMAIN rs |-> Group(i)], LAMBDA g : g # <<>>)

RoundRobin(groups) ==
    LET Turn(s, t) == s[1] < t[1] \/ (s[1] = t[1] /\ s[2] < t[2])
        turns == UNION {{<<k, g>> : k \in DOMAIN groups[g]} : g \in DOMAIN groups}
        order == Sorted(turns, Turn)
    IN [i \in DOMAIN order |-> groups[order[i][2]][order[i][1]]]

\* The first pieces of the first and the last group come before the others.
DeadlineOrder(p, rs) ==
    LET groups == Groups(p, rs)
        First(g) == SubSeq(g, 1, Min({Len(g), Bootstrap}))
        edges  == <<First(groups[1]), First(Last(groups))>>
        early  == Range(edges[1]) \cup Range(edges[2])
        others == [i \in DOMAIN groups |-> Passing(groups[i], LAMBDA x : x \notin early)]
    IN IF Len(groups) > 2 THEN RoundRobin(edges) \o RoundRobin(others) ELSE RoundRobin(groups)
-----------------------------------------------------------------------------
(***************************************************************************)
(* Candidates and their selection.                                         *)
(***************************************************************************)

Candidate == Anchor \X (1 .. MaxCandidates)

\* Frames a seek for each timestamp of an anchor makes: any may be skipped.
Sought == 0 .. ExtractPerAnchor

\* What ffmpeg extracts around the anchors before its time is up.
Extracted(anchors) ==
    {e \in [Anchor -> Sought] : \A a \in Anchor \ anchors : e[a] = 0}

\* How many of the frames of each anchor score above 0.
Scored(extracted) == {s \in [Anchor -> Sought] : \A a \in Anchor : s[a] <= extracted[a]}

WithFrames(counts, s) == [a \in Anchor |-> Min({counts[a] + s[a], MaxCandidates})]

Short(counts) == {a \in Anchor : counts[a] < MinCandidates}

StillMissing_Fault(counts, among) == {a \in among : counts[a] + 1 < MinCandidates}
StillMissing(counts, among) == {a \in among : counts[a] < MinCandidates}

Eligible(counts) == {a \in Anchor : counts[a] >= MinCandidates}

Pool(counts) == {c \in Candidate : c[2] <= counts[c[1]]}

InOrder(cs) == Sorted(cs, LAMBDA c, d : c[1] < d[1] \/ (c[1] = d[1] /\ c[2] < d[2]))

LocalPartial(counts) == InOrder({<<a, 1>> : a \in Eligible(counts)})

\* Whatever a model may answer within its schema, unknown ids and anchors included.
ModelAnswers == [1 .. Target -> [anchor : 0 .. Target, id : Candidate \cup {<<>>}]]

\* What is asked of the i-th choice.
ValidChoice_Fault(choices, i, candidates) ==     \* the candidate's own anchor is not looked at
    /\ choices[i].anchor \in Anchor
    /\ \A j \in 1 .. i - 1 : choices[j].anchor # choices[i].anchor /\ choices[j].id # choices[i].id
    /\ choices[i].id \in candidates

ValidChoice(choices, i, candidates) ==
    /\ choices[i].anchor \in Anchor
    /\ \A j \in 1 .. i - 1 : choices[j].anchor # choices[i].anchor /\ choices[j].id # choices[i].id
    /\ choices[i].id \in candidates
    /\ choices[i].id[1] = choices[i].anchor

Accepted(choices, candidates) ==
    /\ \A i \in 1 .. Target : ValidChoice(choices, i, candidates)
    /\ {choices[i].anchor : i \in 1 .. Target} = Anchor

\* The frames of every accepted answer, for each set of candidates.
Selections ==
    [candidates \in SUBSET Candidate |->
        {InOrder({choices[i].id : i \in 1 .. Target}) :
            choices \in {c \in ModelAnswers : Accepted(c, candidates)}}]

\* Candidates whose thumbnail cannot be encoded are left out; with none the best are taken.
ChosenByModel(counts) ==
    UNION {IF candidates = {} THEN {LocalPartial(counts)} ELSE Selections[candidates] :
             candidates \in SUBSET Pool(counts)}

Status(frames) ==
    LET anchors == {frames[i][1] : i \in DOMAIN frames}
    IN IF anchors = Anchor THEN "succeeded" ELSE IF anchors # {} THEN "partial" ELSE "failed"
-----------------------------------------------------------------------------
NoResult == [status |-> "none", external |-> FALSE, frames |-> <<>>]

TypeOK ==
    /\ pc \in {"http", "dht", "begin", "download", "decode", "retry", "widen", "redecode",
               "select", "judge", "done"}
    /\ answers \in Seq(Kind) /\ Len(answers) <= Resolvers + 1
    /\ payload \in {p \in Payloads : ParseTorrent(p) = "success"} \cup {NoPayload}
    /\ active \in BOOLEAN
    /\ have \subseteq Nat /\ IsFiniteSet(have)
    /\ ranges \in Seq([start : Nat, end : Nat \ {0}])
    /\ {floor, count, downloaded, checked} \subseteq Nat \cup {None}
    /\ floor # None => active /\ floor <= checked
    /\ clean \in [Anchor -> 0 .. MaxCandidates]
    /\ missing \subseteq Anchor /\ previous \subseteq Anchor
    /\ pc \in {"retry", "widen", "redecode"} => missing = Short(clean)
    /\ rung \in 0 .. Len(RetryRanges)
    /\ result \in [status : {"none", "succeeded", "partial", "failed"}, external : BOOLEAN,
                   frames : Seq(Candidate)]
    /\ outcome \in {"none", "completed", "invalid_metadata", "metadata_unavailable",
                    "invalid_media", "failure", "yielded", "worker_stopped"}
    /\ (pc = "done") = (outcome # "none")

\* A session starts with a stored .torrent or has to find one.
Init ==
    /\ payload \in {p \in Payloads : ParseTorrent(p) = "success"} \cup {NoPayload}
    /\ pc = IF payload = NoPayload THEN "http" ELSE "begin"
    /\ answers = <<>> /\ active = FALSE /\ ranges = <<>> /\ have = {}
    /\ floor = None /\ count = None /\ downloaded = 0 /\ checked = None
    /\ clean = [a \in Anchor |-> 0] /\ missing = {} /\ previous = {} /\ rung = 0
    /\ result = NoResult /\ outcome = "none"
-----------------------------------------------------------------------------
(***************************************************************************)
(* Metadata.                                                               *)
(***************************************************************************)

\* What a source can do: fail with a kind of error, or send a payload.
Answers == [kind : Kind, sent : {NoPayload}]
             \cup {[kind |-> ParseTorrent(p), sent |-> p] : p \in Payloads}

Ends(what) == pc' = "done" /\ outcome' = what

\* The torrent, and the errors so far, are stored in its record.
Store(sent) == payload' = sent /\ answers' = <<>> /\ pc' = "begin" /\ outcome' = outcome

Combined(kinds) == IF "transient" \in kinds THEN "transient" ELSE "permanent"

\* A permanent error exhausts the torrent, a transient one counts as a failure.
Unresolved(kinds) ==
    Ends(IF Combined(kinds) = "permanent" THEN "invalid_metadata" ELSE "metadata_unavailable")

\* The resolvers in turn, each until one sends a good payload.
AskResolver ==
    /\ pc = "http"
    /\ \E a \in Answers :
          CASE a.kind = "success" -> Store(a.sent)
            [] a.kind = "raises" -> Ends("failure") /\ UNCHANGED source
            [] OTHER ->
                 /\ answers' = Append(answers, a.kind) /\ payload' = payload
                 /\ CASE Len(answers') < Resolvers -> UNCHANGED <<pc, outcome>>
                      [] Len(answers') = Resolvers /\ DhtEnabled ->
                           pc' = "dht" /\ outcome' = outcome
                      [] OTHER -> Unresolved(Range(answers'))
    /\ UNCHANGED <<torrent, progress, ladder, checkpoint, result>>

\* The fallback; its error and theirs are one.
AskDht ==
    /\ pc = "dht"
    /\ \E a \in Answers :
          CASE a.kind = "success" -> Store(a.sent)
            [] a.kind = "raises" -> Ends("failure") /\ UNCHANGED source
            [] OTHER -> /\ answers' = Append(answers, a.kind) /\ payload' = payload
                        /\ Unresolved(Range(answers'))
    /\ UNCHANGED <<torrent, progress, ladder, checkpoint, result>>
-----------------------------------------------------------------------------
(***************************************************************************)
(* An attempt: download, decode, retry what is missing, select.             *)
(***************************************************************************)

Reports(status, external, frames) ==
    /\ result' = [status |-> status, external |-> external, frames |-> frames]
    /\ pc' = "judge" /\ outcome' = outcome

\* A session that found something before asks for the whole file.
Wanted_Fault(p) == Layout(Length(p))
Wanted(p) == IF active /\ floor # None THEN <<Bytes(0, Length(p))>> ELSE Layout(Length(p))

Begin ==
    /\ pc = "begin"
    /\ IF ~Usable(payload) THEN Ends("failure") /\ UNCHANGED <<result, ranges>>
       ELSE IF Videos(payload) = {} THEN Reports("failed", FALSE, <<>>) /\ UNCHANGED ranges
       ELSE /\ ranges' = Wanted(payload)
            /\ result' = NoResult /\ pc' = "download" /\ outcome' = outcome
    /\ count' = None /\ downloaded' = 0
    /\ clean' = [a \in Anchor |-> 0] /\ missing' = {} /\ previous' = {} /\ rung' = 0
    /\ UNCHANGED <<source, active, have, checkpoint>>

WorkerStops ==
    /\ pc = "begin" /\ Ends("worker_stopped")
    /\ UNCHANGED <<source, torrent, progress, ladder, checkpoint, result>>

\* libtorrent goes on with the pieces of the last download as long as it has the handle.
PieceArrives ==
    /\ pc = "download" \/ (active /\ pc # "done")
    /\ \E x \in Requested(payload, ranges) \ have : have' = have \cup {x}
    /\ UNCHANGED <<pc, source, active, ranges, progress, ladder, checkpoint, result, outcome>>

CompletedCount == Cardinality(Requested(payload, ranges) \cap have)

FileProgress == Cardinality(FilePieces(payload) \cap have)

PiecesComplete == Requested(payload, ranges) \subseteq have

\* More pieces than at the last checkpoint, or all of the file.
Reached(least) ==
    least = None \/ CompletedCount > least \/ FilePieces(payload) \subseteq have

\* The loop ends with all pieces at a checkpoint, or when time or progress runs out.
Looks == count' = CompletedCount /\ downloaded' = FileProgress

DownloadEnds ==
    /\ pc = "download" /\ Reached(floor)
    /\ Looks /\ active' = TRUE /\ pc' = "decode"
    /\ UNCHANGED <<source, have, ranges, ladder, checkpoint, result, outcome>>

\* No new piece: the result this makes is one PreviewResult refuses to be.
Waits ==
    /\ pc = "download" /\ ~Reached(floor)
    /\ Looks /\ active' = TRUE /\ Ends("failure")
    /\ UNCHANGED <<source, have, ranges, ladder, checkpoint, result>>

\* add_torrent raises, the media file is missing, or not a byte came.
DownloadRaises ==
    /\ pc = "download"
    /\ \/ ~active /\ UNCHANGED <<active, progress>>
       \/ active' = TRUE /\ PiecesComplete /\ Reached(floor) /\ UNCHANGED progress
       \/ active' = TRUE /\ Looks
    /\ Reports("failed", FALSE, <<>>)
    /\ UNCHANGED <<source, have, ranges, ladder, checkpoint>>

Decode ==
    /\ pc = "decode" /\ pc' = "retry"
    /\ \E e \in Extracted(Anchor) : \E s \in Scored(e) : clean' = WithFrames(clean, s)
    /\ missing' = Short(clean')
    /\ UNCHANGED <<source, torrent, progress, checkpoint, previous, rung, result, outcome>>

\* Time is up before the first decoding, or a decoding raises.
DecodeFails ==
    /\ \/ pc = "decode" /\ Reports("failed", FALSE, <<>>)
       \/ pc \in {"decode", "redecode"} /\ Reports("failed", TRUE, <<>>)
    /\ UNCHANGED <<source, torrent, progress, ladder, checkpoint>>

\* The next step of the ladder: a wider range around each anchor still missing.
Widen ==
    /\ pc = "retry" /\ missing # {} /\ rung < Len(RetryRanges)
    /\ rung' = rung + 1 /\ pc' = "widen"
    /\ ranges' = AnchorLayout(Length(payload), RetryRanges[rung + 1], missing)
    /\ UNCHANGED <<source, active, have, progress, clean, missing, previous, checkpoint,
                   result, outcome>>

\* A range that brought nothing for the same anchors is not decoded.
WidenEnds ==
    /\ pc = "widen" /\ Looks
    /\ \E madeProgress \in BOOLEAN :
          /\ FileProgress > downloaded \/ CompletedCount > Max({count, 0}) => madeProgress
          /\ IF ~madeProgress /\ missing = previous THEN pc' = "retry"
             ELSE pc' = "redecode"
    /\ UNCHANGED <<source, torrent, ladder, checkpoint, result, outcome>>

Redecode ==
    /\ pc = "redecode" /\ pc' = "retry"
    /\ \E e \in Extracted(missing) : \E s \in Scored(e) : clean' = WithFrames(clean, s)
    /\ missing' = StillMissing(clean', missing) /\ previous' = missing
    /\ UNCHANGED <<source, torrent, progress, checkpoint, rung, result, outcome>>

\* Nothing is missing, the ladder or the time is used up, or a download raised.
LadderEnds ==
    /\ pc \in {"retry", "widen", "redecode"} /\ pc' = "select"
    /\ UNCHANGED <<source, torrent, progress, ladder, checkpoint, result, outcome>>

\* With enough candidates for every anchor a model chooses, else the best are taken.
Select ==
    /\ pc = "select"
    /\ \E frames \in IF Eligible(clean) = Anchor THEN ChosenByModel(clean)
                      ELSE {LocalPartial(clean)} :
          Reports(Status(frames), FALSE, frames)
    /\ UNCHANGED <<source, torrent, progress, ladder, checkpoint>>

SelectionFails ==
    /\ pc = "select" /\ Eligible(clean) = Anchor
    /\ Reports("failed", TRUE, <<>>)
    /\ UNCHANGED <<source, torrent, progress, ladder, checkpoint>>

\* An error outside the attempt's own handlers: rendering the sheet, storing the result.
Breaks ==
    /\ \/ pc = "select" /\ Eligible(clean) # {}
       \/ pc = "judge"
    /\ Ends("failure")
    /\ UNCHANGED <<source, torrent, progress, ladder, checkpoint, result>>

\* A stored result, which has frames or is failed, ends the session or sets the
\* checkpoint of its next attempt.
Judge ==
    /\ pc = "judge"
    /\ floor' = count /\ checked' = IF count = None THEN None ELSE downloaded
    /\ CASE result.status = "succeeded" -> Ends("completed")
         [] result.status = "failed" /\ Videos(payload) = {} -> Ends("invalid_media")
         [] result.status = "failed" /\ result.external -> Ends("failure")
         [] OTHER -> Ends("yielded") \/ (pc' = "begin" /\ outcome' = outcome)
    /\ UNCHANGED <<source, torrent, progress, ladder, result>>

Next ==
    \/ AskResolver \/ AskDht \/ Begin \/ WorkerStops
    \/ PieceArrives \/ DownloadEnds \/ Waits \/ DownloadRaises
    \/ Decode \/ DecodeFails \/ Widen \/ WidenEnds \/ Redecode \/ LadderEnds
    \/ Select \/ SelectionFails \/ Breaks \/ Judge

Spec == Init /\ [][Next]_vars
-----------------------------------------------------------------------------
(***************************************************************************)
(* Properties.                                                             *)
(***************************************************************************)

Pieces(bytes) == {PieceOf(payload, b) : b \in bytes}

Around(b, anchors) ==
    UNION {PiecesOf(payload, w) : w \in Windows(Length(payload), AtMost(Length(payload), b), anchors)}

\* What a download asks for is enough and in order: its ranges are apart and in the
\* file, each requested piece has one deadline, the plan has both ends of the file and
\* the middle of every anchor, and a retry has at least what was asked for before around
\* every missing anchor.
PlanCovers ==
    pc \in {"download", "widen"} =>
        LET want  == Requested(payload, ranges)
            order == DeadlineOrder(payload, ranges)
            size  == Length(payload)
        IN /\ \A i \in 2 .. Len(ranges) : ranges[i - 1].end < ranges[i].start
           /\ want \subseteq FilePieces(payload)
           /\ IsInjective(order) /\ Range(order) = want
           /\ pc = "download" =>
                Pieces({0, size - 1} \cup {Center(size, a) : a \in Anchor}) \subseteq want
           /\ pc = "widen" =>
                Around(IF rung = 1 THEN AnchorRange ELSE RetryRanges[rung - 1], missing)
                  \subseteq want

\* A session is only failed for waiting when no piece of the file has been completed since
\* the checkpoint, although the counts compared there are of different sets of pieces.
WaitingHasNoNews ==
    [][pc = "download" /\ outcome' = "failure" => FileProgress <= checked]_vars

\* docs/worker.md: a torrent that is under target with its file complete is exhausted.  The
\* session tries again instead, at once and for as long as nobody else needs its slot.
CompleteFileEnds ==
    [][pc = "judge" /\ result.status = "partial"
         /\ downloaded = Cardinality(FilePieces(payload)) => pc' # "begin"]_vars

\* A result has one frame of each anchor it covers, in order, out of the candidates of its
\* own attempt, whatever the model answered; and a torrent is completed or exhausted only
\* for all anchors, without a video, or when every source has answered for good.
OutcomeIsEarned ==
    LET frames == result.frames IN
    /\ \A i \in DOMAIN frames : frames[i] \in Pool(clean)
    /\ \A i \in 2 .. Len(frames) : frames[i - 1][1] < frames[i][1]
    /\ (result.status = "succeeded") = (Len(frames) = Target)
    /\ (result.status = "partial") = (Len(frames) \in 1 .. Target - 1)
    /\ outcome = "completed" => result.status = "succeeded"
    /\ outcome = "invalid_media" => Videos(payload) = {}
    /\ outcome = "invalid_metadata" =>
          /\ Range(answers) = {"permanent"}
          /\ Len(answers) = Resolvers + (IF DhtEnabled THEN 1 ELSE 0)
=============================================================================
