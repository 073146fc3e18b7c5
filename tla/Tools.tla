-------------------------------- MODULE Tools --------------------------------
(***************************************************************************)
(* The file tools of package agent (agent/tools.go) over one file of the   *)
(* workspace: read_file and the footers that page through it, write_file   *)
(* and its append, edit_file with the text protocol's repair readings, and *)
(* the mutation generation the evidence log keeps of them.                 *)
(*                                                                         *)
(* A text is a sequence of symbols, one byte each: letters, "nl", the      *)
(* quote "q", "fence" for a patch or fence marker; in the fields of the    *)
(* text protocol also "eq" (a quote escaped by a backslash) and "be" (any  *)
(* escape nobody decodes).  Between the read and the write of an operation *)
(* other processes may write the file; any write may fail, and may have    *)
(* truncated the file or written part of it by then.                       *)
(***************************************************************************)
EXTENDS Integers, FiniteSets, SequencesExt

CONSTANTS
    Jobs,                  \* what a run does with the file, by name: [texts, reads, edits, writes, outside,
                           \* appender, window, ops]
    readLineCap,           \* 150 in the code
    readLineCapExplicit,   \* 600
    maxFileBytes,          \* 1 MiB
    writeByteCap           \* 64 KiB

ASSUME ToolsAssumption ==
    /\ {readLineCap, readLineCapExplicit, maxFileBytes, writeByteCap} \subseteq Nat \ {0}
    /\ readLineCap <= readLineCapExplicit
    /\ \A j \in DOMAIN Jobs : Jobs[j].window \in Nat /\ Jobs[j].ops \in Nat

(* The file, and what is written to it, are texts. *)
ASSUME JobsAssumption == \A j \in DOMAIN Jobs :
    /\ Jobs[j].texts \cup Jobs[j].outside \subseteq Seq(STRING)
    /\ \A r \in Jobs[j].reads : r.a \in Int /\ r.b \in Int
    /\ \A w \in Jobs[j].writes : w.content \in Seq(STRING)
    /\ \A e \in Jobs[j].edits : e.old \in Seq(STRING) /\ e.new \in Seq(STRING)

VARIABLES
    duty,    \* the name of this run's job
    disk,    \* the file
    op,      \* the tool call under way, the tries of it, what it read
    obs,     \* the last observation
    pager,   \* a reader that follows the footers: what it asked for and was shown
    ev,      \* evidenceLog.mutGen; history: the file changed since it last moved, and by a failed write
    spent,   \* bound: tool calls issued
    want     \* history: what the successful writes add up to

tvars == <<duty, disk, op, obs, pager, ev, spent, want>>

job == Jobs[duty]

Missing == <<"missing">>
There(text) == text # Missing
OpIdle  == [kind |-> "none", args |-> <<>>, reading |-> "raw", old |-> <<>>, new |-> <<>>,
            base |-> <<>>, body |-> <<>>, first |-> "none", touched |-> FALSE]
NoPager == [lo |-> 0, hi |-> 0, closed |-> FALSE, shown |-> <<>>, left |-> 0, next |-> <<>>, base |-> <<>>]

ToolsInit ==
    /\ duty \in DOMAIN Jobs
    /\ disk \in job.texts
    /\ op = OpIdle /\ obs = [kind |-> "none"] /\ pager = NoPager
    /\ ev = [gen |-> 0, dirty |-> FALSE, failed |-> FALSE]
    /\ spent = 0
    /\ want = [known |-> TRUE, text |-> disk]

---------------------------------------------------------------------------
(* Texts as lines: strings.Split at newlines, less the phantom last line.  *)

newlines(s)  == {i \in DOMAIN s : s[i] = "nl"}
lineCount(s) == Cardinality(newlines(s)) + (IF s # <<>> /\ Last(s) # "nl" THEN 1 ELSE 0)
lineOf(s, i) == 1 + Cardinality({j \in newlines(s) : j < i})
line(s, n)   == SelectSeq([i \in DOMAIN s |-> <<lineOf(s, i), s[i]>>], LAMBDA p : p[1] = n /\ p[2] # "nl")

(* readBounded: at most maxFileBytes of the file, and whether there is more. *)
readBounded(text) ==
    [data |-> SubSeq(text, 1, IF Len(text) < maxFileBytes THEN Len(text) ELSE maxFileBytes),
     over |-> Len(text) > maxFileBytes]

window(closed) == IF job.window > 0 THEN job.window ELSE IF closed THEN readLineCapExplicit ELSE readLineCap

(* "read path:a-b for the next chunk". *)
footer(hi, nextHi) == <<hi + 1, nextHi>>

(* readFileOp: from <= 0 is the start, to <= 0 the end; a range with an end *)
(* is closed, and gets the larger window unless the operator set one.      *)
readFileOp(text, from, to) ==
    LET total  == lineCount(text)
        lo     == IF from < 1 THEN 1 ELSE from
        closed == to > 0
        asked  == IF to <= 0 \/ to > total THEN total ELSE to
        win    == window(closed)
        clips  == asked - lo + 1 > win
        hi     == IF clips THEN lo + win - 1 ELSE asked
    IN  IF total = 0 THEN [kind |-> "empty"]
        ELSE IF lo > total THEN [kind |-> "pastEnd"]
        ELSE [kind |-> "lines", lo |-> lo, hi |-> hi, asked |-> asked,
              next |-> IF clips THEN footer(hi, IF closed THEN asked ELSE hi + win) ELSE <<>>]

(* The range a read asks for: "path", "path:a", "path:a-", "path:a-b".  A   *)
(* range from 0 is botched; a single line 0 is part of the path's name.    *)
parseReadArg(spec) ==
    CASE spec.form = "bare" -> <<0, 0>>
      [] spec.a >= 1 /\ spec.form = "line" -> <<spec.a, spec.a>>
      [] spec.a >= 1 /\ spec.form = "open" -> <<spec.a, 0>>
      [] spec.a >= 1 /\ spec.form = "range" -> <<spec.a, spec.b>>
      [] OTHER -> <<>>

(* explainPathErr, and the read itself. *)
read(text, from, to) ==
    IF ~There(text) THEN [kind |-> "noSuchFile"] ELSE readFileOp(readBounded(text).data, from, to)

---------------------------------------------------------------------------
(* write_file.                                                             *)

(* The head of the content, whitespace trimmed, is a foreign wrapper. *)
looksLikeEditEnvelope(s) ==
    LET body == SelectSeq(s, LAMBDA c : c # "nl") IN body # <<>> /\ body[1] = "fence"

writeError(content, append) ==
    IF looksLikeEditEnvelope(content) /\ ~append THEN "envelope"
    ELSE IF Len(content) > writeByteCap THEN "tooLong" ELSE "none"

old(text) == IF There(text) THEN text ELSE <<>>

(* What a write that fails may leave: the file as it was, or cut anywhere. *)
torn(text, before) == {before} \cup {SubSeq(text, 1, n) : n \in 0..Len(text)}
---------------------------------------------------------------------------
(* edit_file: the anchor and the texts of one reading.                     *)

at(src, anchor, i) == i + Len(anchor) - 1 <= Len(src) /\ SubSeq(src, i, i + Len(anchor) - 1) = anchor
occurrences(src, anchor) == {i \in DOMAIN src : at(src, anchor, i)}

(* strings.Count and strings.Index: left to right, none overlapping; m is  *)
(* what was found so far and where the search goes on.                     *)
looksAt(src, anchor, m, i) ==
    IF i >= m.from /\ at(src, anchor, i)
    THEN [from |-> i + Len(anchor), found |-> Append(m.found, i)] ELSE m

matches(src, anchor) ==
    LET upTo[i \in 0..Len(src)] ==
            IF i = 0 THEN [from |-> 1, found |-> <<>>] ELSE looksAt(src, anchor, upTo[i - 1], i)
    IN  upTo[Len(src)].found

Before(src, i) == SubSeq(src, 1, i - 1)
From(src, i)   == SubSeq(src, i, Len(src))

(* The mutants' form: an insertion after the anchor lands inside it. *)
splice_short(src, anchor, new, mode, i) ==
    IF mode = "insert_after" THEN Before(src, i + Len(anchor) - 1) \o new \o From(src, i + Len(anchor) - 1)
    ELSE Before(src, i) \o new \o From(src, IF mode = "replace" THEN i + Len(anchor) ELSE i)

splice(src, anchor, new, mode, i) ==
    CASE mode = "insert_before" -> Before(src, i) \o new \o From(src, i)
      [] mode = "insert_after"  -> Before(src, i + Len(anchor)) \o new \o From(src, i + Len(anchor))
      [] OTHER                  -> Before(src, i) \o new \o From(src, i + Len(anchor))

Modes == {"replace", "insert_before", "insert_after"}

(* The refusals of editFileOp, in its order; "none" is one match. *)
editError(text, anchor, new, mode) ==
    LET n == Len(matches(readBounded(text).data, anchor))
    IN  IF mode \notin Modes THEN "mode"
        ELSE IF anchor = <<>> THEN "emptyOld"
        ELSE IF mode = "replace" /\ anchor = new THEN "same"
        ELSE IF mode # "replace" /\ new = <<>> THEN "emptyNew"
        ELSE IF Len(new) > writeByteCap THEN "tooLong"
        ELSE IF looksLikeEditEnvelope(new) THEN "envelope"
        ELSE IF ~There(text) THEN "noSuchFile"
        ELSE IF readBounded(text).over THEN "tooBig"
        ELSE IF n = 0 THEN "notFound" ELSE IF n > 1 THEN "manyPlaces" ELSE "none"

startLine(src, anchor, mode, i) ==
    lineOf(src, i) + (IF mode = "insert_after" THEN Cardinality(newlines(anchor)) ELSE 0)

(* echoRegion: the lines shown around the change; an empty range says that *)
(* the file is now empty.                                                  *)
echoRegion(body, start, count) ==
    LET last == IF count = 0 THEN start ELSE start + count - 1
    IN  [from |-> IF start > 2 THEN start - 2 ELSE 1,
         to   |-> IF last + 2 > lineCount(body) THEN lineCount(body) ELSE last + 2]

editEcho(src, body, anchor, new, mode, i) ==
    echoRegion(body, startLine(src, anchor, mode, i),
               IF new = <<>> THEN 0 ELSE Cardinality(newlines(new)) + 1)

---------------------------------------------------------------------------
(* toolEditFile: the readings of the text protocol's fields.               *)

decodes(s) == \A i \in DOMAIN s : s[i] \notin {"eq", "be"}           \* unescape
quoteDecodes(s) == \A i \in DOMAIN s : s[i] # "be"                   \* unescapeEditQuotes
quoteDecoded(s) == [i \in DOMAIN s |-> IF s[i] = "eq" THEN "q" ELSE s[i]]

isQuoted(s) == Len(s) >= 2 /\ s[1] \in {"q", "tick"} /\ Last(s) = s[1]
inside(s) == SubSeq(s, 2, Len(s) - 1)

(* stripEditWrappers: the old text is wrapped; the new one is bare, empty  *)
(* or wrapped alike.                                                       *)
strips(o, n) == isQuoted(o) /\ (isQuoted(n) => n[1] = o[1])
stripped(o, n) == [old |-> inside(o), new |-> IF isQuoted(n) THEN inside(n) ELSE n]

---------------------------------------------------------------------------
(* Actions.                                                                *)

Free == op.kind = "none"
Issues == Free /\ spent < job.ops /\ spent' = spent + 1

(* The read tool starts a pager; following a footer carries it on. *)
shows(text, o) == IF o.kind = "lines" THEN [k \in 1..(o.hi - o.lo + 1) |-> line(readBounded(text).data, o.lo + k - 1)]
                  ELSE <<>>
next(o) == IF o.kind = "lines" THEN o.next ELSE <<>>
left(o) == IF o.kind = "lines" THEN o.asked - o.hi ELSE 0

ReadFile ==
    /\ Issues
    /\ \E spec \in job.reads :
        LET r == parseReadArg(spec)
        IN  IF r = <<>>
            THEN obs' = [kind |-> IF spec.form = "line" THEN "noSuchFile" ELSE "badRange"] /\ UNCHANGED pager
            ELSE /\ obs' = read(disk, r[1], r[2])
                 /\ pager' = [lo |-> IF r[1] < 1 THEN 1 ELSE r[1], hi |-> r[2], closed |-> r[2] > 0,
                              shown |-> shows(disk, obs'), left |-> left(obs'), next |-> next(obs'), base |-> disk]
    /\ UNCHANGED <<duty, disk, op, ev, want>>

FollowFooter ==
    /\ Free /\ pager.next # <<>>
    /\ obs' = read(disk, pager.next[1], pager.next[2])
    /\ pager' = [pager EXCEPT !.shown = @ \o shows(disk, obs'), !.left = left(obs'), !.next = next(obs'),
                              !.base = IF @ = disk THEN @ ELSE Missing]
    /\ UNCHANGED <<duty, disk, op, ev, spent, want>>

Fails(kind) == obs' = [kind |-> "error", error |-> kind] /\ op' = OpIdle

(* The mutants' form: a file too big to read whole is rewritten from what  *)
(* was read of it.                                                         *)
tooBigToAppend_never(text) == FALSE
tooBigToAppend(text) == readBounded(text).over

(* writeFileOp up to its write.  Without an Appender the old text is read  *)
(* first; one that is missing, or cannot be read, counts as empty.         *)
WriteFile ==
    /\ Issues
    /\ \E w \in job.writes, readable \in BOOLEAN :
        LET pending(kind, body) ==
                op' = [OpIdle EXCEPT !.kind = kind, !.args = w, !.base = disk, !.body = body]
        IN  IF writeError(w.content, w.append) # "none"
            THEN Fails(writeError(w.content, w.append)) /\ UNCHANGED want
            ELSE IF ~w.append THEN pending("write", w.content) /\ UNCHANGED <<obs, want>>
            ELSE IF job.appender THEN pending("appendInPlace", w.content) /\ UNCHANGED <<obs, want>>
            ELSE IF ~There(disk) \/ ~readable
            THEN /\ pending("append", w.content)
                 /\ want' = [want EXCEPT !.known = @ /\ ~There(disk)] /\ UNCHANGED obs
            ELSE IF tooBigToAppend(disk) THEN Fails("tooBig") /\ UNCHANGED want
            ELSE pending("append", readBounded(disk).data \o w.content) /\ UNCHANGED <<obs, want>>
    /\ UNCHANGED <<duty, disk, pager, ev>>

(* edit_file arrives; the text protocol's fields may not decode. *)
EditFile ==
    /\ Issues
    /\ \E e \in job.edits :
        LET start == [OpIdle EXCEPT !.kind = "try", !.args = e, !.old = e.old, !.new = e.new]
            bad   == e.text /\ ~(decodes(e.old) /\ decodes(e.new))
        IN  IF ~bad THEN op' = start /\ UNCHANGED obs
            ELSE IF Contains(e.old \o e.new, "eq") /\ quoteDecodes(e.old) /\ quoteDecodes(e.new)
            THEN /\ op' = [start EXCEPT !.reading = "quotes", !.first = "escape",
                                        !.old = quoteDecoded(e.old), !.new = quoteDecoded(e.new)]
                 /\ UNCHANGED obs
            ELSE Fails("escape")
    /\ UNCHANGED <<duty, disk, pager, ev, want>>

(* What toolEditFile reports when a reading fails for reason e. *)
reported(e) == IF op.reading = "raw" THEN e
               ELSE IF op.reading = "quotes" /\ e = "notFound" THEN e ELSE op.first

retries(e) == op.args.text /\ op.reading # "stripped" /\ e = "notFound" /\ strips(op.old, op.new)

(* editFileOp reads the file and locates the anchor; one try. *)
TryEdit ==
    /\ op.kind = "try"
    /\ LET e == editError(disk, op.old, op.new, op.args.mode) IN
       IF e = "none"
       THEN /\ op' = [op EXCEPT !.kind = "edit", !.base = disk,
                        !.body = splice(disk, op.old, op.new, op.args.mode, matches(disk, op.old)[1])]
            /\ UNCHANGED obs
       ELSE IF retries(e)
       THEN /\ op' = [op EXCEPT !.reading = "stripped", !.first = "notFound",
                        !.old = stripped(op.old, op.new).old, !.new = stripped(op.old, op.new).new]
            /\ UNCHANGED obs
       ELSE Fails(reported(e))
    /\ UNCHANGED <<duty, disk, pager, ev, spent, want>>

done == IF op.kind = "edit"
        THEN [kind |-> "edited",
              line |-> startLine(op.base, op.old, op.args.mode, matches(op.base, op.old)[1]),
              lines |-> lineCount(op.body),
              echo |-> editEcho(op.base, op.body, op.old, op.new, op.args.mode, matches(op.base, op.old)[1])]
        ELSE [kind |-> "wrote"]

(* The write lands: a mutation, since the call succeeds. *)
Land ==
    /\ op.kind \in {"write", "append", "appendInPlace", "edit"}
    /\ disk' = IF op.kind = "appendInPlace" THEN old(disk) \o op.body ELSE op.body
    /\ obs' = done /\ op' = OpIdle
    /\ ev' = [gen |-> ev.gen + 1, dirty |-> FALSE, failed |-> FALSE]
    /\ want' = CASE op.kind = "write" -> [known |-> TRUE, text |-> op.args.content]
                 [] op.kind = "edit"  -> [want EXCEPT !.text = op.body]
                 [] OTHER             -> [want EXCEPT !.text = old(@) \o op.args.content]
    /\ UNCHANGED <<duty, pager, spent>>

(* The write fails; the call is an error, and no mutation. *)
LandFails ==
    /\ op.kind \in {"write", "append", "appendInPlace", "edit"}
    /\ disk' \in IF op.kind = "appendInPlace" THEN {old(disk) \o SubSeq(op.body, 1, n) : n \in 0..Len(op.body)} \cup {disk}
                 ELSE torn(op.body, disk)
    /\ Fails(IF op.kind = "edit" THEN reported("write") ELSE "write")
    /\ ev' = [ev EXCEPT !.dirty = @ \/ disk' # disk, !.failed = TRUE]
    /\ want' = [want EXCEPT !.known = FALSE]
    /\ UNCHANGED <<duty, pager, spent>>

(* Another process writes the file: a background command, an editor. *)
OutsideWrites ==
    /\ \E text \in job.outside : text # disk /\ disk' = text
    /\ op' = IF Free THEN op ELSE [op EXCEPT !.touched = TRUE]
    /\ want' = [want EXCEPT !.known = FALSE]
    /\ UNCHANGED <<duty, obs, pager, ev, spent>>

ToolsNext ==
    \/ ReadFile \/ FollowFooter
    \/ WriteFile \/ EditFile \/ TryEdit \/ Land \/ LandFails
    \/ OutsideWrites

ToolsSpec == ToolsInit /\ [][ToolsNext]_tvars

---------------------------------------------------------------------------
(* Properties.                                                             *)

ToolsTypeOK ==
    /\ duty \in DOMAIN Jobs /\ spent \in 0..job.ops /\ ev.gen \in 0..job.ops
    /\ op.kind \in {"none", "write", "append", "appendInPlace", "try", "edit"}
    /\ op.reading \in {"raw", "quotes", "stripped"}
    /\ obs.kind \in {"none", "empty", "pastEnd", "lines", "noSuchFile", "badRange", "error", "wrote", "edited"}

(* What the text protocol's fields may stand for, best reading first. *)
Readings(e) ==
    LET q == IF e.text THEN [old |-> quoteDecoded(e.old), new |-> quoteDecoded(e.new)]
             ELSE [old |-> e.old, new |-> e.new] IN
    <<q>> \o (IF e.text /\ strips(q.old, q.new) THEN <<stripped(q.old, q.new)>> ELSE <<>>)

(* An edit that reports success changed one place and nothing else: the    *)
(* file it read, cut at the only occurrence (none overlapping) of what the *)
(* fields say, keeps every byte before and after the change, keeps the     *)
(* anchor when asked to insert, and the quotes of the fields were only     *)
(* stripped when the file does not hold the quoted text (toolEditFile,     *)
(* editFileOp).  The lines it echoes are lines of the file it wrote.       *)
EditsOnePlace ==
    (obs' # obs /\ obs'.kind = "edited") =>
        /\ \E k \in DOMAIN Readings(op.args), i \in DOMAIN op.base :
            LET r    == Readings(op.args)[k]
                pre  == SubSeq(op.base, 1, i - 1)
                post == SubSeq(op.base, i + Len(r.old), Len(op.base))
            IN  /\ op.base = pre \o r.old \o post
                /\ disk' = pre \o (CASE op.args.mode = "insert_before" -> r.new \o r.old
                                     [] op.args.mode = "insert_after"  -> r.old \o r.new
                                     [] OTHER -> r.new) \o post
                /\ \A j \in occurrences(op.base, r.old) : j # i => j < i + Len(r.old) /\ i < j + Len(r.old)
                /\ (k = 2 /\ ~op.touched) => occurrences(op.base, Readings(op.args)[1].old) = {}
        /\ obs'.echo.from \in 1..(obs'.echo.to + 1) /\ obs'.echo.to <= lineCount(disk')
        /\ obs'.echo.to < obs'.echo.from => disk' \in {<<>>}
EditIsSurgical == [][EditsOnePlace]_tvars

(* A reader who follows the footers is shown consecutive lines, each once, *)
(* and the count of what is left never lies; a closed range is delivered   *)
(* to its end, whatever the windows (one that ends before it begins shows  *)
(* nothing), and an open one for two windows                               *)
(* (readFileOp; the part of the file past maxFileBytes is not there to     *)
(* any read).                                                              *)
ReadsAddUp ==
    LET data  == readBounded(pager.base).data
        total == lineCount(data)
        got   == Len(pager.shown)
        last  == IF pager.hi < pager.lo THEN pager.lo - 1 ELSE pager.hi
        end   == IF pager.closed /\ last < total THEN last ELSE total
    IN  (There(pager.base) /\ pager.lo \in 1..total) =>
        /\ pager.lo + got - 1 <= total
        /\ pager.shown = [k \in 1..got |-> line(data, pager.lo + k - 1)]
        /\ pager.closed => pager.lo + got - 1 + pager.left = end
        /\ (pager.next = <<>> /\ ~pager.closed) => got >= 2 * window(FALSE) \/ pager.lo + got - 1 = total

(* What the successful writes of a run add up to is what the file holds,   *)
(* through edits, pieces appended in place or by read and rewrite, pieces  *)
(* past the read cap, and calls that were refused; until a write fails, an *)
(* append cannot read what it adds to, or somebody else writes the file    *)
(* (writeFileOp, editFileOp).  And the mutation generation lags behind the *)
(* file only after such a failed write (evidence.go:105 says that it over- *)
(* approximates; a write that truncated the file and failed bumps nothing).*)
WritesAddUp ==
    Free => /\ want.known => disk = want.text
            /\ ev.dirty => ev.failed

(* The files the tools show and the files they leave add up, over as many   *)
(* calls as a run makes.                                                    *)
FilesAddUp == ReadsAddUp /\ WritesAddUp
=============================================================================
