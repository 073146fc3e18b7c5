------------------------------ MODULE SSEFilter ------------------------------
(***************************************************************************)
(* The keep-alive filter of the chat wire (provider/openaicompat/           *)
(* ssefilter.go): a byte at a time, it drops comment lines and the blank    *)
(* lines no field line came before.  An event without data ends the stream  *)
(* in the SDK's decoder, whose lines are told apart here by that: "d" is    *)
(* the field name data, taken as one byte, and "e" any other byte.  How the *)
(* bytes fall into reads does not matter to the filter, so there is one     *)
(* action, the arrival of a byte.                                           *)
(***************************************************************************)
EXTENDS Naturals, Sequences

CONSTANT MaxBytes    \* bound: bytes of a body

Bytes == {":", "LF", "CR", "d", "e"}

VARIABLES
    body,      \* the response's bytes so far
    filter     \* sseCommentFilter: where it is in a line, sawField, and out

sseVars == <<body, filter>>

newSSECommentFilter == [at |-> "start", sawField |-> FALSE, out |-> <<>>]

SSEInit == body = <<>> /\ filter = newSSECommentFilter

emit(f, bytes)      == [f EXCEPT !.out = @ \o bytes]
fieldLine(f, bytes) == [emit(f, bytes) EXCEPT !.at = "midLine", !.sawField = TRUE]

(* A blank line passes when a field line was let through before it.         *)
blank_always(f, bytes) == [emit(f, bytes) EXCEPT !.at = "start", !.sawField = FALSE]
blank(f, bytes) ==
    IF f.sawField THEN [emit(f, bytes) EXCEPT !.at = "start", !.sawField = FALSE] ELSE [f EXCEPT !.at = "start"]

transform(f, c) ==
    CASE f.at = "dropLine"  -> [f EXCEPT !.at = IF c = "LF" THEN "start" ELSE "dropLine"]
      [] f.at = "midLine"   -> [emit(f, <<c>>) EXCEPT !.at = IF c = "LF" THEN "start" ELSE "midLine"]
      [] f.at = "pendingCR" -> IF c = "LF" THEN blank(f, <<"CR", "LF">>) ELSE fieldLine(f, <<"CR", c>>)
      [] f.at = "start"     -> CASE c = ":"  -> [f EXCEPT !.at = "dropLine"]
                                 [] c = "LF" -> blank(f, <<"LF">>)
                                 [] c = "CR" -> [f EXCEPT !.at = "pendingCR"]
                                 [] OTHER    -> fieldLine(f, <<c>>)

ByteArrives ==
    /\ Len(body) < MaxBytes
    /\ \E c \in Bytes : body' = Append(body, c) /\ filter' = transform(filter, c)

SSENext == ByteArrives
SSESpec == SSEInit /\ [][SSENext]_sseVars

-----------------------------------------------------------------------------
(* The SDK's decoder: lines end at LF, less a CR before it; a blank line    *)
(* dispatches the lines since the last one, and a comment is no line.       *)
(* fielded (history): the events dispatched that have a line at all.        *)
chomp(line) == IF line # <<>> /\ line[Len(line)] = "CR" THEN SubSeq(line, 1, Len(line) - 1) ELSE line

newDecoder == [line |-> <<>>, lines |-> <<>>, events |-> <<>>, fielded |-> <<>>]

dispatch(d) == [line |-> <<>>, lines |-> <<>>, events |-> Append(d.events, d.lines),
                fielded |-> IF d.lines = <<>> THEN d.fielded ELSE Append(d.fielded, d.lines)]

decodeByte(d, c) ==
    IF c # "LF" THEN [d EXCEPT !.line = Append(@, c)]
    ELSE LET line == chomp(d.line)
         IN  CASE line = <<>>                     -> dispatch(d)
               [] line # <<>> /\ line[1] = ":" -> [d EXCEPT !.line = <<>>]
               [] OTHER                           -> [d EXCEPT !.line = <<>>, !.lines = Append(@, line)]

decode(bytes) ==
    LET d[i \in 0..Len(bytes)] == IF i = 0 THEN newDecoder ELSE decodeByte(d[i - 1], bytes[i])
    IN  d[Len(bytes)]

(* A line is data when the name before its colon is.                        *)
isData(line)   == line[1] = "d" /\ (Len(line) = 1 \/ line[2] = ":")
hasData(event) == \E i \in 1..Len(event) : isData(event[i])

(* Through the filter the decoder sees the very events of the response      *)
(* that have a field line, in order and untouched, and none of those that   *)
(* have none: no comment and no run of blank lines dispatches anything, and *)
(* nothing that does is lost.  A block whose lines are all event: or retry: *)
(* is among those it sees, data or no data.                                 *)
FilterKeepsEvents == decode(filter.out).events = decode(body).fielded

(* What the comments of ssefilter.go say of the blank lines it lets pass,   *)
(* "dispatch only if it would carry data" (:103): no event without data     *)
(* gets through.  A block of an event: or retry: line alone does.           *)
NoEmptyEvents ==
    LET seen == decode(filter.out).events
    IN  \A i \in 1..Len(seen) : hasData(seen[i])
=============================================================================
