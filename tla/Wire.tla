-------------------------------- MODULE Wire --------------------------------
(***************************************************************************)
(* The provider adapters: provider/openaicompat (the "chat" wire, with      *)
(* OpenRouter's upstream pinning) and provider/anthropic (the "messages"    *)
(* wire), as generateOnce and generateWithRetry of package agent use them.  *)
(*                                                                         *)
(* One conversation is built turn by turn.  A request is the whole          *)
(* transcript, mapped onto the wire; the answer comes back at once or in    *)
(* fragments, or fails on the way.  The server, its upstreams and the SDKs' *)
(* decoders are the environment.  A second caller shares the provider.      *)
(***************************************************************************)
EXTENDS Naturals, FiniteSets, SequencesExt

CONSTANTS
    Runs,             \* the runs: [name, model, env, stream] of the provider, shared, task
    Replies,          \* what the model may say in a turn
    Faults,           \* how an answer may fail
    Upstreams,        \* OpenRouter's upstreams, by display name
    MaxResends,       \* transientMaxRetries, 2 in the code
    MaxTurns          \* bound: turns of the conversation

None == "none"

(* A part of a message: its kind, the call it belongs to and its pieces, in *)
(* order.  "|" ends a block of a reasoning trace; arguments are JSON when   *)
(* they end in "b" or are "{}".  A content block on the wire is one too.    *)
Kinds == {"text", "image", "url", "think", "call", "result", "error"}
Part  == [k : Kinds, id : Nat, x : Seq(STRING)]
part(k, id, x) == [k |-> k, id |-> id, x |-> x]

ofKind(parts, ks) ==
    LET kept[i \in 0..Len(parts)] ==
            IF i = 0 THEN <<>> ELSE IF parts[i].k \in ks THEN Append(kept[i - 1], parts[i]) ELSE kept[i - 1]
    IN  kept[Len(parts)]
textOf(parts) == FlattenSeq([i \in DOMAIN ofKind(parts, {"text"}) |-> ofKind(parts, {"text"})[i].x])

Model  == [vendor : {"openai", "google", "claude"}, alpha : BOOLEAN, tier : STRING]
Run    == [name : {"openrouter", "openai", "anthropic"}, model : Model, env : STRING, stream : BOOLEAN,
           shared : BOOLEAN, task : Seq(Part)]
Block  == [type : STRING, by : {"index", "id", "nothing"}, n : Nat, x : Seq(STRING)]
Reply  == [think : Seq(Block), text : Seq(STRING), calls : Seq(Seq(STRING)),
           finish : STRING, read : Nat]
Fault  == [via : {"cancel", "event", "badEvent", "eof", "reset", "http"}, code : Nat,
           says : {"other", "overflow", "overflowType", "encrypted", "auth", "rate"}]

ASSUME WireAssumption ==
    /\ \A c \in Runs : c \in Run
    /\ \A r \in Replies : r \in Reply
    /\ \A f \in Faults : f \in Fault
    /\ MaxResends \in Nat /\ MaxTurns \in Nat

(* Arguments, marks and answers are strings, which TLC knows of a literal.  *)
ASSUME PiecesAssumption == {"|", "{}", "feedback", "saw", "system"} \subseteq STRING

(* What a run is given to do is text, with or without images.               *)
ASSUME TasksAssumption ==
    \A c \in Runs : /\ \A i \in DOMAIN c.task : c.task[i].k \in {"text", "image", "url"}
                    /\ \E i \in DOMAIN c.task : c.task[i].k = "text"

(* A reasoning block says what it is by an index, by an id or not at all;   *)
(* no two of a reply say the same, as every fragment repeats it.            *)
keyless(b)      == b.by = "nothing"
reasoningKey_n(b) == b.n
reasoningKey(b) == <<b.type, b.by, b.n>>

ASSUME RepliesAssumption ==
    \A r \in Replies : \A i, j \in DOMAIN r.think :
        LET b == r.think[i]
            d == r.think[j]
        IN  /\ b.x # <<>>
            /\ ~keyless(b) /\ b.type = d.type /\ b.by = d.by /\ b.n = d.n => i = j

(* What a server says of a failure agrees with its status.                  *)
ASSUME FaultsAssumption ==
    \A f \in Faults :
        /\ f.via \notin {"event", "http"} => f.code = 0 /\ f.says = "other"
        /\ f.via \in {"event", "http"}    => (f.says = "auth" <=> f.code \in {401, 403})
        /\ f.says = "encrypted"          => f.code \in {0, 400}
        /\ f.via = "http" /\ f.says \in {"overflow", "overflowType"} => f.code \in {400, 413}

(* The routing slug of an upstream: an override, or lower case.             *)
pinProviderName == [Google |-> "google-vertex", OpenAI |-> "openai", Azure |-> "azure", DeepInfra |-> "deepinfra"]

ASSUME UpstreamsAssumption == Upstreams \subseteq DOMAIN pinProviderName

preferredUpstreams(m) == IF m.vendor = "openai" THEN "openai" ELSE None

envPin(c) == IF c.name = "openrouter" THEN c.env ELSE None

(* env (history): the pin it is built with.                                 *)
provider(c, api) == [api |-> api, router |-> FALSE, preferred |-> None, cache |-> FALSE, env |-> envPin(c),
                     stream |-> c.stream, shared |-> c.shared, model |-> c.model]

(* The OpenAI and OpenRouter presets.                                       *)
newOpenAICompat(c) ==
    [provider(c, "chat") EXCEPT !.router = c.name = "openrouter",
                                !.preferred = IF c.name = "openrouter" THEN preferredUpstreams(c.model) ELSE None]

(* The Claude preset, with prompt caching on.                               *)
newAnthropic(c) == [provider(c, "messages") EXCEPT !.cache = TRUE]

PickProvider(c) ==
    CASE c.name = "openrouter" -> [newOpenAICompat(c) EXCEPT !.cache = TRUE]
      [] c.name = "openai"     -> newOpenAICompat(c)
      [] c.name = "anthropic"  -> newAnthropic(c)

VARIABLES
    prov,      \* the provider, and its model
    pinned,    \* pinnedProvider
    conv,      \* the transcript: messages [role, parts], a turn with what the server said and if it was cut
    ask,       \* the call under way: at, routing, up, retry, dropped
    said,      \* the answer the server is giving, and how far it has sent each block
    heard,     \* the stream's accumulators
    aside,     \* the upstream serving the other caller; None when it is not calling
    fate,      \* history: the last fault of this call and what came of it
    first      \* history: the first upstream that completed a named answer

wireVars == <<prov, pinned, conv, ask, said, heard, aside, fate, first>>

Silence == [think |-> <<>>, text |-> <<>>, calls |-> <<>>]
NoReply == [think |-> <<>>, text |-> <<>>, calls |-> <<>>, finish |-> None, read |-> 0]
NoFate  == [fault |-> [via |-> None, code |-> 0, says |-> "other"], route |-> None]

-----------------------------------------------------------------------------
(* A request.                                                               *)

(* An empty argument list is replayed as an empty object.                   *)
rawOrEmptyObject_asIs(args) == args
rawOrEmptyObject(args) == IF args = <<>> THEN <<"{}">> ELSE args

wire(role, blocks) == [role |-> role, blocks |-> blocks]

calls(parts) == LET c == ofKind(parts, {"call"})
                IN  [i \in DOMAIN c |-> [c[i] EXCEPT !.x = rawOrEmptyObject(@)]]
prose(parts) == IF textOf(parts) = <<>> THEN <<>> ELSE <<part("text", 0, textOf(parts))>>

(* Chat: the last reasoning part rides as reasoning_details.                *)
assistantMessage(parts) ==
    LET thought == ofKind(parts, {"think"})
        trace   == IF thought = <<>> THEN <<>> ELSE <<Last(thought)>>
    IN  wire("assistant", trace \o prose(parts) \o calls(parts))

(* Messages: every thinking block first, verbatim, then text, then calls.   *)
assistantBlocks(parts) == ofKind(parts, {"think"}) \o prose(parts) \o calls(parts)

(* Chat: a string, or an array when there is an image.                      *)
userMessage(parts) ==
    wire("user", IF ofKind(parts, {"image", "url"}) = <<>> THEN <<part("text", 0, textOf(parts))>> ELSE parts)

(* Messages: an image by URL is skipped.                                    *)
userBlocks(parts) ==
    IF ofKind(parts, {"image", "url"}) = <<>> THEN prose(parts) ELSE ofKind(parts, {"text", "image"})

(* Chat has no error flag, and answers each call in a message of its own.   *)
toolMessages(parts) == [i \in DOMAIN parts |-> wire("tool", <<[parts[i] EXCEPT !.k = "result"]>>)]

chatMessage(m) ==
    CASE m.role = "assistant" -> <<assistantMessage(m.parts)>>
      [] m.role = "tool"      -> toolMessages(m.parts)
      [] OTHER                -> <<userMessage(m.parts)>>

messagesTurn(m) ==
    LET blocks == CASE m.role = "assistant" -> assistantBlocks(m.parts)
                    [] m.role = "tool"      -> m.parts
                    [] OTHER                -> userBlocks(m.parts)
    IN  IF blocks = <<>> THEN <<>>
        ELSE <<wire(IF m.role = "assistant" THEN "assistant" ELSE "user", blocks)>>

system == wire("system", <<part("text", 0, <<"system">>)>>)

toSystem(c) == <<system>>   \* the loops keep no system message in the transcript

toMessages(p, c) ==
    IF p.api = "chat" THEN <<system>> \o FlattenSeq([i \in DOMAIN c |-> chatMessage(c[i])])
                      ELSE toSystem(c) \o FlattenSeq([i \in DOMAIN c |-> messagesTurn(c[i])])

(* The blocks of a message a cache breakpoint may be put on.                *)
markCacheBreakpoint(m) ==
    LET texts == {i \in DOMAIN m.blocks : m.blocks[i].k \in {"text", "result"}}
    IN  IF m.role = "assistant" \/ texts = {} THEN {} ELSE {CHOOSE i \in texts : \A j \in texts : i <= j}

applyCacheBreakpoints(body) ==
    UNION {{i} \X markCacheBreakpoint(body[i]) : i \in {1, Len(body)}}

(* The last block of the transcript that can carry the mark.                *)
markTailCacheControl(body) ==
    LET holds(i) == {j \in DOMAIN body[i].blocks : body[i].blocks[j].k \in {"text", "result", "error", "call"}}
        able     == UNION {{i} \X holds(i) : i \in 2..Len(body)}
    IN  {b \in able : \A d \in able : d[1] < b[1] \/ (d[1] = b[1] /\ d[2] <= b[2])}

isClaude5(m)        == m.vendor = "claude" /\ m.alpha /\ m.tier = "5"
dropsTemperature(m) == isClaude5(m) \/ (m.vendor = "claude" /\ m.alpha /\ m.tier = "opus-4-8")

chatParams(p, pin, c) ==
    LET body == toMessages(p, c)
    IN  [messages    |-> body,
         marks       |-> IF p.cache THEN applyCacheBreakpoints(body) ELSE {},
         temperature |-> TRUE,
         routing     |-> IF pin # None THEN [order |-> pin, fallbacks |-> FALSE]
                                       ELSE [order |-> p.preferred, fallbacks |-> TRUE]]

messagesParams(p, c) ==
    LET body == toMessages(p, c)
    IN  [messages    |-> body,
         marks       |-> IF p.cache THEN {<<1, 1>>} \cup markTailCacheControl(body) ELSE {},
         temperature |-> ~dropsTemperature(p.model),
         routing     |-> [order |-> None, fallbacks |-> TRUE]]

buildParams(p, pin, c) == IF p.api = "chat" THEN chatParams(p, pin, c) ELSE messagesParams(p, c)

request == buildParams(prov, pinned, conv)

-----------------------------------------------------------------------------
(* An answer.                                                               *)

ended(blocks) == [i \in DOMAIN blocks |-> Append(blocks[i].x, "|")]
words(ws)     == IF ws = <<>> THEN <<>> ELSE <<part("text", 0, ws)>>

(* One reasoning part for the whole array on the chat wire, one for each    *)
(* block on the other.                                                      *)
reasoningDetails(blocks) == IF blocks = <<>> THEN <<>> ELSE <<part("think", 0, FlattenSeq(ended(blocks)))>>
thinkingBlocks(blocks)   == [i \in DOMAIN blocks |-> part("think", 0, ended(blocks)[i])]

chatCalls(cs)     == [i \in DOMAIN cs |-> part("call", i, cs[i])]
messagesCalls(cs) == [i \in DOMAIN cs |-> part("call", i, rawOrEmptyObject(cs[i]))]

chatResponse(r)     == words(r.text) \o reasoningDetails(r.think) \o chatCalls(r.calls)
messagesResponse(r) == thinkingBlocks(r.think) \o words(r.text) \o messagesCalls(r.calls)
toResponse(p, r)    == IF p.api = "chat" THEN chatResponse(r) ELSE messagesResponse(r)

(* The chunks at the end of a stream, and what collectStream makes of all.  *)
chatStreamEnd(h)     == [reasoning |-> reasoningDetails(h.think), calls |-> chatCalls(h.calls)]
messagesStreamEnd(h) == [reasoning |-> thinkingBlocks(h.think), calls |-> messagesCalls(h.calls)]

collectStream(p, h) ==
    LET chunks == IF p.api = "chat" THEN chatStreamEnd(h) ELSE messagesStreamEnd(h)
    IN  chunks.reasoning \o words(h.text) \o chunks.calls

(* What the server counts: 10 new input tokens and r.read cached ones, which *)
(* the chat wire includes in the prompt and the messages wire does not.     *)
counted(p, r) == [input |-> IF p.api = "chat" THEN 10 + r.read ELSE 10, cached |-> r.read]

chatUsage(u)     == [prompt |-> u.input, cached |-> u.cached]
messagesUsage(u) == [prompt |-> u.input + u.cached, cached |-> u.cached]

mapFinish(reason) ==
    CASE reason \in {"stop", "length", "content_filter"} -> reason
      [] reason \in {"tool_calls", "function_call"}      -> "tool_use"
      [] OTHER                                           -> "other"

mapStop(reason) ==
    CASE reason \in {"end_turn", "stop_sequence", "pause_turn"} -> "stop"
      [] reason = "max_tokens"                                  -> "length"
      [] reason = "tool_use"                                    -> "tool_use"
      [] reason = "refusal"                                     -> "content_filter"
      [] OTHER                                                  -> "other"

(* The turn RunNative appends, beside what was said.  The last chunks carry *)
(* the finish reason, and on the chat wire the usage.                       *)
assistantTurn(parts, r, cut) ==
    [role |-> "assistant", parts |-> parts, said |-> r, cut |-> cut,
     usage  |-> IF prov.api = "messages" THEN messagesUsage(counted(prov, r))
                ELSE IF cut THEN [prompt |-> 0, cached |-> 0] ELSE chatUsage(counted(prov, r)),
     finish |-> IF cut THEN "other" ELSE IF prov.api = "chat" THEN mapFinish(r.finish) ELSE mapStop(r.finish)]

message(role, parts) == [role |-> role, parts |-> parts]

(* The stream's blocks: how many pieces of each the server has sent.        *)
Blocks(r) == ({"think"} \X DOMAIN r.think) \cup ({"text"} \X (1..(IF r.text = <<>> THEN 0 ELSE 1)))
             \cup ({"call"} \X DOMAIN r.calls)
piecesOf(r, b) == CASE b[1] = "think" -> r.think[b[2]].x
                    [] b[1] = "text"  -> r.text
                    [] b[1] = "call"  -> r.calls[b[2]]

idle == [at |-> "idle", up |-> None, retry |-> 0, dropped |-> FALSE, routing |-> [order |-> None, fallbacks |-> TRUE]]

begins(c) == prov = PickProvider(c) /\ pinned = envPin(c) /\ conv = <<message("user", c.task)>>

WireInit ==
    /\ \E c \in Runs : begins(c)
    /\ ask = idle /\ said = [reply |-> NoReply, sent |-> <<>>] /\ heard = Silence
    /\ aside = None /\ fate = NoFate /\ first = None

assistantTurns == {i \in DOMAIN conv : conv[i].role = "assistant"}

(* The messages wire numbers the blocks of an answer.                       *)
answers(p) == {r \in Replies : p.api = "messages" => \A i \in DOMAIN r.think : r.think[i].by = "index"}

(* Generate or Stream sends the request, and an upstream that the routing   *)
(* allows takes it; None is one that does not give its name.                *)
serves(r) == IF ~prov.router THEN {None}
             ELSE {u \in Upstreams : r.fallbacks \/ pinProviderName[u] = r.order}
                    \cup (IF r.fallbacks THEN {None} ELSE {})

send ==
    /\ \E u \in serves(request.routing), r \in answers(prov) :
          /\ ask' = [ask EXCEPT !.at = "body", !.up = u, !.routing = request.routing]
          /\ said' = [reply |-> r, sent |-> [b \in Blocks(r) |-> 0]]
    /\ heard' = Silence /\ fate' = NoFate
    /\ UNCHANGED <<prov, pinned, conv, aside, first>>

Ask    == ask.at = "idle" /\ Cardinality(assistantTurns) < MaxTurns /\ send
Resend == ask.at = "backoff" /\ send

(* The reasoning accumulator: fragments of one block are joined, one that   *)
(* does not say its block is an entry of its own.                           *)
addReasoning(entries, b, piece) ==
    LET same == {i \in DOMAIN entries : ~keyless(b) /\ reasoningKey(entries[i]) = reasoningKey(b)}
    IN  IF same = {} THEN Append(entries, [b EXCEPT !.x = <<piece>>])
        ELSE [i \in DOMAIN entries |-> IF i \in same THEN [entries[i] EXCEPT !.x = Append(@, piece)] ELSE entries[i]]

(* The server's side of a stream: blocks of a kind start in order, and the  *)
(* messages wire sends one block after another.                             *)
mayStart(b) ==
    LET sent == said.sent
    IN  /\ \A d \in DOMAIN sent : d[1] = b[1] /\ d[2] < b[2] => sent[d] > 0 \/ piecesOf(said.reply, d) = <<>>
        /\ prov.api = "messages" =>
             \A d \in DOMAIN sent : (d[1] = b[1] /\ d[2] < b[2]) \/ (d[1] = "think" /\ b[1] # "think")
                                     \/ (d[1] = "text" /\ b[1] = "call")
                                   => sent[d] = Len(piecesOf(said.reply, d))
maySend(b) == said.sent[b] < Len(piecesOf(said.reply, b)) /\ mayStart(b)

Fragment ==
    /\ ask.at = "body" /\ prov.stream
    /\ \E b \in DOMAIN said.sent :
          /\ maySend(b)
          /\ LET piece == piecesOf(said.reply, b)[said.sent[b] + 1]
             IN  heard' = CASE b[1] = "think" -> [heard EXCEPT !.think = addReasoning(@, said.reply.think[b[2]], piece)]
                            [] b[1] = "text"  -> [heard EXCEPT !.text = Append(@, piece)]
                            [] b[1] = "call"  ->
                                 [heard EXCEPT !.calls = [i \in 1..(IF Len(@) > b[2] THEN Len(@) ELSE b[2]) |->
                                      (IF i <= Len(@) THEN @[i] ELSE <<>>) \o (IF i = b[2] THEN <<piece>> ELSE <<>>)]]
          /\ said' = [said EXCEPT !.sent[b] = @ + 1]
    /\ UNCHANGED <<prov, pinned, conv, ask, aside, fate, first>>

(* maybePin: the first named upstream, unless the model is steered.         *)
maybePin_steered(up) == IF ~prov.router \/ up = None \/ pinned # None THEN pinned ELSE pinProviderName[up]
maybePin(up) ==
    IF ~prov.router \/ prov.preferred # None \/ up = None \/ pinned # None THEN pinned ELSE pinProviderName[up]

completes(up) ==
    /\ pinned' = maybePin(up)
    /\ first' = IF first = None /\ up # None THEN pinProviderName[up] ELSE first

commit(parts, cut) ==
    /\ conv' = Append(conv, assistantTurn(parts, said.reply, cut))
    /\ ask' = [idle EXCEPT !.at = "said"]
    /\ said' = [reply |-> NoReply, sent |-> <<>>] /\ heard' = Silence
    /\ fate' = NoFate
    /\ UNCHANGED <<prov, aside>>

Generate == ask.at = "body" /\ ~prov.stream /\ commit(toResponse(prov, said.reply), FALSE) /\ completes(ask.up)

(* The first n calls of an answer, as far as they have come: a call's first *)
(* chunk names it, and one without arguments has no other.                  *)
named(h, n) == [h EXCEPT !.calls = [i \in 1..n |-> IF i \in DOMAIN @ THEN @[i] ELSE <<>>]]

Stream ==
    /\ ask.at = "body" /\ prov.stream
    /\ \A b \in DOMAIN said.sent : said.sent[b] = Len(piecesOf(said.reply, b))
    /\ commit(collectStream(prov, named(heard, Len(said.reply.calls))), FALSE)
    /\ completes(ask.up)

(* A stream that ends cleanly before the answer does is no error to either  *)
(* adapter, which commits what has come; only a stream that is cut inside a *)
(* chunk or event is one (eof, among the faults).  The upstream is known    *)
(* from the first chunk on, be there anything in it or not.                 *)
StreamClosed ==
    /\ ask.at = "body" /\ prov.stream
    /\ \E n \in Len(heard.calls)..Len(said.reply.calls) :
          /\ \A i \in (Len(heard.calls) + 1)..n : mayStart(<<"call", i>>)
          /\ commit(collectStream(prov, named(heard, n)), TRUE)
          /\ \E up \in {ask.up} \cup (IF heard = Silence /\ n = 0 THEN {None} ELSE {}) : completes(up)

-----------------------------------------------------------------------------
(* A fault, and what becomes of the call.                                   *)
isContextLength(f) == f.says \in {"overflow", "overflowType"}
IsEncryptedReplayRejection(f) == f.says = "encrypted" /\ f.code \in {0, 400}

is(kind, retryable) == [kind |-> kind, retryable |-> retryable]

(* Of an error event only the message is decoded, not the type.             *)
chatEvent_retries(f) == is("unknown", TRUE)
chatEvent(f) ==
    IF f.says = "overflow" THEN is("context_length", FALSE)
    ELSE IF IsEncryptedReplayRejection(f) THEN is("unknown", FALSE)
    ELSE CASE f.code \in {401, 403} -> is("auth", FALSE)
           [] f.code = 429          -> is("rate_limit", TRUE)
           [] OTHER                 -> is("unknown", TRUE)

httpStatus(f) ==
    CASE f.code \in {401, 403}                        -> is("auth", FALSE)
      [] f.code = 429                                 -> is("rate_limit", TRUE)
      [] f.code \in {400, 413} /\ isContextLength(f)  -> is("context_length", FALSE)
      [] f.code \in {500, 502, 503, 504}              -> is("unknown", TRUE)
      [] OTHER                                        -> is("unknown", FALSE)

chatClassify(f) ==
    CASE f.via = "cancel" -> is("canceled", FALSE)
      [] f.via = "event"  -> chatEvent(f)
      [] f.via = "eof"    -> is("unknown", TRUE)
      [] f.via = "http"   -> httpStatus(f)
      [] OTHER            -> is("unknown", FALSE)

(* An error event is an API error that still has the response's status 200. *)
messagesEvent(f) ==
    CASE isContextLength(f) -> is("context_length", FALSE)
      [] f.says = "auth"    -> is("auth", FALSE)
      [] f.says = "rate"    -> is("rate_limit", TRUE)
      [] OTHER              -> is("unknown", TRUE)

messagesClassify(f) ==
    CASE f.via = "cancel"              -> is("canceled", FALSE)
      [] f.via = "event"               -> messagesEvent(f)
      [] f.via = "http"                -> IF f.code = 529 THEN is("unknown", TRUE) ELSE httpStatus(f)
      [] f.via \in {"eof", "badEvent"} -> is("unknown", TRUE)
      [] OTHER                         -> is("unknown", FALSE)

classify(p, f) == IF p.api = "chat" THEN chatClassify(f) ELSE messagesClassify(f)

dropReplayReasoning(c) ==
    [i \in DOMAIN c |-> IF c[i].role # "assistant" THEN c[i]
                        ELSE [c[i] EXCEPT !.parts = ofKind(@, Kinds \ {"think"}), !.said.think = <<>>]]

(* generateWithRetry and generateWithEviction.                              *)
route(p, f) ==
    IF IsEncryptedReplayRejection(f) THEN IF ~ask.dropped /\ dropReplayReasoning(conv) # conv THEN "scrub" ELSE "stop"
    ELSE IF classify(p, f).retryable THEN IF ask.retry < MaxResends THEN "resend" ELSE "stop"
    ELSE IF classify(p, f).kind = "context_length" THEN "evict"   \* NativeLoop has the evictions
    ELSE "stop"

(* A status comes before the body; an error event needs a stream.           *)
mayFail(f) ==
    /\ f.via = "http" => \A b \in DOMAIN said.sent : said.sent[b] = 0
    /\ f.via = "event" => prov.stream
    /\ f.via = "badEvent" => prov.stream /\ prov.api = "messages"
    /\ f.code = 529 => prov.api = "messages"
    /\ f.says = "overflowType" => prov.api = "chat"
    /\ f.says = "encrypted" => dropReplayReasoning(conv) # conv /\ (f.via = "event" => prov.api = "chat")

(* The attempt is dropped with all it has streamed.                         *)
AttemptFails ==
    /\ ask.at = "body"
    /\ \E f \in Faults :
          /\ mayFail(f)
          /\ fate' = [fault |-> f, route |-> route(prov, f)]
          /\ ask' = [ask EXCEPT !.at = IF route(prov, f) \in {"resend", "scrub"} THEN "backoff" ELSE "over",
                                !.up = None,
                                !.retry = CASE route(prov, f) = "resend" -> @ + 1
                                            [] route(prov, f) = "scrub"  -> 0
                                            [] OTHER                     -> @,
                                !.dropped = @ \/ route(prov, f) = "scrub"]
          /\ conv' = IF route(prov, f) = "scrub" THEN dropReplayReasoning(conv) ELSE conv
    /\ said' = [reply |-> NoReply, sent |-> <<>>] /\ heard' = Silence
    /\ UNCHANGED <<prov, pinned, aside, first>>

(* The scrubbed transcript is sent again at once; only a re-send waits.     *)
CanceledInBackoff ==
    /\ ask.at = "backoff" /\ ask.retry > 0
    /\ ask' = [ask EXCEPT !.at = "over"]
    /\ UNCHANGED <<prov, pinned, conv, said, heard, aside, fate, first>>

(* RunNative answers every call of the turn, or says something to a turn    *)
(* without one.                                                             *)
Answer ==
    /\ ask.at = "said"
    /\ LET called == ofKind(Last(conv).parts, {"call"})
       IN  \E err \in BOOLEAN :
             conv' = conv \o (IF called = <<>> THEN <<message("user", <<part("text", 0, <<"feedback">>)>>)>>
                              ELSE [i \in DOMAIN called |->
                                      message("tool", <<part(IF err THEN "error" ELSE "result", called[i].id, <<"saw">>)>>)])
    /\ ask' = [ask EXCEPT !.at = "idle"]
    /\ UNCHANGED <<prov, pinned, said, heard, aside, fate, first>>

(* Another session over the same handle, which the mutex is there for.      *)
AsideAsks ==
    /\ prov.router /\ prov.shared /\ aside = None
    /\ aside' \in serves(request.routing) \ {None}
    /\ UNCHANGED <<prov, pinned, conv, ask, said, heard, fate, first>>

AsideReturns ==
    /\ aside # None /\ completes(aside) /\ aside' = None
    /\ UNCHANGED <<prov, conv, ask, said, heard, fate>>

WireNext == Ask \/ Resend \/ Fragment \/ Generate \/ Stream \/ StreamClosed \/ AttemptFails \/ CanceledInBackoff
            \/ Answer \/ AsideAsks \/ AsideReturns

WireSpec == WireInit /\ [][WireNext]_wireVars

-----------------------------------------------------------------------------
WireTypeOK ==
    /\ pinned \in {None} \cup {envPin(c) : c \in Runs} \cup {pinProviderName[u] : u \in Upstreams}
    /\ ask.at \in {"idle", "body", "said", "backoff", "over"} /\ ask.retry \in 0..MaxResends
    /\ \A i \in DOMAIN conv : conv[i].parts \in Seq(Part)
    /\ \A i \in assistantTurns : conv[i].said \in Reply

(* A turn whose answer ended is replayed exactly as if it had come whole,   *)
(* however its fragments were interleaved: every call with all its          *)
(* arguments, the text, and the reasoning trace complete and in order, and  *)
(* the tokens counted as the server did.  A block that comes in several     *)
(* fragments and says in none which it is keeps them apart, so that trace   *)
(* is not vouched for; nor is an answer whose stream was closed early       *)
(* (Stream, reasoningAccumulator, collectStream, toResponse).               *)
unsplit(r) == \A i \in DOMAIN r.think : keyless(r.think[i]) => Len(r.think[i].x) = 1

TurnsArriveWhole ==
    \A i \in assistantTurns :
        LET whole == toResponse(prov, conv[i].said)
        IN  ~conv[i].cut =>
              /\ ofKind(conv[i].parts, {"text"}) = ofKind(whole, {"text"})
              /\ ofKind(conv[i].parts, {"call"}) = ofKind(whole, {"call"})
              /\ unsplit(conv[i].said) \/ ~prov.stream =>
                     toMessages(prov, <<conv[i]>>) = toMessages(prov, <<[conv[i] EXCEPT !.parts = whole]>>)
              /\ conv[i].usage = [prompt |-> 10 + conv[i].said.read, cached |-> conv[i].said.read]

(* "a partial trace is not replayable — a truncated signature is exactly    *)
(* the corruption replay must avoid" (openaicompat.go:347-348): a turn that *)
(* is committed has its trace whole, joined as its blocks say.              *)
TracesAreWhole ==
    \A i \in assistantTurns :
        unsplit(conv[i].said) => ofKind(conv[i].parts, {"think"}) = ofKind(toResponse(prov, conv[i].said), {"think"})

(* Arguments are JSON when they have come to their end.                     *)
json(args) == args = <<"{}">> \/ (args # <<>> /\ Last(args) = "b")

(* "must be valid JSON" (openaicompat.go:552, anthropic.go:487-488): the    *)
(* arguments of every call of the next request.                             *)
ArgumentsAreJSON ==
    ask.at \in {"idle", "backoff"} =>
        \A i \in DOMAIN request.messages : \A b \in DOMAIN request.messages[i].blocks :
            request.messages[i].blocks[b].k = "call" => json(request.messages[i].blocks[b].x)

(* Whatever a run has been through, its next request keeps to what the wire *)
(* asks of it: no message is empty, save on the chat wire that of a turn    *)
(* that said nothing or only thoughts since dropped, which is sent as an    *)
(* empty string; no call goes without arguments, and they are JSON where    *)
(* the answer gave them whole (those of an answer that ran out of tokens or *)
(* of stream are replayed as they came); the thinking leads its turn, the   *)
(* results answer the calls of the turn before them, the task's images are  *)
(* there, and the system prefix and the tail carry the cache marks          *)
(* (buildParams, toMessages, applyCacheBreakpoints).                        *)
RequestIsWellFormed ==
    ask.at \in {"idle", "backoff"} =>
        LET body  == request.messages
            kinds == {"result", "error"}
            has(i, ks) == \E b \in DOMAIN body[i].blocks : body[i].blocks[b].k \in ks
            back(i) == CHOOSE j \in 1..i : body[j].role = "assistant" /\ \A l \in (j + 1)..i : body[l].role # "assistant"
            given(m) == ~m.cut /\ \A i \in DOMAIN m.said.calls : m.said.calls[i] = <<>> \/ json(m.said.calls[i])
        IN  /\ \A i \in DOMAIN body : \A b \in DOMAIN body[i].blocks :
                 body[i].blocks[b].k = "call" => body[i].blocks[b].x # <<>>
            /\ \A i \in assistantTurns : given(conv[i]) =>
                 \A c \in DOMAIN calls(conv[i].parts) : json(calls(conv[i].parts)[c].x)
            /\ \A i \in DOMAIN body : body[i].role # "assistant" \/ prov.api = "messages" => body[i].blocks # <<>>
            /\ \A i \in DOMAIN body : \A b \in DOMAIN body[i].blocks :
                 body[i].blocks[b].k = "think" => \A d \in 1..b : body[i].blocks[d].k = "think"
            /\ \A i \in DOMAIN body : \A b \in DOMAIN body[i].blocks :
                 body[i].blocks[b].k \in kinds =>
                   \E d \in DOMAIN body[back(i)].blocks :
                      body[back(i)].blocks[d].k = "call" /\ body[back(i)].blocks[d].id = body[i].blocks[b].id
            /\ \A i \in DOMAIN conv[1].parts : conv[1].parts[i].k = "image" => has(2, {"image"})
            /\ prov.cache => /\ <<1, 1>> \in request.marks /\ Cardinality(request.marks) <= 2
                             /\ body[Len(body)].role # "assistant" =>
                                    \E j \in DOMAIN body[Len(body)].blocks : <<Len(body), j>> \in request.marks

(* The router's upstream is the one the environment names; without one, a   *)
(* steered model has none and any other the upstream of the first answer    *)
(* that names one, whichever of the provider's callers got it, for good.    *)
(* A request sent under a pin is served by it, and finds it unchanged when  *)
(* its answer comes (maybePin, buildParams).                                *)
RoutingIsSticky ==
    /\ pinned = IF prov.env # None THEN prov.env ELSE IF prov.preferred # None THEN None ELSE first
    /\ ask.at = "body" /\ ~ask.routing.fallbacks =>
          ask.routing.order = pinned /\ ask.up # None /\ pinProviderName[ask.up] = pinned

(* A fault the request itself causes is never answered by sending the same  *)
(* request again, a passing one is until the re-sends are spent, and an     *)
(* overflow goes to the eviction, unless only the type of a chat wire's     *)
(* error event tells of it, which is taken for a passing fault.  A          *)
(* connection that breaks other than by an early end of the body is no      *)
(* passing fault (classify, generateWithRetry).                             *)
unread(f) == prov.api = "chat" /\ f.via = "event" /\ f.says = "overflowType"

FaultsAreRouted ==
    LET f == fate.fault
        overflows == f.says \in {"overflow", "overflowType"} /\ ~unread(f)
        caused    == f.via = "cancel" \/ overflows \/ f.says \in {"encrypted", "auth"}
        passing   == \/ unread(f)
                     \/ f.says \in {"other", "rate"} /\ (f.via \in {"event", "eof", "badEvent"} \/ f.code \in {429, 500, 502, 503, 504})
    IN  fate.route # None =>
          /\ fate.route = "resend" => ~caused
          /\ passing /\ fate.route = "stop" => ask.retry = MaxResends
          /\ fate.route = "evict" <=> overflows
          /\ fate.route = "scrub" => dropReplayReasoning(conv) = conv

(* "route it to the eviction fallback, never to a verbatim (still overlong) *)
(* retry" (openaicompat.go:815-816): an overflow is never re-sent.          *)
OverflowsAreEvicted == fate.fault.says \in {"overflow", "overflowType"} => fate.route # "resend"

(* "a dropped connection as the raw transport error" is "transient, not a   *)
(* fault in the request" (openaicompat.go:797-800): a stream that breaks is *)
(* given up only when the re-sends are spent.                               *)
BrokenStreamsAreResent ==
    prov.api = "chat" /\ prov.stream /\ fate.fault.via \in {"eof", "reset"} /\ fate.route = "stop" => ask.retry = MaxResends
=============================================================================
