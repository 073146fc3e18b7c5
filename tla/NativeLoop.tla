------------------------------ MODULE NativeLoop ------------------------------
(***************************************************************************)
(* RunNative, the turn loop of package agent (agent/loop_tools.go), with    *)
(* the model call and its retries and evictions (generate.go), the          *)
(* observation dedup (loop_shared.go) and the detectors of TurnTracker.     *)
(*                                                                         *)
(* The model, the provider and the caller's cancel are the environment: a   *)
(* scenario says which replies and faults they may produce.  The closing    *)
(* gates are reduced to their three answers (ClosingGates has the rest).    *)
(***************************************************************************)
EXTENDS TurnTracker, FiniteSets

CONSTANTS
    Scenarios,            \* what the environment of a run may do, by name
    Versions,             \* states of the workspace (strings)
    Missing,              \* the ones in which the file being read is gone
    RunOut,               \* what the test command prints in each version
    AnswerNudgeWindow,    \* Policy.AnswerNudgeWindow
    evictionMaxRetries,   \* 3 in the code
    transientMaxRetries   \* 2 in the code

finishToolNudgeWindow == 2

Scenario == [replies : SUBSET [calls : Seq([name : STRING, arg : STRING]), empty : BOOLEAN],
             thoughts : SUBSET STRING, faults : SUBSET {"transient", "overflow", "rejected", "fatal"},
             finishTool : BOOLEAN, observeOnly : BOOLEAN, standing : BOOLEAN,
             budgeted : BOOLEAN, cancels : BOOLEAN, flaky : BOOLEAN, priorTurns : Nat,
             maxIter : Nat \ {0}]

ASSUME LoopAssumption ==
    /\ \A s \in DOMAIN Scenarios : Scenarios[s] \in Scenario
    /\ Versions \subseteq STRING \ {"error"} /\ Missing \subseteq Versions
    /\ RunOut \in [Versions -> RunSaw]
    /\ {AnswerNudgeWindow, evictionMaxRetries, transientMaxRetries} \subseteq Nat

(* The words a run writes itself are strings, which the provers do not know   *)
(* of a literal.                                                             *)
Words == {"", "none", "history", "task", "t0", "standing", "feedback", "hint", "tools", "finish", "not executed",
          "error", "fewer", "names", "done", "green", "red1", "red2", "infra",
          "plain", "1ms", "2ms", "skipped", "clean", "dirty", "unknown", "unchecked"}

ASSUME WordsAssumption == Words \subseteq STRING

Killed   == {"repeat", "tool_obs_repeat", "spiral_cycle", "spiral_wander", "stagnant"}
Outcomes == Killed \cup {"none", "Answered", "Stopped", "Canceled", "HitBudget", "HitDeadline",
                         "HitContextLimit", "ProviderErr", "HitCap"}
Phases   == {"top", "generate", "reply", "finishing", "dispatch", "endTurn", "done"}

Call    == [name : STRING, arg : STRING]
NoCall  == [name |-> "none", arg |-> "none"]
Message == [role : {"user", "assistant", "tool"}, at : Nat, n : Nat,
            what : Seq(STRING), ref : Nat]

VARIABLES
    scen,      \* the scenario's name
    phase,     \* where RunNative is
    iter,      \* i
    ws,        \* the workspace
    msgs,      \* messages, the transcript that is re-sent every turn
    reply,     \* the model's turn: calls, empty (no prose), thought, adv (reasoningAdvanced)
    k,         \* index of the next call to dispatch
    pre,       \* prefetched results of the leading read-only calls
    fps,       \* turnObservationFPs
    tr,        \* turnTracker
    spiral,    \* spiralState
    mem,       \* lastTurnSig, lastReasoningSig, repeats, lastRead*, lastExecutedSig, nudge latches
    seen,      \* obsDedup.seen, as pairs <<observation, iteration>>
    req,       \* generateWithEviction: attempt, dropped; generateWithRetry: retry; sends
    canceled,  \* the caller canceled
    outcome,   \* RunResult.Outcome, a kill by its detector (upgradeIfVerified is ClosingGates'); "none" while running
    steps,     \* history: the committed tool turns and finish turns
    evicted    \* history: eviction has dropped a turn

loopVars == <<scen, phase, iter, ws, msgs, reply, k, pre, fps, tr, spiral, mem, seen, req,
              canceled, outcome, steps, evicted>>

sc == Scenarios[scen]
maxIter == sc.maxIter   \* Policy.maxIterations

-----------------------------------------------------------------------------
User(what)   == [role |-> "user", at |-> iter, n |-> 0, what |-> <<what>>, ref |-> 0]
Assistant    == [role |-> "assistant", at |-> iter, n |-> Len(reply.calls), what |-> <<reply.thought>>, ref |-> 0]
ToolResult(j, what, ref) == [role |-> "tool", at |-> iter, n |-> j, what |-> what, ref |-> ref]

(* seedMessages: the task alone, or after the history of a session. *)
seedMessages(n) ==
    LET prior == [role |-> "user", at |-> 0, n |-> 0, what |-> <<"history">>, ref |-> 0]
        said  == [prior EXCEPT !.role = "assistant", !.what = <<"t0">>]
    IN  [i \in 1..(2 * n + 1) |-> IF i = 2 * n + 1 THEN [prior EXCEPT !.what = <<"task">>]
                                  ELSE IF i % 2 = 1 THEN prior ELSE said]

LoopInit ==
    /\ scen \in DOMAIN Scenarios
    /\ phase = "top" /\ iter = 1 /\ ws \in Versions \ Missing
    /\ msgs = seedMessages(sc.priorTurns)
    /\ reply = [calls |-> <<>>, empty |-> TRUE, thought |-> "none", adv |-> FALSE]
    /\ k = 1 /\ pre = <<>> /\ fps = <<>>
    /\ tr = newTurnTracker /\ spiral = newSpiralState
    /\ mem = [sig |-> <<>>, thought |-> "none", repeats |-> 0, readSig |-> NoCall, readSaw |-> "none",
              execSig |-> NoCall, answerNudged |-> FALSE, sayNudged |-> FALSE]
    /\ seen = {} /\ req = [attempt |-> 0, retry |-> 0, dropped |-> FALSE, sends |-> 0]
    /\ canceled = FALSE /\ outcome = "none" /\ steps = <<>> /\ evicted = FALSE

end(o) == phase' = "done" /\ outcome' = o /\ UNCHANGED iter

nextTurn_unbounded == phase' = "top" /\ iter' = iter + 1 /\ UNCHANGED outcome

(* The loop's increment and its bound. *)
nextTurn ==
    IF iter < maxIter THEN phase' = "top" /\ iter' = iter + 1 /\ UNCHANGED outcome ELSE end("HitCap")

-----------------------------------------------------------------------------
(* The top of a turn: cancel, budgets, and the standing block when it changed. *)
turnStarts ==
    /\ phase = "top"
    /\ \/ canceled /\ end("Canceled") /\ UNCHANGED <<msgs, req>>
       \/ ~canceled /\ sc.budgeted /\ (\E o \in {"HitDeadline", "HitBudget"} : end(o)) /\ UNCHANGED <<msgs, req>>
       \/ /\ ~canceled
          /\ phase' = "generate"
          /\ msgs' \in {msgs} \cup (IF sc.standing THEN {Append(msgs, User("standing"))} ELSE {})
          /\ req' = [attempt |-> 0, retry |-> 0, dropped |-> FALSE, sends |-> 0]
          /\ UNCHANGED <<iter, outcome>>
    /\ UNCHANGED <<scen, ws, reply, k, pre, fps, tr, spiral, mem, seen, canceled, steps, evicted>>

(* The typed stop of a failed model call. *)
classifyGenerateErr(err) ==
    (IF sc.budgeted THEN {"HitDeadline"} ELSE {}) \cup
    {IF err = "overflow" THEN "HitContextLimit" ELSE IF canceled THEN "Canceled" ELSE "ProviderErr"}

requestVars == <<scen, ws, k, pre, fps, tr, spiral, mem, seen, canceled, steps>>

generateOnce ==
    /\ phase = "generate"
    /\ \E r \in sc.replies, th \in sc.thoughts :
          reply' = [calls |-> r.calls, empty |-> r.empty, thought |-> th,
                    adv |-> th # "none" /\ th # mem.thought]
    /\ phase' = "reply"
    /\ UNCHANGED <<iter, msgs, req, outcome, evicted, requestVars>>

(* The call fails for good: auth, transport, the caller's cancel. *)
generateFails ==
    /\ phase = "generate" /\ ("fatal" \in sc.faults \/ canceled)
    /\ \E o \in classifyGenerateErr("fatal") : end(o)
    /\ UNCHANGED <<msgs, reply, req, evicted, requestVars>>

generateWithRetry_oneMore ==
    /\ phase = "generate" /\ "transient" \in sc.faults
    /\ IF req.retry <= transientMaxRetries
       THEN req' = [req EXCEPT !.retry = @ + 1, !.sends = @ + 1] /\ UNCHANGED <<iter, phase, outcome>>
       ELSE UNCHANGED req /\ end("ProviderErr")
    /\ UNCHANGED <<msgs, reply, evicted, requestVars>>

(* A retryable provider error: re-sent, unless the backoff is interrupted by *)
(* a cancel or the deadline.                                                *)
generateWithRetry ==
    /\ phase = "generate" /\ "transient" \in sc.faults
    /\ \/ /\ req.retry < transientMaxRetries /\ ~canceled
          /\ req' = [req EXCEPT !.retry = @ + 1, !.sends = @ + 1] /\ UNCHANGED <<iter, phase, outcome>>
       \/ /\ req.retry >= transientMaxRetries \/ canceled
          /\ UNCHANGED req /\ \E o \in classifyGenerateErr("transient") : end(o)
       \/ /\ req.retry < transientMaxRetries /\ sc.budgeted
          /\ UNCHANGED req /\ end("HitDeadline")
    /\ UNCHANGED <<msgs, reply, evicted, requestVars>>

again(r) == req' = [r EXCEPT !.attempt = @ + 1, !.retry = 0, !.sends = @ + 1]

dropReplayReasoning(m) ==
    [i \in DOMAIN m |-> IF m[i].role = "assistant" THEN [m[i] EXCEPT !.what = <<"none">>] ELSE m[i]]

(* The provider rejects the replayed reasoning: dropped once, then sent again. *)
replayRejected ==
    /\ phase = "generate" /\ "rejected" \in sc.faults
    /\ IF ~req.dropped /\ dropReplayReasoning(msgs) # msgs
       THEN /\ msgs' = dropReplayReasoning(msgs)
            /\ again([req EXCEPT !.dropped = TRUE]) /\ UNCHANGED <<iter, phase, outcome>>
       ELSE UNCHANGED <<msgs, req>> /\ \E o \in classifyGenerateErr("rejected") : end(o)
    /\ UNCHANGED <<reply, evicted, requestVars>>

-----------------------------------------------------------------------------
turnBegins(m) == {i \in 2..Len(m) : m[i].role = "assistant"}

(* m without its oldest n turns: [first assistant, (n + 1)-th assistant). *)
evictOldest(m, n) ==
    LET nth(j) == CHOOSE i \in turnBegins(m) : Cardinality({h \in turnBegins(m) : h < i}) = j
    IN  SubSeq(m, 1, nth(0) - 1) \o SubSeq(m, nth(n), Len(m))

evictOldestTurns_all(m) ==
    LET removable == Cardinality(turnBegins(m)) - 1
        first     == CHOOSE i \in turnBegins(m) : \A j \in turnBegins(m) : i <= j
    IN  IF removable <= 0 THEN m ELSE SubSeq(m, 1, first - 1)

(* Half of the removable turns, the most recent one never among them. *)
evictOldestTurns(m) ==
    LET removable == Cardinality(turnBegins(m)) - 1
    IN  IF removable <= 0 THEN m ELSE evictOldest(m, (removable + 1) \div 2)

(* The window overflows: evict and send again, or degrade. *)
generateWithEviction ==
    /\ phase = "generate" /\ "overflow" \in sc.faults
    /\ IF req.attempt < evictionMaxRetries /\ evictOldestTurns(msgs) # msgs
       THEN /\ msgs' = evictOldestTurns(msgs) /\ evicted' = TRUE
            /\ again(req) /\ UNCHANGED <<iter, phase, outcome>>
       ELSE UNCHANGED <<msgs, req, evicted>> /\ \E o \in classifyGenerateErr("overflow") : end(o)
    /\ UNCHANGED <<reply, requestVars>>

-----------------------------------------------------------------------------
(* gates.finish, on transcript m: fed back (with turns left), stopped, or accepted. *)
gatesFinish(m) ==
    \/ iter < maxIter /\ msgs' = Append(m, User("feedback")) /\ nextTurn
    \/ \E o \in {"Stopped", "Answered"} : msgs' = m /\ end(o)

isSilent == reply.calls = <<>> /\ reply.empty /\ sc.finishTool /\ iter < maxIter

silentTurn_free ==
    /\ phase = "reply" /\ isSilent
    /\ mem' = [mem EXCEPT !.thought = reply.thought]
    /\ phase' = "top"
    /\ UNCHANGED <<scen, iter, outcome, msgs, ws, reply, k, pre, fps, tr, spiral, seen, req, canceled, steps, evicted>>

(* A turn without prose or calls, when finishing takes the finish tool: a    *)
(* moving thought just goes on, silence is nudged.                          *)
silentTurn ==
    /\ phase = "reply" /\ isSilent
    /\ mem' = IF reply.adv THEN [mem EXCEPT !.thought = reply.thought] ELSE mem
    /\ msgs' = Append(msgs, Assistant) \o (IF reply.adv THEN <<>> ELSE <<User("hint")>>)
    /\ nextTurn
    /\ UNCHANGED <<scen, ws, reply, k, pre, fps, tr, spiral, seen, req, canceled, steps, evicted>>

(* The plain answer: no tool call. *)
answerTurn ==
    /\ phase = "reply" /\ reply.calls = <<>> /\ ~isSilent
    /\ gatesFinish(Append(msgs, Assistant))
    /\ UNCHANGED <<scen, ws, reply, k, pre, fps, tr, spiral, mem, seen, req, canceled, steps, evicted>>

-----------------------------------------------------------------------------
(* What executing a call can do.  The test command leaves the workspace      *)
(* alone, any other command may do anything to it; a canceled context can    *)
(* fail every tool.                                                          *)
readOnly(c)  == c.name \in {"read_file", "search", "list_dir"}
discovery(c) == c.name \in {"search", "list_dir"}

Ran(saw, w, tag) == [saw |-> saw, ws |-> w, tag |-> tag]

dispatchNative(c) ==
    LET durations == IF sc.flaky THEN {"1ms", "2ms"} ELSE {"1ms"}
    IN  (IF canceled \/ (sc.flaky /\ ~readOnly(c)) THEN {Ran("error", ws, "plain")} ELSE {})
        \cup CASE c.name = "read_file"  -> {Ran(IF ws \in Missing THEN "error" ELSE ws, ws, "plain")}
               [] discovery(c)          -> {Ran(IF ws \in Missing THEN "fewer" ELSE "names", ws, "plain")}
               [] c.name = "edit_file"  -> IF ws \in Missing THEN {Ran("error", ws, "plain")}
                                           ELSE {Ran("done", w, "plain") : w \in Versions \ Missing}
               [] c.name = "finish" /\ sc.finishTool -> {Ran("done", ws, "plain")}
               [] c.name = "write_file" -> {Ran("done", w, "plain") : w \in Versions \ Missing}
               [] c.name = "run"        ->
                    {Ran(out, w, d) : out \in {RunOut[ws]} \cup (IF sc.flaky THEN {"infra"} ELSE {}),
                                      w \in IF c.arg = "test" THEN {ws} ELSE Versions, d \in durations}
               [] OTHER -> {Ran("error", ws, "plain")}   \* unknown tool

Observed(c, r) == <<c.name, c.arg, r.saw, r.tag>>

finishCall(c) == c.name = "finish"

(* findCall: the first call of the finish tool; a second one is an ordinary call. *)
findCall == CHOOSE j \in DOMAIN reply.calls :
                finishCall(reply.calls[j]) /\ \A h \in 1..(j - 1) : ~finishCall(reply.calls[h])

callsFinish == sc.finishTool /\ \E j \in DOMAIN reply.calls : finishCall(reply.calls[j])

(* A turn that calls the finish tool bypasses detectors, skip and dedup. *)
finishTurn ==
    /\ phase = "reply" /\ callsFinish
    /\ msgs' = Append(msgs, Assistant)
    /\ phase' = "finishing" /\ k' = 1 /\ fps' = <<>>
    /\ UNCHANGED <<scen, iter, ws, reply, pre, tr, spiral, mem, seen, req, canceled, outcome, steps, evicted>>

(* Its other calls run first; a stagnant kill is ignored. *)
finishDispatch ==
    /\ phase = "finishing" /\ k \in DOMAIN reply.calls
    /\ LET c == reply.calls[k]
       IN IF k = findCall THEN UNCHANGED <<ws, tr, msgs, fps>>
          ELSE \E r \in dispatchNative(c) :
                 /\ ws' = r.ws
                 /\ tr' = IF c.name = "run" THEN observeRun(tr, r.saw) ELSE tr
                 /\ msgs' = Append(msgs, ToolResult(k, Observed(c, r), 0))
                 /\ fps' = Append(fps, Observed(c, r))
    /\ k' = k + 1
    /\ UNCHANGED <<scen, phase, iter, reply, pre, spiral, mem, seen, req, canceled, outcome, steps, evicted>>

Step(kind) == [kind |-> kind, calls |-> reply.calls, adv |-> reply.adv, obs |-> fps']

finishReturns ==
    /\ phase = "finishing" /\ k \notin DOMAIN reply.calls
    /\ gatesFinish(Append(msgs, ToolResult(findCall, <<"finish">>, 0)))
    /\ UNCHANGED fps
    /\ steps' = Append(steps, Step("finish"))
    /\ UNCHANGED <<scen, ws, reply, k, pre, tr, spiral, mem, seen, req, canceled, evicted>>

-----------------------------------------------------------------------------
isToolTurn == phase = "reply" /\ reply.calls # <<>> /\ ~callsFinish

repeats == IF reply.calls = mem.sig THEN mem.repeats + 1 ELSE 0

repeatKills == reply.calls = mem.sig /\ repeats >= repeatThreshold(reply.adv)

(* The tight loop, cut before the turn is committed. *)
killRepeat ==
    /\ isToolTurn /\ repeatKills
    /\ end("repeat")
    /\ UNCHANGED <<scen, ws, msgs, reply, k, pre, fps, tr, spiral, mem, seen, req, canceled, steps, evicted>>

allCallsDiscovery(calls) == calls # <<>> /\ \A j \in DOMAIN calls : discovery(calls[j])
discoveryTargets(calls)  == [j \in DOMAIN calls |-> <<calls[j].name, calls[j].arg>>]

spiralAfter == IF allCallsDiscovery(reply.calls)
               THEN observeDiscoveryTurn(spiral, discoveryTargets(reply.calls)) ELSE newSpiralState

memAfter == [mem EXCEPT !.sig = reply.calls, !.thought = reply.thought, !.repeats = repeats]

killSpiral ==
    /\ isToolTurn /\ ~repeatKills /\ spiralKill(spiralAfter) # "none"
    /\ mem' = memAfter /\ spiral' = spiralAfter
    /\ end(spiralKill(spiralAfter))
    /\ UNCHANGED <<scen, ws, msgs, reply, k, pre, fps, tr, seen, req, canceled, steps, evicted>>

parallelSafe(c) == readOnly(c)

(* The identical-read skip: the last executed call was this very read. *)
skips(c, m) == readOnly(c) /\ c = m.readSig /\ c = m.execSig /\ ~reply.adv

(* The leading read-only calls run concurrently, two or more of them. *)
prefetchLeadingReadOnly ==
    LET n == CHOOSE h \in 0..Len(reply.calls) :
                 /\ \A j \in 1..h : parallelSafe(reply.calls[j])
                 /\ h < Len(reply.calls) => ~parallelSafe(reply.calls[h + 1])
    IN  IF n < 2 \/ skips(reply.calls[1], mem) THEN {<<>>}
        ELSE {r \in [1..n -> UNION {dispatchNative(reply.calls[j]) : j \in 1..n}] :
                 \A j \in 1..n : r[j] \in dispatchNative(reply.calls[j])}

commitTurn ==
    /\ isToolTurn /\ ~repeatKills /\ spiralKill(spiralAfter) = "none"
    /\ mem' = memAfter /\ spiral' = spiralAfter
    /\ msgs' = Append(msgs, Assistant)
    /\ pre' \in prefetchLeadingReadOnly
    /\ phase' = "dispatch" /\ k' = 1 /\ fps' = <<>>
    /\ UNCHANGED <<scen, iter, ws, reply, tr, seen, req, canceled, outcome, steps, evicted>>

-----------------------------------------------------------------------------
(* len(rawObs) >= obsDedupMinLen: file contents and command output are long. *)
dedupable(obs) == obs[1] \in {"read_file", "run"} /\ obs[3] # "error"

stub_lastSeen(obs, rest) ==
    LET first == {p \in seen : p[1] = obs}
        ref   == IF first = {} THEN 0 ELSE (CHOOSE p \in first : TRUE)[2]
    IN  /\ seen' = IF dedupable(obs) THEN (seen \ first) \cup {<<obs, iter>>} ELSE seen
        /\ msgs' = Append(msgs, ToolResult(k, obs, ref)) \o rest

(* obsDedup.stub: an observation sent before goes out as a reference to the  *)
(* iteration that first sent it; rest follows it in the transcript.          *)
stub(obs, rest) ==
    LET first == {p \in seen : p[1] = obs}
        ref   == IF first = {} THEN 0 ELSE (CHOOSE p \in first : TRUE)[2]
    IN  /\ seen' = IF dedupable(obs) /\ ref = 0 THEN seen \cup {<<obs, iter>>} ELSE seen
        /\ msgs' = Append(msgs, ToolResult(k, obs, ref)) \o rest

(* One call is observed: detectors, nudges, dedup, result, next call. *)
observeCall(c, r, m) ==
    LET obs  == Observed(c, r)
        ran  == IF c.name = "run" THEN observeRun(tr, r.saw) ELSE tr
        acted == observeAction(ran, iter, c.name)
    IN  /\ ~(c.name = "run" /\ stagnantKills(ran, r.saw))
        /\ ws' = r.ws /\ mem' = m
        /\ tr' = observationNudges(acted)
        /\ fps' = Append(fps, obs)
        /\ stub(obs, <<>>)
        /\ k' = k + 1
        /\ phase' = IF k = Len(reply.calls) THEN "endTurn" ELSE "dispatch"
        /\ UNCHANGED <<scen, iter, reply, pre, spiral, req, canceled, outcome, steps, evicted>>

skipCall ==
    /\ phase = "dispatch" /\ skips(reply.calls[k], mem)
    /\ observeCall(reply.calls[k], Ran(mem.readSaw, ws, "skipped"), mem)

(* A prefetched result, or the tool is executed now. *)
executions == IF k <= Len(pre) THEN {pre[k]} ELSE dispatchNative(reply.calls[k])

memOf_readsOnly(c, r) ==
    IF ~readOnly(c) \/ r.saw = "error" THEN mem
    ELSE [mem EXCEPT !.execSig = c, !.readSig = c, !.readSaw = r.saw]

(* Every executed call is remembered, a read's result only if it worked. *)
memOf(c, r) == [mem EXCEPT !.execSig = c,
                           !.readSig = IF readOnly(c) /\ r.saw # "error" THEN c ELSE @,
                           !.readSaw = IF readOnly(c) /\ r.saw # "error" THEN r.saw ELSE @]

dispatchCall ==
    /\ phase = "dispatch" /\ ~skips(reply.calls[k], mem)
    /\ \E r \in executions : observeCall(reply.calls[k], r, memOf(reply.calls[k], r))

(* The same failure again: the run is cut in the middle of the turn, and the *)
(* calls never dispatched get a synthetic result each.                       *)
killStagnant ==
    /\ phase = "dispatch" /\ reply.calls[k].name = "run"
    /\ \E r \in executions :
         LET obs  == Observed(reply.calls[k], r)
             rest == [j \in 1..(Len(reply.calls) - k) |-> ToolResult(k + j, <<"not executed">>, 0)]
         IN /\ stagnantKills(observeRun(tr, r.saw), r.saw)
            /\ ws' = r.ws /\ tr' = observeRun(tr, r.saw) /\ mem' = memOf(reply.calls[k], r)
            /\ fps' = Append(fps, obs)
            /\ stub(obs, rest)
    /\ end("stagnant")
    /\ steps' = Append(steps, Step("tools"))
    /\ UNCHANGED <<scen, reply, k, pre, spiral, req, canceled, evicted>>

-----------------------------------------------------------------------------
hint(due) == IF due THEN <<User("hint")>> ELSE <<>>

(* The end of a dispatched turn: the observation-repeat backstop, then the   *)
(* escalating nudge, diagnostics after an edit, and the near-cap nudges.     *)
turnEnds ==
    /\ phase = "endTurn"
    /\ LET seenObs == observeToolObservation(tr, fps)
           edited  == \E j \in DOMAIN reply.calls : mutates(reply.calls[j].name)
           answer  == /\ ~mem.answerNudged /\ sc.observeOnly /\ AnswerNudgeWindow > 0
                      /\ iter < maxIter /\ maxIter - iter <= AnswerNudgeWindow
           say     == /\ ~mem.sayNudged /\ sc.finishTool
                      /\ iter < maxIter /\ maxIter - iter <= finishToolNudgeWindow
       IN \/ /\ toolObsKills(seenObs)
             /\ tr' = seenObs /\ end("tool_obs_repeat") /\ UNCHANGED <<msgs, mem>>
          \/ /\ ~toolObsKills(seenObs)
             /\ \E build \in IF edited /\ diagnosticsDue(seenObs) THEN {"clean", "dirty", "unknown"}
                             ELSE {"unchecked"} :
                  LET checked == IF build = "clean" THEN [seenObs EXCEPT !.editsSinceGreen = 0] ELSE seenObs
                      finish  == finishNudgeDue(checked, iter, maxIter)
                  IN  /\ tr' = [checked EXCEPT !.finishNudged = @ \/ finish]
                      /\ msgs' = msgs \o hint(escalatingRepeatNudge(seenObs.obsRepeat))
                                      \o hint(build = "dirty") \o hint(finish) \o hint(answer) \o hint(say)
             /\ mem' = [mem EXCEPT !.answerNudged = @ \/ answer, !.sayNudged = @ \/ say]
             /\ nextTurn
    /\ UNCHANGED fps
    /\ steps' = Append(steps, Step("tools"))
    /\ UNCHANGED <<scen, ws, reply, k, pre, spiral, seen, req, canceled, evicted>>

cancel == /\ sc.cancels /\ ~canceled /\ phase # "done"
          /\ canceled' = TRUE
          /\ UNCHANGED <<scen, phase, iter, ws, msgs, reply, k, pre, fps, tr, spiral, mem, seen,
                         req, outcome, steps, evicted>>

modelStep == generateOnce \/ generateFails \/ generateWithRetry \/ replayRejected \/ generateWithEviction

loopStep == \/ turnStarts \/ modelStep \/ silentTurn \/ answerTurn
            \/ finishTurn \/ finishDispatch \/ finishReturns
            \/ killRepeat \/ killSpiral \/ commitTurn
            \/ skipCall \/ dispatchCall \/ killStagnant \/ turnEnds

LoopNext == loopStep \/ cancel

LoopSpec == LoopInit /\ [][LoopNext]_loopVars

(* Straight-line code; model calls and tools return or fail (MaxWallClock,   *)
(* the provider's own timeouts, RunTimeout).                                 *)
FairLoopSpec == LoopSpec /\ WF_loopVars(loopStep)
-----------------------------------------------------------------------------
(* Types; the turn counter stays within Policy.maxIterations. *)
LoopTypeOK ==
    /\ scen \in DOMAIN Scenarios /\ phase \in Phases /\ iter \in 1..maxIter
    /\ ws \in Versions /\ msgs \in Seq(Message)
    /\ reply.calls \in Seq(Call) /\ fps \in Seq(Seq(STRING))
    /\ phase = "dispatch" => k \in DOMAIN reply.calls /\ Len(fps) = k - 1 /\ Len(pre) <= Len(reply.calls)
    /\ tr \in TrackerState
    /\ mem.readSig \in Call /\ mem.execSig \in Call /\ mem.repeats \in Nat
    /\ canceled \in BOOLEAN /\ evicted \in BOOLEAN /\ outcome \in Outcomes
    /\ phase = "done" <=> outcome # "none"

(* Whenever the transcript is sent or returned, each assistant message with  *)
(* n tool calls is followed by exactly n results, one per call, and no       *)
(* result stands elsewhere: after kills in mid-turn, rejected finishes,      *)
(* nudges and evictions too.                                                 *)
TranscriptPaired ==
    phase \in {"top", "generate", "done"} =>
        /\ \A i \in DOMAIN msgs : msgs[i].role = "assistant" =>
             /\ i + msgs[i].n <= Len(msgs)
             /\ {msgs[i + j].n : j \in 1..msgs[i].n} = 1..msgs[i].n
             /\ \A j \in 1..msgs[i].n : msgs[i + j].role = "tool" /\ msgs[i + j].at = msgs[i].at
        /\ \A i \in DOMAIN msgs : msgs[i].role = "tool" =>
             \E h \in 1..(i - 1) : msgs[h].role = "assistant" /\ i - h <= msgs[h].n

lastTurnOf(m) == {m[i] : i \in {j \in DOMAIN m : \A h \in turnBegins(m) : h <= j}}

(* An eviction shrinks the transcript, but keeps its opening message and the *)
(* whole of the most recent turn (evictOldestTurns).                         *)
EvictionIsSafe ==
    [][evictOldestTurns(msgs) # msgs /\ Len(msgs') < Len(msgs) =>
          /\ msgs'[1] = msgs[1]
          /\ lastTurnOf(msgs') = lastTurnOf(msgs)]_msgs

(* "[identical to iter K]" leads the model to the full text: while nothing   *)
(* was evicted, iteration K holds that very observation, and not as a stub.  *)
StubResolves ==
    ~evicted => \A i \in DOMAIN msgs : msgs[i].ref # 0 =>
        \E j \in 1..(i - 1) : /\ msgs[j].role = "tool" /\ msgs[j].at = msgs[i].ref
                              /\ msgs[j].ref = 0 /\ msgs[j].what = msgs[i].what

(* The transcript re-sent every turn is one a provider accepts and a model   *)
(* can read, through kills, finish turns, skips, stubs and evictions.        *)
TranscriptWellFormed == TranscriptPaired /\ StubResolves

(* One turn never pays for more re-sends than its retry, replay and eviction *)
(* bounds allow together, whatever order the faults come in.                 *)
SendsBounded == req.sends < (transientMaxRetries + 1) * (evictionMaxRetries + 2)

(* The prefetch of leading reads is invisible: when its turn comes, each     *)
(* prefetched result is what executing the call now would give.              *)
PrefetchIsInvisible ==
    phase = "dispatch" /\ k <= Len(pre) => pre[k] \in dispatchNative(reply.calls[k])

(* The identical-read skip returns what reading again would.                 *)
SkipIsCurrent ==
    (phase \in {"dispatch", "endTurn"} /\ fps # <<>> /\ Last(fps)[4] = "skipped") =>
        \E r \in dispatchNative(reply.calls[Len(fps)]) : r.saw = Last(fps)[3]

(* No read is answered with something else than what the file holds when its *)
(* turn comes: not by the prefetch, and not by the identical-read skip,      *)
(* through edits, commands and other reads in between, as long as no read    *)
(* or search failed, in this turn or an earlier one, and no finish was sent  *)
(* back.                                                                     *)
failedRead(o) == o[1] \in {"read_file", "search", "list_dir"} /\ o[3] = "error"

ReadsAreCurrent ==
    /\ PrefetchIsInvisible
    /\ (/\ \A i \in DOMAIN steps : steps[i].kind = "tools" /\ \A j \in DOMAIN steps[i].obs : ~failedRead(steps[i].obs[j])
        /\ \A j \in DOMAIN fps : ~failedRead(fps[j]))
       => SkipIsCurrent

-----------------------------------------------------------------------------
(* What the history of a run says about progress, without the counters: of   *)
(* its tool turns, of a spiral's discovery turns and of the test runs it     *)
(* observed, how many at the end are all of a kind.                          *)
toolTurns(s) == {i \in DOMAIN s : s[i].kind = "tools"}

(* The longest stretch at the end of T that lies in G. *)
stretch(T, G) == {i \in T : \A j \in T : j >= i => j \in G}

sameCalls(s, calls) == stretch(toolTurns(s), {i \in toolTurns(s) : s[i].calls = calls})
sameObs(s, obs)     == stretch(toolTurns(s), {i \in toolTurns(s) : s[i].obs = obs})

(* The turns since the last one that was not discovery, where they went, and *)
(* the last of them that only went where the streak had been.                *)
discoveryStreak(s) == stretch(toolTurns(s), {i \in toolTurns(s) : allCallsDiscovery(s[i].calls)})
targetsOf(s, i)    == ToSet(discoveryTargets(s[i].calls))
wentTo(s)          == UNION {targetsOf(s, i) : i \in discoveryStreak(s)}
revisits(s, i)     == targetsOf(s, i) \subseteq UNION {targetsOf(s, h) : h \in {h \in discoveryStreak(s) : h < i}}
cycle(s)           == stretch(toolTurns(s), {i \in discoveryStreak(s) : revisits(s, i)})

(* The test runs, but for environment faults, by turn and call; and the last *)
(* of them that failed alike.                                                *)
runs(s)    == {p \in UNION {{i} \X DOMAIN s[i].obs : i \in DOMAIN s} :
                  s[p[1]].obs[p[2]][1] = "run" /\ s[p[1]].obs[p[2]][3] # "infra"}
before(p, q) == p[1] < q[1] \/ (p[1] = q[1] /\ p[2] < q[2])
sameRed(s, red) == {p \in runs(s) : \A q \in runs(s) : ~before(q, p) => s[q[1]].obs[q[2]][3] = red}

isLast(T, l) == l \in T /\ \A j \in T : j <= l

(* No stall outlives its detector: a run that goes on, or runs out of turns,  *)
(* has in its committed turns no repeated turn past its ceiling, no         *)
(* identical observed turn at the hard ceiling, no endless discovery, no     *)
(* cycle as long as the streak's targets fit the frontier (a forgotten one   *)
(* counts as new) and, with no finish turn in between, no recurring failure  *)
(* at MaxStagnant.                                                           *)
StallsAreCut ==
    (phase = "top" \/ outcome = "HitCap") =>
        /\ \A l \in toolTurns(steps) : isLast(toolTurns(steps), l) =>
             /\ Cardinality(sameCalls(steps, steps[l].calls)) <= repeatThreshold(steps[l].adv)
             /\ Cardinality(sameObs(steps, steps[l].obs)) < MaxReasoningRepeats
        /\ Cardinality(discoveryStreak(steps)) < WanderMultiple * NavSpiralWindow
        /\ Cardinality(wentTo(steps)) <= FrontierCap => Cardinality(cycle(steps)) < NavSpiralWindow
        /\ toolTurns(steps) = DOMAIN steps =>
             \A red \in {"red1", "red2"} : Cardinality(sameRed(steps, red)) < MaxStagnant

(* No run is killed for less: each kill has its stall in the committed turns *)
(* and the killed one, environment faults never making it longer.            *)
KillsAreEarned ==
    LET now == Append(steps, [kind |-> "tools", calls |-> reply.calls, adv |-> reply.adv, obs |-> <<>>])
    IN  /\ outcome = "repeat" => Cardinality(sameCalls(steps, reply.calls)) >= repeatThreshold(reply.adv)
        /\ outcome = "tool_obs_repeat" =>
             \E l \in toolTurns(steps) : /\ isLast(toolTurns(steps), l)
                                         /\ Cardinality(sameObs(steps, steps[l].obs)) >= MaxReasoningRepeats
        /\ outcome = "spiral_cycle" => Cardinality(cycle(now)) >= NavSpiralWindow
        /\ outcome = "spiral_wander" => Cardinality(discoveryStreak(now)) >= WanderMultiple * NavSpiralWindow
        /\ outcome = "stagnant" => \E red \in {"red1", "red2"} : Cardinality(sameRed(steps, red)) >= MaxStagnant

(* The spiral detector remembers at most FrontierCap targets, and no cycle   *)
(* is longer than the streak it is found in.                                 *)
FrontierBounded == Len(spiral.order) <= FrontierCap /\ spiral.cycleRun <= spiral.wander

(* A detector kills exactly the stalls: none outlives it, whatever came in   *)
(* between, no run is killed for less, and within the memory it is given.    *)
KillsAreStalls == StallsAreCut /\ KillsAreEarned /\ FrontierBounded

(* Every run of the loop ends. *)
LoopEnds == <>(phase = "done")

-----------------------------------------------------------------------------
(* What the repository says and the code does not do. *)

(* "(skipped: identical to your previous read; result unchanged)" holds of   *)
(* every skip: SkipIsCurrent, above, without the condition.                  *)

(* Eviction preserves "the TASK preamble": the turn's own task stays in the  *)
(* transcript that is sent.                                                  *)
TaskStaysInContext == \E i \in DOMAIN msgs : msgs[i].what = <<"task">>
=============================================================================
