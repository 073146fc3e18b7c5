------------------------------- MODULE TextLoop -------------------------------
(***************************************************************************)
(* Run, the turn loop of the text protocol (agent/loop_text.go): one action *)
(* a turn, parsed from what the model wrote, its observation appended as a  *)
(* user message with every hint inside it.  It shares the model call, the   *)
(* detectors, the dedup, the identical-read skip and the tools with         *)
(* NativeLoop, and so its variables and its properties.                     *)
(*                                                                         *)
(* In a text run a reply has one call, <<[name |-> "text", arg |-> t]>>,    *)
(* and Written[t] is what the model wrote.  The OBSERVATION message of a    *)
(* turn has role "tool" here.                                               *)
(***************************************************************************)
EXTENDS NativeLoop

CONSTANTS
    TextRuns,    \* the scenarios run over the text protocol, by name
    Written,     \* the texts of the model, by name: sequences of lines
    Known        \* the tools, and "answer"

(* A line: what its form makes of its head, the argument left when the      *)
(* wrapper tags are stripped ("" if none), whether there was anything but   *)
(* blanks to strip, and the line as an argument of its own.                 *)
LineForms == {"plain", "json", "parameter", "angle", "prose", "tag", "blank"}
Line      == [form : LineForms, verb : STRING, arg : STRING, junk : BOOLEAN, text : STRING]

ASSUME TextAssumption ==
    /\ \A t \in DOMAIN Written : Written[t] \in Seq(Line) /\ Written[t] # <<>>
    /\ TextRuns \subseteq DOMAIN Scenarios /\ "" \notin Known
    /\ \A s \in TextRuns : /\ ~Scenarios[s].standing
                           /\ \A r \in Scenarios[s].replies : Len(r.calls) = 1 /\ r.calls[1].arg \in DOMAIN Written

isText == scen \in TextRuns

-----------------------------------------------------------------------------
(* parseAction. *)

structural(l) == l.form \in {"blank", "tag"}

(* pickupArgument: the next line that is neither blank nor a template tag. *)
pickupArgument(lines, i) ==
    LET later == {j \in (i + 1)..Len(lines) : ~structural(lines[j])}
    IN  IF later = {} THEN "" ELSE lines[CHOOSE j \in later : \A h \in later : j <= h].text

(* The mutants' form: a bare verb takes the next line for its argument.     *)
argumentOf_greedy(lines, i) ==
    LET l == lines[i] IN
    IF l.form = "json" \/ l.arg # "" THEN l.arg ELSE pickupArgument(lines, i)

(* The argument of the action on line i.  A plain verb written bare keeps   *)
(* its empty argument; an argument that was all wrapper is looked for on    *)
(* the lines below, except an answer's, plain or in angle brackets.         *)
argumentOf(lines, i) ==
    LET l == lines[i] IN
    IF \/ l.form = "json" \/ l.arg # ""
       \/ l.form = "plain" /\ (l.verb = "answer" \/ ~l.junk)
       \/ l.form = "angle" /\ l.verb = "answer"
    THEN l.arg ELSE pickupArgument(lines, i)

isAction(l) == l.form \in {"plain", "json", "parameter", "angle"} /\ l.verb \in Known

(* Whether line i yields an action: only some may have no argument.         *)
yields(lines, i) ==
    /\ isAction(lines[i])
    /\ \/ argumentOf(lines, i) # ""
       \/ lines[i].form = "json"
       \/ lines[i].form = "plain" /\ (lines[i].verb = "answer" \/ ~lines[i].junk)

(* The first action in the reply; or none, with the whole reply for its     *)
(* argument.                                                                *)
parseAction(t) ==
    LET lines == Written[t]
        found == {i \in DOMAIN lines : yields(lines, i)}
        i     == CHOOSE i \in found : \A j \in found : i <= j
    IN  IF found = {} THEN [name |-> "", arg |-> t]
        ELSE [name |-> lines[i].verb, arg |-> argumentOf(lines, i)]

-----------------------------------------------------------------------------
(* The model's turn.  Its hidden reasoning is compared with the turn before  *)
(* and then remembered, whatever the turn becomes.                          *)
textGenerate ==
    /\ isText /\ phase = "generate"
    /\ \E r \in sc.replies, th \in sc.thoughts :
         /\ reply' = [calls |-> <<parseAction(r.calls[1].arg)>>, empty |-> FALSE, thought |-> th,
                      adv |-> th # "none" /\ th # mem.thought, text |-> r.calls[1].arg]
         /\ mem' = [mem EXCEPT !.thought = th]
    /\ phase' = "reply"
    /\ UNCHANGED <<scen, iter, msgs, req, outcome, evicted, ws, k, pre, fps, tr, spiral, seen, canceled, steps>>

act == reply.calls[1]
said(n) == [role |-> "assistant", at |-> iter, n |-> n, what |-> <<"none">>, ref |-> 0]

textAnswer ==
    /\ isText /\ phase = "reply" /\ act.name = "answer"
    /\ gatesFinish(Append(msgs, said(0)))
    /\ fps' = <<>> /\ steps' = Append(steps, Step("finish"))
    /\ UNCHANGED <<scen, ws, reply, k, pre, tr, spiral, mem, seen, req, canceled, evicted>>

isTextTool == isText /\ phase = "reply" /\ act.name # "answer"

textKillRepeat ==
    /\ isTextTool /\ repeatKills
    /\ msgs' = Append(msgs, said(0)) /\ end("repeat")
    /\ UNCHANGED <<scen, ws, reply, k, pre, fps, tr, spiral, mem, seen, req, canceled, steps, evicted>>

(* lastAction and repeats; an answer sent back left them alone. *)
textMem == [mem EXCEPT !.sig = reply.calls, !.repeats = repeats]

textKillSpiral ==
    /\ isTextTool /\ ~repeatKills /\ spiralKill(spiralAfter) # "none"
    /\ mem' = textMem /\ spiral' = spiralAfter
    /\ msgs' = Append(msgs, said(0)) /\ end(spiralKill(spiralAfter))
    /\ UNCHANGED <<scen, ws, reply, k, pre, fps, tr, seen, req, canceled, steps, evicted>>

(* dispatch: a verb nobody knows is an observation too. *)
dispatch(c) == IF c.name \in Known THEN dispatchNative(c) ELSE {Ran("error", ws, "plain")}

(* What the turn observes: the skip of an identical read, or the tool, and  *)
(* the memory of it.                                                        *)
textObserved == IF skips(act, mem) THEN {<<Ran(mem.readSaw, ws, "skipped"), textMem>>}
                ELSE {<<r, [textMem EXCEPT !.execSig = act,
                                           !.readSig = IF readOnly(act) /\ r.saw # "error" THEN act ELSE @,
                                           !.readSaw = IF readOnly(act) /\ r.saw # "error" THEN r.saw ELSE @]>> :
                      r \in dispatch(act)}

(* The action is executed; a recurring failure ends the run at once, its     *)
(* observation recorded and never sent.                                     *)
textAct ==
    /\ isTextTool /\ ~repeatKills /\ spiralKill(spiralAfter) = "none"
    /\ \E o \in textObserved :
         LET r   == o[1]
             ran == IF act.name = "run" THEN observeRun(tr, r.saw) ELSE tr
         IN  /\ ws' = r.ws /\ mem' = o[2] /\ fps' = <<Observed(act, r)>>
             /\ IF act.name = "run" /\ stagnantKills(ran, r.saw)
                THEN /\ tr' = ran /\ msgs' = Append(msgs, said(0))
                     /\ steps' = Append(steps, Step("tools")) /\ end("stagnant")
                ELSE /\ tr' = observeAction(ran, iter, act.name)
                     /\ msgs' = Append(msgs, said(1)) /\ phase' = "endTurn"
                     /\ UNCHANGED <<steps, iter, outcome>>
    /\ spiral' = spiralAfter /\ k' = 1
    /\ UNCHANGED <<scen, reply, pre, seen, req, canceled, evicted>>

(* rawObservationFP: diagnostics are in it, hints are not. *)
fingerprint(obs, build) == <<Append(obs, build)>>

(* The rest of the turn, in its order: diagnostics after an edit, the hints, *)
(* the observation-repeat backstop, the dedup of the raw observation.        *)
textTurnEnds ==
    /\ isText /\ phase = "endTurn"
    /\ \E build \in IF mutates(act.name) /\ diagnosticsDue(tr) THEN {"clean", "dirty", "unknown"} ELSE {"unchecked"} :
         LET checked == IF build = "clean" THEN [tr EXCEPT !.editsSinceGreen = 0] ELSE tr
             finish  == finishNudgeDue(checked, iter, maxIter)
             hinted  == [observationNudges(checked) EXCEPT !.finishNudged = @ \/ finish]
             seenObs == observeToolObservation(hinted, fingerprint(fps[1], build))
         IN  /\ tr' = seenObs
             /\ fps' = <<Append(fps[1], build)>>
             /\ IF toolObsKills(seenObs)
                THEN end("tool_obs_repeat") /\ msgs' = [msgs EXCEPT ![Len(msgs)].n = 0] /\ UNCHANGED seen
                ELSE stub(fps[1], hint(escalatingRepeatNudge(seenObs.obsRepeat))) /\ nextTurn
    /\ steps' = Append(steps, Step("tools"))
    /\ UNCHANGED <<scen, ws, reply, k, pre, spiral, mem, req, canceled, evicted>>

textStep == textGenerate \/ textAnswer \/ textKillRepeat \/ textKillSpiral \/ textAct \/ textTurnEnds

sharedStep == turnStarts \/ generateFails \/ generateWithRetry \/ replayRejected \/ generateWithEviction

nativeStep == \/ ~isText /\ generateOnce
              \/ ~isText /\ silentTurn
              \/ ~isText /\ answerTurn
              \/ ~isText /\ finishTurn
              \/ ~isText /\ finishDispatch
              \/ ~isText /\ finishReturns
              \/ ~isText /\ killRepeat
              \/ ~isText /\ killSpiral
              \/ ~isText /\ commitTurn
              \/ ~isText /\ skipCall
              \/ ~isText /\ dispatchCall
              \/ ~isText /\ killStagnant
              \/ ~isText /\ turnEnds

(* Either loop, by the protocol of the run. *)
bothStep == sharedStep \/ nativeStep \/ textStep

BothLoops == LoopInit /\ [][bothStep \/ cancel]_loopVars /\ WF_loopVars(bothStep)

-----------------------------------------------------------------------------
(* Properties, beside NativeLoop's.                                          *)

(* What is executed is what was written: the action's verb heads a line, its *)
(* argument is on that line or, when the model wrapped an empty one, on the  *)
(* first line below that is not template structure; no line above it was an  *)
(* action with an argument; and a reply with no action only holds verbs      *)
(* whose argument is nowhere (parseAction).                                  *)
ActionIsWritten ==
    (isText /\ phase = "reply") =>
        LET L == Written[reply.text]
            own(i) == isAction(L[i]) /\ (L[i].arg # "" \/ (L[i].form \in {"plain", "json"} /\ ~L[i].junk))
            below(i, j) == j > i /\ ~structural(L[j]) /\ \A h \in (i + 1)..(j - 1) : structural(L[h])
        IN  IF act.name = "" THEN \A i \in DOMAIN L : ~own(i)
            ELSE \E i \in DOMAIN L :
                   /\ isAction(L[i]) /\ L[i].verb = act.name
                   /\ \A h \in 1..(i - 1) : ~own(h)
                   /\ \/ act.arg = L[i].arg
                      \/ ~own(i) /\ L[i].arg = "" /\ \E j \in DOMAIN L : below(i, j) /\ act.arg = L[j].text
=============================================================================
