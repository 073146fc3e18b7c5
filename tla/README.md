# A TLA+ verification of driver-os

driver-os is a Go library and a command line for running a coding agent: a
language model that works on a checkout through tools, in a loop, until it says
it is done, and a stack of *closing gates* that decide whether that claim is
accepted. The gates are the product's promise: "Answered" means the tree that
is delivered was verified, fenced, reviewed, as the policy asked. Around them
stand the sandboxes commands run in, the wires to the providers, and a headless
driver that resolves a command line into a run and brings its patch back.

This directory holds TLA+ models of that code, the TLC runs that check them on
small instances, and TLAPS proofs of the properties that matter most for every
value of the constants. All paths below are relative to the repository (`src/`
in `PROJECT.json`).

## 1. Inventory

| Part | State it keeps | Operations | What makes it hard | What makes it correct |
|---|---|---|---|---|
| Review gate (`agent/gate.go`, `agent/review.go`) | `reviewState`: base tree, rounds, findings with fates, pending blockers, status, skip | `reviewFinish`, `reviewUnverified`, `classify`, `escalate`, `report` | every external call can fail or be canceled; it executes reviewer-supplied commands in the user's workspace; it is re-entered from several turns | a pass means a review of the delivered tree; the repair loop is bounded; the workspace is handed back unchanged; the answer agrees with the findings |
| Closing gates (`agent/gate.go`, `finish.go`, `verify.go`, `repro.go`, `fence.go`, `evidence.go`) | run-start baseline, grace, soft budget, repro declaration, verify log, closing record | `gates.finish`, `gates.upgradeIfVerified`, one stage per guarantee | two different orders of the same stages; cached verdicts; failing snapshots; cancels between stages; evidence going stale | a caller's contract: the run ends once, answered only on an acceptable tree |
| Session and auto-verify (`agent/session.go`, `session_config.go`, `autoverify.go`) | persisted `verifyState`, the prewarm slot, history | `SendParts`, `SetVerifyCmd`, `PrewarmAutoVerify`, `persistAutoVerify` | a background goroutine probes while turns edit; the decision crosses four copies | the user's last word stands; a derived gate is soft and only it; one decision per session |
| Native turn loop (`agent/loop_tools.go`, `tracker.go`, `generate.go`, `loop_shared.go`) | message list, detector counters, dedup map, last-read memory, iteration | `RunNative`: generate, dispatch, observe, kill or finish | eviction rewrites history the dedup and the skip refer to; retries; detectors that must neither miss nor misfire | the transcript stays well formed; stalls are cut and only stalls; bounded sends; every run ends |
| Text turn loop (`agent/loop_text.go`) | as above, one action per turn | `Run`, `parseAction` | the same, with a parser in between | as above, and what runs is what was written |
| Tools (`agent/tools.go`, `evidence.go`) | the workspace's files, the mutation generation | `read_file`, `write_file`, `edit_file` | caps and windows that must page through a file; repair readings of mangled edits; writes that fail half way; other writers | an edit changes one place; pages add up to the file; a successful write is whole |
| Sandboxes (`sandbox/local`, `docker`, `gated`, `proc`, `session`) | processes, container, session state files | `Open`, `Exec`, `StartProcess`, kill, `Close` | timeouts, cancels, children that keep pipes open, pid files, a daemon that gives another runtime | calls return; success is real; nothing outlives a close; nothing runs unasked |
| Headless driver, best-of (`headless/`) | posture, worktrees, attempts, comparisons, patch, exit code | set-up, loop, tournament, collection, review of the changes, clean-up | every step can fail and the deferred clean-ups still run | work is never dropped; what is reported is there; the exit code says so |
| Run specification and profiles (`runspec/`, `profile/`) | layered configuration | resolution | precedence of floors, flags, aliases, declarations | the explicit value wins, and never under the trust's floor |
| VCS (`vcs/vcs.go`, `worktree.go`) | git index, refs, worktrees | `WriteTree`, `RestoreTree`, `DiffTrees`, `WorktreeAdd/Collect/Remove` | partial failure returns an error together with what it made | nothing leaks, nothing is lost |
| Providers (`provider/openaicompat`, `provider/anthropic`, `llm/`) | pins, replay blobs, accumulators of a stream | request building, streaming, fault classification | fragments interleave; a fault must be retried, evicted for or reported; a shared provider | a turn arrives whole; a request is one the API takes; faults are routed |
| Spend, standing context, plan, memory, skills, evaluation, command line | - | - | - | not modelled (section 8) |

How they interact: the headless driver resolves flags, profile and trust into a
posture, opens a sandbox chain (review gate over trust gate over shell session
over backend), and calls a loop, directly or through a `Session`.
`Session.SendParts` copies its verification state into a turn. The loop sends
the transcript through a provider wire, dispatches tool calls against the
sandbox and, on a done-signal, calls `gates.finish`, which answers "accepted",
"rejected, continue with this observation", or a terminal outcome. A run stopped
by a budget or a detector goes through `gates.upgradeIfVerified` instead. Both
reach `reviewFinish`, whose reviewer is injected. The caller's context is the
main asynchronous input: it may be canceled between any two instructions.
The other concurrency is the prewarm goroutine of the session, the prefetch of
parallel read-only calls, the processes of the sandbox, a second caller of a
provider, and whatever else writes to the checkout.

`PROJECT.json` lists every component with its status, and under `hazards` the
places in this code that are hard to test, each at its line, with the properties
that watch it.

## 2. Modules and how they correspond to the code

| Module | Models | State | Actions |
|---|---|---|---|
| `ReviewGate` | `reviewFinish`, `reviewUnverified`, `classify`, `escalate`, `resolvePending`, `report` | `reviewState`, the gate's program counter, workspace tree, claims under way, cancel flag | one per outcome of an external call (diff captured or failed, verdict or error, repro solicited, repro run, round settled), `cancel` |
| `ClosingGates` (EXTENDS `ReviewGate`) | `gates.finish`, `gates.upgradeIfVerified`, fence, scope, require-diff, verify, repro-first, evidence | run-start baseline, grace, soft budget, declaration lock, verify log, closing record; the loop reduced to turns that edit, declare, finish or are stopped | one per stage and one per way a turn can end |
| `RunContract` | nothing in particular: what a caller may rely on | tree, whether it is acceptable, turns, outcome | work, answer, rescue, fail |
| `AgentSession` | `SendParts`, `SetVerifyCmd`, `PrewarmAutoVerify`, `persistAutoVerify`, `resolveAutoVerify`, `verifyCompletion`'s skip | the session's and the turn's `verifyState`, the prewarm slot, the tree | user calls, the probe's end, the parts of a turn |
| `TurnTracker` | `turnTracker`, `spiralState` and every method that feeds a kill or a nudge | records, from old to new | pure operators |
| `NativeLoop` (EXTENDS `TurnTracker`) | `RunNative`, `generateWithEviction` and below, `obsDedup`, prefetch, skip, finish tool | transcript, model turn, prefetched results, detectors, last-read memory, request counters, workspace | one per exit of a turn's code; `cancel` |
| `TextLoop` (EXTENDS `NativeLoop`) | `Run`, `parseAction` on a reply's lines | the same variables: they share all of it in the code | `textGenerate`, `textAnswer`, `textKill*`, `textAct`, `textTurnEnds`; the model call is `NativeLoop`'s |
| `Tools` | `read_file`, `write_file`, `edit_file` and the generation they bump, over one file of symbols | the file, the operation between its read and its write, what was shown | one per tool, `Land` and `LandFails` for its write, `OutsideWrites` |
| `CommandPolicy` | the review gate's textual allowlist, the trust profile's parsed one, the two stacked, and what the shell and the program make of the same words | - | pure operators on a line's words and their quoting |
| `Sandbox` (EXTENDS `CommandPolicy`) | local, docker, gated, session, process hosting | box, the call under way, what it left behind, hosted processes, session state | open, runtime check, issue, the body and the wrapper's two saves, deadline, cancel, the kills, the two returns, close |
| `Profile` | floors, profiles, the layered resolution | - | pure operators |
| `Worktrees` | the results of the git calls | - | sets of results |
| `Headless` (EXTENDS both) | `main.go`, `bestof.go`, `output.go`, `review.go`, `trust.go`, `flags.go`, from a command line to an exit code | posture, worktrees, attempts, tournament, result, review, exit code | one per step of the run, `Sweep` for an outside deletion |
| `Wire` | both adapters: requests from a conversation, answers put together, faults classified and routed | conversation, request in flight, answer so far, pin | ask, fragment, whole answer, stream closed early, failure, resend, scrub, a second caller |
| `SSEFilter` | the chat wire's keep-alive filter and the SDK's decoder, both as step functions of a byte | the bytes so far, the filter's state and output | the arrival of a byte |

`MC...` modules give the constants values; `..._proofs` modules hold the
theorems. Operators with an underscore in their name (`stub_lastSeen`) are the
defective variants that each property has been shown to reject; nothing else
uses them. `map` in `PROJECT.json` names the lines each definition stands for.

What is abstracted:

- In the gates and the session a workspace is a tree from a small set; file
  contents, diffs and prompts are not represented. A claim of a reviewer is a
  record of what the ladder reads. In `Tools` a file is a sequence of symbols,
  each one byte, because the properties are about which bytes move.
- An external call returns one of the outcomes its caller tells apart: success,
  a failure class, a timeout, a cancel.
- `ClosingGates` assumes that the verify command does not change the tree, that
  restoring after a failed repro check works, and that auto-verify is on where a
  command is derived. The glob matching and hashing of `fence.go` is a predicate
  on trees.
- `AgentSession` models `PrewarmAutoVerify` and `SetVerifyCmd` as what they are:
  public API, called by the embedding program in any order between turns.
- The loops reduce the closing gates to their three answers. A tool call of
  theirs succeeds or fails on a version of the workspace.
- A command line is the sequence of its words, each with its quoting. The textual
  gate looks for tokens and prefixes in it whatever the quoting, the parsing
  gate for literal words, the shell for operators that are not quoted, the
  program for flags of its own that act (`-exec`, `-delete`, `-w`, ...); each
  reading is an operator of `CommandPolicy`, and no assumption ties them.
- In `ClosingGates` a tool call may change the tree whether or not it reports an
  error; only one without an error raises the generation (`mutation`,
  `failedCall`), and `lag` remembers that evidence was passed over.
- `Headless` reduces a loop to its outcome and what it did to the worktree, which
  is edits, commits, or both; of the nineteen profile fields it keeps the five
  with a rule of their own.
- In `Wire` a text is a sequence of opaque pieces, and the SDKs' decoders, the
  server and the upstreams are the environment. A reasoning block says what it is
  by an index, by an id or by nothing; arguments are JSON when they came to their
  end. A stream may end cleanly after any fragment. On the messages wire the
  block such an end falls into is taken as it was heard.

## 3. Runs

| Run | Question | Bounds, and why they suffice |
|---|---|---|
| `MCDelivery` | the review gate: what a pass, a block and a fate mean, and what the repros may do to the workspace; and the driver: what set-up a run gets, and where its work is afterwards | two claims per verdict (the ladder's interactions are pairwise: a blocker next to an advisory, two repros sharing a budget of one), every rung of the ladder, two rounds (a finding, and its recurrence), git failures and a cancel at any instruction. The two edited trees are interchangeable, so they are a symmetry set; no liveness is checked here. The driver: see below |
| `MCClosingGuarded` | do the guards keep the contract of a run | a base tree, a good one, a red one and one that is green because it cheats; a verify command red at the start, so that baseline grace, retries and cached results all matter; snapshots fail; three turns: a rejected finish, its repair, a second claim |
| `MCClosingStaged` | do the later stages compose: rescue, review, repro-first, soft gate, evidence | four turns: declare, edit, finish rejected, finish again |
| `MCNativeLoop` | both turn loops: transcript, detectors, skip, retries, eviction, termination, parsing | eleven environments, five over the text protocol, each of which provokes one kind of stall or fault; 2 to 5 turns with the thresholds scaled down (kill ceilings 2, 3 and 4, window 2, frontier 2, less than the places a scenario explores) so that every detector can fire, be reset and forget within them |
| `MCComponents` | the session, the sandbox chain, the file tools, the wires and the filter, each on its own instance | see below |

`MCDelivery` and `MCComponents` are federations: their components share no state
with each other, so a behaviour picks a `focus`, follows that component's
next-state relation, and leaves the others where they began. The instances:

- session: three sends (before, during and after the probe), two green and two
  red trees, so that an edit need not change the verdict;
- driver: every mix of trust, posture flags, profile, overridden field, worktree
  flag and ladder, in and out of a repository; every way to collect, keep and
  review, for one run and for a tournament of two; a tournament of three, where
  the champion of a comparison is challenged again; agents that edit, commit or
  both; git may fail at every call, and one worktree may be swept from outside;
- sandbox: both backends, with and without session and gates, twelve commands,
  one per way a process tree ends, and behind the gates ten more, one per way
  quoting and flags hide what a line does; up to three calls, one hosted process
  whose kill may fail at each of its steps. Gates, session state and hosting are
  explored apart, since a gate decides before, and a hosted process beside, what
  a call does;
- tools: six jobs in three kinds, paging, editing and building a file in pieces,
  over every text of up to six letters and line ends, with the caps scaled to
  2, 3, 6 and 4 so that each is crossed;
- wires: seven provider configurations; six replies, one per shape an accumulator
  has to put together (blocks by index, by id, by nothing in one fragment and in
  two, calls with and without arguments, one cut off by the token limit); nineteen
  faults; streams that end early anywhere; two turns, two re-sends;
- filter: every body of up to six bytes out of a colon, the two line ends, `d`
  (a data line) and `e` (an event or retry line): enough for a comment split
  around a field line and a CR LF pair.

Runs in which a statement of the repository is found not to hold (section 7):
`MCReviewDamage`, `MCHeadlessCommits`, `MCSessionClobber`, `MCSessionSkip`,
`MCLoopTask`, `MCLoopSkip`, `MCSandboxTimeout`. Ten more configurations stand
beside them, each with one such statement as its only INVARIANT; section 7 says
which. They use the instances of the passing runs, or smaller ones.

`CHECK_DEADLOCK FALSE` is set where the modelled program ends (a run, a gate
call, a session that is closed). Each property of a passing run has a defective
variant of a modelled definition under which TLC finds it violated
(`PROJECT.json`, `mutants`).

Properties worth a note:

- `RequiredMeansReviewed` is about the *last* round and the *delivered* tree: a
  review of an earlier tree does not count.
- `VerdictIsExplained` ties the gate's answer to the report: a pass leaves no
  blocker of the round, a recurrence has blocked, a block has its finding.
- `EvidenceIsCurrent` compares the closing record with the tree that is
  delivered, over edits made after the record was taken. A call that failed and
  still changed the tree is excepted, by `lag`, which is not the code's counter
  but the history of what the counter missed; finding 8 is the exception.
- `KillsAreStalls` restates the five detectors over the *history* of committed
  turns, without their counters, as sets of turns and their sizes: no stall
  survives its detector, and no run is killed for less. A cycle of discovery is
  cut for certain only while the places of the streak fit the frontier: past
  its capacity the detector forgets the oldest place and takes it for new when
  the model comes back to it (`agent/tracker.go:437-444`).
- `ReadsAreCurrent` covers both ways a read is not executed in its place: the
  prefetch, computed before the other calls of the turn, and the identical-read
  skip. Its proviso (no failed read or search in any turn, the one at hand
  included, and no finish sent back) is finding 6.
- `ActionIsWritten` states from the reply's lines alone what the parser may
  execute; it never mentions the parser's order of attempts.
- `DeliveredIsReported` and `WorkIsNeverDropped` look at the worktree's contents,
  edits and commits apart, against the patch on disk and the paths in the report,
  at every deletion. What they do not vouch for is commits the agent made in a
  worktree that is then collected; finding 2 is that case.
- `SetupIsHonoured` demands of every run that reaches its loop, its attempts or its
  ladder what the floor of its trust demands, by the posture the run *has*: the
  worktree counts only if one was made. For the ladder that dimension is left to
  finding 12.
- `NothingRunsUnasked` has two halves: behind the trust gate nothing runs that
  does more than its words name, be it by the shell or by a program's flags; the
  review gate alone only promises that no second command rides in, for its
  prefixes say nothing of flags (finding 9).
- `CloseReaps` allows for every failure of a container kill; finding 10 is what
  holds of the kill alone.
- `FilesAddUp`: following the footers from any read shows every line once, or
  says that it cannot; what a successful write leaves is the content given. A
  range that ends before it begins shows nothing.
- `EditIsSurgical` (each step satisfies `EditsOnePlace`): the anchor stood at one
  place of the file that was read, overlaps aside, and every other byte is kept.
- `TurnsArriveWhole` compares the conversation built from fragments with the
  reply as the server had it. Two things are outside it. A turn whose stream ended
  early (`cut`) is committed with what came. And a reasoning block that comes in
  several fragments and names itself in none is kept as several entries, which
  the comment on `reasoningKey` says it should be (`reasoning.go:66-68`); of such
  a turn the text and the calls are compared, not the trace.
- `RequestIsWellFormed` names its exceptions: the chat wire sends a turn that said
  nothing as an empty string, and arguments that were cut off are replayed so
  (finding 14).
- `RoutingIsSticky` says what the pin is at every moment, for a model whose
  upstreams are preferred, too: nothing but what the environment names.
- `FaultsAreRouted` classifies by what the adapters decode; of a chat error event
  that is the message and the code, not the type (finding 15).

## 4. The contract, and the refinement

`RunContract` is the abstract specification: a run works for a bounded number
of turns, ends once and for all, is answered only on an acceptable tree that is
the tree delivered, and is unverified only when a gate may refuse it.
`KeepsContract` (`ClosingGates`) is `RunContract`'s whole specification,
instantiated with

    stands     <- tree
    acceptable <- Acceptable        green, inside the fences, reviewed, repro honoured
    faulted    <- ~SoftSpent \/ fin.empty
    turns      <- iter,  MaxTurns <- MaxIters + 1

so that TLC checks, in both closing runs, that every step of the gates maps to a
step or a stutter and that the run ends (`<>(outcome # "none")`). `Acceptable`
says of the tree itself what the gates measured through caches, logs, grace and
snapshots; `SoftSpent` is when the auto-derived gate has used up its right to
refuse. One exception is built in: a repro whose damage was not restored
(finding 1) voids the bar.

TLC checks the whole of it on the two closing instances; TLAPS proves the safety
half for every instance (`ContractStepsKept`, section 6). The liveness half,
`<>(outcome # "none")`, rests on fairness and stays with TLC.

## 5. Fairness

Liveness is checked under weak fairness of the *code's own* next step, never of
the environment: no reviewer, model or user has to do anything good.

- `FairClosingSpec`: weak fairness of the red-baseline refusal, of turns
  starting and ending, of a gate's step and of the reviewer's. A turn's end is
  fair because a reply holds finitely many tool calls; gate calls run under a
  harness timeout (`gateContext`).
- `BothLoops`: weak fairness of the loop's step. A model call returns under
  `MaxWallClock` and the client's own timeouts, a tool call under `RunTimeout`.
- `SandboxFairness`: time passes (`Deadline`), the kernel and the container
  runtime deliver a kill (`KillLocal`, `KillInside`, `KillClient`), and `Exec`
  returns when what it waits for has happened (`ReturnLocal`, `ReturnDocker`).
  Not that a command ends, that a pipe closes, or that a caller cancels. With it
  `CallsReturn` holds always for the container backend and, for the local one,
  unless a child holds the output open: finding 7 is the rest.

The premise "a tool call returns" of the loops is thus weaker than it looks.
The probe goroutine, the driver, the tools and the wires get no fairness;
nothing checked of them depends on it.

## 6. What is proved

Eight modules hold proofs checked by TLAPS, for every value of the constants
under the assumptions named in the modules (`ASSUME` of the constants' types; TLC
evaluates them on every run). Those that say more than a type:

- `InvocationsAssumption` (`Headless`): the flags that the driver refuses before
  it does anything are already refused (a profile outside the registry, an
  unknown `-review-action`);
- `TextAssumption` (`TextLoop`): no tool has the empty name;
- `TasksAssumption`, `RepliesAssumption`, `FaultsAssumption` (`Wire`), all of
  the environment: a task has text; no reasoning block of a reply is empty, and
  those that name themselves, by index or by id, have different names; what a
  server says of a failure agrees with its status (401 and 403 are refusals of
  the key, an overflow is a 400 or 413);
- `WordsAssumption` (`NativeLoop`), `PiecesAssumption` (`Wire`): certain literals are
  strings, which TLC knows of them and the provers do not.

`ReviewGate_proofs`: every property checked of the review gate.

- `ReviewTypeCorrect`: `ReviewTypeOK` is not inductive alone, because `escalate`
  keeps the claim it is executing across two steps; `ReproAt` says which it is.
- `ReviewRoundsBounded`, `RequiredReviewHappened`, `ReviewPreservesWorkspace`
  share `ReviewInv`: `RoundsOpen` (a call in progress has a round left),
  `Undecided` (no answer while the gate runs), `TreeHeld` (where the tree the
  gate was asked about is: in the workspace, or in the snapshot while a repro
  runs), `VerdictHeld` (past the reviewer's call this round has a verdict on
  that tree) and `RequiredMeansReviewed` itself.
- `ReviewVerdictExplained` rests on `FindingsInv`: `Ledger` (the open findings
  are exactly the pending ones, a confirmed one is open, repaired or expired, none
  is of a later round), `ThisRound` (while the reviewer works the round has no
  finding, while the ladder does none of the round's is resolved), `Recurrences`
  (a defect confirmed twice is of the round under way, or has blocked),
  `Terminal` (a block is the end and has its expired finding), `Entered` and
  `Passed`. The argument turns on `NothingRecurs`: a confirmed finding of this
  round is still open, hence pending, hence among those
  `findRecurringConfirmedBlocker` compares.
- `FatesStayFinal` follows from the same invariant step by step (`FatesMove`).
  That a recurrence corrects a confirmed finding needs that the first pair in
  slice order exists: `SmallestIndex`, from the well-foundedness of `<` on the
  naturals.
- `ReproBudgetKept` charges every executed finding of a round to an eligible claim
  before the current one (`BudgetInv`), and bounds those by the budget test.

`AgentSession_proofs`: `SessionTypeCorrect`, then `DerivedAlwaysSoft`,
`DecisionNeverFlickers` (with `TurnAgrees`: the running turn's state is the
session's or was derived by it) and `UserLastWordStands` (with `LazyInv`: while
no prewarm was started, the last command given is the session's, and an explicit
"off" settled the automatic decision).

`ClosingGates_proofs`: all that the closing runs check, the refinement's
liveness half apart.

- `ClosingImplementsReview`: composed with the loop and the other gates, the
  review gate takes only steps of `ReviewSpec` or leaves its variables alone, so
  `ReviewInv`, and with it what was proved of the gate alone, holds in every run.
- `ClosingInv` is the rest of what the gates rely on: `ReviewCalls` (what the
  review was called for, and on which tree), `TurnControl` and `FailureControl`
  (which stage runs, and which failure it may find), and `Established`: what the
  gates passed so far have established of the tree, and what the verify log, the
  baseline and the closing record are evidence of. All but the baseline's part
  is void once a repro's damage was not restored. `ClosingTypeOK` is a part of it,
  not inductive alone because of the review's `ReproAt`.
- `EvidenceStaysCurrent` reads off `Established`: a change of the tree clears a
  record's `fresh`, or raises its `lag`, or comes before the record was taken.
- `ContractStepsKept`, the safety half of `KeepsContract`: an initial state maps
  to `ContractInit`, and a step to a step or a stutter of the contract. `RunMoves`
  says which of the contract's actions a step of the gates is, and
  `AnswersAreAcceptable` that every gate that was armed is satisfied by the tree
  a run answers on: there `Established` and the review's `RequiredMeansReviewed`
  meet.

`NativeLoop_proofs`: everything checked of the two turn loops but liveness.

- `ModelCallCostBounded`. `SendsBounded` says nothing of how the re-sends of a
  turn came about, so it is not inductive. `RequestInv` charges every finished
  attempt with its own retries, bounds the retries of the current one, and bounds
  the attempts by the evictions plus one for the scrub of rejected reasoning.
- `LoopTypeCorrect`, from `LoopInv`: the types (`EnvOK`, `ReplyOK`, `SentOK`,
  `TracesOK`), `ControlOK` (calls are observed one after the other, and where a
  finish or a text turn can be), and `PrefetchOK` (what was fetched ahead is a
  prefix of reads, and what of it is not yet delivered is what the call would
  return now). The frontier of the spiral detector is bounded because every window
  of it has its own region: a cardinality argument, not a fold.
- `TextActionsAreWritten`, from `ParsedInv` (the call of a text turn is the parse
  of the text it came from) and one lemma on `parseAction`, by cases on the
  branch that found the call.
- `ReadsAreAnsweredAsIs`, from `ReadsInv`: as long as no read lapsed, the last
  executed call, if it is a read, saw the workspace as it is (`MemCurrent`); the
  history has the observations of every turn that is over (`FpsRecorded`), which
  is how a lapse of an earlier turn is known.
- `TranscriptStaysWellFormed`, from `TranscriptInv`: between turns every call
  message is followed by exactly its results (`PairedTo`); within a turn the
  prefix is closed and the last call message has its results so far in order
  (`OpenTurn`), except the one of a finish call, which comes last when the gates
  send the run back; and until the first eviction every reference has its
  original before it (`Resolved`). An eviction cuts from one assistant message to
  the next, so it takes whole turns (`RankTaken`: its index is one of them).
- `EvictionsAreSafe`, an action property: no other step shortens the transcript,
  and an eviction keeps the first message and the last turn.
- `StallsStayCut`, that the detectors cut exactly the stalls. The property speaks
  of committed turns, the code counts while a turn is under way; `StallInv` is
  about `sofar`, the history with the open turn as its last, and says of each
  counter what set of turns it is the size of. `RepGood` and `ObsGood`: the length of
  the stretch of equal turns, or equal observations, at the end. `SpiralGood`: the
  wander counter is the length of the discovery streak, the frontier's targets
  are places the streak went to, all of them while they fit, and the cycle counter
  is at most (while they fit, exactly) the number of turns that only went where the streak
  had been. `RedGood`: the stagnation counter is the number of failing runs alike
  at the end, across turns, environment faults skipped. `Detectors` adds that each
  is below what it kills at, as long as the run goes on (`Going`), and
  `SpiralBounds` is the frontier's capacity. The steps rest on lemmas about
  histories: how the tool turns, the stretch and the runs grow by a turn
  (`ToolTurnsGrow`, `StretchGrows`, `StretchBroken`) or by one observation of the
  last turn (`RunsGrow`), and what `visitAll` remembers (`VisitKeeps`,
  `VisitAllRuns`).

`Sandbox_proofs`, over `Typed` (what a step may make of a call, a box and a
process):

- `HiddenCommandsAreAsked`: no invariant but the decision at `Issue`, kept by
  every step of the call (`GatesSeeThrough`, `CallSteps`). The work is in two
  lemmas about the words of a line: a simple call in the parser's sense has no
  operator the shell would act on (`SimpleRunsNoSecond`), and no line with a flag
  that acts is on the trust profile's lists (`ActingIsDenied`);
- `IsolationClaimIsReal`, with `Verified` (before the chain is open nothing was
  asked of it, and what is open runs under the runtime that was asked for);
- `SuccessWasReal`, an action property, with `KilledShows` (a killed command
  has not exited with 0);
- `CloseLeavesNothing`, with `KillsHold` (a local kill that is done has left its
  process dead; of a container's kill nothing is claimed) and `Closed` (a closed
  chain runs nothing and starts nothing);
- `SessionPicksUp`, with `FilesAreKept` (the state files are those of the last
  command that ran to its end, except while one is capturing);
- `SandboxTypes`, with `Dated` (state files and left-over processes are of
  commands that were issued) and `Exits` (what a command may end with).

`Wire_proofs`: everything checked of the wires and of the filter.

- `RoutingStaysSettled`, from `RoutingInv`: `Routed` (only the router pins),
  `Settled` (what the pin is, by the environment, the preference and the first
  named answer) and `Bound` (a request under way is bound to the pin, or was sent
  before there was one, in which case whoever answers first settles it).
- `FaultsRouted`, with `Faulting` (what came of the last fault, and that re-sends
  are counted): the classification is gone through per wire and per way a call
  can fail.
- `TurnsWhole`, from `Typing`: `Hearing` says of every accumulator which prefix of
  which block it holds, whatever the interleaving. A reasoning entry is found by its
  name, or is a nameless fragment of its own (`ThinkTracks`), a call by position
  (`CallsTrack`); at the end every prefix is its block, and where no nameless
  block came in several fragments (`unsplit`) the parts are those of the whole
  answer. A turn that was cut short is carried along with its flag. `Whole`
  is the form of it that survives the scrub of rejected reasoning, which drops it
  from the turn and from what the server is taken to have said.
- `RequestsWellFormed`, with `Answering` (every call of a turn is answered behind
  it before the next request), on both wires, through scrubs.
- `WireTypes`, from the same invariant.
- `FilterPreservesEvents`, from `FilterInv`, a simulation: the decoder behind the
  filter is, after every byte, where the decoder of the unfiltered body is, up to
  the part of a line the filter holds back or drops (`Partial`), and has
  dispatched exactly the events of that one that have a field line (`Aligned`),
  data or not. `decode`
  runs over a body of any length; the proof unfolds it by the one byte of a step.

`Tools_proofs`: everything checked of the file tools.

- `ToolsTypes` and `WritesHold`, from `FilesInv`: `Typed` (the generation never
  passes the calls issued), and `Writing`: the history variable `want` is what the
  file holds until somebody else writes or a write fails half way, also between
  the read and the write of an append.
- `FilesHold` adds `Paging`: where a reader that follows the footers stands. A
  window's lines, its footer's offer and the lines so far add up to what was
  asked for, with the two caps and their defaults (`FirstPage` and the lemmas after
  it are arithmetic over the caps).
- `EditsSurgical`, an action property, with `Editing`: which reading of a mangled edit
  an attempt is at, and that what is written was made of the file that was read. That
  no occurrence stands clear of the one match comes from what `matches` collects,
  position by position (`MatchesFound`, the loop of `strings.Count`, which skips
  overlaps), and the frame from `Sliced`, how a text is put together of its slices.

`Headless_proofs`: every property checked of the driver, from four invariants.

- `CommitsHeld` is what `WorkIsReported` needs of commits: where the run is
  reported and no diff of its worktree was taken, or taking it failed, or the
  review made the commit, the worktree was let stand (`LetStand`), and what the
  review keeps without a patch has no edits. Nothing is claimed of the commits of
  a collected worktree.
- `HeadlessInv`: types; `AnswersOnce` (until a run answers there is no exit code,
  no ledger record, nothing on stdout); `WorktreesHeld` (which worktrees there
  are in each phase, and what they may hold); `CleanupIsSafe` (a worktree that
  the deferred clean-up may still take holds no work, because `Collect` took it
  over first); `Delivered` (once the result is known, the edits of the chosen run
  are banked, kept, or were never there); `AttemptsInOrder`. It gives
  `HeadlessTypeCorrect` and `WorkIsReported`; `WorkIsKept` goes through the steps
  that remove a worktree, each with the part of the invariant that makes it safe.
- `KnockoutInv`: `Knockout(V, A, w, S)` says what `KnockoutIsSound` says, of the
  verdicts so far, the champion so far and the candidates below the next
  challenger. It is a constant operator, so one lemma (`KnockoutGoesOn`) extends
  it by one comparison; `TournamentIsSound` is its last instance.
- `SetupInv`: from the consent to the loop the plan is what the operator
  consented to, the worktree is what the plan or the flag wants, and the loop's
  specification is the resolved request. `SetupIsAsAsked` follows without another
  step: the floor dimension by dimension (`SetupMeetsFloor`), on the ladder every
  dimension but the worktree, the flags field by field (`SetupKeepsFlags`).

What the proofs changed in the models. A step that could not be proved was, more
than once, a place where a model was wrong or left something open:

- `ClosingGates`: a rescue ran its repro command and entered the review in one
  step; they are two (`upgradeRepro`, `upgradeReview`), and a cancel may fall
  between. `finishAnswer` belongs to a claim, not to a rescue. In
  `MCClosingStaged` the cheating tree keeps the declared test, so that the rescue
  reaches the review on it.
- `NativeLoop`: `dispatchNative` reaches the finish tool only where there is one,
  and refuses an unknown tool; the hypothesis of `ReadsAreCurrent` counts the reads
  that failed in the turn at hand, and searches among them.
- `Headless`: the two refusals above, which the model left to chance.
- `KillsAreStalls`: the clause on cycles claimed a cut of every cycle; it holds only
  while the places of the streak fit the frontier, and the run now has a frontier
  that overflows.
- `FilesAddUp`: the page arithmetic did not cover a range that ends before it
  begins, which the tool reads as no lines.
- `editError` and `chatEvent` were CASEs with overlapping arms, where the code
  has an order of returns; TLC takes the first, the semantics any.
- `Wire`: `maySend` never let a call start behind one without arguments, which
  sends no fragment; the cache marks were capped at nine blocks a message;
  `WireTypeOK` took the environment's pin for one of the known slugs, and it may
  be any name.

Where a definition was recursive over a sequence (`ofKind`, `matches`, `visitAll`)
it is a recursive function on positions, whose one step the provers unfold; where
the property itself was (the history's stretches), it is now stated with
sets of turns.

Only model-checked:

- all liveness, `RunContract`'s included: fairness and `ENABLED` are out of the
  prover's reach;
- `ComponentsTypeOK` and `DeliveryTypeOK` as composed in the two federations; each
  of their parts is a theorem of its component (`SessionTypeCorrect`,
  `SandboxTypes`, `ToolsTypes`, `WireTypes`; `ReviewTypeCorrect`,
  `HeadlessTypeCorrect`);
- what a recursive definition computes for every input, beyond the step-by-step
  facts used above: that needs induction over data;
- the runs that expect a violation, which are counterexamples.

## 7. Where the code and its documentation disagree

Shown by a run (1 to 7; `PROJECT.json`, `findings`, quotes the text and the line)
or by a configuration that is not one of the runs (8 to 17; the comment of its
property quotes the text; `tlc -config <name>.cfg <module>` finds the
counterexample within a minute):

1. `MCReviewDamage`: a cancel during a mutating repro leaves its changes in the
   workspace, because the restore runs under the canceled context.
2. `MCHeadlessCommits`: what the agent committed in its worktree is no diff
   against the worktree's HEAD: no patch, and the clean worktree is removed.
3. `MCSessionClobber`: a prewarm that completes after `/verify` replaces the
   user's command, and undoes `/verify off`.
4. `MCSessionSkip`: from the second turn on, the soft gate skips an unchanged
   tree that is red.
5. `MCLoopTask`: in a continued session, context eviction drops the current task
   and keeps the first one.
6. `MCLoopSkip`: after a read that failed, the same read is answered with the
   content from before, as "result unchanged".
7. `MCSandboxTimeout`: a local command past its timeout keeps its caller for as
   long as a background child holds its output.
8. `MCClosingLag` (module `MCClosingGates`): a tool call that fails after it changed
   the tree does not raise `mutGen`, which is said to over-approximate, so
   evidence of the tree before it is reported as current.
9. `MCSandboxPlain` (`MCSandbox`): `find -exec`, `gofmt -w`, `go test -exec=...` and
   `git diff --output=...` are on the list of lines "none of which mutates state
   outside the build cache" and run with nobody asked.
10. `MCSandboxKill` (`MCSandbox`): a container process outlives its kill when the
    pid could not be read or `docker exec kill` failed, and ends with the container.
11. `MCClosingCancel` (`MCClosingGates`): a cancel seen by the review stage of a
    finish ends as Answered.
12. `MCHeadlessLadder` (`MCHeadless`): a ladder run turns off the worktree that its
    trust profile forced, as long as the flag says auto, and starts
    (`headless/main.go:415-421` against `PROFILES.md:32-37`, `:53-55`).
13. `MCWireTrace` (`MCWire`): a chat stream that is closed early is committed with
    the part of the reasoning trace that came.
14. `MCWireArguments` (`MCWire`): arguments cut off by the token limit or by the
    stream's end are replayed as they are, though the wire wants valid JSON.
15. `MCWireOverflow` (`MCWire`): an overflow that only the type of a chat error
    event tells is re-sent unchanged.
16. `MCWireBroken` (`MCWire`): of the dropped connections that should be re-sent
    only the unexpected end of the body is; a reset ends the call.
17. `MCSSEEmpty` (`SSEFilter`): a block of an `event:` or `retry:` line alone passes
    the filter and is dispatched as an event without data.

Also met while modelling, and not shown by a configuration of their own. The
models follow the code in these, except in the three marked "(not modelled)",
which concern text and encodings the models leave out. Gates and session:

- a finding is marked repaired before the re-review that would confirm it
  (`agent/gate.go:771`); `ReviewPolicyOptional` blocks when there is no baseline
  (`gate.go:738`, `agent.go:359`);
- an unchanged tree is answered from the baseline without running the verify
  command (`gate.go:519`, the repository's `README.md:142-144`);
- `upgradeIfVerified` sets `Unverified` or `ScopeViolation` on a killed run
  (`gate.go:638`, `:700`, comment at `:614-620`), and `RescuedFrom` though the
  model claimed completion (`gate.go:714`, `agent.go:247`);
- the prewarm baseline may be measured on an edited tree (`session.go:145`).

Loops and tools:

- a dedup stub may refer to a turn that eviction removed ("purely a token
  optimization", `loop_shared.go:22-27`); `StubResolves` is stated up to the first
  eviction for this reason;
- a turn with a rejected finish bypasses the repeat and spiral bookkeeping; a
  command that cannot be started resets the stagnation streak (`tracker.go:183`);
- a line of prose that starts with a tool's name is dispatched as a call;
- occurrences in an edit are counted without overlaps; a reversed range reads as
  an empty file; an append to an unreadable file overwrites it; of two failed
  writes in a row of repair readings the first error is reported (not modelled:
  an error of the tools has no text).

Transcripts and wires:

- `llm/message.go:42-46` promises durable JSON, but a turn whose tool arguments
  are not JSON makes the record's `json.Marshal` fail (`message.go:57`; not
  modelled: transcripts on disk are not);
- `generate.go:333-336` says a truncated stream is an error; one that ends
  between two chunks is none (`StreamClosed`, findings 13 and 14);
- an empty assistant turn is sent as an empty string on the chat wire; only the
  last reasoning part of a turn survives there.

Driver and sandboxes:

- `-trust container` with `-worktree=true` or `auto` is refused as conflicting;
- a worktree whose pin or file list fails is left behind (`vcs/worktree.go:94`),
  as are the earlier ones of a tournament whose set-up fails;
- a tournament whose winner's review fails emits no result
  (`docs/specs/CLI-SCRIPTABLE.md:124`); without any patch the last attempt wins;
- a reported `worktree_path` may be gone; the report says "the run changed
  nothing" whenever there is no patch path (the sentence is not modelled);
- a canceled local command is reported as failed, a canceled container one as
  timed out; docker's own errors come back as exit codes of the command;
- the policy of `-approve=policy` blocks a search pattern that contains `|`.

## 8. Not modelled, and the plan

Not modelled, and why:

- standing context and transcripts: a message the loop carries, and files
  nothing reads back during a run;
- spend: a sum under a mutex; a loop may stop on a budget at the top of any
  turn, which is all it takes from it;
- plan stage, standalone review pass, memory, skills, command line: one-shot
  calls, prompt files and printing, without state;
- evaluation suite: benchmark drivers and reports, not part of the running agent;
- within modelled parts: the matching and hashing of `fence.go`, the review half
  of `finalizeGuarantees` and `Gate.Check`; `SetModel` and the other setters of
  a session; `list_dir`, `search`, `godoc` and the outlines; the sandbox's file
  operations; the driver's JSON output and the ladder's escalation; images and
  the registry of models.

Plan, most important first:

1. `Tools`: `list_dir` and `search` with their caps, and the standalone
   `Gate.Check`.
2. The spend ledger of concurrent attempts, once the code makes a promise
   about attempts that share it.
3. Proofs that `Sandbox`'s and `NativeLoop`'s calls return, should a prover for
   fairness become available; today they are checked by TLC.
