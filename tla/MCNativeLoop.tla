---------------------------- MODULE MCNativeLoop ----------------------------
(* Both loops on three versions of the workspace: failing, passing, and one  *)
(* without the file; and environments that each provoke one kind of stall.   *)
EXTENDS TextLoop

MCVersions == {"v0", "v1", "gone"}
MCMissing  == {"gone"}
MCRunOut   == [v \in MCVersions |-> CASE v = "v0" -> "red1" [] v = "v1" -> "green" [] OTHER -> "red2"]

C(name, arg) == [name |-> name, arg |-> arg]
Turn(calls)  == [calls |-> calls, empty |-> TRUE]
Answer       == [calls |-> <<>>, empty |-> FALSE]
Silence      == [calls |-> <<>>, empty |-> TRUE]

Read   == C("read_file", "f")
ReadG  == C("read_file", "g")
ListA  == C("list_dir", "a")
ListB  == C("list_dir", "b")
Find   == C("search", "x")
Edit   == C("edit_file", "f")
Write  == C("write_file", "f")
Test   == C("run", "test")
RmF == C("run", "rm f")
Finish == C("finish", "done")

Env(replies, thoughts, faults, flags, prior, turns) ==
    [replies |-> replies, thoughts |-> thoughts, faults |-> faults, priorTurns |-> prior, maxIter |-> turns,
     finishTool |-> "finishTool" \in flags, observeOnly |-> "observeOnly" \in flags,
     standing |-> "standing" \in flags, budgeted |-> "budgeted" \in flags,
     cancels |-> "cancels" \in flags, flaky |-> "flaky" \in flags]

Exploring == Env({Turn(<<ListA>>), Turn(<<ListB>>), Turn(<<Find, ListA>>), Turn(<<Read>>)},
                 {"none"}, {}, {"observeOnly"}, 0, 5)
Thinking  == Env({Turn(<<Read>>), Turn(<<ReadG>>)}, {"none", "t1", "t2"}, {}, {}, 0, 5)
Fixing    == Env({Turn(<<Test>>), Turn(<<Edit>>), Turn(<<Test, Read>>)}, {"none"}, {}, {"flaky"}, 0, 4)
Talking   == Env({Turn(<<Test, Finish>>), Turn(<<Edit, Finish, Finish>>), Turn(<<Test>>), Silence}, {"none", "t1"}, {},
                 {"finishTool"}, 0, 4)
Fanning   == Env({Turn(<<Read, ReadG, RmF>>), Turn(<<RmF, Read>>), Turn(<<Read, ReadG>>), Turn(<<Write>>)},
                 {"none"}, {}, {"cancels"}, 0, 4)
Failing   == Env({Answer, Turn(<<Read>>)}, {"none", "t1"}, {"transient", "overflow", "rejected", "fatal"},
                 {"budgeted", "standing", "cancels"}, 5, 2)

(* The text protocol: what the model writes, and runs that write it. *)
L(form, verb, arg, junk, text) == [form |-> form, verb |-> verb, arg |-> arg, junk |-> junk, text |-> text]
Plain(verb, arg) == L("plain", verb, arg, FALSE, verb)
Prose == L("prose", "", "", FALSE, "I will look")
Tag   == L("tag", "", "", FALSE, "<parameter>")
MCWritten ==
    [readF  |-> <<Prose, Plain("read_file", "f"), Plain("run", "test")>>,
     readG  |-> <<L("json", "read_file", "g", FALSE, "json")>>,
     test   |-> <<L("plain", "run", "", TRUE, "run <argument>"), Tag, L("prose", "", "", FALSE, "test")>>,
     fix    |-> <<L("parameter", "edit_file", "", FALSE, "<parameter=edit_file>"), L("prose", "", "", FALSE, "f")>>,
     list   |-> <<Plain("list_dir", ""), Prose>>,
     listA  |-> <<L("angle", "answer", "", FALSE, "<answer>"), L("angle", "list_dir", "a", FALSE, "<list_dir>")>>,
     find   |-> <<L("angle", "grep", "y", FALSE, "<grep>"), Plain("search", "x")>>,
     remove |-> <<Plain("run", "rm f")>>,
     lost   |-> <<L("plain", "run", "", TRUE, "run <argument>"), Tag>>,
     prose  |-> <<Prose, Prose>>,
     answer |-> <<Plain("answer", "done")>>]
MCKnown == {"answer", "read_file", "list_dir", "search", "edit_file", "write_file", "run"}

Says(texts) == {[calls |-> <<C("text", t)>>, empty |-> FALSE] : t \in texts}
TextExploring == Env(Says({"list", "listA", "find", "readF", "prose"}), {"none"}, {}, {}, 0, 4)
TextThinking  == Env(Says({"readF", "lost", "answer"}), {"none", "t1", "t2"}, {}, {}, 0, 4)
TextFixing    == Env(Says({"test", "fix", "readF"}), {"none"}, {}, {"flaky"}, 0, 4)
TextFailing   == Env(Says({"answer", "readF"}), {"none"}, {"transient", "overflow", "rejected", "fatal"},
                     {"budgeted", "cancels"}, 2, 2)
TextSpinning  == Env(Says({"test", "readF"}), {"t1", "t2"}, {}, {}, 0, 5)
MCTextRuns == {"textExploring", "textThinking", "textFixing", "textFailing", "textSpinning"}

MCScenarios == [textExploring |-> TextExploring, textThinking |-> TextThinking, textFixing |-> TextFixing,
                textFailing |-> TextFailing, textSpinning |-> TextSpinning,
                exploring |-> Exploring, thinking |-> Thinking, fixing |-> Fixing,
                talking |-> Talking, fanning |-> Fanning, failing |-> Failing]

NoText == {}
Chatting == [chatting |-> Env({Answer, Turn(<<Read>>)}, {"none"}, {"overflow"}, {}, 1, 3)]
Skipping == [skipping |-> Env({Turn(<<Read>>), Turn(<<RmF>>)}, {"none"}, {}, {}, 0, 4)]
=============================================================================
