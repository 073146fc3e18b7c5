------------------------------- MODULE MCTools -------------------------------
(* Tools on three jobs: paging, editing and building a file in pieces. *)
EXTENDS Tools

Job(texts, reads, edits, writes, outside, appender, win, ops) ==
    [texts |-> texts, reads |-> reads, edits |-> edits, writes |-> writes, outside |-> outside,
     appender |-> appender, window |-> win, ops |-> ops]

Read(form, a, b) == [form |-> form, a |-> a, b |-> b]
Letters(n) == UNION {[1..k -> {"a", "nl"}] : k \in 0..n}
Paging(win) == Job({Missing} \cup Letters(6), {Read("bare", 0, 0), Read("range", 1, 3), Read("open", 2, 0), Read("range", 2, 5), Read("range", 1, 6),
                    Read("range", 4, 2), Read("line", 2, 0), Read("line", 0, 0), Read("open", 0, 0)}, {}, {},
                   {<<"a", "nl", "a", "nl", "a">>}, TRUE, win, 1)

Edit(text, o, n, mode) == [text |-> text, old |-> o, new |-> n, mode |-> mode]
Olds == {<<"a">>, <<"q", "a", "q">>, <<"a", "nl">>, <<"eq", "a", "eq">>, <<"q", "b", "q">>, <<"a", "a">>}
News == {<<>>, <<"b">>, <<"q", "b", "q">>, <<"b", "nl", "a">>, <<"tick", "b", "tick">>, <<"be">>, <<"fence">>}
FileTexts == {Missing, <<"a">>, <<"a", "nl", "b">>, <<"q", "a", "q">>, <<"b", "nl", "q", "b", "q">>,
          <<"a", "a", "a">>, <<"a", "a", "a", "a", "a", "a", "a">>, <<"a", "nl", "a", "b", "nl">>, <<"eq", "a", "eq">>}
Editing == Job(FileTexts, {}, {Edit(t, o, n, m) : t \in BOOLEAN, o \in Olds, n \in News, m \in Modes \cup {"regex"}}, {},
               {<<"q", "a", "q">>}, TRUE, 0, 1)
Reediting == Job({<<"a", "nl", "b">>, <<"q", "a", "q">>}, {},
                 {Edit(t, o, n, m) : t \in BOOLEAN, o \in Olds, n \in {<<>>, <<"b", "nl", "a">>}, m \in Modes}, {},
                 {}, TRUE, 0, 2)

Piece(c, append) == [content |-> c, append |-> append]
Pieces == {Piece(<<"a", "nl">>, TRUE), Piece(<<"a", "b", "b">>, TRUE), Piece(<<"fence", "a">>, TRUE),
           Piece(<<"b">>, FALSE), Piece(<<"fence", "a">>, FALSE), Piece(<<"a", "a", "a", "a", "a">>, FALSE)}
Building(appender) == Job({Missing, <<"b", "nl">>}, {}, {}, Pieces, {<<"q">>}, appender, 0, 3)

MCJobs == [paging |-> Paging(0), pagingNarrow |-> Paging(1), editing |-> Editing, reediting |-> Reediting,
           building |-> Building(TRUE), rebuilding |-> Building(FALSE)]
=============================================================================
