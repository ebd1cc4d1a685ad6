------------------------------- MODULE MCDocs -------------------------------
(* A small project: two workflows that share an action, one of them with two versions of *)
(* it, a few log lines of every kind, a run that failed and one that runs.               *)
EXTENDS DocsSite

W1 == <<"w1">>
W2 == <<"w2">>
A1 == <<"a", "1">>
A2 == <<"a", "2">>
B  == <<"b">>

Line(seq, level, diagnostic, code, says, named, acting, wf, log, run, time) ==
    [seq |-> seq, level |-> level, diagnostic |-> diagnostic, code |-> <<code>>,
     says |-> says, named |-> named, acting |-> acting, wf |-> wf, log |-> log,
     run |-> run, time |-> time]

MCLogLines == {
    Line(1, "error", FALSE, "x", {<<"boom">>}, A1, A1, W1, W1, <<"r1">>, 3),
    Line(2, "WARNING?", FALSE, "y", {<<"b">>}, None, B, None, W2, None, Undated),
    Line(3, "warning", FALSE, "x", {}, None, B, W2, None, <<"r2">>, 0),
    Line(4, "debug", TRUE, "z", {<<"boom">>}, B, None, W1, W1, <<"r1">>, 3)}

Ran(name, result, start, end, dur) ==
    [name |-> name, status |-> result, start |-> start, end |-> end, dur |-> dur]
Execution(id, wf, result, duration, ran) ==
    [id |-> <<id>>, wf |-> wf, status |-> result, duration |-> duration, actions |-> ran]

MCExecutions ==
    {Execution("r1", W1, "FAILED", 3, {Ran(A1, "failed", 0, 3, 3), Ran(B, "skipped", 3, 3, 0)}),
     Execution("r2", W2, "RUNNING", 0, {Ran(A2, "running", 2, None, 0),
                                        Ran(A1, "completed", 1, None, 1),
                                        Ran(B, "completed", None, None, 2)}),
     Execution("r2", W2, "COMPLETED", 4, {Ran(A2, "completed", 2, 4, 2)})}

Placement(wf, name, type, schema, intent, deps, sec) ==
    [wf |-> wf, name |-> name, type |-> type, schema |-> schema, intent |-> intent,
     impl |-> None, deps |-> deps, sec |-> sec]

\* The second placement of an action has a schema the first has not, and another intent.
MCPlacements == <<Placement(W1, A1, "llm", None, <<"boom">>, {}, 2),
                  Placement(W1, B, "tool", None, None, {A1, <<"elsewhere">>}, 1),
                  Placement(W2, A2, "llm", <<"x">>, <<"z">>, {}, 0)>>

MCWorkflows == {[id |-> W1, status |-> "failed", words |-> {W1}, readme |-> TRUE],
                [id |-> W2, status |-> "odd", words |-> {W2}, readme |-> FALSE]}

Item(id, udf) == [id |-> id, words |-> {id}, udf |-> udf]
MCItems == [schemas |-> <<Item(<<"a">>, FALSE), Item(<<"boom">>, FALSE)>>,
            prompts |-> <<Item(<<"a">>, FALSE)>>,
            tools   |-> <<Item(<<"f">>, FALSE), Item(B, TRUE)>>]

Record(file, traced, fields, reason) ==
    [file |-> file, traced |-> traced, fields |-> fields, reason |-> reason]
f1 == <<"f", "1">>
f2 == <<"f", "2">>
Plain(f) == Record(f, FALSE, TRUE, "")

MCNodes == {[wf |-> W1, node |-> A1, files |-> {f1},
             preview |-> <<Plain(f1), Record(f1, FALSE, FALSE, "guard_skip"), Plain(f1)>>],
            [wf |-> W1, node |-> B, files |-> {f1, f2},
             preview |-> <<Plain(f1), Plain(f2), Plain(f1), Plain(f1)>>],
            [wf |-> W2, node |-> A2, files |-> {}, preview |-> <<>>]}

Quiet       == {l \in MCLogLines : l.diagnostic}
MCFindings  == {[target |-> <<"schema">>, id |-> 1]}
MCHistories == {[log |-> MCLogLines, window |-> MCLogLines, findings |-> MCFindings],
                [log |-> MCLogLines, window |-> Quiet, findings |-> {}],
                [log |-> Quiet, window |-> Quiet, findings |-> {}]}
MCMaxClicks == [section \in Sections |->
    CASE section = "data" -> 5 [] section = "workflows" -> 4 [] section = "home" -> 1
      [] OTHER -> 3]

MCTyped    == {<<>>, <<"boom">>, <<"none">>}
MCAlphabet == <<<<"a">>, <<"b">>>>

=============================================================================
