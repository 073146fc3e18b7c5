------------------------------- MODULE MCWire -------------------------------
EXTENDS Wire

sol    == [vendor |-> "openai", alpha |-> FALSE, tier |-> "gpt-5.6-sol"]
gemini == [vendor |-> "google", alpha |-> TRUE, tier |-> "3"]
fable  == [vendor |-> "claude", alpha |-> TRUE, tier |-> "5"]

text(w) == [k |-> "text", id |-> 0, x |-> <<w>>]
plain   == <<text("task")>>
image   == <<text("task"), [k |-> "image", id |-> 0, x |-> <<"png">>]>>
url     == <<text("task"), [k |-> "url", id |-> 0, x |-> <<"link">>]>>

run(n, m, e, st, sh, t) == [name |-> n, model |-> m, env |-> e, stream |-> st, shared |-> sh, task |-> t]

MCRuns ==
    {run("openrouter", gemini, "none", TRUE, FALSE, image),   run("openrouter", gemini, "none", FALSE, TRUE, plain),
     run("openrouter", gemini, "openai", FALSE, TRUE, plain), run("openrouter", sol, "none", FALSE, TRUE, url),
     run("openai", sol, "none", TRUE, FALSE, plain),
     run("anthropic", fable, "none", TRUE, FALSE, image),     run("anthropic", fable, "none", FALSE, FALSE, url)}

thought(t, b, n, x) == [type |-> t, by |-> b, n |-> n, x |-> x]

MCReplies ==
    {[think |-> <<thought("thinking", "index", 0, <<"t1", "t2">>), thought("encrypted", "index", 0, <<"e1", "e2">>)>>,
      text |-> <<>>, calls |-> <<<<"b">>>>, finish |-> "tool_use", read |-> 0],
     [think |-> <<thought("thinking", "id", 1, <<"t1", "t2">>), thought("encrypted", "nothing", 0, <<"e">>)>>,
      text |-> <<"w">>, calls |-> <<>>, finish |-> "stop", read |-> 0],
     [think |-> <<thought("thinking", "nothing", 0, <<"t1", "t2">>)>>, text |-> <<>>, calls |-> <<<<"a", "b">>>>,
      finish |-> "tool_calls", read |-> 0],
     [think |-> <<>>, text |-> <<>>, calls |-> <<<<"a", "b">>, <<>>, <<"a", "b">>>>, finish |-> "tool_calls", read |-> 5],
     [think |-> <<>>, text |-> <<>>, calls |-> <<>>, finish |-> "end_turn", read |-> 5],
     [think |-> <<>>, text |-> <<>>, calls |-> <<<<"a">>>>, finish |-> "length", read |-> 0]}

fault(v, c, s) == [via |-> v, code |-> c, says |-> s]
MCFaults ==
    {fault("cancel", 0, "other"), fault("eof", 0, "other"), fault("reset", 0, "other"), fault("badEvent", 0, "other"),
     fault("event", 504, "other"), fault("event", 400, "overflow"), fault("event", 400, "overflowType"),
     fault("event", 400, "encrypted"),
     fault("event", 401, "auth"), fault("event", 429, "rate"),
     fault("http", 401, "auth"), fault("http", 429, "rate"), fault("http", 503, "other"), fault("http", 529, "other"),
     fault("http", 400, "overflow"), fault("http", 400, "overflowType"), fault("http", 400, "encrypted"),
     fault("http", 400, "other"), fault("http", 413, "overflow")}

MCUpstreams == {"Google", "OpenAI"}
=============================================================================
