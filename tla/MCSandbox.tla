------------------------------ MODULE MCSandbox ------------------------------
(* Instances of Sandbox: chains and commands.                              *)
EXTENDS Sandbox

Quoted(text) == [text |-> text, quote |-> "single"]
Line(texts) == [i \in DOMAIN texts |-> Bare(texts[i])]
Shell(words) == [shell |-> TRUE, words |-> words, dir |-> "none", timed |-> TRUE, holds |-> "no", ends |-> TRUE]
Direct(words) == [Shell(words) EXCEPT !.shell = FALSE]

Ungated ==
    { Shell(Line(<<"go", "test", "-race", "./pkg">>)),                      \* allowed everywhere
      [Shell(Line(<<"go", "build", "./pkg">>)) EXCEPT !.holds = "pipe", !.ends = FALSE],
      [Shell(Line(<<"go", "vet", "./pkg">>)) EXCEPT !.holds = "pipe"],
      [Shell(Line(<<"ls">>)) EXCEPT !.ends = FALSE],                        \* hangs
      Shell(Line(<<"echo">>) \o <<Quoted("&")>>),                           \* a quoted token
      Shell(Line(<<"go", "test", "&&", "make">>)),
      [Shell(Line(<<"make", "&">>)) EXCEPT !.holds = "free"],
      [Shell(Line(<<"go", "vet">>)) EXCEPT !.dir = "inside"],
      [Shell(Line(<<"ls">>)) EXCEPT !.dir = "outside"],
      [Shell(Line(<<"cat", "f">>)) EXCEPT !.timed = FALSE],
      Direct(Line(<<"rg", "searchFlags", "pattern", "--", "pkg">>)),
      Direct(Line(<<"rg", "searchFlags", "pattern", "--", "../x">>)) }

(* What a line can do by its quoting and its flags: only the gates differ. *)
Gated ==
    { Shell(Line(<<"find", "-exec">>)),
      Shell(Line(<<"gofmt", "-w">>)),
      Shell(Line(<<"go", "test", "-exec=tool">>)),
      Shell(Line(<<"git", "diff", "--output=f">>)),
      Shell(Line(<<"git", "diff", "--", "--output=f">>)),                   \* a path of that name
      Shell(Line(<<"echo">>) \o <<[text |-> "$(", quote |-> "double"]>>),
      Shell(Line(<<"go", "test">>) \o <<Quoted("$(")>>),
      Shell(Line(<<"go", "test", "*">>)),
      Direct(Line(<<"rg", "searchFlags", "--pre=tool">>)),                  \* a pattern of that name
      Direct(Line(<<"rg", "searchFlags", "pattern", "--pre=tool">>)) }

MCCommands == Ungated \cup Gated

(* Gates, the session's state and hosted processes are explored apart. *)
Chain(b, r, s, a, t) ==
    [backend |-> b, runtime |-> r, session |-> s, approve |-> a, trustGated |-> t,
     calls |-> 0, hosts |-> FALSE, issues |-> Ungated]
Stateful == {c \in Ungated : c.shell /\ ~hasShellChaining(c) /\ c.timed /\ c.dir # "outside" /\ c.holds = "no"}
MCChains ==
    {[Chain("local", "runc", TRUE, "off", FALSE) EXCEPT !.calls = 3, !.issues = Stateful],
     [Chain("docker", "runc", TRUE, "off", FALSE) EXCEPT !.calls = 2, !.issues = Stateful],
     [Chain("docker", "runc", TRUE, "off", FALSE) EXCEPT !.calls = 3, !.issues = {c \in Stateful : c.ends /\ c.dir = "none"}]}
    \cup {[Chain(b, "runc", FALSE, "off", FALSE) EXCEPT !.calls = 1] : b \in {"local", "docker"}}
    \cup {[Chain("local", "runc", TRUE, a, t) EXCEPT !.calls = 1, !.issues = MCCommands] : a \in {"interactive", "policy", "never"}, t \in BOOLEAN}
    \cup {[Chain(b, "runc", FALSE, "off", FALSE) EXCEPT !.hosts = TRUE] : b \in {"local", "docker"}}
    \cup {[Chain("docker", "runsc", FALSE, "off", TRUE) EXCEPT !.calls = 1]}
=============================================================================
