---------------------------- MODULE CommandPolicy ----------------------------
(***************************************************************************)
(* Which commands a sandbox chain lets through (sandbox/gated/gated.go,    *)
(* profile/profile.go, headless/review.go, headless/trust.go): the review  *)
(* gate's textual allowlist, the trust profile's parsed allowlist, and the *)
(* two gates stacked.                                                      *)
(*                                                                         *)
(* A command is the sequence of its words with their quoting, one of a     *)
(* shell line or a direct execution.  What the shell and the program make  *)
(* of it, what the textual gate makes of it and what the parsing gate      *)
(* makes of it are three readings of the same words.                       *)
(***************************************************************************)
EXTENDS Naturals, Sequences, SequencesExt

(* A word is a token of its own, an expansion, or plain text.              *)
Sequencing   == {"&&", ";", "|", ">", "&", "newline"}
Substituting == {"$(", "backquote"}
Quotes == {"none", "single", "double"}
Words  == [text : STRING, quote : Quotes]
Bare(text) == [text |-> text, quote |-> "none"]
Texts(cmd) == [i \in DOMAIN cmd.words |-> cmd.words[i].text]

SafeGoFlags == {"-race", "-short", "-v", "-json", "-count=1", "-run=TestA"}
StatusFlags == {"--short", "--porcelain", "--branch"}
DiffFlags   == {"--stat", "--name-only", "--name-status", "--cached", "--staged"}
Escaping    == {"", "..", "../x", "/abs"}

(* Flags that make a program on the allowlists run another or write files: *)
(* find's, gofmt's, go's, git diff's and ripgrep's.                        *)
ActingFlags == {"-exec", "-delete", "-w", "-exec=tool", "--output=f", "--pre=tool"}

IsFlag(word) == word \in SafeGoFlags \cup StatusFlags \cup DiffFlags \cup ActingFlags \cup {"--"}
workspacePath(word) == word \notin Escaping
After(s, i) == {s[k] : k \in (i + 1)..Len(s)}

---------------------------------------------------------------------------
(* What running a line does (the shell's quoting rules and the programs'   *)
(* own flags; none of it is the harness's code).                           *)

(* The shell runs a second command, or writes where a redirection says. *)
runsSecond(cmd) ==
    cmd.shell /\ \E i \in DOMAIN cmd.words :
        \/ cmd.words[i].text \in Sequencing /\ cmd.words[i].quote = "none"
        \/ cmd.words[i].text \in Substituting /\ cmd.words[i].quote # "single"

(* A flag acts unless it is an operand: after "--", or the search tool's   *)
(* pattern, which its flags end by announcing.                             *)
flagActs(cmd) ==
    \E i \in DOMAIN cmd.words :
        /\ cmd.words[i].text \in ActingFlags
        /\ \A j \in 1..(i - 1) : cmd.words[j].text # "--"
        /\ i > 1 => cmd.words[i - 1].text # "searchFlags"

doesMore(cmd) == runsSecond(cmd) \/ flagActs(cmd)

---------------------------------------------------------------------------
(* gated.hasShellChaining: the tokens, wherever they stand in the text.    *)
hasShellChaining(cmd) ==
    \E i \in DOMAIN cmd.words : cmd.words[i].text \in Sequencing \cup Substituting

(* profile.literalWord: text that is itself, quoted or not: no expansion,  *)
(* substitution or pattern.                                                *)
literalWord(word) ==
    CASE word.quote = "single" -> TRUE
      [] word.quote = "double" -> word.text \notin Substituting \cup {"$x"}
      [] OTHER                 -> word.text \notin Substituting \cup {"$x", "*"}

(* profile.parseSimpleCommand: one statement, one call, literal words.     *)
parseSimpleCommand(cmd) ==
    \A i \in DOMAIN cmd.words :
        /\ literalWord(cmd.words[i])
        /\ cmd.words[i].quote = "none" => cmd.words[i].text \notin Sequencing

(* ApprovalPolicy.AllowsExec: only ripgrep with the search tool's own      *)
(* flags, a pattern, and workspace paths after "--".                       *)
AllowsExec(cmd) ==
    LET w == Texts(cmd) IN
    /\ Len(w) >= 3 /\ w[1] = "rg" /\ w[2] = "searchFlags"
    /\ \/ Len(w) = 3
       \/ /\ Len(w) >= 5 /\ w[4] = "--"
          /\ \A p \in After(w, 4) : ~IsFlag(p) /\ workspacePath(p)

GoAllowed(w) ==
    /\ w[2] \in {"test", "build", "vet"}
    /\ \A a \in After(w, 2) : IF IsFlag(a) THEN a \in SafeGoFlags ELSE workspacePath(a)

(* Everything after the first "--" is a path. *)
DiffAllowed(w) ==
    \A k \in 3..Len(w) :
        \/ w[k] = "--"
        \/ IF \E j \in 3..(k - 1) : w[j] = "--" THEN workspacePath(w[k]) ELSE w[k] \in DiffFlags

(* ApprovalPolicy.Allows, for the shipped headless policy.                 *)
Allows(cmd) ==
    LET w == Texts(cmd) IN
    /\ parseSimpleCommand(cmd)
    /\ Len(w) >= 2
    /\ \/ w[1] = "go"  /\ GoAllowed(w)
       \/ w[1] = "git" /\ w[2] = "status" /\ After(w, 2) \subseteq StatusFlags
       \/ w[1] = "git" /\ w[2] = "diff"   /\ DiffAllowed(w)

(* approvalPolicyAdapter: allow or deny, never ask. *)
trustVerdict(cmd) ==
    IF (IF cmd.shell THEN Allows(cmd) ELSE AllowsExec(cmd)) THEN "allow" ELSE "deny"

safePrefixes ==
    {<<"go", sub>> : sub \in {"test", "build", "vet", "doc", "list", "env"}}
    \cup {<<"git", sub>> : sub \in {"status", "diff", "log", "show", "branch", "rev-parse"}}
    \cup {<<name>> : name \in {"gofmt", "ls", "cat", "head", "tail", "wc", "sha256sum", "pwd", "echo", "find", "tree",
                              "stat", "grep", "rg", "ag", "which", "file", "diff"}}

knownSafe(cmd) == \E p \in safePrefixes : IsPrefix([i \in DOMAIN p |-> Bare(p[i])], cmd.words)

(* A bug this guard invites: trusting the first words of a chained line. *)
DefaultPolicy_prefixOnly(cmd) == IF knownSafe(cmd) THEN "allow" ELSE "ask"

(* gated.DefaultPolicy: a known-safe first word or two, and nothing        *)
(* chained onto it; everything else is asked.                              *)
DefaultPolicy(cmd) ==
    IF ~hasShellChaining(cmd) /\ knownSafe(cmd) THEN "allow" ELSE "ask"

(* headless.reviewGate: -approve picks the policy and whether a human can  *)
(* be asked; "off" is a run without -review.                               *)
reviewVerdict(approve, cmd) ==
    CASE approve = "off"   -> "allow"
      [] approve = "never" -> "ask"
      [] OTHER             -> DefaultPolicy(cmd)
CanAsk(approve) == approve = "interactive"

(* gated.Sandbox.Exec of both gates, the review gate outermost: an ask     *)
(* with nobody to answer, an answer that cannot be read and a refusal all  *)
(* block.  reply is the human's, or "none" when the terminal fails.        *)
Passes(approve, trustGated, cmd, reply) ==
    /\ \/ reviewVerdict(approve, cmd) = "allow"
       \/ reviewVerdict(approve, cmd) = "ask" /\ CanAsk(approve) /\ reply = "yes"
    /\ trustGated => trustVerdict(cmd) = "allow"
Asks(approve, cmd) == reviewVerdict(approve, cmd) = "ask" /\ CanAsk(approve)
=============================================================================
