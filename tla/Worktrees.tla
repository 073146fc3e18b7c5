----------------------------- MODULE Worktrees -----------------------------
(***************************************************************************)
(* The throwaway worktrees of vcs/worktree.go and the git primitives of    *)
(* vcs/vcs.go that the headless driver calls on them.  Each operator is    *)
(* the set of results the call can have: git, the disk and an outside      *)
(* sweep of /tmp may make any of them fail.                                *)
(***************************************************************************)
EXTENDS Naturals

(* A detached worktree.                                                    *)
(*   dir     live, removed by the driver, or swept by someone else         *)
(*   edited  its files differ from its own HEAD (untracked ones included)  *)
(*   commits the agent's own commits on top of the baseline                *)
(*   pinned  the dirty-tree snapshot it is based on has a ref              *)
Worktree == [dir : {"live", "removed", "swept"}, edited : BOOLEAN, commits : BOOLEAN, pinned : BOOLEAN]

Fresh(pinned) == [dir |-> "live", edited |-> FALSE, commits |-> FALSE, pinned |-> pinned]

(* The go.mod rewrite is committed on the worktree's HEAD, so a fresh       *)
(* worktree is clean against it; when it fails the worktree is removed.     *)
RewriteFailed(w) == [w EXCEPT !.dir = "removed"]

(* WorktreeAdd: a clean checkout is based on HEAD, a dirty one on a         *)
(* snapshot commit pinned under refs/driver-agent/baselines.  The pin and   *)
(* the file list come last: when they fail the error comes back together    *)
(* with the worktree that was created.                                      *)
AddResults(dirty) ==
    {[error |-> FALSE, created |-> TRUE,  worktree |-> Fresh(dirty)],
     [error |-> TRUE,  created |-> FALSE, worktree |-> Fresh(FALSE)],
     [error |-> TRUE,  created |-> TRUE,  worktree |-> RewriteFailed(Fresh(FALSE))]}
    \cup IF dirty THEN {[error |-> TRUE, created |-> TRUE, worktree |-> Fresh(p)] : p \in BOOLEAN} ELSE {}

(* WorktreeCollect: stat, intent-to-add, diff against the worktree's HEAD,  *)
(* then the patch file.  A diff that is empty writes nothing.               *)
CollectResults(w, mayFail) ==
    IF w.dir # "live" THEN {[error |-> TRUE, changed |-> FALSE]}
    ELSE {[error |-> FALSE, changed |-> w.edited]}
         \cup IF mayFail THEN {[error |-> TRUE, changed |-> c] : c \in {FALSE, w.edited}} ELSE {}

(* diffWorktree of headless/main.go: the same diff, as text; an error       *)
(* leaves the text empty.                                                   *)
DiffResults(w, mayFail) ==
    {w.dir = "live" /\ w.edited} \cup IF mayFail THEN {FALSE} ELSE {}

(* WorktreeRemove: forced, so it never looks at what the worktree holds.    *)
(* The prune after it may fail when the directory is already gone.          *)
RemoveResults(w, mayFail) ==
    IF w.dir # "live" THEN {[error |-> TRUE, worktree |-> w]}
    ELSE {[error |-> FALSE, worktree |-> [w EXCEPT !.dir = "removed"]]}
         \cup IF mayFail THEN {[error |-> TRUE, worktree |-> w],
                               [error |-> TRUE, worktree |-> [w EXCEPT !.dir = "removed"]]}
                         ELSE {}
=============================================================================
