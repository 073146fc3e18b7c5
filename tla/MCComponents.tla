---------------------------- MODULE MCComponents ----------------------------
(***************************************************************************)
(* The components around the turn loop, on their small instances.  They     *)
(* share no state, so a behaviour follows one of them, the focus, and       *)
(* leaves the others where they begin.                                      *)
(***************************************************************************)
EXTENDS MCAgentSession, MCSandbox, MCTools, MCWire, SSEFilter

VARIABLE focus

allVars == <<focus, sessionVars, xvars, tvars, wireVars, sseVars>>

any(S) == CHOOSE x \in S : TRUE

atRest ==
    /\ focus # "sandbox" => chain = any(Chains)
    /\ focus # "tools" => duty = any(DOMAIN Jobs) /\ disk = any(job.texts)
    /\ focus # "wire" => begins(any(Runs))

MCInit ==
    /\ focus \in {"session", "sandbox", "tools", "wire", "sse"}
    /\ atRest
    /\ SessionInit /\ SandboxInit /\ ToolsInit /\ WireInit /\ SSEInit

MCNext ==
    /\ UNCHANGED focus
    /\ \/ focus = "session" /\ SessionNext
       \/ focus # "session" /\ UNCHANGED sessionVars
    /\ \/ focus = "sandbox" /\ SandboxNext
       \/ focus # "sandbox" /\ UNCHANGED xvars
    /\ \/ focus = "tools" /\ ToolsNext
       \/ focus # "tools" /\ UNCHANGED tvars
    /\ \/ focus = "wire" /\ WireNext
       \/ focus # "wire" /\ UNCHANGED wireVars
    /\ \/ focus = "sse" /\ SSENext
       \/ focus # "sse" /\ UNCHANGED sseVars

ComponentsSpec == MCInit /\ [][MCNext]_allVars /\ SandboxFairness

(* Types: the session and its probe, the sandbox chain and the file and its *)
(* tools are what their code holds.                                         *)
ComponentsTypeOK == SessionTypeOK /\ SandboxTypeOK /\ ToolsTypeOK /\ WireTypeOK
=============================================================================
