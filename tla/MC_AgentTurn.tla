--------------------------- MODULE MC_AgentTurn ---------------------------
(* AgentTurn on small instances: a command that runs at once, one that is   *)
(* asked about, a read, and a question to the user.                         *)
EXTENDS AgentTurn

tool(name, level, own, readOnly, fails) ==
  [name |-> name, level |-> level, own |-> own, readOnly |-> readOnly, fails |-> fails,
   writes |-> ~readOnly, protected |-> FALSE, script |-> FALSE]

const_Tools == {"build", "deploy", "look", "ask", "wipe"}
const_Info == [t \in const_Tools |->
  CASE t = "build"  -> tool("Bash", "medium", "ask", FALSE, FALSE)
    [] t = "deploy" -> tool("Bash", "high", "ask", FALSE, TRUE)
    [] t = "look"   -> tool("Read", "low", "allow", TRUE, FALSE)
    [] t = "wipe"   -> tool("Bash", "catastrophic", "allow", FALSE, FALSE)
    [] t = "ask"    -> tool("ask_user", "low", "ask", TRUE, FALSE)]

const_Batches == {{"build", "deploy"}, {"build", "look"}, {"ask"}, {"wipe"}}
const_Preset == [session |-> "workspace-write", spec |-> "auto"]
const_Layers == {[denied |-> {}, cap |-> 2], [denied |-> {}, cap |-> -1]}
const_Limit == [tokens |-> 6, tool_calls |-> 2]

\* The violation's instance: one call that is asked about.
const_AskBatches == {{"deploy"}}
=============================================================================
