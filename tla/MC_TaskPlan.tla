---------------------------- MODULE MC_TaskPlan ----------------------------
(***************************************************************************)
(* Instances of TaskPlan: a leader with one member, SOPs of two steps with *)
(* approvals and of other shapes, plans of a few nodes with room for       *)
(* compaction, and scopes that bring the cases together two or three at a  *)
(* time.                                                                   *)
(***************************************************************************)
EXTENDS TaskPlan

const_Members == <<"writer">>

\* The first message is for the member, the second for whoever works.
const_Mentions == <<{"writer"}, {}>>

Check(kind, spec) == [kind |-> kind, spec |-> spec]

const_Contract ==
  [schema |-> "report", artifacts |-> {[name |-> "page", min |-> 1]},
   verifications |-> <<Check("schema", None), Check("schema", "extra"), Check("command", "lint"), Check("command", "tests")>>]
const_StepContract == [schema |-> "report", artifacts |-> {}, verifications |-> <<Check("sop_verifier", "step")>>]

\* Everything as it should be, and one thing wrong at a time.
Result == [reported |-> TRUE, output |-> {"report", "extra"}, manifest |-> "man"]
Page(blob, size) == [name |-> "page", blob |-> blob, size |-> size]
Manifest(entries) == "man" :> [entries |-> entries, snapshot |-> "snap"]
Fine ==
  [schemas |-> "report" :> "usable" @@ "extra" :> "usable",
   manifests |-> Manifest(<<Page("b1", 2), [name |-> None, blob |-> None, size |-> NoSize]>>),
   blobs |-> "b1" :> [digest |-> "b1", size |-> 2] @@ "b2" :> [digest |-> "b1", size |-> 2],
   restorable |-> {"snap"}, exits |-> "lint" :> "0" @@ "tests" :> "0", answers |-> "step" :> "PASS", down |-> {}]
Found(world) == [result |-> Result, world |-> world]
Reported(result) == [result |-> result, world |-> Fine]

const_Evidence ==
  {Found(Fine), Reported([Result EXCEPT !.reported = FALSE]), Reported([Result EXCEPT !.output = {"report"}]),
   Reported([Result EXCEPT !.manifest = None])}
    \cup {Found([Fine EXCEPT !.schemas = s]) : s \in {"report" :> "usable", "report" :> "unusable" @@ "extra" :> "usable"}}
    \cup {Found([Fine EXCEPT !.manifests = m]) :
            m \in {<<>>, Manifest(<<>>), Manifest(<<Page(None, 2)>>), Manifest(<<Page("b3", 2)>>), Manifest(<<Page("b2", 2)>>),
                   Manifest(<<Page("b1", 3)>>)}}
    \cup {Found([Fine EXCEPT !.exits["tests"] = x]) : x \in {"1", "timeout"}}
    \cup {Found([Fine EXCEPT !.answers["step"] = x]) : x \in {"FAIL", "unclear", None}}
    \cup {Found([Fine EXCEPT !.down = {x}]) : x \in {"verify_completion", "verify_command", "verify_sop_step"}}
    \cup {Found([Fine EXCEPT !.restorable = {}])}

Step(id, linear, deps, approval) == [id |-> id, linear |-> linear, deps |-> deps, approval |-> approval]

\* One step after the other, with approvals; two steps written in the wrong order; steps that wait for each other.
const_Sops ==
  "line" :> <<Step("", TRUE, {}, "after"), Step("", TRUE, {}, "before")>>
    @@ "swapped" :> <<Step("", FALSE, {"first"}, "none"), Step("first", FALSE, {}, "none")>>
    @@ "cyclic" :> <<Step("", FALSE, {"s2"}, "none"), Step("", TRUE, {}, "none")>>

Scope(agent, person, commands, sends, acts, messages, fails) ==
  [agent |-> agent, person |-> person, commands |-> commands, sends |-> sends, people |-> acts, messages |-> messages, fails |-> fails,
   budget |-> NoLimit, grant |-> 0]
Budget(scp, limit, more) == [scp EXCEPT !.budget = limit, !.grant = more]

const_Scopes ==
  {Scope({"create"}, {}, 2, 1, 0, 0, {}),                                       \* rounds of reviews
   Scope({"create"}, {"remove", "block"}, 2, 2, 0, 0, {}),                      \* changes delivered late and twice
   Scope({"create"}, {"update", "link", "unlink"}, 2, 1, 0, 0, {}),
   Scope({"create", "delete", "block_on", "unplannable"}, {}, 2, 1, 0, 0, {}),
   Scope({}, {"line"}, 1, 1, 1, 0, {"attempts", "reading"}),                    \* a SOP, with failures
   Scope({}, {"line"}, 1, 1, 4, 0, {}),                                         \* a SOP, with approvals and work by hand
   Scope({"create"}, {"line"}, 2, 1, 0, 0, {}),                                 \* a SOP beside the leader's tasks
   Scope({"create"}, {}, 1, 1, 1, 1, {}),                                       \* a mention while the leader's task is going
   Scope({}, {}, 0, 0, 0, 2, {"attempts"}),                                     \* messages and attempts that fail
   Scope({}, {"update", "remove"}, 1, 1, 1, 0, {"attempts"}),                   \* nodes that retries gave up on
   Scope({}, {"cyclic", "remove"}, 2, 1, 0, 0, {"reading"}),                    \* a SOP removed while it is read
   Scope({}, {"swapped", "cyclic", "unknown"}, 1, 1, 1, 0, {}),                 \* definitions of other shapes
   Scope({}, {"task"}, 1, 1, 0, 0, {"attempts"}),                               \* a task with a contract
   Scope({}, {"timer", "event"}, 2, 1, 0, 0, {}),                               \* nodes that wait
   Scope({}, {"either", "remove"}, 2, 1, 1, 0, {}),
   Scope({}, {"checkpoint", "remove"}, 2, 1, 1, 0, {}),                         \* checkpoints
   Budget(Scope({"create"}, {}, 2, 1, 1, 0, {}), 1, 1),                         \* tasks that share the budget
   Budget(Scope({"create"}, {"update"}, 2, 1, 0, 0, {}), 2, 0),                 \* nodes that name a budget
   Budget(Scope({}, {"swapped"}, 1, 1, 1, 0, {}), 1, 1),                        \* steps that wait for budget
   Budget(Scope({}, {}, 0, 0, 2, 0, {"attempts"}), 1, 1)}                       \* attempts that run out of it
=============================================================================
