----------------------------- MODULE AgentTurn -----------------------------
(***************************************************************************)
(* One attempt at a node: the loop of AttemptWorkflow, and the activity    *)
(* `agent_turn` that it runs again and again on the workers.               *)
(*                                                                         *)
(* The activity is at-least-once: a worker that dies is replaced and the   *)
(* same payload is run again, up to RETRY.  What survives is the session   *)
(* (rows of `checkpoints`), the side-effect ledger, the durable events and *)
(* the last heartbeat; what the agent had in memory is gone.  The agent    *)
(* answers with batches of tool calls, whose steps interleave, and every   *)
(* call passes the permission, policy, budget and ledger middleware.       *)
(*                                                                         *)
(* AgentScope is external: which calls the model asks for, under which     *)
(* ids (a provider gives fresh ones, a replayed or mock answer the same),  *)
(* what it decides about a tool, and what it does with a new message while *)
(* a call is still waiting are choices.                                    *)
(***************************************************************************)
EXTENDS Integers, FiniteSets, FiniteSetsExt

CONSTANTS
  Tools,          \* what the model may call
  Info,           \* Info[t]: its name, what the classifier finds in it, AgentScope's own decision
  Batches,        \* the sets of tools the model may call in one answer
  Ids,            \* the numbers call ids are made of
  Messages,       \* user messages
  FirstMessages,  \* those the attempt starts with
  Preset,         \* the session preset and the task's permission spec
  Layers,         \* policy of tenant, task and profile: denied tools and exploration cap
  Exploration,    \* whether the node is the task's exploration node
  Limit,          \* the budget reserved for the attempt: tokens and tool_calls
  MaxRounds,      \* tool rounds of one reply
  MaxVersion,     \* bound: the model only calls tools up to this version of the session
  MaxRuns,        \* RETRY.maximum_attempts
  MaxFaults       \* how often a worker dies, or a stored session cannot be read

ASSUME TurnAssumption ==
  /\ IsFiniteSet(Tools) /\ Batches # {} /\ \A b \in Batches : b # {} /\ b \subseteq Tools
  /\ FirstMessages \subseteq Messages
  /\ \A t \in Tools : Info[t].level = "catastrophic" => Info[t].name = "Bash"   \* only commands are classified so
  /\ {MaxRounds, MaxVersion, MaxFaults} \subseteq Nat /\ MaxRuns \in Nat \ {0}
  /\ Limit \in [tokens : Nat, tool_calls : Nat] /\ \A l \in Layers : l.cap \in Int   \* below 0: the layer has no cap

VARIABLES
  wf,        \* AttemptWorkflow: where its loop is and what the next activity will be given
  act,       \* the running activity, in the memory of one worker
  rows,      \* `checkpoints` of the attempt
  ledger,    \* `idempotency_ledger`, scope side_effect: call id -> row
  events,    \* durable tool.call_finished: call id -> the state it was told with
  beat,      \* details of the last heartbeat the server has
  faults,
  ran,       \* ghost: how often each call was really executed
  allowed,   \* ghost: the calls a person allowed
  spent,     \* ghost: tool calls admitted by the budget over all runs, but those a dead worker had not yet heartbeat
  history    \* ghost: the checkpoints that results in history refer to and were committed

vars == <<wf, act, rows, ledger, events, beat, faults, ran, allowed, spent, history>>
ghosts == <<ran, allowed, spent, history>>

Calls == [v : 1..MaxVersion, r : 1..MaxRounds, n : Ids, tool : Tools]

-----------------------------------------------------------------------------
(* Permissions: the preset's plan, the two permission middlewares and the layers of policy. *)

plan_for(preset) ==
  LET plan(mode, scope, edits, commands, builtin, full, ro) ==
        [mode |-> mode, write_scope |-> scope, auto_edits |-> edits, auto_commands |-> commands,
         auto_builtin |-> builtin, full |-> full, read_only |-> ro]
  IN IF preset.session = "read-only" THEN plan("explore", "none", FALSE, FALSE, FALSE, FALSE, TRUE)
     ELSE IF preset.session = "danger-full-access" \/ preset.spec = "full"
     THEN plan("bypass", "workspace", TRUE, TRUE, TRUE, TRUE, FALSE)
     ELSE IF preset.spec = "request" THEN plan("default", "workspace", FALSE, FALSE, FALSE, FALSE, FALSE)
     ELSE IF preset.spec = "auto" THEN plan("accept_edits", "workspace", TRUE, TRUE, TRUE, FALSE, FALSE)
     ELSE IF preset.spec = "custom"
     THEN plan(IF preset.auto_edits /\ preset.write_scope = "workspace" THEN "accept_edits" ELSE "default",
               preset.write_scope, preset.auto_edits, preset.auto_commands, preset.auto_builtin, FALSE, FALSE)
     ELSE plan("accept_edits", "workspace", TRUE, FALSE, FALSE, FALSE, FALSE)

Plan == plan_for(Preset)

FileTools == {"Write", "Edit"}

deny_rules(plan) == IF plan.write_scope # "none" \/ plan.read_only THEN {} ELSE FileTools

\* What AgentScope's engine answers before the middlewares see it; a call a person allowed comes back as allowed.
EngineDecides(t, confirmed) ==
  IF Info[t].name \in deny_rules(Plan) THEN "deny"
  ELSE IF confirmed \/ Plan.full THEN "allow" ELSE Info[t].own

Bash(t, decision, confirmed) ==
  LET found == Info[t]
      trusted == IF Plan.write_scope = "workspace" THEN {"low", "medium"} ELSE {"low"}
      automatic == (Plan.auto_builtin /\ found.script) \/ (Plan.auto_commands /\ found.level \in trusted)
  IN IF found.level = "catastrophic" THEN "deny"
     ELSE IF decision = "deny" \/ Plan.read_only THEN decision
     ELSE IF Plan.write_scope = "none" /\ found.writes THEN "deny"
     ELSE IF Plan.full THEN IF found.protected /\ ~confirmed THEN "ask" ELSE decision
     ELSE IF decision = "ask" /\ automatic THEN "allow" ELSE decision

File(t, decision, confirmed) ==
  IF decision = "deny" \/ Plan.read_only THEN decision
  ELSE IF Plan.write_scope = "none" THEN "deny"
  ELSE IF Plan.full /\ ~confirmed /\ Info[t].protected THEN "ask" ELSE decision

Permitted(t, confirmed) ==
  LET decision == EngineDecides(t, confirmed)
  IN CASE Info[t].name = "Bash" -> Bash(t, decision, confirmed)
       [] Info[t].name \in FileTools -> File(t, decision, confirmed)
       [] OTHER -> decision

\* Denials add up and the smallest cap wins; DefaultCap where no layer has one.
DefaultCap == 50
ExtensionCalls == 10
merge(layers) ==
  LET caps == {l.cap : l \in {k \in layers : k.cap >= 0}}
  IN [denied |-> UNION {l.denied : l \in layers}, cap |-> IF caps = {} THEN DefaultCap ELSE Min(caps)]

\* The layers of tenant, task and profile: each only tightens the one before.
effective_policy == merge(Layers)

count_side_effects == Cardinality({c \in DOMAIN ledger : Info[c.tool].name # "extend"})
granted_extensions ==
  Cardinality({c \in DOMAIN ledger : Info[c.tool].name = "extend" /\ ledger[c].status = "succeeded"})

ExhaustedPastCap ==
  Exploration /\ count_side_effects > effective_policy.cap + granted_extensions * ExtensionCalls

exploration_exhausted ==
  Exploration /\ count_side_effects >= effective_policy.cap + granted_extensions * ExtensionCalls

AfterExhaustion == {"extend", "TaskCreate", "declare_unplannable", "TodoWrite"}

\* The policy can only turn the answer into a refusal, and tells of it; a refusal of the preset is AgentScope's to tell.
PolicyRefuses(t) ==
  \/ Info[t].name \in effective_policy.denied
  \/ Info[t].name \notin AfterExhaustion /\ exploration_exhausted

-----------------------------------------------------------------------------
(* The budget meter of one activity. *)

NoMeter == [tokens |-> 0, tool_calls |-> 0, refused |-> "none"]

after(budget, usage) ==
  [d \in DOMAIN budget |-> IF budget[d] > usage[d] THEN budget[d] - usage[d] ELSE 0]

\* What the activity is given: what is left of the attempt's reservation.
budget_payload == after(Limit, wf.usage)

usage_add(usage, meter) == [d \in DOMAIN usage |-> usage[d] + meter[d]]

\* The first limit that is reached; tool calls count only when asked.
Spent(meter, tools) ==
  LET limit == budget_payload
  IN IF meter.tokens >= limit.tokens THEN "tokens"
     ELSE IF tools /\ meter.tool_calls >= limit.tool_calls THEN "tool_calls" ELSE "none"

\* The look between two steps: a refused call makes the tool calls count too.
Exceeded(meter) == Spent(meter, meter.refused # "none") # "none"

add_model_call(meter) == [meter EXCEPT !.tokens = @ + 1]

-----------------------------------------------------------------------------
(* The session: a blob per (version, remembered results), the newest is read. *)

\* What a session's blob holds of the conversation: the open calls and (for the properties) the messages in it.
NewSession == [version |-> 1, turns |-> {}, round |-> 0, pending |-> {}, heard |-> {}]

session_seq(blob) == <<blob.version, Cardinality(blob.turns) + 1>>
batch_seq(blob) == <<0, blob.version * (MaxRounds + 1) + blob.round>>
Later(s, t) == s[1] > t[1] \/ (s[1] = t[1] /\ s[2] > t[2])

Newest(S) == CHOOSE r \in S : \A q \in S \ {r} : Later(r.seq, q.seq)
SessionRows == {r \in rows : r.seq[1] > 0}

\* What a run reads back: the session of the newest row.
get == Newest(SessionRows).blob

\* The blob is written if it is not there, the row unless there is one with its seq.
put_checkpoint(seq, blob) ==
  IF \E r \in rows : r.seq = seq
  THEN {IF r.seq = seq THEN [r EXCEPT !.blobThere = TRUE] ELSE r : r \in rows}
  ELSE rows \cup {[seq |-> seq, blob |-> blob, committed |-> FALSE, old |-> FALSE, blobThere |-> TRUE]}

put(blob) == put_checkpoint(session_seq(blob), blob)

remember(blob, key, result) == [blob EXCEPT !.turns = @ \cup {[key |-> key, result |-> result]}]
Remembered(blob, key) == {t.result : t \in {u \in blob.turns : u.key = key}}

close_unfinished_tool_calls(blob) == [blob EXCEPT !.pending = {}]

\* A turn that is cut short keeps its state, whole, as the next version.
keep_interrupted(blob) == [close_unfinished_tool_calls(blob) EXCEPT !.version = @ + 1]

-----------------------------------------------------------------------------
(* The ledger. *)

unknown_side_effects ==
  {c \in DOMAIN ledger : ledger[c].status = "started" /\ ~ledger[c].approved /\ ~Info[c.tool].readOnly}

approve_replay(keys) == [c \in DOMAIN ledger |-> IF c \in keys THEN [ledger[c] EXCEPT !.approved = TRUE] ELSE ledger[c]]

Claimed(c) == [x \in DOMAIN ledger \cup {c} |->
                 IF x = c THEN [status |-> "started", approved |-> FALSE] ELSE ledger[x]]

\* An event with the same seed is the same event: the first one stays.
publish_events(c, state) == [x \in DOMAIN events \cup {c} |-> IF x \in DOMAIN events THEN events[x] ELSE state]

-----------------------------------------------------------------------------
(* The activity. *)

NoResult == [status |-> "none", version |-> 0, retry |-> {}, waits |-> {}]
Failed == [NoResult EXCEPT !.status = "failed"]
Completed(v) == [NoResult EXCEPT !.status = "completed", !.version = v]

\* A turn that needs a person: an approval of some calls comes before any question.
ParkedInput(v, waits) == [NoResult EXCEPT !.status = "parked_input", !.version = v, !.waits = waits]
ParkedApproval(v, asks) == [NoResult EXCEPT !.status = "parked_approval", !.version = v, !.waits = asks]
park_for_retry(unknown) == [ParkedApproval(wf.version, unknown) EXCEPT !.retry = unknown]
Idle == [pc |-> "idle", run |-> 0, version |-> 0, blob |-> NewSession, calls |-> <<>>, meter |-> NoMeter, result |-> NoResult]

Kind == IF wf.external THEN "answer" ELSE IF wf.decision # "none" /\ wf.retry = {} THEN "approval" ELSE "turn"
TurnKey == <<Kind, IF Kind = "approval" THEN wf.version ELSE act.version>>

\* A retry carries on from what the run before it had spent.
RestoredNever == NoMeter
Restored == IF act.run > 1 THEN beat ELSE NoMeter

\* agent_turn begins: the budget of a dead run is carried on, and calls of unknown outcome are a person's to decide.
Enter ==
  /\ act.pc = "enter"
  /\ LET begun == [act EXCEPT !.meter = Restored]
     IN \/ /\ wf.retry # {} /\ wf.decision # "approve"
           /\ act' = [begun EXCEPT !.pc = "report", !.result = Failed]
           /\ UNCHANGED ledger
        \/ /\ wf.retry # {} /\ wf.decision = "approve"
           /\ ledger' = approve_replay(wf.retry)
           /\ act' = [begun EXCEPT !.pc = "open"]
        \/ /\ wf.retry = {} /\ unknown_side_effects # {}
           /\ act' = [begun EXCEPT !.pc = "report", !.result = park_for_retry(unknown_side_effects)]
           /\ UNCHANGED ledger
        \/ /\ wf.retry = {} /\ unknown_side_effects = {}
           /\ act' = [begun EXCEPT !.pc = "open"]
           /\ UNCHANGED ledger
  /\ UNCHANGED <<wf, rows, events, beat, faults, ghosts>>

\* open_session, for an activity that was given no session: one that an earlier run opened is found again.
Open ==
  /\ act.pc = "open"
  /\ LET existing == IF wf.session THEN wf.version
                     ELSE IF SessionRows # {} THEN get.version ELSE 1
     IN act' = [act EXCEPT !.pc = "dispatch", !.version = existing]
  /\ rows' = IF wf.session \/ SessionRows # {} THEN rows ELSE put(NewSession)
  /\ UNCHANGED <<wf, ledger, events, beat, faults, ghosts>>

ConfirmAll(blob) == [c \in blob.pending |-> "confirmed"]

\* The calls of a parked session that a confirmation lets run; the others are refused in the transcript.
Confirm(blob) == [c \in blob.pending |-> IF c \in wf.approved THEN "confirmed" ELSE "done"]

\* What each way in refuses, and the session it drives.  An approval is resolved on whatever version is stored, and hears
\* no message.  What AgentScope does with a message while a call waits is open: it may refuse, or take it up.
turn_prompt == wf.delivered
run_turn(blob) ==
  [refuses |-> blob.version # act.version, busy |-> blob.pending # {},
   session |-> [blob EXCEPT !.pending = {}, !.heard = @ \cup turn_prompt, !.round = 0]]
\* The answer is to a question the session waits with.
external_result(blob) == \E c \in blob.pending : Info[c.tool].name = "ask_user"
deliver_tool_result(blob) ==
  [refuses |-> blob.version # act.version \/ ~external_result(blob), busy |-> FALSE,
   session |-> [blob EXCEPT !.pending = {}, !.heard = @ \cup wf.delivered]]
resolve_approval(blob) ==
  [refuses |-> blob.pending = {}, busy |-> FALSE, session |-> [blob EXCEPT !.pending = {}]]
Driven(blob) ==
  CASE Kind = "approval" -> resolve_approval(blob) [] Kind = "answer" -> deliver_tool_result(blob) [] OTHER -> run_turn(blob)

\* run_turn, resolve_approval and deliver_tool_result up to the point where the agent is driven.
Dispatch ==
  /\ act.pc = "dispatch" /\ SessionRows # {}
  /\ LET blob == get
         known == Remembered(blob, TurnKey)
         way == Driven(blob)
     IN \/ \E result \in known : act' = [act EXCEPT !.pc = "report", !.result = result]
        \/ /\ known = {} /\ (way.refuses \/ way.busy)
           /\ act' = [act EXCEPT !.pc = "raised"]
        \/ /\ known = {} /\ ~way.refuses
           /\ act' = [act EXCEPT !.pc = "drive", !.blob = way.session,
                                 !.calls = IF Kind = "approval" THEN Confirm(blob) ELSE <<>>]
  /\ UNCHANGED <<wf, rows, ledger, events, beat, faults, ghosts>>

\* A stored session that does not decrypt or parse ends the turn for good, and nothing is written.
Unreadable ==
  /\ act.pc = "dispatch" /\ faults < MaxFaults
  /\ faults' = faults + 1
  /\ act' = [act EXCEPT !.pc = "report", !.result = Failed]
  /\ UNCHANGED <<wf, rows, ledger, events, beat, ghosts>>

\* on_reasoning: the one place between two steps where the state is whole.  A reached limit ends the turn; its state is
\* kept, in a row of its own, before the result is remembered.
BudgetStop ==
  /\ act.pc = "drive" /\ \A c \in DOMAIN act.calls : act.calls[c] = "done"
  /\ Exceeded(act.meter)
  /\ LET kept == keep_interrupted(act.blob)
     IN /\ act' = [act EXCEPT !.pc = "put", !.blob = kept, !.calls = <<>>, !.result = Failed]
        /\ rows' = put(kept)
  /\ UNCHANGED <<wf, ledger, events, beat, faults, ghosts>>

\* The model answers with a batch of calls, under ids it used before or new ones (which ones makes no difference).
Ask ==
  /\ act.pc = "drive" /\ \A c \in DOMAIN act.calls : act.calls[c] = "done"
  /\ ~Exceeded(act.meter)
  /\ act.blob.round < MaxRounds /\ act.blob.version <= MaxVersion
  /\ \E batch \in Batches, n \in Ids :
       LET round == act.blob.round + 1
       IN /\ n > 1 => \E c \in DOMAIN ledger : c.v = act.blob.version /\ c.r = round /\ c.n = n - 1
          /\ act' = [act EXCEPT !.blob.round = round, !.meter = add_model_call(@),
                                !.calls = [c \in {[v |-> act.blob.version, r |-> round, n |-> n, tool |-> t] : t \in batch} |-> "new"]]
  /\ UNCHANGED <<wf, rows, ledger, events, beat, faults, ghosts>>

\* The model ends its reply.
Reply ==
  /\ act.pc = "drive" /\ \A c \in DOMAIN act.calls : act.calls[c] = "done"
  /\ ~Exceeded(act.meter)
  /\ act' = [act EXCEPT !.pc = "put", !.blob.version = @ + 1, !.calls = <<>>, !.meter = add_model_call(@),
                        !.result = Completed(act.blob.version + 1)]
  /\ UNCHANGED <<wf, rows, ledger, events, beat, faults, ghosts>>

\* A model that does not answer: the half-finished state is dropped, the version stays, the failure is remembered.
ModelFails ==
  /\ act.pc = "drive" /\ \A c \in DOMAIN act.calls : act.calls[c] = "done"
  /\ ~Exceeded(act.meter)
  /\ act' = [act EXCEPT !.pc = "put", !.blob = get, !.calls = <<>>, !.result = Failed]
  /\ UNCHANGED <<wf, rows, ledger, events, beat, faults, ghosts>>

\* Every call of the batch has a result or waits for a person: the turn parks.
Park ==
  /\ act.pc = "drive"
  /\ LET waits == {c \in DOMAIN act.calls : act.calls[c] = "asking"}
         asks == {c \in waits : Info[c.tool].name # "ask_user"}
     IN /\ waits # {} /\ \A c \in DOMAIN act.calls \ waits : act.calls[c] = "done"
        /\ act' = [act EXCEPT !.pc = "put", !.blob.version = @ + 1, !.blob.pending = waits, !.calls = <<>>,
                     !.result = IF asks # {} THEN ParkedApproval(act.blob.version + 1, asks)
                                ELSE ParkedInput(act.blob.version + 1, waits)]
  /\ UNCHANGED <<wf, rows, ledger, events, beat, faults, ghosts>>

\* on_check_permission of one call.
Check(c) ==
  /\ act.pc = "drive" /\ c \in DOMAIN act.calls /\ act.calls[c] \in {"new", "confirmed"}
  /\ LET decision == Permitted(c.tool, act.calls[c] = "confirmed")
         refused == decision # "deny" /\ PolicyRefuses(c.tool)
     IN /\ act' = [act EXCEPT !.calls[c] = IF decision = "deny" \/ refused THEN "done"
                                           ELSE IF decision = "ask" THEN "asking" ELSE "allowed"]
        /\ events' = IF refused THEN publish_events(c, "denied") ELSE events
  /\ UNCHANGED <<wf, rows, ledger, beat, faults, ghosts>>

ClaimsAnew(c) ==
  IF c \in DOMAIN ledger /\ ledger[c].status = "started" /\ ~Info[c.tool].readOnly /\ ~ledger[c].approved THEN "refused" ELSE "run"

\* What claim_ledger's answer means for the call: run it, give back what is recorded, or refuse it.
Claims(c) ==
  IF c \notin DOMAIN ledger THEN "run"
  ELSE IF ledger[c].status # "started" THEN ledger[c].status
  ELSE IF Info[c.tool].readOnly \/ ledger[c].approved THEN "run" ELSE "refused"

\* Checked and counted before anything is awaited.
ReachedAhead == Spent([act.meter EXCEPT !.tool_calls = @ + 1], TRUE)
Reached == Spent(act.meter, TRUE)

\* on_acting of the policy: one checkpoint per batch, the first call takes it.
policy_on_acting == put_checkpoint(batch_seq(act.blob), NewSession)

\* on_acting of the ledger, up to the call: it is claimed, and one that is not to run ends with what is told of it.
ledger_on_acting(c) ==
  LET claim == Claims(c)
  IN [ledger |-> IF c \in DOMAIN ledger THEN ledger ELSE Claimed(c),
      events |-> IF claim = "run" THEN events ELSE publish_events(c, claim),
      phase |-> IF claim = "run" THEN "running" ELSE "done"]

\* on_acting of the budget, which is around the others: a call it refuses is neither checkpointed nor claimed.
Claim(c) ==
  /\ act.pc = "drive" /\ c \in DOMAIN act.calls /\ act.calls[c] = "allowed"
  /\ \/ /\ Reached # "none"
        /\ act' = [act EXCEPT !.calls[c] = "done", !.meter.refused = IF @ = "none" THEN Reached ELSE @]
        /\ UNCHANGED <<rows, ledger, events, spent>>
     \/ /\ Reached = "none"
        /\ spent' = spent + 1
        /\ rows' = policy_on_acting
        /\ ledger' = ledger_on_acting(c).ledger
        /\ events' = ledger_on_acting(c).events
        /\ act' = [act EXCEPT !.calls[c] = ledger_on_acting(c).phase, !.meter.tool_calls = @ + 1]
  /\ UNCHANGED <<wf, beat, faults, ran, allowed, history>>

\* The tool itself runs; it may fail.
Execute(c) ==
  /\ act.pc = "drive" /\ c \in DOMAIN act.calls /\ act.calls[c] = "running"
  /\ \E outcome \in {"succeeded", "failed_permanent"} :
       /\ outcome = "failed_permanent" => Info[c.tool].fails
       /\ act' = [act EXCEPT !.calls[c] = outcome]
  /\ ran' = [x \in DOMAIN ran \cup {c} |-> (IF x \in DOMAIN ran THEN ran[x] ELSE 0) + (IF x = c THEN 1 ELSE 0)]
  /\ UNCHANGED <<wf, rows, ledger, events, beat, faults, allowed, spent, history>>

\* _finished, then finish_ledger: the event is told before the outcome is recorded.
Finished(c) ==
  /\ act.pc = "drive" /\ c \in DOMAIN act.calls /\ act.calls[c] \in {"succeeded", "failed_permanent"}
  /\ c \notin DOMAIN events
  /\ events' = publish_events(c, act.calls[c])
  /\ UNCHANGED <<wf, act, rows, ledger, beat, faults, ghosts>>

finish_ledger(c, status) == [ledger EXCEPT ![c].status = status]

FinishLedgerFirst(c) ==
  /\ act.pc = "drive" /\ c \in DOMAIN act.calls /\ act.calls[c] \in {"succeeded", "failed_permanent"}
  /\ ledger' = finish_ledger(c, act.calls[c])
  /\ act' = [act EXCEPT !.calls[c] = "done"]
  /\ UNCHANGED <<wf, rows, events, beat, faults, ghosts>>

FinishLedger(c) ==
  /\ act.pc = "drive" /\ c \in DOMAIN act.calls /\ act.calls[c] \in {"succeeded", "failed_permanent"}
  /\ c \in DOMAIN events
  /\ ledger' = finish_ledger(c, act.calls[c])
  /\ act' = [act EXCEPT !.calls[c] = "done"]
  /\ UNCHANGED <<wf, rows, events, beat, faults, ghosts>>

PutUnanswered ==
  /\ act.pc = "put"
  /\ rows' = put(remember(act.blob, TurnKey, act.result))
  /\ UNCHANGED <<wf, act, ledger, events, beat, faults, ghosts>>

\* The turn's result is remembered in the session, and the session stored.
Put ==
  /\ act.pc = "put"
  /\ rows' = put(remember(act.blob, TurnKey, act.result))
  /\ act' = [act EXCEPT !.pc = "report"]
  /\ UNCHANGED <<wf, ledger, events, beat, faults, ghosts>>

-----------------------------------------------------------------------------
(* AttemptWorkflow around it. *)

Fresh == [pc |-> "ready", session |-> FALSE, version |-> 0, decision |-> "none", approved |-> {}, retry |-> {},
          external |-> FALSE, waits |-> {}, messages |-> {}, delivered |-> {}, sent |-> {}, returned |-> {},
          usage |-> [tokens |-> 0, tool_calls |-> 0], outcome |-> "none"]

\* What a run that continues as new hands to the next: not what it awaited, nor how many messages were in flight.
carry == [f \in DOMAIN wf \ {"pc", "waits", "delivered"} |-> wf[f]]
restore(kept) == [f \in DOMAIN Fresh |-> IF f \in DOMAIN kept THEN kept[f] ELSE Fresh[f]]

\* One round of the loop: the activity is scheduled with everything the attempt holds, in this run of the workflow or, once
\* an activity has run, in the next.
Schedule ==
  /\ wf.pc = "ready"
  /\ \E w \in {wf} \cup (IF wf.session THEN {restore(carry)} ELSE {}) :
       wf' = [w EXCEPT !.pc = "running", !.delivered = w.messages]
  /\ act' = [Idle EXCEPT !.pc = "enter", !.run = 1]
  /\ UNCHANGED <<rows, ledger, events, beat, faults, ghosts>>

\* The end of the attempt, with the messages that go back to the task.
Over(outcome, back) == [Fresh EXCEPT !.pc = "done", !.outcome = outcome, !.returned = back, !.sent = wf.sent]

\* commit_checkpoints: the newest row of the attempt, which is also the one the result names.
commit_checkpoints ==
  IF SessionRows = {} THEN rows
  ELSE (rows \ {Newest(rows)}) \cup {[Newest(rows) EXCEPT !.committed = TRUE]}

\* The result is in history, so its checkpoints are committed; a commit that fails is only logged.
Commits ==
  \/ /\ rows' = commit_checkpoints
     /\ history' = IF SessionRows # {} THEN history \cup {Newest(rows).seq} ELSE history
     /\ UNCHANGED faults
  \/ /\ faults < MaxFaults
     /\ faults' = faults + 1
     /\ UNCHANGED <<rows, history>>

\* The result is in history: its checkpoints are committed, its usage counted, and the attempt parks or ends.
Report ==
  /\ act.pc = "report"
  /\ Commits
  /\ LET result == act.result
         failed == result.status = "failed"
         left == IF failed THEN wf.messages ELSE wf.messages \ wf.delivered
         next == [wf EXCEPT !.session = @ \/ result.version > 0, !.version = IF failed THEN @ ELSE result.version,
                            !.decision = "none", !.approved = {}, !.external = result.status = "parked_input",
                            !.retry = result.retry, !.waits = result.waits, !.messages = left, !.delivered = {},
                            !.usage = usage_add(@, act.meter),
                            !.pc = IF result.status = "parked_approval" THEN "approval" ELSE "input"]
     IN wf' = IF result.status \in {"failed", "completed"} THEN Over(result.status, left) ELSE next
  /\ act' = Idle /\ beat' = NoMeter
  /\ UNCHANGED <<ledger, events, ran, allowed, spent>>

\* One answer for each call, and whether all of them allow.
approval_payload(yes) == IF yes = wf.waits THEN "approve" ELSE "reject"

\* Every parked call gets its own decision.
approval_decided ==
  /\ wf.pc = "approval"
  /\ \E yes \in SUBSET wf.waits :
       /\ wf' = [wf EXCEPT !.pc = "ready", !.approved = yes, !.waits = {},
                           !.decision = approval_payload(yes)]
       /\ allowed' = IF wf.retry = {} THEN allowed \cup yes ELSE allowed
  /\ UNCHANGED <<act, rows, ledger, events, beat, faults, ran, spent, history>>

\* An attempt parked on a question goes on with the next message it has.
Answered ==
  /\ wf.pc = "input" /\ wf.messages # {}
  /\ wf' = [wf EXCEPT !.pc = "ready", !.waits = {}]
  /\ UNCHANGED <<act, rows, ledger, events, beat, faults, ghosts>>

deliver_messages(m) ==
  /\ wf.pc # "done" /\ m \notin wf.sent
  /\ wf' = [wf EXCEPT !.sent = @ \cup {m}, !.messages = @ \cup {m}]
  /\ UNCHANGED <<act, rows, ledger, events, beat, faults, ghosts>>

\* A turn that is cut short is kept only if the workflow asked for it: one that a shutdown or a timeout cancels is run again, from
\* the version it was given.
kept_if_cancelled(by_workflow) == IF by_workflow /\ act.pc = "drive" THEN put(keep_interrupted(act.blob)) ELSE rows

\* The task cancels the attempt.  A turn that the cancel finds driving keeps its state, with every open call closed; a
\* call that runs stays `started`.  Only messages that came after the turn began go back.
Cancel ==
  /\ wf.pc \in {"running", "approval", "input"}
  /\ wf' = Over("cancelled", wf.messages \ wf.delivered)
  /\ act' = Idle /\ beat' = NoMeter
  /\ rows' = kept_if_cancelled(TRUE)
  /\ UNCHANGED <<ledger, events, faults, ghosts>>

-----------------------------------------------------------------------------
(* Faults and retries. *)

RetriedOnceMore ==
  IF act.run <= MaxRuns
  THEN act' = [Idle EXCEPT !.pc = "enter", !.run = act.run + 1] /\ UNCHANGED wf
  ELSE act' = Idle /\ wf' = Over("failed", wf.messages)

\* Temporal runs the activity again with the same payload, or gives it up: the attempt is then lost.
Retried ==
  IF act.run < MaxRuns
  THEN act' = [Idle EXCEPT !.pc = "enter", !.run = act.run + 1] /\ UNCHANGED wf
  ELSE act' = Idle /\ wf' = Over("failed", wf.messages)

\* An exception leaves the activity (its last heartbeat says what it spent).
Raise ==
  /\ act.pc = "raised"
  /\ Retried
  /\ beat' = act.meter
  /\ UNCHANGED <<rows, ledger, events, faults, ghosts>>

\* What the server may have of a meter when its worker dies: heartbeats are throttled, so any snapshot since the run began.
Heartbeats ==
  {act.meter, beat} \cup {[act.meter EXCEPT !.tool_calls = n, !.refused = "none"] : n \in beat.tool_calls..act.meter.tool_calls - 1}

\* The worker dies, or is shut down: what it had in memory and had not heartbeat is gone.
Crash ==
  /\ act.pc # "idle" /\ faults < MaxFaults
  /\ faults' = faults + 1
  /\ Retried
  /\ \E last \in IF act.pc = "enter" THEN {beat} ELSE Heartbeats :
       /\ beat' = last
       /\ spent' = spent - (IF act.pc = "enter" THEN 0 ELSE act.meter.tool_calls - last.tool_calls)
  /\ rows' = kept_if_cancelled(FALSE)
  /\ UNCHANGED <<ledger, events, ran, allowed, history>>

-----------------------------------------------------------------------------
(* Maintenance: checkpoints that nothing can resume from. *)

\* A day passes: longer than any activity runs.
Age ==
  /\ wf.pc \in {"approval", "input", "done"} /\ \E r \in rows : ~r.old
  /\ rows' = {[r EXCEPT !.old = TRUE] : r \in rows}
  /\ UNCHANGED <<wf, act, ledger, events, beat, faults, ghosts>>

GarbageNewestToo == {r \in rows : r.old /\ ~r.committed}
GarbageCommittedToo == {r \in rows : r.old /\ r # Newest(rows)}

\* Over a day old, never committed, and not the newest of its attempt.
Garbage == {r \in rows : r.old /\ ~r.committed /\ r # Newest(rows)}

gc_checkpoints ==
  /\ Garbage # {}
  /\ rows' = rows \ Garbage
  /\ UNCHANGED <<wf, act, ledger, events, beat, faults, ghosts>>

\* The blobs are removed before the transaction commits: a collector that dies there leaves rows without a blob.
GcCrashes ==
  /\ Garbage # {} /\ faults < MaxFaults
  /\ faults' = faults + 1
  /\ rows' = {IF r \in Garbage THEN [r EXCEPT !.blobThere = FALSE] ELSE r : r \in rows}
  /\ UNCHANGED <<wf, act, ledger, events, beat, ghosts>>

-----------------------------------------------------------------------------
Init ==
  /\ wf = [Fresh EXCEPT !.messages = FirstMessages, !.sent = FirstMessages]
  /\ act = Idle /\ rows = {} /\ ledger = <<>> /\ events = <<>> /\ beat = NoMeter
  /\ faults = 0
  /\ ran = <<>> /\ allowed = {} /\ spent = 0 /\ history = {}

\* A call passes the middlewares of the agent: permission and policy, then budget, policy and ledger around the tool.
CallStep == \E c \in DOMAIN act.calls : Check(c) \/ Claim(c) \/ Execute(c) \/ Finished(c) \/ FinishLedger(c)

ActivityStep ==
  \/ Enter \/ Open \/ Dispatch \/ BudgetStop \/ Ask \/ Reply \/ ModelFails \/ Park \/ CallStep \/ Put \/ Report \/ Raise

Next ==
  \/ ActivityStep \/ Unreadable
  \/ Schedule \/ approval_decided \/ Answered \/ Cancel \/ (\E m \in Messages : deliver_messages(m))
  \/ Crash
  \/ Age \/ gc_checkpoints \/ GcCrashes

\* Workers pick up and run what is scheduled; nothing is assumed of people, of the task or of maintenance.
Fairness == WF_vars(ActivityStep) /\ WF_vars(Schedule) /\ WF_vars(Answered)

Spec == Init /\ [][Next]_vars /\ Fairness

-----------------------------------------------------------------------------
Phases == {"new", "confirmed", "allowed", "asking", "running", "succeeded", "failed_permanent", "done"}

\* The variables keep their types; a started activity has a run number RETRY allows.
TypeOK ==
  /\ wf.pc \in {"ready", "running", "approval", "input", "done"} /\ wf.version \in Nat
  /\ wf.messages \cup wf.delivered \cup wf.returned \subseteq wf.sent /\ wf.sent \subseteq Messages
  /\ act.pc \in {"idle", "enter", "open", "dispatch", "drive", "put", "report", "raised"} /\ act.run \in 0..MaxRuns
  /\ (act.pc = "idle") = (wf.pc # "running")
  /\ DOMAIN act.calls \subseteq Calls /\ \A c \in DOMAIN act.calls : act.calls[c] \in Phases
  /\ \A r \in rows : r.seq[1] = 0 \/ r.seq = session_seq(r.blob)
  /\ DOMAIN ledger \subseteq Calls /\ DOMAIN ran \subseteq DOMAIN ledger
  /\ faults \in 0..MaxFaults

\* A call that is not just a read runs at most once under its id, over every retry of the activity, unless a person
\* approved running it again (ledger_middleware.on_acting, unknown_side_effects).
AtMostOnce ==
  \A c \in DOMAIN ran : Info[c.tool].readOnly \/ ledger[c].approved \/ ran[c] <= 1

\* No call runs that a layer of policy denies, and one that the preset asks about runs only if a person allowed that very
\* call: the decision is taken per call, survives the park in the session, and is not given to its neighbours.
OnlySanctioned ==
  \A c \in DOMAIN ledger :
    /\ \A l \in Layers : Info[c.tool].name \notin l.denied
    /\ Info[c.tool].level # "catastrophic"
    /\ Permitted(c.tool, FALSE) = "ask" => c \in allowed

\* The cap of the exploration node is checked before a call and counted when it is claimed, so a batch may overshoot it,
\* by all its calls but one and no more, however often the activity is retried (exploration_exhausted).  The tools that may
\* still be called then are counted too, but nothing bounds them.
ExplorationBounded ==
  Exploration =>
    Cardinality({c \in DOMAIN ledger : Info[c.tool].name \notin AfterExhaustion})
      <= effective_policy.cap + granted_extensions * ExtensionCalls + Max({Cardinality(b) : b \in Batches}) - 1

\* Over all turns and retries the attempt makes no more tool calls than were reserved for it, but for those a dead worker
\* had not heartbeat (BudgetMeter.restore, budgets.after).
SpendBounded == spent <= Limit.tool_calls

\* A limit a call was refused for stays reached until the turn ends, so on_reasoning never gets to its second raise (which
\* reads an attribute BudgetMeter does not have).
RefusedStaysReached ==
  act.pc \in {"drive", "put"} /\ act.meter.refused # "none" => Spent(act.meter, TRUE) # "none"

\* A recorded outcome was told before, and told as it is recorded, unless the call was approved to run again.
OutcomeTold ==
  \A c \in DOMAIN ledger : ledger[c].status # "started" =>
    c \in DOMAIN events /\ (ledger[c].approved \/ events[c] = ledger[c].status)

\* An attempt that is parked on calls can be resumed: the newest stored session is the one its result named, those calls
\* are waiting in it, and its blob is there, whatever runs died and whatever was collected.
ResumeFindsIt ==
  wf.pc \in {"approval", "input"} /\ wf.retry = {} =>
    \E r \in SessionRows :
      /\ \A q \in SessionRows \ {r} : Later(r.seq, q.seq)
      /\ r.blob.version = wf.version /\ wf.waits \subseteq r.blob.pending /\ r.blobThere

\* A checkpoint that history refers to and that was committed is never collected (commit_checkpoints, _gc_checkpoints).
HistoryKept == \A s \in history : \E r \in rows : r.seq = s /\ r.blobThere

\* An activity that is scheduled ends, with a result or by giving up, whatever it finds in the store.
TurnEnds == (wf.pc = "running") ~> (wf.pc # "running")

\* When the attempt has completed, every message it was handed is in the session it leaves behind, or goes back to the task
\* (AttemptWorkflow._notify_parent_finished).
HeardOrReturned ==
  wf.outcome = "completed" => wf.sent \subseteq wf.returned \cup Newest(SessionRows).blob.heard
=============================================================================
