-------------------------- MODULE AgentCallProofs --------------------------
(***************************************************************************)
(* What the calls of an attempt may do, for every set of tools, batches    *)
(* and ids, every preset and policy and every budget.                      *)
(*                                                                         *)
(* On top of Sound (module AgentTurnProofs), and independent of each       *)
(* other: Claimant (the ledger knows of every call under way), Sanction    *)
(* (who allowed it), Metered with Refusing (what the meter and the last    *)
(* heartbeat have to do with what was really spent), Explored with Small   *)
(* (how many calls are claimed or may be), and Telling (what is told of a  *)
(* call while its outcome is not yet recorded).                            *)
(***************************************************************************)
EXTENDS AgentTurnProofs

\* The provers' time for a leaf, in seconds.
USE ZenonT(3), SMTT(30), ZenonT(60)

-----------------------------------------------------------------------------
(* The invariants. *)

\* A call that is under way was claimed, and has not run before unless it may.
Claimant ==
    /\ DOMAIN ran \subseteq DOMAIN ledger
    /\ \A c \in DOMAIN act.calls :
          /\ act.calls[c] \in {"running", "succeeded", "failed_permanent"} => c \in DOMAIN ledger
          /\ act.calls[c] = "running" => Info[c.tool].readOnly \/ ledger[c].approved \/ c \notin DOMAIN ran
    /\ AtMostOnce

\* What OnlySanctioned asks of one call.
Sanctioned(c) ==
    /\ \A l \in Layers : Info[c.tool].name \notin l.denied
    /\ Info[c.tool].level # "catastrophic"
    /\ Permitted(c.tool, FALSE) = "ask" => c \in allowed

\* A call that the middlewares let pass is sanctioned; one that comes back confirmed was allowed.
Sanction ==
    /\ OnlySanctioned
    /\ \A c \in DOMAIN act.calls :
          /\ act.calls[c] = "allowed" => Sanctioned(c)
          /\ act.calls[c] = "confirmed" => c \in allowed
    /\ wf.retry = {} => wf.approved \subseteq allowed

\* The tool calls of the activity at work, over its runs.
Now == CASE act.pc = "idle" -> 0 [] act.pc = "enter" -> beat.tool_calls [] OTHER -> act.meter.tool_calls

\* What was spent is in the usage of the attempt or on the meter of the activity, and a run that begins again knows from the
\* last heartbeat what the run before it was known to have spent.
Metered ==
    /\ SpendBounded
    /\ wf.pc # "done" =>
          /\ act.pc = "idle" \/ (act.pc = "enter" /\ act.run = 1) => beat = NoMeter
          /\ act.pc \notin {"idle", "enter"} => beat.tool_calls <= act.meter.tool_calls
          /\ spent <= wf.usage.tool_calls + Now

\* A meter that notes a refusal has reached a limit, the one a retry is given too.
Refusing ==
    /\ act.pc \notin {"idle", "enter"} /\ act.meter.refused # "none" => Spent(act.meter, TRUE) # "none"
    /\ wf.pc = "running" /\ beat.refused # "none" => Spent(beat, TRUE) # "none"

-----------------------------------------------------------------------------
(* The ledger: AtMostOnce. *)

Active == {"running", "succeeded", "failed_permanent"}

\* The ledger forgets no call and no approval.
Keeps == /\ DOMAIN ledger \subseteq DOMAIN ledger'
         /\ \A c \in DOMAIN ledger : ledger[c].approved => ledger'[c].approved

MayRun(c) == Info[c.tool].readOnly \/ ledger[c].approved \/ c \notin DOMAIN ran

\* A step that runs no call, and takes up only calls that are claimed and may run.
LEMMA ClaimantStep ==
    ASSUME Claimant, UNCHANGED ran, Keeps,
           \A c \in DOMAIN act'.calls :
              \/ c \in DOMAIN act.calls /\ act'.calls[c] = act.calls[c]
              \/ act'.calls[c] \notin Active
              \/ c \in DOMAIN ledger' /\ (act'.calls[c] = "running" => MayRun(c)')
    PROVE  Claimant'
<1>1. DOMAIN ran' \subseteq DOMAIN ledger'
  BY DEF Claimant, Keeps
<1>2. AtMostOnce'
  BY DEF Claimant, Keeps, AtMostOnce
<1>3. ASSUME NEW c \in DOMAIN act'.calls
      PROVE  /\ act'.calls[c] \in Active => c \in DOMAIN ledger'
             /\ act'.calls[c] = "running" => MayRun(c)'
  BY <1>3 DEF Claimant, Keeps, Active, MayRun
<1> QED BY <1>1, <1>2, <1>3, ZenonT(60) DEF Claimant, Active, MayRun

\* What one step of a call does to the calls and the ledger.
LEMMA CallEffect ==
    ASSUME Typed, Stored, NEW c \in DOMAIN act.calls, Check(c) \/ Claim(c) \/ Finished(c) \/ FinishLedger(c)
    PROVE  /\ UNCHANGED ran /\ Keeps
           /\ \A d \in DOMAIN ledger' : d \in DOMAIN ledger \/ (d = c /\ act.calls[c] = "allowed")
           /\ DOMAIN act'.calls = DOMAIN act.calls /\ \A d \in DOMAIN act.calls \ {c} : act'.calls[d] = act.calls[d]
<1>0. DOMAIN act'.calls = DOMAIN act.calls /\ \A d \in DOMAIN act.calls \ {c} : act'.calls[d] = act.calls[d]
  BY CallTyped, ZenonT(60)
<1>1. c \in Calls /\ ledger \in [DOMAIN ledger -> LedgerRow]
  BY ActFields, TableParts DEF Typed
<1>2. CASE Check(c) \/ Finished(c)
  BY <1>0, <1>2 DEF Check, Finished, ghosts, Keeps
<1>3. CASE Claim(c)
  <2>1. ledger' = ledger \/ (ledger' = Claimed(c) /\ c \notin DOMAIN ledger)
    BY <1>3 DEF Claim, ledger_on_acting
  <2>2. Keeps /\ \A d \in DOMAIN ledger' : d \in DOMAIN ledger \/ d = c
    BY <2>1 DEF Keeps, Claimed
  <2> QED BY <1>0, <1>3, <2>2 DEF Claim
<1>4. CASE FinishLedger(c)
  <2>1. ledger' = finish_ledger(c, act.calls[c]) /\ UNCHANGED ran
    BY <1>4 DEF FinishLedger, ghosts
  <2>2. Keeps /\ DOMAIN ledger' = DOMAIN ledger
    BY <1>1, <2>1 DEF Keeps, finish_ledger, LedgerRow
  <2> QED BY <1>0, <2>1, <2>2
<1> QED BY <1>2, <1>3, <1>4

\* What the other steps of the activity do to them.
LEMMA OtherEffect ==
    ASSUME Sound, Within, ~CallStep
    PROVE  /\ UNCHANGED ran /\ Keeps /\ DOMAIN ledger' = DOMAIN ledger
           /\ \A c \in DOMAIN act'.calls :
                 \/ c \in DOMAIN act.calls /\ act'.calls[c] = act.calls[c]
                 \/ act'.calls[c] \in {"new", "done"}
                 \/ act'.calls[c] = "confirmed" /\ c \in wf.approved /\ wf.retry = {}
<1>0. act \in Activity /\ ledger \in [DOMAIN ledger -> LedgerRow] /\ <<>> \in [{} -> Phases]
  BY TableParts DEF Sound, Typed
<1>1. CASE Enter
  <2>1. act'.calls = act.calls /\ UNCHANGED ran
    BY <1>0, <1>1, ZenonT(60) DEF Enter, ghosts, Activity
  <2>2. ledger' = ledger \/ ledger' = approve_replay(wf.retry)
    BY <1>1 DEF Enter
  <2>3. Keeps /\ DOMAIN ledger' = DOMAIN ledger
    BY <1>0, <2>2 DEF Keeps, approve_replay, LedgerRow
  <2> QED BY <2>1, <2>3
<1>2. CASE Open \/ Unreadable \/ Put
  BY <1>0, <1>2, ZenonT(60) DEF Open, Unreadable, Put, ghosts, Activity, Keeps
<1>3. CASE Dispatch
  <2>1. \/ act'.calls = act.calls
        \/ act'.calls = <<>>
        \/ act'.calls = Confirm(get) /\ Kind = "approval"
    BY <1>0, <1>3, ZenonT(60) DEF Dispatch, Activity
  <2>2. UNCHANGED <<ledger, ran>>
    BY <1>3, ZenonT(60) DEF Dispatch, ghosts
  <2>3. Kind = "approval" => wf.retry = {}
    BY DEF Kind
  <2>4. \A c \in DOMAIN Confirm(get) : Confirm(get)[c] = "done" \/ (Confirm(get)[c] = "confirmed" /\ c \in wf.approved)
    BY DEF Confirm
  <2>5. DOMAIN <<>> = {}
    OBVIOUS
  <2> QED BY <2>1, <2>2, <2>3, <2>4, <2>5 DEF Keeps
<1>4. CASE BudgetStop \/ Reply \/ ModelFails \/ Park
  <2>1. act'.calls = <<>> /\ UNCHANGED <<ledger, ran>>
    BY <1>0, <1>4, ZenonT(60) DEF BudgetStop, Reply, ModelFails, Park, ghosts, Activity
  <2>2. DOMAIN <<>> = {}
    OBVIOUS
  <2> QED BY <2>1, <2>2 DEF Keeps
<1>5. CASE Ask
  <2>1. UNCHANGED <<ledger, ran>>
    BY <1>5 DEF Ask, ghosts
  <2>2. PICK batch \in Batches, n \in Ids : act'.calls = [c \in Batch(batch, n) |-> "new"]
    BY <1>0, <1>5 DEF Ask, Batch, Activity
  <2> QED BY <2>1, <2>2 DEF Keeps
<1> QED BY <1>1, <1>2, <1>3, <1>4, <1>5 DEF Within

\* The ledger keeps a call that has run, or whose worker died in it, from being run again.
LEMMA ClaimantNext ==
    ASSUME Sound, Claimant, Next
    PROVE  Claimant'
<1>1. CASE Around \/ (Age \/ gc_checkpoints \/ GcCrashes)
  <2>1. UNCHANGED <<ledger, ran>> /\ (UNCHANGED act \/ act'.calls = <<>>)
    BY <1>1, AroundSound, CareSound
  <2>2. DOMAIN <<>> = {}
    OBVIOUS
  <2> QED BY <2>1, <2>2, ClaimantStep DEF Keeps
<1>2. CASE Within /\ ~CallStep
  <2>1. /\ UNCHANGED ran /\ Keeps
        /\ \A c \in DOMAIN act'.calls : \/ c \in DOMAIN act.calls /\ act'.calls[c] = act.calls[c]
                                        \/ act'.calls[c] \in {"new", "done", "confirmed"}
    BY <1>2, OtherEffect
  <2> QED BY <2>1, ClaimantStep DEF Active
<1>3. CASE CallStep
  <2>0. PICK c \in DOMAIN act.calls : Check(c) \/ Claim(c) \/ Execute(c) \/ Finished(c) \/ FinishLedger(c)
    BY <1>3 DEF CallStep
  <2>a. /\ act \in Activity /\ act.calls \in [DOMAIN act.calls -> Phases] /\ ledger \in [DOMAIN ledger -> LedgerRow]
        /\ ran \in [DOMAIN ran -> Nat]
    BY ActFields, TableParts DEF Sound, Typed
  <2>1. CASE Check(c) \/ Claim(c) \/ Finished(c) \/ FinishLedger(c)
    <3>1. /\ UNCHANGED ran /\ Keeps
          /\ DOMAIN act'.calls = DOMAIN act.calls /\ \A d \in DOMAIN act.calls \ {c} : act'.calls[d] = act.calls[d]
      BY <2>1, CallEffect DEF Sound
    <3>2. \/ act'.calls[c] = act.calls[c]
          \/ act'.calls[c] \notin Active
          \/ c \in DOMAIN ledger' /\ (act'.calls[c] = "running" => MayRun(c)')
      <4>1. CASE Check(c)
        BY <2>a, <4>1 DEF Check, Active, Activity
      <4>2. CASE Finished(c)
        BY <4>2 DEF Finished
      <4>3. CASE FinishLedger(c)
        BY <2>a, <4>3 DEF FinishLedger, Active, Activity
      <4>4. CASE Claim(c) /\ Reached # "none"
        <5>1. act' = [act EXCEPT !.calls[c] = "done", !.meter.refused = IF @ = "none" THEN Reached ELSE @]
          BY <4>4 DEF Claim
        <5>2. act'.calls = [act.calls EXCEPT ![c] = "done"]
          BY <2>a, <5>1 DEF Activity
        <5> QED BY <5>2 DEF Active
      <4>5. CASE Claim(c) /\ Reached = "none"
        <5>1. act'.calls[c] = ledger_on_acting(c).phase /\ ledger' = ledger_on_acting(c).ledger
          BY <2>a, <4>5, ZenonT(60) DEF Claim, Activity
        <5>2. c \in DOMAIN ledger'
          BY <5>1 DEF ledger_on_acting, Claimed
        <5>3. ASSUME act'.calls[c] = "running"  PROVE MayRun(c)'
          <6>1. Claims(c) = "run"
            BY <5>1, <5>3 DEF ledger_on_acting
          <6>2. CASE c \notin DOMAIN ledger
            BY <3>1, <6>2 DEF Claimant, MayRun
          <6>3. CASE c \in DOMAIN ledger
            <7>1. Info[c.tool].readOnly \/ ledger[c].approved
              BY <2>a, <6>1, <6>3 DEF Claims, LedgerRow
            <7>2. ledger' = ledger
              BY <5>1, <6>3 DEF ledger_on_acting
            <7> QED BY <7>1, <7>2 DEF MayRun
          <6> QED BY <6>2, <6>3
        <5> QED BY <5>2, <5>3
      <4> QED BY <2>1, <4>1, <4>2, <4>3, <4>4, <4>5
    <3> QED BY <3>1, <3>2, ClaimantStep
  <2>2. CASE Execute(c)
    <3>1. UNCHANGED ledger /\ act.calls[c] = "running"
      BY <2>2 DEF Execute
    <3>2. ran' = [x \in DOMAIN ran \cup {c} |-> (IF x \in DOMAIN ran THEN ran[x] ELSE 0) + (IF x = c THEN 1 ELSE 0)]
      BY <2>2 DEF Execute
    <3>3. DOMAIN act'.calls = DOMAIN act.calls /\ \A d \in DOMAIN act.calls \ {c} : act'.calls[d] = act.calls[d]
      BY <2>2, CallTyped DEF Sound
    <3>4. act'.calls[c] \in {"succeeded", "failed_permanent"}
      BY <2>2, <2>a DEF Execute, Activity
    <3>5. c \in DOMAIN ledger /\ MayRun(c)
      BY <3>1 DEF Claimant, MayRun
    <3>6. DOMAIN ran' = DOMAIN ran \cup {c} /\ DOMAIN ran' \subseteq DOMAIN ledger'
      BY <3>1, <3>2, <3>5 DEF Claimant
    <3>7. \A d \in DOMAIN ran \ {c} : ran'[d] = ran[d]
      BY <2>a, <3>2
    <3>8. c \notin DOMAIN ran => ran'[c] = 1
      BY <3>2
    <3>9. AtMostOnce'
      BY <3>1, <3>5, <3>6, <3>7, <3>8 DEF Claimant, AtMostOnce, MayRun
    <3>10. \A d \in DOMAIN act'.calls :
              /\ act'.calls[d] \in Active => d \in DOMAIN ledger'
              /\ act'.calls[d] = "running" => MayRun(d)'
      BY <3>1, <3>3, <3>4, <3>5, <3>6 DEF Claimant, Active, MayRun
    <3> QED BY <3>6, <3>9, <3>10 DEF Claimant, Active, MayRun
  <2> QED BY <2>0, <2>1, <2>2
<1> QED BY <1>1, <1>2, <1>3, Steps DEF Within

-----------------------------------------------------------------------------
(* Permissions: OnlySanctioned. *)

\* What a person allowed stays allowed, and so does what was sanctioned.
LEMMA SanctionStep ==
    ASSUME Sanction, allowed \subseteq allowed',
           \A c \in DOMAIN ledger' : c \in DOMAIN ledger \/ Sanctioned(c),
           \A c \in DOMAIN act'.calls :
              \/ c \in DOMAIN act.calls /\ act'.calls[c] = act.calls[c]
              \/ act'.calls[c] \notin {"allowed", "confirmed"}
              \/ act'.calls[c] = "allowed" /\ Sanctioned(c)
              \/ act'.calls[c] = "confirmed" /\ c \in allowed,
           wf'.retry = {} => wf'.approved \subseteq allowed'
    PROVE  Sanction'
<1>0. Sanction <=> /\ \A c \in DOMAIN ledger : Sanctioned(c)
                   /\ \A c \in DOMAIN act.calls : /\ act.calls[c] = "allowed" => Sanctioned(c)
                                                  /\ act.calls[c] = "confirmed" => c \in allowed
                   /\ wf.retry = {} => wf.approved \subseteq allowed
  BY DEF Sanction, Sanctioned, OnlySanctioned
<1>1. \A c : Sanctioned(c) => Sanctioned(c)'
  BY DEF Sanctioned, Permitted, EngineDecides, Bash, File, deny_rules, Plan
<1>2. \A c \in DOMAIN ledger' : Sanctioned(c)'
  BY <1>0, <1>1
<1>3. ASSUME NEW c \in DOMAIN act'.calls
      PROVE  /\ act'.calls[c] = "allowed" => Sanctioned(c)'
             /\ act'.calls[c] = "confirmed" => c \in allowed'
  BY <1>0, <1>1, <1>3
<1> QED BY <1>2, <1>3, ZenonT(60) DEF Sanction, Sanctioned, OnlySanctioned

\* The permission and the policy middleware let only sanctioned calls pass.
LEMMA CheckSanctions ==
    ASSUME Sanction, NEW c \in DOMAIN act.calls, c.tool \in Tools, act.calls[c] \in {"new", "confirmed"},
           Permitted(c.tool, act.calls[c] = "confirmed") \notin {"deny", "ask"}, ~PolicyRefuses(c.tool)
    PROVE  Sanctioned(c)
<1>1. \A l \in Layers : Info[c.tool].name \notin l.denied
  BY DEF PolicyRefuses, effective_policy, merge
<1>2. Info[c.tool].level # "catastrophic"
  <2> SUFFICES ASSUME Info[c.tool].level = "catastrophic"  PROVE FALSE
    OBVIOUS
  <2>1. Info[c.tool].name = "Bash"
    BY TurnAssumption
  <2>2. \A d, ok : Bash(c.tool, d, ok) = "deny"
    BY DEF Bash
  <2>3. Permitted(c.tool, act.calls[c] = "confirmed") = "deny"
    BY <2>1, <2>2 DEF Permitted, FileTools
  <2> QED BY <2>3
<1>3. ASSUME Permitted(c.tool, FALSE) = "ask"  PROVE c \in allowed
  <2>1. CASE act.calls[c] = "confirmed"
    BY <2>1 DEF Sanction
  <2>2. CASE act.calls[c] = "new"
    <3>1. (act.calls[c] = "confirmed") = FALSE
      BY <2>2
    <3> QED BY <1>3, <3>1, ZenonT(60)
  <2> QED BY <2>1, <2>2
<1> QED BY <1>1, <1>2, <1>3, ZenonT(60) DEF Sanctioned

\* Who decides: the layers of policy, the preset, and a person for one call at a time.
LEMMA SanctionNext ==
    ASSUME Sound, Sanction, Next
    PROVE  Sanction'
<1>1. CASE Within
  <2>0. UNCHANGED <<wf, allowed>>
    BY <1>1, WithinSound
  <2>a. wf'.retry = {} => wf'.approved \subseteq allowed'
    BY <2>0 DEF Sanction
  <2>1. CASE ~CallStep
    <3>1. /\ DOMAIN ledger' = DOMAIN ledger
          /\ \A c \in DOMAIN act'.calls :
                 \/ c \in DOMAIN act.calls /\ act'.calls[c] = act.calls[c]
                 \/ act'.calls[c] \in {"new", "done"}
                 \/ act'.calls[c] = "confirmed" /\ c \in wf.approved /\ wf.retry = {}
      BY <1>1, <2>1, OtherEffect
    <3>2. \A c \in DOMAIN act'.calls :
                 \/ c \in DOMAIN act.calls /\ act'.calls[c] = act.calls[c]
                 \/ act'.calls[c] \notin {"allowed", "confirmed"}
                 \/ act'.calls[c] = "confirmed" /\ c \in allowed
      BY <3>1 DEF Sanction
    <3> QED BY <2>0, <2>a, <3>1, <3>2, SanctionStep
  <2>2. CASE CallStep
    <3>0. PICK c \in DOMAIN act.calls : Check(c) \/ Claim(c) \/ Execute(c) \/ Finished(c) \/ FinishLedger(c)
      BY <2>2 DEF CallStep
    <3>a. act \in Activity /\ act.calls \in [DOMAIN act.calls -> Phases] /\ c.tool \in Tools
      BY ActFields, TableParts DEF Sound, Typed, Calls
    <3>1. DOMAIN act'.calls = DOMAIN act.calls /\ \A d \in DOMAIN act.calls \ {c} : act'.calls[d] = act.calls[d]
      BY <3>0, CallTyped DEF Sound
    <3>2. \A d \in DOMAIN ledger' : d \in DOMAIN ledger \/ Sanctioned(d)
      <4>1. CASE Execute(c)
        BY <4>1 DEF Execute
      <4>2. CASE ~Execute(c)
        BY <3>0, <4>2, CallEffect DEF Sound, Sanction
      <4> QED BY <4>1, <4>2
    <3>3. \/ act'.calls[c] = act.calls[c]
          \/ act'.calls[c] \notin {"allowed", "confirmed"}
          \/ act'.calls[c] = "allowed" /\ Sanctioned(c)
      <4>1. CASE Check(c)
        <5> DEFINE decision == Permitted(c.tool, act.calls[c] = "confirmed")
                   refused  == decision # "deny" /\ PolicyRefuses(c.tool)
                   phase    == IF decision = "deny" \/ refused THEN "done"
                               ELSE IF decision = "ask" THEN "asking" ELSE "allowed"
        <5>1. act' = [act EXCEPT !.calls[c] = phase] /\ act.calls[c] \in {"new", "confirmed"}
          BY <4>1 DEF Check
        <5> HIDE DEF decision
        <5>2. phase = "allowed" => decision \notin {"deny", "ask"} /\ ~PolicyRefuses(c.tool)
          OBVIOUS
        <5>3. phase \in {"done", "asking", "allowed"}
          OBVIOUS
        <5> HIDE DEF phase
        <5>4. act'.calls[c] = phase
          BY <3>a, <5>1 DEF Activity
        <5>5. phase = "allowed" => Sanctioned(c)
          BY <3>a, <5>1, <5>2, CheckSanctions DEF decision
        <5> QED BY <5>3, <5>4, <5>5
      <4>2. CASE Finished(c)
        BY <4>2 DEF Finished
      <4>3. CASE FinishLedger(c) \/ Execute(c)
        BY <3>a, <4>3 DEF FinishLedger, Execute, Activity
      <4>4. CASE Claim(c)
        <5>1. \/ act' = [act EXCEPT !.calls[c] = "done", !.meter.refused = IF @ = "none" THEN Reached ELSE @]
              \/ act' = [act EXCEPT !.calls[c] = ledger_on_acting(c).phase, !.meter.tool_calls = @ + 1]
          BY <4>4 DEF Claim
        <5>2. act'.calls = [act.calls EXCEPT ![c] = "done"] \/ act'.calls = [act.calls EXCEPT ![c] = ledger_on_acting(c).phase]
          BY <3>a, <5>1, ZenonT(60) DEF Activity
        <5>3. ledger_on_acting(c).phase \in {"running", "done"}
          BY DEF ledger_on_acting
        <5> QED BY <5>2, <5>3
      <4> QED BY <3>0, <4>1, <4>2, <4>3, <4>4
    <3> QED BY <2>0, <2>a, <3>1, <3>2, <3>3, SanctionStep
  <2> QED BY <2>1, <2>2
<1>2. CASE Age \/ gc_checkpoints \/ GcCrashes
  <2>1. UNCHANGED <<wf, act, ledger, allowed>>
    BY <1>2, CareSound
  <2> QED BY <2>1, SanctionStep DEF Sanction
<1>3. CASE Around
  <2>1. UNCHANGED ledger /\ (UNCHANGED act \/ act'.calls = <<>>)
    BY <1>3, AroundSound
  <2>2. DOMAIN <<>> = {}
    OBVIOUS
  <2>3. allowed \subseteq allowed' /\ (wf'.retry = {} => wf'.approved \subseteq allowed')
    <3>0. wf \in Workflow
      BY DEF Sound, Typed
    <3>1. CASE Schedule
      BY <3>1, ScheduleEffect, ZenonT(60) DEF Sound, Schedule, ghosts, Sanction
    <3>2. CASE approval_decided
      <4>1. PICK yes \in SUBSET wf.waits :
             /\ wf' = [wf EXCEPT !.pc = "ready", !.approved = yes, !.waits = {}, !.decision = approval_payload(yes)]
             /\ allowed' = IF wf.retry = {} THEN allowed \cup yes ELSE allowed
        BY <3>2, ZenonT(60) DEF approval_decided
      <4>2. wf'.retry = wf.retry /\ wf'.approved = yes
        BY <3>0, <4>1 DEF Workflow
      <4> QED BY <4>1, <4>2
    <3>3. CASE Answered \/ \E m \in Messages : deliver_messages(m)
      <4>1. wf'.retry = wf.retry /\ wf'.approved = wf.approved /\ UNCHANGED allowed
        BY <3>0, <3>3, ZenonT(60) DEF Answered, deliver_messages, ghosts, Workflow
      <4> QED BY <4>1 DEF Sanction
    <3>4. CASE Cancel
      <4>1. UNCHANGED allowed /\ wf' = Over("cancelled", wf.messages \ wf.delivered)
        BY <3>4 DEF Cancel, ghosts
      <4>2. wf'.approved = {}
        BY <3>0, <4>1, WfFields, OverType
      <4> QED BY <4>1, <4>2
    <3>5. CASE Report
      <4>1. UNCHANGED allowed /\ wf'.approved = {}
        BY <3>5, ReportEffect DEF Sound, Report
      <4> QED BY <4>1
    <3>6. CASE Raise \/ Crash
      <4>1. UNCHANGED allowed /\ Retried /\ act.pc # "idle"
        BY <3>6, ZenonT(60) DEF Raise, Crash, ghosts
      <4>2. UNCHANGED wf \/ wf' = Over("failed", wf.messages)
        BY <4>1, RetriedEffect DEF Sound
      <4>3. UNCHANGED wf \/ wf'.approved = {}
        BY <3>0, <4>2, WfFields, OverType
      <4> QED BY <4>1, <4>3 DEF Sanction
    <3> QED BY <1>3, <3>1, <3>2, <3>3, <3>4, <3>5, <3>6 DEF Around
  <2> QED BY <2>1, <2>2, <2>3, SanctionStep
<1> QED BY <1>1, <1>2, <1>3, Steps

-----------------------------------------------------------------------------
(* The budget: SpendBounded and RefusedStaysReached. *)

\* What is left of the reservation.
LEMMA BudgetLeft ==
    ASSUME wf \in Workflow
    PROVE  /\ budget_payload.tokens \in Nat /\ budget_payload.tool_calls \in Nat
           /\ \A n \in Nat : n < budget_payload.tool_calls => wf.usage.tool_calls + n + 1 <= Limit.tool_calls
<1>1. /\ DOMAIN Limit = {"tokens", "tool_calls"} /\ Limit.tokens \in Nat /\ Limit.tool_calls \in Nat
      /\ wf.usage.tokens \in Nat /\ wf.usage.tool_calls \in Nat
  BY TurnAssumption DEF Workflow
<1>2. budget_payload = [d \in {"tokens", "tool_calls"} |->
                          IF Limit[d] > wf.usage[d] THEN Limit[d] - wf.usage[d] ELSE 0]
  BY <1>1 DEF budget_payload, after
<1>3. /\ budget_payload.tokens = IF Limit.tokens > wf.usage.tokens THEN Limit.tokens - wf.usage.tokens ELSE 0
      /\ budget_payload.tool_calls =
           IF Limit.tool_calls > wf.usage.tool_calls THEN Limit.tool_calls - wf.usage.tool_calls ELSE 0
  BY <1>2
<1> QED BY <1>1, <1>3

\* A limit that is reached stays reached while the meter only grows.
LEMMA SpentGrows ==
    ASSUME wf \in Workflow, NEW m \in Meter, NEW k \in Meter, m.tokens <= k.tokens, m.tool_calls <= k.tool_calls,
           Spent(m, TRUE) # "none"
    PROVE  Spent(k, TRUE) # "none"
<1>1. budget_payload.tokens \in Nat /\ budget_payload.tool_calls \in Nat
  BY BudgetLeft
<1>2. m.tokens \in Nat /\ m.tool_calls \in Nat /\ k.tokens \in Nat /\ k.tool_calls \in Nat
  BY DEF Meter
<1>3. m.tokens >= budget_payload.tokens \/ m.tool_calls >= budget_payload.tool_calls
  BY DEF Spent
<1>4. k.tokens >= budget_payload.tokens \/ k.tool_calls >= budget_payload.tool_calls
  BY <1>1, <1>2, <1>3
<1> QED BY <1>4 DEF Spent

\* What a step of the activity does to its meter: it begins where the run before it was last heard of, counts an answer of
\* the model, notes that a call was refused, or counts a call.
Begins  == act.pc = "enter" /\ act'.meter = Restored /\ UNCHANGED spent
Grows   == /\ act.pc # "enter" /\ act'.meter.tool_calls = act.meter.tool_calls /\ act'.meter.tokens >= act.meter.tokens
           /\ act'.meter.refused = act.meter.refused /\ UNCHANGED spent
Refuses == /\ act.pc # "enter" /\ act'.meter.tool_calls = act.meter.tool_calls /\ act'.meter.tokens = act.meter.tokens
           /\ Spent(act.meter, TRUE) # "none" /\ UNCHANGED spent
Admits  == /\ act.pc # "enter" /\ act'.meter.tool_calls = act.meter.tool_calls + 1 /\ act'.meter.tokens = act.meter.tokens
           /\ act'.meter.refused = act.meter.refused /\ Spent(act.meter, TRUE) = "none" /\ spent' = spent + 1

\* Every step does one of the four.
LEMMA MeterEffect ==
    ASSUME Sound, Within
    PROVE  Begins \/ Grows \/ Refuses \/ Admits
<1>0. act \in Activity /\ act.meter \in Meter /\ act.meter.tokens \in Nat /\ act.meter.tool_calls \in Nat
  BY ActFields DEF Sound, Typed, Meter
<1>1. CASE Enter
  <2>1. act'.meter = Restored /\ UNCHANGED spent /\ act.pc = "enter"
    BY <1>0, <1>1, ZenonT(60) DEF Enter, ghosts, Activity
  <2> QED BY <2>1 DEF Begins
<1>2. CASE Open \/ Dispatch \/ Unreadable \/ BudgetStop \/ ModelFails \/ Park \/ Put
  <2>1. act'.meter = act.meter /\ UNCHANGED spent /\ act.pc # "enter"
    BY <1>0, <1>2, ZenonT(60) DEF Open, Dispatch, Unreadable, BudgetStop, ModelFails, Park, Put, ghosts, Activity
  <2> QED BY <1>0, <2>1 DEF Grows
<1>3. CASE Ask \/ Reply
  <2>1. act'.meter = add_model_call(act.meter) /\ UNCHANGED spent /\ act.pc # "enter"
    BY <1>0, <1>3, ZenonT(60) DEF Ask, Reply, ghosts, Activity
  <2>2. /\ add_model_call(act.meter).tokens = act.meter.tokens + 1 /\ add_model_call(act.meter).refused = act.meter.refused
        /\ add_model_call(act.meter).tool_calls = act.meter.tool_calls
    BY <1>0 DEF add_model_call, Meter
  <2> QED BY <1>0, <2>1, <2>2 DEF Grows
<1>4. CASE CallStep
  <2>0. PICK c \in DOMAIN act.calls : Check(c) \/ Claim(c) \/ Execute(c) \/ Finished(c) \/ FinishLedger(c)
    BY <1>4 DEF CallStep
  <2>1. CASE Check(c) \/ Execute(c) \/ Finished(c) \/ FinishLedger(c)
    <3>1. act'.meter = act.meter /\ UNCHANGED spent /\ act.pc # "enter"
      BY <1>0, <2>1 DEF Check, Execute, Finished, FinishLedger, ghosts, Activity
    <3> QED BY <1>0, <3>1 DEF Grows
  <2>2. CASE Claim(c)
    <3>0. act.pc # "enter"
      BY <2>2 DEF Claim
    <3>1. CASE Reached # "none"
      <4> DEFINE m == [act.meter EXCEPT !.refused = IF @ = "none" THEN Reached ELSE @]
      <4>1. act' = [act EXCEPT !.calls = [act.calls EXCEPT ![c] = "done"], !.meter = m] /\ UNCHANGED spent
        BY <1>0, <2>2, <3>1 DEF Claim, Activity
      <4>2. m.tokens = act.meter.tokens /\ m.tool_calls = act.meter.tool_calls
        BY <1>0 DEF Meter
      <4> HIDE DEF m
      <4>3. act'.meter = m
        BY <1>0, <4>1 DEF Activity
      <4>4. Spent(act.meter, TRUE) # "none"
        BY <3>1, ZenonT(60) DEF Reached
      <4> QED BY <3>0, <4>1, <4>2, <4>3, <4>4, ZenonT(60) DEF Refuses
    <3>2. CASE Reached = "none"
      <4> DEFINE m == [act.meter EXCEPT !.tool_calls = @ + 1]
      <4>1. act' = [act EXCEPT !.calls = [act.calls EXCEPT ![c] = ledger_on_acting(c).phase], !.meter = m] /\ spent' = spent + 1
        BY <1>0, <2>2, <3>2 DEF Claim, Activity
      <4>2. m.tokens = act.meter.tokens /\ m.tool_calls = act.meter.tool_calls + 1 /\ m.refused = act.meter.refused
        BY <1>0 DEF Meter
      <4> HIDE DEF m
      <4>3. act'.meter = m
        BY <1>0, <4>1 DEF Activity
      <4>4. Spent(act.meter, TRUE) = "none"
        BY <3>2, ZenonT(60) DEF Reached
      <4> QED BY <3>0, <4>1, <4>2, <4>3, <4>4, ZenonT(60) DEF Admits
    <3> QED BY <3>1, <3>2
  <2> QED BY <2>0, <2>1, <2>2
<1> QED BY <1>1, <1>2, <1>3, <1>4 DEF Within

\* Whatever begins again begins with what the server was told.
LEMMA Resumed ==
    ASSUME Sound, Metered, act.pc = "enter"
    PROVE  Restored = beat
<1>1. act.run \in Int /\ act.run >= 1 /\ wf.pc # "done"
  BY ActFields, TurnAssumption DEF Sound, Typed, Tidy
<1>2. act.run = 1 => beat = NoMeter
  BY <1>1 DEF Metered
<1> QED BY <1>1, <1>2 DEF Restored

\* Turns and retries together stay within the reservation.
LEMMA MeteredNext ==
    ASSUME Sound, Metered, Next
    PROVE  Metered'
<1>0. /\ wf \in Workflow /\ act \in Activity /\ act.meter \in Meter /\ beat \in Meter /\ spent \in Int
      /\ act.meter.tool_calls \in Nat /\ beat.tool_calls \in Nat /\ wf.usage.tool_calls \in Nat /\ Limit.tool_calls \in Nat
      /\ spent <= Limit.tool_calls
  BY ActFields, TurnAssumption, ZenonT(60) DEF Sound, Typed, Meter, Workflow, Metered, SpendBounded
<1>1. CASE Within
  <2>0. UNCHANGED <<wf, beat>> /\ act.pc # "idle" /\ act'.pc \notin {"idle", "enter"} /\ wf.pc = "running"
    BY <1>1, WithinSound DEF Sound, Tidy
  <2>1. /\ act.pc \notin {"idle", "enter"} => beat.tool_calls <= act.meter.tool_calls
        /\ spent <= wf.usage.tool_calls + Now
    BY <2>0 DEF Metered
  <2>2. Now' = act'.meter.tool_calls
    BY <2>0 DEF Now
  <2>3. act.pc # "enter" => Now = act.meter.tool_calls
    BY <2>0 DEF Now
  <2>4. CASE act.pc = "enter"
    <3>1. act'.meter = beat /\ UNCHANGED spent
      BY <1>1, <2>4, MeterEffect, Resumed DEF Begins, Grows, Refuses, Admits
    <3>2. Now = beat.tool_calls
      BY <2>4 DEF Now
    <3> QED BY <1>0, <2>0, <2>1, <2>2, <3>1, <3>2 DEF Metered, SpendBounded
  <2>5. CASE act.pc # "enter" /\ UNCHANGED spent
    <3>0. Grows \/ Refuses
      <4>1. ~Begins
        BY <2>5 DEF Begins
      <4>2. ~Admits
        <5>1. spent + 1 # spent
          BY <1>0
        <5> QED BY <2>5, <5>1, ZenonT(60) DEF Admits
      <4> QED BY <1>1, <4>1, <4>2, MeterEffect
    <3>1. act'.meter.tool_calls = act.meter.tool_calls
      BY <3>0, ZenonT(60) DEF Grows, Refuses
    <3>2. act'.meter.tool_calls \in Nat
      BY <1>0, <3>1
    <3> QED BY <1>0, <2>0, <2>1, <2>2, <2>3, <2>5, <3>1, <3>2 DEF Metered, SpendBounded
  <2>6. CASE act.pc # "enter" /\ ~UNCHANGED spent
    <3>1. act'.meter.tool_calls = act.meter.tool_calls + 1 /\ Spent(act.meter, TRUE) = "none" /\ spent' = spent + 1
      BY <1>1, <2>6, MeterEffect, ZenonT(60) DEF Begins, Grows, Refuses, Admits
    <3>2. budget_payload.tool_calls \in Nat /\ ~(act.meter.tool_calls >= budget_payload.tool_calls)
      BY <1>0, <3>1, BudgetLeft DEF Spent
    <3>3. wf.usage.tool_calls + act.meter.tool_calls + 1 <= Limit.tool_calls
      BY <1>0, <3>2, BudgetLeft
    <3> QED BY <1>0, <2>0, <2>1, <2>2, <2>3, <2>6, <3>1, <3>3 DEF Metered, SpendBounded
  <2> QED BY <2>4, <2>5, <2>6
<1>2. CASE Age \/ gc_checkpoints \/ GcCrashes
  BY <1>2, CareSound DEF Metered, SpendBounded, Now
<1>3. CASE Around
  <2>a. Idle.pc = "idle" /\ NoMeter.tool_calls = 0
    BY DEF Idle, NoMeter
  <2>1. CASE Schedule
    <3>1. /\ act'.pc = "enter" /\ wf.pc = "ready" /\ wf'.pc = "running" /\ wf'.usage = wf.usage
          /\ UNCHANGED <<beat, spent>>
      BY <2>1, ScheduleEffect, ZenonT(60) DEF Sound, Schedule, ghosts
    <3>2. act.pc = "idle"
      BY <3>1 DEF Sound, Tidy
    <3>3. beat = NoMeter /\ spent <= wf.usage.tool_calls + 0
      BY <3>1, <3>2 DEF Metered, Now
    <3>4. Now' = 0
      BY <2>a, <3>1, <3>3 DEF Now
    <3> QED BY <1>0, <3>1, <3>3, <3>4 DEF Metered, SpendBounded
  <2>2. CASE approval_decided \/ Answered \/ \E m \in Messages : deliver_messages(m)
    <3>1. wf'.usage = wf.usage /\ UNCHANGED <<act, beat, spent>> /\ wf.pc # "done"
      BY <1>0, <2>2, ZenonT(60) DEF approval_decided, Answered, deliver_messages, ghosts, Workflow
    <3> QED BY <3>1 DEF Metered, SpendBounded, Now
  <2>3. CASE Cancel
    <3>1. UNCHANGED spent /\ wf' = Over("cancelled", wf.messages \ wf.delivered)
      BY <2>3 DEF Cancel, ghosts
    <3>2. wf'.pc = "done"
      BY <1>0, <3>1, WfFields, OverType
    <3> QED BY <3>1, <3>2 DEF Metered, SpendBounded
  <2>4. CASE Report
    <3>0. act.pc = "report" /\ UNCHANGED spent
      BY <2>4 DEF Report
    <3>1. act' = Idle /\ beat' = NoMeter
          /\ (wf'.pc = "done" \/ wf'.usage.tool_calls = wf.usage.tool_calls + act.meter.tool_calls)
      BY <2>4, ReportEffect DEF Sound
    <3>2. spent <= wf.usage.tool_calls + act.meter.tool_calls
      BY <3>0 DEF Metered, Now, Sound, Tidy
    <3>3. Now' = 0
      BY <2>a, <3>1 DEF Now
    <3> QED BY <1>0, <2>a, <3>0, <3>1, <3>2, <3>3 DEF Metered, SpendBounded
  <2>5. CASE Raise
    <3>0. act.pc = "raised" /\ Retried /\ beat' = act.meter /\ UNCHANGED spent
      BY <2>5 DEF Raise, ghosts
    <3>1. spent <= wf.usage.tool_calls + act.meter.tool_calls
      BY <3>0 DEF Metered, Now, Sound, Tidy
    <3>2. \/ act'.pc = "enter" /\ act'.run = act.run + 1 /\ UNCHANGED wf
          \/ wf'.pc = "done"
      BY <1>0, <3>0, RetriedEffect, WfFields, OverType DEF Sound
    <3>3. CASE wf'.pc = "done"
      BY <3>0, <3>3 DEF Metered, SpendBounded
    <3>4. CASE act'.pc = "enter" /\ act'.run = act.run + 1 /\ UNCHANGED wf
      <4>1. act.run \in Int /\ act.run >= 1 /\ act'.run # 1
        BY <3>0, <3>4, ActFields DEF Sound, Typed, Tidy
      <4>2. Now' = act.meter.tool_calls
        BY <3>0, <3>4 DEF Now
      <4> QED BY <3>0, <3>1, <3>4, <4>1, <4>2 DEF Metered, SpendBounded
    <3> QED BY <3>2, <3>3, <3>4
  <2>6. CASE Crash
    <3>0. Retried /\ act.pc # "idle" /\ wf.pc = "running"
      BY <2>6 DEF Crash, Sound, Tidy
    <3>1. PICK last \in IF act.pc = "enter" THEN {beat} ELSE Heartbeats :
          /\ beat' = last /\ spent' = spent - (IF act.pc = "enter" THEN 0 ELSE act.meter.tool_calls - last.tool_calls)
      BY <2>6 DEF Crash
    <3>2. last \in Meter /\ last.tool_calls \in Nat
      BY <3>1, HeartbeatType DEF Sound, Meter
    <3>3. act.pc # "enter" => last.tool_calls <= act.meter.tool_calls
      <4>1. act.pc # "enter" => beat.tool_calls <= act.meter.tool_calls
        BY <3>0 DEF Metered
      <4> QED BY <1>0, <3>1, <3>2, <4>1, HeartbeatType DEF Sound
    <3>4. spent' <= wf.usage.tool_calls + last.tool_calls /\ spent' <= spent /\ spent' \in Int
      <4>1. CASE act.pc = "enter"
        BY <1>0, <3>0, <3>1, <4>1 DEF Metered, Now
      <4>2. CASE act.pc # "enter"
        <5>1. spent <= wf.usage.tool_calls + act.meter.tool_calls
          BY <3>0, <4>2 DEF Metered, Now
        <5> QED BY <1>0, <3>1, <3>2, <3>3, <4>2, <5>1
      <4> QED BY <4>1, <4>2
    <3>5. \/ act'.pc = "enter" /\ act'.run = act.run + 1 /\ UNCHANGED wf
          \/ wf'.pc = "done"
      BY <1>0, <3>0, RetriedEffect, WfFields, OverType DEF Sound
    <3>6. SpendBounded'
      BY <1>0, <3>4 DEF SpendBounded
    <3>7. CASE act'.pc = "enter" /\ act'.run = act.run + 1 /\ UNCHANGED wf
      <4>1. act.run \in Int /\ act.run >= 1 /\ act'.run # 1
        BY <3>0, <3>7, ActFields DEF Sound, Typed, Tidy
      <4>2. Now' = last.tool_calls
        BY <3>1, <3>7 DEF Now
      <4> QED BY <3>4, <3>6, <3>7, <4>1, <4>2 DEF Metered
    <3> QED BY <3>5, <3>6, <3>7 DEF Metered
  <2> QED BY <1>3, <2>1, <2>2, <2>3, <2>4, <2>5, <2>6 DEF Around
<1> QED BY <1>1, <1>2, <1>3, Steps

\* A limit that a call was refused for stays reached, over retries too.
LEMMA RefusingNext ==
    ASSUME Sound, Metered, Refusing, Next
    PROVE  Refusing'
<1>0. wf \in Workflow /\ act \in Activity /\ act.meter \in Meter /\ beat \in Meter
  BY ActFields DEF Sound, Typed
<1>1. CASE Within
  <2>0. UNCHANGED <<wf, beat>> /\ act.pc # "idle" /\ wf.pc = "running" /\ act'.meter \in Meter
    <3>1. act' \in Activity
      BY <1>1, WithinSound DEF Sound, Typed
    <3>2. act'.meter \in Meter
      BY <3>1 DEF Activity
    <3> QED BY <1>1, <3>2, WithinSound DEF Sound, Tidy
  <2>1. beat.refused # "none" => Spent(beat, TRUE) # "none"
    BY <2>0, ZenonT(60) DEF Refusing
  <2>2. act.pc # "enter" /\ act.meter.refused # "none" => Spent(act.meter, TRUE) # "none"
    BY <2>0, ZenonT(60) DEF Refusing
  <2>3. act'.meter.refused # "none" => Spent(act'.meter, TRUE) # "none"
    <3>0. /\ act.meter.tokens \in Nat /\ act.meter.tool_calls \in Nat
          /\ act'.meter.tokens \in Nat /\ act'.meter.tool_calls \in Nat
      BY <1>0, <2>0 DEF Meter
    <3>1. CASE Begins
      BY <2>1, <3>1, Resumed, ZenonT(60) DEF Begins
    <3>2. CASE Grows
      <4>1. act.meter.tokens <= act'.meter.tokens /\ act.meter.tool_calls <= act'.meter.tool_calls
        BY <3>0, <3>2 DEF Grows
      <4>2. act.pc # "enter" /\ act'.meter.refused = act.meter.refused
        BY <3>2 DEF Grows
      <4> QED BY <1>0, <2>0, <2>2, <4>1, <4>2, SpentGrows, ZenonT(60)
    <3>3. CASE Refuses
      <4>1. act.meter.tokens <= act'.meter.tokens /\ act.meter.tool_calls <= act'.meter.tool_calls
        BY <3>0, <3>3 DEF Refuses
      <4>2. Spent(act.meter, TRUE) # "none"
        BY <3>3, ZenonT(60) DEF Refuses
      <4> QED BY <1>0, <2>0, <4>1, <4>2, SpentGrows, ZenonT(60)
    <3>4. CASE Admits
      <4>1. act.meter.tokens <= act'.meter.tokens /\ act.meter.tool_calls <= act'.meter.tool_calls
        BY <3>0, <3>4 DEF Admits
      <4>2. act.pc # "enter" /\ act'.meter.refused = act.meter.refused
        BY <3>4 DEF Admits
      <4> QED BY <1>0, <2>0, <2>2, <4>1, <4>2, SpentGrows, ZenonT(60)
    <3> QED BY <1>1, <3>1, <3>2, <3>3, <3>4, MeterEffect, ZenonT(60)
  <2>4. /\ Spent(act.meter, TRUE)' = Spent(act'.meter, TRUE)
        /\ Spent(beat, TRUE)' = Spent(beat, TRUE)
    BY <2>0 DEF Spent, budget_payload
  <2> QED BY <2>0, <2>1, <2>3, <2>4, ZenonT(60) DEF Refusing
<1>2. CASE Age \/ gc_checkpoints \/ GcCrashes
  <2>1. UNCHANGED <<wf, act, beat>>
    BY <1>2, CareSound
  <2> QED BY <2>1 DEF Refusing, Spent, budget_payload
<1>3. CASE Around
  <2>a. Idle.pc = "idle" /\ NoMeter.refused = "none"
    BY DEF Idle, NoMeter
  <2>1. CASE Schedule
    <3>1. act'.pc = "enter" /\ wf.pc = "ready" /\ UNCHANGED beat
      BY <2>1, ScheduleEffect, ZenonT(60) DEF Sound, Schedule
    <3>2. beat = NoMeter
      BY <3>1 DEF Metered, Sound, Tidy
    <3> QED BY <2>a, <3>1, <3>2, ZenonT(60) DEF Refusing
  <2>2. CASE approval_decided \/ Answered
    <3>1. UNCHANGED act /\ wf.pc # "running" /\ wf'.pc = "ready"
      BY <1>0, <2>2, ZenonT(60) DEF approval_decided, Answered, Workflow
    <3>2. act.pc = "idle"
      BY <3>1 DEF Sound, Tidy
    <3> QED BY <3>1, <3>2 DEF Refusing
  <2>3. CASE \E m \in Messages : deliver_messages(m)
    <3>1. wf'.usage = wf.usage /\ wf'.pc = wf.pc /\ UNCHANGED <<act, beat>>
      BY <1>0, <2>3 DEF deliver_messages, Workflow
    <3> QED BY <3>1 DEF Refusing, Spent, budget_payload
  <2>4. CASE Cancel
    <3>1. wf' = Over("cancelled", wf.messages \ wf.delivered) /\ act' = Idle
      BY <2>4 DEF Cancel
    <3>2. wf'.pc = "done"
      BY <1>0, <3>1, WfFields, OverType
    <3> QED BY <2>a, <3>1, <3>2, ZenonT(60) DEF Refusing
  <2>5. CASE Report
    <3>1. act' = Idle /\ wf'.pc # "running"
      BY <2>5, ReportEffect DEF Sound
    <3> QED BY <2>a, <3>1, ZenonT(60) DEF Refusing
  <2>6. CASE Raise \/ Crash
    <3>0. Retried /\ act.pc # "idle" /\ act.pc # "idle" /\ wf.pc = "running"
      BY <2>6, ZenonT(60) DEF Raise, Crash, Sound, Tidy
    <3>1. \/ act'.pc = "enter" /\ UNCHANGED wf
          \/ act' = Idle /\ wf'.pc = "done"
      BY <1>0, <3>0, RetriedEffect, WfFields, OverType DEF Sound
    <3>2. act'.pc \in {"idle", "enter"}
      BY <2>a, <3>1
    <3>3. \/ beat' = beat
          \/ act.pc # "enter" /\ beat' = act.meter
          \/ beat'.refused = "none"
      BY <2>6, HeartbeatType, ZenonT(60) DEF Raise, Crash, Sound
    <3>4. beat'.refused # "none" => Spent(beat', TRUE) # "none"
      BY <3>0, <3>3, ZenonT(60) DEF Refusing
    <3>5. UNCHANGED wf => Spent(beat, TRUE)' = Spent(beat', TRUE)
      BY DEF Spent, budget_payload
    <3> QED BY <3>1, <3>2, <3>4, <3>5, ZenonT(60) DEF Refusing
  <2> QED BY <1>3, <2>1, <2>2, <2>3, <2>4, <2>5, <2>6 DEF Around
<1> QED BY <1>1, <1>2, <1>3, Steps

-----------------------------------------------------------------------------
(* The theorems. *)

\* The inductive invariant of the attempt.
Inv == Sound /\ Claimant /\ Sanction /\ Metered /\ Refusing

\* It holds when the attempt is started.
LEMMA InvInit == Init => Inv
<1> SUFFICES ASSUME Init PROVE Inv
  OBVIOUS
<1>0. Sound
  BY SoundInit
<1>1. /\ act.pc = "idle" /\ DOMAIN act.calls = {} /\ ledger = <<>> /\ ran = <<>> /\ DOMAIN <<>> = {}
      /\ beat = NoMeter /\ NoMeter.tool_calls = 0 /\ spent = 0 /\ NoMeter.refused = "none"
  BY DEF Init, Idle, NoMeter
<1>2. wf.pc = "ready" /\ wf.approved = {} /\ wf.usage.tool_calls = 0
  BY DEF Init, Fresh
<1>3. Claimant
  BY <1>1 DEF Claimant, AtMostOnce
<1>4. Sanction
  BY <1>1, <1>2 DEF Sanction, OnlySanctioned
<1>5. Metered
  BY <1>1, <1>2, TurnAssumption DEF Metered, SpendBounded, Now
<1>6. Refusing
  BY <1>1, <1>2 DEF Refusing
<1> QED BY <1>0, <1>3, <1>4, <1>5, <1>6 DEF Inv

\* Each layer is kept by every step, given the ones below it.
LEMMA InvNext == Inv /\ [Next]_vars => Inv'
<1> SUFFICES ASSUME Inv, [Next]_vars PROVE Inv'
  OBVIOUS
<1>0. Sound'
  BY SoundNext DEF Inv
<1>1. CASE Next
  BY <1>0, <1>1, ClaimantNext, SanctionNext, MeteredNext, RefusingNext DEF Inv
<1>2. CASE UNCHANGED vars
  <2>1. Claimant'
    BY <1>2 DEF vars, Inv, Claimant, AtMostOnce
  <2>2. Sanction'
    <3>1. UNCHANGED <<allowed, ledger, act, wf>>
      BY <1>2 DEF vars
    <3> QED BY <3>1, SanctionStep DEF Inv, Sanction
  <2>3. Metered'
    BY <1>2 DEF vars, Inv, Metered, SpendBounded, Now
  <2>4. Refusing'
    BY <1>2 DEF vars, Inv, Refusing, Spent, budget_payload
  <2> QED BY <1>0, <2>1, <2>2, <2>3, <2>4 DEF Inv
<1> QED BY <1>1, <1>2

\* Every variable keeps its type, a started activity has a run number RETRY allows, and there is an activity exactly while the
\* workflow waits for one.
THEOREM TypesKept == Spec => []TypeOK
<1>1. ASSUME Inv  PROVE TypeOK
  <2>0. Typed /\ Stored /\ Tidy
    BY <1>1 DEF Inv, Sound
  <2>1. /\ wf.pc \in {"ready", "running", "approval", "input", "done"} /\ wf.version \in Nat /\ wf.sent \subseteq Messages
        /\ wf.messages \cup wf.delivered \cup wf.returned \subseteq wf.sent /\ (act.pc = "idle") = (wf.pc # "running")
    BY <2>0, WfFields DEF Typed, Tidy
  <2>2. /\ act.pc \in {"idle", "enter", "open", "dispatch", "drive", "put", "report", "raised"} /\ act.run \in 0..MaxRuns
        /\ DOMAIN act.calls \subseteq Calls /\ act.calls \in [DOMAIN act.calls -> Phases]
    BY <2>0, ActFields, TableParts DEF Typed
  <2>3. \A r \in rows : r.seq[1] = 0 \/ r.seq = session_seq(r.blob)
    BY <2>0 DEF Stored
  <2>4. DOMAIN ledger \subseteq Calls /\ DOMAIN ran \subseteq DOMAIN ledger /\ faults \in 0..MaxFaults
    BY <1>1, <2>0, TableParts DEF Inv, Claimant, Typed
  <2> QED BY <2>1, <2>2, <2>3, <2>4, ZenonT(60) DEF TypeOK
<1> QED BY <1>1, InvInit, InvNext, PTL DEF Spec

\* Over every crash, retry and restart of the workflow, a call that is not just a read runs at most once under its id unless a
\* person approved running it again (claim_ledger, unknown_side_effects, approve_replay).
THEOREM CallsRunOnce == Spec => []AtMostOnce
<1>1. Inv => AtMostOnce
  BY DEF Inv, Claimant
<1> QED BY <1>1, InvInit, InvNext, PTL DEF Spec

\* No call is claimed that a layer of policy denies, or that is catastrophic, or that the preset asks about and no person allowed:
\* for every preset, every set of layers and every batch (on_check_permission, resolve_approval).
THEOREM CallsAreSanctioned == Spec => []OnlySanctioned
<1>1. Inv => OnlySanctioned
  BY DEF Inv, Sanction
<1> QED BY <1>1, InvInit, InvNext, PTL DEF Spec

\* The attempt makes no more tool calls than were reserved for it, over all its turns and retries, but for those a dead worker had
\* not heartbeat (BudgetMiddleware.on_acting, BudgetMeter.restore, budgets.after).
THEOREM BudgetHolds == Spec => []SpendBounded
<1>1. Inv => SpendBounded
  BY DEF Inv, Metered
<1> QED BY <1>1, InvInit, InvNext, PTL DEF Spec

\* Once a call was refused for the budget the limit stays reached, in this run and the next, so that on_reasoning always ends the
\* turn at its first check.
THEOREM RefusalsStay == Spec => []RefusedStaysReached
<1>1. Inv => RefusedStaysReached
  BY ZenonT(60) DEF Inv, Refusing, RefusedStaysReached
<1> QED BY <1>1, InvInit, InvNext, PTL DEF Spec

-----------------------------------------------------------------------------
(* What one step does to the calls, the ledger and what is told. *)

\* The call ends or waits; if the policy refused it, that is told.
Denies(c) ==
    /\ act'.calls[c] \in {"done", "asking"} /\ UNCHANGED ledger
    /\ \/ UNCHANGED events
       \/ PolicyRefuses(c.tool) /\ events' = publish_events(c, "denied")

\* It may be claimed.
Passes(c) == act'.calls[c] = "allowed" /\ ~PolicyRefuses(c.tool) /\ UNCHANGED <<ledger, events>>

\* It is claimed, and runs.
Takes(c) ==
    /\ act.calls[c] = "allowed" /\ act'.calls[c] = "running" /\ Claims(c) = "run"
    /\ ledger' = (IF c \in DOMAIN ledger THEN ledger ELSE Claimed(c)) /\ UNCHANGED events

\* The ledger has it, and it does not run again.
GivesBack(c) ==
    /\ act.calls[c] = "allowed" /\ act'.calls[c] = "done" /\ c \in DOMAIN ledger /\ Claims(c) # "run"
    /\ UNCHANGED ledger /\ events' = publish_events(c, Claims(c))

\* It has run; that is told; and then recorded.
Ends(c) ==
    /\ act.calls[c] = "running" /\ act'.calls[c] \in {"succeeded", "failed_permanent"}
    /\ act'.calls[c] = "failed_permanent" => Info[c.tool].fails
    /\ UNCHANGED <<ledger, events>>
Tells(c) ==
    /\ act.calls[c] \in {"succeeded", "failed_permanent"} /\ act'.calls[c] = act.calls[c]
    /\ c \notin DOMAIN events /\ events' = publish_events(c, act.calls[c]) /\ UNCHANGED ledger
Records(c) ==
    /\ act.calls[c] \in {"succeeded", "failed_permanent"} /\ c \in DOMAIN events /\ act'.calls[c] = "done"
    /\ ledger' = finish_ledger(c, act.calls[c]) /\ UNCHANGED events

\* One call moves, the others do not.
Moves(c) ==
    /\ DOMAIN act'.calls = DOMAIN act.calls /\ \A d \in DOMAIN act.calls \ {c} : act'.calls[d] = act.calls[d]
    /\ Denies(c) \/ Passes(c) \/ Takes(c) \/ GivesBack(c) \/ Ends(c) \/ Tells(c) \/ Records(c)

\* Nothing is claimed, told or recorded.
Quiet ==
    /\ UNCHANGED events /\ DOMAIN ledger' = DOMAIN ledger
    /\ \A c \in DOMAIN ledger : ledger'[c].status = ledger[c].status /\ (ledger[c].approved => ledger'[c].approved)
    /\ \A c \in DOMAIN act'.calls : \/ c \in DOMAIN act.calls /\ act'.calls[c] = act.calls[c]
                                    \/ act'.calls[c] \in {"new", "done", "confirmed"}

\* The steps of a call.
LEMMA CallMoves ==
    ASSUME Sound, CallStep
    PROVE  \E c \in DOMAIN act.calls : Moves(c)
<1>0. PICK c \in DOMAIN act.calls : Check(c) \/ Claim(c) \/ Execute(c) \/ Finished(c) \/ FinishLedger(c)
  BY DEF CallStep
<1>a. act \in Activity /\ act.calls \in [DOMAIN act.calls -> Phases]
  BY ActFields, TableParts DEF Sound, Typed
<1>b. DOMAIN act'.calls = DOMAIN act.calls /\ \A d \in DOMAIN act.calls \ {c} : act'.calls[d] = act.calls[d]
  BY <1>0, CallTyped DEF Sound
<1>1. CASE Check(c)
  <2> DEFINE decision == Permitted(c.tool, act.calls[c] = "confirmed")
             refused  == decision # "deny" /\ PolicyRefuses(c.tool)
             phase    == IF decision = "deny" \/ refused THEN "done"
                         ELSE IF decision = "ask" THEN "asking" ELSE "allowed"
  <2>1. /\ act' = [act EXCEPT !.calls[c] = phase] /\ UNCHANGED ledger
        /\ events' = IF refused THEN publish_events(c, "denied") ELSE events
    BY <1>1 DEF Check
  <2> HIDE DEF decision
  <2>2. phase \in {"done", "asking"} \/ (phase = "allowed" /\ ~PolicyRefuses(c.tool) /\ ~refused)
    OBVIOUS
  <2>3. refused => PolicyRefuses(c.tool)
    OBVIOUS
  <2> HIDE DEF phase, refused
  <2>4. act'.calls[c] = phase
    BY <1>a, <2>1 DEF Activity
  <2>5. Denies(c) \/ Passes(c)
    BY <2>1, <2>2, <2>3, <2>4 DEF Denies, Passes
  <2> QED BY <1>b, <2>5 DEF Moves
<1>2. CASE Claim(c) /\ Reached # "none"
  <2>1. act' = [act EXCEPT !.calls[c] = "done", !.meter.refused = IF @ = "none" THEN Reached ELSE @]
    BY <1>2 DEF Claim
  <2>2. act'.calls = [act.calls EXCEPT ![c] = "done"] /\ UNCHANGED <<ledger, events>>
    BY <1>2, <1>a, <2>1 DEF Claim, Activity
  <2> QED BY <1>b, <2>2 DEF Moves, Denies
<1>3. CASE Claim(c) /\ Reached = "none"
  <2>1. /\ act'.calls[c] = ledger_on_acting(c).phase /\ act.calls[c] = "allowed"
        /\ ledger' = ledger_on_acting(c).ledger /\ events' = ledger_on_acting(c).events
    BY <1>3, <1>a, ZenonT(60) DEF Claim, Activity
  <2>2. Claims(c) = "run" => Takes(c)
    BY <2>1 DEF ledger_on_acting, Takes
  <2>3. Claims(c) # "run" => c \in DOMAIN ledger
    BY DEF Claims
  <2>4. Claims(c) # "run" => GivesBack(c)
    BY <2>1, <2>3 DEF ledger_on_acting, GivesBack
  <2> QED BY <1>b, <2>2, <2>4 DEF Moves
<1>4. CASE Execute(c)
  <2>1. Ends(c)
    BY <1>4, <1>a DEF Execute, Ends, Activity
  <2> QED BY <1>b, <2>1 DEF Moves
<1>5. CASE Finished(c)
  <2>1. Tells(c)
    BY <1>5 DEF Finished, Tells
  <2> QED BY <1>b, <2>1 DEF Moves
<1>6. CASE FinishLedger(c)
  <2>1. Records(c)
    BY <1>6, <1>a DEF FinishLedger, Records, Activity
  <2> QED BY <1>b, <2>1 DEF Moves
<1> QED BY <1>0, <1>1, <1>2, <1>3, <1>4, <1>5, <1>6

\* Every step either moves one call or is quiet.
LEMMA Effects ==
    ASSUME Sound, [Next]_vars
    PROVE  Quiet \/ \E c \in DOMAIN act.calls : Moves(c)
<1>0. ledger \in [DOMAIN ledger -> LedgerRow]
  BY TableParts DEF Sound, Typed
<1>1. CASE CallStep
  BY <1>1, CallMoves
<1>2. CASE Within /\ ~CallStep
  <2>1. /\ Keeps /\ DOMAIN ledger' = DOMAIN ledger
        /\ \A c \in DOMAIN act'.calls : \/ c \in DOMAIN act.calls /\ act'.calls[c] = act.calls[c]
                                        \/ act'.calls[c] \in {"new", "done", "confirmed"}
    BY <1>2, OtherEffect
  <2>2. UNCHANGED events /\ (UNCHANGED ledger \/ ledger' = approve_replay(wf.retry))
    BY <1>2, ZenonT(60) DEF Within, Enter, Open, Dispatch, Unreadable, BudgetStop, Ask, Reply, ModelFails, Park, Put
  <2>3. \A c \in DOMAIN ledger : ledger'[c].status = ledger[c].status
    BY <1>0, <2>2 DEF approve_replay, LedgerRow
  <2> QED BY <2>1, <2>2, <2>3 DEF Quiet, Keeps
<1>3. CASE Around \/ (Age \/ gc_checkpoints \/ GcCrashes)
  <2>1. UNCHANGED <<ledger, events>> /\ (UNCHANGED act \/ act'.calls = <<>>)
    BY <1>3, AroundSound, CareSound
  <2>2. DOMAIN <<>> = {}
    OBVIOUS
  <2> QED BY <2>1, <2>2 DEF Quiet
<1>4. CASE UNCHANGED vars
  BY <1>4 DEF vars, Quiet
<1> QED BY <1>1, <1>2, <1>3, <1>4, Steps

\* The ledger is finite, and has a call under way as started.
Starts ==
    /\ IsFiniteSet(DOMAIN ledger)
    /\ \A c \in DOMAIN act.calls : act.calls[c] \in Active => c \in DOMAIN ledger /\ ledger[c].status = "started"

\* A call is started when it is claimed, and no longer under way when its outcome is recorded.
LEMMA StartsNext ==
    ASSUME Sound, Starts, [Next]_vars
    PROVE  Starts'
<1>0. ledger \in [DOMAIN ledger -> LedgerRow] /\ DOMAIN ledger \subseteq Calls
  BY TableParts DEF Sound, Typed
<1>1. CASE Quiet
  BY <1>1 DEF Quiet, Starts, Active
<1>2. ASSUME NEW c \in DOMAIN act.calls, Moves(c)  PROVE Starts'
  <2>0. DOMAIN act'.calls = DOMAIN act.calls /\ \A d \in DOMAIN act.calls \ {c} : act'.calls[d] = act.calls[d]
    BY <1>2 DEF Moves
  <2>1. CASE Denies(c) \/ Passes(c) \/ GivesBack(c) \/ Tells(c) \/ Ends(c)
    <3>1. UNCHANGED ledger /\ (act'.calls[c] \in Active => act.calls[c] \in Active)
      BY <2>1 DEF Denies, Passes, GivesBack, Tells, Ends, Active
    <3> QED BY <2>0, <3>1 DEF Starts
  <2>2. CASE Takes(c)
    <3>1. CASE c \in DOMAIN ledger
      <4>1. UNCHANGED ledger /\ ledger[c].status = "started"
        BY <1>0, <2>2, <3>1 DEF Takes, Claims, LedgerRow
      <4> QED BY <2>0, <3>1, <4>1 DEF Starts
    <3>2. CASE c \notin DOMAIN ledger
      <4>1. ledger' = Claimed(c)
        BY <2>2, <3>2 DEF Takes
      <4>2. /\ DOMAIN ledger' = DOMAIN ledger \cup {c} /\ ledger'[c].status = "started"
            /\ \A d \in DOMAIN ledger : ledger'[d] = ledger[d]
        BY <3>2, <4>1 DEF Claimed
      <4>3. IsFiniteSet(DOMAIN ledger')
        BY <4>2, FS_AddElement DEF Starts
      <4> QED BY <2>0, <4>2, <4>3 DEF Starts
    <3> QED BY <3>1, <3>2
  <2>3. CASE Records(c)
    <3>1. act'.calls[c] \notin Active
      BY <2>3 DEF Records, Active
    <3>2. DOMAIN ledger' = DOMAIN ledger /\ \A d \in DOMAIN ledger \ {c} : ledger'[d] = ledger[d]
      BY <2>3 DEF Records, finish_ledger
    <3> QED BY <2>0, <3>1, <3>2 DEF Starts
  <2> QED BY <1>2, <2>1, <2>2, <2>3 DEF Moves
<1> QED BY <1>1, <1>2, Effects

-----------------------------------------------------------------------------
(* The cap: ExplorationBounded. *)

\* A set of naturals that is not empty has a least element.
LEMMA LeastIs ==
    ASSUME NEW S \in SUBSET Nat, S # {}
    PROVE  \E i \in S : \A j \in S : i <= j
<1> DEFINE less == {p \in Nat \X Nat : p[1] < p[2]}
<1>1. OpToRel(<, Nat) = less
  BY ZenonT(60) DEF OpToRel
<1>2. IsWellFoundedOn(less, Nat)
  BY <1>1, NatLessThanWellFounded, ZenonT(60)
<1> HIDE DEF less
<1>3. PICK i \in S : \A j \in S : ~(<<j, i>> \in less)
  BY <1>2, WFMin, ZenonT(60)
<1>4. \A j \in S : i <= j
  <2> TAKE j \in S
  <2>1. ~(<<j, i>> \in less) /\ <<j, i>> \in Nat \X Nat
    BY <1>3
  <2>2. ~(j < i)
    BY <2>1 DEF less
  <2> QED BY <2>2
<1> QED BY <1>4

\* The smallest cap wins, and it is a number of calls.
LEMMA CapIs == effective_policy.cap \in Nat
<1> DEFINE caps == {l.cap : l \in {k \in Layers : k.cap >= 0}}
<1>1. effective_policy.cap = IF caps = {} THEN DefaultCap ELSE Min(caps)
  BY DEF effective_policy, merge
<1>2. caps \in SUBSET Nat
  BY TurnAssumption
<1> HIDE DEF caps
<1>3. caps # {} => Min(caps) \in caps
  BY <1>2, LeastIs, ZenonT(60) DEF Min
<1>4. caps # {} => Min(caps) \in Nat
  BY <1>2, <1>3, ZenonT(60)
<1>5. DefaultCap \in Nat
  BY DEF DefaultCap
<1> QED BY <1>1, <1>4, <1>5, ZenonT(60)

\* The size of the largest batch.
Largest == Max({Cardinality(b) : b \in Batches})

\* There is a largest batch, since there are only so many tools.
LEMMA LargestIs == Largest \in Nat \ {0} /\ \A b \in Batches : IsFiniteSet(b) /\ Cardinality(b) <= Largest
<1> DEFINE S == {Cardinality(b) : b \in Batches}
           U == {n \in Nat : \A s \in S : s <= n}
<1>1. \A b \in Batches : IsFiniteSet(b) /\ Cardinality(b) \in Nat \ {0} /\ Cardinality(b) <= Cardinality(Tools)
  <2> TAKE b \in Batches
  <2>1. b # {} /\ b \in SUBSET Tools /\ IsFiniteSet(Tools)
    BY TurnAssumption
  <2>2. IsFiniteSet(b) /\ Cardinality(b) <= Cardinality(Tools)
    BY <2>1, FS_Subset
  <2>3. Cardinality(b) \in Nat /\ (Cardinality(b) = 0 <=> b = {})
    BY <2>2, FS_CardinalityType, FS_EmptySet
  <2> QED BY <2>1, <2>2, <2>3
<1>2. S \in SUBSET (Nat \ {0}) /\ S # {}
  BY <1>1, TurnAssumption
<1>3. Cardinality(Tools) \in U
  BY <1>1, TurnAssumption, FS_CardinalityType
<1>4. PICK u \in U : \A n \in U : u <= n
  <2>1. U \in SUBSET Nat /\ U # {}
    BY <1>3
  <2> HIDE DEF U
  <2> QED BY <2>1, LeastIs
<1>5. \A b \in Batches : Cardinality(b) \in S
  OBVIOUS
<1>6. Largest = CHOOSE x \in S : \A y \in S : x >= y
  BY DEF Largest, Max
<1>7. u \in Nat /\ \A s \in S : s <= u
  BY <1>4
<1>8. \A n \in Nat : (\A s \in S : s <= n) => u <= n
  BY <1>4
<1> HIDE DEF S, U
<1>9. u \in S
  <2> SUFFICES ASSUME u \notin S  PROVE FALSE
    OBVIOUS
  <2>1. \A s \in S : s \in Nat /\ s >= 1 /\ s <= u - 1
    BY <1>2, <1>7
  <2>2. u - 1 \in Nat
    <3>1. PICK s \in S : TRUE
      BY <1>2
    <3>2. s \in Nat /\ s >= 1 /\ s <= u - 1 /\ u \in Nat
      BY <1>7, <2>1, <3>1
    <3> QED BY <3>2
  <2>3. u <= u - 1
    BY <1>8, <2>1, <2>2
  <2> QED BY <1>7, <2>3
<1>10. \E x \in S : \A y \in S : x >= y
  BY <1>2, <1>7, <1>9
<1>11. Largest \in S /\ \A y \in S : Largest >= y
  BY <1>6, <1>10, ZenonT(60)
<1> QED BY <1>1, <1>2, <1>5, <1>11

\* No more calls than the largest batch.
Few(S) == IsFiniteSet(S) /\ Cardinality(S) <= Largest

\* Nor has any part of them more, nor none at all.
LEMMA FewLess == Few({}) /\ \A S : \A T \in SUBSET S : Few(S) => Few(T)
<1>1. Few({})
  BY FS_EmptySet, LargestIs DEF Few
<1>2. ASSUME NEW S, NEW T \in SUBSET S, Few(S)  PROVE Few(T)
  <2>1. IsFiniteSet(T) /\ Cardinality(T) <= Cardinality(S) /\ IsFiniteSet(S) /\ Cardinality(S) <= Largest
    BY <1>2, FS_Subset DEF Few
  <2>2. Cardinality(T) \in Nat /\ Cardinality(S) \in Nat /\ Largest \in Nat
    BY <2>1, FS_CardinalityType, LargestIs
  <2>3. Cardinality(T) <= Largest
    BY <2>1, <2>2
  <2> QED BY <2>1, <2>3 DEF Few
<1> QED BY <1>1, <1>2

\* An answer has a call for each tool of its batch.
LEMMA BatchFew == ASSUME NEW batch \in Batches, NEW n  PROVE Few(Batch(batch, n))
<1> DEFINE call(t) == [v |-> act.blob.version, r |-> act.blob.round + 1, n |-> n, tool |-> t]
           f == [t \in batch |-> call(t)]
<1>1. f \in Surjection(batch, Batch(batch, n))
  BY ZenonT(60) DEF Surjection, Batch
<1> HIDE DEF f
<1>2. IsFiniteSet(batch) /\ Cardinality(batch) <= Largest /\ Largest \in Nat
  BY LargestIs
<1>3. IsFiniteSet(Batch(batch, n)) /\ Cardinality(Batch(batch, n)) <= Cardinality(batch)
  BY <1>1, <1>2, FS_Surjection
<1>4. Cardinality(Batch(batch, n)) \in Nat /\ Cardinality(batch) \in Nat
  BY <1>2, <1>3, FS_CardinalityType
<1>5. Cardinality(Batch(batch, n)) <= Largest
  BY <1>2, <1>3, <1>4
<1> QED BY <1>3, <1>5 DEF Few

\* Stored sessions wait with few calls.
RowsFew == \A r \in rows : Few(r.blob.pending)

\* So do the calls of the agent, and the session in its memory.
Small == RowsFew /\ Few(act.blob.pending) /\ Few(DOMAIN act.calls)

\* put_checkpoint stores the session it is given.
LEMMA PutFew ==
    ASSUME rows \in SUBSET Row, RowsFew, NEW seq, NEW b, Few(b.pending), rows' = put_checkpoint(seq, b)
    PROVE  RowsFew'
<1>1. \A r \in rows : [r EXCEPT !.blobThere = TRUE].blob = r.blob
  BY DEF Row
<1>2. [seq |-> seq, blob |-> b, committed |-> FALSE, old |-> FALSE, blobThere |-> TRUE].blob = b
  OBVIOUS
<1>3. ASSUME NEW q \in rows'  PROVE q.blob = b \/ \E r \in rows : q.blob = r.blob
  BY <1>1, <1>2, ZenonT(60) DEF put_checkpoint
<1>4. ASSUME NEW q \in rows'  PROVE Few(q.blob.pending)
  BY <1>3, <1>4, ZenonT(60) DEF RowsFew
<1> QED BY <1>4 DEF RowsFew, Few, Largest

\* A turn that is cut short waits with none.
LEMMA KeptFew == ASSUME NEW b \in Session  PROVE Few(keep_interrupted(b).pending)
<1>1. keep_interrupted(b).pending = {}
  BY DEF keep_interrupted, close_unfinished_tool_calls, Session
<1> QED BY <1>1, FewLess

\* What is read back waits with few.
LEMMA GetFew == ASSUME Sound, Small, SessionRows # {}  PROVE Few(get.pending) /\ get \in Session
<1>1. rows # {} /\ rows \in SUBSET Row /\ Stored
  BY DEF SessionRows, Sound, Typed
<1>2. get = Newest(rows).blob /\ Newest(rows) \in rows /\ get \in Session
  BY <1>1, NewestRow
<1> QED BY <1>2 DEF Small, RowsFew

\* The steps of an activity.
LEMMA WithinSmall ==
    ASSUME Sound, Small, Within
    PROVE  Small'
<1>0. /\ act \in Activity /\ act.blob \in Session /\ rows \in SUBSET Row /\ wf \in Workflow /\ DOMAIN <<>> = {}
      /\ Few({}) /\ Few(NewSession.pending)
  <2>1. NewSession.pending = {}
    BY DEF NewSession
  <2> QED BY <2>1, ActFields, FewLess DEF Sound, Typed
<1>1. ASSUME RowsFew', Few(act'.blob.pending), Few(DOMAIN act'.calls)  PROVE Small'
  BY <1>1 DEF Small, Few, Largest
<1>2. CASE Enter \/ Unreadable
  <2>1. act'.blob = act.blob /\ act'.calls = act.calls /\ UNCHANGED rows
    BY <1>0, <1>2, ZenonT(60) DEF Enter, Unreadable, Activity
  <2> QED BY <2>1 DEF Small, RowsFew
<1>3. CASE Open
  <2>1. act'.blob = act.blob /\ act'.calls = act.calls
    BY <1>0, <1>3, ZenonT(60) DEF Open, Activity
  <2>2. UNCHANGED rows \/ rows' = put_checkpoint(session_seq(NewSession), NewSession)
    BY <1>3 DEF Open, put
  <2>3. RowsFew'
    BY <1>0, <2>2, PutFew DEF Small, RowsFew
  <2> QED BY <1>1, <2>1, <2>3 DEF Small
<1>4. CASE Dispatch
  <2>0. SessionRows # {} /\ UNCHANGED rows
    BY <1>4 DEF Dispatch
  <2>1. get \in Session /\ Few(get.pending)
    BY <2>0, GetFew
  <2>2. Driven(get).session.pending = {}
    BY <2>1, ZenonT(60) DEF Driven, run_turn, deliver_tool_result, resolve_approval, Session
  <2>3. \/ act'.blob = act.blob /\ act'.calls = act.calls
        \/ act'.blob = Driven(get).session /\ (act'.calls = <<>> \/ act'.calls = Confirm(get))
    BY <1>0, <1>4, ZenonT(60) DEF Dispatch, Activity
  <2>4. DOMAIN Confirm(get) = get.pending
    BY DEF Confirm
  <2>5. RowsFew' /\ Few(act'.blob.pending) /\ Few(DOMAIN act'.calls)
    BY <1>0, <2>0, <2>1, <2>2, <2>3, <2>4 DEF Small, RowsFew
  <2> QED BY <1>1, <2>5
<1>5. CASE BudgetStop
  <2>1. act'.blob = keep_interrupted(act.blob) /\ act'.calls = <<>>
    BY <1>0, <1>5, ZenonT(60) DEF BudgetStop, Activity
  <2>2. rows' = put_checkpoint(session_seq(keep_interrupted(act.blob)), keep_interrupted(act.blob))
    BY <1>5 DEF BudgetStop, put
  <2>3. Few(keep_interrupted(act.blob).pending)
    BY <1>0, KeptFew
  <2>4. RowsFew'
    BY <1>0, <2>2, <2>3, PutFew DEF Small
  <2> QED BY <1>0, <1>1, <2>1, <2>3, <2>4
<1>6. CASE Ask
  <2> DEFINE b == [act.blob EXCEPT !.round = act.blob.round + 1]
  <2>1. PICK batch \in Batches, n \in Ids :
          act' = [act EXCEPT !.blob.round = act.blob.round + 1, !.meter = add_model_call(@),
                             !.calls = [c \in Batch(batch, n) |-> "new"]]
    BY <1>6, ZenonT(60) DEF Ask, Batch
  <2>2. act' = [act EXCEPT !.blob = b, !.meter = add_model_call(act.meter), !.calls = [c \in Batch(batch, n) |-> "new"]]
    BY <2>1
  <2>3. b.pending = act.blob.pending /\ UNCHANGED rows
    BY <1>0, <1>6 DEF Ask, Session
  <2> HIDE DEF b
  <2>4. act'.blob = b /\ DOMAIN act'.calls = Batch(batch, n)
    BY <1>0, <2>2 DEF Activity
  <2> QED BY <1>1, <2>3, <2>4, BatchFew DEF Small, RowsFew
<1>7. CASE Reply
  <2>1. act'.calls = <<>> /\ act'.blob.pending = act.blob.pending /\ UNCHANGED rows
    BY <1>0, <1>7, ZenonT(60) DEF Reply, Activity, Session
  <2> QED BY <1>0, <1>1, <2>1 DEF Small, RowsFew
<1>8. CASE ModelFails
  <2>1. act'.calls = <<>> /\ act'.blob = get /\ UNCHANGED rows /\ act.pc = "drive"
    BY <1>0, <1>8, ZenonT(60) DEF ModelFails, Activity
  <2>2. Few(get.pending)
    BY <2>1, GetFew DEF Sound, Stored
  <2> QED BY <1>0, <1>1, <2>1, <2>2 DEF Small, RowsFew
<1>9. CASE Park
  <2> DEFINE waits == {c \in DOMAIN act.calls : act.calls[c] = "asking"}
  <2>1. act'.calls = <<>> /\ act'.blob.pending = waits /\ UNCHANGED rows
    BY <1>0, <1>9, ZenonT(60) DEF Park, Activity, Session
  <2>2. Few(waits)
    BY FewLess DEF Small
  <2> QED BY <1>0, <1>1, <2>1, <2>2 DEF Small, RowsFew
<1>10. CASE Put
  <2>1. act'.blob = act.blob /\ act'.calls = act.calls
    BY <1>0, <1>10, ZenonT(60) DEF Put, Activity
  <2>2. \A key, result : remember(act.blob, key, result).pending = act.blob.pending
    BY <1>0, ZenonT(60) DEF remember, Session
  <2>3. \E b : \E seq : b.pending = act.blob.pending /\ rows' = put_checkpoint(seq, b)
    BY <1>10, <2>2 DEF Put, put
  <2>4. RowsFew'
    BY <1>0, <2>3, PutFew DEF Small
  <2> QED BY <1>1, <2>1, <2>4 DEF Small
<1>11. CASE CallStep
  <2>0. PICK c \in DOMAIN act.calls : Check(c) \/ Claim(c) \/ Execute(c) \/ Finished(c) \/ FinishLedger(c)
    BY <1>11 DEF CallStep
  <2>1. DOMAIN act'.calls = DOMAIN act.calls
    BY <2>0, CallTyped DEF Sound
  <2>2. act'.blob = act.blob
    BY <1>0, <2>0, ZenonT(60) DEF Check, Claim, Execute, Finished, FinishLedger, Activity
  <2>3. UNCHANGED rows \/ rows' = put_checkpoint(batch_seq(act.blob), NewSession)
    BY <2>0 DEF Check, Claim, Execute, Finished, FinishLedger, policy_on_acting
  <2>4. RowsFew'
    BY <1>0, <2>3, PutFew DEF Small, RowsFew
  <2> QED BY <1>1, <2>1, <2>2, <2>4 DEF Small
<1> QED BY <1>2, <1>3, <1>4, <1>5, <1>6, <1>7, <1>8, <1>9, <1>10, <1>11 DEF Within

\* No step makes them more.
LEMMA SmallNext ==
    ASSUME Sound, Small, [Next]_vars
    PROVE  Small'
<1>0. /\ act \in Activity /\ act.blob \in Session /\ rows \in SUBSET Row /\ DOMAIN <<>> = {}
      /\ Few({}) /\ NewSession.pending = {}
  <2>1. NewSession.pending = {}
    BY DEF NewSession
  <2> QED BY <2>1, ActFields, FewLess DEF Sound, Typed
<1>1. ASSUME RowsFew', Few(act'.blob.pending), Few(DOMAIN act'.calls)  PROVE Small'
  BY <1>1 DEF Small, Few, Largest
<1>2. ASSUME \A q \in rows' : \E r \in rows : q.blob = r.blob  PROVE RowsFew'
  BY <1>2 DEF Small, RowsFew, Few, Largest
<1>3. CASE Within
  BY <1>3, WithinSmall
<1>4. CASE Age \/ gc_checkpoints \/ GcCrashes
  <2>1. UNCHANGED act
    BY <1>4, CareSound
  <2>2. \A q \in rows' : \E r \in rows : q.blob = r.blob
    <3>1. \A r \in rows : [r EXCEPT !.old = TRUE].blob = r.blob /\ [r EXCEPT !.blobThere = FALSE].blob = r.blob
      BY <1>0 DEF Row
    <3>2. CASE Age
      BY <3>1, <3>2 DEF Age
    <3>3. CASE gc_checkpoints
      BY <3>3 DEF gc_checkpoints
    <3>4. CASE GcCrashes
      BY <3>1, <3>4 DEF GcCrashes
    <3> QED BY <1>4, <3>2, <3>3, <3>4
  <2> QED BY <1>1, <1>2, <2>1, <2>2 DEF Small
<1>5. CASE Around
  <2>1. UNCHANGED act \/ (act'.blob = NewSession /\ act'.calls = <<>>)
    <3>1. Idle.blob = NewSession /\ Idle.calls = <<>>
      BY DEF Idle
    <3>2. \A n : [Idle EXCEPT !.pc = "enter", !.run = n].blob = NewSession /\ [Idle EXCEPT !.pc = "enter", !.run = n].calls = <<>>
      BY DEF Idle
    <3>3. UNCHANGED act \/ act' = Idle \/ \E n : act' = [Idle EXCEPT !.pc = "enter", !.run = n]
      BY <1>5, ZenonT(60) DEF Around, Schedule, approval_decided, Answered, Cancel, deliver_messages, Report, Raise, Crash, Retried
    <3> QED BY <3>1, <3>2, <3>3, ZenonT(60)
  <2>2. RowsFew'
    <3>1. CASE Cancel
      <4>1. UNCHANGED rows \/ rows' = put_checkpoint(session_seq(keep_interrupted(act.blob)), keep_interrupted(act.blob))
        BY <3>1 DEF Cancel, kept_if_cancelled, put
      <4> QED BY <1>0, <1>2, <4>1, KeptFew, PutFew DEF Small
    <3>2. CASE Report
      <4>1. UNCHANGED rows \/ (SessionRows # {} /\ rows' = (rows \ {Newest(rows)}) \cup {[Newest(rows) EXCEPT !.committed = TRUE]})
        BY <3>2 DEF Report, Commits, commit_checkpoints
      <4>2. SessionRows # {} => Newest(rows) \in rows
        BY <1>0, NewestRow DEF SessionRows, Sound
      <4>3. \A r \in rows : [r EXCEPT !.committed = TRUE].blob = r.blob
        BY <1>0 DEF Row
      <4> QED BY <1>2, <4>1, <4>2, <4>3
    <3>3. CASE ~Cancel /\ ~Report
      <4>1. UNCHANGED rows
        BY <1>5, <3>3, ZenonT(60) DEF Around, Schedule, approval_decided, Answered, deliver_messages, Raise, Crash,
                                      kept_if_cancelled
      <4> QED BY <1>2, <4>1
    <3> QED BY <3>1, <3>2, <3>3
  <2> QED BY <1>0, <1>1, <2>1, <2>2 DEF Small
<1>6. CASE UNCHANGED vars
  BY <1>6 DEF vars, Small, RowsFew, Few, Largest
<1> QED BY <1>3, <1>4, <1>5, <1>6, Steps

\* The calls that may be claimed, those of a set that the cap is for, and how many of them there may be.
Cleared   == {c \in DOMAIN act.calls : act.calls[c] = "allowed"}
Capped(S) == {c \in S : Info[c.tool].name \notin AfterExhaustion}
Allowance == effective_policy.cap + granted_extensions * ExtensionCalls

\* What was claimed and what may be claimed, together, overshoot by less than a batch.
Explored == Exploration => Cardinality(Capped(DOMAIN ledger \cup Cleared)) <= Allowance + Largest - 1

\* It is a number of calls.
LEMMA AllowanceIs == ASSUME Starts  PROVE Allowance \in Nat
<1>1. granted_extensions \in Nat
  BY FS_Subset, FS_CardinalityType DEF granted_extensions, Starts
<1> QED BY <1>1, CapIs DEF Allowance, ExtensionCalls

\* An extension that was granted stays granted.
LEMMA GrantedGrows ==
    ASSUME Starts, Starts', DOMAIN ledger \subseteq DOMAIN ledger',
           \A c \in DOMAIN ledger : ledger[c].status = "succeeded" => ledger'[c].status = "succeeded"
    PROVE  Allowance \in Nat /\ Allowance' \in Nat /\ Allowance <= Allowance'
<1> DEFINE G == {c \in DOMAIN ledger : Info[c.tool].name = "extend" /\ ledger[c].status = "succeeded"}
           H == {c \in DOMAIN ledger' : Info[c.tool].name = "extend" /\ ledger'[c].status = "succeeded"}
<1>1. granted_extensions = Cardinality(G) /\ granted_extensions' = Cardinality(H)
  BY DEF granted_extensions
<1>2. G \in SUBSET DOMAIN ledger /\ H \in SUBSET DOMAIN ledger' /\ G \in SUBSET H
  OBVIOUS
<1> HIDE DEF G, H
<1>3. IsFiniteSet(G) /\ IsFiniteSet(H)
  BY <1>2, FS_Subset DEF Starts
<1>4. Cardinality(G) \in Nat /\ Cardinality(H) \in Nat /\ Cardinality(G) <= Cardinality(H)
  BY <1>2, <1>3, FS_Subset, FS_CardinalityType
<1>5. effective_policy.cap \in Nat /\ effective_policy'.cap = effective_policy.cap
  BY CapIs DEF effective_policy
<1> QED BY <1>1, <1>4, <1>5 DEF Allowance, ExtensionCalls

\* A step that clears no call, and forgets no extension.
LEMMA ExploredStep ==
    ASSUME Starts, Small, Starts', Small', Explored, DOMAIN ledger \subseteq DOMAIN ledger',
           \A c \in DOMAIN ledger : ledger[c].status = "succeeded" => ledger'[c].status = "succeeded",
           Capped(DOMAIN ledger' \cup Cleared') \subseteq Capped(DOMAIN ledger \cup Cleared)
    PROVE  Explored'
<1> SUFFICES ASSUME Exploration
             PROVE  Cardinality(Capped(DOMAIN ledger' \cup Cleared')) <= Allowance' + Largest - 1
  BY DEF Explored, Capped, Largest
<1>1. Allowance \in Nat /\ Allowance' \in Nat /\ Allowance <= Allowance' /\ Largest \in Nat
  BY GrantedGrows, LargestIs
<1>2. IsFiniteSet(DOMAIN ledger \cup Cleared)
  BY FS_Subset, FS_Union DEF Starts, Small, Few, Cleared
<1>3. IsFiniteSet(Capped(DOMAIN ledger \cup Cleared))
  BY <1>2, FS_Subset DEF Capped
<1> DEFINE A == Capped(DOMAIN ledger \cup Cleared)
           B == Capped(DOMAIN ledger' \cup Cleared')
<1>4. Cardinality(A) <= Allowance + Largest - 1 /\ B \in SUBSET A /\ IsFiniteSet(A)
  BY <1>3 DEF Explored
<1> HIDE DEF A, B
<1>5. Cardinality(B) <= Cardinality(A) /\ Cardinality(A) \in Nat /\ Cardinality(B) \in Nat
  BY <1>4, FS_Subset, FS_CardinalityType
<1>6. Cardinality(B) <= Allowance' + Largest - 1
  BY <1>1, <1>4, <1>5
<1> QED BY <1>6 DEF B

\* The check lets a call pass only below the cap, and no more calls are under way than one answer has.
LEMMA ExploredPasses ==
    ASSUME Starts, Small, Starts', Small', Explored, NEW c \in DOMAIN act.calls, Moves(c), Passes(c)
    PROVE  Explored'
<1>0. /\ UNCHANGED ledger /\ ~PolicyRefuses(c.tool) /\ DOMAIN act'.calls = DOMAIN act.calls
      /\ \A d \in DOMAIN act.calls \ {c} : act'.calls[d] = act.calls[d]
  BY DEF Moves, Passes
<1>1. CASE Info[c.tool].name \in AfterExhaustion
  <2>1. Capped(DOMAIN ledger' \cup Cleared') \subseteq Capped(DOMAIN ledger \cup Cleared)
    BY <1>0, <1>1 DEF Capped, Cleared
  <2> QED BY <1>0, <2>1, ExploredStep
<1>2. CASE Info[c.tool].name \notin AfterExhaustion
  <2> SUFFICES ASSUME Exploration
               PROVE  Cardinality(Capped(DOMAIN ledger' \cup Cleared')) <= Allowance' + Largest - 1
    BY DEF Explored, Capped, Largest
  <2>1. ~(count_side_effects >= Allowance)
    BY <1>0, <1>2 DEF PolicyRefuses, exploration_exhausted, Allowance
  <2>2. Allowance \in Nat /\ Allowance' = Allowance /\ Largest \in Nat
    <3>1. Allowance \in Nat
      BY AllowanceIs
    <3>2. Allowance' = Allowance
      BY <1>0 DEF Allowance, granted_extensions, effective_policy
    <3> QED BY <3>1, <3>2, LargestIs
  <2> DEFINE K == Capped(DOMAIN ledger)
             N == {d \in DOMAIN ledger : Info[d.tool].name # "extend"}
             D == DOMAIN act.calls
             B == Capped(DOMAIN ledger' \cup Cleared')
  <2>3. count_side_effects = Cardinality(N)
    BY DEF count_side_effects
  <2>4. K \in SUBSET N /\ N \in SUBSET DOMAIN ledger /\ B \in SUBSET (K \cup D)
    BY <1>0 DEF Capped, Cleared, AfterExhaustion
  <2>5. IsFiniteSet(D) /\ Cardinality(D) <= Largest /\ IsFiniteSet(DOMAIN ledger)
    BY DEF Small, Few, Starts
  <2> HIDE DEF K, N, D, B
  <2>6. IsFiniteSet(N) /\ IsFiniteSet(K) /\ Cardinality(K) <= Cardinality(N)
    BY <2>4, <2>5, FS_Subset
  <2>7. /\ IsFiniteSet(K \cup D) /\ IsFiniteSet(K \cap D)
        /\ Cardinality(K \cup D) = Cardinality(K) + Cardinality(D) - Cardinality(K \cap D)
    BY <2>5, <2>6, FS_Union, FS_Subset
  <2>8. IsFiniteSet(B) /\ Cardinality(B) <= Cardinality(K \cup D)
    BY <2>4, <2>7, FS_Subset
  <2>9. {Cardinality(K), Cardinality(N), Cardinality(D), Cardinality(K \cap D), Cardinality(B)} \subseteq Nat
    BY <2>5, <2>6, <2>7, <2>8, FS_CardinalityType
  <2>10. Cardinality(B) <= Allowance' + Largest - 1
    BY <2>1, <2>2, <2>3, <2>5, <2>6, <2>7, <2>8, <2>9
  <2> QED BY <2>10 DEF B
<1> QED BY <1>1, <1>2

\* However often the activity is retried.
LEMMA ExploredNext ==
    ASSUME Sound, Starts, Small, Explored, [Next]_vars
    PROVE  Explored'
<1>0. ledger \in [DOMAIN ledger -> LedgerRow] /\ Starts' /\ Small'
  BY TableParts, StartsNext, SmallNext DEF Sound, Typed
<1>1. CASE Quiet
  <2>1. Capped(DOMAIN ledger' \cup Cleared') \subseteq Capped(DOMAIN ledger \cup Cleared)
    BY <1>1 DEF Quiet, Capped, Cleared
  <2> QED BY <1>0, <1>1, <2>1, ExploredStep DEF Quiet
<1>2. ASSUME NEW c \in DOMAIN act.calls, Moves(c)  PROVE Explored'
  <2>0. DOMAIN act'.calls = DOMAIN act.calls /\ \A d \in DOMAIN act.calls \ {c} : act'.calls[d] = act.calls[d]
    BY <1>2 DEF Moves
  <2>1. CASE Denies(c) \/ GivesBack(c) \/ Ends(c) \/ Tells(c)
    <3>1. UNCHANGED ledger /\ (act'.calls[c] = "allowed" => act.calls[c] = "allowed")
      BY <2>1 DEF Denies, GivesBack, Ends, Tells
    <3>2. Capped(DOMAIN ledger' \cup Cleared') \subseteq Capped(DOMAIN ledger \cup Cleared)
      BY <2>0, <3>1 DEF Capped, Cleared
    <3> QED BY <1>0, <3>1, <3>2, ExploredStep
  <2>2. CASE Passes(c)
    BY <1>0, <1>2, <2>2, ExploredPasses
  <2>3. CASE Takes(c)
    <3>1. c \in Cleared /\ act'.calls[c] = "running"
      BY <2>3 DEF Takes, Cleared
    <3>2. DOMAIN ledger' = DOMAIN ledger \cup {c} /\ \A d \in DOMAIN ledger : ledger'[d] = ledger[d]
      BY <2>3 DEF Takes, Claimed
    <3>3. Capped(DOMAIN ledger' \cup Cleared') \subseteq Capped(DOMAIN ledger \cup Cleared)
      BY <2>0, <3>1, <3>2 DEF Capped, Cleared
    <3> QED BY <1>0, <3>2, <3>3, ExploredStep
  <2>4. CASE Records(c)
    <3>1. ledger[c].status = "started" /\ act'.calls[c] = "done"
      BY <2>4 DEF Records, Starts, Active
    <3>2. DOMAIN ledger' = DOMAIN ledger /\ \A d \in DOMAIN ledger \ {c} : ledger'[d] = ledger[d]
      BY <2>4 DEF Records, finish_ledger
    <3>3. Capped(DOMAIN ledger' \cup Cleared') \subseteq Capped(DOMAIN ledger \cup Cleared)
      BY <2>0, <3>1, <3>2 DEF Capped, Cleared
    <3> QED BY <1>0, <3>1, <3>2, <3>3, ExploredStep
  <2> QED BY <1>2, <2>1, <2>2, <2>3, <2>4 DEF Moves
<1> QED BY <1>1, <1>2, Effects

\* It holds when the attempt is started.
LEMMA ExploredInit == Init => Starts /\ Small /\ Explored
<1> SUFFICES ASSUME Init  PROVE Starts /\ Small /\ Explored
  OBVIOUS
<1>1. DOMAIN ledger = {} /\ DOMAIN act.calls = {} /\ act.blob.pending = {} /\ rows = {}
  BY DEF Init, Idle, NewSession
<1>2. Starts
  BY <1>1, FS_EmptySet DEF Starts
<1>3. Small
  BY <1>1, FewLess DEF Small, RowsFew
<1>4. Capped(DOMAIN ledger \cup Cleared) = {}
  BY <1>1 DEF Capped, Cleared
<1>5. 0 <= Allowance + Largest - 1
  BY <1>2, AllowanceIs, LargestIs
<1>6. Explored
  BY <1>4, <1>5, FS_EmptySet, ZenonT(60) DEF Explored
<1> QED BY <1>2, <1>3, <1>6

\* The exploration node overshoots its cap by all calls of a batch but one and no more, for every cap and every set of batches and
\* however many extensions are granted, calls retried or workers lost (exploration_exhausted, on_check_permission).
THEOREM ExplorationHeld == Spec => []ExplorationBounded
<1> DEFINE J == Sound /\ Starts /\ Small /\ Explored
<1>1. Init => J
  BY SoundInit, ExploredInit
<1>2. J /\ [Next]_vars => J'
  BY SoundNext, StartsNext, SmallNext, ExploredNext
<1>3. J => ExplorationBounded
  <2> SUFFICES ASSUME J, Exploration
               PROVE  Cardinality(Capped(DOMAIN ledger)) <= Allowance + Largest - 1
    BY DEF ExplorationBounded, Capped, Allowance, Largest
  <2>1. IsFiniteSet(DOMAIN ledger) /\ IsFiniteSet(DOMAIN act.calls) /\ Allowance \in Nat /\ Largest \in Nat
    BY AllowanceIs, LargestIs DEF Starts, Small, Few
  <2> DEFINE A == Capped(DOMAIN ledger \cup Cleared)
             B == Capped(DOMAIN ledger)
  <2>2. IsFiniteSet(DOMAIN ledger \cup Cleared)
    BY <2>1, FS_Subset, FS_Union DEF Cleared
  <2>3. IsFiniteSet(A) /\ B \in SUBSET A /\ Cardinality(A) <= Allowance + Largest - 1
    BY <2>2, FS_Subset DEF Capped, Explored
  <2> HIDE DEF A, B
  <2>4. Cardinality(B) <= Cardinality(A) /\ Cardinality(A) \in Nat /\ Cardinality(B) \in Nat
    BY <2>3, FS_Subset, FS_CardinalityType
  <2>5. Cardinality(B) <= Allowance + Largest - 1
    BY <2>1, <2>3, <2>4
  <2> QED BY <2>5 DEF B
<1> QED BY <1>1, <1>2, <1>3, PTL DEF Spec

-----------------------------------------------------------------------------
(* What is told: OutcomeTold. *)

\* A read ends as it did before, and the exploration node is not given more calls: what was told of a call once is not
\* overtaken by what it does when the activity is run again.
Steady ==
    /\ \A t \in Tools : Info[t].readOnly => ~Info[t].fails
    /\ Exploration => \A t \in Tools : Info[t].name # "extend"

\* What is recorded of a call was told.
ToldFirst(c) ==
    c \in DOMAIN ledger /\ ledger[c].status # "started" =>
       c \in DOMAIN events /\ (ledger[c].approved \/ events[c] = ledger[c].status)

\* What is told of a call that was not claimed, or of a read that may run again, will be told again.
ToldBefore(c) ==
    c \in DOMAIN events =>
       /\ c \notin DOMAIN ledger => PolicyRefuses(c.tool)
       /\ c \in DOMAIN ledger /\ ledger[c].status = "started" /\ Info[c.tool].readOnly =>
             events[c] = "succeeded" \/ PolicyRefuses(c.tool)

\* What is told already of a call under way is how it will end, unless it was approved to run again.
ToldAhead(c) ==
    c \in DOMAIN act.calls =>
       /\ act.calls[c] = "failed_permanent" => ~Info[c.tool].readOnly
       /\ c \in DOMAIN events /\ act.calls[c] = "allowed" =>
             c \in DOMAIN ledger /\ (ledger[c].status = "started" /\ Info[c.tool].readOnly => events[c] = "succeeded")
       /\ c \in DOMAIN events /\ act.calls[c] = "running" /\ ~ledger[c].approved =>
             Info[c.tool].readOnly /\ events[c] = "succeeded"
       /\ c \in DOMAIN events /\ act.calls[c] \in {"succeeded", "failed_permanent"} /\ ~ledger[c].approved =>
             events[c] = act.calls[c]

Telling == \A c \in Calls : ToldFirst(c) /\ ToldBefore(c) /\ ToldAhead(c)

\* A tool that the policy refuses is refused from then on.
LEMMA RefusesStays ==
    ASSUME Steady, Sound, Starts, Starts', DOMAIN ledger \subseteq DOMAIN ledger', DOMAIN ledger' \subseteq Calls, NEW t, PolicyRefuses(t)
    PROVE  PolicyRefuses(t)'
<1>0. effective_policy' = effective_policy
  BY DEF effective_policy
<1>1. CASE Info[t].name \in effective_policy.denied
  BY <1>0, <1>1 DEF PolicyRefuses
<1>2. CASE Info[t].name \notin AfterExhaustion /\ exploration_exhausted
  <2>1. Exploration /\ count_side_effects >= effective_policy.cap + granted_extensions * ExtensionCalls
    BY <1>2 DEF exploration_exhausted
  <2>2. \A c \in Calls : Info[c.tool].name # "extend"
    BY <2>1 DEF Steady, Calls
  <2>3. granted_extensions = 0 /\ granted_extensions' = 0
    <3>1. /\ {c \in DOMAIN ledger : Info[c.tool].name = "extend" /\ ledger[c].status = "succeeded"} = {}
          /\ {c \in DOMAIN ledger' : Info[c.tool].name = "extend" /\ ledger'[c].status = "succeeded"} = {}
      BY <2>2
    <3> QED BY <3>1, FS_EmptySet, ZenonT(60) DEF granted_extensions
  <2> DEFINE N == {c \in DOMAIN ledger : Info[c.tool].name # "extend"}
             M == {c \in DOMAIN ledger' : Info[c.tool].name # "extend"}
  <2>4. count_side_effects = Cardinality(N) /\ count_side_effects' = Cardinality(M)
    BY DEF count_side_effects
  <2>5. N \in SUBSET M /\ M \in SUBSET DOMAIN ledger' /\ IsFiniteSet(DOMAIN ledger')
    BY DEF Starts
  <2> HIDE DEF N, M
  <2>6. IsFiniteSet(M) /\ IsFiniteSet(N) /\ Cardinality(N) <= Cardinality(M)
    BY <2>5, FS_Subset
  <2>7. Cardinality(N) \in Nat /\ Cardinality(M) \in Nat /\ effective_policy.cap \in Nat
    BY <2>6, FS_CardinalityType, CapIs
  <2>8. count_side_effects' >= effective_policy'.cap + granted_extensions' * ExtensionCalls
    BY <1>0, <2>1, <2>3, <2>4, <2>6, <2>7 DEF ExtensionCalls
  <2> QED BY <1>2, <2>1, <2>8 DEF PolicyRefuses, exploration_exhausted
<1> QED BY <1>1, <1>2 DEF PolicyRefuses

\* What is told of a call stays so while it does not move.
LEMMA ToldStays ==
    ASSUME NEW c \in Calls, Starts, Starts', ToldFirst(c), ToldBefore(c), ToldAhead(c),
           PolicyRefuses(c.tool) => PolicyRefuses(c.tool)',
           c \in DOMAIN ledger' <=> c \in DOMAIN ledger,
           c \in DOMAIN ledger => ledger'[c].status = ledger[c].status /\ (ledger[c].approved => ledger'[c].approved),
           c \in DOMAIN events' <=> c \in DOMAIN events, c \in DOMAIN events => events'[c] = events[c],
           c \in DOMAIN act'.calls => \/ c \in DOMAIN act.calls /\ act'.calls[c] = act.calls[c]
                                      \/ act'.calls[c] \in {"new", "done", "confirmed", "asking"}
    PROVE  ToldFirst(c)' /\ ToldBefore(c)' /\ ToldAhead(c)'
<1>1. ToldFirst(c)'
  BY DEF ToldFirst
<1>2. ToldBefore(c)'
  BY DEF ToldBefore
<1>3. CASE c \in DOMAIN act'.calls /\ c \in DOMAIN act.calls /\ act'.calls[c] = act.calls[c]
  BY <1>1, <1>2, <1>3 DEF ToldAhead, Starts, Active
<1>4. CASE c \in DOMAIN act'.calls => act'.calls[c] \in {"new", "done", "confirmed", "asking"}
  BY <1>1, <1>2, <1>4 DEF ToldAhead
<1> QED BY <1>3, <1>4

\* The call that moves.
LEMMA ToldMoves ==
    ASSUME Steady, NEW c \in Calls, c \in DOMAIN act.calls, Starts, Starts', ToldFirst(c), ToldBefore(c), ToldAhead(c), Moves(c),
           PolicyRefuses(c.tool) => PolicyRefuses(c.tool)'
    PROVE  ToldFirst(c)' /\ ToldBefore(c)' /\ ToldAhead(c)'
<1>0. DOMAIN act'.calls = DOMAIN act.calls /\ c.tool \in Tools
  BY DEF Moves, Calls
<1>a. \A s : /\ DOMAIN publish_events(c, s) = DOMAIN events \cup {c}
             /\ c \in DOMAIN events => publish_events(c, s)[c] = events[c]
             /\ c \notin DOMAIN events => publish_events(c, s)[c] = s
  BY DEF publish_events
<1>1. CASE Denies(c)
  <2>1. UNCHANGED ledger /\ act'.calls[c] \in {"done", "asking"}
    BY <1>1 DEF Denies
  <2>2. ToldAhead(c)'
    BY <2>1 DEF ToldAhead
  <2>3. CASE UNCHANGED events
    BY <2>1, <2>2, <2>3 DEF ToldFirst, ToldBefore
  <2>4. CASE PolicyRefuses(c.tool) /\ events' = publish_events(c, "denied")
    <3>1. c \in DOMAIN events' /\ (c \in DOMAIN events => events'[c] = events[c])
      BY <1>a, <2>4
    <3>2. ToldFirst(c)'
      BY <2>1, <3>1 DEF ToldFirst
    <3>3. ToldBefore(c)'
      BY <2>4 DEF ToldBefore
    <3> QED BY <2>2, <3>2, <3>3
  <2> QED BY <1>1, <2>3, <2>4 DEF Denies
<1>2. CASE Passes(c)
  <2>1. UNCHANGED <<ledger, events>> /\ act'.calls[c] = "allowed" /\ ~PolicyRefuses(c.tool)
    BY <1>2 DEF Passes
  <2>2. ToldFirst(c)' /\ ToldBefore(c)'
    BY <2>1 DEF ToldFirst, ToldBefore
  <2>3. ToldAhead(c)'
    BY <2>1 DEF ToldAhead, ToldBefore
  <2> QED BY <2>2, <2>3
<1>3. CASE Takes(c)
  <2>1. UNCHANGED events /\ act.calls[c] = "allowed" /\ act'.calls[c] = "running" /\ Claims(c) = "run"
    BY <1>3 DEF Takes
  <2>2. CASE c \notin DOMAIN ledger
    <3>1. c \notin DOMAIN events'
      BY <1>0, <2>1, <2>2 DEF ToldAhead
    <3>2. ledger'[c].status = "started"
      BY <1>0, <2>1 DEF Starts, Active
    <3> QED BY <2>1, <3>1, <3>2 DEF ToldFirst, ToldBefore, ToldAhead
  <2>3. CASE c \in DOMAIN ledger
    <3>1. UNCHANGED ledger
      BY <1>3, <2>3 DEF Takes
    <3>2. ledger[c].status = "started"
      BY <1>0, <2>1, <3>1 DEF Starts, Active
    <3>3. Info[c.tool].readOnly \/ ledger[c].approved
      BY <2>1, <2>3, <3>2 DEF Claims
    <3>4. ToldFirst(c)' /\ ToldBefore(c)'
      BY <2>1, <3>1 DEF ToldFirst, ToldBefore
    <3>5. ToldAhead(c)'
      BY <2>1, <2>3, <3>1, <3>2, <3>3 DEF ToldAhead
    <3> QED BY <3>4, <3>5
  <2> QED BY <2>2, <2>3
<1>4. CASE GivesBack(c)
  <2>1. /\ UNCHANGED ledger /\ act'.calls[c] = "done" /\ c \in DOMAIN ledger /\ Claims(c) # "run"
        /\ events' = publish_events(c, Claims(c))
    BY <1>4 DEF GivesBack
  <2>2. c \in DOMAIN events' /\ (c \in DOMAIN events => events'[c] = events[c])
    BY <1>a, <2>1
  <2>3. ToldFirst(c)'
    BY <2>1, <2>2 DEF ToldFirst
  <2>4. ledger[c].status = "started" => ~Info[c.tool].readOnly
    BY <2>1 DEF Claims
  <2>5. ToldBefore(c)' /\ ToldAhead(c)'
    BY <2>1, <2>4 DEF ToldBefore, ToldAhead
  <2> QED BY <2>3, <2>5
<1>5. CASE Ends(c)
  <2>1. UNCHANGED <<ledger, events>> /\ act.calls[c] = "running" /\ act'.calls[c] \in {"succeeded", "failed_permanent"}
    BY <1>5 DEF Ends
  <2>2. act'.calls[c] = "failed_permanent" => ~Info[c.tool].readOnly
    BY <1>0, <1>5 DEF Ends, Steady
  <2>3. ToldFirst(c)' /\ ToldBefore(c)'
    BY <2>1 DEF ToldFirst, ToldBefore
  <2>4. ToldAhead(c)'
    BY <2>1, <2>2 DEF ToldAhead
  <2> QED BY <2>3, <2>4
<1>6. CASE Tells(c)
  <2>1. /\ UNCHANGED ledger /\ act.calls[c] \in {"succeeded", "failed_permanent"} /\ act'.calls[c] = act.calls[c]
        /\ c \in DOMAIN events' /\ events'[c] = act.calls[c]
    BY <1>6, <1>a DEF Tells
  <2>2. c \in DOMAIN ledger /\ ledger[c].status = "started"
    BY <2>1 DEF Starts, Active
  <2>3. act.calls[c] = "failed_permanent" => ~Info[c.tool].readOnly
    BY DEF ToldAhead
  <2>4. ToldFirst(c)' /\ ToldBefore(c)'
    BY <2>1, <2>2, <2>3 DEF ToldFirst, ToldBefore
  <2>5. ToldAhead(c)'
    BY <2>1, <2>3 DEF ToldAhead
  <2> QED BY <2>4, <2>5
<1>7. CASE Records(c)
  <2>1. /\ UNCHANGED events /\ act.calls[c] \in {"succeeded", "failed_permanent"} /\ act'.calls[c] = "done"
        /\ c \in DOMAIN events /\ ledger' = finish_ledger(c, act.calls[c])
    BY <1>7 DEF Records
  <2>2. c \in DOMAIN ledger
    BY <2>1 DEF Starts, Active
  <2>3. c \in DOMAIN ledger' /\ ledger'[c] = [ledger[c] EXCEPT !.status = act.calls[c]]
    BY <2>1, <2>2 DEF finish_ledger
  <2>4. ledger'[c].status = act.calls[c] /\ ledger'[c].approved = ledger[c].approved
    BY <2>3
  <2>5. ToldFirst(c)'
    BY <2>1, <2>4 DEF ToldFirst, ToldAhead
  <2>6. ToldBefore(c)' /\ ToldAhead(c)'
    BY <2>1, <2>3, <2>4 DEF ToldBefore, ToldAhead
  <2> QED BY <2>5, <2>6
<1> QED BY <1>1, <1>2, <1>3, <1>4, <1>5, <1>6, <1>7 DEF Moves

\* Every step keeps to it.
LEMMA TellingNext ==
    ASSUME Steady, Sound, Starts, Telling, [Next]_vars
    PROVE  Telling'
<1>0. /\ Starts' /\ DOMAIN ledger' \subseteq Calls /\ DOMAIN act.calls \subseteq Calls /\ Calls' = Calls
  <2>1. ledger' \in Tables(LedgerRow)
    BY SoundNext DEF Sound, Typed
  <2>2. act.calls \in Tables(Phases)
    BY ActFields DEF Sound, Typed
  <2> QED BY <2>1, <2>2, TableParts, StartsNext DEF Calls
<1>1. CASE Quiet
  <2>1. \A t : PolicyRefuses(t) => PolicyRefuses(t)'
    BY <1>0, <1>1, RefusesStays DEF Quiet
  <2>2. ASSUME NEW c \in Calls  PROVE ToldFirst(c)' /\ ToldBefore(c)' /\ ToldAhead(c)'
    BY <1>0, <1>1, <2>1, ToldStays DEF Quiet, Telling
  <2> QED BY <1>0, <2>2 DEF Telling
<1>2. ASSUME NEW c \in DOMAIN act.calls, Moves(c)  PROVE Telling'
  <2>1. /\ DOMAIN ledger \subseteq DOMAIN ledger' /\ DOMAIN ledger' \subseteq DOMAIN ledger \cup {c}
        /\ \A d \in DOMAIN ledger \ {c} : ledger'[d] = ledger[d]
    BY <1>2 DEF Moves, Denies, Passes, Takes, GivesBack, Ends, Tells, Records, Claimed, finish_ledger
  <2>2. /\ DOMAIN events' \subseteq DOMAIN events \cup {c} /\ DOMAIN events \subseteq DOMAIN events'
        /\ \A d \in DOMAIN events : events'[d] = events[d]
    BY <1>2 DEF Moves, Denies, Passes, Takes, GivesBack, Ends, Tells, Records, publish_events
  <2>3. \A t : PolicyRefuses(t) => PolicyRefuses(t)'
    BY <1>0, <2>1, RefusesStays
  <2>4. ToldFirst(c)' /\ ToldBefore(c)' /\ ToldAhead(c)'
    BY <1>0, <1>2, <2>3, ToldMoves DEF Telling
  <2>5. ASSUME NEW d \in Calls, d # c  PROVE ToldFirst(d)' /\ ToldBefore(d)' /\ ToldAhead(d)'
    <3>1. d \in DOMAIN act'.calls => d \in DOMAIN act.calls /\ act'.calls[d] = act.calls[d]
      BY <1>2, <2>5 DEF Moves
    <3> QED BY <1>0, <2>1, <2>2, <2>3, <2>5, <3>1, ToldStays DEF Telling
  <2> QED BY <1>0, <2>4, <2>5 DEF Telling
<1> QED BY <1>1, <1>2, Effects

\* A recorded outcome was told before, and told as it is recorded, unless the call was approved to run again: if reads end as they
\* did before and the exploration node gets no extension (LedgerMiddleware.on_acting, finish_ledger, publish_events).
THEOREM OutcomesTold ==
    ASSUME Steady
    PROVE  Spec => []OutcomeTold
<1> DEFINE J == Sound /\ Starts /\ Telling
<1>1. Init => J
  <2> SUFFICES ASSUME Init  PROVE Telling
    BY SoundInit, ExploredInit
  <2>1. DOMAIN ledger = {} /\ DOMAIN act.calls = {} /\ DOMAIN events = {}
    BY DEF Init, Idle
  <2> QED BY <2>1 DEF Telling, ToldFirst, ToldBefore, ToldAhead
<1>2. J /\ [Next]_vars => J'
  BY SoundNext, StartsNext, TellingNext
<1>3. J => OutcomeTold
  <2> SUFFICES ASSUME J  PROVE OutcomeTold
    OBVIOUS
  <2>1. DOMAIN ledger \subseteq Calls
    BY TableParts DEF Sound, Typed
  <2> QED BY <2>1 DEF Telling, ToldFirst, OutcomeTold
<1> QED BY <1>1, <1>2, <1>3, PTL DEF Spec
=============================================================================
