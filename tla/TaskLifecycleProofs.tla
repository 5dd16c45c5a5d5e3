----------------------- MODULE TaskLifecycleProofs -----------------------
(***************************************************************************)
(* TaskLifecycle keeps its types, and at most one attempt writes the       *)
(* workspace, for any plan, any number of attempts, messages, operators    *)
(* and runs.                                                               *)
(*                                                                         *)
(* The second is because the books are kept.  An attempt is on the node's  *)
(* books or being started while its turn runs, because whatever takes it   *)
(* off them (its report, the verdict on its work, the cancel fallback)     *)
(* comes after the turn; and a write node is started only when no write    *)
(* node is on them.  All of it rests on one thing that is not the parent's *)
(* to ensure: that a cancel request is not spent on a turn that is ending  *)
(* (SpentCancels).                                                         *)
(***************************************************************************)
EXTENDS TaskLifecycle, SequenceTheorems, TLAPS

\* The provers' time for a leaf, in seconds.
USE ZenonT(3), SMTT(30), ZenonT(60)

(* The operators that make up a new plan, and what they return.            *)

LEMMA SetNodeType ==
    ASSUME NEW ns \in [Nodes -> NodeState], NEW n \in Nodes, NEW st \in NodeStatuses
    PROVE  SetNode(ns, n, st) \in [Nodes -> NodeState]
BY DEF SetNode, RefreshReadiness, NodeState, NodeStatuses

LEMMA FreezeType ==
    ASSUME NEW ns \in [Nodes -> NodeState], NEW n \in Nodes
    PROVE  Freeze(ns, n) \in [Nodes -> NodeState]
<1>1. [ns EXCEPT ![n].frozen = TRUE] \in [Nodes -> NodeState]
  BY ZenonT(60) DEF NodeState
<1> QED BY <1>1, SetNodeType, ZenonT(60) DEF Freeze, NodeStatuses

LEMMA LeaveType ==
    ASSUME NEW ns \in [Nodes -> NodeState], NEW a \in Ids
    PROVE  Leave(ns, a) \in [Nodes -> NodeState]
<1>1. a[1] \in Nodes /\ 0 \in 0..MaxNo
  BY LifecycleConstants DEF Ids
<1>2. [ns EXCEPT ![a[1]].cur = 0] \in [Nodes -> NodeState]
  BY <1>1 DEF NodeState
<1> QED BY <1>2 DEF Leave

Settlement == [nodes : [Nodes -> NodeState], retry : [Nodes -> RetryState], status : Statuses]

LEMMA RetryOrBlockType ==
    ASSUME TypeOK, NEW ns \in [Nodes -> NodeState], NEW n \in Nodes, NEW counted \in BOOLEAN,
           NEW retryable \in BOOLEAN
    PROVE  RetryOrBlock(ns, n, counted, retryable) \in Settlement
<1> DEFINE failed  == retry[n].failed + 1
           blocked == ~retryable \/ failed >= MaxTries
<1>1. failed \in Nat /\ blocked \in BOOLEAN
  BY DEF TypeOK, PlanTypes, RetryState
<1>2. SetNode(ns, n, IF blocked THEN "BLOCKED" ELSE "RETRY_PENDING") \in [Nodes -> NodeState]
  BY SetNodeType DEF NodeStatuses
<1>3. [failed |-> failed, blocked |-> blocked \/ retry[n].blocked, waiting |-> ~blocked] \in RetryState
  BY <1>1 DEF TypeOK, PlanTypes, RetryState
<1> QED BY <1>1, <1>2, <1>3 DEF RetryOrBlock, Settlement, TypeOK, PlanTypes, TaskTypes, Statuses, Halted, OperatorHeld

LEMMA AttemptCancelledType ==
    ASSUME TypeOK, NEW ns \in [Nodes -> NodeState], NEW n \in Nodes, NEW counted \in BOOLEAN
    PROVE  AttemptCancelled(ns, n, counted) \in Settlement
<1>1. SetNode(ns, n, "RETRY_PENDING") \in [Nodes -> NodeState]
  BY SetNodeType DEF NodeStatuses
<1> QED BY <1>1, ZenonT(60) DEF AttemptCancelled, Settlement, TypeOK, PlanTypes, TaskTypes, RetryState

LEMMA SettleNodeType ==
    ASSUME TypeOK, NEW a \in Ids, NEW outcome \in Outcomes, NEW rejected \in BOOLEAN, NEW spent \in BOOLEAN
    PROVE  SettleNode(a, outcome, rejected, spent) \in Settlement
<1>1. a[1] \in Nodes /\ att[a].counted \in BOOLEAN
  BY DEF Ids, TypeOK, BookTypes, Attempt
<1>2. nodes \in [Nodes -> NodeState] /\ retry \in [Nodes -> RetryState] /\ status \in Statuses
  BY DEF TypeOK, PlanTypes, TaskTypes
<1>3. /\ RetryOrBlock(nodes, a[1], att[a].counted, TRUE) \in Settlement
      /\ RetryOrBlock(nodes, a[1], att[a].counted, outcome = "failed") \in Settlement
      /\ AttemptCancelled(nodes, a[1], att[a].counted) \in Settlement
      /\ Freeze(nodes, a[1]) \in [Nodes -> NodeState]
      /\ SetNode(nodes, a[1], "BLOCKED") \in [Nodes -> NodeState]
  BY <1>1, <1>2, RetryOrBlockType, AttemptCancelledType, FreezeType, SetNodeType, ZenonT(60) DEF NodeStatuses
<1> DEFINE reviewed == [nodes  |-> IF spent THEN SetNode(nodes, a[1], "BLOCKED")
                                    ELSE IF nodes[a[1]].st \in {"BLOCKED", "COMPLETED"} THEN nodes
                                         ELSE Freeze(nodes, a[1]),
                        retry  |-> retry,
                        status |-> IF spent \/ nodes[a[1]].st = "BLOCKED" THEN "PAUSED_NEEDS_REVIEW" ELSE status]
<1>4. reviewed \in Settlement
  <2>1. "PAUSED_NEEDS_REVIEW" \in Statuses
    BY DEF Statuses, Halted, OperatorHeld
  <2> QED BY <1>2, <1>3, <2>1 DEF Settlement
<1>5. \/ SettleNode(a, outcome, rejected, spent) = RetryOrBlock(nodes, a[1], att[a].counted, TRUE)
      \/ SettleNode(a, outcome, rejected, spent) = RetryOrBlock(nodes, a[1], att[a].counted, outcome = "failed")
      \/ SettleNode(a, outcome, rejected, spent) = AttemptCancelled(nodes, a[1], att[a].counted)
      \/ SettleNode(a, outcome, rejected, spent) = reviewed
  BY ZenonT(60) DEF SettleNode, Outcomes
<1> HIDE DEF reviewed
<1> QED BY <1>3, <1>4, <1>5, ZenonT(60)

(* Steps of the main loop that touch no node.                              *)
LEMMA LoopTyping ==
    ASSUME TypeOK, DrainDone \/ ScheduleDone \/ Derive \/ Flushed \/ Judge \/ CompletedFlushed \/ Rest \/ WakeUp
                     \/ Close \/ LastFlushed \/ StartLeaving \/ LeavingPass
    PROVE  TypeOK'
<1> USE DEF Awaits, LoopSteps
<1>1. UNCHANGED <<msgVars, planVars, bookVars, at, handVars, childVars>>
  BY ZenonT(60) DEF DrainDone, ScheduleDone, Derive, Flushed, Judge, CompletedFlushed, Rest, WakeUp, Close, LastFlushed,
         StartLeaving, LeavingPass, taskVars, loopVars
<1>2. MsgTypes' /\ PlanTypes' /\ BookTypes' /\ HandTypes' /\ ChildTypes'
  BY <1>1 DEF TypeOK, MsgTypes, PlanTypes, BookTypes, HandTypes, ChildTypes, msgVars, planVars, bookVars, handVars, childVars
<1>3. DerivedStatus \in Statuses
  BY DEF DerivedStatus, TypeOK, TaskTypes, Statuses, Halted
<1>4. ReadyOrder \in SUBSET Nodes
  BY DEF ReadyOrder
<1>5. LoopTypes'
  <2>1. pc' \in (Awaits \cup LoopSteps) \ {"VerifyProposal", "StartChild", "Delivered", "Refused"}
    BY DEF DrainDone, ScheduleDone, Derive, Flushed, Judge, CompletedFlushed, Rest, WakeUp, Close, LastFlushed,
           StartLeaving, LeavingPass, LoopTop, FlushTo
  <2>2. todo' \in SUBSET Nodes
    BY <1>4, ZenonT(60) DEF DrainDone, ScheduleDone, Derive, Flushed, Judge, CompletedFlushed, Rest, WakeUp, Close, LastFlushed,
           StartLeaving, LeavingPass, TypeOK, LoopTypes
  <2>3. leaving' \in BOOLEAN
    BY ZenonT(60) DEF DrainDone, ScheduleDone, Derive, Flushed, Judge, CompletedFlushed, Rest, WakeUp, Close, LastFlushed,
           StartLeaving, LeavingPass, TypeOK, LoopTypes
  <2>4. runs' = runs \/ runs' = runs + 1
    BY ZenonT(60) DEF DrainDone, ScheduleDone, Derive, Flushed, Judge, CompletedFlushed, Rest, WakeUp, Close, LastFlushed,
           StartLeaving, LeavingPass
  <2> QED BY <1>1, <2>1, <2>2, <2>3, <2>4 DEF TypeOK, LoopTypes
<1>6. TaskTypes'
  BY <1>3, ZenonT(60) DEF DrainDone, ScheduleDone, Derive, Flushed, Judge, CompletedFlushed, Rest, WakeUp, Close, LastFlushed,
         StartLeaving, LeavingPass, LoopTop, FlushTo, TypeOK, TaskTypes, taskVars, Statuses
<1> QED BY <1>2, <1>5, <1>6 DEF TypeOK

(* Steps of the main loop for an attempt.                                  *)
LEMMA AtType == ASSUME TypeOK, pc \in {"VerifyProposal", "StartChild", "Delivered", "Refused"}
                PROVE  at \in Ids /\ at[1] \in Nodes /\ at[2] \in 1..MaxNo /\ at = <<at[1], at[2]>>
BY DEF TypeOK, LoopTypes, Ids

LEMMA ResumeTyping ==
    ASSUME TypeOK, NEW a \in Ids, ResumeParked(a)
    PROVE  att' \in [Ids -> Attempt] /\ nodes' \in [Nodes -> NodeState] /\ woken' \in BOOLEAN
<1>1. a[1] \in Nodes /\ nodes \in [Nodes -> NodeState]
  BY DEF Ids, TypeOK, PlanTypes
<1>2. SetNode(nodes, a[1], "RUNNING") \in [Nodes -> NodeState]
  BY <1>1, SetNodeType DEF NodeStatuses
<1>3. [att EXCEPT ![a].st = "RUNNING"] \in [Ids -> Attempt]
  BY DEF TypeOK, BookTypes, Attempt, Active
<1> QED BY <1>1, <1>2, <1>3, ZenonT(60) DEF ResumeParked, Wake, TypeOK, TaskTypes, BookTypes

LEMMA DrainTyping ==
    ASSUME TypeOK, DrainMessageStays \/ (\E a \in Ids : DrainMessage(a)) \/ Delivered \/ Refused
    PROVE  TypeOK'
<1>1. CASE DrainMessageStays
  BY <1>1 DEF DrainMessageStays, TypeOK, TaskTypes, MsgTypes, PlanTypes, BookTypes, LoopTypes, HandTypes, ChildTypes,
              taskVars, planVars, bookVars, loopVars, handVars, childVars
<1>2. CASE \E a \in Ids : DrainMessage(a)
  <2> PICK a \in Ids : DrainMessage(a)  BY <1>2
  <2>1. MsgTypes'
    <3>1. MsgTypes
      BY DEF TypeOK
    <3>2. commands # <<>> /\ commands' = Tail(commands) /\ sent' = sent
      BY DEF DrainMessage
    <3>3. inbox' = inbox \/ inbox' = inbox \ {Head(commands)[2]}
      BY DEF DrainMessage
    <3>4. commands' \in Seq(Command)
      BY <3>1, <3>2 DEF MsgTypes
    <3> QED BY <3>1, <3>2, <3>3, <3>4 DEF MsgTypes
  <2>2. LoopTypes' BY DEF DrainMessage, TypeOK, LoopTypes, Awaits
  <2>3. ChildTypes' BY ZenonT(60) DEF DrainMessage, TypeOK, ChildTypes
  <2>4. TaskTypes' /\ PlanTypes' /\ BookTypes' /\ HandTypes'
    BY DEF DrainMessage, TypeOK, TaskTypes, PlanTypes, BookTypes, HandTypes, taskVars, planVars, bookVars, handVars
  <2> QED BY <2>1, <2>2, <2>3, <2>4 DEF TypeOK
<1>3. CASE Delivered
  <2>1. at \in Ids /\ UNCHANGED <<status, stop, msgVars, retry, byPerson, open, pending, fallback, todo, leaving, runs,
                                  handVars, childVars>>
    BY <1>3, AtType DEF Delivered
  <2>2. att' \in [Ids -> Attempt] /\ nodes' \in [Nodes -> NodeState] /\ woken' \in BOOLEAN
    BY <1>3, <2>1, ResumeTyping DEF Delivered, TypeOK, BookTypes, PlanTypes, TaskTypes
  <2>3. dirty' \in BOOLEAN /\ pc' = "Drain" /\ at' = NoId
    BY <1>3 DEF Delivered
  <2> QED BY <2>1, <2>2, <2>3 DEF TypeOK, TaskTypes, MsgTypes, PlanTypes, BookTypes, LoopTypes, HandTypes, ChildTypes,
              msgVars, handVars, childVars, LoopSteps
<1>4. CASE Refused
  <2>1. at \in Ids BY <1>4, AtType DEF Refused
  <2>2. [att EXCEPT ![at].closed = TRUE] \in [Ids -> Attempt]
    BY <2>1, ZenonT(60) DEF TypeOK, BookTypes, Attempt
  <2> QED BY <1>4, <2>2 DEF Refused, TypeOK, TaskTypes, MsgTypes, PlanTypes, BookTypes, LoopTypes, HandTypes, ChildTypes,
              taskVars, msgVars, planVars, handVars, childVars, LoopSteps
<1> QED BY <1>1, <1>2, <1>3, <1>4

LEMMA HeadCompletion ==
    ASSUME TypeOK, DrainCompletion
    PROVE  Head(commands)[2] \in Ids /\ Head(commands)[2][1] \in Nodes /\ Tail(commands) \in Seq(Command)
<1>1. commands \in Seq(Command)
  BY DEF TypeOK, MsgTypes
<1>2. commands # <<>> /\ Head(commands)[1] = "completion"
  BY DEF DrainCompletion
<1>3. Head(commands) \in Command /\ Tail(commands) \in Seq(Command)
  BY <1>1, <1>2
<1>4. Head(commands)[2] \in Ids
  BY <1>2, <1>3 DEF Command
<1>5. Head(commands)[2][1] \in Nodes
  BY <1>4 DEF Ids
<1> QED BY <1>3, <1>4, <1>5

LEMMA ProposalTyping ==
    ASSUME TypeOK, DrainCompletion \/ (\E ok \in BOOLEAN : SettleProposal(ok))
    PROVE  TypeOK'
<1> nodes \in [Nodes -> NodeState] /\ retry \in [Nodes -> RetryState] /\ att \in [Ids -> Attempt] /\ status \in Statuses
  BY DEF TypeOK, PlanTypes, BookTypes, TaskTypes
<1>1. CASE DrainCompletion
  <2> DEFINE a == Head(commands)[2]
  <2>1. a \in Ids /\ a[1] \in Nodes /\ Tail(commands) \in Seq(Command)
    BY <1>1, HeadCompletion
  <2>2. SetNode(nodes, a[1], "VERIFYING") \in [Nodes -> NodeState]
    BY <2>1, SetNodeType DEF NodeStatuses
  <2>3. [att EXCEPT ![a].verdict = "verifying"] \in [Ids -> Attempt]
    BY <2>1, ZenonT(60) DEF Attempt
  <2>4. UNCHANGED <<status, stop, woken, inbox, sent, retry, byPerson, open, pending, fallback, todo, leaving, runs,
                    handVars, childVars>>
    BY <1>1 DEF DrainCompletion
  <2>5. commands' \in Seq(Command) /\ nodes' \in [Nodes -> NodeState] /\ att' \in [Ids -> Attempt]
    BY <1>1, <2>1, <2>2, <2>3 DEF DrainCompletion
  <2>6. dirty' \in BOOLEAN
    BY <1>1, ZenonT(60) DEF DrainCompletion, TypeOK, TaskTypes
  <2>7. LoopTypes'
    BY <1>1, <2>1, <2>4 DEF DrainCompletion, TypeOK, LoopTypes, Awaits
  <2> QED BY <2>4, <2>5, <2>6, <2>7 DEF TypeOK, TaskTypes, MsgTypes, PlanTypes, BookTypes, HandTypes, ChildTypes,
              handVars, childVars
<1>2. CASE \E ok \in BOOLEAN : SettleProposal(ok)
  <2> PICK ok \in BOOLEAN : SettleProposal(ok)  BY <1>2
  <2>1. at \in Ids /\ at[1] \in Nodes
    BY AtType DEF SettleProposal
  <2>2. Freeze(nodes, at[1]) \in [Nodes -> NodeState]
    BY <2>1, FreezeType
  <2>3. RetryOrBlock(nodes, at[1], att[at].counted, TRUE) \in Settlement
    BY <2>1, RetryOrBlockType, ZenonT(60) DEF Attempt
  <2>4. /\ [att EXCEPT ![at].verdict = "accepted"] \in [Ids -> Attempt]
        /\ [att EXCEPT ![at].verdict = "rejected", ![at].counted = TRUE] \in [Ids -> Attempt]
    <3>1. [att EXCEPT ![at].verdict = "accepted"] \in [Ids -> Attempt]
      BY <2>1, ZenonT(60) DEF Attempt
    <3>2. [att EXCEPT ![at].verdict = "rejected", ![at].counted = TRUE] \in [Ids -> Attempt]
      BY <2>1, ZenonT(60) DEF Attempt
    <3> QED BY <3>1, <3>2
  <2>5. /\ nodes' \in [Nodes -> NodeState] /\ retry' \in [Nodes -> RetryState]
        /\ att' \in [Ids -> Attempt] /\ status' \in Statuses
    BY <2>2, <2>3, <2>4, ZenonT(60) DEF SettleProposal, Apply, Settlement
  <2>6. /\ UNCHANGED <<stop, woken, msgVars, byPerson, open, pending, fallback, todo, leaving, runs, handVars, childVars>>
        /\ pc' = "Drain" /\ at' = NoId
    BY DEF SettleProposal
  <2>7. dirty' \in BOOLEAN
    BY ZenonT(60) DEF SettleProposal, TypeOK, TaskTypes
  <2> QED BY <2>5, <2>6, <2>7 DEF TypeOK, TaskTypes, MsgTypes, PlanTypes, BookTypes, LoopTypes, HandTypes, ChildTypes,
              msgVars, handVars, childVars, LoopSteps
<1> QED BY <1>1, <1>2

LEMMA StartTyping ==
    ASSUME TypeOK, (\E n \in Nodes : ScheduleNode(n)) \/ AttemptStarted \/ ContinueAsNew
    PROVE  TypeOK'
<1>1. CASE \E n \in Nodes : ScheduleNode(n)
  <2> PICK n \in Nodes : ScheduleNode(n)  BY <1>1
  <2> DEFINE a == <<n, nodes[n].count + 1>>
  <2>1. nodes[n].count < MaxNo => a \in Ids
    BY LifecycleConstants DEF TypeOK, PlanTypes, NodeState, Ids
  <2>2. UNCHANGED <<taskVars, commands, sent, planVars, bookVars, leaving, runs, handVars, cancelReq, unread, mail, lost>>
    BY DEF ScheduleNode
  <2>3. nodes[n].count \in Int /\ MaxNo \in Int
    BY LifecycleConstants DEF TypeOK, PlanTypes, NodeState
  <2>4. LoopTypes'
    <3>1. /\ pc = "Schedule" /\ todo' = todo \ {n}
          /\ \/ UNCHANGED <<pc, at>>
             \/ pc' = "StartChild" /\ at' = a /\ ~(nodes[n].count >= MaxNo)
      BY DEF ScheduleNode
    <3>2. ~(nodes[n].count >= MaxNo) => a \in Ids
      BY <2>1, <2>3
    <3>3. LoopTypes
      BY DEF TypeOK
    <3> HIDE DEF a
    <3> QED BY <2>2, <3>1, <3>2, <3>3 DEF LoopTypes, Awaits
  <2>5. inbox' \in SUBSET MsgIds /\ child' \in [Ids -> {"none", "running", "parkedApproval", "parkedInput", "closed"}]
    BY <2>1, <2>3, ZenonT(60) DEF ScheduleNode, TypeOK, MsgTypes, ChildTypes
  <2> QED BY <2>2, <2>4, <2>5 DEF TypeOK, TaskTypes, MsgTypes, PlanTypes, BookTypes, HandTypes, ChildTypes,
              taskVars, planVars, bookVars, handVars
<1>2. CASE AttemptStarted
  <2>1. at \in Ids /\ at[1] \in Nodes /\ at[2] \in 1..MaxNo
    BY <1>2, AtType DEF AttemptStarted
  <2>2. open' \in [Nodes -> 0..MaxNo]
    <3>1. open' = [open EXCEPT ![at[1]] = at[2]]
      BY <1>2 DEF AttemptStarted
    <3>2. open \in [Nodes -> 0..MaxNo]
      BY DEF TypeOK, BookTypes
    <3>3. at[2] \in 0..MaxNo
      BY <2>1, LifecycleConstants
    <3> QED BY <2>1, <3>1, <3>2, <3>3
  <2>3. att' \in [Ids -> Attempt]
    BY <1>2, <2>1 DEF AttemptStarted, TypeOK, BookTypes, Attempt, NewAttempt, Active
  <2>4. nodes' \in [Nodes -> NodeState]
    <3>1. nodes' = [nodes EXCEPT ![at[1]].cur = at[2], ![at[1]].count = at[2], ![at[1]].st = "RUNNING"]
      BY <1>2 DEF AttemptStarted
    <3>2. nodes \in [Nodes -> NodeState]
      BY DEF TypeOK, PlanTypes
    <3>3. at[2] \in 0..MaxNo
      BY <2>1, LifecycleConstants
    <3> QED BY <2>1, <3>1, <3>2, <3>3 DEF NodeState, NodeStatuses
  <2> QED BY <1>2, <2>2, <2>3, <2>4 DEF AttemptStarted, TypeOK, TaskTypes, MsgTypes, PlanTypes, BookTypes, LoopTypes,
              HandTypes, ChildTypes, msgVars, handVars, childVars, LoopSteps
<1>3. CASE ContinueAsNew
  <2>1. retry' \in [Nodes -> RetryState]
    BY <1>3 DEF ContinueAsNew, TypeOK, PlanTypes, NoRetry, RetryState
  <2>2. fallback' \in SUBSET Ids
    BY <1>3 DEF ContinueAsNew, OpenIds
  <2> QED BY <1>3, <2>1, <2>2, ZenonT(60) DEF ContinueAsNew, TypeOK, TaskTypes, MsgTypes, PlanTypes, BookTypes, LoopTypes,
              HandTypes, ChildTypes, msgVars, handVars, childVars, LoopSteps
<1> QED BY <1>1, <1>2, <1>3

(* The signals of the attempts.                                            *)
LEMMA HandlesTyping ==
    ASSUME TypeOK, NEW a \in Ids, Handles(a)
    PROVE  /\ Head(mail[a]) \in Report /\ woken' \in BOOLEAN
           /\ ChildTypes' /\ MsgTypes' /\ LoopTypes' /\ byPerson' \in SUBSET Nodes /\ stop' \in BOOLEAN
           /\ UNCHANGED <<deciding, control>>
<1>1. mail[a] \in Seq(Report) /\ mail[a] # <<>>
  BY DEF Handles, TypeOK, ChildTypes
<1>2. Head(mail[a]) \in Report /\ Tail(mail[a]) \in Seq(Report)
  BY <1>1
<1>3. mail' \in [Ids -> Seq(Report)]
  BY <1>2 DEF Handles, TypeOK, ChildTypes
<1>4. ChildTypes'
  BY <1>3 DEF Handles, TypeOK, ChildTypes
<1> QED BY <1>2, <1>4 DEF Handles, Wake, TypeOK, TaskTypes, MsgTypes, PlanTypes, LoopTypes, msgVars, loopVars

\* What a handler leaves of the plan, the books and the task's flags is what their types allow.
LEMMA HandlerQED ==
    ASSUME TypeOK, ChildTypes', MsgTypes', LoopTypes', HandTypes',
           byPerson' \in SUBSET Nodes, stop' \in BOOLEAN, woken' \in BOOLEAN, dirty' \in BOOLEAN,
           status' \in Statuses, nodes' \in [Nodes -> NodeState], retry' \in [Nodes -> RetryState],
           open' \in [Nodes -> 0..MaxNo], att' \in [Ids -> Attempt], pending' \in SUBSET Ids,
           fallback' \in SUBSET Ids
    PROVE  TypeOK'
BY DEF TypeOK, TaskTypes, PlanTypes, BookTypes

LEMMA MarkTyping ==
    ASSUME TypeOK, NEW a \in Ids, MarkAttemptCancelled(a)
    PROVE  /\ status' \in Statuses /\ nodes' \in [Nodes -> NodeState] /\ retry' \in [Nodes -> RetryState]
           /\ open' \in [Nodes -> 0..MaxNo] /\ pending' \in SUBSET Ids /\ fallback' \in SUBSET Ids
           /\ dirty' \in BOOLEAN
<1> DEFINE s == AttemptCancelled(nodes, a[1], att[a].counted)
<1>1. a[1] \in Nodes /\ nodes \in [Nodes -> NodeState] /\ att[a].counted \in BOOLEAN
  BY DEF Ids, TypeOK, PlanTypes, BookTypes, Attempt
<1>2. s \in Settlement
  BY <1>1, AttemptCancelledType
<1>3. Leave(s.nodes, a) \in [Nodes -> NodeState]
  BY <1>2, LeaveType DEF Settlement
<1>4. status' \in Statuses /\ nodes' \in [Nodes -> NodeState] /\ retry' \in [Nodes -> RetryState]
  BY <1>2, <1>3, ZenonT(60) DEF MarkAttemptCancelled, Apply, Settlement, TypeOK, TaskTypes, PlanTypes
<1>5. open' \in [Nodes -> 0..MaxNo]
  BY <1>1, LifecycleConstants DEF MarkAttemptCancelled, TakeOffBooks, TypeOK, BookTypes
<1> QED BY <1>4, <1>5 DEF MarkAttemptCancelled, TypeOK, BookTypes

LEMMA SettleTyping ==
    ASSUME TypeOK, NEW a \in Ids, NEW outcome \in Outcomes, NEW rejected \in BOOLEAN, NEW spent \in BOOLEAN,
           NEW ended \in Attempt, SettleAttempt(a, outcome, rejected, spent, ended)
    PROVE  /\ status' \in Statuses /\ nodes' \in [Nodes -> NodeState] /\ retry' \in [Nodes -> RetryState]
           /\ open' \in [Nodes -> 0..MaxNo] /\ att' \in [Ids -> Attempt] /\ dirty' \in BOOLEAN
<1> DEFINE s == SettleNode(a, outcome, rejected, spent)
<1>1. s \in Settlement
  BY SettleNodeType
<1>2. Leave(s.nodes, a) \in [Nodes -> NodeState]
  BY <1>1, LeaveType DEF Settlement
<1>3. status' \in Statuses /\ nodes' \in [Nodes -> NodeState] /\ retry' \in [Nodes -> RetryState]
  BY <1>1, <1>2 DEF SettleAttempt, Apply, Settlement
<1>4. a[1] \in Nodes /\ 0 \in 0..MaxNo
  BY LifecycleConstants DEF Ids
<1>5. open' \in [Nodes -> 0..MaxNo]
  BY <1>4 DEF SettleAttempt, TakeOffBooks, TypeOK, BookTypes
<1>6. [ended EXCEPT !.counted = @ \/ rejected \/ outcome \in {"failed", "fatal"}] \in Attempt
  BY ZenonT(60) DEF Attempt
<1>7. att' \in [Ids -> Attempt]
  BY <1>6 DEF SettleAttempt, TypeOK, BookTypes
<1> QED BY <1>3, <1>5, <1>7 DEF SettleAttempt

LEMMA ReportTyping ==
    ASSUME TypeOK, NEW a \in Ids, NEW spent \in BOOLEAN,
           ReportDropped(a) \/ AttemptParked(a) \/ AttemptFinished(a, spent) \/ AttemptToVerify(a)
    PROVE  TypeOK'
<1>0. Handles(a)
  BY DEF ReportDropped, AttemptParked, AttemptFinished, AttemptToVerify
<1>1. /\ Head(mail[a]) \in Report /\ woken' \in BOOLEAN
      /\ ChildTypes' /\ MsgTypes' /\ LoopTypes' /\ byPerson' \in SUBSET Nodes /\ stop' \in BOOLEAN
      /\ UNCHANGED <<deciding, control>>
  BY <1>0, HandlesTyping
<1>2. /\ a[1] \in Nodes /\ nodes \in [Nodes -> NodeState] /\ att \in [Ids -> Attempt] /\ att[a] \in Attempt
      /\ finish \in [Ids -> {"idle", "awaitVerdict", "verifying"}]
      /\ retry \in [Nodes -> RetryState] /\ open \in [Nodes -> 0..MaxNo] /\ status \in Statuses
      /\ pending \in SUBSET Ids /\ fallback \in SUBSET Ids /\ dirty \in BOOLEAN
  BY DEF Ids, TypeOK, PlanTypes, BookTypes, HandTypes, TaskTypes
<1>3. finish' \in [Ids -> {"idle", "awaitVerdict", "verifying"}] => HandTypes'
  BY <1>1 DEF TypeOK, HandTypes
<1>4. CASE ReportDropped(a)
  BY <1>1, <1>2, <1>3, <1>4, HandlerQED DEF ReportDropped, bookVars
<1>5. CASE AttemptParked(a)
  <2>1. /\ SetNode(nodes, a[1], "AWAITING_APPROVAL") \in [Nodes -> NodeState]
        /\ SetNode(nodes, a[1], "AWAITING_INPUT") \in [Nodes -> NodeState]
    BY <1>2, SetNodeType DEF NodeStatuses
  <2>2. nodes' \in [Nodes -> NodeState]
    BY <1>5, <2>1 DEF AttemptParked
  <2>3. att' \in [Ids -> Attempt]
    BY <1>2, <1>5 DEF AttemptParked, Attempt, Active
  <2>4. pending' \in SUBSET Ids
    BY <1>2, <1>5 DEF AttemptParked
  <2> QED BY <1>1, <1>2, <1>3, <1>5, <2>2, <2>3, <2>4, HandlerQED, ZenonT(60) DEF AttemptParked
<1>6. CASE AttemptFinished(a, spent)
  <2> DEFINE outcome == Head(mail[a])
  <2>1. outcome \in Outcomes
    BY <1>1, <1>6, ZenonT(60) DEF AttemptFinished, Parks, Report
  <2>2. EndedAs(a, outcome) \in Attempt
    BY <1>2, <2>1, ZenonT(60) DEF EndedAs, Attempt
  <2>3. finish' = finish
    BY <1>6, ZenonT(60) DEF AttemptFinished
  <2>4. CASE outcome = "completed" /\ status = "CANCELLED"
    <3>1. MarkAttemptCancelled(a) /\ att' \in [Ids -> Attempt]
      BY <1>2, <1>6, <2>2, <2>4 DEF AttemptFinished
    <3> HIDE DEF outcome
    <3> QED BY <1>1, <1>2, <1>3, <2>3, <3>1, MarkTyping, HandlerQED
  <2>5. CASE ~(outcome = "completed" /\ status = "CANCELLED")
    <3> DEFINE rejected == outcome = "completed" /\ att[a].verdict = "rejected"
               ended    == EndedAs(a, outcome)
    <3>1. AttemptEnded(a) /\ SettleAttempt(a, outcome, rejected, spent, ended)
      BY <1>6, <2>5 DEF AttemptFinished
    <3>2. pending' \in SUBSET Ids /\ fallback' \in SUBSET Ids
      BY <1>2, <3>1 DEF AttemptEnded
    <3>3. rejected \in BOOLEAN
      OBVIOUS
    <3> HIDE DEF outcome, rejected, ended
    <3>4. ended \in Attempt
      BY <2>2 DEF ended
    <3>5. /\ status' \in Statuses /\ nodes' \in [Nodes -> NodeState] /\ retry' \in [Nodes -> RetryState]
          /\ open' \in [Nodes -> 0..MaxNo] /\ att' \in [Ids -> Attempt] /\ dirty' \in BOOLEAN
      BY <2>1, <3>1, <3>3, <3>4, SettleTyping
    <3> QED BY <1>1, <1>2, <1>3, <2>3, <3>2, <3>5, HandlerQED, ZenonT(60)
  <2> QED BY <2>4, <2>5
<1>7. CASE AttemptToVerify(a)
  <2>1. SetNode(nodes, a[1], "VERIFYING") \in [Nodes -> NodeState]
    BY <1>2, SetNodeType DEF NodeStatuses
  <2>2. nodes' \in [Nodes -> NodeState]
    BY <1>2, <1>7, <2>1 DEF AttemptToVerify
  <2>3. [EndedAs(a, "completed") EXCEPT !.verdict = "verifying"] \in Attempt
    BY <1>2, ZenonT(60) DEF EndedAs, Attempt, Outcomes
  <2>4. att' \in [Ids -> Attempt]
    BY <1>2, <1>7, <2>3 DEF AttemptToVerify
  <2>5. finish' \in [Ids -> {"idle", "awaitVerdict", "verifying"}]
    BY <1>2, <1>7 DEF AttemptToVerify
  <2>6. pending' \in SUBSET Ids /\ fallback' \in SUBSET Ids
    BY <1>2, <1>7 DEF AttemptToVerify, AttemptEnded
  <2> QED BY <1>1, <1>2, <1>3, <1>7, <2>2, <2>4, <2>5, <2>6, HandlerQED, ZenonT(60) DEF AttemptToVerify
<1> QED BY <1>4, <1>5, <1>6, <1>7

LEMMA AnswerTyping ==
    ASSUME TypeOK, NEW a \in Ids,
           (\E ok, spent \in BOOLEAN : AttemptVerified(a, ok, spent)) \/ DecisionSignalled(a) \/ CancelFallback(a)
    PROVE  TypeOK'
<1>1. /\ a[1] \in Nodes /\ nodes \in [Nodes -> NodeState] /\ att \in [Ids -> Attempt] /\ att[a] \in Attempt
      /\ finish \in [Ids -> {"idle", "awaitVerdict", "verifying"}]
      /\ retry \in [Nodes -> RetryState] /\ open \in [Nodes -> 0..MaxNo] /\ status \in Statuses
      /\ pending \in SUBSET Ids /\ fallback \in SUBSET Ids /\ dirty \in BOOLEAN /\ woken \in BOOLEAN
  BY DEF Ids, TypeOK, PlanTypes, BookTypes, HandTypes, TaskTypes
<1>2. UNCHANGED <<stop, msgVars, byPerson, loopVars, control, childVars>>
  BY ZenonT(60) DEF AttemptVerified, DecisionSignalled, CancelFallback, handVars
<1>3. MsgTypes' /\ LoopTypes' /\ ChildTypes' /\ stop' \in BOOLEAN /\ byPerson' \in SUBSET Nodes
  BY <1>2 DEF TypeOK, TaskTypes, PlanTypes, MsgTypes, LoopTypes, ChildTypes, msgVars, loopVars, childVars
<1>4. CASE \E ok, spent \in BOOLEAN : AttemptVerified(a, ok, spent)
  <2> PICK ok \in BOOLEAN, spent \in BOOLEAN : AttemptVerified(a, ok, spent)  BY <1>4
  <2> DEFINE verdict == IF ok THEN "accepted" ELSE "rejected"
             ended   == [att[a] EXCEPT !.verdict = verdict]
             judged  == [att EXCEPT ![a].verdict = verdict]
  <2>1. ended \in Attempt /\ judged \in [Ids -> Attempt]
    BY <1>1 DEF Attempt
  <2>2. HandTypes'
    BY <1>1, <1>2 DEF AttemptVerified, TypeOK, HandTypes
  <2>3. CASE IsOpen(a) /\ status # "CANCELLED"
    <3>1. SettleAttempt(a, "completed", ~ok, spent, ended) /\ Wake /\ UNCHANGED <<fallback, pending>>
      BY <2>3 DEF AttemptVerified
    <3> HIDE DEF ended
    <3>2. /\ status' \in Statuses /\ nodes' \in [Nodes -> NodeState] /\ retry' \in [Nodes -> RetryState]
          /\ open' \in [Nodes -> 0..MaxNo] /\ att' \in [Ids -> Attempt] /\ dirty' \in BOOLEAN
      BY <2>1, <3>1, SettleTyping, ZenonT(60) DEF Outcomes
    <3>3. woken' \in BOOLEAN /\ pending' \in SUBSET Ids /\ fallback' \in SUBSET Ids
      BY <1>1, <3>1 DEF Wake
    <3> QED BY <1>3, <2>2, <3>2, <3>3, HandlerQED
  <2>4. CASE ~(IsOpen(a) /\ status # "CANCELLED") /\ IsOpen(a)
    <3>1. att' = judged /\ MarkAttemptCancelled(a) /\ UNCHANGED woken
      BY <2>4 DEF AttemptVerified
    <3> QED BY <1>1, <1>3, <2>1, <2>2, <3>1, MarkTyping, HandlerQED
  <2>5. CASE ~IsOpen(a)
    <3>1. att' = judged /\ UNCHANGED <<woken, open, fallback, pending, dirty, nodes, retry, status>>
      BY <2>5 DEF AttemptVerified
    <3> QED BY <1>1, <1>3, <2>1, <2>2, <3>1, HandlerQED
  <2> QED BY <2>3, <2>4, <2>5
<1>5. CASE DecisionSignalled(a)
  <2>1. SetNode(nodes, a[1], "RUNNING") \in [Nodes -> NodeState]
    BY <1>1, SetNodeType DEF NodeStatuses
  <2>2. nodes' \in [Nodes -> NodeState]
    BY <1>1, <1>5, <2>1 DEF DecisionSignalled
  <2>3. att' \in [Ids -> Attempt]
    <3> DEFINE att1 == [att EXCEPT ![a].closed = @ \/ (deciding[a] = "gone" /\ IsOpen(a))]
    <3>0. (att[a].closed \/ (deciding[a] = "gone" /\ IsOpen(a))) \in BOOLEAN
      OBVIOUS
    <3>1. att1 \in [Ids -> Attempt]
      BY <1>1, <3>0, ZenonT(60) DEF Attempt
    <3>2. [att1 EXCEPT ![a].st = "RUNNING"] \in [Ids -> Attempt]
      <4> HIDE DEF att1
      <4> QED BY <3>1 DEF Attempt, Active
    <3> QED BY <1>5, <3>1, <3>2 DEF DecisionSignalled
  <2>4. HandTypes'
    BY <1>5 DEF DecisionSignalled, TypeOK, HandTypes
  <2>5. woken' \in BOOLEAN /\ dirty' \in BOOLEAN
    BY <1>1, <1>5, ZenonT(60) DEF DecisionSignalled, Wake
  <2> QED BY <1>1, <1>3, <1>5, <2>2, <2>3, <2>4, <2>5, HandlerQED DEF DecisionSignalled
<1>6. CASE CancelFallback(a)
  <2>1. HandTypes' /\ UNCHANGED <<woken, att>>
    BY <1>6 DEF CancelFallback, TypeOK, HandTypes, handVars
  <2>2. CASE IsOpen(a)
    BY <1>1, <1>3, <1>6, <2>1, <2>2, MarkTyping, HandlerQED, ZenonT(60) DEF CancelFallback
  <2>3. CASE ~IsOpen(a)
    BY <1>1, <1>3, <1>6, <2>1, <2>3, HandlerQED DEF CancelFallback
  <2> QED BY <2>2, <2>3
<1> QED BY <1>4, <1>5, <1>6

(* The commands.                                                           *)
LEMMA QueueTyping ==
    ASSUME TypeOK, QueueMessage
    PROVE  MsgTypes'
<1>1. sent + 1 \in 1..MaxMessages
  BY LifecycleConstants DEF QueueMessage, TypeOK, MsgTypes
<1>2. <<0, sent + 1>> \in MsgIds
  BY <1>1 DEF MsgIds
<1>3. <<"message", <<0, sent + 1>>>> \in Command
  BY <1>2 DEF Command
<1>4. inbox' \in SUBSET MsgIds
  BY <1>2, ZenonT(60) DEF QueueMessage, TypeOK, MsgTypes
<1>5. commands' \in Seq(Command)
  BY <1>3 DEF QueueMessage, TypeOK, MsgTypes
<1> QED BY <1>1, <1>4, <1>5, LifecycleConstants DEF QueueMessage, MsgTypes

LEMMA CommandTyping ==
    ASSUME TypeOK,
           \/ SendMessage
           \/ \E a \in Ids : ProposeCompletion(a) \/ DeclareBlocked(a) \/ DecideApproval(a)
           \/ \E n \in Nodes : CompleteNode(n) \/ BackoffOver(n)
    PROVE  TypeOK'
<1>1. CASE SendMessage
  <2>1. MsgTypes'
    BY <1>1, QueueTyping DEF SendMessage
  <2> QED BY <1>1, <2>1 DEF SendMessage, Wake, TypeOK, TaskTypes, PlanTypes, BookTypes, LoopTypes, HandTypes, ChildTypes,
              planVars, bookVars, loopVars, handVars, childVars
<1>2. ASSUME NEW a \in Ids, ProposeCompletion(a)  PROVE TypeOK'
  <2>1. <<"completion", a>> \in Command
    BY DEF Command
  <2>2. MsgTypes'
    <3>1. commands' = Append(commands, <<"completion", a>>) /\ inbox' = inbox /\ sent' = sent
      BY <1>2, ZenonT(60) DEF ProposeCompletion
    <3>2. MsgTypes
      BY DEF TypeOK
    <3>3. commands' \in Seq(Command)
      BY <2>1, <3>1, <3>2 DEF MsgTypes
    <3> QED BY <3>1, <3>2, <3>3 DEF MsgTypes
  <2> QED BY <1>2, <2>2, ZenonT(60) DEF ProposeCompletion, Wake, TypeOK, TaskTypes, PlanTypes, BookTypes, LoopTypes, HandTypes,
              ChildTypes, planVars, bookVars, loopVars, handVars, childVars
<1>3. ASSUME NEW a \in Ids, DeclareBlocked(a)  PROVE TypeOK'
  <2>1. a[1] \in Nodes
    BY DEF Ids
  <2>2. nodes' \in [Nodes -> NodeState]
    BY <1>3, <2>1, ZenonT(60) DEF DeclareBlocked, TypeOK, PlanTypes, NodeState, NodeStatuses
  <2> QED BY <1>3, <2>2 DEF DeclareBlocked, Wake, TypeOK, TaskTypes, MsgTypes, PlanTypes, BookTypes, LoopTypes, HandTypes,
              ChildTypes, msgVars, bookVars, loopVars, handVars, childVars
<1>4. ASSUME NEW a \in Ids, DecideApproval(a)  PROVE TypeOK'
  <2>1. att' \in [Ids -> Attempt] /\ nodes' \in [Nodes -> NodeState] /\ woken' \in BOOLEAN
    <3>1. CASE ResumeParked(a)
      BY <3>1, ResumeTyping
    <3>2. CASE UNCHANGED <<att, nodes, woken>>
      BY <3>2 DEF TypeOK, TaskTypes, PlanTypes, BookTypes
    <3> QED BY <1>4, <3>1, <3>2 DEF DecideApproval
  <2>2. /\ deciding' \in [Ids -> {"no", "reached", "gone"}]
        /\ child' \in [Ids -> {"none", "running", "parkedApproval", "parkedInput", "closed"}]
    BY <1>4, ZenonT(60) DEF DecideApproval, TypeOK, HandTypes, ChildTypes
  <2>3. pending' \in SUBSET Ids /\ dirty' = TRUE
    BY <1>4 DEF DecideApproval, TypeOK, BookTypes
  <2>4. UNCHANGED <<status, stop, msgVars, retry, byPerson, open, fallback, loopVars, finish, control,
                   cancelReq, unread, mail, lost>>
    BY <1>4 DEF DecideApproval
  <2> QED BY <2>1, <2>2, <2>3, <2>4 DEF TypeOK, TaskTypes, MsgTypes, PlanTypes, BookTypes, LoopTypes, HandTypes,
              ChildTypes, msgVars, loopVars
<1>5. ASSUME NEW n \in Nodes, CompleteNode(n)  PROVE TypeOK'
  <2>1. nodes' \in [Nodes -> NodeState]
    BY <1>5, FreezeType DEF CompleteNode, TypeOK, PlanTypes
  <2>2. retry' \in [Nodes -> RetryState]
    BY <1>5 DEF CompleteNode, TypeOK, PlanTypes, NoRetry, RetryState
  <2> QED BY <1>5, <2>1, <2>2, ZenonT(60) DEF CompleteNode, Wake, TypeOK, TaskTypes, MsgTypes, PlanTypes, BookTypes, LoopTypes,
              HandTypes, ChildTypes, msgVars, bookVars, loopVars, handVars, childVars
<1>6. ASSUME NEW n \in Nodes, BackoffOver(n)  PROVE TypeOK'
  <2>1. retry' \in [Nodes -> RetryState]
    BY <1>6, ZenonT(60) DEF BackoffOver, TypeOK, PlanTypes, RetryState
  <2> QED BY <1>6, <2>1 DEF BackoffOver, TypeOK, TaskTypes, MsgTypes, PlanTypes, BookTypes, LoopTypes, HandTypes,
              ChildTypes, taskVars, msgVars, bookVars, loopVars, handVars, childVars
<1> QED BY <1>1, <1>2, <1>3, <1>4, <1>5, <1>6

LEMMA ControlTyping ==
    ASSUME TypeOK,
           \/ \E c \in Controls, action \in ControlActions : ControlArrives(c, action)
           \/ \E c \in Controls : ControlGoesOn(c)
    PROVE  TypeOK'
<1>1. ASSUME NEW c \in Controls, NEW action \in ActionNames, NEW rest \in SUBSET Ids, NEW said \in BOOLEAN,
             ControlStep(c, action, rest, said)
      PROVE  /\ control' \in [Controls -> Handler] /\ \A d \in Controls : control'[d].st = "busy" => control'[d].on \in Ids
             /\ att' \in [Ids -> Attempt] /\ cancelReq' \in SUBSET Ids /\ TaskTypes'
             /\ nodes' \in [Nodes -> NodeState] /\ retry' \in [Nodes -> RetryState]
  <2>1. ToCancel(action, rest) \in SUBSET Ids
    BY DEF ToCancel, ActionNames, Interrupts
  <2>2. CASE ToCancel(action, rest) # {}
    <3> PICK a \in ToCancel(action, rest) :
          /\ control' = [control EXCEPT ![c] = [st |-> "busy", action |-> action, rest |-> rest \ {a}, on |-> a]]
          /\ att' = [att EXCEPT ![a].cancelling = TRUE]
          /\ cancelReq' = IF child[a] = "closed" THEN cancelReq ELSE cancelReq \cup {a}
          /\ dirty' = (dirty \/ said) /\ (IF said THEN Wake ELSE UNCHANGED woken)
          /\ UNCHANGED <<status, stop, nodes, retry>>
      BY <1>1, <2>2 DEF ControlStep
    <3>1. a \in Ids
      BY <2>1
    <3>2. /\ control' \in [Controls -> Handler]
          /\ \A d \in Controls : control'[d].st = "busy" => control'[d].on \in Ids
      BY <3>1 DEF TypeOK, HandTypes, Handler
    <3>3. att' \in [Ids -> Attempt]
      BY <3>1, ZenonT(60) DEF TypeOK, BookTypes, Attempt
    <3>4. cancelReq' \in SUBSET Ids
      BY <3>1 DEF TypeOK, ChildTypes
    <3>5. TaskTypes' /\ nodes' \in [Nodes -> NodeState] /\ retry' \in [Nodes -> RetryState]
      BY ZenonT(60) DEF TypeOK, TaskTypes, PlanTypes, Wake
    <3> QED BY <3>2, <3>3, <3>4, <3>5
  <2>3. CASE ToCancel(action, rest) = {}
    <3>1. /\ control' = [control EXCEPT ![c] = [st |-> "done", action |-> action, rest |-> {}, on |-> NoId]]
          /\ status' = Target(action)
          /\ stop' = (stop \/ action = "cancel")
          /\ dirty' = (dirty \/ said \/ status' # status \/ action = "cancel")
          /\ IF action # "interrupt" \/ said THEN Wake ELSE UNCHANGED woken
          /\ IF action = "resume" THEN UnblockNodes ELSE UNCHANGED <<nodes, retry>>
          /\ UNCHANGED <<att, cancelReq>>
      BY <1>1, <2>3 DEF ControlStep
    <3>2. /\ control' \in [Controls -> Handler]
          /\ \A d \in Controls : control'[d].st = "busy" => control'[d].on \in Ids
      BY <3>1, ZenonT(60) DEF TypeOK, HandTypes, Handler
    <3>3. Target(action) \in Statuses
      BY ZenonT(60) DEF Target, ActionNames, Statuses, Halted, OperatorHeld, TypeOK, TaskTypes
    <3>4. woken' \in BOOLEAN
      BY <3>1, ZenonT(60) DEF Wake, TypeOK, TaskTypes
    <3>5. TaskTypes'
      BY <3>1, <3>3, <3>4 DEF TypeOK, TaskTypes
    <3>6. nodes' \in [Nodes -> NodeState]
      <4>1. nodes \in [Nodes -> NodeState]
        BY DEF TypeOK, PlanTypes
      <4>2. \A n \in Nodes : [nodes[n] EXCEPT !.st = "READY"] \in NodeState
        BY <4>1 DEF NodeState, NodeStatuses
      <4>3. UnblockNodes => nodes' \in [Nodes -> NodeState]
        BY <4>1, <4>2 DEF UnblockNodes
      <4> QED BY <3>1, <4>1, <4>3
    <3>7. retry' \in [Nodes -> RetryState]
      <4>1. NoRetry \in RetryState
        BY DEF NoRetry, RetryState
      <4> QED BY <3>1, <4>1 DEF UnblockNodes, TypeOK, PlanTypes
    <3> QED BY <3>1, <3>2, <3>5, <3>6, <3>7 DEF TypeOK, BookTypes, ChildTypes
  <2> QED BY <2>2, <2>3
<1>2. ASSUME NEW c \in Controls, NEW action \in ControlActions, ControlArrives(c, action)  PROVE TypeOK'
  <2>1. action \in ActionNames /\ OpenIds \in SUBSET Ids /\ (action = "interrupt") \in BOOLEAN
    BY LifecycleConstants, ZenonT(60) DEF OpenIds
  <2>2. /\ ControlStep(c, action, OpenIds, action = "interrupt")
        /\ UNCHANGED <<byPerson, open, pending, fallback, loopVars, finish, deciding, child, unread, mail, lost>>
    BY <1>2, ZenonT(60) DEF ControlArrives
  <2>3. MsgTypes'
    BY <1>2, QueueTyping, ZenonT(60) DEF ControlArrives, TypeOK, MsgTypes, msgVars
  <2>4. /\ control' \in [Controls -> Handler] /\ \A d \in Controls : control'[d].st = "busy" => control'[d].on \in Ids
        /\ att' \in [Ids -> Attempt] /\ cancelReq' \in SUBSET Ids /\ TaskTypes'
        /\ nodes' \in [Nodes -> NodeState] /\ retry' \in [Nodes -> RetryState]
    BY <1>1, <2>1, <2>2, ZenonT(60)
  <2> QED BY <2>2, <2>3, <2>4 DEF TypeOK, PlanTypes, BookTypes, LoopTypes, HandTypes, ChildTypes, loopVars
<1>3. ASSUME NEW c \in Controls, ControlGoesOn(c)  PROVE TypeOK'
  <2>1. control[c].action \in ActionNames /\ control[c].rest \in SUBSET Ids /\ control[c].on \in Ids
    BY <1>3 DEF ControlGoesOn, TypeOK, HandTypes, Handler
  <2>2. /\ ControlStep(c, control[c].action, control[c].rest, FALSE)
        /\ UNCHANGED <<msgVars, byPerson, open, pending, loopVars, finish, deciding, child, unread, mail, lost>>
    BY <1>3, ZenonT(60) DEF ControlGoesOn
  <2>3. fallback' \in SUBSET Ids
    BY <1>3, <2>1, ZenonT(60) DEF ControlGoesOn, TypeOK, BookTypes
  <2>4. /\ control' \in [Controls -> Handler] /\ \A d \in Controls : control'[d].st = "busy" => control'[d].on \in Ids
        /\ att' \in [Ids -> Attempt] /\ cancelReq' \in SUBSET Ids /\ TaskTypes'
        /\ nodes' \in [Nodes -> NodeState] /\ retry' \in [Nodes -> RetryState]
    BY <1>1, <2>1, <2>2, ZenonT(60)
  <2> QED BY <2>2, <2>3, <2>4 DEF TypeOK, MsgTypes, PlanTypes, BookTypes, LoopTypes, HandTypes, ChildTypes, msgVars, loopVars
<1> QED BY <1>2, <1>3

LEMMA ChildTyping ==
    ASSUME TypeOK, NEW a \in Ids, ChildNext(a)
    PROVE  TypeOK'
<1>1. UNCHANGED <<taskVars, msgVars, planVars, bookVars, loopVars, handVars>>
  BY ZenonT(60) DEF ChildNext, ChildEnds, ChildFinishes, ChildParks, ChildCancelled, ChildLost, ChildStep
<1>2. mail[a] \in Seq(Report)
  BY DEF TypeOK, ChildTypes
<1>3. \A r \in Report : Append(mail[a], r) \in Seq(Report) /\ mail[a] \o <<r, r>> \in Seq(Report)
  BY <1>2
<1>4. mail' \in [Ids -> Seq(Report)]
  <2>1. \/ mail' = mail
        \/ \E r \in Report : \/ mail' = [mail EXCEPT ![a] = Append(mail[a], r)]
                            \/ mail' = [mail EXCEPT ![a] = mail[a] \o <<r, r>>]
    BY ZenonT(60) DEF ChildNext, ChildEnds, ChildFinishes, ChildParks, ChildCancelled, ChildLost, Report, Outcomes
  <2>2. mail \in [Ids -> Seq(Report)]
    BY DEF TypeOK, ChildTypes
  <2> QED BY <1>3, <2>1, <2>2, ZenonT(60)
<1>5. child' \in [Ids -> {"none", "running", "parkedApproval", "parkedInput", "closed"}]
  BY ZenonT(60) DEF ChildNext, ChildEnds, ChildFinishes, ChildParks, ChildCancelled, ChildLost, ChildCloses, TypeOK, ChildTypes
<1>6. cancelReq' \in SUBSET Ids /\ unread' \in SUBSET Ids /\ lost' \in SUBSET Ids
  BY ZenonT(60) DEF ChildNext, ChildEnds, ChildFinishes, ChildParks, ChildCancelled, ChildLost, ChildCloses, TypeOK, ChildTypes
<1> QED BY <1>1, <1>4, <1>5, <1>6 DEF TypeOK, TaskTypes, MsgTypes, PlanTypes, BookTypes, LoopTypes, HandTypes, ChildTypes,
           taskVars, msgVars, planVars, bookVars, loopVars, handVars
-----------------------------------------------------------------------------
LEMMA InitTyping == Init => TypeOK
<1> SUFFICES ASSUME Init  PROVE TypeOK
  OBVIOUS
<1>1. TaskTypes /\ MsgTypes
  <2>1. TaskTypes
    BY ZenonT(60) DEF Init, TaskTypes, Statuses
  <2>2. commands \in Seq(Command) /\ inbox \in SUBSET MsgIds
    BY DEF Init
  <2>3. sent \in 0..MaxMessages
    <3>1. sent = 0
      BY DEF Init
    <3>2. 0 \in 0..MaxMessages
      BY LifecycleConstants
    <3> QED BY <3>1, <3>2
  <2> QED BY <2>1, <2>2, <2>3 DEF MsgTypes
<1>0. LoopTypes
  <2>1. pc = "Drain" /\ at = NoId /\ todo = {} /\ leaving = FALSE /\ runs = 0
    BY DEF Init
  <2> QED BY <2>1, ZenonT(60) DEF LoopTypes, LoopSteps
<1>2. PlanTypes
  <2>1. [n \in Nodes |-> [st |-> "PENDING", frozen |-> FALSE, count |-> 0, cur |-> 0]] \in [Nodes -> NodeState]
    BY LifecycleConstants DEF NodeState, NodeStatuses
  <2> DEFINE blank == [n \in Nodes |-> [st |-> "PENDING", frozen |-> FALSE, count |-> 0, cur |-> 0]]
  <2>2. RefreshReadiness(blank) \in [Nodes -> NodeState]
    <3>1. blank \in [Nodes -> NodeState]
      BY <2>1
    <3> HIDE DEF blank
    <3> QED BY <3>1, ZenonT(60) DEF RefreshReadiness, NodeState, NodeStatuses
  <2>3. nodes = RefreshReadiness(blank) /\ retry = [n \in Nodes |-> NoRetry] /\ byPerson = {}
    BY DEF Init
  <2>4. NoRetry \in RetryState
    BY DEF NoRetry, RetryState
  <2> HIDE DEF blank
  <2> QED BY <2>2, <2>3, <2>4 DEF PlanTypes
<1>3. BookTypes
  <2>1. open = [n \in Nodes |-> 0] /\ att = [a \in Ids |-> NewAttempt] /\ pending = {} /\ fallback = {}
    BY DEF Init
  <2>2. NewAttempt \in Attempt
    BY DEF NewAttempt, Attempt, Active
  <2>3. 0 \in 0..MaxNo
    BY LifecycleConstants
  <2> QED BY <2>1, <2>2, <2>3 DEF BookTypes
<1>4. HandTypes
  <2> DEFINE unused == [st |-> "new", action |-> "pause", rest |-> {}, on |-> NoId]
  <2>1. /\ finish = [a \in Ids |-> "idle"] /\ deciding = [a \in Ids |-> "no"]
        /\ control = [c \in Controls |-> unused]
    BY DEF Init
  <2>2. unused \in Handler /\ unused.st = "new"
    BY DEF Handler, ActionNames
  <2> HIDE DEF unused
  <2> QED BY <2>1, <2>2 DEF HandTypes
<1>5. ChildTypes
  <2>1. /\ child = [a \in Ids |-> "none"] /\ mail = [a \in Ids |-> <<>>]
        /\ cancelReq = {} /\ unread = {} /\ lost = {}
    BY DEF Init
  <2> QED BY <2>1 DEF ChildTypes
<1> QED BY <1>0, <1>1, <1>2, <1>3, <1>4, <1>5 DEF TypeOK

LEMMA NextTyping == TypeOK /\ [Next]_vars => TypeOK'
<1> SUFFICES ASSUME TypeOK, [Next]_vars  PROVE TypeOK'
  OBVIOUS
<1>1. CASE MainStep
  BY <1>1, LoopTyping, DrainTyping, ProposalTyping, StartTyping DEF MainStep
<1>2. ASSUME NEW a \in Ids, HandlerStep(a)  PROVE TypeOK'
  BY <1>2, ReportTyping, AnswerTyping, ZenonT(60) DEF HandlerStep
<1>3. ASSUME NEW a \in Ids, ChildNext(a)  PROVE TypeOK'
  BY <1>3, ChildTyping
<1>4. ASSUME NEW n \in Nodes, BackoffOver(n)  PROVE TypeOK'
  BY <1>4, CommandTyping
<1>5. CASE CommandStep
  BY <1>5, CommandTyping, ControlTyping DEF CommandStep
<1>6. ASSUME NEW c \in Controls, ControlGoesOn(c)  PROVE TypeOK'
  BY <1>6, ControlTyping
<1>7. CASE UNCHANGED vars
  BY <1>7, ZenonT(60) DEF vars, TypeOK, TaskTypes, MsgTypes, PlanTypes, BookTypes, LoopTypes, HandTypes, ChildTypes,
           taskVars, msgVars, planVars, bookVars, loopVars, handVars, childVars
<1> QED BY <1>1, <1>2, <1>3, <1>4, <1>5, <1>6, <1>7 DEF Next

\* Whatever the plan, the bounds and the commands are, every variable of the workflow and of its
\* children keeps its type: no handler leaves a status, an attempt or a queue the code could not
\* read (task_base's state, and what the handlers of task_*.py make of it).
THEOREM TypeCorrect == Spec => []TypeOK
<1>1. Init => TypeOK
  BY InitTyping
<1>2. TypeOK /\ [Next]_vars => TypeOK'
  BY NextTyping
<1> QED BY <1>1, <1>2, PTL DEF Spec
-----------------------------------------------------------------------------
(* The books.                                                              *)

HasOutcome(a) == \E i \in 1..Len(mail[a]) : mail[a][i] \in Outcomes
Untouched(a)  == child[a] = "none" /\ mail[a] = <<>> /\ finish[a] = "idle"

\* An attempt reports its end, and its end is handled, after its child has closed.
ReportsLast == \A a \in Ids : HasOutcome(a) \/ finish[a] # "idle" => child[a] = "closed"

\* An attempt has its own child: no number is used twice (attempt_count).
NumbersFresh == \A a \in Ids : a[2] > nodes[a[1]].count => Starting(a) \/ Untouched(a)

\* The next attempt of a node is started when none is on its books.
StartsFree == \A a \in Ids : Starting(a) => open[a[1]] = 0 /\ a[2] = nodes[a[1]].count + 1

\* At most one write node is on the books, and none while one is being started.
OneOnBooks ==
    /\ \A m, n \in WriteNodes : open[m] # 0 /\ open[n] # 0 => m = n
    /\ \A a \in Ids : Starting(a) /\ a[1] \in WriteNodes => \A m \in WriteNodes : open[m] = 0

BooksKept == Accounted /\ ReportsLast /\ NumbersFresh /\ StartsFree /\ OneOnBooks

\* The attempt is being cancelled: it is marked so, a command awaits the answer to the request,
\* or its fallback timer is armed.
Asked(a) == \/ att[a].cancelling \/ a \in fallback
            \/ \E c \in Controls : control[c].st = "busy" /\ control[c].on = a

\* A cancel request stays with its child until that is closed.
CancelsHeld == \A a \in Ids : Asked(a) => child[a] = "closed" \/ a \in cancelReq
-----------------------------------------------------------------------------
(* What the steps do to the books.                                         *)

LEMMA IdParts == ASSUME NEW a \in Ids  PROVE a[1] \in Nodes /\ a[2] \in 1..MaxNo /\ a = <<a[1], a[2]>>
BY DEF Ids

\* A step of the workflow that starts no child and wakes none: it handles reports, and what it
\* takes off the books is not at work.
LEMMA BooksStep ==
    ASSUME TypeOK, BooksKept,
           UNCHANGED child,
           \A a \in Ids : mail'[a] = mail[a] \/ (mail[a] # <<>> /\ mail'[a] = Tail(mail[a])),
           \A a \in Ids : finish'[a] # "idle" => finish[a] # "idle" \/ child[a] = "closed",
           \A a \in Ids : open'[a[1]] # open[a[1]] => open'[a[1]] = 0 /\ (IsOpen(a) => ~Working(a)),
           \A n \in Nodes : nodes'[n].count = nodes[n].count,
           \A a \in Ids : Starting(a)' <=> Starting(a)
    PROVE  BooksKept'
<1>1. Accounted'
  <2> SUFFICES ASSUME NEW a \in Ids, Working(a)'  PROVE IsOpen(a)' \/ Starting(a)'
    BY DEF Accounted
  <2>1. IsOpen(a) \/ Starting(a)
    BY DEF BooksKept, Accounted, Working
  <2>2. CASE open'[a[1]] = open[a[1]]
    BY <2>1, <2>2 DEF IsOpen
  <2>3. CASE open'[a[1]] # open[a[1]]
    BY <2>1, <2>3 DEF IsOpen, Working
  <2> QED BY <2>2, <2>3
<1>2. ReportsLast'
  <2> SUFFICES ASSUME NEW a \in Ids, HasOutcome(a)' \/ finish'[a] # "idle"  PROVE child'[a] = "closed"
    BY DEF ReportsLast
  <2>1. mail[a] \in Seq(Report)
    BY DEF TypeOK, ChildTypes
  <2>2. HasOutcome(a)' => HasOutcome(a)
    <3>1. CASE mail'[a] = mail[a]
      BY <3>1 DEF HasOutcome
    <3>2. CASE mail[a] # <<>> /\ mail'[a] = Tail(mail[a])
      <4>1. /\ Len(Tail(mail[a])) = Len(mail[a]) - 1
            /\ \A i \in 1..Len(Tail(mail[a])) : Tail(mail[a])[i] = mail[a][i + 1] /\ i + 1 \in 1..Len(mail[a])
        BY <2>1, <3>2
      <4> QED BY <3>2, <4>1 DEF HasOutcome
    <3> QED BY <3>1, <3>2
  <2> QED BY <2>2 DEF BooksKept, ReportsLast
<1>3. NumbersFresh'
  <2> SUFFICES ASSUME NEW a \in Ids, a[2] > nodes'[a[1]].count  PROVE Starting(a)' \/ Untouched(a)'
    BY DEF NumbersFresh
  <2>1. Starting(a) \/ Untouched(a)
    BY IdParts DEF BooksKept, NumbersFresh
  <2> QED BY <2>1 DEF Untouched
<1>4. StartsFree'
  <2> SUFFICES ASSUME NEW a \in Ids, Starting(a)'  PROVE open'[a[1]] = 0 /\ a[2] = nodes'[a[1]].count + 1
    BY DEF StartsFree
  <2> QED BY IdParts DEF BooksKept, StartsFree
<1>5. OneOnBooks'
  <2>1. \A n \in Nodes : open'[n] # 0 => open[n] # 0
    <3> SUFFICES ASSUME NEW n \in Nodes, open'[n] # 0  PROVE open'[n] = open[n]
      OBVIOUS
    <3>1. <<n, 1>> \in Ids
      BY LifecycleConstants DEF Ids
    <3> QED BY <3>1
  <2>2. WriteNodes \subseteq Nodes
    BY LifecycleConstants DEF Nodes
  <2> QED BY <2>1, <2>2 DEF BooksKept, OneOnBooks
<1> QED BY <1>1, <1>2, <1>3, <1>4, <1>5 DEF BooksKept

\* A child that waits is woken, or stays as it is: it belongs to an attempt on the books.
LEMMA BooksHeard ==
    ASSUME TypeOK, BooksKept, NEW a \in Ids, IsOpen(a),
           \/ UNCHANGED child
           \/ child[a] \in {"parkedApproval", "parkedInput"} /\ child' = [child EXCEPT ![a] = "running"],
           UNCHANGED <<mail, finish, open>>,
           \A n \in Nodes : nodes'[n].count = nodes[n].count,
           \A b \in Ids : Starting(b)' <=> Starting(b)
    PROVE  BooksKept'
<1>1. CASE UNCHANGED child
  BY <1>1, BooksStep
<1>2. CASE child[a] \in {"parkedApproval", "parkedInput"} /\ child' = [child EXCEPT ![a] = "running"]
  <2>0. child \in [Ids -> {"none", "running", "parkedApproval", "parkedInput", "closed"}] /\ open \in [Nodes -> 0..MaxNo]
    BY DEF TypeOK, ChildTypes, BookTypes
  <2>1. Accounted'
    BY <1>2, <2>0 DEF BooksKept, Accounted, Working, IsOpen
  <2>2. ReportsLast'
    BY <1>2, <2>0 DEF BooksKept, ReportsLast, HasOutcome
  <2>3. NumbersFresh'
    <3> SUFFICES ASSUME NEW b \in Ids, b[2] > nodes'[b[1]].count  PROVE Starting(b)' \/ Untouched(b)'
      BY DEF NumbersFresh
    <3>1. Starting(b) \/ Untouched(b)
      BY IdParts DEF BooksKept, NumbersFresh
    <3> QED BY <1>2, <2>0, <3>1 DEF Untouched
  <2>4. StartsFree'
    BY IdParts DEF BooksKept, StartsFree
  <2>5. OneOnBooks'
    BY DEF BooksKept, OneOnBooks
  <2> QED BY <2>1, <2>2, <2>3, <2>4, <2>5 DEF BooksKept
<1> QED BY <1>1, <1>2

\* The start of a child, for the next number of a node that is free.
LEMMA BooksStart ==
    ASSUME TypeOK, BooksKept, NEW n \in Nodes, ScheduleNode(n)
    PROVE  BooksKept'
<1> DEFINE a == <<n, nodes[n].count + 1>>
<1>0. /\ child \in [Ids -> {"none", "running", "parkedApproval", "parkedInput", "closed"}]
      /\ open \in [Nodes -> 0..MaxNo] /\ nodes[n].count \in 0..MaxNo /\ MaxNo \in Nat
  BY LifecycleConstants DEF TypeOK, ChildTypes, BookTypes, PlanTypes, NodeState
<1>1. UNCHANGED <<mail, finish, open, nodes>> /\ pc = "Schedule"
  BY DEF ScheduleNode, planVars, bookVars, handVars
<1>2. CASE UNCHANGED <<inbox, pc, at, child>>
  BY <1>1, <1>2, BooksStep DEF Starting
<1>3. CASE ~UNCHANGED <<inbox, pc, at, child>>
  <2>1. /\ open[n] = 0 /\ (n \in WriteNodes => ~WriteBusy) /\ nodes[n].count < MaxNo
        /\ pc' = "StartChild" /\ at' = a /\ child' = [child EXCEPT ![a] = "running"]
    <3>1. /\ open[n] = 0 /\ (n \in WriteNodes => ~WriteBusy) /\ ~(nodes[n].count >= MaxNo)
          /\ pc' = "StartChild" /\ at' = a /\ child' = [child EXCEPT ![a] = "running"]
      BY <1>3 DEF ScheduleNode
    <3>2. nodes[n].count < MaxNo
      BY <1>0, <3>1
    <3> QED BY <3>1, <3>2
  <2>2. a \in Ids /\ a[1] = n /\ a[2] = nodes[n].count + 1
    BY <1>0, <2>1 DEF Ids
  <2> HIDE DEF a
  <2>3. \A b \in Ids : Starting(b)' <=> b = a
    BY <2>1 DEF Starting
  <2>4. \A b \in Ids : ~Starting(b)
    BY <1>1 DEF Starting
  <2>5. Untouched(a)
    BY <1>0, <2>2, <2>4 DEF BooksKept, NumbersFresh
  <2>6. Accounted'
    BY <1>0, <1>1, <2>1, <2>3, <2>4 DEF BooksKept, Accounted, Working, IsOpen
  <2>7. ReportsLast'
    BY <1>0, <1>1, <2>1, <2>2, <2>5 DEF BooksKept, ReportsLast, HasOutcome, Untouched
  <2>8. NumbersFresh'
    BY <1>0, <1>1, <2>1, <2>3, <2>4 DEF BooksKept, NumbersFresh, Untouched
  <2>9. StartsFree'
    BY <1>1, <2>1, <2>2, <2>3 DEF StartsFree
  <2>10. OneOnBooks'
    BY <1>1, <2>1, <2>2, <2>3 DEF BooksKept, OneOnBooks, WriteBusy
  <2> QED BY <2>6, <2>7, <2>8, <2>9, <2>10 DEF BooksKept
<1> QED BY <1>2, <1>3

\* The start is answered: the attempt goes on the books.
LEMMA BooksEnter ==
    ASSUME TypeOK, BooksKept, AttemptStarted
    PROVE  BooksKept'
<1>0. /\ open \in [Nodes -> 0..MaxNo] /\ nodes \in [Nodes -> NodeState] /\ MaxNo \in Nat
      /\ \A n \in Nodes : nodes[n].count \in 0..MaxNo
  BY LifecycleConstants DEF TypeOK, BookTypes, PlanTypes, NodeState
<1>1. at \in Ids /\ at[1] \in Nodes /\ at[2] \in 1..MaxNo /\ at = <<at[1], at[2]>> /\ Starting(at)
  BY AtType DEF AttemptStarted, Starting
<1>2. open[at[1]] = 0 /\ at[2] = nodes[at[1]].count + 1
  BY <1>1 DEF BooksKept, StartsFree
<1>3. /\ open' = [open EXCEPT ![at[1]] = at[2]] /\ UNCHANGED <<child, mail, finish>>
      /\ \A n \in Nodes : nodes'[n].count = IF n = at[1] THEN at[2] ELSE nodes[n].count
  BY <1>0, <1>1 DEF AttemptStarted, handVars, childVars, NodeState
<1>4. \A b \in Ids : ~Starting(b)'
  BY DEF AttemptStarted, Starting
<1>5. \A b \in Ids : Starting(b) => b = at
  BY DEF Starting
<1>6. Accounted'
  <2> SUFFICES ASSUME NEW b \in Ids, Working(b)'  PROVE IsOpen(b)'
    BY DEF Accounted
  <2>1. IsOpen(b) \/ b = at
    BY <1>3, <1>5 DEF BooksKept, Accounted, Working
  <2>2. CASE b = at
    BY <1>0, <1>1, <1>3, <2>2 DEF IsOpen
  <2>3. CASE IsOpen(b)
    <3>1. b[1] # at[1]
      BY <1>2, <2>3, IdParts DEF IsOpen
    <3> QED BY <1>0, <1>3, <2>3, <3>1, IdParts DEF IsOpen
  <2> QED BY <2>1, <2>2, <2>3
<1>7. ReportsLast'
  BY <1>3 DEF BooksKept, ReportsLast, HasOutcome
<1>8. NumbersFresh'
  <2> SUFFICES ASSUME NEW b \in Ids, b[2] > nodes'[b[1]].count  PROVE Untouched(b)'
    BY DEF NumbersFresh
  <2>1. b[1] \in Nodes /\ b[2] \in 1..MaxNo /\ b # at
    BY <1>1, <1>3, IdParts
  <2>2. b[2] > nodes[b[1]].count
    BY <1>0, <1>2, <1>3, <2>1
  <2>3. Untouched(b)
    BY <1>5, <2>1, <2>2 DEF BooksKept, NumbersFresh
  <2> QED BY <1>3, <2>3 DEF Untouched
<1>9. StartsFree'
  BY <1>4 DEF StartsFree
<1>10. OneOnBooks'
  <2>1. at[1] \in WriteNodes => \A m \in WriteNodes : open[m] = 0
    BY <1>1 DEF BooksKept, OneOnBooks
  <2>2. WriteNodes \subseteq Nodes
    BY LifecycleConstants DEF Nodes
  <2> QED BY <1>0, <1>1, <1>3, <1>4, <2>1, <2>2 DEF BooksKept, OneOnBooks
<1> QED BY <1>6, <1>7, <1>8, <1>9, <1>10 DEF BooksKept

\* A child that is there ends, parks or is lost.
LEMMA BooksChild ==
    ASSUME TypeOK, BooksKept, NEW a \in Ids, ChildNext(a)
    PROVE  BooksKept'
<1>0. child \in [Ids -> {"none", "running", "parkedApproval", "parkedInput", "closed"}] /\ mail \in [Ids -> Seq(Report)]
  BY DEF TypeOK, ChildTypes
<1>1. /\ UNCHANGED <<open, nodes, finish, pc, at>>
      /\ child[a] \notin {"none", "closed"}
  BY ZenonT(60) DEF ChildNext, ChildEnds, ChildFinishes, ChildParks, ChildCancelled, ChildLost, ChildStep,
         bookVars, planVars, handVars, loopVars
<1>2. /\ \A b \in Ids : b # a => child'[b] = child[b] /\ mail'[b] = mail[b]
      /\ child'[a] # "running" \/ child'[a] = child[a]
  BY <1>0, ZenonT(60) DEF ChildNext, ChildEnds, ChildFinishes, ChildParks, ChildCancelled, ChildLost, ChildCloses
<1>3. child'[a] # "closed" => \E r \in {"parkedApproval", "parkedInput"} : mail'[a] = Append(mail[a], r)
  BY <1>0, <1>1, ZenonT(60) DEF ChildNext, ChildEnds, ChildFinishes, ChildParks, ChildCancelled, ChildLost, ChildCloses
<1>4. \A b \in Ids : Starting(b)' <=> Starting(b)
  BY <1>1 DEF Starting
<1>5. Accounted'
  BY <1>1, <1>2, <1>4 DEF BooksKept, Accounted, Working, IsOpen
<1>6. ReportsLast'
  <2> SUFFICES ASSUME NEW b \in Ids, HasOutcome(b)' \/ finish'[b] # "idle"  PROVE child'[b] = "closed"
    BY DEF ReportsLast
  <2>1. CASE b # a
    BY <1>1, <1>2, <2>1 DEF BooksKept, ReportsLast, HasOutcome
  <2>2. CASE b = a
    <3> SUFFICES ASSUME child'[a] # "closed"  PROVE FALSE
      BY <2>2
    <3>1. ~HasOutcome(a) /\ finish[a] = "idle"
      BY <1>1 DEF BooksKept, ReportsLast
    <3>2. PICK r \in {"parkedApproval", "parkedInput"} : mail'[a] = Append(mail[a], r)
      BY <1>3
    <3>3. mail[a] \in Seq(Report) /\ r \in Report \ Outcomes
      BY <1>0 DEF Report, Outcomes
    <3>4. \A i \in 1..Len(mail'[a]) : mail'[a][i] = r \/ (i \in 1..Len(mail[a]) /\ mail'[a][i] = mail[a][i])
      BY <3>2, <3>3
    <3>5. ~HasOutcome(a)'
      BY <3>1, <3>3, <3>4 DEF HasOutcome
    <3> QED BY <1>1, <2>2, <3>1, <3>5
  <2> QED BY <2>1, <2>2
<1>7. NumbersFresh'
  <2> SUFFICES ASSUME NEW b \in Ids, b[2] > nodes'[b[1]].count  PROVE Starting(b)' \/ Untouched(b)'
    BY DEF NumbersFresh
  <2>1. Starting(b) \/ Untouched(b)
    BY <1>1 DEF BooksKept, NumbersFresh
  <2> QED BY <1>1, <1>2, <1>4, <2>1 DEF Untouched
<1>8. StartsFree'
  BY <1>1, <1>4 DEF BooksKept, StartsFree
<1>9. OneOnBooks'
  BY <1>1, <1>4 DEF BooksKept, OneOnBooks
<1> QED BY <1>5, <1>6, <1>7, <1>8, <1>9 DEF BooksKept
-----------------------------------------------------------------------------
(* Only the start of an attempt counts it.                                 *)
SameCounts(ns, ms) == \A n \in Nodes : ms[n].count = ns[n].count

LEMMA SetNodeCounts ==
    ASSUME NEW ns \in [Nodes -> NodeState], NEW n \in Nodes, NEW st \in NodeStatuses
    PROVE  SameCounts(ns, SetNode(ns, n, st)) /\ SameCounts(ns, Freeze(ns, n))
<1>1. \A ms \in [Nodes -> NodeState], x \in NodeStatuses : SameCounts(ms, SetNode(ms, n, x))
  BY DEF SameCounts, SetNode, RefreshReadiness, NodeState
<1>2. [ns EXCEPT ![n].frozen = TRUE] \in [Nodes -> NodeState] /\ SameCounts(ns, [ns EXCEPT ![n].frozen = TRUE])
  BY ZenonT(60) DEF NodeState, SameCounts
<1>3. "COMPLETED" \in NodeStatuses
  BY DEF NodeStatuses
<1>4. SameCounts([ns EXCEPT ![n].frozen = TRUE], Freeze(ns, n))
  BY <1>1, <1>2, <1>3, ZenonT(60) DEF Freeze
<1> QED BY <1>1, <1>2, <1>4 DEF SameCounts

LEMMA LeaveCounts ==
    ASSUME NEW ns \in [Nodes -> NodeState], NEW a \in Ids
    PROVE  SameCounts(ns, Leave(ns, a))
BY IdParts DEF SameCounts, Leave, NodeState

LEMMA SettlementCounts ==
    ASSUME TypeOK, NEW n \in Nodes, NEW counted \in BOOLEAN, NEW retryable \in BOOLEAN
    PROVE  /\ SameCounts(nodes, RetryOrBlock(nodes, n, counted, retryable).nodes)
           /\ SameCounts(nodes, AttemptCancelled(nodes, n, counted).nodes)
<1>1. nodes \in [Nodes -> NodeState] /\ "BLOCKED" \in NodeStatuses /\ "RETRY_PENDING" \in NodeStatuses
  BY DEF TypeOK, PlanTypes, NodeStatuses
<1>2. /\ SameCounts(nodes, SetNode(nodes, n, "BLOCKED"))
      /\ SameCounts(nodes, SetNode(nodes, n, "RETRY_PENDING"))
      /\ SameCounts(nodes, nodes)
  BY <1>1, SetNodeCounts DEF SameCounts
<1> QED BY <1>2 DEF RetryOrBlock, AttemptCancelled

LEMMA SettleNodeCounts ==
    ASSUME TypeOK, NEW a \in Ids, NEW outcome \in Outcomes, NEW rejected \in BOOLEAN, NEW spent \in BOOLEAN
    PROVE  SameCounts(nodes, SettleNode(a, outcome, rejected, spent).nodes)
<1>1. a[1] \in Nodes /\ att[a].counted \in BOOLEAN /\ nodes \in [Nodes -> NodeState]
  BY IdParts DEF TypeOK, BookTypes, PlanTypes, Attempt
<1>2. /\ SameCounts(nodes, RetryOrBlock(nodes, a[1], att[a].counted, TRUE).nodes)
      /\ SameCounts(nodes, RetryOrBlock(nodes, a[1], att[a].counted, outcome = "failed").nodes)
      /\ SameCounts(nodes, AttemptCancelled(nodes, a[1], att[a].counted).nodes)
  BY <1>1, SettlementCounts, ZenonT(60)
<1>3. /\ SameCounts(nodes, Freeze(nodes, a[1])) /\ SameCounts(nodes, SetNode(nodes, a[1], "BLOCKED"))
      /\ SameCounts(nodes, nodes)
  BY <1>1, SetNodeCounts DEF SameCounts, NodeStatuses
<1> QED BY <1>2, <1>3, ZenonT(60) DEF SettleNode, Outcomes

LEMMA MarkCounts ==
    ASSUME TypeOK, NEW a \in Ids, MarkAttemptCancelled(a)
    PROVE  SameCounts(nodes, nodes')
<1> DEFINE s == AttemptCancelled(nodes, a[1], att[a].counted)
<1>1. a[1] \in Nodes /\ att[a].counted \in BOOLEAN /\ nodes \in [Nodes -> NodeState]
  BY IdParts DEF TypeOK, BookTypes, PlanTypes, Attempt
<1>2. s \in Settlement /\ SameCounts(nodes, s.nodes)
  BY <1>1, AttemptCancelledType, SettlementCounts
<1>3. SameCounts(s.nodes, Leave(s.nodes, a))
  BY <1>2, LeaveCounts DEF Settlement
<1>4. nodes' = Leave(s.nodes, a) \/ nodes' = nodes
  BY DEF MarkAttemptCancelled, Apply
<1> HIDE DEF s
<1> QED BY <1>2, <1>3, <1>4 DEF SameCounts

LEMMA SettleCounts ==
    ASSUME TypeOK, NEW a \in Ids, NEW outcome \in Outcomes, NEW rejected \in BOOLEAN, NEW spent \in BOOLEAN,
           NEW ended, SettleAttempt(a, outcome, rejected, spent, ended)
    PROVE  SameCounts(nodes, nodes')
<1> DEFINE s == SettleNode(a, outcome, rejected, spent)
<1>1. s \in Settlement /\ SameCounts(nodes, s.nodes)
  BY SettleNodeType, SettleNodeCounts
<1>2. SameCounts(s.nodes, Leave(s.nodes, a))
  BY <1>1, LeaveCounts DEF Settlement
<1>3. nodes' = Leave(s.nodes, a)
  BY DEF SettleAttempt, Apply
<1> HIDE DEF s
<1> QED BY <1>1, <1>2, <1>3 DEF SameCounts

LEMMA ResumeCounts ==
    ASSUME TypeOK, NEW a \in Ids, ResumeParked(a)
    PROVE  SameCounts(nodes, nodes')
<1>1. a[1] \in Nodes /\ nodes \in [Nodes -> NodeState] /\ "RUNNING" \in NodeStatuses
  BY IdParts DEF TypeOK, PlanTypes, NodeStatuses
<1>2. nodes' = nodes \/ nodes' = SetNode(nodes, a[1], "RUNNING")
  BY DEF ResumeParked
<1>3. SameCounts(nodes, nodes)
  BY DEF SameCounts
<1>4. SameCounts(nodes, SetNode(nodes, a[1], "RUNNING"))
  BY <1>1, SetNodeCounts
<1> QED BY <1>2, <1>3, <1>4
-----------------------------------------------------------------------------
(* The steps, action by action.                                            *)

\* A step that leaves the books, the children and their reports alone, and is neither before nor
\* after the start of a child, or changes nothing about it.
LEMMA BooksFrame ==
    ASSUME TypeOK, BooksKept, UNCHANGED <<child, mail, finish, open>>, SameCounts(nodes, nodes'),
           (pc # "StartChild" /\ pc' # "StartChild") \/ UNCHANGED <<pc, at>>
    PROVE  BooksKept'
<1>1. \A a \in Ids : Starting(a)' <=> Starting(a)
  BY DEF Starting
<1> QED BY <1>1, BooksStep DEF SameCounts

LEMMA BooksMain ==
    ASSUME TypeOK, BooksKept, MainStep
    PROVE  BooksKept'
<1> USE DEF planVars, bookVars, loopVars, handVars, childVars
<1>0. nodes \in [Nodes -> NodeState] /\ SameCounts(nodes, nodes)
  BY DEF TypeOK, PlanTypes, SameCounts
<1>1. CASE DrainDone \/ ScheduleDone \/ Derive \/ Flushed \/ Judge \/ CompletedFlushed \/ Rest \/ WakeUp
            \/ Close \/ LastFlushed \/ StartLeaving \/ LeavingPass
  <2>1. UNCHANGED <<child, mail, finish, open, nodes>>
    BY <1>1, ZenonT(60) DEF DrainDone, ScheduleDone, Derive, Flushed, Judge, CompletedFlushed, Rest, WakeUp, Close, LastFlushed,
           StartLeaving, LeavingPass
  <2>2. pc # "StartChild" /\ pc' # "StartChild"
    BY <1>1, ZenonT(60) DEF DrainDone, ScheduleDone, Derive, Flushed, Judge, CompletedFlushed, Rest, WakeUp, Close, LastFlushed,
           StartLeaving, LeavingPass, LoopTop, FlushTo
  <2> QED BY <1>0, <2>1, <2>2, BooksFrame
<1>2. CASE DrainMessageStays \/ Refused \/ ContinueAsNew
  BY <1>0, <1>2, BooksFrame DEF DrainMessageStays, Refused, ContinueAsNew
<1>3. ASSUME NEW a \in Ids, DrainMessage(a)  PROVE BooksKept'
  <2>1. IsOpen(a) /\ UNCHANGED <<mail, finish, open, nodes>> /\ pc # "StartChild" /\ pc' # "StartChild"
    BY <1>3, ZenonT(60) DEF DrainMessage, Hearers, OpenIds
  <2>2. \/ UNCHANGED child
        \/ child[a] = "parkedInput" /\ child' = [child EXCEPT ![a] = "running"]
    BY <1>3, ZenonT(60) DEF DrainMessage, TypeOK, ChildTypes
  <2>3. \A b \in Ids : Starting(b)' <=> Starting(b)
    BY <2>1 DEF Starting
  <2> QED BY <2>1, <2>2, <2>3, BooksHeard
<1>4. CASE Delivered
  <2>1. SameCounts(nodes, nodes')
    BY <1>0, <1>4, AtType, ResumeCounts DEF Delivered
  <2> QED BY <1>4, <2>1, BooksFrame, ZenonT(60) DEF Delivered
<1>5. CASE DrainCompletion
  <2>1. nodes' # nodes => Head(commands)[2][1] \in Nodes /\ nodes' = SetNode(nodes, Head(commands)[2][1], "VERIFYING")
    BY <1>5, HeadCompletion, ZenonT(60) DEF DrainCompletion
  <2>2. SameCounts(nodes, nodes')
    BY <1>0, <2>1, SetNodeCounts DEF NodeStatuses
  <2>3. pc # "StartChild" /\ pc' # "StartChild" /\ UNCHANGED <<child, mail, finish, open>>
    BY <1>5 DEF DrainCompletion
  <2> QED BY <2>2, <2>3, BooksFrame
<1>6. ASSUME NEW ok \in BOOLEAN, SettleProposal(ok)  PROVE BooksKept'
  <2>1. at \in Ids /\ at[1] \in Nodes /\ att[at].counted \in BOOLEAN
    BY <1>6, AtType DEF SettleProposal, TypeOK, BookTypes, Attempt
  <2>2. \/ nodes' = nodes
        \/ nodes' = Freeze(nodes, at[1])
        \/ nodes' = RetryOrBlock(nodes, at[1], att[at].counted, TRUE).nodes
    BY <1>6, ZenonT(60) DEF SettleProposal, Apply
  <2>3. SameCounts(nodes, nodes')
    BY <1>0, <2>1, <2>2, SetNodeCounts, SettlementCounts, ZenonT(60) DEF NodeStatuses
  <2>4. pc # "StartChild" /\ pc' # "StartChild" /\ UNCHANGED <<child, mail, finish, open>>
    BY <1>6 DEF SettleProposal
  <2> QED BY <2>3, <2>4, BooksFrame
<1> QED BY <1>1, <1>2, <1>3, <1>4, <1>5, <1>6, BooksStart, BooksEnter DEF MainStep

\* The step takes a off the books: it is the open one of its node.
LEMMA OffBooks ==
    ASSUME TypeOK, NEW a \in Ids, IsOpen(a), TakeOffBooks(a), ~Working(a)
    PROVE  \A b \in Ids : open'[b[1]] # open[b[1]] => open'[b[1]] = 0 /\ (IsOpen(b) => ~Working(b))
<1>1. open \in [Nodes -> 0..MaxNo]
  BY DEF TypeOK, BookTypes
<1> SUFFICES ASSUME NEW b \in Ids, open'[b[1]] # open[b[1]]
             PROVE  open'[b[1]] = 0 /\ (IsOpen(b) => ~Working(b))
  OBVIOUS
<1>2. b[1] = a[1] /\ open'[b[1]] = 0
  BY <1>1, IdParts DEF TakeOffBooks
<1>3. IsOpen(b) => b = a
  BY <1>2, IdParts, ZenonT(60) DEF IsOpen
<1> QED BY <1>2, <1>3

LEMMA BooksHandler ==
    ASSUME TypeOK, BooksKept, CancelsHeld, NEW a \in Ids, HandlerStep(a)
    PROVE  BooksKept'
<1> USE DEF planVars, bookVars, loopVars, handVars, childVars
<1>0. /\ nodes \in [Nodes -> NodeState] /\ SameCounts(nodes, nodes) /\ a[1] \in Nodes
      /\ mail \in [Ids -> Seq(Report)] /\ finish \in [Ids -> {"idle", "awaitVerdict", "verifying"}]
  BY IdParts DEF TypeOK, PlanTypes, HandTypes, ChildTypes, SameCounts
<1>1. ASSUME UNCHANGED <<pc, at>>  PROVE \A b \in Ids : Starting(b)' <=> Starting(b)
  BY <1>1 DEF Starting
<1>2. ASSUME Handles(a)
      PROVE  /\ \A b \in Ids : mail'[b] = mail[b] \/ (mail[b] # <<>> /\ mail'[b] = Tail(mail[b]))
             /\ UNCHANGED <<child, pc, at>>
             /\ Head(mail[a]) \in Report /\ (Head(mail[a]) \in Outcomes => child[a] = "closed")
  <2>1. mail[a] # <<>> /\ mail' = [mail EXCEPT ![a] = Tail(@)] /\ UNCHANGED <<child, pc, at>>
    BY <1>2 DEF Handles
  <2>2. 1 \in 1..Len(mail[a]) /\ mail[a][1] = Head(mail[a]) /\ Head(mail[a]) \in Report
    BY <1>0, <2>1
  <2>3. Head(mail[a]) \in Outcomes => child[a] = "closed"
    BY <2>2 DEF BooksKept, ReportsLast, HasOutcome
  <2> QED BY <1>0, <2>1, <2>2, <2>3
<1>3. CASE ReportDropped(a)
  BY <1>0, <1>1, <1>2, <1>3, BooksStep DEF ReportDropped
<1>4. CASE AttemptParked(a)
  <2>1. nodes' = SetNode(nodes, a[1], "AWAITING_APPROVAL") \/ nodes' = SetNode(nodes, a[1], "AWAITING_INPUT")
    BY <1>4 DEF AttemptParked
  <2>2. SameCounts(nodes, nodes')
    BY <1>0, <2>1, SetNodeCounts DEF NodeStatuses
  <2> QED BY <1>1, <1>2, <1>4, <2>2, BooksStep DEF AttemptParked, SameCounts
<1>5. ASSUME NEW spent \in BOOLEAN, AttemptFinished(a, spent)  PROVE BooksKept'
  <2> DEFINE outcome  == Head(mail[a])
             rejected == outcome = "completed" /\ att[a].verdict = "rejected"
             ended    == EndedAs(a, outcome)
  <2>1. Handles(a) /\ IsOpen(a) /\ outcome \in Outcomes /\ UNCHANGED finish
    BY <1>2, <1>5 DEF AttemptFinished, Parks, Report
  <2>2. \/ MarkAttemptCancelled(a)
        \/ SettleAttempt(a, outcome, rejected, spent, ended)
    BY <1>5 DEF AttemptFinished
  <2>3. rejected \in BOOLEAN
    OBVIOUS
  <2>4. child[a] = "closed"
    BY <1>2, <2>1
  <2> HIDE DEF outcome, rejected, ended
  <2>5. SameCounts(nodes, nodes') /\ TakeOffBooks(a)
    <3>1. CASE MarkAttemptCancelled(a)
      BY <3>1, MarkCounts DEF MarkAttemptCancelled
    <3>2. CASE SettleAttempt(a, outcome, rejected, spent, ended)
      BY <2>1, <2>3, <3>2, SettleCounts, ZenonT(60) DEF SettleAttempt
    <3> QED BY <2>2, <3>1, <3>2
  <2> QED BY <1>1, <1>2, <2>1, <2>4, <2>5, OffBooks, BooksStep DEF SameCounts, Working
<1>6. CASE AttemptToVerify(a)
  <2>1. Handles(a) /\ Head(mail[a]) = "completed" /\ UNCHANGED open
    BY <1>6 DEF AttemptToVerify
  <2>2. child[a] = "closed"
    BY <1>2, <2>1 DEF Outcomes
  <2>3. \A b \in Ids : finish'[b] # "idle" => finish[b] # "idle" \/ child[b] = "closed"
    BY <1>0, <1>6, <2>2 DEF AttemptToVerify
  <2>4. nodes' = nodes \/ nodes' = SetNode(nodes, a[1], "VERIFYING")
    BY <1>6 DEF AttemptToVerify
  <2>5. SameCounts(nodes, nodes')
    BY <1>0, <2>4, SetNodeCounts DEF NodeStatuses
  <2> QED BY <1>1, <1>2, <2>1, <2>3, <2>5, BooksStep DEF SameCounts
<1>7. ASSUME NEW ok \in BOOLEAN, NEW spent \in BOOLEAN, AttemptVerified(a, ok, spent)  PROVE BooksKept'
  <2> DEFINE verdict == IF ok THEN "accepted" ELSE "rejected"
             ended   == [att[a] EXCEPT !.verdict = verdict]
  <2>1. finish[a] # "idle" /\ UNCHANGED <<pc, at, child, mail>>
    BY <1>7 DEF AttemptVerified
  <2>2. child[a] = "closed"
    BY <2>1 DEF BooksKept, ReportsLast
  <2>3. \A b \in Ids : finish'[b] # "idle" => finish[b] # "idle" \/ child[b] = "closed"
    BY <1>0, <1>7 DEF AttemptVerified
  <2>4. \/ IsOpen(a) /\ SettleAttempt(a, "completed", ~ok, spent, ended)
        \/ IsOpen(a) /\ MarkAttemptCancelled(a)
        \/ UNCHANGED <<open, nodes>>
    BY <1>7 DEF AttemptVerified
  <2> HIDE DEF ended
  <2>5. CASE IsOpen(a) /\ SettleAttempt(a, "completed", ~ok, spent, ended)
    <3>1. SameCounts(nodes, nodes') /\ TakeOffBooks(a)
      BY <2>5, SettleCounts, ZenonT(60) DEF SettleAttempt, Outcomes
    <3> QED BY <1>1, <2>1, <2>2, <2>3, <2>5, <3>1, OffBooks, BooksStep DEF SameCounts, Working
  <2>6. CASE IsOpen(a) /\ MarkAttemptCancelled(a)
    <3>1. SameCounts(nodes, nodes') /\ TakeOffBooks(a)
      BY <2>6, MarkCounts DEF MarkAttemptCancelled
    <3> QED BY <1>1, <2>1, <2>2, <2>3, <2>6, <3>1, OffBooks, BooksStep DEF SameCounts, Working
  <2>7. CASE UNCHANGED <<open, nodes>>
    BY <1>1, <2>1, <2>3, <2>7, BooksStep
  <2> QED BY <2>4, <2>5, <2>6, <2>7
<1>8. CASE DecisionSignalled(a)
  <2>1. nodes' = nodes \/ nodes' = SetNode(nodes, a[1], "RUNNING")
    BY <1>8 DEF DecisionSignalled
  <2>2. SameCounts(nodes, nodes')
    BY <1>0, <2>1, SetNodeCounts DEF NodeStatuses
  <2> QED BY <1>8, <2>2, BooksFrame DEF DecisionSignalled
<1>9. CASE CancelFallback(a)
  <2>1. UNCHANGED <<pc, at, child, mail, finish>> /\ ~Working(a)
    BY <1>9, ZenonT(60) DEF CancelFallback, Working, CancelsHeld, Asked
  <2>2. CASE IsOpen(a)
    <3>1. MarkAttemptCancelled(a)
      BY <1>9, <2>2 DEF CancelFallback
    <3>2. SameCounts(nodes, nodes') /\ TakeOffBooks(a)
      BY <3>1, MarkCounts DEF MarkAttemptCancelled
    <3> QED BY <1>1, <2>1, <2>2, <3>2, OffBooks, BooksStep, ZenonT(60) DEF SameCounts
  <2>3. CASE ~IsOpen(a)
    BY <1>0, <1>9, <2>1, <2>3, BooksFrame, ZenonT(60) DEF CancelFallback
  <2> QED BY <2>2, <2>3
<1> QED BY <1>3, <1>4, <1>5, <1>6, <1>7, <1>8, <1>9 DEF HandlerStep

LEMMA BooksCommand ==
    ASSUME TypeOK, BooksKept,
           CommandStep \/ (\E n \in Nodes : BackoffOver(n)) \/ (\E c \in Controls : ControlGoesOn(c))
    PROVE  BooksKept'
<1> USE DEF planVars, bookVars, loopVars, handVars, childVars
<1>0. nodes \in [Nodes -> NodeState] /\ SameCounts(nodes, nodes)
  BY DEF TypeOK, PlanTypes, SameCounts
<1>1. CASE SendMessage
  BY <1>0, <1>1, BooksFrame DEF SendMessage
<1>2. ASSUME NEW a \in Ids, ProposeCompletion(a)  PROVE BooksKept'
  BY <1>0, <1>2, BooksFrame, ZenonT(60) DEF ProposeCompletion
<1>3. ASSUME NEW a \in Ids, DeclareBlocked(a)  PROVE BooksKept'
  <2>1. SameCounts(nodes, nodes')
    BY <1>0, <1>3, IdParts DEF DeclareBlocked, SameCounts, NodeState
  <2> QED BY <1>3, <2>1, BooksFrame DEF DeclareBlocked
<1>4. ASSUME NEW a \in Ids, DecideApproval(a)  PROVE BooksKept'
  <2>1. SameCounts(nodes, nodes')
    BY <1>0, <1>4, ResumeCounts DEF DecideApproval
  <2>2. UNCHANGED <<mail, finish, open, pc, at>>
    BY <1>4 DEF DecideApproval
  <2>3. CASE UNCHANGED child
    BY <2>1, <2>2, <2>3, BooksFrame
  <2>4. CASE ~UNCHANGED child
    <3>1. IsOpen(a) /\ child[a] = "parkedApproval" /\ child' = [child EXCEPT ![a] = "running"]
      BY <1>4, <2>4 DEF DecideApproval, TypeOK, ChildTypes
    <3>2. \A b \in Ids : Starting(b)' <=> Starting(b)
      BY <2>2 DEF Starting
    <3> QED BY <2>1, <2>2, <3>1, <3>2, BooksHeard, ZenonT(60) DEF SameCounts
  <2> QED BY <2>3, <2>4
<1>5. ASSUME NEW n \in Nodes, CompleteNode(n)  PROVE BooksKept'
  <2>1. SameCounts(nodes, nodes')
    BY <1>0, <1>5, SetNodeCounts DEF CompleteNode, NodeStatuses
  <2> QED BY <1>5, <2>1, BooksFrame, ZenonT(60) DEF CompleteNode
<1>6. ASSUME NEW n \in Nodes, BackoffOver(n)  PROVE BooksKept'
  BY <1>0, <1>6, BooksFrame DEF BackoffOver
<1>7. ASSUME NEW c \in Controls, NEW action, NEW rest, NEW said, ControlStep(c, action, rest, said)
      PROVE  SameCounts(nodes, nodes')
  <2>1. UnblockNodes \/ nodes' = nodes
    BY <1>7 DEF ControlStep
  <2>2. UnblockNodes => SameCounts(nodes, nodes')
    BY <1>0 DEF UnblockNodes, SameCounts, NodeState
  <2> QED BY <1>0, <2>1, <2>2
<1>8. ASSUME NEW c \in Controls, NEW action \in ControlActions, ControlArrives(c, action)  PROVE BooksKept'
  BY <1>7, <1>8, BooksFrame DEF ControlArrives
<1>9. ASSUME NEW c \in Controls, ControlGoesOn(c)  PROVE BooksKept'
  BY <1>7, <1>9, BooksFrame, ZenonT(60) DEF ControlGoesOn
<1> QED BY <1>1, <1>2, <1>3, <1>4, <1>5, <1>6, <1>8, <1>9, ZenonT(60) DEF CommandStep
-----------------------------------------------------------------------------
(* The cancel requests.                                                    *)

\* A step that asks no attempt to cancel: no child loses its request before it is closed.
LEMMA CancelsFrame ==
    ASSUME CancelsHeld,
           \A a \in Ids : Asked(a)' => Asked(a),
           \A a \in Ids : child[a] = "closed" => child'[a] = "closed",
           \A a \in Ids : a \in cancelReq => a \in cancelReq' \/ child'[a] = "closed"
    PROVE  CancelsHeld'
BY DEF CancelsHeld

LEMMA CancelsMain ==
    ASSUME TypeOK, BooksKept, CancelsHeld, MainStep
    PROVE  CancelsHeld'
<1> USE DEF planVars, bookVars, loopVars, handVars, childVars
<1>0. /\ child \in [Ids -> {"none", "running", "parkedApproval", "parkedInput", "closed"}]
      /\ att \in [Ids -> Attempt] /\ open \in [Nodes -> 0..MaxNo]
  BY DEF TypeOK, ChildTypes, BookTypes
<1>1. UNCHANGED <<cancelReq, control>>
  BY ZenonT(60) DEF MainStep, DrainDone, DrainMessageStays, DrainMessage, Delivered, Refused, DrainCompletion, SettleProposal,
         ScheduleNode, AttemptStarted, ScheduleDone, Derive, Flushed, Judge, CompletedFlushed, Rest, WakeUp, Close,
         LastFlushed, StartLeaving, LeavingPass, ContinueAsNew
<1>2. \A a \in Ids : child[a] = "closed" => child'[a] = "closed"
  <2>1. ASSUME NEW n \in Nodes, ScheduleNode(n), ~UNCHANGED child
        PROVE  \A a \in Ids : child[a] = "closed" => child'[a] = "closed"
    <3> DEFINE a == <<n, nodes[n].count + 1>>
    <3>1. nodes[n].count < MaxNo /\ nodes[n].count \in 0..MaxNo /\ MaxNo \in Nat /\ pc = "Schedule"
          /\ child' = [child EXCEPT ![a] = "running"]
      <4>1. pc = "Schedule" /\ ~(nodes[n].count >= MaxNo) /\ child' = [child EXCEPT ![a] = "running"]
        BY <2>1, ZenonT(60) DEF ScheduleNode
      <4>2. nodes \in [Nodes -> NodeState]
        BY DEF TypeOK, PlanTypes
      <4>3. nodes[n].count \in 0..MaxNo /\ MaxNo \in Nat
        BY <4>2, LifecycleConstants DEF NodeState
      <4>4. nodes[n].count < MaxNo
        BY <4>1, <4>3
      <4> QED BY <4>1, <4>3, <4>4
    <3>2. a \in Ids /\ a[1] = n /\ a[2] > nodes[n].count
      BY <3>1 DEF Ids
    <3> HIDE DEF a
    <3>3. child[a] = "none"
      BY <3>1, <3>2 DEF BooksKept, NumbersFresh, Untouched, Starting
    <3> QED BY <1>0, <3>1, <3>3
  <2>2. CASE UNCHANGED child
    BY <2>2
  <2>3. CASE ~UNCHANGED child
    <3>1. (\E a \in Ids : DrainMessage(a)) \/ (\E n \in Nodes : ScheduleNode(n))
      BY <2>3, ZenonT(60) DEF MainStep, DrainDone, DrainMessageStays, Delivered, Refused, DrainCompletion, SettleProposal,
           AttemptStarted, ScheduleDone, Derive, Flushed, Judge, CompletedFlushed, Rest, WakeUp, Close,
           LastFlushed, StartLeaving, LeavingPass, ContinueAsNew
    <3>2. ASSUME NEW a \in Ids, DrainMessage(a)
          PROVE  \A b \in Ids : child[b] = "closed" => child'[b] = "closed"
      BY <1>0, <3>2 DEF DrainMessage
    <3> QED BY <2>1, <2>3, <3>1, <3>2
  <2> QED BY <2>2, <2>3
<1>3. \A a \in Ids : Asked(a)' => Asked(a)
  <2>1. CASE ContinueAsNew
    BY <1>1, <2>1 DEF ContinueAsNew, Asked
  <2>2. CASE ~ContinueAsNew
    <3>1. UNCHANGED fallback
      BY <2>2, ZenonT(60) DEF MainStep, DrainDone, DrainMessageStays, DrainMessage, Delivered, Refused, DrainCompletion,
           SettleProposal, ScheduleNode, AttemptStarted, ScheduleDone, Derive, Flushed, Judge, CompletedFlushed, Rest,
           WakeUp, Close, LastFlushed, StartLeaving, LeavingPass
    <3>2. \A a \in Ids : att'[a].cancelling => att[a].cancelling
      <4>1. ASSUME NEW b,
                   \/ att' = att
                   \/ att' = [att EXCEPT ![b].st = "RUNNING"]
                   \/ att' = [att EXCEPT ![b].closed = TRUE]
                   \/ \E v \in {"verifying", "accepted"} : att' = [att EXCEPT ![b].verdict = v]
                   \/ att' = [att EXCEPT ![b].verdict = "rejected", ![b].counted = TRUE]
            PROVE  \A a \in Ids : att'[a].cancelling = att[a].cancelling
        <5> SUFFICES ASSUME NEW a \in Ids  PROVE att'[a].cancelling = att[a].cancelling
          OBVIOUS
        <5>1. att[a] \in Attempt
          BY <1>0
        <5>2. CASE a # b
          <6>1. att'[a] = att[a]
            BY <1>0, <4>1, <5>2
          <6> QED BY <6>1
        <5>3. CASE a = b
          <6>1. \/ att'[a] = att[a]
                \/ att'[a] = [att[a] EXCEPT !.st = "RUNNING"]
                \/ att'[a] = [att[a] EXCEPT !.closed = TRUE]
                \/ \E v \in {"verifying", "accepted"} : att'[a] = [att[a] EXCEPT !.verdict = v]
                \/ att'[a] = [att[a] EXCEPT !.verdict = "rejected", !.counted = TRUE]
            BY <1>0, <4>1, <5>3, ZenonT(60)
          <6> QED BY <5>1, <6>1, ZenonT(60) DEF Attempt
        <5> QED BY <5>2, <5>3
      <4>2. CASE Delivered
        BY <4>1, <4>2, ZenonT(60) DEF Delivered, ResumeParked
      <4>3. CASE Refused
        BY <4>1, <4>3 DEF Refused
      <4>4. CASE DrainCompletion
        BY <4>1, <4>4, ZenonT(60) DEF DrainCompletion
      <4>5. CASE AttemptStarted
        BY <1>0, <4>5 DEF AttemptStarted, NewAttempt
      <4>6. ASSUME NEW ok \in BOOLEAN, SettleProposal(ok)
            PROVE  \A a \in Ids : att'[a].cancelling => att[a].cancelling
        <5>1. \/ att' = att
              \/ att' = [att EXCEPT ![at].verdict = "accepted"]
              \/ att' = [att EXCEPT ![at].verdict = "rejected", ![at].counted = TRUE]
          BY <4>6, ZenonT(60) DEF SettleProposal
        <5> QED BY <4>1, <5>1
      <4>7. CASE UNCHANGED att
        BY <4>7
      <4> QED BY <2>2, <4>2, <4>3, <4>4, <4>5, <4>6, <4>7, ZenonT(60) DEF MainStep, DrainDone, DrainMessageStays, DrainMessage,
           ScheduleNode, ScheduleDone, Derive, Flushed, Judge, CompletedFlushed, Rest,
           WakeUp, Close, LastFlushed, StartLeaving, LeavingPass
    <3> QED BY <1>1, <3>1, <3>2, ZenonT(60) DEF Asked
  <2> QED BY <2>1, <2>2
<1> QED BY <1>1, <1>2, <1>3, CancelsFrame

LEMMA CancelsHandler ==
    ASSUME TypeOK, CancelsHeld, NEW a \in Ids, HandlerStep(a)
    PROVE  CancelsHeld'
<1> USE DEF planVars, bookVars, loopVars, handVars, childVars
<1>0. att \in [Ids -> Attempt] /\ att[a] \in Attempt
  BY DEF TypeOK, BookTypes
<1>1. UNCHANGED <<child, cancelReq, control>>
  BY ZenonT(60) DEF HandlerStep, ReportDropped, AttemptParked, AttemptToVerify, AttemptFinished, AttemptVerified,
         DecisionSignalled, CancelFallback, Handles
<1>2. fallback' \subseteq fallback
  BY ZenonT(60) DEF HandlerStep, ReportDropped, AttemptParked, AttemptToVerify, AttemptFinished, AttemptVerified,
         DecisionSignalled, CancelFallback, MarkAttemptCancelled, AttemptEnded
<1>3. \A b \in Ids : att'[b].cancelling => att[b].cancelling
  <2>1. CASE ReportDropped(a) \/ AttemptParked(a) \/ DecisionSignalled(a) \/ CancelFallback(a)
    BY <1>0, <2>1 DEF ReportDropped, AttemptParked, DecisionSignalled, CancelFallback, Attempt
  <2>2. CASE AttemptToVerify(a)
    BY <1>0, <2>2 DEF AttemptToVerify, EndedAs, Attempt
  <2>3. ASSUME NEW spent \in BOOLEAN, AttemptFinished(a, spent)
        PROVE  \A b \in Ids : att'[b].cancelling => att[b].cancelling
    <3> DEFINE ended == EndedAs(a, Head(mail[a]))
    <3>1. /\ ended.cancelling = att[a].cancelling
          /\ \A x : [ended EXCEPT !.counted = x].cancelling = att[a].cancelling
      BY <1>0 DEF EndedAs, Attempt
    <3>2. \/ att' = [att EXCEPT ![a] = ended]
          \/ \E x : att' = [att EXCEPT ![a] = [ended EXCEPT !.counted = x]]
      BY <2>3 DEF AttemptFinished, SettleAttempt
    <3> HIDE DEF ended
    <3> QED BY <1>0, <3>1, <3>2, ZenonT(60)
  <2>4. ASSUME NEW ok \in BOOLEAN, NEW spent \in BOOLEAN, AttemptVerified(a, ok, spent)
        PROVE  \A b \in Ids : att'[b].cancelling => att[b].cancelling
    <3> DEFINE verdict == IF ok THEN "accepted" ELSE "rejected"
               ended   == [att[a] EXCEPT !.verdict = verdict]
    <3>1. /\ ended.cancelling = att[a].cancelling
          /\ \A x : [ended EXCEPT !.counted = x].cancelling = att[a].cancelling
      BY <1>0 DEF Attempt
    <3>2. \/ att' = [att EXCEPT ![a] = ended]
          \/ \E x : att' = [att EXCEPT ![a] = [ended EXCEPT !.counted = x]]
      BY <2>4, ZenonT(60) DEF AttemptVerified, SettleAttempt
    <3> HIDE DEF ended
    <3> QED BY <1>0, <3>1, <3>2, ZenonT(60)
  <2> QED BY <2>1, <2>2, <2>3, <2>4, ZenonT(60) DEF HandlerStep
<1>4. \A b \in Ids : Asked(b)' => Asked(b)
  BY <1>1, <1>2, <1>3 DEF Asked
<1> QED BY <1>1, <1>4, CancelsFrame

LEMMA CancelsControl ==
    ASSUME TypeOK, CancelsHeld, NEW c \in Controls, NEW action, NEW rest \in SUBSET Ids, NEW said,
           ControlStep(c, action, rest, said),
           UNCHANGED child,
           fallback' = fallback \/ (control[c].st = "busy" /\ fallback' = fallback \cup {control[c].on})
    PROVE  CancelsHeld'
<1>0. att \in [Ids -> Attempt] /\ control \in [Controls -> Handler]
  BY DEF TypeOK, BookTypes, HandTypes
<1>1. \A b \in fallback' : b \in fallback \/ (control[c].st = "busy" /\ control[c].on = b)
  OBVIOUS
<1>2. CASE \E a \in ToCancel(action, rest) :
             /\ control' = [control EXCEPT ![c] = [st |-> "busy", action |-> action, rest |-> rest \ {a}, on |-> a]]
             /\ att' = [att EXCEPT ![a].cancelling = TRUE]
             /\ cancelReq' = IF child[a] = "closed" THEN cancelReq ELSE cancelReq \cup {a}
  <2> PICK a \in ToCancel(action, rest) :
             /\ control' = [control EXCEPT ![c] = [st |-> "busy", action |-> action, rest |-> rest \ {a}, on |-> a]]
             /\ att' = [att EXCEPT ![a].cancelling = TRUE]
             /\ cancelReq' = IF child[a] = "closed" THEN cancelReq ELSE cancelReq \cup {a}
    BY <1>2, ZenonT(60)
  <2>1. \A b \in Ids : Asked(b)' => b = a \/ Asked(b)
    BY <1>0, <1>1 DEF Asked, Attempt, Handler
  <2> QED BY <2>1 DEF CancelsHeld
<1>3. CASE control' = [control EXCEPT ![c] = [st |-> "done", action |-> action, rest |-> {}, on |-> NoId]]
           /\ UNCHANGED <<att, cancelReq>>
  <2>1. \A b \in Ids : Asked(b)' => Asked(b)
    BY <1>0, <1>1, <1>3, ZenonT(60) DEF Asked, Handler
  <2> QED BY <1>3, <2>1, CancelsFrame
<1> QED BY <1>2, <1>3 DEF ControlStep

LEMMA CancelsCommand ==
    ASSUME TypeOK, CancelsHeld,
           CommandStep \/ (\E n \in Nodes : BackoffOver(n)) \/ (\E c \in Controls : ControlGoesOn(c))
    PROVE  CancelsHeld'
<1> USE DEF planVars, bookVars, loopVars, handVars, childVars
<1>1. CASE SendMessage \/ (\E a \in Ids : ProposeCompletion(a) \/ DeclareBlocked(a)) \/ (\E n \in Nodes : CompleteNode(n))
            \/ (\E n \in Nodes : BackoffOver(n))
  <2>1. UNCHANGED <<att, fallback, control, child, cancelReq>>
    BY <1>1, ZenonT(60) DEF SendMessage, ProposeCompletion, DeclareBlocked, CompleteNode, BackoffOver
  <2> QED BY <2>1, CancelsFrame DEF Asked
<1>2. ASSUME NEW a \in Ids, DecideApproval(a)  PROVE CancelsHeld'
  <2>0. /\ child \in [Ids -> {"none", "running", "parkedApproval", "parkedInput", "closed"}]
        /\ att \in [Ids -> Attempt]
    BY DEF TypeOK, ChildTypes, BookTypes
  <2>1. UNCHANGED <<cancelReq, fallback, control>>
    BY <1>2 DEF DecideApproval
  <2>2. \A b \in Ids : child[b] = "closed" => child'[b] = "closed"
    BY <1>2, <2>0 DEF DecideApproval
  <2>3. \A b \in Ids : att'[b].cancelling => att[b].cancelling
    BY <1>2, <2>0 DEF DecideApproval, ResumeParked, Attempt
  <2> QED BY <2>1, <2>2, <2>3, CancelsFrame DEF Asked
<1>3. ASSUME NEW c \in Controls, NEW action \in ControlActions, ControlArrives(c, action)  PROVE CancelsHeld'
  BY <1>3, CancelsControl DEF ControlArrives, OpenIds
<1>4. ASSUME NEW c \in Controls, ControlGoesOn(c)  PROVE CancelsHeld'
  <2>1. control[c].rest \in SUBSET Ids
    BY DEF TypeOK, HandTypes, Handler
  <2> QED BY <1>4, <2>1, CancelsControl, ZenonT(60) DEF ControlGoesOn
<1> QED BY <1>1, <1>2, <1>3, <1>4 DEF CommandStep

LEMMA CancelsChild ==
    ASSUME ~SpentCancels, TypeOK, CancelsHeld, NEW a \in Ids, ChildNext(a)
    PROVE  CancelsHeld'
<1>0. child \in [Ids -> {"none", "running", "parkedApproval", "parkedInput", "closed"}]
  BY DEF TypeOK, ChildTypes
<1>1. UNCHANGED <<att, fallback, control>> /\ child[a] # "closed"
  BY ZenonT(60) DEF ChildNext, ChildEnds, ChildFinishes, ChildParks, ChildCancelled, ChildLost, ChildStep, bookVars, handVars
<1>2. \/ child' = [child EXCEPT ![a] = "closed"] /\ cancelReq' = cancelReq \ {a}
      \/ (\E report : child' = [child EXCEPT ![a] = report] \/ child' = child) /\ UNCHANGED cancelReq
  <2>1. CASE ChildEnds(a) \/ ChildLost(a)
    BY <2>1, ZenonT(60) DEF ChildEnds, ChildFinishes, ChildCancelled, ChildLost, ChildCloses
  <2>2. ASSUME NEW report \in {"parkedApproval", "parkedInput"}, ChildParks(a, report)
        PROVE  (child' = [child EXCEPT ![a] = report] \/ child' = child) /\ UNCHANGED cancelReq
    BY <2>2 DEF ChildParks
  <2> QED BY <2>1, <2>2 DEF ChildNext
<1> QED BY <1>0, <1>1, <1>2, CancelsFrame DEF Asked
-----------------------------------------------------------------------------
LEMMA BooksInit == Init => BooksKept
<1> SUFFICES ASSUME Init  PROVE BooksKept
  OBVIOUS
<1>1. \A a \in Ids : ~Starting(a) /\ ~Working(a) /\ Untouched(a)
  BY DEF Init, Starting, Working, Untouched
<1>2. \A a \in Ids : ~HasOutcome(a)
  BY <1>1 DEF Untouched, HasOutcome
<1>3. \A n \in WriteNodes : open[n] = 0
  BY LifecycleConstants, ZenonT(60) DEF Init, Nodes
<1> QED BY <1>1, <1>2, <1>3 DEF BooksKept, Accounted, ReportsLast, NumbersFresh, StartsFree, OneOnBooks, Untouched

LEMMA BooksNext == TypeOK /\ BooksKept /\ CancelsHeld /\ [Next]_vars => BooksKept'
<1> SUFFICES ASSUME TypeOK, BooksKept, CancelsHeld, [Next]_vars  PROVE BooksKept'
  OBVIOUS
<1>1. CASE UNCHANGED vars
  <2>1. UNCHANGED <<child, mail, finish, open, nodes, pc, at>>
    BY <1>1 DEF vars, planVars, bookVars, loopVars, handVars, childVars
  <2> QED BY <2>1, BooksFrame DEF SameCounts
<1> QED BY <1>1, BooksMain, BooksHandler, BooksChild, BooksCommand DEF Next

LEMMA CancelsInit == Init => CancelsHeld
<1> SUFFICES ASSUME Init, NEW a \in Ids  PROVE ~Asked(a)
  BY DEF CancelsHeld
<1>1. att = [b \in Ids |-> NewAttempt] /\ fallback = {}
  BY DEF Init
<1>2. \A c \in Controls : control[c].st = "new"
  BY DEF Init
<1>3. ~att[a].cancelling
  BY <1>1 DEF NewAttempt
<1> QED BY <1>1, <1>2, <1>3 DEF Asked

LEMMA CancelsNext ==
    ASSUME ~SpentCancels
    PROVE  TypeOK /\ BooksKept /\ CancelsHeld /\ [Next]_vars => CancelsHeld'
<1> SUFFICES ASSUME TypeOK, BooksKept, CancelsHeld, [Next]_vars  PROVE CancelsHeld'
  OBVIOUS
<1>1. CASE UNCHANGED vars
  <2>1. UNCHANGED <<att, fallback, control, child, cancelReq>>
    BY <1>1 DEF vars, bookVars, handVars, childVars
  <2> QED BY <2>1, CancelsFrame DEF Asked
<1> QED BY <1>1, CancelsMain, CancelsHandler, CancelsCommand, CancelsChild DEF Next

LEMMA BooksAreKept == ASSUME ~SpentCancels  PROVE Spec => []BooksKept
<1>1. Init => BooksKept /\ CancelsHeld
  BY BooksInit, CancelsInit
<1>2. TypeOK /\ BooksKept /\ CancelsHeld /\ [Next]_vars => BooksKept' /\ CancelsHeld'
  BY BooksNext, CancelsNext
<1> QED BY <1>1, <1>2, TypeCorrect, PTL DEF Spec

\* A turn only ever runs for the attempt on the node's books or being started, for any plan
\* and whatever operators, users and children do: late reports, the cancel fallback, lost
\* children and Continue-As-New included (_await_cancelled, _finish_attempt, _start_attempt);
\* provided that no cancel request is spent on a turn that was ending.
THEOREM TurnsAccounted == ASSUME ~SpentCancels  PROVE Spec => []Accounted
<1>1. BooksKept => Accounted
  BY DEF BooksKept
<1> QED BY <1>1, BooksAreKept, PTL

\* Two attempts never write the workspace at the same time, for any plan and any number of
\* write nodes, attempts, commands and runs (_schedule_ready, _ready_order), under the same
\* proviso.
THEOREM WritersExclude == ASSUME ~SpentCancels  PROVE Spec => []OneWriter
<1>1. BooksKept => OneWriter
  <2> SUFFICES ASSUME BooksKept, NEW a \in Ids, NEW b \in Ids, Working(a), Working(b),
                      {a[1], b[1]} \subseteq WriteNodes
               PROVE  a = b
    BY DEF OneWriter
  <2>1. a[1] \in WriteNodes /\ b[1] \in WriteNodes /\ (IsOpen(a) \/ Starting(a)) /\ (IsOpen(b) \/ Starting(b))
    BY DEF BooksKept, Accounted
  <2>2. /\ IsOpen(a) => open[a[1]] # 0 /\ ~Starting(b)
        /\ IsOpen(b) => open[b[1]] # 0 /\ ~Starting(a)
    BY <2>1, IdParts DEF IsOpen, BooksKept, OneOnBooks
  <2>3. CASE IsOpen(a) /\ IsOpen(b)
    <3>1. a[1] = b[1]
      BY <2>1, <2>2, <2>3 DEF BooksKept, OneOnBooks
    <3> QED BY <2>3, <3>1, IdParts DEF IsOpen
  <2>4. CASE Starting(a) /\ Starting(b)
    BY <2>4 DEF Starting
  <2> QED BY <2>1, <2>2, <2>3, <2>4
<1> QED BY <1>1, BooksAreKept, PTL
=============================================================================
