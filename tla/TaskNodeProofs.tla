--------------------------- MODULE TaskNodeProofs ---------------------------
(***************************************************************************)
(* What the plan shows, for any plan and any bounds: a node is at work     *)
(* only when everything it depends on is complete, and one that is shown   *)
(* at work has an attempt on the books.  Both are true as long as an agent *)
(* that goes on after the verdict on its proposal cannot undo what the     *)
(* verdict did to its node: the first needs the write lease between a node *)
(* whose agent proposes and the nodes that depend on it, the second that   *)
(* such an agent asks no question.                                         *)
(***************************************************************************)
EXTENDS TaskLifecycleProofs

\* The provers' time for a leaf, in seconds.
USE ZenonT(3), SMTT(30), ZenonT(60)
-----------------------------------------------------------------------------
(* The order of the plan.                                                  *)

\* Where the agent of a node may have it completed while it goes on itself, the write lease keeps the
\* nodes that depend on it from being started before that agent is off the books.
LeaseOrdersProposals == \A e \in Deps : e[1] \in ProposingNodes => e[1] \in WriteNodes /\ e[2] \in WriteNodes

\* An agent is at work on the node, or is being started.
Engaged(n) == open[n] # 0 \/ (pc = "StartChild" /\ at[1] = n)

\* The node is complete, and nobody is left who could make it something else.
Done(n) == nodes[n].st = "COMPLETED" /\ ~Engaged(n)

\* Only the nodes that may propose are queued for a verification.
Offered(cs) == \A i \in 1..Len(cs) : cs[i][1] = "completion" => cs[i][2][1] \in ProposingNodes

\* Only the nodes that may propose are verified on a proposal.
ProposersOnly == Offered(commands) /\ (pc = "VerifyProposal" => at[1] \in ProposingNodes)

\* The inductive invariant: what a node that is at work, or is chosen to be, depends on is done; and
\* a node is complete with an attempt on the books only through a proposal.
InOrder ==
    /\ \A n \in Nodes : nodes[n].st = "COMPLETED" /\ open[n] # 0 => n \in ProposingNodes
    /\ \A e \in Deps : Engaged(e[2]) \/ e[2] \in todo => Done(e[1])

\* No node but n moves, except that one which waited, or was given up on, gets ready.
OnlyAt(n, ns, ms) ==
    \A m \in Nodes : m # n =>
        /\ ms[m].cur = ns[m].cur
        /\ ms[m].st = ns[m].st \/ (ns[m].st \in {"PENDING", "BLOCKED"} /\ ms[m].st = "READY")

LEMMA DepNodes == ASSUME NEW e \in Deps  PROVE e[1] \in Nodes /\ e[2] \in Nodes
BY LifecycleConstants DEF Nodes

\* Setting the status of a node, or freezing it, completes no other and undoes no other.
LEMMA SetNodeOnly ==
    ASSUME NEW ns \in [Nodes -> NodeState], NEW n \in Nodes, NEW st \in NodeStatuses \ {"PENDING"}
    PROVE  OnlyAt(n, ns, SetNode(ns, n, st)) /\ SetNode(ns, n, st)[n].st = st /\ OnlyAt(n, ns, Freeze(ns, n))
<1>1. OnlyAt(n, ns, SetNode(ns, n, st)) /\ SetNode(ns, n, st)[n].st = st
  BY DEF OnlyAt, SetNode, RefreshReadiness, NodeState
<1> DEFINE fs == [ns EXCEPT ![n].frozen = TRUE]
<1>2. fs \in [Nodes -> NodeState] /\ \A m \in Nodes : fs[m].st = ns[m].st /\ fs[m].cur = ns[m].cur
  BY ZenonT(60) DEF NodeState
<1>3. Freeze(ns, n) = SetNode(fs, n, "COMPLETED")
  BY DEF Freeze
<1> HIDE DEF fs
<1>4. OnlyAt(n, fs, SetNode(fs, n, "COMPLETED"))
  BY <1>2 DEF OnlyAt, SetNode, RefreshReadiness, NodeState
<1> QED BY <1>1, <1>2, <1>3, <1>4 DEF OnlyAt

\* Unblocking makes ready what was given up on.
LEMMA UnblockOnly == ASSUME nodes \in [Nodes -> NodeState], UnblockNodes  PROVE OnlyAt(0, nodes, nodes') /\ 0 \notin Nodes
<1>1. \A m \in Nodes : \/ nodes'[m] = nodes[m]
                       \/ nodes[m].st = "BLOCKED" /\ nodes'[m] = [nodes[m] EXCEPT !.st = "READY"]
  BY DEF UnblockNodes
<1>2. \A m \in Nodes : [nodes[m] EXCEPT !.st = "READY"].st = "READY" /\ [nodes[m] EXCEPT !.st = "READY"].cur = nodes[m].cur
  BY DEF NodeState
<1>3. \A m \in Nodes : /\ nodes'[m].cur = nodes[m].cur
                       /\ nodes'[m].st = nodes[m].st \/ (nodes[m].st = "BLOCKED" /\ nodes'[m].st = "READY")
  BY <1>1, <1>2, ZenonT(60)
<1> QED BY <1>3 DEF OnlyAt, Nodes

\* The end of an attempt, whatever it is, completes no other node and undoes no other.
LEMMA SettleOnly ==
    ASSUME TypeOK, NEW a \in Ids,
           \/ MarkAttemptCancelled(a)
           \/ \E outcome \in Outcomes, rejected, spent \in BOOLEAN : \E ended : SettleAttempt(a, outcome, rejected, spent, ended)
    PROVE  OnlyAt(a[1], nodes, nodes') /\ open' = [open EXCEPT ![a[1]] = 0]
<1>0. a[1] \in Nodes /\ nodes \in [Nodes -> NodeState]
  BY IdParts DEF TypeOK, PlanTypes
<1> DEFINE Moved(ns) == \/ ns = nodes \/ ns = Freeze(nodes, a[1])
                        \/ \E st \in NodeStatuses \ {"PENDING"} : ns = SetNode(nodes, a[1], st)
<1>1. ASSUME NEW ns, Moved(ns)  PROVE ns \in [Nodes -> NodeState] /\ OnlyAt(a[1], nodes, ns)
  <2>1. CASE ns = nodes
    BY <1>0, <2>1 DEF OnlyAt
  <2>2. CASE ns = Freeze(nodes, a[1])
    <3>1. "BLOCKED" \in NodeStatuses \ {"PENDING"}
      BY DEF NodeStatuses
    <3>2. OnlyAt(a[1], nodes, Freeze(nodes, a[1]))
      BY <1>0, <3>1, SetNodeOnly
    <3> QED BY <1>0, <2>2, <3>2, FreezeType
  <2>3. ASSUME NEW st \in NodeStatuses \ {"PENDING"}, ns = SetNode(nodes, a[1], st)
        PROVE  ns \in [Nodes -> NodeState] /\ OnlyAt(a[1], nodes, ns)
    BY <1>0, <2>3, SetNodeOnly, SetNodeType
  <2> QED BY <1>1, <2>1, <2>2, <2>3, ZenonT(60)
<1>2. ASSUME NEW ns, Moved(ns)  PROVE OnlyAt(a[1], nodes, Leave(ns, a))
  <2>1. ns \in [Nodes -> NodeState] /\ OnlyAt(a[1], nodes, ns)
    BY <1>1, <1>2
  <2>2. \A m \in Nodes : Leave(ns, a)[m].st = ns[m].st /\ (m # a[1] => Leave(ns, a)[m].cur = ns[m].cur)
    BY <1>0, <2>1 DEF Leave, NodeState
  <2> QED BY <2>1, <2>2 DEF OnlyAt
<1>3. {"RETRY_PENDING", "BLOCKED"} \subseteq NodeStatuses \ {"PENDING"}
  BY DEF NodeStatuses
<1>4. Moved(AttemptCancelled(nodes, a[1], att[a].counted).nodes)
  BY <1>3 DEF AttemptCancelled
<1>5. \A retryable \in BOOLEAN : Moved(RetryOrBlock(nodes, a[1], att[a].counted, retryable).nodes)
  BY <1>3 DEF RetryOrBlock
<1>6. CASE MarkAttemptCancelled(a)
  <2>1. nodes' = nodes \/ nodes' = Leave(AttemptCancelled(nodes, a[1], att[a].counted).nodes, a)
    BY <1>6 DEF MarkAttemptCancelled, Apply
  <2> HIDE DEF Moved
  <2>2. OnlyAt(a[1], nodes, nodes')
    BY <1>2, <1>4, <2>1 DEF OnlyAt
  <2> QED BY <1>6, <2>2 DEF MarkAttemptCancelled, TakeOffBooks
<1>7. ASSUME NEW outcome \in Outcomes, NEW rejected \in BOOLEAN, NEW spent \in BOOLEAN, NEW ended,
             SettleAttempt(a, outcome, rejected, spent, ended)
      PROVE  OnlyAt(a[1], nodes, nodes') /\ open' = [open EXCEPT ![a[1]] = 0]
  <2> DEFINE s == SettleNode(a, outcome, rejected, spent)
  <2>1. nodes' = Leave(s.nodes, a) /\ open' = [open EXCEPT ![a[1]] = 0]
    BY <1>7 DEF SettleAttempt, Apply, TakeOffBooks
  <2>2. Moved(s.nodes)
    <3>1. CASE rejected
      BY <1>5, <3>1, ZenonT(60) DEF SettleNode
    <3>2. CASE ~rejected /\ outcome = "cancelled"
      BY <1>4, <3>2 DEF SettleNode
    <3>3. CASE ~rejected /\ outcome \in {"failed", "fatal"}
      <4>1. s = RetryOrBlock(nodes, a[1], att[a].counted, outcome = "failed") /\ (outcome = "failed") \in BOOLEAN
        BY <3>3 DEF SettleNode
      <4> QED BY <1>5, <4>1, ZenonT(60)
    <3>4. CASE ~rejected /\ outcome = "completed"
      BY <1>3, <3>4 DEF SettleNode
    <3> QED BY <3>1, <3>2, <3>3, <3>4 DEF Outcomes
  <2> HIDE DEF Moved, s
  <2> QED BY <1>2, <2>1, <2>2
<1> QED BY <1>6, <1>7, ZenonT(60)

\* What a step has to leave: it moves a node that an agent is on or that was not complete, completes it
\* under that agent only through a proposal, and starts and chooses nothing.
LEMMA OrderStep ==
    ASSUME InOrder, NEW k, OnlyAt(k, nodes, nodes'),
           k \in Nodes => /\ open[k] # 0 \/ nodes[k].st # "COMPLETED"
                          /\ nodes'[k].st = "COMPLETED" => nodes[k].st = "COMPLETED" \/ open'[k] = 0 \/ k \in ProposingNodes,
           \A n \in Nodes : open'[n] = open[n] \/ open'[n] = 0,
           todo' \subseteq todo,
           UNCHANGED <<pc, at>> \/ pc' # "StartChild"
    PROVE  InOrder'
<1>1. \A n \in Nodes : Engaged(n)' => Engaged(n)
  BY DEF Engaged
<1>2. \A n \in Nodes : Done(n) => Done(n)'
  BY <1>1 DEF Done, Engaged, OnlyAt
<1>3. \A n \in Nodes : nodes'[n].st = "COMPLETED" /\ open'[n] # 0 => n \in ProposingNodes
  BY DEF InOrder, OnlyAt
<1>4. \A e \in Deps : Engaged(e[2])' \/ e[2] \in todo' => Done(e[1])'
  BY <1>1, <1>2, DepNodes DEF InOrder
<1> QED BY <1>3, <1>4 DEF InOrder

\* A step that leaves the plan and the books as they are.
LEMMA OrderFrame ==
    ASSUME InOrder, UNCHANGED <<nodes, open>>, todo' \subseteq todo,
           UNCHANGED <<pc, at>> \/ pc' # "StartChild"
    PROVE  InOrder'
<1>1. OnlyAt(0, nodes, nodes') /\ 0 \notin Nodes
  BY DEF OnlyAt, Nodes
<1> QED BY <1>1, OrderStep

\* The main loop takes the oldest command off the queue, or leaves the queue alone.
LEMMA OfferedTail ==
    ASSUME TypeOK, Offered(commands), commands # <<>>, commands' = Tail(commands)
    PROVE  Offered(commands')
<1>1. commands \in Seq(Command)
  BY DEF TypeOK, MsgTypes
<1>2. /\ Len(Tail(commands)) = Len(commands) - 1
      /\ \A i \in 1..Len(Tail(commands)) : Tail(commands)[i] = commands[i + 1] /\ i + 1 \in 1..Len(commands)
  BY <1>1
<1> QED BY <1>2 DEF Offered

\* Messages are queued, and the proposals of the nodes that may make them.
LEMMA OfferedMore ==
    ASSUME TypeOK, Offered(commands), NEW c \in Command, commands' = Append(commands, c),
           c[1] = "completion" => c[2][1] \in ProposingNodes
    PROVE  Offered(commands')
<1>1. commands \in Seq(Command) /\ Len(commands) \in Nat
  BY DEF TypeOK, MsgTypes
<1>2. /\ Len(Append(commands, c)) = Len(commands) + 1
      /\ \A i \in 1..Len(commands) : Append(commands, c)[i] = commands[i]
      /\ Append(commands, c)[Len(commands) + 1] = c
  BY <1>1
<1> SUFFICES ASSUME NEW i \in 1..Len(commands'), commands'[i][1] = "completion"  PROVE commands'[i][2][1] \in ProposingNodes
  BY DEF Offered
<1>3. i \in 1..Len(commands) \/ i = Len(commands) + 1
  BY <1>1, <1>2
<1> QED BY <1>2, <1>3 DEF Offered

\* A step that queues no proposal and verifies none.
LEMMA ProposersStep ==
    ASSUME TypeOK, ProposersOnly,
           UNCHANGED commands \/ (commands # <<>> /\ commands' = Tail(commands)) \/ QueueMessage,
           UNCHANGED <<pc, at>> \/ pc' # "VerifyProposal"
    PROVE  ProposersOnly'
<1>1. ASSUME QueueMessage  PROVE Offered(commands')
  <2>1. <<"message", <<0, sent + 1>>>> \in Command /\ commands' = Append(commands, <<"message", <<0, sent + 1>>>>)
    BY <1>1, LifecycleConstants DEF QueueMessage, Command, MsgIds, TypeOK, MsgTypes
  <2> QED BY <2>1, OfferedMore DEF ProposersOnly
<1>2. Offered(commands')
  BY <1>1, OfferedTail, ZenonT(60) DEF ProposersOnly
<1> QED BY <1>2 DEF ProposersOnly

\* Every step keeps it.
LEMMA ProposersNext == TypeOK /\ ProposersOnly /\ [Next]_vars => ProposersOnly'
<1> SUFFICES ASSUME TypeOK, ProposersOnly, [Next]_vars  PROVE ProposersOnly'
  OBVIOUS
<1> USE DEF msgVars, loopVars
<1>1. CASE DrainCompletion
  <2>1. commands \in Seq(Command) /\ commands # <<>> /\ Head(commands)[1] = "completion" /\ commands' = Tail(commands)
    BY <1>1 DEF DrainCompletion, TypeOK, MsgTypes
  <2>2. 1 \in 1..Len(commands) /\ commands[1] = Head(commands)
    BY <2>1
  <2>3. Head(commands)[2][1] \in ProposingNodes
    BY <2>1, <2>2 DEF ProposersOnly, Offered
  <2>4. Offered(commands')
    BY <2>1, OfferedTail DEF ProposersOnly
  <2> QED BY <1>1, <2>3, <2>4 DEF ProposersOnly, DrainCompletion
<1>2. CASE MainStep /\ ~DrainCompletion
  <2>1. UNCHANGED commands \/ (commands # <<>> /\ commands' = Tail(commands))
    BY <1>2, ZenonT(60) DEF MainStep, DrainDone, DrainMessageStays, DrainMessage, Delivered, Refused, SettleProposal,
       ScheduleNode, AttemptStarted, ScheduleDone, Derive, Flushed, Judge, CompletedFlushed, Rest, WakeUp, Close,
       LastFlushed, StartLeaving, LeavingPass, ContinueAsNew
  <2>2. UNCHANGED <<pc, at>> \/ pc' # "VerifyProposal"
    BY <1>2, ZenonT(60) DEF MainStep, DrainDone, DrainMessageStays, DrainMessage, Delivered, Refused, SettleProposal,
       ScheduleNode, AttemptStarted, ScheduleDone, Derive, Flushed, Judge, CompletedFlushed, Rest, WakeUp, Close,
       LastFlushed, StartLeaving, LeavingPass, ContinueAsNew, LoopTop, FlushTo
  <2> QED BY <2>1, <2>2, ProposersStep
<1>3. ASSUME UNCHANGED <<msgVars, loopVars>>  PROVE ProposersOnly'
  BY <1>3, ProposersStep
<1>4. ASSUME NEW a \in Ids, HandlerStep(a)  PROVE ProposersOnly'
  BY <1>3, <1>4, ZenonT(60) DEF HandlerStep, ReportDropped, AttemptParked, AttemptToVerify, AttemptFinished, Handles,
     AttemptVerified, DecisionSignalled, CancelFallback
<1>5. ASSUME NEW a \in Ids, ChildNext(a)  PROVE ProposersOnly'
  BY <1>3, <1>5, ZenonT(60) DEF ChildNext, ChildEnds, ChildFinishes, ChildParks, ChildCancelled, ChildLost, ChildStep
<1>6. ASSUME NEW n \in Nodes, BackoffOver(n) \/ CompleteNode(n)  PROVE ProposersOnly'
  BY <1>3, <1>6 DEF BackoffOver, CompleteNode
<1>7. ASSUME NEW a \in Ids, DeclareBlocked(a) \/ DecideApproval(a)  PROVE ProposersOnly'
  BY <1>3, <1>7, ZenonT(60) DEF DeclareBlocked, DecideApproval
<1>8. ASSUME NEW a \in Ids, ProposeCompletion(a)  PROVE ProposersOnly'
  <2>1. <<"completion", a>> \in Command /\ a[1] \in ProposingNodes /\ commands' = Append(commands, <<"completion", a>>)
    BY <1>8 DEF ProposeCompletion, Command
  <2>2. Offered(commands')
    BY <2>1, OfferedMore DEF ProposersOnly
  <2> QED BY <1>8, <2>2 DEF ProposersOnly, ProposeCompletion
<1>9. CASE SendMessage
  BY <1>9, ProposersStep DEF SendMessage
<1>10. ASSUME NEW c \in Controls, ControlGoesOn(c) \/ \E action \in ControlActions : ControlArrives(c, action)
       PROVE  ProposersOnly'
  <2>1. (QueueMessage \/ UNCHANGED commands) /\ UNCHANGED <<pc, at>>
    BY <1>10, ZenonT(60) DEF ControlGoesOn, ControlArrives
  <2> QED BY <2>1, ProposersStep
<1>11. CASE UNCHANGED vars
  BY <1>3, <1>11 DEF vars
<1> QED BY <1>1, <1>2, <1>4, <1>5, <1>6, <1>7, <1>8, <1>9, <1>10, <1>11, ZenonT(60) DEF Next, CommandStep

LEMMA Proposers == Spec => []ProposersOnly
<1>1. Init => ProposersOnly
  BY DEF Init, ProposersOnly, Offered
<1>2. TypeOK /\ ProposersOnly /\ [Next]_vars => ProposersOnly'
  BY ProposersNext
<1> QED BY <1>1, <1>2, TypeCorrect, PTL DEF Spec

\* A step that gives the node of an attempt on the books a status other than COMPLETED.
LEMMA OrderMoved ==
    ASSUME TypeOK, InOrder, NEW a \in Ids, IsOpen(a), NEW st \in NodeStatuses \ {"PENDING", "COMPLETED"},
           nodes' = SetNode(nodes, a[1], st), UNCHANGED open, todo' \subseteq todo,
           UNCHANGED <<pc, at>> \/ pc' # "StartChild"
    PROVE  InOrder'
<1>1. a[1] \in Nodes /\ nodes \in [Nodes -> NodeState] /\ open[a[1]] # 0
  BY IdParts DEF TypeOK, PlanTypes, IsOpen
<1>2. OnlyAt(a[1], nodes, nodes') /\ nodes'[a[1]].st # "COMPLETED"
  BY <1>1, SetNodeOnly
<1> QED BY <1>1, <1>2, OrderStep

\* A parked attempt that goes on is on the books.
LEMMA OrderResume ==
    ASSUME TypeOK, InOrder, NEW a \in Ids, ResumeParked(a), UNCHANGED open, todo' \subseteq todo,
           UNCHANGED <<pc, at>> \/ pc' # "StartChild"
    PROVE  InOrder'
<1>1. CASE UNCHANGED nodes
  BY <1>1, OrderFrame
<1>2. CASE IsOpen(a) /\ nodes' = SetNode(nodes, a[1], "RUNNING")
  <2>1. "RUNNING" \in NodeStatuses \ {"PENDING", "COMPLETED"}
    BY DEF NodeStatuses
  <2> QED BY <1>2, <2>1, OrderMoved
<1> QED BY <1>1, <1>2 DEF ResumeParked, Resumes

\* The ready nodes are chosen when no attempt is being started: what they depend on is complete, and
\* an agent that is still on such a node holds the write lease they would need.
LEMMA OrderChosen ==
    ASSUME LeaseOrdersProposals, TypeOK, InOrder, DrainDone
    PROVE  InOrder'
<1>1. /\ UNCHANGED <<nodes, open>> /\ pc = "Drain" /\ pc' \in {"HandlersDone", "Schedule"}
      /\ todo' \subseteq ReadyOrder
  BY DEF DrainDone, planVars, bookVars
<1>2. \A n \in Nodes : (Engaged(n)' <=> Engaged(n)) /\ (Engaged(n) <=> open[n] # 0) /\ (Done(n)' <=> Done(n))
  BY <1>1 DEF Engaged, Done
<1>3. \A n \in ReadyOrder : CanAct(n) /\ (n \in WriteNodes => ~WriteBusy)
  BY DEF ReadyOrder
<1>4. ASSUME NEW e \in Deps, e[2] \in ReadyOrder  PROVE Done(e[1])
  <2>1. nodes[e[1]].st = "COMPLETED" /\ e[1] \in Nodes
    BY <1>3, <1>4, DepNodes DEF CanAct, DependenciesDone
  <2>2. open[e[1]] = 0
    <3> SUFFICES ASSUME open[e[1]] # 0  PROVE FALSE
      OBVIOUS
    <3>1. e[1] \in WriteNodes /\ e[2] \in WriteNodes
      BY <2>1 DEF InOrder, LeaseOrdersProposals
    <3> QED BY <1>3, <1>4, <3>1 DEF WriteBusy
  <2> QED BY <1>2, <2>1, <2>2 DEF Done
<1>5. \A e \in Deps : Engaged(e[2])' \/ e[2] \in todo' => Done(e[1])'
  BY <1>1, <1>2, <1>4, DepNodes DEF InOrder
<1> QED BY <1>1, <1>5 DEF InOrder

\* A chosen node is started, and then it is on the books.
LEMMA OrderStart ==
    ASSUME TypeOK, InOrder, AttemptStarted \/ \E n \in Nodes : ScheduleNode(n)
    PROVE  InOrder'
<1>1. CASE AttemptStarted
  <2>1. /\ at[1] \in Nodes /\ at[2] # 0 /\ pc = "StartChild" /\ pc' = "Schedule" /\ open \in [Nodes -> 0..MaxNo]
        /\ open' = [open EXCEPT ![at[1]] = at[2]] /\ UNCHANGED todo
        /\ nodes' = [nodes EXCEPT ![at[1]].cur = at[2], ![at[1]].count = at[2], ![at[1]].st = "RUNNING"]
        /\ nodes \in [Nodes -> NodeState]
    BY <1>1, AtType DEF AttemptStarted, TypeOK, BookTypes, PlanTypes
  <2>2. nodes'[at[1]].st = "RUNNING" /\ \A n \in Nodes : n # at[1] => nodes'[n] = nodes[n]
    BY <2>1 DEF NodeState
  <2>3. \A n \in Nodes : Engaged(n)' <=> Engaged(n)
    BY <2>1 DEF Engaged
  <2>4. \A n \in Nodes : Done(n) => Done(n)'
    BY <2>1, <2>2, <2>3 DEF Done, Engaged
  <2>5. \A n \in Nodes : nodes'[n].st = "COMPLETED" /\ open'[n] # 0 => n \in ProposingNodes
    BY <2>1, <2>2 DEF InOrder
  <2>6. \A e \in Deps : Engaged(e[2])' \/ e[2] \in todo' => Done(e[1])'
    BY <2>1, <2>3, <2>4, DepNodes DEF InOrder
  <2> QED BY <2>1, <2>5, <2>6 DEF InOrder
<1>2. ASSUME NEW n \in Nodes, ScheduleNode(n)  PROVE InOrder'
  <2>1. UNCHANGED <<nodes, open>> /\ n \in todo /\ todo' = todo \ {n} /\ pc = "Schedule"
    BY <1>2 DEF ScheduleNode, planVars, bookVars
  <2>2. CASE UNCHANGED <<pc, at>>
    BY <2>1, <2>2, OrderFrame
  <2>3. CASE pc' = "StartChild" /\ at' = <<n, nodes[n].count + 1>> /\ nodes[n].st \in StartableStatus
    <3>1. \A m \in Nodes : Engaged(m)' => Engaged(m) \/ m = n
      BY <2>1, <2>3 DEF Engaged
    <3>2. \A m \in Nodes : Done(m) => Done(m)'
      BY <2>1, <2>3, <3>1 DEF Done, StartableStatus
    <3>3. \A e \in Deps : Engaged(e[2])' \/ e[2] \in todo' => Done(e[1])'
      BY <2>1, <3>1, <3>2, DepNodes DEF InOrder
    <3> QED BY <2>1, <2>3, <3>3 DEF InOrder
  <2> QED BY <1>2, <2>2, <2>3 DEF ScheduleNode
<1> QED BY <1>1, <1>2

\* The rest of the main loop.
LEMMA OrderLoop ==
    ASSUME TypeOK, InOrder,
           \/ ScheduleDone \/ Derive \/ Flushed \/ Judge \/ CompletedFlushed \/ Rest \/ WakeUp
           \/ Close \/ LastFlushed \/ StartLeaving \/ LeavingPass \/ ContinueAsNew
           \/ DrainMessageStays \/ (\E a \in Ids : DrainMessage(a)) \/ Delivered \/ Refused
    PROVE  InOrder'
<1> USE DEF planVars, bookVars, loopVars, msgVars
<1>1. UNCHANGED open /\ todo' \subseteq todo
  BY ZenonT(60) DEF ScheduleDone, Derive, Flushed, Judge, CompletedFlushed, Rest, WakeUp, Close, LastFlushed,
         StartLeaving, LeavingPass, ContinueAsNew, DrainMessageStays, DrainMessage, Delivered, Refused
<1>2. UNCHANGED <<pc, at>> \/ pc' # "StartChild"
  BY ZenonT(60) DEF ScheduleDone, Derive, Flushed, Judge, CompletedFlushed, Rest, WakeUp, Close, LastFlushed,
         StartLeaving, LeavingPass, ContinueAsNew, DrainMessageStays, DrainMessage, Delivered, Refused, LoopTop, FlushTo
<1> HIDE <1>2
<1>5. CASE UNCHANGED nodes
  BY <1>1, <1>2, <1>5, OrderFrame
<1>6. CASE Delivered /\ ResumeParked(at)
  <2>1. at \in Ids
    BY <1>6, AtType DEF Delivered
  <2> QED BY <1>1, <1>2, <1>6, <2>1, OrderResume
<1> QED BY <1>5, <1>6, ZenonT(60)
    DEF ScheduleDone, Derive, Flushed, Judge, CompletedFlushed, Rest, WakeUp, Close, LastFlushed, StartLeaving,
        LeavingPass, ContinueAsNew, DrainMessageStays, DrainMessage, Delivered, Refused

\* The main loop verifies what a node that may propose has proposed.
LEMMA OrderProposal ==
    ASSUME TypeOK, ProposersOnly, InOrder, DrainCompletion \/ \E ok \in BOOLEAN : SettleProposal(ok)
    PROVE  InOrder'
<1>0. nodes \in [Nodes -> NodeState]
  BY DEF TypeOK, PlanTypes
<1>1. CASE DrainCompletion
  <2> DEFINE a == Head(commands)[2]
  <2>1. a \in Ids /\ UNCHANGED <<open, todo>>
    BY <1>1, HeadCompletion, ZenonT(60) DEF DrainCompletion
  <2>2. CASE UNCHANGED <<nodes, pc, at>>
    BY <2>1, <2>2, OrderFrame
  <2>3. CASE IsOpen(a) /\ nodes' = SetNode(nodes, a[1], "VERIFYING") /\ pc' = "VerifyProposal" /\ at' = a
    <3>1. "VERIFYING" \in NodeStatuses \ {"PENDING", "COMPLETED"}
      BY DEF NodeStatuses
    <3> HIDE DEF a
    <3> QED BY <2>1, <2>3, <3>1, OrderMoved
  <2> QED BY <1>1, <2>2, <2>3 DEF DrainCompletion
<1>2. ASSUME NEW ok \in BOOLEAN, SettleProposal(ok)  PROVE InOrder'
  <2>1. /\ at \in Ids /\ at[1] \in Nodes /\ at[2] # 0 /\ UNCHANGED <<open, todo>> /\ pc' = "Drain"
        /\ at[1] \in ProposingNodes
    BY <1>2, AtType DEF SettleProposal, ProposersOnly
  <2>2. CASE UNCHANGED nodes
    BY <2>1, <2>2, OrderFrame
  <2>3. CASE IsOpen(at) /\ (nodes' = Freeze(nodes, at[1]) \/ nodes' = SetNode(nodes, at[1], "BLOCKED")
                              \/ nodes' = SetNode(nodes, at[1], "RETRY_PENDING"))
    <3>1. "BLOCKED" \in NodeStatuses \ {"PENDING"} /\ "RETRY_PENDING" \in NodeStatuses \ {"PENDING"}
      BY DEF NodeStatuses
    <3>2. OnlyAt(at[1], nodes, nodes') /\ open[at[1]] # 0
      BY <1>0, <2>1, <2>3, <3>1, SetNodeOnly DEF IsOpen
    <3> QED BY <2>1, <3>2, OrderStep
  <2> QED BY <1>2, <2>2, <2>3 DEF SettleProposal, RetryOrBlock, Apply
<1> QED BY <1>1, <1>2

\* A handler that takes an attempt off the books may leave its node anything.
LEMMA OrderEnd ==
    ASSUME TypeOK, InOrder, NEW a \in Ids, IsOpen(a), UNCHANGED <<pc, at, todo>>,
           \/ MarkAttemptCancelled(a)
           \/ \E outcome \in Outcomes, rejected, spent \in BOOLEAN : \E ended : SettleAttempt(a, outcome, rejected, spent, ended)
    PROVE  InOrder'
<1>1. a[1] \in Nodes /\ open \in [Nodes -> 0..MaxNo] /\ open[a[1]] # 0
  BY IdParts DEF TypeOK, BookTypes, IsOpen
<1>2. OnlyAt(a[1], nodes, nodes') /\ open' = [open EXCEPT ![a[1]] = 0]
  BY SettleOnly, ZenonT(60)
<1>3. open'[a[1]] = 0 /\ \A n \in Nodes : open'[n] = open[n] \/ open'[n] = 0
  BY <1>1, <1>2
<1> QED BY <1>1, <1>2, <1>3, OrderStep

\* The handlers of the attempts.
LEMMA OrderHandler ==
    ASSUME TypeOK, InOrder, NEW a \in Ids, HandlerStep(a)
    PROVE  InOrder'
<1> USE DEF loopVars
<1>0. UNCHANGED <<pc, at, todo>>
  BY ZenonT(60) DEF HandlerStep, ReportDropped, AttemptParked, AttemptToVerify, AttemptFinished, Handles, AttemptVerified,
         DecisionSignalled, CancelFallback
<1>1. CASE UNCHANGED <<nodes, open>>
  BY <1>0, <1>1, OrderFrame
<1>2. ASSUME NEW st \in {"AWAITING_APPROVAL", "AWAITING_INPUT", "VERIFYING", "RUNNING"}, IsOpen(a), UNCHANGED open,
             nodes' = SetNode(nodes, a[1], st)
      PROVE  InOrder'
  <2>1. st \in NodeStatuses \ {"PENDING", "COMPLETED"}
    BY DEF NodeStatuses
  <2> QED BY <1>0, <1>2, <2>1, OrderMoved
<1>3. CASE ReportDropped(a)
  BY <1>1, <1>3 DEF ReportDropped, bookVars
<1>4. CASE AttemptParked(a)
  BY <1>2, <1>4 DEF AttemptParked
<1>5. CASE AttemptToVerify(a)
  BY <1>1, <1>2, <1>5 DEF AttemptToVerify
<1>6. ASSUME NEW spent \in BOOLEAN, AttemptFinished(a, spent)  PROVE InOrder'
  <2>1. Head(mail[a]) \in Outcomes
    BY <1>6, HandlesTyping DEF AttemptFinished, Parks, Report, Outcomes
  <2> DEFINE rejected == Head(mail[a]) = "completed" /\ att[a].verdict = "rejected"
  <2>2. IsOpen(a) /\ (MarkAttemptCancelled(a) \/ SettleAttempt(a, Head(mail[a]), rejected, spent, EndedAs(a, Head(mail[a]))))
    BY <1>6 DEF AttemptFinished
  <2>3. rejected \in BOOLEAN
    OBVIOUS
  <2> HIDE DEF rejected
  <2> QED BY <1>0, <2>1, <2>2, <2>3, OrderEnd, ZenonT(60)
<1>7. ASSUME NEW spent \in BOOLEAN, NEW ok \in BOOLEAN, AttemptVerified(a, ok, spent)  PROVE InOrder'
  <2>1. "completed" \in Outcomes /\ (~ok) \in BOOLEAN
    BY DEF Outcomes
  <2>2. \/ UNCHANGED <<nodes, open>>
        \/ IsOpen(a) /\ (MarkAttemptCancelled(a) \/ \E ended : SettleAttempt(a, "completed", ~ok, spent, ended))
    BY <1>7, ZenonT(60) DEF AttemptVerified
  <2> QED BY <1>0, <1>1, <2>1, <2>2, OrderEnd, ZenonT(60)
<1>8. CASE DecisionSignalled(a)
  BY <1>1, <1>2, <1>8 DEF DecisionSignalled, Resumes
<1>9. CASE CancelFallback(a)
  BY <1>0, <1>1, <1>9, OrderEnd, ZenonT(60) DEF CancelFallback
<1> QED BY <1>3, <1>4, <1>5, <1>6, <1>7, <1>8, <1>9, ZenonT(60) DEF HandlerStep

\* The commands: a person completes a node that was not, and nobody undoes a completion.
LEMMA OrderCommand ==
    ASSUME TypeOK, InOrder,
           CommandStep \/ (\E c \in Controls : ControlGoesOn(c)) \/ (\E n \in Nodes : BackoffOver(n))
    PROVE  InOrder'
<1> USE DEF planVars, bookVars, loopVars
<1>0. nodes \in [Nodes -> NodeState]
  BY DEF TypeOK, PlanTypes
<1>1. ASSUME UNCHANGED <<nodes, open, pc, at, todo>>  PROVE InOrder'
  BY <1>1, OrderFrame
<1>2. CASE SendMessage \/ \E a \in Ids : ProposeCompletion(a)
  BY <1>1, <1>2, ZenonT(60) DEF SendMessage, ProposeCompletion
<1>4. ASSUME NEW a \in Ids, DeclareBlocked(a)  PROVE InOrder'
  <2>1. /\ a[1] \in Nodes /\ open[a[1]] # 0 /\ UNCHANGED <<open, pc, at, todo>>
        /\ nodes' = [nodes EXCEPT ![a[1]].st = "BLOCKED"]
    BY <1>4, IdParts DEF DeclareBlocked, IsOpen
  <2>2. OnlyAt(a[1], nodes, nodes') /\ nodes'[a[1]].st # "COMPLETED"
    BY <1>0, <2>1 DEF OnlyAt, NodeState
  <2> QED BY <1>0, <2>1, <2>2, OrderStep, ZenonT(60)
<1>5. ASSUME NEW a \in Ids, DecideApproval(a)  PROVE InOrder'
  <2>1. UNCHANGED <<open, pc, at, todo>> /\ (UNCHANGED nodes \/ ResumeParked(a))
    BY <1>5 DEF DecideApproval
  <2> QED BY <1>0, <2>1, OrderFrame, OrderResume
<1>6. ASSUME NEW n \in Nodes, CompleteNode(n)  PROVE InOrder'
  <2>1. /\ UNCHANGED <<open, pc, at, todo>> /\ nodes' = Freeze(nodes, n)
        /\ open[n] = 0 /\ nodes[n].st # "COMPLETED"
    BY <1>6 DEF CompleteNode
  <2>2. "BLOCKED" \in NodeStatuses \ {"PENDING"}
    BY DEF NodeStatuses
  <2>3. OnlyAt(n, nodes, nodes')
    BY <1>0, <2>1, <2>2, SetNodeOnly
  <2> QED BY <1>0, <2>1, <2>3, OrderStep
<1>7. ASSUME NEW c \in Controls, NEW action, NEW rest, NEW said, ControlStep(c, action, rest, said),
             UNCHANGED <<open, pc, at, todo>>
      PROVE  InOrder'
  <2>1. UNCHANGED nodes \/ UnblockNodes
    BY <1>7, ZenonT(60) DEF ControlStep
  <2>2. OnlyAt(0, nodes, nodes') /\ 0 \notin Nodes
    <3>1. CASE UNCHANGED nodes
      BY <3>1 DEF OnlyAt, Nodes
    <3>2. CASE UnblockNodes
      BY <1>0, <3>2, UnblockOnly
    <3> QED BY <2>1, <3>1, <3>2
  <2> QED BY <1>7, <2>2, OrderStep
<1>8. ASSUME NEW c \in Controls, NEW action \in ControlActions, ControlArrives(c, action)  PROVE InOrder'
  <2> DEFINE said == action = "interrupt"
  <2>1. ControlStep(c, action, OpenIds, said) /\ UNCHANGED <<open, pc, at, todo>>
    BY <1>8, ZenonT(60) DEF ControlArrives
  <2> HIDE DEF said
  <2> QED BY <1>7, <2>1
<1>9. ASSUME NEW c \in Controls, ControlGoesOn(c)  PROVE InOrder'
  <2>1. ControlStep(c, control[c].action, control[c].rest, FALSE) /\ UNCHANGED <<open, pc, at, todo>>
    BY <1>9, ZenonT(60) DEF ControlGoesOn
  <2> QED BY <1>7, <2>1, ZenonT(60)
<1>10. ASSUME NEW n \in Nodes, BackoffOver(n)  PROVE InOrder'
  BY <1>1, <1>10 DEF BackoffOver
<1> QED BY <1>2, <1>4, <1>5, <1>6, <1>8, <1>9, <1>10, ZenonT(60) DEF CommandStep

\* Every step keeps it.
LEMMA OrderNext == ASSUME LeaseOrdersProposals  PROVE TypeOK /\ ProposersOnly /\ InOrder /\ [Next]_vars => InOrder'
<1> SUFFICES ASSUME TypeOK, ProposersOnly, InOrder, [Next]_vars  PROVE InOrder'
  OBVIOUS
<1>1. CASE MainStep
  BY <1>1, OrderLoop, OrderChosen, OrderProposal, OrderStart, ZenonT(60) DEF MainStep
<1>2. ASSUME UNCHANGED <<planVars, bookVars, loopVars>>  PROVE InOrder'
  BY <1>2, OrderFrame DEF planVars, bookVars, loopVars
<1>3. ASSUME NEW a \in Ids, ChildNext(a)  PROVE InOrder'
  BY <1>2, <1>3, ZenonT(60) DEF ChildNext, ChildEnds, ChildFinishes, ChildParks, ChildCancelled, ChildLost, ChildStep
<1>4. CASE UNCHANGED vars
  BY <1>2, <1>4 DEF vars
<1> QED BY <1>1, <1>3, <1>4, OrderHandler, OrderCommand, ZenonT(60) DEF Next

\* For any plan and any bounds, a node is at work or being started only when everything it depends on is
\* complete, whatever retries, cancels, pauses, verdicts and completions by a person come between the
\* reading of the ready nodes and the start of the last of them (_ready_order, _schedule_ready).  The
\* proviso is that an edge that leaves a node whose agent may propose its completion joins two write
\* nodes: a proposal completes the node while its agent goes on, and only the write lease then keeps
\* what depends on it from starting before that agent can fail and take the completion back.
THEOREM PlanOrderKept == ASSUME LeaseOrdersProposals  PROVE Spec => []DependenciesRespected
<1>1. InOrder => DependenciesRespected
  BY DepNodes DEF InOrder, DependenciesRespected, DependenciesDone, Engaged, Done
<1>2. Init => InOrder
  <2> SUFFICES ASSUME Init  PROVE InOrder
    OBVIOUS
  <2>1. pc = "Drain" /\ todo = {} /\ \A n \in Nodes : open[n] = 0
    BY DEF Init
  <2> QED BY <2>1, DepNodes DEF InOrder, Engaged
<1>3. TypeOK /\ ProposersOnly /\ InOrder /\ [Next]_vars => InOrder'
  BY OrderNext
<1> QED BY <1>1, <1>2, <1>3, TypeCorrect, Proposers, PTL DEF Spec
-----------------------------------------------------------------------------
(* A node that is shown at work has an attempt.                            *)

AtWork == {"RUNNING", "VERIFYING", "AWAITING_APPROVAL", "AWAITING_INPUT"}
ParkedSt == {"PARKED_APPROVAL", "PARKED_INPUT"}

\* A report that a child has parked is on the way.
SaysParked(a) == \E i \in 1..Len(mail[a]) : Parks(mail[a][i])

\* Only the agents that may park have parked, or have reported it.
ParkersOnly == \A a \in Ids : att[a].st \in ParkedSt \/ SaysParked(a) => a[1] \in ParkingNodes

\* The node's current attempt is the one on the books; the node is not at work without one.  An
\* attempt that was held against the node and goes on had its proposal rejected, which put the node
\* away, and nothing may show the node at work again: its end would not be counted, and leave it there.
MannedAt(n) ==
    /\ open[n] # 0 => nodes[n].cur = open[n]
    /\ nodes[n].st \in AtWork => open[n] # 0
    /\ open[n] # 0 /\ att[<<n, open[n]>>].counted =>
          n \in ProposingNodes /\ att[<<n, open[n]>>].verdict = "rejected" /\ nodes[n].st \notin AtWork
    /\ pc = "VerifyProposal" /\ at = <<n, open[n]>> => att[at].verdict = "verifying"

Manned == \A n \in Nodes : MannedAt(n)

\* An attempt parks when a report says so.
LEMMA ParkedByReport ==
    ASSUME TypeOK, Next, NEW b \in Ids, att'[b].st \in ParkedSt
    PROVE  att[b].st \in ParkedSt \/ SaysParked(b)
<1> USE DEF planVars, bookVars, loopVars, handVars, childVars
<1> DEFINE P == att[b].st \in ParkedSt \/ SaysParked(b)
<1>0. att \in [Ids -> Attempt] /\ att[b] \in Attempt /\ Outcomes \cap ParkedSt = {} /\ "RUNNING" \notin ParkedSt
  BY DEF TypeOK, BookTypes, Outcomes, ParkedSt
<1>1. ASSUME UNCHANGED att  PROVE P
  BY <1>1
<1>2. ASSUME NEW x \in Ids, NEW r, att' = [att EXCEPT ![x] = r], r.st = att[x].st \/ r.st \notin ParkedSt  PROVE P
  BY <1>0, <1>2
<1>3. ASSUME NEW x \in Ids, ResumeParked(x)  PROVE P
  BY <1>0, <1>1, <1>3 DEF ResumeParked, Attempt
<1>4. CASE Delivered
  BY <1>1, <1>3, <1>4, AtType, ZenonT(60) DEF Delivered
<1>5. CASE Refused \/ DrainCompletion \/ \E ok \in BOOLEAN : SettleProposal(ok)
  <2>1. att'[b].st = att[b].st
    <3>1. CASE Refused
      BY <1>0, <3>1 DEF Refused, Attempt
    <3>2. CASE DrainCompletion
      BY <1>0, <3>2 DEF DrainCompletion, Attempt
    <3>3. ASSUME NEW ok \in BOOLEAN, SettleProposal(ok)  PROVE att'[b].st = att[b].st
      <4>1. \/ att' = att \/ att' = [att EXCEPT ![at].verdict = "accepted"]
            \/ att' = [att EXCEPT ![at].verdict = "rejected", ![at].counted = TRUE]
        BY <3>3, ZenonT(60) DEF SettleProposal
      <4> QED BY <1>0, <4>1 DEF Attempt
    <3> QED BY <1>5, <3>1, <3>2, <3>3
  <2> QED BY <2>1
<1>6. CASE AttemptStarted
  <2>1. att' = [att EXCEPT ![at] = NewAttempt] /\ at \in Ids /\ NewAttempt.st \notin ParkedSt
    BY <1>0, <1>6, AtType DEF AttemptStarted, NewAttempt
  <2> QED BY <1>2, <2>1
<1>7. CASE MainStep
  BY <1>1, <1>4, <1>5, <1>6, <1>7, ZenonT(60) DEF MainStep, DrainDone, DrainMessageStays, DrainMessage,
     ScheduleNode, ScheduleDone, Derive, Flushed, Judge, CompletedFlushed, Rest, WakeUp, Close, LastFlushed,
     StartLeaving, LeavingPass, ContinueAsNew
<1>8. ASSUME NEW a \in Ids, HandlerStep(a)  PROVE P
  <2>1. CASE ReportDropped(a) \/ CancelFallback(a)
    BY <1>1, <2>1 DEF ReportDropped, CancelFallback
  <2>2. CASE AttemptParked(a)
    <3>1. mail[a] \in Seq(Report) /\ mail[a] # <<>> /\ Parks(Head(mail[a])) /\ (b # a => att'[b] = att[b])
      BY <1>0, <2>2 DEF AttemptParked, Handles, TypeOK, ChildTypes
    <3>2. SaysParked(a)
      BY <3>1 DEF SaysParked
    <3> QED BY <3>1, <3>2
  <2>3. ASSUME NEW x, x.st = att[a].st \/ x.st \notin ParkedSt, NEW y, att' = [att EXCEPT ![a] = [x EXCEPT !.counted = y]],
               x \in Attempt
        PROVE  P
    <3>1. [x EXCEPT !.counted = y].st = x.st
      BY <2>3 DEF Attempt
    <3> QED BY <1>2, <2>3, <3>1
  <2>4. CASE AttemptToVerify(a)
    <3>1. [EndedAs(a, "completed") EXCEPT !.verdict = "verifying"].st \notin ParkedSt
      BY <1>0 DEF EndedAs, Attempt, Outcomes
    <3> QED BY <1>2, <2>4, <3>1 DEF AttemptToVerify
  <2>5. ASSUME NEW spent \in BOOLEAN, AttemptFinished(a, spent)  PROVE P
    <3> DEFINE ended == EndedAs(a, Head(mail[a]))
    <3>1. Head(mail[a]) \in Outcomes
      BY <2>5, HandlesTyping DEF AttemptFinished, Parks, Report, Outcomes
    <3>2. ended \in Attempt /\ ended.st \notin ParkedSt
      BY <1>0, <3>1, ZenonT(60) DEF EndedAs, Attempt
    <3>3. att' = [att EXCEPT ![a] = ended] \/ \E y : att' = [att EXCEPT ![a] = [ended EXCEPT !.counted = y]]
      BY <2>5 DEF AttemptFinished, SettleAttempt
    <3> HIDE DEF ended
    <3> QED BY <1>2, <2>3, <3>2, <3>3, ZenonT(60)
  <2>6. ASSUME NEW spent \in BOOLEAN, NEW ok \in BOOLEAN, AttemptVerified(a, ok, spent)  PROVE P
    <3> DEFINE verdict == IF ok THEN "accepted" ELSE "rejected"
               ended   == [att[a] EXCEPT !.verdict = verdict]
    <3>1. ended \in Attempt /\ ended.st = att[a].st
      BY <1>0 DEF Attempt
    <3>2. att' = [att EXCEPT ![a] = ended] \/ \E y : att' = [att EXCEPT ![a] = [ended EXCEPT !.counted = y]]
      BY <2>6, ZenonT(60) DEF AttemptVerified, SettleAttempt
    <3> HIDE DEF ended
    <3> QED BY <1>2, <2>3, <3>1, <3>2, ZenonT(60)
  <2>7. CASE DecisionSignalled(a)
    BY <1>0, <2>7 DEF DecisionSignalled, Attempt
  <2> QED BY <1>8, <2>1, <2>2, <2>4, <2>5, <2>6, <2>7, ZenonT(60) DEF HandlerStep
<1>9. ASSUME NEW a \in Ids, ChildNext(a)  PROVE P
  BY <1>1, <1>9, ZenonT(60) DEF ChildNext, ChildEnds, ChildFinishes, ChildParks, ChildCancelled, ChildLost, ChildStep
<1>10. ASSUME NEW c \in Controls, ControlGoesOn(c) \/ \E action \in ControlActions : ControlArrives(c, action)  PROVE P
  <2>1. att' = att \/ \E x : att' = [att EXCEPT ![x].cancelling = TRUE]
    BY <1>10, ZenonT(60) DEF ControlGoesOn, ControlArrives, ControlStep
  <2>2. att'[b].st = att[b].st
    BY <1>0, <2>1 DEF Attempt
  <2> QED BY <2>2
<1>11. ASSUME NEW a \in Ids, DecideApproval(a)  PROVE P
  BY <1>1, <1>3, <1>11, ZenonT(60) DEF DecideApproval
<1>12. CASE CommandStep
  BY <1>1, <1>10, <1>11, <1>12, ZenonT(60) DEF CommandStep, SendMessage, ProposeCompletion, DeclareBlocked, CompleteNode
<1>13. ASSUME NEW n \in Nodes, BackoffOver(n)  PROVE P
  BY <1>1, <1>13 DEF BackoffOver
<1> QED BY <1>7, <1>8, <1>9, <1>10, <1>12, <1>13, ZenonT(60) DEF Next

\* Only the child of a node that may park reports that it has.
LEMMA ParkedByChild ==
    ASSUME TypeOK, Next, NEW b \in Ids, SaysParked(b)'
    PROVE  SaysParked(b) \/ b[1] \in ParkingNodes
<1> USE DEF childVars
<1> DEFINE P == SaysParked(b) \/ b[1] \in ParkingNodes
<1>0. mail \in [Ids -> Seq(Report)] /\ mail[b] \in Seq(Report)
  BY DEF TypeOK, ChildTypes
<1>1. ASSUME UNCHANGED mail  PROVE P
  BY <1>1 DEF SaysParked
<1>2. ASSUME NEW a \in Ids, Handles(a)  PROVE P
  <2>1. mail[a] \in Seq(Report) /\ mail[a] # <<>> /\ mail'[a] = Tail(mail[a]) /\ (b # a => mail'[b] = mail[b])
    BY <1>0, <1>2 DEF Handles
  <2>2. \A i \in 1..Len(mail'[a]) : i + 1 \in 1..Len(mail[a]) /\ mail'[a][i] = mail[a][i + 1]
    BY <2>1
  <2> QED BY <2>1, <2>2, ZenonT(60) DEF SaysParked
<1>3. ASSUME NEW a \in Ids, HandlerStep(a)  PROVE P
  BY <1>1, <1>2, <1>3, ZenonT(60) DEF HandlerStep, ReportDropped, AttemptParked, AttemptToVerify, AttemptFinished,
     AttemptVerified, DecisionSignalled, CancelFallback
<1>4. ASSUME NEW a \in Ids, ChildNext(a)  PROVE P
  <2>1. CASE a[1] \in ParkingNodes /\ \A x \in Ids : x # a => mail'[x] = mail[x]
    BY <2>1 DEF SaysParked
  <2>2. ASSUME NEW o \in Outcomes, mail' = [mail EXCEPT ![a] = Append(@, o)]  PROVE P
    <3>1. ~Parks(o) /\ (b # a => mail'[b] = mail[b]) /\ (b = a => mail'[b] = Append(mail[b], o))
      BY <1>0, <2>2 DEF Outcomes, Parks
    <3>2. ASSUME NEW i \in 1..Len(mail'[b]), b = a  PROVE mail'[b][i] = o \/ (i \in 1..Len(mail[b]) /\ mail'[b][i] = mail[b][i])
      BY <1>0, <3>1, <3>2
    <3> QED BY <3>1, <3>2 DEF SaysParked
  <2>3. ASSUME NEW o \in Outcomes, mail' = [mail EXCEPT ![a] = @ \o <<o, o>>]  PROVE P
    <3>1. ~Parks(o) /\ (b # a => mail'[b] = mail[b]) /\ (b = a => mail'[b] = mail[b] \o <<o, o>>) /\ <<o, o>> \in Seq({o})
      BY <1>0, <2>3 DEF Outcomes, Parks
    <3>2. ASSUME NEW i \in 1..Len(mail'[b]), b = a  PROVE mail'[b][i] = o \/ (i \in 1..Len(mail[b]) /\ mail'[b][i] = mail[b][i])
      BY <1>0, <3>1, <3>2
    <3> QED BY <3>1, <3>2, ZenonT(60) DEF SaysParked
  <2>4. "cancelled" \in Outcomes
    BY DEF Outcomes
  <2>5. ASSUME NEW report, ChildParks(a, report)  PROVE P
    BY <1>0, <2>1, <2>5 DEF ChildParks
  <2> QED BY <1>1, <1>4, <2>2, <2>3, <2>4, <2>5, ZenonT(60) DEF ChildNext, ChildEnds, ChildFinishes, ChildCancelled, ChildLost
<1>5. CASE MainStep
  BY <1>1, <1>5, ZenonT(60) DEF MainStep, DrainDone, DrainMessageStays, DrainMessage, Delivered, Refused, DrainCompletion,
     SettleProposal, ScheduleNode, AttemptStarted, ScheduleDone, Derive, Flushed, Judge, CompletedFlushed, Rest, WakeUp,
     Close, LastFlushed, StartLeaving, LeavingPass, ContinueAsNew
<1>6. CASE CommandStep
  BY <1>1, <1>6, ZenonT(60) DEF CommandStep, SendMessage, ProposeCompletion, DeclareBlocked, DecideApproval, CompleteNode,
     ControlArrives
<1>7. ASSUME NEW c \in Controls, ControlGoesOn(c)  PROVE P
  BY <1>1, <1>7 DEF ControlGoesOn
<1>8. ASSUME NEW n \in Nodes, BackoffOver(n)  PROVE P
  BY <1>1, <1>8 DEF BackoffOver
<1> QED BY <1>3, <1>4, <1>5, <1>6, <1>7, <1>8, ZenonT(60) DEF Next

LEMMA Parkers == Spec => []ParkersOnly
<1>1. Init => ParkersOnly
  <2> SUFFICES ASSUME Init, NEW a \in Ids  PROVE att[a].st \notin ParkedSt /\ Len(mail[a]) = 0
    BY DEF ParkersOnly, SaysParked
  <2> QED BY DEF Init, NewAttempt, ParkedSt
<1>2. TypeOK /\ ParkersOnly /\ [Next]_vars => ParkersOnly'
  <2> SUFFICES ASSUME TypeOK, ParkersOnly, [Next]_vars  PROVE ParkersOnly'
    OBVIOUS
  <2>1. CASE Next
    BY <2>1, ParkedByReport, ParkedByChild, ZenonT(60) DEF ParkersOnly
  <2>2. CASE UNCHANGED vars
    BY <2>2 DEF vars, bookVars, childVars, ParkersOnly, SaysParked
  <2> QED BY <2>1, <2>2
<1> QED BY <1>1, <1>2, TypeCorrect, PTL DEF Spec

\* A step that touches one node at most, and leaves that one manned.
LEMMA MannedStep ==
    ASSUME TypeOK, Manned, NEW k, OnlyAt(k, nodes, nodes'),
           \A n \in Nodes : n # k => open'[n] = open[n],
           \A b \in Ids : b[1] # k => att'[b].counted = att[b].counted /\ att'[b].verdict = att[b].verdict,
           UNCHANGED <<pc, at>> \/ pc' # "VerifyProposal" \/ at'[1] = k,
           k \in Nodes => MannedAt(k)'
    PROVE  Manned'
<1> SUFFICES ASSUME NEW n \in Nodes, n # k  PROVE MannedAt(n)'
  BY DEF Manned
<1> DEFINE a == <<n, open[n]>>
<1>1. MannedAt(n) /\ open'[n] = open[n] /\ nodes'[n].cur = nodes[n].cur
  BY DEF Manned, OnlyAt
<1>2. nodes'[n].st = nodes[n].st \/ nodes'[n].st \notin AtWork
  BY DEF OnlyAt, AtWork
<1>3. ASSUME open[n] # 0  PROVE att'[a].counted = att[a].counted /\ att'[a].verdict = att[a].verdict
  <2>1. a \in Ids /\ a[1] = n
    BY <1>3 DEF TypeOK, BookTypes, Ids
  <2> QED BY <2>1
<1>4. ASSUME pc' = "VerifyProposal", at' = a  PROVE att'[at'].verdict = "verifying"
  <2>1. a[1] = n /\ a \in Ids => open[n] # 0
    BY DEF Ids
  <2>2. UNCHANGED <<pc, at>> /\ at \in Ids
    BY <1>4, <2>1, AtType
  <2>3. att[at].verdict = "verifying" /\ open[n] # 0
    BY <1>1, <1>4, <2>1, <2>2 DEF MannedAt
  <2> QED BY <1>3, <1>4, <2>2, <2>3
<1> QED BY <1>1, <1>2, <1>3, <1>4 DEF MannedAt

\* A step that changes neither the nodes nor the books, and judges nothing.
LEMMA MannedFrame ==
    ASSUME TypeOK, Manned, UNCHANGED <<nodes, open>>,
           \A b \in Ids : att'[b].counted = att[b].counted /\ att'[b].verdict = att[b].verdict,
           UNCHANGED <<pc, at>> \/ pc' # "VerifyProposal"
    PROVE  Manned'
<1>1. OnlyAt(0, nodes, nodes') /\ 0 \notin Nodes
  BY DEF OnlyAt, Nodes
<1> QED BY <1>1, MannedStep

\* The node of an attempt on the books that was not held against it is shown at work.
LEMMA MannedMoved ==
    ASSUME TypeOK, Manned, NEW a \in Ids, IsOpen(a), UNCHANGED open, NEW st \in AtWork, nodes' = SetNode(nodes, a[1], st),
           \A b \in Ids : b # a => att'[b] = att[b],
           ~att'[a].counted, att'[a].verdict = att[a].verdict \/ att'[a].verdict = "verifying",
           UNCHANGED <<pc, at>> \/ pc' # "VerifyProposal" \/ (at' = a /\ att'[a].verdict = "verifying")
    PROVE  Manned'
<1>1. nodes \in [Nodes -> NodeState] /\ a[1] \in Nodes /\ a = <<a[1], open[a[1]]>> /\ open[a[1]] # 0
  BY IdParts DEF TypeOK, PlanTypes, IsOpen
<1>2. st \in NodeStatuses \ {"PENDING"} /\ st \notin {"COMPLETED", "RETRY_PENDING"}
  BY DEF AtWork, NodeStatuses
<1>3. OnlyAt(a[1], nodes, nodes')
  BY <1>1, <1>2, SetNodeOnly
<1>4. nodes'[a[1]].cur = nodes[a[1]].cur
  BY <1>1, <1>2 DEF SetNode, NodeState
<1>5. MannedAt(a[1])
  BY <1>1 DEF Manned
<1>6. \A b \in Ids : b[1] # a[1] => att'[b].counted = att[b].counted /\ att'[b].verdict = att[b].verdict
  OBVIOUS
<1>7. MannedAt(a[1])'
  BY <1>1, <1>4, <1>5 DEF MannedAt
<1> QED BY <1>1, <1>3, <1>6, <1>7, MannedStep

\* What the end of an attempt leaves its node: not at work.
LEMMA SettleLeaves ==
    ASSUME TypeOK, Manned, NEW a \in Ids, IsOpen(a),
           \/ MarkAttemptCancelled(a)
           \/ \E outcome \in Outcomes, rejected, spent \in BOOLEAN : \E ended : SettleAttempt(a, outcome, rejected, spent, ended)
    PROVE  nodes'[a[1]].st \notin AtWork
<1>0. /\ a[1] \in Nodes /\ nodes \in [Nodes -> NodeState] /\ a = <<a[1], open[a[1]]>> /\ open[a[1]] # 0
      /\ nodes[a[1]].cur = a[2] /\ att[a].counted \in BOOLEAN
      /\ (att[a].counted => nodes[a[1]].st \notin AtWork)
  <2>1. a[1] \in Nodes /\ nodes \in [Nodes -> NodeState] /\ a = <<a[1], open[a[1]]>> /\ open[a[1]] # 0
    BY IdParts DEF TypeOK, PlanTypes, IsOpen
  <2>2. att[a].counted \in BOOLEAN
    BY DEF TypeOK, BookTypes, Attempt
  <2> QED BY <2>1, <2>2 DEF Manned, MannedAt, IsOpen
<1> DEFINE Away(ns) == ns \in [Nodes -> NodeState] /\ ns[a[1]].st \notin AtWork
<1>1. Away(SetNode(nodes, a[1], "BLOCKED")) /\ Away(SetNode(nodes, a[1], "RETRY_PENDING")) /\ Away(Freeze(nodes, a[1]))
  <2>1. {"BLOCKED", "RETRY_PENDING"} \subseteq NodeStatuses \ {"PENDING"} /\ {"BLOCKED", "RETRY_PENDING", "COMPLETED"} \cap AtWork = {}
    BY DEF NodeStatuses, AtWork
  <2>2. SetNode(nodes, a[1], "BLOCKED")[a[1]].st = "BLOCKED" /\ SetNode(nodes, a[1], "RETRY_PENDING")[a[1]].st = "RETRY_PENDING"
    BY <1>0, <2>1, SetNodeOnly
  <2>3. Freeze(nodes, a[1])[a[1]].st = "COMPLETED"
    BY <1>0 DEF Freeze, SetNode, RefreshReadiness, NodeState
  <2> QED BY <1>0, <2>1, <2>2, <2>3, SetNodeType, FreezeType
<1>2. ASSUME nodes[a[1]].st \in {"BLOCKED", "COMPLETED"} \/ att[a].counted  PROVE Away(nodes)
  BY <1>0, <1>2 DEF AtWork
<1>3. ASSUME NEW ns, Away(ns), nodes' = Leave(ns, a)  PROVE nodes'[a[1]].st \notin AtWork
  BY <1>0, <1>3 DEF Leave, NodeState
<1>4. Away(AttemptCancelled(nodes, a[1], att[a].counted).nodes)
  BY <1>0, <1>1, <1>2 DEF AttemptCancelled
<1>5. \A retryable \in BOOLEAN : Away(RetryOrBlock(nodes, a[1], att[a].counted, retryable).nodes)
  BY <1>0, <1>1, <1>2 DEF RetryOrBlock
<1>6. CASE MarkAttemptCancelled(a)
  BY <1>0, <1>3, <1>4, <1>6 DEF MarkAttemptCancelled, Apply
<1>7. ASSUME NEW outcome \in Outcomes, NEW rejected \in BOOLEAN, NEW spent \in BOOLEAN, NEW ended,
             SettleAttempt(a, outcome, rejected, spent, ended)
      PROVE  nodes'[a[1]].st \notin AtWork
  <2>1. Away(SettleNode(a, outcome, rejected, spent).nodes)
    BY <1>1, <1>2, <1>4, <1>5, ZenonT(60) DEF SettleNode
  <2>2. nodes' = Leave(SettleNode(a, outcome, rejected, spent).nodes, a)
    BY <1>7 DEF SettleAttempt, Apply
  <2> HIDE DEF Away
  <2> QED BY <1>3, <2>1, <2>2
<1> QED BY <1>6, <1>7, ZenonT(60)

\* The end of an attempt.
LEMMA MannedEnd ==
    ASSUME TypeOK, Manned, NEW a \in Ids, IsOpen(a), UNCHANGED <<pc, at>>,
           \A b \in Ids : b # a => att'[b] = att[b],
           \/ MarkAttemptCancelled(a)
           \/ \E outcome \in Outcomes, rejected, spent \in BOOLEAN : \E ended : SettleAttempt(a, outcome, rejected, spent, ended)
    PROVE  Manned'
<1>1. a[1] \in Nodes /\ open \in [Nodes -> 0..MaxNo]
  BY IdParts DEF TypeOK, BookTypes
<1>2. OnlyAt(a[1], nodes, nodes') /\ open' = [open EXCEPT ![a[1]] = 0]
  BY SettleOnly, ZenonT(60)
<1>3. nodes'[a[1]].st \notin AtWork
  BY SettleLeaves, ZenonT(60)
<1>4. open'[a[1]] = 0 /\ \A n \in Nodes : n # a[1] => open'[n] = open[n]
  BY <1>1, <1>2
<1>5. pc' = "VerifyProposal" => at'[2] # 0
  <2>1. pc = "VerifyProposal" => at \in Ids
    BY AtType
  <2> QED BY <2>1 DEF Ids
<1>6. MannedAt(a[1])'
  BY <1>3, <1>4, <1>5 DEF MannedAt
<1>7. \A b \in Ids : b[1] # a[1] => att'[b].counted = att[b].counted /\ att'[b].verdict = att[b].verdict
  OBVIOUS
<1> QED BY <1>2, <1>4, <1>6, <1>7, MannedStep

\* A child that is answered goes on, if its agent may park: its attempt was not held against the node.
LEMMA MannedResume ==
    ASSUME ProposingNodes \cap ParkingNodes = {},
           TypeOK, ParkersOnly, Manned, NEW a \in Ids, Resumes(a), UNCHANGED open,
           NEW x, att' = [att EXCEPT ![a].st = "RUNNING"] \/ att' = [att EXCEPT ![a].closed = x, ![a].st = "RUNNING"],
           nodes' = SetNode(nodes, a[1], "RUNNING"), UNCHANGED <<pc, at>> \/ pc' # "VerifyProposal"
    PROVE  Manned'
<1>1. att \in [Ids -> Attempt] /\ att[a] \in Attempt /\ a[1] \in Nodes /\ a = <<a[1], open[a[1]]>> /\ open[a[1]] # 0
  BY IdParts DEF TypeOK, BookTypes, Resumes, IsOpen
<1>2. a[1] \in ParkingNodes
  BY DEF ParkersOnly, Resumes, ParkedSt
<1>3. ~att[a].counted
  BY <1>1, <1>2 DEF Manned, MannedAt
<1>4. /\ \A b \in Ids : b # a => att'[b] = att[b]
      /\ att'[a].counted = att[a].counted /\ att'[a].verdict = att[a].verdict
  BY <1>1 DEF Attempt
<1>5. IsOpen(a) /\ "RUNNING" \in AtWork
  BY DEF Resumes, AtWork
<1> QED BY <1>3, <1>4, <1>5, MannedMoved

\* The verdict on a proposal: a rejection is held against the node and puts it away.
LEMMA MannedVerdict ==
    ASSUME TypeOK, ProposersOnly, Manned, NEW ok \in BOOLEAN, SettleProposal(ok)
    PROVE  Manned'
<1>1. at \in Ids /\ at[1] \in Nodes /\ at[1] \in ProposingNodes /\ nodes \in [Nodes -> NodeState] /\ att \in [Ids -> Attempt]
      /\ att[at] \in Attempt /\ UNCHANGED open /\ pc' = "Drain" /\ pc = "VerifyProposal" /\ at[2] # 0
  BY AtType DEF SettleProposal, ProposersOnly, TypeOK, PlanTypes, BookTypes
<1>2. CASE ~IsOpen(at)
  BY <1>1, <1>2, MannedFrame DEF SettleProposal
<1>3. CASE IsOpen(at)
  <2>0. PICK k \in Nodes : k = at[1]
    BY <1>1
  <2>1. at = <<at[1], open[at[1]]>> /\ open[at[1]] # 0
    BY <1>1, <1>3, AtType DEF IsOpen
  <2>2. MannedAt(at[1]) /\ att[at].verdict = "verifying" /\ ~att[at].counted
    BY <1>1, <2>1 DEF Manned, MannedAt
  <2>3. {"BLOCKED", "RETRY_PENDING"} \subseteq NodeStatuses \ {"PENDING"} /\ {"BLOCKED", "RETRY_PENDING", "COMPLETED"} \cap AtWork = {}
    BY DEF NodeStatuses, AtWork
  <2>4. \A b \in Ids : b[1] # at[1] => att'[b].counted = att[b].counted /\ att'[b].verdict = att[b].verdict
    <3>1. \/ att' = [att EXCEPT ![at].verdict = "accepted"]
          \/ att' = [att EXCEPT ![at].verdict = "rejected", ![at].counted = TRUE]
      BY <1>3, ZenonT(60) DEF SettleProposal
    <3> QED BY <1>1, <3>1
  <2>5. CASE ok
    <3>1. att' = [att EXCEPT ![at].verdict = "accepted"] /\ nodes' = Freeze(nodes, at[1])
      BY <1>3, <2>5 DEF SettleProposal
    <3>2. OnlyAt(at[1], nodes, nodes')
      BY <1>1, <2>3, <3>1, SetNodeOnly
    <3>3. nodes'[at[1]].st = "COMPLETED" /\ nodes'[at[1]].cur = nodes[at[1]].cur
      BY <1>1, <3>1 DEF Freeze, SetNode, RefreshReadiness, NodeState
    <3>4. att'[at].counted = att[at].counted
      BY <1>1, <3>1 DEF Attempt
    <3>5. MannedAt(k)'
      BY <1>1, <2>0, <2>1, <2>2, <2>3, <3>3, <3>4 DEF MannedAt
    <3> QED BY <1>1, <2>0, <2>4, <3>2, <3>5, MannedStep
  <2>6. CASE ~ok
    <3>1. /\ att' = [att EXCEPT ![at].verdict = "rejected", ![at].counted = TRUE]
          /\ nodes' = RetryOrBlock(nodes, at[1], att[at].counted, TRUE).nodes
      BY <1>3, <2>6, ZenonT(60) DEF SettleProposal, Apply
    <3>2. PICK st \in {"BLOCKED", "RETRY_PENDING"} : nodes' = SetNode(nodes, at[1], st)
      BY <2>2, <3>1 DEF RetryOrBlock
    <3>3. OnlyAt(at[1], nodes, nodes') /\ nodes'[at[1]].st = st
      BY <1>1, <2>3, <3>2, SetNodeOnly
    <3>4. nodes'[at[1]].cur = nodes[at[1]].cur
      BY <1>1, <3>2 DEF SetNode, RefreshReadiness, NodeState
    <3>5. att'[at].verdict = "rejected"
      BY <1>1, <3>1 DEF Attempt
    <3>6. MannedAt(k)'
      BY <1>1, <2>0, <2>1, <2>2, <2>3, <3>3, <3>4, <3>5 DEF MannedAt
    <3> QED BY <1>1, <2>0, <2>4, <3>3, <3>6, MannedStep
  <2> QED BY <2>5, <2>6
<1> QED BY <1>2, <1>3

\* The main loop.
LEMMA MannedMain ==
    ASSUME ProposingNodes \cap ParkingNodes = {}, TypeOK, ProposersOnly, ParkersOnly, Manned, MainStep
    PROVE  Manned'
<1> USE DEF planVars, bookVars
<1>0. att \in [Ids -> Attempt] /\ nodes \in [Nodes -> NodeState] /\ open \in [Nodes -> 0..MaxNo]
  BY DEF TypeOK, BookTypes, PlanTypes
<1>1. CASE Delivered
  <2>1. at \in Ids /\ UNCHANGED open /\ pc' = "Drain"
    BY <1>1, AtType DEF Delivered
  <2>2. CASE UNCHANGED <<att, nodes>>
    BY <2>1, <2>2, MannedFrame
  <2>3. CASE Resumes(at) /\ att' = [att EXCEPT ![at].st = "RUNNING"] /\ nodes' = SetNode(nodes, at[1], "RUNNING")
    BY <2>1, <2>3, MannedResume, ZenonT(60)
  <2> QED BY <1>1, <2>2, <2>3 DEF Delivered, ResumeParked
<1>2. CASE Refused
  <2>1. \A b \in Ids : att'[b].counted = att[b].counted /\ att'[b].verdict = att[b].verdict
    BY <1>0, <1>2 DEF Refused, Attempt
  <2> QED BY <1>2, <2>1, MannedFrame DEF Refused
<1>3. CASE DrainCompletion
  <2> DEFINE a == Head(commands)[2]
  <2>1. a \in Ids /\ UNCHANGED open
    BY <1>3, HeadCompletion, ZenonT(60) DEF DrainCompletion
  <2>2. CASE UNCHANGED <<nodes, att, pc, at>>
    BY <2>1, <2>2, MannedFrame
  <2>3. CASE /\ IsOpen(a) /\ att[a].verdict = "none"
             /\ att' = [att EXCEPT ![a].verdict = "verifying"]
             /\ nodes' = SetNode(nodes, a[1], "VERIFYING")
             /\ at' = a
    <3> HIDE DEF a
    <3>1. a[1] \in Nodes /\ a = <<a[1], open[a[1]]>> /\ open[a[1]] # 0
      BY <2>1, <2>3, IdParts DEF IsOpen
    <3>2. ~att[a].counted
      BY <2>3, <3>1 DEF Manned, MannedAt
    <3>3. /\ \A b \in Ids : b # a => att'[b] = att[b]
          /\ att'[a].counted = att[a].counted /\ att'[a].verdict = "verifying"
      BY <1>0, <2>1, <2>3 DEF Attempt
    <3>4. "VERIFYING" \in AtWork
      BY DEF AtWork
    <3> QED BY <2>1, <2>3, <3>2, <3>3, <3>4, MannedMoved
  <2> QED BY <1>3, <2>2, <2>3 DEF DrainCompletion
<1>4. CASE AttemptStarted
  <2>1. /\ at \in Ids /\ at[1] \in Nodes /\ at = <<at[1], at[2]>> /\ pc' = "Schedule"
        /\ open' = [open EXCEPT ![at[1]] = at[2]] /\ att' = [att EXCEPT ![at] = NewAttempt]
        /\ nodes' = [nodes EXCEPT ![at[1]].cur = at[2], ![at[1]].count = at[2], ![at[1]].st = "RUNNING"]
    BY <1>4, AtType DEF AttemptStarted
  <2>2. OnlyAt(at[1], nodes, nodes') /\ nodes'[at[1]].cur = at[2]
    BY <1>0, <2>1 DEF OnlyAt, NodeState
  <2>3. open'[at[1]] = at[2] /\ at[2] # 0 /\ (\A n \in Nodes : n # at[1] => open'[n] = open[n]) /\ att'[at] = NewAttempt
    BY <1>0, <2>1 DEF Ids
  <2>4. ~NewAttempt.counted
    BY DEF NewAttempt
  <2>5. PICK k \in Nodes : k = at[1]
    BY <2>1
  <2>6. MannedAt(k)'
    BY <2>5, <2>1, <2>2, <2>3, <2>4 DEF MannedAt
  <2>7. \A b \in Ids : b[1] # k => att'[b].counted = att[b].counted /\ att'[b].verdict = att[b].verdict
    BY <1>0, <2>1, <2>5
  <2> QED BY <2>1, <2>2, <2>3, <2>5, <2>6, <2>7, MannedStep, ZenonT(60)
<1>5. ASSUME UNCHANGED <<nodes, open, att>>, UNCHANGED <<pc, at>> \/ pc' # "VerifyProposal"  PROVE Manned'
  BY <1>5, MannedFrame
<1>6. CASE Derive \/ Rest \/ WakeUp \/ Close \/ LeavingPass \/ DrainDone \/ Flushed \/ Judge
  <2>1. UNCHANGED <<nodes, open, att>>
    BY <1>6, ZenonT(60) DEF Derive, Rest, WakeUp, Close, LeavingPass, DrainDone, Flushed, Judge
  <2>2. pc' # "VerifyProposal"
    BY <1>6 DEF Derive, Rest, WakeUp, Close, LeavingPass, LoopTop, FlushTo, DrainDone, Flushed, Judge
  <2> QED BY <1>5, <2>1, <2>2
<1>7. ASSUME NEW n \in Nodes, ScheduleNode(n)  PROVE Manned'
  BY <1>5, <1>7 DEF ScheduleNode
<1>8. ASSUME NEW a \in Ids, DrainMessage(a)  PROVE Manned'
  BY <1>5, <1>8 DEF DrainMessage
<1>9. CASE DrainMessageStays \/ ScheduleDone \/ CompletedFlushed \/ LastFlushed \/ StartLeaving \/ ContinueAsNew
  BY <1>5, <1>9 DEF DrainMessageStays, ScheduleDone, CompletedFlushed, LastFlushed, StartLeaving, ContinueAsNew, loopVars
<1> QED BY <1>1, <1>2, <1>3, <1>4, <1>6, <1>7, <1>8, <1>9, MannedVerdict, ZenonT(60) DEF MainStep

\* The handlers of the attempts.
LEMMA MannedHandler ==
    ASSUME ProposingNodes \cap ParkingNodes = {}, TypeOK, ParkersOnly, Manned, NEW a \in Ids, HandlerStep(a)
    PROVE  Manned'
<1> USE DEF bookVars, loopVars
<1>0. att \in [Ids -> Attempt] /\ att[a] \in Attempt /\ a[1] \in Nodes /\ {"AWAITING_APPROVAL", "AWAITING_INPUT", "VERIFYING"} \subseteq AtWork
  BY IdParts DEF TypeOK, BookTypes, AtWork
<1>1. UNCHANGED <<pc, at>>
  BY ZenonT(60) DEF HandlerStep, ReportDropped, AttemptParked, AttemptToVerify, AttemptFinished, Handles, AttemptVerified,
         DecisionSignalled, CancelFallback
<1>2. ASSUME IsOpen(a), att[a].counted  PROVE a[1] \in ProposingNodes /\ att[a].verdict = "rejected"
  <2>1. a = <<a[1], open[a[1]]>> /\ open[a[1]] # 0
    BY <1>2, IdParts DEF IsOpen
  <2> QED BY <1>0, <1>2, <2>1 DEF Manned, MannedAt
<1>3. CASE ReportDropped(a)
  BY <1>1, <1>3, MannedFrame DEF ReportDropped
<1>4. CASE AttemptParked(a)
  <2>1. mail[a] \in Seq(Report) /\ mail[a] # <<>> /\ Parks(Head(mail[a])) /\ IsOpen(a) /\ UNCHANGED open
    BY <1>4 DEF AttemptParked, Handles, TypeOK, ChildTypes
  <2>2. a[1] \in ParkingNodes
    BY <2>1 DEF SaysParked, ParkersOnly
  <2>3. ~att[a].counted
    BY <1>2, <2>1, <2>2
  <2>4. PICK st : att' = [att EXCEPT ![a].st = st]
    BY <1>4, ZenonT(60) DEF AttemptParked
  <2>5. /\ \A b \in Ids : b # a => att'[b] = att[b]
        /\ att'[a].counted = att[a].counted /\ att'[a].verdict = att[a].verdict
    BY <1>0, <2>4 DEF Attempt
  <2>6. \E st1 \in AtWork : nodes' = SetNode(nodes, a[1], st1)
    BY <1>0, <1>4 DEF AttemptParked
  <2> QED BY <1>1, <2>1, <2>3, <2>5, <2>6, MannedMoved
<1>5. CASE AttemptToVerify(a)
  <2>1. IsOpen(a) /\ UNCHANGED open /\ att[a].verdict \in {"none", "verifying"}
        /\ att' = [att EXCEPT ![a] = [EndedAs(a, "completed") EXCEPT !.verdict = "verifying"]]
        /\ nodes' = IF att[a].verdict = "verifying" THEN nodes ELSE SetNode(nodes, a[1], "VERIFYING")
    BY <1>5 DEF AttemptToVerify
  <2>2. ~att[a].counted
    BY <1>2, <2>1
  <2>3. /\ \A b \in Ids : b # a => att'[b] = att[b]
        /\ att'[a].counted = att[a].counted /\ att'[a].verdict = "verifying"
    BY <1>0, <2>1 DEF EndedAs, Attempt
  <2>4. CASE att[a].verdict = "verifying"
    <3>1. \A b \in Ids : att'[b].counted = att[b].counted /\ att'[b].verdict = att[b].verdict
      BY <2>3, <2>4
    <3> QED BY <1>1, <2>1, <2>4, <3>1, MannedFrame
  <2>5. CASE att[a].verdict # "verifying"
    BY <1>0, <1>1, <2>1, <2>2, <2>3, <2>5, MannedMoved
  <2> QED BY <2>4, <2>5
<1>6. ASSUME NEW spent \in BOOLEAN, AttemptFinished(a, spent)  PROVE Manned'
  <2>1. Head(mail[a]) \in Outcomes
    BY <1>6, HandlesTyping DEF AttemptFinished, Parks, Report, Outcomes
  <2> DEFINE rejected == Head(mail[a]) = "completed" /\ att[a].verdict = "rejected"
  <2>2. IsOpen(a) /\ (MarkAttemptCancelled(a) \/ SettleAttempt(a, Head(mail[a]), rejected, spent, EndedAs(a, Head(mail[a]))))
    BY <1>6 DEF AttemptFinished
  <2>3. \E r : att' = [att EXCEPT ![a] = r]
    BY <1>6, ZenonT(60) DEF AttemptFinished, SettleAttempt
  <2>4. rejected \in BOOLEAN /\ \A b \in Ids : b # a => att'[b] = att[b]
    BY <1>0, <2>3
  <2> HIDE DEF rejected
  <2> QED BY <1>1, <2>1, <2>2, <2>4, MannedEnd, ZenonT(60)
<1>7. ASSUME NEW spent \in BOOLEAN, NEW ok \in BOOLEAN, AttemptVerified(a, ok, spent)  PROVE Manned'
  <2>1. "completed" \in Outcomes /\ (~ok) \in BOOLEAN
    BY DEF Outcomes
  <2>2. \/ UNCHANGED <<nodes, open>> /\ ~IsOpen(a)
        \/ IsOpen(a) /\ (MarkAttemptCancelled(a) \/ \E ended : SettleAttempt(a, "completed", ~ok, spent, ended))
    BY <1>7, ZenonT(60) DEF AttemptVerified
  <2>3. \A b \in Ids : b # a => att'[b] = att[b]
    <3>1. \/ \E v : att' = [att EXCEPT ![a].verdict = v]
          \/ \E r : att' = [att EXCEPT ![a] = r]
      BY <1>7, ZenonT(60) DEF AttemptVerified, SettleAttempt
    <3> QED BY <1>0, <3>1
  <2>4. CASE UNCHANGED <<nodes, open>> /\ ~IsOpen(a)
    <3>1. ASSUME NEW n \in Nodes  PROVE MannedAt(n)'
      <4>1. MannedAt(n) /\ <<n, open[n]>> # a
        BY <2>4 DEF Manned, IsOpen
      <4>2. CASE open[n] # 0
        <5>1. <<n, open[n]>> \in Ids
          BY <4>2 DEF TypeOK, BookTypes, Ids
        <5>2. att'[<<n, open[n]>>] = att[<<n, open[n]>>]
          BY <2>3, <4>1, <5>1
        <5> QED BY <1>1, <2>4, <4>1, <5>2 DEF MannedAt
      <4>3. CASE open[n] = 0
        <5>1. pc = "VerifyProposal" => at # <<n, open[n]>>
          BY <4>3, AtType DEF Ids
        <5> QED BY <1>1, <2>4, <4>1, <4>3, <5>1 DEF MannedAt
      <4> QED BY <4>2, <4>3
    <3> QED BY <3>1 DEF Manned
  <2>5. CASE IsOpen(a) /\ (MarkAttemptCancelled(a) \/ \E ended : SettleAttempt(a, "completed", ~ok, spent, ended))
    BY <1>1, <2>1, <2>3, <2>5, MannedEnd, ZenonT(60)
  <2> QED BY <2>2, <2>4, <2>5
<1>8. CASE DecisionSignalled(a)
  <2> DEFINE x == att[a].closed \/ (deciding[a] = "gone" /\ IsOpen(a))
             att1 == [att EXCEPT ![a].closed = x]
  <2>1. /\ UNCHANGED open
        /\ \/ nodes' = nodes /\ att' = att1
           \/ Resumes(a) /\ nodes' = SetNode(nodes, a[1], "RUNNING") /\ att' = [att1 EXCEPT ![a].st = "RUNNING"]
    BY <1>0, <1>8 DEF DecisionSignalled
  <2>2. [att1 EXCEPT ![a].st = "RUNNING"] = [att EXCEPT ![a].closed = x, ![a].st = "RUNNING"]
    BY <1>0
  <2>3. \A b \in Ids : att1[b].counted = att[b].counted /\ att1[b].verdict = att[b].verdict
    BY <1>0 DEF Attempt
  <2> HIDE DEF x
  <2>4. CASE nodes' = nodes /\ att' = att1
    BY <1>1, <2>1, <2>3, <2>4, MannedFrame
  <2>5. CASE Resumes(a) /\ nodes' = SetNode(nodes, a[1], "RUNNING") /\ att' = [att EXCEPT ![a].closed = x, ![a].st = "RUNNING"]
    BY <1>1, <2>1, <2>5, MannedResume, ZenonT(60)
  <2> HIDE DEF att1
  <2> QED BY <2>1, <2>2, <2>4, <2>5
<1>9. CASE CancelFallback(a)
  <2>1. UNCHANGED att /\ (UNCHANGED <<nodes, open>> \/ (IsOpen(a) /\ MarkAttemptCancelled(a)))
    BY <1>9, ZenonT(60) DEF CancelFallback
  <2> QED BY <1>1, <2>1, MannedFrame, MannedEnd
<1> QED BY <1>3, <1>4, <1>5, <1>6, <1>7, <1>8, <1>9, ZenonT(60) DEF HandlerStep

\* The commands.
LEMMA MannedCommand ==
    ASSUME ProposingNodes \cap ParkingNodes = {}, TypeOK, ParkersOnly, Manned,
           CommandStep \/ (\E c \in Controls : ControlGoesOn(c)) \/ (\E n \in Nodes : BackoffOver(n))
    PROVE  Manned'
<1> USE DEF planVars, bookVars, loopVars
<1>0. att \in [Ids -> Attempt] /\ nodes \in [Nodes -> NodeState]
  BY DEF TypeOK, BookTypes, PlanTypes
<1>1. ASSUME UNCHANGED <<nodes, open, att, pc, at>>  PROVE Manned'
  BY <1>1, MannedFrame
<1>2. CASE SendMessage \/ (\E a \in Ids : ProposeCompletion(a)) \/ \E n \in Nodes : BackoffOver(n)
  BY <1>1, <1>2, ZenonT(60) DEF SendMessage, ProposeCompletion, BackoffOver
<1>3. ASSUME NEW a \in Ids, DeclareBlocked(a)  PROVE Manned'
  <2>1. /\ a[1] \in Nodes /\ open[a[1]] # 0 /\ UNCHANGED <<open, att, pc, at>>
        /\ nodes' = [nodes EXCEPT ![a[1]].st = "BLOCKED"]
    BY <1>3, IdParts DEF DeclareBlocked, IsOpen
  <2>2. OnlyAt(a[1], nodes, nodes') /\ nodes'[a[1]].st \notin AtWork /\ nodes'[a[1]].cur = nodes[a[1]].cur
    BY <1>0, <2>1 DEF OnlyAt, NodeState, AtWork
  <2>3. MannedAt(a[1])'
    BY <2>1, <2>2 DEF Manned, MannedAt
  <2> QED BY <2>1, <2>2, <2>3, MannedStep, ZenonT(60)
<1>4. ASSUME NEW a \in Ids, DecideApproval(a)  PROVE Manned'
  <2>1. UNCHANGED <<open, pc, at>> /\ (UNCHANGED <<att, nodes>> \/ ResumeParked(a))
    BY <1>4 DEF DecideApproval
  <2>2. \/ UNCHANGED <<att, nodes>>
        \/ Resumes(a) /\ att' = [att EXCEPT ![a].st = "RUNNING"] /\ nodes' = SetNode(nodes, a[1], "RUNNING")
    BY <2>1, ZenonT(60) DEF ResumeParked
  <2> QED BY <1>1, <2>1, <2>2, MannedResume, ZenonT(60)
<1>5. ASSUME NEW n \in Nodes, CompleteNode(n)  PROVE Manned'
  <2>1. UNCHANGED <<open, att, pc, at>> /\ nodes' = Freeze(nodes, n) /\ open[n] = 0
    BY <1>5 DEF CompleteNode
  <2>2. "BLOCKED" \in NodeStatuses \ {"PENDING"}
    BY DEF NodeStatuses
  <2>3. OnlyAt(n, nodes, nodes')
    BY <1>0, <2>1, <2>2, SetNodeOnly
  <2>4. nodes'[n].st = "COMPLETED"
    BY <1>0, <2>1 DEF Freeze, SetNode, RefreshReadiness, NodeState
  <2>5. MannedAt(n)'
    BY <2>1, <2>4 DEF Manned, MannedAt, AtWork
  <2> QED BY <2>1, <2>3, <2>5, MannedStep
<1>6. ASSUME NEW c \in Controls, NEW action, NEW rest, NEW said, ControlStep(c, action, rest, said), UNCHANGED <<open, pc, at>>
      PROVE  Manned'
  <2>1. UNCHANGED nodes \/ UnblockNodes
    BY <1>6, ZenonT(60) DEF ControlStep
  <2>2. OnlyAt(0, nodes, nodes') /\ 0 \notin Nodes
    <3>1. CASE UNCHANGED nodes
      BY <3>1 DEF OnlyAt, Nodes
    <3>2. CASE UnblockNodes
      BY <1>0, <3>2, UnblockOnly
    <3> QED BY <2>1, <3>1, <3>2
  <2>3. att' = att \/ \E x : att' = [att EXCEPT ![x].cancelling = TRUE]
    BY <1>6, ZenonT(60) DEF ControlStep
  <2>4. \A b \in Ids : att'[b].counted = att[b].counted /\ att'[b].verdict = att[b].verdict
    BY <1>0, <2>3 DEF Attempt
  <2> QED BY <1>6, <2>2, <2>4, MannedStep
<1>7. ASSUME NEW c \in Controls, NEW action \in ControlActions, ControlArrives(c, action)  PROVE Manned'
  <2> DEFINE said == action = "interrupt"
  <2>1. ControlStep(c, action, OpenIds, said) /\ UNCHANGED <<open, pc, at>>
    BY <1>7, ZenonT(60) DEF ControlArrives
  <2> HIDE DEF said
  <2> QED BY <1>6, <2>1
<1>8. ASSUME NEW c \in Controls, ControlGoesOn(c)  PROVE Manned'
  <2>1. ControlStep(c, control[c].action, control[c].rest, FALSE) /\ UNCHANGED <<open, pc, at>>
    BY <1>8, ZenonT(60) DEF ControlGoesOn
  <2> QED BY <1>6, <2>1, ZenonT(60)
<1> QED BY <1>2, <1>3, <1>4, <1>5, <1>7, <1>8, ZenonT(60) DEF CommandStep

\* For any plan and any bounds, a node that is shown at work, under verification or waiting for a person
\* has an attempt on the books, whatever verdicts, late or doubled reports, parks, cancels and fallbacks do
\* to it (_settle_node, _retry_or_block, _attempt_cancelled, _resume_parked).  The proviso is that no
\* agent both proposes its completion and parks: an agent that parks after its proposal was rejected has
\* its node shown at work again, and its end, already counted, leaves the node there.
THEOREM NodesManned == ASSUME ProposingNodes \cap ParkingNodes = {}  PROVE Spec => []NotStranded
<1>1. Manned => NotStranded
  BY ZenonT(60) DEF Manned, MannedAt, NotStranded, AtWork
<1>2. Init => Manned
  <2> SUFFICES ASSUME Init, NEW n \in Nodes  PROVE MannedAt(n)
    BY DEF Manned
  <2> DEFINE new == [st |-> "PENDING", frozen |-> FALSE, count |-> 0, cur |-> 0]
  <2>1. nodes[n] = new \/ nodes[n] = [new EXCEPT !.st = "READY"]
    BY DEF Init, RefreshReadiness
  <2>2. nodes[n].st \in {"PENDING", "READY"}
    BY <2>1
  <2>3. open[n] = 0 /\ pc = "Drain"
    BY DEF Init
  <2> QED BY <2>2, <2>3 DEF MannedAt, AtWork
<1>3. TypeOK /\ ProposersOnly /\ ParkersOnly /\ Manned /\ [Next]_vars => Manned'
  <2> SUFFICES ASSUME TypeOK, ProposersOnly, ParkersOnly, Manned, [Next]_vars  PROVE Manned'
    OBVIOUS
  <2>1. ASSUME UNCHANGED <<planVars, bookVars, loopVars>>  PROVE Manned'
    BY <2>1, MannedFrame DEF planVars, bookVars, loopVars
  <2>2. ASSUME NEW a \in Ids, ChildNext(a)  PROVE Manned'
    BY <2>1, <2>2, ZenonT(60) DEF ChildNext, ChildEnds, ChildFinishes, ChildParks, ChildCancelled, ChildLost, ChildStep
  <2>3. CASE UNCHANGED vars
    BY <2>1, <2>3 DEF vars
  <2> QED BY <2>2, <2>3, MannedMain, MannedHandler, MannedCommand, ZenonT(60) DEF Next
<1> QED BY <1>1, <1>2, <1>3, TypeCorrect, Proposers, Parkers, PTL DEF Spec
=============================================================================
