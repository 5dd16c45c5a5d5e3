--------------------------- MODULE TaskLifecycle ---------------------------
(***************************************************************************)
(* The control of one TaskWorkflow: its main loop (task_workflow.run), the *)
(* update and signal handlers that run beside it, the attempts it starts   *)
(* as child workflows, and the children as far as the parent sees them.    *)
(*                                                                         *)
(* A Temporal workflow is one thread: a coroutine runs until it awaits,    *)
(* and only then another one goes on.  pc is where the main loop is; the   *)
(* handlers take a step only while the main loop is parked at an await     *)
(* (Yielded), and what a handler does between two awaits of its own is one *)
(* action.  The children are other workflows: nothing of a workflow task   *)
(* is visible to them before it ends, so they too move only then.  What a  *)
(* child reports waits in mail until the parent handles it; what the       *)
(* parent sends a child (a cancel request, a message, a decision) takes    *)
(* effect when it is sent, which loses no behaviour because the answer     *)
(* comes back later.                                                       *)
(*                                                                         *)
(* Every workflow.patched branch is the one a new run takes.  The plan is  *)
(* a fixed graph of agent nodes and every attempt can be paid for.  Of a   *)
(* message only its place in the inbox and the attempt it is signalled to  *)
(* are kept: any attempt that can hear it may be chosen (the code takes    *)
(* the first), and what an ended attempt hands back, follow-ups and        *)
(* mentions are left out.  An attempt has one approval at a time.          *)
(***************************************************************************)
EXTENDS Integers, FiniteSets, Sequences

CONSTANTS
    N,              \* the plan has the agent nodes 1..N, in plan order
    Deps,           \* plan edges: <<source, target>>
    WriteNodes,     \* nodes with workspace_access "write"
    MaxConcurrency, \* policy.max_concurrency
    MaxTries,       \* retry.max_attempts
    MaxNo,          \* bound: attempts started per node
    Controls,       \* bound: the operator commands that arrive, each once
    ControlActions, \* what these commands ask for
    MaxMessages,    \* bound: messages the user sends
    MaxRuns,        \* bound: Continue-As-New happens at most this often
    MaxLost,        \* bound: children that are terminated and never report
    ProposingNodes, \* nodes whose agent may call proposeCompletion
    ParkingNodes,   \* nodes whose agent may ask for an approval or for input
    GiveUpNodes,    \* nodes whose agent may declare its own node blocked
    PersonNodes,    \* nodes a person may complete
    Exploring,      \* the plan is still the node that explores, which may spend its budget
    SpentCancels,   \* a cancel request may arrive while the turn is ending, and be spent on it
    EarlyReports,   \* a report may be handled before the child's start is
    Duplicates      \* a report may be delivered twice

ActionNames == {"pause", "stop", "resume", "cancel", "takeover", "handback", "interrupt"}

ASSUME LifecycleConstants ==
    /\ N \in Nat \ {0} /\ MaxConcurrency \in Nat \ {0} /\ MaxTries \in Nat \ {0}
    /\ MaxNo \in Nat \ {0} /\ MaxMessages \in Nat /\ MaxRuns \in Nat /\ MaxLost \in Nat
    /\ Deps \subseteq (1..N) \X (1..N)
    /\ \A s \in {WriteNodes, ProposingNodes, ParkingNodes, GiveUpNodes, PersonNodes} : s \subseteq 1..N
    /\ ControlActions \subseteq ActionNames
    /\ {Exploring, SpentCancels, EarlyReports, Duplicates} \subseteq BOOLEAN
    /\ Exploring => N = 1

Nodes  == 1..N
Ids    == Nodes \X (1..MaxNo)       \* an attempt: its node and its attempt_no
MsgIds == {0} \X (1..MaxMessages)   \* a message: its message_seq
NoId   == <<0, 0>>

VARIABLES
    (* what the workflow object holds *)
    status,     \* _status
    stop,       \* _stop
    dirty,      \* _events is not empty
    woken,      \* _wake moved since the main loop went to wait
    inbox,      \* _inbox
    commands,   \* _commands
    nodes,      \* _plan.nodes: status, frozen, attempt_count, number of current_attempt_id
    retry,      \* _node_retry: failed, blocked, retry_at is still ahead
    open,       \* _attempts: the number of the attempt on the books, 0 if none
    att,        \* the record of each attempt
    pending,    \* attempts with a PENDING approval
    fallback,   \* attempts whose cancel fallback timer is armed
    (* the coroutines *)
    pc,         \* where the main loop is
    at,         \* the attempt it awaits something for
    todo,       \* nodes _schedule_ready has still to look at
    leaving,    \* it is in the Continue-As-New sequence
    finish,     \* per attempt, where its attemptFinished handler is
    deciding,   \* per attempt, whether the decideApproval handler's signal got through
    control,    \* per operator command, where its handler is
    (* the children, and counters for the bounds *)
    child,      \* the state of each AttemptWorkflow
    cancelReq,  \* children a cancel request has reached
    unread,     \* children that hold a message no turn was given
    mail,       \* what a child signalled and the parent has not handled
    sent, runs,
    lost,       \* children that were terminated
    byPerson    \* nodes completeNode completed

taskVars  == <<status, stop, dirty, woken>>
msgVars   == <<inbox, commands, sent>>
planVars  == <<nodes, retry, byPerson>>
bookVars  == <<open, att, pending, fallback>>
loopVars  == <<pc, at, todo, leaving, runs>>
handVars  == <<finish, deciding, control>>
childVars == <<child, cancelReq, unread, mail, lost>>
vars == <<taskVars, msgVars, planVars, bookVars, loopVars, handVars, childVars>>

OperatorHeld == {"PAUSED", "PAUSED_NEEDS_REVIEW", "TAKEN_OVER"}
Halted       == OperatorHeld \cup {"CANCELLED"}
Statuses     == Halted \cup {"RUNNING", "WAITING", "COMPLETED"}
NodeStatuses == {"PENDING", "READY", "RUNNING", "VERIFYING", "AWAITING_APPROVAL", "AWAITING_INPUT",
                 "RETRY_PENDING", "BLOCKED", "COMPLETED"}
Outcomes     == {"completed", "failed", "fatal", "cancelled"}  \* fatal: failed, not retryable
Active       == {"RUNNING", "PARKED_APPROVAL", "PARKED_INPUT"}
Awaits       == {"VerifyProposal", "Delivered", "Refused", "StartChild", "Flush", "FlushCompleted",
                 "HandlersDone", "Idle", "Close", "FlushLast"}
LoopSteps    == {"Drain", "Schedule", "Derive", "Judge", "Rest", "Ended"}

NodeState  == [st : NodeStatuses, frozen : BOOLEAN, count : 0..MaxNo, cur : 0..MaxNo]
RetryState == [failed : Nat, blocked : BOOLEAN, waiting : BOOLEAN]
NoRetry    == [failed |-> 0, blocked |-> FALSE, waiting |-> FALSE]
Attempt    == [st : Active \cup Outcomes, verdict : {"none", "verifying", "accepted", "rejected"},
               cancelling : BOOLEAN, closed : BOOLEAN, counted : BOOLEAN, finishing : BOOLEAN]
NewAttempt == [st |-> "RUNNING", verdict |-> "none", cancelling |-> FALSE, closed |-> FALSE,
               counted |-> FALSE, finishing |-> FALSE]
Command    == {"completion"} \X Ids \cup {"message"} \X MsgIds
Report     == Outcomes \cup {"parkedApproval", "parkedInput"}
Handler    == [st : {"new", "busy", "done"}, action : ActionNames, rest : SUBSET Ids, on : Ids \cup {NoId}]

TaskTypes  == status \in Statuses /\ stop \in BOOLEAN /\ dirty \in BOOLEAN /\ woken \in BOOLEAN
MsgTypes   == inbox \in SUBSET MsgIds /\ commands \in Seq(Command) /\ sent \in 0..MaxMessages
PlanTypes  == nodes \in [Nodes -> NodeState] /\ retry \in [Nodes -> RetryState] /\ byPerson \in SUBSET Nodes
BookTypes  == /\ open \in [Nodes -> 0..MaxNo] /\ att \in [Ids -> Attempt]
              /\ pending \in SUBSET Ids /\ fallback \in SUBSET Ids
LoopTypes  == /\ pc \in Awaits \cup LoopSteps /\ todo \in SUBSET Nodes
              /\ at \in Ids \cup {NoId}
              /\ pc \in {"VerifyProposal", "StartChild", "Delivered", "Refused"} => at \in Ids
              /\ leaving \in BOOLEAN /\ runs \in Nat
HandTypes  == /\ finish \in [Ids -> {"idle", "awaitVerdict", "verifying"}]
              /\ deciding \in [Ids -> {"no", "reached", "gone"}]
              /\ control \in [Controls -> Handler]
              /\ \A c \in Controls : control[c].st = "busy" => control[c].on \in Ids
ChildTypes == /\ child \in [Ids -> {"none", "running", "parkedApproval", "parkedInput", "closed"}]
              /\ cancelReq \in SUBSET Ids /\ unread \in SUBSET Ids /\ lost \in SUBSET Ids
              /\ mail \in [Ids -> Seq(Report)]

\* Every variable of the workflow and of its children holds what the code keeps there: a
\* status the contracts name, an attempt on the books that exists, a handler that awaits an
\* answer for some attempt.
TypeOK == TaskTypes /\ MsgTypes /\ PlanTypes /\ BookTypes /\ LoopTypes /\ HandTypes /\ ChildTypes
-----------------------------------------------------------------------------
(* Helpers of the workflow class.                                          *)

Yielded == pc \in Awaits
IsOpen(a) == open[a[1]] = a[2]              \* self._attempts.get(node_id) is attempt
OpenIds == {a \in Ids : IsOpen(a)}

\* _flush_events and on to next: it only awaits when there are events.
FlushTo(hasEvents, await, next) == pc' = (IF hasEvents THEN await ELSE next) /\ dirty' = FALSE

\* `while not self._stop`, and what follows the loop
LoopTop == IF ~stop THEN pc' = "Drain" /\ UNCHANGED dirty
           ELSE IF status = "CANCELLED" THEN pc' = "Close" /\ UNCHANGED dirty
           ELSE FlushTo(dirty, "FlushLast", "Ended")

\* _wake += 1: it matters to the main loop while it waits.
Wake == woken' = (pc = "Idle")

DependenciesDone(ns, n) == \A e \in Deps : e[2] = n => ns[e[1]].st = "COMPLETED"

RefreshReadiness(ns) ==
    [n \in Nodes |-> IF ns[n].st = "PENDING" /\ DependenciesDone(ns, n)
                     THEN [ns[n] EXCEPT !.st = "READY"] ELSE ns[n]]

\* _update_node(node_id, status=st)
SetNode(ns, n, st) ==
    LET changed == [ns EXCEPT ![n].st = st]
    IN  IF st \in {"COMPLETED", "RETRY_PENDING"} THEN RefreshReadiness(changed) ELSE changed

\* _set_node_status(node_id, "COMPLETED", frozen=True)
Freeze(ns, n) == SetNode([ns EXCEPT ![n].frozen = TRUE], n, "COMPLETED")

AllNodesCompleted == \A n \in Nodes : nodes[n].st = "COMPLETED"

RunningCount == Cardinality({n \in Nodes : open[n] # 0 /\ att[<<n, open[n]>>].st = "RUNNING"})

\* Mutants of WriteBusy: an attempt that is being cancelled, or whose proposal was accepted,
\* no longer counts.
WriteBusyUnlessCancelling == \E n \in WriteNodes : open[n] # 0 /\ ~att[<<n, open[n]>>].cancelling
WriteBusyUnlessAccepted == \E n \in WriteNodes : open[n] # 0 /\ att[<<n, open[n]>>].verdict # "accepted"
WriteBusy    == \E n \in WriteNodes : open[n] # 0
StartableStatus == {"READY", "RETRY_PENDING"}

CanAct(n) == /\ nodes[n].st \in StartableStatus
             /\ open[n] = 0
             /\ ~retry[n].waiting
             /\ DependenciesDone(nodes, n)
             /\ nodes[n].count < MaxNo      \* the bound

\* The slots and the write lease go to the nodes that can act, in plan order.
ReadyOrder ==
    LET able   == {n \in Nodes : CanAct(n) /\ (n \in WriteNodes => ~WriteBusy)}
        wanted == {n \in able : n \in WriteNodes => \A m \in able \cap WriteNodes : n <= m}
    IN  {n \in wanted : RunningCount + Cardinality({m \in wanted : m < n}) < MaxConcurrency}

HasReadyNode == status \notin Halted /\ ReadyOrder # {}

\* Mutant of RetryOrBlock: the `counted' mark is not looked at.
RetryOrBlockEveryTime(ns, n, counted, retryable) ==
    LET failed == retry[n].failed + 1
    IN  [nodes  |-> SetNode(ns, n, IF ~retryable \/ failed >= MaxTries THEN "BLOCKED" ELSE "RETRY_PENDING"),
         retry  |-> [retry EXCEPT ![n] = [failed |-> failed, blocked |-> ~retryable \/ failed >= MaxTries,
                                          waiting |-> retryable /\ failed < MaxTries]],
         status |-> status]

\* What _retry_or_block leaves: the attempt's failure is counted once.
RetryOrBlock(ns, n, counted, retryable) ==
    LET failed  == retry[n].failed + 1
        blocked == ~retryable \/ failed >= MaxTries
    IN  IF counted
        THEN [nodes |-> ns, retry |-> retry, status |-> status]
        ELSE [nodes  |-> SetNode(ns, n, IF blocked THEN "BLOCKED" ELSE "RETRY_PENDING"),
              retry  |-> [retry EXCEPT ![n] = [failed |-> failed, blocked |-> blocked \/ retry[n].blocked,
                                               waiting |-> ~blocked]],
              status |-> IF blocked /\ status \notin Halted THEN "PAUSED_NEEDS_REVIEW" ELSE status]

\* Mutant of AttemptCancelled: the node is not released.
AttemptCancelledKeepsNode(ns, n, counted) ==
    [nodes |-> ns, retry |-> [retry EXCEPT ![n].waiting = FALSE], status |-> status]

\* What _attempt_cancelled leaves: the node tries again at once.
AttemptCancelled(ns, n, counted) ==
    IF counted
    THEN [nodes |-> ns, retry |-> retry, status |-> status]
    ELSE [nodes  |-> IF ns[n].st \in {"BLOCKED", "COMPLETED"} THEN ns ELSE SetNode(ns, n, "RETRY_PENDING"),
          retry  |-> [retry EXCEPT ![n].waiting = FALSE],
          status |-> status]

\* Mutant of SettleNode: the reasons of a rejection are not looked at.
SettleNodeUnverified(a, outcome, rejected, spent) ==
    CASE outcome = "cancelled" -> AttemptCancelled(nodes, a[1], att[a].counted)
      [] outcome \in {"failed", "fatal"} -> RetryOrBlock(nodes, a[1], att[a].counted, outcome = "failed")
      [] OTHER -> [nodes |-> Freeze(nodes, a[1]), retry |-> retry, status |-> status]

\* What _settle_node leaves, for the outcome an attempt ended with; `spent' when the
\* exploration budget ran out and nothing was planned.
SettleNode(a, outcome, rejected, spent) ==
    LET n == a[1]
    IN  CASE rejected               -> RetryOrBlock(nodes, n, att[a].counted, TRUE)
          [] ~rejected /\ outcome = "cancelled" -> AttemptCancelled(nodes, n, att[a].counted)
          [] ~rejected /\ outcome \in {"failed", "fatal"} ->
                RetryOrBlock(nodes, n, att[a].counted, outcome = "failed")
          [] OTHER ->
                [nodes  |-> IF spent THEN SetNode(nodes, n, "BLOCKED")
                            ELSE IF nodes[n].st \in {"BLOCKED", "COMPLETED"} THEN nodes ELSE Freeze(nodes, n),
                 retry  |-> retry,
                 status |-> IF spent \/ nodes[n].st = "BLOCKED" THEN "PAUSED_NEEDS_REVIEW" ELSE status]

\* _update_node(node_id, current_attempt_id=None), if it is still this attempt's
Leave(ns, a) == IF ns[a[1]].cur = a[2] THEN [ns EXCEPT ![a[1]].cur = 0] ELSE ns

Apply(s, ns) == nodes' = ns /\ retry' = s.retry /\ status' = s.status

\* The attempt is popped from _attempts.
TakeOffBooks(a) == open' = [open EXCEPT ![a[1]] = 0]

\* _mark_attempt_cancelled
MarkAttemptCancelled(a) ==
    /\ TakeOffBooks(a)
    /\ fallback' = fallback \ {a}
    /\ pending' = pending \ {a}
    /\ dirty' = TRUE
    /\ IF nodes[a[1]].cur = a[2]
       THEN LET s == AttemptCancelled(nodes, a[1], att[a].counted) IN Apply(s, Leave(s.nodes, a))
       ELSE UNCHANGED <<nodes, retry, status>>

\* _resume_parked
Resumes(a) == IsOpen(a) /\ att[a].st \in {"PARKED_APPROVAL", "PARKED_INPUT"}
ResumeParked(a) ==
    IF Resumes(a)
    THEN /\ att' = [att EXCEPT ![a].st = "RUNNING"]
         /\ nodes' = SetNode(nodes, a[1], "RUNNING")
         /\ Wake
    ELSE UNCHANGED <<att, nodes, woken>>
-----------------------------------------------------------------------------
(* The main loop.                                                          *)

Init ==
    /\ status = "RUNNING" /\ stop = FALSE /\ dirty = TRUE /\ woken = FALSE
    /\ inbox = {} /\ commands = <<>> /\ sent = 0
    /\ nodes = RefreshReadiness([n \in Nodes |-> [st |-> "PENDING", frozen |-> FALSE, count |-> 0, cur |-> 0]])
    /\ retry = [n \in Nodes |-> NoRetry]
    /\ byPerson = {}
    /\ open = [n \in Nodes |-> 0]
    /\ att = [a \in Ids |-> NewAttempt]
    /\ pending = {} /\ fallback = {}
    /\ pc = "Drain" /\ at = NoId /\ todo = {} /\ leaving = FALSE /\ runs = 0
    /\ finish = [a \in Ids |-> "idle"]
    /\ deciding = [a \in Ids |-> "no"]
    /\ control = [c \in Controls |-> [st |-> "new", action |-> "pause", rest |-> {}, on |-> NoId]]
    /\ child = [a \in Ids |-> "none"]
    /\ cancelReq = {} /\ unread = {} /\ lost = {}
    /\ mail = [a \in Ids |-> <<>>]

\* _drain_commands is through: on to _schedule_ready, which reads the ready nodes once.
DrainDone ==
    /\ pc = "Drain" /\ commands = <<>>
    /\ pc' = IF leaving THEN "HandlersDone" ELSE "Schedule"
    /\ todo' = IF leaving \/ status \in Halted THEN {} ELSE ReadyOrder
    /\ UNCHANGED <<taskVars, msgVars, planVars, bookVars, at, leaving, runs, handVars, childVars>>

\* The attempts a message may be handed to
Hearers == {a \in OpenIds : att[a].st \in Active /\ ~att[a].cancelling}

\* A message nobody can be handed now: taken with the inbox by an attempt that started,
\* or left in the inbox for what comes next.
DrainMessageStays ==
    /\ pc = "Drain" /\ commands # <<>> /\ Head(commands)[1] = "message"
    /\ \/ Head(commands)[2] \notin inbox
       \/ Hearers = {}
       \/ \E a \in Hearers : att[a].closed
    /\ commands' = Tail(commands)
    /\ UNCHANGED <<taskVars, inbox, sent, planVars, bookVars, loopVars, handVars, childVars>>

\* A message is signalled to an attempt: a child waiting for input goes on with it,
\* a closed child refuses it.
\* The code clears the inbox entry when the signal is answered.  Of what is modelled here only
\* the main loop, which awaits that answer, reads the inbox; the handlers that read it too put
\* back what an ended attempt has not heard, which is left out.
DrainMessage(a) ==
    /\ pc = "Drain" /\ commands # <<>> /\ Head(commands)[1] = "message"
    /\ Head(commands)[2] \in inbox
    /\ a \in Hearers /\ ~att[a].closed
    /\ commands' = Tail(commands)
    /\ at' = a
    /\ IF child[a] = "closed"
       THEN pc' = "Refused" /\ UNCHANGED <<inbox, child, unread>>
       ELSE /\ pc' = "Delivered"
            /\ inbox' = inbox \ {Head(commands)[2]}
            /\ child' = [child EXCEPT ![a] = IF @ = "parkedInput" THEN "running" ELSE @]
            /\ unread' = IF child[a] = "parkedInput" THEN unread ELSE unread \cup {a}
    /\ UNCHANGED <<taskVars, sent, planVars, bookVars, todo, leaving, runs, handVars, cancelReq, mail, lost>>

Delivered ==
    /\ pc = "Delivered"
    /\ pc' = "Drain" /\ at' = NoId
    /\ IF att[at].st = "PARKED_INPUT" THEN ResumeParked(at) ELSE UNCHANGED <<att, nodes, woken>>
    /\ dirty' = (dirty \/ (att[at].st = "PARKED_INPUT" /\ Resumes(at)))
    /\ UNCHANGED <<status, stop, msgVars, retry, byPerson, open, pending, fallback, todo, leaving, runs,
                   handVars, childVars>>

Refused ==
    /\ pc = "Refused"
    /\ pc' = "Drain" /\ at' = NoId
    /\ att' = [att EXCEPT ![at].closed = TRUE]
    /\ UNCHANGED <<taskVars, msgVars, planVars, open, pending, fallback, todo, leaving, runs, handVars, childVars>>

\* A proposed completion is replaced, cancelled or judged already, or is verified now.
DrainCompletion ==
    /\ pc = "Drain" /\ commands # <<>> /\ Head(commands)[1] = "completion"
    /\ commands' = Tail(commands)
    /\ LET a == Head(commands)[2]
       IN  IF ~IsOpen(a) \/ att[a].verdict # "none"
           THEN UNCHANGED <<dirty, nodes, att, pc, at>>
           ELSE /\ att' = [att EXCEPT ![a].verdict = "verifying"]
                /\ nodes' = SetNode(nodes, a[1], "VERIFYING")
                /\ dirty' = TRUE
                /\ pc' = "VerifyProposal" /\ at' = a
    /\ UNCHANGED <<status, stop, woken, inbox, sent, retry, byPerson, open, pending, fallback, todo, leaving, runs,
                   handVars, childVars>>

\* Mutant of SettleProposal: an accepted attempt is not marked with its verdict.
SettleProposalUnmarked(accepted) ==
    /\ pc = "VerifyProposal"
    /\ pc' = "Drain" /\ at' = NoId /\ dirty' = TRUE
    /\ nodes' = IF IsOpen(at) /\ accepted THEN Freeze(nodes, at[1]) ELSE nodes
    /\ UNCHANGED <<status, stop, woken, msgVars, retry, byPerson, bookVars, todo, leaving, runs, handVars, childVars>>

\* The verdict on a proposal (_settle_proposal); an attempt that is gone gets none.
SettleProposal(accepted) ==
    /\ pc = "VerifyProposal"
    /\ pc' = "Drain" /\ at' = NoId
    /\ IF ~IsOpen(at)
       THEN UNCHANGED <<status, dirty, nodes, retry, att>>
       ELSE /\ dirty' = TRUE
            /\ IF accepted
               THEN /\ att' = [att EXCEPT ![at].verdict = "accepted"]
                    /\ nodes' = Freeze(nodes, at[1])
                    /\ UNCHANGED <<status, retry>>
               ELSE LET s == RetryOrBlock(nodes, at[1], att[at].counted, TRUE)
                    IN  /\ att' = [att EXCEPT ![at].verdict = "rejected", ![at].counted = TRUE]
                        /\ Apply(s, s.nodes)
    /\ UNCHANGED <<stop, woken, msgVars, byPerson, open, pending, fallback, todo, leaving, runs, handVars, childVars>>

\* _schedule_ready looks at the next ready node in plan order: its attempt is started (the
\* inbox goes with it), unless it changed or the limits are reached since the order was read.
ScheduleNode(n) ==
    /\ pc = "Schedule" /\ status \notin Halted
    /\ n \in todo /\ \A m \in todo : n <= m
    /\ todo' = todo \ {n}
    /\ LET a == <<n, nodes[n].count + 1>>
       IN  IF \/ nodes[n].st \notin StartableStatus
              \/ open[n] # 0
              \/ RunningCount >= MaxConcurrency
              \/ n \in WriteNodes /\ WriteBusy
              \/ nodes[n].count >= MaxNo    \* the bound
           THEN UNCHANGED <<inbox, pc, at, child>>
           ELSE /\ pc' = "StartChild" /\ at' = a
                /\ inbox' = {}
                /\ child' = [child EXCEPT ![a] = "running"]
    /\ UNCHANGED <<taskVars, commands, sent, planVars, bookVars, leaving, runs, handVars, cancelReq, unread, mail, lost>>

\* start_child_workflow is answered: the attempt is on the books.
AttemptStarted ==
    /\ pc = "StartChild"
    /\ pc' = "Schedule" /\ at' = NoId
    /\ open' = [open EXCEPT ![at[1]] = at[2]]
    /\ att' = [att EXCEPT ![at] = NewAttempt]
    /\ nodes' = [nodes EXCEPT ![at[1]].cur = at[2], ![at[1]].count = at[2], ![at[1]].st = "RUNNING"]
    /\ dirty' = TRUE
    /\ UNCHANGED <<status, stop, woken, msgVars, retry, byPerson, pending, fallback, todo, leaving, runs,
                   handVars, childVars>>

\* _schedule_ready is through, or a command stops the rest of it.
ScheduleDone ==
    /\ pc = "Schedule" /\ (todo = {} \/ status \in Halted)
    /\ pc' = "Derive" /\ todo' = {}
    /\ UNCHANGED <<taskVars, msgVars, planVars, bookVars, at, leaving, runs, handVars, childVars>>

\* Mutant of DerivedStatus: a running attempt undoes a pause or a takeover.
DerivedStatusUnheld ==
    IF RunningCount > 0 THEN "RUNNING"
    ELSE IF \E n \in Nodes : nodes[n].st \in {"AWAITING_APPROVAL", "AWAITING_INPUT"} THEN "WAITING"
    ELSE status

\* The status follows from the attempts and nodes, unless an operator holds the task.
DerivedStatus ==
    IF status \in OperatorHeld THEN status
    ELSE IF RunningCount > 0 THEN "RUNNING"
    ELSE IF \E n \in Nodes : nodes[n].st \in {"AWAITING_APPROVAL", "AWAITING_INPUT"} THEN "WAITING"
    ELSE status

Derive ==
    /\ pc = "Derive"
    /\ status' = DerivedStatus
    /\ FlushTo(dirty \/ status' # status, "Flush", "Judge")
    /\ UNCHANGED <<stop, woken, msgVars, planVars, bookVars, at, todo, leaving, runs, handVars, childVars>>

Flushed ==
    /\ pc = "Flush"
    /\ pc' = IF leaving THEN "HandlersDone" ELSE "Judge"
    /\ UNCHANGED <<taskVars, msgVars, planVars, bookVars, at, todo, leaving, runs, handVars, childVars>>

\* The round is complete when every node is and nobody holds the task.
Judge ==
    /\ pc = "Judge"
    /\ IF AllNodesCompleted /\ status \notin Halted /\ status # "COMPLETED"
       THEN status' = "COMPLETED" /\ pc' = "FlushCompleted" /\ dirty' = FALSE
       ELSE pc' = "Rest" /\ UNCHANGED <<status, dirty>>
    /\ UNCHANGED <<stop, woken, msgVars, planVars, bookVars, at, todo, leaving, runs, handVars, childVars>>

CompletedFlushed ==
    /\ pc = "FlushCompleted"
    /\ pc' = "Rest"
    /\ UNCHANGED <<taskVars, msgVars, planVars, bookVars, at, todo, leaving, runs, handVars, childVars>>

\* Nothing is to do: the main loop waits; otherwise it goes round again.
Rest ==
    /\ pc = "Rest"
    /\ IF commands = <<>> /\ ~HasReadyNode
       THEN pc' = "Idle" /\ woken' = FALSE /\ UNCHANGED dirty
       ELSE LoopTop /\ UNCHANGED woken
    /\ UNCHANGED <<status, stop, msgVars, planVars, bookVars, at, todo, leaving, runs, handVars, childVars>>

WakeUp ==
    /\ pc = "Idle"
    /\ commands # <<>> \/ HasReadyNode \/ woken \/ stop \/ dirty
    /\ LoopTop /\ woken' = FALSE
    /\ UNCHANGED <<status, stop, msgVars, planVars, bookVars, at, todo, leaving, runs, handVars, childVars>>

\* A cancelled task ends when no attempt is left on its books.
Close ==
    /\ pc = "Close"
    /\ \A n \in Nodes : open[n] = 0
    /\ FlushTo(dirty, "FlushLast", "Ended")
    /\ UNCHANGED <<status, stop, woken, msgVars, planVars, bookVars, at, todo, leaving, runs, handVars, childVars>>

LastFlushed ==
    /\ pc = "FlushLast"
    /\ pc' = "Ended"
    /\ UNCHANGED <<taskVars, msgVars, planVars, bookVars, at, todo, leaving, runs, handVars, childVars>>

\* The history is long enough: the run gets ready to hand over to a new one.
StartLeaving ==
    /\ pc = "Rest" /\ runs < MaxRuns
    /\ pc' = "HandlersDone" /\ leaving' = TRUE /\ runs' = runs + 1
    /\ UNCHANGED <<taskVars, msgVars, planVars, bookVars, at, todo, handVars, childVars>>

AllHandlersFinished ==
    /\ \A a \in Ids : finish[a] = "idle" /\ deciding[a] = "no"
    /\ \A c \in Controls : control[c].st # "busy"

\* Commands and events that came in meanwhile are handled first ...
LeavingPass ==
    /\ pc = "HandlersDone" /\ AllHandlersFinished
    /\ commands # <<>> \/ dirty
    /\ IF commands # <<>> THEN pc' = "Drain" /\ UNCHANGED dirty ELSE FlushTo(TRUE, "Flush", "Flush")
    /\ UNCHANGED <<status, stop, woken, msgVars, planVars, bookVars, at, todo, leaving, runs, handVars, childVars>>

\* Mutant of ContinueAsNew: the fallbacks are not armed again.
ContinueAsNewUnarmed ==
    /\ pc = "HandlersDone" /\ AllHandlersFinished
    /\ commands = <<>> /\ ~dirty
    /\ stop' = FALSE /\ woken' = FALSE
    /\ fallback' = {}
    /\ pc' = "Drain" /\ leaving' = FALSE
    /\ UNCHANGED <<status, dirty, msgVars, planVars, open, att, pending, at, todo, runs, handVars, childVars>>

\* ... and then the new run starts from what the carry input holds: not _stop, _wake and the
\* timers, of which the cancel fallbacks are armed again; the retries of completed nodes are forgotten.
ContinueAsNew ==
    /\ pc = "HandlersDone" /\ AllHandlersFinished
    /\ commands = <<>> /\ ~dirty
    /\ stop' = FALSE /\ woken' = FALSE
    /\ retry' = [n \in Nodes |-> IF nodes[n].st = "COMPLETED"
                                 THEN NoRetry ELSE retry[n]]
    /\ fallback' = {a \in OpenIds : att[a].cancelling}
    /\ pc' = "Drain" /\ leaving' = FALSE
    /\ UNCHANGED <<status, dirty, msgVars, nodes, byPerson, open, att, pending, at, todo, runs, handVars, childVars>>
-----------------------------------------------------------------------------
(* The signals of the attempts.                                            *)

\* The parent handles the oldest report of a child.
Handles(a) ==
    /\ Yielded /\ mail[a] # <<>>
    /\ EarlyReports \/ ~(pc = "StartChild" /\ at = a)
    /\ mail' = [mail EXCEPT ![a] = Tail(@)]
    /\ Wake
    /\ UNCHANGED <<stop, msgVars, byPerson, loopVars, deciding, control, child, cancelReq, unread, lost>>

Parks(report) == report \in {"parkedApproval", "parkedInput"}

\* A report of an attempt that is not on the books, or whose end is being settled, is dropped.
ReportDropped(a) ==
    /\ Handles(a)
    /\ ~IsOpen(a) \/ (~Parks(Head(mail[a])) /\ att[a].finishing)
    /\ UNCHANGED <<status, dirty, nodes, retry, bookVars, finish>>

\* Mutant of AttemptParked: the node is given the status of its attempt.
AttemptParkedAsNode(a) ==
    /\ Handles(a)
    /\ Parks(Head(mail[a])) /\ IsOpen(a)
    /\ att' = [att EXCEPT ![a].st = "PARKED_INPUT"]
    /\ nodes' = SetNode(nodes, a[1], "PARKED_INPUT")
    /\ dirty' = TRUE
    /\ UNCHANGED <<status, retry, open, pending, fallback, finish>>

AttemptParked(a) ==
    /\ Handles(a)
    /\ Parks(Head(mail[a])) /\ IsOpen(a)
    /\ LET approval == Head(mail[a]) = "parkedApproval"
       IN  /\ att' = [att EXCEPT ![a].st = IF approval THEN "PARKED_APPROVAL" ELSE "PARKED_INPUT"]
           /\ nodes' = SetNode(nodes, a[1], IF approval THEN "AWAITING_APPROVAL" ELSE "AWAITING_INPUT")
           /\ pending' = IF approval THEN pending \cup {a} ELSE pending
    /\ dirty' = TRUE
    /\ UNCHANGED <<status, retry, open, fallback, finish>>

\* The end of _finish_attempt: the node is settled and the attempt leaves the books.
SettleAttempt(a, outcome, rejected, spent, ended) ==
    LET s == SettleNode(a, outcome, rejected, spent)
    IN  /\ Apply(s, Leave(s.nodes, a))
        /\ att' = [att EXCEPT ![a] = [ended EXCEPT !.counted = @ \/ rejected \/ outcome \in {"failed", "fatal"}]]
        /\ TakeOffBooks(a)
        /\ dirty' = TRUE

\* _attempt_ended: the fallback timer is disarmed and the approvals of the attempt are cancelled.
AttemptEnded(a) == fallback' = fallback \ {a} /\ pending' = pending \ {a}

EndedAs(a, outcome) == [att[a] EXCEPT !.finishing = TRUE, !.st = outcome]

\* An attempt that ends failed or cancelled is settled at once; so is a completed one whose
\* proposal was judged, that declared its own node blocked, or that spent its budget exploring.
AttemptFinished(a, spent) ==
    LET outcome == Head(mail[a])
    IN  /\ Handles(a)
        /\ ~Parks(outcome) /\ IsOpen(a) /\ ~att[a].finishing
        /\ spent => Exploring /\ outcome = "completed"
        /\ \/ outcome # "completed"
           \/ att[a].verdict \in {"accepted", "rejected"}
           \/ att[a].verdict = "none" /\ (nodes[a[1]].st = "BLOCKED" \/ spent)
        /\ finish' = finish
        /\ IF outcome = "completed" /\ status = "CANCELLED"
           THEN /\ att' = [att EXCEPT ![a] = EndedAs(a, outcome)]
                /\ MarkAttemptCancelled(a)
           ELSE /\ AttemptEnded(a)
                /\ SettleAttempt(a, outcome, outcome = "completed" /\ att[a].verdict = "rejected", spent,
                                 EndedAs(a, outcome))

\* A completed attempt is verified before its node is; one whose proposal is being verified
\* waits for that verdict.
AttemptToVerify(a) ==
    /\ Handles(a)
    /\ Head(mail[a]) = "completed" /\ IsOpen(a) /\ ~att[a].finishing
    /\ \/ att[a].verdict = "verifying"
       \/ att[a].verdict = "none" /\ nodes[a[1]].st # "BLOCKED"
    /\ AttemptEnded(a)
    /\ att' = [att EXCEPT ![a] = [EndedAs(a, "completed") EXCEPT !.verdict = "verifying"]]
    /\ finish' = [finish EXCEPT ![a] = IF att[a].verdict = "verifying" THEN "awaitVerdict" ELSE "verifying"]
    /\ nodes' = IF att[a].verdict = "verifying" THEN nodes ELSE SetNode(nodes, a[1], "VERIFYING")
    /\ dirty' = TRUE
    /\ UNCHANGED <<status, retry, open>>

\* Mutant of AttemptVerified: an attempt that was cancelled meanwhile stays on the books.
AttemptVerifiedKept(a, accepted, spent) ==
    LET verdict == IF accepted THEN "accepted" ELSE "rejected"
    IN  /\ Yielded
        /\ finish[a] = "verifying" \/ (finish[a] = "awaitVerdict" /\ att[a].verdict = verdict)
        /\ finish' = [finish EXCEPT ![a] = "idle"]
        /\ IF IsOpen(a) /\ status # "CANCELLED"
           THEN SettleAttempt(a, "completed", ~accepted, FALSE, [att[a] EXCEPT !.verdict = verdict]) /\ Wake
           ELSE att' = [att EXCEPT ![a].verdict = verdict] /\ UNCHANGED <<woken, open, dirty, nodes, retry, status>>
        /\ UNCHANGED <<fallback, pending, stop, msgVars, byPerson, loopVars, deciding, control, childVars>>

\* The verification of a completed attempt is answered. One that was cancelled meanwhile is
\* not settled by it; it leaves the books if nothing else has taken it off.
AttemptVerified(a, accepted, spent) ==
    LET verdict == IF accepted THEN "accepted" ELSE "rejected"
    IN  /\ Yielded
        /\ \/ finish[a] = "verifying"
           \/ finish[a] = "awaitVerdict" /\ att[a].verdict = verdict
        /\ spent => Exploring /\ finish[a] = "awaitVerdict"
        /\ finish' = [finish EXCEPT ![a] = "idle"]
        /\ IF IsOpen(a) /\ status # "CANCELLED"
           THEN /\ SettleAttempt(a, "completed", ~accepted, spent, [att[a] EXCEPT !.verdict = verdict])
                /\ Wake
                /\ UNCHANGED <<fallback, pending>>
           ELSE /\ att' = [att EXCEPT ![a].verdict = verdict]
                /\ IF IsOpen(a) THEN MarkAttemptCancelled(a)
                   ELSE UNCHANGED <<open, fallback, pending, dirty, nodes, retry, status>>
                /\ UNCHANGED woken
        /\ UNCHANGED <<stop, msgVars, byPerson, loopVars, deciding, control, childVars>>

\* Mutant of CancelFallback: the node is released after a second, whatever its turn is doing.
CancelFallbackSoon(a) ==
    /\ Yielded /\ a \in fallback
    /\ IF IsOpen(a) THEN MarkAttemptCancelled(a)
       ELSE fallback' = fallback \ {a} /\ UNCHANGED <<open, pending, dirty, nodes, retry, status>>
    /\ UNCHANGED <<stop, woken, msgVars, byPerson, att, loopVars, handVars, childVars>>

\* The timer of a cancelled attempt that has not reported its end.  It is longer than an
\* activity without a heartbeat takes to be declared lost, so a turn that a cancel request
\* reached is over by then.
CancelFallback(a) ==
    /\ Yielded /\ a \in fallback
    /\ ~(child[a] = "running" /\ a \in cancelReq)
    /\ IF IsOpen(a) THEN MarkAttemptCancelled(a)
       ELSE fallback' = fallback \ {a} /\ UNCHANGED <<open, pending, dirty, nodes, retry, status>>
    /\ UNCHANGED <<stop, woken, msgVars, byPerson, att, loopVars, handVars, childVars>>

\* A node has waited out the backoff of its retry.
BackoffOver(n) ==
    /\ Yielded /\ retry[n].waiting
    /\ retry' = [retry EXCEPT ![n].waiting = FALSE]
    /\ UNCHANGED <<taskVars, msgVars, nodes, byPerson, bookVars, loopVars, handVars, childVars>>
-----------------------------------------------------------------------------
(* The commands of users, operators and agents.                            *)

\* sendMessage puts the message into the inbox and queues it for the main loop.
QueueMessage ==
    /\ sent < MaxMessages
    /\ sent' = sent + 1
    /\ inbox' = inbox \cup {<<0, sent + 1>>}
    /\ commands' = Append(commands, <<"message", <<0, sent + 1>>>>)

SendMessage ==
    /\ Yielded /\ status # "CANCELLED"
    /\ QueueMessage
    /\ Wake /\ dirty' = TRUE
    /\ UNCHANGED <<status, stop, planVars, bookVars, loopVars, handVars, childVars>>

\* The agent proposes its node complete, from a turn that is running.
ProposeCompletion(a) ==
    /\ Yielded /\ status # "CANCELLED"
    /\ a[1] \in ProposingNodes /\ child[a] = "running"
    /\ IsOpen(a) /\ att[a].verdict = "none"
    /\ \A i \in 1..Len(commands) : commands[i] # <<"completion", a>>    \* bound: once per verdict
    /\ commands' = Append(commands, <<"completion", a>>)
    /\ Wake
    /\ UNCHANGED <<status, stop, dirty, inbox, sent, planVars, bookVars, loopVars, handVars, childVars>>

\* The agent declares its own node blocked, through a plan change.
DeclareBlocked(a) ==
    /\ Yielded /\ status # "CANCELLED"
    /\ a[1] \in GiveUpNodes /\ child[a] = "running"
    /\ IsOpen(a) /\ att[a].st = "RUNNING"
    /\ nodes[a[1]].st = "RUNNING" /\ ~nodes[a[1]].frozen
    /\ nodes' = [nodes EXCEPT ![a[1]].st = "BLOCKED"]
    /\ Wake /\ dirty' = TRUE
    /\ UNCHANGED <<status, stop, msgVars, retry, byPerson, bookVars, loopVars, handVars, childVars>>

\* A person finishes a node while the agents are held.
CompleteNode(n) ==
    /\ Yielded /\ n \in PersonNodes
    /\ status \in OperatorHeld
    /\ ~nodes[n].frozen /\ nodes[n].st \notin {"COMPLETED", "RUNNING", "VERIFYING"}
    /\ open[n] = 0
    /\ nodes' = Freeze(nodes, n)
    /\ retry' = [retry EXCEPT ![n] = NoRetry]
    /\ byPerson' = byPerson \cup {n}
    /\ Wake /\ dirty' = TRUE
    /\ UNCHANGED <<status, stop, msgVars, bookVars, loopVars, handVars, childVars>>

\* A person decides an approval; the decision is signalled to the attempt.
DecideApproval(a) ==
    /\ Yielded /\ a \in pending /\ deciding[a] = "no"
    /\ pending' = pending \ {a}
    /\ dirty' = TRUE
    /\ IF att[a].closed \/ ~IsOpen(a)
       THEN ResumeParked(a) /\ UNCHANGED <<deciding, child>>
       ELSE /\ deciding' = [deciding EXCEPT ![a] = IF child[a] = "closed" THEN "gone" ELSE "reached"]
            /\ child' = [child EXCEPT ![a] = IF @ = "parkedApproval" THEN "running" ELSE @]
            /\ UNCHANGED <<att, nodes, woken>>
    /\ UNCHANGED <<status, stop, msgVars, retry, byPerson, open, fallback, loopVars, finish, control,
                   cancelReq, unread, mail, lost>>

\* The signal is answered: the attempt runs again if no other approval of it is pending.
DecisionSignalled(a) ==
    /\ Yielded /\ deciding[a] # "no"
    /\ deciding' = [deciding EXCEPT ![a] = "no"]
    /\ LET resumes == a \notin pending /\ Resumes(a)
           att1    == [att EXCEPT ![a].closed = @ \/ (deciding[a] = "gone" /\ IsOpen(a))]
       IN  /\ att' = IF resumes THEN [att1 EXCEPT ![a].st = "RUNNING"] ELSE att1
           /\ nodes' = IF resumes THEN SetNode(nodes, a[1], "RUNNING") ELSE nodes
           /\ dirty' = (dirty \/ resumes)
           /\ IF resumes THEN Wake ELSE UNCHANGED woken
    /\ UNCHANGED <<status, stop, msgVars, retry, byPerson, open, pending, fallback, loopVars, finish, control, childVars>>

Interrupts == {"stop", "takeover", "interrupt"}     \* actions that end the attempts at work

\* What `control' (and `sendMessage', for an interrupt) refuses on arrival
Admitted(action) ==
    CASE action = "resume"    -> status \in {"PAUSED", "PAUSED_NEEDS_REVIEW"}
      [] action = "handback"  -> status = "TAKEN_OVER"
      [] action = "stop"      -> status \notin Halted
      [] action \in {"takeover", "interrupt"} -> status # "CANCELLED"
      [] action \in {"pause", "cancel"}       -> TRUE

\* Of the attempts that were on the books, those whose turn it is to be cancelled
ToCancel(action, rest) ==
    CASE action = "cancel"         -> rest
      [] action \in Interrupts     -> {a \in rest : att[a].st \in Active}
      [] OTHER                     -> {}

Target(action) ==
    CASE action \in {"pause", "stop"}       -> "PAUSED"
      [] action \in {"resume", "handback"}  -> "RUNNING"
      [] action = "takeover"                -> "TAKEN_OVER"
      [] action = "cancel"                  -> "CANCELLED"
      [] action = "interrupt"               -> status

\* _unblock_nodes, for every node whose retries were given up on
UnblockNodes ==
    /\ nodes' = [n \in Nodes |-> IF retry[n].blocked /\ nodes[n].st = "BLOCKED"
                                 THEN [nodes[n] EXCEPT !.st = "READY"] ELSE nodes[n]]
    /\ retry' = [n \in Nodes |-> IF retry[n].blocked
                                 THEN NoRetry ELSE retry[n]]

\* The handler asks the next attempt to cancel and awaits the answer, or has asked them all
\* and changes the task.  `said' when a message has just been queued.
ControlStep(c, action, rest, said) ==
    \/ \E a \in ToCancel(action, rest) :
          /\ control' = [control EXCEPT ![c] = [st |-> "busy", action |-> action, rest |-> rest \ {a}, on |-> a]]
          /\ att' = [att EXCEPT ![a].cancelling = TRUE]
          /\ cancelReq' = IF child[a] = "closed" THEN cancelReq ELSE cancelReq \cup {a}
          /\ dirty' = (dirty \/ said) /\ (IF said THEN Wake ELSE UNCHANGED woken)
          /\ UNCHANGED <<status, stop, nodes, retry>>
    \/ /\ ToCancel(action, rest) = {}
       /\ control' = [control EXCEPT ![c] = [st |-> "done", action |-> action, rest |-> {}, on |-> NoId]]
       /\ status' = Target(action)
       /\ stop' = (stop \/ action = "cancel")
       /\ dirty' = (dirty \/ said \/ status' # status \/ action = "cancel")
       /\ IF action # "interrupt" \/ said THEN Wake ELSE UNCHANGED woken
       /\ IF action = "resume" THEN UnblockNodes ELSE UNCHANGED <<nodes, retry>>
       /\ UNCHANGED <<att, cancelReq>>

ControlArrives(c, action) ==
    /\ Yielded /\ control[c].st = "new" /\ Admitted(action)
    /\ IF action = "interrupt" THEN QueueMessage ELSE UNCHANGED msgVars
    /\ ControlStep(c, action, OpenIds, action = "interrupt")
    /\ UNCHANGED <<byPerson, open, pending, fallback, loopVars, finish, deciding, child, unread, mail, lost>>

\* The cancel request is answered, or has not been for CANCEL_REQUEST_S: the fallback is armed.
ControlGoesOn(c) ==
    /\ Yielded /\ control[c].st = "busy"
    /\ fallback' = fallback \cup {control[c].on}
    /\ ControlStep(c, control[c].action, control[c].rest, FALSE)
    /\ UNCHANGED <<msgVars, byPerson, open, pending, loopVars, finish, deciding, child, unread, mail, lost>>
-----------------------------------------------------------------------------
(* The children (AttemptWorkflow), as the parent sees them.                *)

ChildCloses(a) ==
    /\ child' = [child EXCEPT ![a] = "closed"]
    /\ cancelReq' = cancelReq \ {a} /\ unread' = unread \ {a}

ChildStep(a) ==
    /\ Yielded \/ pc = "Ended"
    /\ UNCHANGED <<taskVars, msgVars, planVars, bookVars, loopVars, handVars>>

\* The last turn of the attempt is over and it reports its end, cancel or no cancel.
ChildFinishes(a, outcome) ==
    /\ ChildStep(a) /\ child[a] = "running"
    /\ ChildCloses(a)
    /\ \/ mail' = [mail EXCEPT ![a] = Append(@, outcome)]
       \/ Duplicates /\ mail' = [mail EXCEPT ![a] = @ \o <<outcome, outcome>>]
    /\ UNCHANGED lost

\* A turn ends with a question or an approval to ask.  A cancel request that came while the
\* turn was ending is spent on the turn.  A message that came meanwhile answers the question
\* at once.
ChildParks(a, report) ==
    /\ ChildStep(a) /\ child[a] = "running" /\ a[1] \in ParkingNodes
    /\ a \in cancelReq => SpentCancels
    /\ mail' = [mail EXCEPT ![a] = Append(@, report)]
    /\ cancelReq' = cancelReq \ {a}
    /\ IF report = "parkedInput" /\ a \in unread
       THEN unread' = unread \ {a} /\ UNCHANGED child
       ELSE child' = [child EXCEPT ![a] = report] /\ UNCHANGED unread
    /\ UNCHANGED lost

\* A cancel request ends the turn, or the wait for an answer.
ChildCancelled(a) ==
    /\ ChildStep(a) /\ a \in cancelReq /\ child[a] \notin {"none", "closed"}
    /\ ChildCloses(a)
    /\ mail' = [mail EXCEPT ![a] = Append(@, "cancelled")]
    /\ UNCHANGED lost

\* The child is terminated and reports nothing.
ChildLost(a) ==
    /\ ChildStep(a) /\ child[a] \notin {"none", "closed"} /\ Cardinality(lost) < MaxLost
    /\ ChildCloses(a)
    /\ lost' = lost \cup {a}
    /\ UNCHANGED mail
-----------------------------------------------------------------------------
MainStep ==
    \/ DrainDone \/ DrainMessageStays \/ (\E a \in Ids : DrainMessage(a)) \/ Delivered \/ Refused
    \/ DrainCompletion \/ (\E ok \in BOOLEAN : SettleProposal(ok))
    \/ (\E n \in Nodes : ScheduleNode(n)) \/ AttemptStarted \/ ScheduleDone
    \/ Derive \/ Flushed \/ Judge \/ CompletedFlushed \/ Rest \/ WakeUp
    \/ Close \/ LastFlushed
    \/ StartLeaving \/ LeavingPass \/ ContinueAsNew

HandlerStep(a) ==
    \/ ReportDropped(a) \/ AttemptParked(a) \/ AttemptToVerify(a)
    \/ \E spent \in BOOLEAN :
          AttemptFinished(a, spent) \/ \E accepted \in BOOLEAN : AttemptVerified(a, accepted, spent)
    \/ DecisionSignalled(a)
    \/ CancelFallback(a)

CommandStep ==
    \/ SendMessage
    \/ \E a \in Ids : ProposeCompletion(a) \/ DeclareBlocked(a) \/ DecideApproval(a)
    \/ \E n \in Nodes : CompleteNode(n)
    \/ \E c \in Controls, action \in ControlActions : ControlArrives(c, action)

ChildEnds(a) == (\E o \in Outcomes \ {"cancelled"} : ChildFinishes(a, o)) \/ ChildCancelled(a)
ChildNext(a) == \/ ChildEnds(a) \/ ChildLost(a)
                \/ \E report \in {"parkedApproval", "parkedInput"} : ChildParks(a, report)

Next ==
    \/ MainStep
    \/ \E a \in Ids : HandlerStep(a) \/ ChildNext(a)
    \/ \E n \in Nodes : BackoffOver(n)
    \/ CommandStep
    \/ \E c \in Controls : ControlGoesOn(c)

Spec == Init /\ [][Next]_vars

(* What the runtime promises: Temporal runs every coroutine that can go on *)
(* and answers every activity, signal and timer; a turn ends.  Users,      *)
(* operators and agents owe nothing.                                       *)
Fairness ==
    /\ WF_vars(MainStep)
    /\ \A a \in Ids : WF_vars(HandlerStep(a)) /\ WF_vars(ChildEnds(a))
    /\ \A n \in Nodes : WF_vars(BackoffOver(n))
    /\ \A c \in Controls : WF_vars(ControlGoesOn(c))

FairSpec == Spec /\ Fairness
-----------------------------------------------------------------------------
(* What the workflow promises.                                             *)

Starting(a) == pc = "StartChild" /\ at = a
Working(a)  == child[a] = "running"

\* A turn only ever runs for the attempt that is on the node's books, or that is being
\* started: neither a cancel whose report is late, nor the fallback timer, nor a
\* Continue-As-New gives a node a second attempt while the first is at work
\* (_await_cancelled, _mark_attempt_cancelled).
Accounted == \A a \in Ids : Working(a) => IsOpen(a) \/ Starting(a)

\* Two attempts never write the workspace at the same time (_schedule_ready: the limits are
\* looked at again before every start, and a cancelled attempt stays on the books until its
\* turn has stopped).
OneWriter ==
    \A a, b \in Ids : Working(a) /\ Working(b) /\ {a[1], b[1]} \subseteq WriteNodes => a = b

\* An attempt on the books has something that will take it off: its child is alive, its report
\* is on the way or being settled, or it is being cancelled and its fallback will fire.  The
\* one exception is a child that was terminated and that nobody cancelled.
Attended ==
    \A a \in Ids : IsOpen(a) =>
        \/ child[a] # "closed"
        \/ \E i \in 1..Len(mail[a]) : mail[a][i] \in Outcomes
        \/ finish[a] # "idle"
        \/ a \in fallback
        \/ \E c \in Controls : control[c].st = "busy" /\ control[c].on = a
        \/ a \in lost /\ ~att[a].cancelling

\* A node that is shown at work, under verification or waiting for a person has an attempt on
\* the books that will report on it (task_completion._finish_attempt, task_retry).
NotStranded ==
    \A n \in Nodes :
        nodes[n].st \in {"RUNNING", "VERIFYING", "AWAITING_APPROVAL", "AWAITING_INPUT"} => open[n] # 0

\* An attempt is held against its node at most once, however its proposal, its report and its
\* cancel are interleaved (task_retry._retry_or_block).
CountedOnce ==
    \A n \in Nodes : retry[n].failed <= Cardinality({i \in 1..MaxNo : att[<<n, i>>].counted})

\* A node is complete only when an attempt of it passed the verification, or a person said so
\* (_settle_proposal, _settle_node, complete_node).
CompletedOnlyVerified ==
    \A n \in Nodes : nodes[n].st = "COMPLETED" =>
        n \in byPerson \/ \E i \in 1..MaxNo : att[<<n, i>>].verdict = "accepted"

\* An attempt that waits for the verdict on its proposal gets one: the main loop is verifying
\* it, or has judged it (_completion_rejections).
VerdictComes ==
    \A a \in Ids : finish[a] = "awaitVerdict" =>
        att[a].verdict # "verifying" \/ (pc = "VerifyProposal" /\ at = a)

\* A node is at work only when everything it depends on is complete, although the ready
\* nodes are read once and started one by one, with an await between them.
DependenciesRespected ==
    \A n \in Nodes : open[n] # 0 \/ (pc = "StartChild" /\ at[1] = n) => DependenciesDone(nodes, n)

\* A pause and a takeover stay until an operator's command ends them; a running attempt does not
\* undo them (task_workflow.run).  The exception is _settle_node: an attempt that gave its node
\* up, or spent its budget exploring, asks for a review whoever holds the task.
HeldStaysHeld ==
    [][(status \in {"PAUSED", "TAKEN_OVER"} /\ status' # status)
        => \/ \E c \in Controls : control[c].st # "done" /\ control'[c].st = "done"
           \/ status' = "PAUSED_NEEDS_REVIEW" /\ (\E n \in Nodes : nodes'[n].st = "BLOCKED") /\ retry' = retry]_vars

\* A task that ended has no child that is still going (run: "Every child has to be cancelled
\* before the task ends").
EndsWithoutChildren == pc = "Ended" => \A a \in Ids : child[a] \in {"none", "closed"}

Cancelled == \E c \in Controls : control[c].st = "done" /\ control[c].action = "cancel"

\* A cancelled task ends (control, run).
CancelEnds == Cancelled ~> (pc = "Ended")
=============================================================================
