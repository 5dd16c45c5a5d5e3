------------------------- MODULE TaskVerdictProofs --------------------------
(***************************************************************************)
(* What is held against a node and what completes it, for any plan, any    *)
(* bounds and any interleaving of the main loop, the report handlers and   *)
(* the operators: the marks an attempt gets (a verdict, and that its       *)
(* failure was counted) are made once and never taken back, because its    *)
(* number is never given out again and one coroutine at a time judges it.  *)
(* And a task that an operator holds stays held.                           *)
(***************************************************************************)
EXTENDS TaskLifecycleProofs, FiniteSetTheorems

\* The provers' time for a leaf, in seconds.
USE ZenonT(3), SMTT(30), ZenonT(60)

\* The numbers of a node's attempts are given out once, in order: what is on the books, is being
\* settled or was judged has a number the node has counted, and the attempt being started has the
\* next one.
Numbered ==
    \A a \in Ids :
        /\ IsOpen(a) \/ finish[a] # "idle" \/ att[a].counted \/ att[a].verdict # "none" => a[2] <= nodes[a[1]].count
        /\ Starting(a) => a[2] = nodes[a[1]].count + 1

\* One coroutine at a time judges an attempt: the main loop, for its proposal, or the handler of
\* its report.
Judged ==
    \A a \in Ids :
        /\ finish[a] = "verifying" => att[a].verdict = "verifying"
        /\ pc = "VerifyProposal" /\ at = a => att[a].verdict = "verifying" /\ finish[a] # "verifying"

\* The inductive invariant: neither of the last two is inductive without the first two.
Verdicts == Numbered /\ Judged /\ CountedOnce /\ CompletedOnlyVerified
-----------------------------------------------------------------------------
(* What the operators on the plan do to completions, failures and status.  *)

\* No node but n is newly completed (n = 0: none is).
Completes(n, ns, ms) == \A m \in Nodes : ms[m].st = "COMPLETED" => ns[m].st = "COMPLETED" \/ m = n

\* No node but n has failed once more (n = 0: none has).
Fails(n, rs) == \A m \in Nodes : rs[m].failed <= retry[m].failed \/ (m = n /\ rs[m].failed = retry[m].failed + 1)

\* Setting the status of a node completes no other one: refreshing the readiness only makes nodes ready.
LEMMA SetNodeCompletes ==
    ASSUME NEW ns \in [Nodes -> NodeState], NEW n \in Nodes, NEW st \in NodeStatuses
    PROVE  /\ Completes(n, ns, SetNode(ns, n, st))
           /\ st # "COMPLETED" => Completes(0, ns, SetNode(ns, n, st))
           /\ st # "PENDING" => SetNode(ns, n, st)[n].st = st
BY DEF Completes, SetNode, RefreshReadiness, NodeState

\* Freezing a node completes that node and no other.
LEMMA FreezeCompletes ==
    ASSUME NEW ns \in [Nodes -> NodeState], NEW n \in Nodes
    PROVE  Completes(n, ns, Freeze(ns, n))
<1> DEFINE fs == [ns EXCEPT ![n].frozen = TRUE]
<1>1. fs \in [Nodes -> NodeState] /\ \A m \in Nodes : fs[m].st = ns[m].st
  BY ZenonT(60) DEF NodeState
<1>2. Freeze(ns, n) = SetNode(fs, n, "COMPLETED") /\ "COMPLETED" \in NodeStatuses
  BY DEF Freeze, NodeStatuses
<1> HIDE DEF fs
<1>3. Completes(n, fs, Freeze(ns, n))
  BY <1>1, <1>2, SetNodeCompletes
<1> QED BY <1>1, <1>3 DEF Completes

\* Clearing the node's current attempt leaves every status as it is.
LEMMA LeaveKeeps ==
    ASSUME NEW ns \in [Nodes -> NodeState], NEW a \in Ids
    PROVE  \A m \in Nodes : Leave(ns, a)[m].st = ns[m].st
BY IdParts DEF Leave, NodeState

\* _retry_or_block completes nothing, counts at most one failure, none when the attempt was counted
\* before, and leaves a task that is held as it is.
LEMMA RetryOrBlockEffect ==
    ASSUME TypeOK, NEW n \in Nodes, NEW counted \in BOOLEAN, NEW retryable \in BOOLEAN
    PROVE  LET s == RetryOrBlock(nodes, n, counted, retryable)
           IN  /\ Completes(0, nodes, s.nodes)
               /\ Fails(IF counted THEN 0 ELSE n, s.retry)
               /\ status \in Halted => s.status = status
<1>0. nodes \in [Nodes -> NodeState] /\ retry \in [Nodes -> RetryState]
  BY DEF TypeOK, PlanTypes
<1>1. CASE counted
  <2>1. \A m \in Nodes : retry[m].failed \in Nat
    BY <1>0 DEF RetryState
  <2> QED BY <1>1, <2>1 DEF RetryOrBlock, Completes, Fails
<1>2. CASE ~counted
  <2> DEFINE blocked == ~retryable \/ retry[n].failed + 1 >= MaxTries
             r       == [failed |-> retry[n].failed + 1, blocked |-> blocked \/ retry[n].blocked, waiting |-> ~blocked]
             s       == RetryOrBlock(nodes, n, counted, retryable)
  <2>1. /\ s.nodes = SetNode(nodes, n, "BLOCKED") \/ s.nodes = SetNode(nodes, n, "RETRY_PENDING")
        /\ s.retry = [retry EXCEPT ![n] = r]
        /\ status \in Halted => s.status = status
    BY <1>2 DEF RetryOrBlock
  <2>2. \A m \in Nodes : retry[m].failed \in Nat
    BY <1>0 DEF RetryState
  <2>3. r.failed = retry[n].failed + 1
    OBVIOUS
  <2> HIDE DEF r, s, blocked
  <2>4. Completes(0, nodes, s.nodes)
    BY <1>0, <2>1, SetNodeCompletes DEF NodeStatuses
  <2>5. Fails(n, s.retry)
    BY <1>0, <2>1, <2>2, <2>3 DEF Fails
  <2> QED BY <1>2, <2>1, <2>4, <2>5 DEF s
<1> QED BY <1>1, <1>2

\* _attempt_cancelled completes nothing, counts nothing and leaves the status of the task.
LEMMA AttemptCancelledEffect ==
    ASSUME TypeOK, NEW n \in Nodes, NEW counted \in BOOLEAN
    PROVE  LET s == AttemptCancelled(nodes, n, counted)
           IN  Completes(0, nodes, s.nodes) /\ Fails(0, s.retry) /\ s.status = status
<1>0. nodes \in [Nodes -> NodeState] /\ retry \in [Nodes -> RetryState]
  BY DEF TypeOK, PlanTypes
<1> DEFINE s == AttemptCancelled(nodes, n, counted)
<1>1. /\ s.nodes = nodes \/ s.nodes = SetNode(nodes, n, "RETRY_PENDING")
      /\ s.retry = retry \/ s.retry = [retry EXCEPT ![n].waiting = FALSE]
      /\ s.status = status
  BY DEF AttemptCancelled
<1>2. \A m \in Nodes : [retry EXCEPT ![n].waiting = FALSE][m].failed = retry[m].failed /\ retry[m].failed \in Nat
  BY <1>0 DEF RetryState
<1> HIDE DEF s
<1>3. Completes(0, nodes, s.nodes)
  BY <1>0, <1>1, SetNodeCompletes DEF NodeStatuses, Completes
<1>4. \A m \in Nodes : s.retry[m].failed = retry[m].failed
  BY <1>1, <1>2, ZenonT(60)
<1>5. Fails(0, s.retry)
  BY <1>2, <1>4 DEF Fails
<1> QED BY <1>1, <1>3, <1>5 DEF s

\* A node is completed by a report that says so and was not rejected, unless the node was given up or
\* the budget spent; it is held against the node only when it is rejected or a failure, and was not before.
LEMMA SettleNodeEffect ==
    ASSUME TypeOK, NEW a \in Ids, NEW outcome \in Outcomes, NEW rejected \in BOOLEAN, NEW spent \in BOOLEAN
    PROVE  LET s       == SettleNode(a, outcome, rejected, spent)
               ends    == ~rejected /\ outcome = "completed" /\ ~spent /\ nodes[a[1]].st # "BLOCKED"
               charged == (rejected \/ outcome \in {"failed", "fatal"}) /\ ~att[a].counted
           IN  /\ Completes(IF ends THEN a[1] ELSE 0, nodes, s.nodes)
               /\ Fails(IF charged THEN a[1] ELSE 0, s.retry)
               /\ status \in Halted => \/ s.status = status
                                       \/ /\ s.status = "PAUSED_NEEDS_REVIEW" /\ s.retry = retry
                                          /\ s.nodes[a[1]].st = "BLOCKED"
<1>0. /\ a[1] \in Nodes /\ att[a].counted \in BOOLEAN /\ (outcome = "failed") \in BOOLEAN
      /\ nodes \in [Nodes -> NodeState] /\ \A m \in Nodes : retry[m].failed \in Nat
  BY IdParts DEF TypeOK, BookTypes, PlanTypes, Attempt, RetryState
<1> DEFINE s == SettleNode(a, outcome, rejected, spent)
<1>1. CASE rejected
  <2>1. s = RetryOrBlock(nodes, a[1], att[a].counted, TRUE)
    BY <1>1 DEF SettleNode
  <2> HIDE DEF s
  <2>2. /\ Completes(0, nodes, s.nodes) /\ Fails(IF att[a].counted THEN 0 ELSE a[1], s.retry)
        /\ status \in Halted => s.status = status
    BY <1>0, <2>1, RetryOrBlockEffect, ZenonT(60)
  <2> QED BY <1>1, <2>2, ZenonT(60) DEF s
<1>2. CASE ~rejected /\ outcome \in {"failed", "fatal"}
  <2>1. s = RetryOrBlock(nodes, a[1], att[a].counted, outcome = "failed")
    BY <1>2 DEF SettleNode
  <2> HIDE DEF s
  <2>2. /\ Completes(0, nodes, s.nodes) /\ Fails(IF att[a].counted THEN 0 ELSE a[1], s.retry)
        /\ status \in Halted => s.status = status
    BY <1>0, <2>1, RetryOrBlockEffect, ZenonT(60)
  <2> QED BY <1>2, <2>2 DEF s
<1>3. CASE ~rejected /\ outcome = "cancelled"
  <2>1. s = AttemptCancelled(nodes, a[1], att[a].counted)
    BY <1>3 DEF SettleNode
  <2> HIDE DEF s
  <2>2. Completes(0, nodes, s.nodes) /\ Fails(0, s.retry) /\ s.status = status
    BY <1>0, <2>1, AttemptCancelledEffect
  <2> QED BY <1>3, <2>2 DEF s
<1>4. CASE ~rejected /\ outcome = "completed"
  <2> DEFINE left == IF spent THEN SetNode(nodes, a[1], "BLOCKED")
                     ELSE IF nodes[a[1]].st \in {"BLOCKED", "COMPLETED"} THEN nodes ELSE Freeze(nodes, a[1])
  <2>1. /\ s.nodes = left /\ s.retry = retry
        /\ s.status = IF spent \/ nodes[a[1]].st = "BLOCKED" THEN "PAUSED_NEEDS_REVIEW" ELSE status
    BY <1>4 DEF SettleNode
  <2> HIDE DEF s
  <2>2. Fails(0, s.retry)
    BY <1>0, <2>1 DEF Fails
  <2>3. "BLOCKED" \in NodeStatuses
    BY DEF NodeStatuses
  <2>4. CASE spent
    <3>1. s.nodes = SetNode(nodes, a[1], "BLOCKED") /\ s.status = "PAUSED_NEEDS_REVIEW"
      BY <2>1, <2>4
    <3>2. Completes(0, nodes, s.nodes) /\ s.nodes[a[1]].st = "BLOCKED"
      BY <1>0, <2>3, <3>1, SetNodeCompletes
    <3> QED BY <1>4, <2>1, <2>2, <2>4, <3>1, <3>2, ZenonT(60) DEF s
  <2>5. CASE ~spent /\ nodes[a[1]].st \in {"BLOCKED", "COMPLETED"}
    BY <1>4, <2>1, <2>2, <2>5 DEF s, Completes
  <2>6. CASE ~spent /\ nodes[a[1]].st \notin {"BLOCKED", "COMPLETED"}
    BY <1>0, <1>4, <2>1, <2>2, <2>6, FreezeCompletes DEF s
  <2> QED BY <2>4, <2>5, <2>6
<1> QED BY <1>1, <1>2, <1>3, <1>4 DEF Outcomes
-----------------------------------------------------------------------------
(* The step lemma.                                                         *)

\* The attempts of a node that were held against it.
Charged(n) == {i \in 1..MaxNo : att[<<n, i>>].counted}
SameMarks  == \A a \in Ids : att'[a].counted = att[a].counted /\ att'[a].verdict = att[a].verdict

\* A larger set of attempt numbers has no fewer elements, and one more if it has a new one.
LEMMA Numbers ==
    ASSUME NEW S \in SUBSET (1..MaxNo), NEW T \in SUBSET (1..MaxNo), S \subseteq T
    PROVE  /\ Cardinality(S) \in Nat /\ Cardinality(T) \in Nat /\ Cardinality(S) <= Cardinality(T)
           /\ \A i \in T \ S : Cardinality(S) + 1 <= Cardinality(T)
<1>1. IsFiniteSet(1..MaxNo)
  BY FS_Interval, LifecycleConstants
<1>2. IsFiniteSet(S) /\ IsFiniteSet(T)
  BY <1>1, FS_Subset, ZenonT(60)
<1>3. Cardinality(S) \in Nat /\ Cardinality(T) \in Nat /\ Cardinality(S) <= Cardinality(T)
  BY <1>2, FS_CardinalityType, FS_Subset, ZenonT(60)
<1>4. ASSUME NEW i \in T \ S  PROVE Cardinality(S) + 1 <= Cardinality(T)
  <2>1. IsFiniteSet(S \cup {i}) /\ Cardinality(S \cup {i}) = Cardinality(S) + 1
    BY <1>2, <1>4, FS_AddElement
  <2>2. Cardinality(S \cup {i}) <= Cardinality(T)
    BY <1>2, <1>4, FS_Subset, ZenonT(60)
  <2> QED BY <2>1, <2>2
<1> QED BY <1>3, <1>4

\* What a step has to leave for the verdicts to stand: marks are only made on attempts on the books
\* or being settled and are never taken back, a failure comes with a mark, a completion with a verdict.
LEMMA VerdictStep ==
    ASSUME TypeOK, TypeOK', Verdicts,
           SameCounts(nodes, nodes'),
           \A n \in Nodes : open'[n] = open[n] \/ open'[n] = 0,
           \A a \in Ids : finish'[a] # "idle" => finish[a] # "idle" \/ IsOpen(a),
           \A a \in Ids : Starting(a)' => Starting(a),
           \A a \in Ids : \/ att'[a].counted = att[a].counted /\ att'[a].verdict = att[a].verdict
                          \/ IsOpen(a) \/ finish[a] # "idle",
           \A a \in Ids : att[a].counted => att'[a].counted,
           \A a \in Ids : att[a].verdict = "accepted" => att'[a].verdict = "accepted",
           Judged',
           \A n \in Nodes : \/ retry'[n].failed <= retry[n].failed
                            \/ /\ retry'[n].failed = retry[n].failed + 1
                               /\ \E i \in 1..MaxNo : ~att[<<n, i>>].counted /\ att'[<<n, i>>].counted,
           \A n \in Nodes : nodes'[n].st = "COMPLETED" =>
                              \/ nodes[n].st = "COMPLETED" \/ n \in byPerson'
                              \/ \E i \in 1..MaxNo : att'[<<n, i>>].verdict = "accepted",
           byPerson \subseteq byPerson'
    PROVE  Verdicts'
<1>0. /\ \A n \in Nodes : nodes[n].count \in Nat
      /\ \A n \in Nodes : retry[n].failed \in Nat /\ retry'[n].failed \in Nat
      /\ \A n \in Nodes, i \in 1..MaxNo : <<n, i>> \in Ids
  <2>1. nodes \in [Nodes -> NodeState] /\ retry \in [Nodes -> RetryState] /\ retry' \in [Nodes -> RetryState]
    BY DEF TypeOK, PlanTypes
  <2>2. \A n \in Nodes : nodes[n].count \in Nat
    BY <2>1, LifecycleConstants DEF NodeState
  <2>3. \A n \in Nodes : retry[n].failed \in Nat /\ retry'[n].failed \in Nat
    BY <2>1 DEF RetryState
  <2> QED BY <2>2, <2>3 DEF Ids
<1>1. Numbered'
  <2> SUFFICES ASSUME NEW a \in Ids
               PROVE  /\ \/ IsOpen(a)' \/ finish'[a] # "idle" \/ att'[a].counted \/ att'[a].verdict # "none"
                         => a[2] <= nodes'[a[1]].count
                      /\ Starting(a)' => a[2] = nodes'[a[1]].count + 1
    BY DEF Numbered
  <2>1. a[1] \in Nodes /\ a[2] \in 1..MaxNo /\ nodes'[a[1]].count = nodes[a[1]].count
    BY IdParts DEF SameCounts
  <2>2. /\ IsOpen(a) \/ finish[a] # "idle" \/ att[a].counted \/ att[a].verdict # "none" => a[2] <= nodes[a[1]].count
        /\ Starting(a) => a[2] = nodes[a[1]].count + 1
    BY DEF Verdicts, Numbered
  <2>3. IsOpen(a)' => IsOpen(a)
    BY <2>1 DEF IsOpen
  <2>4. att'[a].counted \/ att'[a].verdict # "none" =>
          IsOpen(a) \/ finish[a] # "idle" \/ att[a].counted \/ att[a].verdict # "none"
    OBVIOUS
  <2> QED BY <2>1, <2>2, <2>3, <2>4
<1>2. CountedOnce'
  <2> SUFFICES ASSUME NEW n \in Nodes  PROVE retry'[n].failed <= Cardinality(Charged(n)')
    BY DEF CountedOnce, Charged
  <2>1. Charged(n) \in SUBSET (1..MaxNo) /\ Charged(n)' \in SUBSET (1..MaxNo) /\ Charged(n) \subseteq Charged(n)'
    BY <1>0 DEF Charged
  <2>2. retry[n].failed <= Cardinality(Charged(n))
    BY DEF Verdicts, CountedOnce, Charged
  <2>3. /\ Cardinality(Charged(n)) \in Nat /\ Cardinality(Charged(n)') \in Nat
        /\ Cardinality(Charged(n)) <= Cardinality(Charged(n)')
        /\ \A i \in Charged(n)' \ Charged(n) : Cardinality(Charged(n)) + 1 <= Cardinality(Charged(n)')
    BY <2>1, Numbers
  <2>4. CASE retry'[n].failed <= retry[n].failed
    BY <1>0, <2>2, <2>3, <2>4
  <2>5. CASE retry'[n].failed = retry[n].failed + 1 /\ \E i \in 1..MaxNo : ~att[<<n, i>>].counted /\ att'[<<n, i>>].counted
    <3>1. \E i \in 1..MaxNo : i \in Charged(n)' \ Charged(n)
      BY <2>5 DEF Charged
    <3>2. Cardinality(Charged(n)) + 1 <= Cardinality(Charged(n)')
      BY <2>3, <3>1
    <3> QED BY <1>0, <2>2, <2>3, <2>5, <3>2
  <2> QED BY <2>4, <2>5
<1>3. CompletedOnlyVerified'
  <2> SUFFICES ASSUME NEW n \in Nodes, nodes'[n].st = "COMPLETED"
               PROVE  n \in byPerson' \/ \E i \in 1..MaxNo : att'[<<n, i>>].verdict = "accepted"
    BY DEF CompletedOnlyVerified
  <2>1. CASE nodes[n].st = "COMPLETED"
    BY <1>0, <2>1 DEF Verdicts, CompletedOnlyVerified
  <2> QED BY <2>1
<1> QED BY <1>1, <1>2, <1>3 DEF Verdicts

\* A step that makes no mark and starts nothing; it may take attempts off the books.
LEMMA VerdictFrame ==
    ASSUME TypeOK, TypeOK', Verdicts, SameMarks,
           UNCHANGED <<finish, byPerson>>, SameCounts(nodes, nodes'),
           \A n \in Nodes : open'[n] = open[n] \/ open'[n] = 0,
           pc' \notin {"StartChild", "VerifyProposal"} \/ UNCHANGED <<pc, at>>,
           Completes(0, nodes, nodes'), Fails(0, retry')
    PROVE  Verdicts'
<1>1. \A a \in Ids : Starting(a)' => Starting(a)
  BY DEF Starting
<1>2. Judged'
  BY DEF SameMarks, Verdicts, Judged
<1>3. /\ \A n \in Nodes : retry'[n].failed <= retry[n].failed
      /\ \A n \in Nodes : nodes'[n].st = "COMPLETED" => nodes[n].st = "COMPLETED"
  BY DEF Fails, Completes, Nodes
<1> QED BY <1>1, <1>2, <1>3, VerdictStep DEF SameMarks
-----------------------------------------------------------------------------
(* What the helpers of several actions leave.                              *)

\* A step that leaves the plan and the retries alone completes nothing and counts nothing.
LEMMA Still == ASSUME TypeOK  PROVE Completes(0, nodes, nodes) /\ Fails(0, retry) /\ SameCounts(nodes, nodes)
<1>1. \A n \in Nodes : retry[n].failed \in Nat
  BY DEF TypeOK, PlanTypes, RetryState
<1> QED BY <1>1 DEF Completes, Fails, SameCounts

\* Parking, resuming, closing and cancelling an attempt are no marks.
LEMMA NoMark ==
    ASSUME TypeOK, NEW b \in Ids, NEW x,
           att' = att \/ att' = [att EXCEPT ![b].st = x] \/ att' = [att EXCEPT ![b].closed = x]
             \/ att' = [att EXCEPT ![b].cancelling = x]
    PROVE  SameMarks
<1>0. att \in [Ids -> Attempt]
  BY DEF TypeOK, BookTypes
<1> SUFFICES ASSUME NEW a \in Ids  PROVE att'[a].counted = att[a].counted /\ att'[a].verdict = att[a].verdict
  BY DEF SameMarks
<1>1. att[a] \in Attempt
  BY <1>0
<1>2. CASE a # b
  <2>1. att'[a] = att[a]
    BY <1>0, <1>2
  <2> QED BY <2>1
<1>3. CASE a = b
  <2>1. \/ att'[a] = att[a] \/ att'[a] = [att[a] EXCEPT !.st = x]
        \/ att'[a] = [att[a] EXCEPT !.closed = x] \/ att'[a] = [att[a] EXCEPT !.cancelling = x]
    BY <1>0, <1>3
  <2> QED BY <1>1, <2>1 DEF Attempt
<1> QED BY <1>2, <1>3

\* _resume_parked makes no mark and completes nothing.
LEMMA ResumeEffect ==
    ASSUME TypeOK, NEW a \in Ids, ResumeParked(a)
    PROVE  SameMarks /\ Completes(0, nodes, nodes') /\ SameCounts(nodes, nodes')
<1>1. a[1] \in Nodes /\ nodes \in [Nodes -> NodeState] /\ "RUNNING" \in NodeStatuses
  BY IdParts DEF TypeOK, PlanTypes, NodeStatuses
<1>2. /\ nodes' = nodes \/ nodes' = SetNode(nodes, a[1], "RUNNING")
      /\ att' = att \/ att' = [att EXCEPT ![a].st = "RUNNING"]
  BY DEF ResumeParked
<1>3. Completes(0, nodes, nodes')
  BY <1>1, <1>2, SetNodeCompletes, Still
<1>4. SameMarks
  BY <1>2, NoMark
<1> QED BY <1>3, <1>4, ResumeCounts

\* _mark_attempt_cancelled completes nothing, counts nothing, keeps the status of the task and only
\* takes attempts off the books.
LEMMA MarkEffect ==
    ASSUME TypeOK, NEW a \in Ids, MarkAttemptCancelled(a)
    PROVE  /\ Completes(0, nodes, nodes') /\ Fails(0, retry') /\ SameCounts(nodes, nodes') /\ status' = status
           /\ \A n \in Nodes : open'[n] = open[n] \/ open'[n] = 0
<1> DEFINE s == AttemptCancelled(nodes, a[1], att[a].counted)
<1>1. a[1] \in Nodes /\ att[a].counted \in BOOLEAN /\ nodes \in [Nodes -> NodeState] /\ open \in [Nodes -> 0..MaxNo]
  BY IdParts DEF TypeOK, BookTypes, PlanTypes, Attempt
<1>2. /\ s.nodes \in [Nodes -> NodeState]
      /\ Completes(0, nodes, s.nodes) /\ Fails(0, s.retry) /\ s.status = status
  BY <1>1, AttemptCancelledType, AttemptCancelledEffect DEF Settlement
<1>3. \/ nodes' = Leave(s.nodes, a) /\ retry' = s.retry /\ status' = s.status
      \/ UNCHANGED <<nodes, retry, status>>
  BY DEF MarkAttemptCancelled, Apply
<1> HIDE DEF s
<1>4. \A m \in Nodes : Leave(s.nodes, a)[m].st = s.nodes[m].st
  BY <1>2, LeaveKeeps
<1>5. Completes(0, nodes, nodes') /\ Fails(0, retry') /\ status' = status
  BY <1>2, <1>3, <1>4, Still DEF Completes
<1>6. \A n \in Nodes : open'[n] = open[n] \/ open'[n] = 0
  BY <1>1 DEF MarkAttemptCancelled, TakeOffBooks
<1> QED BY <1>5, <1>6, MarkCounts

\* The end of _finish_attempt: what it completes and counts is what _settle_node does, the attempt is
\* marked counted when it was charged, and a task that is held stays so unless the node was given up.
LEMMA SettleEffect ==
    ASSUME TypeOK, NEW a \in Ids, NEW outcome \in Outcomes, NEW rejected \in BOOLEAN, NEW spent \in BOOLEAN,
           NEW ended \in Attempt, ended.counted = att[a].counted, SettleAttempt(a, outcome, rejected, spent, ended)
    PROVE  LET ends    == ~rejected /\ outcome = "completed" /\ ~spent /\ nodes[a[1]].st # "BLOCKED"
               charged == (rejected \/ outcome \in {"failed", "fatal"}) /\ ~att[a].counted
           IN  /\ Completes(IF ends THEN a[1] ELSE 0, nodes, nodes')
               /\ Fails(IF charged THEN a[1] ELSE 0, retry')
               /\ SameCounts(nodes, nodes')
               /\ \A n \in Nodes : open'[n] = open[n] \/ open'[n] = 0
               /\ \A b \in Ids : b # a => att'[b] = att[b]
               /\ att'[a].counted = (att[a].counted \/ rejected \/ outcome \in {"failed", "fatal"})
               /\ att'[a].verdict = ended.verdict
               /\ status \in Halted => \/ status' = status
                                       \/ /\ status' = "PAUSED_NEEDS_REVIEW" /\ retry' = retry
                                          /\ nodes'[a[1]].st = "BLOCKED"
<1> DEFINE s       == SettleNode(a, outcome, rejected, spent)
           ends    == ~rejected /\ outcome = "completed" /\ ~spent /\ nodes[a[1]].st # "BLOCKED"
           charged == (rejected \/ outcome \in {"failed", "fatal"}) /\ ~att[a].counted
           marked  == [ended EXCEPT !.counted = @ \/ rejected \/ outcome \in {"failed", "fatal"}]
<1>0. a[1] \in Nodes /\ att \in [Ids -> Attempt] /\ open \in [Nodes -> 0..MaxNo]
  BY IdParts DEF TypeOK, BookTypes
<1>1. /\ Completes(IF ends THEN a[1] ELSE 0, nodes, s.nodes)
      /\ Fails(IF charged THEN a[1] ELSE 0, s.retry)
      /\ status \in Halted => \/ s.status = status
                              \/ s.status = "PAUSED_NEEDS_REVIEW" /\ s.retry = retry /\ s.nodes[a[1]].st = "BLOCKED"
  BY SettleNodeEffect, ZenonT(60)
<1>2. s.nodes \in [Nodes -> NodeState]
  BY SettleNodeType DEF Settlement
<1>3. /\ nodes' = Leave(s.nodes, a) /\ retry' = s.retry /\ status' = s.status
      /\ att' = [att EXCEPT ![a] = marked] /\ open' = [open EXCEPT ![a[1]] = 0]
  BY DEF SettleAttempt, Apply, TakeOffBooks
<1>4. /\ marked.counted = (att[a].counted \/ rejected \/ outcome \in {"failed", "fatal"})
      /\ marked.verdict = ended.verdict
  BY DEF Attempt
<1> HIDE DEF s, ends, charged, marked
<1>5. \A m \in Nodes : nodes'[m].st = s.nodes[m].st
  BY <1>2, <1>3, LeaveKeeps
<1>6. Completes(IF ends THEN a[1] ELSE 0, nodes, nodes')
  BY <1>1, <1>5 DEF Completes
<1>7. /\ \A b \in Ids : b # a => att'[b] = att[b]
      /\ att'[a] = marked
      /\ \A n \in Nodes : open'[n] = open[n] \/ open'[n] = 0
  BY <1>0, <1>3
<1>8. status \in Halted => \/ status' = status
                           \/ status' = "PAUSED_NEEDS_REVIEW" /\ retry' = retry /\ nodes'[a[1]].st = "BLOCKED"
  BY <1>0, <1>1, <1>3, <1>5
<1> QED BY <1>1, <1>3, <1>4, <1>6, <1>7, <1>8, SettleCounts DEF ends, charged
-----------------------------------------------------------------------------
(* The steps, action by action.                                            *)

\* The steps of the main loop that judge and start nothing.
LEMMA VerdictLoop ==
    ASSUME TypeOK, TypeOK', Verdicts,
           \/ DrainDone \/ ScheduleDone \/ Derive \/ Flushed \/ Judge \/ CompletedFlushed \/ Rest \/ WakeUp
           \/ Close \/ LastFlushed \/ StartLeaving \/ LeavingPass
           \/ DrainMessageStays \/ (\E a \in Ids : DrainMessage(a)) \/ Delivered \/ Refused \/ ContinueAsNew
    PROVE  Verdicts'
<1> USE DEF planVars, bookVars, loopVars, handVars
<1>0. UNCHANGED <<finish, byPerson, open>>
  BY ZenonT(60) DEF DrainDone, ScheduleDone, Derive, Flushed, Judge, CompletedFlushed, Rest, WakeUp, Close, LastFlushed,
         StartLeaving, LeavingPass, DrainMessageStays, DrainMessage, Delivered, Refused, ContinueAsNew
<1>1. pc' \notin {"StartChild", "VerifyProposal"} \/ UNCHANGED <<pc, at>>
  BY ZenonT(60) DEF DrainDone, ScheduleDone, Derive, Flushed, Judge, CompletedFlushed, Rest, WakeUp, Close, LastFlushed,
         StartLeaving, LeavingPass, DrainMessageStays, DrainMessage, Delivered, Refused, ContinueAsNew, LoopTop, FlushTo
<1>2. ASSUME SameMarks, SameCounts(nodes, nodes'), Completes(0, nodes, nodes'), Fails(0, retry')  PROVE Verdicts'
  BY <1>0, <1>1, <1>2, VerdictFrame
<1> HIDE <1>1
<1>3. CASE Delivered
  <2>1. at \in Ids /\ UNCHANGED retry
    BY <1>3, AtType DEF Delivered
  <2>2. ResumeParked(at) \/ UNCHANGED <<att, nodes>>
    BY <1>3 DEF Delivered
  <2>3. SameMarks /\ SameCounts(nodes, nodes') /\ Completes(0, nodes, nodes')
    BY <2>1, <2>2, ResumeEffect, Still DEF SameMarks
  <2> QED BY <1>2, <2>1, <2>3, Still
<1>4. CASE Refused
  <2>1. at \in Ids /\ UNCHANGED <<nodes, retry>> /\ att' = [att EXCEPT ![at].closed = TRUE]
    BY <1>4, AtType DEF Refused
  <2> QED BY <1>2, <2>1, NoMark, Still, ZenonT(60)
<1>5. CASE ContinueAsNew
  <2>1. UNCHANGED <<nodes, att>>
    BY <1>5 DEF ContinueAsNew
  <2>2. retry' = [n \in Nodes |-> IF nodes[n].st = "COMPLETED" THEN NoRetry ELSE retry[n]]
    BY <1>5 DEF ContinueAsNew
  <2>3. \A n \in Nodes : retry[n].failed \in Nat /\ NoRetry.failed = 0
    BY DEF TypeOK, PlanTypes, RetryState, NoRetry
  <2>4. Fails(0, retry')
    BY <2>2, <2>3 DEF Fails
  <2> QED BY <1>2, <2>1, <2>4, Still DEF SameMarks
<1>6. CASE UNCHANGED <<nodes, retry, att>>
  BY <1>2, <1>6, Still DEF SameMarks
<1> QED BY <1>3, <1>4, <1>5, <1>6, ZenonT(60)
    DEF DrainDone, ScheduleDone, Derive, Flushed, Judge, CompletedFlushed, Rest, WakeUp, Close, LastFlushed,
        StartLeaving, LeavingPass, DrainMessageStays, DrainMessage

\* A proposal is taken up: the attempt has no verdict yet, and no handler is judging it.
LEMMA VerdictProposed ==
    ASSUME TypeOK, TypeOK', Verdicts, DrainCompletion
    PROVE  Verdicts'
<1> DEFINE a == Head(commands)[2]
<1>0. /\ a \in Ids /\ a[1] \in Nodes /\ att \in [Ids -> Attempt] /\ nodes \in [Nodes -> NodeState]
      /\ UNCHANGED <<retry, byPerson, open, finish>>
  BY HeadCompletion, ZenonT(60) DEF DrainCompletion, TypeOK, BookTypes, PlanTypes, handVars
<1>1. \/ UNCHANGED <<nodes, att, pc, at>>
      \/ /\ IsOpen(a) /\ att[a].verdict = "none"
         /\ att' = [att EXCEPT ![a].verdict = "verifying"] /\ nodes' = SetNode(nodes, a[1], "VERIFYING")
         /\ pc' = "VerifyProposal" /\ at' = a
  BY DEF DrainCompletion
<1> HIDE DEF a
<1>2. CASE UNCHANGED <<nodes, att, pc, at>>
  BY <1>0, <1>2, Still, VerdictFrame DEF SameMarks
<1>3. CASE /\ IsOpen(a) /\ att[a].verdict = "none"
           /\ att' = [att EXCEPT ![a].verdict = "verifying"] /\ nodes' = SetNode(nodes, a[1], "VERIFYING")
           /\ pc' = "VerifyProposal" /\ at' = a
  <2>1. /\ \A b \in Ids : b # a => att'[b] = att[b]
        /\ att'[a].verdict = "verifying" /\ att'[a].counted = att[a].counted
    BY <1>0, <1>3 DEF Attempt
  <2>2. Completes(0, nodes, nodes') /\ SameCounts(nodes, nodes') /\ Fails(0, retry')
    BY <1>0, <1>3, SetNodeCompletes, SetNodeCounts, Still DEF NodeStatuses
  <2>3. finish[a] # "verifying"
    BY <1>0, <1>3 DEF Verdicts, Judged
  <2>4. Judged'
    BY <1>0, <1>3, <2>1, <2>3 DEF Verdicts, Judged
  <2>5. \A b \in Ids : Starting(b)' => Starting(b)
    BY <1>3 DEF Starting
  <2>6. \A n \in Nodes : retry'[n].failed <= retry[n].failed /\ (nodes'[n].st = "COMPLETED" => nodes[n].st = "COMPLETED")
    BY <2>2 DEF Fails, Completes, Nodes
  <2>7. \A b \in Ids : att[b].verdict = "accepted" => att'[b].verdict = "accepted"
    BY <1>3, <2>1
  <2>8. \A b \in Ids : /\ att[b].counted => att'[b].counted
                       /\ \/ att'[b].counted = att[b].counted /\ att'[b].verdict = att[b].verdict
                          \/ IsOpen(b) \/ finish[b] # "idle"
    BY <1>3, <2>1
  <2> QED BY <1>0, <2>2, <2>4, <2>5, <2>6, <2>7, <2>8, VerdictStep
<1> QED BY <1>1, <1>2, <1>3

\* The verdict on a proposal.
LEMMA VerdictProposal ==
    ASSUME TypeOK, TypeOK', Verdicts, NEW ok \in BOOLEAN, SettleProposal(ok)
    PROVE  Verdicts'
<1>0. /\ at \in Ids /\ at[1] \in Nodes /\ at[2] \in 1..MaxNo /\ at = <<at[1], at[2]>> /\ pc = "VerifyProposal"
      /\ att \in [Ids -> Attempt] /\ att[at].counted \in BOOLEAN /\ nodes \in [Nodes -> NodeState]
      /\ UNCHANGED <<byPerson, open, finish>> /\ pc' = "Drain"
  BY AtType DEF SettleProposal, TypeOK, BookTypes, PlanTypes, handVars, Attempt
<1>1. CASE ~IsOpen(at)
  <2>1. UNCHANGED <<nodes, retry, att>>
    BY <1>1 DEF SettleProposal
  <2> QED BY <1>0, <2>1, Still, VerdictFrame DEF SameMarks
<1>2. CASE IsOpen(at)
  <2> DEFINE s == RetryOrBlock(nodes, at[1], att[at].counted, TRUE)
  <2>1. /\ att[at].verdict = "verifying" /\ finish[at] # "verifying"
    BY <1>0 DEF Verdicts, Judged
  <2>2. \/ ok /\ att' = [att EXCEPT ![at].verdict = "accepted"] /\ nodes' = Freeze(nodes, at[1]) /\ UNCHANGED retry
        \/ /\ att' = [att EXCEPT ![at].verdict = "rejected", ![at].counted = TRUE]
           /\ nodes' = s.nodes /\ retry' = s.retry
    BY <1>2, ZenonT(60) DEF SettleProposal, Apply
  <2>3. /\ \A b \in Ids : b # at => att'[b] = att[b]
        /\ att[at].counted => att'[at].counted
    BY <1>0, <2>2, ZenonT(60) DEF Attempt
  <2>4. Judged'
    BY <1>0, <2>1, <2>3 DEF Verdicts, Judged
  <2>5. \A b \in Ids : ~Starting(b)'
    BY <1>0 DEF Starting
  <2>6. /\ \A b \in Ids : att[b].verdict = "accepted" => att'[b].verdict = "accepted"
        /\ \A b \in Ids : att[b].counted => att'[b].counted
        /\ \A b \in Ids : \/ att'[b].counted = att[b].counted /\ att'[b].verdict = att[b].verdict
                          \/ IsOpen(b) \/ finish[b] # "idle"
    BY <1>2, <2>1, <2>3
  <2>7. CASE ok /\ att' = [att EXCEPT ![at].verdict = "accepted"] /\ nodes' = Freeze(nodes, at[1]) /\ UNCHANGED retry
    <3>1. Completes(at[1], nodes, nodes') /\ SameCounts(nodes, nodes') /\ Fails(0, retry')
      BY <1>0, <2>7, FreezeCompletes, SetNodeCounts, Still DEF NodeStatuses
    <3>2. att'[at].verdict = "accepted"
      BY <1>0, <2>7 DEF Attempt
    <3>3. \A n \in Nodes : /\ retry'[n].failed <= retry[n].failed
                           /\ nodes'[n].st = "COMPLETED" => \/ nodes[n].st = "COMPLETED"
                                                            \/ \E i \in 1..MaxNo : att'[<<n, i>>].verdict = "accepted"
      BY <1>0, <3>1, <3>2 DEF Completes, Fails, Nodes
    <3> QED BY <1>0, <2>4, <2>5, <2>6, <3>1, <3>3, VerdictStep, ZenonT(60)
  <2>8. CASE /\ att' = [att EXCEPT ![at].verdict = "rejected", ![at].counted = TRUE]
             /\ nodes' = s.nodes /\ retry' = s.retry
    <3>1. Completes(0, nodes, nodes') /\ SameCounts(nodes, nodes') /\ Fails(IF att[at].counted THEN 0 ELSE at[1], retry')
      BY <1>0, <2>8, RetryOrBlockEffect, SettlementCounts, ZenonT(60)
    <3>2. att'[at].counted
      BY <1>0, <2>8 DEF Attempt
    <3>3. \A n \in Nodes : nodes'[n].st = "COMPLETED" => nodes[n].st = "COMPLETED"
      BY <3>1, SMTT(60) DEF Completes, Nodes
    <3>4. \A n \in Nodes : \/ retry'[n].failed <= retry[n].failed
                           \/ /\ retry'[n].failed = retry[n].failed + 1
                              /\ \E i \in 1..MaxNo : ~att[<<n, i>>].counted /\ att'[<<n, i>>].counted
      BY <1>0, <3>1, <3>2 DEF Fails, Nodes
    <3> QED BY <1>0, <2>4, <2>5, <2>6, <3>1, <3>3, <3>4, VerdictStep
  <2> QED BY <2>2, <2>7, <2>8, ZenonT(60)
<1> QED BY <1>1, <1>2

\* A child is started for the node's next number.
LEMMA VerdictStart ==
    ASSUME TypeOK, TypeOK', Verdicts, NEW n \in Nodes, ScheduleNode(n)
    PROVE  Verdicts'
<1>0. UNCHANGED <<nodes, retry, byPerson, open, att, finish>>
  BY DEF ScheduleNode, planVars, bookVars, handVars
<1>1. CASE UNCHANGED <<pc, at>>
  BY <1>0, <1>1, Still, VerdictFrame DEF SameMarks
<1>2. CASE pc' = "StartChild" /\ at' = <<n, nodes[n].count + 1>>
  <2>1. Numbered'
    BY <1>0, <1>2 DEF Verdicts, Numbered, Starting, IsOpen
  <2>2. Judged'
    BY <1>0, <1>2 DEF Verdicts, Judged
  <2>3. CountedOnce' /\ CompletedOnlyVerified'
    BY <1>0 DEF Verdicts, CountedOnce, CompletedOnlyVerified
  <2> QED BY <2>1, <2>2, <2>3 DEF Verdicts
<1> QED BY <1>1, <1>2 DEF ScheduleNode

\* The attempt is entered in the books, under a number that bears no mark yet.
LEMMA VerdictEnter ==
    ASSUME TypeOK, Verdicts, AttemptStarted
    PROVE  Verdicts'
<1>0. /\ open \in [Nodes -> 0..MaxNo] /\ nodes \in [Nodes -> NodeState] /\ att \in [Ids -> Attempt]
      /\ \A n \in Nodes : nodes[n].count \in Nat
  BY LifecycleConstants DEF TypeOK, BookTypes, PlanTypes, NodeState
<1>1. /\ at \in Ids /\ at[1] \in Nodes /\ at[2] \in 1..MaxNo /\ at = <<at[1], at[2]>> /\ Starting(at)
      /\ UNCHANGED <<finish, retry, byPerson>> /\ pc' = "Schedule"
  BY AtType DEF AttemptStarted, Starting, handVars
<1>2. at[2] = nodes[at[1]].count + 1
  BY <1>1 DEF Verdicts, Numbered
<1>3. ~att[at].counted /\ att[at].verdict = "none" /\ finish[at] = "idle"
  <2>1. ~(at[2] <= nodes[at[1]].count)
    BY <1>0, <1>1, <1>2
  <2> QED BY <1>1, <2>1 DEF Verdicts, Numbered
<1>4. /\ open' = [open EXCEPT ![at[1]] = at[2]]
      /\ \A n \in Nodes : nodes'[n].count = IF n = at[1] THEN at[2] ELSE nodes[n].count
      /\ \A n \in Nodes : nodes'[n].st = IF n = at[1] THEN "RUNNING" ELSE nodes[n].st
      /\ att' = [att EXCEPT ![at] = NewAttempt]
  BY <1>0, <1>1 DEF AttemptStarted, NodeState
<1>5. SameMarks
  <2>1. NewAttempt.counted = FALSE /\ NewAttempt.verdict = "none"
    BY DEF NewAttempt
  <2>2. att[at].counted = FALSE
    BY <1>0, <1>1, <1>3 DEF Attempt
  <2> QED BY <1>0, <1>1, <1>3, <1>4, <2>1, <2>2, ZenonT(60) DEF SameMarks
<1>6. Numbered'
  <2> SUFFICES ASSUME NEW b \in Ids,
                      IsOpen(b)' \/ finish'[b] # "idle" \/ att'[b].counted \/ att'[b].verdict # "none"
               PROVE  b[2] <= nodes'[b[1]].count
    BY <1>1 DEF Numbered, Starting
  <2>1. b[1] \in Nodes /\ b[2] \in 1..MaxNo
    BY IdParts
  <2>2. CASE b = at
    BY <1>1, <1>4, <2>2
  <2>3. CASE b # at
    <3>1. IsOpen(b)' => IsOpen(b)
      BY <1>0, <1>1, <1>4, <2>1, <2>3, IdParts DEF IsOpen
    <3>2. b[2] <= nodes[b[1]].count
      BY <1>1, <1>5, <3>1 DEF SameMarks, Verdicts, Numbered
    <3> QED BY <1>0, <1>1, <1>2, <1>4, <2>1, <3>2
  <2> QED BY <2>2, <2>3
<1>7. Judged'
  BY <1>1, <1>5 DEF SameMarks, Verdicts, Judged
<1>8. CountedOnce'
  <2>1. \A n \in Nodes : {i \in 1..MaxNo : att'[<<n, i>>].counted} = {i \in 1..MaxNo : att[<<n, i>>].counted}
    BY <1>5 DEF SameMarks, Ids
  <2> QED BY <1>1, <2>1 DEF Verdicts, CountedOnce
<1>9. CompletedOnlyVerified'
  BY <1>1, <1>4, <1>5 DEF SameMarks, Ids, Verdicts, CompletedOnlyVerified
<1> QED BY <1>6, <1>7, <1>8, <1>9 DEF Verdicts

\* An attempt is settled with the marks it has, or with the verdict it is given now.
LEMMA VerdictSettled ==
    ASSUME TypeOK, TypeOK', Verdicts, NEW a \in Ids, NEW outcome \in Outcomes, NEW rejected \in BOOLEAN,
           NEW spent \in BOOLEAN, NEW ended \in Attempt, ended.counted = att[a].counted,
           SettleAttempt(a, outcome, rejected, spent, ended),
           UNCHANGED <<pc, at, byPerson>>, IsOpen(a),
           \A b \in Ids : b # a => finish'[b] = finish[b],
           finish'[a] # "idle" => finish[a] # "idle",
           Judged',
           att[a].verdict = "accepted" => ended.verdict = "accepted",
           ~rejected /\ outcome = "completed" /\ ~spent /\ nodes[a[1]].st # "BLOCKED" => ended.verdict = "accepted"
    PROVE  Verdicts'
<1> DEFINE ends    == ~rejected /\ outcome = "completed" /\ ~spent /\ nodes[a[1]].st # "BLOCKED"
           charged == (rejected \/ outcome \in {"failed", "fatal"}) /\ ~att[a].counted
<1>0. a[1] \in Nodes /\ a[2] \in 1..MaxNo /\ a = <<a[1], a[2]>>
  BY IdParts
<1>1. /\ Completes(IF ends THEN a[1] ELSE 0, nodes, nodes')
      /\ Fails(IF charged THEN a[1] ELSE 0, retry')
      /\ SameCounts(nodes, nodes')
      /\ \A n \in Nodes : open'[n] = open[n] \/ open'[n] = 0
      /\ \A b \in Ids : b # a => att'[b] = att[b]
      /\ att'[a].counted = (att[a].counted \/ rejected \/ outcome \in {"failed", "fatal"})
      /\ att'[a].verdict = ended.verdict
  BY SettleEffect, SMTT(60)
<1>2. \A b \in Ids : Starting(b)' => Starting(b)
  BY DEF Starting
<1>3. \A b \in Ids : finish'[b] # "idle" => finish[b] # "idle" \/ IsOpen(b)
  OBVIOUS
<1>4. /\ \A b \in Ids : att[b].verdict = "accepted" => att'[b].verdict = "accepted"
      /\ \A b \in Ids : att[b].counted => att'[b].counted
      /\ \A b \in Ids : \/ att'[b].counted = att[b].counted /\ att'[b].verdict = att[b].verdict
                        \/ IsOpen(b) \/ finish[b] # "idle"
  BY <1>1, ZenonT(60)
<1>5. ends => att'[a].verdict = "accepted"
  BY <1>1
<1>6. charged => ~att[a].counted /\ att'[a].counted
  BY <1>1, ZenonT(60)
<1> HIDE DEF ends, charged
<1>7. \A n \in Nodes : nodes'[n].st = "COMPLETED" => \/ nodes[n].st = "COMPLETED"
                                                     \/ \E i \in 1..MaxNo : att'[<<n, i>>].verdict = "accepted"
  BY <1>0, <1>1, <1>5 DEF Completes, Nodes
<1>8. \A n \in Nodes : \/ retry'[n].failed <= retry[n].failed
                       \/ /\ retry'[n].failed = retry[n].failed + 1
                          /\ \E i \in 1..MaxNo : ~att[<<n, i>>].counted /\ att'[<<n, i>>].counted
  BY <1>0, <1>1, <1>6 DEF Fails, Nodes
<1> QED BY <1>1, <1>2, <1>3, <1>4, <1>7, <1>8, VerdictStep

\* A report is handled: dropped, parked, settled at once or put to the verification.
LEMMA VerdictReport ==
    ASSUME TypeOK, TypeOK', Verdicts, NEW a \in Ids, NEW spent \in BOOLEAN,
           ReportDropped(a) \/ AttemptParked(a) \/ AttemptFinished(a, spent) \/ AttemptToVerify(a)
    PROVE  Verdicts'
<1>0. /\ a[1] \in Nodes /\ nodes \in [Nodes -> NodeState] /\ att \in [Ids -> Attempt] /\ att[a] \in Attempt
      /\ finish \in [Ids -> {"idle", "awaitVerdict", "verifying"}]
  BY IdParts DEF TypeOK, PlanTypes, BookTypes, HandTypes
<1>1. Handles(a) /\ UNCHANGED <<pc, at, byPerson>>
  BY DEF ReportDropped, AttemptParked, AttemptFinished, AttemptToVerify, Handles, loopVars
<1>2. CASE ReportDropped(a)
  BY <1>1, <1>2, Still, VerdictFrame DEF ReportDropped, bookVars, SameMarks
<1>3. CASE AttemptParked(a)
  <2>1. /\ UNCHANGED <<retry, open, finish>> /\ \E x : att' = [att EXCEPT ![a].st = x]
        /\ nodes' = SetNode(nodes, a[1], "AWAITING_APPROVAL") \/ nodes' = SetNode(nodes, a[1], "AWAITING_INPUT")
    BY <1>3, ZenonT(60) DEF AttemptParked
  <2>2. SameMarks
    BY <2>1, NoMark, ZenonT(60)
  <2>3. Completes(0, nodes, nodes') /\ SameCounts(nodes, nodes')
    BY <1>0, <2>1, SetNodeCompletes, SetNodeCounts DEF NodeStatuses
  <2> QED BY <1>1, <2>1, <2>2, <2>3, Still, VerdictFrame
<1>4. CASE AttemptFinished(a, spent)
  <2> DEFINE outcome  == Head(mail[a])
             rejected == outcome = "completed" /\ att[a].verdict = "rejected"
             ended    == EndedAs(a, outcome)
  <2>1. /\ outcome \in Outcomes /\ rejected \in BOOLEAN /\ IsOpen(a) /\ UNCHANGED finish
    BY <1>1, <1>4, HandlesTyping DEF AttemptFinished, Parks, Report
  <2>2. /\ ended \in Attempt /\ ended.counted = att[a].counted /\ ended.verdict = att[a].verdict
    BY <1>0, <2>1, ZenonT(60) DEF EndedAs, Attempt
  <2>3. ~rejected /\ outcome = "completed" /\ ~spent /\ nodes[a[1]].st # "BLOCKED" => ended.verdict = "accepted"
    BY <1>4, <2>2 DEF AttemptFinished
  <2>4. \/ MarkAttemptCancelled(a) /\ att' = [att EXCEPT ![a] = ended]
        \/ SettleAttempt(a, outcome, rejected, spent, ended)
    BY <1>4 DEF AttemptFinished
  <2> HIDE DEF outcome, rejected, ended
  <2>5. CASE MarkAttemptCancelled(a) /\ att' = [att EXCEPT ![a] = ended]
    <3>1. SameMarks
      BY <1>0, <2>2, <2>5 DEF SameMarks
    <3> QED BY <1>1, <2>1, <2>5, <3>1, MarkEffect, VerdictFrame
  <2>6. CASE SettleAttempt(a, outcome, rejected, spent, ended)
    <3>1. \A b \in Ids : att'[b].verdict = att[b].verdict
      BY <2>1, <2>2, <2>6, SettleEffect, SMTT(60)
    <3>2. Judged'
      BY <1>1, <2>1, <3>1 DEF Verdicts, Judged
    <3> QED BY <1>1, <2>1, <2>2, <2>3, <2>6, <3>2, VerdictSettled
  <2> QED BY <2>4, <2>5, <2>6
<1>5. CASE AttemptToVerify(a)
  <2> DEFINE ended == [EndedAs(a, "completed") EXCEPT !.verdict = "verifying"]
  <2>1. /\ IsOpen(a) /\ att[a].verdict \in {"verifying", "none"} /\ UNCHANGED <<retry, open>>
        /\ att' = [att EXCEPT ![a] = ended]
        /\ finish' = [finish EXCEPT ![a] = IF att[a].verdict = "verifying" THEN "awaitVerdict" ELSE "verifying"]
        /\ nodes' = nodes \/ nodes' = SetNode(nodes, a[1], "VERIFYING")
    BY <1>5 DEF AttemptToVerify
  <2>2. ended.verdict = "verifying" /\ ended.counted = att[a].counted
    BY <1>0 DEF EndedAs, Attempt
  <2> HIDE DEF ended
  <2>3. /\ \A b \in Ids : b # a => att'[b] = att[b] /\ finish'[b] = finish[b]
        /\ att'[a].verdict = "verifying" /\ att'[a].counted = att[a].counted
        /\ finish'[a] = "verifying" => att[a].verdict # "verifying"
    BY <1>0, <2>1, <2>2
  <2>4. Completes(0, nodes, nodes') /\ SameCounts(nodes, nodes') /\ Fails(0, retry')
    BY <1>0, <2>1, SetNodeCompletes, SetNodeCounts, Still DEF NodeStatuses
  <2>5. Judged'
    BY <1>1, <2>3 DEF Verdicts, Judged
  <2>6. \A b \in Ids : Starting(b)' => Starting(b)
    BY <1>1 DEF Starting
  <2>7. \A n \in Nodes : retry'[n].failed <= retry[n].failed /\ (nodes'[n].st = "COMPLETED" => nodes[n].st = "COMPLETED")
    BY <2>4 DEF Fails, Completes, Nodes
  <2>8. /\ \A b \in Ids : att[b].verdict = "accepted" => att'[b].verdict = "accepted"
        /\ \A b \in Ids : att[b].counted => att'[b].counted
        /\ \A b \in Ids : \/ att'[b].counted = att[b].counted /\ att'[b].verdict = att[b].verdict
                          \/ IsOpen(b) \/ finish[b] # "idle"
        /\ \A b \in Ids : finish'[b] # "idle" => finish[b] # "idle" \/ IsOpen(b)
    BY <2>1, <2>3
  <2> QED BY <1>1, <2>1, <2>4, <2>5, <2>6, <2>7, <2>8, VerdictStep, ZenonT(60)
<1> QED BY <1>2, <1>3, <1>4, <1>5

\* The verification of a completed attempt is answered: it was the only one going on for it.
LEMMA VerdictAnswer ==
    ASSUME TypeOK, TypeOK', Verdicts, NEW a \in Ids, NEW ok \in BOOLEAN, NEW spent \in BOOLEAN,
           AttemptVerified(a, ok, spent)
    PROVE  Verdicts'
<1> DEFINE verdict == IF ok THEN "accepted" ELSE "rejected"
           ended   == [att[a] EXCEPT !.verdict = verdict]
<1>0. /\ a[1] \in Nodes /\ att \in [Ids -> Attempt] /\ att[a] \in Attempt
      /\ finish \in [Ids -> {"idle", "awaitVerdict", "verifying"}]
  BY IdParts DEF TypeOK, PlanTypes, BookTypes, HandTypes
<1>1. /\ finish[a] = "verifying" \/ (finish[a] = "awaitVerdict" /\ att[a].verdict = verdict)
      /\ finish' = [finish EXCEPT ![a] = "idle"] /\ UNCHANGED <<pc, at, byPerson>>
  BY DEF AttemptVerified, loopVars
<1>2. \/ IsOpen(a) /\ SettleAttempt(a, "completed", ~ok, spent, ended)
      \/ /\ att' = [att EXCEPT ![a].verdict = verdict]
         /\ MarkAttemptCancelled(a) \/ UNCHANGED <<open, nodes, retry>>
  BY DEF AttemptVerified
<1>3. ended \in Attempt /\ ended.verdict = verdict /\ ended.counted = att[a].counted
  BY <1>0 DEF Attempt
<1>4. att[a].verdict \in {"verifying", verdict}
  BY <1>1 DEF Verdicts, Judged
<1>5. ~(pc = "VerifyProposal" /\ at = a)
  BY <1>1 DEF Verdicts, Judged
<1>6. /\ \A b \in Ids : b # a => att'[b] = att[b] /\ finish'[b] = finish[b]
      /\ att'[a].verdict = verdict /\ (att[a].counted => att'[a].counted) /\ finish'[a] = "idle"
  <2>1. CASE SettleAttempt(a, "completed", ~ok, spent, ended)
    <3> DEFINE rejected == ~ok
    <3> HIDE DEF ended, verdict
    <3>1. "completed" \in Outcomes /\ rejected \in BOOLEAN /\ SettleAttempt(a, "completed", rejected, spent, ended)
      BY <2>1 DEF Outcomes
    <3> HIDE DEF rejected
    <3>2. /\ \A b \in Ids : b # a => att'[b] = att[b]
          /\ att'[a].counted = (att[a].counted \/ rejected \/ "completed" \in {"failed", "fatal"})
          /\ att'[a].verdict = ended.verdict
      BY <1>3, <3>1, SettleEffect, SMTT(60)
    <3> QED BY <1>0, <1>1, <1>3, <3>2, ZenonT(60)
  <2>2. CASE att' = [att EXCEPT ![a].verdict = verdict]
    BY <1>0, <1>1, <2>2 DEF Attempt
  <2> QED BY <1>2, <2>1, <2>2
<1>7. Judged'
  BY <1>1, <1>5, <1>6 DEF Verdicts, Judged
<1>8. CASE IsOpen(a) /\ SettleAttempt(a, "completed", ~ok, spent, ended)
  <2>1. (att[a].verdict = "accepted" => ended.verdict = "accepted") /\ (~(~ok) => ended.verdict = "accepted")
    BY <1>3, <1>4
  <2> HIDE DEF ended, verdict
  <2>2. "completed" \in Outcomes /\ (~ok) \in BOOLEAN
    BY DEF Outcomes
  <2> QED BY <1>1, <1>3, <1>6, <1>7, <1>8, <2>1, <2>2, VerdictSettled, ZenonT(60)
<1>9. CASE /\ att' = [att EXCEPT ![a].verdict = verdict]
           /\ MarkAttemptCancelled(a) \/ UNCHANGED <<open, nodes, retry>>
  <2>1. /\ Completes(0, nodes, nodes') /\ Fails(0, retry') /\ SameCounts(nodes, nodes')
        /\ \A n \in Nodes : open'[n] = open[n] \/ open'[n] = 0
    BY <1>9, MarkEffect, Still
  <2>2. \A b \in Ids : Starting(b)' => Starting(b)
    BY <1>1 DEF Starting
  <2>3. \A n \in Nodes : retry'[n].failed <= retry[n].failed /\ (nodes'[n].st = "COMPLETED" => nodes[n].st = "COMPLETED")
    BY <2>1 DEF Fails, Completes, Nodes
  <2>4. /\ \A b \in Ids : att[b].verdict = "accepted" => att'[b].verdict = "accepted"
        /\ \A b \in Ids : att[b].counted => att'[b].counted
        /\ \A b \in Ids : \/ att'[b].counted = att[b].counted /\ att'[b].verdict = att[b].verdict
                          \/ IsOpen(b) \/ finish[b] # "idle"
        /\ \A b \in Ids : finish'[b] # "idle" => finish[b] # "idle" \/ IsOpen(b)
    BY <1>1, <1>4, <1>6
  <2> QED BY <1>1, <1>7, <2>1, <2>2, <2>3, <2>4, VerdictStep, ZenonT(60)
<1> QED BY <1>2, <1>8, <1>9

\* A decision is answered and a fallback fires: neither judges anything.
LEMMA VerdictOther ==
    ASSUME TypeOK, TypeOK', Verdicts, NEW a \in Ids, DecisionSignalled(a) \/ CancelFallback(a)
    PROVE  Verdicts'
<1>0. /\ a[1] \in Nodes /\ nodes \in [Nodes -> NodeState] /\ att \in [Ids -> Attempt] /\ att[a] \in Attempt
      /\ UNCHANGED <<finish, byPerson, pc, at>>
  BY IdParts DEF TypeOK, PlanTypes, BookTypes, DecisionSignalled, CancelFallback, loopVars, handVars
<1>1. CASE DecisionSignalled(a)
  <2> DEFINE att1 == [att EXCEPT ![a].closed = @ \/ (deciding[a] = "gone" /\ IsOpen(a))]
  <2>1. /\ att' = att1 \/ att' = [att1 EXCEPT ![a].st = "RUNNING"]
        /\ nodes' = nodes \/ nodes' = SetNode(nodes, a[1], "RUNNING")
        /\ UNCHANGED <<open, retry>>
    BY <1>1 DEF DecisionSignalled
  <2>2. SameMarks
    <3>1. \A b \in Ids : b # a => att'[b] = att[b]
      BY <1>0, <2>1
    <3>2. \E x : \/ att'[a] = [att[a] EXCEPT !.closed = x]
                 \/ att'[a] = [[att[a] EXCEPT !.closed = x] EXCEPT !.st = "RUNNING"]
      BY <1>0, <2>1, ZenonT(60)
    <3>3. att'[a].counted = att[a].counted /\ att'[a].verdict = att[a].verdict
      BY <1>0, <3>2, ZenonT(60) DEF Attempt
    <3> QED BY <3>1, <3>3 DEF SameMarks
  <2>3. Completes(0, nodes, nodes') /\ SameCounts(nodes, nodes')
    BY <1>0, <2>1, SetNodeCompletes, SetNodeCounts, Still DEF NodeStatuses
  <2> QED BY <1>0, <2>1, <2>2, <2>3, Still, VerdictFrame
<1>2. CASE CancelFallback(a)
  <2>1. UNCHANGED att /\ (MarkAttemptCancelled(a) \/ UNCHANGED <<open, nodes, retry>>)
    BY <1>2 DEF CancelFallback
  <2> QED BY <1>0, <2>1, MarkEffect, Still, VerdictFrame DEF SameMarks
<1> QED BY <1>1, <1>2

\* What a command of an operator leaves: it cancels attempts, or unblocks nodes, and no more.
LEMMA ControlEffect ==
    ASSUME TypeOK, NEW c \in Controls, NEW action \in ActionNames, NEW rest \in SUBSET Ids, NEW said,
           ControlStep(c, action, rest, said)
    PROVE  /\ SameMarks /\ SameCounts(nodes, nodes') /\ Completes(0, nodes, nodes') /\ Fails(0, retry')
           /\ status' # status => control'[c].st = "done"
<1>0. /\ nodes \in [Nodes -> NodeState] /\ retry \in [Nodes -> RetryState] /\ control \in [Controls -> Handler]
  BY DEF TypeOK, PlanTypes, HandTypes
<1>1. CASE \E a \in ToCancel(action, rest) : att' = [att EXCEPT ![a].cancelling = TRUE] /\ UNCHANGED <<status, nodes, retry>>
  <2> PICK a \in ToCancel(action, rest) : att' = [att EXCEPT ![a].cancelling = TRUE] /\ UNCHANGED <<status, nodes, retry>>
    BY <1>1, ZenonT(60)
  <2>1. a \in Ids
    BY DEF ToCancel, ActionNames, Interrupts
  <2> QED BY <2>1, NoMark, Still, ZenonT(60)
<1>2. CASE /\ control' = [control EXCEPT ![c] = [st |-> "done", action |-> action, rest |-> {}, on |-> NoId]]
           /\ UnblockNodes \/ UNCHANGED <<nodes, retry>>
           /\ UNCHANGED att
  <2>1. control'[c].st = "done" /\ SameMarks
    BY <1>0, <1>2 DEF SameMarks
  <2>2. CASE UnblockNodes
    <3>1. /\ \A n \in Nodes : nodes'[n] = nodes[n] \/ nodes'[n] = [nodes[n] EXCEPT !.st = "READY"]
          /\ \A n \in Nodes : retry'[n] = retry[n] \/ retry'[n] = NoRetry
      BY <2>2 DEF UnblockNodes
    <3>2. SameCounts(nodes, nodes') /\ Completes(0, nodes, nodes')
      BY <1>0, <3>1, ZenonT(60) DEF SameCounts, Completes, NodeState
    <3>3. \A n \in Nodes : retry[n].failed \in Nat /\ NoRetry.failed = 0
      BY <1>0 DEF RetryState, NoRetry
    <3>4. Fails(0, retry')
      BY <3>1, <3>3 DEF Fails
    <3> QED BY <2>1, <3>2, <3>4
  <2>3. CASE UNCHANGED <<nodes, retry>>
    BY <2>1, <2>3, Still
  <2> QED BY <1>2, <2>2, <2>3
<1> QED BY <1>1, <1>2 DEF ControlStep

\* The commands of users, operators and agents: only complete_node completes, in a person's name.
LEMMA VerdictCommand ==
    ASSUME TypeOK, TypeOK', Verdicts,
           CommandStep \/ (\E n \in Nodes : BackoffOver(n)) \/ (\E c \in Controls : ControlGoesOn(c))
    PROVE  Verdicts'
<1> USE DEF planVars, bookVars, loopVars, handVars
<1>0. nodes \in [Nodes -> NodeState] /\ retry \in [Nodes -> RetryState] /\ \A n \in Nodes : retry[n].failed \in Nat
  BY DEF TypeOK, PlanTypes, RetryState
<1>1. CASE SendMessage
  BY <1>1, Still, VerdictFrame DEF SendMessage, SameMarks
<1>2. ASSUME NEW a \in Ids, ProposeCompletion(a)  PROVE Verdicts'
  BY <1>2, Still, VerdictFrame DEF ProposeCompletion, SameMarks
<1>3. ASSUME NEW a \in Ids, DeclareBlocked(a)  PROVE Verdicts'
  <2>1. nodes' = [nodes EXCEPT ![a[1]].st = "BLOCKED"] /\ UNCHANGED <<retry, byPerson, open, att, finish, pc, at>>
    BY <1>3 DEF DeclareBlocked
  <2>2. SameCounts(nodes, nodes') /\ Completes(0, nodes, nodes')
    BY <1>0, <2>1, IdParts DEF SameCounts, Completes, NodeState
  <2> QED BY <2>1, <2>2, Still, VerdictFrame DEF SameMarks
<1>4. ASSUME NEW a \in Ids, DecideApproval(a)  PROVE Verdicts'
  <2>1. UNCHANGED <<retry, byPerson, open, finish, pc, at>> /\ (ResumeParked(a) \/ UNCHANGED <<att, nodes>>)
    BY <1>4 DEF DecideApproval
  <2>2. SameMarks /\ SameCounts(nodes, nodes') /\ Completes(0, nodes, nodes')
    BY <2>1, ResumeEffect, Still DEF SameMarks
  <2> QED BY <2>1, <2>2, Still, VerdictFrame
<1>5. ASSUME NEW n \in Nodes, CompleteNode(n)  PROVE Verdicts'
  <2>1. /\ nodes' = Freeze(nodes, n) /\ retry' = [retry EXCEPT ![n] = NoRetry] /\ byPerson' = byPerson \cup {n}
        /\ UNCHANGED <<open, att, finish, pc, at>>
    BY <1>5, ZenonT(60) DEF CompleteNode
  <2>2. SameCounts(nodes, nodes') /\ Completes(n, nodes, nodes')
    BY <1>0, <2>1, FreezeCompletes, SetNodeCounts DEF NodeStatuses
  <2>3. \A m \in Nodes : retry'[m].failed <= retry[m].failed
    <3>1. \A m \in Nodes : retry'[m] = retry[m] \/ retry'[m] = NoRetry
      BY <1>0, <2>1
    <3>2. NoRetry.failed = 0
      BY DEF NoRetry
    <3> QED BY <1>0, <3>1, <3>2
  <2>4. \A m \in Nodes : nodes'[m].st = "COMPLETED" => nodes[m].st = "COMPLETED" \/ m \in byPerson'
    BY <2>1, <2>2 DEF Completes
  <2>5. Judged' /\ \A b \in Ids : Starting(b)' => Starting(b)
    BY <2>1 DEF Verdicts, Judged, Starting
  <2> QED BY <2>1, <2>2, <2>3, <2>4, <2>5, VerdictStep
<1>6. ASSUME NEW n \in Nodes, BackoffOver(n)  PROVE Verdicts'
  <2>1. retry' = [retry EXCEPT ![n].waiting = FALSE] /\ UNCHANGED <<nodes, byPerson, open, att, finish, pc, at>>
    BY <1>6 DEF BackoffOver
  <2>2. \A m \in Nodes : retry'[m].failed = retry[m].failed
    BY <1>0, <2>1 DEF RetryState
  <2>3. Fails(0, retry')
    BY <1>0, <2>2 DEF Fails
  <2> QED BY <2>1, <2>3, Still, VerdictFrame DEF SameMarks
<1>7. ASSUME NEW c \in Controls, NEW action \in ActionNames, NEW rest \in SUBSET Ids, NEW said,
             ControlStep(c, action, rest, said), UNCHANGED <<byPerson, open, finish, pc, at>>
      PROVE  Verdicts'
  BY <1>7, ControlEffect, VerdictFrame, ZenonT(60)
<1>8. ASSUME NEW c \in Controls, NEW action \in ControlActions, ControlArrives(c, action)  PROVE Verdicts'
  <2>1. /\ action \in ActionNames /\ OpenIds \in SUBSET Ids
        /\ ControlStep(c, action, OpenIds, action = "interrupt") /\ UNCHANGED <<byPerson, open, finish, pc, at>>
    BY <1>8, LifecycleConstants, ZenonT(60) DEF ControlArrives, OpenIds
  <2> QED BY <1>7, <2>1
<1>9. ASSUME NEW c \in Controls, ControlGoesOn(c)  PROVE Verdicts'
  <2>1. control[c].action \in ActionNames /\ control[c].rest \in SUBSET Ids
    BY DEF TypeOK, HandTypes, Handler
  <2>2. ControlStep(c, control[c].action, control[c].rest, FALSE) /\ UNCHANGED <<byPerson, open, finish, pc, at>>
    BY <1>9, ZenonT(60) DEF ControlGoesOn
  <2> QED BY <1>7, <2>1, <2>2, ZenonT(60)
<1> QED BY <1>1, <1>2, <1>3, <1>4, <1>5, <1>6, <1>8, <1>9, ZenonT(60) DEF CommandStep

\* Nothing is counted, judged or complete when the task starts.
LEMMA VerdictInit == Init => Verdicts
<1> SUFFICES ASSUME Init  PROVE Verdicts
  OBVIOUS
<1>1. /\ pc = "Drain" /\ \A n \in Nodes : open[n] = 0
      /\ \A a \in Ids : finish[a] = "idle" /\ att[a] = NewAttempt
      /\ \A n \in Nodes : retry[n] = NoRetry
  BY DEF Init
<1>2. \A n \in Nodes : nodes[n].st # "COMPLETED"
  <2> DEFINE blank == [n \in Nodes |-> [st |-> "PENDING", frozen |-> FALSE, count |-> 0, cur |-> 0]]
  <2>1. \A n \in Nodes : nodes[n] = blank[n] \/ nodes[n] = [blank[n] EXCEPT !.st = "READY"]
    BY DEF Init, RefreshReadiness
  <2> QED BY <2>1
<1>3. ~NewAttempt.counted /\ NewAttempt.verdict = "none" /\ NoRetry.failed = 0
  BY DEF NewAttempt, NoRetry
<1>4. Numbered
  BY <1>1, <1>3, IdParts DEF Numbered, IsOpen, Starting
<1>5. Judged
  BY <1>1 DEF Judged
<1>6. CountedOnce
  <2> SUFFICES ASSUME NEW n \in Nodes  PROVE retry[n].failed <= Cardinality(Charged(n))
    BY DEF CountedOnce, Charged
  <2>1. Cardinality(Charged(n)) \in Nat
    BY Numbers, ZenonT(60) DEF Charged
  <2> QED BY <1>1, <1>3, <2>1
<1>7. CompletedOnlyVerified
  BY <1>2 DEF CompletedOnlyVerified
<1> QED BY <1>4, <1>5, <1>6, <1>7 DEF Verdicts

\* Every step leaves the verdicts standing.
LEMMA VerdictNext == TypeOK /\ Verdicts /\ [Next]_vars => Verdicts'
<1> SUFFICES ASSUME TypeOK, Verdicts, [Next]_vars  PROVE Verdicts'
  OBVIOUS
<1>0. TypeOK'
  BY NextTyping
<1>1. CASE MainStep
  BY <1>0, <1>1, VerdictLoop, VerdictProposed, VerdictProposal, VerdictStart, VerdictEnter, ZenonT(60) DEF MainStep
<1>2. ASSUME NEW a \in Ids, HandlerStep(a)  PROVE Verdicts'
  BY <1>0, <1>2, VerdictReport, VerdictAnswer, VerdictOther, ZenonT(60) DEF HandlerStep
<1>3. ASSUME UNCHANGED <<planVars, bookVars, loopVars, handVars>>  PROVE Verdicts'
  BY <1>0, <1>3, Still, VerdictFrame DEF planVars, bookVars, loopVars, handVars, SameMarks
<1>4. ASSUME NEW a \in Ids, ChildNext(a)  PROVE Verdicts'
  <2>1. UNCHANGED <<planVars, bookVars, loopVars, handVars>>
    BY <1>4, ZenonT(60) DEF ChildNext, ChildEnds, ChildFinishes, ChildParks, ChildCancelled, ChildLost, ChildStep
  <2> QED BY <1>3, <2>1
<1>5. CASE UNCHANGED vars
  BY <1>3, <1>5 DEF vars
<1> QED BY <1>0, <1>1, <1>2, <1>4, <1>5, VerdictCommand DEF Next

\* The inductive invariant holds throughout.
LEMMA VerdictsStand == Spec => []Verdicts
<1>1. Init => Verdicts
  BY VerdictInit
<1>2. TypeOK /\ Verdicts /\ [Next]_vars => Verdicts'
  BY VerdictNext
<1> QED BY <1>1, <1>2, TypeCorrect, PTL DEF Spec

\* For any plan and any bounds, an attempt is held against its node at most once, however its proposal,
\* its report, its cancel and the verification of its work are interleaved, duplicated or late
\* (task_retry._retry_or_block, with the counted mark of _settle_proposal and _finish_attempt).
THEOREM FailuresCountedOnce == Spec => []CountedOnce
<1>1. Verdicts => CountedOnce
  BY DEF Verdicts
<1> QED BY <1>1, VerdictsStand, PTL

\* For any plan and any bounds, a node is complete only when some attempt of it passed the verification
\* or a person completed it: no report, dropped verdict, Continue-As-New or restart of the node
\* completes it otherwise, and no later verdict takes the accepted one back (_settle_proposal,
\* _settle_node, complete_node).
THEOREM CompletionsVerified == Spec => []CompletedOnlyVerified
<1>1. Verdicts => CompletedOnlyVerified
  BY DEF Verdicts
<1> QED BY <1>1, VerdictsStand, PTL

\* What may end a pause or a takeover.
HoldEnds ==
    \/ \E c \in Controls : control[c].st # "done" /\ control'[c].st = "done"
    \/ status' = "PAUSED_NEEDS_REVIEW" /\ (\E n \in Nodes : nodes'[n].st = "BLOCKED") /\ retry' = retry

\* A step that ends a hold is the end of an operator's command, or an attempt that gave its node up.
LEMMA HoldNext ==
    ASSUME TypeOK, Next, status \in {"PAUSED", "TAKEN_OVER"}, status' # status
    PROVE  HoldEnds
<1> USE DEF taskVars, planVars, bookVars, loopVars, handVars, childVars
<1>0. status \in Halted /\ status \in OperatorHeld
  BY DEF Halted, OperatorHeld
<1>1. ~MainStep
  <2>1. \A ok \in BOOLEAN : ~SettleProposal(ok)
    <3> SUFFICES ASSUME NEW ok \in BOOLEAN, SettleProposal(ok)  PROVE FALSE
      OBVIOUS
    <3>1. at[1] \in Nodes /\ at \in Ids /\ att[at].counted \in BOOLEAN
      BY AtType DEF SettleProposal, TypeOK, BookTypes, Attempt
    <3>2. status' = RetryOrBlock(nodes, at[1], att[at].counted, TRUE).status
      BY ZenonT(60) DEF SettleProposal, Apply
    <3> QED BY <1>0, <3>1, <3>2, RetryOrBlockEffect, ZenonT(60)
  <2>2. ~Derive /\ ~Judge
    BY <1>0 DEF Derive, DerivedStatus, Judge
  <2> QED BY <2>1, <2>2, ZenonT(60)
      DEF MainStep, DrainDone, DrainMessageStays, DrainMessage, Delivered, Refused, DrainCompletion,
          ScheduleNode, AttemptStarted, ScheduleDone, Flushed, CompletedFlushed, Rest, WakeUp, Close,
          LastFlushed, StartLeaving, LeavingPass, ContinueAsNew
<1>2. ASSUME NEW a \in Ids, NEW outcome \in Outcomes, NEW rejected \in BOOLEAN, NEW spent \in BOOLEAN,
             NEW ended \in Attempt, ended.counted = att[a].counted, SettleAttempt(a, outcome, rejected, spent, ended)
      PROVE  HoldEnds
  <2>1. status' = "PAUSED_NEEDS_REVIEW" /\ retry' = retry /\ nodes'[a[1]].st = "BLOCKED"
    BY <1>0, <1>2, SettleEffect
  <2> QED BY <2>1, IdParts DEF HoldEnds
<1>3. ASSUME NEW a \in Ids, HandlerStep(a)  PROVE HoldEnds
  <2>0. att[a] \in Attempt
    BY DEF TypeOK, BookTypes
  <2>1. ASSUME NEW spent \in BOOLEAN, AttemptFinished(a, spent)  PROVE HoldEnds
    <3> DEFINE outcome  == Head(mail[a])
               rejected == outcome = "completed" /\ att[a].verdict = "rejected"
               ended    == EndedAs(a, outcome)
    <3>1. outcome \in Outcomes /\ rejected \in BOOLEAN
      BY <2>1, HandlesTyping DEF AttemptFinished, Parks, Report
    <3>2. ended \in Attempt /\ ended.counted = att[a].counted
      BY <2>0, <3>1, ZenonT(60) DEF EndedAs, Attempt
    <3>3. MarkAttemptCancelled(a) \/ SettleAttempt(a, outcome, rejected, spent, ended)
      BY <2>1 DEF AttemptFinished
    <3> HIDE DEF outcome, rejected, ended
    <3> QED BY <1>2, <3>1, <3>2, <3>3, MarkEffect
  <2>2. ASSUME NEW ok \in BOOLEAN, NEW spent \in BOOLEAN, AttemptVerified(a, ok, spent)  PROVE HoldEnds
    <3> DEFINE ended    == [att[a] EXCEPT !.verdict = IF ok THEN "accepted" ELSE "rejected"]
               rejected == ~ok
    <3>1. "completed" \in Outcomes /\ rejected \in BOOLEAN /\ ended \in Attempt /\ ended.counted = att[a].counted
      BY <2>0 DEF Outcomes, Attempt
    <3>2. MarkAttemptCancelled(a) \/ SettleAttempt(a, "completed", rejected, spent, ended)
      BY <2>2 DEF AttemptVerified
    <3> HIDE DEF ended, rejected
    <3> QED BY <1>2, <3>1, <3>2, MarkEffect
  <2>3. CASE CancelFallback(a)
    BY <2>3, MarkEffect DEF CancelFallback
  <2>4. CASE ReportDropped(a) \/ AttemptParked(a) \/ AttemptToVerify(a) \/ DecisionSignalled(a)
    BY <2>4 DEF ReportDropped, AttemptParked, AttemptToVerify, DecisionSignalled
  <2> QED BY <1>3, <2>1, <2>2, <2>3, <2>4 DEF HandlerStep
<1>4. ASSUME NEW c \in Controls, NEW action \in ControlActions, ControlArrives(c, action)  PROVE HoldEnds
  <2>1. /\ action \in ActionNames /\ OpenIds \in SUBSET Ids /\ control[c].st = "new"
        /\ ControlStep(c, action, OpenIds, action = "interrupt")
    BY <1>4, LifecycleConstants DEF ControlArrives, OpenIds
  <2> QED BY <2>1, ControlEffect DEF HoldEnds
<1>5. ASSUME NEW c \in Controls, ControlGoesOn(c)  PROVE HoldEnds
  <2>1. /\ control[c].action \in ActionNames /\ control[c].rest \in SUBSET Ids /\ control[c].st = "busy"
        /\ ControlStep(c, control[c].action, control[c].rest, FALSE)
    BY <1>5, ZenonT(60) DEF TypeOK, HandTypes, Handler, ControlGoesOn
  <2> QED BY <2>1, ControlEffect, ZenonT(60) DEF HoldEnds
<1>6. ASSUME NEW a \in Ids, ChildNext(a)  PROVE HoldEnds
  BY <1>6, ZenonT(60) DEF ChildNext, ChildEnds, ChildFinishes, ChildParks, ChildCancelled, ChildLost, ChildStep
<1>7. ~SendMessage /\ ~(\E a \in Ids : ProposeCompletion(a) \/ DeclareBlocked(a) \/ DecideApproval(a))
      /\ ~(\E n \in Nodes : CompleteNode(n)) /\ ~(\E n \in Nodes : BackoffOver(n))
  BY ZenonT(60) DEF SendMessage, ProposeCompletion, DeclareBlocked, DecideApproval, CompleteNode, BackoffOver
<1> QED BY <1>1, <1>3, <1>4, <1>5, <1>6, <1>7, ZenonT(60) DEF Next, CommandStep

\* For any plan and any bounds, a pause and a takeover end only by an operator's command, or by the
\* review _settle_node asks for: no derived status, completed round or blocked retry undoes them
\* (run, _retry_or_block, control).
THEOREM HoldsAreKept == Spec => HeldStaysHeld
<1>1. TypeOK /\ [Next]_vars =>
        [(status \in {"PAUSED", "TAKEN_OVER"} /\ status' # status)
        => \/ \E c \in Controls : control[c].st # "done" /\ control'[c].st = "done"
           \/ status' = "PAUSED_NEEDS_REVIEW" /\ (\E n \in Nodes : nodes'[n].st = "BLOCKED") /\ retry' = retry]_vars
  BY HoldNext DEF HoldEnds
<1> QED BY <1>1, TypeCorrect, PTL DEF Spec, HeldStaysHeld
=============================================================================
