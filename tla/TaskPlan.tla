------------------------------ MODULE TaskPlan ------------------------------
(***************************************************************************)
(* The plan of a TaskWorkflow and everything that changes it: changes that *)
(* agents and people submit (plan_engine.apply), compaction, SOP stages    *)
(* that are compiled into nodes, the leader's reviews, follow-ups and      *)
(* mentions, approval nodes and retries.                                   *)
(*                                                                         *)
(* The workflow is one thread that gives way at an await: the main loop    *)
(* (`loop`) awaits the start of a child, the reading of an SOP and the     *)
(* flush of events, and updates and signals are handled in between.  What  *)
(* it holds is the record `task`; the operators below take such a record   *)
(* and return what the method of the same name leaves behind.              *)
(*                                                                         *)
(* A node's id is the seed of its deterministic id, a sequence of strings. *)
(* How attempts are proposed, cancelled and reported is TaskLifecycle's.   *)
(***************************************************************************)
EXTENDS Completion, FiniteSetsExt, SequencesExt, TLC

CONSTANTS
  Members,          \* the team beside its leader, a sequence of roles; a node of nobody ("") runs as the leader
  Mentions,         \* the messages people send: Mentions[m] are the members message m names
  Contract,         \* the completion contract of a node a person adds; an agent's has none
  StepContract,     \* the one of a SOP's step, verified by an agent besides
  Evidence,         \* what a completed attempt reports and what the checks find, each a [result, world] of Completion
  Sops,             \* the SOPs there are: steps [id ("" for none), linear (waits for the step before it), deps (ids), approval]
  Scopes,           \* bound: what may happen besides in one behaviour, each
                    \*   agent    what agents do to the plan: "create", "delete", "block_on", "unplannable"
                    \*   person   what people do to it: a SOP, "task", "timer", "event", "either", "checkpoint", "remove",
                    \*            "update", "link", "unlink", "block"
                    \*   commands how many such changes are composed
                    \*   sends    how often a change is delivered at most
                    \*   people   how often people control the task, complete a node or decide an approval
                    \*   messages how many messages they send
                    \*   fails    what may fail: "attempts" (and their checks), "reading" a SOP
                    \*   budget   what the task may spend (NoLimit when nothing is limited)
                    \*   grant    what people may grant on top, each time
  MaxOps,           \* PlanPolicy.max_ops
  MaxDepth,         \* nesting allowed
  MaxChain,         \* longest chain of dependencies allowed
  MaxNodes,         \* how many nodes reach PlanPolicy.max_serialized_bytes
  CompactAt,        \* how many reach PLAN_COMPACT_BYTES
  KeepRecent,       \* KEEP_RECENT_COMPLETED
  MaxConcurrency,   \* attempts at a time
  MaxReviewRounds,  \* Policy.max_review_rounds
  MaxTries,         \* retry.max_attempts
  MaxDedup          \* the dedup window

ASSUME PlanAssumption ==
  /\ \A m \in DOMAIN Mentions : Mentions[m] \subseteq ToSet(Members)
  /\ \A ref \in DOMAIN Sops : \A i \in DOMAIN Sops[ref] : Sops[ref][i].approval \in {"none", "before", "after"}
  /\ {MaxOps, MaxDepth, MaxChain, MaxNodes, CompactAt, KeepRecent, MaxConcurrency, MaxReviewRounds, MaxTries,
      MaxDedup} \subseteq Nat

VARIABLES
  task,    \* what the workflow holds
  loop,    \* where its main loop awaits, for which node, and the rest of the pass
  sent,    \* the plan changes composed, each with how often it may still be delivered
  people,  \* how much people did besides
  scope    \* the member of Scopes this behaviour stays in

vars == <<task, loop, sent, people, scope>>

Num == <<"1", "2", "3", "4", "5", "6", "7", "8", "9">>
Exploration == <<"x">>
NoNode == <<>>
Attempt(n, no) == n \o <<"att", Num[no]>>
Held == {"PAUSED", "PAUSED_NEEDS_REVIEW", "TAKEN_OVER"}
NoLimit == -1

\* `runs` is what the node runs: a member (or nobody, ""), a SOP, or what a wait node waits for.
NewNode(op, by) ==
  [type |-> op.type, status |-> "PENDING", frozen |-> FALSE, tries |-> 0, by |-> by, runs |-> op.runs, parent |-> op.parent,
   write |-> op.write, budget |-> NoLimit]

-----------------------------------------------------------------------------
(* plan_engine: one command is applied whole or not at all. *)

AddNode(id, type, runs, parent, deps, write) ==
  [op |-> "add", id |-> id, type |-> type, runs |-> runs, parent |-> parent, deps |-> deps, write |-> write]
OnNode(op, id) == [op |-> op, id |-> id]
Patch(id, budget) == [op |-> "update", id |-> id, budget |-> budget]
OnEdge(op, from, to) == [op |-> op, from |-> from, to |-> to]

\* The ids the command adds: they are known before its operations are applied.
Fresh(c) == {c.ops[i].id : i \in {j \in DOMAIN c.ops : c.ops[j].op = "add"}}

\* The checks of one operation, in their order; the first that fails names the code.
Gone(s, p, n) == n \notin DOMAIN s.nodes /\ n \in p.archived
Sees(c, p, n) == c.kind = "agent" /\ ~p.all => n \in p.visible
Fixed(s, n) == s.nodes[n].frozen \/ s.nodes[n].status = "COMPLETED"
\* Mutant: an agent may change anyone's node, started or not.
ForeignNever(s, c, n) == FALSE
Foreign(s, c, n) == c.kind = "agent" /\ (s.nodes[n].by # c.by \/ s.nodes[n].status \notin {"PENDING", "READY"})

apply_add(s, c, p, op) ==
  LET deps == {d \in op.deps : d \in DOMAIN s.nodes \/ d \in Fresh(c) \/ d \notin p.archived}
  IN CASE op.type = "sop_stage" /\ c.kind = "agent" -> [s EXCEPT !.code = "TYPE_NOT_ALLOWED"]
       [] op.id \in DOMAIN s.nodes -> [s EXCEPT !.code = "SCHEMA_INVALID"]
       [] \E d \in deps \ Fresh(c) : ~Sees(c, p, d) -> [s EXCEPT !.code = "VISIBILITY"]
       [] op.parent \notin Fresh(c) /\ Gone(s, p, op.parent) -> [s EXCEPT !.code = "FROZEN_NODE"]
       [] op.parent # NoNode /\ op.parent \notin Fresh(c) /\ ~Sees(c, p, op.parent) -> [s EXCEPT !.code = "VISIBILITY"]
       [] OTHER -> [s EXCEPT !.nodes = (op.id :> NewNode(op, c.by)) @@ @, !.order = Append(@, op.id),
                             !.edges = @ \cup {<<d, op.id>> : d \in deps}]

apply_update(s, c, p, op) ==
  CASE Gone(s, p, op.id) -> [s EXCEPT !.code = "FROZEN_NODE"]
    [] op.id \notin DOMAIN s.nodes -> [s EXCEPT !.code = "SCHEMA_INVALID"]
    [] Fixed(s, op.id) -> [s EXCEPT !.code = "FROZEN_NODE"]
    [] ~Sees(c, p, op.id) -> [s EXCEPT !.code = "VISIBILITY"]
    [] Foreign(s, c, op.id) -> [s EXCEPT !.code = "POLICY_DENIED"]
    [] OTHER -> [s EXCEPT !.nodes[op.id].budget = IF op.budget = NoLimit THEN @ ELSE op.budget]

apply_remove(s, c, p, op) ==
  CASE Gone(s, p, op.id) -> [s EXCEPT !.code = "FROZEN_NODE"]
    [] op.id \notin DOMAIN s.nodes -> [s EXCEPT !.code = "SCHEMA_INVALID"]
    [] Fixed(s, op.id) -> [s EXCEPT !.code = "FROZEN_NODE"]
    [] ~Sees(c, p, op.id) -> [s EXCEPT !.code = "VISIBILITY"]
    [] Foreign(s, c, op.id) -> [s EXCEPT !.code = "POLICY_DENIED"]
    [] \E e \in s.edges : e[1] = op.id /\ s.nodes[e[2]].frozen -> [s EXCEPT !.code = "FROZEN_NODE"]
    [] \E n \in DOMAIN s.nodes : s.nodes[n].parent = op.id -> [s EXCEPT !.code = "SCHEMA_INVALID"]
    [] OTHER -> [s EXCEPT !.nodes = Restrict(@, DOMAIN @ \ {op.id}), !.order = SelectSeq(@, LAMBDA n : n # op.id),
                          !.edges = {e \in @ : op.id \notin {e[1], e[2]}}]

apply_link(s, c, p, op) ==
  CASE Gone(s, p, op.to) -> [s EXCEPT !.code = "FROZEN_NODE"]
    [] Gone(s, p, op.from) -> s
    [] {op.from, op.to} \ DOMAIN s.nodes # {} -> [s EXCEPT !.code = "SCHEMA_INVALID"]
    [] s.nodes[op.to].frozen -> [s EXCEPT !.code = "FROZEN_NODE"]
    [] \E n \in {op.from, op.to} \ Fresh(c) : ~Sees(c, p, n) -> [s EXCEPT !.code = "VISIBILITY"]
    [] Foreign(s, c, op.to) -> [s EXCEPT !.code = "POLICY_DENIED"]
    [] OTHER -> [s EXCEPT !.edges = @ \cup {<<op.from, op.to>>}]

apply_unlink(s, c, p, op) ==
  CASE Gone(s, p, op.from) \/ Gone(s, p, op.to) -> [s EXCEPT !.code = "FROZEN_NODE"]
    [] {op.from, op.to} \ DOMAIN s.nodes # {} -> [s EXCEPT !.code = "SCHEMA_INVALID"]
    [] s.nodes[op.to].frozen \/ s.nodes[op.from].frozen -> [s EXCEPT !.code = "FROZEN_NODE"]
    [] ~(Sees(c, p, op.from) /\ Sees(c, p, op.to)) -> [s EXCEPT !.code = "VISIBILITY"]
    [] Foreign(s, c, op.to) -> [s EXCEPT !.code = "POLICY_DENIED"]
    [] OTHER -> [s EXCEPT !.edges = @ \ {<<op.from, op.to>>}]

apply_block(s, c, p, op) ==
  CASE op.id \notin DOMAIN s.nodes -> [s EXCEPT !.code = "SCHEMA_INVALID"]
    [] ~Sees(c, p, op.id) -> [s EXCEPT !.code = "VISIBILITY"]
    [] Fixed(s, op.id) -> [s EXCEPT !.code = "FROZEN_NODE"]
    [] c.kind = "agent" /\ op.id \notin p.activeNodes -> [s EXCEPT !.code = "POLICY_DENIED"]
    [] OTHER -> [s EXCEPT !.nodes[op.id].status = "BLOCKED"]

apply_op(s, c, p, op) ==
  CASE s.code # "ok" -> s
    [] op.op = "add" -> apply_add(s, c, p, op)
    [] op.op = "update" -> apply_update(s, c, p, op)
    [] op.op = "remove" -> apply_remove(s, c, p, op)
    [] op.op = "link" -> apply_link(s, c, p, op)
    [] op.op = "unlink" -> apply_unlink(s, c, p, op)
    [] op.op = "block" -> apply_block(s, c, p, op)

\* Kahn's algorithm by rounds: the nodes left that wait for none of the nodes left go; the rounds count the longest chain.
RECURSIVE Peel(_, _, _)
Peel(left, edges, rounds) ==
  LET sources == {n \in left : ~\E e \in edges : e[2] = n /\ e[1] \in left}
  IN CASE left = {} -> rounds - 1
       [] sources = {} -> -2
       [] OTHER -> Peel(left \ sources, edges, rounds + 1)

\* The length of a node's chain of parents; one that was compacted away counts, and ends it.
RECURSIVE Nesting(_, _, _)
Nesting(nodes, n, seen) ==
  LET parent == nodes[n].parent
  IN CASE parent = NoNode -> 0
       [] parent \in seen -> -1
       [] parent \notin DOMAIN nodes -> 1
       [] OTHER -> LET above == Nesting(nodes, parent, seen \cup {parent}) IN IF above < 0 THEN above ELSE above + 1

\* Only nodes that are new, or were moved, are judged by their nesting.
validate_nesting(s, p, previous) ==
  LET judged == {n \in DOMAIN s.nodes : s.nodes[n].parent # NoNode
                   /\ ~(n \in DOMAIN previous /\ previous[n].parent = s.nodes[n].parent)}
  IN CASE \E n \in judged : Nesting(s.nodes, n, {n}) < 0 -> "CYCLE"
       [] \E n \in judged : s.nodes[n].parent \notin DOMAIN s.nodes \cup p.archived -> "SCHEMA_INVALID"
       [] \E n \in judged : Nesting(s.nodes, n, {n}) > p.maxDepth -> "DEPTH_EXCEEDED"
       [] OTHER -> "ok"

\* What the unfinished nodes name adds up to no more than the task may spend.
validate_budget(s, p) ==
  LET named == {n \in DOMAIN s.nodes : s.nodes[n].status # "COMPLETED" /\ s.nodes[n].budget # NoLimit}
  IN IF p.maxBudget # NoLimit /\ MapThenSumSet(LAMBDA n : s.nodes[n].budget, named) > p.maxBudget THEN "BUDGET_EXCEEDED" ELSE "ok"

\* Mutant: nothing looks for a cycle.
ValidateGraphCyclic(s, p, previous) ==
  CASE \E e \in s.edges : {e[1], e[2]} \ DOMAIN s.nodes # {} -> "SCHEMA_INVALID"
    [] validate_nesting(s, p, previous) # "ok" -> validate_nesting(s, p, previous)
    [] Cardinality(DOMAIN s.nodes) > MaxNodes -> "TOO_MANY_OPS"
    [] OTHER -> validate_budget(s, p)

validate_graph(s, p, previous) ==
  LET chain == Peel(DOMAIN s.nodes, s.edges, 0)
  IN CASE \E e \in s.edges : {e[1], e[2]} \ DOMAIN s.nodes # {} -> "SCHEMA_INVALID"
       [] chain = -2 -> "CYCLE"
       [] chain > MaxChain -> "TOO_MANY_OPS"
       [] validate_nesting(s, p, previous) # "ok" -> validate_nesting(s, p, previous)
       [] Cardinality(DOMAIN s.nodes) > MaxNodes -> "TOO_MANY_OPS"
       [] OTHER -> validate_budget(s, p)

\* A refusal says why, and leaves the plan as it was.
reject(t, code) == [code |-> code, nodes |-> t.nodes, order |-> t.order, edges |-> t.edges]

\* All operations were applied to `done` and the graph is valid, or something was refused and nothing is.
Whole(t, p, done) ==
  LET code == IF done.code = "ok" THEN validate_graph(done, p, t.nodes) ELSE done.code
  IN IF code = "ok" THEN done ELSE reject(t, code)

\* Mutant: the base version is not compared.
ApplyToAnyVersion(t, c, p) ==
  LET start == [code |-> IF c.kind = "agent" /\ c.by \notin p.active THEN "STALE_ATTEMPT" ELSE "ok",
                nodes |-> t.nodes, order |-> t.order, edges |-> t.edges]
  IN Whole(t, p, FoldLeft(LAMBDA s, op : apply_op(s, c, p, op), start, c.ops))

\* The new nodes, their order and the new edges, or the code of the refusal.
apply(t, c, p) ==
  LET code == CASE c.base # t.version -> "VERSION_CONFLICT"
                [] Len(c.ops) > p.maxOps -> "TOO_MANY_OPS"
                [] c.kind = "agent" /\ c.by \notin p.active -> "STALE_ATTEMPT"
                [] OTHER -> "ok"
      start == [code |-> code, nodes |-> t.nodes, order |-> t.order, edges |-> t.edges]
  IN Whole(t, p, FoldLeft(LAMBDA s, op : apply_op(s, c, p, op), start, c.ops))

Commit(t, out) == [t EXCEPT !.nodes = out.nodes, !.order = out.order, !.edges = out.edges, !.version = @ + 1]

\* Mutant: what an unfinished node depends on is not kept.
CompactableNeeded(t, keep) ==
  LET candidates == SelectSeq(t.order, LAMBDA n : t.nodes[n].status = "COMPLETED" /\ t.nodes[n].frozen /\ ~\E a \in ToSet(t.attempts) : a.node = n)
  IN ToSet(SubSeq(candidates, 1, Len(candidates) - keep))

\* What is finished and nothing unfinished needs, in plan order, without the newest `keep`.
Compactable(t, keep) ==
  LET unfinished == {n \in DOMAIN t.nodes : t.nodes[n].status # "COMPLETED"}
      needed == unfinished \cup {e[1] : e \in {x \in t.edges : x[2] \in unfinished}} \cup {a.node : a \in ToSet(t.attempts)}
                  \cup {t.nodes[n].parent : n \in unfinished}
      candidates == SelectSeq(t.order, LAMBDA n : t.nodes[n].status = "COMPLETED" /\ t.nodes[n].frozen /\ n \notin needed)
  IN ToSet(SubSeq(candidates, 1, Len(candidates) - keep))

compact_plan(t, force, keep) ==
  LET gone == Compactable(t, keep)
  IN IF gone = {} \/ (~force /\ Cardinality(DOMAIN t.nodes) <= CompactAt) THEN t
     ELSE [t EXCEPT !.nodes = Restrict(@, DOMAIN @ \ gone), !.order = SelectSeq(@, LAMBDA n : n \notin gone),
                    !.edges = {e \in @ : {e[1], e[2]} \cap gone = {}}, !.version = @ + 1, !.archive = @ \cup gone,
                    !.followUps = Restrict(@, DOMAIN @ \ gone), !.retry = Restrict(@, DOMAIN @ \ gone), !.timers = @ \ gone]

-----------------------------------------------------------------------------
(* The statuses of nodes and of the task. *)

\* A task is held for budget only while it waits for a review.
set_status(t, status) == [t EXCEPT !.status = status, !.forBudget = @ /\ status = "PAUSED_NEEDS_REVIEW"]

DependenciesDone(t, n) == \A e \in t.edges : e[2] = n => t.nodes[e[1]].status = "COMPLETED"

SopOf(t, n) == {s \in DOMAIN t.sops : n \in t.sops[s].parts /\ s \in DOMAIN t.nodes}

\* A status that changes makes nodes ready that waited for it, and the SOP a node is a part of follows its parts.
RECURSIVE set_node(_, _, _, _), refresh_readiness(_), sop_child_changed(_, _, _)
set_node(t, n, status, frozen) ==
  LET set == [t EXCEPT !.nodes[n].status = status, !.nodes[n].frozen = frozen]
      ready == IF status \in {"COMPLETED", "RETRY_PENDING"} THEN refresh_readiness(set) ELSE set
  IN IF status # t.nodes[n].status THEN sop_child_changed(ready, n, status) ELSE ready

refresh_readiness(t) ==
  FoldLeft(LAMBDA s, n : IF t.nodes[n].status = "PENDING" /\ DependenciesDone(s, n)
                         THEN set_node(s, n, "READY", s.nodes[n].frozen) ELSE s, t, t.order)

sop_child_changed(t, n, status) ==
  IF SopOf(t, n) = {} THEN t
  ELSE LET sop == CHOOSE s \in SopOf(t, n) : TRUE
           now == t.nodes[sop].status
           left == [t EXCEPT !.sops[sop].open = @ \ {n}]
       IN CASE status = "COMPLETED" ->
                 IF left.sops[sop].open = {} /\ now # "COMPLETED" THEN set_node(left, sop, "COMPLETED", TRUE) ELSE left
            [] status = "BLOCKED" -> IF now # "BLOCKED" THEN set_node(t, sop, "BLOCKED", t.nodes[sop].frozen) ELSE t
            [] OTHER ->
                 IF now = "BLOCKED"
                    /\ ~\E m \in t.sops[sop].open \cap DOMAIN t.nodes : t.nodes[m].status = "BLOCKED"
                 THEN set_node(t, sop, "RUNNING", t.nodes[sop].frozen) ELSE t

set_node_status(t, n, status) == set_node(t, n, status, t.nodes[n].frozen)
\* Mutant: the node is completed and not frozen.
CompleteUnfrozen(t, n) == set_node_status(t, n, "COMPLETED")

Complete(t, n) == set_node(t, n, "COMPLETED", TRUE)

\* What is kept of a node's tries: the failures, whether it waits out a backoff, and what it is blocked for ("" if it is not).
NoEntry == [failed |-> 0, blocked |-> "", waits |-> FALSE]
Entry(t, n) == IF n \in DOMAIN t.retry THEN t.retry[n] ELSE NoEntry
NeedsReview(t, for) ==
  IF t.status \in Held THEN t ELSE [set_status(t, "PAUSED_NEEDS_REVIEW") EXCEPT !.forBudget = for = "budget"]

retry_or_block(t, n, failure) ==
  LET failed == Entry(t, n).failed + 1
      blocked == failure \in {"policy", "budget"} \/ failed >= MaxTries
      u == [t EXCEPT !.retry = (n :> [failed |-> failed, blocked |-> IF blocked THEN failure ELSE "", waits |-> ~blocked]) @@ @]
  IN IF blocked THEN NeedsReview(set_node_status(u, n, "BLOCKED"), failure) ELSE set_node_status(u, n, "RETRY_PENDING")

\* A person's word on nodes that retries gave up on.
unblock_nodes(t, N) ==
  FoldLeft(LAMBDA s, n :
             LET u == [s EXCEPT !.retry[n] = NoEntry]
             IN IF s.nodes[n].status = "BLOCKED" THEN set_node_status(u, n, "READY") ELSE u,
           t, SelectSeq(t.order, LAMBDA n : n \in N /\ Entry(t, n).blocked # ""))

-----------------------------------------------------------------------------
(* What the task may spend, in one field of its budget: what a running attempt may spend is reserved for it. *)

reserved_total(t) ==
  MapThenSumSet(LAMBDA a : a.reserved, {a \in ToSet(t.attempts) : a.reserved # NoLimit})

\* Mutant: what running attempts hold counts as left.
RemainingUnheld(t) == IF t.limit = NoLimit THEN NoLimit ELSE Max({0, t.limit - t.used})

remaining(t) == IF t.limit = NoLimit THEN NoLimit ELSE Max({0, t.limit - t.used - reserved_total(t)})

\* What an attempt reserves: what its node names, or a slice of what the attempts that start together share.
Refused == -2
reserve(t, n, slice) ==
  LET wanted == t.nodes[n].budget
      room == remaining(t)
  IN CASE wanted # NoLimit -> IF room # NoLimit /\ wanted > room THEN Refused ELSE wanted
       [] room = NoLimit -> NoLimit
       [] room = 0 -> Refused
       [] OTHER -> IF slice = 0 THEN room ELSE Min({room, slice})

hold_for_budget(t) == NeedsReview(t, "budget")

\* The attempt on n reported: what it spent is the task's, what it held is free.
usage_add(left, right) == left + right
settle_attempt(t, n, spent) ==
  [t EXCEPT !.used = usage_add(@, spent),
            !.attempts = [i \in DOMAIN @ |-> IF @[i].node = n THEN [@[i] EXCEPT !.reserved = NoLimit] ELSE @[i]]]

budget_add(limit, more) == IF limit = NoLimit THEN more ELSE limit + more

-----------------------------------------------------------------------------
(* Who may change what. *)

Running(t) == {a.node : a \in {b \in ToSet(t.attempts) : b.state = "RUNNING"}}
HasAttempt(t, n) == \E a \in ToSet(t.attempts) : a.node = n
AttemptOf(t, n) == CHOOSE a \in ToSet(t.attempts) : a.node = n

is_leader_node(t, n) ==
  /\ ~(n \in DOMAIN t.followUps /\ t.followUps[n])
  /\ \/ n = Exploration \/ n \in DOMAIN t.followUps \/ n \in t.reviewNodes
     \/ Members # <<>> /\ t.nodes[n].runs = ""

MadeBy(t, n) == {m \in DOMAIN t.nodes : \E no \in 1..t.nodes[n].tries : t.nodes[m].by = Attempt(n, no)}

\* Its own node, what its node's attempts created, and what those wait for.
visible_to(t, own) ==
  LET seen == {own} \cup MadeBy(t, own) IN seen \cup {e[1] : e \in {x \in t.edges : x[2] \in seen}}

plan_policy(t, c) ==
  LET own == {a.node : a \in {b \in ToSet(t.attempts) : Attempt(b.node, b.no) = c.by}} \cap DOMAIN t.nodes
  IN [maxOps |-> MaxOps, maxDepth |-> MaxDepth, maxBudget |-> t.limit, archived |-> t.archive,
      active |-> {Attempt(a.node, a.no) : a \in {b \in ToSet(t.attempts) : b.state = "RUNNING"}},
      activeNodes |-> {n \in DOMAIN t.nodes : t.nodes[n].status = "RUNNING"},
      all |-> \E n \in own : is_leader_node(t, n),
      visible |-> UNION {visible_to(t, n) : n \in own}]

System(t, ops) == [id |-> <<"system">>, kind |-> "system", by |-> <<"system">>, base |-> t.version, ops |-> ops]

\* A change of the workflow's own.  When the plan is too big for it, whatever is finished makes room.
SystemChange(t, Ops(_), Policy(_)) ==
  LET Try(s) == [task |-> s, out |-> apply(s, System(s, Ops(s)), Policy(s))]
      Fit(room, made) == IF made.out.code = "TOO_MANY_OPS" /\ room # t THEN Try(room) ELSE made
  IN Fit(compact_plan(t, TRUE, 0), Try(t))

SystemPolicy(t) == plan_policy(t, System(t, <<>>))

-----------------------------------------------------------------------------
(* The leader's reviews, follow-ups and mentions. *)

note_leader_done(t, n) ==
  LET children == SelectSeq(t.order, LAMBDA m : m # n /\ m \in MadeBy(t, n))
      round == (IF n \in DOMAIN t.rounds THEN t.rounds[n] ELSE 0) + 1
  IN IF MaxReviewRounds = 0 \/ t.nodes[n].status # "COMPLETED" \/ children = <<>> \/ ~is_leader_node(t, n)
        \/ \E r \in ToSet(t.reviews) : r.of = n
     THEN t
     ELSE [t EXCEPT !.reviews = Append(@, [of |-> n, id |-> <<"review">> \o Attempt(n, t.nodes[n].tries), round |-> round,
                                           children |-> ToSet(children), results |-> {}]),
                    !.rounds = [m \in ToSet(children) |-> round] @@ @]

record_review_output(t, n) ==
  [t EXCEPT !.reviews = [i \in DOMAIN @ |-> IF n \in @[i].children THEN [@[i] EXCEPT !.results = @ \cup {n}] ELSE @[i]]]

add_review(t, r) ==
  LET Ops(s) == <<AddNode(r.id, "agent_turn", "", NoNode, r.children \cap DOMAIN s.nodes, FALSE)>>
      Added(made) ==
        IF made.out.code # "ok" THEN set_status(made.task, "PAUSED_NEEDS_REVIEW")
        ELSE refresh_readiness([Commit(made.task, made.out) EXCEPT !.reviewNodes = @ \cup {r.id}, !.rounds = (r.id :> r.round) @@ @])
  IN Added(SystemChange(t, Ops, SystemPolicy))

\* A task of the review still going, or blocked until a person resolves it.
Due(t, r) == \A m \in r.children \cap DOMAIN t.nodes : t.nodes[m].status = "COMPLETED"

open_review(t, r) ==
  LET left == [t EXCEPT !.reviews = SelectSeq(@, LAMBDA x : x.of # r.of)]
  IN CASE ~Due(t, r) -> t
       [] r.children \cap DOMAIN t.nodes = {} /\ r.results = {} -> left
       [] r.round > MaxReviewRounds -> set_status(left, "PAUSED_NEEDS_REVIEW")
       [] OTHER -> add_review(left, r)

\* Mutant: the reviews wait for the first of them.
OpenReviewsInTurn(t) == IF t.status \in Held \/ t.reviews = <<>> THEN t ELSE open_review(t, Head(t.reviews))
open_reviews(t) == IF t.status \in Held THEN t ELSE FoldLeft(open_review, t, t.reviews)

AllDone(t) == \A n \in DOMAIN t.nodes : t.nodes[n].status = "COMPLETED"

\* A message that is no attempt's any more: a turn heard it, it is a node's goal, or its sender was told it was refused.
Answered(t, M) == [t EXCEPT !.inbox = @ \ M, !.past.answered = @ \cup M]

start_follow_up(t, m) ==
  LET id == <<"follow-up", Num[m]>>
      Ops(s) == <<AddNode(id, "agent_turn", "", NoNode, {}, FALSE)>>
      Added(made) ==
        IF made.out.code # "ok" THEN set_status(made.task, "PAUSED_NEEDS_REVIEW")
        ELSE [refresh_readiness(Commit(made.task, made.out)) EXCEPT !.followUps = (id :> FALSE) @@ @]
  IN Answered(Added(SystemChange(compact_plan(t, FALSE, KeepRecent), Ops, SystemPolicy)), {m})

\* Every member named gets a node of its own; the leader relays the answers, as a review of those nodes.
mention_follow_ups(t, m) ==
  LET named == SelectSeq(Members, LAMBDA role : role \in Mentions[m])
      Id(role) == <<"mention", Num[m], role>>
      ids == {Id(role) : role \in Mentions[m]}
      ops == [i \in DOMAIN named |-> AddNode(Id(named[i]), "agent_turn", named[i], NoNode, {}, FALSE)]
      relay == [of |-> <<"mention", Num[m]>>, id |-> <<"relay", Num[m]>>, round |-> 0, children |-> ids, results |-> {}]
      Added(out) ==
        IF out.code # "ok" THEN set_status(t, "PAUSED_NEEDS_REVIEW")
        ELSE [refresh_readiness(Commit(t, out)) EXCEPT !.followUps = [n \in ids |-> TRUE] @@ @,
                                                       !.reviews = IF MaxReviewRounds > 0 THEN Append(@, relay) ELSE @]
  IN Answered(Added(apply(t, System(t, ops), SystemPolicy(t))), {m})

-----------------------------------------------------------------------------
(* A SOP stage is compiled into nodes under it. *)

DefaultId == <<"s1", "s2", "s3", "s4", "s5">>

\* The steps with their defaults, each after the ones it depends on: of those that are ready the first as written.  <<>>: invalid.
resolve_steps(steps) ==
  LET ids == [i \in DOMAIN steps |-> IF steps[i].id = "" THEN DefaultId[i] ELSE steps[i].id]
      deps(i) == CASE ~steps[i].linear -> steps[i].deps
                   [] i > 1 -> {ids[i - 1]}
                   [] OTHER -> {}
      resolved == [i \in DOMAIN steps |-> [id |-> ids[i], index |-> i, deps |-> deps(i), approval |-> steps[i].approval]]
      TakeReady(done, step) ==
        LET ready == SelectSeq(resolved, LAMBDA x : x \notin ToSet(done) /\ x.deps \subseteq {y.id : y \in ToSet(done)})
        IN IF ready = <<>> THEN done ELSE Append(done, Head(ready))
      ordered == FoldLeft(TakeReady, <<>>, resolved)
  IN IF IsInjective(ids) /\ (\A i \in DOMAIN steps : deps(i) \subseteq ToSet(ids) \ {ids[i]}) /\ Len(ordered) = Len(steps)
     THEN ordered ELSE <<>>

SopPart(sop, part, step) == <<part, Num[step.index]>> \o sop
Agent(sop, step) == SopPart(sop, "step", step)
Tail_(sop, step) == IF step.approval = "after" THEN SopPart(sop, "accept", step) ELSE Agent(sop, step)
Before(steps, step) == {d \in ToSet(steps) : d.id \in step.deps}

approval_op(id, sop, waits) == AddNode(id, "approval", "", sop, waits, FALSE)
\* The steps share the workspace, one writer at a time.
step_node(sop, step, waits) == AddNode(Agent(sop, step), "agent_turn", "", sop, waits, TRUE)

\* One step: its approvals and the agent's node between them.
StepOps(sop, steps, step) ==
  LET waits == {Tail_(sop, d) : d \in Before(steps, step)}
      gate == SopPart(sop, "gate", step)
  IN CASE step.approval = "before" -> <<approval_op(gate, sop, waits), step_node(sop, step, {gate})>>
       [] step.approval = "after" -> <<step_node(sop, step, waits), approval_op(Tail_(sop, step), sop, {Agent(sop, step)})>>
       [] OTHER -> <<step_node(sop, step, waits)>>

\* The steps, and then whatever waited for the SOP waits for the nodes it ends in.
sop_ops(t, sop, steps) ==
  LET sinks == SelectSeq(steps, LAMBDA x : \A y \in ToSet(steps) : x.id \notin y.deps)
      waiting == SelectSeq(t.order, LAMBDA n : <<sop, n>> \in t.edges)
      moved(n) == <<OnEdge("unlink", sop, n)>> \o [k \in DOMAIN sinks |-> OnEdge("link", Tail_(sop, sinks[k]), n)]
  IN FlattenSeq([i \in DOMAIN steps |-> StepOps(sop, steps, steps[i])]) \o FlattenSeq([k \in DOMAIN waiting |-> moved(waiting[k])])

RECURSIVE LiveAbove(_, _)
LiveAbove(nodes, n) == IF nodes[n].parent \in DOMAIN nodes THEN 1 + LiveAbove(nodes, nodes[n].parent) ELSE 0

\* The limits are raised for this change only: one level under the SOP, and as many operations as it needs.
sop_policy(t, sop, ops) ==
  [SystemPolicy(t) EXCEPT !.maxOps = Max({@, Len(ops)}), !.maxDepth = Max({@, LiveAbove(t.nodes, sop) + 1})]

\* Not retried: another reading would find the same.
sop_unusable(t, sop, retryable) == retry_or_block(t, sop, IF retryable THEN "transient" ELSE "policy")

\* `deps` and `outputs` are about the steps' own nodes, not their approvals.
expand_sop(t, sop, steps) ==
  LET Ops(s) == sop_ops(s, sop, steps)
      Policy(s) == sop_policy(s, sop, Ops(s))
      deps == [n \in {Agent(sop, x) : x \in ToSet(steps)} |->
                 {Agent(sop, d) : d \in UNION {Before(steps, x) : x \in {y \in ToSet(steps) : Agent(sop, y) = n}}}]
      Added(made) ==
        LET parts == DOMAIN made.out.nodes \ DOMAIN made.task.nodes
            entry == [parts |-> parts, open |-> parts, deps |-> deps, outputs |-> {}]
        IN IF made.out.code # "ok" THEN sop_unusable(made.task, sop, FALSE)
           ELSE set_node_status(refresh_readiness([Commit(made.task, made.out) EXCEPT !.sops = (sop :> entry) @@ @]), sop, "RUNNING")
  IN Added(SystemChange(compact_plan(t, FALSE, KeepRecent), Ops, Policy))

StepsBefore(t, n) == UNION {t.sops[s].deps[n] : s \in {x \in DOMAIN t.sops : n \in DOMAIN t.sops[x].deps}}

\* The steps before this one that an attempt on it is told of.
handover_to(t, n) == StepsBefore(t, n) \cap UNION {t.sops[s].outputs : s \in DOMAIN t.sops}

record_step_output(t, n) ==
  [t EXCEPT !.sops = [s \in DOMAIN @ |-> IF n \in DOMAIN @[s].deps THEN [@[s] EXCEPT !.outputs = @ \cup {n}] ELSE @[s]]]

-----------------------------------------------------------------------------
(* Nodes no agent runs: an approval waits for a person, a wait for its timer or its event. *)

ask_node_approval(t, n) == [t EXCEPT !.asked = @ \cup {n}]

\* A decision on a node that does not wait for one any more changes nothing.
settle_node_approval(t, n, approve) ==
  LET refused == [t EXCEPT !.retry = (n :> [Entry(t, n) EXCEPT !.blocked = "approval", !.waits = FALSE]) @@ @]
  IN CASE n \notin DOMAIN t.nodes -> t
       [] t.nodes[n].status # "AWAITING_APPROVAL" -> t
       [] approve -> Complete(t, n)
       [] OTHER -> NeedsReview(set_node_status(refused, n, "BLOCKED"), "approval")

complete_wait(t, n) ==
  LET u == [t EXCEPT !.timers = @ \ {n}]
  IN IF n \in DOMAIN t.nodes /\ t.nodes[n].status = "AWAITING_INPUT" THEN [Complete(u, n) EXCEPT !.wake = TRUE] ELSE u

\* A wait that has a timer does not look for an event that came before.
start_waiting_node(t, n) ==
  IF t.nodes[n].type = "approval" THEN ask_node_approval(set_node_status(t, n, "AWAITING_APPROVAL"), n)
  ELSE LET u == set_node_status(t, n, "AWAITING_INPUT")
       IN CASE t.nodes[n].runs # "event" -> [u EXCEPT !.timers = @ \cup {n}]
            [] t.event -> complete_wait(u, n)
            [] OTHER -> u

-----------------------------------------------------------------------------
(* The main loop.  Each operator goes on from where the loop stands to its next await: the task it leaves, and where it waits. *)

At(pc, n, rest) == [pc |-> pc, node |-> n, rest |-> rest.order, slice |-> rest.slice, msgs |-> {}, holds |-> NoLimit]
Idle(pc) == At(pc, NoNode, [order |-> <<>>, slice |-> 0])

Writing(t) == \E a \in ToSet(t.attempts) : a.write
Startable(t, n) == n \in DOMAIN t.nodes /\ t.nodes[n].status \in {"READY", "RETRY_PENDING"} /\ ~HasAttempt(t, n)

\* In plan order; an agent's node takes a slot, and the workspace when it writes.
ready_order(t) ==
  LET Take(acc, n) ==
        CASE ~Startable(t, n) \/ Entry(t, n).waits \/ ~DependenciesDone(t, n) -> acc
          [] t.nodes[n].type # "agent_turn" -> [acc EXCEPT !.order = Append(@, n)]
          [] acc.slots <= 0 \/ (t.nodes[n].write /\ acc.busy) -> acc
          [] OTHER -> [order |-> Append(acc.order, n), slots |-> acc.slots - 1, busy |-> acc.busy \/ t.nodes[n].write]
  IN FoldLeft(Take, [order |-> <<>>, slots |-> MaxConcurrency - Cardinality(Running(t)), busy |-> Writing(t)], t.order).order

has_ready_node(t) == t.status \notin Held /\ ready_order(t) # <<>>

\* The end of a pass: the task's status follows what runs, and the events go out.
Passed(t) ==
  LET status == CASE t.status \in Held -> t.status
                  [] Running(t) # {} -> "RUNNING"
                  [] \E n \in DOMAIN t.nodes : t.nodes[n].status \in {"AWAITING_APPROVAL", "AWAITING_INPUT"} -> "WAITING"
                  [] OTHER -> t.status
  IN [task |-> [set_status(t, status) EXCEPT !.wake = FALSE], loop |-> Idle("flush")]

\* A task that cannot pay for the node is on hold, and the pass is over.
start_attempt(t, n, rest, holds) ==
  IF holds = Refused THEN Passed(hold_for_budget(t))
  ELSE [task |-> [t EXCEPT !.inbox = {}], loop |-> [At("starting", n, rest) EXCEPT !.msgs = t.inbox, !.holds = holds]]

\* _schedule_ready: every node of the order is looked at again, for what happened while an earlier one started.
\* `pass` is the rest of the order and the slice of the budget each attempt takes that starts in this pass.
RECURSIVE Walk(_, _)
Walk(t, pass) ==
  IF pass.order = <<>> \/ t.status \in Held THEN Passed(t)
  ELSE LET n == Head(pass.order)
           rest == [pass EXCEPT !.order = Tail(@)]
           node == t.nodes[n]
       IN CASE ~Startable(t, n) -> Walk(t, rest)
            [] node.type = "sop_stage" -> [task |-> t, loop |-> At("reading", n, rest)]
            [] node.type = "checkpoint" -> [task |-> set_node_status(t, n, "VERIFYING"), loop |-> At("saving", n, rest)]
            [] node.type \in {"approval", "wait"} -> Walk(start_waiting_node(t, n), rest)
            [] Cardinality(Running(t)) >= MaxConcurrency \/ (node.write /\ Writing(t)) -> Walk(t, rest)
            [] OTHER -> start_attempt(t, n, rest, reserve(t, n, pass.slice))

Schedule(t) ==
  LET order == ready_order(t)
      share == Len(SelectSeq(order, LAMBDA n : t.nodes[n].type = "agent_turn"))
  IN Walk(t, [order |-> order, slice |-> IF t.limit = NoLimit THEN 0 ELSE remaining(t) \div Max({1, share})])

mention_goes_to_members(t) == t.status \in {"RUNNING", "WAITING", "COMPLETED"}

\* _drain_commands: a message goes to the members it names, to an attempt that runs, or becomes a node of its own.
RECURSIVE Drain(_)
Drain(t) ==
  IF t.commands = <<>> THEN Schedule(open_reviews(t))
  ELSE LET m == Head(t.commands)
           u == [t EXCEPT !.commands = Tail(@)]
           live == SelectSeq(t.attempts, LAMBDA a : a.state = "RUNNING")
       IN CASE m \notin t.inbox -> Drain(u)
            [] Mentions[m] # {} /\ mention_goes_to_members(t) -> Drain(mention_follow_ups(u, m))
            [] live # <<>> -> [task |-> u, loop |-> [Idle("signalling") EXCEPT !.node = live[1].node, !.msgs = {m}]]
            [] t.status = "COMPLETED" /\ AllDone(t) -> Drain(start_follow_up(u, m))
            [] OTHER -> Drain(u)

Go(next) == task' = next.task /\ loop' = next.loop

initial_plan ==
  [nodes |-> Exploration :> [NewNode(AddNode(Exploration, "agent_turn", "", NoNode, {}, FALSE), NoNode) EXCEPT !.status = "READY"],
   order |-> <<Exploration>>, edges |-> {}, version |-> 1]

\* What a workflow starts with; `past` is what happened, for the properties.
Started(plan, limit) ==
  [nodes |-> plan.nodes, order |-> plan.order, edges |-> plan.edges, version |-> plan.version, limit |-> limit, archive |-> {},
   status |-> "RUNNING", attempts |-> <<>>, retry |-> <<>>, sops |-> <<>>, reviews |-> <<>>, rounds |-> <<>>,
   reviewNodes |-> {}, followUps |-> <<>>, asked |-> {}, timers |-> {}, event |-> FALSE, inbox |-> {}, commands |-> <<>>,
   unsent |-> FALSE, dedup |-> <<>>, messages |-> 0, used |-> 0, forBudget |-> FALSE, wake |-> TRUE,
   past |-> [worked |-> {}, answered |-> {}, raced |-> {}, cut |-> FALSE]]

Init ==
  /\ scope \in Scopes
  /\ task = Started(initial_plan, scope.budget)
  /\ loop = Idle("wait") /\ sent = <<>> /\ people = 0

Rest == [order |-> loop.rest, slice |-> loop.slice]

Pass ==
  /\ loop.pc = "wait" /\ (task.commands # <<>> \/ task.wake \/ has_ready_node(task))
  /\ Go(Drain(task))
  /\ UNCHANGED <<sent, people, scope>>

\* The signal is out.  An attempt that reported meanwhile may have closed, and is then not reached; one that left the books
\* meanwhile and was reached has the message, and nobody will hear of it.
Signalled(reached) ==
  LET n == loop.node
      there == HasAttempt(task, n)
      hand(a) == IF a.node = n THEN [a EXCEPT !.handed = @ \cup loop.msgs] ELSE a
      u == IF reached THEN [task EXCEPT !.inbox = @ \ loop.msgs, !.attempts = [i \in DOMAIN @ |-> hand(@[i])],
                                        !.past.raced = IF there THEN @ ELSE @ \cup loop.msgs]
           ELSE [task EXCEPT !.unsent = TRUE]
  IN /\ loop.pc = "signalling" /\ (n \in Running(task) => reached)
     /\ Go(Drain(u))
     /\ UNCHANGED <<sent, people, scope>>

\* The child's start is confirmed; its node is not looked at again.
ChildStarted ==
  LET n == loop.node
      no == task.nodes[n].tries + 1
      a == [node |-> n, no |-> no, state |-> "RUNNING", write |-> task.nodes[n].write, given |-> loop.msgs, handed |-> {}, heard |-> {},
            reserved |-> loop.holds]
      u == set_node_status([task EXCEPT !.attempts = Append(@, a), !.nodes[n].tries = no], n, "RUNNING")
  IN /\ loop.pc = "starting"
     /\ IF n \in DOMAIN task.nodes THEN Go(Walk(u, Rest)) ELSE task' = task /\ loop' = Idle("dead")
     /\ UNCHANGED <<sent, people, scope>>

\* The checkpoint of a checkpoint node is stored: the node is completed, and not frozen.
CheckpointCommitted ==
  LET n == loop.node
  IN /\ loop.pc = "saving"
     /\ IF n \in DOMAIN task.nodes THEN Go(Walk(set_node_status(task, n, "COMPLETED"), Rest)) ELSE task' = task /\ loop' = Idle("dead")
     /\ UNCHANGED <<sent, people, scope>>

load_sop(ref) == IF ref \in DOMAIN Sops THEN Sops[ref] ELSE <<>>

\* load_sop failed, knows no such SOP, or read it; only then is the node looked at again, as it is now.  A SOP that is not known, or
\* is no valid definition, will not be next time either.
SopRead(t, n, steps) == IF steps = <<>> THEN sop_unusable(t, n, FALSE) ELSE expand_sop(t, n, steps)

SopLoaded(ok) ==
  LET n == loop.node
      ref == task.nodes[n].runs
      changed == ~Startable(task, n) \/ n \in DOMAIN task.sops \/ task.status \in Held
      next == CASE ~ok -> sop_unusable(task, n, TRUE)
                [] changed -> task
                [] OTHER -> SopRead(task, n, resolve_steps(load_sop(ref)))
  IN /\ loop.pc = "reading" /\ (ok \/ "reading" \in scope.fails)
     /\ IF ~ok /\ n \notin DOMAIN task.nodes THEN task' = task /\ loop' = Idle("dead") ELSE Go(Walk(next, Rest))
     /\ UNCHANGED <<sent, people, scope>>

\* Mutant: the task is judged on the reviews opened before the flush.
FlushedUnreviewed ==
  /\ loop.pc = "flush"
  /\ IF AllDone(task) /\ task.status \notin Held \cup {"COMPLETED"}
     THEN task' = set_status(task, "COMPLETED") /\ loop' = Idle("closing")
     ELSE task' = task /\ loop' = Idle("wait")
  /\ UNCHANGED <<sent, people, scope>>

\* The events are out: the task is judged, after the reviews it is owed are in the plan.
Judged(t) ==
  IF AllDone(t) /\ t.status \notin Held \cup {"COMPLETED"} THEN [task |-> set_status(t, "COMPLETED"), loop |-> Idle("closing")]
  ELSE [task |-> t, loop |-> Idle("wait")]

Woken(t) == [t EXCEPT !.wake = @ \/ t # task]

Flushed ==
  /\ loop.pc = "flush"
  /\ Go(Judged(Woken(open_reviews(task))))
  /\ UNCHANGED <<sent, people, scope>>

\* A message that could not be handed to an attempt that had closed is answered now.
Closed ==
  /\ loop.pc = "closing" /\ loop' = Idle("wait")
  /\ task' = [task EXCEPT !.commands = IF task.unsent /\ task.inbox # {} THEN Append(@, Min(task.inbox)) ELSE @, !.unsent = FALSE]
  /\ UNCHANGED <<sent, people, scope>>

\* What is kept about nodes that are gone or done goes; a SOP that is going keeps the outputs its open steps still need.
bound_state(t) ==
  LET unfinished == {n \in DOMAIN t.nodes : t.nodes[n].status # "COMPLETED"}
      Keep(f, S) == Restrict(f, DOMAIN f \cap S)
      needed(e) == UNION {e.deps[n] : n \in e.open \cap DOMAIN e.deps}
      sops == Keep(t.sops, unfinished)
  IN [t EXCEPT !.followUps = Keep(@, unfinished), !.retry = Keep(@, unfinished), !.timers = @ \cap DOMAIN t.nodes,
               !.sops = [n \in DOMAIN sops |-> [sops[n] EXCEPT !.outputs = @ \cap needed(sops[n])]],
               !.reviewNodes = @ \cap DOMAIN t.nodes, !.rounds = Keep(@, DOMAIN t.nodes \cup {r.of : r \in ToSet(t.reviews)})]

carry_input(t) == bound_state(compact_plan(t, TRUE, KeepRecent))

\* The next run arms the timers again, of the nodes that still wait.
rearm_after_load(t) == [t EXCEPT !.timers = {n \in @ : t.nodes[n].status = "AWAITING_INPUT"}]
load(t) == [rearm_after_load(t) EXCEPT !.wake = TRUE]

\* The run ends and the next one takes over what it carries: no handler is out and nothing is left to drain.
ContinueAsNew ==
  /\ loop.pc = "wait" /\ task.commands = <<>> /\ \A a \in ToSet(task.attempts) : a.state = "RUNNING"
  /\ task' = load(carry_input(task))
  /\ UNCHANGED <<loop, sent, people, scope>>

WaitTimer(n) ==
  /\ loop.pc # "dead" /\ n \in task.timers /\ task' = complete_wait(task, n)
  /\ UNCHANGED <<loop, sent, people, scope>>

\* An event, sent by whoever knows of it, perhaps before its node waits and perhaps again.
external_event ==
  LET waiting == SelectSeq(task.order, LAMBDA n : task.nodes[n].status = "AWAITING_INPUT" /\ task.nodes[n].runs # "timer")
      done == FoldLeft(LAMBDA t, n : Complete([t EXCEPT !.timers = @ \ {n}], n), task, waiting)
  IN /\ loop.pc # "dead" /\ scope.person \cap {"event", "either"} # {}
     /\ task' = [done EXCEPT !.event = TRUE, !.wake = TRUE]
     /\ UNCHANGED <<loop, sent, people, scope>>

BackoffEnds(n) ==
  /\ loop.pc # "dead" /\ n \in DOMAIN task.retry /\ task.retry[n].waits
  /\ task' = [task EXCEPT !.retry[n].waits = FALSE]
  /\ UNCHANGED <<loop, sent, people, scope>>

-----------------------------------------------------------------------------
(* Plan changes: composed against the plan as it was read, delivered later, and perhaps again. *)

NextId == <<"c", Num[Len(sent) + 1]>>
Compose(kind, by, ops) ==
  /\ loop.pc # "dead" /\ Len(sent) < scope.commands
  /\ sent' = Append(sent, [id |-> NextId, kind |-> kind, by |-> by, base |-> task.version, ops |-> ops, left |-> scope.sends, took |-> 0])
  /\ UNCHANGED <<task, loop, people, scope>>

\* _commit: a planning tool of the agent on node n reads the plan's version and submits its change.
AgentCommits(n, ops) == n \in Running(task) /\ Compose("agent", Attempt(n, AttemptOf(task, n).no), ops)

\* Work for a member is nested under the node that gave it.
TaskCreate(n) ==
  /\ "create" \in scope.agent
  /\ \E owner \in ToSet(Members) \cup {""} :
       AgentCommits(n, <<AddNode(NextId, "agent_turn", owner, IF owner = "" THEN NoNode ELSE n, {n}, FALSE)>>)

TaskUpdate(n) ==
  \/ "delete" \in scope.agent /\ \E m \in DOMAIN task.nodes : AgentCommits(n, <<OnNode("remove", m)>>)
  \/ "block_on" \in scope.agent /\ \E m, k \in DOMAIN task.nodes : AgentCommits(n, <<OnEdge("link", m, k)>>)

DeclareUnplannable(n) == "unplannable" \in scope.agent /\ AgentCommits(n, <<OnNode("block", n)>>)

\* What people add: a SOP, anywhere in the plan; a task; a node that waits; a checkpoint.
PersonAdds ==
  LET By(type, runs, after, before) ==
        Compose("user", <<"person">>, <<AddNode(NextId, type, runs, NoNode, after, FALSE)>>
                                      \o [i \in 1..Cardinality(before) |-> OnEdge("link", NextId, SetToSeq(before)[i])])
      oneOrNone == {{}} \cup {{n} : n \in DOMAIN task.nodes}
  IN \/ \E ref \in scope.person \cap (DOMAIN Sops \cup {"unknown"}), after, before \in oneOrNone : By("sop_stage", ref, after, before)
     \/ "task" \in scope.person /\ \E after \in oneOrNone : By("agent_turn", "", after, {})
     \/ \E for \in scope.person \cap {"timer", "event", "either"}, after \in oneOrNone : By("wait", for, after, {})
     \/ "checkpoint" \in scope.person /\ \E after \in oneOrNone : By("checkpoint", "", after, {})

PersonChanges ==
  LET By(ops) == Compose("user", <<"person">>, ops)
      live == DOMAIN task.nodes
  IN \/ "remove" \in scope.person /\ \E n \in live : By(<<OnNode("remove", n)>>)
     \/ "update" \in scope.person /\ \E n \in live, budget \in {NoLimit} \cup 1..task.limit : By(<<Patch(n, budget)>>)
     \/ "block" \in scope.person /\ \E n \in live : By(<<OnNode("block", n)>>)
     \/ "link" \in scope.person /\ \E m, n \in live : By(<<OnEdge("link", m, n)>>)
     \/ "unlink" \in scope.person /\ \E e \in task.edges : By(<<OnEdge("unlink", e[1], e[2])>>)

\* Mutant: nothing leaves the dedup window.
RememberAll(t, id) == [t EXCEPT !.dedup = Append(@, id)]

Remember(t, id) == [t EXCEPT !.dedup = LET all == Append(@, id) IN SubSeq(all, Max({1, Len(all) - MaxDedup + 1}), Len(all))]

unblock_changed(t, c) ==
  IF c.kind = "agent" THEN t ELSE unblock_nodes(t, {c.ops[i].id : i \in {j \in DOMAIN c.ops : c.ops[j].op = "update"}})

Attempted == {a.node : a \in ToSet(task.attempts)}
InWork == Attempted \cup {loop.node}

Decided(i, c, out) ==
  LET known == [Remember(task, c.id) EXCEPT !.wake = TRUE]
      changed == compact_plan(unblock_changed(refresh_readiness(Commit(known, out)), c), FALSE, KeepRecent)
      cut == c.kind # "agent" /\ InWork \cap (DOMAIN task.nodes \ DOMAIN out.nodes) # {}
      took == c.took + (IF c.id \in ToSet(task.dedup) \/ out.code # "ok" THEN 0 ELSE 1)
  IN /\ task' = CASE c.id \in ToSet(task.dedup) -> task
                  [] out.code # "ok" -> known
                  [] OTHER -> [changed EXCEPT !.past.cut = @ \/ cut]
     /\ sent' = [sent EXCEPT ![i] = IF c.left = 1 THEN [c EXCEPT !.ops = <<>>, !.base = 0, !.left = 0, !.took = took]
                                    ELSE [c EXCEPT !.left = @ - 1, !.took = took]]

submit_plan_change(i) ==
  /\ loop.pc # "dead" /\ sent[i].left > 0
  /\ Decided(i, sent[i], apply(task, sent[i], plan_policy(task, sent[i])))
  /\ UNCHANGED <<loop, people, scope>>

-----------------------------------------------------------------------------
(* Reports of attempts. *)

\* Mutant: what the attempt was handed goes with it.
LeavesUnheard(t, a, heard) ==
  [t EXCEPT !.attempts = SelectSeq(@, LAMBDA b : b.node # a.node), !.past.answered = @ \cup heard, !.wake = TRUE]

\* The attempt leaves the books; what it was handed and no turn heard is the task's again.
Leaves(t, a, heard) ==
  LET lost == (a.handed \ heard) \ t.inbox
  IN [t EXCEPT !.attempts = SelectSeq(@, LAMBDA b : b.node # a.node), !.inbox = @ \cup lost, !.unsent = @ \/ lost # {},
               !.past.answered = @ \cup heard, !.wake = TRUE]

\* What a report changes before anything is checked: the attempt's budget, and the messages it had not got to.
attempt_ended(t, n, spent, back) == [settle_attempt(t, n, spent) EXCEPT !.inbox = @ \cup back]

exploration_spent_without_plan(t, n, exhausted) == n = Exploration /\ exhausted /\ t.version = 1

\* A report of completion is verified first, unless a person takes over: the agent declared its node unplannable, or the exploration
\* ran out of budget before anything was planned.
AttemptCompleted(a, heard, spent, exhausted) ==
  LET n == a.node
      reported == record_review_output(record_step_output(attempt_ended(task, n, spent, {}), n), n)
      unplanned == exploration_spent_without_plan(task, n, exhausted)
      verifying == [set_node_status(reported, n, "VERIFYING") EXCEPT
                      !.attempts = [i \in DOMAIN @ |-> IF @[i].node = n THEN [@[i] EXCEPT !.state = "VERIFYING", !.heard = heard] ELSE @[i]],
                      !.wake = TRUE]
      review(t) == Leaves(set_status(t, "PAUSED_NEEDS_REVIEW"), a, heard)
  IN /\ loop.pc # "dead" /\ a.state = "RUNNING" /\ a.given \subseteq heard /\ (exhausted => "attempts" \in scope.fails /\ unplanned)
     /\ CASE n \notin DOMAIN task.nodes -> task' = task /\ loop' = Idle("dead")
          [] task.nodes[n].status = "BLOCKED" -> task' = review(reported) /\ loop' = loop
          [] unplanned -> task' = review(set_node_status(reported, n, "BLOCKED")) /\ loop' = loop
          [] OTHER -> task' = verifying /\ loop' = loop
     /\ UNCHANGED <<sent, people, scope>>

completion_contract(t, n) ==
  IF SopOf(t, n) # {} THEN StepContract
  ELSE IF n \in DOMAIN t.nodes /\ t.nodes[n].by = <<"person">> THEN Contract ELSE EmptyContract

\* What the checks of a contract can say.
Verdicts ==
  [c \in {EmptyContract, Contract, StepContract} |-> {completion_rejections(e.world, c, e.result) = {} : e \in Evidence}]

\* The checks are back: the node is settled as it is now.
settle_node(t, n, ok) ==
  CASE ~ok -> retry_or_block(t, n, "verification")
    [] t.nodes[n].status = "BLOCKED" -> set_status(t, "PAUSED_NEEDS_REVIEW")
    [] t.nodes[n].status = "COMPLETED" -> t
    [] OTHER -> [Complete(t, n) EXCEPT !.past.worked = @ \cup {n}]

\* The report was checked against the node's contract, which nothing changes.
Verified(a, ok) ==
  LET n == a.node
      settled == settle_node(task, n, ok)
  IN /\ loop.pc # "dead" /\ a.state = "VERIFYING" /\ (ok \/ "attempts" \in scope.fails)
     /\ IF n \notin DOMAIN task.nodes THEN task' = task /\ loop' = Idle("dead")
        ELSE task' = Leaves(IF ok THEN note_leader_done(settled, n) ELSE settled, a, a.heard) /\ loop' = loop
     /\ UNCHANGED <<sent, people, scope>>

\* A report of failure gives back the messages the attempt had not got to; a signal that came after it is in neither list.
AttemptFailed(a, failure, heard, late, spent) ==
  LET n == a.node
      ended == attempt_ended(task, n, spent, (a.given \cup a.handed) \ (heard \cup late))
  IN /\ loop.pc # "dead" /\ "attempts" \in scope.fails /\ a.state = "RUNNING" /\ (failure = "budget" => spent = a.reserved)
     /\ IF n \notin DOMAIN task.nodes THEN task' = task /\ loop' = Idle("dead")
        ELSE task' = Leaves(retry_or_block(ended, n, failure), a, heard) /\ loop' = loop
     /\ UNCHANGED <<sent, people, scope>>

-----------------------------------------------------------------------------
(* What people do besides. *)

Person(t) ==
  /\ loop.pc # "dead" /\ people < scope.people /\ people' = people + 1
  /\ task' = [Remember(t, <<"p", Num[people + 1]>>) EXCEPT !.wake = TRUE]
  /\ UNCHANGED <<loop, sent, scope>>

Pause == task.status # "PAUSED" /\ Person(set_status(task, "PAUSED"))
Resume == task.status \in {"PAUSED", "PAUSED_NEEDS_REVIEW"} /\ Person(unblock_nodes(set_status(task, "RUNNING"), DOMAIN task.retry))

\* A person completed the node by hand: nobody is asked about it any more.
cancel_node_approvals(t, n) == [t EXCEPT !.asked = @ \ {n}]

complete_node(n) ==
  /\ task.status \in Held /\ n \in DOMAIN task.nodes
  /\ ~task.nodes[n].frozen /\ task.nodes[n].status \notin {"COMPLETED", "RUNNING", "VERIFYING"} /\ ~HasAttempt(task, n)
  /\ Person([cancel_node_approvals(Complete(task, n), n) EXCEPT !.retry = Restrict(@, DOMAIN @ \ {n}), !.timers = @ \ {n},
                                    !.past.cut = @ \/ n = loop.node])

decide_approval(n, approve) == n \in task.asked /\ Person(settle_node_approval([task EXCEPT !.asked = @ \ {n}], n, approve))

\* Only a task that waits because its budget ran out goes on, and only what was blocked for it is tried again.
grant_budget ==
  LET more == [task EXCEPT !.limit = budget_add(@, scope.grant)]
      on == IF task.status = "PAUSED_NEEDS_REVIEW" /\ task.forBudget THEN set_status(more, "RUNNING") ELSE more
  IN scope.grant > 0 /\ Person(unblock_nodes(on, {n \in DOMAIN task.retry : task.retry[n].blocked = "budget"}))

SendMessage ==
  LET m == task.messages + 1
  IN /\ loop.pc # "dead" /\ m <= scope.messages
     /\ task' = [Remember(task, <<"m", Num[m]>>) EXCEPT !.messages = m, !.inbox = @ \cup {m}, !.commands = Append(@, m), !.wake = TRUE]
     /\ UNCHANGED <<loop, sent, people, scope>>

LoopReady ==
  \/ loop.pc \notin {"wait", "dead"}
  \/ loop.pc = "wait" /\ (task.commands # <<>> \/ task.wake \/ has_ready_node(task))

Failures == {"transient", "policy", "budget"}

Next ==
  \/ Pass \/ ChildStarted \/ CheckpointCommitted \/ Flushed \/ Closed \/ ContinueAsNew \/ external_event
  \/ PersonAdds \/ PersonChanges \/ Pause \/ Resume \/ SendMessage \/ grant_budget
  \/ \E ok \in BOOLEAN : Signalled(ok) \/ SopLoaded(ok)
  \/ \E i \in DOMAIN sent : submit_plan_change(i)
  \/ \E n \in DOMAIN task.retry : BackoffEnds(n)
  \/ \E n \in task.timers : WaitTimer(n)
  \/ \E n \in DOMAIN task.nodes : complete_node(n)
  \/ \E n \in task.asked, approve \in BOOLEAN : decide_approval(n, approve)
  \/ \E n \in Attempted : TaskCreate(n) \/ TaskUpdate(n) \/ DeclareUnplannable(n)
  \/ \E a \in ToSet(task.attempts) :
       \/ \E ok \in Verdicts[completion_contract(task, a.node)] : Verified(a, ok)
       \/ \E heard \in SUBSET (a.given \cup a.handed), spent \in 0..Max({0, a.reserved}) :
            \/ \E exhausted \in BOOLEAN : AttemptCompleted(a, heard, spent, exhausted)
            \/ \E failure \in Failures, late \in SUBSET (a.handed \ heard) : AttemptFailed(a, failure, heard, late, spent)

\* The main loop goes on while it can: Temporal runs the workflow task, and what the loop awaits (a signal, the start of a child, a
\* short activity) is confirmed.  Every step of the loop changes `loop`, so this is its weak fairness written out.
LoopFair == []<>(~LoopReady) \/ []<><<TRUE>>_loop

Spec == Init /\ [][Next]_vars /\ LoopFair

-----------------------------------------------------------------------------
Statuses == {"PENDING", "READY", "RUNNING", "VERIFYING", "AWAITING_APPROVAL", "AWAITING_INPUT", "RETRY_PENDING", "BLOCKED", "COMPLETED"}
NodeTypes == {"agent_turn", "sop_stage", "approval", "wait", "checkpoint"}

\* The plan, its bookkeeping and the loop have their shapes: what is kept about a node in one place names nodes of the plan (a
\* review, a round or an approval may outlive its node), the plan order is the plan, a node that waits for a time has its timer, and
\* the loop waits for one thing at a time.
TypeOK ==
  /\ \A n \in DOMAIN task.nodes : task.nodes[n].status \in Statuses /\ task.nodes[n].type \in NodeTypes /\ task.nodes[n].tries \in Nat
  /\ \A n \in DOMAIN task.nodes : task.nodes[n].status = "AWAITING_INPUT" /\ task.nodes[n].runs # "event" => n \in task.timers
  /\ ToSet(task.order) = DOMAIN task.nodes /\ Len(task.order) = Cardinality(DOMAIN task.nodes)
  /\ task.archive \cap DOMAIN task.nodes = {}
  /\ task.status \in {"RUNNING", "WAITING", "COMPLETED"} \cup Held
  /\ Cardinality(Running(task)) <= MaxConcurrency /\ Cardinality({a.node : a \in ToSet(task.attempts)}) = Len(task.attempts)
  /\ Len(task.dedup) <= MaxDedup
  /\ loop.pc \in {"wait", "signalling", "reading", "saving", "starting", "flush", "closing", "dead"}
  /\ (loop.pc \in {"signalling", "reading", "saving", "starting"}) <=> (loop.node # NoNode)

\* Whatever sequence of changes was accepted, expanded and compacted (plan_engine.apply, compact, _expand_sop), the plan is a
\* graph: edges join nodes that are there, no set of nodes waits for itself, and a parent is in the plan or was completed and
\* archived, with nesting at most one level deeper than allowed (the steps of a SOP that is nested itself).
GraphSound ==
  /\ \A e \in task.edges : {e[1], e[2]} \subseteq DOMAIN task.nodes
  /\ \A S \in SUBSET (DOMAIN task.nodes) \ {{}} : \E n \in S : \A e \in task.edges : e[2] = n => e[1] \notin S
  /\ \A n \in DOMAIN task.nodes :
       /\ task.nodes[n].parent \in DOMAIN task.nodes \cup task.archive \cup {NoNode}
       /\ Nesting(task.nodes, n, {n}) \in 0..MaxDepth + 1

\* A change of the plan never touches what is done: a completed, frozen node keeps everything about it, and what it waited for,
\* unless that is archived; it leaves the plan only into the archive, once nothing unfinished waits for it (_check_mutable and compact).
FrozenKept ==
  [][task'.version # task.version =>
       \A n \in DOMAIN task.nodes : task.nodes[n].frozen /\ task.nodes[n].status = "COMPLETED" =>
         \/ /\ n \in DOMAIN task'.nodes /\ task'.nodes[n] = task.nodes[n]
            /\ {e \in task'.edges : e[2] = n} = {e \in task.edges : e[2] = n /\ e[1] \notin task'.archive}
         \/ /\ n \in task'.archive
            /\ \A e \in task.edges : e[1] = n => e[2] \notin DOMAIN task'.nodes \/ task'.nodes[e[2]].status = "COMPLETED"]_vars

\* A SOP stage knows its steps (_sop_child_changed, through every cascade of statuses, compaction and Continue-As-New): a step is
\* open exactly until it was completed, by its attempt, an approval or a person, and with the last one the stage is complete.  An
\* attempt on an open step is told what every step before it handed over that an attempt completed (_handover_to, _bound_state).
SopTracks ==
  \A s \in DOMAIN task.sops \cap DOMAIN task.nodes :
    /\ \A n \in task.sops[s].parts \cap DOMAIN task.nodes : n \in task.sops[s].open <=> ~task.nodes[n].frozen
    /\ task.sops[s].open = {} => task.nodes[s].frozen
    /\ \A n \in task.sops[s].open : StepsBefore(task, n) \cap task.past.worked \subseteq handover_to(task, n)

\* A review the leader is owed does not get lost (_open_reviews and _add_review): it leaves the list when its node is in the plan,
\* when a person is asked to look, or when no attempt completed any of its tasks; and the task is not completed before.
ReviewKept ==
  [][/\ \A r \in ToSet(task.reviews) : (\A x \in ToSet(task'.reviews) : x.of # r.of) =>
          r.id \in DOMAIN task'.nodes \/ task'.status = "PAUSED_NEEDS_REVIEW" \/ r.children \cap task'.past.worked = {}
     /\ task'.status = "COMPLETED" /\ task.status # "COMPLETED" => task'.reviews = <<>>]_vars

\* A command takes effect at most once, however late it is delivered again: when the dedup window has forgotten it, its base
\* version is stale (_remember and the version check of apply).
AppliedOnce == \A i \in DOMAIN sent : sent[i].took <= 1

\* The workflow fails on an unknown node (_require_node, in the main loop and in reports) only when a person removed a node that was
\* being worked on, or completed by hand one that was being started: what agents may change, SOP expansion and compaction never
\* bring it there.
OnlyPeopleKill == loop.pc = "dead" => task.past.cut

\* However attempts overlap, start while others report, fail and are retried, what the task has spent, what its attempts hold and
\* what one that is starting will hold is within what it may spend (_remaining is read before the child's start is awaited, and
\* _settle_attempt releases before the checks).  A task without a limit that is granted one later is left out.
BudgetHeld ==
  scope.budget # NoLimit =>
    task.used + reserved_total(task) + (IF loop.pc = "starting" THEN Max({0, loop.holds}) ELSE 0) <= task.limit

\* A message of a person is never lost between inbox, attempts and follow-ups (_drain_commands, _return_unheard, _attempt_ended):
\* it waits in the inbox, is with an attempt that is starting or in the books, or was answered or refused.  The one exception is a
\* signal confirmed after its attempt left the books.
MessageKept ==
  \A m \in 1..task.messages :
    \/ m \in task.inbox \cup task.past.answered \cup task.past.raced
    \/ loop.pc = "starting" /\ m \in loop.msgs
    \/ \E a \in ToSet(task.attempts) : m \in a.given \cup a.handed

\* A review that is due comes: once its tasks are done it is opened, the task is put on hold, or a task of it is going again
\* (the main loop calls _open_reviews before it schedules and after it flushes).
ReviewComes ==
  \A n \in {Exploration, <<"mention", "1">>} :
    (\E r \in ToSet(task.reviews) : r.of = n /\ \A m \in r.children \cap DOMAIN task.nodes : task.nodes[m].status = "COMPLETED")
      ~> ((\A r \in ToSet(task.reviews) : r.of # n) \/ task.status \in Held \/ loop.pc = "dead")

====
