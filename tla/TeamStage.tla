------------------------------ MODULE TeamStage ------------------------------
(***************************************************************************)
(* The attempt of a team stage (attempt_team): rounds of a leader's turn   *)
(* and the turns of the members it assigns work to, wakes by mentions of   *)
(* the user and of members, questions and approvals of any agent, the      *)
(* user's messages, the limits, Continue-As-New and cancellation.          *)
(*                                                                         *)
(* The workflow is one thread.  Its main coroutine is at `pc`; each member *)
(* has a queue of jobs and at most one drain task on it; `waits` are the   *)
(* conditions that are awaited on messages, in the order they were         *)
(* registered.  Temporal runs whatever is ready, and then resumes at once  *)
(* every coroutine whose condition holds: that is Settle, and every action *)
(* ends with it.                                                           *)
(***************************************************************************)
EXTENDS Integers, Sequences, FiniteSets, SequencesExt, TLC

CONSTANTS
  Members,      \* the roles beside the leader
  Leader,       \* the leader's role
  Mentions,     \* the user's messages: Mentions[m] are the roles message m addresses (resolve_mentions)
  CallLists,    \* what a leader may call when it hands out work: sequences of roles (team_assign) and "ask" (ask_user)
  MaxRounds,    \* limits.max_rounds
  MaxMessages,  \* limits.max_messages
  MaxHops,      \* limits.max_hops
  MaxNotes,     \* bound: notes of members in one behaviour
  MaxParks,     \* bound: questions and approvals agents stop for
  MaxFaults     \* bound: turns that fail or are lost, and a cancel

ASSUME StageAssumption ==
  /\ Leader \notin Members /\ \A m \in DOMAIN Mentions : Mentions[m] \subseteq Members \cup {Leader}
  /\ \A calls \in CallLists : \E i \in DOMAIN calls : calls[i] # "ask"
  /\ {MaxRounds, MaxMessages, MaxHops, MaxNotes, MaxParks, MaxFaults} \subseteq Nat

VARIABLES
  stage,  \* what the workflow holds
  used    \* what has happened of what is bounded: notes, parks, faults, and which messages were sent

vars == <<stage, used>>

Agents == Members \cup {Leader}
NoJob == [call |-> 0, hop |-> 0]
Assign(call) == [call |-> call, hop |-> 0]
Wake(hop) == [call |-> 0, hop |-> hop]

\* TeamRun.start, and an attempt that has run nothing.  Of the mailbox, `mail` keeps the user's messages each agent has not been
\* shown.  `told` and `worked` are for the properties: the messages that were put before an agent, and how often a member worked
\* on each call of the leader.
Started ==
  [pc |-> "top", round |-> 0, messages_used |-> 0, calls |-> <<>>, answers |-> <<>>, pending |-> <<>>, outcome |-> "",
   agents |-> [a \in Agents |-> "idle"], jobs |-> [r \in Members |-> NoJob], queues |-> [r \in Members |-> <<>>],
   waits |-> <<>>, stop |-> FALSE, awaited |-> {}, cancelling |-> {}, messages |-> <<>>, in_flight |-> 0, given |-> {},
   mention_seen |-> {}, heard |-> {}, open |-> {}, mail |-> [a \in Agents |-> {}], told |-> {}, worked |-> <<>>]

Busy(s) == {r \in Members : s.agents[r] # "idle"}

\* The attempt reports to its parent and closes; its coroutines are gone.
Finish(s, outcome) ==
  [Started EXCEPT !.pc = "over", !.outcome = outcome, !.messages = s.messages, !.heard = s.heard, !.told = s.told, !.mail = s.mail,
                  !.in_flight = IF outcome = "cancelled" THEN s.in_flight ELSE 0]

\* What goes back to the task: a cancelled turn keeps what it was given.
unconsumed(s) == SubSeq(s.messages, s.in_flight + 1, Len(s.messages))

-----------------------------------------------------------------------------
(* The queues of the members. *)

\* Mutant: a member that is at work has no queue.
EnqueueIdle(s, role, job) ==
  IF s.agents[role] # "idle" THEN s ELSE [s EXCEPT !.queues[role] = Append(@, job), !.agents[role] = "ready"]

\* A member without a running drain gets one.
enqueue(s, role, job) ==
  [s EXCEPT !.queues[role] = Append(@, job), !.agents[role] = IF @ = "idle" THEN "ready" ELSE @]

RECURSIVE EnqueueEach(_, _, _)
EnqueueEach(s, roles, job) ==
  IF roles = {} THEN s
  ELSE LET role == CHOOSE r \in roles : TRUE IN EnqueueEach(enqueue(s, role, job), roles \ {role}, job)

\* An entry of the mailbox counts against the limit; one of the user's is there for everyone.
post(s, entries) ==
  [s EXCEPT !.messages_used = @ + 1, !.mail = [a \in Agents |-> @[a] \cup entries]]

\* An agent is shown what it has not read; it is read from then on.
unread(s, role) == [s EXCEPT !.mail[role] = {}, !.told = @ \cup s.mail[role]]

Addressed(m) == Mentions[m] \cap Members
has_new_mention(s) == \E m \in ToSet(s.messages) \ s.mention_seen : Addressed(m) # {}

\* A message that addresses members wakes each of them, and stays for the leader when it addresses it too.
take_user_wake(s, m) ==
  LET seen == [s EXCEPT !.mention_seen = @ \cup {m}]
      posted == post([seen EXCEPT !.messages = IF Leader \in Mentions[m] THEN @ ELSE SelectSeq(@, LAMBDA x : x # m),
                                  !.heard = @ \cup {m}], {m})
  IN IF s.messages_used + 2 * Cardinality(Addressed(m)) > MaxMessages THEN seen
     ELSE EnqueueEach(posted, Addressed(m), Wake(0))

NewMentions(s) == SelectSeq(s.messages, LAMBDA m : m \notin s.mention_seen /\ Addressed(m) # {})

RECURSIVE pull_user_wakes(_)
pull_user_wakes(s) == IF NewMentions(s) = <<>> THEN s ELSE pull_user_wakes(take_user_wake(s, NewMentions(s)[1]))

\* Mutant: a chain of mentions has no end.
WakeFromNoteEver(s, role, mentioned, hop) ==
  IF s.messages_used + 2 > MaxMessages THEN s ELSE EnqueueEach(s, mentioned \ {role}, Wake(hop + 1))

\* Those a note mentions take a turn with it, unless the chain is too long or the stage is out of messages.
wake_from_note(s, role, mentioned, hop) ==
  IF hop + 1 > MaxHops \/ s.messages_used + 2 > MaxMessages THEN s ELSE EnqueueEach(s, mentioned \ {role}, Wake(hop + 1))

\* The notes a turn may end with, each by the members it addresses: those of the activity that ended it.
notes_of == {<<>>} \cup {<<mentioned>> : mentioned \in SUBSET Members}

\* The notes of a turn go into the mailbox.
RECURSIVE team_notes(_, _)
team_notes(s, notes) == IF notes = <<>> THEN s ELSE team_notes(post(s, {}), Tail(notes))

\* The next job of a member's queue: the assignment or the wake is a message, and the mailbox is shown with it.
member_job(s, role) ==
  LET job == Head(s.queues[role])
  IN [unread(s, role) EXCEPT !.queues[role] = Tail(@), !.jobs[role] = job, !.agents[role] = "turn", !.messages_used = @ + 1,
               !.worked = IF job.call > 0 THEN [@ EXCEPT ![job.call] = @ + 1] ELSE @]

\* The drain of a member ends; one that was cancelled leaves its queue as it is.
Done(s, role) == [s EXCEPT !.jobs[role] = NoJob, !.agents[role] = "idle", !.awaited = @ \ {role}, !.cancelling = @ \ {role}]

\* drain: the next job, if there is one.
NextJob(s, role) == IF s.queues[role] = <<>> THEN Done(s, role) ELSE [s EXCEPT !.agents[role] = "ready"]

\* A turn ended for want of budget: the stage is ending, and what is queued is dropped.
Stopped(s, role) == Done([s EXCEPT !.stop = TRUE, !.queues = [r \in Members |-> <<>>]], role)

-----------------------------------------------------------------------------
(* The main coroutine, between its awaits. *)

\* What resumes a session that is parked on several calls is exactly one answer for each, in the order of the calls.
external_results(s) == s.pending = [i \in DOMAIN s.calls |-> i]

\* Anything else is refused, and again by every retry: the activity is lost.
deliver_tool_results(s, turn) == IF external_results(s) THEN turn ELSE Finish(s, "failed")

\* The leader's turn begins with the messages there are; the answers to its calls, and what it has not read of the mailbox, are
\* given with it.  Its first turn has no answers, and is not shown the mailbox.
LeaderTurn(s) ==
  LET shown == IF s.pending = <<>> THEN s ELSE unread(s, Leader)
      turn == [shown EXCEPT !.pc = "leader", !.agents[Leader] = "turn", !.in_flight = Len(s.messages), !.given = ToSet(s.messages),
                            !.heard = @ \cup ToSet(s.messages), !.calls = <<>>, !.answers = <<>>, !.pending = <<>>, !.worked = <<>>]
  IN IF s.pending = <<>> THEN turn ELSE deliver_tool_results(s, turn)

Unanswered(s) == {i \in DOMAIN s.calls : s.calls[i] = "ask" /\ i \notin DOMAIN s.answers}

\* The questions among the leader's calls are asked one after the other; then every call has its answer, in the order of the calls.
AskOrFinish(s) ==
  LET done == [s EXCEPT !.pc = "top", !.pending = SelectSeq([i \in DOMAIN s.calls |-> i], LAMBDA i : i \in DOMAIN s.answers)]
  IN CASE Unanswered(s) # {} -> [s EXCEPT !.pc = "asks", !.agents[Leader] = "ask", !.waits = Append(@, Leader)]
       [] s.messages_used > MaxMessages -> Finish(s, "failed")
       [] OTHER -> done

\* _run_assignments returns: nothing is left to do, and nobody watches the messages.
Return(s) ==
  LET t == [s EXCEPT !.waits = SelectSeq(@, LAMBDA w : w # "watch")]
  IN CASE t.pc = "stopping" -> Finish(t, "cancelled")
       [] t.stop -> Finish(t, "failed")
       [] t.pc = "wakes" -> LeaderTurn(t)
       [] OTHER -> AskOrFinish(t)

\* The assignments among the calls, in their order.
RECURSIVE EnqueueCalls(_, _)
EnqueueCalls(s, i) ==
  CASE i > Len(s.calls) -> s
    [] s.calls[i] \in Members -> EnqueueCalls(enqueue(s, s.calls[i], Assign(i)), i + 1)
    [] OTHER -> EnqueueCalls(s, i + 1)

\* _run_assignments begins; the watcher is there while there is something to wait for.
Watched(s) == IF Busy(s) = {} THEN Return(s) ELSE [s EXCEPT !.waits = Append(@, "watch")]
run_assignments(s, pc) ==
  Watched(pull_user_wakes(EnqueueCalls([s EXCEPT !.pc = pc], IF pc = "work" THEN 1 ELSE Len(s.calls) + 1)))

\* An agent is given what the user wrote, all of it, as the answer to its question.
answer(s, agent) ==
  LET t == [s EXCEPT !.messages = <<>>, !.heard = @ \cup ToSet(s.messages), !.told = @ \cup ToSet(s.messages),
                     !.agents[agent] = "turn"]
      call == CHOOSE i \in Unanswered(s) : \A j \in Unanswered(s) : i <= j
  IN IF s.pc = "asks" THEN AskOrFinish([t EXCEPT !.agents[Leader] = "idle", !.answers = (call :> "reply") @@ @]) ELSE t

Resumed(s, w) == IF w = "watch" THEN [pull_user_wakes(s) EXCEPT !.waits = Append(@, "watch")] ELSE answer(s, w)

Holds(s, w) == IF w = "watch" THEN has_new_mention(s) ELSE s.messages # <<>>

RECURSIVE ResumeAll(_, _)
ResumeAll(s, due) == IF due = <<>> THEN s ELSE ResumeAll(Resumed(s, Head(due)), Tail(due))

Woken(s, due) == ResumeAll([s EXCEPT !.waits = SelectSeq(@, LAMBDA w : w \notin ToSet(due))], due)

\* What is ready runs; then every condition that holds is resumed, without looking at it again.
RECURSIVE Settle(_)
Settled(s) ==
  LET due == SelectSeq(s.waits, LAMBDA w : Holds(s, w))
  IN CASE s.pc = "over" -> s
       [] s.pc \in {"wakes", "work"} /\ Busy(s) = {} -> Settle(Return(s))
       [] s.pc = "stopping" /\ s.awaited = {} -> Return(s)
       [] due # <<>> -> Settle(Woken(s, due))
       [] OTHER -> s
Settle(s) ==
  LET ready == {r \in Members : s.agents[r] = "ready"}
  IN IF ready = {} THEN Settled(s) ELSE Settle(member_job(s, CHOOSE r \in ready : TRUE))

-----------------------------------------------------------------------------
(* The steps. *)

Spend(what) == used' = [used EXCEPT ![what] = @ + 1]

\* What the next run is given of the team, and of the attempt.
to_json(s) == [round |-> s.round, messages_used |-> s.messages_used, mail |-> s.mail, pending |-> s.pending]
carry(s) == [messages |-> s.messages, heard |-> s.heard]

from_json(raw) ==
  [Started EXCEPT !.round = raw.round, !.messages_used = raw.messages_used, !.mail = raw.mail, !.pending = raw.pending]
restore(s, carried) == [s EXCEPT !.messages = carried.messages, !.heard = carried.heard]

\* Between two rounds nothing is running: the next run goes on with the team, the messages and what was heard.  The leader's
\* calls, and what is kept for the properties, are no part of the workflow.
ContinueAsNew ==
  /\ stage.pc = "top" /\ stage.mention_seen # {}
  /\ stage' = [restore(from_json(to_json(stage)), carry(stage)) EXCEPT
                  !.calls = stage.calls, !.answers = stage.answers, !.worked = stage.worked, !.told = stage.told]
  /\ UNCHANGED used

\* No round starts past the limit, or on a budget that is spent.
Round ==
  /\ stage.pc = "top"
  /\ \/ stage.round < MaxRounds /\ stage' = Settle(run_assignments([stage EXCEPT !.round = @ + 1], "wakes"))
     \/ stage.round > 0 /\ stage' = Finish(stage, "failed")
  /\ UNCHANGED used

\* What an approval of an agent is known by: its role, and the id of the call.
awaiting(agent) == agent

\* Mutant: the task is told of the leader's approvals alone.
NotifyParentLeader(s, approvals) == [s EXCEPT !.open = @ \cup (approvals \cap {awaiting(Leader)})]

\* The task is told what people are asked: the approvals are open until they are decided; a question takes the next message.
notify_parent_parked(s, approvals) == [s EXCEPT !.open = @ \cup approvals]

park_approval(s, agent) == notify_parent_parked([s EXCEPT !.agents[agent] = "approval"], {awaiting(agent)})
team_ask(s, agent) == notify_parent_parked([s EXCEPT !.agents[agent] = "ask", !.waits = Append(@, agent)], {})

\* An agent stops for people, in the middle of its turn; its session keeps what it was given (the notes it made so far
\* are in a result that is not the one that ends the turn, and are not posted).
Parks(agent) ==
  /\ stage.agents[agent] = "turn" /\ used.parks < MaxParks
  /\ LET saved == [stage EXCEPT !.told = IF agent = Leader THEN @ \cup stage.given ELSE @, !.cancelling = @ \ {agent}]
     IN stage' = park_approval(saved, agent) \/ stage' = Settle(team_ask(saved, agent))
  /\ Spend("parks")

\* Mutant: a failed turn's messages are consumed with it.
ConsumeFailed(s, failed) ==
  [s EXCEPT !.messages = SubSeq(@, s.in_flight + 1, Len(@)), !.told = IF failed THEN @ ELSE @ \cup s.given,
            !.in_flight = 0, !.given = {}, !.agents[Leader] = "idle", !.cancelling = {}]

\* What the leader's turn was given is consumed, unless the turn failed.
consume(s, failed) ==
  [s EXCEPT !.messages = IF failed THEN @ ELSE SubSeq(@, s.in_flight + 1, Len(@)),
            !.heard = IF failed THEN @ \ s.given ELSE @, !.told = IF failed THEN @ ELSE @ \cup s.given,
            !.in_flight = 0, !.given = {}, !.agents[Leader] = "idle", !.cancelling = {}]

Valid(calls) == {i \in DOMAIN calls : calls[i] \in Members}

\* The leader handed out work: what the limits leave no room for ends the stage; a member nobody knows is an error of the call.
assigned(s, calls) ==
  LET called == [s EXCEPT !.calls = calls, !.worked = [i \in DOMAIN calls |-> 0],
                          !.answers = [i \in {j \in DOMAIN calls : calls[j] \notin Members \cup {"ask"}} |-> "error"]]
  IN IF \/ Valid(calls) # {} /\ s.round >= MaxRounds
        \/ s.messages_used + 2 * Cardinality(Valid(calls)) > MaxMessages
     THEN Finish(s, "failed")
     ELSE run_assignments(called, "work")

Faulty(outcome) == IF outcome \in {"failed", "lost", "budget"} THEN used.faults < MaxFaults /\ Spend("faults") ELSE UNCHANGED used

\* The leader's turn ends, with an answer or without; its activity may also be lost for good.
LeaderEnds ==
  /\ stage.pc = "leader" /\ stage.agents[Leader] = "turn"
  /\ \E outcome \in {"completed", "failed", "lost"} :
       /\ Faulty(outcome)
       /\ stage' = IF outcome = "lost" THEN Finish(stage, "failed") ELSE Finish(consume(stage, outcome = "failed"), outcome)

Noted(notes) == IF notes = <<>> THEN UNCHANGED used ELSE used.notes < MaxNotes /\ Spend("notes")

\* It may have posted a note first, which wakes nobody.
LeaderAssigns ==
  /\ stage.pc = "leader" /\ stage.agents[Leader] = "turn"
  /\ \E calls \in CallLists, notes \in {<<>>, <<{}>>} :
       /\ stage' = Settle(assigned(team_notes(consume(stage, FALSE), notes), calls))
       /\ Noted(notes)

\* The result of a member: the answer to the leader's call, or a post for the group.
replied(s, role, outcome) ==
  LET call == s.jobs[role].call
      said == IF outcome = "completed" THEN post(s, {}) ELSE s
      state == IF outcome = "completed" THEN "success" ELSE "error"
  IN [said EXCEPT !.answers = IF call > 0 THEN (call :> state) @@ @ ELSE @,
                  !.cancelling = @ \ {role}, !.agents[role] = IF outcome = "budget" THEN "stopping" ELSE "saying"]

MemberEnds(role) ==
  /\ stage.agents[role] = "turn"
  /\ \/ \E outcome \in {"failed", "lost", "budget"} : Faulty(outcome) /\ stage' = replied(stage, role, outcome)
     \/ \E notes \in notes_of :
          LET noted == team_notes(stage, notes)
              woken == IF notes = <<>> THEN noted ELSE wake_from_note(noted, role, Head(notes), stage.jobs[role].hop)
          IN Noted(notes) /\ stage' = Settle(replied(woken, role, "completed"))

\* The events of the turn are published, and the drain goes on.
MemberSaid(role) ==
  /\ \/ stage.agents[role] = "saying" /\ stage' = Settle(NextJob(pull_user_wakes(stage), role))
     \/ stage.agents[role] = "stopping" /\ stage' = Settle(Stopped(stage, role))
  /\ UNCHANGED used

deliver_messages(m) ==
  /\ stage.pc # "over" /\ m \notin used.sent
  /\ stage' = Settle([stage EXCEPT !.messages = Append(@, m)])
  /\ used' = [used EXCEPT !.sent = @ \cup {m}]

\* A decision resumes the agent that waits for it.
approval_decided(key) ==
  /\ \E agent \in Agents :
       /\ stage.agents[agent] = "approval" /\ awaiting(agent) = key
       /\ stage' = [stage EXCEPT !.open = @ \ {key}, !.agents[agent] = "turn"]
  /\ UNCHANGED used

\* The task cancels the attempt.  A coroutine that awaits a person or a publication ends at once; one that awaits a turn ends
\* when the turn does, and goes on as if nothing were when the turn ends by itself.
Cancel ==
  /\ stage.pc # "over" /\ ~used.cancel
  /\ used' = [used EXCEPT !.cancel = TRUE]
  /\ LET turns == {r \in Members : stage.agents[r] = "turn"}
         asking == {r \in Members : stage.agents[r] = "approval"}
         stopped == [stage EXCEPT
           !.pc = "stopping", !.awaited = turns, !.cancelling = turns, !.waits = <<>>, !.open = @ \ {awaiting(r) : r \in asking},
           !.jobs = [r \in Members |-> IF r \in turns THEN stage.jobs[r] ELSE NoJob],
           !.agents = [a \in Agents |-> IF a \in turns THEN "turn" ELSE "idle"]]
     IN stage' = CASE stage.pc \in {"wakes", "work"} -> Settle(stopped)
                   [] stage.agents[Leader] = "turn" -> [stage EXCEPT !.cancelling = {Leader}]
                   [] OTHER -> Finish(stage, "cancelled")

TurnCancelled(agent) ==
  /\ agent \in stage.cancelling
  /\ stage' = IF agent = Leader THEN Finish([stage EXCEPT !.told = @ \cup stage.given], "cancelled") ELSE Settle(Done(stage, agent))
  /\ UNCHANGED used

Init ==
  /\ stage = Started
  /\ used = [notes |-> 0, parks |-> 0, faults |-> 0, sent |-> {}, cancel |-> FALSE]

Next ==
  \/ ContinueAsNew \/ Round \/ LeaderEnds \/ LeaderAssigns \/ Cancel
  \/ \E a \in Agents : Parks(a) \/ TurnCancelled(a)
  \/ \E r \in Members : MemberEnds(r) \/ MemberSaid(r)
  \/ \E m \in DOMAIN Mentions : deliver_messages(m)
  \/ \E key \in stage.open : approval_decided(key)

\* Activities end (they have timeouts and a bounded number of retries) and workflow tasks are run; people owe nothing.  Every such
\* step of the main coroutine changes `pc` or the leader, every such step of a member the member: weak fairness, written out.
Fairness ==
  /\ []<>(stage.pc # "top" /\ stage.agents[Leader] # "turn") \/ []<><<TRUE>>_<<stage.pc, stage.agents[Leader]>>
  /\ \A r \in Members :
       []<>(stage.agents[r] \notin {"turn", "saying", "stopping"}) \/ []<><<TRUE>>_(stage.agents[r])

Spec == Init /\ [][Next]_vars /\ Fairness

-----------------------------------------------------------------------------
Jobs == [call : 0..4, hop : 0..MaxHops]

\* The fields hold what the code puts there; no job is further down a chain of mentions than the limit, whichever way the members'
\* notes, the user's mentions and the queues interleave (_wake_from_note).
TypeOK ==
  /\ stage.pc \in {"top", "wakes", "leader", "work", "asks", "stopping", "over"}
  /\ stage.round \in 0..MaxRounds /\ stage.messages_used \in Nat /\ stage.in_flight \in Nat
  /\ stage.outcome \in {"", "completed", "failed", "cancelled"} /\ stage.stop \in BOOLEAN
  /\ stage.agents \in [Agents -> {"idle", "turn", "ask", "approval", "saying", "stopping"}]
  /\ stage.jobs \in [Members -> Jobs] /\ \A r \in Members : ToSet(stage.queues[r]) \subseteq Jobs
  /\ ToSet(stage.waits) \subseteq Agents \cup {"watch"} /\ stage.awaited \subseteq Members
  /\ stage.cancelling \subseteq Agents /\ stage.open \subseteq Agents
  /\ UNION {ToSet(stage.messages), UNION {stage.mail[a] : a \in Agents}, stage.given, stage.mention_seen, stage.heard, stage.told} \subseteq used.sent

\* When the leader goes on, every call of its last turn has its answer, in the order of the calls, and each call that named a
\* member was worked on by one turn of it; no member is at work, nothing is queued and nobody waits for the user (_team_round,
\* _run_assignments).
AnsweredInFull ==
  stage.pc = "top" =>
    /\ stage.pending = [i \in DOMAIN stage.calls |-> i]
    /\ \A i \in DOMAIN stage.calls : stage.worked[i] = IF stage.calls[i] \in Members THEN 1 ELSE 0
    /\ Busy(stage) = {} /\ stage.waits = <<>> /\ \A r \in Members : stage.queues[r] = <<>>

\* A message the attempt counts as heard was put before an agent, or is still queued, or goes back to the task with the report, or
\* is in the mailbox of a member that has a turn to come: the watcher, a question and the leader's turn may each take it (_consume,
\* _team_ask, _take_user_wakes, unread, _notify_parent_finished).  Only in a stage that is stopped or cancelled is it left unread.
MessageHeard ==
  LET ending == stage.stop \/ stage.pc = "stopping" \/ stage.outcome \in {"failed", "cancelled"}
      toCome == {r \in Members : ending \/ stage.queues[r] # <<>>}
  IN stage.heard \subseteq UNION {stage.told, ToSet(IF stage.pc = "over" THEN unconsumed(stage) ELSE stage.messages),
                                 UNION {stage.mail[r] : r \in toCome}}

WaitsForPerson == stage.open # {} \/ \E a \in Agents : stage.agents[a] = "ask"

\* The stage never stands still on its own: again and again it is over or waits for a decision or an answer that a person was
\* asked for and still owes (_run_team, _team_park_approval).
StageEnds == []<>(stage.pc = "over" \/ WaitsForPerson)
=============================================================================
