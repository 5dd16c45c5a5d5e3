----------------------- MODULE TaskAttendanceProofs -----------------------
(***************************************************************************)
(* Nothing stays on the books for ever for want of someone to take it off, *)
(* for any plan and any bounds: an attempt on them has a child, a report,  *)
(* a handler, a timer or a command that will see to it.  It rests on the   *)
(* order Temporal gives the two answers of a child that starts and ends at *)
(* once: its start is handled before its report (EarlyReports is FALSE).   *)
(*                                                                         *)
(* And nobody waits for ever for the verdict on a proposal, where no       *)
(* command cancels attempts: what is under verification stays on the books *)
(* until its verdict is written.                                           *)
(***************************************************************************)
EXTENDS TaskVerdictProofs

\* The provers' time for a leaf, in seconds.
USE ZenonT(3), SMTT(30), ZenonT(60)

\* A command awaits the answer to the cancel request of the attempt.
Awaited(a) == \E c \in Controls : control[c].st = "busy" /\ control[c].on = a

\* An attempt whose child has closed has a report to come, one being settled, or was terminated;
\* one that is being cancelled has a handler or a timer that will see to it; and one whose end was
\* taken up is still being settled.
Tended ==
    \A a \in Ids :
        /\ (IsOpen(a) \/ Starting(a)) /\ child[a] = "closed" => HasOutcome(a) \/ finish[a] # "idle" \/ a \in lost
        /\ IsOpen(a) /\ att[a].cancelling => a \in fallback \/ finish[a] # "idle" \/ Awaited(a)
        /\ IsOpen(a) /\ att[a].finishing => finish[a] # "idle"
-----------------------------------------------------------------------------
(* The step lemmas.                                                        *)

\* What a step has to leave: it closes no child without a report, drops nothing an attempt on the
\* books waits for, and cancels none without a handler for it.
LEMMA TendedStep ==
    ASSUME Tended,
           \A a \in Ids : IsOpen(a)' => IsOpen(a) \/ (Starting(a) /\ ~att'[a].cancelling /\ ~att'[a].finishing),
           \A a \in Ids : Starting(a)' => Starting(a) \/ child'[a] # "closed",
           \A a \in Ids : child'[a] = "closed" => child[a] = "closed" \/ HasOutcome(a)' \/ a \in lost',
           \A a \in Ids : IsOpen(a)' \/ Starting(a)' =>
                             /\ HasOutcome(a) => HasOutcome(a)' \/ finish'[a] # "idle"
                             /\ finish[a] # "idle" => finish'[a] # "idle",
           lost \subseteq lost',
           \A a \in Ids : IsOpen(a)' =>
                             /\ att'[a].cancelling => att[a].cancelling \/ Awaited(a)'
                             /\ att'[a].finishing => att[a].finishing \/ finish'[a] # "idle"
                             /\ att'[a].cancelling /\ a \in fallback => a \in fallback' \/ finish'[a] # "idle"
                             /\ Awaited(a) => Awaited(a)' \/ a \in fallback'
    PROVE  Tended'
<1> SUFFICES ASSUME NEW a \in Ids
             PROVE  /\ (IsOpen(a)' \/ Starting(a)') /\ child'[a] = "closed" =>
                          HasOutcome(a)' \/ finish'[a] # "idle" \/ a \in lost'
                    /\ IsOpen(a)' /\ att'[a].cancelling => a \in fallback' \/ finish'[a] # "idle" \/ Awaited(a)'
                    /\ IsOpen(a)' /\ att'[a].finishing => finish'[a] # "idle"
  BY DEF Tended
<1>1. /\ (IsOpen(a) \/ Starting(a)) /\ child[a] = "closed" => HasOutcome(a) \/ finish[a] # "idle" \/ a \in lost
      /\ IsOpen(a) /\ att[a].cancelling => a \in fallback \/ finish[a] # "idle" \/ Awaited(a)
      /\ IsOpen(a) /\ att[a].finishing => finish[a] # "idle"
  BY DEF Tended
<1>2. (IsOpen(a)' \/ Starting(a)') /\ child'[a] = "closed" => HasOutcome(a)' \/ finish'[a] # "idle" \/ a \in lost'
  BY <1>1
<1>3. IsOpen(a)' /\ att'[a].cancelling => a \in fallback' \/ finish'[a] # "idle" \/ Awaited(a)'
  BY <1>1
<1>4. IsOpen(a)' /\ att'[a].finishing => finish'[a] # "idle"
  BY <1>1
<1> QED BY <1>2, <1>3, <1>4

SameEnds == \A a \in Ids : att'[a].cancelling = att[a].cancelling /\ att'[a].finishing = att[a].finishing

\* Parking, resuming, closing and judging an attempt neither cancel nor end it.
LEMMA NoEnd ==
    ASSUME TypeOK, NEW b \in Ids, NEW x,
           att' = att \/ att' = [att EXCEPT ![b].st = x] \/ att' = [att EXCEPT ![b].closed = x]
             \/ att' = [att EXCEPT ![b].verdict = x] \/ att' = [att EXCEPT ![b].verdict = x, ![b].counted = TRUE]
    PROVE  SameEnds
<1>0. att \in [Ids -> Attempt]
  BY DEF TypeOK, BookTypes
<1> SUFFICES ASSUME NEW a \in Ids  PROVE att'[a].cancelling = att[a].cancelling /\ att'[a].finishing = att[a].finishing
  BY DEF SameEnds
<1>1. att[a] \in Attempt
  BY <1>0
<1>2. CASE a # b
  <2>1. att'[a] = att[a]
    BY <1>0, <1>2
  <2> QED BY <2>1
<1>3. CASE a = b
  <2>1. \/ att'[a] = att[a] \/ att'[a] = [att[a] EXCEPT !.st = x]
        \/ att'[a] = [att[a] EXCEPT !.closed = x] \/ att'[a] = [att[a] EXCEPT !.verdict = x]
        \/ att'[a] = [att[a] EXCEPT !.verdict = x, !.counted = TRUE]
    BY <1>0, <1>3
  <2> QED BY <1>1, <2>1, ZenonT(60) DEF Attempt
<1> QED BY <1>2, <1>3

\* A step that closes no child, handles no report and cancels nothing.
LEMMA TendedFrame ==
    ASSUME Tended, SameEnds, UNCHANGED <<open, fallback, finish, control, mail, lost>>,
           \A a \in Ids : child'[a] = "closed" => child[a] = "closed",
           pc' # "StartChild" \/ UNCHANGED <<pc, at>>
    PROVE  Tended'
<1>1. \A a \in Ids : Starting(a)' => Starting(a)
  BY DEF Starting
<1>2. \A a \in Ids : (IsOpen(a)' <=> IsOpen(a)) /\ (HasOutcome(a)' <=> HasOutcome(a)) /\ (Awaited(a)' <=> Awaited(a))
  BY DEF IsOpen, HasOutcome, Awaited
<1> QED BY <1>1, <1>2, TendedStep DEF SameEnds

\* A report that is no outcome hides none.
LEMMA OutcomeStays ==
    ASSUME TypeOK, NEW a \in Ids, mail[a] # <<>>, mail'[a] = Tail(mail[a]), Head(mail[a]) \notin Outcomes, HasOutcome(a)
    PROVE  HasOutcome(a)'
<1>1. mail[a] \in Seq(Report)
  BY DEF TypeOK, ChildTypes
<1>2. PICK i \in 1..Len(mail[a]) : mail[a][i] \in Outcomes
  BY DEF HasOutcome
<1>3. mail[a][1] = Head(mail[a]) /\ i # 1
  BY <1>1, <1>2
<1>4. i - 1 \in 1..Len(Tail(mail[a])) /\ Tail(mail[a])[i - 1] = mail[a][i]
  BY <1>1, <1>2, <1>3
<1> QED BY <1>2, <1>4 DEF HasOutcome

\* A new report adds to those that wait.
LEMMA OutcomeAdded ==
    ASSUME TypeOK, NEW a \in Ids, NEW r \in Report,
           mail'[a] = Append(mail[a], r) \/ mail'[a] = mail[a] \o <<r, r>>
    PROVE  (HasOutcome(a) => HasOutcome(a)') /\ (r \in Outcomes => HasOutcome(a)')
<1>1. mail[a] \in Seq(Report) /\ Len(mail[a]) \in Nat
  BY DEF TypeOK, ChildTypes
<1>2. /\ \A i \in 1..Len(mail[a]) : i \in 1..Len(mail'[a]) /\ mail'[a][i] = mail[a][i]
      /\ Len(mail[a]) + 1 \in 1..Len(mail'[a]) /\ mail'[a][Len(mail[a]) + 1] = r
  <2>1. CASE mail'[a] = Append(mail[a], r)
    BY <1>1, <2>1
  <2>2. CASE mail'[a] = mail[a] \o <<r, r>>
    <3>1. <<r, r>> \in Seq(Report) /\ Len(<<r, r>>) = 2 /\ <<r, r>>[1] = r
      OBVIOUS
    <3>2. /\ Len(mail[a] \o <<r, r>>) = Len(mail[a]) + 2
          /\ \A i \in 1..Len(mail[a]) : (mail[a] \o <<r, r>>)[i] = mail[a][i]
          /\ (mail[a] \o <<r, r>>)[Len(mail[a]) + 1] = r
      BY <1>1, <3>1
    <3> QED BY <1>1, <2>2, <3>2
  <2> QED BY <2>1, <2>2
<1> QED BY <1>2, ZenonT(60) DEF HasOutcome

\* The attempt leaves the books, and nothing that another one waits for goes with it.
LEMMA TendedOff ==
    ASSUME TypeOK, Tended, NEW a \in Ids, TakeOffBooks(a) \/ (~IsOpen(a) /\ UNCHANGED open), ~Starting(a),
           UNCHANGED <<pc, at, control, child, lost>>,
           \A b \in Ids : b # a => /\ finish'[b] = finish[b] /\ mail'[b] = mail[b] /\ att'[b] = att[b]
                                   /\ b \in fallback => b \in fallback'
    PROVE  Tended'
<1>1. open \in [Nodes -> 0..MaxNo] /\ a[1] \in Nodes /\ a[2] # 0
  BY IdParts DEF TypeOK, BookTypes
<1>2. \A b \in Ids : b[1] \in Nodes /\ b[2] # 0
  BY IdParts
<1>3. ~IsOpen(a)' /\ ~Starting(a)'
  BY <1>1 DEF IsOpen, TakeOffBooks, Starting
<1>4. \A b \in Ids : (IsOpen(b)' => IsOpen(b)) /\ (Starting(b)' <=> Starting(b)) /\ (Awaited(b)' <=> Awaited(b))
  BY <1>1, <1>2 DEF IsOpen, TakeOffBooks, Starting, Awaited
<1>5. \A b \in Ids : b # a => (HasOutcome(b)' <=> HasOutcome(b))
  BY DEF HasOutcome
<1> QED BY <1>3, <1>4, <1>5, TendedStep

\* The main loop, apart from the start of an attempt: it hands messages over, verifies proposals, and
\* the run that follows a Continue-As-New arms the fallback of every attempt that is being cancelled.
LEMMA TendedLoop ==
    ASSUME TypeOK, Tended,
           \/ DrainDone \/ ScheduleDone \/ Derive \/ Flushed \/ Judge \/ CompletedFlushed \/ Rest \/ WakeUp
           \/ Close \/ LastFlushed \/ StartLeaving \/ LeavingPass
           \/ DrainMessageStays \/ (\E a \in Ids : DrainMessage(a)) \/ Delivered \/ Refused
           \/ DrainCompletion \/ (\E ok \in BOOLEAN : SettleProposal(ok))
    PROVE  Tended'
<1> USE DEF planVars, bookVars, loopVars, handVars, childVars
<1>0. UNCHANGED <<open, fallback, finish, control, mail, lost>>
  BY ZenonT(60) DEF DrainDone, ScheduleDone, Derive, Flushed, Judge, CompletedFlushed, Rest, WakeUp, Close, LastFlushed,
         StartLeaving, LeavingPass, DrainMessageStays, DrainMessage, Delivered, Refused, DrainCompletion, SettleProposal
<1>1. pc' # "StartChild" \/ UNCHANGED <<pc, at>>
  BY ZenonT(60) DEF DrainDone, ScheduleDone, Derive, Flushed, Judge, CompletedFlushed, Rest, WakeUp, Close, LastFlushed,
         StartLeaving, LeavingPass, DrainMessageStays, DrainMessage, Delivered, Refused, DrainCompletion,
         SettleProposal, LoopTop, FlushTo
<1>2. \A a \in Ids : child'[a] = "closed" => child[a] = "closed"
  <2>1. ASSUME NEW b \in Ids, DrainMessage(b)  PROVE \A a \in Ids : child'[a] = "closed" => child[a] = "closed"
    BY <2>1 DEF DrainMessage, TypeOK, ChildTypes
  <2>2. UNCHANGED child \/ \E b \in Ids : DrainMessage(b)
    BY ZenonT(60) DEF DrainDone, ScheduleDone, Derive, Flushed, Judge, CompletedFlushed, Rest, WakeUp, Close, LastFlushed,
           StartLeaving, LeavingPass, DrainMessageStays, Delivered, Refused, DrainCompletion, SettleProposal
  <2> QED BY <2>1, <2>2
<1>3. ASSUME SameEnds  PROVE Tended'
  BY <1>0, <1>1, <1>2, <1>3, TendedFrame
<1> HIDE <1>1
<1>4. CASE Delivered \/ Refused \/ \E ok \in BOOLEAN : SettleProposal(ok)
  <2>1. at \in Ids
    BY <1>4, AtType, ZenonT(60) DEF Delivered, Refused, SettleProposal
  <2>2. \E x : att' = att \/ att' = [att EXCEPT ![at].st = x] \/ att' = [att EXCEPT ![at].closed = x]
             \/ att' = [att EXCEPT ![at].verdict = x] \/ att' = [att EXCEPT ![at].verdict = x, ![at].counted = TRUE]
    BY <1>4, ZenonT(60) DEF Delivered, Refused, SettleProposal, ResumeParked
  <2> QED BY <1>3, <2>1, <2>2, NoEnd
<1>5. CASE DrainCompletion
  <2>1. att' = att \/ (Head(commands)[2] \in Ids /\ att' = [att EXCEPT ![Head(commands)[2]].verdict = "verifying"])
    BY <1>5 DEF DrainCompletion, TypeOK, MsgTypes, Command
  <2>2. ASSUME att' = att  PROVE Tended'
    BY <1>3, <2>2 DEF SameEnds
  <2> QED BY <1>3, <2>1, <2>2, NoEnd, ZenonT(60)
<1>6. CASE UNCHANGED att
  BY <1>3, <1>6 DEF SameEnds
<1> QED BY <1>4, <1>5, <1>6, ZenonT(60)
    DEF DrainDone, ScheduleDone, Derive, Flushed, Judge, CompletedFlushed, Rest, WakeUp, Close, LastFlushed,
        StartLeaving, LeavingPass, DrainMessageStays, DrainMessage

\* A Continue-As-New waits until no handler is left and arms the fallback of every attempt that is
\* being cancelled.
LEMMA TendedAnew ==
    ASSUME Tended, ContinueAsNew
    PROVE  Tended'
<1>1. /\ UNCHANGED <<open, att, finish, control, mail, lost, child>> /\ pc' = "Drain"
      /\ fallback' = {a \in OpenIds : att[a].cancelling}
  BY DEF ContinueAsNew, handVars, childVars
<1>2. \A a \in Ids : IsOpen(a)' /\ att'[a].cancelling => a \in fallback'
  BY <1>1 DEF OpenIds, IsOpen
<1>3. \A a \in Ids : (IsOpen(a)' <=> IsOpen(a)) /\ (HasOutcome(a)' <=> HasOutcome(a)) /\ (Awaited(a)' <=> Awaited(a))
                     /\ ~Starting(a)'
  BY <1>1 DEF IsOpen, HasOutcome, Awaited, Starting
<1> QED BY <1>1, <1>2, <1>3, TendedStep

\* A child that is started is running, and what it reported by the time it is on the books is kept.
LEMMA TendedStart ==
    ASSUME TypeOK, Verdicts, Tended, AttemptStarted \/ \E n \in Nodes : ScheduleNode(n)
    PROVE  Tended'
<1>1. CASE AttemptStarted
  <2>1. /\ at \in Ids /\ at[1] \in Nodes /\ at = <<at[1], at[2]>> /\ Starting(at) /\ pc' = "Schedule"
        /\ open' = [open EXCEPT ![at[1]] = at[2]] /\ att' = [att EXCEPT ![at] = NewAttempt]
        /\ UNCHANGED <<fallback, finish, control, child, mail, lost>>
    BY <1>1, AtType DEF AttemptStarted, Starting, handVars, childVars
  <2>2. open \in [Nodes -> 0..MaxNo] /\ att \in [Ids -> Attempt]
    BY DEF TypeOK, BookTypes
  <2>3. \A a \in Ids : a # at => (IsOpen(a)' => IsOpen(a)) /\ att'[a] = att[a]
    BY <2>1, <2>2, IdParts DEF IsOpen
  <2>4. ~att'[at].cancelling /\ ~att'[at].finishing
    BY <2>1, <2>2 DEF NewAttempt
  <2>5. \A a \in Ids : ~Starting(a)' /\ (HasOutcome(a)' <=> HasOutcome(a)) /\ (Awaited(a)' <=> Awaited(a))
    BY <2>1 DEF HasOutcome, Awaited, Starting
  <2> QED BY <2>1, <2>3, <2>4, <2>5, TendedStep
<1>2. ASSUME NEW n \in Nodes, ScheduleNode(n)  PROVE Tended'
  <2>1. UNCHANGED <<open, att, fallback, finish, control, mail, lost>>
    BY <1>2 DEF ScheduleNode, bookVars, handVars
  <2>2. CASE UNCHANGED <<pc, at, child>>
    BY <2>1, <2>2, TendedFrame DEF SameEnds
  <2>3. CASE at' = <<n, nodes[n].count + 1>> /\ child' = [child EXCEPT ![<<n, nodes[n].count + 1>>] = "running"]
    <3>1. \A a \in Ids : child'[a] = "closed" => child[a] = "closed"
      BY <2>3 DEF TypeOK, ChildTypes
    <3>2. \A a \in Ids : Starting(a)' => child'[a] # "closed"
      BY <2>3 DEF TypeOK, ChildTypes, Starting
    <3>3. \A a \in Ids : (IsOpen(a)' <=> IsOpen(a)) /\ (HasOutcome(a)' <=> HasOutcome(a)) /\ (Awaited(a)' <=> Awaited(a))
      BY <2>1 DEF IsOpen, HasOutcome, Awaited
    <3> QED BY <2>1, <3>1, <3>2, <3>3, TendedStep
  <2> QED BY <1>2, <2>2, <2>3 DEF ScheduleNode
<1> QED BY <1>1, <1>2

\* A child closes with a report, or is lost; a parked one has reported nothing that ends it.
LEMMA TendedChild ==
    ASSUME TypeOK, Tended, NEW a \in Ids, ChildNext(a)
    PROVE  Tended'
<1>1. UNCHANGED <<open, att, fallback, finish, control, pc, at>>
  BY ZenonT(60) DEF ChildNext, ChildEnds, ChildFinishes, ChildParks, ChildCancelled, ChildLost, ChildStep, bookVars,
     loopVars, handVars
<1>2. \A b \in Ids : (IsOpen(b)' <=> IsOpen(b)) /\ (Starting(b)' <=> Starting(b)) /\ (Awaited(b)' <=> Awaited(b))
  BY <1>1 DEF IsOpen, Starting, Awaited
<1>3. child \in [Ids -> {"none", "running", "parkedApproval", "parkedInput", "closed"}] /\ mail \in [Ids -> Seq(Report)]
  BY DEF TypeOK, ChildTypes
<1>4. \A b \in Ids : b # a => child'[b] = child[b] /\ mail'[b] = mail[b]
  BY <1>3, ZenonT(60) DEF ChildNext, ChildEnds, ChildFinishes, ChildParks, ChildCancelled, ChildLost, ChildCloses
<1>5. \A b \in Ids : b # a => (HasOutcome(b)' <=> HasOutcome(b))
  BY <1>4 DEF HasOutcome
<1>6. lost \subseteq lost'
  BY ZenonT(60) DEF ChildNext, ChildEnds, ChildFinishes, ChildParks, ChildCancelled, ChildLost
<1>7. ASSUME HasOutcome(a) => HasOutcome(a)',
             child'[a] = "closed" => child[a] = "closed" \/ HasOutcome(a)' \/ a \in lost'
      PROVE  Tended'
  BY <1>1, <1>2, <1>4, <1>5, <1>6, <1>7, TendedStep
<1>8. ASSUME NEW r \in Outcomes, mail' = [mail EXCEPT ![a] = Append(@, r)] \/ mail' = [mail EXCEPT ![a] = @ \o <<r, r>>]
      PROVE  Tended'
  <2>1. r \in Report /\ (mail'[a] = Append(mail[a], r) \/ mail'[a] = mail[a] \o <<r, r>>)
    BY <1>3, <1>8, ZenonT(60) DEF Report
  <2>2. HasOutcome(a)'
    BY <1>8, <2>1, OutcomeAdded
  <2> QED BY <1>7, <2>2
<1>9. CASE ChildEnds(a)
  BY <1>8, <1>9, ZenonT(60) DEF ChildEnds, ChildFinishes, ChildCancelled, Outcomes
<1>10. CASE ChildLost(a)
  <2>1. a \in lost' /\ mail' = mail
    BY <1>10 DEF ChildLost
  <2> QED BY <1>7, <2>1 DEF HasOutcome
<1>11. ASSUME NEW r \in {"parkedApproval", "parkedInput"}, ChildParks(a, r)  PROVE Tended'
  <2>1. r \in Report /\ mail'[a] = Append(mail[a], r)
    BY <1>3, <1>11 DEF ChildParks, Report
  <2>2. child'[a] = child[a] \/ child'[a] = r
    BY <1>3, <1>11 DEF ChildParks
  <2> QED BY <1>7, <2>1, <2>2, OutcomeAdded, ZenonT(60)
<1> QED BY <1>9, <1>10, <1>11 DEF ChildNext
-----------------------------------------------------------------------------
(* The handlers and the commands.                                          *)

\* A report is handled: it is dropped for an attempt that is not on the books or is being settled,
\* it parks the attempt, it ends it, or it goes on to be verified.
LEMMA TendedReport ==
    ASSUME TypeOK, Tended, ~EarlyReports, NEW a \in Ids,
           \/ ReportDropped(a) \/ AttemptParked(a) \/ AttemptToVerify(a)
           \/ \E spent \in BOOLEAN : AttemptFinished(a, spent)
    PROVE  Tended'
<1>0. Handles(a)
  BY DEF ReportDropped, AttemptParked, AttemptToVerify, AttemptFinished
<1>1. /\ ~Starting(a) /\ UNCHANGED <<pc, at, control, child, lost>> /\ mail[a] # <<>>
      /\ mail' = [mail EXCEPT ![a] = Tail(@)]
  BY <1>0 DEF Handles, Starting, loopVars
<1>2. /\ mail \in [Ids -> Seq(Report)] /\ att \in [Ids -> Attempt]
      /\ finish \in [Ids -> {"idle", "awaitVerdict", "verifying"}] /\ att[a] \in Attempt
  BY DEF TypeOK, ChildTypes, BookTypes, HandTypes
<1>3. mail'[a] = Tail(mail[a]) /\ \A b \in Ids : b # a => mail'[b] = mail[b]
  BY <1>1, <1>2
<1>4. \A b \in Ids : (Starting(b)' <=> Starting(b)) /\ (Awaited(b)' <=> Awaited(b))
  BY <1>1 DEF Starting, Awaited
<1>5. \A b \in Ids : b # a => (HasOutcome(b)' <=> HasOutcome(b))
  BY <1>3 DEF HasOutcome
<1>6. CASE ReportDropped(a)
  <2>1. UNCHANGED <<open, att, fallback, finish>> /\ (~IsOpen(a) \/ att[a].finishing)
    BY <1>6 DEF ReportDropped, bookVars
  <2>2. IsOpen(a) => finish[a] # "idle"
    BY <2>1 DEF Tended
  <2>3. \A b \in Ids : IsOpen(b)' <=> IsOpen(b)
    BY <2>1 DEF IsOpen
  <2> QED BY <1>1, <1>4, <1>5, <2>1, <2>2, <2>3, TendedStep
<1>7. CASE AttemptParked(a)
  <2>1. /\ UNCHANGED <<open, fallback, finish>> /\ Parks(Head(mail[a]))
        /\ \E x : att' = [att EXCEPT ![a].st = x]
    BY <1>7, ZenonT(60) DEF AttemptParked
  <2>2. Head(mail[a]) \notin Outcomes
    BY <2>1 DEF Parks, Outcomes
  <2>3. HasOutcome(a) => HasOutcome(a)'
    BY <1>1, <1>3, <2>2, OutcomeStays
  <2>4. SameEnds
    BY <2>1, NoEnd, ZenonT(60)
  <2>5. \A b \in Ids : IsOpen(b)' <=> IsOpen(b)
    BY <2>1 DEF IsOpen
  <2> QED BY <1>1, <1>4, <1>5, <2>1, <2>3, <2>4, <2>5, TendedStep DEF SameEnds
<1>8. CASE AttemptToVerify(a)
  <2>1. /\ UNCHANGED open /\ fallback' = fallback \ {a} /\ finish'[a] # "idle"
        /\ \A b \in Ids : b # a => att'[b] = att[b] /\ finish'[b] = finish[b]
    BY <1>2, <1>8 DEF AttemptToVerify, AttemptEnded
  <2>2. att'[a].cancelling = att[a].cancelling
    <3>1. att'[a] = [[att[a] EXCEPT !.finishing = TRUE, !.st = "completed"] EXCEPT !.verdict = "verifying"]
      BY <1>2, <1>8 DEF AttemptToVerify, EndedAs
    <3> QED BY <1>2, <3>1 DEF Attempt
  <2>3. \A b \in Ids : IsOpen(b)' <=> IsOpen(b)
    BY <2>1 DEF IsOpen
  <2>4. \A b \in Ids : b # a => (b \in fallback <=> b \in fallback')
    BY <2>1
  <2> QED BY <1>1, <1>4, <1>5, <2>1, <2>2, <2>3, <2>4, TendedStep
<1>9. ASSUME NEW spent \in BOOLEAN, AttemptFinished(a, spent)  PROVE Tended'
  <2>1. TakeOffBooks(a) /\ fallback' = fallback \ {a} /\ UNCHANGED finish
    BY <1>9 DEF AttemptFinished, MarkAttemptCancelled, SettleAttempt, AttemptEnded
  <2>2. \E x : att' = [att EXCEPT ![a] = x]
    BY <1>9 DEF AttemptFinished, SettleAttempt
  <2>3. \A b \in Ids : b # a => att'[b] = att[b]
    BY <1>2, <2>2
  <2> QED BY <1>1, <1>3, <2>1, <2>3, TendedOff
<1> QED BY <1>6, <1>7, <1>8, <1>9

\* The answers handlers wait for: a verification takes the attempt off the books, whatever became of it
\* meanwhile, and so does the fallback.
LEMMA TendedAnswer ==
    ASSUME TypeOK, Verdicts, Tended, NEW a \in Ids,
           \/ \E spent, ok \in BOOLEAN : AttemptVerified(a, ok, spent)
           \/ CancelFallback(a) \/ DecisionSignalled(a)
    PROVE  Tended'
<1>0. /\ att \in [Ids -> Attempt] /\ finish \in [Ids -> {"idle", "awaitVerdict", "verifying"}] /\ att[a] \in Attempt
      /\ nodes[a[1]].count \in Nat
  BY IdParts, LifecycleConstants DEF TypeOK, BookTypes, HandTypes, PlanTypes, NodeState
<1>1. Starting(a) => finish[a] = "idle" /\ ~IsOpen(a)
  <2>1. a[2] = nodes[a[1]].count + 1 => ~(a[2] <= nodes[a[1]].count)
    BY <1>0
  <2> QED BY <2>1 DEF Verdicts, Numbered
<1>2. ASSUME NEW spent \in BOOLEAN, NEW ok \in BOOLEAN, AttemptVerified(a, ok, spent)  PROVE Tended'
  <2>1. /\ finish[a] # "idle" /\ UNCHANGED <<pc, at, control, child, mail, lost>>
        /\ finish' = [finish EXCEPT ![a] = "idle"]
    BY <1>2 DEF AttemptVerified, loopVars, childVars
  <2>2. /\ TakeOffBooks(a) \/ (~IsOpen(a) /\ UNCHANGED open)
        /\ fallback' = fallback \/ fallback' = fallback \ {a}
    BY <1>2, ZenonT(60) DEF AttemptVerified, SettleAttempt, MarkAttemptCancelled
  <2>3. \E x : att' = [att EXCEPT ![a] = x] \/ att' = [att EXCEPT ![a].verdict = x]
    BY <1>2, ZenonT(60) DEF AttemptVerified, SettleAttempt
  <2>4. \A b \in Ids : b # a => att'[b] = att[b] /\ finish'[b] = finish[b] /\ mail'[b] = mail[b]
    BY <1>0, <2>1, <2>3
  <2> QED BY <1>1, <2>1, <2>2, <2>4, TendedOff
<1>3. CASE CancelFallback(a)
  <2>1. UNCHANGED <<pc, at, control, child, mail, lost, finish, att>> /\ fallback' = fallback \ {a}
    BY <1>3, ZenonT(60) DEF CancelFallback, MarkAttemptCancelled, loopVars, handVars, childVars
  <2>2. (TakeOffBooks(a) /\ IsOpen(a)) \/ (~IsOpen(a) /\ UNCHANGED open)
    BY <1>3, ZenonT(60) DEF CancelFallback, MarkAttemptCancelled
  <2>3. CASE ~Starting(a)
    BY <2>1, <2>2, <2>3, TendedOff, ZenonT(60)
  <2>4. CASE Starting(a)
    <3>1. UNCHANGED open
      BY <1>1, <2>2, <2>4
    <3>2. \A b \in Ids : (IsOpen(b)' <=> IsOpen(b)) /\ (Starting(b)' <=> Starting(b)) /\ (Awaited(b)' <=> Awaited(b))
                         /\ (HasOutcome(b)' <=> HasOutcome(b))
      BY <2>1, <3>1 DEF IsOpen, Starting, Awaited, HasOutcome
    <3>3. \A b \in Ids : IsOpen(b)' => b # a
      BY <1>1, <2>4, <3>2
    <3>4. \A b \in Ids : b # a /\ b \in fallback => b \in fallback'
      BY <2>1
    <3> QED BY <2>1, <3>2, <3>3, <3>4, TendedStep, ZenonT(60)
  <2> QED BY <2>3, <2>4
<1>4. CASE DecisionSignalled(a)
  <2> DEFINE att1 == [att EXCEPT ![a].closed = @ \/ (deciding[a] = "gone" /\ IsOpen(a))]
  <2>1. /\ att' = att1 \/ att' = [att1 EXCEPT ![a].st = "RUNNING"]
        /\ UNCHANGED <<open, fallback, finish, control, pc, at, child, mail, lost>>
    BY <1>4 DEF DecisionSignalled, loopVars, childVars
  <2>2. \A b \in Ids : b # a => att'[b] = att[b]
    BY <1>0, <2>1
  <2>3. \E x : \/ att'[a] = [att[a] EXCEPT !.closed = x]
               \/ att'[a] = [[att[a] EXCEPT !.closed = x] EXCEPT !.st = "RUNNING"]
    BY <1>0, <2>1, ZenonT(60)
  <2>4. att'[a].cancelling = att[a].cancelling /\ att'[a].finishing = att[a].finishing
    BY <1>0, <2>3, ZenonT(60) DEF Attempt
  <2>5. SameEnds
    BY <2>2, <2>4 DEF SameEnds
  <2> QED BY <2>1, <2>5, TendedFrame
<1> QED BY <1>2, <1>3, <1>4

\* A command cancels an attempt and awaits the answer; when it goes on, the fallback of the attempt it
\* awaited is armed.
LEMMA TendedControl ==
    ASSUME TypeOK, Tended, NEW c \in Controls, NEW action, NEW rest \in SUBSET Ids, NEW said,
           ControlStep(c, action, rest, said), control[c].st # "busy" \/ control[c].on \in fallback',
           fallback \subseteq fallback', UNCHANGED <<open, finish, pc, at, child, mail, lost>>
    PROVE  Tended'
<1>0. att \in [Ids -> Attempt] /\ control \in [Controls -> Handler]
  BY DEF TypeOK, BookTypes, HandTypes
<1>1. \A b \in Ids : (IsOpen(b)' <=> IsOpen(b)) /\ (Starting(b)' <=> Starting(b)) /\ (HasOutcome(b)' <=> HasOutcome(b))
  BY DEF IsOpen, Starting, HasOutcome
<1>2. \A d \in Controls : d # c => control'[d] = control[d]
  BY <1>0 DEF ControlStep
<1>3. \A b \in Ids : Awaited(b) => Awaited(b)' \/ b \in fallback'
  BY <1>2 DEF Awaited
<1>4. \A b \in Ids : /\ att'[b].finishing = att[b].finishing
                     /\ att'[b].cancelling => att[b].cancelling \/ Awaited(b)'
  <2>1. CASE UNCHANGED att
    BY <2>1
  <2>2. ASSUME NEW a \in Ids,
               control' = [control EXCEPT ![c] = [st |-> "busy", action |-> action, rest |-> rest \ {a}, on |-> a]],
               att' = [att EXCEPT ![a].cancelling = TRUE]
        PROVE  \A b \in Ids : /\ att'[b].finishing = att[b].finishing
                              /\ att'[b].cancelling => att[b].cancelling \/ Awaited(b)'
    <3>1. \A b \in Ids : b # a => att'[b] = att[b]
      BY <1>0, <2>2
    <3>2. att'[a] = [att[a] EXCEPT !.cancelling = TRUE] /\ att[a] \in Attempt
      BY <1>0, <2>2
    <3>3. att'[a].finishing = att[a].finishing
      BY <3>2 DEF Attempt
    <3>4. control'[c].st = "busy" /\ control'[c].on = a
      BY <1>0, <2>2
    <3>5. Awaited(a)'
      BY <3>4 DEF Awaited
    <3> QED BY <3>1, <3>3, <3>5
  <2>3. ToCancel(action, rest) \subseteq Ids
    BY DEF ToCancel
  <2> QED BY <2>1, <2>2, <2>3 DEF ControlStep
<1> QED BY <1>1, <1>3, <1>4, TendedStep

\* The commands of users, agents and operators.
LEMMA TendedCommand ==
    ASSUME TypeOK, Tended,
           CommandStep \/ (\E c \in Controls : ControlGoesOn(c)) \/ (\E n \in Nodes : BackoffOver(n))
    PROVE  Tended'
<1> USE DEF bookVars, loopVars, handVars, childVars
<1>1. ASSUME UNCHANGED <<bookVars, loopVars, handVars, childVars>>  PROVE Tended'
  BY <1>1, TendedFrame DEF SameEnds
<1>2. CASE SendMessage \/ (\E a \in Ids : ProposeCompletion(a) \/ DeclareBlocked(a))
           \/ (\E n \in Nodes : CompleteNode(n) \/ BackoffOver(n))
  BY <1>1, <1>2, ZenonT(60) DEF SendMessage, ProposeCompletion, DeclareBlocked, CompleteNode, BackoffOver
<1>3. ASSUME NEW a \in Ids, DecideApproval(a)  PROVE Tended'
  <2>1. UNCHANGED <<open, fallback, finish, control, mail, lost, pc, at>>
    BY <1>3 DEF DecideApproval
  <2>2. att' = att \/ att' = [att EXCEPT ![a].st = "RUNNING"]
    BY <1>3 DEF DecideApproval, ResumeParked
  <2>3. \A b \in Ids : child'[b] = "closed" => child[b] = "closed"
    BY <1>3 DEF DecideApproval, TypeOK, ChildTypes
  <2> QED BY <2>1, <2>2, <2>3, NoEnd, TendedFrame, ZenonT(60)
<1>4. ASSUME NEW c \in Controls, NEW action \in ControlActions, ControlArrives(c, action)  PROVE Tended'
  <2>1. /\ OpenIds \in SUBSET Ids /\ control[c].st # "busy" /\ ControlStep(c, action, OpenIds, action = "interrupt")
        /\ UNCHANGED <<open, fallback, finish, pc, at, child, mail, lost>>
    BY <1>4 DEF ControlArrives, OpenIds
  <2> DEFINE said == action = "interrupt"
  <2>2. ControlStep(c, action, OpenIds, said)
    BY <2>1
  <2> HIDE DEF said
  <2> QED BY <2>1, <2>2, TendedControl
<1>5. ASSUME NEW c \in Controls, ControlGoesOn(c)  PROVE Tended'
  <2>1. /\ control[c].rest \in SUBSET Ids /\ fallback' = fallback \cup {control[c].on}
        /\ ControlStep(c, control[c].action, control[c].rest, FALSE)
        /\ UNCHANGED <<open, finish, pc, at, child, mail, lost>>
    BY <1>5, ZenonT(60) DEF ControlGoesOn, TypeOK, HandTypes, Handler
  <2> QED BY <2>1, TendedControl, ZenonT(60)
<1> QED BY <1>2, <1>3, <1>4, <1>5, ZenonT(60) DEF CommandStep

\* No attempt is on the books at the start.
LEMMA TendedInit == Init => Tended
<1> SUFFICES ASSUME Init, NEW a \in Ids  PROVE ~IsOpen(a) /\ ~Starting(a)
  BY DEF Tended
<1>1. a[1] \in Nodes /\ a[2] # 0
  BY IdParts
<1> QED BY <1>1 DEF Init, IsOpen, Starting

\* Every step keeps it.
LEMMA TendedNext == ASSUME ~EarlyReports  PROVE TypeOK /\ Verdicts /\ Tended /\ [Next]_vars => Tended'
<1> SUFFICES ASSUME TypeOK, Verdicts, Tended, [Next]_vars  PROVE Tended'
  OBVIOUS
<1>1. CASE MainStep
  BY <1>1, TendedLoop, TendedAnew, TendedStart, ZenonT(60) DEF MainStep
<1>2. ASSUME NEW a \in Ids, HandlerStep(a)  PROVE Tended'
  BY <1>2, TendedReport, TendedAnswer, ZenonT(60) DEF HandlerStep
<1>3. CASE UNCHANGED vars
  BY <1>3, TendedFrame DEF vars, SameEnds, bookVars, loopVars, handVars, childVars
<1> QED BY <1>1, <1>2, <1>3, TendedChild, TendedCommand, ZenonT(60) DEF Next

\* For any plan and any bounds, an attempt on the books has something that will take it off: a child
\* that is alive, a report on its way or being settled, a command that awaits its cancellation, or an
\* armed fallback, which a Continue-As-New arms again (_await_cancelled, _finish_attempt, run).  The
\* proviso is that the parent handles the start of a child before its report, which is what Temporal
\* does with two answers that come in that order.
THEOREM AttemptsAttended == ASSUME ~EarlyReports  PROVE Spec => []Attended
<1>1. Tended => Attended
  BY DEF Tended, Attended, Awaited, HasOutcome
<1>2. Init => Tended
  BY TendedInit
<1>3. TypeOK /\ Verdicts /\ Tended /\ [Next]_vars => Tended'
  BY TendedNext
<1> QED BY <1>1, <1>2, <1>3, TypeCorrect, VerdictsStand, PTL DEF Spec
-----------------------------------------------------------------------------
(* The verdict on a proposal, where nothing takes an attempt off the books *)
(* while its end is being settled.                                         *)

\* No command that cancels the attempts on the books is given.
NoneInterrupts == ControlActions \cap (Interrupts \cup {"cancel"}) = {}

\* Nothing is being cancelled; an attempt whose end is being settled is on the books and takes no
\* other report; one that is being verified is so by its own handler or by the main loop; and the
\* node of the attempt that is being started has no other.
Waited ==
    /\ fallback = {} /\ \A c \in Controls : control[c].st # "busy"
    /\ pc = "StartChild" => open[at[1]] = 0
    /\ \A a \in Ids :
        /\ ~att[a].cancelling
        /\ finish[a] # "idle" => IsOpen(a) /\ att[a].finishing
        /\ IsOpen(a) /\ att[a].verdict = "verifying" =>
              finish[a] = "verifying" \/ (pc = "VerifyProposal" /\ at = a)

SameJudging == \A a \in Ids : att'[a].verdict = att[a].verdict

\* Parking, resuming and closing an attempt do not judge it.
LEMMA NoJudging ==
    ASSUME TypeOK, NEW b \in Ids, NEW x,
           att' = att \/ att' = [att EXCEPT ![b].st = x] \/ att' = [att EXCEPT ![b].closed = x]
    PROVE  SameJudging
<1>0. att \in [Ids -> Attempt]
  BY DEF TypeOK, BookTypes
<1> SUFFICES ASSUME NEW a \in Ids  PROVE att'[a].verdict = att[a].verdict
  BY DEF SameJudging
<1>1. att[a] \in Attempt
  BY <1>0
<1>2. CASE a # b
  <2>1. att'[a] = att[a]
    BY <1>0, <1>2
  <2> QED BY <2>1
<1>3. CASE a = b
  <2>1. att'[a] = att[a] \/ att'[a] = [att[a] EXCEPT !.st = x] \/ att'[a] = [att[a] EXCEPT !.closed = x]
    BY <1>0, <1>3
  <2> QED BY <1>1, <2>1, ZenonT(60) DEF Attempt
<1> QED BY <1>2, <1>3

\* A step of the main loop, of a child or of a command that judges nothing and cancels nothing.
LEMMA WaitedFrame ==
    ASSUME Waited, SameEnds, SameJudging, UNCHANGED <<open, fallback, finish>>,
           \A c \in Controls : control'[c].st # "busy",
           UNCHANGED <<pc, at>> \/ (pc # "VerifyProposal" /\ pc' # "StartChild")
    PROVE  Waited'
<1>1. \A a \in Ids : IsOpen(a)' <=> IsOpen(a)
  BY DEF IsOpen
<1>2. \A a \in Ids : /\ ~att'[a].cancelling
                     /\ finish'[a] # "idle" => IsOpen(a)' /\ att'[a].finishing
  BY <1>1 DEF Waited, SameEnds
<1>3. \A a \in Ids : IsOpen(a)' /\ att'[a].verdict = "verifying" =>
                        finish'[a] = "verifying" \/ (pc' = "VerifyProposal" /\ at' = a)
  BY <1>1 DEF Waited, SameJudging
<1> QED BY <1>2, <1>3 DEF Waited

\* A step that has to do with one attempt only, and leaves the main loop where it is.
LEMMA WaitedOne ==
    ASSUME TypeOK, Waited, NEW a \in Ids, UNCHANGED <<pc, at, control>>, fallback' \subseteq fallback,
           UNCHANGED open \/ (IsOpen(a) /\ TakeOffBooks(a)),
           \A b \in Ids : b # a => att'[b] = att[b] /\ finish'[b] = finish[b],
           ~att'[a].cancelling,
           finish'[a] # "idle" => UNCHANGED open /\ IsOpen(a) /\ att'[a].finishing,
           IsOpen(a)' /\ att'[a].verdict = "verifying" => finish'[a] = "verifying" \/ (pc = "VerifyProposal" /\ at = a)
    PROVE  Waited'
<1>1. open \in [Nodes -> 0..MaxNo] /\ \A b \in Ids : b[1] \in Nodes /\ b[2] # 0 /\ b = <<b[1], b[2]>>
  BY IdParts DEF TypeOK, BookTypes
<1>2. \A b \in Ids : b # a => (IsOpen(b)' <=> IsOpen(b))
  <2> SUFFICES ASSUME NEW b \in Ids, b # a  PROVE IsOpen(b)' <=> IsOpen(b)
    OBVIOUS
  <2>1. CASE UNCHANGED open
    BY <2>1 DEF IsOpen
  <2>2. CASE IsOpen(a) /\ TakeOffBooks(a) /\ b[1] # a[1]
    BY <1>1, <2>2 DEF IsOpen, TakeOffBooks
  <2>3. CASE IsOpen(a) /\ TakeOffBooks(a) /\ b[1] = a[1]
    <3>1. b[2] # a[2] /\ open[b[1]] = a[2] /\ open'[b[1]] = 0 /\ b[2] # 0
      BY <1>1, <2>3 DEF IsOpen, TakeOffBooks
    <3> QED BY <3>1 DEF IsOpen
  <2> QED BY <2>1, <2>2, <2>3
<1>3. finish'[a] # "idle" => IsOpen(a)'
  BY DEF IsOpen
<1>4. \A b \in Ids : /\ ~att'[b].cancelling
                     /\ finish'[b] # "idle" => IsOpen(b)' /\ att'[b].finishing
  BY <1>2, <1>3 DEF Waited
<1>5. \A b \in Ids : IsOpen(b)' /\ att'[b].verdict = "verifying" =>
                        finish'[b] = "verifying" \/ (pc' = "VerifyProposal" /\ at' = b)
  BY <1>2 DEF Waited
<1>6. pc' = "StartChild" => open'[at'[1]] = 0
  <2> SUFFICES ASSUME pc = "StartChild"  PROVE open'[at[1]] = 0
    OBVIOUS
  <2>1. at[1] \in Nodes /\ open[at[1]] = 0
    BY AtType DEF Waited
  <2> QED BY <1>1, <2>1 DEF TakeOffBooks
<1>7. fallback' = {} /\ \A c \in Controls : control'[c].st # "busy"
  BY DEF Waited
<1> QED BY <1>4, <1>5, <1>6, <1>7, ZenonT(60) DEF Waited

\* The main loop, apart from what it verifies and starts.
LEMMA WaitedLoop ==
    ASSUME TypeOK, Waited,
           \/ DrainDone \/ ScheduleDone \/ Derive \/ Flushed \/ Judge \/ CompletedFlushed \/ Rest \/ WakeUp
           \/ Close \/ LastFlushed \/ StartLeaving \/ LeavingPass \/ ContinueAsNew
           \/ DrainMessageStays \/ (\E a \in Ids : DrainMessage(a)) \/ Delivered \/ Refused
    PROVE  Waited'
<1> USE DEF planVars, bookVars, loopVars, handVars, childVars
<1>0. UNCHANGED <<open, finish, control>>
  BY ZenonT(60) DEF DrainDone, ScheduleDone, Derive, Flushed, Judge, CompletedFlushed, Rest, WakeUp, Close, LastFlushed,
         StartLeaving, LeavingPass, ContinueAsNew, DrainMessageStays, DrainMessage, Delivered, Refused
<1>1. UNCHANGED fallback
  <2>1. CASE ContinueAsNew
    <3>1. fallback' = {a \in OpenIds : att[a].cancelling}
      BY <2>1 DEF ContinueAsNew
    <3> QED BY <3>1 DEF Waited, OpenIds
  <2> QED BY <2>1, ZenonT(60) DEF DrainDone, ScheduleDone, Derive, Flushed, Judge, CompletedFlushed, Rest, WakeUp, Close,
             LastFlushed, StartLeaving, LeavingPass, DrainMessageStays, DrainMessage, Delivered, Refused
<1>2. UNCHANGED <<pc, at>> \/ (pc # "VerifyProposal" /\ pc' # "StartChild")
  BY ZenonT(60) DEF DrainDone, ScheduleDone, Derive, Flushed, Judge, CompletedFlushed, Rest, WakeUp, Close, LastFlushed,
         StartLeaving, LeavingPass, ContinueAsNew, DrainMessageStays, DrainMessage, Delivered, Refused, LoopTop, FlushTo
<1>3. \A c \in Controls : control'[c].st # "busy"
  BY <1>0 DEF Waited
<1>4. ASSUME SameEnds, SameJudging  PROVE Waited'
  BY <1>0, <1>1, <1>2, <1>3, <1>4, WaitedFrame
<1> HIDE <1>2
<1>5. CASE Delivered \/ Refused
  <2>1. at \in Ids
    BY <1>5, AtType, ZenonT(60) DEF Delivered, Refused
  <2>2. \E x : att' = att \/ att' = [att EXCEPT ![at].st = x] \/ att' = [att EXCEPT ![at].closed = x]
    BY <1>5, ZenonT(60) DEF Delivered, Refused, ResumeParked
  <2> QED BY <1>4, <2>1, <2>2, NoEnd, NoJudging, ZenonT(60)
<1>6. CASE UNCHANGED att
  BY <1>4, <1>6 DEF SameEnds, SameJudging
<1> QED BY <1>5, <1>6, ZenonT(60)
    DEF DrainDone, ScheduleDone, Derive, Flushed, Judge, CompletedFlushed, Rest, WakeUp, Close, LastFlushed,
        StartLeaving, LeavingPass, ContinueAsNew, DrainMessageStays, DrainMessage

\* The main loop verifies one proposal at a time, and marks the attempt with the verdict.
LEMMA WaitedProposal ==
    ASSUME TypeOK, Waited, DrainCompletion \/ \E ok \in BOOLEAN : SettleProposal(ok)
    PROVE  Waited'
<1> USE DEF planVars, bookVars, loopVars, handVars, childVars
<1>0. /\ UNCHANGED <<open, finish, control, fallback>> /\ att \in [Ids -> Attempt]
      /\ \A b \in Ids : IsOpen(b)' <=> IsOpen(b)
  BY ZenonT(60) DEF DrainCompletion, SettleProposal, TypeOK, BookTypes, IsOpen
<1>1. \A c \in Controls : control'[c].st # "busy"
  BY <1>0 DEF Waited
<1>2. ASSUME NEW a \in Ids, NEW x, pc' # "StartChild",
             att' = att \/ att' = [att EXCEPT ![a].verdict = x] \/ att' = [att EXCEPT ![a].verdict = x, ![a].counted = TRUE],
             \A b \in Ids : IsOpen(b) /\ att'[b].verdict = "verifying" =>
                               finish[b] = "verifying" \/ (pc' = "VerifyProposal" /\ at' = b)
      PROVE  Waited'
  <2>1. SameEnds
    BY <1>2, NoEnd
  <2>2. \A b \in Ids : /\ ~att'[b].cancelling
                       /\ finish'[b] # "idle" => IsOpen(b)' /\ att'[b].finishing
    BY <1>0, <2>1 DEF Waited, SameEnds
  <2> QED BY <1>0, <1>1, <1>2, <2>2 DEF Waited
<1>3. CASE DrainCompletion
  <2> DEFINE a == Head(commands)[2]
  <2>1. a \in Ids /\ pc = "Drain"
    BY <1>3 DEF DrainCompletion, TypeOK, MsgTypes, Command
  <2>2. CASE UNCHANGED <<att, pc, at>>
    BY <1>0, <1>1, <2>2, WaitedFrame DEF SameEnds, SameJudging
  <2>3. CASE att' = [att EXCEPT ![a].verdict = "verifying"] /\ pc' = "VerifyProposal" /\ at' = a
    <3>1. \A b \in Ids : b # a => att'[b] = att[b]
      BY <1>0, <2>3
    <3>2. \A b \in Ids : IsOpen(b) /\ att'[b].verdict = "verifying" =>
                            finish[b] = "verifying" \/ (pc' = "VerifyProposal" /\ at' = b)
      BY <2>1, <2>3, <3>1 DEF Waited
    <3> HIDE DEF a
    <3> QED BY <1>2, <2>1, <2>3, <3>2, ZenonT(60)
  <2> QED BY <1>3, <2>2, <2>3 DEF DrainCompletion
<1>4. ASSUME NEW ok \in BOOLEAN, SettleProposal(ok)  PROVE Waited'
  <2>1. at \in Ids /\ att[at] \in Attempt /\ pc' = "Drain"
    BY <1>0, <1>4, AtType DEF SettleProposal
  <2>2. PICK x \in {"accepted", "rejected"} :
            IF IsOpen(at)
            THEN att' = [att EXCEPT ![at].verdict = x] \/ att' = [att EXCEPT ![at].verdict = x, ![at].counted = TRUE]
            ELSE att' = att
    BY <1>4, ZenonT(60) DEF SettleProposal
  <2>3. \A b \in Ids : b # at => att'[b] = att[b]
    BY <1>0, <2>2
  <2>4. IsOpen(at) => att'[at].verdict = x
    <3>1. IsOpen(at) => att'[at] = [att[at] EXCEPT !.verdict = x] \/ att'[at] = [att[at] EXCEPT !.verdict = x, !.counted = TRUE]
      BY <1>0, <2>1, <2>2
    <3> QED BY <2>1, <3>1, ZenonT(60) DEF Attempt
  <2>5. \A b \in Ids : IsOpen(b) /\ att'[b].verdict = "verifying" => finish[b] = "verifying"
    BY <2>2, <2>3, <2>4 DEF Waited
  <2> QED BY <1>2, <2>1, <2>2, <2>5
<1> QED BY <1>3, <1>4

\* A node gets a new attempt only when it has none on the books, so no other one is pushed off them.
LEMMA WaitedStart ==
    ASSUME TypeOK, Waited, AttemptStarted \/ \E n \in Nodes : ScheduleNode(n)
    PROVE  Waited'
<1>1. CASE AttemptStarted
  <2>1. /\ at \in Ids /\ at[1] \in Nodes /\ pc = "StartChild" /\ pc' = "Schedule"
        /\ open' = [open EXCEPT ![at[1]] = at[2]] /\ att' = [att EXCEPT ![at] = NewAttempt]
        /\ UNCHANGED <<fallback, finish, control>> /\ open[at[1]] = 0
    BY <1>1, AtType DEF AttemptStarted, handVars, Waited
  <2>2. /\ open \in [Nodes -> 0..MaxNo] /\ att \in [Ids -> Attempt]
        /\ \A b \in Ids : b[1] \in Nodes /\ b[2] # 0 /\ b = <<b[1], b[2]>>
    BY IdParts DEF TypeOK, BookTypes
  <2>3. \A a \in Ids : a # at => (IsOpen(a)' <=> IsOpen(a)) /\ att'[a] = att[a]
    <3> SUFFICES ASSUME NEW a \in Ids, a # at  PROVE (IsOpen(a)' <=> IsOpen(a)) /\ att'[a] = att[a]
      OBVIOUS
    <3>1. att'[a] = att[a]
      BY <2>1, <2>2
    <3>2. CASE a[1] # at[1]
      BY <2>1, <2>2, <3>1, <3>2 DEF IsOpen
    <3>3. CASE a[1] = at[1]
      <4>1. a[2] # at[2]
        BY <2>1, <2>2, <3>3
      <4>2. ~IsOpen(a) /\ ~IsOpen(a)'
        BY <2>1, <2>2, <3>3, <4>1 DEF IsOpen
      <4> QED BY <3>1, <4>2
    <3> QED BY <3>2, <3>3
  <2>4. ~att'[at].cancelling /\ att'[at].verdict = "none"
    BY <2>1, <2>2 DEF NewAttempt
  <2>5. finish[at] = "idle"
    BY <2>1, <2>2 DEF Waited, IsOpen
  <2>6. \A a \in Ids : /\ ~att'[a].cancelling
                       /\ finish'[a] # "idle" => IsOpen(a)' /\ att'[a].finishing
                       /\ IsOpen(a)' /\ att'[a].verdict = "verifying" => finish'[a] = "verifying"
    BY <2>1, <2>3, <2>4, <2>5 DEF Waited
  <2> QED BY <2>1, <2>6 DEF Waited
<1>2. ASSUME NEW n \in Nodes, ScheduleNode(n)  PROVE Waited'
  <2>1. UNCHANGED <<open, att, fallback, finish, control>> /\ pc = "Schedule"
    BY <1>2 DEF ScheduleNode, bookVars, handVars
  <2>2. CASE UNCHANGED <<pc, at>>
    BY <2>1, <2>2, WaitedFrame DEF SameEnds, SameJudging, Waited
  <2>3. CASE open[n] = 0 /\ at' = <<n, nodes[n].count + 1>>
    BY <2>1, <2>3 DEF Waited, IsOpen
  <2> QED BY <1>2, <2>2, <2>3 DEF ScheduleNode
<1> QED BY <1>1, <1>2

\* A report is handled only while the end of its attempt is not being settled.
LEMMA WaitedReport ==
    ASSUME TypeOK, Waited, NEW a \in Ids,
           \/ ReportDropped(a) \/ AttemptParked(a) \/ AttemptToVerify(a)
           \/ \E spent \in BOOLEAN : AttemptFinished(a, spent)
    PROVE  Waited'
<1>0. UNCHANGED <<pc, at, control>> /\ att \in [Ids -> Attempt] /\ att[a] \in Attempt /\ ~att[a].cancelling
      /\ finish \in [Ids -> {"idle", "awaitVerdict", "verifying"}]
  BY DEF ReportDropped, AttemptParked, AttemptToVerify, AttemptFinished, Handles, loopVars, TypeOK, BookTypes,
         HandTypes, Waited
<1>1. CASE ReportDropped(a)
  BY <1>0, <1>1, WaitedFrame DEF ReportDropped, bookVars, SameEnds, SameJudging, Waited
<1>2. CASE AttemptParked(a)
  <2>1. UNCHANGED <<open, fallback, finish>> /\ \E x : att' = [att EXCEPT ![a].st = x]
    BY <1>2, ZenonT(60) DEF AttemptParked
  <2>2. SameEnds /\ SameJudging
    BY <2>1, NoEnd, NoJudging, ZenonT(60)
  <2> QED BY <1>0, <2>1, <2>2, WaitedFrame DEF Waited
<1>3. CASE AttemptToVerify(a)
  <2>1. /\ UNCHANGED open /\ fallback' \subseteq fallback /\ IsOpen(a) /\ ~att[a].finishing
        /\ \A b \in Ids : b # a => att'[b] = att[b] /\ finish'[b] = finish[b]
    BY <1>0, <1>3 DEF AttemptToVerify, AttemptEnded
  <2>2. att'[a] = [[att[a] EXCEPT !.finishing = TRUE, !.st = "completed"] EXCEPT !.verdict = "verifying"]
    BY <1>0, <1>3 DEF AttemptToVerify, EndedAs
  <2>3. ~att'[a].cancelling /\ att'[a].finishing
    BY <1>0, <2>2 DEF Attempt
  <2>4. finish'[a] = "verifying" \/ att[a].verdict = "verifying"
    BY <1>0, <1>3 DEF AttemptToVerify
  <2>5. finish[a] = "idle"
    BY <2>1 DEF Waited
  <2>6. finish'[a] = "verifying" \/ (pc = "VerifyProposal" /\ at = a)
    BY <2>1, <2>4, <2>5 DEF Waited
  <2> QED BY <1>0, <2>1, <2>3, <2>6, WaitedOne
<1>4. ASSUME NEW spent \in BOOLEAN, AttemptFinished(a, spent)  PROVE Waited'
  <2>1. TakeOffBooks(a) /\ IsOpen(a) /\ fallback' \subseteq fallback /\ UNCHANGED finish /\ ~att[a].finishing
    BY <1>4 DEF AttemptFinished, MarkAttemptCancelled, SettleAttempt, AttemptEnded
  <2>2. \E x : att' = [att EXCEPT ![a] = [EndedAs(a, Head(mail[a])) EXCEPT !.counted = x]]
               \/ att' = [att EXCEPT ![a] = EndedAs(a, Head(mail[a]))]
    BY <1>4, ZenonT(60) DEF AttemptFinished, SettleAttempt
  <2>3. \A b \in Ids : b # a => att'[b] = att[b]
    BY <1>0, <2>2
  <2>4. ~att'[a].cancelling
    <3>1. \E x : att'[a] = [EndedAs(a, Head(mail[a])) EXCEPT !.counted = x] \/ att'[a] = EndedAs(a, Head(mail[a]))
      BY <1>0, <2>2, ZenonT(60)
    <3> QED BY <1>0, <3>1, ZenonT(60) DEF EndedAs, Attempt
  <2>5. finish'[a] = "idle"
    BY <2>1 DEF Waited
  <2>6. ~IsOpen(a)'
    BY <2>1, IdParts DEF IsOpen, TakeOffBooks, TypeOK, BookTypes
  <2> QED BY <1>0, <2>1, <2>3, <2>4, <2>5, <2>6, WaitedOne
<1> QED BY <1>1, <1>2, <1>3, <1>4

\* A verification that is answered ends the settling of its attempt and takes it off the books.
LEMMA WaitedAnswer ==
    ASSUME TypeOK, Waited, NEW a \in Ids,
           \/ \E spent, ok \in BOOLEAN : AttemptVerified(a, ok, spent)
           \/ CancelFallback(a) \/ DecisionSignalled(a)
    PROVE  Waited'
<1>0. /\ att \in [Ids -> Attempt] /\ att[a] \in Attempt /\ ~att[a].cancelling
      /\ finish \in [Ids -> {"idle", "awaitVerdict", "verifying"}]
  BY DEF TypeOK, BookTypes, HandTypes, Waited
<1>1. ASSUME NEW spent \in BOOLEAN, NEW ok \in BOOLEAN, AttemptVerified(a, ok, spent)  PROVE Waited'
  <2>1. finish[a] # "idle" /\ UNCHANGED <<pc, at, control>> /\ finish' = [finish EXCEPT ![a] = "idle"]
    BY <1>1 DEF AttemptVerified, loopVars
  <2>2. IsOpen(a)
    BY <2>1 DEF Waited
  <2>3. TakeOffBooks(a) /\ fallback' \subseteq fallback
    BY <1>1, <2>2, ZenonT(60) DEF AttemptVerified, SettleAttempt, MarkAttemptCancelled
  <2>4. \E x, y : \/ att' = [att EXCEPT ![a] = [[att[a] EXCEPT !.verdict = x] EXCEPT !.counted = y]]
                  \/ att' = [att EXCEPT ![a].verdict = x]
    BY <1>1, ZenonT(60) DEF AttemptVerified, SettleAttempt
  <2>5. \A b \in Ids : b # a => att'[b] = att[b] /\ finish'[b] = finish[b]
    BY <1>0, <2>1, <2>4
  <2>6. ~att'[a].cancelling
    <3>1. PICK x, y : \/ att' = [att EXCEPT ![a] = [[att[a] EXCEPT !.verdict = x] EXCEPT !.counted = y]]
                      \/ att' = [att EXCEPT ![a].verdict = x]
      BY <2>4, ZenonT(60)
    <3>2. \/ att'[a] = [[att[a] EXCEPT !.verdict = x] EXCEPT !.counted = y]
          \/ att'[a] = [att[a] EXCEPT !.verdict = x]
      BY <1>0, <3>1
    <3> QED BY <1>0, <3>2, ZenonT(60) DEF Attempt
  <2>7. ~IsOpen(a)' /\ finish'[a] = "idle"
    BY <1>0, <2>1, <2>3, IdParts DEF IsOpen, TakeOffBooks, TypeOK, BookTypes
  <2> QED BY <2>1, <2>2, <2>3, <2>5, <2>6, <2>7, WaitedOne
<1>2. CASE CancelFallback(a)
  BY <1>2 DEF CancelFallback, Waited
<1>3. CASE DecisionSignalled(a)
  <2> DEFINE att1 == [att EXCEPT ![a].closed = @ \/ (deciding[a] = "gone" /\ IsOpen(a))]
  <2>1. /\ att' = att1 \/ att' = [att1 EXCEPT ![a].st = "RUNNING"]
        /\ UNCHANGED <<open, fallback, finish, control, pc, at>>
    BY <1>3 DEF DecisionSignalled, loopVars
  <2>2. \A b \in Ids : b # a => att'[b] = att[b]
    BY <1>0, <2>1
  <2>3. \E x : \/ att'[a] = [att[a] EXCEPT !.closed = x]
               \/ att'[a] = [[att[a] EXCEPT !.closed = x] EXCEPT !.st = "RUNNING"]
    BY <1>0, <2>1, ZenonT(60)
  <2>4. /\ att'[a].cancelling = att[a].cancelling /\ att'[a].finishing = att[a].finishing
        /\ att'[a].verdict = att[a].verdict
    BY <1>0, <2>3, ZenonT(60) DEF Attempt
  <2>5. SameEnds /\ SameJudging
    BY <2>2, <2>4 DEF SameEnds, SameJudging
  <2> QED BY <2>1, <2>5, WaitedFrame DEF Waited
<1> QED BY <1>1, <1>2, <1>3

\* The commands: none of those given cancels an attempt.
LEMMA WaitedCommand ==
    ASSUME NoneInterrupts, TypeOK, Waited,
           CommandStep \/ (\E c \in Controls : ControlGoesOn(c)) \/ (\E n \in Nodes : BackoffOver(n))
    PROVE  Waited'
<1> USE DEF bookVars, loopVars, handVars
<1>1. ASSUME UNCHANGED <<bookVars, loopVars, handVars>>  PROVE Waited'
  BY <1>1, WaitedFrame DEF SameEnds, SameJudging, Waited
<1>2. CASE SendMessage \/ (\E a \in Ids : ProposeCompletion(a) \/ DeclareBlocked(a))
           \/ (\E n \in Nodes : CompleteNode(n) \/ BackoffOver(n))
  BY <1>1, <1>2, ZenonT(60) DEF SendMessage, ProposeCompletion, DeclareBlocked, CompleteNode, BackoffOver
<1>3. ASSUME NEW a \in Ids, DecideApproval(a)  PROVE Waited'
  <2>1. UNCHANGED <<open, fallback, finish, control, pc, at>>
    BY <1>3 DEF DecideApproval
  <2>2. att' = att \/ att' = [att EXCEPT ![a].st = "RUNNING"]
    BY <1>3 DEF DecideApproval, ResumeParked
  <2>3. SameEnds /\ SameJudging
    BY <2>2, NoEnd, NoJudging, ZenonT(60)
  <2> QED BY <2>1, <2>3, WaitedFrame DEF Waited
<1>4. ASSUME NEW c \in Controls, NEW action \in ControlActions, ControlArrives(c, action)  PROVE Waited'
  <2>1. action # "cancel" /\ action \notin Interrupts
    BY DEF NoneInterrupts
  <2>2. ToCancel(action, OpenIds) = {}
    BY <2>1 DEF ToCancel
  <2>3. /\ UNCHANGED <<open, fallback, finish, pc, at, att>>
        /\ control' = [control EXCEPT ![c] = [st |-> "done", action |-> action, rest |-> {}, on |-> NoId]]
    BY <1>4, <2>2, ZenonT(60) DEF ControlArrives, ControlStep
  <2>4. \A d \in Controls : control'[d].st # "busy"
    BY <2>3 DEF Waited, TypeOK, HandTypes
  <2> QED BY <2>3, <2>4, WaitedFrame DEF SameEnds, SameJudging
<1>5. ASSUME NEW c \in Controls, ControlGoesOn(c)  PROVE Waited'
  BY <1>5 DEF ControlGoesOn, Waited
<1> QED BY <1>2, <1>3, <1>4, <1>5, ZenonT(60) DEF CommandStep

\* Nothing is being settled, judged or cancelled at the start.
LEMMA WaitedInit == Init => Waited
<1> SUFFICES ASSUME Init  PROVE Waited
  OBVIOUS
<1>1. ASSUME NEW a \in Ids  PROVE ~att[a].cancelling /\ att[a].verdict = "none" /\ finish[a] = "idle"
  BY DEF Init, NewAttempt
<1>2. ASSUME NEW c \in Controls  PROVE control[c].st # "busy"
  BY DEF Init
<1> QED BY <1>1, <1>2 DEF Init, Waited

\* Every step keeps it.
LEMMA WaitedNext == ASSUME NoneInterrupts  PROVE TypeOK /\ Waited /\ [Next]_vars => Waited'
<1> SUFFICES ASSUME TypeOK, Waited, [Next]_vars  PROVE Waited'
  OBVIOUS
<1>1. CASE MainStep
  BY <1>1, WaitedLoop, WaitedProposal, WaitedStart, ZenonT(60) DEF MainStep
<1>2. ASSUME NEW a \in Ids, HandlerStep(a)  PROVE Waited'
  BY <1>2, WaitedReport, WaitedAnswer, ZenonT(60) DEF HandlerStep
<1>3. ASSUME UNCHANGED <<bookVars, loopVars, handVars>>  PROVE Waited'
  BY <1>3, WaitedFrame DEF SameEnds, SameJudging, bookVars, loopVars, handVars, Waited
<1>4. ASSUME NEW a \in Ids, ChildNext(a)  PROVE Waited'
  BY <1>3, <1>4, ZenonT(60) DEF ChildNext, ChildEnds, ChildFinishes, ChildParks, ChildCancelled, ChildLost, ChildStep
<1>5. CASE UNCHANGED vars
  BY <1>3, <1>5 DEF vars
<1> QED BY <1>1, <1>2, <1>4, <1>5, WaitedCommand, ZenonT(60) DEF Next

\* For any plan and any bounds, an attempt that ended while its proposal was being verified gets the
\* verdict it waits for: the main loop is still verifying it, or has marked it (_finish_attempt,
\* _settle_proposal).  The proviso is that no command cancels attempts: with one, the fallback timer
\* can take the attempt off the books first, and its verdict is then dropped.
THEOREM ProposalsAnswered == ASSUME NoneInterrupts  PROVE Spec => []VerdictComes
<1>1. Waited => VerdictComes
  BY DEF Waited, VerdictComes
<1>2. Init => Waited
  BY WaitedInit
<1>3. TypeOK /\ Waited /\ [Next]_vars => Waited'
  BY WaitedNext
<1> QED BY <1>1, <1>2, <1>3, TypeCorrect, PTL DEF Spec
=============================================================================
