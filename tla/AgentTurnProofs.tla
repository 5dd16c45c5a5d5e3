-------------------------- MODULE AgentTurnProofs --------------------------
(***************************************************************************)
(* What holds of an attempt and its turns (module AgentTurn) for every set *)
(* of tools, batches, ids and messages, every preset and policy, every     *)
(* budget, and any number of rounds, runs and faults.                      *)
(*                                                                         *)
(* The argument is one inductive invariant in layers.  Sound says that the *)
(* variables have their types, that the store has a newest checkpoint that *)
(* can be read, and that an activity exists exactly while the workflow     *)
(* waits for it.  Resumes follows the session from the row a run reads     *)
(* back, through the activity's memory and its result, to the row that a   *)
(* parked attempt is resumed from.  What the calls may do is proved on top *)
(* of Sound in module AgentCallProofs.                                     *)
(*                                                                         *)
(* The steps are of three kinds: Within an activity, Around it, and        *)
(* maintenance; a lemma for each kind says what it leaves alone.           *)
(***************************************************************************)
EXTENDS AgentTurn, TLAPS, FiniteSetTheorems

\* The provers' time for a leaf, in seconds.
USE ZenonT(3), SMTT(30), ZenonT(60)

-----------------------------------------------------------------------------
(* The types, and the invariant. *)

\* Functions on some of the calls: the ledger, the events, the calls of an answer.
Tables(R) == UNION {[S -> R] : S \in SUBSET Calls}

\* What each variable holds.
Meter     == [tokens : Nat, tool_calls : Nat, refused : {"none", "tokens", "tool_calls"}]
Result    == [status : {"none", "failed", "completed", "parked_input", "parked_approval"}, version : Nat,
              retry : SUBSET Calls, waits : SUBSET Calls]
Remembers == [key : {"answer", "approval", "turn"} \X Nat, result : Result]
Session   == {b \in [version : Nat \ {0}, turns : SUBSET Remembers, round : Nat, pending : SUBSET Calls,
                     heard : SUBSET Messages] : IsFiniteSet(b.turns)}
Row       == [seq : Nat \X Nat, blob : Session, committed : BOOLEAN, old : BOOLEAN, blobThere : BOOLEAN]
LedgerRow == [status : {"started", "succeeded", "failed_permanent"}, approved : BOOLEAN]
Told      == {"denied", "refused", "succeeded", "failed_permanent"}
Activity  == [pc : {"idle", "enter", "open", "dispatch", "drive", "put", "report", "raised"}, run : 0..MaxRuns,
              version : Nat, blob : Session, calls : Tables(Phases), meter : Meter, result : Result]
Workflow  == [pc : {"ready", "running", "approval", "input", "done"}, session : BOOLEAN, version : Nat,
              decision : {"none", "approve", "reject"}, approved : SUBSET Calls, retry : SUBSET Calls,
              external : BOOLEAN, waits : SUBSET Calls, messages : SUBSET Messages, delivered : SUBSET Messages,
              sent : SUBSET Messages, returned : SUBSET Messages, usage : [tokens : Nat, tool_calls : Nat],
              outcome : {"none", "failed", "completed", "cancelled"}]

Typed ==
    /\ wf \in Workflow /\ act \in Activity /\ rows \in SUBSET Row /\ beat \in Meter /\ faults \in 0..MaxFaults
    /\ ledger \in Tables(LedgerRow) /\ events \in Tables(Told) /\ ran \in Tables(Nat)
    /\ allowed \in SUBSET Calls /\ spent \in Int /\ history \in SUBSET (Nat \X Nat)

\* A checkpoint later than all others.
IsNewest(r) == \A q \in rows \ {r} : Later(r.seq, q.seq)

\* The store: there is a newest checkpoint and its blob is there; so are those of committed ones, and
\* what history refers to is committed; a turn that is driven has a session to fall back on.
Stored ==
    /\ rows # {} => \E r \in rows : IsNewest(r) /\ r.blobThere
    /\ act.pc \in {"drive", "put"} => SessionRows # {}
    /\ \A r \in rows : (r.committed => r.blobThere) /\ (r.seq[1] = 0 \/ r.seq = session_seq(r.blob))
    /\ \A s \in history : \E r \in rows : r.seq = s /\ r.committed

\* The workflow waits for the activity exactly while there is one, and messages are accounted for.
Tidy ==
    /\ (act.pc = "idle") = (wf.pc # "running")
    /\ act.pc # "idle" => act.run >= 1
    /\ wf.messages \cup wf.delivered \cup wf.returned \subseteq wf.sent

-----------------------------------------------------------------------------
(* The operators keep the types. *)

\* No calls.
LEMMA EmptyTable == ASSUME NEW R  PROVE <<>> \in Tables(R) /\ DOMAIN <<>> = {}
<1>1. DOMAIN <<>> = {}
  OBVIOUS
<1>2. <<>> \in [{} -> R]
  OBVIOUS
<1> QED BY <1>1, <1>2 DEF Tables

\* A table is a function on some of the calls.
LEMMA TableParts == ASSUME NEW R, NEW f \in Tables(R)
                    PROVE  DOMAIN f \subseteq Calls /\ f \in [DOMAIN f -> R]
BY DEF Tables

\* A function on some of the calls is a table.
LEMMA MakeTable == ASSUME NEW R, NEW S \in SUBSET Calls, NEW f \in [S -> R]  PROVE f \in Tables(R)
BY DEF Tables

WorkflowFields == {"pc", "session", "version", "decision", "approved", "retry", "external", "waits", "messages",
                   "delivered", "sent", "returned", "usage", "outcome"}

\* Continue-As-New loses what the run awaited and nothing else (AttemptWorkflow's carry).
LEMMA Restoring ==
    ASSUME wf \in Workflow
    PROVE  restore(carry) = [wf EXCEPT !.pc = "ready", !.waits = {}, !.delivered = {}]
<1> DEFINE w == [wf EXCEPT !.pc = "ready", !.waits = {}, !.delivered = {}]
<1>1. DOMAIN wf = WorkflowFields
  BY DEF Workflow, WorkflowFields
<1>2. DOMAIN Fresh = WorkflowFields
  BY DEF Fresh, WorkflowFields
<1>3. Fresh.pc = "ready" /\ Fresh.waits = {} /\ Fresh.delivered = {}
  BY DEF Fresh
<1>4. carry = [f \in WorkflowFields \ {"pc", "waits", "delivered"} |-> wf[f]]
  BY <1>1 DEF carry
<1>5. restore(carry) = [f \in WorkflowFields |->
                         IF f \in WorkflowFields \ {"pc", "waits", "delivered"} THEN wf[f] ELSE Fresh[f]]
  BY <1>2, <1>4 DEF restore
<1>6. w = [f \in WorkflowFields |-> w[f]] /\ restore(carry) = [f \in WorkflowFields |-> restore(carry)[f]]
  BY <1>1, <1>5, ZenonT(60)
<1>7. \A f \in WorkflowFields \ {"pc", "waits", "delivered"} : w[f] = wf[f] /\ restore(carry)[f] = wf[f]
  BY <1>1, <1>5, ZenonT(60)
<1>8. \A f \in {"pc", "waits", "delivered"} : w[f] = restore(carry)[f]
  BY <1>1, <1>3, <1>5, ZenonT(60) DEF WorkflowFields
<1>9. \A f \in WorkflowFields : w[f] = restore(carry)[f]
  BY <1>7, <1>8, ZenonT(60)
<1> HIDE DEF w
<1>10. restore(carry) = w
  BY <1>6, <1>9
<1> QED BY <1>10 DEF w

\* The constants and the results of a turn.
LEMMA SmallTypes ==
    /\ NoMeter \in Meter /\ NoResult \in Result /\ Failed \in Result /\ NewSession \in Session
    /\ \A v \in Nat : Completed(v) \in Result
    /\ \A v \in Nat : \A waits \in SUBSET Calls : ParkedInput(v, waits) \in Result /\ ParkedApproval(v, waits) \in Result
<1>1. NoMeter \in Meter
  BY DEF NoMeter, Meter
<1>2. NoResult \in Result /\ Failed \in Result /\ \A v \in Nat : Completed(v) \in Result
  BY ZenonT(60) DEF NoResult, Failed, Completed, Result
<1>3. \A v \in Nat : \A waits \in SUBSET Calls : ParkedInput(v, waits) \in Result /\ ParkedApproval(v, waits) \in Result
  BY ZenonT(60) DEF NoResult, ParkedInput, ParkedApproval, Result
<1>4. NewSession \in Session
  BY FS_EmptySet DEF NewSession, Session
<1> QED BY <1>1, <1>2, <1>3, <1>4

\* An activity that begins, and none.
LEMMA IdleTypes == Idle \in Activity /\ \A n \in 0..MaxRuns : [Idle EXCEPT !.pc = "enter", !.run = n] \in Activity
<1>1. <<>> \in Tables(Phases) /\ 0 \in 0..MaxRuns
  BY EmptyTable, TurnAssumption
<1> QED BY <1>1, SmallTypes, ZenonT(60) DEF Idle, Activity

\* Where a session is stored.
LEMMA SeqType == ASSUME NEW b \in Session  PROVE session_seq(b) \in Nat \X Nat /\ session_seq(b)[1] = b.version /\ b.version > 0
<1>1. b.version \in Nat \ {0} /\ Cardinality(b.turns) \in Nat
  BY FS_CardinalityType DEF Session
<1> QED BY <1>1 DEF session_seq

\* Where the checkpoint of a batch is stored: never among the sessions.
LEMMA BatchSeqType == ASSUME NEW b \in Session  PROVE batch_seq(b) \in Nat \X Nat /\ batch_seq(b)[1] = 0
<1>1. b.version \in Nat /\ b.round \in Nat /\ MaxRounds \in Nat
  BY TurnAssumption DEF Session
<1>2. b.version * (MaxRounds + 1) \in Nat
  BY <1>1
<1> QED BY <1>1, <1>2 DEF batch_seq

\* put_checkpoint.
LEMMA PutType ==
    ASSUME rows \in SUBSET Row, NEW seq \in Nat \X Nat, NEW b \in Session
    PROVE  put_checkpoint(seq, b) \in SUBSET Row
<1>1. [seq |-> seq, blob |-> b, committed |-> FALSE, old |-> FALSE, blobThere |-> TRUE] \in Row
  BY DEF Row
<1>2. \A r \in rows : [r EXCEPT !.blobThere = TRUE] \in Row
  BY ZenonT(60) DEF Row
<1> QED BY <1>1, <1>2, ZenonT(60) DEF put_checkpoint

\* A turn that is cut short is the next version.
LEMMA KeepType == ASSUME NEW b \in Session
                  PROVE  keep_interrupted(b) \in Session /\ keep_interrupted(b).version = b.version + 1
<1> DEFINE closed == [b EXCEPT !.pending = {}]
<1>1. closed \in Session /\ closed.version = b.version
  BY DEF Session
<1>2. keep_interrupted(b) = [closed EXCEPT !.version = @ + 1]
  BY DEF keep_interrupted, close_unfinished_tool_calls
<1> HIDE DEF closed
<1>3. closed.version + 1 \in Nat \ {0}
  BY <1>1 DEF Session
<1>4. [closed EXCEPT !.version = @ + 1] \in Session /\ [closed EXCEPT !.version = @ + 1].version = closed.version + 1
  BY <1>1, <1>3 DEF Session
<1> QED BY <1>1, <1>2, <1>4

\* A remembered result.
LEMMA RememberType ==
    ASSUME NEW b \in Session, NEW key \in {"answer", "approval", "turn"} \X Nat, NEW result \in Result
    PROVE  remember(b, key, result) \in Session
<1>1. [key |-> key, result |-> result] \in Remembers
  BY DEF Remembers
<1>2. IsFiniteSet(b.turns \cup {[key |-> key, result |-> result]})
  BY FS_AddElement, ZenonT(60) DEF Session
<1> QED BY <1>1, <1>2, ZenonT(60) DEF remember, Session

\* The key a result is remembered under.
LEMMA KeyType == ASSUME wf \in Workflow, act \in Activity  PROVE TurnKey \in {"answer", "approval", "turn"} \X Nat
<1>1. Kind \in {"answer", "approval", "turn"}
  BY DEF Kind
<1>2. wf.version \in Nat /\ act.version \in Nat
  BY DEF Workflow, Activity
<1> QED BY <1>1, <1>2 DEF TurnKey

\* The session a way in drives, and the calls it confirms.
LEMMA DrivenType ==
    ASSUME wf \in Workflow, NEW b \in Session
    PROVE  Driven(b).session \in Session /\ Confirm(b) \in Tables(Phases)
<1>1. wf.delivered \in SUBSET Messages
  BY DEF Workflow
<1>2. b.pending \in SUBSET Calls
  BY DEF Session
<1>3. Confirm(b) \in [b.pending -> Phases]
  BY DEF Confirm, Phases
<1>4. /\ [b EXCEPT !.pending = {}] \in Session /\ [b EXCEPT !.pending = {}, !.heard = @ \cup wf.delivered] \in Session
      /\ [b EXCEPT !.pending = {}, !.heard = @ \cup wf.delivered, !.round = 0] \in Session
  BY <1>1, ZenonT(60) DEF Session
<1> QED BY <1>2, <1>3, <1>4, MakeTable, ZenonT(60) DEF Driven, run_turn, deliver_tool_result, resolve_approval, turn_prompt

-----------------------------------------------------------------------------
(* The store. *)

\* The newest row is what the store keeps it to be, and a session if there is one.
LEMMA NewestRow ==
    ASSUME rows \in SUBSET Row, Stored, rows # {}
    PROVE  /\ Newest(rows) \in rows /\ IsNewest(Newest(rows)) /\ Newest(rows).blobThere
           /\ SessionRows # {} => Newest(rows).seq[1] > 0 /\ get = Newest(rows).blob /\ get \in Session
<1>0. \A r \in rows : r \in Row /\ r.seq[1] \in Nat /\ r.seq[2] \in Nat
  BY DEF Row
<1>1. PICK m \in rows : IsNewest(m) /\ m.blobThere
  BY DEF Stored
<1>2. \A r \in rows : IsNewest(r) => r = m
  BY <1>0, <1>1 DEF IsNewest, Later
<1>3. Newest(rows) = m
  BY <1>1, <1>2 DEF Newest, IsNewest
<1>4. ASSUME SessionRows # {}  PROVE m.seq[1] > 0 /\ get = m.blob /\ m.blob \in Session
  <2>1. PICK s \in rows : s.seq[1] > 0
    BY <1>4 DEF SessionRows
  <2>2. m.seq[1] > 0
    BY <1>0, <1>1, <2>1 DEF IsNewest, Later
  <2>3. m \in SessionRows /\ \A q \in SessionRows \ {m} : Later(m.seq, q.seq)
    BY <1>1, <2>2 DEF SessionRows, IsNewest
  <2>4. \A r \in SessionRows : (\A q \in SessionRows \ {r} : Later(r.seq, q.seq)) => r = m
    BY <1>0, <2>3 DEF SessionRows, Later
  <2>5. Newest(SessionRows) = m
    BY <2>3, <2>4 DEF Newest
  <2> QED BY <1>0, <2>2, <2>5 DEF get, Row
<1> QED BY <1>1, <1>3, <1>4

\* A step that writes no row.
LEMMA StoredFrame ==
    ASSUME Stored, UNCHANGED <<rows, history>>, act'.pc \in {"drive", "put"} => SessionRows # {}
    PROVE  Stored'
BY DEF Stored, IsNewest, SessionRows

\* A step that keeps the newest row and every committed one, and invents none.
LEMMA StoredKept ==
    ASSUME rows \in SUBSET Row, Stored, rows # {}, NEW m \in rows', m.blobThere, m.seq = Newest(rows).seq,
           \A q \in rows' \ {m} : \E r \in rows \ {Newest(rows)} : q.seq = r.seq,
           \A q \in rows' : \E r \in rows : q.seq = r.seq /\ q.blob = r.blob,
           \A q \in rows' : q.committed => q.blobThere,
           \A s \in history' : \E r \in rows' : r.seq = s /\ r.committed,
           act'.pc \in {"drive", "put"} => SessionRows # {}
    PROVE  Stored'
<1>1. IsNewest(m)'
  BY NewestRow DEF IsNewest
<1>2. SessionRows # {} => SessionRows' # {}
  BY NewestRow DEF SessionRows
<1>3. \A q \in rows' : q.seq[1] = 0 \/ q.seq = session_seq(q.blob)
  BY DEF Stored, session_seq
<1> QED BY <1>1, <1>2, <1>3 DEF Stored, session_seq

\* put_checkpoint adds a row, or finds it and writes its blob again.
LEMMA StoredPut ==
    ASSUME rows \in SUBSET Row, Stored, NEW seq \in Nat \X Nat, NEW b \in Session,
           seq[1] = 0 \/ seq = session_seq(b), rows' = put_checkpoint(seq, b), UNCHANGED history,
           act'.pc \in {"drive", "put"} => SessionRows # {} \/ seq[1] > 0
    PROVE  Stored'
<1>0. \A r \in rows : r \in Row /\ r.seq[1] \in Nat /\ r.seq[2] \in Nat /\ r.seq = <<r.seq[1], r.seq[2]>>
  BY DEF Row
<1>1. CASE \E r \in rows : r.seq = seq
  <2> DEFINE f(r) == IF r.seq = seq THEN [r EXCEPT !.blobThere = TRUE] ELSE r
             n == Newest(rows)
  <2>1. rows # {} /\ rows' = {f(r) : r \in rows}
    BY <1>1 DEF put_checkpoint
  <2>2. \A r \in rows : /\ f(r).seq = r.seq /\ f(r).blob = r.blob /\ f(r).committed = r.committed
                        /\ r.blobThere => f(r).blobThere
    BY <1>0 DEF Row
  <2>3. n \in rows /\ n.blobThere
    BY <2>1, NewestRow
  <2> HIDE DEF f, n
  <2>4. f(n) \in rows' /\ f(n).blobThere /\ f(n).seq = n.seq
    BY <2>1, <2>2, <2>3
  <2>5. \A q \in rows' \ {f(n)} : \E r \in rows \ {n} : q.seq = r.seq
    BY <2>1, <2>2
  <2>6. \A q \in rows' : \E r \in rows : q.seq = r.seq /\ q.blob = r.blob
    BY <2>1, <2>2
  <2>7. \A q \in rows' : q.committed => q.blobThere
    BY <2>1, <2>2 DEF Stored
  <2>8. \A s \in history' : \E r \in rows' : r.seq = s /\ r.committed
    BY <2>1, <2>2 DEF Stored
  <2>9. seq[1] > 0 => SessionRows # {}
    BY <1>1 DEF SessionRows
  <2> QED BY <2>1, <2>4, <2>5, <2>6, <2>7, <2>8, <2>9, StoredKept DEF n
<1>2. CASE ~\E r \in rows : r.seq = seq
  <2> DEFINE new == [seq |-> seq, blob |-> b, committed |-> FALSE, old |-> FALSE, blobThere |-> TRUE]
  <2>1. rows' = rows \cup {new}
    BY <1>2 DEF put_checkpoint
  <2>2. new.seq = seq /\ new.blob = b /\ ~new.committed /\ new.blobThere
    OBVIOUS
  <2> HIDE DEF new
  <2>3. \E r \in rows' : IsNewest(r)' /\ r.blobThere
    <3>1. CASE rows = {}
      BY <2>1, <2>2, <3>1 DEF IsNewest
    <3>2. CASE rows # {}
      <4>1. PICK n \in rows : IsNewest(n) /\ n.blobThere
        BY <3>2 DEF Stored
      <4>2. seq[1] \in Nat /\ seq[2] \in Nat /\ seq = <<seq[1], seq[2]>>
        OBVIOUS
      <4>3. Later(seq, n.seq) \/ Later(n.seq, seq)
        BY <1>0, <1>2, <4>1, <4>2 DEF Later
      <4>4. CASE Later(n.seq, seq)
        <5>1. IsNewest(n)'
          BY <2>1, <2>2, <4>1, <4>4 DEF IsNewest
        <5> QED BY <2>1, <4>1, <5>1
      <4>5. CASE Later(seq, n.seq)
        <5>1. \A q \in rows : Later(seq, q.seq)
          BY <1>0, <4>1, <4>2, <4>5 DEF IsNewest, Later
        <5>2. IsNewest(new)'
          BY <2>1, <2>2, <5>1 DEF IsNewest
        <5> QED BY <2>1, <2>2, <5>2
      <4> QED BY <4>3, <4>4, <4>5
    <3> QED BY <3>1, <3>2
  <2>4. act'.pc \in {"drive", "put"} => SessionRows' # {}
    BY <2>1, <2>2 DEF SessionRows
  <2>5. \A r \in rows' : (r.committed => r.blobThere) /\ (r.seq[1] = 0 \/ r.seq = session_seq(r.blob))
    BY <2>1, <2>2 DEF Stored, session_seq
  <2>6. \A s \in history' : \E r \in rows' : r.seq = s /\ r.committed
    BY <2>1 DEF Stored
  <2> QED BY <2>3, <2>4, <2>5, <2>6 DEF Stored, session_seq
<1> QED BY <1>1, <1>2

-----------------------------------------------------------------------------
(* The steps of the activity keep the types. *)

\* One entry of a table is set.
LEMMA SetEntry ==
    ASSUME NEW R, NEW f \in Tables(R), NEW c, NEW v \in R
    PROVE  [f EXCEPT ![c] = v] \in Tables(R) /\ DOMAIN [f EXCEPT ![c] = v] = DOMAIN f
<1>1. DOMAIN f \subseteq Calls /\ f \in [DOMAIN f -> R]
  BY TableParts
<1>2. [f EXCEPT ![c] = v] \in [DOMAIN f -> R]
  BY <1>1, ZenonT(60)
<1> QED BY <1>1, <1>2, MakeTable

\* What the ledger, the events and the count of executions become.
LEMMA TableSteps ==
    ASSUME Typed, NEW c \in Calls
    PROVE  /\ \A keys : approve_replay(keys) \in Tables(LedgerRow) /\ DOMAIN approve_replay(keys) = DOMAIN ledger
           /\ Claimed(c) \in Tables(LedgerRow) /\ DOMAIN Claimed(c) = DOMAIN ledger \cup {c}
           /\ \A s \in Told : publish_events(c, s) \in Tables(Told)
           /\ \A s \in {"succeeded", "failed_permanent"} :
                 finish_ledger(c, s) \in Tables(LedgerRow) /\ DOMAIN finish_ledger(c, s) = DOMAIN ledger
<1>1. /\ DOMAIN ledger \in SUBSET Calls /\ ledger \in [DOMAIN ledger -> LedgerRow]
      /\ DOMAIN events \in SUBSET Calls /\ events \in [DOMAIN events -> Told]
  BY TableParts DEF Typed
<1>2. ASSUME NEW keys
      PROVE  approve_replay(keys) \in [DOMAIN ledger -> LedgerRow] /\ DOMAIN approve_replay(keys) = DOMAIN ledger
  BY <1>1, ZenonT(60) DEF approve_replay, LedgerRow
<1>3. Claimed(c) \in [DOMAIN ledger \cup {c} -> LedgerRow] /\ DOMAIN Claimed(c) = DOMAIN ledger \cup {c}
  BY <1>1 DEF Claimed, LedgerRow
<1>4. ASSUME NEW s \in Told  PROVE publish_events(c, s) \in [DOMAIN events \cup {c} -> Told]
  BY <1>1 DEF publish_events
<1>5. ASSUME NEW s \in {"succeeded", "failed_permanent"}
      PROVE  finish_ledger(c, s) \in [DOMAIN ledger -> LedgerRow] /\ DOMAIN finish_ledger(c, s) = DOMAIN ledger
  BY <1>1, ZenonT(60) DEF finish_ledger, LedgerRow
<1>6. DOMAIN ledger \cup {c} \in SUBSET Calls /\ DOMAIN events \cup {c} \in SUBSET Calls
  BY <1>1
<1> QED BY <1>1, <1>2, <1>3, <1>4, <1>5, <1>6, MakeTable, ZenonT(60)

\* The activity after a step of its own.
LEMMA ActFields ==
    ASSUME act \in Activity
    PROVE  /\ act.pc \in {"idle", "enter", "open", "dispatch", "drive", "put", "report", "raised"}
           /\ act.run \in 0..MaxRuns /\ act.version \in Nat /\ act.blob \in Session /\ act.calls \in Tables(Phases)
           /\ act.meter \in Meter /\ act.result \in Result
BY DEF Activity

\* The way in: what is carried on, what is opened, what is driven.
LEMMA EntryTyped ==
    ASSUME Typed, Stored, Enter \/ Open \/ Dispatch \/ Unreadable
    PROVE  Typed' /\ act.pc # "idle" /\ act'.pc # "idle" /\ act'.run = act.run /\ UNCHANGED wf
<1> USE DEF Typed
<1>0. UNCHANGED <<wf, events, beat, ran, allowed, spent, history>>
  BY ZenonT(60) DEF Enter, Open, Dispatch, Unreadable, ghosts
<1>1. CASE Enter
  <2>1. Restored \in Meter
    BY SmallTypes DEF Restored
  <2> DEFINE begun == [act EXCEPT !.meter = Restored]
  <2>2. begun \in Activity /\ begun.run = act.run
    BY <2>1 DEF Activity
  <2>3. unknown_side_effects \in SUBSET Calls
    BY TableParts DEF unknown_side_effects
  <2>4. park_for_retry(unknown_side_effects) \in Result
    <3>1. ParkedApproval(wf.version, unknown_side_effects) \in Result
      BY <2>3, SmallTypes DEF Workflow
    <3> QED BY <2>3, <3>1 DEF park_for_retry, Result
  <2>5. /\ \/ act' = [begun EXCEPT !.pc = "report", !.result = Failed]
           \/ act' = [begun EXCEPT !.pc = "open"]
           \/ act' = [begun EXCEPT !.pc = "report", !.result = park_for_retry(unknown_side_effects)]
        /\ ledger' = ledger \/ ledger' = approve_replay(wf.retry)
        /\ UNCHANGED <<rows, faults>> /\ act.pc = "enter"
    BY <1>1 DEF Enter
  <2> HIDE DEF begun
  <2>6. act' \in Activity /\ act'.pc # "idle" /\ act'.run = act.run
    BY <2>2, <2>4, <2>5, SmallTypes, ZenonT(60) DEF Activity
  <2>7. ledger' \in Tables(LedgerRow)
    <3>1. approve_replay(wf.retry) \in Tables(LedgerRow)
      <4>1. DOMAIN ledger \in SUBSET Calls /\ ledger \in [DOMAIN ledger -> LedgerRow]
        BY TableParts
      <4>2. approve_replay(wf.retry) \in [DOMAIN ledger -> LedgerRow]
        BY <4>1, ZenonT(60) DEF approve_replay, LedgerRow
      <4> QED BY <4>1, <4>2, MakeTable
    <3> QED BY <2>5, <3>1
  <2> QED BY <1>0, <2>5, <2>6, <2>7
<1>2. CASE Open
  <2> DEFINE existing == IF wf.session THEN wf.version ELSE IF SessionRows # {} THEN get.version ELSE 1
  <2>1. existing \in Nat
    <3>1. SessionRows # {} => get \in Session
      BY NewestRow DEF SessionRows
    <3> QED BY <3>1 DEF Session, Workflow
  <2>2. act' = [act EXCEPT !.pc = "dispatch", !.version = existing] /\ act.pc = "open" /\ UNCHANGED <<ledger, faults>>
    BY <1>2 DEF Open
  <2> HIDE DEF existing
  <2>3. act' \in Activity /\ act'.pc # "idle" /\ act'.run = act.run
    BY <2>1, <2>2, ZenonT(60) DEF Activity
  <2>4. rows' \in SUBSET Row
    BY <1>2, PutType, SeqType, SmallTypes DEF Open, put
  <2> QED BY <1>0, <2>2, <2>3, <2>4
<1>3. CASE Dispatch
  <2>1. get \in Session
    BY <1>3, NewestRow, ZenonT(60) DEF Dispatch, SessionRows
  <2>2. Remembered(get, TurnKey) \subseteq Result
    BY <2>1 DEF Remembered, Session, Remembers
  <2>3. Driven(get).session \in Session /\ Confirm(get) \in Tables(Phases) /\ <<>> \in Tables(Phases)
    BY <2>1, DrivenType, EmptyTable
  <2>4. /\ \/ \E result \in Remembered(get, TurnKey) : act' = [act EXCEPT !.pc = "report", !.result = result]
           \/ act' = [act EXCEPT !.pc = "raised"]
           \/ act' = [act EXCEPT !.pc = "drive", !.blob = Driven(get).session, !.calls = Confirm(get)]
           \/ act' = [act EXCEPT !.pc = "drive", !.blob = Driven(get).session, !.calls = <<>>]
        /\ UNCHANGED <<rows, ledger, faults>> /\ act.pc = "dispatch"
    BY <1>3, ZenonT(60) DEF Dispatch
  <2>5. act' \in Activity /\ act'.pc # "idle" /\ act'.run = act.run
    BY <2>2, <2>3, <2>4, ZenonT(60) DEF Activity
  <2> QED BY <1>0, <2>4, <2>5, ZenonT(60)
<1>4. CASE Unreadable
  <2>1. act' = [act EXCEPT !.pc = "report", !.result = Failed] /\ act.pc = "dispatch" /\ UNCHANGED <<rows, ledger>>
    BY <1>4 DEF Unreadable
  <2>2. faults' \in 0..MaxFaults
    BY <1>4, TurnAssumption DEF Unreadable
  <2>3. act' \in Activity /\ act'.pc # "idle" /\ act'.run = act.run
    BY <2>1, SmallTypes, ZenonT(60) DEF Activity
  <2> QED BY <1>0, <2>1, <2>2, <2>3
<1> QED BY <1>1, <1>2, <1>3, <1>4

\* The calls of an answer of the model.
Batch(batch, n) == {[v |-> act.blob.version, r |-> act.blob.round + 1, n |-> n, tool |-> t] : t \in batch}

\* The agent at work between two steps: its answers, and the ends of a turn.
LEMMA DriveTyped ==
    ASSUME Typed, Stored, BudgetStop \/ Ask \/ Reply \/ ModelFails \/ Park \/ Put
    PROVE  Typed' /\ act.pc \in {"drive", "put"} /\ act'.pc # "idle" /\ act'.run = act.run /\ UNCHANGED wf
<1> USE DEF Typed
<1>0. UNCHANGED <<wf, ledger, events, beat, faults, ran, allowed, spent, history>> /\ act.pc \in {"drive", "put"}
  BY ZenonT(60) DEF BudgetStop, Ask, Reply, ModelFails, Park, Put, ghosts
<1>1. act.blob \in Session /\ act.meter \in Meter /\ act.blob.version + 1 \in Nat \ {0} /\ <<>> \in Tables(Phases)
  BY ActFields, EmptyTable DEF Session
<1>2. add_model_call(act.meter) \in Meter
  BY <1>1 DEF add_model_call, Meter
<1>3. ASSUME act' \in Activity, act'.pc # "idle", act'.run = act.run, rows' \in SUBSET Row
      PROVE  Typed' /\ act.pc \in {"drive", "put"} /\ act'.pc # "idle" /\ act'.run = act.run /\ UNCHANGED wf
  BY <1>0, <1>3
<1>4. CASE BudgetStop
  <2>1. act' = [act EXCEPT !.pc = "put", !.blob = keep_interrupted(act.blob), !.calls = <<>>, !.result = Failed]
        /\ rows' = put(keep_interrupted(act.blob))
    BY <1>4 DEF BudgetStop
  <2>2. keep_interrupted(act.blob) \in Session
    BY <1>1, KeepType
  <2>3. rows' \in SUBSET Row
    BY <2>1, <2>2, PutType, SeqType DEF put
  <2>4. act' \in Activity /\ act'.pc # "idle" /\ act'.run = act.run
    BY <1>1, <2>1, <2>2, SmallTypes, ZenonT(60) DEF Activity
  <2> QED BY <1>3, <2>3, <2>4
<1>5. CASE Ask
  <2>1. PICK batch \in Batches, n \in Ids :
          act' = [act EXCEPT !.blob.round = act.blob.round + 1, !.meter = add_model_call(@),
                             !.calls = [c \in Batch(batch, n) |-> "new"]]
    BY <1>5, ZenonT(60) DEF Ask, Batch
  <2>2. act.blob.round < MaxRounds /\ act.blob.version <= MaxVersion /\ UNCHANGED rows
    BY <1>5, ZenonT(60) DEF Ask
  <2>3. batch \subseteq Tools
    BY TurnAssumption
  <2>4. act.blob.version \in 1..MaxVersion /\ act.blob.round + 1 \in 1..MaxRounds
    BY <1>1, <2>2, TurnAssumption DEF Session
  <2>5. Batch(batch, n) \in SUBSET Calls
    BY <2>3, <2>4 DEF Batch, Calls
  <2>6. [c \in Batch(batch, n) |-> "new"] \in Tables(Phases)
    <3>1. [c \in Batch(batch, n) |-> "new"] \in [Batch(batch, n) -> Phases]
      BY DEF Phases
    <3> QED BY <2>5, <3>1, MakeTable
  <2>7. [act.blob EXCEPT !.round = act.blob.round + 1] \in Session
    BY <1>1 DEF Session
  <2>8. act' = [act EXCEPT !.blob = [act.blob EXCEPT !.round = act.blob.round + 1], !.meter = add_model_call(act.meter),
                           !.calls = [c \in Batch(batch, n) |-> "new"]]
    BY <2>1
  <2>9. act' \in Activity /\ act'.pc = act.pc /\ act'.run = act.run
    BY <1>2, <2>6, <2>7, <2>8, ZenonT(60) DEF Activity
  <2> QED BY <1>0, <1>3, <2>2, <2>9
<1>6. CASE Reply
  <2>1. /\ act' = [act EXCEPT !.pc = "put", !.blob = [act.blob EXCEPT !.version = act.blob.version + 1], !.calls = <<>>,
                              !.meter = add_model_call(act.meter), !.result = Completed(act.blob.version + 1)]
        /\ UNCHANGED rows
    BY <1>6 DEF Reply
  <2>2. [act.blob EXCEPT !.version = act.blob.version + 1] \in Session
    BY <1>1 DEF Session
  <2>3. act' \in Activity /\ act'.pc # "idle" /\ act'.run = act.run
    BY <1>1, <1>2, <2>1, <2>2, SmallTypes, ZenonT(60) DEF Activity
  <2> QED BY <1>3, <2>1, <2>3
<1>7. CASE ModelFails
  <2>1. act' = [act EXCEPT !.pc = "put", !.blob = get, !.calls = <<>>, !.result = Failed] /\ UNCHANGED rows /\ act.pc = "drive"
    BY <1>7 DEF ModelFails
  <2>2. get \in Session
    BY <2>1, NewestRow DEF Stored, SessionRows
  <2>3. act' \in Activity /\ act'.pc # "idle" /\ act'.run = act.run
    BY <1>1, <2>1, <2>2, SmallTypes, ZenonT(60) DEF Activity
  <2> QED BY <1>3, <2>1, <2>3
<1>8. CASE Park
  <2> DEFINE waits == {c \in DOMAIN act.calls : act.calls[c] = "asking"}
             asks  == {c \in waits : Info[c.tool].name # "ask_user"}
             res   == IF asks # {} THEN ParkedApproval(act.blob.version + 1, asks) ELSE ParkedInput(act.blob.version + 1, waits)
             b     == [act.blob EXCEPT !.version = act.blob.version + 1, !.pending = waits]
  <2>1. act' = [act EXCEPT !.pc = "put", !.blob.version = @ + 1, !.blob.pending = waits, !.calls = <<>>, !.result = res]
        /\ UNCHANGED rows
    BY <1>8 DEF Park
  <2>2. waits \in SUBSET Calls /\ asks \in SUBSET Calls
    BY ActFields, TableParts
  <2> HIDE DEF waits, asks
  <2>3. res \in Result
    BY <1>1, <2>2, SmallTypes
  <2>4. b \in Session
    BY <1>1, <2>2, ZenonT(60) DEF Session
  <2> HIDE DEF res
  <2>5. act' = [act EXCEPT !.pc = "put", !.blob = b, !.calls = <<>>, !.result = res]
    BY <1>1, <2>1, ZenonT(60) DEF Activity, Session
  <2> HIDE DEF b
  <2>6. act' \in Activity /\ act'.pc # "idle" /\ act'.run = act.run
    BY <1>1, <2>3, <2>4, <2>5, ZenonT(60) DEF Activity
  <2> QED BY <1>3, <2>1, <2>6
<1>9. CASE Put
  <2>1. act' = [act EXCEPT !.pc = "report"] /\ rows' = put(remember(act.blob, TurnKey, act.result))
    BY <1>9 DEF Put
  <2>2. remember(act.blob, TurnKey, act.result) \in Session
    BY <1>1, ActFields, KeyType, RememberType
  <2>3. rows' \in SUBSET Row
    BY <2>1, <2>2, PutType, SeqType DEF put
  <2>4. act' \in Activity /\ act'.pc # "idle" /\ act'.run = act.run
    BY <2>1 DEF Activity
  <2> QED BY <1>3, <2>3, <2>4
<1> QED BY <1>4, <1>5, <1>6, <1>7, <1>8, <1>9

\* The steps of a call through the middlewares.
LEMMA CallTyped ==
    ASSUME Typed, Stored, NEW c \in DOMAIN act.calls,
           Check(c) \/ Claim(c) \/ Execute(c) \/ Finished(c) \/ FinishLedger(c)
    PROVE  /\ Typed' /\ act.pc = "drive" /\ act'.pc = "drive" /\ act'.run = act.run /\ UNCHANGED wf
           /\ DOMAIN act'.calls = DOMAIN act.calls /\ \A d \in DOMAIN act.calls \ {c} : act'.calls[d] = act.calls[d]
<1> USE DEF Typed
<1>0. UNCHANGED <<wf, beat, faults, allowed, history>> /\ act.pc = "drive"
  BY DEF Check, Claim, Execute, Finished, FinishLedger, ghosts
<1>1. /\ c \in Calls /\ act.calls \in Tables(Phases) /\ act.calls \in [DOMAIN act.calls -> Phases]
      /\ act.meter \in Meter /\ act.blob \in Session
  BY ActFields, TableParts
<1>2. ASSUME NEW v \in Phases, NEW m \in Meter, act' = [act EXCEPT !.calls = [act.calls EXCEPT ![c] = v], !.meter = m]
      PROVE  /\ act' \in Activity /\ act'.pc = "drive" /\ act'.run = act.run
             /\ DOMAIN act'.calls = DOMAIN act.calls /\ \A d \in DOMAIN act.calls \ {c} : act'.calls[d] = act.calls[d]
  <2>1. [act.calls EXCEPT ![c] = v] \in Tables(Phases)
    BY <1>1, SetEntry
  <2>2. act' \in Activity /\ act'.pc = "drive" /\ act'.run = act.run /\ act'.calls = [act.calls EXCEPT ![c] = v]
    BY <1>0, <1>2, <2>1, ZenonT(60) DEF Activity
  <2> QED BY <1>1, <2>2
<1>3. CASE Check(c)
  <2>1. PICK v \in Phases : act' = [act EXCEPT !.calls[c] = v]
    BY <1>3 DEF Check, Phases
  <2>2. act' = [act EXCEPT !.calls = [act.calls EXCEPT ![c] = v], !.meter = act.meter]
    BY <2>1, ZenonT(60) DEF Activity
  <2>3. events' = events \/ events' = publish_events(c, "denied")
    BY <1>3 DEF Check
  <2>4. events' \in Tables(Told)
    BY <1>1, <2>3, TableSteps, ZenonT(60) DEF Told
  <2>5. UNCHANGED <<rows, ledger, ran, spent>>
    BY <1>3 DEF Check, ghosts
  <2> QED BY <1>0, <1>1, <1>2, <2>2, <2>4, <2>5, ZenonT(60)
<1>4. CASE Claim(c)
  <2>1. CASE Reached # "none"
    <3>1. act' = [act EXCEPT !.calls[c] = "done", !.meter.refused = IF @ = "none" THEN Reached ELSE @]
          /\ UNCHANGED <<rows, ledger, events, spent, ran>>
      BY <1>4, <2>1 DEF Claim
    <3> DEFINE m == [act.meter EXCEPT !.refused = IF @ = "none" THEN Reached ELSE @]
    <3>2. m \in Meter
      BY <1>1 DEF Meter, Reached, Spent
    <3>3. act' = [act EXCEPT !.calls = [act.calls EXCEPT ![c] = "done"], !.meter = m]
      BY <3>1 DEF Activity
    <3> HIDE DEF m
    <3> QED BY <1>0, <1>2, <3>1, <3>2, <3>3, ZenonT(60) DEF Phases
  <2>2. CASE Reached = "none"
    <3>1. /\ act' = [act EXCEPT !.calls[c] = ledger_on_acting(c).phase, !.meter.tool_calls = @ + 1]
          /\ spent' = spent + 1 /\ rows' = policy_on_acting /\ ledger' = ledger_on_acting(c).ledger
          /\ events' = ledger_on_acting(c).events /\ UNCHANGED ran
      BY <1>4, <2>2 DEF Claim
    <3> DEFINE m == [act.meter EXCEPT !.tool_calls = @ + 1]
    <3>2. m \in Meter
      BY <1>1 DEF Meter
    <3>3. act' = [act EXCEPT !.calls = [act.calls EXCEPT ![c] = ledger_on_acting(c).phase], !.meter = m]
      BY <3>1 DEF Activity
    <3> HIDE DEF m
    <3>4. ledger_on_acting(c).phase \in Phases
      BY DEF ledger_on_acting, Phases
    <3>5. rows' \in SUBSET Row
      BY <1>1, <3>1, PutType, BatchSeqType, SmallTypes DEF policy_on_acting
    <3>6. ledger' \in Tables(LedgerRow)
      BY <1>1, <3>1, TableSteps, ZenonT(60) DEF ledger_on_acting
    <3>7. Claims(c) = "run" \/ Claims(c) \in Told
      <4>0. ledger \in [DOMAIN ledger -> LedgerRow]
        BY TableParts
      <4>1. c \in DOMAIN ledger => ledger[c] \in LedgerRow /\ ledger[c].status \in {"started", "succeeded", "failed_permanent"}
        BY <4>0 DEF LedgerRow
      <4>2. CASE c \notin DOMAIN ledger
        BY <4>2 DEF Claims
      <4>3. CASE c \in DOMAIN ledger /\ ledger[c].status # "started"
        <5>1. Claims(c) = ledger[c].status
          BY <4>3 DEF Claims
        <5> QED BY <4>1, <4>3, <5>1 DEF Told
      <4>4. CASE c \in DOMAIN ledger /\ ledger[c].status = "started"
        <5>1. Claims(c) = "run" \/ Claims(c) = "refused"
          BY <4>4 DEF Claims
        <5> QED BY <5>1 DEF Told
      <4> QED BY <4>2, <4>3, <4>4
    <3>8. events' \in Tables(Told)
      BY <1>1, <3>1, <3>7, TableSteps, ZenonT(60) DEF ledger_on_acting
    <3>9. /\ act' \in Activity /\ act'.pc = "drive" /\ act'.run = act.run
          /\ DOMAIN act'.calls = DOMAIN act.calls /\ \A d \in DOMAIN act.calls \ {c} : act'.calls[d] = act.calls[d]
      BY <1>2, <3>2, <3>3, <3>4, ZenonT(60)
    <3>10. spent' \in Int
      BY <3>1
    <3> QED BY <1>0, <3>1, <3>5, <3>6, <3>8, <3>9, <3>10
  <2> QED BY <2>1, <2>2
<1>5. CASE Execute(c)
  <2>1. PICK v \in {"succeeded", "failed_permanent"} : act' = [act EXCEPT !.calls[c] = v]
    BY <1>5 DEF Execute
  <2>2. act' = [act EXCEPT !.calls = [act.calls EXCEPT ![c] = v], !.meter = act.meter] /\ v \in Phases
    BY <2>1, ZenonT(60) DEF Activity, Phases
  <2>3. DOMAIN ran \in SUBSET Calls /\ ran \in [DOMAIN ran -> Nat]
    BY TableParts
  <2>4. ran' = [x \in DOMAIN ran \cup {c} |-> (IF x \in DOMAIN ran THEN ran[x] ELSE 0) + (IF x = c THEN 1 ELSE 0)]
    BY <1>5 DEF Execute
  <2>5. ran' \in [DOMAIN ran \cup {c} -> Nat]
    BY <2>3, <2>4
  <2>6. ran' \in Tables(Nat)
    BY <1>1, <2>3, <2>5, MakeTable, ZenonT(60)
  <2>7. UNCHANGED <<rows, ledger, events, spent>>
    BY <1>5 DEF Execute
  <2> QED BY <1>0, <1>1, <1>2, <2>2, <2>6, <2>7, ZenonT(60)
<1>6. CASE Finished(c)
  <2>1. events' = publish_events(c, act.calls[c]) /\ act.calls[c] \in Told /\ UNCHANGED <<act, rows, ledger, ran, spent>>
    BY <1>6 DEF Finished, Told, ghosts
  <2>2. events' \in Tables(Told)
    BY <1>1, <2>1, TableSteps, ZenonT(60)
  <2> QED BY <1>0, <2>1, <2>2
<1>7. CASE FinishLedger(c)
  <2>1. /\ ledger' = finish_ledger(c, act.calls[c]) /\ act.calls[c] \in {"succeeded", "failed_permanent"}
        /\ act' = [act EXCEPT !.calls[c] = "done"] /\ UNCHANGED <<rows, events, ran, spent>>
    BY <1>7 DEF FinishLedger, ghosts
  <2>2. act' = [act EXCEPT !.calls = [act.calls EXCEPT ![c] = "done"], !.meter = act.meter] /\ "done" \in Phases
    BY <2>1, ZenonT(60) DEF Activity, Phases
  <2>3. ledger' \in Tables(LedgerRow)
    BY <1>1, <2>1, TableSteps, ZenonT(60)
  <2> QED BY <1>0, <1>1, <1>2, <2>1, <2>2, <2>3, ZenonT(60)
<1> QED BY <1>3, <1>4, <1>5, <1>6, <1>7

-----------------------------------------------------------------------------
(* So do those of the attempt around it. *)

Usage == [tokens : Nat, tool_calls : Nat]

\* usages.add.
LEMMA UsageAdded ==
    ASSUME NEW u \in Usage, NEW m \in Meter
    PROVE  usage_add(u, m) \in Usage /\ usage_add(u, m).tool_calls = u.tool_calls + m.tool_calls
<1>1. DOMAIN u = {"tokens", "tool_calls"} /\ u.tokens \in Nat /\ u.tool_calls \in Nat
  BY DEF Usage
<1>2. m.tokens \in Nat /\ m.tool_calls \in Nat
  BY DEF Meter
<1>3. usage_add(u, m) = [d \in {"tokens", "tool_calls"} |-> u[d] + m[d]]
  BY <1>1 DEF usage_add
<1>4. u.tokens + m.tokens \in Nat /\ u.tool_calls + m.tool_calls \in Nat
  BY <1>1, <1>2
<1>5. usage_add(u, m) = [tokens |-> u.tokens + m.tokens, tool_calls |-> u.tool_calls + m.tool_calls]
  BY <1>3
<1> QED BY <1>4, <1>5 DEF Usage

\* The end of the attempt.
LEMMA OverType ==
    ASSUME wf \in Workflow, NEW outcome \in {"failed", "completed", "cancelled"}, NEW back \in SUBSET Messages
    PROVE  /\ Over(outcome, back) \in Workflow /\ Over(outcome, back).pc = "done"
           /\ Over(outcome, back).messages = {} /\ Over(outcome, back).delivered = {}
           /\ Over(outcome, back).returned = back /\ Over(outcome, back).sent = wf.sent
           /\ Over(outcome, back).retry = {} /\ Over(outcome, back).approved = {}
<1>1. wf.sent \in SUBSET Messages
  BY DEF Workflow
<1> QED BY <1>1, ZenonT(60) DEF Over, Fresh, Workflow

\* The fields of the workflow.
LEMMA WfFields ==
    ASSUME wf \in Workflow
    PROVE  /\ wf.pc \in {"ready", "running", "approval", "input", "done"} /\ wf.session \in BOOLEAN /\ wf.version \in Nat
           /\ wf.approved \in SUBSET Calls /\ wf.retry \in SUBSET Calls /\ wf.waits \in SUBSET Calls
           /\ wf.messages \in SUBSET Messages /\ wf.delivered \in SUBSET Messages /\ wf.sent \in SUBSET Messages
           /\ wf.returned \in SUBSET Messages /\ wf.usage \in Usage
BY DEF Workflow, Usage

\* What the activity and the workflow become when a worker is replaced, or the activity given up.
LEMMA RetriedEffect ==
    ASSUME Typed, Tidy, act.pc # "idle", Retried
    PROVE  /\ act' \in Activity /\ wf' \in Workflow /\ Tidy' /\ act'.calls = <<>>
           /\ \/ act'.pc = "enter" /\ act'.run = act.run + 1 /\ UNCHANGED wf
              \/ act' = Idle /\ wf' = Over("failed", wf.messages)
<1>1. CASE act.run < MaxRuns
  <2>1. act' = [Idle EXCEPT !.pc = "enter", !.run = act.run + 1] /\ UNCHANGED wf
    BY <1>1 DEF Retried
  <2>2. act.run \in 0..MaxRuns /\ act.run >= 1
    BY ActFields DEF Typed, Tidy
  <2>3. act.run + 1 \in 0..MaxRuns /\ act.run + 1 >= 1
    BY <1>1, <2>2, TurnAssumption
  <2>4. act' \in Activity
    BY <2>1, <2>3, IdleTypes, ZenonT(60)
  <2>5. act'.pc = "enter" /\ act'.run = act.run + 1 /\ act'.calls = <<>>
    BY <2>1 DEF Idle
  <2> QED BY <2>1, <2>3, <2>4, <2>5 DEF Typed, Tidy
<1>2. CASE ~(act.run < MaxRuns)
  <2>1. act' = Idle /\ wf' = Over("failed", wf.messages)
    BY <1>2 DEF Retried
  <2>2. act' \in Activity /\ act'.pc = "idle" /\ act'.calls = <<>>
    BY <2>1, IdleTypes, ZenonT(60) DEF Idle
  <2>3. wf.messages \in SUBSET Messages /\ wf.messages \subseteq wf.sent
    BY WfFields DEF Typed, Tidy
  <2>4. /\ wf' \in Workflow /\ wf'.pc = "done" /\ wf'.messages = {} /\ wf'.delivered = {}
        /\ wf'.returned = wf.messages /\ wf'.sent = wf.sent
    BY <2>1, <2>3, OverType DEF Typed
  <2> QED BY <2>1, <2>2, <2>3, <2>4 DEF Tidy
<1> QED BY <1>1, <1>2

\* The activity is scheduled, in this run of the workflow or the next: what is carried over is all that counts.
LEMMA ScheduleEffect ==
    ASSUME Typed, Tidy, Schedule
    PROVE  /\ wf' \in Workflow /\ act' \in Activity /\ Tidy'
           /\ act'.pc = "enter" /\ act'.run = 1 /\ act'.calls = <<>> /\ wf.pc = "ready" /\ wf'.pc = "running"
           /\ wf'.usage = wf.usage /\ wf'.retry = wf.retry /\ wf'.approved = wf.approved /\ wf'.version = wf.version
           /\ wf'.session = wf.session /\ wf'.decision = wf.decision /\ wf'.external = wf.external
<1>1. PICK w \in {wf, restore(carry)} : wf' = [w EXCEPT !.pc = "running", !.delivered = w.messages]
  BY ZenonT(60) DEF Schedule
<1>2. /\ w \in Workflow /\ w.messages = wf.messages /\ w.usage = wf.usage /\ w.retry = wf.retry /\ w.sent = wf.sent
      /\ w.approved = wf.approved /\ w.version = wf.version /\ w.returned = wf.returned
      /\ w.session = wf.session /\ w.decision = wf.decision /\ w.external = wf.external
  <2> DEFINE r == [wf EXCEPT !.pc = "ready", !.waits = {}, !.delivered = {}]
  <2>1. /\ r \in Workflow /\ r.messages = wf.messages /\ r.usage = wf.usage /\ r.retry = wf.retry /\ r.sent = wf.sent
        /\ r.approved = wf.approved /\ r.version = wf.version /\ r.returned = wf.returned
        /\ r.session = wf.session /\ r.decision = wf.decision /\ r.external = wf.external
    BY ZenonT(60) DEF Typed, Workflow
  <2>2. w = wf \/ w = r
    BY <1>1, Restoring DEF Typed
  <2> HIDE DEF r
  <2> QED BY <2>1, <2>2 DEF Typed
<1>3. /\ wf' \in Workflow /\ wf'.pc = "running" /\ wf'.delivered = wf.messages /\ wf'.messages = wf.messages
      /\ wf'.sent = wf.sent /\ wf'.returned = wf.returned
      /\ wf'.usage = wf.usage /\ wf'.retry = wf.retry /\ wf'.approved = wf.approved /\ wf'.version = wf.version
      /\ wf'.session = wf.session /\ wf'.decision = wf.decision /\ wf'.external = wf.external
  BY <1>1, <1>2, ZenonT(60) DEF Workflow
<1>4. act' = [Idle EXCEPT !.pc = "enter", !.run = 1] /\ wf.pc = "ready"
  BY DEF Schedule
<1>5. 1 \in 0..MaxRuns
  BY TurnAssumption
<1>6. act' \in Activity /\ act'.pc = "enter" /\ act'.run = 1 /\ act'.calls = <<>>
  BY <1>4, <1>5, IdleTypes, ZenonT(60) DEF Idle
<1> QED BY <1>3, <1>4, <1>6 DEF Tidy

\* A result ends the attempt or parks it.
LEMMA ReportEffect ==
    ASSUME Typed, Tidy, Report
    PROVE  /\ wf' \in Workflow /\ Tidy' /\ act' = Idle /\ beat' = NoMeter
           /\ \/ wf'.pc = "done" /\ wf'.retry = {} /\ wf'.approved = {}
              \/ /\ wf'.pc \in {"approval", "input"} /\ wf'.approved = {}
                 /\ wf'.usage.tool_calls = wf.usage.tool_calls + act.meter.tool_calls
                 /\ act.result.status \notin {"failed", "completed"} /\ wf'.session = (wf.session \/ act.result.version > 0)
                 /\ wf'.version = act.result.version /\ wf'.decision = "none"
                 /\ wf'.retry = act.result.retry /\ wf'.waits = act.result.waits
<1> DEFINE result == act.result
           left == IF result.status = "failed" THEN wf.messages ELSE wf.messages \ wf.delivered
           next == [wf EXCEPT !.session = @ \/ result.version > 0,
                              !.version = IF result.status = "failed" THEN @ ELSE result.version,
                              !.decision = "none", !.approved = {}, !.external = result.status = "parked_input",
                              !.retry = result.retry, !.waits = result.waits, !.messages = left, !.delivered = {},
                              !.usage = usage_add(@, act.meter),
                              !.pc = IF result.status = "parked_approval" THEN "approval" ELSE "input"]
<1>1. wf' = IF result.status \in {"failed", "completed"} THEN Over(result.status, left) ELSE next
  BY DEF Report
<1>2. act' = Idle /\ beat' = NoMeter
  BY DEF Report
<1>3. left \in SUBSET Messages /\ left \subseteq wf.sent
  BY WfFields DEF Typed, Tidy
<1>4. result \in Result /\ act.meter \in Meter
  BY ActFields DEF Typed
<1>5. result.version \in Nat /\ result.retry \in SUBSET Calls /\ result.waits \in SUBSET Calls
  BY <1>4 DEF Result
<1>6. /\ usage_add(wf.usage, act.meter) \in Usage
      /\ usage_add(wf.usage, act.meter).tool_calls = wf.usage.tool_calls + act.meter.tool_calls
  BY <1>4, WfFields, UsageAdded DEF Typed
<1> HIDE DEF result, left
<1>7. /\ next \in Workflow /\ next.pc \in {"approval", "input"} /\ next.approved = {} /\ next.messages = left
      /\ next.delivered = {} /\ next.returned = wf.returned /\ next.sent = wf.sent
      /\ next.usage = usage_add(wf.usage, act.meter) /\ next.session = (wf.session \/ result.version > 0)
      /\ next.version = (IF result.status = "failed" THEN wf.version ELSE result.version) /\ next.decision = "none"
      /\ next.retry = result.retry /\ next.waits = result.waits
  BY <1>3, <1>5, <1>6, ZenonT(60) DEF Workflow, Typed, Usage
<1> HIDE DEF next
<1>8. act'.pc = "idle"
  BY <1>2 DEF Idle
<1>9. CASE result.status \in {"failed", "completed"}
  <2>1. wf' = Over(result.status, left)
    BY <1>1, <1>9
  <2>2. /\ wf' \in Workflow /\ wf'.pc = "done" /\ wf'.messages = {} /\ wf'.delivered = {}
        /\ wf'.returned = left /\ wf'.sent = wf.sent /\ wf'.retry = {} /\ wf'.approved = {}
    BY <1>3, <1>9, <2>1, OverType DEF Typed
  <2> QED BY <1>2, <1>3, <1>8, <2>2 DEF Tidy
<1>10. CASE ~(result.status \in {"failed", "completed"})
  <2>1. wf' = next
    BY <1>1, <1>10
  <2>2. wf' \in Workflow /\ Tidy' /\ wf'.usage.tool_calls = wf.usage.tool_calls + act.meter.tool_calls
    BY <1>3, <1>6, <1>7, <1>8, <2>1 DEF Tidy
  <2> QED BY <1>2, <1>7, <1>10, <2>1, <2>2 DEF result
<1> QED BY <1>9, <1>10

-----------------------------------------------------------------------------
(* Sound is inductive. *)

\* What is known of the state at every step: the types, the store, and whose turn it is.
Sound == Typed /\ Stored /\ Tidy

\* The activity at work: everything between its begin and its report.
Within == Enter \/ Open \/ Dispatch \/ Unreadable \/ BudgetStop \/ Ask \/ Reply \/ ModelFails \/ Park \/ CallStep \/ Put

\* The activity keeps the workflow as it is, stays the same run, and keeps a session to fall back on.
LEMMA WithinSound ==
    ASSUME Sound, Within
    PROVE  Sound' /\ UNCHANGED <<wf, beat, allowed, history>> /\ act.pc # "idle" /\ act'.pc \notin {"idle", "enter"}
           /\ act'.run = act.run
<1> USE DEF Sound
<1>0. UNCHANGED <<wf, beat, allowed, history>>
  BY ZenonT(60) DEF Within, Enter, Open, Dispatch, Unreadable, BudgetStop, Ask, Reply, ModelFails, Park, Put,
         CallStep, Check, Claim, Execute, Finished, FinishLedger, ghosts
<1>1. Typed' /\ act.pc # "idle" /\ act'.pc # "idle" /\ act'.run = act.run
  BY EntryTyped, DriveTyped, CallTyped DEF Within, CallStep
<1>2. Tidy'
  BY <1>0, <1>1 DEF Tidy
<1>3. act'.pc # "enter"
  <2>0. act \in Activity
    BY DEF Typed
  <2>1. CASE Enter
    BY <2>0, <2>1, ZenonT(60) DEF Enter, Activity
  <2>2. CASE Open \/ Dispatch \/ Unreadable \/ BudgetStop \/ Reply \/ ModelFails \/ Park \/ Put
    BY <2>0, <2>2, ZenonT(60) DEF Open, Dispatch, Unreadable, BudgetStop, Reply, ModelFails, Park, Put, Activity
  <2>3. CASE Ask
    BY <2>0, <2>3 DEF Ask, Activity
  <2>4. CASE CallStep
    BY <2>4, CallTyped DEF CallStep
  <2> QED BY <2>1, <2>2, <2>3, <2>4 DEF Within
<1>4. Stored'
  <2>0. act.blob \in Session /\ act.result \in Result /\ wf \in Workflow /\ rows \in SUBSET Row
    BY ActFields DEF Typed
  <2>1. CASE Enter \/ Unreadable
    <3>1. act'.pc \notin {"drive", "put"} /\ UNCHANGED rows
      BY <2>1, ZenonT(60) DEF Enter, Unreadable, Typed, Activity
    <3> QED BY <1>0, <3>1, StoredFrame
  <2>2. CASE Dispatch
    <3>1. SessionRows # {} /\ UNCHANGED rows
      BY <2>2, ZenonT(60) DEF Dispatch
    <3> QED BY <1>0, <3>1, StoredFrame
  <2>3. CASE Open
    <3>1. act'.pc \notin {"drive", "put"} /\ (UNCHANGED rows \/ rows' = put_checkpoint(session_seq(NewSession), NewSession))
      BY <2>3 DEF Open, Typed, Activity, put
    <3>2. session_seq(NewSession) \in Nat \X Nat /\ NewSession \in Session
      BY SmallTypes, SeqType
    <3> QED BY <1>0, <2>0, <3>1, <3>2, StoredFrame, StoredPut
  <2>4. CASE BudgetStop
    <3>1. rows' = put_checkpoint(session_seq(keep_interrupted(act.blob)), keep_interrupted(act.blob)) /\ act.pc = "drive"
      BY <2>4 DEF BudgetStop, put
    <3>2. session_seq(keep_interrupted(act.blob)) \in Nat \X Nat /\ keep_interrupted(act.blob) \in Session
      BY <2>0, KeepType, SeqType
    <3>3. SessionRows # {}
      BY <3>1 DEF Stored
    <3> QED BY <1>0, <2>0, <3>1, <3>2, <3>3, StoredPut
  <2>5. CASE Ask \/ Reply \/ ModelFails \/ Park
    <3>1. UNCHANGED rows /\ act.pc = "drive"
      BY <2>5, ZenonT(60) DEF Ask, Reply, ModelFails, Park
    <3>2. SessionRows # {}
      BY <3>1 DEF Stored
    <3> QED BY <1>0, <3>1, <3>2, StoredFrame
  <2>6. CASE Put
    <3> DEFINE b == remember(act.blob, TurnKey, act.result)
    <3>1. rows' = put_checkpoint(session_seq(b), b) /\ act.pc = "put"
      BY <2>6 DEF Put, put
    <3>2. b \in Session
      BY <2>0, KeyType, RememberType DEF Typed
    <3> HIDE DEF b
    <3>3. session_seq(b) \in Nat \X Nat
      BY <3>2, SeqType
    <3>4. SessionRows # {}
      BY <3>1 DEF Stored
    <3> QED BY <1>0, <2>0, <3>1, <3>2, <3>3, <3>4, StoredPut
  <2>7. CASE CallStep
    <3>1. PICK c \in DOMAIN act.calls : Check(c) \/ Claim(c) \/ Execute(c) \/ Finished(c) \/ FinishLedger(c)
      BY <2>7 DEF CallStep
    <3>2. act.pc = "drive"
      BY <3>1 DEF Check, Claim, Execute, Finished, FinishLedger
    <3>3. SessionRows # {}
      BY <3>2 DEF Stored
    <3>4. UNCHANGED rows \/ rows' = put_checkpoint(batch_seq(act.blob), NewSession)
      BY <3>1 DEF Check, Claim, Execute, Finished, FinishLedger, policy_on_acting
    <3>5. batch_seq(act.blob) \in Nat \X Nat /\ batch_seq(act.blob)[1] = 0 /\ NewSession \in Session
      BY <2>0, BatchSeqType, SmallTypes
    <3> QED BY <1>0, <2>0, <3>3, <3>4, <3>5, StoredFrame, StoredPut
  <2> QED BY <2>1, <2>2, <2>3, <2>4, <2>5, <2>6, <2>7 DEF Within
<1> QED BY <1>0, <1>1, <1>2, <1>3, <1>4

\* commit_checkpoints keeps every row and marks the newest.
LEMMA CommitsSound ==
    ASSUME Typed, Stored, Commits, act'.pc = "idle"
    PROVE  rows' \in SUBSET Row /\ history' \in SUBSET (Nat \X Nat) /\ faults' \in 0..MaxFaults /\ Stored'
<1>0. rows \in SUBSET Row /\ history \in SUBSET (Nat \X Nat) /\ faults \in 0..MaxFaults
  BY DEF Typed
<1>1. faults' \in 0..MaxFaults
  BY <1>0, TurnAssumption DEF Commits
<1>2. CASE UNCHANGED <<rows, history>>
  BY <1>0, <1>1, <1>2, StoredFrame
<1>3. CASE ~UNCHANGED <<rows, history>>
  <2> DEFINE n == Newest(rows)
             m == [n EXCEPT !.committed = TRUE]
  <2>1. SessionRows # {} /\ rows' = (rows \ {n}) \cup {m} /\ history' = history \cup {n.seq}
    BY <1>3 DEF Commits, commit_checkpoints
  <2>2. rows # {} /\ n \in rows /\ n.blobThere
    BY <1>0, <2>1, NewestRow DEF SessionRows
  <2> HIDE DEF n
  <2>3. m \in Row /\ m.seq = n.seq /\ m.blob = n.blob /\ m.committed /\ m.blobThere /\ m.seq \in Nat \X Nat
    BY <1>0, <2>2, ZenonT(60) DEF Row
  <2> HIDE DEF m
  <2>4. \A s \in history' : \E r \in rows' : r.seq = s /\ r.committed
    BY <2>1, <2>2, <2>3 DEF Stored
  <2>5. \A q \in rows' : q.committed => q.blobThere
    BY <2>1, <2>3 DEF Stored
  <2>6. \A q \in rows' \ {m} : \E r \in rows \ {n} : q.seq = r.seq
    BY <2>1
  <2>7. \A q \in rows' : \E r \in rows : q.seq = r.seq /\ q.blob = r.blob
    BY <2>1, <2>2, <2>3
  <2>8. m \in rows' /\ m.seq = Newest(rows).seq
    BY <2>1, <2>3 DEF n
  <2>9. Stored'
    BY <1>0, <2>2, <2>3, <2>4, <2>5, <2>6, <2>7, <2>8, StoredKept DEF n
  <2> QED BY <1>0, <1>1, <2>1, <2>3, <2>9
<1> QED BY <1>2, <1>3

\* Maintenance changes nothing but rows, and keeps what the store promises.
LEMMA CareSound ==
    ASSUME Sound, Age \/ gc_checkpoints \/ GcCrashes
    PROVE  Sound' /\ UNCHANGED <<wf, act, ledger, events, beat, ran, allowed, spent, history>>
<1> USE DEF Sound
<1>0. UNCHANGED <<wf, act, ledger, events, beat, ran, allowed, spent, history>> /\ rows \in SUBSET Row
  BY DEF Age, gc_checkpoints, GcCrashes, ghosts, Typed
<1>1. faults' \in 0..MaxFaults
  BY TurnAssumption DEF Age, gc_checkpoints, GcCrashes, Typed
<1> DEFINE n == Newest(rows)
<1>2. act'.pc \in {"drive", "put"} => SessionRows # {}
  BY <1>0 DEF Stored
<1>3. Tidy'
  BY <1>0 DEF Tidy
<1>4. rows # {} /\ n \in rows /\ n.blobThere
  <2>1. rows # {}
    BY DEF Age, gc_checkpoints, GcCrashes, Garbage
  <2> QED BY <1>0, <2>1, NewestRow
<1>5. ASSUME NEW m \in rows', rows' \in SUBSET Row, m.blobThere, m.seq = n.seq,
             \A q \in rows' \ {m} : \E r \in rows \ {n} : q.seq = r.seq,
             \A q \in rows' : \E r \in rows : q.seq = r.seq /\ q.blob = r.blob,
             \A q \in rows' : q.committed => q.blobThere,
             \A r \in rows : r.committed => \E q \in rows' : q.seq = r.seq /\ q.committed
      PROVE  Sound'
  <2>1. \A s \in history' : \E r \in rows' : r.seq = s /\ r.committed
    BY <1>0, <1>5 DEF Stored
  <2>2. Stored'
    BY <1>0, <1>2, <1>4, <1>5, <2>1, StoredKept
  <2>3. Typed'
    BY <1>0, <1>1, <1>5 DEF Typed
  <2> QED BY <1>3, <2>2, <2>3
<1>6. CASE Age
  <2> DEFINE f(r) == [r EXCEPT !.old = TRUE]
  <2>1. rows' = {f(r) : r \in rows}
    BY <1>6 DEF Age
  <2>2. \A r \in rows : f(r) \in Row /\ f(r).seq = r.seq /\ f(r).blob = r.blob /\ f(r).committed = r.committed
                        /\ f(r).blobThere = r.blobThere
    BY <1>0, ZenonT(60) DEF Row
  <2> HIDE DEF f, n
  <2>3. f(n) \in rows' /\ f(n).blobThere /\ f(n).seq = n.seq /\ rows' \in SUBSET Row
    BY <1>4, <2>1, <2>2
  <2>4. \A q \in rows' : q.committed => q.blobThere
    BY <2>1, <2>2 DEF Stored
  <2>5. \A q \in rows' \ {f(n)} : \E r \in rows \ {n} : q.seq = r.seq
    BY <2>1, <2>2
  <2>6. /\ \A q \in rows' : \E r \in rows : q.seq = r.seq /\ q.blob = r.blob
        /\ \A r \in rows : r.committed => \E q \in rows' : q.seq = r.seq /\ q.committed
    BY <2>1, <2>2
  <2> QED BY <1>0, <1>5, <2>3, <2>4, <2>5, <2>6
<1>7. CASE gc_checkpoints
  <2>1. rows' = {r \in rows : ~(r.old /\ ~r.committed /\ r # n)}
    BY <1>7 DEF gc_checkpoints, Garbage
  <2> HIDE DEF n
  <2>2. n \in rows' /\ rows' \in SUBSET Row /\ \A q \in rows' : q \in rows
    BY <1>0, <1>4, <2>1
  <2>3. \A q \in rows' : q.committed => q.blobThere
    BY <2>2 DEF Stored
  <2>4. \A r \in rows : r.committed => r \in rows'
    BY <2>1
  <2> QED BY <1>0, <1>4, <1>5, <2>2, <2>3, <2>4
<1>8. CASE GcCrashes
  <2> DEFINE f(r) == IF r \in Garbage THEN [r EXCEPT !.blobThere = FALSE] ELSE r
  <2>1. rows' = {f(r) : r \in rows}
    BY <1>8 DEF GcCrashes
  <2>2. /\ \A r \in rows : f(r) \in Row /\ f(r).seq = r.seq /\ f(r).blob = r.blob /\ f(r).committed = r.committed
        /\ \A r \in rows : r.committed => f(r) = r
        /\ f(n) = n
    BY <1>0, ZenonT(60) DEF Row, Garbage
  <2> HIDE DEF f, n
  <2>3. f(n) \in rows' /\ f(n).blobThere /\ f(n).seq = n.seq /\ rows' \in SUBSET Row
    BY <1>4, <2>1, <2>2
  <2>4. \A q \in rows' : q.committed => q.blobThere
    BY <2>1, <2>2 DEF Stored
  <2>5. \A q \in rows' \ {f(n)} : \E r \in rows \ {n} : q.seq = r.seq
    BY <2>1, <2>2
  <2>6. /\ \A q \in rows' : \E r \in rows : q.seq = r.seq /\ q.blob = r.blob
        /\ \A r \in rows : r.committed => \E q \in rows' : q.seq = r.seq /\ q.committed
    BY <2>1, <2>2
  <2> QED BY <1>0, <1>5, <2>3, <2>4, <2>5, <2>6
<1> QED BY <1>0, <1>6, <1>7, <1>8

\* The attempt around the activity, and what ends an activity.
Around == \/ Schedule \/ approval_decided \/ Answered \/ Cancel \/ (\E m \in Messages : deliver_messages(m))
          \/ Report \/ Raise \/ Crash

\* What a heartbeat may have said.
LEMMA HeartbeatType ==
    ASSUME Typed, NEW last \in IF act.pc = "enter" THEN {beat} ELSE Heartbeats
    PROVE  /\ last \in Meter
           /\ last = beat \/ (act.pc # "enter" /\ last = act.meter)
              \/ (act.pc # "enter" /\ last.tool_calls < act.meter.tool_calls /\ last.refused = "none")
<1>1. act.meter \in Meter /\ beat \in Meter
  BY ActFields DEF Typed
<1>2. CASE last \in {act.meter, beat}
  BY <1>1, <1>2
<1>3. CASE last \notin {act.meter, beat}
  <2>1. act.pc # "enter"
    BY <1>3
  <2>2. PICK n \in beat.tool_calls..act.meter.tool_calls - 1 : last = [act.meter EXCEPT !.tool_calls = n, !.refused = "none"]
    BY <1>3, <2>1, ZenonT(60) DEF Heartbeats
  <2>3. n \in Nat /\ n < act.meter.tool_calls
    BY <1>1, <2>2 DEF Meter
  <2> QED BY <1>1, <2>1, <2>2, <2>3, ZenonT(60) DEF Meter
<1> QED BY <1>2, <1>3

\* Around the activity nothing runs and nothing is told, and what the worker had of the calls is gone.
LEMMA AroundSound ==
    ASSUME Sound, Around
    PROVE  Sound' /\ UNCHANGED <<ledger, events, ran>> /\ (UNCHANGED act \/ act'.calls = <<>>)
<1> USE DEF Sound
<1>0. UNCHANGED <<ledger, events, ran>>
  BY ZenonT(60) DEF Around, Schedule, approval_decided, Answered, Cancel, deliver_messages, Report, Raise, Crash, ghosts
<1>a. /\ ledger \in Tables(LedgerRow) /\ events \in Tables(Told) /\ ran \in Tables(Nat) /\ rows \in SUBSET Row
      /\ wf \in Workflow /\ act \in Activity /\ beat \in Meter /\ faults \in 0..MaxFaults /\ spent \in Int
      /\ allowed \in SUBSET Calls /\ history \in SUBSET (Nat \X Nat)
  BY DEF Typed
<1>b. Idle.pc = "idle" /\ Idle.calls = <<>> /\ Idle \in Activity /\ NoMeter \in Meter
  BY IdleTypes, SmallTypes, ZenonT(60) DEF Idle
<1>1. CASE Schedule
  <2>1. UNCHANGED <<rows, beat, faults, allowed, spent, history>>
    BY <1>1 DEF Schedule, ghosts
  <2>2. wf' \in Workflow /\ act' \in Activity /\ Tidy' /\ act'.pc = "enter" /\ act'.calls = <<>>
    BY <1>1, ScheduleEffect
  <2>3. Stored'
    BY <2>1, <2>2, StoredFrame
  <2> QED BY <1>0, <1>a, <2>1, <2>2, <2>3 DEF Typed
<1>2. CASE approval_decided
  <2>1. PICK yes \in SUBSET wf.waits :
          /\ wf' = [wf EXCEPT !.pc = "ready", !.approved = yes, !.waits = {}, !.decision = approval_payload(yes)]
          /\ allowed' = IF wf.retry = {} THEN allowed \cup yes ELSE allowed
    BY <1>2, ZenonT(60) DEF approval_decided
  <2>2. UNCHANGED <<act, rows, beat, faults, spent, history>> /\ wf.pc = "approval"
    BY <1>2 DEF approval_decided
  <2>3. yes \in SUBSET Calls /\ approval_payload(yes) \in {"approve", "reject"}
    BY <1>a, WfFields DEF approval_payload
  <2>4. wf' \in Workflow /\ wf'.pc = "ready" /\ wf'.messages = wf.messages /\ wf'.delivered = wf.delivered
        /\ wf'.sent = wf.sent /\ wf'.returned = wf.returned /\ allowed' \in SUBSET Calls
    BY <1>a, <2>1, <2>3, ZenonT(60) DEF Workflow
  <2>5. Tidy'
    BY <2>2, <2>4 DEF Tidy
  <2>6. Stored'
    BY <2>2, StoredFrame, ZenonT(60) DEF Stored
  <2> QED BY <1>0, <1>a, <2>2, <2>4, <2>5, <2>6 DEF Typed
<1>3. CASE Answered
  <2>1. wf' = [wf EXCEPT !.pc = "ready", !.waits = {}] /\ wf.pc = "input"
        /\ UNCHANGED <<act, rows, beat, faults, allowed, spent, history>>
    BY <1>3 DEF Answered, ghosts
  <2>2. wf' \in Workflow /\ wf'.pc = "ready" /\ wf'.messages = wf.messages /\ wf'.delivered = wf.delivered
        /\ wf'.sent = wf.sent /\ wf'.returned = wf.returned
    BY <1>a, <2>1, ZenonT(60) DEF Workflow
  <2>3. Tidy'
    BY <2>1, <2>2 DEF Tidy
  <2>4. Stored'
    BY <2>1, StoredFrame DEF Stored
  <2> QED BY <1>0, <1>a, <2>1, <2>2, <2>3, <2>4 DEF Typed
<1>4. CASE \E m \in Messages : deliver_messages(m)
  <2>1. PICK m \in Messages : deliver_messages(m)
    BY <1>4
  <2>2. wf' = [wf EXCEPT !.sent = @ \cup {m}, !.messages = @ \cup {m}]
        /\ UNCHANGED <<act, rows, beat, faults, allowed, spent, history>>
    BY <2>1 DEF deliver_messages, ghosts
  <2>3. wf' \in Workflow /\ wf'.pc = wf.pc /\ wf'.messages = wf.messages \cup {m} /\ wf'.delivered = wf.delivered
        /\ wf'.sent = wf.sent \cup {m} /\ wf'.returned = wf.returned
    BY <1>a, <2>2, ZenonT(60) DEF Workflow
  <2>4. Tidy'
    BY <2>2, <2>3 DEF Tidy
  <2>5. Stored'
    BY <2>2, StoredFrame DEF Stored
  <2> QED BY <1>0, <1>a, <2>2, <2>3, <2>4, <2>5 DEF Typed
<1>5. CASE Cancel
  <2> DEFINE b == keep_interrupted(act.blob)
  <2>1. wf' = Over("cancelled", wf.messages \ wf.delivered) /\ act' = Idle /\ beat' = NoMeter
        /\ UNCHANGED <<faults, allowed, spent, history>>
    BY <1>5 DEF Cancel, ghosts
  <2>2. rows' = rows \/ rows' = put_checkpoint(session_seq(b), b)
    BY <1>5 DEF Cancel, kept_if_cancelled, put
  <2>3. b \in Session
    BY <1>a, ActFields, KeepType
  <2> HIDE DEF b
  <2>4. session_seq(b) \in Nat \X Nat
    BY <2>3, SeqType
  <2>5. rows' \in SUBSET Row
    BY <1>a, <2>2, <2>3, <2>4, PutType
  <2>6. Stored'
    BY <1>a, <1>b, <2>1, <2>2, <2>3, <2>4, StoredFrame, StoredPut
  <2>7. wf' \in Workflow /\ wf'.pc = "done" /\ wf'.messages = {} /\ wf'.delivered = {}
        /\ wf'.sent = wf.sent /\ wf'.returned = wf.messages \ wf.delivered
    BY <1>a, <2>1, WfFields, OverType
  <2>8. Tidy'
    BY <1>b, <2>1, <2>7, ZenonT(60) DEF Tidy
  <2> QED BY <1>0, <1>a, <1>b, <2>1, <2>5, <2>6, <2>7, <2>8 DEF Typed
<1>6. CASE Report
  <2>1. wf' \in Workflow /\ Tidy' /\ act' = Idle /\ beat' = NoMeter /\ UNCHANGED <<allowed, spent>> /\ Commits
    BY <1>6, ReportEffect DEF Report
  <2>2. rows' \in SUBSET Row /\ history' \in SUBSET (Nat \X Nat) /\ faults' \in 0..MaxFaults /\ Stored'
    BY <1>b, <2>1, CommitsSound
  <2> QED BY <1>0, <1>a, <1>b, <2>1, <2>2 DEF Typed
<1>7. CASE Raise
  <2>1. Retried /\ act.pc = "raised" /\ beat' = act.meter /\ UNCHANGED <<rows, faults, allowed, spent, history>>
    BY <1>7 DEF Raise, ghosts
  <2>2. act' \in Activity /\ wf' \in Workflow /\ Tidy' /\ act'.calls = <<>> /\ act'.pc \in {"enter", "idle"}
    BY <1>b, <2>1, RetriedEffect
  <2>3. beat' \in Meter
    BY <1>a, <2>1, ActFields
  <2>4. Stored'
    BY <2>1, <2>2, StoredFrame
  <2> QED BY <1>0, <1>a, <2>1, <2>2, <2>3, <2>4 DEF Typed
<1>8. CASE Crash
  <2>1. Retried /\ act.pc # "idle" /\ faults < MaxFaults /\ faults' = faults + 1 /\ UNCHANGED <<rows, allowed, history>>
    BY <1>8 DEF Crash, kept_if_cancelled
  <2>2. PICK last \in IF act.pc = "enter" THEN {beat} ELSE Heartbeats :
          /\ beat' = last /\ spent' = spent - (IF act.pc = "enter" THEN 0 ELSE act.meter.tool_calls - last.tool_calls)
    BY <1>8, ZenonT(60) DEF Crash
  <2>3. last \in Meter
    BY <2>2, HeartbeatType
  <2>4. beat' \in Meter /\ spent' \in Int
    BY <1>a, <2>2, <2>3, ActFields DEF Meter
  <2>5. act' \in Activity /\ wf' \in Workflow /\ Tidy' /\ act'.calls = <<>> /\ act'.pc \in {"enter", "idle"}
    BY <1>b, <2>1, RetriedEffect
  <2>6. Stored'
    BY <2>1, <2>5, StoredFrame
  <2>7. faults' \in 0..MaxFaults
    <3>1. faults \in 0..MaxFaults
      BY <1>a, ZenonT(60)
    <3>2. MaxFaults \in Nat /\ faults < MaxFaults /\ faults' = faults + 1
      BY <2>1, TurnAssumption
    <3> QED BY <3>1, <3>2
  <2> QED BY <1>0, <1>a, <2>1, <2>4, <2>5, <2>6, <2>7 DEF Typed
<1> QED BY <1>1, <1>2, <1>3, <1>4, <1>5, <1>6, <1>7, <1>8 DEF Around

\* Every step is one of the three kinds.
LEMMA Steps ==
    ASSUME Next  PROVE Within \/ Around \/ (Age \/ gc_checkpoints \/ GcCrashes)
BY DEF Next, ActivityStep, Within, Around

\* An attempt begins with nothing stored and nothing scheduled.
LEMMA SoundInit == Init => Sound
<1> SUFFICES ASSUME Init PROVE Sound
  OBVIOUS
<1>1. wf \in Workflow /\ wf.pc = "ready" /\ wf.messages = FirstMessages /\ wf.delivered = {} /\ wf.returned = {}
      /\ wf.sent = FirstMessages
  BY TurnAssumption, ZenonT(60) DEF Init, Fresh, Workflow
<1>2. act \in Activity /\ act.pc = "idle"
  BY IdleTypes, ZenonT(60) DEF Init, Idle
<1>3. <<>> \in Tables(LedgerRow) /\ <<>> \in Tables(Told) /\ <<>> \in Tables(Nat)
  BY EmptyTable
<1>4. Typed
  BY <1>1, <1>2, <1>3, SmallTypes, TurnAssumption DEF Init, Typed
<1>5. Stored
  BY <1>2 DEF Init, Stored
<1>6. Tidy
  BY <1>1, <1>2 DEF Tidy
<1> QED BY <1>4, <1>5, <1>6 DEF Sound

\* No step of the system breaks it.
LEMMA SoundNext == Sound /\ [Next]_vars => Sound'
<1> SUFFICES ASSUME Sound, [Next]_vars PROVE Sound'
  OBVIOUS
<1>1. CASE Next
  BY <1>1, Steps, WithinSound, AroundSound, CareSound, ZenonT(60)
<1>2. CASE UNCHANGED vars
  BY <1>2, ZenonT(60) DEF vars, Sound, Typed, Stored, Tidy, IsNewest, SessionRows
<1> QED BY <1>1, <1>2

\* A checkpoint that a result in history refers to and that was committed can be read for ever, whenever maintenance runs and
\* wherever it dies (commit_checkpoints, _gc_checkpoints).
THEOREM HistoryStays == Spec => []HistoryKept
<1>1. Sound => HistoryKept
  BY DEF Sound, Stored, HistoryKept
<1> QED BY <1>1, SoundInit, SoundNext, PTL DEF Spec

-----------------------------------------------------------------------------
(* What a run reads back. *)

\* A session that no row is later than is the one a run reads back.
LEMMA TopIs ==
    ASSUME rows' \in SUBSET Row, Stored', NEW m \in rows', m.seq[1] > 0, \A q \in rows' : ~Later(q.seq, m.seq)
    PROVE  SessionRows' # {} /\ get' = m.blob
<1>0. \A r \in rows' : r.seq[1] \in Nat /\ r.seq[2] \in Nat
  BY DEF Row
<1>1. PICK n \in rows' : \A q \in rows' \ {n} : Later(n.seq, q.seq)
  BY DEF Stored, IsNewest
<1>2. n = m
  BY <1>1
<1>3. SessionRows' = {r \in rows' : r.seq[1] > 0}
  BY DEF SessionRows
<1> HIDE DEF SessionRows
<1>4. m \in SessionRows' /\ \A q \in SessionRows' \ {m} : Later(m.seq, q.seq)
  BY <1>1, <1>2, <1>3
<1>5. \A r \in SessionRows' : (\A q \in SessionRows' \ {r} : Later(r.seq, q.seq)) => r = m
  BY <1>0, <1>3, <1>4 DEF Later
<1>6. Newest(SessionRows') = m
  BY <1>4, <1>5 DEF Newest
<1> QED BY <1>4, <1>6 DEF get

\* A step keeps what a run would read back.
SameSession == /\ (SessionRows' # {}) = (SessionRows # {})
               /\ SessionRows # {} => get' = get

\* It does if it keeps the newest row and adds none to the sessions.
LEMMA TopKept ==
    ASSUME Typed, Stored, rows' \in SUBSET Row, Stored',
           \A q \in rows' : q.seq[1] = 0 \/ \E r \in rows : q.seq = r.seq,
           rows # {} => \E q \in rows' : q.seq = Newest(rows).seq /\ q.blob = Newest(rows).blob
    PROVE  SameSession
<1>0. rows \in SUBSET Row /\ \A r \in rows \cup rows' : r.seq[1] \in Nat /\ r.seq[2] \in Nat
  BY DEF Typed, Row
<1>1. CASE SessionRows = {}
  <2>1. \A r \in rows : ~(r.seq[1] > 0)
    BY <1>1 DEF SessionRows
  <2>2. \A q \in rows' : ~(q.seq[1] > 0)
    BY <2>1
  <2>3. SessionRows' = {}
    BY <2>2 DEF SessionRows
  <2> QED BY <1>1, <2>3 DEF SameSession
<1>2. CASE SessionRows # {}
  <2>1. rows # {}
    BY <1>2 DEF SessionRows
  <2> DEFINE n == Newest(rows)
  <2>2. n \in rows /\ IsNewest(n) /\ n.seq[1] > 0 /\ get = n.blob
    BY <1>0, <1>2, <2>1, NewestRow
  <2>3. PICK m \in rows' : m.seq = n.seq /\ m.blob = n.blob
    BY <2>1
  <2> HIDE DEF n
  <2>4. \A r \in rows : ~Later(r.seq, n.seq)
    BY <1>0, <2>2 DEF IsNewest, Later
  <2>5. \A q \in rows' : ~Later(q.seq, m.seq)
    <3> TAKE q \in rows'
    <3>1. CASE q.seq[1] = 0
      BY <1>0, <2>2, <2>3, <3>1 DEF Later
    <3>2. CASE \E r \in rows : q.seq = r.seq
      BY <2>3, <2>4, <3>2
    <3> QED BY <3>1, <3>2
  <2>6. SessionRows' # {} /\ get' = m.blob
    BY <2>2, <2>3, <2>5, TopIs
  <2> QED BY <1>2, <2>2, <2>3, <2>6 DEF SameSession
<1> QED BY <1>1, <1>2

\* A session that is stored later than what is there is what is read back.
LEMMA PutTop ==
    ASSUME Typed, Stored, rows' \in SUBSET Row, Stored', NEW b \in Session, rows' = put(b),
           SessionRows # {} => Later(session_seq(b), session_seq(get))
    PROVE  SessionRows' # {} /\ get' = b
<1> DEFINE seq == session_seq(b)
           new == [seq |-> seq, blob |-> b, committed |-> FALSE, old |-> FALSE, blobThere |-> TRUE]
<1>0. rows \in SUBSET Row /\ \A r \in rows : r.seq[1] \in Nat /\ r.seq[2] \in Nat
  BY DEF Typed, Row
<1>1. seq[1] \in Nat /\ seq[2] \in Nat /\ seq[1] > 0
  BY SeqType
<1>2. new.seq = seq /\ new.blob = b
  OBVIOUS
<1>3. (~\E r \in rows : r.seq = seq) => rows' = rows \cup {new}
  BY DEF put, put_checkpoint
<1> HIDE DEF seq, new
<1>4. \A r \in rows : Later(seq, r.seq)
  <2>1. CASE SessionRows = {}
    <3>1. \A r \in rows : r.seq[1] = 0
      BY <1>0, <2>1 DEF SessionRows
    <3> QED BY <1>0, <1>1, <3>1 DEF Later
  <2>2. CASE SessionRows # {}
    <3>1. rows # {}
      BY <2>2 DEF SessionRows
    <3> DEFINE n == Newest(rows)
    <3>2. n \in rows /\ IsNewest(n) /\ n.seq[1] > 0 /\ get = n.blob
      BY <1>0, <2>2, <3>1, NewestRow
    <3> HIDE DEF n
    <3>3. n.seq = session_seq(get)
      BY <1>0, <3>2 DEF Stored
    <3>4. Later(seq, n.seq)
      BY <2>2, <3>3 DEF seq
    <3> QED BY <1>0, <1>1, <3>2, <3>4 DEF IsNewest, Later
  <2> QED BY <2>1, <2>2
<1>5. \A r \in rows : r.seq # seq /\ ~Later(r.seq, seq)
  BY <1>0, <1>1, <1>4 DEF Later
<1>6. rows' = rows \cup {new}
  BY <1>3, <1>5
<1>7. new \in rows' /\ new.seq[1] > 0 /\ \A q \in rows' : ~Later(q.seq, new.seq)
  BY <1>1, <1>2, <1>5, <1>6 DEF Later
<1> QED BY <1>2, <1>7, TopIs

\* A session that is there already, and a checkpoint that is none, change nothing.
LEMMA PutSame ==
    ASSUME Typed, Stored, rows' \in SUBSET Row, Stored', NEW seq, NEW b, rows' = put_checkpoint(seq, b),
           seq[1] = 0 \/ (SessionRows # {} /\ seq = session_seq(get))
    PROVE  SameSession
<1> DEFINE n == Newest(rows)
<1>0. rows \in SUBSET Row /\ \A r \in rows : r \in Row /\ [r EXCEPT !.blobThere = TRUE].seq = r.seq
                                             /\ [r EXCEPT !.blobThere = TRUE].blob = r.blob
  BY DEF Typed, Row
<1>1. rows # {} => n \in rows /\ (SessionRows # {} => n.seq[1] > 0 /\ get = n.blob)
  BY <1>0, NewestRow
<1> HIDE DEF n
<1>2. SessionRows # {} => rows # {} /\ n.seq = session_seq(get)
  <2>1. SessionRows # {} => rows # {}
    BY DEF SessionRows
  <2>2. \A r \in rows : r.seq[1] > 0 => r.seq = session_seq(r.blob)
    BY DEF Stored
  <2> QED BY <1>1, <2>1, <2>2
<1>3. \A q \in rows' : q.seq[1] = 0 \/ \E r \in rows : q.seq = r.seq
  <2>1. CASE \E r \in rows : r.seq = seq
    BY <1>0, <2>1 DEF put_checkpoint
  <2>2. CASE ~\E r \in rows : r.seq = seq
    <3>1. seq[1] = 0
      BY <1>1, <1>2, <2>2
    <3> QED BY <2>2, <3>1 DEF put_checkpoint
  <2> QED BY <2>1, <2>2
<1>4. ASSUME rows # {}  PROVE \E q \in rows' : q.seq = n.seq /\ q.blob = n.blob
  <2>1. CASE \E r \in rows : r.seq = seq
    BY <1>0, <1>1, <1>4, <2>1 DEF put_checkpoint
  <2>2. CASE ~\E r \in rows : r.seq = seq
    BY <1>1, <1>4, <2>2 DEF put_checkpoint
  <2> QED BY <2>1, <2>2
<1> QED BY <1>3, <1>4, TopKept DEF n

\* Rows that are not written.
LEMMA SameRows == ASSUME UNCHANGED rows  PROVE SameSession
BY DEF SameSession, SessionRows, get

\* commit_checkpoints and maintenance change marks of rows, or take rows that are not the newest.
LEMMA MarksSame ==
    ASSUME Sound, Sound', (Age \/ gc_checkpoints \/ GcCrashes) \/ Commits
    PROVE  SameSession
<1> DEFINE n == Newest(rows)
<1>0. Typed /\ Stored /\ rows \in SUBSET Row /\ rows' \in SUBSET Row /\ Stored'
  BY DEF Sound, Typed
<1>1. rows # {} => n \in rows
  BY <1>0, NewestRow
<1>2. ASSUME \A q \in rows' : \E r \in rows : q.seq = r.seq, 
             rows # {} => \E q \in rows' : q.seq = n.seq /\ q.blob = n.blob
      PROVE  SameSession
  BY <1>0, <1>2, TopKept
<1>3. CASE Age
  <2>1. rows' = {[r EXCEPT !.old = TRUE] : r \in rows}
    BY <1>3 DEF Age
  <2>2. \A r \in rows : [r EXCEPT !.old = TRUE].seq = r.seq /\ [r EXCEPT !.old = TRUE].blob = r.blob
    BY <1>0, ZenonT(60) DEF Row
  <2> HIDE DEF n
  <2> QED BY <1>1, <1>2, <2>1, <2>2
<1>4. CASE gc_checkpoints
  <2>1. rows' = {r \in rows : ~(r.old /\ ~r.committed /\ r # n)}
    BY <1>4 DEF gc_checkpoints, Garbage
  <2> HIDE DEF n
  <2> QED BY <1>1, <1>2, <2>1
<1>5. CASE GcCrashes
  <2> DEFINE f(r) == IF r \in Garbage THEN [r EXCEPT !.blobThere = FALSE] ELSE r
  <2>1. rows' = {f(r) : r \in rows}
    BY <1>5 DEF GcCrashes
  <2>2. \A r \in rows : f(r).seq = r.seq /\ f(r).blob = r.blob
    BY <1>0, ZenonT(60) DEF Row
  <2> HIDE DEF f, n
  <2> QED BY <1>1, <1>2, <2>1, <2>2
<1>6. CASE Commits
  <2> DEFINE m == [n EXCEPT !.committed = TRUE]
  <2>1. CASE UNCHANGED rows
    BY <2>1, SameRows
  <2>2. CASE ~UNCHANGED rows
    <3>1. SessionRows # {} /\ rows' = (rows \ {n}) \cup {m}
      BY <1>6, <2>2 DEF Commits, commit_checkpoints
    <3>2. n \in rows
      BY <1>1, <3>1 DEF SessionRows
    <3> HIDE DEF n
    <3>3. m.seq = n.seq /\ m.blob = n.blob
      BY <1>0, <3>2, ZenonT(60) DEF Row
    <3> HIDE DEF m
    <3> QED BY <1>2, <3>1, <3>2, <3>3
  <2> QED BY <2>1, <2>2
<1> QED BY <1>3, <1>4, <1>5, <1>6

\* So does the checkpoint of a batch.
LEMMA CallSame ==
    ASSUME Sound, Sound', CallStep
    PROVE  SameSession /\ UNCHANGED wf /\ act.pc = "drive" /\ act'.pc = "drive" /\ act'.blob = act.blob /\ act'.version = act.version
<1>0. PICK c \in DOMAIN act.calls : Check(c) \/ Claim(c) \/ Execute(c) \/ Finished(c) \/ FinishLedger(c)
  BY DEF CallStep
<1>1. act \in Activity /\ act.blob \in Session /\ rows' \in SUBSET Row /\ Typed /\ Stored /\ Stored'
  BY ActFields DEF Sound, Typed
<1>2. UNCHANGED wf /\ act.pc = "drive" /\ act'.pc = "drive"
  BY <1>0, <1>1, CallTyped
<1>3. act'.blob = act.blob /\ act'.version = act.version
  <2>1. CASE Check(c) \/ Execute(c) \/ Finished(c) \/ FinishLedger(c)
    BY <1>1, <2>1, ZenonT(60) DEF Check, Execute, Finished, FinishLedger, Activity
  <2>2. CASE Claim(c)
    BY <1>1, <2>2, ZenonT(60) DEF Claim, Activity
  <2> QED BY <1>0, <2>1, <2>2
<1>4. UNCHANGED rows \/ rows' = put_checkpoint(batch_seq(act.blob), NewSession)
  BY <1>0 DEF Check, Claim, Execute, Finished, FinishLedger, policy_on_acting
<1>5. batch_seq(act.blob)[1] = 0
  BY <1>1, BatchSeqType
<1>6. SameSession
  BY <1>1, <1>4, <1>5, SameRows, PutSame
<1> QED BY <1>2, <1>3, <1>6

-----------------------------------------------------------------------------
(* Parked attempts: ResumeFindsIt. *)

\* A result that does not end the attempt.
Parked(result) == result.status \notin {"failed", "completed"}

\* It names a session: its version, with the calls it waits for.
Fits(result, blob) == result.version = blob.version /\ result.waits \subseteq blob.pending

\* An attempt that has a session has it stored, and one that has none is at no version.
Opened == (wf.session \/ wf.version = 0) /\ (wf.session => SessionRows # {})

\* A remembered park names a version later than its turn's, and not later than the session; the park of the very turn that the
\* attempt asks for names the session as it is.
Recalls ==
    SessionRows # {} => \A u \in get.turns : Parked(u.result) =>
        /\ u.result.retry = {} /\ u.key[2] < u.result.version /\ u.result.version <= get.version
        /\ wf.session /\ u.key[2] >= wf.version => Fits(u.result, get)

\* What the attempt is parked on is what is stored.
Awaits ==
    wf.pc \in {"approval", "input"} /\ wf.retry = {} =>
        wf.session /\ SessionRows # {} /\ get.version = wf.version /\ wf.waits \subseteq get.pending

\* A decision is for the version it was asked for: it is resolved there, or was (in a turn whose run died), or nothing waits.
Decides ==
    Kind = "approval" =>
        wf.session /\ (get.version = wf.version \/ get.pending = {} \/ \E u \in get.turns : u.key = <<"approval", wf.version>>)

\* A turn works on what is stored, for the version it was given.
OnTop == TurnKey[2] = get.version /\ (wf.session => get.version = wf.version)

\* The activity: the session it found, what it drives, what it is to remember and what it reports.
Works ==
    /\ act.pc = "dispatch" => SessionRows # {} /\ act.version = IF wf.session THEN wf.version ELSE get.version
    /\ act.pc = "drive" => OnTop /\ act.blob.version = get.version /\ act.blob.turns = get.turns
    /\ act.pc = "put" =>
          \/ act.blob = get /\ act.result.status = "failed"
          \/ /\ OnTop /\ act.blob.version = get.version + 1 /\ act.blob.turns = get.turns
             /\ Parked(act.result) => act.result.retry = {} /\ Fits(act.result, act.blob)
    /\ act.pc = "report" /\ Parked(act.result) =>
          IF act.result.retry = {} THEN SessionRows # {} /\ Fits(act.result, get) ELSE act.result.version = wf.version

Resumes == wf.pc # "done" => Opened /\ Recalls /\ Awaits /\ Decides /\ Works

\* A step that keeps what would be read back, and what the attempt holds of it, keeps all but the activity's part.
LEMMA ResumesKept ==
    ASSUME Resumes, SameSession, wf.pc # "done", wf'.session = wf.session, wf'.version = wf.version, wf'.retry = wf.retry,
           wf'.external = wf.external, wf'.decision = wf.decision,
           wf'.pc \in {"approval", "input"} => wf'.pc = wf.pc /\ wf'.waits = wf.waits
    PROVE  Opened' /\ Recalls' /\ Awaits' /\ Decides'
<1>1. Opened /\ Recalls /\ Awaits /\ Decides
  BY DEF Resumes
<1>2. (SessionRows' # {}) = (SessionRows # {}) /\ (SessionRows # {} => get' = get)
  BY DEF SameSession
<1>3. Opened'
  BY <1>1, <1>2 DEF Opened
<1>4. Recalls'
  BY <1>1, <1>2 DEF Recalls
<1>5. Awaits'
  BY <1>1, <1>2 DEF Awaits
<1>6. Kind' = Kind
  BY DEF Kind
<1>7. Decides'
  BY <1>1, <1>2, <1>6 DEF Decides, Opened
<1> QED BY <1>3, <1>4, <1>5, <1>7

\* So does an activity that works on.
LEMMA WorksKept ==
    ASSUME Sound, Resumes, SameSession, UNCHANGED wf, wf.pc # "done", act'.pc = act.pc, act'.version = act.version,
           act'.blob.version = act.blob.version, act'.blob.turns = act.blob.turns, act.pc \in {"idle", "drive"}
    PROVE  Resumes'
<1>1. Opened' /\ Recalls' /\ Awaits' /\ Decides'
  BY ResumesKept
<1>2. TurnKey' = TurnKey
  BY DEF TurnKey, Kind
<1>3. Works /\ Opened /\ (SessionRows # {} => get' = get)
  BY DEF Resumes, SameSession
<1>4. act.pc = "drive" => SessionRows # {}
  BY DEF Sound, Stored
<1>5. Works'
  BY <1>2, <1>3, <1>4 DEF Works, OnTop
<1> QED BY <1>1, <1>5 DEF Resumes

\* The way in.
LEMMA EntryResumes ==
    ASSUME Sound, Sound', Resumes, Enter \/ Open \/ Dispatch \/ Unreadable
    PROVE  Resumes'
<1>0. /\ act \in Activity /\ wf \in Workflow /\ UNCHANGED wf /\ wf.pc = "running" /\ wf.version \in Nat
      /\ Typed /\ Stored /\ rows' \in SUBSET Row /\ Stored'
  <2>1. Within
    BY DEF Within
  <2> QED BY <2>1, WithinSound, WfFields DEF Sound, Typed, Tidy
<1>a. Opened /\ Recalls /\ Decides /\ Works
  BY <1>0 DEF Resumes
<1>b. ASSUME SameSession  PROVE Opened' /\ Recalls' /\ Awaits' /\ Decides'
  BY <1>0, <1>b, ResumesKept
<1>1. CASE Enter
  <2>1. SameSession
    BY <1>1, SameRows DEF Enter
  <2>2. Works'
    <3>1. \/ act'.pc = "report" /\ act'.result = Failed
          \/ act'.pc = "open"
          \/ act'.pc = "report" /\ act'.result = park_for_retry(unknown_side_effects) /\ unknown_side_effects # {}
      BY <1>0, <1>1, ZenonT(60) DEF Enter, Activity
    <3>2. /\ Failed.status = "failed" /\ park_for_retry(unknown_side_effects).retry = unknown_side_effects
          /\ park_for_retry(unknown_side_effects).version = wf.version
      BY DEF Failed, NoResult, park_for_retry, ParkedApproval
    <3> QED BY <1>0, <3>1, <3>2 DEF Works, Parked
  <2> QED BY <1>b, <2>1, <2>2 DEF Resumes
<1>2. CASE Unreadable
  <2>1. SameSession
    BY <1>2, SameRows DEF Unreadable
  <2>2. act'.pc = "report" /\ act'.result = Failed
    BY <1>0, <1>2, ZenonT(60) DEF Unreadable, Activity
  <2>3. Failed.status = "failed"
    BY DEF Failed, NoResult
  <2> QED BY <1>b, <2>1, <2>2, <2>3 DEF Works, Parked, Resumes
<1>3. CASE Open
  <2>0. act'.pc = "dispatch"
        /\ act'.version = IF wf.session THEN wf.version ELSE IF SessionRows # {} THEN get.version ELSE 1
    BY <1>0, <1>3 DEF Open, Activity
  <2>1. CASE SessionRows # {}
    <3>1. UNCHANGED rows
      BY <1>3, <2>1 DEF Open
    <3>2. SameSession
      BY <3>1, SameRows
    <3> QED BY <1>0, <1>b, <2>0, <2>1, <3>2 DEF Works, Resumes, SameSession
  <2>2. CASE SessionRows = {}
    <3>1. ~wf.session /\ rows' = put(NewSession) /\ wf.version = 0
      BY <1>3, <1>a, <2>2 DEF Open, Opened
    <3>2. NewSession \in Session /\ NewSession.version = 1 /\ NewSession.turns = {}
      BY SmallTypes DEF NewSession
    <3>3. SessionRows' # {} /\ get' = NewSession
      BY <1>0, <2>2, <3>1, <3>2, PutTop
    <3>4. Opened' /\ Recalls' /\ Awaits'
      BY <1>0, <3>1, <3>2, <3>3 DEF Opened, Recalls, Awaits
    <3>5. Kind' = Kind /\ Kind # "approval"
      BY <1>0, <1>a, <3>1 DEF Kind, Decides
    <3>6. Works'
      BY <1>0, <2>0, <2>2, <3>1, <3>2, <3>3 DEF Works
    <3> QED BY <3>4, <3>5, <3>6 DEF Decides, Resumes
  <2> QED BY <2>1, <2>2
<1>4. CASE Dispatch
  <2>0. SessionRows # {} /\ act.pc = "dispatch" /\ UNCHANGED rows
    BY <1>4, ZenonT(60) DEF Dispatch
  <2>1. SameSession /\ get' = get
    BY <2>0, SameRows DEF SameSession
  <2>2. get \in Session /\ get.version \in Nat /\ get.turns \in SUBSET Remembers
    <3>1. get \in Session
      BY <1>0, <2>0, NewestRow DEF Typed, SessionRows
    <3> QED BY <3>1 DEF Session
  <2>3. act.version = IF wf.session THEN wf.version ELSE get.version
    BY <1>a, <2>0 DEF Works
  <2>4. TurnKey[2] = (IF Kind = "approval" THEN wf.version ELSE act.version) /\ (Kind = "approval" => TurnKey = <<"approval", wf.version>>)
    BY DEF TurnKey
  <2>5. \/ \E result \in Remembered(get, TurnKey) : act' = [act EXCEPT !.pc = "report", !.result = result]
        \/ act' = [act EXCEPT !.pc = "raised"]
        \/ /\ Remembered(get, TurnKey) = {} /\ ~Driven(get).refuses
           /\ act' = [act EXCEPT !.pc = "drive", !.blob = Driven(get).session,
                                 !.calls = IF Kind = "approval" THEN Confirm(get) ELSE <<>>]
    BY <1>4, ZenonT(60) DEF Dispatch
  <2>6. CASE act' = [act EXCEPT !.pc = "raised"]
    <3>1. act'.pc = "raised"
      BY <1>0, <2>6 DEF Activity
    <3> QED BY <1>b, <2>1, <3>1 DEF Works, Resumes
  <2>7. ASSUME NEW result \in Remembered(get, TurnKey), act' = [act EXCEPT !.pc = "report", !.result = result]
        PROVE  Resumes'
    <3>1. act'.pc = "report" /\ act'.result = result
      BY <1>0, <2>7 DEF Activity
    <3>2. PICK u \in get.turns : u.key = TurnKey /\ u.result = result
      BY <2>7 DEF Remembered
    <3>3. u.result.version \in Nat /\ u.key[2] \in Nat
      BY <2>2, <3>2 DEF Remembers, Result
    <3>4. ASSUME Parked(result)  PROVE result.retry = {} /\ Fits(result, get)
      <4>1. /\ u.result.retry = {} /\ u.key[2] < u.result.version /\ u.result.version <= get.version
            /\ wf.session /\ u.key[2] >= wf.version => Fits(u.result, get)
        BY <1>a, <2>0, <3>2, <3>4 DEF Recalls
      <4>2. CASE wf.session
        <5>1. u.key[2] = wf.version
          BY <2>3, <2>4, <3>2, <4>2
        <5> QED BY <1>0, <3>2, <4>1, <4>2, <5>1
      <4>3. CASE ~wf.session
        <5>1. u.key[2] = get.version
          BY <1>a, <2>3, <2>4, <3>2, <4>3 DEF Decides
        <5> QED BY <2>2, <3>3, <4>1, <5>1
      <4> QED BY <4>2, <4>3
    <3>5. Works'
      BY <2>0, <2>1, <3>1, <3>4 DEF Works, SameSession, Fits, Parked
    <3> QED BY <1>b, <2>1, <3>5 DEF Resumes
  <2>8. CASE /\ Remembered(get, TurnKey) = {} /\ ~Driven(get).refuses
             /\ act' = [act EXCEPT !.pc = "drive", !.blob = Driven(get).session,
                                   !.calls = IF Kind = "approval" THEN Confirm(get) ELSE <<>>]
    <3>1. act'.pc = "drive" /\ act'.version = act.version /\ act'.blob = Driven(get).session
      BY <1>0, <2>8 DEF Activity
    <3>2. Driven(get).session.version = get.version /\ Driven(get).session.turns = get.turns
      BY <2>2, ZenonT(60) DEF Driven, run_turn, deliver_tool_result, resolve_approval, Session
    <3>3. get.version = IF Kind = "approval" THEN wf.version ELSE act.version
      <4>1. CASE Kind = "approval"
        <5>1. get.pending # {}
          BY <2>8, <4>1 DEF Driven, resolve_approval
        <5>2. ~\E u \in get.turns : u.key = <<"approval", wf.version>>
          BY <2>4, <2>8, <4>1 DEF Remembered
        <5> QED BY <1>a, <4>1, <5>1, <5>2 DEF Decides
      <4>2. CASE Kind # "approval"
        BY <2>8, <4>2 DEF Driven, run_turn, deliver_tool_result
      <4> QED BY <4>1, <4>2
    <3>4. Kind' = Kind /\ TurnKey' = TurnKey
      BY <1>0, <3>1 DEF TurnKey, Kind
    <3>5. OnTop'
      BY <1>0, <1>a, <2>1, <2>3, <2>4, <3>3, <3>4 DEF OnTop, Decides
    <3>6. Works'
      BY <2>1, <3>1, <3>2, <3>5 DEF Works
    <3> QED BY <1>b, <2>1, <3>6 DEF Resumes
  <2> QED BY <2>5, <2>6, <2>7, <2>8
<1> QED BY <1>1, <1>2, <1>3, <1>4

\* A turn that works on the newest session leaves what was remembered for earlier versions alone.
LEMMA RecallsLater ==
    ASSUME wf \in Workflow, UNCHANGED wf, Recalls, SessionRows # {}, get \in Session, wf.session => get.version = wf.version,
           SessionRows' # {}, get'.turns = get.turns, get'.version = get.version + 1
    PROVE  Recalls'
<1>1. get.version \in Nat /\ wf.version \in Nat /\ \A u \in get.turns : u.key[2] \in Nat /\ u.result.version \in Nat
  BY WfFields DEF Session, Remembers, Result
<1>2. ASSUME NEW u \in get.turns, Parked(u.result)
      PROVE  /\ u.result.retry = {} /\ u.key[2] < u.result.version /\ u.result.version <= get.version
  BY <1>2 DEF Recalls
<1>3. \A u \in get.turns : Parked(u.result) =>
         /\ u.result.retry = {} /\ u.key[2] < u.result.version /\ u.result.version <= get.version + 1
         /\ ~(wf.session /\ u.key[2] >= wf.version)
  BY <1>1, <1>2
<1> QED BY <1>3 DEF Recalls, Parked

\* The agent at work, up to the end of the turn.
LEMMA DriveResumes ==
    ASSUME Sound, Sound', Resumes, BudgetStop \/ Ask \/ Reply \/ ModelFails \/ Park \/ CallStep
    PROVE  Resumes'
<1>0. /\ act \in Activity /\ wf \in Workflow /\ UNCHANGED wf /\ wf.pc = "running" /\ act.pc = "drive"
      /\ Typed /\ Stored /\ rows' \in SUBSET Row /\ Stored' /\ act.blob \in Session /\ act.blob.version \in Nat
  <2>1. Within /\ act.pc = "drive"
    BY CallSame DEF Within, BudgetStop, Ask, Reply, ModelFails, Park
  <2> QED BY <2>1, WithinSound, ActFields DEF Sound, Typed, Tidy, Session
<1>1. SessionRows # {} /\ get \in Session
  BY <1>0, NewestRow DEF Stored, SessionRows, Typed
<1>a. Opened /\ Recalls /\ Decides /\ Works /\ OnTop /\ act.blob.version = get.version /\ act.blob.turns = get.turns
  BY <1>0 DEF Resumes, Works
<1>b. ASSUME SameSession, Works'  PROVE Resumes'
  BY <1>0, <1>b, ResumesKept DEF Resumes
<1>c. ASSUME act'.version = act.version  PROVE Kind' = Kind /\ TurnKey' = TurnKey
  BY <1>0, <1>c DEF TurnKey, Kind
<1>2. CASE CallStep
  BY <1>0, <1>2, CallSame, WorksKept
<1>3. CASE Ask
  <2>1. SameSession
    BY <1>3, SameRows DEF Ask
  <2>2. /\ act'.pc = act.pc /\ act'.version = act.version
        /\ act'.blob.version = act.blob.version /\ act'.blob.turns = act.blob.turns
    <3> DEFINE b == [act.blob EXCEPT !.round = act.blob.round + 1]
    <3>1. PICK batch \in Batches, n \in Ids :
            act' = [act EXCEPT !.blob.round = act.blob.round + 1, !.meter = add_model_call(@),
                               !.calls = [c \in Batch(batch, n) |-> "new"]]
      BY <1>3, ZenonT(60) DEF Ask, Batch
    <3>2. act' = [act EXCEPT !.blob = b, !.meter = add_model_call(act.meter), !.calls = [c \in Batch(batch, n) |-> "new"]]
      BY <3>1
    <3>3. b.version = act.blob.version /\ b.turns = act.blob.turns
      BY <1>0 DEF Session
    <3> HIDE DEF b
    <3> QED BY <1>0, <3>2, <3>3 DEF Activity
  <2> QED BY <1>0, <2>1, <2>2, WorksKept
<1>4. CASE Reply
  <2>1. SameSession /\ get' = get
    BY <1>1, <1>4, SameRows DEF Reply, SameSession
  <2>2. /\ act'.pc = "put" /\ act'.version = act.version /\ act'.result = Completed(act.blob.version + 1)
        /\ act'.blob.version = act.blob.version + 1 /\ act'.blob.turns = act.blob.turns
    BY <1>0, <1>4 DEF Reply, Activity, Session
  <2>3. Completed(act.blob.version + 1).status = "completed"
    BY DEF Completed, NoResult
  <2>4. Works'
    BY <1>0, <1>a, <1>c, <2>1, <2>2, <2>3 DEF Works, OnTop, Parked
  <2> QED BY <1>b, <2>1, <2>4
<1>5. CASE ModelFails
  <2>1. SameSession /\ get' = get
    BY <1>1, <1>5, SameRows DEF ModelFails, SameSession
  <2>2. act'.pc = "put" /\ act'.blob = get /\ act'.result = Failed
    BY <1>0, <1>5 DEF ModelFails, Activity
  <2>3. Failed.status = "failed"
    BY DEF Failed, NoResult
  <2>4. Works'
    BY <2>1, <2>2, <2>3 DEF Works
  <2> QED BY <1>b, <2>1, <2>4
<1>6. CASE Park
  <2> DEFINE waits == {c \in DOMAIN act.calls : act.calls[c] = "asking"}
             asks  == {c \in waits : Info[c.tool].name # "ask_user"}
             v     == act.blob.version + 1
             res   == IF asks # {} THEN ParkedApproval(v, asks) ELSE ParkedInput(v, waits)
  <2>1. SameSession /\ get' = get
    BY <1>1, <1>6, SameRows DEF Park, SameSession
  <2>2. act' = [act EXCEPT !.pc = "put", !.blob.version = @ + 1, !.blob.pending = waits, !.calls = <<>>, !.result = res]
    BY <1>6 DEF Park
  <2>3. asks \subseteq waits
    OBVIOUS
  <2> HIDE DEF waits, asks
  <2>4. res.version = v /\ res.waits \subseteq waits /\ res.retry = {}
    BY <2>3 DEF ParkedApproval, ParkedInput, NoResult
  <2> HIDE DEF res
  <2>5. /\ act'.pc = "put" /\ act'.version = act.version /\ act'.result = res
        /\ act'.blob.version = act.blob.version + 1 /\ act'.blob.turns = act.blob.turns /\ act'.blob.pending = waits
    BY <1>0, <2>2 DEF Activity, Session
  <2>6. Works'
    BY <1>0, <1>a, <1>c, <2>1, <2>4, <2>5 DEF Works, OnTop, Fits
  <2> QED BY <1>b, <2>1, <2>6
<1>7. CASE BudgetStop
  <2> DEFINE b == keep_interrupted(act.blob)
  <2>1. rows' = put(b) /\ act'.pc = "put" /\ act'.blob = b /\ act'.result = Failed
    BY <1>0, <1>7 DEF BudgetStop, Activity
  <2>2. b \in Session /\ b.version = act.blob.version + 1
    BY <1>0, KeepType
  <2>3. b.turns = act.blob.turns /\ b.pending = {}
    BY <1>0, ZenonT(60) DEF keep_interrupted, close_unfinished_tool_calls, Session
  <2> HIDE DEF b
  <2>4. Later(session_seq(b), session_seq(get))
    <3>1. session_seq(b)[1] = b.version /\ session_seq(get)[1] = get.version
      BY <1>1, <2>2, SeqType
    <3> QED BY <1>0, <1>a, <2>2, <3>1 DEF Later
  <2>5. SessionRows' # {} /\ get' = b
    BY <1>0, <2>1, <2>2, <2>4, PutTop
  <2>6. Recalls'
    BY <1>0, <1>1, <1>a, <2>2, <2>3, <2>5, RecallsLater DEF OnTop
  <2>7. Opened' /\ Awaits'
    BY <1>0, <1>a, <2>5 DEF Opened, Awaits
  <2>8. Kind' = Kind
    BY <1>0 DEF Kind
  <2>9. Decides'
    BY <1>0, <1>a, <2>3, <2>5, <2>8 DEF Decides
  <2>10. Failed.status = "failed"
    BY DEF Failed, NoResult
  <2>11. Works'
    BY <2>1, <2>5, <2>10 DEF Works
  <2> QED BY <2>6, <2>7, <2>9, <2>11 DEF Resumes
<1> QED BY <1>2, <1>3, <1>4, <1>5, <1>6, <1>7

\* The result is remembered: in the session as it is, or in the next version.
LEMMA PutResumes ==
    ASSUME Sound, Sound', Resumes, Put
    PROVE  Resumes'
<1> DEFINE u == [key |-> TurnKey, result |-> act.result]
           b == remember(act.blob, TurnKey, act.result)
<1>0. /\ act \in Activity /\ wf \in Workflow /\ UNCHANGED wf /\ wf.pc = "running" /\ act.pc = "put"
      /\ Typed /\ Stored /\ rows' \in SUBSET Row /\ Stored' /\ act.blob \in Session /\ act.result \in Result
  <2>1. Within /\ act.pc = "put"
    BY DEF Within, Put
  <2> QED BY <2>1, WithinSound, ActFields DEF Sound, Typed, Tidy
<1>1. SessionRows # {} /\ get \in Session
  BY <1>0, NewestRow DEF Stored, SessionRows, Typed
<1>a. Opened /\ Recalls /\ Decides /\ Works
  BY <1>0 DEF Resumes
<1>2. rows' = put(b) /\ act'.pc = "report" /\ act'.result = act.result /\ act'.version = act.version
  BY <1>0 DEF Put, Activity
<1>3. b \in Session
  BY <1>0, KeyType, RememberType
<1>4. b.version = act.blob.version /\ b.pending = act.blob.pending /\ b.turns = act.blob.turns \cup {u}
      /\ b.round = act.blob.round /\ b.heard = act.blob.heard
  BY <1>0, ZenonT(60) DEF remember, Session
<1>5. u.key = TurnKey /\ u.result = act.result /\ (Kind = "approval" => TurnKey = <<"approval", wf.version>>)
  BY DEF TurnKey
<1>6. Kind' = Kind
  BY <1>0 DEF Kind
<1>7. /\ get.version \in Nat /\ wf.version \in Nat /\ IsFiniteSet(get.turns) /\ act.result.version \in Nat
      /\ \A t \in get.turns : t.key[2] \in Nat /\ t.result.version \in Nat
  BY <1>0, <1>1, WfFields DEF Session, Remembers, Result
<1> HIDE DEF u, b
<1>8. ASSUME SessionRows' # {}, get' = b, Recalls', Parked(act.result) => act.result.retry = {} /\ Fits(act.result, b)
      PROVE  Resumes'
  <2>1. u \in get'.turns
    BY <1>4, <1>8
  <2>2. Decides'
    BY <1>0, <1>5, <1>6, <1>a, <2>1 DEF Decides
  <2>3. Opened' /\ Awaits'
    BY <1>0, <1>8, <1>a DEF Opened, Awaits
  <2>4. Works'
    BY <1>2, <1>8 DEF Works, Fits, Parked
  <2> QED BY <1>8, <2>2, <2>3, <2>4 DEF Resumes
<1>9. CASE act.blob = get /\ act.result.status = "failed"
  <2>0. ~Parked(act.result)
    BY <1>9 DEF Parked
  <2>1. SessionRows' # {} /\ get' = b
    <3>1. CASE u \in get.turns
      <4>1. b.turns = get.turns
        BY <1>4, <1>9, <3>1
      <4>2. b = get
        BY <1>1, <1>3, <1>4, <1>9, <4>1 DEF Session
      <4>3. SameSession
        BY <1>0, <1>1, <1>2, <4>2, PutSame DEF put
      <4> QED BY <1>1, <4>2, <4>3 DEF SameSession
    <3>2. CASE u \notin get.turns
      <4>1. Cardinality(b.turns) = Cardinality(get.turns) + 1 /\ Cardinality(get.turns) \in Nat
        BY <1>4, <1>7, <1>9, <3>2, FS_AddElement, FS_CardinalityType
      <4>2. Later(session_seq(b), session_seq(get))
        BY <1>4, <1>7, <1>9, <4>1 DEF session_seq, Later
      <4> QED BY <1>0, <1>2, <1>3, <4>2, PutTop
    <3> QED BY <3>1, <3>2
  <2>2. Recalls'
    <3>1. \A t \in get'.turns : t \in get.turns \/ ~Parked(t.result)
      BY <1>4, <1>5, <1>9, <2>0, <2>1
    <3>2. get'.version = get.version /\ get'.pending = get.pending
      BY <1>4, <1>9, <2>1
    <3>3. \A t \in get'.turns : Parked(t.result) =>
             /\ t.result.retry = {} /\ t.key[2] < t.result.version /\ t.result.version <= get.version
             /\ wf.session /\ t.key[2] >= wf.version => Fits(t.result, get)
      BY <1>1, <1>a, <3>1 DEF Recalls
    <3> QED BY <1>0, <3>2, <3>3 DEF Recalls, Fits, Parked
  <2> QED BY <1>8, <2>0, <2>1, <2>2
<1>10. CASE /\ OnTop /\ act.blob.version = get.version + 1 /\ act.blob.turns = get.turns
            /\ Parked(act.result) => act.result.retry = {} /\ Fits(act.result, act.blob)
  <2>1. Later(session_seq(b), session_seq(get))
    BY <1>4, <1>7, <1>10 DEF session_seq, Later
  <2>2. SessionRows' # {} /\ get' = b
    BY <1>0, <1>2, <1>3, <2>1, PutTop
  <2>3. Parked(act.result) => act.result.retry = {} /\ Fits(act.result, b)
    BY <1>4, <1>10 DEF Fits
  <2>4. get'.version = get.version + 1 /\ TurnKey[2] = get.version /\ (wf.session => get.version = wf.version)
    BY <1>4, <1>10, <2>2 DEF OnTop
  <2>5. ASSUME NEW t \in get'.turns, Parked(t.result)
        PROVE  /\ t.result.retry = {} /\ t.key[2] < t.result.version /\ t.result.version <= get'.version
               /\ wf.session /\ t.key[2] >= wf.version => Fits(t.result, b)
    <3>1. CASE t = u
      BY <1>4, <1>5, <1>7, <1>10, <2>3, <2>4, <2>5, <3>1 DEF Fits
    <3>2. CASE t \in get.turns
      <4>1. t.result.retry = {} /\ t.key[2] < t.result.version /\ t.result.version <= get.version
        BY <1>1, <1>a, <2>5, <3>2 DEF Recalls
      <4> QED BY <1>7, <2>4, <3>2, <4>1
    <3> QED BY <1>4, <1>10, <2>2, <3>1, <3>2
  <2>6. Recalls'
    BY <1>0, <2>2, <2>5 DEF Recalls, Parked, Fits
  <2> QED BY <1>8, <2>2, <2>3, <2>6
<1> QED BY <1>0, <1>9, <1>10, <1>a DEF Works

\* An activity that is not at work asks nothing of the session.
LEMMA WorksAt == ASSUME act'.pc \in {"idle", "enter"}  PROVE Works'
BY DEF Works

\* The attempt parks on the result, is decided, and goes on; whatever runs died.
LEMMA AroundResumes ==
    ASSUME Sound, Sound', Resumes, Around
    PROVE  Resumes'
<1>0. /\ act \in Activity /\ wf \in Workflow /\ wf.version \in Nat /\ (act.pc = "idle") = (wf.pc # "running")
      /\ Typed /\ Stored /\ Tidy
      /\ SessionRows # {} => get \in Session
  <2>1. SessionRows # {} => get \in Session
    BY NewestRow DEF Sound, Typed, SessionRows
  <2> QED BY <2>1, WfFields DEF Sound, Typed, Tidy
<1>a. wf.pc # "done" => Opened /\ Recalls /\ Awaits /\ Decides /\ Works
  BY DEF Resumes
<1>b. Idle.pc = "idle"
  BY DEF Idle
<1>1. CASE Schedule
  <2>1. /\ act'.pc = "enter" /\ wf.pc = "ready" /\ wf'.pc = "running" /\ wf'.retry = wf.retry /\ wf'.version = wf.version
        /\ wf'.session = wf.session /\ wf'.decision = wf.decision /\ wf'.external = wf.external
    BY <1>0, <1>1, ScheduleEffect
  <2>2. SameSession
    BY <1>1, SameRows DEF Schedule
  <2> QED BY <2>1, <2>2, ResumesKept, WorksAt DEF Resumes
<1>2. CASE Answered \/ \E m \in Messages : deliver_messages(m)
  <2>1. /\ wf.pc # "done" /\ wf'.session = wf.session /\ wf'.version = wf.version /\ wf'.retry = wf.retry
        /\ wf'.external = wf.external /\ wf'.decision = wf.decision
        /\ wf'.pc \in {"approval", "input"} => wf'.pc = wf.pc /\ wf'.waits = wf.waits
    BY <1>0, <1>2, ZenonT(60) DEF Answered, deliver_messages, Workflow
  <2>2. UNCHANGED <<act, rows>>
    BY <1>2, ZenonT(60) DEF Answered, deliver_messages
  <2>3. SameSession
    BY <2>2, SameRows
  <2>4. Opened' /\ Recalls' /\ Awaits' /\ Decides'
    BY <2>1, <2>3, ResumesKept
  <2>5. TurnKey' = TurnKey /\ get' = get /\ (SessionRows' # {}) = (SessionRows # {})
    BY <2>1, <2>2 DEF TurnKey, Kind, get, SessionRows
  <2>6. Works'
    BY <1>a, <2>1, <2>2, <2>5 DEF Works, OnTop
  <2> QED BY <2>4, <2>6 DEF Resumes
<1>3. CASE approval_decided
  <2>1. wf.pc = "approval" /\ UNCHANGED <<act, rows>> /\ \E yes \in SUBSET wf.waits :
           wf' = [wf EXCEPT !.pc = "ready", !.approved = yes, !.waits = {}, !.decision = approval_payload(yes)]
    BY <1>3, ZenonT(60) DEF approval_decided
  <2>2. wf'.pc = "ready" /\ wf'.session = wf.session /\ wf'.version = wf.version /\ wf'.retry = wf.retry
    BY <1>0, <2>1 DEF Workflow
  <2>3. get' = get /\ (SessionRows' # {}) = (SessionRows # {})
    BY <2>1 DEF get, SessionRows
  <2>4. Opened' /\ Recalls' /\ Awaits'
    BY <1>a, <2>1, <2>2, <2>3 DEF Opened, Recalls, Awaits
  <2>5. Kind' = "approval" => wf.retry = {}
    BY <2>2 DEF Kind
  <2>6. Decides'
    BY <1>a, <2>1, <2>2, <2>3, <2>5 DEF Decides, Awaits
  <2>7. Works'
    BY <1>0, <2>1, WorksAt
  <2> QED BY <2>4, <2>6, <2>7 DEF Resumes
<1>4. CASE Cancel
  <2>1. wf' = Over("cancelled", wf.messages \ wf.delivered)
    BY <1>4 DEF Cancel
  <2>2. wf'.pc = "done"
    BY <1>0, <2>1, WfFields, OverType
  <2> QED BY <2>2 DEF Resumes
<1>5. CASE Raise \/ Crash
  <2>1. Retried /\ act.pc # "idle" /\ UNCHANGED rows
    BY <1>5, ZenonT(60) DEF Raise, Crash, kept_if_cancelled
  <2>2. \/ act'.pc = "enter" /\ UNCHANGED wf
        \/ wf'.pc = "done"
    BY <1>0, <2>1, RetriedEffect, WfFields, OverType
  <2>3. CASE wf'.pc = "done"
    BY <2>3 DEF Resumes
  <2>4. CASE act'.pc = "enter" /\ UNCHANGED wf
    BY <1>0, <2>1, <2>4, SameRows, ResumesKept, WorksAt DEF Resumes
  <2> QED BY <2>2, <2>3, <2>4
<1>6. CASE Report
  <2> DEFINE result == act.result
  <2>1. act.pc = "report" /\ act' = Idle /\ Commits /\ wf.pc = "running"
    BY <1>0, <1>6 DEF Report
  <2>2. SameSession
    BY <2>1, MarksSame
  <2>3. CASE wf'.pc = "done"
    BY <2>3 DEF Resumes
  <2>4. CASE wf'.pc # "done"
    <3>1. /\ Parked(result) /\ wf'.session = (wf.session \/ result.version > 0) /\ wf'.version = result.version
          /\ wf'.decision = "none" /\ wf'.retry = result.retry /\ wf'.waits = result.waits
      BY <1>0, <1>6, <2>4, ReportEffect DEF Parked
    <3>2. result.version \in Nat
      BY <1>0, ActFields DEF Result
    <3>3. IF result.retry = {} THEN SessionRows # {} /\ Fits(result, get) ELSE result.version = wf.version
      BY <1>a, <2>1, <3>1 DEF Works
    <3>4. (SessionRows' # {}) = (SessionRows # {}) /\ (SessionRows # {} => get' = get)
      BY <2>2 DEF SameSession
    <3>5. Opened /\ Recalls
      BY <1>a, <2>1
    <3> HIDE DEF result
    <3>6. Works' /\ Decides'
      BY <1>b, <2>1, <3>1, WorksAt DEF Decides, Kind
    <3>7. CASE result.retry = {}
      <4>1. SessionRows # {} /\ get' = get /\ SessionRows' # {} /\ get.version = result.version /\ result.waits \subseteq get.pending
        BY <3>3, <3>4, <3>7 DEF Fits
      <4>2. get \in Session /\ get.version \in Nat \ {0} /\ \A u \in get.turns : u.key[2] \in Nat /\ u.result.version \in Nat
        BY <1>0, <4>1 DEF Session, Remembers, Result
      <4>3. Opened' /\ Awaits'
        <5>1. result.version > 0
          BY <4>1, <4>2
        <5>2. wf'.session
          BY <3>1, <5>1
        <5> QED BY <3>1, <4>1, <5>2 DEF Opened, Awaits
      <4>4. \A u \in get.turns : Parked(u.result) =>
                /\ u.result.retry = {} /\ u.key[2] < u.result.version /\ u.result.version <= get.version
        BY <3>5, <4>1 DEF Recalls
      <4>5. \A u \in get.turns : Parked(u.result) => ~(u.key[2] >= wf'.version)
        BY <3>1, <4>1, <4>2, <4>4
      <4>6. Recalls'
        BY <4>1, <4>4, <4>5 DEF Recalls, Parked
      <4> QED BY <3>6, <4>3, <4>6 DEF Resumes
    <3>8. CASE result.retry # {}
      <4>1. wf'.version = wf.version
        BY <3>1, <3>3, <3>8
      <4>2. result.version > 0 => wf.session
        BY <3>3, <3>5, <3>8 DEF Opened
      <4>3. wf'.session = wf.session
        BY <1>0, <3>1, <4>2, WfFields
      <4>4. Opened'
        BY <3>4, <3>5, <4>1, <4>3 DEF Opened
      <4>5. Recalls'
        BY <3>4, <3>5, <4>1, <4>3 DEF Recalls
      <4>6. Awaits'
        BY <3>1, <3>8 DEF Awaits
      <4> QED BY <3>6, <4>4, <4>5, <4>6 DEF Resumes
    <3> QED BY <3>7, <3>8
  <2> QED BY <2>3, <2>4
<1> QED BY <1>1, <1>2, <1>3, <1>4, <1>5, <1>6 DEF Around

\* Maintenance takes nothing that would be read back.
LEMMA CareResumes ==
    ASSUME Sound, Sound', Resumes, Age \/ gc_checkpoints \/ GcCrashes
    PROVE  Resumes'
<1>0. UNCHANGED <<wf, act>> /\ SameSession /\ Stored
  BY CareSound, MarksSame DEF Sound
<1>1. CASE wf.pc = "done"
  BY <1>0, <1>1 DEF Resumes
<1>2. CASE wf.pc # "done"
  <2>1. Opened' /\ Recalls' /\ Awaits' /\ Decides'
    BY <1>0, <1>2, ResumesKept
  <2>2. TurnKey' = TurnKey
    BY <1>0 DEF TurnKey, Kind
  <2>3. Works /\ (act.pc \in {"drive", "put"} => SessionRows # {})
        /\ (SessionRows' # {}) = (SessionRows # {}) /\ (SessionRows # {} => get' = get)
    BY <1>0, <1>2 DEF Resumes, SameSession, Stored
  <2>4. Works'
    BY <1>0, <2>2, <2>3 DEF Works, OnTop
  <2> QED BY <2>1, <2>4 DEF Resumes
<1> QED BY <1>1, <1>2

\* An attempt that is parked can be resumed, whatever runs of its activity died and whatever was collected: the newest stored
\* session is of the version its result named, the calls it waits for are open in it, and its blob is there (put, open_session,
\* park_for_retry, _gc_checkpoints).
THEOREM ParkedResumes == Spec => []ResumeFindsIt
<1>1. Init => Resumes
  <2> SUFFICES ASSUME Init PROVE Resumes
    OBVIOUS
  <2>1. act.pc = "idle" /\ wf.pc = "ready" /\ ~wf.session /\ wf.version = 0 /\ rows = {} /\ Kind = "turn"
    BY DEF Init, Idle, Fresh, Kind
  <2>2. SessionRows = {}
    BY <2>1 DEF SessionRows
  <2> QED BY <2>1, <2>2 DEF Resumes, Opened, Recalls, Awaits, Decides, Works
<1>2. Sound /\ Resumes /\ [Next]_vars => Resumes'
  <2> SUFFICES ASSUME Sound, Resumes, [Next]_vars PROVE Resumes'
    OBVIOUS
  <2>0. Sound'
    BY SoundNext
  <2>1. CASE Within
    BY <2>0, <2>1, EntryResumes, DriveResumes, PutResumes DEF Within
  <2>2. CASE Around
    BY <2>0, <2>2, AroundResumes
  <2>3. CASE Age \/ gc_checkpoints \/ GcCrashes
    BY <2>0, <2>3, CareResumes
  <2>4. CASE UNCHANGED vars
    <3>1. UNCHANGED <<wf, act, rows>>
      BY <2>4 DEF vars
    <3> QED BY <3>1 DEF Resumes, Opened, Recalls, Awaits, Decides, Works, OnTop, TurnKey, Kind, get, SessionRows
  <2> QED BY <2>1, <2>2, <2>3, <2>4, Steps
<1>3. Sound /\ Resumes => ResumeFindsIt
  <2> SUFFICES ASSUME Sound, Resumes, wf.pc \in {"approval", "input"}, wf.retry = {}
               PROVE  \E r \in SessionRows : /\ \A q \in SessionRows \ {r} : Later(r.seq, q.seq)
                                             /\ r.blob.version = wf.version /\ wf.waits \subseteq r.blob.pending /\ r.blobThere
    BY DEF ResumeFindsIt
  <2>1. SessionRows # {} /\ get.version = wf.version /\ wf.waits \subseteq get.pending
    BY DEF Resumes, Awaits
  <2> DEFINE n == Newest(rows)
  <2>2. n \in rows /\ IsNewest(n) /\ n.blobThere /\ n.seq[1] > 0 /\ get = n.blob
    BY <2>1, NewestRow DEF Sound, Typed, SessionRows
  <2> HIDE DEF n
  <2>3. n \in SessionRows /\ \A q \in SessionRows \ {n} : Later(n.seq, q.seq)
    BY <2>2 DEF SessionRows, IsNewest
  <2> QED BY <2>1, <2>2, <2>3
<1> QED BY <1>1, <1>2, <1>3, SoundInit, SoundNext, PTL DEF Spec
=============================================================================
