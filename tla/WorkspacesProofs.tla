-------------------------- MODULE WorkspacesProofs --------------------------
(***************************************************************************)
(* Proofs about Workspaces, for any attempts, files, sandboxes and bound   *)
(* on faults: a row that the reaper closed has no sandbox left, the        *)
(* workspaces implement TaskHead, and a turn reports success only after it *)
(* saved its work.  Inv is the inductive invariant; the steps are sorted   *)
(* into a few kinds (StepKinds), and each conjunct is shown kind by kind.  *)
(***************************************************************************)
EXTENDS Workspaces, TLAPS

\* The provers' time for a leaf, in seconds.
USE ZenonT(3), SMTT(30), ZenonT(60)

InTurn == {"open", "locking", "locked", "saved", "unlock"}

(* A session is between two runs exactly when it holds no sandbox, its     *)
(* version is one of its attempt, and no sandbox has two holders.          *)
Held ==
    \A a \in Attempts :
        /\ session[a].version \in 0..MaxParks[a]
        /\ session[a].ws = 0 <=> session[a].pc \in {"start", "done"}
        /\ \A b \in Attempts : session[a].ws = session[b].ws /\ session[a].ws # 0 => a = b

(* What the reaper killed is down, and stays down while it is on its list. *)
KilledDown == \A i \in reaper.killed : ~box[i].up

(* A task that has a head keeps one.                                       *)
BaseKnown == head = None => \A a \in Attempts : session[a].base = None

(* What is about to be recorded is a snapshot.                             *)
SavedRef == \A a \in Attempts : session[a].pc = "saved" => session[a].ref # None

HeadFiles == IF head = None THEN Empty ELSE head

(* Without damage, whoever is saving holds the only live row of the commit *)
(* lock, a session started from its base, and what is about to be recorded *)
(* is the head with the session's work put in.                             *)
Undamaged ==
    /\ lost = {}
    /\ \A a \in Attempts : InLock(a) => lock[a] = "live"
    /\ \A a, b \in Attempts : lock[a] = "live" /\ lock[b] = "live" => a = b
    /\ \A a \in Attempts : session[a].pc \in InTurn =>
          session[a].start = IF session[a].base = None THEN Empty ELSE session[a].base
    /\ \A a \in Attempts : session[a].pc = "saved" =>
          \A f \in Files : session[a].ref[f] = IF Work(a)[f] = Same THEN HeadFiles[f] ELSE Work(a)[f]

Inv ==
    /\ TypeOK /\ Held /\ BaseKnown
    /\ KilledDown /\ RowOutlivesSandbox
    /\ SavedRef
    /\ damaged \/ Undamaged

(* The steps of an attempt, without the grouping of the fair ones.         *)
LEMMA NextSplit ==
    ASSUME Next
    PROVE  \/ \E a \in Attempts :
               \/ Acquire(a) \/ Take(a) \/ TakeFails(a) \/ Replace(a) \/ ToolCall(a)
               \/ \E outcome \in {"completed", "parked", "raised"} : EndTurn(a, outcome)
               \/ TakeLock(a) \/ LockFails(a) \/ Save(a) \/ SaveFails(a) \/ Record(a) \/ RecordFails(a)
               \/ Unlock(a) \/ Release(a) \/ Crash(a) \/ ExpireLock(a) \/ RenewLock(a)
           \/ \E i \in Boxes : RenewFails(i) \/ RenewLate(i) \/ Expire(i) \/ ReapKill(i) \/ KillFails(i)
           \/ LoseSnapshot \/ ReapList \/ ReapMark \/ ReaperCrashes
<1>1. \A a \in Attempts : Outcomes[a] \subseteq {"completed", "parked", "raised"}
  BY WorkspaceBounds
<1> QED BY <1>1 DEF Next, Step

(* The values the steps assign have their types.                           *)
LEMMA Constants_ ==
    /\ Empty \in Content /\ NoBox \in Sandboxes /\ Leased \in Sandboxes
    /\ NoBox.up = FALSE /\ NoBox.row = "none" /\ NoBox.files = Empty
    /\ Leased.up = TRUE /\ Leased.row = "none"
BY ZenonT(60) DEF Empty, Content, NoBox, Leased, Sandboxes

(* The state versions of one attempt are among the versions of the task.   *)
LEMMA VersionType ==
    ASSUME NEW a \in Attempts, NEW v \in 0..MaxParks[a]
    PROVE  v \in Versions /\ 0 \in Versions
<1>1. 0 \in 0..MaxParks[a]
  BY WorkspaceBounds
<1> QED BY <1>1 DEF Versions

(* The session of a run that has not begun, as SandboxSession starts out.  *)
LEMMA NoSessionType ==
    ASSUME NEW a \in Attempts
    PROVE  NoSession \in Sessions
<1>1. 0 \in 0..MaxParks[a]
  BY WorkspaceBounds
<1> QED BY <1>1, VersionType, Constants_ DEF NoSession, Sessions

(* load_snapshot gives files, an empty workspace if the store has none.    *)
LEMMA LoadType ==
    ASSUME TypeOK, NEW ref \in Content \cup {None}
    PROVE  Load(ref) \in Content
BY Constants_ DEF Load

(* What _commit stores, merged or not, is the content of a workspace.      *)
LEMMA SnapshotType ==
    ASSUME TypeOK, BaseKnown, NEW a \in Attempts, session[a].ws \in Boxes
    PROVE  Snapshot(a) \in Content
<1>1. box[session[a].ws].files \in Content /\ session[a].base \in Content \cup {None}
  BY DEF TypeOK, Sessions, Sandboxes
<1>2. head # session[a].base => head \in Content
  BY <1>1 DEF TypeOK, BaseKnown
<1>3. Load(session[a].base) \in Content
  BY <1>1, LoadType
<1>4. ASSUME head \in Content
      PROVE  merge_archives(Load(session[a].base), box[session[a].ws].files, head) \in Content
  BY <1>1, <1>3, <1>4 DEF merge_archives, Content
<1> QED BY <1>1, <1>2, <1>4 DEF Snapshot, latest_workspace_snapshot

-----------------------------------------------------------------------------
(* Types.                                                                  *)

(* What a step that moves a session, or ends it, makes of it.              *)
LEMMA SessionSteps ==
    ASSUME TypeOK, Held, NEW a \in Attempts
    PROVE  /\ session[a] \in Sessions
           /\ [NoSession EXCEPT !.version = session[a].version] \in Sessions
           /\ \A o \in {None, "completed", "parked", "failed", "raised"} :
                [NoSession EXCEPT !.pc = "release", !.ws = session[a].ws, !.outcome = o,
                                  !.version = session[a].version] \in Sessions
<1>1. session[a] \in Sessions /\ NoSession \in Sessions
  BY NoSessionType DEF TypeOK
<1> QED BY <1>1, ZenonT(60) DEF Sessions

(* A session that moves on within close() keeps its type.                  *)
LEMMA GoesType ==
    ASSUME TypeOK, NEW a \in Attempts, NEW to \in {"locking", "locked", "saved", "unlock"},
           NEW outcome \in {None, "completed", "parked", "failed", "raised"}, Goes(a, to, outcome)
    PROVE  session' \in [Attempts -> Sessions]
<1>1. session[a] \in Sessions
  BY DEF TypeOK
<1>2. [[session[a] EXCEPT !.pc = to] EXCEPT !.outcome = outcome] \in Sessions
  BY <1>1, ZenonT(60) DEF Sessions
<1> QED BY <1>2 DEF Goes, TypeOK

(* So does one that is through with its workspace.                         *)
LEMMA LeaveType ==
    ASSUME TypeOK, Held, NEW a \in Attempts,
           NEW outcome \in {None, "completed", "parked", "failed", "raised"}, Leave(a, outcome)
    PROVE  session' \in [Attempts -> Sessions]
BY SessionSteps, ZenonT(60) DEF Leave, TypeOK

(* So does one whose activity returns, resumed or not.                     *)
LEMMA ReportType ==
    ASSUME TypeOK, Held, NEW a \in Attempts,
           NEW outcome \in {None, "completed", "parked", "failed", "raised"}, Report(a, outcome)
    PROVE  session' \in [Attempts -> Sessions] /\ kept' \in [Attempts -> {None, "completed", "parked"}]
<1> DEFINE v == session[a].version
           resumed == outcome = "parked" /\ v < MaxParks[a]
           to == IF resumed \/ outcome = "raised" THEN "start" ELSE "done"
           next == IF resumed THEN v + 1 ELSE v
<1>1. v \in 0..MaxParks[a] /\ MaxParks[a] \in Nat
  BY WorkspaceBounds DEF Held
<1>2. next \in 0..MaxParks[a]
  BY <1>1
<1>3. next \in Versions
  BY <1>2, VersionType
<1>4. [NoSession EXCEPT !.pc = to, !.version = next] \in Sessions
  BY <1>3, NoSessionType, ZenonT(60) DEF Sessions
<1>5. session' = [session EXCEPT ![a] = [NoSession EXCEPT !.pc = to, !.version = next]]
  BY DEF Report
<1>6. session' \in [Attempts -> Sessions]
  BY <1>4, <1>5 DEF TypeOK
<1>7. kept' \in [Attempts -> {None, "completed", "parked"}]
  BY DEF Report, TypeOK
<1> QED BY <1>6, <1>7

(* A fault stays within the bound.                                         *)
LEMMA FaultType ==
    ASSUME TypeOK, NEW who, Fault(who)
    PROVE  faults' \in 0..MaxFaults
BY WorkspaceBounds DEF TypeOK, Fault

(* Giving a sandbox back, also when docker rm fails, keeps the types.      *)
LEMMA GiveBackType ==
    ASSUME TypeOK, NEW i \in Boxes, GiveBack(i)
    PROVE  box' \in [Boxes -> Sandboxes] /\ faults' \in 0..MaxFaults
<1>1. box \in [Boxes -> Sandboxes] /\ box[i] \in Sandboxes /\ faults \in 0..MaxFaults
  BY DEF TypeOK
<1>2. CASE box' = [box EXCEPT ![i] = Released] /\ UNCHANGED faults
  BY <1>1, <1>2, Constants_ DEF Released
<1>3. CASE RemoveFails(i) /\ box' = [box EXCEPT ![i].row = "dropped", ![i].renewal = "off", ![i].files = Empty]
  <2>1. [[[box[i] EXCEPT !.row = "dropped"] EXCEPT !.renewal = "off"] EXCEPT !.files = Empty] \in Sandboxes
    BY <1>1, Constants_, ZenonT(60) DEF Sandboxes
  <2> QED BY <1>1, <1>3, <2>1, FaultType DEF RemoveFails
<1> QED BY <1>2, <1>3 DEF GiveBack

(* The steps of a run up to the end of its turn keep the types.            *)
LEMMA TurnTypes ==
    ASSUME TypeOK, Held, NEW a \in Attempts,
           \/ Acquire(a) \/ Take(a) \/ TakeFails(a) \/ Replace(a) \/ ToolCall(a)
           \/ \E outcome \in {"completed", "parked", "raised"} : EndTurn(a, outcome)
    PROVE  TypeOK'
<1>1. session[a] \in Sessions /\ session \in [Attempts -> Sessions] /\ box \in [Boxes -> Sandboxes]
  BY DEF TypeOK
<1>2. \A i \in Boxes : box[i] \in Sandboxes
  BY <1>1
<1>3. session[a].pc \notin {"start", "done"} => session[a].ws \in Boxes
  BY <1>1 DEF Held, Sessions
<1>4. head \in Content \cup {None} /\ Load(head) \in Content
  BY LoadType DEF TypeOK
<1>5. CASE Acquire(a)
  <2>1. PICK i \in Boxes : /\ box' = [box EXCEPT ![i] = Leased]
                           /\ session' = [session EXCEPT ![a].pc = "leased", ![a].ws = i]
    BY <1>5, ZenonT(60) DEF Acquire
  <2>2. [[session[a] EXCEPT !.pc = "leased"] EXCEPT !.ws = i] \in Sessions
    BY <1>1, ZenonT(60) DEF Sessions
  <2>3. session' \in [Attempts -> Sessions] /\ box' \in [Boxes -> Sandboxes]
    BY <1>1, <2>1, <2>2, Constants_
  <2> QED BY <1>5, <2>3, ZenonT(60) DEF Acquire, TypeOK
<1>6. CASE Take(a)
  <2> DEFINE b == [[[box[session[a].ws] EXCEPT !.row = "live"] EXCEPT !.files = Load(head)] EXCEPT !.renewal = "idle"]
             s == [[[session[a] EXCEPT !.pc = "open"] EXCEPT !.base = head] EXCEPT !.start = Load(head)]
  <2>1. session[a].ws \in Boxes
    BY <1>3, <1>6 DEF Take
  <2>2. b \in Sandboxes
    BY <1>2, <1>4, <2>1, ZenonT(60) DEF Sandboxes
  <2>3. s \in Sessions
    BY <1>1, <1>4, ZenonT(60) DEF Sessions
  <2>4. box' = [box EXCEPT ![session[a].ws] = b] /\ session' = [session EXCEPT ![a] = s]
    BY <1>1, <2>1, <1>6, ZenonT(60) DEF Take, WithRow, latest_workspace_snapshot
  <2>5. session' \in [Attempts -> Sessions] /\ box' \in [Boxes -> Sandboxes]
    BY <1>1, <2>2, <2>3, <2>4, ZenonT(60)
  <2> QED BY <1>6, <2>5 DEF Take, TypeOK
<1>7. CASE TakeFails(a)
  <2>1. session' \in [Attempts -> Sessions] /\ kept' \in [Attempts -> {None, "completed", "parked"}]
    BY <1>7, ReportType DEF TakeFails
  <2>2. box' \in [Boxes -> Sandboxes] /\ faults' \in 0..MaxFaults
    BY <1>1, <1>7, FaultType, Constants_, ZenonT(60) DEF TakeFails, Released
  <2> QED BY <1>7, <2>1, <2>2 DEF TakeFails, TypeOK
<1>8. CASE Replace(a)
  <2>1. box' \in [Boxes -> Sandboxes] /\ faults' \in 0..MaxFaults
    BY <1>3, <1>8, GiveBackType DEF Replace
  <2>2. session' \in [Attempts -> Sessions]
    BY <1>1, <1>8, SessionSteps, ZenonT(60) DEF Replace
  <2> QED BY <1>8, <2>1, <2>2 DEF Replace, TypeOK
<1>9. CASE ToolCall(a)
  <2>1. session[a].ws \in Boxes
    BY <1>3, <1>9 DEF ToolCall
  <2>2. PICK e \in Edits : e[1] = a /\ box' = [box EXCEPT ![session[a].ws].files[e[2]] = e[3]]
    BY <1>9, ZenonT(60) DEF ToolCall
  <2>3. [box[session[a].ws].files EXCEPT ![e[2]] = e[3]] \in Content
    BY <1>2, <2>1, <2>2, WorkspaceBounds DEF Sandboxes, Content
  <2>4. [box[session[a].ws] EXCEPT !.files = [box[session[a].ws].files EXCEPT ![e[2]] = e[3]]] \in Sandboxes
    BY <1>2, <2>1, <2>3 DEF Sandboxes
  <2>5. box' = [box EXCEPT ![session[a].ws] =
                  [box[session[a].ws] EXCEPT !.files = [box[session[a].ws].files EXCEPT ![e[2]] = e[3]]]]
    BY <2>2
  <2>6. box' \in [Boxes -> Sandboxes]
    BY <1>1, <2>4, <2>5, ZenonT(60)
  <2> QED BY <1>9, <2>6 DEF ToolCall, TypeOK
<1>10. ASSUME NEW outcome \in {"completed", "parked", "raised"}, EndTurn(a, outcome)
       PROVE  TypeOK'
  <2>1. faults' \in 0..MaxFaults
    BY <1>10, FaultType DEF EndTurn, TypeOK
  <2>2. CASE session[a].pc = "start"
    <3>1. session' \in [Attempts -> Sessions] /\ kept' \in [Attempts -> {None, "completed", "parked"}]
      BY <1>10, <2>2, ReportType DEF EndTurn
    <3> QED BY <1>10, <2>1, <2>2, <3>1 DEF EndTurn, TypeOK
  <2>3. CASE session[a].pc # "start"
    <3>1. session' \in [Attempts -> Sessions]
      BY <1>10, <2>3, GoesType DEF EndTurn
    <3>2. session[a].ws \in Boxes
      BY <1>3, <1>10, <2>3 DEF EndTurn
    <3>3. [box[session[a].ws] EXCEPT !.renewal = "off"] \in Sandboxes
      BY <1>2, <3>2 DEF Sandboxes
    <3>4. box' \in [Boxes -> Sandboxes]
      BY <1>1, <1>10, <2>3, <3>3 DEF EndTurn
    <3>5. kept' \in [Attempts -> {None, "completed", "parked"}]
      BY <1>10, <2>3 DEF EndTurn, TypeOK
    <3> QED BY <1>10, <2>1, <3>1, <3>4, <3>5 DEF EndTurn, TypeOK
  <2> QED BY <2>2, <2>3
<1> QED BY <1>5, <1>6, <1>7, <1>8, <1>9, <1>10

(* So do the steps of close() and of the commit lock.                      *)
LEMMA CloseTypes ==
    ASSUME TypeOK, Held, BaseKnown, NEW a \in Attempts,
           \/ TakeLock(a) \/ LockFails(a) \/ Save(a) \/ SaveFails(a) \/ Record(a) \/ RecordFails(a)
           \/ Unlock(a) \/ Release(a) \/ Crash(a) \/ ExpireLock(a) \/ RenewLock(a),
           \A b \in Attempts : session[b].pc = "saved" => session[b].ref # None
    PROVE  TypeOK'
<1>1. session[a] \in Sessions /\ session \in [Attempts -> Sessions] /\ box \in [Boxes -> Sandboxes]
  BY DEF TypeOK
<1>2. \A i \in Boxes : box[i] \in Sandboxes
  BY <1>1
<1>3. session[a].pc \notin {"start", "done"} => session[a].ws \in Boxes
  BY <1>1 DEF Held, Sessions
<1>4. session[a].outcome \in {None, "completed", "parked", "failed", "raised"}
  BY <1>1 DEF Sessions
<1>5. CASE TakeLock(a)
  <2>1. [session[a] EXCEPT !.pc = "locked"] \in Sessions
    BY <1>1 DEF Sessions
  <2>2. session' \in [Attempts -> Sessions] /\ lock' \in [Attempts -> {"none", "live", "expired"}]
    BY <1>1, <1>5, <2>1 DEF TakeLock
  <2> QED BY <1>5, <2>2 DEF TakeLock, TypeOK
<1>6. CASE LockFails(a)
  <2>1. session' \in [Attempts -> Sessions]
    BY <1>6, LeaveType DEF LockFails
  <2>2. faults' \in 0..MaxFaults
    BY <1>6, FaultType DEF LockFails, TypeOK
  <2> QED BY <1>6, <2>1, <2>2 DEF LockFails, TypeOK
<1>7. CASE Save(a)
  <2>1. Snapshot(a) \in Content
    BY <1>3, <1>7, SnapshotType DEF Save
  <2>2. [[session[a] EXCEPT !.pc = "saved"] EXCEPT !.ref = Snapshot(a)] \in Sessions
    BY <1>1, <2>1, ZenonT(60) DEF Sessions
  <2>3. session' \in [Attempts -> Sessions]
    BY <1>1, <1>7, <2>2 DEF Save
  <2> QED BY <1>7, <2>3 DEF Save, Stored, TypeOK
<1>8. CASE SaveFails(a)
  <2>1. session' \in [Attempts -> Sessions]
    BY <1>8, GoesType DEF SaveFails
  <2>2. faults' \in 0..MaxFaults
    BY <1>8, FaultType DEF SaveFails, TypeOK
  <2> QED BY <1>8, <2>1, <2>2 DEF SaveFails, TypeOK
<1>9. CASE Record(a)
  <2>1. \A c \in BOOLEAN : [[session[a] EXCEPT !.pc = "unlock"] EXCEPT !.conflict = c] \in Sessions
    BY <1>1, ZenonT(60) DEF Sessions
  <2>2. (ManifestId(a) \in manifests) \in BOOLEAN
    OBVIOUS
  <2>3. session' \in [Attempts -> Sessions]
    BY <1>1, <1>9, <2>1, <2>2, ZenonT(60) DEF Record
  <2>4. session[a].ref \in Content
    BY <1>1, <1>9 DEF Record, Sessions
  <2>5. 0 \in Versions /\ session[a].version \in Versions
    BY <1>1, VersionType DEF Held
  <2>6. ManifestId(a) \in Attempts \X {"manifest", "workspace"} \X Versions
    BY <2>5 DEF ManifestId
  <2>7. head' \in Content \cup {None} /\ manifests' \subseteq (Attempts \X {"manifest", "workspace"} \X Versions)
    BY <1>9, <2>4, <2>6 DEF Record, TypeOK
  <2> QED BY <1>9, <2>3, <2>7 DEF Record, TypeOK
<1>10. CASE RecordFails(a)
  <2>1. session' \in [Attempts -> Sessions]
    BY <1>10, GoesType DEF RecordFails
  <2>2. faults' \in 0..MaxFaults
    BY <1>10, FaultType DEF RecordFails
  <2> QED BY <1>10, <2>1, <2>2 DEF RecordFails, TypeOK
<1>11. CASE Unlock(a)
  <2>1. session' \in [Attempts -> Sessions]
    BY <1>4, <1>11, LeaveType DEF Unlock
  <2>2. faults' \in 0..MaxFaults /\ lock' \in [Attempts -> {"none", "live", "expired"}]
    BY <1>11, FaultType DEF Unlock, TypeOK, release_workspace_lease
  <2> QED BY <1>11, <2>1, <2>2 DEF Unlock, TypeOK
<1>12. CASE Release(a)
  <2>1. box' \in [Boxes -> Sandboxes] /\ faults' \in 0..MaxFaults
    BY <1>3, <1>12, GiveBackType DEF Release
  <2>2. session' \in [Attempts -> Sessions] /\ kept' \in [Attempts -> {None, "completed", "parked"}]
    <3>1. (IF faults' # faults THEN "failed" ELSE session[a].outcome) \in {None, "completed", "parked", "failed", "raised"}
      BY <1>4
    <3> QED BY <1>12, <3>1, ReportType DEF Release
  <2> QED BY <1>12, <2>1, <2>2 DEF Release, TypeOK
<1>13. CASE Crash(a)
  <2>1. session[a].ws \in Boxes
    BY <1>3, <1>13 DEF Crash
  <2>2. [[[box[session[a].ws] EXCEPT !.renewal = "off"] EXCEPT !.lease = "expired"] EXCEPT !.files = Empty] \in Sandboxes
    BY <1>2, <2>1, Constants_, ZenonT(60) DEF Sandboxes
  <2>3. box' \in [Boxes -> Sandboxes]
    BY <1>1, <1>13, <2>1, <2>2, ZenonT(60) DEF Crash
  <2>4. session' \in [Attempts -> Sessions] /\ faults' \in 0..MaxFaults
    BY <1>1, <1>13, SessionSteps, FaultType, ZenonT(60) DEF Crash
  <2> QED BY <1>13, <2>3, <2>4 DEF Crash, TypeOK
<1>14. CASE ExpireLock(a)
  BY <1>14, FaultType, ZenonT(60) DEF ExpireLock, TypeOK
<1>15. CASE RenewLock(a)
  BY <1>15 DEF RenewLock, TypeOK
<1> QED BY <1>5, <1>6, <1>7, <1>8, <1>9, <1>10, <1>11, <1>12, <1>13, <1>14, <1>15

(* So do those of the leases, the store and the reaper.                    *)
LEMMA LeaseTypes ==
    ASSUME TypeOK,
           \/ \E i \in Boxes : RenewFails(i) \/ RenewLate(i) \/ Expire(i) \/ ReapKill(i) \/ KillFails(i)
           \/ LoseSnapshot \/ ReapList \/ ReapMark \/ ReaperCrashes \/ UNCHANGED vars
    PROVE  TypeOK'
<1>1. box \in [Boxes -> Sandboxes] /\ \A i \in Boxes : box[i] \in Sandboxes
  BY DEF TypeOK
<1>2. ASSUME NEW i \in Boxes, RenewFails(i)
      PROVE  TypeOK'
  <2>1. [box[i] EXCEPT !.renewal = "off"] \in Sandboxes
    BY <1>1 DEF Sandboxes
  <2>2. box' \in [Boxes -> Sandboxes] /\ faults' \in 0..MaxFaults
    BY <1>1, <1>2, <2>1, FaultType DEF RenewFails, TypeOK
  <2> QED BY <1>2, <2>2 DEF RenewFails, TypeOK
<1>3. ASSUME NEW i \in Boxes, RenewLate(i)
      PROVE  TypeOK'
  <2>1. \A r \in {"none", "live", "expired", "released", "dropped"} :
          [[box[i] EXCEPT !.renewal = "idle"] EXCEPT !.row = r] \in Sandboxes
    BY <1>1, ZenonT(60) DEF Sandboxes
  <2>2. (IF box[i].row = "expired" THEN "live" ELSE box[i].row) \in {"none", "live", "expired", "released", "dropped"}
    BY <1>1 DEF Sandboxes
  <2>3. box' = [box EXCEPT ![i] = [[box[i] EXCEPT !.renewal = "idle"]
                                    EXCEPT !.row = IF box[i].row = "expired" THEN "live" ELSE box[i].row]]
    BY <1>1, <1>3, ZenonT(60) DEF RenewLate, Sandboxes
  <2>4. box' \in [Boxes -> Sandboxes]
    BY <1>1, <2>1, <2>2, <2>3, ZenonT(60)
  <2> QED BY <1>3, <2>4 DEF RenewLate, TypeOK
<1>4. ASSUME NEW i \in Boxes, Expire(i)
      PROVE  TypeOK'
  <2>1. PICK sent \in BOOLEAN :
          box' = [box EXCEPT ![i].lease = IF sent THEN @ ELSE "expired", ![i].row = IF @ = "live" THEN "expired" ELSE @,
                           ![i].renewal = IF sent THEN "sent" ELSE @]
    BY <1>4, ZenonT(60) DEF Expire
  <2> DEFINE l == IF sent THEN box[i].lease ELSE "expired"
             r == IF box[i].row = "live" THEN "expired" ELSE box[i].row
             n == IF sent THEN "sent" ELSE box[i].renewal
  <2>2. l \in {"live", "expired"} /\ r \in {"none", "live", "expired", "released", "dropped"}
          /\ n \in {"off", "idle", "sent"}
    BY <1>1 DEF Sandboxes
  <2>3. [[[box[i] EXCEPT !.lease = l] EXCEPT !.row = r] EXCEPT !.renewal = n] \in Sandboxes
    BY <1>1, <2>2, ZenonT(60) DEF Sandboxes
  <2>4. box' = [box EXCEPT ![i] = [[[box[i] EXCEPT !.lease = l] EXCEPT !.row = r] EXCEPT !.renewal = n]]
    BY <1>1, <2>1, ZenonT(60) DEF Sandboxes
  <2>5. box' \in [Boxes -> Sandboxes] /\ faults' \in 0..MaxFaults
    BY <1>1, <1>4, <2>3, <2>4, FaultType, ZenonT(60) DEF Expire, TypeOK
  <2> QED BY <1>4, <2>5, ZenonT(60) DEF Expire, TypeOK
<1>5. ASSUME NEW i \in Boxes, ReapKill(i)
      PROVE  TypeOK'
  <2>1. [box[i] EXCEPT !.up = FALSE] \in Sandboxes
    BY <1>1, ZenonT(60) DEF Sandboxes
  <2>2. box' \in [Boxes -> Sandboxes]
    BY <1>1, <1>5, <2>1, ZenonT(60) DEF ReapKill, Killed
  <2>3. reaper' \in [listed : SUBSET Boxes, locks : SUBSET Attempts, killed : SUBSET Boxes]
    BY <1>5, ZenonT(60) DEF ReapKill, TypeOK
  <2> QED BY <1>5, <2>2, <2>3, ZenonT(60) DEF ReapKill, TypeOK
<1>6. ASSUME NEW i \in Boxes, KillFails(i)
      PROVE  TypeOK'
  BY <1>6 DEF KillFails, TypeOK
<1>7. CASE LoseSnapshot
  <2>1. \A a \in Attempts : session[a].base \in Content \cup {None}
    BY DEF TypeOK, Sessions
  <2>2. lost' \subseteq Content
    BY <1>7, <2>1 DEF LoseSnapshot, TypeOK
  <2> QED BY <1>7, <2>2, FaultType DEF LoseSnapshot, TypeOK
<1>8. CASE ReapList
  BY <1>8 DEF ReapList, TypeOK
<1>9. CASE ReapMark
  <2>1. \A i \in Boxes : [box[i] EXCEPT !.row = "released"] \in Sandboxes
    BY <1>1 DEF Sandboxes
  <2>2. box' \in [Boxes -> Sandboxes]
    BY <1>1, <1>9, <2>1, Constants_ DEF ReapMark
  <2>3. lock' \in [Attempts -> {"none", "live", "expired"}]
    BY <1>9 DEF ReapMark, TypeOK
  <2> QED BY <1>9, <2>2, <2>3 DEF ReapMark, TypeOK
<1>10. CASE ReaperCrashes
  BY <1>10 DEF ReaperCrashes, TypeOK
<1>11. CASE UNCHANGED vars
  BY <1>11 DEF vars, TypeOK
<1> QED BY <1>2, <1>3, <1>4, <1>5, <1>6, <1>7, <1>8, <1>9, <1>10, <1>11

-----------------------------------------------------------------------------
(* What the steps of a run do to its session and its sandbox.              *)

OtherSessions(a) == \A b \in Attempts : b # a => session'[b] = session[b]
OtherBoxes(i) == \A j \in Boxes : j # i => box'[j] = box[j]
SameBox(i) == box'[i].files = box[i].files /\ box'[i].up = box[i].up /\ box'[i].row = box[i].row

(* It gets a sandbox.                                                      *)
Starts(a) ==
    /\ session[a].pc = "start" /\ session'[a].pc = "leased"
    /\ session'[a].version = session[a].version /\ session'[a].base = session[a].base
    /\ session'[a].ws \in Boxes /\ Free(session'[a].ws)
    /\ box'[session'[a].ws] = Leased /\ OtherBoxes(session'[a].ws)

(* It opens it on the head.                                                *)
Opens(a) ==
    /\ session[a].pc = "leased" /\ session'[a].pc = "open"
    /\ session'[a].version = session[a].version /\ session'[a].ws = session[a].ws
    /\ session'[a].base = head /\ session'[a].start = Load(head)
    /\ session[a].ws \in Boxes /\ OtherBoxes(session[a].ws)
    /\ box'[session[a].ws].files = Load(head)
    /\ box'[session[a].ws].up = box[session[a].ws].up /\ box'[session[a].ws].row = "live"

(* It goes on in it.                                                       *)
Continues(a) ==
    /\ session[a].pc \in InTurn /\ session'[a].pc \in InTurn
    /\ session'[a].version = session[a].version /\ session'[a].ws = session[a].ws
    /\ session'[a].base = session[a].base /\ session'[a].start = session[a].start
    /\ \A i \in Boxes : SameBox(i)

(* It is through with it.                                                  *)
Leaves(a) ==
    /\ session[a].pc \in {"locking", "unlock"} /\ session'[a].pc = "release"
    /\ session'[a].version = session[a].version /\ session'[a].ws = session[a].ws
    /\ session'[a].base = None
    /\ box' = box

(* It has none any more.                                                   *)
Ends(a) ==
    /\ session'[a].pc \in {"start", "done"} /\ session'[a].ws = 0
    /\ session'[a].version \in 0..MaxParks[a] /\ session'[a].base = None
    /\ \A i \in Boxes : i # session[a].ws => box'[i] = box[i]
    /\ \A i \in Boxes : (box'[i].up => box[i].up) /\ box'[i].row \in {box[i].row, "none", "dropped"}

(* An activity that returns leaves a session without a sandbox.            *)
LEMMA ReportEnds ==
    ASSUME TypeOK, Held, NEW a \in Attempts, NEW outcome, Report(a, outcome)
    PROVE  /\ OtherSessions(a)
           /\ session'[a].pc \in {"start", "done"} /\ session'[a].ws = 0
           /\ session'[a].version \in 0..MaxParks[a] /\ session'[a].base = None
<1> DEFINE v == session[a].version
           resumed == outcome = "parked" /\ v < MaxParks[a]
           to == IF resumed \/ outcome = "raised" THEN "start" ELSE "done"
           next == IF resumed THEN v + 1 ELSE v
<1>1. v \in 0..MaxParks[a] /\ MaxParks[a] \in Nat
  BY WorkspaceBounds DEF Held
<1>2. next \in 0..MaxParks[a] /\ to \in {"start", "done"}
  BY <1>1
<1>3. session' = [session EXCEPT ![a] = [NoSession EXCEPT !.pc = to, !.version = next]]
  BY DEF Report
<1>4. session'[a] = [NoSession EXCEPT !.pc = to, !.version = next] /\ OtherSessions(a)
  BY <1>3 DEF TypeOK, OtherSessions
<1> HIDE DEF to, next
<1> QED BY <1>2, <1>4 DEF NoSession

(* Giving a sandbox back touches no other, starts none, and closes its row *)
(* as "none" or "dropped".                                                 *)
LEMMA GiveBackEnds ==
    ASSUME TypeOK, NEW i \in Boxes, GiveBack(i)
    PROVE  /\ OtherBoxes(i)
           /\ \A j \in Boxes : (box'[j].up => box[j].up) /\ box'[j].row \in {box[j].row, "none", "dropped"}
<1>1. box \in [Boxes -> Sandboxes] /\ \A j \in Boxes : box[j] \in Sandboxes
  BY DEF TypeOK
<1>2. CASE box' = [box EXCEPT ![i] = Released]
  BY <1>1, <1>2, Constants_ DEF Released, OtherBoxes
<1>3. CASE box' = [box EXCEPT ![i].row = "dropped", ![i].renewal = "off", ![i].files = Empty]
  BY <1>1, <1>3 DEF OtherBoxes, Sandboxes
<1> QED BY <1>2, <1>3 DEF GiveBack

(* Where each step of a run belongs.                                       *)
LEMMA TurnSteps ==
    ASSUME TypeOK, Held, NEW a \in Attempts
    PROVE  /\ Acquire(a) => OtherSessions(a) /\ Starts(a)
           /\ Take(a) => OtherSessions(a) /\ Opens(a)
           /\ TakeFails(a) \/ Replace(a) \/ Release(a) \/ Crash(a) => OtherSessions(a) /\ Ends(a)
           /\ \A outcome : EndTurn(a, outcome) =>
                OtherSessions(a) /\ (Ends(a) \/ (Continues(a) /\ session'[a].pc = "locking"))
<1>1. session[a] \in Sessions /\ session \in [Attempts -> Sessions] /\ box \in [Boxes -> Sandboxes]
  BY DEF TypeOK
<1>2. \A i \in Boxes : box[i] \in Sandboxes
  BY <1>1
<1>3. session[a].pc \notin {"start", "done"} => session[a].ws \in Boxes
  BY <1>1 DEF Held, Sessions
<1>4. Acquire(a) => OtherSessions(a) /\ Starts(a)
  <2> SUFFICES ASSUME Acquire(a) PROVE OtherSessions(a) /\ Starts(a)
    OBVIOUS
  <2>1. PICK i \in Boxes : /\ Free(i)
                           /\ box' = [box EXCEPT ![i] = Leased]
                           /\ session' = [session EXCEPT ![a].pc = "leased", ![a].ws = i]
    BY ZenonT(60) DEF Acquire
  <2>2. OtherSessions(a) /\ OtherBoxes(i) /\ box'[i] = Leased
    BY <1>1, <2>1 DEF OtherSessions, OtherBoxes
  <2>3. session'[a] = [[session[a] EXCEPT !.pc = "leased"] EXCEPT !.ws = i]
    BY <1>1, <2>1
  <2>4. /\ session'[a].pc = "leased" /\ session'[a].ws = i
        /\ session'[a].version = session[a].version /\ session'[a].base = session[a].base
    BY <1>1, <2>3 DEF Sessions
  <2> QED BY <2>1, <2>2, <2>4 DEF Starts, Acquire
<1>5. Take(a) => OtherSessions(a) /\ Opens(a)
  <2> SUFFICES ASSUME Take(a) PROVE OtherSessions(a) /\ Opens(a)
    OBVIOUS
  <2> DEFINE i == session[a].ws
  <2>1. i \in Boxes /\ session[a].pc = "leased"
    BY <1>3 DEF Take
  <2>2. session'[a] = [[[session[a] EXCEPT !.pc = "open"] EXCEPT !.base = head] EXCEPT !.start = Load(head)]
    BY <1>1 DEF Take, latest_workspace_snapshot
  <2>3. box'[i] = [[[box[i] EXCEPT !.row = "live"] EXCEPT !.files = Load(head)] EXCEPT !.renewal = "idle"]
    BY <1>1, <2>1, ZenonT(60) DEF Take, WithRow, latest_workspace_snapshot
  <2>4. OtherSessions(a) /\ OtherBoxes(i)
    BY <1>1, <2>1 DEF Take, OtherSessions, OtherBoxes
  <2>5. /\ session'[a].pc = "open" /\ session'[a].base = head /\ session'[a].start = Load(head)
        /\ session'[a].version = session[a].version /\ session'[a].ws = session[a].ws
    BY <1>1, <2>2 DEF Sessions
  <2>6. box'[i].files = Load(head) /\ box'[i].up = box[i].up /\ box'[i].row = "live"
    BY <1>2, <2>1, <2>3 DEF Sandboxes
  <2> QED BY <2>1, <2>4, <2>5, <2>6 DEF Opens
<1>6. TakeFails(a) => OtherSessions(a) /\ Ends(a)
  <2> SUFFICES ASSUME TakeFails(a) PROVE OtherSessions(a) /\ Ends(a)
    OBVIOUS
  <2>1. box' = [box EXCEPT ![session[a].ws] = Released] /\ session[a].ws \in Boxes
    BY <1>3 DEF TakeFails
  <2>2. /\ \A i \in Boxes : i # session[a].ws => box'[i] = box[i]
        /\ \A i \in Boxes : (box'[i].up => box[i].up) /\ box'[i].row \in {box[i].row, "none", "dropped"}
    BY <1>1, <2>1, Constants_ DEF Released
  <2> QED BY <2>2, ReportEnds DEF TakeFails, Ends
<1>7. Replace(a) => OtherSessions(a) /\ Ends(a)
  <2> SUFFICES ASSUME Replace(a) PROVE OtherSessions(a) /\ Ends(a)
    OBVIOUS
  <2>1. session'[a] = [NoSession EXCEPT !.version = session[a].version] /\ OtherSessions(a)
    BY <1>1 DEF Replace, OtherSessions
  <2>2. session[a].version \in 0..MaxParks[a]
    BY DEF Held
  <2>3. /\ session'[a].pc \in {"start", "done"} /\ session'[a].ws = 0
        /\ session'[a].version \in 0..MaxParks[a] /\ session'[a].base = None
    BY <2>1, <2>2 DEF NoSession
  <2> QED BY <1>3, <2>1, <2>3, GiveBackEnds DEF Replace, Ends, OtherBoxes
<1>8. Release(a) => OtherSessions(a) /\ Ends(a)
  BY <1>3, GiveBackEnds, ReportEnds DEF Release, Ends, OtherBoxes
<1>9. Crash(a) => OtherSessions(a) /\ Ends(a)
  <2> SUFFICES ASSUME Crash(a) PROVE OtherSessions(a) /\ Ends(a)
    OBVIOUS
  <2> DEFINE i == session[a].ws
  <2>1. session'[a] = [NoSession EXCEPT !.version = session[a].version] /\ OtherSessions(a)
    BY <1>1 DEF Crash, OtherSessions
  <2>2. session[a].version \in 0..MaxParks[a] /\ i \in Boxes
    BY <1>3 DEF Held, Crash
  <2>3. /\ session'[a].pc \in {"start", "done"} /\ session'[a].ws = 0
        /\ session'[a].version \in 0..MaxParks[a] /\ session'[a].base = None
    BY <2>1, <2>2 DEF NoSession
  <2>4. box' = [box EXCEPT ![i] = [[[box[i] EXCEPT !.renewal = "off"] EXCEPT !.lease = "expired"] EXCEPT !.files = Empty]]
    BY <1>1, <2>2, ZenonT(60) DEF Crash
  <2>5. \A j \in Boxes : j # i => box'[j] = box[j]
    BY <1>1, <2>4
  <2>6. box'[i].up = box[i].up /\ box'[i].row = box[i].row
    BY <1>1, <1>2, <2>2, <2>4 DEF Sandboxes
  <2> QED BY <2>1, <2>3, <2>5, <2>6 DEF Ends
<1>10. ASSUME NEW outcome, EndTurn(a, outcome)
       PROVE  OtherSessions(a) /\ (Ends(a) \/ (Continues(a) /\ session'[a].pc = "locking"))
  <2>1. CASE session[a].pc = "start"
    <3>1. Report(a, outcome) /\ box' = box
      BY <1>10, <2>1 DEF EndTurn
    <3> QED BY <3>1, ReportEnds DEF Ends
  <2>2. CASE session[a].pc # "start"
    <3> DEFINE i == session[a].ws
    <3>1. session[a].pc = "open" /\ i \in Boxes /\ Goes(a, "locking", outcome)
          /\ box' = [box EXCEPT ![i].renewal = "off"]
      BY <1>3, <1>10, <2>2 DEF EndTurn
    <3>2. session'[a] = [[session[a] EXCEPT !.pc = "locking"] EXCEPT !.outcome = outcome] /\ OtherSessions(a)
      BY <1>1, <3>1 DEF Goes, OtherSessions
    <3>3. /\ session'[a].pc = "locking" /\ session'[a].version = session[a].version /\ session'[a].ws = session[a].ws
          /\ session'[a].base = session[a].base /\ session'[a].start = session[a].start
      BY <1>1, <3>2 DEF Sessions
    <3>4. \A j \in Boxes : SameBox(j)
      BY <1>1, <1>2, <3>1 DEF SameBox, Sandboxes
    <3> QED BY <3>1, <3>2, <3>3, <3>4 DEF Continues, InTurn
  <2> QED BY <2>1, <2>2
<1> QED BY <1>4, <1>5, <1>6, <1>7, <1>8, <1>9, <1>10

(* A step of close() moves the session on; the reference is what Save      *)
(* stored, and stays.                                                      *)
LEMMA CloseSteps ==
    ASSUME TypeOK, Held, NEW a \in Attempts
    PROVE  /\ TakeLock(a) => OtherSessions(a) /\ Continues(a) /\ session'[a].pc = "locked"
           /\ Save(a) => OtherSessions(a) /\ Continues(a) /\ session'[a].pc = "saved" /\ session'[a].ref = Snapshot(a)
           /\ SaveFails(a) \/ Record(a) \/ RecordFails(a) =>
                OtherSessions(a) /\ Continues(a) /\ session'[a].pc = "unlock"
           /\ LockFails(a) \/ Unlock(a) => OtherSessions(a) /\ Leaves(a)
<1>1. session[a] \in Sessions /\ session \in [Attempts -> Sessions]
  BY DEF TypeOK
<1>2. box' = box => \A i \in Boxes : SameBox(i)
  BY DEF SameBox
<1>3. TakeLock(a) => OtherSessions(a) /\ Continues(a) /\ session'[a].pc = "locked"
  <2> SUFFICES ASSUME TakeLock(a) PROVE OtherSessions(a) /\ Continues(a) /\ session'[a].pc = "locked"
    OBVIOUS
  <2>1. session'[a] = [session[a] EXCEPT !.pc = "locked"] /\ OtherSessions(a)
    BY <1>1 DEF TakeLock, OtherSessions
  <2> QED BY <1>1, <1>2, <2>1 DEF TakeLock, Continues, InTurn, Sessions
<1>4. Save(a) => OtherSessions(a) /\ Continues(a) /\ session'[a].pc = "saved" /\ session'[a].ref = Snapshot(a)
  <2> SUFFICES ASSUME Save(a)
               PROVE  OtherSessions(a) /\ Continues(a) /\ session'[a].pc = "saved" /\ session'[a].ref = Snapshot(a)
    OBVIOUS
  <2>1. session'[a] = [[session[a] EXCEPT !.pc = "saved"] EXCEPT !.ref = Snapshot(a)] /\ OtherSessions(a)
    BY <1>1 DEF Save, OtherSessions
  <2> QED BY <1>1, <1>2, <2>1 DEF Save, Continues, InTurn, Sessions
<1>5. ASSUME NEW o, Goes(a, "unlock", o), box' = box, session[a].pc \in InTurn
      PROVE  OtherSessions(a) /\ Continues(a) /\ session'[a].pc = "unlock"
  <2>1. session'[a] = [[session[a] EXCEPT !.pc = "unlock"] EXCEPT !.outcome = o] /\ OtherSessions(a)
    BY <1>1, <1>5 DEF Goes, OtherSessions
  <2> QED BY <1>1, <1>2, <1>5, <2>1 DEF Continues, InTurn, Sessions
<1>6. SaveFails(a) \/ RecordFails(a) => OtherSessions(a) /\ Continues(a) /\ session'[a].pc = "unlock"
  BY <1>5 DEF SaveFails, RecordFails, InTurn
<1>7. Record(a) => OtherSessions(a) /\ Continues(a) /\ session'[a].pc = "unlock"
  <2> SUFFICES ASSUME Record(a) PROVE OtherSessions(a) /\ Continues(a) /\ session'[a].pc = "unlock"
    OBVIOUS
  <2>1. PICK c : session' = [session EXCEPT ![a].pc = "unlock", ![a].conflict = c]
    BY ZenonT(60) DEF Record
  <2>2. session'[a] = [[session[a] EXCEPT !.pc = "unlock"] EXCEPT !.conflict = c] /\ OtherSessions(a)
    BY <1>1, <2>1 DEF OtherSessions
  <2> QED BY <1>1, <1>2, <2>2 DEF Record, Continues, InTurn, Sessions
<1>8. ASSUME NEW o, Leave(a, o), box' = box, session[a].pc \in {"locking", "unlock"}
      PROVE  OtherSessions(a) /\ Leaves(a)
  <2>1. OtherSessions(a) /\ session'[a] = [NoSession EXCEPT !.pc = "release", !.ws = session[a].ws, !.outcome = o,
                                                           !.version = session[a].version]
    BY <1>1, <1>8 DEF Leave, OtherSessions
  <2> QED BY <1>8, <2>1 DEF Leaves, NoSession
<1>9. LockFails(a) \/ Unlock(a) => OtherSessions(a) /\ Leaves(a)
  BY <1>8 DEF LockFails, Unlock
<1> QED BY <1>3, <1>4, <1>6, <1>7, <1>9

(* The reaper, the keepalive and the clock start no sandbox, change no     *)
(* session and no file somebody is working on, and close a row only when   *)
(* its sandbox is down.                                                    *)
Tended ==
    /\ session' = session /\ head' = head
    /\ \A i \in Boxes : /\ box'[i].up => box[i].up
                        /\ box'[i].row = "released" => box[i].row = "released" \/ ~box'[i].up
                        /\ Holding(i) # {} => box'[i].files = box[i].files

(* These are the steps of keepalive, clock, store and reaper               *)
(* (lease_reaper.py).                                                      *)
LEMMA TendedSteps ==
    ASSUME TypeOK, KilledDown,
           \/ \E i \in Boxes : RenewFails(i) \/ RenewLate(i) \/ Expire(i) \/ ReapKill(i) \/ KillFails(i)
           \/ LoseSnapshot \/ ReapList \/ ReapMark \/ ReaperCrashes \/ UNCHANGED vars
           \/ \E a \in Attempts : ExpireLock(a) \/ RenewLock(a)
    PROVE  Tended
<1>1. box \in [Boxes -> Sandboxes] /\ \A i \in Boxes : box[i] \in Sandboxes
  BY DEF TypeOK
<1>2. ASSUME NEW i \in Boxes, RenewFails(i)
      PROVE  Tended
  BY <1>1, <1>2 DEF RenewFails, Tended, Sandboxes
<1>3. ASSUME NEW i \in Boxes, RenewLate(i)
      PROVE  Tended
  <2>1. box' = [box EXCEPT ![i] = [[box[i] EXCEPT !.renewal = "idle"]
                                    EXCEPT !.row = IF box[i].row = "expired" THEN "live" ELSE box[i].row]]
    BY <1>1, <1>3, ZenonT(60) DEF RenewLate, Sandboxes
  <2>2. box'[i].up = box[i].up /\ box'[i].files = box[i].files /\ (box'[i].row # box[i].row => box'[i].row = "live")
    BY <1>1, <2>1 DEF Sandboxes
  <2>3. \A j \in Boxes : j # i => box'[j] = box[j]
    BY <1>1, <2>1
  <2> QED BY <1>3, <2>2, <2>3, ZenonT(60) DEF RenewLate, Tended
<1>4. ASSUME NEW i \in Boxes, Expire(i)
      PROVE  Tended
  <2>1. PICK sent \in BOOLEAN :
          box' = [box EXCEPT ![i].lease = IF sent THEN @ ELSE "expired", ![i].row = IF @ = "live" THEN "expired" ELSE @,
                           ![i].renewal = IF sent THEN "sent" ELSE @]
    BY <1>4, ZenonT(60) DEF Expire
  <2> DEFINE l == IF sent THEN box[i].lease ELSE "expired"
             r == IF box[i].row = "live" THEN "expired" ELSE box[i].row
             n == IF sent THEN "sent" ELSE box[i].renewal
  <2>2. box' = [box EXCEPT ![i] = [[[box[i] EXCEPT !.lease = l] EXCEPT !.row = r] EXCEPT !.renewal = n]]
    BY <1>1, <2>1, ZenonT(60) DEF Sandboxes
  <2>3. box'[i].up = box[i].up /\ box'[i].files = box[i].files /\ (box'[i].row # box[i].row => box'[i].row = "expired")
    BY <1>1, <2>2 DEF Sandboxes
  <2>4. \A j \in Boxes : j # i => box'[j] = box[j]
    BY <1>1, <2>2
  <2> QED BY <1>4, <2>3, <2>4, ZenonT(60) DEF Expire, Tended
<1>5. ASSUME NEW i \in Boxes, ReapKill(i)
      PROVE  Tended
  BY <1>1, <1>5, ZenonT(60) DEF ReapKill, Killed, Tended, Sandboxes
<1>6. ASSUME NEW i \in Boxes, KillFails(i)
      PROVE  Tended
  BY <1>6 DEF KillFails, Tended
<1>7. CASE ReapMark
  <2>1. ASSUME NEW i \in Boxes
        PROVE  /\ box'[i].up => box[i].up
               /\ box'[i].row = "released" => box[i].row = "released" \/ ~box'[i].up
               /\ Holding(i) # {} => box'[i].files = box[i].files
    <3>1. box[i] \in Sandboxes
      BY <1>1
    <3>2. CASE i \in reaper.killed /\ box[i].row = "expired" /\ Holding(i) = {}
      BY <1>7, <3>2, Constants_ DEF ReapMark
    <3>3. CASE i \in reaper.killed /\ box[i].row = "expired" /\ Holding(i) # {}
      <4>1. box'[i] = [box[i] EXCEPT !.row = "released"] /\ ~box[i].up
        BY <1>7, <3>3 DEF ReapMark, KilledDown
      <4> QED BY <3>1, <4>1 DEF Sandboxes
    <3>4. CASE ~(i \in reaper.killed /\ box[i].row = "expired")
      BY <1>7, <3>4 DEF ReapMark
    <3> QED BY <3>2, <3>3, <3>4
  <2> QED BY <1>7, <2>1 DEF ReapMark, Tended
<1>8. CASE LoseSnapshot \/ ReapList \/ ReaperCrashes \/ UNCHANGED vars
           \/ \E a \in Attempts : ExpireLock(a) \/ RenewLock(a)
  BY <1>8, ZenonT(60) DEF LoseSnapshot, ReapList, ReaperCrashes, vars, ExpireLock, RenewLock, Tended
<1> QED BY <1>2, <1>3, <1>4, <1>5, <1>6, <1>7, <1>8

(* A tool call changes one file of the workspace it runs in.               *)
Edited(a) ==
    /\ session' = session /\ session[a].pc = "open"
    /\ session[a].ws \in Boxes /\ OtherBoxes(session[a].ws)
    /\ \A i \in Boxes : box'[i].up = box[i].up /\ box'[i].row = box[i].row
    /\ \E f \in Files, v \in {a, Absent} :
          box'[session[a].ws].files = [box[session[a].ws].files EXCEPT ![f] = v]

(* That is what a tool call through LeaseBackend does.                     *)
LEMMA EditSteps ==
    ASSUME TypeOK, Held, NEW a \in Attempts, ToolCall(a)
    PROVE  Edited(a)
<1> DEFINE i == session[a].ws
<1>1. box \in [Boxes -> Sandboxes] /\ i \in Boxes /\ session[a].pc = "open"
  BY DEF TypeOK, Held, Sessions, ToolCall
<1>2. PICK e \in Edits : e[1] = a /\ box' = [box EXCEPT ![i].files[e[2]] = e[3]]
  BY ZenonT(60) DEF ToolCall
<1>3. box' = [box EXCEPT ![i] = [box[i] EXCEPT !.files = [box[i].files EXCEPT ![e[2]] = e[3]]]]
  BY <1>2
<1>4. box[i] \in Sandboxes
  BY <1>1
<1>5. box'[i] = [box[i] EXCEPT !.files = [box[i].files EXCEPT ![e[2]] = e[3]]] /\ OtherBoxes(i)
  BY <1>1, <1>3 DEF OtherBoxes
<1>6. box'[i].files = [box[i].files EXCEPT ![e[2]] = e[3]] /\ box'[i].up = box[i].up /\ box'[i].row = box[i].row
  BY <1>4, <1>5 DEF Sandboxes
<1>7. e[2] \in Files /\ e[3] \in {a, Absent}
  BY <1>2, WorkspaceBounds
<1>8. \A j \in Boxes : box'[j].up = box[j].up /\ box'[j].row = box[j].row
  BY <1>5, <1>6, ZenonT(60) DEF OtherBoxes
<1>9. session' = session
  BY DEF ToolCall
<1> QED BY <1>1, <1>5, <1>6, <1>7, <1>8, <1>9, ZenonT(60) DEF Edited

(* Every step is of one of these kinds.                                    *)
LEMMA StepKinds ==
    ASSUME TypeOK, Held, KilledDown, [Next]_vars
    PROVE  \/ \E a \in Attempts :
               \/ OtherSessions(a) /\ (Starts(a) \/ Opens(a) \/ Continues(a) \/ Leaves(a) \/ Ends(a))
               \/ Edited(a)
           \/ Tended
<1>1. ASSUME NEW a \in Attempts,
             \/ Acquire(a) \/ Take(a) \/ TakeFails(a) \/ Replace(a)
             \/ \E outcome \in {"completed", "parked", "raised"} : EndTurn(a, outcome)
             \/ Release(a) \/ Crash(a)
      PROVE  OtherSessions(a) /\ (Starts(a) \/ Opens(a) \/ Continues(a) \/ Leaves(a) \/ Ends(a))
  BY <1>1, TurnSteps
<1>2. ASSUME NEW a \in Attempts,
             TakeLock(a) \/ LockFails(a) \/ Save(a) \/ SaveFails(a) \/ Record(a) \/ RecordFails(a) \/ Unlock(a)
      PROVE  OtherSessions(a) /\ (Continues(a) \/ Leaves(a))
  BY <1>2, CloseSteps
<1>3. ASSUME NEW a \in Attempts, ToolCall(a)
      PROVE  Edited(a)
  BY <1>3, EditSteps
<1>4. ASSUME \/ \E i \in Boxes : RenewFails(i) \/ RenewLate(i) \/ Expire(i) \/ ReapKill(i) \/ KillFails(i)
             \/ LoseSnapshot \/ ReapList \/ ReapMark \/ ReaperCrashes \/ UNCHANGED vars
             \/ \E a \in Attempts : ExpireLock(a) \/ RenewLock(a)
      PROVE  Tended
  BY <1>4, TendedSteps
<1>5. CASE Next
  BY <1>1, <1>2, <1>3, <1>4, <1>5, NextSplit
<1>6. CASE UNCHANGED vars
  BY <1>4, <1>6
<1> QED BY <1>5, <1>6

-----------------------------------------------------------------------------
(* The inductive invariant, conjunct by conjunct.                          *)

(* acquire gives out only sandboxes nobody holds, and every end of a run   *)
(* forgets its own.                                                        *)
LEMMA HeldKept ==
    ASSUME TypeOK, Held, KilledDown, [Next]_vars
    PROVE  Held'
<1>1. ASSUME NEW a \in Attempts, OtherSessions(a), Starts(a)
      PROVE  Held'
  <2>1. \A b \in Attempts : session[b].ws # session'[a].ws
    BY <1>1 DEF Starts, Free, Holding
  <2>2. session'[a].ws # 0
    BY <1>1, WorkspaceBounds DEF Starts
  <2>3. /\ session'[a].version \in 0..MaxParks[a] /\ session'[a].pc = "leased"
    BY <1>1 DEF Starts, Held
  <2> QED BY <1>1, <2>1, <2>2, <2>3 DEF OtherSessions, Held
<1>2. ASSUME NEW a \in Attempts, OtherSessions(a), Opens(a) \/ Continues(a) \/ Leaves(a)
      PROVE  Held'
  <2>1. session'[a].version = session[a].version /\ session'[a].ws = session[a].ws
    BY <1>2 DEF Opens, Continues, Leaves
  <2>2. session[a].pc \notin {"start", "done"} /\ session'[a].pc \notin {"start", "done"}
    BY <1>2 DEF Opens, Continues, Leaves, InTurn
  <2> QED BY <1>2, <2>1, <2>2 DEF OtherSessions, Held
<1>3. ASSUME NEW a \in Attempts, OtherSessions(a), Ends(a)
      PROVE  Held'
  <2>1. session'[a].version \in 0..MaxParks[a] /\ session'[a].pc \in {"start", "done"} /\ session'[a].ws = 0
    BY <1>3 DEF Ends
  <2> QED BY <1>3, <2>1 DEF OtherSessions, Held
<1>4. ASSUME session' = session
      PROVE  Held'
  BY <1>4 DEF Held
<1> QED BY <1>1, <1>2, <1>3, <1>4, StepKinds DEF Edited, Tended

(* Only Save puts a session into "saved", with a snapshot.                 *)
LEMMA SavedRefKept ==
    ASSUME TypeOK, Held, BaseKnown, KilledDown, SavedRef, [Next]_vars
    PROVE  SavedRef'
<1>1. ASSUME NEW a \in Attempts, OtherSessions(a), session'[a].pc # "saved"
      PROVE  SavedRef'
  BY <1>1 DEF OtherSessions, SavedRef
<1>2. ASSUME NEW a \in Attempts, 
             \/ Acquire(a) \/ Take(a) \/ TakeFails(a) \/ Replace(a)
             \/ \E outcome \in {"completed", "parked", "raised"} : EndTurn(a, outcome)
             \/ Release(a) \/ Crash(a)
      PROVE  SavedRef'
  <2>1. OtherSessions(a) /\ session'[a].pc # "saved"
    BY <1>2, TurnSteps DEF Starts, Opens, Ends
  <2> QED BY <1>1, <2>1
<1>3. ASSUME NEW a \in Attempts, 
             TakeLock(a) \/ LockFails(a) \/ SaveFails(a) \/ Record(a) \/ RecordFails(a) \/ Unlock(a)
      PROVE  SavedRef'
  <2>1. OtherSessions(a) /\ session'[a].pc # "saved"
    BY <1>3, CloseSteps DEF Leaves
  <2> QED BY <1>1, <2>1
<1>4. ASSUME NEW a \in Attempts, Save(a)
      PROVE  SavedRef'
  <2>1. OtherSessions(a) /\ session'[a].ref = Snapshot(a)
    BY <1>4, CloseSteps
  <2>2. session[a].ws \in Boxes
    BY <1>4 DEF Save, Held, TypeOK, Sessions
  <2>3. Snapshot(a) # None
    BY <2>2, SnapshotType, WorkspaceBounds
  <2> QED BY <2>1, <2>3 DEF OtherSessions, SavedRef
<1>5. ASSUME session' = session
      PROVE  SavedRef'
  BY <1>5 DEF SavedRef
<1>6. ASSUME \/ \E i \in Boxes : RenewFails(i) \/ RenewLate(i) \/ Expire(i) \/ ReapKill(i) \/ KillFails(i)
             \/ LoseSnapshot \/ ReapList \/ ReapMark \/ ReaperCrashes \/ UNCHANGED vars
             \/ \E a \in Attempts : ToolCall(a) \/ ExpireLock(a) \/ RenewLock(a)
      PROVE  session' = session
  BY <1>6, TendedSteps, EditSteps DEF Tended, Edited
<1> QED BY <1>2, <1>3, <1>4, <1>5, <1>6, NextSplit

(* Only Record changes the head, to a snapshot that Save stored.           *)
LEMMA HeadStays ==
    ASSUME TypeOK, SavedRef, [Next]_vars
    PROVE  head' # None \/ head' = head
<1>1. ASSUME NEW a \in Attempts, Record(a)
      PROVE  head' # None \/ head' = head
  BY <1>1 DEF Record, SavedRef
<1>2. CASE Next
  BY <1>1, <1>2, NextSplit, ZenonT(60) DEF Acquire, Take, TakeFails, Replace, ToolCall, EndTurn, TakeLock, LockFails, Save,
     SaveFails, RecordFails, Unlock, Release, Crash, ExpireLock, RenewLock, RenewFails, RenewLate, Expire,
     ReapKill, KillFails, LoseSnapshot, ReapList, ReapMark, ReaperCrashes
<1>3. CASE UNCHANGED vars
  BY <1>3 DEF vars
<1> QED BY <1>2, <1>3

(* A session has a base only if the task has a head                        *)
(* (SandboxSession._take).                                                 *)
LEMMA BaseKnownKept ==
    ASSUME TypeOK, Held, BaseKnown, KilledDown, SavedRef, [Next]_vars
    PROVE  BaseKnown'
<1>1. \A a \in Attempts : session'[a].base \in {session[a].base, None, head}
  BY StepKinds DEF OtherSessions, Starts, Opens, Continues, Leaves, Ends, Edited, Tended
<1>2. head' = None => head = None
  BY HeadStays
<1> QED BY <1>1, <1>2 DEF BaseKnown

(* A row is closed as "released" only on a sandbox that is down, and a     *)
(* sandbox comes up only with a new row and off the reaper's lists.        *)
LEMMA RowsKept ==
    ASSUME TypeOK, Held, KilledDown, RowOutlivesSandbox, [Next]_vars
    PROVE  RowOutlivesSandbox'
<1>1. ASSUME NEW i \in Boxes, NEW a \in Attempts, Starts(a) \/ Opens(a) \/ Continues(a) \/ Leaves(a) \/ Ends(a)
      PROVE  box'[i].up => box'[i].row # "released"
  <2>1. CASE Starts(a)
    BY <2>1, Constants_ DEF Starts, OtherBoxes, RowOutlivesSandbox
  <2>2. CASE Opens(a)
    BY <2>2 DEF Opens, OtherBoxes, RowOutlivesSandbox
  <2>3. CASE Continues(a) \/ Leaves(a)
    BY <2>3 DEF Continues, SameBox, Leaves, RowOutlivesSandbox
  <2>4. CASE Ends(a)
    BY <2>4 DEF Ends, RowOutlivesSandbox
  <2> QED BY <1>1, <2>1, <2>2, <2>3, <2>4
<1>2. ASSUME NEW i \in Boxes, NEW a \in Attempts, Edited(a)
      PROVE  box'[i].up => box'[i].row # "released"
  BY <1>2 DEF Edited, RowOutlivesSandbox
<1>3. ASSUME NEW i \in Boxes, Tended
      PROVE  box'[i].up => box'[i].row # "released"
  BY <1>3 DEF Tended, RowOutlivesSandbox
<1> QED BY <1>1, <1>2, <1>3, StepKinds DEF RowOutlivesSandbox

(* What reap_leases killed stays down until its rows are marked: the id is *)
(* not given out before.                                                   *)
LEMMA KilledKept ==
    ASSUME TypeOK, Held, KilledDown, [Next]_vars
    PROVE  KilledDown'
<1>1. reaper.killed \subseteq Boxes
  BY DEF TypeOK
<1>2. ASSUME NEW a \in Attempts, Starts(a) \/ Opens(a) \/ Continues(a) \/ Leaves(a) \/ Ends(a) \/ Edited(a)
      PROVE  \A i \in reaper.killed : ~box'[i].up
  <2>1. CASE Starts(a)
    BY <1>1, <2>1 DEF Starts, OtherBoxes, Free, KilledDown
  <2>2. CASE Opens(a) \/ Edited(a)
    BY <1>1, <2>2, ZenonT(60) DEF Opens, Edited, OtherBoxes, KilledDown
  <2>3. CASE Continues(a) \/ Leaves(a) \/ Ends(a)
    BY <1>1, <2>3 DEF Continues, SameBox, Leaves, Ends, KilledDown
  <2> QED BY <1>2, <2>1, <2>2, <2>3
<1>3. \A i \in reaper.killed : ~box'[i].up
  BY <1>1, <1>2, StepKinds DEF Tended, KilledDown
<1>4. \/ reaper'.killed = {} \/ reaper'.killed = reaper.killed
      \/ \E i \in Boxes : ~box'[i].up /\ reaper'.killed = reaper.killed \cup {i}
  <2>1. ASSUME NEW i \in Boxes, ReapKill(i)
        PROVE  ~box'[i].up /\ reaper'.killed = reaper.killed \cup {i}
    <3>1. box[i] \in Sandboxes /\ box'[i] = [box[i] EXCEPT !.up = FALSE]
      BY <2>1 DEF ReapKill, Killed, TypeOK
    <3> QED BY <2>1, <3>1 DEF ReapKill, Sandboxes, TypeOK
  <2>2. ASSUME NEW i \in Boxes, KillFails(i)
        PROVE  reaper'.killed = reaper.killed
    BY <2>2 DEF KillFails, TypeOK
  <2>3. CASE ReapList \/ ReapMark \/ ReaperCrashes
    BY <2>3 DEF ReapList, ReapMark, ReaperCrashes
  <2>4. CASE Next
    BY <2>1, <2>2, <2>3, <2>4, NextSplit, ZenonT(60) DEF Acquire, Take, TakeFails, Replace, ToolCall, EndTurn, TakeLock, LockFails,
       Save, SaveFails, Record, RecordFails, Unlock, Release, Crash, ExpireLock, RenewLock, RenewFails, RenewLate, Expire, LoseSnapshot
  <2>5. CASE UNCHANGED vars
    BY <2>5 DEF vars
  <2> QED BY <2>4, <2>5
<1> QED BY <1>3, <1>4 DEF KilledDown

-----------------------------------------------------------------------------
(* What an attempt has changed, after each kind of step.                   *)

(* The work of a session that stays as it is, in files that stay.          *)
LEMMA WorkOf ==
    ASSUME TypeOK, Held, NEW b \in Attempts,
           session'[b].pc = session[b].pc \/ {session[b].pc, session'[b].pc} \subseteq InTurn,
           session'[b].ws = session[b].ws, session'[b].start = session[b].start,
           session[b].ws \in Boxes => box'[session[b].ws].files = box[session[b].ws].files
    PROVE  Work(b)' = Work(b)
<1>1. session[b].ws # 0 => session[b].ws \in Boxes
  BY DEF TypeOK, Sessions
<1>2. (session'[b].pc \in {"leased", "release"}) <=> (session[b].pc \in {"leased", "release"})
  BY DEF InTurn
<1> QED BY <1>1, <1>2 DEF Work

(* No step of one attempt changes what another attempt has changed: no     *)
(* sandbox has two holders.                                                *)
LEMMA OthersWork ==
    ASSUME TypeOK, Held, NEW a \in Attempts, NEW b \in Attempts, a # b,
           \/ OtherSessions(a) /\ (Starts(a) \/ Opens(a) \/ Continues(a) \/ Leaves(a) \/ Ends(a))
           \/ Edited(a)
    PROVE  session'[b] = session[b] /\ Work(b)' = Work(b)
<1>1. session'[b] = session[b]
  BY DEF OtherSessions, Edited
<1>2. session[b].ws \in Boxes => session[b].ws # session[a].ws
  BY WorkspaceBounds DEF Held
<1>3. session[b].ws \in Boxes => box'[session[b].ws].files = box[session[b].ws].files
  <2> SUFFICES ASSUME session[b].ws \in Boxes
               PROVE  box'[session[b].ws].files = box[session[b].ws].files
    OBVIOUS
  <2>1. CASE Starts(a)
    <3>1. session[b].ws # session'[a].ws
      BY <2>1 DEF Starts, Free, Holding
    <3> QED BY <2>1, <3>1 DEF Starts, OtherBoxes
  <2>2. CASE Opens(a) \/ Edited(a)
    BY <1>2, <2>2, ZenonT(60) DEF Opens, Edited, OtherBoxes
  <2>3. CASE Continues(a) \/ Leaves(a) \/ Ends(a)
    BY <1>2, <2>3, ZenonT(60) DEF Continues, SameBox, Leaves, Ends
  <2> QED BY <2>1, <2>2, <2>3
<1>4. Work(b)' = Work(b)
  BY <1>1, <1>3, WorkOf
<1> QED BY <1>1, <1>4

(* Opening a workspace is no change, saving it is none, and leaving it     *)
(* drops what was changed.                                                 *)
LEMMA OwnWork ==
    ASSUME TypeOK, Held, NEW a \in Attempts
    PROVE  /\ Starts(a) \/ Opens(a) => Work(a) = NoWork /\ Work(a)' = NoWork
           /\ Continues(a) => Work(a)' = Work(a)
           /\ Leaves(a) \/ Ends(a) => Work(a)' = NoWork
<1>1. Starts(a) => Work(a) = NoWork /\ Work(a)' = NoWork
  <2>1. session[a].pc = "start" => session[a].ws = 0
    BY DEF Held
  <2> QED BY <2>1 DEF Starts, Work
<1>2. Opens(a) => Work(a) = NoWork /\ Work(a)' = NoWork
  <2> SUFFICES ASSUME Opens(a) PROVE Work(a) = NoWork /\ Work(a)' = NoWork
    OBVIOUS
  <2>1. Work(a) = NoWork
    BY DEF Opens, Work
  <2>2. box'[session'[a].ws].files = session'[a].start
    BY DEF Opens
  <2>3. [f \in Files |-> IF session'[a].start[f] = session'[a].start[f] THEN Same ELSE session'[a].start[f]] = NoWork
    BY DEF NoWork
  <2> QED BY <2>1, <2>2, <2>3 DEF Work
<1>3. Continues(a) => Work(a)' = Work(a)
  BY WorkOf DEF Continues, SameBox, InTurn
<1>4. Leaves(a) \/ Ends(a) => Work(a)' = NoWork
  BY DEF Leaves, Ends, Work
<1> QED BY <1>1, <1>2, <1>3, <1>4

(* A tool call changes the work in one file; writing what was there is no  *)
(* change.                                                                 *)
LEMMA EditedWork ==
    ASSUME TypeOK, Held, NEW a \in Attempts, Edited(a)
    PROVE  \E f \in Files, v \in {a, Absent, Same} : Work(a)' = [Work(a) EXCEPT ![f] = v]
<1> DEFINE i == session[a].ws
           now == box[i].files
           start == session[a].start
<1>1. i \in Boxes /\ i # 0 /\ session[a].pc = "open" /\ session' = session
  BY WorkspaceBounds DEF Edited
<1>2. PICK f \in Files, v \in {a, Absent} : box'[i].files = [now EXCEPT ![f] = v]
  BY DEF Edited
<1>3. now \in Content
  BY <1>1 DEF TypeOK, Sandboxes
<1>4. Work(a) = [g \in Files |-> IF now[g] = start[g] THEN Same ELSE now[g]]
  BY <1>1 DEF Work
<1>5. Work(a)' = [g \in Files |-> IF [now EXCEPT ![f] = v][g] = start[g] THEN Same ELSE [now EXCEPT ![f] = v][g]]
  BY <1>1, <1>2 DEF Work
<1>6. Work(a)' = [Work(a) EXCEPT ![f] = IF v = start[f] THEN Same ELSE v]
  BY <1>3, <1>4, <1>5 DEF Content
<1>7. (IF v = start[f] THEN Same ELSE v) \in {a, Absent, Same}
  OBVIOUS
<1> QED BY <1>6, <1>7, ZenonT(60)

(* The reaper and the clock change no file of a workspace that is held.    *)
LEMMA TendedWork ==
    ASSUME TypeOK, Held, Tended, NEW b \in Attempts
    PROVE  Work(b)' = Work(b)
<1>1. session' = session
  BY DEF Tended
<1>2. session[b].ws \in Boxes => box'[session[b].ws].files = box[session[b].ws].files
  BY DEF Tended, Holding
<1> QED BY <1>1, <1>2, WorkOf

(* What Save stores is the head with the work put in, if nothing is lost.  *)
LEMMA SnapshotIsMerge ==
    ASSUME TypeOK, Held, BaseKnown, Undamaged, NEW a \in Attempts, session[a].pc = "locked", NEW f \in Files
    PROVE  Snapshot(a)[f] = IF Work(a)[f] = Same THEN HeadFiles[f] ELSE Work(a)[f]
<1> DEFINE i == session[a].ws
           mine == box[i].files
           start == session[a].start
           base == session[a].base
<1>1. i \in Boxes /\ i # 0
  BY DEF Held, TypeOK, Sessions
<1>2. mine \in Content /\ mine[f] \in Attempts \cup {Absent}
  BY <1>1 DEF TypeOK, Sandboxes, Content
<1>3. lost = {} /\ start = IF base = None THEN Empty ELSE base
  BY DEF Undamaged, InTurn
<1>4. Work(a)[f] = IF mine[f] = start[f] THEN Same ELSE mine[f]
  BY <1>1 DEF Work
<1>5. (Work(a)[f] = Same) <=> (mine[f] = start[f])
  BY <1>2, <1>4, WorkspaceBounds
<1>6. CASE head = base
  <2>1. Snapshot(a) = mine /\ HeadFiles = start
    BY <1>3, <1>6 DEF Snapshot, latest_workspace_snapshot, HeadFiles
  <2> QED BY <1>4, <1>5, <2>1
<1>7. CASE head # base
  <2>1. head # None
    BY <1>7 DEF BaseKnown
  <2>2. Load(base) = start /\ HeadFiles = head
    BY <1>3, <2>1 DEF Load, HeadFiles
  <2>3. Snapshot(a) = merge_archives(start, mine, head)
    BY <1>3, <1>7, <2>2 DEF Snapshot, latest_workspace_snapshot
  <2>4. Snapshot(a)[f] = IF mine[f] # Absent /\ mine[f] # start[f] THEN mine[f]
                         ELSE IF mine[f] = Absent /\ start[f] # Absent THEN Absent
                         ELSE head[f]
    BY <2>3 DEF merge_archives
  <2> QED BY <1>4, <1>5, <2>2, <2>4
<1> QED BY <1>6, <1>7

-----------------------------------------------------------------------------
(* Undamaged, under the steps that do no damage.                           *)

LockedLive == \A a \in Attempts : InLock(a) => lock[a] = "live"
OneLock == \A a, b \in Attempts : lock[a] = "live" /\ lock[b] = "live" => a = b
StartsFromBase == \A a \in Attempts : session[a].pc \in InTurn =>
                      session[a].start = IF session[a].base = None THEN Empty ELSE session[a].base
SavedIsMerge == \A a \in Attempts : session[a].pc = "saved" =>
                      \A f \in Files : session[a].ref[f] = IF Work(a)[f] = Same THEN HeadFiles[f] ELSE Work(a)[f]

(* The conjuncts of Undamaged have names.                                  *)
LEMMA UndamagedParts == Undamaged <=> lost = {} /\ LockedLive /\ OneLock /\ StartsFromBase /\ SavedIsMerge
BY DEF Undamaged, LockedLive, OneLock, StartsFromBase, SavedIsMerge

(* Without damage the store loses nothing.                                 *)
LEMMA NothingLost ==
    ASSUME lost = {}, damaged' = FALSE, [Next]_vars
    PROVE  lost' = {}
<1>1. CASE Next
  BY <1>1, NextSplit, ZenonT(60) DEF Acquire, Take, TakeFails, Replace, ToolCall, EndTurn, TakeLock, LockFails, Save, Stored,
     SaveFails, Record, RecordFails, Unlock, Release, Crash, ExpireLock, RenewLock, RenewFails, RenewLate, Expire,
     ReapKill, KillFails, LoseSnapshot, ReapList, ReapMark, ReaperCrashes
<1>2. CASE UNCHANGED vars
  BY <1>2 DEF vars
<1> QED BY <1>1, <1>2

(* A session starts from the files of its base (SandboxSession._take) and  *)
(* keeps both while it works.                                              *)
LEMMA BasesKept ==
    ASSUME TypeOK, Held, KilledDown, StartsFromBase, lost = {}, [Next]_vars
    PROVE  StartsFromBase'
<1>1. ASSUME NEW a \in Attempts, OtherSessions(a), Starts(a) \/ Opens(a) \/ Continues(a) \/ Leaves(a) \/ Ends(a)
      PROVE  StartsFromBase'
  <2>1. CASE Starts(a) \/ Leaves(a) \/ Ends(a)
    <3>1. session'[a].pc \notin InTurn
      BY <2>1 DEF Starts, Leaves, Ends, InTurn
    <3> QED BY <1>1, <3>1 DEF OtherSessions, StartsFromBase
  <2>2. CASE Opens(a)
    <3>1. session'[a].start = IF session'[a].base = None THEN Empty ELSE session'[a].base
      BY <2>2 DEF Opens, Load
    <3> QED BY <1>1, <3>1 DEF OtherSessions, StartsFromBase
  <2>3. CASE Continues(a)
    BY <1>1, <2>3 DEF Continues, OtherSessions, StartsFromBase
  <2> QED BY <1>1, <2>1, <2>2, <2>3
<1>2. ASSUME session' = session
      PROVE  StartsFromBase'
  BY <1>2 DEF StartsFromBase
<1> QED BY <1>1, <1>2, StepKinds DEF Edited, Tended

(* Without damage the saver holds the only live row of the commit lock     *)
(* (commit_lock).                                                          *)
LEMMA LockKept ==
    ASSUME TypeOK, Held, KilledDown, LockedLive, OneLock, damaged' = FALSE, [Next]_vars
    PROVE  LockedLive' /\ OneLock'
<1>1. lock \in [Attempts -> {"none", "live", "expired"}]
  BY DEF TypeOK
<1>2. ASSUME NEW a \in Attempts, OtherSessions(a), lock' = lock,
             InLock(a)' => InLock(a)
      PROVE  LockedLive' /\ OneLock'
  BY <1>2 DEF OtherSessions, LockedLive, OneLock, InLock
<1>3. ASSUME NEW a \in Attempts,
             \/ Acquire(a) \/ Take(a) \/ TakeFails(a) \/ Replace(a)
             \/ \E outcome \in {"completed", "parked", "raised"} : EndTurn(a, outcome)
             \/ Release(a) \/ Crash(a)
      PROVE  LockedLive' /\ OneLock'
  <2>1. OtherSessions(a) /\ ~InLock(a)'
    BY <1>3, TurnSteps, ZenonT(60) DEF Starts, Opens, Ends, InLock
  <2>2. lock' = lock
    BY <1>3 DEF Acquire, Take, TakeFails, Replace, EndTurn, Release, Crash
  <2> QED BY <1>2, <2>1, <2>2
<1>4. ASSUME NEW a \in Attempts, Save(a) \/ SaveFails(a) \/ Record(a) \/ RecordFails(a) \/ LockFails(a)
      PROVE  LockedLive' /\ OneLock'
  <2>1. OtherSessions(a) /\ (InLock(a)' => InLock(a))
    BY <1>4, CloseSteps DEF Save, SaveFails, Record, RecordFails, Leaves, InLock
  <2>2. lock' = lock
    BY <1>4 DEF Save, SaveFails, Record, RecordFails, LockFails
  <2> QED BY <1>2, <2>1, <2>2
<1>5. ASSUME NEW a \in Attempts, Unlock(a)
      PROVE  LockedLive' /\ OneLock'
  <2>1. OtherSessions(a) /\ ~InLock(a)'
    BY <1>5, CloseSteps DEF Leaves, InLock
  <2>2. \A b \in Attempts : (lock'[b] = "live" => lock[b] = "live") /\ (b # a => lock'[b] = lock[b])
    BY <1>1, <1>5 DEF Unlock, release_workspace_lease
  <2> QED BY <2>1, <2>2 DEF OtherSessions, LockedLive, OneLock, InLock
<1>6. ASSUME NEW a \in Attempts, TakeLock(a)
      PROVE  LockedLive' /\ OneLock'
  <2>1. OtherSessions(a)
    BY <1>6, CloseSteps
  <2>2. \A b \in Attempts : lock'[b] = IF b = a THEN "live" ELSE "none"
    BY <1>6 DEF TakeLock
  <2>3. \A b \in Attempts : b # a => ~InLock(b)
    BY <1>6 DEF TakeLock, LockFree, LockedLive
  <2> QED BY <2>1, <2>2, <2>3 DEF OtherSessions, LockedLive, OneLock, InLock
<1>7. ASSUME NEW a \in Attempts, ExpireLock(a) \/ RenewLock(a)
      PROVE  LockedLive' /\ OneLock'
  <2>1. ~RenewLock(a)
    BY DEF RenewLock, LockedLive
  <2>2. session' = session /\ ~InLock(a) /\ lock' = [lock EXCEPT ![a] = "expired"]
    BY <1>7, <2>1 DEF ExpireLock
  <2> QED BY <1>1, <2>2 DEF LockedLive, OneLock, InLock
<1>8. CASE ReapMark
  <2>1. session' = session
    BY <1>8 DEF ReapMark
  <2>2. \A b \in Attempts : (lock'[b] = "live" <=> lock[b] = "live")
    BY <1>8 DEF ReapMark
  <2> QED BY <2>1, <2>2 DEF LockedLive, OneLock, InLock
<1>9. ASSUME \/ \E i \in Boxes : RenewFails(i) \/ RenewLate(i) \/ Expire(i) \/ ReapKill(i) \/ KillFails(i)
             \/ LoseSnapshot \/ ReapList \/ ReaperCrashes \/ UNCHANGED vars
             \/ \E a \in Attempts : ToolCall(a)
      PROVE  LockedLive' /\ OneLock'
  <2>1. session' = session /\ lock' = lock
    BY <1>9, ZenonT(60) DEF RenewFails, RenewLate, Expire, ReapKill, KillFails, LoseSnapshot, ReapList, ReaperCrashes, vars, ToolCall
  <2> QED BY <2>1 DEF LockedLive, OneLock, InLock
<1> QED BY <1>3, <1>4, <1>5, <1>6, <1>7, <1>8, <1>9, NextSplit

(* While one attempt holds a stored snapshot that is not recorded yet, no  *)
(* other records one: what it stored is still the head with its work put   *)
(* in.                                                                     *)
LEMMA SavedKept ==
    ASSUME TypeOK, Held, BaseKnown, KilledDown, Undamaged, [Next]_vars
    PROVE  SavedIsMerge'
<1>1. LockedLive /\ OneLock /\ SavedIsMerge
  BY UndamagedParts
<1>2. ASSUME NEW b \in Attempts, session'[b] = session[b], Work(b)' = Work(b), head' = head
      PROVE  (session[b].pc = "saved" =>
                \A f \in Files : session[b].ref[f] = IF Work(b)[f] = Same THEN HeadFiles[f] ELSE Work(b)[f])'
  BY <1>1, <1>2 DEF SavedIsMerge, HeadFiles
<1>3. ASSUME NEW a \in Attempts, session'[a].pc # "saved", head' = head,
             \/ OtherSessions(a) /\ (Starts(a) \/ Opens(a) \/ Continues(a) \/ Leaves(a) \/ Ends(a))
             \/ Edited(a)
      PROVE  SavedIsMerge'
  <2>1. \A b \in Attempts : b # a => session'[b] = session[b] /\ Work(b)' = Work(b)
    BY <1>3, OthersWork
  <2> QED BY <1>2, <1>3, <2>1 DEF SavedIsMerge
<1>4. ASSUME NEW a \in Attempts,
             \/ Acquire(a) \/ Take(a) \/ TakeFails(a) \/ Replace(a)
             \/ \E outcome \in {"completed", "parked", "raised"} : EndTurn(a, outcome)
             \/ Release(a) \/ Crash(a)
      PROVE  SavedIsMerge'
  <2>1. OtherSessions(a) /\ (Starts(a) \/ Opens(a) \/ Continues(a) \/ Leaves(a) \/ Ends(a)) /\ session'[a].pc # "saved"
    BY <1>4, TurnSteps, ZenonT(60) DEF Starts, Opens, Ends
  <2>2. head' = head
    BY <1>4 DEF Acquire, Take, TakeFails, Replace, EndTurn, Release, Crash
  <2> QED BY <1>3, <2>1, <2>2
<1>5. ASSUME NEW a \in Attempts, TakeLock(a) \/ LockFails(a) \/ SaveFails(a) \/ RecordFails(a) \/ Unlock(a)
      PROVE  SavedIsMerge'
  <2>1. OtherSessions(a) /\ (Continues(a) \/ Leaves(a)) /\ session'[a].pc # "saved"
    BY <1>5, CloseSteps, ZenonT(60) DEF Leaves
  <2>2. head' = head
    BY <1>5 DEF TakeLock, LockFails, SaveFails, RecordFails, Unlock
  <2> QED BY <1>3, <2>1, <2>2, ZenonT(60)
<1>6. ASSUME NEW a \in Attempts, ToolCall(a)
      PROVE  SavedIsMerge'
  <2>1. Edited(a)
    BY <1>6, EditSteps
  <2>2. head' = head /\ session'[a].pc # "saved"
    BY <1>6, <2>1 DEF ToolCall, Edited
  <2> QED BY <1>3, <2>1, <2>2
<1>7. ASSUME NEW a \in Attempts, Save(a)
      PROVE  SavedIsMerge'
  <2>1. OtherSessions(a) /\ Continues(a) /\ session'[a].pc = "saved" /\ session'[a].ref = Snapshot(a)
    BY <1>7, CloseSteps
  <2>2. head' = head /\ session[a].pc = "locked"
    BY <1>7 DEF Save
  <2>3. Work(a)' = Work(a)
    BY <2>1, OwnWork
  <2>4. \A f \in Files : Snapshot(a)[f] = IF Work(a)[f] = Same THEN HeadFiles[f] ELSE Work(a)[f]
    BY <2>2, SnapshotIsMerge
  <2>5. HeadFiles' = HeadFiles
    BY <2>2 DEF HeadFiles
  <2>6. \A b \in Attempts : b # a => session'[b] = session[b] /\ Work(b)' = Work(b)
    BY <2>1, OthersWork
  <2>7. (session[a].pc = "saved" =>
           \A f \in Files : session[a].ref[f] = IF Work(a)[f] = Same THEN HeadFiles[f] ELSE Work(a)[f])'
    BY <2>1, <2>3, <2>4, <2>5
  <2> QED BY <1>2, <2>2, <2>6, <2>7 DEF SavedIsMerge
<1>8. ASSUME NEW a \in Attempts, Record(a)
      PROVE  SavedIsMerge'
  <2>1. OtherSessions(a) /\ session'[a].pc # "saved"
    BY <1>8, CloseSteps
  <2>2. \A b \in Attempts : b # a => session[b].pc # "saved"
    BY <1>1, <1>8 DEF Record, LockedLive, OneLock, InLock
  <2> QED BY <2>1, <2>2 DEF OtherSessions, SavedIsMerge
<1>9. ASSUME Tended
      PROVE  SavedIsMerge'
  <2>1. \A b \in Attempts : session'[b] = session[b] /\ Work(b)' = Work(b)
    BY <1>9, TendedWork DEF Tended
  <2> QED BY <1>2, <1>9, <2>1 DEF SavedIsMerge, Tended
<1>10. ASSUME \/ \E i \in Boxes : RenewFails(i) \/ RenewLate(i) \/ Expire(i) \/ ReapKill(i) \/ KillFails(i)
              \/ LoseSnapshot \/ ReapList \/ ReapMark \/ ReaperCrashes \/ UNCHANGED vars
              \/ \E a \in Attempts : ExpireLock(a) \/ RenewLock(a)
       PROVE  SavedIsMerge'
  BY <1>9, <1>10, TendedSteps
<1> QED BY <1>4, <1>5, <1>6, <1>7, <1>8, <1>10, NextSplit

(* Damage is not undone.                                                   *)
LEMMA DamagedStays ==
    ASSUME TypeOK, [Next]_vars
    PROVE  damaged' \in BOOLEAN /\ (damaged => damaged')
<1>1. damaged \in BOOLEAN
  BY DEF TypeOK
<1>2. CASE Next
  <2>1. damaged' = damaged \/ damaged' = TRUE
    BY <1>2, NextSplit, ZenonT(60) DEF Acquire, Take, TakeFails, Replace, ToolCall, EndTurn, TakeLock, LockFails,
       Save, SaveFails, Record, RecordFails, Unlock, Release, Crash, ExpireLock, RenewLock, RenewFails, RenewLate, Expire,
       ReapKill, KillFails, LoseSnapshot, ReapList, ReapMark, ReaperCrashes
  <2> QED BY <1>1, <2>1, ZenonT(60)
<1>3. CASE UNCHANGED vars
  BY <1>1, <1>3 DEF vars
<1> QED BY <1>2, <1>3

(* Every step keeps the invariant.                                         *)
LEMMA InvKept == Inv /\ [Next]_vars => Inv'
<1> SUFFICES ASSUME Inv, [Next]_vars PROVE Inv'
  OBVIOUS
<1>1. TypeOK'
  <2>1. TypeOK /\ Held /\ BaseKnown /\ \A b \in Attempts : session[b].pc = "saved" => session[b].ref # None
    BY DEF Inv, SavedRef
  <2> QED BY <2>1, NextSplit, TurnTypes, CloseTypes, LeaseTypes, ZenonT(60)
<1>2. Held' /\ BaseKnown' /\ KilledDown' /\ RowOutlivesSandbox' /\ SavedRef'
  BY HeldKept, BaseKnownKept, KilledKept, RowsKept, SavedRefKept DEF Inv
<1>3. (damaged \/ Undamaged)'
  <2>1. CASE damaged' = TRUE
    BY <2>1
  <2>2. CASE damaged' = FALSE
    <3>1. Undamaged
      BY <2>2, DamagedStays DEF Inv
    <3>2. lost = {} /\ LockedLive /\ OneLock /\ StartsFromBase
      BY <3>1, UndamagedParts
    <3>3. lost' = {} /\ LockedLive' /\ OneLock'
      BY <2>2, <3>2, NothingLost, LockKept, ZenonT(60) DEF Inv
    <3>4. StartsFromBase' /\ SavedIsMerge'
      BY <3>1, <3>2, BasesKept, SavedKept DEF Inv
    <3> QED BY <3>3, <3>4 DEF Undamaged, LockedLive, OneLock, StartsFromBase, SavedIsMerge
  <2> QED BY <2>1, <2>2, DamagedStays, ZenonT(60) DEF Inv
<1> QED BY <1>1, <1>2, <1>3 DEF Inv

(* It holds before the first run.                                          *)
LEMMA InvInit == Init => Inv
<1> SUFFICES ASSUME Init PROVE Inv
  OBVIOUS
<1>1. \A a \in Attempts : session[a] = NoSession /\ NoSession \in Sessions
  BY NoSessionType DEF Init
<1>2. TypeOK
  <2>1. session \in [Attempts -> Sessions] /\ box \in [Boxes -> Sandboxes]
    BY <1>1, Constants_ DEF Init
  <2>2. lock \in [Attempts -> {"none", "live", "expired"}] /\ kept \in [Attempts -> {None, "completed", "parked"}]
    BY DEF Init
  <2>3. reaper \in [listed : SUBSET Boxes, locks : SUBSET Attempts, killed : SUBSET Boxes]
    BY DEF Init
  <2>4. faults \in 0..MaxFaults
    BY WorkspaceBounds DEF Init
  <2> QED BY <2>1, <2>2, <2>3, <2>4, ZenonT(60) DEF Init, TypeOK
<1>3. Held
  BY <1>1, WorkspaceBounds DEF NoSession, Held
<1>4. BaseKnown /\ SavedRef
  BY <1>1 DEF NoSession, BaseKnown, SavedRef
<1>5. KilledDown /\ RowOutlivesSandbox
  BY Constants_ DEF Init, KilledDown, RowOutlivesSandbox
<1>6. Undamaged
  BY <1>1 DEF NoSession, Init, Undamaged, InLock, InTurn
<1> QED BY <1>2, <1>3, <1>4, <1>5, <1>6 DEF Inv

(* It holds throughout.                                                    *)
LEMMA Invariant == Spec => []Inv
BY InvInit, InvKept, PTL DEF Spec

-----------------------------------------------------------------------------

(* The variables keep their types, for any attempts, files, sandboxes and  *)
(* bound on faults.                                                        *)
THEOREM TypesKept == Spec => []TypeOK
<1>1. Inv => TypeOK
  BY DEF Inv
<1> QED BY <1>1, Invariant, PTL

(* The reaper closes a row only when its sandbox is gone (lease_reaper.py  *)
(* 3-7), however kills, renewals, crashes and new leases interleave with   *)
(* its list.                                                               *)
THEOREM ClosedRowsHaveNoSandbox == Spec => []RowOutlivesSandbox
<1>1. Inv => RowOutlivesSandbox
  BY DEF Inv
<1> QED BY <1>1, Invariant, PTL

-----------------------------------------------------------------------------
(* The workspaces implement TaskHead: what each kind of step is there.     *)

(* A step that moves neither the head nor any work is no step of TaskHead. *)
LEMMA Stutters ==
    ASSUME head' = head, damaged' = damaged, \A b \in Attempts : Work(b)' = Work(b)
    PROVE  UNCHANGED Files0!headVars
<1>1. [b \in Attempts |-> Work(b)]' = [b \in Attempts |-> Work(b)]
  OBVIOUS
<1> QED BY <1>1 DEF Files0!headVars

(* The work of one attempt goes.                                           *)
LEMMA Drops ==
    ASSUME head' = head, damaged' = damaged, NEW a \in Attempts, Work(a)' = NoWork,
           \A b \in Attempts : b # a => Work(b)' = Work(b)
    PROVE  Files0!Drop({a})
BY DEF Files0!Drop, Files0!NoWork, NoWork

(* One file of the work of one attempt changes.                            *)
LEMMA EditIs ==
    ASSUME head' = head, damaged' = damaged, NEW a \in Attempts,
           \E f \in Files, v \in {a, Absent, Same} : Work(a)' = [Work(a) EXCEPT ![f] = v],
           \A b \in Attempts : b # a => Work(b)' = Work(b)
    PROVE  Files0!Edit(a)
<1>1. PICK f \in Files, v \in {a, Absent, Same} : Work(a)' = [Work(a) EXCEPT ![f] = v]
  BY ZenonT(60)
<1> DEFINE W == [b \in Attempts |-> Work(b)]
<1>2. W' = [W EXCEPT ![a] = [Work(a) EXCEPT ![f] = v]]
  BY <1>1, ZenonT(60)
<1>3. W' = [W EXCEPT ![a][f] = v]
  BY <1>2
<1> QED BY <1>3, ZenonT(60) DEF Files0!Edit

(* record_manifest is the save: the new head is the old one with the work  *)
(* put in, or the manifest was there before and nothing moves.             *)
LEMMA RecordIs ==
    ASSUME Inv, NEW a \in Attempts, Record(a)
    PROVE  Files0!Save(a) \/ UNCHANGED Files0!headVars
<1>1. TypeOK /\ Held /\ SavedRef /\ (damaged \/ Undamaged)
  BY DEF Inv
<1>2. OtherSessions(a) /\ Continues(a) /\ damaged' = damaged /\ session[a].pc = "saved"
  BY <1>1, CloseSteps, ZenonT(60) DEF Record
<1>3. \A b \in Attempts : Work(b)' = Work(b)
  BY <1>1, <1>2, OwnWork, OthersWork
<1>4. CASE head' = head
  BY <1>2, <1>3, <1>4, Stutters
<1>5. CASE head' # head
  <2>1. head' = session[a].ref /\ session[a].ref # None /\ session[a].ref \in Content
    BY <1>1, <1>2, <1>5 DEF Record, SavedRef, TypeOK, Sessions
  <2>2. HeadFiles' = session[a].ref
    BY <2>1 DEF HeadFiles
  <2>3. damaged \/ \A f \in Files : HeadFiles'[f] = IF Work(a)[f] = Same THEN HeadFiles[f] ELSE Work(a)[f]
    BY <1>1, <1>2, <2>2 DEF Undamaged
  <2>4. [b \in Attempts |-> Work(b)]' = [b \in Attempts |-> Work(b)]
    BY <1>3
  <2>5. HeadFiles' \in Files0!Contents
    BY <2>1, <2>2 DEF Content, Files0!Contents
  <2> QED BY <1>2, <2>3, <2>4, <2>5 DEF Files0!Save, HeadFiles
<1> QED BY <1>4, <1>5

(* Every step is a step of TaskHead, or none.                              *)
LEMMA StepRefines == Inv /\ [Next]_vars => [Files0!Next]_(Files0!headVars)
<1> SUFFICES ASSUME Inv, [Next]_vars PROVE Files0!Next \/ UNCHANGED Files0!headVars
  OBVIOUS
<1>1. TypeOK /\ Held /\ KilledDown
  BY DEF Inv
<1>2. ASSUME NEW a \in Attempts, OtherSessions(a), head' = head, damaged' = damaged,
             Starts(a) \/ Opens(a) \/ Continues(a) \/ Leaves(a) \/ Ends(a)
      PROVE  Files0!Next \/ UNCHANGED Files0!headVars
  <2>1. \A b \in Attempts : b # a => Work(b)' = Work(b)
    BY <1>1, <1>2, OthersWork
  <2>2. CASE Starts(a) \/ Opens(a) \/ Continues(a)
    <3>1. Work(a)' = Work(a)
      BY <1>1, <2>2, OwnWork
    <3>2. \A b \in Attempts : Work(b)' = Work(b)
      BY <2>1, <3>1
    <3> QED BY <1>2, <3>2, Stutters
  <2>3. CASE Leaves(a) \/ Ends(a)
    <3>1. Work(a)' = NoWork
      BY <1>1, <2>3, OwnWork
    <3>2. Files0!Drop({a})
      BY <1>2, <2>1, <3>1, Drops
    <3> QED BY <3>2 DEF Files0!Next
  <2> QED BY <1>2, <2>2, <2>3
<1>3. ASSUME NEW a \in Attempts,
             \/ Acquire(a) \/ Take(a) \/ TakeFails(a) \/ Replace(a)
             \/ \E outcome \in {"completed", "parked", "raised"} : EndTurn(a, outcome)
             \/ Release(a) \/ Crash(a)
      PROVE  Files0!Next \/ UNCHANGED Files0!headVars
  <2>1. OtherSessions(a) /\ (Starts(a) \/ Opens(a) \/ Continues(a) \/ Leaves(a) \/ Ends(a))
    BY <1>1, <1>3, TurnSteps, ZenonT(60)
  <2>2. head' = head /\ damaged' = damaged
    BY <1>3, ZenonT(60) DEF Acquire, Take, TakeFails, Replace, EndTurn, Release, Crash
  <2> QED BY <1>2, <2>1, <2>2
<1>4. ASSUME NEW a \in Attempts, TakeLock(a) \/ LockFails(a) \/ Save(a) \/ SaveFails(a) \/ RecordFails(a) \/ Unlock(a)
      PROVE  Files0!Next \/ UNCHANGED Files0!headVars
  <2>1. OtherSessions(a) /\ (Continues(a) \/ Leaves(a))
    BY <1>1, <1>4, CloseSteps
  <2>2. head' = head /\ damaged' = damaged
    BY <1>4 DEF TakeLock, LockFails, Save, SaveFails, RecordFails, Unlock
  <2> QED BY <1>2, <2>1, <2>2
<1>5. ASSUME NEW a \in Attempts, Record(a)
      PROVE  Files0!Next \/ UNCHANGED Files0!headVars
  BY <1>5, RecordIs DEF Files0!Next
<1>6. ASSUME NEW a \in Attempts, ToolCall(a)
      PROVE  Files0!Next \/ UNCHANGED Files0!headVars
  <2>1. Edited(a) /\ head' = head /\ damaged' = damaged
    BY <1>1, <1>6, EditSteps, ZenonT(60) DEF ToolCall
  <2>2. \A b \in Attempts : b # a => Work(b)' = Work(b)
    BY <1>1, <2>1, OthersWork
  <2>3. Files0!Edit(a)
    BY <1>1, <2>1, <2>2, EditedWork, EditIs
  <2> QED BY <2>3 DEF Files0!Next
<1>7. ASSUME \/ \E i \in Boxes : RenewFails(i) \/ RenewLate(i) \/ Expire(i) \/ ReapKill(i) \/ KillFails(i)
             \/ LoseSnapshot \/ ReapList \/ ReapMark \/ ReaperCrashes \/ UNCHANGED vars
             \/ \E a \in Attempts : ExpireLock(a) \/ RenewLock(a)
      PROVE  Files0!Next \/ UNCHANGED Files0!headVars
  <2>1. Tended
    BY <1>1, <1>7, TendedSteps
  <2>2. head' = head /\ \A b \in Attempts : Work(b)' = Work(b)
    BY <1>1, <2>1, TendedWork DEF Tended
  <2>3. damaged' = damaged \/ damaged' = TRUE
    BY <1>7, ZenonT(60) DEF RenewFails, RenewLate, Expire, ReapKill, KillFails, LoseSnapshot, ReapList, ReapMark, ReaperCrashes,
       vars, ExpireLock, RenewLock
  <2>4. CASE damaged' = damaged
    BY <2>2, <2>4, Stutters
  <2>5. CASE damaged' = TRUE
    <3>1. [b \in Attempts |-> Work(b)]' = [b \in Attempts |-> Work(b)]
      BY <2>2
    <3>2. Files0!Damage
      BY <2>2, <2>5, <3>1 DEF Files0!Damage
    <3> QED BY <3>2 DEF Files0!Next
  <2> QED BY <2>3, <2>4, <2>5, ZenonT(60)
<1> QED BY <1>3, <1>4, <1>5, <1>6, <1>7, NextSplit

(* A task begins with no files and no work.                                *)
LEMMA InitRefines == Init => Files0!Init
<1> SUFFICES ASSUME Init PROVE Files0!Init
  OBVIOUS
<1>1. \A a \in Attempts : Work(a) = NoWork
  BY DEF Init, NoSession, Work
<1> QED BY <1>1 DEF Init, Files0!Init, Files0!NoWork, NoWork, Empty

(* The workspaces implement TaskHead: a save puts in what its own attempt  *)
(* changed and nothing else, for any number of attempts, files and         *)
(* sandboxes, however takes, locks, merges and records interleave and      *)
(* wherever a worker dies (sandbox.py _commit, merge_archives).            *)
THEOREM SavesAreWhole == Spec => ImplementsTaskHead
BY InitRefines, StepRefines, Invariant, PTL DEF Spec, ImplementsTaskHead, Files0!Spec

-----------------------------------------------------------------------------
(* What a turn reports about its work.                                     *)

(* A turn that saved and reports success has put its whole work into the   *)
(* snapshot its manifest names.                                            *)
LEMMA SavedWhatKept == Inv /\ SavedWhatItEdited /\ [Next]_vars => SavedWhatItEdited'
<1> SUFFICES ASSUME Inv, SavedWhatItEdited, [Next]_vars PROVE SavedWhatItEdited'
  OBVIOUS
<1> DEFINE Saved(a) ==
      session[a].pc = "unlock" /\ session[a].outcome \in {"completed", "parked"}
        /\ ~session[a].conflict /\ ~damaged
          => /\ ManifestId(a) \in manifests
             /\ \A f \in Files : Work(a)[f] # Same => session[a].ref[f] = Work(a)[f]
<1>1. TypeOK /\ Held /\ KilledDown /\ (damaged \/ Undamaged)
  BY DEF Inv
<1>2. manifests \subseteq manifests'
  <2>1. CASE Next
    BY <2>1, NextSplit, ZenonT(60) DEF Acquire, Take, TakeFails, Replace, ToolCall, EndTurn, TakeLock, LockFails,
       Save, SaveFails, Record, RecordFails, Unlock, Release, Crash, ExpireLock, RenewLock, RenewFails, RenewLate, Expire,
       ReapKill, KillFails, LoseSnapshot, ReapList, ReapMark, ReaperCrashes
  <2>2. CASE UNCHANGED vars
    BY <2>2 DEF vars
  <2> QED BY <2>1, <2>2
<1>3. damaged => damaged'
  BY <1>1, DamagedStays
<1>4. ASSUME NEW b \in Attempts, session'[b] = session[b], Work(b)' = Work(b)
      PROVE  Saved(b)'
  <2>1. Saved(b)
    BY DEF SavedWhatItEdited
  <2>2. ManifestId(b)' = ManifestId(b)
    BY <1>4 DEF ManifestId
  <2> QED BY <1>2, <1>3, <1>4, <2>1, <2>2
<1>5. ASSUME NEW b \in Attempts, session'[b].pc # "unlock" \/ session'[b].outcome = "failed"
      PROVE  Saved(b)'
  BY <1>5
<1>6. ASSUME NEW a \in Attempts, Saved(a)',
             \/ OtherSessions(a) /\ (Starts(a) \/ Opens(a) \/ Continues(a) \/ Leaves(a) \/ Ends(a))
             \/ Edited(a)
      PROVE  \A b \in Attempts : Saved(b)'
  BY <1>1, <1>4, <1>6, OthersWork, ZenonT(60)
<1>7. ASSUME NEW a \in Attempts,
             \/ Acquire(a) \/ Take(a) \/ TakeFails(a) \/ Replace(a)
             \/ \E outcome \in {"completed", "parked", "raised"} : EndTurn(a, outcome)
             \/ Release(a) \/ Crash(a)
      PROVE  \A b \in Attempts : Saved(b)'
  <2>1. OtherSessions(a) /\ (Starts(a) \/ Opens(a) \/ Continues(a) \/ Leaves(a) \/ Ends(a)) /\ session'[a].pc # "unlock"
    BY <1>1, <1>7, TurnSteps, ZenonT(60) DEF Starts, Opens, Ends
  <2> QED BY <1>5, <1>6, <2>1, ZenonT(60)
<1>8. ASSUME NEW a \in Attempts, TakeLock(a) \/ LockFails(a) \/ Save(a) \/ Unlock(a)
      PROVE  \A b \in Attempts : Saved(b)'
  <2>1. OtherSessions(a) /\ (Continues(a) \/ Leaves(a)) /\ session'[a].pc # "unlock"
    BY <1>1, <1>8, CloseSteps DEF Leaves
  <2> QED BY <1>5, <1>6, <2>1, ZenonT(60)
<1>9. ASSUME NEW a \in Attempts, SaveFails(a) \/ RecordFails(a)
      PROVE  \A b \in Attempts : Saved(b)'
  <2>1. OtherSessions(a) /\ Continues(a)
    BY <1>1, <1>9, CloseSteps, ZenonT(60)
  <2>2. session'[a] = [[session[a] EXCEPT !.pc = "unlock"] EXCEPT !.outcome = "failed"] /\ session[a] \in Sessions
    BY <1>1, <1>9, ZenonT(60) DEF SaveFails, RecordFails, Goes, TypeOK
  <2>3. session'[a].outcome = "failed"
    BY <2>2 DEF Sessions
  <2> QED BY <1>5, <1>6, <2>1, <2>3, ZenonT(60)
<1>10. ASSUME NEW a \in Attempts, Record(a)
       PROVE  \A b \in Attempts : Saved(b)'
  <2>1. OtherSessions(a) /\ Continues(a)
    BY <1>1, <1>10, CloseSteps, ZenonT(60)
  <2>2. session[a] \in Sessions /\ session \in [Attempts -> Sessions]
    BY <1>1 DEF TypeOK
  <2> DEFINE c == ManifestId(a) \in manifests
  <2>3. session' = [session EXCEPT ![a].pc = "unlock", ![a].conflict = c]
    BY <1>10 DEF Record
  <2> HIDE DEF c
  <2>4. session'[a] = [[session[a] EXCEPT !.pc = "unlock"] EXCEPT !.conflict = c]
    BY <2>2, <2>3
  <2>5. /\ session'[a].outcome = session[a].outcome /\ session'[a].version = session[a].version
        /\ session'[a].ref = session[a].ref /\ session'[a].conflict = c
    BY <2>2, <2>4 DEF Sessions
  <2>6. ManifestId(a)' = ManifestId(a)
    BY <2>5 DEF ManifestId
  <2>7. ~c => ManifestId(a) \in manifests'
    BY <1>10 DEF Record, c
  <2>8. Work(a)' = Work(a)
    BY <1>1, <2>1, OwnWork
  <2>9. damaged \/ \A f \in Files : Work(a)[f] # Same => session[a].ref[f] = Work(a)[f]
    BY <1>1, <1>10 DEF Undamaged, Record
  <2>10. Saved(a)'
    BY <1>3, <2>5, <2>6, <2>7, <2>8, <2>9
  <2> QED BY <1>6, <2>1, <2>10, ZenonT(60)
<1>11. ASSUME NEW a \in Attempts, ToolCall(a)
       PROVE  \A b \in Attempts : Saved(b)'
  <2>1. Edited(a) /\ session'[a].pc # "unlock"
    BY <1>1, <1>11, EditSteps, ZenonT(60) DEF Edited
  <2> QED BY <1>5, <1>6, <2>1, ZenonT(60)
<1>12. ASSUME \/ \E i \in Boxes : RenewFails(i) \/ RenewLate(i) \/ Expire(i) \/ ReapKill(i) \/ KillFails(i)
              \/ LoseSnapshot \/ ReapList \/ ReapMark \/ ReaperCrashes \/ UNCHANGED vars
              \/ \E a \in Attempts : ExpireLock(a) \/ RenewLock(a)
       PROVE  \A b \in Attempts : Saved(b)'
  <2>1. Tended
    BY <1>1, <1>12, TendedSteps
  <2>2. \A b \in Attempts : session'[b] = session[b] /\ Work(b)' = Work(b)
    BY <1>1, <2>1, TendedWork DEF Tended
  <2> QED BY <1>4, <2>2
<1>13. \A b \in Attempts : Saved(b)'
  BY <1>7, <1>8, <1>9, <1>10, <1>11, <1>12, NextSplit, ZenonT(60)
<1> QED BY <1>13 DEF SavedWhatItEdited

(* A run that used its workspace and reports that it completed or parked   *)
(* has saved every file it changed (sandbox.py _commit, task_activities.py *)
(* 687), for any constants.                                                *)
THEOREM ReportsWhatItSaved == Spec => []SavedWhatItEdited
<1>1. ASSUME Init  PROVE SavedWhatItEdited
  <2>1. \A a \in Attempts : session[a].pc = "start"
    BY <1>1 DEF Init, NoSession
  <2> QED BY <2>1 DEF SavedWhatItEdited
<1> QED BY <1>1, Invariant, SavedWhatKept, PTL DEF Spec
=============================================================================
