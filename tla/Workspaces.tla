----------------------------- MODULE Workspaces -----------------------------
(***************************************************************************)
(* The workspaces of one task.  Every run of an attempt works in a sandbox *)
(* of its own, a copy of the task's head snapshot (SandboxSession), under  *)
(* a lease row that a keepalive renews and the lease reaper looks at       *)
(* (PersistentWorkspaceAdapter, lease_reaper).  At its end it saves what   *)
(* it changed into the head, under the task's commit lock, by recording a  *)
(* manifest that names the snapshot (record_manifest), and gives the       *)
(* sandbox back.  The worker may die at every step.                        *)
(*                                                                         *)
(* A snapshot is content addressed: its reference is its content.  A       *)
(* file's content is named by the attempt that wrote it.  Time is not      *)
(* modelled: a lease that nobody renews may expire at any moment, one that *)
(* is renewed only when its worker or its store stalls, which is a fault.  *)
(* Faults (a worker's death, a failed database or docker call, a stall, a  *)
(* lost snapshot, an activity that raises) are bounded by MaxFaults.       *)
(***************************************************************************)
EXTENDS Naturals, FiniteSets

CONSTANTS
    Attempts,   \* the attempts of the task that use its workspace
    Files,      \* paths in the workspace
    Absent,     \* the content of a file that does not exist
    Same,       \* in an attempt's work: this file was not changed
    None,       \* no snapshot, no outcome
    Edits,      \* the changes tool calls make: <<attempt, file, content>>
    backend,    \* "local" or "docker": which adapter the workers use
    Boxes,      \* ids of sandboxes; the id of one that is gone is used again
    Outcomes,   \* Outcomes[a]: how turns of attempt a end, of "completed" and "parked"
    MaxParks,   \* MaxParks[a]: how often attempt a is resumed after it parked
    Faulty,     \* the attempts whose runs meet faults
    MaxFaults   \* bound on faults

Content == [Files -> Attempts \cup {Absent}]
Empty == [f \in Files |-> Absent]
NoWork == [f \in Files |-> Same]

ASSUME WorkspaceBounds ==
    /\ MaxParks \in [Attempts -> Nat] /\ MaxFaults \in Nat
    /\ Outcomes \in [Attempts -> SUBSET {"completed", "parked"}]
    /\ backend \in {"local", "docker"}
    /\ Boxes \subseteq Nat \ {0} /\ Faulty \subseteq Attempts
    /\ \A e \in Edits : e[1] \in Attempts /\ e[2] \in Files /\ e[3] \in {e[1], Absent}
    /\ None \notin Content /\ Same \notin Attempts \cup {Absent}

VARIABLES
    session,    \* session[a]: the SandboxSession of a's run, and where its close() stands
    box,        \* box[i]: a sandbox and its row in workspace_leases
    lock,       \* lock[a]: a's row on the task's own key, the commit lock
    head,       \* the newest snapshot a manifest of the task names
    manifests,  \* ids of the manifests recorded
    kept,       \* kept[a]: the result of the turn in the session store, which a retry returns without running
    lost,       \* snapshots the store does not have any more
    reaper,     \* the maintenance activity: what it listed, what it killed
    damaged,    \* history: a snapshot was lost, or the commit lock lapsed under its holder
    faults

vars == <<session, box, lock, head, manifests, kept, lost, reaper, damaged, faults>>

Versions == UNION {0..MaxParks[a] : a \in Attempts}

NoBox == [up |-> FALSE, lease |-> "expired", row |-> "none", renewal |-> "off", files |-> Empty]
NoSession == [pc |-> "start", ws |-> 0, base |-> None, start |-> Empty, ref |-> None,
              outcome |-> None, version |-> 0, conflict |-> FALSE]

InLock(a) == session[a].pc \in {"locked", "saved", "unlock"}
Holding(i) == {a \in Attempts : session[a].ws = i}

(* _require of the local adapter: the process' own lease has not expired   *)
(* and the directory is there.  _attach of the docker one trusts what the  *)
(* process knows; docker exec finds out whether the container is there.    *)
Require(i) == box[i].lease = "live" /\ box[i].up
Attach(i) == box[i].lease = "live"
Usable(i) == IF backend = "local" THEN Require(i) ELSE Attach(i) /\ box[i].up

(* What attempt a changed in the workspace it holds.                       *)
Work(a) ==
    IF session[a].ws = 0 \/ session[a].pc \in {"leased", "release"} THEN NoWork
    ELSE LET now == box[session[a].ws].files
         IN  [f \in Files |-> IF now[f] = session[a].start[f] THEN Same ELSE now[f]]

Sessions ==
    [pc : {"start", "leased", "open", "locking", "locked", "saved", "unlock", "release", "done"},
     ws : Boxes \cup {0}, base : Content \cup {None}, start : Content,
     ref : Content \cup {None}, outcome : {None, "completed", "parked", "failed", "raised"},
     version : Versions, conflict : BOOLEAN]

Sandboxes ==
    [up : BOOLEAN, lease : {"live", "expired"}, row : {"none", "live", "expired", "released", "dropped"},
     renewal : {"off", "idle", "sent"}, files : Content]

TypeOK ==
    /\ session \in [Attempts -> Sessions]
    /\ box \in [Boxes -> Sandboxes]
    /\ lock \in [Attempts -> {"none", "live", "expired"}]
    /\ head \in Content \cup {None}
    /\ manifests \subseteq (Attempts \X {"manifest", "workspace"} \X Versions)
    /\ kept \in [Attempts -> {None, "completed", "parked"}]
    /\ lost \subseteq Content
    /\ reaper \in [listed : SUBSET Boxes, locks : SUBSET Attempts, killed : SUBSET Boxes]
    /\ damaged \in BOOLEAN /\ faults \in 0..MaxFaults

Init ==
    /\ session = [a \in Attempts |-> NoSession]
    /\ box = [i \in Boxes |-> NoBox]
    /\ lock = [a \in Attempts |-> "none"]
    /\ head = None /\ manifests = {} /\ lost = {}
    /\ kept = [a \in Attempts |-> None]
    /\ reaper = [listed |-> {}, locks |-> {}, killed |-> {}]
    /\ damaged = FALSE /\ faults = 0

Fault(who) == who \cap Faulty # {} /\ faults < MaxFaults /\ faults' = faults + 1
Leave(a, outcome) ==   \* what the session knew is of no use any more
    session' = [session EXCEPT ![a] = [NoSession EXCEPT !.pc = "release", !.ws = session[a].ws, !.outcome = outcome,
                                                        !.version = session[a].version]]
Goes(a, to, outcome) == session' = [session EXCEPT ![a].pc = to, ![a].outcome = outcome]

(* The activity returns: a parked attempt is resumed with the next state   *)
(* version, an activity that raised is tried again with the same one.      *)
Report(a, outcome) ==
    /\ LET v == session[a].version
           resumed == outcome = "parked" /\ v < MaxParks[a]
       IN  session' = [session EXCEPT ![a] = [NoSession EXCEPT
                          !.pc = IF resumed \/ outcome = "raised" THEN "start" ELSE "done",
                          !.version = IF resumed THEN v + 1 ELSE v]]
    /\ kept' = [kept EXCEPT ![a] = IF outcome = "raised" THEN @ ELSE None]

-----------------------------------------------------------------------------
(* Taking a workspace.                                                     *)

(* A sandbox's id is free once the sandbox is gone, its row is closed, no  *)
(* session holds it and the reaper does not have it on its list.           *)
Free(i) ==
    /\ ~box[i].up /\ box[i].row \notin {"live", "expired"} /\ Holding(i) = {}
    /\ i \notin reaper.listed \cup reaper.killed

(* LocalWorkspaceAdapter.acquire makes the directory and the process'      *)
(* lease; DockerWorkspaceAdapter.acquire also starts the container.        *)
Leased == [NoBox EXCEPT !.up = TRUE, !.lease = "live"]

Acquire(a) ==
    /\ session[a].pc = "start"
    /\ \E i \in Boxes :
        /\ Free(i) /\ \A j \in Boxes : j < i => ~Free(j)
        /\ box' = [box EXCEPT ![i] = Leased]
        /\ session' = [session EXCEPT ![a].pc = "leased", ![a].ws = i]
    /\ UNCHANGED <<lock, head, manifests, kept, lost, reaper, damaged, faults>>

(* The snapshot the newest manifest of the task names.                     *)
latest_workspace_snapshot == head

(* load_snapshot, for a caller that goes on with nothing when there is     *)
(* none or the store lost it.                                              *)
Load(ref) == IF ref = None \/ ref \in lost THEN Empty ELSE ref

(* acquire_workspace_lease writes the row of the lease (its key holds the  *)
(* workspace id, so no other row can be in its way).                       *)
WithRow(b) == [b EXCEPT !.row = "live"]

(* Once the row is written, SandboxSession._take reads the head and        *)
(* unpacks it into the workspace.  A snapshot the store lost leaves it     *)
(* empty, and is the session's base all the same.  Then the keepalive      *)
(* starts.                                                                 *)
Take(a) ==
    /\ session[a].pc = "leased" /\ Usable(session[a].ws)
    /\ box' = [box EXCEPT ![session[a].ws] = [WithRow(@) EXCEPT !.files = Load(latest_workspace_snapshot), !.renewal = "idle"]]
    /\ session' = [session EXCEPT ![a].pc = "open", ![a].base = latest_workspace_snapshot,
                                     ![a].start = Load(latest_workspace_snapshot)]
    /\ UNCHANGED <<lock, head, manifests, kept, lost, reaper, damaged, faults>>

(* The adapter's release, and the row's.  The local directory always goes. *)
(* docker rm may fail: the container stays, and the row is released all    *)
(* the same (the finally of PersistentWorkspaceAdapter.release).           *)
Released == NoBox
RemoveFails(i) == backend = "docker" /\ box[i].up /\ Fault(Holding(i))
GiveBack(i) ==
    \/ box' = [box EXCEPT ![i] = Released] /\ UNCHANGED faults
    \/ RemoveFails(i) /\ box' = [box EXCEPT ![i].row = "dropped", ![i].renewal = "off", ![i].files = Empty]

(* The container does not start, the row cannot be written or the restore  *)
(* fails: what was acquired is released and the call raises.               *)
TakeFails(a) ==
    /\ session[a].pc = "leased"
    /\ Fault({a}) /\ box' = [box EXCEPT ![session[a].ws] = Released]
    /\ Report(a, "raised")
    /\ UNCHANGED <<lock, head, manifests, lost, reaper, damaged>>

-----------------------------------------------------------------------------
(* Working in it.  A retry of a turn that is in the session store does     *)
(* nothing in the workspace: run_turn returns the stored result.           *)

(* A tool call of the agent: Bash, Write or Edit through LeaseBackend.     *)
ToolCall(a) ==
    /\ session[a].pc = "open" /\ kept[a] = None /\ Usable(session[a].ws)
    /\ \E e \in Edits : e[1] = a /\ box' = [box EXCEPT ![session[a].ws].files[e[2]] = e[3]]
    /\ UNCHANGED <<session, lock, head, manifests, kept, lost, reaper, damaged, faults>>

(* LeaseBackend._run found the workspace gone: SandboxSession.replace      *)
(* cancels the keepalive, releases what is left (a failure is suppressed)  *)
(* and takes another; the call that found out is told of the loss.         *)
Replace(a) ==
    /\ session[a].pc = "open" /\ kept[a] = None /\ ~Usable(session[a].ws)
    /\ GiveBack(session[a].ws)
    /\ session' = [session EXCEPT ![a] = [NoSession EXCEPT !.version = session[a].version]]
    /\ UNCHANGED <<lock, head, manifests, kept, lost, reaper, damaged>>

(* The turn ends and its result is put into the session store; an activity *)
(* that raises (or is told to stop) has none.  close() cancels the         *)
(* keepalive before it saves.  A run that took no workspace saves nothing. *)
(* (A turn that fails saves as one that parks and is not resumed.)         *)
EndTurn(a, outcome) ==
    /\ session[a].pc \in {"start", "open"}
    /\ IF outcome = "raised" THEN Fault({a})
       ELSE kept[a] \in {None, outcome} /\ UNCHANGED faults
    /\ IF session[a].pc = "start" THEN Report(a, outcome) /\ UNCHANGED box
       ELSE /\ Goes(a, "locking", outcome) /\ box' = [box EXCEPT ![session[a].ws].renewal = "off"]
            /\ kept' = [kept EXCEPT ![a] = IF outcome = "raised" THEN @ ELSE outcome]
    /\ UNCHANGED <<lock, head, manifests, lost, reaper, damaged>>

-----------------------------------------------------------------------------
(* Saving: SandboxSession._commit under PersistentWorkspaceAdapter's       *)
(* commit_lock.                                                            *)

(* The row of the lock: own rows and expired ones are closed first, and    *)
(* another's live row keeps the caller waiting.  (Attempts of one worker   *)
(* queue on a lock of the process first: fewer interleavings, no others.)  *)
LockFree(a) ==
    \A b \in Attempts \ {a} : lock[b] # "live"

TakeLock(a) ==
    /\ session[a].pc = "locking" /\ LockFree(a)
    /\ lock' = [b \in Attempts |-> IF b = a THEN "live" ELSE "none"]
    /\ session' = [session EXCEPT ![a].pc = "locked"]
    /\ UNCHANGED <<box, head, manifests, kept, lost, reaper, damaged, faults>>

(* The wait budget is spent, or the store cannot be reached.               *)
LockFails(a) ==
    /\ session[a].pc = "locking"
    /\ IF LockFree(a) THEN Fault({a}) ELSE UNCHANGED faults
    /\ Leave(a, "failed")
    /\ UNCHANGED <<box, lock, head, manifests, kept, lost, reaper, damaged>>

(* merge_archives: the head with what differs from the base put in, and    *)
(* what the base has and the workspace has not taken out.                  *)
merge_archives(base, mine, latest) ==
    [f \in Files |->
        IF mine[f] # Absent /\ mine[f] # base[f] THEN mine[f]
        ELSE IF mine[f] = Absent /\ base[f] # Absent THEN Absent
        ELSE latest[f]]

(* The workspace as it is, whether or not the head has moved.              *)
SnapshotUnmerged(a) == box[session[a].ws].files

(* The workspace as it is when the head has not moved or is lost; merged   *)
(* into it otherwise.  A base the store lost counts as empty.              *)
Snapshot(a) ==
    LET mine == box[session[a].ws].files
        base == session[a].base
        latest == latest_workspace_snapshot
    IN  IF latest = base \/ latest \in lost THEN mine
        ELSE merge_archives(Load(base), mine, latest)

(* save_snapshot stores an archive by its content, again if it was lost.   *)
Stored(ref) == lost \ {ref}

(* _commit reads the head and stores the next one.                         *)
Save(a) ==
    /\ session[a].pc = "locked" /\ Usable(session[a].ws)
    /\ session' = [session EXCEPT ![a].pc = "saved", ![a].ref = Snapshot(a)]
    /\ lost' = Stored(Snapshot(a))
    /\ UNCHANGED <<box, lock, head, manifests, kept, reaper, damaged, faults>>

(* A save that failed does not fail the turn.                              *)
SaveFailsUnseen(a) ==
    /\ session[a].pc = "locked"
    /\ IF Usable(session[a].ws) THEN Fault({a}) ELSE UNCHANGED faults
    /\ session' = [session EXCEPT ![a].pc = "unlock"]
    /\ UNCHANGED <<box, lock, head, manifests, kept, lost, reaper, damaged>>

SaveFails(a) ==
    /\ session[a].pc = "locked"
    /\ IF Usable(session[a].ws) THEN Fault({a}) ELSE UNCHANGED faults
    /\ Goes(a, "unlock", "failed")
    /\ UNCHANGED <<box, lock, head, manifests, kept, lost, reaper, damaged>>

(* record_manifest: the announced id of a turn that completed, one id per  *)
(* state version otherwise.  put_manifest leaves an existing row alone.    *)
ManifestId(a) ==
    IF session[a].outcome = "completed" THEN <<a, "manifest", 0>> ELSE <<a, "workspace", session[a].version>>

Record(a) ==
    /\ session[a].pc = "saved"
    /\ IF ManifestId(a) \in manifests THEN UNCHANGED <<head, manifests>>
       ELSE head' = session[a].ref /\ manifests' = manifests \cup {ManifestId(a)}
    /\ session' = [session EXCEPT ![a].pc = "unlock", ![a].conflict = ManifestId(a) \in manifests]
    /\ UNCHANGED <<box, lock, kept, lost, reaper, damaged, faults>>

RecordFails(a) ==
    /\ session[a].pc = "saved" /\ Fault({a})
    /\ Goes(a, "unlock", "failed")
    /\ UNCHANGED <<box, lock, head, manifests, kept, lost, reaper, damaged>>

release_workspace_lease(a) == [lock EXCEPT ![a] = "none"]

(* The lock's row is released; a store that fails leaves it to expire, and *)
(* fails the save.                                                         *)
Unlock(a) ==
    /\ session[a].pc = "unlock"
    /\ \/ lock' = release_workspace_lease(a) /\ UNCHANGED faults /\ Leave(a, session[a].outcome)
       \/ Fault({a}) /\ UNCHANGED lock /\ Leave(a, "failed")
    /\ UNCHANGED <<box, head, manifests, kept, lost, reaper, damaged>>

(* The finally of close(), and the return of the activity.  A release that *)
(* fails makes close() raise: agent_turn reports that, not its outcome.    *)
Release(a) ==
    /\ session[a].pc = "release"
    /\ GiveBack(session[a].ws)
    /\ Report(a, IF faults' # faults THEN "failed" ELSE session[a].outcome)
    /\ UNCHANGED <<lock, head, manifests, lost, reaper, damaged>>

-----------------------------------------------------------------------------
(* Leases, the reaper and faults.                                          *)

(* A retry that came with the next state version.                          *)
CrashNextVersion(a) ==
    /\ session[a].pc \notin {"start", "done"} /\ Fault({a})
    /\ session' = [session EXCEPT ![a] = [NoSession EXCEPT !.version = session[a].version + 1]]
    /\ box' = [box EXCEPT ![session[a].ws].renewal = "off", ![session[a].ws].lease = "expired",
                          ![session[a].ws].files = Empty]
    /\ UNCHANGED <<lock, head, manifests, kept, lost, reaper, damaged>>

(* The worker dies, and Temporal starts the activity again.  Sandboxes,    *)
(* rows and snapshots stay as they are.                                    *)
Crash(a) ==
    /\ session[a].pc \notin {"start", "done"} /\ Fault({a})
    /\ session' = [session EXCEPT ![a] = [NoSession EXCEPT !.version = session[a].version]]
    /\ box' = [box EXCEPT ![session[a].ws].renewal = "off", ![session[a].ws].lease = "expired",
                          ![session[a].ws].files = Empty]
    /\ UNCHANGED <<lock, head, manifests, kept, lost, reaper, damaged>>

(* Renewing the adapter's own lease.                                       *)
Renewable(i) == IF backend = "local" THEN Require(i) ELSE Attach(i)

(* keep_lease_alive renews that lease and then the row, if nobody has      *)
(* released it.  A failure of either ends the renewing.  A renewal that is *)
(* in time changes nothing here; one that is late is "sent": the row has   *)
(* expired before the store got to it.                                     *)
RenewFails(i) ==
    /\ box[i].renewal # "off"
    /\ IF Renewable(i) THEN Fault(Holding(i)) ELSE UNCHANGED faults
    /\ box' = [box EXCEPT ![i].renewal = "off"]
    /\ UNCHANGED <<session, lock, head, manifests, kept, lost, reaper, damaged>>

RenewLate(i) ==
    /\ box[i].renewal = "sent"
    /\ box' = [box EXCEPT ![i].renewal = "idle", ![i].row = IF @ = "expired" THEN "live" ELSE @]
    /\ UNCHANGED <<session, lock, head, manifests, kept, lost, reaper, damaged, faults>>

(* The ttl of a sandbox's lease passes.  While the holder renews it that   *)
(* takes a stall: of the worker, or of the store while a renewal of the    *)
(* row is on its way (the process' own lease is renewed by then).          *)
Expire(i) ==
    /\ "live" \in {box[i].lease, box[i].row}
    /\ IF Holding(i) = {} \/ (box[i].renewal = "off" /\ \A a \in Holding(i) : session[a].pc = "open")
         THEN UNCHANGED faults ELSE Fault(Holding(i))
    /\ \E sent \in {box[i].renewal = "idle" /\ box[i].row = "live", FALSE} :
        box' = [box EXCEPT ![i].lease = IF sent THEN @ ELSE "expired", ![i].row = IF @ = "live" THEN "expired" ELSE @,
                           ![i].renewal = IF sent THEN "sent" ELSE @]
    /\ UNCHANGED <<session, lock, head, manifests, kept, lost, reaper, damaged>>

(* The same for the commit lock: its holder renews it while it saves.      *)
ExpireLock(a) ==
    /\ lock[a] = "live"
    /\ IF InLock(a) THEN Fault({a}) /\ damaged' = TRUE ELSE UNCHANGED <<faults, damaged>>
    /\ lock' = [lock EXCEPT ![a] = "expired"]
    /\ UNCHANGED <<session, box, head, manifests, kept, lost, reaper>>

RenewLock(a) ==
    /\ InLock(a) /\ lock[a] = "expired"
    /\ lock' = [lock EXCEPT ![a] = "live"]
    /\ UNCHANGED <<session, box, head, manifests, kept, lost, reaper, damaged, faults>>

LoseSnapshot ==
    /\ Fault(Attempts)
    /\ \E ref \in ({head} \cup {session[a].base : a \in Attempts}) \ ({None} \cup lost) : lost' = lost \cup {ref}
    /\ damaged' = TRUE
    /\ UNCHANGED <<session, box, lock, head, manifests, kept, reaper>>

(* reap_leases: list the expired rows, kill their sandboxes one by one,    *)
(* close the rows of those that were killed if they are still expired.  A  *)
(* commit lock's row names no sandbox: killing it is a no-op.              *)
Idle == reaper = [listed |-> {}, locks |-> {}, killed |-> {}]

(* The query finds the commit locks only.                                  *)
ReapListLocks ==
    /\ Idle
    /\ reaper' = [listed |-> {}, locks |-> {a \in Attempts : lock[a] = "expired"}, killed |-> {}]
    /\ reaper' # reaper
    /\ UNCHANGED <<session, box, lock, head, manifests, kept, lost, damaged, faults>>

ReapList ==
    /\ Idle
    /\ reaper' = [listed |-> {i \in Boxes : box[i].row = "expired"},
                  locks |-> {a \in Attempts : lock[a] = "expired"}, killed |-> {}]
    /\ reaper' # reaper
    /\ UNCHANGED <<session, box, lock, head, manifests, kept, lost, damaged, faults>>

Killed(i) == [box[i] EXCEPT !.up = FALSE]

ReapKill(i) ==
    /\ i \in reaper.listed
    /\ box' = [box EXCEPT ![i] = Killed(i)]
    /\ reaper' = [reaper EXCEPT !.listed = @ \ {i}, !.killed = @ \cup {i}]
    /\ UNCHANGED <<session, lock, head, manifests, kept, lost, damaged, faults>>

(* A sandbox that could not be killed is marked all the same.              *)
KillFailsUnseen(i) ==
    /\ i \in reaper.listed /\ backend = "docker" /\ box[i].up
    /\ reaper' = [reaper EXCEPT !.listed = @ \ {i}, !.killed = @ \cup {i}]
    /\ UNCHANGED <<session, box, lock, head, manifests, kept, lost, damaged, faults>>

(* A sandbox that could not be killed keeps its row.  This is no fault of  *)
(* the bounded ones: the next tick tries again, as often as it takes.      *)
KillFails(i) ==
    /\ i \in reaper.listed /\ backend = "docker" /\ box[i].up
    /\ reaper' = [reaper EXCEPT !.listed = @ \ {i}]
    /\ UNCHANGED <<session, box, lock, head, manifests, kept, lost, damaged, faults>>

ReapMark ==
    /\ ~Idle /\ reaper.listed = {}
    /\ box' = [i \in Boxes |-> IF i \in reaper.killed /\ box[i].row = "expired"
                                 THEN IF Holding(i) = {} THEN NoBox ELSE [box[i] EXCEPT !.row = "released"]
                                 ELSE box[i]]
    /\ lock' = [a \in Attempts |-> IF a \in reaper.locks /\ lock[a] = "expired" THEN "none" ELSE lock[a]]
    /\ reaper' = [listed |-> {}, locks |-> {}, killed |-> {}]
    /\ UNCHANGED <<session, head, manifests, kept, lost, damaged, faults>>

ReaperCrashes ==
    /\ ~Idle
    /\ reaper' = [listed |-> {}, locks |-> {}, killed |-> {}]
    /\ UNCHANGED <<session, box, lock, head, manifests, kept, lost, damaged, faults>>

-----------------------------------------------------------------------------
(* What a run does without anything going wrong.                           *)
Step(a) ==
    \/ Acquire(a) \/ Take(a) \/ TakeFails(a) \/ Replace(a)
    \/ \E outcome \in Outcomes[a] : EndTurn(a, outcome)
    \/ TakeLock(a) \/ LockFails(a) \/ Save(a) \/ SaveFails(a)
    \/ Record(a) \/ Unlock(a) \/ Release(a)

Done == \A a \in Attempts : session[a].pc = "done"

Next ==
    \/ \E a \in Attempts :
        \/ Step(a) \/ ToolCall(a) \/ EndTurn(a, "raised") \/ RecordFails(a)
        \/ Crash(a) \/ ExpireLock(a) \/ RenewLock(a)
    \/ \E i \in Boxes : RenewFails(i) \/ RenewLate(i) \/ Expire(i) \/ ReapKill(i) \/ KillFails(i)
    \/ LoseSnapshot \/ ReapList \/ ReapMark \/ ReaperCrashes

(* A turn ends: the activity has a time limit (AGENT_TIMEOUT).  The other  *)
(* steps of a run are its own code.  The reaper is a Temporal schedule,    *)
(* and a kill that is tried again and again succeeds in the end.  A lease  *)
(* that nobody renews expires.                                             *)
Fairness ==
    /\ \A a \in Attempts : WF_vars(Step(a))
    /\ WF_vars(\E i \in Boxes : Holding(i) = {} /\ Expire(i))
    /\ WF_vars(ReapList \/ ReapMark)
    /\ SF_vars(\E i \in Boxes : ReapKill(i))

Spec == Init /\ [][Next]_vars /\ Fairness

-----------------------------------------------------------------------------
(* The task's files are what TaskHead promises: a save puts in what its    *)
(* own attempt changed and nothing else, however the attempts' takes,      *)
(* locks, merges and records interleave and wherever a worker dies.        *)
Files0 == INSTANCE TaskHead WITH
    head <- IF head = None THEN Empty ELSE head,
    work <- [a \in Attempts |-> Work(a)]

ImplementsTaskHead == Files0!Spec

(* A run that used its workspace and reports that it completed or parked   *)
(* has saved every file it changed and was not told it lost (sandbox.py    *)
(* _commit, task_activities.py 687).  The exceptions are a state version   *)
(* that already has a manifest (put_manifest keeps the older one) and the  *)
(* damage TaskHead excludes.                                               *)
SavedWhatItEdited ==
    \A a \in Attempts :
        session[a].pc = "unlock" /\ session[a].outcome \in {"completed", "parked"}
          /\ ~session[a].conflict /\ ~damaged
            => /\ ManifestId(a) \in manifests
               /\ \A f \in Files : Work(a)[f] # Same => session[a].ref[f] = Work(a)[f]

(* The reaper closes a lease's row only when the sandbox is gone           *)
(* (lease_reaper.py 3-7): a sandbox that is up can still be found by its   *)
(* row, unless giving it back failed at its holder.                        *)
RowOutlivesSandbox == \A i \in Boxes : box[i].up => box[i].row # "released"

(* Every sandbox whose lease has a row goes away in the end, whoever died  *)
(* holding it (08 1, G6), or its holder's docker rm failed.                *)
Reclaimed ==
    \A i \in Boxes :
        box[i].up /\ box[i].row \in {"live", "expired"} ~> ~box[i].up \/ box[i].row = "dropped"
=============================================================================
