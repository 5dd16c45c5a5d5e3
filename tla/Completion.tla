---------------------------- MODULE Completion ----------------------------
(***************************************************************************)
(* The check of a completion (verify.py, verify_activities.py,             *)
(* verify_sop.py, and their order in TaskCompletion._verify_proposal): an  *)
(* attempt reports that its node is done, and the node's completion        *)
(* contract says what must hold for that.                                  *)
(*                                                                         *)
(*   a contract   [schema, artifacts, verifications]: the schema of the    *)
(*                output, the artifacts required ([name, min]; a name      *)
(*                stands for a name and a media type), and further         *)
(*                verifications, a sequence of [kind, spec]                *)
(*   a result     [reported, output, manifest]: whether there is one, the  *)
(*                schemas its output satisfies, and its artifact manifest  *)
(*   a world w    what the services the check asks hold and answer:        *)
(*                schemas, manifests, blobs, the snapshots that can be     *)
(*                restored, how commands exit, what verifiers answer, and  *)
(*                the activities that cannot run (`down`)                  *)
(*                                                                         *)
(* Failures are sets of codes: their wording, order and number are left    *)
(* out.                                                                    *)
(***************************************************************************)
EXTENDS Integers, Sequences, FiniteSets

None == "none"
NoSize == -1

EmptyContract == [schema |-> None, artifacts |-> {}, verifications |-> <<>>]

-----------------------------------------------------------------------------
(* verify_completion, the checks that only read. *)

\* DirectorySchemaRegistry.get: a schema that is not registered, cannot be used, or can.
registry_get(w, ref) == IF ref \in DOMAIN w.schemas THEN w.schemas[ref] ELSE "unknown"

verify_schema(w, ref, output) ==
  IF ref = None THEN {}
  ELSE IF registry_get(w, ref) = "unusable" THEN {"schema_invalid"}
  ELSE IF registry_get(w, ref) = "unknown" THEN {"schema_unknown"}
  ELSE IF ref \in output THEN {} ELSE {"schema_violation"}

requirement_failures(requirement, entries) ==
  IF Cardinality({i \in DOMAIN entries : entries[i].name = requirement.name}) >= requirement.min THEN {} ELSE {"artifact_missing"}

\* What is stored for a blob is read back, hashed and measured; nothing is stored for some.
artifact_blob_digest(w, blob) == IF blob \in DOMAIN w.blobs THEN w.blobs[blob] ELSE [digest |-> None, size |-> NoSize]

entry_failures(w, entry) ==
  LET stored == artifact_blob_digest(w, entry.blob)
  IN IF entry.blob = None THEN {"artifact_blob_ref_invalid"}
     ELSE IF stored.digest = None THEN {"artifact_blob_missing"}
     ELSE IF stored.digest # entry.blob THEN {"artifact_hash_mismatch"}
     ELSE IF entry.size # NoSize /\ entry.size # stored.size THEN {"artifact_size_mismatch"}
     ELSE {}

\* An entry without a name records files that a limit left out.
Files(w, id) == {i \in DOMAIN w.manifests[id].entries : w.manifests[id].entries[i].name # None}

get_manifest_missing(w, id) == id \notin DOMAIN w.manifests

verify_artifacts(w, id, required) ==
  IF id = None THEN IF required # {} THEN {"manifest_missing"} ELSE {}
  ELSE IF get_manifest_missing(w, id) THEN {"manifest_missing"}
  ELSE LET entries == w.manifests[id].entries
       IN (UNION {requirement_failures(r, [i \in Files(w, id) |-> entries[i]]) : r \in required})
            \cup (UNION {entry_failures(w, entries[i]) : i \in Files(w, id)})

Snapshot(w, id) == IF id = None THEN None ELSE w.manifests[id].snapshot

\* A command needs a usable text and timeout; None stands for any other.
command_spec(v) == IF v.spec = None THEN {"verification_spec_invalid"} ELSE {}

\* A schema that was checked already is not checked again: it would only fail in the same way.
verification_failures(w, contract, output, v) ==
  LET ref == IF v.spec # None THEN v.spec ELSE contract.schema
  IN IF v.kind = "schema" THEN IF ref = None THEN {"verification_spec_invalid"}
                               ELSE IF ref = contract.schema THEN {} ELSE verify_schema(w, ref, output)
     ELSE IF v.kind = "command" THEN command_spec(v)
     ELSE IF v.kind = "sop_verifier" THEN {}
     ELSE {"verification_unsupported"}

verify_completion(w, contract, proposal) ==
  verify_schema(w, contract.schema, proposal.output)
    \cup verify_artifacts(w, proposal.manifest, contract.artifacts)
    \cup UNION {verification_failures(w, contract, proposal.output, contract.verifications[i]) : i \in DOMAIN contract.verifications}

-----------------------------------------------------------------------------
(* The checks that run something: commands on the snapshot, and the verifier of an SOP's step. *)

command_failures(exit) ==
  IF exit = "timeout" THEN {"command_timeout"} ELSE IF exit # "0" THEN {"command_failed"} ELSE {}

\* The snapshot is restored into a workspace of its own.
verify_command(w, v, snapshot) ==
  IF "verify_command" \in w.down THEN {"verification_unavailable"}
  ELSE IF snapshot = None \/ snapshot \notin w.restorable THEN {"workspace_snapshot_unavailable"}
  ELSE command_failures(w.exits[v.spec])

\* Only a clear PASS accepts.
parse_verdict(answer) == answer = "PASS"

\* A verifier that ends otherwise than by answering ("none") gave no verdict.
judge(w, v) ==
  IF w.answers[v.spec] = None THEN {"sop_verifier_inconclusive"}
  ELSE IF parse_verdict(w.answers[v.spec]) THEN {} ELSE {"sop_step_failed"}

verify_sop_step(w, v) == IF "verify_sop_step" \in w.down THEN {"verification_unavailable"} ELSE judge(w, v)

Of(contract, kind) == {i \in DOMAIN contract.verifications : contract.verifications[i].kind = kind}
First(S) == CHOOSE i \in S : \A j \in S : i <= j

\* One after the other, up to the first that fails.
verify_commands(w, contract, snapshot) ==
  LET failing == {i \in Of(contract, "command") : verify_command(w, contract.verifications[i], snapshot) # {}}
  IN IF failing = {} THEN {} ELSE verify_command(w, contract.verifications[First(failing)], snapshot)

verify_sop_steps(w, contract) ==
  LET failing == {i \in Of(contract, "sop_verifier") : verify_sop_step(w, contract.verifications[i]) # {}}
  IN IF failing = {} THEN {} ELSE verify_sop_step(w, contract.verifications[First(failing)])

-----------------------------------------------------------------------------
\* A stage that refuses is the last; an activity that cannot run refuses too.
verify_proposal(w, contract, proposal) ==
  IF "verify_completion" \in w.down THEN {"verification_unavailable"}
  ELSE IF verify_completion(w, contract, proposal) # {} THEN verify_completion(w, contract, proposal)
  ELSE IF verify_commands(w, contract, Snapshot(w, proposal.manifest)) # {}
    THEN verify_commands(w, contract, Snapshot(w, proposal.manifest))
  ELSE verify_sop_steps(w, contract)

\* The report is checked like a proposal of the same output and manifest.
finished_proposal(result) == [output |-> result.output, manifest |-> result.manifest]
missing_result == {"attempt_result_missing"}

completion_rejections(w, contract, result) ==
  IF ~result.reported THEN missing_result ELSE verify_proposal(w, contract, finished_proposal(result))

-----------------------------------------------------------------------------
(* What a completion that is accepted must be, stated without the order of the checks. *)

Verifications(contract) == {contract.verifications[i] : i \in DOMAIN contract.verifications}

\* The schemas a contract names, in one way or the other.
SchemasNamed(contract) ==
  ({contract.schema} \cup {v.spec : v \in {u \in Verifications(contract) : u.kind = "schema"}}) \ {None}

Intact(w, entry) ==
  /\ entry.blob # None /\ entry.blob \in DOMAIN w.blobs /\ w.blobs[entry.blob].digest = entry.blob
  /\ entry.size \in {NoSize, w.blobs[entry.blob].size}

\* The contract names only checks there are and says what they need.
Checkable(contract) ==
  \A v \in Verifications(contract) :
    /\ v.kind \in {"schema", "command", "sop_verifier"}
    /\ v.kind = "command" => v.spec # None
    /\ v.kind = "schema" => v.spec # None \/ contract.schema # None

ArtifactsHeld(w, contract, id) ==
  /\ id = None => contract.artifacts = {}
  /\ id # None => /\ id \in DOMAIN w.manifests
                  /\ \A i \in Files(w, id) : Intact(w, w.manifests[id].entries[i])
                  /\ \A r \in contract.artifacts :
                       Cardinality({i \in Files(w, id) : w.manifests[id].entries[i].name = r.name}) >= r.min

CommandsPass(w, contract, id) ==
  \A v \in Verifications(contract) : v.kind = "command" =>
    /\ "verify_command" \notin w.down /\ w.exits[v.spec] = "0"
    /\ id # None /\ w.manifests[id].snapshot \in w.restorable \ {None}

StepsPass(w, contract) ==
  \A v \in Verifications(contract) : v.kind = "sop_verifier" => "verify_sop_step" \notin w.down /\ w.answers[v.spec] = "PASS"

Meets(w, contract, result) ==
  /\ result.reported /\ "verify_completion" \notin w.down
  /\ Checkable(contract)
  /\ \A ref \in SchemasNamed(contract) : registry_get(w, ref) \notin {"unknown", "unusable"} /\ ref \in result.output
  /\ ArtifactsHeld(w, contract, result.manifest)
  /\ CommandsPass(w, contract, result.manifest)
  /\ StepsPass(w, contract)
=============================================================================
