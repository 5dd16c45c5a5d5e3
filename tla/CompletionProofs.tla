-------------------------- MODULE CompletionProofs --------------------------
(***************************************************************************)
(* The staged completion check accepts exactly what meets the contract.    *)
(* Each check's set of failures is empty just when its part of `Meets`     *)
(* holds; the stages, and the stop at the first failure, then leave an     *)
(* empty set just when every part holds.                                   *)
(***************************************************************************)
EXTENDS Completion, TLAPS, WellFoundedInduction

\* The provers' time for a leaf, in seconds.
USE ZenonT(3), SMTT(30), ZenonT(60)

\* A set of naturals that is not empty has a first element: what the loops of _verify_commands and _verify_sop_steps stop at.
LEMMA FirstIsIn ==
  ASSUME NEW S \in SUBSET Nat, S # {}
  PROVE  First(S) \in S
<1> DEFINE less == {p \in Nat \X Nat : p[1] < p[2]}
<1>1. OpToRel(<, Nat) = less
  BY ZenonT(60) DEF OpToRel
<1>2. IsWellFoundedOn(less, Nat)
  BY <1>1, NatLessThanWellFounded, ZenonT(60)
<1> HIDE DEF less
<1>3. PICK i \in S : \A j \in S : ~(<<j, i>> \in less)
  BY <1>2, WFMin, ZenonT(60)
<1>4. \A j \in S : i <= j
  <2> TAKE j \in S
  <2>1. ~(<<j, i>> \in less) /\ <<j, i>> \in Nat \X Nat
    BY <1>3
  <2>2. ~(j < i)
    BY <2>1 DEF less
  <2> QED
    BY <2>2
<1> QED
  BY <1>4, ZenonT(60) DEF First

\* verify_schema finds nothing wrong just when there is no schema to check, or it can be used and the output satisfies it.
LEMMA SchemaPasses ==
  ASSUME NEW w, NEW ref, NEW output
  PROVE  verify_schema(w, ref, output) = {}
           <=> (ref # None => registry_get(w, ref) \notin {"unknown", "unusable"} /\ ref \in output)
BY DEF verify_schema

\* _entry_failures finds nothing wrong just when the blob is stored as the manifest says.
LEMMA EntryPasses ==
  ASSUME NEW w, NEW entry
  PROVE  entry_failures(w, entry) = {} <=> Intact(w, entry)
BY DEF entry_failures, Intact, artifact_blob_digest

\* verify_artifacts finds nothing wrong just when the manifest is there, whole, and has what is required.
LEMMA ArtifactsPass ==
  ASSUME NEW w, NEW contract, NEW id
  PROVE  verify_artifacts(w, id, contract.artifacts) = {} <=> ArtifactsHeld(w, contract, id)
<1> DEFINE entries == w.manifests[id].entries
           files == [i \in Files(w, id) |-> entries[i]]
<1>1. CASE id = None
  BY <1>1 DEF verify_artifacts, ArtifactsHeld
<1>2. CASE id # None /\ id \notin DOMAIN w.manifests
  BY <1>2 DEF verify_artifacts, ArtifactsHeld, get_manifest_missing
<1>3. CASE id # None /\ id \in DOMAIN w.manifests
  <2>1. \A r : {i \in DOMAIN files : files[i].name = r.name} = {i \in Files(w, id) : entries[i].name = r.name}
    OBVIOUS
  <2>2. \A r : requirement_failures(r, files) = {} <=> Cardinality({i \in Files(w, id) : entries[i].name = r.name}) >= r.min
    BY <2>1, ZenonT(60) DEF requirement_failures
  <2>3. \A i \in Files(w, id) : entry_failures(w, entries[i]) = {} <=> Intact(w, entries[i])
    BY EntryPasses
  <2>4. verify_artifacts(w, id, contract.artifacts)
          = (UNION {requirement_failures(r, files) : r \in contract.artifacts})
              \cup (UNION {entry_failures(w, entries[i]) : i \in Files(w, id)})
    BY <1>3 DEF verify_artifacts, get_manifest_missing
  <2>5. verify_artifacts(w, id, contract.artifacts) = {}
          <=> /\ \A r \in contract.artifacts : requirement_failures(r, files) = {}
              /\ \A i \in Files(w, id) : entry_failures(w, entries[i]) = {}
    <3> DEFINE rs == {requirement_failures(r, files) : r \in contract.artifacts}
               es == {entry_failures(w, entries[i]) : i \in Files(w, id)}
    <3>1. (\A r \in contract.artifacts : requirement_failures(r, files) = {}) <=> \A x \in rs : x = {}
      BY ZenonT(60)
    <3>2. (\A i \in Files(w, id) : entry_failures(w, entries[i]) = {}) <=> \A x \in es : x = {}
      BY ZenonT(60)
    <3>3. (UNION rs) \cup (UNION es) = {} <=> (\A x \in rs : x = {}) /\ \A x \in es : x = {}
      <4> HIDE DEF rs, es
      <4> QED
        BY ZenonT(60)
    <3>4. verify_artifacts(w, id, contract.artifacts) = {} <=> (UNION rs) \cup (UNION es) = {}
      BY <2>4, ZenonT(60)
    <3> QED
      BY <3>1, <3>2, <3>3, <3>4, ZenonT(60)
  <2> QED
    BY <1>3, <2>2, <2>3, <2>5, ZenonT(60) DEF ArtifactsHeld
<1> QED
  BY <1>1, <1>2, <1>3

\* verify_completion finds nothing wrong just when every schema the contract names is satisfied, the artifacts are there and every
\* verification is one that can be carried out.
LEMMA CompletionPasses ==
  ASSUME NEW w, NEW contract, NEW result
  PROVE  verify_completion(w, contract, result) = {}
           <=> /\ Checkable(contract)
               /\ \A ref \in SchemasNamed(contract) : registry_get(w, ref) \notin {"unknown", "unusable"} /\ ref \in result.output
               /\ ArtifactsHeld(w, contract, result.manifest)
<1> DEFINE good(ref) == registry_get(w, ref) \notin {"unknown", "unusable"} /\ ref \in result.output
           vs == contract.verifications
           fails(i) == verification_failures(w, contract, result.output, vs[i])
           sound(v) == /\ v.kind \in {"schema", "command", "sop_verifier"}
                       /\ v.kind = "command" => v.spec # None
                       /\ v.kind = "schema" => v.spec # None \/ contract.schema # None
<1>1. verify_completion(w, contract, result) = {}
        <=> /\ verify_schema(w, contract.schema, result.output) = {}
            /\ verify_artifacts(w, result.manifest, contract.artifacts) = {}
            /\ \A i \in DOMAIN vs : fails(i) = {}
  BY ZenonT(60) DEF verify_completion
<1>2. verify_schema(w, contract.schema, result.output) = {} <=> (contract.schema # None => good(contract.schema))
  BY SchemaPasses
<1>3. ASSUME NEW i \in DOMAIN vs, contract.schema # None => good(contract.schema)
      PROVE  fails(i) = {} <=> sound(vs[i]) /\ (vs[i].kind = "schema" /\ vs[i].spec # None => good(vs[i].spec))
  <2>1. \A ref : verify_schema(w, ref, result.output) = {} <=> (ref # None => good(ref))
    BY SchemaPasses
  <2> QED
    BY <1>3, <2>1 DEF verification_failures, command_spec
<1>4. Checkable(contract) <=> \A i \in DOMAIN vs : sound(vs[i])
  BY DEF Checkable, Verifications
<1>5. (\A ref \in SchemasNamed(contract) : good(ref))
        <=> /\ contract.schema # None => good(contract.schema)
            /\ \A i \in DOMAIN vs : vs[i].kind = "schema" /\ vs[i].spec # None => good(vs[i].spec)
  BY DEF SchemasNamed, Verifications
<1> QED
  BY <1>1, <1>2, <1>3, <1>4, <1>5, ArtifactsPass, ZenonT(60)

\* _verify_commands finds nothing wrong just when every command exits 0 on the snapshot of the manifest.
LEMMA CommandsAllPass ==
  ASSUME NEW w, NEW contract, NEW id, contract.verifications \in Seq([kind : STRING, spec : STRING])
  PROVE  verify_commands(w, contract, Snapshot(w, id)) = {} <=> CommandsPass(w, contract, id)
<1> DEFINE vs == contract.verifications
           fails(i) == verify_command(w, vs[i], Snapshot(w, id))
           failing == {i \in Of(contract, "command") : fails(i) # {}}
<1>1. failing \in SUBSET Nat
  BY DEF Of
<1>2. verify_commands(w, contract, Snapshot(w, id)) = {} <=> failing = {}
  BY <1>1, FirstIsIn, ZenonT(60) DEF verify_commands
<1>3. ASSUME NEW i \in DOMAIN vs
      PROVE  fails(i) = {} <=> /\ "verify_command" \notin w.down /\ w.exits[vs[i].spec] = "0"
                               /\ id # None /\ w.manifests[id].snapshot \in w.restorable \ {None}
  BY ZenonT(60) DEF verify_command, command_failures, Snapshot
<1> QED
  BY <1>2, <1>3, ZenonT(60) DEF CommandsPass, Verifications, Of

\* _verify_sop_steps finds nothing wrong just when every verifier answers PASS.
LEMMA StepsAllPass ==
  ASSUME NEW w, NEW contract, contract.verifications \in Seq([kind : STRING, spec : STRING])
  PROVE  verify_sop_steps(w, contract) = {} <=> StepsPass(w, contract)
<1> DEFINE vs == contract.verifications
           failing == {i \in Of(contract, "sop_verifier") : verify_sop_step(w, vs[i]) # {}}
<1>1. failing \in SUBSET Nat
  BY DEF Of
<1>2. verify_sop_steps(w, contract) = {} <=> failing = {}
  BY <1>1, FirstIsIn, ZenonT(60) DEF verify_sop_steps
<1>3. ASSUME NEW i \in DOMAIN vs
      PROVE  verify_sop_step(w, vs[i]) = {} <=> "verify_sop_step" \notin w.down /\ w.answers[vs[i].spec] = "PASS"
  BY ZenonT(60) DEF verify_sop_step, judge, parse_verdict, None
<1> QED
  BY <1>2, <1>3, ZenonT(60) DEF StepsPass, Verifications, Of

\* A node completes on its attempt's report exactly when the report meets the completion contract: whatever the contract asks for,
\* no check is passed over by the stages of _verify_proposal, by the stop at the first command or verifier that fails, by a schema
\* that counts as checked or by an activity that cannot run; and no report that meets the contract is refused.
THEOREM AcceptedExactlyWhenMet ==
  ASSUME NEW w, NEW contract, NEW result, contract.verifications \in Seq([kind : STRING, spec : STRING])
  PROVE  completion_rejections(w, contract, result) = {} <=> Meets(w, contract, result)
<1> DEFINE proposal == finished_proposal(result)
<1>1. verify_completion(w, contract, proposal) = {}
        <=> /\ Checkable(contract)
            /\ \A ref \in SchemasNamed(contract) : registry_get(w, ref) \notin {"unknown", "unusable"} /\ ref \in proposal.output
            /\ ArtifactsHeld(w, contract, proposal.manifest)
  BY CompletionPasses
<1>2. verify_commands(w, contract, Snapshot(w, proposal.manifest)) = {} <=> CommandsPass(w, contract, proposal.manifest)
  BY CommandsAllPass
<1>3. verify_sop_steps(w, contract) = {} <=> StepsPass(w, contract)
  BY StepsAllPass
<1>4. proposal.output = result.output /\ proposal.manifest = result.manifest
  BY DEF finished_proposal
<1>5. missing_result # {}
  BY DEF missing_result
<1>6. verify_proposal(w, contract, proposal) = {}
        <=> /\ "verify_completion" \notin w.down
            /\ verify_completion(w, contract, proposal) = {}
            /\ verify_commands(w, contract, Snapshot(w, proposal.manifest)) = {}
            /\ verify_sop_steps(w, contract) = {}
  <2> HIDE DEF proposal
  <2> QED
    BY DEF verify_proposal
<1> HIDE DEF proposal
<1>7. verify_proposal(w, contract, proposal) = {}
        <=> /\ "verify_completion" \notin w.down /\ Checkable(contract)
            /\ \A ref \in SchemasNamed(contract) : registry_get(w, ref) \notin {"unknown", "unusable"} /\ ref \in result.output
            /\ ArtifactsHeld(w, contract, result.manifest)
            /\ CommandsPass(w, contract, result.manifest)
            /\ StepsPass(w, contract)
  BY <1>1, <1>2, <1>3, <1>4, <1>6
<1> QED
  BY <1>5, <1>7 DEF completion_rejections, proposal, Meets
=============================================================================
