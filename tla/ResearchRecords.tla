--------------------------- MODULE ResearchRecords ---------------------------
(***************************************************************************)
(* A research record: the trace of a plan run, the evidence that left it,  *)
(* the public half compiled from the two, the certificate of a replay, and *)
(* the bundle that is signed, written to files and checked by a reader.    *)
(*                                                                         *)
(* A digest, a commitment, a signature and the report are the value they   *)
(* are taken over, so two are equal just when those values are; a private  *)
(* commitment and a signature hold their key.  A list the code sorts is a  *)
(* set.  What is absent is {}, what is there {x}.                          *)
(***************************************************************************)
EXTENDS TraceRecorder, SequencesExt, Functions

Only(maybe) == CHOOSE x \in maybe : TRUE
Concat(seqs) == FoldLeft(LAMBDA all, s : all \o s, <<>>, seqs)

-----------------------------------------------------------------------------
(* The private trace                                                        *)

\* build_manifests, from the code, policy, study and tables at hand.
Manifests(c) ==
    [software |-> [version |-> c.code, registry |-> <<c.code, c.study>>, catalogue |-> c.study,
                   policy |-> c.policy, tools |-> <<c.code, c.study, c.policy>>],
     dataset |-> [name |-> c.study, snapshot |-> c.snapshot, custodian |-> c.custodian,
                  commitment |-> [of |-> c.tables, key |-> c.key]],
     disclosure |-> [policy |-> c.policy, tools |-> <<c.code, c.study, c.policy>>]]

\* Manifests.replay_semantics: what a replay may not differ in.
ReplaySemantics(m) ==
    [software |-> m.software, snapshot |-> m.dataset.snapshot, commitment |-> m.dataset.commitment]

\* The record of a stage with all its fields: the committed spec, the spec that ran,
\* commitments to the tables released, and what only the inside may know.
PrivateStage(base, k, declared, result) ==
    base @@ [id |-> k, kind |-> declared.kind, spec |-> declared.spec, commits |-> result.tables,
             executed |-> declared.spec \cup result.excluded,
             excluded |-> result.excluded, message |-> result.message]

\* trace_from_plan_run, as PrivateExecutionTrace.
PrivateTrace(log, verified, plan, results, context, user) ==
    LET trace == Trace(log, verified, plan, plan, results) IN
    [id |-> [plan |-> plan, semantics |-> ReplaySemantics(Manifests(context))],
     planRef |-> IF trace.plan THEN {plan} ELSE {},
     committed |-> IF trace.plan THEN {plan} ELSE {},
     plan |-> trace.plan, verified |-> trace.verified, manifests |-> Manifests(context), user |-> user,
     stages |-> [k \in DOMAIN plan |-> PrivateStage(trace.stages[k], k, plan[k], results[k])]]

-----------------------------------------------------------------------------
(* Evidence                                                                 *)

ValueColumns == {"value", "mean", "estimate"}
SizeColumns == {"n", "n_donors"}

\* identity_digest: neither the label of the figure nor the audit row is part of it.
Identity(e) == [kind |-> e.kind, stage |-> e.stage, keys |-> e.keys, values |-> e.values]

\* _finish.
Finish(kind, stage, keys, values) ==
    LET draft == [kind |-> kind, stage |-> stage.id, keys |-> keys, values |-> values,
                  audit |-> stage.audit, label |-> {}]
    IN  draft @@ [id |-> Identity(draft)]

WithColumns(kind, stage, row, values) ==
    Finish(kind, stage, Restrict(row, DOMAIN row \ values), Restrict(row, DOMAIN row \cap values))

FromAggregate(stage, rows) ==
    [i \in DOMAIN rows |->
        WithColumns("GroupStatistic", stage, rows[i], ValueColumns \cup SizeColumns)]

FromCoefficients(stage, rows) ==
    [i \in DOMAIN rows |->
        WithColumns(IF {"ci_low", "ci_high"} \subseteq DOMAIN rows[i]
                    THEN "ConfidenceInterval" ELSE "ModelCoefficient",
                    stage, rows[i], DOMAIN rows[i] \ {"term", "level"})]

FromFitBlock(stage, rows) ==
    [i \in DOMAIN rows |-> WithColumns("ModelFit", stage, rows[i], DOMAIN rows[i])]

NotAnswerable(stage) == Finish("NotAnswerable", stage, [reason |-> "nothing released"], <<>>)

ArtifactOrder == <<"cells", "model">>
RowsIn(tables, name) == IF name \in DOMAIN tables THEN tables[name] ELSE <<>>

\* extract.
Extract(stage, tables, withRefused) ==
    IF ~Released(stage.status) THEN (IF withRefused THEN <<NotAnswerable(stage)>> ELSE <<>>)
    ELSE IF stage.kind = "model"
    THEN FromCoefficients(stage, RowsIn(tables, "output"))
           \o FromAggregate(stage, RowsIn(tables, "cells"))
           \o FromFitBlock(stage, RowsIn(tables, "model"))
    ELSE FromAggregate(stage, RowsIn(tables, "output"))
           \o Concat([i \in DOMAIN ArtifactOrder |-> FromAggregate(stage, RowsIn(tables, ArtifactOrder[i]))])

\* extract_run, which raises when two items share an id.
ExtractRun(trace, results, withRefused) ==
    Concat([k \in DOMAIN results |-> Extract(trace.stages[k], results[k].tables, withRefused)])
Distinguished(evidence) == IsInjective([i \in DOMAIN evidence |-> evidence[i].id])

-----------------------------------------------------------------------------
(* The public half                                                          *)

NodeKeys == {"id", "kind", "spec", "input", "replay", "label"}

CitedItems(evidence) == {e \in Range(evidence) : e.kind # "NotAnswerable"}
StagesOf(items) == {e.stage : e \in items}

\* _node, with the dependencies of no public stage pruned.
Node(stage, published) ==
    [Restrict(stage, NodeKeys) EXCEPT !.input = IF @ \in published THEN @ ELSE 0]
        @@ [artifacts |-> stage.commits]

\* analysis_classification: the weakest label, and the weaker one of nothing.
Classification(trace, cited) ==
    IF cited # {} /\ \A k \in cited : trace.stages[k].label
    THEN "TRE_PRECOMMITTED" ELSE "EXPLORATORY_POSTHOC"

\* compile_public_provenance raises unless every stage cited released something.
Compilable(trace, evidence) ==
    \A k \in StagesOf(CitedItems(evidence)) : Released(trace.stages[k].status)

Provenance(trace, evidence) ==
    LET cited == CitedItems(evidence)  stages == StagesOf(cited) IN
    [id |-> trace.id, planRef |-> trace.planRef, verified |-> trace.verified,
     classification |-> Classification(trace, stages),
     semantics |-> ReplaySemantics(trace.manifests),
     nodes |-> {Node(trace.stages[k], stages) : k \in stages},
     evidenceIds |-> {e.id : e \in cited}]

NewRecord(trace, evidence) ==
    [id |-> trace.id, trace |-> trace, evidence |-> evidence, provenance |-> {}, certificate |-> {}]

\* validate_record raises unless this holds.
ValidRecord(r) ==
    /\ LineageValid(r.trace)
    /\ Distinguished(r.evidence)
    /\ \A e \in Range(r.evidence) :
          /\ e.stage \in DOMAIN r.trace.stages
          /\ e.kind # "NotAnswerable" => Released(r.trace.stages[e.stage].status)

\* Mutant: the evidence list as it stands, refused stages included (finding #110).
AllEvidence(r) == r.evidence

\* public_evidence.
PublicEvidence(r) ==
    SelectSeq(r.evidence, LAMBDA e :
        IF r.provenance = {} THEN e.kind # "NotAnswerable"
        ELSE e.id \in Only(r.provenance).evidenceIds)

\* verified_digest: all that is public but the certificate.
VerifiedDigest(r) == [id |-> r.id, provenance |-> r.provenance, evidence |-> PublicEvidence(r)]

-----------------------------------------------------------------------------
(* Replay                                                                   *)

\* _replayable, and what makes a record no replay can vouch for.
Wanted(trace) == {k \in DOMAIN trace.stages : trace.stages[k].replay /\ trace.stages[k].commits # <<>>}
Unreplayable(trace) ==
    {k \in DOMAIN trace.stages : ~trace.stages[k].replay /\ trace.stages[k].commits # <<>>}

\* The replayed tables have every table committed to, byte for byte.
CommitmentsAgree(trace, rerun) ==
    \A k \in Wanted(trace) : \A name \in DOMAIN trace.stages[k].commits :
        /\ name \in DOMAIN rerun[k].tables
        /\ rerun[k].tables[name] = trace.stages[k].commits[name]

ReplayedEvidence(trace, rerun) ==
    Concat([k \in DOMAIN rerun |->
        IF k \in Wanted(trace) /\ Released(rerun[k].status)
        THEN Extract(trace.stages[k], rerun[k].tables, FALSE) ELSE <<>>])

Identities(evidence) == ToBag([i \in DOMAIN evidence |-> Identity(evidence[i])])

\* The numbers reported are the numbers released again.
EvidenceAgrees(r, rerun) ==
    Identities(PublicEvidence(r)) = Identities(ReplayedEvidence(r.trace, rerun))

Outcome(r, context, rerun) ==
    CASE ReplaySemantics(Manifests(context)) # ReplaySemantics(r.trace.manifests) -> "SEMANTICS_MISMATCH"
      [] OTHER ->
         IF \/ r.trace.committed = {} \/ r.trace.committed # r.trace.planRef
            \/ Unreplayable(r.trace) # {} \/ Wanted(r.trace) = {}
         THEN "REPLAY_REFUSED"
         ELSE IF CommitmentsAgree(r.trace, rerun) /\ EvidenceAgrees(r, rerun)
         THEN "COMPUTATION_REPRODUCED" ELSE "COMPUTATION_NOT_REPRODUCED"

\* replay, where `rerun` is what the plan gives with an auditor that has no history.
Replay(r, context, rerun) ==
    [record |-> r.id, digest |-> VerifiedDigest(r), outcome |-> Outcome(r, context, rerun),
     semantics |-> ReplaySemantics(r.trace.manifests)]

\* certifies: the certificate is about this record as it stands.
Certifies(c, r) == c.record = r.id /\ c.digest = VerifiedDigest(r)

-----------------------------------------------------------------------------
(* Attestation and bundle                                                   *)

\* attestation_payload.
Payload(r) ==
    [id |-> r.id, digest |-> VerifiedDigest(r), certificate |-> r.certificate,
     manifests |-> r.trace.manifests]

Attest(r, key) ==
    [payload |-> Payload(r), digest |-> Payload(r), key |-> key, signature |-> <<key, Payload(r)>>]

\* verify_attestation: the payload is derived again, and not read.
AttestationHolds(block, r, key) ==
    block.payload = Payload(r) /\ block.digest = Payload(r) /\ block.signature = <<key, Payload(r)>>

\* _private_strings, and the public texts of a bundle they are looked for in.
PrivateStrings(trace) ==
    UNION {s.excluded \cup s.message : s \in Range(trace.stages)} \cup {trace.user}
Texts(files) ==
    UNION {e.label : e \in Range(files.evidence)}
        \cup UNION {UNION {n.spec : n \in p.nodes} : p \in files.provenance}

\* render_report_from_public: of a certificate it shows the id, which is its body's.
Report(f) ==
    [id |-> f.header.id, provenance |-> f.provenance, evidence |-> f.evidence,
     certificate |-> f.certificate, manifests |-> f.manifests]

Rendered(files) == [files EXCEPT !.report = Report(files)]

\* The files export_bundle writes.
Files(r, attested) ==
    Rendered([header |-> [id |-> r.id, digest |-> VerifiedDigest(r), manifests |-> r.trace.manifests],
              provenance |-> r.provenance, evidence |-> PublicEvidence(r), certificate |-> r.certificate,
              manifests |-> r.trace.manifests, attestation |-> attested, report |-> {}])

\* export_bundle raises unless the record holds together and no private string is
\* among the public ones, those of the excluded levels the caller allows apart.
Exportable(r, attested, allowed) ==
    /\ r.provenance # {} /\ ValidRecord(r)
    /\ (Texts(Files(r, attested)) \cap PrivateStrings(r.trace))
          \subseteq (allowed \cap UNION {s.excluded : s \in Range(r.trace.stages)})

\* verify_bundle_dir, with the custodian's key or none.
Verifies(f, keys) ==
    LET recomputed == [id |-> f.header.id, provenance |-> f.provenance, evidence |-> f.evidence] IN
    /\ f.header.digest = recomputed
    /\ f.header.manifests = f.manifests
    /\ f.certificate # {}
    /\ \A c \in f.certificate :
          /\ c.digest = recomputed
          /\ f.evidence # <<>> <=> c.outcome = "COMPUTATION_REPRODUCED"
    /\ f.attestation # {}
    /\ \A block \in f.attestation :
          /\ block.payload.digest = recomputed /\ block.digest = block.payload
          /\ block.signature = <<IF keys = {} THEN block.key ELSE Only(keys), block.digest>>
    /\ f.report = Report(f)

=============================================================================
