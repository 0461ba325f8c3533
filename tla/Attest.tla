-------------------------------- MODULE Attest --------------------------------
(***************************************************************************)
(* The verification of a TEE quote: attest/report_data.py, policy.py,       *)
(* gpu_evidence.py, offline_fixtures.py and verify.py, as operators.        *)
(*                                                                          *)
(* Hashes are what they are computed from: a digest is the tagged tuple of  *)
(* its inputs, so that two of them are equal only when those are.  A nonce  *)
(* is a number and a quote is the body that its base64 text unpacks to.  A  *)
(* verdict is a set of reason codes; the codes that only explain another    *)
(* one are left out.                                                        *)
(***************************************************************************)
EXTENDS Integers

CONSTANT Hyper   \* HyperSettings, the fields that the verification and the scores read

\* What an optional field of a body or an envelope has when it is not given.
Absent == 0
Nonce == Nat \ {0}
DefaultNonce == 1        \* "results-default-nonce"

ComposeHash == {"pinned", "allowed", "other"}
TcbStatus == {"UpToDate", "OutOfDate", "SWHardeningNeeded"}
Advisory == {"known", "disallowed"}
VerifyMode == {"sim", "offline_fixture", "live"}

When(condition, codes) == IF condition THEN codes ELSE {}
-----------------------------------------------------------------------------
(* report_data: 32 bytes for the job and its image, 32 for the nonce. *)

ReportDataSize == 64

build_job_digest(job) == <<"hypercluster-job-v1", job>>
build_nonce_digest(nonce) == <<"hypercluster-nonce-v1", nonce>>

build_report_data(job, nonce) ==
    [size |-> ReportDataSize, job_digest |-> build_job_digest(job),
     nonce_digest |-> build_nonce_digest(nonce)]

\* The report_data that can stand in a body or an envelope: those of Job, whole,
\* truncated or with a trailing rest.
ReportData(Job) ==
    [size : Nat, job_digest : {"hypercluster-job-v1"} \X Job,
     nonce_digest : {"hypercluster-nonce-v1"} \X Nonce]

\* Is the layout exact?
parse_report_data(value) == value.size = ReportDataSize

Layout(value) == When(~parse_report_data(value), {"report_data_layout"})

\* Mutant of Binding: only the nonces are compared.
BindingOfNonce(quoted, expected) ==
    When(/\ parse_report_data(quoted) /\ parse_report_data(expected)
         /\ quoted.nonce_digest # expected.nonce_digest,
         {"report_data_mismatch"})

\* Two exact report_data must be equal; the digests that differ are named.
Binding(quoted, expected) ==
    IF parse_report_data(quoted) /\ parse_report_data(expected) /\ quoted # expected
    THEN {"report_data_mismatch"}
         \cup When(quoted.job_digest # expected.job_digest, {"cross_job_binding"})
         \cup When(quoted.nonce_digest # expected.nonce_digest, {"stale_nonce"})
    ELSE {}
-----------------------------------------------------------------------------
(* The policy. *)

TeeVerifyPolicy == [
    compose_allowlist : SUBSET ComposeHash, tcb_enforce : BOOLEAN,
    acceptable_tcb_statuses : SUBSET TcbStatus, disallowed_advisory_ids : SUBSET Advisory]

\* An empty list of statuses stands for the default one.
default_policy_from_settings == [
    compose_allowlist |-> Hyper.compose_hash_allowlist,
    tcb_enforce |-> Hyper.tee_tcb_enforce,
    acceptable_tcb_statuses |-> IF Hyper.tee_acceptable_tcb = {} THEN {"UpToDate"}
                                ELSE Hyper.tee_acceptable_tcb,
    disallowed_advisory_ids |-> Hyper.tee_disallowed_advisories]

\* An empty allowlist allows nothing.
is_compose_allowed(policy, hash) == hash \in policy.compose_allowlist

Compose(policy, env) ==
    When(env.expected_compose_hash \notin {"none", env.compose_hash}, {"compose_hash_mismatch"})
    \cup When(~is_compose_allowed(policy, env.compose_hash), {"compose_not_allowlisted"})

\* Without enforcement a bad TCB is only noted.
Tcb(policy, env) ==
    LET status == env.tcb_status \notin policy.acceptable_tcb_statuses
        advisory == env.advisory_ids \cap policy.disallowed_advisory_ids # {}
    IN  IF policy.tcb_enforce
        THEN When(status, {"tcb_status_reject"}) \cup When(advisory, {"advisory_disallowed"})
        ELSE When(status \/ advisory, {"tcb_advisory_soft"})
-----------------------------------------------------------------------------
(* GPU evidence. *)

NoEvidence == [present |-> FALSE]
GpuEvidence == [present : {TRUE}, well_formed : BOOLEAN, nonce : Nonce, nonce_echo : Nat]

\* parse_gpu_evidence: its schema is closed and its nonce is not empty.
parse_gpu_evidence(raw) == raw.well_formed

\* The echo of a nonce must be the nonce, and this the expected one if there is one.
validate_gpu_evidence(raw, expected, require) ==
    IF ~raw.present THEN When(require, {"gpu_evidence_missing"})
    ELSE IF ~parse_gpu_evidence(raw) THEN {"gpu_evidence_invalid"}
    ELSE IF raw.nonce_echo \notin {Absent, raw.nonce} THEN {"gpu_nonce_echo_fail"}
    ELSE When(expected \notin {Absent, raw.nonce}, {"gpu_nonce_bind_fail"})

\* A body's evidence goes before the envelope's; what nobody needs and nobody
\* sent is not looked at.
Gpu(request, env, require, expected) ==
    LET payload == IF request.gpu_evidence.present THEN request.gpu_evidence ELSE env.gpu_evidence
        needs == require \/ env.tee_type = "tdx+gpu_cc"
        nonce == IF expected # Absent THEN expected ELSE env.nonce
    IN  IF needs \/ payload.present THEN validate_gpu_evidence(payload, nonce, needs) ELSE {}
-----------------------------------------------------------------------------
(* Quotes. *)

OfflineQuoteEnvelope(Job) == [
    tee_type : {"tdx", "tdx+gpu_cc"}, compose_hash : ComposeHash,
    expected_compose_hash : ComposeHash \cup {"none"}, report_data_hex : ReportData(Job),
    tcb_status : TcbStatus, advisory_ids : SUBSET Advisory, event_log_ok : BOOLEAN,
    quote_sig_ok : BOOLEAN, nonce : Nat, gpu_evidence : GpuEvidence \cup {NoEvidence}]

NoReportData == [size |-> 0]

\* What quote_b64 can turn out to be, beside an envelope.
Junk == {"not_base64", "not_json", "not_object", "unknown_kind", "bad_field"}

\* The part of a results body that is about a quote.
TeeRequest(Job) == [
    quote_b64 : [junk : Junk] \cup [envelope : OfflineQuoteEnvelope(Job)],
    report_data_hex : ReportData(Job) \cup {NoReportData}, tee_nonce : Nat,
    gpu_evidence : GpuEvidence \cup {NoEvidence}]

unpack_quote_b64(quote) == "envelope" \in DOMAIN quote

\* The report_data that the route expects: the body's own, else that of the job
\* and the body's nonce.
ReportDataExpected(request, job) ==
    IF request.report_data_hex # NoReportData THEN request.report_data_hex
    ELSE build_report_data(job, IF request.tee_nonce = Absent THEN DefaultNonce
                                ELSE request.tee_nonce)

\* The codes of verify_tee for a quote that unpacks.
EnvelopeCodes(request, env, expected, require) ==
    When(~env.quote_sig_ok, {"quote_sig_invalid"})
    \cup Layout(env.report_data_hex)
    \cup Layout(expected)
    \cup Binding(env.report_data_hex, expected)
    \cup Compose(default_policy_from_settings, env)
    \cup Tcb(default_policy_from_settings, env)
    \cup When(~env.event_log_ok, {"event_log_invalid"})
    \cup Gpu(request, env, require, request.tee_nonce)

\* A live quote is never valid: the mode is off, or has no endpoint.
LiveCodes == {"live_skipped"}

ReasonCodes(request, job, mode, require) ==
    IF mode = "live" THEN LiveCodes
    ELSE IF ~unpack_quote_b64(request.quote_b64) THEN {"quote_invalid"}
    ELSE EnvelopeCodes(request, request.quote_b64.envelope, ReportDataExpected(request, job), require)

\* is_valid, and whether a code says that the quote itself is broken.
Verdict == {"valid", "invalid", "broken"}
SoftCodes == {"tcb_advisory_soft"}

\* verify_tee: any hard code is fatal.
verify_tee(request, job, mode, require) ==
    LET reasons == ReasonCodes(request, job, mode, require)
    IN  IF reasons \subseteq SoftCodes THEN "valid"
        ELSE IF reasons \cap {"quote_invalid", "quote_sig_invalid"} # {} THEN "broken"
        ELSE "invalid"
=============================================================================
