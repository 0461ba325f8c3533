----------------------------- MODULE MCEmission -----------------------------
(***************************************************************************)
(* Two attempts of one hotkey, one of a plain and one of a tdx job, or of   *)
(* two hotkeys; the posts are those that take different paths.              *)
(***************************************************************************)
EXTENDS Emission, TLC

CONSTANTS a1, a2, h1, h2, c1, c2, worker

HyperMC == [
    tee_bonus_tdx |-> 5, tee_bonus_tdx_gpu |-> 6, tee_tcb_enforce |-> FALSE, tee_acceptable_tcb |-> {},
    tee_disallowed_advisories |-> {"disallowed"}, compose_hash_allowlist |-> {"pinned"},
    efficiency_floor |-> 1,
    sim_gpu_probe_fail |-> FALSE, require_gpu_evidence_for_live |-> TRUE,
    points_enabled |-> TRUE, points_scale |-> 1, price_weight_in_earn |-> TRUE,
    price_weight_floor |-> 85, price_weight_ceil |-> 115, price_weight_missing |-> 100]

OwnerMC == [a \in {a1, a2} |-> h1]
TeeMC == (a1 :> "tdx") @@ (a2 :> "none")
PricesMC == (a1 :> [list |-> 2, catalog |-> 3]) @@ (a2 :> [list |-> 0, catalog |-> 3])

\* A quote that is good for a1, whose advisories are only noted.
Envelope == [
    tee_type |-> "tdx", compose_hash |-> "pinned", expected_compose_hash |-> "none",
    report_data_hex |-> build_report_data(a1, DefaultNonce), tcb_status |-> "OutOfDate",
    advisory_ids |-> {"known"}, event_log_ok |-> TRUE, quote_sig_ok |-> TRUE,
    nonce |-> Absent, gpu_evidence |-> NoEvidence]
Evidence == [present |-> TRUE, well_formed |-> TRUE, nonce |-> 2, nonce_echo |-> Absent]
GoodQuote == [quote_b64 |-> [envelope |-> Envelope], report_data_hex |-> NoReportData,
              tee_nonce |-> Absent, gpu_evidence |-> NoEvidence]
OtherQuote == [GoodQuote EXCEPT !.quote_b64.envelope.report_data_hex = build_report_data(a2, DefaultNonce)]
Plain == [status |-> "succeeded", verified |-> TRUE, cheat |-> FALSE, efficiency |-> NotGiven,
          gate |-> NotGiven, proof_tier |-> "sim", verify_mode |-> "sim", quote |-> NoQuote]
Running == [Plain EXCEPT !.status = "running"]

PostsMC == {
    [Plain EXCEPT !.quote = GoodQuote, !.verify_mode = "offline_fixture", !.proof_tier = "tdx"],
    [Running EXCEPT !.cheat = TRUE, !.verified = FALSE, !.verify_mode = "offline_fixture",
                    !.quote = OtherQuote],
    [Running EXCEPT !.proof_tier = "ordinary", !.verify_mode = "live"],
    [Running EXCEPT !.proof_tier = "tdx"],
    [Plain EXCEPT !.status = "failed", !.verify_mode = "offline_fixture", !.gate = 0,
                  !.quote = [GoodQuote EXCEPT !.quote_b64.envelope.quote_sig_ok = FALSE]]}

LaunchesMC == {
    [status |-> "succeeded", integrity_fail |-> FALSE, efficiency |-> 2, gate |-> 2],
    [status |-> "succeeded", integrity_fail |-> TRUE, efficiency |-> 2, gate |-> 0],
    [status |-> "failed", integrity_fail |-> FALSE, efficiency |-> 1, gate |-> 2],
    [status |-> "timeout", integrity_fail |-> FALSE, efficiency |-> 1, gate |-> 2]}

\* Quotes with one flaw each, and evidence for a job that needs it.
Env(e) == [GoodQuote EXCEPT !.quote_b64.envelope = e]
WithGpu(e) == [GoodQuote EXCEPT !.gpu_evidence = e]
Flawed ==
    {[GoodQuote EXCEPT !.quote_b64 = [junk |-> j]] : j \in Junk} \cup
    {Env(e) : e \in {
        [Envelope EXCEPT !.report_data_hex.size = 63], [Envelope EXCEPT !.report_data_hex.size = 65],
        [Envelope EXCEPT !.report_data_hex = build_report_data(a1, 2)],
        [Envelope EXCEPT !.compose_hash = "other"], [Envelope EXCEPT !.compose_hash = "allowed"],
        [Envelope EXCEPT !.expected_compose_hash = "other"],
        [Envelope EXCEPT !.event_log_ok = FALSE], [Envelope EXCEPT !.quote_sig_ok = FALSE],
        [Envelope EXCEPT !.tee_type = "tdx+gpu_cc"],
        [Envelope EXCEPT !.nonce = 3, !.gpu_evidence = Evidence]}} \cup
    {WithGpu(g) : g \in {[Evidence EXCEPT !.well_formed = FALSE], [Evidence EXCEPT !.nonce_echo = 3]}}
    \cup {[WithGpu(Evidence) EXCEPT !.tee_nonce = 3], [GoodQuote EXCEPT !.tee_nonce = 2]}

\* Every flaw is fatal by itself, and a quote without one is valid.
ASSUME FlawsAreFatal ==
    /\ \A q \in Flawed : verify_tee(q, a1, "offline_fixture", FALSE) # "valid"
    /\ \A q \in {GoodQuote, WithGpu(Evidence), Env([Envelope EXCEPT !.expected_compose_hash = "pinned"])} :
          /\ verify_tee(q, a1, "offline_fixture", FALSE) = "valid"
          /\ verify_tee(q, a1, "live", FALSE) # "valid"
    /\ verify_tee(GoodQuote, a1, "offline_fixture", TRUE) # "valid"
    /\ verify_tee(WithGpu(Evidence), a1, "offline_fixture", TRUE) = "valid"

Symmetry == Permutations({c1, c2})
=============================================================================
