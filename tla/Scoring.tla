------------------------------- MODULE Scoring -------------------------------
(***************************************************************************)
(* How an attempt becomes a number: domain/scoring.py, scoring_tee.py,      *)
(* tee_proofs.py, gpu_scoring_integrity.py and the pure half of points.py,  *)
(* as operators.                                                            *)
(*                                                                          *)
(* Gates and efficiency are counted in halves (Whole = 1.0), the tee bonus  *)
(* in quarters (NoBonus = 1.0) and price weights in percent, so that every  *)
(* product is an integer.  Reason codes are kept as two flags: is there a   *)
(* code of the cheat catalogue, and did the score say "integrity".          *)
(***************************************************************************)
EXTENDS Attest, FiniteSets

Whole == 2
NoBonus == 4
Percent == 100

HyperSettings == [
    tee_bonus_tdx : {n \in Nat : n >= NoBonus}, tee_bonus_tdx_gpu : {n \in Nat : n >= NoBonus},
    tee_tcb_enforce : BOOLEAN, tee_acceptable_tcb : SUBSET TcbStatus,
    tee_disallowed_advisories : SUBSET Advisory, compose_hash_allowlist : SUBSET ComposeHash,
    efficiency_floor : Nat, sim_gpu_probe_fail : BOOLEAN,
    require_gpu_evidence_for_live : BOOLEAN, points_enabled : BOOLEAN, points_scale : Nat,
    price_weight_in_earn : BOOLEAN, price_weight_floor : Nat \ {0},
    price_weight_ceil : Nat \ {0}, price_weight_missing : Nat \ {0}]

ASSUME HyperAssumption == Hyper \in HyperSettings

TeeMode == {"none", "tdx", "tdx+gpu_cc"}
Tier == {"ordinary", "sim", "tdx", "tdx+gpu_cc"}
Proof == [tier : Tier, verified : BOOLEAN, mode : VerifyMode, verdict : Verdict]
-----------------------------------------------------------------------------
(* The four factors. *)

coerce_gate01(v) == IF v >= Whole THEN 1 ELSE 0
coerce_tee_bonus(t) == IF t > NoBonus THEN t ELSE NoBonus

\* What the efficiency contributes to the product.
EfficiencyForProduct(e) ==
    IF Hyper.efficiency_floor > 0 /\ e < Hyper.efficiency_floor THEN 0 ELSE e

\* compute_four_factor, in eighths.
Composite(correctness, efficiency, gate, bonus, zero) ==
    IF zero THEN 0
    ELSE coerce_gate01(correctness) * EfficiencyForProduct(efficiency)
           * coerce_gate01(gate) * coerce_tee_bonus(bonus)
-----------------------------------------------------------------------------
(* Proofs. *)

tier_for_tee_mode(tee) == IF tee = "none" THEN "ordinary" ELSE tee

build_sim_proof(tee, integrity_fail) ==
    [tier |-> IF tee = "none" THEN "ordinary" ELSE "sim", verified |-> ~integrity_fail,
     mode |-> "sim", verdict |-> IF integrity_fail THEN "invalid" ELSE "valid"]

\* What post_job_results attaches: a sim or ordinary tier keeps what the post
\* claims for verified and mode, any other tier is unverified.
PostedProof(post) ==
    IF post.proof_tier \in {"sim", "ordinary"} \/ post.verify_mode = "sim"
    THEN [tier |-> post.proof_tier, verified |-> post.verified, mode |-> post.verify_mode,
          verdict |-> IF post.verified THEN "valid" ELSE "invalid"]
    ELSE [tier |-> post.proof_tier, verified |-> FALSE, mode |-> post.verify_mode,
          verdict |-> "invalid"]

attach_offline_proof(tee, verdict, mode) ==
    [tier |-> tier_for_tee_mode(tee), verified |-> verdict = "valid", mode |-> mode,
     verdict |-> verdict]

\* _normalize_tier: an ordinary proof takes the tier that the job claims.
NormalizeTier(tier, tee) == IF tier = "ordinary" THEN tier_for_tee_mode(tee) ELSE tier

Decision(bonus, zero) == [tee_bonus |-> bonus, integrity_zero |-> zero]

\* Mutant of compute_tee_bonus: the simulated mode is not told apart.
compute_tee_bonusAnyMode(p, tee, attestation_fail) ==
    LET tier == NormalizeTier(p.tier, tee)
        effective == p.verified /\ p.verdict = "valid"
    IN  IF attestation_fail THEN Decision(NoBonus, TRUE)
        ELSE IF tier \in {"sim", "ordinary"} THEN Decision(NoBonus, FALSE)
        ELSE IF ~effective THEN Decision(NoBonus, tee \in {"tdx", "tdx+gpu_cc"})
        ELSE IF tier = "tdx" THEN Decision(Hyper.tee_bonus_tdx, FALSE)
        ELSE Decision(Hyper.tee_bonus_tdx_gpu, FALSE)

compute_tee_bonus(p, tee, attestation_fail) ==
    LET tier == NormalizeTier(p.tier, tee)
        effective == p.verified /\ p.verdict = "valid"
    IN  IF attestation_fail THEN Decision(NoBonus, TRUE)
        ELSE IF tier \in {"sim", "ordinary"} THEN Decision(NoBonus, FALSE)
        ELSE IF ~effective THEN Decision(NoBonus, tee \in {"tdx", "tdx+gpu_cc"})
        ELSE IF p.mode = "sim" THEN Decision(NoBonus, FALSE)
        ELSE IF tier = "tdx" THEN Decision(Hyper.tee_bonus_tdx, FALSE)
        ELSE Decision(Hyper.tee_bonus_tdx_gpu, FALSE)

decision_from_proof(p, tee) ==
    compute_tee_bonus(p, tee, p.verdict = "broken" /\ tee # "none")
-----------------------------------------------------------------------------
(* GPU probe honesty. *)

NoModel == "none"
Claim == [model : {NoModel, "h100", "b200"}, count : -1..8]

\* evaluate_claim_vs_evidence; -1 stands for a count that is not given.
evaluate_claim_vs_evidence(claim, status, measured) ==
    \/ status \in {"failed", "error"}
    \/ /\ status # "none"
       /\ \/ NoModel \notin {claim.model, measured.model} /\ claim.model # measured.model
          \/ -1 \notin {claim.count, measured.count} /\ claim.count # measured.count

\* evaluate_gpu_probe_integrity: is the score forced to zero?
evaluate_gpu_probe_integrity(claim, status, measured, is_sim_path) ==
    LET given == IF status # "none" THEN status
                 ELSE IF measured.model # NoModel THEN "passed" ELSE "none"
    IN  \/ Hyper.sim_gpu_probe_fail
        \/ /\ Hyper.require_gpu_evidence_for_live /\ ~is_sim_path
           /\ status \in {"none", "failed", "error"}
        \/ /\ status # "none" \/ measured.model # NoModel \/ measured.count # -1
           /\ evaluate_claim_vs_evidence(claim, given, measured)

Unprobed == [model |-> NoModel, count |-> -1]
-----------------------------------------------------------------------------
(* The score row. *)

\* persist_score_for_attempt: the bonus is dropped without the verified flag.
ScoreRow(correctness, efficiency, gate, p, tee, cheat) ==
    LET decision == decision_from_proof(p, tee)
        bonus == IF p.verified THEN decision.tee_bonus ELSE NoBonus
    IN  [tee_bonus |-> coerce_tee_bonus(bonus),
         composite |-> Composite(correctness, efficiency, gate, bonus,
                                 decision.integrity_zero \/ cheat)]

\* The jobs of this service are scored as sim-launched and unprobed.
GpuZero == evaluate_gpu_probe_integrity(Unprobed, "none", Unprobed, TRUE)

\* apply_gpu_integrity: of the factors, correctness and the fabric gate.
apply_gpu_integrity(factor, zero) == IF zero THEN 0 ELSE factor

\* score_attempt_with_tee, given the attempt's proof.
ScoreWithTee(correctness, efficiency, gate, integrity_fail, cheat, p, tee) ==
    ScoreRow(apply_gpu_integrity(IF integrity_fail THEN 0 ELSE correctness, GpuZero),
             efficiency, apply_gpu_integrity(gate, GpuZero), p, tee, cheat \/ GpuZero)
-----------------------------------------------------------------------------
(* Points. *)

Between(x, lo, hi) == IF x < lo THEN lo ELSE IF x > hi THEN hi ELSE x

\* compute_price_weight; the price 0 stands for a missing one.
compute_price_weight(list, catalog) ==
    LET a == Hyper.price_weight_floor
        b == Hyper.price_weight_ceil
    IN  IF ~Hyper.price_weight_in_earn THEN Percent
        ELSE IF 0 \in {list, catalog} THEN Hyper.price_weight_missing
        ELSE Between((Percent * catalog) \div list, IF a > b THEN b ELSE a, IF a > b THEN a ELSE b)

compute_score_earn_delta(composite, weight) ==
    IF composite <= 0 \/ Hyper.points_scale = 0 THEN 0
    ELSE composite * Hyper.points_scale * weight
=============================================================================
