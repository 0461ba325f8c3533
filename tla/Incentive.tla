----------------------------- MODULE Incentive -----------------------------
(***************************************************************************)
(* From score rows to weights (domain/aggregation.py, domain/incentive.py,  *)
(* create_pending_snapshot of weight_push.py): the window of newest rows,   *)
(* the damping of self-deals, the leaderboard, and the pipeline of top-k,   *)
(* share cap and normalisation that the weights go through.                  *)
(*                                                                         *)
(* Hotkeys are numbers, in the order of the sort that breaks ties.  Masses  *)
(* are counted in halves of a composite and the cap in quarters, so that a  *)
(* map of weights is a function w to Nat over a common denominator.         *)
(* Composites are finite and not negative (Scoring), and weight_dust is     *)
(* below every mass.                                                        *)
(***************************************************************************)
EXTENDS Integers, Sequences, FiniteSets, SequencesExt, FiniteSetsExt

CONSTANTS
    Hotkeys,       \* numbers
    Ss58,          \* those that look like ss58 (is_ss58_like_hotkey)
    Attempts,      \* scored attempts
    Owner,         \* [Attempts -> Hotkeys]
    SelfDeals,     \* attempts whose score details carry the self_deal flag
    Composites,    \* what a seal may score
    Settings,      \* [score_window, damping, top_k, max_fraction, normalize]
    MaxSeals,      \* bound: scores sealed and re-sealed
    MaxSnapshots   \* bound: snapshots built

Whole == 2
Share == 4
Hyper == [score_window : Nat \ {0}, damping : 0..Whole, top_k : Nat,
          max_fraction : 0..Share, normalize : BOOLEAN]
ScoreRow == [attempt : Attempts, composite : Nat, self_deal : BOOLEAN]

ASSUME IncentiveAssumption ==
    /\ Hotkeys \subseteq Nat /\ Ss58 \subseteq Hotkeys
    /\ Owner \in [Attempts -> Hotkeys]
    /\ SelfDeals \subseteq Attempts
    /\ Composites \subseteq Nat
    /\ Settings \subseteq Hyper
    /\ MaxSeals \in Nat /\ MaxSnapshots \in Nat

VARIABLES
    hyper,      \* the settings the service runs with
    scores,     \* scores, in the order of created_at
    seals,      \* bound
    loop,       \* the worker's push: the mass it has read
    snapshot,   \* the newest snapshot, which is taken for acked (the numbering and
                \* the push are WeightPush): its raw mass, weights and builder
    built       \* bound

incentiveVars == <<hyper, scores, seals, loop, snapshot, built>>

NoMass == [h \in {} |-> 0]
Vacant == [w |-> NoMass, total |-> 0]
LoopIdle == [pc |-> "idle", raw |-> NoMass]
NoSnapshot == [by |-> "nobody", raw |-> NoMass, weights |-> Vacant]

IncentiveInit ==
    /\ hyper \in Settings
    /\ scores = << >>
    /\ seals = 0
    /\ loop = LoopIdle
    /\ snapshot = NoSnapshot
    /\ built = 0
-----------------------------------------------------------------------------
(* The mass of a hotkey. *)

SumOf(mass) == MapThenSumSet(LAMBDA h : mass[h], DOMAIN mass)
Kept(mass, S) == [h \in DOMAIN mass \cap S |-> mass[h]]
clamp_mass_map(mass) == Kept(mass, {h \in DOMAIN mass : mass[h] > 0})

\* list_scores_in_window: the newest rows.
InWindow(rows) ==
    SubSeq(rows, Len(rows) - Min({hyper.score_window, Len(rows)}) + 1, Len(rows))

\* What is emitted loses the hotkeys that are not ss58, after all of the pipeline.
filter_ss58_weights(mass) == Kept(mass, Ss58)

\* Mutant of Damped: the damping is paid on top of the score.
DampedOnTop(row) ==
    row.composite * (IF row.self_deal THEN Whole + hyper.damping ELSE Whole)

\* apply_self_deal_damping.
Damped(row) == row.composite * (IF row.self_deal THEN Whole - hyper.damping ELSE Whole)

\* aggregate_score_rows: a hotkey with only zero rows is still ranked.
Aggregates(rows) ==
    LET window == InWindow(rows)
        mass == [i \in DOMAIN window |-> Damped(window[i])]
        of(h) == {i \in DOMAIN window : Owner[window[i].attempt] = h}
    IN  [h \in {Owner[window[i].attempt] : i \in DOMAIN window} |->
            MapThenSumSet(LAMBDA i : mass[i], of(h))]

MassMap(rows) == clamp_mass_map(Aggregates(rows))

\* The leaderboard's order, and top-k's: more mass first, then the hotkey.
Ahead(mass, g, h) == mass[g] > mass[h] \/ (mass[g] = mass[h] /\ g < h)
Leaderboard(rows) ==
    LET mass == Aggregates(rows)
    IN  CHOOSE board \in [1..Cardinality(DOMAIN mass) -> DOMAIN mass] :
            \A i, j \in DOMAIN board : i < j => Ahead(mass, board[i], board[j])
-----------------------------------------------------------------------------
(* finalize_incentives. *)

\* Mutant of TopK: the first k hotkeys are kept, whatever they have.
TopKByHotkey(mass) ==
    Kept(mass, {h \in DOMAIN mass :
                   hyper.top_k = 0 \/ Cardinality({g \in DOMAIN mass : g < h}) < hyper.top_k})

\* apply_top_k; 0 keeps everybody.
TopK(mass) ==
    Kept(mass, {h \in DOMAIN mass :
                   \/ hyper.top_k = 0
                   \/ Cardinality({g \in DOMAIN mass : Ahead(mass, g, h)}) < hyper.top_k})

\* 0 and 1 are no cap.
Capped == hyper.max_fraction \in 1..(Share - 1)

\* Mutant of MaxFraction: a hotkey above the cap is dropped.
MaxFractionDrops(mass) ==
    LET most == hyper.max_fraction * SumOf(mass)
    IN  clamp_mass_map([h \in DOMAIN mass |->
            IF Capped /\ Share * mass[h] > most THEN 0 ELSE Share * mass[h]])

\* apply_max_fraction, in quarters of the unit that it is given.
MaxFraction(mass) ==
    LET most == hyper.max_fraction * SumOf(mass)
    IN  [h \in DOMAIN mass |->
            IF Capped /\ Share * mass[h] > most THEN most ELSE Share * mass[h]]

\* finalize_incentives of a map over unit: w[h] / total is the weight of h.
Finalize(mass, unit) ==
    LET stage == clamp_mass_map(MaxFraction(TopK(clamp_mass_map(mass))))
    IN  IF DOMAIN stage = {} THEN Vacant
        ELSE [w |-> stage, total |-> IF hyper.normalize THEN SumOf(stage) ELSE Share * unit]

\* compute_raw_weights.
Weights(rows) == Finalize(MassMap(rows), Whole)

\* load_raw_weights: a snapshot goes before the scores.
Served == IF snapshot.weights = Vacant THEN Weights(scores) ELSE snapshot.weights
-----------------------------------------------------------------------------
\* persist_score_for_attempt: an attempt's row keeps its place when it is scored
\* again.  created_at is read before the transaction has its lock, so a new row
\* can be dated before rows that other transactions commit while it waits.
SealScore(a, composite) ==
    LET row == [attempt |-> a, composite |-> composite, self_deal |-> a \in SelfDeals]
        old == {i \in DOMAIN scores : scores[i].attempt = a}
    IN  /\ seals < MaxSeals
        /\ seals' = seals + 1
        /\ IF old # {}
           THEN scores' = [i \in DOMAIN scores |-> IF i \in old THEN row ELSE scores[i]]
           ELSE \E i \in 1..(Len(scores) + 1) : scores' = InsertAt(scores, i, row)
        /\ UNCHANGED <<hyper, loop, snapshot, built>>

\* create_pending_snapshot without weights: the mass is read first.
ReadMass ==
    /\ loop = LoopIdle
    /\ built < MaxSnapshots
    /\ loop' = [pc |-> "mass", raw |-> MassMap(scores)]
    /\ UNCHANGED <<hyper, scores, seals, snapshot, built>>

\* A snapshot of weights, of which only the ss58 hotkeys are emitted; when there
\* are none, none is built ("empty_weights").
Build(by, raw, weights) ==
    LET emitted == filter_ss58_weights(weights.w)
    IN  IF DOMAIN emitted = {} THEN UNCHANGED <<snapshot, built>>
        ELSE /\ built' = built + 1
             /\ snapshot' = [by |-> by, raw |-> filter_ss58_weights(raw),
                             weights |-> [w |-> emitted, total |-> weights.total]]

\* The weights are another query.
BuildSnapshot ==
    /\ loop.pc = "mass"
    /\ loop' = LoopIdle
    /\ Build("loop", loop.raw, Weights(scores))
    /\ UNCHANGED <<hyper, scores, seals>>

\* `weights push` and `score recompute` pass what they were served: it is taken
\* for a mass and goes through the pipeline again.
Republish ==
    /\ built < MaxSnapshots
    /\ Served # Vacant
    /\ Build("command", Served.w, Finalize(Served.w, Served.total))
    /\ UNCHANGED <<hyper, scores, seals, loop>>

IncentiveNext ==
    \/ \E a \in Attempts, composite \in Composites : SealScore(a, composite)
    \/ ReadMass
    \/ BuildSnapshot
    \/ Republish

IncentiveSpec == IncentiveInit /\ [][IncentiveNext]_incentiveVars
-----------------------------------------------------------------------------
(* Properties. *)

W(weights, h) == IF h \in DOMAIN weights.w THEN weights.w[h] ELSE 0

\* v[h] / v.total <= w[h] / w.total
AtMost(v, g, w, h) ==
    IF v.total = 0 \/ w.total = 0 THEN W(v, g) = 0
    ELSE W(v, g) * w.total <= W(w, h) * v.total

\* What is paid agrees with what is shown (build_leaderboard, apply_top_k): who
\* is ahead on the leaderboard has at least the weight of who is behind, and
\* top-k never passes over one of them for the other.
RanksAgree ==
    LET board == Leaderboard(scores)
        weights == Weights(scores)
    IN  \A i, j \in DOMAIN board :
            i < j /\ board[j] \in DOMAIN weights.w =>
                /\ board[i] \in DOMAIN weights.w
                /\ AtMost(weights, board[j], weights, board[i])

\* The same pipeline without its cap.
Uncapped(mass) ==
    LET kept == TopK(clamp_mass_map(mass)) IN [w |-> kept, total |-> SumOf(kept)]

\* The cap (apply_max_fraction) only ever moves share from the largest to the
\* smaller ones, on the first pass and when a command sends a map through the
\* pipeline again: nobody gets more than the largest had, and whoever was
\* within the cap gets no less than before.
CapIsFair ==
    hyper.normalize =>
        \A mass \in {MassMap(scores), snapshot.weights.w} :
            LET before == Uncapped(mass)
                after == Finalize(mass, 1)
            IN  \A h \in DOMAIN before.w :
                    /\ \E top \in DOMAIN before.w : AtMost(after, h, before, top)
                    /\ Share * before.w[h] <= hyper.max_fraction * before.total =>
                          AtMost(before, h, after, h)

\* The scores if none of a hotkey's were flagged.
Honest(h) ==
    [i \in DOMAIN scores |-> IF Owner[scores[i].attempt] = h
                             THEN [scores[i] EXCEPT !.self_deal = FALSE] ELSE scores[i]]

\* A self-deal never pays: through damping, top-k, cap and normalisation, no
\* hotkey has a larger share for having its attempts flagged
\* (apply_self_deal_damping, "reduce mass").
SelfDealNeverPays ==
    \A h \in Hotkeys : AtMost(Weights(scores), h, Weights(Honest(h)), h)

\* "Caller-supplied weights [...] re-normalized so push / snapshot always share
\* the same emission family as get_weights" (weight_push.py): what a command
\* publishes is what it was served.
RepublishedAsServed ==
    [][snapshot' # snapshot /\ snapshot'.by = "command" =>
          \A h \in Ss58 : AtMost(Served, h, snapshot'.weights, h)]_incentiveVars

=============================================================================
