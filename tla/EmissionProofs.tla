--------------------------- MODULE EmissionProofs ---------------------------
(***************************************************************************)
(* Theorems about Emission, for every set of attempts, posts, launches and  *)
(* settings.  A step either seals no score and deletes no proof, or seals   *)
(* one score (Seals): a row that has mass and a bonus only with a proof to  *)
(* show for it.  To the books it does nothing or one payment to the         *)
(* submitter of an attempt that was not paid before (BooksStep).  The       *)
(* properties of the scores and of the books follow from that alone.        *)
(***************************************************************************)
EXTENDS Emission, TLAPS

USE HyperAssumption, EmissionAssumption

Bonus == {n \in Nat : n >= NoBonus}

\* A bonus is at least 1.0, whatever the proof claims.
LEMMA BonusType ==
    ASSUME NEW p \in Proof, NEW tee \in TeeMode, NEW fail \in BOOLEAN
    PROVE  /\ compute_tee_bonus(p, tee, fail) \in [tee_bonus : Bonus, integrity_zero : BOOLEAN]
           /\ decision_from_proof(p, tee) \in [tee_bonus : Bonus, integrity_zero : BOOLEAN]
<1>1. Hyper.tee_bonus_tdx \in Bonus /\ Hyper.tee_bonus_tdx_gpu \in Bonus
    BY DEF HyperSettings, Bonus
<1>2. \A n \in Bonus, z \in BOOLEAN : Decision(n, z) \in [tee_bonus : Bonus, integrity_zero : BOOLEAN]
    BY DEF Decision
<1>3. NoBonus \in Bonus
    BY DEF Bonus, NoBonus
<1>4. \A f \in BOOLEAN :
          compute_tee_bonus(p, tee, f) \in [tee_bonus : Bonus, integrity_zero : BOOLEAN]
    <2> SUFFICES ASSUME NEW f \in BOOLEAN
                 PROVE  compute_tee_bonus(p, tee, f) \in [tee_bonus : Bonus, integrity_zero : BOOLEAN]
        OBVIOUS
    <2>1. \/ compute_tee_bonus(p, tee, f) = Decision(NoBonus, TRUE)
          \/ compute_tee_bonus(p, tee, f) = Decision(NoBonus, FALSE)
          \/ compute_tee_bonus(p, tee, f) = Decision(NoBonus, tee \in {"tdx", "tdx+gpu_cc"})
          \/ compute_tee_bonus(p, tee, f) = Decision(Hyper.tee_bonus_tdx, FALSE)
          \/ compute_tee_bonus(p, tee, f) = Decision(Hyper.tee_bonus_tdx_gpu, FALSE)
        BY DEF compute_tee_bonus
    <2>2. (tee \in {"tdx", "tdx+gpu_cc"}) \in BOOLEAN
        OBVIOUS
    <2> QED
        BY <1>1, <1>2, <1>3, <2>1, <2>2
<1> QED
    BY <1>4 DEF decision_from_proof

\* A composite is at most its bonus (times the whole efficiency), so a gate
\* decides and never multiplies.
LEMMA CompositeType ==
    ASSUME NEW c \in Gate, NEW e \in Efficiency, NEW g \in Gate, NEW b \in Bonus, NEW z \in BOOLEAN
    PROVE  /\ coerce_tee_bonus(b) = b
           /\ Composite(c, e, g, b, z) \in Nat
           /\ Composite(c, e, g, b, z) <= Whole * b
<1>1. coerce_tee_bonus(b) = b
    BY DEF coerce_tee_bonus, Bonus, NoBonus
<1>2. coerce_gate01(c) \in {0, 1} /\ coerce_gate01(g) \in {0, 1}
    BY DEF coerce_gate01
<1>3. EfficiencyForProduct(e) \in {0, 1, 2}
    BY DEF EfficiencyForProduct, Efficiency, Whole
<1> DEFINE x == coerce_gate01(c)
           y == EfficiencyForProduct(e)
           w == coerce_gate01(g)
<1>4. x \in {0, 1} /\ w \in {0, 1} /\ y \in {0, 1, 2} /\ b \in Nat
    BY <1>2, <1>3 DEF Bonus
<1>5. x * y * w \in {0, 1, 2}
    <2> HIDE DEF x, y, w
    <2> QED BY <1>4
<1>6. Composite(c, e, g, b, z) \in {0, x * y * w * b}
    BY <1>1 DEF Composite
<1>7. x * y * w * b \in {0, b, 2 * b}
    <2> DEFINE v == x * y * w
    <2> HIDE DEF v, x, y, w
    <2>1. v \in {0, 1, 2}
        BY <1>5 DEF v
    <2>2. v * b \in {0, b, 2 * b}
        BY <2>1, <1>4
    <2> QED BY <2>2 DEF v
<1> HIDE DEF x, y, w
<1> QED
    BY <1>1, <1>4, <1>6, <1>7 DEF Whole

\* Every seal writes a well formed score row.
LEMMA RowType ==
    ASSUME NEW c \in Gate, NEW e \in Efficiency, NEW g \in Gate, NEW p \in Proof,
           NEW tee \in TeeMode, NEW fail \in BOOLEAN, NEW cheat \in BOOLEAN
    PROVE  /\ ScoreRow(c, e, g, p, tee, cheat) \in ScoreRows
           /\ ScoreWithTee(c, e, g, fail, cheat, p, tee) \in ScoreRows
<1>1. \A k \in Gate, h \in Gate, q \in BOOLEAN : ScoreRow(k, e, h, p, tee, q) \in ScoreRows
    <2> SUFFICES ASSUME NEW k \in Gate, NEW h \in Gate, NEW q \in BOOLEAN
                 PROVE  ScoreRow(k, e, h, p, tee, q) \in ScoreRows
        OBVIOUS
    <2> DEFINE d == decision_from_proof(p, tee)
               b == IF p.verified THEN d.tee_bonus ELSE NoBonus
               z == d.integrity_zero \/ q
    <2>1. d \in [tee_bonus : Bonus, integrity_zero : BOOLEAN]
        BY BonusType
    <2>2. b \in Bonus /\ z \in BOOLEAN
        <3> HIDE DEF d
        <3> QED BY <2>1 DEF Bonus, NoBonus
    <2>3. ScoreRow(k, e, h, p, tee, q)
              = [tee_bonus |-> coerce_tee_bonus(b), composite |-> Composite(k, e, h, b, z)]
        BY DEF ScoreRow
    <2> HIDE DEF b, z
    <2>4. /\ coerce_tee_bonus(b) = b
          /\ Composite(k, e, h, b, z) \in Nat
          /\ Composite(k, e, h, b, z) <= Whole * b
        BY <2>2, CompositeType
    <2> QED
        BY <2>2, <2>3, <2>4 DEF ScoreRows, Bonus
<1>2. 0 \in Gate
    BY DEF Gate, Whole
<1>3. GpuZero \in BOOLEAN
    BY DEF GpuZero, evaluate_gpu_probe_integrity, HyperSettings
<1>4. ScoreWithTee(c, e, g, fail, cheat, p, tee) \in ScoreRows
    BY <1>1, <1>2, <1>3 DEF ScoreWithTee, apply_gpu_integrity
<1> QED
    BY <1>1, <1>4

\* A proof that may be worth a bonus.
Good(p) == p.verified /\ p.verdict = "valid" /\ p.mode # "sim"

\* Only such a proof is: the tee bonus of any other is 1.0 (compute_tee_bonus).
LEMMA BonusNeedsProof ==
    ASSUME NEW p \in Proof, NEW tee \in TeeMode, NEW c \in Gate, NEW e \in Efficiency,
           NEW g \in Gate, NEW fail \in BOOLEAN, NEW cheat \in BOOLEAN
    PROVE  /\ ScoreRow(c, e, g, p, tee, cheat).tee_bonus > NoBonus => Good(p)
           /\ ScoreWithTee(c, e, g, fail, cheat, p, tee).tee_bonus > NoBonus => Good(p)
<1>1. ASSUME NEW f \in BOOLEAN, ~Good(p), p.verified
      PROVE  compute_tee_bonus(p, tee, f).tee_bonus = NoBonus
    BY <1>1 DEF compute_tee_bonus, Decision, Good
<1>2. ASSUME ~Good(p), NEW k, NEW h, NEW q
      PROVE  ScoreRow(k, e, h, p, tee, q).tee_bonus = NoBonus
    <2> DEFINE d == decision_from_proof(p, tee)
    <2>1. (p.verdict = "broken" /\ tee # "none") \in BOOLEAN
        OBVIOUS
    <2>2. p.verified => d.tee_bonus = NoBonus
        BY <1>1, <1>2, <2>1 DEF decision_from_proof
    <2>3. ScoreRow(k, e, h, p, tee, q).tee_bonus
              = coerce_tee_bonus(IF p.verified THEN d.tee_bonus ELSE NoBonus)
        BY DEF ScoreRow
    <2> HIDE DEF d
    <2> QED BY <2>2, <2>3 DEF coerce_tee_bonus
<1> QED
    BY <1>2 DEF ScoreWithTee, NoBonus

\* Without correctness there is no mass.
LEMMA NoMass ==
    ASSUME NEW e \in Efficiency, NEW g \in Gate, NEW fail \in BOOLEAN, NEW cheat \in BOOLEAN,
           NEW p \in Proof, NEW tee \in TeeMode
    PROVE  ScoreWithTee(0, e, g, fail, cheat, p, tee).composite = 0
<1> DEFINE h == apply_gpu_integrity(g, GpuZero)
           q == cheat \/ GpuZero
           d == decision_from_proof(p, tee)
           b == IF p.verified THEN d.tee_bonus ELSE NoBonus
           z == d.integrity_zero \/ q
<1>1. ScoreWithTee(0, e, g, fail, cheat, p, tee).composite = Composite(0, e, h, b, z)
    BY DEF ScoreWithTee, ScoreRow, apply_gpu_integrity
<1>2. h \in Gate /\ b \in Nat
    <2>1. d \in [tee_bonus : Bonus, integrity_zero : BOOLEAN]
        BY BonusType
    <2>2. 0 \in Gate
        BY DEF Gate, Whole
    <2> HIDE DEF d
    <2> QED BY <2>1, <2>2 DEF apply_gpu_integrity, Bonus, NoBonus
<1> HIDE DEF h, b, z
<1>3. coerce_gate01(0) = 0 /\ coerce_gate01(h) \in Nat
    BY DEF coerce_gate01, Whole
<1>4. EfficiencyForProduct(e) \in Nat /\ coerce_tee_bonus(b) \in Nat
    BY <1>2 DEF EfficiencyForProduct, Efficiency, Whole, coerce_tee_bonus, NoBonus
<1>5. \A x, y, w \in Nat : 0 * x * y * w = 0
    OBVIOUS
<1> QED
    BY <1>1, <1>3, <1>4, <1>5 DEF Composite

\* What an attempt earns is a natural number.
LEMMA DeltaType ==
    ASSUME NEW a \in Attempt, NEW row \in ScoreRows
    PROVE  Delta(a, row) \in Nat
<1> DEFINE list == Prices[a].list
           catalog == Prices[a].catalog
           w == compute_price_weight(list, catalog)
<1>1. list \in Nat /\ catalog \in Nat
    OBVIOUS
<1>2. w \in Nat
    <2>1. /\ Hyper.price_weight_floor \in Nat
          /\ Hyper.price_weight_ceil \in Nat
          /\ Hyper.price_weight_missing \in Nat
        BY DEF HyperSettings
    <2> HIDE DEF list, catalog
    <2>2. list # 0 => (Percent * catalog) \div list \in Int
        BY <1>1 DEF Percent
    <2>3. CASE ~Hyper.price_weight_in_earn
        BY <2>3 DEF compute_price_weight, Percent
    <2>4. CASE Hyper.price_weight_in_earn /\ 0 \in {list, catalog}
        BY <2>1, <2>4 DEF compute_price_weight
    <2>5. CASE Hyper.price_weight_in_earn /\ 0 \notin {list, catalog}
        <3> DEFINE x == (Percent * catalog) \div list
        <3>1. x \in Int
            BY <2>2, <2>5
        <3>2. \A lo \in Nat, hi \in Nat : Between(x, lo, hi) \in Nat
            <4> HIDE DEF x
            <4> QED BY <3>1 DEF Between
        <3> QED
            BY <2>1, <2>5, <3>2 DEF compute_price_weight
    <2> QED BY <2>3, <2>4, <2>5
<1>3. row.composite \in Nat /\ Hyper.points_scale \in Nat
    BY DEF ScoreRows, HyperSettings
<1>4. \A k, n, v \in Nat : k * n * v \in Nat
    OBVIOUS
<1> HIDE DEF w
<1>5. compute_score_earn_delta(row.composite, w) \in Nat
    BY <1>2, <1>3, <1>4 DEF compute_score_earn_delta
<1> QED
    BY <1>5 DEF Delta, w
-----------------------------------------------------------------------------
\* What a step does to the books: nothing, or one payment, of what the score
\* that it writes is worth, to the submitter of an attempt not paid before.
Payment(a, delta) ==
    /\ ~Paid(a)
    /\ balance' = [balance EXCEPT ![Owner[a]] = @ + delta]
    /\ ledger' = [ledger EXCEPT ![Owner[a]] = Append(@,
          [attempt |-> a, delta |-> delta, balance_after |-> balance[Owner[a]] + delta])]
    /\ score'[a].composite > 0
    /\ delta = Delta(a, score'[a])

BooksStep ==
    \/ UNCHANGED <<ledger, balance>>
    \/ \E a \in Attempt, delta \in Nat \ {0} : Payment(a, delta)

BooksType ==
    /\ score \in [Attempt -> ScoreRows \cup {NoScore}]
    /\ ledger \in [Hotkey -> Seq(LedgerRow)]
    /\ balance \in [Hotkey -> Nat]
    /\ unpaid \in SUBSET Attempt

\* Sealing a score with a well formed row keeps the books well formed.
LEMMA PersistBooks ==
    ASSUME BooksType, NEW a \in Attempt, NEW row \in ScoreRows, PersistScore(a, row)
    PROVE  BooksType' /\ BooksStep
<1>1. Delta(a, row) \in Nat
    BY DeltaType
<1>2. Owner[a] \in Hotkey
    OBVIOUS
<1>3. score' = [score EXCEPT ![a] = row] /\ score'[a] = row
    BY DEF PersistScore, BooksType
<1>4. score' \in [Attempt -> ScoreRows \cup {NoScore}]
    BY <1>3 DEF BooksType
<1>5. CASE EarnAs(a, row, After(a, row))
    <2> DEFINE h == Owner[a]
               d == Delta(a, row)
               new == [attempt |-> a, delta |-> d, balance_after |-> balance[h] + d]
    <2>1. /\ ~Paid(a) /\ d > 0
          /\ balance' = [balance EXCEPT ![h] = balance[h] + d]
          /\ ledger' = [ledger EXCEPT ![h] = Append(ledger[h], new)]
          /\ unpaid' = unpaid
        BY <1>5 DEF EarnAs, Earns, After
    <2>2. h \in Hotkey /\ d \in Nat \ {0} /\ balance[h] \in Nat /\ ledger[h] \in Seq(LedgerRow)
        BY <1>1, <1>2, <2>1 DEF BooksType
    <2>3. d = Delta(a, score'[a])
        BY <1>3
    <2>4. row.composite > 0
        <3>1. row.composite \in Nat
            BY DEF ScoreRows
        <3>2. row.composite <= 0 => d = 0
            BY DEF Delta, compute_score_earn_delta
        <3> QED BY <3>1, <3>2, <2>2
    <2>5. score'[a].composite > 0
        BY <1>3, <2>4
    <2>6. new \in LedgerRow
        <3> HIDE DEF h, d
        <3> QED BY <2>2 DEF LedgerRow
    <2> HIDE DEF h, d, new
    <2>7. balance' \in [Hotkey -> Nat] /\ ledger' \in [Hotkey -> Seq(LedgerRow)]
        <3>1. Append(ledger[h], new) \in Seq(LedgerRow)
            BY <2>2, <2>6
        <3> QED BY <2>1, <2>2, <3>1 DEF BooksType
    <2>8. Payment(a, d)
        BY <2>1, <2>3, <2>5 DEF Payment, h, new
    <2> QED
        BY <1>4, <2>1, <2>2, <2>7, <2>8 DEF BooksType, BooksStep
<1>6. CASE EarnFails(a, row) \/ EarnsNothing(a, row)
    BY <1>4, <1>6 DEF EarnFails, EarnsNothing, books, BooksType, BooksStep
<1> QED
    BY <1>5, <1>6 DEF PersistScore, Earn

\* What a step does to scores and proofs: it keeps them, or seals one score.
Backed(row, rows) ==
    row.composite > 0 /\ row.tee_bonus > NoBonus => \E r \in rows : Good(r.proof)

BooksKept == UNCHANGED <<score, ledger, balance, unpaid>>

Seals ==
    \/ BooksKept /\ \A b \in Attempt : proofs[b] \subseteq proofs'[b]
    \/ \E a \in Attempt, row \in ScoreRows :
          /\ PersistScore(a, row)
          /\ Backed(row, proofs'[a])
          /\ \A b \in Attempt \ {a} : proofs[b] \subseteq proofs'[b]

LEMMA SealsBooks ==
    ASSUME BooksType, Seals
    PROVE  BooksType' /\ BooksStep
<1>1. CASE BooksKept
    BY <1>1 DEF BooksType, BooksKept, BooksStep
<1> QED
    BY <1>1, PersistBooks DEF Seals

\* Collected results belong to a job that ended, so the results that collect
\* keeps were posted.
CollectedIsOver == \A a \in Attempt : results[a] = Collected => a \in over

Inv == TypeOK /\ CollectedIsOver

\* What a post says is defaulted to an efficiency and a gate.
LEMMA PostDefaults ==
    ASSUME NEW post \in Posts
    PROVE  /\ Suspect(post) \in BOOLEAN /\ post.cheat \in BOOLEAN
           /\ OrElse(post.efficiency, 0) \in Efficiency
           /\ OrElse(post.efficiency, Whole) \in Efficiency
           /\ OrDefault(post.efficiency, Whole) \in Efficiency
           /\ OrDefault(post.gate, Whole) \in Gate
           /\ \A g \in Gate : OrDefault(OrElse(post.gate, g), Whole) \in Gate
<1>1. post \in Post
    OBVIOUS
<1> QED
    BY <1>1 DEF Post, Suspect, OrElse, OrDefault, NotGiven, Efficiency, Gate, Whole

LEMMA SimProofType ==
    ASSUME NEW tee \in TeeMode, NEW fail \in BOOLEAN
    PROVE  build_sim_proof(tee, fail) \in Proof
BY DEF build_sim_proof, Proof, TeeMode, Tier, VerifyMode, Verdict

LEMMA PostedProofType ==
    ASSUME NEW post \in Posts
    PROVE  PostedProof(post) \in Proof
<1>1. post \in Post
    OBVIOUS
<1> QED
    BY <1>1 DEF PostedProof, Post, Proof, Verdict

LEMMA QuoteProofType ==
    ASSUME NEW a \in Attempt, NEW post \in Posts
    PROVE  QuoteProof(a, post) \in Proof
<1>1. post \in Post
    OBVIOUS
<1>2. verify_tee(post.quote, a, post.verify_mode, Tee[a] = "tdx+gpu_cc") \in Verdict
    BY DEF verify_tee, Verdict
<1>3. tier_for_tee_mode(Tee[a]) \in Tier
    BY DEF tier_for_tee_mode, TeeMode, Tier
<1> DEFINE v == verify_tee(post.quote, a, post.verify_mode, Tee[a] = "tdx+gpu_cc")
<1> HIDE DEF v
<1>4. v \in Verdict /\ post.verify_mode \in VerifyMode
    BY <1>1, <1>2 DEF v, Post
<1>5. attach_offline_proof(Tee[a], v, post.verify_mode) \in Proof
    BY <1>3, <1>4 DEF attach_offline_proof, Proof
<1> QED
    BY <1>5 DEF QuoteProof, v

\* A new row's number is within the bound.
LEMMA RowsType ==
    ASSUME serial \in Nat, NEW k \in Nat \ {0}, serial + k <= MaxProofs, NEW p \in Proof
    PROVE  Row(k, p) \in ProofRow /\ Row(k, p).proof = p
BY DEF Row, ProofRow

LEMMA GpuZeroType == GpuZero \in BOOLEAN
BY DEF GpuZero, evaluate_gpu_probe_integrity, HyperSettings

\* What the part of the state outside the books must keep.
RestType ==
    /\ results \in [Attempt -> Posts \cup {NoResults, Collected}]
    /\ over \in SUBSET Attempt
    /\ timedOut \in SUBSET over
    /\ proofs \in [Attempt -> SUBSET ProofRow]
    /\ serial \in 0..MaxProofs
    /\ quoted \in SUBSET Attempt
    /\ proc \in [Process -> {Idle} \cup Posting \cup TimingOut]
    /\ CollectedIsOver

LEMMA InvSplit == Inv <=> BooksType /\ RestType
BY DEF Inv, TypeOK, BooksType, RestType

LEMMA InvJoin == BooksType' /\ RestType' => Inv'
BY DEF Inv, TypeOK, BooksType, RestType

\* Inserting proofs deletes none.
LEMMA InsertKeeps ==
    ASSUME RestType, NEW a \in Attempt, NEW new,
           Insert(a, new) \/ UNCHANGED proofs
    PROVE  /\ \A b \in Attempt : proofs[b] \subseteq proofs'[b]
           /\ Insert(a, new) => new \subseteq proofs'[a]
BY DEF RestType, Insert

\* A process that stands at a line of post_job_results or mark_timeout has read
\* what that line needs.
LEMMA ReadType ==
    ASSUME RestType, NEW p \in Process
    PROVE  /\ ~At(p, "idle") => proc[p] \in Posting \cup TimingOut
           /\ At(p, "post") \/ At(p, "posted") \/ At(p, "quote") => proc[p] \in Posting
           /\ At(p, "timeout") => proc[p] \in TimingOut
BY DEF RestType, At, Idle, Posting, TimingOut

LEMMA ReturnType ==
    ASSUME RestType, NEW p \in Process, Return(p)
    PROVE  proc' \in [Process -> {Idle} \cup Posting \cup TimingOut]
BY DEF RestType, Return

LEMMA InsertType ==
    ASSUME RestType, NEW a \in Attempt, NEW new \in SUBSET ProofRow, Insert(a, new)
    PROVE  proofs' \in [Attempt -> SUBSET ProofRow]
BY DEF RestType, Insert

LEMMA PostReadStep ==
    ASSUME Inv, NEW p \in Client, NEW a \in Attempt, NEW post \in Posts, PostRead(p, a, post)
    PROVE  Seals /\ RestType'
<1>1. RestType
    BY InvSplit
<1>2. p \in Process
    BY DEF Process
<1> DEFINE rec(pc) == [pc |-> pc, a |-> a, post |-> post, seen |-> proofs[a], scored |-> Scored(a)]
<1>3. proofs[a] \in SUBSET ProofRow /\ Scored(a) \in BOOLEAN
    BY <1>1 DEF RestType, Scored
<1>4. \A pc \in {"post", "posted", "quote"} : rec(pc) \in Posting
    BY <1>3 DEF Posting
<1>5. \/ proc' = [proc EXCEPT ![p] = rec("post")]
      \/ proc' = [proc EXCEPT ![p] = rec("posted")]
    BY DEF PostRead, Read
<1> HIDE DEF rec
<1>6. proc' \in [Process -> {Idle} \cup Posting \cup TimingOut]
    BY <1>1, <1>2, <1>4, <1>5 DEF RestType
<1> QED
    BY <1>1, <1>6 DEF PostRead, RestType, Seals, BooksKept, jobs, books, CollectedIsOver

LEMMA PostWriteStep ==
    ASSUME Inv, NEW p \in Client, PostWrite(p)
    PROVE  Seals /\ RestType'
<1>1. RestType /\ BooksType
    BY InvSplit
<1>2. p \in Process
    BY DEF Process
<1>3. proc[p] \in Posting
    BY <1>1, <1>2, ReadType DEF PostWrite
<1> DEFINE a == proc[p].a
           post == proc[p].post
           posted == Row(1, PostedProof(post))
           sim == Row(2, build_sim_proof(Tee[a], Suspect(post) \/ GpuZero))
           gate == IF Suspect(post) THEN 0 ELSE OrDefault(post.gate, Whole)
           row(r) == ScoreWithTee(0, OrElse(post.efficiency, 0), gate, Suspect(post), post.cheat,
                                  r.proof, Tee[a])
<1>4. a \in Attempt /\ post \in Posts /\ proc[p].seen \in SUBSET ProofRow
    BY <1>3 DEF Posting
<1>5. /\ serial + 2 <= MaxProofs
      /\ results' = [results EXCEPT ![a] = post]
      /\ over' \in {over, over \cup {a}}
      /\ timedOut' = timedOut /\ quoted' = quoted
      /\ proc' = [proc EXCEPT ![p] = IF post.quote = NoQuote THEN Idle
                                     ELSE [proc[p] EXCEPT !.pc = "posted"]]
    BY DEF PostWrite
<1>6. \/ UNCHANGED <<proofs, score, books, serial>>
      \/ UNCHANGED <<proofs, serial>> /\ \E r \in proc[p].seen : PersistScore(a, row(r))
      \/ Insert(a, {posted}) /\ serial' = serial + 1 /\ UNCHANGED <<score, books>>
      \/ Insert(a, {posted, sim}) /\ serial' = serial + 2 /\ PersistScore(a, row(sim))
    BY DEF PostWrite
<1>7. Tee[a] \in TeeMode /\ (Suspect(post) \/ GpuZero) \in BOOLEAN
    BY <1>4, PostDefaults, GpuZeroType
<1>8. serial \in Nat /\ serial + 1 <= MaxProofs
    BY <1>1, <1>5 DEF RestType
<1>9. posted \in ProofRow
    BY <1>4, <1>8, RowsType, PostedProofType
<1>10. sim \in ProofRow
    <2>1. build_sim_proof(Tee[a], Suspect(post) \/ GpuZero) \in Proof
        BY <1>7, SimProofType
    <2> QED BY <1>5, <1>8, <2>1, RowsType
<1>11. \A r \in ProofRow : row(r) \in ScoreRows /\ row(r).composite = 0
    <2> SUFFICES ASSUME NEW r \in ProofRow PROVE row(r) \in ScoreRows /\ row(r).composite = 0
        OBVIOUS
    <2>1. r.proof \in Proof
        BY DEF ProofRow
    <2>2. 0 \in Gate
        BY DEF Gate, Whole
    <2>3. gate \in Gate
        BY <1>4, <2>2, PostDefaults
    <2>4. Suspect(post) \in BOOLEAN /\ post.cheat \in BOOLEAN
          /\ OrElse(post.efficiency, 0) \in Efficiency
        BY <1>4, PostDefaults
    <2> HIDE DEF gate, a, post
    <2> QED
        BY <1>7, <2>1, <2>2, <2>3, <2>4, RowType, NoMass
<1> HIDE DEF a, post, posted, sim, gate, row
<1>12. Seals
    <2>1. \A b \in Attempt : proofs[b] \subseteq proofs'[b]
        BY <1>1, <1>4, <1>6, InsertKeeps
    <2>2. CASE UNCHANGED <<score, books>>
        BY <2>1, <2>2 DEF Seals, BooksKept, books
    <2>3. ASSUME NEW r \in ProofRow, PersistScore(a, row(r))
          PROVE  Seals
        BY <1>4, <1>11, <2>1, <2>3 DEF Seals, Backed
    <2> QED
        BY <1>4, <1>6, <1>10, <2>2, <2>3
<1>13. proofs' \in [Attempt -> SUBSET ProofRow] /\ serial' \in 0..MaxProofs
    <2>1. CASE UNCHANGED <<proofs, serial>>
        BY <1>1, <2>1 DEF RestType
    <2>2. CASE Insert(a, {posted}) /\ serial' = serial + 1
        BY <1>1, <1>4, <1>8, <1>9, <2>2, InsertType
    <2>3. CASE Insert(a, {posted, sim}) /\ serial' = serial + 2
        BY <1>1, <1>4, <1>5, <1>8, <1>9, <1>10, <2>3, InsertType
    <2> QED
        BY <1>6, <2>1, <2>2, <2>3
<1>14. proc' \in [Process -> {Idle} \cup Posting \cup TimingOut]
    <2>1. [proc[p] EXCEPT !.pc = "posted"] \in Posting
        BY <1>3 DEF Posting
    <2> QED BY <1>1, <1>2, <1>5, <2>1 DEF RestType
<1>15. results' \in [Attempt -> Posts \cup {NoResults, Collected}]
    BY <1>1, <1>4, <1>5 DEF RestType
<1>16. over' \in SUBSET Attempt /\ timedOut' \in SUBSET over' /\ quoted' \in SUBSET Attempt
    BY <1>1, <1>4, <1>5 DEF RestType
<1>17. CollectedIsOver'
    <2>1. post # Collected
        <3>1. post \in Post
            BY <1>4
        <3>2. Collected \notin Post
            BY DEF Collected, Post
        <3> QED BY <3>1, <3>2
    <2> QED
        BY <1>1, <1>4, <1>5, <2>1 DEF RestType, CollectedIsOver
<1> QED
    BY <1>12, <1>13, <1>14, <1>15, <1>16, <1>17 DEF RestType

LEMMA QuoteReadStep ==
    ASSUME Inv, NEW p \in Client, QuoteRead(p)
    PROVE  Seals /\ RestType'
<1>1. RestType
    BY InvSplit
<1>2. p \in Process
    BY DEF Process
<1>3. proc[p] \in Posting
    BY <1>1, <1>2, ReadType DEF QuoteRead
<1> DEFINE a == proc[p].a
           rec == [pc |-> "quote", a |-> a, post |-> proc[p].post, seen |-> proofs[a],
                   scored |-> Scored(a)]
<1>4. a \in Attempt /\ proc[p].post \in Posts
    BY <1>3 DEF Posting
<1>5. proofs[a] \in SUBSET ProofRow /\ Scored(a) \in BOOLEAN
    BY <1>1, <1>4 DEF RestType, Scored
<1>6. rec \in Posting
    <2> HIDE DEF a
    <2> QED BY <1>4, <1>5 DEF Posting
<1>7. proc' = [proc EXCEPT ![p] = rec]
    BY DEF QuoteRead, Read
<1> HIDE DEF rec
<1>8. proc' \in [Process -> {Idle} \cup Posting \cup TimingOut]
    BY <1>1, <1>2, <1>6, <1>7 DEF RestType
<1> QED
    BY <1>1, <1>8 DEF QuoteRead, RestType, Seals, BooksKept, jobs, books, CollectedIsOver

LEMMA QuoteWriteStep ==
    ASSUME Inv, NEW p \in Client, QuoteWrite(p)
    PROVE  Seals /\ RestType'
<1>1. RestType /\ BooksType
    BY InvSplit
<1>2. p \in Process
    BY DEF Process
<1>3. proc[p] \in Posting
    BY <1>1, <1>2, ReadType DEF QuoteWrite
<1> DEFINE a == proc[p].a
           post == proc[p].post
           new == Row(1, QuoteProof(a, post))
           row == ScoreRow(IF new.proof.verified THEN Whole ELSE 0,
                           OrDefault(post.efficiency, Whole),
                           OrDefault(post.gate, Whole), new.proof, Tee[a], FALSE)
<1>4. a \in Attempt /\ post \in Posts /\ proc[p].seen \in SUBSET ProofRow
    BY <1>3 DEF Posting
<1>5. /\ serial < MaxProofs /\ serial' = serial + 1
      /\ proofs' = [proofs EXCEPT ![a] = (proofs[a] \ proc[p].seen) \cup {new}]
      /\ quoted' \in {quoted, quoted \cup {a}}
      /\ PersistScore(a, row)
      /\ Return(p)
      /\ UNCHANGED jobs
    BY DEF QuoteWrite
<1>6. serial \in Nat /\ serial + 1 <= MaxProofs
    BY <1>1, <1>5 DEF RestType
<1>7. new \in ProofRow /\ new.proof \in Proof
    <2>1. QuoteProof(a, post) \in Proof
        BY <1>4, QuoteProofType
    <2> QED BY <1>6, <2>1, RowsType
<1>8. row \in ScoreRows /\ (row.tee_bonus > NoBonus => Good(new.proof))
    <2>1. Whole \in Gate /\ 0 \in Gate
        BY DEF Gate, Whole
    <2>2. OrDefault(post.efficiency, Whole) \in Efficiency /\ OrDefault(post.gate, Whole) \in Gate
        BY <1>4, PostDefaults
    <2>3. Tee[a] \in TeeMode
        BY <1>4
    <2>4. row.tee_bonus > NoBonus => Good(new.proof)
        <3> HIDE DEF a, post, new
        <3> QED BY <1>7, <2>1, <2>2, <2>3, BonusNeedsProof
    <2> HIDE DEF a, post, new
    <2> QED BY <1>7, <2>1, <2>2, <2>3, <2>4, RowType
<1> HIDE DEF a, post, new, row
<1>9. Seals
    <2>1. new \in proofs'[a] /\ \A b \in Attempt \ {a} : proofs[b] \subseteq proofs'[b]
        BY <1>1, <1>4, <1>5 DEF RestType
    <2> QED BY <1>4, <1>5, <1>8, <2>1 DEF Seals, Backed
<1>10. proofs' \in [Attempt -> SUBSET ProofRow]
    BY <1>1, <1>4, <1>5, <1>7 DEF RestType
<1>11. serial' \in 0..MaxProofs
    BY <1>5, <1>6
<1>12. proc' \in [Process -> {Idle} \cup Posting \cup TimingOut]
    BY <1>1, <1>2, <1>5, ReturnType
<1> QED
    BY <1>1, <1>4, <1>5, <1>9, <1>10, <1>11, <1>12 DEF RestType, jobs, CollectedIsOver

LEMMA TimeoutReadStep ==
    ASSUME Inv, NEW a \in Attempt, TimeoutRead(a)
    PROVE  Seals /\ RestType'
<1>1. RestType
    BY InvSplit
<1>2. Worker \in Process
    BY DEF Process
<1> DEFINE rec == [pc |-> "timeout", a |-> a, post |-> NoResults, seen |-> proofs[a],
                   scored |-> Scored(a)]
<1>3. proofs[a] \in SUBSET ProofRow /\ Scored(a) \in BOOLEAN
    BY <1>1 DEF RestType, Scored
<1>4. rec \in TimingOut
    BY <1>3 DEF TimingOut
<1>5. proc' = [proc EXCEPT ![Worker] = rec]
    BY DEF TimeoutRead, Read
<1> HIDE DEF rec
<1>6. proc' \in [Process -> {Idle} \cup Posting \cup TimingOut]
    BY <1>1, <1>2, <1>4, <1>5 DEF RestType
<1> QED
    BY <1>1, <1>6 DEF TimeoutRead, RestType, Seals, BooksKept, jobs, books, CollectedIsOver

\* The score of a timeout is well formed and zero, and a sim proof numbered next
\* is well formed.
LEMMA ZeroRowType ==
    ASSUME NEW a \in Attempt, NEW r \in ProofRow
    PROVE  ZeroRow(a, r) \in ScoreRows /\ ZeroRow(a, r).composite = 0
<1>1. r.proof \in Proof /\ 0 \in Gate /\ 0 \in Efficiency /\ Tee[a] \in TeeMode
    BY DEF ProofRow, Gate, Efficiency, Whole
<1> QED
    BY <1>1, RowType, NoMass DEF ZeroRow

LEMMA NextSim ==
    ASSUME RestType, NEW a \in Attempt, NEW fail \in BOOLEAN, serial < MaxProofs
    PROVE  /\ Row(1, build_sim_proof(Tee[a], fail)) \in ProofRow
           /\ serial + 1 \in 0..MaxProofs
<1>1. serial \in Nat /\ serial + 1 <= MaxProofs
    BY DEF RestType
<1>2. build_sim_proof(Tee[a], fail) \in Proof
    BY SimProofType
<1> QED
    BY <1>1, <1>2, RowsType

LEMMA TimeoutWriteStep ==
    ASSUME Inv, TimeoutWrite
    PROVE  Seals /\ RestType'
<1>1. RestType /\ BooksType
    BY InvSplit
<1>2. Worker \in Process
    BY DEF Process
<1>3. proc[Worker] \in TimingOut
    BY <1>1, <1>2, ReadType DEF TimeoutWrite
<1> DEFINE a == proc[Worker].a
           sim == Row(1, build_sim_proof(Tee[a], GpuZero))
<1>4. a \in Attempt /\ proc[Worker].seen \in SUBSET ProofRow
    BY <1>3 DEF TimingOut
<1>5. /\ serial < MaxProofs
      /\ over' = over \cup {a} /\ timedOut' = timedOut \cup {a}
      /\ Return(Worker)
      /\ UNCHANGED <<results, quoted>>
    BY DEF TimeoutWrite
<1>6. \/ Insert(a, {sim}) /\ serial' = serial + 1 /\ PersistScore(a, ZeroRow(a, sim))
      \/ UNCHANGED <<proofs, serial>> /\ \E r \in proc[Worker].seen : PersistScore(a, ZeroRow(a, r))
    BY DEF TimeoutWrite
<1>7. sim \in ProofRow /\ serial + 1 \in 0..MaxProofs
    BY <1>1, <1>4, <1>5, NextSim, GpuZeroType
<1> HIDE DEF a, sim
<1>8. Seals
    <2>1. \A b \in Attempt : proofs[b] \subseteq proofs'[b]
        BY <1>1, <1>4, <1>6, InsertKeeps
    <2>2. ASSUME NEW r \in ProofRow, PersistScore(a, ZeroRow(a, r))
          PROVE  Seals
        BY <1>4, <2>1, <2>2, ZeroRowType DEF Seals, Backed
    <2> QED
        BY <1>4, <1>6, <1>7, <2>2
<1>9. proofs' \in [Attempt -> SUBSET ProofRow] /\ serial' \in 0..MaxProofs
    <2>1. CASE Insert(a, {sim}) /\ serial' = serial + 1
        BY <1>1, <1>4, <1>7, <2>1, InsertType
    <2> QED
        BY <1>1, <1>6, <2>1 DEF RestType
<1>10. proc' \in [Process -> {Idle} \cup Posting \cup TimingOut]
    BY <1>1, <1>2, <1>5, ReturnType
<1> QED
    BY <1>1, <1>4, <1>5, <1>8, <1>9, <1>10 DEF RestType, CollectedIsOver

\* The score of a collected attempt is well formed and its bonus is its proof's.
LEMMA CollectedRowType ==
    ASSUME Inv, NEW a \in Attempt, a \notin over, NEW launch \in Launches, NEW r \in ProofRow
    PROVE  /\ CollectedRow(a, launch, r) \in ScoreRows
           /\ CollectedRow(a, launch, r).tee_bonus > NoBonus => Good(r.proof)
<1> DEFINE post == results[a]
           zero == launch.integrity_fail \/ (Sealed(a) /\ post.cheat)
           efficiency == IF Sealed(a) THEN OrElse(post.efficiency, Whole)
                         ELSE OrDefault(launch.efficiency, Whole)
           gate == IF Sealed(a) THEN OrDefault(OrElse(post.gate, launch.gate), Whole)
                   ELSE launch.gate
<1>1. r.proof \in Proof /\ Tee[a] \in TeeMode
    BY DEF ProofRow
<1>2. launch \in Launch
    OBVIOUS
<1>3. Sealed(a) => post \in Posts
    BY DEF Inv, TypeOK, CollectedIsOver, Sealed
<1>4. Whole \in Gate /\ 0 \in Gate
    BY DEF Gate, Whole
<1>5. zero \in BOOLEAN
    BY <1>2 DEF Launch
<1>6. efficiency \in Efficiency
    <2>1. OrDefault(launch.efficiency, Whole) \in Efficiency
        BY <1>2 DEF Launch, OrDefault, Efficiency, Whole, NotGiven
    <2> QED BY <1>3, <2>1, PostDefaults
<1>7. gate \in Gate
    <2>1. launch.gate \in Gate
        BY <1>2 DEF Launch
    <2> QED BY <1>3, <2>1, PostDefaults
<1>8. CollectedRow(a, launch, r) =
          ScoreWithTee(IF zero THEN 0 ELSE Whole, efficiency, IF zero THEN 0 ELSE gate,
                       zero, zero, r.proof, Tee[a])
    BY DEF CollectedRow
<1> HIDE DEF zero, efficiency, gate
<1> DEFINE c == IF zero THEN 0 ELSE Whole
           g == IF zero THEN 0 ELSE gate
           k == ScoreWithTee(c, efficiency, g, zero, zero, r.proof, Tee[a])
<1>9. c \in Gate /\ g \in Gate
    BY <1>4, <1>7
<1> HIDE DEF c, g
<1>10. k \in ScoreRows /\ (k.tee_bonus > NoBonus => Good(r.proof))
    BY <1>1, <1>5, <1>6, <1>9, RowType, BonusNeedsProof
<1>11. CollectedRow(a, launch, r) = k
    BY <1>8 DEF c, g
<1> HIDE DEF k
<1> QED BY <1>10, <1>11

LEMMA CollectStep ==
    ASSUME Inv, NEW a \in Attempt, NEW launch \in Launches, Collect(a, launch)
    PROVE  Seals /\ RestType'
<1>1. RestType /\ BooksType
    BY InvSplit
<1> DEFINE fails == ~Sealed(a) /\ launch.status = "failed"
           expires == ~Sealed(a) /\ launch.status = "timeout"
           cheats == launch.integrity_fail \/ (Sealed(a) /\ results[a].cheat)
           sim == Row(1, build_sim_proof(Tee[a], GpuZero \/ (~expires /\ cheats)))
           row(r) == IF expires THEN ZeroRow(a, r) ELSE CollectedRow(a, launch, r)
<1>2. /\ a \notin over
      /\ over' = over \cup {a}
      /\ timedOut' \in {timedOut, timedOut \cup {a}}
      /\ results' \in {results, [results EXCEPT ![a] = Collected]}
      /\ UNCHANGED <<proc, quoted>>
    BY DEF Collect
<1>3. \/ UNCHANGED <<proofs, serial, score, books>>
      \/ /\ serial < MaxProofs /\ serial' = serial + 1
         /\ Insert(a, {sim}) /\ PersistScore(a, row(sim))
      \/ (\E r \in proofs[a] : PersistScore(a, row(r))) /\ UNCHANGED <<proofs, serial>>
    BY DEF Collect
<1>4. serial < MaxProofs => sim \in ProofRow /\ serial + 1 \in 0..MaxProofs
    <2>1. (GpuZero \/ (~expires /\ cheats)) \in BOOLEAN
        OBVIOUS
    <2> HIDE DEF expires, cheats
    <2> QED BY <1>1, <2>1, NextSim
<1>5. \A r \in ProofRow : row(r) \in ScoreRows /\ \A S : r \in S => Backed(row(r), S)
    BY <1>2, ZeroRowType, CollectedRowType DEF Backed
<1>6. proofs[a] \in SUBSET ProofRow
    BY <1>1 DEF RestType
<1> HIDE DEF sim, row
<1>7. Seals
    <2>1. \A b \in Attempt : proofs[b] \subseteq proofs'[b]
        BY <1>1, <1>3, InsertKeeps
    <2>2. CASE UNCHANGED <<score, books>>
        BY <2>1, <2>2 DEF Seals, BooksKept, books
    <2>3. ASSUME NEW r \in ProofRow, r \in proofs'[a], PersistScore(a, row(r))
          PROVE  Seals
        BY <1>5, <2>1, <2>3 DEF Seals
    <2>4. CASE serial < MaxProofs /\ Insert(a, {sim}) /\ PersistScore(a, row(sim))
        <3>1. sim \in proofs'[a]
            BY <1>1, <2>4, InsertKeeps
        <3> QED BY <1>4, <2>3, <2>4, <3>1
    <2>5. CASE \E r \in proofs[a] : PersistScore(a, row(r))
        BY <1>6, <2>1, <2>3, <2>5
    <2> QED
        BY <1>3, <2>2, <2>4, <2>5
<1>8. proofs' \in [Attempt -> SUBSET ProofRow] /\ serial' \in 0..MaxProofs
    <2>1. CASE serial < MaxProofs /\ serial' = serial + 1 /\ Insert(a, {sim})
        BY <1>1, <1>4, <2>1, InsertType
    <2> QED
        BY <1>1, <1>3, <2>1 DEF RestType
<1> QED
    BY <1>1, <1>2, <1>7, <1>8 DEF RestType, CollectedIsOver

LEMMA AbortStep ==
    ASSUME Inv, NEW p \in Process, Abort(p)
    PROVE  Seals /\ RestType'
<1>1. RestType
    BY InvSplit
<1>2. proc' \in [Process -> {Idle} \cup Posting \cup TimingOut]
    BY <1>1, ReturnType DEF Abort
<1> QED
    BY <1>1, <1>2 DEF Abort, RestType, Seals, BooksKept, jobs, books, CollectedIsOver

\* Every step keeps the invariant and seals at most one score, which does to the
\* books nothing or one payment.
LEMMA Step ==
    ASSUME Inv, [Next]_vars
    PROVE  Inv' /\ Seals /\ BooksStep
<1>1. BooksType
    BY InvSplit
<1>2. CASE UNCHANGED vars
    <2>1. Seals
        BY <1>2 DEF vars, books, Seals, BooksKept
    <2> QED BY <1>1, <1>2, <2>1, SealsBooks DEF Inv, TypeOK, CollectedIsOver, vars, jobs, books
<1>3. ASSUME Seals /\ RestType'
      PROVE  Inv' /\ Seals /\ BooksStep
    BY <1>1, <1>3, SealsBooks, InvJoin
<1>4. ASSUME NEW p \in Client, NEW a \in Attempt, NEW post \in Posts, PostRead(p, a, post)
      PROVE  Seals /\ RestType'
    BY <1>4, PostReadStep
<1>5. ASSUME NEW p \in Client, PostWrite(p) \/ QuoteRead(p) \/ QuoteWrite(p)
      PROVE  Seals /\ RestType'
    BY <1>5, PostWriteStep, QuoteReadStep, QuoteWriteStep
<1>6. ASSUME NEW a \in Attempt, TimeoutRead(a)
      PROVE  Seals /\ RestType'
    BY <1>6, TimeoutReadStep
<1>7. ASSUME NEW a \in Attempt, NEW launch \in Launches, Collect(a, launch)
      PROVE  Seals /\ RestType'
    BY <1>7, CollectStep
<1>8. CASE TimeoutWrite
    BY <1>3, <1>8, TimeoutWriteStep
<1>9. ASSUME NEW p \in Process, Abort(p)
      PROVE  Seals /\ RestType'
    BY <1>9, AbortStep
<1> QED
    BY <1>2, <1>3, <1>4, <1>5, <1>6, <1>7, <1>8, <1>9 DEF Next

LEMMA Start ==
    ASSUME Init
    PROVE  Inv
<1>1. \A h \in Hotkey : ledger[h] \in Seq(LedgerRow)
    BY DEF Init
<1>2. 0 \in 0..MaxProofs
    OBVIOUS
<1> QED
    BY <1>1, <1>2 DEF Init, Inv, TypeOK, CollectedIsOver, NoResults, Collected, NoScore

\* The rows, the books and what requests have read are well formed, with any
\* number of clients and attempts.
THEOREM WellFormed == Spec => []Inv
<1>1. Init => Inv
    BY Start
<1>2. Inv /\ [Next]_vars => Inv'
    BY Step
<1> QED
    BY <1>1, <1>2, PTL DEF Spec

\* Every proof, score and ledger row is one that the tables can hold
\* (persist_score_for_attempt, earn_from_score).
THEOREM TypeCorrect == Spec => []TypeOK
<1>1. Inv => TypeOK
    BY DEF Inv
<1> QED
    BY <1>1, WellFormed, PTL
-----------------------------------------------------------------------------
\* Points are minted with the score they are worth, and rows are never changed.
THEOREM MintedCorrect == Spec => MintedWithScore
<1>1. ASSUME Inv, BooksStep, NEW h \in Hotkey, ledger'[h] # ledger[h]
      PROVE  LET row == ledger'[h][Len(ledger'[h])]
             IN  /\ ledger'[h] = Append(ledger[h], row)
                 /\ score'[row.attempt].composite > 0
                 /\ row.delta = Delta(row.attempt, score'[row.attempt])
    <2>1. PICK a \in Attempt, delta \in Nat \ {0} : Payment(a, delta)
        BY <1>1 DEF BooksStep
    <2> DEFINE new == [attempt |-> a, delta |-> delta, balance_after |-> balance[Owner[a]] + delta]
    <2>2. ledger \in [Hotkey -> Seq(LedgerRow)]
        BY <1>1 DEF Inv, TypeOK
    <2>3. Owner[a] = h /\ ledger'[h] = Append(ledger[h], new)
        BY <1>1, <2>1, <2>2 DEF Payment
    <2>4. new.attempt = a /\ new.delta = delta
        OBVIOUS
    <2> HIDE DEF new
    <2>5. Len(ledger'[h]) = Len(ledger[h]) + 1 /\ ledger'[h][Len(ledger[h]) + 1] = new
        BY <2>2, <2>3
    <2> QED
        BY <2>1, <2>3, <2>4, <2>5 DEF Payment
<1>2. Inv /\ [Next]_vars => (\A h \in Hotkey : ledger'[h] # ledger[h] =>
          LET row == ledger'[h][Len(ledger'[h])]
          IN  /\ ledger'[h] = Append(ledger[h], row)
              /\ score'[row.attempt].composite > 0
              /\ row.delta = Delta(row.attempt, score'[row.attempt]))
    BY <1>1, Step
<1> QED
    BY <1>2, WellFormed, PTL DEF Spec, MintedWithScore

\* A payment appends a row to one hotkey's books.
LEMMA PaymentRows ==
    ASSUME Inv, NEW a \in Attempt, NEW delta \in Nat \ {0}, Payment(a, delta)
    PROVE  LET new == [attempt |-> a, delta |-> delta, balance_after |-> balance[Owner[a]] + delta]
           IN  /\ Owner[a] \in Hotkey
               /\ ledger'[Owner[a]] = Append(ledger[Owner[a]], new)
               /\ balance'[Owner[a]] = balance[Owner[a]] + delta
               /\ \A h \in Hotkey \ {Owner[a]} : ledger'[h] = ledger[h] /\ balance'[h] = balance[h]
BY DEF Inv, TypeOK, Payment

\* It pays its attempt and no other.
LEMMA PaidRows ==
    ASSUME Inv, NEW a \in Attempt, NEW delta \in Nat \ {0}, Payment(a, delta), NEW b \in Attempt
    PROVE  Paid(b)' <=> Paid(b) \/ b = a
<1> DEFINE o == Owner[a]
           new == [attempt |-> a, delta |-> delta, balance_after |-> balance[o] + delta]
<1>1. /\ o \in Hotkey
      /\ ledger'[o] = Append(ledger[o], new)
      /\ \A h \in Hotkey \ {o} : ledger'[h] = ledger[h]
    BY PaymentRows
<1>2. ledger[o] \in Seq(LedgerRow)
    BY <1>1 DEF Inv, TypeOK
<1>3. new.attempt = a
    OBVIOUS
<1>4. CASE Owner[b] # o
    <2>1. Owner[b] \in Hotkey \ {o} /\ b # a
        BY <1>4
    <2> HIDE DEF o, new
    <2> QED BY <1>1, <2>1 DEF Paid
<1>5. CASE Owner[b] = o
    <2> DEFINE rows == ledger[o]
               n == Len(rows)
               more == Append(rows, new)
    <2>1. /\ n \in Nat /\ DOMAIN rows = 1..n /\ DOMAIN more = 1..(n + 1)
          /\ \A k \in 1..n : more[k] = rows[k]
          /\ more[n + 1] = new
        <3> HIDE DEF o, new
        <3> QED BY <1>2
    <2>2. Paid(b)' <=> \E i \in DOMAIN more : more[i].attempt = b
        BY <1>1, <1>5 DEF Paid
    <2>3. Paid(b) <=> \E i \in DOMAIN rows : rows[i].attempt = b
        BY <1>5 DEF Paid
    <2> HIDE DEF rows, n, more, o, new
    <2>4. \A i \in 1..(n + 1) : i \in 1..n \/ i = n + 1
        BY <2>1
    <2>5. 1..n \subseteq 1..(n + 1) /\ n + 1 \in 1..(n + 1)
        BY <2>1
    <2> QED
        BY <1>3, <2>1, <2>2, <2>3, <2>4, <2>5
<1> QED BY <1>4, <1>5

\* What is paid stays paid.
LEMMA PaidStays ==
    ASSUME Inv, BooksStep, NEW b \in Attempt, Paid(b)
    PROVE  Paid(b)'
BY PaidRows DEF BooksStep, Paid

\* The ledger of a hotkey accounts for its balance.
THEOREM BooksCorrect == Spec => []BooksBalance
<1>1. Init => BooksBalance
    BY DEF Init, BooksBalance
<1>2. ASSUME Inv, BooksBalance, BooksStep
      PROVE  BooksBalance'
    <2>1. CASE UNCHANGED <<ledger, balance>>
        BY <1>2, <2>1 DEF BooksBalance
    <2>2. ASSUME NEW a \in Attempt, NEW delta \in Nat \ {0}, Payment(a, delta)
          PROVE  BooksBalance'
        <3> DEFINE o == Owner[a]
                   new == [attempt |-> a, delta |-> delta, balance_after |-> balance[o] + delta]
        <3>1. /\ o \in Hotkey
              /\ ledger'[o] = Append(ledger[o], new)
              /\ balance'[o] = balance[o] + delta
              /\ \A h \in Hotkey \ {o} : ledger'[h] = ledger[h] /\ balance'[h] = balance[h]
            BY <1>2, <2>2, PaymentRows
        <3>2. ledger[o] \in Seq(LedgerRow)
            BY <1>2, <3>1 DEF Inv, TypeOK
        <3>3. new.delta = delta /\ new.balance_after = balance[o] + delta
            OBVIOUS
        <3> SUFFICES ASSUME NEW h \in Hotkey
                     PROVE  LET rows == ledger'[h]
                                before(i) == IF i = 1 THEN 0 ELSE rows[i - 1].balance_after
                            IN  /\ \A i \in DOMAIN rows :
                                      rows[i].balance_after = before(i) + rows[i].delta
                                /\ balance'[h] = before(Len(rows) + 1)
            BY DEF BooksBalance
        <3> HIDE DEF o, new
        <3>4. CASE h # o
            <4>1. ledger'[h] = ledger[h] /\ balance'[h] = balance[h]
                BY <3>1, <3>4
            <4> DEFINE rows == ledger[h]
                       before(i) == IF i = 1 THEN 0 ELSE rows[i - 1].balance_after
            <4>2. /\ \A i \in DOMAIN rows : rows[i].balance_after = before(i) + rows[i].delta
                  /\ balance[h] = before(Len(rows) + 1)
                BY <1>2 DEF BooksBalance
            <4> QED
                BY <4>1, <4>2
        <3>5. CASE h = o
            <4> DEFINE rows == ledger[o]
                       n == Len(rows)
                       before(i) == IF i = 1 THEN 0 ELSE rows[i - 1].balance_after
                       more == Append(rows, new)
                       beforeMore(i) == IF i = 1 THEN 0 ELSE more[i - 1].balance_after
            <4>1. /\ \A i \in DOMAIN rows : rows[i].balance_after = before(i) + rows[i].delta
                  /\ balance[o] = before(n + 1)
                BY <1>2, <3>1 DEF BooksBalance
            <4>2. /\ n \in Nat /\ DOMAIN rows = 1..n /\ DOMAIN more = 1..(n + 1) /\ Len(more) = n + 1
                  /\ \A i \in 1..n : more[i] = rows[i]
                  /\ more[n + 1] = new
                BY <3>2
            <4> HIDE DEF rows, n, more
            <4>3. \A i \in 1..(n + 1) : beforeMore(i) = before(i)
                BY <4>2
            <4>4. ASSUME NEW i \in DOMAIN more
                  PROVE  more[i].balance_after = beforeMore(i) + more[i].delta
                <5>1. CASE i \in 1..n
                    BY <4>1, <4>2, <4>3, <5>1
                <5>2. CASE i = n + 1
                    BY <3>3, <4>1, <4>2, <4>3, <5>2
                <5> QED BY <4>2, <5>1, <5>2
            <4>5. beforeMore(n + 2) = new.balance_after
                <5>1. n + 2 # 1 /\ (n + 2) - 1 = n + 1
                    BY <4>2
                <5> QED BY <4>2, <5>1
            <4>6. Len(more) + 1 = n + 2
                BY <4>2
            <4>7. balance'[o] = beforeMore(Len(more) + 1)
                BY <3>1, <3>3, <4>5, <4>6
            <4>8. ledger'[h] = more /\ balance'[h] = balance'[o]
                BY <3>1, <3>5 DEF more, rows
            <4> QED
                BY <4>4, <4>7, <4>8
        <3> QED
            BY <3>4, <3>5
    <2> QED
        BY <1>2, <2>1, <2>2 DEF BooksStep
<1>3. Inv /\ BooksBalance /\ [Next]_vars => BooksBalance'
    BY <1>2, Step
<1> QED
    BY <1>1, <1>3, WellFormed, PTL DEF Spec

\* An attempt is paid at most once, to its submitter.
THEOREM PaidOnce == Spec => []OnePaymentPerAttempt
<1>1. Init => OnePaymentPerAttempt
    BY DEF Init, OnePaymentPerAttempt
<1>2. ASSUME Inv, OnePaymentPerAttempt, BooksStep
      PROVE  OnePaymentPerAttempt'
    <2>1. CASE UNCHANGED <<ledger, balance>>
        BY <1>2, <2>1 DEF OnePaymentPerAttempt
    <2>2. ASSUME NEW a \in Attempt, NEW delta \in Nat \ {0}, Payment(a, delta)
          PROVE  OnePaymentPerAttempt'
        <3> DEFINE o == Owner[a]
                   new == [attempt |-> a, delta |-> delta, balance_after |-> balance[o] + delta]
        <3>1. /\ o \in Hotkey
              /\ ledger'[o] = Append(ledger[o], new)
              /\ \A h \in Hotkey \ {o} : ledger'[h] = ledger[h]
            BY <1>2, <2>2, PaymentRows
        <3>2. ledger[o] \in Seq(LedgerRow)
            BY <1>2, <3>1 DEF Inv, TypeOK
        <3>3. new.attempt = a
            OBVIOUS
        <3>4. \A i \in DOMAIN ledger[o] : ledger[o][i].attempt # a
            BY <2>2 DEF Payment, Paid
        <3>5. SUFFICES ASSUME NEW h \in Hotkey, NEW i \in DOMAIN ledger'[h], NEW j \in DOMAIN ledger'[h]
                       PROVE  /\ Owner[ledger'[h][i].attempt] = h
                              /\ ledger'[h][i].attempt = ledger'[h][j].attempt => i = j
            BY DEF OnePaymentPerAttempt
        <3>6. Owner[a] = o
            OBVIOUS
        <3> HIDE DEF o, new
        <3>7. CASE h # o
            <4>1. ledger'[h] = ledger[h]
                BY <3>1, <3>7
            <4>2. i \in DOMAIN ledger[h] /\ j \in DOMAIN ledger[h]
                BY <4>1
            <4>3. /\ Owner[ledger[h][i].attempt] = h
                  /\ ledger[h][i].attempt = ledger[h][j].attempt => i = j
                BY <1>2, <4>2 DEF OnePaymentPerAttempt
            <4> QED
                BY <4>1, <4>3
        <3>8. CASE h = o
            <4> DEFINE rows == ledger[o]
                       n == Len(rows)
                       more == Append(rows, new)
            <4>1. /\ n \in Nat /\ DOMAIN rows = 1..n /\ DOMAIN more = 1..(n + 1)
                  /\ \A k \in 1..n : more[k] = rows[k]
                  /\ more[n + 1] = new
                BY <3>2
            <4>2. \A k, l \in 1..n : /\ Owner[rows[k].attempt] = o
                                     /\ rows[k].attempt = rows[l].attempt => k = l
                BY <1>2, <3>1, <4>1 DEF OnePaymentPerAttempt
            <4>3. \A k \in 1..n : rows[k].attempt # a
                BY <3>4, <4>1
            <4>4. ledger'[h] = more
                BY <3>1, <3>8
            <4> HIDE DEF rows, n, more
            <4>5. i \in 1..(n + 1) /\ j \in 1..(n + 1)
                BY <4>1, <4>4
            <4>6. (i \in 1..n \/ i = n + 1) /\ (j \in 1..n \/ j = n + 1)
                BY <4>1, <4>5
            <4> QED
                BY <3>3, <3>6, <3>8, <4>1, <4>2, <4>3, <4>4, <4>6
        <3> QED
            BY <3>7, <3>8
    <2> QED
        BY <1>2, <2>1, <2>2 DEF BooksStep
<1>3. Inv /\ OnePaymentPerAttempt /\ [Next]_vars => OnePaymentPerAttempt'
    BY <1>2, Step
<1> QED
    BY <1>1, <1>3, WellFormed, PTL DEF Spec

\* Scoring and paying implements the promise: an attempt is paid once, payments
\* are positive, nothing is taken back.
THEOREM Refinement == Spec => KeepsPromise
<1>1. Init => Promise!Init
    BY DEF Init, Promise!Init, Paid
<1>2. ASSUME Inv, BooksStep
      PROVE  [Promise!Next]_Promise!vars
    <2>1. CASE UNCHANGED <<ledger, balance>>
        BY <2>1 DEF Promise!vars, Paid
    <2>2. ASSUME NEW a \in Attempt, NEW delta \in Nat \ {0}, Payment(a, delta)
          PROVE  Promise!Pay(a)
        <3> DEFINE o == Owner[a]
                   new == [attempt |-> a, delta |-> delta, balance_after |-> balance[o] + delta]
                   paid == {b \in Attempt : Paid(b)}
        <3>1. /\ o \in Hotkey
              /\ ledger'[o] = Append(ledger[o], new)
              /\ balance'[o] = balance[o] + delta
              /\ \A h \in Hotkey \ {o} : ledger'[h] = ledger[h] /\ balance'[h] = balance[h]
            BY <1>2, <2>2, PaymentRows
        <3>2. balance[o] \in Nat
            BY <1>2, <3>1 DEF Inv, TypeOK
        <3>3. \A b \in Attempt : Paid(b)' <=> Paid(b) \/ b = a
            BY <1>2, <2>2, PaidRows
        <3>4. a \notin paid
            BY <2>2 DEF Payment
        <3>5. paid' = paid \cup {a}
            BY <3>3
        <3>6. balance'[o] > balance[o]
            <4> HIDE DEF o
            <4> QED BY <3>1, <3>2
        <3> QED
            BY <3>1, <3>4, <3>5, <3>6 DEF Promise!Pay
    <2> QED
        BY <1>2, <2>1, <2>2 DEF BooksStep, Promise!Next
<1>3. Inv /\ [Next]_vars => [Promise!Next]_Promise!vars
    BY <1>2, Step
<1> QED
    BY <1>1, <1>3, WellFormed, PTL DEF Spec, KeepsPromise, Promise!Spec
-----------------------------------------------------------------------------
\* Sealing a score pays its attempt, or records that the payment failed, unless
\* it was paid before or is worth nothing.
LEMMA SealPays ==
    ASSUME Inv, NEW a \in Attempt, NEW row \in ScoreRows, PersistScore(a, row),
           Hyper.points_enabled, Delta(a, row) > 0, BooksStep
    PROVE  Paid(a)' \/ a \in unpaid'
<1>1. CASE EarnAs(a, row, After(a, row))
    <2> DEFINE o == Owner[a]
               new == [attempt |-> a, delta |-> Delta(a, row), balance_after |-> After(a, row)]
    <2>1. o \in Hotkey /\ ledger'[o] = Append(ledger[o], new) /\ ledger[o] \in Seq(LedgerRow)
        BY <1>1 DEF EarnAs, Inv, TypeOK
    <2>2. new.attempt = a
        OBVIOUS
    <2> HIDE DEF new
    <2>3. Len(ledger[o]) + 1 \in DOMAIN ledger'[o] /\ ledger'[o][Len(ledger[o]) + 1] = new
        BY <2>1
    <2> QED BY <2>2, <2>3 DEF Paid
<1>2. CASE EarnFails(a, row)
    BY <1>2 DEF EarnFails
<1>3. CASE EarnsNothing(a, row)
    <2>1. Paid(a)
        BY <1>3 DEF EarnsNothing, Earns
    <2> QED BY <2>1, PaidStays
<1> QED
    BY <1>1, <1>2, <1>3 DEF PersistScore, Earn

\* No score that is worth points is forgotten: its attempt was paid, by this seal
\* or an earlier one, or the payment failed and was swallowed (earn_from_score in
\* persist_score_for_attempt), whatever is scored again, by whomever.
THEOREM NothingIsForgotten == Spec => []NothingForgotten
<1>1. Init => NothingForgotten
    BY DEF Init, NothingForgotten, Scored
<1>2. ASSUME Inv, NothingForgotten, BooksStep, Seals
      PROVE  NothingForgotten'
    <2>1. CASE BooksKept
        BY <1>2, <2>1 DEF BooksKept, NothingForgotten, Scored, Paid
    <2>2. ASSUME NEW a \in Attempt, NEW row \in ScoreRows, PersistScore(a, row)
          PROVE  NothingForgotten'
        <3>1. \A b \in Attempt : score'[b] = IF b = a THEN row ELSE score[b]
            BY <1>2, <2>2 DEF PersistScore, Inv, TypeOK
        <3>2. unpaid \subseteq unpaid'
            BY <2>2 DEF PersistScore, Earn, EarnAs, EarnFails, EarnsNothing, books
        <3> SUFFICES ASSUME NEW b \in Attempt, Scored(b)', Hyper.points_enabled,
                            Delta(b, score'[b]) > 0
                     PROVE  Paid(b)' \/ b \in unpaid'
            BY DEF NothingForgotten
        <3>3. CASE b = a
            BY <1>2, <2>2, <3>1, <3>3, SealPays
        <3>4. CASE b # a
            BY <1>2, <3>1, <3>2, <3>4, PaidStays DEF NothingForgotten, Scored
        <3> QED BY <3>3, <3>4
    <2> QED BY <1>2, <2>1, <2>2 DEF Seals
<1>3. Inv /\ NothingForgotten /\ [Next]_vars => NothingForgotten'
    BY <1>2, Step
<1> QED
    BY <1>1, <1>3, WellFormed, PTL DEF Spec

\* A score with mass and a bonus has a proof row to show for it, although the
\* quote's transaction deletes the rows that it read earlier and a seal may use a
\* row that is gone by then (compute_tee_bonus, attach_offline_proof).
THEOREM BonusIsProven == Spec => []BonusHasProof
<1>1. Init => BonusHasProof
    BY DEF Init, BonusHasProof, NoScore
<1>2. ASSUME Inv, BonusHasProof, Seals
      PROVE  BonusHasProof'
    <2>1. CASE BooksKept /\ \A b \in Attempt : proofs[b] \subseteq proofs'[b]
        BY <1>2, <2>1 DEF BooksKept, BonusHasProof
    <2>2. ASSUME NEW a \in Attempt, NEW row \in ScoreRows, PersistScore(a, row),
                 Backed(row, proofs'[a]), \A b \in Attempt \ {a} : proofs[b] \subseteq proofs'[b]
          PROVE  BonusHasProof'
        <3>1. \A b \in Attempt : score'[b] = IF b = a THEN row ELSE score[b]
            BY <1>2, <2>2 DEF PersistScore, Inv, TypeOK
        <3> QED BY <1>2, <2>2, <3>1 DEF BonusHasProof, Backed, Good
    <2> QED BY <1>2, <2>1, <2>2 DEF Seals
<1>3. Inv /\ BonusHasProof /\ [Next]_vars => BonusHasProof'
    BY <1>2, Step
<1> QED
    BY <1>1, <1>3, WellFormed, PTL DEF Spec
-----------------------------------------------------------------------------
\* A quote that verifies has exactly the report_data that was expected: that of
\* the job, or the one that the body named (verify_tee).
LEMMA VerifiedBinds ==
    ASSUME NEW a \in Attempt, NEW request \in TeeRequest(Attempt), NEW mode, NEW require,
           verify_tee(request, a, mode, require) = "valid"
    PROVE  LET data == request.quote_b64.envelope.report_data_hex
           IN  data.job_digest = build_job_digest(a) \/ data = request.report_data_hex
<1> DEFINE expected == ReportDataExpected(request, a)
           env == request.quote_b64.envelope
<1>1. ReasonCodes(request, a, mode, require) \subseteq SoftCodes
    BY DEF verify_tee
<1>2. EnvelopeCodes(request, env, expected, require) \subseteq SoftCodes
    BY <1>1 DEF ReasonCodes, LiveCodes, SoftCodes
<1>3. /\ Layout(env.report_data_hex) \subseteq SoftCodes
      /\ Layout(expected) \subseteq SoftCodes
      /\ Binding(env.report_data_hex, expected) \subseteq SoftCodes
    <2> HIDE DEF env, expected
    <2> QED BY <1>2 DEF EnvelopeCodes
<1>4. env.report_data_hex = expected
    <2> HIDE DEF env, expected
    <2>1. parse_report_data(env.report_data_hex) /\ parse_report_data(expected)
        BY <1>3 DEF Layout, When, SoftCodes
    <2> QED BY <1>3, <2>1 DEF Binding, SoftCodes
<1>5. expected = request.report_data_hex \/ expected.job_digest = build_job_digest(a)
    BY DEF ReportDataExpected, build_report_data
<1> QED BY <1>4, <1>5

\* Whoever is about to verify a quote has one.
QuoteGiven ==
    \A p \in Client : At(p, "posted") \/ At(p, "quote") => proc[p].post.quote # NoQuote

LEMMA QuoteStays ==
    ASSUME Inv, QuoteGiven, [Next]_vars
    PROVE  QuoteGiven'
<1>0. RestType
    BY InvSplit
<1>1. ASSUME NEW p \in Process, NEW r, proc' = [proc EXCEPT ![p] = r],
             p \in Client /\ r.pc \in {"posted", "quote"} => r.post.quote # NoQuote
      PROVE  QuoteGiven'
    BY <1>0, <1>1 DEF RestType, QuoteGiven, At, Process
<1>2. ASSUME NEW p \in Process, Return(p)
      PROVE  QuoteGiven'
    BY <1>1, <1>2 DEF Return, Idle
<1>3. CASE UNCHANGED proc
    BY <1>3 DEF QuoteGiven, At
<1>4. \A p \in Client : p \in Process
    BY DEF Process
<1>5. ASSUME NEW p \in Client, NEW a \in Attempt, NEW post \in Posts, PostRead(p, a, post)
      PROVE  QuoteGiven'
    <2> DEFINE rec(pc) == [pc |-> pc, a |-> a, post |-> post, seen |-> proofs[a],
                           scored |-> Scored(a)]
    <2>1. CASE proc' = [proc EXCEPT ![p] = rec("post")]
        BY <1>1, <1>4, <2>1
    <2>2. CASE proc' = [proc EXCEPT ![p] = rec("posted")] /\ post.quote # NoQuote
        BY <1>1, <1>4, <2>2
    <2> QED BY <1>5, <2>1, <2>2 DEF PostRead, Read
<1>6. ASSUME NEW p \in Client, PostWrite(p)
      PROVE  QuoteGiven'
    <2> DEFINE r == [proc[p] EXCEPT !.pc = "posted"]
    <2>1. proc[p] \in Posting
        BY <1>0, <1>4, <1>6, ReadType DEF PostWrite
    <2>2. r.pc = "posted" /\ r.post = proc[p].post
        BY <2>1 DEF Posting
    <2>3. \/ proc' = [proc EXCEPT ![p] = Idle]
          \/ proc' = [proc EXCEPT ![p] = r] /\ proc[p].post.quote # NoQuote
        BY <1>6 DEF PostWrite
    <2> HIDE DEF r
    <2>4. CASE proc' = [proc EXCEPT ![p] = r] /\ proc[p].post.quote # NoQuote
        BY <1>1, <1>4, <2>2, <2>4
    <2> QED BY <1>2, <1>4, <2>3, <2>4 DEF Return
<1>7. ASSUME NEW p \in Client, QuoteRead(p)
      PROVE  QuoteGiven'
    <2> DEFINE r == [pc |-> "quote", a |-> proc[p].a, post |-> proc[p].post,
                     seen |-> proofs[proc[p].a], scored |-> Scored(proc[p].a)]
    <2>1. proc[p].post.quote # NoQuote
        BY <1>7 DEF QuoteRead, QuoteGiven
    <2>2. proc' = [proc EXCEPT ![p] = r]
        BY <1>7 DEF QuoteRead, Read
    <2> QED BY <1>1, <1>4, <2>1, <2>2
<1>8. ASSUME NEW p \in Client, QuoteWrite(p)
      PROVE  QuoteGiven'
    BY <1>2, <1>4, <1>8 DEF QuoteWrite
<1>9. ASSUME NEW a \in Attempt, TimeoutRead(a)
      PROVE  QuoteGiven'
    BY <1>1, <1>9 DEF TimeoutRead, Read, Process
<1>10. CASE TimeoutWrite
    BY <1>2, <1>10 DEF TimeoutWrite, Process
<1>11. ASSUME NEW a \in Attempt, NEW launch \in Launches, Collect(a, launch)
      PROVE  QuoteGiven'
    BY <1>3, <1>11 DEF Collect
<1>12. ASSUME NEW p \in Process, Abort(p)
      PROVE  QuoteGiven'
    BY <1>2, <1>12 DEF Abort
<1> QED
    BY <1>3, <1>5, <1>6, <1>7, <1>8, <1>9, <1>10, <1>11, <1>12 DEF Next, vars

\* A tee proof that is verified and not simulated.
TeeProof(p) == p.verified /\ p.mode # "sim" /\ p.tier \in {"tdx", "tdx+gpu_cc"}

\* Only a quote's transaction inserts one.
LEMMA OnlyQuotes ==
    ASSUME Inv, [Next]_vars, NEW a \in Attempt, NEW r \in proofs'[a] \ proofs[a], TeeProof(r.proof)
    PROVE  \E p \in Client : /\ QuoteWrite(p) /\ proc[p].a = a
                            /\ r = Row(1, QuoteProof(a, proc[p].post))
<1>0. proofs \in [Attempt -> SUBSET ProofRow]
    BY DEF Inv, TypeOK
<1>1. \A k, tee, fail : ~TeeProof(Row(k, build_sim_proof(tee, fail)).proof)
    BY DEF Row, build_sim_proof, TeeProof
<1>2. \A k, post : ~TeeProof(Row(k, PostedProof(post)).proof)
    BY DEF Row, PostedProof, TeeProof
<1>3. ASSUME NEW b \in Attempt, NEW new, Insert(b, new), \A n \in new : ~TeeProof(n.proof)
      PROVE  FALSE
    BY <1>0, <1>3 DEF Insert
<1>4. CASE UNCHANGED proofs
    BY <1>4
<1>5. ASSUME NEW p \in Client, PostWrite(p)
      PROVE  FALSE
    <2> DEFINE b == proc[p].a
               posted == Row(1, PostedProof(proc[p].post))
               sim == Row(2, build_sim_proof(Tee[b], Suspect(proc[p].post) \/ GpuZero))
    <2>1. \/ UNCHANGED proofs \/ Insert(b, {posted}) \/ Insert(b, {posted, sim})
        BY <1>5 DEF PostWrite
    <2>2. ~TeeProof(posted.proof) /\ ~TeeProof(sim.proof)
        BY <1>1, <1>2
    <2>3. b \in Attempt
        <3>1. proc[p] \in Posting
            BY <1>5, InvSplit, ReadType DEF PostWrite, Process
        <3> QED BY <3>1 DEF Posting
    <2> HIDE DEF b, posted, sim
    <2> QED BY <1>3, <2>1, <2>2, <2>3
<1>6. ASSUME NEW b \in Attempt, NEW launch \in Launches, Collect(b, launch)
      PROVE  FALSE
    <2>1. UNCHANGED proofs \/ \E fail : Insert(b, {Row(1, build_sim_proof(Tee[b], fail))})
        BY <1>6 DEF Collect
    <2> QED BY <1>1, <1>3, <2>1
<1>7. CASE TimeoutWrite
    <2> DEFINE b == proc[Worker].a
    <2>1. UNCHANGED proofs \/ Insert(b, {Row(1, build_sim_proof(Tee[b], GpuZero))})
        BY <1>7 DEF TimeoutWrite
    <2>2. b \in Attempt
        <3>1. proc[Worker] \in TimingOut
            BY <1>7, InvSplit, ReadType DEF TimeoutWrite, Process
        <3> QED BY <3>1 DEF TimingOut
    <2> HIDE DEF b
    <2> QED BY <1>1, <1>3, <2>1, <2>2
<1>8. ASSUME NEW p \in Client, QuoteWrite(p)
      PROVE  proc[p].a = a /\ r = Row(1, QuoteProof(a, proc[p].post))
    BY <1>0, <1>8 DEF QuoteWrite
<1>9. CASE \/ \E p \in Client : \/ \E b \in Attempt, post \in Posts : PostRead(p, b, post)
                                \/ QuoteRead(p)
           \/ \E b \in Attempt : TimeoutRead(b)
           \/ \E p \in Process : Abort(p)
           \/ UNCHANGED vars
    BY <1>4, <1>9 DEF PostRead, QuoteRead, TimeoutRead, Abort, vars
<1> QED
    BY <1>5, <1>6, <1>7, <1>8, <1>9 DEF Next

\* A verified tee proof comes of a quote whose report_data names the attempt's job
\* or was named by the body, however long ago its post was taken up
\* (jobs_post_results, the quote's transaction).
THEOREM QuotesNameTheirJob == Spec => QuoteNamesItsJob
<1> DEFINE Named(a) ==
        \A r \in proofs'[a] \ proofs[a] :
          r.proof.verified /\ r.proof.mode # "sim" /\ r.proof.tier \in {"tdx", "tdx+gpu_cc"} =>
              \E p \in Client :
                  /\ At(p, "quote")
                  /\ proc[p].a = a
                  /\ LET quote == proc[p].post.quote
                         data == quote.quote_b64.envelope.report_data_hex
                     IN  data.job_digest = build_job_digest(a) \/ data = quote.report_data_hex
<1>1. Init => QuoteGiven
    BY DEF Init, QuoteGiven, At, Idle, Process
<1>2. Inv /\ QuoteGiven /\ [Next]_vars => QuoteGiven'
    BY QuoteStays
<1>3. ASSUME Inv, QuoteGiven, [Next]_vars, NEW a \in Attempt
      PROVE  Named(a)
    <2> SUFFICES ASSUME NEW r \in proofs'[a] \ proofs[a], TeeProof(r.proof)
                 PROVE  \E p \in Client :
                            /\ At(p, "quote")
                            /\ proc[p].a = a
                            /\ LET quote == proc[p].post.quote
                                   data == quote.quote_b64.envelope.report_data_hex
                               IN  data.job_digest = build_job_digest(a) \/ data = quote.report_data_hex
        BY DEF TeeProof
    <2>1. PICK p \in Client : /\ QuoteWrite(p) /\ proc[p].a = a
                             /\ r = Row(1, QuoteProof(a, proc[p].post))
        BY <1>3, OnlyQuotes
    <2>2. At(p, "quote")
        BY <2>1 DEF QuoteWrite
    <2> DEFINE post == proc[p].post
    <2>3. post \in Posts
        <3>1. proc[p] \in Posting
            BY <1>3, <2>2, InvSplit, ReadType DEF Process
        <3> QED BY <3>1 DEF Posting
    <2>4. post.quote \in TeeRequest(Attempt)
        <3>1. post \in Post /\ post.quote # NoQuote
            BY <1>3, <2>2, <2>3 DEF QuoteGiven
        <3> QED BY <3>1 DEF Post
    <2>5. verify_tee(post.quote, a, post.verify_mode, Tee[a] = "tdx+gpu_cc") = "valid"
        BY <2>1 DEF TeeProof, Row, QuoteProof, attach_offline_proof
    <2> HIDE DEF post
    <2>6. LET data == post.quote.quote_b64.envelope.report_data_hex
          IN  data.job_digest = build_job_digest(a) \/ data = post.quote.report_data_hex
        BY <2>4, <2>5, VerifiedBinds
    <2> QED BY <2>1, <2>2, <2>6 DEF post
<1>4. Inv /\ QuoteGiven /\ [Next]_vars => [\A a \in Attempt : Named(a)]_vars
    BY <1>3
<1> QED
    BY <1>1, <1>2, <1>4, WellFormed, PTL DEF Spec, QuoteNamesItsJob
=============================================================================
