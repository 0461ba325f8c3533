------------------------------ MODULE Emission ------------------------------
(***************************************************************************)
(* How attempts are scored and paid: the seal of posted results, the seal   *)
(* of a timeout, the worker's collect, and the second transaction that a    *)
(* posted quote starts (job_lifecycle.py, api/public.py), each of which     *)
(* writes proofs, a score row and the points (scoring_tee.py, points.py).   *)
(*                                                                          *)
(* Between its reads and its first write a transaction holds no lock, so    *)
(* those are actions of their own; from the first write to the commit it    *)
(* holds the database's only write lock.  The worker's collect begins with  *)
(* the claim of the job and is one action.  There is one attempt per job:   *)
(* its status only matters by whether results are sealed and the job ended. *)
(***************************************************************************)
EXTENDS Scoring, Sequences

CONSTANTS
    Attempt, Hotkey,
    Owner,       \* [Attempt -> Hotkey], the job's submitter
    Tee,         \* [Attempt -> TeeMode], the job's tee_mode
    Prices,      \* [Attempt -> [list : Nat, catalog : Nat]], of the job's lease
    Posts,       \* the results that clients post
    Launches,    \* what launches come to
    Client,      \* requests that post results
    Worker,      \* the drain loop
    MaxProofs    \* bound on the proof rows ever inserted

Efficiency == 0..Whole
Gate == 0..Whole
NotGiven == -1

NoQuote == [absent |-> TRUE]
Post == [status : {"succeeded", "failed", "running"}, verified : BOOLEAN, cheat : BOOLEAN,
         efficiency : Efficiency \cup {NotGiven}, gate : Gate \cup {NotGiven},
         proof_tier : Tier, verify_mode : VerifyMode,
         quote : TeeRequest(Attempt) \cup {NoQuote}]
Launch == [status : {"succeeded", "failed", "timeout"}, integrity_fail : BOOLEAN,
           efficiency : Efficiency, gate : Gate]

ASSUME EmissionAssumption ==
    /\ Owner \in [Attempt -> Hotkey]
    /\ Tee \in [Attempt -> TeeMode]
    /\ Prices \in [Attempt -> [list : Nat, catalog : Nat]]
    /\ Posts \subseteq Post
    /\ Launches \subseteq Launch
    /\ Worker \notin Client
    /\ MaxProofs \in Nat

VARIABLES
    results,   \* job_attempts: the results sealed on each attempt, or none
    over,      \* jobs that ended
    timedOut,  \* jobs that ended by a timeout
    proofs,    \* job_proofs of each attempt
    score,     \* scores, at most one row per attempt
    ledger,    \* points_ledger, the rows of each hotkey in the order of insertion
    balance,   \* points_balances
    proc,      \* what each process has read
    serial,    \* proof rows inserted so far
    unpaid,    \* history: attempts of which a positive seal could not earn
    quoted     \* history: attempts for which a quote was found valid

vars == <<results, over, timedOut, proofs, score, ledger, balance, proc, serial, unpaid, quoted>>
books == <<ledger, balance, unpaid>>
jobs == <<results, over, timedOut>>

Process == Client \cup {Worker}
NoResults == [status |-> "none"]
Collected == [status |-> "collected"]
NoScore == [tee_bonus |-> NoBonus, composite |-> -1]
ScoreRows == {r \in [tee_bonus : Nat, composite : Nat] : r.composite <= Whole * r.tee_bonus}
ProofRow == [n : 1..MaxProofs, proof : Proof]

Scored(a) == score[a] # NoScore
Sealed(a) == results[a] # NoResults
LedgerRow == [attempt : Attempt, delta : Nat, balance_after : Nat]
Paid(a) == \E i \in DOMAIN ledger[Owner[a]] : ledger[Owner[a]][i].attempt = a

Idle == [pc |-> "idle"]
At(p, pc) == proc[p].pc = pc
Return(p) == proc' = [proc EXCEPT ![p] = Idle]

Init ==
    /\ results = [a \in Attempt |-> NoResults]
    /\ over = {}
    /\ timedOut = {}
    /\ proofs = [a \in Attempt |-> {}]
    /\ score = [a \in Attempt |-> NoScore]
    /\ ledger = [h \in Hotkey |-> << >>]
    /\ balance = [h \in Hotkey |-> 0]
    /\ proc = [p \in Process |-> Idle]
    /\ serial = 0
    /\ unpaid = {}
    /\ quoted = {}
-----------------------------------------------------------------------------
(* earn_from_score, and the score row it follows. *)

Delta(a, row) ==
    compute_score_earn_delta(row.composite,
                             compute_price_weight(Prices[a].list, Prices[a].catalog))

\* Mutant of Earns: only the insert of a score earns, not its update.
EarnsOnInsert(a, row) == ~Scored(a) /\ Hyper.points_enabled /\ Delta(a, row) > 0

Earns(a, row) == ~Paid(a) /\ Hyper.points_enabled /\ Delta(a, row) > 0

After(a, row) == balance[Owner[a]] + Delta(a, row)

EarnAs(a, row, after) ==
    /\ Earns(a, row)
    /\ balance' = [balance EXCEPT ![Owner[a]] = after]
    /\ ledger' = [ledger EXCEPT ![Owner[a]] = Append(@,
          [attempt |-> a, delta |-> Delta(a, row), balance_after |-> after])]
    /\ UNCHANGED unpaid

\* Mutant of EarnFails: the balance is not in the savepoint.
EarnFailsHalfway(a, row) ==
    /\ Earns(a, row)
    /\ unpaid' = unpaid \cup {a}
    /\ balance' = [balance EXCEPT ![Owner[a]] = After(a, row)]
    /\ UNCHANGED ledger

EarnFails(a, row) ==
    /\ Earns(a, row)
    /\ unpaid' = unpaid \cup {a}
    /\ UNCHANGED <<ledger, balance>>

EarnsNothing(a, row) == ~Earns(a, row) /\ UNCHANGED books

\* Mutant of Earn: the balance is set to what was earned.
EarnReplaces(a, row) ==
    EarnAs(a, row, Delta(a, row)) \/ EarnFails(a, row) \/ EarnsNothing(a, row)

\* Balance and ledger row share a savepoint; when it fails, the exception is
\* logged and the score is committed without it.
Earn(a, row) == EarnAs(a, row, After(a, row)) \/ EarnFails(a, row) \/ EarnsNothing(a, row)

\* Mutant of PersistScore: what is earned is the score that is replaced.
PersistScoreEarnsOld(a, row) ==
    /\ score' = [score EXCEPT ![a] = row]
    /\ Earn(a, IF Scored(a) THEN score[a] ELSE row)

PersistScore(a, row) ==
    /\ score' = [score EXCEPT ![a] = row]
    /\ Earn(a, row)

Insert(a, new) == proofs' = [proofs EXCEPT ![a] = @ \cup new]
Row(k, p) == [n |-> serial + k, proof |-> p]

\* Two transactions of one attempt saw no score; the later insert breaks the
\* unique attempt_id and its transaction is lost.
LostInsert(p) == ~proc[p].scored /\ Scored(proc[p].a)

Abort(p) ==
    /\ ~At(p, "idle")
    /\ Return(p)
    /\ UNCHANGED <<jobs, proofs, score, books, serial, quoted>>
-----------------------------------------------------------------------------
(* post_job_results. *)

Read(p, pc, a, post) ==
    proc' = [proc EXCEPT ![p] = [pc |-> pc, a |-> a, post |-> post, seen |-> proofs[a],
                                 scored |-> Scored(a)]]

\* The attempt has no results yet, or equal ones: then only a quote is left.
PostRead(p, a, post) ==
    /\ At(p, "idle")
    /\ \/ ~Sealed(a) /\ Read(p, "post", a, post)
       \/ results[a] = post /\ post.quote # NoQuote /\ Read(p, "posted", a, post)
    /\ UNCHANGED <<jobs, proofs, score, books, serial, quoted>>

OrElse(v, default) == IF v = NotGiven THEN default ELSE v

\* `float(metrics.get(..., default) or default)`: zero counts as not given.
OrDefault(v, default) == IF v \in {0, NotGiven} THEN default ELSE v

Suspect(post) == ~post.verified \/ post.cheat

\* A score is sealed for results that are suspect or no success; it uses a proof
\* that was there before, else a sim proof beside the posted one.
PostWrite(p) ==
    LET a == proc[p].a
        post == proc[p].post
        posted == Row(1, PostedProof(post))
        sim == Row(2, build_sim_proof(Tee[a], Suspect(post) \/ GpuZero))
        seal == Suspect(post) \/ post.status # "succeeded"
        first == proc[p].seen = {}
        gate == IF Suspect(post) THEN 0 ELSE OrDefault(post.gate, Whole)
        row(r) == ScoreWithTee(0, OrElse(post.efficiency, 0), gate, Suspect(post), post.cheat,
                               r.proof, Tee[a])
    IN  /\ At(p, "post")
        /\ serial + 2 <= MaxProofs
        /\ results' = [results EXCEPT ![a] = post]
        /\ over' = IF post.status = "running" THEN over ELSE over \cup {a}
        /\ UNCHANGED <<timedOut, quoted>>
        /\ CASE ~first /\ ~seal ->
                  UNCHANGED <<proofs, score, books, serial>>
             [] ~first /\ seal ->
                  /\ ~LostInsert(p)
                  /\ \E r \in proc[p].seen : PersistScore(a, row(r))
                  /\ UNCHANGED <<proofs, serial>>
             [] first /\ ~seal ->
                  /\ Insert(a, {posted})
                  /\ serial' = serial + 1
                  /\ UNCHANGED <<score, books>>
             [] first /\ seal ->
                  /\ Insert(a, {posted, sim})
                  /\ serial' = serial + 2
                  /\ PersistScore(a, row(sim))
        /\ proc' = [proc EXCEPT ![p] = IF post.quote = NoQuote THEN Idle
                                       ELSE [@ EXCEPT !.pc = "posted"]]

\* The quote's transaction reads the proofs that it will replace.
QuoteRead(p) ==
    /\ At(p, "posted")
    /\ Read(p, "quote", proc[p].a, proc[p].post)
    /\ UNCHANGED <<jobs, proofs, score, books, serial, quoted>>

\* verify_and_build_proof.
QuoteProof(a, post) ==
    attach_offline_proof(Tee[a],
                         verify_tee(post.quote, a, post.verify_mode, Tee[a] = "tdx+gpu_cc"),
                         post.verify_mode)

\* The rows that were read are deleted, the verified proof is attached and the
\* attempt is scored anew, whatever its results and its job's status say.  With
\* rows to delete the score is looked up under the lock.
QuoteWrite(p) ==
    LET a == proc[p].a
        post == proc[p].post
        new == Row(1, QuoteProof(a, post))
    IN  /\ At(p, "quote")
        /\ proc[p].seen = {} => ~LostInsert(p)
        /\ serial < MaxProofs
        /\ serial' = serial + 1
        /\ proofs' = [proofs EXCEPT ![a] = (@ \ proc[p].seen) \cup {new}]
        /\ quoted' = IF new.proof.verified THEN quoted \cup {a} ELSE quoted
        /\ PersistScore(a, ScoreRow(IF new.proof.verified THEN Whole ELSE 0,
                                    OrDefault(post.efficiency, Whole),
                                    OrDefault(post.gate, Whole), new.proof, Tee[a], FALSE))
        /\ Return(p)
        /\ UNCHANGED jobs
-----------------------------------------------------------------------------
(* The worker. *)

TimeoutRead(a) ==
    /\ At(Worker, "idle")
    /\ a \notin over
    /\ Read(Worker, "timeout", a, NoResults)
    /\ UNCHANGED <<jobs, proofs, score, books, serial, quoted>>

ZeroRow(a, r) == ScoreWithTee(0, 0, 0, FALSE, FALSE, r.proof, Tee[a])

\* mark_timeout.
TimeoutWrite ==
    LET a == proc[Worker].a
        sim == Row(1, build_sim_proof(Tee[a], GpuZero))
    IN  /\ At(Worker, "timeout")
        /\ serial < MaxProofs
        /\ over' = over \cup {a}
        /\ timedOut' = timedOut \cup {a}
        /\ IF proc[Worker].seen = {}
           THEN Insert(a, {sim}) /\ serial' = serial + 1 /\ PersistScore(a, ZeroRow(a, sim))
           ELSE /\ ~LostInsert(Worker)
                /\ \E r \in proc[Worker].seen : PersistScore(a, ZeroRow(a, r))
                /\ UNCHANGED <<proofs, serial>>
        /\ Return(Worker)
        /\ UNCHANGED <<results, quoted>>

\* _collect_success, which keeps results that were sealed early.  A proof that is
\* there is used as it is.
CollectedRow(a, launch, r) ==
    LET post == results[a]
        zero == launch.integrity_fail \/ (Sealed(a) /\ post.cheat)
        efficiency == IF Sealed(a) THEN OrElse(post.efficiency, Whole)
                      ELSE OrDefault(launch.efficiency, Whole)
        gate == IF Sealed(a) THEN OrDefault(OrElse(post.gate, launch.gate), Whole) ELSE launch.gate
    IN  ScoreWithTee(IF zero THEN 0 ELSE Whole, efficiency, IF zero THEN 0 ELSE gate,
                     zero, zero, r.proof, Tee[a])

\* With results sealed early the launch's own failure is not looked at.
Collect(a, launch) ==
    LET fails == ~Sealed(a) /\ launch.status = "failed"
        expires == ~Sealed(a) /\ launch.status = "timeout"
        cheats == launch.integrity_fail \/ (Sealed(a) /\ results[a].cheat)
        sim == Row(1, build_sim_proof(Tee[a], GpuZero \/ (~expires /\ cheats)))
        row(r) == IF expires THEN ZeroRow(a, r) ELSE CollectedRow(a, launch, r)
    IN  /\ At(Worker, "idle")
        /\ a \notin over
        /\ over' = over \cup {a}
        /\ timedOut' = IF expires THEN timedOut \cup {a} ELSE timedOut
        /\ results' = IF Sealed(a) \/ fails \/ expires THEN results
                      ELSE [results EXCEPT ![a] = Collected]
        /\ \/ fails /\ UNCHANGED <<proofs, serial, score, books>>
           \/ /\ ~fails
              /\ proofs[a] = {}
              /\ serial < MaxProofs
              /\ serial' = serial + 1
              /\ Insert(a, {sim})
              /\ PersistScore(a, row(sim))
           \/ /\ ~fails
              /\ \E r \in proofs[a] : PersistScore(a, row(r))
              /\ UNCHANGED <<proofs, serial>>
        /\ UNCHANGED <<proc, quoted>>

Next ==
    \/ \E p \in Client :
        \/ \E a \in Attempt, post \in Posts : PostRead(p, a, post)
        \/ PostWrite(p) \/ QuoteRead(p) \/ QuoteWrite(p)
    \/ \E a \in Attempt : TimeoutRead(a) \/ \E launch \in Launches : Collect(a, launch)
    \/ TimeoutWrite
    \/ \E p \in Process : Abort(p)

Spec == Init /\ [][Next]_vars
-----------------------------------------------------------------------------
(* Properties. *)

Posting == [pc : {"post", "posted", "quote"}, a : Attempt, post : Posts,
            seen : SUBSET ProofRow, scored : BOOLEAN]
TimingOut == [pc : {"timeout"}, a : Attempt, post : {NoResults},
              seen : SUBSET ProofRow, scored : BOOLEAN]

\* Results, scores, proofs and books are well formed, a composite is at most its
\* bonus, and whoever is in the middle of a request has read an attempt, a post
\* and proofs.
TypeOK ==
    /\ results \in [Attempt -> Posts \cup {NoResults, Collected}]
    /\ over \in SUBSET Attempt
    /\ timedOut \in SUBSET over
    /\ proofs \in [Attempt -> SUBSET ProofRow]
    /\ score \in [Attempt -> ScoreRows \cup {NoScore}]
    /\ ledger \in [Hotkey -> Seq(LedgerRow)]
    /\ balance \in [Hotkey -> Nat]
    /\ serial \in 0..MaxProofs
    /\ unpaid \in SUBSET Attempt
    /\ quoted \in SUBSET Attempt
    /\ proc \in [Process -> {Idle} \cup Posting \cup TimingOut]

\* A hotkey's ledger accounts for its balance: each row's balance_after is the
\* one before it plus the row's delta, and the last is the balance
\* (points.py:_upsert_balance and earn_from_score write both in one savepoint).
BooksBalance ==
    \A h \in Hotkey :
        LET rows == ledger[h]
            before(i) == IF i = 1 THEN 0 ELSE rows[i - 1].balance_after
        IN  /\ \A i \in DOMAIN rows : rows[i].balance_after = before(i) + rows[i].delta
            /\ balance[h] = before(Len(rows) + 1)

\* However often an attempt is scored, by whichever transactions, it has one
\* ledger row, in the books of its submitter.
OnePaymentPerAttempt ==
    \A h \in Hotkey : \A i, j \in DOMAIN ledger[h] :
        /\ Owner[ledger[h][i].attempt] = h
        /\ ledger[h][i].attempt = ledger[h][j].attempt => i = j

\* A score that is worth points was paid when it, or an earlier one of the same
\* attempt, was sealed, unless that very payment failed and was swallowed.
NothingForgotten ==
    \A a \in Attempt :
        Scored(a) /\ Hyper.points_enabled /\ Delta(a, score[a]) > 0 => Paid(a) \/ a \in unpaid

\* "tee_bonus > 1.0 is only legal when the associated proof is verified"
\* (models.py:697): a score with mass and a bonus has a proof row that is
\* verified, valid and not simulated, although rows are replaced by a
\* transaction that read them earlier.
BonusHasProof ==
    \A a \in Attempt :
        score[a].composite > 0 /\ score[a].tee_bonus > NoBonus =>
            \E r \in proofs[a] : r.proof.verified /\ r.proof.verdict = "valid" /\ r.proof.mode # "sim"

\* "Bind report_data layout (job id, image digest, nonce)" (docs/tee.md:16): a
\* proof of a tee tier that is not simulated is verified only by a quote whose
\* report_data is of the job it is posted for, or that its body said to expect,
\* whoever replaced proofs or sealed results since the post was taken up.
QuoteNamesItsJob ==
    [][\A a \in Attempt : \A r \in proofs'[a] \ proofs[a] :
          r.proof.verified /\ r.proof.mode # "sim" /\ r.proof.tier \in {"tdx", "tdx+gpu_cc"} =>
              \E p \in Client :
                  /\ At(p, "quote")
                  /\ proc[p].a = a
                  /\ LET quote == proc[p].post.quote
                         data == quote.quote_b64.envelope.report_data_hex
                     IN  data.job_digest = build_job_digest(a) \/ data = quote.report_data_hex]_vars

\* Points are only ever minted with a score of the same step that is worth
\* exactly them, and a ledger row is never changed or removed.
MintedWithScore ==
    [][\A h \in Hotkey : ledger'[h] # ledger[h] =>
          LET row == ledger'[h][Len(ledger'[h])]
          IN  /\ ledger'[h] = Append(ledger[h], row)
              /\ score'[row.attempt].composite > 0
              /\ row.delta = Delta(row.attempt, score'[row.attempt])]_vars

\* "Timeout must never score as demand success (composite / mass stay 0)"
\* (job_lifecycle.py:1291).
TimeoutHasNoMass == \A a \in timedOut : score[a].composite <= 0

\* "For pure sim / ordinary posts keep no-live-bonus invariant"
\* (job_lifecycle.py:502): a bonus with mass comes from a quote found valid.
BonusWasQuoted ==
    \A a \in Attempt : score[a].composite > 0 /\ score[a].tee_bonus > NoBonus => a \in quoted

\* What the points promise.
Promise == INSTANCE PointsPromise
               WITH paid <- {a \in Attempt : Paid(a)}, balance <- balance

KeepsPromise == Promise!Spec
=============================================================================
