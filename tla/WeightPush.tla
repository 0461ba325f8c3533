----------------------------- MODULE WeightPush -----------------------------
(***************************************************************************)
(* weight_push.py, weights.py and the commands of cli.py that use them: the *)
(* periodic push of the worker, an operator's `weights push` and `score     *)
(* recompute`, all on one SQLite database, against a master that stores     *)
(* what it accepts by (epoch, revision) (sim/mock_master.py).               *)
(*                                                                          *)
(* A request may reach the master late, after the pusher gave up on it, or  *)
(* never; an answer may be lost, or be one that the pusher cannot use.      *)
(* Each read of the database and each commit is an action of its own.       *)
(*                                                                          *)
(* The scores only matter by how recent they are: `live` numbers the        *)
(* aggregate that compute_raw_weights would return now, and `mass` is the   *)
(* number of the aggregate that a snapshot carries.                         *)
(***************************************************************************)
EXTENDS Naturals, FiniteSetsExt

CONSTANTS
    Pushers,      \* processes that build or push a snapshot
    Role,         \* [Pushers -> {"loop", "push", "recompute"}]
    MaxEpoch,     \* bound on the clock
    MaxRevision,  \* bound on the revisions of an epoch
    MaxMass,      \* bound on the changes of the scores
    MaxCommands,  \* bound on the commands that operators run
    MaxFaults     \* bound on lost, refused, unusable or late answers

ASSUME RoleAssumption == Role \in [Pushers -> {"loop", "push", "recompute"}]
ASSUME BoundAssumption ==
    /\ MaxEpoch \in Nat \ {0}
    /\ MaxRevision \in Nat \ {0}
    /\ MaxMass \in Nat \ {0}
    /\ MaxCommands \in Nat
    /\ MaxFaults \in Nat

VARIABLES
    epoch,      \* epoch_from_now
    live,       \* number of the current aggregate, 0 while no score has mass
    snapshots,  \* weight_snapshots, by (epoch, revision)
    built,      \* payloads built so far: every one has a nonce of its own
    pusher,     \* what each process has read
    wire,       \* POSTs that have not reached the master
    replies,    \* answers that have not reached their pusher
    master,     \* what the master has accepted, by (epoch, revision)
    faults,     \* answers that went wrong so far
    commands,   \* commands run so far
    raced       \* history: revisions acknowledged while another pusher was about to
                \* mark them, having read them as pending

vars == <<epoch, live, snapshots, built, pusher, wire, replies, master, faults,
          commands, raced>>
db == <<snapshots, built>>
world == <<epoch, live>>
hist == <<commands, raced>>
net == <<wire, replies, master, faults>>

Revision == [epoch : 1..MaxEpoch, rev : 1..MaxRevision]
Digest == Nat \ {0}
NoDigest == 0

PushStatus == {"pending", "acked", "failed", "rejected"}
Snapshot == [status : PushStatus \cup {"absent"}, digest : Digest \cup {NoDigest},
             mass : 0..MaxMass, by : {"loop", "push", "recompute"}]
NoSnapshot == [status |-> "absent", digest |-> NoDigest, mass |-> 0, by |-> "loop"]

Stored(k) == snapshots[k].status # "absent"
Acked(k) == snapshots[k].status = "acked"

Later(k, l) == k.epoch > l.epoch \/ (k.epoch = l.epoch /\ k.rev > l.rev)
Newest(S) == {k \in S : \A l \in S \ {k} : Later(k, l)}

\* next_revision: one more than the epoch's highest.
NextRevision(e) == 1 + Max({0} \cup {k.rev : k \in {l \in Revision : Stored(l) /\ l.epoch = e}})

\* get_latest_snapshot, prefer_acked: the newest acked one, else the newest.
Latest ==
    IF \E k \in Revision : Acked(k) THEN Newest({k \in Revision : Acked(k)})
    ELSE Newest({k \in Revision : Stored(k)})

\* load_raw_weights, which get_weights, `weights push` and `score recompute`
\* use: the latest snapshot's map unless it was rejected, else the aggregate.
Served ==
    LET usable == {k \in Latest : snapshots[k].status # "rejected"}
    IN  IF usable = {} THEN live ELSE snapshots[CHOOSE k \in usable : TRUE].mass

Nowhere == [epoch |-> 1, rev |-> 1]
Idle == [pc |-> "idle", key |-> Nowhere, digest |-> NoDigest, mass |-> 0]
Pc == {"idle", "weighed", "numbered", "inserting", "posting", "waiting",
       "ack", "failed", "rejected", "fail_write", "reject_write"}

At(p, pc) == pusher[p].pc = pc
Goto(p, pc) == pusher' = [pusher EXCEPT ![p].pc = pc]
Return(p) == pusher' = [pusher EXCEPT ![p] = Idle]

Init ==
    /\ epoch = 1
    /\ live = 0
    /\ snapshots = [k \in Revision |-> NoSnapshot]
    /\ built = 0
    /\ pusher = [p \in Pushers |-> Idle]
    /\ wire = {}
    /\ replies = {}
    /\ master = [k \in Revision |-> NoDigest]
    /\ faults = 0
    /\ commands = 0
    /\ raced = {}

\* Scores arrive and the clock moves.
NewScores ==
    /\ live < MaxMass
    /\ live' = live + 1
    /\ UNCHANGED <<epoch, db, pusher, net, hist>>

NewEpoch ==
    /\ epoch < MaxEpoch
    /\ epoch' = epoch + 1
    /\ UNCHANGED <<live, db, pusher, net, hist>>
-----------------------------------------------------------------------------
(* create_pending_snapshot. *)

Started(p) ==
    IF Role[p] = "loop" THEN UNCHANGED commands
    ELSE commands < MaxCommands /\ commands' = commands + 1

\* Mutant of Weigh: the loop pushes what is served, as the commands do.
WeighServed(p) ==
    /\ At(p, "idle")
    /\ Served > 0
    /\ Started(p)
    /\ pusher' = [pusher EXCEPT ![p] = [@ EXCEPT !.pc = "weighed", !.mass = Served,
                                                !.key = [epoch |-> epoch, rev |-> 1]]]
    /\ UNCHANGED <<world, db, net, raced>>

\* The loop takes the aggregate; a command passes what it was served.  Without
\* weights nothing is built.  A command may name the epoch (recompute must).
Weigh(p) ==
    LET mass == IF Role[p] = "loop" THEN live ELSE Served
    IN  /\ At(p, "idle")
        /\ mass > 0
        /\ Started(p)
        /\ \E e \in IF Role[p] = "loop" THEN {epoch} ELSE 1..MaxEpoch :
              pusher' = [pusher EXCEPT ![p] = [@ EXCEPT !.pc = "weighed", !.mass = mass,
                                                       !.key = [epoch |-> e, rev |-> 1]]]
        /\ UNCHANGED <<world, db, net, raced>>

\* The next revision, or for `weights push --revision` any.  Nothing is built
\* beyond the bound.
Number(p) ==
    LET e == pusher[p].key.epoch
    IN  /\ At(p, "weighed")
        /\ \E r \in {NextRevision(e)} \cup (IF Role[p] = "push" THEN 1..MaxRevision ELSE {}) :
              IF r \in 1..MaxRevision
              THEN pusher' = [pusher EXCEPT ![p] = [@ EXCEPT !.pc = "numbered",
                                                             !.key = [epoch |-> e, rev |-> r]]]
              ELSE Return(p)
        /\ UNCHANGED <<world, db, net, hist>>

\* Mutant of Lookup: an existing row is pushed again with a payload of its own.
LookupRebuilds(p) ==
    /\ At(p, "numbered")
    /\ pusher' = [pusher EXCEPT ![p] =
          IF Stored(@.key) THEN [@ EXCEPT !.pc = "posting", !.digest = built + 1]
          ELSE [@ EXCEPT !.pc = "inserting"]]
    /\ UNCHANGED <<world, db, net, hist>>

\* An existing row is used as it is, and pushed again unless it is acked.
Lookup(p) ==
    LET k == pusher[p].key
        reuse == Stored(k) /\ ~Acked(k) /\ Role[p] # "recompute"
    IN  /\ At(p, "numbered")
        /\ pusher' = [pusher EXCEPT ![p] =
              IF ~Stored(k) THEN [@ EXCEPT !.pc = "inserting"]
              ELSE IF reuse THEN [@ EXCEPT !.pc = "posting", !.mass = snapshots[k].mass,
                                           !.digest = snapshots[k].digest]
              ELSE Idle]
        /\ UNCHANGED <<world, db, net, hist>>

Build(p) ==
    /\ built' = built + 1
    /\ snapshots' = [snapshots EXCEPT ![pusher[p].key] =
                        [status |-> "pending", digest |-> built + 1,
                         mass |-> pusher[p].mass, by |-> Role[p]]]
    /\ pusher' = [pusher EXCEPT ![p] = IF Role[p] = "recompute" THEN Idle
                                       ELSE [@ EXCEPT !.pc = "posting", !.digest = built + 1]]
    /\ UNCHANGED <<world, net, hist>>

\* Mutant of Insert: there is no unique (epoch, revision), the last one wins.
InsertOver(p) ==
    /\ At(p, "inserting")
    /\ Build(p)

\* An IntegrityError ends the push; the loop logs it and ticks on.
Insert(p) ==
    /\ At(p, "inserting")
    /\ IF ~Stored(pusher[p].key)
       THEN Build(p)
       ELSE Return(p) /\ UNCHANGED <<world, db, net, hist>>
-----------------------------------------------------------------------------
(* push_once, from the POST on. *)

Message(p) == [by |-> p, key |-> pusher[p].key, digest |-> pusher[p].digest]
Answer(m, kind) == [by |-> m.by, key |-> m.key, digest |-> m.digest, kind |-> kind]

Post(p) ==
    /\ At(p, "posting")
    /\ wire' = wire \cup {Message(p)}
    /\ Goto(p, "waiting")
    /\ UNCHANGED <<world, db, replies, master, faults, hist>>

Fault == faults < MaxFaults /\ faults' = faults + 1

\* raw_weights: accepted once, acknowledged again when the digest is the same,
\* refused with 409 when it is not.
MasterReceive(m) ==
    LET agrees == master[m.key] \in {NoDigest, m.digest}
    IN  /\ m \in wire
        /\ wire' = wire \ {m}
        /\ master' = IF agrees THEN [master EXCEPT ![m.key] = m.digest] ELSE master
        /\ replies' = replies \cup {Answer(m, IF agrees THEN "ok" ELSE "refused")}
        /\ UNCHANGED <<world, db, pusher, faults, hist>>

\* The request is lost, or turned away (4xx, 5xx) before the handler.
LoseRequest(m) ==
    /\ m \in wire
    /\ Fault
    /\ wire' = wire \ {m}
    /\ replies' \in {replies, replies \cup {Answer(m, "refused")}}
    /\ UNCHANGED <<world, db, pusher, master, hist>>

\* The answer is lost, or arrives as something else.
SpoilReply(a) ==
    /\ a \in replies
    /\ Fault
    /\ \E kind \in {"lost", "refused", "garbled"} :
          replies' = (replies \ {a}) \cup
                     (IF kind = "lost" THEN {} ELSE {[a EXCEPT !.kind = kind]})
    /\ UNCHANGED <<world, db, pusher, wire, master, hist>>

\* The answer to the request that p waits for.  An unusable acknowledgement is
\* reported as failed, but the row is left pending.
Receive(p) ==
    /\ At(p, "waiting")
    /\ \E a \in replies :
          /\ a.by = p /\ a.key = pusher[p].key /\ a.digest = pusher[p].digest
          /\ replies' = replies \ {a}
          /\ CASE a.kind = "ok" -> Goto(p, "ack")
               [] a.kind = "refused" -> Goto(p, "rejected")
               [] a.kind = "garbled" -> Return(p)
    /\ UNCHANGED <<world, db, wire, master, faults, hist>>

\* A request of p that will still be answered.
Underway(p) ==
    \E m \in wire \cup replies : m.by = p /\ m.key = pusher[p].key /\ m.digest = pusher[p].digest

\* Mutant of GiveUp: the client has no timeout.
GiveUpNever(p) ==
    /\ At(p, "waiting")
    /\ Fault
    /\ Goto(p, "failed")
    /\ UNCHANGED <<world, db, wire, replies, master, hist>>

\* TimeoutException or TransportError; the connection is closed, so an answer
\* to this request goes nowhere, but the request itself may still be delivered.
GiveUp(p) ==
    /\ At(p, "waiting")
    /\ \/ Fault
       \/ ~Underway(p) /\ UNCHANGED faults
    /\ Goto(p, "failed")
    /\ UNCHANGED <<world, db, wire, replies, master, hist>>

Discard(a) ==
    /\ a \in replies
    /\ ~(At(a.by, "waiting") /\ pusher[a.by].key = a.key)
    /\ replies' = replies \ {a}
    /\ UNCHANGED <<world, db, pusher, wire, master, faults, hist>>

\* Mutant of ReadBack: does not look at the row's status.
ReadBackAny(p) ==
    /\ pusher[p].pc \in {"failed", "rejected"}
    /\ Goto(p, IF At(p, "failed") THEN "fail_write" ELSE "reject_write")
    /\ UNCHANGED <<world, db, net, hist>>

\* Only a pending row is marked failed or rejected.
ReadBack(p) ==
    /\ pusher[p].pc \in {"failed", "rejected"}
    /\ IF snapshots[pusher[p].key].status = "pending"
       THEN Goto(p, IF At(p, "failed") THEN "fail_write" ELSE "reject_write")
       ELSE Return(p)
    /\ UNCHANGED <<world, db, net, hist>>

AboutToMark(k) ==
    \E p \in Pushers : pusher[p].pc \in {"fail_write", "reject_write"} /\ pusher[p].key = k

\* mark_snapshot_status: the UPDATE does not look at the row again.
Mark(p, pc, status) ==
    /\ At(p, pc)
    /\ snapshots' = [snapshots EXCEPT ![pusher[p].key].status = status]
    /\ raced' = IF status = "acked" /\ AboutToMark(pusher[p].key)
                THEN raced \cup {pusher[p].key} ELSE raced
    /\ Return(p)
    /\ UNCHANGED <<world, built, net, commands>>

MarkFailed(p) == Mark(p, "fail_write", "failed")
MarkRejected(p) == Mark(p, "reject_write", "rejected")

\* Whatever the row's status is by then.
MarkAcked(p) == Mark(p, "ack", "acked")

\* The process stops, or its database is busy: the push ends where it is.
Stop(p) ==
    /\ ~At(p, "idle")
    /\ Fault
    /\ Return(p)
    /\ UNCHANGED <<world, db, wire, replies, master, hist>>

Step(p) ==
    \/ Weigh(p) \/ Number(p) \/ Lookup(p) \/ Insert(p)
    \/ Post(p) \/ Receive(p) \/ GiveUp(p)
    \/ ReadBack(p) \/ MarkFailed(p) \/ MarkRejected(p) \/ MarkAcked(p)

Next ==
    \/ NewScores
    \/ NewEpoch
    \/ \E p \in Pushers : Step(p) \/ Stop(p)
    \/ \E m \in wire : MasterReceive(m) \/ LoseRequest(m)
    \/ \E a \in replies : SpoilReply(a) \/ Discard(a)

\* The loop ticks again and again and its awaits return (httpx has a timeout);
\* the master handles what reaches it.  Nobody has to run a command.
Fairness ==
    /\ \A p \in Pushers : Role[p] = "loop" => WF_vars(Step(p))
    /\ WF_vars(NewScores)
    /\ WF_vars(\E m \in wire : MasterReceive(m))

Spec == Init /\ [][Next]_vars /\ Fairness
-----------------------------------------------------------------------------
Messages == [by : Pushers, key : Revision, digest : Digest]
Answers == [by : Pushers, key : Revision, digest : Digest,
            kind : {"ok", "refused", "garbled"}]

TypeOK ==
    /\ epoch \in 1..MaxEpoch
    /\ live \in 0..MaxMass
    /\ snapshots \in [Revision -> Snapshot]
    /\ built \in Nat
    /\ pusher \in [Pushers -> [pc : Pc, key : Revision, digest : Digest \cup {NoDigest},
                               mass : 0..MaxMass]]
    /\ wire \subseteq Messages
    /\ replies \subseteq Answers
    /\ master \in [Revision -> Digest \cup {NoDigest}]
    /\ faults \in 0..MaxFaults
    /\ commands \in 0..MaxCommands
    /\ raced \subseteq Revision

\* A snapshot is only called acknowledged when the master holds that very
\* payload, however late, lost or spoiled the answers (push_once, _ack_matches).
AckedWasAccepted ==
    \A k \in Revision : Acked(k) => master[k] = snapshots[k].digest

\* Whatever is on its way to the master or accepted by it is the payload of the
\* row of that revision: two pushers that computed the same revision never send
\* two payloads for it, so the master never answers 409 to one of ours.
OnePayloadPerRevision ==
    /\ \A m \in wire : m.digest = snapshots[m.key].digest
    /\ \A k \in Revision : master[k] # NoDigest => master[k] = snapshots[k].digest

OneLoop == \A p, q \in Pushers : Role[p] = "loop" /\ Role[q] = "loop" => p = q
LoopRow(k) == Stored(k) /\ snapshots[k].by = "loop"

\* What the loop pushes never goes back in time: of the revisions it built, a
\* later one carries the same aggregate or a more recent one, whatever fails
\* and whatever commands run in between.
LoopCarriesOn ==
    OneLoop => \A k, l \in Revision :
                  LoopRow(k) /\ LoopRow(l) /\ Later(k, l)
                  => snapshots[k].mass >= snapshots[l].mass

\* An acknowledgement can be lost in one way only: it arrives while another
\* pusher of the same revision has read the row as pending and not yet marked it
\* failed or rejected.  Whatever is answered later never undoes it.
AckKept ==
    [][\A k \in Revision : Acked(k) /\ k \notin raced => Acked(k)']_vars

\* The bound on revisions is used up for an epoch.
Exhausted == \E e \in 1..MaxEpoch : NextRevision(e) > MaxRevision

\* Once there are scores and faults are over, some revision is acknowledged: a
\* failed push is not repeated, but the next tick builds the next revision.
EventuallyAcked == <>((\E k \in Revision : Acked(k)) \/ Exhausted)

\* The detailed push keeps the promise made to the master and the readers.
Promise == INSTANCE PushPromise WITH
    Payload <- Digest,
    None <- NoDigest,
    built <- [k \in Revision |-> snapshots[k].digest],
    accepted <- master,
    known <- {k \in Revision : Acked(k)}

KeepsPromise == Promise!Spec

\* "Refresh aggregates and optionally build a pending weight snapshot" (cli.py,
\* score recompute): what recompute builds is the current aggregate.
RecomputeRefreshes ==
    [][\A p \in Pushers : Role[p] = "recompute" /\ At(p, "idle") /\ ~At(p, "idle")'
                            => pusher'[p].mass = live]_vars
=============================================================================
