-------------------------- MODULE WeightPushProofs --------------------------
(* What WeightPush guarantees for any pushers, revisions and bounds.         *)
EXTENDS WeightPush, FiniteSetTheorems, WellFoundedInduction, TLAPS

Underhand == {"posting", "waiting", "ack", "failed", "rejected", "fail_write", "reject_write"}

Matches(m) == Stored(m.key) /\ m.digest = snapshots[m.key].digest

\* A row has a payload from the moment it is stored.
RowsBuilt == \A k \in Revision : Stored(k) <=> snapshots[k].digest # NoDigest

\* A push that has got as far as the POST is about the payload of its row.
PushesMatch == \A p \in Pushers : pusher[p].pc \in Underhand => Matches(pusher[p])

\* So is everything on its way, and an "ok" comes from a master that accepted.
MessagesMatch ==
    /\ \A m \in wire : Matches(m)
    /\ \A a \in replies : Matches(a) /\ (a.kind = "ok" => master[a.key] = a.digest)

\* The master holds payloads of rows, and an acknowledgement in hand is true.
MasterMatches ==
    /\ \A k \in Revision : master[k] # NoDigest => master[k] = snapshots[k].digest
    /\ \A p \in Pushers : At(p, "ack") => master[pusher[p].key] = pusher[p].digest

Inv ==
    /\ TypeOK
    /\ RowsBuilt
    /\ PushesMatch
    /\ MessagesMatch
    /\ MasterMatches
    /\ AckedWasAccepted
-----------------------------------------------------------------------------
USE RoleAssumption, BoundAssumption

LEMMA InitInv == Init => Inv
<1> SUFFICES ASSUME Init PROVE Inv
  OBVIOUS
<1>1. Nowhere \in Revision
  BY DEF Nowhere, Revision
<1>2. TypeOK
  BY <1>1 DEF Init, TypeOK, Snapshot, NoSnapshot, Idle, Pc, NoDigest
<1> QED
  BY <1>2 DEF Init, Inv, RowsBuilt, PushesMatch, MessagesMatch, MasterMatches, AckedWasAccepted,
     Stored, Acked, NoSnapshot, Idle, Underhand, At, NoDigest

\* The scores and the clock change nothing here.
LEMMA WorldInv == ASSUME Inv, NewScores \/ NewEpoch PROVE Inv'
<1>1. UNCHANGED <<snapshots, built, pusher, wire, replies, master, faults, commands, raced>>
  BY DEF NewScores, NewEpoch, db, net, hist
<1>2. TypeOK'
  BY <1>1 DEF NewScores, NewEpoch, Inv, TypeOK
<1> QED
  BY <1>1, <1>2 DEF Inv, RowsBuilt, PushesMatch, MessagesMatch, MasterMatches, AckedWasAccepted,
     Stored, Acked, At, Matches

\* A step that writes no row and posts nothing keeps all but p's own record.
LEMMA ReadInv ==
  ASSUME Inv, NEW p \in Pushers,
         UNCHANGED <<epoch, live, snapshots, built, master, raced>>,
         wire' \subseteq wire, replies' \subseteq replies,
         commands' \in 0..MaxCommands, faults' \in 0..MaxFaults,
         NEW r \in [pc : Pc, key : Revision, digest : Digest \cup {NoDigest}, mass : 0..MaxMass],
         pusher' = [pusher EXCEPT ![p] = r],
         r.pc \in Underhand => Matches(r),
         r.pc = "ack" => master[r.key] = r.digest
  PROVE  Inv'
<1>1. TypeOK'
  BY DEF Inv, TypeOK
<1>2. \A q \in Pushers : pusher'[q] = IF q = p THEN r ELSE pusher[q]
  BY DEF Inv, TypeOK
<1>3. PushesMatch' /\ MasterMatches'
  BY <1>2 DEF Inv, PushesMatch, MasterMatches, Matches, Stored, At
<1>4. MessagesMatch'
  BY DEF Inv, MessagesMatch, Matches, Stored
<1> QED
  BY <1>1, <1>3, <1>4 DEF Inv, RowsBuilt, AckedWasAccepted, Stored, Acked

PusherRecord == [pc : Pc, key : Revision, digest : Digest \cup {NoDigest}, mass : 0..MaxMass]

LEMMA IdleRecord == Idle \in PusherRecord /\ Idle.pc \notin Underhand /\ Idle.pc # "ack"
BY DEF Idle, Nowhere, Pc, Revision, NoDigest, Underhand, PusherRecord

\* Moving on to a later stage of the same push, or ending it.
LEMMA GotoInv ==
  ASSUME Inv, NEW p \in Pushers,
         UNCHANGED <<epoch, live, snapshots, built, master, raced>>,
         wire' \subseteq wire, replies' \subseteq replies,
         UNCHANGED commands, faults' \in 0..MaxFaults,
         \/ Return(p)
         \/ /\ pusher[p].pc \in Underhand
            /\ \/ \E pc \in {"waiting", "failed", "rejected", "fail_write", "reject_write"} :
                     Goto(p, pc)
               \/ Goto(p, "ack") /\ master[pusher[p].key] = pusher[p].digest
  PROVE  Inv'
<1>1. commands' \in 0..MaxCommands
  BY DEF Inv, TypeOK
<1>2. CASE Return(p)
  BY <1>1, <1>2, ReadInv, IdleRecord DEF Return, PusherRecord
<1>3. ASSUME NEW pc \in Pc, pusher[p].pc \in Underhand, Goto(p, pc),
             pc = "ack" => master[pusher[p].key] = pusher[p].digest
      PROVE  Inv'
  <2> DEFINE r == [pusher[p] EXCEPT !.pc = pc]
  <2>1. pusher[p] \in PusherRecord
    BY DEF Inv, TypeOK, PusherRecord
  <2>2. r \in PusherRecord /\ r.pc = pc /\ r.key = pusher[p].key /\ r.digest = pusher[p].digest
    BY <2>1 DEF PusherRecord
  <2>3. Matches(r)
    BY <1>3, <2>2 DEF Inv, PushesMatch, Matches, Stored
  <2>4. pusher' = [pusher EXCEPT ![p] = r]
    BY <1>3 DEF Goto
  <2> HIDE DEF r
  <2> QED BY <1>1, <1>3, <2>2, <2>3, <2>4, ReadInv DEF PusherRecord
<1> QED BY <1>2, <1>3 DEF Pc

LEMMA WeighInv == ASSUME Inv, NEW p \in Pushers, Weigh(p) PROVE Inv'
<1>1. Served \in 0..MaxMass
  <2>1. \A k \in Latest : k \in Revision
    BY DEF Latest, Newest
  <2>2. \A k \in Revision : snapshots[k].mass \in 0..MaxMass
    BY DEF Inv, TypeOK, Snapshot
  <2>3. live \in 0..MaxMass
    BY DEF Inv, TypeOK
  <2> QED BY <2>1, <2>2, <2>3 DEF Served
<1>2. PICK mass \in 0..MaxMass, e \in 1..MaxEpoch :
        pusher' = [pusher EXCEPT ![p] = [@ EXCEPT !.pc = "weighed", !.mass = mass,
                                                 !.key = [epoch |-> e, rev |-> 1]]]
  <2>1. live \in 0..MaxMass /\ epoch \in 1..MaxEpoch
    BY DEF Inv, TypeOK
  <2> QED BY <1>1, <2>1 DEF Weigh
<1> DEFINE r == [pusher[p] EXCEPT !.pc = "weighed", !.mass = mass, !.key = [epoch |-> e, rev |-> 1]]
<1>3. pusher[p] \in PusherRecord
  BY DEF Inv, TypeOK, PusherRecord
<1>4. r \in PusherRecord /\ r.pc = "weighed"
  <2>1. [epoch |-> e, rev |-> 1] \in Revision
    BY DEF Revision
  <2>2. "weighed" \in Pc
    BY DEF Pc
  <2> QED BY <1>3, <2>1, <2>2 DEF PusherRecord
<1>5. pusher' = [pusher EXCEPT ![p] = r]
  BY <1>2
<1>6. commands' \in 0..MaxCommands /\ faults' \in 0..MaxFaults
  BY DEF Weigh, Started, Inv, TypeOK, net
<1> HIDE DEF r
<1> QED BY <1>4, <1>5, <1>6, ReadInv DEF Weigh, world, db, net, hist, Underhand, PusherRecord

LEMMA NumberInv == ASSUME Inv, NEW p \in Pushers, Number(p) PROVE Inv'
<1>1. UNCHANGED <<epoch, live, snapshots, built, wire, replies, master, raced, commands, faults>>
  BY DEF Number, world, db, net, hist
<1>2. faults' \in 0..MaxFaults /\ commands' \in 0..MaxCommands
  BY <1>1 DEF Inv, TypeOK
<1>3. CASE Return(p)
  BY <1>1, <1>2, <1>3, GotoInv
<1>4. ASSUME NEW rev \in 1..MaxRevision,
             pusher' = [pusher EXCEPT ![p] = [@ EXCEPT !.pc = "numbered",
                            !.key = [epoch |-> pusher[p].key.epoch, rev |-> rev]]]
      PROVE  Inv'
  <2> DEFINE key == [epoch |-> pusher[p].key.epoch, rev |-> rev]
             r == [pusher[p] EXCEPT !.pc = "numbered", !.key = key]
  <2>1. pusher[p] \in PusherRecord
    BY DEF Inv, TypeOK, PusherRecord
  <2>2. key \in Revision /\ "numbered" \in Pc
    BY <2>1 DEF PusherRecord, Revision, Pc
  <2> HIDE DEF key
  <2>3. r \in PusherRecord /\ r.pc = "numbered"
    BY <2>1, <2>2 DEF PusherRecord
  <2>4. pusher' = [pusher EXCEPT ![p] = r]
    BY <1>4 DEF key
  <2> HIDE DEF r
  <2> QED BY <1>1, <1>2, <2>3, <2>4, ReadInv DEF Underhand, PusherRecord
<1> QED BY <1>3, <1>4 DEF Number

LEMMA LookupInv == ASSUME Inv, NEW p \in Pushers, Lookup(p) PROVE Inv'
<1>1. UNCHANGED <<epoch, live, snapshots, built, wire, replies, master, raced, commands, faults>>
  BY DEF Lookup, world, db, net, hist
<1>2. faults' \in 0..MaxFaults /\ commands' \in 0..MaxCommands
  BY <1>1 DEF Inv, TypeOK
<1>3. pusher[p] \in PusherRecord /\ pusher[p].key \in Revision
  BY DEF Inv, TypeOK, PusherRecord
<1>4. snapshots[pusher[p].key] \in Snapshot
  BY <1>3 DEF Inv, TypeOK
<1> DEFINE k == pusher[p].key
<1>5. CASE pusher' = [pusher EXCEPT ![p] = Idle]
  BY <1>1, <1>2, <1>5, GotoInv DEF Return
<1>6. CASE pusher' = [pusher EXCEPT ![p] = [@ EXCEPT !.pc = "inserting"]]
  <2> DEFINE r == [pusher[p] EXCEPT !.pc = "inserting"]
  <2>1. r \in PusherRecord /\ r.pc = "inserting"
    BY <1>3 DEF PusherRecord, Pc
  <2>2. pusher' = [pusher EXCEPT ![p] = r]
    BY <1>6
  <2> HIDE DEF r
  <2> QED BY <1>1, <1>2, <2>1, <2>2, ReadInv DEF Underhand, PusherRecord
<1>7. CASE /\ Stored(k)
           /\ pusher' = [pusher EXCEPT ![p] = [@ EXCEPT !.pc = "posting",
                            !.mass = snapshots[k].mass, !.digest = snapshots[k].digest]]
  <2> DEFINE r == [pusher[p] EXCEPT !.pc = "posting", !.mass = snapshots[k].mass,
                                    !.digest = snapshots[k].digest]
  <2>1. r \in PusherRecord /\ r.pc = "posting" /\ r.key = k /\ r.digest = snapshots[k].digest
    BY <1>3, <1>4 DEF PusherRecord, Pc, Snapshot
  <2>2. pusher' = [pusher EXCEPT ![p] = r]
    BY <1>7
  <2>3. Matches(r)
    BY <1>7, <2>1 DEF Matches
  <2> HIDE DEF r
  <2> QED BY <1>1, <1>2, <2>1, <2>2, <2>3, ReadInv DEF PusherRecord
<1> QED BY <1>5, <1>6, <1>7 DEF Lookup

\* A new row: nothing was stored, sent or accepted for its revision before.
LEMMA InsertInv == ASSUME Inv, NEW p \in Pushers, Insert(p) PROVE Inv'
<1>1. CASE Stored(pusher[p].key)
  <2>1. UNCHANGED <<epoch, live, snapshots, built, wire, replies, master, raced, commands, faults>>
    BY <1>1 DEF Insert, world, db, net, hist
  <2> QED BY <1>1, <2>1, GotoInv DEF Insert, Inv, TypeOK
<1>2. CASE ~Stored(pusher[p].key)
  <2> DEFINE k == pusher[p].key
             row == [status |-> "pending", digest |-> built + 1,
                     mass |-> pusher[p].mass, by |-> Role[p]]
  <2>1. /\ pusher[p] \in PusherRecord
        /\ k \in Revision
        /\ pusher[p].mass \in 0..MaxMass
        /\ built \in Nat
    BY DEF Inv, TypeOK, PusherRecord
  <2>2. /\ built' = built + 1
        /\ snapshots' = [snapshots EXCEPT ![k] = row]
        /\ UNCHANGED <<epoch, live, wire, replies, master, raced, commands, faults>>
    BY <1>2 DEF Insert, Build, world, net, hist
  <2>3. PICK r \in PusherRecord :
          /\ pusher' = [pusher EXCEPT ![p] = r]
          /\ r.pc \in Underhand => r.key = k /\ r.digest = built + 1
          /\ r.pc # "ack"
    <3>1. CASE Role[p] = "recompute"
      BY <1>2, <3>1, IdleRecord DEF Insert, Build
    <3>2. CASE Role[p] # "recompute"
      <4> DEFINE r == [pusher[p] EXCEPT !.pc = "posting", !.digest = built + 1]
      <4>1. r \in PusherRecord /\ r.key = k /\ r.digest = built + 1 /\ r.pc = "posting"
        <5>1. "posting" \in Pc /\ built + 1 \in Digest
          BY <2>1 DEF Pc, Digest
        <5> QED BY <2>1, <5>1 DEF PusherRecord
      <4>2. pusher' = [pusher EXCEPT ![p] = r]
        BY <1>2, <3>2 DEF Insert, Build
      <4> HIDE DEF r
      <4> QED BY <4>1, <4>2
    <3> QED BY <3>1, <3>2
  <2>4. row \in Snapshot /\ row.status = "pending" /\ row.digest = built + 1
    BY <2>1 DEF Snapshot, PushStatus, Digest
  <2> HIDE DEF row
  <2>5. TypeOK'
    BY <2>1, <2>2, <2>3, <2>4 DEF Inv, TypeOK, PusherRecord
  <2>6. \A l \in Revision : snapshots'[l] = IF l = k THEN row ELSE snapshots[l]
    BY <2>2 DEF Inv, TypeOK
  <2>7. \A q \in Pushers : pusher'[q] = IF q = p THEN r ELSE pusher[q]
    BY <2>3 DEF Inv, TypeOK
  <2>8. RowsBuilt'
    BY <2>1, <2>4, <2>6 DEF Inv, RowsBuilt, Stored, NoDigest
  <2>9. \A m : Matches(m) /\ m.key \in Revision => Matches(m)' /\ m.key # k
    BY <1>2, <2>6 DEF Matches, Stored
  <2>10. PushesMatch'
    <3> SUFFICES ASSUME NEW q \in Pushers, pusher'[q].pc \in Underhand
                 PROVE  Matches(pusher[q])'
      BY DEF PushesMatch
    <3>1. CASE q = p
      BY <2>1, <2>3, <2>4, <2>6, <2>7, <3>1 DEF Matches, Stored
    <3>2. CASE q # p
      <4>1. Matches(pusher[q]) /\ pusher[q].key \in Revision
        BY <2>7, <3>2 DEF Inv, PushesMatch, TypeOK
      <4> QED BY <2>6, <2>7, <2>9, <3>2, <4>1 DEF Matches, Stored
    <3> QED BY <3>1, <3>2
  <2>11. MessagesMatch'
    <3>1. \A m \in wire \cup replies : m.key \in Revision
      BY DEF Inv, TypeOK, Messages, Answers
    <3>2. \A m \in wire \cup replies : Matches(m)'
      BY <2>9, <3>1 DEF Inv, MessagesMatch
    <3> QED BY <2>2, <3>2 DEF Inv, MessagesMatch, Matches, Stored
  <2>12. MasterMatches' /\ AckedWasAccepted'
    <3>1. master[k] = NoDigest
      <4>1. snapshots[k].digest = NoDigest
        BY <1>2, <2>1 DEF Inv, RowsBuilt
      <4> QED BY <2>1, <4>1 DEF Inv, MasterMatches
    <3>2. \A l \in Revision : master[l] # NoDigest => master'[l] = snapshots'[l].digest
      BY <2>2, <2>6, <3>1 DEF Inv, MasterMatches
    <3>3. \A q \in Pushers : At(q, "ack")' => master'[pusher'[q].key] = pusher'[q].digest
      BY <2>2, <2>3, <2>7 DEF Inv, MasterMatches, At
    <3>4. AckedWasAccepted'
      BY <2>2, <2>4, <2>6 DEF Inv, AckedWasAccepted, Acked
    <3> QED BY <2>2, <3>2, <3>3, <3>4 DEF MasterMatches
  <2> QED BY <2>5, <2>8, <2>10, <2>11, <2>12 DEF Inv
<1> QED BY <1>1, <1>2

LEMMA PostInv == ASSUME Inv, NEW p \in Pushers, Post(p) PROVE Inv'
<1> DEFINE r == [pusher[p] EXCEPT !.pc = "waiting"]
<1>1. /\ pusher[p] \in PusherRecord
      /\ pusher[p].pc = "posting"
      /\ Matches(pusher[p])
      /\ pusher[p].key \in Revision
  BY DEF Post, At, Inv, TypeOK, PusherRecord, PushesMatch, Underhand
<1>2. r \in PusherRecord /\ r.pc = "waiting" /\ r.key = pusher[p].key /\ r.digest = pusher[p].digest
  BY <1>1 DEF PusherRecord, Pc
<1>3. /\ pusher' = [pusher EXCEPT ![p] = r]
      /\ wire' = wire \cup {Message(p)}
      /\ UNCHANGED <<epoch, live, snapshots, built, replies, master, faults, commands, raced>>
  BY DEF Post, Goto, world, db, hist
<1>4. \A q \in Pushers : pusher'[q] = IF q = p THEN r ELSE pusher[q]
  BY <1>3 DEF Inv, TypeOK
<1> HIDE DEF r
<1>5. Message(p) \in Messages /\ Matches(Message(p))
  <2>1. pusher[p].digest \in Digest
    BY <1>1 DEF Matches, Inv, RowsBuilt, TypeOK, Snapshot
  <2> QED BY <1>1, <2>1 DEF Message, Messages, Matches, Stored
<1>6. TypeOK'
  BY <1>2, <1>3, <1>5 DEF Inv, TypeOK, PusherRecord
<1>7. PushesMatch' /\ MasterMatches'
  BY <1>1, <1>2, <1>3, <1>4 DEF Inv, PushesMatch, MasterMatches, Matches, Stored, At
<1>8. MessagesMatch'
  BY <1>3, <1>5 DEF Inv, MessagesMatch, Matches, Stored
<1> QED BY <1>3, <1>6, <1>7, <1>8 DEF Inv, RowsBuilt, AckedWasAccepted, Stored, Acked

\* What the master accepts is the payload of a row, and it keeps what it has.
LEMMA MasterInv ==
  ASSUME Inv, NEW m \in wire, MasterReceive(m)
  PROVE  Inv'
<1>1. m \in Messages /\ Matches(m) /\ m.key \in Revision
  BY DEF Inv, TypeOK, MessagesMatch, Messages
<1>2. /\ wire' = wire \ {m}
      /\ UNCHANGED <<epoch, live, snapshots, built, pusher, faults, commands, raced>>
  BY DEF MasterReceive, world, db, hist
<1>3. master[m.key] \in {NoDigest, m.digest}
  BY <1>1 DEF Inv, MasterMatches, Matches
<1>4. /\ master' = [master EXCEPT ![m.key] = m.digest]
      /\ replies' = replies \cup {Answer(m, "ok")}
  BY <1>3 DEF MasterReceive
<1>5. Answer(m, "ok") \in Answers /\ Answer(m, "ok").key = m.key
      /\ Answer(m, "ok").digest = m.digest /\ Answer(m, "ok").kind = "ok"
  BY <1>1 DEF Answer, Answers, Messages
<1>6. TypeOK'
  BY <1>1, <1>2, <1>4, <1>5 DEF Inv, TypeOK, Messages
<1>7. \A k \in Revision : master'[k] = IF k = m.key THEN m.digest ELSE master[k]
  BY <1>4 DEF Inv, TypeOK
<1>8. MessagesMatch'
  <2>1. \A n \in replies : n.key \in Revision /\ Matches(n)
    BY DEF Inv, TypeOK, MessagesMatch, Answers
  <2>2. \A n \in replies : n.kind = "ok" => master'[n.key] = n.digest
    BY <1>1, <1>7, <2>1 DEF Inv, MessagesMatch, Matches
  <2>3. Matches(Answer(m, "ok")) /\ master'[m.key] = m.digest
    BY <1>1, <1>5, <1>7 DEF Matches
  <2> QED BY <1>2, <1>4, <1>5, <2>1, <2>2, <2>3 DEF Inv, MessagesMatch, Matches, Stored
<1>9. MasterMatches'
  <2>1. \A q \in Pushers : At(q, "ack") => pusher[q].key \in Revision /\ Matches(pusher[q])
    BY DEF Inv, TypeOK, PushesMatch, At, Underhand
  <2>2. \A q \in Pushers : At(q, "ack") => master'[pusher[q].key] = pusher[q].digest
    BY <1>1, <1>7, <2>1 DEF Inv, MasterMatches, Matches
  <2> QED BY <1>1, <1>2, <1>7, <2>2 DEF Inv, MasterMatches, Matches, At
<1>10. AckedWasAccepted'
  BY <1>1, <1>2, <1>7 DEF Inv, AckedWasAccepted, Acked, Matches
<1> QED
  BY <1>2, <1>6, <1>8, <1>9, <1>10 DEF Inv, RowsBuilt, PushesMatch, Matches, Stored

\* Losing, refusing or spoiling messages invents no "ok".
LEMMA NetworkInv ==
  ASSUME Inv,
         \/ \E m \in wire : LoseRequest(m)
         \/ \E a \in replies : SpoilReply(a) \/ Discard(a)
  PROVE  Inv'
<1>1. /\ UNCHANGED <<epoch, live, snapshots, built, pusher, master, commands, raced>>
      /\ wire' \subseteq wire
      /\ faults' \in 0..MaxFaults
  BY DEF LoseRequest, SpoilReply, Discard, Fault, world, db, hist, Inv, TypeOK
<1>2. \A a \in replies' : a \in Answers /\ (a \in replies \/ (a.kind # "ok" /\ Matches(a)))
  <2>1. ASSUME NEW m \in wire, LoseRequest(m), NEW a \in replies'
        PROVE  a \in Answers /\ (a \in replies \/ (a.kind # "ok" /\ Matches(a)))
    <3>1. m \in Messages /\ Matches(m)
      BY DEF Inv, TypeOK, MessagesMatch
    <3>2. Answer(m, "refused") \in Answers /\ Answer(m, "refused").kind = "refused"
          /\ Matches(Answer(m, "refused"))
      BY <3>1 DEF Answer, Answers, Messages, Matches, Stored
    <3> QED BY <2>1, <3>2 DEF LoseRequest, Inv, TypeOK
  <2>2. ASSUME NEW b \in replies, SpoilReply(b), NEW a \in replies'
        PROVE  a \in Answers /\ (a \in replies \/ (a.kind # "ok" /\ Matches(a)))
    <3>1. b \in Answers /\ Matches(b)
      BY DEF Inv, TypeOK, MessagesMatch
    <3>2. ASSUME NEW kind \in {"refused", "garbled"}, a = [b EXCEPT !.kind = kind]
          PROVE  a \in Answers /\ a.kind # "ok" /\ Matches(a)
      BY <3>1, <3>2 DEF Answers, Matches, Stored
    <3> QED BY <2>2, <3>2 DEF SpoilReply, Inv, TypeOK
  <2>3. ASSUME NEW b \in replies, Discard(b), NEW a \in replies'
        PROVE  a \in Answers /\ (a \in replies \/ (a.kind # "ok" /\ Matches(a)))
    BY <2>3 DEF Discard, Inv, TypeOK
  <2> QED BY <2>1, <2>2, <2>3
<1>3. TypeOK'
  BY <1>1, <1>2 DEF Inv, TypeOK
<1>4. MessagesMatch'
  BY <1>1, <1>2 DEF Inv, MessagesMatch, Matches, Stored
<1> QED
  BY <1>1, <1>3, <1>4 DEF Inv, RowsBuilt, PushesMatch, MasterMatches, AckedWasAccepted,
     Matches, Stored, Acked, At

LEMMA ReceiveInv == ASSUME Inv, NEW p \in Pushers, Receive(p) PROVE Inv'
<1>1. /\ pusher[p].pc \in Underhand
      /\ UNCHANGED <<epoch, live, snapshots, built, wire, master, faults, commands, raced>>
  BY DEF Receive, At, Underhand, world, db, hist
<1>2. PICK a \in replies :
        /\ a.key = pusher[p].key /\ a.digest = pusher[p].digest
        /\ replies' = replies \ {a}
        /\ CASE a.kind = "ok" -> Goto(p, "ack")
             [] a.kind = "refused" -> Goto(p, "rejected")
             [] a.kind = "garbled" -> Return(p)
  BY DEF Receive
<1>3. a.kind \in {"ok", "refused", "garbled"} /\ (a.kind = "ok" => master[a.key] = a.digest)
  BY DEF Inv, TypeOK, Answers, MessagesMatch
<1>4. faults' \in 0..MaxFaults
  BY <1>1 DEF Inv, TypeOK
<1>5. \/ Return(p) \/ Goto(p, "rejected")
      \/ Goto(p, "ack") /\ master[pusher[p].key] = pusher[p].digest
  BY <1>2, <1>3
<1> QED BY <1>1, <1>2, <1>4, <1>5, GotoInv

LEMMA EndInv ==
  ASSUME Inv, NEW p \in Pushers, GiveUp(p) \/ ReadBack(p) \/ Stop(p)
  PROVE  Inv'
<1>1. /\ UNCHANGED <<epoch, live, snapshots, built, wire, replies, master, commands, raced>>
      /\ faults' \in 0..MaxFaults
  BY DEF GiveUp, ReadBack, Stop, Fault, Inv, TypeOK, world, db, net, hist
<1>2. CASE GiveUp(p)
  BY <1>1, <1>2, GotoInv DEF GiveUp, At, Underhand
<1>3. CASE ReadBack(p)
  BY <1>1, <1>3, GotoInv DEF ReadBack, At, Underhand
<1>4. CASE Stop(p)
  BY <1>1, <1>4, GotoInv DEF Stop
<1> QED BY <1>2, <1>3, <1>4

LEMMA MarkInv ==
  ASSUME Inv, NEW p \in Pushers, MarkFailed(p) \/ MarkRejected(p) \/ MarkAcked(p)
  PROVE  Inv'
<1> DEFINE k == pusher[p].key
<1>1. PICK status \in PushStatus :
        /\ snapshots' = [snapshots EXCEPT ![k].status = status]
        /\ status = "acked" => At(p, "ack")
        /\ pusher[p].pc \in Underhand
  BY DEF MarkFailed, MarkRejected, MarkAcked, Mark, PushStatus, Underhand, At
<1>2. /\ pusher' = [pusher EXCEPT ![p] = Idle]
      /\ UNCHANGED <<epoch, live, built, wire, replies, master, faults, commands>>
      /\ raced' \subseteq raced \cup {k}
  BY DEF MarkFailed, MarkRejected, MarkAcked, Mark, Return, world, net
<1>3. k \in Revision /\ Stored(k) /\ pusher[p].digest = snapshots[k].digest
  BY <1>1 DEF Inv, TypeOK, PushesMatch, Matches
<1>4. \A l \in Revision :
        /\ snapshots[l] \in Snapshot
        /\ snapshots'[l] = IF l = k THEN [snapshots[l] EXCEPT !.status = status] ELSE snapshots[l]
  BY <1>1 DEF Inv, TypeOK
<1>5. \A l \in Revision :
        /\ snapshots'[l] \in Snapshot
        /\ snapshots'[l].digest = snapshots[l].digest
        /\ snapshots'[l].status = IF l = k THEN status ELSE snapshots[l].status
  <2> SUFFICES ASSUME NEW l \in Revision
               PROVE  /\ snapshots'[l] \in Snapshot
                      /\ snapshots'[l].digest = snapshots[l].digest
                      /\ snapshots'[l].status = IF l = k THEN status ELSE snapshots[l].status
    OBVIOUS
  <2> DEFINE row == [snapshots[l] EXCEPT !.status = status]
  <2>1. row \in Snapshot /\ row.digest = snapshots[l].digest /\ row.status = status
    BY <1>4 DEF Snapshot
  <2> HIDE DEF row
  <2>2. snapshots'[l] = IF l = k THEN row ELSE snapshots[l]
    BY <1>4 DEF row
  <2> QED BY <1>4, <2>1, <2>2
<1>6. \A l \in Revision : Stored(l)' <=> Stored(l)
  BY <1>3, <1>5 DEF Stored, PushStatus
<1>7. \A q \in Pushers : pusher'[q] = IF q = p THEN Idle ELSE pusher[q]
  BY <1>2 DEF Inv, TypeOK
<1>8. TypeOK'
  <2>1. snapshots' \in [Revision -> Snapshot]
    BY <1>1, <1>5 DEF Inv, TypeOK
  <2> QED BY <1>2, <1>3, <2>1, IdleRecord DEF Inv, TypeOK, PusherRecord
<1>9. \A m : m.key \in Revision /\ Matches(m) => Matches(m)'
  BY <1>5, <1>6 DEF Matches
<1>10. PushesMatch'
  <2> SUFFICES ASSUME NEW q \in Pushers, pusher'[q].pc \in Underhand
               PROVE  Matches(pusher[q])'
    BY DEF PushesMatch
  <2>1. q # p /\ pusher'[q] = pusher[q]
    BY <1>7, IdleRecord
  <2>2. pusher[q].key \in Revision /\ Matches(pusher[q])
    BY <2>1 DEF Inv, TypeOK, PushesMatch
  <2> QED BY <1>5, <1>6, <2>1, <2>2 DEF Matches
<1>11. MessagesMatch'
  <2>1. \A m \in wire \cup replies : m.key \in Revision
    BY DEF Inv, TypeOK, Messages, Answers
  <2> QED BY <1>2, <1>9, <2>1 DEF Inv, MessagesMatch
<1>12. MasterMatches'
  BY <1>2, <1>5, <1>7, IdleRecord DEF Inv, MasterMatches, At
<1>13. AckedWasAccepted'
  <2>1. status = "acked" => master[k] = snapshots[k].digest
    BY <1>1, <1>3 DEF Inv, MasterMatches
  <2> QED BY <1>2, <1>5, <2>1 DEF Inv, AckedWasAccepted, Acked
<1>14. RowsBuilt'
  BY <1>5, <1>6 DEF Inv, RowsBuilt
<1> QED BY <1>8, <1>10, <1>11, <1>12, <1>13, <1>14 DEF Inv

\* Every step keeps the invariant.
LEMMA NextInv == Inv /\ [Next]_vars => Inv'
<1> SUFFICES ASSUME Inv, [Next]_vars PROVE Inv'
  OBVIOUS
<1>1. ASSUME NEW p \in Pushers, Step(p) PROVE Inv'
  BY <1>1, WeighInv, NumberInv, LookupInv, InsertInv, PostInv, ReceiveInv, EndInv, MarkInv DEF Step
<1>2. CASE UNCHANGED vars
  BY <1>2 DEF vars, Inv, TypeOK, RowsBuilt, PushesMatch, MessagesMatch, MasterMatches,
     AckedWasAccepted, Stored, Acked, At, Matches
<1> QED BY <1>1, <1>2, WorldInv, EndInv, MasterInv, NetworkInv DEF Next

\* The inductive invariant holds throughout, for any pushers and any faults of
\* the network (push_once, create_pending_snapshot).
THEOREM Invariance == Spec => []Inv
BY InitInv, NextInv, PTL DEF Spec

\* The tables, the messages and everything the processes have read are well
\* formed (weight_push.py).
THEOREM TypeCorrect == Spec => []TypeOK
<1>1. Inv => TypeOK
  BY DEF Inv
<1> QED BY <1>1, Invariance, PTL

\* A snapshot is called acknowledged only when the master holds its payload,
\* for any pushers, losses and delays (push_once).
THEOREM AcksAreTrue == Spec => []AckedWasAccepted
<1>1. Inv => AckedWasAccepted
  BY DEF Inv
<1> QED BY <1>1, Invariance, PTL

\* No two payloads are ever sent or accepted for one revision
\* (create_pending_snapshot, the unique epoch and revision).
THEOREM PayloadsAreUnique == Spec => []OnePayloadPerRevision
<1>1. Inv => OnePayloadPerRevision
  BY DEF Inv, OnePayloadPerRevision, MessagesMatch, MasterMatches, Matches
<1> QED BY <1>1, Invariance, PTL
-----------------------------------------------------------------------------
(* The refinement.  Only a new row, an accepted payload and a mark on a row   *)
(* are visible to the promise.                                                *)

DigestOf == [k \in Revision |-> snapshots[k].digest]
KnownAcked == {k \in Revision : Acked(k)}

LEMMA QuietStep ==
  ASSUME UNCHANGED <<snapshots, master>>
  PROVE  UNCHANGED Promise!vars
BY DEF Promise!vars, Acked

LEMMA BuildStep ==
  ASSUME Inv, NEW p \in Pushers, Insert(p)
  PROVE  [Promise!Next]_(Promise!vars)
<1>0. PICK k \in Revision : k = pusher[p].key
  BY DEF Inv, TypeOK
<1> DEFINE row == [status |-> "pending", digest |-> built + 1,
                   mass |-> pusher[p].mass, by |-> Role[p]]
<1>1. CASE Stored(k)
  BY <1>0, <1>1, QuietStep DEF Insert, db, net
<1>2. CASE ~Stored(k)
  <2>1. built \in Nat /\ snapshots \in [Revision -> Snapshot]
    BY DEF Inv, TypeOK
  <2>2. snapshots' = [snapshots EXCEPT ![k] = row] /\ master' = master
    BY <1>0, <1>2 DEF Insert, Build, net
  <2>3. row.digest = built + 1 /\ row.status = "pending" /\ row.digest \in Digest
    BY <2>1 DEF Digest
  <2> HIDE DEF row
  <2>4. snapshots[k].digest = NoDigest /\ snapshots[k].status # "acked"
    BY <1>2, <2>1 DEF Inv, RowsBuilt, Stored
  <2>5. DigestOf' = [DigestOf EXCEPT ![k] = row.digest]
    BY <2>1, <2>2 DEF DigestOf
  <2>6. KnownAcked' = KnownAcked
    BY <2>1, <2>2, <2>3, <2>4 DEF KnownAcked, Acked
  <2>7. DigestOf[k] = NoDigest /\ DigestOf'[k] = row.digest
    BY <2>1, <2>4, <2>5 DEF DigestOf
  <2>8. Promise!Build(k)
    BY <2>2, <2>3, <2>5, <2>6, <2>7 DEF Promise!Build, DigestOf, KnownAcked
  <2> QED BY <2>1, <2>8 DEF Promise!Next
<1> QED BY <1>1, <1>2

LEMMA AcceptStep ==
  ASSUME Inv, NEW m \in wire, MasterReceive(m)
  PROVE  [Promise!Next]_(Promise!vars)
<1>1. m.key \in Revision /\ m.digest \in Digest /\ Matches(m)
  BY DEF Inv, TypeOK, Messages, MessagesMatch
<1>2. snapshots' = snapshots
  BY DEF MasterReceive, db
<1>3. master[m.key] \in {NoDigest, m.digest}
  BY <1>1 DEF Inv, MasterMatches, Matches
<1>4. master' = [master EXCEPT ![m.key] = m.digest]
  BY <1>3 DEF MasterReceive
<1>5. CASE master[m.key] = m.digest
  <2>1. master' = master
    BY <1>1, <1>4, <1>5 DEF Inv, TypeOK
  <2> QED BY <1>2, <2>1, QuietStep
<1>6. CASE master[m.key] = NoDigest
  <2>1. DigestOf[m.key] = m.digest /\ m.digest # NoDigest
    BY <1>1 DEF DigestOf, Matches, Digest, NoDigest
  <2>2. DigestOf' = DigestOf /\ KnownAcked' = KnownAcked
    BY <1>2 DEF DigestOf, KnownAcked, Acked
  <2>3. Promise!Accept(m.key)
    BY <1>4, <1>6, <2>1, <2>2 DEF Promise!Accept, DigestOf, KnownAcked
  <2> QED BY <1>1, <2>3 DEF Promise!Next
<1> QED BY <1>3, <1>5, <1>6

LEMMA MarkStep ==
  ASSUME Inv, NEW p \in Pushers, MarkFailed(p) \/ MarkRejected(p) \/ MarkAcked(p)
  PROVE  [Promise!Next]_(Promise!vars)
<1> DEFINE k == pusher[p].key
<1>1. PICK status \in PushStatus :
        /\ snapshots' = [snapshots EXCEPT ![k].status = status]
        /\ status = "acked" => At(p, "ack")
        /\ master' = master
        /\ pusher[p].pc \in Underhand
  BY DEF MarkFailed, MarkRejected, MarkAcked, Mark, PushStatus, Underhand, At, net
<1>2. k \in Revision /\ snapshots \in [Revision -> Snapshot]
  BY DEF Inv, TypeOK
<1>3. \A l \in Revision :
        /\ snapshots'[l].digest = snapshots[l].digest
        /\ snapshots'[l].status = IF l = k THEN status ELSE snapshots[l].status
  BY <1>1, <1>2 DEF Snapshot
<1>4. DigestOf' = DigestOf
  BY <1>3 DEF DigestOf
<1>5. CASE status = "acked"
  <2>1. KnownAcked' = KnownAcked \cup {k}
    BY <1>2, <1>3, <1>5 DEF KnownAcked, Acked
  <2>2. master[k] = snapshots[k].digest /\ Stored(k)
    BY <1>1, <1>5 DEF Inv, MasterMatches, PushesMatch, Matches
  <2>3. master[k] # NoDigest
    BY <1>2, <2>2 DEF Inv, RowsBuilt
  <2>4. Promise!Acknowledge(k)
    BY <1>1, <1>4, <2>1, <2>3 DEF Promise!Acknowledge, DigestOf, KnownAcked
  <2> QED BY <1>2, <2>4 DEF Promise!Next
<1>6. CASE status # "acked"
  <2>1. KnownAcked' = KnownAcked \ {k}
    BY <1>2, <1>3, <1>6 DEF KnownAcked, Acked
  <2>2. Promise!Forget(k)
    BY <1>1, <1>4, <2>1 DEF Promise!Forget, DigestOf, KnownAcked
  <2> QED BY <1>2, <2>2 DEF Promise!Next
<1> QED BY <1>5, <1>6

LEMMA PromiseInit == Init => Promise!Init
<1> SUFFICES ASSUME Init PROVE Promise!Init
  OBVIOUS
<1>1. \A k \in Revision : snapshots[k].digest = NoDigest /\ snapshots[k].status = "absent"
  BY DEF Init, NoSnapshot
<1> QED BY <1>1 DEF Init, Promise!Init, Acked

LEMMA PromiseStep == Inv /\ [Next]_vars => [Promise!Next]_(Promise!vars)
<1> SUFFICES ASSUME Inv, [Next]_vars PROVE [Promise!Next]_(Promise!vars)
  OBVIOUS
<1>1. CASE UNCHANGED <<snapshots, master>>
  BY <1>1, QuietStep
<1>2. ASSUME NEW p \in Pushers, Step(p) PROVE [Promise!Next]_(Promise!vars)
  <2>1. \/ Insert(p)
        \/ MarkFailed(p) \/ MarkRejected(p) \/ MarkAcked(p)
        \/ UNCHANGED <<snapshots, master>>
    BY <1>2 DEF Step, Weigh, Number, Lookup, Post, Receive, GiveUp, ReadBack, db, net
  <2> QED BY <2>1, <1>1, BuildStep, MarkStep
<1>3. ASSUME NEW p \in Pushers, Stop(p) PROVE UNCHANGED <<snapshots, master>>
  BY <1>3 DEF Stop, db
<1>4. ASSUME NEW m \in wire, LoseRequest(m) PROVE UNCHANGED <<snapshots, master>>
  BY <1>4 DEF LoseRequest, db
<1>5. ASSUME NEW a \in replies, SpoilReply(a) \/ Discard(a) PROVE UNCHANGED <<snapshots, master>>
  BY <1>5 DEF SpoilReply, Discard, db
<1>6. NewScores \/ NewEpoch \/ UNCHANGED vars => UNCHANGED <<snapshots, master>>
  BY DEF NewScores, NewEpoch, vars, db, net
<1>7. ASSUME NEW m \in wire, MasterReceive(m) PROVE [Promise!Next]_(Promise!vars)
  BY <1>7, AcceptStep
<1>8. CASE \E p \in Pushers : Step(p)
  BY <1>2, <1>8
<1>9. CASE ~\E p \in Pushers : Step(p)
  <2>1. \/ UNCHANGED <<snapshots, master>>
        \/ \E m \in wire : MasterReceive(m)
    BY <1>3, <1>4, <1>5, <1>6, <1>9 DEF Next
  <2> QED BY <1>1, <1>7, <2>1
<1> QED BY <1>8, <1>9

\* The detailed push implements PushPromise: a revision never changes its
\* payload, the master accepts that payload or nothing, and what is called
\* acknowledged was accepted (push_once and create_pending_snapshot).
THEOREM Refinement == Spec => KeepsPromise
BY PromiseInit, PromiseStep, Invariance, PTL DEF Spec, KeepsPromise, Promise!Spec
-----------------------------------------------------------------------------
(* Acknowledgements are kept.  A push that failed reads the row before it     *)
(* marks it, so whoever is about to mark read it as pending: an acknowledged  *)
(* row that anyone is about to mark was acknowledged in between.              *)

Building == {"weighed", "numbered", "inserting"}
Writing == {"fail_write", "reject_write"}

AckGuarded == \A k \in Revision : Acked(k) /\ k \notin raced => ~AboutToMark(k)

\* What a step of p does to what the processes have read: the others keep it.
LEMMA OthersKeep ==
  ASSUME Inv, NEW p \in Pushers, Step(p) \/ Stop(p)
  PROVE  \A q \in Pushers \ {p} : pusher'[q] = pusher[q]
<1>0. pusher \in [Pushers -> PusherRecord]
  BY DEF Inv, TypeOK, PusherRecord
<1>1. \E r : pusher' = [pusher EXCEPT ![p] = r]
  <2>1. CASE Weigh(p)
    BY <2>1 DEF Weigh
  <2>2. CASE Number(p)
    BY <2>2 DEF Number, Return
  <2>3. CASE Lookup(p)
    BY <2>3 DEF Lookup
  <2>4. CASE Insert(p)
    BY <2>4 DEF Insert, Build, Return
  <2>5. CASE Post(p) \/ Receive(p) \/ GiveUp(p) \/ ReadBack(p) \/ Stop(p)
    <3>1. Return(p) \/ \E pc \in Pc : Goto(p, pc)
      <4>1. Receive(p) => \E a \in replies : a.kind \in {"ok", "refused", "garbled"} /\
                CASE a.kind = "ok" -> Goto(p, "ack")
                  [] a.kind = "refused" -> Goto(p, "rejected")
                  [] a.kind = "garbled" -> Return(p)
        BY DEF Receive, Inv, TypeOK, Answers
      <4> QED BY <2>5, <4>1 DEF Post, GiveUp, ReadBack, Stop, Pc
    <3> QED BY <3>1 DEF Goto, Return
  <2>6. CASE MarkFailed(p) \/ MarkRejected(p) \/ MarkAcked(p)
    BY <2>6 DEF MarkFailed, MarkRejected, MarkAcked, Mark, Return
  <2> QED BY <2>1, <2>2, <2>3, <2>4, <2>5, <2>6 DEF Step
<1> QED BY <1>0, <1>1

\* The stage that a step of p leads to.
LEMMA Stages ==
  ASSUME Inv, NEW p \in Pushers, Step(p) \/ Stop(p)
  PROVE  /\ pusher'[p].pc \in Writing => ReadBack(p)
         /\ pusher'[p].pc \in Building => Weigh(p) \/ Number(p) \/ Lookup(p)
<1>0. pusher \in [Pushers -> PusherRecord] /\ pusher[p] \in PusherRecord
  BY DEF Inv, TypeOK, PusherRecord
<1> USE <1>0 DEF PusherRecord, Writing, Building
<1>1. Weigh(p) => pusher'[p].pc = "weighed"
  BY DEF Weigh
<1>2. Return(p) => pusher'[p].pc = "idle"
  BY DEF Return, Idle
<1>3. \A pc \in Pc : Goto(p, pc) => pusher'[p].pc = pc
  BY DEF Goto
<1>4. CASE Number(p)
  <2>1. ASSUME NEW rev \in 1..MaxRevision,
               pusher' = [pusher EXCEPT ![p] = [@ EXCEPT !.pc = "numbered",
                              !.key = [epoch |-> pusher[p].key.epoch, rev |-> rev]]]
        PROVE  pusher'[p].pc = "numbered"
    BY <2>1
  <2>2. pusher'[p].pc \in {"idle", "numbered"}
    BY <1>2, <1>4, <2>1 DEF Number
  <2> QED BY <1>4, <2>2
<1>5. CASE Lookup(p)
  <2>1. pusher'[p].pc \in {"idle", "inserting", "posting"}
    BY <1>5 DEF Lookup, Idle
  <2> QED BY <1>5, <2>1
<1>6. CASE Insert(p)
  <2>1. ASSUME pusher' = [pusher EXCEPT ![p] = [@ EXCEPT !.pc = "posting", !.digest = built + 1]]
        PROVE  pusher'[p].pc = "posting"
    BY <2>1
  <2>2. pusher' = [pusher EXCEPT ![p] = Idle] => pusher'[p].pc = "idle"
    BY DEF Idle
  <2>3. pusher'[p].pc \in {"idle", "posting"}
    BY <1>2, <1>6, <2>1, <2>2 DEF Insert, Build
  <2> QED BY <2>3
<1>7. CASE Post(p) \/ Receive(p) \/ GiveUp(p)
  <2>1. Receive(p) => \E a \in replies : a.kind \in {"ok", "refused", "garbled"} /\
            CASE a.kind = "ok" -> Goto(p, "ack")
              [] a.kind = "refused" -> Goto(p, "rejected")
              [] a.kind = "garbled" -> Return(p)
    BY DEF Receive, Inv, TypeOK, Answers
  <2>2. Return(p) \/ \E pc \in Pc \ (Writing \cup Building) : Goto(p, pc)
    BY <1>7, <2>1 DEF Post, GiveUp, Pc
  <2> QED BY <1>2, <1>3, <2>2
<1>8. CASE ReadBack(p)
  <2>1. Return(p) \/ \E pc \in Pc \ Building : Goto(p, pc)
    BY <1>8 DEF ReadBack, Pc
  <2> QED BY <1>2, <1>3, <1>8, <2>1
<1>9. CASE MarkFailed(p) \/ MarkRejected(p) \/ MarkAcked(p) \/ Stop(p)
  BY <1>2, <1>9 DEF MarkFailed, MarkRejected, MarkAcked, Mark, Stop
<1> QED BY <1>1, <1>4, <1>5, <1>6, <1>7, <1>8, <1>9 DEF Step

\* Nobody comes to be about to mark a row but by reading it as pending.
LEMMA MarkersRead ==
  ASSUME Inv, [Next]_vars, NEW q \in Pushers, pusher'[q].pc \in Writing
  PROVE  \/ pusher[q].pc \in Writing /\ pusher'[q].key = pusher[q].key
         \/ /\ snapshots[pusher'[q].key].status = "pending"
            /\ UNCHANGED <<snapshots, raced>>
<1>0. pusher \in [Pushers -> PusherRecord] /\ pusher[q] \in PusherRecord
  BY DEF Inv, TypeOK, PusherRecord
<1>1. ASSUME NEW p \in Pushers, p # q, Step(p) \/ Stop(p)
      PROVE  pusher'[q] = pusher[q]
  BY <1>1, OthersKeep
<1>2. ASSUME ReadBack(q)
      PROVE  /\ snapshots[pusher'[q].key].status = "pending"
             /\ UNCHANGED <<snapshots, raced>>
  <2>1. ~Return(q)
    BY <1>0 DEF Return, Idle, Writing
  <2>2. snapshots[pusher[q].key].status = "pending" /\ \E pc \in Writing : Goto(q, pc)
    BY <1>2, <2>1 DEF ReadBack, Writing
  <2>3. pusher'[q].key = pusher[q].key
    BY <1>0, <2>2 DEF Goto, PusherRecord
  <2> QED BY <1>2, <2>2, <2>3 DEF ReadBack, db, hist
<1>3. ASSUME Step(q) \/ Stop(q), ~ReadBack(q)
      PROVE  FALSE
  BY <1>3, Stages
<1>4. CASE UNCHANGED pusher
  BY <1>4
<1>5. CASE \E p \in Pushers : Step(p) \/ Stop(p)
  BY <1>1, <1>2, <1>3, <1>5
<1>6. CASE ~\E p \in Pushers : Step(p) \/ Stop(p)
  BY <1>4, <1>6 DEF Next, vars, NewScores, NewEpoch, MasterReceive, LoseRequest, SpoilReply, Discard
<1> QED BY <1>5, <1>6

\* What a step may do to the rows and to the history of races.
LEMMA RowsChange ==
  ASSUME Inv, [Next]_vars
  PROVE  \/ UNCHANGED <<snapshots, raced>>
         \/ \E p \in Pushers :
               /\ \/ /\ At(p, "inserting") /\ ~Stored(pusher[p].key)
                     /\ snapshots' = [snapshots EXCEPT ![pusher[p].key] =
                                        [status |-> "pending", digest |-> built + 1,
                                         mass |-> pusher[p].mass, by |-> Role[p]]]
                     /\ UNCHANGED raced
                  \/ /\ pusher[p].pc \in Writing
                     /\ Return(p)
                     /\ \E s \in {"failed", "rejected"} :
                           snapshots' = [snapshots EXCEPT ![pusher[p].key].status = s]
                     /\ UNCHANGED raced
                  \/ /\ At(p, "ack")
                     /\ Return(p)
                     /\ snapshots' = [snapshots EXCEPT ![pusher[p].key].status = "acked"]
                     /\ raced' = IF AboutToMark(pusher[p].key) THEN raced \cup {pusher[p].key}
                                 ELSE raced
<1>1. ASSUME NEW p \in Pushers, Step(p)
      PROVE  Insert(p) \/ MarkFailed(p) \/ MarkRejected(p) \/ MarkAcked(p)
             \/ UNCHANGED <<snapshots, raced>>
  BY <1>1 DEF Step, Weigh, Number, Lookup, Post, Receive, GiveUp, ReadBack, db, hist
<1>2. ASSUME NEW p \in Pushers, MarkFailed(p) \/ MarkRejected(p)
      PROVE  /\ pusher[p].pc \in Writing
             /\ Return(p)
             /\ \E s \in {"failed", "rejected"} :
                   snapshots' = [snapshots EXCEPT ![pusher[p].key].status = s]
             /\ UNCHANGED raced
  BY <1>2 DEF MarkFailed, MarkRejected, Mark, At, Writing
<1>3. ASSUME NEW p \in Pushers, MarkAcked(p)
      PROVE  /\ At(p, "ack")
             /\ Return(p)
             /\ snapshots' = [snapshots EXCEPT ![pusher[p].key].status = "acked"]
             /\ raced' = IF AboutToMark(pusher[p].key) THEN raced \cup {pusher[p].key} ELSE raced
  BY <1>3 DEF MarkAcked, Mark
<1>4. ASSUME NEW p \in Pushers, Insert(p)
      PROVE  \/ UNCHANGED <<snapshots, raced>>
             \/ /\ At(p, "inserting") /\ ~Stored(pusher[p].key)
                /\ snapshots' = [snapshots EXCEPT ![pusher[p].key] =
                                        [status |-> "pending", digest |-> built + 1,
                                         mass |-> pusher[p].mass, by |-> Role[p]]]
                /\ UNCHANGED raced
  BY <1>4 DEF Insert, Build, db, hist
<1>5. ASSUME NEW p \in Pushers, Stop(p)
      PROVE  UNCHANGED <<snapshots, raced>>
  BY <1>5 DEF Stop, db, hist
<1>6. CASE ~\E p \in Pushers : Step(p) \/ Stop(p)
  BY <1>6 DEF Next, vars, NewScores, NewEpoch, MasterReceive, LoseRequest, SpoilReply, Discard,
     db, hist
<1>7. CASE \E p \in Pushers : Step(p) \/ Stop(p)
  BY <1>1, <1>2, <1>3, <1>4, <1>5, <1>7
<1> QED BY <1>6, <1>7

LEMMA AckStep ==
  ASSUME Inv, AckGuarded, [Next]_vars
  PROVE  /\ AckGuarded'
         /\ \A k \in Revision : Acked(k) /\ k \notin raced => Acked(k)'
<1>0. /\ snapshots \in [Revision -> Snapshot]
      /\ \A p \in Pushers : pusher[p].key \in Revision
  BY DEF Inv, TypeOK
<1>1. CASE UNCHANGED <<snapshots, raced>>
  <2>1. ASSUME NEW k \in Revision, Acked(k)', k \notin raced',
               NEW q \in Pushers, pusher'[q].pc \in Writing, pusher'[q].key = k
        PROVE  FALSE
    BY <1>1, <2>1, MarkersRead DEF AckGuarded, AboutToMark, Acked, Writing
  <2> QED BY <1>1, <2>1 DEF AckGuarded, AboutToMark, Acked, Writing
<1>2. ASSUME NEW p \in Pushers, ~UNCHANGED <<snapshots, raced>>,
             NEW s, snapshots' = [snapshots EXCEPT ![pusher[p].key] = s],
             ~Acked(pusher[p].key) \/ AboutToMark(pusher[p].key),
             s.status # "acked", UNCHANGED raced
      PROVE  /\ AckGuarded'
             /\ \A k \in Revision : Acked(k) /\ k \notin raced => Acked(k)'
  <2>1. \A k \in Revision : snapshots'[k] = IF k = pusher[p].key THEN s ELSE snapshots[k]
    BY <1>0, <1>2
  <2>2. ASSUME NEW k \in Revision, Acked(k)', k \notin raced',
               NEW q \in Pushers, pusher'[q].pc \in Writing, pusher'[q].key = k
        PROVE  FALSE
    <3>1. Acked(k) /\ k \notin raced
      BY <1>2, <2>1, <2>2 DEF Acked
    <3>2. pusher[q].pc \in Writing /\ pusher[q].key = k
      BY <1>2, <2>2, MarkersRead
    <3> QED BY <3>1, <3>2 DEF AckGuarded, AboutToMark, Writing
  <2>3. AckGuarded'
    BY <2>2 DEF AckGuarded, AboutToMark, Writing
  <2> QED BY <1>2, <2>1, <2>3 DEF AckGuarded, Acked
<1>3. ASSUME NEW p \in Pushers, ~UNCHANGED <<snapshots, raced>>, At(p, "ack"), Return(p),
             snapshots' = [snapshots EXCEPT ![pusher[p].key].status = "acked"],
             raced' = IF AboutToMark(pusher[p].key) THEN raced \cup {pusher[p].key} ELSE raced
      PROVE  /\ AckGuarded'
             /\ \A k \in Revision : Acked(k) /\ k \notin raced => Acked(k)'
  <2>1. \A k \in Revision :
           snapshots'[k].status = IF k = pusher[p].key THEN "acked" ELSE snapshots[k].status
    BY <1>0, <1>3 DEF Snapshot
  <2>2. ASSUME NEW k \in Revision, Acked(k)', k \notin raced',
               NEW q \in Pushers, pusher'[q].pc \in Writing, pusher'[q].key = k
        PROVE  FALSE
    <3>1. pusher[q].pc \in Writing /\ pusher[q].key = k
      BY <1>3, <2>2, MarkersRead
    <3>2. AboutToMark(k)
      BY <3>1 DEF AboutToMark, Writing
    <3>3. k \notin raced /\ k # pusher[p].key
      BY <1>3, <2>2, <3>2
    <3>4. Acked(k)
      BY <2>1, <2>2, <3>3 DEF Acked
    <3> QED BY <3>2, <3>3, <3>4 DEF AckGuarded
  <2>3. AckGuarded'
    BY <2>2 DEF AckGuarded, AboutToMark, Writing
  <2> QED BY <2>1, <2>3 DEF Acked
<1>4. ASSUME NEW p \in Pushers, ~UNCHANGED <<snapshots, raced>>, UNCHANGED raced,
             pusher[p].pc \in Writing,
             NEW s \in {"failed", "rejected"},
             snapshots' = [snapshots EXCEPT ![pusher[p].key].status = s]
      PROVE  /\ AckGuarded'
             /\ \A k \in Revision : Acked(k) /\ k \notin raced => Acked(k)'
  <2> DEFINE row == [snapshots[pusher[p].key] EXCEPT !.status = s]
  <2>1. row.status = s
    BY <1>0 DEF Snapshot
  <2>2. snapshots' = [snapshots EXCEPT ![pusher[p].key] = row]
    BY <1>4
  <2>3. AboutToMark(pusher[p].key)
    BY <1>4 DEF AboutToMark, Writing
  <2> HIDE DEF row
  <2>4. row.status # "acked"
    BY <2>1
  <2> QED BY <1>2, <1>4, <2>2, <2>3, <2>4
<1>5. ASSUME NEW p \in Pushers, ~UNCHANGED <<snapshots, raced>>, UNCHANGED raced,
             ~Stored(pusher[p].key),
             snapshots' = [snapshots EXCEPT ![pusher[p].key] =
                             [status |-> "pending", digest |-> built + 1,
                              mass |-> pusher[p].mass, by |-> Role[p]]]
      PROVE  /\ AckGuarded'
             /\ \A k \in Revision : Acked(k) /\ k \notin raced => Acked(k)'
  <2> DEFINE row == [status |-> "pending", digest |-> built + 1,
                     mass |-> pusher[p].mass, by |-> Role[p]]
  <2>1. row.status # "acked" /\ ~Acked(pusher[p].key)
    BY <1>5 DEF Stored, Acked
  <2> HIDE DEF row
  <2> QED BY <1>2, <1>5, <2>1 DEF row
<1> QED BY <1>1, <1>3, <1>4, <1>5, RowsChange

\* An acknowledgement is lost only in the race that `raced` records: no late
\* failure, retry or refusal of any other pusher undoes it (mark_snapshot_status
\* after the read in push_once).
THEOREM AcksAreKept == Spec => AckKept
<1>1. Init => AckGuarded
  BY DEF Init, AckGuarded, Acked, NoSnapshot
<1>2. Inv /\ AckGuarded /\ [Next]_vars
        => AckGuarded' /\ [\A k \in Revision : Acked(k) /\ k \notin raced => Acked(k)']_vars
  BY AckStep
<1> QED BY <1>1, <1>2, Invariance, PTL DEF Spec, AckKept
-----------------------------------------------------------------------------
(* The loop carries on.  It weighs the aggregate of the moment and numbers    *)
(* its row after every row of the epoch.  With one loop no other loop row can *)
(* come in between, so what it is about to insert is later than every loop    *)
(* row there is, and at least as recent.                                      *)

LEMMA GreatestExists ==
  ASSUME NEW n \in Nat, NEW S \in SUBSET (0..n), S # {}
  PROVE  \E x \in S : \A y \in S : x >= y
<1> DEFINE Above(x) == {y \in S : x < y}
           T == {Above(x) : x \in S}
           R == StrictSubsetOrdering(S)
<1>1. IsFiniteSet(S)
  <2>1. IsFiniteSet(0..n)
    BY FS_Interval
  <2> QED BY <2>1, FS_Subset
<1>2. IsWellFoundedOn(R, SUBSET S)
  BY <1>1, FS_FiniteSubsetsOfFinite, FS_StrictSubsetOrderingWellFounded
<1>3. T \subseteq SUBSET S /\ T # {}
  OBVIOUS
<1>4. PICK t \in T : \A y \in T : ~(<<y, t>> \in R)
  <2> HIDE DEF T, R
  <2> QED BY <1>2, <1>3, WFMin
<1>5. PICK x \in S : t = Above(x)
  BY <1>4
<1>6. ASSUME NEW y \in S, x < y
      PROVE  FALSE
  <2>1. \A z \in S : z \in Int
    OBVIOUS
  <2>2. Above(y) \subseteq Above(x) /\ y \in Above(x) /\ y \notin Above(y)
    <3>1. x \in Int /\ y \in Int /\ \A z \in S : y < z => x < z
      BY <1>6, <2>1
    <3>2. ~(y < y)
      BY <3>1
    <3> QED BY <1>6, <3>1, <3>2
  <2>3. <<Above(y), Above(x)>> \in R
    BY <2>2 DEF StrictSubsetOrdering
  <2> QED BY <2>3, <1>4, <1>5
<1>7. \A z \in S : z \in Int
  OBVIOUS
<1> QED BY <1>6, <1>7

\* next_revision is a number that no row of the epoch has reached.
LEMMA NextIsNew ==
  ASSUME NEW e \in 1..MaxEpoch, NEW k \in Revision, Stored(k), k.epoch = e
  PROVE  k.rev < NextRevision(e)
<1> DEFINE S == {0} \cup {l.rev : l \in {m \in Revision : Stored(m) /\ m.epoch = e}}
<1>1. S \in SUBSET (0..MaxRevision) /\ 0 \in S /\ k.rev \in S
  BY DEF Revision
<1>2. NextRevision(e) = 1 + Max(S)
  BY DEF NextRevision
<1> HIDE DEF S
<1>3. \E x \in S : \A y \in S : x >= y
  BY <1>1, GreatestExists
<1>4. Max(S) \in S /\ \A y \in S : Max(S) >= y
  BY <1>3 DEF Max
<1>5. Max(S) \in Int /\ k.rev \in Int /\ Max(S) >= k.rev
  <2>1. \A z \in S : z \in Int
    BY <1>1
  <2> QED BY <1>1, <1>4, <2>1
<1> QED BY <1>2, <1>5

Behind(m, e) == \A k \in Revision : LoopRow(k) => snapshots[k].mass <= m /\ k.epoch <= e
AfterAll(key) == \A k \in Revision : LoopRow(k) => Later(key, k)

\* What p builds is of now, and no older than any row of the loop.
Fresh(r) ==
    /\ r.mass <= live /\ r.key.epoch <= epoch
    /\ Behind(r.mass, r.key.epoch)
    /\ r.pc # "weighed" => AfterAll(r.key)

InOrder ==
    \A k, l \in Revision : LoopRow(k) /\ LoopRow(l) /\ Later(k, l)
                          => snapshots[k].mass >= snapshots[l].mass

Carry ==
    /\ Behind(live, epoch)
    /\ \A p \in Pushers : Role[p] = "loop" /\ pusher[p].pc \in Building => Fresh(pusher[p])
    /\ InOrder

\* Steps that insert no loop row.
LEMMA SameRows ==
  ASSUME Inv, Carry, live' >= live, epoch' >= epoch, live' \in Nat, epoch' \in Nat,
         \A k \in Revision :
            /\ LoopRow(k)' <=> LoopRow(k)
            /\ snapshots'[k].mass = snapshots[k].mass \/ ~LoopRow(k),
         \A p \in Pushers : Role[p] = "loop" /\ pusher'[p].pc \in Building
                             => pusher'[p] = pusher[p] \/ Fresh(pusher'[p]),
         pusher' \in [Pushers -> PusherRecord]
  PROVE  Carry'
<1>0. /\ live \in Nat /\ epoch \in Nat
      /\ \A k \in Revision : snapshots[k].mass \in Nat /\ k.epoch \in Nat
      /\ \A p \in Pushers : pusher'[p].mass \in Nat /\ pusher'[p].key.epoch \in Nat
  <2>1. live \in Nat /\ epoch \in Nat
    BY DEF Inv, TypeOK
  <2>2. \A k \in Revision : snapshots[k].mass \in Nat /\ k.epoch \in Nat
    <3>1. \A k \in Revision : snapshots[k] \in Snapshot
      BY DEF Inv, TypeOK
    <3>2. \A k \in Revision : k.epoch \in Nat
      BY DEF Revision
    <3> QED BY <3>1, <3>2 DEF Snapshot
  <2>3. \A p \in Pushers : pusher'[p].mass \in Nat /\ pusher'[p].key.epoch \in Nat
    BY DEF PusherRecord, Revision
  <2> QED BY <2>1, <2>2, <2>3
<1>1. InOrder'
  BY DEF Carry, InOrder
<1>2. Behind(live, epoch)'
  BY <1>0 DEF Carry, Behind
<1>3. ASSUME NEW p \in Pushers, Role[p] = "loop", pusher'[p].pc \in Building
      PROVE  Fresh(pusher[p])'
  <2>1. Fresh(pusher'[p])
    BY <1>3 DEF Carry
  <2>2. pusher'[p].mass <= live' /\ pusher'[p].key.epoch <= epoch'
    BY <1>0, <2>1 DEF Fresh
  <2>3. Behind(pusher[p].mass, pusher[p].key.epoch)'
    BY <2>1 DEF Fresh, Behind
  <2>4. pusher'[p].pc # "weighed" => AfterAll(pusher[p].key)'
    BY <2>1 DEF Fresh, AfterAll
  <2> QED BY <2>2, <2>3, <2>4 DEF Fresh
<1> QED BY <1>1, <1>2, <1>3 DEF Carry

\* What the loop weighs is the aggregate of the moment, for the epoch of the moment.
LEMMA WeighFresh ==
  ASSUME Inv, Carry, NEW p \in Pushers, Role[p] = "loop", Weigh(p)
  PROVE  Fresh(pusher'[p])
<1>1. pusher \in [Pushers -> PusherRecord] /\ pusher[p] \in PusherRecord
      /\ live \in Nat /\ epoch \in Nat
  BY DEF Inv, TypeOK, PusherRecord
<1> DEFINE r == [pusher[p] EXCEPT !.pc = "weighed", !.mass = live,
                                  !.key = [epoch |-> epoch, rev |-> 1]]
<1>2. pusher' = [pusher EXCEPT ![p] = r]
  BY DEF Weigh
<1>3. r.pc = "weighed" /\ r.mass = live /\ r.key.epoch = epoch
  BY <1>1 DEF PusherRecord
<1> HIDE DEF r
<1>4. pusher'[p] = r
  BY <1>1, <1>2
<1> QED BY <1>1, <1>3, <1>4 DEF Fresh, Carry

\* Numbering puts it after every row of that epoch.
LEMMA NumberFresh ==
  ASSUME Inv, Carry, NEW p \in Pushers, Role[p] = "loop", Number(p),
         pusher'[p].pc \in Building
  PROVE  Fresh(pusher'[p])
<1> DEFINE e == pusher[p].key.epoch
           key == [epoch |-> e, rev |-> NextRevision(e)]
           r == [pusher[p] EXCEPT !.pc = "numbered", !.key = key]
<1>1. pusher \in [Pushers -> PusherRecord] /\ pusher[p] \in PusherRecord /\ e \in 1..MaxEpoch
  BY DEF Inv, TypeOK, PusherRecord, Revision
<1>2. ~Return(p)
  BY <1>1 DEF Return, Idle, Building
<1>3. pusher' = [pusher EXCEPT ![p] = r]
  BY <1>2 DEF Number
<1>4. r.pc = "numbered" /\ r.mass = pusher[p].mass /\ r.key = key
  BY <1>1 DEF PusherRecord
<1> HIDE DEF r
<1>5. pusher'[p] = r
  BY <1>1, <1>3
<1>6. Fresh(pusher[p])
  BY DEF Number, At, Carry, Building
<1>7. AfterAll(key)
  <2> SUFFICES ASSUME NEW k \in Revision, LoopRow(k) PROVE Later(key, k)
    BY DEF AfterAll
  <2>1. k.epoch <= e /\ k.epoch \in Nat /\ e \in Nat
    BY <1>1, <1>6 DEF Fresh, Behind, Revision
  <2>2. k.epoch = e => k.rev < NextRevision(e)
    BY <1>1, NextIsNew DEF LoopRow
  <2>3. CASE k.epoch = e
    <3>1. NextRevision(e) > k.rev
      BY <2>2, <2>3
    <3> QED BY <2>3, <3>1 DEF Later
  <2>4. CASE k.epoch # e
    <3>1. e > k.epoch
      BY <2>1, <2>4
    <3> QED BY <3>1 DEF Later
  <2> QED BY <2>3, <2>4
<1>8. key.epoch = e
  OBVIOUS
<1> HIDE DEF key
<1> QED BY <1>4, <1>5, <1>6, <1>7, <1>8 DEF Fresh

LEMMA LookupFresh ==
  ASSUME Inv, Carry, NEW p \in Pushers, Role[p] = "loop", Lookup(p),
         pusher'[p].pc \in Building
  PROVE  Fresh(pusher'[p])
<1> DEFINE r == [pusher[p] EXCEPT !.pc = "inserting"]
<1>1. pusher \in [Pushers -> PusherRecord] /\ pusher[p] \in PusherRecord
  BY DEF Inv, TypeOK, PusherRecord
<1>2. pusher'[p] = r
  BY <1>1 DEF Lookup, Building, Idle, PusherRecord
<1>3. r.pc = "inserting" /\ r.mass = pusher[p].mass /\ r.key = pusher[p].key
  BY <1>1 DEF PusherRecord
<1> HIDE DEF r
<1>4. Fresh(pusher[p]) /\ pusher[p].pc = "numbered"
  BY DEF Lookup, At, Carry, Building
<1> QED BY <1>2, <1>3, <1>4 DEF Fresh

\* The row that the loop inserts is later than its others and as recent.
LEMMA LoopInsert ==
  ASSUME Inv, Carry, OneLoop, NEW p \in Pushers, Role[p] = "loop", Insert(p),
         ~Stored(pusher[p].key)
  PROVE  Carry'
<1> DEFINE key == pusher[p].key
           row == [status |-> "pending", digest |-> built + 1,
                   mass |-> pusher[p].mass, by |-> Role[p]]
<1>1. /\ key \in Revision /\ key.epoch \in Nat /\ key.rev \in Nat
      /\ snapshots \in [Revision -> Snapshot]
      /\ \A k \in Revision : k.epoch \in Nat /\ k.rev \in Nat
  BY DEF Inv, TypeOK, Revision
<1>2. Fresh(pusher[p]) /\ pusher[p].pc = "inserting"
  BY DEF Insert, At, Carry, Building
<1>3. /\ snapshots' = [snapshots EXCEPT ![key] = row]
      /\ UNCHANGED <<live, epoch>>
  BY DEF Insert, Build, world
<1>4. row.mass = pusher[p].mass /\ row.by = "loop" /\ row.status # "absent"
  OBVIOUS
<1> HIDE DEF row
<1>5. \A k \in Revision : snapshots'[k] = IF k = key THEN row ELSE snapshots[k]
  BY <1>1, <1>3
<1>6. /\ \A k \in Revision : LoopRow(k)' <=> k = key \/ LoopRow(k)
      /\ ~LoopRow(key)
  BY <1>4, <1>5 DEF LoopRow, Stored
<1>7. \A k \in Revision : LoopRow(k) => /\ Later(key, k)
                                        /\ snapshots[k].mass <= pusher[p].mass
  BY <1>2 DEF Fresh, AfterAll, Behind
<1>8. Behind(live, epoch)'
  BY <1>2, <1>3, <1>4, <1>5, <1>6 DEF Carry, Fresh, Behind
<1>9. ASSUME NEW q \in Pushers, Role[q] = "loop", pusher'[q].pc \in Building
      PROVE  FALSE
  <2>1. q = p
    BY <1>9 DEF OneLoop
  <2>2. Weigh(p) \/ Number(p) \/ Lookup(p)
    BY <1>9, <2>1, Stages DEF Step
  <2> QED BY <1>2, <2>2 DEF Weigh, Number, Lookup, At
<1>10. InOrder'
  <2> SUFFICES ASSUME NEW k \in Revision, NEW l \in Revision,
                      LoopRow(k)', LoopRow(l)', Later(k, l)
               PROVE  snapshots'[k].mass >= snapshots'[l].mass
    BY DEF InOrder, Later
  <2>1. CASE k = key
    <3>1. l # key
      BY <1>1, <2>1 DEF Later
    <3>2. snapshots[l].mass <= pusher[p].mass
      BY <1>6, <1>7, <3>1
    <3>3. snapshots[l].mass \in Nat /\ pusher[p].mass \in Nat
      <4>1. snapshots[l] \in Snapshot /\ pusher[p] \in PusherRecord
        BY DEF Inv, TypeOK, PusherRecord
      <4> QED BY <4>1 DEF Snapshot, PusherRecord
    <3> QED BY <1>4, <1>5, <2>1, <3>1, <3>2, <3>3
  <2>2. CASE k # key /\ l = key
    <3>1. Later(key, k)
      BY <1>6, <1>7, <2>2
    <3> QED BY <1>1, <2>2, <3>1 DEF Later
  <2>3. CASE k # key /\ l # key
    BY <1>5, <1>6, <2>3 DEF Carry, InOrder
  <2> QED BY <2>1, <2>2, <2>3
<1> QED BY <1>8, <1>9, <1>10 DEF Carry

\* Everything else that is written leaves the rows of the loop as they are.
LEMMA RowsSame ==
  ASSUME Inv, [Next]_vars,
         \A p \in Pushers : Insert(p) /\ Role[p] = "loop" => Stored(pusher[p].key)
  PROVE  \A k \in Revision :
            /\ LoopRow(k)' <=> LoopRow(k)
            /\ snapshots'[k].mass = snapshots[k].mass \/ ~LoopRow(k)
<1>0. /\ snapshots \in [Revision -> Snapshot]
      /\ \A p \in Pushers : pusher[p].key \in Revision
  BY DEF Inv, TypeOK
<1>1. CASE UNCHANGED snapshots
  BY <1>1 DEF LoopRow, Stored
<1>2. ASSUME NEW p \in Pushers, NEW st \in PushStatus, pusher[p].pc \in Underhand,
             snapshots' = [snapshots EXCEPT ![pusher[p].key].status = st]
      PROVE  \A k \in Revision :
                /\ LoopRow(k)' <=> LoopRow(k)
                /\ snapshots'[k].mass = snapshots[k].mass
  <2>1. Stored(pusher[p].key)
    BY <1>2 DEF Inv, PushesMatch, Matches
  <2>2. \A k \in Revision :
           /\ snapshots'[k].mass = snapshots[k].mass
           /\ snapshots'[k].by = snapshots[k].by
           /\ snapshots'[k].status = IF k = pusher[p].key THEN st ELSE snapshots[k].status
    BY <1>0, <1>2 DEF Snapshot
  <2> QED BY <2>1, <2>2 DEF LoopRow, Stored, PushStatus
<1>3. ASSUME NEW p \in Pushers, ~Stored(pusher[p].key), Role[p] # "loop",
             snapshots' = [snapshots EXCEPT ![pusher[p].key] =
                             [status |-> "pending", digest |-> built + 1,
                              mass |-> pusher[p].mass, by |-> Role[p]]]
      PROVE  \A k \in Revision :
                /\ LoopRow(k)' <=> LoopRow(k)
                /\ snapshots'[k].mass = snapshots[k].mass \/ ~LoopRow(k)
  BY <1>0, <1>3 DEF LoopRow, Stored
<1>4. ASSUME NEW p \in Pushers, Insert(p), Role[p] # "loop"
      PROVE  \/ UNCHANGED snapshots
             \/ /\ ~Stored(pusher[p].key)
                /\ snapshots' = [snapshots EXCEPT ![pusher[p].key] =
                             [status |-> "pending", digest |-> built + 1,
                              mass |-> pusher[p].mass, by |-> Role[p]]]
  BY <1>4 DEF Insert, Build, db
<1>5. ASSUME NEW p \in Pushers, Insert(p), Role[p] = "loop"
      PROVE  UNCHANGED snapshots
  BY <1>5 DEF Insert, db
<1>6. ASSUME NEW p \in Pushers, MarkFailed(p) \/ MarkRejected(p) \/ MarkAcked(p)
      PROVE  /\ pusher[p].pc \in Underhand
             /\ \E st \in PushStatus : snapshots' = [snapshots EXCEPT ![pusher[p].key].status = st]
  BY <1>6 DEF MarkFailed, MarkRejected, MarkAcked, Mark, At, Underhand, PushStatus
<1>7. ASSUME NEW p \in Pushers, Step(p) \/ Stop(p)
      PROVE  Insert(p) \/ MarkFailed(p) \/ MarkRejected(p) \/ MarkAcked(p) \/ UNCHANGED snapshots
  BY <1>7 DEF Step, Weigh, Number, Lookup, Post, Receive, GiveUp, ReadBack, Stop, db
<1>8. CASE \E p \in Pushers : Step(p) \/ Stop(p)
  BY <1>1, <1>2, <1>3, <1>4, <1>5, <1>6, <1>7, <1>8
<1>9. CASE ~\E p \in Pushers : Step(p) \/ Stop(p)
  BY <1>1, <1>9 DEF Next, vars, NewScores, NewEpoch, MasterReceive, LoseRequest, SpoilReply, Discard, db
<1> QED BY <1>8, <1>9

LEMMA CarryStep ==
  ASSUME Inv, OneLoop, Carry, [Next]_vars
  PROVE  Carry'
<1>1. ASSUME NEW p \in Pushers, Insert(p), Role[p] = "loop", ~Stored(pusher[p].key)
      PROVE  Carry'
  BY <1>1, LoopInsert
<1>2. CASE \A p \in Pushers : Insert(p) /\ Role[p] = "loop" => Stored(pusher[p].key)
  <2>1. \A k \in Revision :
            /\ LoopRow(k)' <=> LoopRow(k)
            /\ snapshots'[k].mass = snapshots[k].mass \/ ~LoopRow(k)
    BY <1>2, RowsSame
  <2>2. live' >= live /\ epoch' >= epoch /\ live' \in Nat /\ epoch' \in Nat
    <3>1. live \in Nat /\ epoch \in Nat
      BY DEF Inv, TypeOK
    <3>2. CASE NewScores \/ NewEpoch
      BY <3>1, <3>2 DEF NewScores, NewEpoch
    <3>3. CASE ~(NewScores \/ NewEpoch)
      <4>1. \A p \in Pushers : Step(p) \/ Stop(p) => UNCHANGED <<live, epoch>>
        BY DEF Step, Weigh, Number, Lookup, Insert, Build, Post, Receive, GiveUp, ReadBack, Stop,
           MarkFailed, MarkRejected, MarkAcked, Mark, world
      <4>2. UNCHANGED <<live, epoch>>
        BY <3>3, <4>1 DEF Next, vars, MasterReceive, LoseRequest, SpoilReply, Discard, world
      <4> QED BY <3>1, <4>2
    <3> QED BY <3>2, <3>3
  <2>3. pusher' \in [Pushers -> PusherRecord]
    BY NextInv DEF Inv, TypeOK, PusherRecord
  <2>4. ASSUME NEW q \in Pushers, Role[q] = "loop", pusher'[q].pc \in Building
        PROVE  pusher'[q] = pusher[q] \/ Fresh(pusher'[q])
    <3>1. CASE Step(q) \/ Stop(q)
      BY <2>4, <3>1, Stages, WeighFresh, NumberFresh, LookupFresh
    <3>2. ASSUME NEW p \in Pushers, p # q, Step(p) \/ Stop(p)
          PROVE  pusher'[q] = pusher[q]
      BY <3>2, OthersKeep
    <3>3. CASE ~\E p \in Pushers : Step(p) \/ Stop(p)
      BY <3>3 DEF Next, vars, NewScores, NewEpoch, MasterReceive, LoseRequest, SpoilReply, Discard
    <3> QED BY <3>1, <3>2, <3>3
  <2> QED BY <2>1, <2>2, <2>3, <2>4, SameRows
<1> QED BY <1>1, <1>2

\* Of the revisions that a single loop built, a later one never carries an older
\* aggregate: not when pushes fail, when the clock passes an epoch, or when
\* commands take revisions in between (create_pending_snapshot, next_revision).
THEOREM LoopNeverGoesBack == Spec => []LoopCarriesOn
<1>1. ASSUME Init PROVE Carry
  <2>1. \A k \in Revision : ~LoopRow(k)
    BY <1>1 DEF Init, NoSnapshot, LoopRow, Stored
  <2>2. \A p \in Pushers : pusher[p].pc \notin Building
    BY <1>1 DEF Init, Idle, Building
  <2> QED BY <2>1, <2>2 DEF Carry, Behind, InOrder
<1>2. Inv /\ (OneLoop => Carry) /\ [Next]_vars => (OneLoop => Carry)'
  <2>1. OneLoop' <=> OneLoop
    BY DEF OneLoop
  <2> QED BY <2>1, CarryStep
<1>3. (OneLoop => Carry) => LoopCarriesOn
  BY DEF Carry, InOrder, LoopCarriesOn
<1> QED BY <1>1, <1>2, <1>3, Invariance, PTL DEF Spec
=============================================================================
