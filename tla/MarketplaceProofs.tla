------------------------- MODULE MarketplaceProofs -------------------------
(***************************************************************************)
(* The bookkeeping of nodes, offers and leases for every number of them and *)
(* of concurrent requests, whatever nodes the offers share.                 *)
(***************************************************************************)
EXTENDS Marketplace, TLAPS

\* A request that rents or withdraws has an offer; one that ends a lease goes
\* on about the row it found.
RealRequest(r) ==
    /\ r.pc \in {"rent_nodes", "rent_scan", "rent_write", "withdraw_leases", "withdraw_write"}
          => r.offer \in Offers
    /\ r.pc \in {"end_nodes", "end_remaining", "end_write"}
          => /\ r.lease \in Leases
             /\ r.offer \in Offers
             /\ lease[r.lease].status # "absent"
             /\ lease[r.lease].offer = r.offer

RealRows ==
    /\ \A l \in Leases : lease[l].status # "absent" => lease[l].offer \in Offers
    /\ \A c \in Clients : RealRequest(client[c])

Inv == TypeOK /\ RealRows

\* An idle request is well formed.
LEMMA IdleReal == Idle \in Request /\ Idle.pc = "idle" /\ RealRequest(Idle)
BY DEF Idle, Request, Pc, NodeStatus, RealRequest

\* The tables are empty at first and every request is idle.
LEMMA InitInv == Init => Inv
<1> SUFFICES ASSUME Init PROVE Inv
  OBVIOUS
<1>1. TypeOK
  BY IdleReal DEF Init, TypeOK, NodeStatus, OfferStatus, LeaseStatus, NoRow
<1>2. RealRows
  BY IdleReal DEF Init, RealRows, NoRow
<1> QED BY <1>1, <1>2 DEF Inv

\* A read changes what one request knows.
LEMMA ReadStep ==
    ASSUME Inv, NEW c \in Clients, NEW r \in Request, RealRequest(r),
           client' = [client EXCEPT ![c] = r], UNCHANGED market, overlapped' \in BOOLEAN
    PROVE  Inv'
<1>1. TypeOK'
  BY DEF Inv, TypeOK, market
<1>2. \A d \in Clients : client'[d] = IF d = c THEN r ELSE client[d]
  BY DEF Inv, TypeOK
<1>3. RealRows'
  BY <1>2 DEF Inv, RealRows, RealRequest, market
<1> QED BY <1>1, <1>3 DEF Inv

\* A later read is of the same request, one statement further.
LEMMA LearnStep ==
    ASSUME Inv, NEW c \in Clients, NEW r, Learn(c, r), r \in Request, RealRequest(r)
    PROVE  Inv'
BY ReadStep DEF Learn, Inv, TypeOK

\* A first read is of a request that was idle.
LEMMA BeginStep ==
    ASSUME Inv, NEW c \in Clients, NEW r, Begin(c, r), r \in Request, RealRequest(r)
    PROVE  Inv'
BY ReadStep DEF Begin, Inv, TypeOK

\* A write that ends a request leaves well-formed tables, when it takes no row
\* away and moves none to another offer.
LEMMA WriteStep ==
    ASSUME Inv, NEW c \in Clients,
           client' = [client EXCEPT ![c] = Idle], overlapped' = overlapped,
           node' \in [Nodes -> NodeStatus], stale' \subseteq Nodes,
           offer' \in [Offers -> OfferStatus],
           lease' \in [Leases -> [status : LeaseStatus, offer : Offers \cup {NoOffer}]],
           \A l \in Leases : lease[l].status # "absent" =>
               lease'[l].status # "absent" /\ lease'[l].offer = lease[l].offer,
           \A l \in Leases : lease'[l].status # "absent" => lease'[l].offer \in Offers
    PROVE  Inv'
<1>1. TypeOK'
  BY IdleReal DEF Inv, TypeOK
<1>2. \A d \in Clients : client'[d] = IF d = c THEN Idle ELSE client[d]
  BY DEF Inv, TypeOK
<1>3. RealRows'
  BY <1>2, IdleReal DEF Inv, RealRows, RealRequest
<1> QED BY <1>1, <1>3 DEF Inv

\* The statuses that the ORM flushes are those of the tables.
LEMMA SetNodesType ==
    ASSUME TypeOK, NEW S, NEW read, NEW s \in NodeStatus, SetNodes(S, read, s)
    PROVE  node' \in [Nodes -> NodeStatus]
BY DEF TypeOK, SetNodes

\* Every action keeps the tables and the requests well formed.
LEMMA NextInv == Inv /\ [Next]_vars => Inv'
<1> SUFFICES ASSUME Inv, [Next]_vars PROVE Inv'
  OBVIOUS
<1> USE DEF NodeStatus, OfferStatus, LeaseStatus, Pc
<1>1. CASE UNCHANGED vars
  BY <1>1 DEF vars, Inv, TypeOK, RealRows, RealRequest
<1>2. ASSUME NEW n \in Nodes, RegisterNode(n) \/ GrowStale(n) PROVE Inv'
  BY <1>2 DEF RegisterNode, GrowStale, Inv, TypeOK, RealRows, RealRequest
<1>3. ASSUME NEW o \in Offers, CreateOffer(o) PROVE Inv'
  BY <1>3 DEF CreateOffer, Inv, TypeOK, RealRows, RealRequest
<1>4. ASSUME NEW c \in Clients, ClientStep(c) PROVE Inv'
  <2> DEFINE r == client[c]
  <2>0. r \in Request /\ RealRequest(r)
    BY DEF Inv, TypeOK, RealRows
  <2>1. ASSUME NEW o \in Offers, RentReadOffer(c, o) PROVE Inv'
    <3> DEFINE q == [Idle EXCEPT !.pc = "rent_nodes", !.offer = o,
                                !.earlier = {l \in Leases : Active(l)}]
    <3>1. q \in Request /\ RealRequest(q)
      BY <2>1 DEF Idle, Request, RealRequest
    <3>2. Begin(c, q)
      BY <2>1 DEF RentReadOffer
    <3> QED BY <3>1, <3>2, BeginStep
  <2>2. CASE RentReadNodes(c)
    <3> DEFINE q == [r EXCEPT !.pc = "rent_scan", !.read = node]
    <3>1. q \in Request /\ RealRequest(q)
      BY <2>0, <2>2 DEF RentReadNodes, At, Request, RealRequest, Inv, TypeOK
    <3>2. Learn(c, q)
      BY <2>2 DEF RentReadNodes
    <3> QED BY <3>1, <3>2, LearnStep
  <2>3. CASE RentScan(c)
    <3> DEFINE q == [r EXCEPT !.pc = "rent_write"]
    <3>1. q \in Request /\ RealRequest(q)
      BY <2>0, <2>3 DEF RentScan, At, Request, RealRequest
    <3>2. Learn(c, q)
      BY <2>3 DEF RentScan
    <3> QED BY <3>1, <3>2, LearnStep
  <2>4. CASE RentWrite(c)
    <3>1. PICK l \in Leases : lease[l].status = "absent" /\
             lease' = [lease EXCEPT ![l] = [status |-> "active", offer |-> r.offer]]
      BY <2>4 DEF RentWrite
    <3>2. r.offer \in Offers
      BY <2>0, <2>4 DEF RentWrite, At, RealRequest
    <3>3. node' \in [Nodes -> NodeStatus] /\ offer' \in [Offers -> OfferStatus]
      BY <2>4, <3>2, SetNodesType DEF RentWrite, Inv, TypeOK
    <3>4. /\ lease' \in [Leases -> [status : LeaseStatus, offer : Offers \cup {NoOffer}]]
          /\ \A k \in Leases : lease'[k] = IF k = l THEN [status |-> "active", offer |-> r.offer]
                                           ELSE lease[k]
      BY <3>1, <3>2 DEF Inv, TypeOK
    <3> QED BY <2>4, <3>1, <3>2, <3>3, <3>4, WriteStep DEF RentWrite, Respond, Inv,
               TypeOK, RealRows
  <2>5. ASSUME NEW l \in Leases, EndReadLease(c, l) PROVE Inv'
    <3> DEFINE q == [Idle EXCEPT !.pc = "end_nodes", !.lease = l, !.offer = lease[l].offer]
    <3>1. q \in Request /\ RealRequest(q)
      BY <2>5 DEF EndReadLease, Active, Idle, Request, RealRequest, Inv, RealRows
    <3>2. Begin(c, q)
      BY <2>5 DEF EndReadLease
    <3> QED BY <3>1, <3>2, BeginStep
  <2>6. CASE EndReadNodes(c)
    <3> DEFINE q == [r EXCEPT !.pc = "end_remaining", !.read = node]
    <3>1. q \in Request /\ RealRequest(q)
      BY <2>0, <2>6 DEF EndReadNodes, At, Request, RealRequest, Inv, TypeOK
    <3>2. Learn(c, q)
      BY <2>6 DEF EndReadNodes
    <3> QED BY <3>1, <3>2, LearnStep
  <2>7. CASE EndReadRemaining(c)
    <3> DEFINE q == [r EXCEPT !.pc = "end_write"]
    <3>1. q \in Request /\ RealRequest(q)
      BY <2>0, <2>7 DEF EndReadRemaining, At, Request, RealRequest
    <3>2. Learn(c, q)
      BY <2>7 DEF EndReadRemaining
    <3> QED BY <3>1, <3>2, LearnStep
  <2>8. CASE EndWrite(c)
    <3>1. /\ r.lease \in Leases
          /\ lease' = [lease EXCEPT ![r.lease].status = "terminated"]
      BY <2>0, <2>8 DEF EndWrite, At, RealRequest
    <3>2. node' \in [Nodes -> NodeStatus]
      BY <2>8, SetNodesType DEF EndWrite, Inv
    <3>3. lease[r.lease].offer \in Offers
      BY <2>0, <2>8 DEF EndWrite, At, RealRequest
    <3>4. \A k \in Leases : /\ lease'[k].offer = lease[k].offer
                            /\ lease'[k].status = IF k = r.lease THEN "terminated"
                                                  ELSE lease[k].status
      BY <3>1 DEF Inv, TypeOK
    <3>5. lease' \in [Leases -> [status : LeaseStatus, offer : Offers \cup {NoOffer}]]
      BY <3>1 DEF Inv, TypeOK
    <3>6. \A k \in Leases : lease[k].status # "absent" =>
             lease'[k].status # "absent" /\ lease'[k].offer = lease[k].offer
      BY <3>4
    <3>7. \A k \in Leases : lease'[k].status # "absent" => lease'[k].offer \in Offers
      BY <3>3, <3>4 DEF Inv, RealRows
    <3>8. /\ client' = [client EXCEPT ![c] = Idle] /\ overlapped' = overlapped
          /\ stale' \subseteq Nodes /\ offer' \in [Offers -> OfferStatus]
      BY <2>8 DEF EndWrite, Respond, Inv, TypeOK
    <3> QED BY <3>2, <3>5, <3>6, <3>7, <3>8, WriteStep
  <2>9. ASSUME NEW o \in Offers, WithdrawReadOffer(c, o) PROVE Inv'
    <3> DEFINE q == [Idle EXCEPT !.pc = "withdraw_leases", !.offer = o]
    <3>1. q \in Request /\ RealRequest(q)
      BY <2>9 DEF Idle, Request, RealRequest
    <3>2. Begin(c, q)
      BY <2>9 DEF WithdrawReadOffer
    <3> QED BY <3>1, <3>2, BeginStep
  <2>10. CASE WithdrawReadLeases(c)
    <3> DEFINE q == [r EXCEPT !.pc = "withdraw_write"]
    <3>1. q \in Request /\ RealRequest(q)
      BY <2>0, <2>10 DEF WithdrawReadLeases, At, Request, RealRequest
    <3>2. Learn(c, q)
      BY <2>10 DEF WithdrawReadLeases
    <3> QED BY <3>1, <3>2, LearnStep
  <2>11. CASE WithdrawWrite(c)
    BY <2>0, <2>11, WriteStep, SetNodesType DEF WithdrawWrite, At, Respond, Request,
       RealRequest, Inv, TypeOK, RealRows
  <2>12. ASSUME NEW S \in SUBSET Nodes, BeatReadNodes(c, S) PROVE Inv'
    <3> DEFINE q == [Idle EXCEPT !.pc = "beat_write", !.read = node, !.targets = S]
    <3>1. q \in Request /\ RealRequest(q)
      BY <2>12 DEF Idle, Request, RealRequest, Inv, TypeOK
    <3>2. Begin(c, q)
      BY <2>12 DEF BeatReadNodes
    <3> QED BY <3>1, <3>2, BeginStep
  <2>13. CASE BeatWrite(c)
    BY <2>0, <2>13, WriteStep, SetNodesType DEF BeatWrite, At, Respond, Request,
       RealRequest, Inv, TypeOK, RealRows
  <2>14. CASE SweepReadLeases(c)
    <3> DEFINE q == [Idle EXCEPT !.pc = "sweep_nodes",
                     !.targets = UNION {PodNodes(l) : l \in {k \in Leases : Active(k)}}]
    <3>1. q \in Request /\ RealRequest(q)
      <4>1. \A l \in Leases : Active(l) => PodNodes(l) \in SUBSET Nodes
        BY NodesOfAssumption DEF Active, PodNodes, Inv, RealRows
      <4>2. q.targets \in SUBSET Nodes
        BY <4>1 DEF Idle
      <4> QED BY <4>2, IdleReal DEF Idle, Request, RealRequest
    <3>2. Begin(c, q)
      BY <2>14 DEF SweepReadLeases
    <3> QED BY <3>1, <3>2, BeginStep
  <2>15. CASE SweepReadNodes(c)
    <3> DEFINE q == [r EXCEPT !.pc = "sweep_protect", !.read = node]
    <3>1. q \in Request /\ RealRequest(q)
      BY <2>0, <2>15 DEF Request, RealRequest, Inv, TypeOK
    <3>2. Learn(c, q)
      BY <2>15 DEF SweepReadNodes
    <3> QED BY <3>1, <3>2, LearnStep
  <2>16. CASE SweepProtect(c)
    BY <2>0, <2>16, SetNodesType DEF SweepProtect, At, Request, RealRequest, Inv, TypeOK,
       RealRows
  <2>17. CASE SweepReadStale(c)
    <3> DEFINE q == [r EXCEPT !.pc = "sweep_write", !.read = node,
                             !.targets = {n \in stale : node[n] = "healthy"}]
    <3>1. q \in Request /\ RealRequest(q)
      BY <2>0, <2>17 DEF Request, RealRequest, Inv, TypeOK
    <3>2. Learn(c, q)
      BY <2>17 DEF SweepReadStale
    <3> QED BY <3>1, <3>2, LearnStep
  <2>18. CASE SweepWrite(c)
    BY <2>0, <2>18, WriteStep, SetNodesType DEF SweepWrite, At, Respond, Request,
       RealRequest, Inv, TypeOK, RealRows
  <2>19. CASE Abort(c)
    BY <2>19, ReadStep, IdleReal DEF Abort, Respond, Inv, TypeOK
  <2> QED BY <1>4, <2>1, <2>2, <2>3, <2>4, <2>5, <2>6, <2>7, <2>8, <2>9, <2>10, <2>11,
             <2>12, <2>13, <2>14, <2>15, <2>16, <2>17, <2>18, <2>19
        DEF ClientStep, Rent, Terminate, Withdraw, Heartbeat, Sweep, Inv,
             TypeOK
<1> QED BY <1>1, <1>2, <1>3, <1>4 DEF Next

\* The tables and the requests are always well formed.
THEOREM WellFormed == Spec => []Inv
BY InitInv, NextInv, PTL DEF Spec

\* Statuses are those of the tables, at every moment.
THEOREM TypeCorrect == Spec => []TypeOK
<1>1. Inv => TypeOK
  BY DEF Inv
<1> QED BY <1>1, WellFormed, PTL
-----------------------------------------------------------------------------
(* Rents against leases that were there before.                             *)

\* Rows stay: a lease never moves to another offer, and one that has ended
\* never comes back.
RowsStay ==
    \A l \in Leases : lease[l].status # "absent" =>
        /\ lease'[l].status # "absent"
        /\ lease'[l].offer = lease[l].offer
        /\ Active(l)' => Active(l)

\* Only a rent and a termination write leases.
LEMMA LeaseStep == Inv /\ [Next]_vars => RowsStay
<1> SUFFICES ASSUME Inv, [Next]_vars PROVE RowsStay
  OBVIOUS
<1>1. CASE lease' = lease
  BY <1>1 DEF RowsStay, Active
<1>2. ASSUME NEW c \in Clients, RentWrite(c) PROVE RowsStay
  BY <1>2 DEF RentWrite, RowsStay, Active, Inv, TypeOK
<1>3. ASSUME NEW c \in Clients, EndWrite(c) PROVE RowsStay
  <2>1. \A k \in Leases : /\ lease'[k].offer = lease[k].offer
                          /\ lease'[k].status \in {lease[k].status, "terminated"}
    BY <1>3 DEF EndWrite, Inv, TypeOK
  <2> QED BY <2>1 DEF RowsStay, Active
<1>4. ASSUME NEW c \in Clients, ClientStep(c), ~RentWrite(c), ~EndWrite(c)
      PROVE  lease' = lease
  BY <1>4 DEF ClientStep, Rent, Terminate, Withdraw, Heartbeat, Sweep, market, Begin,
     Learn, RentReadOffer, RentReadNodes, RentScan,
     EndReadLease, EndReadNodes, EndReadRemaining, WithdrawReadOffer, WithdrawReadLeases,
     WithdrawWrite, BeatReadNodes, BeatWrite, SweepReadLeases, SweepReadNodes,
     SweepProtect, SweepReadStale, SweepWrite, Abort
<1> QED BY <1>1, <1>2, <1>3, <1>4 DEF Next, RegisterNode, GrowStale, CreateOffer, vars

\* The leases that a rent found when it began have rows.
EarlierHaveRows ==
    \A c \in Clients : \A l \in client[c].earlier : lease[l].status # "absent"

RentInv == EarlierHaveRows /\ NoRentOverEarlierLease

\* What a step does to one request's memory of earlier leases: nothing, a fresh
\* look at them, or a move to another statement; a rent reaches its write only
\* through its scan.
MemoryStep(d) ==
    \/ client'[d] = client[d]
    \/ /\ client'[d].pc # "rent_write"
       /\ client'[d].earlier \in {client[d].earlier, {}, {l \in Leases : Active(l)}}
    \/ RentScan(d)

LEMMA MemoryLemma == Inv /\ [Next]_vars => \A d \in Clients : MemoryStep(d)
<1> SUFFICES ASSUME Inv, [Next]_vars, NEW d \in Clients PROVE MemoryStep(d)
  OBVIOUS
<1> USE DEF MemoryStep
<1>1. CASE client' = client
  BY <1>1
<1>2. ASSUME NEW c \in Clients, ClientStep(c), c # d PROVE client'[d] = client[d]
  BY <1>2 DEF Inv, TypeOK, ClientStep, Rent, Terminate, Withdraw, Heartbeat, Sweep,
     Begin, Learn, Respond, RentReadOffer,
     RentReadNodes, RentScan, RentWrite, EndReadLease, EndReadNodes, EndReadRemaining,
     EndWrite, WithdrawReadOffer, WithdrawReadLeases, WithdrawWrite, BeatReadNodes,
     BeatWrite, SweepReadLeases, SweepReadNodes, SweepProtect, SweepReadStale, SweepWrite,
     Abort
<1>3. CASE ClientStep(d)
  <2>1. client \in [Clients -> Request]
    BY DEF Inv, TypeOK
  <2>2. ASSUME NEW o \in Offers, RentReadOffer(d, o) PROVE MemoryStep(d)
    BY <2>1, <2>2 DEF RentReadOffer, Begin, Learn, Respond, Idle, Request
  <2>3. CASE RentReadNodes(d)
    BY <2>1, <2>3 DEF RentReadNodes, Begin, Learn, Respond, Idle, Request
  <2>4. CASE RentWrite(d)
    BY <2>1, <2>4 DEF RentWrite, Begin, Learn, Respond, Idle, Request
  <2>5. ASSUME NEW l \in Leases, EndReadLease(d, l) PROVE MemoryStep(d)
    BY <2>1, <2>5 DEF EndReadLease, Begin, Learn, Respond, Idle, Request
  <2>6. CASE EndReadNodes(d)
    BY <2>1, <2>6 DEF EndReadNodes, Begin, Learn, Respond, Idle, Request
  <2>7. CASE EndReadRemaining(d)
    BY <2>1, <2>7 DEF EndReadRemaining, Begin, Learn, Respond, Idle, Request
  <2>8. CASE EndWrite(d)
    BY <2>1, <2>8 DEF EndWrite, Begin, Learn, Respond, Idle, Request
  <2>9. ASSUME NEW o \in Offers, WithdrawReadOffer(d, o) PROVE MemoryStep(d)
    BY <2>1, <2>9 DEF WithdrawReadOffer, Begin, Learn, Respond, Idle, Request
  <2>10. CASE WithdrawReadLeases(d)
    BY <2>1, <2>10 DEF WithdrawReadLeases, Begin, Learn, Respond, Idle, Request
  <2>11. CASE WithdrawWrite(d)
    BY <2>1, <2>11 DEF WithdrawWrite, Begin, Learn, Respond, Idle, Request
  <2>12. ASSUME NEW S \in SUBSET Nodes, BeatReadNodes(d, S) PROVE MemoryStep(d)
    BY <2>1, <2>12 DEF BeatReadNodes, Begin, Learn, Respond, Idle, Request
  <2>13. CASE BeatWrite(d)
    BY <2>1, <2>13 DEF BeatWrite, Begin, Learn, Respond, Idle, Request
  <2>14. CASE SweepReadLeases(d)
    BY <2>1, <2>14 DEF SweepReadLeases, Begin, Learn, Respond, Idle, Request
  <2>15. CASE SweepReadNodes(d)
    BY <2>1, <2>15 DEF SweepReadNodes, Begin, Learn, Respond, Idle, Request
  <2>16. CASE SweepProtect(d)
    BY <2>1, <2>16 DEF SweepProtect, Begin, Learn, Respond, Idle, Request
  <2>17. CASE SweepReadStale(d)
    BY <2>1, <2>17 DEF SweepReadStale, Begin, Learn, Respond, Idle, Request
  <2>18. CASE SweepWrite(d)
    BY <2>1, <2>18 DEF SweepWrite, Begin, Learn, Respond, Idle, Request
  <2>19. CASE Abort(d)
    BY <2>1, <2>19 DEF Abort, Begin, Learn, Respond, Idle, Request
  <2> QED BY <1>3, <2>2, <2>3, <2>4, <2>5, <2>6, <2>7, <2>8, <2>9, <2>10, <2>11, <2>12,
             <2>13, <2>14, <2>15, <2>16, <2>17, <2>18, <2>19
        DEF ClientStep, Rent, Terminate, Withdraw, Heartbeat, Sweep, Inv, TypeOK
<1> QED BY <1>1, <1>2, <1>3 DEF Next, RegisterNode, GrowStale, CreateOffer, vars

\* Before the first rent there is nothing to conflict with.
LEMMA InitRentInv == Init => RentInv
BY DEF Init, RentInv, EarlierHaveRows, NoRentOverEarlierLease, Idle, At

\* A rent passes its scan only when no active lease, earlier or not, has a pod
\* on its nodes; no earlier lease can start to conflict after that.
LEMMA NextRentInv == Inv /\ RentInv /\ [Next]_vars => RentInv'
<1> SUFFICES ASSUME Inv, RentInv, [Next]_vars, NEW d \in Clients
             PROVE  /\ \A l \in client'[d].earlier : lease'[l].status # "absent"
                    /\ At(d, "rent_write")' =>
                          \A l \in client'[d].earlier :
                             Active(l)' => (PodNodes(l) \cap NodesOf[client[d].offer] = {})'
  BY DEF RentInv, EarlierHaveRows, NoRentOverEarlierLease
<1>1. RowsStay /\ MemoryStep(d)
  BY LeaseStep, MemoryLemma
<1>2. client[d].earlier \in SUBSET Leases
  BY DEF Inv, TypeOK, Request
<1>3. \A l \in client[d].earlier : l \in Leases /\ lease[l].status # "absent"
  BY <1>2 DEF RentInv, EarlierHaveRows
<1>4. CASE client'[d] = client[d]
  BY <1>1, <1>3, <1>4 DEF RowsStay, RentInv, NoRentOverEarlierLease, At, PodNodes
<1>5. CASE /\ client'[d].pc # "rent_write"
           /\ client'[d].earlier \in {client[d].earlier, {}, {l \in Leases : Active(l)}}
  BY <1>1, <1>3, <1>5 DEF RowsStay, Active, At
<1>6. CASE RentScan(d)
  <2>1. /\ client'[d].earlier = client[d].earlier
        /\ client'[d].offer = client[d].offer
        /\ lease' = lease
    BY <1>6 DEF RentScan, Learn, market, Inv, TypeOK, Request
  <2>2. \A l \in Leases : Active(l) => PodNodes(l) \cap NodesOf[client[d].offer] = {}
    BY <1>6 DEF RentScan
  <2> QED BY <1>3, <2>1, <2>2 DEF Active, PodNodes
<1> QED BY <1>1, <1>4, <1>5, <1>6 DEF MemoryStep

\* With any number of requests in any order, a rent that gets as far as its
\* write conflicts with no lease that was there when it began
\* (_assert_nodes_exclusive_free): it takes two rents at once to rent twice.
THEOREM RentRespectsEarlier == Spec => []NoRentOverEarlierLease
<1>1. RentInv => NoRentOverEarlierLease
  BY DEF RentInv
<1> QED BY InitInv, NextInv, InitRentInv, NextRentInv, <1>1, PTL DEF Spec
-----------------------------------------------------------------------------
(* One request at a time: what the request under way has read is what the    *)
(* tables still say, so its write does what the sequential code is meant to.  *)

Held(n) == \E l \in Leases : Active(l) /\ n \in PodNodes(l)

Books == Exclusive /\ \A n \in Nodes : node[n] = "rented" <=> Held(n)

Alone == \A c, d \in Clients : ~At(c, "idle") /\ ~At(d, "idle") => c = d

\* What each statement of a request that is alone may rely on.
Knows(r) ==
    /\ r.pc \in {"rent_scan", "rent_write"} =>
          \A n \in NodesOf[r.offer] : node[n] = r.read[n] /\ node[n] # "absent"
    /\ r.pc = "rent_write" =>
          \A l \in Leases : Active(l) => PodNodes(l) \cap NodesOf[r.offer] = {}
    /\ r.pc \in {"end_nodes", "end_remaining", "end_write"} => lease[r.lease].status = "active"
    /\ r.pc \in {"end_remaining", "end_write"} =>
          \A n \in NodesOf[r.offer] : node[n] = r.read[n]
    /\ r.pc = "beat_write" =>
          \A n \in r.targets : node[n] = r.read[n] /\ node[n] # "absent"
    /\ r.pc \in {"sweep_nodes", "sweep_protect"} => \A n \in r.targets : node[n] = "rented"
    /\ r.pc = "sweep_write" => \A n \in r.targets : node[n] = "healthy"

SerialInv == ~overlapped => Alone /\ Books /\ \A c \in Clients : Knows(client[c])

\* The offers' part of the books, and what a withdrawal relies on.
Kept == \A l \in Leases : Active(l) => offer[lease[l].offer] = "leased"
Unleased(r) ==
    r.pc = "withdraw_write" => \A l \in Leases : Active(l) => lease[l].offer # r.offer
OfferInv == ~overlapped => Kept /\ \A c \in Clients : Unleased(client[c])

\* The two ways of saying that the books are right.
LEMMA BooksMeaning == SerialBooks <=> (~overlapped => Books /\ Kept)
BY DEF SerialBooks, Books, Held, Kept

\* Nothing is leased or rented at first.
LEMMA InitSerial == Init => SerialInv
<1> SUFFICES ASSUME Init PROVE SerialInv
  OBVIOUS
<1>1. \A c \in Clients : client[c].pc = "idle"
  BY DEF Init, Idle
<1>2. \A l \in Leases : ~Active(l)
  BY DEF Init, Active, NoRow
<1>3. Books
  BY <1>2 DEF Init, Books, Held, Exclusive
<1> QED BY <1>1, <1>3 DEF SerialInv, Alone, At, Knows

\* An idle request relies on nothing.
LEMMA IdleKnows == \A r : r.pc = "idle" => Knows(r)
BY DEF Knows

\* While no two requests overlap, the others are idle when one takes a step.
LEMMA OthersIdle ==
    ASSUME Inv, SerialInv, NEW c \in Clients, ClientStep(c), ~overlapped'
    PROVE  /\ ~overlapped
           /\ \A d \in Clients \ {c} : client'[d] = client[d] /\ client[d].pc = "idle"
<1> USE DEF ClientStep, Rent, Terminate, Withdraw, Heartbeat, Sweep, Begin, Learn,
        Respond, RentReadOffer, RentReadNodes, RentScan,
        RentWrite, EndReadLease, EndReadNodes, EndReadRemaining, EndWrite,
        WithdrawReadOffer, WithdrawReadLeases, WithdrawWrite, BeatReadNodes, BeatWrite,
        SweepReadLeases, SweepReadNodes, SweepProtect, SweepReadStale, SweepWrite, Abort
<1>1. \A d \in Clients \ {c} : client'[d] = client[d]
  BY DEF Inv, TypeOK
<1>2. ~overlapped /\ (~At(c, "idle") \/ \A d \in Clients \ {c} : At(d, "idle"))
  BY DEF Inv, TypeOK, At
<1>3. \A d \in Clients \ {c} : client[d].pc = "idle"
  BY <1>2 DEF SerialInv, Alone, At
<1> QED BY <1>1, <1>2, <1>3

\* So a step of a request keeps the invariant when it keeps the books and that
\* request ends up knowing what its next statement relies on.
LEMMA SerialStep ==
    ASSUME Inv, SerialInv, NEW c \in Clients, ClientStep(c), ~overlapped',
           Books', Knows(client[c])'
    PROVE  SerialInv'
<1>1. \A d \in Clients \ {c} : client'[d].pc = "idle"
  BY OthersIdle
<1>2. Alone'
  BY <1>1 DEF Alone, At
<1>3. \A d \in Clients : Knows(client[d])'
  BY <1>1 DEF Knows
<1> QED BY <1>2, <1>3 DEF SerialInv

\* A step that leaves the tables alone keeps the books.
LEMMA ReadBooks == Books /\ UNCHANGED market => Books'
BY DEF Books, Held, Exclusive, Disjoint, Active, PodNodes, market

\* So does a write of nodes that neither takes one from a tenant nor gives one
\* away.
LEMMA FreeNodesBooks ==
    ASSUME Books, UNCHANGED lease,
           \A n \in Nodes : node'[n] = "rented" <=> node[n] = "rented"
    PROVE  Books'
BY DEF Books, Held, Exclusive, Disjoint, Active, PodNodes

\* A rent alone: its nodes are held by nobody, and are all rented afterwards.
LEMMA RentBooks ==
    ASSUME Inv, Books, NEW c \in Clients, RentWrite(c), Knows(client[c])
    PROVE  Books'
<1> DEFINE r == client[c]
           mine == NodesOf[r.offer]
<1>1. PICK l \in Leases : /\ lease[l].status = "absent"
                          /\ lease' = [lease EXCEPT ![l] = [status |-> "active", offer |-> r.offer]]
  BY DEF RentWrite
<1>2. \A k \in Leases : lease'[k] = IF k = l THEN [status |-> "active", offer |-> r.offer]
                                    ELSE lease[k]
  BY <1>1 DEF Inv, TypeOK
<1>3. /\ \A k \in Leases : Active(k)' <=> (k = l \/ Active(k))
      /\ \A k \in Leases \ {l} : PodNodes(k)' = PodNodes(k)
      /\ PodNodes(l)' = mine
  BY <1>1, <1>2 DEF Active, PodNodes
<1>4. /\ \A n \in mine : node[n] = r.read[n]
      /\ \A k \in Leases : Active(k) => PodNodes(k) \cap mine = {}
  BY DEF RentWrite, At, Knows
<1>5. ~Active(l)
  BY <1>1 DEF Active
<1>6. Exclusive'
  BY <1>3, <1>4 DEF Books, Exclusive, Disjoint
<1>7. \A n \in Nodes : node'[n] = IF n \in mine THEN "rented" ELSE node[n]
  BY <1>4 DEF RentWrite, SetNodes
<1>8. ASSUME NEW n \in Nodes PROVE Held(n)' <=> (n \in mine \/ Held(n))
  BY <1>3, <1>5 DEF Held
<1> QED BY <1>6, <1>7, <1>8 DEF Books

\* A termination alone: the nodes of the lease, and no other tenant's, are free
\* afterwards.
LEMMA EndBooks ==
    ASSUME Inv, Books, NEW c \in Clients, EndWrite(c), Knows(client[c])
    PROVE  Books'
<1> DEFINE r == client[c]
           l == r.lease
<1>1. /\ l \in Leases /\ lease[l].offer = r.offer /\ r.offer \in Offers /\ Active(l)
      /\ \A n \in NodesOf[r.offer] : node[n] = r.read[n]
  BY DEF EndWrite, At, Knows, Active, Inv, RealRows, RealRequest
<1>2. \A k \in Leases : /\ lease'[k].offer = lease[k].offer
                        /\ lease'[k].status = IF k = l THEN "terminated" ELSE lease[k].status
  BY <1>1 DEF EndWrite, Inv, TypeOK
<1>3. /\ \A k \in Leases : Active(k)' <=> (k # l /\ Active(k))
      /\ \A k \in Leases : PodNodes(k)' = PodNodes(k)
      /\ PodNodes(l) = NodesOf[r.offer]
  BY <1>1, <1>2 DEF Active, PodNodes
<1>4. Exclusive'
  BY <1>3 DEF Books, Exclusive, Disjoint
<1>5. \A n \in PodNodes(l) : n \in Nodes /\ node[n] = "rented" /\ r.read[n] = "rented"
  BY <1>1, <1>3, NodesOfAssumption DEF Books, Held
<1>6. \A n \in Nodes : node'[n] = IF n \in PodNodes(l) THEN "healthy" ELSE node[n]
  BY <1>3, <1>5 DEF EndWrite, SetNodes
<1>7. ASSUME NEW n \in Nodes PROVE Held(n)' <=> (n \notin PodNodes(l) /\ Held(n))
  BY <1>1, <1>3 DEF Held, Books, Exclusive, Disjoint
<1> QED BY <1>4, <1>6, <1>7 DEF Books

\* Every step keeps the books while requests come one at a time.
LEMMA NextSerial == Inv /\ SerialInv /\ [Next]_vars => SerialInv'
<1> SUFFICES ASSUME Inv, SerialInv, [Next]_vars, ~overlapped' PROVE SerialInv'
  BY DEF SerialInv
<1>1. CASE UNCHANGED vars
  BY <1>1 DEF vars, SerialInv, Alone, At, Books, Held, Exclusive, Disjoint, Active,
     PodNodes, Knows
<1>2. ASSUME NEW o \in Offers, CreateOffer(o) PROVE SerialInv'
  BY <1>2 DEF CreateOffer, SerialInv, Alone, At, Books, Held, Exclusive, Disjoint, Active,
              PodNodes, Knows
<1>3. ASSUME NEW n \in Nodes, GrowStale(n) PROVE SerialInv'
  BY <1>3 DEF GrowStale, SerialInv, Alone, At, Books, Held, Exclusive, Disjoint, Active,
              PodNodes, Knows
<1>4. ASSUME NEW n \in Nodes, RegisterNode(n) PROVE SerialInv'
  <2>1. /\ \A m \in Nodes : node'[m] = IF m = n THEN "healthy" ELSE node[m]
        /\ node[n] = "absent" /\ UNCHANGED <<lease, client, overlapped>>
    BY <1>4 DEF RegisterNode, Inv, TypeOK
  <2>2. Books'
    BY <2>1, FreeNodesBooks DEF SerialInv
  <2>3. ASSUME NEW d \in Clients PROVE Knows(client[d])'
    <3>1. Knows(client[d]) /\ Books
      BY <2>1 DEF SerialInv
    <3>2. client[d] \in Request /\ RealRequest(client[d])
      BY DEF Inv, TypeOK, RealRows
    <3> DEFINE r == client[d]
    <3>3. r.pc \in {"end_nodes", "end_remaining", "end_write"} =>
             \A m \in NodesOf[r.offer] : node[m] = "rented"
      BY <3>1, <3>2, NodesOfAssumption
         DEF Knows, RealRequest, Books, Held, Active, PodNodes
    <3>4. /\ r.targets \subseteq Nodes
          /\ r.pc \in {"rent_scan", "rent_write", "end_remaining", "end_write"}
                => NodesOf[r.offer] \subseteq Nodes
      BY <3>2, NodesOfAssumption DEF Request, RealRequest
    <3> QED BY <2>1, <3>1, <3>3, <3>4 DEF Knows, Active, PodNodes
  <2> QED BY <2>1, <2>2, <2>3 DEF SerialInv, Alone, At
<1>5. ASSUME NEW c \in Clients, ClientStep(c) PROVE SerialInv'
  <2> DEFINE r == client[c]
  <2>0. /\ ~overlapped /\ Books /\ Knows(r)
        /\ r \in Request /\ RealRequest(r)
        /\ client \in [Clients -> Request]
    BY <1>5, OthersIdle DEF SerialInv, Inv, TypeOK, RealRows
  <2> SUFFICES Books' /\ Knows(client[c])'
    BY <1>5, SerialStep
  <2>1. ASSUME NEW o \in Offers, RentReadOffer(c, o) PROVE Books' /\ Knows(client[c])'
    BY <2>0, <2>1, ReadBooks DEF RentReadOffer, Begin, Idle, Knows
  <2>2. CASE RentReadNodes(c)
    BY <2>0, <2>2, ReadBooks DEF RentReadNodes, At, Learn, market, Request, Knows
  <2>3. CASE RentScan(c)
    BY <2>0, <2>3, ReadBooks DEF RentScan, At, Learn, market, Active, PodNodes, Request,
       Knows
  <2>4. CASE RentWrite(c)
    BY <2>0, <2>4, RentBooks, IdleReal DEF RentWrite, Respond, Knows
  <2>5. ASSUME NEW l \in Leases, EndReadLease(c, l) PROVE Books' /\ Knows(client[c])'
    BY <2>0, <2>5, ReadBooks DEF EndReadLease, Begin, Active, market, Idle, Knows
  <2>6. CASE EndReadNodes(c)
    BY <2>0, <2>6, ReadBooks DEF EndReadNodes, At, Learn, market, Request, Knows
  <2>7. CASE EndReadRemaining(c)
    BY <2>0, <2>7, ReadBooks DEF EndReadRemaining, At, Learn, market, Request, Knows
  <2>8. CASE EndWrite(c)
    BY <2>0, <2>8, EndBooks, IdleReal DEF EndWrite, Respond, Knows
  <2>9. ASSUME NEW o \in Offers, WithdrawReadOffer(c, o) PROVE Books' /\ Knows(client[c])'
    BY <2>0, <2>9, ReadBooks DEF WithdrawReadOffer, Begin, Idle, Knows
  <2>10. CASE WithdrawReadLeases(c)
    BY <2>0, <2>10, ReadBooks DEF WithdrawReadLeases, Learn, Request, Knows
  <2>11. CASE WithdrawWrite(c)
    BY <2>0, <2>11, FreeNodesBooks, ReadBooks, IdleReal DEF WithdrawWrite, Respond, Knows
  <2>12. ASSUME NEW S \in SUBSET Nodes, BeatReadNodes(c, S) PROVE Books' /\ Knows(client[c])'
    BY <2>0, <2>12, ReadBooks DEF BeatReadNodes, Begin, market, Idle, Knows
  <2>13. CASE BeatWrite(c)
    <3>1. \A n \in Nodes : node'[n] = "rented" <=> node[n] = "rented"
      BY <2>0, <2>13 DEF BeatWrite, At, SetNodes, Knows
    <3> QED BY <2>0, <2>13, <3>1, FreeNodesBooks, IdleReal DEF BeatWrite, Respond, Knows
  <2>14. CASE SweepReadLeases(c)
    BY <2>0, <2>14, ReadBooks, NodesOfAssumption DEF SweepReadLeases, Begin, market, Idle,
       Knows, Books, Held, Active, PodNodes, Inv, RealRows
  <2>15. CASE SweepReadNodes(c)
    BY <2>0, <2>15, ReadBooks DEF SweepReadNodes, At, Learn, market, Request, Knows
  <2>16. CASE SweepProtect(c)
    <3>1. \A n \in Nodes : node'[n] = node[n]
      BY <2>0, <2>16 DEF SweepProtect, At, SetNodes, Knows
    <3> QED BY <2>0, <2>16, <3>1, FreeNodesBooks DEF SweepProtect, Request, Knows
  <2>17. CASE SweepReadStale(c)
    BY <2>0, <2>17, ReadBooks DEF SweepReadStale, Learn, market, Request, Knows
  <2>18. CASE SweepWrite(c)
    <3>1. \A n \in Nodes : node'[n] = "rented" <=> node[n] = "rented"
      BY <2>0, <2>18 DEF SweepWrite, At, SetNodes, Knows
    <3> QED BY <2>0, <2>18, <3>1, FreeNodesBooks, IdleReal DEF SweepWrite, Respond, Knows
  <2>19. CASE Abort(c)
    BY <2>0, <2>19, FreeNodesBooks, ReadBooks, IdleReal DEF Abort, Respond, Knows
  <2> QED BY <1>5, <2>1, <2>2, <2>3, <2>4, <2>5, <2>6, <2>7, <2>8, <2>9, <2>10, <2>11,
             <2>12, <2>13, <2>14, <2>15, <2>16, <2>17, <2>18, <2>19
        DEF ClientStep, Rent, Terminate, Withdraw, Heartbeat, Sweep, Inv,
             TypeOK
<1> QED BY <1>1, <1>2, <1>3, <1>4, <1>5 DEF Next

\* No lease is active at first.
LEMMA InitOffers == Init => OfferInv
BY DEF Init, OfferInv, Kept, Unleased, Active, NoRow, Idle

\* A step that leaves offers and leases alone keeps their part of the books.
LEMMA KeptStays ==
    ASSUME Kept, UNCHANGED <<offer, lease>>
    PROVE  Kept'
BY DEF Kept, Active

\* An offer stays leased as long as its lease is active, while requests come one
\* at a time.
LEMMA NextOffers == Inv /\ SerialInv /\ OfferInv /\ [Next]_vars => OfferInv'
<1> SUFFICES ASSUME Inv, SerialInv, OfferInv, [Next]_vars, ~overlapped' PROVE OfferInv'
  BY DEF OfferInv
<1>1. CASE UNCHANGED vars
  BY <1>1 DEF vars, OfferInv, Kept, Unleased, Active
<1>2. ASSUME NEW o \in Offers, CreateOffer(o) PROVE OfferInv'
  <2>1. /\ offer[o] = "absent" /\ UNCHANGED <<lease, client, overlapped>>
        /\ \A q \in Offers \ {o} : offer'[q] = offer[q]
    BY <1>2 DEF CreateOffer, Inv, TypeOK
  <2>2. \A l \in Leases : Active(l) => lease[l].offer \in Offers
    BY DEF Inv, RealRows, Active
  <2> QED BY <2>1, <2>2 DEF OfferInv, Kept, Unleased, Active
<1>3. ASSUME NEW n \in Nodes, RegisterNode(n) \/ GrowStale(n) PROVE OfferInv'
  BY <1>3 DEF RegisterNode, GrowStale, OfferInv, Kept, Unleased, Active
<1>4. ASSUME NEW c \in Clients, ClientStep(c) PROVE OfferInv'
  <2> DEFINE r == client[c]
  <2>1. /\ ~overlapped /\ Kept /\ Unleased(r)
        /\ \A d \in Clients \ {c} : client'[d].pc = "idle"
    BY <1>4, OthersIdle DEF OfferInv
  <2> SUFFICES Kept' /\ Unleased(client[c])'
    BY <2>1 DEF OfferInv, Unleased
  <2>2. CASE RentWrite(c)
    <3>1. PICK l \in Leases :
             /\ lease[l].status = "absent"
             /\ lease' = [lease EXCEPT ![l] = [status |-> "active", offer |-> r.offer]]
      BY <2>2 DEF RentWrite
    <3>2. \A k \in Leases : lease'[k] = IF k = l THEN [status |-> "active", offer |-> r.offer]
                                      ELSE lease[k]
      BY <3>1 DEF Inv, TypeOK
    <3>3. /\ \A o \in Offers : offer'[o] = IF o = r.offer THEN "leased" ELSE offer[o]
          /\ r.offer \in Offers
      BY <2>2 DEF RentWrite, At, Inv, TypeOK, RealRows, RealRequest
    <3>4. \A k \in Leases : Active(k) => lease[k].offer \in Offers
      BY DEF Inv, RealRows, Active
    <3>5. Kept'
      BY <2>1, <3>2, <3>3, <3>4 DEF Kept, Active
    <3>6. client'[c] = Idle
      BY <2>2 DEF RentWrite, Respond, Inv, TypeOK
    <3> QED BY <3>5, <3>6, IdleReal DEF Unleased
  <2>3. CASE EndWrite(c)
    <3>1. /\ \A k \in Leases : Active(k)' => Active(k) /\ lease'[k].offer = lease[k].offer
          /\ offer' = offer
      BY <2>3 DEF EndWrite, Active, At, Inv, TypeOK, RealRows, RealRequest
    <3>2. Kept'
      BY <2>1, <3>1 DEF Kept
    <3> QED BY <2>3, <3>2 DEF EndWrite, Respond, Unleased, Idle, Inv, TypeOK
  <2>4. CASE WithdrawWrite(c)
    <3>1. /\ \A o \in Offers \ {r.offer} : offer'[o] = offer[o]
          /\ lease' = lease
          /\ \A l \in Leases : Active(l) => lease[l].offer # r.offer
      BY <2>1, <2>4 DEF WithdrawWrite, At, Unleased, Inv, TypeOK
    <3>2. \A k \in Leases : Active(k) => lease[k].offer \in Offers
      BY DEF Inv, RealRows, Active
    <3>3. Kept'
      BY <2>1, <3>1, <3>2 DEF Kept, Active
    <3> QED BY <2>4, <3>3 DEF WithdrawWrite, Respond, Unleased, Idle, Inv, TypeOK
  <2>5. CASE WithdrawReadLeases(c)
    BY <2>1, <2>5, KeptStays DEF WithdrawReadLeases, Learn, market, Unleased, Active, Inv,
       TypeOK, Request
  <2>6. CASE /\ UNCHANGED <<offer, lease>>
             /\ client'[c].pc # "withdraw_write"
    BY <2>1, <2>6, KeptStays DEF Unleased
  <2>7. ASSUME ~RentWrite(c), ~EndWrite(c), ~WithdrawWrite(c), ~WithdrawReadLeases(c)
        PROVE  UNCHANGED <<offer, lease>> /\ client'[c].pc # "withdraw_write"
    <3> DEFINE Quiet == UNCHANGED <<offer, lease>> /\ client'[c].pc # "withdraw_write"
    <3>1. client \in [Clients -> Request]
      BY DEF Inv, TypeOK
    <3>2. ASSUME NEW o \in Offers, RentReadOffer(c, o) PROVE Quiet
      BY <3>1, <3>2 DEF RentReadOffer, Begin, Idle, market
    <3>3. CASE RentReadNodes(c)
      BY <3>1, <3>3 DEF RentReadNodes, Learn, market, Request
    <3>4. CASE RentScan(c)
      BY <3>1, <3>4 DEF RentScan, Learn, market, Request
    <3>5. ASSUME NEW l \in Leases, EndReadLease(c, l) PROVE Quiet
      BY <3>1, <3>5 DEF EndReadLease, Begin, Idle, market
    <3>6. CASE EndReadNodes(c)
      BY <3>1, <3>6 DEF EndReadNodes, Learn, market, Request
    <3>7. CASE EndReadRemaining(c)
      BY <3>1, <3>7 DEF EndReadRemaining, Learn, market, Request
    <3>8. ASSUME NEW o \in Offers, WithdrawReadOffer(c, o) PROVE Quiet
      BY <3>1, <3>8 DEF WithdrawReadOffer, Begin, Idle, market
    <3>9. ASSUME NEW S \in SUBSET Nodes, BeatReadNodes(c, S) PROVE Quiet
      BY <3>1, <3>9 DEF BeatReadNodes, Begin, Idle, market
    <3>10. CASE BeatWrite(c)
      BY <3>1, <3>10 DEF BeatWrite, Respond, Idle
    <3>11. CASE SweepReadLeases(c)
      BY <3>1, <3>11 DEF SweepReadLeases, Begin, Idle, market
    <3>12. CASE SweepReadNodes(c)
      BY <3>1, <3>12 DEF SweepReadNodes, Learn, market, Request
    <3>13. CASE SweepProtect(c)
      BY <3>1, <3>13 DEF SweepProtect, Request
    <3>14. CASE SweepReadStale(c)
      BY <3>1, <3>14 DEF SweepReadStale, Learn, market, Request
    <3>15. CASE SweepWrite(c)
      BY <3>1, <3>15 DEF SweepWrite, Respond, Idle
    <3>16. CASE Abort(c)
      BY <3>1, <3>16 DEF Abort, Respond, Idle, market
    <3> QED BY <1>4, <2>7, <3>2, <3>3, <3>4, <3>5, <3>6, <3>7, <3>8, <3>9,
               <3>10, <3>11, <3>12, <3>13, <3>14, <3>15, <3>16
            DEF ClientStep, Rent, Terminate, Withdraw, Heartbeat, Sweep, Inv, TypeOK
  <2> QED BY <2>2, <2>3, <2>4, <2>5, <2>6, <2>7
<1> QED BY <1>1, <1>2, <1>3, <1>4 DEF Next

\* As long as requests come one at a time, no two active leases share a node, a
\* node is rented exactly while an active lease has it and its offer is leased,
\* for every set of offers that share nodes (leases.py, nodes.py: rent, terminate, heartbeat,
\* withdraw and the idle-reclaim sweep in any sequence).
THEOREM SerialCorrect == Spec => []SerialBooks
<1>1. SerialInv /\ OfferInv => SerialBooks
  BY BooksMeaning DEF SerialInv, OfferInv
<1> QED BY InitInv, NextInv, InitSerial, NextSerial, InitOffers, NextOffers, <1>1, PTL
        DEF Spec
=============================================================================
