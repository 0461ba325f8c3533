---------------------------- MODULE Marketplace ----------------------------
(***************************************************************************)
(* Nodes, offers and leases (domain/nodes.py, offers.py, leases.py) under   *)
(* concurrent HTTP requests.  A request is a series of committed reads and  *)
(* then one atomic write; nothing that was read is checked again by the     *)
(* write, and the write touches only the columns that the request changed.  *)
(***************************************************************************)
EXTENDS Naturals, FiniteSets

CONSTANTS
    Nodes,    \* node ids of one provider
    Offers,   \* offer ids
    NodesOf,  \* [Offers -> SUBSET Nodes]: offers.node_ids, two offers may share nodes
    Leases,   \* lease ids; each lease has the one pod that is inserted with it
    Clients,  \* concurrent requests
    NoOffer,  \* what a lease that has no row, or a request without offer, has
    NoLease

ASSUME NodesOfAssumption == NodesOf \in [Offers -> (SUBSET Nodes) \ {{}}]
ASSUME NoOfferAssumption == NoOffer \notin Offers
ASSUME NoLeaseAssumption == NoLease \notin Leases

VARIABLES
    node,       \* nodes.status
    stale,      \* nodes whose last heartbeat is older than the liveness window
    offer,      \* offers.status
    lease,      \* leases rows; their pod is running until they are terminated
    client,     \* what each request has read
    overlapped  \* history: has any request begun while another was under way?

vars == <<node, stale, offer, lease, client, overlapped>>
market == <<node, stale, offer, lease>>

NodeStatus == {"absent", "healthy", "offline", "rented"}
OfferStatus == {"absent", "listed", "leased", "withdrawn"}
LeaseStatus == {"absent", "active", "terminated"}

NoRow == [status |-> "absent", offer |-> NoOffer]
Active(l) == lease[l].status = "active"
PodNodes(l) == NodesOf[lease[l].offer]

\* pc, the offer or the lease the request is about, the statuses of the nodes
\* it has read, the set of nodes it goes on to write, and (history) the leases
\* that were active when a rent began.
Idle == [pc |-> "idle", offer |-> NoOffer, lease |-> NoLease,
         read |-> [n \in Nodes |-> "absent"], targets |-> {}, earlier |-> {}]

Pc == {"idle", "rent_nodes", "rent_scan", "rent_write", "end_nodes", "end_remaining",
       "end_write", "withdraw_leases", "withdraw_write", "beat_write",
       "sweep_nodes", "sweep_protect", "sweep_stale", "sweep_write"}

Init ==
    /\ node = [n \in Nodes |-> "absent"]
    /\ stale = {}
    /\ offer = [o \in Offers |-> "absent"]
    /\ lease = [l \in Leases |-> NoRow]
    /\ client = [c \in Clients |-> Idle]
    /\ overlapped = FALSE

At(c, pc) == client[c].pc = pc
Respond(c) == client' = [client EXCEPT ![c] = Idle] /\ UNCHANGED overlapped

\* A request's first read, which found nothing to refuse.
Begin(c, r) ==
    /\ At(c, "idle")
    /\ client' = [client EXCEPT ![c] = r]
    /\ overlapped' = (overlapped \/ \E d \in Clients \ {c} : ~At(d, "idle"))
    /\ UNCHANGED market

\* A later read: `r` is what the request knows then.
Learn(c, r) ==
    /\ client' = [client EXCEPT ![c] = r]
    /\ UNCHANGED <<market, overlapped>>

\* node.status := s for the nodes in S, as the ORM flushes it: the column is
\* written only where s differs from what this request had read.
SetNodes(S, read, s) ==
    node' = [n \in Nodes |-> IF n \in S /\ read[n] # s THEN s ELSE node[n]]
-----------------------------------------------------------------------------
\* register_node of a new node, create_offer: one insert, after reads that only
\* guard it (rent_offer checks the nodes of the offer again).
RegisterNode(n) ==
    /\ node[n] = "absent"
    /\ node' = [node EXCEPT ![n] = "healthy"]
    /\ UNCHANGED <<stale, offer, lease, client, overlapped>>

\* _load_owned_nodes: a rented node may be offered, an offline one may not.
Offerable(S) == \A n \in S : node[n] \in {"healthy", "rented"}

CreateOffer(o) ==
    /\ offer[o] = "absent"
    /\ Offerable(NodesOf[o])
    /\ offer' = [offer EXCEPT ![o] = "listed"]
    /\ UNCHANGED <<node, stale, lease, client, overlapped>>

\* Time without a heartbeat (or the ageing of the idle-reclaim route).
GrowStale(n) ==
    /\ node[n] # "absent"
    /\ n \notin stale
    /\ stale' = stale \cup {n}
    /\ UNCHANGED <<node, offer, lease, client, overlapped>>

\* rent_offer: the offer must be listed, its nodes live, ...
RentReadOffer(c, o) ==
    /\ offer[o] = "listed"
    /\ Begin(c, [Idle EXCEPT !.pc = "rent_nodes", !.offer = o,
                             !.earlier = {l \in Leases : Active(l)}])

RentReadNodes(c) ==
    LET r == client[c]
    IN  /\ At(c, "rent_nodes")
        /\ \A n \in NodesOf[r.offer] : node[n] \in {"healthy", "rented"}
        /\ Learn(c, [r EXCEPT !.pc = "rent_scan", !.read = node])

\* Mutant of RentScan: the scan skips the leases of other offers.
RentScanOwnOffer(c) ==
    LET r == client[c]
    IN  /\ At(c, "rent_scan")
        /\ \A l \in Leases : Active(l) => lease[l].offer # r.offer
        /\ Learn(c, [r EXCEPT !.pc = "rent_write"])

\* ... and no active lease may have a pod on them (_assert_nodes_exclusive_free).
RentScan(c) ==
    LET r == client[c]
    IN  /\ At(c, "rent_scan")
        /\ \A l \in Leases : Active(l) => PodNodes(l) \cap NodesOf[r.offer] = {}
        /\ Learn(c, [r EXCEPT !.pc = "rent_write"])

\* Mutant of RentWrite: leaves the nodes as they are.
RentWriteKeepNodes(c) ==
    LET r == client[c]
    IN  /\ At(c, "rent_write")
        /\ \E l \in Leases :
              /\ lease[l].status = "absent"
              /\ lease' = [lease EXCEPT ![l] = [status |-> "active", offer |-> r.offer]]
        /\ offer' = [offer EXCEPT ![r.offer] = "leased"]
        /\ Respond(c)
        /\ UNCHANGED <<node, stale>>

RentWrite(c) ==
    LET r == client[c]
    IN  /\ At(c, "rent_write")
        /\ \E l \in Leases :
              /\ lease[l].status = "absent"
              /\ lease' = [lease EXCEPT ![l] = [status |-> "active", offer |-> r.offer]]
        /\ offer' = [offer EXCEPT ![r.offer] = "leased"]
        /\ SetNodes(NodesOf[r.offer], r.read, "rented")
        /\ Respond(c)
        /\ UNCHANGED stale

\* terminate_lease by the renter or the provider; a terminal lease is returned
\* as it is.
EndReadLease(c, l) ==
    /\ Active(l)
    /\ Begin(c, [Idle EXCEPT !.pc = "end_nodes", !.lease = l, !.offer = lease[l].offer])

EndReadNodes(c) ==
    LET r == client[c]
    IN  /\ At(c, "end_nodes")
        /\ Learn(c, [r EXCEPT !.pc = "end_remaining", !.read = node])

\* The count of what remains on the offer still includes this lease (there is
\* no autoflush), and scalar_one_or_none raises when it is more than one.
EndReadRemaining(c) ==
    LET r == client[c]
    IN  /\ At(c, "end_remaining")
        /\ offer[r.offer] = "leased" =>
              Cardinality({l \in Leases : Active(l) /\ lease[l].offer = r.offer}) <= 1
        /\ Learn(c, [r EXCEPT !.pc = "end_write"])

\* _free_capacity_for_lease frees the nodes it read as rented, whoever has
\* leased them; the offer stays leased.
EndWrite(c) ==
    LET r == client[c]
    IN  /\ At(c, "end_write")
        /\ lease' = [lease EXCEPT ![r.lease].status = "terminated"]
        /\ SetNodes({n \in NodesOf[r.offer] : r.read[n] = "rented"}, r.read, "healthy")
        /\ Respond(c)
        /\ UNCHANGED <<stale, offer>>

\* withdraw_offer: refused while the offer has an active lease.
WithdrawReadOffer(c, o) ==
    /\ offer[o] \in {"listed", "leased"}
    /\ Begin(c, [Idle EXCEPT !.pc = "withdraw_leases", !.offer = o])

WithdrawReadLeases(c) ==
    LET r == client[c]
    IN  /\ At(c, "withdraw_leases")
        /\ \A l \in Leases : Active(l) => lease[l].offer # r.offer
        /\ Learn(c, [r EXCEPT !.pc = "withdraw_write"])

WithdrawWrite(c) ==
    LET r == client[c]
    IN  /\ At(c, "withdraw_write")
        /\ offer' = [offer EXCEPT ![r.offer] = "withdrawn"]
        /\ Respond(c)
        /\ UNCHANGED <<node, stale, lease>>

\* node_heartbeat of one node or of all, register_node of a known node: what is
\* not rented becomes healthy.
BeatReadNodes(c, S) ==
    /\ S # {}
    /\ \A n \in S : node[n] # "absent"
    /\ Begin(c, [Idle EXCEPT !.pc = "beat_write", !.read = node, !.targets = S])

BeatWrite(c) ==
    LET r == client[c]
    IN  /\ At(c, "beat_write")
        /\ SetNodes({n \in r.targets : r.read[n] # "rented"}, r.read, "healthy")
        /\ stale' = stale \ r.targets
        /\ Respond(c)
        /\ UNCHANGED <<offer, lease>>

\* run_idle_reclaim_sweep: the nodes of active leases are set to rented again,
SweepReadLeases(c) ==
    Begin(c, [Idle EXCEPT !.pc = "sweep_nodes",
                          !.targets = UNION {PodNodes(l) : l \in {k \in Leases : Active(k)}}])

SweepReadNodes(c) ==
    LET r == client[c]
    IN  /\ At(c, "sweep_nodes")
        /\ Learn(c, [r EXCEPT !.pc = "sweep_protect", !.read = node])

SweepProtect(c) ==
    LET r == client[c]
    IN  /\ At(c, "sweep_protect")
        /\ SetNodes(r.targets, r.read, "rented")
        /\ client' = [client EXCEPT ![c] = [r EXCEPT !.pc = "sweep_stale"]]
        /\ UNCHANGED <<stale, offer, lease, overlapped>>

\* and the free nodes that are stale then go offline (mark_stale_nodes_offline).
SweepReadStale(c) ==
    LET r == client[c]
    IN  /\ At(c, "sweep_stale")
        /\ Learn(c, [r EXCEPT !.pc = "sweep_write", !.read = node,
                              !.targets = {n \in stale : node[n] = "healthy"}])

SweepWrite(c) ==
    LET r == client[c]
    IN  /\ At(c, "sweep_write")
        /\ SetNodes(r.targets, r.read, "offline")
        /\ Respond(c)
        /\ UNCHANGED <<stale, offer, lease>>

\* A refusal, an exception, a disconnect or a crash before the commit.
Abort(c) ==
    /\ ~At(c, "idle")
    /\ Respond(c)
    /\ UNCHANGED market

\* The routes.
Rent(c) ==
    \/ \E o \in Offers : RentReadOffer(c, o)
    \/ RentReadNodes(c) \/ RentScan(c) \/ RentWrite(c)

Terminate(c) ==
    \/ \E l \in Leases : EndReadLease(c, l)
    \/ EndReadNodes(c) \/ EndReadRemaining(c) \/ EndWrite(c)

Withdraw(c) ==
    \/ \E o \in Offers : WithdrawReadOffer(c, o)
    \/ WithdrawReadLeases(c) \/ WithdrawWrite(c)

\* Of one node or of all.  A heartbeat that is refused for want of probe evidence
\* (fail_closed) is refused when it has been committed.
Heartbeat(c) ==
    \/ \E S \in {{n} : n \in Nodes} \cup {{n \in Nodes : node[n] # "absent"}} :
          BeatReadNodes(c, S)
    \/ BeatWrite(c)

Sweep(c) ==
    \/ SweepReadLeases(c) \/ SweepReadNodes(c) \/ SweepProtect(c)
    \/ SweepReadStale(c) \/ SweepWrite(c)

ClientStep(c) ==
    Rent(c) \/ Terminate(c) \/ Withdraw(c) \/ Heartbeat(c) \/ Sweep(c) \/ Abort(c)

Next ==
    \/ \E n \in Nodes : RegisterNode(n) \/ GrowStale(n)
    \/ \E o \in Offers : CreateOffer(o)
    \/ \E c \in Clients : ClientStep(c)

Spec == Init /\ [][Next]_vars
-----------------------------------------------------------------------------
Request == [pc : Pc, offer : Offers \cup {NoOffer}, lease : Leases \cup {NoLease},
            read : [Nodes -> NodeStatus], targets : SUBSET Nodes, earlier : SUBSET Leases]

TypeOK ==
    /\ node \in [Nodes -> NodeStatus]
    /\ stale \subseteq Nodes
    /\ offer \in [Offers -> OfferStatus]
    /\ lease \in [Leases -> [status : LeaseStatus, offer : Offers \cup {NoOffer}]]
    /\ client \in [Clients -> Request]
    /\ overlapped \in BOOLEAN

Disjoint(l, m) == PodNodes(l) \cap PodNodes(m) = {}

\* "Double-rent fails closed" (leases.py): no two active leases share a node.
Exclusive ==
    \A l, m \in Leases : Active(l) /\ Active(m) /\ l # m => Disjoint(l, m)

\* As long as requests come one at a time the bookkeeping is exact, whatever
\* their sequence: leases are exclusive, a node is rented exactly while an
\* active lease has it (so no sweep or heartbeat touches a tenant's node, and
\* no node stays rented when its tenant has left), and no offer is withdrawn or
\* listed under a tenant.
SerialBooks ==
    ~overlapped =>
        /\ Exclusive
        /\ \A n \in Nodes :
              node[n] = "rented" <=> \E l \in Leases : Active(l) /\ n \in PodNodes(l)
        /\ \A l \in Leases : Active(l) => offer[lease[l].offer] = "leased"

\* With any overlap of requests, a rent that gets as far as its write conflicts
\* with no lease that was there when it began and still is: a double rent takes
\* two rents under way at once.
NoRentOverEarlierLease ==
    \A c \in Clients : At(c, "rent_write") =>
        \A l \in client[c].earlier :
            Active(l) => PodNodes(l) \cap NodesOf[client[c].offer] = {}

\* "Never offline-kills rented tenant capacity" (the idle-reclaim route): a
\* node that is rented does not go offline.
TenantsKeepNodes ==
    [][\A n \in Nodes : node[n] = "rented" => node'[n] # "offline"]_vars
=============================================================================
