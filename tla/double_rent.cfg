SPECIFICATION Spec
CONSTANTS
    n1 = n1  n2 = n2  single = single  cluster = cluster
    l1 = l1  l2 = l2  c1 = c1  c2 = c2
    Nodes = {n1, n2}
    Offers = {single, cluster}
    NodesOf <- MCNodesOf
    Leases = {l1, l2}
    Clients = {c1, c2}
    NoOffer = NoOffer
    NoLease = NoLease
SYMMETRY MarketSymmetry
INVARIANT Exclusive
