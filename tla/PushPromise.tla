----------------------------- MODULE PushPromise -----------------------------
(***************************************************************************)
(* What the weight push promises to the master and to whoever reads a       *)
(* snapshot's status: a revision is built once and never changes its        *)
(* meaning, the master accepts for it that payload or nothing, and what is  *)
(* called acknowledged was accepted.  An acknowledgement may be forgotten.  *)
(***************************************************************************)
CONSTANTS Revision, Payload, None

VARIABLES
    built,     \* [Revision -> Payload \cup {None}]
    accepted,  \* [Revision -> Payload \cup {None}]
    known      \* the revisions that are called acknowledged

vars == <<built, accepted, known>>

Init ==
    /\ built = [k \in Revision |-> None]
    /\ accepted = [k \in Revision |-> None]
    /\ known = {}

Build(k) ==
    /\ built[k] = None
    /\ built'[k] \in Payload
    /\ built' = [built EXCEPT ![k] = built'[k]]
    /\ UNCHANGED <<accepted, known>>

Accept(k) ==
    /\ built[k] # None
    /\ accepted[k] = None
    /\ accepted' = [accepted EXCEPT ![k] = built[k]]
    /\ UNCHANGED <<built, known>>

Acknowledge(k) ==
    /\ accepted[k] # None
    /\ known' = known \cup {k}
    /\ UNCHANGED <<built, accepted>>

Forget(k) ==
    /\ known' = known \ {k}
    /\ UNCHANGED <<built, accepted>>

Next == \E k \in Revision : Build(k) \/ Accept(k) \/ Acknowledge(k) \/ Forget(k)

Spec == Init /\ [][Next]_vars
=============================================================================
