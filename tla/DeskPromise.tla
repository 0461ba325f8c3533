----------------------------- MODULE DeskPromise -----------------------------
(***************************************************************************)
(* What the API promises to whoever submits jobs: under one hotkey and one  *)
(* client_request_id there is one job, and everyone who asked with that key *)
(* is told that job or is refused.                                          *)
(***************************************************************************)
EXTENDS Naturals

CONSTANTS
    Slot,      \* pairs of a hotkey and a client_request_id
    Asker,     \* those who submit
    SlotOf     \* [Asker -> Slot]

None == 0
Refused == 0

VARIABLES
    job,       \* [Slot -> Nat], the job of a slot or None
    told       \* [Asker -> what the asker was told, {} before, then {answer}]

vars == <<job, told>>

Init ==
    /\ job = [s \in Slot |-> None]
    /\ told = [a \in Asker |-> {}]

Make(s) ==
    /\ job[s] = None
    /\ job'[s] # None
    /\ \A t \in Slot \ {s} : job'[t] = job[t]
    /\ UNCHANGED told

Tell(a) ==
    /\ told[a] = {}
    /\ \/ job[SlotOf[a]] # None /\ told' = [told EXCEPT ![a] = {job[SlotOf[a]]}]
       \/ told' = [told EXCEPT ![a] = {Refused}]
    /\ UNCHANGED job

Next == (\E s \in Slot : Make(s)) \/ (\E a \in Asker : Tell(a))

Spec == Init /\ [][Next]_vars
=============================================================================
