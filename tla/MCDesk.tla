------------------------------- MODULE MCDesk -------------------------------
(* Two clients of one hotkey race for one client_request_id, or one of them with a
   request that is refused, or with no key; two registrations race, or one and a
   heartbeat. *)
EXTENDS Desk, TLC

CONSTANTS h1, h2, k1, none, ann, bob, cat, dan, eve, fay, gus

MCHotkey == {h1, h2}
MCKey == {k1}
MCClient == {ann, bob, cat, dan, eve, fay, gus}
MCOwner == [c \in MCClient |-> IF c \in {ann, bob, cat, dan} THEN h1 ELSE h2]
MCGroups == {{ann, bob}, {cat}, {dan}, {eve, fay}, {fay, gus}}
MCAhead == [c \in MCClient |-> IF c \in {cat, dan} THEN 0 ELSE 1]
MCAllowlist == {"sim"}

Asks(key, tee, world_size) ==
    [kind |-> "admit", key |-> key,
     body |-> [image |-> "sim", safe |-> TRUE, world_size |-> world_size, nnodes |-> 1,
               nproc |-> 2, timeout |-> 1, gpus |-> 0, tee |-> tee]]

MCWish ==
    ann :> Asks(k1, "", 2) @@ bob :> Asks(k1, "tdx", 2) @@ cat :> Asks(k1, "", 3)
    @@ dan :> Asks(none, "", 2)
    @@ eve :> [kind |-> "register", name |-> "east"]
    @@ fay :> [kind |-> "register", name |-> ""]
    @@ gus :> [kind |-> "heartbeat"]
=============================================================================
