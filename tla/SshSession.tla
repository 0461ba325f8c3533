----------------------------- MODULE SshSession -----------------------------
(***************************************************************************)
(* The SSH session of a probe (probe/resolve.py, probe/keys.py,             *)
(* probe/allowlist.py, probe/ssh_exec.py): which key is used, the fixed     *)
(* commands and their timeouts, and the wall budget that they share.        *)
(*                                                                         *)
(* A session runs at a stretch: the calls block, and what a command does is *)
(* a matter of the host, which takes host.takes[c] for command c.  Times    *)
(* are counted in quarters of a minute.  The scripts of the fake transport, *)
(* which replays fixtures for tests, are left out.                          *)
(***************************************************************************)
EXTENDS Integers, Sequences, FiniteSets

CONSTANTS
    ConnectTimeout,   \* ssh_connect_timeout_s
    CmdCap,           \* ssh_cmd_timeout_s
    WallBudget,       \* gpu_probe_timeout_s
    DefaultKey        \* what ssh_key_path and ssh_key_env name

\* COMMAND_REGISTRY: each command has one argv, and its timeout.
Timeout ==
    [nvidia_smi_list |-> 2, nvidia_smi_query |-> 2, cuda_microbench |-> 6,
     docker_info |-> 2, docker_gpu_smi |-> 6, echo_ping |-> 1]
Command == DOMAIN Timeout \cup {"ssh_connect"}

\* Where a key_ref leads: to a file, through the environment to a file or to
\* the key itself, to the agent, or nowhere.
KeyRef == {"file", "env_path", "env_pem", "agent", "unreadable", "none"}

ASSUME SshAssumption ==
    /\ ConnectTimeout \in Nat \ {0} /\ CmdCap \in Nat \ {0} /\ WallBudget \in Nat \ {0}
    /\ DefaultKey \in KeyRef
-----------------------------------------------------------------------------
(* The transport. *)

\* resolve_key_ref: the path that it finds; ssh needs a file.
HasPath(key) == key \in {"file", "env_path"}

\* key_ref_from_settings, for a request that names no key.
KeyOf(key) == IF key = "none" THEN DefaultKey ELSE key

\* resolve_ssh_transport: the real one or none, never a fake in its place.
Resolves(endpoint, key) == endpoint /\ HasPath(KeyOf(key))
-----------------------------------------------------------------------------
(* The commands. *)

\* What the executor counts, and which commands were answered or cut off.
Fresh == [elapsed |-> 0, spent |-> 0, connected |-> FALSE, answered |-> {}, late |-> {}]

\* command_timeout_s
TimeoutOf(c) ==
    LET own == IF c = "ssh_connect" THEN ConnectTimeout ELSE Timeout[c]
    IN  IF own < CmdCap THEN own ELSE CmdCap

\* Mutant of Remaining: only the time between the commands counts.
RemainingIdle(s) == WallBudget - (s.elapsed - s.spent)

\* _remaining_wall: what the commands took is in the time since the executor
\* was made as well as in wall_spent_s.
Remaining(s) == WallBudget - (s.spent + s.elapsed)

Limit(s, c) == IF TimeoutOf(c) < Remaining(s) THEN TimeoutOf(c) ELSE Remaining(s)

\* default_openssh_runner: ssh is killed when the limit is over.
Runs(s, c, host) == IF host.takes[c] < Limit(s, c) THEN host.takes[c] ELSE Limit(s, c)
InTime(s, c, host) == host.takes[c] <= Limit(s, c)

\* _invoke: without budget nothing is run.
Invoke(s, c, host) ==
    LET time == IF Remaining(s) > 0 THEN Runs(s, c, host) ELSE 0
        answered == Remaining(s) > 0 /\ InTime(s, c, host)
    IN  [s EXCEPT !.elapsed = @ + time, !.spent = @ + time,
                  !.answered = IF answered THEN @ \cup {c} ELSE @,
                  !.late = IF answered THEN @ ELSE @ \cup {c}]

\* connect: what fails with an exit code is no session either.
Connect(s, host) ==
    LET t == Invoke(s, "ssh_connect", host)
    IN  [t EXCEPT !.connected = "ssh_connect" \in t.answered /\ "ssh_connect" \notin host.bad]

\* run: only commands of the registry, and only when connected.
Run(s, c, host) == IF c \in Command /\ s.connected THEN Invoke(s, c, host) ELSE s
=============================================================================
