-------------------------------- MODULE Desk --------------------------------
(***************************************************************************)
(* The signed write routes as a client meets them (api/auth.py, and with    *)
(* domain/jobs.py and domain/providers.py three of the handlers behind it): *)
(* requests are signed with a nonce and a timestamp, are lost, delayed or   *)
(* delivered twice; a nonce is committed before its request is handled, a   *)
(* handler may abort, a reply may be lost, and a client that hears nothing, *)
(* or that its request was refused for now, signs it again.                 *)
(*                                                                          *)
(* Authentication only writes, so it is one action.  A handler that reads   *)
(* before it writes takes two.                                              *)
(***************************************************************************)
EXTENDS Integers, Sequences, FiniteSets

CONSTANTS
    Hotkey, Key, NoKey,
    Client,          \* each has one wish that it submits until it is told
    Owner,           \* [Client -> Hotkey]
    Wish,            \* [Client -> Op]
    Groups,          \* the sets of clients that ask at the same time
    SignatureTtl,    \* hyper.signature_ttl_seconds
    NonceTtl,        \* DEFAULT_NONCE_TTL_SECONDS
    Ahead,           \* [Client -> 0..SignatureTtl], how far a client's clock is ahead
    Allowlist,       \* image digests
    MaxWorldSize, MaxNnodes, MaxNproc, MaxTimeout, MaxGpus,   \* hyper.max_job_*
    MaxTime,         \* bound on the clock
    MaxTries,        \* bound on how often a client signs
    MaxFaults        \* bound on losses, duplicates, aborts and early retries

TeeMode == {"none", "tdx", "tdx+gpu_cc"}
Blank == ""
Body == [image : STRING, safe : BOOLEAN, world_size : Int, nnodes : Int, nproc : Int,
         timeout : Int, gpus : Int, tee : TeeMode \cup {Blank, "unknown"}]
Admission == [kind : {"admit"}, key : Key \cup {NoKey}, body : Body]
Registration == [kind : {"register"}, name : STRING]
Heartbeat == [kind : {"heartbeat"}]

ASSUME DeskAssumption ==
    /\ NoKey \notin Key
    /\ Owner \in [Client -> Hotkey]
    /\ DOMAIN Wish = Client
    /\ \A c \in Client : Wish[c] \in Admission \cup Registration \cup Heartbeat
    /\ Groups \subseteq SUBSET Client
    /\ SignatureTtl \in Nat
    /\ NonceTtl \in Nat
    /\ Ahead \in [Client -> 0..SignatureTtl]
    /\ MaxTime \in Nat /\ MaxTries \in Nat /\ MaxFaults \in Nat

\* A nonce is kept for a day, a timestamp is good for five minutes either way
\* (auth.py:40): signature_ttl_seconds has no upper bound of its own.
ASSUME NonceOutlivesSignature == 2 * SignatureTtl <= NonceTtl

VARIABLES
    now,
    net,         \* requests on their way
    replies,     \* answers on their way
    client,      \* [Client -> [pc, try]]
    told,        \* [Client -> the answer it was told, {} before]
    serving,     \* requests that are being handled, and where they are
    nonces,      \* nonces
    jobs,        \* jobs, in the order of insertion
    providers,   \* [Hotkey -> Provider or NoProvider]
    faults,
    accepted,    \* history: requests that passed authentication
    replayed     \* history: those that passed it twice

vars == <<now, net, replies, client, told, serving, nonces, jobs, providers, faults,
          accepted, replayed>>
rows == <<jobs, providers>>

Request == [client : Client, try : 1..MaxTries, timestamp : 0..MaxTime + SignatureTtl]
Nonce == [client : Client, try : 1..MaxTries, expires_at : Nat]
NoProvider == [absent |-> TRUE]   \* of a provider's row only the display name is kept
Job == [hotkey : Hotkey, key : Key \cup {NoKey}, body : Body, request : Client \X (1..MaxTries)]

At(q, pc) == q.pc = pc
Op(q) == Wish[q.m.client]
Submitter(q) == Owner[q.m.client]

Init ==
    /\ now = 0
    /\ net = {} /\ replies = {}
    /\ \E group \in Groups :
          client = [c \in Client |-> [pc |-> IF c \in group THEN "ready" ELSE "done", try |-> 0]]
    /\ told = [c \in Client |-> {}]
    /\ serving = {}
    /\ nonces = {}
    /\ jobs = << >>
    /\ providers = [h \in Hotkey |-> NoProvider]
    /\ faults = 0
    /\ accepted = {} /\ replayed = {}

Fault == faults < MaxFaults /\ faults' = faults + 1
-----------------------------------------------------------------------------
(* Clients and the network. *)

Tick ==
    /\ now < MaxTime
    /\ now' = now + 1
    /\ UNCHANGED <<net, replies, client, told, serving, nonces, rows, faults, accepted, replayed>>

\* build_signed_headers: a fresh nonce, and the client's time.
Sign(c) ==
    LET try == client[c].try + 1
    IN  /\ client[c].pc = "ready"
        /\ try <= MaxTries
        /\ client' = [client EXCEPT ![c] = [pc |-> "waiting", try |-> try]]
        /\ net' = net \cup {[client |-> c, try |-> try, timestamp |-> now + Ahead[c]]}
        /\ UNCHANGED <<now, replies, told, serving, nonces, rows, faults, accepted, replayed>>

LoseRequest(m) ==
    /\ m \in net /\ Fault
    /\ net' = net \ {m}
    /\ UNCHANGED <<now, replies, client, told, serving, nonces, rows, accepted, replayed>>

LoseReply(r) ==
    /\ r \in replies /\ Fault
    /\ replies' = replies \ {r}
    /\ UNCHANGED <<now, net, client, told, serving, nonces, rows, accepted, replayed>>

IsOf(m, c) == m.client = c /\ m.try = client[c].try

\* Nothing that could still answer the client's request.
Silent(c) ==
    /\ \A m \in net \cup replies : ~IsOf(m, c)
    /\ \A q \in serving : ~IsOf(q.m, c)

\* A client gives up on a request that was lost, or on a slow one.
GiveUp(c) ==
    /\ client[c].pc = "waiting"
    /\ IF Silent(c) THEN UNCHANGED faults ELSE Fault
    /\ client' = [client EXCEPT ![c].pc = "ready"]
    /\ replies' = {r \in replies : ~IsOf(r, c)}
    /\ UNCHANGED <<now, net, told, serving, nonces, rows, accepted, replayed>>

\* 401 (stale or replayed) and 500 are tried again, other answers are final.
Hear(c, r) ==
    /\ r \in replies
    /\ client[c].pc = "waiting" /\ IsOf(r, c)
    /\ replies' = replies \ {r}
    /\ IF r.answer.status \in {401, 500}
       THEN /\ client' = [client EXCEPT ![c].pc = "ready"]
            /\ UNCHANGED told
       ELSE /\ client' = [client EXCEPT ![c].pc = "done"]
            /\ told' = [told EXCEPT ![c] = {r.answer}]
    /\ UNCHANGED <<now, net, serving, nonces, rows, faults, accepted, replayed>>

Awaits(m) == client[m.client] = [pc |-> "waiting", try |-> m.try]

\* Nobody hears the answer to a request that its client gave up.
Reply(m, status, id, created) ==
    replies' = replies \cup
        IF Awaits(m)
        THEN {[client |-> m.client, try |-> m.try,
               answer |-> [status |-> status, id |-> id, created |-> created]]}
        ELSE {}
-----------------------------------------------------------------------------
(* authenticate_miner. *)

\* Mutant of Fresh: no timestamp from the future.
FreshNotAhead(m) == m.timestamp <= now /\ now <= m.timestamp + SignatureTtl

Fresh(m) == m.timestamp - SignatureTtl <= now /\ now <= m.timestamp + SignatureTtl

\* What the prune leaves of the nonces.
Live == {n \in nonces : n.expires_at >= now}

\* Mutant of Used: nonces are not kept longer than signatures are fresh.
UsedPrunedEarly(m) ==
    \E n \in Live : n.expires_at - SignatureTtl >= now /\ n.client = m.client /\ n.try = m.try

Used(m) == \E n \in Live : n.client = m.client /\ n.try = m.try

\* Stale requests are refused unread; a nonce that is there breaks the primary
\* key and the prune is rolled back with the insert.
Authenticate(m) ==
    /\ m \in net
    /\ \/ net' = net \ {m} /\ UNCHANGED faults
       \/ Fault /\ UNCHANGED net
    /\ IF Fresh(m) /\ ~Used(m)
       THEN /\ nonces' = Live \cup {[client |-> m.client, try |-> m.try,
                                     expires_at |-> now + NonceTtl]}
            /\ serving' = serving \cup {[pc |-> Wish[m.client].kind, m |-> m]}
            /\ accepted' = accepted \cup {m}
            /\ replayed' = replayed \cup ({m} \cap accepted)
            /\ UNCHANGED replies
       ELSE /\ Reply(m, 401, 0, FALSE)
            /\ UNCHANGED <<nonces, serving, accepted, replayed>>
    /\ UNCHANGED <<now, client, told, rows>>

Answer(q, status, id, created) ==
    /\ Reply(q.m, status, id, created)
    /\ serving' = serving \ {q}

Goto(q, pc) == serving' = (serving \ {q}) \cup {[q EXCEPT !.pc = pc]}

Serving == <<now, net, client, told, nonces, accepted, replayed>>

\* The session is closed without a commit; the nonce is spent all the same.
Abort(q) ==
    /\ Fault
    /\ serving' = serving \ {q}
    /\ UNCHANGED <<Serving, replies, rows>>
-----------------------------------------------------------------------------
(* admit_job. *)

\* _job_admit_kwargs: the settings that a job is held to.
AdmitCaps == [images |-> Allowlist, world_size |-> MaxWorldSize, nnodes |-> MaxNnodes,
              nproc |-> MaxNproc, timeout |-> MaxTimeout, gpus |-> MaxGpus]

validate_image_digest(b) == b.image \in AdmitCaps.images

validate_world_size_dims(b) ==
    /\ b.world_size >= 1 /\ b.nnodes >= 1 /\ b.nproc >= 1
    /\ b.world_size = b.nnodes * b.nproc

\* A missing gpus passes as 0 does.
validate_resource_budget(b) ==
    /\ \A dim \in {"world_size", "nnodes", "nproc"} : b[dim] <= AdmitCaps[dim]
    /\ b.timeout \in 1..AdmitCaps.timeout
    /\ b.gpus \in 0..AdmitCaps.gpus
    /\ b.world_size <= AdmitCaps.gpus

normalize_enum(v) == IF v = Blank THEN "none" ELSE v

\* No token has shell or path tricks in it, alone or joined to the others.
validate_entrypoint(b) == b.safe

Valid(b) ==
    /\ validate_image_digest(b)
    /\ validate_entrypoint(b)
    /\ validate_world_size_dims(b)
    /\ validate_resource_budget(b)
    /\ normalize_enum(b.tee) \in TeeMode

Named(hotkey, key) ==
    {i \in DOMAIN jobs : key # NoKey /\ jobs[i].hotkey = hotkey /\ jobs[i].key = key}

\* A known key answers with its job, whatever else the request says now.
AdmitRead(q) ==
    LET known == Named(Submitter(q), Op(q).key)
    IN  /\ At(q, "admit")
        /\ \/ \E i \in known : Answer(q, 200, i, FALSE)
           \/ known = {} /\ ~Valid(Op(q).body) /\ Answer(q, 422, 0, FALSE)
           \/ known = {} /\ Valid(Op(q).body) /\ Goto(q, "insert") /\ UNCHANGED replies
        /\ UNCHANGED <<Serving, rows, faults>>

Row(q) ==
    [hotkey |-> Submitter(q), key |-> Op(q).key,
     body |-> [Op(q).body EXCEPT !.tee = normalize_enum(@)],
     request |-> <<q.m.client, q.m.try>>]

\* Mutant of AdmitInsert: (hotkey, client_request_id) is not unique.
AdmitInsertAgain(q) ==
    /\ At(q, "insert")
    /\ jobs' = Append(jobs, Row(q))
    /\ Answer(q, 200, Len(jobs) + 1, TRUE)
    /\ UNCHANGED <<Serving, providers, faults>>

\* The unique (hotkey, client_request_id) index refuses a second row; the handler
\* rolls back and answers with the first.
AdmitInsert(q) ==
    LET known == Named(Submitter(q), Op(q).key)
    IN  /\ At(q, "insert")
        /\ \/ (\E i \in known : Answer(q, 200, i, FALSE)) /\ UNCHANGED jobs
           \/ /\ known = {}
              /\ jobs' = Append(jobs, Row(q))
              /\ Answer(q, 200, Len(jobs) + 1, TRUE)
        /\ UNCHANGED <<Serving, providers, faults>>
-----------------------------------------------------------------------------
(* register_provider and provider_heartbeat. *)

Registered(hotkey) == providers[hotkey] # NoProvider

\* A display name is only taken where there was none.
RegisterRead(q) ==
    /\ At(q, "register")
    /\ \/ ~Registered(Submitter(q)) /\ Goto(q, "create") /\ UNCHANGED replies
       \/ /\ Registered(Submitter(q))
          /\ Op(q).name # Blank /\ providers[Submitter(q)].name = Blank
          /\ Goto(q, "name") /\ UNCHANGED replies
       \/ /\ Registered(Submitter(q))
          /\ Op(q).name = Blank \/ providers[Submitter(q)].name # Blank
          /\ Answer(q, 200, 0, FALSE)
    /\ UNCHANGED <<Serving, rows, faults>>

\* Mutant of RegisterWrite: the hotkey is not unique.
RegisterWriteAgain(q) ==
    /\ At(q, "create")
    /\ Answer(q, 200, 0, TRUE)
    /\ providers' = [providers EXCEPT ![Submitter(q)] = [name |-> Op(q).name]]
    /\ UNCHANGED <<Serving, jobs, faults>>

\* The loser of a race breaks the unique hotkey, which nobody catches.
RegisterWrite(q) ==
    /\ At(q, "create")
    /\ IF Registered(Submitter(q))
       THEN Answer(q, 500, 0, FALSE) /\ UNCHANGED providers
       ELSE /\ Answer(q, 200, 0, TRUE)
            /\ providers' = [providers EXCEPT ![Submitter(q)] = [name |-> Op(q).name]]
    /\ UNCHANGED <<Serving, jobs, faults>>

RegisterName(q) ==
    /\ At(q, "name")
    /\ providers' = [providers EXCEPT ![Submitter(q)].name = Op(q).name]
    /\ Answer(q, 200, 0, FALSE)
    /\ UNCHANGED <<Serving, jobs, faults>>

\* The times that it sets are not kept; nothing suspends or bans a provider.
ProviderHeartbeat(q) ==
    /\ At(q, "heartbeat")
    /\ Answer(q, IF Registered(Submitter(q)) THEN 200 ELSE 404, 0, FALSE)
    /\ UNCHANGED <<Serving, rows, faults>>

Handle(q) ==
    \/ AdmitRead(q) \/ AdmitInsert(q)
    \/ RegisterRead(q) \/ RegisterWrite(q) \/ RegisterName(q)
    \/ ProviderHeartbeat(q)

Next ==
    \/ Tick
    \/ \E c \in Client :
        \/ Sign(c) \/ GiveUp(c)
        \/ \E r \in replies : Hear(c, r)
    \/ \E m \in net : LoseRequest(m) \/ Authenticate(m)
    \/ \E r \in replies : LoseReply(r)
    \/ \E q \in serving : Abort(q) \/ Handle(q)

\* Clients keep asking, the server takes up what arrives and handles it, what is
\* answered is heard; the clock and the faults need not happen.
Fairness ==
    /\ WF_vars(\E c \in Client : Sign(c))
    /\ WF_vars(\E c \in Client, r \in replies : Hear(c, r))
    /\ WF_vars(\E c \in Client : Silent(c) /\ GiveUp(c))
    /\ WF_vars(\E m \in net : Authenticate(m))
    /\ WF_vars(\E q \in serving : Handle(q))

Spec == Init /\ [][Next]_vars
LiveSpec == Spec /\ Fairness
-----------------------------------------------------------------------------
(* Properties. *)

Answers == [status : {200, 401, 404, 422, 500}, id : Nat, created : BOOLEAN]
Serves == [pc : {"admit", "insert", "register", "create", "name", "heartbeat"},
           m : Request]

\* Tables, what is on its way and what handlers and clients are at are well formed,
\* and every job row is one that admit_job lets in.
TypeOK ==
    /\ now \in 0..MaxTime
    /\ net \subseteq Request
    /\ replies \subseteq [client : Client, try : 1..MaxTries, answer : Answers]
    /\ client \in [Client -> [pc : {"ready", "waiting", "done"}, try : 0..MaxTries]]
    /\ \A c \in Client : told[c] \subseteq Answers
    /\ serving \subseteq Serves
    /\ nonces \subseteq Nonce
    /\ \A i \in DOMAIN jobs : Valid(jobs[i].body) /\ jobs[i].body.tee # Blank
    /\ providers \in [Hotkey -> {NoProvider} \cup [name : STRING]]
    /\ faults \in 0..MaxFaults
    /\ accepted \subseteq Request /\ replayed \subseteq accepted

\* However often a signed request is delivered, and although nonces are pruned, it
\* passes authentication once, and never makes two jobs
\* (auth.py:202, "Nonce replay protection").
AppliedOnce ==
    /\ replayed = {}
    /\ \A i, j \in DOMAIN jobs : jobs[i].request = jobs[j].request => i = j

\* Of all that ask for the same provider, or for a job with the same key, at most
\* one is told that it created it, whoever wins the race between read and insert
\* (providers.py:register_provider, jobs.py:admit_job).
CreatedOnce ==
    \A c, d \in Client : \A r \in told[c], s \in told[d] :
        /\ r.created /\ s.created
        /\ Owner[c] = Owner[d] /\ Wish[c].kind = Wish[d].kind
        /\ Wish[c].kind = "admit" => Wish[c].key = Wish[d].key /\ Wish[c].key # NoKey
        => c = d

\* A client that keeps asking is told in the end, although requests and replies are
\* lost or repeated, handlers abort after the nonce is spent and signatures go stale.
EveryoneIsTold == <>(\A c \in Client : client[c].pc = "done")

\* Those who ask for a job under a key, what they were told of it (0 is a
\* refusal), and the job of a slot, 0 while there is none.
Askers == {c \in Client : Wish[c].kind = "admit" /\ Wish[c].key # NoKey}
ToldOf(c) == {IF r.status = 200 THEN r.id ELSE 0 : r \in told[c]}
JobOf(h, k) == IF Named(h, k) = {} THEN 0 ELSE CHOOSE i \in Named(h, k) : TRUE

\* The desk keeps the promise about client_request_id (docs/jobs.md, "Idempotency:
\* client request ids on create"; jobs.py:admit_job).
Promise == INSTANCE DeskPromise WITH
    Slot <- Hotkey \X Key,
    Asker <- Askers,
    SlotOf <- [c \in Askers |-> <<Owner[c], Wish[c].key>>],
    job <- [slot \in Hotkey \X Key |-> JobOf(slot[1], slot[2])],
    told <- [c \in Askers |-> ToldOf(c)]

KeepsPromise == Promise!Spec
=============================================================================
