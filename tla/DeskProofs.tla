----------------------------- MODULE DeskProofs -----------------------------
(***************************************************************************)
(* Theorems about Desk for every number of clients, wishes, tries and       *)
(* faults: a signed request is applied once.  The heart of it is Covered: a  *)
(* request that was accepted is either too old to be accepted again, or its *)
(* nonce is kept until it is, because NonceTtl is at least twice            *)
(* SignatureTtl.  TellInv says what every answer is worth: it gives that    *)
(* one client is told it created the job, and that Desk implements          *)
(* DeskPromise.                                                             *)
(***************************************************************************)
EXTENDS Desk, TLAPS

USE DeskAssumption, NonceOutlivesSignature

ClientType == [pc : {"ready", "waiting", "done"}, try : 0..MaxTries]

TablesTyped ==
    /\ now \in 0..MaxTime
    /\ client \in [Client -> ClientType]
    /\ net \subseteq Request /\ accepted \subseteq Request
    /\ nonces \subseteq Nonce
    /\ serving \subseteq Serves

JobsTyped == jobs \in Seq(Job)

\* A signed request is as old as a try of its client, and there is one per try.
Signed ==
    /\ \A m \in net \cup accepted : m.try <= client[m.client].try
    /\ \A m, n \in net \cup accepted : m.client = n.client /\ m.try = n.try => m = n

TooOld(m) == m.timestamp + SignatureTtl < now
KeptFor(m, n) ==
    n.client = m.client /\ n.try = m.try /\ n.expires_at >= m.timestamp + SignatureTtl

Covered == \A m \in accepted : TooOld(m) \/ \E n \in nonces : KeptFor(m, n)

\* What is handled was accepted, and each is handled by one task.
Served ==
    /\ \A q \in serving : q.m \in accepted
    /\ \A q, r \in serving : q.m = r.m => q = r
    /\ \A q \in serving : q.pc \in {"admit", "insert"} => Op(q) \in Admission

Asked(i, m) == jobs[i].request = <<m.client, m.try>>

\* A job's request was accepted and is handled no more.
Traced ==
    /\ \A i \in DOMAIN jobs : \E m \in accepted : Asked(i, m) /\ \A q \in serving : q.m # m
    /\ \A i, j \in DOMAIN jobs : jobs[i].request = jobs[j].request => i = j

NoReplay == replayed = {}

Inv == TablesTyped /\ JobsTyped /\ Signed /\ Covered /\ Served /\ Traced /\ NoReplay

LEMMA InvInit == Init => Inv
<1> SUFFICES ASSUME Init PROVE Inv
    OBVIOUS
<1>1. PICK group \in Groups :
         client = [c \in Client |-> [pc |-> IF c \in group THEN "ready" ELSE "done", try |-> 0]]
    BY DEF Init
<1>2. TablesTyped
    BY <1>1 DEF Init, TablesTyped, ClientType
<1>3. JobsTyped /\ Signed /\ Covered /\ Served /\ Traced /\ NoReplay
    BY DEF Init, JobsTyped, Signed, Covered, Served, Traced, NoReplay
<1> QED BY <1>2, <1>3 DEF Inv

\* Steps that leave requests, nonces, handlers and jobs alone.
LEMMA Quiet ==
    ASSUME Inv, client' \in [Client -> ClientType],
           \A c \in Client : client'[c].try = client[c].try,
           net' \subseteq net,
           UNCHANGED <<now, accepted, nonces, serving, jobs, replayed>>
    PROVE  Inv'
<1>1. TablesTyped' /\ JobsTyped'
    BY DEF Inv, TablesTyped, JobsTyped
<1>2. \A m \in net \cup accepted : m.client \in Client
    BY DEF Inv, TablesTyped, Request
<1>3. Signed'
    BY <1>2 DEF Inv, Signed
<1>4. Covered' /\ Served' /\ Traced' /\ NoReplay'
    BY DEF Inv, Covered, TooOld, KeptFor, Served, Traced, Asked, NoReplay
<1> QED BY <1>1, <1>3, <1>4 DEF Inv

\* A handler that leaves the jobs alone: it moves on or ends.
LEMMA QuietHandler ==
    ASSUME Inv, NEW q \in serving, NEW pc \in {"insert", "create", "name"},
           \/ serving' = serving \ {q}
           \/ serving' = (serving \ {q}) \cup {[q EXCEPT !.pc = pc]},
           pc = "insert" => At(q, "admit"),
           UNCHANGED <<Serving, jobs>>
    PROVE  Inv'
<1> DEFINE r == [q EXCEPT !.pc = pc]
<1>1. r \in Serves /\ r.m = q.m /\ r.pc = pc
    BY DEF Inv, TablesTyped, Serves
<1>2. TablesTyped' /\ JobsTyped'
    <2>1. serving' \subseteq Serves
        BY <1>1 DEF Inv, TablesTyped
    <2> QED BY <2>1 DEF Inv, TablesTyped, JobsTyped, Serving
<1>3. Signed' /\ Covered' /\ NoReplay'
    BY DEF Inv, Signed, Covered, TooOld, KeptFor, NoReplay, Serving
<1>4. \A s \in serving' : \E t \in serving : s.m = t.m /\ (s = t \/ (s = r /\ t = q))
    BY <1>1
<1>5. \A s \in serving' : s = r \/ (s \in serving /\ s # q)
    OBVIOUS
<1>6. Served'
    <2>1. \A s \in serving' : s.m \in accepted'
        BY <1>4 DEF Inv, Served, Serving
    <2>2. \A s, t \in serving' : s.m = t.m => s = t
        BY <1>1, <1>5 DEF Inv, Served
    <2>3. \A s \in serving' : s.pc \in {"admit", "insert"} => Op(s) \in Admission
        BY <1>1, <1>5 DEF Inv, Served, Op, At
    <2> QED BY <2>1, <2>2, <2>3 DEF Served, Op
<1>7. Traced'
    <2>1. ASSUME NEW i \in DOMAIN jobs
          PROVE  \E m \in accepted : Asked(i, m) /\ \A s \in serving' : s.m # m
        <3>1. PICK m \in accepted : Asked(i, m) /\ \A s \in serving : s.m # m
            BY DEF Inv, Traced
        <3> QED BY <3>1, <1>4
    <2> QED BY <2>1 DEF Inv, Traced, Asked, Serving
<1> QED BY <1>2, <1>3, <1>6, <1>7 DEF Inv

\* Time passes: what is too old stays too old, and nonces are only pruned by use.
LEMMA TickKeeps == Inv /\ Tick => Inv'
<1> SUFFICES ASSUME Inv, Tick PROVE Inv'
    OBVIOUS
<1> USE DEF Tick, rows
<1>1. now' = now + 1 /\ now \in Nat /\ now' \in 0..MaxTime
    BY DEF Inv, TablesTyped
<1>2. TablesTyped' /\ JobsTyped'
    BY <1>1 DEF Inv, TablesTyped, JobsTyped
<1>3. \A m \in accepted : m.timestamp \in Nat
    BY DEF Inv, TablesTyped, Request
<1>4. \A m \in accepted : TooOld(m) => TooOld(m)'
    BY <1>1, <1>3 DEF TooOld
<1>5. Covered'
    BY <1>4 DEF Inv, Covered, KeptFor
<1>6. Signed' /\ Served' /\ Traced' /\ NoReplay'
    BY DEF Inv, Signed, Served, Traced, Asked, NoReplay
<1> QED BY <1>2, <1>5, <1>6 DEF Inv

\* A new signature is the first of its client's new try.
LEMMA SignKeeps == ASSUME Inv, NEW c \in Client, Sign(c) PROVE Inv'
<1> DEFINE try == client[c].try + 1
           new == [client |-> c, try |-> try, timestamp |-> now + Ahead[c]]
<1>1. /\ client' = [client EXCEPT ![c] = [pc |-> "waiting", try |-> try]]
      /\ net' = net \cup {new} /\ try <= MaxTries
      /\ UNCHANGED <<now, accepted, nonces, serving, jobs, replayed>>
    BY DEF Sign, rows
<1>2. client[c].try \in Nat /\ try \in 1..MaxTries
    BY <1>1 DEF Inv, TablesTyped, ClientType
<1>3. now + Ahead[c] \in 0..MaxTime + SignatureTtl
    BY DEF Inv, TablesTyped
<1>4. new \in Request
    BY <1>2, <1>3 DEF Request
<1>5. client' \in [Client -> ClientType]
    <2>1. [pc |-> "waiting", try |-> try] \in ClientType
        BY <1>2 DEF ClientType
    <2> QED BY <1>1, <2>1 DEF Inv, TablesTyped
<1> HIDE DEF new
<1>6. TablesTyped' /\ JobsTyped'
    BY <1>1, <1>4, <1>5 DEF Inv, TablesTyped, JobsTyped
<1>7. /\ \A m \in net \cup accepted : m.client \in Client /\ m.try \in Nat
      /\ \A d \in Client : client[d].try \in Nat
    BY DEF Inv, TablesTyped, Request, ClientType
<1>8. /\ client'[c].try = try
      /\ \A d \in Client : d # c => client'[d] = client[d]
    BY <1>1 DEF Inv, TablesTyped
<1>9. \A m \in net \cup accepted : m.try <= client[m.client].try
    BY DEF Inv, Signed
<1>10. \A m \in net \cup accepted : m.try <= client'[m.client].try
    <2> TAKE m \in net \cup accepted
    <2>1. CASE m.client = c
        BY <1>2, <1>7, <1>8, <1>9, <2>1
    <2>2. CASE m.client # c
        BY <1>7, <1>8, <1>9, <2>2
    <2> QED BY <2>1, <2>2
<1>11. \A m \in net \cup accepted : ~(m.client = new.client /\ m.try = new.try)
    BY <1>2, <1>7, <1>9 DEF new
<1>12. new.try <= client'[new.client].try
    BY <1>2, <1>8 DEF new
<1>13. Signed'
    BY <1>1, <1>10, <1>11, <1>12 DEF Inv, Signed
<1>14. Covered' /\ Served' /\ Traced' /\ NoReplay'
    BY <1>1 DEF Inv, Covered, TooOld, KeptFor, Served, Traced, Asked, NoReplay
<1> QED BY <1>6, <1>13, <1>14 DEF Inv

\* What passes authentication was not accepted before.
LEMMA FreshIsNew ==
    ASSUME Inv, NEW m \in net, Fresh(m), ~Used(m) PROVE m \notin accepted
<1>1. m.timestamp \in Nat /\ now \in Nat
    BY DEF Inv, TablesTyped, Request
<1>2. ~TooOld(m)
    BY <1>1 DEF Fresh, TooOld
<1>3. ASSUME NEW n \in nonces, KeptFor(m, n) PROVE FALSE
    <2>1. n.expires_at \in Nat
        BY DEF Inv, TablesTyped, Nonce
    <2>2. n.expires_at >= now
        BY <1>1, <1>2, <1>3, <2>1 DEF TooOld, KeptFor
    <2> QED BY <1>3, <2>2 DEF Used, Live, KeptFor
<1> QED BY <1>2, <1>3 DEF Inv, Covered

LEMMA AcceptKeeps ==
    ASSUME Inv, NEW m \in net, Fresh(m), ~Used(m), net' \subseteq net,
           nonces' = Live \cup {[client |-> m.client, try |-> m.try, expires_at |-> now + NonceTtl]},
           serving' = serving \cup {[pc |-> Wish[m.client].kind, m |-> m]},
           accepted' = accepted \cup {m},
           replayed' = replayed \cup ({m} \cap accepted),
           UNCHANGED <<now, client, jobs>>
    PROVE  Inv'
<1> DEFINE new == [client |-> m.client, try |-> m.try, expires_at |-> now + NonceTtl]
           task == [pc |-> Wish[m.client].kind, m |-> m]
<1>1. m \in Request /\ m.client \in Client /\ m.timestamp \in Nat /\ now \in Nat
    BY DEF Inv, TablesTyped, Request
<1>2. m \notin accepted
    BY FreshIsNew
<1>3. new \in Nonce
    BY <1>1 DEF Request, Nonce
<1>4. task \in Serves
    <2>1. Wish[m.client] \in Admission \cup Registration \cup Heartbeat
        BY <1>1
    <2>2. Wish[m.client].kind \in {"admit", "register", "heartbeat"}
        BY <2>1 DEF Admission, Registration, Heartbeat
    <2> QED BY <1>1, <2>2 DEF Serves
<1>5. KeptFor(m, new)
    BY <1>1 DEF KeptFor, Fresh
<1> HIDE DEF new, task
<1>6. TablesTyped' /\ JobsTyped'
    <2>1. Live \subseteq nonces
        BY DEF Live
    <2> QED BY <1>1, <1>3, <1>4, <2>1 DEF Inv, TablesTyped, JobsTyped, new, task
<1>7. Signed'
    BY DEF Inv, Signed
<1>8. Covered'
    <2>1. ASSUME NEW n \in accepted PROVE TooOld(n)' \/ \E k \in nonces' : KeptFor(n, k)
        <3>1. CASE TooOld(n)
            BY <3>1 DEF TooOld
        <3>2. CASE ~TooOld(n)
            <4>1. PICK k \in nonces : KeptFor(n, k)
                BY <3>2, <2>1 DEF Inv, Covered
            <4>2. k.expires_at \in Nat /\ n.timestamp \in Nat
                BY DEF Inv, TablesTyped, Nonce, Request
            <4>3. k \in Live
                BY <1>1, <3>2, <4>1, <4>2 DEF Live, KeptFor, TooOld
            <4> QED BY <4>1, <4>3
        <3> QED BY <3>1, <3>2
    <2>2. \E k \in nonces' : KeptFor(m, k)
        BY <1>5 DEF new
    <2> QED BY <2>1, <2>2 DEF Covered, KeptFor
<1>9. task.m = m
    BY DEF task
<1>10. serving' = serving \cup {task}
    BY DEF task
<1>11. \A q \in serving : q.m # m
    BY <1>2 DEF Inv, Served
<1>12. Served'
    <2>1. task.pc \in {"admit", "insert"} => Op(task) \in Admission
        BY <1>1 DEF task, Op, Admission, Registration, Heartbeat
    <2> QED BY <1>9, <1>10, <1>11, <2>1 DEF Inv, Served, Op
<1>13. Traced'
    <2>1. ASSUME NEW i \in DOMAIN jobs
          PROVE  \E n \in accepted' : Asked(i, n) /\ \A q \in serving' : q.m # n
        <3>1. PICK n \in accepted : Asked(i, n) /\ \A q \in serving : q.m # n
            BY DEF Inv, Traced
        <3> QED BY <3>1, <1>2, <1>9, <1>10
    <2> QED BY <2>1 DEF Inv, Traced, Asked
<1>14. NoReplay'
    BY <1>2 DEF Inv, NoReplay
<1> QED BY <1>6, <1>7, <1>8, <1>12, <1>13, <1>14 DEF Inv

LEMMA AuthenticateKeeps == ASSUME Inv, NEW m \in net, Authenticate(m) PROVE Inv'
<1>0. net' \subseteq net /\ UNCHANGED <<now, client, jobs>>
    BY DEF Authenticate, Fault, rows
<1>1. CASE Fresh(m) /\ ~Used(m)
    <2>1. /\ nonces' = Live \cup {[client |-> m.client, try |-> m.try, expires_at |-> now + NonceTtl]}
          /\ serving' = serving \cup {[pc |-> Wish[m.client].kind, m |-> m]}
          /\ accepted' = accepted \cup {m}
          /\ replayed' = replayed \cup ({m} \cap accepted)
        BY <1>1 DEF Authenticate
    <2> QED BY <1>0, <1>1, <2>1, AcceptKeeps
<1>2. CASE ~(Fresh(m) /\ ~Used(m))
    <2>1. UNCHANGED <<accepted, nonces, serving, replayed>>
        BY <1>2 DEF Authenticate
    <2>2. client' \in [Client -> ClientType]
        BY <1>0 DEF Inv, TablesTyped
    <2> QED BY <1>0, <2>1, <2>2, Quiet
<1> QED BY <1>1, <1>2

\* The row that is inserted has the request of the task that inserts it, which
\* ends, and which made no row before.
LEMMA InsertKeeps ==
    ASSUME Inv, NEW q \in serving, At(q, "insert"), Op(q) \in Admission,
           serving' = serving \ {q}, jobs' = Append(jobs, Row(q)), UNCHANGED Serving
    PROVE  Inv'
<1>1. q \in Serves /\ q.m \in Request /\ q.m \in accepted /\ q.m.client \in Client
    BY DEF Inv, TablesTyped, Served, Serves, Request
<1>2. jobs \in Seq(Job)
    BY DEF Inv, JobsTyped
<1>3. Row(q) \in Job /\ Row(q).request = <<q.m.client, q.m.try>>
    <2>1. Op(q).key \in Key \cup {NoKey} /\ Op(q).body \in Body
        BY DEF Op, Admission
    <2>2. [Op(q).body EXCEPT !.tee = normalize_enum(@)] \in Body
        <3> DEFINE b == Op(q).body
                   t == normalize_enum(b.tee)
        <3>1. b \in Body
            BY <2>1
        <3> HIDE DEF b
        <3>2. t \in TeeMode \cup {Blank, "unknown"}
            BY <3>1 DEF Body, normalize_enum, TeeMode
        <3> HIDE DEF t
        <3>3. [b EXCEPT !.tee = t] \in Body
            BY <3>1, <3>2 DEF Body
        <3> QED BY <3>3 DEF b, t
    <2>3. Submitter(q) \in Hotkey /\ <<q.m.client, q.m.try>> \in Client \X (1..MaxTries)
        BY <1>1 DEF Submitter, Request
    <2> QED BY <2>1, <2>2, <2>3 DEF Row, Job
<1>4. /\ jobs' \in Seq(Job) /\ DOMAIN jobs' = 1..Len(jobs) + 1 /\ DOMAIN jobs = 1..Len(jobs)
      /\ \A i \in DOMAIN jobs : jobs'[i] = jobs[i]
      /\ jobs'[Len(jobs) + 1] = Row(q) /\ Len(jobs) \in Nat
    BY <1>2, <1>3
<1>5. TablesTyped' /\ JobsTyped'
    BY <1>4 DEF Inv, TablesTyped, JobsTyped, Serving
<1>6. Signed' /\ Covered' /\ NoReplay' /\ Served'
    BY DEF Inv, Signed, Covered, TooOld, KeptFor, NoReplay, Served, Serving
<1>7. ASSUME NEW i \in DOMAIN jobs'
      PROVE  \E m \in accepted' : Asked(i, m)' /\ \A r \in serving' : r.m # m
    <2>1. CASE i \in DOMAIN jobs
        <3>1. PICK m \in accepted : Asked(i, m) /\ \A r \in serving : r.m # m
            BY <2>1 DEF Inv, Traced
        <3> QED BY <2>1, <3>1, <1>4 DEF Asked, Serving
    <2>2. CASE i = Len(jobs) + 1
        <3>1. \A r \in serving' : r.m # q.m
            BY DEF Inv, Served
        <3> QED BY <1>1, <1>3, <1>4, <2>2, <3>1 DEF Asked, Serving
    <2> QED BY <2>1, <2>2, <1>4
<1>8. \A i \in DOMAIN jobs : jobs[i].request # Row(q).request
    <2> SUFFICES ASSUME NEW i \in DOMAIN jobs, jobs[i].request = Row(q).request PROVE FALSE
        OBVIOUS
    <2>1. PICK m \in accepted : Asked(i, m) /\ \A r \in serving : r.m # m
        BY DEF Inv, Traced
    <2>2. m.client = q.m.client /\ m.try = q.m.try
        BY <1>3, <2>1 DEF Asked
    <2>3. m = q.m
        BY <1>1, <2>2 DEF Inv, Signed
    <2> QED BY <2>1, <2>3
<1>9. \A i, j \in DOMAIN jobs' : jobs'[i].request = jobs'[j].request => i = j
    <2>1. \A i, j \in DOMAIN jobs : jobs[i].request = jobs[j].request => i = j
        BY DEF Inv, Traced
    <2> QED BY <1>4, <1>8, <2>1
<1>10. Traced'
    BY <1>7, <1>9 DEF Traced
<1> QED BY <1>5, <1>6, <1>10 DEF Inv

LEMMA HandleKeeps == ASSUME Inv, NEW q \in serving, Handle(q) \/ Abort(q) PROVE Inv'
<1> USE DEF Answer, Goto, rows
<1>1. CASE AdmitRead(q)
    <2>1. UNCHANGED <<Serving, jobs>>
        BY <1>1 DEF AdmitRead
    <2>2. serving' = serving \ {q} \/ serving' = (serving \ {q}) \cup {[q EXCEPT !.pc = "insert"]}
        BY <1>1 DEF AdmitRead
    <2>3. At(q, "admit")
        BY <1>1 DEF AdmitRead
    <2> QED BY <2>1, <2>2, <2>3, QuietHandler
<1>2. CASE AdmitInsert(q)
    <2>1. CASE serving' = serving \ {q} /\ UNCHANGED <<Serving, jobs>>
        BY <2>1, QuietHandler
    <2>2. CASE jobs' = Append(jobs, Row(q))
        <3>1. Op(q) \in Admission
            BY <1>2 DEF AdmitInsert, Inv, Served, At
        <3> QED BY <1>2, <2>2, <3>1, InsertKeeps DEF AdmitInsert
    <2> QED BY <1>2, <2>1, <2>2 DEF AdmitInsert
<1>3. CASE RegisterRead(q)
    <2>1. UNCHANGED <<Serving, jobs>>
        BY <1>3 DEF RegisterRead
    <2>2. \/ serving' = serving \ {q}
          \/ serving' = (serving \ {q}) \cup {[q EXCEPT !.pc = "create"]}
          \/ serving' = (serving \ {q}) \cup {[q EXCEPT !.pc = "name"]}
        BY <1>3 DEF RegisterRead
    <2> QED BY <2>1, <2>2, QuietHandler
<1>4. CASE RegisterWrite(q) \/ RegisterName(q) \/ ProviderHeartbeat(q) \/ Abort(q)
    <2>1. serving' = serving \ {q} /\ UNCHANGED <<Serving, jobs>>
        BY <1>4 DEF RegisterWrite, RegisterName, ProviderHeartbeat, Abort
    <2> QED BY <2>1, QuietHandler
<1> QED BY <1>1, <1>2, <1>3, <1>4 DEF Handle

LEMMA ClientKeeps ==
    ASSUME Inv, NEW c \in Client, GiveUp(c) \/ \E r \in replies : Hear(c, r)
    PROVE  Inv'
<1>1. client \in [Client -> ClientType]
    BY DEF Inv, TablesTyped
<1>2. UNCHANGED <<now, net, accepted, nonces, serving, jobs, replayed>>
    BY DEF GiveUp, Hear, rows
<1>3. \E pc \in {"ready", "done"} : client' = [client EXCEPT ![c].pc = pc]
    BY DEF GiveUp, Hear
<1>4. PICK pc \in {"ready", "done"} : client' = [client EXCEPT ![c].pc = pc]
    BY <1>3
<1>5. /\ client' \in [Client -> ClientType]
      /\ \A d \in Client : client'[d].try = client[d].try
    BY <1>1, <1>4 DEF ClientType
<1> QED BY <1>2, <1>5, Quiet

LEMMA InvNext == Inv /\ [Next]_vars => Inv'
<1> SUFFICES ASSUME Inv, [Next]_vars PROVE Inv'
    OBVIOUS
<1>1. CASE Tick
    BY <1>1, TickKeeps
<1>2. ASSUME NEW c \in Client, Sign(c) PROVE Inv'
    BY <1>2, SignKeeps
<1>3. ASSUME NEW c \in Client, GiveUp(c) \/ \E r \in replies : Hear(c, r) PROVE Inv'
    BY <1>3, ClientKeeps
<1>4. ASSUME NEW m \in net, Authenticate(m) PROVE Inv'
    BY <1>4, AuthenticateKeeps
<1>5. ASSUME NEW q \in serving, Abort(q) \/ Handle(q) PROVE Inv'
    BY <1>5, HandleKeeps
<1>6. ASSUME NEW m, LoseRequest(m) \/ LoseReply(m) \/ UNCHANGED vars PROVE Inv'
    <2>1. client' \in [Client -> ClientType]
        BY <1>6 DEF LoseRequest, LoseReply, vars, Inv, TablesTyped
    <2>2. client' = client /\ net' \subseteq net
        BY <1>6 DEF LoseRequest, LoseReply, vars
    <2>3. UNCHANGED <<now, accepted, nonces, serving, jobs, replayed>>
        BY <1>6 DEF LoseRequest, LoseReply, vars, rows
    <2> QED BY <2>1, <2>2, <2>3, Quiet
<1> QED BY <1>1, <1>2, <1>3, <1>4, <1>5, <1>6 DEF Next

\* Whatever is delivered twice, delayed or retried, a signed request passes
\* authentication once and makes at most one job (auth.py:authenticate_miner).
THEOREM AppliedOnceAlways == Spec => []AppliedOnce
<1>1. Init => Inv
    BY InvInit
<1>2. Inv /\ [Next]_vars => Inv'
    BY InvNext
<1>3. Inv => AppliedOnce
    BY DEF Inv, NoReplay, Traced, AppliedOnce
<1> QED BY <1>1, <1>2, <1>3, PTL DEF Spec
-----------------------------------------------------------------------------
(* What clients are told.  An answer that names a job or claims a creation is *)
(* right about the tables when it is given (Right), and stays right since rows *)
(* are only added.                                                            *)

\* What a client was told or may still hear.
Ans(c) == told[c] \cup {r.answer : r \in {x \in replies : x.client = c}}

\* It names the job of the client's key.
NamesJob(c, a) == a.status = 200 /\ Wish[c].key # NoKey => a.id \in Named(Owner[c], Wish[c].key)

\* It claims a job that this client made.
MadeJob(c, a) ==
    a.created => /\ a.status = 200 /\ a.id \in DOMAIN jobs
                 /\ \E n \in 1..MaxTries : jobs[a.id].request = <<c, n>>

Right(c, a) ==
    /\ Wish[c].kind = "admit" => NamesJob(c, a) /\ MadeJob(c, a)
    /\ Wish[c].kind = "register" /\ a.created => Registered(Owner[c])
    /\ Wish[c].kind = "heartbeat" => ~a.created

AnswersRight == \A c \in Client : \A a \in Ans(c) : Right(c, a)

OneCreates ==
    \A c, d \in Client : \A a \in Ans(c), b \in Ans(d) :
        a.created /\ b.created /\ Wish[c].kind = "register" /\ Wish[d].kind = "register"
        /\ Owner[c] = Owner[d] => c = d

\* A key names one job.
OneName ==
    \A i, j \in DOMAIN jobs :
        jobs[i].key # NoKey /\ jobs[i].hotkey = jobs[j].hotkey /\ jobs[i].key = jobs[j].key => i = j

\* A handler is at the code of what its client asks for.
InPlace ==
    \A q \in serving :
        /\ q.pc \in {"admit", "insert"} => Op(q).kind = "admit"
        /\ q.pc \in {"register", "create", "name"} => Op(q).kind = "register"
        /\ q.pc = "heartbeat" => Op(q).kind = "heartbeat"
        /\ q.pc = "name" => Registered(Submitter(q))

AnswersTyped ==
    /\ replies \subseteq [client : Client, try : 1..MaxTries, answer : Answers]
    /\ told \in [Client -> SUBSET Answers]
    /\ \A c \in Client : client[c].pc # "done" => told[c] = {}
    /\ providers \in [Hotkey -> {NoProvider} \cup [name : STRING]]

TellInv == AnswersTyped /\ AnswersRight /\ OneCreates /\ OneName /\ InPlace

LEMMA TellInit == Init => TellInv
<1> SUFFICES ASSUME Init PROVE TellInv
    OBVIOUS
<1>1. /\ replies = {} /\ serving = {} /\ jobs = << >>
      /\ told = [c \in Client |-> {}]
      /\ providers = [h \in Hotkey |-> NoProvider]
    BY DEF Init
<1>2. \A c \in Client : Ans(c) = {}
    BY <1>1 DEF Ans
<1> QED BY <1>1, <1>2 DEF TellInv, AnswersTyped, AnswersRight, OneCreates, OneName, InPlace

\* Rows are only added.
Grows ==
    /\ DOMAIN jobs \subseteq DOMAIN jobs'
    /\ \A i \in DOMAIN jobs : jobs'[i] = jobs[i]
    /\ \A h \in Hotkey : Registered(h) => Registered(h)'

LEMMA RightStays ==
    ASSUME Grows, NEW c \in Client, NEW a, Right(c, a) PROVE Right(c, a)'
<1>1. \A h, k : Named(h, k) \subseteq Named(h, k)'
    BY DEF Grows, Named
<1>2. Owner[c] \in Hotkey
    OBVIOUS
<1> QED BY <1>1, <1>2 DEF Grows, Right, NamesJob, MadeJob

LEMMA Unanswered ==
    ASSUME TellInv, Grows, \A c \in Client : Ans(c)' \subseteq Ans(c)
    PROVE  AnswersRight' /\ OneCreates'
<1>1. AnswersRight'
    BY RightStays DEF TellInv, AnswersRight
<1>2. OneCreates'
    BY DEF TellInv, OneCreates
<1> QED BY <1>1, <1>2

\* One client gets one more answer, which is right, and tells of a provider's
\* creation only if there was none.
LEMMA Answered ==
    ASSUME TellInv, Grows, NEW e \in Client, NEW x,
           \A c \in Client : \A a \in Ans(c)' : a \in Ans(c) \/ (c = e /\ a = x),
           Right(e, x)',
           x.created /\ Wish[e].kind = "register" => ~Registered(Owner[e])
    PROVE  AnswersRight' /\ OneCreates'
<1>1. AnswersRight'
    BY RightStays DEF TellInv, AnswersRight
<1>2. ASSUME NEW c \in Client, NEW d \in Client, NEW a \in Ans(c)', NEW b \in Ans(d)',
             a.created, b.created, Wish[c].kind = "register", Wish[d].kind = "register",
             Owner[c] = Owner[d]
      PROVE  c = d
    <2>1. CASE a \in Ans(c) /\ b \in Ans(d)
        BY <1>2, <2>1 DEF TellInv, OneCreates
    <2>2. CASE a \notin Ans(c) /\ b \in Ans(d)
        <3>1. c = e /\ a = x
            BY <2>2
        <3>2. Right(d, b)
            BY <2>2 DEF TellInv, AnswersRight
        <3> QED BY <1>2, <3>1, <3>2 DEF Right
    <2>3. CASE a \in Ans(c) /\ b \notin Ans(d)
        <3>1. d = e /\ b = x
            BY <2>3
        <3>2. Right(c, a)
            BY <2>3 DEF TellInv, AnswersRight
        <3> QED BY <1>2, <3>1, <3>2 DEF Right
    <2>4. CASE a \notin Ans(c) /\ b \notin Ans(d)
        BY <2>4
    <2> QED BY <2>1, <2>2, <2>3, <2>4
<1>3. OneCreates'
    BY <1>2 DEF OneCreates
<1> QED BY <1>1, <1>3

\* What Reply adds.
LEMMA ReplyAdds ==
    ASSUME Inv, TellInv, NEW m \in Request, NEW x \in Answers,
           Reply(m, x.status, x.id, x.created), UNCHANGED told
    PROVE  /\ replies' \subseteq [client : Client, try : 1..MaxTries, answer : Answers]
           /\ \A c \in Client : \A a \in Ans(c)' : a \in Ans(c) \/ (c = m.client /\ a = x)
<1> DEFINE new == [client |-> m.client, try |-> m.try, answer |-> x]
<1>1. new \in [client : Client, try : 1..MaxTries, answer : Answers]
    BY DEF Request
<1>2. new.client = m.client /\ new.answer = x
    OBVIOUS
<1>3. x = [status |-> x.status, id |-> x.id, created |-> x.created]
    BY DEF Answers
<1>4. \A r \in replies' : r \in replies \/ r = new
    BY <1>3 DEF Reply
<1> HIDE DEF new
<1>5. replies' \subseteq [client : Client, try : 1..MaxTries, answer : Answers]
    BY <1>1, <1>4 DEF TellInv, AnswersTyped
<1>6. \A c \in Client : \A a \in Ans(c)' : a \in Ans(c) \/ (c = m.client /\ a = x)
    BY <1>2, <1>4 DEF Ans
<1> QED BY <1>5, <1>6

\* A handler that ends with an answer, which is right.
Gives(q, x) ==
    /\ Answer(q, x.status, x.id, x.created)
    /\ Right(q.m.client, x)'
    /\ x.created /\ Op(q).kind = "register" => ~Registered(Submitter(q))

Tables ==
    /\ UNCHANGED <<told, client>>
    /\ Grows /\ OneName'
    /\ providers' \in [Hotkey -> {NoProvider} \cup [name : STRING]]

LEMMA AnswerTells ==
    ASSUME Inv, TellInv, NEW q \in serving, NEW x \in Answers, Gives(q, x), Tables PROVE TellInv'
<1> USE DEF Gives, Tables
<1>1. q.m \in Request /\ q.m.client \in Client
    BY DEF Inv, TablesTyped, Serves, Request
<1>2. /\ replies' \subseteq [client : Client, try : 1..MaxTries, answer : Answers]
      /\ \A c \in Client : \A a \in Ans(c)' : a \in Ans(c) \/ (c = q.m.client /\ a = x)
    BY <1>1, ReplyAdds DEF Answer
<1>3. x.created /\ Wish[q.m.client].kind = "register" => ~Registered(Owner[q.m.client])
    BY DEF Op, Submitter
<1>4. AnswersRight' /\ OneCreates'
    BY <1>1, <1>2, <1>3, Answered
<1>5. InPlace'
    <2>1. \A t \in serving : Submitter(t) \in Hotkey
        BY DEF Submitter, Inv, TablesTyped, Serves, Request
    <2> QED BY <2>1 DEF TellInv, InPlace, Answer, Op, Grows, Submitter
<1>6. AnswersTyped'
    BY <1>2 DEF TellInv, AnswersTyped
<1> QED BY <1>4, <1>5, <1>6 DEF TellInv

LEMMA NoChange == TellInv /\ UNCHANGED <<told, client, jobs, providers>> => Tables
BY DEF Tables, Grows, Registered, TellInv, OneName, AnswersTyped

\* A handler that goes on or is aborted.
LEMMA MoveTells ==
    ASSUME Inv, TellInv, NEW q \in serving, NEW pc \in {"insert", "create", "name"},
           \/ serving' = serving \ {q}
           \/ Goto(q, pc),
           pc = "insert" => At(q, "admit"), pc # "insert" => At(q, "register"),
           pc = "name" => Registered(Submitter(q)),
           UNCHANGED <<told, client, replies, jobs, providers>>
    PROVE  TellInv'
<1> DEFINE r == [q EXCEPT !.pc = pc]
<1>1. r.m = q.m /\ r.pc = pc
    BY DEF Inv, TablesTyped, Serves
<1>2. \A t \in serving' : t \in serving \/ t = r
    BY DEF Goto
<1> HIDE DEF r
<1>3. InPlace'
    BY <1>1, <1>2 DEF TellInv, InPlace, At, Op, Submitter, Registered
<1>4. AnswersRight' /\ OneCreates'
    BY Unanswered DEF Grows, Ans, Registered
<1> QED BY <1>3, <1>4 DEF TellInv, AnswersTyped, OneName

\* The known job of a request is the one that its key names.
LEMMA KnownTells ==
    ASSUME Inv, TellInv, NEW q \in serving, Op(q).kind = "admit",
           NEW i \in Named(Submitter(q), Op(q).key), Answer(q, 200, i, FALSE),
           UNCHANGED <<told, client, jobs, providers>>
    PROVE  TellInv'
<1> DEFINE x == [status |-> 200, id |-> i, created |-> FALSE]
<1>1. i \in Nat
    BY DEF Inv, JobsTyped, Named
<1>2. x \in Answers /\ x.status = 200 /\ x.id = i /\ ~x.created
    BY <1>1 DEF Answers
<1>3. Answer(q, x.status, x.id, x.created)
    OBVIOUS
<1> HIDE DEF x
<1>4. Gives(q, x)
    BY <1>2, <1>3 DEF Gives, Right, NamesJob, MadeJob, Op, Submitter, Named
<1>5. Tables
    BY NoChange
<1> QED BY <1>2, <1>4, <1>5, AnswerTells

LEMMA AdmitReadTells == ASSUME Inv, TellInv, NEW q \in serving, AdmitRead(q) PROVE TellInv'
<1>1. At(q, "admit") /\ UNCHANGED <<told, client, jobs, providers>>
    BY DEF AdmitRead, Serving, rows
<1>2. Op(q).kind = "admit"
    BY <1>1 DEF TellInv, InPlace, At
<1>3. CASE \E i \in Named(Submitter(q), Op(q).key) : Answer(q, 200, i, FALSE)
    BY <1>1, <1>2, <1>3, KnownTells
<1>4. CASE Answer(q, 422, 0, FALSE)
    <2> DEFINE x == [status |-> 422, id |-> 0, created |-> FALSE]
    <2>1. x \in Answers /\ x.status = 422 /\ ~x.created
        BY DEF Answers
    <2>2. Answer(q, x.status, x.id, x.created)
        BY <1>4
    <2> HIDE DEF x
    <2>3. Gives(q, x)
        BY <2>1, <2>2 DEF Gives, Right, NamesJob, MadeJob
    <2> QED BY <1>1, <2>1, <2>3, NoChange, AnswerTells
<1>5. CASE Goto(q, "insert") /\ UNCHANGED replies
    BY <1>1, <1>5, MoveTells
<1> QED BY <1>3, <1>4, <1>5 DEF AdmitRead

\* The appended row is the only one that its key names.
Inserts(q) ==
    /\ Op(q).kind = "admit"
    /\ Named(Submitter(q), Op(q).key) = {}
    /\ jobs' = Append(jobs, Row(q))
    /\ Answer(q, 200, Len(jobs) + 1, TRUE)
    /\ UNCHANGED <<told, client, providers>>

LEMMA InsertTells == ASSUME Inv, TellInv, NEW q \in serving, Inserts(q) PROVE TellInv'
<1>0. PICK n \in Nat : n = Len(jobs) + 1
    BY DEF Inv, JobsTyped
<1> DEFINE x == [status |-> 200, id |-> n, created |-> TRUE]
<1>1. q.m.client \in Client /\ q.m.try \in 1..MaxTries
    BY DEF Inv, TablesTyped, Serves, Request
<1>2. /\ n \in Nat /\ DOMAIN jobs' = DOMAIN jobs \cup {n} /\ n \notin DOMAIN jobs
      /\ \A i \in DOMAIN jobs : jobs'[i] = jobs[i]
      /\ jobs'[n] = Row(q)
    BY <1>0 DEF Inv, JobsTyped, Inserts
<1>3. /\ Row(q).hotkey = Owner[q.m.client] /\ Row(q).key = Wish[q.m.client].key
      /\ Row(q).request = <<q.m.client, q.m.try>>
    BY DEF Row, Op, Submitter
<1>4. x \in Answers /\ x.status = 200 /\ x.id = n
    BY <1>2 DEF Answers
<1>5. Answer(q, x.status, x.id, x.created)
    BY <1>0 DEF Inserts
<1> HIDE DEF x
<1>6. Grows
    BY <1>2 DEF Grows, Registered, Inserts
<1>7. \A i \in DOMAIN jobs : jobs[i].key # NoKey =>
          ~(jobs[i].hotkey = Row(q).hotkey /\ jobs[i].key = Row(q).key)
    BY <1>3 DEF Named, Inserts, Op, Submitter
<1>8. OneName'
    BY <1>2, <1>7 DEF TellInv, OneName
<1>9. Wish[q.m.client].kind = "admit"
    BY DEF Inserts, Op
<1>10. /\ n \in DOMAIN jobs'
       /\ jobs'[n].hotkey = Owner[q.m.client] /\ jobs'[n].key = Wish[q.m.client].key
       /\ \E k \in 1..MaxTries : jobs'[n].request = <<q.m.client, k>>
    BY <1>1, <1>2, <1>3
<1>11. Right(q.m.client, x)'
    <2>1. NamesJob(q.m.client, x)'
        BY <1>4, <1>10 DEF NamesJob, Named
    <2>2. MadeJob(q.m.client, x)'
        BY <1>4, <1>10 DEF MadeJob
    <2> QED BY <1>9, <2>1, <2>2 DEF Right
<1>12. Gives(q, x)
    BY <1>5, <1>9, <1>11 DEF Gives, Op
<1>13. Tables
    BY <1>6, <1>8 DEF Tables, TellInv, AnswersTyped, Inserts
<1> QED BY <1>4, <1>12, <1>13, AnswerTells

LEMMA AdmitInsertTells == ASSUME Inv, TellInv, NEW q \in serving, AdmitInsert(q) PROVE TellInv'
<1>1. At(q, "insert") /\ UNCHANGED <<told, client, providers>>
    BY DEF AdmitInsert, Serving
<1>2. Op(q).kind = "admit"
    BY <1>1 DEF TellInv, InPlace, At
<1>3. CASE (\E i \in Named(Submitter(q), Op(q).key) : Answer(q, 200, i, FALSE)) /\ UNCHANGED jobs
    BY <1>1, <1>2, <1>3, KnownTells
<1>4. CASE /\ Named(Submitter(q), Op(q).key) = {}
           /\ jobs' = Append(jobs, Row(q)) /\ Answer(q, 200, Len(jobs) + 1, TRUE)
    BY <1>1, <1>2, <1>4, InsertTells DEF Inserts
<1> QED BY <1>3, <1>4 DEF AdmitInsert

\* An answer that neither names a job nor claims a creation.
LEMMA PlainTells ==
    ASSUME Inv, TellInv, NEW q \in serving, Op(q).kind # "admit", Tables,
           NEW x \in Answers, Answer(q, x.status, x.id, x.created), ~x.created
    PROVE  TellInv'
<1>1. Gives(q, x)
    BY DEF Gives, Right, Op
<1> QED BY <1>1, AnswerTells

LEMMA RegisterReadTells == ASSUME Inv, TellInv, NEW q \in serving, RegisterRead(q) PROVE TellInv'
<1>1. At(q, "register") /\ UNCHANGED <<told, client, jobs, providers>>
    BY DEF RegisterRead, Serving, rows
<1>2. CASE Goto(q, "create") /\ UNCHANGED replies
    BY <1>1, <1>2, MoveTells
<1>3. CASE Registered(Submitter(q)) /\ Goto(q, "name") /\ UNCHANGED replies
    BY <1>1, <1>3, MoveTells
<1>4. CASE Answer(q, 200, 0, FALSE)
    <2> DEFINE x == [status |-> 200, id |-> 0, created |-> FALSE]
    <2>1. x \in Answers /\ ~x.created /\ Answer(q, x.status, x.id, x.created)
        BY <1>4 DEF Answers
    <2> HIDE DEF x
    <2>2. Op(q).kind # "admit"
        BY <1>1 DEF TellInv, InPlace, At
    <2> QED BY <1>1, <2>1, <2>2, NoChange, PlainTells
<1> QED BY <1>2, <1>3, <1>4 DEF RegisterRead

\* The winner of the unique hotkey is the only one who is told of a creation.
LEMMA RegisterWriteTells == ASSUME Inv, TellInv, NEW q \in serving, RegisterWrite(q) PROVE TellInv'
<1>1. At(q, "create") /\ UNCHANGED <<told, client, jobs>>
    BY DEF RegisterWrite, Serving
<1>2. Op(q).kind = "register"
    BY <1>1 DEF TellInv, InPlace, At
<1>3. q.m.client \in Client /\ Submitter(q) = Owner[q.m.client] /\ Submitter(q) \in Hotkey
    BY DEF Inv, TablesTyped, Serves, Request, Submitter
<1>4. CASE Registered(Submitter(q))
    <2> DEFINE x == [status |-> 500, id |-> 0, created |-> FALSE]
    <2>1. Answer(q, 500, 0, FALSE) /\ UNCHANGED providers
        BY <1>4 DEF RegisterWrite
    <2>2. x \in Answers /\ ~x.created
        BY DEF Answers
    <2>3. Answer(q, x.status, x.id, x.created)
        BY <2>1
    <2> HIDE DEF x
    <2>4. Op(q).kind # "admit"
        BY <1>2
    <2> QED BY <1>1, <2>1, <2>2, <2>3, <2>4, NoChange, PlainTells
<1>5. CASE ~Registered(Submitter(q))
    <2> DEFINE x == [status |-> 200, id |-> 0, created |-> TRUE]
               p == [name |-> Op(q).name]
    <2>1. Answer(q, 200, 0, TRUE) /\ providers' = [providers EXCEPT ![Submitter(q)] = p]
        BY <1>5 DEF RegisterWrite
    <2>2. x \in Answers /\ x.status = 200 /\ x.created /\ Answer(q, x.status, x.id, x.created)
        BY <2>1 DEF Answers
    <2>3. Op(q) \in Registration
        BY <1>2, <1>3 DEF Op, Admission, Heartbeat
    <2>4. p \in [name : STRING] /\ p # NoProvider
        BY <2>3 DEF Registration, NoProvider
    <2> HIDE DEF x, p
    <2>5. providers \in [Hotkey -> {NoProvider} \cup [name : STRING]]
        BY DEF TellInv, AnswersTyped
    <2>6. /\ providers' \in [Hotkey -> {NoProvider} \cup [name : STRING]]
          /\ providers'[Submitter(q)] = p
          /\ \A h \in Hotkey : h # Submitter(q) => providers'[h] = providers[h]
        BY <1>3, <2>1, <2>4, <2>5
    <2>7. Tables
        BY <1>1, <1>5, <2>6 DEF Tables, Grows, Registered, TellInv, OneName
    <2>8. Right(q.m.client, x)'
        BY <1>2, <1>3, <2>4, <2>6 DEF Right, Op, Registered
    <2>9. Gives(q, x)
        BY <1>5, <2>2, <2>8 DEF Gives
    <2> QED BY <2>2, <2>7, <2>9, AnswerTells
<1> QED BY <1>4, <1>5

LEMMA RegisterNameTells == ASSUME Inv, TellInv, NEW q \in serving, RegisterName(q) PROVE TellInv'
<1> DEFINE x == [status |-> 200, id |-> 0, created |-> FALSE]
           h == Submitter(q)
<1>1. At(q, "name") /\ UNCHANGED <<told, client, jobs>>
    BY DEF RegisterName, Serving
<1>2. Op(q).kind = "register" /\ Registered(h)
    BY <1>1 DEF TellInv, InPlace, At
<1>3. q.m.client \in Client /\ h \in Hotkey
    BY DEF Inv, TablesTyped, Serves, Request, Submitter
<1>4. x \in Answers /\ ~x.created /\ Answer(q, x.status, x.id, x.created)
    BY DEF Answers, RegisterName
<1> HIDE DEF x
<1>5. Op(q).name \in STRING
    BY <1>2, <1>3 DEF Op, Admission, Heartbeat, Registration
<1>6. providers \in [Hotkey -> {NoProvider} \cup [name : STRING]]
    BY DEF TellInv, AnswersTyped
<1>7. providers[h] \in [name : STRING]
    BY <1>2, <1>3, <1>6 DEF Registered
<1>8. [providers[h] EXCEPT !.name = Op(q).name] \in [name : STRING]
    BY <1>5, <1>7
<1>9. providers' = [providers EXCEPT ![h] = [providers[h] EXCEPT !.name = Op(q).name]]
    BY <1>3, <1>6 DEF RegisterName
<1> DEFINE p == [providers[h] EXCEPT !.name = Op(q).name]
<1> HIDE DEF h, p
<1>10. /\ providers' \in [Hotkey -> {NoProvider} \cup [name : STRING]]
       /\ providers'[h] = p
       /\ \A g \in Hotkey : g # h => providers'[g] = providers[g]
    BY <1>3, <1>6, <1>8, <1>9 DEF p
<1>11. p # NoProvider
    BY <1>8 DEF p, NoProvider
<1>12. Tables
    BY <1>1, <1>10, <1>11 DEF Tables, Grows, Registered, TellInv, OneName
<1>13. Op(q).kind # "admit"
    BY <1>2
<1> QED BY <1>4, <1>12, <1>13, PlainTells

LEMMA HeartbeatTells == ASSUME Inv, TellInv, NEW q \in serving, ProviderHeartbeat(q) PROVE TellInv'
<1>1. At(q, "heartbeat") /\ UNCHANGED <<told, client, jobs, providers>>
    BY DEF ProviderHeartbeat, Serving, rows
<1>2. PICK k \in {200, 404} : Answer(q, k, 0, FALSE)
    BY DEF ProviderHeartbeat
<1> DEFINE x == [status |-> k, id |-> 0, created |-> FALSE]
<1>3. x \in Answers /\ ~x.created
    BY DEF Answers
<1>4. Answer(q, x.status, x.id, x.created)
    BY <1>2
<1> HIDE DEF x
<1>5. Op(q).kind # "admit"
    BY <1>1 DEF TellInv, InPlace, At
<1> QED BY <1>1, <1>3, <1>4, <1>5, NoChange, PlainTells

LEMMA AbortTells == ASSUME Inv, TellInv, NEW q \in serving, Abort(q) PROVE TellInv'
<1>1. serving' = serving \ {q} /\ UNCHANGED <<told, client, replies, jobs, providers>>
    BY DEF Abort, Serving, rows
<1>2. AnswersRight' /\ OneCreates'
    BY <1>1, Unanswered DEF Grows, Ans, Registered
<1>3. InPlace'
    BY <1>1 DEF TellInv, InPlace, Op, Submitter, Registered
<1> QED BY <1>1, <1>2, <1>3 DEF TellInv, AnswersTyped, OneName

LEMMA HandleTells == ASSUME Inv, TellInv, NEW q \in serving, Handle(q) \/ Abort(q) PROVE TellInv'
BY AdmitReadTells, AdmitInsertTells, RegisterReadTells, RegisterWriteTells, RegisterNameTells,
   HeartbeatTells, AbortTells DEF Handle

LEMMA AuthenticateTells == ASSUME Inv, TellInv, NEW m \in net, Authenticate(m) PROVE TellInv'
<1>1. m \in Request /\ m.client \in Client
    BY DEF Inv, TablesTyped, Request
<1>2. UNCHANGED <<told, client, jobs, providers>>
    BY DEF Authenticate, rows
<1>3. CASE Fresh(m) /\ ~Used(m)
    <2> DEFINE t == [pc |-> Wish[m.client].kind, m |-> m]
    <2>1. serving' = serving \cup {t} /\ UNCHANGED replies
        BY <1>3 DEF Authenticate
    <2>2. t.m = m /\ t.pc = Wish[m.client].kind
        OBVIOUS
    <2>3. t.pc \in {"admit", "register", "heartbeat"}
        BY <1>1 DEF Admission, Registration, Heartbeat
    <2> HIDE DEF t
    <2>4. InPlace'
        BY <1>2, <2>1, <2>2, <2>3 DEF TellInv, InPlace, Op, Submitter, Registered
    <2>5. AnswersRight' /\ OneCreates'
        BY <1>2, <2>1, Unanswered DEF Grows, Ans, Registered
    <2> QED BY <1>2, <2>1, <2>4, <2>5 DEF TellInv, AnswersTyped, OneName
<1>4. CASE ~(Fresh(m) /\ ~Used(m))
    <2> DEFINE x == [status |-> 401, id |-> 0, created |-> FALSE]
    <2>1. Reply(m, 401, 0, FALSE) /\ UNCHANGED serving
        BY <1>4 DEF Authenticate
    <2>2. x \in Answers /\ x.status # 200 /\ ~x.created
        BY DEF Answers
    <2>3. Reply(m, x.status, x.id, x.created)
        BY <2>1
    <2> HIDE DEF x
    <2>4. /\ replies' \subseteq [client : Client, try : 1..MaxTries, answer : Answers]
          /\ \A c \in Client : \A a \in Ans(c)' : a \in Ans(c) \/ (c = m.client /\ a = x)
        BY <1>1, <1>2, <2>2, <2>3, ReplyAdds
    <2>5. Right(m.client, x)'
        BY <2>2 DEF Right, NamesJob, MadeJob
    <2>6. Grows
        BY <1>2 DEF Grows, Registered
    <2>7. AnswersRight' /\ OneCreates'
        BY <1>1, <2>2, <2>4, <2>5, <2>6, Answered
    <2>8. InPlace'
        BY <1>2, <2>1 DEF TellInv, InPlace, Op, Submitter, Registered
    <2> QED BY <1>2, <2>4, <2>7, <2>8 DEF TellInv, AnswersTyped, OneName
<1> QED BY <1>3, <1>4

\* Steps in which clients hear or stop to listen.
LEMMA QuietTells ==
    ASSUME Inv, TellInv, UNCHANGED <<jobs, providers, serving>>,
           replies' \subseteq replies,
           told' \in [Client -> SUBSET Answers],
           \A c \in Client : told'[c] \subseteq Ans(c),
           \A c \in Client : client'[c].pc # "done" => told'[c] = {}
    PROVE  TellInv'
<1>1. \A c \in Client : Ans(c)' \subseteq Ans(c)
    BY DEF Ans
<1>2. Grows
    BY DEF Grows, Registered
<1>3. AnswersRight' /\ OneCreates'
    BY <1>1, <1>2, Unanswered
<1>4. InPlace'
    BY DEF TellInv, InPlace, Op, Submitter, Registered
<1> QED BY <1>3, <1>4 DEF TellInv, AnswersTyped, OneName

LEMMA ClientTells ==
    ASSUME Inv, TellInv, NEW c \in Client,
           Sign(c) \/ GiveUp(c) \/ \E r \in replies : Hear(c, r)
    PROVE  TellInv'
<1>1. UNCHANGED <<jobs, providers, serving>> /\ replies' \subseteq replies
    BY DEF Sign, GiveUp, Hear, rows
<1>2. client \in [Client -> ClientType] /\ told \in [Client -> SUBSET Answers]
    BY DEF Inv, TablesTyped, TellInv, AnswersTyped
<1>3. \A d \in Client : client[d].pc # "done" => told[d] = {}
    BY DEF TellInv, AnswersTyped
<1>4. \A d \in Client : told[d] \subseteq Ans(d)
    BY DEF Ans
<1>5. CASE /\ client[c].pc # "done" /\ UNCHANGED told
           /\ \A d \in Client : d # c => client'[d] = client[d]
    BY <1>1, <1>2, <1>3, <1>4, <1>5, QuietTells
<1>6. CASE Sign(c) \/ GiveUp(c)
    <2>1. client[c].pc # "done" /\ UNCHANGED told
        BY <1>6 DEF Sign, GiveUp
    <2>2. \A d \in Client : d # c => client'[d] = client[d]
        BY <1>2, <1>6 DEF Sign, GiveUp
    <2> QED BY <1>5, <2>1, <2>2
<1>7. ASSUME NEW r \in replies, Hear(c, r) PROVE TellInv'
    <2>1. client[c].pc = "waiting" /\ r.client = c
        BY <1>7 DEF Hear, IsOf
    <2>2. \A d \in Client : d # c => client'[d] = client[d]
        BY <1>2, <1>7 DEF Hear
    <2>3. CASE UNCHANGED told
        BY <1>5, <2>1, <2>2, <2>3
    <2>4. CASE told' = [told EXCEPT ![c] = {r.answer}] /\ client' = [client EXCEPT ![c].pc = "done"]
        <3>1. r.answer \in Answers /\ r.answer \in Ans(c)
            BY <2>1 DEF TellInv, AnswersTyped, Ans
        <3>2. /\ told' \in [Client -> SUBSET Answers] /\ told'[c] = {r.answer}
              /\ \A d \in Client : d # c => told'[d] = told[d]
            BY <1>2, <2>4, <3>1
        <3>3. client'[c].pc = "done"
            BY <1>2, <2>4 DEF ClientType
        <3>4. \A d \in Client : told'[d] \subseteq Ans(d)
            BY <1>4, <3>1, <3>2
        <3>5. \A d \in Client : client'[d].pc # "done" => told'[d] = {}
            BY <1>3, <2>2, <3>2, <3>3
        <3> QED BY <1>1, <3>2, <3>4, <3>5, QuietTells
    <2> QED BY <1>7, <2>3, <2>4 DEF Hear
<1> QED BY <1>6, <1>7

LEMMA TellNext == Inv /\ TellInv /\ [Next]_vars => TellInv'
<1> SUFFICES ASSUME Inv, TellInv, [Next]_vars PROVE TellInv'
    OBVIOUS
<1>1. ASSUME NEW c \in Client, Sign(c) \/ GiveUp(c) \/ \E r \in replies : Hear(c, r) PROVE TellInv'
    BY <1>1, ClientTells
<1>2. ASSUME NEW m \in net, Authenticate(m) PROVE TellInv'
    BY <1>2, AuthenticateTells
<1>3. ASSUME NEW q \in serving, Abort(q) \/ Handle(q) PROVE TellInv'
    BY <1>3, HandleTells
<1>4. ASSUME NEW m, Tick \/ LoseRequest(m) \/ LoseReply(m) \/ UNCHANGED vars PROVE TellInv'
    <2>1. UNCHANGED <<jobs, providers, serving, told, client>> /\ replies' \subseteq replies
        BY <1>4 DEF Tick, LoseRequest, LoseReply, vars, rows
    <2>2. told \in [Client -> SUBSET Answers] /\ \A c \in Client : client[c].pc # "done" => told[c] = {}
        BY DEF TellInv, AnswersTyped
    <2>3. \A c \in Client : told[c] \subseteq Ans(c)
        BY DEF Ans
    <2> QED BY <2>1, <2>2, <2>3, QuietTells
<1> QED BY <1>1, <1>2, <1>3, <1>4 DEF Next

LEMMA Told == Spec => [](Inv /\ TellInv)
<1>1. Init => Inv /\ TellInv
    BY InvInit, TellInit
<1>2. Inv /\ TellInv /\ [Next]_vars => (Inv /\ TellInv)'
    BY InvNext, TellNext
<1> QED BY <1>1, <1>2, PTL DEF Spec

\* Of all that ask for one thing at most one is told that it created it, with any
\* number of clients, tries and faults (jobs.py:admit_job, providers.py:register_provider).
THEOREM CreatedOnceAlways == Spec => []CreatedOnce
<1>1. ASSUME Inv, TellInv, NEW c \in Client, NEW d \in Client, NEW r \in told[c], NEW s \in told[d],
             r.created, s.created, Owner[c] = Owner[d], Wish[c].kind = Wish[d].kind,
             Wish[c].kind = "admit" => Wish[c].key = Wish[d].key /\ Wish[c].key # NoKey
      PROVE  c = d
    <2>1. r \in Ans(c) /\ s \in Ans(d)
        BY DEF Ans
    <2>2. Right(c, r) /\ Right(d, s)
        BY <1>1, <2>1 DEF TellInv, AnswersRight
    <2>3. CASE Wish[c].kind = "admit"
        <3>1. NamesJob(c, r) /\ MadeJob(c, r) /\ NamesJob(d, s) /\ MadeJob(d, s)
            BY <1>1, <2>2, <2>3 DEF Right
        <3>2. r.id \in Named(Owner[c], Wish[c].key) /\ s.id \in Named(Owner[c], Wish[c].key)
            BY <1>1, <2>3, <3>1 DEF NamesJob, MadeJob
        <3>3. r.id = s.id
            BY <1>1, <3>2 DEF TellInv, OneName, Named
        <3> QED BY <1>1, <3>1, <3>3 DEF MadeJob
    <2>4. CASE Wish[c].kind = "register"
        BY <1>1, <2>1, <2>4 DEF TellInv, OneCreates
    <2>5. CASE Wish[c].kind = "heartbeat"
        BY <1>1, <2>2, <2>5 DEF Right
    <2>6. Wish[c].kind \in {"admit", "register", "heartbeat"}
        BY DEF Admission, Registration, Heartbeat
    <2> QED BY <2>3, <2>4, <2>5, <2>6
<1>2. Inv /\ TellInv => CreatedOnce
    BY <1>1 DEF CreatedOnce
<1> QED BY <1>2, Told, PTL

-----------------------------------------------------------------------------
(* The refinement of DeskPromise. *)

LEMMA InitPromise == Init => Promise!Init
<1> SUFFICES ASSUME Init PROVE Promise!Init
    OBVIOUS
<1>1. jobs = << >> /\ told = [c \in Client |-> {}]
    BY DEF Init
<1>2. \A h, k : JobOf(h, k) = 0
    BY <1>1 DEF JobOf, Named
<1>3. \A c \in Askers : ToldOf(c) = {}
    BY <1>1 DEF ToldOf, Askers
<1> QED BY <1>2, <1>3 DEF Promise!Init, Promise!None

LEMMA JobStays == ASSUME NEW h, NEW k, Named(h, k)' = Named(h, k) PROVE JobOf(h, k)' = JobOf(h, k)
BY DEF JobOf

LEMMA NoJob == ASSUME NEW h, NEW k, Named(h, k) = {} PROVE JobOf(h, k) = 0
BY DEF JobOf

LEMMA OnlyJob == ASSUME NEW h, NEW k, NEW n, Named(h, k) = {n} PROVE JobOf(h, k) = n
BY DEF JobOf

LEMMA OnlyJobNext == ASSUME NEW h, NEW k, NEW n, Named(h, k)' = {n} PROVE JobOf(h, k)' = n
BY DEF JobOf

\* Where every job and every told answer stays, the promise's state stays.
LEMMA PromiseStays ==
    ASSUME \A h \in Hotkey, k \in Key : JobOf(h, k)' = JobOf(h, k),
           \A c \in Askers : ToldOf(c)' = ToldOf(c)
    PROVE  UNCHANGED Promise!vars
<1>1. [slot \in Hotkey \X Key |-> JobOf(slot[1], slot[2])]' = [slot \in Hotkey \X Key |-> JobOf(slot[1], slot[2])]
    OBVIOUS
<1>2. [c \in Askers |-> ToldOf(c)]' = [c \in Askers |-> ToldOf(c)]
    BY DEF Askers
<1> QED BY <1>1, <1>2 DEF Promise!vars

\* The row that is appended is the job of its slot; without a key it is of none.
LEMMA InsertPromise ==
    ASSUME Inv, TellInv, NEW q \in serving, Inserts(q)
    PROVE  [Promise!Next]_(Promise!vars)
<1>1. jobs \in Seq(Job) /\ Named(Submitter(q), Op(q).key) = {} /\ UNCHANGED told
    BY DEF Inv, JobsTyped, Inserts
<1>2. PICK n \in Nat \ {0} : /\ DOMAIN jobs' = DOMAIN jobs \cup {n} /\ n \notin DOMAIN jobs
                             /\ \A i \in DOMAIN jobs : jobs'[i] = jobs[i]
                             /\ jobs'[n] = Row(q)
    BY <1>1 DEF Inserts
<1>3. Row(q).hotkey = Submitter(q) /\ Row(q).key = Op(q).key
    BY DEF Row
<1>4. ASSUME NEW h, NEW k, k = NoKey \/ h # Submitter(q) \/ k # Op(q).key
      PROVE  JobOf(h, k)' = JobOf(h, k)
    <2>1. Named(h, k)' = Named(h, k)
        BY <1>2, <1>3, <1>4 DEF Named
    <2> QED BY <2>1, JobStays
<1>5. \A c \in Askers : ToldOf(c)' = ToldOf(c)
    BY <1>1 DEF ToldOf
<1>6. CASE Op(q).key = NoKey
    <2>1. ASSUME NEW h \in Hotkey, NEW k \in Key PROVE JobOf(h, k)' = JobOf(h, k)
        BY <1>4, <1>6
    <2> QED BY <1>5, <2>1, PromiseStays
<1>7. CASE Op(q).key # NoKey
    <2> DEFINE h == Submitter(q)
               k == Op(q).key
               s == <<h, k>>
    <2>1. h \in Hotkey /\ k \in Key
        <3>1. q.m.client \in Client /\ Submitter(q) \in Hotkey
            BY DEF Inv, TablesTyped, Serves, Request, Submitter
        <3>2. Op(q) \in Admission
            BY <3>1 DEF Op, Inserts, Registration, Heartbeat
        <3> QED BY <1>7, <3>1, <3>2 DEF Admission
    <2>2. Named(h, k)' = {n}
        BY <1>1, <1>2, <1>3, <1>7 DEF Named
    <2>3. JobOf(h, k)' = n
        BY <2>2, OnlyJobNext
    <2>4. JobOf(h, k) = 0
        BY <1>1, NoJob
    <2>5. ASSUME NEW g, NEW l, g # h \/ l # k PROVE JobOf(g, l)' = JobOf(g, l)
        BY <1>4, <2>5
    <2> HIDE DEF h, k
    <2> DEFINE job == [slot \in Hotkey \X Key |-> JobOf(slot[1], slot[2])]
    <2>6. s \in Hotkey \X Key /\ s[1] = h /\ s[2] = k
        BY <2>1
    <2>7. job[s] = 0 /\ job'[s] # 0
        BY <1>2, <2>3, <2>4, <2>6
    <2>8. ASSUME NEW t \in (Hotkey \X Key) \ {s} PROVE job'[t] = job[t]
        <3>1. t[1] # h \/ t[2] # k
            OBVIOUS
        <3> QED BY <2>5, <3>1
    <2>9. UNCHANGED [c \in Askers |-> ToldOf(c)]
        BY <1>5 DEF Askers
    <2>10. Promise!Make(s)
        BY <2>7, <2>8, <2>9 DEF Promise!Make, Promise!None
    <2> QED BY <2>6, <2>10 DEF Promise!Next
<1> QED BY <1>6, <1>7

\* A final answer tells the client the job of its slot, or that it is refused.
LEMMA HearPromise ==
    ASSUME Inv, TellInv, NEW c \in Client, NEW r \in replies, Hear(c, r),
           told' = [told EXCEPT ![c] = {r.answer}]
    PROVE  [Promise!Next]_(Promise!vars)
<1>1. UNCHANGED jobs
    BY DEF Hear, rows
<1>2. ASSUME NEW h, NEW k PROVE JobOf(h, k)' = JobOf(h, k)
    BY <1>1 DEF JobOf, Named
<1>3. client[c].pc = "waiting" /\ r.client = c
    BY DEF Hear, IsOf
<1>4. /\ told[c] = {} /\ told'[c] = {r.answer}
      /\ \A d \in Client : d # c => told'[d] = told[d]
    BY <1>3 DEF TellInv, AnswersTyped
<1>5. \A d \in Client : d # c => ToldOf(d)' = ToldOf(d)
    BY <1>4 DEF ToldOf
<1>6. CASE c \notin Askers
    <2>1. \A d \in Askers : ToldOf(d)' = ToldOf(d)
        BY <1>5, <1>6 DEF Askers
    <2> QED BY <1>2, <2>1, PromiseStays
<1>7. CASE c \in Askers
    <2> DEFINE n == r.answer.id
               h == Owner[c]
               k == Wish[c].key
    <2>1. NamesJob(c, r.answer)
        BY <1>3, <1>7 DEF TellInv, AnswersRight, Ans, Right, Askers
    <2>2. h \in Hotkey /\ k \in Key
        <3>1. Wish[c] \in Admission
            BY <1>7 DEF Askers, Registration, Heartbeat
        <3> QED BY <1>7, <3>1 DEF Askers, Admission
    <2>3. ASSUME r.answer.status = 200 PROVE n # 0 /\ JobOf(h, k) = n
        <3>1. n \in Named(h, k)
            BY <1>7, <2>1, <2>3 DEF NamesJob, Askers
        <3>2. \A i, j \in Named(h, k) : i = j
            BY DEF TellInv, OneName, Named
        <3>3. Named(h, k) = {n}
            BY <3>1, <3>2
        <3>4. n # 0
            BY <3>1 DEF Named, Inv, JobsTyped
        <3> QED BY <3>3, <3>4, OnlyJob
    <2>4. ToldOf(c) = {} /\ ToldOf(c)' = {IF r.answer.status = 200 THEN n ELSE 0}
        BY <1>4 DEF ToldOf
    <2> DEFINE job == [slot \in Hotkey \X Key |-> JobOf(slot[1], slot[2])]
               map == [d \in Askers |-> ToldOf(d)]
               slotOf == [d \in Askers |-> <<Owner[d], Wish[d].key>>]
               x == IF r.answer.status = 200 THEN n ELSE 0
    <2>5. job' = job
        BY <1>2
    <2>6. slotOf[c] \in Hotkey \X Key /\ slotOf[c][1] = h /\ slotOf[c][2] = k
        BY <1>7, <2>2
    <2>7. job[slotOf[c]] = JobOf(h, k)
        BY <2>6
    <2>8. map[c] = {}
        BY <1>7, <2>4
    <2>9. Askers' = Askers /\ Askers \subseteq Client
        BY DEF Askers
    <2>10. map' = [map EXCEPT ![c] = {x}]
        BY <1>5, <1>7, <2>4, <2>9
    <2>11. x = 0 \/ (job[slotOf[c]] # 0 /\ x = job[slotOf[c]])
        BY <2>3, <2>7
    <2>12. Promise!Tell(c)
        BY <2>5, <2>8, <2>10, <2>11 DEF Promise!Tell, Promise!None, Promise!Refused
    <2> QED BY <1>7, <2>12 DEF Promise!Next
<1> QED BY <1>6, <1>7

LEMMA NextPromise == Inv /\ TellInv /\ [Next]_vars => [Promise!Next]_(Promise!vars)
<1> SUFFICES ASSUME Inv, TellInv, [Next]_vars PROVE [Promise!Next]_(Promise!vars)
    OBVIOUS
<1>1. CASE UNCHANGED <<jobs, told>>
    <2>1. ASSUME NEW h, NEW k PROVE JobOf(h, k)' = JobOf(h, k)
        BY <1>1 DEF JobOf, Named
    <2>2. ASSUME NEW c \in Askers PROVE ToldOf(c)' = ToldOf(c)
        BY <1>1 DEF ToldOf
    <2> QED BY <2>1, <2>2, PromiseStays
<1>2. ASSUME NEW c \in Client, Sign(c) \/ GiveUp(c) PROVE UNCHANGED <<jobs, told>>
    BY <1>2 DEF Sign, GiveUp, rows
<1>3. ASSUME NEW c \in Client, NEW r \in replies, Hear(c, r) PROVE [Promise!Next]_(Promise!vars)
    <2>1. UNCHANGED jobs /\ (UNCHANGED told \/ told' = [told EXCEPT ![c] = {r.answer}])
        BY <1>3 DEF Hear, rows
    <2> QED BY <1>1, <1>3, <2>1, HearPromise
<1>4. ASSUME NEW m \in net, Authenticate(m) PROVE UNCHANGED <<jobs, told>>
    BY <1>4 DEF Authenticate, rows
<1>5. ASSUME NEW q \in serving, Abort(q) \/ Handle(q) PROVE [Promise!Next]_(Promise!vars)
    <2>1. CASE AdmitInsert(q)
        <3>1. Op(q).kind = "admit" /\ UNCHANGED <<told, client, providers>>
            BY <2>1 DEF TellInv, InPlace, At, AdmitInsert, Serving
        <3> QED BY <1>1, <2>1, <3>1, InsertPromise DEF AdmitInsert, Inserts
    <2>2. CASE ~AdmitInsert(q)
        <3>1. UNCHANGED <<jobs, told>>
            BY <1>5, <2>2 DEF Handle, Abort, AdmitRead, RegisterRead, RegisterWrite, RegisterName,
                             ProviderHeartbeat, Serving, rows
        <3> QED BY <1>1, <3>1
    <2> QED BY <2>1, <2>2
<1>6. ASSUME NEW m, Tick \/ LoseRequest(m) \/ LoseReply(m) \/ UNCHANGED vars PROVE UNCHANGED <<jobs, told>>
    BY <1>6 DEF Tick, LoseRequest, LoseReply, vars, rows
<1> QED BY <1>1, <1>2, <1>3, <1>4, <1>5, <1>6 DEF Next

\* Desk implements DeskPromise: under one key there is one job, and whoever asks
\* for it is told that job or is refused (jobs.py:admit_job).
THEOREM Refinement == Spec => KeepsPromise
<1>1. Init => Promise!Init
    BY InitPromise
<1>2. Inv /\ TellInv /\ [Next]_vars => [Promise!Next]_(Promise!vars)
    BY NextPromise
<1> QED BY <1>1, <1>2, Told, PTL DEF Spec, KeepsPromise, Promise!Spec
=============================================================================
