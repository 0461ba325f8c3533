---------------------------- MODULE CatalogProofs ----------------------------
(***************************************************************************)
(* The price catalog and its history, for any keys, ladder, bodies,         *)
(* requests and number of changes.  What a request has read is as it was    *)
(* read until its own write, unless the history says that two of them were  *)
(* changing the key at a time.                                              *)
(***************************************************************************)
EXTENDS Catalog, SequenceTheorems, TLAPS

USE CatalogAssumption, NoRowAssumption

\* A request that is going to upsert, by itself or as the first of the seed.
Upsert == [pc : {"upsert", "seed"}, model : Models, seen : Row \cup {NoRow}, now : Nat,
           price : Nat \ {0}, active : BOOLEAN, max : Nat]
Disable == [pc : {"disable"}, model : Models, seen : Row]
Create == [pc : {"create"}, offer : Offer, asked : Nat]
CreateFamily == [pc : {"create_family"}, family : Families, price : Asked, asked : Nat]
Request == {Idle} \cup Upsert \cup Disable \cup [pc : {"seed_read"}] \cup Create \cup CreateFamily

\* The keys that a request is going to write, and whether it has read one.
Aims(q) ==
    {m \in Models : \/ q.pc \in {"upsert", "disable"} /\ m = q.model
                    \/ q.pc \in {"seed_read", "seed"} /\ m \in LadderModels}
Reads(q) == q.pc \in {"upsert", "disable", "seed"}

Typed ==
    /\ TypeOK
    /\ request \in [Requests -> Request]

\* The newest change of m, if it is in the catalog, is what its row says.
Tells(m) ==
    IF Known(m)
    THEN \E i \in ChangesOf(m) :
            /\ \A j \in ChangesOf(m) : j <= i
            /\ history[i].price = catalog[m].price
            /\ history[i].active = catalog[m].active
    ELSE ChangesOf(m) = {}

\* The price and the state of every key in the catalog were announced for it, each
\* at some time.
Announced(m) ==
    IF Known(m)
    THEN /\ \E i \in ChangesOf(m) : history[i].price = catalog[m].price
         /\ \E i \in ChangesOf(m) : history[i].active = catalog[m].active
    ELSE ChangesOf(m) = {}

SeedFirst(m) ==
    \A i, j \in ChangesOf(m) :
        i < j /\ history[i].source = "admin" => history[j].source = "admin"

\* What a request has read stands: a row that it found is still there, and the
\* row is as it was when nobody else was changing it.
Stands(q) ==
    /\ Reads(q) /\ q.seen # NoRow => Known(q.model)
    /\ Reads(q) /\ q.model \notin mixed => q.seen = catalog[q.model]
    /\ q.pc \in {"seed_read", "seed"} => \A m \in LadderModels \ mixed : ~Known(m)
    /\ q.pc = "seed" => /\ q.model = Ladder[1].model
                        /\ q.price = Ladder[1].price /\ q.active = TRUE

\* The offer that is about to be inserted quotes the history.
Quotes(q) ==
    /\ q.pc \in {"create", "create_family"} => q.asked <= Len(history)
    /\ q.pc = "create" /\ q.offer.model # NoModel =>
          \E i \in ChangesOf(q.offer.model) :
              /\ history[i].price = q.offer.snap
              /\ \/ q.offer.model \in mixed
                 \/ /\ history[i].active
                    /\ \A j \in ChangesOf(q.offer.model) : i < j => j > q.asked

Alone ==
    \A p, r \in Requests : p # r =>
        \A v \in {request[p]}, w \in {request[r]} : Aims(v) \cap Aims(w) \subseteq mixed
Told == \A m \in Models : Announced(m) /\ (m \notin mixed => Tells(m) /\ SeedFirst(m))
Standing == \A r \in Requests : \A q \in {request[r]} : Stands(q) /\ Quotes(q)

Inv == Typed /\ Alone /\ Told /\ Standing
-----------------------------------------------------------------------------
(* The effect of a step: it moves one request and leaves the tables, or it  *)
(* ends one request and writes only the keys that the request aims at.      *)

LEMMA HistoryProperty ==
  ASSUME Typed
  PROVE  history \in Seq(Change) /\ Len(history) \in Nat /\ DOMAIN history = 1..Len(history)
BY LenProperties DEF Typed, TypeOK

LEMMA ChangesAre ==
  ASSUME Typed, NEW m, NEW i \in ChangesOf(m)
  PROVE  i \in 1..Len(history) /\ i \in Int /\ history[i].model = m
BY HistoryProperty DEF ChangesOf

LEMMA IdleProperty == Idle \in Request /\ Idle.pc = "idle" /\ Aims(Idle) = {}
BY DEF Request, Idle, Aims

\* The pc of a request says which kind of record it is.
LEMMA KindOf ==
  ASSUME NEW q \in Request
  PROVE  /\ q.pc \in {"upsert", "seed"} => q \in Upsert
         /\ q.pc = "disable" => q \in Disable
         /\ q.pc = "create" => q \in Create
         /\ q.pc = "create_family" => q \in CreateFamily
         /\ Reads(q) => q.model \in Models
BY DEF Request, Idle, Upsert, Disable, Create, CreateFamily, Reads

\* The ladder has a first entry, and its keys are keys of the catalog.
LEMMA LadderFirst ==
  /\ Len(Ladder) \in Nat \ {0} /\ DOMAIN Ladder = 1..Len(Ladder) /\ 1 \in DOMAIN Ladder
  /\ \A i \in DOMAIN Ladder : Ladder[i].model \in Models /\ Ladder[i].price \in Nat \ {0}
  /\ LadderModels \subseteq Models /\ Ladder[1].model \in LadderModels
<1> DEFINE Entry == [model : Models, price : Nat \ {0}]
<1>1. Ladder \in Seq(Entry) /\ Ladder # <<>>
  OBVIOUS
<1> HIDE DEF Entry
<1>2. Len(Ladder) \in Nat \ {0} /\ DOMAIN Ladder = 1..Len(Ladder)
  BY <1>1, EmptySeq, LenProperties
<1>3. \A i \in DOMAIN Ladder : Ladder[i] \in Entry
  BY <1>1, <1>2, ElementOfSeq
<1>4. 1 \in DOMAIN Ladder
  BY <1>2
<1> QED BY <1>2, <1>3, <1>4 DEF LadderModels, Entry

\* A request that moves while the tables stay: the others stand as they did.
LEMMA Moved ==
  ASSUME Inv, TypeOK', NEW r \in Requests, NEW q \in Request,
         request' = [request EXCEPT ![r] = q],
         UNCHANGED <<catalog, history>>, mixed \subseteq mixed',
         \A p \in Requests \ {r} : Aims(q) \cap Aims(request[p]) \subseteq mixed',
         Stands(q)', Quotes(q)'
  PROVE  Inv'
<1>1. /\ request'[r] = q
      /\ \A p \in Requests \ {r} : request'[p] = request[p]
      /\ request' \in [Requests -> Request]
  BY DEF Inv, Typed
<1>2. Alone'
  <2> SUFFICES ASSUME NEW p \in Requests, NEW s \in Requests, p # s,
                      NEW v, v = request'[p], NEW w, w = request'[s]
               PROVE  Aims(v) \cap Aims(w) \subseteq mixed'
    BY DEF Alone
  <2>1. CASE p = r
    BY <1>1, <2>1
  <2>2. CASE s = r
    BY <1>1, <2>2
  <2>3. CASE p # r /\ s # r
    BY <1>1, <2>3 DEF Inv, Alone
  <2> QED BY <2>1, <2>2, <2>3
<1>3. Told'
  BY DEF Inv, Told, Announced, Tells, SeedFirst, ChangesOf, Known
<1>4. Standing'
  <2> SUFFICES ASSUME NEW p \in Requests, NEW v, v = request'[p]
               PROVE  Stands(v)' /\ Quotes(v)'
    BY DEF Standing
  <2>1. CASE p = r
    BY <1>1, <2>1
  <2>2. CASE p # r
    <3>1. v = request[p]
      BY <1>1, <2>2
    <3>2. Stands(v) /\ Quotes(v)
      BY <3>1 DEF Inv, Standing
    <3> QED BY <3>2 DEF Stands, Quotes, ChangesOf, Known
  <2> QED BY <2>1, <2>2
<1> QED BY <1>1, <1>2, <1>3, <1>4 DEF Inv, Typed

\* A request that ends and leaves the tables as they are.
LEMMA Ended ==
  ASSUME Inv, TypeOK', NEW r \in Requests, request' = [request EXCEPT ![r] = Idle],
         UNCHANGED <<catalog, history, mixed>>
  PROVE  Inv'
<1>1. Stands(Idle)' /\ Quotes(Idle)'
  BY IdleProperty DEF Stands, Quotes, Reads
<1> QED BY <1>1, IdleProperty, Moved

\* The history grows by changes of keys in S, and only their rows are written.
Extends(S) ==
    /\ Len(history) <= Len(history')
    /\ \A k \in 1..Len(history) : history'[k] = history[k]
    /\ \A k \in 1..Len(history') : k > Len(history) => history'[k].model \in S
    /\ \A m \in Models : m \notin S => catalog'[m] = catalog[m]
    /\ \A m \in Models : Known(m) => Known(m)'

\* A request that commits what it has to.
LEMMA Committed ==
  ASSUME Inv, TypeOK', NEW r \in Requests, request' = [request EXCEPT ![r] = Idle],
         mixed' = mixed, Extends(Aims(request[r])),
         \A m \in Aims(request[r]) :
            Announced(m)' /\ (m \notin mixed => Tells(m)' /\ SeedFirst(m)')
  PROVE  Inv'
<1> DEFINE S == Aims(request[r])
<1>1. /\ request'[r] = Idle
      /\ \A p \in Requests \ {r} : request'[p] = request[p]
      /\ request' \in [Requests -> Request]
  BY IdleProperty DEF Inv, Typed
<1>2. Alone'
  <2> SUFFICES ASSUME NEW p \in Requests, NEW s \in Requests, p # s,
                      NEW v, v = request'[p], NEW w, w = request'[s]
               PROVE  Aims(v) \cap Aims(w) \subseteq mixed'
    BY DEF Alone
  <2>1. CASE p = r \/ s = r
    BY <1>1, <2>1, IdleProperty
  <2>2. CASE p # r /\ s # r
    BY <1>1, <2>2 DEF Inv, Alone
  <2> QED BY <2>1, <2>2
<1>3. /\ history \in Seq(Change) /\ history' \in Seq(Change)
      /\ Len(history) \in Nat /\ Len(history') \in Nat
      /\ DOMAIN history = 1..Len(history) /\ DOMAIN history' = 1..Len(history')
  BY LenProperties DEF Inv, Typed, TypeOK
<1>4. ASSUME NEW m \in Models, m \notin S
      PROVE  ChangesOf(m)' = ChangesOf(m)
  BY <1>3, <1>4 DEF ChangesOf, Extends
<1>5. ASSUME NEW m \in Models
      PROVE  /\ ChangesOf(m) \subseteq ChangesOf(m)'
             /\ \A i \in ChangesOf(m) : history'[i] = history[i]
             /\ \A i \in ChangesOf(m)' : i \in ChangesOf(m) \/ i > Len(history)
  BY <1>3 DEF ChangesOf, Extends
<1>6. Told'
  <2> SUFFICES ASSUME NEW m \in Models
               PROVE  Announced(m)' /\ (m \notin mixed' => Tells(m)' /\ SeedFirst(m)')
    BY DEF Told
  <2>1. CASE m \in S
    BY <2>1
  <2>2. CASE m \notin S
    <3>1. ChangesOf(m)' = ChangesOf(m) /\ catalog'[m] = catalog[m]
      BY <1>4, <2>2 DEF Extends
    <3>2. Announced(m) /\ (m \notin mixed => Tells(m) /\ SeedFirst(m))
      BY DEF Inv, Told
    <3>3. \A i \in ChangesOf(m) : history'[i] = history[i]
      BY <1>5
    <3>4. Announced(m)'
      BY <3>1, <3>2, <3>3 DEF Announced, Known
    <3>5. Tells(m) => Tells(m)'
      BY <3>1, <3>3 DEF Tells, Known
    <3>6. SeedFirst(m) => SeedFirst(m)'
      BY <3>1, <3>3 DEF SeedFirst
    <3> QED BY <3>2, <3>4, <3>5, <3>6
  <2> QED BY <2>1, <2>2
<1>7. Standing'
  <2> SUFFICES ASSUME NEW p \in Requests, NEW v, v = request'[p]
               PROVE  Stands(v)' /\ Quotes(v)'
    BY DEF Standing
  <2>1. CASE p = r
    BY <1>1, <2>1, IdleProperty DEF Stands, Quotes, Reads
  <2>2. CASE p # r
    <3>1. v = request[p] /\ v \in Request
      BY <1>1, <2>2 DEF Inv, Typed
    <3>2. Stands(v) /\ Quotes(v)
      BY <3>1 DEF Inv, Standing
    <3>3. Aims(v) \cap S \subseteq mixed
      BY <2>2, <3>1 DEF Inv, Alone
    <3>4. Stands(v)'
      <4>1. Reads(v) => v.model \in Models /\ v.model \in Aims(v)
        BY <3>1, KindOf, LadderFirst, <3>2 DEF Reads, Aims, Stands
      <4>2. v.pc \in {"seed_read", "seed"} => Aims(v) = LadderModels
        BY LadderFirst DEF Aims
      <4>3. LadderModels \subseteq Models
        BY LadderFirst
      <4> QED BY <3>2, <3>3, <4>1, <4>2, <4>3 DEF Stands, Extends, Known
    <3>5. Quotes(v)'
      <4>1. v.pc \in {"create", "create_family"} => v.asked \in Nat
        BY <3>1, KindOf DEF Create, CreateFamily
      <4>2. v.pc = "create" /\ v.offer.model # NoModel => v.offer.model \in Models
        BY <3>1, KindOf DEF Create, Offer
      <4>3. v.pc \in {"create", "create_family"} =>
               v.asked <= Len(history) /\ v.asked <= Len(history')
        BY <1>3, <3>2, <4>1 DEF Quotes, Extends
      <4>4. ASSUME v.pc = "create", v.offer.model # NoModel
            PROVE  \E i \in ChangesOf(v.offer.model)' :
                      /\ history'[i].price = v.offer.snap
                      /\ \/ v.offer.model \in mixed'
                         \/ /\ history'[i].active
                            /\ \A j \in ChangesOf(v.offer.model)' : i < j => j > v.asked
        <5>1. PICK i \in ChangesOf(v.offer.model) :
                      /\ history[i].price = v.offer.snap
                      /\ \/ v.offer.model \in mixed
                         \/ /\ history[i].active
                            /\ \A j \in ChangesOf(v.offer.model) : i < j => j > v.asked
          BY <3>2, <4>4 DEF Quotes
        <5>2. ASSUME NEW n, n = v.offer.model, NEW j \in ChangesOf(n)'
              PROVE  j \in ChangesOf(n) \/ j > v.asked
          <6>1. j \in ChangesOf(n) \/ j > Len(history)
            BY <1>5, <4>2, <4>4, <5>2
          <6>2. j \in Nat
            BY <1>3 DEF ChangesOf
          <6> QED BY <1>3, <4>1, <4>3, <4>4, <6>1, <6>2
        <5> QED BY <1>5, <4>2, <4>4, <5>1, <5>2
      <4> QED BY <4>3, <4>4 DEF Quotes
    <3> QED BY <3>4, <3>5
  <2> QED BY <2>1, <2>2
<1> QED BY <1>1, <1>2, <1>6, <1>7 DEF Inv, Typed
-----------------------------------------------------------------------------
(* The rows that a flush leaves. *)

LEMMA FlushProperty ==
  ASSUME NEW row \in Row, NEW seen \in Row, NEW new \in Row
  PROVE  /\ Flush(row, seen, new) \in Row
         /\ \A c \in DOMAIN Flush(row, seen, new) :
               Flush(row, seen, new)[c] = IF new[c] = seen[c] THEN row[c] ELSE new[c]
         /\ {"price", "active"} \subseteq DOMAIN Flush(row, seen, new)
<1> DEFINE f == Flush(row, seen, new)
<1>1. DOMAIN row = {"price", "active", "since", "source", "max"}
  BY DEF Row
<1>2. f = [c \in {"price", "active", "since", "source", "max"} |->
              IF new[c] = seen[c] THEN row[c] ELSE new[c]]
  BY <1>1 DEF Flush
<1> HIDE DEF f
<1>3. \A c \in {"price", "active", "since", "source", "max"} :
         f[c] = IF new[c] = seen[c] THEN row[c] ELSE new[c]
  BY <1>2
<1>4. f = [price |-> f.price, active |-> f.active, since |-> f.since, source |-> f.source,
           max |-> f.max]
  BY <1>2
<1>5. /\ f.price \in Nat \ {0} /\ f.active \in BOOLEAN /\ f.since \in Nat
      /\ f.source \in {"admin", "seed"} /\ f.max \in Nat
  BY <1>3 DEF Row
<1>6. f \in Row
  BY <1>4, <1>5 DEF Row
<1> QED BY <1>2, <1>3, <1>6 DEF f

\* An upsert leaves a row whose columns are its own or the ones that are there, and
\* all as it says if what it has read is what it writes to.
LEMMA UpsertRowProperty ==
  ASSUME NEW q \in Upsert, NEW row \in Row \cup {NoRow}, NEW source \in {"admin", "seed"},
         q.seen = NoRow \/ row # NoRow
  PROVE  /\ UpsertRow(row, q, source) \in Row
         /\ \/ UpsertRow(row, q, source).price = q.price
            \/ row # NoRow /\ UpsertRow(row, q, source).price = row.price
         /\ \/ UpsertRow(row, q, source).active = q.active
            \/ row # NoRow /\ UpsertRow(row, q, source).active = row.active
         /\ q.seen = row => /\ UpsertRow(row, q, source).price = q.price
                            /\ UpsertRow(row, q, source).active = q.active
<1>1. /\ Upserted(q, source) \in Row
      /\ Upserted(q, source).price = q.price /\ Upserted(q, source).active = q.active
  <2>1. q.seen # NoRow => q.seen.max \in Nat
    BY DEF Upsert, Row
  <2> QED BY <2>1 DEF Upserted, Row, Upsert
<1>2. CASE q.seen = NoRow
  BY <1>1, <1>2 DEF UpsertRow
<1>3. CASE q.seen # NoRow
  <2>1. q.seen \in Row /\ row \in Row
    BY <1>3 DEF Upsert
  <2>2. UpsertRow(row, q, source) = Flush(row, q.seen, Upserted(q, source))
    BY <1>3 DEF UpsertRow
  <2> QED BY <1>1, <1>3, <2>1, <2>2, FlushProperty
<1> QED BY <1>2, <1>3
-----------------------------------------------------------------------------
(* Reads. *)

LEMMA AimsAreTargets ==
  ASSUME NEW p \in Requests
  PROVE  Aims(request[p]) \subseteq Targets(p)
<1> DEFINE q == request[p]
<1>1. CASE q.pc \in {"upsert", "disable"}
  BY <1>1 DEF Aims, Targets
<1>2. CASE q.pc \in {"seed_read", "seed"}
  BY <1>2 DEF Aims, Targets
<1>3. CASE q.pc \notin {"upsert", "disable", "seed_read", "seed"}
  BY <1>3 DEF Aims
<1> QED BY <1>1, <1>2, <1>3

LEMMA Begun ==
  ASSUME Inv, NEW r \in Requests, NEW S \in SUBSET Models, NEW q \in Request,
         Begin(r, S, q), Aims(q) \subseteq S, Stands(q)', Quotes(q)'
  PROVE  Inv'
<1>1. TypeOK'
  <2>1. DOMAIN request' = DOMAIN request
    BY DEF Begin, Inv, Typed, TypeOK
  <2> QED BY <2>1 DEF Begin, Inv, Typed, TypeOK
<1>2. \A p \in Requests \ {r} : Aims(q) \cap Aims(request[p]) \subseteq mixed'
  BY AimsAreTargets DEF Begin
<1>3. mixed \subseteq mixed' /\ request' = [request EXCEPT ![r] = q]
      /\ UNCHANGED <<catalog, history>>
  BY DEF Begin
<1> QED BY <1>1, <1>2, <1>3, Moved

LEMMA Learned ==
  ASSUME Inv, NEW r \in Requests, NEW q \in Request,
         Learn(r, q), Aims(q) \subseteq Aims(request[r]), Stands(q)', Quotes(q)'
  PROVE  Inv'
<1>1. TypeOK'
  <2>1. DOMAIN request' = DOMAIN request
    BY DEF Learn, Inv, Typed, TypeOK
  <2> QED BY <2>1 DEF Learn, Inv, Typed, TypeOK
<1>2. \A p \in Requests \ {r} : Aims(q) \cap Aims(request[p]) \subseteq mixed'
  BY DEF Learn, Inv, Alone
<1>3. mixed \subseteq mixed' /\ request' = [request EXCEPT ![r] = q]
      /\ UNCHANGED <<catalog, history>>
  BY DEF Learn
<1> QED BY <1>1, <1>2, <1>3, Moved

LEMMA RowsTyped ==
  ASSUME Typed, NEW m \in Models
  PROVE  catalog[m] \in Row \cup {NoRow}
BY DEF Typed, TypeOK

LEMMA UpsertReadKeeps ==
  ASSUME Inv, NEW r \in Requests, NEW m \in Models, NEW b \in Bodies, UpsertRead(r, m, b)
  PROVE  Inv'
<1>0. PICK q : q = [pc |-> "upsert", model |-> m, seen |-> catalog[m], now |-> clock,
                    price |-> b.price, active |-> b.active, max |-> b.max]
  OBVIOUS
<1>1. Begin(r, {m}, q)
  BY <1>0 DEF UpsertRead
<1>2. q \in Request
  <2>1. clock \in Nat /\ catalog[m] \in Row \cup {NoRow}
    BY RowsTyped DEF Inv, Typed, TypeOK
  <2>2. b.price \in Nat \ {0} /\ b.active \in BOOLEAN /\ b.max \in Nat
    OBVIOUS
  <2> QED BY <1>0, <2>1, <2>2 DEF Request, Upsert
<1>3. Aims(q) \subseteq {m}
  BY <1>0 DEF Aims
<1>4. UNCHANGED <<catalog, history>>
  BY DEF UpsertRead, Begin
<1>5. q.pc = "upsert" /\ q.model = m /\ q.seen = catalog[m]
  BY <1>0
<1>6. Stands(q)' /\ Quotes(q)'
  BY <1>4, <1>5 DEF Stands, Quotes, Known, Reads
<1> QED BY <1>1, <1>2, <1>3, <1>6, Begun

LEMMA DisableReadKeeps ==
  ASSUME Inv, NEW r \in Requests, NEW m \in Models, DisableRead(r, m)
  PROVE  Inv'
<1>0. PICK q : q = [pc |-> "disable", model |-> m, seen |-> catalog[m]]
  OBVIOUS
<1>1. Begin(r, {m}, q) /\ Known(m)
  BY <1>0 DEF DisableRead
<1>2. q \in Request
  BY <1>0, <1>1, RowsTyped DEF Inv, Request, Disable, Known
<1>3. Aims(q) \subseteq {m}
  BY <1>0 DEF Aims
<1>4. UNCHANGED <<catalog, history>>
  BY DEF DisableRead, Begin
<1>5. q.pc = "disable" /\ q.model = m /\ q.seen = catalog[m]
  BY <1>0
<1>6. Stands(q)' /\ Quotes(q)'
  BY <1>4, <1>5 DEF Stands, Quotes, Known, Reads
<1> QED BY <1>1, <1>2, <1>3, <1>6, Begun

LEMMA SeedCountKeeps ==
  ASSUME Inv, NEW r \in Requests, SeedCount(r)
  PROVE  Inv'
<1>0. PICK q : q = [pc |-> "seed_read"]
  OBVIOUS
<1>1. Begin(r, LadderModels, q) /\ LadderModels \in SUBSET Models
  BY <1>0, LadderFirst DEF SeedCount
<1>2. q \in Request
  BY <1>0 DEF Request
<1>3. Aims(q) \subseteq LadderModels
  BY <1>0 DEF Aims
<1>4. UNCHANGED <<catalog, history>> /\ \A m \in LadderModels : ~Known(m)
  BY <1>1 DEF SeedCount, Begin, Empty
<1>5. q.pc = "seed_read"
  BY <1>0
<1>6. Stands(q)' /\ Quotes(q)'
  BY <1>4, <1>5 DEF Stands, Quotes, Known, Reads
<1> QED BY <1>1, <1>2, <1>3, <1>6, Begun

LEMMA SeedReadKeeps ==
  ASSUME Inv, NEW r \in Requests, SeedRead(r)
  PROVE  Inv'
<1>9. PICK m : m = Ladder[1].model
  OBVIOUS
<1>0. PICK q : q = SeedEntry(1, clock, catalog[m])
  OBVIOUS
<1>1. Learn(r, q) /\ request[r].pc = "seed_read"
  BY <1>9, <1>0 DEF SeedRead, At
<1>2. m \in Models /\ m \in LadderModels /\ Ladder[1].price \in Nat \ {0}
  BY <1>9, LadderFirst
<1>3. /\ q \in Upsert
      /\ q.pc = "seed" /\ q.model = m /\ q.seen = catalog[m]
      /\ q.price = Ladder[1].price /\ q.active = TRUE
  <2>1. clock + 1 \in Nat /\ catalog[m] \in Row \cup {NoRow}
    BY <1>2, RowsTyped DEF Inv, Typed, TypeOK
  <2> QED BY <1>9, <1>0, <1>2, <2>1 DEF SeedEntry, Upsert
<1>4. q \in Request
  BY <1>3 DEF Request
<1>5. Aims(q) \subseteq Aims(request[r])
  BY <1>1, <1>2, <1>3 DEF Aims
<1>6. UNCHANGED <<catalog, history, mixed>>
  BY <1>1 DEF Learn
<1>7. \A k \in LadderModels \ mixed : ~Known(k)
  BY <1>1 DEF Inv, Standing, Stands
<1>8. Stands(q)' /\ Quotes(q)'
  BY <1>9, <1>2, <1>3, <1>6, <1>7 DEF Stands, Quotes, Known, Reads
<1> QED BY <1>1, <1>4, <1>5, <1>8, Learned
-----------------------------------------------------------------------------
(* Writes. *)

\* What a request that is at its write has read is of its kind.
LEMMA RequestAt ==
  ASSUME Inv, NEW r \in Requests
  PROVE  request[r] \in Request /\ Stands(request[r]) /\ Quotes(request[r])
BY DEF Inv, Typed, Standing

\* One more change of the key m by an admin, whose row is of the same price, or
\* one that the key has had, and, if nobody else was at it, wholly as it says.
LEMMA OneChange ==
  ASSUME Inv, NEW m \in Models, NEW c \in Change, NEW row \in Row,
         c.model = m, c.source = "admin",
         history' = Append(history, c), catalog' = [catalog EXCEPT ![m] = row],
         row.price = c.price \/ (Known(m) /\ row.price = catalog[m].price),
         row.active = c.active \/ (Known(m) /\ row.active = catalog[m].active),
         m \notin mixed => row.price = c.price /\ row.active = c.active
  PROVE  /\ history' \in Seq(Change) /\ catalog' \in [Models -> Row \cup {NoRow}]
         /\ Extends({m})
         /\ Announced(m)'
         /\ m \notin mixed => Tells(m)' /\ SeedFirst(m)'
<1>1. history \in Seq(Change) /\ Len(history) \in Nat /\ DOMAIN history = 1..Len(history)
  BY HistoryProperty DEF Inv
<1>2. /\ history' \in Seq(Change) /\ Len(history') = Len(history) + 1
      /\ \A k \in 1..Len(history) : history'[k] = history[k]
      /\ history'[Len(history) + 1] = c
  BY <1>1
<1>3. DOMAIN history' = 1..(Len(history) + 1)
  BY <1>1, <1>2, LenProperties
<1>4. /\ catalog' \in [Models -> Row \cup {NoRow}]
      /\ catalog'[m] = row /\ \A n \in Models \ {m} : catalog'[n] = catalog[n]
  BY DEF Inv, Typed, TypeOK
<1>5. /\ ChangesOf(m)' = ChangesOf(m) \cup {Len(history) + 1}
      /\ \A i \in ChangesOf(m) : i \in 1..Len(history) /\ history'[i] = history[i]
  BY <1>1, <1>2, <1>3 DEF ChangesOf
<1>6. Announced(m) /\ (m \notin mixed => SeedFirst(m))
  BY DEF Inv, Told
<1>7. Announced(m)'
  <2>1. \E i \in ChangesOf(m)' : history'[i].price = row.price
    <3>1. CASE row.price = c.price
      BY <1>2, <1>5, <3>1
    <3>2. CASE Known(m) /\ row.price = catalog[m].price
      BY <1>5, <1>6, <3>2 DEF Announced
    <3> QED BY <3>1, <3>2
  <2>2. \E i \in ChangesOf(m)' : history'[i].active = row.active
    <3>1. CASE row.active = c.active
      BY <1>2, <1>5, <3>1
    <3>2. CASE Known(m) /\ row.active = catalog[m].active
      BY <1>5, <1>6, <3>2 DEF Announced
    <3> QED BY <3>1, <3>2
  <2>3. Known(m)' /\ catalog'[m] = row
    BY <1>4 DEF Known
  <2> QED BY <2>1, <2>2, <2>3 DEF Announced
<1>8. ASSUME m \notin mixed
      PROVE  Tells(m)' /\ SeedFirst(m)'
  <2>1. row.price = c.price /\ row.active = c.active
    BY <1>8
  <2>2. Tells(m)'
    <3>1. \A j \in ChangesOf(m)' : j <= Len(history) + 1
      BY <1>1, <1>5
    <3>2. Known(m)'
      BY <1>4 DEF Known
    <3>3. /\ history'[Len(history) + 1].price = catalog'[m].price
          /\ history'[Len(history) + 1].active = catalog'[m].active
      BY <1>2, <1>4, <2>1
    <3> QED BY <1>5, <3>1, <3>2, <3>3 DEF Tells
  <2>3. SeedFirst(m)'
    <3> SUFFICES ASSUME NEW i \in ChangesOf(m)', NEW j \in ChangesOf(m)', i < j,
                        history'[i].source = "admin"
                 PROVE  history'[j].source = "admin"
      BY DEF SeedFirst
    <3>1. CASE j = Len(history) + 1
      BY <1>2, <3>1
    <3>2. CASE j \in ChangesOf(m)
      <4>1. i \in ChangesOf(m)
        BY <1>1, <1>5, <3>2
      <4> QED BY <1>5, <1>6, <1>8, <3>2, <4>1 DEF SeedFirst
    <3> QED BY <1>5, <3>1, <3>2
  <2> QED BY <2>2, <2>3
<1>9. Extends({m})
  BY <1>1, <1>2, <1>4 DEF Extends, Known
<1> QED BY <1>2, <1>4, <1>7, <1>8, <1>9

LEMMA UpsertWriteKeeps ==
  ASSUME Inv, NEW r \in Requests, UpsertWrite(r)
  PROVE  Inv'
<1> PICK q : q = request[r]
  OBVIOUS
<1> PICK m : m = q.model
  OBVIOUS
<1>1. q.pc = "upsert" /\ q \in Upsert /\ m \in Models
  BY RequestAt, KindOf DEF UpsertWrite, At, Reads
<1>2. /\ request' = [request EXCEPT ![r] = Idle]
      /\ UNCHANGED <<offer, enforce, mixed>>
  BY DEF UpsertWrite, Respond
<1>3. DOMAIN request' = DOMAIN request
  BY <1>2
<1>4. CASE Conflict(q)
  <2>1. UNCHANGED <<catalog, history, clock>>
    BY <1>4 DEF UpsertWrite
  <2>2. TypeOK'
    BY <1>2, <1>3, <2>1 DEF Inv, Typed, TypeOK
  <2> QED BY <1>2, <2>1, <2>2, Ended
<1>5. CASE ~Conflict(q)
  <2> PICK c : c = Record(m, q.price, q.active, "admin")
    OBVIOUS
  <2> PICK row : row = UpsertRow(catalog[m], q, "admin")
    OBVIOUS
  <2>1. /\ catalog' = [catalog EXCEPT ![m] = row]
        /\ history' = Append(history, c) /\ clock' = clock + 1
    BY <1>5 DEF UpsertWrite
  <2>2. /\ c \in Change /\ c.model = m /\ c.source = "admin"
        /\ c.price = q.price /\ c.active = q.active
    BY <1>1 DEF Record, Change, Upsert
  <2>3. catalog[m] \in Row \cup {NoRow} /\ (q.seen = NoRow \/ catalog[m] # NoRow)
    BY <1>1, RowsTyped, RequestAt DEF Inv, Stands, Reads, Known
  <2>4. /\ row \in Row
        /\ row.price = q.price \/ (Known(m) /\ row.price = catalog[m].price)
        /\ row.active = q.active \/ (Known(m) /\ row.active = catalog[m].active)
        /\ q.seen = catalog[m] => row.price = q.price /\ row.active = q.active
    BY <1>1, <2>3, UpsertRowProperty DEF Known
  <2>5. m \notin mixed => q.seen = catalog[m]
    BY <1>1, RequestAt DEF Stands, Reads
  <2>6. /\ history' \in Seq(Change) /\ catalog' \in [Models -> Row \cup {NoRow}]
        /\ Extends({m}) /\ Announced(m)'
        /\ m \notin mixed => Tells(m)' /\ SeedFirst(m)'
    <3>1. /\ row.price = c.price \/ (Known(m) /\ row.price = catalog[m].price)
          /\ row.active = c.active \/ (Known(m) /\ row.active = catalog[m].active)
      BY <2>2, <2>4
    <3>2. m \notin mixed => row.price = c.price /\ row.active = c.active
      BY <2>2, <2>4, <2>5
    <3>3. m \in Models /\ c \in Change /\ row \in Row /\ c.model = m /\ c.source = "admin"
      BY <1>1, <2>2, <2>4
    <3> QED BY ONLY Inv, <2>1, <3>1, <3>2, <3>3, OneChange
  <2>7. TypeOK'
    BY <1>2, <1>3, <2>1, <2>6 DEF Inv, Typed, TypeOK
  <2>8. Aims(request[r]) = {m}
    BY <1>1, <2>2 DEF Aims
  <2>9. /\ Extends(Aims(request[r]))
        /\ \A k \in Aims(request[r]) :
              Announced(k)' /\ (k \notin mixed => Tells(k)' /\ SeedFirst(k)')
    <3>1. \A k \in Aims(request[r]) : k = m
      BY <2>8
    <3> QED BY <2>6, <2>8, <3>1
  <2> QED BY <1>2, <2>7, <2>9, Committed
<1> QED BY <1>4, <1>5

LEMMA DisableWriteKeeps ==
  ASSUME Inv, NEW r \in Requests, DisableWrite(r)
  PROVE  Inv'
<1> PICK q : q = request[r]
  OBVIOUS
<1> PICK m : m = q.model
  OBVIOUS
<1>1. q.pc = "disable" /\ q \in Disable /\ m \in Models
  BY RequestAt, KindOf DEF DisableWrite, At, Reads
<1>2. /\ request' = [request EXCEPT ![r] = Idle]
      /\ UNCHANGED <<offer, enforce, mixed>>
  BY DEF DisableWrite, Respond
<1>3. DOMAIN request' = DOMAIN request
  BY <1>2
<1> PICK c : c = Disabled(q)
  OBVIOUS
<1> PICK off : off = [q.seen EXCEPT !.active = FALSE]
  OBVIOUS
<1> PICK row : row = Flush(catalog[m], q.seen, off)
  OBVIOUS
<1>4. /\ catalog' = [catalog EXCEPT ![m] = row]
      /\ history' = Append(history, c) /\ clock' = clock + 1
  BY DEF DisableWrite
<1>5. q.seen \in Row /\ off \in Row /\ off.price = q.seen.price /\ off.active = FALSE
  BY <1>1 DEF Disable, Row
<1>6. /\ c \in Change /\ c.model = m /\ c.source = "admin"
      /\ c.price = q.seen.price /\ c.active = FALSE
  BY <1>1, <1>5 DEF Disabled, Record, Change, Row
<1>7. catalog[m] \in Row /\ Known(m)
  BY <1>1, <1>5, RowsTyped, RequestAt DEF Inv, Stands, Reads, Known
<1>8. /\ row \in Row /\ row.price = catalog[m].price
      /\ row.active = FALSE \/ row.active = catalog[m].active
      /\ q.seen = catalog[m] => row.active = FALSE
  <2>1. /\ row \in Row /\ row.price = catalog[m].price /\ off.active = FALSE
        /\ off.active = q.seen.active => row.active = catalog[m].active
        /\ off.active # q.seen.active => row.active = off.active
    <3>1. /\ row \in Row /\ {"price", "active"} \subseteq DOMAIN row
          /\ \A x \in DOMAIN row : row[x] = IF off[x] = q.seen[x] THEN catalog[m][x] ELSE off[x]
      <4>1. row = Flush(catalog[m], q.seen, off)
        OBVIOUS
      <4>2. q.seen \in Row /\ off \in Row /\ catalog[m] \in Row
        BY <1>5, <1>7
      <4> QED BY ONLY <4>1, <4>2, FlushProperty
    <3>2. row.price = IF off.price = q.seen.price THEN catalog[m].price ELSE off.price
      BY <3>1
    <3>3. row["active"] = IF off["active"] = q.seen["active"] THEN catalog[m]["active"]
                          ELSE off["active"]
      BY <3>1, Zenon
    <3>4. off.active = q.seen.active => row.active = catalog[m].active
      BY <3>3, Zenon
    <3>5. off.active # q.seen.active => row.active = off.active
      BY <3>3, Zenon
    <3> QED BY <1>5, <3>1, <3>2, <3>4, <3>5
  <2>2. ASSUME q.seen = catalog[m]
        PROVE  row.active = FALSE
    <3>1. CASE off.active = q.seen.active
      BY <2>1, <2>2, <3>1, <1>5
    <3>2. CASE off.active # q.seen.active
      BY <2>1, <3>2, <1>5
    <3> QED BY <3>1, <3>2
  <2>3. CASE off.active = q.seen.active
    BY <2>1, <2>3
  <2>4. CASE off.active # q.seen.active
    BY <1>5, <2>1, <2>4
  <2> QED BY <2>1, <2>2, <2>3, <2>4
<1>9. m \notin mixed => q.seen = catalog[m]
  BY <1>1, RequestAt DEF Stands, Reads
<1>10. /\ history' \in Seq(Change) /\ catalog' \in [Models -> Row \cup {NoRow}]
       /\ Extends({m}) /\ Announced(m)'
       /\ m \notin mixed => Tells(m)' /\ SeedFirst(m)'
  <2>1. /\ row.price = c.price \/ (Known(m) /\ row.price = catalog[m].price)
        /\ row.active = c.active \/ (Known(m) /\ row.active = catalog[m].active)
    BY <1>6, <1>7, <1>8
  <2>2. m \notin mixed => row.price = c.price /\ row.active = c.active
    BY <1>5, <1>6, <1>8, <1>9
  <2>3. m \in Models /\ c \in Change /\ row \in Row /\ c.model = m /\ c.source = "admin"
    BY <1>1, <1>6, <1>8
  <2> QED BY ONLY Inv, <1>4, <2>1, <2>2, <2>3, OneChange
<1>11. TypeOK'
  BY <1>2, <1>3, <1>4, <1>10 DEF Inv, Typed, TypeOK
<1>12. Aims(request[r]) = {m}
  BY <1>1, <1>6 DEF Aims
<1>13. /\ Extends(Aims(request[r]))
       /\ \A k \in Aims(request[r]) :
             Announced(k)' /\ (k \notin mixed => Tells(k)' /\ SeedFirst(k)')
  <2>1. \A k \in Aims(request[r]) : k = m
    BY <1>12
  <2> QED BY <1>10, <1>12, <2>1
<1> QED BY <1>2, <1>11, <1>13, Committed

LEMMA AbortKeeps ==
  ASSUME Inv, NEW r \in Requests, Abort(r) \/ CreateWrite(r)
  PROVE  Inv'
<1>1. request' = [request EXCEPT ![r] = Idle] /\ UNCHANGED <<catalog, history, mixed>>
  BY DEF Abort, CreateWrite, Respond
<1>2. DOMAIN request' = DOMAIN request
  BY <1>1
<1>3. offer' \in [OfferIds -> Offer \cup {NoRow}]
  <2>1. CASE Abort(r)
    BY <2>1 DEF Abort, Inv, Typed, TypeOK
  <2>2. CASE CreateWrite(r)
    <3>1. request[r].offer \in Offer
      BY <2>2, RequestAt, KindOf DEF CreateWrite, At, Create
    <3> QED BY <2>2, <3>1 DEF CreateWrite, Inv, Typed, TypeOK
  <2> QED BY <2>1, <2>2
<1>4. UNCHANGED <<clock, enforce>>
  BY DEF Abort, CreateWrite
<1>5. TypeOK'
  BY <1>1, <1>2, <1>3, <1>4 DEF Inv, Typed, TypeOK
<1> QED BY <1>1, <1>5, Ended

\* The i-th entry of the ladder as the seed upserts it.
LEMMA SeedEntryProperty ==
  ASSUME Inv, NEW i \in DOMAIN Ladder, NEW seen \in Row \cup {NoRow}
  PROVE  /\ SeedEntry(i, clock, seen) \in Upsert
         /\ SeedEntry(i, clock, seen).seen = seen
         /\ SeedEntry(i, clock, seen).price = Ladder[i].price
         /\ SeedEntry(i, clock, seen).active = TRUE
<1>1. i \in Nat /\ Ladder[i].model \in Models /\ Ladder[i].price \in Nat \ {0}
  BY LadderFirst
<1>2. clock + i \in Nat
  BY <1>1 DEF Inv, Typed, TypeOK
<1> QED BY <1>1, <1>2 DEF SeedEntry, Upsert

\* What a history has when changes are appended to it.
LEMMA MoreChanges ==
  ASSUME Typed, NEW L \in Seq(Change), history' = history \o L
  PROVE  /\ history' \in Seq(Change) /\ Len(history') = Len(history) + Len(L)
         /\ DOMAIN history' = 1..(Len(history) + Len(L))
         /\ \A k \in 1..Len(history) : history'[k] = history[k]
         /\ \A k \in 1..Len(L) : history'[Len(history) + k] = L[k]
         /\ \A k \in 1..Len(history') : k > Len(history) =>
               k - Len(history) \in 1..Len(L) /\ history'[k] = L[k - Len(history)]
<1>1. history \in Seq(Change) /\ Len(history) \in Nat /\ Len(L) \in Nat
  BY HistoryProperty, LenProperties
<1>2. /\ history' \in Seq(Change) /\ Len(history') = Len(history) + Len(L)
      /\ \A k \in 1..(Len(history) + Len(L)) :
            history'[k] = IF k <= Len(history) THEN history[k] ELSE L[k - Len(history)]
  BY <1>1, ConcatProperties
<1>3. DOMAIN history' = 1..(Len(history) + Len(L))
  BY <1>2, LenProperties
<1>4. ASSUME NEW k \in 1..Len(L)
      PROVE  history'[Len(history) + k] = L[k]
  <2>1. Len(history) + k \in 1..(Len(history) + Len(L)) /\ ~(Len(history) + k <= Len(history))
    BY <1>1
  <2>2. (Len(history) + k) - Len(history) = k
    BY <1>1
  <2> QED BY <1>2, <2>1, <2>2
<1> QED BY <1>1, <1>2, <1>3, <1>4

\* The change of one key by the seed, which is the only one to it.
LEMMA SeedChange ==
  ASSUME Inv, NEW L \in Seq(Change), history' = history \o L,
         NEW m \in Models, NEW p \in 1..Len(L), NEW row \in Row,
         L[p].model = m, \A i \in 1..Len(L) : L[i].model = m => i = p,
         catalog'[m] = row,
         row.price = L[p].price \/ (Known(m) /\ row.price = catalog[m].price),
         row.active = L[p].active \/ (Known(m) /\ row.active = catalog[m].active),
         m \notin mixed => row.price = L[p].price /\ row.active = L[p].active /\ ~Known(m)
  PROVE  Announced(m)' /\ (m \notin mixed => Tells(m)' /\ SeedFirst(m)')
<1> DEFINE n == Len(history) + p
<1>1. /\ Len(history) \in Nat /\ Len(L) \in Nat /\ n \in Nat /\ n \in DOMAIN history'
      /\ history'[n] = L[p] /\ DOMAIN history = 1..Len(history)
      /\ Len(history') = Len(history) + Len(L)
  BY MoreChanges, HistoryProperty, LenProperties DEF Inv
<1>2. \A i \in ChangesOf(m) : i \in 1..Len(history) /\ history'[i] = history[i]
  BY <1>1, MoreChanges DEF Inv, ChangesOf
<1>3. ChangesOf(m) \cup {n} \subseteq ChangesOf(m)'
  <2>1. ChangesOf(m) \subseteq ChangesOf(m)'
    BY <1>1, <1>2, MoreChanges DEF Inv, ChangesOf
  <2> QED BY <1>1, <2>1 DEF ChangesOf
<1>4. ASSUME NEW k \in ChangesOf(m)'
      PROVE  k \in ChangesOf(m) \/ k = n
  <2>1. k \in 1..Len(history') /\ history'[k].model = m
    BY <1>1, MoreChanges DEF Inv, ChangesOf
  <2>2. CASE k > Len(history)
    <3>1. k - Len(history) \in 1..Len(L) /\ history'[k] = L[k - Len(history)]
      BY <2>1, <2>2, MoreChanges DEF Inv
    <3>2. k - Len(history) = p
      BY <2>1, <3>1
    <3> QED BY <1>1, <2>1, <3>2
  <2>3. CASE ~(k > Len(history))
    <3>1. k \in 1..Len(history)
      BY <1>1, <2>1, <2>3
    <3> QED BY <1>1, <2>1, <3>1, MoreChanges DEF Inv, ChangesOf
  <2> QED BY <2>2, <2>3
<1> HIDE DEF n
<1>5. Announced(m) /\ (m \notin mixed => Tells(m))
  BY DEF Inv, Told
<1>6. Announced(m)'
  <2>1. \E i \in ChangesOf(m)' : history'[i].price = row.price
    <3>1. CASE row.price = L[p].price
      BY <1>1, <1>3, <3>1
    <3>2. CASE Known(m) /\ row.price = catalog[m].price
      BY <1>2, <1>3, <1>5, <3>2 DEF Announced
    <3> QED BY <3>1, <3>2
  <2>2. \E i \in ChangesOf(m)' : history'[i].active = row.active
    <3>1. CASE row.active = L[p].active
      BY <1>1, <1>3, <3>1
    <3>2. CASE Known(m) /\ row.active = catalog[m].active
      BY <1>2, <1>3, <1>5, <3>2 DEF Announced
    <3> QED BY <3>1, <3>2
  <2>3. Known(m)'
    BY DEF Known
  <2> QED BY <2>1, <2>2, <2>3 DEF Announced
<1>7. ASSUME m \notin mixed
      PROVE  Tells(m)' /\ SeedFirst(m)'
  <2>1. ChangesOf(m) = {}
    BY <1>5, <1>7 DEF Tells
  <2>2. ChangesOf(m)' = {n}
    BY <1>3, <1>4, <2>1
  <2>3. Known(m)'
    BY DEF Known
  <2>4. history'[n].price = catalog'[m].price /\ history'[n].active = catalog'[m].active
    BY <1>1, <1>7
  <2>5. Tells(m)'
    BY <1>1, <2>2, <2>3, <2>4 DEF Tells
  <2>6. SeedFirst(m)'
    BY <1>1, <2>2 DEF SeedFirst
  <2> QED BY <2>5, <2>6
<1> QED BY <1>6, <1>7

LEMMA SeedWriteKeeps ==
  ASSUME Inv, NEW r \in Requests, SeedWrite(r)
  PROVE  Inv'
<1> DEFINE first == request[r]
<1>1. /\ first.pc = "seed" /\ first \in Upsert
      /\ Stands(first) /\ Aims(first) = LadderModels /\ LadderModels \subseteq Models
  <2>1. first.pc = "seed" /\ first \in Upsert /\ Stands(first)
    BY RequestAt, KindOf DEF SeedWrite, At
  <2> QED BY <2>1, LadderFirst DEF Aims
<1>2. request' = [request EXCEPT ![r] = Idle] /\ UNCHANGED <<offer, enforce, mixed>>
  BY DEF SeedWrite, Respond
<1>3. DOMAIN request' = DOMAIN request
  BY <1>2
<1>4. CASE Conflict(first)
  <2>1. UNCHANGED <<catalog, history, clock>>
    BY <1>4 DEF SeedWrite
  <2>2. TypeOK'
    BY <1>2, <1>3, <2>1 DEF Inv, Typed, TypeOK
  <2> QED BY <1>2, <2>1, <2>2, Ended
<1>5. CASE ~Conflict(first)
  <2> DEFINE entry(i) == IF i = 1 THEN first ELSE SeedEntry(i, clock, catalog[Ladder[i].model])
             position(m) == CHOOSE i \in DOMAIN Ladder : Ladder[i].model = m
             changes == [i \in DOMAIN Ladder |->
                           Record(Ladder[i].model, Ladder[i].price, TRUE, "seed")]
  <2>1. /\ catalog' = [m \in Models |->
                IF m \in LadderModels THEN UpsertRow(catalog[m], entry(position(m)), "seed")
                ELSE catalog[m]]
        /\ history' = history \o changes /\ clock' = clock + Len(Ladder) + 1
    BY <1>5 DEF SeedWrite
  <2>2. \A m \in LadderModels :
           /\ position(m) \in DOMAIN Ladder /\ Ladder[position(m)].model = m
           /\ \A i \in DOMAIN Ladder : Ladder[i].model = m => i = position(m)
    BY DEF LadderModels
  <2>3. changes \in Seq(Change) /\ Len(changes) = Len(Ladder)
    <3>1. \A i \in DOMAIN Ladder : changes[i] \in Change
      BY LadderFirst DEF Record, Change
    <3>2. changes \in [1..Len(Ladder) -> Change] /\ Len(Ladder) \in Nat
      BY <3>1, LadderFirst
    <3> HIDE DEF changes
    <3>3. changes \in Seq(Change)
      BY ONLY <3>2, SeqDef
    <3>4. 1..Len(changes) = 1..Len(Ladder) /\ Len(changes) \in Nat
      BY <3>2, <3>3, LenProperties
    <3> QED BY <3>2, <3>3, <3>4
  <2>4. \A i \in 1..Len(Ladder) :
           /\ changes[i].model = Ladder[i].model /\ changes[i].price = Ladder[i].price
           /\ changes[i].active = TRUE /\ changes[i].source = "seed"
    BY LadderFirst DEF Record
  <2> PICK L : L = changes
    OBVIOUS
  <2> HIDE DEF changes
  <2>5. L \in Seq(Change) /\ history' = history \o L /\ Len(L) = Len(Ladder)
    BY <2>1, <2>3
  <2>6. ASSUME NEW m \in LadderModels
        PROVE  /\ catalog'[m] \in Row
               /\ Announced(m)' /\ (m \notin mixed => Tells(m)' /\ SeedFirst(m)')
    <3>1. PICK p : p = position(m)
      OBVIOUS
    <3>2. /\ p \in DOMAIN Ladder /\ p \in 1..Len(L) /\ Ladder[p].model = m
          /\ \A i \in DOMAIN Ladder : Ladder[i].model = m => i = p
      BY <2>2, <2>5, <3>1, LadderFirst
    <3>3. PICK q : q = entry(p)
      OBVIOUS
    <3>4. m \in Models /\ catalog[m] \in Row \cup {NoRow}
      BY <1>1, RowsTyped DEF Inv
    <3>5. catalog'[m] = UpsertRow(catalog[m], q, "seed")
      BY <2>1, <3>1, <3>3, <3>4
    <3>6. m \notin mixed => ~Known(m)
      BY <1>1 DEF Stands
    <3>7. /\ q \in Upsert /\ q.price = Ladder[p].price /\ q.active = TRUE
          /\ q.seen = NoRow \/ catalog[m] # NoRow
          /\ m \notin mixed => q.seen = catalog[m]
      <4>1. CASE p = 1
        <5>1. q = first /\ first.model = m /\ m = Ladder[1].model
          BY <1>1, <3>2, <3>3, <4>1 DEF Stands
        <5>2. Reads(first)
          BY <1>1 DEF Reads
        <5> QED BY <1>1, <4>1, <5>1, <5>2 DEF Stands, Known
      <4>2. CASE p # 1
        <5>1. q = SeedEntry(p, clock, catalog[m])
          BY <3>2, <3>3, <4>2
        <5>2. /\ q \in Upsert /\ q.seen = catalog[m]
              /\ q.price = Ladder[p].price /\ q.active = TRUE
          BY ONLY Inv, <3>2, <3>4, <5>1, SeedEntryProperty
        <5> QED BY <5>2
      <4> QED BY <4>1, <4>2
    <3>8. PICK row : row = UpsertRow(catalog[m], q, "seed")
      OBVIOUS
    <3>9. /\ row \in Row
          /\ row.price = q.price \/ (catalog[m] # NoRow /\ row.price = catalog[m].price)
          /\ row.active = q.active \/ (catalog[m] # NoRow /\ row.active = catalog[m].active)
          /\ q.seen = catalog[m] => row.price = q.price /\ row.active = q.active
      <4>1. "seed" \in {"admin", "seed"}
        OBVIOUS
      <4> QED BY ONLY <3>4, <3>7, <3>8, <4>1, UpsertRowProperty
    <3>10. L[p].model = m /\ L[p].price = Ladder[p].price /\ L[p].active = TRUE
      BY <2>4, <2>5, <3>2
    <3>11. \A i \in 1..Len(L) : L[i].model = m => i = p
      <4>1. DOMAIN Ladder = 1..Len(Ladder)
        BY LadderFirst
      <4>2. ASSUME NEW i \in 1..Len(L), L[i].model = m
            PROVE  i = p
        <5>1. i \in DOMAIN Ladder /\ L[i].model = Ladder[i].model
          BY <2>4, <2>5, <4>1
        <5> QED BY <3>2, <4>2, <5>1
      <4> QED BY <4>2
    <3>12. /\ row.price = L[p].price \/ (Known(m) /\ row.price = catalog[m].price)
           /\ row.active = L[p].active \/ (Known(m) /\ row.active = catalog[m].active)
      BY <3>7, <3>9, <3>10 DEF Known
    <3>13. m \notin mixed => row.price = L[p].price /\ row.active = L[p].active /\ ~Known(m)
      BY <3>6, <3>7, <3>9, <3>10
    <3>14. catalog'[m] = row /\ row \in Row /\ p \in 1..Len(L) /\ m \in Models
      BY <3>2, <3>4, <3>5, <3>8, <3>9
    <3>15. Announced(m)' /\ (m \notin mixed => Tells(m)' /\ SeedFirst(m)')
      BY ONLY Inv, <2>5, <3>10, <3>11, <3>12, <3>13, <3>14, SeedChange
    <3> QED BY <3>14, <3>15
  <2>7. catalog' \in [Models -> Row \cup {NoRow}]
    <3>1. \A m \in Models : catalog'[m] \in Row \cup {NoRow}
      BY <2>1, <2>6, RowsTyped DEF Inv
    <3> QED BY <2>1, <3>1
  <2>8. Extends(LadderModels)
    <3>1. ASSUME NEW k \in 1..Len(history'), k > Len(history)
          PROVE  history'[k].model \in LadderModels
      <4>1. k - Len(history) \in 1..Len(L) /\ history'[k] = L[k - Len(history)]
        BY <2>5, <3>1, MoreChanges DEF Inv
      <4>2. PICK i \in 1..Len(Ladder) : history'[k] = L[i]
        BY <2>5, <4>1
      <4>3. history'[k].model = Ladder[i].model
        BY <2>4, <4>2
      <4> QED BY <4>3, LadderFirst DEF LadderModels
    <3>2. \A m \in Models : m \notin LadderModels => catalog'[m] = catalog[m]
      BY <2>1
    <3>3. \A m \in LadderModels : catalog'[m] # NoRow
      BY <2>6
    <3>4. /\ Len(history) <= Len(history')
          /\ \A k \in 1..Len(history) : history'[k] = history[k]
      BY <2>5, MoreChanges, HistoryProperty, LadderFirst DEF Inv
    <3> QED BY <3>1, <3>2, <3>3, <3>4 DEF Extends, Known
  <2>9. TypeOK'
    <3>1. clock' \in Nat
      BY <2>1, LadderFirst DEF Inv, Typed, TypeOK
    <3>2. history' \in Seq(Change)
      BY <2>5, MoreChanges DEF Inv
    <3> QED BY <1>2, <1>3, <2>7, <3>1, <3>2 DEF Inv, Typed, TypeOK
  <2>10. /\ Extends(Aims(request[r]))
         /\ \A m \in Aims(request[r]) :
               Announced(m)' /\ (m \notin mixed => Tells(m)' /\ SeedFirst(m)')
    BY <1>1, <2>6, <2>8
  <2> QED BY <1>2, <2>9, <2>10, Committed
<1> QED BY <1>4, <1>5
-----------------------------------------------------------------------------
(* Offers. *)

\* An offer that takes the active row of m quotes the newest change of m.
LEMMA TakenFromHistory ==
  ASSUME Inv, NEW m \in Models, ActiveRow(m), NEW q \in Create,
         q.offer.model = m, q.offer.snap = catalog[m].price, q.asked <= Len(history),
         UNCHANGED <<catalog, history>>, mixed \subseteq mixed'
  PROVE  Stands(q)' /\ Quotes(q)'
<1>1. q.pc = "create"
  BY DEF Create
<1>2. Known(m) /\ catalog[m].active
  BY DEF ActiveRow
<1>3. Announced(m) /\ (m \notin mixed => Tells(m))
  BY DEF Inv, Told
<1>4. \E i \in ChangesOf(m) :
         /\ history[i].price = catalog[m].price
         /\ m \in mixed \/ (history[i].active /\ \A j \in ChangesOf(m) : j <= i)
  <2>1. CASE m \in mixed
    BY <1>2, <1>3, <2>1 DEF Announced
  <2>2. CASE m \notin mixed
    BY <1>2, <1>3, <2>2 DEF Tells
  <2> QED BY <2>1, <2>2
<1>5. PICK i \in ChangesOf(m) :
         /\ history[i].price = catalog[m].price
         /\ m \in mixed \/ (history[i].active /\ \A j \in ChangesOf(m) : j <= i)
  BY <1>4
<1>6. ChangesOf(m)' = ChangesOf(m)
  BY DEF ChangesOf
<1>7. \A j \in ChangesOf(m) : j <= i => ~(i < j)
  BY ChangesAre DEF Inv
<1>8. Quotes(q)'
  BY <1>5, <1>6, <1>7 DEF Quotes
<1>9. Stands(q)'
  BY <1>1 DEF Stands, Reads
<1> QED BY <1>8, <1>9

LEMMA QuoteProperty ==
  ASSUME NEW price \in Asked, NEW m \in Models, NEW row \in Row
  PROVE  /\ Quote(price, m, row) \in Offer
         /\ Quote(price, m, row).model = m /\ Quote(price, m, row).snap = row.price
<1>1. \A list : Band(list, row) \in {"none", "over", "under"}
  BY DEF Band
<1>2. row.price \in Nat /\ price \in Nat
  BY DEF Row
<1> QED BY <1>1, <1>2 DEF Quote, Offer

LEMMA CreateByKeyKeeps ==
  ASSUME Inv, NEW r \in Requests, NEW label, NEW price \in Asked, CreateByKey(r, label, price)
  PROVE  Inv'
<1>1. label \in Models /\ ActiveRow(label)
  BY DEF CreateByKey
<1>2. PICK o : o = Quote(price, label, catalog[label])
  OBVIOUS
<1>3. PICK q : q = [pc |-> "create", offer |-> o, asked |-> Len(history)]
  OBVIOUS
<1>4. Begin(r, {}, q)
  BY <1>2, <1>3 DEF CreateByKey
<1>5. catalog[label] \in Row
  BY <1>1, RowsTyped DEF Inv, ActiveRow, Known
<1>6. o \in Offer /\ o.model = label /\ o.snap = catalog[label].price
  BY <1>1, <1>2, <1>5, QuoteProperty
<1>7. /\ q \in Create /\ q \in Request
      /\ q.offer.model = label /\ q.offer.snap = catalog[label].price
      /\ q.asked <= Len(history)
  BY <1>3, <1>6, HistoryProperty DEF Inv, Create, Request
<1>8. Aims(q) \subseteq {}
  BY <1>3 DEF Aims
<1>9. UNCHANGED <<catalog, history>> /\ mixed \subseteq mixed'
  BY <1>4 DEF Begin
<1>10. Stands(q)' /\ Quotes(q)'
  BY <1>1, <1>7, <1>9, TakenFromHistory
<1> QED BY <1>4, <1>7, <1>8, <1>10, Begun

LEMMA CreateMissKeeps ==
  ASSUME Inv, NEW r \in Requests, NEW label \in Models \cup Families, NEW price \in Asked,
         CreateMiss(r, label, price)
  PROVE  Inv'
<1>1. PICK q : q = [pc |-> "create_family", family |-> FamilyOfLabel(label), price |-> price,
                    asked |-> Len(history)]
  OBVIOUS
<1>2. Begin(r, {}, q)
  BY <1>1 DEF CreateMiss
<1>3. FamilyOfLabel(label) \in Families
  BY DEF FamilyOfLabel
<1>4. q \in Request /\ q.pc = "create_family" /\ q.asked <= Len(history)
  BY <1>1, <1>3, HistoryProperty DEF Inv, CreateFamily, Request
<1>5. Aims(q) \subseteq {}
  BY <1>4 DEF Aims
<1>6. UNCHANGED <<catalog, history>>
  BY <1>2 DEF Begin
<1>7. Stands(q)' /\ Quotes(q)'
  BY <1>4, <1>6 DEF Stands, Quotes, Reads
<1> QED BY <1>2, <1>4, <1>5, <1>7, Begun

LEMMA CreateByFamilyKeeps ==
  ASSUME Inv, NEW r \in Requests, CreateByFamily(r) \/ CreateUnquoted(r)
  PROVE  Inv'
<1>1. PICK q : q = request[r]
  OBVIOUS
<1>2. /\ q \in CreateFamily /\ q.price \in Asked /\ q.price \in Nat /\ q.asked \in Nat
      /\ q.asked <= Len(history)
  <2>1. q \in Request /\ q.pc = "create_family" /\ Quotes(q)
    BY <1>1, RequestAt DEF CreateByFamily, CreateUnquoted, At
  <2>2. q \in CreateFamily
    BY <2>1, KindOf
  <2> QED BY <2>1, <2>2 DEF Quotes, CreateFamily
<1>3. CASE CreateByFamily(r)
  <2>1. PICK m \in ActiveOfFamily(q.family) :
           Learn(r, [pc |-> "create", offer |-> Quote(q.price, m, catalog[m]), asked |-> q.asked])
    BY <1>1, <1>3 DEF CreateByFamily
  <2>2. m \in Models /\ ActiveRow(m)
    BY DEF ActiveOfFamily
  <2>3. PICK o : o = Quote(q.price, m, catalog[m])
    OBVIOUS
  <2>4. PICK n : n = [pc |-> "create", offer |-> o, asked |-> q.asked]
    OBVIOUS
  <2>5. Learn(r, n)
    BY <2>1, <2>3, <2>4
  <2>6. catalog[m] \in Row
    BY <2>2, RowsTyped DEF Inv, ActiveRow, Known
  <2>7. o \in Offer /\ o.model = m /\ o.snap = catalog[m].price
    BY <1>2, <2>2, <2>3, <2>6, QuoteProperty
  <2>8. /\ n \in Create /\ n \in Request
        /\ n.offer.model = m /\ n.offer.snap = catalog[m].price /\ n.asked <= Len(history)
    BY <1>2, <2>4, <2>7 DEF Create, Request
  <2>9. Aims(n) \subseteq Aims(request[r])
    BY <2>4 DEF Aims
  <2>10. UNCHANGED <<catalog, history>> /\ mixed \subseteq mixed'
    BY <2>5 DEF Learn
  <2>11. Stands(n)' /\ Quotes(n)'
    BY <2>2, <2>8, <2>10, TakenFromHistory
  <2> QED BY <2>5, <2>8, <2>9, <2>11, Learned
<1>4. CASE CreateUnquoted(r)
  <2>1. PICK n : n = [pc |-> "create", offer |-> Unquoted(q.price), asked |-> q.asked]
    OBVIOUS
  <2>2. Learn(r, n)
    BY <1>1, <1>4, <2>1 DEF CreateUnquoted
  <2>3. Unquoted(q.price) \in Offer /\ Unquoted(q.price).model = NoModel
    BY <1>2 DEF Unquoted, Offer
  <2>4. n \in Request /\ n.pc = "create" /\ n.offer.model = NoModel /\ n.asked <= Len(history)
    BY <1>2, <2>1, <2>3 DEF Create, Request
  <2>5. Aims(n) \subseteq Aims(request[r])
    BY <2>4 DEF Aims
  <2>6. UNCHANGED <<catalog, history>>
    BY <2>2 DEF Learn
  <2>7. Stands(n)' /\ Quotes(n)'
    BY <2>4, <2>6 DEF Stands, Quotes, Reads
  <2> QED BY <2>2, <2>4, <2>5, <2>7, Learned
<1> QED BY <1>3, <1>4
-----------------------------------------------------------------------------
LEMMA InitInv == Init => Inv
<1> SUFFICES ASSUME Init
             PROVE  Inv
  OBVIOUS
<1>1. Typed
  BY IdleProperty DEF Init, Typed, TypeOK
<1>2. \A m \in Models : ~Known(m) /\ ChangesOf(m) = {}
  <2>1. Len(history) = 0
    BY EmptySeq DEF Init
  <2>2. ASSUME NEW m \in Models
        PROVE  ChangesOf(m) = {}
    <3>1. \A i \in ChangesOf(m) : FALSE
      BY <1>1, <2>1, ChangesAre
    <3> QED BY <3>1
  <2>3. \A m \in Models : ~Known(m)
    BY DEF Init, Known
  <2> QED BY <2>2, <2>3
<1>3. Told
  BY <1>2 DEF Told, Announced, Tells, SeedFirst
<1>4. \A r \in Requests : request[r] = Idle
  BY DEF Init
<1>5. Alone /\ Standing
  BY <1>4, IdleProperty DEF Alone, Standing, Stands, Quotes, Reads
<1> QED BY <1>1, <1>3, <1>5 DEF Inv

LEMMA StepInv == Inv /\ [Next]_vars => Inv'
<1> SUFFICES ASSUME Inv, [Next]_vars
             PROVE  Inv'
  OBVIOUS
<1>1. CASE UNCHANGED vars
  <2>1. UNCHANGED <<catalog, history, offer, request, clock, enforce, mixed>>
    BY <1>1 DEF vars
  <2>2. \A m \in Models : /\ Announced(m) => Announced(m)'
                          /\ Tells(m) => Tells(m)'
                          /\ SeedFirst(m) => SeedFirst(m)'
    BY <2>1 DEF Announced, Tells, SeedFirst, ChangesOf, Known
  <2>3. Told'
    BY <2>1, <2>2 DEF Inv, Told
  <2>4. Typed' /\ Alone'
    BY <2>1 DEF Inv, Typed, TypeOK, Alone
  <2>5. Standing'
    BY <2>1 DEF Inv, Standing, Stands, Quotes, ChangesOf, Known
  <2> QED BY <2>3, <2>4, <2>5 DEF Inv
<1>2. ASSUME NEW r \in Requests, NEW m \in Models, NEW b \in Bodies, UpsertRead(r, m, b)
      PROVE  Inv'
  BY <1>2, UpsertReadKeeps
<1>3. ASSUME NEW r \in Requests, NEW m \in Models, DisableRead(r, m)
      PROVE  Inv'
  BY <1>3, DisableReadKeeps
<1>4. ASSUME NEW r \in Requests,
             UpsertWrite(r) \/ DisableWrite(r) \/ SeedCount(r) \/ SeedRead(r) \/ SeedWrite(r)
      PROVE  Inv'
  BY <1>4, UpsertWriteKeeps, DisableWriteKeeps, SeedCountKeeps, SeedReadKeeps, SeedWriteKeeps
<1>5. ASSUME NEW r \in Requests, CreateOffer(r)
      PROVE  Inv'
  BY <1>5, CreateByKeyKeeps, CreateMissKeeps DEF CreateOffer
<1>6. ASSUME NEW r \in Requests, CreateByFamily(r) \/ CreateUnquoted(r)
      PROVE  Inv'
  BY <1>6, CreateByFamilyKeeps
<1>7. ASSUME NEW r \in Requests, CreateWrite(r) \/ Abort(r)
      PROVE  Inv'
  BY <1>7, AbortKeeps
<1> QED BY <1>1, <1>2, <1>3, <1>4, <1>5, <1>6, <1>7 DEF Next

\* The inductive invariant: for any number of requests that read and write the
\* catalog in any order (upsert_catalog_price, disable_catalog_price,
\* seed_default_catalog, create_offer), what was read still stands, or the
\* history knows that two of them were at the key.
THEOREM CatalogInvariant == Spec => []Inv
BY InitInv, StepInv, PTL DEF Spec

\* Every row, change and offer is one that the tables can hold.
THEOREM TypeCorrect == Spec => []TypeOK
<1>1. Inv => TypeOK
  BY DEF Inv, Typed
<1> QED BY <1>1, CatalogInvariant, PTL

\* The audit log tells the catalog: price and state of every key were announced
\* for it, a key that no two requests were changing at a time is as its last
\* history row says, and a key has no row while it is not there.
THEOREM HistoryCorrect == Spec => []HistoryTells
<1>1. Inv => HistoryTells
  <2> SUFFICES ASSUME Inv PROVE HistoryTells
    OBVIOUS
  <2>1. ASSUME NEW m \in Models, Known(m), m \notin mixed
        PROVE  Last(m).price = catalog[m].price /\ Last(m).active = catalog[m].active
    <3>1. PICK i \in ChangesOf(m) : /\ \A j \in ChangesOf(m) : j <= i
                                    /\ history[i].price = catalog[m].price
                                    /\ history[i].active = catalog[m].active
      BY <2>1 DEF Inv, Told, Tells
    <3>2. \A k \in ChangesOf(m) : (\A j \in ChangesOf(m) : j <= k) => k = i
      BY <3>1, ChangesAre DEF Inv
    <3>3. Last(m) = history[i]
      BY <3>1, <3>2 DEF Last
    <3> QED BY <3>1, <3>3
  <2>2. \A m \in Models : Announced(m)
    BY DEF Inv, Told
  <2> QED BY <2>1, <2>2 DEF HistoryTells, Announced
<1> QED BY <1>1, CatalogInvariant, PTL

\* Every offer that takes its price from the catalog quotes a price announced
\* for that key, which was in force since the offer was asked for, or two
\* requests were at the key (create_offer, _resolve_catalog_price).
THEOREM OffersAreQuoted == Spec => []OffersQuoteHistory
<1>1. Inv => OffersQuoteHistory
  <2> SUFFICES ASSUME Inv, NEW r \in Requests, At(r, "create"),
                      request[r].offer.model # NoModel
               PROVE  LET o == request[r].offer
                      IN  \E i \in ChangesOf(o.model) :
                             /\ history[i].price = o.snap
                             /\ \/ o.model \in mixed
                                \/ /\ history[i].active
                                   /\ \A j \in ChangesOf(o.model) :
                                         i < j => j > request[r].asked
    BY DEF OffersQuoteHistory
  <2>1. Quotes(request[r])
    BY RequestAt
  <2> QED BY <2>1 DEF Quotes, At
<1> QED BY <1>1, CatalogInvariant, PTL

\* The boot seed writes no key that an admin has written, however many services
\* boot (maybe_seed_prices_on_boot), unless both were changing the key at the same
\* time: then it may, as SeedNeverClobbers shows.
THEOREM AdminIsKept == Spec => []SeedKeepsAdmin
<1>1. Inv => SeedKeepsAdmin
  BY DEF Inv, Told, SeedFirst, SeedKeepsAdmin
<1> QED BY <1>1, CatalogInvariant, PTL
=============================================================================
