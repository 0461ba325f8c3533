------------------------------ MODULE Catalog ------------------------------
(***************************************************************************)
(* The GPU price catalog (domain/pricing.py, api/prices.py), its history,   *)
(* the seed of an empty catalog at boot, and the part of create_offer that  *)
(* takes a price from it.  A request reads a row and later writes only the  *)
(* columns that differ from what it had read; nothing is checked again.     *)
(***************************************************************************)
EXTENDS Naturals, Sequences

CONSTANTS
    Models,       \* catalog keys: numbers, so that they have an order
    Families,     \* what normalize_gpu_model makes of a label that is no key
    FamilyOf,     \* [Models -> Families]: _derive_family
    Bodies,       \* PUT bodies: [price, active, max], the max_offer_multiplier
                  \* being 0 where it is left out
    Asked,        \* prices an offer may ask for; 0 where it is left out
    Ladder,       \* DEFAULT_SEED_LADDER: a sequence of [model, price]
    Enforcements, \* the values of price_enforce to check, a service has one
    MaxMultiplier, MinFraction, \* the default band: price * Max, price / Min
    PriceCap,     \* max_offer_price_per_hour
    Requests, OfferIds,
    MaxChanges,   \* bound: how many history rows there are
    NoRow, NoModel

ASSUME CatalogAssumption ==
    /\ Models \subseteq Nat
    /\ FamilyOf \in [Models -> Families]
    /\ Bodies \subseteq [price : Nat \ {0}, active : BOOLEAN, max : Nat]
    /\ Asked \subseteq Nat
    /\ Ladder \in Seq([model : Models, price : Nat \ {0}]) /\ Ladder # <<>>
    /\ \A i, j \in DOMAIN Ladder : Ladder[i].model = Ladder[j].model => i = j
    /\ Enforcements \subseteq {"off", "soft", "hard"}
    /\ MaxMultiplier \in Nat \ {0} /\ MinFraction \in Nat \ {0}
    /\ NoModel \notin Models

Row == [price : Nat \ {0}, active : BOOLEAN, since : Nat, source : {"admin", "seed"},
        max : Nat]
ASSUME NoRowAssumption == NoRow \notin Row

VARIABLES
    catalog,  \* gpu_price_catalog: a row, or none, for each key
    history,  \* gpu_price_history, in the order of the commits
    offer,    \* the price columns of offers
    request,  \* what each request under way has read
    clock,    \* utc_now; it advances with each change
    enforce,  \* HYPER_PRICE_ENFORCE
    mixed     \* history: keys that two requests were changing at a time

vars == <<catalog, history, offer, request, clock, enforce, mixed>>

Change == [model : Models, price : Nat \ {0}, active : BOOLEAN, source : {"admin", "seed"}]
Offer == [price : Nat, explicit : BOOLEAN, model : Models \cup {NoModel}, snap : Nat,
          flag : {"none", "over", "under"}]

LadderModels == {Ladder[i].model : i \in DOMAIN Ladder}
Known(m) == catalog[m] # NoRow

Idle == [pc |-> "idle"]
At(r, pc) == request[r].pc = pc

\* The keys that a request under way is going to write.
Targets(r) ==
    CASE request[r].pc \in {"upsert", "disable"} -> {request[r].model}
      [] request[r].pc \in {"seed_read", "seed"} -> LadderModels
      [] OTHER -> {}

Init ==
    /\ catalog = [m \in Models |-> NoRow]
    /\ history = <<>>
    /\ offer = [o \in OfferIds |-> NoRow]
    /\ request = [r \in Requests |-> Idle]
    /\ clock = 0
    /\ enforce \in Enforcements
    /\ mixed = {}

Begin(r, S, q) ==
    /\ At(r, "idle")
    /\ request' = [request EXCEPT ![r] = q]
    /\ mixed' = mixed \cup (S \cap UNION {Targets(p) : p \in Requests})
    /\ UNCHANGED <<catalog, history, offer, clock, enforce>>

Learn(r, q) ==
    /\ request' = [request EXCEPT ![r] = q]
    /\ UNCHANGED <<catalog, history, offer, clock, enforce, mixed>>

\* The answer, of an error too, or a request that dies: its session is closed
\* without a commit.
Respond(r) == request' = [request EXCEPT ![r] = Idle]
Abort(r) ==
    /\ ~At(r, "idle")
    /\ Respond(r)
    /\ UNCHANGED <<catalog, history, offer, clock, enforce, mixed>>

Record(m, price, active, source) ==
    [model |-> m, price |-> price, active |-> active, source |-> source]

\* What the flush leaves of a row: a column of `new` that equals the one in
\* `seen` is not written, so what others committed to it since stays.
Flush(row, seen, new) ==
    [c \in DOMAIN row |-> IF new[c] = seen[c] THEN row[c] ELSE new[c]]
-----------------------------------------------------------------------------
\* upsert_catalog_price behind PUT and POST /v1/admin/gpu-prices: `now` is
\* taken, then the row is read.  A price that is not positive, or a currency
\* other than USD, is refused before.
UpsertRead(r, m, b) ==
    /\ Len(history) < MaxChanges
    /\ Begin(r, {m}, [pc |-> "upsert", model |-> m, seen |-> catalog[m], now |-> clock,
                      price |-> b.price, active |-> b.active, max |-> b.max])

Upserted(q, source) ==
    [price |-> q.price, active |-> q.active, since |-> q.now, source |-> source,
     max |-> IF q.max = 0 /\ q.seen # NoRow THEN q.seen.max ELSE q.max]

UpsertRow(row, q, source) ==
    IF q.seen = NoRow THEN Upserted(q, source) ELSE Flush(row, q.seen, Upserted(q, source))

\* The insert of a key that another request has inserted since violates
\* uq_gpu_price_catalog_model_key: the request fails, nothing is kept.
Conflict(q) == q.seen = NoRow /\ Known(q.model)

UpsertWrite(r) ==
    LET q == request[r]
    IN  /\ At(r, "upsert")
        /\ Respond(r)
        /\ IF Conflict(q)
             THEN UNCHANGED <<catalog, history, clock>>
             ELSE /\ Len(history) < MaxChanges
                  /\ catalog' = [catalog EXCEPT ![q.model] = UpsertRow(@, q, "admin")]
                  /\ history' = Append(history, Record(q.model, q.price, q.active, "admin"))
                  /\ clock' = clock + 1
        /\ UNCHANGED <<offer, enforce, mixed>>

\* disable_catalog_price: the history row repeats the price that was read.
DisableRead(r, m) ==
    /\ Known(m) /\ Len(history) < MaxChanges
    /\ Begin(r, {m}, [pc |-> "disable", model |-> m, seen |-> catalog[m]])

\* Mutant of Disabled: the history row says nothing of the flip.
DisabledStillActive(q) == Record(q.model, q.seen.price, q.seen.active, "admin")

Disabled(q) == Record(q.model, q.seen.price, FALSE, "admin")

DisableWrite(r) ==
    LET q == request[r]
    IN  /\ At(r, "disable")
        /\ Len(history) < MaxChanges
        /\ catalog' = [catalog EXCEPT ![q.model] =
                         Flush(@, q.seen, [q.seen EXCEPT !.active = FALSE])]
        /\ history' = Append(history, Disabled(q))
        /\ clock' = clock + 1
        /\ Respond(r)
        /\ UNCHANGED <<offer, enforce, mixed>>

\* Mutant of Empty: only the first key of the ladder is looked for.
FirstMissing == ~Known(Ladder[1].model)

\* maybe_seed_prices_on_boot, seed_default_catalog(only_if_empty=True): the
\* count, ...
Empty == \A m \in Models : ~Known(m)

SeedCount(r) ==
    /\ Empty
    /\ Begin(r, LadderModels, [pc |-> "seed_read"])

\* The upsert of the i-th entry of the ladder, `now` later than the entry before.
SeedEntry(i, now, seen) ==
    [pc |-> "seed", model |-> Ladder[i].model, seen |-> seen, now |-> now + i,
     price |-> Ladder[i].price, active |-> TRUE, max |-> 0]

\* ... the read of the first key of the ladder, ...
SeedRead(r) ==
    /\ At(r, "seed_read")
    /\ Learn(r, SeedEntry(1, clock, catalog[Ladder[1].model]))

\* ... and the rest under the write lock that the first flush takes: the later
\* keys are read behind it, as they are.  The boot hook swallows a conflict.
SeedWrite(r) ==
    LET first == request[r]
        entry(i) == IF i = 1 THEN first
                    ELSE SeedEntry(i, clock, catalog[Ladder[i].model])
        position(m) == CHOOSE i \in DOMAIN Ladder : Ladder[i].model = m
    IN  /\ At(r, "seed")
        /\ Respond(r)
        /\ IF Conflict(first)
             THEN UNCHANGED <<catalog, history, clock>>
             ELSE /\ Len(history) + Len(Ladder) <= MaxChanges
                  /\ catalog' = [m \in Models |->
                        IF m \in LadderModels THEN UpsertRow(catalog[m], entry(position(m)), "seed")
                        ELSE catalog[m]]
                  /\ history' = history \o [i \in DOMAIN Ladder |->
                        Record(Ladder[i].model, Ladder[i].price, TRUE, "seed")]
                  /\ clock' = clock + Len(Ladder) + 1
        /\ UNCHANGED <<offer, enforce, mixed>>
-----------------------------------------------------------------------------
ActiveRow(m) == Known(m) /\ catalog[m].active
FamilyOfLabel(label) == IF label \in Models THEN FamilyOf[label] ELSE label

\* The order of the rows of a family: newest effective_from, then model_key.
Precedes(m, n) ==
    \/ catalog[m].since > catalog[n].since
    \/ catalog[m].since = catalog[n].since /\ m <= n

\* Mutant of ActiveOfFamily: disabled rows resolve too.
KnownOfFamily(f) == {m \in Models : FamilyOf[m] = f /\ Known(m)}

ActiveOfFamily(f) == {m \in Models : FamilyOf[m] = f /\ ActiveRow(m)}

\* _offer_caps, _offer_price_policy: the settings that an offer is held to.
OfferPolicy ==
    [cap |-> PriceCap, enforce |-> enforce, max |-> MaxMultiplier, min |-> MinFraction]

\* apply_catalog_price_band, whose answer is the flag of the soft mode.
Band(list, row) ==
    LET max == IF row.max > 0 THEN row.max ELSE OfferPolicy.max
    IN  CASE OfferPolicy.enforce = "off" -> "none"
          [] list > row.price * max -> "over"
          [] list * OfferPolicy.min < row.price -> "under"
          [] OTHER -> "none"

\* The second half of create_offer: the list price, the offer's own or the
\* row's (price 0: it was left out), under the cap, and its band.
Quote(price, m, row) ==
    [price |-> IF price = 0 THEN row.price ELSE price, explicit |-> price # 0,
     model |-> m, snap |-> row.price,
     flag |-> Band(IF price = 0 THEN row.price ELSE price, row)]
Unquoted(price) ==
    [price |-> price, explicit |-> TRUE, model |-> NoModel, snap |-> 0, flag |-> "none"]

Accepted(o) == o.price <= OfferPolicy.cap /\ (OfferPolicy.enforce = "hard" => o.flag = "none")

\* create_offer (`asked` is history: how many changes there were when it was
\* called), whose label is a key or a free-form name: the active row of
\* that key; ...
CreateByKey(r, label, price) ==
    LET o == Quote(price, label, catalog[label])
    IN  /\ label \in Models
        /\ ActiveRow(label)
        /\ Accepted(o)
        /\ Begin(r, {}, [pc |-> "create", offer |-> o, asked |-> Len(history)])

CreateMiss(r, label, price) ==
    /\ label \in Models => ~ActiveRow(label)
    /\ Begin(r, {}, [pc |-> "create_family", family |-> FamilyOfLabel(label), price |-> price,
                   asked |-> Len(history)])

\* ... else the newest active row of its family, another key's perhaps; ...
CreateByFamily(r) ==
    LET q == request[r]
    IN  /\ At(r, "create_family")
        /\ \E m \in ActiveOfFamily(q.family) :
              /\ \A n \in ActiveOfFamily(q.family) : Precedes(m, n)
              /\ LET o == Quote(q.price, m, catalog[m])
                 IN  Accepted(o) /\ Learn(r, [pc |-> "create", offer |-> o, asked |-> q.asked])

\* ... else none, and then the request must name a price itself.
CreateUnquoted(r) ==
    LET q == request[r]
    IN  /\ At(r, "create_family")
        /\ ActiveOfFamily(q.family) = {}
        /\ q.price # 0
        /\ Accepted(Unquoted(q.price))
        /\ Learn(r, [pc |-> "create", offer |-> Unquoted(q.price), asked |-> q.asked])

\* POST /v1/offers names a GPU by a key or a family, and a price or none.
CreateOffer(r) ==
    \E label \in Models \cup Families, price \in Asked :
        CreateByKey(r, label, price) \/ CreateMiss(r, label, price)

CreateWrite(r) ==
    /\ At(r, "create")
    /\ \E o \in OfferIds :
          /\ offer[o] = NoRow
          /\ offer' = [offer EXCEPT ![o] = request[r].offer]
    /\ Respond(r)
    /\ UNCHANGED <<catalog, history, clock, enforce, mixed>>
-----------------------------------------------------------------------------
Next ==
    \E r \in Requests :
        \/ \E m \in Models, b \in Bodies : UpsertRead(r, m, b)
        \/ UpsertWrite(r)
        \/ \E m \in Models : DisableRead(r, m)
        \/ DisableWrite(r)
        \/ SeedCount(r) \/ SeedRead(r) \/ SeedWrite(r)
        \/ CreateOffer(r)
        \/ CreateByFamily(r) \/ CreateUnquoted(r) \/ CreateWrite(r)
        \/ Abort(r)

Spec == Init /\ [][Next]_vars
-----------------------------------------------------------------------------
\* Every row, change and offer is one the tables can hold.
TypeOK ==
    /\ catalog \in [Models -> Row \cup {NoRow}]
    /\ history \in Seq(Change)
    /\ offer \in [OfferIds -> Offer \cup {NoRow}]
    /\ DOMAIN request = Requests
    /\ clock \in Nat /\ enforce \in Enforcements /\ mixed \subseteq Models

ChangesOf(m) == {i \in DOMAIN history : history[i].model = m}
Last(m) == history[CHOOSE i \in ChangesOf(m) : \A j \in ChangesOf(m) : j <= i]

\* "Append-only audit log, every catalog upsert/disable must append a row": the
\* price and the state of every key in the catalog were announced for that key,
\* each of them in some row, and a key outside the catalog has no row.  A key that
\* no two requests were changing at a time is as its last history row says.
HistoryTells ==
    \A m \in Models :
        IF Known(m)
        THEN /\ \E i \in ChangesOf(m) : history[i].price = catalog[m].price
             /\ \E i \in ChangesOf(m) : history[i].active = catalog[m].active
             /\ m \notin mixed => /\ Last(m).price = catalog[m].price
                                  /\ Last(m).active = catalog[m].active
        ELSE ChangesOf(m) = {}

\* A miner's offer that names a catalog row quotes a price that was announced
\* for that key, and, unless two requests were changing the key at a time, one
\* that was in force, and not disabled, since the offer was asked for.
OffersQuoteHistory ==
    \A r \in Requests : At(r, "create") =>
        LET o == request[r].offer
            changes == ChangesOf(o.model)
        IN  o.model # NoModel =>
              \E i \in changes :
                  /\ history[i].price = o.snap
                  /\ \/ o.model \in mixed
                     \/ /\ history[i].active
                        /\ \A j \in changes : i < j => j > request[r].asked

\* The boot seed writes no key after an admin did, unless both were changing the
\* key at the same time: what the look at the catalog before the seed is for.
SeedKeepsAdmin ==
    \A m \in Models \ mixed : \A i, j \in ChangesOf(m) :
        i < j /\ history[i].source = "admin" => history[j].source = "admin"

\* "Never clobbers admin rows" (maybe_seed_prices_on_boot): the same, at any time.
SeedNeverClobbers ==
    \A m \in Models : \A i, j \in ChangesOf(m) :
        i < j /\ history[i].source = "admin" => history[j].source = "admin"

=============================================================================
