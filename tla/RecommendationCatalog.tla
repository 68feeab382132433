------------------------ MODULE RecommendationCatalog ------------------------
(***************************************************************************)
(* The shared catalog of recommendationservice: replicas that consume one  *)
(* durable of catalog events, keep one KV record per product, the index of *)
(* active products and the snapshot marker in a JetStream KV bucket, and   *)
(* answer from a cached copy of index and marker.  Every get, create and   *)
(* update of the bucket is one step; each replica has one event in hand.   *)
(* The cache is that of the replica CacheHost, read by several handlers.   *)
(***************************************************************************)
EXTENDS Naturals, FiniteSets

CONSTANTS
    Products,
    Events,        \* [id, kind, product, version, count]
    Legacy,        \* product records found in the bucket at the first start
    CatalogReplicas,
    CacheHost,     \* the replica whose cache is modelled
    Readers,       \* its concurrent request handlers
    None,
    MaxAttempts,   \* 20 in the code
    MaxCatalogFaults   \* bound on crashes, failed calls and spurious redeliveries

Kinds == {"upsert", "removal", "snapshot"}

CatalogAssumption ==
    /\ Events \cup Legacy \subseteq [id : STRING, kind : Kinds,
                    product : Products \cup {None}, version : Nat \ {0}, count : Nat]
    /\ \A e \in Events \cup Legacy : e.kind # "snapshot" => e.product \in Products
    /\ \A e, f \in Legacy : e.product = f.product => e = f
    /\ \A e \in Legacy : e.kind # "snapshot"
    /\ CacheHost \in CatalogReplicas
    /\ MaxAttempts \in Nat \ {0} /\ MaxCatalogFaults \in Nat
    /\ None \notin Events \cup Legacy /\ None \notin Products \cup Readers
    /\ "catalog" \notin Products

Keys == Products \cup {"catalog"}

VARIABLES
    record,     \* the bucket's value under a product's key and under "catalog"
    revisions,  \* the revision of that value, 0 when the key is absent
    index,      \* the value under catalog-products and its revision
    catalogQueued, catalogGiven,   \* events to deliver / given up after the last delivery
    handler,    \* one catalog handler per replica
    cache,      \* _CatalogCache: value, fresh, the holder of its lock
    reader,
    catalogFaults

bucket == <<record, revisions, index>>
catalogBroker == <<catalogQueued, catalogGiven>>
serving == <<cache, reader>>
catalogVars == <<bucket, catalogBroker, handler, serving, catalogFaults>>

NoIndex == [revision |-> 0, ids |-> {}]
Handler == [pc |-> "start", event |-> None, revision |-> 0,
            ids |-> {}, todo |-> {}, removed |-> FALSE, attempts |-> 0]
Idle == [Handler EXCEPT !.pc = "idle"]
NoValue == [ids |-> {}, catalog |-> 0, revision |-> 0]
Waiting == [pc |-> "idle", catalog |-> 0]

KeyOf(e) == IF e.kind = "snapshot" THEN "catalog" ELSE e.product
IsActive(p) == revisions[p] > 0 /\ record[p].kind = "upsert"

CatalogTypeOK ==
    /\ record \in [Keys -> Events \cup Legacy \cup {None}]
    /\ revisions \in [Keys -> Nat]
    /\ index \in [revision : Nat, ids : SUBSET Products]
    /\ catalogQueued \in SUBSET Events
    /\ catalogGiven \in SUBSET Events
    /\ handler \in [CatalogReplicas ->
          [pc : {"start", "keys", "seed", "idle", "get", "put", "product",
                 "index", "putIndex", "done"},
           event : Events \cup {None}, revision : Nat, ids : SUBSET Products,
           todo : SUBSET Products, removed : BOOLEAN, attempts : 0..(MaxAttempts - 1)]]
    /\ cache \in [value : [ids : SUBSET Products, catalog : Nat, revision : Nat],
                  fresh : BOOLEAN, lock : Readers \cup {None}]
    /\ reader \in [Readers -> [pc : {"idle", "lock", "snapshot", "products"}, catalog : Nat]]
    /\ catalogFaults \in 0..MaxCatalogFaults

CatalogInit ==
    /\ record = [k \in Keys |-> IF \E e \in Legacy : e.product = k
                                THEN CHOOSE e \in Legacy : e.product = k ELSE None]
    /\ revisions = [k \in Keys |-> IF record[k] = None THEN 0 ELSE 1]
    /\ index = NoIndex
    /\ catalogQueued = Events /\ catalogGiven = {}
    /\ handler = [r \in CatalogReplicas |-> Handler]
    /\ cache = [value |-> NoValue, fresh |-> FALSE, lock |-> None]
    /\ reader = [h \in Readers |-> Waiting]
    /\ catalogFaults = 0

Goto(r, state) == handler' = [handler EXCEPT ![r] = state]

----------------------------------------------------------------------------
(* ensure_catalog_index: the migration every replica runs before it consumes *)

EnsureIndex(r) ==
    /\ handler[r].pc = "start"
    /\ Goto(r, IF index.revision > 0 THEN Idle ELSE [Handler EXCEPT !.pc = "keys"])
    /\ UNCHANGED <<bucket, catalogBroker, serving, catalogFaults>>

ListKeys(r) ==
    /\ handler[r].pc = "keys"
    /\ Goto(r, [Handler EXCEPT !.pc = "seed", !.todo = {p \in Products : revisions[p] > 0}])
    /\ UNCHANGED <<bucket, catalogBroker, serving, catalogFaults>>

ReadLegacy(r, p) ==
    /\ handler[r].pc = "seed"
    /\ p \in handler[r].todo
    /\ Goto(r, [handler[r] EXCEPT !.todo = @ \ {p},
                                  !.ids = IF IsActive(p) THEN @ \cup {p} ELSE @])
    /\ UNCHANGED <<bucket, catalogBroker, serving, catalogFaults>>

\* create loses to another replica's index and keeps that one.
CreateIndex(r) ==
    /\ handler[r].pc = "seed"
    /\ handler[r].todo = {}
    /\ index' = IF index.revision = 0 THEN [revision |-> 1, ids |-> handler[r].ids]
                ELSE index
    /\ Goto(r, Idle)
    /\ UNCHANGED <<record, revisions, catalogBroker, serving, catalogFaults>>

----------------------------------------------------------------------------
(* _apply_catalog: one event of the durable                                *)

CatalogFetch(r, e) ==
    /\ handler[r].pc = "idle"
    /\ e \in catalogQueued
    /\ catalogQueued' = catalogQueued \ {e}
    /\ Goto(r, [Idle EXCEPT !.pc = "get", !.event = e])
    /\ UNCHANGED <<bucket, catalogGiven, serving, catalogFaults>>

\* Redelivered, or given up after ten deliveries.
CatalogNak(e) ==
    \/ catalogQueued' = catalogQueued \cup {e} /\ UNCHANGED catalogGiven
    \/ catalogGiven' = catalogGiven \cup {e} /\ UNCHANGED catalogQueued

\* A lost compare-and-set is tried again from the read; the last one fails the event.
Conflict(r, pc) ==
    \/ /\ handler[r].attempts + 1 < MaxAttempts
       /\ Goto(r, [handler[r] EXCEPT !.pc = pc, !.attempts = @ + 1])
       /\ UNCHANGED catalogBroker
    \/ /\ handler[r].attempts + 1 = MaxAttempts
       /\ CatalogNak(handler[r].event)
       /\ Goto(r, Idle)

\* A product event reconciles the index, whatever became of its record.
Settled(r) ==
    [handler[r] EXCEPT !.pc = IF handler[r].event.kind = "snapshot" THEN "done" ELSE "product",
                       !.attempts = 0]

\* A duplicate or stale event is not written.
Superseded(e) ==
    LET k == KeyOf(e) IN
    revisions[k] > 0 /\ (record[k].id = e.id \/ e.version <= record[k].version)

\* Mutant of GetRecord: a duplicate or stale event is done at once.
GetRecordOnly(r) ==
    LET e == handler[r].event IN
    /\ handler[r].pc = "get"
    /\ Goto(r, IF Superseded(e) THEN [handler[r] EXCEPT !.pc = "done"]
               ELSE [handler[r] EXCEPT !.pc = "put", !.revision = revisions[KeyOf(e)]])
    /\ UNCHANGED <<bucket, catalogBroker, serving, catalogFaults>>

GetRecord(r) ==
    LET e == handler[r].event IN
    /\ handler[r].pc = "get"
    /\ Goto(r, IF Superseded(e) THEN Settled(r)
               ELSE [handler[r] EXCEPT !.pc = "put", !.revision = revisions[KeyOf(e)]])
    /\ UNCHANGED <<bucket, catalogBroker, serving, catalogFaults>>

\* Mutant of Unchanged: update is called without the revision.
BlindUpdate(r) == handler[r].revision = 0 => revisions[KeyOf(handler[r].event)] = 0

\* The revision check of the bucket's create and update.
Unchanged(r) == revisions[KeyOf(handler[r].event)] = handler[r].revision

PutRecord(r) ==
    LET e == handler[r].event
        k == KeyOf(e)
    IN
    /\ handler[r].pc = "put"
    /\ \/ /\ Unchanged(r)
          /\ record' = [record EXCEPT ![k] = e]
          /\ revisions' = [revisions EXCEPT ![k] = @ + 1]
          /\ Goto(r, Settled(r))
          /\ UNCHANGED catalogBroker
       \/ /\ ~Unchanged(r)
          /\ Conflict(r, "get")
          /\ UNCHANGED <<record, revisions>>
    /\ UNCHANGED <<index, serving, catalogFaults>>

----------------------------------------------------------------------------
(* _reconcile_catalog_index                                                *)

GetProduct(r) ==
    /\ handler[r].pc = "product"
    /\ Goto(r, [handler[r] EXCEPT !.pc = "index",
                  !.removed = ~IsActive(KeyOf(handler[r].event))])
    /\ UNCHANGED <<bucket, catalogBroker, serving, catalogFaults>>

\* The index with the event's product in or out.
Wanted(r, ids) ==
    LET p == {KeyOf(handler[r].event)} IN
    IF handler[r].removed THEN ids \ p ELSE ids \cup p

\* An index that needs no change is not written, an absent one is created.
GetIndex(r) ==
    /\ handler[r].pc = "index"
    /\ Goto(r, IF index.revision > 0 /\ Wanted(r, index.ids) = index.ids
               THEN [handler[r] EXCEPT !.pc = "done"]
               ELSE [handler[r] EXCEPT !.pc = "putIndex", !.ids = Wanted(r, index.ids),
                                       !.revision = index.revision])
    /\ UNCHANGED <<bucket, catalogBroker, serving, catalogFaults>>

IndexUnchanged(r) == index.revision = handler[r].revision

PutIndex(r) ==
    /\ handler[r].pc = "putIndex"
    /\ \/ /\ IndexUnchanged(r)
          /\ index' = [revision |-> index.revision + 1, ids |-> handler[r].ids]
          /\ Goto(r, [handler[r] EXCEPT !.pc = "done"])
          /\ UNCHANGED catalogBroker
       \/ /\ ~IndexUnchanged(r)
          /\ Conflict(r, "index")
          /\ UNCHANGED index
    /\ UNCHANGED <<record, revisions, serving, catalogFaults>>

\* The cache is invalidated and the event acknowledged.
Finish(r) ==
    /\ handler[r].pc = "done"
    /\ cache' = IF r = CacheHost THEN [cache EXCEPT !.fresh = FALSE] ELSE cache
    /\ Goto(r, Idle)
    /\ UNCHANGED <<bucket, catalogBroker, reader, catalogFaults>>

----------------------------------------------------------------------------
(* Faults                                                                  *)

\* A call of the bucket fails, or its reply is lost after it took effect.
CallFails(r) ==
    /\ catalogFaults < MaxCatalogFaults
    /\ handler[r].event # None
    /\ CatalogNak(handler[r].event)
    /\ Goto(r, Idle)
    /\ catalogFaults' = catalogFaults + 1
    /\ UNCHANGED <<bucket, serving>>

\* The replica starts again; its event is delivered again after AckWait.
CatalogRestart(r) ==
    /\ catalogFaults < MaxCatalogFaults
    /\ handler[r].pc # "start"
    /\ catalogQueued' = catalogQueued \cup ({handler[r].event} \ {None})
    /\ Goto(r, Handler)
    /\ cache' = IF r = CacheHost THEN [value |-> NoValue, fresh |-> FALSE, lock |-> None]
                ELSE cache
    /\ reader' = IF r = CacheHost THEN [h \in Readers |-> Waiting] ELSE reader
    /\ catalogFaults' = catalogFaults + 1
    /\ UNCHANGED <<bucket, catalogGiven>>

\* AckWait runs out while the event is handled, or the acknowledgement is lost.
CatalogRedeliver(e) ==
    /\ catalogFaults < MaxCatalogFaults
    /\ e \notin catalogQueued \cup catalogGiven
    /\ catalogQueued' = catalogQueued \cup {e}
    /\ catalogFaults' = catalogFaults + 1
    /\ UNCHANGED <<bucket, catalogGiven, handler, serving>>

----------------------------------------------------------------------------
(* _CatalogCache.candidates                                                *)

CacheUsable == cache.value # NoValue /\ cache.fresh

\* A handler finds the value missing or old and asks for the lock; a usable
\* value is answered from without any change.
NeedValue(h) ==
    /\ handler[CacheHost].pc \notin {"start", "keys", "seed"}
    /\ reader[h].pc = "idle"
    /\ ~CacheUsable
    /\ reader' = [reader EXCEPT ![h].pc = "lock"]
    /\ UNCHANGED <<bucket, catalogBroker, handler, cache, catalogFaults>>

\* Mutant of Locked: nothing is locked.
Unlocked(h) == [cache EXCEPT !.lock = None]

\* The lock is taken by h.
Locked(h) == [cache EXCEPT !.lock = h]

\* Under the lock the test is made again.
TakeLock(h) ==
    /\ reader[h].pc = "lock"
    /\ cache.lock = None
    /\ reader' = [reader EXCEPT ![h].pc = IF CacheUsable THEN "idle" ELSE "snapshot"]
    /\ cache' = IF CacheUsable THEN cache ELSE Locked(h)
    /\ UNCHANGED <<bucket, catalogBroker, handler, catalogFaults>>

\* catalog_snapshot reads the marker; without one the catalog is not ready.
ReadSnapshot(h) ==
    /\ reader[h].pc = "snapshot"
    /\ IF revisions["catalog"] = 0
       THEN /\ reader' = [reader EXCEPT ![h] = Waiting]
            /\ cache' = [cache EXCEPT !.lock = None]
       ELSE /\ reader' = [reader EXCEPT ![h] =
                            [pc |-> "products", catalog |-> record["catalog"].version]]
            /\ UNCHANGED cache
    /\ UNCHANGED <<bucket, catalogBroker, handler, catalogFaults>>

\* The product_count of the marker with catalog revision v.
CountOf(v) == (CHOOSE e \in Events : e.kind = "snapshot" /\ e.version = v).count

\* Mutant of ReadProducts: an incomplete index leaves the lock behind.
ReadProductsHold(h) ==
    /\ reader[h].pc = "products"
    /\ cache' = IF index.revision > 0 /\ Cardinality(index.ids) >= CountOf(reader[h].catalog)
                THEN [value |-> [ids |-> index.ids, catalog |-> reader[h].catalog,
                                 revision |-> index.revision],
                      fresh |-> TRUE, lock |-> None]
                ELSE cache
    /\ reader' = [reader EXCEPT ![h] = Waiting]
    /\ UNCHANGED <<bucket, catalogBroker, handler, catalogFaults>>

\* ... then the index, which has to hold the marker's number of products.
ReadProducts(h) ==
    /\ reader[h].pc = "products"
    /\ cache' = IF index.revision > 0 /\ Cardinality(index.ids) >= CountOf(reader[h].catalog)
                THEN [value |-> [ids |-> index.ids, catalog |-> reader[h].catalog,
                                 revision |-> index.revision],
                      fresh |-> TRUE, lock |-> None]
                ELSE [cache EXCEPT !.lock = None]
    /\ reader' = [reader EXCEPT ![h] = Waiting]
    /\ UNCHANGED <<bucket, catalogBroker, handler, catalogFaults>>

\* The refresh interval has passed.
CacheExpires ==
    /\ cache.fresh
    /\ cache' = [cache EXCEPT !.fresh = FALSE]
    /\ UNCHANGED <<bucket, catalogBroker, handler, reader, catalogFaults>>

----------------------------------------------------------------------------

ReplicaStep(r) ==
    \/ EnsureIndex(r) \/ ListKeys(r) \/ CreateIndex(r)
    \/ \E p \in Products : ReadLegacy(r, p)
    \/ \E e \in Events : CatalogFetch(r, e)
    \/ GetRecord(r) \/ PutRecord(r)
    \/ GetProduct(r) \/ GetIndex(r) \/ PutIndex(r) \/ Finish(r)

ReaderStep(h) == NeedValue(h) \/ TakeLock(h) \/ ReadSnapshot(h) \/ ReadProducts(h)

CatalogNext ==
    \/ \E r \in CatalogReplicas : ReplicaStep(r) \/ CallFails(r) \/ CatalogRestart(r)
    \/ \E e \in Events : CatalogRedeliver(e)
    \/ \E h \in Readers : ReaderStep(h)
    \/ CacheExpires

CatalogSpec == CatalogInit /\ [][CatalogNext]_catalogVars

\* A replica's event loop never stays in one await for ever, the calls have
\* timeouts; nothing makes a shopper look at a page (NeedValue).
CatalogFairness ==
    /\ \A r \in CatalogReplicas : WF_catalogVars(ReplicaStep(r))
    /\ \A h \in Readers : WF_catalogVars(TakeLock(h) \/ ReadSnapshot(h) \/ ReadProducts(h))
    /\ WF_catalogVars(CacheExpires)

FairCatalogSpec == CatalogSpec /\ CatalogFairness

----------------------------------------------------------------------------

InHand(e) == \E r \in CatalogReplicas : handler[r].event = e
Pending(p) == \E e \in Events : KeyOf(e) = p /\ (e \in catalogQueued \cup catalogGiven \/ InHand(e))
Seeding == index.revision = 0

\* Every product the bucket holds is in the index, or an event of it is still
\* to be handled (or was given up): no add is lost in a race of two replicas on
\* the index, in a restart between record and index, or in the migration.
StoredMeansIndexed ==
    \A p \in Products : IsActive(p) => p \in index.ids \/ Pending(p) \/ Seeding

\* The version stored for a product and the marker's revision never fall.
VersionsRise ==
    [][\A k \in Keys : revisions[k] > 0 =>
          revisions'[k] > 0 /\ record'[k].version >= record[k].version]_catalogVars

\* The catalog in the bucket keeps what was announced: nothing that is stored is
\* missing in the index for good, and nothing falls back to an older version.
CatalogKept == []CatalogTypeOK /\ []StoredMeansIndexed /\ VersionsRise

\* The handlers of one process never answer from an older catalog than before:
\* a refresh that was overtaken does not put its value back.
CacheNeverRewinds ==
    [][\/ cache'.value = NoValue
       \/ /\ cache'.value.catalog >= cache.value.catalog
          /\ cache'.value.revision >= cache.value.revision]_catalogVars

----------------------------------------------------------------------------
(* The inductive invariant (proved in EventServicesProofs)                 *)

\* A product that was removed is not announced again.
RemovedForGood ==
    \A e, f \in Events \cup Legacy :
        e.kind = "removal" /\ f.kind = "upsert" /\ e.product = f.product => f.version < e.version

RecordsOK ==
    \A k \in Keys :
        /\ revisions[k] > 0 <=> record[k] # None
        /\ record[k] # None => KeyOf(record[k]) = k

\* No event is handled before there is an index, and until then the migration
\* of every replica finds all active products.
SeedingOK ==
    \A r \in CatalogReplicas :
        /\ handler[r].pc \notin {"start", "keys", "seed"} => index.revision > 0
        /\ handler[r].pc = "seed" /\ Seeding =>
              \A p \in Products : IsActive(p) => p \in handler[r].todo \cup handler[r].ids

\* A write that will pass the revision check was decided on the present value.
WritesOK ==
    \A r \in CatalogReplicas : LET h == handler[r] IN
        /\ h.pc \in {"start", "keys", "seed", "idle"} <=> h.event = None
        /\ h.pc = "put" => /\ h.revision <= revisions[KeyOf(h.event)]
                           /\ Unchanged(r) => ~Superseded(h.event)
        /\ h.pc \in {"product", "index", "putIndex"} => h.event.kind # "snapshot"
        /\ h.pc \in {"product", "index", "putIndex", "done"} => revisions[KeyOf(h.event)] > 0
        /\ h.pc = "putIndex" => /\ h.revision <= index.revision
                                /\ IndexUnchanged(r) => h.ids = Wanted(r, index.ids)

\* If products are removed for good: who takes a product out of the index takes
\* out one that is not active, and an active product whose event is done is in it.
ReconciledOK ==
    \A r \in CatalogReplicas : LET h == handler[r] IN
        /\ h.pc \in {"index", "putIndex"} /\ h.removed => ~IsActive(KeyOf(h.event))
        /\ h.pc = "done" /\ h.event.kind # "snapshot" /\ IsActive(KeyOf(h.event)) =>
              KeyOf(h.event) \in index.ids

\* The cache is no newer than the bucket, and the reader with the lock has read
\* a marker no older than the cached one.
Marked == IF revisions["catalog"] > 0 THEN record["catalog"].version ELSE 0
CacheOK ==
    /\ cache.value.catalog <= Marked /\ cache.value.revision <= index.revision
    /\ \A h \in Readers :
          /\ reader[h].pc \in {"snapshot", "products"} => cache.lock = h
          /\ reader[h].pc = "products" => reader[h].catalog \in cache.value.catalog..Marked

CatalogInv == CatalogTypeOK /\ RecordsOK /\ SeedingOK /\ WritesOK /\ CacheOK

KeptInv == CatalogInv /\ ReconciledOK /\ StoredMeansIndexed

----------------------------------------------------------------------------

\* What the docstring of _reconcile_catalog_index says: when nothing is left to
\* handle, the index is the set of active products.
IndexAgrees ==
    \A p \in Products : ~Seeding /\ ~Pending(p) => (p \in index.ids <=> IsActive(p))

\* While there are always handlers that need a value, the cache ends with the
\* index and the marker of the bucket: no invalidation is lost for good and the
\* lock is always released.
CacheConverges ==
    []<>(\E h \in Readers : reader[h].pc # "idle") =>
    <>[](revisions["catalog"] > 0 /\ Cardinality(index.ids) >= record["catalog"].count
         => cache.value = [ids |-> index.ids, catalog |-> record["catalog"].version,
                           revision |-> index.revision])

=============================================================================
