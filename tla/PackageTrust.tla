--------------------------- MODULE PackageTrust ----------------------------
(***************************************************************************)
(* The trust metadata of remote Packages: two signed documents, fetched    *)
(* one after the other with conditional requests, verified together and    *)
(* cached in one row of the state home.  Every bootstrap of a Host and     *)
(* every request of its user starts a refresh, and nothing keeps two of    *)
(* them apart but the transactions of the database.                        *)
(*                                                                         *)
(* The validators of the conditional requests are a second row, written    *)
(* after the cache and by a transaction of their own: a refresh that is    *)
(* overtaken writes the validators it started with over newer ones.        *)
(***************************************************************************)
EXTENDS Naturals

CONSTANTS
    Refreshes,   \* refreshes that may run at the same time, on any Host
    Bundles,     \* signed publisher trust bundles
    Snapshots,   \* signed registry snapshots
    Sequence,    \* the sequence of a bundle
    Revision,    \* the revision of a snapshot
    BoundTo,     \* the trust sequence that a snapshot names
    Publishers,  \* the publishers with an active key in a bundle, or with a record in a snapshot
    Limit,       \* the largest number that the database stores, i64::MAX
    Untagged,    \* the documents that the origin serves without ETag and Last-Modified
    Perishable,  \* bound: the documents whose validity ends
    Failures,    \* bound: requests and writes that fail
    None

ASSUME TrustAssumption ==
    /\ Sequence \in [Bundles -> Nat]
    /\ Revision \in [Snapshots -> Nat]
    /\ Limit \in Nat /\ Failures \in Nat
    /\ Perishable \subseteq Bundles \cup Snapshots
    /\ Bundles \cap Snapshots = {}
    /\ None \notin Bundles \cup Snapshots

VARIABLES
    served,      \* what the origin answers with
    expired,     \* the documents whose validity has ended
    cache,       \* package_trust_cache: the accepted pair
    validators,  \* package_registry_fetch_state: the documents the stored ETags name
    refresh,     \* the refreshes in progress
    accepted,    \* every document that was ever accepted
    failures     \* requests and writes that failed so far

vars == <<served, expired, cache, validators, refresh, accepted, failures>>

NoPair    == [trust |-> None, registry |-> None]
\* held: the validators of the start, until they are used; got: the documents, None after a
\* 304, until they are accepted; next: the validators to store.
NoRefresh == [pc |-> "idle", held |-> NoPair, got |-> NoPair, next |-> NoPair]

Init ==
    /\ served \in [trust : Bundles, registry : Snapshots]
    /\ expired = {}
    /\ cache = NoPair
    /\ validators = NoPair
    /\ refresh = [k \in Refreshes |-> NoRefresh]
    /\ accepted = {}
    /\ failures = 0

----------------------------------------------------------------------------
\* The origin publishes its documents one by one, may go back to an old one and may sign two
\* under one number.
OriginPublishes(pair) ==
    /\ pair.trust = served.trust \/ pair.registry = served.registry
    /\ pair # served
    /\ served' = pair
    /\ UNCHANGED <<expired, cache, validators, refresh, accepted, failures>>

DocumentExpires(d) ==
    /\ d \notin expired
    /\ expired' = expired \cup {d}
    /\ UNCHANGED <<served, cache, validators, refresh, accepted, failures>>

RefreshStarts(k) ==
    /\ refresh[k].pc = "idle"
    /\ refresh' = [refresh EXCEPT ![k] =
                      [pc |-> "trust", held |-> validators, got |-> NoPair, next |-> NoPair]]
    /\ UNCHANGED <<served, expired, cache, validators, accepted, failures>>

\* An answer is 304 only to a request that names the served document; then the validators
\* stay.  Otherwise it is the document, with or without validators of its own.
Answers(document, validator) ==
    {[got |-> document, next |-> IF document \in Untagged THEN None ELSE document]}
        \cup (IF validator = document THEN {[got |-> None, next |-> validator]} ELSE {})

FetchTrust(k) ==
    /\ refresh[k].pc = "trust"
    /\ \E r \in Answers(served.trust, refresh[k].held.trust) :
          refresh' = [refresh EXCEPT ![k] =
                         [pc   |-> "registry",
                          held |-> [trust |-> None, registry |-> refresh[k].held.registry],
                          got  |-> [trust |-> r.got, registry |-> None],
                          next |-> [trust |-> r.next, registry |-> None]]]
    /\ UNCHANGED <<served, expired, cache, validators, accepted, failures>>

FetchRegistry(k) ==
    /\ refresh[k].pc = "registry"
    /\ \E r \in Answers(served.registry, refresh[k].held.registry) :
          refresh' = [refresh EXCEPT ![k] =
                         [pc   |-> "accept", held |-> NoPair,
                          got  |-> [trust |-> refresh[k].got.trust, registry |-> r.got],
                          next |-> [trust |-> refresh[k].next.trust, registry |-> r.next]]]
    /\ UNCHANGED <<served, expired, cache, validators, accepted, failures>>

----------------------------------------------------------------------------
\* What a refresh asks the cache to accept: a 304 stands for what is cached by then.
Proposed(k) ==
    LET got == refresh[k].got
    IN  [trust    |-> IF got.trust = None THEN cache.trust ELSE got.trust,
         registry |-> IF got.registry = None THEN cache.registry ELSE got.registry]

FreshM(number, document, cached) ==
    /\ number[document] \in 1..Limit
    /\ cached # None => number[document] >= number[cached]

\* The number of a document does not go back, and one number has one document.
Fresh(number, document, cached) ==
    /\ number[document] \in 1..Limit
    /\ cached # None => /\ number[document] >= number[cached]
                        /\ number[document] = number[cached] => document = cached

Acceptable(pair) ==
    /\ pair.trust # None /\ pair.registry # None
    /\ Fresh(Sequence, pair.trust, cache.trust)
    /\ Fresh(Revision, pair.registry, cache.registry)
    /\ BoundTo[pair.registry] = Sequence[pair.trust]
    /\ Publishers[pair.registry] \subseteq Publishers[pair.trust]
    /\ pair.trust \notin expired /\ pair.registry \notin expired

AcceptM(k) ==
    LET pair == Proposed(k) IN
    /\ refresh[k].pc = "accept" /\ Acceptable(pair)
    /\ cache' = refresh[k].got
    /\ accepted' = accepted \cup {pair.trust, pair.registry}
    /\ refresh' = [refresh EXCEPT ![k] = [pc |-> "persist", held |-> NoPair,
                                          got |-> NoPair, next |-> refresh[k].next]]
    /\ UNCHANGED <<served, expired, validators, failures>>

Accept(k) ==
    LET pair == Proposed(k) IN
    /\ refresh[k].pc = "accept" /\ Acceptable(pair)
    /\ cache' = pair
    /\ accepted' = accepted \cup {pair.trust, pair.registry}
    /\ refresh' = [refresh EXCEPT ![k] = [pc |-> "persist", held |-> NoPair,
                                          got |-> NoPair, next |-> refresh[k].next]]
    /\ UNCHANGED <<served, expired, validators, failures>>

RefuseM(k) ==
    /\ refresh[k].pc = "accept" /\ ~Acceptable(Proposed(k))
    /\ refresh' = [refresh EXCEPT ![k].pc = "registry"]
    /\ UNCHANGED <<served, expired, cache, validators, accepted, failures>>

Refuse(k) ==
    /\ refresh[k].pc = "accept" /\ ~Acceptable(Proposed(k))
    /\ refresh' = [refresh EXCEPT ![k] = NoRefresh]
    /\ UNCHANGED <<served, expired, cache, validators, accepted, failures>>

PersistM(k) ==
    /\ refresh[k].pc = "persist"
    /\ validators' = served
    /\ refresh' = [refresh EXCEPT ![k] = NoRefresh]
    /\ UNCHANGED <<served, expired, cache, accepted, failures>>

Persist(k) ==
    /\ refresh[k].pc = "persist"
    /\ validators' = refresh[k].next
    /\ refresh' = [refresh EXCEPT ![k] = NoRefresh]
    /\ UNCHANGED <<served, expired, cache, accepted, failures>>

\* A request or a write fails, the access is no longer verified, or the Host dies.
RefreshFails(k) ==
    /\ refresh[k].pc # "idle" /\ failures < Failures
    /\ refresh' = [refresh EXCEPT ![k] = NoRefresh]
    /\ failures' = failures + 1
    /\ UNCHANGED <<served, expired, cache, validators, accepted>>

RefreshStep(k) ==
    RefreshStarts(k) \/ FetchTrust(k) \/ FetchRegistry(k) \/ Accept(k) \/ Refuse(k) \/ Persist(k)

Next ==
    \/ \E pair \in [trust : Bundles, registry : Snapshots] : OriginPublishes(pair)
    \/ \E d \in Perishable : DocumentExpires(d)
    \/ \E k \in Refreshes : RefreshStep(k) \/ RefreshFails(k)

Spec == Init /\ [][Next]_vars

\* A bootstrap, which the client repeats within the ten minutes that one lasts, starts a
\* refresh, and a refresh that started goes on: its requests have timeouts.
FairSpec == Spec /\ \A k \in Refreshes : WF_vars(RefreshStep(k))

----------------------------------------------------------------------------
Pairs == [trust : Bundles \cup {None}, registry : Snapshots \cup {None}]

\* Type invariant; the cache has both documents or none.
TypeOK ==
    /\ served \in [trust : Bundles, registry : Snapshots]
    /\ expired \in SUBSET (Bundles \cup Snapshots)
    /\ cache \in [trust : Bundles, registry : Snapshots] \cup {NoPair}
    /\ validators \in Pairs
    /\ refresh \in [Refreshes -> [pc : {"idle", "trust", "registry", "accept", "persist"},
                                  held : Pairs, got : Pairs, next : Pairs]]
    /\ accepted \in SUBSET (Bundles \cup Snapshots)
    /\ failures \in 0..Failures

\* Over the whole life of a state home no two documents are accepted under one number, and
\* none after a newer one, whichever refreshes run at the same time and whatever a 304 stands
\* for by the time it is used: "a rollback to an old revision and an equivocation of one
\* revision fail closed" (AGENT_PACKAGE_MANIFEST_V1, section 13).
OneDocumentPerNumber ==
    /\ \A t, u \in accepted \cap Bundles : Sequence[t] = Sequence[u] => t = u
    /\ \A s, r \in accepted \cap Snapshots : Revision[s] = Revision[r] => s = r
    /\ accepted # {} =>
          /\ \A t \in accepted \cap Bundles : Sequence[t] <= Sequence[cache.trust]
          /\ \A s \in accepted \cap Snapshots : Revision[s] <= Revision[cache.registry]

\* d is what the cache has, or older.
Superseded(number, d, cached) == cached # None /\ (d = cached \/ number[d] < number[cached])

\* A validator that is stored, or that a request carries, never names a document that the
\* cache has not caught up with, although it is written after the cache and by refreshes that
\* others overtook: so a 304 never hides a newer document ("updated only after the signatures
\* were verified", section 13).
NotModifiedIsCached ==
    \A v \in {validators} \cup {refresh[k].held : k \in Refreshes} :
        /\ v.trust # None => Superseded(Sequence, v.trust, cache.trust)
        /\ v.registry # None => Superseded(Revision, v.registry, cache.registry)

\* The origin has settled: a pair that fits together, is valid, and is newer than all others
\* the database could store.
Settled ==
    /\ BoundTo[served.registry] = Sequence[served.trust]
    /\ Publishers[served.registry] \subseteq Publishers[served.trust]
    /\ served.trust \notin expired /\ served.registry \notin expired
    /\ Sequence[served.trust] \in 1..Limit /\ Revision[served.registry] \in 1..Limit
    /\ \A t \in Bundles \ {served.trust} :
          Sequence[t] \in 1..Limit => Sequence[t] < Sequence[served.trust]
    /\ \A s \in Snapshots \ {served.registry} :
          Revision[s] \in 1..Limit => Revision[s] < Revision[served.registry]

\* Once the origin has settled, the cache catches up with it: no order of overlapping
\* refreshes, failures and stale validators leaves the client with an old pair for good.
CatchesUp == <>[]Settled => <>[](cache = served)
=============================================================================
