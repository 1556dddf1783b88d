------------------------- MODULE PackageTrustProofs ------------------------
(***************************************************************************)
(* Proofs about PackageTrust, for any number of refreshes and documents:   *)
(* type correctness, one document per number over the life of a state      *)
(* home, and that a 304 never hides a newer document.                      *)
(***************************************************************************)
EXTENDS PackageTrust, TLAPS

Refresh == [pc : {"idle", "trust", "registry", "accept", "persist"},
            held : Pairs, got : Pairs, next : Pairs]

\* The documents of a pair of validators were accepted.
Known(pair) == pair.trust \in accepted \cup {None} /\ pair.registry \in accepted \cup {None}

\* What a refresh will store names what it fetched, or what was accepted before.
Tagged(r) ==
    /\ Known(r.held)
    /\ IF r.got.trust = None THEN r.next.trust \in accepted \cup {None}
                             ELSE r.next.trust \in {r.got.trust, None}
    /\ IF r.got.registry = None THEN r.next.registry \in accepted \cup {None}
                                ELSE r.next.registry \in {r.got.registry, None}

\* The cache has the newest of what was accepted, and one document for each number.
CacheIsNewest ==
    /\ \A t \in accepted \cap Bundles : Superseded(Sequence, t, cache.trust)
    /\ \A s \in accepted \cap Snapshots : Superseded(Revision, s, cache.registry)
    /\ cache.trust \in accepted \cup {None} /\ cache.registry \in accepted \cup {None}
    /\ \A t, u \in accepted \cap Bundles : Sequence[t] = Sequence[u] => t = u
    /\ \A s, r \in accepted \cap Snapshots : Revision[s] = Revision[r] => s = r

\* What was accepted is no longer held.
Cleared(r) == r.pc = "persist" => r.got = NoPair

Provenance == Known(validators) /\ \A k \in Refreshes : Tagged(refresh[k]) /\ Cleared(refresh[k])

TrustInv == TypeOK /\ CacheIsNewest /\ Provenance

----------------------------------------------------------------------------
LEMMA RefreshUpdate ==
    ASSUME TypeOK, NEW k \in Refreshes, NEW r \in Refresh, refresh' = [refresh EXCEPT ![k] = r]
    PROVE  /\ refresh' \in [Refreshes -> Refresh]
           /\ refresh'[k] = r /\ \A j \in Refreshes \ {k} : refresh'[j] = refresh[j]
BY DEF TypeOK, Refresh

\* Steps that accept nothing.
LEMMA NothingAccepted ==
    ASSUME TrustInv, NEW k \in Refreshes, NEW r \in Refresh, refresh' = [refresh EXCEPT ![k] = r],
           Tagged(r), r.pc # "persist", UNCHANGED <<served, expired, cache, accepted>>,
           failures' \in 0..Failures, validators' \in Pairs, Known(validators')
    PROVE  TrustInv'
<1>1. /\ refresh' \in [Refreshes -> Refresh]
      /\ refresh'[k] = r /\ \A j \in Refreshes \ {k} : refresh'[j] = refresh[j]
  BY RefreshUpdate DEF TrustInv
<1>2. TypeOK'
  BY <1>1 DEF TrustInv, TypeOK, Refresh
<1>3. CacheIsNewest'
  BY DEF TrustInv, CacheIsNewest, Superseded
<1>4. Provenance'
  BY <1>1 DEF TrustInv, Provenance, Known, Tagged, Cleared
<1> QED
  BY <1>2, <1>3, <1>4 DEF TrustInv

LEMMA NoRefreshType == NoRefresh \in Refresh /\ NoPair \in Pairs /\ Tagged(NoRefresh)
                         /\ NoRefresh.pc # "persist"
BY DEF NoRefresh, NoPair, Refresh, Pairs, Tagged, Known

LEMMA NoChange ==
    ASSUME TrustInv, UNCHANGED <<cache, validators, refresh, accepted, failures>>,
           served' \in [trust : Bundles, registry : Snapshots],
           expired' \in SUBSET (Bundles \cup Snapshots)
    PROVE  TrustInv'
BY DEF TrustInv, TypeOK, CacheIsNewest, Superseded, Provenance, Tagged, Known, Cleared

----------------------------------------------------------------------------
\* A document that passes Fresh, after the accepted ones: still one per number.
LEMMA FreshNewest ==
    ASSUME NEW D, NEW number \in [D -> Nat], NEW A \in SUBSET D, NEW d \in D, None \notin D,
           NEW c \in D \cup {None}, Fresh(number, d, c),
           \A t \in A : Superseded(number, t, c),
           \A t, u \in A : number[t] = number[u] => t = u,
           c \in A \cup {None}
    PROVE  /\ \A t \in A \cup {d} : Superseded(number, t, d)
           /\ \A t, u \in A \cup {d} : number[t] = number[u] => t = u
BY DEF Fresh, Superseded

LEMMA AcceptStep ==
    ASSUME TrustInv, NEW k \in Refreshes, Accept(k)
    PROVE  TrustInv'
<1> USE TrustAssumption
<1>1. PICK t, s : Proposed(k) = [trust |-> t, registry |-> s]
  BY DEF Proposed
<1> DEFINE r == [pc |-> "persist", held |-> NoPair, got |-> NoPair, next |-> refresh[k].next]
<1>2. /\ refresh[k].pc = "accept" /\ Acceptable([trust |-> t, registry |-> s])
      /\ cache' = [trust |-> t, registry |-> s]
      /\ accepted' = accepted \cup {t, s}
      /\ refresh' = [refresh EXCEPT ![k] = r]
      /\ UNCHANGED <<served, expired, validators, failures>>
  BY <1>1 DEF Accept
<1>3. refresh[k] \in Refresh /\ refresh[k].got \in Pairs /\ refresh[k].next \in Pairs
  BY DEF TrustInv, TypeOK, Refresh
<1>4. cache.trust \in Bundles \cup {None} /\ cache.registry \in Snapshots \cup {None}
  BY DEF TrustInv, TypeOK, NoPair
<1>5. t # None /\ s # None /\ Fresh(Sequence, t, cache.trust) /\ Fresh(Revision, s, cache.registry)
  BY <1>2 DEF Acceptable
<1>6. /\ t = IF refresh[k].got.trust = None THEN cache.trust ELSE refresh[k].got.trust
      /\ s = IF refresh[k].got.registry = None THEN cache.registry ELSE refresh[k].got.registry
  BY <1>1 DEF Proposed
<1>7. t \in Bundles /\ s \in Snapshots
  BY <1>3, <1>4, <1>5, <1>6 DEF Pairs
<1>8. r \in Refresh
  BY <1>3, NoRefreshType DEF Refresh
<1>9. /\ refresh' \in [Refreshes -> Refresh]
      /\ refresh'[k] = r /\ \A j \in Refreshes \ {k} : refresh'[j] = refresh[j]
  BY <1>2, <1>8, RefreshUpdate DEF TrustInv
<1>10. TypeOK'
  BY <1>2, <1>7, <1>9 DEF TrustInv, TypeOK, Refresh
<1>11. CacheIsNewest'
  <2>1. accepted' \cap Bundles = (accepted \cap Bundles) \cup {t}
    BY <1>2, <1>7
  <2>2. accepted' \cap Snapshots = (accepted \cap Snapshots) \cup {s}
    BY <1>2, <1>7
  <2>3. /\ \A u \in (accepted \cap Bundles) \cup {t} : Superseded(Sequence, u, t)
        /\ \A u, v \in (accepted \cap Bundles) \cup {t} : Sequence[u] = Sequence[v] => u = v
    <3> DEFINE A == accepted \cap Bundles
               c == cache.trust
    <3>1. /\ \A u \in A : Superseded(Sequence, u, c)
          /\ \A u, v \in A : Sequence[u] = Sequence[v] => u = v
          /\ c \in A \cup {None}
      BY <1>4 DEF TrustInv, CacheIsNewest
    <3>2. Sequence \in [Bundles -> Nat] /\ A \in SUBSET Bundles /\ t \in Bundles /\ None \notin Bundles
          /\ c \in Bundles \cup {None} /\ Fresh(Sequence, t, c)
      BY <1>4, <1>5, <1>7
    <3> HIDE DEF A, c
    <3>3. /\ \A u \in A \cup {t} : Superseded(Sequence, u, t)
          /\ \A u, v \in A \cup {t} : Sequence[u] = Sequence[v] => u = v
      BY <3>1, <3>2, FreshNewest
    <3> QED
      BY <3>3 DEF A
  <2>4. /\ \A u \in (accepted \cap Snapshots) \cup {s} : Superseded(Revision, u, s)
        /\ \A u, v \in (accepted \cap Snapshots) \cup {s} : Revision[u] = Revision[v] => u = v
    <3> DEFINE A == accepted \cap Snapshots
               c == cache.registry
    <3>1. /\ \A u \in A : Superseded(Revision, u, c)
          /\ \A u, v \in A : Revision[u] = Revision[v] => u = v
          /\ c \in A \cup {None}
      BY <1>4 DEF TrustInv, CacheIsNewest
    <3>2. Revision \in [Snapshots -> Nat] /\ A \in SUBSET Snapshots /\ s \in Snapshots /\ None \notin Snapshots
          /\ c \in Snapshots \cup {None} /\ Fresh(Revision, s, c)
      BY <1>4, <1>5, <1>7
    <3> HIDE DEF A, c
    <3>3. /\ \A u \in A \cup {s} : Superseded(Revision, u, s)
          /\ \A u, v \in A \cup {s} : Revision[u] = Revision[v] => u = v
      BY <3>1, <3>2, FreshNewest
    <3> QED
      BY <3>3 DEF A
  <2>5. cache'.trust = t /\ cache'.registry = s
    BY <1>2
  <2> QED
    BY <1>2, <2>1, <2>2, <2>3, <2>4, <2>5 DEF CacheIsNewest, Superseded
<1>12. Provenance'
  <2>1. Tagged(refresh[k]) /\ Known(validators)
    BY DEF TrustInv, Provenance
  <2>2. Tagged(refresh[k])'
    BY <1>2, <1>6, <1>9, <2>1 DEF Tagged, Known, NoPair
  <2>3. \A j \in Refreshes \ {k} : Tagged(refresh[j])'
    BY <1>2, <1>9 DEF TrustInv, Provenance, Tagged, Known
  <2>4. Known(validators)'
    BY <1>2, <2>1 DEF Known
  <2> QED
    BY <2>2, <2>3, <2>4, <1>9 DEF Provenance, Cleared, TrustInv
<1> QED
  BY <1>10, <1>11, <1>12 DEF TrustInv

----------------------------------------------------------------------------
LEMMA FetchTrustStep ==
    ASSUME TrustInv, NEW k \in Refreshes, FetchTrust(k)
    PROVE  TrustInv'
<1>1. PICK a \in Answers(served.trust, refresh[k].held.trust) :
         refresh' = [refresh EXCEPT ![k] =
                        [pc   |-> "registry",
                         held |-> [trust |-> None, registry |-> refresh[k].held.registry],
                         got  |-> [trust |-> a.got, registry |-> None],
                         next |-> [trust |-> a.next, registry |-> None]]]
  BY DEF FetchTrust
<1> DEFINE r == [pc   |-> "registry",
                 held |-> [trust |-> None, registry |-> refresh[k].held.registry],
                 got  |-> [trust |-> a.got, registry |-> None],
                 next |-> [trust |-> a.next, registry |-> None]]
<1>2. refresh[k] \in Refresh /\ served.trust \in Bundles /\ Tagged(refresh[k])
  BY DEF TrustInv, TypeOK, Refresh, Provenance
<1>3. /\ a.got \in Bundles \cup {None} /\ a.next \in Bundles \cup {None}
      /\ IF a.got = None THEN a.next = refresh[k].held.trust ELSE a.next \in {a.got, None}
  BY <1>2, TrustAssumption DEF Answers, Refresh, Pairs
<1>4. r \in Refresh
  BY <1>2, <1>3 DEF Refresh, Pairs
<1>5. Tagged(r) /\ r.pc # "persist"
  BY <1>2, <1>3 DEF Tagged, Known
<1>6. UNCHANGED <<served, expired, cache, validators, accepted, failures>>
  BY DEF FetchTrust
<1> HIDE DEF r
<1>7. /\ refresh' = [refresh EXCEPT ![k] = r]
      /\ failures' \in 0..Failures /\ validators' \in Pairs /\ Known(validators')
  BY <1>1, <1>6 DEF TrustInv, TypeOK, Provenance, r
<1> QED
  BY <1>4, <1>5, <1>6, <1>7, NothingAccepted

LEMMA FetchRegistryStep ==
    ASSUME TrustInv, NEW k \in Refreshes, FetchRegistry(k)
    PROVE  TrustInv'
<1>1. PICK a \in Answers(served.registry, refresh[k].held.registry) :
         refresh' = [refresh EXCEPT ![k] =
                        [pc   |-> "accept", held |-> NoPair,
                         got  |-> [trust |-> refresh[k].got.trust, registry |-> a.got],
                         next |-> [trust |-> refresh[k].next.trust, registry |-> a.next]]]
  BY DEF FetchRegistry
<1> DEFINE r == [pc   |-> "accept", held |-> NoPair,
                 got  |-> [trust |-> refresh[k].got.trust, registry |-> a.got],
                 next |-> [trust |-> refresh[k].next.trust, registry |-> a.next]]
<1>2. refresh[k] \in Refresh /\ served.registry \in Snapshots /\ Tagged(refresh[k])
  BY DEF TrustInv, TypeOK, Refresh, Provenance
<1>3. /\ a.got \in Snapshots \cup {None} /\ a.next \in Snapshots \cup {None}
      /\ IF a.got = None THEN a.next = refresh[k].held.registry ELSE a.next \in {a.got, None}
  BY <1>2, TrustAssumption DEF Answers, Refresh, Pairs
<1>4. r \in Refresh
  BY <1>2, <1>3, NoRefreshType DEF Refresh, Pairs
<1>5. Tagged(r) /\ r.pc # "persist"
  BY <1>2, <1>3 DEF Tagged, Known, NoPair
<1>6. UNCHANGED <<served, expired, cache, validators, accepted, failures>>
  BY DEF FetchRegistry
<1> HIDE DEF r
<1>7. /\ refresh' = [refresh EXCEPT ![k] = r]
      /\ failures' \in 0..Failures /\ validators' \in Pairs /\ Known(validators')
  BY <1>1, <1>6 DEF TrustInv, TypeOK, Provenance, r
<1> QED
  BY <1>4, <1>5, <1>6, <1>7, NothingAccepted

LEMMA TrustStep ==
    ASSUME TrustInv, [Next]_vars
    PROVE  TrustInv'
<1> USE TrustAssumption
<1>v. /\ failures \in 0..Failures /\ validators \in Pairs /\ Known(validators)
      /\ served \in [trust : Bundles, registry : Snapshots]
      /\ expired \in SUBSET (Bundles \cup Snapshots)
  BY DEF TrustInv, TypeOK, Provenance
<1>1. ASSUME NEW pair \in [trust : Bundles, registry : Snapshots], OriginPublishes(pair)
      PROVE  TrustInv'
  BY <1>1, <1>v, NoChange DEF OriginPublishes
<1>2. ASSUME NEW d \in Perishable, DocumentExpires(d)
      PROVE  TrustInv'
  BY <1>2, <1>v, NoChange DEF DocumentExpires
<1>3. ASSUME NEW k \in Refreshes, RefreshStarts(k)
      PROVE  TrustInv'
  <2> DEFINE r == [pc |-> "trust", held |-> validators, got |-> NoPair, next |-> NoPair]
  <2>1. r \in Refresh /\ Tagged(r) /\ r.pc # "persist"
    BY <1>v, NoRefreshType DEF Refresh, Tagged, Known, NoPair
  <2>2. /\ refresh' = [refresh EXCEPT ![k] = r]
        /\ UNCHANGED <<served, expired, cache, validators, accepted, failures>>
    BY <1>3 DEF RefreshStarts
  <2>3. failures' \in 0..Failures /\ validators' \in Pairs /\ Known(validators')
    BY <1>v, <2>2
  <2> HIDE DEF r
  <2> QED
    BY <2>1, <2>2, <2>3, NothingAccepted
<1>4. ASSUME NEW k \in Refreshes, Refuse(k) \/ RefreshFails(k)
      PROVE  TrustInv'
  <2>1. /\ refresh' = [refresh EXCEPT ![k] = NoRefresh]
        /\ UNCHANGED <<served, expired, cache, validators, accepted>>
    BY <1>4 DEF Refuse, RefreshFails
  <2>2. failures' \in 0..Failures
    BY <1>4, <1>v DEF Refuse, RefreshFails
  <2>3. validators' \in Pairs /\ Known(validators')
    BY <1>v, <2>1
  <2> QED
    BY <2>1, <2>2, <2>3, NoRefreshType, NothingAccepted
<1>5. ASSUME NEW k \in Refreshes, Persist(k)
      PROVE  TrustInv'
  <2>1. refresh[k] \in Refresh /\ Tagged(refresh[k]) /\ refresh[k].pc = "persist"
    BY <1>5 DEF Persist, TrustInv, TypeOK, Refresh, Provenance
  <2>2. refresh[k].got = NoPair
    BY <1>5 DEF Persist, TrustInv, Provenance, Cleared
  <2>3. /\ refresh' = [refresh EXCEPT ![k] = NoRefresh]
        /\ UNCHANGED <<served, expired, cache, accepted, failures>>
        /\ validators' = refresh[k].next
    BY <1>5 DEF Persist
  <2>4. validators' \in Pairs /\ Known(validators')
    BY <2>1, <2>2, <2>3 DEF Refresh, Tagged, Known, NoPair
  <2>5. failures' \in 0..Failures
    BY <1>v, <2>3
  <2> QED
    BY <2>3, <2>4, <2>5, NoRefreshType, NothingAccepted
<1>6. CASE UNCHANGED vars
  BY <1>6, <1>v, NoChange DEF vars
<1> QED
  BY <1>1, <1>2, <1>3, <1>4, <1>5, <1>6, AcceptStep, FetchTrustStep, FetchRegistryStep
  DEF Next, RefreshStep

\* The cache holds the newest of what was accepted, and all validators name accepted documents.
THEOREM TrustInvariant == Spec => []TrustInv
<1>1. Init => TrustInv
  <2> SUFFICES ASSUME Init PROVE TrustInv
    OBVIOUS
  <2>1. TypeOK
    BY NoRefreshType, TrustAssumption DEF Init, TypeOK, NoRefresh, Refresh
  <2>2. CacheIsNewest
    BY DEF Init, CacheIsNewest, NoPair
  <2>3. Provenance
    BY NoRefreshType DEF Init, Provenance, Known, NoPair, Cleared, NoRefresh
  <2> QED
    BY <2>1, <2>2, <2>3 DEF TrustInv
<1>2. TrustInv /\ [Next]_vars => TrustInv'
  BY TrustStep
<1> QED
  BY <1>1, <1>2, PTL DEF Spec

\* The variables of PackageTrust keep their types, and the cache has two documents or none.
THEOREM TrustTypeCorrect == Spec => []TypeOK
BY TrustInvariant, PTL DEF TrustInv

\* No two documents are accepted under one number, and none after a newer one, with any number
\* of overlapping refreshes (package_trust_cache.rs: accept_conditional_documents).
THEOREM NumbersAreUnique == Spec => []OneDocumentPerNumber
<1>1. ASSUME TrustInv PROVE OneDocumentPerNumber
  <2>1. accepted \in SUBSET (Bundles \cup Snapshots)
    BY <1>1 DEF TrustInv, TypeOK
  <2>2. \A t \in accepted \cap Bundles : Sequence[t] <= Sequence[cache.trust]
    <3>1. cache.trust \in Bundles \cup {None}
      BY <1>1 DEF TrustInv, TypeOK, NoPair
    <3> QED
      BY <1>1, <3>1, TrustAssumption DEF TrustInv, CacheIsNewest, Superseded
  <2>3. \A s \in accepted \cap Snapshots : Revision[s] <= Revision[cache.registry]
    <3>1. cache.registry \in Snapshots \cup {None}
      BY <1>1 DEF TrustInv, TypeOK, NoPair
    <3> QED
      BY <1>1, <3>1, TrustAssumption DEF TrustInv, CacheIsNewest, Superseded
  <2> QED
    BY <1>1, <2>2, <2>3 DEF OneDocumentPerNumber, TrustInv, CacheIsNewest
<1> QED
  BY <1>1, TrustInvariant, PTL

\* A validator never names a document that the cache has not caught up with, so a 304 hides no
\* newer one (package_registry_fetcher.rs: persist_validators after the cache accepted).
THEOREM NothingHidden == Spec => []NotModifiedIsCached
<1>1. ASSUME TrustInv PROVE NotModifiedIsCached
  <2> SUFFICES ASSUME NEW v \in {validators} \cup {refresh[k].held : k \in Refreshes}
               PROVE  /\ v.trust # None => Superseded(Sequence, v.trust, cache.trust)
                      /\ v.registry # None => Superseded(Revision, v.registry, cache.registry)
    BY DEF NotModifiedIsCached
  <2>1. Known(v) /\ v \in Pairs
    BY <1>1 DEF TrustInv, Provenance, Tagged, TypeOK
  <2> QED
    BY <1>1, <2>1 DEF Known, Pairs, TrustInv, CacheIsNewest
<1> QED
  BY <1>1, TrustInvariant, PTL
=============================================================================
