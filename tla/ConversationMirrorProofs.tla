---------------------- MODULE ConversationMirrorProofs ----------------------
(* Proofs about Conversation: the desktop's mirror converges to the actor's  *)
(* queue, and what the user asked for settles, for any number of messages,   *)
(* synthetic turns, operations, lost connections and restarts.  The inductive *)
(* invariant relates what the desktop knows to what the session actor has     *)
(* done, through every message that is on its way between them.               *)
EXTENDS ConversationProofs

-----------------------------------------------------------------------------
(* The invariant *)

\* A message of that type is in s.
Has(s, type) == \E m \in ToSet(s) : m.type = type

\* No announcement of a reconnection follows position k.
Fresh(s, k) == \A j \in 1 .. Len(s) : j > k => s[j].type # "reconnected"

\* The snapshots behind the last announcement.
Snaps(s) == {k \in 1 .. Len(s) : s[k].type = "queue" /\ Fresh(s, k)}

\* A list of entries and a running turn show the actor's queue.
Shows(list, turn, q) ==
    /\ list = QueueWire(q)
    /\ turn = q.task \/ (q.task = None /\ turn \in Wakes)

\* What the actor sends: revisions grow up to its own, the last snapshot shows it.
Line(s, q) ==
    /\ \A j, k \in Snaps(s) : j < k => s[j].rev < s[k].rev
    /\ \A k \in Snaps(s) : 1 <= s[k].rev /\ s[k].rev <= q.rev
    /\ \A k \in Snaps(s) : (\A j \in Snaps(s) : j <= k) => Shows(s[k].entries, s[k].running, q)
    /\ \A k \in 1 .. Len(s) : s[k].type = "loaded" /\ s[k].ok /\ Fresh(s, k) => q.on

\* The desktop listens to this connection: no announcement is to come.
Linked == conn = "up" /\ ~ Has(down, "reconnected")

\* It has taken every snapshot.
Synced == Linked /\ ~ Has(down, "queue") /\ rev >= 0

\* An actor between two arms: without a broadcast so far it is as it started.
ActorRests ==
    /\ actor.out = <<>> /\ actor.replied = {}
    /\ actor.rev = 0 => actor.pend = <<>> /\ actor.task = None /\ actor.done = <<>> /\ actor.live = {}
    /\ ~ actor.on => actor.rev = 0 /\ prep = {} /\ stops = 0

\* The mirror is behind what is on its way, and shows the queue when nothing is.
Mirrors ==
    /\ conn = "up" => Line(down, actor)
    /\ Linked => /\ rev = -1 \/ (1 <= rev /\ rev <= actor.rev)
                 /\ \A m \in ToSet(down) : m.type = "queue" => rev < m.rev
    /\ Synced => Shows(entries, running, actor)

\* A mirror that waits for a snapshot gets one, or the load was refused.
SyncComes ==
    Linked /\ rev = -1 /\ recover # "failed" =>
        \/ Has(up, "load") \/ Has(down, "loaded") \/ Has(down, "queue")
        \/ actor.on /\ Has(up, "reorder")

\* A mirror at revision r has heard from the actor when n messages of s are taken.
Heard(s, r, n) ==
    \/ \E j \in 1 .. n : /\ s[j].type = "queue"
                         /\ \A i \in 1 .. n : i > j => s[i].type # "reconnected"
    \/ r >= 0 /\ \A i \in 1 .. n : s[i].type # "reconnected"

\* Before each answer with a result the mirror has heard from the actor.
Preceded(s, r) == \A k \in 1 .. Len(s) : s[k].type = "answer" /\ s[k].ok => Heard(s, r, k - 1)

\* Whoever is answered by this connection was announced on it.
AnswersHeard ==
    /\ Preceded(down, rev)
    /\ \A p \in here : p \in Ids(actor.pend) \/ [id |-> p, ok |-> TRUE] \in returns =>
         Heard(down, rev, Len(down))
    /\ conn # "up" => here = {}

\* A message is submitted once and answered after it left the connection.
AnsweredOnce ==
    /\ \A a \in returns : status[a.id] # "new"
    /\ \A a \in returns, m \in ToSet(up) : m.type = "prompt" => m.id # a.id

\* The desktop's record of a submission.
Asked ==
    /\ \A p \in Prompts : status[p] = "submitting" => p \in waiting
    /\ \A p \in waiting : status[p] # "new"
    /\ \A p \in Prompts : status[p] \in {"queued", "running"} => p \in Live(entries, running)

\* Where the request of p is.
Underway(p) == \E m \in ToSet(up) : m.type = "prompt" /\ m.id = p
Handled(p) == \E h \in prep : h.id = p
Returned(p) == \E a \in returns : a.id = p
AnswerSent(p) == \E m \in ToSet(down) : m.type = "answer" /\ m.id = p

\* A submission is on its way, in the queue, or about to be answered; what the
\* queue holds is known to the synchronised mirror, and nothing else is open.
Submissions ==
    \A p \in Prompts :
        /\ Linked /\ status[p] = "submitting" =>
              \/ Underway(p) \/ AnswerSent(p)
              \/ p \in here /\ (Handled(p) \/ Returned(p) \/ p \in Ids(actor.pend))
        /\ Synced /\ p \in Ids(actor.pend) => status[p] # "submitting"
        /\ Synced /\ status[p] = "unknown" => p \notin waiting /\ p \in Ids(actor.pend)

\* A cancel is on its way, or a snapshot without a running turn is or will be.
CancelEnds ==
    Linked /\ cancel.on =>
        \/ Has(up, "cancel") \/ stops > 0
        \/ \E m \in ToSet(down) : m.type = "queue" /\ m.running = None
        \/ rev = -1 /\ actor.rev = 0

Mutations ==
    [kind : {"remove", "edit", "now", "reorder", "clear"}, id : Prompts \cup {None},
     text : 0 .. MaxEvents, order : Seq(Prompts), base : Nat, failed : BOOLEAN]

Pending == mutation # None /\ ~ mutation.failed

\* A message to the queue that the actor answers with a snapshot.
Telling(m, list) ==
    \/ m.type \in {"remove", "now", "reorder", "clear"}
    \/ m.type = "edit" /\ m.id \in Live(list, None)

MutationEnds ==
    /\ mutation = None \/ mutation \in Mutations
    /\ Pending => mutation.base = rev /\ rev >= 0
    /\ Linked /\ Pending => Has(down, "queue") \/ \E m \in ToSet(up) : Telling(m, entries)

MirrorInv ==
    /\ ActorRests /\ Mirrors /\ SyncComes /\ AnswersHeard /\ AnsweredOnce /\ Asked
    /\ Submissions /\ CancelEnds /\ MutationEnds

-----------------------------------------------------------------------------
(* What the sequence operators keep *)

\* Every item of s at a position of at is in r.
Covers(r, s, at) == \A k \in at : \E j \in 1 .. Len(r) : r[j] = s[k]

LEMMA SameLength ==
    ASSUME NEW m \in Nat, NEW n \in Nat, 1 .. m = 1 .. n
    PROVE  m = n
<1>1. CASE m < n
  BY <1>1
<1>2. CASE n < m
  BY <1>2
<1> QED
  BY <1>1, <1>2

LEMMA ArrangedCovers ==
    ASSUME NEW S, NEW s \in Seq(S), NEW at \in SUBSET (1 .. Len(s)), NEW weight \in [at -> Int]
    PROVE  Covers(Arranged(s, at, weight), s, at)
<1> DEFINE c == Cardinality(at)
           r == Arranged(s, at, weight)
<1>0. Len(s) \in Nat
  BY LenProperties
<1>1. c \in Nat
  BY <1>0, FinitePositions
<1>2. PICK p : Lists(p, r, s, at, weight)
  BY <1>0, Arrangement
<1>3. /\ r = [j \in 1 .. c |-> s[p[j]]]
      /\ \A k \in at : \E j \in 1 .. c : p[j] = k
  BY <1>2 DEF Lists
<1>4. r \in Seq(S)
  BY ArrangedItems
<1> HIDE DEF c, r
<1>5. Len(r) = c /\ \A j \in 1 .. c : r[j] = s[p[j]]
  <2>1. Len(r) \in Nat /\ r \in [1 .. Len(r) -> S]
    BY <1>4, LenProperties
  <2>2. DOMAIN r = 1 .. c /\ DOMAIN r = 1 .. Len(r)
    BY <1>3, <2>1
  <2>3. Len(r) = c
    BY <1>1, <2>1, <2>2, SameLength
  <2> QED
    BY <1>3, <2>3
<1>6. \A k \in at : \E j \in 1 .. Len(r) : r[j] = s[k]
  BY <1>3, <1>5
<1> QED
  BY <1>6 DEF Covers, r

LEMMA SelectedCovers ==
    ASSUME NEW S, NEW s \in Seq(S), NEW at \in SUBSET (1 .. Len(s))
    PROVE  Covers(Selected(s, at), s, at)
<1> DEFINE w == [k \in at |-> 0]
<1>1. w \in [at -> Int]
  OBVIOUS
<1>2. Selected(s, at) = Arranged(s, at, w)
  BY DEF Selected
<1> HIDE DEF w
<1> QED
  BY <1>1, <1>2, ArrangedCovers

LEMMA InsertNowCovers ==
    ASSUME NEW s \in Seq(Item), NEW item \in Item, NEW task
    PROVE  Ids(s) \cup {item.id} \subseteq Ids(InsertNow(s, task, item))
<1> DEFINE first == IF s # <<>> /\ Head(s).id = task THEN 2 ELSE 1
           spots == {k \in first .. Len(s) + 1 : k > Len(s) \/ ~ s[k].now}
           i == Min(spots)
           e == [item EXCEPT !.now = TRUE]
           r == InsertAt(s, i, e)
<1>0. Len(s) \in Nat
  BY LenProperties
<1>1. first \in 1 .. Len(s) + 1
  <2>1. s # <<>> => Len(s) # 0
    BY EmptySeq
  <2> QED
    BY <1>0, <2>1
<1>2. spots \in SUBSET Nat /\ spots # {} /\ spots \subseteq first .. Len(s) + 1
  <2>1. Len(s) + 1 \in spots
    BY <1>0, <1>1
  <2>2. spots \in SUBSET Nat
    BY <1>0, <1>1
  <2> QED
    BY <2>1, <2>2
<1>3. i \in first .. Len(s) + 1
  <2> HIDE DEF spots
  <2> QED
    BY <1>2, NatMin
<1>4. e \in Item /\ e.id = item.id
  BY DEF Item
<1>5. InsertNow(s, task, item) = r
  BY DEF InsertNow
<1>6. i \in 1 .. Len(s) + 1 /\ i \in Nat
  BY <1>0, <1>1, <1>3
<1> HIDE DEF first, spots, i, e
<1>7. r \in Seq(Item) /\ Inserted(r, s, i, e)
  BY <1>4, <1>6, InsertAtFacts
<1> HIDE DEF r
<1>8. /\ Len(r) = Len(s) + 1
      /\ \A k \in 1 .. Len(s) + 1 : r[k] = IF k < i THEN s[k] ELSE IF k = i THEN e ELSE s[k - 1]
  BY <1>7 DEF Inserted
<1>9. \A k \in 1 .. Len(s) : \E n \in 1 .. Len(r) : r[n] = s[k]
  <2>1. SUFFICES ASSUME NEW k \in 1 .. Len(s) PROVE \E n \in 1 .. Len(r) : r[n] = s[k]
    OBVIOUS
  <2>2. CASE k < i
    BY <1>0, <1>6, <1>8, <2>2
  <2>3. CASE k >= i
    <3>1. k + 1 \in 1 .. Len(s) + 1 /\ ~ (k + 1 < i) /\ k + 1 # i /\ (k + 1) - 1 = k
      BY <1>0, <1>6, <2>3
    <3> QED
      BY <1>8, <3>1
  <2> QED
    BY <1>0, <1>6, <2>2, <2>3
<1>10. i \in 1 .. Len(r) /\ r[i] = e
  BY <1>0, <1>6, <1>8
<1> QED
  BY <1>4, <1>5, <1>9, <1>10 DEF Ids

LEMMA RemovedCovers ==
    ASSUME NEW s \in Seq(Item), NEW i \in 1 .. Len(s), NEW r, Removed(r, s, i)
    PROVE  Ids(s) \subseteq Ids(r) \cup {s[i].id}
<1>0. Len(s) \in Nat /\ i \in Nat /\ i >= 1 /\ i <= Len(s) /\ Len(r) = Len(s) - 1
  BY LenProperties DEF Removed
<1>1. \A k \in 1 .. Len(s) - 1 : r[k] = IF k < i THEN s[k] ELSE s[k + 1]
  BY DEF Removed
<1>2. SUFFICES ASSUME NEW k \in 1 .. Len(s), k # i PROVE \E n \in 1 .. Len(r) : r[n] = s[k]
  BY DEF Ids
<1>3. CASE k < i
  BY <1>0, <1>1, <1>3
<1>4. CASE k > i
  <2>1. k - 1 \in 1 .. Len(s) - 1 /\ ~ (k - 1 < i) /\ (k - 1) + 1 = k
    BY <1>0, <1>4
  <2> QED
    BY <1>0, <1>1, <2>1
<1> QED
  BY <1>0, <1>2, <1>3, <1>4

\* The entries of the wire are the queued prompts without the one that runs.
LEMMA WireIds ==
    ASSUME NEW q \in Actors
    PROVE  Live(QueueWire(q), None) = (Ids(q.pend) \cap Prompts) \ {q.task}
<1> DEFINE at == Queueable(q)
           s == Selected(q.pend, at)
           e == QueueWire(q)
<1>0. q.pend \in Seq(Item) /\ Len(q.pend) \in Nat /\ at \in SUBSET (1 .. Len(q.pend))
  BY PendFacts DEF Queueable
<1>1. s \in Seq(Item) /\ Picks(s, q.pend, at) /\ Covers(s, q.pend, at)
  BY <1>0, SelectedItems, SelectedCovers
<1>2. e = [k \in 1 .. Len(s) |-> [id |-> s[k].id, ver |-> s[k].ver, text |-> s[k].text]]
  BY DEF QueueWire
<1>3. e \in Seq(Entry)
  BY QueueWireTyped
<1>a. \A k \in at : q.pend[k].id \in Prompts \ {q.task}
  BY DEF Queueable
<1>b. \A k \in 1 .. Len(q.pend) : q.pend[k].id \in Prompts \ {q.task} => k \in at
  BY DEF Queueable
<1> HIDE DEF s, e, at
<1>4. Len(s) \in Nat /\ Len(e) \in Nat /\ e \in [1 .. Len(e) -> Entry]
  BY <1>1, <1>3, LenProperties
<1>5. Len(e) = Len(s) /\ \A k \in 1 .. Len(s) : e[k].id = s[k].id
  <2>1. DOMAIN e = 1 .. Len(s) /\ DOMAIN e = 1 .. Len(e)
    BY <1>2, <1>4
  <2>2. Len(e) = Len(s)
    BY <1>4, <2>1
  <2> QED
    BY <1>2, <2>2
<1>6. ToSet(e) = {e[k] : k \in 1 .. Len(e)}
  BY <1>4 DEF ToSet
<1>7. Live(e, None) = {s[k].id : k \in 1 .. Len(s)}
  BY <1>5, <1>6 DEF Live
<1>8. {s[k].id : k \in 1 .. Len(s)} \subseteq (Ids(q.pend) \cap Prompts) \ {q.task}
  <2>1. PICK p \in [1 .. Len(s) -> at] : \A j \in 1 .. Len(s) : s[j] = q.pend[p[j]]
    BY <1>1 DEF Picks
  <2>2. \A j \in 1 .. Len(s) : p[j] \in at /\ p[j] \in 1 .. Len(q.pend)
    BY <1>0, <2>1
  <2> QED
    BY <1>a, <2>1, <2>2 DEF Ids
<1>9. (Ids(q.pend) \cap Prompts) \ {q.task} \subseteq {s[k].id : k \in 1 .. Len(s)}
  BY <1>1, <1>b DEF Ids, Covers
<1> QED
  BY <1>7, <1>8, <1>9 DEF e

\* The wire depends on the queue and the running turn only; without prompts it is empty.
LEMMA WireSame ==
    ASSUME NEW q, NEW r, r.pend = q.pend, r.task = q.task
    PROVE  QueueWire(r) = QueueWire(q)
BY DEF QueueWire, Queueable

LEMMA WireEmpty ==
    ASSUME NEW q \in Actors, Ids(q.pend) \cap Prompts = {}
    PROVE  QueueWire(q) = <<>>
<1>1. Queueable(q) = {}
  BY DEF Queueable, Ids
<1> DEFINE s == Selected(q.pend, {})
<1>2. q.pend \in Seq(Item) /\ {} \in SUBSET (1 .. Len(q.pend))
  BY PendFacts
<1>3. s \in Seq(Item) /\ Picks(s, q.pend, {})
  BY <1>2, SelectedItems
<1>4. Len(s) \in Nat /\ QueueWire(q) \in Seq(Entry)
  BY <1>3, LenProperties, QueueWireTyped
<1>5. QueueWire(q) = [k \in 1 .. Len(s) |-> [id |-> s[k].id, ver |-> s[k].ver, text |-> s[k].text]]
  BY <1>1 DEF QueueWire
<1> HIDE DEF s
<1>6. 1 .. Len(s) = {}
  BY <1>3 DEF Picks
<1>7. Len(QueueWire(q)) \in Nat /\ DOMAIN QueueWire(q) = 1 .. Len(QueueWire(q))
  BY <1>4, LenProperties
<1>8. DOMAIN QueueWire(q) = {}
  BY <1>5, <1>6
<1>9. Len(QueueWire(q)) = 0
  BY <1>7, <1>8
<1> QED
  BY <1>4, <1>9, EmptySeq

-----------------------------------------------------------------------------
(* What an arm of the actor says: r is what became of q, which had nothing to *)
(* say, T the turns that r holds or answers.                                  *)

Voice(q, r, T) ==
    /\ r.on = q.on
    /\ r.rev = q.rev + Len(r.out)
    /\ \A k \in 1 .. Len(r.out) : r.out[k].rev = q.rev + k
    /\ Ids(r.pend) \cup r.replied \subseteq T
    /\ T \cap Prompts \subseteq Ids(r.pend) \cup r.replied

\* The last snapshot shows the actor.
Current(r) ==
    r.out # <<>> => /\ r.out[Len(r.out)].entries = QueueWire(r)
                    /\ r.out[Len(r.out)].running = r.task

\* There is a snapshot, and the first one shows turn t as running.
First(r, t) == r.out # <<>> /\ r.out[1].running = t

LEMMA OutFacts ==
    ASSUME NEW q \in Actors
    PROVE  /\ q.out \in Seq(Snapshot) /\ Len(q.out) \in Nat /\ q.rev \in Nat
           /\ q.out = <<>> <=> Len(q.out) = 0
           /\ \A k \in 1 .. Len(q.out) : q.out[k] \in Snapshot
<1>1. q.out \in Seq(Snapshot) /\ q.rev \in Nat
  BY DEF Actors
<1> QED
  BY <1>1, EmptySeq, LenProperties, ElementOfSeq

\* r's broadcast adds the snapshot of r to what was said.
Adds(b, r) ==
    /\ Len(b.out) = Len(r.out) + 1
    /\ \A k \in 1 .. Len(r.out) : b.out[k] = r.out[k]
    /\ b.out[Len(r.out) + 1] = [type |-> "queue", rev |-> r.rev + 1, entries |-> QueueWire(r),
                                running |-> r.task]

LEMMA BroadcastSays ==
    ASSUME NEW r \in Actors
    PROVE  /\ Broadcast(r).on = r.on /\ Broadcast(r).rev = r.rev + 1
           /\ Broadcast(r).replied = r.replied
           /\ Adds(Broadcast(r), r)
<1> DEFINE m == [type |-> "queue", rev |-> r.rev + 1, entries |-> QueueWire(r), running |-> r.task]
           o == Append(r.out, m)
           b == Broadcast(r)
<1>0. r.out \in Seq(Snapshot) /\ Len(r.out) \in Nat
  BY OutFacts
<1>1. b.on = r.on /\ b.rev = r.rev + 1 /\ b.replied = r.replied /\ b.out = o
  BY DEF Broadcast, Actors
<1>m. m \in Snapshot
  <2>1. QueueWire(r) \in Seq(Entry)
    BY QueueWireTyped
  <2>2. r.rev + 1 \in Nat /\ r.task \in Turns \cup {None}
    BY DEF Actors
  <2> QED
    BY <2>1, <2>2 DEF Snapshot
<1> HIDE DEF m, b
<1>2. /\ Len(o) = Len(r.out) + 1 /\ o[Len(r.out) + 1] = m
      /\ \A k \in 1 .. Len(r.out) : o[k] = r.out[k]
  BY <1>0, <1>m, AppendProperties
<1> HIDE DEF o
<1>3. Adds(b, r)
  BY <1>1, <1>2 DEF Adds, m
<1> QED
  BY <1>1, <1>3 DEF b

LEMMA VoiceBroadcast ==
    ASSUME NEW q \in Actors, NEW r \in Actors, NEW T, Voice(q, r, T)
    PROVE  /\ Voice(q, Broadcast(r), T) /\ Current(Broadcast(r))
           /\ r.out = <<>> => First(Broadcast(r), r.task)
           /\ \A t : First(r, t) => First(Broadcast(r), t)
<1> DEFINE b == Broadcast(r)
<1>0. /\ Len(r.out) \in Nat /\ r.rev \in Nat /\ q.rev \in Nat /\ (r.out = <<>> <=> Len(r.out) = 0)
      /\ b \in Actors
  BY OutFacts, BroadcastFits
<1>1. b.pend = r.pend /\ b.task = r.task
  BY BroadcastFits
<1>2. b.on = r.on /\ b.rev = r.rev + 1 /\ b.replied = r.replied /\ Adds(b, r)
  BY BroadcastSays
<1> HIDE DEF b
<1>3. Len(b.out) = Len(r.out) + 1 /\ b.out # <<>>
  BY <1>0, <1>2, OutFacts DEF Adds
<1>4. /\ b.out[Len(b.out)].rev = r.rev + 1 /\ b.out[Len(b.out)].entries = QueueWire(r)
      /\ b.out[Len(b.out)].running = r.task
  BY <1>2, <1>3 DEF Adds
<1>5. b.rev = q.rev + Len(b.out)
  BY <1>0, <1>2, <1>3 DEF Voice
<1>6. \A k \in 1 .. Len(b.out) : b.out[k].rev = q.rev + k
  <2>1. SUFFICES ASSUME NEW k \in 1 .. Len(b.out) PROVE b.out[k].rev = q.rev + k
    OBVIOUS
  <2>2. CASE k = Len(b.out)
    BY <1>2, <1>4, <1>5, <2>2
  <2>3. CASE k # Len(b.out)
    <3>1. k \in 1 .. Len(r.out)
      BY <1>0, <1>3, <2>3
    <3> QED
      BY <1>2, <3>1 DEF Adds, Voice
  <2> QED
    BY <2>2, <2>3
<1>7. Voice(q, b, T)
  BY <1>1, <1>2, <1>5, <1>6 DEF Voice
<1>8. Current(b)
  <2>1. QueueWire(b) = QueueWire(r)
    BY <1>1, WireSame
  <2> QED
    BY <1>1, <1>4, <2>1 DEF Current
<1>9. r.out = <<>> => First(b, r.task)
  BY <1>0, <1>3, <1>4 DEF First
<1>10. \A t : First(r, t) => First(b, t)
  <2>1. r.out # <<>> => 1 \in 1 .. Len(r.out)
    BY <1>0
  <2> QED
    BY <1>2, <1>3, <2>1 DEF First, Adds
<1> QED
  BY <1>7, <1>8, <1>9, <1>10 DEF b

\* A change of queue or task alone says nothing.
LEMMA VoiceSame ==
    ASSUME NEW q, NEW r, NEW s, NEW T, NEW U, Voice(q, r, T),
           s.on = r.on, s.rev = r.rev, s.out = r.out,
           Ids(s.pend) \cup s.replied \subseteq U, U \cap Prompts \subseteq Ids(s.pend) \cup s.replied
    PROVE  Voice(q, s, U) /\ \A t : First(r, t) => First(s, t)
BY DEF Voice, First

LEMMA VoiceStart ==
    ASSUME NEW q \in Actors, NEW r \in Actors, Orderly(r), NEW T, Voice(q, r, T), Current(r)
    PROVE  /\ Voice(q, MaybeStart(r), T) /\ Current(MaybeStart(r))
           /\ \A t : First(r, t) => First(MaybeStart(r), t)
           /\ (r.task = None /\ r.pend # <<>>) => MaybeStart(r).out # <<>>
<1>1. CASE r.task # None \/ r.pend = <<>>
  BY <1>1 DEF MaybeStart
<1>2. CASE r.task = None /\ r.pend # <<>>
  <2> DEFINE id == Head(r.pend).id
             a == [r EXCEPT !.task = id, !.live = r.live \cup {id}, !.starts[id] = r.starts[id] + 1]
  <2>1. MaybeStart(r) = Broadcast(a)
    BY <1>2 DEF MaybeStart
  <2>2. id \in Turns
    BY <1>2, FrontFacts
  <2>3. a \in Actors
    <3>1. PICK b \in Actors : b = [r EXCEPT !.task = id]
      BY <2>2, ActorUpdate
    <3>2. r.live \cup {id} \in SUBSET Turns /\ r.starts \in [Turns -> Nat] /\ b.starts = r.starts
      BY <2>2, <3>1 DEF Actors
    <3>3. PICK c \in Actors : c = [b EXCEPT !.live = r.live \cup {id}]
      BY <3>2, ActorUpdate
    <3>4. PICK f : f = [r.starts EXCEPT ![id] = r.starts[id] + 1]
      OBVIOUS
    <3>5. f \in [Turns -> Nat]
      BY <2>2, <3>2, <3>4, CountUp
    <3>6. a = [c EXCEPT !.starts = f]
      BY <3>1, <3>3, <3>4 DEF Actors
    <3> HIDE DEF a
    <3> QED
      BY <3>3, <3>5, <3>6 DEF Actors
  <2>4. a.pend = r.pend /\ a.on = r.on /\ a.rev = r.rev /\ a.out = r.out /\ a.replied = r.replied
    BY DEF Actors
  <2> HIDE DEF a
  <2>5. Voice(q, a, T) /\ \A t : First(r, t) => First(a, t)
    BY <2>4 DEF Voice, First
  <2>6. /\ Voice(q, Broadcast(a), T) /\ Current(Broadcast(a))
        /\ a.out = <<>> => First(Broadcast(a), a.task)
        /\ \A t : First(a, t) => First(Broadcast(a), t)
    BY <2>3, <2>5, VoiceBroadcast
  <2>7. Broadcast(a).out # <<>>
    <3>1. Broadcast(a) \in Actors /\ Adds(Broadcast(a), a)
      BY <2>3, BroadcastFits, BroadcastSays
    <3>2. Len(Broadcast(a).out) # 0
      BY <2>3, <3>1, OutFacts DEF Adds
    <3> QED
      BY <3>1, <3>2, OutFacts
  <2> QED
    BY <2>1, <2>5, <2>6, <2>7
<1> QED
  BY <1>1, <1>2

\* The front is answered; the others stay.
LEMMA TailIds ==
    ASSUME NEW s \in Seq(Item), s # <<>>
    PROVE  Ids(s) = Ids(Tail(s)) \cup {Head(s).id}
<1> DEFINE t == Tail(s)
<1>1. /\ t \in Seq(Item) /\ Len(t) = Len(s) - 1 /\ Len(s) \in Nat \ {0}
      /\ \A k \in 1 .. Len(t) : t[k] = s[k + 1]
  BY TailFacts
<1>2. Head(s) = s[1] /\ 1 \in 1 .. Len(s)
  BY <1>1
<1> HIDE DEF t
<1>3. \A k \in 1 .. Len(s) : k = 1 \/ (k - 1 \in 1 .. Len(t) /\ t[k - 1] = s[k])
  BY <1>1
<1>4. \A k \in 1 .. Len(t) : k + 1 \in 1 .. Len(s) /\ t[k] = s[k + 1]
  BY <1>1
<1>5. Ids(s) \subseteq Ids(t) \cup {s[1].id}
  BY <1>3 DEF Ids
<1>6. Ids(t) \cup {s[1].id} \subseteq Ids(s)
  BY <1>2, <1>4 DEF Ids
<1> QED
  BY <1>2, <1>5, <1>6 DEF t

LEMMA EmptyIds == Ids(<<>>) = {}
BY EmptySeq DEF Ids

LEMMA VoiceCancel ==
    ASSUME NEW q \in Actors, NEW r \in Actors, NEW T, Voice(q, r, T)
    PROVE  /\ Voice(q, CancelRunning(r), T) /\ Current(CancelRunning(r))
           /\ r.out = <<>> => First(CancelRunning(r), None)
           /\ \A t : First(r, t) => First(CancelRunning(r), t)
<1> DEFINE l == r.live \ {r.task}
           o == r.replied \cup {Head(r.pend).id : k \in 1 .. Len(r.pend)}
           p == IF r.pend = <<>> THEN r.pend ELSE Tail(r.pend)
           a == [r EXCEPT !.live = l, !.task = None, !.replied = o, !.pend = p]
<1>0. r.pend \in Seq(Item) /\ Len(r.pend) \in Nat
  BY PendFacts
<1>1. CancelRunning(r) = Broadcast(a)
  BY DEF CancelRunning
<1>2. l \in SUBSET Turns /\ p \in Seq(Item)
  BY <1>0, HeadTailProperties DEF Actors
<1>3. o \in SUBSET Turns
  <2>1. CASE r.pend = <<>>
    BY <2>1, EmptySeq DEF Actors
  <2>2. CASE r.pend # <<>>
    BY <2>2, FrontFacts DEF Actors
  <2> QED
    BY <2>1, <2>2
<1>4. Ids(r.pend) \cup r.replied = Ids(p) \cup o
  <2>1. CASE r.pend = <<>>
    BY <2>1, EmptySeq
  <2>2. CASE r.pend # <<>>
    <3>1. Ids(r.pend) = Ids(Tail(r.pend)) \cup {Head(r.pend).id}
      BY <1>0, <2>2, TailIds
    <3>2. {Head(r.pend).id : k \in 1 .. Len(r.pend)} = {Head(r.pend).id}
      BY <2>2, FrontFacts
    <3> QED
      BY <2>2, <3>1, <3>2
  <2> QED
    BY <2>1, <2>2
<1> HIDE DEF l, o, p
<1>5. a \in Actors
  <2>1. PICK b \in Actors : b = [r EXCEPT !.live = l]
    BY <1>2, ActorUpdate
  <2>2. PICK c \in Actors : c = [b EXCEPT !.task = None]
    BY <2>1, ActorUpdate
  <2>3. PICK d \in Actors : d = [c EXCEPT !.replied = o]
    BY <1>3, <2>2, ActorUpdate
  <2>4. a = [d EXCEPT !.pend = p]
    BY <2>1, <2>2, <2>3
  <2> HIDE DEF a
  <2> QED
    BY <1>2, <2>3, <2>4, ActorUpdate
<1>6. a.on = r.on /\ a.rev = r.rev /\ a.out = r.out /\ a.replied = o /\ a.pend = p /\ a.task = None
  BY DEF Actors
<1> HIDE DEF a
<1>7. Voice(q, a, T) /\ \A t : First(r, t) => First(a, t)
  BY <1>4, <1>6 DEF Voice, First
<1>8. /\ Voice(q, Broadcast(a), T) /\ Current(Broadcast(a))
      /\ a.out = <<>> => First(Broadcast(a), a.task)
      /\ \A t : First(a, t) => First(Broadcast(a), t)
  BY <1>5, <1>7, VoiceBroadcast
<1> QED
  BY <1>1, <1>6, <1>7, <1>8

\* r is orderly, what it says is true of it, and the first snapshot has t running.
Spoken(q, r, T, t) ==
    r \in Actors /\ Orderly(r) /\ Voice(q, r, T) /\ Current(r) /\ First(r, t)

LEMMA SpokenSteps ==
    ASSUME NEW q \in Actors, NEW r, NEW T, NEW t, Spoken(q, r, T, t)
    PROVE  Spoken(q, Broadcast(r), T, t) /\ Spoken(q, CancelRunning(r), T, t)
           /\ Spoken(q, MaybeStart(r), T, t)
<1>0. r \in Actors /\ Orderly(r) /\ Voice(q, r, T) /\ Current(r) /\ First(r, t)
  BY DEF Spoken
<1>1. Spoken(q, Broadcast(r), T, t)
  BY <1>0, BroadcastKeeps, VoiceBroadcast DEF Spoken
<1>2. Spoken(q, CancelRunning(r), T, t)
  BY <1>0, CancelRunningKeeps, VoiceCancel DEF Spoken
<1>3. Spoken(q, MaybeStart(r), T, t)
  BY <1>0, MaybeStartKeeps, VoiceStart DEF Spoken
<1> QED
  BY <1>1, <1>2, <1>3

LEMMA SpeaksUp ==
    ASSUME NEW q \in Actors, NEW r \in Actors, NEW T, Orderly(r), Voice(q, r, T), r.out = <<>>
    PROVE  Spoken(q, Broadcast(r), T, r.task) /\ Spoken(q, CancelRunning(r), T, None)
<1>1. Spoken(q, Broadcast(r), T, r.task)
  BY BroadcastKeeps, VoiceBroadcast DEF Spoken
<1>2. Spoken(q, CancelRunning(r), T, None)
  BY CancelRunningKeeps, VoiceCancel DEF Spoken
<1> QED
  BY <1>1, <1>2

\* An actor with nothing said and nobody answered.
Silent(q) == q \in Actors /\ Orderly(q) /\ q.out = <<>> /\ q.replied = {}

LEMMA VoiceSilent ==
    ASSUME NEW q, Silent(q)
    PROVE  Voice(q, q, Ids(q.pend)) /\ Current(q)
<1>1. q.rev \in Nat /\ Len(q.out) = 0 /\ q.out = <<>> /\ q.replied = {}
  BY OutFacts DEF Silent
<1>2. q.rev = q.rev + Len(q.out) /\ 1 .. Len(q.out) = {}
  BY <1>1
<1> QED
  BY <1>1, <1>2 DEF Voice, Current

\* The queue is replaced by p, and o are answered.
LEMMA Refilled ==
    ASSUME NEW q, Silent(q), NEW p \in Seq(Item), NEW o \in SUBSET Turns, NEW T, NEW r,
           r = [q EXCEPT !.pend = p, !.replied = o], NEW S, Sound(q, [q EXCEPT !.pend = p], S),
           Ids(p) \cup o \subseteq T, T \cap Prompts \subseteq Ids(p) \cup o
    PROVE  Spoken(q, Broadcast(r), T, q.task)
<1>0. q \in Actors
  BY DEF Silent
<1>1. PICK a \in Actors : a = [q EXCEPT !.pend = p]
  BY <1>0, ActorUpdate
<1>2. r = [a EXCEPT !.replied = o]
  BY <1>1
<1>a. Sound(q, a, S)
  BY <1>1
<1>b. Sound(q, [a EXCEPT !.replied = o], S)
  BY <1>0, <1>a, SoundReply
<1>3. Sound(q, r, S)
  BY <1>2, <1>b
<1>4. r \in Actors /\ Orderly(r)
  BY <1>3 DEF Sound
<1>5. /\ r.on = q.on /\ r.rev = q.rev /\ r.out = q.out /\ r.pend = p /\ r.replied = o
      /\ r.task = q.task
  BY <1>0 DEF Actors
<1>6. Voice(q, q, Ids(q.pend))
  BY VoiceSilent
<1>7. Voice(q, r, T)
  BY <1>5, <1>6 DEF Voice
<1>8. r.out = <<>>
  BY <1>5 DEF Silent
<1> QED
  BY <1>0, <1>4, <1>5, <1>7, <1>8, SpeaksUp

LEMMA QueueInputSays ==
    ASSUME NEW q, Silent(q), NEW item \in Item, item.id \notin Ids(q.pend),
           q.starts[item.id] = 0,
           NEW armed \in BOOLEAN, NEW blocked \in BOOLEAN, NEW goal \in BOOLEAN
    PROVE  Spoken(q, QueueInput(q, item, armed, blocked, goal), Ids(q.pend) \cup {item.id}, q.task)
           \/ (item.id \in Prompts /\ \E T :
                 /\ T \subseteq Ids(q.pend) \cup {item.id}
                 /\ (Ids(q.pend) \cup {item.id}) \cap Prompts \subseteq T
                 /\ Spoken(q, QueueInput(q, item, armed, blocked, goal), T, q.task))
<1> DEFINE s == q.pend
           S == {item.id}
<1>q. q \in Actors /\ Orderly(q) /\ q.replied = {}
  BY DEF Silent
<1>0. s \in Seq(Item) /\ Distinct(s) /\ (q.task # None => s # <<>> /\ s[1].id = q.task)
  BY <1>q, PendFacts DEF Orderly
<1>1. CASE item.id \in Wakes
  <2> DEFINE p == Append(s, item)
             a == [q EXCEPT !.pend = p]
             T == Ids(q.pend) \cup S
  <2>1. QueueInput(q, item, armed, blocked, goal) = MaybeStart(Broadcast(a))
    BY <1>1 DEF QueueInput
  <2>2. /\ p \in Seq(Item) /\ Distinct(p) /\ Ids(p) \subseteq Ids(q.pend) \cup S
        /\ q.task # None => p # <<>> /\ p[1].id = q.task
    <3> HIDE DEF s
    <3>1. item.id \notin Ids(s) /\ p = Append(s, item)
      BY DEF s
    <3> HIDE DEF p
    <3>2. /\ p \in Seq(Item) /\ Distinct(p) /\ Ids(p) \subseteq Ids(s) \cup {item.id}
          /\ (s # <<>> /\ s[1].id = q.task) => p # <<>> /\ p[1].id = q.task
      BY <1>0, <3>1, AppendFacts
    <3> QED
      BY <1>0, <3>2 DEF s
  <2>c. Ids(s) \cup S \subseteq Ids(p)
    <3>1. Len(s) \in Nat /\ Len(p) = Len(s) + 1 /\ p[Len(s) + 1] = item /\ \A k \in 1 .. Len(s) : p[k] = s[k]
      BY <1>0, AppendProperties, LenProperties
    <3> HIDE DEF p, s
    <3>2. Len(s) + 1 \in 1 .. Len(p) /\ \A k \in 1 .. Len(s) : k \in 1 .. Len(p)
      BY <3>1
    <3> QED
      BY <3>1, <3>2 DEF Ids
  <2> HIDE DEF p
  <2>3. Sound(q, a, S)
    BY <1>q, <1>0, <2>2, SoundRefill
  <2>e. a = [q EXCEPT !.pend = p, !.replied = {}]
    BY <1>q DEF Actors
  <2>4. Spoken(q, Broadcast(a), T, q.task)
    <3>1. Ids(p) \cup {} \subseteq T /\ T \cap Prompts \subseteq Ids(p) \cup {} /\ {} \in SUBSET Turns
      BY <2>2, <2>c
    <3> HIDE DEF T, S
    <3> QED
      BY <2>2, <2>3, <2>e, <3>1, Refilled
  <2> HIDE DEF a, S, T
  <2>5. Spoken(q, MaybeStart(Broadcast(a)), T, q.task)
    BY <1>q, <2>4, SpokenSteps
  <2> QED
    BY <2>1, <2>5 DEF S, T
<1>2. CASE item.id \notin Wakes
  <2> DEFINE at == {k \in 1 .. Len(s) : armed => s[k].id \in Prompts \cup {q.task}}
             kept == Selected(s, at)
             now == item.now \/ (q.task # None /\ blocked /\ Queueable(q) = {})
             p == IF now THEN InsertNow(kept, q.task, item) ELSE Append(kept, item)
             a == [q EXCEPT !.pend = p]
             fed == Broadcast(a)
             c == IF now /\ q.task # None /\ ~ goal THEN CancelRunning(fed) ELSE fed
  <2>1. QueueInput(q, item, armed, blocked, goal) = MaybeStart(c)
    BY <1>2 DEF QueueInput
  <2>2. at \in SUBSET (1 .. Len(s))
    OBVIOUS
  <2>3. q.task # None => 1 \in at
    <3>1. q.task # None => 1 \in 1 .. Len(s)
      BY <1>q, <1>0, FrontFacts
    <3> QED
      BY <1>0, <3>1
  <2>d. \A k \in 1 .. Len(s) : s[k].id \in Prompts => k \in at
    OBVIOUS
  <2> HIDE DEF at
  <2>4. kept \in Seq(Item) /\ Picks(kept, s, at) /\ (1 \in at => kept # <<>> /\ kept[1] = s[1])
        /\ Covers(kept, s, at)
    <3> HIDE DEF s
    <3> QED
      BY <1>0, <2>2, SelectedItems, SelectedCovers
  <2> HIDE DEF kept
  <2>5. Distinct(kept) /\ Ids(kept) \subseteq Ids(s)
    <3> HIDE DEF s
    <3> QED
      BY <1>0, <2>2, <2>4, PicksKeep
  <2>k. Ids(s) \cap Prompts \subseteq Ids(kept)
    BY <2>4, <2>d DEF Ids, Covers
  <2>6. item.id \notin Ids(kept)
    BY <2>5
  <2>7. q.task # None => kept # <<>> /\ kept[1].id = q.task
    BY <1>0, <2>3, <2>4
  <2> HIDE DEF now
  <2>8. /\ p \in Seq(Item) /\ Distinct(p) /\ Ids(p) \subseteq Ids(kept) \cup {item.id}
        /\ (kept # <<>> /\ kept[1].id = q.task) => p # <<>> /\ p[1].id = q.task
        /\ Ids(kept) \cup {item.id} \subseteq Ids(p)
    <3>1. CASE now
      <4>1. p = InsertNow(kept, q.task, item)
        BY <3>1
      <4> HIDE DEF p
      <4> QED
        BY <4>1, <2>4, <2>5, <2>6, InsertNowFacts, InsertNowCovers
    <3>2. CASE ~ now
      <4>1. p = Append(kept, item)
        BY <3>2
      <4>2. Len(kept) \in Nat /\ Len(p) = Len(kept) + 1 /\ p[Len(kept) + 1] = item
            /\ \A k \in 1 .. Len(kept) : p[k] = kept[k]
        BY <2>4, <4>1, AppendProperties, LenProperties
      <4> HIDE DEF p
      <4>3. Len(kept) + 1 \in 1 .. Len(p) /\ \A k \in 1 .. Len(kept) : k \in 1 .. Len(p)
        BY <4>2
      <4>4. Ids(kept) \cup {item.id} \subseteq Ids(p)
        BY <4>2, <4>3 DEF Ids
      <4> QED
        BY <4>1, <4>4, <2>4, <2>5, <2>6, AppendFacts
    <3> QED
      BY <3>1, <3>2
  <2> HIDE DEF p
  <2>9. Sound(q, a, S)
    <3>1. Ids(p) \subseteq Ids(q.pend) \cup S
      BY <2>5, <2>8
    <3>2. q.task # None => p # <<>> /\ p[1].id = q.task
      BY <2>7, <2>8
    <3> QED
      BY <1>q, <2>8, <3>1, <3>2, SoundRefill
  <2> DEFINE T == Ids(p)
  <2>e. a = [q EXCEPT !.pend = p, !.replied = {}]
    BY <1>q DEF Actors
  <2>10. Spoken(q, fed, T, q.task)
    <3>1. Ids(p) \cup {} \subseteq T /\ T \cap Prompts \subseteq Ids(p) \cup {} /\ {} \in SUBSET Turns
      OBVIOUS
    <3> HIDE DEF T, S
    <3> QED
      BY <2>8, <2>9, <2>e, <3>1, Refilled
  <2>11. T \subseteq Ids(s) \cup S /\ (Ids(s) \cup S) \cap Prompts \subseteq T
    BY <2>5, <2>8, <2>k
  <2> HIDE DEF fed, T
  <2>12. Spoken(q, c, T, q.task)
    BY <1>q, <2>10, SpokenSteps
  <2> HIDE DEF c
  <2>13. Spoken(q, MaybeStart(c), T, q.task)
    BY <1>q, <2>12, SpokenSteps
  <2>14. item.id \in Prompts
    BY <1>2 DEF Item, Turns
  <2> QED
    BY <2>1, <2>11, <2>13, <2>14
<1> QED
  BY <1>1, <1>2

-----------------------------------------------------------------------------
(* What each arm says *)

LEMMA SilentBroadcast ==
    ASSUME NEW q, Silent(q)
    PROVE  Spoken(q, Broadcast(q), Ids(q.pend), q.task)
<1>1. q \in Actors /\ Orderly(q) /\ q.out = <<>> /\ Voice(q, q, Ids(q.pend))
  BY VoiceSilent DEF Silent
<1> QED
  BY <1>1, SpeaksUp

LEMMA StopSays ==
    ASSUME NEW q, Silent(q)
    PROVE  Spoken(q, MaybeStart(CancelRunning(q)), Ids(q.pend), None)
<1>1. q \in Actors /\ Orderly(q) /\ q.out = <<>> /\ Voice(q, q, Ids(q.pend))
  BY VoiceSilent DEF Silent
<1>2. Spoken(q, CancelRunning(q), Ids(q.pend), None)
  BY <1>1, SpeaksUp
<1> QED
  BY <1>1, <1>2, SpokenSteps

LEMMA RemoveQueuedSays ==
    ASSUME NEW q, Silent(q), NEW id, NEW ver
    PROVE  Spoken(q, RemoveQueued(q, id, ver), Ids(q.pend), q.task)
<1>0. q \in Actors /\ Orderly(q) /\ q.replied = {}
  BY DEF Silent
<1> DEFINE at == {k \in Queued(q, id) : q.pend[k].ver = ver}
<1>1. CASE at = {}
  <2>1. RemoveQueued(q, id, ver) = Broadcast(q)
    BY <1>1 DEF RemoveQueued
  <2> QED
    BY <2>1, SilentBroadcast
<1>2. CASE at # {}
  <2> DEFINE s == q.pend
             i == Min(at)
             p == RemoveAt(s, i)
             b == [q EXCEPT !.pend = p, !.replied = {id}]
  <2>1. RemoveQueued(q, id, ver) = Broadcast(b)
    BY <1>0, <1>2 DEF RemoveQueued
  <2>2. at \in SUBSET Queued(q, id)
    OBVIOUS
  <2> HIDE DEF at
  <2>3. i \in 1 .. Len(s) /\ id \in Turns /\ (q.task # None => i # 1) /\ s[i].id = id
    BY <1>0, <1>2, <2>2, QueuedFacts
  <2>4. s \in Seq(Item) /\ Distinct(s) /\ (q.task # None => s[1].id = q.task)
    BY <1>0, PendFacts DEF Orderly
  <2> HIDE DEF i
  <2>5. p \in Seq(Item) /\ Removed(p, s, i)
    <3> HIDE DEF s
    <3> QED
      BY <2>3, <2>4, RemoveAtFacts
  <2> HIDE DEF p
  <2>6. /\ Distinct(p) /\ Ids(p) \subseteq Ids(s) /\ (i # 1 => p # <<>> /\ p[1] = s[1])
        /\ Ids(s) \subseteq Ids(p) \cup {s[i].id}
    <3> HIDE DEF s
    <3> QED
      BY <2>3, <2>4, <2>5, RemovedKeeps, RemovedCovers
  <2>7. Sound(q, [q EXCEPT !.pend = p], {})
    <3>1. q.task # None => p # <<>> /\ p[1].id = q.task
      BY <2>3, <2>4, <2>6
    <3>2. Ids(p) \subseteq Ids(q.pend) \cup {}
      BY <2>6
    <3> QED
      BY <1>0, <2>5, <2>6, <3>1, <3>2, SoundRefill
  <2>8. id \in Ids(s)
    BY <2>3 DEF Ids
  <2>9. /\ Ids(p) \cup {id} \subseteq Ids(q.pend) /\ Ids(q.pend) \cap Prompts \subseteq Ids(p) \cup {id}
        /\ {id} \in SUBSET Turns
    BY <2>3, <2>6, <2>8
  <2>10. Spoken(q, Broadcast(b), Ids(q.pend), q.task)
    BY <2>5, <2>7, <2>9, Refilled
  <2> QED
    BY <2>1, <2>10
<1> QED
  BY <1>1, <1>2

\* The queue is replaced and nobody is answered.
LEMMA Requeued ==
    ASSUME NEW q, Silent(q), NEW p \in Seq(Item), NEW S, Sound(q, [q EXCEPT !.pend = p], S)
    PROVE  Spoken(q, Broadcast([q EXCEPT !.pend = p]), Ids(p), q.task)
<1>1. [q EXCEPT !.pend = p] = [q EXCEPT !.pend = p, !.replied = {}]
  BY DEF Silent, Actors
<1>2. /\ Ids(p) \cup {} \subseteq Ids(p) /\ Ids(p) \cap Prompts \subseteq Ids(p) \cup {}
      /\ {} \in SUBSET Turns
  OBVIOUS
<1> QED
  BY <1>1, <1>2, Refilled

LEMMA EditQueuedSays ==
    ASSUME NEW q, Silent(q), NEW id, NEW text \in 0 .. MaxEvents
    PROVE  /\ Queued(q, id) = {} => EditQueued(q, id, text) = q
           /\ Queued(q, id) # {} => Spoken(q, EditQueued(q, id, text), Ids(q.pend), q.task)
<1>0. q \in Actors /\ Orderly(q)
  BY DEF Silent
<1> DEFINE at == Queued(q, id)
<1>1. CASE at = {}
  BY <1>1 DEF EditQueued
<1>2. CASE at # {}
  <2> DEFINE s == q.pend
             i == Min(at)
             e == Edited(s[i], text)
             p == [s EXCEPT ![i] = e]
  <2>1. EditQueued(q, id, text) = Broadcast([q EXCEPT !.pend = p])
    BY <1>2 DEF EditQueued
  <2>2. at \in SUBSET Queued(q, id)
    OBVIOUS
  <2> HIDE DEF at
  <2>3. i \in 1 .. Len(s) /\ s[i] \in Item
    BY <1>0, <1>2, <2>2, QueuedFacts
  <2>4. s \in Seq(Item) /\ Len(s) \in Nat /\ Distinct(s) /\ (q.task # None => s # <<>> /\ s[1].id = q.task)
    BY <1>0, PendFacts DEF Orderly
  <2> HIDE DEF i
  <2>5. e \in Item /\ e.id = s[i].id
    <3> DEFINE x == s[i]
    <3>1. x \in Item
      BY <2>3
    <3>2. e = Edited(x, text)
      OBVIOUS
    <3> HIDE DEF x, e
    <3>3. e \in Item /\ e.id = x.id
      BY <3>1, <3>2, EditedItem
    <3> QED
      BY <3>3 DEF x
  <2> HIDE DEF e, s
  <2>6. p \in Seq(Item) /\ Len(p) = Len(s) /\ \A k \in 1 .. Len(s) : p[k].id = s[k].id
    <3>1. p \in Seq(Item) /\ Len(p) = Len(s) /\ p[i] = e /\ \A k \in 1 .. Len(s) : k # i => p[k] = s[k]
      BY <2>3, <2>4, <2>5, ExceptSeq
    <3> HIDE DEF p
    <3> QED
      BY <2>5, <3>1
  <2> HIDE DEF p
  <2>7. Distinct(p) /\ Ids(p) = Ids(s)
    BY <2>4, <2>6 DEF Distinct, Ids
  <2>8. s # <<>> => p # <<>> /\ 1 \in 1 .. Len(s)
    <3>1. (s # <<>> => Len(s) # 0) /\ (p = <<>> => Len(p) = 0)
      BY <2>4, EmptySeq
    <3> QED
      BY <2>4, <2>6, <3>1
  <2>9. q.task # None => p # <<>> /\ p[1].id = q.task
    BY <2>4, <2>6, <2>8
  <2>10. Ids(p) \subseteq Ids(q.pend) \cup {} /\ Ids(p) = Ids(q.pend)
    BY <2>7 DEF s
  <2>11. Sound(q, [q EXCEPT !.pend = p], {})
    BY <1>0, <2>6, <2>7, <2>9, <2>10, SoundRefill
  <2>12. Spoken(q, Broadcast([q EXCEPT !.pend = p]), Ids(p), q.task)
    BY <2>6, <2>11, Requeued
  <2> QED
    BY <1>2, <2>1, <2>10, <2>12 DEF at
<1> QED
  BY <1>1, <1>2

LEMMA SendQueuedNowSays ==
    ASSUME NEW q, Silent(q), NEW id, NEW ver, NEW goal \in BOOLEAN
    PROVE  Spoken(q, SendQueuedNow(q, id, ver, goal), Ids(q.pend), q.task)
<1>0. q \in Actors /\ Orderly(q)
  BY DEF Silent
<1> DEFINE at == {k \in Queued(q, id) : q.pend[k].ver = ver}
<1>1. CASE at = {}
  <2>1. SendQueuedNow(q, id, ver, goal) = MaybeStart(Broadcast(q))
    BY <1>1 DEF SendQueuedNow
  <2>2. Spoken(q, Broadcast(q), Ids(q.pend), q.task)
    BY SilentBroadcast
  <2> QED
    BY <1>0, <2>1, <2>2, SpokenSteps
<1>2. CASE at # {}
  <2> DEFINE s == q.pend
             i == Min(at)
             c == RemoveAt(s, i)
             e == s[i]
             p == InsertNow(c, q.task, e)
             b == Broadcast([q EXCEPT !.pend = p])
             d == IF q.task # None /\ ~ goal THEN CancelRunning(b) ELSE b
  <2>1. SendQueuedNow(q, id, ver, goal) = MaybeStart(d)
    BY <1>2 DEF SendQueuedNow
  <2>2. at \in SUBSET Queued(q, id)
    OBVIOUS
  <2> HIDE DEF at
  <2>3. i \in 1 .. Len(s) /\ e \in Item /\ (q.task # None => i # 1)
    BY <1>0, <1>2, <2>2, QueuedFacts
  <2>4. s \in Seq(Item) /\ Distinct(s) /\ (q.task # None => s[1].id = q.task)
    BY <1>0, PendFacts DEF Orderly
  <2> HIDE DEF i
  <2>5. c \in Seq(Item) /\ Removed(c, s, i)
    <3> HIDE DEF s
    <3> QED
      BY <2>3, <2>4, RemoveAtFacts
  <2> HIDE DEF c
  <2>6. /\ Distinct(c) /\ Ids(c) \subseteq Ids(s) /\ s[i].id \notin Ids(c)
        /\ (i # 1 => c # <<>> /\ c[1] = s[1]) /\ Ids(s) \subseteq Ids(c) \cup {s[i].id}
    <3> HIDE DEF s
    <3> QED
      BY <2>3, <2>4, <2>5, RemovedKeeps, RemovedCovers
  <2>7. e.id \in Ids(s) /\ e.id \notin Ids(c) /\ Ids(s) \subseteq Ids(c) \cup {e.id}
    BY <2>3, <2>6 DEF Ids
  <2>8. q.task # None => c # <<>> /\ c[1].id = q.task
    BY <2>3, <2>4, <2>6
  <2> HIDE DEF e
  <2>9. /\ p \in Seq(Item) /\ Distinct(p) /\ Ids(p) \subseteq Ids(c) \cup {e.id}
        /\ (c # <<>> /\ c[1].id = q.task) => p # <<>> /\ p[1].id = q.task
        /\ Ids(c) \cup {e.id} \subseteq Ids(p)
    BY <2>3, <2>5, <2>6, <2>7, InsertNowFacts, InsertNowCovers
  <2> HIDE DEF p
  <2>10. Ids(p) \subseteq Ids(q.pend) \cup {} /\ Ids(p) = Ids(q.pend)
    BY <2>6, <2>7, <2>9
  <2>11. Sound(q, [q EXCEPT !.pend = p], {})
    <3>1. q.task # None => p # <<>> /\ p[1].id = q.task
      BY <2>8, <2>9
    <3> QED
      BY <1>0, <2>9, <2>10, <3>1, SoundRefill
  <2>12. Spoken(q, b, Ids(p), q.task)
    BY <2>9, <2>11, Requeued
  <2> HIDE DEF b
  <2>13. Spoken(q, d, Ids(p), q.task)
    BY <1>0, <2>12, SpokenSteps
  <2> HIDE DEF d
  <2>14. Spoken(q, MaybeStart(d), Ids(p), q.task)
    BY <1>0, <2>13, SpokenSteps
  <2> QED
    BY <2>1, <2>10, <2>14
<1> QED
  BY <1>1, <1>2

LEMMA ReorderQueueSays ==
    ASSUME NEW q, Silent(q), NEW order \in Seq(Prompts)
    PROVE  Spoken(q, ReorderQueue(q, order), Ids(q.pend), q.task)
<1>0. q \in Actors /\ Orderly(q)
  BY DEF Silent
<1> DEFINE s == q.pend
           at == 1 .. Len(s)
           w == [k \in at |-> Rank(q, order, k)]
           p == Arranged(s, at, w)
           a == [q EXCEPT !.pend = p]
<1>1. ReorderQueue(q, order) = Broadcast(a)
  BY DEF ReorderQueue
<1>2. s \in Seq(Item) /\ Distinct(s) /\ (q.task # None => s # <<>> /\ s[1].id = q.task)
  BY <1>0, PendFacts DEF Orderly
<1>3. \A k \in at : Rank(q, order, k) \in Nat
  <2>1. SUFFICES ASSUME NEW k \in at PROVE Rank(q, order, k) \in Nat
    OBVIOUS
  <2> DEFINE named == {n \in 1 .. Len(order) : order[n] = q.pend[k].id}
  <2>2. Len(order) \in Nat
    BY LenProperties
  <2>3. named \in SUBSET Nat
    BY <2>2
  <2>4. Rank(q, order, k) = IF k \notin Queueable(q) THEN 0
                            ELSE IF named = {} THEN Len(order) + 1 ELSE Min(named)
    BY DEF Rank
  <2> HIDE DEF named
  <2>5. named # {} => Min(named) \in Nat
    BY <2>3, NatMin
  <2> QED
    BY <2>2, <2>4, <2>5
<1>4. w \in [at -> Int]
  BY <1>3
<1>5. q.task # None => 1 \in at /\ \A k \in at : w[1] <= w[k]
  <2>1. SUFFICES ASSUME q.task # None PROVE 1 \in at /\ \A k \in at : w[1] <= w[k]
    OBVIOUS
  <2>2. 1 \in at
    BY <1>0, <1>2, <2>1, FrontFacts
  <2>3. 1 \notin Queueable(q)
    BY <1>2, <2>1 DEF Queueable
  <2>4. w[1] = 0
    BY <2>2, <2>3 DEF Rank
  <2>5. \A k \in at : w[k] \in Nat
    BY <1>3
  <2> HIDE DEF w
  <2> QED
    BY <2>2, <2>4, <2>5
<1>6. at \in SUBSET (1 .. Len(s)) /\ at = 1 .. Len(s)
  OBVIOUS
<1> HIDE DEF w, at
<1>7. /\ p \in Seq(Item) /\ Picks(p, s, at) /\ Covers(p, s, at)
      /\ (1 \in at /\ \A k \in at : w[1] <= w[k]) => p # <<>> /\ p[1] = s[1]
  <2> HIDE DEF s
  <2> QED
    BY <1>2, <1>4, <1>6, ArrangedItems, ArrangedCovers
<1> HIDE DEF p
<1>8. Distinct(p) /\ Ids(p) \subseteq Ids(s)
  <2> HIDE DEF s
  <2> QED
    BY <1>2, <1>6, <1>7, PicksKeep
<1>9. Ids(s) \subseteq Ids(p)
  <2>1. \A k \in 1 .. Len(s) : \E j \in 1 .. Len(p) : p[j] = s[k]
    BY <1>6, <1>7 DEF Covers
  <2> HIDE DEF s
  <2> QED
    BY <2>1 DEF Ids
<1>10. Ids(p) \subseteq Ids(q.pend) \cup {} /\ Ids(p) = Ids(q.pend)
  BY <1>8, <1>9
<1>11. Sound(q, a, {})
  <2>1. q.task # None => p # <<>> /\ p[1].id = q.task
    BY <1>2, <1>5, <1>7
  <2> QED
    BY <1>0, <1>7, <1>8, <1>10, <2>1, SoundRefill
<1>12. Spoken(q, Broadcast(a), Ids(p), q.task)
  BY <1>7, <1>11, Requeued
<1> QED
  BY <1>1, <1>10, <1>12

LEMMA ClearQueueSays ==
    ASSUME NEW q, Silent(q)
    PROVE  Spoken(q, ClearQueue(q), Ids(q.pend), q.task)
<1>0. q \in Actors /\ Orderly(q) /\ q.replied = {}
  BY DEF Silent
<1> DEFINE s == q.pend
           at == (1 .. Len(s)) \ Queueable(q)
           p == Selected(s, at)
           o == {q.pend[k].id : k \in Queueable(q)}
           b == [q EXCEPT !.pend = p, !.replied = o]
<1>1. ClearQueue(q) = Broadcast(b)
  BY <1>0 DEF ClearQueue, Cleared
<1>2. s \in Seq(Item) /\ Distinct(s) /\ (q.task # None => s # <<>> /\ s[1].id = q.task)
  BY <1>0, PendFacts DEF Orderly
<1>3. q.task # None => 1 \in at
  <2>1. SUFFICES ASSUME q.task # None PROVE 1 \in at
    OBVIOUS
  <2>2. 1 \in 1 .. Len(s)
    BY <1>0, <1>2, <2>1, FrontFacts
  <2> QED
    BY <1>2, <2>1, <2>2 DEF Queueable
<1>4. o \in SUBSET Turns
  BY DEF Queueable, Turns
<1>5. at \in SUBSET (1 .. Len(s))
  OBVIOUS
<1>o. o \subseteq Ids(s) /\ \A k \in 1 .. Len(s) : k \notin at => s[k].id \in o
  BY DEF Queueable, Ids
<1> HIDE DEF at, o
<1>6. p \in Seq(Item) /\ Picks(p, s, at) /\ (1 \in at => p # <<>> /\ p[1] = s[1]) /\ Covers(p, s, at)
  <2> HIDE DEF s
  <2> QED
    BY <1>2, <1>5, SelectedItems, SelectedCovers
<1> HIDE DEF p
<1>7. Distinct(p) /\ Ids(p) \subseteq Ids(s)
  <2> HIDE DEF s
  <2> QED
    BY <1>2, <1>5, <1>6, PicksKeep
<1>c. Ids(s) \subseteq Ids(p) \cup o
  BY <1>6, <1>o DEF Ids, Covers
<1>8. Sound(q, [q EXCEPT !.pend = p], {})
  <2>1. q.task # None => p # <<>> /\ p[1].id = q.task
    BY <1>2, <1>3, <1>6
  <2>2. Ids(p) \subseteq Ids(q.pend) \cup {}
    BY <1>7
  <2> QED
    BY <1>0, <1>6, <1>7, <2>1, <2>2, SoundRefill
<1>9. Ids(p) \cup o \subseteq Ids(q.pend) /\ Ids(q.pend) \cap Prompts \subseteq Ids(p) \cup o
  BY <1>7, <1>c, <1>o
<1>10. Spoken(q, Broadcast(b), Ids(q.pend), q.task)
  BY <1>4, <1>6, <1>8, <1>9, Refilled
<1> QED
  BY <1>1, <1>10

\* An arm without a snapshot: whoever mirrors q mirrors r.
Muted(q, r) ==
    /\ QueueWire(r) = QueueWire(q)
    /\ r.task = q.task \/ (r.task = None /\ q.task \in Wakes)
    /\ Ids(r.pend) \cap Prompts = Ids(q.pend) \cap Prompts
    /\ r.replied \cap Prompts = {}

Arm(q, r, T) ==
    /\ r \in Actors /\ Voice(q, r, T) /\ Current(r)
    /\ r.out = <<>> => Muted(q, r)

LEMMA SpokenArm ==
    ASSUME NEW q, NEW r, NEW T, NEW t, Spoken(q, r, T, t)
    PROVE  Arm(q, r, T) /\ First(r, t) /\ r.out # <<>>
BY DEF Spoken, Arm, First

LEMMA SilentArm ==
    ASSUME NEW q, Silent(q)
    PROVE  Arm(q, q, Ids(q.pend))
<1>1. Muted(q, q)
  BY DEF Muted, Silent
<1> QED
  BY <1>1, VoiceSilent DEF Arm, Silent

LEMMA CompletionSays ==
    ASSUME NEW q, Silent(q), NEW id \in Turns, id \notin q.live
    PROVE  Arm(q, Completion(q, id), Ids(q.pend))
<1>0. q \in Actors /\ Orderly(q) /\ q.replied = {} /\ q.out = <<>>
  BY DEF Silent
<1> DEFINE owned == q.pend # <<>> /\ Head(q.pend).id = id
           T == Ids(q.pend)
<1>1. CASE owned
  <2> DEFINE p == Tail(q.pend)
             e == [q EXCEPT !.pend = p, !.replied = {id}]
             r == [e EXCEPT !.task = None]
             b == IF id \in Prompts THEN Broadcast(r) ELSE r
  <2>1. Completion(q, id) = MaybeStart(b)
    BY <1>0, <1>1 DEF Completion
  <2>2. {id} \in SUBSET Turns /\ p \in Seq(Item) /\ q.pend \in Seq(Item)
    BY <1>0, <1>1, PendFacts, HeadTailProperties
  <2>3. q.live = {} /\ (q.task = None \/ q.task = id)
    <3>1. q.task # None => q.task = id
      BY <1>0, <1>1, FrontFacts DEF Orderly
    <3> QED
      BY <1>0, <3>1, ConversationAssumption DEF Orderly, Actors
  <2>4. p = Tail(q.pend)
    OBVIOUS
  <2>5. T = Ids(p) \cup {id}
    BY <1>1, <2>2, TailIds
  <2> HIDE DEF p, T
  <2>6. r \in Actors
    <3>1. PICK a \in Actors : a = [q EXCEPT !.pend = p]
      BY <1>0, <2>2, ActorUpdate
    <3>2. e \in Actors
      <4>1. e = [a EXCEPT !.replied = {id}]
        BY <3>1
      <4> QED
        BY <2>2, <4>1, ActorUpdate
    <3> HIDE DEF e
    <3> QED
      BY <3>2, ActorUpdate
  <2>7. /\ r.pend = p /\ r.task = None /\ r.live = {} /\ r.done = q.done /\ r.starts = q.starts
        /\ r.on = q.on /\ r.rev = q.rev /\ r.out = q.out /\ r.replied = {id}
    BY <1>0, <2>3 DEF Actors
  <2> HIDE DEF r
  <2>8. Orderly(r)
    BY <1>0, <1>1, <2>4, <2>6, <2>7, Frees
  <2>9. Voice(q, r, T)
    BY <1>0, <2>5, <2>7, VoiceSilent DEF Voice
  <2>10. CASE id \in Prompts
    <3>1. Spoken(q, Broadcast(r), T, r.task)
      BY <1>0, <2>6, <2>7, <2>8, <2>9, SpeaksUp
    <3>2. Spoken(q, MaybeStart(b), T, r.task)
      BY <1>0, <2>10, <3>1, SpokenSteps
    <3> QED
      BY <2>1, <3>2, SpokenArm DEF T
  <2>11. CASE id \notin Prompts
    <3>1. b = r /\ id \in Wakes
      BY <2>11 DEF Turns
    <3>2. Current(r)
      BY <1>0, <2>7 DEF Current
    <3>3. /\ Voice(q, MaybeStart(r), T) /\ Current(MaybeStart(r)) /\ MaybeStart(r) \in Actors
          /\ r.pend # <<>> => MaybeStart(r).out # <<>>
      BY <1>0, <2>6, <2>7, <2>8, <2>9, <3>2, VoiceStart, MaybeStartKeeps
    <3>4. CASE r.pend # <<>>
      BY <2>1, <3>1, <3>3, <3>4 DEF Arm, T
    <3>5. CASE r.pend = <<>>
      <4>1. MaybeStart(r) = r
        BY <3>5 DEF MaybeStart
      <4>2. Ids(r.pend) = {} /\ T = {id}
        BY <2>5, <2>7, <3>5, EmptyIds
      <4>3. T \cap Prompts = {} /\ r.replied \cap Prompts = {}
        BY <2>7, <2>11, <4>2
      <4>4. QueueWire(r) = <<>> /\ QueueWire(q) = <<>>
        BY <1>0, <2>6, <4>2, <4>3, WireEmpty DEF T
      <4>5. Muted(q, r)
        BY <2>3, <2>7, <3>1, <4>2, <4>3, <4>4 DEF Muted, T
      <4> QED
        BY <2>1, <3>1, <3>3, <4>1, <4>5 DEF Arm, T
    <3> QED
      BY <3>4, <3>5
  <2> QED
    BY <2>10, <2>11
<1>2. CASE ~ owned
  <2>1. q.task # id
    BY <1>0, <1>2, FrontFacts, ConversationAssumption DEF Orderly
  <2>2. Completion(q, id) = MaybeStart(q)
    BY <1>2, <2>1 DEF Completion
  <2>3. Arm(q, q, T)
    BY SilentArm
  <2>4. CASE q.task # None \/ q.pend = <<>>
    <3>1. MaybeStart(q) = q
      BY <2>4 DEF MaybeStart
    <3> QED
      BY <2>2, <2>3, <3>1
  <2>5. CASE q.task = None /\ q.pend # <<>>
    <3>1. /\ Voice(q, MaybeStart(q), T) /\ Current(MaybeStart(q)) /\ MaybeStart(q) \in Actors
          /\ MaybeStart(q).out # <<>>
      BY <1>0, <2>5, VoiceStart, VoiceSilent, MaybeStartKeeps
    <3> QED
      BY <2>2, <3>1 DEF Arm
  <2> QED
    BY <2>4, <2>5
<1> QED
  BY <1>1, <1>2

-----------------------------------------------------------------------------
(* The messages of a sequence *)

Elements(s) == {s[k] : k \in 1 .. Len(s)}

LEMMA MessageSet ==
    ASSUME NEW S, NEW s \in Seq(S)
    PROVE  ToSet(s) = Elements(s) /\ Len(s) \in Nat /\ ToSet(s) \subseteq S
<1>1. Len(s) \in Nat /\ DOMAIN s = 1 .. Len(s) /\ \A k \in 1 .. Len(s) : s[k] \in S
  BY LenProperties, ElementOfSeq
<1> QED
  BY <1>1 DEF ToSet, Elements

\* t continues s.
Grown(t, s) ==
    /\ Len(s) \in Nat /\ Len(t) \in Nat /\ Len(s) <= Len(t)
    /\ \A k \in 1 .. Len(s) : t[k] = s[k]

LEMMA TakenSet ==
    ASSUME NEW S, NEW s \in Seq(S), s # <<>>, NEW t, t = Tail(s)
    PROVE  /\ ToSet(s) = ToSet(t) \cup {Head(s)} /\ Shifted(t, s, 1) /\ t \in Seq(S)
           /\ Head(s) = s[1] /\ Head(s) \in S
<1>1. t \in Seq(S) /\ Shifted(t, s, 1) /\ Head(s) = s[1] /\ Head(s) \in S
  BY TailShifted
<1>2. Len(t) \in Nat /\ Len(s) \in Nat /\ Len(t) + 1 = Len(s) /\ \A k \in 1 .. Len(t) : t[k] = s[k + 1]
  BY <1>1 DEF Shifted
<1>3. ToSet(s) = Elements(s) /\ ToSet(t) = Elements(t)
  BY <1>1, MessageSet
<1>4. \A k \in 1 .. Len(s) : k = 1 \/ (k - 1 \in 1 .. Len(t) /\ t[k - 1] = s[k])
  BY <1>2
<1>5. 1 \in 1 .. Len(s) /\ \A k \in 1 .. Len(t) : k + 1 \in 1 .. Len(s)
  BY <1>2
<1>6. ToSet(s) \subseteq ToSet(t) \cup {s[1]}
  <2>1. \A k \in 1 .. Len(t) : t[k] \in Elements(t)
    BY DEF Elements
  <2>2. \A k \in 1 .. Len(s) : s[k] \in Elements(t) \cup {s[1]}
    BY <1>4, <2>1
  <2> QED
    BY <1>3, <2>2 DEF Elements
<1>7. ToSet(t) \cup {s[1]} \subseteq ToSet(s)
  BY <1>2, <1>3, <1>5 DEF Elements
<1> QED
  BY <1>1, <1>6, <1>7

\* t is s with m behind it; s with o behind it.
Added(t, s, m) ==
    /\ ToSet(t) = ToSet(s) \cup {m} /\ Grown(t, s)
    /\ Len(t) = Len(s) + 1 /\ t[Len(s) + 1] = m

Joined(t, s, o) ==
    /\ ToSet(t) = ToSet(s) \cup ToSet(o) /\ Grown(t, s)
    /\ Len(t) = Len(s) + Len(o)
    /\ \A k \in 1 .. Len(t) : k > Len(s) => k - Len(s) \in 1 .. Len(o) /\ t[k] = o[k - Len(s)]

LEMMA AddedSet ==
    ASSUME NEW S, NEW s \in Seq(S), NEW m \in S, NEW t, t = Append(s, m)
    PROVE  t \in Seq(S) /\ Added(t, s, m)
<1>1. /\ t \in Seq(S) /\ Len(t) = Len(s) + 1 /\ t[Len(s) + 1] = m /\ Len(s) \in Nat
      /\ \A k \in 1 .. Len(s) : t[k] = s[k]
  BY AppendProperties, LenProperties
<1>2. ToSet(s) = Elements(s) /\ ToSet(t) = Elements(t)
  BY <1>1, MessageSet
<1>3. \A k \in 1 .. Len(t) : k \in 1 .. Len(s) \/ k = Len(s) + 1
  BY <1>1
<1>4. Len(s) + 1 \in 1 .. Len(t) /\ \A k \in 1 .. Len(s) : k \in 1 .. Len(t)
  BY <1>1
<1>5. Grown(t, s)
  BY <1>1 DEF Grown
<1>6. ToSet(t) \subseteq ToSet(s) \cup {m}
  BY <1>1, <1>2, <1>3 DEF Elements
<1>7. ToSet(s) \cup {m} \subseteq ToSet(t)
  BY <1>1, <1>2, <1>4 DEF Elements
<1> QED
  BY <1>1, <1>5, <1>6, <1>7 DEF Added

LEMMA JoinedSet ==
    ASSUME NEW S, NEW s \in Seq(S), NEW o \in Seq(S), NEW t, t = s \o o
    PROVE  t \in Seq(S) /\ Joined(t, s, o)
<1>1. /\ t \in Seq(S) /\ Len(t) = Len(s) + Len(o) /\ Len(s) \in Nat /\ Len(o) \in Nat
      /\ \A k \in 1 .. Len(s) + Len(o) : t[k] = IF k <= Len(s) THEN s[k] ELSE o[k - Len(s)]
  BY ConcatProperties, LenProperties
<1>2. /\ ToSet(s) = Elements(s) /\ ToSet(t) = Elements(t)
      /\ ToSet(o) = Elements(o)
  BY <1>1, MessageSet
<1>3. \A k \in 1 .. Len(t) : k > Len(s) => k - Len(s) \in 1 .. Len(o) /\ t[k] = o[k - Len(s)]
  BY <1>1
<1>4. \A k \in 1 .. Len(s) : t[k] = s[k] /\ k \in 1 .. Len(t)
  BY <1>1
<1>5. \A k \in 1 .. Len(o) : Len(s) + k \in 1 .. Len(t) /\ t[Len(s) + k] = o[k]
  <2>1. SUFFICES ASSUME NEW k \in 1 .. Len(o)
                 PROVE  Len(s) + k \in 1 .. Len(t) /\ t[Len(s) + k] = o[k]
    OBVIOUS
  <2>2. Len(s) + k \in 1 .. Len(t) /\ Len(s) + k > Len(s) /\ (Len(s) + k) - Len(s) = k
    BY <1>1
  <2> QED
    BY <1>3, <2>2
<1>6. Grown(t, s)
  BY <1>1, <1>4 DEF Grown
<1>7. ToSet(t) \subseteq ToSet(s) \cup ToSet(o)
  <2>1. \A k \in 1 .. Len(t) : k > Len(s) \/ k \in 1 .. Len(s)
    BY <1>1
  <2>2. \A k \in 1 .. Len(t) : t[k] \in ToSet(s) \cup ToSet(o)
    BY <1>2, <1>3, <1>4, <2>1 DEF Elements
  <2> QED
    BY <1>2, <2>2 DEF Elements
<1>8. ToSet(s) \cup ToSet(o) \subseteq ToSet(t)
  BY <1>2, <1>4, <1>5 DEF Elements
<1> QED
  BY <1>1, <1>3, <1>6, <1>7, <1>8 DEF Joined

LEMMA SuffixSet ==
    ASSUME NEW S, NEW s \in Seq(S), NEW t \in Suffixes(s)
    PROVE  ToSet(t) \subseteq ToSet(s)
<1>1. t \in Seq(S) /\ \E d \in Nat : Shifted(t, s, d)
  BY SuffixShifted
<1>2. PICK d \in Nat : Shifted(t, s, d)
  BY <1>1
<1>3. /\ Len(t) \in Nat /\ Len(s) \in Nat /\ Len(t) + d = Len(s)
      /\ \A k \in 1 .. Len(t) : t[k] = s[k + d]
  BY <1>2 DEF Shifted
<1>4. ToSet(s) = Elements(s) /\ ToSet(t) = Elements(t)
  BY <1>1, MessageSet
<1>5. \A k \in 1 .. Len(t) : k + d \in 1 .. Len(s)
  BY <1>3
<1> QED
  BY <1>3, <1>4, <1>5 DEF Elements

LEMMA PrefixGrown ==
    ASSUME NEW S, NEW s \in Seq(S), NEW t \in Prefixes(s)
    PROVE  t \in Seq(S) /\ Grown(s, t)
<1>0. Len(s) \in Nat
  BY LenProperties
<1>1. PICK l \in 0 .. Len(s) : t = SubSeq(s, 1, l)
  BY DEF Prefixes
<1>2. \A k \in 1 .. l : s[k] \in S
  BY <1>0, ElementOfSeq
<1>3. t \in Seq(S) /\ Len(t) = l /\ \A k \in 1 .. l : t[k] = s[k]
  BY <1>0, <1>1, <1>2, SubSeqProperties
<1> QED
  BY <1>0, <1>3 DEF Grown

LEMMA DownFacts ==
    ASSUME NEW s \in Seq(DownMsgs)
    PROVE  /\ Len(s) \in Nat
           /\ \A k \in 1 .. Len(s) : s[k] \in DownMsgs /\ s[k] \in ToSet(s)
           /\ \A m \in ToSet(s) : \E k \in 1 .. Len(s) : m = s[k]
           /\ \A k \in 1 .. Len(s) : s[k].type = "queue" => s[k].rev \in Nat
<1>1. Len(s) \in Nat /\ \A k \in 1 .. Len(s) : s[k] \in DownMsgs
  BY LenProperties, ElementOfSeq
<1>2. ToSet(s) = Elements(s)
  BY MessageSet
<1>3. \A m \in DownMsgs : m.type = "queue" => m.rev \in Nat
  BY DEF DownMsgs, Snapshot
<1> QED
  BY <1>1, <1>2, <1>3 DEF Elements

-----------------------------------------------------------------------------
(* What the mirror hears *)

LEMMA HeardSame ==
    ASSUME NEW s, NEW t, NEW r, NEW n, \A i \in 1 .. n : t[i] = s[i], Heard(s, r, n)
    PROVE  Heard(t, r, n)
BY DEF Heard

LEMMA HeardGrown ==
    ASSUME NEW s, NEW t, NEW r, Grown(t, s), Heard(s, r, Len(s)),
           \A k \in 1 .. Len(t) : k > Len(s) => t[k].type # "reconnected"
    PROVE  Heard(t, r, Len(t))
<1>0. /\ Len(s) \in Nat /\ Len(t) \in Nat /\ Len(s) <= Len(t)
      /\ \A k \in 1 .. Len(s) : t[k] = s[k] /\ k \in 1 .. Len(t)
  BY DEF Grown
<1>1. \A k \in 1 .. Len(t) : k > Len(s) \/ k \in 1 .. Len(s)
  BY <1>0
<1> QED
  BY <1>0, <1>1 DEF Heard

LEMMA HeardLast ==
    ASSUME NEW t, NEW r, Len(t) \in Nat, 1 <= Len(t), t[Len(t)].type = "queue"
    PROVE  Heard(t, r, Len(t))
<1>1. Len(t) \in 1 .. Len(t) /\ \A i \in 1 .. Len(t) : ~ (i > Len(t))
  OBVIOUS
<1> QED
  BY <1>1 DEF Heard

LEMMA HeardTail ==
    ASSUME NEW s, NEW t, NEW r \in Int, NEW u \in Int, Shifted(t, s, 1), NEW n \in Nat,
           n <= Len(t), Heard(s, r, n + 1),
           s[1].type = "queue" => u >= 0, r >= 0 /\ s[1].type # "reconnected" => u >= 0
    PROVE  Heard(t, u, n)
<1>0. Len(t) \in Nat /\ Len(s) \in Nat /\ Len(t) + 1 = Len(s) /\ \A k \in 1 .. Len(t) : t[k] = s[k + 1]
  BY DEF Shifted
<1>1. \A i \in 1 .. n : i + 1 \in 1 .. n + 1 /\ t[i] = s[i + 1]
  BY <1>0
<1>2. 1 \in 1 .. n + 1
  OBVIOUS
<1>3. CASE r >= 0 /\ \A i \in 1 .. n + 1 : s[i].type # "reconnected"
  <2>1. u >= 0 /\ \A i \in 1 .. n : t[i].type # "reconnected"
    BY <1>1, <1>2, <1>3 DEF Elements
  <2> QED
    BY <2>1 DEF Heard
<1>4. ASSUME NEW j \in 1 .. n + 1, s[j].type = "queue",
             \A i \in 1 .. n + 1 : i > j => s[i].type # "reconnected"
      PROVE  Heard(t, u, n)
  <2>1. CASE j = 1
    <3>1. \A i \in 1 .. n : i + 1 > j
      BY <2>1
    <3>2. \A i \in 1 .. n : t[i].type # "reconnected"
      BY <1>1, <1>4, <3>1
    <3> QED
      BY <1>4, <2>1, <3>2 DEF Heard
  <2>2. CASE j # 1
    <3>1. j - 1 \in 1 .. n /\ (j - 1) + 1 = j
      BY <2>2
    <3>2. t[j - 1].type = "queue"
      BY <1>1, <1>4, <3>1
    <3>3. \A i \in 1 .. n : i > j - 1 => i + 1 > j
      OBVIOUS
    <3>4. \A i \in 1 .. n : i > j - 1 => t[i].type # "reconnected"
      BY <1>1, <1>4, <3>3
    <3> QED
      BY <3>1, <3>2, <3>4 DEF Heard
  <2> QED
    BY <2>1, <2>2
<1> QED
  BY <1>3, <1>4 DEF Heard

LEMMA PrecededTail ==
    ASSUME NEW s, NEW t, NEW r \in Int, NEW u \in Int, Shifted(t, s, 1), Preceded(s, r),
           s[1].type = "queue" => u >= 0, r >= 0 /\ s[1].type # "reconnected" => u >= 0
    PROVE  Preceded(t, u)
<1>0. Len(t) \in Nat /\ Len(s) \in Nat /\ Len(t) + 1 = Len(s) /\ \A k \in 1 .. Len(t) : t[k] = s[k + 1]
  BY DEF Shifted
<1>1. SUFFICES ASSUME NEW k \in 1 .. Len(t), t[k].type = "answer", t[k].ok
               PROVE  Heard(t, u, k - 1)
  BY DEF Preceded
<1>2. k + 1 \in 1 .. Len(s) /\ (k + 1) - 1 = (k - 1) + 1 /\ k - 1 \in Nat /\ k - 1 <= Len(t)
  BY <1>0
<1>3. Heard(s, r, (k + 1) - 1)
  BY <1>0, <1>1, <1>2 DEF Preceded
<1>4. Heard(s, r, (k - 1) + 1)
  BY <1>2, <1>3
<1> QED
  BY <1>2, <1>4, HeardTail

LEMMA PrecededGrown ==
    ASSUME NEW s, NEW t, NEW r, Grown(t, s), Preceded(s, r),
           \A k \in 1 .. Len(t) : k > Len(s) /\ t[k].type = "answer" /\ t[k].ok => Heard(t, r, k - 1)
    PROVE  Preceded(t, r)
<1>0. /\ Len(s) \in Nat /\ Len(t) \in Nat /\ Len(s) <= Len(t)
      /\ \A k \in 1 .. Len(s) : t[k] = s[k]
  BY DEF Grown
<1>1. SUFFICES ASSUME NEW k \in 1 .. Len(s), t[k].type = "answer", t[k].ok
               PROVE  Heard(t, r, k - 1)
  BY <1>0 DEF Preceded
<1>2. Heard(s, r, k - 1)
  BY <1>0, <1>1 DEF Preceded
<1>3. \A i \in 1 .. k - 1 : t[i] = s[i]
  BY <1>0
<1> QED
  BY <1>2, <1>3, HeardSame

LEMMA PrecededPrefix ==
    ASSUME NEW s, NEW t, NEW r, Grown(s, t), Preceded(s, r)
    PROVE  Preceded(t, r)
<1>0. /\ Len(s) \in Nat /\ Len(t) \in Nat /\ Len(t) <= Len(s)
      /\ \A k \in 1 .. Len(t) : s[k] = t[k]
  BY DEF Grown
<1>1. SUFFICES ASSUME NEW k \in 1 .. Len(t), t[k].type = "answer", t[k].ok
               PROVE  Heard(t, r, k - 1)
  BY DEF Preceded
<1>2. k \in 1 .. Len(s)
  BY <1>0
<1>3. Heard(s, r, k - 1)
  BY <1>0, <1>1, <1>2 DEF Preceded
<1>4. \A i \in 1 .. k - 1 : t[i] = s[i]
  BY <1>0
<1> QED
  BY <1>3, <1>4, HeardSame

-----------------------------------------------------------------------------
(* The snapshots on their way *)

LEMMA LineMarked ==
    ASSUME NEW s \in Seq(DownMsgs), NEW m \in DownMsgs, m.type = "reconnected", NEW t, t = Append(s, m), NEW q
    PROVE  Line(t, q)
<1>0. Added(t, s, m)
  BY AddedSet
<1>1. Grown(t, s) /\ Len(t) = Len(s) + 1 /\ t[Len(s) + 1] = m
  BY <1>0 DEF Added
<1>2. Len(s) \in Nat /\ Len(t) \in 1 .. Len(t) /\ t[Len(t)] = m
  BY <1>1 DEF Grown
<1>3. \A k \in 1 .. Len(t) : k = Len(t) \/ Len(t) > k
  BY <1>2
<1>4. \A k \in 1 .. Len(t) : Fresh(t, k) => k = Len(t)
  BY <1>2, <1>3 DEF Fresh
<1>5. Snaps(t) = {}
  BY <1>2, <1>4 DEF Snaps
<1>6. \A k \in 1 .. Len(t) : ~ (t[k].type = "loaded" /\ Fresh(t, k))
  BY <1>2, <1>4
<1> QED
  BY <1>5, <1>6 DEF Line

LEMMA LineAppend ==
    ASSUME NEW s \in Seq(DownMsgs), NEW m \in DownMsgs, m.type \in {"answer", "loaded"},
           NEW t, t = Append(s, m), NEW q, Line(s, q), m.type = "loaded" /\ m.ok => q.on
    PROVE  Line(t, q)
<1>0. Added(t, s, m)
  BY AddedSet
<1>1. Grown(t, s) /\ Len(t) = Len(s) + 1 /\ t[Len(s) + 1] = m
  BY <1>0 DEF Added
<1>2. /\ Len(s) \in Nat /\ \A k \in 1 .. Len(s) : t[k] = s[k] /\ k \in 1 .. Len(t)
      /\ \A k \in 1 .. Len(t) : k \in 1 .. Len(s) \/ (k = Len(s) + 1 /\ t[k] = m)
  BY <1>1 DEF Grown
<1>3. \A k \in 1 .. Len(s) : Fresh(t, k) <=> Fresh(s, k)
  <2>1. m.type # "reconnected"
    OBVIOUS
  <2> QED
    BY <1>2, <2>1 DEF Fresh
<1>4. Snaps(t) = Snaps(s) /\ Snaps(s) \subseteq 1 .. Len(s)
  <2>1. m.type # "queue"
    OBVIOUS
  <2> QED
    BY <1>2, <1>3, <2>1 DEF Snaps
<1>5. \A k \in Snaps(s) : t[k] = s[k]
  BY <1>2, <1>4
<1>6. \A k \in 1 .. Len(t) : t[k].type = "loaded" /\ t[k].ok /\ Fresh(t, k) => q.on
  BY <1>2, <1>3 DEF Line
<1> QED
  BY <1>4, <1>5, <1>6 DEF Line

LEMMA LineTail ==
    ASSUME NEW s \in Seq(DownMsgs), s # <<>>, NEW t, t = Tail(s), NEW q, Line(s, q)
    PROVE  Line(t, q)
<1>0. Shifted(t, s, 1)
  BY TailShifted
<1>1. Len(t) \in Nat /\ Len(s) \in Nat /\ Len(t) + 1 = Len(s) /\ \A k \in 1 .. Len(t) : t[k] = s[k + 1]
  BY <1>0 DEF Shifted
<1>2. \A k \in 1 .. Len(t) : k + 1 \in 1 .. Len(s)
  BY <1>1
<1>3. \A k \in 1 .. Len(t) : Fresh(t, k) <=> Fresh(s, k + 1)
  <2>1. SUFFICES ASSUME NEW k \in 1 .. Len(t) PROVE Fresh(t, k) <=> Fresh(s, k + 1)
    OBVIOUS
  <2>2. ASSUME Fresh(t, k) PROVE Fresh(s, k + 1)
    <3>1. SUFFICES ASSUME NEW j \in 1 .. Len(s), j > k + 1 PROVE s[j].type # "reconnected"
      BY DEF Fresh
    <3>2. j - 1 \in 1 .. Len(t) /\ j - 1 > k /\ (j - 1) + 1 = j
      BY <1>1, <3>1
    <3> QED
      BY <1>1, <2>2, <3>2 DEF Fresh
  <2>3. ASSUME Fresh(s, k + 1) PROVE Fresh(t, k)
    <3>1. SUFFICES ASSUME NEW j \in 1 .. Len(t), j > k PROVE t[j].type # "reconnected"
      BY DEF Fresh
    <3>2. j + 1 \in 1 .. Len(s) /\ j + 1 > k + 1
      BY <1>1, <3>1
    <3> QED
      BY <1>1, <2>3, <3>2 DEF Fresh
  <2> QED
    BY <2>2, <2>3
<1>4. \A k \in Snaps(t) : k \in 1 .. Len(t) /\ k + 1 \in Snaps(s) /\ t[k] = s[k + 1]
  BY <1>1, <1>2, <1>3 DEF Snaps
<1>5. \A k \in Snaps(s) : k # 1 => k - 1 \in Snaps(t)
  <2>1. SUFFICES ASSUME NEW k \in Snaps(s), k # 1 PROVE k - 1 \in Snaps(t)
    OBVIOUS
  <2>2. k \in 1 .. Len(s) /\ s[k].type = "queue" /\ Fresh(s, k)
    BY DEF Snaps
  <2>3. k - 1 \in 1 .. Len(t) /\ (k - 1) + 1 = k
    BY <1>1, <2>1, <2>2
  <2>4. t[k - 1] = s[k] /\ Fresh(t, k - 1)
    BY <1>1, <1>3, <2>2, <2>3
  <2> QED
    BY <2>2, <2>3, <2>4 DEF Snaps
<1>6. ASSUME NEW j \in Snaps(t), NEW k \in Snaps(t), j < k PROVE t[j].rev < t[k].rev
  <2>1. j + 1 < k + 1
    BY <1>4, <1>6
  <2> QED
    BY <1>4, <2>1 DEF Line
<1>7. ASSUME NEW k \in Snaps(t) PROVE 1 <= t[k].rev /\ t[k].rev <= q.rev
  BY <1>4 DEF Line
<1>8. ASSUME NEW k \in Snaps(t), \A j \in Snaps(t) : j <= k
      PROVE  Shows(t[k].entries, t[k].running, q)
  <2>1. \A j \in Snaps(s) : j <= k + 1
    <3>1. SUFFICES ASSUME NEW j \in Snaps(s) PROVE j <= k + 1
      OBVIOUS
    <3>2. j \in 1 .. Len(s) /\ k \in 1 .. Len(t)
      BY <1>4 DEF Snaps
    <3>3. CASE j = 1
      BY <1>1, <3>2, <3>3
    <3>4. CASE j # 1
      <4>1. j - 1 <= k
        BY <1>5, <1>8, <3>4
      <4> QED
        BY <1>1, <3>2, <4>1
    <3> QED
      BY <3>3, <3>4
  <2> QED
    BY <1>4, <2>1 DEF Line
<1>9. ASSUME NEW k \in 1 .. Len(t), t[k].type = "loaded", t[k].ok, Fresh(t, k) PROVE q.on
  BY <1>1, <1>2, <1>3, <1>9 DEF Line
<1> QED
  BY <1>6, <1>7, <1>8, <1>9 DEF Line

\* The line belongs to any actor with the same queue, and on if it was.
LEMMA LineSame ==
    ASSUME NEW s, NEW q, NEW r, Line(s, q),
           r.pend = q.pend, r.task = q.task, r.rev = q.rev, q.on => r.on
    PROVE  Line(s, r)
<1>1. \A list, turn : Shows(list, turn, q) => Shows(list, turn, r)
  BY WireSame DEF Shows
<1> QED
  BY <1>1 DEF Line

LEMMA MutedShows ==
    ASSUME NEW q, NEW r, Muted(q, r), NEW list, NEW turn, Shows(list, turn, q)
    PROVE  Shows(list, turn, r)
BY ConversationAssumption DEF Muted, Shows, Turns

LEMMA ArmFacts ==
    ASSUME NEW q \in Actors, NEW r, NEW T, Arm(q, r, T)
    PROVE  /\ r.out \in Seq(Snapshot) /\ r.out \in Seq(DownMsgs) /\ Len(r.out) \in Nat
           /\ (r.out = <<>> <=> Len(r.out) = 0) /\ q.rev \in Nat /\ r.rev = q.rev + Len(r.out)
           /\ \A k \in 1 .. Len(r.out) : /\ r.out[k].type = "queue" /\ r.out[k].rev = q.rev + k
                                         /\ r.out[k] \in ToSet(r.out)
           /\ \A m \in ToSet(r.out) : m.type = "queue" /\ m.rev \in Nat /\ m.rev > q.rev
<1>1. r \in Actors /\ Voice(q, r, T)
  BY DEF Arm
<1>2. /\ r.out \in Seq(Snapshot) /\ Len(r.out) \in Nat /\ (r.out = <<>> <=> Len(r.out) = 0) /\ q.rev \in Nat
      /\ \A k \in 1 .. Len(r.out) : r.out[k] \in Snapshot
  BY <1>1, OutFacts
<1>3. r.out \in Seq(DownMsgs)
  <2>1. Snapshot \subseteq DownMsgs
    BY DEF DownMsgs
  <2> QED
    BY <1>2, <2>1, WiderSeq
<1>4. r.rev = q.rev + Len(r.out) /\ \A k \in 1 .. Len(r.out) : r.out[k].rev = q.rev + k
  BY <1>1 DEF Voice
<1>5. ToSet(r.out) = Elements(r.out)
  BY <1>2, MessageSet
<1>6. \A k \in 1 .. Len(r.out) : r.out[k].type = "queue" /\ r.out[k].rev \in Nat
  BY <1>2 DEF Snapshot
<1>7. \A k \in 1 .. Len(r.out) : q.rev + k > q.rev
  BY <1>2
<1>8. \A k \in 1 .. Len(r.out) : r.out[k] \in ToSet(r.out)
  BY <1>5 DEF Elements
<1>9. \A m \in ToSet(r.out) : m.type = "queue" /\ m.rev \in Nat /\ m.rev > q.rev
  BY <1>4, <1>5, <1>6, <1>7 DEF Elements
<1> QED
  BY <1>2, <1>3, <1>4, <1>6, <1>8, <1>9

LEMMA LineJoined ==
    ASSUME NEW s \in Seq(DownMsgs), NEW q \in Actors, NEW r, NEW T, Arm(q, r, T), Line(s, q),
           NEW t, t = s \o r.out
    PROVE  Line(t, r)
<1> DEFINE n == Len(s)
           o == r.out
<1>0. /\ o \in Seq(DownMsgs) /\ Len(o) \in Nat /\ (o = <<>> <=> Len(o) = 0)
      /\ q.rev \in Nat /\ r.rev = q.rev + Len(o)
      /\ \A k \in 1 .. Len(o) : o[k].type = "queue" /\ o[k].rev = q.rev + k
  BY ArmFacts
<1>v. Voice(q, r, T) /\ Current(r) /\ (o = <<>> => Muted(q, r))
  BY DEF Arm
<1>c. o # <<>> => o[Len(o)].entries = QueueWire(r) /\ o[Len(o)].running = r.task
  BY <1>v DEF Current
<1>on. r.on = q.on
  BY <1>v DEF Voice
<1> HIDE DEF o
<1>1. /\ Grown(t, s) /\ Len(t) = n + Len(o)
      /\ \A k \in 1 .. Len(t) : k > n => k - n \in 1 .. Len(o) /\ t[k] = o[k - n]
  <2>1. t = s \o o
    BY DEF o
  <2>2. Joined(t, s, o)
    BY <1>0, <2>1, JoinedSet
  <2> QED
    BY <2>2 DEF Joined
<1>2. n \in Nat /\ Len(t) \in Nat /\ \A k \in 1 .. n : t[k] = s[k] /\ k \in 1 .. Len(t)
  BY <1>1 DEF Grown
<1> HIDE DEF n
<1>3. \A k \in 1 .. Len(t) : k > n => /\ t[k].type = "queue" /\ t[k].rev = q.rev + (k - n)
                                      /\ k - n \in 1 .. Len(o)
  BY <1>0, <1>1
<1>4. \A k \in 1 .. Len(t) : k > n \/ k \in 1 .. n
  BY <1>2
<1>5. \A k \in 1 .. n : Fresh(t, k) <=> Fresh(s, k)
  BY <1>2, <1>3, <1>4 DEF Fresh, n
<1>6. \A k \in 1 .. Len(t) : k \in Snaps(t) <=> (k > n \/ k \in Snaps(s))
  <2>1. \A k \in 1 .. Len(t) : k > n => Fresh(t, k)
    <3>1. SUFFICES ASSUME NEW k \in 1 .. Len(t), k > n, NEW j \in 1 .. Len(t), j > k
                   PROVE  t[j].type # "reconnected"
      BY DEF Fresh
    <3>2. j > n
      BY <1>2, <3>1
    <3> QED
      BY <1>3, <3>2
  <2>2. \A k \in Snaps(s) : k \in 1 .. n
    BY DEF Snaps, n
  <2>3. SUFFICES ASSUME NEW k \in 1 .. Len(t) PROVE k \in Snaps(t) <=> (k > n \/ k \in Snaps(s))
    OBVIOUS
  <2>4. CASE k > n
    BY <1>3, <2>1, <2>4 DEF Snaps
  <2>5. CASE k \in 1 .. n
    <3>1. ~ (k > n)
      BY <1>2, <2>5
    <3> QED
      BY <1>2, <1>5, <2>5, <3>1 DEF Snaps, n
  <2> QED
    BY <1>4, <2>4, <2>5
<1>7. \A k \in Snaps(t) : k \in 1 .. Len(t) /\ (k > n \/ (k \in Snaps(s) /\ k \in 1 .. n /\ t[k] = s[k]))
  <2>1. Snaps(t) \subseteq 1 .. Len(t) /\ Snaps(s) \subseteq 1 .. n
    BY DEF Snaps, n
  <2> QED
    BY <1>2, <1>6, <2>1
<1>8. \A k \in Snaps(s) : s[k].rev \in Nat /\ 1 <= s[k].rev /\ s[k].rev <= q.rev
  <2>1. \A k \in Snaps(s) : s[k].rev \in Nat
    BY DownFacts DEF Snaps
  <2> QED
    BY <2>1 DEF Line
<1>9. ASSUME NEW j \in Snaps(t), NEW k \in Snaps(t), j < k PROVE t[j].rev < t[k].rev
  <2>0. j \in 1 .. Len(t) /\ k \in 1 .. Len(t)
    BY <1>7
  <2>1. CASE k > n /\ j > n
    BY <1>0, <1>2, <1>3, <1>9, <2>0, <2>1
  <2>2. CASE k > n /\ j \in Snaps(s) /\ t[j] = s[j]
    <3>0. t[k].rev = q.rev + (k - n) /\ k - n \in 1 .. Len(o)
      BY <1>3, <2>0, <2>2
    <3>1. t[k].rev = q.rev + (k - n) /\ q.rev + (k - n) > q.rev
      BY <1>0, <3>0
    <3> QED
      BY <1>0, <1>2, <1>8, <2>0, <2>2, <3>1
  <2>3. CASE k \in Snaps(s) /\ k \in 1 .. n /\ t[k] = s[k]
    <3>1. ~ (j > n)
      BY <1>2, <1>9, <2>0, <2>3
    <3> QED
      BY <1>7, <1>9, <2>3, <3>1 DEF Line
  <2> QED
    BY <1>7, <2>1, <2>2, <2>3
<1>10. ASSUME NEW k \in Snaps(t) PROVE 1 <= t[k].rev /\ t[k].rev <= r.rev
  <2>1. CASE k > n
    <3>1. t[k].rev = q.rev + (k - n) /\ k - n \in 1 .. Len(o)
      BY <1>3, <1>7, <2>1
    <3> QED
      BY <1>0, <3>1
  <2>2. CASE k \in Snaps(s) /\ t[k] = s[k]
    BY <1>0, <1>8, <2>2
  <2> QED
    BY <1>7, <2>1, <2>2
<1>11. ASSUME NEW k \in Snaps(t), \A j \in Snaps(t) : j <= k
       PROVE  Shows(t[k].entries, t[k].running, r)
  <2>1. CASE o # <<>>
    <3>1. Len(t) \in 1 .. Len(t) /\ Len(t) > n
      BY <1>0, <1>1, <1>2, <2>1
    <3>2. Len(t) \in Snaps(t)
      BY <1>6, <3>1
    <3>3. k = Len(t)
      BY <1>2, <1>7, <1>11, <3>2
    <3>4. t[k] = o[Len(o)]
      <4>1. Len(t) - n = Len(o)
        BY <1>0, <1>1, <1>2
      <4> QED
        BY <1>1, <3>1, <3>3, <4>1
    <3> QED
      BY <1>c, <2>1, <3>4 DEF Shows
  <2>2. CASE o = <<>>
    <3>1. ~ (k > n)
      BY <1>0, <1>1, <1>2, <1>7, <2>2
    <3>2. k \in Snaps(s) /\ t[k] = s[k]
      BY <1>7, <3>1
    <3>3. \A j \in Snaps(s) : j \in Snaps(t)
      BY <1>2, <1>6 DEF Snaps, n
    <3>4. Shows(s[k].entries, s[k].running, q)
      BY <1>11, <3>2, <3>3 DEF Line
    <3> QED
      BY <1>v, <2>2, <3>2, <3>4, MutedShows
  <2> QED
    BY <2>1, <2>2
<1>12. ASSUME NEW k \in 1 .. Len(t), t[k].type = "loaded", t[k].ok, Fresh(t, k) PROVE r.on
  <2>1. ~ (k > n)
    BY <1>3, <1>12
  <2>2. k \in 1 .. n
    BY <1>4, <2>1
  <2> QED
    BY <1>2, <1>5, <1>12, <1>on, <2>2 DEF Line, n
<1> QED
  BY <1>9, <1>10, <1>11, <1>12 DEF Line

-----------------------------------------------------------------------------
(* An arm of the actor runs *)

LEMMA CommitFacts ==
    ASSUME ConvInv, NEW r, NEW T, Arm(actor, r, T), NEW ok \in BOOLEAN, CommitAs(r, ok)
    PROVE  /\ actor'.on = r.on /\ actor'.pend = r.pend /\ actor'.task = r.task /\ actor'.rev = r.rev
           /\ actor'.live = r.live /\ actor'.done = r.done
           /\ actor'.out = <<>> /\ actor'.replied = {}
           /\ QueueWire(actor') = QueueWire(r)
           /\ conn = "down" => down' = down
           /\ conn # "down" => Joined(down', down, r.out)
           /\ returns' = returns \cup {[id |-> p, ok |-> ok] : p \in r.replied \cap Prompts}
<1>0. r \in Actors /\ actor \in Actors /\ down \in Seq(DownMsgs)
  BY DEF ConvInv, Types, Arm
<1>1. PICK a : a = actor'
  OBVIOUS
<1>2. a = [r EXCEPT !.out = <<>>, !.replied = {}]
  BY <1>1 DEF CommitAs
<1>3. /\ a.on = r.on /\ a.pend = r.pend /\ a.task = r.task /\ a.rev = r.rev /\ a.live = r.live
      /\ a.done = r.done /\ a.out = <<>> /\ a.replied = {}
  BY <1>0, <1>2 DEF Actors
<1>4. QueueWire(a) = QueueWire(r)
  BY <1>3, WireSame
<1>5. conn # "down" => Joined(down', down, r.out)
  <2>1. r.out \in Seq(DownMsgs)
    BY <1>0, ArmFacts
  <2>2. conn # "down" => down' = down \o r.out
    BY DEF CommitAs
  <2>3. PICK s : s = down
    OBVIOUS
  <2>4. PICK t : t = down'
    OBVIOUS
  <2>5. PICK o : o = r.out
    OBVIOUS
  <2>6. conn # "down" => Joined(t, s, o)
    <3>1. s \in Seq(DownMsgs) /\ o \in Seq(DownMsgs) /\ (conn # "down" => t = s \o o)
      BY <1>0, <2>1, <2>2, <2>3, <2>4, <2>5
    <3> QED
      BY <3>1, JoinedSet
  <2> QED
    BY <2>3, <2>4, <2>5, <2>6
<1> QED
  BY <1>1, <1>3, <1>4, <1>5 DEF CommitAs

\* What the actor's part of the connection may become while an arm r runs: a
\* message is taken only by the arm that handles it.
Passes(r) ==
    /\ ToSet(up') \subseteq ToSet(up)
    /\ \A m \in ToSet(up) : m \in ToSet(up') \/
         /\ m.type \notin {"prompt", "cancel", "load"}
         /\ r.out = <<>> => m.type = "edit" /\ ~ (Synced /\ m.id \in Live(entries, None))

\* A mirror that follows the actor knows it is on.
LEMMA LinkedOn ==
    ASSUME ConvInv, MirrorInv, Linked
    PROVE  /\ rev >= 0 => actor.on /\ 1 <= rev /\ rev <= actor.rev
           /\ ~ actor.on => rev = -1 /\ actor.rev = 0
<1>1. rev \in Int /\ actor.rev \in Nat
  BY DEF ConvInv, Types, Actors
<1>2. rev = -1 \/ (1 <= rev /\ rev <= actor.rev)
  BY DEF MirrorInv, Mirrors
<1>3. ~ actor.on => actor.rev = 0
  BY DEF MirrorInv, ActorRests
<1> QED
  BY <1>1, <1>2, <1>3

LEMMA ArmMirror ==
    ASSUME ConvInv, ConvInv', MirrorInv, NEW r, NEW T, Arm(actor, r, T),
           NEW ok \in BOOLEAN, CommitAs(r, ok), actor.on,
           actor.rev = 0 => First(r, None) \/ r = actor,
           UNCHANGED <<desktop, conn, here>>, prep' \subseteq prep,
           Ids(actor.pend) \cap Prompts \subseteq T, \A h \in prep : h \in prep' \/ h.id \in T,
           \A p \in T \cap Prompts : p \in Ids(actor.pend) \/ Handled(p),
           Passes(r), stops' = stops \/ First(r, None)
    PROVE  MirrorInv'
<1>0. /\ actor \in Actors /\ down \in Seq(DownMsgs) /\ rev \in Int /\ Orderly(actor)
      /\ UNCHANGED <<rev, entries, running, status, waiting, mutation, cancel, recover>>
      /\ returns \subseteq [id : Prompts, ok : BOOLEAN] /\ prep \subseteq Submitted
      /\ down' \in Seq(DownMsgs)
  BY DEF ConvInv, Types, desktop
<1>m. /\ ActorRests /\ Mirrors /\ SyncComes /\ AnswersHeard /\ AnsweredOnce /\ Asked
      /\ Submissions /\ CancelEnds /\ MutationEnds
  BY DEF MirrorInv
<1>c. /\ actor'.on = r.on /\ actor'.pend = r.pend /\ actor'.task = r.task /\ actor'.rev = r.rev
      /\ actor'.live = r.live /\ actor'.done = r.done
      /\ actor'.out = <<>> /\ actor'.replied = {} /\ QueueWire(actor') = QueueWire(r)
      /\ conn = "down" => down' = down
      /\ conn # "down" => Joined(down', down, r.out)
      /\ returns' = returns \cup {[id |-> p, ok |-> ok] : p \in r.replied \cap Prompts}
  BY CommitFacts
<1>a. /\ r.out \in Seq(DownMsgs) /\ Len(r.out) \in Nat /\ (r.out = <<>> <=> Len(r.out) = 0)
      /\ actor.rev \in Nat /\ r.rev = actor.rev + Len(r.out)
      /\ \A k \in 1 .. Len(r.out) : /\ r.out[k].type = "queue" /\ r.out[k].rev = actor.rev + k
                                    /\ r.out[k] \in ToSet(r.out)
      /\ \A m \in ToSet(r.out) : m.type = "queue" /\ m.rev \in Nat /\ m.rev > actor.rev
  BY <1>0, ArmFacts
<1>v. /\ r.on = actor.on /\ Ids(r.pend) \cup r.replied \subseteq T
      /\ T \cap Prompts \subseteq Ids(r.pend) \cup r.replied
      /\ Current(r) /\ (r.out = <<>> => Muted(actor, r))
  BY DEF Arm, Voice
<1>1. /\ ToSet(down) \subseteq ToSet(down')
      /\ conn # "down" => ToSet(down') = ToSet(down) \cup ToSet(r.out)
      /\ \A m \in ToSet(down') : m \in ToSet(down) \/ m \in ToSet(r.out)
  BY <1>c DEF Joined
<1>2. Linked' <=> Linked
  BY <1>1, <1>a DEF Linked, Has
<1>3. Synced' => Synced /\ r.out = <<>>
  <2>1. r.out # <<>> => \E m \in ToSet(r.out) : m.type = "queue"
    BY <1>a
  <2>2. conn = "up" /\ r.out # <<>> => Has(down', "queue")
    BY <1>1, <2>1 DEF Has
  <2>3. Has(down, "queue") => Has(down', "queue")
    BY <1>1 DEF Has
  <2> QED
    BY <1>0, <1>2, <2>2, <2>3 DEF Synced, Linked
<1>4. r.out # <<>> /\ conn = "up" => Has(down', "queue")
  BY <1>1, <1>a DEF Has
<1>5. ActorRests'
  <2>1. ASSUME r.rev = 0 PROVE r = actor
    <3>1. actor.rev = 0 /\ r.out = <<>>
      BY <1>a, <2>1
    <3> QED
      BY <3>1 DEF First
  <2>2. actor.rev = 0 => actor.pend = <<>> /\ actor.task = None /\ actor.done = <<>> /\ actor.live = {}
    BY <1>m DEF ActorRests
  <2> QED
    BY <1>c, <1>v, <2>1, <2>2 DEF ActorRests
<1>6. Mirrors'
  <2>1. ASSUME conn' = "up" PROVE Line(down', actor')
    <3>1. PICK t : t = down'
      OBVIOUS
    <3>2. PICK s : s = down
      OBVIOUS
    <3>3. Line(s, actor) /\ s \in Seq(DownMsgs) /\ t = s \o r.out
      BY <1>0, <1>m, <2>1, <3>1, <3>2 DEF Mirrors, CommitAs
    <3>4. Line(t, r)
      BY <1>0, <3>3, LineJoined
    <3>5. PICK b : b = actor'
      OBVIOUS
    <3>6. Line(t, b)
      BY <1>c, <3>4, <3>5, LineSame
    <3> QED
      BY <3>1, <3>5, <3>6
  <2>2. ASSUME Linked'
        PROVE  /\ rev' = -1 \/ (1 <= rev' /\ rev' <= actor'.rev)
               /\ \A m \in ToSet(down') : m.type = "queue" => rev' < m.rev
    <3>1. /\ rev = -1 \/ (1 <= rev /\ rev <= actor.rev)
          /\ \A m \in ToSet(down) : m.type = "queue" => rev < m.rev
      BY <1>2, <1>m, <2>2 DEF Mirrors
    <3>2. rev <= actor.rev
      BY <1>0, <1>a, <3>1
    <3>3. \A m \in ToSet(r.out) : rev < m.rev
      BY <1>0, <1>a, <3>2
    <3>4. rev = -1 \/ (1 <= rev /\ rev <= r.rev)
      BY <1>0, <1>a, <3>1
    <3> QED
      BY <1>0, <1>1, <1>c, <3>1, <3>3, <3>4
  <2>3. ASSUME Synced' PROVE Shows(entries', running', actor')
    <3>1. Shows(entries, running, actor)
      BY <1>3, <1>m, <2>3 DEF Mirrors
    <3>2. Muted(actor, r)
      BY <1>3, <1>v, <2>3
    <3>3. Shows(entries, running, r)
      BY <3>1, <3>2, MutedShows
    <3> QED
      BY <1>0, <1>c, <3>3 DEF Shows
  <2> QED
    BY <2>1, <2>2, <2>3 DEF Mirrors
<1>7. SyncComes'
  <2>1. SUFFICES ASSUME Linked', rev' = -1, recover' # "failed"
                 PROVE  \/ Has(up', "load") \/ Has(down', "loaded") \/ Has(down', "queue")
                        \/ actor'.on /\ Has(up', "reorder")
    BY DEF SyncComes
  <2>2. \/ Has(up, "load") \/ Has(down, "loaded") \/ Has(down, "queue")
        \/ actor.on /\ Has(up, "reorder")
    BY <1>0, <1>2, <1>m, <2>1 DEF SyncComes
  <2>3. Has(up, "load") => Has(up', "load")
    BY DEF Passes, Has
  <2>4. (Has(down, "loaded") => Has(down', "loaded")) /\ (Has(down, "queue") => Has(down', "queue"))
    BY <1>1 DEF Has
  <2>5. Has(up, "reorder") => Has(up', "reorder") \/ r.out # <<>>
    BY DEF Passes, Has
  <2>6. conn = "up"
    BY <1>2, <2>1 DEF Linked
  <2> QED
    BY <1>4, <1>c, <1>v, <2>2, <2>3, <2>4, <2>5, <2>6
<1>8. AnswersHeard'
  <2>1. Preceded(down', rev')
    <3>1. CASE conn = "down"
      BY <1>0, <1>c, <1>m, <3>1 DEF AnswersHeard
    <3>2. CASE conn # "down"
      <4>1. PICK t : t = down'
        OBVIOUS
      <4>2. Joined(t, down, r.out) /\ Preceded(down, rev)
        BY <1>c, <1>m, <3>2, <4>1 DEF AnswersHeard
      <4>3. Grown(t, down) /\ \A k \in 1 .. Len(t) : k > Len(down) => t[k].type = "queue"
        BY <1>a, <4>2 DEF Joined
      <4>4. \A k \in 1 .. Len(t) : k > Len(down) /\ t[k].type = "answer" /\ t[k].ok => Heard(t, rev, k - 1)
        BY <4>3
      <4>5. Preceded(t, rev)
        BY <4>2, <4>3, <4>4, PrecededGrown
      <4> QED
        BY <1>0, <4>1, <4>5
    <3> QED
      BY <3>1, <3>2
  <2>2. conn' # "up" => here' = {}
    BY <1>m DEF AnswersHeard
  <2>3. ASSUME NEW p \in here', p \in Ids(actor'.pend) \/ [id |-> p, ok |-> TRUE] \in returns'
        PROVE  Heard(down', rev', Len(down'))
    <3>0. conn = "up" /\ p \in here /\ p \in Prompts
      BY <1>m DEF AnswersHeard, ConvInv, Types
    <3>1. PICK t : t = down'
      OBVIOUS
    <3>2. Joined(t, down, r.out) /\ Len(down) \in Nat /\ Len(t) \in Nat
      BY <1>0, <1>c, <3>0, <3>1, DownFacts
    <3>3. CASE r.out # <<>>
      <4>1. Len(t) = Len(down) + Len(r.out) /\ Len(r.out) # 0
        BY <1>a, <3>2, <3>3 DEF Joined
      <4>2. Len(t) \in 1 .. Len(t) /\ Len(t) > Len(down) /\ 1 <= Len(t)
        BY <1>a, <3>2, <4>1
      <4>3. t[Len(t)].type = "queue"
        BY <1>a, <3>2, <4>2 DEF Joined
      <4>4. Heard(t, rev, Len(t))
        BY <3>2, <4>2, <4>3, HeardLast
      <4> QED
        BY <1>0, <3>1, <4>4
    <3>4. CASE r.out = <<>>
      <4>1. Ids(r.pend) \cap Prompts = Ids(actor.pend) \cap Prompts /\ r.replied \cap Prompts = {}
        BY <1>v, <3>4 DEF Muted
      <4>2. p \in Ids(actor.pend) \/ [id |-> p, ok |-> TRUE] \in returns
        BY <1>c, <2>3, <3>0, <4>1
      <4>3. Heard(down, rev, Len(down))
        BY <1>m, <3>0, <4>2 DEF AnswersHeard
      <4>4. Grown(t, down) /\ \A k \in 1 .. Len(t) : k > Len(down) => t[k].type # "reconnected"
        BY <1>a, <3>2 DEF Joined
      <4>5. Heard(t, rev, Len(t))
        BY <4>3, <4>4, HeardGrown
      <4> QED
        BY <1>0, <3>1, <4>5
    <3> QED
      BY <3>3, <3>4
  <2> QED
    BY <2>1, <2>2, <2>3 DEF AnswersHeard
<1>9. AnsweredOnce'
  <2>1. \A a \in returns' : a \in returns \/ (a.id \in T /\ a.id \in Prompts)
    BY <1>c, <1>v
  <2>2. \A p \in T \cap Prompts : status[p] # "new" /\ \A m \in ToSet(up) : m.type = "prompt" => m.id # p
    <3>1. SUFFICES ASSUME NEW p \in T \cap Prompts
                   PROVE  status[p] # "new" /\ \A m \in ToSet(up) : m.type = "prompt" => m.id # p
      OBVIOUS
    <3>2. up \in Seq(UpMsgs)
      BY DEF ConvInv, Types
    <3>3. ToSet(up) = Elements(up)
      BY <3>2, MessageSet
    <3>4. CASE p \in Ids(actor.pend)
      <4>1. ~ Unseen(p)
        BY <3>4 DEF Unseen
      <4> QED
        BY <3>3, <4>1 DEF ConvInv, SentOnce, Elements
    <3>5. CASE Handled(p)
      BY <3>3, <3>5 DEF ConvInv, SentOnce, Elements, Handled
    <3> QED
      BY <3>4, <3>5
  <2>3. ToSet(up') \subseteq ToSet(up)
    BY DEF Passes
  <2> QED
    BY <1>0, <1>m, <2>1, <2>2, <2>3 DEF AnsweredOnce
<1>10. Asked'
  BY <1>0, <1>m DEF Asked
<1>11. Submissions'
  <2>1. SUFFICES ASSUME NEW p \in Prompts
                 PROVE  /\ Linked' /\ status'[p] = "submitting" =>
                             \/ Underway(p)' \/ AnswerSent(p)'
                             \/ p \in here' /\ (Handled(p)' \/ Returned(p)' \/ p \in Ids(actor'.pend))
                        /\ Synced' /\ p \in Ids(actor'.pend) => status'[p] # "submitting"
                        /\ Synced' /\ status'[p] = "unknown" => p \notin waiting' /\ p \in Ids(actor'.pend)
    BY DEF Submissions
  <2>2. /\ Linked /\ status[p] = "submitting" =>
             \/ Underway(p) \/ AnswerSent(p)
             \/ p \in here /\ (Handled(p) \/ Returned(p) \/ p \in Ids(actor.pend))
        /\ Synced /\ p \in Ids(actor.pend) => status[p] # "submitting"
        /\ Synced /\ status[p] = "unknown" => p \notin waiting /\ p \in Ids(actor.pend)
    BY <1>m DEF Submissions
  <2>3. Underway(p) => Underway(p)'
    BY DEF Underway, Passes
  <2>4. AnswerSent(p) => AnswerSent(p)'
    BY <1>1 DEF AnswerSent
  <2>5. Returned(p) => Returned(p)'
    BY <1>c DEF Returned
  <2>6. p \in T => p \in Ids(actor'.pend) \/ Returned(p)'
    <3>1. p \in r.replied => [id |-> p, ok |-> ok] \in returns'
      BY <1>c
    <3>2. [id |-> p, ok |-> ok].id = p
      OBVIOUS
    <3>3. p \in r.replied => Returned(p)'
      BY <3>1, <3>2 DEF Returned
    <3> QED
      BY <1>c, <1>v, <3>3
  <2>7. Handled(p) => Handled(p)' \/ p \in T
    BY DEF Handled
  <2>8. Synced' => Synced /\ (p \in Ids(actor'.pend) <=> p \in Ids(actor.pend))
    BY <1>3, <1>c, <1>v DEF Muted
  <2> QED
    BY <1>0, <1>2, <2>2, <2>3, <2>4, <2>5, <2>6, <2>7, <2>8
<1>12. CancelEnds'
  <2>1. SUFFICES ASSUME Linked', cancel'.on
                 PROVE  \/ Has(up', "cancel") \/ stops' > 0
                        \/ \E m \in ToSet(down') : m.type = "queue" /\ m.running = None
                        \/ rev' = -1 /\ actor'.rev = 0
    BY DEF CancelEnds
  <2>2. \/ Has(up, "cancel") \/ stops > 0
        \/ \E m \in ToSet(down) : m.type = "queue" /\ m.running = None
        \/ rev = -1 /\ actor.rev = 0
    BY <1>0, <1>2, <1>m, <2>1 DEF CancelEnds
  <2>3. Has(up, "cancel") => Has(up', "cancel")
    BY DEF Passes, Has
  <2>4. First(r, None) => \E m \in ToSet(down') : m.type = "queue" /\ m.running = None
    <3>1. conn = "up"
      BY <1>2, <2>1 DEF Linked
    <3>2. r.out # <<>> => 1 \in 1 .. Len(r.out)
      BY <1>a
    <3> QED
      BY <1>1, <1>a, <3>1, <3>2 DEF First
  <2>5. (rev = -1 /\ actor.rev = 0) => First(r, None) \/ (rev' = -1 /\ actor'.rev = 0)
    BY <1>0, <1>c
  <2> QED
    BY <1>1, <2>2, <2>3, <2>4, <2>5
<1>13. MutationEnds'
  <2>1. Pending' => Pending
    BY <1>0 DEF Pending
  <2>2. ASSUME Linked', Pending'
        PROVE  Has(down', "queue") \/ \E m \in ToSet(up') : Telling(m, entries')
    <3>1. Has(down, "queue") \/ \E m \in ToSet(up) : Telling(m, entries)
      BY <1>2, <1>m, <2>1, <2>2 DEF MutationEnds
    <3>2. Has(down, "queue") => Has(down', "queue")
      BY <1>1 DEF Has
    <3>3. ~ Has(down, "queue") => Synced
      BY <1>2, <1>m, <2>1, <2>2 DEF Synced, MutationEnds
    <3>4. ASSUME NEW m \in ToSet(up), Telling(m, entries), ~ Has(down, "queue")
          PROVE  m \in ToSet(up') \/ r.out # <<>>
      BY <3>3, <3>4 DEF Passes, Telling
    <3>5. conn = "up"
      BY <1>2, <2>2 DEF Linked
    <3> QED
      BY <1>0, <1>4, <3>1, <3>2, <3>4, <3>5
  <2> QED
    BY <1>0, <1>m, <2>1, <2>2 DEF MutationEnds
<1> QED
  BY <1>5, <1>6, <1>7, <1>8, <1>9, <1>10, <1>11, <1>12, <1>13 DEF MirrorInv

LEMMA RestsSilent ==
    ASSUME ConvInv, MirrorInv
    PROVE  Silent(actor) /\ (actor.rev = 0 => actor.task = None)
BY DEF ConvInv, Types, MirrorInv, ActorRests, Silent

LEMMA NothingPassed ==
    ASSUME NEW r, up' = up
    PROVE  Passes(r)
BY DEF Passes

LEMMA StopMirrors ==
    ASSUME ConvInv, ConvInv', MirrorInv, Stop
    PROVE  MirrorInv'
<1> DEFINE r == MaybeStart(CancelRunning(actor))
           T == Ids(actor.pend)
<1>1. Silent(actor)
  BY RestsSilent
<1>2. Arm(actor, r, T) /\ First(r, None)
  BY <1>1, StopSays, SpokenArm
<1>3. CommitAs(r, TRUE) /\ UNCHANGED <<desktop, conn, here>> /\ prep' = prep /\ up' = up /\ stops > 0
  BY DEF Stop, Commit, HostUnchanged
<1>4. actor.on
  <2>1. ~ actor.on => stops = 0
    BY DEF MirrorInv, ActorRests
  <2> QED
    BY <1>3, <2>1
<1> HIDE DEF r
<1>5. Passes(r)
  BY <1>3, NothingPassed
<1> QED
  BY <1>2, <1>3, <1>4, <1>5, ArmMirror

LEMMA WakeMirrors ==
    ASSUME ConvInv, ConvInv', MirrorInv, NEW w \in Wakes, Wake(w)
    PROVE  MirrorInv'
<1> DEFINE item == [id |-> w, ver |-> 0, text |-> 0, now |-> FALSE]
           r == QueueInput(actor, item, FALSE, FALSE, FALSE)
           T == Ids(actor.pend) \cup {item.id}
<1>1. Silent(actor) /\ (actor.rev = 0 => actor.task = None)
  BY RestsSilent
<1>2. item \in Item /\ item.id = w
  BY ConversationAssumption DEF Item, Turns
<1>3. w \notin Ids(actor.pend) /\ actor.starts[w] = 0 /\ w \notin Prompts
  BY ConversationAssumption DEF Wake, Ids
<1>4. /\ CommitAs(r, TRUE) /\ UNCHANGED <<desktop, conn, here>> /\ prep' = prep /\ up' = up /\ stops' = stops
      /\ actor.on
  BY DEF Wake, Commit
<1> HIDE DEF item
<1>5. Spoken(actor, r, T, actor.task)
  BY <1>1, <1>2, <1>3, QueueInputSays
<1> HIDE DEF r
<1>6. Arm(actor, r, T) /\ First(r, actor.task)
  BY <1>5, SpokenArm
<1>7. Passes(r)
  BY <1>4, NothingPassed
<1>8. \A p \in T \cap Prompts : p \in Ids(actor.pend) \/ Handled(p)
  BY <1>2, <1>3
<1> QED
  BY <1>1, <1>4, <1>6, <1>7, <1>8, ArmMirror

LEMMA EnqueueMirrors ==
    ASSUME ConvInv, ConvInv', MirrorInv, NEW h, Enqueue(h)
    PROVE  MirrorInv'
<1> DEFINE item == [id |-> h.id, ver |-> 0, text |-> 0, now |-> h.now]
<1>0. Types /\ SentOnce
  BY DEF ConvInv
<1>1. Silent(actor) /\ (actor.rev = 0 => actor.task = None)
  BY RestsSilent
<1>2. h \in prep /\ h.id \in Prompts /\ h.now \in BOOLEAN
  BY <1>0 DEF Enqueue, Types, Submitted
<1>3. item \in Item /\ item.id = h.id
  BY <1>2, ConversationAssumption DEF Item, Turns
<1>4. h.id \notin Ids(actor.pend) /\ actor.starts[h.id] = 0
  BY <1>0, <1>2 DEF SentOnce, Unseen
<1>5. PICK armed \in BOOLEAN, blocked \in BOOLEAN, goal \in BOOLEAN :
        Commit(QueueInput(actor, item, armed, blocked, goal))
  BY DEF Enqueue
<1> DEFINE r == QueueInput(actor, item, armed, blocked, goal)
<1> HIDE DEF item
<1>6. PICK T : /\ T \subseteq Ids(actor.pend) \cup {item.id}
               /\ (Ids(actor.pend) \cup {item.id}) \cap Prompts \subseteq T
               /\ Spoken(actor, r, T, actor.task)
  <2> HIDE DEF r
  <2>1. \/ Spoken(actor, r, Ids(actor.pend) \cup {item.id}, actor.task)
        \/ \E T : /\ T \subseteq Ids(actor.pend) \cup {item.id}
                  /\ (Ids(actor.pend) \cup {item.id}) \cap Prompts \subseteq T
                  /\ Spoken(actor, r, T, actor.task)
    BY <1>1, <1>3, <1>4, QueueInputSays DEF r
  <2>2. PICK S : S = Ids(actor.pend) \cup {item.id}
    OBVIOUS
  <2> QED
    BY <2>1, <2>2
<1>c. CommitAs(r, TRUE)
  BY <1>5 DEF Commit
<1> HIDE DEF r
<1>7. Arm(actor, r, T) /\ First(r, actor.task)
  BY <1>6, SpokenArm
<1>8. UNCHANGED <<desktop, conn, here>> /\ prep' = prep \ {h} /\ up' = up /\ stops' = stops
  BY DEF Enqueue, HostUnchanged
<1>9. actor.on
  <2>1. ~ actor.on => prep = {}
    BY DEF MirrorInv, ActorRests
  <2> QED
    BY <1>2, <2>1
<1>10. Passes(r)
  BY <1>8, NothingPassed
<1>11. h.id \in T /\ Handled(h.id)
  BY <1>2, <1>3, <1>6 DEF Handled
<1>12. \A p \in T \cap Prompts : p \in Ids(actor.pend) \/ Handled(p)
  BY <1>3, <1>6, <1>11
<1>13. /\ prep' \subseteq prep /\ Ids(actor.pend) \cap Prompts \subseteq T
       /\ \A o \in prep : o \in prep' \/ o.id \in T
  BY <1>6, <1>8, <1>11
<1> QED
  BY <1>1, <1>7, <1>8, <1>9, <1>10, <1>12, <1>13, <1>c, ArmMirror

LEMMA CompleteMirrors ==
    ASSUME ConvInv, ConvInv', MirrorInv, Complete
    PROVE  MirrorInv'
<1>0. actor \in Actors /\ Orderly(actor) /\ actor.out = <<>> /\ actor.replied = {}
  BY DEF ConvInv, Types, MirrorInv, ActorRests
<1> DEFINE d == actor.done
           b == [actor EXCEPT !.done = Tail(d)]
           id == Head(d)
           r == Completion(b, id)
           T == Ids(actor.pend)
<1>1. d \in Seq(Turns) /\ d # <<>>
  BY <1>0 DEF Actors, Complete
<1>2. /\ Tail(d) \in Seq(Turns) /\ Len(Tail(d)) = Len(d) - 1 /\ Len(d) \in Nat \ {0}
      /\ \A k \in 1 .. Len(Tail(d)) : Tail(d)[k] = d[k + 1]
  <2> HIDE DEF d
  <2> QED
    BY <1>1, TailFacts
<1>3. id \in Turns /\ id = d[1] /\ 1 \in 1 .. Len(d)
  <2> HIDE DEF d
  <2>1. id \in Turns
    BY <1>1, HeadTailProperties
  <2> QED
    BY <1>1, <1>2, <2>1
<1>4. b \in Actors
  BY <1>0, <1>2, ActorUpdate
<1>5. /\ b.pend = actor.pend /\ b.task = actor.task /\ b.live = actor.live /\ b.starts = actor.starts
      /\ b.done = Tail(d) /\ b.out = <<>> /\ b.replied = {} /\ b.on = actor.on /\ b.rev = actor.rev
  BY <1>0 DEF Actors
<1>6. \A k \in 1 .. Len(d) : actor.starts[d[k]] = 1 /\ d[k] \notin actor.live
  BY <1>0 DEF Orderly
<1>7. Orderly(b)
  <2>1. \A k \in 1 .. Len(Tail(d)) : k + 1 \in 1 .. Len(d)
    BY <1>2
  <2>2. \A k \in 1 .. Len(b.done) : b.starts[b.done[k]] = 1 /\ b.done[k] \notin b.live
    <3> HIDE DEF b, d
    <3> QED
      BY <1>2, <1>5, <1>6, <2>1
  <2> HIDE DEF b, d
  <2> QED
    BY <1>0, <1>5, <2>2 DEF Orderly
<1>8. id \notin b.live
  BY <1>3, <1>5, <1>6
<1>9. Silent(b)
  BY <1>4, <1>5, <1>7 DEF Silent
<1>10. PICK ok \in BOOLEAN : CommitAs(r, ok)
  BY DEF Complete
<1> HIDE DEF b, id
<1>11. Arm(b, r, Ids(b.pend))
  BY <1>3, <1>8, <1>9, CompletionSays
<1> HIDE DEF r, d
<1>12. QueueWire(b) = QueueWire(actor)
  BY <1>5, WireSame
<1>13. Arm(actor, r, T)
  BY <1>5, <1>11, <1>12 DEF Arm, Voice, Muted
<1>14. actor.on /\ actor.rev # 0
  <2>1. actor.rev # 0
    BY <1>1 DEF MirrorInv, ActorRests, d
  <2> QED
    BY <2>1 DEF MirrorInv, ActorRests
<1>15. UNCHANGED <<desktop, conn, here>> /\ up' = up /\ stops' = stops /\ prep' = prep
  BY DEF Complete, HostUnchanged
<1>16. Passes(r)
  BY <1>15, NothingPassed
<1> QED
  BY <1>10, <1>13, <1>14, <1>15, <1>16, ArmMirror

LEMMA QueueOpMirrors ==
    ASSUME ConvInv, ConvInv', MirrorInv, DeliverQueueOp
    PROVE  MirrorInv'
<1>0. Types /\ actor \in Actors /\ up \in Seq(UpMsgs) /\ rev \in Int
  BY DEF ConvInv, Types
<1>1. /\ UNCHANGED <<desktop, conn, here>> /\ up' = Tail(up) /\ up # <<>>
      /\ stops' = stops /\ prep' = prep
  BY DEF DeliverQueueOp, HostUnchanged
<1>2. PICK m : m = Head(up)
  OBVIOUS
<1>3. m \in UpMsgs /\ ToSet(up) = ToSet(up') \cup {m}
  <2>1. PICK t : t = up'
    OBVIOUS
  <2>2. ToSet(up) = ToSet(t) \cup {Head(up)} /\ Head(up) \in UpMsgs
    BY <1>0, <1>1, <2>1, TakenSet
  <2> QED
    BY <1>2, <2>1, <2>2
<1>4. PICK r \in QueueOps(m) : IF actor.on THEN Commit(r) ELSE UNCHANGED <<actor, down, returns>>
  BY <1>2 DEF DeliverQueueOp
<1>5. \/ m.type = "remove" /\ r = RemoveQueued(actor, m.id, m.ver)
      \/ m.type = "edit" /\ r = EditQueued(actor, m.id, m.text)
      \/ m.type = "now" /\ \E goal \in BOOLEAN : r = SendQueuedNow(actor, m.id, m.ver, goal)
      \/ m.type = "reorder" /\ r = ReorderQueue(actor, m.order)
      \/ m.type = "clear" /\ r = ClearQueue(actor)
  BY <1>4 DEF QueueOps
<1>6. m.type \in {"remove", "edit", "now", "reorder", "clear"}
  BY <1>5
<1>7. CASE actor.on
  <2> DEFINE T == Ids(actor.pend)
  <2>0. Silent(actor) /\ (actor.rev = 0 => actor.task = None)
    BY RestsSilent
  <2>1. (m.type = "edit" => m.text \in 0 .. MaxEvents) /\ (m.type = "reorder" => m.order \in Seq(Prompts))
    BY <1>3 DEF UpMsgs
  <2>2. \/ Spoken(actor, r, T, actor.task)
        \/ m.type = "edit" /\ r = actor /\ Queued(actor, m.id) = {}
    <3>1. CASE m.type = "edit"
      BY <1>5, <2>0, <2>1, <3>1, EditQueuedSays
    <3>2. CASE m.type # "edit"
      BY <1>5, <2>0, <2>1, <3>2, RemoveQueuedSays, SendQueuedNowSays, ReorderQueueSays, ClearQueueSays
    <3> QED
      BY <3>1, <3>2
  <2>3. CommitAs(r, TRUE)
    BY <1>4, <1>7 DEF Commit
  <2>4. CASE Spoken(actor, r, T, actor.task)
    <3>1. Arm(actor, r, T) /\ First(r, actor.task) /\ r.out # <<>>
      BY <2>4, SpokenArm
    <3>2. Passes(r)
      BY <1>3, <1>6, <3>1 DEF Passes
    <3> QED
      BY <1>1, <1>7, <2>0, <2>3, <3>1, <3>2, ArmMirror
  <2>5. CASE m.type = "edit" /\ r = actor /\ Queued(actor, m.id) = {}
    <3>1. Arm(actor, r, T)
      BY <2>0, <2>5, SilentArm
    <3>2. ~ (Synced /\ m.id \in Live(entries, None))
      <4>1. SUFFICES ASSUME Synced, m.id \in Live(entries, None) PROVE FALSE
        OBVIOUS
      <4>2. entries = QueueWire(actor)
        BY <4>1 DEF MirrorInv, Mirrors, Shows
      <4>3. m.id \in Ids(actor.pend) /\ m.id # actor.task
        BY <1>0, <4>1, <4>2, WireIds
      <4> QED
        BY <2>5, <4>3 DEF Queued, Ids
    <3>3. Passes(r)
      BY <1>3, <2>5, <3>2 DEF Passes
    <3> QED
      BY <1>1, <1>7, <2>3, <2>5, <3>1, <3>3, ArmMirror
  <2> QED
    BY <2>2, <2>4, <2>5
<1>8. CASE ~ actor.on
  <2>1. UNCHANGED <<actor, down, returns>>
    BY <1>4, <1>8
  <2>u. UNCHANGED <<rev, entries, running, status, waiting, mutation, cancel, recover>>
    BY <1>1 DEF desktop
  <2>m. /\ ActorRests /\ Mirrors /\ SyncComes /\ AnswersHeard /\ AnsweredOnce /\ Asked
        /\ Submissions /\ CancelEnds /\ MutationEnds
    BY DEF MirrorInv
  <2>2. Linked => rev = -1
    BY <1>8, LinkedOn
  <2>3. (Linked' <=> Linked) /\ (Synced' <=> Synced)
    BY <1>1, <2>1, <2>u DEF Linked, Synced
  <2>4. \A n \in ToSet(up) : n.type \in {"prompt", "cancel", "load"} => n \in ToSet(up')
    BY <1>3, <1>6
  <2>5. ToSet(up') \subseteq ToSet(up)
    BY <1>3
  <2>6. ActorRests' /\ Mirrors'
    BY <1>1, <2>1, <2>3, <2>m, <2>u DEF ActorRests, Mirrors
  <2>7. SyncComes' /\ CancelEnds'
    <3>1. (Has(up, "load") => Has(up', "load")) /\ (Has(up, "cancel") => Has(up', "cancel"))
      BY <2>4 DEF Has
    <3> QED
      BY <1>1, <1>8, <2>1, <2>3, <2>m, <2>u, <3>1 DEF SyncComes, CancelEnds
  <2>8. AnswersHeard' /\ AnsweredOnce' /\ Asked'
    BY <1>1, <2>1, <2>5, <2>m, <2>u DEF AnswersHeard, AnsweredOnce, Asked
  <2>9. Submissions'
    <3>1. \A p \in Prompts : Underway(p) => Underway(p)'
      BY <2>4 DEF Underway
    <3>2. \A p \in Prompts : (AnswerSent(p)' <=> AnswerSent(p)) /\ (Handled(p)' <=> Handled(p))
                             /\ (Returned(p)' <=> Returned(p))
      BY <1>1, <2>1 DEF AnswerSent, Handled, Returned
    <3> QED
      BY <1>1, <2>1, <2>3, <2>m, <2>u, <3>1, <3>2 DEF Submissions
  <2>10. MutationEnds'
    <3>1. Pending' <=> Pending
      BY <2>u DEF Pending
    <3>2. Linked => ~ Pending
      BY <1>0, <2>2, <2>m DEF MutationEnds
    <3> QED
      BY <2>3, <2>m, <2>u, <3>1, <3>2 DEF MutationEnds
  <2> QED
    BY <2>6, <2>7, <2>8, <2>9, <2>10 DEF MirrorInv
<1> QED
  BY <1>7, <1>8

-----------------------------------------------------------------------------
(* The other steps of the Host *)

\* p is refused, or answered with an error: its request is no longer on its way.
Refused(a) == ~ a.ok /\ status[a.id] # "new" /\ \A m \in ToSet(up') : m.type = "prompt" => m.id # a.id

\* A message that left the connection is in the hands of a handler.
Accepted(m) ==
    \/ m.type = "prompt" /\ m.id \in here' /\ (Handled(m.id)' \/ Returned(m.id)')
    \/ m.type = "cancel" /\ (stops' > 0 \/ ~ actor.on)

\* The queue and the running turn of the actor stay; it may be switched on.
SameQueue ==
    /\ actor'.pend = actor.pend /\ actor'.task = actor.task /\ actor'.rev = actor.rev
    /\ actor'.out = <<>> /\ actor'.replied = {} /\ (actor.on => actor'.on)
    /\ actor.rev = 0 => actor'.done = <<>> /\ actor'.live = {}
    /\ ~ actor'.on => prep' = {} /\ stops' = 0

\* What the mirror of the queue consists of, without the messages that are being prepared.
Mirrored == <<rev, entries, running, status, waiting, mutation, cancel, recover>>

LEMMA MirrorStays ==
    ASSUME ConvInv, ConvInv', MirrorInv, UNCHANGED <<Mirrored, conn, down>>, SameQueue,
           ToSet(up') \subseteq ToSet(up), \A m \in ToSet(up) : m \in ToSet(up') \/ Accepted(m),
           here \subseteq here', conn # "up" => here' = here,
           \A p \in here' \ here : p \notin Ids(actor.pend) /\ [id |-> p, ok |-> TRUE] \notin returns,
           \A p \in here : Handled(p) \/ Returned(p) => Handled(p)' \/ Returned(p)',
           \A a \in returns' : a \in returns \/ Refused(a),
           stops > 0 => stops' > 0
    PROVE  MirrorInv'
<1>0. UNCHANGED <<rev, entries, running, status, waiting, mutation, cancel, recover>>
  BY DEF Mirrored
<1>m. /\ ActorRests /\ Mirrors /\ SyncComes /\ AnswersHeard /\ AnsweredOnce /\ Asked
      /\ Submissions /\ CancelEnds /\ MutationEnds
  BY DEF MirrorInv
<1>a. /\ actor'.pend = actor.pend /\ actor'.task = actor.task /\ actor'.rev = actor.rev
      /\ actor'.out = <<>> /\ actor'.replied = {} /\ (actor.on => actor'.on)
      /\ actor.rev = 0 => actor'.done = <<>> /\ actor'.live = {}
      /\ ~ actor'.on => prep' = {} /\ stops' = 0
  BY DEF SameQueue
<1>1. (Linked' <=> Linked) /\ (Synced' <=> Synced)
  BY <1>0 DEF Linked, Synced
<1>2. QueueWire(actor') = QueueWire(actor)
  <2>1. PICK b : b = actor'
    OBVIOUS
  <2>2. QueueWire(b) = QueueWire(actor)
    BY <1>a, <2>1, WireSame
  <2> QED
    BY <2>1, <2>2
<1>3. ActorRests'
  BY <1>a, <1>m DEF ActorRests
<1>4. Mirrors'
  <2>1. ASSUME conn' = "up" PROVE Line(down', actor')
    <3>1. PICK b : b = actor'
      OBVIOUS
    <3>2. Line(down, actor)
      BY <1>m, <2>1 DEF Mirrors
    <3>3. Line(down, b)
      BY <1>a, <3>1, <3>2, LineSame
    <3> QED
      BY <3>1, <3>3
  <2>2. Synced' => Shows(entries', running', actor')
    BY <1>0, <1>1, <1>2, <1>a, <1>m DEF Mirrors, Shows
  <2>3. Linked' => /\ rev' = -1 \/ (1 <= rev' /\ rev' <= actor'.rev)
                   /\ \A m \in ToSet(down') : m.type = "queue" => rev' < m.rev
    BY <1>0, <1>1, <1>a, <1>m DEF Mirrors
  <2> QED
    BY <2>1, <2>2, <2>3 DEF Mirrors
<1>5. \A m \in ToSet(up) : m.type \notin {"prompt", "cancel"} => m \in ToSet(up')
  BY DEF Accepted
<1>6. SyncComes'
  <2>1. (Has(up, "load") => Has(up', "load")) /\ (Has(up, "reorder") => Has(up', "reorder"))
    BY <1>5 DEF Has
  <2> QED
    BY <1>0, <1>1, <1>a, <1>m, <2>1 DEF SyncComes
<1>7. AnswersHeard'
  <2>1. ASSUME NEW p \in here', p \in Ids(actor'.pend) \/ [id |-> p, ok |-> TRUE] \in returns'
        PROVE  Heard(down', rev', Len(down'))
    <3>1. [id |-> p, ok |-> TRUE] \in returns' => [id |-> p, ok |-> TRUE] \in returns
      <4>1. [id |-> p, ok |-> TRUE].ok
        OBVIOUS
      <4> QED
        BY <4>1 DEF Refused
    <3>2. p \in here
      BY <1>a, <2>1, <3>1
    <3> QED
      BY <1>0, <1>a, <1>m, <2>1, <3>1, <3>2 DEF AnswersHeard
  <2> QED
    BY <1>0, <1>m, <2>1 DEF AnswersHeard
<1>8. AnsweredOnce'
  BY <1>0, <1>m DEF AnsweredOnce, Refused
<1>9. Asked'
  BY <1>0, <1>m DEF Asked
<1>10. Submissions'
  <2>1. SUFFICES ASSUME NEW p \in Prompts
                 PROVE  /\ Linked' /\ status'[p] = "submitting" =>
                             \/ Underway(p)' \/ AnswerSent(p)'
                             \/ p \in here' /\ (Handled(p)' \/ Returned(p)' \/ p \in Ids(actor'.pend))
                        /\ Synced' /\ p \in Ids(actor'.pend) => status'[p] # "submitting"
                        /\ Synced' /\ status'[p] = "unknown" => p \notin waiting' /\ p \in Ids(actor'.pend)
    BY DEF Submissions
  <2>2. /\ Linked /\ status[p] = "submitting" =>
             \/ Underway(p) \/ AnswerSent(p)
             \/ p \in here /\ (Handled(p) \/ Returned(p) \/ p \in Ids(actor.pend))
        /\ Synced /\ p \in Ids(actor.pend) => status[p] # "submitting"
        /\ Synced /\ status[p] = "unknown" => p \notin waiting /\ p \in Ids(actor.pend)
    BY <1>m DEF Submissions
  <2>3. Underway(p) => Underway(p)' \/ (p \in here' /\ (Handled(p)' \/ Returned(p)'))
    <3>1. SUFFICES ASSUME NEW m \in ToSet(up), m.type = "prompt", m.id = p
                   PROVE  Underway(p)' \/ (p \in here' /\ (Handled(p)' \/ Returned(p)'))
      BY DEF Underway
    <3>2. m \in ToSet(up') \/ (m.id \in here' /\ (Handled(m.id)' \/ Returned(m.id)'))
      BY <3>1 DEF Accepted
    <3>3. CASE m \in ToSet(up')
      BY <3>1, <3>3 DEF Underway
    <3>4. CASE m.id \in here' /\ (Handled(m.id)' \/ Returned(m.id)')
      BY <3>1, <3>4 DEF Handled, Returned
    <3> QED
      BY <3>2, <3>3, <3>4
  <2>4. AnswerSent(p) => AnswerSent(p)'
    BY DEF AnswerSent
  <2> QED
    BY <1>0, <1>1, <1>a, <2>2, <2>3, <2>4
<1>11. CancelEnds'
  <2>1. ASSUME Linked, Has(up, "cancel"), ~ Has(up', "cancel"), ~ (stops' > 0)
        PROVE  rev = -1 /\ actor.rev = 0
    <3>1. ~ actor.on
      BY <2>1 DEF Has, Accepted
    <3> QED
      BY <2>1, <3>1, LinkedOn
  <2> QED
    BY <1>0, <1>1, <1>a, <1>m, <2>1 DEF CancelEnds
<1>12. MutationEnds'
  <2>1. Pending' <=> Pending
    BY <1>0 DEF Pending
  <2>2. ASSUME NEW m \in ToSet(up), Telling(m, entries) PROVE m \in ToSet(up')
    BY <1>5, <2>2 DEF Telling
  <2> QED
    BY <1>0, <1>1, <1>m, <2>1, <2>2 DEF MutationEnds
<1> QED
  BY <1>3, <1>4, <1>6, <1>7, <1>8, <1>9, <1>10, <1>11, <1>12 DEF MirrorInv

LEMMA HostMirror ==
    ASSUME ConvInv, ConvInv', MirrorInv, UNCHANGED <<desktop, conn, down>>, SameQueue,
           ToSet(up') \subseteq ToSet(up), \A m \in ToSet(up) : m \in ToSet(up') \/ Accepted(m),
           here \subseteq here', conn # "up" => here' = here,
           \A p \in here' \ here : p \notin Ids(actor.pend) /\ [id |-> p, ok |-> TRUE] \notin returns,
           \A p \in here : Handled(p) \/ Returned(p) => Handled(p)' \/ Returned(p)',
           \A a \in returns' : a \in returns \/ Refused(a),
           stops > 0 => stops' > 0
    PROVE  MirrorInv'
<1>1. UNCHANGED <<Mirrored, conn, down>>
  BY DEF desktop, Mirrored
<1> QED
  BY <1>1, MirrorStays

LEMMA RestsSame ==
    ASSUME MirrorInv, actor' = actor, actor.on \/ (prep' = {} /\ stops' = 0)
    PROVE  SameQueue
BY DEF MirrorInv, ActorRests, SameQueue

LEMMA DeliverPromptMirrors ==
    ASSUME ConvInv, ConvInv', MirrorInv, DeliverPrompt
    PROVE  MirrorInv'
<1>0. Types /\ SentOnce /\ up \in Seq(UpMsgs)
  BY DEF ConvInv, Types
<1>1. /\ UNCHANGED <<desktop, conn, down>> /\ up' = Tail(up) /\ up # <<>> /\ stops' = stops
      /\ actor' = actor /\ Head(up).type = "prompt" /\ conn = "up"
  BY DEF DeliverPrompt, HostUnchanged
<1>2. PICK m : m = Head(up)
  OBVIOUS
<1>3. PICK t : t = up'
  OBVIOUS
<1>4. /\ ToSet(up) = ToSet(t) \cup {m} /\ Shifted(t, up, 1) /\ t \in Seq(UpMsgs)
      /\ m = up[1] /\ m \in UpMsgs
  BY <1>0, <1>1, <1>2, <1>3, TakenSet
<1>5. m.id \in Prompts /\ m.type = "prompt"
  BY <1>1, <1>2, <1>4 DEF UpMsgs
<1>6. /\ Len(t) \in Nat /\ Len(up) \in Nat /\ Len(t) + 1 = Len(up)
      /\ \A k \in 1 .. Len(t) : t[k] = up[k + 1]
  BY <1>4 DEF Shifted
<1>7. 1 \in 1 .. Len(up) /\ \A k \in 1 .. Len(t) : k + 1 \in 1 .. Len(up) /\ k + 1 # 1
  BY <1>6
<1>8. Unseen(m.id) /\ status[m.id] # "new"
  BY <1>0, <1>4, <1>5, <1>7 DEF SentOnce
<1>9. \A n \in ToSet(t) : n.type = "prompt" => n.id # m.id
  <2>1. \A k \in 1 .. Len(t) : t[k].type = "prompt" => t[k].id # m.id
    BY <1>0, <1>4, <1>5, <1>6, <1>7 DEF SentOnce
  <2>2. ToSet(t) = Elements(t)
    BY <1>4, MessageSet
  <2> QED
    BY <2>1, <2>2 DEF Elements
<1>10. here' = here \cup {m.id}
  BY <1>2 DEF DeliverPrompt
<1>11. \/ actor.on /\ prep' = prep \cup {[id |-> m.id, now |-> m.now]} /\ returns' = returns
       \/ prep' = prep /\ returns' = returns \cup {[id |-> m.id, ok |-> FALSE]}
  BY <1>2 DEF DeliverPrompt
<1>12. Handled(m.id)' \/ Returned(m.id)'
  <2>1. [id |-> m.id, now |-> m.now].id = m.id /\ [id |-> m.id, ok |-> FALSE].id = m.id
    OBVIOUS
  <2> QED
    BY <1>11, <2>1 DEF Handled, Returned
<1>13. SameQueue
  BY <1>1, <1>11, RestsSame DEF MirrorInv, ActorRests
<1>14. ToSet(up') \subseteq ToSet(up) /\ \A n \in ToSet(up) : n \in ToSet(up') \/ n = m
  BY <1>3, <1>4
<1>15. Accepted(m)
  BY <1>5, <1>10, <1>12 DEF Accepted
<1>16. \A p \in here' \ here : p \notin Ids(actor.pend) /\ [id |-> p, ok |-> TRUE] \notin returns
  <2>1. m.id \notin Ids(actor.pend)
    BY <1>8 DEF Unseen
  <2>2. \A a \in returns : a.id # m.id
    BY <1>4, <1>5 DEF MirrorInv, AnsweredOnce
  <2>3. [id |-> m.id, ok |-> TRUE].id = m.id
    OBVIOUS
  <2>4. [id |-> m.id, ok |-> TRUE] \notin returns
    BY <2>2, <2>3
  <2> QED
    BY <1>10, <2>1, <2>4
<1>17. \A p \in here : Handled(p) \/ Returned(p) => Handled(p)' \/ Returned(p)'
  BY <1>11 DEF Handled, Returned
<1>18. \A a \in returns' : a \in returns \/ Refused(a)
  <2>1. Refused([id |-> m.id, ok |-> FALSE])
    BY <1>3, <1>8, <1>9 DEF Refused
  <2> QED
    BY <1>11, <2>1
<1> QED
  BY <1>1, <1>10, <1>13, <1>14, <1>15, <1>16, <1>17, <1>18, HostMirror

LEMMA PrepareFailsMirrors ==
    ASSUME ConvInv, ConvInv', MirrorInv, NEW h, PrepareFails(h)
    PROVE  MirrorInv'
<1>0. Types /\ SentOnce /\ up \in Seq(UpMsgs)
  BY DEF ConvInv, Types
<1>1. /\ UNCHANGED <<desktop, conn, down>> /\ up' = up /\ stops' = stops /\ actor' = actor /\ here' = here
      /\ h \in prep /\ prep' = prep \ {h} /\ returns' = returns \cup {[id |-> h.id, ok |-> FALSE]}
  BY DEF PrepareFails, HostUnchanged
<1>2. status[h.id] # "new" /\ \A m \in ToSet(up) : m.type = "prompt" => m.id # h.id
  <2>1. ToSet(up) = Elements(up)
    BY <1>0, MessageSet
  <2> QED
    BY <1>0, <1>1, <2>1 DEF SentOnce, Elements
<1>3. Refused([id |-> h.id, ok |-> FALSE])
  BY <1>1, <1>2 DEF Refused
<1>4. SameQueue
  BY <1>1, RestsSame DEF MirrorInv, ActorRests
<1>5. \A p \in here : Handled(p) \/ Returned(p) => Handled(p)' \/ Returned(p)'
  <2>1. [id |-> h.id, ok |-> FALSE].id = h.id
    OBVIOUS
  <2>2. Returned(h.id)'
    BY <1>1, <2>1 DEF Returned
  <2> QED
    BY <1>1, <2>2 DEF Handled, Returned
<1> QED
  BY <1>1, <1>3, <1>4, <1>5, HostMirror

LEMMA DeliverCancelMirrors ==
    ASSUME ConvInv, ConvInv', MirrorInv, DeliverCancel
    PROVE  MirrorInv'
<1>0. up \in Seq(UpMsgs) /\ stops \in Nat
  BY DEF ConvInv, Types
<1>1. /\ UNCHANGED <<desktop, conn, down>> /\ up' = Tail(up) /\ up # <<>> /\ here' = here
      /\ prep' = prep /\ returns' = returns /\ actor' = actor
      /\ stops' = (IF actor.on THEN stops + 1 ELSE stops) /\ Head(up).type = "cancel"
  BY DEF DeliverCancel, HostUnchanged
<1>2. PICK m : m = Head(up)
  OBVIOUS
<1>3. ToSet(up) = ToSet(up') \cup {m}
  <2>1. PICK t : t = up'
    OBVIOUS
  <2>2. ToSet(up) = ToSet(t) \cup {Head(up)}
    BY <1>0, <1>1, <2>1, TakenSet
  <2> QED
    BY <1>2, <2>1, <2>2
<1>4. (actor.on => stops' > 0) /\ (stops > 0 => stops' > 0)
  BY <1>0, <1>1
<1>5. Accepted(m)
  BY <1>1, <1>2, <1>4 DEF Accepted
<1>6. SameQueue
  BY <1>1, RestsSame DEF MirrorInv, ActorRests
<1>7. \A p \in here : Handled(p) \/ Returned(p) => Handled(p)' \/ Returned(p)'
  BY <1>1 DEF Handled, Returned
<1> QED
  BY <1>1, <1>3, <1>4, <1>5, <1>6, <1>7, HostMirror

\* Nothing happens but to the actor.
LEMMA ActorOnlyMirrors ==
    ASSUME ConvInv, ConvInv', MirrorInv, UNCHANGED <<desktop, conn, up, down, here, prep, stops, returns>>,
           SameQueue
    PROVE  MirrorInv'
<1>1. \A p \in here : Handled(p) \/ Returned(p) => Handled(p)' \/ Returned(p)'
  BY DEF Handled, Returned
<1>2. /\ ToSet(up') \subseteq ToSet(up) /\ (\A m \in ToSet(up) : m \in ToSet(up') \/ Accepted(m))
      /\ here \subseteq here' /\ (conn # "up" => here' = here) /\ here' \ here = {}
      /\ (\A a \in returns' : a \in returns \/ Refused(a))
      /\ (stops > 0 => stops' > 0)
  OBVIOUS
<1> QED
  BY <1>1, <1>2, HostMirror

LEMMA FinishMirrors ==
    ASSUME ConvInv, ConvInv', MirrorInv, NEW t, Finish(t)
    PROVE  MirrorInv'
<1>0. actor \in Actors /\ ActorRests
  BY DEF ConvInv, Types, MirrorInv
<1>1. /\ UNCHANGED <<desktop, conn, up, down, here, prep, stops, returns>> /\ t \in actor.live
      /\ actor' = [actor EXCEPT !.live = @ \ {t}, !.done = Append(@, t)]
  BY DEF Finish, HostUnchanged
<1>2. actor.rev # 0
  BY <1>0, <1>1 DEF ActorRests
<1>3. actor.on
  BY <1>0, <1>2 DEF ActorRests
<1>4. /\ actor'.pend = actor.pend /\ actor'.task = actor.task /\ actor'.rev = actor.rev
      /\ actor'.out = actor.out /\ actor'.replied = actor.replied /\ actor'.on = actor.on
  BY <1>0, <1>1 DEF Actors
<1>5. SameQueue
  BY <1>0, <1>2, <1>3, <1>4 DEF SameQueue, ActorRests
<1> QED
  BY <1>1, <1>5, ActorOnlyMirrors

LEMMA RestoreMirrors ==
    ASSUME ConvInv, ConvInv', MirrorInv, Restore
    PROVE  MirrorInv'
<1>0. actor \in Actors /\ ActorRests
  BY DEF ConvInv, Types, MirrorInv
<1>1. /\ UNCHANGED <<desktop, conn, up, down, here, prep, stops, returns>>
      /\ actor' = [actor EXCEPT !.on = TRUE]
  BY DEF Restore, wire
<1>2. /\ actor'.pend = actor.pend /\ actor'.task = actor.task /\ actor'.rev = actor.rev
      /\ actor'.out = actor.out /\ actor'.replied = actor.replied /\ actor'.on
      /\ actor'.done = actor.done /\ actor'.live = actor.live
  BY <1>0, <1>1 DEF Actors
<1>3. SameQueue
  BY <1>0, <1>2 DEF SameQueue, ActorRests
<1> QED
  BY <1>1, <1>3, ActorOnlyMirrors

LEMMA RevalidateMirrors ==
    ASSUME ConvInv, ConvInv', MirrorInv, Revalidate
    PROVE  MirrorInv'
<1>1. UNCHANGED <<desktop, conn, up, down, here, prep, stops, returns>> /\ actor' = actor
  BY DEF Revalidate, wire
<1>2. SameQueue
  BY <1>1, RestsSame DEF MirrorInv, ActorRests
<1> QED
  BY <1>1, <1>2, ActorOnlyMirrors

LEMMA UnchangedMirrors ==
    ASSUME ConvInv, ConvInv', MirrorInv, UNCHANGED vars
    PROVE  MirrorInv'
<1>1. UNCHANGED <<desktop, conn, up, down, here, prep, stops, returns>> /\ actor' = actor
  BY DEF vars, wire, host
<1>2. SameQueue
  BY <1>1, RestsSame DEF MirrorInv, ActorRests
<1> QED
  BY <1>1, <1>2, ActorOnlyMirrors

LEMMA PreparationMirrors ==
    ASSUME ConvInv, ConvInv', MirrorInv, NEW x \in Prompts, Prepare(x) \/ PreparationFails(x)
    PROVE  MirrorInv'
<1>1. UNCHANGED <<Mirrored, conn, up, down, here, prep, stops, returns>> /\ actor' = actor
  BY DEF Prepare, PreparationFails, Mirrored, wire, host
<1>2. SameQueue
  BY <1>1, RestsSame DEF MirrorInv, ActorRests
<1>3. \A p \in here : Handled(p) \/ Returned(p) => Handled(p)' \/ Returned(p)'
  BY <1>1 DEF Handled, Returned
<1>4. /\ ToSet(up') \subseteq ToSet(up) /\ (\A m \in ToSet(up) : m \in ToSet(up') \/ Accepted(m))
      /\ here \subseteq here' /\ (conn # "up" => here' = here) /\ here' \ here = {}
      /\ (\A a \in returns' : a \in returns \/ Refused(a))
      /\ (stops > 0 => stops' > 0)
  BY <1>1
<1> QED
  BY <1>1, <1>2, <1>3, <1>4, MirrorStays

\* The Host sends an answer or the result of a load.
LEMMA HostSays ==
    ASSUME ConvInv, ConvInv', MirrorInv, UNCHANGED <<desktop, conn, here, prep, stops>>, conn = "up",
           NEW m \in DownMsgs, m.type \in {"answer", "loaded"}, down' = Append(down, m), SameQueue,
           m.type = "loaded" /\ m.ok => actor'.on,
           m.type = "answer" /\ m.ok => Heard(down, rev, Len(down)),
           ToSet(up') \subseteq ToSet(up),
           \A n \in ToSet(up) : n \in ToSet(up') \/ (n.type = "load" /\ m.type = "loaded"),
           returns' \subseteq returns,
           \A a \in returns : a \in returns' \/ (m.type = "answer" /\ m.id = a.id)
    PROVE  MirrorInv'
<1>0. /\ UNCHANGED <<rev, entries, running, status, waiting, mutation, cancel, recover>>
      /\ down \in Seq(DownMsgs) /\ conn' = conn /\ here' = here /\ prep' = prep /\ stops' = stops
  BY DEF desktop, ConvInv, Types
<1>m. /\ ActorRests /\ Mirrors /\ SyncComes /\ AnswersHeard /\ AnsweredOnce /\ Asked
      /\ Submissions /\ CancelEnds /\ MutationEnds
  BY DEF MirrorInv
<1>a. /\ actor'.pend = actor.pend /\ actor'.task = actor.task /\ actor'.rev = actor.rev
      /\ actor'.out = <<>> /\ actor'.replied = {} /\ (actor.on => actor'.on)
      /\ actor.rev = 0 => actor'.done = <<>> /\ actor'.live = {}
      /\ ~ actor'.on => prep' = {} /\ stops' = 0
  BY DEF SameQueue
<1>t. PICK t : t = down'
  OBVIOUS
<1>b. PICK b : b = actor'
  OBVIOUS
<1>d. /\ Grown(t, down) /\ Len(t) = Len(down) + 1 /\ t[Len(down) + 1] = m
      /\ ToSet(t) = ToSet(down) \cup {m} /\ Len(down) \in Nat
  <2>1. Added(t, down, m)
    BY <1>0, <1>t, AddedSet
  <2> QED
    BY <2>1 DEF Added, Grown
<1>n. \A k \in 1 .. Len(t) : k > Len(down) => k = Len(down) + 1 /\ t[k] = m
  BY <1>d
<1>1. ToSet(down') = ToSet(down) \cup {m}
  BY <1>d, <1>t
<1>2. (Has(down', "reconnected") <=> Has(down, "reconnected")) /\ (Has(down', "queue") <=> Has(down, "queue"))
  BY <1>1 DEF Has
<1>3. (Linked' <=> Linked) /\ (Synced' <=> Synced)
  BY <1>0, <1>2 DEF Linked, Synced
<1>4. QueueWire(actor') = QueueWire(actor)
  <2>1. QueueWire(b) = QueueWire(actor)
    BY <1>a, <1>b, WireSame
  <2> QED
    BY <1>b, <2>1
<1>5. ActorRests'
  BY <1>a, <1>m DEF ActorRests
<1>6. Mirrors'
  <2>1. Line(down', actor')
    <3>1. Line(down, actor)
      BY <1>m DEF Mirrors
    <3>2. Line(down, b)
      BY <1>a, <1>b, <3>1, LineSame
    <3>3. t = Append(down, m) /\ (m.type = "loaded" /\ m.ok => b.on)
      BY <1>b, <1>t
    <3>4. Line(t, b)
      BY <1>0, <3>2, <3>3, LineAppend
    <3> QED
      BY <1>b, <1>t, <3>4
  <2>2. Synced' => Shows(entries', running', actor')
    BY <1>0, <1>3, <1>4, <1>a, <1>m DEF Mirrors, Shows
  <2>3. Linked' => /\ rev' = -1 \/ (1 <= rev' /\ rev' <= actor'.rev)
                   /\ \A n \in ToSet(down') : n.type = "queue" => rev' < n.rev
    BY <1>0, <1>1, <1>3, <1>a, <1>m DEF Mirrors
  <2> QED
    BY <2>1, <2>2, <2>3 DEF Mirrors
<1>7. SyncComes'
  <2>1. Has(up, "load") => Has(up', "load") \/ Has(down', "loaded")
    BY <1>1 DEF Has
  <2>2. (Has(up, "reorder") => Has(up', "reorder")) /\ (Has(down, "loaded") => Has(down', "loaded"))
    BY <1>1 DEF Has
  <2> QED
    BY <1>0, <1>2, <1>3, <1>a, <1>m, <2>1, <2>2 DEF SyncComes
<1>8. AnswersHeard'
  <2>1. Preceded(t, rev)
    <3>1. Preceded(down, rev)
      BY <1>m DEF AnswersHeard
    <3>2. ASSUME NEW k \in 1 .. Len(t), k > Len(down), t[k].type = "answer", t[k].ok
          PROVE  Heard(t, rev, k - 1)
      <4>1. t[k] = m /\ k - 1 = Len(down)
        BY <1>d, <1>n, <3>2
      <4>2. Heard(down, rev, Len(down))
        BY <3>2, <4>1
      <4>3. \A i \in 1 .. Len(down) : t[i] = down[i]
        BY <1>d DEF Grown
      <4>4. Heard(t, rev, Len(down))
        BY <4>2, <4>3, HeardSame
      <4> QED
        BY <4>1, <4>4
    <3> QED
      BY <1>d, <3>1, <3>2, PrecededGrown
  <2>2. ASSUME NEW p \in here', p \in Ids(actor'.pend) \/ [id |-> p, ok |-> TRUE] \in returns'
        PROVE  Heard(t, rev, Len(t))
    <3>1. Heard(down, rev, Len(down))
      BY <1>0, <1>a, <1>m, <2>2 DEF AnswersHeard
    <3>2. \A k \in 1 .. Len(t) : k > Len(down) => t[k].type # "reconnected"
      BY <1>n
    <3> QED
      BY <1>d, <3>1, <3>2, HeardGrown
  <2> QED
    BY <1>0, <1>m, <1>t, <2>1, <2>2 DEF AnswersHeard
<1>9. AnsweredOnce' /\ Asked'
  BY <1>0, <1>m DEF AnsweredOnce, Asked
<1>10. Submissions'
  <2>1. SUFFICES ASSUME NEW p \in Prompts
                 PROVE  /\ Linked' /\ status'[p] = "submitting" =>
                             \/ Underway(p)' \/ AnswerSent(p)'
                             \/ p \in here' /\ (Handled(p)' \/ Returned(p)' \/ p \in Ids(actor'.pend))
                        /\ Synced' /\ p \in Ids(actor'.pend) => status'[p] # "submitting"
                        /\ Synced' /\ status'[p] = "unknown" => p \notin waiting' /\ p \in Ids(actor'.pend)
    BY DEF Submissions
  <2>2. /\ Linked /\ status[p] = "submitting" =>
             \/ Underway(p) \/ AnswerSent(p)
             \/ p \in here /\ (Handled(p) \/ Returned(p) \/ p \in Ids(actor.pend))
        /\ Synced /\ p \in Ids(actor.pend) => status[p] # "submitting"
        /\ Synced /\ status[p] = "unknown" => p \notin waiting /\ p \in Ids(actor.pend)
    BY <1>m DEF Submissions
  <2>3. Underway(p) => Underway(p)'
    BY DEF Underway
  <2>4. AnswerSent(p) => AnswerSent(p)'
    BY <1>1 DEF AnswerSent
  <2>5. Returned(p) => Returned(p)' \/ AnswerSent(p)'
    BY <1>1 DEF Returned, AnswerSent
  <2>6. Handled(p) => Handled(p)'
    BY <1>0 DEF Handled
  <2> QED
    BY <1>0, <1>3, <1>a, <2>2, <2>3, <2>4, <2>5, <2>6
<1>11. CancelEnds'
  <2>1. Has(up, "cancel") => Has(up', "cancel")
    BY DEF Has
  <2>2. \A n \in ToSet(down) : n \in ToSet(down')
    BY <1>1
  <2> QED
    BY <1>0, <1>3, <1>a, <1>m, <2>1, <2>2 DEF CancelEnds
<1>12. MutationEnds'
  <2>1. Pending' <=> Pending
    BY <1>0 DEF Pending
  <2>2. ASSUME NEW n \in ToSet(up), Telling(n, entries) PROVE n \in ToSet(up')
    BY <2>2 DEF Telling
  <2> QED
    BY <1>0, <1>2, <1>3, <1>m, <2>1, <2>2 DEF MutationEnds
<1> QED
  BY <1>5, <1>6, <1>7, <1>8, <1>9, <1>10, <1>11, <1>12 DEF MirrorInv

LEMMA DeliverLoadMirrors ==
    ASSUME ConvInv, ConvInv', MirrorInv, DeliverLoad
    PROVE  MirrorInv'
<1>0. up \in Seq(UpMsgs) /\ actor \in Actors /\ access \in BOOLEAN /\ ActorRests
  BY DEF ConvInv, Types, MirrorInv
<1>1. /\ UNCHANGED <<desktop, conn, here, prep, stops, returns>> /\ conn = "up" /\ up # <<>>
      /\ up' = Tail(up) /\ Head(up).type = "load" /\ actor' = [actor EXCEPT !.on = @ \/ access]
      /\ down' = Append(down, [type |-> "loaded", ok |-> access])
  BY DEF DeliverLoad, HostUnchanged
<1>2. PICK m : m = [type |-> "loaded", ok |-> access]
  OBVIOUS
<1>3. m \in DownMsgs /\ m.type = "loaded" /\ m.ok = access
  BY <1>0, <1>2 DEF DownMsgs
<1>4. /\ actor'.pend = actor.pend /\ actor'.task = actor.task /\ actor'.rev = actor.rev
      /\ actor'.out = actor.out /\ actor'.replied = actor.replied /\ actor'.on = (actor.on \/ access)
      /\ actor'.done = actor.done /\ actor'.live = actor.live
  BY <1>0, <1>1 DEF Actors
<1>5. SameQueue
  BY <1>0, <1>1, <1>4 DEF SameQueue, ActorRests
<1>6. ToSet(up) = ToSet(up') \cup {Head(up)}
  <2>1. PICK t : t = up'
    OBVIOUS
  <2>2. ToSet(up) = ToSet(t) \cup {Head(up)}
    BY <1>0, <1>1, <2>1, TakenSet
  <2> QED
    BY <2>1, <2>2
<1>7. ToSet(up') \subseteq ToSet(up) /\ \A n \in ToSet(up) : n \in ToSet(up') \/ n.type = "load"
  BY <1>1, <1>6
<1> QED
  BY <1>1, <1>2, <1>3, <1>4, <1>5, <1>7, HostSays

LEMMA ReplyMirrors ==
    ASSUME ConvInv, ConvInv', MirrorInv, NEW a, Reply(a)
    PROVE  MirrorInv'
<1>0. returns \subseteq [id : Prompts, ok : BOOLEAN]
  BY DEF ConvInv, Types
<1>1. /\ UNCHANGED <<desktop, conn, up, here, prep, stops, actor>> /\ a \in returns
      /\ returns' = returns \ {a}
      /\ down' = IF a.id \in here THEN Append(down, [type |-> "answer", id |-> a.id, ok |-> a.ok])
                 ELSE down
  BY DEF Reply, HostUnchanged
<1>2. SameQueue
  BY <1>1, RestsSame DEF MirrorInv, ActorRests
<1>3. CASE a.id \in here
  <2>1. PICK m : m = [type |-> "answer", id |-> a.id, ok |-> a.ok]
    OBVIOUS
  <2>2. a.id \in Prompts /\ a.ok \in BOOLEAN
    BY <1>0, <1>1
  <2>3. m \in DownMsgs /\ m.type = "answer" /\ m.id = a.id /\ m.ok = a.ok /\ down' = Append(down, m)
    BY <1>1, <1>3, <2>1, <2>2 DEF DownMsgs
  <2>4. conn = "up"
    BY <1>3 DEF MirrorInv, AnswersHeard
  <2>5. ASSUME a.ok PROVE Heard(down, rev, Len(down))
    <3>1. a = [id |-> a.id, ok |-> TRUE]
      BY <1>0, <1>1, <2>2, <2>5
    <3>2. [id |-> a.id, ok |-> TRUE] \in returns
      BY <1>1, <3>1
    <3> QED
      BY <1>3, <3>2 DEF MirrorInv, AnswersHeard
  <2>6. \A o \in returns : o \in returns' \/ m.id = o.id
    BY <1>1, <2>3
  <2> QED
    BY <1>1, <1>2, <2>3, <2>4, <2>5, <2>6, HostSays
<1>4. CASE a.id \notin here
  <2>1. UNCHANGED <<desktop, conn, down>>
    BY <1>1, <1>4
  <2>2. \A p \in here : Handled(p) \/ Returned(p) => Handled(p)' \/ Returned(p)'
    BY <1>1, <1>4 DEF Handled, Returned
  <2> QED
    BY <1>1, <1>2, <2>1, <2>2, HostMirror
<1> QED
  BY <1>3, <1>4

-----------------------------------------------------------------------------
(* The connection *)

\* A desktop that no longer hears the actor.
LEMMA UnlinkedMirrors ==
    ASSUME ConvInv, ConvInv', MirrorInv, UNCHANGED desktop, ~ Linked', ActorRests',
           conn' = "up" => Line(down', actor'), Preceded(down', rev'), here' = {},
           returns' \subseteq returns, ToSet(up') \subseteq ToSet(up)
    PROVE  MirrorInv'
<1>0. UNCHANGED <<rev, entries, running, status, waiting, mutation, cancel, recover>>
  BY DEF desktop
<1>m. AnsweredOnce /\ Asked /\ MutationEnds
  BY DEF MirrorInv
<1>1. ~ Synced'
  BY DEF Synced
<1>2. Mirrors' /\ SyncComes' /\ CancelEnds' /\ Submissions'
  BY <1>1 DEF Mirrors, SyncComes, CancelEnds, Submissions
<1>3. AnswersHeard'
  BY DEF AnswersHeard
<1>4. AnsweredOnce' /\ Asked'
  BY <1>0, <1>m DEF AnsweredOnce, Asked
<1>5. MutationEnds'
  BY <1>0, <1>m DEF MutationEnds, Pending
<1> QED
  BY <1>2, <1>3, <1>4, <1>5 DEF MirrorInv

LEMMA DropMirrors ==
    ASSUME ConvInv, ConvInv', MirrorInv, Drop
    PROVE  MirrorInv'
<1>0. up \in Seq(UpMsgs) /\ down \in Seq(DownMsgs) /\ ActorRests
  BY DEF ConvInv, Types, MirrorInv
<1>1. conn' = "down" /\ here' = {} /\ UNCHANGED desktop /\ up' \in Suffixes(up) /\ down' \in Prefixes(down)
  BY DEF Drop
<1>2. ~ Linked' /\ conn' # "up"
  BY <1>1 DEF Linked
<1>3. ToSet(up') \subseteq ToSet(up)
  <2>1. PICK t \in Suffixes(up) : t = up'
    BY <1>1
  <2>2. ToSet(t) \subseteq ToSet(up)
    BY <1>0, SuffixSet
  <2> QED
    BY <2>1, <2>2
<1>4. Preceded(down', rev')
  <2>1. PICK t \in Prefixes(down) : t = down'
    BY <1>1
  <2>2. Grown(down, t)
    BY <1>0, PrefixGrown
  <2>3. Preceded(down, rev)
    BY DEF MirrorInv, AnswersHeard
  <2>4. Preceded(t, rev)
    BY <2>2, <2>3, PrecededPrefix
  <2> QED
    BY <1>1, <2>1, <2>4 DEF desktop
<1>5. \/ UNCHANGED host
      \/ prep' = {} /\ stops' = 0 /\ returns' = {} /\ actor' = [NoActor EXCEPT !.starts = actor.starts]
  BY DEF Drop
<1>6. ActorRests' /\ returns' \subseteq returns
  <2>1. CASE UNCHANGED host
    BY <1>0, <2>1 DEF host, ActorRests
  <2>2. CASE prep' = {} /\ stops' = 0 /\ returns' = {} /\ actor' = [NoActor EXCEPT !.starts = actor.starts]
    <3>1. /\ actor'.on = FALSE /\ actor'.pend = <<>> /\ actor'.task = None /\ actor'.live = {}
          /\ actor'.done = <<>> /\ actor'.rev = 0 /\ actor'.out = <<>> /\ actor'.replied = {}
      BY <2>2 DEF NoActor
    <3> QED
      BY <2>2, <3>1 DEF ActorRests
  <2> QED
    BY <1>5, <2>1, <2>2
<1> QED
  BY <1>1, <1>2, <1>3, <1>4, <1>6, UnlinkedMirrors

LEMMA ReconnectMirrors ==
    ASSUME ConvInv, ConvInv', MirrorInv, Reconnect
    PROVE  MirrorInv'
<1>1. /\ conn = "down" /\ conn' = "replay" /\ UNCHANGED <<desktop, up, down, here>>
      /\ prep' = prep /\ stops' = stops /\ returns' = returns /\ actor' = actor
  BY DEF Reconnect, host
<1>2. ~ Linked' /\ conn' # "up"
  BY <1>1 DEF Linked
<1>3. ActorRests' /\ Preceded(down', rev') /\ here' = {}
  BY <1>1 DEF MirrorInv, ActorRests, AnswersHeard, desktop
<1> QED
  BY <1>1, <1>2, <1>3, UnlinkedMirrors

LEMMA AnnounceMirrors ==
    ASSUME ConvInv, ConvInv', MirrorInv, Announce
    PROVE  MirrorInv'
<1>0. down \in Seq(DownMsgs)
  BY DEF ConvInv, Types
<1>1. /\ conn = "replay" /\ conn' = "up" /\ UNCHANGED <<desktop, up, here>> /\ rev' = rev
      /\ prep' = prep /\ stops' = stops /\ returns' = returns /\ actor' = actor
      /\ down' = Append(down, [type |-> "reconnected"])
  BY DEF Announce, host, desktop
<1>2. PICK m : m = [type |-> "reconnected"]
  OBVIOUS
<1>3. PICK t : t = down'
  OBVIOUS
<1>4. m \in DownMsgs /\ m.type = "reconnected" /\ t = Append(down, m)
  BY <1>1, <1>2, <1>3 DEF DownMsgs
<1>5. Added(t, down, m)
  BY <1>0, <1>4, AddedSet
<1>6. ~ Linked'
  BY <1>3, <1>4, <1>5 DEF Linked, Has, Added
<1>7. Line(t, actor)
  BY <1>0, <1>4, LineMarked
<1>8. Preceded(t, rev)
  <2>1. Grown(t, down) /\ Len(t) = Len(down) + 1 /\ t[Len(down) + 1] = m /\ Len(down) \in Nat
    BY <1>5 DEF Added, Grown
  <2>2. \A k \in 1 .. Len(t) : k > Len(down) => t[k].type # "answer"
    BY <1>4, <2>1
  <2>3. Preceded(down, rev)
    BY DEF MirrorInv, AnswersHeard
  <2> QED
    BY <2>1, <2>2, <2>3, PrecededGrown
<1>9. ActorRests' /\ here' = {}
  BY <1>1 DEF MirrorInv, ActorRests, AnswersHeard
<1> QED
  BY <1>1, <1>3, <1>6, <1>7, <1>8, <1>9, UnlinkedMirrors

-----------------------------------------------------------------------------
(* What the user does *)

LEMMA SentSet ==
    ASSUME ConvInv, NEW m \in UpMsgs, Send(m)
    PROVE  ToSet(up') = ToSet(up) \cup {m}
<1>1. PICK t : t = up'
  OBVIOUS
<1>2. up \in Seq(UpMsgs) /\ t = Append(up, m)
  BY <1>1 DEF ConvInv, Types, Send
<1>3. Added(t, up, m)
  BY <1>2, AddedSet
<1> QED
  BY <1>1, <1>3 DEF Added

\* A new submission, or none.
Submits(m) ==
    /\ \A p \in Prompts : status'[p] # status[p] =>
         status[p] = "new" /\ status'[p] = "submitting" /\ m.type = "prompt" /\ m.id = p
    /\ m.type = "prompt" => status[m.id] = "new" /\ status'[m.id] # "new"
    /\ waiting \subseteq waiting' /\ \A p \in waiting' : p \in waiting \/ status'[p] = "submitting"

\* A new operation on the queue that message m tells the actor, or none.
Operates(m) ==
    \/ mutation' = mutation
    \/ mutation' \in Mutations /\ mutation'.base = rev /\ rev >= 0 /\ Telling(m, entries)

LEMMA UserMirror ==
    ASSUME ConvInv, ConvInv', MirrorInv, UNCHANGED <<rev, entries, running, conn, down, here, host>>,
           NEW m \in UpMsgs, Send(m), Submits(m), Operates(m),
           recover = "failed" => recover' = "failed" \/ m.type = "load",
           cancel'.on => cancel.on \/ m.type = "cancel",
           \A p \in Prompts : status'[p] = "submitting" => p \in waiting'
    PROVE  MirrorInv'
<1>0. /\ UNCHANGED <<prep, stops, returns, actor>> /\ SentOnce /\ waiting \subseteq Prompts
      /\ waiting' \subseteq Prompts
      /\ returns \subseteq [id : Prompts, ok : BOOLEAN] /\ ToSet(up) \subseteq UpMsgs
  <2>1. up \in Seq(UpMsgs)
    BY DEF ConvInv, Types
  <2>2. ToSet(up) \subseteq UpMsgs
    BY <2>1, MessageSet
  <2> QED
    BY <2>2 DEF host, ConvInv, Types
<1>m. /\ ActorRests /\ Mirrors /\ SyncComes /\ AnswersHeard /\ AnsweredOnce /\ Asked
      /\ Submissions /\ CancelEnds /\ MutationEnds
  BY DEF MirrorInv
<1>u. ToSet(up') = ToSet(up) \cup {m}
  BY SentSet
<1>1. (Linked' <=> Linked) /\ (Synced' <=> Synced)
  BY DEF Linked, Synced
<1>2. ActorRests' /\ Mirrors' /\ AnswersHeard'
  BY <1>0, <1>1, <1>m DEF ActorRests, Mirrors, AnswersHeard
<1>3. SyncComes'
  <2>1. \A n \in ToSet(up) : n \in ToSet(up')
    BY <1>u
  <2>2. (Has(up, "load") => Has(up', "load")) /\ (Has(up, "reorder") => Has(up', "reorder"))
    BY <2>1 DEF Has
  <2>3. m.type = "load" => Has(up', "load")
    BY <1>u DEF Has
  <2> QED
    BY <1>0, <1>1, <1>m, <2>2, <2>3 DEF SyncComes
<1>4. AnsweredOnce'
  <2>1. \A a \in returns : a.id \in Prompts /\ status[a.id] # "new" /\ status'[a.id] # "new"
    BY <1>0, <1>m DEF AnsweredOnce, Submits
  <2>2. \A a \in returns, n \in ToSet(up') : n.type = "prompt" => n.id # a.id
    BY <1>m, <1>u, <2>1 DEF AnsweredOnce, Submits
  <2> QED
    BY <1>0, <2>1, <2>2 DEF AnsweredOnce
<1>5. Asked'
  <2>1. \A p \in waiting' : status'[p] # "new"
    BY <1>0, <1>m DEF Asked, Submits
  <2>2. \A p \in Prompts : status'[p] \in {"queued", "running"} => p \in Live(entries', running')
    BY <1>m DEF Asked, Submits
  <2> QED
    BY <2>1, <2>2 DEF Asked
<1>6. Submissions'
  <2>1. SUFFICES ASSUME NEW p \in Prompts
                 PROVE  /\ Linked' /\ status'[p] = "submitting" =>
                             \/ Underway(p)' \/ AnswerSent(p)'
                             \/ p \in here' /\ (Handled(p)' \/ Returned(p)' \/ p \in Ids(actor'.pend))
                        /\ Synced' /\ p \in Ids(actor'.pend) => status'[p] # "submitting"
                        /\ Synced' /\ status'[p] = "unknown" => p \notin waiting' /\ p \in Ids(actor'.pend)
    BY DEF Submissions
  <2>2. /\ Linked /\ status[p] = "submitting" =>
             \/ Underway(p) \/ AnswerSent(p)
             \/ p \in here /\ (Handled(p) \/ Returned(p) \/ p \in Ids(actor.pend))
        /\ Synced /\ p \in Ids(actor.pend) => status[p] # "submitting"
        /\ Synced /\ status[p] = "unknown" => p \notin waiting /\ p \in Ids(actor.pend)
    BY <1>m DEF Submissions
  <2>3. (Underway(p) => Underway(p)') /\ (AnswerSent(p) => AnswerSent(p)')
        /\ (Handled(p) => Handled(p)') /\ (Returned(p) => Returned(p)')
    BY <1>0, <1>u DEF Underway, AnswerSent, Handled, Returned
  <2>4. CASE status'[p] = status[p]
    <3>1. p \in waiting' => p \in waiting \/ status'[p] = "submitting"
      BY DEF Submits
    <3> QED
      BY <1>0, <1>1, <2>2, <2>3, <2>4, <3>1
  <2>5. CASE status'[p] # status[p]
    <3>1. status[p] = "new" /\ status'[p] = "submitting" /\ m.type = "prompt" /\ m.id = p
      BY <2>5 DEF Submits
    <3>2. Underway(p)'
      BY <1>u, <3>1 DEF Underway
    <3>3. p \notin Ids(actor.pend)
      BY <1>0, <3>1 DEF SentOnce, Unseen
    <3> QED
      BY <1>0, <3>1, <3>2, <3>3
  <2> QED
    BY <2>4, <2>5
<1>7. CancelEnds'
  <2>1. (Has(up, "cancel") \/ m.type = "cancel") => Has(up', "cancel")
    BY <1>u DEF Has
  <2> QED
    BY <1>0, <1>1, <1>m, <2>1 DEF CancelEnds
<1>8. MutationEnds'
  <2>1. CASE mutation' = mutation
    <3>1. Pending' <=> Pending
      BY <2>1 DEF Pending
    <3>2. \A n \in ToSet(up) : n \in ToSet(up')
      BY <1>u
    <3> QED
      BY <1>1, <1>m, <2>1, <3>1, <3>2 DEF MutationEnds
  <2>2. CASE mutation' \in Mutations /\ mutation'.base = rev /\ rev >= 0 /\ Telling(m, entries)
    <3>1. \E n \in ToSet(up') : Telling(n, entries')
      BY <1>u, <2>2
    <3> QED
      BY <2>2, <3>1 DEF MutationEnds
  <2> QED
    BY <2>1, <2>2 DEF Operates
<1> QED
  BY <1>2, <1>3, <1>4, <1>5, <1>6, <1>7, <1>8 DEF MirrorInv

LEMMA SubmitMirrors ==
    ASSUME ConvInv, ConvInv', Drafted, MirrorInv, NEW x \in Prompts, NEW now \in BOOLEAN,
           Submit(x, now)
    PROVE  MirrorInv'
<1>0. status \in [Prompts -> {"new", "submitting", "queued", "running", "unknown", "over"}]
  BY DEF ConvInv, Types
<1>1. PICK m : m = [type |-> "prompt", id |-> x, now |-> now]
  OBVIOUS
<1>2. /\ UNCHANGED <<rev, entries, running, mutation, cancel, recover, conn, down, here, host>>
      /\ status[x] = "new" /\ status' = [status EXCEPT ![x] = "submitting"]
      /\ waiting' = waiting \cup {x} /\ Send(m)
  BY <1>1 DEF Submit, Drafted
<1>3. m \in UpMsgs /\ m.type = "prompt" /\ m.id = x
  BY <1>1 DEF UpMsgs
<1>4. status'[x] = "submitting" /\ \A p \in Prompts : p # x => status'[p] = status[p]
  BY <1>0, <1>2
<1>5. Submits(m)
  BY <1>2, <1>3, <1>4 DEF Submits
<1>6. Operates(m)
  BY <1>2 DEF Operates
<1>7. \A p \in Prompts : status'[p] = "submitting" => p \in waiting'
  <2>1. \A p \in Prompts : status[p] = "submitting" => p \in waiting
    BY DEF MirrorInv, Asked
  <2> QED
    BY <1>2, <1>4, <2>1
<1>8. UNCHANGED <<rev, entries, running, conn, down, here, host>>
  BY <1>2
<1> QED
  BY <1>2, <1>3, <1>5, <1>6, <1>7, <1>8, UserMirror

\* Nothing is submitted.
LEMMA NoSubmission ==
    ASSUME MirrorInv, UNCHANGED <<status, waiting>>, NEW m, m.type # "prompt"
    PROVE  Submits(m) /\ \A p \in Prompts : status'[p] = "submitting" => p \in waiting'
BY DEF Submits, MirrorInv, Asked

LEMMA MutatesMirrors ==
    ASSUME ConvInv, ConvInv', MirrorInv, NEW m \in UpMsgs, m.type # "prompt", Send(m),
           NEW kind \in {"remove", "edit", "now", "reorder", "clear"}, NEW id \in Prompts \cup {None},
           NEW text \in 0 .. MaxEvents, NEW order \in Seq(Prompts),
           Mutates(Mutation(kind, id, text, order)), Telling(m, entries)
    PROVE  MirrorInv'
<1>1. /\ UNCHANGED <<rev, entries, running, status, waiting, cancel, recover, conn, down, here, host>>
      /\ rev >= 0 /\ mutation' = Mutation(kind, id, text, order)
  BY DEF Mutates
<1>2. rev \in Nat
  <2>1. rev \in Nat \cup {-1}
    BY DEF ConvInv, Types
  <2> QED
    BY <1>1, <2>1
<1>3. Mutation(kind, id, text, order) \in Mutations /\ Mutation(kind, id, text, order).base = rev
  BY <1>2 DEF Mutation, Mutations
<1>4. Operates(m)
  BY <1>1, <1>3 DEF Operates
<1>5. Submits(m) /\ \A p \in Prompts : status'[p] = "submitting" => p \in waiting'
  BY <1>1, NoSubmission
<1>6. UNCHANGED <<rev, entries, running, conn, down, here, host>>
  BY <1>1
<1> QED
  BY <1>1, <1>4, <1>5, <1>6, UserMirror

LEMMA OperationsMirror ==
    ASSUME ConvInv, ConvInv', MirrorInv,
           \/ \E e \in ToSet(entries) :
                RemoveQueuedPrompt(e) \/ EditQueuedPrompt(e) \/ SendQueuedPromptNow(e)
           \/ ReorderQueuedPrompts \/ ClearQueuedPrompts
    PROVE  MirrorInv'
<1>0. 0 \in 0 .. MaxEvents /\ <<>> \in Seq(Prompts)
  BY ConversationAssumption, EmptySeq
<1>1. ASSUME NEW e \in ToSet(entries), RemoveQueuedPrompt(e) PROVE MirrorInv'
  <2>1. PICK m : m = [type |-> "remove", id |-> e.id, ver |-> e.ver]
    OBVIOUS
  <2>2. m \in UpMsgs /\ m.type = "remove" /\ e.id \in Prompts \cup {None}
    BY <2>1, EntryFacts DEF UpMsgs
  <2>3. Send(m) /\ Mutates(Mutation("remove", e.id, 0, <<>>))
    BY <1>1, <2>1 DEF RemoveQueuedPrompt
  <2>4. Telling(m, entries)
    BY <2>2 DEF Telling
  <2> QED
    BY <1>0, <2>2, <2>3, <2>4, MutatesMirrors
<1>2. ASSUME NEW e \in ToSet(entries), EditQueuedPrompt(e) PROVE MirrorInv'
  <2>1. PICK m : m = [type |-> "edit", id |-> e.id, text |-> events']
    OBVIOUS
  <2>2. PICK text : text = events'
    OBVIOUS
  <2>3. text \in 0 .. MaxEvents
    BY <2>2 DEF ConvInv, Types
  <2>4. m \in UpMsgs /\ m.type = "edit" /\ m.id = e.id /\ e.id \in Prompts \cup {None}
    BY <2>1, <2>2, <2>3, EntryFacts DEF UpMsgs
  <2>5. Send(m) /\ Mutates(Mutation("edit", e.id, text, <<>>))
    BY <1>2, <2>1, <2>2 DEF EditQueuedPrompt
  <2>6. Telling(m, entries)
    BY <2>4 DEF Telling, Live
  <2> QED
    BY <1>0, <2>3, <2>4, <2>5, <2>6, MutatesMirrors
<1>3. ASSUME NEW e \in ToSet(entries), SendQueuedPromptNow(e) PROVE MirrorInv'
  <2>1. PICK m : m = [type |-> "now", id |-> e.id, ver |-> e.ver]
    OBVIOUS
  <2>2. m \in UpMsgs /\ m.type = "now" /\ e.id \in Prompts \cup {None}
    BY <2>1, EntryFacts DEF UpMsgs
  <2>3. Send(m) /\ Mutates(Mutation("now", e.id, 0, <<>>))
    BY <1>3, <2>1 DEF SendQueuedPromptNow
  <2>4. Telling(m, entries)
    BY <2>2 DEF Telling
  <2> QED
    BY <1>0, <2>2, <2>3, <2>4, MutatesMirrors
<1>4. CASE ReorderQueuedPrompts
  <2> DEFINE T == {e.id : e \in ToSet(entries)}
  <2>1. PICK order \in SetToSeqs(T) :
          Mutates(Mutation("reorder", None, 0, order)) /\ Send([type |-> "reorder", order |-> order])
    BY <1>4 DEF ReorderQueuedPrompts
  <2>2. T \subseteq Prompts
    BY EntryFacts
  <2>3. IsFiniteSet(T)
    BY EntriesFinite
  <2> HIDE DEF T
  <2>4. Cardinality(T) \in Nat
    BY <2>3, FS_CardinalityType
  <2>5. order \in [1 .. Cardinality(T) -> Prompts]
    BY <2>1, <2>2 DEF SetToSeqs
  <2>6. order \in Seq(Prompts)
    BY <2>4, <2>5
  <2>7. PICK m : m = [type |-> "reorder", order |-> order]
    OBVIOUS
  <2>8. m \in UpMsgs /\ m.type = "reorder" /\ None \in Prompts \cup {None}
    BY <2>6, <2>7 DEF UpMsgs
  <2>9. Telling(m, entries) /\ Send(m)
    BY <2>1, <2>7, <2>8 DEF Telling
  <2> QED
    BY <1>0, <2>1, <2>6, <2>8, <2>9, MutatesMirrors
<1>5. CASE ClearQueuedPrompts
  <2>1. PICK m : m = [type |-> "clear"]
    OBVIOUS
  <2>2. m \in UpMsgs /\ m.type = "clear" /\ None \in Prompts \cup {None}
    BY <2>1 DEF UpMsgs
  <2>3. Send(m) /\ Mutates(Mutation("clear", None, 0, <<>>))
    BY <1>5, <2>1 DEF ClearQueuedPrompts
  <2>4. Telling(m, entries)
    BY <2>2 DEF Telling
  <2> QED
    BY <1>0, <2>2, <2>3, <2>4, MutatesMirrors
<1> QED
  BY <1>1, <1>2, <1>3, <1>4, <1>5

LEMMA CancelCurrentTaskMirrors ==
    ASSUME ConvInv, ConvInv', MirrorInv, CancelCurrentTask
    PROVE  MirrorInv'
<1>1. PICK m : m = [type |-> "cancel"]
  OBVIOUS
<1>2. m \in UpMsgs /\ m.type = "cancel"
  BY <1>1 DEF UpMsgs
<1>3. /\ UNCHANGED <<rev, entries, running, status, waiting, mutation, recover, conn, down, here, host>>
      /\ Send(m)
  BY <1>1 DEF CancelCurrentTask
<1>4. Submits(m) /\ \A p \in Prompts : status'[p] = "submitting" => p \in waiting'
  BY <1>2, <1>3, NoSubmission
<1>5. Operates(m)
  BY <1>3 DEF Operates
<1>6. UNCHANGED <<rev, entries, running, conn, down, here, host>>
  BY <1>3
<1> QED
  BY <1>2, <1>3, <1>4, <1>5, <1>6, UserMirror

LEMMA ReopenMirrors ==
    ASSUME ConvInv, ConvInv', MirrorInv, Reopen
    PROVE  MirrorInv'
<1>1. PICK m : m = [type |-> "load"]
  OBVIOUS
<1>2. m \in UpMsgs /\ m.type = "load"
  BY <1>1 DEF UpMsgs
<1>3. /\ UNCHANGED <<rev, entries, running, status, waiting, mutation, cancel, conn, down, here, host>>
      /\ Send(m)
  BY <1>1 DEF Reopen
<1>4. Submits(m) /\ \A p \in Prompts : status'[p] = "submitting" => p \in waiting'
  BY <1>2, <1>3, NoSubmission
<1>5. Operates(m)
  BY <1>3 DEF Operates
<1>6. UNCHANGED <<rev, entries, running, conn, down, here, host>>
  BY <1>3
<1> QED
  BY <1>2, <1>3, <1>4, <1>5, <1>6, UserMirror

-----------------------------------------------------------------------------
(* What the desktop receives *)

\* Whoever sees the actor's queue sees the prompts that wait or run, and no others.
LEMMA ShowsLive ==
    ASSUME NEW q \in Actors, Orderly(q), NEW list, NEW turn, Shows(list, turn, q), NEW p \in Prompts
    PROVE  p \in Live(list, turn) <=> p \in Ids(q.pend)
<1>1. list = QueueWire(q) /\ (turn = q.task \/ (q.task = None /\ turn \in Wakes))
  BY DEF Shows
<1>2. Live(list, turn) = Live(list, None) \cup ({turn} \ {None})
  BY DEF Live
<1>3. Live(list, None) = (Ids(q.pend) \cap Prompts) \ {q.task}
  BY <1>1, WireIds
<1>4. p # None /\ p \notin Wakes
  BY ConversationAssumption DEF Turns
<1>5. q.task # None => q.task \in Ids(q.pend)
  <2>1. ASSUME q.task # None PROVE q.task \in Ids(q.pend)
    <3>1. q.pend # <<>> /\ q.pend[1].id = q.task
      BY <2>1 DEF Orderly
    <3>2. 1 \in 1 .. Len(q.pend)
      BY <3>1, FrontFacts
    <3> QED
      BY <3>1, <3>2 DEF Ids
  <2> QED
    BY <2>1
<1> QED
  BY <1>1, <1>2, <1>3, <1>4, <1>5

LEMMA HeadTaken ==
    ASSUME ConvInv, down # <<>>, down' = Tail(down)
    PROVE  /\ ToSet(down) = ToSet(down') \cup {down[1]} /\ Head(down) = down[1] /\ down[1] \in DownMsgs
           /\ Shifted(down', down, 1) /\ 1 \in 1 .. Len(down) /\ Len(down) \in Nat
<1>1. PICK t : t = down'
  OBVIOUS
<1>2. down \in Seq(DownMsgs) /\ t = Tail(down)
  BY <1>1 DEF ConvInv, Types
<1>3. /\ ToSet(down) = ToSet(t) \cup {Head(down)} /\ Head(down) = down[1] /\ Head(down) \in DownMsgs
      /\ Shifted(t, down, 1)
  BY <1>2, TakenSet
<1>4. Len(down) \in Nat /\ Len(t) \in Nat /\ Len(t) + 1 = Len(down)
  BY <1>3 DEF Shifted
<1>5. 1 \in 1 .. Len(down)
  BY <1>4
<1> QED
  BY <1>1, <1>3, <1>4, <1>5

LEMMA TakenAnswers ==
    ASSUME ConvInv, ConvInv', AnswersHeard, down # <<>>, down' = Tail(down),
           UNCHANGED <<conn, here, returns, actor>>,
           down[1].type = "queue" => rev' >= 0,
           rev >= 0 /\ down[1].type # "reconnected" => rev' >= 0
    PROVE  AnswersHeard'
<1>0. rev \in Int /\ rev' \in Int
  BY DEF ConvInv, Types
<1>1. PICK t : t = down'
  OBVIOUS
<1>2. PICK u \in Int : u = rev'
  BY <1>0
<1>3. Shifted(t, down, 1)
  BY <1>1, HeadTaken
<1>4. Len(t) \in Nat /\ Len(t) + 1 = Len(down)
  BY <1>3 DEF Shifted
<1>c. (down[1].type = "queue" => u >= 0) /\ (rev >= 0 /\ down[1].type # "reconnected" => u >= 0)
  BY <1>2
<1>5. Preceded(t, u)
  <2>1. Preceded(down, rev)
    BY DEF AnswersHeard
  <2> QED
    BY <1>0, <1>3, <1>c, <2>1, PrecededTail
<1>6. Heard(down, rev, Len(down)) => Heard(t, u, Len(t))
  <2>1. ASSUME Heard(down, rev, Len(down)) PROVE Heard(t, u, Len(t))
    <3>1. Heard(down, rev, Len(t) + 1) /\ Len(t) <= Len(t)
      BY <1>4, <2>1
    <3> QED
      BY <1>0, <1>3, <1>4, <1>c, <3>1, HeardTail
  <2> QED
    BY <2>1
<1> QED
  BY <1>1, <1>2, <1>5, <1>6 DEF AnswersHeard

LEMMA AnswerMirrors ==
    ASSUME ConvInv, ConvInv', MirrorInv, Answer
    PROVE  MirrorInv'
<1>0. /\ down \in Seq(DownMsgs) /\ rev \in Int
      /\ status \in [Prompts -> {"new", "submitting", "queued", "running", "unknown", "over"}]
      /\ returns \subseteq [id : Prompts, ok : BOOLEAN] /\ waiting \subseteq Prompts
  BY DEF ConvInv, Types
<1>m. /\ ActorRests /\ Mirrors /\ SyncComes /\ AnswersHeard /\ AnsweredOnce /\ Asked
      /\ Submissions /\ CancelEnds /\ MutationEnds
  BY DEF MirrorInv
<1>1. /\ UNCHANGED <<rev, entries, mutation, recover, conn, up, here, host>>
      /\ down # <<>> /\ down' = Tail(down)
  BY DEF Answer
<1>2. UNCHANGED <<prep, stops, returns, actor>>
  BY <1>1 DEF host
<1>3. PICK a : a = down[1]
  OBVIOUS
<1>4. /\ ToSet(down) = ToSet(down') \cup {a} /\ Head(down) = a /\ a \in DownMsgs
      /\ 1 \in 1 .. Len(down)
  BY <1>1, <1>3, HeadTaken
<1>5. /\ a.type = "answer" /\ waiting' = waiting \ {a.id}
      /\ \/ /\ a.id \in waiting /\ status[a.id] # "over"
            /\ status' = [status EXCEPT ![a.id] = "over"] /\ cancel' = CancelAfter(a.id)
            /\ running' = IF rev < 0 /\ a.ok THEN None ELSE running
         \/ ~ (a.id \in waiting /\ status[a.id] # "over") /\ UNCHANGED <<status, cancel, running>>
  BY <1>4 DEF Answer
<1>6. a.id \in Prompts
  BY <1>4, <1>5 DEF DownMsgs, Snapshot
<1>7. a.ok => rev >= 0
  <2>1. ASSUME a.ok PROVE rev >= 0
    <3>1. Heard(down, rev, 1 - 1)
      BY <1>3, <1>4, <1>5, <1>m, <2>1 DEF AnswersHeard, Preceded
    <3>2. 1 .. (1 - 1) = {}
      OBVIOUS
    <3> QED
      BY <3>1, <3>2 DEF Heard
  <2> QED
    BY <2>1
<1>8. running' = running
  BY <1>0, <1>5, <1>7
<1>9. /\ status'[a.id] = status[a.id] \/ status'[a.id] = "over"
      /\ \A p \in Prompts : p # a.id => status'[p] = status[p]
      /\ a.id \in waiting => status'[a.id] = "over"
  BY <1>0, <1>5, <1>6
<1>10. cancel'.on => cancel.on
  BY <1>5 DEF CancelAfter, NoCancel
<1>11. \A type : type # "answer" => (Has(down', type) <=> Has(down, type))
  BY <1>4, <1>5 DEF Has
<1>12. (Linked' <=> Linked) /\ (Synced' <=> Synced)
  BY <1>1, <1>11 DEF Linked, Synced
<1>13. ActorRests'
  BY <1>2, <1>m DEF ActorRests
<1>14. Mirrors'
  <2>1. ASSUME conn' = "up" PROVE Line(down', actor')
    <3>1. PICK t : t = down'
      OBVIOUS
    <3>2. Line(down, actor)
      BY <1>1, <1>m, <2>1 DEF Mirrors
    <3>3. Line(t, actor)
      BY <1>0, <1>1, <3>1, <3>2, LineTail
    <3> QED
      BY <1>2, <3>1, <3>3
  <2>2. \A m \in ToSet(down') : m \in ToSet(down)
    BY <1>4
  <2> QED
    BY <1>1, <1>2, <1>8, <1>12, <1>m, <2>1, <2>2 DEF Mirrors
<1>15. SyncComes'
  BY <1>1, <1>2, <1>11, <1>12, <1>m DEF SyncComes
<1>16. AnswersHeard'
  BY <1>1, <1>2, <1>3, <1>5, <1>m, TakenAnswers
<1>17. AnsweredOnce'
  BY <1>0, <1>1, <1>2, <1>9, <1>m DEF AnsweredOnce
<1>18. Asked'
  <2>1. \A p \in Prompts : status'[p] = "submitting" => p \in waiting'
    BY <1>5, <1>9, <1>m DEF Asked
  <2>2. \A p \in waiting' : status'[p] # "new"
    BY <1>0, <1>5, <1>9, <1>m DEF Asked
  <2>3. \A p \in Prompts : status'[p] \in {"queued", "running"} => p \in Live(entries', running')
    BY <1>1, <1>8, <1>9, <1>m DEF Asked
  <2> QED
    BY <2>1, <2>2, <2>3 DEF Asked
<1>19. Submissions'
  <2>1. SUFFICES ASSUME NEW p \in Prompts
                 PROVE  /\ Linked' /\ status'[p] = "submitting" =>
                             \/ Underway(p)' \/ AnswerSent(p)'
                             \/ p \in here' /\ (Handled(p)' \/ Returned(p)' \/ p \in Ids(actor'.pend))
                        /\ Synced' /\ p \in Ids(actor'.pend) => status'[p] # "submitting"
                        /\ Synced' /\ status'[p] = "unknown" => p \notin waiting' /\ p \in Ids(actor'.pend)
    BY DEF Submissions
  <2>2. /\ Linked /\ status[p] = "submitting" =>
             \/ Underway(p) \/ AnswerSent(p)
             \/ p \in here /\ (Handled(p) \/ Returned(p) \/ p \in Ids(actor.pend))
        /\ Synced /\ p \in Ids(actor.pend) => status[p] # "submitting"
        /\ Synced /\ status[p] = "unknown" => p \notin waiting /\ p \in Ids(actor.pend)
    BY <1>m DEF Submissions
  <2>3. (Underway(p) => Underway(p)') /\ (Handled(p) => Handled(p)') /\ (Returned(p) => Returned(p)')
    BY <1>1, <1>2 DEF Underway, Handled, Returned
  <2>4. p # a.id /\ AnswerSent(p) => AnswerSent(p)'
    BY <1>4 DEF AnswerSent
  <2>5. p = a.id => status'[p] # "submitting"
    <3>1. status[p] = "submitting" => p \in waiting
      BY <1>m DEF Asked
    <3> QED
      BY <1>9, <3>1
  <2>6. status'[p] = status[p] \/ status'[p] = "over"
    BY <1>9
  <2> QED
    BY <1>1, <1>2, <1>5, <1>12, <2>2, <2>3, <2>4, <2>5, <2>6
<1>20. CancelEnds'
  <2>1. \A m \in ToSet(down) : m.type = "queue" => m \in ToSet(down')
    BY <1>4, <1>5
  <2> QED
    BY <1>1, <1>2, <1>10, <1>12, <1>m, <2>1 DEF CancelEnds
<1>21. MutationEnds'
  <2>1. Pending' <=> Pending
    BY <1>1 DEF Pending
  <2> QED
    BY <1>1, <1>11, <1>12, <1>m, <2>1 DEF MutationEnds
<1> QED
  BY <1>13, <1>14, <1>15, <1>16, <1>17, <1>18, <1>19, <1>20, <1>21 DEF MirrorInv

LEMMA TimeOutMirrors ==
    ASSUME ConvInv, ConvInv', MirrorInv, NEW x \in Prompts, TimeOut(x)
    PROVE  MirrorInv'
<1>0. /\ actor \in Actors /\ Orderly(actor) /\ prep \subseteq Submitted
      /\ status \in [Prompts -> {"new", "submitting", "queued", "running", "unknown", "over"}]
      /\ returns \subseteq [id : Prompts, ok : BOOLEAN] /\ waiting \subseteq Prompts
      /\ up \in Seq(UpMsgs) /\ down \in Seq(DownMsgs)
  BY DEF ConvInv, Types
<1>m. /\ ActorRests /\ Mirrors /\ SyncComes /\ AnswersHeard /\ AnsweredOnce /\ Asked
      /\ Submissions /\ CancelEnds /\ MutationEnds
  BY DEF MirrorInv
<1>1. /\ UNCHANGED <<rev, entries, running, mutation, recover, conn, up, down, here, host>>
      /\ x \in waiting /\ waiting' = waiting \ {x}
      /\ \/ status[x] # "over" /\ status' = [status EXCEPT ![x] = "unknown"] /\ cancel' = CancelAfter(x)
         \/ status[x] = "over" /\ UNCHANGED <<status, cancel>>
  BY DEF TimeOut, wire
<1>2. UNCHANGED <<prep, stops, returns, actor>>
  BY <1>1 DEF host
<1>3. ~ Underway(x) /\ ~ Handled(x) /\ ~ Returned(x) /\ ~ AnswerSent(x)
  <2>1. \A m \in ToSet(up) \cup prep \cup returns \cup {n \in ToSet(down) : n.type = "answer"} :
          "id" \in DOMAIN m => m.id # x
    BY DEF TimeOut
  <2>2. ToSet(up) \subseteq UpMsgs /\ ToSet(down) \subseteq DownMsgs
    BY <1>0, MessageSet
  <2>3. \A m \in UpMsgs : m.type = "prompt" => "id" \in DOMAIN m
    BY DEF UpMsgs
  <2>4. \A m \in DownMsgs : m.type = "answer" => "id" \in DOMAIN m
    BY DEF DownMsgs, Snapshot
  <2>5. (\A m \in prep : "id" \in DOMAIN m) /\ (\A m \in returns : "id" \in DOMAIN m)
    BY <1>0 DEF Submitted
  <2>6. ~ Underway(x)
    BY <2>1, <2>2, <2>3 DEF Underway
  <2>7. ~ AnswerSent(x)
    BY <2>1, <2>2, <2>4 DEF AnswerSent
  <2>8. ~ Handled(x) /\ ~ Returned(x)
    BY <2>1, <2>5 DEF Handled, Returned
  <2> QED
    BY <2>6, <2>7, <2>8
<1>4. /\ \A p \in Prompts : p # x => status'[p] = status[p]
      /\ status'[x] = IF status[x] = "over" THEN "over" ELSE "unknown"
  BY <1>0, <1>1
<1>5. cancel'.on => cancel.on
  BY <1>1 DEF CancelAfter, NoCancel
<1>6. (Linked' <=> Linked) /\ (Synced' <=> Synced)
  BY <1>1 DEF Linked, Synced
<1>7. ActorRests' /\ Mirrors' /\ SyncComes' /\ AnswersHeard'
  BY <1>1, <1>2, <1>6, <1>m DEF ActorRests, Mirrors, SyncComes, AnswersHeard
<1>8. AnsweredOnce'
  BY <1>0, <1>1, <1>2, <1>4, <1>m DEF AnsweredOnce
<1>9. Asked'
  <2>1. \A p \in Prompts : status'[p] = "submitting" => p \in waiting'
    BY <1>1, <1>4, <1>m DEF Asked
  <2>2. \A p \in waiting' : status'[p] # "new"
    BY <1>0, <1>1, <1>4, <1>m DEF Asked
  <2>3. \A p \in Prompts : status'[p] \in {"queued", "running"} => p \in Live(entries', running')
    BY <1>1, <1>4, <1>m DEF Asked
  <2> QED
    BY <2>1, <2>2, <2>3 DEF Asked
<1>10. Submissions'
  <2>1. SUFFICES ASSUME NEW p \in Prompts
                 PROVE  /\ Linked' /\ status'[p] = "submitting" =>
                             \/ Underway(p)' \/ AnswerSent(p)'
                             \/ p \in here' /\ (Handled(p)' \/ Returned(p)' \/ p \in Ids(actor'.pend))
                        /\ Synced' /\ p \in Ids(actor'.pend) => status'[p] # "submitting"
                        /\ Synced' /\ status'[p] = "unknown" => p \notin waiting' /\ p \in Ids(actor'.pend)
    BY DEF Submissions
  <2>2. /\ Linked /\ status[p] = "submitting" =>
             \/ Underway(p) \/ AnswerSent(p)
             \/ p \in here /\ (Handled(p) \/ Returned(p) \/ p \in Ids(actor.pend))
        /\ Synced /\ p \in Ids(actor.pend) => status[p] # "submitting"
        /\ Synced /\ status[p] = "unknown" => p \notin waiting /\ p \in Ids(actor.pend)
    BY <1>m DEF Submissions
  <2>3. /\ (Underway(p)' <=> Underway(p)) /\ (AnswerSent(p)' <=> AnswerSent(p))
        /\ (Handled(p)' <=> Handled(p)) /\ (Returned(p)' <=> Returned(p))
    BY <1>1, <1>2 DEF Underway, AnswerSent, Handled, Returned
  <2>4. CASE p # x
    BY <1>1, <1>2, <1>4, <1>6, <2>2, <2>3, <2>4
  <2>5. CASE p = x
    <3>1. status'[p] # "submitting" /\ p \notin waiting'
      BY <1>1, <1>4, <2>5
    <3>2. ASSUME Synced, status'[p] = "unknown" PROVE p \in Ids(actor.pend)
      <4>1. status[p] # "over" /\ status[p] # "new" /\ p \in waiting
        BY <1>1, <1>4, <1>m, <2>5, <3>2 DEF Asked
      <4>2. Linked /\ Shows(entries, running, actor)
        BY <1>m, <3>2 DEF Synced, Mirrors
      <4>3. status[p] # "unknown"
        BY <2>2, <3>2, <4>1
      <4>4. CASE status[p] = "submitting"
        BY <1>3, <2>2, <2>5, <4>2, <4>4
      <4>5. CASE status[p] \in {"queued", "running"}
        <5>1. p \in Live(entries, running)
          BY <1>m, <4>5 DEF Asked
        <5> QED
          BY <1>0, <4>2, <5>1, ShowsLive
      <4>6. status[p] \in {"new", "submitting", "queued", "running", "unknown", "over"}
        BY <1>0
      <4> QED
        BY <4>1, <4>3, <4>4, <4>5, <4>6
    <3> QED
      BY <1>2, <1>6, <3>1, <3>2
  <2> QED
    BY <2>4, <2>5
<1>11. CancelEnds'
  BY <1>1, <1>2, <1>5, <1>6, <1>m DEF CancelEnds
<1>12. MutationEnds'
  <2>1. Pending' <=> Pending
    BY <1>1 DEF Pending
  <2> QED
    BY <1>1, <1>6, <1>m, <2>1 DEF MutationEnds
<1> QED
  BY <1>7, <1>8, <1>9, <1>10, <1>11, <1>12 DEF MirrorInv

\* On a connection without an announcement, the first message is fresh; the
\* snapshots behind a first snapshot are newer, and the last one shows the actor.
LEMMA LineHead ==
    ASSUME NEW s \in Seq(DownMsgs), s # <<>>, NEW t, t = Tail(s), NEW q, Line(s, q),
           ~ Has(s, "reconnected")
    PROVE  /\ s[1].type = "loaded" /\ s[1].ok => q.on
           /\ s[1].type = "queue" =>
                /\ 1 <= s[1].rev /\ s[1].rev <= q.rev
                /\ \A n \in ToSet(t) : n.type = "queue" => s[1].rev < n.rev
                /\ ~ Has(t, "queue") => Shows(s[1].entries, s[1].running, q)
<1>1. Shifted(t, s, 1) /\ t \in Seq(DownMsgs)
  BY TakenSet
<1>2. /\ Len(t) \in Nat /\ Len(s) \in Nat /\ Len(t) + 1 = Len(s)
      /\ \A k \in 1 .. Len(t) : t[k] = s[k + 1]
  BY <1>1 DEF Shifted
<1>3. /\ \A k \in 1 .. Len(s) : s[k] \in ToSet(s)
      /\ \A k \in 1 .. Len(t) : t[k] \in ToSet(t)
      /\ \A n \in ToSet(t) : \E k \in 1 .. Len(t) : n = t[k]
  BY <1>1, DownFacts
<1>4. \A k \in 1 .. Len(s) : s[k].type # "reconnected"
  BY <1>3 DEF Has
<1>5. \A k \in 1 .. Len(s) : Fresh(s, k)
  BY <1>4 DEF Fresh
<1>6. 1 \in 1 .. Len(s) /\ \A k \in 1 .. Len(t) : k + 1 \in 1 .. Len(s) /\ 1 < k + 1
  BY <1>2
<1>7. s[1].type = "loaded" /\ s[1].ok => q.on
  BY <1>5, <1>6 DEF Line
<1>8. ASSUME s[1].type = "queue"
      PROVE  /\ 1 <= s[1].rev /\ s[1].rev <= q.rev
             /\ \A n \in ToSet(t) : n.type = "queue" => s[1].rev < n.rev
             /\ ~ Has(t, "queue") => Shows(s[1].entries, s[1].running, q)
  <2>1. 1 \in Snaps(s)
    BY <1>5, <1>6, <1>8 DEF Snaps
  <2>2. 1 <= s[1].rev /\ s[1].rev <= q.rev
    BY <2>1 DEF Line
  <2>3. ASSUME NEW n \in ToSet(t), n.type = "queue" PROVE s[1].rev < n.rev
    <3>1. PICK k \in 1 .. Len(t) : n = t[k]
      BY <1>3
    <3>2. k + 1 \in Snaps(s) /\ s[k + 1] = n /\ 1 < k + 1
      BY <1>2, <1>5, <1>6, <2>3, <3>1 DEF Snaps
    <3> QED
      BY <2>1, <3>2 DEF Line
  <2>4. ASSUME ~ Has(t, "queue") PROVE Shows(s[1].entries, s[1].running, q)
    <3>1. \A j \in Snaps(s) : j <= 1
      <4>1. SUFFICES ASSUME NEW j \in Snaps(s), j > 1 PROVE FALSE
        BY <1>2 DEF Snaps
      <4>2. j \in 1 .. Len(s) /\ s[j].type = "queue"
        BY DEF Snaps
      <4>3. j - 1 \in 1 .. Len(t) /\ (j - 1) + 1 = j
        BY <1>2, <4>1, <4>2
      <4>4. t[j - 1] = s[j]
        BY <1>2, <4>3
      <4> QED
        BY <1>3, <2>4, <4>2, <4>3, <4>4 DEF Has
    <3> QED
      BY <2>1, <3>1 DEF Line
  <2> QED
    BY <2>2, <2>3, <2>4
<1> QED
  BY <1>7, <1>8

\* A snapshot newer than the mirror ends the operation that waits for one.
LEMMA ReconciledMutation ==
    ASSUME ConvInv, MutationEnds, NEW m, m.rev \in Nat, m.rev > rev,
           mutation' = ReconcileQueueMutation(m)
    PROVE  (mutation' = None \/ mutation' \in Mutations) /\ ~ Pending'
<1>0. rev \in Int
  BY DEF ConvInv, Types
<1>1. mutation = None \/ mutation \in Mutations
  BY DEF MutationEnds
<1>2. mutation' = IF mutation = None \/ m.rev <= mutation.base THEN mutation
                  ELSE IF Succeeded(m) THEN None ELSE [mutation EXCEPT !.failed = TRUE]
  BY DEF ReconcileQueueMutation
<1>3. CASE mutation = None
  BY <1>2, <1>3 DEF Pending
<1>4. CASE mutation # None /\ m.rev <= mutation.base
  <2>1. mutation' = mutation
    BY <1>2, <1>4
  <2>2. ~ Pending
    BY <1>0, <1>4 DEF MutationEnds
  <2> QED
    BY <1>1, <2>1, <2>2 DEF Pending
<1>5. CASE mutation # None /\ ~ (m.rev <= mutation.base) /\ Succeeded(m)
  BY <1>2, <1>5 DEF Pending
<1>6. CASE mutation # None /\ ~ (m.rev <= mutation.base) /\ ~ Succeeded(m)
  <2>1. mutation \in Mutations /\ mutation' = [mutation EXCEPT !.failed = TRUE]
    BY <1>1, <1>2, <1>6
  <2>2. mutation' \in Mutations /\ mutation'.failed = TRUE
    BY <2>1 DEF Mutations
  <2> QED
    BY <2>2 DEF Pending
<1> QED
  BY <1>3, <1>4, <1>5, <1>6

\* What a snapshot says of a submission.
LEMMA ReconciledStatus ==
    ASSUME ConvInv, Asked, NEW p \in Prompts, NEW m
    PROVE  /\ Reconciled(p, m) = "new" <=> status[p] = "new"
           /\ Reconciled(p, m) # "unknown"
           /\ Reconciled(p, m) = "submitting" => status[p] = "submitting" /\ p \notin Live(m.entries, m.running)
           /\ Reconciled(p, m) \in {"queued", "running"} => p \in Live(m.entries, m.running)
<1>1. status[p] \in {"new", "submitting", "queued", "running", "unknown", "over"}
  BY DEF ConvInv, Types
<1>2. p # None
  BY ConversationAssumption DEF Turns
<1>3. p \in Live(m.entries, m.running) <=> (p = m.running \/ p \in Live(m.entries, None))
  BY <1>2 DEF Live
<1>4. status[p] \in {"queued", "running"} => p \in Live(entries, running)
  BY DEF Asked
<1> QED
  BY <1>1, <1>3, <1>4 DEF Reconciled

LEMMA QueueChangedMirrors ==
    ASSUME ConvInv, ConvInv', MirrorInv, QueueChanged
    PROVE  MirrorInv'
<1>0. /\ down \in Seq(DownMsgs) /\ rev \in Int /\ actor \in Actors /\ Orderly(actor) /\ actor.rev \in Nat
      /\ returns \subseteq [id : Prompts, ok : BOOLEAN] /\ waiting \subseteq Prompts
  <2>1. /\ down \in Seq(DownMsgs) /\ rev \in Int /\ actor \in Actors /\ Orderly(actor)
        /\ returns \subseteq [id : Prompts, ok : BOOLEAN] /\ waiting \subseteq Prompts
    BY DEF ConvInv, Types
  <2>2. actor.rev \in Nat
    BY <2>1 DEF Actors
  <2> QED
    BY <2>1, <2>2
<1>m. /\ ActorRests /\ Mirrors /\ SyncComes /\ AnswersHeard /\ AnsweredOnce /\ Asked
      /\ Submissions /\ CancelEnds /\ MutationEnds
  BY DEF MirrorInv
<1>1. /\ UNCHANGED <<waiting, recover, conn, up, here, host>> /\ down # <<>> /\ down' = Tail(down)
  BY DEF QueueChanged
<1>2. UNCHANGED <<prep, stops, returns, actor>>
  BY <1>1 DEF host
<1>3. PICK m : m = down[1]
  OBVIOUS
<1>4. ToSet(down) = ToSet(down') \cup {m} /\ Head(down) = m /\ m \in DownMsgs
  BY <1>1, <1>3, HeadTaken
<1>5. /\ m.type = "queue"
      /\ \/ /\ m.rev > rev /\ rev' = m.rev /\ entries' = m.entries /\ running' = m.running
            /\ cancel' = IF CancelOver(m) THEN NoCancel ELSE cancel
            /\ status' = [p \in Prompts |-> Reconciled(p, m)]
            /\ mutation' = ReconcileQueueMutation(m)
         \/ ~ (m.rev > rev) /\ UNCHANGED <<rev, entries, running, cancel, status, mutation>>
  BY <1>4 DEF QueueChanged
<1>6. m.rev \in Nat
  BY <1>4, <1>5 DEF DownMsgs, Snapshot
<1>7. rev' >= 0
  BY <1>0, <1>5, <1>6
<1>8. \A type : type # "queue" => (Has(down', type) <=> Has(down, type))
  BY <1>4, <1>5 DEF Has
<1>9. Linked' <=> Linked
  BY <1>1, <1>8 DEF Linked
<1>10. ActorRests'
  BY <1>2, <1>m DEF ActorRests
<1>11. conn' = "up" => Line(down', actor')
  <2>1. ASSUME conn' = "up" PROVE Line(down', actor')
    <3>1. PICK t : t = down'
      OBVIOUS
    <3>2. Line(down, actor)
      BY <1>1, <1>m, <2>1 DEF Mirrors
    <3>3. Line(t, actor)
      BY <1>0, <1>1, <3>1, <3>2, LineTail
    <3> QED
      BY <1>2, <3>1, <3>3
  <2> QED
    BY <2>1
<1>12. AnswersHeard'
  BY <1>1, <1>2, <1>7, <1>m, TakenAnswers
<1>13. SyncComes'
  BY <1>7 DEF SyncComes
<1>14. CASE ~ (m.rev > rev) /\ UNCHANGED <<rev, entries, running, cancel, status, mutation>>
  <2>1. ~ Linked
    <3>1. m \in ToSet(down)
      BY <1>4
    <3>2. Linked => rev < m.rev
      BY <1>5, <1>m, <3>1 DEF Mirrors
    <3> QED
      BY <1>0, <1>6, <1>14, <3>2
  <2>2. ~ Linked' /\ ~ Synced'
    BY <1>9, <2>1 DEF Synced
  <2>3. Mirrors' /\ CancelEnds' /\ Submissions'
    BY <1>11, <2>2 DEF Mirrors, CancelEnds, Submissions
  <2>4. AnsweredOnce' /\ Asked'
    BY <1>1, <1>2, <1>14, <1>m DEF AnsweredOnce, Asked
  <2>5. MutationEnds'
    BY <1>14, <1>m, <2>2 DEF MutationEnds, Pending
  <2> QED
    BY <1>10, <1>12, <1>13, <2>3, <2>4, <2>5 DEF MirrorInv
<1>15. CASE /\ m.rev > rev /\ rev' = m.rev /\ entries' = m.entries /\ running' = m.running
            /\ cancel' = IF CancelOver(m) THEN NoCancel ELSE cancel
            /\ status' = [p \in Prompts |-> Reconciled(p, m)]
            /\ mutation' = ReconcileQueueMutation(m)
  <2>1. ASSUME Linked
        PROVE  /\ 1 <= m.rev /\ m.rev <= actor.rev
               /\ \A n \in ToSet(down') : n.type = "queue" => m.rev < n.rev
               /\ ~ Has(down', "queue") => Shows(m.entries, m.running, actor)
    <3>1. PICK t : t = down'
      OBVIOUS
    <3>2. Line(down, actor) /\ ~ Has(down, "reconnected") /\ t = Tail(down)
      BY <1>1, <1>m, <2>1, <3>1 DEF Mirrors, Linked
    <3>3. /\ 1 <= m.rev /\ m.rev <= actor.rev
          /\ \A n \in ToSet(t) : n.type = "queue" => m.rev < n.rev
          /\ ~ Has(t, "queue") => Shows(m.entries, m.running, actor)
      BY <1>0, <1>1, <1>3, <1>5, <3>2, LineHead
    <3> QED
      BY <3>1, <3>3
  <2>2. \A p \in Prompts : status'[p] = Reconciled(p, m)
    BY <1>15
  <2>3. Synced' => Linked /\ Shows(m.entries, m.running, actor)
    BY <1>9, <2>1 DEF Synced
  <2>4. Mirrors'
    BY <1>2, <1>9, <1>11, <1>15, <2>1, <2>3 DEF Mirrors
  <2>5. \A p \in Prompts :
          /\ status'[p] = "new" <=> status[p] = "new"
          /\ status'[p] # "unknown"
          /\ status'[p] = "submitting" => status[p] = "submitting" /\ p \notin Live(entries', running')
          /\ status'[p] \in {"queued", "running"} => p \in Live(entries', running')
    <3>1. \A p \in Prompts :
            /\ Reconciled(p, m) = "new" <=> status[p] = "new"
            /\ Reconciled(p, m) # "unknown"
            /\ Reconciled(p, m) = "submitting" => status[p] = "submitting" /\ p \notin Live(m.entries, m.running)
            /\ Reconciled(p, m) \in {"queued", "running"} => p \in Live(m.entries, m.running)
      BY <1>m, ReconciledStatus
    <3> QED
      BY <1>15, <2>2, <3>1
  <2>6. AnsweredOnce'
    BY <1>0, <1>1, <1>2, <1>m, <2>5 DEF AnsweredOnce
  <2>7. Asked'
    BY <1>0, <1>1, <1>m, <2>5 DEF Asked
  <2>8. Submissions'
    <3>1. SUFFICES ASSUME NEW p \in Prompts
                   PROVE  /\ Linked' /\ status'[p] = "submitting" =>
                               \/ Underway(p)' \/ AnswerSent(p)'
                               \/ p \in here' /\ (Handled(p)' \/ Returned(p)' \/ p \in Ids(actor'.pend))
                          /\ Synced' /\ p \in Ids(actor'.pend) => status'[p] # "submitting"
                          /\ Synced' /\ status'[p] = "unknown" => p \notin waiting' /\ p \in Ids(actor'.pend)
      BY DEF Submissions
    <3>2. Linked /\ status[p] = "submitting" =>
             \/ Underway(p) \/ AnswerSent(p)
             \/ p \in here /\ (Handled(p) \/ Returned(p) \/ p \in Ids(actor.pend))
      BY <1>m DEF Submissions
    <3>3. (Underway(p) => Underway(p)') /\ (Handled(p) => Handled(p)') /\ (Returned(p) => Returned(p)')
      BY <1>1, <1>2 DEF Underway, Handled, Returned
    <3>4. AnswerSent(p) => AnswerSent(p)'
      BY <1>4, <1>5 DEF AnswerSent
    <3>5. Synced' /\ p \in Ids(actor.pend) => p \in Live(entries', running')
      <4>1. Shows(m.entries, m.running, actor) /\ p \in Ids(actor.pend) => p \in Live(m.entries, m.running)
        BY <1>0, ShowsLive
      <4> QED
        BY <1>15, <2>3, <4>1
    <3> QED
      BY <1>1, <1>2, <1>9, <2>5, <3>2, <3>3, <3>4, <3>5
  <2>9. CancelEnds'
    <3>1. SUFFICES ASSUME Linked', cancel'.on
                   PROVE  \/ Has(up', "cancel") \/ stops' > 0
                          \/ \E n \in ToSet(down') : n.type = "queue" /\ n.running = None
      BY DEF CancelEnds
    <3>2. cancel.on /\ m.running # None
      BY <1>15, <3>1 DEF CancelOver, NoCancel
    <3>3. ~ (rev = -1 /\ actor.rev = 0)
      BY <1>0, <1>6, <1>9, <2>1, <3>1
    <3>4. \/ Has(up, "cancel") \/ stops > 0
          \/ \E n \in ToSet(down) : n.type = "queue" /\ n.running = None
      BY <1>9, <1>m, <3>1, <3>2, <3>3 DEF CancelEnds
    <3> QED
      BY <1>1, <1>2, <1>4, <3>2, <3>4
  <2>10. MutationEnds'
    BY <1>6, <1>15, <1>m, ReconciledMutation DEF MutationEnds
  <2> QED
    BY <1>10, <1>12, <1>13, <2>4, <2>6, <2>7, <2>8, <2>9, <2>10 DEF MirrorInv
<1> QED
  BY <1>5, <1>14, <1>15

LEMMA ReconnectedMirrors ==
    ASSUME ConvInv, ConvInv', MirrorInv, Reconnected
    PROVE  MirrorInv'
<1>0. /\ down \in Seq(DownMsgs) /\ down' \in Seq(DownMsgs)
      /\ returns \subseteq [id : Prompts, ok : BOOLEAN] /\ waiting \subseteq Prompts
      /\ status \in [Prompts -> {"new", "submitting", "queued", "running", "unknown", "over"}]
  BY DEF ConvInv, Types
<1>m. ActorRests /\ Mirrors /\ AnswersHeard /\ AnsweredOnce /\ Asked
  BY DEF MirrorInv
<1>1. /\ UNCHANGED <<entries, running, waiting, conn, here, host>> /\ down # <<>> /\ down' = Tail(down)
      /\ Head(down).type = "reconnected" /\ rev' = -1 /\ mutation' = None /\ cancel' = NoCancel
      /\ status' = [p \in Prompts |-> IF status[p] = "submitting" THEN "unknown" ELSE status[p]]
  BY DEF Reconnected
<1>2. UNCHANGED <<prep, stops, returns, actor>>
  BY <1>1 DEF host
<1>3. PICK m : m = [type |-> "load"]
  OBVIOUS
<1>4. m \in UpMsgs /\ m.type = "load" /\ Send(m)
  BY <1>3 DEF UpMsgs, Reconnected
<1>5. ToSet(up') = ToSet(up) \cup {m}
  BY <1>4, SentSet
<1>6. \A p \in Prompts : status'[p] # "submitting" /\ (status'[p] = status[p] \/ status'[p] = "unknown")
  BY <1>0, <1>1
<1>7. ~ Synced' /\ ~ Pending'
  BY <1>1 DEF Synced, Pending
<1>8. ActorRests'
  BY <1>2, <1>m DEF ActorRests
<1>9. Mirrors'
  <2>1. ASSUME conn' = "up" PROVE Line(down', actor')
    <3>1. PICK t : t = down'
      OBVIOUS
    <3>2. Line(down, actor)
      BY <1>1, <1>m, <2>1 DEF Mirrors
    <3>3. Line(t, actor)
      BY <1>0, <1>1, <3>1, <3>2, LineTail
    <3> QED
      BY <1>2, <3>1, <3>3
  <2>2. \A n \in ToSet(down') : n.type = "queue" => n.rev \in Nat
    <3>1. PICK t \in Seq(DownMsgs) : t = down'
      BY <1>0
    <3>2. \A n \in ToSet(t) : n.type = "queue" => n.rev \in Nat
      BY DownFacts
    <3> QED
      BY <3>1, <3>2
  <2>3. \A n \in ToSet(down') : n.type = "queue" => rev' < n.rev
    BY <1>1, <2>2
  <2> QED
    BY <1>1, <1>7, <2>1, <2>3 DEF Mirrors
<1>10. SyncComes'
  BY <1>4, <1>5 DEF SyncComes, Has
<1>11. AnswersHeard'
  <2>1. down[1].type = "reconnected"
    BY <1>1, HeadTaken
  <2> QED
    BY <1>1, <1>2, <1>m, <2>1, TakenAnswers
<1>12. AnsweredOnce'
  BY <1>0, <1>2, <1>4, <1>5, <1>6, <1>m DEF AnsweredOnce
<1>13. Asked'
  BY <1>0, <1>1, <1>6, <1>m DEF Asked
<1>14. Submissions' /\ CancelEnds' /\ MutationEnds'
  BY <1>1, <1>6, <1>7 DEF Submissions, CancelEnds, MutationEnds, NoCancel
<1> QED
  BY <1>8, <1>9, <1>10, <1>11, <1>12, <1>13, <1>14 DEF MirrorInv

LEMMA LoadedMirrors ==
    ASSUME ConvInv, ConvInv', MirrorInv, Loaded
    PROVE  MirrorInv'
<1>0. down \in Seq(DownMsgs)
  BY DEF ConvInv, Types
<1>m. /\ ActorRests /\ Mirrors /\ SyncComes /\ AnswersHeard /\ AnsweredOnce /\ Asked
      /\ Submissions /\ CancelEnds /\ MutationEnds
  BY DEF MirrorInv
<1>1. /\ UNCHANGED <<rev, entries, running, status, waiting, mutation, cancel, conn, here, host>>
      /\ down # <<>> /\ down' = Tail(down)
  BY DEF Loaded
<1>2. UNCHANGED <<prep, stops, returns, actor>>
  BY <1>1 DEF host
<1>3. PICK a : a = down[1]
  OBVIOUS
<1>4. ToSet(down) = ToSet(down') \cup {a} /\ Head(down) = a
  BY <1>1, <1>3, HeadTaken
<1>5. PICK m : m = [type |-> "reorder", order |-> <<>>]
  OBVIOUS
<1>6. m \in UpMsgs /\ m.type = "reorder"
  BY <1>5, EmptySeq DEF UpMsgs
<1>7. a.type = "loaded" /\ ((a.ok /\ Send(m)) \/ (~ a.ok /\ up' = up /\ recover' = "failed"))
  BY <1>4, <1>5 DEF Loaded
<1>8. /\ ToSet(up) \subseteq ToSet(up') /\ \A n \in ToSet(up') : n \in ToSet(up) \/ n = m
      /\ a.ok => m \in ToSet(up')
  <2>1. CASE a.ok /\ Send(m)
    <3>1. ToSet(up') = ToSet(up) \cup {m}
      BY <1>6, <2>1, SentSet
    <3> QED
      BY <3>1
  <2>2. CASE ~ a.ok /\ up' = up
    BY <2>2
  <2> QED
    BY <1>7, <2>1, <2>2
<1>9. \A type : type # "loaded" => (Has(down', type) <=> Has(down, type))
  BY <1>4, <1>7 DEF Has
<1>10. (Linked' <=> Linked) /\ (Synced' <=> Synced)
  BY <1>1, <1>9 DEF Linked, Synced
<1>11. ActorRests'
  BY <1>2, <1>m DEF ActorRests
<1>12. Mirrors'
  <2>1. ASSUME conn' = "up" PROVE Line(down', actor')
    <3>1. PICK t : t = down'
      OBVIOUS
    <3>2. Line(down, actor)
      BY <1>1, <1>m, <2>1 DEF Mirrors
    <3>3. Line(t, actor)
      BY <1>0, <1>1, <3>1, <3>2, LineTail
    <3> QED
      BY <1>2, <3>1, <3>3
  <2>2. \A n \in ToSet(down') : n \in ToSet(down)
    BY <1>4
  <2> QED
    BY <1>1, <1>2, <1>10, <1>m, <2>1, <2>2 DEF Mirrors
<1>13. SyncComes'
  <2>1. SUFFICES ASSUME Linked', recover' # "failed" PROVE actor'.on /\ Has(up', "reorder")
    BY DEF SyncComes
  <2>2. a.ok
    BY <1>7, <2>1
  <2>3. Has(up', "reorder")
    BY <1>6, <1>8, <2>2 DEF Has
  <2>4. Line(down, actor) /\ ~ Has(down, "reconnected")
    BY <1>10, <1>m, <2>1 DEF Mirrors, Linked
  <2>5. PICK t : t = Tail(down)
    OBVIOUS
  <2>6. actor.on
    BY <1>0, <1>1, <1>3, <1>7, <2>2, <2>4, <2>5, LineHead
  <2> QED
    BY <1>2, <2>3, <2>6
<1>14. AnswersHeard'
  BY <1>1, <1>2, <1>3, <1>7, <1>m, TakenAnswers
<1>15. AnsweredOnce' /\ Asked'
  BY <1>1, <1>2, <1>6, <1>8, <1>m DEF AnsweredOnce, Asked
<1>16. Submissions'
  <2>1. \A p \in Prompts : /\ (Underway(p) => Underway(p)') /\ (AnswerSent(p) => AnswerSent(p)')
                           /\ (Handled(p) => Handled(p)') /\ (Returned(p) => Returned(p)')
    <3>1. \A p \in Prompts : Underway(p) => Underway(p)'
      BY <1>8 DEF Underway
    <3>2. \A p \in Prompts : AnswerSent(p) => AnswerSent(p)'
      BY <1>4, <1>7 DEF AnswerSent
    <3> QED
      BY <1>2, <3>1, <3>2 DEF Handled, Returned
  <2> QED
    BY <1>1, <1>2, <1>10, <1>m, <2>1 DEF Submissions
<1>17. CancelEnds'
  <2>1. Has(up, "cancel") => Has(up', "cancel")
    BY <1>8 DEF Has
  <2>2. \A n \in ToSet(down) : n.type = "queue" => n \in ToSet(down')
    BY <1>4, <1>7
  <2> QED
    BY <1>1, <1>2, <1>10, <1>m, <2>1, <2>2 DEF CancelEnds
<1>18. MutationEnds'
  <2>1. Pending' <=> Pending
    BY <1>1 DEF Pending
  <2>2. \A n \in ToSet(up) : n \in ToSet(up')
    BY <1>8
  <2> QED
    BY <1>1, <1>9, <1>10, <1>m, <2>1, <2>2 DEF MutationEnds
<1> QED
  BY <1>11, <1>12, <1>13, <1>14, <1>15, <1>16, <1>17, <1>18 DEF MirrorInv

-----------------------------------------------------------------------------
(* The theorems *)

LEMMA NoMessages == ToSet(<<>>) = {} /\ Len(<<>>) = 0 /\ Ids(<<>>) = {}
BY EmptyIds DEF ToSet

LEMMA MirrorInvInit == Init => MirrorInv
<1> SUFFICES ASSUME Init PROVE MirrorInv
  OBVIOUS
<1>1. /\ actor.on = TRUE /\ actor.pend = <<>> /\ actor.task = None /\ actor.rev = 1
      /\ actor.out = <<>> /\ actor.replied = {}
  BY DEF Init, NoActor
<1>2. /\ ToSet(up) = {} /\ ToSet(down) = {} /\ Len(down) = 0 /\ 1 .. Len(down) = {}
  BY NoMessages DEF Init
<1>3. ActorRests
  BY <1>1 DEF ActorRests
<1>4. Line(down, actor)
  BY <1>2 DEF Line, Snaps
<1>5. Shows(entries, running, actor)
  <2>1. actor \in Actors
    BY ConvInvInit DEF ConvInv, Types
  <2>2. QueueWire(actor) = <<>>
    BY <1>1, <2>1, NoMessages, WireEmpty
  <2> QED
    BY <1>1, <2>2 DEF Shows, Init
<1>6. Mirrors
  BY <1>1, <1>2, <1>4, <1>5 DEF Mirrors, Init
<1>7. SyncComes
  BY DEF SyncComes, Init
<1>8. AnswersHeard
  BY <1>2 DEF AnswersHeard, Preceded, Init
<1>9. AnsweredOnce /\ Asked
  BY DEF AnsweredOnce, Asked, Init
<1>10. Submissions
  BY DEF Submissions, Init
<1>11. CancelEnds /\ MutationEnds
  BY DEF CancelEnds, MutationEnds, Pending, NoCancel, Init
<1> QED
  BY <1>3, <1>6, <1>7, <1>8, <1>9, <1>10, <1>11 DEF MirrorInv

LEMMA MirrorInvStep == ConvInv /\ ConvInv' /\ Drafted /\ MirrorInv /\ [Next]_vars => MirrorInv'
<1> SUFFICES ASSUME ConvInv, ConvInv', Drafted, MirrorInv, [Next]_vars PROVE MirrorInv'
  OBVIOUS
<1>0. CASE \E p \in Prompts : Prepare(p) \/ PreparationFails(p)
  BY <1>0, PreparationMirrors
<1>1. CASE \E p \in Prompts, now \in BOOLEAN : Submit(p, now)
  BY <1>1, SubmitMirrors
<1>2. CASE \/ \E e \in ToSet(entries) :
                RemoveQueuedPrompt(e) \/ EditQueuedPrompt(e) \/ SendQueuedPromptNow(e)
           \/ ReorderQueuedPrompts \/ ClearQueuedPrompts
  BY <1>2, OperationsMirror
<1>3. CASE CancelCurrentTask \/ Reopen
  BY <1>3, CancelCurrentTaskMirrors, ReopenMirrors
<1>4. CASE \E a \in returns : Reply(a)
  BY <1>4, ReplyMirrors
<1>5. CASE \E p \in Prompts : TimeOut(p)
  BY <1>5, TimeOutMirrors
<1>6. CASE Deliver
  BY <1>6, DeliverPromptMirrors, DeliverCancelMirrors, DeliverLoadMirrors, QueueOpMirrors DEF Deliver
<1>7. CASE Receive
  BY <1>7, AnswerMirrors, QueueChangedMirrors, ReconnectedMirrors, LoadedMirrors DEF Receive
<1>8. CASE Stop \/ Complete
  BY <1>8, StopMirrors, CompleteMirrors
<1>9. CASE \E p \in prep : Enqueue(p) \/ PrepareFails(p)
  BY <1>9, EnqueueMirrors, PrepareFailsMirrors
<1>10. CASE \E t \in Turns : Finish(t)
  BY <1>10, FinishMirrors
<1>11. CASE \E w \in Wakes : Wake(w)
  BY <1>11, WakeMirrors
<1>12. CASE Drop \/ Reconnect \/ Announce
  BY <1>12, DropMirrors, ReconnectMirrors, AnnounceMirrors
<1>13. CASE Revalidate \/ Restore
  BY <1>13, RevalidateMirrors, RestoreMirrors
<1>14. CASE UNCHANGED vars
  BY <1>14, UnchangedMirrors
<1> QED
  BY <1>0, <1>1, <1>2, <1>3, <1>4, <1>5, <1>6, <1>7, <1>8, <1>9, <1>10, <1>11, <1>12, <1>13, <1>14
  DEF Next

\* Nothing is on its way: the desktop listens, and a load that was not refused has
\* synchronised it.
LEMMA QuietSynced ==
    ASSUME ConvInv, MirrorInv, Quiet
    PROVE  /\ ToSet(up) = {} /\ ToSet(down) = {} /\ Linked
           /\ rev >= 0 => Synced
           /\ recover # "failed" => rev >= 0
<1>1. ToSet(up) = {} /\ ToSet(down) = {} /\ conn = "up"
  BY NoMessages DEF Quiet
<1>2. Linked /\ (rev >= 0 => Synced)
  BY <1>1 DEF Linked, Synced, Has
<1>3. recover # "failed" => rev # -1
  BY <1>1, <1>2 DEF MirrorInv, SyncComes, Has
<1>4. rev \in Nat \cup {-1}
  BY DEF ConvInv, Types
<1> QED
  BY <1>1, <1>2, <1>3, <1>4

LEMMA ConvergedMirror == ConvInv /\ MirrorInv => MirrorConverges
<1> SUFFICES ASSUME ConvInv, MirrorInv, Quiet, rev >= 0 PROVE Shows(entries, running, actor)
  BY DEF MirrorConverges, Shows
<1> QED
  BY QuietSynced DEF MirrorInv, Mirrors

LEMMA SettledSubmissions == ConvInv /\ MirrorInv => SubmissionsSettle
<1> SUFFICES ASSUME ConvInv, MirrorInv, Quiet, recover # "failed",
                    NEW p \in Prompts, status[p] \in {"submitting", "unknown"}
             PROVE  p \notin waiting /\ p \in Live(entries, running)
  BY DEF SubmissionsSettle
<1>1. Linked /\ Synced /\ ToSet(up) = {} /\ ToSet(down) = {}
  BY QuietSynced
<1>2. prep = {} /\ returns = {}
  BY DEF Quiet
<1>3. ~ Underway(p) /\ ~ AnswerSent(p) /\ ~ Handled(p) /\ ~ Returned(p)
  BY <1>1, <1>2 DEF Underway, AnswerSent, Handled, Returned
<1>4. status[p] # "submitting"
  BY <1>1, <1>3 DEF MirrorInv, Submissions
<1>5. p \notin waiting /\ p \in Ids(actor.pend)
  BY <1>1, <1>4 DEF MirrorInv, Submissions
<1>6. Shows(entries, running, actor) /\ actor \in Actors /\ Orderly(actor)
  BY <1>1 DEF MirrorInv, Mirrors, ConvInv, Types
<1> QED
  BY <1>5, <1>6, ShowsLive

LEMMA SettledCancels == ConvInv /\ MirrorInv => CancelsSettle
<1> SUFFICES ASSUME ConvInv, MirrorInv, Quiet, recover # "failed", cancel.on PROVE FALSE
  BY DEF CancelsSettle
<1>1. Linked /\ ToSet(up) = {} /\ ToSet(down) = {} /\ rev >= 0 /\ stops = 0
  BY QuietSynced DEF Quiet
<1>2. ~ (stops > 0) /\ rev # -1
  BY <1>1
<1> QED
  BY <1>1, <1>2 DEF MirrorInv, CancelEnds, Has

LEMMA SettledMutations == ConvInv /\ MirrorInv => MutationsSettle
<1> SUFFICES ASSUME ConvInv, MirrorInv, Quiet, recover # "failed", mutation # None
             PROVE  mutation.failed
  BY DEF MutationsSettle
<1>1. Linked /\ ToSet(up) = {} /\ ToSet(down) = {}
  BY QuietSynced
<1>2. ~ Pending
  BY <1>1 DEF MirrorInv, MutationEnds, Has
<1> QED
  BY <1>2 DEF Pending

\* The invariants together are inductive.
LEMMA MirrorAlways == Spec => [](ConvInv /\ MirrorInv)
<1> DEFINE Inv == ConvInv /\ Drafted /\ MirrorInv
<1>1. Init => Inv
  BY ConvInvInit, DraftedInit, MirrorInvInit
<1>2. Inv /\ [Next]_vars => Inv'
  BY ConvInvStep, DraftedStep, MirrorInvStep
<1> QED
  BY <1>1, <1>2, PTL DEF Spec

\* Once nothing is on its way, the mirror of the desktop (#handleQueueChanged) shows
\* the actor's queue and the turn that runs, up to the end of a synthetic turn, which
\* handle_completion does not broadcast: for any messages, synthetic turns, queue
\* operations, cancels, lost connections and restarts of the Leader.
THEOREM MirrorFollowsActor == Spec => []MirrorConverges
<1>1. ConvInv /\ MirrorInv => MirrorConverges
  BY ConvergedMirror
<1> QED
  BY <1>1, MirrorAlways, PTL

\* No message keeps an open fate: whatever was cancelled, refused, timed out or lost
\* with its connection, once nothing is on its way it is settled, or its request timed
\* out and the queue still shows it; unless the Host refused to load the session again
\* (#submit, #completeSubmission, #failSubmission and
\* the reconciliation by a snapshot).
THEOREM SubmissionsGetSettled == Spec => []SubmissionsSettle
<1>1. ConvInv /\ MirrorInv => SubmissionsSettle
  BY SettledSubmissions
<1> QED
  BY <1>1, MirrorAlways, PTL

\* No cancel stays pending: a cancel that arrived made the actor broadcast a snapshot
\* without a running turn (cancel_running_task), and one that was lost with its
\* connection was forgotten by #handleReconnect; unless the Host refused to load the
\* session again.
THEOREM CancelsGetSettled == Spec => []CancelsSettle
<1>1. ConvInv /\ MirrorInv => CancelsSettle
  BY SettledCancels
<1> QED
  BY <1>1, MirrorAlways, PTL

\* No queue operation stays pending: every one that arrived made the actor broadcast a
\* newer snapshot, an edit too, since the mirror only offers to edit what is queued, and
\* the snapshot confirmed or failed it (#reconcileQueueMutation); unless the Host
\* refused to load the session again.
THEOREM MutationsGetSettled == Spec => []MutationsSettle
<1>1. ConvInv /\ MirrorInv => MutationsSettle
  BY SettledMutations
<1> QED
  BY <1>1, MirrorAlways, PTL
=============================================================================
