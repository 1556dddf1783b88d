------------------------- MODULE ConversationProofs -------------------------
(***************************************************************************)
(* Proofs about Conversation, for any prompts and synthetic turns, any      *)
(* bound of events and with or without crashes of the Leader: type          *)
(* correctness, and that no message is executed twice.  First what the      *)
(* helpers on sequences return, then what each arm of the session actor     *)
(* does to an orderly actor, then the steps of the Host and of the desktop. *)
(***************************************************************************)
EXTENDS Conversation, SequenceTheorems, FiniteSetTheorems, TLAPS

-----------------------------------------------------------------------------
(* Sequences and the positions in them *)

\* A set of naturals has a least element.
LEMMA NatMin ==
    ASSUME NEW S \in SUBSET Nat, S # {}
    PROVE  Min(S) \in S /\ \A y \in S : Min(S) <= y
<1>1. PICK x \in S : \A y \in S : ~ (<<y, x>> \in OpToRel(<, Nat))
  BY NatLessThanWellFounded, WFMin
<1>2. \A y \in S : x <= y
  <2>1. SUFFICES ASSUME NEW y \in S, y < x PROVE FALSE
    OBVIOUS
  <2>2. <<y, x>> \in OpToRel(<, Nat)
    BY <2>1 DEF OpToRel
  <2> QED
    BY <1>1, <2>2
<1>3. \E m \in S : \A y \in S : m <= y
  BY <1>2
<1> QED
  BY <1>3 DEF Min

LEMMA FinitePositions ==
    ASSUME NEW n \in Nat, NEW at \in SUBSET (1 .. n)
    PROVE  IsFiniteSet(at) /\ Cardinality(at) \in Nat
<1>1. IsFiniteSet(1 .. n)
  BY FS_Interval
<1>2. IsFiniteSet(at)
  BY <1>1, FS_Subset
<1> QED
  BY <1>2, FS_CardinalityType

\* Positions have places of their own, numbered from 1 without a gap.
LEMMA PlacesDiffer ==
    ASSUME NEW n \in Nat, NEW at \in SUBSET (1 .. n), NEW weight \in [at -> Int],
           NEW j \in at, NEW k \in at, j # k
    PROVE  Place(at, weight, j) # Place(at, weight, k)
<1> DEFINE Before(x) == {i \in at : weight[i] < weight[x] \/ (weight[i] = weight[x] /\ i <= x)}
<1>1. IsFiniteSet(at)
  BY FinitePositions
<1>2. at \subseteq Int
  OBVIOUS
<1>3. CASE Before(j) \subseteq Before(k)
  <2>1. k \in Before(k) /\ k \notin Before(j)
    BY <1>2, <1>3
  <2>2. IsFiniteSet(Before(k))
    BY <1>1, FS_Subset
  <2>3. Before(j) \in SUBSET Before(k)
    BY <1>3
  <2>4. Cardinality(Before(j)) # Cardinality(Before(k))
    <3> HIDE DEF Before
    <3> QED
      BY <2>1, <2>2, <2>3, FS_Subset
  <2> QED
    BY <2>4 DEF Place
<1>4. CASE Before(k) \subseteq Before(j)
  <2>1. j \in Before(j) /\ j \notin Before(k)
    BY <1>2, <1>4
  <2>2. IsFiniteSet(Before(j))
    BY <1>1, FS_Subset
  <2>3. Before(k) \in SUBSET Before(j)
    BY <1>4
  <2>4. Cardinality(Before(j)) # Cardinality(Before(k))
    <3> HIDE DEF Before
    <3> QED
      BY <2>1, <2>2, <2>3, FS_Subset
  <2> QED
    BY <2>4 DEF Place
<1>5. Before(j) \subseteq Before(k) \/ Before(k) \subseteq Before(j)
  <2>0. \A i \in at : weight[i] \in Int /\ i \in Int
    BY <1>2
  <2>1. ASSUME weight[j] < weight[k] \/ (weight[j] = weight[k] /\ j <= k)
        PROVE  Before(j) \subseteq Before(k)
    <3>1. SUFFICES ASSUME NEW i \in at, weight[i] < weight[j] \/ (weight[i] = weight[j] /\ i <= j)
                   PROVE  weight[i] < weight[k] \/ (weight[i] = weight[k] /\ i <= k)
      OBVIOUS
    <3> QED
      BY <2>0, <2>1, <3>1
  <2>2. ASSUME weight[k] < weight[j] \/ (weight[k] = weight[j] /\ k <= j)
        PROVE  Before(k) \subseteq Before(j)
    <3>1. SUFFICES ASSUME NEW i \in at, weight[i] < weight[k] \/ (weight[i] = weight[k] /\ i <= k)
                   PROVE  weight[i] < weight[j] \/ (weight[i] = weight[j] /\ i <= j)
      OBVIOUS
    <3> QED
      BY <2>0, <2>2, <3>1
  <2>3. \/ weight[j] < weight[k] \/ (weight[j] = weight[k] /\ j <= k)
        \/ weight[k] < weight[j] \/ (weight[k] = weight[j] /\ k <= j)
    BY <2>0
  <2> QED
    BY <2>1, <2>2, <2>3
<1> QED
  BY <1>3, <1>4, <1>5

LEMMA PlaceInRange ==
    ASSUME NEW n \in Nat, NEW at \in SUBSET (1 .. n), NEW weight \in [at -> Int], NEW k \in at
    PROVE  Place(at, weight, k) \in 1 .. Cardinality(at)
<1> DEFINE B == {i \in at : weight[i] < weight[k] \/ (weight[i] = weight[k] /\ i <= k)}
<1>1. IsFiniteSet(at)
  BY FinitePositions
<1>2. k \in B
  OBVIOUS
<1>3. B \in SUBSET at
  OBVIOUS
<1>4. IsFiniteSet(B) /\ Cardinality(B) <= Cardinality(at) /\ Cardinality(at) \in Nat /\ Cardinality(B) \in Nat
  BY <1>1, <1>3, FS_Subset, FS_CardinalityType
<1>5. Cardinality(B) # 0
  <2> HIDE DEF B
  <2> QED
    BY <1>2, <1>4, FS_EmptySet
<1> QED
  BY <1>4, <1>5 DEF Place

\* p lists the positions at by weight, each once, and r the items of s there.
Lists(p, r, s, at, weight) ==
    /\ r = [j \in 1 .. Cardinality(at) |-> s[p[j]]]
    /\ p \in [1 .. Cardinality(at) -> at]
    /\ \A j, k \in 1 .. Cardinality(at) : p[j] = p[k] => j = k
    /\ \A k \in at : \E j \in 1 .. Cardinality(at) : p[j] = k
    /\ \A j \in 1 .. Cardinality(at) : Place(at, weight, p[j]) = j

LEMMA Arrangement ==
    ASSUME NEW n \in Nat, NEW at \in SUBSET (1 .. n), NEW weight \in [at -> Int], NEW s
    PROVE  \E p : Lists(p, Arranged(s, at, weight), s, at, weight)
<1> DEFINE c == Cardinality(at)
           f == [k \in at |-> Place(at, weight, k)]
           p == [j \in 1 .. c |-> CHOOSE k \in at : Place(at, weight, k) = j]
<1>1. IsFiniteSet(at) /\ c \in Nat
  BY FinitePositions
<1>2. f \in Injection(at, 1 .. c)
  BY PlaceInRange, PlacesDiffer DEF Injection, IsInjective
<1>3. IsFiniteSet(1 .. c) /\ Cardinality(1 .. c) = c
  BY <1>1, FS_Interval
<1>4. f \in Surjection(at, 1 .. c)
  <2> HIDE DEF f
  <2> QED
    BY <1>1, <1>2, <1>3, FS_Injection
<1>5. \A j \in 1 .. c : \E k \in at : Place(at, weight, k) = j
  BY <1>4 DEF Surjection
<1>6. \A j \in 1 .. c : p[j] \in at /\ Place(at, weight, p[j]) = j
  BY <1>5
<1>7. p \in [1 .. c -> at]
  BY <1>6
<1>8. \A k \in at : \E j \in 1 .. c : p[j] = k
  <2>1. SUFFICES ASSUME NEW k \in at PROVE \E j \in 1 .. c : p[j] = k
    OBVIOUS
  <2>2. Place(at, weight, k) \in 1 .. c
    BY PlaceInRange
  <2>3. p[Place(at, weight, k)] \in at /\ Place(at, weight, p[Place(at, weight, k)]) = Place(at, weight, k)
    BY <1>6, <2>2
  <2>4. p[Place(at, weight, k)] = k
    <3> HIDE DEF p
    <3> QED
      BY <2>3, PlacesDiffer
  <2> QED
    BY <2>2, <2>4
<1>9. Arranged(s, at, weight) = [j \in 1 .. c |-> s[p[j]]]
  BY DEF Arranged
<1>10. \A j, k \in 1 .. c : p[j] = p[k] => j = k
  <2> HIDE DEF p
  <2> QED
    BY <1>6
<1> HIDE DEF p
<1>11. Lists(p, Arranged(s, at, weight), s, at, weight)
  BY <1>6, <1>7, <1>8, <1>9, <1>10 DEF Lists
<1> QED
  BY <1>11
-----------------------------------------------------------------------------
(* The invariant *)

\* Shapes: items of the queue, snapshots, messages, the actor.
Item == [id : Turns, ver : Nat, text : 0 .. MaxEvents, now : BOOLEAN]

Snapshot == [type : {"queue"}, rev : Nat, entries : Seq(Entry), running : Turns \cup {None}]

UpMsgs ==
    [type : {"prompt"}, id : Prompts, now : BOOLEAN]
    \cup [type : {"cancel", "load", "clear"}]
    \cup [type : {"remove", "now"}, id : Prompts, ver : Nat]
    \cup [type : {"edit"}, id : Prompts, text : 0 .. MaxEvents]
    \cup [type : {"reorder"}, order : Seq(Prompts)]

DownMsgs ==
    Snapshot \cup [type : {"answer"}, id : Prompts, ok : BOOLEAN]
    \cup [type : {"loaded"}, ok : BOOLEAN] \cup [type : {"reconnected"}]

Actors ==
    [on : BOOLEAN, pend : Seq(Item), task : Turns \cup {None}, live : SUBSET Turns,
     done : Seq(Turns), rev : Nat, out : Seq(Snapshot), replied : SUBSET Turns,
     starts : [Turns -> Nat]]

Ids(s) == {s[k].id : k \in 1 .. Len(s)}

Distinct(s) == \A j, k \in 1 .. Len(s) : s[j].id = s[k].id => j = k

\* The running turn is at the front; what waits has not started; what started runs,
\* or ended, once.
Orderly(q) ==
    /\ Distinct(q.pend)
    /\ q.task # None => q.pend # <<>> /\ q.pend[1].id = q.task
    /\ \A k \in 1 .. Len(q.pend) : q.pend[k].id # q.task => q.starts[q.pend[k].id] = 0
    /\ q.live \subseteq {q.task}
    /\ \A t \in Turns : q.starts[t] <= 1
    /\ \A t \in q.live : q.starts[t] = 1
    /\ \A k \in 1 .. Len(q.done) : q.starts[q.done[k]] = 1 /\ q.done[k] \notin q.live

\* The actor has not seen the prompt.
Unseen(p) == p \notin Ids(actor.pend) /\ actor.starts[p] = 0

Cancels(s) == {k \in 1 .. Len(s) : s[k].type = "cancel"}

\* Every variable has its type, to the shape of the messages and of the actor.
Types ==
    /\ rev \in Nat \cup {-1} /\ entries \in Seq(Entry)
    /\ running \in Turns \cup {None} /\ busy \in BOOLEAN
    /\ status \in [Prompts -> {"new", "submitting", "queued", "running", "unknown", "over"}]
    /\ waiting \subseteq Prompts
    /\ cancel \in [on : BOOLEAN, id : Turns \cup {None}]
    /\ recover \in {"idle", "loading", "failed"}
    /\ conn \in {"up", "down", "replay"} /\ here \subseteq Prompts
    /\ up \in Seq(UpMsgs) /\ down \in Seq(DownMsgs)
    /\ returns \subseteq [id : Prompts, ok : BOOLEAN]
    /\ access \in BOOLEAN /\ prep \subseteq Submitted /\ stops \in Nat
    /\ actor \in Actors
    /\ events \in 0 .. MaxEvents

\* Each command to cancel, on its way or taken, is one of the counted events.
StopsCounted == stops + Cardinality(Cancels(up)) <= events

\* A message that is being prepared is not submitted yet, and one that waits for its answer is.
Drafted ==
    /\ \A p \in drafts : p \in Prompts /\ status[p] = "new"
    /\ \A p \in waiting : status[p] # "new"

\* A message is on its way to the actor at one place at most.
SentOnce ==
    /\ \A j, k \in 1 .. Len(up) :
         up[j].type = "prompt" /\ up[k].type = "prompt" /\ up[j].id = up[k].id => j = k
    /\ \A k \in 1 .. Len(up) : up[k].type = "prompt" =>
         /\ Unseen(up[k].id) /\ status[up[k].id] # "new"
         /\ \A p \in prep : p.id # up[k].id
    /\ \A p \in prep : Unseen(p.id) /\ status[p.id] # "new" /\ \A o \in prep : o.id = p.id => o = p
    /\ \A p \in Prompts : status[p] = "new" => Unseen(p)

ConvInv == Types /\ StopsCounted /\ Orderly(actor) /\ SentOnce

-----------------------------------------------------------------------------
(* Lemmas about the arms of the actor *)

LEMMA FirstPlace ==
    ASSUME NEW n \in Nat, NEW at \in SUBSET (1 .. n), NEW weight \in [at -> Int],
           1 \in at, \A i \in at : weight[1] <= weight[i]
    PROVE  Place(at, weight, 1) = 1
<1>1. \A i \in at : weight[i] \in Int /\ i \in Int /\ i >= 1
  OBVIOUS
<1>2. {i \in at : weight[i] < weight[1] \/ (weight[i] = weight[1] /\ i <= 1)} = {1}
  <2>1. \A i \in at : (weight[i] < weight[1] \/ (weight[i] = weight[1] /\ i <= 1)) => i = 1
    BY <1>1
  <2> QED
    BY <2>1, <1>1
<1> QED
  BY <1>2, FS_Singleton DEF Place

\* r consists of items of s at positions of at, each at most once.
Picks(r, s, at) ==
    \E p \in [1 .. Len(r) -> at] :
        /\ \A j, k \in 1 .. Len(r) : p[j] = p[k] => j = k
        /\ \A j \in 1 .. Len(r) : r[j] = s[p[j]]

\* Rearranged items are items of the sequence, each once.
LEMMA ArrangedItems ==
    ASSUME NEW S, NEW s \in Seq(S), NEW at \in SUBSET (1 .. Len(s)), NEW weight \in [at -> Int]
    PROVE  /\ Arranged(s, at, weight) \in Seq(S)
           /\ Picks(Arranged(s, at, weight), s, at)
           /\ (1 \in at /\ \A i \in at : weight[1] <= weight[i]) =>
                /\ Arranged(s, at, weight) # <<>>
                /\ Arranged(s, at, weight)[1] = s[1]
<1> DEFINE c == Cardinality(at)
           r == Arranged(s, at, weight)
<1>0. Len(s) \in Nat /\ s \in [1 .. Len(s) -> S]
  BY LenProperties
<1>1. c \in Nat /\ IsFiniteSet(at)
  BY <1>0, FinitePositions
<1>2. PICK p : Lists(p, r, s, at, weight)
  BY <1>0, Arrangement
<1>p. /\ r = [j \in 1 .. c |-> s[p[j]]]
      /\ p \in [1 .. c -> at]
      /\ \A j, k \in 1 .. c : p[j] = p[k] => j = k
      /\ \A k \in at : \E j \in 1 .. c : p[j] = k
      /\ \A j \in 1 .. c : Place(at, weight, p[j]) = j
  BY <1>2 DEF Lists
<1>3. \A j \in 1 .. c : s[p[j]] \in S
  BY <1>0, <1>p
<1>4. r \in Seq(S) /\ Len(r) = c /\ \A j \in 1 .. c : r[j] = s[p[j]]
  <2> HIDE DEF c
  <2>1. r \in [1 .. c -> S]
    BY <1>p, <1>3
  <2>2. r \in Seq(S)
    BY <1>1, <2>1
  <2>3. Len(r) = c
    BY <1>1, <2>1, <2>2, LenProperties
  <2> QED
    BY <1>p, <2>2, <2>3
<1>5. ASSUME 1 \in at, \A i \in at : weight[1] <= weight[i]
      PROVE  r # <<>> /\ r[1] = s[1]
  <2>1. PICK j \in 1 .. c : p[j] = 1
    BY <1>p, <1>5
  <2>2. Place(at, weight, 1) = 1
    BY <1>0, <1>5, FirstPlace
  <2>3. j = 1
    BY <1>p, <2>1, <2>2
  <2>4. 1 \in 1 .. c /\ p[1] = 1
    BY <2>1, <2>3
  <2>5. Len(r) # 0
    BY <1>1, <1>4, <2>4
  <2> QED
    BY <1>4, <2>4, <2>5, EmptySeq
<1> HIDE DEF c, r
<1>b. /\ p \in [1 .. Len(r) -> at]
      /\ \A j, k \in 1 .. Len(r) : p[j] = p[k] => j = k
      /\ \A j \in 1 .. Len(r) : r[j] = s[p[j]]
  BY <1>p, <1>4
<1>6. /\ r \in Seq(S)
      /\ Picks(r, s, at)
      /\ (1 \in at /\ \A i \in at : weight[1] <= weight[i]) => r # <<>> /\ r[1] = s[1]
  BY <1>b, <1>4, <1>5 DEF Picks
<1> QED
  BY <1>6 DEF r

LEMMA SelectedItems ==
    ASSUME NEW S, NEW s \in Seq(S), NEW at \in SUBSET (1 .. Len(s))
    PROVE  /\ Selected(s, at) \in Seq(S)
           /\ Picks(Selected(s, at), s, at)
           /\ 1 \in at => Selected(s, at) # <<>> /\ Selected(s, at)[1] = s[1]
<1> DEFINE w == [k \in at |-> 0]
<1>1. w \in [at -> Int] /\ (1 \in at => \A i \in at : w[1] <= w[i])
  OBVIOUS
<1>2. Selected(s, at) = Arranged(s, at, w)
  BY DEF Selected
<1> HIDE DEF w
<1>3. /\ Arranged(s, at, w) \in Seq(S)
      /\ Picks(Arranged(s, at, w), s, at)
      /\ (1 \in at /\ \A i \in at : w[1] <= w[i]) =>
           Arranged(s, at, w) # <<>> /\ Arranged(s, at, w)[1] = s[1]
  BY <1>1, ArrangedItems
<1> QED
  BY <1>1, <1>2, <1>3

LEMMA QueueWireTyped ==
    ASSUME NEW q \in Actors
    PROVE  QueueWire(q) \in Seq(Entry)
<1> DEFINE at == Queueable(q)
           s == Selected(q.pend, at)
           e == [k \in 1 .. Len(s) |-> [id |-> s[k].id, ver |-> s[k].ver, text |-> s[k].text]]
<1>0. q.pend \in Seq(Item) /\ at \in SUBSET (1 .. Len(q.pend))
  BY DEF Actors, Queueable
<1>1. s \in Seq(Item) /\ Picks(s, q.pend, at)
  <2> HIDE DEF at
  <2> QED
    BY <1>0, SelectedItems
<1>2. PICK p \in [1 .. Len(s) -> at] : \A j \in 1 .. Len(s) : s[j] = q.pend[p[j]]
  BY <1>1 DEF Picks
<1>3. Len(s) \in Nat /\ \A k \in 1 .. Len(s) : s[k] \in Item
  BY <1>1, LenProperties
<1>4. \A k \in 1 .. Len(s) : s[k].id \in Prompts
  <2> HIDE DEF s
  <2> QED
    BY <1>2 DEF Queueable
<1> HIDE DEF s
<1>5. \A k \in 1 .. Len(s) : e[k] \in Entry
  BY <1>3, <1>4 DEF Item, Entry
<1>6. e \in [1 .. Len(s) -> Entry]
  BY <1>5
<1>7. e \in Seq(Entry)
  BY <1>3, <1>6
<1> QED
  BY <1>7 DEF QueueWire, s

\* What an arm leaves alone of the order: nothing new but S came in, and nothing
\* that was not there started.
Keeps(q, r, S) ==
    /\ Ids(r.pend) \subseteq Ids(q.pend) \cup S
    /\ \A t \in Turns : t \notin Ids(q.pend) \cup S => r.starts[t] = q.starts[t]

LEMMA KeepsTransitive ==
    ASSUME NEW q \in Actors, NEW r \in Actors, NEW s \in Actors, NEW S,
           Keeps(q, r, S), Keeps(r, s, {})
    PROVE  Keeps(q, s, S)
BY DEF Keeps

LEMMA ActorUpdate ==
    ASSUME NEW q \in Actors
    PROVE  /\ \A v \in Seq(Item) : [q EXCEPT !.pend = v] \in Actors
           /\ \A v \in Turns \cup {None} : [q EXCEPT !.task = v] \in Actors
           /\ \A v \in SUBSET Turns : [q EXCEPT !.live = v] \in Actors
           /\ \A v \in Seq(Turns) : [q EXCEPT !.done = v] \in Actors
           /\ \A v \in Nat : [q EXCEPT !.rev = v] \in Actors
           /\ \A v \in Seq(Snapshot) : [q EXCEPT !.out = v] \in Actors
           /\ \A v \in SUBSET Turns : [q EXCEPT !.replied = v] \in Actors
           /\ \A v \in [Turns -> Nat] : [q EXCEPT !.starts = v] \in Actors
           /\ \A v \in BOOLEAN : [q EXCEPT !.on = v] \in Actors
BY DEF Actors

LEMMA BroadcastFits ==
    ASSUME NEW q \in Actors
    PROVE  /\ Broadcast(q) \in Actors
           /\ Broadcast(q).pend = q.pend /\ Broadcast(q).task = q.task
           /\ Broadcast(q).live = q.live /\ Broadcast(q).done = q.done
           /\ Broadcast(q).starts = q.starts
<1> DEFINE sent == QueueWire(q)
           m == [type |-> "queue", rev |-> q.rev + 1, entries |-> sent, running |-> q.task]
           o == Append(q.out, m)
           a == [q EXCEPT !.rev = q.rev + 1]
           b == [a EXCEPT !.out = o]
<1>1. sent \in Seq(Entry)
  BY QueueWireTyped
<1>2. q.rev \in Nat /\ q.task \in Turns \cup {None} /\ q.out \in Seq(Snapshot)
  BY DEF Actors
<1> HIDE DEF sent
<1>3. m \in Snapshot
  BY <1>1, <1>2 DEF Snapshot
<1> HIDE DEF m
<1>4. o \in Seq(Snapshot)
  BY <1>2, <1>3, AppendProperties
<1> HIDE DEF o
<1>a. a \in Actors /\ b \in Actors
  <2>1. a \in Actors
    BY <1>2, ActorUpdate
  <2> HIDE DEF a
  <2> QED
    BY <2>1, <1>4, ActorUpdate
<1>5. b \in Actors /\ b.pend = q.pend /\ b.task = q.task /\ b.live = q.live /\ b.done = q.done
      /\ b.starts = q.starts
  BY <1>a DEF Actors
<1>6. Broadcast(q) = b
  BY DEF Broadcast, o, m, sent
<1> QED
  BY <1>5, <1>6

\* The queue only shows in a broadcast.
LEMMA BroadcastKeeps ==
    ASSUME NEW q \in Actors
    PROVE  /\ Broadcast(q) \in Actors
           /\ Orderly(q) => Orderly(Broadcast(q))
           /\ Keeps(q, Broadcast(q), {})
<1> DEFINE b == Broadcast(q)
<1>1. /\ b \in Actors /\ b.pend = q.pend /\ b.task = q.task /\ b.live = q.live /\ b.done = q.done
      /\ b.starts = q.starts
  BY BroadcastFits
<1> HIDE DEF b
<1>2. Orderly(q) => Orderly(b)
  BY <1>1 DEF Orderly
<1>3. Keeps(q, b, {})
  BY <1>1 DEF Keeps
<1> QED
  BY <1>1, <1>2, <1>3 DEF b

LEMMA FrontFacts ==
    ASSUME NEW q \in Actors, q.pend # <<>>
    PROVE  /\ Len(q.pend) \in Nat /\ 1 \in 1 .. Len(q.pend) /\ Head(q.pend) = q.pend[1]
           /\ q.pend[1] \in Item /\ q.pend[1].id \in Turns
<1>1. q.pend \in Seq(Item)
  BY DEF Actors
<1>2. Len(q.pend) \in Nat \ {0}
  BY <1>1, EmptySeq
<1>3. 1 \in 1 .. Len(q.pend)
  BY <1>2
<1>4. q.pend[1] \in Item
  BY <1>1, <1>3, ElementOfSeq
<1>5. q.pend[1].id \in Turns
  BY <1>4 DEF Item
<1>6. Head(q.pend) = q.pend[1]
  BY <1>1
<1> QED
  BY <1>2, <1>3, <1>4, <1>5, <1>6

LEMMA CountUp ==
    ASSUME NEW f \in [Turns -> Nat], NEW t \in Turns
    PROVE  [f EXCEPT ![t] = f[t] + 1] \in [Turns -> Nat]
OBVIOUS

LEMMA MaybeStartKeeps ==
    ASSUME NEW q \in Actors, Orderly(q)
    PROVE  /\ MaybeStart(q) \in Actors /\ Orderly(MaybeStart(q))
           /\ Keeps(q, MaybeStart(q), {})
<1>1. CASE q.task # None \/ q.pend = <<>>
  <2>1. MaybeStart(q) = q
    BY <1>1 DEF MaybeStart
  <2>2. Keeps(q, q, {})
    BY DEF Keeps
  <2> QED
    BY <2>1, <2>2
<1>2. CASE q.task = None /\ q.pend # <<>>
  <2> DEFINE id == q.pend[1].id
             r == [q EXCEPT !.task = id, !.live = @ \cup {id}, !.starts[id] = @ + 1]
  <2>1. /\ 1 \in 1 .. Len(q.pend) /\ id \in Turns /\ Head(q.pend) = q.pend[1]
        /\ id # None
    BY <1>2, FrontFacts, ConversationAssumption
  <2>2. MaybeStart(q) = Broadcast(r)
    BY <1>2, <2>1 DEF MaybeStart
  <2>3. q.starts[id] = 0 /\ q.live = {}
    BY <1>2, <2>1, ConversationAssumption DEF Orderly, Actors
  <2> HIDE DEF id
  <2>4. /\ r.pend = q.pend /\ r.task = id /\ r.live = {id} /\ r.done = q.done
        /\ r.starts = [q.starts EXCEPT ![id] = 1]
    BY <2>1, <2>3 DEF Actors
  <2>5. r \in Actors
    <3>1. PICK a \in Actors : a = [q EXCEPT !.task = id]
      BY <2>1, ActorUpdate
    <3>2. PICK b \in Actors : b = [a EXCEPT !.live = @ \cup {id}]
      <4>1. a.live \cup {id} \in SUBSET Turns
        BY <2>1 DEF Actors
      <4> QED
        BY <4>1, ActorUpdate
    <3>3. b.starts = q.starts /\ q.starts \in [Turns -> Nat] /\ q.starts[id] \in Nat
      BY <2>1, <3>1, <3>2 DEF Actors
    <3>4. PICK f \in [Turns -> Nat] : f = [q.starts EXCEPT ![id] = q.starts[id] + 1]
      BY <2>1, <3>3, CountUp
    <3>5. [b EXCEPT !.starts = f] \in Actors
      BY <3>4, ActorUpdate
    <3>6. r = [b EXCEPT !.starts = f]
      BY <3>1, <3>2, <3>4 DEF Actors
    <3> QED
      BY <3>5, <3>6
  <2> HIDE DEF r
  <2>6. q.starts \in [Turns -> Nat] /\ q.done \in Seq(Turns)
    BY DEF Actors
  <2>7. /\ r.starts[id] = 1
        /\ \A t \in Turns : t # id => r.starts[t] = q.starts[t]
    BY <2>1, <2>4, <2>6
  <2>8. \A k \in 1 .. Len(q.pend) : q.pend[k].id \in Turns
    <3>1. q.pend \in Seq(Item)
      BY DEF Actors
    <3>2. \A k \in 1 .. Len(q.pend) : q.pend[k] \in Item
      BY <3>1, ElementOfSeq
    <3> QED
      BY <3>2 DEF Item
  <2>9. \A k \in 1 .. Len(q.done) : q.done[k] \in Turns
    BY <2>6, ElementOfSeq
  <2>10. Orderly(r)
    <3>1. Distinct(r.pend)
      BY <2>4 DEF Orderly
    <3>2. r.pend # <<>> /\ r.pend[1].id = r.task
      BY <1>2, <2>4 DEF id
    <3>3. \A k \in 1 .. Len(r.pend) : r.pend[k].id # r.task => r.starts[r.pend[k].id] = 0
      BY <1>2, <2>4, <2>7, <2>8, ConversationAssumption DEF Orderly
    <3>4. \A t \in Turns : r.starts[t] <= 1
      BY <2>7 DEF Orderly
    <3>5. \A k \in 1 .. Len(r.done) : r.starts[r.done[k]] = 1 /\ r.done[k] \notin r.live
      BY <2>3, <2>4, <2>7, <2>9 DEF Orderly
    <3> QED
      BY <2>4, <2>7, <3>1, <3>2, <3>3, <3>4, <3>5 DEF Orderly
  <2>11. Keeps(q, r, {})
    <3>1. id \in Ids(q.pend)
      BY <2>1 DEF Ids, id
    <3> QED
      BY <2>4, <2>7, <3>1 DEF Keeps
  <2> QED
    BY <2>2, <2>5, <2>10, <2>11, BroadcastKeeps, KeepsTransitive
<1> QED
  BY <1>1, <1>2

-----------------------------------------------------------------------------
(* The queue is refilled, or its front leaves *)

LEMMA PendFacts ==
    ASSUME NEW q \in Actors
    PROVE  /\ q.pend \in Seq(Item) /\ Len(q.pend) \in Nat
           /\ \A k \in 1 .. Len(q.pend) : q.pend[k] \in Item /\ q.pend[k].id \in Turns
<1>1. q.pend \in Seq(Item)
  BY DEF Actors
<1>2. Len(q.pend) \in Nat /\ \A k \in 1 .. Len(q.pend) : q.pend[k] \in Item
  BY <1>1, ElementOfSeq, LenProperties
<1>3. \A k \in 1 .. Len(q.pend) : q.pend[k].id \in Turns
  BY <1>2 DEF Item
<1> QED
  BY <1>1, <1>2, <1>3

LEMMA TailFacts ==
    ASSUME NEW S, NEW s \in Seq(S), s # <<>>, NEW t, t = Tail(s)
    PROVE  /\ t \in Seq(S) /\ Len(t) = Len(s) - 1 /\ Len(s) \in Nat \ {0}
           /\ \A k \in 1 .. Len(t) : t[k] = s[k + 1]
<1>1. Len(s) \in Nat \ {0}
  BY EmptySeq
<1>2. t \in Seq(S) /\ Len(t) = Len(s) - 1
  BY HeadTailProperties
<1>3. \A k \in 1 .. Len(t) : t[k] = s[k + 1]
  BY <1>1, <1>2
<1> QED
  BY <1>1, <1>2, <1>3

LEMMA Refills ==
    ASSUME NEW q \in Actors, NEW r \in Actors, NEW S, Orderly(q),
           r.task = q.task, r.live = q.live, r.done = q.done, r.starts = q.starts,
           Distinct(r.pend), q.task # None => r.pend # <<>> /\ r.pend[1].id = q.task,
           Ids(r.pend) \subseteq Ids(q.pend) \cup S, \A t \in S : q.starts[t] = 0
    PROVE  Orderly(r) /\ Keeps(q, r, S)
<1>1. \A k \in 1 .. Len(r.pend) : r.pend[k].id # r.task => r.starts[r.pend[k].id] = 0
  <2>1. SUFFICES ASSUME NEW k \in 1 .. Len(r.pend), r.pend[k].id # q.task
                 PROVE  q.starts[r.pend[k].id] = 0
    OBVIOUS
  <2>2. r.pend[k].id \in Ids(q.pend) \cup S
    BY DEF Ids
  <2>3. CASE r.pend[k].id \in Ids(q.pend)
    <3>1. PICK j \in 1 .. Len(q.pend) : r.pend[k].id = q.pend[j].id
      BY <2>3 DEF Ids
    <3> QED
      BY <2>1, <3>1 DEF Orderly
  <2> QED
    BY <2>2, <2>3
<1>2. Orderly(r)
  BY <1>1 DEF Orderly
<1>3. Keeps(q, r, S)
  BY DEF Keeps
<1> QED
  BY <1>2, <1>3

\* The front leaves and nothing runs.
LEMMA Frees ==
    ASSUME NEW q \in Actors, NEW r \in Actors, Orderly(q),
           q.pend # <<>> => r.pend = Tail(q.pend), q.pend = <<>> => r.pend = <<>>,
           r.task = None, r.live = {}, r.done = q.done, r.starts = q.starts
    PROVE  Orderly(r) /\ Keeps(q, r, {})
<1>1. \A k \in 1 .. Len(r.pend) :
        q.pend # <<>> /\ k + 1 \in 1 .. Len(q.pend) /\ r.pend[k] = q.pend[k + 1]
  <2>1. CASE q.pend = <<>>
    BY <2>1, EmptySeq
  <2>2. CASE q.pend # <<>>
    <3>1. q.pend \in Seq(Item) /\ Len(q.pend) \in Nat
      BY PendFacts
    <3> DEFINE s == q.pend
               t == r.pend
    <3>a. s \in Seq(Item) /\ s # <<>> /\ t = Tail(s)
      BY <2>2, <3>1
    <3> HIDE DEF s, t
    <3>b. Len(t) = Len(s) - 1 /\ \A k \in 1 .. Len(t) : t[k] = s[k + 1]
      BY <3>a, TailFacts
    <3>2. Len(r.pend) = Len(q.pend) - 1 /\ \A k \in 1 .. Len(r.pend) : r.pend[k] = q.pend[k + 1]
      BY <3>b DEF s, t
    <3> QED
      BY <2>2, <3>1, <3>2
  <2> QED
    BY <2>1, <2>2
<1>2. Len(r.pend) \in Nat /\ Len(q.pend) \in Nat
  BY PendFacts
<1>3. Distinct(r.pend)
  <2>1. SUFFICES ASSUME NEW j \in 1 .. Len(r.pend), NEW k \in 1 .. Len(r.pend),
                        r.pend[j].id = r.pend[k].id
                 PROVE  j = k
    BY DEF Distinct
  <2>a. j + 1 \in 1 .. Len(q.pend) /\ k + 1 \in 1 .. Len(q.pend)
    BY <1>1
  <2>b. q.pend[j + 1].id = q.pend[k + 1].id
    BY <1>1, <2>1
  <2>2. j + 1 = k + 1
    BY <2>a, <2>b DEF Orderly, Distinct
  <2> QED
    BY <1>2, <2>2
<1>4. \A k \in 1 .. Len(r.pend) : r.starts[r.pend[k].id] = 0
  <2>1. SUFFICES ASSUME NEW k \in 1 .. Len(r.pend) PROVE q.starts[q.pend[k + 1].id] = 0
    BY <1>1
  <2>2. k + 1 \in 1 .. Len(q.pend) /\ q.pend # <<>>
    BY <1>1
  <2>3. q.pend[k + 1].id # q.task
    <3>1. CASE q.task = None
      BY <2>2, <3>1, PendFacts, ConversationAssumption
    <3>2. CASE q.task # None
      <4>1. q.pend[1].id = q.task /\ 1 \in 1 .. Len(q.pend)
        BY <2>2, <3>2, FrontFacts DEF Orderly
      <4>2. k + 1 # 1
        BY <1>2
      <4> QED
        BY <2>2, <4>1, <4>2 DEF Orderly, Distinct
    <3> QED
      BY <3>1, <3>2
  <2> QED
    BY <2>2, <2>3 DEF Orderly
<1>5. Orderly(r)
  BY <1>3, <1>4 DEF Orderly
<1>6. Ids(r.pend) \subseteq Ids(q.pend)
  BY <1>1 DEF Ids
<1> QED
  BY <1>5, <1>6 DEF Keeps

LEMMA CancelRunningKeeps ==
    ASSUME NEW q \in Actors, Orderly(q)
    PROVE  /\ CancelRunning(q) \in Actors /\ Orderly(CancelRunning(q))
           /\ Keeps(q, CancelRunning(q), {})
<1> DEFINE l == q.live \ {q.task}
           o == q.replied \cup {Head(q.pend).id : k \in 1 .. Len(q.pend)}
           p == IF q.pend = <<>> THEN q.pend ELSE Tail(q.pend)
           r == [q EXCEPT !.live = l, !.task = None, !.replied = o, !.pend = p]
<1>1. l = {} /\ l \in SUBSET Turns
  BY DEF Orderly
<1>2. o \in SUBSET Turns
  <2>1. q.replied \in SUBSET Turns
    BY DEF Actors
  <2>2. ASSUME NEW k \in 1 .. Len(q.pend) PROVE Head(q.pend).id \in Turns
    <3>1. q.pend # <<>>
      BY PendFacts, EmptySeq
    <3> QED
      BY <3>1, FrontFacts
  <2> QED
    BY <2>1, <2>2
<1>3. p \in Seq(Item)
  BY PendFacts, HeadTailProperties
<1>4. (q.pend # <<>> => p = Tail(q.pend)) /\ (q.pend = <<>> => p = <<>>)
  OBVIOUS
<1>5. CancelRunning(q) = Broadcast(r)
  BY DEF CancelRunning
<1> HIDE DEF l, o, p
<1>6. r \in Actors
  <2>1. PICK a \in Actors : a = [q EXCEPT !.live = l]
    BY <1>1, ActorUpdate
  <2>2. PICK b \in Actors : b = [a EXCEPT !.task = None]
    BY ActorUpdate
  <2>3. PICK c \in Actors : c = [b EXCEPT !.replied = o]
    BY <1>2, ActorUpdate
  <2>4. [c EXCEPT !.pend = p] \in Actors
    BY <1>3, ActorUpdate
  <2>5. r = [c EXCEPT !.pend = p]
    BY <2>1, <2>2, <2>3
  <2> QED
    BY <2>4, <2>5
<1>7. r.pend = p /\ r.task = None /\ r.live = l /\ r.done = q.done /\ r.starts = q.starts
  BY DEF Actors
<1> HIDE DEF r
<1>8. Orderly(r) /\ Keeps(q, r, {})
  BY <1>1, <1>4, <1>6, <1>7, Frees
<1> QED
  BY <1>5, <1>6, <1>8, BroadcastKeeps, KeepsTransitive

\* A completion is that of a turn that started and ended.
LEMMA CompletionKeeps ==
    ASSUME NEW q \in Actors, Orderly(q), NEW id \in Turns, id \notin q.live
    PROVE  /\ Completion(q, id) \in Actors /\ Orderly(Completion(q, id))
           /\ Keeps(q, Completion(q, id), {})
<1> DEFINE owned == q.pend # <<>> /\ Head(q.pend).id = id
<1>1. CASE owned
  <2> DEFINE o == q.replied \cup {id}
             p == Tail(q.pend)
             e == [q EXCEPT !.pend = p, !.replied = o]
             r == [e EXCEPT !.task = None]
             b == IF id \in Prompts THEN Broadcast(r) ELSE r
  <2>1. Completion(q, id) = MaybeStart(b)
    BY <1>1 DEF Completion
  <2>2. o \in SUBSET Turns /\ p \in Seq(Item)
    BY <1>1, PendFacts, HeadTailProperties DEF Actors
  <2>3. q.live = {}
    <3>1. q.task # None => q.task = id
      BY <1>1, FrontFacts DEF Orderly
    <3> QED
      BY <3>1, ConversationAssumption DEF Orderly, Actors
  <2>4. p = Tail(q.pend)
    OBVIOUS
  <2> HIDE DEF o, p
  <2>5. r \in Actors
    <3>1. PICK a \in Actors : a = [q EXCEPT !.pend = p]
      BY <2>2, ActorUpdate
    <3>2. e \in Actors
      <4>1. e = [a EXCEPT !.replied = o]
        BY <3>1
      <4> QED
        BY <2>2, <4>1, ActorUpdate
    <3> HIDE DEF e
    <3> QED
      BY <3>2, ActorUpdate
  <2>6. r.pend = p /\ r.task = None /\ r.live = {} /\ r.done = q.done /\ r.starts = q.starts
    BY <2>3 DEF Actors
  <2> HIDE DEF r
  <2>7. Orderly(r) /\ Keeps(q, r, {})
    BY <1>1, <2>4, <2>5, <2>6, Frees
  <2>8. b \in Actors /\ Orderly(b) /\ Keeps(r, b, {})
    BY <2>5, <2>7, BroadcastKeeps DEF Keeps
  <2> HIDE DEF b
  <2>9. Keeps(q, b, {})
    BY <2>5, <2>7, <2>8, KeepsTransitive
  <2> QED
    BY <2>1, <2>8, <2>9, MaybeStartKeeps, KeepsTransitive
<1>2. CASE ~ owned
  <2>1. q.task # id
    BY <1>2, FrontFacts, ConversationAssumption DEF Orderly
  <2>2. Completion(q, id) = MaybeStart(q)
    BY <1>2, <2>1 DEF Completion
  <2> QED
    BY <2>2, MaybeStartKeeps
<1> QED
  BY <1>1, <1>2

-----------------------------------------------------------------------------
(* Insertion and removal *)

\* r is s with e put in at position i.
Inserted(r, s, i, e) ==
    /\ Len(r) = Len(s) + 1
    /\ \A k \in 1 .. Len(s) + 1 : r[k] = IF k < i THEN s[k] ELSE IF k = i THEN e ELSE s[k - 1]

LEMMA InsertAtFacts ==
    ASSUME NEW S, NEW s \in Seq(S), NEW i \in 1 .. Len(s) + 1, NEW e \in S
    PROVE  InsertAt(s, i, e) \in Seq(S) /\ Inserted(InsertAt(s, i, e), s, i, e)
<1> DEFINE a == SubSeq(s, 1, i - 1)
           m == a \o <<e>>
           b == SubSeq(s, i, Len(s))
<1>0. Len(s) \in Nat /\ i \in Nat /\ i >= 1 /\ i <= Len(s) + 1
  BY LenProperties
<1>a. \A k \in 1 .. i - 1 : s[k] \in S
  BY <1>0, ElementOfSeq
<1>b. \A k \in i .. Len(s) : s[k] \in S
  BY <1>0, ElementOfSeq
<1>1. a \in Seq(S) /\ Len(a) = i - 1 /\ \A k \in 1 .. i - 1 : a[k] = s[k]
  BY <1>0, <1>a, SubSeqProperties
<1>2. b \in Seq(S) /\ Len(b) = Len(s) - i + 1 /\ \A k \in 1 .. Len(s) - i + 1 : b[k] = s[i + k - 1]
  BY <1>0, <1>b, SubSeqProperties
<1>3. <<e>> \in Seq(S) /\ Len(<<e>>) = 1 /\ <<e>>[1] = e
  OBVIOUS
<1> HIDE DEF a, b
<1>4. m \in Seq(S) /\ Len(m) = i /\ \A k \in 1 .. i : m[k] = IF k < i THEN s[k] ELSE e
  BY <1>0, <1>1, <1>3, ConcatProperties
<1> HIDE DEF m
<1>5. /\ m \o b \in Seq(S) /\ Len(m \o b) = Len(m) + Len(b)
      /\ \A k \in 1 .. Len(m) + Len(b) : (m \o b)[k] = IF k <= Len(m) THEN m[k] ELSE b[k - Len(m)]
  BY <1>2, <1>4, ConcatProperties
<1>6. Len(m) + Len(b) = Len(s) + 1
  BY <1>0, <1>2, <1>4
<1>7. ASSUME NEW k \in 1 .. Len(s) + 1
      PROVE  (m \o b)[k] = IF k < i THEN s[k] ELSE IF k = i THEN e ELSE s[k - 1]
  <2>1. CASE k <= i
    BY <1>0, <1>4, <1>5, <1>6, <2>1
  <2>2. CASE k > i
    <3>1. k - i \in 1 .. Len(s) - i + 1 /\ i + (k - i) - 1 = k - 1
      BY <1>0, <2>2
    <3> QED
      BY <1>0, <1>2, <1>4, <1>5, <1>6, <2>2, <3>1
  <2>3. k <= i \/ k > i
    BY <1>0
  <2> QED
    BY <2>1, <2>2, <2>3
<1>8. InsertAt(s, i, e) = m \o b
  BY DEF InsertAt, m, a, b
<1> QED
  BY <1>5, <1>6, <1>7, <1>8 DEF Inserted

\* r is s without its item at position i.
Removed(r, s, i) ==
    /\ Len(r) = Len(s) - 1
    /\ \A k \in 1 .. Len(s) - 1 : r[k] = IF k < i THEN s[k] ELSE s[k + 1]

LEMMA RemoveAtFacts ==
    ASSUME NEW S, NEW s \in Seq(S), NEW i \in 1 .. Len(s)
    PROVE  RemoveAt(s, i) \in Seq(S) /\ Removed(RemoveAt(s, i), s, i)
<1> DEFINE a == SubSeq(s, 1, i - 1)
           b == SubSeq(s, i + 1, Len(s))
<1>0. Len(s) \in Nat /\ i \in Nat /\ i >= 1 /\ i <= Len(s)
  BY LenProperties
<1>a. \A k \in 1 .. i - 1 : s[k] \in S
  BY <1>0, ElementOfSeq
<1>b. \A k \in i + 1 .. Len(s) : s[k] \in S
  BY <1>0, ElementOfSeq
<1>1. a \in Seq(S) /\ Len(a) = i - 1 /\ \A k \in 1 .. i - 1 : a[k] = s[k]
  BY <1>0, <1>a, SubSeqProperties
<1>2. b \in Seq(S) /\ Len(b) = Len(s) - i /\ \A k \in 1 .. Len(s) - i : b[k] = s[i + k]
  BY <1>0, <1>b, SubSeqProperties
<1> HIDE DEF a, b
<1>5. /\ a \o b \in Seq(S) /\ Len(a \o b) = Len(a) + Len(b)
      /\ \A k \in 1 .. Len(a) + Len(b) : (a \o b)[k] = IF k <= Len(a) THEN a[k] ELSE b[k - Len(a)]
  BY <1>1, <1>2, ConcatProperties
<1>6. Len(a) + Len(b) = Len(s) - 1
  BY <1>0, <1>1, <1>2
<1>7. ASSUME NEW k \in 1 .. Len(s) - 1
      PROVE  (a \o b)[k] = IF k < i THEN s[k] ELSE s[k + 1]
  <2>1. CASE k < i
    BY <1>0, <1>1, <1>5, <1>6, <2>1
  <2>2. CASE k >= i
    <3>1. k - (i - 1) \in 1 .. Len(s) - i /\ i + (k - (i - 1)) = k + 1
      BY <1>0, <2>2
    <3>2. (a \o b)[k] = b[k - (i - 1)]
      BY <1>0, <1>1, <1>5, <1>6, <2>2
    <3>3. b[k - (i - 1)] = s[k + 1]
      BY <1>2, <3>1
    <3>4. ~ (k < i)
      BY <1>0, <2>2
    <3> QED
      BY <3>2, <3>3, <3>4
  <2>3. k < i \/ k >= i
    BY <1>0
  <2> QED
    BY <2>1, <2>2, <2>3
<1>8. RemoveAt(s, i) = a \o b
  BY DEF RemoveAt, a, b
<1> QED
  BY <1>5, <1>6, <1>7, <1>8 DEF Removed

LEMMA InsertNowFacts ==
    ASSUME NEW s \in Seq(Item), NEW item \in Item, NEW task,
           Distinct(s), item.id \notin Ids(s)
    PROVE  /\ InsertNow(s, task, item) \in Seq(Item)
           /\ Distinct(InsertNow(s, task, item))
           /\ Ids(InsertNow(s, task, item)) \subseteq Ids(s) \cup {item.id}
           /\ (s # <<>> /\ s[1].id = task) =>
                InsertNow(s, task, item) # <<>> /\ InsertNow(s, task, item)[1].id = task
<1> DEFINE first == IF s # <<>> /\ Head(s).id = task THEN 2 ELSE 1
           spots == {k \in first .. Len(s) + 1 : k > Len(s) \/ ~ s[k].now}
           i == Min(spots)
           e == [item EXCEPT !.now = TRUE]
           r == InsertAt(s, i, e)
<1>0. Len(s) \in Nat
  BY LenProperties
<1>1. first \in 1 .. Len(s) + 1
  <2>1. s # <<>> => Len(s) # 0
    BY EmptySeq
  <2> QED
    BY <1>0, <2>1
<1>2. spots \in SUBSET Nat /\ spots # {} /\ spots \subseteq first .. Len(s) + 1
  <2>1. Len(s) + 1 \in spots
    BY <1>0, <1>1
  <2>2. spots \in SUBSET Nat
    BY <1>0, <1>1
  <2> QED
    BY <2>1, <2>2
<1>3. i \in first .. Len(s) + 1
  <2> HIDE DEF spots
  <2> QED
    BY <1>2, NatMin
<1>4. e \in Item /\ e.id = item.id
  BY DEF Item
<1>5. InsertNow(s, task, item) = r
  BY DEF InsertNow
<1>6. i \in 1 .. Len(s) + 1 /\ i \in Nat
  BY <1>0, <1>1, <1>3
<1>7. (s # <<>> /\ s[1].id = task) => i > 1
  <2>1. (s # <<>> /\ s[1].id = task) => first = 2
    OBVIOUS
  <2> HIDE DEF first, spots, i
  <2> QED
    BY <1>0, <1>3, <2>1
<1> HIDE DEF first, spots, i, e
<1>8. /\ r \in Seq(Item) /\ Len(r) = Len(s) + 1
      /\ \A k \in 1 .. Len(s) + 1 : r[k] = IF k < i THEN s[k] ELSE IF k = i THEN e ELSE s[k - 1]
  <2>1. e \in Item
    BY <1>4
  <2>2. i \in 1 .. Len(s) + 1
    BY <1>6
  <2>3. r \in Seq(Item) /\ Inserted(r, s, i, e)
    BY <2>1, <2>2, InsertAtFacts
  <2> QED
    BY <2>3 DEF Inserted
<1> HIDE DEF r
<1>9. Distinct(r)
  <2>1. SUFFICES ASSUME NEW j \in 1 .. Len(s) + 1, NEW k \in 1 .. Len(s) + 1, r[j].id = r[k].id, j < k
                 PROVE  FALSE
    BY <1>0, <1>8 DEF Distinct
  <2>2. \A n \in 1 .. Len(s) : s[n].id # e.id
    BY <1>4 DEF Ids
  <2>3. \A n \in 1 .. Len(s) + 1 : n # i => \E h \in {n, n - 1} :
          h \in 1 .. Len(s) /\ r[n] = s[h] /\ (n < i => h = n) /\ (n > i => h = n - 1)
    BY <1>0, <1>6, <1>8
  <2>a. r[i] = e
    BY <1>0, <1>6, <1>8
  <2>b. \A n \in 1 .. Len(s) + 1 : n # i => r[n].id # e.id
    BY <2>2, <2>3
  <2>4. CASE j = i \/ k = i
    <3>1. j # k
      BY <1>0, <2>1
    <3> QED
      BY <2>1, <2>4, <2>a, <2>b, <3>1
  <2>5. CASE j # i /\ k # i
    <3>1. PICK h \in {j, j - 1} : h \in 1 .. Len(s) /\ r[j] = s[h] /\ (j < i => h = j) /\ (j > i => h = j - 1)
      BY <2>3, <2>5
    <3>2. PICK g \in {k, k - 1} : g \in 1 .. Len(s) /\ r[k] = s[g] /\ (k < i => g = k) /\ (k > i => g = k - 1)
      BY <2>3, <2>5
    <3>3. h = g
      BY <2>1, <3>1, <3>2 DEF Distinct
    <3> QED
      BY <1>0, <1>6, <2>1, <2>5, <3>1, <3>2, <3>3
  <2> QED
    BY <2>4, <2>5
<1>10. Ids(r) \subseteq Ids(s) \cup {item.id}
  <2>1. SUFFICES ASSUME NEW k \in 1 .. Len(s) + 1 PROVE r[k].id \in Ids(s) \cup {item.id}
    BY <1>8 DEF Ids
  <2>2. CASE k = i
    BY <1>4, <1>8, <1>0, <1>6, <2>2
  <2>3. CASE k < i
    <3>1. r[k] = s[k] /\ k \in 1 .. Len(s)
      BY <1>0, <1>6, <1>8, <2>3
    <3> QED
      BY <3>1 DEF Ids
  <2>4. CASE k > i
    <3>1. r[k] = s[k - 1] /\ k - 1 \in 1 .. Len(s)
      BY <1>0, <1>6, <1>8, <2>4
    <3> QED
      BY <3>1 DEF Ids
  <2> QED
    BY <1>6, <2>2, <2>3, <2>4
<1>11. (s # <<>> /\ s[1].id = task) => r # <<>> /\ r[1].id = task
  <2>1. 1 \in 1 .. Len(s) + 1 /\ Len(r) # 0
    BY <1>0, <1>8
  <2>2. r # <<>>
    BY <2>1, EmptySeq
  <2> QED
    BY <1>7, <1>8, <2>1, <2>2
<1> QED
  BY <1>5, <1>8, <1>9, <1>10, <1>11

-----------------------------------------------------------------------------
(* The arms that clients drive *)

\* What an arm makes of q is an orderly actor; only S came in.
Sound(q, r, S) == r \in Actors /\ Orderly(r) /\ Keeps(q, r, S)

LEMMA SoundSteps ==
    ASSUME NEW q \in Actors, NEW r, NEW S, Sound(q, r, S)
    PROVE  /\ Sound(q, Broadcast(r), S) /\ Sound(q, CancelRunning(r), S)
           /\ Sound(q, MaybeStart(r), S)
<1>1. r \in Actors /\ Orderly(r) /\ Keeps(q, r, S)
  BY DEF Sound
<1>2. Sound(q, Broadcast(r), S)
  BY <1>1, BroadcastKeeps, KeepsTransitive DEF Sound
<1>3. Sound(q, CancelRunning(r), S)
  BY <1>1, CancelRunningKeeps, KeepsTransitive DEF Sound
<1>4. Sound(q, MaybeStart(r), S)
  BY <1>1, MaybeStartKeeps, KeepsTransitive DEF Sound
<1> QED
  BY <1>2, <1>3, <1>4

LEMMA SoundSame ==
    ASSUME NEW q \in Actors, Orderly(q)
    PROVE  Sound(q, q, {})
BY DEF Sound, Keeps

LEMMA SoundRefill ==
    ASSUME NEW q \in Actors, Orderly(q), NEW S, NEW p \in Seq(Item), Distinct(p),
           q.task # None => p # <<>> /\ p[1].id = q.task,
           Ids(p) \subseteq Ids(q.pend) \cup S, \A t \in S : q.starts[t] = 0
    PROVE  Sound(q, [q EXCEPT !.pend = p], S)
<1> DEFINE r == [q EXCEPT !.pend = p]
<1>1. r \in Actors
  BY ActorUpdate
<1>2. /\ r.pend = p /\ r.task = q.task /\ r.live = q.live /\ r.done = q.done /\ r.starts = q.starts
  BY DEF Actors
<1> HIDE DEF r
<1>3. Orderly(r) /\ Keeps(q, r, S)
  BY <1>1, <1>2, Refills
<1>4. Sound(q, r, S)
  BY <1>1, <1>3 DEF Sound
<1> QED
  BY <1>4 DEF r

LEMMA SoundReply ==
    ASSUME NEW q \in Actors, NEW r, NEW S, Sound(q, r, S), NEW o \in SUBSET Turns
    PROVE  Sound(q, [r EXCEPT !.replied = o], S)
<1> DEFINE t == [r EXCEPT !.replied = o]
<1>1. r \in Actors /\ Orderly(r) /\ Keeps(q, r, S)
  BY DEF Sound
<1>2. t \in Actors
  BY <1>1, ActorUpdate
<1>3. t.pend = r.pend /\ t.task = r.task /\ t.live = r.live /\ t.done = r.done /\ t.starts = r.starts
  BY <1>1 DEF Actors
<1> HIDE DEF t
<1>4. Orderly(t)
  BY <1>1, <1>3 DEF Orderly
<1>5. Keeps(q, t, S)
  BY <1>1, <1>3 DEF Keeps
<1>6. Sound(q, t, S)
  BY <1>2, <1>4, <1>5 DEF Sound
<1> QED
  BY <1>6 DEF t

LEMMA PicksKeep ==
    ASSUME NEW s, NEW r, NEW at \in SUBSET (1 .. Len(s)), Picks(r, s, at), Distinct(s)
    PROVE  Distinct(r) /\ Ids(r) \subseteq Ids(s)
<1>1. PICK p \in [1 .. Len(r) -> at] :
        /\ \A j, k \in 1 .. Len(r) : p[j] = p[k] => j = k
        /\ \A j \in 1 .. Len(r) : r[j] = s[p[j]]
  BY DEF Picks
<1>2. \A j \in 1 .. Len(r) : p[j] \in 1 .. Len(s)
  BY <1>1
<1> QED
  BY <1>1, <1>2 DEF Distinct, Ids

LEMMA AppendFacts ==
    ASSUME NEW s \in Seq(Item), NEW item \in Item, NEW task,
           Distinct(s), item.id \notin Ids(s)
    PROVE  /\ Append(s, item) \in Seq(Item)
           /\ Distinct(Append(s, item))
           /\ Ids(Append(s, item)) \subseteq Ids(s) \cup {item.id}
           /\ (s # <<>> /\ s[1].id = task) =>
                Append(s, item) # <<>> /\ Append(s, item)[1].id = task
<1> DEFINE r == Append(s, item)
<1>0. Len(s) \in Nat
  BY LenProperties
<1>1. /\ r \in Seq(Item) /\ Len(r) = Len(s) + 1 /\ r[Len(s) + 1] = item
      /\ \A k \in 1 .. Len(s) : r[k] = s[k]
  BY AppendProperties
<1> HIDE DEF r
<1>2. \A k \in 1 .. Len(r) : k = Len(s) + 1 \/ k \in 1 .. Len(s)
  BY <1>0, <1>1
<1>3. \A k \in 1 .. Len(s) : r[k].id # item.id
  BY <1>1 DEF Ids
<1>4. Distinct(r)
  BY <1>1, <1>2, <1>3 DEF Distinct
<1>5. Ids(r) \subseteq Ids(s) \cup {item.id}
  BY <1>1, <1>2 DEF Ids
<1>6. r # <<>>
  <2>1. Len(r) # 0
    BY <1>0, <1>1
  <2> QED
    BY <2>1, EmptySeq
<1>7. (s # <<>> /\ s[1].id = task) => r[1].id = task
  <2>1. s # <<>> => 1 \in 1 .. Len(s)
    BY <1>0, EmptySeq
  <2> QED
    BY <1>1, <2>1
<1> QED
  BY <1>1, <1>4, <1>5, <1>6, <1>7 DEF r

LEMMA QueueInputKeeps ==
    ASSUME NEW q \in Actors, Orderly(q), NEW item \in Item, item.id \notin Ids(q.pend),
           q.starts[item.id] = 0,
           NEW armed \in BOOLEAN, NEW blocked \in BOOLEAN, NEW goal \in BOOLEAN
    PROVE  Sound(q, QueueInput(q, item, armed, blocked, goal), {item.id})
<1> DEFINE s == q.pend
           S == {item.id}
<1>0. s \in Seq(Item) /\ Distinct(s) /\ (q.task # None => s # <<>> /\ s[1].id = q.task)
  BY PendFacts DEF Orderly
<1>1. CASE item.id \in Wakes
  <2> DEFINE p == Append(s, item)
             a == [q EXCEPT !.pend = p]
  <2>1. QueueInput(q, item, armed, blocked, goal) = MaybeStart(Broadcast(a))
    BY <1>1 DEF QueueInput
  <2>2. /\ p \in Seq(Item) /\ Distinct(p) /\ Ids(p) \subseteq Ids(q.pend) \cup S
        /\ q.task # None => p # <<>> /\ p[1].id = q.task
    <3> HIDE DEF s
    <3>1. item.id \notin Ids(s) /\ p = Append(s, item)
      BY DEF s
    <3> HIDE DEF p
    <3>2. /\ p \in Seq(Item) /\ Distinct(p) /\ Ids(p) \subseteq Ids(s) \cup {item.id}
          /\ (s # <<>> /\ s[1].id = q.task) => p # <<>> /\ p[1].id = q.task
      BY <1>0, <3>1, AppendFacts
    <3> QED
      BY <1>0, <3>2 DEF s
  <2> HIDE DEF p
  <2>3. Sound(q, a, S)
    BY <2>2, SoundRefill
  <2> HIDE DEF a, S
  <2>4. Sound(q, Broadcast(a), S)
    BY <2>3, SoundSteps
  <2>5. Sound(q, MaybeStart(Broadcast(a)), S)
    BY <2>4, SoundSteps
  <2> QED
    BY <2>1, <2>5 DEF S
<1>2. CASE item.id \notin Wakes
  <2> DEFINE at == {k \in 1 .. Len(s) : armed => s[k].id \in Prompts \cup {q.task}}
             kept == Selected(s, at)
             now == item.now \/ (q.task # None /\ blocked /\ Queueable(q) = {})
             p == IF now THEN InsertNow(kept, q.task, item) ELSE Append(kept, item)
             a == [q EXCEPT !.pend = p]
             fed == Broadcast(a)
             c == IF now /\ q.task # None /\ ~ goal THEN CancelRunning(fed) ELSE fed
  <2>1. QueueInput(q, item, armed, blocked, goal) = MaybeStart(c)
    BY <1>2 DEF QueueInput
  <2>2. at \in SUBSET (1 .. Len(s))
    OBVIOUS
  <2>3. q.task # None => 1 \in at
    <3>1. q.task # None => 1 \in 1 .. Len(s)
      BY <1>0, FrontFacts
    <3> QED
      BY <1>0, <3>1
  <2> HIDE DEF at
  <2>4. kept \in Seq(Item) /\ Picks(kept, s, at) /\ (1 \in at => kept # <<>> /\ kept[1] = s[1])
    <3> HIDE DEF s
    <3> QED
      BY <1>0, <2>2, SelectedItems
  <2> HIDE DEF kept
  <2>5. Distinct(kept) /\ Ids(kept) \subseteq Ids(s)
    <3> HIDE DEF s
    <3> QED
      BY <1>0, <2>2, <2>4, PicksKeep
  <2>6. item.id \notin Ids(kept)
    BY <2>5
  <2>7. q.task # None => kept # <<>> /\ kept[1].id = q.task
    BY <1>0, <2>3, <2>4
  <2> HIDE DEF now
  <2>8. /\ p \in Seq(Item) /\ Distinct(p) /\ Ids(p) \subseteq Ids(kept) \cup {item.id}
        /\ (kept # <<>> /\ kept[1].id = q.task) => p # <<>> /\ p[1].id = q.task
    <3>1. CASE now
      <4>1. p = InsertNow(kept, q.task, item)
        BY <3>1
      <4> HIDE DEF p
      <4> QED
        BY <4>1, <2>4, <2>5, <2>6, InsertNowFacts
    <3>2. CASE ~ now
      <4>1. p = Append(kept, item)
        BY <3>2
      <4> HIDE DEF p
      <4> QED
        BY <4>1, <2>4, <2>5, <2>6, AppendFacts
    <3> QED
      BY <3>1, <3>2
  <2> HIDE DEF p
  <2>9. Sound(q, a, S)
    <3>1. Ids(p) \subseteq Ids(q.pend) \cup S
      BY <2>5, <2>8
    <3>2. q.task # None => p # <<>> /\ p[1].id = q.task
      BY <2>7, <2>8
    <3> QED
      BY <2>8, <3>1, <3>2, SoundRefill
  <2> HIDE DEF a, S
  <2>10. Sound(q, fed, S)
    BY <2>9, SoundSteps
  <2> HIDE DEF fed
  <2>11. Sound(q, c, S)
    BY <2>10, SoundSteps
  <2> HIDE DEF c
  <2>12. Sound(q, MaybeStart(c), S)
    BY <2>11, SoundSteps
  <2> QED
    BY <2>1, <2>12 DEF S
<1> QED
  BY <1>1, <1>2

\* A queued prompt that a client names is not the running one at the front.
LEMMA QueuedFacts ==
    ASSUME NEW q \in Actors, Orderly(q), NEW id, NEW at \in SUBSET Queued(q, id), at # {}
    PROVE  /\ Min(at) \in 1 .. Len(q.pend) /\ q.pend[Min(at)].id = id /\ id # q.task
           /\ id \in Turns /\ q.pend[Min(at)] \in Item
           /\ q.task # None => Min(at) # 1
<1>0. Len(q.pend) \in Nat /\ \A k \in 1 .. Len(q.pend) : q.pend[k] \in Item /\ q.pend[k].id \in Turns
  BY PendFacts
<1>1. \A k \in at : k \in 1 .. Len(q.pend) /\ q.pend[k].id = id /\ id # q.task
  BY DEF Queued
<1>2. at \in SUBSET Nat
  BY <1>0, <1>1
<1>3. Min(at) \in at
  BY <1>2, NatMin
<1>4. q.task # None => Min(at) # 1
  BY <1>1, <1>3 DEF Orderly
<1> QED
  BY <1>0, <1>1, <1>3, <1>4

LEMMA RemovedKeeps ==
    ASSUME NEW s \in Seq(Item), NEW i \in 1 .. Len(s), NEW r, Removed(r, s, i), r \in Seq(Item), Distinct(s)
    PROVE  /\ Distinct(r) /\ Ids(r) \subseteq Ids(s) /\ s[i].id \notin Ids(r)
           /\ i # 1 => r # <<>> /\ r[1] = s[1]
<1>0. Len(s) \in Nat /\ i \in Nat /\ i >= 1 /\ i <= Len(s) /\ Len(r) = Len(s) - 1
  BY LenProperties DEF Removed
<1>1. \A k \in 1 .. Len(r) : (k < i /\ r[k] = s[k] /\ k \in 1 .. Len(s))
                             \/ (k >= i /\ r[k] = s[k + 1] /\ k + 1 \in 1 .. Len(s))
  BY <1>0 DEF Removed
<1>2. \A k \in 1 .. Len(r) : \E h \in 1 .. Len(s) :
        r[k] = s[h] /\ h # i /\ ((k < i /\ h = k) \/ (k >= i /\ h = k + 1))
  <2>1. SUFFICES ASSUME NEW k \in 1 .. Len(r)
                 PROVE  \E h \in 1 .. Len(s) : r[k] = s[h] /\ h # i /\ ((k < i /\ h = k) \/ (k >= i /\ h = k + 1))
    OBVIOUS
  <2>2. CASE k < i
    <3>1. k \in 1 .. Len(s) /\ r[k] = s[k] /\ k # i
      BY <1>0, <1>1, <2>2
    <3> QED
      BY <2>2, <3>1
  <2>3. CASE k >= i
    <3>1. ~ (k < i)
      BY <1>0, <2>3
    <3>2. k + 1 \in 1 .. Len(s) /\ r[k] = s[k + 1]
      BY <1>1, <3>1
    <3>3. k + 1 # i
      BY <1>0, <2>3
    <3> QED
      BY <2>3, <3>2, <3>3
  <2>4. k < i \/ k >= i
    BY <1>0
  <2> QED
    BY <2>2, <2>3, <2>4
<1>3. Distinct(r)
  <2>1. SUFFICES ASSUME NEW j \in 1 .. Len(r), NEW k \in 1 .. Len(r), r[j].id = r[k].id
                 PROVE  j = k
    BY DEF Distinct
  <2>2. PICK h \in 1 .. Len(s) : r[j] = s[h] /\ h # i /\ ((j < i /\ h = j) \/ (j >= i /\ h = j + 1))
    BY <1>2
  <2>3. PICK g \in 1 .. Len(s) : r[k] = s[g] /\ g # i /\ ((k < i /\ g = k) \/ (k >= i /\ g = k + 1))
    BY <1>2
  <2>4. h = g
    BY <2>1, <2>2, <2>3 DEF Distinct
  <2> QED
    BY <1>0, <2>2, <2>3, <2>4
<1>4. Ids(r) \subseteq Ids(s) /\ s[i].id \notin Ids(r)
  <2>1. \A k \in 1 .. Len(r) : \E h \in 1 .. Len(s) : r[k] = s[h] /\ h # i
    BY <1>2
  <2>2. \A h \in 1 .. Len(s) : h # i => s[h].id # s[i].id
    BY DEF Distinct
  <2>3. ASSUME NEW k \in 1 .. Len(r) PROVE r[k].id \in Ids(s) /\ r[k].id # s[i].id
    <3>1. PICK h \in 1 .. Len(s) : r[k] = s[h] /\ h # i
      BY <2>1
    <3> QED
      BY <2>2, <3>1 DEF Ids
  <2> QED
    BY <2>3 DEF Ids
<1>5. ASSUME i # 1 PROVE r # <<>> /\ r[1] = s[1]
  <2>1. Len(r) # 0 /\ 1 \in 1 .. Len(r) /\ 1 < i
    BY <1>0, <1>5
  <2>2. r # <<>>
    BY <2>1, EmptySeq
  <2>3. r[1] = s[1]
    BY <1>0, <1>1, <2>1
  <2> QED
    BY <2>2, <2>3
<1> QED
  BY <1>3, <1>4, <1>5

LEMMA RemoveQueuedKeeps ==
    ASSUME NEW q \in Actors, Orderly(q), NEW id, NEW ver
    PROVE  Sound(q, RemoveQueued(q, id, ver), {})
<1> DEFINE at == {k \in Queued(q, id) : q.pend[k].ver = ver}
<1>1. CASE at = {}
  <2>1. RemoveQueued(q, id, ver) = Broadcast(q)
    BY <1>1 DEF RemoveQueued
  <2> QED
    BY <2>1, SoundSame, SoundSteps
<1>2. CASE at # {}
  <2> DEFINE s == q.pend
             i == Min(at)
             p == RemoveAt(s, i)
             o == q.replied \cup {id}
             a == [q EXCEPT !.pend = p]
             b == [a EXCEPT !.replied = o]
  <2>1. RemoveQueued(q, id, ver) = Broadcast(b)
    BY <1>2 DEF RemoveQueued
  <2>2. at \in SUBSET Queued(q, id)
    OBVIOUS
  <2> HIDE DEF at
  <2>3. i \in 1 .. Len(s) /\ id \in Turns /\ (q.task # None => i # 1)
    BY <1>2, <2>2, QueuedFacts
  <2>4. s \in Seq(Item) /\ Distinct(s) /\ (q.task # None => s[1].id = q.task)
    BY PendFacts DEF Orderly
  <2> HIDE DEF i
  <2>5. p \in Seq(Item) /\ Removed(p, s, i)
    <3> HIDE DEF s
    <3> QED
      BY <2>3, <2>4, RemoveAtFacts
  <2> HIDE DEF p
  <2>6. Distinct(p) /\ Ids(p) \subseteq Ids(s) /\ (i # 1 => p # <<>> /\ p[1] = s[1])
    <3> HIDE DEF s
    <3> QED
      BY <2>3, <2>4, <2>5, RemovedKeeps
  <2>7. Sound(q, a, {})
    <3>1. q.task # None => p # <<>> /\ p[1].id = q.task
      BY <2>3, <2>4, <2>6
    <3>2. Ids(p) \subseteq Ids(q.pend) \cup {}
      BY <2>6
    <3> QED
      BY <2>5, <2>6, <3>1, <3>2, SoundRefill
  <2>8. o \in SUBSET Turns
    BY <2>3 DEF Actors
  <2> HIDE DEF a, o
  <2>9. Sound(q, b, {})
    BY <2>7, <2>8, SoundReply
  <2> HIDE DEF b
  <2> QED
    BY <2>1, <2>9, SoundSteps
<1> QED
  BY <1>1, <1>2

LEMMA EditedItem ==
    ASSUME NEW x \in Item, NEW text \in 0 .. MaxEvents
    PROVE  Edited(x, text) \in Item /\ Edited(x, text).id = x.id
<1>1. x.ver + 1 \in Nat
  BY DEF Item
<1>2. PICK y : y = [x EXCEPT !.ver = x.ver + 1]
  OBVIOUS
<1>3. y \in Item /\ y.id = x.id
  BY <1>1, <1>2 DEF Item
<1>4. PICK z : z = [y EXCEPT !.text = text]
  OBVIOUS
<1>5. z \in Item /\ z.id = y.id
  BY <1>3, <1>4 DEF Item
<1>6. Edited(x, text) = z
  BY <1>2, <1>4 DEF Edited
<1> QED
  BY <1>3, <1>5, <1>6

LEMMA EditQueuedKeeps ==
    ASSUME NEW q \in Actors, Orderly(q), NEW id, NEW text \in 0 .. MaxEvents
    PROVE  Sound(q, EditQueued(q, id, text), {})
<1> DEFINE at == Queued(q, id)
<1>1. CASE at = {}
  <2>1. EditQueued(q, id, text) = q
    BY <1>1 DEF EditQueued
  <2> QED
    BY <2>1, SoundSame
<1>2. CASE at # {}
  <2> DEFINE s == q.pend
             i == Min(at)
             e == Edited(s[i], text)
             p == [s EXCEPT ![i] = e]
             a == [q EXCEPT !.pend = p]
  <2>1. EditQueued(q, id, text) = Broadcast(a)
    BY <1>2 DEF EditQueued
  <2>2. at \in SUBSET Queued(q, id)
    OBVIOUS
  <2> HIDE DEF at
  <2>3. i \in 1 .. Len(s) /\ s[i] \in Item
    BY <1>2, <2>2, QueuedFacts
  <2>4. s \in Seq(Item) /\ Len(s) \in Nat /\ Distinct(s) /\ (q.task # None => s # <<>> /\ s[1].id = q.task)
    BY PendFacts DEF Orderly
  <2> HIDE DEF i
  <2>5. e \in Item /\ e.id = s[i].id
    <3> DEFINE x == s[i]
    <3>1. x \in Item
      BY <2>3
    <3>2. e = Edited(x, text)
      OBVIOUS
    <3> HIDE DEF x, e
    <3>3. e \in Item /\ e.id = x.id
      BY <3>1, <3>2, EditedItem
    <3> QED
      BY <3>3 DEF x
  <2> HIDE DEF e, s
  <2>6. p \in Seq(Item) /\ Len(p) = Len(s) /\ \A k \in 1 .. Len(s) : p[k].id = s[k].id
    <3>1. p \in Seq(Item) /\ Len(p) = Len(s) /\ p[i] = e /\ \A k \in 1 .. Len(s) : k # i => p[k] = s[k]
      BY <2>3, <2>4, <2>5, ExceptSeq
    <3> HIDE DEF p
    <3> QED
      BY <2>5, <3>1
  <2> HIDE DEF p
  <2>7. Distinct(p) /\ Ids(p) \subseteq Ids(s)
    BY <2>4, <2>6 DEF Distinct, Ids
  <2>8. s # <<>> => p # <<>> /\ 1 \in 1 .. Len(s)
    <3>1. (s # <<>> => Len(s) # 0) /\ (p = <<>> => Len(p) = 0)
      BY <2>4, EmptySeq
    <3> QED
      BY <2>4, <2>6, <3>1
  <2>9. q.task # None => p # <<>> /\ p[1].id = q.task
    BY <2>4, <2>6, <2>8
  <2>10. Ids(p) \subseteq Ids(q.pend) \cup {}
    BY <2>7 DEF s
  <2>11. Sound(q, a, {})
    BY <2>6, <2>7, <2>9, <2>10, SoundRefill
  <2> HIDE DEF a
  <2> QED
    BY <2>1, <2>11, SoundSteps
<1> QED
  BY <1>1, <1>2

LEMMA SendQueuedNowKeeps ==
    ASSUME NEW q \in Actors, Orderly(q), NEW id, NEW ver, NEW goal \in BOOLEAN
    PROVE  Sound(q, SendQueuedNow(q, id, ver, goal), {})
<1> DEFINE at == {k \in Queued(q, id) : q.pend[k].ver = ver}
<1>1. CASE at = {}
  <2>1. SendQueuedNow(q, id, ver, goal) = MaybeStart(Broadcast(q))
    BY <1>1 DEF SendQueuedNow
  <2>2. Sound(q, Broadcast(q), {})
    BY SoundSame, SoundSteps
  <2> QED
    BY <2>1, <2>2, SoundSteps
<1>2. CASE at # {}
  <2> DEFINE s == q.pend
             i == Min(at)
             c == RemoveAt(s, i)
             e == s[i]
             p == InsertNow(c, q.task, e)
             a == [q EXCEPT !.pend = p]
             b == Broadcast(a)
             d == IF q.task # None /\ ~ goal THEN CancelRunning(b) ELSE b
  <2>1. SendQueuedNow(q, id, ver, goal) = MaybeStart(d)
    BY <1>2 DEF SendQueuedNow
  <2>2. at \in SUBSET Queued(q, id)
    OBVIOUS
  <2> HIDE DEF at
  <2>3. i \in 1 .. Len(s) /\ e \in Item /\ (q.task # None => i # 1)
    BY <1>2, <2>2, QueuedFacts
  <2>4. s \in Seq(Item) /\ Distinct(s) /\ (q.task # None => s[1].id = q.task)
    BY PendFacts DEF Orderly
  <2> HIDE DEF i
  <2>5. c \in Seq(Item) /\ Removed(c, s, i)
    <3> HIDE DEF s
    <3> QED
      BY <2>3, <2>4, RemoveAtFacts
  <2> HIDE DEF c
  <2>6. Distinct(c) /\ Ids(c) \subseteq Ids(s) /\ s[i].id \notin Ids(c) /\ (i # 1 => c # <<>> /\ c[1] = s[1])
    <3> HIDE DEF s
    <3> QED
      BY <2>3, <2>4, <2>5, RemovedKeeps
  <2>7. e.id \in Ids(s) /\ e.id \notin Ids(c)
    BY <2>3, <2>6 DEF Ids
  <2>8. q.task # None => c # <<>> /\ c[1].id = q.task
    BY <2>3, <2>4, <2>6
  <2> HIDE DEF e
  <2>9. /\ p \in Seq(Item) /\ Distinct(p) /\ Ids(p) \subseteq Ids(c) \cup {e.id}
        /\ (c # <<>> /\ c[1].id = q.task) => p # <<>> /\ p[1].id = q.task
    BY <2>3, <2>5, <2>6, <2>7, InsertNowFacts
  <2> HIDE DEF p
  <2>10. Sound(q, a, {})
    <3>1. q.task # None => p # <<>> /\ p[1].id = q.task
      BY <2>8, <2>9
    <3>2. Ids(p) \subseteq Ids(q.pend) \cup {}
      BY <2>6, <2>7, <2>9
    <3> QED
      BY <2>9, <3>1, <3>2, SoundRefill
  <2> HIDE DEF a
  <2>11. Sound(q, b, {})
    BY <2>10, SoundSteps
  <2> HIDE DEF b
  <2>12. Sound(q, d, {})
    BY <2>11, SoundSteps
  <2> HIDE DEF d
  <2> QED
    BY <2>1, <2>12, SoundSteps
<1> QED
  BY <1>1, <1>2

LEMMA ReorderQueueKeeps ==
    ASSUME NEW q \in Actors, Orderly(q), NEW order \in Seq(Prompts)
    PROVE  Sound(q, ReorderQueue(q, order), {})
<1> DEFINE s == q.pend
           at == 1 .. Len(s)
           w == [k \in at |-> Rank(q, order, k)]
           p == Arranged(s, at, w)
           a == [q EXCEPT !.pend = p]
<1>1. ReorderQueue(q, order) = Broadcast(a)
  BY DEF ReorderQueue
<1>2. s \in Seq(Item) /\ Distinct(s) /\ (q.task # None => s # <<>> /\ s[1].id = q.task)
  BY PendFacts DEF Orderly
<1>3. \A k \in at : Rank(q, order, k) \in Nat
  <2>1. SUFFICES ASSUME NEW k \in at PROVE Rank(q, order, k) \in Nat
    OBVIOUS
  <2> DEFINE named == {n \in 1 .. Len(order) : order[n] = q.pend[k].id}
  <2>2. Len(order) \in Nat
    BY LenProperties
  <2>3. named \in SUBSET Nat
    BY <2>2
  <2>4. Rank(q, order, k) = IF k \notin Queueable(q) THEN 0
                            ELSE IF named = {} THEN Len(order) + 1 ELSE Min(named)
    BY DEF Rank
  <2> HIDE DEF named
  <2>5. named # {} => Min(named) \in Nat
    BY <2>3, NatMin
  <2> QED
    BY <2>2, <2>4, <2>5
<1>4. w \in [at -> Int]
  BY <1>3
<1>5. q.task # None => 1 \in at /\ \A k \in at : w[1] <= w[k]
  <2>1. SUFFICES ASSUME q.task # None PROVE 1 \in at /\ \A k \in at : w[1] <= w[k]
    OBVIOUS
  <2>2. 1 \in at
    BY <1>2, <2>1, FrontFacts
  <2>3. 1 \notin Queueable(q)
    BY <1>2, <2>1 DEF Queueable
  <2>4. w[1] = 0
    BY <2>2, <2>3 DEF Rank
  <2>5. \A k \in at : w[k] \in Nat
    BY <1>3
  <2> HIDE DEF w
  <2> QED
    BY <2>2, <2>4, <2>5
<1>6. at \in SUBSET (1 .. Len(s))
  OBVIOUS
<1> HIDE DEF w, at
<1>7. /\ p \in Seq(Item) /\ Picks(p, s, at)
      /\ (1 \in at /\ \A k \in at : w[1] <= w[k]) => p # <<>> /\ p[1] = s[1]
  <2> HIDE DEF s
  <2> QED
    BY <1>2, <1>4, <1>6, ArrangedItems
<1> HIDE DEF p
<1>8. Distinct(p) /\ Ids(p) \subseteq Ids(s)
  <2> HIDE DEF s
  <2> QED
    BY <1>2, <1>6, <1>7, PicksKeep
<1>9. Sound(q, a, {})
  <2>1. q.task # None => p # <<>> /\ p[1].id = q.task
    BY <1>2, <1>5, <1>7
  <2>2. Ids(p) \subseteq Ids(q.pend) \cup {}
    BY <1>8
  <2> QED
    BY <1>7, <1>8, <2>1, <2>2, SoundRefill
<1> HIDE DEF a
<1> QED
  BY <1>1, <1>9, SoundSteps

LEMMA ClearQueueKeeps ==
    ASSUME NEW q \in Actors, Orderly(q)
    PROVE  Sound(q, ClearQueue(q), {})
<1> DEFINE s == q.pend
           at == (1 .. Len(s)) \ Queueable(q)
           p == Selected(s, at)
           o == q.replied \cup {q.pend[k].id : k \in Queueable(q)}
           a == [q EXCEPT !.pend = p]
           b == [a EXCEPT !.replied = o]
<1>1. ClearQueue(q) = Broadcast(b)
  BY DEF ClearQueue, Cleared
<1>2. s \in Seq(Item) /\ Distinct(s) /\ (q.task # None => s # <<>> /\ s[1].id = q.task)
  BY PendFacts DEF Orderly
<1>3. q.task # None => 1 \in at
  <2>1. SUFFICES ASSUME q.task # None PROVE 1 \in at
    OBVIOUS
  <2>2. 1 \in 1 .. Len(s)
    BY <1>2, <2>1, FrontFacts
  <2> QED
    BY <1>2, <2>1, <2>2 DEF Queueable
<1>4. o \in SUBSET Turns
  <2>1. \A k \in Queueable(q) : q.pend[k].id \in Turns
    BY DEF Queueable, Turns
  <2> QED
    BY <2>1 DEF Actors
<1>5. at \in SUBSET (1 .. Len(s))
  OBVIOUS
<1> HIDE DEF at, o
<1>6. p \in Seq(Item) /\ Picks(p, s, at) /\ (1 \in at => p # <<>> /\ p[1] = s[1])
  <2> HIDE DEF s
  <2> QED
    BY <1>2, <1>5, SelectedItems
<1> HIDE DEF p
<1>7. Distinct(p) /\ Ids(p) \subseteq Ids(s)
  <2> HIDE DEF s
  <2> QED
    BY <1>2, <1>5, <1>6, PicksKeep
<1>8. Sound(q, a, {})
  <2>1. q.task # None => p # <<>> /\ p[1].id = q.task
    BY <1>2, <1>3, <1>6
  <2>2. Ids(p) \subseteq Ids(q.pend) \cup {}
    BY <1>7
  <2> QED
    BY <1>6, <1>7, <2>1, <2>2, SoundRefill
<1> HIDE DEF a
<1>9. Sound(q, b, {})
  BY <1>4, <1>8, SoundReply
<1> HIDE DEF b
<1> QED
  BY <1>1, <1>9, SoundSteps

-----------------------------------------------------------------------------
(* The messages on their way *)

LEMMA WiderSeq ==
    ASSUME NEW S, NEW T, S \subseteq T, NEW s \in Seq(S)
    PROVE  s \in Seq(T)
<1>1. Len(s) \in Nat /\ s \in [1 .. Len(s) -> S]
  BY LenProperties
<1>2. s \in [1 .. Len(s) -> T]
  BY <1>1
<1> QED
  BY <1>1, <1>2

\* t is what is left of s when its first d messages are gone.
Shifted(t, s, d) ==
    /\ Len(t) \in Nat /\ Len(s) \in Nat /\ Len(t) + d = Len(s)
    /\ \A k \in 1 .. Len(t) : t[k] = s[k + d]

\* The prompts of t stand in s, by a shift.
Carried(t, s) ==
    \E d \in Nat : \A k \in 1 .. Len(t) :
        t[k].type = "prompt" => k + d \in 1 .. Len(s) /\ s[k + d] = t[k]

\* How many cancels s holds.
Count(s) == Cardinality(Cancels(s))

LEMMA CountIsNat ==
    ASSUME NEW S, NEW s \in Seq(S)
    PROVE  IsFiniteSet(Cancels(s)) /\ Count(s) \in Nat
<1>1. Len(s) \in Nat /\ Cancels(s) \in SUBSET (1 .. Len(s))
  BY LenProperties DEF Cancels
<1> QED
  BY <1>1, FinitePositions DEF Count

LEMMA ShiftedFacts ==
    ASSUME NEW S, NEW s \in Seq(S), NEW t \in Seq(S), NEW d \in Nat, Shifted(t, s, d)
    PROVE  /\ Carried(t, s) /\ Count(t) <= Count(s)
           /\ (d > 0 /\ s # <<>> /\ s[1].type = "cancel") => Count(t) + 1 <= Count(s)
<1>0. /\ Len(t) \in Nat /\ Len(s) \in Nat /\ Len(t) + d = Len(s)
      /\ \A k \in 1 .. Len(t) : t[k] = s[k + d]
  BY DEF Shifted
<1>1. Carried(t, s)
  <2>1. \A k \in 1 .. Len(t) : k + d \in 1 .. Len(s)
    BY <1>0
  <2> QED
    BY <1>0, <2>1 DEF Carried
<1> DEFINE A == Cancels(t)
           B == Cancels(s)
           f == [k \in A |-> k + d]
<1>2. IsFiniteSet(A) /\ IsFiniteSet(B) /\ Count(t) \in Nat /\ Count(s) \in Nat
  BY CountIsNat
<1>3. f \in [A -> B] /\ \A k \in A : f[k] \in B /\ (f[k] # 1 \/ d = 0)
  <2>1. \A k \in A : k \in Nat /\ k >= 1 /\ k + d \in 1 .. Len(s) /\ s[k + d].type = "cancel"
    BY <1>0 DEF Cancels
  <2>2. \A k \in A : k + d \in B
    BY <2>1 DEF Cancels
  <2>3. \A k \in A : d = 0 \/ k + d # 1
    BY <2>1
  <2> HIDE DEF A, B
  <2> QED
    BY <2>2, <2>3
<1>4. \A j, k \in A : f[j] = f[k] => j = k
  <2>1. A \subseteq Int
    BY <1>0 DEF Cancels
  <2> HIDE DEF A
  <2> QED
    BY <2>1
<1>5. f \in Injection(A, B)
  <2> HIDE DEF A, B, f
  <2> QED
    BY <1>3, <1>4 DEF Injection, IsInjective
<1>6. Count(t) <= Count(s)
  <2> HIDE DEF f
  <2> QED
    BY <1>2, <1>5, FS_Injection DEF Count
<1>7. ASSUME d > 0, s # <<>>, s[1].type = "cancel" PROVE Count(t) + 1 <= Count(s)
  <2>1. 1 \in B
    <3>1. Len(s) # 0
      BY <1>7, EmptySeq
    <3>2. 1 \in 1 .. Len(s)
      BY <1>0, <3>1
    <3> QED
      BY <1>7, <3>2 DEF Cancels
  <2>2. IsFiniteSet(B \ {1}) /\ Cardinality(B \ {1}) = Cardinality(B) - 1
    <3> HIDE DEF B
    <3> QED
      BY <1>2, <2>1, FS_RemoveElement
  <2>3. f \in Injection(A, B \ {1})
    <3>1. d # 0
      BY <1>7
    <3>2. f \in [A -> B \ {1}]
      <4> HIDE DEF A, B
      <4> QED
        BY <1>3, <3>1
    <3> HIDE DEF A, B, f
    <3> QED
      BY <1>4, <3>2 DEF Injection, IsInjective
  <2>4. Cardinality(A) <= Cardinality(B \ {1})
    <3> HIDE DEF A, B, f
    <3> QED
      BY <2>2, <2>3, FS_Injection
  <2> QED
    BY <1>2, <2>2, <2>4 DEF Count
<1> QED
  BY <1>1, <1>6, <1>7

LEMMA TailShifted ==
    ASSUME NEW S, NEW s \in Seq(S), s # <<>>, NEW t, t = Tail(s)
    PROVE  t \in Seq(S) /\ Shifted(t, s, 1) /\ Head(s) = s[1] /\ Head(s) \in S
<1>1. /\ t \in Seq(S) /\ Len(t) = Len(s) - 1 /\ Len(s) \in Nat \ {0}
      /\ \A k \in 1 .. Len(t) : t[k] = s[k + 1]
  BY TailFacts
<1>2. Head(s) = s[1]
  BY <1>1
<1>3. Head(s) \in S
  BY HeadTailProperties
<1> QED
  BY <1>1, <1>2, <1>3 DEF Shifted

LEMMA SuffixShifted ==
    ASSUME NEW S, NEW s \in Seq(S), NEW t \in Suffixes(s)
    PROVE  t \in Seq(S) /\ \E d \in Nat : Shifted(t, s, d)
<1>0. Len(s) \in Nat
  BY LenProperties
<1>1. CASE t = <<>>
  <2>1. Len(t) = 0 /\ t \in Seq(S)
    BY <1>1, EmptySeq
  <2>2. Shifted(t, s, Len(s))
    BY <1>0, <2>1 DEF Shifted
  <2> QED
    BY <1>0, <2>1, <2>2
<1>2. CASE t # <<>>
  <2>1. PICK l \in 1 .. Len(s) : t = SubSeq(s, l, Len(s))
    BY <1>2 DEF Suffixes
  <2>2. \A k \in l .. Len(s) : s[k] \in S
    BY <1>0, ElementOfSeq
  <2>3. /\ t \in Seq(S) /\ Len(t) = Len(s) - l + 1
        /\ \A k \in 1 .. Len(s) - l + 1 : t[k] = s[l + k - 1]
    BY <1>0, <2>1, <2>2, SubSeqProperties
  <2>4. l - 1 \in Nat /\ Len(t) \in Nat /\ Len(t) + (l - 1) = Len(s)
    BY <1>0, <2>3
  <2>5. ASSUME NEW k \in 1 .. Len(t) PROVE t[k] = s[k + (l - 1)]
    <3>1. k \in 1 .. Len(s) - l + 1 /\ l + k - 1 = k + (l - 1)
      BY <2>3, <1>0
    <3> QED
      BY <2>3, <3>1
  <2>6. Shifted(t, s, l - 1)
    BY <1>0, <2>4, <2>5 DEF Shifted
  <2> QED
    BY <2>3, <2>4, <2>6
<1> QED
  BY <1>1, <1>2

LEMMA PrefixTyped ==
    ASSUME NEW S, NEW s \in Seq(S), NEW t \in Prefixes(s)
    PROVE  t \in Seq(S)
<1>0. Len(s) \in Nat
  BY LenProperties
<1>1. PICK l \in 0 .. Len(s) : t = SubSeq(s, 1, l)
  BY DEF Prefixes
<1>2. \A k \in 1 .. l : s[k] \in S
  BY <1>0, ElementOfSeq
<1> QED
  BY <1>0, <1>1, <1>2, SubSeqProperties

\* t is s with m behind it.
Extended(t, s, m) ==
    /\ Len(t) = Len(s) + 1 /\ Len(s) \in Nat
    /\ \A k \in 1 .. Len(t) :
         (k \in 1 .. Len(s) /\ t[k] = s[k]) \/ (k = Len(s) + 1 /\ t[k] = m)

LEMMA AppendSends ==
    ASSUME NEW S, NEW s \in Seq(S), NEW m \in S, NEW t, t = Append(s, m)
    PROVE  /\ t \in Seq(S) /\ Extended(t, s, m)
           /\ m.type # "cancel" => Count(t) <= Count(s)
           /\ Count(t) <= Count(s) + 1
           /\ m.type # "prompt" => Carried(t, s)
<1>0. Len(s) \in Nat
  BY LenProperties
<1>1. /\ t \in Seq(S) /\ Len(t) = Len(s) + 1 /\ t[Len(s) + 1] = m
      /\ \A k \in 1 .. Len(s) : t[k] = s[k]
  BY AppendProperties
<1>2. \A k \in 1 .. Len(t) : (k \in 1 .. Len(s) /\ t[k] = s[k]) \/ (k = Len(s) + 1 /\ t[k] = m)
  BY <1>0, <1>1
<1>3. \A k \in 1 .. Len(s) : k \in 1 .. Len(t)
  BY <1>0, <1>1
<1>4. m.type # "cancel" => Cancels(t) = Cancels(s)
  BY <1>1, <1>2, <1>3 DEF Cancels
<1>5. Cancels(t) \in SUBSET (Cancels(s) \cup {Len(s) + 1})
  BY <1>1, <1>2 DEF Cancels
<1>6. IsFiniteSet(Cancels(s)) /\ Count(s) \in Nat /\ Count(t) \in Nat
  BY <1>1, CountIsNat
<1> DEFINE x == Len(s) + 1
           B == Cancels(s) \cup {x}
<1>7. IsFiniteSet(B) /\ Cardinality(B) <= Count(s) + 1 /\ Cardinality(B) \in Nat
  <2>1. IsFiniteSet(B) /\ Cardinality(B) = IF x \in Cancels(s) THEN Count(s) ELSE Count(s) + 1
    <3> HIDE DEF x
    <3> QED
      BY <1>6, FS_AddElement DEF Count
  <2> HIDE DEF B
  <2> QED
    BY <1>6, <2>1
<1>8. Count(t) <= Cardinality(B)
  <2> HIDE DEF x
  <2>1. Cancels(t) \in SUBSET B
    BY <1>5 DEF x
  <2> HIDE DEF B
  <2> QED
    BY <1>7, <2>1, FS_Subset DEF Count
<1>9. Count(t) <= Count(s) + 1
  <2> HIDE DEF B
  <2> QED
    BY <1>6, <1>7, <1>8
<1>10. m.type # "prompt" => Carried(t, s)
  <2>1. \A k \in 1 .. Len(s) : k + 0 = k
    BY <1>0
  <2> QED
    BY <1>2, <2>1 DEF Carried
<1>11. m.type # "cancel" => Count(t) <= Count(s)
  <2>1. m.type # "cancel" => Count(t) = Count(s)
    BY <1>4 DEF Count
  <2> QED
    BY <1>6, <2>1
<1> QED
  BY <1>0, <1>1, <1>2, <1>6, <1>9, <1>10, <1>11 DEF Extended

LEMMA SameCarried ==
    ASSUME NEW s
    PROVE  Carried(s, s)
<1>1. \A k \in 1 .. Len(s) : k + 0 = k
  OBVIOUS
<1> QED
  BY <1>1 DEF Carried

\* What a step leaves alone: prompts do not come on their way, the actor does not
\* see one, and what was sent stays sent.
LEMMA SentOnceKept ==
    ASSUME Types, SentOnce, Carried(up', up), prep' \subseteq prep,
           \A p \in Prompts : Unseen(p) => Unseen(p)',
           \A p \in Prompts : status'[p] = "new" => status[p] = "new",
           up' \in Seq(UpMsgs)
    PROVE  SentOnce'
<1>1. PICK d \in Nat : \A k \in 1 .. Len(up') :
        up'[k].type = "prompt" => k + d \in 1 .. Len(up) /\ up[k + d] = up'[k]
  BY DEF Carried
<1>0. Len(up') \in Nat
  BY LenProperties
<1>2. \A j, k \in 1 .. Len(up') :
        up'[j].type = "prompt" /\ up'[k].type = "prompt" /\ up'[j].id = up'[k].id => j = k
  <2>1. SUFFICES ASSUME NEW j \in 1 .. Len(up'), NEW k \in 1 .. Len(up'),
                        up'[j].type = "prompt", up'[k].type = "prompt", up'[j].id = up'[k].id
                 PROVE  j = k
    OBVIOUS
  <2>2. j + d \in 1 .. Len(up) /\ up[j + d] = up'[j] /\ k + d \in 1 .. Len(up) /\ up[k + d] = up'[k]
    BY <1>1, <2>1
  <2>3. j + d = k + d
    BY <2>1, <2>2 DEF SentOnce
  <2> QED
    BY <1>0, <2>3
<1>3. ASSUME NEW k \in 1 .. Len(up'), up'[k].type = "prompt"
      PROVE  /\ Unseen(up[k].id)' /\ status'[up'[k].id] # "new"
             /\ \A p \in prep' : p.id # up'[k].id
  <2>1. k + d \in 1 .. Len(up) /\ up[k + d] = up'[k]
    BY <1>1, <1>3
  <2>2. up'[k] \in UpMsgs
    BY ElementOfSeq
  <2>3. up'[k].id \in Prompts
    BY <1>3, <2>2 DEF UpMsgs
  <2>4. /\ Unseen(up'[k].id) /\ status[up'[k].id] # "new" /\ \A p \in prep : p.id # up'[k].id
    BY <1>3, <2>1 DEF SentOnce
  <2>5. PICK x \in Prompts : x = up'[k].id
    BY <2>3
  <2>6. Unseen(x)' /\ status'[x] # "new" /\ \A p \in prep' : p.id # x
    BY <2>4, <2>5
  <2>7. Unseen(up[k].id)'
    BY <2>5, <2>6 DEF Unseen
  <2> QED
    BY <2>5, <2>6, <2>7
<1>4. ASSUME NEW p \in prep'
      PROVE  Unseen(p.id)' /\ status'[p.id] # "new" /\ \A o \in prep' : o.id = p.id => o = p
  <2>1. p \in prep /\ p.id \in Prompts
    BY DEF Types, Submitted
  <2>2. Unseen(p.id) /\ status[p.id] # "new" /\ \A o \in prep : o.id = p.id => o = p
    BY <2>1 DEF SentOnce
  <2> QED
    BY <2>1, <2>2
<1>5. \A p \in Prompts : status'[p] = "new" => Unseen(p)'
  BY DEF SentOnce
<1> QED
  BY <1>2, <1>3, <1>4, <1>5 DEF SentOnce

LEMMA UnseenKept ==
    ASSUME NEW S, Keeps(actor, actor', S), NEW p \in Prompts \ S, Unseen(p)
    PROVE  Unseen(p)'
BY DEF Unseen, Keeps, Turns

LEMMA CommitKeeps ==
    ASSUME Types, NEW q, NEW S, Sound(actor, q, S), NEW ok \in BOOLEAN, CommitAs(q, ok)
    PROVE  /\ actor' \in Actors /\ Orderly(actor') /\ Keeps(actor, actor', S)
           /\ down' \in Seq(DownMsgs) /\ returns' \subseteq [id : Prompts, ok : BOOLEAN]
<1>1. q \in Actors /\ Orderly(q) /\ Keeps(actor, q, S)
  BY DEF Sound
<1>2. PICK a : a = [q EXCEPT !.out = <<>>]
  OBVIOUS
<1>3. a \in Actors
  <2>1. <<>> \in Seq(Snapshot)
    BY EmptySeq
  <2> QED
    BY <1>1, <1>2, <2>1, ActorUpdate
<1>4. a.pend = q.pend /\ a.task = q.task /\ a.live = q.live /\ a.done = q.done /\ a.starts = q.starts
  BY <1>1, <1>2 DEF Actors
<1>5. actor' = [a EXCEPT !.replied = {}]
  BY <1>2 DEF CommitAs
<1>6. actor' \in Actors
  <2>1. {} \in SUBSET Turns
    OBVIOUS
  <2> QED
    BY <1>3, <1>5, <2>1, ActorUpdate
<1>7. /\ actor'.pend = q.pend /\ actor'.task = q.task /\ actor'.live = q.live
      /\ actor'.done = q.done /\ actor'.starts = q.starts
  BY <1>3, <1>4, <1>5 DEF Actors
<1>8. Orderly(actor')
  BY <1>1, <1>7 DEF Orderly
<1>9. Keeps(actor, actor', S)
  BY <1>1, <1>7 DEF Keeps
<1>10. down' \in Seq(DownMsgs)
  <2>1. q.out \in Seq(Snapshot)
    BY <1>1 DEF Actors
  <2>2. Snapshot \subseteq DownMsgs
    BY DEF DownMsgs
  <2>3. q.out \in Seq(DownMsgs)
    BY <2>1, <2>2, WiderSeq
  <2>4. down \in Seq(DownMsgs)
    BY DEF Types
  <2>5. down \o q.out \in Seq(DownMsgs)
    BY <2>3, <2>4, ConcatProperties
  <2> QED
    BY <2>4, <2>5 DEF CommitAs
<1>11. returns' \subseteq [id : Prompts, ok : BOOLEAN]
  <2>1. returns \subseteq [id : Prompts, ok : BOOLEAN]
    BY DEF Types
  <2>2. returns' = returns \cup {[id |-> p, ok |-> ok] : p \in q.replied \cap Prompts}
    BY DEF CommitAs
  <2>3. \A p \in q.replied \cap Prompts : [id |-> p, ok |-> ok] \in [id : Prompts, ok : BOOLEAN]
    OBVIOUS
  <2> QED
    BY <2>1, <2>2, <2>3
<1> QED
  BY <1>6, <1>8, <1>9, <1>10, <1>11

-----------------------------------------------------------------------------
(* The Host's steps *)

LEMMA Assemble ==
    ASSUME ConvInv, Types', StopsCounted', Orderly(actor'), NEW S, S \cap Prompts = {},
           Keeps(actor, actor', S), Carried(up', up), prep' \subseteq prep,
           \A p \in Prompts : status'[p] = "new" => status[p] = "new"
    PROVE  ConvInv'
<1>1. \A p \in Prompts : Unseen(p) => Unseen(p)'
  <2>1. SUFFICES ASSUME NEW p \in Prompts, Unseen(p) PROVE Unseen(p)'
    OBVIOUS
  <2>2. p \in Prompts \ S
    OBVIOUS
  <2> QED
    BY <2>1, <2>2, UnseenKept
<1>2. up' \in Seq(UpMsgs)
  BY DEF Types
<1>3. SentOnce'
  BY <1>1, <1>2, SentOnceKept DEF ConvInv
<1> QED
  BY <1>3 DEF ConvInv

LEMMA SameActor ==
    ASSUME ConvInv, actor' = actor
    PROVE  actor' \in Actors /\ Orderly(actor') /\ Keeps(actor, actor', {})
BY DEF ConvInv, Types, Keeps

\* The next message is taken from the connection.
LEMMA Taken ==
    ASSUME Types, up # <<>>, up' = Tail(up)
    PROVE  /\ up' \in Seq(UpMsgs) /\ Shifted(up', up, 1) /\ Carried(up', up)
           /\ Head(up) = up[1] /\ Head(up) \in UpMsgs
           /\ Count(up) \in Nat /\ Count(up') \in Nat /\ Count(up') <= Count(up)
           /\ Head(up).type = "cancel" => Count(up') + 1 <= Count(up)
<1>1. up \in Seq(UpMsgs)
  BY DEF Types
<1>2. PICK s : s = up
  OBVIOUS
<1>3. PICK t : t = up'
  OBVIOUS
<1>4. s \in Seq(UpMsgs) /\ s # <<>> /\ t = Tail(s)
  BY <1>1, <1>2, <1>3
<1>5. t \in Seq(UpMsgs) /\ Shifted(t, s, 1) /\ Head(s) = s[1] /\ Head(s) \in UpMsgs
  BY <1>4, TailShifted
<1>6. /\ Carried(t, s) /\ Count(t) <= Count(s)
      /\ (1 > 0 /\ s # <<>> /\ s[1].type = "cancel") => Count(t) + 1 <= Count(s)
  BY <1>4, <1>5, ShiftedFacts
<1>7. Count(s) \in Nat /\ Count(t) \in Nat
  BY <1>4, <1>5, CountIsNat
<1> QED
  BY <1>2, <1>3, <1>4, <1>5, <1>6, <1>7

\* Nothing is sent.
LEMMA Unsent ==
    ASSUME Types, up' = up
    PROVE  Carried(up', up) /\ Count(up) \in Nat /\ Count(up') = Count(up)
<1>1. Count(up) \in Nat
  BY CountIsNat DEF Types
<1>2. Carried(up', up)
  BY SameCarried
<1> QED
  BY <1>1, <1>2

\* An arm of the actor runs.
LEMMA ArmTypes ==
    ASSUME ConvInv, NEW q, NEW S, Sound(actor, q, S), NEW ok \in BOOLEAN, CommitAs(q, ok),
           UNCHANGED <<desktop, conn, here, access>>,
           events' \in 0 .. MaxEvents, events' >= events, up' \in Seq(UpMsgs),
           Count(up') <= Count(up), Count(up') \in Nat, Count(up) \in Nat,
           stops' \in Nat, stops' <= stops, prep' \subseteq prep
    PROVE  /\ Types' /\ StopsCounted' /\ Orderly(actor') /\ Keeps(actor, actor', S)
           /\ status' = status
<1>1. /\ actor' \in Actors /\ Orderly(actor') /\ Keeps(actor, actor', S)
      /\ down' \in Seq(DownMsgs) /\ returns' \subseteq [id : Prompts, ok : BOOLEAN]
  BY CommitKeeps DEF ConvInv
<1>2. Types /\ stops + Count(up) <= events
  BY DEF ConvInv, StopsCounted, Count
<1>3. status' = status
  BY DEF desktop
<1>4. Types'
  BY <1>1, <1>2 DEF Types, desktop
<1>5. stops' + Count(up') <= events'
  BY <1>2 DEF Types
<1>6. StopsCounted'
  BY <1>5 DEF StopsCounted, Count
<1> QED
  BY <1>1, <1>3, <1>4, <1>6

LEMMA ArmKeeps ==
    ASSUME ConvInv, NEW q, NEW S, S \cap Prompts = {}, Sound(actor, q, S),
           NEW ok \in BOOLEAN, CommitAs(q, ok),
           UNCHANGED <<desktop, conn, here, access>>,
           events' \in 0 .. MaxEvents, events' >= events, up' \in Seq(UpMsgs),
           Count(up') <= Count(up), Count(up') \in Nat, Count(up) \in Nat,
           stops' \in Nat, stops' <= stops, prep' \subseteq prep, Carried(up', up)
    PROVE  ConvInv'
<1>1. /\ Types' /\ StopsCounted' /\ Orderly(actor') /\ Keeps(actor, actor', S) /\ status' = status
  BY ArmTypes
<1> QED
  BY <1>1, Assemble

LEMMA StopKeeps ==
    ASSUME ConvInv, Stop
    PROVE  ConvInv'
<1>0. Types /\ actor \in Actors /\ Orderly(actor) /\ stops \in Nat /\ events \in 0 .. MaxEvents /\ up \in Seq(UpMsgs)
  BY DEF ConvInv, Types
<1> DEFINE c == CancelRunning(actor)
           q == MaybeStart(c)
<1>1. Sound(actor, c, {})
  BY <1>0, SoundSame, SoundSteps
<1> HIDE DEF c
<1>2. Sound(actor, q, {})
  BY <1>0, <1>1, SoundSteps
<1>3. CommitAs(q, TRUE)
  BY DEF Stop, Commit, c
<1> HIDE DEF q
<1>4. /\ UNCHANGED <<desktop, conn, here, access>> /\ events' = events /\ up' = up
      /\ stops > 0 /\ stops' = stops - 1 /\ prep' = prep
  BY DEF Stop, HostUnchanged
<1>5. Carried(up', up) /\ Count(up) \in Nat /\ Count(up') = Count(up)
  BY <1>0, <1>4, Unsent
<1>6. stops' \in Nat /\ stops' <= stops
  BY <1>0, <1>4
<1>7. events' >= events /\ Count(up') <= Count(up)
  BY <1>0, <1>4, <1>5
<1>8. {} \cap Prompts = {}
  OBVIOUS
<1> QED
  BY <1>0, <1>2, <1>3, <1>4, <1>5, <1>6, <1>7, <1>8, ArmKeeps

LEMMA CompleteKeeps ==
    ASSUME ConvInv, Complete
    PROVE  ConvInv'
<1>0. Types /\ actor \in Actors /\ Orderly(actor) /\ stops \in Nat /\ events \in 0 .. MaxEvents /\ up \in Seq(UpMsgs)
  BY DEF ConvInv, Types
<1> DEFINE d == actor.done
           b == [actor EXCEPT !.done = Tail(d)]
           id == Head(d)
           q == Completion(b, id)
<1>1. d \in Seq(Turns) /\ d # <<>>
  BY <1>0 DEF Actors, Complete
<1>2. /\ Tail(d) \in Seq(Turns) /\ Len(Tail(d)) = Len(d) - 1 /\ Len(d) \in Nat \ {0}
      /\ \A k \in 1 .. Len(Tail(d)) : Tail(d)[k] = d[k + 1]
  <2> HIDE DEF d
  <2> QED
    BY <1>1, TailFacts
<1>3. id \in Turns /\ id = d[1] /\ 1 \in 1 .. Len(d)
  <2> HIDE DEF d
  <2>1. id \in Turns
    BY <1>1, HeadTailProperties
  <2> QED
    BY <1>1, <1>2, <2>1
<1>4. b \in Actors
  BY <1>0, <1>2, ActorUpdate
<1>5. /\ b.pend = actor.pend /\ b.task = actor.task /\ b.live = actor.live /\ b.starts = actor.starts
      /\ b.done = Tail(d)
  BY <1>0 DEF Actors
<1>6. \A k \in 1 .. Len(d) : actor.starts[d[k]] = 1 /\ d[k] \notin actor.live
  BY <1>0 DEF Orderly
<1>7. Orderly(b)
  <2>1. \A k \in 1 .. Len(Tail(d)) : k + 1 \in 1 .. Len(d)
    BY <1>2
  <2>2. \A k \in 1 .. Len(b.done) : b.starts[b.done[k]] = 1 /\ b.done[k] \notin b.live
    <3> HIDE DEF b, d
    <3> QED
      BY <1>2, <1>5, <1>6, <2>1
  <2>3. /\ Distinct(actor.pend) /\ (actor.task # None => actor.pend # <<>> /\ actor.pend[1].id = actor.task)
        /\ \A k \in 1 .. Len(actor.pend) : actor.pend[k].id # actor.task => actor.starts[actor.pend[k].id] = 0
        /\ actor.live \subseteq {actor.task} /\ (\A t \in Turns : actor.starts[t] <= 1)
        /\ \A t \in actor.live : actor.starts[t] = 1
    BY <1>0 DEF Orderly
  <2> HIDE DEF b, d
  <2>4. /\ Distinct(b.pend) /\ (b.task # None => b.pend # <<>> /\ b.pend[1].id = b.task)
        /\ \A k \in 1 .. Len(b.pend) : b.pend[k].id # b.task => b.starts[b.pend[k].id] = 0
        /\ b.live \subseteq {b.task} /\ (\A t \in Turns : b.starts[t] <= 1)
        /\ \A t \in b.live : b.starts[t] = 1
    BY <1>5, <2>3
  <2> QED
    BY <2>2, <2>4 DEF Orderly
<1>8. id \notin b.live
  BY <1>3, <1>5, <1>6
<1>9. Keeps(actor, b, {})
  <2> HIDE DEF b
  <2> QED
    BY <1>5 DEF Keeps
<1> HIDE DEF b, id
<1>10. q \in Actors /\ Orderly(q) /\ Keeps(b, q, {})
  BY <1>3, <1>4, <1>7, <1>8, CompletionKeeps
<1>11. PICK ok \in BOOLEAN : CommitAs(q, ok)
  BY DEF Complete, b, id
<1> HIDE DEF q, d
<1>12. Sound(actor, q, {})
  BY <1>0, <1>4, <1>9, <1>10, KeepsTransitive DEF Sound
<1>13. /\ UNCHANGED <<desktop, conn, here, access>> /\ events' = events /\ up' = up
       /\ stops' = stops /\ prep' = prep
  BY DEF Complete, HostUnchanged
<1>14. Carried(up', up) /\ Count(up) \in Nat /\ Count(up') = Count(up)
  BY <1>0, <1>13, Unsent
<1>15. events' >= events /\ Count(up') <= Count(up) /\ stops' \in Nat /\ stops' <= stops
  BY <1>0, <1>13, <1>14
<1>16. {} \cap Prompts = {}
  OBVIOUS
<1> QED
  BY <1>0, <1>11, <1>12, <1>13, <1>14, <1>15, <1>16, ArmKeeps

LEMMA WakeKeeps ==
    ASSUME ConvInv, NEW w \in Wakes, Wake(w)
    PROVE  ConvInv'
<1>0. Types /\ actor \in Actors /\ Orderly(actor) /\ stops \in Nat /\ events \in 0 .. MaxEvents /\ up \in Seq(UpMsgs)
  BY DEF ConvInv, Types
<1> DEFINE item == [id |-> w, ver |-> 0, text |-> 0, now |-> FALSE]
           q == QueueInput(actor, item, FALSE, FALSE, FALSE)
<1>1. item \in Item /\ item.id = w
  BY ConversationAssumption DEF Item, Turns
<1>2. w \notin Ids(actor.pend) /\ actor.starts[w] = 0
  BY DEF Wake, Ids
<1>3. CommitAs(q, TRUE)
  BY DEF Wake, Commit
<1> HIDE DEF item
<1>4. Sound(actor, q, {item.id})
  BY <1>0, <1>1, <1>2, QueueInputKeeps
<1> HIDE DEF q
<1>5. /\ UNCHANGED <<desktop, conn, here, access>> /\ events' = events + 1 /\ up' = up
      /\ stops' = stops /\ prep' = prep /\ events < MaxEvents
  BY DEF Wake, Event
<1>6. Carried(up', up) /\ Count(up) \in Nat /\ Count(up') = Count(up)
  BY <1>0, <1>5, Unsent
<1>7. events' \in 0 .. MaxEvents /\ events' >= events /\ Count(up') <= Count(up) /\ stops' \in Nat /\ stops' <= stops
  BY <1>0, <1>5, <1>6, ConversationAssumption
<1>8. {item.id} \cap Prompts = {}
  BY <1>1, ConversationAssumption
<1> QED
  BY <1>0, <1>3, <1>4, <1>5, <1>6, <1>7, <1>8, ArmKeeps

LEMMA QueueOpKeeps ==
    ASSUME ConvInv, DeliverQueueOp
    PROVE  ConvInv'
<1>0. Types /\ actor \in Actors /\ Orderly(actor) /\ stops \in Nat /\ events \in 0 .. MaxEvents
  BY DEF ConvInv, Types
<1>1. /\ UNCHANGED <<desktop, conn, here, access>> /\ events' = events /\ up' = Tail(up) /\ up # <<>>
      /\ stops' = stops /\ prep' = prep
  BY DEF DeliverQueueOp, HostUnchanged
<1>2. /\ up' \in Seq(UpMsgs) /\ Carried(up', up) /\ Head(up) \in UpMsgs
      /\ Count(up) \in Nat /\ Count(up') \in Nat /\ Count(up') <= Count(up)
  BY <1>0, <1>1, Taken
<1>3. PICK q \in QueueOps(Head(up)) : IF actor.on THEN Commit(q) ELSE UNCHANGED <<actor, down, returns>>
  BY DEF DeliverQueueOp
<1>4. events' >= events /\ stops' \in Nat /\ stops' <= stops /\ events' \in 0 .. MaxEvents
  BY <1>0, <1>1
<1>5. {} \cap Prompts = {}
  OBVIOUS
<1>6. CASE actor.on
  <2> DEFINE m == Head(up)
  <2>1. m.type = "edit" => m.text \in 0 .. MaxEvents
    BY <1>2 DEF UpMsgs
  <2>2. m.type = "reorder" => m.order \in Seq(Prompts)
    BY <1>2 DEF UpMsgs
  <2>3. \/ m.type = "remove" /\ q = RemoveQueued(actor, m.id, m.ver)
        \/ m.type = "edit" /\ q = EditQueued(actor, m.id, m.text)
        \/ m.type = "now" /\ \E goal \in BOOLEAN : q = SendQueuedNow(actor, m.id, m.ver, goal)
        \/ m.type = "reorder" /\ q = ReorderQueue(actor, m.order)
        \/ m.type = "clear" /\ q = ClearQueue(actor)
    BY <1>3 DEF QueueOps
  <2>4. Sound(actor, q, {})
    <3> HIDE DEF m
    <3> QED
      BY <1>0, <2>1, <2>2, <2>3, RemoveQueuedKeeps, EditQueuedKeeps, SendQueuedNowKeeps,
         ReorderQueueKeeps, ClearQueueKeeps
  <2>5. CommitAs(q, TRUE)
    BY <1>3, <1>6 DEF Commit
  <2> QED
    BY <1>1, <1>2, <1>4, <1>5, <2>4, <2>5, ArmKeeps
<1>7. CASE ~ actor.on
  <2>1. UNCHANGED <<actor, down, returns>>
    BY <1>3, <1>7
  <2>2. actor' \in Actors /\ Orderly(actor') /\ Keeps(actor, actor', {})
    BY <2>1, SameActor
  <2>3. Types'
    BY <1>0, <1>1, <1>2, <1>4, <2>1, <2>2 DEF Types, desktop
  <2>4. stops + Count(up) <= events
    BY DEF ConvInv, StopsCounted, Count
  <2>5. stops' + Count(up') <= events'
    BY <1>0, <1>1, <1>2, <2>4
  <2>6. StopsCounted'
    BY <2>5 DEF StopsCounted, Count
  <2>7. status' = status
    BY <1>1 DEF desktop
  <2> QED
    BY <1>1, <1>2, <1>5, <2>2, <2>3, <2>6, <2>7, Assemble
<1> QED
  BY <1>6, <1>7

LEMMA EnqueueKeeps ==
    ASSUME ConvInv, NEW p, Enqueue(p)
    PROVE  ConvInv'
<1>0. Types /\ actor \in Actors /\ Orderly(actor) /\ SentOnce /\ stops \in Nat /\ events \in 0 .. MaxEvents /\ up \in Seq(UpMsgs)
  BY DEF ConvInv, Types
<1> DEFINE item == [id |-> p.id, ver |-> 0, text |-> 0, now |-> p.now]
<1>1. p \in prep /\ p.id \in Prompts /\ p.now \in BOOLEAN
  BY <1>0 DEF Enqueue, Types, Submitted
<1>2. item \in Item /\ item.id = p.id
  BY <1>1, ConversationAssumption DEF Item, Turns
<1>3. p.id \notin Ids(actor.pend) /\ actor.starts[p.id] = 0
  BY <1>0, <1>1 DEF SentOnce, Unseen
<1>4. PICK armed \in BOOLEAN, blocked \in BOOLEAN, goal \in BOOLEAN :
        Commit(QueueInput(actor, item, armed, blocked, goal))
  BY DEF Enqueue
<1> DEFINE q == QueueInput(actor, item, armed, blocked, goal)
           S == {p.id}
<1>5. CommitAs(q, TRUE)
  BY <1>4 DEF Commit
<1>6. Sound(actor, q, S)
  <2> HIDE DEF item
  <2>1. Sound(actor, q, {item.id})
    BY <1>0, <1>2, <1>3, QueueInputKeeps
  <2> QED
    BY <1>2, <2>1
<1> HIDE DEF q, item
<1>7. /\ UNCHANGED <<desktop, conn, here, access>> /\ events' = events /\ up' = up
      /\ stops' = stops /\ prep' = prep \ {p}
  BY DEF Enqueue, HostUnchanged
<1>8. Carried(up', up) /\ Count(up) \in Nat /\ Count(up') = Count(up)
  BY <1>0, <1>7, Unsent
<1>9. events' >= events /\ Count(up') <= Count(up) /\ stops' \in Nat /\ stops' <= stops /\ prep' \subseteq prep
  BY <1>0, <1>7, <1>8
<1>10. /\ Types' /\ StopsCounted' /\ Orderly(actor') /\ Keeps(actor, actor', S) /\ status' = status
  BY <1>0, <1>5, <1>6, <1>7, <1>8, <1>9, ArmTypes
<1>11. \A x \in Prompts : x # p.id /\ Unseen(x) => Unseen(x)'
  <2>1. SUFFICES ASSUME NEW x \in Prompts, x # p.id, Unseen(x) PROVE Unseen(x)'
    OBVIOUS
  <2>2. x \in Prompts \ S
    BY <2>1
  <2> HIDE DEF S
  <2> QED
    BY <1>10, <2>1, <2>2, UnseenKept
<1>12. SentOnce'
  <2>1. \A j, k \in 1 .. Len(up') :
          up'[j].type = "prompt" /\ up'[k].type = "prompt" /\ up'[j].id = up'[k].id => j = k
    BY <1>0, <1>7 DEF SentOnce
  <2>2. ASSUME NEW k \in 1 .. Len(up'), up'[k].type = "prompt"
        PROVE  Unseen(up[k].id)' /\ status'[up'[k].id] # "new" /\ \A o \in prep' : o.id # up'[k].id
    <3>1. /\ Unseen(up[k].id) /\ status[up[k].id] # "new" /\ \A o \in prep : o.id # up[k].id
      BY <1>0, <1>7, <2>2 DEF SentOnce
    <3>2. up[k].id \in Prompts /\ up[k].id # p.id
      <4>1. up[k] \in UpMsgs
        BY <1>0, <1>7, ElementOfSeq
      <4> QED
        BY <1>1, <1>7, <2>2, <3>1, <4>1 DEF UpMsgs
    <3>3. PICK x \in Prompts : x = up[k].id
      BY <3>2
    <3>4. Unseen(x)'
      BY <1>11, <3>1, <3>2, <3>3
    <3>5. Unseen(up[k].id)'
      BY <1>7, <3>3, <3>4 DEF Unseen
    <3> QED
      BY <1>7, <1>10, <3>1, <3>5
  <2>3. ASSUME NEW o \in prep'
        PROVE  Unseen(o.id)' /\ status'[o.id] # "new" /\ \A n \in prep' : n.id = o.id => n = o
    <3>1. o \in prep /\ o # p /\ o.id \in Prompts
      BY <1>0, <1>7 DEF Types, Submitted
    <3>2. Unseen(o.id) /\ status[o.id] # "new" /\ \A n \in prep : n.id = o.id => n = o
      BY <1>0, <3>1 DEF SentOnce
    <3>3. o.id # p.id
      BY <1>1, <3>1, <3>2
    <3> QED
      BY <1>7, <1>10, <1>11, <3>1, <3>2, <3>3
  <2>4. ASSUME NEW x \in Prompts, status'[x] = "new" PROVE Unseen(x)'
    <3>1. Unseen(x) /\ x # p.id
      BY <1>0, <1>1, <1>10, <2>4 DEF SentOnce
    <3> QED
      BY <1>11, <3>1
  <2> QED
    BY <2>1, <2>2, <2>3, <2>4 DEF SentOnce
<1> QED
  BY <1>10, <1>12 DEF ConvInv

LEMMA DeliverPromptKeeps ==
    ASSUME ConvInv, DeliverPrompt
    PROVE  ConvInv'
<1>0. /\ Types /\ SentOnce /\ stops \in Nat /\ events \in 0 .. MaxEvents /\ up \in Seq(UpMsgs)
      /\ stops + Count(up) <= events
  BY DEF ConvInv, Types, StopsCounted, Count
<1> DEFINE p == [id |-> Head(up).id, now |-> Head(up).now]
<1>1. /\ UNCHANGED desktop /\ conn' = conn /\ events' = events /\ up' = Tail(up) /\ up # <<>>
      /\ Head(up).type = "prompt" /\ down' = down /\ access' = access /\ stops' = stops
      /\ actor' = actor /\ here' = here \cup {p.id}
  BY DEF DeliverPrompt, HostUnchanged
<1>2. /\ up' \in Seq(UpMsgs) /\ Shifted(up', up, 1) /\ Carried(up', up)
      /\ Head(up) = up[1] /\ Head(up) \in UpMsgs
      /\ Count(up) \in Nat /\ Count(up') \in Nat /\ Count(up') <= Count(up)
  BY <1>0, <1>1, Taken
<1>3. p \in Submitted /\ p.id \in Prompts /\ p.id = up[1].id
  BY <1>1, <1>2 DEF UpMsgs, Submitted
<1>4. \/ prep' = prep \cup {p} /\ returns' = returns
      \/ prep' = prep /\ returns' = returns \cup {[id |-> p.id, ok |-> FALSE]}
  BY DEF DeliverPrompt
<1> HIDE DEF p
<1>5. actor' \in Actors /\ Orderly(actor') /\ Keeps(actor, actor', {})
  BY <1>1, SameActor
<1>6. [id |-> p.id, ok |-> FALSE] \in [id : Prompts, ok : BOOLEAN]
  BY <1>3
<1>7. Types'
  <2>1. prep' \subseteq Submitted /\ returns' \subseteq [id : Prompts, ok : BOOLEAN] /\ here' \subseteq Prompts
    BY <1>0, <1>1, <1>3, <1>4, <1>6 DEF Types
  <2> QED
    BY <1>0, <1>1, <1>2, <1>5, <2>1 DEF Types, desktop
<1>8. StopsCounted'
  <2>1. stops' + Count(up') <= events'
    BY <1>0, <1>1, <1>2
  <2> QED
    BY <2>1 DEF StopsCounted, Count
<1>9. status' = status
  BY <1>1 DEF desktop
<1>10. CASE prep' = prep
  <2>1. {} \cap Prompts = {}
    OBVIOUS
  <2> QED
    BY <1>2, <1>5, <1>7, <1>8, <1>9, <1>10, <2>1, Assemble
<1>11. CASE prep' = prep \cup {p}
  <2>0. /\ Len(up') \in Nat /\ Len(up) \in Nat /\ Len(up') + 1 = Len(up)
        /\ \A k \in 1 .. Len(up') : up'[k] = up[k + 1]
    BY <1>2 DEF Shifted
  <2>a. 1 \in 1 .. Len(up) /\ \A k \in 1 .. Len(up') : k + 1 \in 1 .. Len(up) /\ k + 1 # 1
    BY <2>0
  <2>1. \A j, k \in 1 .. Len(up') :
          up'[j].type = "prompt" /\ up'[k].type = "prompt" /\ up'[j].id = up'[k].id => j = k
    <3>1. SUFFICES ASSUME NEW j \in 1 .. Len(up'), NEW k \in 1 .. Len(up'),
                          up'[j].type = "prompt", up'[k].type = "prompt", up'[j].id = up'[k].id
                   PROVE  j = k
      OBVIOUS
    <3>a. /\ j + 1 \in 1 .. Len(up) /\ up[j + 1].type = "prompt" /\ k + 1 \in 1 .. Len(up)
          /\ up[k + 1].type = "prompt" /\ up[j + 1].id = up[k + 1].id
      BY <2>0, <2>a, <3>1
    <3>2. j + 1 = k + 1
      BY <1>0, <3>a DEF SentOnce
    <3> QED
      BY <2>0, <3>2
  <2>b. /\ Unseen(p.id) /\ status[p.id] # "new" /\ \A o \in prep : o.id # p.id
    BY <1>0, <1>1, <1>2, <1>3, <2>a DEF SentOnce
  <2>c. \A x : Unseen(x) => Unseen(x)'
    BY <1>1 DEF Unseen
  <2>2. ASSUME NEW k \in 1 .. Len(up'), up'[k].type = "prompt"
        PROVE  Unseen(up[k].id)' /\ status'[up'[k].id] # "new" /\ \A o \in prep' : o.id # up'[k].id
    <3>1. PICK x : x = up'[k].id
      OBVIOUS
    <3>2. /\ Unseen(x) /\ status[x] # "new" /\ \A o \in prep : o.id # x
      BY <1>0, <2>0, <2>2, <2>a, <3>1 DEF SentOnce
    <3>3. x # p.id
      BY <1>0, <1>1, <1>2, <1>3, <2>0, <2>2, <2>a, <3>1 DEF SentOnce
    <3>4. Unseen(up[k].id)'
      BY <2>c, <3>1, <3>2 DEF Unseen
    <3> QED
      BY <1>9, <1>11, <3>1, <3>2, <3>3, <3>4
  <2>3. ASSUME NEW o \in prep'
        PROVE  Unseen(o.id)' /\ status'[o.id] # "new" /\ \A n \in prep' : n.id = o.id => n = o
    <3>1. CASE o = p
      BY <1>9, <1>11, <2>b, <2>c, <3>1
    <3>2. CASE o \in prep
      <4>1. Unseen(o.id) /\ status[o.id] # "new" /\ \A n \in prep : n.id = o.id => n = o
        BY <1>0, <3>2 DEF SentOnce
      <4>2. o.id # p.id
        BY <2>b, <3>2
      <4> QED
        BY <1>9, <1>11, <2>c, <4>1, <4>2
    <3> QED
      BY <1>11, <3>1, <3>2
  <2>4. \A x \in Prompts : status'[x] = "new" => Unseen(x)'
    BY <1>0, <1>9, <2>c DEF SentOnce
  <2>5. SentOnce'
    BY <2>1, <2>2, <2>3, <2>4 DEF SentOnce
  <2> QED
    BY <1>1, <1>5, <1>7, <1>8, <2>5 DEF ConvInv
<1> QED
  BY <1>4, <1>10, <1>11

\* Steps of the Host that take no message and do not start, end or cancel a turn.
LEMMA HandlersKeep ==
    ASSUME ConvInv,
           \/ \E p \in prep : PrepareFails(p)
           \/ \E a \in returns : Reply(a)
           \/ Reconnect \/ Announce \/ Revalidate
    PROVE  ConvInv'
<1>0. /\ Types /\ stops \in Nat /\ events \in 0 .. MaxEvents /\ up \in Seq(UpMsgs) /\ down \in Seq(DownMsgs)
      /\ returns \subseteq [id : Prompts, ok : BOOLEAN]
  BY DEF ConvInv, Types
<1>1. /\ UNCHANGED desktop /\ events' = events /\ up' = up /\ stops' = stops /\ actor' = actor
      /\ here' = here
  BY DEF PrepareFails, Reply, Reconnect, Announce, Revalidate, HostUnchanged, wire, host
<1>2. prep' \subseteq prep /\ conn' \in {"up", "down", "replay"} /\ access' \in BOOLEAN
  BY <1>0 DEF PrepareFails, Reply, Reconnect, Announce, Revalidate, HostUnchanged, wire, host, Types
<1>3. returns' \subseteq [id : Prompts, ok : BOOLEAN]
  <2>1. ASSUME NEW p \in prep, PrepareFails(p) PROVE returns' \subseteq [id : Prompts, ok : BOOLEAN]
    <3>1. [id |-> p.id, ok |-> FALSE] \in [id : Prompts, ok : BOOLEAN]
      BY <1>0 DEF Types, Submitted
    <3> QED
      BY <1>0, <2>1, <3>1 DEF PrepareFails
  <2>2. ASSUME NEW a \in returns, Reply(a) PROVE returns' \subseteq [id : Prompts, ok : BOOLEAN]
    BY <1>0, <2>2 DEF Reply
  <2>3. CASE Reconnect \/ Announce \/ Revalidate
    BY <1>0, <2>3 DEF Reconnect, Announce, Revalidate, host
  <2> QED
    BY <2>1, <2>2, <2>3
<1>4. down' \in Seq(DownMsgs)
  <2>1. ASSUME NEW p \in prep, PrepareFails(p) PROVE down' \in Seq(DownMsgs)
    BY <1>0, <2>1 DEF PrepareFails
  <2>2. ASSUME NEW a \in returns, Reply(a) PROVE down' \in Seq(DownMsgs)
    <3> DEFINE m == [type |-> "answer", id |-> a.id, ok |-> a.ok]
    <3>1. a.id \in Prompts /\ a.ok \in BOOLEAN
      BY <1>0
    <3>2. m \in DownMsgs
      BY <3>1 DEF DownMsgs
    <3>3. down' = Append(down, m) \/ down' = down
      BY <2>2 DEF Reply
    <3> HIDE DEF m
    <3> QED
      BY <1>0, <3>2, <3>3, AppendProperties
  <2>3. CASE Reconnect \/ Revalidate
    BY <1>0, <2>3 DEF Reconnect, Revalidate, wire
  <2>4. CASE Announce
    <3> DEFINE m == [type |-> "reconnected"]
    <3>1. m \in DownMsgs
      BY DEF DownMsgs
    <3>2. down' = Append(down, m)
      BY <2>4 DEF Announce
    <3> HIDE DEF m
    <3> QED
      BY <1>0, <3>1, <3>2, AppendProperties
  <2> QED
    BY <2>1, <2>2, <2>3, <2>4
<1>5. actor' \in Actors /\ Orderly(actor') /\ Keeps(actor, actor', {})
  BY <1>1, SameActor
<1>6. Types'
  BY <1>0, <1>1, <1>2, <1>3, <1>4, <1>5 DEF Types, desktop
<1>7. Carried(up', up)
  BY <1>0, <1>1, Unsent
<1>8. StopsCounted'
  BY <1>1 DEF ConvInv, StopsCounted
<1>9. status' = status /\ {} \cap Prompts = {}
  BY <1>1 DEF desktop
<1> QED
  BY <1>2, <1>5, <1>6, <1>7, <1>8, <1>9, Assemble

LEMMA DeliverCancelKeeps ==
    ASSUME ConvInv, DeliverCancel
    PROVE  ConvInv'
<1>0. /\ Types /\ stops \in Nat /\ events \in 0 .. MaxEvents /\ up \in Seq(UpMsgs)
      /\ stops + Count(up) <= events
  BY DEF ConvInv, Types, StopsCounted, Count
<1>1. /\ UNCHANGED <<desktop, conn, events, down, here, access, prep, returns, actor>>
      /\ up' = Tail(up) /\ up # <<>> /\ Head(up).type = "cancel"
      /\ stops' = IF actor.on THEN stops + 1 ELSE stops
  BY DEF DeliverCancel, HostUnchanged
<1>2. /\ up' \in Seq(UpMsgs) /\ Carried(up', up)
      /\ Count(up) \in Nat /\ Count(up') \in Nat /\ Count(up') + 1 <= Count(up)
  BY <1>0, <1>1, Taken
<1>3. actor' \in Actors /\ Orderly(actor') /\ Keeps(actor, actor', {})
  BY <1>1, SameActor
<1>4. stops' \in Nat /\ stops' + Count(up') <= events'
  BY <1>0, <1>1, <1>2
<1>5. Types'
  BY <1>0, <1>1, <1>2, <1>3, <1>4 DEF Types, desktop
<1>6. StopsCounted'
  BY <1>4 DEF StopsCounted, Count
<1>7. status' = status /\ {} \cap Prompts = {} /\ prep' \subseteq prep
  BY <1>1 DEF desktop
<1> QED
  BY <1>2, <1>3, <1>5, <1>6, <1>7, Assemble

LEMMA SwitchedOn ==
    ASSUME ConvInv, NEW b \in BOOLEAN, actor' = [actor EXCEPT !.on = b]
    PROVE  actor' \in Actors /\ Orderly(actor') /\ Keeps(actor, actor', {})
<1>0. actor \in Actors /\ Orderly(actor)
  BY DEF ConvInv, Types
<1>1. actor' \in Actors
  BY <1>0, ActorUpdate
<1>2. /\ actor'.pend = actor.pend /\ actor'.task = actor.task /\ actor'.live = actor.live
      /\ actor'.done = actor.done /\ actor'.starts = actor.starts
  BY <1>0 DEF Actors
<1>3. Orderly(actor')
  BY <1>0, <1>2 DEF Orderly
<1>4. Keeps(actor, actor', {})
  BY <1>2 DEF Keeps
<1> QED
  BY <1>1, <1>3, <1>4

LEMMA DeliverLoadKeeps ==
    ASSUME ConvInv, DeliverLoad
    PROVE  ConvInv'
<1>0. /\ Types /\ stops \in Nat /\ events \in 0 .. MaxEvents /\ up \in Seq(UpMsgs) /\ down \in Seq(DownMsgs)
      /\ stops + Count(up) <= events /\ access \in BOOLEAN /\ actor.on \in BOOLEAN
  BY DEF ConvInv, Types, StopsCounted, Count, Actors
<1> DEFINE m == [type |-> "loaded", ok |-> access]
<1>1. /\ UNCHANGED <<desktop, conn, events, here, access, prep, stops, returns>>
      /\ up' = Tail(up) /\ up # <<>> /\ down' = Append(down, m)
      /\ actor' = [actor EXCEPT !.on = actor.on \/ access]
  BY DEF DeliverLoad, HostUnchanged
<1>2. /\ up' \in Seq(UpMsgs) /\ Carried(up', up)
      /\ Count(up) \in Nat /\ Count(up') \in Nat /\ Count(up') <= Count(up)
  BY <1>0, <1>1, Taken
<1>3. actor' \in Actors /\ Orderly(actor') /\ Keeps(actor, actor', {})
  <2>1. (actor.on \/ access) \in BOOLEAN
    OBVIOUS
  <2> QED
    BY <1>1, <2>1, SwitchedOn
<1>4. m \in DownMsgs
  BY <1>0 DEF DownMsgs
<1> HIDE DEF m
<1>5. down' \in Seq(DownMsgs)
  BY <1>0, <1>1, <1>4, AppendProperties
<1>6. stops' + Count(up') <= events'
  BY <1>0, <1>1, <1>2
<1>7. Types'
  BY <1>0, <1>1, <1>2, <1>3, <1>5 DEF Types, desktop
<1>8. StopsCounted'
  BY <1>6 DEF StopsCounted, Count
<1>9. status' = status /\ {} \cap Prompts = {} /\ prep' \subseteq prep
  BY <1>1 DEF desktop
<1> QED
  BY <1>2, <1>3, <1>7, <1>8, <1>9, Assemble

LEMMA RestoreKeeps ==
    ASSUME ConvInv, Restore
    PROVE  ConvInv'
<1>0. Types /\ up \in Seq(UpMsgs)
  BY DEF ConvInv, Types
<1>1. /\ UNCHANGED <<desktop, conn, up, down, here, access, prep, stops, returns, events>>
      /\ actor' = [actor EXCEPT !.on = TRUE]
  BY DEF Restore, wire
<1>2. actor' \in Actors /\ Orderly(actor') /\ Keeps(actor, actor', {})
  BY <1>1, SwitchedOn
<1>3. Types'
  BY <1>0, <1>1, <1>2 DEF Types, desktop
<1>4. StopsCounted'
  BY <1>1 DEF ConvInv, StopsCounted
<1>5. Carried(up', up)
  BY <1>0, <1>1, Unsent
<1>6. status' = status /\ {} \cap Prompts = {} /\ prep' \subseteq prep
  BY <1>1 DEF desktop
<1> QED
  BY <1>2, <1>3, <1>4, <1>5, <1>6, Assemble

LEMMA FinishKeeps ==
    ASSUME ConvInv, NEW t \in Turns, Finish(t)
    PROVE  ConvInv'
<1>0. Types /\ up \in Seq(UpMsgs) /\ actor \in Actors /\ Orderly(actor)
  BY DEF ConvInv, Types
<1>1. UNCHANGED <<desktop, conn, up, down, here, access, prep, stops, returns, events>>
  BY DEF Finish, HostUnchanged
<1> DEFINE l == actor.live \ {t}
           d == Append(actor.done, t)
<1>2. actor.done \in Seq(Turns) /\ actor.live \in SUBSET Turns /\ t \in actor.live
  BY <1>0 DEF Actors, Finish
<1>3. PICK e : e = actor.done
  OBVIOUS
<1>4. /\ d \in Seq(Turns) /\ Len(d) = Len(e) + 1 /\ Len(e) \in Nat /\ d[Len(e) + 1] = t
      /\ \A k \in 1 .. Len(e) : d[k] = e[k]
  BY <1>2, <1>3, AppendProperties, LenProperties
<1>5. l \in SUBSET Turns
  BY <1>2
<1>6. PICK a : a = [actor EXCEPT !.live = l]
  OBVIOUS
<1>7. actor' = [a EXCEPT !.done = d]
  BY <1>6 DEF Finish
<1> HIDE DEF l, d
<1>8. a \in Actors
  BY <1>0, <1>5, <1>6, ActorUpdate
<1>9. a.pend = actor.pend /\ a.task = actor.task /\ a.live = l /\ a.starts = actor.starts
  BY <1>0, <1>6 DEF Actors
<1>10. actor' \in Actors
  BY <1>4, <1>7, <1>8, ActorUpdate
<1>11. /\ actor'.pend = actor.pend /\ actor'.task = actor.task /\ actor'.live = l
       /\ actor'.starts = actor.starts /\ actor'.done = d
  BY <1>7, <1>8, <1>9 DEF Actors
<1>12. \A k \in 1 .. Len(d) : actor.starts[d[k]] = 1 /\ d[k] \notin l
  <2>1. SUFFICES ASSUME NEW k \in 1 .. Len(d) PROVE actor.starts[d[k]] = 1 /\ d[k] \notin l
    OBVIOUS
  <2>2. CASE k \in 1 .. Len(e)
    BY <1>0, <1>3, <1>4, <2>2 DEF Orderly, l
  <2>3. CASE k = Len(e) + 1
    BY <1>0, <1>2, <1>4, <2>3 DEF Orderly, l
  <2> QED
    BY <1>4, <2>2, <2>3
<1>13. l \subseteq actor.live
  BY DEF l
<1>14. Orderly(actor')
  BY <1>0, <1>11, <1>12, <1>13 DEF Orderly
<1>15. Keeps(actor, actor', {})
  BY <1>11 DEF Keeps
<1>16. Types'
  BY <1>0, <1>1, <1>10 DEF Types, desktop
<1>17. StopsCounted'
  BY <1>1 DEF ConvInv, StopsCounted
<1>18. Carried(up', up)
  BY <1>0, <1>1, Unsent
<1>19. status' = status /\ {} \cap Prompts = {} /\ prep' \subseteq prep
  BY <1>1 DEF desktop
<1> QED
  BY <1>14, <1>15, <1>16, <1>17, <1>18, <1>19, Assemble

LEMMA DropKeeps ==
    ASSUME ConvInv, Drop
    PROVE  ConvInv'
<1>0. /\ Types /\ stops \in Nat /\ events \in 0 .. MaxEvents /\ up \in Seq(UpMsgs) /\ down \in Seq(DownMsgs)
      /\ stops + Count(up) <= events /\ actor \in Actors /\ Orderly(actor)
  BY DEF ConvInv, Types, StopsCounted, Count
<1>1. /\ UNCHANGED desktop /\ conn' = "down" /\ here' = {} /\ events' = events + 1 /\ events < MaxEvents
      /\ up' \in Suffixes(up) /\ down' \in Prefixes(down)
  BY DEF Drop, Event
<1>2. down' \in Seq(DownMsgs)
  BY <1>0, <1>1, PrefixTyped
<1>3. up' \in Seq(UpMsgs) /\ Carried(up', up) /\ Count(up') <= Count(up) /\ Count(up) \in Nat /\ Count(up') \in Nat
  <2>1. up' \in Seq(UpMsgs) /\ \E d \in Nat : Shifted(up', up, d)
    BY <1>0, <1>1, SuffixShifted
  <2>2. PICK d \in Nat : Shifted(up', up, d)
    BY <2>1
  <2>3. Carried(up', up) /\ Count(up') <= Count(up)
    BY <1>0, <2>1, <2>2, ShiftedFacts
  <2> QED
    BY <1>0, <2>1, <2>3, CountIsNat
<1>4. events' \in 0 .. MaxEvents
  BY <1>0, <1>1, ConversationAssumption
<1>5. status' = status /\ {} \cap Prompts = {}
  BY <1>1 DEF desktop
<1>6. CASE UNCHANGED host
  <2>1. UNCHANGED <<access, prep, stops, returns, actor>>
    BY <1>6 DEF host
  <2>2. actor' \in Actors /\ Orderly(actor') /\ Keeps(actor, actor', {})
    BY <2>1, SameActor
  <2>3. Types'
    BY <1>0, <1>1, <1>2, <1>3, <1>4, <2>1, <2>2 DEF Types, desktop
  <2>4. stops' + Count(up') <= events'
    BY <1>0, <1>1, <1>3, <2>1
  <2>5. StopsCounted'
    BY <2>4 DEF StopsCounted, Count
  <2> QED
    BY <1>3, <1>5, <2>1, <2>2, <2>3, <2>5, Assemble
<1>7. CASE /\ access' = FALSE /\ prep' = {} /\ stops' = 0 /\ returns' = {}
           /\ actor' = [NoActor EXCEPT !.starts = actor.starts]
  <2>1. /\ actor'.pend = <<>> /\ actor'.task = None /\ actor'.live = {} /\ actor'.done = <<>>
        /\ actor'.starts = actor.starts
    BY <1>7 DEF NoActor
  <2>2. actor.starts \in [Turns -> Nat]
    BY <1>0 DEF Actors
  <2>3. NoActor \in Actors
    BY EmptySeq DEF NoActor, Actors
  <2>4. actor' \in Actors
    BY <1>7, <2>2, <2>3, ActorUpdate
  <2>5. Len(actor'.pend) = 0 /\ Len(actor'.done) = 0
    BY <2>1
  <2>6. Orderly(actor')
    BY <1>0, <2>1, <2>5 DEF Orderly, Distinct
  <2>7. Keeps(actor, actor', {})
    BY <2>1, <2>5 DEF Keeps, Ids
  <2>8. Types'
    BY <1>0, <1>1, <1>2, <1>3, <1>4, <1>7, <2>4 DEF Types, desktop
  <2>9. stops' + Count(up') <= events'
    BY <1>0, <1>1, <1>3, <1>7
  <2>10. StopsCounted'
    BY <2>9 DEF StopsCounted, Count
  <2>11. prep' \subseteq prep
    BY <1>7
  <2> QED
    BY <1>3, <1>5, <2>6, <2>7, <2>8, <2>10, <2>11, Assemble
<1> QED
  BY <1>6, <1>7 DEF Drop

-----------------------------------------------------------------------------
(* The desktop's steps *)

\* The desktop sends m.
LEMMA Sent ==
    ASSUME ConvInv, NEW m \in UpMsgs, Send(m)
    PROVE  /\ up' \in Seq(UpMsgs) /\ Len(up') = Len(up) + 1 /\ Len(up) \in Nat
           /\ \A k \in 1 .. Len(up') :
                (k \in 1 .. Len(up) /\ up'[k] = up[k]) \/ (k = Len(up) + 1 /\ up'[k] = m)
           /\ Count(up) \in Nat /\ Count(up') \in Nat /\ Count(up') <= Count(up) + 1
           /\ m.type # "cancel" => Count(up') <= Count(up)
           /\ m.type # "prompt" => Carried(up', up)
<1>1. PICK s : s = up
  OBVIOUS
<1>2. PICK t : t = up'
  OBVIOUS
<1>3. s \in Seq(UpMsgs) /\ t = Append(s, m)
  BY <1>1, <1>2 DEF ConvInv, Types, Send
<1>4. /\ t \in Seq(UpMsgs) /\ Extended(t, s, m)
      /\ m.type # "cancel" => Count(t) <= Count(s)
      /\ Count(t) <= Count(s) + 1
      /\ m.type # "prompt" => Carried(t, s)
  <2>1. PICK S : S = UpMsgs
    OBVIOUS
  <2>2. m \in S /\ s \in Seq(S)
    BY <1>3, <2>1
  <2>3. t \in Seq(S) /\ Extended(t, s, m)
    BY <1>3, <2>2, AppendSends
  <2>4. m.type # "cancel" => Count(t) <= Count(s)
    BY <1>3, <2>2, AppendSends
  <2>5. Count(t) <= Count(s) + 1
    BY <1>3, <2>2, AppendSends
  <2>6. m.type # "prompt" => Carried(t, s)
    BY <1>3, <2>2, AppendSends
  <2> QED
    BY <2>1, <2>3, <2>4, <2>5, <2>6
<1>5. Count(s) \in Nat /\ Count(t) \in Nat
  BY <1>3, <1>4, CountIsNat
<1> QED
  BY <1>1, <1>2, <1>4, <1>5 DEF Extended

\* The part of the state the desktop may change.
DesktopTypes ==
    /\ rev \in Nat \cup {-1} /\ entries \in Seq(Entry)
    /\ running \in Turns \cup {None} /\ busy \in BOOLEAN
    /\ status \in [Prompts -> {"new", "submitting", "queued", "running", "unknown", "over"}]
    /\ waiting \subseteq Prompts
    /\ cancel \in [on : BOOLEAN, id : Turns \cup {None}]
    /\ recover \in {"idle", "loading", "failed"}

LEMMA DesktopKeeps ==
    ASSUME ConvInv, UNCHANGED <<conn, here, host>>, DesktopTypes',
           up' \in Seq(UpMsgs), down' \in Seq(DownMsgs), events' \in 0 .. MaxEvents,
           Count(up) \in Nat, Count(up') \in Nat, Count(up') - Count(up) <= events' - events,
           Carried(up', up), \A p \in Prompts : status'[p] = "new" => status[p] = "new"
    PROVE  ConvInv'
<1>0. Types /\ stops \in Nat /\ events \in 0 .. MaxEvents /\ stops + Count(up) <= events
  BY DEF ConvInv, Types, StopsCounted, Count
<1>1. UNCHANGED <<conn, here, access, prep, stops, returns, actor>>
  BY DEF host
<1>2. actor' \in Actors /\ Orderly(actor') /\ Keeps(actor, actor', {})
  BY <1>1, SameActor
<1>3. Types'
  BY <1>0, <1>1, <1>2 DEF Types, DesktopTypes
<1>4. stops' + Count(up') <= events'
  BY <1>0, <1>1
<1>5. StopsCounted'
  BY <1>4 DEF StopsCounted, Count
<1>6. {} \cap Prompts = {} /\ prep' \subseteq prep
  BY <1>1
<1> QED
  BY <1>2, <1>3, <1>5, <1>6, Assemble

\* The preparation of a message is seen by nobody.
LEMMA PreparationKeeps ==
    ASSUME ConvInv, NEW x \in Prompts, Prepare(x) \/ PreparationFails(x)
    PROVE  ConvInv'
<1>1. /\ UNCHANGED <<conn, here, host, up, down>>
      /\ UNCHANGED <<rev, entries, running, busy, status, waiting, cancel, recover>>
  BY DEF Prepare, PreparationFails, wire
<1>2. Types /\ DesktopTypes /\ events \in 0 .. MaxEvents /\ up \in Seq(UpMsgs) /\ down \in Seq(DownMsgs)
  BY DEF ConvInv, Types, DesktopTypes
<1>3. DesktopTypes'
  BY <1>1, <1>2 DEF DesktopTypes
<1>4. Carried(up', up) /\ Count(up) \in Nat /\ Count(up') = Count(up)
  BY <1>1, <1>2, Unsent
<1>5. events' = events \/ (events < MaxEvents /\ events' = events + 1)
  BY DEF Prepare, PreparationFails, Event
<1>6. /\ events' \in 0 .. MaxEvents /\ Count(up') - Count(up) <= events' - events
      /\ up' \in Seq(UpMsgs) /\ down' \in Seq(DownMsgs)
  BY <1>1, <1>2, <1>4, <1>5, ConversationAssumption
<1> QED
  BY <1>1, <1>3, <1>4, <1>6, DesktopKeeps

LEMMA SubmitKeeps ==
    ASSUME ConvInv, Drafted, NEW x \in Prompts, NEW now \in BOOLEAN, Submit(x, now)
    PROVE  ConvInv'
<1>0. /\ Types /\ SentOnce /\ stops \in Nat /\ events \in 0 .. MaxEvents /\ up \in Seq(UpMsgs)
      /\ stops + Count(up) <= events
  BY DEF ConvInv, Types, StopsCounted, Count
<1> DEFINE m == [type |-> "prompt", id |-> x, now |-> now]
<1>1. /\ UNCHANGED <<rev, entries, running, cancel, recover, conn, down, here, host>>
      /\ events' = events /\ status[x] = "new" /\ busy' = TRUE
      /\ status' = [status EXCEPT ![x] = "submitting"] /\ waiting' = waiting \cup {x} /\ Send(m)
  BY DEF Submit, Drafted
<1>2. m \in UpMsgs /\ m.type = "prompt" /\ m.id = x
  BY DEF UpMsgs
<1> HIDE DEF m
<1>3. /\ up' \in Seq(UpMsgs) /\ Len(up') = Len(up) + 1 /\ Len(up) \in Nat
      /\ \A k \in 1 .. Len(up') :
           (k \in 1 .. Len(up) /\ up'[k] = up[k]) \/ (k = Len(up) + 1 /\ up'[k] = m)
      /\ Count(up) \in Nat /\ Count(up') \in Nat /\ (m.type # "cancel" => Count(up') <= Count(up))
  BY <1>1, <1>2, Sent
<1>4. UNCHANGED <<access, prep, stops, returns, actor>>
  BY <1>1 DEF host
<1>5. actor' \in Actors /\ Orderly(actor')
  BY <1>4, SameActor
<1>6. /\ status' \in [Prompts -> {"new", "submitting", "queued", "running", "unknown", "over"}]
      /\ status'[x] # "new" /\ \A p \in Prompts : p # x => status'[p] = status[p]
  BY <1>0, <1>1 DEF Types
<1>7. events' \in 0 .. MaxEvents
  BY <1>0, <1>1, ConversationAssumption
<1>8. Types'
  BY <1>0, <1>1, <1>3, <1>4, <1>5, <1>6, <1>7 DEF Types
<1>9. stops' + Count(up') <= events'
  BY <1>0, <1>1, <1>2, <1>3, <1>4
<1>10. StopsCounted'
  BY <1>9 DEF StopsCounted, Count
<1>11. \A p : Unseen(p) => Unseen(p)'
  BY <1>4 DEF Unseen
<1>12. \A k \in 1 .. Len(up) : up[k].type = "prompt" => up[k].id \in Prompts /\ up[k].id # x
  <2>1. \A k \in 1 .. Len(up) : up[k] \in UpMsgs
    BY <1>0, ElementOfSeq
  <2>2. \A k \in 1 .. Len(up) : up[k].type = "prompt" => up[k].id \in Prompts
    BY <2>1 DEF UpMsgs
  <2> QED
    BY <1>0, <1>1, <2>2 DEF SentOnce
<1>13. \A o \in prep : o.id \in Prompts /\ o.id # x
  BY <1>0, <1>1 DEF Types, Submitted, SentOnce
<1>14. Unseen(x)
  BY <1>0, <1>1 DEF SentOnce
<1>15. SentOnce'
  <2>1. ASSUME NEW j \in 1 .. Len(up'), NEW k \in 1 .. Len(up'),
               up'[j].type = "prompt", up'[k].type = "prompt", up'[j].id = up'[k].id
        PROVE  j = k
    <3>1. CASE j \in 1 .. Len(up) /\ up'[j] = up[j] /\ k \in 1 .. Len(up) /\ up'[k] = up[k]
      BY <1>0, <2>1, <3>1 DEF SentOnce
    <3>2. CASE j = Len(up) + 1 /\ up'[j] = m /\ k \in 1 .. Len(up) /\ up'[k] = up[k]
      BY <1>2, <1>12, <2>1, <3>2
    <3>3. CASE k = Len(up) + 1 /\ up'[k] = m /\ j \in 1 .. Len(up) /\ up'[j] = up[j]
      BY <1>2, <1>12, <2>1, <3>3
    <3>4. CASE j = Len(up) + 1 /\ k = Len(up) + 1
      BY <3>4
    <3> QED
      BY <1>3, <3>1, <3>2, <3>3, <3>4
  <2>2. ASSUME NEW k \in 1 .. Len(up'), up'[k].type = "prompt"
        PROVE  Unseen(up[k].id)' /\ status'[up'[k].id] # "new" /\ \A o \in prep' : o.id # up'[k].id
    <3>1. PICK y : y = up'[k].id
      OBVIOUS
    <3>2. Unseen(y) /\ status'[y] # "new" /\ \A o \in prep : o.id # y
      <4>1. CASE k \in 1 .. Len(up) /\ up'[k] = up[k]
        BY <1>0, <1>6, <1>12, <2>2, <3>1, <4>1 DEF SentOnce
      <4>2. CASE k = Len(up) + 1 /\ up'[k] = m
        BY <1>2, <1>6, <1>13, <1>14, <3>1, <4>2
      <4> QED
        BY <1>3, <4>1, <4>2
    <3>3. Unseen(up[k].id)'
      BY <1>11, <3>1, <3>2 DEF Unseen
    <3> QED
      BY <1>4, <3>1, <3>2, <3>3
  <2>3. ASSUME NEW o \in prep'
        PROVE  Unseen(o.id)' /\ status'[o.id] # "new" /\ \A n \in prep' : n.id = o.id => n = o
    <3>1. Unseen(o.id) /\ status[o.id] # "new" /\ \A n \in prep : n.id = o.id => n = o
      BY <1>0, <1>4 DEF SentOnce
    <3> QED
      BY <1>4, <1>6, <1>11, <1>13, <3>1
  <2>4. ASSUME NEW p \in Prompts, status'[p] = "new" PROVE Unseen(p)'
    BY <1>0, <1>6, <1>11, <2>4 DEF SentOnce
  <2> QED
    BY <2>1, <2>2, <2>3, <2>4 DEF SentOnce
<1> QED
  BY <1>5, <1>8, <1>10, <1>15 DEF ConvInv

LEMMA MutatesKeeps ==
    ASSUME ConvInv, NEW m \in UpMsgs, m.type \notin {"prompt", "cancel"}, Send(m),
           NEW r, Mutates(r)
    PROVE  ConvInv'
<1>0. Types /\ DesktopTypes /\ events \in 0 .. MaxEvents /\ down \in Seq(DownMsgs)
  BY DEF ConvInv, Types, DesktopTypes
<1>1. /\ UNCHANGED <<rev, entries, running, busy, status, waiting, cancel, recover, conn, down, here, host>>
      /\ events' = events + 1 /\ events < MaxEvents
  BY DEF Mutates, Event
<1>2. /\ up' \in Seq(UpMsgs) /\ Count(up) \in Nat /\ Count(up') \in Nat /\ Count(up') <= Count(up)
      /\ Carried(up', up)
  BY Sent
<1>3. DesktopTypes'
  BY <1>0, <1>1 DEF DesktopTypes
<1>4. events' \in 0 .. MaxEvents /\ Count(up') - Count(up) <= events' - events
  BY <1>0, <1>1, <1>2, ConversationAssumption
<1> QED
  BY <1>0, <1>1, <1>2, <1>3, <1>4, DesktopKeeps

LEMMA EntryFacts ==
    ASSUME ConvInv, NEW e \in ToSet(entries)
    PROVE  e \in Entry /\ e.id \in Prompts /\ e.ver \in Nat
<1>1. entries \in Seq(Entry)
  BY DEF ConvInv, Types
<1>2. PICK k \in DOMAIN entries : e = entries[k]
  BY DEF ToSet
<1>3. k \in 1 .. Len(entries)
  BY <1>1, <1>2, LenProperties
<1>4. e \in Entry
  BY <1>1, <1>2, <1>3, ElementOfSeq
<1> QED
  BY <1>4 DEF Entry

LEMMA EntriesFinite ==
    ASSUME ConvInv
    PROVE  IsFiniteSet({e.id : e \in ToSet(entries)})
<1>1. entries \in Seq(Entry) /\ Len(entries) \in Nat /\ DOMAIN entries = 1 .. Len(entries)
  BY LenProperties DEF ConvInv, Types
<1> DEFINE D == 1 .. Len(entries)
           T == {e.id : e \in ToSet(entries)}
           f == [k \in D |-> entries[k].id]
<1>2. IsFiniteSet(D)
  BY <1>1, FS_Interval
<1>3. f \in [D -> T] /\ \A t \in T : \E k \in D : f[k] = t
  BY <1>1 DEF ToSet
<1>4. f \in Surjection(D, T)
  <2> HIDE DEF f, T, D
  <2> QED
    BY <1>3 DEF Surjection
<1> HIDE DEF f, T, D
<1>5. IsFiniteSet(T)
  BY <1>2, <1>4, FS_Surjection
<1> QED
  BY <1>5 DEF T

LEMMA OperationsKeep ==
    ASSUME ConvInv,
           \/ \E e \in ToSet(entries) :
                RemoveQueuedPrompt(e) \/ EditQueuedPrompt(e) \/ SendQueuedPromptNow(e)
           \/ ReorderQueuedPrompts \/ ClearQueuedPrompts
    PROVE  ConvInv'
<1>1. ASSUME NEW e \in ToSet(entries), RemoveQueuedPrompt(e) PROVE ConvInv'
  <2> DEFINE m == [type |-> "remove", id |-> e.id, ver |-> e.ver]
  <2>1. m \in UpMsgs /\ m.type \notin {"prompt", "cancel"}
    BY EntryFacts DEF UpMsgs
  <2>2. Send(m) /\ \E r : Mutates(r)
    BY <1>1 DEF RemoveQueuedPrompt
  <2> HIDE DEF m
  <2> QED
    BY <2>1, <2>2, MutatesKeeps
<1>2. ASSUME NEW e \in ToSet(entries), EditQueuedPrompt(e) PROVE ConvInv'
  <2> DEFINE m == [type |-> "edit", id |-> e.id, text |-> events']
  <2>1. Send(m) /\ \E r : Mutates(r)
    BY <1>2 DEF EditQueuedPrompt
  <2>2. events' \in 0 .. MaxEvents
    <3>1. events < MaxEvents /\ events' = events + 1
      BY <2>1 DEF Mutates, Event
    <3>2. events \in 0 .. MaxEvents
      BY DEF ConvInv, Types
    <3> QED
      BY <3>1, <3>2, ConversationAssumption
  <2>3. m \in UpMsgs /\ m.type \notin {"prompt", "cancel"}
    BY <2>2, EntryFacts DEF UpMsgs
  <2> HIDE DEF m
  <2> QED
    BY <2>1, <2>3, MutatesKeeps
<1>3. ASSUME NEW e \in ToSet(entries), SendQueuedPromptNow(e) PROVE ConvInv'
  <2> DEFINE m == [type |-> "now", id |-> e.id, ver |-> e.ver]
  <2>1. m \in UpMsgs /\ m.type \notin {"prompt", "cancel"}
    BY EntryFacts DEF UpMsgs
  <2>2. Send(m) /\ \E r : Mutates(r)
    BY <1>3 DEF SendQueuedPromptNow
  <2> HIDE DEF m
  <2> QED
    BY <2>1, <2>2, MutatesKeeps
<1>4. CASE ReorderQueuedPrompts
  <2> DEFINE T == {e.id : e \in ToSet(entries)}
  <2>1. PICK order \in SetToSeqs(T) :
          (\E r : Mutates(r)) /\ Send([type |-> "reorder", order |-> order])
    BY <1>4 DEF ReorderQueuedPrompts
  <2>2. T \subseteq Prompts
    BY EntryFacts
  <2>3. IsFiniteSet(T)
    BY EntriesFinite
  <2> HIDE DEF T
  <2>4. Cardinality(T) \in Nat
    BY <2>3, FS_CardinalityType
  <2>5. order \in [1 .. Cardinality(T) -> Prompts]
    BY <2>1, <2>2 DEF SetToSeqs
  <2>6. order \in Seq(Prompts)
    BY <2>4, <2>5
  <2> DEFINE m == [type |-> "reorder", order |-> order]
  <2>7. m \in UpMsgs /\ m.type \notin {"prompt", "cancel"}
    BY <2>6 DEF UpMsgs
  <2> HIDE DEF m
  <2> QED
    BY <2>1, <2>7, MutatesKeeps DEF m
<1>5. CASE ClearQueuedPrompts
  <2> DEFINE m == [type |-> "clear"]
  <2>1. m \in UpMsgs /\ m.type \notin {"prompt", "cancel"}
    BY DEF UpMsgs
  <2>2. Send(m) /\ \E r : Mutates(r)
    BY <1>5 DEF ClearQueuedPrompts
  <2> HIDE DEF m
  <2> QED
    BY <2>1, <2>2, MutatesKeeps
<1> QED
  BY <1>1, <1>2, <1>3, <1>4, <1>5

LEMMA CancelCurrentTaskKeeps ==
    ASSUME ConvInv, CancelCurrentTask
    PROVE  ConvInv'
<1>0. Types /\ DesktopTypes /\ events \in 0 .. MaxEvents /\ down \in Seq(DownMsgs)
  BY DEF ConvInv, Types, DesktopTypes
<1> DEFINE m == [type |-> "cancel"]
<1>1. /\ UNCHANGED <<rev, entries, running, busy, status, waiting, recover, conn, down, here, host>>
      /\ events' = events + 1 /\ events < MaxEvents /\ Send(m)
  BY DEF CancelCurrentTask, Event
<1>2. m \in UpMsgs /\ m.type = "cancel"
  BY DEF UpMsgs
<1>3. CancelTargets \subseteq Turns \cup {None}
  BY <1>0 DEF CancelTargets, Types, Turns
<1>4. cancel' \in [on : BOOLEAN, id : Turns \cup {None}]
  <2>1. PICK t \in CancelTargets : cancel' = [on |-> TRUE, id |-> t]
    BY DEF CancelCurrentTask
  <2> QED
    BY <1>3, <2>1
<1> HIDE DEF m
<1>5. /\ up' \in Seq(UpMsgs) /\ Count(up) \in Nat /\ Count(up') \in Nat /\ Count(up') <= Count(up) + 1
      /\ Carried(up', up)
  BY <1>1, <1>2, Sent
<1>6. DesktopTypes'
  BY <1>0, <1>1, <1>4 DEF DesktopTypes
<1>7. events' \in 0 .. MaxEvents /\ Count(up') - Count(up) <= events' - events
  BY <1>0, <1>1, <1>5, ConversationAssumption
<1> QED
  BY <1>0, <1>1, <1>5, <1>6, <1>7, DesktopKeeps

LEMMA ReopenKeeps ==
    ASSUME ConvInv, Reopen
    PROVE  ConvInv'
<1>0. Types /\ DesktopTypes /\ events \in 0 .. MaxEvents /\ down \in Seq(DownMsgs)
  BY DEF ConvInv, Types, DesktopTypes
<1> DEFINE m == [type |-> "load"]
<1>1. /\ UNCHANGED <<rev, entries, running, busy, status, waiting, cancel, conn, down, here, host>>
      /\ recover' = "loading" /\ events' = events + 1 /\ events < MaxEvents /\ Send(m)
  BY DEF Reopen, Event
<1>2. m \in UpMsgs /\ m.type = "load"
  BY DEF UpMsgs
<1> HIDE DEF m
<1>3. /\ up' \in Seq(UpMsgs) /\ Count(up) \in Nat /\ Count(up') \in Nat /\ Count(up') <= Count(up)
      /\ Carried(up', up)
  BY <1>1, <1>2, Sent
<1>4. DesktopTypes'
  BY <1>0, <1>1 DEF DesktopTypes
<1>5. events' \in 0 .. MaxEvents /\ Count(up') - Count(up) <= events' - events
  BY <1>0, <1>1, <1>3, ConversationAssumption
<1> QED
  BY <1>0, <1>1, <1>3, <1>4, <1>5, DesktopKeeps

\* The next message of the Host arrives.
LEMMA Received ==
    ASSUME ConvInv, down # <<>>, down' = Tail(down)
    PROVE  down' \in Seq(DownMsgs) /\ Head(down) \in DownMsgs
BY HeadTailProperties DEF ConvInv, Types

LEMMA NoCancelTyped ==
    /\ NoCancel \in [on : BOOLEAN, id : Turns \cup {None}]
    /\ ConvInv => \A p : CancelAfter(p) \in [on : BOOLEAN, id : Turns \cup {None}]
<1>1. NoCancel \in [on : BOOLEAN, id : Turns \cup {None}]
  BY DEF NoCancel
<1>2. ConvInv => cancel \in [on : BOOLEAN, id : Turns \cup {None}]
  BY DEF ConvInv, Types
<1> HIDE DEF NoCancel
<1> QED
  BY <1>1, <1>2 DEF CancelAfter

\* A submission whose fate was open gets another state.
LEMMA StatusMoves ==
    ASSUME ConvInv, NEW p \in Prompts, NEW v \in {"unknown", "over"},
           status' = [status EXCEPT ![p] = v]
    PROVE  /\ status' \in [Prompts -> {"new", "submitting", "queued", "running", "unknown", "over"}]
           /\ \A o \in Prompts : status'[o] = "new" => status[o] = "new"
<1>1. status \in [Prompts -> {"new", "submitting", "queued", "running", "unknown", "over"}]
  BY DEF ConvInv, Types
<1>2. v # "new"
  OBVIOUS
<1> QED
  BY <1>1, <1>2

LEMMA AnswerKeeps ==
    ASSUME ConvInv, Answer
    PROVE  ConvInv'
<1>0. Types /\ DesktopTypes /\ events \in 0 .. MaxEvents /\ up \in Seq(UpMsgs)
  BY DEF ConvInv, Types, DesktopTypes
<1> DEFINE a == Head(down)
<1>1. /\ UNCHANGED <<rev, entries, recover, conn, up, here, host, events>>
      /\ down # <<>> /\ down' = Tail(down) /\ a.type = "answer" /\ waiting' = waiting \ {a.id}
  BY DEF Answer
<1>2. down' \in Seq(DownMsgs) /\ a \in DownMsgs
  BY <1>1, Received
<1>3. a.id \in Prompts
  BY <1>1, <1>2 DEF DownMsgs, Snapshot
<1>4. /\ status' \in [Prompts -> {"new", "submitting", "queued", "running", "unknown", "over"}]
      /\ \A o \in Prompts : status'[o] = "new" => status[o] = "new"
  <2>1. \/ status' = [status EXCEPT ![a.id] = "over"]
        \/ status' = status
    BY DEF Answer
  <2> HIDE DEF a
  <2>2. CASE status' = [status EXCEPT ![a.id] = "over"]
    BY <1>3, <2>2, StatusMoves
  <2>3. CASE status' = status
    BY <1>0, <2>3 DEF DesktopTypes
  <2> QED
    BY <2>1, <2>2, <2>3
<1>5. cancel' \in [on : BOOLEAN, id : Turns \cup {None}]
  <2>1. cancel' = CancelAfter(a.id) \/ cancel' = cancel
    BY DEF Answer
  <2>2. cancel \in [on : BOOLEAN, id : Turns \cup {None}]
    BY <1>0 DEF DesktopTypes
  <2> QED
    BY <2>1, <2>2, NoCancelTyped
<1>6. busy' \in BOOLEAN /\ running' \in Turns \cup {None}
  <2>1. busy \in BOOLEAN /\ running \in Turns \cup {None}
    BY <1>0 DEF DesktopTypes
  <2>2. busy' = (busy /\ rev >= 0) \/ busy' = busy
    BY DEF Answer
  <2>3. running' = None \/ running' = running
    BY DEF Answer
  <2> QED
    BY <2>1, <2>2, <2>3
<1>7. waiting' \subseteq Prompts
  BY <1>0, <1>1 DEF DesktopTypes
<1> HIDE DEF a
<1>8. DesktopTypes'
  BY <1>0, <1>1, <1>4, <1>5, <1>6, <1>7 DEF DesktopTypes
<1>9. Carried(up', up) /\ Count(up) \in Nat /\ Count(up') = Count(up)
  BY <1>0, <1>1, Unsent
<1>10. events' \in 0 .. MaxEvents /\ Count(up') - Count(up) <= events' - events /\ up' \in Seq(UpMsgs)
  BY <1>0, <1>1, <1>9
<1> QED
  BY <1>1, <1>2, <1>4, <1>8, <1>9, <1>10, DesktopKeeps

LEMMA TimeOutKeeps ==
    ASSUME ConvInv, NEW p \in Prompts, TimeOut(p)
    PROVE  ConvInv'
<1>0. Types /\ DesktopTypes /\ events \in 0 .. MaxEvents /\ up \in Seq(UpMsgs) /\ down \in Seq(DownMsgs)
  BY DEF ConvInv, Types, DesktopTypes
<1>1. /\ UNCHANGED <<rev, entries, running, recover, conn, up, down, here, host, events>>
      /\ waiting' = waiting \ {p}
  BY DEF TimeOut, wire
<1>2. /\ status' \in [Prompts -> {"new", "submitting", "queued", "running", "unknown", "over"}]
      /\ \A o \in Prompts : status'[o] = "new" => status[o] = "new"
  <2>1. \/ status' = [status EXCEPT ![p] = "unknown"]
        \/ status' = status
    BY DEF TimeOut
  <2>2. CASE status' = [status EXCEPT ![p] = "unknown"]
    BY <2>2, StatusMoves
  <2>3. CASE status' = status
    BY <1>0, <2>3 DEF DesktopTypes
  <2> QED
    BY <2>1, <2>2, <2>3
<1>3. cancel' \in [on : BOOLEAN, id : Turns \cup {None}]
  <2>1. cancel' = CancelAfter(p) \/ cancel' = cancel
    BY DEF TimeOut
  <2>2. cancel \in [on : BOOLEAN, id : Turns \cup {None}]
    BY <1>0 DEF DesktopTypes
  <2> QED
    BY <2>1, <2>2, NoCancelTyped
<1>4. busy' \in BOOLEAN
  <2>1. busy \in BOOLEAN
    BY <1>0 DEF DesktopTypes
  <2>2. busy' = (busy /\ rev >= 0) \/ busy' = busy
    BY DEF TimeOut
  <2> QED
    BY <2>1, <2>2
<1>5. waiting' \subseteq Prompts
  BY <1>0, <1>1 DEF DesktopTypes
<1>6. DesktopTypes'
  BY <1>0, <1>1, <1>2, <1>3, <1>4, <1>5 DEF DesktopTypes
<1>7. Carried(up', up) /\ Count(up) \in Nat /\ Count(up') = Count(up)
  BY <1>0, <1>1, Unsent
<1>8. /\ events' \in 0 .. MaxEvents /\ Count(up') - Count(up) <= events' - events
      /\ up' \in Seq(UpMsgs) /\ down' \in Seq(DownMsgs)
  BY <1>0, <1>1, <1>7
<1> QED
  BY <1>1, <1>2, <1>6, <1>7, <1>8, DesktopKeeps

LEMMA QueueChangedKeeps ==
    ASSUME ConvInv, QueueChanged
    PROVE  ConvInv'
<1>0. Types /\ DesktopTypes /\ events \in 0 .. MaxEvents /\ up \in Seq(UpMsgs)
  BY DEF ConvInv, Types, DesktopTypes
<1> DEFINE m == Head(down)
           V == {"new", "submitting", "queued", "running", "unknown", "over"}
<1>1. /\ UNCHANGED <<waiting, recover, conn, up, here, host, events>>
      /\ down # <<>> /\ down' = Tail(down) /\ m.type = "queue"
  BY DEF QueueChanged
<1>2. down' \in Seq(DownMsgs) /\ m \in DownMsgs
  BY <1>1, Received
<1>3. m.rev \in Nat /\ m.entries \in Seq(Entry) /\ m.running \in Turns \cup {None}
  BY <1>1, <1>2 DEF DownMsgs, Snapshot
<1>4. \/ /\ rev' = m.rev /\ entries' = m.entries /\ running' = m.running
         /\ busy' = (m.running # None)
         /\ cancel' = IF CancelOver(m) THEN NoCancel ELSE cancel
         /\ status' = [p \in Prompts |-> Reconciled(p, m)]
      \/ UNCHANGED <<rev, entries, running, busy, cancel, status>>
  BY DEF QueueChanged
<1> HIDE DEF m
<1>5. status \in [Prompts -> V]
  BY <1>0 DEF DesktopTypes
<1>6. \A p \in Prompts : Reconciled(p, m) \in V /\ (Reconciled(p, m) = "new" => status[p] = "new")
  BY <1>5 DEF Reconciled
<1>7. status' \in [Prompts -> V] /\ \A p \in Prompts : status'[p] = "new" => status[p] = "new"
  <2>1. CASE status' = [p \in Prompts |-> Reconciled(p, m)]
    <3> HIDE DEF V
    <3> QED
      BY <1>6, <2>1
  <2>2. CASE status' = status
    BY <1>5, <2>2
  <2> QED
    BY <1>4, <2>1, <2>2
<1>8. cancel' \in [on : BOOLEAN, id : Turns \cup {None}]
  <2>1. cancel' = NoCancel \/ cancel' = cancel
    BY <1>4
  <2>2. cancel \in [on : BOOLEAN, id : Turns \cup {None}]
    BY <1>0 DEF DesktopTypes
  <2> QED
    BY <2>1, <2>2, NoCancelTyped
<1>9. rev' \in Nat \cup {-1} /\ entries' \in Seq(Entry) /\ running' \in Turns \cup {None}
  BY <1>0, <1>3, <1>4 DEF DesktopTypes
<1>10. busy' \in BOOLEAN
  <2>1. busy \in BOOLEAN
    BY <1>0 DEF DesktopTypes
  <2>2. busy' = (m.running # None) \/ busy' = busy
    BY <1>4
  <2> QED
    BY <2>1, <2>2
<1>11. DesktopTypes'
  BY <1>0, <1>1, <1>7, <1>8, <1>9, <1>10 DEF DesktopTypes
<1>12. Carried(up', up) /\ Count(up) \in Nat /\ Count(up') = Count(up)
  BY <1>0, <1>1, Unsent
<1>13. events' \in 0 .. MaxEvents /\ Count(up') - Count(up) <= events' - events /\ up' \in Seq(UpMsgs)
  BY <1>0, <1>1, <1>12
<1> QED
  BY <1>1, <1>2, <1>7, <1>11, <1>12, <1>13, DesktopKeeps

LEMMA ReconnectedKeeps ==
    ASSUME ConvInv, Reconnected
    PROVE  ConvInv'
<1>0. Types /\ DesktopTypes /\ events \in 0 .. MaxEvents
  BY DEF ConvInv, Types, DesktopTypes
<1> DEFINE m == [type |-> "load"]
           V == {"new", "submitting", "queued", "running", "unknown", "over"}
<1>1. /\ UNCHANGED <<entries, running, busy, waiting, conn, here, host, events>>
      /\ down # <<>> /\ down' = Tail(down) /\ rev' = -1 /\ cancel' = NoCancel /\ recover' = "loading"
      /\ status' = [p \in Prompts |-> IF status[p] = "submitting" THEN "unknown" ELSE status[p]]
      /\ Send(m)
  BY DEF Reconnected
<1>2. down' \in Seq(DownMsgs)
  BY <1>1, Received
<1>3. m \in UpMsgs /\ m.type = "load"
  BY DEF UpMsgs
<1> HIDE DEF m
<1>4. /\ up' \in Seq(UpMsgs) /\ Count(up) \in Nat /\ Count(up') \in Nat /\ Count(up') <= Count(up)
      /\ Carried(up', up)
  BY <1>1, <1>3, Sent
<1>5. status' \in [Prompts -> V] /\ \A p \in Prompts : status'[p] = "new" => status[p] = "new"
  BY <1>0, <1>1 DEF DesktopTypes
<1>6. cancel' \in [on : BOOLEAN, id : Turns \cup {None}]
  BY <1>1, NoCancelTyped
<1>7. DesktopTypes'
  BY <1>0, <1>1, <1>5, <1>6 DEF DesktopTypes
<1>8. events' \in 0 .. MaxEvents /\ Count(up') - Count(up) <= events' - events
  BY <1>0, <1>1, <1>4
<1> QED
  BY <1>1, <1>2, <1>4, <1>5, <1>7, <1>8, DesktopKeeps

LEMMA LoadedKeeps ==
    ASSUME ConvInv, Loaded
    PROVE  ConvInv'
<1>0. Types /\ DesktopTypes /\ events \in 0 .. MaxEvents /\ up \in Seq(UpMsgs)
  BY DEF ConvInv, Types, DesktopTypes
<1> DEFINE m == [type |-> "reorder", order |-> <<>>]
<1>1. /\ UNCHANGED <<rev, entries, running, busy, status, waiting, cancel, conn, here, host, events>>
      /\ down # <<>> /\ down' = Tail(down) /\ recover' \in {"idle", "failed"}
      /\ Send(m) \/ up' = up
  BY DEF Loaded
<1>2. down' \in Seq(DownMsgs)
  BY <1>1, Received
<1>3. m \in UpMsgs /\ m.type = "reorder"
  BY EmptySeq DEF UpMsgs
<1> HIDE DEF m
<1>4. /\ up' \in Seq(UpMsgs) /\ Count(up) \in Nat /\ Count(up') \in Nat /\ Count(up') <= Count(up)
      /\ Carried(up', up)
  <2>1. CASE Send(m)
    BY <1>3, <2>1, Sent
  <2>2. CASE up' = up
    <3>1. Carried(up', up) /\ Count(up) \in Nat /\ Count(up') = Count(up)
      BY <1>0, <2>2, Unsent
    <3> QED
      BY <1>0, <2>2, <3>1
  <2> QED
    BY <1>1, <2>1, <2>2
<1>5. DesktopTypes'
  BY <1>0, <1>1 DEF DesktopTypes
<1>6. events' \in 0 .. MaxEvents /\ Count(up') - Count(up) <= events' - events
  BY <1>0, <1>1, <1>4
<1> QED
  BY <1>1, <1>2, <1>4, <1>5, <1>6, DesktopKeeps

-----------------------------------------------------------------------------
(* The theorems *)

LEMMA ConvInvInit == Init => ConvInv
<1> SUFFICES ASSUME Init PROVE ConvInv
  OBVIOUS
<1>1. PICK a : a = [NoActor EXCEPT !.on = TRUE]
  OBVIOUS
<1>2. NoActor \in Actors
  BY EmptySeq DEF NoActor, Actors
<1>3. a \in Actors /\ a.pend = <<>> /\ a.task = None /\ a.live = {} /\ a.done = <<>>
      /\ a.starts = [t \in Turns |-> 0]
  <2>1. a \in Actors
    BY <1>1, <1>2, ActorUpdate
  <2> QED
    BY <1>1, <2>1 DEF NoActor
<1>4. actor = [a EXCEPT !.rev = 1]
  BY <1>1 DEF Init
<1>5. /\ actor \in Actors /\ actor.pend = <<>> /\ actor.task = None /\ actor.live = {}
      /\ actor.done = <<>> /\ actor.starts = [t \in Turns |-> 0]
  <2>1. actor \in Actors
    BY <1>3, <1>4, ActorUpdate
  <2> QED
    BY <1>3, <1>4, <2>1 DEF Actors
<1>6. Len(actor.pend) = 0 /\ Len(actor.done) = 0 /\ Len(up) = 0
  BY <1>5 DEF Init
<1>7. Orderly(actor)
  BY <1>5, <1>6 DEF Orderly, Distinct
<1>8. \A p \in Prompts : Unseen(p)
  BY <1>5, <1>6 DEF Unseen, Ids, Turns
<1>9. SentOnce
  BY <1>6, <1>8 DEF SentOnce, Init
<1>10. Types
  <2>1. entries \in Seq(Entry) /\ up \in Seq(UpMsgs) /\ down \in Seq(DownMsgs)
    BY EmptySeq DEF Init
  <2>2. cancel \in [on : BOOLEAN, id : Turns \cup {None}]
    BY NoCancelTyped DEF Init
  <2>3. /\ rev \in Nat \cup {-1} /\ running \in Turns \cup {None}
        /\ recover \in {"idle", "loading", "failed"} /\ conn \in {"up", "down", "replay"}
        /\ stops \in Nat /\ events \in 0 .. MaxEvents
    BY ConversationAssumption DEF Init
  <2>a. /\ waiting = {} /\ here = {} /\ returns = {} /\ prep = {} /\ busy = FALSE /\ access = TRUE
    BY DEF Init
  <2>4. status \in [Prompts -> {"new", "submitting", "queued", "running", "unknown", "over"}]
    BY DEF Init
  <2> QED
    BY <1>5, <2>1, <2>2, <2>3, <2>4, <2>a DEF Types
<1>11. StopsCounted
  <2>1. Cancels(up) = {}
    BY <1>6 DEF Cancels
  <2>2. Cardinality(Cancels(up)) = 0
    BY <2>1, FS_EmptySet
  <2> QED
    BY <2>2 DEF StopsCounted, Init
<1> QED
  BY <1>7, <1>9, <1>10, <1>11 DEF ConvInv

\* The steps that leave the submissions alone.
LEMMA DraftedSame ==
    ASSUME Drafted, UNCHANGED <<drafts, status, waiting>>
    PROVE  Drafted'
BY DEF Drafted

LEMMA DraftedHost ==
    ASSUME Drafted,
           \/ (\E a \in returns : Reply(a)) \/ Deliver \/ Stop \/ Complete
           \/ (\E p \in prep : Enqueue(p) \/ PrepareFails(p))
           \/ (\E t \in Turns : Finish(t)) \/ (\E w \in Wakes : Wake(w))
           \/ Drop \/ Reconnect \/ Announce \/ Revalidate \/ Restore \/ UNCHANGED vars
    PROVE  Drafted'
<1>1. UNCHANGED desktop
  BY DEF Reply, Deliver, DeliverPrompt, DeliverCancel, DeliverLoad, DeliverQueueOp, Stop, Complete,
         Enqueue, PrepareFails, Finish, Wake, Drop, Reconnect, Announce, Revalidate, Restore,
         HostUnchanged, vars
<1> QED
  BY <1>1, DraftedSame DEF desktop

LEMMA DraftedUser ==
    ASSUME Drafted,
           \/ \E e \in ToSet(entries) :
                RemoveQueuedPrompt(e) \/ EditQueuedPrompt(e) \/ SendQueuedPromptNow(e)
           \/ ReorderQueuedPrompts \/ ClearQueuedPrompts \/ CancelCurrentTask \/ Reopen \/ Loaded
    PROVE  Drafted'
<1>1. UNCHANGED <<drafts, status, waiting>>
  BY DEF RemoveQueuedPrompt, EditQueuedPrompt, SendQueuedPromptNow, ReorderQueuedPrompts,
         ClearQueuedPrompts, Mutates, CancelCurrentTask, Reopen, Loaded
<1> QED
  BY <1>1, DraftedSame

LEMMA DraftedStep == ConvInv /\ Drafted /\ [Next]_vars => Drafted'
<1> SUFFICES ASSUME ConvInv, Drafted, [Next]_vars PROVE Drafted'
  OBVIOUS
<1>0. /\ status \in [Prompts -> {"new", "submitting", "queued", "running", "unknown", "over"}]
      /\ waiting \subseteq Prompts
  BY DEF ConvInv, Types
<1>1. ASSUME NEW p \in Prompts, Prepare(p) \/ PreparationFails(p) PROVE Drafted'
  BY <1>1 DEF Prepare, PreparationFails, Drafted
<1>2. ASSUME NEW p \in Prompts, NEW now \in BOOLEAN, Submit(p, now) PROVE Drafted'
  BY <1>0, <1>2 DEF Submit, Drafted
<1>3. ASSUME NEW p \in Prompts, TimeOut(p) PROVE Drafted'
  BY <1>0, <1>3 DEF TimeOut, Drafted
<1>4. CASE Answer
  <2>1. /\ drafts' = drafts /\ waiting' \subseteq waiting
        /\ status' = status \/ \E p \in waiting : status' = [status EXCEPT ![p] = "over"]
    BY <1>4 DEF Answer
  <2> QED
    BY <1>0, <2>1 DEF Drafted
<1>5. CASE QueueChanged
  <2>1. \A p \in Prompts : status'[p] = "new" <=> status[p] = "new"
    BY <1>0, <1>5 DEF QueueChanged, Reconciled
  <2>2. UNCHANGED <<drafts, waiting>>
    BY <1>5 DEF QueueChanged
  <2> QED
    BY <1>0, <2>1, <2>2 DEF Drafted
<1>6. CASE Reconnected
  <2>1. \A p \in Prompts : status'[p] = "new" <=> status[p] = "new"
    BY <1>0, <1>6 DEF Reconnected
  <2>2. UNCHANGED <<drafts, waiting>>
    BY <1>6 DEF Reconnected
  <2> QED
    BY <1>0, <2>1, <2>2 DEF Drafted
<1> QED
  BY <1>1, <1>2, <1>3, <1>4, <1>5, <1>6, DraftedHost, DraftedUser DEF Next, Receive

LEMMA DraftedInit == Init => Drafted
BY DEF Init, Drafted

LEMMA ConvInvStep == ConvInv /\ Drafted /\ [Next]_vars => ConvInv'
<1> SUFFICES ASSUME ConvInv, Drafted, [Next]_vars PROVE ConvInv'
  OBVIOUS
<1>0. CASE \E p \in Prompts : Prepare(p) \/ PreparationFails(p)
  BY <1>0, PreparationKeeps
<1>1. CASE \E p \in Prompts, now \in BOOLEAN : Submit(p, now)
  BY <1>1, SubmitKeeps
<1>2. CASE \/ \E e \in ToSet(entries) :
                RemoveQueuedPrompt(e) \/ EditQueuedPrompt(e) \/ SendQueuedPromptNow(e)
           \/ ReorderQueuedPrompts \/ ClearQueuedPrompts
  BY <1>2, OperationsKeep
<1>3. CASE CancelCurrentTask \/ Reopen
  BY <1>3, CancelCurrentTaskKeeps, ReopenKeeps
<1>4. CASE (\E a \in returns : Reply(a)) \/ Reconnect \/ Announce \/ Revalidate
  BY <1>4, HandlersKeep
<1>5. CASE \E p \in Prompts : TimeOut(p)
  BY <1>5, TimeOutKeeps
<1>6. CASE Deliver
  BY <1>6, DeliverPromptKeeps, DeliverCancelKeeps, DeliverLoadKeeps, QueueOpKeeps DEF Deliver
<1>7. CASE Receive
  BY <1>7, AnswerKeeps, QueueChangedKeeps, ReconnectedKeeps, LoadedKeeps DEF Receive
<1>8. CASE Stop \/ Complete
  BY <1>8, StopKeeps, CompleteKeeps
<1>9. CASE \E p \in prep : Enqueue(p) \/ PrepareFails(p)
  <2>1. PICK p \in prep : Enqueue(p) \/ PrepareFails(p)
    BY <1>9
  <2>2. CASE Enqueue(p)
    BY <2>2, EnqueueKeeps
  <2>3. CASE PrepareFails(p)
    BY <2>3, HandlersKeep
  <2> QED
    BY <2>1, <2>2, <2>3
<1>10. CASE \E t \in Turns : Finish(t)
  BY <1>10, FinishKeeps
<1>11. CASE \E w \in Wakes : Wake(w)
  BY <1>11, WakeKeeps
<1>12. CASE Drop \/ Restore
  BY <1>12, DropKeeps, RestoreKeeps
<1>13. CASE UNCHANGED vars
  <2>1. /\ UNCHANGED <<conn, here, host, up, down, events>>
        /\ UNCHANGED <<rev, entries, running, busy, status, waiting, cancel, recover>>
    BY <1>13 DEF vars, desktop, wire
  <2>2. Types /\ DesktopTypes /\ events \in 0 .. MaxEvents /\ up \in Seq(UpMsgs) /\ down \in Seq(DownMsgs)
    BY DEF ConvInv, Types, DesktopTypes
  <2>3. DesktopTypes'
    BY <2>1, <2>2 DEF DesktopTypes
  <2>4. Carried(up', up) /\ Count(up) \in Nat /\ Count(up') = Count(up)
    BY <2>1, <2>2, Unsent
  <2>5. /\ events' \in 0 .. MaxEvents /\ Count(up') - Count(up) <= events' - events
        /\ up' \in Seq(UpMsgs) /\ down' \in Seq(DownMsgs)
    BY <2>1, <2>2, <2>4
  <2> QED
    BY <2>1, <2>3, <2>4, <2>5, DesktopKeeps
<1> QED
  BY <1>0, <1>1, <1>2, <1>3, <1>4, <1>5, <1>6, <1>7, <1>8, <1>9, <1>10, <1>11, <1>12, <1>13 DEF Next

LEMMA ConvInvTypes == ConvInv /\ Drafted => TypeOK
<1> SUFFICES ASSUME ConvInv, Drafted PROVE TypeOK
  OBVIOUS
<1>0. Types /\ stops \in Nat /\ events \in 0 .. MaxEvents /\ stops + Count(up) <= events
  BY DEF ConvInv, Types, StopsCounted, Count
<1>1. ToSet(entries) \subseteq Entry
  BY EntryFacts
<1>2. Count(up) \in Nat
  BY <1>0, CountIsNat DEF Types
<1>3. stops \in 0 .. MaxEvents
  BY <1>0, <1>2, ConversationAssumption
<1>4. actor.task \in Turns \cup {None} /\ actor.live \subseteq Turns
  BY <1>0 DEF Types, Actors
<1> QED
  BY <1>0, <1>1, <1>3, <1>4 DEF Types, TypeOK, Drafted

LEMMA ConvInvAtMostOnce == ConvInv => AtMostOnce
<1> SUFFICES ASSUME ConvInv PROVE AtMostOnce
  OBVIOUS
<1>1. Orderly(actor)
  BY DEF ConvInv
<1>2. Cardinality(actor.live) <= 1
  <2>1. actor.live = {} \/ actor.live = {actor.task}
    BY <1>1 DEF Orderly
  <2>2. CASE actor.live = {}
    BY <2>2, FS_EmptySet
  <2>3. CASE actor.live = {actor.task}
    <3>1. Cardinality({actor.task}) = 1
      BY FS_Singleton
    <3> QED
      BY <2>3, <3>1
  <2> QED
    BY <2>1, <2>2, <2>3
<1> QED
  BY <1>1, <1>2 DEF Orderly, AtMostOnce

\* Every variable keeps its type, for any messages, any number of lost connections
\* and whatever the Host and the desktop answer each other: the command counter never
\* exceeds the cancels that were sent.
THEOREM ConversationTypes == Spec => []TypeOK
<1>1. Init => ConvInv /\ Drafted
  BY ConvInvInit, DraftedInit
<1>2. ConvInv /\ Drafted /\ [Next]_vars => (ConvInv /\ Drafted)'
  BY ConvInvStep, DraftedStep
<1>3. ConvInv /\ Drafted => TypeOK
  BY ConvInvTypes
<1> QED
  BY <1>1, <1>2, <1>3, PTL DEF Spec

\* The session actor runs one turn at a time and starts each message once, for any
\* number of messages, synthetic turns, cancels, queue operations, lost connections and
\* restarts of the Leader (maybe_start_running_task, cancel_running_task,
\* handle_completion and the queue operations, in whatever order the arms run).
THEOREM ExecutedAtMostOnce == Spec => []AtMostOnce
<1>1. Init => ConvInv /\ Drafted
  BY ConvInvInit, DraftedInit
<1>2. ConvInv /\ Drafted /\ [Next]_vars => (ConvInv /\ Drafted)'
  BY ConvInvStep, DraftedStep
<1>3. ConvInv /\ Drafted => AtMostOnce
  BY ConvInvAtMostOnce
<1> QED
  BY <1>1, <1>2, <1>3, PTL DEF Spec
=============================================================================
