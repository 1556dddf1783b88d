------------------------ MODULE AgentDefinitionsProofs ------------------------
(* Proofs about AgentDefinitions, for any number of prompts, activations,      *)
(* actors, versions, saves and restarts.  Everything said of one resident      *)
(* actor is proved of the behaviours in which no two activations are in        *)
(* flight at once (OneOpening): two of them may each open an actor.            *)
EXTENDS AgentDefinitions, SequenceTheorems, TLAPS

-------------------------------------------------------------------------------
(* The inductive invariants.                                                   *)

(* An actor runs exactly when it has inputs, a rebuild shares it only with     *)
(* the turn of a plan approval, and only that approval has no prompt.          *)
Sound(r) ==
  /\ r.running <=> r.pending # <<>>
  /\ r.running /\ r.work # None => Head(r.pending) = Plan
  /\ \A i \in 1 .. Len(r.cmds) : r.cmds[i].k # "plan" => r.cmds[i].p \in Prompts

ActorShape == \A a \in Actors : Sound(actor[a])

ShapeInv == TypeOK /\ ActorShape

(* At most one activation is in flight.                                        *)
OneOpening ==
  \A t, u \in Activations :
     opening[t].pc # "idle" /\ opening[u].pc # "idle" => t = u

(* The registered actor is the only one that is up, an actor that is down has  *)
(* nothing to do, and without a registered actor nobody waits for one.         *)
Resident ==
  /\ \A a \in Actors :
        /\ actor[a].up <=> a = handle
        /\ ~actor[a].up => /\ actor[a].cmds = <<>> /\ actor[a].work = None
                           /\ actor[a].pending = <<>>
  /\ handle # None => \A t \in Activations : opening[t].pc # "opening"
  /\ handle = None => /\ \A t \in Activations : opening[t].pc # "registered"
                      /\ applied = None /\ replies = <<>>
  /\ \A p \in Prompts :
        prompt[p].pc \in Preparing \cup {"queued", "running"}
          => prompt[p].at = handle /\ handle # None

(* A command of the registered actor belongs to a prompt that waits for it,    *)
(* and to no other command or rebuild of that prompt.                          *)
CommandPlace ==
  handle # None => \A i \in 1 .. Len(actor[handle].cmds) :
     LET c == actor[handle].cmds[i]
     IN /\ c.k = "busy" => prompt[c.p].pc = "asked" /\ prompt[c.p].reply = None
        /\ c.k = "rebuild" => /\ prompt[c.p].pc = "rebuild" /\ prompt[c.p].reply = None
                              /\ c.p # actor[handle].work
        /\ c.k = "prompt" => prompt[c.p].pc = "sent"

CommandOnce ==
  handle # None => \A i, j \in 1 .. Len(actor[handle].cmds) :
     /\ actor[handle].cmds[i].k # "plan" /\ actor[handle].cmds[j].k # "plan"
     /\ actor[handle].cmds[i].p = actor[handle].cmds[j].p
     => i = j

WorkPlace ==
  handle # None /\ actor[handle].work # None =>
     LET p == actor[handle].work
     IN prompt[p].pc = "rebuild" /\ prompt[p].reply = None

(* The queue holds each prompt once: the first runs, the others are queued.    *)
PendingPlace ==
  handle # None => \A i \in 1 .. Len(actor[handle].pending) :
     LET p == actor[handle].pending[i]
     IN p # Plan => /\ prompt[p].pc = IF i = 1 THEN "running" ELSE "queued"
                    /\ \A j \in 1 .. Len(actor[handle].pending) :
                          p = actor[handle].pending[j] => i = j

QueuedPlace ==
  \A p \in Prompts : prompt[p].pc = "queued" =>
     \E i \in 1 .. Len(actor[handle].pending) : actor[handle].pending[i] = p

(* An answered rebuild waits once to be taken.                                 *)
ReplyPlace ==
  \A i \in 1 .. Len(replies) :
     /\ prompt[replies[i]].pc = "rebuild"
     /\ prompt[replies[i]].reply \in {"ok", "refused"}
     /\ \A j \in 1 .. Len(replies) : replies[i] = replies[j] => i = j

(* The harness is the one of the last successful rebuild still to be recorded, *)
(* and, when there is none, the recorded one.                                  *)
HarnessKnown ==
  handle # None =>
    \/ \E i \in 1 .. Len(replies) :
          /\ prompt[replies[i]].reply = "ok"
          /\ \A j \in 1 .. Len(replies) : j > i => prompt[replies[j]].reply # "ok"
          /\ prompt[replies[i]].read = actor[handle].def
    \/ /\ \A j \in 1 .. Len(replies) : prompt[replies[j]].reply # "ok"
       /\ applied # None => applied = actor[handle].def

PlaceInv ==
  /\ Resident /\ CommandPlace /\ CommandOnce /\ WorkPlace /\ PendingPlace
  /\ QueuedPlace /\ ReplyPlace

HarnessInv == ShapeInv /\ PlaceInv /\ HarnessKnown

(* Prompts prepared together know it; a prompt has seen the definition it      *)
(* read; and, unless it was prepared with another, its actor's harness is one  *)
(* it has seen from its own preparation to its start.                          *)
CrowdKnown ==
  \A p, q \in Prompts : p # q /\ prompt[p].pc \in Preparing /\ prompt[q].pc \in Preparing
                          => prompt[p].crowded

ReadSeen == \A p \in Prompts : Waiting(p) => prompt[p].read \in prompt[p].since

HarnessSeen ==
  \A p \in Prompts : ~prompt[p].crowded =>
     /\ prompt[p].pc \in {"dispatch", "sent", "queued"} => actor[handle].def \in prompt[p].since
     /\ prompt[p].pc = "rebuild" /\ prompt[p].reply = "ok" => actor[handle].def = prompt[p].read
     /\ prompt[p].pc = "queued"
          => \A q \in Prompts : /\ prompt[q].pc # "rebuild"
                                /\ ~(prompt[q].pc = "asked" /\ prompt[q].reply = "free")

FreshInv == CrowdKnown /\ ReadSeen /\ HarnessSeen /\ FreshWhenAlone

-------------------------------------------------------------------------------
(* Types of the parts an action writes.                                        *)

Commands == [k : {"busy", "rebuild", "prompt", "plan"}, p : Prompts \cup {None}]

LEMMA ActorType ==
  ASSUME TypeOK, NEW a \in Actors
  PROVE  /\ actor[a] \in Actor
         /\ actor[a].up \in BOOLEAN /\ actor[a].def \in Definitions \cup {None}
         /\ actor[a].cmds \in Seq(Commands) /\ actor[a].work \in Prompts \cup {None}
         /\ actor[a].pending \in Seq(Prompts \cup {Plan})
         /\ actor[a].running \in BOOLEAN /\ actor[a].parked \in BOOLEAN
BY DEF TypeOK, Actor, Commands

LEMMA PromptType ==
  ASSUME TypeOK, NEW p \in Prompts
  PROVE  /\ prompt[p] \in PromptTask
         /\ prompt[p].at \in Actors \cup {None}
         /\ prompt[p].read \in Definitions \cup {None}
         /\ prompt[p].reply \in {None, "busy", "free", "ok", "refused"}
         /\ prompt[p].ran \in Definitions \cup {None}
         /\ prompt[p].since \in SUBSET Definitions /\ prompt[p].crowded \in BOOLEAN
BY DEF TypeOK, PromptTask

(* What a queue holds after something was added to it or taken from it.        *)
LEMMA Appended ==
  ASSUME NEW S, NEW s \in Seq(S), NEW e \in S
  PROVE  /\ Append(s, e) \in Seq(S) /\ Append(s, e) # <<>>
         /\ Len(Append(s, e)) = Len(s) + 1 /\ Append(s, e)[Len(s) + 1] = e
         /\ \A i \in 1 .. Len(s) : Append(s, e)[i] = s[i]
         /\ Head(Append(s, e)) = IF s = <<>> THEN e ELSE Head(s)
<1>1. /\ Append(s, e) \in Seq(S) /\ Len(s) \in Nat
      /\ Len(Append(s, e)) = Len(s) + 1 /\ Append(s, e)[Len(s) + 1] = e
      /\ \A i \in 1 .. Len(s) : Append(s, e)[i] = s[i]
  OBVIOUS
<1>2. Len(<<>>) = 0
  OBVIOUS
<1>3. Append(s, e) # <<>>
  BY <1>1, <1>2
<1>4. Head(Append(s, e)) = Append(s, e)[1]
  BY <1>1, <1>3
<1>5. CASE s = <<>>
  BY <1>1, <1>2, <1>3, <1>4, <1>5
<1>6. CASE s # <<>>
  <2>1. Head(s) = s[1] /\ Len(s) >= 1
    BY <1>6
  <2> QED
    BY <1>1, <1>3, <1>4, <1>6, <2>1
<1> QED
  BY <1>5, <1>6

LEMMA Tailed ==
  ASSUME NEW S, NEW s \in Seq(S), s # <<>>
  PROVE  /\ Tail(s) \in Seq(S) /\ Len(s) >= 1 /\ Len(Tail(s)) = Len(s) - 1
         /\ Head(s) = s[1] /\ s[1] \in S
         /\ \A i \in 1 .. Len(s) - 1 : Tail(s)[i] = s[i + 1]
         /\ Tail(s) = <<>> <=> Len(s) = 1
         /\ Tail(s) # <<>> => Head(Tail(s)) = s[2] /\ Len(s) >= 2
<1>1. /\ Tail(s) \in Seq(S) /\ Len(s) \in Nat /\ Len(s) >= 1 /\ Len(Tail(s)) = Len(s) - 1
      /\ Head(s) = s[1] /\ s[1] \in S
      /\ \A i \in 1 .. Len(s) - 1 : Tail(s)[i] = s[i + 1]
  OBVIOUS
<1>2. Tail(s) = <<>> <=> Len(Tail(s)) = 0
  BY <1>1, EmptySeq
<1>3. ASSUME Tail(s) # <<>> PROVE Head(Tail(s)) = s[2] /\ Len(s) >= 2
  <2>1. Head(Tail(s)) = Tail(s)[1]
    BY <1>1, <1>3
  <2> QED
    BY <1>1, <1>2, <1>3, <2>1
<1> QED
  BY <1>1, <1>2, <1>3

(* One actor, or one prompt, is replaced.                                      *)
LEMMA ActorUpdate ==
  ASSUME TypeOK, NEW a \in Actors, NEW r \in Actor, actor' = [actor EXCEPT ![a] = r]
  PROVE  /\ actor' \in [Actors -> Actor] /\ actor'[a] = r
         /\ \A b \in Actors \ {a} : actor'[b] = actor[b]
BY DEF TypeOK

LEMMA PromptUpdate ==
  ASSUME TypeOK, NEW p \in Prompts, NEW r \in PromptTask, prompt' = [prompt EXCEPT ![p] = r]
  PROVE  /\ prompt' \in [Prompts -> PromptTask] /\ prompt'[p] = r
         /\ \A q \in Prompts \ {p} : prompt'[q] = prompt[q]
BY DEF TypeOK

(* The commands after one was taken or sent.                                   *)
LEMMA TakenFacts ==
  ASSUME ShapeInv, NEW a \in Actors, NEW k, Takes(a, k)
  PROVE  /\ Taken(a) \in Actor /\ Sound(Taken(a))
         /\ Taken(a).up = actor[a].up /\ Taken(a).def = actor[a].def
         /\ Taken(a).cmds = Tail(actor[a].cmds) /\ Taken(a).work = None
         /\ Taken(a).pending = actor[a].pending /\ Taken(a).running = actor[a].running
         /\ Taken(a).parked = actor[a].parked
         /\ Len(actor[a].cmds) > 0
         /\ Head(actor[a].cmds) = actor[a].cmds[1] /\ actor[a].cmds[1].k = k
         /\ k # "plan" => actor[a].cmds[1].p \in Prompts
<1>1. /\ actor[a] \in Actor /\ actor[a].cmds \in Seq(Commands) /\ actor[a].cmds # <<>>
      /\ actor[a].work = None /\ Sound(actor[a])
  BY ActorType DEF ShapeInv, ActorShape, Takes
<1>2. /\ Tail(actor[a].cmds) \in Seq(Commands) /\ Len(actor[a].cmds) > 0
      /\ Head(actor[a].cmds) = actor[a].cmds[1]
      /\ Len(Tail(actor[a].cmds)) = Len(actor[a].cmds) - 1
      /\ \A i \in 1 .. Len(actor[a].cmds) - 1 : Tail(actor[a].cmds)[i] = actor[a].cmds[i + 1]
  BY <1>1
<1>3. /\ Taken(a) \in Actor
      /\ Taken(a).up = actor[a].up /\ Taken(a).def = actor[a].def
      /\ Taken(a).cmds = Tail(actor[a].cmds) /\ Taken(a).work = None
      /\ Taken(a).pending = actor[a].pending /\ Taken(a).running = actor[a].running
      /\ Taken(a).parked = actor[a].parked
  BY <1>1, <1>2 DEF Taken, Actor, Commands
<1>4. Sound(Taken(a))
  BY <1>1, <1>2, <1>3 DEF Sound
<1> QED
  BY <1>1, <1>2, <1>3, <1>4 DEF Takes, Sound

LEMMA SendFacts ==
  ASSUME ShapeInv, NEW a \in Actors, NEW k \in {"busy", "rebuild", "prompt", "plan"},
         NEW p \in Prompts \cup {None}, k # "plan" => p \in Prompts, Send(a, k, p)
  PROVE  /\ actor' \in [Actors -> Actor] /\ Sound(actor'[a])
         /\ \A b \in Actors \ {a} : actor'[b] = actor[b]
         /\ actor'[a].up = actor[a].up /\ actor'[a].def = actor[a].def
         /\ actor'[a].work = actor[a].work /\ actor'[a].pending = actor[a].pending
         /\ actor'[a].running = actor[a].running /\ actor'[a].parked = actor[a].parked
         /\ actor'[a].cmds = Append(actor[a].cmds, [k |-> k, p |-> p])
<1> DEFINE c == [k |-> k, p |-> p]
           r == [actor[a] EXCEPT !.cmds = Append(@, c)]
<1>1. actor[a] \in Actor /\ actor[a].cmds \in Seq(Commands) /\ Sound(actor[a])
  BY ActorType DEF ShapeInv, ActorShape
<1>2. c \in Commands
  BY DEF Commands
<1>3. /\ Append(actor[a].cmds, c) \in Seq(Commands)
      /\ Len(Append(actor[a].cmds, c)) = Len(actor[a].cmds) + 1
      /\ \A i \in 1 .. Len(actor[a].cmds) : Append(actor[a].cmds, c)[i] = actor[a].cmds[i]
      /\ Append(actor[a].cmds, c)[Len(actor[a].cmds) + 1] = c
  <2> HIDE DEF c
  <2> QED BY <1>1, <1>2
<1>4. r \in Actor /\ r.cmds = Append(actor[a].cmds, c)
  BY <1>1, <1>3 DEF Actor, Commands
<1>5. actor' = [actor EXCEPT ![a] = r]
  BY DEF Send, ShapeInv, TypeOK
<1>6. actor' \in [Actors -> Actor] /\ actor'[a] = r /\ \A b \in Actors \ {a} : actor'[b] = actor[b]
  <2> HIDE DEF r
  <2> QED BY <1>4, <1>5, ActorUpdate DEF ShapeInv
<1>7. /\ r.up = actor[a].up /\ r.def = actor[a].def
      /\ r.work = actor[a].work /\ r.pending = actor[a].pending
      /\ r.running = actor[a].running /\ r.parked = actor[a].parked
  BY <1>1 DEF Actor
<1>8. Sound(r)
  <2>1. c.k # "plan" => c.p \in Prompts
    OBVIOUS
  <2> HIDE DEF r, c
  <2> QED BY <1>1, <1>3, <1>4, <1>7, <2>1 DEF Sound
<1> QED
  BY <1>4, <1>6, <1>7, <1>8

(* The front of the queue becomes the turn.                                    *)
LEMMA StartedFacts ==
  ASSUME NEW r \in Actor
  PROVE  /\ Started(r) \in Actor
         /\ Started(r).running = (r.running \/ r.pending # <<>>)
         /\ Started(r).up = r.up /\ Started(r).def = r.def /\ Started(r).cmds = r.cmds
         /\ Started(r).work = r.work /\ Started(r).pending = r.pending
         /\ Started(r).parked = r.parked
<1>1. r.running \in BOOLEAN
  BY DEF Actor
<1>2. CASE Starts(r)
  BY <1>1, <1>2 DEF Started, Starts, Actor
<1>3. CASE ~Starts(r)
  BY <1>1, <1>3 DEF Started, Starts
<1> QED
  BY <1>2, <1>3

LEMMA StartedPromptsFacts ==
  ASSUME TypeOK, NEW r \in Actor
  PROVE  /\ StartedPrompts(r) \in [Prompts -> PromptTask]
         /\ \A p \in Prompts :
               /\ StartedPrompts(r)[p].at = prompt[p].at
               /\ StartedPrompts(r)[p].read = prompt[p].read
               /\ StartedPrompts(r)[p].reply = prompt[p].reply
               /\ StartedPrompts(r)[p].since = prompt[p].since
               /\ StartedPrompts(r)[p].crowded = prompt[p].crowded
               /\ Starts(r) /\ p = Head(r.pending) =>
                     StartedPrompts(r)[p].pc = "running" /\ StartedPrompts(r)[p].ran = r.def
               /\ ~(Starts(r) /\ p = Head(r.pending)) =>
                     /\ StartedPrompts(r)[p].ran = prompt[p].ran
                     /\ StartedPrompts(r)[p].pc =
                          IF p \in {r.pending[i] : i \in DOMAIN r.pending} /\ prompt[p].pc = "sent"
                          THEN "queued" ELSE prompt[p].pc
<1>0. r.def \in Definitions \cup {None}
  BY DEF Actor
<1> DEFINE run(p) == [prompt[p] EXCEPT !.pc = "running", !.ran = r.def]
           que(p) == [prompt[p] EXCEPT !.pc = "queued"]
<1>1. ASSUME NEW p \in Prompts
      PROVE  /\ prompt[p] \in PromptTask /\ run(p) \in PromptTask /\ que(p) \in PromptTask
             /\ run(p).at = prompt[p].at /\ run(p).read = prompt[p].read
             /\ run(p).reply = prompt[p].reply /\ run(p).since = prompt[p].since
             /\ run(p).crowded = prompt[p].crowded /\ run(p).pc = "running" /\ run(p).ran = r.def
             /\ que(p).at = prompt[p].at /\ que(p).read = prompt[p].read
             /\ que(p).reply = prompt[p].reply /\ que(p).since = prompt[p].since
             /\ que(p).crowded = prompt[p].crowded /\ que(p).pc = "queued" /\ que(p).ran = prompt[p].ran
  BY <1>0, PromptType DEF PromptTask
<1>2. \A p \in Prompts : StartedPrompts(r)[p] =
         IF Starts(r) /\ p = Head(r.pending) THEN run(p)
         ELSE IF p \in {r.pending[i] : i \in DOMAIN r.pending} /\ prompt[p].pc = "sent" THEN que(p)
         ELSE prompt[p]
  BY DEF StartedPrompts
<1>3. StartedPrompts(r) = [p \in Prompts |-> StartedPrompts(r)[p]]
  BY DEF StartedPrompts
<1> HIDE DEF run, que
<1> QED
  BY <1>1, <1>2, <1>3

-------------------------------------------------------------------------------
(* What each action does, field by field; every one keeps the types and the    *)
(* shape of the actors.                                                        *)

SameTask(p) ==
  /\ prompt'[p].at = prompt[p].at /\ prompt'[p].read = prompt[p].read
  /\ prompt'[p].ran = prompt[p].ran /\ prompt'[p].since = prompt[p].since
  /\ prompt'[p].crowded = prompt[p].crowded

LEMMA WitnessedFacts ==
  ASSUME TypeOK, NEW d \in Definitions, prompt' = Witnessed(d)
  PROVE  /\ prompt' \in [Prompts -> PromptTask]
         /\ \A p \in Prompts :
               /\ prompt'[p].pc = prompt[p].pc /\ prompt'[p].at = prompt[p].at
               /\ prompt'[p].read = prompt[p].read /\ prompt'[p].reply = prompt[p].reply
               /\ prompt'[p].ran = prompt[p].ran /\ prompt'[p].crowded = prompt[p].crowded
               /\ prompt[p].since \subseteq prompt'[p].since
<1> DEFINE new(p) == [prompt[p] EXCEPT !.since = @ \cup {d}]
<1>1. ASSUME NEW p \in Prompts
      PROVE  /\ prompt[p] \in PromptTask /\ new(p) \in PromptTask
             /\ new(p).pc = prompt[p].pc /\ new(p).at = prompt[p].at
             /\ new(p).read = prompt[p].read /\ new(p).reply = prompt[p].reply
             /\ new(p).ran = prompt[p].ran /\ new(p).crowded = prompt[p].crowded
             /\ new(p).since = prompt[p].since \cup {d}
  BY PromptType DEF PromptTask
<1>2. prompt' = [p \in Prompts |-> IF Waiting(p) THEN new(p) ELSE prompt[p]]
  BY DEF Witnessed
<1> HIDE DEF new
<1> QED
  BY <1>1, <1>2

LEMMA SaveOverlayFacts ==
  ASSUME ShapeInv, SaveOverlay
  PROVE  ShapeInv' /\ store' \in Definitions /\ prompt' = Witnessed(store')
<1> USE DefinitionsAssumption
<1>1. store' \in Definitions
  BY DEF ShapeInv, TypeOK, SaveOverlay, Definitions
<1>2. prompt' \in [Prompts -> PromptTask]
  BY <1>1, WitnessedFacts DEF ShapeInv, SaveOverlay
<1> QED
  BY <1>1, <1>2 DEF ShapeInv, TypeOK, SaveOverlay, ActorShape

LEMMA MovePackageFacts ==
  ASSUME ShapeInv, NEW v \in Versions, MovePackage(v)
  PROVE  ShapeInv' /\ store' \in Definitions /\ prompt' = Witnessed(store')
<1>1. store' \in Definitions
  BY DEF ShapeInv, TypeOK, MovePackage, Definitions
<1>2. prompt' \in [Prompts -> PromptTask]
  BY <1>1, WitnessedFacts DEF ShapeInv, MovePackage
<1> QED
  BY <1>1, <1>2 DEF ShapeInv, TypeOK, MovePackage, ActorShape

(* One prompt gets a new pc and a new reply.                                   *)
LEMMA TaskFacts ==
  ASSUME TypeOK, NEW p \in Prompts, NEW pc \in {"idle", "queued", "running", "done", "refused"} \cup Preparing,
         NEW reply \in {None, "busy", "free", "ok", "refused"},
         prompt' = [prompt EXCEPT ![p] = [prompt[p] EXCEPT !.pc = pc, !.reply = reply]]
  PROVE  /\ prompt' \in [Prompts -> PromptTask]
         /\ prompt'[p].pc = pc /\ prompt'[p].reply = reply /\ SameTask(p)
         /\ \A q \in Prompts \ {p} : prompt'[q] = prompt[q]
<1> DEFINE new == [prompt[p] EXCEPT !.pc = pc, !.reply = reply]
<1>1. /\ new \in PromptTask /\ new.pc = pc /\ new.reply = reply
      /\ new.at = prompt[p].at /\ new.read = prompt[p].read /\ new.ran = prompt[p].ran
      /\ new.since = prompt[p].since /\ new.crowded = prompt[p].crowded
  BY PromptType DEF PromptTask
<1> HIDE DEF new
<1>2. /\ prompt' \in [Prompts -> PromptTask] /\ prompt'[p] = new
      /\ \A q \in Prompts \ {p} : prompt'[q] = prompt[q]
  BY <1>1, PromptUpdate DEF new
<1> QED
  BY <1>1, <1>2 DEF SameTask

LEMMA ReplyFacts ==
  ASSUME TypeOK, NEW p \in Prompts, NEW reply \in {None, "busy", "free", "ok", "refused"},
         prompt' = [prompt EXCEPT ![p].reply = reply]
  PROVE  /\ prompt' \in [Prompts -> PromptTask]
         /\ prompt'[p].pc = prompt[p].pc /\ prompt'[p].reply = reply /\ SameTask(p)
         /\ \A q \in Prompts \ {p} : prompt'[q] = prompt[q]
<1> DEFINE new == [prompt[p] EXCEPT !.reply = reply]
<1>1. /\ new \in PromptTask /\ new.pc = prompt[p].pc /\ new.reply = reply
      /\ new.at = prompt[p].at /\ new.read = prompt[p].read /\ new.ran = prompt[p].ran
      /\ new.since = prompt[p].since /\ new.crowded = prompt[p].crowded
  BY PromptType DEF PromptTask
<1>2. prompt' = [prompt EXCEPT ![p] = new]
  BY DEF TypeOK
<1> HIDE DEF new
<1>3. /\ prompt' \in [Prompts -> PromptTask] /\ prompt'[p] = new
      /\ \A q \in Prompts \ {p} : prompt'[q] = prompt[q]
  BY <1>1, <1>2, PromptUpdate
<1> QED
  BY <1>1, <1>3 DEF SameTask

LEMMA AnswerBusyFacts ==
  ASSUME ShapeInv, NEW a \in Actors, AnswerBusy(a)
  PROVE  /\ ShapeInv'
         /\ \E p \in Prompts :
               /\ actor[a].cmds[1].p = p /\ actor[a].cmds[1].k = "busy"
               /\ prompt'[p].pc = prompt[p].pc /\ SameTask(p)
               /\ prompt'[p].reply = IF Busy(actor[a]) THEN "busy" ELSE "free"
               /\ \A q \in Prompts \ {p} : prompt'[q] = prompt[q]
         /\ Len(actor[a].cmds) > 0 /\ actor'[a] = Taken(a)
         /\ \A b \in Actors \ {a} : actor'[b] = actor[b]
<1> DEFINE p == actor[a].cmds[1].p
           reply == IF Busy(actor[a]) THEN "busy" ELSE "free"
<1>1. /\ p \in Prompts /\ Taken(a) \in Actor /\ Sound(Taken(a)) /\ Len(actor[a].cmds) > 0
      /\ p = Head(actor[a].cmds).p /\ actor[a].cmds[1].k = "busy"
  BY TakenFacts DEF AnswerBusy
<1>2. prompt' = [prompt EXCEPT ![p].reply = reply] /\ actor' = [actor EXCEPT ![a] = Taken(a)]
  BY <1>1 DEF AnswerBusy
<1>3. reply \in {None, "busy", "free", "ok", "refused"}
  OBVIOUS
<1> HIDE DEF p, reply
<1>4. /\ prompt' \in [Prompts -> PromptTask]
      /\ prompt'[p].pc = prompt[p].pc /\ prompt'[p].reply = reply /\ SameTask(p)
      /\ \A q \in Prompts \ {p} : prompt'[q] = prompt[q]
  BY <1>1, <1>2, <1>3, ReplyFacts DEF ShapeInv
<1>5. /\ actor' \in [Actors -> Actor] /\ actor'[a] = Taken(a)
      /\ \A b \in Actors \ {a} : actor'[b] = actor[b]
  BY <1>1, <1>2, ActorUpdate DEF ShapeInv
<1>6. ShapeInv'
  BY <1>1, <1>4, <1>5 DEF ShapeInv, TypeOK, ActorShape, AnswerBusy
<1> QED
  BY <1>1, <1>4, <1>5, <1>6 DEF p, reply

LEMMA TakePromptFacts ==
  ASSUME ShapeInv, NEW a \in Actors, TakePrompt(a)
  PROVE  LET p == actor[a].cmds[1].p
             r == [Taken(a) EXCEPT !.pending = Append(@, p)]
         IN /\ ShapeInv'
            /\ p \in Prompts /\ actor[a].cmds[1].k = "prompt" /\ Len(actor[a].cmds) > 0
            /\ actor[a].work = None
            /\ r \in Actor /\ r.def = actor[a].def /\ r.pending = Append(actor[a].pending, p)
            /\ r.running = actor[a].running
            /\ prompt' = StartedPrompts(r)
            /\ actor'[a].up = actor[a].up /\ actor'[a].def = actor[a].def
            /\ actor'[a].cmds = Tail(actor[a].cmds) /\ actor'[a].work = None
            /\ actor'[a].pending = Append(actor[a].pending, p) /\ actor'[a].running
            /\ \A b \in Actors \ {a} : actor'[b] = actor[b]
<1> DEFINE p == actor[a].cmds[1].p
           r == [Taken(a) EXCEPT !.pending = Append(@, p)]
<1>1. /\ p \in Prompts /\ Taken(a) \in Actor /\ Sound(Taken(a)) /\ Len(actor[a].cmds) > 0
      /\ p = Head(actor[a].cmds).p /\ actor[a].cmds[1].k = "prompt"
      /\ Taken(a).up = actor[a].up /\ Taken(a).def = actor[a].def
      /\ Taken(a).cmds = Tail(actor[a].cmds) /\ Taken(a).work = None
      /\ Taken(a).pending = actor[a].pending /\ Taken(a).running = actor[a].running
      /\ Taken(a).parked = actor[a].parked
  BY TakenFacts DEF TakePrompt
<1>2. prompt' = StartedPrompts(r) /\ actor' = [actor EXCEPT ![a] = Started(r)]
  BY <1>1 DEF TakePrompt, Become
<1>3. actor[a].pending \in Seq(Prompts \cup {Plan}) /\ actor[a].work = None
  BY ActorType DEF ShapeInv, TakePrompt, Takes
<1>4. /\ Append(actor[a].pending, p) \in Seq(Prompts \cup {Plan})
      /\ Append(actor[a].pending, p) # <<>>
  <2> HIDE DEF p
  <2>1. p \in Prompts \cup {Plan}
    BY <1>1
  <2> QED BY <1>3, <2>1, Appended
<1>5. r \in Actor /\ r.pending = Append(actor[a].pending, p)
  BY <1>1, <1>4 DEF Actor
<1>6. /\ r.up = actor[a].up /\ r.def = actor[a].def /\ r.cmds = Tail(actor[a].cmds)
      /\ r.work = None /\ r.running = actor[a].running
  BY <1>1 DEF Actor
<1> HIDE DEF p, r
<1>7. /\ Started(r) \in Actor /\ Started(r).running = (r.running \/ r.pending # <<>>)
      /\ Started(r).up = r.up /\ Started(r).def = r.def /\ Started(r).cmds = r.cmds
      /\ Started(r).work = r.work /\ Started(r).pending = r.pending
  BY <1>5, StartedFacts
<1>8. /\ actor' \in [Actors -> Actor] /\ actor'[a] = Started(r)
      /\ \A b \in Actors \ {a} : actor'[b] = actor[b]
  BY <1>2, <1>7, ActorUpdate DEF ShapeInv
<1>9. Started(r).running /\ Sound(Started(r))
  BY <1>1, <1>4, <1>5, <1>6, <1>7 DEF Sound
<1>10. prompt' \in [Prompts -> PromptTask]
  BY <1>2, <1>5, StartedPromptsFacts DEF ShapeInv
<1>11. ShapeInv'
  BY <1>8, <1>9, <1>10 DEF ShapeInv, TypeOK, ActorShape, TakePrompt
<1> QED
  BY <1>1, <1>2, <1>3, <1>5, <1>6, <1>7, <1>8, <1>9, <1>11 DEF p, r

LEMMA TakeRebuildFacts ==
  ASSUME ShapeInv, NEW a \in Actors, TakeRebuild(a)
  PROVE  LET p == actor[a].cmds[1].p
         IN /\ ShapeInv'
            /\ p \in Prompts /\ actor[a].cmds[1].k = "rebuild" /\ Len(actor[a].cmds) > 0
            /\ actor[a].work = None
            /\ actor'[a].up = actor[a].up /\ actor'[a].def = actor[a].def
            /\ actor'[a].cmds = Tail(actor[a].cmds) /\ actor'[a].pending = actor[a].pending
            /\ \A b \in Actors \ {a} : actor'[b] = actor[b]
            /\ \/ actor'[a].work = p /\ prompt' = prompt /\ replies' = replies
               \/ /\ actor'[a].work = None /\ replies' = Append(replies, p)
                  /\ prompt'[p].pc = prompt[p].pc /\ prompt'[p].reply = "refused" /\ SameTask(p)
                  /\ \A q \in Prompts \ {p} : prompt'[q] = prompt[q]
<1> DEFINE p == actor[a].cmds[1].p
           r == [Taken(a) EXCEPT !.work = p]
<1>1. /\ p \in Prompts /\ Taken(a) \in Actor /\ Sound(Taken(a)) /\ Len(actor[a].cmds) > 0
      /\ p = Head(actor[a].cmds).p /\ actor[a].cmds[1].k = "rebuild"
      /\ Taken(a).up = actor[a].up /\ Taken(a).def = actor[a].def
      /\ Taken(a).cmds = Tail(actor[a].cmds) /\ Taken(a).work = None
      /\ Taken(a).pending = actor[a].pending /\ Taken(a).running = actor[a].running
      /\ Taken(a).parked = actor[a].parked
  BY TakenFacts DEF TakeRebuild
<1>2. actor[a].work = None
  BY DEF TakeRebuild, Takes
<1>3. CASE MayRebuild(actor[a])
  <2>1. actor' = [actor EXCEPT ![a] = r] /\ prompt' = prompt /\ replies' = replies
    BY <1>1, <1>3 DEF TakeRebuild
  <2>2. /\ r \in Actor /\ r.up = actor[a].up /\ r.def = actor[a].def
        /\ r.cmds = Tail(actor[a].cmds) /\ r.work = p
        /\ r.pending = actor[a].pending /\ r.running = FALSE
    BY <1>1, <1>3, ActorType DEF Actor, MayRebuild, ShapeInv
  <2> HIDE DEF r, p
  <2>3. Sound(r)
    <3>1. ~Taken(a).running /\ ~r.running
      BY <1>1, <1>3, <2>2 DEF MayRebuild
    <3>2. Taken(a).pending = <<>>
      BY <1>1, <3>1 DEF Sound
    <3> QED
      BY <1>1, <2>2, <3>1, <3>2 DEF Sound
  <2>4. /\ actor' \in [Actors -> Actor] /\ actor'[a] = r
        /\ \A b \in Actors \ {a} : actor'[b] = actor[b]
    BY <2>1, <2>2, ActorUpdate DEF ShapeInv
  <2>5. ShapeInv'
    BY <2>1, <2>3, <2>4 DEF ShapeInv, TypeOK, ActorShape, TakeRebuild
  <2> QED
    BY <1>1, <1>2, <2>1, <2>2, <2>4, <2>5 DEF p
<1>4. CASE ~MayRebuild(actor[a])
  <2>1. /\ actor' = [actor EXCEPT ![a] = Taken(a)] /\ replies' = Append(replies, p)
        /\ prompt' = [prompt EXCEPT ![p].reply = "refused"]
    BY <1>1, <1>4 DEF TakeRebuild
  <2> HIDE DEF p
  <2>2. /\ prompt' \in [Prompts -> PromptTask]
        /\ prompt'[p].pc = prompt[p].pc /\ prompt'[p].reply = "refused" /\ SameTask(p)
        /\ \A q \in Prompts \ {p} : prompt'[q] = prompt[q]
    BY <1>1, <2>1, ReplyFacts DEF ShapeInv
  <2>3. /\ actor' \in [Actors -> Actor] /\ actor'[a] = Taken(a)
        /\ \A b \in Actors \ {a} : actor'[b] = actor[b]
    BY <1>1, <2>1, ActorUpdate DEF ShapeInv
  <2>4. replies' \in Seq(Prompts)
    BY <1>1, <2>1 DEF ShapeInv, TypeOK
  <2>5. ShapeInv'
    BY <1>1, <2>2, <2>3, <2>4 DEF ShapeInv, TypeOK, ActorShape, TakeRebuild
  <2> QED
    BY <1>1, <1>2, <2>1, <2>2, <2>3, <2>5 DEF p
<1> QED
  BY <1>3, <1>4

LEMMA RebuildEndsFacts ==
  ASSUME ShapeInv, NEW a \in Actors, RebuildEnds(a)
  PROVE  LET p == actor[a].work
         IN /\ ShapeInv'
            /\ p \in Prompts /\ replies' = Append(replies, p)
            /\ actor'[a].up = actor[a].up /\ actor'[a].def = prompt[p].read
            /\ actor'[a].cmds = actor[a].cmds /\ actor'[a].work = None
            /\ actor'[a].pending = actor[a].pending
            /\ \A b \in Actors \ {a} : actor'[b] = actor[b]
            /\ prompt'[p].pc = prompt[p].pc /\ prompt'[p].reply = "ok" /\ SameTask(p)
            /\ \A q \in Prompts \ {p} : prompt'[q] = prompt[q]
<1> DEFINE p == actor[a].work
           r == [actor[a] EXCEPT !.work = None, !.def = prompt[p].read]
<1>1. /\ p \in Prompts /\ actor[a] \in Actor /\ Sound(actor[a])
      /\ prompt[p].read \in Definitions \cup {None}
  BY ActorType, PromptType DEF RebuildEnds, ShapeInv, ActorShape
<1>2. /\ r \in Actor /\ r.up = actor[a].up /\ r.def = prompt[p].read
      /\ r.cmds = actor[a].cmds /\ r.work = None
      /\ r.pending = actor[a].pending /\ r.running = actor[a].running
  BY <1>1 DEF Actor
<1>3. /\ actor' = [actor EXCEPT ![a] = r] /\ replies' = Append(replies, p)
      /\ prompt' = [prompt EXCEPT ![p].reply = "ok"] /\ saved' = prompt[p].read
  BY DEF RebuildEnds, ShapeInv, TypeOK
<1> HIDE DEF r, p
<1>4. Sound(r)
  BY <1>1, <1>2 DEF Sound
<1>5. /\ actor' \in [Actors -> Actor] /\ actor'[a] = r
      /\ \A b \in Actors \ {a} : actor'[b] = actor[b]
  BY <1>2, <1>3, ActorUpdate DEF ShapeInv
<1>6. /\ prompt' \in [Prompts -> PromptTask]
      /\ prompt'[p].pc = prompt[p].pc /\ prompt'[p].reply = "ok" /\ SameTask(p)
      /\ \A q \in Prompts \ {p} : prompt'[q] = prompt[q]
  BY <1>1, <1>3, ReplyFacts DEF ShapeInv
<1>7. replies' \in Seq(Prompts)
  BY <1>1, <1>3 DEF ShapeInv, TypeOK
<1>8. ShapeInv'
  BY <1>1, <1>3, <1>4, <1>5, <1>6, <1>7 DEF ShapeInv, TypeOK, ActorShape, RebuildEnds
<1> QED
  BY <1>1, <1>2, <1>3, <1>5, <1>6, <1>8 DEF p

LEMMA RebuildFailsFacts ==
  ASSUME ShapeInv, NEW a \in Actors, RebuildFails(a)
  PROVE  LET p == actor[a].work
         IN /\ ShapeInv'
            /\ p \in Prompts /\ replies' = Append(replies, p)
            /\ actor'[a].up = actor[a].up /\ actor'[a].def = actor[a].def
            /\ actor'[a].cmds = actor[a].cmds /\ actor'[a].work = None
            /\ actor'[a].pending = actor[a].pending
            /\ \A b \in Actors \ {a} : actor'[b] = actor[b]
            /\ prompt'[p].pc = prompt[p].pc /\ prompt'[p].reply = "refused" /\ SameTask(p)
            /\ \A q \in Prompts \ {p} : prompt'[q] = prompt[q]
<1> DEFINE p == actor[a].work
           r == [actor[a] EXCEPT !.work = None]
<1>1. p \in Prompts /\ actor[a] \in Actor /\ Sound(actor[a])
  BY ActorType DEF RebuildFails, ShapeInv, ActorShape
<1>2. /\ r \in Actor /\ r.up = actor[a].up /\ r.def = actor[a].def
      /\ r.cmds = actor[a].cmds /\ r.work = None
      /\ r.pending = actor[a].pending /\ r.running = actor[a].running
  BY <1>1 DEF Actor
<1>3. /\ actor' = [actor EXCEPT ![a] = r] /\ replies' = Append(replies, p)
      /\ prompt' = [prompt EXCEPT ![p].reply = "refused"]
  BY DEF RebuildFails, ShapeInv, TypeOK
<1> HIDE DEF r, p
<1>4. Sound(r)
  BY <1>1, <1>2 DEF Sound
<1>5. /\ actor' \in [Actors -> Actor] /\ actor'[a] = r
      /\ \A b \in Actors \ {a} : actor'[b] = actor[b]
  BY <1>2, <1>3, ActorUpdate DEF ShapeInv
<1>6. /\ prompt' \in [Prompts -> PromptTask]
      /\ prompt'[p].pc = prompt[p].pc /\ prompt'[p].reply = "refused" /\ SameTask(p)
      /\ \A q \in Prompts \ {p} : prompt'[q] = prompt[q]
  BY <1>1, <1>3, ReplyFacts DEF ShapeInv
<1>7. replies' \in Seq(Prompts)
  BY <1>1, <1>3 DEF ShapeInv, TypeOK
<1>8. ShapeInv'
  BY <1>1, <1>4, <1>5, <1>6, <1>7 DEF ShapeInv, TypeOK, ActorShape, RebuildFails
<1> QED
  BY <1>1, <1>2, <1>3, <1>5, <1>6, <1>8 DEF p

LEMMA TurnEndsFacts ==
  ASSUME ShapeInv, NEW a \in Actors, TurnEnds(a)
  PROVE  LET r == [actor[a] EXCEPT !.running = FALSE, !.pending = Tail(@)]
         IN /\ ShapeInv'
            /\ actor[a].pending # <<>> /\ actor[a].work = None
            /\ r \in Actor /\ r.def = actor[a].def /\ r.running = FALSE
            /\ r.pending = Tail(actor[a].pending)
            /\ actor'[a].up = actor[a].up /\ actor'[a].def = actor[a].def
            /\ actor'[a].cmds = actor[a].cmds /\ actor'[a].work = None
            /\ actor'[a].pending = Tail(actor[a].pending)
            /\ \A b \in Actors \ {a} : actor'[b] = actor[b]
            /\ \A q \in Prompts : q = Head(actor[a].pending) =>
                  prompt'[q].pc = "done" /\ prompt'[q].reply = prompt[q].reply /\ SameTask(q)
            /\ \A q \in Prompts : q # Head(actor[a].pending) => prompt'[q] = StartedPrompts(r)[q]
<1> DEFINE r == [actor[a] EXCEPT !.running = FALSE, !.pending = Tail(@)]
           done(q) == [prompt[q] EXCEPT !.pc = "done"]
<1>1. /\ actor[a] \in Actor /\ actor[a].pending \in Seq(Prompts \cup {Plan})
      /\ actor[a].pending # <<>> /\ actor[a].work = None /\ Sound(actor[a])
  BY ActorType DEF TurnEnds, ShapeInv, ActorShape, Sound
<1>2. Tail(actor[a].pending) \in Seq(Prompts \cup {Plan})
  BY <1>1
<1>3. /\ r \in Actor /\ r.up = actor[a].up /\ r.def = actor[a].def /\ r.cmds = actor[a].cmds
      /\ r.work = None /\ r.pending = Tail(actor[a].pending) /\ r.running = FALSE
  BY <1>1, <1>2 DEF Actor
<1>4. /\ actor' = [actor EXCEPT ![a] = Started(r)]
      /\ prompt' = [q \in Prompts |-> IF q = Head(actor[a].pending) THEN done(q)
                                      ELSE StartedPrompts(r)[q]]
  BY DEF TurnEnds
<1>5. ASSUME NEW q \in Prompts
      PROVE  /\ done(q) \in PromptTask /\ done(q).pc = "done" /\ done(q).reply = prompt[q].reply
             /\ done(q).at = prompt[q].at /\ done(q).read = prompt[q].read
             /\ done(q).ran = prompt[q].ran /\ done(q).since = prompt[q].since
             /\ done(q).crowded = prompt[q].crowded
  BY PromptType DEF PromptTask, ShapeInv
<1> HIDE DEF r, done
<1>6. /\ Started(r) \in Actor /\ Started(r).running = (r.running \/ r.pending # <<>>)
      /\ Started(r).up = r.up /\ Started(r).def = r.def /\ Started(r).cmds = r.cmds
      /\ Started(r).work = r.work /\ Started(r).pending = r.pending
  BY <1>3, StartedFacts
<1>7. /\ actor' \in [Actors -> Actor] /\ actor'[a] = Started(r)
      /\ \A b \in Actors \ {a} : actor'[b] = actor[b]
  BY <1>4, <1>6, ActorUpdate DEF ShapeInv
<1>8. Sound(Started(r))
  BY <1>1, <1>3, <1>6 DEF Sound
<1>9. StartedPrompts(r) \in [Prompts -> PromptTask]
  BY <1>3, StartedPromptsFacts DEF ShapeInv
<1>10. prompt' \in [Prompts -> PromptTask]
  BY <1>4, <1>5, <1>9
<1>11. \A q \in Prompts : prompt'[q] = IF q = Head(actor[a].pending) THEN done(q)
                                       ELSE StartedPrompts(r)[q]
  BY <1>4
<1>12. ShapeInv'
  BY <1>7, <1>8, <1>10 DEF ShapeInv, TypeOK, ActorShape, TurnEnds
<1>13. \A q \in Prompts : q = Head(actor[a].pending) =>
          prompt'[q].pc = "done" /\ prompt'[q].reply = prompt[q].reply /\ SameTask(q)
  BY <1>5, <1>11 DEF SameTask
<1> QED
  BY <1>1, <1>3, <1>6, <1>7, <1>11, <1>12, <1>13 DEF r

LEMMA TakePlanFacts ==
  ASSUME ShapeInv, NEW a \in Actors, TakePlan(a)
  PROVE  /\ ShapeInv' /\ Len(actor[a].cmds) > 0
         /\ actor'[a].up = actor[a].up /\ actor'[a].def = actor[a].def
         /\ actor'[a].cmds = Tail(actor[a].cmds) /\ actor'[a].work = actor[a].work
         /\ actor'[a].pending = actor[a].pending
         /\ \A b \in Actors \ {a} : actor'[b] = actor[b]
<1> DEFINE r == [Taken(a) EXCEPT !.parked = TRUE]
<1>1. /\ Taken(a) \in Actor /\ Sound(Taken(a)) /\ Len(actor[a].cmds) > 0
      /\ Taken(a).up = actor[a].up /\ Taken(a).def = actor[a].def
      /\ Taken(a).cmds = Tail(actor[a].cmds) /\ Taken(a).work = None /\ actor[a].work = None
      /\ Taken(a).pending = actor[a].pending /\ Taken(a).running = actor[a].running
  BY TakenFacts DEF TakePlan, Takes
<1>2. /\ r \in Actor /\ r.up = actor[a].up /\ r.def = actor[a].def
      /\ r.cmds = Tail(actor[a].cmds) /\ r.work = actor[a].work
      /\ r.pending = actor[a].pending /\ r.running = Taken(a).running
      /\ r.cmds = Taken(a).cmds /\ r.pending = Taken(a).pending /\ r.work = Taken(a).work
  BY <1>1 DEF Actor
<1>3. actor' = [actor EXCEPT ![a] = r]
  BY DEF TakePlan
<1> HIDE DEF r
<1>4. Sound(r)
  BY <1>1, <1>2 DEF Sound
<1>5. /\ actor' \in [Actors -> Actor] /\ actor'[a] = r
      /\ \A b \in Actors \ {a} : actor'[b] = actor[b]
  BY <1>2, <1>3, ActorUpdate DEF ShapeInv
<1>6. ShapeInv'
  BY <1>4, <1>5 DEF ShapeInv, TypeOK, ActorShape, TakePlan
<1> QED
  BY <1>1, <1>2, <1>5, <1>6

LEMMA PlanResumesFacts ==
  ASSUME ShapeInv, NEW a \in Actors, PlanResumes(a)
  PROVE  LET r == [actor[a] EXCEPT !.parked = FALSE, !.pending = Append(@, Plan)]
         IN /\ ShapeInv'
            /\ actor[a].up
            /\ r \in Actor /\ r.def = actor[a].def /\ r.running = actor[a].running
            /\ r.pending = Append(actor[a].pending, Plan)
            /\ prompt' = StartedPrompts(r)
            /\ actor'[a].up = actor[a].up /\ actor'[a].def = actor[a].def
            /\ actor'[a].cmds = actor[a].cmds /\ actor'[a].work = actor[a].work
            /\ actor'[a].pending = Append(actor[a].pending, Plan)
            /\ \A b \in Actors \ {a} : actor'[b] = actor[b]
<1> DEFINE r == [actor[a] EXCEPT !.parked = FALSE, !.pending = Append(@, Plan)]
<1>1. /\ actor[a] \in Actor /\ actor[a].pending \in Seq(Prompts \cup {Plan}) /\ Sound(actor[a])
      /\ actor[a].up
  BY ActorType DEF PlanResumes, ShapeInv, ActorShape
<1>2. Plan \in Prompts \cup {Plan}
  OBVIOUS
<1>3. /\ Append(actor[a].pending, Plan) \in Seq(Prompts \cup {Plan})
      /\ Append(actor[a].pending, Plan) # <<>>
      /\ Head(Append(actor[a].pending, Plan)) =
           IF actor[a].pending = <<>> THEN Plan ELSE Head(actor[a].pending)
  <2> DEFINE S == Prompts \cup {Plan}
  <2>1. actor[a].pending \in Seq(S) /\ Plan \in S
    BY <1>1, <1>2
  <2> HIDE DEF S
  <2>2. /\ Append(actor[a].pending, Plan) \in Seq(S)
        /\ Append(actor[a].pending, Plan) # <<>>
        /\ Head(Append(actor[a].pending, Plan)) =
             IF actor[a].pending = <<>> THEN Plan ELSE Head(actor[a].pending)
    BY <2>1, Appended
  <2> QED
    BY <2>2 DEF S
<1>4. /\ r \in Actor /\ r.up = actor[a].up /\ r.def = actor[a].def /\ r.cmds = actor[a].cmds
      /\ r.work = actor[a].work /\ r.running = actor[a].running
      /\ r.pending = Append(actor[a].pending, Plan)
  BY <1>1, <1>3 DEF Actor
<1>5. actor' = [actor EXCEPT ![a] = Started(r)] /\ prompt' = StartedPrompts(r)
  BY DEF PlanResumes, Become
<1> HIDE DEF r
<1>6. /\ Started(r) \in Actor /\ Started(r).running = (r.running \/ r.pending # <<>>)
      /\ Started(r).up = r.up /\ Started(r).def = r.def /\ Started(r).cmds = r.cmds
      /\ Started(r).work = r.work /\ Started(r).pending = r.pending
  BY <1>4, StartedFacts
<1>7. /\ actor' \in [Actors -> Actor] /\ actor'[a] = Started(r)
      /\ \A b \in Actors \ {a} : actor'[b] = actor[b]
  BY <1>5, <1>6, ActorUpdate DEF ShapeInv
<1>8. Sound(Started(r))
  BY <1>1, <1>3, <1>4, <1>6 DEF Sound
<1>9. prompt' \in [Prompts -> PromptTask]
  BY <1>4, <1>5, StartedPromptsFacts DEF ShapeInv
<1>10. ShapeInv'
  BY <1>7, <1>8, <1>9 DEF ShapeInv, TypeOK, ActorShape, PlanResumes
<1> QED
  BY <1>1, <1>4, <1>5, <1>6, <1>7, <1>10 DEF r

(* A prompt that is refused, or sent on, keeps the rest of its task.           *)
LEMMA RefusedFacts ==
  ASSUME TypeOK, NEW p \in Prompts, Refused(p)
  PROVE  /\ prompt' \in [Prompts -> PromptTask]
         /\ prompt'[p].pc = "refused" /\ prompt'[p].reply = None /\ SameTask(p)
         /\ \A q \in Prompts \ {p} : prompt'[q] = prompt[q]
<1>1. prompt' = [prompt EXCEPT ![p] = [prompt[p] EXCEPT !.pc = "refused", !.reply = None]]
  BY DEF Refused, TypeOK
<1> QED
  BY <1>1, TaskFacts

LEMMA ArrivesFacts ==
  ASSUME ShapeInv, NEW p \in Prompts, Arrives(p)
  PROVE  /\ ShapeInv'
         /\ handle \in Actors /\ prompt[p].pc = "idle"
         /\ prompt'[p].pc = IF applied = store THEN "dispatch" ELSE "asked"
         /\ prompt'[p].at = handle /\ prompt'[p].read = store /\ prompt'[p].reply = None
         /\ prompt'[p].ran = None /\ prompt'[p].since = {store}
         /\ prompt'[p].crowded <=> Crowd(p) # {}
         /\ \A q \in Prompts \ {p} :
               /\ prompt'[q].pc = prompt[q].pc /\ prompt'[q].reply = prompt[q].reply
               /\ prompt'[q].at = prompt[q].at /\ prompt'[q].read = prompt[q].read
               /\ prompt'[q].ran = prompt[q].ran /\ prompt'[q].since = prompt[q].since
               /\ prompt'[q].crowded <=> (prompt[q].crowded \/ q \in Crowd(p))
         /\ \A b \in Actors \ {handle} : actor'[b] = actor[b]
         /\ actor'[handle].up = actor[handle].up /\ actor'[handle].def = actor[handle].def
         /\ actor'[handle].work = actor[handle].work /\ actor'[handle].pending = actor[handle].pending
         /\ \/ applied = store /\ actor' = actor
            \/ /\ applied # store
               /\ actor'[handle].cmds = Append(actor[handle].cmds, [k |-> "busy", p |-> p])
<1> DEFINE pc == IF applied = store THEN "dispatch" ELSE "asked"
           new == [NewPrompt EXCEPT !.pc = pc, !.at = handle, !.read = store,
                                    !.since = {store}, !.crowded = Crowd(p) # {}]
           met(q) == [prompt[q] EXCEPT !.crowded = TRUE]
<1>1. handle \in Actors /\ store \in Definitions /\ prompt[p].pc = "idle" /\ TypeOK
  BY DEF Arrives, ShapeInv, TypeOK
<1>2. /\ new \in PromptTask /\ new.pc = pc /\ new.at = handle /\ new.read = store
      /\ new.reply = None /\ new.ran = None /\ new.since = {store}
      /\ new.crowded = (Crowd(p) # {})
  BY <1>1 DEF NewPrompt, PromptTask, Preparing
<1>3. ASSUME NEW q \in Prompts
      PROVE  /\ met(q) \in PromptTask
             /\ met(q).pc = prompt[q].pc /\ met(q).reply = prompt[q].reply
             /\ met(q).at = prompt[q].at /\ met(q).read = prompt[q].read
             /\ met(q).ran = prompt[q].ran /\ met(q).since = prompt[q].since
             /\ met(q).crowded = TRUE
  BY <1>1, PromptType DEF PromptTask
<1>4. prompt' = [q \in Prompts |-> IF q = p THEN new ELSE IF q \in Crowd(p) THEN met(q) ELSE prompt[q]]
  BY DEF Arrives, UpToDate
<1> HIDE DEF new, met
<1>5. prompt' \in [Prompts -> PromptTask] /\ prompt'[p] = new
  BY <1>1, <1>2, <1>3, <1>4 DEF TypeOK
<1>6. ASSUME NEW q \in Prompts \ {p}
      PROVE  /\ prompt'[q].pc = prompt[q].pc /\ prompt'[q].reply = prompt[q].reply
             /\ prompt'[q].at = prompt[q].at /\ prompt'[q].read = prompt[q].read
             /\ prompt'[q].ran = prompt[q].ran /\ prompt'[q].since = prompt[q].since
             /\ prompt'[q].crowded <=> (prompt[q].crowded \/ q \in Crowd(p))
  <2>1. CASE q \in Crowd(p)
    BY <1>3, <1>4, <2>1
  <2>2. CASE q \notin Crowd(p)
    BY <1>4, <2>2
  <2> QED
    BY <2>1, <2>2
<1>7. CASE applied = store
  <2>1. actor' = actor
    BY <1>7 DEF Arrives, UpToDate
  <2>2. ShapeInv'
    BY <1>5, <2>1 DEF ShapeInv, TypeOK, ActorShape, Arrives
  <2> QED
    BY <1>1, <1>2, <1>5, <1>6, <1>7, <2>1, <2>2
<1>8. CASE applied # store
  <2>1. Send(handle, "busy", p)
    BY <1>8 DEF Arrives, UpToDate
  <2>2. /\ actor' \in [Actors -> Actor] /\ Sound(actor'[handle])
        /\ \A b \in Actors \ {handle} : actor'[b] = actor[b]
        /\ actor'[handle].up = actor[handle].up /\ actor'[handle].def = actor[handle].def
        /\ actor'[handle].work = actor[handle].work /\ actor'[handle].pending = actor[handle].pending
        /\ actor'[handle].cmds = Append(actor[handle].cmds, [k |-> "busy", p |-> p])
    BY <1>1, <2>1, SendFacts
  <2>3. ShapeInv'
    BY <1>5, <2>2 DEF ShapeInv, TypeOK, ActorShape, Arrives
  <2> QED
    BY <1>1, <1>2, <1>5, <1>6, <1>8, <2>2, <2>3
<1> QED
  BY <1>7, <1>8

LEMMA BusyAnsweredFacts ==
  ASSUME ShapeInv, NEW p \in Prompts, prompt[p].at \in Actors, BusyAnswered(p)
  PROVE  LET a == prompt[p].at
         IN /\ ShapeInv'
            /\ prompt[p].pc = "asked" /\ prompt[p].reply # None
            /\ prompt'[p].reply = None /\ SameTask(p)
            /\ \A q \in Prompts \ {p} : prompt'[q] = prompt[q]
            /\ \A b \in Actors \ {a} : actor'[b] = actor[b]
            /\ actor'[a].up = actor[a].up /\ actor'[a].def = actor[a].def
            /\ actor'[a].work = actor[a].work /\ actor'[a].pending = actor[a].pending
            /\ \/ prompt[p].reply # "free" /\ prompt'[p].pc = "refused" /\ actor' = actor
               \/ /\ prompt[p].reply = "free" /\ prompt'[p].pc = "rebuild"
                  /\ actor'[a].cmds = Append(actor[a].cmds, [k |-> "rebuild", p |-> p])
<1> DEFINE a == prompt[p].at
<1>1. TypeOK /\ prompt[p].pc = "asked" /\ prompt[p].reply # None
  BY DEF ShapeInv, BusyAnswered
<1>2. CASE prompt[p].reply = "free"
  <2>1. /\ prompt' = [prompt EXCEPT ![p] = [prompt[p] EXCEPT !.pc = "rebuild", !.reply = None]]
        /\ Send(a, "rebuild", p)
    BY <1>1, <1>2 DEF BusyAnswered, TypeOK
  <2>2. /\ "rebuild" \in {"idle", "queued", "running", "done", "refused"} \cup Preparing
        /\ None \in {None, "busy", "free", "ok", "refused"}
    BY DEF Preparing
  <2>3. /\ prompt' \in [Prompts -> PromptTask]
        /\ prompt'[p].pc = "rebuild" /\ prompt'[p].reply = None /\ SameTask(p)
        /\ \A q \in Prompts \ {p} : prompt'[q] = prompt[q]
    BY <1>1, <2>1, <2>2, TaskFacts
  <2>4. /\ actor' \in [Actors -> Actor] /\ Sound(actor'[a])
        /\ \A b \in Actors \ {a} : actor'[b] = actor[b]
        /\ actor'[a].up = actor[a].up /\ actor'[a].def = actor[a].def
        /\ actor'[a].work = actor[a].work /\ actor'[a].pending = actor[a].pending
        /\ actor'[a].cmds = Append(actor[a].cmds, [k |-> "rebuild", p |-> p])
    BY <2>1, SendFacts
  <2>5. ShapeInv'
    BY <2>3, <2>4 DEF ShapeInv, TypeOK, ActorShape, BusyAnswered
  <2> QED
    BY <1>1, <1>2, <2>3, <2>4, <2>5
<1>3. CASE prompt[p].reply # "free"
  <2>1. Refused(p) /\ actor' = actor
    BY <1>3 DEF BusyAnswered
  <2>2. /\ prompt' \in [Prompts -> PromptTask]
        /\ prompt'[p].pc = "refused" /\ prompt'[p].reply = None /\ SameTask(p)
        /\ \A q \in Prompts \ {p} : prompt'[q] = prompt[q]
    BY <1>1, <2>1, RefusedFacts
  <2>3. ShapeInv'
    BY <2>1, <2>2 DEF ShapeInv, TypeOK, ActorShape, BusyAnswered
  <2> QED
    BY <1>1, <1>3, <2>1, <2>2, <2>3
<1> QED
  BY <1>2, <1>3

LEMMA RebuildAnsweredFacts ==
  ASSUME ShapeInv, NEW p \in Prompts, RebuildAnswered(p)
  PROVE  /\ ShapeInv'
         /\ replies # <<>> /\ p = Head(replies) /\ replies' = Tail(replies)
         /\ prompt'[p].reply = None /\ SameTask(p)
         /\ \A q \in Prompts \ {p} : prompt'[q] = prompt[q]
         /\ \/ prompt[p].reply = "ok" /\ prompt'[p].pc = "dispatch" /\ applied' = prompt[p].read
            \/ prompt[p].reply # "ok" /\ prompt'[p].pc = "refused" /\ applied' = applied
<1>0. TypeOK
  BY DEF ShapeInv
<1>1. TypeOK /\ replies # <<>> /\ p = Head(replies) /\ replies' = Tail(replies)
  BY DEF ShapeInv, RebuildAnswered
<1>2. replies' \in Seq(Prompts) /\ applied' \in Definitions \cup {None}
  BY <1>1, PromptType DEF RebuildAnswered, TypeOK
<1>3. CASE prompt[p].reply = "ok"
  <2>1. /\ prompt' = [prompt EXCEPT ![p] = [prompt[p] EXCEPT !.pc = "dispatch", !.reply = None]]
        /\ applied' = prompt[p].read
    BY <1>1, <1>3 DEF RebuildAnswered, TypeOK, Marks
  <2>2. /\ "dispatch" \in {"idle", "queued", "running", "done", "refused"} \cup Preparing
        /\ None \in {None, "busy", "free", "ok", "refused"}
    BY DEF Preparing
  <2>3. /\ prompt' \in [Prompts -> PromptTask]
        /\ prompt'[p].pc = "dispatch" /\ prompt'[p].reply = None /\ SameTask(p)
        /\ \A q \in Prompts \ {p} : prompt'[q] = prompt[q]
    BY <1>0, <2>1, <2>2, TaskFacts
  <2>4. ShapeInv'
    BY <1>2, <2>3 DEF ShapeInv, TypeOK, ActorShape, RebuildAnswered
  <2> QED
    BY <1>1, <1>3, <2>1, <2>3, <2>4
<1>4. CASE prompt[p].reply # "ok"
  <2>1. Refused(p) /\ applied' = applied
    BY <1>4 DEF RebuildAnswered, Marks
  <2>2. /\ prompt' \in [Prompts -> PromptTask]
        /\ prompt'[p].pc = "refused" /\ prompt'[p].reply = None /\ SameTask(p)
        /\ \A q \in Prompts \ {p} : prompt'[q] = prompt[q]
    BY <1>0, <2>1, RefusedFacts
  <2>3. ShapeInv'
    BY <1>2, <2>2 DEF ShapeInv, TypeOK, ActorShape, RebuildAnswered
  <2> QED
    BY <1>1, <1>4, <2>1, <2>2, <2>3
<1> QED
  BY <1>3, <1>4

LEMMA DispatchesFacts ==
  ASSUME ShapeInv, NEW p \in Prompts, prompt[p].at \in Actors, Dispatches(p)
  PROVE  LET a == prompt[p].at
         IN /\ ShapeInv'
            /\ prompt[p].pc = "dispatch"
            /\ prompt'[p].pc = "sent" /\ prompt'[p].reply = prompt[p].reply /\ SameTask(p)
            /\ \A q \in Prompts \ {p} : prompt'[q] = prompt[q]
            /\ \A b \in Actors \ {a} : actor'[b] = actor[b]
            /\ actor'[a].up = actor[a].up /\ actor'[a].def = actor[a].def
            /\ actor'[a].work = actor[a].work /\ actor'[a].pending = actor[a].pending
            /\ actor'[a].cmds = Append(actor[a].cmds, [k |-> "prompt", p |-> p])
<1> DEFINE a == prompt[p].at
<1>1. TypeOK /\ prompt[p].pc = "dispatch" /\ Send(a, "prompt", p)
  BY DEF ShapeInv, Dispatches
<1> DEFINE new == [prompt[p] EXCEPT !.pc = "sent"]
<1>2. /\ new \in PromptTask /\ new.pc = "sent" /\ new.reply = prompt[p].reply
      /\ new.at = prompt[p].at /\ new.read = prompt[p].read /\ new.ran = prompt[p].ran
      /\ new.since = prompt[p].since /\ new.crowded = prompt[p].crowded
  BY <1>1, PromptType DEF PromptTask, Preparing
<1>3. prompt' = [prompt EXCEPT ![p] = new]
  BY <1>1 DEF Dispatches, TypeOK
<1> HIDE DEF new
<1>4. /\ prompt' \in [Prompts -> PromptTask] /\ prompt'[p] = new
      /\ \A q \in Prompts \ {p} : prompt'[q] = prompt[q]
  BY <1>1, <1>2, <1>3, PromptUpdate
<1>5. /\ actor' \in [Actors -> Actor] /\ Sound(actor'[a])
      /\ \A b \in Actors \ {a} : actor'[b] = actor[b]
      /\ actor'[a].up = actor[a].up /\ actor'[a].def = actor[a].def
      /\ actor'[a].work = actor[a].work /\ actor'[a].pending = actor[a].pending
      /\ actor'[a].cmds = Append(actor[a].cmds, [k |-> "prompt", p |-> p])
  BY <1>1, SendFacts
<1>6. ShapeInv'
  BY <1>4, <1>5 DEF ShapeInv, TypeOK, ActorShape, Dispatches
<1> QED
  BY <1>1, <1>2, <1>4, <1>5, <1>6 DEF SameTask

LEMMA DispatchFailsFacts ==
  ASSUME ShapeInv, NEW p \in Prompts, DispatchFails(p)
  PROVE  /\ ShapeInv'
         /\ prompt[p].pc = "dispatch" /\ prompt'[p].pc = "refused" /\ prompt'[p].reply = None
         /\ SameTask(p) /\ \A q \in Prompts \ {p} : prompt'[q] = prompt[q]
<1>1. /\ prompt' \in [Prompts -> PromptTask]
      /\ prompt'[p].pc = "refused" /\ prompt'[p].reply = None /\ SameTask(p)
      /\ \A q \in Prompts \ {p} : prompt'[q] = prompt[q]
  BY RefusedFacts DEF ShapeInv, DispatchFails
<1>2. ShapeInv'
  BY <1>1 DEF ShapeInv, TypeOK, ActorShape, DispatchFails
<1> QED
  BY <1>1, <1>2 DEF DispatchFails

LEMMA OpeningFacts ==
  ASSUME TypeOK, NEW t \in Activations, NEW r \in Opening, opening' = [opening EXCEPT ![t] = r]
  PROVE  /\ opening' \in [Activations -> Opening] /\ opening'[t] = r
         /\ \A u \in Activations \ {t} : opening'[u] = opening[u]
BY DEF TypeOK

LEMMA ActivateBeginsFacts ==
  ASSUME ShapeInv, NEW t \in Activations, ActivateBegins(t)
  PROVE  ShapeInv'
<1> DEFINE r == [pc |-> "opening", read |-> store, resumed |-> saved # None]
<1>1. r \in Opening
  BY DEF Opening, ShapeInv, TypeOK
<1>2. opening' = [opening EXCEPT ![t] = r]
  BY DEF ActivateBegins
<1> HIDE DEF r
<1>3. opening' \in [Activations -> Opening]
  BY <1>1, <1>2, OpeningFacts DEF ShapeInv
<1> QED
  BY <1>3 DEF ShapeInv, TypeOK, ActorShape, ActivateBegins

(* An actor that has just been started.                                        *)
LEMMA OpenedFacts ==
  ASSUME TypeOK, NEW a \in Actors, NEW d \in Definitions \cup {None},
         actor' = [actor EXCEPT ![a] = [NoActor EXCEPT !.up = TRUE, !.def = d]]
  PROVE  /\ actor' \in [Actors -> Actor] /\ Sound(actor'[a])
         /\ \A b \in Actors \ {a} : actor'[b] = actor[b]
         /\ actor'[a].up /\ actor'[a].def = d /\ actor'[a].cmds = <<>>
         /\ actor'[a].work = None /\ actor'[a].pending = <<>>
<1> DEFINE r == [NoActor EXCEPT !.up = TRUE, !.def = d]
<1>1. <<>> \in Seq(Commands) /\ <<>> \in Seq(Prompts \cup {Plan}) /\ Len(<<>>) = 0
  OBVIOUS
<1>2. /\ r \in Actor /\ r.up = TRUE /\ r.def = d /\ r.cmds = <<>>
      /\ r.work = None /\ r.pending = <<>> /\ r.running = FALSE
  BY <1>1 DEF NoActor, Actor, Commands
<1> HIDE DEF r
<1>3. Sound(r)
  BY <1>1, <1>2 DEF Sound
<1>4. /\ actor' \in [Actors -> Actor] /\ actor'[a] = r
      /\ \A b \in Actors \ {a} : actor'[b] = actor[b]
  BY <1>2, ActorUpdate DEF r
<1> QED
  BY <1>2, <1>3, <1>4

LEMMA NewOpensFacts ==
  ASSUME ShapeInv, NEW t \in Activations, NEW a \in Actors, NewOpens(t, a)
  PROVE  /\ ShapeInv' /\ opening[t].pc = "opening"
         /\ \A b \in Actors \ {a} : actor'[b] = actor[b]
         /\ actor'[a].up /\ actor'[a].def = opening[t].read /\ actor'[a].cmds = <<>>
         /\ actor'[a].work = None /\ actor'[a].pending = <<>>
         /\ opening'[t].pc = "idle" /\ \A u \in Activations \ {t} : opening'[u] = opening[u]
<1>1. opening[t].read \in Definitions \cup {None}
  BY DEF ShapeInv, TypeOK, Opening
<1>2. /\ actor' \in [Actors -> Actor] /\ Sound(actor'[a])
      /\ \A b \in Actors \ {a} : actor'[b] = actor[b]
      /\ actor'[a].up /\ actor'[a].def = opening[t].read /\ actor'[a].cmds = <<>>
      /\ actor'[a].work = None /\ actor'[a].pending = <<>>
  BY <1>1, OpenedFacts DEF NewOpens, ShapeInv
<1>3. NotOpening \in Opening /\ NotOpening.pc = "idle"
  BY DEF NotOpening, Opening
<1>4. /\ opening' \in [Activations -> Opening] /\ opening'[t] = NotOpening
      /\ \A u \in Activations \ {t} : opening'[u] = opening[u]
  BY <1>3, OpeningFacts DEF NewOpens, ShapeInv
<1>5. ShapeInv'
  BY <1>1, <1>2, <1>4 DEF ShapeInv, TypeOK, ActorShape, NewOpens
<1> QED
  BY <1>2, <1>3, <1>4, <1>5 DEF NewOpens

LEMMA LoadOpensFacts ==
  ASSUME ShapeInv, NEW t \in Activations, NEW a \in Actors, LoadOpens(t, a)
  PROVE  /\ ShapeInv' /\ opening[t].pc = "opening"
         /\ \A b \in Actors \ {a} : actor'[b] = actor[b]
         /\ actor'[a].up /\ actor'[a].def = saved /\ actor'[a].cmds = <<>>
         /\ actor'[a].work = None /\ actor'[a].pending = <<>>
         /\ opening'[t].pc = "registered"
         /\ \A u \in Activations \ {t} : opening'[u] = opening[u]
<1>1. saved \in Definitions \cup {None}
  BY DEF ShapeInv, TypeOK
<1>2. /\ actor' \in [Actors -> Actor] /\ Sound(actor'[a])
      /\ \A b \in Actors \ {a} : actor'[b] = actor[b]
      /\ actor'[a].up /\ actor'[a].def = saved /\ actor'[a].cmds = <<>>
      /\ actor'[a].work = None /\ actor'[a].pending = <<>>
  BY <1>1, OpenedFacts DEF LoadOpens, ShapeInv
<1> DEFINE r == [opening[t] EXCEPT !.pc = "registered"]
<1>3. r \in Opening /\ r.pc = "registered"
  BY DEF ShapeInv, TypeOK, Opening
<1>4. opening' = [opening EXCEPT ![t] = r]
  BY DEF LoadOpens, ShapeInv, TypeOK
<1> HIDE DEF r
<1>5. /\ opening' \in [Activations -> Opening] /\ opening'[t] = r
      /\ \A u \in Activations \ {t} : opening'[u] = opening[u]
  BY <1>3, <1>4, OpeningFacts DEF ShapeInv
<1>6. ShapeInv'
  BY <1>2, <1>5 DEF ShapeInv, TypeOK, ActorShape, LoadOpens
<1> QED
  BY <1>2, <1>3, <1>5, <1>6 DEF LoadOpens

(* What the end of a load sends, it sends to the registered actor if any.      *)
LEMMA LoadEndsFacts ==
  ASSUME ShapeInv, NEW t \in Activations, NEW pending \in BOOLEAN, LoadEnds(t, pending)
  PROVE  /\ ShapeInv' /\ opening[t].pc = "registered" /\ applied' = None
         /\ opening'[t].pc = "idle" /\ \A u \in Activations \ {t} : opening'[u] = opening[u]
         /\ \/ actor' = actor
            \/ /\ handle \in Actors
               /\ \A b \in Actors \ {handle} : actor'[b] = actor[b]
               /\ actor'[handle].up = actor[handle].up /\ actor'[handle].def = actor[handle].def
               /\ actor'[handle].work = actor[handle].work
               /\ actor'[handle].pending = actor[handle].pending
               /\ actor'[handle].cmds = Append(actor[handle].cmds, [k |-> "plan", p |-> None])
<1>1. NotOpening \in Opening /\ NotOpening.pc = "idle"
  BY DEF NotOpening, Opening
<1>2. /\ opening' \in [Activations -> Opening] /\ opening'[t] = NotOpening
      /\ \A u \in Activations \ {t} : opening'[u] = opening[u]
  BY <1>1, OpeningFacts DEF LoadEnds, ShapeInv
<1>3. CASE handle \in Actors /\ pending
  <2>1. /\ actor' \in [Actors -> Actor] /\ Sound(actor'[handle])
        /\ \A b \in Actors \ {handle} : actor'[b] = actor[b]
        /\ actor'[handle].up = actor[handle].up /\ actor'[handle].def = actor[handle].def
        /\ actor'[handle].work = actor[handle].work
        /\ actor'[handle].pending = actor[handle].pending
        /\ actor'[handle].cmds = Append(actor[handle].cmds, [k |-> "plan", p |-> None])
    BY <1>3, SendFacts DEF LoadEnds
  <2>2. ShapeInv'
    BY <1>2, <2>1 DEF ShapeInv, TypeOK, ActorShape, LoadEnds, LoadRecords
  <2> QED
    BY <1>1, <1>2, <1>3, <2>1, <2>2 DEF LoadEnds, LoadRecords
<1>4. CASE handle \notin Actors \/ ~pending
  <2>1. actor' = actor
    BY <1>4 DEF LoadEnds, Send, ShapeInv, TypeOK
  <2>2. ShapeInv'
    BY <1>2, <2>1 DEF ShapeInv, TypeOK, ActorShape, LoadEnds, LoadRecords
  <2> QED
    BY <1>1, <1>2, <2>1, <2>2 DEF LoadEnds, LoadRecords
<1> QED
  BY <1>3, <1>4

LEMMA OpenFailsFacts ==
  ASSUME ShapeInv, NEW t \in Activations, OpenFails(t)
  PROVE  /\ ShapeInv' /\ opening'[t].pc = "idle"
         /\ \A u \in Activations \ {t} : opening'[u] = opening[u]
<1>1. NotOpening \in Opening /\ NotOpening.pc = "idle"
  BY DEF NotOpening, Opening
<1>2. /\ opening' \in [Activations -> Opening] /\ opening'[t] = NotOpening
      /\ \A u \in Activations \ {t} : opening'[u] = opening[u]
  BY <1>1, OpeningFacts DEF OpenFails, ShapeInv
<1> QED
  BY <1>1, <1>2 DEF ShapeInv, TypeOK, ActorShape, OpenFails

LEMMA SuspendFacts ==
  ASSUME ShapeInv, Suspend
  PROVE  ShapeInv'
BY DEF ShapeInv, TypeOK, ActorShape, Suspend

LEMMA HostRestartsFacts ==
  ASSUME ShapeInv, HostRestarts
  PROVE  /\ ShapeInv'
         /\ \A a \in Actors : /\ actor'[a].up = FALSE /\ actor'[a].cmds = <<>>
                              /\ actor'[a].work = None /\ actor'[a].pending = <<>>
                              /\ actor'[a].def = actor[a].def
         /\ \A t \in Activations : opening'[t].pc = "idle"
         /\ \A p \in Prompts :
               /\ prompt'[p].pc = IF prompt[p].pc \in {"idle", "done", "refused"}
                                  THEN prompt[p].pc ELSE "refused"
               /\ SameTask(p)
<1> DEFINE down(a) == [NoActor EXCEPT !.def = actor[a].def]
           lost(p) == [prompt[p] EXCEPT !.pc = "refused", !.reply = None]
<1>1. <<>> \in Seq(Commands) /\ <<>> \in Seq(Prompts \cup {Plan}) /\ Len(<<>>) = 0
  OBVIOUS
<1>2. ASSUME NEW a \in Actors
      PROVE  /\ down(a) \in Actor /\ down(a).up = FALSE /\ down(a).def = actor[a].def
             /\ down(a).cmds = <<>> /\ down(a).work = None /\ down(a).pending = <<>>
             /\ down(a).running = FALSE
  BY <1>1, ActorType DEF NoActor, Actor, Commands, ShapeInv
<1>3. /\ NoActor \in Actor /\ NoActor.up = FALSE /\ NoActor.def = None
      /\ NoActor.cmds = <<>> /\ NoActor.work = None /\ NoActor.pending = <<>>
      /\ NoActor.running = FALSE
  BY <1>1 DEF NoActor, Actor, Commands
<1>4. ASSUME NEW p \in Prompts
      PROVE  /\ lost(p) \in PromptTask /\ lost(p).pc = "refused"
             /\ lost(p).at = prompt[p].at /\ lost(p).read = prompt[p].read
             /\ lost(p).ran = prompt[p].ran /\ lost(p).since = prompt[p].since
             /\ lost(p).crowded = prompt[p].crowded /\ prompt[p] \in PromptTask
  BY PromptType DEF PromptTask, ShapeInv
<1>5. /\ actor' = [a \in Actors |-> IF Fresh(a) THEN NoActor ELSE down(a)]
      /\ prompt' = [p \in Prompts |-> IF prompt[p].pc \in {"idle", "done", "refused"}
                                      THEN prompt[p] ELSE lost(p)]
      /\ opening' = [t \in Activations |-> NotOpening]
  BY DEF HostRestarts
<1> HIDE DEF down, lost
<1>6. ASSUME NEW a \in Actors
      PROVE  /\ actor'[a] \in Actor /\ Sound(actor'[a])
             /\ actor'[a].up = FALSE /\ actor'[a].cmds = <<>>
             /\ actor'[a].work = None /\ actor'[a].pending = <<>>
             /\ actor'[a].def = actor[a].def
  <2>1. CASE Fresh(a)
    BY <1>1, <1>3, <1>5, <2>1 DEF Sound, Fresh
  <2>2. CASE ~Fresh(a)
    <3>1. actor'[a] = down(a)
      BY <1>5, <2>2
    <3>2. /\ down(a) \in Actor /\ down(a).up = FALSE /\ down(a).def = actor[a].def
          /\ down(a).cmds = <<>> /\ down(a).work = None /\ down(a).pending = <<>>
          /\ ~down(a).running
      BY <1>2
    <3>3. Sound(down(a))
      BY <1>1, <3>2 DEF Sound
    <3> QED
      BY <3>1, <3>2, <3>3
  <2> QED
    BY <2>1, <2>2
<1>7. ASSUME NEW p \in Prompts
      PROVE  /\ prompt'[p] \in PromptTask
             /\ prompt'[p].pc = IF prompt[p].pc \in {"idle", "done", "refused"}
                                THEN prompt[p].pc ELSE "refused"
             /\ SameTask(p)
  BY <1>4, <1>5 DEF SameTask
<1>8. NotOpening \in Opening /\ NotOpening.pc = "idle"
  BY DEF NotOpening, Opening
<1>9. actor' \in [Actors -> Actor] /\ prompt' \in [Prompts -> PromptTask]
  BY <1>5, <1>6, <1>7
<1>10. opening' \in [Activations -> Opening] /\ \A t \in Activations : opening'[t].pc = "idle"
  <2>1. \A t \in Activations : opening'[t] = NotOpening
    BY <1>5
  <2> QED
    BY <1>5, <1>8, <2>1
<1>11. restarts' \in 0 .. Restarts /\ replies' \in Seq(Prompts)
  <2>1. restarts' \in 0 .. Restarts
    <3>1. restarts < Restarts /\ restarts' = restarts + 1
      BY DEF HostRestarts
    <3>2. restarts \in 0 .. Restarts
      BY DEF ShapeInv, TypeOK
    <3> QED
      BY <3>1, <3>2, DefinitionsAssumption
  <2>2. replies' = <<>>
    BY DEF HostRestarts
  <2> QED
    BY <2>1, <2>2
<1>12. ShapeInv'
  BY <1>6, <1>9, <1>10, <1>11 DEF ShapeInv, TypeOK, ActorShape, HostRestarts
<1> QED
  BY <1>6, <1>7, <1>10, <1>12

-------------------------------------------------------------------------------
(* Types, and no prompt's turn is disturbed: whatever activations do.          *)

LEMMA ShapeInit ==
  ASSUME Init
  PROVE  ShapeInv
<1>1. <<>> \in Seq(Commands) /\ <<>> \in Seq(Prompts \cup {Plan}) /\ Len(<<>>) = 0
  OBVIOUS
<1>2. /\ NoActor \in Actor /\ NoActor.cmds = <<>> /\ NoActor.pending = <<>>
      /\ NoActor.running = FALSE
  BY <1>1 DEF NoActor, Actor, Commands
<1>3. Sound(NoActor)
  BY <1>1, <1>2 DEF Sound
<1>4. NewPrompt \in PromptTask /\ NotOpening \in Opening
  BY DEF NewPrompt, PromptTask, NotOpening, Opening
<1>5. store \in Definitions /\ restarts \in 0 .. Restarts
  BY DefinitionsAssumption DEF Init, Definitions
<1>6. TypeOK
  BY <1>2, <1>4, <1>5 DEF Init, TypeOK
<1>7. ActorShape
  BY <1>3 DEF Init, ActorShape
<1> QED
  BY <1>6, <1>7 DEF ShapeInv

(* A prompt that was sent to no actor sends nothing.                           *)
LEMMA NowhereKeeps ==
  ASSUME ShapeInv, NEW p \in Prompts, prompt[p].at \notin Actors, BusyAnswered(p) \/ Dispatches(p)
  PROVE  ShapeInv' /\ actor' = actor
<1>1. actor' = actor
  BY DEF BusyAnswered, Dispatches, Send, ShapeInv, TypeOK
<1>2. prompt' \in [Prompts -> PromptTask]
  <2>1. PICK pc \in {"refused", "rebuild", "sent"}, reply \in {None, prompt[p].reply} :
           prompt' = [prompt EXCEPT ![p] = [prompt[p] EXCEPT !.pc = pc, !.reply = reply]]
    <3>1. TypeOK
      BY DEF ShapeInv
    <3>2. prompt[p] = [prompt[p] EXCEPT !.reply = prompt[p].reply]
      BY <3>1, PromptType DEF PromptTask
    <3>3. CASE BusyAnswered(p)
      BY <3>1, <3>3 DEF BusyAnswered, Refused, TypeOK
    <3>4. CASE Dispatches(p)
      <4>1. prompt' = [prompt EXCEPT ![p] = [prompt[p] EXCEPT !.pc = "sent"]]
        BY <3>1, <3>4 DEF Dispatches, TypeOK
      <4>2. [prompt[p] EXCEPT !.pc = "sent"] = [prompt[p] EXCEPT !.pc = "sent", !.reply = prompt[p].reply]
        BY <3>1, PromptType DEF PromptTask
      <4> QED
        BY <4>1, <4>2
    <3> QED
      BY <3>3, <3>4
  <2>2. /\ pc \in {"idle", "queued", "running", "done", "refused"} \cup Preparing
        /\ reply \in {None, "busy", "free", "ok", "refused"}
    BY PromptType DEF Preparing, ShapeInv
  <2> QED
    BY <2>1, <2>2, TaskFacts DEF ShapeInv
<1> QED
  BY <1>1, <1>2 DEF ShapeInv, TypeOK, ActorShape, BusyAnswered, Dispatches

LEMMA ShapeStep ==
  ASSUME ShapeInv, [Next]_vars
  PROVE  ShapeInv'
<1>1. CASE SaveOverlay
  BY <1>1, SaveOverlayFacts
<1>2. ASSUME NEW v \in Versions, MovePackage(v) PROVE ShapeInv'
  BY <1>2, MovePackageFacts
<1>3. ASSUME NEW a \in Actors, ActorStep(a) \/ TurnEnds(a) \/ PlanResumes(a) PROVE ShapeInv'
  BY <1>3, AnswerBusyFacts, TakePromptFacts, TakeRebuildFacts, TakePlanFacts,
     RebuildEndsFacts, RebuildFailsFacts, TurnEndsFacts, PlanResumesFacts DEF ActorStep
<1>4. ASSUME NEW p \in Prompts, Arrives(p) \/ PromptStep(p) PROVE ShapeInv'
  <2>1. CASE BusyAnswered(p)
    BY <2>1, BusyAnsweredFacts, NowhereKeeps
  <2>2. CASE Dispatches(p)
    BY <2>2, DispatchesFacts, NowhereKeeps
  <2> QED
    BY <1>4, <2>1, <2>2, ArrivesFacts, RebuildAnsweredFacts, DispatchFailsFacts DEF PromptStep
<1>5. ASSUME NEW t \in Activations, ActivateBegins(t) \/ OpenFails(t) PROVE ShapeInv'
  BY <1>5, ActivateBeginsFacts, OpenFailsFacts
<1>6. ASSUME NEW t \in Activations, NEW pending \in BOOLEAN, LoadEnds(t, pending) PROVE ShapeInv'
  BY <1>6, LoadEndsFacts
<1>7. ASSUME NEW t \in Activations, NEW a \in Actors, NewOpens(t, a) \/ LoadOpens(t, a)
      PROVE  ShapeInv'
  BY <1>7, NewOpensFacts, LoadOpensFacts
<1>8. CASE Suspend
  BY <1>8, SuspendFacts
<1>9. CASE HostRestarts
  BY <1>9, HostRestartsFacts
<1>10. CASE UNCHANGED vars
  BY <1>10 DEF vars, ShapeInv, TypeOK, ActorShape
<1> QED
  BY <1>1, <1>2, <1>3, <1>4, <1>5, <1>6, <1>7, <1>8, <1>9, <1>10 DEF Next

(* Every reachable state is well typed.                                        *)
THEOREM DefinitionsTypes == Spec => []TypeOK
<1>1. Init => ShapeInv
  BY ShapeInit
<1>2. ShapeInv /\ [Next]_vars => ShapeInv'
  BY ShapeStep
<1>3. ShapeInv => TypeOK
  BY DEF ShapeInv
<1> QED
  BY <1>1, <1>2, <1>3, PTL DEF Spec

(* Only the end of a rebuild and the opening of an unused actor write a        *)
(* harness, and neither meets the turn of a prompt.                            *)
LEMMA HarnessOfTurn ==
  ASSUME ShapeInv, [Next]_vars, NEW a \in Actors,
         actor[a].running, Head(actor[a].pending) # Plan
  PROVE  actor'[a].def = actor[a].def
<1>0. /\ actor[a].work = None /\ actor \in [Actors -> Actor]
      /\ actor[a].running \in BOOLEAN
  BY ActorType DEF ShapeInv, ActorShape, Sound, TypeOK
<1>1. actor[a] # NoActor
  BY DEF NoActor
<1>2. CASE actor' = actor
  BY <1>2
<1>3. ASSUME NEW b \in Actors, ActorStep(b) \/ TurnEnds(b) \/ PlanResumes(b)
      PROVE  actor'[a].def = actor[a].def
  <2>1. CASE AnswerBusy(b)
    <3>1. Taken(b).def = actor[b].def
      BY <2>1, TakenFacts DEF AnswerBusy
    <3>2. actor'[b] = Taken(b) /\ \A c \in Actors \ {b} : actor'[c] = actor[c]
      BY <2>1, AnswerBusyFacts
    <3> QED
      BY <3>1, <3>2
  <2>2. CASE TakePrompt(b)
    BY <2>2, TakePromptFacts
  <2>3. CASE TakeRebuild(b)
    BY <2>3, TakeRebuildFacts
  <2>4. CASE TakePlan(b)
    BY <2>4, TakePlanFacts
  <2>5. CASE RebuildEnds(b)
    <3>1. b # a
      BY <1>0, <2>5 DEF RebuildEnds
    <3> QED
      BY <2>5, <3>1, RebuildEndsFacts
  <2>6. CASE RebuildFails(b)
    BY <2>6, RebuildFailsFacts
  <2>7. CASE TurnEnds(b)
    BY <2>7, TurnEndsFacts
  <2>8. CASE PlanResumes(b)
    BY <2>8, PlanResumesFacts
  <2> QED
    BY <1>3, <2>1, <2>2, <2>3, <2>4, <2>5, <2>6, <2>7, <2>8 DEF ActorStep
<1>4. ASSUME NEW p \in Prompts, Arrives(p) \/ PromptStep(p)
      PROVE  actor'[a].def = actor[a].def
  <2>1. CASE Arrives(p)
    BY <2>1, ArrivesFacts
  <2>2. CASE BusyAnswered(p)
    BY <2>2, BusyAnsweredFacts, NowhereKeeps
  <2>3. CASE Dispatches(p)
    BY <2>3, DispatchesFacts, NowhereKeeps
  <2>4. CASE RebuildAnswered(p) \/ DispatchFails(p)
    BY <2>4 DEF RebuildAnswered, DispatchFails
  <2> QED
    BY <1>4, <2>1, <2>2, <2>3, <2>4 DEF PromptStep
<1>5. ASSUME NEW t \in Activations, NEW pending \in BOOLEAN, LoadEnds(t, pending)
      PROVE  actor'[a].def = actor[a].def
  BY <1>5, LoadEndsFacts
<1>6. ASSUME NEW t \in Activations, NEW b \in Actors, NewOpens(t, b) \/ LoadOpens(t, b)
      PROVE  actor'[a].def = actor[a].def
  <2>1. b # a
    BY <1>1, <1>6 DEF NewOpens, LoadOpens, Fresh
  <2> QED
    BY <1>6, <2>1, NewOpensFacts, LoadOpensFacts
<1>7. CASE HostRestarts
  BY <1>7, HostRestartsFacts
<1>8. CASE \/ SaveOverlay \/ \E v \in Versions : MovePackage(v)
           \/ \E t \in Activations : ActivateBegins(t) \/ OpenFails(t)
           \/ Suspend \/ UNCHANGED vars
  BY <1>2, <1>8 DEF SaveOverlay, MovePackage, ActivateBegins, OpenFails, Suspend, vars
<1> QED
  BY <1>3, <1>4, <1>5, <1>6, <1>7, <1>8 DEF Next

(* The running turn of a prompt keeps its harness, whoever saves, prompts,     *)
(* activates or restarts meanwhile.                                            *)
THEOREM TurnsUndisturbed == Spec => RunningUndisturbed
<1>1. Init => ShapeInv
  BY ShapeInit
<1>2. ShapeInv /\ [Next]_vars => ShapeInv'
  BY ShapeStep
<1>3. ShapeInv /\ [Next]_vars =>
        [\A a \in Actors : actor[a].running /\ Head(actor[a].pending) # Plan
                             => actor'[a].def = actor[a].def]_vars
  BY HarnessOfTurn
<1> QED
  BY <1>1, <1>2, <1>3, PTL DEF Spec, RunningUndisturbed

-------------------------------------------------------------------------------
(* Where every prompt is, with one activation at a time.                       *)

LEMMA Members ==
  ASSUME ShapeInv
  PROVE  /\ replies \in Seq(Prompts) /\ Len(replies) \in Nat
         /\ \A i \in 1 .. Len(replies) : replies[i] \in Prompts
         /\ handle # None =>
              /\ handle \in Actors
              /\ actor[handle].cmds \in Seq(Commands) /\ Len(actor[handle].cmds) \in Nat
              /\ \A i \in 1 .. Len(actor[handle].cmds) :
                    /\ actor[handle].cmds[i].k \in {"busy", "rebuild", "prompt", "plan"}
                    /\ actor[handle].cmds[i].k # "plan" => actor[handle].cmds[i].p \in Prompts
              /\ actor[handle].pending \in Seq(Prompts \cup {Plan})
              /\ Len(actor[handle].pending) \in Nat
              /\ \A i \in 1 .. Len(actor[handle].pending) :
                    actor[handle].pending[i] \in Prompts \cup {Plan}
<1>1. TypeOK /\ ActorShape
  BY DEF ShapeInv
<1>2. /\ replies \in Seq(Prompts) /\ Len(replies) \in Nat
      /\ \A i \in 1 .. Len(replies) : replies[i] \in Prompts
  BY <1>1 DEF TypeOK
<1>3. ASSUME handle # None
      PROVE  /\ handle \in Actors
             /\ actor[handle].cmds \in Seq(Commands) /\ actor[handle].pending \in Seq(Prompts \cup {Plan})
             /\ Sound(actor[handle])
  <2>1. handle \in Actors
    BY <1>1, <1>3 DEF TypeOK
  <2> QED
    BY <1>1, <2>1, ActorType DEF ActorShape
<1>4. ASSUME NEW s \in Seq(Commands), NEW i \in 1 .. Len(s)
      PROVE  s[i].k \in {"busy", "rebuild", "prompt", "plan"} /\ Len(s) \in Nat
  <2>1. s[i] \in Commands
    OBVIOUS
  <2> QED
    BY <2>1 DEF Commands
<1>5. \A s \in Seq(Commands) : Len(s) \in Nat
  OBVIOUS
<1>6. ASSUME NEW S, NEW s \in Seq(S)
      PROVE  Len(s) \in Nat /\ \A i \in 1 .. Len(s) : s[i] \in S
  OBVIOUS
<1> QED
  BY <1>2, <1>3, <1>4, <1>5, <1>6 DEF Sound

Live == Preparing \cup {"queued", "running"}

(* What a place needs to know of a prompt does not change.                     *)
Kept(q) ==
  /\ prompt'[q].pc = prompt[q].pc /\ prompt'[q].reply = prompt[q].reply
  /\ prompt'[q].read = prompt[q].read

NotCommanded(p) ==
  \A i \in 1 .. Len(actor[handle].cmds) :
     actor[handle].cmds[i].k # "plan" => actor[handle].cmds[i].p # p

NotPending(p) == \A i \in 1 .. Len(actor[handle].pending) : actor[handle].pending[i] # p

NotReplied(p) == \A i \in 1 .. Len(replies) : replies[i] # p

(* A prompt is only where its state says.                                      *)
LEMMA Elsewhere ==
  ASSUME HarnessInv, handle # None, NEW p \in Prompts
  PROVE  /\ ~(prompt[p].pc \in {"asked", "rebuild"} /\ prompt[p].reply = None)
              /\ prompt[p].pc # "sent" => NotCommanded(p)
         /\ prompt[p].pc \notin {"queued", "running"} => NotPending(p)
         /\ ~(prompt[p].pc = "rebuild" /\ prompt[p].reply \in {"ok", "refused"}) => NotReplied(p)
         /\ ~(prompt[p].pc = "rebuild" /\ prompt[p].reply = None) => actor[handle].work # p
<1>1. CommandPlace /\ PendingPlace /\ ReplyPlace /\ ShapeInv
  BY DEF HarnessInv, PlaceInv
<1>0. ASSUME actor[handle].work = p PROVE prompt[p].pc = "rebuild" /\ prompt[p].reply = None
  BY <1>0, DefinitionsAssumption DEF HarnessInv, PlaceInv, WorkPlace
<1>2. ASSUME ~(prompt[p].pc \in {"asked", "rebuild"} /\ prompt[p].reply = None),
             prompt[p].pc # "sent"
      PROVE  NotCommanded(p)
  BY <1>1, <1>2, Members DEF NotCommanded, CommandPlace
<1>3. ASSUME prompt[p].pc \notin {"queued", "running"} PROVE NotPending(p)
  BY <1>1, <1>3, DefinitionsAssumption DEF NotPending, PendingPlace
<1>4. ASSUME ~(prompt[p].pc = "rebuild" /\ prompt[p].reply \in {"ok", "refused"})
      PROVE  NotReplied(p)
  BY <1>1, <1>4 DEF NotReplied, ReplyPlace
<1> QED
  BY <1>0, <1>2, <1>3, <1>4

LEMMA WorkKept ==
  ASSUME ShapeInv, WorkPlace, handle # None, handle' = handle,
         actor'[handle].work \in {actor[handle].work, None},
         actor[handle].work # None => Kept(actor[handle].work)
  PROVE  WorkPlace'
BY DEF WorkPlace, Kept

LEMMA CommandsKept ==
  ASSUME ShapeInv, CommandPlace, CommandOnce, handle # None, handle' = handle,
         actor'[handle].cmds = actor[handle].cmds,
         actor'[handle].work \in {actor[handle].work, None},
         \A i \in 1 .. Len(actor[handle].cmds) :
            actor[handle].cmds[i].k # "plan" => Kept(actor[handle].cmds[i].p)
  PROVE  CommandPlace' /\ CommandOnce'
<1> USE DefinitionsAssumption
<1> DEFINE cmds == actor[handle].cmds
<1>1. \A i \in 1 .. Len(cmds) : cmds[i].k # "plan" => cmds[i].p \in Prompts
  BY Members
<1>2. CommandOnce'
  BY DEF CommandOnce
<1>3. ASSUME NEW i \in 1 .. Len(cmds)
      PROVE  /\ cmds[i].k = "busy" => prompt'[cmds[i].p].pc = "asked" /\ prompt'[cmds[i].p].reply = None
             /\ cmds[i].k = "rebuild" => /\ prompt'[cmds[i].p].pc = "rebuild"
                                         /\ prompt'[cmds[i].p].reply = None
                                         /\ cmds[i].p # actor'[handle].work
             /\ cmds[i].k = "prompt" => prompt'[cmds[i].p].pc = "sent"
  BY <1>1, <1>3 DEF CommandPlace, Kept
<1>4. CommandPlace'
  BY <1>3 DEF CommandPlace
<1> QED
  BY <1>2, <1>4

LEMMA CommandsTaken ==
  ASSUME ShapeInv, CommandPlace, CommandOnce, handle # None, handle' = handle,
         Len(actor[handle].cmds) > 0,
         actor'[handle].cmds = Tail(actor[handle].cmds),
         \/ actor'[handle].work = None
         \/ actor[handle].cmds[1].k # "plan" /\ actor'[handle].work = actor[handle].cmds[1].p,
         \A q \in Prompts : \/ actor[handle].cmds[1].k # "plan" /\ q = actor[handle].cmds[1].p
                            \/ Kept(q)
  PROVE  CommandPlace' /\ CommandOnce'
<1> USE DefinitionsAssumption
<1> DEFINE cmds == actor[handle].cmds
           rest == Tail(cmds)
<1>1. /\ cmds \in Seq(Commands) /\ cmds # <<>>
      /\ \A i \in 1 .. Len(cmds) : cmds[i].k # "plan" => cmds[i].p \in Prompts
  BY Members
<1>2. /\ Len(cmds) \in Nat /\ Len(rest) = Len(cmds) - 1
      /\ \A i \in 1 .. Len(cmds) - 1 : rest[i] = cmds[i + 1]
  BY <1>1, Tailed, Members
<1>3. actor'[handle].cmds = rest
  OBVIOUS
<1> HIDE DEF rest
<1>4. ASSUME NEW i \in 1 .. Len(rest), rest[i].k # "plan"
      PROVE  /\ i + 1 \in 1 .. Len(cmds) /\ rest[i] = cmds[i + 1]
             /\ rest[i].p \in Prompts /\ Kept(rest[i].p) /\ rest[i].p # actor'[handle].work
  <2>1. i + 1 \in 1 .. Len(cmds) /\ rest[i] = cmds[i + 1] /\ 1 \in 1 .. Len(cmds)
    BY <1>2, <1>4
  <2>2. rest[i].p \in Prompts
    BY <1>1, <1>4, <2>1
  <2>3. cmds[1].k # "plan" => rest[i].p # cmds[1].p
    BY <1>4, <2>1 DEF CommandOnce
  <2> QED
    BY <2>1, <2>2, <2>3
<1>5. CommandOnce'
  <2> SUFFICES ASSUME NEW i \in 1 .. Len(rest), NEW j \in 1 .. Len(rest),
                      rest[i].k # "plan", rest[j].k # "plan", rest[i].p = rest[j].p
               PROVE  i = j
    BY <1>3 DEF CommandOnce
  <2>1. i + 1 \in 1 .. Len(cmds) /\ rest[i] = cmds[i + 1] /\ j + 1 \in 1 .. Len(cmds) /\ rest[j] = cmds[j + 1]
    BY <1>4
  <2>2. i + 1 = j + 1
    BY <2>1 DEF CommandOnce
  <2> QED
    BY <2>2
<1>6. CommandPlace'
  <2> SUFFICES ASSUME NEW i \in 1 .. Len(rest)
      PROVE  /\ rest[i].k = "busy" => prompt'[rest[i].p].pc = "asked" /\ prompt'[rest[i].p].reply = None
             /\ rest[i].k = "rebuild" => /\ prompt'[rest[i].p].pc = "rebuild"
                                         /\ prompt'[rest[i].p].reply = None
                                         /\ rest[i].p # actor'[handle].work
             /\ rest[i].k = "prompt" => prompt'[rest[i].p].pc = "sent"
    BY <1>3 DEF CommandPlace
  <2>1. CASE rest[i].k # "plan"
    <3>1. /\ i + 1 \in 1 .. Len(cmds) /\ rest[i] = cmds[i + 1]
          /\ Kept(rest[i].p) /\ rest[i].p # actor'[handle].work
      BY <1>4, <2>1
    <3>2. /\ rest[i].k = "busy" => prompt[rest[i].p].pc = "asked" /\ prompt[rest[i].p].reply = None
          /\ rest[i].k = "rebuild" => prompt[rest[i].p].pc = "rebuild" /\ prompt[rest[i].p].reply = None
          /\ rest[i].k = "prompt" => prompt[rest[i].p].pc = "sent"
      BY <3>1 DEF CommandPlace
    <3> QED
      BY <3>1, <3>2 DEF Kept
  <2> QED
    BY <2>1
<1> QED
  BY <1>5, <1>6

LEMMA CommandsSent ==
  ASSUME ShapeInv, CommandPlace, CommandOnce, handle # None, handle' = handle,
         NEW k \in {"busy", "rebuild", "prompt", "plan"}, NEW p \in Prompts \cup {None},
         actor'[handle].cmds = Append(actor[handle].cmds, [k |-> k, p |-> p]),
         actor'[handle].work = actor[handle].work,
         k # "plan" => NotCommanded(p),
         k = "busy" => prompt'[p].pc = "asked" /\ prompt'[p].reply = None,
         k = "rebuild" => /\ prompt'[p].pc = "rebuild" /\ prompt'[p].reply = None
                          /\ p # actor[handle].work,
         k = "prompt" => prompt'[p].pc = "sent",
         \A q \in Prompts \ {p} : Kept(q), k = "plan" => \A q \in Prompts : Kept(q)
  PROVE  CommandPlace' /\ CommandOnce'
<1> DEFINE cmds == actor[handle].cmds
           c == [k |-> k, p |-> p]
           all == Append(cmds, c)
<1>1. /\ cmds \in Seq(Commands) /\ Len(cmds) \in Nat
      /\ \A i \in 1 .. Len(cmds) : cmds[i].k # "plan" => cmds[i].p \in Prompts
  BY Members
<1>2. c \in Commands /\ c.k = k /\ c.p = p
  BY DEF Commands
<1>3. actor'[handle].cmds = all
  OBVIOUS
<1> HIDE DEF c
<1>4. /\ Len(all) = Len(cmds) + 1 /\ all[Len(cmds) + 1] = c
      /\ \A i \in 1 .. Len(cmds) : all[i] = cmds[i]
  BY <1>1, <1>2, Appended
<1> HIDE DEF all
<1>5. ASSUME NEW i \in 1 .. Len(all)
      PROVE  (i \in 1 .. Len(cmds) /\ all[i] = cmds[i]) \/ (i = Len(cmds) + 1 /\ all[i] = c)
  <2>1. i \in 1 .. Len(cmds) \/ i = Len(cmds) + 1
    <3> HIDE DEF cmds
    <3> QED BY <1>1, <1>4
  <2>2. CASE i \in 1 .. Len(cmds)
    BY <1>4, <2>2
  <2>3. CASE i = Len(cmds) + 1
    BY <1>4, <2>3
  <2> QED
    BY <2>1, <2>2, <2>3
<1>6. \A i \in 1 .. Len(cmds) : cmds[i].k # "plan" => Kept(cmds[i].p)
  BY <1>1 DEF NotCommanded
<1>7. CommandOnce'
  <2> SUFFICES ASSUME NEW i \in 1 .. Len(all), NEW j \in 1 .. Len(all),
                      all[i].k # "plan", all[j].k # "plan", all[i].p = all[j].p
               PROVE  i = j
    BY <1>3 DEF CommandOnce
  <2>1. (i \in 1 .. Len(cmds) /\ all[i] = cmds[i]) \/ (i = Len(cmds) + 1 /\ all[i] = c)
    BY <1>5
  <2>2. (j \in 1 .. Len(cmds) /\ all[j] = cmds[j]) \/ (j = Len(cmds) + 1 /\ all[j] = c)
    BY <1>5
  <2> QED
    BY <1>2, <2>1, <2>2 DEF CommandOnce, NotCommanded
<1>8. CommandPlace'
  <2> SUFFICES ASSUME NEW i \in 1 .. Len(all)
      PROVE  /\ all[i].k = "busy" => prompt'[all[i].p].pc = "asked" /\ prompt'[all[i].p].reply = None
             /\ all[i].k = "rebuild" => /\ prompt'[all[i].p].pc = "rebuild"
                                        /\ prompt'[all[i].p].reply = None
                                        /\ all[i].p # actor'[handle].work
             /\ all[i].k = "prompt" => prompt'[all[i].p].pc = "sent"
    BY <1>3 DEF CommandPlace
  <2>1. CASE i \in 1 .. Len(cmds) /\ all[i] = cmds[i]
    BY <1>6, <2>1 DEF CommandPlace, Kept
  <2>2. CASE all[i] = c
    BY <1>2, <2>2
  <2> QED
    BY <1>5, <2>1, <2>2
<1> QED
  BY <1>7, <1>8

LEMMA PendingKept ==
  ASSUME ShapeInv, PendingPlace, QueuedPlace, handle # None, handle' = handle,
         actor'[handle].pending = actor[handle].pending,
         \A i \in 1 .. Len(actor[handle].pending) : actor[handle].pending[i] # Plan =>
            prompt'[actor[handle].pending[i]].pc = prompt[actor[handle].pending[i]].pc,
         \A q \in Prompts : prompt'[q].pc = "queued" => prompt[q].pc = "queued"
  PROVE  PendingPlace' /\ QueuedPlace'
<1> DEFINE pending == actor[handle].pending
<1>1. ASSUME NEW i \in 1 .. Len(pending), pending[i] # Plan
      PROVE  /\ prompt'[pending[i]].pc = IF i = 1 THEN "running" ELSE "queued"
             /\ \A j \in 1 .. Len(pending) : pending[i] = pending[j] => i = j
  BY <1>1 DEF PendingPlace
<1>2. PendingPlace'
  BY <1>1 DEF PendingPlace
<1>3. QueuedPlace'
  BY DEF QueuedPlace
<1> QED
  BY <1>2, <1>3

LEMMA RepliesKept ==
  ASSUME ShapeInv, ReplyPlace, HarnessKnown, handle # None, handle' = handle,
         replies' = replies, applied' \in {applied, None},
         actor'[handle].def = actor[handle].def,
         \A i \in 1 .. Len(replies) : Kept(replies[i])
  PROVE  ReplyPlace' /\ HarnessKnown'
<1>1. ReplyPlace'
  BY DEF ReplyPlace, Kept
<1>2. \A i \in 1 .. Len(replies) : /\ prompt'[replies[i]].reply = prompt[replies[i]].reply
                                   /\ prompt'[replies[i]].read = prompt[replies[i]].read
  BY DEF Kept
<1>3. HarnessKnown'
  BY <1>2 DEF HarnessKnown
<1> QED
  BY <1>1, <1>3

LEMMA RepliesGrow ==
  ASSUME ShapeInv, ReplyPlace, HarnessKnown, handle # None, handle' = handle,
         NEW p \in Prompts, NotReplied(p), replies' = Append(replies, p), applied' = applied,
         prompt'[p].pc = "rebuild", prompt'[p].reply \in {"ok", "refused"},
         prompt'[p].reply = "ok" => prompt'[p].read = actor'[handle].def,
         prompt'[p].reply = "refused" => actor'[handle].def = actor[handle].def,
         \A q \in Prompts \ {p} : Kept(q)
  PROVE  ReplyPlace' /\ HarnessKnown'
<1> DEFINE n == Len(replies)
           all == Append(replies, p)
           ok(i) == prompt[replies[i]].reply = "ok"
           okNow(i) == prompt'[all[i]].reply = "ok"
<1>1. replies \in Seq(Prompts) /\ n \in Nat /\ \A i \in 1 .. n : replies[i] \in Prompts
  BY Members
<1>2. /\ Len(all) = n + 1 /\ all[n + 1] = p
      /\ \A i \in 1 .. n : all[i] = replies[i]
  BY <1>1, Appended
<1>3. replies' = all
  OBVIOUS
<1> HIDE DEF n, all
<1>4. \A i \in 1 .. n : Kept(replies[i]) /\ replies[i] # p
  BY <1>1 DEF NotReplied, n
<1>5. ASSUME NEW i \in 1 .. Len(all)
      PROVE  (i \in 1 .. n /\ all[i] = replies[i]) \/ (i = n + 1 /\ all[i] = p)
  <2>1. i \in 1 .. n \/ i = n + 1
    BY <1>1, <1>2
  <2>2. CASE i \in 1 .. n
    BY <1>2, <2>2
  <2>3. CASE i = n + 1
    BY <1>2, <2>3
  <2> QED
    BY <2>1, <2>2, <2>3
<1>6. ReplyPlace'
  <2> SUFFICES ASSUME NEW i \in 1 .. Len(all)
               PROVE  /\ prompt'[all[i]].pc = "rebuild" /\ prompt'[all[i]].reply \in {"ok", "refused"}
                      /\ \A j \in 1 .. Len(all) : all[i] = all[j] => i = j
    BY <1>3 DEF ReplyPlace
  <2>1. prompt'[all[i]].pc = "rebuild" /\ prompt'[all[i]].reply \in {"ok", "refused"}
    BY <1>4, <1>5 DEF ReplyPlace, Kept, n
  <2>2. ASSUME NEW j \in 1 .. Len(all), all[i] = all[j] PROVE i = j
    <3>1. (i \in 1 .. n /\ all[i] = replies[i]) \/ (i = n + 1 /\ all[i] = p)
      BY <1>5
    <3>2. (j \in 1 .. n /\ all[j] = replies[j]) \/ (j = n + 1 /\ all[j] = p)
      BY <1>5
    <3> QED
      BY <1>4, <2>2, <3>1, <3>2 DEF ReplyPlace, n
  <2> QED
    BY <2>1, <2>2
<1>7. \A i \in 1 .. n : (okNow(i) <=> ok(i)) /\ prompt'[all[i]].read = prompt[replies[i]].read
  BY <1>2, <1>4 DEF Kept
<1>8. okNow(n + 1) <=> prompt'[p].reply = "ok"
  BY <1>2
<1>9. HarnessKnown' <=> \/ \E i \in 1 .. Len(all) :
                              /\ okNow(i) /\ \A j \in 1 .. Len(all) : j > i => ~okNow(j)
                              /\ prompt'[all[i]].read = actor'[handle].def
                        \/ /\ \A j \in 1 .. Len(all) : ~okNow(j)
                           /\ applied # None => applied = actor'[handle].def
  BY <1>3 DEF HarnessKnown
<1>10. \/ \E i \in 1 .. n : /\ ok(i) /\ \A j \in 1 .. n : j > i => ~ok(j)
                            /\ prompt[replies[i]].read = actor[handle].def
       \/ (\A j \in 1 .. n : ~ok(j)) /\ (applied # None => applied = actor[handle].def)
  BY DEF HarnessKnown, n
<1> HIDE DEF ok, okNow
<1>11. CASE prompt'[p].reply = "ok"
  <2>1. n + 1 \in 1 .. Len(all) /\ \A j \in 1 .. Len(all) : ~(j > n + 1)
    BY <1>1, <1>2
  <2>2. prompt'[all[n + 1]].read = actor'[handle].def
    BY <1>2, <1>11
  <2> QED
    BY <1>6, <1>8, <1>9, <1>11, <2>1, <2>2
<1>12. CASE prompt'[p].reply = "refused"
  <2>1. ~okNow(n + 1) /\ actor'[handle].def = actor[handle].def
    BY <1>8, <1>12
  <2>2. ASSUME NEW i \in 1 .. n, ok(i), \A j \in 1 .. n : j > i => ~ok(j),
               prompt[replies[i]].read = actor[handle].def
        PROVE  HarnessKnown'
    <3>1. okNow(i) /\ prompt'[all[i]].read = actor'[handle].def
      BY <1>7, <2>1, <2>2
    <3>2. i \in 1 .. Len(all)
      BY <1>1, <1>2
    <3>3. \A j \in 1 .. Len(all) : j > i => ~okNow(j)
      BY <1>5, <1>7, <2>1, <2>2
    <3> QED
      BY <1>9, <3>1, <3>2, <3>3
  <2>3. CASE (\A j \in 1 .. n : ~ok(j)) /\ (applied # None => applied = actor[handle].def)
    <3>1. \A j \in 1 .. Len(all) : ~okNow(j)
      BY <1>5, <1>7, <2>1, <2>3
    <3>2. applied # None => applied = actor'[handle].def
      BY <2>1, <2>3
    <3> QED
      BY <1>6, <1>9, <3>1, <3>2
  <2> QED
    BY <1>6, <1>10, <2>2, <2>3
<1> QED
  BY <1>11, <1>12

LEMMA RepliesTaken ==
  ASSUME ShapeInv, ReplyPlace, HarnessKnown, handle # None, handle' = handle, replies # <<>>,
         NEW p \in Prompts, p = Head(replies), NEW rest, rest = Tail(replies), replies' = rest,
         actor'[handle].def = actor[handle].def,
         prompt[p].reply = "ok" => applied' = prompt[p].read,
         prompt[p].reply # "ok" => applied' = applied,
         \A q \in Prompts \ {p} : Kept(q)
  PROVE  ReplyPlace' /\ HarnessKnown'
<1> DEFINE n == Len(replies)
           ok(i) == prompt[replies[i]].reply = "ok"
           okNow(i) == prompt'[rest[i]].reply = "ok"
<1>1. replies \in Seq(Prompts) /\ n \in Nat /\ \A i \in 1 .. n : replies[i] \in Prompts
  BY Members
<1>2. /\ n >= 1 /\ Len(rest) = n - 1 /\ replies[1] = p
      /\ \A i \in 1 .. n - 1 : rest[i] = replies[i + 1]
  BY <1>1, Tailed
<1>3. replies' = rest
  OBVIOUS
<1> HIDE DEF n
<1>4. ASSUME NEW i \in 1 .. Len(rest)
      PROVE  /\ i + 1 \in 1 .. n /\ rest[i] = replies[i + 1]
             /\ rest[i] \in Prompts /\ rest[i] # p /\ Kept(rest[i])
  <2>1. i + 1 \in 1 .. n /\ 1 \in 1 .. n /\ i \in 1 .. n - 1 /\ i + 1 # 1
    BY <1>1, <1>2
  <2>2. rest[i] = replies[i + 1] /\ rest[i] \in Prompts
    BY <1>1, <1>2, <2>1
  <2>3. replies[i + 1] # replies[1]
    BY <2>1 DEF ReplyPlace, n
  <2> QED
    BY <1>2, <2>1, <2>2, <2>3
<1>5. ReplyPlace'
  <2> SUFFICES \A i \in 1 .. Len(rest) :
                 /\ prompt'[rest[i]].pc = "rebuild" /\ prompt'[rest[i]].reply \in {"ok", "refused"}
                 /\ \A j \in 1 .. Len(rest) : rest[i] = rest[j] => i = j
    BY <1>3 DEF ReplyPlace
  <2> TAKE i \in 1 .. Len(rest)
  <2>1. /\ i + 1 \in 1 .. n /\ rest[i] = replies[i + 1]
        /\ rest[i] \in Prompts /\ Kept(rest[i])
    BY <1>4
  <2>2. /\ prompt[replies[i + 1]].pc = "rebuild" /\ prompt[replies[i + 1]].reply \in {"ok", "refused"}
        /\ \A j \in 1 .. n : replies[i + 1] = replies[j] => i + 1 = j
    BY <2>1 DEF ReplyPlace, n
  <2>3. prompt'[rest[i]].pc = "rebuild" /\ prompt'[rest[i]].reply \in {"ok", "refused"}
    BY <2>1, <2>2 DEF Kept
  <2>4. ASSUME NEW j \in 1 .. Len(rest), rest[i] = rest[j] PROVE i = j
    <3>1. j + 1 \in 1 .. n /\ rest[j] = replies[j + 1]
      BY <1>4
    <3>2. i + 1 = j + 1
      BY <2>1, <2>2, <2>4, <3>1
    <3> QED
      BY <3>2
  <2> QED
    BY <2>3, <2>4
<1>6. \A i \in 1 .. Len(rest) : /\ okNow(i) <=> ok(i + 1)
                                /\ prompt'[rest[i]].read = prompt[replies[i + 1]].read
  BY <1>4 DEF Kept
<1>7. HarnessKnown' <=> \/ \E i \in 1 .. Len(rest) :
                              /\ okNow(i) /\ \A j \in 1 .. Len(rest) : j > i => ~okNow(j)
                              /\ prompt'[rest[i]].read = actor[handle].def
                        \/ /\ \A j \in 1 .. Len(rest) : ~okNow(j)
                           /\ applied' # None => applied' = actor[handle].def
  BY <1>3 DEF HarnessKnown
<1>8. \/ \E i \in 1 .. n : /\ ok(i) /\ \A j \in 1 .. n : j > i => ~ok(j)
                           /\ prompt[replies[i]].read = actor[handle].def
      \/ (\A j \in 1 .. n : ~ok(j)) /\ (applied # None => applied = actor[handle].def)
  BY DEF HarnessKnown, n
<1>9. ok(1) <=> prompt[p].reply = "ok"
  BY <1>2
<1>10. \A j \in 1 .. Len(rest) : j + 1 \in 1 .. n
  BY <1>4
<1> HIDE DEF ok, okNow
<1>11. ASSUME NEW i \in 1 .. n, ok(i), \A j \in 1 .. n : j > i => ~ok(j),
              prompt[replies[i]].read = actor[handle].def
       PROVE  HarnessKnown'
  <2>1. CASE i = 1
    <3>1. applied' = actor[handle].def
      BY <1>2, <1>9, <1>11, <2>1
    <3>2. \A j \in 1 .. Len(rest) : ~okNow(j)
      BY <1>6, <1>10, <1>11, <2>1
    <3> QED
      BY <1>7, <3>1, <3>2
  <2>2. CASE i # 1
    <3>1. i - 1 \in 1 .. Len(rest) /\ (i - 1) + 1 = i
      BY <1>1, <1>2, <2>2
    <3>2. okNow(i - 1) /\ prompt'[rest[i - 1]].read = actor[handle].def
      BY <1>6, <1>11, <3>1
    <3>3. ASSUME NEW j \in 1 .. Len(rest), j > i - 1 PROVE ~okNow(j)
      <4>1. j + 1 \in 1 .. n /\ j + 1 > i
        BY <1>10, <3>3
      <4> QED
        BY <1>6, <1>11, <4>1
    <3> QED
      BY <1>7, <3>1, <3>2, <3>3
  <2> QED
    BY <2>1, <2>2
<1>12. ASSUME \A j \in 1 .. n : ~ok(j), applied # None => applied = actor[handle].def
       PROVE  HarnessKnown'
  <2>1. 1 \in 1 .. n
    BY <1>1, <1>2
  <2>2. applied' = applied
    BY <1>9, <1>12, <2>1
  <2>3. \A j \in 1 .. Len(rest) : ~okNow(j)
    BY <1>6, <1>10, <1>12
  <2> QED
    BY <1>7, <1>12, <2>2, <2>3
<1> QED
  BY <1>5, <1>8, <1>11, <1>12

LEMMA PendingGrows ==
  ASSUME ShapeInv, PendingPlace, QueuedPlace, handle # None, handle' = handle,
         NEW p \in Prompts \cup {Plan},
         actor'[handle].pending = Append(actor[handle].pending, p),
         p # Plan => /\ NotPending(p)
                     /\ prompt'[p].pc = IF actor[handle].pending = <<>> THEN "running" ELSE "queued",
         \A q \in Prompts \ {p} : prompt'[q].pc = prompt[q].pc
  PROVE  PendingPlace' /\ QueuedPlace'
<1> DEFINE pending == actor[handle].pending
           n == Len(pending)
           all == Append(pending, p)
<1>1. /\ pending \in Seq(Prompts \cup {Plan}) /\ n \in Nat
      /\ \A i \in 1 .. n : pending[i] \in Prompts \cup {Plan}
  BY Members
<1>2. Len(all) = n + 1 /\ all[n + 1] = p /\ \A i \in 1 .. n : all[i] = pending[i]
  <2> DEFINE S == Prompts \cup {Plan}
  <2>1. pending \in Seq(S) /\ p \in S
    BY <1>1
  <2> HIDE DEF S
  <2> QED
    BY <2>1, Appended
<1>3. actor'[handle].pending = all /\ (pending = <<>> <=> n = 0)
  <2>1. pending = <<>> <=> n = 0
    BY <1>1, EmptySeq
  <2> QED
    BY <2>1
<1> HIDE DEF n, all
<1>4. ASSUME NEW i \in 1 .. Len(all)
      PROVE  (i \in 1 .. n /\ all[i] = pending[i]) \/ (i = n + 1 /\ all[i] = p)
  <2>1. i \in 1 .. n \/ i = n + 1
    BY <1>1, <1>2
  <2> QED
    BY <1>2, <2>1
<1>5. \A i \in 1 .. n : pending[i] # Plan => pending[i] # p /\ prompt'[pending[i]].pc = prompt[pending[i]].pc
  BY <1>1 DEF NotPending, n
<1>6. PendingPlace'
  <2> SUFFICES ASSUME NEW i \in 1 .. Len(all), all[i] # Plan
               PROVE  /\ prompt'[all[i]].pc = IF i = 1 THEN "running" ELSE "queued"
                      /\ \A j \in 1 .. Len(all) : all[i] = all[j] => i = j
    BY <1>3 DEF PendingPlace
  <2>1. CASE i \in 1 .. n /\ all[i] = pending[i]
    <3>1. /\ prompt[pending[i]].pc = IF i = 1 THEN "running" ELSE "queued"
          /\ \A j \in 1 .. n : pending[i] = pending[j] => i = j
      BY <2>1 DEF PendingPlace, n
    <3>2. ASSUME NEW j \in 1 .. Len(all), all[i] = all[j] PROVE i = j
      <4>1. (j \in 1 .. n /\ all[j] = pending[j]) \/ (j = n + 1 /\ all[j] = p)
        BY <1>4
      <4> QED
        BY <1>5, <2>1, <3>1, <3>2, <4>1
    <3> QED
      BY <1>5, <2>1, <3>1, <3>2
  <2>2. CASE i = n + 1 /\ all[i] = p
    <3>1. i = 1 <=> pending = <<>>
      BY <1>1, <1>3, <2>2
    <3>2. prompt'[p].pc = IF i = 1 THEN "running" ELSE "queued"
      BY <2>2, <3>1
    <3>3. ASSUME NEW j \in 1 .. Len(all), all[i] = all[j] PROVE i = j
      <4>1. (j \in 1 .. n /\ all[j] = pending[j]) \/ (j = n + 1 /\ all[j] = p)
        BY <1>4
      <4> QED
        BY <1>5, <2>2, <3>3, <4>1
    <3> QED
      BY <2>2, <3>2, <3>3
  <2> QED
    BY <1>4, <2>1, <2>2
<1>7. QueuedPlace'
  <2> SUFFICES ASSUME NEW q \in Prompts, prompt'[q].pc = "queued"
               PROVE  \E i \in 1 .. Len(all) : all[i] = q
    BY <1>3 DEF QueuedPlace
  <2>1. CASE q = p
    <3>1. n + 1 \in 1 .. Len(all)
      BY <1>1, <1>2
    <3> QED
      BY <1>2, <2>1, <3>1
  <2>2. CASE q # p
    <3>1. PICK i \in 1 .. n : pending[i] = q
      BY <2>2 DEF QueuedPlace, n
    <3>2. i \in 1 .. Len(all)
      BY <1>1, <1>2
    <3> QED
      BY <1>2, <3>1, <3>2
  <2> QED
    BY <2>1, <2>2
<1> QED
  BY <1>6, <1>7

LEMMA PendingTaken ==
  ASSUME ShapeInv, PendingPlace, QueuedPlace, handle # None, handle' = handle,
         actor[handle].pending # <<>>, NEW rest, rest = Tail(actor[handle].pending),
         actor'[handle].pending = rest,
         \A q \in Prompts : q = actor[handle].pending[1] => prompt'[q].pc = "done",
         Len(actor[handle].pending) >= 2 =>
            \A q \in Prompts : q # actor[handle].pending[1] /\ q = actor[handle].pending[2]
                                 => prompt'[q].pc = "running",
         \A q \in Prompts : q # actor[handle].pending[1]
              /\ ~(Len(actor[handle].pending) >= 2 /\ q = actor[handle].pending[2])
              => prompt'[q].pc = prompt[q].pc
  PROVE  PendingPlace' /\ QueuedPlace'
<1> DEFINE pending == actor[handle].pending
           n == Len(pending)
<1>1. /\ pending \in Seq(Prompts \cup {Plan}) /\ n \in Nat
      /\ \A i \in 1 .. n : pending[i] \in Prompts \cup {Plan}
  BY Members
<1>2. n >= 1 /\ Len(rest) = n - 1 /\ \A i \in 1 .. n - 1 : rest[i] = pending[i + 1]
  <2> DEFINE S == Prompts \cup {Plan}
  <2>1. pending \in Seq(S)
    BY <1>1
  <2> HIDE DEF S
  <2> QED
    BY <2>1, Tailed
<1>3. actor'[handle].pending = rest
  OBVIOUS
<1> HIDE DEF n
<1>4. ASSUME NEW i \in 1 .. Len(rest)
      PROVE  i + 1 \in 1 .. n /\ rest[i] = pending[i + 1] /\ 1 \in 1 .. n /\ i + 1 # 1
  BY <1>1, <1>2
<1>5. \A i \in 1 .. n : pending[i] # Plan =>
         /\ pending[i] \in Prompts /\ prompt[pending[i]].pc = IF i = 1 THEN "running" ELSE "queued"
         /\ \A j \in 1 .. n : pending[i] = pending[j] => i = j
  BY <1>1 DEF PendingPlace, n
<1>6. PendingPlace'
  <2> SUFFICES \A i \in 1 .. Len(rest) : rest[i] # Plan =>
                 /\ prompt'[rest[i]].pc = IF i = 1 THEN "running" ELSE "queued"
                 /\ \A j \in 1 .. Len(rest) : rest[i] = rest[j] => i = j
    BY <1>3 DEF PendingPlace
  <2> TAKE i \in 1 .. Len(rest)
  <2> HAVE rest[i] # Plan
  <2>1. /\ i + 1 \in 1 .. n /\ rest[i] = pending[i + 1] /\ 1 \in 1 .. n /\ i + 1 # 1
        /\ rest[i] \in Prompts /\ prompt[rest[i]].pc = "queued"
        /\ \A j \in 1 .. n : rest[i] = pending[j] => i + 1 = j
    BY <1>4, <1>5
  <2>2. rest[i] # pending[1]
    BY <2>1
  <2>3. CASE i = 1
    <3>1. n >= 2 /\ rest[i] = pending[2]
      BY <1>1, <2>1, <2>3
    <3> QED
      BY <2>1, <2>2, <2>3, <3>1, <1>4 DEF n
  <2>4. CASE i # 1
    <3>1. ~(n >= 2 /\ rest[i] = pending[2])
      <4>1. ASSUME n >= 2, rest[i] = pending[2] PROVE FALSE
        <5>1. 2 \in 1 .. n
          BY <1>1, <4>1
        <5>2. i + 1 = 2
          BY <2>1, <4>1, <5>1
        <5> QED
          BY <2>4, <5>2
      <4> QED
        BY <4>1
    <3>2. prompt'[rest[i]].pc = "queued"
      BY <2>1, <2>2, <3>1 DEF n
    <3> QED
      BY <2>1, <2>4, <3>2, <1>4
  <2> QED
    BY <2>3, <2>4
<1>7. QueuedPlace'
  <2> SUFFICES ASSUME NEW q \in Prompts, prompt'[q].pc = "queued"
               PROVE  \E i \in 1 .. Len(rest) : rest[i] = q
    BY <1>3 DEF QueuedPlace
  <2>1. q # pending[1] /\ prompt[q].pc = "queued"
    OBVIOUS
  <2>2. PICK i \in 1 .. n : pending[i] = q
    BY <2>1 DEF QueuedPlace, n
  <2>3. i - 1 \in 1 .. Len(rest) /\ i - 1 \in 1 .. n - 1 /\ (i - 1) + 1 = i
    <3>1. i # 1
      BY <2>1, <2>2
    <3> QED
      BY <1>1, <1>2, <3>1
  <2>4. rest[i - 1] = q
    BY <1>2, <2>2, <2>3
  <2> QED
    BY <2>3, <2>4
<1> QED
  BY <1>6, <1>7

LEMMA ResidentKept ==
  ASSUME ShapeInv, Resident, handle # None, handle' = handle, opening' = opening,
         \A b \in Actors \ {handle} : actor'[b] = actor[b],
         actor'[handle].up = actor[handle].up,
         \A q \in Prompts : \/ prompt[q].pc \in Live /\ prompt'[q].at = prompt[q].at
                            \/ prompt'[q].pc \notin Live
                            \/ prompt'[q].at = handle
  PROVE  Resident'
BY DEF Resident, Live

(* The registered actor acts, and it is the only one that can.                 *)
LEMMA ActsAsHandle ==
  ASSUME HarnessInv, NEW a \in Actors, actor[a].up \/ actor[a].work # None
  PROVE  a = handle /\ handle # None
BY DefinitionsAssumption DEF HarnessInv, PlaceInv, Resident

LEMMA AnswerBusyPlaces ==
  ASSUME HarnessInv, NEW a \in Actors, AnswerBusy(a)
  PROVE  HarnessInv'
<1> USE DefinitionsAssumption
<1>1. a = handle /\ handle # None /\ ShapeInv /\ ShapeInv'
  BY ActsAsHandle, AnswerBusyFacts DEF AnswerBusy, Takes, HarnessInv
<1>2. PICK p \in Prompts :
         /\ actor[handle].cmds[1].p = p /\ actor[handle].cmds[1].k = "busy"
         /\ prompt'[p].pc = prompt[p].pc /\ SameTask(p)
         /\ \A q \in Prompts \ {p} : prompt'[q] = prompt[q]
  BY <1>1, AnswerBusyFacts
<1>3. /\ \A b \in Actors \ {handle} : actor'[b] = actor[b]
      /\ Len(actor[handle].cmds) > 0 /\ actor'[handle] = Taken(handle)
  BY <1>1, AnswerBusyFacts
<1>4. /\ Taken(handle).up = actor[handle].up /\ Taken(handle).def = actor[handle].def
      /\ Taken(handle).cmds = Tail(actor[handle].cmds) /\ Taken(handle).work = None
      /\ Taken(handle).pending = actor[handle].pending
  BY <1>1, TakenFacts DEF AnswerBusy
<1>5. UNCHANGED <<store, applied, handle, saved, opening, replies, restarts>>
  BY DEF AnswerBusy
<1>6. /\ Resident /\ CommandPlace /\ CommandOnce /\ WorkPlace /\ PendingPlace
      /\ QueuedPlace /\ ReplyPlace /\ HarnessKnown
  BY DEF HarnessInv, PlaceInv
<1>7. prompt[p].pc = "asked" /\ prompt[p].reply = None
  <2>1. 1 \in 1 .. Len(actor[handle].cmds)
    BY <1>1, <1>3, Members
  <2> QED
    BY <1>1, <1>2, <1>6, <2>1 DEF CommandPlace
<1>8. NotPending(p) /\ NotReplied(p)
  BY <1>1, <1>7, Elsewhere
<1>9. \A q \in Prompts \ {p} : Kept(q)
  BY <1>2 DEF Kept
<1>10. Resident'
  BY <1>1, <1>2, <1>3, <1>4, <1>5, <1>6, <1>7, ResidentKept DEF SameTask, Live, Preparing, Resident
<1>11. CommandPlace' /\ CommandOnce'
  BY <1>1, <1>2, <1>3, <1>4, <1>5, <1>6, <1>9, CommandsTaken
<1>12. WorkPlace'
  BY <1>1, <1>3, <1>4, <1>5 DEF WorkPlace
<1>13. PendingPlace' /\ QueuedPlace'
  <2>1. \A q \in Prompts : prompt'[q].pc = prompt[q].pc
    BY <1>2
  <2>2. \A i \in 1 .. Len(actor[handle].pending) : actor[handle].pending[i] # Plan =>
            prompt'[actor[handle].pending[i]].pc = prompt[actor[handle].pending[i]].pc
    BY <1>1, <2>1, Members
  <2> QED
    BY <1>1, <1>3, <1>4, <1>5, <1>6, <2>1, <2>2, PendingKept
<1>14. ReplyPlace' /\ HarnessKnown'
  <2>1. \A i \in 1 .. Len(replies) : Kept(replies[i])
    BY <1>1, <1>8, <1>9, Members DEF NotReplied
  <2> QED
    BY <1>1, <1>3, <1>4, <1>5, <1>6, <2>1, RepliesKept
<1> QED
  BY <1>1, <1>10, <1>11, <1>12, <1>13, <1>14 DEF HarnessInv, PlaceInv

LEMMA TakeRebuildPlaces ==
  ASSUME HarnessInv, NEW a \in Actors, TakeRebuild(a)
  PROVE  HarnessInv'
<1> USE DefinitionsAssumption
<1> DEFINE p == actor[handle].cmds[1].p
<1>1. a = handle /\ handle # None /\ ShapeInv /\ ShapeInv'
  BY ActsAsHandle, TakeRebuildFacts DEF TakeRebuild, Takes, HarnessInv
<1>3. /\ p \in Prompts /\ actor[handle].cmds[1].k = "rebuild" /\ Len(actor[handle].cmds) > 0
      /\ actor'[handle].up = actor[handle].up /\ actor'[handle].def = actor[handle].def
      /\ actor'[handle].cmds = Tail(actor[handle].cmds)
      /\ actor'[handle].pending = actor[handle].pending
      /\ \A b \in Actors \ {handle} : actor'[b] = actor[b]
      /\ \/ actor'[handle].work = p /\ prompt' = prompt /\ replies' = replies
         \/ /\ actor'[handle].work = None /\ replies' = Append(replies, p)
            /\ prompt'[p].pc = prompt[p].pc /\ prompt'[p].reply = "refused" /\ SameTask(p)
            /\ \A q \in Prompts \ {p} : prompt'[q] = prompt[q]
  BY <1>1, TakeRebuildFacts
<1>5. UNCHANGED <<store, applied, handle, saved, opening, restarts>>
  BY DEF TakeRebuild
<1>6. /\ Resident /\ CommandPlace /\ CommandOnce /\ WorkPlace /\ PendingPlace
      /\ QueuedPlace /\ ReplyPlace /\ HarnessKnown
  BY DEF HarnessInv, PlaceInv
<1>7. prompt[p].pc = "rebuild" /\ prompt[p].reply = None
  <2>1. 1 \in 1 .. Len(actor[handle].cmds)
    BY <1>1, <1>3, Members
  <2> QED
    BY <1>1, <1>3, <1>6, <2>1 DEF CommandPlace
<1> HIDE DEF p
<1>2. \A q \in Prompts : prompt'[q].pc = prompt[q].pc /\ prompt'[q].at = prompt[q].at
  BY <1>3 DEF SameTask
<1>8. NotReplied(p)
  BY <1>1, <1>3, <1>7, Elsewhere
<1>9. \A q \in Prompts \ {p} : Kept(q)
  BY <1>3 DEF Kept
<1>10. Resident'
  <2>1. \A q \in Prompts : \/ prompt[q].pc \in Live /\ prompt'[q].at = prompt[q].at
                           \/ prompt'[q].pc \notin Live
    BY <1>2
  <2> QED
    BY <1>1, <1>3, <1>5, <1>6, <2>1, ResidentKept
<1>11. CommandPlace' /\ CommandOnce'
  BY <1>1, <1>3, <1>5, <1>6, <1>9, CommandsTaken DEF p
<1>12. WorkPlace'
  BY <1>1, <1>3, <1>5, <1>7 DEF WorkPlace
<1>13. PendingPlace' /\ QueuedPlace'
  <2>1. \A q \in Prompts : prompt'[q].pc = prompt[q].pc
    BY <1>2
  <2>2. \A i \in 1 .. Len(actor[handle].pending) : actor[handle].pending[i] # Plan =>
            prompt'[actor[handle].pending[i]].pc = prompt[actor[handle].pending[i]].pc
    BY <1>1, <2>1, Members
  <2> QED
    BY <1>1, <1>3, <1>5, <1>6, <2>1, <2>2, PendingKept
<1>14. ReplyPlace' /\ HarnessKnown'
  <2>1. CASE prompt' = prompt /\ replies' = replies
    <3>1. \A i \in 1 .. Len(replies) : Kept(replies[i])
      BY <2>1 DEF Kept
    <3> QED
      BY <1>1, <1>3, <1>5, <1>6, <2>1, <3>1, RepliesKept
  <2>2. CASE replies' = Append(replies, p) /\ prompt'[p].reply = "refused"
    BY <1>1, <1>2, <1>3, <1>5, <1>6, <1>7, <1>8, <1>9, <2>2, RepliesGrow
  <2> QED
    BY <1>3, <2>1, <2>2
<1> QED
  BY <1>1, <1>10, <1>11, <1>12, <1>13, <1>14 DEF HarnessInv, PlaceInv

(* A rebuild that ended, well or not: its prompt is told.                      *)
LEMMA RebuildOver ==
  ASSUME HarnessInv, NEW a \in Actors, RebuildEnds(a) \/ RebuildFails(a)
  PROVE  HarnessInv'
<1> USE DefinitionsAssumption
<1> DEFINE p == actor[handle].work
<1>1. a = handle /\ handle # None /\ ShapeInv /\ ShapeInv'
  BY ActsAsHandle, RebuildEndsFacts, RebuildFailsFacts DEF RebuildEnds, RebuildFails, HarnessInv
<1>3. /\ p \in Prompts /\ replies' = Append(replies, p)
      /\ actor'[handle].up = actor[handle].up
      /\ actor'[handle].cmds = actor[handle].cmds /\ actor'[handle].work = None
      /\ actor'[handle].pending = actor[handle].pending
      /\ \A b \in Actors \ {handle} : actor'[b] = actor[b]
      /\ prompt'[p].pc = prompt[p].pc /\ SameTask(p)
      /\ \/ prompt'[p].reply = "ok" /\ actor'[handle].def = prompt[p].read
         \/ prompt'[p].reply = "refused" /\ actor'[handle].def = actor[handle].def
      /\ \A q \in Prompts \ {p} : prompt'[q] = prompt[q]
  <2>1. CASE RebuildEnds(a)
    BY <1>1, <2>1, RebuildEndsFacts
  <2>2. CASE RebuildFails(a)
    BY <1>1, <2>2, RebuildFailsFacts
  <2> QED
    BY <2>1, <2>2
<1>5. UNCHANGED <<store, applied, handle, opening, restarts>>
  BY DEF RebuildEnds, RebuildFails
<1>6. /\ Resident /\ CommandPlace /\ CommandOnce /\ WorkPlace /\ PendingPlace
      /\ QueuedPlace /\ ReplyPlace /\ HarnessKnown
  BY DEF HarnessInv, PlaceInv
<1>7. prompt[p].pc = "rebuild" /\ prompt[p].reply = None
  BY <1>1, <1>3, <1>6 DEF WorkPlace
<1>8. NotReplied(p) /\ NotCommanded(p)
  <2>1. NotReplied(p)
    BY <1>1, <1>3, <1>7, Elsewhere
  <2>2. NotCommanded(p)
    BY <1>1, <1>6, <1>7, Members DEF CommandPlace, NotCommanded
  <2> QED
    BY <2>1, <2>2
<1> HIDE DEF p
<1>2. \A q \in Prompts : prompt'[q].pc = prompt[q].pc /\ prompt'[q].at = prompt[q].at
  BY <1>3 DEF SameTask
<1>9. \A q \in Prompts \ {p} : Kept(q)
  BY <1>3 DEF Kept
<1>10. Resident'
  <2>1. \A q \in Prompts : \/ prompt[q].pc \in Live /\ prompt'[q].at = prompt[q].at
                           \/ prompt'[q].pc \notin Live
    BY <1>2
  <2> QED
    BY <1>1, <1>3, <1>5, <1>6, <2>1, ResidentKept
<1>11. CommandPlace' /\ CommandOnce'
  <2>1. \A i \in 1 .. Len(actor[handle].cmds) :
            actor[handle].cmds[i].k # "plan" => Kept(actor[handle].cmds[i].p)
    BY <1>1, <1>8, <1>9, Members DEF NotCommanded
  <2> QED
    BY <1>1, <1>3, <1>5, <1>6, <2>1, CommandsKept
<1>12. WorkPlace'
  BY <1>3, <1>5 DEF WorkPlace
<1>13. PendingPlace' /\ QueuedPlace'
  <2>1. \A q \in Prompts : prompt'[q].pc = prompt[q].pc
    BY <1>2
  <2>2. \A i \in 1 .. Len(actor[handle].pending) : actor[handle].pending[i] # Plan =>
            prompt'[actor[handle].pending[i]].pc = prompt[actor[handle].pending[i]].pc
    BY <1>1, <2>1, Members
  <2> QED
    BY <1>1, <1>3, <1>5, <1>6, <2>1, <2>2, PendingKept
<1>14. ReplyPlace' /\ HarnessKnown'
  <2>1. /\ prompt'[p].pc = "rebuild" /\ prompt'[p].reply \in {"ok", "refused"}
        /\ prompt'[p].reply = "ok" => prompt'[p].read = actor'[handle].def
        /\ prompt'[p].reply = "refused" => actor'[handle].def = actor[handle].def
    BY <1>3, <1>7 DEF SameTask
  <2>2. replies' = Append(replies, p) /\ applied' = applied /\ handle' = handle
    BY <1>3, <1>5
  <2> QED
    BY <1>1, <1>3, <1>6, <1>8, <1>9, <2>1, <2>2, RepliesGrow
<1> QED
  BY <1>1, <1>10, <1>11, <1>12, <1>13, <1>14 DEF HarnessInv, PlaceInv

LEMMA TakePlanPlaces ==
  ASSUME HarnessInv, NEW a \in Actors, TakePlan(a)
  PROVE  HarnessInv'
<1> USE DefinitionsAssumption
<1>1. a = handle /\ handle # None /\ ShapeInv /\ ShapeInv'
  BY ActsAsHandle, TakePlanFacts DEF TakePlan, Takes, HarnessInv
<1>3. /\ Len(actor[handle].cmds) > 0
      /\ actor'[handle].up = actor[handle].up /\ actor'[handle].def = actor[handle].def
      /\ actor'[handle].cmds = Tail(actor[handle].cmds) /\ actor'[handle].work = actor[handle].work
      /\ actor'[handle].pending = actor[handle].pending
      /\ \A b \in Actors \ {handle} : actor'[b] = actor[b]
  BY <1>1, TakePlanFacts
<1>4. actor[handle].work = None /\ actor[handle].cmds[1].k = "plan"
  BY <1>1, TakenFacts DEF TakePlan, Takes
<1>5. UNCHANGED <<store, applied, handle, saved, prompt, opening, replies, restarts>>
  BY DEF TakePlan
<1>6. /\ Resident /\ CommandPlace /\ CommandOnce /\ WorkPlace /\ PendingPlace
      /\ QueuedPlace /\ ReplyPlace /\ HarnessKnown
  BY DEF HarnessInv, PlaceInv
<1>2. \A q \in Prompts : prompt'[q].pc = prompt[q].pc /\ prompt'[q].at = prompt[q].at /\ Kept(q)
  BY <1>5 DEF Kept
<1>10. Resident'
  <2>1. \A q \in Prompts : \/ prompt[q].pc \in Live /\ prompt'[q].at = prompt[q].at
                           \/ prompt'[q].pc \notin Live
    BY <1>2
  <2> QED
    BY <1>1, <1>3, <1>5, <1>6, <2>1, ResidentKept
<1>11. CommandPlace' /\ CommandOnce'
  BY <1>1, <1>2, <1>3, <1>4, <1>5, <1>6, CommandsTaken
<1>12. WorkPlace'
  BY <1>3, <1>4, <1>5 DEF WorkPlace
<1>13. PendingPlace' /\ QueuedPlace'
  <2>1. \A q \in Prompts : prompt'[q].pc = prompt[q].pc
    BY <1>2
  <2>2. \A i \in 1 .. Len(actor[handle].pending) : actor[handle].pending[i] # Plan =>
            prompt'[actor[handle].pending[i]].pc = prompt[actor[handle].pending[i]].pc
    BY <1>1, <2>1, Members
  <2> QED
    BY <1>1, <1>3, <1>5, <1>6, <2>1, <2>2, PendingKept
<1>14. ReplyPlace' /\ HarnessKnown'
  <2>1. \A i \in 1 .. Len(replies) : Kept(replies[i])
    BY <1>1, <1>2, Members
  <2> QED
    BY <1>1, <1>3, <1>5, <1>6, <2>1, RepliesKept
<1> QED
  BY <1>1, <1>10, <1>11, <1>12, <1>13, <1>14 DEF HarnessInv, PlaceInv

(* A prompt moves on: it is in no place but the commands it sends.             *)
LEMMA BusyAnsweredPlaces ==
  ASSUME HarnessInv, NEW p \in Prompts, BusyAnswered(p)
  PROVE  HarnessInv'
<1> USE DefinitionsAssumption
<1>0. ShapeInv /\ Resident
  BY DEF HarnessInv, PlaceInv
<1>1. prompt[p].at = handle /\ handle # None /\ handle \in Actors /\ ShapeInv
  BY <1>0 DEF BusyAnswered, Resident, Preparing, ShapeInv, TypeOK
<1>3. /\ ShapeInv'
      /\ prompt[p].pc = "asked" /\ prompt[p].reply # None
      /\ prompt'[p].reply = None /\ SameTask(p)
      /\ \A q \in Prompts \ {p} : prompt'[q] = prompt[q]
      /\ \A b \in Actors \ {handle} : actor'[b] = actor[b]
      /\ actor'[handle].up = actor[handle].up /\ actor'[handle].def = actor[handle].def
      /\ actor'[handle].work = actor[handle].work /\ actor'[handle].pending = actor[handle].pending
      /\ \/ prompt'[p].pc = "refused" /\ actor' = actor
         \/ /\ prompt'[p].pc = "rebuild"
            /\ actor'[handle].cmds = Append(actor[handle].cmds, [k |-> "rebuild", p |-> p])
  BY <1>1, BusyAnsweredFacts
<1>5. UNCHANGED <<store, applied, handle, saved, opening, replies, restarts>>
  BY DEF BusyAnswered
<1>6. /\ Resident /\ CommandPlace /\ CommandOnce /\ WorkPlace /\ PendingPlace
      /\ QueuedPlace /\ ReplyPlace /\ HarnessKnown
  BY DEF HarnessInv, PlaceInv
<1>8. NotReplied(p) /\ NotCommanded(p) /\ NotPending(p) /\ actor[handle].work # p
  BY <1>1, <1>3, Elsewhere
<1>9. \A q \in Prompts \ {p} : Kept(q)
  BY <1>3 DEF Kept
<1>10. Resident'
  <2>1. \A q \in Prompts : \/ prompt[q].pc \in Live /\ prompt'[q].at = prompt[q].at
                           \/ prompt'[q].pc \notin Live
                           \/ prompt'[q].at = handle
    BY <1>1, <1>3 DEF SameTask
  <2> QED
    BY <1>1, <1>3, <1>5, <1>6, <2>1, ResidentKept
<1>11. CommandPlace' /\ CommandOnce'
  <2>1. CASE actor' = actor
    <3>1. \A i \in 1 .. Len(actor[handle].cmds) :
              actor[handle].cmds[i].k # "plan" => Kept(actor[handle].cmds[i].p)
      BY <1>1, <1>8, <1>9, Members DEF NotCommanded
    <3> QED
      BY <1>1, <1>3, <1>5, <1>6, <2>1, <3>1, CommandsKept
  <2>2. CASE /\ prompt'[p].pc = "rebuild"
             /\ actor'[handle].cmds = Append(actor[handle].cmds, [k |-> "rebuild", p |-> p])
    BY <1>1, <1>3, <1>5, <1>6, <1>8, <1>9, <2>2, CommandsSent
  <2> QED
    BY <1>3, <2>1, <2>2
<1>12. WorkPlace'
  <2>1. actor[handle].work # None => Kept(actor[handle].work)
    BY <1>1, <1>8, <1>9, ActorType DEF ShapeInv
  <2> QED
    BY <1>1, <1>3, <1>5, <1>6, <2>1, WorkKept
<1>13. PendingPlace' /\ QueuedPlace'
  <2>1. \A q \in Prompts : prompt'[q].pc = "queued" => prompt[q].pc = "queued"
    BY <1>3
  <2>2. \A i \in 1 .. Len(actor[handle].pending) : actor[handle].pending[i] # Plan =>
            prompt'[actor[handle].pending[i]].pc = prompt[actor[handle].pending[i]].pc
    BY <1>1, <1>3, <1>8, Members DEF NotPending
  <2> QED
    BY <1>1, <1>3, <1>5, <1>6, <2>1, <2>2, PendingKept
<1>14. ReplyPlace' /\ HarnessKnown'
  <2>1. \A i \in 1 .. Len(replies) : Kept(replies[i])
    BY <1>1, <1>8, <1>9, Members DEF NotReplied
  <2> QED
    BY <1>1, <1>3, <1>5, <1>6, <2>1, RepliesKept
<1> QED
  BY <1>3, <1>10, <1>11, <1>12, <1>13, <1>14 DEF HarnessInv, PlaceInv

LEMMA PromptMoves ==
  ASSUME HarnessInv, ShapeInv', handle # None, NEW p \in Prompts,
         prompt[p].pc \in {"idle", "dispatch"},
         UNCHANGED <<applied, handle, opening, replies>>,
         \A q \in Prompts \ {p} : Kept(q) /\ prompt'[q].at = prompt[q].at,
         prompt'[p].pc \notin Live \/ prompt'[p].at = handle,
         prompt'[p].pc \notin {"queued", "running"},
         \A b \in Actors \ {handle} : actor'[b] = actor[b],
         actor'[handle].up = actor[handle].up, actor'[handle].def = actor[handle].def,
         actor'[handle].work = actor[handle].work,
         actor'[handle].pending = actor[handle].pending,
         \/ actor'[handle].cmds = actor[handle].cmds
         \/ /\ prompt'[p].pc = "asked" /\ prompt'[p].reply = None
            /\ actor'[handle].cmds = Append(actor[handle].cmds, [k |-> "busy", p |-> p])
         \/ /\ prompt'[p].pc = "sent"
            /\ actor'[handle].cmds = Append(actor[handle].cmds, [k |-> "prompt", p |-> p])
  PROVE  HarnessInv'
<1> USE DefinitionsAssumption
<1>1. ShapeInv /\ ShapeInv' /\ handle \in Actors
  BY DEF HarnessInv, ShapeInv, TypeOK
<1>6. /\ Resident /\ CommandPlace /\ CommandOnce /\ WorkPlace /\ PendingPlace
      /\ QueuedPlace /\ ReplyPlace /\ HarnessKnown
  BY DEF HarnessInv, PlaceInv
<1>8. NotReplied(p) /\ NotCommanded(p) /\ NotPending(p) /\ actor[handle].work # p
  BY Elsewhere
<1>9. \A q \in Prompts \ {p} : Kept(q)
  OBVIOUS
<1>10. Resident'
  <2>1. \A q \in Prompts \ {p} : prompt'[q].pc = prompt[q].pc /\ prompt'[q].at = prompt[q].at
    BY DEF Kept
  <2>2. \A q \in Prompts : \/ prompt[q].pc \in Live /\ prompt'[q].at = prompt[q].at
                           \/ prompt'[q].pc \notin Live
                           \/ prompt'[q].at = handle
    BY <2>1
  <2> QED
    BY <1>1, <1>6, <2>2, ResidentKept
<1>11. CommandPlace' /\ CommandOnce'
  <2>1. CASE actor'[handle].cmds = actor[handle].cmds
    <3>1. \A i \in 1 .. Len(actor[handle].cmds) :
              actor[handle].cmds[i].k # "plan" => Kept(actor[handle].cmds[i].p)
      BY <1>1, <1>8, <1>9, Members DEF NotCommanded
    <3> QED
      BY <1>1, <1>6, <2>1, <3>1, CommandsKept
  <2>2. CASE /\ prompt'[p].pc = "asked" /\ prompt'[p].reply = None
             /\ actor'[handle].cmds = Append(actor[handle].cmds, [k |-> "busy", p |-> p])
    BY <1>1, <1>6, <1>8, <1>9, <2>2, CommandsSent
  <2>3. CASE /\ prompt'[p].pc = "sent"
             /\ actor'[handle].cmds = Append(actor[handle].cmds, [k |-> "prompt", p |-> p])
    BY <1>1, <1>6, <1>8, <1>9, <2>3, CommandsSent
  <2> QED
    BY <2>1, <2>2, <2>3
<1>12. WorkPlace'
  <2>1. actor[handle].work # None => Kept(actor[handle].work)
    BY <1>1, <1>8, <1>9, ActorType DEF ShapeInv
  <2> QED
    BY <1>1, <1>6, <2>1, WorkKept
<1>13. PendingPlace' /\ QueuedPlace'
  <2>1. \A q \in Prompts : prompt'[q].pc = "queued" => prompt[q].pc = "queued"
    BY <1>9 DEF Kept
  <2>2. \A i \in 1 .. Len(actor[handle].pending) : actor[handle].pending[i] # Plan =>
            prompt'[actor[handle].pending[i]].pc = prompt[actor[handle].pending[i]].pc
    BY <1>1, <1>9, <1>8, Members DEF NotPending, Kept
  <2> QED
    BY <1>1, <1>6, <2>1, <2>2, PendingKept
<1>14. ReplyPlace' /\ HarnessKnown'
  <2>1. \A i \in 1 .. Len(replies) : Kept(replies[i])
    BY <1>1, <1>8, <1>9, Members DEF NotReplied
  <2> QED
    BY <1>1, <1>6, <2>1, RepliesKept
<1> QED
  BY <1>1, <1>10, <1>11, <1>12, <1>13, <1>14 DEF HarnessInv, PlaceInv

LEMMA ArrivesPlaces ==
  ASSUME HarnessInv, NEW p \in Prompts, Arrives(p)
  PROVE  HarnessInv'
<1>1. ShapeInv /\ handle # None
  BY DEF HarnessInv, Arrives
<1>2. /\ ShapeInv' /\ handle \in Actors /\ prompt[p].pc = "idle"
      /\ prompt'[p].pc = IF applied = store THEN "dispatch" ELSE "asked"
      /\ prompt'[p].at = handle /\ prompt'[p].reply = None
      /\ \A q \in Prompts \ {p} :
            /\ prompt'[q].pc = prompt[q].pc /\ prompt'[q].reply = prompt[q].reply
            /\ prompt'[q].at = prompt[q].at /\ prompt'[q].read = prompt[q].read
      /\ \A b \in Actors \ {handle} : actor'[b] = actor[b]
      /\ actor'[handle].up = actor[handle].up /\ actor'[handle].def = actor[handle].def
      /\ actor'[handle].work = actor[handle].work /\ actor'[handle].pending = actor[handle].pending
      /\ \/ applied = store /\ actor' = actor
         \/ /\ applied # store
            /\ actor'[handle].cmds = Append(actor[handle].cmds, [k |-> "busy", p |-> p])
  BY <1>1, ArrivesFacts
<1>3. UNCHANGED <<applied, handle, opening, replies>>
  BY DEF Arrives
<1>4. \A q \in Prompts \ {p} : Kept(q) /\ prompt'[q].at = prompt[q].at
  BY <1>2 DEF Kept
<1>5. \/ actor'[handle].cmds = actor[handle].cmds
      \/ /\ prompt'[p].pc = "asked" /\ prompt'[p].reply = None
         /\ actor'[handle].cmds = Append(actor[handle].cmds, [k |-> "busy", p |-> p])
  BY <1>2
<1>6. prompt'[p].pc \in {"dispatch", "asked"}
  BY <1>2
<1> QED
  BY <1>1, <1>2, <1>3, <1>4, <1>5, <1>6, PromptMoves

LEMMA DispatchPlaces ==
  ASSUME HarnessInv, NEW p \in Prompts, Dispatches(p) \/ DispatchFails(p)
  PROVE  HarnessInv'
<1> USE DefinitionsAssumption
<1>1. prompt[p].pc = "dispatch" /\ ShapeInv /\ Resident
  BY DEF HarnessInv, PlaceInv, Dispatches, DispatchFails
<1>2. prompt[p].at = handle /\ handle # None /\ handle \in Actors
  BY <1>1 DEF Resident, Preparing, ShapeInv, TypeOK
<1>3. UNCHANGED <<applied, handle, opening, replies>>
  BY DEF Dispatches, DispatchFails
<1>4. CASE Dispatches(p)
  <2>1. /\ ShapeInv' /\ prompt'[p].pc = "sent" /\ SameTask(p)
        /\ \A q \in Prompts \ {p} : prompt'[q] = prompt[q]
        /\ \A b \in Actors \ {handle} : actor'[b] = actor[b]
        /\ actor'[handle].up = actor[handle].up /\ actor'[handle].def = actor[handle].def
        /\ actor'[handle].work = actor[handle].work
        /\ actor'[handle].pending = actor[handle].pending
        /\ actor'[handle].cmds = Append(actor[handle].cmds, [k |-> "prompt", p |-> p])
    BY <1>1, <1>2, <1>4, DispatchesFacts
  <2>2. \A q \in Prompts \ {p} : Kept(q) /\ prompt'[q].at = prompt[q].at
    BY <2>1 DEF Kept
  <2>3. prompt'[p].at = handle
    BY <1>2, <2>1 DEF SameTask
  <2> QED
    BY <1>1, <1>2, <1>3, <2>1, <2>2, <2>3, PromptMoves
<1>5. CASE DispatchFails(p)
  <2>1. /\ ShapeInv' /\ prompt'[p].pc = "refused" /\ actor' = actor
        /\ \A q \in Prompts \ {p} : prompt'[q] = prompt[q]
    BY <1>1, <1>5, DispatchFailsFacts DEF DispatchFails
  <2>2. \A q \in Prompts \ {p} : Kept(q) /\ prompt'[q].at = prompt[q].at
    BY <2>1 DEF Kept
  <2>3. prompt'[p].pc \notin Live
    BY <2>1 DEF Live, Preparing
  <2> QED
    BY <1>1, <1>2, <1>3, <2>1, <2>2, <2>3, PromptMoves
<1> QED
  BY <1>4, <1>5

LEMMA RebuildAnsweredPlaces ==
  ASSUME HarnessInv, NEW p \in Prompts, RebuildAnswered(p)
  PROVE  HarnessInv'
<1> USE DefinitionsAssumption
<1>6. /\ Resident /\ CommandPlace /\ CommandOnce /\ WorkPlace /\ PendingPlace
      /\ QueuedPlace /\ ReplyPlace /\ HarnessKnown
  BY DEF HarnessInv, PlaceInv
<1>3. /\ ShapeInv /\ ShapeInv'
      /\ replies # <<>> /\ p = Head(replies) /\ replies' = Tail(replies)
      /\ prompt'[p].reply = None /\ SameTask(p)
      /\ \A q \in Prompts \ {p} : prompt'[q] = prompt[q]
      /\ \/ prompt[p].reply = "ok" /\ prompt'[p].pc = "dispatch" /\ applied' = prompt[p].read
         \/ prompt[p].reply # "ok" /\ prompt'[p].pc = "refused" /\ applied' = applied
  BY RebuildAnsweredFacts DEF HarnessInv
<1>5. UNCHANGED <<store, handle, saved, actor, opening, restarts>>
  BY DEF RebuildAnswered
<1>1. handle # None /\ handle \in Actors /\ ShapeInv'
  BY <1>3, <1>6 DEF Resident, ShapeInv, TypeOK
<1>7. prompt[p].pc = "rebuild" /\ prompt[p].reply \in {"ok", "refused"}
  <2>1. 1 \in 1 .. Len(replies) /\ p = replies[1]
    BY <1>3, Members
  <2> QED
    BY <1>6, <2>1 DEF ReplyPlace
<1>8. NotCommanded(p) /\ NotPending(p) /\ actor[handle].work # p
  BY <1>1, <1>7, Elsewhere
<1>9. \A q \in Prompts \ {p} : Kept(q)
  BY <1>3 DEF Kept
<1>10. Resident'
  <2>1. \A q \in Prompts : \/ prompt[q].pc \in Live /\ prompt'[q].at = prompt[q].at
                           \/ prompt'[q].pc \notin Live
    BY <1>3, <1>7 DEF SameTask, Live, Preparing
  <2> QED
    BY <1>1, <1>3, <1>5, <1>6, <2>1, ResidentKept
<1>11. CommandPlace' /\ CommandOnce'
  <2>1. \A i \in 1 .. Len(actor[handle].cmds) :
            actor[handle].cmds[i].k # "plan" => Kept(actor[handle].cmds[i].p)
    BY <1>1, <1>3, <1>8, <1>9, Members DEF NotCommanded
  <2> QED
    BY <1>1, <1>3, <1>5, <1>6, <2>1, CommandsKept
<1>12. WorkPlace'
  <2>1. actor[handle].work # None => Kept(actor[handle].work)
    BY <1>1, <1>3, <1>8, <1>9, ActorType DEF ShapeInv
  <2> QED
    BY <1>1, <1>3, <1>5, <1>6, <2>1, WorkKept
<1>13. PendingPlace' /\ QueuedPlace'
  <2>1. \A q \in Prompts : prompt'[q].pc = "queued" => prompt[q].pc = "queued"
    BY <1>3
  <2>2. \A i \in 1 .. Len(actor[handle].pending) : actor[handle].pending[i] # Plan =>
            prompt'[actor[handle].pending[i]].pc = prompt[actor[handle].pending[i]].pc
    BY <1>1, <1>3, <1>8, Members DEF NotPending
  <2> QED
    BY <1>1, <1>3, <1>5, <1>6, <2>1, <2>2, PendingKept
<1>14. ReplyPlace' /\ HarnessKnown'
  <2> DEFINE rest == Tail(replies)
  <2>1. /\ rest = Tail(replies) /\ replies' = rest /\ handle' = handle
        /\ actor'[handle].def = actor[handle].def
        /\ prompt[p].reply = "ok" => applied' = prompt[p].read
        /\ prompt[p].reply # "ok" => applied' = applied
    BY <1>3, <1>5
  <2> HIDE DEF rest
  <2> QED
    BY <1>1, <1>3, <1>6, <1>9, <2>1, RepliesTaken
<1> QED
  BY <1>1, <1>10, <1>11, <1>12, <1>13, <1>14 DEF HarnessInv, PlaceInv

(* Without a registered actor there is nothing to disturb.                     *)
LEMMA NobodyHome ==
  ASSUME HarnessInv, ShapeInv', handle = None, UNCHANGED <<applied, handle, actor, replies>>,
         \A q \in Prompts : prompt'[q].pc = prompt[q].pc,
         \A t \in Activations : opening'[t].pc # "registered"
  PROVE  HarnessInv'
<1> USE DefinitionsAssumption
<1>6. /\ Resident /\ CommandPlace /\ CommandOnce /\ WorkPlace /\ PendingPlace
      /\ QueuedPlace /\ ReplyPlace /\ HarnessKnown
  BY DEF HarnessInv, PlaceInv
<1>1. /\ replies = <<>> /\ Len(replies) = 0
      /\ \A q \in Prompts : prompt[q].pc \notin Preparing \cup {"queued", "running"}
  BY <1>6, EmptySeq DEF Resident
<1>2. Resident'
  BY <1>1, <1>6 DEF Resident
<1>3. CommandPlace' /\ CommandOnce' /\ WorkPlace' /\ PendingPlace' /\ HarnessKnown'
  BY DEF CommandPlace, CommandOnce, WorkPlace, PendingPlace, HarnessKnown
<1>4. QueuedPlace' /\ ReplyPlace'
  BY <1>1 DEF QueuedPlace, ReplyPlace
<1> QED
  BY <1>2, <1>3, <1>4 DEF HarnessInv, PlaceInv

(* The registered actor and the prompts stay as they are, up to the command    *)
(* that asks again for an approval.                                            *)
LEMMA StandsStill ==
  ASSUME HarnessInv, ShapeInv', handle # None, UNCHANGED <<handle, replies>>,
         applied' \in {applied, None},
         \A q \in Prompts : Kept(q) /\ prompt'[q].at = prompt[q].at,
         \A t \in Activations : opening'[t].pc # "opening",
         \A b \in Actors \ {handle} : actor'[b] = actor[b],
         actor'[handle].up = actor[handle].up, actor'[handle].def = actor[handle].def,
         actor'[handle].work = actor[handle].work,
         actor'[handle].pending = actor[handle].pending,
         \/ actor'[handle].cmds = actor[handle].cmds
         \/ actor'[handle].cmds = Append(actor[handle].cmds, [k |-> "plan", p |-> None])
  PROVE  HarnessInv'
<1> USE DefinitionsAssumption
<1>1. ShapeInv /\ ShapeInv' /\ handle \in Actors
  BY DEF HarnessInv, ShapeInv, TypeOK
<1>6. /\ Resident /\ CommandPlace /\ CommandOnce /\ WorkPlace /\ PendingPlace
      /\ QueuedPlace /\ ReplyPlace /\ HarnessKnown
  BY DEF HarnessInv, PlaceInv
<1>9. \A q \in Prompts : prompt'[q].pc = prompt[q].pc
  BY DEF Kept
<1>10. Resident'
  BY <1>1, <1>6, <1>9 DEF Resident
<1>11. CommandPlace' /\ CommandOnce'
  <2>1. CASE actor'[handle].cmds = actor[handle].cmds
    <3>1. \A i \in 1 .. Len(actor[handle].cmds) :
              actor[handle].cmds[i].k # "plan" => Kept(actor[handle].cmds[i].p)
      BY <1>1, Members
    <3> QED
      BY <1>1, <1>6, <2>1, <3>1, CommandsKept
  <2>2. CASE actor'[handle].cmds = Append(actor[handle].cmds, [k |-> "plan", p |-> None])
    <3>1. \A q \in Prompts : Kept(q)
      OBVIOUS
    <3> QED
      BY <1>1, <1>6, <2>2, <3>1, CommandsSent
  <2> QED
    BY <2>1, <2>2
<1>12. WorkPlace'
  <2>1. actor[handle].work # None => Kept(actor[handle].work)
    BY <1>1, ActorType DEF ShapeInv
  <2> QED
    BY <1>1, <1>6, <2>1, WorkKept
<1>13. PendingPlace' /\ QueuedPlace'
  <2>1. \A i \in 1 .. Len(actor[handle].pending) : actor[handle].pending[i] # Plan =>
            prompt'[actor[handle].pending[i]].pc = prompt[actor[handle].pending[i]].pc
    BY <1>1, <1>9, Members
  <2> QED
    BY <1>1, <1>6, <1>9, <2>1, PendingKept
<1>14. ReplyPlace' /\ HarnessKnown'
  <2>1. \A i \in 1 .. Len(replies) : Kept(replies[i])
    BY <1>1, Members
  <2> QED
    BY <1>1, <1>6, <2>1, RepliesKept
<1> QED
  BY <1>1, <1>10, <1>11, <1>12, <1>13, <1>14 DEF HarnessInv, PlaceInv

LEMMA StorePlaces ==
  ASSUME HarnessInv, SaveOverlay \/ \E v \in Versions : MovePackage(v)
  PROVE  HarnessInv'
<1>1. ShapeInv /\ ShapeInv' /\ store' \in Definitions /\ prompt' = Witnessed(store')
  BY SaveOverlayFacts, MovePackageFacts DEF HarnessInv
<1>2. UNCHANGED <<applied, handle, saved, actor, opening, replies, restarts>>
  BY DEF SaveOverlay, MovePackage
<1>3. \A q \in Prompts : Kept(q) /\ prompt'[q].pc = prompt[q].pc /\ prompt'[q].at = prompt[q].at
  BY <1>1, WitnessedFacts DEF Kept, SameTask, ShapeInv
<1>4. Resident
  BY DEF HarnessInv, PlaceInv
<1>5. CASE handle = None
  BY <1>1, <1>2, <1>3, <1>4, <1>5, NobodyHome DEF Resident
<1>6. CASE handle # None
  BY <1>1, <1>2, <1>3, <1>4, <1>6, StandsStill DEF Resident
<1> QED
  BY <1>5, <1>6

LEMMA SuspendPlaces ==
  ASSUME HarnessInv, Suspend
  PROVE  HarnessInv'
<1>1. ShapeInv' /\ Resident
  BY SuspendFacts DEF HarnessInv, PlaceInv
<1>2. applied # None /\ applied' = None
      /\ UNCHANGED <<store, handle, saved, actor, prompt, opening, replies, restarts>>
  BY DEF Suspend
<1>3. \A q \in Prompts : Kept(q) /\ prompt'[q].at = prompt[q].at
  BY <1>2 DEF Kept
<1> QED
  BY <1>1, <1>2, <1>3, StandsStill DEF Resident

LEMMA LoadEndsPlaces ==
  ASSUME HarnessInv, NEW t \in Activations, NEW pending \in BOOLEAN, LoadEnds(t, pending)
  PROVE  HarnessInv'
<1>1. /\ ShapeInv' /\ opening[t].pc = "registered" /\ applied' = None
      /\ opening'[t].pc = "idle" /\ \A u \in Activations \ {t} : opening'[u] = opening[u]
      /\ \/ actor' = actor
         \/ /\ handle \in Actors
            /\ \A b \in Actors \ {handle} : actor'[b] = actor[b]
            /\ actor'[handle].up = actor[handle].up /\ actor'[handle].def = actor[handle].def
            /\ actor'[handle].work = actor[handle].work
            /\ actor'[handle].pending = actor[handle].pending
            /\ actor'[handle].cmds = Append(actor[handle].cmds, [k |-> "plan", p |-> None])
  BY LoadEndsFacts DEF HarnessInv
<1>2. UNCHANGED <<store, handle, saved, prompt, replies, restarts>>
  BY DEF LoadEnds
<1>3. \A q \in Prompts : Kept(q) /\ prompt'[q].at = prompt[q].at
  BY <1>2 DEF Kept
<1>4. Resident
  BY DEF HarnessInv, PlaceInv
<1>5. handle # None /\ \A u \in Activations : opening'[u].pc # "opening"
  BY <1>1, <1>4 DEF Resident
<1> QED
  BY <1>1, <1>2, <1>3, <1>5, StandsStill

LEMMA OpeningPlaces ==
  ASSUME HarnessInv, NEW t \in Activations, ActivateBegins(t) \/ OpenFails(t)
  PROVE  HarnessInv'
<1>1. ShapeInv /\ ShapeInv' /\ Resident
  BY ActivateBeginsFacts, OpenFailsFacts DEF HarnessInv, PlaceInv
<1>2. UNCHANGED <<store, applied, handle, saved, actor, prompt, replies, restarts>>
  BY DEF ActivateBegins, OpenFails
<1>3. handle = None
  BY <1>1 DEF Resident, ActivateBegins, OpenFails
<1>4. \A u \in Activations : opening'[u].pc # "registered"
  BY <1>1, <1>3 DEF Resident, ActivateBegins, OpenFails, ShapeInv, TypeOK, NotOpening, Opening
<1> QED
  BY <1>1, <1>2, <1>3, <1>4, NobodyHome

(* An actor is opened: nobody was waiting for one, and, with one activation at *)
(* a time, none is still opening another.                                      *)
LEMMA OpensPlaces ==
  ASSUME HarnessInv, OneOpening, NEW t \in Activations, NEW a \in Actors,
         NewOpens(t, a) \/ LoadOpens(t, a)
  PROVE  HarnessInv'
<1> USE DefinitionsAssumption
<1>6. /\ Resident /\ CommandPlace /\ CommandOnce /\ WorkPlace /\ PendingPlace
      /\ QueuedPlace /\ ReplyPlace /\ HarnessKnown
  BY DEF HarnessInv, PlaceInv
<1>1. /\ ShapeInv' /\ opening[t].pc = "opening"
      /\ \A b \in Actors \ {a} : actor'[b] = actor[b]
      /\ actor'[a].up /\ actor'[a].cmds = <<>>
      /\ actor'[a].work = None /\ actor'[a].pending = <<>>
      /\ opening'[t].pc # "opening" /\ \A u \in Activations \ {t} : opening'[u] = opening[u]
  <2>1. ShapeInv
    BY DEF HarnessInv
  <2>2. CASE NewOpens(t, a)
    BY <2>1, <2>2, NewOpensFacts
  <2>3. CASE LoadOpens(t, a)
    BY <2>1, <2>3, LoadOpensFacts
  <2> QED
    BY <2>2, <2>3
<1>2. UNCHANGED <<store, prompt, replies, restarts>> /\ handle' = a
  BY DEF NewOpens, LoadOpens
<1>3. handle = None /\ applied = None /\ replies = <<>> /\ Len(replies) = 0
      /\ \A q \in Prompts : prompt[q].pc \notin Preparing \cup {"queued", "running"}
  BY <1>1, <1>6, EmptySeq DEF Resident
<1>4. applied' # None => applied' = actor'[a].def
  <2>1. ShapeInv
    BY DEF HarnessInv
  <2>2. CASE NewOpens(t, a)
    BY <2>1, <2>2, NewOpensFacts DEF NewOpens
  <2>3. CASE LoadOpens(t, a)
    BY <1>3, <2>3 DEF LoadOpens
  <2> QED
    BY <2>2, <2>3
<1>5. \A u \in Activations : opening'[u].pc # "opening"
  BY <1>1 DEF OneOpening
<1>7. Resident'
  BY <1>1, <1>2, <1>3, <1>5, <1>6 DEF Resident
<1>8. Len(actor'[a].cmds) = 0 /\ Len(actor'[a].pending) = 0
  BY <1>1
<1>9. CommandPlace' /\ CommandOnce' /\ WorkPlace' /\ PendingPlace'
  BY <1>1, <1>2, <1>8 DEF CommandPlace, CommandOnce, WorkPlace, PendingPlace
<1>10. QueuedPlace' /\ ReplyPlace'
  BY <1>2, <1>3 DEF QueuedPlace, ReplyPlace
<1>11. HarnessKnown'
  BY <1>2, <1>3, <1>4 DEF HarnessKnown
<1> QED
  BY <1>1, <1>7, <1>9, <1>10, <1>11 DEF HarnessInv, PlaceInv

LEMMA HostRestartsPlaces ==
  ASSUME HarnessInv, HostRestarts
  PROVE  HarnessInv'
<1> USE DefinitionsAssumption
<1>1. /\ ShapeInv'
      /\ \A a \in Actors : /\ actor'[a].up = FALSE /\ actor'[a].cmds = <<>>
                           /\ actor'[a].work = None /\ actor'[a].pending = <<>>
      /\ \A t \in Activations : opening'[t].pc = "idle"
      /\ \A p \in Prompts : prompt'[p].pc \in {"idle", "done", "refused"}
  BY HostRestartsFacts DEF HarnessInv
<1>2. applied' = None /\ handle' = None /\ replies' = <<>> /\ Len(replies') = 0
  BY DEF HostRestarts
<1>3. Resident'
  BY <1>1, <1>2 DEF Resident, Preparing
<1>4. CommandPlace' /\ CommandOnce' /\ WorkPlace' /\ PendingPlace' /\ HarnessKnown'
  BY <1>2 DEF CommandPlace, CommandOnce, WorkPlace, PendingPlace, HarnessKnown
<1>5. QueuedPlace' /\ ReplyPlace'
  BY <1>1, <1>2 DEF QueuedPlace, ReplyPlace
<1> QED
  BY <1>1, <1>3, <1>4, <1>5 DEF HarnessInv, PlaceInv

(* A prompt that is queued runs at once when it is alone.                      *)
LEMMA Queues ==
  ASSUME HarnessInv, handle # None, NEW p \in Prompts \cup {Plan}, NEW r \in Actor,
         r.pending = Append(actor[handle].pending, p), r.running = actor[handle].running,
         p # Plan => prompt[p].pc = "sent", prompt' = StartedPrompts(r)
  PROVE  /\ \A q \in Prompts \ {p} : /\ Kept(q) /\ SameTask(q)
                                     /\ prompt'[q].pc = prompt[q].pc
         /\ p # Plan =>
              /\ prompt'[p].pc = IF actor[handle].pending = <<>> THEN "running" ELSE "queued"
              /\ prompt'[p].ran = IF actor[handle].pending = <<>> THEN r.def ELSE prompt[p].ran
              /\ prompt'[p].at = prompt[p].at /\ prompt'[p].read = prompt[p].read
              /\ prompt'[p].since = prompt[p].since /\ prompt'[p].crowded = prompt[p].crowded
              /\ prompt'[p].reply = prompt[p].reply
<1> USE DefinitionsAssumption
<1> DEFINE s == actor[handle].pending
           S == Prompts \cup {Plan}
<1>1. ShapeInv /\ TypeOK /\ PendingPlace /\ Sound(actor[handle]) /\ handle \in Actors
  BY Members DEF HarnessInv, PlaceInv, ShapeInv, ActorShape
<1>2. s \in Seq(S) /\ Len(s) \in Nat
  BY <1>1, Members
<1>3. actor[handle].running <=> s # <<>>
  BY <1>1 DEF Sound
<1>4. \A i \in 1 .. Len(s) : s[i] # Plan => prompt[s[i]].pc \in {"queued", "running"}
  BY <1>1 DEF PendingPlace
<1>5. /\ r.pending = Append(s, p) /\ r.running = actor[handle].running
  OBVIOUS
<1> HIDE DEF s, S
<1>6. /\ Append(s, p) \in Seq(S) /\ Append(s, p) # <<>>
      /\ Len(Append(s, p)) = Len(s) + 1 /\ Append(s, p)[Len(s) + 1] = p
      /\ \A i \in 1 .. Len(s) : Append(s, p)[i] = s[i]
      /\ Head(Append(s, p)) = IF s = <<>> THEN p ELSE Head(s)
  <2>1. p \in S
    BY DEF S
  <2> QED
    BY <1>2, <2>1, Appended
<1>7. DOMAIN Append(s, p) = 1 .. Len(s) + 1
  BY <1>6
<1>8. Starts(r) <=> s = <<>>
  BY <1>3, <1>5, <1>6 DEF Starts
<1>9. Starts(r) => Head(r.pending) = p
  BY <1>5, <1>6, <1>8
<1>10. ASSUME NEW q \in Prompts, q # p
       PROVE  ~(q \in {r.pending[i] : i \in DOMAIN r.pending} /\ prompt[q].pc = "sent")
  <2>1. SUFFICES ASSUME NEW i \in 1 .. Len(s) + 1, Append(s, p)[i] = q, prompt[q].pc = "sent"
                 PROVE  FALSE
    BY <1>5, <1>7
  <2>2. i \in 1 .. Len(s)
    BY <1>2, <1>6, <1>10, <2>1
  <2>3. s[i] = q
    BY <1>6, <2>1, <2>2
  <2> QED
    BY <1>4, <2>1, <2>2, <2>3
<1>11. p \in {r.pending[i] : i \in DOMAIN r.pending}
  <2>1. Len(s) + 1 \in DOMAIN r.pending /\ r.pending[Len(s) + 1] = p
    BY <1>2, <1>5, <1>6, <1>7
  <2> QED
    BY <2>1
<1>12. ASSUME NEW q \in Prompts \ {p}
       PROVE  Kept(q) /\ SameTask(q) /\ prompt'[q].pc = prompt[q].pc
  <2>1. ~(Starts(r) /\ q = Head(r.pending))
    BY <1>9
  <2> QED
    BY <1>1, <1>10, <2>1, StartedPromptsFacts DEF Kept, SameTask
<1>13. ASSUME p # Plan
       PROVE  /\ prompt'[p].pc = IF s = <<>> THEN "running" ELSE "queued"
              /\ prompt'[p].ran = IF s = <<>> THEN r.def ELSE prompt[p].ran
              /\ prompt'[p].at = prompt[p].at /\ prompt'[p].read = prompt[p].read
              /\ prompt'[p].since = prompt[p].since /\ prompt'[p].crowded = prompt[p].crowded
              /\ prompt'[p].reply = prompt[p].reply
  <2>1. p \in Prompts /\ prompt[p].pc = "sent"
    BY <1>13
  <2>2. CASE s = <<>>
    BY <1>1, <1>8, <1>9, <2>1, <2>2, StartedPromptsFacts
  <2>3. CASE s # <<>>
    BY <1>1, <1>8, <1>11, <2>1, <2>3, StartedPromptsFacts
  <2> QED
    BY <2>2, <2>3
<1> QED
  BY <1>12, <1>13 DEF s

LEMMA TakePromptPlaces ==
  ASSUME HarnessInv, NEW a \in Actors, TakePrompt(a)
  PROVE  HarnessInv'
<1> USE DefinitionsAssumption
<1> DEFINE p == actor[handle].cmds[1].p
           r == [Taken(handle) EXCEPT !.pending = Append(@, p)]
<1>1. a = handle /\ handle # None /\ ShapeInv /\ ShapeInv'
  BY ActsAsHandle, TakePromptFacts DEF TakePrompt, Takes, HarnessInv
<1>3. /\ p \in Prompts /\ actor[handle].cmds[1].k = "prompt" /\ Len(actor[handle].cmds) > 0
      /\ r \in Actor /\ r.pending = Append(actor[handle].pending, p)
      /\ r.running = actor[handle].running
      /\ prompt' = StartedPrompts(r)
      /\ actor'[handle].up = actor[handle].up /\ actor'[handle].def = actor[handle].def
      /\ actor'[handle].cmds = Tail(actor[handle].cmds) /\ actor'[handle].work = None
      /\ actor'[handle].pending = Append(actor[handle].pending, p)
      /\ \A b \in Actors \ {handle} : actor'[b] = actor[b]
  BY <1>1, TakePromptFacts
<1>5. UNCHANGED <<store, applied, handle, saved, opening, replies, restarts>>
  BY DEF TakePrompt
<1>6. /\ Resident /\ CommandPlace /\ CommandOnce /\ WorkPlace /\ PendingPlace
      /\ QueuedPlace /\ ReplyPlace /\ HarnessKnown
  BY DEF HarnessInv, PlaceInv
<1>7. prompt[p].pc = "sent"
  <2>1. 1 \in 1 .. Len(actor[handle].cmds)
    BY <1>1, <1>3, Members
  <2> QED
    BY <1>1, <1>3, <1>6, <2>1 DEF CommandPlace
<1> HIDE DEF p, r
<1>8. NotReplied(p) /\ NotPending(p)
  BY <1>1, <1>3, <1>7, Elsewhere
<1>9. /\ \A q \in Prompts \ {p} : Kept(q) /\ SameTask(q) /\ prompt'[q].pc = prompt[q].pc
      /\ prompt'[p].pc = IF actor[handle].pending = <<>> THEN "running" ELSE "queued"
      /\ prompt'[p].at = prompt[p].at
  BY <1>1, <1>3, <1>7, Queues
<1>10. Resident'
  <2>1. \A q \in Prompts : \/ prompt[q].pc \in Live /\ prompt'[q].at = prompt[q].at
                           \/ prompt'[q].pc \notin Live
    BY <1>7, <1>9 DEF SameTask, Live, Preparing
  <2> QED
    BY <1>1, <1>3, <1>5, <1>6, <2>1, ResidentKept
<1>11. CommandPlace' /\ CommandOnce'
  BY <1>1, <1>3, <1>5, <1>6, <1>9, CommandsTaken DEF p
<1>12. WorkPlace'
  BY <1>3, <1>5 DEF WorkPlace
<1>13. PendingPlace' /\ QueuedPlace'
  BY <1>1, <1>3, <1>5, <1>6, <1>8, <1>9, PendingGrows
<1>14. ReplyPlace' /\ HarnessKnown'
  <2>1. \A i \in 1 .. Len(replies) : Kept(replies[i])
    BY <1>1, <1>8, <1>9, Members DEF NotReplied
  <2> QED
    BY <1>1, <1>3, <1>5, <1>6, <2>1, RepliesKept
<1> QED
  BY <1>1, <1>10, <1>11, <1>12, <1>13, <1>14 DEF HarnessInv, PlaceInv

LEMMA PlanResumesPlaces ==
  ASSUME HarnessInv, NEW a \in Actors, PlanResumes(a)
  PROVE  HarnessInv'
<1> USE DefinitionsAssumption
<1> DEFINE r == [actor[handle] EXCEPT !.parked = FALSE, !.pending = Append(@, Plan)]
<1>1. a = handle /\ handle # None /\ ShapeInv /\ ShapeInv'
  BY ActsAsHandle, PlanResumesFacts DEF PlanResumes, HarnessInv
<1>3. /\ r \in Actor /\ r.pending = Append(actor[handle].pending, Plan)
      /\ r.running = actor[handle].running
      /\ prompt' = StartedPrompts(r)
      /\ actor'[handle].up = actor[handle].up /\ actor'[handle].def = actor[handle].def
      /\ actor'[handle].cmds = actor[handle].cmds
      /\ actor'[handle].work = actor[handle].work
      /\ actor'[handle].pending = Append(actor[handle].pending, Plan)
      /\ \A b \in Actors \ {handle} : actor'[b] = actor[b]
  BY <1>1, PlanResumesFacts
<1>5. UNCHANGED <<store, applied, handle, saved, opening, replies, restarts>>
  BY DEF PlanResumes
<1>6. /\ Resident /\ CommandPlace /\ CommandOnce /\ WorkPlace /\ PendingPlace
      /\ QueuedPlace /\ ReplyPlace /\ HarnessKnown
  BY DEF HarnessInv, PlaceInv
<1> HIDE DEF r
<1>9. \A q \in Prompts : Kept(q) /\ SameTask(q) /\ prompt'[q].pc = prompt[q].pc
  <2>1. \A q \in Prompts \ {Plan} : Kept(q) /\ SameTask(q) /\ prompt'[q].pc = prompt[q].pc
    BY <1>1, <1>3, Queues
  <2> QED
    BY <2>1
<1>10. Resident'
  <2>1. \A q \in Prompts : \/ prompt[q].pc \in Live /\ prompt'[q].at = prompt[q].at
                           \/ prompt'[q].pc \notin Live
    BY <1>9 DEF SameTask
  <2> QED
    BY <1>1, <1>3, <1>5, <1>6, <2>1, ResidentKept
<1>11. CommandPlace' /\ CommandOnce'
  <2>1. \A i \in 1 .. Len(actor[handle].cmds) :
            actor[handle].cmds[i].k # "plan" => Kept(actor[handle].cmds[i].p)
    BY <1>1, <1>9, Members
  <2> QED
    BY <1>1, <1>3, <1>5, <1>6, <2>1, CommandsKept
<1>12. WorkPlace'
  <2>1. actor[handle].work # None => Kept(actor[handle].work)
    BY <1>1, <1>9, ActorType DEF ShapeInv
  <2> QED
    BY <1>1, <1>3, <1>5, <1>6, <2>1, WorkKept
<1>13. PendingPlace' /\ QueuedPlace'
  BY <1>1, <1>3, <1>5, <1>6, <1>9, PendingGrows
<1>14. ReplyPlace' /\ HarnessKnown'
  <2>1. \A i \in 1 .. Len(replies) : Kept(replies[i])
    BY <1>1, <1>9, Members
  <2> QED
    BY <1>1, <1>3, <1>5, <1>6, <2>1, RepliesKept
<1> QED
  BY <1>1, <1>10, <1>11, <1>12, <1>13, <1>14 DEF HarnessInv, PlaceInv

(* A turn ends and the next prompt of the queue runs.                          *)
LEMMA Dequeues ==
  ASSUME HarnessInv, NEW a \in Actors, TurnEnds(a)
  PROVE  /\ a = handle /\ handle # None /\ actor[handle].pending # <<>>
         /\ \A q \in Prompts : q = actor[handle].pending[1] =>
               /\ prompt'[q].pc = "done" /\ prompt'[q].reply = prompt[q].reply /\ SameTask(q)
         /\ \A q \in Prompts : /\ Len(actor[handle].pending) >= 2
                              /\ q # actor[handle].pending[1] /\ q = actor[handle].pending[2]
               => /\ prompt'[q].pc = "running" /\ prompt'[q].ran = actor[handle].def
                  /\ prompt'[q].at = prompt[q].at /\ prompt'[q].read = prompt[q].read
                  /\ prompt'[q].since = prompt[q].since /\ prompt'[q].crowded = prompt[q].crowded
                  /\ prompt'[q].reply = prompt[q].reply
         /\ \A q \in Prompts : /\ q # actor[handle].pending[1]
                              /\ ~(/\ Len(actor[handle].pending) >= 2
                                   /\ q = actor[handle].pending[2])
               => Kept(q) /\ SameTask(q) /\ prompt'[q].pc = prompt[q].pc
<1> USE DefinitionsAssumption
<1> DEFINE s == actor[handle].pending
           S == Prompts \cup {Plan}
           r == [actor[handle] EXCEPT !.running = FALSE, !.pending = Tail(@)]
<1>1. a = handle /\ handle # None /\ ShapeInv /\ TypeOK /\ PendingPlace
  BY ActsAsHandle DEF TurnEnds, HarnessInv, PlaceInv, ShapeInv
<1>2. s \in Seq(S) /\ Len(s) \in Nat
  BY <1>1, Members
<1>3. /\ s # <<>> /\ r \in Actor /\ r.def = actor[handle].def /\ ~r.running
      /\ r.pending = Tail(s)
      /\ \A q \in Prompts : q = Head(s) =>
            prompt'[q].pc = "done" /\ prompt'[q].reply = prompt[q].reply /\ SameTask(q)
      /\ \A q \in Prompts : q # Head(s) => prompt'[q] = StartedPrompts(r)[q]
  BY <1>1, TurnEndsFacts
<1>4. \A i \in 1 .. Len(s) : s[i] # Plan => prompt[s[i]].pc \in {"queued", "running"}
  BY <1>1 DEF PendingPlace
<1>15. (actor[handle].pending # <<>>) <=> (s # <<>>)
  OBVIOUS
<1> HIDE DEF s, S, r
<1>6. /\ Tail(s) \in Seq(S) /\ Len(s) >= 1 /\ Len(Tail(s)) = Len(s) - 1
      /\ Head(s) = s[1]
      /\ \A i \in 1 .. Len(s) - 1 : Tail(s)[i] = s[i + 1]
      /\ Tail(s) = <<>> <=> Len(s) = 1
      /\ Tail(s) # <<>> => Head(Tail(s)) = s[2] /\ Len(s) >= 2
  BY <1>2, <1>3, Tailed
<1>7. DOMAIN Tail(s) = 1 .. Len(s) - 1
  BY <1>6
<1>8. Starts(r) <=> Len(s) >= 2
  BY <1>2, <1>3, <1>6 DEF Starts
<1>9. Starts(r) => Head(r.pending) = s[2]
  BY <1>3, <1>6 DEF Starts
<1>10. ASSUME NEW q \in Prompts
       PROVE  ~(q \in {r.pending[i] : i \in DOMAIN r.pending} /\ prompt[q].pc = "sent")
  <2>1. SUFFICES ASSUME NEW i \in 1 .. Len(s) - 1, Tail(s)[i] = q, prompt[q].pc = "sent"
                 PROVE  FALSE
    BY <1>3, <1>7
  <2>2. i + 1 \in 1 .. Len(s)
    BY <1>2, <1>6, <2>1
  <2>3. s[i + 1] = q
    BY <1>6, <2>1
  <2> QED
    BY <1>4, <2>1, <2>2, <2>3
<1>11. ASSUME NEW q \in Prompts, q = s[1]
       PROVE  prompt'[q].pc = "done" /\ prompt'[q].reply = prompt[q].reply /\ SameTask(q)
  BY <1>3, <1>6, <1>11
<1>12. ASSUME NEW q \in Prompts, q # s[1]
       PROVE  prompt'[q] = StartedPrompts(r)[q]
  BY <1>3, <1>6, <1>12
<1>13. ASSUME NEW q \in Prompts, q # s[1], Len(s) >= 2, q = s[2]
       PROVE  /\ prompt'[q].pc = "running" /\ prompt'[q].ran = actor[handle].def
              /\ prompt'[q].at = prompt[q].at /\ prompt'[q].read = prompt[q].read
              /\ prompt'[q].since = prompt[q].since /\ prompt'[q].crowded = prompt[q].crowded
              /\ prompt'[q].reply = prompt[q].reply
  <2>1. Starts(r) /\ q = Head(r.pending)
    BY <1>8, <1>9, <1>13
  <2> QED
    BY <1>1, <1>3, <1>12, <1>13, <2>1, StartedPromptsFacts
<1>14. ASSUME NEW q \in Prompts, q # s[1], ~(Len(s) >= 2 /\ q = s[2])
       PROVE  Kept(q) /\ SameTask(q) /\ prompt'[q].pc = prompt[q].pc
  <2>1. ~(Starts(r) /\ q = Head(r.pending))
    BY <1>8, <1>9, <1>14
  <2>2. /\ StartedPrompts(r)[q].at = prompt[q].at /\ StartedPrompts(r)[q].read = prompt[q].read
        /\ StartedPrompts(r)[q].reply = prompt[q].reply
        /\ StartedPrompts(r)[q].since = prompt[q].since
        /\ StartedPrompts(r)[q].crowded = prompt[q].crowded
        /\ StartedPrompts(r)[q].ran = prompt[q].ran
        /\ StartedPrompts(r)[q].pc =
             IF q \in {r.pending[i] : i \in DOMAIN r.pending} /\ prompt[q].pc = "sent"
             THEN "queued" ELSE prompt[q].pc
    <3>1. r \in Actor /\ TypeOK
      BY <1>1, <1>3
    <3> QED
      BY <2>1, <3>1, StartedPromptsFacts
  <2>3. StartedPrompts(r)[q].pc = prompt[q].pc
    BY <1>10, <2>2
  <2>4. prompt'[q] = StartedPrompts(r)[q]
    BY <1>12, <1>14
  <2> QED
    BY <2>2, <2>3, <2>4 DEF Kept, SameTask
<1>16. s # <<>>
  BY <1>3
<1> QED
  BY <1>1, <1>11, <1>13, <1>14, <1>16 DEF s

LEMMA TurnEndsPlaces ==
  ASSUME HarnessInv, NEW a \in Actors, TurnEnds(a)
  PROVE  HarnessInv'
<1> USE DefinitionsAssumption
<1>1. a = handle /\ handle # None /\ ShapeInv /\ ShapeInv'
  BY Dequeues, TurnEndsFacts DEF HarnessInv
<1>3. /\ actor[handle].pending # <<>>
      /\ actor'[handle].up = actor[handle].up /\ actor'[handle].def = actor[handle].def
      /\ actor'[handle].cmds = actor[handle].cmds /\ actor'[handle].work = None
      /\ actor'[handle].pending = Tail(actor[handle].pending)
      /\ \A b \in Actors \ {handle} : actor'[b] = actor[b]
  BY <1>1, TurnEndsFacts
<1>5. UNCHANGED <<store, applied, handle, saved, opening, replies, restarts>>
  BY DEF TurnEnds
<1>6. /\ Resident /\ CommandPlace /\ CommandOnce /\ WorkPlace /\ PendingPlace
      /\ QueuedPlace /\ ReplyPlace /\ HarnessKnown
  BY DEF HarnessInv, PlaceInv
<1>7. ASSUME NEW q \in Prompts, NotPending(q)
      PROVE  Kept(q) /\ SameTask(q)
  <2>1. 1 \in 1 .. Len(actor[handle].pending)
        /\ (Len(actor[handle].pending) >= 2 => 2 \in 1 .. Len(actor[handle].pending))
    BY <1>1, <1>3, Members, EmptySeq
  <2>2. /\ q # actor[handle].pending[1]
        /\ ~(Len(actor[handle].pending) >= 2 /\ q = actor[handle].pending[2])
    BY <1>7, <2>1 DEF NotPending
  <2> QED
    BY <2>2, Dequeues
<1>8. \A q \in Prompts : prompt[q].pc \notin {"queued", "running"} => Kept(q) /\ SameTask(q)
  BY <1>1, <1>7, Elsewhere
<1>9. \A q \in Prompts : prompt'[q].at = prompt[q].at
                         /\ (prompt[q].pc \in Live \/ prompt'[q].pc = prompt[q].pc)
  <2>1. \A q \in Prompts : prompt'[q].at = prompt[q].at
    BY Dequeues DEF SameTask
  <2> QED
    BY <1>8, <2>1 DEF Kept, Live
<1>10. Resident'
  <2>1. \A q \in Prompts : \/ prompt[q].pc \in Live /\ prompt'[q].at = prompt[q].at
                           \/ prompt'[q].pc \notin Live
    BY <1>9
  <2> QED
    BY <1>1, <1>3, <1>5, <1>6, <2>1, ResidentKept
<1>11. CommandPlace' /\ CommandOnce'
  <2>1. \A i \in 1 .. Len(actor[handle].cmds) : actor[handle].cmds[i].k # "plan" =>
           /\ actor[handle].cmds[i].p \in Prompts
           /\ prompt[actor[handle].cmds[i].p].pc \in {"asked", "rebuild", "sent"}
    BY <1>1, <1>6, Members DEF CommandPlace
  <2>2. \A i \in 1 .. Len(actor[handle].cmds) :
            actor[handle].cmds[i].k # "plan" => Kept(actor[handle].cmds[i].p)
    BY <1>8, <2>1
  <2> QED
    BY <1>1, <1>3, <1>5, <1>6, <2>2, CommandsKept
<1>12. WorkPlace'
  BY <1>3, <1>5 DEF WorkPlace
<1>13. PendingPlace' /\ QueuedPlace'
  <2> DEFINE rest == Tail(actor[handle].pending)
  <2>1. rest = Tail(actor[handle].pending) /\ actor'[handle].pending = rest
    BY <1>3
  <2>2. /\ \A q \in Prompts : q = actor[handle].pending[1] => prompt'[q].pc = "done"
        /\ Len(actor[handle].pending) >= 2 =>
              \A q \in Prompts : q # actor[handle].pending[1] /\ q = actor[handle].pending[2]
                                 => prompt'[q].pc = "running"
        /\ \A q \in Prompts : q # actor[handle].pending[1]
              /\ ~(Len(actor[handle].pending) >= 2 /\ q = actor[handle].pending[2])
              => prompt'[q].pc = prompt[q].pc
    BY Dequeues
  <2> HIDE DEF rest
  <2> QED
    BY <1>1, <1>3, <1>5, <1>6, <2>1, <2>2, PendingTaken
<1>14. ReplyPlace' /\ HarnessKnown'
  <2>1. \A i \in 1 .. Len(replies) : Kept(replies[i])
    BY <1>1, <1>6, <1>8, Members DEF ReplyPlace
  <2> QED
    BY <1>1, <1>3, <1>5, <1>6, <2>1, RepliesKept
<1> QED
  BY <1>1, <1>10, <1>11, <1>12, <1>13, <1>14 DEF HarnessInv, PlaceInv

LEMMA HarnessInit ==
  ASSUME Init
  PROVE  HarnessInv
<1> USE DefinitionsAssumption
<1>1. ShapeInv
  BY ShapeInit
<1>2. /\ handle = None /\ applied = None /\ replies = <<>> /\ Len(replies) = 0
      /\ \A a \in Actors : /\ actor[a].up = FALSE /\ actor[a].cmds = <<>>
                           /\ actor[a].work = None /\ actor[a].pending = <<>>
      /\ \A t \in Activations : opening[t].pc = "idle"
      /\ \A p \in Prompts : prompt[p].pc = "idle"
  BY DEF Init, NoActor, NewPrompt, NotOpening
<1>3. Resident
  BY <1>2 DEF Resident, Preparing
<1>4. CommandPlace /\ CommandOnce /\ WorkPlace /\ PendingPlace /\ HarnessKnown
  BY <1>2 DEF CommandPlace, CommandOnce, WorkPlace, PendingPlace, HarnessKnown
<1>5. QueuedPlace /\ ReplyPlace
  BY <1>2 DEF QueuedPlace, ReplyPlace
<1> QED
  BY <1>1, <1>3, <1>4, <1>5 DEF HarnessInv, PlaceInv

LEMMA HarnessStep ==
  ASSUME HarnessInv, OneOpening, [Next]_vars
  PROVE  HarnessInv'
<1>1. CASE SaveOverlay \/ \E v \in Versions : MovePackage(v)
  BY <1>1, StorePlaces
<1>2. ASSUME NEW a \in Actors, ActorStep(a) \/ TurnEnds(a) \/ PlanResumes(a)
      PROVE  HarnessInv'
  BY <1>2, AnswerBusyPlaces, TakePromptPlaces, TakeRebuildPlaces, TakePlanPlaces, RebuildOver,
     TurnEndsPlaces, PlanResumesPlaces DEF ActorStep
<1>3. ASSUME NEW p \in Prompts, Arrives(p) \/ PromptStep(p)
      PROVE  HarnessInv'
  BY <1>3, ArrivesPlaces, BusyAnsweredPlaces, RebuildAnsweredPlaces, DispatchPlaces DEF PromptStep
<1>4. ASSUME NEW t \in Activations, ActivateBegins(t) \/ OpenFails(t)
      PROVE  HarnessInv'
  BY <1>4, OpeningPlaces
<1>5. ASSUME NEW t \in Activations, NEW pending \in BOOLEAN, LoadEnds(t, pending)
      PROVE  HarnessInv'
  BY <1>5, LoadEndsPlaces
<1>6. ASSUME NEW t \in Activations, NEW a \in Actors, NewOpens(t, a) \/ LoadOpens(t, a)
      PROVE  HarnessInv'
  BY <1>6, OpensPlaces
<1>7. CASE Suspend
  BY <1>7, SuspendPlaces
<1>8. CASE HostRestarts
  BY <1>8, HostRestartsPlaces
<1>9. CASE UNCHANGED vars
  BY <1>9 DEF vars, HarnessInv, ShapeInv, TypeOK, ActorShape, PlaceInv, Resident, CommandPlace,
     CommandOnce, WorkPlace, PendingPlace, QueuedPlace, ReplyPlace, HarnessKnown
<1> QED
  BY <1>1, <1>2, <1>3, <1>4, <1>5, <1>6, <1>7, <1>8, <1>9 DEF Next

(* While no two activations are in flight, the recorded definition is the one  *)
(* of the resident actor's harness once every answered rebuild was taken:      *)
(* ensure_product_agent_overlays_applied may trust it (two activations may     *)
(* each open an actor, and the record of the one then belongs to the harness   *)
(* of the other).                                                              *)
THEOREM AppliedTruthful == Spec /\ []OneOpening => []AppliedIsHarness
<1>1. Init => HarnessInv
  BY HarnessInit
<1>2. HarnessInv /\ OneOpening /\ [Next]_vars => HarnessInv'
  BY HarnessStep
<1>3. HarnessInv => AppliedIsHarness
  <2>1. SUFFICES ASSUME HarnessInv, applied # None, handle # None, replies = <<>>
                 PROVE  applied = actor[handle].def
    BY DEF AppliedIsHarness
  <2>2. Len(replies) = 0
    BY <2>1
  <2> QED
    BY <2>1, <2>2 DEF HarnessInv, HarnessKnown
<1> QED
  BY <1>1, <1>2, <1>3, PTL DEF Spec

-------------------------------------------------------------------------------
(* What a prompt prepared alone runs under.                                    *)

SameView(q) ==
  /\ prompt'[q].pc = prompt[q].pc /\ prompt'[q].reply = prompt[q].reply
  /\ prompt'[q].read = prompt[q].read /\ prompt'[q].ran = prompt[q].ran
  /\ prompt'[q].crowded = prompt[q].crowded /\ prompt[q].since \subseteq prompt'[q].since

(* A queued prompt prepared alone leaves no way to a rebuild.                  *)
NoRebuild(q) ==
  prompt[q].pc # "rebuild" /\ ~(prompt[q].pc = "asked" /\ prompt[q].reply = "free")

LEMMA FreshStill ==
  ASSUME FreshInv, \A q \in Prompts : SameView(q),
         \A q \in Prompts : prompt[q].pc \in Live => actor'[handle'].def = actor[handle].def
  PROVE  FreshInv'
<1>1. CrowdKnown' /\ ReadSeen' /\ FreshWhenAlone'
  BY DEF FreshInv, CrowdKnown, ReadSeen, FreshWhenAlone, Waiting, SameView
<1>2. HarnessSeen'
  BY DEF FreshInv, HarnessSeen, SameView, Live, Preparing
<1> QED
  BY <1>1, <1>2 DEF FreshInv

LEMMA FreshMoves ==
  ASSUME FreshInv, NEW p \in Prompts, \A q \in Prompts \ {p} : SameView(q),
         prompt'[p].read = prompt[p].read, prompt'[p].crowded = prompt[p].crowded,
         prompt'[p].since = prompt[p].since,
         prompt'[p].pc \in Preparing => prompt[p].pc \in Preparing,
         prompt'[p].pc = "queued" => prompt[p].pc \in Preparing \cup {"queued"},
         ~prompt[p].crowded => \/ prompt'[p].ran = prompt[p].ran
                               \/ prompt'[p].ran \in prompt[p].since,
         actor'[handle'].def = actor[handle].def,
         ~prompt[p].crowded =>
           /\ prompt'[p].pc \in {"dispatch", "sent", "queued"} => actor[handle].def \in prompt[p].since
           /\ prompt'[p].pc = "rebuild" /\ prompt'[p].reply = "ok" => actor[handle].def = prompt[p].read
           /\ prompt'[p].pc = "queued" => \A q \in Prompts \ {p} : NoRebuild(q),
         \/ \A q \in Prompts \ {p} : prompt[q].pc = "queued" => prompt[q].crowded
         \/ prompt'[p].pc # "rebuild" /\ ~(prompt'[p].pc = "asked" /\ prompt'[p].reply = "free")
         \/ prompt[p].pc = "rebuild"
  PROVE  FreshInv'
<1>1. CrowdKnown /\ ReadSeen /\ FreshWhenAlone /\ HarnessSeen
  BY DEF FreshInv
<1>2. CrowdKnown'
  <2>1. \A q \in Prompts : /\ prompt'[q].pc \in Preparing => prompt[q].pc \in Preparing
                           /\ prompt'[q].crowded = prompt[q].crowded
    BY DEF SameView
  <2> QED
    BY <1>1, <2>1 DEF CrowdKnown
<1>3. ReadSeen'
  <2>1. SUFFICES ASSUME NEW q \in Prompts, prompt'[q].pc \in Preparing \cup {"queued"}
                 PROVE  prompt'[q].read \in prompt'[q].since
    BY DEF ReadSeen, Waiting
  <2>2. /\ prompt[q].pc \in Preparing \cup {"queued"} /\ prompt'[q].read = prompt[q].read
        /\ prompt[q].since \subseteq prompt'[q].since
    BY <2>1 DEF SameView
  <2> QED
    BY <1>1, <2>2 DEF ReadSeen, Waiting
<1>4. FreshWhenAlone'
  BY <1>1 DEF FreshWhenAlone, SameView
<1>5. HarnessSeen'
  <2>1. SUFFICES ASSUME NEW q \in Prompts, ~prompt'[q].crowded
        PROVE  /\ prompt'[q].pc \in {"dispatch", "sent", "queued"}
                    => actor'[handle'].def \in prompt'[q].since
               /\ prompt'[q].pc = "rebuild" /\ prompt'[q].reply = "ok"
                    => actor'[handle'].def = prompt'[q].read
               /\ prompt'[q].pc = "queued" =>
                    \A u \in Prompts : /\ prompt'[u].pc # "rebuild"
                                       /\ ~(prompt'[u].pc = "asked" /\ prompt'[u].reply = "free")
    BY DEF HarnessSeen
  <2>2. CASE q = p
    BY <2>1, <2>2 DEF NoRebuild, SameView
  <2>3. CASE q # p
    <3>1. /\ prompt'[q].pc = prompt[q].pc /\ prompt'[q].reply = prompt[q].reply
          /\ prompt'[q].read = prompt[q].read /\ ~prompt[q].crowded
          /\ prompt[q].since \subseteq prompt'[q].since
      BY <2>1, <2>3 DEF SameView
    <3>2. ASSUME prompt[q].pc = "queued"
          PROVE  \A u \in Prompts : /\ prompt'[u].pc # "rebuild"
                                     /\ ~(prompt'[u].pc = "asked" /\ prompt'[u].reply = "free")
      BY <1>1, <2>3, <3>1, <3>2 DEF HarnessSeen, SameView
    <3> QED
      BY <1>1, <3>1, <3>2 DEF HarnessSeen
  <2> QED
    BY <2>2, <2>3
<1> QED
  BY <1>2, <1>3, <1>4, <1>5 DEF FreshInv

LEMMA StoreFresh ==
  ASSUME HarnessInv, FreshInv, SaveOverlay \/ \E v \in Versions : MovePackage(v)
  PROVE  FreshInv'
<1>1. ShapeInv /\ store' \in Definitions /\ prompt' = Witnessed(store')
  BY SaveOverlayFacts, MovePackageFacts DEF HarnessInv
<1>2. UNCHANGED <<handle, actor>>
  BY DEF SaveOverlay, MovePackage
<1>3. \A q \in Prompts : SameView(q)
  BY <1>1, WitnessedFacts DEF SameView, ShapeInv
<1> QED
  BY <1>2, <1>3, FreshStill

(* The definition is free to change only while no prompt waits in the queue.   *)
LEMMA AnswerBusyFresh ==
  ASSUME HarnessInv, FreshInv, NEW a \in Actors, AnswerBusy(a)
  PROVE  FreshInv'
<1> USE DefinitionsAssumption
<1>1. a = handle /\ handle # None /\ ShapeInv /\ CommandPlace /\ QueuedPlace /\ handle' = handle
  BY ActsAsHandle DEF AnswerBusy, Takes, HarnessInv, PlaceInv
<1>2. PICK p \in Prompts :
         /\ actor[handle].cmds[1].p = p /\ actor[handle].cmds[1].k = "busy"
         /\ prompt'[p].pc = prompt[p].pc /\ SameTask(p)
         /\ prompt'[p].reply = IF Busy(actor[handle]) THEN "busy" ELSE "free"
         /\ \A q \in Prompts \ {p} : prompt'[q] = prompt[q]
  BY <1>1, AnswerBusyFacts
<1>3. Len(actor[handle].cmds) > 0 /\ actor'[handle].def = actor[handle].def
  BY <1>1, AnswerBusyFacts, TakenFacts DEF AnswerBusy
<1>4. prompt[p].pc = "asked"
  <2>1. 1 \in 1 .. Len(actor[handle].cmds)
    BY <1>1, <1>3, Members
  <2> QED
    BY <1>1, <1>2, <2>1 DEF CommandPlace
<1>5. prompt'[p].reply = "free" => \A q \in Prompts : prompt[q].pc # "queued"
  <2>1. SUFFICES ASSUME prompt'[p].reply = "free" PROVE \A q \in Prompts : prompt[q].pc # "queued"
    OBVIOUS
  <2>2. actor[handle].pending = <<>>
    BY <1>2, <2>1 DEF Busy
  <2>3. Len(actor[handle].pending) = 0
    BY <2>2
  <2> QED
    BY <1>1, <2>3 DEF QueuedPlace
<1>6. \A q \in Prompts \ {p} : SameView(q)
  BY <1>2 DEF SameView
<1>7. /\ prompt'[p].read = prompt[p].read /\ prompt'[p].crowded = prompt[p].crowded
      /\ prompt'[p].since = prompt[p].since /\ prompt'[p].ran = prompt[p].ran
      /\ prompt'[p].pc = "asked"
  BY <1>2, <1>4 DEF SameTask
<1> QED
  BY <1>1, <1>3, <1>4, <1>5, <1>6, <1>7, FreshMoves DEF Preparing

LEMMA TakePromptFresh ==
  ASSUME HarnessInv, FreshInv, NEW a \in Actors, TakePrompt(a)
  PROVE  FreshInv'
<1> USE DefinitionsAssumption
<1> DEFINE p == actor[handle].cmds[1].p
           r == [Taken(handle) EXCEPT !.pending = Append(@, p)]
<1>1. a = handle /\ handle # None /\ ShapeInv /\ CommandPlace /\ handle' = handle
  BY ActsAsHandle DEF TakePrompt, Takes, HarnessInv, PlaceInv
<1>2. /\ p \in Prompts /\ actor[handle].cmds[1].k = "prompt" /\ Len(actor[handle].cmds) > 0
      /\ r \in Actor /\ r.def = actor[handle].def
      /\ r.pending = Append(actor[handle].pending, p) /\ r.running = actor[handle].running
      /\ prompt' = StartedPrompts(r) /\ actor'[handle].def = actor[handle].def
  BY <1>1, TakePromptFacts
<1>3. prompt[p].pc = "sent"
  <2>1. 1 \in 1 .. Len(actor[handle].cmds)
    BY <1>1, <1>2, Members
  <2> QED
    BY <1>1, <1>2, <2>1 DEF CommandPlace
<1> HIDE DEF p, r
<1>4. /\ \A q \in Prompts \ {p} : Kept(q) /\ SameTask(q)
      /\ prompt'[p].pc \in {"running", "queued"}
      /\ prompt'[p].ran = r.def \/ prompt'[p].ran = prompt[p].ran
      /\ prompt'[p].read = prompt[p].read /\ prompt'[p].since = prompt[p].since
      /\ prompt'[p].crowded = prompt[p].crowded
  BY <1>1, <1>2, <1>3, Queues
<1>5. \A q \in Prompts \ {p} : SameView(q)
  BY <1>4 DEF SameView, Kept, SameTask
<1>6. ~prompt[p].crowded => /\ actor[handle].def \in prompt[p].since
                            /\ \A q \in Prompts \ {p} : prompt[q].pc \notin Preparing
  BY <1>2, <1>3 DEF FreshInv, HarnessSeen, CrowdKnown, Preparing
<1>7. ~prompt[p].crowded => \A q \in Prompts \ {p} : NoRebuild(q)
  BY <1>6 DEF NoRebuild, Preparing
<1> QED
  BY <1>1, <1>2, <1>3, <1>4, <1>5, <1>6, <1>7, FreshMoves DEF Preparing

LEMMA TakeRebuildFresh ==
  ASSUME HarnessInv, FreshInv, NEW a \in Actors, TakeRebuild(a)
  PROVE  FreshInv'
<1> USE DefinitionsAssumption
<1> DEFINE p == actor[handle].cmds[1].p
<1>1. a = handle /\ handle # None /\ ShapeInv /\ CommandPlace /\ handle' = handle
  BY ActsAsHandle DEF TakeRebuild, Takes, HarnessInv, PlaceInv
<1>2. /\ p \in Prompts /\ actor[handle].cmds[1].k = "rebuild" /\ Len(actor[handle].cmds) > 0
      /\ actor'[handle].def = actor[handle].def
      /\ \/ prompt' = prompt
         \/ /\ prompt'[p].pc = prompt[p].pc /\ prompt'[p].reply = "refused" /\ SameTask(p)
            /\ \A q \in Prompts \ {p} : prompt'[q] = prompt[q]
  BY <1>1, TakeRebuildFacts
<1>3. prompt[p].pc = "rebuild"
  <2>1. 1 \in 1 .. Len(actor[handle].cmds)
    BY <1>1, <1>2, Members
  <2> QED
    BY <1>1, <1>2, <2>1 DEF CommandPlace
<1> HIDE DEF p
<1>4. CASE prompt' = prompt
  <2>1. \A q \in Prompts : SameView(q)
    BY <1>4 DEF SameView
  <2> QED
    BY <1>1, <1>2, <2>1, FreshStill
<1>5. CASE /\ prompt'[p].pc = prompt[p].pc /\ prompt'[p].reply = "refused" /\ SameTask(p)
           /\ \A q \in Prompts \ {p} : prompt'[q] = prompt[q]
  <2>1. \A q \in Prompts \ {p} : SameView(q)
    BY <1>5 DEF SameView
  <2>2. /\ prompt'[p].read = prompt[p].read /\ prompt'[p].crowded = prompt[p].crowded
        /\ prompt'[p].since = prompt[p].since /\ prompt'[p].ran = prompt[p].ran
        /\ prompt'[p].pc = "rebuild" /\ prompt'[p].reply = "refused"
    BY <1>3, <1>5 DEF SameTask
  <2> QED
    BY <1>1, <1>2, <1>3, <2>1, <2>2, FreshMoves DEF Preparing
<1> QED
  BY <1>2, <1>4, <1>5

LEMMA RebuildFailsFresh ==
  ASSUME HarnessInv, FreshInv, NEW a \in Actors, RebuildFails(a)
  PROVE  FreshInv'
<1> USE DefinitionsAssumption
<1> DEFINE p == actor[handle].work
<1>1. a = handle /\ handle # None /\ ShapeInv /\ WorkPlace /\ handle' = handle
  BY ActsAsHandle DEF RebuildFails, HarnessInv, PlaceInv
<1>2. /\ p \in Prompts /\ actor'[handle].def = actor[handle].def
      /\ prompt'[p].pc = prompt[p].pc /\ prompt'[p].reply = "refused" /\ SameTask(p)
      /\ \A q \in Prompts \ {p} : prompt'[q] = prompt[q]
  BY <1>1, RebuildFailsFacts
<1>3. prompt[p].pc = "rebuild"
  BY <1>1, <1>2 DEF WorkPlace
<1> HIDE DEF p
<1>4. \A q \in Prompts \ {p} : SameView(q)
  BY <1>2 DEF SameView
<1>5. /\ prompt'[p].read = prompt[p].read /\ prompt'[p].crowded = prompt[p].crowded
      /\ prompt'[p].since = prompt[p].since /\ prompt'[p].ran = prompt[p].ran
      /\ prompt'[p].pc = "rebuild" /\ prompt'[p].reply = "refused"
  BY <1>2, <1>3 DEF SameTask
<1> QED
  BY <1>1, <1>2, <1>3, <1>4, <1>5, FreshMoves DEF Preparing

(* The harness changes: nobody prepared alone was relying on the old one.      *)
LEMMA RebuildEndsFresh ==
  ASSUME HarnessInv, FreshInv, NEW a \in Actors, RebuildEnds(a)
  PROVE  FreshInv'
<1> USE DefinitionsAssumption
<1> DEFINE p == actor[handle].work
<1>1. a = handle /\ handle # None /\ ShapeInv /\ WorkPlace /\ handle' = handle
  BY ActsAsHandle DEF RebuildEnds, HarnessInv, PlaceInv
<1>2. /\ p \in Prompts /\ actor'[handle].def = prompt[p].read
      /\ prompt'[p].pc = prompt[p].pc /\ prompt'[p].reply = "ok" /\ SameTask(p)
      /\ \A q \in Prompts \ {p} : prompt'[q] = prompt[q]
  BY <1>1, RebuildEndsFacts
<1>3. prompt[p].pc = "rebuild"
  BY <1>1, <1>2 DEF WorkPlace
<1> HIDE DEF p
<1>4. CrowdKnown /\ ReadSeen /\ FreshWhenAlone /\ HarnessSeen
  BY DEF FreshInv
<1>5. \A q \in Prompts : /\ prompt'[q].pc = prompt[q].pc /\ prompt'[q].read = prompt[q].read
                         /\ prompt'[q].ran = prompt[q].ran /\ prompt'[q].since = prompt[q].since
                         /\ prompt'[q].crowded = prompt[q].crowded
  BY <1>2 DEF SameTask
<1>6. CrowdKnown' /\ ReadSeen' /\ FreshWhenAlone'
  BY <1>4, <1>5 DEF CrowdKnown, ReadSeen, FreshWhenAlone, Waiting
<1>7. \A q \in Prompts \ {p} : ~prompt[q].crowded => prompt[q].pc \notin Preparing \cup {"queued"}
  BY <1>2, <1>3, <1>4 DEF CrowdKnown, HarnessSeen, Preparing
<1>8. HarnessSeen'
  BY <1>1, <1>2, <1>3, <1>5, <1>7 DEF HarnessSeen, Preparing
<1> QED
  BY <1>6, <1>8 DEF FreshInv

LEMMA TurnEndsFresh ==
  ASSUME HarnessInv, FreshInv, NEW a \in Actors, TurnEnds(a)
  PROVE  FreshInv'
<1> USE DefinitionsAssumption
<1>1. a = handle /\ handle # None /\ ShapeInv /\ PendingPlace /\ handle' = handle
  BY Dequeues DEF TurnEnds, HarnessInv, PlaceInv
<1>2. actor'[handle].def = actor[handle].def
  BY <1>1, TurnEndsFacts
<1>3. CrowdKnown /\ ReadSeen /\ FreshWhenAlone /\ HarnessSeen
  BY DEF FreshInv
<1>4. ASSUME NEW q \in Prompts
      PROVE  /\ prompt'[q].read = prompt[q].read /\ prompt'[q].since = prompt[q].since
             /\ prompt'[q].crowded = prompt[q].crowded /\ prompt'[q].reply = prompt[q].reply
             /\ \/ prompt'[q].pc = prompt[q].pc /\ prompt'[q].ran = prompt[q].ran
                \/ prompt'[q].pc = "done" /\ prompt'[q].ran = prompt[q].ran
                \/ /\ prompt[q].pc = "queued" /\ prompt'[q].pc = "running"
                   /\ prompt'[q].ran = actor[handle].def
  <2>1. CASE q = actor[handle].pending[1]
    BY <2>1, Dequeues DEF SameTask
  <2>2. CASE /\ Len(actor[handle].pending) >= 2
             /\ q # actor[handle].pending[1] /\ q = actor[handle].pending[2]
    <3>1. 2 \in 1 .. Len(actor[handle].pending) /\ q # Plan
      BY <1>1, <2>2, Members
    <3>2. prompt[q].pc = "queued"
      BY <1>1, <2>2, <3>1 DEF PendingPlace
    <3> QED
      BY <2>2, <3>2, Dequeues
  <2>3. CASE /\ q # actor[handle].pending[1]
             /\ ~(Len(actor[handle].pending) >= 2 /\ q = actor[handle].pending[2])
    BY <2>3, Dequeues DEF Kept, SameTask
  <2> QED
    BY <2>1, <2>2, <2>3
<1>5. \A q \in Prompts : ~prompt[q].crowded /\ prompt[q].pc = "queued"
                           => actor[handle].def \in prompt[q].since
  BY <1>3 DEF HarnessSeen
<1>6. CrowdKnown' /\ ReadSeen'
  BY <1>3, <1>4 DEF CrowdKnown, ReadSeen, Waiting, Preparing
<1>7. FreshWhenAlone'
  BY <1>3, <1>4, <1>5 DEF FreshWhenAlone
<1>8. HarnessSeen'
  BY <1>1, <1>2, <1>3, <1>4 DEF HarnessSeen
<1> QED
  BY <1>6, <1>7, <1>8 DEF FreshInv

LEMMA PlanFresh ==
  ASSUME HarnessInv, FreshInv, NEW a \in Actors, TakePlan(a) \/ PlanResumes(a)
  PROVE  FreshInv'
<1> USE DefinitionsAssumption
<1> DEFINE r == [actor[handle] EXCEPT !.parked = FALSE, !.pending = Append(@, Plan)]
<1>1. a = handle /\ handle # None /\ ShapeInv /\ handle' = handle
  BY ActsAsHandle DEF TakePlan, Takes, PlanResumes, HarnessInv
<1>2. actor'[handle].def = actor[handle].def
  BY <1>1, TakePlanFacts, PlanResumesFacts
<1>3. CASE TakePlan(a)
  <2>1. \A q \in Prompts : SameView(q)
    BY <1>3 DEF TakePlan, SameView
  <2> QED
    BY <1>1, <1>2, <2>1, FreshStill
<1>4. CASE PlanResumes(a)
  <2>1. /\ r \in Actor /\ r.pending = Append(actor[handle].pending, Plan)
        /\ r.running = actor[handle].running /\ prompt' = StartedPrompts(r)
    BY <1>1, <1>4, PlanResumesFacts
  <2> HIDE DEF r
  <2>2. \A q \in Prompts \ {Plan} : Kept(q) /\ SameTask(q)
    BY <1>1, <2>1, Queues
  <2>3. \A q \in Prompts : SameView(q)
    BY <2>2 DEF SameView, Kept, SameTask
  <2> QED
    BY <1>1, <1>2, <2>3, FreshStill
<1> QED
  BY <1>3, <1>4

(* A prompt that arrives alone finds no rebuild half recorded, so the record   *)
(* it trusts tells the truth.                                                  *)
LEMMA ArrivesFresh ==
  ASSUME HarnessInv, FreshInv, NEW p \in Prompts, Arrives(p)
  PROVE  FreshInv'
<1> USE DefinitionsAssumption
<1>1. ShapeInv /\ handle # None /\ handle' = handle /\ ReplyPlace /\ HarnessKnown
  BY DEF HarnessInv, PlaceInv, Arrives
<1>2. /\ prompt[p].pc = "idle"
      /\ prompt'[p].pc = IF applied = store THEN "dispatch" ELSE "asked"
      /\ prompt'[p].read = store /\ prompt'[p].reply = None
      /\ prompt'[p].ran = None /\ prompt'[p].since = {store}
      /\ prompt'[p].crowded <=> Crowd(p) # {}
      /\ \A q \in Prompts \ {p} :
            /\ prompt'[q].pc = prompt[q].pc /\ prompt'[q].reply = prompt[q].reply
            /\ prompt'[q].read = prompt[q].read /\ prompt'[q].ran = prompt[q].ran
            /\ prompt'[q].since = prompt[q].since
            /\ prompt'[q].crowded <=> (prompt[q].crowded \/ q \in Crowd(p))
      /\ actor'[handle].def = actor[handle].def
  BY <1>1, ArrivesFacts
<1>3. CrowdKnown /\ ReadSeen /\ FreshWhenAlone /\ HarnessSeen
  BY DEF FreshInv
<1>4. \A q \in Prompts : q \in Crowd(p) <=> q # p /\ prompt[q].pc \in Preparing
  BY DEF Crowd
<1>5. CrowdKnown'
  <2>1. SUFFICES ASSUME NEW q \in Prompts, NEW u \in Prompts, q # u,
                        prompt'[q].pc \in Preparing, prompt'[u].pc \in Preparing
                 PROVE  prompt'[q].crowded
    BY DEF CrowdKnown
  <2>2. CASE q = p
    BY <1>2, <1>4, <2>1, <2>2
  <2>3. CASE q # p
    BY <1>2, <1>4, <2>1, <2>3
  <2> QED
    BY <2>2, <2>3
<1>6. ReadSeen' /\ FreshWhenAlone'
  BY <1>2, <1>3 DEF ReadSeen, FreshWhenAlone, Waiting
<1>7. ASSUME ~prompt'[p].crowded, applied = store
      PROVE  actor[handle].def = store
  <2>1. \A q \in Prompts \ {p} : prompt[q].pc \notin Preparing
    BY <1>2, <1>4, <1>7
  <2>2. \A q \in Prompts : prompt[q].pc # "rebuild"
    BY <1>2, <2>1 DEF Preparing
  <2>3. ~(Len(replies) >= 1)
    BY <1>1, <2>2, Members DEF ReplyPlace
  <2>4. Len(replies) = 0
    BY <1>1, <2>3, Members
  <2>5. applied # None
    BY <1>1, <1>7 DEF ShapeInv, TypeOK
  <2> QED
    BY <1>1, <1>7, <2>4, <2>5 DEF HarnessKnown
<1>8. HarnessSeen'
  <2>1. SUFFICES ASSUME NEW q \in Prompts, ~prompt'[q].crowded
        PROVE  /\ prompt'[q].pc \in {"dispatch", "sent", "queued"}
                    => actor'[handle'].def \in prompt'[q].since
               /\ prompt'[q].pc = "rebuild" /\ prompt'[q].reply = "ok"
                    => actor'[handle'].def = prompt'[q].read
               /\ prompt'[q].pc = "queued" =>
                    \A u \in Prompts : /\ prompt'[u].pc # "rebuild"
                                       /\ ~(prompt'[u].pc = "asked" /\ prompt'[u].reply = "free")
    BY DEF HarnessSeen
  <2>2. CASE q = p
    BY <1>1, <1>2, <1>7, <2>1, <2>2
  <2>3. CASE q # p
    BY <1>1, <1>2, <1>3, <2>1, <2>3 DEF HarnessSeen
  <2> QED
    BY <2>2, <2>3
<1> QED
  BY <1>5, <1>6, <1>8 DEF FreshInv

LEMMA BusyAnsweredFresh ==
  ASSUME HarnessInv, FreshInv, NEW p \in Prompts, BusyAnswered(p)
  PROVE  FreshInv'
<1> USE DefinitionsAssumption
<1>1. prompt[p].at = handle /\ handle # None /\ handle \in Actors /\ ShapeInv /\ handle' = handle
  BY DEF BusyAnswered, HarnessInv, PlaceInv, Resident, Preparing, ShapeInv, TypeOK
<1>3. /\ prompt[p].pc = "asked" /\ prompt'[p].reply = None /\ SameTask(p)
      /\ \A q \in Prompts \ {p} : prompt'[q] = prompt[q]
      /\ actor'[handle].def = actor[handle].def
      /\ \/ prompt'[p].pc = "refused"
         \/ prompt[p].reply = "free" /\ prompt'[p].pc = "rebuild"
  BY <1>1, BusyAnsweredFacts
<1>4. \A q \in Prompts \ {p} : SameView(q)
  BY <1>3 DEF SameView
<1>5. /\ prompt'[p].read = prompt[p].read /\ prompt'[p].crowded = prompt[p].crowded
      /\ prompt'[p].since = prompt[p].since /\ prompt'[p].ran = prompt[p].ran
  BY <1>3 DEF SameTask
<1>6. \/ prompt'[p].pc = "refused"
      \/ \A q \in Prompts \ {p} : prompt[q].pc = "queued" => prompt[q].crowded
  BY <1>3 DEF FreshInv, HarnessSeen
<1>7. prompt'[p].pc \in {"refused", "rebuild"} /\ prompt'[p].reply # "ok"
  BY <1>3
<1> QED
  BY <1>1, <1>3, <1>4, <1>5, <1>6, <1>7, FreshMoves DEF Preparing

LEMMA RebuildAnsweredFresh ==
  ASSUME HarnessInv, FreshInv, NEW p \in Prompts, RebuildAnswered(p)
  PROVE  FreshInv'
<1> USE DefinitionsAssumption
<1>1. ShapeInv /\ handle' = handle /\ actor' = actor /\ ReplyPlace
  BY DEF RebuildAnswered, HarnessInv, PlaceInv
<1>3. /\ replies # <<>> /\ p = Head(replies) /\ prompt'[p].reply = None /\ SameTask(p)
      /\ \A q \in Prompts \ {p} : prompt'[q] = prompt[q]
      /\ \/ prompt[p].reply = "ok" /\ prompt'[p].pc = "dispatch"
         \/ prompt[p].reply # "ok" /\ prompt'[p].pc = "refused"
  BY <1>1, RebuildAnsweredFacts
<1>4. prompt[p].pc = "rebuild"
  <2>1. 1 \in 1 .. Len(replies) /\ p = replies[1]
    BY <1>1, <1>3, Members
  <2> QED
    BY <1>1, <2>1 DEF ReplyPlace
<1>5. \A q \in Prompts \ {p} : SameView(q)
  BY <1>3 DEF SameView
<1>6. /\ prompt'[p].read = prompt[p].read /\ prompt'[p].crowded = prompt[p].crowded
      /\ prompt'[p].since = prompt[p].since /\ prompt'[p].ran = prompt[p].ran
  BY <1>3 DEF SameTask
<1>7. ~prompt[p].crowded /\ prompt[p].reply = "ok" => actor[handle].def \in prompt[p].since
  BY <1>4 DEF FreshInv, HarnessSeen, ReadSeen, Waiting, Preparing
<1>8. prompt'[p].pc \in {"dispatch", "refused"}
      /\ (~prompt[p].crowded /\ prompt'[p].pc = "dispatch" => actor[handle].def \in prompt[p].since)
  BY <1>3, <1>7
<1> QED
  BY <1>1, <1>4, <1>5, <1>6, <1>8, FreshMoves DEF Preparing

LEMMA DispatchFresh ==
  ASSUME HarnessInv, FreshInv, NEW p \in Prompts, Dispatches(p) \/ DispatchFails(p)
  PROVE  FreshInv'
<1> USE DefinitionsAssumption
<1>1. prompt[p].pc = "dispatch" /\ ShapeInv /\ Resident /\ handle' = handle
  BY DEF HarnessInv, PlaceInv, Dispatches, DispatchFails
<1>2. prompt[p].at = handle /\ handle # None /\ handle \in Actors
  BY <1>1 DEF Resident, Preparing, ShapeInv, TypeOK
<1>3. /\ prompt'[p].pc \in {"sent", "refused"} /\ SameTask(p)
      /\ \A q \in Prompts \ {p} : prompt'[q] = prompt[q]
      /\ actor'[handle].def = actor[handle].def
  <2>1. CASE Dispatches(p)
    BY <1>1, <1>2, <2>1, DispatchesFacts
  <2>2. CASE DispatchFails(p)
    BY <1>1, <2>2, DispatchFailsFacts DEF DispatchFails
  <2> QED
    BY <2>1, <2>2
<1>4. \A q \in Prompts \ {p} : SameView(q)
  BY <1>3 DEF SameView
<1>5. /\ prompt'[p].read = prompt[p].read /\ prompt'[p].crowded = prompt[p].crowded
      /\ prompt'[p].since = prompt[p].since /\ prompt'[p].ran = prompt[p].ran
  BY <1>3 DEF SameTask
<1>6. ~prompt[p].crowded => actor[handle].def \in prompt[p].since
  BY <1>1 DEF FreshInv, HarnessSeen
<1> QED
  BY <1>1, <1>3, <1>4, <1>5, <1>6, FreshMoves DEF Preparing

(* Opening an actor disturbs nobody: no prompt waits while there is none.      *)
LEMMA OpeningFresh ==
  ASSUME HarnessInv, FreshInv, NEW t \in Activations,
         \/ ActivateBegins(t) \/ OpenFails(t)
         \/ \E a \in Actors : NewOpens(t, a) \/ LoadOpens(t, a)
  PROVE  FreshInv'
<1>1. handle = None /\ prompt' = prompt
  BY DEF HarnessInv, PlaceInv, Resident, ActivateBegins, OpenFails, NewOpens, LoadOpens
<1>2. \A q \in Prompts : SameView(q) /\ prompt[q].pc \notin Live
  BY <1>1 DEF SameView, HarnessInv, PlaceInv, Resident, Live
<1> QED
  BY <1>2, FreshStill

LEMMA LoadEndsFresh ==
  ASSUME HarnessInv, FreshInv, NEW t \in Activations, NEW pending \in BOOLEAN, LoadEnds(t, pending)
  PROVE  FreshInv'
<1>1. prompt' = prompt /\ handle' = handle
  BY DEF LoadEnds
<1>2. \/ actor' = actor
      \/ actor'[handle].def = actor[handle].def
  BY LoadEndsFacts DEF HarnessInv
<1>3. \A q \in Prompts : SameView(q)
  BY <1>1 DEF SameView
<1> QED
  BY <1>1, <1>2, <1>3, FreshStill

LEMMA HostRestartsFresh ==
  ASSUME HarnessInv, FreshInv, HostRestarts
  PROVE  FreshInv'
<1>1. \A p \in Prompts : prompt'[p].pc \in {"idle", "done", "refused"} /\ SameTask(p)
  BY HostRestartsFacts DEF HarnessInv
<1>2. CrowdKnown' /\ ReadSeen' /\ HarnessSeen'
  BY <1>1 DEF CrowdKnown, ReadSeen, HarnessSeen, Waiting, Preparing
<1>3. FreshWhenAlone'
  BY <1>1 DEF FreshInv, FreshWhenAlone, SameTask
<1> QED
  BY <1>2, <1>3 DEF FreshInv

LEMMA FreshInit ==
  ASSUME Init
  PROVE  FreshInv
<1>1. \A p \in Prompts : prompt[p].pc = "idle" /\ prompt[p].ran = None
  BY DEF Init, NewPrompt
<1> QED
  BY <1>1 DEF FreshInv, CrowdKnown, ReadSeen, HarnessSeen, FreshWhenAlone, Waiting, Preparing

LEMMA FreshStep ==
  ASSUME HarnessInv, FreshInv, [Next]_vars
  PROVE  FreshInv'
<1>1. CASE SaveOverlay \/ \E v \in Versions : MovePackage(v)
  BY <1>1, StoreFresh
<1>2. ASSUME NEW a \in Actors, ActorStep(a) \/ TurnEnds(a) \/ PlanResumes(a)
      PROVE  FreshInv'
  BY <1>2, AnswerBusyFresh, TakePromptFresh, TakeRebuildFresh, PlanFresh, RebuildEndsFresh,
     RebuildFailsFresh, TurnEndsFresh DEF ActorStep
<1>3. ASSUME NEW p \in Prompts, Arrives(p) \/ PromptStep(p)
      PROVE  FreshInv'
  BY <1>3, ArrivesFresh, BusyAnsweredFresh, RebuildAnsweredFresh, DispatchFresh DEF PromptStep
<1>4. ASSUME NEW t \in Activations, ActivateBegins(t) \/ OpenFails(t)
      PROVE  FreshInv'
  BY <1>4, OpeningFresh
<1>5. ASSUME NEW t \in Activations, NEW pending \in BOOLEAN, LoadEnds(t, pending)
      PROVE  FreshInv'
  BY <1>5, LoadEndsFresh
<1>6. ASSUME NEW t \in Activations, NEW a \in Actors, NewOpens(t, a) \/ LoadOpens(t, a)
      PROVE  FreshInv'
  BY <1>6, OpeningFresh
<1>7. CASE Suspend \/ UNCHANGED vars
  <2>1. UNCHANGED <<handle, actor, prompt>>
    BY <1>7 DEF Suspend, vars
  <2>2. \A q \in Prompts : SameView(q)
    BY <2>1 DEF SameView
  <2> QED
    BY <2>1, <2>2, FreshStill
<1>8. CASE HostRestarts
  BY <1>8, HostRestartsFresh
<1> QED
  BY <1>1, <1>2, <1>3, <1>4, <1>5, <1>6, <1>7, <1>8 DEF Next

(* While no two activations are in flight, a prompt that was prepared alone    *)
(* runs under a definition that was stored between its arrival and its start   *)
(* (the comparison, busy check, rebuild and record before each prompt in       *)
(* ensure_product_agent_overlays_applied).                                     *)
THEOREM PromptsFresh == Spec /\ []OneOpening => []FreshWhenAlone
<1>1. Init => HarnessInv /\ FreshInv
  BY HarnessInit, FreshInit
<1>2. HarnessInv /\ FreshInv /\ OneOpening /\ [Next]_vars => (HarnessInv /\ FreshInv)'
  BY HarnessStep, FreshStep
<1>3. FreshInv => FreshWhenAlone
  BY DEF FreshInv
<1> QED
  BY <1>1, <1>2, <1>3, PTL DEF Spec

===============================================================================
