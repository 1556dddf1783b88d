--------------------------- MODULE AgentDefinitions ---------------------------
(* How a persistent product Agent gets the definition its turns run under.     *)
(*                                                                             *)
(* The stored definition is the active Package version and the account's two   *)
(* overlays (agent.md, user.md); every save of an overlay gives it a revision  *)
(* nobody has seen, so an identity is <<package, number of saves>>.  Before    *)
(* each prompt MvpAgent::prompt compares that identity with the one recorded   *)
(* as applied, and rebuilds the harness through the session actor when they    *)
(* differ.  Prompts are tasks of the Host's one-threaded LocalSet; the session *)
(* actor runs on a thread of its own and takes commands from a FIFO channel,   *)
(* so every await of a prompt lets other prompts, saves, Package moves and     *)
(* activations in.                                                             *)
EXTENDS Naturals, Sequences, FiniteSets

CONSTANTS
  Prompts,      \* the session/prompt requests of a behaviour
  Activations,  \* callers of activate that may be in flight at once
  Actors,       \* session actors a behaviour may start, one per opening
  Versions,     \* versions the Package moves between (install, rollback)
  MaxSaves,     \* bound: overlay saves
  Restarts,     \* bound: Host restarts
  PlanMode,     \* whether a stored session may hold an unanswered plan approval
  Plan,         \* the turn started when such an approval is answered
  None

Definitions == [package : Versions, saves : 0 .. MaxSaves]

ASSUME DefinitionsAssumption ==
  /\ MaxSaves \in Nat /\ Restarts \in Nat /\ PlanMode \in BOOLEAN
  /\ Plan \notin Prompts /\ None \notin Prompts \cup Actors
  /\ None \notin Definitions \cup {"busy", "free", "ok", "refused"}

VARIABLES
  store,     \* the definition the database and the Package catalog give now
  applied,   \* applied_agent_definition_revisions[session], None when unknown
  handle,    \* MvpAgent.sessions[session]: the actor prompts are sent to
  saved,     \* the definition in the session's files, None before the first opening
  actor,     \* the session actors
  prompt,    \* the prompt tasks
  opening,   \* the activations
  replies,   \* prompts whose rebuild was answered, in the order they were woken
  restarts

vars == <<store, applied, handle, saved, actor, prompt, opening, replies, restarts>>

Preparing == {"asked", "rebuild", "dispatch", "sent"}

NoActor == [up |-> FALSE, def |-> None, cmds |-> <<>>, work |-> None,
            pending |-> <<>>, running |-> FALSE, parked |-> FALSE]

NewPrompt == [pc |-> "idle", at |-> None, read |-> None, reply |-> None,
              ran |-> None, since |-> {}, crowded |-> FALSE]

NotOpening == [pc |-> "idle", read |-> None, resumed |-> FALSE]

Init ==
  /\ store \in [package : Versions, saves : {0}]
  /\ applied = None
  /\ handle = None
  /\ saved = None
  /\ actor = [a \in Actors |-> NoActor]
  /\ prompt = [p \in Prompts |-> NewPrompt]
  /\ opening = [t \in Activations |-> NotOpening]
  /\ replies = <<>>
  /\ restarts = 0

(* A prompt that has arrived and has not started has seen every definition     *)
(* stored since; the two fields since and crowded record history and guard     *)
(* nothing.                                                                    *)
Waiting(p) == prompt[p].pc \in Preparing \cup {"queued"}

Witnessed(d) ==
  [p \in Prompts |->
     IF Waiting(p) THEN [prompt[p] EXCEPT !.since = @ \cup {d}] ELSE prompt[p]]

-------------------------------------------------------------------------------
(* What changes the stored definition.                                         *)

(* AgentOverlayStore::upsert and ::clear: the revision that was read is        *)
(* compared and replaced in one transaction.  A conflict changes nothing.      *)
SaveOverlayM ==
  /\ store.saves < MaxSaves
  /\ store' = [store EXCEPT !.saves = @ + 2]
  /\ prompt' = Witnessed(store')
  /\ UNCHANGED <<applied, handle, saved, actor, opening, replies, restarts>>

SaveOverlay ==
  /\ store.saves < MaxSaves
  /\ store' = [store EXCEPT !.saves = @ + 1]
  /\ prompt' = Witnessed(store')
  /\ UNCHANGED <<applied, handle, saved, actor, opening, replies, restarts>>

(* An installation or a rollback moves the active version.                     *)
MovePackage(v) ==
  /\ v # store.package
  /\ store' = [store EXCEPT !.package = v]
  /\ prompt' = Witnessed(store')
  /\ UNCHANGED <<applied, handle, saved, actor, opening, replies, restarts>>

-------------------------------------------------------------------------------
(* The session actor.                                                          *)

(* maybe_start_running_task: the front of pending_inputs becomes the turn.     *)
Starts(r) == ~r.running /\ r.pending # <<>>

Started(r) == IF Starts(r) THEN [r EXCEPT !.running = TRUE] ELSE r

StartedPrompts(r) ==
  [p \in Prompts |->
     IF Starts(r) /\ p = Head(r.pending)
       THEN [prompt[p] EXCEPT !.pc = "running", !.ran = r.def]
     ELSE IF p \in {r.pending[i] : i \in DOMAIN r.pending} /\ prompt[p].pc = "sent"
       THEN [prompt[p] EXCEPT !.pc = "queued"]
       ELSE prompt[p]]

Become(a, r) == actor' = [actor EXCEPT ![a] = Started(r)] /\ prompt' = StartedPrompts(r)

(* state_is_busy: a turn runs or inputs are queued.                            *)
Busy(r) == r.running \/ r.pending # <<>>

(* The run loop takes commands one at a time, and none while it awaits inside  *)
(* a rebuild.                                                                  *)
Takes(a, k) == /\ actor[a].up /\ actor[a].work = None /\ actor[a].cmds # <<>>
               /\ Head(actor[a].cmds).k = k

Taken(a) == [actor[a] EXCEPT !.cmds = Tail(@)]

AnswerBusyM(a) ==
  /\ Takes(a, "busy") /\ ~Busy(actor[a])
  /\ actor' = [actor EXCEPT ![a] = Taken(a)]
  /\ prompt' = [prompt EXCEPT ![Head(actor[a].cmds).p].reply = "free"]
  /\ UNCHANGED <<store, applied, handle, saved, opening, replies, restarts>>

AnswerBusy(a) ==
  /\ Takes(a, "busy")
  /\ actor' = [actor EXCEPT ![a] = Taken(a)]
  /\ prompt' = [prompt EXCEPT ![Head(actor[a].cmds).p].reply =
                   IF Busy(actor[a]) THEN "busy" ELSE "free"]
  /\ UNCHANGED <<store, applied, handle, saved, opening, replies, restarts>>

TakePrompt(a) ==
  /\ Takes(a, "prompt")
  /\ Become(a, [Taken(a) EXCEPT !.pending = Append(@, Head(actor[a].cmds).p)])
  /\ UNCHANGED <<store, applied, handle, saved, opening, replies, restarts>>

(* handle_rebuild_agent_for_definition refuses only while a turn is running.   *)
MayRebuildM(r) == TRUE

MayRebuild(r) == ~r.running

TakeRebuild(a) ==
  LET p == Head(actor[a].cmds).p
  IN /\ Takes(a, "rebuild")
     /\ IF MayRebuild(actor[a])
          THEN /\ actor' = [actor EXCEPT ![a] = [Taken(a) EXCEPT !.work = p]]
               /\ UNCHANGED <<prompt, replies>>
          ELSE /\ actor' = [actor EXCEPT ![a] = Taken(a)]
               /\ prompt' = [prompt EXCEPT ![p].reply = "refused"]
               /\ replies' = Append(replies, p)
     /\ UNCHANGED <<store, applied, handle, saved, opening, restarts>>

(* The new harness replaces the old one and the System message of the          *)
(* conversation, in memory and in the session's files.                         *)
RebuildEnds(a) ==
  LET p == actor[a].work
  IN /\ p # None
     /\ actor' = [actor EXCEPT ![a].work = None, ![a].def = prompt[p].read]
     /\ saved' = prompt[p].read
     /\ prompt' = [prompt EXCEPT ![p].reply = "ok"]
     /\ replies' = Append(replies, p)
     /\ UNCHANGED <<store, applied, handle, opening, restarts>>

(* AgentBuilder::build failed: nothing was replaced.                           *)
RebuildFails(a) ==
  LET p == actor[a].work
  IN /\ p # None
     /\ actor' = [actor EXCEPT ![a].work = None]
     /\ prompt' = [prompt EXCEPT ![p].reply = "refused"]
     /\ replies' = Append(replies, p)
     /\ UNCHANGED <<store, applied, handle, saved, opening, restarts>>

(* handle_completion pops the front and starts the next one.                   *)
TurnEnds(a) ==
  LET r == [actor[a] EXCEPT !.running = FALSE, !.pending = Tail(@)]
      p == Head(actor[a].pending)
  IN /\ actor[a].up /\ actor[a].running /\ actor[a].work = None
     /\ actor' = [actor EXCEPT ![a] = Started(r)]
     /\ prompt' = [q \in Prompts |-> IF q = p THEN [prompt[q] EXCEPT !.pc = "done"]
                                     ELSE StartedPrompts(r)[q]]
     /\ UNCHANGED <<store, applied, handle, saved, opening, replies, restarts>>

TakePlan(a) ==
  /\ Takes(a, "plan")
  /\ actor' = [actor EXCEPT ![a] = [Taken(a) EXCEPT !.parked = TRUE]]
  /\ UNCHANGED <<store, applied, handle, saved, prompt, opening, replies, restarts>>

(* resume_plan_approval is a task of its own beside the run loop: the answer   *)
(* queues a turn and starts it whatever the run loop is doing.                 *)
PlanResumes(a) ==
  /\ actor[a].up /\ actor[a].parked
  /\ Become(a, [actor[a] EXCEPT !.parked = FALSE, !.pending = Append(@, Plan)])
  /\ UNCHANGED <<store, applied, handle, saved, opening, replies, restarts>>

-------------------------------------------------------------------------------
(* A prompt, from its arrival to the command that queues it.                   *)

Send(a, k, p) == actor' = [actor EXCEPT ![a].cmds = Append(@, [k |-> k, p |-> p])]

Crowd(p) == {q \in Prompts \ {p} : prompt[q].pc \in Preparing}

UpToDateM(d) == applied # None

(* The prompt finds the session, reads the stored definition and compares it   *)
(* with the applied one, without an await in between.                          *)
UpToDate(d) == applied = d

Arrives(p) ==
  /\ prompt[p].pc = "idle" /\ handle # None
  /\ prompt' = [q \in Prompts |->
        IF q = p THEN [NewPrompt EXCEPT !.pc = IF UpToDate(store) THEN "dispatch" ELSE "asked",
                                        !.at = handle, !.read = store, !.since = {store},
                                        !.crowded = Crowd(p) # {}]
        ELSE IF q \in Crowd(p) THEN [prompt[q] EXCEPT !.crowded = TRUE] ELSE prompt[q]]
  /\ IF UpToDate(store) THEN UNCHANGED actor ELSE Send(handle, "busy", p)
  /\ UNCHANGED <<store, applied, handle, saved, opening, replies, restarts>>

Refused(p) == prompt' = [prompt EXCEPT ![p].pc = "refused", ![p].reply = None]

BusyAnswered(p) ==
  /\ prompt[p].pc = "asked" /\ prompt[p].reply # None
  /\ IF prompt[p].reply = "free"
       THEN /\ prompt' = [prompt EXCEPT ![p].pc = "rebuild", ![p].reply = None]
            /\ Send(prompt[p].at, "rebuild", p)
       ELSE Refused(p) /\ UNCHANGED actor
  /\ UNCHANGED <<store, applied, handle, saved, opening, replies, restarts>>

(* Only a rebuild that succeeded is recorded.  A task takes several polls to   *)
(* get its rebuild, so the answers are taken in the order they were given.     *)
MarksM(p) == TRUE

Marks(p) == prompt[p].reply = "ok"

RebuildAnswered(p) ==
  /\ replies # <<>> /\ p = Head(replies)
  /\ replies' = Tail(replies)
  /\ applied' = IF Marks(p) THEN prompt[p].read ELSE applied
  /\ IF prompt[p].reply = "ok"
       THEN prompt' = [prompt EXCEPT ![p].pc = "dispatch", ![p].reply = None]
       ELSE Refused(p)
  /\ UNCHANGED <<store, handle, saved, actor, opening, restarts>>

(* The dispatch lock, the prompt mode and the trace context are awaited first. *)
Dispatches(p) ==
  /\ prompt[p].pc = "dispatch"
  /\ prompt' = [prompt EXCEPT ![p].pc = "sent"]
  /\ Send(prompt[p].at, "prompt", p)
  /\ UNCHANGED <<store, applied, handle, saved, opening, replies, restarts>>

(* No model the prompt may use: it ends without a turn.                        *)
DispatchFails(p) ==
  /\ prompt[p].pc = "dispatch"
  /\ Refused(p)
  /\ UNCHANGED <<store, applied, handle, saved, actor, opening, replies, restarts>>

-------------------------------------------------------------------------------
(* Activation, suspension, restart.                                            *)

(* activate finds no resident session, reads the definition and opens the      *)
(* session: session/load when its files exist, session/new otherwise.          *)
ActivateBegins(t) ==
  /\ opening[t].pc = "idle" /\ handle = None
  /\ opening' = [opening EXCEPT ![t] = [pc |-> "opening", read |-> store,
                                        resumed |-> saved # None]]
  /\ UNCHANGED <<store, applied, handle, saved, actor, prompt, replies, restarts>>

Fresh(a) == actor[a] = NoActor

(* session/new starts an actor with the definition that was read, registers it *)
(* in place of whatever the session had, and returns without a further await:  *)
(* record_activation_definition_state belongs to the same step.                *)
NewOpens(t, a) ==
  /\ opening[t].pc = "opening" /\ ~opening[t].resumed /\ Fresh(a)
  /\ actor' = [actor EXCEPT ![a] = [NoActor EXCEPT !.up = TRUE, !.def = opening[t].read]]
  /\ handle' = a
  /\ saved' = opening[t].read
  /\ applied' = opening[t].read
  /\ opening' = [opening EXCEPT ![t] = NotOpening]
  /\ UNCHANGED <<store, prompt, replies, restarts>>

(* A loaded session keeps the System message of its files.                     *)
LoadOpens(t, a) ==
  /\ opening[t].pc = "opening" /\ opening[t].resumed /\ Fresh(a)
  /\ actor' = [actor EXCEPT ![a] = [NoActor EXCEPT !.up = TRUE, !.def = saved]]
  /\ handle' = a
  /\ opening' = [opening EXCEPT ![t].pc = "registered"]
  /\ UNCHANGED <<store, applied, saved, prompt, replies, restarts>>

(* session/load ends by asking again for an approval that was pending; then    *)
(* the revision is left unknown.                                               *)
LoadRecords(t) == applied' = None

LoadEnds(t, pending) ==
  /\ opening[t].pc = "registered"
  /\ IF pending THEN PlanMode /\ Send(handle, "plan", None) ELSE UNCHANGED actor
  /\ LoadRecords(t)
  /\ opening' = [opening EXCEPT ![t] = NotOpening]
  /\ UNCHANGED <<store, handle, saved, prompt, replies, restarts>>

OpenFails(t) ==
  /\ opening[t].pc = "opening"
  /\ opening' = [opening EXCEPT ![t] = NotOpening]
  /\ UNCHANGED <<store, applied, handle, saved, actor, prompt, replies, restarts>>

(* suspend_residency: sign-out, expiry or a refused access.                    *)
Suspend ==
  /\ applied # None
  /\ applied' = None
  /\ UNCHANGED <<store, handle, saved, actor, prompt, opening, replies, restarts>>

(* The map lives in the process; the session's files survive it.               *)
HostRestarts ==
  /\ restarts < Restarts
  /\ restarts' = restarts + 1
  /\ applied' = None /\ handle' = None /\ replies' = <<>>
  /\ actor' = [a \in Actors |-> IF Fresh(a) THEN NoActor ELSE [NoActor EXCEPT !.def = actor[a].def]]
  /\ opening' = [t \in Activations |-> NotOpening]
  /\ prompt' = [p \in Prompts |-> IF prompt[p].pc \in {"idle", "done", "refused"} THEN prompt[p]
                                  ELSE [prompt[p] EXCEPT !.pc = "refused", !.reply = None]]
  /\ UNCHANGED <<store, saved>>

ActorStep(a) ==
  \/ AnswerBusy(a) \/ TakePrompt(a) \/ TakeRebuild(a) \/ TakePlan(a)
  \/ RebuildEnds(a) \/ RebuildFails(a)

PromptStep(p) ==
  \/ BusyAnswered(p) \/ RebuildAnswered(p) \/ Dispatches(p) \/ DispatchFails(p)

Next ==
  \/ SaveOverlay
  \/ \E v \in Versions : MovePackage(v)
  \/ \E a \in Actors : ActorStep(a) \/ TurnEnds(a) \/ PlanResumes(a)
  \/ \E p \in Prompts : Arrives(p) \/ PromptStep(p)
  \/ \E t \in Activations : ActivateBegins(t) \/ OpenFails(t)
  \/ \E t \in Activations, pending \in BOOLEAN : LoadEnds(t, pending)
  \/ \E t \in Activations, a \in Actors : NewOpens(t, a) \/ LoadOpens(t, a)
  \/ Suspend
  \/ HostRestarts

Spec == Init /\ [][Next]_vars

(* The actor's thread and the LocalSet run whatever is ready; nothing here     *)
(* waits for the user or for a turn to end.                                    *)
FairSpec ==
  /\ Spec
  /\ \A a \in Actors : WF_vars(ActorStep(a))
  /\ \A p \in Prompts : WF_vars(PromptStep(p))

-------------------------------------------------------------------------------
(* Properties.                                                                 *)

Actor == [up : BOOLEAN, def : Definitions \cup {None},
          cmds : Seq([k : {"busy", "rebuild", "prompt", "plan"}, p : Prompts \cup {None}]),
          work : Prompts \cup {None}, pending : Seq(Prompts \cup {Plan}),
          running : BOOLEAN, parked : BOOLEAN]

PromptTask == [pc : {"idle", "queued", "running", "done", "refused"} \cup Preparing,
               at : Actors \cup {None}, read : Definitions \cup {None},
               reply : {None, "busy", "free", "ok", "refused"},
               ran : Definitions \cup {None}, since : SUBSET Definitions,
               crowded : BOOLEAN]

Opening == [pc : {"idle", "opening", "registered"}, read : Definitions \cup {None},
            resumed : BOOLEAN]

(* Every variable has its type.                                                *)
TypeOK ==
  /\ store \in Definitions
  /\ applied \in Definitions \cup {None}
  /\ handle \in Actors \cup {None}
  /\ saved \in Definitions \cup {None}
  /\ actor \in [Actors -> Actor]
  /\ prompt \in [Prompts -> PromptTask]
  /\ opening \in [Activations -> Opening]
  /\ replies \in Seq(Prompts)
  /\ restarts \in 0 .. Restarts

(* The record of the applied definition tells the truth: once every answered   *)
(* rebuild has been taken, a known identity is the one the resident actor's    *)
(* harness was built from, whatever saves, failed rebuilds, suspensions and    *)
(* reloads came in between (ensure_product_agent_overlays_applied trusts it).  *)
AppliedIsHarness ==
  applied # None /\ handle # None /\ replies = <<>> => applied = actor[handle].def

(* While a prompt's turn is running its actor keeps the definition the turn     *)
(* started with: the check of running_task in                                  *)
(* handle_rebuild_agent_for_definition, and no prompt starts while a rebuild   *)
(* is under way.  The turn of an answered plan approval is not covered: it     *)
(* starts beside the actor's loop (start_resume_turn), also during a rebuild.  *)
RunningUndisturbed ==
  [][\A a \in Actors : actor[a].running /\ Head(actor[a].pending) # Plan
                       => actor'[a].def = actor[a].def]_vars

(* A prompt that no other prompt was being prepared with runs under a          *)
(* definition that was the stored one at some moment between its arrival and   *)
(* its start: a save or a Package move counts from the next message.           *)
FreshWhenAlone ==
  \A p \in Prompts : prompt[p].ran # None /\ ~prompt[p].crowded
                       => prompt[p].ran \in prompt[p].since

(* Every prompt is queued or refused: neither the busy check nor the rebuild   *)
(* leaves it waiting, whoever else is waiting for the same actor.              *)
PromptsSettle ==
  \A p \in Prompts : prompt[p].pc \in Preparing ~> prompt[p].pc \notin Preparing
===============================================================================
