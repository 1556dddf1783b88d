---------------------------- MODULE Conversation ----------------------------
(* The conversation of one Agent: the desktop's mirror of the prompt queue  *)
(* (conversation-controller.js), the Bridge and the Leader that carry its   *)
(* messages, and the session actor of the Host, which owns the queue.       *)
(* The connection may be lost, alone or with the Leader process, and the    *)
(* Bridge connects again.                                                   *)
EXTENDS Integers, FiniteSets, SequencesExt

CONSTANTS
    Prompts,    \* messages the user may send
    Wakes,      \* synthetic turns: finished tasks, drained notifications
    MaxEvents,  \* bound: messages, operations, synthetic turns, lost connections
    MayCrash,   \* TRUE: a connection may be lost because the Leader ends
    None

Turns == Prompts \cup Wakes

ASSUME ConversationAssumption ==
    /\ Prompts \cap Wakes = {} /\ None \notin Turns
    /\ MaxEvents \in Nat /\ MayCrash \in BOOLEAN

VARIABLES
    \* the desktop's session record
    rev,        \* queueRevision, -1 before the first snapshot
    entries,    \* queueEntries
    running,    \* queueRunningPromptId
    busy,       \* the session is in runningSessionIds
    drafts,     \* messages whose attachments are being prepared
    status,     \* status of each submission
    waiting,    \* session/prompt requests without an answer
    mutation,   \* queueMutation
    cancel,     \* cancelRequested, cancelTargetPromptId
    recover,    \* the session/load of #recoverSessions or of a reopening
    \* the connection
    conn, up, down,
    here,       \* prompts whose request came by this connection
    \* the Host
    access,     \* the account has access
    prep,       \* session/prompt handlers before their command is sent
    stops,      \* session/cancel handlers before their command is sent
    returns,    \* session/prompt handlers that have their result
    actor,      \* the session actor
    events      \* how many of the bounded events happened

desktop == <<rev, entries, running, busy, drafts, status, waiting, mutation, cancel, recover>>
wire    == <<conn, up, down, here>>
host    == <<access, prep, stops, returns, actor>>
vars    == <<desktop, wire, host, events>>

NoCancel == [on |-> FALSE, id |-> None]
NoActor  == [on |-> FALSE, pend |-> <<>>, task |-> None, live |-> {}, done |-> <<>>,
             rev |-> 0, out |-> <<>>, replied |-> {}, starts |-> [t \in Turns |-> 0]]

\* The conversation is open and synchronised; nothing was sent yet.
Init ==
    /\ rev = 1 /\ entries = <<>> /\ running = None /\ busy = FALSE
    /\ drafts = {} /\ status = [p \in Prompts |-> "new"] /\ waiting = {}
    /\ mutation = None /\ cancel = NoCancel /\ recover = "idle"
    /\ conn = "up" /\ up = <<>> /\ down = <<>> /\ here = {}
    /\ access = TRUE /\ prep = {} /\ stops = 0 /\ returns = {}
    /\ actor = [NoActor EXCEPT !.on = TRUE, !.rev = 1]
    /\ events = 0

-----------------------------------------------------------------------------
(* The session actor: each arm of its loop is a function of its state; what *)
(* an arm broadcasts is collected in out, what it answers in replied.       *)

\* The place of position k among the positions at: by weight, then as they stand.
Place(at, weight, k) ==
    Cardinality({i \in at : weight[i] < weight[k] \/ (weight[i] = weight[k] /\ i <= k)})

\* The items of s at the positions at, by weight: the stable sort of sort_by_key.
Arranged(s, at, weight) ==
    [j \in 1 .. Cardinality(at) |-> s[CHOOSE k \in at : Place(at, weight, k) = j]]

\* The items of s at the positions at, as they stand.
Selected(s, at) == Arranged(s, at, [k \in at |-> 0])

\* The queued user prompts, without the one that runs.
Queueable(q) == {k \in 1 .. Len(q.pend) : q.pend[k].id \in Prompts \ {q.task}}

\* build_queue_wire
QueueWire(q) ==
    LET queued == Selected(q.pend, Queueable(q))
    IN  [k \in 1 .. Len(queued) |->
            [id |-> queued[k].id, ver |-> queued[k].ver, text |-> queued[k].text]]

\* broadcast_queue_changed
Broadcast(q) ==
    [q EXCEPT !.rev = @ + 1,
              !.out = Append(@, [type |-> "queue", rev |-> q.rev + 1,
                                 entries |-> QueueWire(q), running |-> q.task])]

\* maybe_start_running_task: the front is promoted without being popped.
MaybeStart(q) ==
    IF q.task # None \/ q.pend = <<>> THEN q
    ELSE LET id == Head(q.pend).id
         IN  Broadcast([q EXCEPT !.task = id, !.live = @ \cup {id}, !.starts[id] = @ + 1])

\* cancel_running_task: the front is answered whether or not a task runs it.
CancelRunning(q) ==
    Broadcast([q EXCEPT !.live = @ \ {q.task}, !.task = None,
                        !.replied = @ \cup {Head(q.pend).id : k \in 1 .. Len(q.pend)},
                        !.pend = IF @ = <<>> THEN @ ELSE Tail(@)])

\* Mutant: the task is cleared whoever completed.
CompletionM(q, id) ==
    LET owned == q.pend # <<>> /\ Head(q.pend).id = id
        ended == IF owned THEN [q EXCEPT !.pend = Tail(@), !.replied = @ \cup {id}] ELSE q
        freed == [ended EXCEPT !.task = None]
    IN  MaybeStart(IF owned /\ id \in Prompts THEN Broadcast(freed) ELSE freed)

\* Mutant: the end of a turn is broadcast only when another one follows.
CompletionQ(q, id) ==
    LET owned == q.pend # <<>> /\ Head(q.pend).id = id
        ended == IF owned THEN [q EXCEPT !.pend = Tail(@), !.replied = @ \cup {id}] ELSE q
        freed == IF q.task = id \/ owned THEN [ended EXCEPT !.task = None] ELSE ended
    IN  MaybeStart(freed)

\* handle_completion: a completion that a cancel overtook finds another front and
\* leaves its task alone.  The end of a synthetic turn is not broadcast.
Completion(q, id) ==
    LET owned == q.pend # <<>> /\ Head(q.pend).id = id
        ended == IF owned THEN [q EXCEPT !.pend = Tail(@), !.replied = @ \cup {id}] ELSE q
        freed == IF q.task = id \/ owned THEN [ended EXCEPT !.task = None] ELSE ended
    IN  MaybeStart(IF owned /\ id \in Prompts THEN Broadcast(freed) ELSE freed)

\* Behind the running front and the earlier send-now prompts.
InsertNow(pend, task, item) ==
    LET first == IF pend # <<>> /\ Head(pend).id = task THEN 2 ELSE 1
        spots == {k \in first .. Len(pend) + 1 : k > Len(pend) \/ ~ pend[k].now}
    IN  InsertAt(pend, Min(spots), [item EXCEPT !.now = TRUE])

\* queue_input and the rest of the Prompt arm.  A user prompt drops the synthetic
\* turns that wait if one of them, armed, is for a finished task; sent during a blocking
\* wait of the turn it acts as a send-now.
QueueInput(q, item, armed, blocked, goal) ==
    IF item.id \in Wakes
    THEN MaybeStart(Broadcast([q EXCEPT !.pend = Append(@, item)]))
    ELSE LET kept == Selected(q.pend, {k \in 1 .. Len(q.pend) :
                                         armed => q.pend[k].id \in Prompts \cup {q.task}})
             now  == item.now \/ (q.task # None /\ blocked /\ Queueable(q) = {})
             fed  == Broadcast([q EXCEPT !.pend = IF now THEN InsertNow(kept, q.task, item)
                                                  ELSE Append(kept, item)])
         IN  MaybeStart(IF now /\ q.task # None /\ ~ goal THEN CancelRunning(fed) ELSE fed)

\* Queued items a client may touch: never the running one.
Queued(q, id) == {k \in 1 .. Len(q.pend) : q.pend[k].id = id /\ id # q.task}

\* handle_remove_queued_prompt
RemoveQueued(q, id, ver) ==
    LET at == {k \in Queued(q, id) : q.pend[k].ver = ver}
    IN  Broadcast(IF at = {} THEN q
                  ELSE [q EXCEPT !.pend = RemoveAt(@, Min(at)), !.replied = @ \cup {id}])

\* handle_edit_queued_prompt: nothing to edit, nothing is broadcast.
Edited(item, text) == [item EXCEPT !.ver = @ + 1, !.text = text]

EditQueued(q, id, text) ==
    LET at == Queued(q, id)
    IN  IF at = {} THEN q
        ELSE Broadcast([q EXCEPT !.pend[Min(at)] = Edited(@, text)])

\* handle_interject_queued_prompt and the rest of its arm
SendQueuedNow(q, id, ver, goal) ==
    LET at    == {k \in Queued(q, id) : q.pend[k].ver = ver}
        moved == Broadcast(IF at = {} THEN q
                           ELSE [q EXCEPT !.pend = InsertNow(RemoveAt(@, Min(at)), q.task,
                                                             @[Min(at)])])
    IN  MaybeStart(IF at # {} /\ q.task # None /\ ~ goal THEN CancelRunning(moved)
                   ELSE moved)

\* handle_reorder_queue: the running turn and the synthetic ones first, then the
\* named prompts in the order asked for, then the others.
Rank(q, order, k) ==
    LET named == {n \in 1 .. Len(order) : order[n] = q.pend[k].id}
    IN  IF k \notin Queueable(q) THEN 0
        ELSE IF named = {} THEN Len(order) + 1 ELSE Min(named)

ReorderQueue(q, order) ==
    LET at == 1 .. Len(q.pend)
    IN  Broadcast([q EXCEPT !.pend = Arranged(@, at, [k \in at |-> Rank(q, order, k)])])

\* handle_clear_queue: the cleared prompts are answered.
Cleared(q) ==
    [q EXCEPT !.pend = Selected(@, (1 .. Len(@)) \ Queueable(q)),
              !.replied = @ \cup {q.pend[k].id : k \in Queueable(q)}]

\* Mutant: nothing is broadcast when nothing was queued.
ClearQueueM(q) == IF Queueable(q) = {} THEN q ELSE Broadcast(Cleared(q))

ClearQueue(q) == Broadcast(Cleared(q))

\* The outcome of an arm: snapshots go to the connection, results to the handlers.
CommitAs(q, ok) ==
    /\ actor' = [q EXCEPT !.out = <<>>, !.replied = {}]
    /\ down' = IF conn = "down" THEN down ELSE down \o q.out
    /\ returns' = returns \cup {[id |-> p, ok |-> ok] : p \in q.replied \cap Prompts}

Commit(q) == CommitAs(q, TRUE)

-----------------------------------------------------------------------------
(* The Host takes the messages of the connection in order.  Requests and    *)
(* cancels go through a handler of their own, queue operations straight to  *)
(* the actor; without a session they are dropped.                           *)

Submitted == [id : Prompts, now : BOOLEAN]

Event == events < MaxEvents /\ events' = events + 1

HostUnchanged == UNCHANGED <<desktop, conn, events>>

\* prompt: refused without access or session.
DeliverPrompt ==
    /\ conn = "up" /\ up # <<>> /\ Head(up).type = "prompt"
    /\ up' = Tail(up)
    /\ LET p == [id |-> Head(up).id, now |-> Head(up).now]
       IN  /\ here' = here \cup {p.id}
           /\ IF access /\ actor.on
              THEN prep' = prep \cup {p} /\ UNCHANGED returns
              ELSE /\ returns' = returns \cup {[id |-> p.id, ok |-> FALSE]}
                   /\ UNCHANGED prep
    /\ HostUnchanged /\ UNCHANGED <<down, access, stops, actor>>

\* The agent's definition is applied and the command sent, or an error returned.
Enqueue(p) ==
    /\ p \in prep /\ prep' = prep \ {p}
    /\ \E armed, blocked, goal \in BOOLEAN :
         Commit(QueueInput(actor, [id |-> p.id, ver |-> 0, text |-> 0, now |-> p.now],
                           armed, blocked, goal))
    /\ HostUnchanged /\ UNCHANGED <<up, here, access, stops>>

PrepareFails(p) ==
    /\ p \in prep /\ prep' = prep \ {p}
    /\ returns' = returns \cup {[id |-> p.id, ok |-> FALSE]}
    /\ HostUnchanged /\ UNCHANGED <<up, down, here, access, stops, actor>>

DeliverCancel ==
    /\ conn = "up" /\ up # <<>> /\ Head(up).type = "cancel"
    /\ up' = Tail(up)
    /\ stops' = IF actor.on THEN stops + 1 ELSE stops
    /\ HostUnchanged /\ UNCHANGED <<down, here, access, prep, returns, actor>>

\* Mutant: the Cancel arm runs without a command.
StopM ==
    /\ actor.on /\ stops' = stops - 1
    /\ Commit(MaybeStart(CancelRunning(actor)))
    /\ HostUnchanged /\ UNCHANGED <<up, here, access, prep>>

\* The Cancel arm: whatever runs by now is cancelled.
Stop ==
    /\ stops > 0 /\ stops' = stops - 1
    /\ Commit(MaybeStart(CancelRunning(actor)))
    /\ HostUnchanged /\ UNCHANGED <<up, here, access, prep>>

\* load_session and agents/activate: refused without access, else there is a
\* session actor.
DeliverLoad ==
    /\ conn = "up" /\ up # <<>> /\ Head(up).type = "load"
    /\ up' = Tail(up)
    /\ actor' = [actor EXCEPT !.on = @ \/ access]
    /\ down' = Append(down, [type |-> "loaded", ok |-> access])
    /\ HostUnchanged /\ UNCHANGED <<here, access, prep, stops, returns>>

\* The x.ai/queue/* notifications
QueueOps(m) ==
    CASE m.type = "remove"  -> {RemoveQueued(actor, m.id, m.ver)}
      [] m.type = "edit"    -> {EditQueued(actor, m.id, m.text)}
      [] m.type = "now"     -> {SendQueuedNow(actor, m.id, m.ver, goal) : goal \in BOOLEAN}
      [] m.type = "reorder" -> {ReorderQueue(actor, m.order)}
      [] m.type = "clear"   -> {ClearQueue(actor)}
      [] OTHER              -> {}

DeliverQueueOp ==
    /\ conn = "up" /\ up # <<>>
    /\ \E q \in QueueOps(Head(up)) :
         IF actor.on THEN Commit(q) ELSE UNCHANGED <<actor, down, returns>>
    /\ up' = Tail(up)
    /\ HostUnchanged /\ UNCHANGED <<here, access, prep, stops>>

\* A turn ends and sends its completion to the actor.
Finish(t) ==
    /\ t \in actor.live
    /\ actor' = [actor EXCEPT !.live = @ \ {t}, !.done = Append(@, t)]
    /\ HostUnchanged /\ UNCHANGED <<up, down, here, access, prep, stops, returns>>

\* The completion carries the turn's result or its error.
Complete ==
    /\ actor.done # <<>>
    /\ \E ok \in BOOLEAN :
         CommitAs(Completion([actor EXCEPT !.done = Tail(@)], Head(actor.done)), ok)
    /\ HostUnchanged /\ UNCHANGED <<up, here, access, prep, stops>>

\* A session/prompt handler returns: the answer follows the snapshots sent before
\* it; the Leader drops it when the request came by a connection now lost.
Reply(a) ==
    /\ a \in returns /\ returns' = returns \ {a}
    /\ down' = IF a.id \in here THEN Append(down, [type |-> "answer", id |-> a.id, ok |-> a.ok])
               ELSE down
    /\ HostUnchanged /\ UNCHANGED <<up, here, access, prep, stops, actor>>

\* A finished background task, or notifications drained by an idle session, ask
\* for a turn.
Wake(w) ==
    /\ Event /\ actor.on /\ actor.starts[w] = 0
    /\ \A k \in 1 .. Len(actor.pend) : actor.pend[k].id # w
    /\ Commit(QueueInput(actor, [id |-> w, ver |-> 0, text |-> 0, now |-> FALSE],
                         FALSE, FALSE, FALSE))
    /\ UNCHANGED <<desktop, conn, up, here, access, prep, stops>>

-----------------------------------------------------------------------------
(* The connection *)

\* The Bridge loses the Leader: of what it sent some was not read, of what the
\* Leader sent some did not arrive; later messages wait in the Bridge.  If the
\* Leader ended, the sessions and the account's access ended with it.
Drop ==
    /\ Event /\ conn # "down"
    /\ conn' = "down" /\ here' = {}
    /\ up' \in Suffixes(up) /\ down' \in Prefixes(down)
    /\ \/ UNCHANGED host
       \/ /\ MayCrash
          /\ access' = FALSE /\ prep' = {} /\ stops' = 0 /\ returns' = {}
          /\ actor' = [NoActor EXCEPT !.starts = actor.starts]
    /\ UNCHANGED desktop

\* The Bridge is connected again and replays initialize and session/load: the
\* session is there, or there is no access and the replay is refused.
Reconnect ==
    /\ conn = "down" /\ conn' = "replay"
    /\ UNCHANGED <<desktop, up, down, here, host, events>>

Announce ==
    /\ conn = "replay" /\ conn' = "up"
    /\ down' = Append(down, [type |-> "reconnected"])
    /\ UNCHANGED <<desktop, up, here, host, events>>

\* The identity controller revalidates: Core is asked and the Host bootstrapped.
Revalidate ==
    /\ conn = "up" /\ ~ access /\ access' = TRUE
    /\ UNCHANGED <<desktop, wire, prep, stops, returns, actor, events>>

\* The bootstrap's restore activates the Agent.
Restore ==
    /\ access /\ ~ actor.on
    /\ actor' = [actor EXCEPT !.on = TRUE]
    /\ UNCHANGED <<desktop, wire, access, prep, stops, returns, events>>

-----------------------------------------------------------------------------
(* The desktop: what the user does *)

Send(m) == up' = Append(up, m)

\* The first part of #submit: refused while the fate of an earlier message is unknown,
\* else the attachments are reserved.
Prepare(p) ==
    /\ Event /\ p \notin drafts /\ status[p] = "new" /\ \A q \in Prompts : status[q] # "unknown"
    /\ drafts' = drafts \cup {p}
    /\ UNCHANGED <<rev, entries, running, busy, status, waiting, mutation, cancel, recover, wire,
                   host>>

PreparationFails(p) ==
    /\ p \in drafts /\ drafts' = drafts \ {p}
    /\ UNCHANGED <<rev, entries, running, busy, status, waiting, mutation, cancel, recover, wire,
                   host, events>>

\* The second part of #submit, whatever has become of the other messages meanwhile.
Submit(p, now) ==
    /\ p \in drafts /\ drafts' = drafts \ {p}
    /\ status' = [status EXCEPT ![p] = "submitting"]
    /\ busy' = TRUE
    /\ waiting' = waiting \cup {p}
    /\ Send([type |-> "prompt", id |-> p, now |-> now])
    /\ UNCHANGED <<rev, entries, running, mutation, cancel, recover, conn, down, here, host,
                   events>>

Mutation(kind, id, text, order) ==
    [kind |-> kind, id |-> id, text |-> text, order |-> order, base |-> rev, failed |-> FALSE]

\* #requireQueueAuthority
Mutates(m) ==
    /\ Event /\ rev >= 0 /\ mutation = None
    /\ mutation' = m
    /\ UNCHANGED <<rev, entries, running, busy, drafts, status, waiting, cancel, recover, conn,
                   down, here, host>>

RemoveQueuedPrompt(e) ==
    /\ Mutates(Mutation("remove", e.id, 0, <<>>))
    /\ Send([type |-> "remove", id |-> e.id, ver |-> e.ver])

EditQueuedPrompt(e) ==
    /\ Mutates(Mutation("edit", e.id, events', <<>>))
    /\ Send([type |-> "edit", id |-> e.id, text |-> events'])

SendQueuedPromptNow(e) ==
    /\ Mutates(Mutation("now", e.id, 0, <<>>))
    /\ Send([type |-> "now", id |-> e.id, ver |-> e.ver])

ReorderQueuedPrompts ==
    \E order \in SetToSeqs({e.id : e \in ToSet(entries)}) :
        /\ Mutates(Mutation("reorder", None, 0, order))
        /\ Send([type |-> "reorder", order |-> order])

ClearQueuedPrompts ==
    /\ Mutates(Mutation("clear", None, 0, <<>>))
    /\ Send([type |-> "clear"])

\* cancelCurrentTask: the target is the turn shown as running, else a submission
\* thought to run, else one whose fate is open, else nobody.
CancelTargets ==
    LET thought == {p \in Prompts : status[p] = "running"}
        open    == {p \in Prompts : status[p] \in {"submitting", "unknown"}}
    IN  IF running # None THEN {running}
        ELSE IF thought # {} THEN thought
        ELSE IF open # {} THEN open ELSE {None}

CancelCurrentTask ==
    /\ Event /\ ~ cancel.on /\ (running # None \/ busy)
    /\ \E t \in CancelTargets : cancel' = [on |-> TRUE, id |-> t]
    /\ Send([type |-> "cancel"])
    /\ UNCHANGED <<rev, entries, running, busy, drafts, status, waiting, mutation, recover, conn,
                   down, here, host>>

\* #open of a conversation that was open before: activate, then synchronise.
Reopen ==
    /\ Event /\ recover # "loading"
    /\ recover' = "loading"
    /\ Send([type |-> "load"])
    /\ UNCHANGED <<rev, entries, running, busy, drafts, status, waiting, mutation, cancel, conn,
                   down, here, host>>

-----------------------------------------------------------------------------
(* The desktop: what it receives *)

\* A submission p settles: a cancel that waits for it, or for nobody, is over.
CancelAfter(p) == IF cancel.id \in {None, p} THEN NoCancel ELSE cancel

\* #completeSubmission and #failSubmission; a reconciled submission is settled.
Answer ==
    /\ down # <<>> /\ Head(down).type = "answer"
    /\ down' = Tail(down)
    /\ LET a == Head(down)
       IN  /\ waiting' = waiting \ {a.id}
           /\ IF a.id \in waiting /\ status[a.id] # "over"
              THEN /\ status' = [status EXCEPT ![a.id] = "over"]
                   /\ cancel' = CancelAfter(a.id)
                   /\ busy' = (busy /\ rev >= 0)
                   /\ running' = IF rev < 0 /\ a.ok THEN None ELSE running
              ELSE UNCHANGED <<status, cancel, busy, running>>
    /\ UNCHANGED <<rev, entries, drafts, mutation, recover, conn, up, here, host, events>>

\* The 30 minutes of a session/prompt request are over, long after its delivery.
TimeOut(p) ==
    /\ p \in waiting /\ waiting' = waiting \ {p}
    /\ \A m \in ToSet(up) \cup prep \cup returns \cup {n \in ToSet(down) : n.type = "answer"} :
         "id" \in DOMAIN m => m.id # p
    /\ IF status[p] # "over"
       THEN /\ status' = [status EXCEPT ![p] = "unknown"]
            /\ cancel' = CancelAfter(p)
            /\ busy' = (busy /\ rev >= 0)
       ELSE UNCHANGED <<status, cancel, busy>>
    /\ UNCHANGED <<rev, entries, running, drafts, mutation, recover, wire, host, events>>

\* #reconcileQueueMutation, with the mirror already replaced by snapshot m
Succeeded(m) ==
    LET entry == {e \in ToSet(m.entries) : e.id = mutation.id}
    IN  CASE mutation.kind = "remove"  -> entry = {}
          [] mutation.kind = "edit"    -> \E e \in entry : e.text = mutation.text
          [] mutation.kind = "now"     -> m.running = mutation.id \/ entry = {}
          [] mutation.kind = "reorder" -> /\ Len(mutation.order) <= Len(m.entries)
                                          /\ \A k \in 1 .. Len(mutation.order) :
                                               m.entries[k].id = mutation.order[k]
          [] mutation.kind = "clear"   -> m.entries = <<>>

ReconcileQueueMutation(m) ==
    IF mutation = None \/ m.rev <= mutation.base THEN mutation
    ELSE IF Succeeded(m) THEN None ELSE [mutation EXCEPT !.failed = TRUE]

Live(list, turn) == {e.id : e \in ToSet(list)} \cup ({turn} \ {None})

\* What a snapshot says of a submission: unknown ones and ones that left the
\* queue are reconciled.
Reconciled(p, m) ==
    IF status[p] \in {"new", "over"} THEN status[p]
    ELSE IF p = m.running THEN "running"
    ELSE IF p \in Live(m.entries, None) THEN "queued"
    ELSE IF status[p] = "unknown" \/ p \in Live(entries, running) THEN "over"
    ELSE status[p]

\* Mutant: an idle session does not end a cancel.
CancelOverM(m) == m.running # None /\ cancel.id # None /\ m.running # cancel.id

\* A cancel is over when nothing runs, or something other than its target.
CancelOver(m) == m.running = None \/ (cancel.id # None /\ m.running # cancel.id)

\* #handleQueueChanged: only a newer revision counts.
QueueChanged ==
    /\ down # <<>> /\ Head(down).type = "queue"
    /\ down' = Tail(down)
    /\ LET m == Head(down)
       IN  IF m.rev > rev
           THEN /\ rev' = m.rev /\ entries' = m.entries /\ running' = m.running
                /\ busy' = (m.running # None)
                /\ cancel' = IF CancelOver(m) THEN NoCancel ELSE cancel
                /\ status' = [p \in Prompts |-> Reconciled(p, m)]
                /\ mutation' = ReconcileQueueMutation(m)
           ELSE UNCHANGED <<rev, entries, running, busy, cancel, status, mutation>>
    /\ UNCHANGED <<drafts, waiting, recover, conn, up, here, host, events>>

\* #handleReconnect, #markSessionsDisconnected and the start of #recoverSessions
Reconnected ==
    /\ down # <<>> /\ Head(down).type = "reconnected"
    /\ down' = Tail(down)
    /\ rev' = -1
    /\ mutation' = None /\ cancel' = NoCancel
    /\ status' = [p \in Prompts |-> IF status[p] = "submitting" THEN "unknown" ELSE status[p]]
    /\ recover' = "loading"
    /\ Send([type |-> "load"])
    /\ UNCHANGED <<entries, running, busy, drafts, waiting, conn, here, host, events>>

\* Mutant: the queue is not synchronised after the load.
LoadedM ==
    /\ down # <<>> /\ Head(down).type = "loaded"
    /\ down' = Tail(down)
    /\ recover' = IF Head(down).ok THEN "idle" ELSE "failed"
    /\ UNCHANGED <<rev, entries, running, busy, drafts, status, waiting, mutation, cancel, conn, up,
                   here, host, events>>

\* session/load returned: synchronise the queue, or show the error.
Loaded ==
    /\ down # <<>> /\ Head(down).type = "loaded"
    /\ down' = Tail(down)
    /\ IF Head(down).ok
       THEN recover' = "idle" /\ Send([type |-> "reorder", order |-> <<>>])
       ELSE recover' = "failed" /\ UNCHANGED up
    /\ UNCHANGED <<rev, entries, running, busy, drafts, status, waiting, mutation, cancel, conn,
                   here, host, events>>

-----------------------------------------------------------------------------

Deliver == DeliverPrompt \/ DeliverCancel \/ DeliverLoad \/ DeliverQueueOp
Receive == Answer \/ QueueChanged \/ Reconnected \/ Loaded

Next ==
    \/ \E p \in Prompts : Prepare(p) \/ PreparationFails(p)
    \/ \E p \in Prompts, now \in BOOLEAN : Submit(p, now)
    \/ \E e \in ToSet(entries) :
         RemoveQueuedPrompt(e) \/ EditQueuedPrompt(e) \/ SendQueuedPromptNow(e)
    \/ ReorderQueuedPrompts \/ ClearQueuedPrompts \/ CancelCurrentTask \/ Reopen
    \/ \E a \in returns : Reply(a)
    \/ \E p \in Prompts : TimeOut(p)
    \/ Deliver \/ Receive \/ Stop \/ Complete
    \/ \E p \in prep : Enqueue(p) \/ PrepareFails(p)
    \/ \E t \in Turns : Finish(t)
    \/ \E w \in Wakes : Wake(w)
    \/ Drop \/ Reconnect \/ Announce \/ Revalidate \/ Restore

Spec == Init /\ [][Next]_vars

-----------------------------------------------------------------------------
(* Properties *)

Entry == [id : Prompts, ver : Nat, text : 0 .. MaxEvents]

\* Every variable has its type.
TypeOK ==
    /\ rev \in Nat \cup {-1} /\ ToSet(entries) \subseteq Entry
    /\ running \in Turns \cup {None} /\ busy \in BOOLEAN
    /\ status \in [Prompts -> {"new", "submitting", "queued", "running", "unknown", "over"}]
    /\ drafts \subseteq Prompts /\ waiting \subseteq Prompts
    /\ cancel \in [on : BOOLEAN, id : Turns \cup {None}]
    /\ recover \in {"idle", "loading", "failed"}
    /\ conn \in {"up", "down", "replay"} /\ here \subseteq Prompts
    /\ returns \subseteq [id : Prompts, ok : BOOLEAN]
    /\ access \in BOOLEAN /\ prep \subseteq Submitted /\ stops \in 0 .. MaxEvents
    /\ actor.task \in Turns \cup {None} /\ actor.live \subseteq Turns
    /\ events \in 0 .. MaxEvents

\* No message is executed twice, whatever is cancelled, lost or restarted while its
\* turn ends, and the session never runs two turns at once.
AtMostOnce ==
    /\ \A t \in Turns : actor.starts[t] <= 1
    /\ Cardinality(actor.live) <= 1

\* No message, handler or completion is under way, and the Host has recovered.
\* Every step but the bounded ones uses one of these up, so each behaviour in
\* which nothing rests comes to such a state.
Quiet ==
    /\ conn = "up" /\ up = <<>> /\ down = <<>> /\ returns = {}
    /\ access /\ actor.on /\ prep = {} /\ stops = 0 /\ actor.done = <<>>

\* A synchronised mirror of a quiet Host shows its queue and the turn that runs;
\* only the end of a synthetic turn may go unnoticed.
MirrorConverges ==
    Quiet /\ rev >= 0 =>
        /\ entries = QueueWire(actor)
        /\ running = actor.task \/ (actor.task = None /\ running \in Wakes)

\* The fate of a message does not stay open, unless the Host refused to load the
\* session again, or the request timed out while its turn waits or runs.
SubmissionsSettle ==
    Quiet /\ recover # "failed" =>
        \A p \in Prompts : status[p] \in {"submitting", "unknown"} =>
            p \notin waiting /\ p \in Live(entries, running)

\* A cancel does not stay pending, unless the Host refused to load the session.
CancelsSettle == Quiet /\ recover # "failed" => ~ cancel.on

\* A queue operation is confirmed or reported as failed, unless the Host refused to
\* load the session.
MutationsSettle ==
    Quiet /\ recover # "failed" /\ mutation # None => mutation.failed
=============================================================================
