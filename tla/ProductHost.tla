---------------------------- MODULE ProductHost ----------------------------
(***************************************************************************)
(* The Host's control of persistent product Agents: subscription access,   *)
(* the account-scoped Agent registry, activation, restore after bootstrap, *)
(* suspension, access expiry, and the residency pins that protect a main   *)
(* session from being unloaded when a client detaches.                     *)
(*                                                                         *)
(* Every request and background task of the Host runs on one               *)
(* single-threaded executor, so a step of this model is what a task does   *)
(* between two awaits; the interleavings are those of the awaits.  The     *)
(* variable cpu names a restore task that goes on without an await.        *)
(***************************************************************************)
EXTENDS Naturals, FiniteSets

CONSTANTS
    Accounts,   \* AgentMesh360 account ids
    Agents,     \* product Agents of the Package catalog
    Callers,    \* concurrent agents/activate requests
    NoOne,      \* no account: access missing or expired; owner NULL of a row
    NoSession,  \* main_session_id NULL
    NoTask,     \* the executor is free
    MaxBoot,    \* bound: bootstrap requests between two Host restarts
    MaxTime,    \* bound: last instant of the monotonic clock
    MaxValid,   \* bound: longest membership validity a bootstrap grants
    Overlap,    \* TRUE: several clients, whose bootstraps may overlap
    StoreFails  \* TRUE: writes to the local database and workspace may fail

Boots    == 1..MaxBoot
Tasks    == Callers \cup Boots      \* a restore task has the id of its bootstrap
Owners   == Accounts \cup {NoOne}
Sessions == Owners \X Agents

ASSUME ConstantsAssumption ==
    /\ NoOne \notin Accounts
    /\ Agents # {}
    /\ NoSession \notin Sessions
    /\ NoTask \notin Tasks
    /\ Callers \cap Boots = {}
    /\ MaxBoot \in Nat /\ MaxTime \in Nat /\ MaxValid \in Nat
    /\ Overlap \in BOOLEAN /\ StoreFails \in BOOLEAN

VARIABLES
    now,            \* monotonic clock (Instant)
    access,         \* AccessState of ClientAccess
    gen,            \* access_generation
    boot,           \* bootstrap requests, by generation
    timer,          \* expiry timers, by generation; 0 = not set
    rows,           \* product_agents table, by (owner, agent)
    resident,       \* MvpAgent.sessions: sessions with a live actor
    disk,           \* sessions persisted in their own workspace
    pins,           \* pinned_sessions
    restoreStarted, \* restore_started
    restore,        \* restore tasks, by generation
    act,            \* activations in flight, by task
    evict,          \* client-detach check in flight (bound: one), or NoEvict
    cpu,            \* restore task that holds the executor, or NoTask
    overtaken,      \* history: activations in flight when a suspension came
    stalePins       \* history: pins set by overtaken activations

vars == <<now, access, gen, boot, timer, rows, resident, disk, pins,
          restoreStarted, restore, act, evict, cpu, overtaken, stalePins>>

-----------------------------------------------------------------------------
(* Access *)

Unverified == [st |-> "unverified", account |-> NoOne, until |-> 0]
Denied     == [st |-> "denied", account |-> NoOne, until |-> 0]
Granted(a, t) == [st |-> "granted", account |-> a, until |-> t]

\* current_account_id: the granted account while its validity lasts.
CurrentAccount ==
    IF access.st = "granted" /\ now < access.until THEN access.account ELSE NoOne

(* Registry *)

\* Mutant: the session id depends on the agent alone.
StableMainSessionIdM(o, g) == <<NoOne, g>>

\* UUID v5 of (owner, agent): injective, and never the id of a legacy session,
\* which was derived from the agent alone.
StableMainSessionId(o, g) == <<o, g>>
LegacySessionId(g)        == <<NoOne, g>>

AbsentRow   == [desired |-> "absent", runtime |-> "available", main |-> NoSession]
InactiveRow == [desired |-> "inactive", runtime |-> "available", main |-> NoSession]

\* What a schema-3 database may hold for an agent: no row, a row never
\* activated, or a row activated by the single-account Host.
LegacyRow(g) ==
    {AbsentRow, InactiveRow} \cup
    {[desired |-> "running", runtime |-> r, main |-> LegacySessionId(g)] :
        r \in {"resident", "error"}}

Running(o, g) == rows[<<o, g>>].desired = "running"
OwnerOf(s)    == {o \in Owners : \E g \in Agents : rows[<<o, g>>].main = s}

\* Mutant: the upsert also resets the desired state.
SeedM(table, o) ==
    [k \in Sessions |-> IF k[1] = o THEN [table[k] EXCEPT !.desired = "inactive"] ELSE table[k]]

\* seed_builtins: a row the account does not have yet is inserted inactive.
Seed(table, o) ==
    [k \in Sessions |-> IF k[1] = o /\ table[k].desired = "absent"
                        THEN InactiveRow ELSE table[k]]

\* claim_legacy_and_seed: an account without rows adopts every unowned row.
ClaimLegacyAndSeed(o) ==
    IF \A g \in Agents : rows[<<o, g>>].desired = "absent"
    THEN Seed([k \in Sessions |-> IF k[1] = o THEN rows[<<NoOne, k[2]>>]
                                  ELSE IF k[1] = NoOne THEN AbsentRow ELSE rows[k]], o)
    ELSE Seed(rows, o)

\* prepare_activation: the row wants to run; an allocated session is kept.
PrepareActivation(o, g) ==
    [rows EXCEPT ![<<o, g>>] =
        [desired |-> "running", runtime |-> "starting",
         main |-> IF @.main = NoSession THEN StableMainSessionId(o, g) ELSE @.main]]

\* Mutant: the state is written to the wrong column.
MarkRuntimeM(table, o, g, state) == [table EXCEPT ![<<o, g>>].desired = state]

\* mark_runtime; a write that fails leaves the row.
MarkRuntime(table, o, g, state) == [table EXCEPT ![<<o, g>>].runtime = state]
Recorded(table, o, g, state) ==
    {MarkRuntime(table, o, g, state)} \cup (IF StoreFails THEN {table} ELSE {})

(* Tasks *)

IdleBoot == [st |-> "idle", prev |-> NoOne]
IdleRestore == [st |-> "idle", todo |-> {}]
IdleAct == [st |-> "idle", owner |-> NoOne, agent |-> CHOOSE g \in Agents : TRUE,
            sess |-> NoSession]
NoEvict == [sess |-> NoSession, seen |-> "unpinned"]

InFlight(t) == act[t].st # "idle"
Free == cpu = NoTask

Init ==
    /\ now = 0
    /\ access = Unverified
    /\ gen = 0
    /\ boot = [b \in Boots |-> IdleBoot]
    /\ timer = [b \in Boots |-> 0]
    /\ rows \in {[k \in Sessions |-> IF k[1] = NoOne THEN legacy[k[2]] ELSE AbsentRow] :
                    legacy \in {f \in [Agents -> UNION {LegacyRow(g) : g \in Agents}] :
                                  \A g \in Agents : f[g] \in LegacyRow(g)}}
    /\ disk \in SUBSET {LegacySessionId(g) : g \in {g \in Agents : Running(NoOne, g)}}
    /\ resident = {}
    /\ pins = {}
    /\ restoreStarted = FALSE
    /\ restore = [b \in Boots |-> IdleRestore]
    /\ act = [t \in Tasks |-> IdleAct]
    /\ evict = NoEvict
    /\ cpu = NoTask
    /\ overtaken = {}
    /\ stalePins = {}

-----------------------------------------------------------------------------
(* suspend_product_agents: activations and restore tasks in flight go on.   *)

ClearResidency ==
    /\ pins' = {}
    /\ stalePins' = {}
    /\ overtaken' = {t \in Tasks : InFlight(t)}

Suspend == ClearResidency /\ restoreStarted' = FALSE

(* account/bootstrap *)

MayBootstrap ==
    /\ Free
    /\ gen < MaxBoot
    /\ Overlap \/ \A b \in Boots : boot[b].st = "idle"

\* The handler takes a generation and reads the current account, then awaits
\* Core's answer.
BootstrapBegin ==
    /\ MayBootstrap
    /\ gen' = gen + 1
    /\ boot' = [boot EXCEPT ![gen + 1] = [st |-> "waiting", prev |-> CurrentAccount]]
    /\ UNCHANGED <<now, access, timer, rows, resident, disk, pins, restoreStarted,
                   restore, act, evict, cpu, overtaken, stalePins>>

\* An empty token (sign-out) is refused without a request to Core.
BootstrapSignOut ==
    /\ MayBootstrap
    /\ gen' = gen + 1
    /\ access' = Unverified
    /\ Suspend
    /\ UNCHANGED <<now, boot, timer, rows, resident, disk, restore, act, evict, cpu>>

Answered(b) ==
    /\ Free
    /\ boot[b].st = "waiting"
    /\ boot' = [boot EXCEPT ![b] = IdleBoot]

\* Mutant: only the entry of an account after none is a switch.
SwitchedM(b, a) == boot[b].prev = NoOne

\* The granted account is not the one that had access when the request came.
Switched(b, a) == boot[b].prev # a

\* Mutant: no new timer while an older one is pending.
SpawnAccessExpiryM(b, t) ==
    IF \E c \in Boots : timer[c] # 0 THEN timer ELSE [timer EXCEPT ![b] = t]

\* spawn_access_expiry: each granted generation sleeps until its deadline.
SpawnAccessExpiry(b, t) == [timer EXCEPT ![b] = t]

BootstrapGranted(b) ==
    /\ Answered(b)
    /\ \E a \in Accounts, d \in 1..MaxValid :
        /\ access' = Granted(a, now + d)
        /\ IF Switched(b, a)
           THEN ClearResidency ELSE UNCHANGED <<pins, overtaken, stalePins>>
        /\ rows' = ClaimLegacyAndSeed(a)
        /\ restore' = IF Switched(b, a) \/ ~restoreStarted
                      THEN [restore EXCEPT ![b].st = "spawned"] ELSE restore
        /\ restoreStarted' = TRUE
        /\ timer' = SpawnAccessExpiry(b, now + d)
    /\ UNCHANGED <<now, gen, resident, disk, act, evict, cpu>>

\* Core answers that the account may not enter, no valid answer arrives before
\* the HTTP timeout, or Core grants but the registry cannot be seeded.
BootstrapRefused(b) ==
    /\ Answered(b)
    /\ access' \in {Denied, Unverified}
    /\ Suspend
    /\ UNCHANGED <<now, gen, timer, rows, resident, disk, restore, act, evict, cpu>>

\* The sleep is over: only the timer of the newest generation counts.
TimerFires(b) ==
    /\ Free
    /\ timer[b] # 0 /\ timer[b] <= now
    /\ timer' = [timer EXCEPT ![b] = 0]
    /\ IF gen = b /\ CurrentAccount = NoOne
       THEN Suspend ELSE UNCHANGED <<pins, restoreStarted, overtaken, stalePins>>
    /\ UNCHANGED <<now, access, gen, boot, rows, resident, disk, restore, act, evict,
                   cpu>>

\* require_runtime_access fails for some other request, which suspends.
RequestRejected ==
    /\ Free
    /\ CurrentAccount = NoOne
    /\ Suspend
    /\ UNCHANGED <<now, access, gen, boot, timer, rows, resident, disk, restore, act,
                   evict, cpu>>

Tick ==
    /\ Free
    /\ now < MaxTime
    /\ now' = now + 1
    /\ UNCHANGED <<access, gen, boot, timer, rows, resident, disk, pins, restoreStarted,
                   restore, act, evict, cpu, overtaken, stalePins>>

-----------------------------------------------------------------------------
(* activate, up to its first await.                                         *)

Activate(t, g) ==
    LET o        == CurrentAccount
        prepared == PrepareActivation(o, g)
        s        == prepared[<<o, g>>].main
    IN  /\ o # NoOne
        /\ \/ /\ s \in resident          \* already hosted: pin and return
              /\ rows' \in Recorded(prepared, o, g, "resident")
              /\ pins' = pins \cup {s}
              /\ stalePins' = stalePins \ {s}
              /\ UNCHANGED act
           \/ /\ s \notin resident \cup disk  \* the session is in another workspace
              /\ rows' \in Recorded(prepared, o, g, "error")
              /\ UNCHANGED <<pins, act, stalePins>>
           \/ /\ s \notin resident       \* session/load is gated here, session/new later
              /\ rows' = prepared
              /\ act' = [act EXCEPT ![t] =
                    [st |-> IF s \in disk THEN "gated" ELSE "opening",
                     owner |-> o, agent |-> g, sess |-> s]]
              /\ UNCHANGED <<pins, stalePins>>
           \/ /\ StoreFails             \* the workspace, the row or the profile
              /\ rows' \in {rows, prepared}
              /\ UNCHANGED <<pins, act, stalePins>>
        /\ overtaken' = overtaken \ {t}

\* agents/activate
CallActivate(c, g) ==
    /\ Free
    /\ ~InFlight(c)
    /\ Activate(c, g)
    /\ UNCHANGED <<now, access, gen, boot, timer, resident, disk, restoreStarted,
                   restore, evict, cpu>>

\* Mutant: the restore loop does not go on after an activation.
EndsM(t) ==
    /\ act' = [act EXCEPT ![t] = IdleAct]
    /\ cpu' = NoTask

\* An activation ends: a restore task goes on with its loop at once.
Ends(t) ==
    /\ act' = [act EXCEPT ![t] = IdleAct]
    /\ cpu' = IF t \in Boots THEN t ELSE NoTask

ActivationFails(t) ==
    /\ rows' \in Recorded(rows, act[t].owner, act[t].agent, "error")
    /\ Ends(t)

\* new_session reaches require_product_session_access after its first awaits;
\* the gate itself suspends when there is no access.
Gate(t) ==
    /\ Free
    /\ act[t].st = "opening"
    /\ IF CurrentAccount # NoOne /\ CurrentAccount \in OwnerOf(act[t].sess)
       THEN act' = [act EXCEPT ![t].st = "gated"] /\ UNCHANGED <<rows, cpu>>
       ELSE ActivationFails(t)
    /\ IF CurrentAccount = NoOne
       THEN Suspend ELSE UNCHANGED <<pins, restoreStarted, overtaken, stalePins>>
    /\ UNCHANGED <<now, access, gen, boot, timer, resident, disk, restore, evict>>

\* The session actor is spawned and registered; more awaits follow.
Register(t) ==
    /\ Free
    /\ act[t].st = "gated"
    /\ act' = [act EXCEPT ![t].st = "open"]
    /\ resident' = resident \cup {act[t].sess}
    /\ disk' = disk \cup {act[t].sess}
    /\ UNCHANGED <<now, access, gen, boot, timer, rows, pins, restoreStarted, restore,
                   evict, cpu, overtaken, stalePins>>

\* session/new or session/load returns an error.
OpenFails(t) ==
    /\ Free
    /\ act[t].st \in {"opening", "gated"}
    /\ ActivationFails(t)
    /\ UNCHANGED <<now, access, gen, boot, timer, resident, disk, pins, restoreStarted,
                   restore, evict, overtaken, stalePins>>

\* The call returned: pin and record, without looking at the access again.
Activated(t) ==
    /\ Free
    /\ act[t].st = "open"
    /\ pins' = pins \cup {act[t].sess}
    /\ stalePins' = IF t \in overtaken THEN stalePins \cup {act[t].sess}
                                       ELSE stalePins \ {act[t].sess}
    /\ rows' \in Recorded(rows, act[t].owner, act[t].agent, "resident")
    /\ Ends(t)
    /\ UNCHANGED <<now, access, gen, boot, timer, resident, disk, restoreStarted, restore,
                   evict, overtaken>>

-----------------------------------------------------------------------------
(* spawn_restore_activated_agents: the spawned task reads the account and    *)
(* its running rows, then activates them one after the other; each           *)
(* activation reads the current account again.                               *)

RestoreBegins(b) ==
    /\ Free
    /\ restore[b].st = "spawned"
    /\ IF CurrentAccount = NoOne
       THEN restore' = [restore EXCEPT ![b] = IdleRestore] /\ UNCHANGED cpu
       ELSE \/ /\ restore' = [restore EXCEPT ![b] =
                    [st |-> "running", todo |-> {g \in Agents : Running(CurrentAccount, g)}]]
               /\ cpu' = b
            \/ /\ StoreFails            \* the rows cannot be listed
               /\ restore' = [restore EXCEPT ![b] = IdleRestore]
               /\ UNCHANGED cpu
    /\ UNCHANGED <<now, access, gen, boot, timer, rows, resident, disk, pins,
                   restoreStarted, act, evict, overtaken, stalePins>>

RestoreNext(b) ==
    /\ cpu = b
    /\ \E g \in restore[b].todo :
        /\ restore' = [restore EXCEPT ![b].todo = @ \ {g}]
        /\ \/ Activate(b, g)
           \/ /\ CurrentAccount = NoOne   \* the error is logged
              /\ UNCHANGED <<rows, pins, act, overtaken, stalePins>>
    /\ cpu' = IF act'[b].st = "idle" THEN b ELSE NoTask
    /\ UNCHANGED <<now, access, gen, boot, timer, resident, disk, restoreStarted, evict>>

RestoreEnds(b) ==
    /\ cpu = b
    /\ restore[b].todo = {}
    /\ restore' = [restore EXCEPT ![b] = IdleRestore]
    /\ cpu' = NoTask
    /\ UNCHANGED <<now, access, gen, boot, timer, rows, resident, disk, pins,
                   restoreStarted, act, evict, overtaken, stalePins>>

-----------------------------------------------------------------------------
(* A client detaches: handle_evict_sessions reads the pin, awaits the        *)
(* session's live-work check, then unloads an idle session.                  *)

EvictBegins(s) ==
    /\ Free
    /\ s \in resident
    /\ evict = NoEvict
    /\ evict' = [sess |-> s, seen |-> IF s \in pins THEN "pinned" ELSE "unpinned"]
    /\ UNCHANGED <<now, access, gen, boot, timer, rows, resident, disk, pins,
                   restoreStarted, restore, act, cpu, overtaken, stalePins>>

EvictEnds ==
    /\ Free
    /\ evict # NoEvict
    /\ evict' = NoEvict
    /\ \/ evict.seen = "unpinned" /\ resident' = resident \ {evict.sess}
       \/ UNCHANGED resident            \* pinned, or busy
    /\ UNCHANGED <<now, access, gen, boot, timer, rows, disk, pins, restoreStarted,
                   restore, act, cpu, overtaken, stalePins>>

\* An explicit session/close, or a sweep (by the supervisor, or at the end of a
\* detach or load) reaps an actor that died.
SessionGone(s) ==
    /\ Free
    /\ s \in resident
    /\ resident' = resident \ {s}
    /\ UNCHANGED <<now, access, gen, boot, timer, rows, disk, pins, restoreStarted,
                   restore, act, evict, cpu, overtaken, stalePins>>

\* The Host process ends and is started again: what it kept in memory is lost.
HostRestarts ==
    /\ Free
    /\ access' = Unverified
    /\ gen' = 0
    /\ boot' = [b \in Boots |-> IdleBoot]
    /\ timer' = [b \in Boots |-> 0]
    /\ resident' = {}
    /\ pins' = {} /\ overtaken' = {} /\ stalePins' = {}
    /\ restoreStarted' = FALSE
    /\ restore' = [b \in Boots |-> IdleRestore]
    /\ act' = [t \in Tasks |-> IdleAct]
    /\ evict' = NoEvict
    /\ UNCHANGED <<now, rows, disk, cpu>>

Next ==
    \/ BootstrapBegin \/ BootstrapSignOut \/ RequestRejected \/ Tick \/ EvictEnds
    \/ HostRestarts
    \/ \E b \in Boots : \/ BootstrapGranted(b) \/ BootstrapRefused(b) \/ TimerFires(b)
                        \/ RestoreBegins(b) \/ RestoreNext(b) \/ RestoreEnds(b)
    \/ \E c \in Callers, g \in Agents : CallActivate(c, g)
    \/ \E t \in Tasks : Gate(t) \/ Register(t) \/ OpenFails(t) \/ Activated(t)
    \/ \E s \in Sessions : EvictBegins(s) \/ SessionGone(s)

Spec == Init /\ [][Next]_vars

\* Fairness: Core answers or the request times out; the executor polls timers
\* and tasks that are ready; a session call returns.
Fairness ==
    /\ \A b \in Boots :
        /\ WF_vars(BootstrapGranted(b) \/ BootstrapRefused(b))
        /\ WF_vars(TimerFires(b))
        /\ WF_vars(RestoreBegins(b) \/ RestoreNext(b) \/ RestoreEnds(b))
    /\ \A t \in Tasks : WF_vars(Gate(t) \/ Register(t) \/ OpenFails(t) \/ Activated(t))

FairSpec == Spec /\ Fairness

-----------------------------------------------------------------------------
(* Properties *)

Row == [desired : {"absent", "inactive", "running"},
        runtime : {"available", "starting", "resident", "error"},
        main : Sessions \cup {NoSession}]
Access == [st : {"unverified", "denied", "granted"}, account : Owners,
           until : 0..(MaxTime + MaxValid)]
Boot    == [st : {"idle", "waiting"}, prev : Owners]
Restore == [st : {"idle", "spawned", "running"}, todo : SUBSET Agents]
Act     == [st : {"idle", "opening", "gated", "open"}, owner : Owners, agent : Agents,
            sess : Sessions \cup {NoSession}]
Evict   == [sess : Sessions \cup {NoSession}, seen : {"pinned", "unpinned"}]

\* Every variable has its type.
TypeOK ==
    /\ now \in 0..MaxTime
    /\ access \in Access
    /\ gen \in 0..MaxBoot
    /\ boot \in [Boots -> Boot]
    /\ timer \in [Boots -> 0..(MaxTime + MaxValid)]
    /\ rows \in [Sessions -> Row]
    /\ resident \subseteq Sessions /\ disk \subseteq Sessions
    /\ pins \subseteq Sessions /\ stalePins \subseteq pins
    /\ restoreStarted \in BOOLEAN
    /\ restore \in [Boots -> Restore]
    /\ act \in [Tasks -> Act]
    /\ overtaken \subseteq Tasks
    /\ evict \in Evict
    /\ cpu \in Boots \cup {NoTask}

\* No two registry rows share a main session: accounts never reach one
\* another's conversation, also after legacy rows were claimed.
MainSessionsUnique ==
    \A k, l \in Sessions :
        rows[k].main = rows[l].main /\ rows[k].main # NoSession => k = l

\* A pin set by an activation that no suspension overtook belongs to the account
\* that was granted access last: a switch of accounts leaves no pin behind.
PinsBelongToAccount ==
    \A s \in pins \ stalePins :
        access.st = "granted" /\ OwnerOf(s) = {access.account}

\* A wanted Agent stays wanted with the session it has, whatever fails, expires,
\* is suspended or restarts; claiming moves the row to its first account.
KeepsActivation(k) ==
    rows[k].desired = "running" =>
        \E o \in Owners :
            /\ o = k[1] \/ k[1] = NoOne
            /\ rows'[<<o, k[2]>>].desired = "running"
            /\ rows'[<<o, k[2]>>].main = rows[k].main
ActivationsDurable == [][\A k \in Sessions : KeepsActivation(k)]_vars

\* When the membership ends the pins of the account go, though timers of older
\* generations are ignored and a bootstrap may be in flight at that instant.
ExpiredPinsCleared ==
    (access.st = "granted" /\ CurrentAccount = NoOne /\ pins # stalePins)
        ~> (pins = stalePins \/ CurrentAccount # NoOne)

\* A restore task that starts while its account has access reaches every Agent
\* the account wants to run, although the activation of another may fail.
RestoreReachesAll ==
    \A b \in Boots, a \in Accounts, g \in Agents :
        (restore[b].st = "spawned" /\ CurrentAccount = a /\ Running(a, g))
            ~> (rows[<<a, g>>].main \in pins \/ rows[<<a, g>>].runtime = "error"
                \/ CurrentAccount # a)

-----------------------------------------------------------------------------
(* The inductive strengthening of the safety properties *)

\* A row holds its own session, the legacy one of its agent, or none; it has one
\* when it wants to run.
RowShape ==
    \A k \in Sessions :
        /\ rows[k].main \in {NoSession, k, LegacySessionId(k[2])}
        /\ rows[k].desired = "running" => rows[k].main # NoSession
        /\ rows[k].desired = "absent" => rows[k].main = NoSession

\* An activation in flight opens the main session of a row that wants to run.
ActShape ==
    \A t \in Tasks : InFlight(t) =>
        /\ act[t].owner \in Accounts
        /\ act[t].sess \in Sessions
        /\ rows[<<act[t].owner, act[t].agent>>].desired = "running"
        /\ rows[<<act[t].owner, act[t].agent>>].main = act[t].sess

\* Access is granted to an account.
GrantedShape == access.st = "granted" => access.account \in Accounts

\* At most one bootstrap is in flight, and the account it found with access
\* still has it.
BootShape ==
    /\ \A b \in Boots : boot[b].st = "waiting" /\ boot[b].prev # NoOne =>
         access.st = "granted" /\ access.account = boot[b].prev
    /\ \A b, c \in Boots : boot[b].st = "waiting" /\ boot[c].st = "waiting" => b = c

\* An activation no suspension overtook works for the account with access.
ActsBelongToAccount ==
    \A t \in Tasks : InFlight(t) /\ t \notin overtaken =>
        access.st = "granted" /\ act[t].owner = access.account

\* A restore task that holds the executor has no activation in flight, and an
\* activation of a restore task belongs to a loop that goes on.
RestoreShape ==
    \A b \in Boots :
        /\ InFlight(b) => restore[b].st = "running"
        /\ cpu = b => restore[b].st = "running" /\ ~InFlight(b)
        /\ boot[b].st = "waiting" => restore[b].st = "idle" /\ b <= gen
        /\ restore[b].st # "idle" => b <= gen

RegistryInv == TypeOK /\ RowShape /\ MainSessionsUnique /\ ActShape /\ GrantedShape
SerialInv   == /\ RegistryInv /\ RestoreShape /\ BootShape
               /\ ActsBelongToAccount /\ PinsBelongToAccount

-----------------------------------------------------------------------------
(* A statement of the documents that the code does not keep *)

\* Withdrawn access (signed out, denied, unverifiable) leaves no product
\* session pinned.
WithdrawnAccessHasNoPins == access.st # "granted" => pins = {}
=============================================================================
