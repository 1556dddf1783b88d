-------------------------- MODULE ProviderRouting --------------------------
(***************************************************************************)
(* How a model request of a product Agent finds its provider: provider     *)
(* profiles and their secrets, model assignments, the append-only session  *)
(* bindings, the credential lease and the turn route records of one        *)
(* account.                                                                *)
(*                                                                         *)
(* Provider management runs on the Host's executor, one synchronous        *)
(* handler after the other; turns are prepared and submitted on the        *)
(* threads of their sessions.  Each call of a store opens the database     *)
(* anew, so the two kinds of steps interleave between any two calls.  A    *)
(* handler is one action unless it writes to two stores.                   *)
(***************************************************************************)
EXTENDS Naturals, Sequences

CONSTANTS
    Profiles,    \* profile ids, fresh UUIDs; also name the credential handles
    Endpoints,   \* base URL, protocol, preset and auth kind of a profile
    Models,      \* model ids
    Sessions,    \* sessions of one product Agent: its main one and subagents
    Roles,       \* model roles of the turns
    Main,        \* the role that the others fall back to
    Agent,       \* assignment scope: the product Agent
    Global,      \* assignment scope: the account
    Assignable,  \* bound: the (scope, role) pairs that get assignments
    Turns,       \* logical turn ids
    Attempts,    \* turn submissions in flight
    None,        \* no row, no value
    MaxRev,      \* bound: route revisions of a profile
    MaxBind      \* bound: binding revisions of a session and role

Scopes == {Agent, Global} \cup Sessions
Slots  == Sessions \X Roles

ASSUME RoutingAssumption ==
    /\ Assignable \subseteq Scopes \X (Roles \cup {Main})
    /\ None \notin Profiles \cup Endpoints \cup Models \cup Turns
    /\ None \notin Slots
    /\ MaxRev \in Nat \ {0} /\ MaxBind \in Nat

VARIABLES
    access,       \* the account's ClientAccessGuard lets it pass
    profiles,     \* provider_profiles; revision 0 is no row
    vault,        \* credential handles that have a secret
    op,           \* the Host's handler between its writes to vault and database
    assignments,  \* model_assignments
    bindings,     \* session_provider_bindings, by slot and revision
    records,      \* turn_route_records
    att,          \* submissions in flight; rev is the next SELECT, then the revision
    issued,       \* history: profile ids handed out
    stored        \* history: profile ids that had a row

vars == <<access, profiles, vault, op, assignments, bindings, records, att, issued, stored>>

Input == [ep : Endpoints, models : SUBSET Models]

NoRow     == [rev |-> 0, ep |-> None, models |-> {}]
Unassigned == [profile |-> None, model |-> None]
NoRoute   == [profile |-> None, ep |-> None, model |-> None, rev |-> 0]
NoRecord  == [rev |-> 0, route |-> NoRoute]
NoOp      == [kind |-> "none", profile |-> None, input |-> None]
Idle      == [st |-> "idle", slot |-> None, turn |-> None, rev |-> 0, route |-> NoRoute]

HasRow(p) == profiles[p].rev # 0

Init ==
    /\ access = FALSE
    /\ profiles = [p \in Profiles |-> NoRow]
    /\ vault = {}
    /\ op = NoOp
    /\ assignments = [k \in Assignable |-> Unassigned]
    /\ bindings = [s \in Slots |-> <<>>]
    /\ records = [k \in Slots \X Turns |-> NoRecord]
    /\ att = [t \in Attempts |-> Idle]
    /\ issued = {}
    /\ stored = {}

\* Bootstrap, expiry, sign-out or a switch of accounts.
AccessChanges ==
    /\ access' = ~access
    /\ UNCHANGED <<profiles, vault, op, assignments, bindings, records, att, issued, stored>>

\* A handler of the Host starts: no other one is under way, the account has access.
HandlerStarts == op = NoOp /\ access

-----------------------------------------------------------------------------
(* Provider profiles and secrets *)

\* Mutant: an id may be handed out again.
IssueM(p) == issued

\* Ids of profiles and credential handles are random UUIDs, never handed out twice.
Issue(p) == issued \cup {p}

\* create: the secret goes to the vault first.
CreatePut(p, in) ==
    /\ HandlerStarts
    /\ p \notin issued
    /\ vault' = vault \cup {p}
    /\ issued' = Issue(p)
    /\ op' = [kind |-> "create", profile |-> p, input |-> in]
    /\ UNCHANGED <<access, profiles, assignments, bindings, records, att, stored>>

CreateFails == op' = [kind |-> "rollback", profile |-> op.profile, input |-> None]

\* The row is inserted, or refused (a duplicate name, a database error).  An inserted
\* row is read back; when that fails the create fails too, and the row stays.
CreateInsert ==
    /\ op.kind = "create"
    /\ \/ /\ profiles' = [profiles EXCEPT ![op.profile] =
                [rev |-> 1, ep |-> op.input.ep, models |-> op.input.models]]
          /\ stored' = stored \cup {op.profile}
          /\ op' = NoOp \/ CreateFails
       \/ CreateFails /\ UNCHANGED <<profiles, stored>>
    /\ UNCHANGED <<access, vault, assignments, bindings, records, att, issued>>

\* The new secret is deleted again; the vault may refuse.
CreateRollback ==
    /\ op.kind = "rollback"
    /\ vault' \in {vault, vault \ {op.profile}}
    /\ op' = NoOp
    /\ UNCHANGED <<access, profiles, assignments, bindings, records, att, issued, stored>>

\* Mutant: a change of the models alone is no new revision.
RouteChangedM(row, in) == row.ep # in.ep

RouteChanged(row, in) == row.ep # in.ep \/ row.models # in.models

Updated(row, in) ==
    [rev |-> IF RouteChanged(row, in) THEN row.rev + 1 ELSE row.rev,
     ep |-> in.ep, models |-> in.models]

Update(p, in) ==
    /\ HandlerStarts
    /\ HasRow(p)
    /\ Updated(profiles[p], in).rev <= MaxRev
    /\ profiles' = [profiles EXCEPT ![p] = Updated(profiles[p], in)]
    /\ UNCHANGED <<access, vault, op, assignments, bindings, records, att, issued, stored>>

\* replace_secret: the vault is written, then the last four digits of the row.
ReplaceSecret(p) ==
    /\ HandlerStarts
    /\ HasRow(p)
    /\ vault' = vault \cup {p}
    /\ UNCHANGED <<access, profiles, op, assignments, bindings, records, att, issued, stored>>

\* Mutant: the row is deleted although the vault refused to delete the secret.
SecretDeletedM(p) == vault' \in {vault, vault \ {p}}

SecretDeleted(p) == vault' = vault \ {p}

\* delete: the secret first; when the vault refuses nothing else happens.
DeleteSecret(p) ==
    /\ HandlerStarts
    /\ HasRow(p)
    /\ SecretDeleted(p)
    /\ op' = [kind |-> "delete", profile |-> p, input |-> None]
    /\ UNCHANGED <<access, profiles, assignments, bindings, records, att, issued, stored>>

\* The row goes with the assignments that refer to it, or the database refuses.
DeleteRow ==
    /\ op.kind = "delete"
    /\ op' = NoOp
    /\ \/ /\ profiles' = [profiles EXCEPT ![op.profile] = NoRow]
          /\ assignments' = [k \in Assignable |-> IF assignments[k].profile = op.profile
                                                  THEN Unassigned ELSE assignments[k]]
       \/ UNCHANGED <<profiles, assignments>>
    /\ UNCHANGED <<access, vault, bindings, records, att, issued, stored>>

-----------------------------------------------------------------------------
(* Model assignments *)

Upsert(k, p, m) ==
    /\ HandlerStarts
    /\ HasRow(p) /\ m \in profiles[p].models
    /\ assignments' = [assignments EXCEPT ![k] = [profile |-> p, model |-> m]]
    /\ UNCHANGED <<access, profiles, vault, op, bindings, records, att, issued, stored>>

DeleteAssignment(k) ==
    /\ HandlerStarts
    /\ assignments[k] # Unassigned
    /\ assignments' = [assignments EXCEPT ![k] = Unassigned]
    /\ UNCHANGED <<access, profiles, vault, op, bindings, records, att, issued, stored>>

\* resolve_with_main_fallback: the narrowest scope first, then again for Main.  A
\* handler of the Host reads all of it at once.
LookupOrder(s) ==
    <<s, <<Agent, s[2]>>, <<Global, s[2]>>,
      <<s[1], Main>>, <<Agent, Main>>, <<Global, Main>>>>

Assigned(k) == k \in Assignable /\ assignments[k] # Unassigned

Resolve(s) ==
    LET hits == {i \in 1..6 : Assigned(LookupOrder(s)[i])}
    IN  IF hits = {} THEN Unassigned
        ELSE assignments[LookupOrder(s)[CHOOSE i \in hits : \A j \in hits : i <= j]]

\* RouteCompiler: what the profile's row makes of an assignment.  The Agent's
\* model policy may refuse the result, which the actions leave open.
Draft(a)    == [profile |-> a.profile, ep |-> None, model |-> a.model, rev |-> 0]
Compiles(a) == HasRow(a.profile) /\ a.model \in profiles[a.profile].models
Compiled(a) == [profile |-> a.profile, ep |-> profiles[a.profile].ep, model |-> a.model,
                rev |-> profiles[a.profile].rev]

-----------------------------------------------------------------------------
(* Session bindings *)

\* Mutant: the first binding is written without looking for a newer one.
BindInitialM(s, route) == [bindings EXCEPT ![s] = <<route>>]

\* bind_initial, in one transaction: a binding that exists is kept.
BindInitial(s, route) ==
    IF bindings[s] = <<>> THEN [bindings EXCEPT ![s] = <<route>>] ELSE bindings

\* bindings/resolve: the handler binds a slot that has no binding.
ResolveBinding(s) ==
    /\ HandlerStarts
    /\ bindings[s] = <<>>
    /\ Resolve(s) # Unassigned /\ Compiles(Resolve(s))
    /\ bindings' = BindInitial(s, Compiled(Resolve(s)))
    /\ UNCHANGED <<access, profiles, vault, op, assignments, records, att, issued, stored>>

Appends(s, route) ==
    /\ HandlerStarts
    /\ bindings[s] # <<>>
    /\ Len(bindings[s]) < MaxBind
    /\ bindings' = [bindings EXCEPT ![s] = Append(@, route)]
    /\ UNCHANGED <<access, profiles, vault, op, assignments, records, att, issued, stored>>

\* bindings/switch: an explicit switch or a compatible migration.
SwitchBinding(s) ==
    /\ Resolve(s) # Unassigned /\ Compiles(Resolve(s))
    /\ Appends(s, Compiled(Resolve(s)))

\* bindings/switch: back to the route of an older revision.
RollbackBinding(s, i) ==
    /\ i \in 1..(Len(bindings[s]) - 1)
    /\ Appends(s, bindings[s][i])

-----------------------------------------------------------------------------
(* prepare_turn_for_role, on the session's thread *)

Fails(t) == att' = [att EXCEPT ![t] = Idle]

Carries(t, st, rev, route) ==
    att' = [att EXCEPT ![t] = [st |-> st, slot |-> att[t].slot, turn |-> att[t].turn,
                               rev |-> rev, route |-> route]]
Moves(t, st) == Carries(t, st, att[t].rev, att[t].route)

Prepares == UNCHANGED <<access, profiles, vault, op, assignments, bindings, records,
                        issued, stored>>

Begin(t, s, u) ==
    /\ att[t] = Idle
    /\ access
    /\ att' = [att EXCEPT ![t] =
                 [st |-> IF bindings[s] = <<>> THEN "unbound" ELSE "bound",
                  slot |-> s, turn |-> u, rev |-> 1, route |-> NoRoute]]
    /\ Prepares

\* One SELECT of the lookup, the next in order; all of them outside a transaction.
ReadAssignment(t) ==
    LET k == LookupOrder(att[t].slot)[att[t].rev]
    IN  /\ att[t].st = "unbound"
        /\ \/ Assigned(k) /\ Carries(t, "assigned", 0, Draft(assignments[k]))
           \/ ~Assigned(k) /\ att[t].rev < 6 /\ Carries(t, "unbound", att[t].rev + 1, NoRoute)
           \/ ~Assigned(k) /\ att[t].rev = 6 /\ Fails(t)
        /\ Prepares

ReadProfile(t) ==
    /\ att[t].st = "assigned"
    /\ \/ Fails(t)                      \* no row, not enabled, or not the Agent's policy
       \/ /\ Compiles(att[t].route)
          /\ Carries(t, "compiled", 0, Compiled(att[t].route))
    /\ Prepares

BindTurn(t) ==
    /\ att[t].st = "compiled"
    /\ bindings' = BindInitial(att[t].slot, att[t].route)
    /\ Carries(t, "bound", 0, NoRoute)
    /\ UNCHANGED <<access, profiles, vault, op, assignments, records, issued, stored>>

\* CredentialLeaseResolver: the current binding, its profile, the secret.
ReadBinding(t) ==
    /\ att[t].st = "bound"
    /\ LET b == bindings[att[t].slot] IN Carries(t, "leasing", Len(b), b[Len(b)])
    /\ Prepares

\* validate_profile_revision
Serves(row, route) ==
    /\ row.rev # 0
    /\ row.rev >= route.rev
    /\ row.rev = route.rev => row.ep = route.ep

CheckProfile(t) ==
    /\ att[t].st = "leasing"
    /\ IF Serves(profiles[att[t].route.profile], att[t].route)
       THEN Moves(t, "checked") ELSE Fails(t)
    /\ Prepares

ReadSecret(t) ==
    /\ att[t].st = "checked"
    /\ \/ Fails(t)                      \* no secret, or the vault is unavailable
       \/ /\ att[t].route.profile \in vault
          /\ Moves(t, "prepared")
    /\ Prepares

\* A prepared turn is dropped (a subagent's bootstrap keeps only the model).
Abandon(t) == att[t].st = "prepared" /\ Fails(t) /\ Prepares

-----------------------------------------------------------------------------
(* ProductTurnRoute::submit *)

Key(t) == <<att[t].slot, att[t].turn>>

\* Mutant: any record of the turn will do.
AgreesM(t) == TRUE

\* No record of the turn yet, or one of the same binding revision.
Agrees(t) == records[Key(t)].rev \in {0, att[t].rev}

Validate(t) ==
    /\ att[t].st = "prepared"
    /\ IF Agrees(t) THEN Moves(t, "validated") ELSE Fails(t)
    /\ Prepares

\* The sampling actor accepts the request, or refuses it.
Accept(t) ==
    /\ att[t].st = "validated"
    /\ \/ Moves(t, "accepted")
       \/ Fails(t)
    /\ Prepares

RecordOf(t) == [rev |-> att[t].rev, route |-> att[t].route]

\* record_submitted, in one transaction; when it fails the request is cancelled.
RecordSubmitted(t) ==
    /\ att[t].st = "accepted"
    /\ \/ /\ Agrees(t)
          /\ records' = IF records[Key(t)] = NoRecord
                        THEN [records EXCEPT ![Key(t)] = RecordOf(t)] ELSE records
          /\ Moves(t, "calling")
       \/ Fails(t) /\ UNCHANGED records
    /\ UNCHANGED <<access, profiles, vault, op, assignments, bindings, issued, stored>>

\* The model answered; tools run, or the call is retried.
Answered(t) ==
    /\ att[t].st = "calling"
    /\ Moves(t, "active")
    /\ Prepares

\* submit_again: a further model call of the turn, with the same config.
SubmitAgain(t) ==
    /\ att[t].st = "active"
    /\ Moves(t, "calling")
    /\ Prepares

TurnEnds(t) == att[t].st = "active" /\ Fails(t) /\ Prepares

\* The Host process ends, wherever its threads are, and is started again.
HostRestarts ==
    /\ access' = FALSE
    /\ op' = NoOp
    /\ att' = [t \in Attempts |-> Idle]
    /\ UNCHANGED <<profiles, vault, assignments, bindings, records, issued, stored>>

Next ==
    \/ AccessChanges \/ CreateInsert \/ CreateRollback \/ DeleteRow \/ HostRestarts
    \/ \E p \in Profiles : \/ \E in \in Input : CreatePut(p, in) \/ Update(p, in)
                           \/ ReplaceSecret(p) \/ DeleteSecret(p)
    \/ \E k \in Assignable : \/ \E p \in Profiles, m \in Models : Upsert(k, p, m)
                             \/ DeleteAssignment(k)
    \/ \E s \in Slots : \/ ResolveBinding(s) \/ SwitchBinding(s)
                        \/ \E i \in 1..MaxBind : RollbackBinding(s, i)
    \/ \E t \in Attempts :
        \/ \E s \in Slots, u \in Turns : Begin(t, s, u)
        \/ ReadAssignment(t) \/ ReadProfile(t) \/ BindTurn(t) \/ ReadBinding(t)
        \/ CheckProfile(t) \/ ReadSecret(t) \/ Abandon(t)
        \/ Validate(t) \/ Accept(t) \/ RecordSubmitted(t)
        \/ Answered(t) \/ SubmitAgain(t) \/ TurnEnds(t)

Spec == Init /\ [][Next]_vars

-----------------------------------------------------------------------------
(* Properties *)

Route   == [profile : Profiles \cup {None}, ep : Endpoints \cup {None},
            model : Models \cup {None}, rev : 0..MaxRev]
Attempt == [st : {"idle", "unbound", "assigned", "compiled", "bound", "leasing", "checked",
                  "prepared", "validated", "accepted", "calling", "active"},
            slot : Slots \cup {None}, turn : Turns \cup {None},
            rev : Nat, route : Route]

\* Every variable has its type.
TypeOK ==
    /\ access \in BOOLEAN
    /\ profiles \in [Profiles -> [rev : 0..MaxRev, ep : Endpoints \cup {None},
                                  models : SUBSET Models]]
    /\ vault \subseteq Profiles
    /\ op \in [kind : {"none", "create", "rollback", "delete"},
               profile : Profiles \cup {None}, input : Input \cup {None}]
    /\ assignments \in [Assignable -> [profile : Profiles \cup {None},
                                       model : Models \cup {None}]]
    /\ bindings \in [Slots -> Seq(Route)]
    /\ records \in [Slots \X Turns -> [rev : Nat, route : Route]]
    /\ att \in [Attempts -> Attempt]
    /\ issued \subseteq Profiles /\ stored \subseteq issued

\* A route names what its profile had at the revision it was compiled from: the
\* profile, while it exists, is at that revision or past it, and at it unchanged.
Faithful(route) ==
    HasRow(route.profile) =>
        /\ profiles[route.profile].rev >= route.rev
        /\ profiles[route.profile].rev = route.rev =>
             /\ profiles[route.profile].ep = route.ep
             /\ route.model \in profiles[route.profile].models

\* No binding is ever refused for the revision of its profile, although the turn
\* that binds it read assignment and profile at different times.
BindingsFaithful ==
    \A s \in Slots : \A i \in 1..Len(bindings[s]) : Faithful(bindings[s][i])

\* What a running turn sends is what its record and its binding say, although
\* bindings are switched while it is prepared and submitted, and although two
\* submissions of one turn may race.
TurnsFollowRecords ==
    \A t \in Attempts : att[t].st \in {"calling", "active"} =>
        /\ records[Key(t)] = [rev |-> att[t].rev, route |-> att[t].route]
        /\ bindings[att[t].slot][att[t].rev] = att[t].route

\* Bindings are only appended to, and the record of a turn is written once.
HistoryIsFinal ==
    [][/\ \A s \in Slots : /\ Len(bindings'[s]) >= Len(bindings[s])
                           /\ \A i \in 1..Len(bindings[s]) : bindings'[s][i] = bindings[s][i]
       /\ \A k \in Slots \X Turns : records[k] # NoRecord => records'[k] = records[k]]_vars

\* A profile that was deleted left no secret in the vault, whatever failed and
\* wherever the Host stopped.
DeletedLeavesNoSecret == \A p \in stored : ~HasRow(p) => p \notin vault

-----------------------------------------------------------------------------
(* The inductive strengthening of the safety properties *)

Leased == {"leasing", "checked", "prepared", "validated", "accepted", "calling", "active"}

\* A route the compiler made from a profile that had a row.
Compilable(route) ==
    /\ route.profile \in stored /\ route.ep \in Endpoints /\ route.model \in Models
    /\ route.rev \in 1..MaxRev
    /\ Faithful(route)

\* Only ids that had a row have one, and its endpoint is one.
RowShape ==
    \A p \in Profiles : HasRow(p) => p \in stored /\ profiles[p].ep \in Endpoints

\* The handler that creates a profile has an id of its own, fresh until the row is
\* inserted; the one that deletes a profile has removed its secret.
OpShape ==
    /\ op.kind = "create" => op.profile \in issued \ stored /\ op.input \in Input
    /\ op.kind = "rollback" => op.profile \in issued
    /\ op.kind = "delete" => op.profile \in stored \ vault

\* Assignments name profiles that had a row.
AssignmentShape ==
    \A k \in Assignable : assignments[k] # Unassigned =>
        assignments[k].profile \in stored /\ assignments[k].model \in Models

\* Every binding is a route the compiler made.
BindingShape == \A s \in Slots : \A i \in 1..Len(bindings[s]) : Compilable(bindings[s][i])

\* A record names a binding revision and its route.
RecordShape ==
    \A k \in Slots \X Turns : records[k] # NoRecord =>
        /\ records[k].rev \in 1..Len(bindings[k[1]])
        /\ records[k].route = bindings[k[1]][records[k].rev]

\* A submission carries the binding revision it read and that revision's route.
AttemptOK(t) ==
    /\ att[t].st # "idle" => att[t].slot \in Slots /\ att[t].turn \in Turns
    /\ att[t].st = "unbound" => att[t].rev \in 1..6
    /\ att[t].st = "assigned" =>
         att[t].route.profile \in stored /\ att[t].route.model \in Models
    /\ att[t].st = "compiled" => Compilable(att[t].route)
    /\ att[t].st \in Leased \cup {"bound"} => bindings[att[t].slot] # <<>>
    /\ att[t].st \in Leased =>
         /\ att[t].rev \in 1..Len(bindings[att[t].slot])
         /\ att[t].route = bindings[att[t].slot][att[t].rev]
    /\ att[t].st \in {"calling", "active"} => records[Key(t)] = RecordOf(t)
AttemptShape == \A t \in Attempts : AttemptOK(t)

RoutingInv == /\ TypeOK /\ RowShape /\ OpShape /\ AssignmentShape /\ BindingShape
              /\ RecordShape /\ AttemptShape /\ DeletedLeavesNoSecret
=============================================================================
