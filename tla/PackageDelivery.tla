-------------------------- MODULE PackageDelivery --------------------------
(***************************************************************************)
(* How a Package reaches the runtime catalog: the verified download, the   *)
(* permission approval bound to an install plan, the move into version     *)
(* storage, the registry commit, rollback, and the refresh of the shared   *)
(* catalog, on the Host processes of one state home.                       *)
(*                                                                         *)
(* Within a Host one mutation at a time holds the refresh gate, from the   *)
(* check of the plan to the end of the refresh.  Between two Hosts there   *)
(* is only the database: every read and every transaction of a mutation is *)
(* a step of its own, and a Host may die between any two.                  *)
(***************************************************************************)
EXTENDS Naturals

CONSTANTS
    Hosts,          \* Host processes on one state home
    Accounts,       \* accounts that may have the active subscription
    Packages, Artifacts, PackageOf, AgentIdOf, Precedence, PermissionsOf,
    VersionOf,      \* the exact version of an artifact, build metadata included
    Builtin,        \* the artifacts compiled into the Host
    Nested,         \* the artifacts with files in subdirectories
    Approvals,      \* ids of pending approvals; as many as MAX_PENDING_APPROVALS
    Dirs,           \* bound: fresh directories in version storage
    Damageable,     \* bound: the trees damaged from outside, as <<artifact, kept>>
    None

ASSUME DeliveryAssumption ==
    /\ PackageOf \in [Artifacts -> Packages]
    /\ Precedence \in [Artifacts -> Nat]
    /\ Builtin \subseteq Artifacts /\ Nested \subseteq Artifacts
    /\ None \notin Artifacts \cup Dirs \cup Accounts
    /\ \A a, b \in Builtin : PackageOf[a] = PackageOf[b] \/ AgentIdOf[a] = AgentIdOf[b] => a = b

VARIABLES
    registry,  \* agent_package_registry: Active and Previous of every Package
    storage,   \* the directories under versions/
    access,    \* the account whose subscription the Host's access has verified
    download,  \* the download in flight
    pending,   \* approvals that wait for the user
    op,        \* the mutation that holds the refresh gate, or the receipt of the last one
    live,      \* the shared runtime catalog, None when it is unavailable
    up         \* the Hosts that run

vars == <<registry, storage, access, download, pending, op, live, up>>

NoSlot    == [art |-> None, dir |-> None]
NoRow     == [active |-> NoSlot, previous |-> NoSlot]
NoDir     == [art |-> None, intact |-> FALSE, kept |-> "none"]
NoFetch   == [owner |-> None, art |-> None]
NoPending == [owner |-> None, art |-> None, base |-> None]
NoOp      == [pc |-> "idle", art |-> None, base |-> None, approved |-> FALSE, dir |-> None]

Busy     == {"observe", "move", "sync", "commit", "refresh"}
Receipts == {"visible", "superseded", "pending"}

GateIsFree(h) == op[h].pc \notin Busy

Active(p)    == registry[p].active.art
Installed(p) == Active(p) # None

----------------------------------------------------------------------------
\* The install plan of an artifact is the artifact and the Active one it was
\* made against; the rest of the plan follows from the two.

Added(a, b) == PermissionsOf[a] \ (IF b = None THEN {} ELSE PermissionsOf[b])

Upgrades(a, b) ==
    b \notin {None, a} => AgentIdOf[a] = AgentIdOf[b] /\ Precedence[a] > Precedence[b]

AgentIsFree(a) ==
    \A q \in Packages \ {PackageOf[a]} :
        Installed(q) => AgentIdOf[Active(q)] # AgentIdOf[a]

Plannable(a, b) ==
    /\ b = Active(PackageOf[a])
    /\ Upgrades(a, b)
    /\ AgentIsFree(a)

\* How much of a tree is on disk.  "moved": its files and its root, perhaps not its entry
\* in the version directory.  "entered": the entry too, but perhaps not its subdirectories
\* or the directories above it.  "disk": everything.  "torn": a power loss took one of
\* the latter.
Kept == {"moved", "entered", "disk", "torn"}

Synced(tree) == tree.kept \in {"entered", "disk", "torn"}

\* The version directory of an artifact, versions/<package>/<version>, is on disk.
ShelfOnDisk(a) ==
    \E d \in Dirs :
        /\ storage[d].kept = "disk"
        /\ PackageOf[storage[d].art] = PackageOf[a] /\ VersionOf[storage[d].art] = VersionOf[a]

\* Mutant: the tree's own files are not looked at.
VerifiedM(slot) == storage[slot.dir].art = slot.art /\ storage[slot.dir].intact

\* The tree under a slot's directory is the one its registry row vouches for.
Verified(slot) ==
    /\ storage[slot.dir].art = slot.art
    /\ storage[slot.dir].intact /\ storage[slot.dir].kept # "torn"

----------------------------------------------------------------------------
\* The runtime catalog: the built-in Packages, replaced and extended by the
\* installed ones.

Catalog ==
    {Active(p) : p \in {q \in Packages : Installed(q)}}
        \cup {b \in Builtin : ~Installed(PackageOf[b])}

LoadableM ==
    \A p \in Packages : Installed(p) =>
        LET a == Active(p) IN
        /\ Verified(registry[p].active)
        /\ \A b \in Builtin : PackageOf[b] = p =>
              /\ AgentIdOf[b] = AgentIdOf[a]
              /\ Precedence[a] > Precedence[b] \/ VersionOf[a] = VersionOf[b]

\* One damaged tree or one conflict with a built-in Package fails the whole load.
Loadable ==
    \A p \in Packages : Installed(p) =>
        LET a == Active(p) IN
        /\ Verified(registry[p].active)
        /\ \A b \in Builtin :
              IF PackageOf[b] = p
              THEN /\ AgentIdOf[b] = AgentIdOf[a]
                   /\ Precedence[a] > Precedence[b] \/ VersionOf[a] = VersionOf[b]
              ELSE AgentIdOf[b] # AgentIdOf[a]

VisibilityM(a, catalog) ==
    LET same == {x \in catalog : PackageOf[x] = PackageOf[a] /\ AgentIdOf[x] = AgentIdOf[a]}
    IN  IF same = {} THEN "pending" ELSE "visible"

\* What the receipt of a mutation says of its artifact.
Visibility(a, catalog) ==
    LET same == {x \in catalog : PackageOf[x] = PackageOf[a] /\ AgentIdOf[x] = AgentIdOf[a]}
    IN  IF same = {} THEN "pending"
        ELSE IF \E x \in same : VersionOf[x] = VersionOf[a] THEN "visible" ELSE "superseded"

----------------------------------------------------------------------------
Init ==
    /\ registry = [p \in Packages |-> NoRow]
    /\ storage = [d \in Dirs |-> NoDir]
    /\ access = [h \in Hosts |-> None]
    /\ download = [h \in Hosts |-> NoFetch]
    /\ pending = [h \in Hosts |-> [i \in Approvals |-> NoPending]]
    /\ op = [h \in Hosts |-> NoOp]
    /\ live = [h \in Hosts |-> Builtin]
    /\ up = Hosts

\* Bootstrap of an account, expiry or sign-out.
AccessChanges(h, account) ==
    /\ h \in up /\ access[h] # account
    /\ access' = [access EXCEPT ![h] = account]
    /\ UNCHANGED <<registry, storage, download, pending, op, live, up>>

DownloadStarts(h, a) ==
    /\ h \in up /\ access[h] # None /\ download[h] = NoFetch
    /\ \E i \in Approvals : pending[h][i] = NoPending
    /\ download' = [download EXCEPT ![h] = [owner |-> access[h], art |-> a]]
    /\ UNCHANGED <<registry, storage, access, pending, op, live, up>>

\* Transport, digest or signature refused, no plan, no room, or another account.
DownloadFails(h) ==
    /\ h \in up /\ download[h] # NoFetch
    /\ download' = [download EXCEPT ![h] = NoFetch]
    /\ UNCHANGED <<registry, storage, access, pending, op, live, up>>

\* A download that adds permissions parks its plan until the user approves.
ApprovalRequested(h, i) ==
    LET a == download[h].art
        b == Active(PackageOf[a])
    IN  /\ h \in up /\ download[h] # NoFetch /\ access[h] = download[h].owner
        /\ Plannable(a, b) /\ Added(a, b) # {}
        /\ pending[h][i] = NoPending
        /\ pending' = [pending EXCEPT ![h][i] = [owner |-> access[h], art |-> a, base |-> b]]
        /\ download' = [download EXCEPT ![h] = NoFetch]
        /\ UNCHANGED <<registry, storage, access, op, live, up>>

\* One that adds none goes straight to the gate.
InstallStarts(h) ==
    LET a == download[h].art
        b == Active(PackageOf[a])
    IN  /\ h \in up /\ download[h] # NoFetch /\ access[h] = download[h].owner
        /\ Plannable(a, b) /\ Added(a, b) = {}
        /\ GateIsFree(h)
        /\ op' = [op EXCEPT ![h] = [pc |-> "observe", art |-> a, base |-> b,
                                    approved |-> FALSE, dir |-> None]]
        /\ download' = [download EXCEPT ![h] = NoFetch]
        /\ UNCHANGED <<registry, storage, access, pending, live, up>>

\* The approval is consumed before its plan is compared with the registry.
Approve(h, i) ==
    /\ h \in up /\ access[h] # None /\ pending[h][i].owner = access[h]
    /\ GateIsFree(h)
    /\ op' = [op EXCEPT ![h] = [pc |-> "observe", art |-> pending[h][i].art,
                                base |-> pending[h][i].base, approved |-> TRUE, dir |-> None]]
    /\ pending' = [pending EXCEPT ![h][i] = NoPending]
    /\ UNCHANGED <<registry, storage, access, download, live, up>>

\* The timer of an approval, or the purge of a later request.
ApprovalExpires(h, i) ==
    /\ h \in up /\ pending[h][i] # NoPending
    /\ pending' = [pending EXCEPT ![h][i] = NoPending]
    /\ UNCHANGED <<registry, storage, access, download, op, live, up>>

----------------------------------------------------------------------------
Enters(h, pc) ==
    op' = [op EXCEPT ![h] = [pc |-> pc, art |-> op[h].art, base |-> op[h].base,
                             approved |-> op[h].approved, dir |-> op[h].dir]]

\* The mutation is done and the refresh follows, still under the gate.
Mutated(h, a) ==
    op' = [op EXCEPT ![h] = [pc |-> "refresh", art |-> a, base |-> None,
                             approved |-> FALSE, dir |-> None]]

\* The plan still describes the registry: the artifact may move into storage.
InstallObserves(h) ==
    /\ op[h].pc = "observe"
    /\ Plannable(op[h].art, op[h].base)
    /\ op[h].base # op[h].art
    /\ op[h].approved \/ Added(op[h].art, op[h].base) = {}
    /\ Enters(h, "move")
    /\ UNCHANGED <<registry, storage, access, download, pending, live, up>>

\* The artifact is Active already: its tree is verified and nothing changes.
AlreadyInstalled(h) ==
    /\ op[h].pc = "observe"
    /\ Plannable(op[h].art, op[h].base)
    /\ op[h].base = op[h].art
    /\ Verified(registry[PackageOf[op[h].art]].active)
    /\ Mutated(h, op[h].art)
    /\ UNCHANGED <<registry, storage, access, download, pending, live, up>>

InstallMovesM(h) ==
    \E d \in Dirs :
        /\ op[h].pc = "move" /\ storage[d] = NoDir
        /\ storage' = [storage EXCEPT ![d] = [art |-> op[h].art, intact |-> TRUE, kept |-> "moved"]]
        /\ op' = [op EXCEPT ![h] = [pc |-> "commit", art |-> op[h].art, base |-> op[h].base,
                                    approved |-> op[h].approved, dir |-> d]]
        /\ UNCHANGED <<registry, access, download, pending, live, up>>

\* The version directory is made where there is none, the staged files and their root
\* are synced, and the tree is renamed to a fresh name in the version directory.
InstallMoves(h) ==
    \E d \in Dirs :
        /\ op[h].pc = "move" /\ storage[d] = NoDir
        /\ storage' = [storage EXCEPT ![d] = [art |-> op[h].art, intact |-> TRUE, kept |-> "moved"]]
        /\ op' = [op EXCEPT ![h] = [pc |-> "sync", art |-> op[h].art, base |-> op[h].base,
                                    approved |-> op[h].approved, dir |-> d]]
        /\ UNCHANGED <<registry, access, download, pending, live, up>>

\* The version directory is synced.  Nothing syncs the subdirectories of the tree, nor
\* the directories above the version directory, which may be as new as it is.
InstallSyncs(h) ==
    /\ op[h].pc = "sync"
    /\ storage' = [storage EXCEPT ![op[h].dir] =
                      [art |-> storage[op[h].dir].art, intact |-> storage[op[h].dir].intact,
                       kept |-> IF op[h].art \notin Nested /\ ShelfOnDisk(op[h].art)
                                THEN "disk" ELSE "entered"]]
    /\ Enters(h, "commit")
    /\ UNCHANGED <<registry, access, download, pending, live, up>>

CommitAllowedM1(h) == AgentIsFree(op[h].art)

CommitAllowedM2(h) == op[h].base = Active(PackageOf[op[h].art])

\* The registry transaction repeats two checks: the Active artifact is still the
\* plan's, and no other Package has the Agent.
CommitAllowed(h) ==
    /\ op[h].base = Active(PackageOf[op[h].art])
    /\ op[h].base # None => AgentIdOf[op[h].base] = AgentIdOf[op[h].art]
    /\ AgentIsFree(op[h].art)

InstallCommits(h) ==
    LET p == PackageOf[op[h].art] IN
    /\ op[h].pc = "commit"
    /\ CommitAllowed(h)
    /\ registry' = [registry EXCEPT ![p] =
                       [active |-> [art |-> op[h].art, dir |-> op[h].dir],
                        previous |-> registry[p].active]]
    /\ Mutated(h, op[h].art)
    /\ UNCHANGED <<storage, access, download, pending, live, up>>

InstallFailsM(h) ==
    /\ op[h].pc \in {"observe", "move", "sync", "commit"}
    /\ Enters(h, "idle")
    /\ UNCHANGED <<registry, storage, access, download, pending, live, up>>

\* A check that refuses, or an I/O error, before the commit.
InstallFails(h) ==
    /\ op[h].pc \in {"observe", "move", "sync", "commit"}
    /\ op' = [op EXCEPT ![h] = NoOp]
    /\ UNCHANGED <<registry, storage, access, download, pending, live, up>>

\* One transaction verifies the Previous tree and swaps the two slots.
Rollback(h, p) ==
    /\ h \in up /\ access[h] # None /\ GateIsFree(h)
    /\ Installed(p) /\ registry[p].previous # NoSlot
    /\ Verified(registry[p].previous)
    /\ registry' = [registry EXCEPT ![p] =
                       [active |-> registry[p].previous, previous |-> registry[p].active]]
    /\ Mutated(h, registry[p].previous.art)
    /\ UNCHANGED <<storage, access, download, pending, live, up>>

Reconcile(h, p) ==
    /\ h \in up /\ access[h] # None /\ GateIsFree(h)
    /\ Installed(p)
    /\ Mutated(h, Active(p))
    /\ UNCHANGED <<registry, storage, access, download, pending, live, up>>

\* A load that fails keeps the last good catalog.
Refresh(h) ==
    /\ op[h].pc = "refresh"
    /\ live' = [live EXCEPT ![h] = IF Loadable THEN Catalog ELSE live[h]]
    /\ op' = [op EXCEPT ![h] =
                 [pc |-> IF Loadable THEN Visibility(op[h].art, Catalog) ELSE "pending",
                  art |-> op[h].art, base |-> None, approved |-> FALSE, dir |-> None]]
    /\ UNCHANGED <<registry, storage, access, download, pending, up>>

----------------------------------------------------------------------------
\* A Host that dies takes everything but the state home with it.
Dead(H) ==
    /\ up' = up \ H
    /\ access' = [h \in Hosts |-> IF h \in H THEN None ELSE access[h]]
    /\ download' = [h \in Hosts |-> IF h \in H THEN NoFetch ELSE download[h]]
    /\ pending' = [h \in Hosts |-> IF h \in H THEN [i \in Approvals |-> NoPending]
                                              ELSE pending[h]]
    /\ op' = [h \in Hosts |-> IF h \in H THEN NoOp ELSE op[h]]
    /\ live' = [h \in Hosts |-> IF h \in H THEN None ELSE live[h]]
    /\ UNCHANGED registry

Crash(h) == h \in up /\ Dead({h}) /\ UNCHANGED storage

\* What a power loss can make of a tree: an entry that was not synced may be gone, and
\* whatever else was not synced may be missing.
Survivals(tree) ==
    CASE tree.kept = "none"    -> {NoDir}
      [] tree.kept = "moved"   -> {NoDir} \cup {[tree EXCEPT !.kept = k] : k \in {"disk", "torn"}}
      [] tree.kept = "entered" -> {[tree EXCEPT !.kept = k] : k \in {"disk", "torn"}}
      [] OTHER                 -> {tree}

PowerLoss ==
    /\ up # {}
    /\ Dead(Hosts)
    /\ storage' \in [Dirs -> UNION {Survivals(storage[d]) : d \in Dirs}]
    /\ \A d \in Dirs : storage'[d] \in Survivals(storage[d])

Restart(h) ==
    /\ h \notin up
    /\ up' = up \cup {h}
    /\ live' = [live EXCEPT ![h] = IF Loadable THEN Catalog ELSE None]
    /\ UNCHANGED <<registry, storage, access, download, pending, op>>

\* The slots of the registry that are in use, as (Package, role) pairs.
Roles    == {"active", "previous"}
InUse    == {s \in Packages \X Roles : registry[s[1]][s[2]] # NoSlot}
At(s)    == registry[s[1]][s[2]]

\* The version storage behind a row is damaged from outside, or restored.  A tree no row
\* refers to is read by nobody: damage before its commit shows like damage after it.
StorageChanges(d) ==
    /\ storage[d] # NoDir /\ <<storage[d].art, storage[d].kept>> \in Damageable
    /\ \E s \in InUse : At(s).dir = d
    /\ storage' = [storage EXCEPT ![d] =
                      [art |-> storage[d].art, intact |-> ~storage[d].intact,
                       kept |-> storage[d].kept]]
    /\ UNCHANGED <<registry, access, download, pending, op, live, up>>

\* All but the start of a download, which the trust cache decides upon.
LocalNext ==
    \/ \E h \in Hosts :
          \/ \E account \in Accounts \cup {None} : AccessChanges(h, account)
          \/ DownloadFails(h)
          \/ \E i \in Approvals : ApprovalRequested(h, i) \/ Approve(h, i) \/ ApprovalExpires(h, i)
          \/ InstallStarts(h)
          \/ InstallObserves(h) \/ AlreadyInstalled(h)
          \/ InstallMoves(h) \/ InstallSyncs(h) \/ InstallCommits(h) \/ InstallFails(h)
          \/ \E p \in Packages : Rollback(h, p) \/ Reconcile(h, p)
          \/ Refresh(h)
          \/ Crash(h) \/ Restart(h)
    \/ PowerLoss
    \/ \E d \in Dirs : StorageChanges(d)

Next == LocalNext \/ \E h \in Hosts, a \in Artifacts : DownloadStarts(h, a)

Spec == Init /\ [][Next]_vars

----------------------------------------------------------------------------
Slot == [art : Artifacts, dir : Dirs] \cup {NoSlot}

\* Type invariant of the registry, the storage and the Hosts' memory.
TypeOK ==
    /\ registry \in [Packages -> [active : Slot, previous : Slot]]
    /\ storage \in [Dirs -> [art : Artifacts, intact : BOOLEAN, kept : Kept] \cup {NoDir}]
    /\ access \in [Hosts -> Accounts \cup {None}]
    /\ download \in [Hosts -> [owner : Accounts, art : Artifacts] \cup {NoFetch}]
    /\ pending \in [Hosts -> [Approvals ->
           [owner : Accounts, art : Artifacts, base : Artifacts \cup {None}] \cup {NoPending}]]
    /\ op \in [Hosts -> [pc : Busy \cup Receipts, art : Artifacts,
                         base : Artifacts \cup {None}, approved : BOOLEAN,
                         dir : Dirs \cup {None}] \cup {NoOp}]
    /\ live \in [Hosts -> (SUBSET Artifacts) \cup {None}]
    /\ up \in SUBSET Hosts

\* Whatever dies and whenever: every Active and Previous slot of the registry refers to a
\* directory of its own, the tree of its artifact was renamed to it, and its entry was synced
\* before the commit.  So an interrupted installation leaves an orphan and never a row
\* without a tree (AGENT_PACKAGE_MANIFEST_V1, section 8, 4 to 6), and a power loss takes from
\* behind a row only what no sync covers, which marks the tree as torn.
TreesBehindRows ==
    /\ \A s \in InUse : storage[At(s).dir].art = At(s).art /\ Synced(storage[At(s).dir])
    /\ \A s, t \in InUse : At(s).dir = At(t).dir => s = t

\* A power loss can tear the tree of an Active slot, because subdirectories and newly made
\* parents are not synced before the commit.  No Host then serves a catalog, the torn
\* Package's or any other, until an upgrade or a rollback has replaced the slot: every load,
\* rollback and repeated installation looks at the whole tree again.
TornNeverServed ==
    \A p \in Packages : Installed(p) /\ storage[registry[p].active.dir].kept = "torn" =>
        \A h \in Hosts : live[h] = None

\* An Agent belongs to one installed Package, and a Package keeps its Agent in both slots,
\* although two Hosts may install two Packages of one Agent at the same time and each check
\* the registry before either commits.
OneOwnerPerAgent ==
    \A s, t \in InUse : AgentIdOf[At(s).art] = AgentIdOf[At(t).art] <=> s[1] = t[1]

\* A receipt tells the truth about the catalog that this Host serves.  Visible: the version
\* it names is in it.  Superseded: another version is, which only another Host can have put
\* there, since the gate is held from the check of the plan to the end of the refresh
\* (AGENT_PACKAGE_MANIFEST_V1, sections 16 and 17).
ReceiptsTruthful ==
    \A h \in Hosts :
        LET served == {VersionOf[x] : x \in {y \in live[h] :
                                               PackageOf[y] = PackageOf[op[h].art]}}
        IN  /\ op[h].pc = "visible" => VersionOf[op[h].art] \in served
            /\ op[h].pc = "superseded" =>
                  Hosts # {h} /\ served # {} /\ VersionOf[op[h].art] \notin served

\* Whatever was installed, by whichever Host, and although an installation does not look at
\* the built-in Packages: a catalog that is served names an Agent once and a Package once.
CatalogsCoherent ==
    \A h \in Hosts : live[h] # None =>
        \A a, b \in live[h] : PackageOf[a] = PackageOf[b] \/ AgentIdOf[a] = AgentIdOf[b] => a = b

----------------------------------------------------------------------------
\* Every commit is an upgrade of the abstract registry and every rollback is one: the
\* version, the Agent and the consent are right at the moment of the commit, although all
\* but two of the checks were made on an earlier state.  The steps in between do not show.
Versions == INSTANCE PackageVersions WITH
    Clients <- Hosts,
    slots   <- [p \in Packages |-> [active   |-> registry[p].active.art,
                                    previous |-> registry[p].previous.art]],
    consent <- [h \in Hosts |-> IF op[h].approved
                                THEN [art |-> op[h].art, base |-> op[h].base]
                                ELSE None]

\* The registry behaves like PackageVersions.
ImplementsVersions == Versions!Spec
=============================================================================
