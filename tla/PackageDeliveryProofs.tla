----------------------- MODULE PackageDeliveryProofs -----------------------
(***************************************************************************)
(* Proofs about PackageDelivery, for any Hosts, Packages, artifacts and    *)
(* directories: type correctness, the tree behind every registry row, that *)
(* no Host serves a torn one, one owner per Agent, coherent catalogs,      *)
(* truthful receipts, and that the registry implements PackageVersions.    *)
(***************************************************************************)
EXTENDS PackageDelivery, TLAPS

Slots(p) == {registry[p].active, registry[p].previous} \ {NoSlot}

\* A row holds its own Package's artifacts, each in a directory of its own
\* whose entry was synced.
RowShape ==
    \A p \in Packages :
        /\ \A s \in Slots(p) :
              PackageOf[s.art] = p /\ storage[s.dir].art = s.art /\ Synced(storage[s.dir])
        /\ registry[p].previous # NoSlot =>
              /\ registry[p].active # NoSlot
              /\ registry[p].active.dir # registry[p].previous.dir
              /\ AgentIdOf[registry[p].active.art] = AgentIdOf[registry[p].previous.art]

DirsApart ==
    \A p, q \in Packages : p # q => \A s \in Slots(p), t \in Slots(q) : s.dir # t.dir

AgentsApart ==
    \A p, q \in Packages : p # q /\ Installed(p) /\ Installed(q) =>
        AgentIdOf[Active(p)] # AgentIdOf[Active(q)]

Planned == {"move", "sync", "commit"}
Moved   == {"sync", "commit"}

\* The entry of a tree was synced, and no power loss has come since.
Entered(tree) == tree.kept \in {"entered", "disk"}

\* What a mutation that passed its checks still knows: the plan is an upgrade of its base
\* with consent for what it adds, and the directory it moved into is its own.
OpShape ==
    \A h \in Hosts :
        /\ op[h].approved => op[h].pc \in Planned \cup {"observe"}
        /\ op[h].pc \in Planned =>
              /\ op[h].base # None => /\ AgentIdOf[op[h].art] = AgentIdOf[op[h].base]
                                      /\ Precedence[op[h].art] > Precedence[op[h].base]
              /\ op[h].approved \/ Added(op[h].art, op[h].base) = {}
        /\ op[h].pc \in Moved =>
              /\ op[h].dir \in Dirs
              /\ storage[op[h].dir].art = op[h].art
              /\ \A p \in Packages : \A s \in Slots(p) : s.dir # op[h].dir
              /\ \A k \in Hosts \ {h} : op[k].pc \in Moved => op[k].dir # op[h].dir
        /\ op[h].pc = "commit" => Entered(storage[op[h].dir])

Shape == RowShape /\ DirsApart /\ AgentsApart /\ OpShape

DeliveryInv == TypeOK /\ Shape

----------------------------------------------------------------------------
OpRecord == [pc : Busy \cup Receipts, art : Artifacts, base : Artifacts \cup {None},
             approved : BOOLEAN, dir : Dirs \cup {None}]

\* The three forms in which an action writes a mutation's record are well typed.
LEMMA EntersType ==
    ASSUME NEW h \in Hosts, op \in [Hosts -> OpRecord \cup {NoOp}], op[h] # NoOp,
           NEW pc \in Busy, Enters(h, pc)
    PROVE  op' \in [Hosts -> OpRecord \cup {NoOp}]
<1>1. op[h] \in OpRecord
  OBVIOUS
<1>2. [pc |-> pc, art |-> op[h].art, base |-> op[h].base,
       approved |-> op[h].approved, dir |-> op[h].dir] \in OpRecord
  BY <1>1 DEF OpRecord
<1> QED
  BY <1>2 DEF Enters

LEMMA MutatedType ==
    ASSUME NEW h \in Hosts, op \in [Hosts -> OpRecord \cup {NoOp}],
           NEW a \in Artifacts, Mutated(h, a)
    PROVE  op' \in [Hosts -> OpRecord \cup {NoOp}]
<1>1. [pc |-> "refresh", art |-> a, base |-> None, approved |-> FALSE, dir |-> None] \in OpRecord
  BY DEF OpRecord, Busy
<1> QED
  BY <1>1 DEF Mutated

\* A registry row's Active artifact, where there is one.
LEMMA ActiveType ==
    ASSUME TypeOK, NEW p \in Packages
    PROVE  /\ Active(p) \in Artifacts \cup {None}
           /\ Installed(p) => registry[p].active \in [art : Artifacts, dir : Dirs]
           /\ ~Installed(p) => registry[p].active = NoSlot
           /\ registry[p].previous # NoSlot => registry[p].previous.art \in Artifacts
<1>1. registry[p].active \in Slot /\ registry[p].previous \in Slot
  BY DEF TypeOK
<1> QED
  BY <1>1, DeliveryAssumption DEF Slot, NoSlot, Active, Installed

\* A mutation in progress works on an artifact.
LEMMA OpType ==
    ASSUME TypeOK, NEW h \in Hosts, op[h].pc # "idle"
    PROVE  op[h] # NoOp /\ op[h] \in OpRecord
<1>1. op[h] \in OpRecord \cup {NoOp}
  BY DEF TypeOK, OpRecord
<1>2. NoOp.pc = "idle"
  BY DEF NoOp
<1> QED
  BY <1>1, <1>2

LEMMA FetchType ==
    ASSUME TypeOK, NEW h \in Hosts, download[h] # NoFetch
    PROVE  download[h].art \in Artifacts /\ download[h].owner \in Accounts
BY DEF TypeOK

LEMMA PendingType ==
    ASSUME TypeOK, NEW h \in Hosts, NEW i \in Approvals, pending[h][i].owner # None
    PROVE  pending[h][i] \in [owner : Accounts, art : Artifacts, base : Artifacts \cup {None}]
<1>1. pending[h][i] \in [owner : Accounts, art : Artifacts, base : Artifacts \cup {None}] \cup {NoPending}
  BY DEF TypeOK
<1>2. NoPending.owner = None
  BY DEF NoPending
<1> QED
  BY <1>1, <1>2

\* A power loss leaves a directory as it was, empty, or with another account of what is on
\* disk; a tree whose entry was synced stays one, of the same artifact.
LEMMA SurvivalsType ==
    ASSUME NEW tree \in [art : Artifacts, intact : BOOLEAN, kept : Kept] \cup {NoDir},
           NEW left \in Survivals(tree)
    PROVE  /\ left \in [art : Artifacts, intact : BOOLEAN, kept : Kept] \cup {NoDir}
           /\ Synced(tree) => Synced(left) /\ left.art = tree.art
<1>1. CASE tree.kept \notin {"none", "moved", "entered"}
  BY <1>1 DEF Survivals
<1>2. CASE tree.kept = "none"
  BY <1>2 DEF Survivals, Synced
<1>3. CASE tree.kept \in {"moved", "entered"}
  <2>1. tree \in [art : Artifacts, intact : BOOLEAN, kept : Kept]
    BY <1>3 DEF NoDir
  <2>2. \/ left = NoDir /\ tree.kept = "moved"
        \/ \E k \in {"disk", "torn"} : left = [tree EXCEPT !.kept = k]
    BY <1>3 DEF Survivals
  <2> QED
    BY <1>3, <2>1, <2>2 DEF Kept, Synced
<1> QED
  BY <1>1, <1>2, <1>3

\* Every action keeps the types.
LEMMA TypeStep ==
    ASSUME DeliveryInv, [Next]_vars
    PROVE  TypeOK'
<1> USE DeliveryAssumption
<1>t. TypeOK /\ OpShape
  BY DEF DeliveryInv, Shape
<1> DEFINE Ops == [Hosts -> OpRecord \cup {NoOp}]
           Dir == [art : Artifacts, intact : BOOLEAN, kept : Kept] \cup {NoDir}
           Approval == [owner : Accounts, art : Artifacts, base : Artifacts \cup {None}] \cup {NoPending}
<1>0. /\ registry \in [Packages -> [active : Slot, previous : Slot]]
      /\ storage \in [Dirs -> Dir]
      /\ access \in [Hosts -> Accounts \cup {None}]
      /\ download \in [Hosts -> [owner : Accounts, art : Artifacts] \cup {NoFetch}]
      /\ pending \in [Hosts -> [Approvals -> Approval]]
      /\ op \in Ops
      /\ live \in [Hosts -> (SUBSET Artifacts) \cup {None}]
      /\ up \in SUBSET Hosts
  BY <1>t DEF TypeOK, OpRecord
<1>q. ASSUME /\ registry' \in [Packages -> [active : Slot, previous : Slot]]
             /\ storage' \in [Dirs -> Dir]
             /\ access' \in [Hosts -> Accounts \cup {None}]
             /\ download' \in [Hosts -> [owner : Accounts, art : Artifacts] \cup {NoFetch}]
             /\ pending' \in [Hosts -> [Approvals -> Approval]]
             /\ op' \in Ops
             /\ live' \in [Hosts -> (SUBSET Artifacts) \cup {None}]
             /\ up' \in SUBSET Hosts
      PROVE  TypeOK'
  BY <1>q DEF TypeOK, OpRecord
<1>nd. NoDir \in Dir /\ NoPending \in Approval
  OBVIOUS
<1>c. Catalog \in SUBSET Artifacts
  <2>1. \A p \in Packages : Installed(p) => Active(p) \in Artifacts
    BY <1>t, ActiveType DEF Installed
  <2> QED
    BY <2>1 DEF Catalog
<1> HIDE DEF Ops, Dir, Approval
<1>1. ASSUME NEW h \in Hosts, NEW account \in Accounts \cup {None}, AccessChanges(h, account)
      PROVE  TypeOK'
  BY <1>0, <1>1, <1>q DEF AccessChanges
<1>2. ASSUME NEW h \in Hosts, NEW a \in Artifacts, DownloadStarts(h, a)
      PROVE  TypeOK'
  <2>1. [owner |-> access[h], art |-> a] \in [owner : Accounts, art : Artifacts]
    BY <1>0, <1>2 DEF DownloadStarts
  <2> QED
    BY <1>0, <1>2, <2>1, <1>q DEF DownloadStarts
<1>3. ASSUME NEW h \in Hosts, DownloadFails(h)
      PROVE  TypeOK'
  BY <1>0, <1>3, <1>q DEF DownloadFails
<1>4. ASSUME NEW h \in Hosts, NEW i \in Approvals, ApprovalRequested(h, i)
      PROVE  TypeOK'
  <2>1. download[h] # NoFetch /\ access[h] = download[h].owner
    BY <1>4 DEF ApprovalRequested
  <2>2. download[h].art \in Artifacts /\ access[h] \in Accounts
    BY <2>1, <1>t, FetchType
  <2>3. Active(PackageOf[download[h].art]) \in Artifacts \cup {None}
    BY <2>2, <1>t, ActiveType
  <2> DEFINE new == [owner |-> access[h], art |-> download[h].art,
                     base |-> Active(PackageOf[download[h].art])]
  <2>4. new \in Approval
    BY <2>2, <2>3 DEF Approval
  <2>5. pending' = [pending EXCEPT ![h][i] = new]
    BY <1>4 DEF ApprovalRequested
  <2> HIDE DEF new
  <2>6. pending' \in [Hosts -> [Approvals -> Approval]]
    BY <1>0, <2>4, <2>5
  <2> QED
    BY <1>0, <1>4, <2>6, <1>q DEF ApprovalRequested
<1>5. ASSUME NEW h \in Hosts, InstallStarts(h)
      PROVE  TypeOK'
  <2>1. download[h].art \in Artifacts
    BY <1>5, <1>t, FetchType DEF InstallStarts
  <2>2. Active(PackageOf[download[h].art]) \in Artifacts \cup {None}
    BY <2>1, <1>t, ActiveType
  <2>3. [pc |-> "observe", art |-> download[h].art, base |-> Active(PackageOf[download[h].art]),
         approved |-> FALSE, dir |-> None] \in OpRecord
    BY <2>1, <2>2 DEF OpRecord, Busy
  <2>4. op' \in Ops
    BY <1>0, <1>5, <2>3 DEF InstallStarts, Ops
  <2> QED
    BY <1>0, <1>5, <2>4, <1>q DEF InstallStarts
<1>6. ASSUME NEW h \in Hosts, NEW i \in Approvals, Approve(h, i)
      PROVE  TypeOK'
  <2>1. pending[h][i] \in [owner : Accounts, art : Artifacts, base : Artifacts \cup {None}]
    BY <1>6, <1>t, PendingType DEF Approve
  <2>2. [pc |-> "observe", art |-> pending[h][i].art, base |-> pending[h][i].base,
         approved |-> TRUE, dir |-> None] \in OpRecord
    BY <2>1 DEF OpRecord, Busy
  <2>3. op' \in Ops
    BY <1>0, <1>6, <2>2 DEF Approve, Ops
  <2>4. pending' \in [Hosts -> [Approvals -> Approval]]
    BY <1>0, <1>6, <1>nd DEF Approve
  <2> QED
    BY <1>0, <1>6, <2>3, <2>4, <1>q DEF Approve
<1>7. ASSUME NEW h \in Hosts, NEW i \in Approvals, ApprovalExpires(h, i)
      PROVE  TypeOK'
  BY <1>0, <1>7, <1>nd, <1>q DEF ApprovalExpires
<1>8. ASSUME NEW h \in Hosts, InstallObserves(h)
      PROVE  TypeOK'
  <2>1. op[h] # NoOp /\ Enters(h, "move")
    BY <1>8, <1>t, OpType DEF InstallObserves
  <2>2. op' \in Ops
    BY <2>1, <1>0, EntersType DEF Busy, Ops
  <2> QED
    BY <1>0, <1>8, <2>2, <1>q DEF InstallObserves
<1>9. ASSUME NEW h \in Hosts, AlreadyInstalled(h)
      PROVE  TypeOK'
  <2>1. op[h].art \in Artifacts
    BY <1>9, <1>t, OpType DEF AlreadyInstalled, OpRecord
  <2>2. op' \in Ops
    BY <1>9, <2>1, <1>0, MutatedType DEF AlreadyInstalled, Ops
  <2> QED
    BY <1>0, <1>9, <2>2, <1>q DEF AlreadyInstalled
<1>10. ASSUME NEW h \in Hosts, InstallMoves(h)
       PROVE  TypeOK'
  <2>1. PICK d \in Dirs :
           /\ storage' = [storage EXCEPT ![d] = [art |-> op[h].art, intact |-> TRUE, kept |-> "moved"]]
           /\ op' = [op EXCEPT ![h] = [pc |-> "sync", art |-> op[h].art, base |-> op[h].base,
                                       approved |-> op[h].approved, dir |-> d]]
    BY <1>10 DEF InstallMoves
  <2>2. op[h] \in OpRecord
    BY <1>10, <1>t, OpType DEF InstallMoves
  <2>3. [pc |-> "sync", art |-> op[h].art, base |-> op[h].base,
         approved |-> op[h].approved, dir |-> d] \in OpRecord
    BY <2>2 DEF OpRecord, Busy
  <2>4. [art |-> op[h].art, intact |-> TRUE, kept |-> "moved"] \in Dir
    BY <2>2 DEF OpRecord, Dir, Kept
  <2>5. op' \in Ops
    BY <1>0, <2>1, <2>3 DEF Ops
  <2>6. storage' \in [Dirs -> Dir]
    BY <1>0, <2>1, <2>4
  <2> QED
    BY <1>0, <1>10, <2>5, <2>6, <1>q DEF InstallMoves
<1>11. ASSUME NEW h \in Hosts, InstallSyncs(h)
       PROVE  TypeOK'
  <2>1. op[h] # NoOp /\ op[h] \in OpRecord /\ Enters(h, "commit")
    BY <1>11, <1>t, OpType DEF InstallSyncs
  <2>2. op[h].dir \in Dirs /\ storage[op[h].dir].art \in Artifacts
    BY <1>11, <1>t, <2>1 DEF InstallSyncs, OpShape, Moved, OpRecord
  <2>3. storage[op[h].dir] \in [art : Artifacts, intact : BOOLEAN, kept : Kept]
    BY <1>0, <2>2 DEF Dir, NoDir
  <2>4. \A k \in {"entered", "disk"} :
           [art |-> storage[op[h].dir].art, intact |-> storage[op[h].dir].intact, kept |-> k] \in Dir
    BY <2>3 DEF Dir, Kept
  <2> DEFINE k == IF op[h].art \notin Nested /\ ShelfOnDisk(op[h].art) THEN "disk" ELSE "entered"
  <2>5. storage' \in [Dirs -> Dir]
    <3>1. storage' = [storage EXCEPT ![op[h].dir] =
             [art |-> storage[op[h].dir].art, intact |-> storage[op[h].dir].intact, kept |-> k]]
      BY <1>11 DEF InstallSyncs
    <3>2. k \in {"entered", "disk"}
      OBVIOUS
    <3> HIDE DEF k
    <3> QED
      BY <1>0, <2>4, <3>1, <3>2
  <2>6. op' \in Ops
    BY <2>1, <1>0, EntersType DEF Busy, Ops
  <2> QED
    BY <1>0, <1>11, <2>5, <2>6, <1>q DEF InstallSyncs
<1>12. ASSUME NEW h \in Hosts, InstallCommits(h)
       PROVE  TypeOK'
  <2>1. op[h] \in OpRecord
    BY <1>12, <1>t, OpType DEF InstallCommits
  <2>2. op[h].art \in Artifacts
    BY <2>1 DEF OpRecord
  <2>3. op[h].dir \in Dirs
    BY <1>12, <1>t DEF InstallCommits, OpShape, Moved
  <2>4. [active |-> [art |-> op[h].art, dir |-> op[h].dir],
         previous |-> registry[PackageOf[op[h].art]].active] \in [active : Slot, previous : Slot]
    BY <1>0, <2>2, <2>3 DEF Slot
  <2>5. registry' \in [Packages -> [active : Slot, previous : Slot]]
    BY <1>0, <1>12, <2>4 DEF InstallCommits
  <2>6. op' \in Ops
    BY <1>12, <2>2, <1>0, MutatedType DEF InstallCommits, Ops
  <2> QED
    BY <1>0, <1>12, <2>5, <2>6, <1>q DEF InstallCommits
<1>13. ASSUME NEW h \in Hosts, InstallFails(h)
       PROVE  TypeOK'
  <2>1. op' \in Ops
    BY <1>0, <1>13 DEF InstallFails, Ops
  <2> QED
    BY <1>0, <1>13, <2>1, <1>q DEF InstallFails
<1>14. ASSUME NEW h \in Hosts, NEW p \in Packages, Rollback(h, p)
       PROVE  TypeOK'
  <2>1. registry[p].previous.art \in Artifacts
    BY <1>14, <1>t, ActiveType DEF Rollback
  <2>2. [active |-> registry[p].previous, previous |-> registry[p].active]
           \in [active : Slot, previous : Slot]
    BY <1>0
  <2>3. registry' \in [Packages -> [active : Slot, previous : Slot]]
    BY <1>0, <1>14, <2>2 DEF Rollback
  <2>4. op' \in Ops
    BY <1>14, <2>1, <1>0, MutatedType DEF Rollback, Ops
  <2> QED
    BY <1>0, <1>14, <2>3, <2>4, <1>q DEF Rollback
<1>15. ASSUME NEW h \in Hosts, NEW p \in Packages, Reconcile(h, p)
       PROVE  TypeOK'
  <2>1. Active(p) \in Artifacts
    BY <1>15, <1>t, ActiveType DEF Reconcile, Installed
  <2>2. op' \in Ops
    BY <1>15, <2>1, <1>0, MutatedType DEF Reconcile, Ops
  <2> QED
    BY <1>0, <1>15, <2>2, <1>q DEF Reconcile
<1>16. ASSUME NEW h \in Hosts, Refresh(h)
       PROVE  TypeOK'
  <2>1. op[h].art \in Artifacts
    BY <1>16, <1>t, OpType DEF Refresh, OpRecord
  <2> DEFINE pc == IF Loadable THEN Visibility(op[h].art, Catalog) ELSE "pending"
  <2>2. pc \in Receipts
    BY DEF Visibility, Receipts
  <2>3. op' = [op EXCEPT ![h] = [pc |-> pc, art |-> op[h].art, base |-> None,
                                 approved |-> FALSE, dir |-> None]]
    BY <1>16 DEF Refresh
  <2> HIDE DEF pc
  <2>4. [pc |-> pc, art |-> op[h].art, base |-> None, approved |-> FALSE, dir |-> None] \in OpRecord
    BY <2>1, <2>2 DEF OpRecord
  <2>5. op' \in Ops
    BY <1>0, <2>3, <2>4 DEF Ops
  <2>6. live' \in [Hosts -> (SUBSET Artifacts) \cup {None}]
    BY <1>0, <1>16, <1>c DEF Refresh
  <2> QED
    BY <1>0, <1>16, <2>5, <2>6, <1>q DEF Refresh
<1>17. ASSUME NEW H \in SUBSET Hosts, Dead(H), storage' \in [Dirs -> Dir]
       PROVE  TypeOK'
  <2>1. op' \in Ops
    BY <1>0, <1>17 DEF Dead, Ops
  <2>2. pending' \in [Hosts -> [Approvals -> Approval]]
    BY <1>0, <1>17, <1>nd DEF Dead
  <2>3. access' \in [Hosts -> Accounts \cup {None}] /\ live' \in [Hosts -> (SUBSET Artifacts) \cup {None}]
    BY <1>0, <1>17 DEF Dead
  <2>4. download' \in [Hosts -> [owner : Accounts, art : Artifacts] \cup {NoFetch}]
    BY <1>0, <1>17 DEF Dead
  <2>5. registry' = registry /\ up' \in SUBSET Hosts
    BY <1>0, <1>17 DEF Dead
  <2> QED
    BY <1>0, <1>17, <2>1, <2>2, <2>3, <2>4, <2>5, <1>q
<1>18. ASSUME NEW h \in Hosts, Crash(h)
       PROVE  TypeOK'
  BY <1>0, <1>18, <1>17 DEF Crash
<1>19. ASSUME PowerLoss
       PROVE  TypeOK'
  <2>1. ASSUME NEW d \in Dirs PROVE Survivals(storage[d]) \subseteq Dir
    BY <1>0, SurvivalsType DEF Dir
  <2>2. storage' \in [Dirs -> UNION {Survivals(storage[d]) : d \in Dirs}]
    BY <1>19 DEF PowerLoss
  <2>3. storage' \in [Dirs -> Dir]
    BY <2>1, <2>2
  <2> QED
    BY <1>19, <2>3, <1>17 DEF PowerLoss
<1>20. ASSUME NEW h \in Hosts, Restart(h)
       PROVE  TypeOK'
  BY <1>0, <1>20, <1>c, <1>q DEF Restart
<1>21. ASSUME NEW d \in Dirs, StorageChanges(d)
       PROVE  TypeOK'
  <2>1. storage[d] \in [art : Artifacts, intact : BOOLEAN, kept : Kept]
    BY <1>0, <1>21 DEF StorageChanges, Dir
  <2>2. [art |-> storage[d].art, intact |-> ~storage[d].intact, kept |-> storage[d].kept] \in Dir
    BY <2>1 DEF Dir
  <2>3. storage' \in [Dirs -> Dir]
    BY <1>0, <1>21, <2>2 DEF StorageChanges
  <2> QED
    BY <1>0, <1>21, <2>3, <1>q DEF StorageChanges
<1>22. CASE UNCHANGED vars
  BY <1>0, <1>22, <1>q DEF vars
<1> QED
  BY <1>1, <1>2, <1>3, <1>4, <1>5, <1>6, <1>7, <1>8, <1>9, <1>10, <1>11, <1>12, <1>13, <1>14,
     <1>15, <1>16, <1>18, <1>19, <1>20, <1>21, <1>22 DEF Next, LocalNext

----------------------------------------------------------------------------
\* What an action does to the record of one mutation, and that others keep theirs.
LEMMA OpUpdate ==
    ASSUME TypeOK, NEW h \in Hosts, NEW r, op' = [op EXCEPT ![h] = r]
    PROVE  op'[h] = r /\ \A k \in Hosts \ {h} : op'[k] = op[k]
BY DEF TypeOK

\* Rows and directories are as before: the rows keep their shape.
LEMMA RowsKept ==
    ASSUME Shape, UNCHANGED registry,
           \A d \in Dirs : Synced(storage[d]) =>
               Synced(storage'[d]) /\ storage'[d].art = storage[d].art,
           TypeOK
    PROVE  (RowShape /\ DirsApart /\ AgentsApart)'
<1>1. \A p \in Packages : Slots(p)' = Slots(p) /\ Active(p)' = Active(p) /\ Installed(p)' = Installed(p)
  BY DEF Slots, Active, Installed
<1>2. \A p \in Packages : \A s \in Slots(p) : s.dir \in Dirs
  BY DEF Slots, TypeOK, Slot
<1>3. DirsApart' /\ AgentsApart'
  BY <1>1 DEF Shape, DirsApart, AgentsApart
<1>4. RowShape'
  BY <1>1, <1>2 DEF Shape, RowShape, Synced
<1> QED
  BY <1>3, <1>4

\* A mutation that is not past its checks claims nothing: writing its record keeps OpShape.
LEMMA OpsKept ==
    ASSUME TypeOK, Shape, UNCHANGED <<registry, storage>>, NEW h \in Hosts, NEW r,
           op' = [op EXCEPT ![h] = r], r.pc \notin Planned, r.approved => r.pc = "observe"
    PROVE  Shape'
<1>1. op'[h] = r /\ \A k \in Hosts \ {h} : op'[k] = op[k]
  BY OpUpdate
<1>2. \A p \in Packages : Slots(p)' = Slots(p)
  BY DEF Slots
<1>3. OpShape'
  <2> SUFFICES ASSUME NEW k \in Hosts PROVE
        /\ op[k]'.approved => op[k]'.pc \in Planned \cup {"observe"}
        /\ op[k]'.pc \in Planned =>
              /\ op[k]'.base # None => /\ AgentIdOf[op[k]'.art] = AgentIdOf[op[k]'.base]
                                      /\ Precedence[op[k]'.art] > Precedence[op[k]'.base]
              /\ op[k]'.approved \/ Added(op[k]'.art, op[k]'.base) = {}
        /\ op[k]'.pc \in Moved =>
              /\ op[k]'.dir \in Dirs
              /\ storage[op[k]'.dir].art = op[k]'.art
              /\ \A p \in Packages : \A s \in Slots(p) : s.dir # op[k]'.dir
              /\ \A j \in Hosts \ {k} : op[j]'.pc \in Moved => op[j]'.dir # op[k]'.dir
        /\ op[k]'.pc = "commit" => Entered(storage[op[k]'.dir])
    BY <1>2 DEF OpShape, Added
  <2>1. CASE k = h
    BY <1>1, <2>1 DEF Planned, Moved
  <2>2. CASE k # h
    BY <1>1, <2>2 DEF Shape, OpShape, Planned, Moved
  <2> QED
    BY <2>1, <2>2
<1>4. (RowShape /\ DirsApart /\ AgentsApart)'
  BY RowsKept
<1> QED
  BY <1>3, <1>4 DEF Shape

LEMMA NothingMoved ==
    ASSUME Shape, UNCHANGED <<registry, storage, op>>
    PROVE  Shape'
BY DEF Shape, RowShape, DirsApart, AgentsApart, OpShape, Slots, Active, Installed, Added, Synced

\* The shape of one mutation's record, in a state with these rows, directories and mutations.
OneOp(r, sto, Used, others) ==
    /\ r.approved => r.pc \in Planned \cup {"observe"}
    /\ r.pc \in Planned =>
          /\ r.base # None => /\ AgentIdOf[r.art] = AgentIdOf[r.base]
                              /\ Precedence[r.art] > Precedence[r.base]
          /\ r.approved \/ Added(r.art, r.base) = {}
    /\ r.pc \in Moved =>
          /\ r.dir \in Dirs
          /\ sto[r.dir].art = r.art
          /\ r.dir \notin Used
          /\ \A o \in others : o.pc \in Moved => o.dir # r.dir
    /\ r.pc = "commit" => Entered(sto[r.dir])

UsedDirs == {s.dir : s \in UNION {Slots(p) : p \in Packages}}

LEMMA OpShapeByOne ==
    OpShape <=> \A h \in Hosts : OneOp(op[h], storage, UsedDirs, {op[k] : k \in Hosts \ {h}})
<1>1. ASSUME NEW h \in Hosts
      PROVE  (\A p \in Packages : \A s \in Slots(p) : s.dir # op[h].dir) <=> op[h].dir \notin UsedDirs
  BY DEF UsedDirs
<1>2. ASSUME NEW h \in Hosts
      PROVE  (\A k \in Hosts \ {h} : op[k].pc \in Moved => op[k].dir # op[h].dir)
                <=> \A o \in {op[k] : k \in Hosts \ {h}} : o.pc \in Moved => o.dir # op[h].dir
  OBVIOUS
<1> QED
  BY <1>1, <1>2 DEF OpShape, OneOp

LEMMA OpShapeByOneNext ==
    OpShape' <=> \A h \in Hosts : OneOp(op'[h], storage', UsedDirs', {op'[k] : k \in Hosts \ {h}})
BY DEF OpShape, OneOp, UsedDirs, Added

LEMMA ObservesShape ==
    ASSUME TypeOK, Shape, NEW h \in Hosts, InstallObserves(h)
    PROVE  Shape'
<1> DEFINE r == [pc |-> "move", art |-> op[h].art, base |-> op[h].base,
                 approved |-> op[h].approved, dir |-> op[h].dir]
<1>1. op' = [op EXCEPT ![h] = r] /\ UNCHANGED <<registry, storage>>
  BY DEF InstallObserves, Enters
<1>2. op'[h] = r /\ \A k \in Hosts \ {h} : op'[k] = op[k]
  BY <1>1, OpUpdate
<1>3. /\ op[h].base # None => /\ AgentIdOf[op[h].art] = AgentIdOf[op[h].base]
                              /\ Precedence[op[h].art] > Precedence[op[h].base]
      /\ op[h].approved \/ Added(op[h].art, op[h].base) = {}
  BY DEF InstallObserves, Plannable, Upgrades
<1>4. UsedDirs' = UsedDirs
  BY <1>1 DEF UsedDirs, Slots
<1>5. OneOp(op'[h], storage', UsedDirs', {op'[k] : k \in Hosts \ {h}})
  BY <1>2, <1>3 DEF OneOp, Planned, Moved
<1>6. ASSUME NEW k \in Hosts \ {h}
      PROVE  OneOp(op'[k], storage', UsedDirs', {op'[j] : j \in Hosts \ {k}})
  <2>1. OneOp(op[k], storage, UsedDirs, {op[j] : j \in Hosts \ {k}})
    BY OpShapeByOne DEF Shape
  <2>2. op'[k] = op[k] /\ storage' = storage
    BY <1>1, <1>2
  <2>3. \A o \in {op'[j] : j \in Hosts \ {k}} :
           o.pc \in Moved => o \in {op[j] : j \in Hosts \ {k}}
    BY <1>2 DEF Moved
  <2> QED
    BY <1>4, <2>1, <2>2, <2>3 DEF OneOp
<1>7. OpShape'
  BY <1>5, <1>6, OpShapeByOneNext
<1> QED
  BY <1>1, <1>7, RowsKept DEF Shape

\* A directory in use holds an artifact: a fresh one is in nobody's hands.
LEMMA FreshDir ==
    ASSUME TypeOK, Shape, NEW d \in Dirs, storage[d] = NoDir
    PROVE  d \notin UsedDirs /\ \A k \in Hosts : op[k].pc \in Moved => op[k].dir # d
<1>1. storage[d].art = None
  BY DEF NoDir
<1>2. \A p \in Packages : \A s \in Slots(p) : s.art \in Artifacts /\ storage[s.dir].art = s.art
  BY DEF TypeOK, Slot, Slots, Shape, RowShape
<1>3. \A k \in Hosts : op[k].pc \in Moved => op[k].art \in Artifacts /\ storage[op[k].dir].art = op[k].art
  BY OpType DEF Shape, OpShape, Moved, OpRecord
<1> QED
  BY <1>1, <1>2, <1>3, DeliveryAssumption DEF UsedDirs

LEMMA MovesShape ==
    ASSUME TypeOK, Shape, NEW h \in Hosts, InstallMoves(h)
    PROVE  Shape'
<1>1. PICK d \in Dirs :
         /\ op[h].pc = "move" /\ storage[d] = NoDir
         /\ storage' = [storage EXCEPT ![d] = [art |-> op[h].art, intact |-> TRUE, kept |-> "moved"]]
         /\ op' = [op EXCEPT ![h] = [pc |-> "sync", art |-> op[h].art, base |-> op[h].base,
                                     approved |-> op[h].approved, dir |-> d]]
         /\ UNCHANGED registry
  BY DEF InstallMoves
<1> DEFINE r == [pc |-> "sync", art |-> op[h].art, base |-> op[h].base,
                 approved |-> op[h].approved, dir |-> d]
<1>2. op'[h] = r /\ \A k \in Hosts \ {h} : op'[k] = op[k]
  BY <1>1, OpUpdate
<1>3. storage'[d].art = op[h].art /\ \A e \in Dirs \ {d} : storage'[e] = storage[e]
  BY <1>1 DEF TypeOK
<1>4. UsedDirs' = UsedDirs
  BY <1>1 DEF UsedDirs, Slots
<1>5. d \notin UsedDirs /\ \A k \in Hosts : op[k].pc \in Moved => op[k].dir # d
  BY <1>1, FreshDir
<1>6. \A k \in Hosts : OneOp(op[k], storage, UsedDirs, {op[j] : j \in Hosts \ {k}})
  BY OpShapeByOne DEF Shape
<1>7. OneOp(op'[h], storage', UsedDirs', {op'[k] : k \in Hosts \ {h}})
  <2>1. OneOp(op[h], storage, UsedDirs, {op[j] : j \in Hosts \ {h}}) /\ op[h].pc = "move"
    BY <1>1, <1>6
  <2>2. \A o \in {op'[k] : k \in Hosts \ {h}} : o.pc \in Moved => o.dir # d
    BY <1>2, <1>5
  <2> QED
    BY <1>2, <1>3, <1>4, <1>5, <2>1, <2>2 DEF OneOp, Planned, Moved
<1>8. ASSUME NEW k \in Hosts \ {h}
      PROVE  OneOp(op'[k], storage', UsedDirs', {op'[j] : j \in Hosts \ {k}})
  <2>1. OneOp(op[k], storage, UsedDirs, {op[j] : j \in Hosts \ {k}}) /\ op'[k] = op[k]
    BY <1>2, <1>6
  <2>2. op[k].pc \in Moved => op[k].dir \in Dirs \ {d}
    BY <1>5, <2>1 DEF OneOp
  <2>3. \A o \in {op'[j] : j \in Hosts \ {k}} : o = r \/ o \in {op[j] : j \in Hosts \ {k}}
    BY <1>2
  <2>4. op[k].pc \in Moved => \A o \in {op'[j] : j \in Hosts \ {k}} : o.pc \in Moved => o.dir # op[k].dir
    BY <2>1, <2>2, <2>3 DEF OneOp
  <2>5. op[k].pc \in Moved => storage'[op[k].dir] = storage[op[k].dir]
    BY <1>3, <2>2
  <2> QED
    BY <1>4, <2>1, <2>4, <2>5 DEF OneOp, Moved
<1>9. OpShape'
  BY <1>7, <1>8, OpShapeByOneNext
<1>10. \A e \in Dirs : Synced(storage[e]) => Synced(storage'[e]) /\ storage'[e].art = storage[e].art
  BY <1>1, <1>3 DEF NoDir, Synced
<1> QED
  BY <1>1, <1>9, <1>10, RowsKept DEF Shape

LEMMA SyncsShape ==
    ASSUME TypeOK, Shape, NEW h \in Hosts, InstallSyncs(h)
    PROVE  Shape'
<1> DEFINE d == op[h].dir
           k0 == IF op[h].art \notin Nested /\ ShelfOnDisk(op[h].art) THEN "disk" ELSE "entered"
           r == [pc |-> "commit", art |-> op[h].art, base |-> op[h].base,
                 approved |-> op[h].approved, dir |-> d]
<1>1. /\ op[h].pc = "sync"
      /\ op' = [op EXCEPT ![h] = r]
      /\ storage' = [storage EXCEPT ![d] = [art |-> storage[d].art, intact |-> storage[d].intact,
                                            kept |-> k0]]
      /\ UNCHANGED registry
  BY DEF InstallSyncs, Enters
<1>2. op'[h] = r /\ \A k \in Hosts \ {h} : op'[k] = op[k]
  BY <1>1, OpUpdate
<1>3. \A k \in Hosts : OneOp(op[k], storage, UsedDirs, {op[j] : j \in Hosts \ {k}})
  BY OpShapeByOne DEF Shape
<1>4. d \in Dirs
  BY <1>1, <1>3 DEF OneOp, Moved
<1>k. k0 \in {"entered", "disk"}
  OBVIOUS
<1> HIDE DEF k0
<1>5. /\ storage'[d].art = storage[d].art /\ storage'[d].kept \in {"entered", "disk"}
      /\ \A e \in Dirs \ {d} : storage'[e] = storage[e]
  BY <1>1, <1>4, <1>k DEF TypeOK
<1>6. UsedDirs' = UsedDirs
  BY <1>1 DEF UsedDirs, Slots
<1> HIDE DEF d
<1>7. OneOp(op'[h], storage', UsedDirs', {op'[k] : k \in Hosts \ {h}})
  <2>1. OneOp(op[h], storage, UsedDirs, {op[j] : j \in Hosts \ {h}}) /\ op[h].pc = "sync"
    BY <1>1, <1>3
  <2>2. {op'[k] : k \in Hosts \ {h}} = {op[k] : k \in Hosts \ {h}}
    BY <1>2
  <2>3. r.pc = "commit" /\ r.art = op[h].art /\ r.base = op[h].base /\ r.approved = op[h].approved
        /\ r.dir = op[h].dir
    BY DEF d
  <2> QED
    BY <1>2, <1>5, <1>6, <2>1, <2>2, <2>3 DEF OneOp, Planned, Moved, Entered, d
<1>8. ASSUME NEW k \in Hosts \ {h}
      PROVE  OneOp(op'[k], storage', UsedDirs', {op'[j] : j \in Hosts \ {k}})
  <2>1. OneOp(op[k], storage, UsedDirs, {op[j] : j \in Hosts \ {k}}) /\ op'[k] = op[k]
    BY <1>2, <1>3
  <2>2. op[k].pc \in Moved => op[k].dir # d
    BY <1>1, <2>1 DEF OneOp, Moved, d
  <2>3. \A o \in {op'[j] : j \in Hosts \ {k}} : o = r \/ o \in {op[j] : j \in Hosts \ {k}}
    BY <1>2
  <2>4. op[k].pc \in Moved => \A o \in {op'[j] : j \in Hosts \ {k}} : o.pc \in Moved => o.dir # op[k].dir
    BY <2>1, <2>2, <2>3 DEF OneOp
  <2>5. op[k].pc \in Moved => storage'[op[k].dir] = storage[op[k].dir]
    BY <1>5, <2>1, <2>2 DEF OneOp
  <2> QED
    BY <1>6, <2>1, <2>4, <2>5 DEF OneOp, Moved
<1>9. OpShape'
  BY <1>7, <1>8, OpShapeByOneNext
<1>10. \A e \in Dirs : Synced(storage[e]) => Synced(storage'[e]) /\ storage'[e].art = storage[e].art
  BY <1>5 DEF Synced
<1> QED
  BY <1>1, <1>9, <1>10, RowsKept DEF Shape

LEMMA CommitsShape ==
    ASSUME TypeOK, Shape, NEW h \in Hosts, InstallCommits(h)
    PROVE  Shape'
<1>a. op[h].art \in Artifacts /\ PackageOf[op[h].art] \in Packages
  BY OpType, DeliveryAssumption DEF OpRecord, InstallCommits
<1>b. PICK a \in Artifacts, p \in Packages : a = op[h].art /\ p = PackageOf[a]
  BY <1>a
<1>d. PICK d : d = op[h].dir
  OBVIOUS
<1> DEFINE new == [art |-> a, dir |-> d]
           r == [pc |-> "refresh", art |-> a, base |-> None, approved |-> FALSE, dir |-> None]
<1>1. /\ op[h].pc = "commit" /\ CommitAllowed(h)
      /\ registry' = [registry EXCEPT ![p] = [active |-> new, previous |-> registry[p].active]]
      /\ op' = [op EXCEPT ![h] = r]
      /\ UNCHANGED storage
  BY <1>b, <1>d DEF InstallCommits, Mutated
<1>2. op'[h] = r /\ \A k \in Hosts \ {h} : op'[k] = op[k]
  BY <1>1, OpUpdate
<1>3. \A k \in Hosts : OneOp(op[k], storage, UsedDirs, {op[j] : j \in Hosts \ {k}})
  BY OpShapeByOne DEF Shape
<1>4. a \in Artifacts /\ p \in Packages
  OBVIOUS
<1>5. /\ d \in Dirs /\ d \notin UsedDirs
      /\ storage[d].art = a /\ storage[d].kept \in {"entered", "disk"}
      /\ \A k \in Hosts \ {h} : op[k].pc \in Moved => op[k].dir # d
  BY <1>1, <1>3, <1>b, <1>d DEF OneOp, Moved, Entered
<1>6. /\ registry'[p] = [active |-> new, previous |-> registry[p].active]
      /\ \A q \in Packages \ {p} : registry'[q] = registry[q]
  BY <1>1, <1>4 DEF TypeOK
<1>7. new # NoSlot /\ new.art = a /\ new.dir = d
  BY <1>4, DeliveryAssumption DEF NoSlot
<1>8. /\ \A q \in Packages \ {p} : Slots(q)' = Slots(q) /\ Active(q)' = Active(q)
      /\ \A s \in Slots(p)' : s = new \/ s \in Slots(p)
  BY <1>6 DEF Slots, Active
<1>9. \A q \in Packages : \A s \in Slots(q) : s.dir \in UsedDirs
  BY DEF UsedDirs
<1>10. /\ Active(p)' = a
       /\ registry'[p].previous = registry[p].active
       /\ registry'[p].active = new
  BY <1>6, <1>7 DEF Active
<1>11. AgentIsFree(a) /\ (Installed(p) => AgentIdOf[Active(p)] = AgentIdOf[a])
  BY <1>1, <1>b DEF CommitAllowed, Installed
<1>12. \A q \in Packages : /\ registry[q].active # NoSlot => registry[q].active \in Slots(q)
                           /\ ~Installed(q) => registry[q].active = NoSlot
                           /\ Installed(q) => registry[q].active # NoSlot
  BY ActiveType, DeliveryAssumption DEF Slots, NoSlot
<1> HIDE DEF new, r
<1>13. RowShape'
  <2>1. \A q \in Packages : \A s \in Slots(q)' :
           PackageOf[s.art] = q /\ storage'[s.dir].art = s.art /\ Synced(storage'[s.dir])
    <3> SUFFICES ASSUME NEW q \in Packages, NEW s \in Slots(q)'
                 PROVE  PackageOf[s.art] = q /\ storage[s.dir].art = s.art /\ Synced(storage[s.dir])
      BY <1>1
    <3>1. CASE s \in Slots(q)
      BY <3>1 DEF Shape, RowShape
    <3>2. CASE s \notin Slots(q)
      <4>1. q = p /\ s = new
        BY <3>2, <1>8
      <4> QED
        BY <4>1, <1>b, <1>5, <1>7 DEF Synced
    <3> QED
      BY <3>1, <3>2
  <2>2. registry'[p].previous # NoSlot =>
           /\ registry'[p].active # NoSlot
           /\ registry'[p].active.dir # registry'[p].previous.dir
           /\ AgentIdOf[registry'[p].active.art] = AgentIdOf[registry'[p].previous.art]
    BY <1>4, <1>5, <1>7, <1>9, <1>10, <1>11, <1>12 DEF Active
  <2>3. \A q \in Packages \ {p} : registry'[q].previous # NoSlot =>
           /\ registry'[q].active # NoSlot
           /\ registry'[q].active.dir # registry'[q].previous.dir
           /\ AgentIdOf[registry'[q].active.art] = AgentIdOf[registry'[q].previous.art]
    BY <1>6 DEF Shape, RowShape
  <2> QED
    BY <2>1, <2>2, <2>3 DEF RowShape, Synced
<1>14. DirsApart'
  <2>1. \A q \in Packages : \A s \in Slots(q) : s.dir # new.dir
    BY <1>5, <1>7, <1>9
  <2>2. \A q \in Packages : \A s \in Slots(q)' : s \in Slots(q) \/ (q = p /\ s = new)
    BY <1>8
  <2> QED
    BY <2>1, <2>2 DEF Shape, DirsApart
<1>15. AgentsApart'
  <2>1. \A q \in Packages \ {p} : Installed(q)' => Installed(q) /\ AgentIdOf[Active(q)'] # AgentIdOf[a]
    BY <1>8, <1>11, <1>b DEF AgentIsFree, Installed
  <2> QED
    <3> SUFFICES ASSUME NEW q1 \in Packages, NEW q2 \in Packages, q1 # q2,
                        Installed(q1)', Installed(q2)'
                 PROVE  AgentIdOf[Active(q1)'] # AgentIdOf[Active(q2)']
      BY DEF AgentsApart
    <3>1. CASE q1 = p
      BY <2>1, <3>1, <1>8, <1>10
    <3>2. CASE q2 = p
      BY <2>1, <3>2, <1>8, <1>10
    <3>3. CASE q1 # p /\ q2 # p
      BY <2>1, <3>3, <1>8 DEF Shape, AgentsApart
    <3> QED
      BY <3>1, <3>2, <3>3
<1>16. OpShape'
  <2>1. OneOp(op'[h], storage', UsedDirs', {op'[k] : k \in Hosts \ {h}})
    BY <1>2 DEF OneOp, Planned, Moved, r
  <2>2. ASSUME NEW k \in Hosts \ {h}
        PROVE  OneOp(op'[k], storage', UsedDirs', {op'[j] : j \in Hosts \ {k}})
    <3>1. OneOp(op[k], storage, UsedDirs, {op[j] : j \in Hosts \ {k}}) /\ op'[k] = op[k]
      BY <1>2, <1>3
    <3>2. \A o \in {op'[j] : j \in Hosts \ {k}} :
             o.pc \in Moved => o \in {op[j] : j \in Hosts \ {k}}
      BY <1>2 DEF Moved, r
    <3>3. \A e \in UsedDirs' : e \in UsedDirs \/ e = d
      BY <1>7, <1>8 DEF UsedDirs
    <3>4. op[k].pc \in Moved => op[k].dir \notin UsedDirs'
      BY <1>5, <3>1, <3>3 DEF OneOp
    <3> QED
      BY <1>1, <3>1, <3>2, <3>4 DEF OneOp
  <2> QED
    BY <2>1, <2>2, OpShapeByOneNext
<1> QED
  BY <1>13, <1>14, <1>15, <1>16 DEF Shape

LEMMA RollbackShape ==
    ASSUME TypeOK, Shape, NEW h \in Hosts, NEW p \in Packages, Rollback(h, p)
    PROVE  Shape'
<1> DEFINE r == [pc |-> "refresh", art |-> registry[p].previous.art, base |-> None,
                 approved |-> FALSE, dir |-> None]
<1>1. /\ Installed(p) /\ registry[p].previous # NoSlot
      /\ registry' = [registry EXCEPT ![p] =
                         [active |-> registry[p].previous, previous |-> registry[p].active]]
      /\ op' = [op EXCEPT ![h] = r]
      /\ UNCHANGED storage
  BY DEF Rollback, Mutated
<1>2. op'[h] = r /\ \A k \in Hosts \ {h} : op'[k] = op[k]
  BY <1>1, OpUpdate
<1>3. /\ registry'[p].active = registry[p].previous
      /\ registry'[p].previous = registry[p].active
      /\ \A q \in Packages \ {p} : registry'[q] = registry[q]
  BY <1>1 DEF TypeOK
<1>4. \A q \in Packages : Slots(q)' = Slots(q)
  BY <1>3 DEF Slots
<1>5. UsedDirs' = UsedDirs
  BY <1>4 DEF UsedDirs
<1>6. RowShape'
  BY <1>1, <1>3, <1>4 DEF Shape, RowShape, Synced
<1>7. DirsApart'
  BY <1>4 DEF Shape, DirsApart
<1>8. AgentsApart'
  <2>1. AgentIdOf[Active(p)'] = AgentIdOf[Active(p)]
    BY <1>1, <1>3 DEF Active, Shape, RowShape
  <2>2. \A q \in Packages \ {p} : Active(q)' = Active(q)
    BY <1>3 DEF Active
  <2> QED
    BY <1>1, <2>1, <2>2 DEF Shape, AgentsApart, Installed
<1>9. OpShape'
  <2>1. OneOp(op'[h], storage', UsedDirs', {op'[k] : k \in Hosts \ {h}})
    BY <1>2 DEF OneOp, Planned, Moved
  <2>2. ASSUME NEW k \in Hosts \ {h}
        PROVE  OneOp(op'[k], storage', UsedDirs', {op'[j] : j \in Hosts \ {k}})
    <3>1. OneOp(op[k], storage, UsedDirs, {op[j] : j \in Hosts \ {k}}) /\ op'[k] = op[k]
      BY <1>2, OpShapeByOne DEF Shape
    <3>2. \A o \in {op'[j] : j \in Hosts \ {k}} :
             o.pc \in Moved => o \in {op[j] : j \in Hosts \ {k}}
      BY <1>2 DEF Moved
    <3> QED
      BY <1>1, <1>5, <3>1, <3>2 DEF OneOp
  <2> QED
    BY <2>1, <2>2, OpShapeByOneNext
<1> QED
  BY <1>6, <1>7, <1>8, <1>9 DEF Shape

\* Some Hosts die; trees whose entry was synced stay, and so do all when no power is lost.
LEMMA DeadShape ==
    ASSUME TypeOK, Shape, NEW H \in SUBSET Hosts, Dead(H),
           H # Hosts => UNCHANGED storage,
           \A d \in Dirs : Synced(storage[d]) =>
               Synced(storage'[d]) /\ storage'[d].art = storage[d].art
    PROVE  Shape'
<1>1. UNCHANGED registry /\ \A k \in Hosts : op'[k] = IF k \in H THEN NoOp ELSE op[k]
  BY DEF Dead
<1>2. UsedDirs' = UsedDirs
  BY <1>1 DEF UsedDirs, Slots
<1>3. ASSUME NEW k \in Hosts
      PROVE  OneOp(op'[k], storage', UsedDirs', {op'[j] : j \in Hosts \ {k}})
  <2>1. CASE k \in H
    BY <1>1, <2>1 DEF OneOp, NoOp, Planned, Moved
  <2>2. CASE k \notin H
    <3>1. OneOp(op[k], storage, UsedDirs, {op[j] : j \in Hosts \ {k}}) /\ op'[k] = op[k]
      BY <1>1, <2>2, OpShapeByOne DEF Shape
    <3>2. \A o \in {op'[j] : j \in Hosts \ {k}} :
             o.pc \in Moved => o \in {op[j] : j \in Hosts \ {k}}
      BY <1>1 DEF Moved, NoOp
    <3>3. op[k].pc \in Moved => storage'[op[k].dir] = storage[op[k].dir]
      BY <2>2, <3>1 DEF OneOp
    <3> QED
      BY <1>2, <3>1, <3>2, <3>3 DEF OneOp, Moved
  <2> QED
    BY <2>1, <2>2
<1>4. OpShape'
  BY <1>3, OpShapeByOneNext
<1> QED
  BY <1>1, <1>4, RowsKept DEF Shape

LEMMA StorageShape ==
    ASSUME TypeOK, Shape, NEW d \in Dirs, StorageChanges(d)
    PROVE  Shape'
<1>1. /\ UNCHANGED <<registry, op>>
      /\ \A e \in Dirs : storage'[e].art = storage[e].art /\ storage'[e].kept = storage[e].kept
  BY DEF StorageChanges, TypeOK
<1>2. UsedDirs' = UsedDirs
  BY <1>1 DEF UsedDirs, Slots
<1>3. \A k \in Hosts : OneOp(op[k], storage, UsedDirs, {op[j] : j \in Hosts \ {k}})
  BY OpShapeByOne DEF Shape
<1>4. ASSUME NEW k \in Hosts
      PROVE  OneOp(op'[k], storage', UsedDirs', {op'[j] : j \in Hosts \ {k}})
  BY <1>1, <1>2, <1>3 DEF OneOp, Moved, Entered
<1>5. OpShape'
  BY <1>4, OpShapeByOneNext
<1> QED
  BY <1>1, <1>5, RowsKept DEF Shape, Synced

LEMMA ShapeStep ==
    ASSUME TypeOK, Shape, [Next]_vars
    PROVE  Shape'
<1> USE TypeOK, Shape
<1>1. CASE UNCHANGED vars
  BY <1>1, NothingMoved DEF vars
<1>2. ASSUME NEW h \in Hosts, NEW account, AccessChanges(h, account)
      PROVE  Shape'
  BY <1>2, NothingMoved DEF AccessChanges
<1>3. ASSUME NEW h \in Hosts, DownloadFails(h)
      PROVE  Shape'
  BY <1>3, NothingMoved DEF DownloadFails
<1>4. ASSUME NEW h \in Hosts, NEW a, DownloadStarts(h, a)
      PROVE  Shape'
  BY <1>4, NothingMoved DEF DownloadStarts
<1>5. ASSUME NEW h \in Hosts, NEW i, ApprovalRequested(h, i)
      PROVE  Shape'
  BY <1>5, NothingMoved DEF ApprovalRequested
<1>6. ASSUME NEW h \in Hosts, NEW i, ApprovalExpires(h, i)
      PROVE  Shape'
  BY <1>6, NothingMoved DEF ApprovalExpires
<1>7. ASSUME NEW h \in Hosts, Restart(h)
      PROVE  Shape'
  BY <1>7, NothingMoved DEF Restart
<1>8. ASSUME NEW h \in Hosts, InstallStarts(h)
      PROVE  Shape'
  BY <1>8, OpsKept DEF InstallStarts, Planned
<1>9. ASSUME NEW h \in Hosts, NEW i, Approve(h, i)
      PROVE  Shape'
  BY <1>9, OpsKept DEF Approve, Planned
<1>10. ASSUME NEW h \in Hosts, AlreadyInstalled(h)
       PROVE  Shape'
  BY <1>10, OpsKept DEF AlreadyInstalled, Mutated, Planned
<1>11. ASSUME NEW h \in Hosts, InstallFails(h)
       PROVE  Shape'
  BY <1>11, OpsKept DEF InstallFails, NoOp, Planned
<1>12. ASSUME NEW h \in Hosts, NEW p \in Packages, Reconcile(h, p)
       PROVE  Shape'
  BY <1>12, OpsKept DEF Reconcile, Mutated, Planned
<1>13. ASSUME NEW h \in Hosts, Refresh(h)
       PROVE  Shape'
  <2> DEFINE pc == IF Loadable THEN Visibility(op[h].art, Catalog) ELSE "pending"
  <2>1. pc \in Receipts
    BY DEF Visibility, Receipts
  <2>2. /\ op' = [op EXCEPT ![h] = [pc |-> pc, art |-> op[h].art, base |-> None,
                                    approved |-> FALSE, dir |-> None]]
        /\ UNCHANGED <<registry, storage>>
    BY <1>13 DEF Refresh
  <2> HIDE DEF pc
  <2> QED
    BY <2>1, <2>2, OpsKept DEF Planned, Receipts
<1>14. ASSUME NEW h \in Hosts, Crash(h)
       PROVE  Shape'
  <2>1. Dead({h}) /\ UNCHANGED storage
    BY <1>14 DEF Crash
  <2>2. \A d \in Dirs : Synced(storage[d]) =>
           Synced(storage'[d]) /\ storage'[d].art = storage[d].art
    BY <2>1
  <2>3. {h} \in SUBSET Hosts
    OBVIOUS
  <2> QED
    BY <2>1, <2>2, <2>3, DeadShape
<1>15. CASE PowerLoss
  <2>1. ASSUME NEW d \in Dirs
        PROVE  Synced(storage[d]) => Synced(storage'[d]) /\ storage'[d].art = storage[d].art
    <3>1. storage'[d] \in Survivals(storage[d])
      BY <1>15 DEF PowerLoss
    <3>2. storage[d] \in [art : Artifacts, intact : BOOLEAN, kept : Kept] \cup {NoDir}
      BY DEF TypeOK
    <3> QED
      BY <3>1, <3>2, SurvivalsType
  <2> QED
    BY <1>15, <2>1, DeadShape DEF PowerLoss
<1>16. ASSUME NEW d \in Dirs, StorageChanges(d)
       PROVE  Shape'
  BY <1>16, StorageShape, DeliveryAssumption
<1> QED
  BY <1>1, <1>2, <1>3, <1>4, <1>5, <1>6, <1>7, <1>8, <1>9, <1>10, <1>11, <1>12, <1>13, <1>14,
     <1>15, <1>16, ObservesShape, MovesShape, SyncsShape, CommitsShape, RollbackShape
  DEF Next, LocalNext

LEMMA InitInv == Init => DeliveryInv
<1> SUFFICES ASSUME Init PROVE DeliveryInv
  OBVIOUS
<1>1. TypeOK
  BY DeliveryAssumption
  DEF Init, TypeOK, Slot, NoRow, NoDir, NoFetch, NoPending, NoOp
<1>2. \A p \in Packages : Slots(p) = {}
  BY DEF Init, Slots, NoRow
<1>3. RowShape /\ DirsApart /\ AgentsApart
  BY <1>2 DEF RowShape, DirsApart, AgentsApart, Init, NoRow, NoSlot, Installed, Active
<1>4. OpShape
  BY DEF OpShape, Init, NoOp, Planned, Moved
<1> QED
  BY <1>1, <1>3, <1>4 DEF DeliveryInv, Shape

\* Every reachable state has the shape that the four theorems below need: the rows, the
\* directories and the mutations in progress agree, whatever dies in between.
THEOREM DeliveryInvariant == Spec => []DeliveryInv
<1>1. DeliveryInv /\ [Next]_vars => DeliveryInv'
  BY TypeStep, ShapeStep DEF DeliveryInv
<1> QED
  BY InitInv, <1>1, PTL DEF Spec

\* The variables of PackageDelivery keep their types.
THEOREM DeliveryTypeCorrect == Spec => []TypeOK
BY DeliveryInvariant, PTL DEF DeliveryInv

\* Every Active and Previous slot of the registry refers to a directory of its own, to which
\* the tree of its artifact was renamed and whose entry was synced before the row was
\* committed (package_installer.rs: the rename and sync_directory before commit_registry).
THEOREM RowsHaveTrees == Spec => []TreesBehindRows
<1>1. ASSUME DeliveryInv PROVE TreesBehindRows
  <2>1. \A s \in InUse : s[1] \in Packages /\ At(s) \in Slots(s[1])
    BY DEF InUse, At, Slots, Roles
  <2>2. \A s \in InUse : storage[At(s).dir].art = At(s).art /\ Synced(storage[At(s).dir])
    BY <1>1, <2>1 DEF DeliveryInv, Shape, RowShape
  <2>3. ASSUME NEW s \in InUse, NEW t \in InUse, At(s).dir = At(t).dir PROVE s = t
    <3>1. s[1] = t[1]
      BY <1>1, <2>1, <2>3 DEF DeliveryInv, Shape, DirsApart
    <3>2. s[2] = t[2]
      BY <1>1, <2>3, <3>1 DEF DeliveryInv, Shape, RowShape, InUse, At, Roles
    <3> QED
      BY <3>1, <3>2 DEF InUse
  <2> QED
    BY <2>2, <2>3 DEF TreesBehindRows
<1> QED
  BY <1>1, DeliveryInvariant, PTL

\* A tree that a power loss has torn is in no catalog that a Host serves, and no other Package
\* is served beside it (registry.rs and package_installer.rs: every load verifies every Active
\* tree, a rollback the Previous one).
THEOREM TornTreesUnserved == Spec => []TornNeverServed
<1> DEFINE Torn(d) == storage[d].kept = "torn"
<1>1. ASSUME Init PROVE TornNeverServed
  <2>1. \A p \in Packages : ~Installed(p)
    BY <1>1 DEF Init, Installed, Active, NoRow, NoSlot
  <2> QED
    BY <2>1 DEF TornNeverServed
<1>2. ASSUME DeliveryInv, TornNeverServed, [Next]_vars PROVE TornNeverServed'
  <2>t. TypeOK /\ TypeOK' /\ Shape
    BY <1>2, TypeStep DEF DeliveryInv
  <2>a. ASSUME NEW p \in Packages, Installed(p)' PROVE registry'[p].active.dir \in Dirs
    BY <2>t, <2>a, DeliveryAssumption DEF TypeOK, Slot, NoSlot, Installed, Active
  <2>1. ASSUME UNCHANGED registry, \A d \in Dirs : Torn(d)' => Torn(d),
               \A h \in Hosts : live'[h] = live[h] \/ live'[h] = None
        PROVE  TornNeverServed'
    BY <1>2, <2>1, <2>a DEF TornNeverServed, Installed, Active
  <2>2. ASSUME NEW h \in Hosts, InstallMoves(h) PROVE TornNeverServed'
    <3>1. \A d \in Dirs : Torn(d)' => Torn(d)
      BY <2>t, <2>2 DEF InstallMoves, TypeOK
    <3> QED
      BY <2>1, <2>2, <3>1 DEF InstallMoves
  <2>3. ASSUME NEW h \in Hosts, InstallSyncs(h) PROVE TornNeverServed'
    <3>1. \A d \in Dirs : Torn(d)' => Torn(d)
      BY <2>t, <2>3 DEF InstallSyncs, TypeOK
    <3> QED
      BY <2>1, <2>3, <3>1 DEF InstallSyncs
  <2>4. ASSUME NEW h \in Hosts, InstallCommits(h) PROVE TornNeverServed'
    <3>1. PICK p \in Packages : p = PackageOf[op[h].art]
      BY <2>t, <2>4, OpType, DeliveryAssumption DEF InstallCommits, OpRecord
    <3>2. registry'[p].active.dir = op[h].dir /\ \A q \in Packages \ {p} : registry'[q] = registry[q]
      BY <2>t, <2>4, <3>1 DEF InstallCommits, TypeOK
    <3>3. storage' = storage /\ live' = live /\ ~Torn(op[h].dir)
      BY <2>t, <2>4 DEF InstallCommits, Shape, OpShape, Entered
    <3> QED
      BY <1>2, <3>2, <3>3 DEF TornNeverServed, Installed, Active
  <2>5. ASSUME NEW h \in Hosts, NEW p \in Packages, Rollback(h, p) PROVE TornNeverServed'
    <3>1. registry'[p].active = registry[p].previous /\ \A q \in Packages \ {p} : registry'[q] = registry[q]
      BY <2>t, <2>5 DEF Rollback, TypeOK
    <3>2. storage' = storage /\ live' = live /\ ~Torn(registry[p].previous.dir)
      BY <2>5 DEF Rollback, Verified
    <3> QED
      BY <1>2, <3>1, <3>2 DEF TornNeverServed, Installed, Active
  <2>6. ASSUME NEW h \in Hosts, Refresh(h) \/ Restart(h) PROVE TornNeverServed'
    <3>1. UNCHANGED <<registry, storage>>
      BY <2>6 DEF Refresh, Restart
    <3>2. CASE Loadable
      BY <3>1, <3>2 DEF Loadable, Verified, TornNeverServed, Installed, Active
    <3>3. CASE ~Loadable
      <4>1. \A k \in Hosts : live'[k] = live[k] \/ live'[k] = None
        BY <2>t, <2>6, <3>3 DEF Refresh, Restart, TypeOK
      <4> QED
        BY <2>1, <3>1, <4>1
    <3> QED
      BY <3>2, <3>3
  <2>7. ASSUME NEW h \in Hosts, Crash(h) PROVE TornNeverServed'
    BY <2>1, <2>7 DEF Crash, Dead
  <2>8. CASE PowerLoss
    BY <2>8 DEF PowerLoss, Dead, TornNeverServed
  <2>9. ASSUME NEW d \in Dirs, StorageChanges(d) PROVE TornNeverServed'
    <3>1. \A e \in Dirs : Torn(e)' => Torn(e)
      BY <2>t, <2>9 DEF StorageChanges, TypeOK
    <3> QED
      BY <2>1, <2>9, <3>1 DEF StorageChanges
  <2>10. CASE UNCHANGED <<registry, storage, live>>
    BY <2>1, <2>10
  <2> HIDE DEF Torn
  <2> QED
    BY <1>2, <2>2, <2>3, <2>4, <2>5, <2>6, <2>7, <2>8, <2>9, <2>10, DeliveryAssumption
    DEF Next, LocalNext, vars, AccessChanges, DownloadFails, DownloadStarts, ApprovalRequested,
        ApprovalExpires, Approve, InstallStarts, InstallObserves, AlreadyInstalled, InstallFails,
        Reconcile
<1> QED
  BY <1>1, <1>2, DeliveryInvariant, PTL DEF Spec

\* One installed Package per Agent and one Agent per Package, with any number of Hosts that
\* install at the same time (package_installer.rs: ensure_agent_id_available in the commit).
THEOREM AgentsHaveOneOwner == Spec => []OneOwnerPerAgent
<1>1. ASSUME DeliveryInv PROVE OneOwnerPerAgent
  <2>1. ASSUME NEW s \in InUse
        PROVE  /\ s[1] \in Packages /\ Installed(s[1])
               /\ AgentIdOf[At(s).art] = AgentIdOf[Active(s[1])]
    <3>1. s[1] \in Packages /\ s[2] \in Roles /\ registry[s[1]][s[2]] # NoSlot
      BY DEF InUse
    <3>2. registry[s[1]].active # NoSlot
      BY <1>1, <3>1 DEF DeliveryInv, Shape, RowShape, Roles
    <3>3. Installed(s[1])
      BY <1>1, <3>1, <3>2, ActiveType DEF DeliveryInv
    <3>4. AgentIdOf[At(s).art] = AgentIdOf[Active(s[1])]
      BY <1>1, <3>1 DEF DeliveryInv, Shape, RowShape, Roles, At, Active
    <3> QED
      BY <3>1, <3>3, <3>4
  <2> SUFFICES ASSUME NEW s \in InUse, NEW t \in InUse
               PROVE  AgentIdOf[At(s).art] = AgentIdOf[At(t).art] <=> s[1] = t[1]
    BY DEF OneOwnerPerAgent
  <2> QED
    BY <1>1, <2>1 DEF DeliveryInv, Shape, AgentsApart
<1> QED
  BY <1>1, DeliveryInvariant, PTL

----------------------------------------------------------------------------
\* A catalog that names an Agent once and a Package once.
Coherent(c) == \A a, b \in c : PackageOf[a] = PackageOf[b] \/ AgentIdOf[a] = AgentIdOf[b] => a = b

LEMMA LoadableCoherent ==
    ASSUME DeliveryInv, Loadable
    PROVE  Coherent(Catalog)
<1>1. \A p \in Packages : Installed(p) => PackageOf[Active(p)] = p
  BY ActiveType, DeliveryAssumption
  DEF DeliveryInv, Shape, RowShape, Slots, Active, Installed, NoSlot
<1>2. ASSUME NEW p \in Packages, Installed(p), NEW b \in Builtin, ~Installed(PackageOf[b])
      PROVE  PackageOf[Active(p)] # PackageOf[b] /\ AgentIdOf[Active(p)] # AgentIdOf[b]
  BY <1>1, <1>2 DEF Loadable
<1>3. ASSUME NEW a \in Catalog, NEW b \in Catalog,
             PackageOf[a] = PackageOf[b] \/ AgentIdOf[a] = AgentIdOf[b]
      PROVE  a = b
  <2>1. CASE a \in Builtin /\ ~Installed(PackageOf[a]) /\ b \in Builtin /\ ~Installed(PackageOf[b])
    BY <1>3, <2>1, DeliveryAssumption
  <2>2. ASSUME NEW p \in Packages, Installed(p), a = Active(p),
               NEW q \in Packages, Installed(q), b = Active(q)
        PROVE  a = b
    BY <1>1, <1>3, <2>2 DEF DeliveryInv, Shape, AgentsApart
  <2>3. ASSUME NEW p \in Packages, Installed(p), a = Active(p), b \in Builtin, ~Installed(PackageOf[b])
        PROVE  FALSE
    BY <1>2, <1>3, <2>3
  <2>4. ASSUME NEW p \in Packages, Installed(p), b = Active(p), a \in Builtin, ~Installed(PackageOf[a])
        PROVE  FALSE
    BY <1>2, <1>3, <2>4
  <2> QED
    BY <2>1, <2>2, <2>3, <2>4 DEF Catalog
<1> QED
  BY <1>3 DEF Coherent

\* A catalog that a Host serves names an Agent once and a Package once, whatever was installed
\* by whichever Host and however a refresh or a restart failed (registry.rs:
\* refresh_package_catalog_locked keeps the last good catalog).
THEOREM ServedCatalogsCoherent == Spec => []CatalogsCoherent
<1> DEFINE Good == \A h \in Hosts : live[h] # None => Coherent(live[h])
<1>1. Init => Good
  BY DeliveryAssumption DEF Init, Coherent
<1>2. ASSUME DeliveryInv, Good, [Next]_vars PROVE Good'
  <2>1. CASE UNCHANGED live
    BY <1>2, <2>1 DEF Coherent
  <2>2. ASSUME NEW h \in Hosts, Refresh(h) PROVE Good'
    <3>1. \A k \in Hosts : live'[k] = live[k] \/ (Loadable /\ live'[k] = Catalog)
      BY <1>2, <2>2 DEF Refresh, DeliveryInv, TypeOK
    <3> QED
      BY <1>2, <3>1, LoadableCoherent DEF Coherent
  <2>3. ASSUME NEW h \in Hosts, Restart(h) PROVE Good'
    <3>1. \A k \in Hosts : \/ live'[k] = live[k] \/ (Loadable /\ live'[k] = Catalog)
                           \/ live'[k] = None
      BY <1>2, <2>3 DEF Restart, DeliveryInv, TypeOK
    <3> QED
      BY <1>2, <3>1, LoadableCoherent DEF Coherent
  <2>4. ASSUME NEW H, Dead(H) PROVE Good'
    <3>1. \A k \in Hosts : live'[k] = live[k] \/ live'[k] = None
      BY <2>4 DEF Dead
    <3> QED
      BY <1>2, <3>1 DEF Coherent
  <2> QED
    BY <1>2, <2>1, <2>2, <2>3, <2>4
    DEF Next, LocalNext, vars, AccessChanges, DownloadFails, DownloadStarts, ApprovalRequested,
        ApprovalExpires, Approve, InstallStarts, InstallObserves, AlreadyInstalled, InstallMoves,
        InstallSyncs, InstallCommits, InstallFails, Rollback, Reconcile, Crash, PowerLoss,
        StorageChanges
<1>3. Good => CatalogsCoherent
  BY DEF CatalogsCoherent, Coherent
<1> QED
  BY <1>1, <1>2, <1>3, DeliveryInvariant, PTL DEF Spec

----------------------------------------------------------------------------
\* A Host that is down has no mutation; the one of an only Host leaves its artifact Active;
\* and a receipt still describes the catalog that is served.
Down == \A h \in Hosts : h \notin up => op[h] = NoOp

Landed ==
    \A h \in Hosts : op[h].pc = "refresh" /\ Hosts = {h} => Active(PackageOf[op[h].art]) = op[h].art

Names(x, a) == PackageOf[x] = PackageOf[a] /\ VersionOf[x] = VersionOf[a]

Told ==
    \A h \in Hosts :
        /\ op[h].pc = "visible" => \E x \in live[h] : Names(x, op[h].art)
        /\ op[h].pc = "superseded" =>
              /\ Hosts # {h}
              /\ \E x \in live[h] : PackageOf[x] = PackageOf[op[h].art]
              /\ \A x \in live[h] : ~Names(x, op[h].art)

ReceiptInv == Down /\ Landed /\ Told

\* The ways a step touches a Host's mutation: not at all, on the way to the commit or back,
\* with the commit, with the refresh, with the Host's end or its start.
Untouched == UNCHANGED <<registry, op, live, up>>

Proceeds(h) ==
    /\ h \in up /\ UNCHANGED <<registry, live, up>>
    /\ op'[h].pc \notin Receipts \cup {"refresh"} /\ \A k \in Hosts \ {h} : op'[k] = op[k]

Lands(h, a) ==
    /\ h \in up /\ UNCHANGED <<live, up>> /\ registry'[PackageOf[a]].active.art = a
    /\ op'[h].pc = "refresh" /\ op'[h].art = a /\ \A k \in Hosts \ {h} : op'[k] = op[k]

LEMMA ActingIsUp ==
    ASSUME TypeOK, Down, NEW h \in Hosts, op[h].pc # "idle"
    PROVE  h \in up
BY OpType DEF Down

LEMMA LandsByMutated ==
    ASSUME TypeOK, NEW h \in Hosts, NEW a, Mutated(h, a)
    PROVE  op'[h].pc = "refresh" /\ op'[h].art = a /\ \A k \in Hosts \ {h} : op'[k] = op[k]
BY DEF Mutated, TypeOK

\* A slot's artifact is one of its own Package's.
LEMMA OwnSlots ==
    ASSUME DeliveryInv, NEW p \in Packages
    PROVE  /\ Installed(p) => PackageOf[Active(p)] = p
           /\ registry[p].previous # NoSlot => PackageOf[registry[p].previous.art] = p
BY ActiveType, DeliveryAssumption
DEF DeliveryInv, Shape, RowShape, Slots, Active, Installed, NoSlot

LEMMA ProceedsSteps ==
    ASSUME DeliveryInv, Down, NEW h \in Hosts,
           \/ InstallStarts(h) \/ \E i \in Approvals : Approve(h, i)
           \/ InstallObserves(h) \/ InstallMoves(h) \/ InstallSyncs(h) \/ InstallFails(h)
    PROVE  Proceeds(h)
<1>1. TypeOK
  BY DEF DeliveryInv
<1>2. h \in up
  BY <1>1, ActingIsUp
  DEF InstallStarts, Approve, InstallObserves, InstallMoves, InstallSyncs, InstallFails
<1>3. UNCHANGED <<registry, live, up>>
  BY DEF InstallStarts, Approve, InstallObserves, InstallMoves, InstallSyncs, InstallFails
<1>4. op'[h].pc \notin Receipts \cup {"refresh"} /\ \A k \in Hosts \ {h} : op'[k] = op[k]
  <2>1. CASE InstallStarts(h) \/ \E i \in Approvals : Approve(h, i)
    BY <1>1, <2>1, OpUpdate DEF InstallStarts, Approve, Receipts
  <2>2. CASE InstallObserves(h) \/ InstallSyncs(h)
    BY <1>1, <2>2, OpUpdate DEF InstallObserves, InstallSyncs, Enters, Receipts
  <2>3. CASE InstallMoves(h)
    BY <1>1, <2>3, OpUpdate DEF InstallMoves, Receipts
  <2>4. CASE InstallFails(h)
    BY <1>1, <2>4, OpUpdate DEF InstallFails, NoOp, Receipts
  <2> QED
    BY <2>1, <2>2, <2>3, <2>4
<1> QED
  BY <1>2, <1>3, <1>4 DEF Proceeds

LEMMA LandsSteps ==
    ASSUME DeliveryInv, Down, NEW h \in Hosts,
           \/ AlreadyInstalled(h) \/ InstallCommits(h)
           \/ \E p \in Packages : Rollback(h, p) \/ Reconcile(h, p)
    PROVE  \E a \in Artifacts : Lands(h, a)
<1>1. TypeOK
  BY DEF DeliveryInv
<1>2. h \in up
  BY <1>1, ActingIsUp DEF AlreadyInstalled, InstallCommits, Rollback, Reconcile
<1>3. CASE AlreadyInstalled(h)
  <2>1. op[h].art \in Artifacts
    BY <1>1, <1>3, OpType DEF AlreadyInstalled, OpRecord
  <2>2. registry'[PackageOf[op[h].art]].active.art = op[h].art
    BY <1>3 DEF AlreadyInstalled, Plannable, Active
  <2> QED
    BY <1>1, <1>2, <1>3, <2>1, <2>2, LandsByMutated DEF AlreadyInstalled, Lands
<1>4. CASE InstallCommits(h)
  <2>1. op[h].art \in Artifacts /\ PackageOf[op[h].art] \in Packages
    BY <1>1, <1>4, OpType, DeliveryAssumption DEF InstallCommits, OpRecord
  <2>2. registry'[PackageOf[op[h].art]].active.art = op[h].art
    BY <1>1, <1>4, <2>1 DEF InstallCommits, Active, TypeOK
  <2> QED
    BY <1>1, <1>2, <1>4, <2>1, <2>2, LandsByMutated DEF InstallCommits, Lands
<1>5. ASSUME NEW p \in Packages, Rollback(h, p) PROVE \E a \in Artifacts : Lands(h, a)
  <2>1. registry[p].previous.art \in Artifacts /\ PackageOf[registry[p].previous.art] = p
    BY <1>1, <1>5, ActiveType, OwnSlots DEF Rollback
  <2>2. registry'[p].active.art = registry[p].previous.art
    BY <1>1, <1>5 DEF Rollback, TypeOK
  <2> QED
    BY <1>1, <1>2, <1>5, <2>1, <2>2, LandsByMutated DEF Rollback, Lands, Active
<1>6. ASSUME NEW p \in Packages, Reconcile(h, p) PROVE \E a \in Artifacts : Lands(h, a)
  <2>1. Active(p) \in Artifacts /\ PackageOf[Active(p)] = p
    BY <1>1, <1>6, ActiveType, OwnSlots DEF Reconcile, Installed
  <2> QED
    BY <1>1, <1>2, <1>6, <2>1, LandsByMutated DEF Reconcile, Lands, Active
<1> QED
  BY <1>3, <1>4, <1>5, <1>6

LEMMA MutationCases ==
    ASSUME DeliveryInv, Down, [Next]_vars
    PROVE  \/ Untouched
           \/ \E h \in Hosts : \/ Proceeds(h) \/ (\E a \in Artifacts : Lands(h, a))
                               \/ Refresh(h) \/ Restart(h)
           \/ \E H : Dead(H)
<1>1. CASE UNCHANGED vars
  BY <1>1 DEF vars, Untouched
<1>2. ASSUME NEW h \in Hosts, \/ (\E account \in Accounts \cup {None} : AccessChanges(h, account))
                              \/ DownloadFails(h) \/ (\E a \in Artifacts : DownloadStarts(h, a))
                              \/ (\E i \in Approvals : ApprovalRequested(h, i) \/ ApprovalExpires(h, i))
      PROVE  Untouched
  BY <1>2 DEF AccessChanges, DownloadFails, DownloadStarts, ApprovalRequested, ApprovalExpires, Untouched
<1>3. ASSUME NEW d \in Dirs, StorageChanges(d) PROVE Untouched
  BY <1>3 DEF StorageChanges, Untouched
<1>4. CASE PowerLoss \/ \E h \in Hosts : Crash(h)
  BY <1>4 DEF PowerLoss, Crash
<1> QED
  BY <1>1, <1>2, <1>3, <1>4, ProceedsSteps, LandsSteps DEF Next, LocalNext

LEMMA DownStep ==
    ASSUME DeliveryInv, Down, [Next]_vars
    PROVE  Down'
<1>1. CASE Untouched
  BY <1>1 DEF Untouched, Down
<1>2. ASSUME NEW h \in Hosts, Proceeds(h) \/ \E a \in Artifacts : Lands(h, a) PROVE Down'
  BY <1>2 DEF Proceeds, Lands, Down
<1>3. ASSUME NEW h \in Hosts, Refresh(h) PROVE Down'
  <2>1. h \in up
    BY <1>3, ActingIsUp DEF Refresh, DeliveryInv
  <2>2. up' = up /\ \A k \in Hosts \ {h} : op'[k] = op[k]
    BY <1>3, OpUpdate DEF Refresh, DeliveryInv
  <2> QED
    BY <2>1, <2>2 DEF Down
<1>4. ASSUME NEW h \in Hosts, Restart(h) PROVE Down'
  BY <1>4 DEF Restart, Down
<1>5. ASSUME NEW H, Dead(H) PROVE Down'
  BY <1>5 DEF Dead, Down
<1> QED
  BY <1>1, <1>2, <1>3, <1>4, <1>5, MutationCases

LEMMA LandedStep ==
    ASSUME DeliveryInv, Down, Landed, [Next]_vars
    PROVE  Landed'
<1>1. CASE Untouched
  BY <1>1 DEF Untouched, Landed, Active
<1>2. ASSUME NEW h \in Hosts, Proceeds(h) PROVE Landed'
  BY <1>2 DEF Proceeds, Landed, Active
<1>3. ASSUME NEW h \in Hosts, NEW a \in Artifacts, Lands(h, a) PROVE Landed'
  BY <1>3 DEF Lands, Landed, Active
<1>4. ASSUME NEW h \in Hosts, Refresh(h) PROVE Landed'
  <2>1. registry' = registry /\ \A k \in Hosts \ {h} : op'[k] = op[k]
    BY <1>4, OpUpdate DEF Refresh, DeliveryInv
  <2>2. op'[h].pc = IF Loadable THEN Visibility(op[h].art, Catalog) ELSE "pending"
    BY <1>4 DEF Refresh, DeliveryInv, TypeOK
  <2>3. op'[h].pc # "refresh"
    BY <2>2 DEF Visibility
  <2> QED
    BY <2>1, <2>3 DEF Landed, Active
<1>5. ASSUME NEW h \in Hosts, Restart(h) PROVE Landed'
  BY <1>5 DEF Restart, Landed, Active
<1>6. ASSUME NEW H, Dead(H) PROVE Landed'
  BY <1>6 DEF Dead, Landed, Active, NoOp
<1> QED
  BY <1>1, <1>2, <1>3, <1>4, <1>5, <1>6, MutationCases

\* What the refresh says when the catalog loads: superseded only where the Package's one
\* entry has another version, which an only Host cannot meet.
LEMMA RefreshTells ==
    ASSUME DeliveryInv, Landed, Loadable, NEW h \in Hosts, op[h].pc = "refresh"
    PROVE  LET a == op[h].art
           IN  /\ Visibility(a, Catalog) = "visible" => \E x \in Catalog : Names(x, a)
               /\ Visibility(a, Catalog) = "superseded" =>
                     /\ Hosts # {h}
                     /\ \E x \in Catalog : PackageOf[x] = PackageOf[a]
                     /\ \A x \in Catalog : ~Names(x, a)
<1> DEFINE a == op[h].art
           same == {x \in Catalog : PackageOf[x] = PackageOf[a] /\ AgentIdOf[x] = AgentIdOf[a]}
<1>1. Visibility(a, Catalog) = IF same = {} THEN "pending"
        ELSE IF \E x \in same : VersionOf[x] = VersionOf[a] THEN "visible" ELSE "superseded"
  BY DEF Visibility
<1>2. ASSUME Visibility(a, Catalog) = "visible" PROVE \E x \in Catalog : Names(x, a)
  BY <1>1, <1>2 DEF Names
<1>3. ASSUME Visibility(a, Catalog) = "superseded"
      PROVE  /\ Hosts # {h}
             /\ \E x \in Catalog : PackageOf[x] = PackageOf[a]
             /\ \A x \in Catalog : ~Names(x, a)
  <2>1. same # {} /\ \A x \in same : VersionOf[x] # VersionOf[a]
    BY <1>1, <1>3
  <2>2. PICK y \in same : TRUE
    BY <2>1
  <2>3. \A x \in Catalog : PackageOf[x] = PackageOf[a] => x = y
    BY <2>2, LoadableCoherent DEF Coherent
  <2>4. \A x \in Catalog : ~Names(x, a)
    BY <2>1, <2>2, <2>3 DEF Names
  <2>5. ASSUME Hosts = {h} PROVE FALSE
    <3>1. Active(PackageOf[a]) = a
      BY <2>5 DEF Landed
    <3>2. a \in Artifacts /\ PackageOf[a] \in Packages /\ a # None
      BY OpType, DeliveryAssumption DEF DeliveryInv, OpRecord
    <3>3. a \in Catalog
      BY <3>1, <3>2 DEF Catalog, Installed
    <3> QED
      BY <2>4, <3>3 DEF Names
  <2> QED
    BY <2>2, <2>4, <2>5
<1> QED
  BY <1>2, <1>3

LEMMA ToldStep ==
    ASSUME DeliveryInv, ReceiptInv, [Next]_vars
    PROVE  Told'
<1>0. Down /\ Landed /\ Told
  BY DEF ReceiptInv
<1>1. CASE Untouched
  BY <1>0, <1>1 DEF Untouched, Told
<1>2. ASSUME NEW h \in Hosts, Proceeds(h) \/ \E a \in Artifacts : Lands(h, a) PROVE Told'
  BY <1>0, <1>2 DEF Proceeds, Lands, Told, Receipts
<1>3. ASSUME NEW h \in Hosts, Refresh(h) PROVE Told'
  <2>1. /\ op[h].pc = "refresh" /\ op'[h].art = op[h].art
        /\ op'[h].pc = IF Loadable THEN Visibility(op[h].art, Catalog) ELSE "pending"
        /\ live'[h] = IF Loadable THEN Catalog ELSE live[h]
        /\ \A k \in Hosts \ {h} : op'[k] = op[k] /\ live'[k] = live[k]
    BY <1>3 DEF Refresh, DeliveryInv, TypeOK
  <2>2. CASE ~Loadable
    BY <1>0, <2>1, <2>2 DEF Told
  <2>3. CASE Loadable
    BY <1>0, <2>1, <2>3, RefreshTells DEF Told
  <2> QED
    BY <2>2, <2>3
<1>4. ASSUME NEW h \in Hosts, Restart(h) PROVE Told'
  <2>1. op' = op /\ op[h] = NoOp /\ \A k \in Hosts \ {h} : live'[k] = live[k]
    BY <1>0, <1>4 DEF Restart, Down, DeliveryInv, TypeOK
  <2> QED
    BY <1>0, <2>1 DEF Told, NoOp
<1>5. ASSUME NEW H, Dead(H) PROVE Told'
  BY <1>0, <1>5 DEF Dead, Told, NoOp
<1> QED
  BY <1>0, <1>1, <1>2, <1>3, <1>4, <1>5, MutationCases

\* The receipt of the last mutation describes the catalog its Host serves: the version it
\* calls visible is served, and superseded names another version, which only another Host
\* can have put there (registry.rs: the refresh gate is held to the end of the refresh).
THEOREM ReceiptsTellTheTruth == Spec => []ReceiptsTruthful
<1>1. ASSUME Init PROVE ReceiptInv
  <2>1. \A h \in Hosts : op[h] = NoOp /\ op[h].pc = "idle"
    BY <1>1 DEF Init, NoOp
  <2> QED
    BY <2>1 DEF ReceiptInv, Down, Landed, Told
<1>2. DeliveryInv /\ ReceiptInv /\ [Next]_vars => ReceiptInv'
  BY DownStep, LandedStep, ToldStep DEF ReceiptInv
<1>3. ReceiptInv => ReceiptsTruthful
  <2> SUFFICES ASSUME Told, NEW h \in Hosts
               PROVE  LET served == {VersionOf[x] : x \in {y \in live[h] :
                                                   PackageOf[y] = PackageOf[op[h].art]}}
                      IN  /\ op[h].pc = "visible" => VersionOf[op[h].art] \in served
                          /\ op[h].pc = "superseded" =>
                               Hosts # {h} /\ served # {} /\ VersionOf[op[h].art] \notin served
    BY DEF ReceiptsTruthful, ReceiptInv
  <2> QED
    BY DEF Told, Names
<1> QED
  BY <1>1, <1>2, <1>3, DeliveryInvariant, PTL DEF Spec

----------------------------------------------------------------------------
slotsBar == [p \in Packages |-> [active   |-> registry[p].active.art,
                                 previous |-> registry[p].previous.art]]

consentBar == [h \in Hosts |-> IF op[h].approved
                               THEN [art |-> op[h].art, base |-> op[h].base]
                               ELSE None]

\* Steps that leave the registry alone and do not touch a mutation's consent do not show.
LEMMA ConsentKept ==
    ASSUME NEW h \in Hosts, NEW r, TypeOK, op' = [op EXCEPT ![h] = r],
           r.approved = op[h].approved,
           r.approved => r.art = op[h].art /\ r.base = op[h].base
    PROVE  consentBar' = consentBar
<1>1. op'[h] = r /\ \A k \in Hosts \ {h} : op'[k] = op[k]
  BY OpUpdate
<1> QED
  BY <1>1 DEF consentBar

\* A mutation that ends, in success or failure, drops its consent.
Ends(h) == op'[h].approved = FALSE /\ \A k \in Hosts \ {h} : op'[k] = op[k]

LEMMA ConsentDropped ==
    ASSUME NEW h \in Hosts, Ends(h)
    PROVE  /\ consentBar' = [c \in Hosts |-> IF c \in {h} THEN None ELSE consentBar[c]]
           /\ consentBar' = [consentBar EXCEPT ![h] = None]
BY DEF consentBar, Ends

LEMMA MutatedEnds ==
    ASSUME TypeOK, NEW h \in Hosts, NEW a, Mutated(h, a)
    PROVE  Ends(h)
BY DEF Mutated, Ends, TypeOK

LEMMA ApproveConsents ==
    ASSUME DeliveryInv, NEW h \in Hosts, NEW i \in Approvals, Approve(h, i)
    PROVE  \E a \in Artifacts : \E b \in Artifacts \cup {None} : Versions!Consent(h, a, b)
<1>1. PICK a \in Artifacts, b \in Artifacts \cup {None} : a = pending[h][i].art /\ b = pending[h][i].base
  BY PendingType, DeliveryAssumption DEF DeliveryInv, Approve
<1> DEFINE r == [pc |-> "observe", art |-> a, base |-> b, approved |-> TRUE, dir |-> None]
<1>2. op' = [op EXCEPT ![h] = r] /\ UNCHANGED registry /\ GateIsFree(h)
  BY <1>1 DEF Approve
<1>3. op'[h] = r /\ \A k \in Hosts \ {h} : op'[k] = op[k]
  BY <1>2, OpUpdate DEF DeliveryInv
<1>4. consentBar[h] = None
  BY <1>2 DEF consentBar, GateIsFree, Busy, DeliveryInv, Shape, OpShape, Planned
<1>5. consentBar' = [consentBar EXCEPT ![h] = [art |-> a, base |-> b]]
  <2>1. consentBar'[h] = [art |-> a, base |-> b]
    BY <1>3 DEF consentBar
  <2>2. \A k \in Hosts \ {h} : consentBar'[k] = consentBar[k]
    BY <1>3 DEF consentBar
  <2>3. consentBar' = [k \in Hosts |-> consentBar'[k]] /\ consentBar = [k \in Hosts |-> consentBar[k]]
    BY DEF consentBar
  <2> QED
    BY <2>1, <2>2, <2>3
<1>6. slotsBar' = slotsBar
  BY <1>2 DEF slotsBar
<1>7. Versions!Consent(h, a, b)
  BY <1>4, <1>5, <1>6 DEF Versions!Consent, consentBar, slotsBar
<1> QED
  BY <1>7

LEMMA CommitUpgrades ==
    ASSUME DeliveryInv, NEW h \in Hosts, InstallCommits(h)
    PROVE  \E a \in Artifacts : Versions!Upgrade(h, a)
<1> USE DEF DeliveryInv
<1>1. PICK a \in Artifacts, p \in Packages, b \in Artifacts \cup {None} :
         a = op[h].art /\ p = PackageOf[a] /\ b = op[h].base
  <2>1. /\ op[h].art \in Artifacts /\ PackageOf[op[h].art] \in Packages
        /\ op[h].base \in Artifacts \cup {None}
    BY OpType, DeliveryAssumption DEF OpRecord, InstallCommits
  <2> QED
    BY <2>1
<1>2. /\ op[h].pc = "commit" /\ CommitAllowed(h) /\ Mutated(h, a)
      /\ registry' = [registry EXCEPT ![p] = [active |-> [art |-> a, dir |-> op[h].dir],
                                              previous |-> registry[p].active]]
  BY <1>1 DEF InstallCommits
<1>3. b = Active(p) /\ AgentIsFree(a)
  BY <1>1, <1>2 DEF CommitAllowed
<1>4. /\ b # None => AgentIdOf[a] = AgentIdOf[b] /\ Precedence[a] > Precedence[b]
      /\ op[h].approved \/ Added(a, b) = {}
  BY <1>1, <1>2 DEF Shape, OpShape, Planned
<1>5. \A q \in Packages : slotsBar[q].active = Active(q) /\ slotsBar[q].previous = registry[q].previous.art
  BY DEF slotsBar, Active
<1>6. consentBar[h] = [art |-> a, base |-> b] \/ Added(a, b) = {}
  BY <1>1, <1>4 DEF consentBar
<1>7. PermissionsOf[a] \subseteq Versions!Granted(b) \/ Added(a, b) # {}
  BY DEF Added, Versions!Granted
<1>8. slotsBar' = [slotsBar EXCEPT ![p] = [active |-> a, previous |-> slotsBar[p].active]]
  <2>1. /\ registry'[p] = [active |-> [art |-> a, dir |-> op[h].dir], previous |-> registry[p].active]
        /\ \A q \in Packages \ {p} : registry'[q] = registry[q]
    BY <1>2 DEF TypeOK
  <2>2. slotsBar'[p] = [active |-> a, previous |-> slotsBar[p].active]
    BY <2>1 DEF slotsBar
  <2>3. \A q \in Packages \ {p} : slotsBar'[q] = slotsBar[q]
    BY <2>1 DEF slotsBar
  <2>4. slotsBar' = [q \in Packages |-> slotsBar'[q]] /\ slotsBar = [q \in Packages |-> slotsBar[q]]
    BY DEF slotsBar
  <2> QED
    BY <2>2, <2>3, <2>4
<1>9. consentBar' = [consentBar EXCEPT ![h] = None]
  BY <1>2, ConsentDropped, MutatedEnds
<1>10. slotsBar[p].active = b
  BY <1>3, <1>5
<1>11. \A q \in Packages \ {p} : slotsBar[q].active # None => AgentIdOf[slotsBar[q].active] # AgentIdOf[a]
  BY <1>1, <1>3, <1>5 DEF AgentIsFree, Installed
<1>12. consentBar[h] = [art |-> a, base |-> b] \/ PermissionsOf[a] \subseteq Versions!Granted(b)
  BY <1>6, <1>7
<1>13. Versions!Upgrade(h, a)
  BY <1>1, <1>4, <1>8, <1>9, <1>10, <1>11, <1>12 DEF Versions!Upgrade, slotsBar, consentBar
<1> QED
  BY <1>13

LEMMA RollbackRollsBack ==
    ASSUME DeliveryInv, NEW h \in Hosts, NEW p \in Packages, Rollback(h, p)
    PROVE  Versions!Rollback(p)
<1> USE DEF DeliveryInv
<1>1. /\ registry[p].previous # NoSlot /\ GateIsFree(h)
      /\ registry' = [registry EXCEPT ![p] = [active |-> registry[p].previous,
                                              previous |-> registry[p].active]]
      /\ Mutated(h, registry[p].previous.art)
  BY DEF Rollback
<1>2. slotsBar[p].previous # None
  BY <1>1, ActiveType, DeliveryAssumption DEF slotsBar
<1>3. slotsBar' = [slotsBar EXCEPT ![p] = [active |-> slotsBar[p].previous,
                                           previous |-> slotsBar[p].active]]
  <2>1. /\ registry'[p] = [active |-> registry[p].previous, previous |-> registry[p].active]
        /\ \A q \in Packages \ {p} : registry'[q] = registry[q]
    BY <1>1 DEF TypeOK
  <2>2. slotsBar'[p] = [active |-> slotsBar[p].previous, previous |-> slotsBar[p].active]
    BY <2>1 DEF slotsBar
  <2>3. \A q \in Packages \ {p} : slotsBar'[q] = slotsBar[q]
    BY <2>1 DEF slotsBar
  <2>4. slotsBar' = [q \in Packages |-> slotsBar'[q]] /\ slotsBar = [q \in Packages |-> slotsBar[q]]
    BY DEF slotsBar
  <2> QED
    BY <2>2, <2>3, <2>4
<1>4. ~op[h].approved
  BY <1>1 DEF GateIsFree, Busy, Shape, OpShape, Planned
<1>5. consentBar' = consentBar
  <2>1. consentBar' = [consentBar EXCEPT ![h] = None]
    <3>1. Ends(h)
      BY <1>1 DEF Mutated, Ends, TypeOK
    <3> QED
      BY <3>1, ConsentDropped
  <2>2. consentBar[h] = None
    BY <1>4 DEF consentBar
  <2>3. consentBar = [k \in Hosts |-> consentBar[k]]
    BY DEF consentBar
  <2> QED
    BY <2>1, <2>2, <2>3
<1> QED
  BY <1>2, <1>3, <1>5 DEF Versions!Rollback, slotsBar, consentBar

LEMMA DeadLapses ==
    ASSUME NEW H \in SUBSET Hosts, Dead(H)
    PROVE  Versions!Lapse(H)
<1>1. \A h \in Hosts : op'[h] = IF h \in H THEN NoOp ELSE op[h]
  BY DEF Dead
<1>2. consentBar' = [c \in Hosts |-> IF c \in H THEN None ELSE consentBar[c]]
  BY <1>1 DEF consentBar, NoOp
<1>3. slotsBar' = slotsBar
  BY DEF Dead, slotsBar
<1> QED
  BY <1>2, <1>3 DEF Versions!Lapse, slotsBar, consentBar

\* A mutation that ends without a change of the registry lets its consent lapse.
LEMMA EndLapses ==
    ASSUME NEW h \in Hosts, Ends(h), UNCHANGED registry
    PROVE  Versions!Lapse({h})
<1>1. consentBar' = [c \in Hosts |-> IF c \in {h} THEN None ELSE consentBar[c]]
  BY ConsentDropped
<1>2. slotsBar' = slotsBar
  BY DEF slotsBar
<1> QED
  BY <1>1, <1>2 DEF Versions!Lapse, slotsBar, consentBar

LEMMA Stutter ==
    ASSUME UNCHANGED registry, consentBar' = consentBar
    PROVE  UNCHANGED Versions!vars
<1>1. slotsBar' = slotsBar
  BY DEF slotsBar
<1> QED
  BY <1>1 DEF Versions!vars, slotsBar, consentBar

LEMMA VersionsStep ==
    ASSUME DeliveryInv, [Next]_vars
    PROVE  [Versions!Next]_(Versions!vars)
<1> USE DEF DeliveryInv
<1>s. UNCHANGED <<registry, op>> => UNCHANGED Versions!vars
  BY Stutter DEF consentBar
<1>l. ASSUME NEW h \in Hosts, Versions!Lapse({h}) PROVE Versions!Next
  BY <1>l DEF Versions!Next
<1>1. ASSUME NEW h \in Hosts, NEW i \in Approvals, Approve(h, i) PROVE Versions!Next
  BY <1>1, ApproveConsents DEF Versions!Next
<1>2. ASSUME NEW h \in Hosts, InstallCommits(h) PROVE Versions!Next
  BY <1>2, CommitUpgrades DEF Versions!Next
<1>3. ASSUME NEW h \in Hosts, NEW p \in Packages, Rollback(h, p) PROVE Versions!Next
  BY <1>3, RollbackRollsBack DEF Versions!Next
<1>4. ASSUME NEW H \in SUBSET Hosts, Dead(H) PROVE Versions!Next
  BY <1>4, DeadLapses DEF Versions!Next
<1>5. ASSUME NEW h \in Hosts, InstallFails(h) PROVE Versions!Next
  <2>1. Ends(h) /\ UNCHANGED registry
    BY <1>5 DEF InstallFails, NoOp, Ends, TypeOK
  <2> QED
    BY <2>1, <1>l, EndLapses
<1>6. ASSUME NEW h \in Hosts, AlreadyInstalled(h) PROVE Versions!Next
  <2>1. Ends(h) /\ UNCHANGED registry
    BY <1>6 DEF AlreadyInstalled, Mutated, Ends, TypeOK
  <2> QED
    BY <2>1, <1>l, EndLapses
<1>7. ASSUME NEW h \in Hosts, NEW p \in Packages, Reconcile(h, p) PROVE Versions!Next
  <2>1. Ends(h) /\ UNCHANGED registry
    BY <1>7 DEF Reconcile, Mutated, Ends, TypeOK
  <2> QED
    BY <2>1, <1>l, EndLapses
<1>8. ASSUME NEW h \in Hosts, InstallStarts(h) PROVE Versions!Next
  <2>1. Ends(h) /\ UNCHANGED registry
    BY <1>8 DEF InstallStarts, Ends, TypeOK
  <2> QED
    BY <2>1, <1>l, EndLapses
<1>9. ASSUME NEW h \in Hosts, Refresh(h) PROVE Versions!Next
  <2>1. Ends(h) /\ UNCHANGED registry
    BY <1>9 DEF Refresh, Ends, TypeOK
  <2> QED
    BY <2>1, <1>l, EndLapses
<1>10. ASSUME NEW h \in Hosts, InstallObserves(h) PROVE UNCHANGED Versions!vars
  BY <1>10, ConsentKept, Stutter DEF InstallObserves, Enters
<1>11. ASSUME NEW h \in Hosts, InstallMoves(h) PROVE UNCHANGED Versions!vars
  BY <1>11, ConsentKept, Stutter DEF InstallMoves
<1>12. ASSUME NEW h \in Hosts, InstallSyncs(h) PROVE UNCHANGED Versions!vars
  BY <1>12, ConsentKept, Stutter DEF InstallSyncs, Enters
<1>13. CASE UNCHANGED <<registry, op>>
  BY <1>13, <1>s
<1>14. ASSUME NEW h \in Hosts, Crash(h) PROVE Versions!Next
  <2>1. {h} \in SUBSET Hosts /\ Dead({h})
    BY <1>14 DEF Crash
  <2> QED
    BY <2>1, <1>4
<1>15. CASE PowerLoss
  BY <1>15, <1>4 DEF PowerLoss
<1> QED
  BY <1>1, <1>2, <1>3, <1>5, <1>6, <1>7, <1>8, <1>9, <1>10, <1>11, <1>12, <1>13, <1>14, <1>15
  DEF Next, LocalNext, vars, AccessChanges, DownloadFails, DownloadStarts, ApprovalRequested,
      ApprovalExpires, Restart, StorageChanges

\* The registry implements PackageVersions: with any number of Hosts that install, roll back
\* and die, every change of a row is an upgrade whose version, Agent and consent are right at
\* the commit, or a rollback (package_installer.rs: observe_verified_install, commit_registry).
THEOREM DeliveryImplementsVersions == Spec => ImplementsVersions
<1>1. Init => Versions!Init
  BY DEF Init, Versions!Init, Versions!Empty, NoRow, NoSlot, NoOp
<1>2. DeliveryInv /\ [Next]_vars => [Versions!Next]_(Versions!vars)
  BY VersionsStep
<1> QED
  BY <1>1, <1>2, DeliveryInvariant, PTL DEF Spec, Versions!Spec, ImplementsVersions
=============================================================================
