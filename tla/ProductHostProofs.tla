------------------------- MODULE ProductHostProofs -------------------------
(***************************************************************************)
(* Proofs about ProductHost for every value of its constants.              *)
(***************************************************************************)
EXTENDS ProductHost, TLAPS

\* The current account is an account or NoOne.
LEMMA CurrentAccountType == TypeOK => CurrentAccount \in Owners
  BY DEF TypeOK, CurrentAccount, Owners, Access

\* Claiming and seeding a typed table yields a typed table.
LEMMA ClaimType ==
  ASSUME rows \in [Sessions -> Row], NEW o \in Owners
  PROVE  ClaimLegacyAndSeed(o) \in [Sessions -> Row]
<1>1. AbsentRow \in Row /\ InactiveRow \in Row
  BY DEF AbsentRow, InactiveRow, Row
<1>2. \A k \in Sessions : k[1] \in Owners /\ k[2] \in Agents /\ <<NoOne, k[2]>> \in Sessions
  BY DEF Sessions, Owners
<1>3. ASSUME NEW table \in [Sessions -> Row] PROVE Seed(table, o) \in [Sessions -> Row]
  BY <1>1 DEF Seed
<1>4. [k \in Sessions |-> IF k[1] = o THEN rows[<<NoOne, k[2]>>]
                          ELSE IF k[1] = NoOne THEN AbsentRow ELSE rows[k]]
        \in [Sessions -> Row]
  BY <1>1, <1>2
<1>5. QED
  BY <1>3, <1>4 DEF ClaimLegacyAndSeed

\* Writing one typed row of a typed table yields a typed table.
LEMMA ActivationType ==
  ASSUME rows \in [Sessions -> Row], NEW o \in Owners, NEW g \in Agents
  PROVE  /\ PrepareActivation(o, g) \in [Sessions -> Row]
         /\ PrepareActivation(o, g)[<<o, g>>].main \in Sessions
<1>1. <<o, g>> \in Sessions
  BY DEF Sessions
<1>2. QED
  BY <1>1 DEF PrepareActivation, Row, StableMainSessionId

\* Recording a runtime state, or failing to, changes nothing else.
LEMMA RecordedWrites ==
  ASSUME NEW o \in Owners, NEW g \in Agents
  PROVE  \A table \in [Sessions -> Row], state \in {"resident", "error"} :
           \A new \in Recorded(table, o, g, state) :
             /\ new \in [Sessions -> Row]
             /\ \A k \in Sessions : k # <<o, g>> => new[k] = table[k]
             /\ new[<<o, g>>].desired = table[<<o, g>>].desired
             /\ new[<<o, g>>].main = table[<<o, g>>].main
<1>1. <<o, g>> \in Sessions
  BY DEF Sessions
<1>2. QED
  BY <1>1 DEF Recorded, MarkRuntime, Row

\* The idle values are typed.
LEMMA IdleTypes ==
  /\ Unverified \in Access /\ Denied \in Access
  /\ IdleBoot \in Boot /\ IdleRestore \in Restore /\ IdleAct \in Act /\ NoEvict \in Evict
<1>1. NoOne \in Owners /\ 0 \in 0..(MaxTime + MaxValid)
  BY ConstantsAssumption DEF Owners
<1>2. (CHOOSE g \in Agents : TRUE) \in Agents
  BY ConstantsAssumption
<1>3. QED
  BY <1>1, <1>2 DEF Unverified, Denied, Access, IdleBoot, Boot, IdleRestore, Restore,
                    IdleAct, Act, NoEvict, Evict

LEMMA InitType == Init => TypeOK
<1> SUFFICES ASSUME Init PROVE TypeOK
  OBVIOUS
<1>1. rows \in [Sessions -> Row]
  <2>1. \A g \in Agents : LegacyRow(g) \subseteq Row
    BY DEF LegacyRow, Row, AbsentRow, InactiveRow, LegacySessionId, Sessions, Owners
  <2>2. PICK legacy \in [Agents -> UNION {LegacyRow(g) : g \in Agents}] :
          /\ \A g \in Agents : legacy[g] \in LegacyRow(g)
          /\ rows = [k \in Sessions |-> IF k[1] = NoOne THEN legacy[k[2]] ELSE AbsentRow]
    BY DEF Init
  <2>3. \A k \in Sessions : k[2] \in Agents
    BY DEF Sessions
  <2>4. AbsentRow \in Row
    BY DEF AbsentRow, Row
  <2>5. QED
    BY <2>1, <2>2, <2>3, <2>4
<1>2. disk \subseteq Sessions
  BY DEF Init, LegacySessionId, Sessions, Owners
<1>3. now \in 0..MaxTime /\ gen \in 0..MaxBoot /\ timer \in [Boots -> 0..(MaxTime + MaxValid)]
  BY ConstantsAssumption DEF Init
<1>4. QED
  BY <1>1, <1>2, <1>3, IdleTypes DEF Init, TypeOK

\* A suspension keeps the types of what it changes.
LEMMA ClearResidencyType ==
  ClearResidency => pins' \subseteq Sessions /\ stalePins' \subseteq pins' /\ overtaken' \subseteq Tasks
  BY DEF ClearResidency

\* One activation step keeps the types of what it changes.
LEMMA ActivateType ==
  ASSUME TypeOK, NEW t \in Tasks, NEW g \in Agents, Activate(t, g)
  PROVE  /\ rows' \in [Sessions -> Row]
         /\ rows'[<<CurrentAccount, g>>].main \in Sessions \cup {NoSession}
         /\ pins' \subseteq Sessions /\ stalePins' \subseteq pins'
         /\ act' \in [Tasks -> Act] /\ overtaken' \subseteq Tasks
<1> DEFINE o == CurrentAccount
           prepared == PrepareActivation(o, g)
           s == prepared[<<o, g>>].main
<1>1. o \in Owners /\ <<o, g>> \in Sessions
  BY CurrentAccountType DEF Sessions
<1>2. prepared \in [Sessions -> Row] /\ s \in Sessions
  BY <1>1, ActivationType DEF TypeOK
<1>3. \A state \in {"resident", "error"} : Recorded(prepared, o, g, state) \subseteq [Sessions -> Row]
  BY <1>1, <1>2, RecordedWrites
<1>4. [st |-> IF s \in disk THEN "gated" ELSE "opening", owner |-> o, agent |-> g,
       sess |-> s] \in Act
  BY <1>1, <1>2 DEF Act
<1> HIDE DEF s, prepared, o
<1>5. rows' \in [Sessions -> Row]
  BY <1>2, <1>3 DEF Activate, TypeOK, o, prepared
<1>6. act' \in [Tasks -> Act] /\ overtaken' \subseteq Tasks
  BY <1>4 DEF Activate, TypeOK, o, prepared, s
<1>7. pins' \subseteq Sessions /\ stalePins' \subseteq pins'
  BY <1>2 DEF Activate, TypeOK, o, prepared, s
<1>8. rows'[<<o, g>>].main \in Sessions \cup {NoSession}
  BY <1>1, <1>5 DEF Row
<1>9. QED
  BY <1>5, <1>6, <1>7, <1>8 DEF o

\* Every step keeps the types.
LEMMA NextType ==
  ASSUME TypeOK, ActShape, [Next]_vars
  PROVE  TypeOK'
<1> USE ConstantsAssumption, IdleTypes
<1>1. CASE BootstrapBegin
  <2>1. gen + 1 \in Boots /\ [st |-> "waiting", prev |-> CurrentAccount] \in Boot
    BY <1>1, CurrentAccountType DEF BootstrapBegin, MayBootstrap, TypeOK, Boots, Boot
  <2>2. QED
    BY <1>1, <2>1 DEF BootstrapBegin, MayBootstrap, TypeOK, Boots
<1>2. CASE BootstrapSignOut
  <2>1. gen' \in 0..MaxBoot
    BY <1>2 DEF BootstrapSignOut, MayBootstrap, TypeOK
  <2>2. QED
    BY <1>2, <2>1, ClearResidencyType DEF BootstrapSignOut, Suspend, TypeOK
<1>3. CASE RequestRejected
  BY <1>3, ClearResidencyType DEF RequestRejected, Suspend, TypeOK
<1>4. CASE Tick
  BY <1>4 DEF Tick, TypeOK
<1>5. CASE EvictEnds
  BY <1>5 DEF EvictEnds, TypeOK
<1>6. CASE HostRestarts
  <2>1. gen' \in 0..MaxBoot /\ timer' \in [Boots -> 0..(MaxTime + MaxValid)]
    BY <1>6 DEF HostRestarts
  <2>2. QED
    BY <1>6, <2>1 DEF HostRestarts, TypeOK
<1>7. ASSUME NEW b \in Boots, BootstrapGranted(b) PROVE TypeOK'
  <2>1. PICK a \in Accounts, d \in 1..MaxValid :
          /\ access' = Granted(a, now + d)
          /\ IF Switched(b, a)
             THEN ClearResidency ELSE UNCHANGED <<pins, overtaken, stalePins>>
          /\ rows' = ClaimLegacyAndSeed(a)
          /\ restore' = IF Switched(b, a) \/ ~restoreStarted
                        THEN [restore EXCEPT ![b].st = "spawned"] ELSE restore
          /\ restoreStarted' = TRUE
          /\ timer' = SpawnAccessExpiry(b, now + d)
    BY <1>7 DEF BootstrapGranted
  <2>2. now + d \in 0..(MaxTime + MaxValid)
    BY DEF TypeOK
  <2>3. access' \in Access /\ a \in Owners
    BY <2>1, <2>2 DEF Granted, Access, Owners
  <2>4. rows' \in [Sessions -> Row]
    BY <2>1, <2>3, ClaimType DEF TypeOK
  <2>5. restore' \in [Boots -> Restore]
    BY <2>1 DEF TypeOK, Restore
  <2>6. timer' \in [Boots -> 0..(MaxTime + MaxValid)] /\ boot' \in [Boots -> Boot]
    BY <1>7, <2>1, <2>2 DEF SpawnAccessExpiry, TypeOK, BootstrapGranted, Answered
  <2>7. pins' \subseteq Sessions /\ stalePins' \subseteq pins' /\ overtaken' \subseteq Tasks
    BY <2>1, ClearResidencyType DEF TypeOK
  <2>8. QED
    BY <1>7, <2>1, <2>3, <2>4, <2>5, <2>6, <2>7 DEF BootstrapGranted, TypeOK
<1>8. ASSUME NEW b \in Boots, BootstrapRefused(b) PROVE TypeOK'
  BY <1>8, ClearResidencyType DEF BootstrapRefused, Answered, Suspend, TypeOK
<1>9. ASSUME NEW b \in Boots, TimerFires(b) PROVE TypeOK'
  <2>1. timer' \in [Boots -> 0..(MaxTime + MaxValid)]
    BY <1>9 DEF TimerFires, TypeOK
  <2>2. pins' \subseteq Sessions /\ stalePins' \subseteq pins' /\ overtaken' \subseteq Tasks
        /\ restoreStarted' \in BOOLEAN
    BY <1>9, ClearResidencyType DEF TimerFires, Suspend, TypeOK
  <2>3. QED
    BY <1>9, <2>1, <2>2 DEF TimerFires, TypeOK
<1>10. ASSUME NEW b \in Boots, RestoreBegins(b) PROVE TypeOK'
  <2>1. [st |-> "running", todo |-> {g \in Agents : Running(CurrentAccount, g)}] \in Restore
    BY DEF Restore
  <2>2. QED
    BY <1>10, <2>1 DEF RestoreBegins, TypeOK
<1>11. ASSUME NEW b \in Boots, RestoreNext(b) PROVE TypeOK'
  <2>1. PICK g \in restore[b].todo :
          /\ restore' = [restore EXCEPT ![b].todo = @ \ {g}]
          /\ \/ Activate(b, g)
             \/ /\ CurrentAccount = NoOne
                /\ UNCHANGED <<rows, pins, act, overtaken, stalePins>>
    BY <1>11 DEF RestoreNext
  <2>2. g \in Agents /\ restore' \in [Boots -> Restore] /\ b \in Tasks
    BY <2>1 DEF TypeOK, Restore, Tasks
  <2>3. /\ rows' \in [Sessions -> Row]
        /\ pins' \subseteq Sessions /\ stalePins' \subseteq pins'
        /\ act' \in [Tasks -> Act] /\ overtaken' \subseteq Tasks
    BY <2>1, <2>2, ActivateType DEF TypeOK
  <2>4. cpu' \in Boots \cup {NoTask}
    BY <1>11 DEF RestoreNext
  <2>5. QED
    BY <1>11, <2>2, <2>3, <2>4 DEF RestoreNext, TypeOK
<1>12. ASSUME NEW b \in Boots, RestoreEnds(b) PROVE TypeOK'
  BY <1>12 DEF RestoreEnds, TypeOK
<1>13. ASSUME NEW c \in Callers, NEW g \in Agents, CallActivate(c, g) PROVE TypeOK'
  <2>1. c \in Tasks
    BY DEF Tasks
  <2>2. QED
    BY <1>13, <2>1, ActivateType DEF CallActivate, TypeOK
<1>14. ASSUME NEW t \in Tasks, ActivationFails(t)
       PROVE  /\ rows' \in [Sessions -> Row] /\ act' \in [Tasks -> Act]
              /\ cpu' \in Boots \cup {NoTask}
  <2>1. act[t].owner \in Owners /\ act[t].agent \in Agents
    BY DEF TypeOK, Act
  <2>2. QED
    BY <1>14, <2>1, RecordedWrites DEF ActivationFails, Ends, TypeOK
<1>15. ASSUME NEW t \in Tasks, Gate(t) PROVE TypeOK'
  <2>1. [act EXCEPT ![t].st = "gated"] \in [Tasks -> Act]
    BY DEF TypeOK, Act
  <2>2. /\ rows' \in [Sessions -> Row] /\ act' \in [Tasks -> Act]
        /\ cpu' \in Boots \cup {NoTask}
    BY <1>14, <1>15, <2>1 DEF Gate, TypeOK
  <2>3. pins' \subseteq Sessions /\ stalePins' \subseteq pins' /\ overtaken' \subseteq Tasks
        /\ restoreStarted' \in BOOLEAN
    BY <1>15, ClearResidencyType DEF Gate, Suspend, TypeOK
  <2>4. QED
    BY <1>15, <2>2, <2>3 DEF Gate, TypeOK
<1>16. ASSUME NEW t \in Tasks, Register(t) PROVE TypeOK'
  <2>1. act[t].sess \in Sessions
    BY <1>16 DEF Register, ActShape, InFlight
  <2>2. act' \in [Tasks -> Act]
    BY <1>16 DEF Register, TypeOK, Act
  <2>3. QED
    BY <1>16, <2>1, <2>2 DEF Register, TypeOK
<1>17. ASSUME NEW t \in Tasks, OpenFails(t) PROVE TypeOK'
  BY <1>14, <1>17 DEF OpenFails, TypeOK
<1>18. ASSUME NEW t \in Tasks, Activated(t) PROVE TypeOK'
  <2>1. act[t].sess \in Sessions /\ act[t].owner \in Owners /\ act[t].agent \in Agents
    BY <1>18 DEF Activated, ActShape, InFlight, TypeOK, Act
  <2>2. rows' \in [Sessions -> Row]
    BY <1>18, <2>1, RecordedWrites DEF Activated, TypeOK
  <2>3. act' \in [Tasks -> Act] /\ cpu' \in Boots \cup {NoTask}
    BY <1>18 DEF Activated, Ends, TypeOK
  <2>4. QED
    BY <1>18, <2>1, <2>2, <2>3 DEF Activated, TypeOK
<1>19. ASSUME NEW s \in Sessions, EvictBegins(s) PROVE TypeOK'
  BY <1>19 DEF EvictBegins, TypeOK, Evict
<1>20. ASSUME NEW s \in Sessions, SessionGone(s) PROVE TypeOK'
  BY <1>20 DEF SessionGone, TypeOK
<1>21. CASE UNCHANGED vars
  BY <1>21 DEF vars, TypeOK
<1>22. QED
  BY <1>1, <1>2, <1>3, <1>4, <1>5, <1>6, <1>7, <1>8, <1>9, <1>10, <1>11, <1>12, <1>13,
     <1>15, <1>16, <1>17, <1>18, <1>19, <1>20, <1>21 DEF Next

-----------------------------------------------------------------------------
(* What each write to the registry keeps *)

\* Keys of the registry are pairs.
LEMMA Keys ==
  /\ \A k \in Sessions : k[1] \in Owners /\ k[2] \in Agents /\ k = <<k[1], k[2]>>
  /\ \A o \in Owners, g \in Agents : <<o, g>> \in Sessions
  BY DEF Sessions

\* Every row of an account that has a session keeps it, and keeps wanting to run.
RowsKept ==
    \A k \in Sessions : k[1] # NoOne =>
        /\ rows[k].main # NoSession => rows'[k].main = rows[k].main
        /\ rows[k].desired = "running" => rows'[k].desired = "running"

\* Claiming the legacy rows and seeding keep the registry facts.
LEMMA ClaimKeeps ==
  ASSUME TypeOK, RowShape, MainSessionsUnique, NEW a \in Accounts,
         rows' = ClaimLegacyAndSeed(a)
  PROVE  RowShape' /\ MainSessionsUnique' /\ RowsKept /\ \A k \in Sessions : KeepsActivation(k)
<1> DEFINE claimed == [k \in Sessions |-> IF k[1] = a THEN rows[<<NoOne, k[2]>>]
                                          ELSE IF k[1] = NoOne THEN AbsentRow ELSE rows[k]]
<1>1. a # NoOne /\ a \in Owners /\ NoOne \in Owners
  BY ConstantsAssumption DEF Owners
<1>2. \A k \in Sessions : k # NoSession /\ LegacySessionId(k[2]) # NoSession
  BY <1>1, Keys, ConstantsAssumption DEF LegacySessionId
<1>3. CASE \A g \in Agents : rows[<<a, g>>].desired = "absent"
  <2>1. \A k \in Sessions :
          rows'[k] = IF k[1] = a
                     THEN IF rows[<<NoOne, k[2]>>].desired = "absent"
                          THEN InactiveRow ELSE rows[<<NoOne, k[2]>>]
                     ELSE IF k[1] = NoOne THEN AbsentRow ELSE rows[k]
    BY <1>1, <1>3 DEF ClaimLegacyAndSeed, Seed, AbsentRow
  <2>2. RowShape'
    <3> SUFFICES ASSUME NEW k \in Sessions
                 PROVE  /\ rows'[k].main \in {NoSession, k, LegacySessionId(k[2])}
                        /\ rows'[k].desired = "running" => rows'[k].main # NoSession
                        /\ rows'[k].desired = "absent" => rows'[k].main = NoSession
      BY DEF RowShape
    <3>1. <<NoOne, k[2]>> \in Sessions /\ <<NoOne, k[2]>>[2] = k[2]
      BY <1>1, Keys
    <3>2. rows[<<NoOne, k[2]>>].main \in {NoSession, LegacySessionId(k[2])}
      BY <3>1 DEF RowShape, LegacySessionId
    <3>3. CASE k[1] = a
      BY <2>1, <3>1, <3>2, <3>3 DEF RowShape, InactiveRow
    <3>4. CASE k[1] # a
      <4>1. rows'[k] = AbsentRow \/ rows'[k] = rows[k]
        BY <2>1, <3>4
      <4>2. QED
        BY <4>1 DEF RowShape, AbsentRow
    <3>5. QED
      BY <3>3, <3>4
  <2>3. MainSessionsUnique'
    <3> SUFFICES ASSUME NEW k \in Sessions, NEW l \in Sessions,
                        rows'[k].main = rows'[l].main, rows'[k].main # NoSession
                 PROVE  k = l
      BY DEF MainSessionsUnique
    <3>1. ASSUME NEW m \in Sessions, rows'[m].main # NoSession
          PROVE  \/ m[1] = a /\ rows'[m].main = rows[<<NoOne, m[2]>>].main
                 \/ m[1] \notin {a, NoOne} /\ rows'[m].main = rows[m].main
      BY <2>1, <3>1 DEF AbsentRow, InactiveRow
    <3>2. <<NoOne, k[2]>> \in Sessions /\ <<NoOne, l[2]>> \in Sessions
      BY <1>1, Keys
    <3>3. QED
      BY <1>1, <3>1, <3>2, Keys DEF MainSessionsUnique
  <2>4. RowsKept
    <3> SUFFICES ASSUME NEW k \in Sessions, k[1] # NoOne
                 PROVE  /\ rows[k].main # NoSession => rows'[k].main = rows[k].main
                        /\ rows[k].desired = "running" => rows'[k].desired = "running"
      BY DEF RowsKept
    <3>1. CASE k[1] = a
      <4>1. rows[k].desired = "absent" /\ rows[k].main = NoSession
        BY <1>3, <3>1, Keys DEF RowShape
      <4>2. QED
        BY <4>1
    <3>2. CASE k[1] # a
      BY <2>1, <3>2
    <3>3. QED
      BY <3>1, <3>2
  <2>5. ASSUME NEW k \in Sessions PROVE KeepsActivation(k)
    <3>1. CASE k[1] = NoOne
      <4>1. <<a, k[2]>> \in Sessions /\ <<a, k[2]>>[1] = a /\ <<a, k[2]>>[2] = k[2]
        BY <1>1, Keys
      <4>2. rows[k].desired = "running" => rows'[<<a, k[2]>>] = rows[k]
        BY <2>1, <3>1, <4>1, Keys
      <4>3. QED
        BY <1>1, <3>1, <4>2 DEF KeepsActivation
    <3>2. CASE k[1] # NoOne
      BY <2>4, <3>2, Keys DEF KeepsActivation, RowsKept, RowShape
    <3>3. QED
      BY <3>1, <3>2
  <2>6. QED
    BY <2>2, <2>3, <2>4, <2>5
<1>4. CASE ~ \A g \in Agents : rows[<<a, g>>].desired = "absent"
  <2>1. \A k \in Sessions :
          rows'[k] = IF k[1] = a /\ rows[k].desired = "absent" THEN InactiveRow ELSE rows[k]
    BY <1>4 DEF ClaimLegacyAndSeed, Seed
  <2>2. \A k \in Sessions : rows'[k].main = rows[k].main
                            /\ (rows[k].desired = "running" => rows'[k].desired = "running")
                            /\ (rows'[k].desired \in {"absent", "running"}
                                  => rows'[k].desired = rows[k].desired)
    BY <2>1 DEF RowShape, InactiveRow
  <2>3. RowShape' /\ MainSessionsUnique' /\ RowsKept
    BY <2>2 DEF RowShape, MainSessionsUnique, RowsKept
  <2>4. \A k \in Sessions : KeepsActivation(k)
    BY <2>2, Keys DEF KeepsActivation
  <2>5. QED
    BY <2>3, <2>4
<1>5. QED
  BY <1>3, <1>4

\* So does any write that leaves every row but <<o, g>> alone, keeps the session
\* that row has or gives it its own, and leaves it wanting to run.
LEMMA WriteKeeps ==
  ASSUME TypeOK, RowShape, MainSessionsUnique, NEW o \in Accounts, NEW g \in Agents,
         rows' \in [Sessions -> Row],
         \A k \in Sessions : k # <<o, g>> => rows'[k] = rows[k],
         rows'[<<o, g>>].desired = "running",
         rows'[<<o, g>>].main = IF rows[<<o, g>>].main = NoSession
                                THEN <<o, g>> ELSE rows[<<o, g>>].main
  PROVE  RowShape' /\ MainSessionsUnique' /\ RowsKept /\ \A k \in Sessions : KeepsActivation(k)
<1> DEFINE key == <<o, g>>
<1>1. key \in Sessions /\ key[1] = o /\ key[2] = g /\ o # NoOne /\ NoOne \in Owners /\ o \in Owners
  BY ConstantsAssumption, Keys DEF Owners
<1>2. \A k \in Sessions : k # NoSession
  BY ConstantsAssumption
<1>3. RowShape'
  BY <1>1, <1>2 DEF RowShape, LegacySessionId
<1>4. RowsKept
  BY <1>1, <1>2 DEF RowsKept, RowShape
<1>5. \A k \in Sessions : KeepsActivation(k)
  BY <1>1, <1>2, Keys DEF KeepsActivation, RowShape
<1>6. \A k \in Sessions : k # key => rows[k].main # key
  BY <1>1, <1>2, Keys DEF RowShape, LegacySessionId
<1>7. MainSessionsUnique'
  BY <1>1, <1>2, <1>6 DEF MainSessionsUnique
<1>8. QED
  BY <1>3, <1>4, <1>5, <1>7

\* An activation step is such a write for the current account, or none.
LEMMA ActivateWrites ==
  ASSUME TypeOK, RowShape, MainSessionsUnique, GrantedShape,
         NEW t \in Tasks, NEW g \in Agents, Activate(t, g)
  PROVE  /\ CurrentAccount \in Accounts /\ access.st = "granted"
         /\ access.account = CurrentAccount
         /\ \/ rows' = rows
            \/ /\ rows'[<<CurrentAccount, g>>].desired = "running"
               /\ rows'[<<CurrentAccount, g>>].main \in Sessions
         /\ RowShape' /\ MainSessionsUnique' /\ RowsKept
         /\ \A k \in Sessions : KeepsActivation(k)
<1> DEFINE o == CurrentAccount
           prepared == PrepareActivation(o, g)
<1>1. o \in Accounts /\ access.st = "granted" /\ access.account = o
  BY DEF Activate, CurrentAccount, GrantedShape
<1>2. <<o, g>> \in Sessions /\ o \in Owners
  BY <1>1, Keys DEF Owners
<1>3. prepared \in [Sessions -> Row] /\ prepared[<<o, g>>].main \in Sessions
  BY <1>2, ActivationType DEF TypeOK
<1>4. /\ \A k \in Sessions : k # <<o, g>> => prepared[k] = rows[k]
      /\ prepared[<<o, g>>].desired = "running"
      /\ prepared[<<o, g>>].main = IF rows[<<o, g>>].main = NoSession
                                   THEN <<o, g>> ELSE rows[<<o, g>>].main
  BY <1>2 DEF PrepareActivation, TypeOK, StableMainSessionId
<1>5. \/ rows' = rows \/ rows' = prepared
      \/ \E state \in {"resident", "error"} : rows' \in Recorded(prepared, o, g, state)
  BY DEF Activate
<1> HIDE DEF o, prepared
<1>6. CASE rows' = rows
  BY <1>1, <1>6, Keys DEF RowShape, MainSessionsUnique, RowsKept, KeepsActivation, o
<1>7. CASE rows' # rows
  <2>1. /\ rows' \in [Sessions -> Row]
        /\ \A k \in Sessions : k # <<o, g>> => rows'[k] = prepared[k]
        /\ rows'[<<o, g>>].desired = prepared[<<o, g>>].desired
        /\ rows'[<<o, g>>].main = prepared[<<o, g>>].main
    BY <1>2, <1>3, <1>5, <1>7, RecordedWrites
  <2>2. RowShape' /\ MainSessionsUnique' /\ RowsKept /\ \A k \in Sessions : KeepsActivation(k)
    BY <1>1, <1>4, <2>1, WriteKeeps
  <2>3. QED
    BY <1>1, <1>3, <1>4, <2>1, <2>2 DEF o
<1>8. QED
  BY <1>6, <1>7

\* Recording the outcome of an activation in flight is such a write.
LEMMA MarkWrites ==
  ASSUME TypeOK, RowShape, MainSessionsUnique, ActShape, NEW t \in Tasks, InFlight(t),
         NEW state \in {"resident", "error"},
         rows' \in Recorded(rows, act[t].owner, act[t].agent, state)
  PROVE  RowShape' /\ MainSessionsUnique' /\ RowsKept /\ \A k \in Sessions : KeepsActivation(k)
<1> DEFINE o == act[t].owner
           g == act[t].agent
<1>1. o \in Accounts /\ o \in Owners /\ g \in Agents /\ <<o, g>> \in Sessions
  BY Keys DEF ActShape, TypeOK, Act, Owners
<1>2. rows[<<o, g>>].desired = "running" /\ rows[<<o, g>>].main # NoSession
  BY <1>1, ConstantsAssumption DEF ActShape
<1>3. /\ rows' \in [Sessions -> Row]
      /\ \A k \in Sessions : k # <<o, g>> => rows'[k] = rows[k]
      /\ rows'[<<o, g>>].desired = rows[<<o, g>>].desired
      /\ rows'[<<o, g>>].main = rows[<<o, g>>].main
  BY <1>1, RecordedWrites DEF TypeOK
<1> HIDE DEF o, g
<1>4. QED
  BY <1>1, <1>2, <1>3, WriteKeeps

-----------------------------------------------------------------------------
(* The registry invariant *)

\* Initially it holds.
LEMMA InitRegistry == Init => RegistryInv
<1> SUFFICES ASSUME Init PROVE RegistryInv
  OBVIOUS
<1>1. TypeOK
  BY InitType
<1>2. PICK legacy \in [Agents -> UNION {LegacyRow(g) : g \in Agents}] :
        /\ \A g \in Agents : legacy[g] \in LegacyRow(g)
        /\ rows = [k \in Sessions |-> IF k[1] = NoOne THEN legacy[k[2]] ELSE AbsentRow]
  BY DEF Init
<1>3. \A k \in Sessions : k[2] \in Agents /\ k # NoSession /\ LegacySessionId(k[2]) # NoSession
  BY Keys, ConstantsAssumption DEF LegacySessionId, Owners
<1>4. \A k \in Sessions : rows[k] \in LegacyRow(k[2]) /\ (k[1] # NoOne => rows[k] = AbsentRow)
  BY <1>2, <1>3 DEF LegacyRow
<1>5. RowShape
  BY <1>3, <1>4 DEF RowShape, LegacyRow, AbsentRow, InactiveRow
<1>6. ASSUME NEW k \in Sessions, rows[k].main # NoSession
      PROVE  k[1] = NoOne /\ rows[k].main = <<NoOne, k[2]>>
  BY <1>4, <1>6 DEF LegacyRow, AbsentRow, InactiveRow, LegacySessionId
<1>7. MainSessionsUnique
  BY <1>6, Keys DEF MainSessionsUnique
<1>8. ActShape /\ GrantedShape
  BY DEF Init, ActShape, InFlight, IdleAct, GrantedShape, Unverified
<1>9. QED
  BY <1>1, <1>5, <1>7, <1>8 DEF RegistryInv

\* Every step keeps the shape of the registry and what accounts have in it.
LEMMA RegistryStep ==
  ASSUME RegistryInv, [Next]_vars
  PROVE  RowShape' /\ MainSessionsUnique' /\ RowsKept /\ \A k \in Sessions : KeepsActivation(k)
<1> DEFINE Goal == RowShape' /\ MainSessionsUnique' /\ RowsKept
                   /\ \A k \in Sessions : KeepsActivation(k)
<1>1. CASE UNCHANGED rows
  BY <1>1, Keys DEF RegistryInv, RowShape, MainSessionsUnique, RowsKept, KeepsActivation
<1>2. ASSUME NEW b \in Boots, BootstrapGranted(b) PROVE Goal
  BY <1>2, ClaimKeeps DEF RegistryInv, BootstrapGranted
<1>3. ASSUME NEW c \in Callers, NEW g \in Agents, CallActivate(c, g) PROVE Goal
  BY <1>3, ActivateWrites DEF RegistryInv, CallActivate, Tasks
<1>4. ASSUME NEW b \in Boots, RestoreNext(b) PROVE Goal
  <2>1. PICK g \in restore[b].todo : Activate(b, g) \/ UNCHANGED rows
    BY <1>4 DEF RestoreNext
  <2>2. g \in Agents /\ b \in Tasks
    BY DEF RegistryInv, TypeOK, Restore, Tasks
  <2>3. QED
    BY <1>1, <2>1, <2>2, ActivateWrites DEF RegistryInv
<1>5. ASSUME NEW t \in Tasks, Gate(t) PROVE Goal
  BY <1>1, <1>5, MarkWrites DEF RegistryInv, Gate, ActivationFails, InFlight
<1>6. ASSUME NEW t \in Tasks, OpenFails(t) PROVE Goal
  BY <1>6, MarkWrites DEF RegistryInv, OpenFails, ActivationFails, InFlight
<1>7. ASSUME NEW t \in Tasks, Activated(t) PROVE Goal
  BY <1>7, MarkWrites DEF RegistryInv, Activated, InFlight
<1>8. CASE UNCHANGED vars
  BY <1>1, <1>8 DEF vars
<1>9. CASE BootstrapBegin \/ BootstrapSignOut \/ RequestRejected \/ Tick \/ EvictEnds \/ HostRestarts
  BY <1>1, <1>9 DEF BootstrapBegin, BootstrapSignOut, RequestRejected, Tick, EvictEnds, HostRestarts
<1>10. ASSUME NEW b \in Boots, BootstrapRefused(b) \/ TimerFires(b) \/ RestoreBegins(b) \/ RestoreEnds(b)
       PROVE  Goal
  BY <1>1, <1>10 DEF BootstrapRefused, TimerFires, RestoreBegins, RestoreEnds
<1>11. ASSUME NEW t \in Tasks, Register(t) PROVE Goal
  BY <1>1, <1>11 DEF Register
<1>12. ASSUME NEW s \in Sessions, EvictBegins(s) \/ SessionGone(s) PROVE Goal
  BY <1>1, <1>12 DEF EvictBegins, SessionGone
<1>13. Goal
  BY <1>2, <1>3, <1>4, <1>5, <1>6, <1>7, <1>8, <1>9, <1>10, <1>11, <1>12 DEF Next
<1>14. QED
  BY <1>13

\* What one step does to the activation of a task: nothing, progress of the same
\* activation, its end, or a new one that the current account begins.
ActMoves(t) ==
    \/ act'[t] = act[t]
    \/ /\ act'[t].st = "idle" \/ (act'[t].st # "idle" /\ InFlight(t))
       /\ act'[t].st # "idle" => /\ act'[t].owner = act[t].owner
                                 /\ act'[t].agent = act[t].agent
                                 /\ act'[t].sess = act[t].sess
    \/ /\ act'[t].owner = CurrentAccount /\ CurrentAccount \in Accounts
       /\ rows'[<<CurrentAccount, act'[t].agent>>].desired = "running"
       /\ rows'[<<CurrentAccount, act'[t].agent>>].main = act'[t].sess
       /\ act'[t].sess \in Sessions
       /\ access.st = "granted" /\ access' = access /\ t \notin overtaken'
       /\ access.account = CurrentAccount

\* An activation step begins at most the activation of its own task.
LEMMA ActivateMoves ==
  ASSUME RegistryInv, NEW t \in Tasks, NEW g \in Agents, Activate(t, g), access' = access,
         NEW u \in Tasks
  PROVE  ActMoves(u)
<1> DEFINE o == CurrentAccount
           prepared == PrepareActivation(o, g)
           s == prepared[<<o, g>>].main
           new == [st |-> IF s \in disk THEN "gated" ELSE "opening",
                   owner |-> o, agent |-> g, sess |-> s]
<1>1. o \in Accounts /\ access.st = "granted" /\ access.account = o
  BY ActivateWrites DEF RegistryInv
<1>2. \/ act' = act
      \/ act' = [act EXCEPT ![t] = new] /\ rows' = prepared
  BY DEF Activate
<1>3. act \in [Tasks -> Act] /\ t \notin overtaken'
  BY DEF RegistryInv, TypeOK, Activate
<1>4. <<o, g>> \in Sessions /\ prepared[<<o, g>>].desired = "running" /\ s \in Sessions
  BY <1>1, Keys, ActivationType DEF Owners, RegistryInv, TypeOK, PrepareActivation
<1>5. CASE act'[u] = act[u]
  BY <1>5 DEF ActMoves
<1>6. CASE act'[u] # act[u]
  <2>1. u = t /\ act'[u] = new /\ rows' = prepared
    BY <1>2, <1>3, <1>6
  <2>2. act'[u].owner = o /\ act'[u].agent = g /\ act'[u].sess = s
    BY <2>1
  <2>3. rows'[<<o, g>>].desired = "running" /\ rows'[<<o, g>>].main = s /\ s \in Sessions
    BY <1>4, <2>1
  <2> HIDE DEF new, s, prepared
  <2>4. QED
    BY <1>1, <1>3, <2>1, <2>2, <2>3 DEF ActMoves
<1>7. QED
  BY <1>5, <1>6

\* So does every step.
LEMMA ActsMove ==
  ASSUME RegistryInv, [Next]_vars, NEW u \in Tasks
  PROVE  ActMoves(u)
<1> USE DEF RegistryInv
<1>1. CASE UNCHANGED act
  BY <1>1 DEF ActMoves
<1>2. ASSUME NEW t \in Tasks, act' = [act EXCEPT ![t] = IdleAct] PROVE ActMoves(u)
  BY <1>2 DEF ActMoves, IdleAct, TypeOK
<1>3. ASSUME NEW c \in Callers, NEW g \in Agents, CallActivate(c, g) PROVE ActMoves(u)
  BY <1>3, ActivateMoves DEF CallActivate, Tasks
<1>4. ASSUME NEW b \in Boots, RestoreNext(b) PROVE ActMoves(u)
  <2>1. PICK g \in restore[b].todo : Activate(b, g) \/ UNCHANGED act
    BY <1>4 DEF RestoreNext
  <2>2. g \in Agents /\ b \in Tasks
    BY DEF TypeOK, Restore, Tasks
  <2>3. QED
    BY <1>1, <1>4, <2>1, <2>2, ActivateMoves DEF RestoreNext
<1>5. ASSUME NEW t \in Tasks, InFlight(t), NEW st \in {"gated", "open"},
             act' = [act EXCEPT ![t].st = st]
      PROVE  ActMoves(u)
  <2>1. CASE u = t
    <3>1. act[t] \in Act /\ act'[t] = [act[t] EXCEPT !.st = st]
      BY <1>5 DEF TypeOK
    <3>2. act'[t].st = st /\ act'[t].owner = act[t].owner /\ act'[t].agent = act[t].agent
          /\ act'[t].sess = act[t].sess
      BY <3>1 DEF Act
    <3>3. QED
      BY <1>5, <2>1, <3>2 DEF ActMoves
  <2>2. CASE u # t
    BY <1>5, <2>2 DEF ActMoves, TypeOK
  <2>3. QED
    BY <2>1, <2>2
<1>6. ASSUME NEW t \in Tasks, Gate(t) \/ Register(t) \/ OpenFails(t) \/ Activated(t)
      PROVE  ActMoves(u)
  BY <1>2, <1>5, <1>6 DEF Gate, Register, OpenFails, Activated, ActivationFails, Ends, InFlight
<1>7. CASE HostRestarts
  BY <1>7 DEF HostRestarts, ActMoves, IdleAct
<1>8. CASE UNCHANGED vars
  BY <1>1, <1>8 DEF vars
<1>9. CASE BootstrapBegin \/ BootstrapSignOut \/ RequestRejected \/ Tick \/ EvictEnds
  BY <1>1, <1>9 DEF BootstrapBegin, BootstrapSignOut, RequestRejected, Tick, EvictEnds
<1>10. ASSUME NEW b \in Boots, \/ BootstrapGranted(b) \/ BootstrapRefused(b) \/ TimerFires(b)
                               \/ RestoreBegins(b) \/ RestoreEnds(b)
       PROVE  ActMoves(u)
  BY <1>1, <1>10 DEF BootstrapGranted, BootstrapRefused, TimerFires, RestoreBegins, RestoreEnds
<1>11. ASSUME NEW s \in Sessions, EvictBegins(s) \/ SessionGone(s) PROVE ActMoves(u)
  BY <1>1, <1>11 DEF EvictBegins, SessionGone
<1>12. QED
  BY <1>3, <1>4, <1>6, <1>7, <1>8, <1>9, <1>10, <1>11 DEF Next

\* What each step does to the access: nothing, a grant, or its withdrawal.
LEMMA AccessMoves ==
  ASSUME [Next]_vars
  PROVE  \/ access' = access
         \/ \E b \in Boots : BootstrapGranted(b)
         \/ access' \in {Denied, Unverified}
<1>1. CASE UNCHANGED vars
  BY <1>1 DEF vars
<1>2. CASE BootstrapBegin \/ BootstrapSignOut \/ RequestRejected \/ Tick \/ EvictEnds \/ HostRestarts
  BY <1>2 DEF BootstrapBegin, BootstrapSignOut, RequestRejected, Tick, EvictEnds, HostRestarts
<1>3. ASSUME NEW b \in Boots, \/ BootstrapGranted(b) \/ BootstrapRefused(b) \/ TimerFires(b)
                              \/ RestoreBegins(b) \/ RestoreNext(b) \/ RestoreEnds(b)
      PROVE  \/ access' = access
             \/ \E c \in Boots : BootstrapGranted(c)
             \/ access' \in {Denied, Unverified}
  BY <1>3 DEF BootstrapRefused, TimerFires, RestoreBegins, RestoreNext, RestoreEnds
<1>4. ASSUME NEW c \in Callers, NEW g \in Agents, CallActivate(c, g) PROVE access' = access
  BY <1>4 DEF CallActivate
<1>5. ASSUME NEW t \in Tasks, Gate(t) \/ Register(t) \/ OpenFails(t) \/ Activated(t)
      PROVE  access' = access
  BY <1>5 DEF Gate, Register, OpenFails, Activated
<1>6. ASSUME NEW s \in Sessions, EvictBegins(s) \/ SessionGone(s) PROVE access' = access
  BY <1>6 DEF EvictBegins, SessionGone
<1>7. QED
  BY <1>1, <1>2, <1>3, <1>4, <1>5, <1>6 DEF Next

\* Every step keeps the registry invariant.
LEMMA RegistryInvStep ==
  ASSUME RegistryInv, [Next]_vars
  PROVE  RegistryInv'
<1>1. TypeOK'
  BY NextType DEF RegistryInv
<1>2. RowShape' /\ MainSessionsUnique' /\ RowsKept
  BY RegistryStep
<1>3. ActShape'
  <2> SUFFICES ASSUME NEW t \in Tasks, act'[t].st # "idle"
               PROVE  /\ act'[t].owner \in Accounts
                      /\ act'[t].sess \in Sessions
                      /\ rows'[<<act'[t].owner, act'[t].agent>>].desired = "running"
                      /\ rows'[<<act'[t].owner, act'[t].agent>>].main = act'[t].sess
    BY DEF ActShape, InFlight
  <2>1. CASE /\ InFlight(t) /\ act'[t].owner = act[t].owner
             /\ act'[t].agent = act[t].agent /\ act'[t].sess = act[t].sess
    <3> DEFINE k == <<act[t].owner, act[t].agent>>
    <3>1. /\ act[t].owner \in Accounts /\ act[t].sess \in Sessions
          /\ rows[k].desired = "running" /\ rows[k].main = act[t].sess
      BY <2>1 DEF RegistryInv, ActShape
    <3>2. k \in Sessions /\ k[1] # NoOne /\ rows[k].main # NoSession
      BY <3>1, Keys, ConstantsAssumption DEF Owners, RegistryInv, TypeOK, Act
    <3> HIDE DEF k
    <3>3. rows'[k].desired = "running" /\ rows'[k].main = act[t].sess
      BY <1>2, <3>1, <3>2 DEF RowsKept
    <3>4. QED
      BY <2>1, <3>1, <3>3 DEF k
  <2>2. QED
    BY <2>1, ActsMove DEF ActMoves, InFlight
<1>4. GrantedShape'
  <2>1. CASE access' = access
    BY <2>1 DEF RegistryInv, GrantedShape
  <2>2. ASSUME NEW b \in Boots, BootstrapGranted(b) PROVE GrantedShape'
    BY <2>2 DEF BootstrapGranted, Granted, GrantedShape
  <2>3. CASE access' \in {Denied, Unverified}
    BY <2>3 DEF Denied, Unverified, GrantedShape
  <2>4. QED
    BY <2>1, <2>2, <2>3, AccessMoves
<1>5. QED
  BY <1>1, <1>2, <1>3, <1>4 DEF RegistryInv

\* Every registry fact in every reachable state.
LEMMA RegistryInvariant == Spec => []RegistryInv
<1>1. RegistryInv /\ [Next]_vars => RegistryInv'
  BY RegistryInvStep
<1>2. QED
  BY <1>1, InitRegistry, PTL DEF Spec

\* The state of the Host stays typed, whatever order bootstraps, activations,
\* restores, timers, detaches and restarts come in.
THEOREM TypeCorrect == Spec => []TypeOK
<1>1. RegistryInv => TypeOK
  BY DEF RegistryInv
<1>2. QED
  BY <1>1, RegistryInvariant, PTL

\* No two rows of the registry share a main session, for any number of
\* accounts, Agents and overlapping bootstraps (registry.rs).
THEOREM SessionsUnique == Spec => []MainSessionsUnique
<1>1. RegistryInv => MainSessionsUnique
  BY DEF RegistryInv
<1>2. QED
  BY <1>1, RegistryInvariant, PTL

\* No step makes the registry forget an activation or its session.
THEOREM ActivationsAreDurable == Spec => ActivationsDurable
<1>1. RegistryInv /\ [Next]_vars => [\A k \in Sessions : KeepsActivation(k)]_vars
  BY RegistryStep
<1>2. QED
  BY <1>1, RegistryInvariant, PTL DEF Spec, ActivationsDurable

-----------------------------------------------------------------------------
(* The invariant of a Host whose bootstraps do not overlap *)

\* Every step keeps the shape of restore tasks.
LEMMA RestoreShapeStep ==
  ASSUME RegistryInv, RestoreShape, [Next]_vars
  PROVE  RestoreShape'
<1> USE ConstantsAssumption
<1> DEFINE Shape(b, a, r, h, w, n) ==
             /\ a # "idle" => r = "running"
             /\ h => r = "running" /\ a = "idle"
             /\ w = "waiting" => r = "idle" /\ b <= n
             /\ r # "idle" => b <= n
           ShapeOf(b) == Shape(b, act[b].st, restore[b].st, cpu = b, boot[b].st, gen)
<1>0. /\ \A b \in Boots : b \in Tasks /\ b \in Nat /\ b # NoTask
      /\ gen \in Nat
      /\ act \in [Tasks -> Act] /\ restore \in [Boots -> Restore] /\ boot \in [Boots -> Boot]
  BY DEF RegistryInv, TypeOK, Tasks, Boots
<1>1. \A b \in Boots : ShapeOf(b)
  BY DEF RestoreShape, InFlight
<1> SUFFICES ASSUME NEW d \in Boots PROVE ShapeOf(d)'
  BY DEF RestoreShape, InFlight
<1>2. CASE UNCHANGED <<act, restore, cpu, boot, gen>>
  BY <1>1, <1>2
<1>3. CASE BootstrapBegin
  <2>1. /\ UNCHANGED <<act, restore, cpu>> /\ gen' = gen + 1
        /\ boot' = [boot EXCEPT ![gen + 1] = [st |-> "waiting", prev |-> CurrentAccount]]
    BY <1>3 DEF BootstrapBegin
  <2>2. CASE d = gen + 1
    BY <1>0, <1>1, <2>1, <2>2
  <2>3. CASE d # gen + 1
    BY <1>0, <1>1, <2>1, <2>3
  <2>4. QED
    BY <2>2, <2>3
<1>4. CASE BootstrapSignOut
  BY <1>0, <1>1, <1>4 DEF BootstrapSignOut
<1>5. CASE HostRestarts
  BY <1>5, <1>0 DEF HostRestarts, IdleAct, IdleRestore, IdleBoot, Free
<1>6. ASSUME NEW b \in Boots, BootstrapGranted(b) PROVE ShapeOf(d)'
  <2>1. /\ UNCHANGED <<act, cpu, gen>> /\ boot[b].st = "waiting" /\ cpu = NoTask
        /\ boot' = [boot EXCEPT ![b] = IdleBoot]
        /\ restore' = [restore EXCEPT ![b].st = "spawned"] \/ restore' = restore
    BY <1>6 DEF BootstrapGranted, Answered, Free
  <2>2. CASE d = b
    BY <1>0, <1>1, <2>1, <2>2 DEF IdleBoot, Restore
  <2>3. CASE d # b
    BY <1>0, <1>1, <2>1, <2>3
  <2>4. QED
    BY <2>2, <2>3
<1>7. ASSUME NEW b \in Boots, BootstrapRefused(b) PROVE ShapeOf(d)'
  <2>1. UNCHANGED <<act, cpu, gen, restore>> /\ boot' = [boot EXCEPT ![b] = IdleBoot]
    BY <1>7 DEF BootstrapRefused, Answered
  <2>2. QED
    BY <1>0, <1>1, <2>1 DEF IdleBoot
<1>8. ASSUME NEW b \in Boots, RestoreBegins(b) PROVE ShapeOf(d)'
  <2>1. UNCHANGED <<act, gen, boot>> /\ restore[b].st = "spawned" /\ cpu = NoTask
    BY <1>8 DEF RestoreBegins, Free
  <2>2. \/ restore' = [restore EXCEPT ![b] = IdleRestore] /\ cpu' = cpu
        \/ /\ restore' = [restore EXCEPT ![b] =
                [st |-> "running", todo |-> {g \in Agents : Running(CurrentAccount, g)}]]
           /\ cpu' = b
    BY <1>8 DEF RestoreBegins
  <2>3. CASE d = b
    BY <1>0, <1>1, <2>1, <2>2, <2>3 DEF IdleRestore
  <2>4. CASE d # b
    BY <1>0, <1>1, <2>1, <2>2, <2>4
  <2>5. QED
    BY <2>3, <2>4
<1>9. ASSUME NEW b \in Boots, RestoreNext(b) PROVE ShapeOf(d)'
  <2>1. PICK g \in restore[b].todo :
          /\ restore' = [restore EXCEPT ![b].todo = @ \ {g}]
          /\ Activate(b, g) \/ UNCHANGED act
    BY <1>9 DEF RestoreNext
  <2>2. /\ UNCHANGED <<gen, boot>> /\ cpu = b
        /\ cpu' = IF act'[b].st = "idle" THEN b ELSE NoTask
    BY <1>9 DEF RestoreNext
  <2>3. \A e \in Boots : e # b => act'[e] = act[e]
    BY <1>0, <2>1 DEF Activate
  <2>4. restore'[d].st = restore[d].st
    BY <1>0, <2>1 DEF Restore
  <2>5. CASE d = b
    BY <1>0, <1>1, <2>2, <2>4, <2>5
  <2>6. CASE d # b
    BY <1>0, <1>1, <2>2, <2>3, <2>4, <2>6
  <2>7. QED
    BY <2>5, <2>6
<1>10. ASSUME NEW b \in Boots, RestoreEnds(b) PROVE ShapeOf(d)'
  BY <1>0, <1>1, <1>10 DEF RestoreEnds, IdleRestore
<1>11. ASSUME NEW c \in Callers, NEW g \in Agents, CallActivate(c, g) PROVE ShapeOf(d)'
  <2>1. UNCHANGED <<restore, cpu, boot, gen>> /\ Activate(c, g) /\ d # c
    BY <1>11 DEF CallActivate
  <2>2. act'[d] = act[d]
    BY <1>0, <2>1 DEF Activate
  <2>3. QED
    BY <1>1, <2>1, <2>2
<1>12. ASSUME NEW t \in Tasks, InFlight(t), cpu = NoTask, Ends(t), UNCHANGED <<restore, boot, gen>>
       PROVE  ShapeOf(d)'
  <2>1. act' = [act EXCEPT ![t] = IdleAct] /\ cpu' = IF t \in Boots THEN t ELSE NoTask
    BY <1>12 DEF Ends
  <2>2. CASE d = t
    BY <1>0, <1>1, <1>12, <2>1, <2>2 DEF IdleAct, InFlight
  <2>3. CASE d # t
    BY <1>0, <1>1, <1>12, <2>1, <2>3
  <2>4. QED
    BY <2>2, <2>3
<1>13. ASSUME NEW t \in Tasks, InFlight(t), NEW st \in {"gated", "open"},
              act' = [act EXCEPT ![t].st = st], UNCHANGED <<restore, boot, gen, cpu>>, cpu = NoTask
       PROVE  ShapeOf(d)'
  <2>1. CASE d = t
    BY <1>0, <1>1, <1>13, <2>1 DEF Act, InFlight
  <2>2. CASE d # t
    BY <1>0, <1>1, <1>13, <2>2
  <2>3. QED
    BY <2>1, <2>2
<1> HIDE DEF ShapeOf
<1>14. ASSUME NEW t \in Tasks, Gate(t) \/ Register(t) \/ OpenFails(t) \/ Activated(t)
       PROVE  ShapeOf(d)'
  BY <1>12, <1>13, <1>14 DEF Gate, Register, OpenFails, Activated, ActivationFails, InFlight, Free
<1>15. CASE UNCHANGED vars \/ RequestRejected \/ Tick \/ EvictEnds
  BY <1>2, <1>15 DEF vars, RequestRejected, Tick, EvictEnds
<1>16. ASSUME NEW b \in Boots, TimerFires(b) PROVE ShapeOf(d)'
  BY <1>2, <1>16 DEF TimerFires
<1>17. ASSUME NEW x \in Sessions, EvictBegins(x) \/ SessionGone(x) PROVE ShapeOf(d)'
  BY <1>2, <1>17 DEF EvictBegins, SessionGone
<1>18. QED
  BY <1>3, <1>4, <1>5, <1>6, <1>7, <1>8, <1>9, <1>10, <1>11, <1>14, <1>15, <1>16, <1>17 DEF Next

\* When bootstraps do not overlap, every step keeps the account that the one in
\* flight found.
LEMMA BootShapeStep ==
  ASSUME RegistryInv, BootShape, Overlap = FALSE, [Next]_vars
  PROVE  BootShape'
<1> USE ConstantsAssumption
<1>0. boot \in [Boots -> Boot] /\ IdleBoot.st = "idle"
  BY DEF RegistryInv, TypeOK, IdleBoot
<1>1. CASE UNCHANGED <<boot, access>>
  BY <1>1 DEF BootShape
<1>2. CASE \A b \in Boots : boot'[b].st = "idle"
  BY <1>2 DEF BootShape
<1>3. CASE BootstrapBegin
  <2>1. /\ \A b \in Boots : boot[b].st = "idle"
        /\ access' = access
        /\ boot' = [boot EXCEPT ![gen + 1] = [st |-> "waiting", prev |-> CurrentAccount]]
    BY <1>3 DEF BootstrapBegin, MayBootstrap
  <2>2. CurrentAccount # NoOne => access.st = "granted" /\ access.account = CurrentAccount
    BY DEF CurrentAccount
  <2>3. \A b \in Boots : boot'[b].st = "waiting" => b = gen + 1 /\ boot'[b].prev = CurrentAccount
    BY <1>0, <2>1
  <2>4. QED
    BY <2>1, <2>2, <2>3 DEF BootShape
<1>4. CASE BootstrapSignOut
  BY <1>2, <1>4 DEF BootstrapSignOut, MayBootstrap
<1>5. CASE HostRestarts
  BY <1>0, <1>2, <1>5 DEF HostRestarts
<1>6. ASSUME NEW b \in Boots, Answered(b) PROVE BootShape'
  <2>1. \A c \in Boots : boot'[c].st = "idle"
    <3> SUFFICES ASSUME NEW c \in Boots PROVE boot'[c].st = "idle"
      OBVIOUS
    <3>1. boot[c].st = "waiting" => c = b
      BY <1>6 DEF Answered, BootShape
    <3>2. QED
      BY <1>0, <1>6, <3>1 DEF Answered, Boot
  <2>2. QED
    BY <1>2, <2>1
<1>7. ASSUME NEW b \in Boots, \/ BootstrapGranted(b) \/ BootstrapRefused(b) \/ TimerFires(b)
                              \/ RestoreBegins(b) \/ RestoreNext(b) \/ RestoreEnds(b)
      PROVE  BootShape'
  BY <1>1, <1>6, <1>7 DEF BootstrapGranted, BootstrapRefused, TimerFires, RestoreBegins,
                          RestoreNext, RestoreEnds
<1>8. CASE UNCHANGED vars \/ RequestRejected \/ Tick \/ EvictEnds
  BY <1>1, <1>8 DEF vars, RequestRejected, Tick, EvictEnds
<1>9. ASSUME NEW c \in Callers, NEW g \in Agents, CallActivate(c, g) PROVE BootShape'
  BY <1>1, <1>9 DEF CallActivate
<1>10. ASSUME NEW t \in Tasks, Gate(t) \/ Register(t) \/ OpenFails(t) \/ Activated(t)
       PROVE  BootShape'
  BY <1>1, <1>10 DEF Gate, Register, OpenFails, Activated
<1>11. ASSUME NEW x \in Sessions, EvictBegins(x) \/ SessionGone(x) PROVE BootShape'
  BY <1>1, <1>11 DEF EvictBegins, SessionGone
<1>12. QED
  BY <1>3, <1>4, <1>5, <1>7, <1>8, <1>9, <1>10, <1>11 DEF Next

\* When the account with access changes, no pin is left and every activation in
\* flight is overtaken.
AccountKept ==
    access.st = "granted" => access'.st = "granted" /\ access'.account = access.account
AllCleared == pins' = {} /\ \A t \in Tasks : act'[t].st # "idle" => t \in overtaken'

LEMMA SwitchClears ==
  ASSUME SerialInv, [Next]_vars
  PROVE  \/ access' = access
         \/ AccountKept /\ UNCHANGED <<pins, overtaken, stalePins, act>> /\ access.st = "granted"
         \/ AllCleared
<1> DEFINE Goal == \/ access' = access
                   \/ /\ AccountKept /\ UNCHANGED <<pins, overtaken, stalePins, act>>
                      /\ access.st = "granted"
                   \/ AllCleared
<1>1. CASE ClearResidency /\ UNCHANGED act
  BY <1>1 DEF ClearResidency, AllCleared, InFlight
<1>2. CASE BootstrapSignOut
  BY <1>1, <1>2 DEF BootstrapSignOut, Suspend
<1>3. CASE HostRestarts
  BY <1>3 DEF HostRestarts, AllCleared, IdleAct
<1>4. ASSUME NEW b \in Boots, BootstrapGranted(b) PROVE Goal
  <2>1. PICK a \in Accounts, d \in 1..MaxValid :
          /\ access' = Granted(a, now + d)
          /\ IF Switched(b, a)
             THEN ClearResidency ELSE UNCHANGED <<pins, overtaken, stalePins>>
    BY <1>4 DEF BootstrapGranted
  <2>2. act' = act /\ boot[b].st = "waiting"
    BY <1>4 DEF BootstrapGranted, Answered
  <2>3. CASE Switched(b, a)
    BY <1>1, <2>1, <2>2, <2>3
  <2>4. CASE ~Switched(b, a)
    <3>1. boot[b].prev = a /\ a # NoOne
      BY <2>4, ConstantsAssumption DEF Switched
    <3>2. access.st = "granted" /\ access.account = a
      BY <2>2, <3>1 DEF SerialInv, BootShape
    <3>3. access'.st = "granted" /\ access'.account = a
      BY <2>1 DEF Granted
    <3>4. QED
      BY <2>1, <2>2, <2>4, <3>2, <3>3 DEF AccountKept
  <2>5. QED
    BY <2>3, <2>4
<1>5. ASSUME NEW b \in Boots, BootstrapRefused(b) PROVE Goal
  BY <1>1, <1>5 DEF BootstrapRefused, Suspend
<1>6. ASSUME NEW b \in Boots, \/ TimerFires(b)
                              \/ RestoreBegins(b) \/ RestoreNext(b) \/ RestoreEnds(b)
      PROVE  access' = access
  BY <1>6 DEF TimerFires, RestoreBegins, RestoreNext, RestoreEnds
<1>7. CASE UNCHANGED vars \/ BootstrapBegin \/ RequestRejected \/ Tick \/ EvictEnds
  BY <1>7 DEF vars, BootstrapBegin, RequestRejected, Tick, EvictEnds
<1>8. ASSUME NEW c \in Callers, NEW g \in Agents, CallActivate(c, g) PROVE access' = access
  BY <1>8 DEF CallActivate
<1>9. ASSUME NEW t \in Tasks, Gate(t) \/ Register(t) \/ OpenFails(t) \/ Activated(t)
      PROVE  access' = access
  BY <1>9 DEF Gate, Register, OpenFails, Activated
<1>10. ASSUME NEW x \in Sessions, EvictBegins(x) \/ SessionGone(x) PROVE access' = access
  BY <1>10 DEF EvictBegins, SessionGone
<1>11. Goal
  BY <1>2, <1>3, <1>4, <1>5, <1>6, <1>7, <1>8, <1>9, <1>10 DEF Next
<1>12. QED
  BY <1>11

\* An overtaken activation stays overtaken until it ends.
LEMMA OvertakenKept ==
  ASSUME SerialInv, [Next]_vars, NEW u \in Tasks, InFlight(u), u \in overtaken,
         act'[u].st # "idle"
  PROVE  u \in overtaken'
<1>1. CASE overtaken' = overtaken
  BY <1>1
<1>2. CASE ClearResidency
  BY <1>2 DEF ClearResidency
<1>3. CASE BootstrapBegin \/ BootstrapSignOut \/ RequestRejected \/ Tick \/ EvictEnds
  BY <1>1, <1>2, <1>3 DEF BootstrapBegin, BootstrapSignOut, RequestRejected, Tick, EvictEnds, Suspend
<1>4. CASE HostRestarts
  BY <1>4 DEF HostRestarts, IdleAct
<1>5. ASSUME NEW b \in Boots, \/ BootstrapGranted(b) \/ BootstrapRefused(b) \/ TimerFires(b)
                              \/ RestoreBegins(b) \/ RestoreEnds(b)
      PROVE  u \in overtaken'
  BY <1>1, <1>2, <1>5 DEF BootstrapGranted, BootstrapRefused, TimerFires, RestoreBegins,
                          RestoreEnds, Suspend
<1>6. ASSUME NEW b \in Boots, RestoreNext(b) PROVE u \in overtaken'
  <2>1. ~InFlight(b)
    BY <1>6 DEF RestoreNext, SerialInv, RestoreShape
  <2>2. u # b
    BY <2>1
  <2>3. QED
    BY <1>1, <1>6, <2>2 DEF RestoreNext, Activate
<1>7. ASSUME NEW c \in Callers, NEW g \in Agents, CallActivate(c, g) PROVE u \in overtaken'
  <2>1. u # c
    BY <1>7 DEF CallActivate
  <2>2. QED
    BY <1>7, <2>1 DEF CallActivate, Activate
<1>8. ASSUME NEW t \in Tasks, Gate(t) \/ Register(t) \/ OpenFails(t) \/ Activated(t)
      PROVE  u \in overtaken'
  BY <1>1, <1>2, <1>8 DEF Gate, Register, OpenFails, Activated, Suspend
<1>9. ASSUME NEW x \in Sessions, EvictBegins(x) \/ SessionGone(x) PROVE u \in overtaken'
  BY <1>1, <1>9 DEF EvictBegins, SessionGone
<1>10. CASE UNCHANGED vars
  BY <1>1, <1>10 DEF vars
<1>11. QED
  BY <1>3, <1>4, <1>5, <1>6, <1>7, <1>8, <1>9, <1>10 DEF Next

\* A pin that no suspension has overtaken was there before, or an activation of
\* the account with access has just set it.
PinFrom(s) ==
    \/ s \in pins \ stalePins
    \/ /\ access.st = "granted" /\ access' = access
       /\ \E g \in Agents : rows'[<<access.account, g>>].main = s

LEMMA ActivatePins ==
  ASSUME SerialInv, NEW t \in Tasks, NEW g \in Agents, Activate(t, g), access' = access,
         NEW s \in pins' \ stalePins'
  PROVE  PinFrom(s)
<1> DEFINE o == CurrentAccount
           prepared == PrepareActivation(o, g)
           m == prepared[<<o, g>>].main
<1>1. o \in Accounts /\ access.st = "granted" /\ access.account = o
  BY ActivateWrites DEF SerialInv, RegistryInv
<1>2. <<o, g>> \in Sessions /\ o \in Owners
  BY <1>1, Keys DEF Owners
<1>3. prepared \in [Sessions -> Row]
  BY <1>2, ActivationType DEF SerialInv, RegistryInv, TypeOK
<1>4. \A new \in Recorded(prepared, o, g, "resident") : new[<<o, g>>].main = m
  BY <1>2, <1>3, RecordedWrites
<1> HIDE DEF o, prepared, m
<1>5. CASE pins' = pins /\ stalePins' = stalePins
  BY <1>5 DEF PinFrom
<1>6. CASE /\ rows' \in Recorded(prepared, o, g, "resident")
           /\ pins' = pins \cup {m} /\ stalePins' = stalePins \ {m}
  BY <1>1, <1>4, <1>6 DEF PinFrom
<1>7. QED
  BY <1>5, <1>6 DEF Activate, o, prepared, m

LEMMA PinsMove ==
  ASSUME SerialInv, [Next]_vars, NEW s \in pins' \ stalePins'
  PROVE  PinFrom(s)
<1>1. CASE pins' = pins /\ stalePins' = stalePins
  BY <1>1 DEF PinFrom
<1>2. CASE pins' = {}
  BY <1>2
<1>3. CASE BootstrapBegin \/ BootstrapSignOut \/ RequestRejected \/ Tick \/ EvictEnds \/ HostRestarts
  BY <1>1, <1>2, <1>3 DEF BootstrapBegin, BootstrapSignOut, RequestRejected, Tick, EvictEnds,
                          HostRestarts, Suspend, ClearResidency
<1>4. ASSUME NEW b \in Boots, \/ BootstrapGranted(b) \/ BootstrapRefused(b) \/ TimerFires(b)
                              \/ RestoreBegins(b) \/ RestoreEnds(b)
      PROVE  PinFrom(s)
  BY <1>1, <1>2, <1>4 DEF BootstrapGranted, BootstrapRefused, TimerFires, RestoreBegins,
                          RestoreEnds, Suspend, ClearResidency
<1>5. ASSUME NEW b \in Boots, RestoreNext(b) PROVE PinFrom(s)
  <2>1. PICK g \in restore[b].todo : Activate(b, g) \/ UNCHANGED <<pins, stalePins>>
    BY <1>5 DEF RestoreNext
  <2>2. g \in Agents /\ b \in Tasks /\ access' = access
    BY <1>5 DEF SerialInv, RegistryInv, TypeOK, Restore, Tasks, RestoreNext
  <2>3. QED
    BY <1>1, <2>1, <2>2, ActivatePins
<1>6. ASSUME NEW c \in Callers, NEW g \in Agents, CallActivate(c, g) PROVE PinFrom(s)
  BY <1>6, ActivatePins DEF CallActivate, Tasks
<1>7. ASSUME NEW t \in Tasks, Activated(t) PROVE PinFrom(s)
  <2> DEFINE k == <<act[t].owner, act[t].agent>>
  <2>1. /\ act[t].owner \in Accounts /\ act[t].sess \in Sessions /\ act[t].agent \in Agents
        /\ rows[k].main = act[t].sess
    BY <1>7 DEF Activated, SerialInv, RegistryInv, ActShape, InFlight, TypeOK, Act
  <2>2. k \in Sessions /\ k[1] # NoOne /\ rows[k].main # NoSession
    BY <2>1, Keys, ConstantsAssumption DEF Owners
  <2> HIDE DEF k
  <2>3. rows'[k].main = act[t].sess
    BY <2>1, <2>2, RegistryStep DEF RowsKept, SerialInv
  <2>4. t \notin overtaken => access.st = "granted" /\ act[t].owner = access.account
    BY <1>7 DEF Activated, SerialInv, ActsBelongToAccount, InFlight
  <2>5. s \in pins \ stalePins \/ (t \notin overtaken /\ s = act[t].sess)
    BY <1>7 DEF Activated
  <2>6. access' = access
    BY <1>7 DEF Activated
  <2>7. QED
    BY <2>1, <2>3, <2>4, <2>5, <2>6 DEF PinFrom, k
<1>8. ASSUME NEW t \in Tasks, Gate(t) \/ Register(t) \/ OpenFails(t) PROVE PinFrom(s)
  BY <1>1, <1>2, <1>8 DEF Gate, Register, OpenFails, Suspend, ClearResidency
<1>9. ASSUME NEW x \in Sessions, EvictBegins(x) \/ SessionGone(x) PROVE PinFrom(s)
  BY <1>1, <1>9 DEF EvictBegins, SessionGone
<1>10. CASE UNCHANGED vars
  BY <1>1, <1>10 DEF vars
<1>11. QED
  BY <1>3, <1>4, <1>5, <1>6, <1>7, <1>8, <1>9, <1>10 DEF Next

\* Every step of a Host whose bootstraps do not overlap keeps its invariant.
LEMMA SerialInvStep ==
  ASSUME SerialInv, Overlap = FALSE, [Next]_vars
  PROVE  SerialInv'
<1>1. RegistryInv'
  BY RegistryInvStep DEF SerialInv
<1>2. RestoreShape'
  BY RestoreShapeStep DEF SerialInv
<1>3. BootShape'
  BY BootShapeStep DEF SerialInv
<1>4. \/ access' = access
      \/ AccountKept /\ UNCHANGED <<pins, overtaken, stalePins, act>> /\ access.st = "granted"
      \/ AllCleared
  BY SwitchClears
<1>5. ActsBelongToAccount'
  <2> SUFFICES ASSUME NEW t \in Tasks, act'[t].st # "idle", t \notin overtaken'
               PROVE  access'.st = "granted" /\ act'[t].owner = access'.account
    BY DEF ActsBelongToAccount, InFlight
  <2>1. CASE access' = access
    <3>1. InFlight(t) => t \notin overtaken
      BY OvertakenKept
    <3>2. CASE InFlight(t) /\ act'[t].owner = act[t].owner
      BY <2>1, <3>1, <3>2 DEF SerialInv, ActsBelongToAccount
    <3>3. CASE access.st = "granted" /\ act'[t].owner = access.account
      BY <2>1, <3>3
    <3>4. QED
      BY <3>2, <3>3, ActsMove DEF SerialInv, ActMoves, InFlight
  <2>2. CASE AccountKept /\ UNCHANGED <<pins, overtaken, stalePins, act>> /\ access.st = "granted"
    BY <2>2 DEF AccountKept, SerialInv, ActsBelongToAccount, InFlight
  <2>3. QED
    BY <1>4, <2>1, <2>2 DEF AllCleared
<1>6. PinsBelongToAccount'
  <2> SUFFICES ASSUME NEW s \in pins' \ stalePins'
               PROVE  access'.st = "granted" /\ OwnerOf(s)' = {access'.account}
    BY DEF PinsBelongToAccount
  <2>1. /\ access.st = "granted" /\ access'.st = "granted" /\ access'.account = access.account
    BY <1>4, PinsMove DEF PinFrom, AllCleared, AccountKept, SerialInv, PinsBelongToAccount
  <2>2. s \in Sessions /\ access.account \in Owners /\ access.account # NoOne
    BY <1>1, <2>1, ConstantsAssumption
      DEF RegistryInv, SerialInv, TypeOK, GrantedShape, Owners
  <2>3. \E g \in Agents : rows'[<<access.account, g>>].main = s
    <3>1. CASE s \in pins \ stalePins
      <4>1. access.account \in OwnerOf(s)
        BY <3>1 DEF SerialInv, PinsBelongToAccount
      <4>2. PICK g \in Agents : rows[<<access.account, g>>].main = s
        BY <4>1 DEF OwnerOf
      <4>3. <<access.account, g>> \in Sessions /\ <<access.account, g>>[1] = access.account
        BY <2>2, Keys
      <4>4. rows'[<<access.account, g>>].main = s
        BY <2>2, <4>2, <4>3, RegistryStep, ConstantsAssumption DEF SerialInv, RowsKept
      <4>5. QED
        BY <4>4
    <3>2. QED
      BY <3>1, PinsMove DEF PinFrom
  <2>4. PICK g \in Agents : rows'[<<access.account, g>>].main = s
    BY <2>3
  <2>5. ASSUME NEW p \in Owners, NEW h \in Agents, rows'[<<p, h>>].main = s
        PROVE  p = access.account
    <3>1. <<p, h>> \in Sessions /\ <<access.account, g>> \in Sessions /\ s # NoSession
      BY <2>2, Keys, ConstantsAssumption
    <3>2. <<p, h>> = <<access.account, g>>
      BY <1>1, <2>4, <2>5, <3>1 DEF RegistryInv, MainSessionsUnique
    <3>3. QED
      BY <3>2
  <2>6. QED
    BY <2>1, <2>2, <2>4, <2>5 DEF OwnerOf
<1>7. QED
  BY <1>1, <1>2, <1>3, <1>5, <1>6 DEF SerialInv

LEMMA InitSerial == Init => SerialInv
<1> SUFFICES ASSUME Init PROVE SerialInv
  OBVIOUS
<1>1. BootShape /\ ActsBelongToAccount /\ PinsBelongToAccount
  BY DEF Init, BootShape, IdleBoot, ActsBelongToAccount, InFlight, IdleAct, PinsBelongToAccount
<1>2. RestoreShape
  BY ConstantsAssumption
    DEF Init, RestoreShape, InFlight, IdleAct, IdleBoot, IdleRestore, Tasks
<1>3. QED
  BY <1>1, <1>2, InitRegistry DEF SerialInv

\* While bootstraps come one after the other (one client), every pin that no
\* suspension has overtaken belongs to the account granted last: a switch of
\* accounts, a refusal, an expiry or a restart leaves none behind.
THEOREM SerialPins ==
  ASSUME Overlap = FALSE
  PROVE  Spec => []PinsBelongToAccount
<1>1. SerialInv /\ [Next]_vars => SerialInv'
  BY SerialInvStep
<1>2. SerialInv => PinsBelongToAccount
  BY DEF SerialInv
<1>3. QED
  BY <1>1, <1>2, InitSerial, PTL DEF Spec
=============================================================================
