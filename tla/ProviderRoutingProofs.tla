----------------------- MODULE ProviderRoutingProofs -----------------------
(***************************************************************************)
(* The safety properties of ProviderRouting for every set of profiles,     *)
(* sessions, roles, turns and submissions and every bound.                 *)
(*                                                                         *)
(* The argument: a profile's revision never goes back and its content      *)
(* changes only with the revision (ProfilesMove), bindings only grow       *)
(* (BindingsGrow), so what a submission read of either stays true of it    *)
(* (CompilableKept, AttemptKept), whatever the Host does in between.       *)
(***************************************************************************)
EXTENDS ProviderRouting, TLAPS

\* Every initial state has the inductive invariant.
LEMMA InitInv == Init => RoutingInv
<1> SUFFICES ASSUME Init PROVE RoutingInv
  OBVIOUS
<1> USE RoutingAssumption
<1>1. TypeOK
  <2>1. /\ NoRow \in [rev : 0..MaxRev, ep : Endpoints \cup {None}, models : SUBSET Models]
        /\ NoRoute \in Route
    BY DEF NoRow, NoRoute, Route
  <2>2. Unassigned \in [profile : Profiles \cup {None}, model : Models \cup {None}]
    BY DEF Unassigned
  <2>3. Idle \in Attempt
    BY <2>1 DEF Idle, Attempt
  <2>4. NoRecord \in [rev : Nat, route : Route]
    BY <2>1 DEF NoRecord
  <2>5. NoOp \in [kind : {"none", "create", "rollback", "delete"},
                  profile : Profiles \cup {None}, input : Input \cup {None}]
    BY DEF NoOp
  <2>6. <<>> \in Seq(Route)
    OBVIOUS
  <2> QED
    BY <2>1, <2>2, <2>3, <2>4, <2>5, <2>6 DEF Init, TypeOK
<1>2. RowShape /\ OpShape /\ AssignmentShape /\ DeletedLeavesNoSecret
  BY DEF Init, RowShape, OpShape, AssignmentShape, DeletedLeavesNoSecret, HasRow, NoRow, NoOp
<1>3. BindingShape /\ RecordShape
  BY DEF Init, BindingShape, RecordShape
<1>4. AttemptShape
  BY DEF Init, AttemptShape, AttemptOK, Idle, Leased
<1> QED
  BY <1>1, <1>2, <1>3, <1>4 DEF RoutingInv

-----------------------------------------------------------------------------
(* Types *)

\* What the compiler makes of an assignment is a route.
LEMMA CompiledType ==
    ASSUME TypeOK, RowShape, NEW a, a.profile \in stored, a.model \in Models, Compiles(a)
    PROVE  Compiled(a) \in Route /\ Compilable(Compiled(a))
<1>1. a.profile \in Profiles
  BY DEF TypeOK
<1> QED
  BY <1>1 DEF TypeOK, RowShape, Compiles, Compiled, Route, HasRow, Compilable, Faithful

\* An assignment of the table names a profile that had a row.
LEMMA AssignedType ==
    ASSUME TypeOK, AssignmentShape, NEW k, Assigned(k)
    PROVE  /\ Draft(assignments[k]) \in Route
           /\ assignments[k].profile \in stored /\ assignments[k].model \in Models
<1>1. assignments[k].profile \in stored /\ assignments[k].model \in Models
  BY DEF Assigned, AssignmentShape
<1> QED
  BY <1>1, RoutingAssumption DEF Draft, Route, TypeOK

\* The assignment a slot resolves to is one of the table.
LEMMA ResolveType ==
    ASSUME TypeOK, AssignmentShape, NEW s \in Slots, Resolve(s) # Unassigned
    PROVE  /\ Draft(Resolve(s)) \in Route
           /\ Resolve(s).profile \in stored /\ Resolve(s).model \in Models
<1> DEFINE hits == {i \in 1..6 : Assigned(LookupOrder(s)[i])}
           i    == CHOOSE j \in hits : \A l \in hits : j <= l
           k    == LookupOrder(s)[i]
<1>1. hits # {} /\ Resolve(s) = assignments[k]
  BY DEF Resolve
<1>2. \E j \in hits : \A l \in hits : j <= l
  <2>1. hits \subseteq 1..6
    OBVIOUS
  <2> HIDE DEF hits
  <2>2. CASE 1 \in hits
    BY <2>1, <2>2
  <2>3. CASE 1 \notin hits /\ 2 \in hits
    BY <2>1, <2>3
  <2>4. CASE 1 \notin hits /\ 2 \notin hits /\ 3 \in hits
    BY <2>1, <2>4
  <2>5. CASE 1 \notin hits /\ 2 \notin hits /\ 3 \notin hits /\ 4 \in hits
    BY <2>1, <2>5
  <2>6. CASE (\A n \in 1..4 : n \notin hits) /\ 5 \in hits
    BY <2>1, <2>6
  <2>7. CASE \A n \in 1..5 : n \notin hits
    <3>1. \A l \in hits : l = 6
      BY <2>1, <2>7
    <3> QED
      BY <1>1, <3>1
  <2> QED
    BY <2>1, <2>2, <2>3, <2>4, <2>5, <2>6, <2>7
<1>3. Assigned(k)
  BY <1>2
<1> QED
  BY <1>1, <1>3, AssignedType

\* Every step keeps the types.
LEMMA NextType ==
    ASSUME RoutingInv, [Next]_vars
    PROVE  TypeOK'
<1> USE RoutingAssumption DEF RoutingInv, TypeOK
<1>1. /\ NoRoute \in Route
      /\ Unassigned \in [profile : Profiles \cup {None}, model : Models \cup {None}]
  BY DEF NoRoute, Route, Unassigned
<1>2. Idle \in Attempt
  BY <1>1 DEF Idle, Attempt
<1>3. ASSUME NEW t \in Attempts, Fails(t), Prepares PROVE TypeOK'
  BY <1>2, <1>3 DEF Fails, Prepares
<1>4. CASE CreateInsert \/ CreateRollback \/ DeleteRow \/ HostRestarts \/ AccessChanges
  <2>1. CASE CreateInsert
    <3>1. op.profile \in Profiles /\ op.input \in Input /\ op.profile \in issued
      BY <2>1 DEF CreateInsert, CreateFails, OpShape
    <3>2. MaxRev >= 1
      OBVIOUS
    <3>3. [rev |-> 1, ep |-> op.input.ep, models |-> op.input.models] \in
            [rev : 0..MaxRev, ep : Endpoints \cup {None}, models : SUBSET Models]
      BY <3>1, <3>2 DEF Input
    <3>4. profiles' \in [Profiles -> [rev : 0..MaxRev, ep : Endpoints \cup {None},
                                      models : SUBSET Models]]
      BY <2>1, <3>1, <3>3 DEF CreateInsert, CreateFails
    <3>5. stored' \subseteq issued'
      BY <2>1, <3>1 DEF CreateInsert, CreateFails
    <3>6. op' \in [kind : {"none", "create", "rollback", "delete"},
                   profile : Profiles \cup {None}, input : Input \cup {None}]
      BY <2>1, <3>1 DEF CreateInsert, CreateFails, NoOp
    <3> QED
      BY <2>1, <3>4, <3>5, <3>6 DEF CreateInsert, CreateFails
  <2>2. CASE CreateRollback
    BY <2>2 DEF CreateRollback, NoOp
  <2>3. CASE DeleteRow
    <3>1. NoRow \in [rev : 0..MaxRev, ep : Endpoints \cup {None}, models : SUBSET Models]
      BY DEF NoRow
    <3>2. profiles' \in [Profiles -> [rev : 0..MaxRev, ep : Endpoints \cup {None},
                                      models : SUBSET Models]]
      BY <2>3, <3>1 DEF DeleteRow
    <3>3. assignments' \in [Assignable -> [profile : Profiles \cup {None},
                                           model : Models \cup {None}]]
      BY <1>1, <2>3 DEF DeleteRow
    <3> QED
      BY <2>3, <3>2, <3>3 DEF DeleteRow, NoOp
  <2>4. CASE HostRestarts
    BY <2>4, <1>2 DEF HostRestarts, NoOp
  <2>5. CASE AccessChanges
    BY <2>5 DEF AccessChanges
  <2> QED
    BY <1>4, <2>1, <2>2, <2>3, <2>4, <2>5
<1>5. ASSUME NEW p \in Profiles, NEW in \in Input, CreatePut(p, in) \/ Update(p, in)
      PROVE  TypeOK'
  <2>1. CASE CreatePut(p, in)
    BY <2>1 DEF CreatePut, Issue
  <2>2. CASE Update(p, in)
    BY <2>2 DEF Update, Updated, Input
  <2> QED
    BY <1>5, <2>1, <2>2
<1>6. ASSUME NEW p \in Profiles, ReplaceSecret(p) \/ DeleteSecret(p) PROVE TypeOK'
  BY <1>6 DEF ReplaceSecret, DeleteSecret, SecretDeleted
<1>7. ASSUME NEW k \in Assignable, NEW p \in Profiles, NEW m \in Models, Upsert(k, p, m)
      PROVE  TypeOK'
  BY <1>7 DEF Upsert
<1>8. ASSUME NEW k \in Assignable, DeleteAssignment(k) PROVE TypeOK'
  BY <1>1, <1>8 DEF DeleteAssignment
<1>9. ASSUME NEW s \in Slots, ResolveBinding(s) \/ SwitchBinding(s) PROVE TypeOK'
  <2>1. Compiled(Resolve(s)) \in Route
    BY <1>9, ResolveType, CompiledType DEF ResolveBinding, SwitchBinding, Compiles
  <2> HIDE DEF TypeOK
  <2>2. bindings \in [Slots -> Seq(Route)] /\ <<Compiled(Resolve(s))>> \in Seq(Route)
    BY <2>1 DEF TypeOK
  <2>3. Append(bindings[s], Compiled(Resolve(s))) \in Seq(Route)
    BY <2>1, <2>2
  <2>4. bindings' \in [Slots -> Seq(Route)]
    BY <1>9, <2>2, <2>3 DEF ResolveBinding, SwitchBinding, Appends, BindInitial
  <2> QED
    BY <1>9, <2>4 DEF ResolveBinding, SwitchBinding, Appends, TypeOK
<1>10. ASSUME NEW s \in Slots, NEW i \in 1..MaxBind, RollbackBinding(s, i) PROVE TypeOK'
  <2>1. bindings[s][i] \in Route
    BY <1>10 DEF RollbackBinding
  <2>2. bindings' \in [Slots -> Seq(Route)]
    BY <1>10, <2>1 DEF RollbackBinding, Appends
  <2> QED
    BY <1>10, <2>2 DEF RollbackBinding, Appends
<1>11. ASSUME NEW t \in Attempts, NEW s \in Slots, NEW u \in Turns, Begin(t, s, u)
       PROVE  TypeOK'
  BY <1>1, <1>11 DEF Begin, Prepares, Idle, Attempt
<1>12. ASSUME NEW t \in Attempts, NEW st, NEW rev \in Nat, NEW route \in Route,
              att[t].st # "idle", Carries(t, st, rev, route),
              st \in Leased \cup {"unbound", "assigned", "compiled", "bound"}
       PROVE  att' \in [Attempts -> Attempt]
  BY <1>12 DEF Carries, Attempt, Leased
<1>13. ASSUME NEW t \in Attempts, ReadAssignment(t) PROVE TypeOK'
  <2> DEFINE k == LookupOrder(att[t].slot)[att[t].rev]
  <2>1. Assigned(k) => Draft(assignments[k]) \in Route
    BY AssignedType
  <2>2. /\ att[t].st = "unbound" /\ Prepares
        /\ \/ Assigned(k) /\ Carries(t, "assigned", 0, Draft(assignments[k]))
           \/ Carries(t, "unbound", att[t].rev + 1, NoRoute)
           \/ Fails(t)
    BY <1>13 DEF ReadAssignment
  <2>3. att[t].rev + 1 \in Nat
    BY DEF Attempt
  <2> HIDE DEF k
  <2>4. CASE ~Fails(t)
    <3>1. att' \in [Attempts -> Attempt]
      BY <1>1, <1>12, <2>1, <2>2, <2>3, <2>4
    <3> QED
      BY <2>2, <3>1 DEF Prepares
  <2> QED
    BY <1>3, <2>2, <2>4
<1>14. ASSUME NEW t \in Attempts, ReadProfile(t) PROVE TypeOK'
  <2>1. CASE ~Fails(t)
    <3>1. Compiled(att[t].route) \in Route
      BY <1>14, <2>1, CompiledType DEF ReadProfile, AttemptShape, AttemptOK
    <3>2. att' \in [Attempts -> Attempt]
      BY <1>12, <1>14, <2>1, <3>1 DEF ReadProfile
    <3> QED
      BY <1>14, <3>2 DEF ReadProfile, Prepares
  <2> QED
    BY <1>3, <1>14, <2>1 DEF ReadProfile
<1>15. ASSUME NEW t \in Attempts, BindTurn(t) PROVE TypeOK'
  <2>1. att[t].route \in Route /\ att[t].slot \in Slots
    BY <1>15 DEF BindTurn, AttemptShape, AttemptOK, Attempt
  <2>2. bindings' \in [Slots -> Seq(Route)]
    BY <1>15, <2>1 DEF BindTurn, BindInitial
  <2>3. att' \in [Attempts -> Attempt]
    BY <1>1, <1>12, <1>15 DEF BindTurn
  <2> QED
    BY <1>15, <2>2, <2>3 DEF BindTurn
<1>16. ASSUME NEW t \in Attempts, ReadBinding(t) PROVE TypeOK'
  <2> DEFINE b == bindings[att[t].slot]
  <2>1. b \in Seq(Route) /\ b # <<>>
    BY <1>16 DEF ReadBinding, AttemptShape, AttemptOK
  <2>2. Len(b) \in Nat /\ b[Len(b)] \in Route
    BY <2>1
  <2>3. att[t].st = "bound" /\ Carries(t, "leasing", Len(b), b[Len(b)])
    BY <1>16 DEF ReadBinding
  <2> HIDE DEF b
  <2>4. att' \in [Attempts -> Attempt]
    BY <1>12, <2>2, <2>3 DEF Leased
  <2> QED
    BY <1>16, <2>4 DEF ReadBinding, Prepares
<1>17. ASSUME NEW t \in Attempts,
              \/ CheckProfile(t) \/ ReadSecret(t) \/ Abandon(t) \/ Validate(t) \/ Accept(t)
              \/ Answered(t) \/ SubmitAgain(t) \/ TurnEnds(t)
       PROVE  TypeOK'
  <2>1. Prepares
    BY <1>17 DEF CheckProfile, ReadSecret, Abandon, Validate, Accept, Answered, SubmitAgain,
       TurnEnds
  <2>2. CASE Fails(t)
    BY <1>3, <2>1, <2>2
  <2>3. CASE ~Fails(t)
    <3>1. att[t].st # "idle" /\ \E st \in Leased : Moves(t, st)
      BY <1>17, <2>3 DEF CheckProfile, ReadSecret, Abandon, Validate, Accept, Answered,
         SubmitAgain, TurnEnds, Leased
    <3>2. att[t].rev \in Nat /\ att[t].route \in Route
      BY DEF Attempt
    <3>3. att' \in [Attempts -> Attempt]
      BY <1>12, <3>1, <3>2 DEF Moves
    <3> QED
      BY <2>1, <3>3 DEF Prepares
  <2> QED
    BY <2>2, <2>3
<1>18. ASSUME NEW t \in Attempts, RecordSubmitted(t) PROVE TypeOK'
  <2>1. att' \in [Attempts -> Attempt]
    <3>1. att[t].rev \in Nat /\ att[t].route \in Route
      BY DEF Attempt
    <3>2. Fails(t) => att' \in [Attempts -> Attempt]
      BY <1>2 DEF Fails
    <3> QED
      BY <1>12, <1>18, <3>1, <3>2 DEF RecordSubmitted, Moves, Leased
  <2>2. RecordOf(t) \in [rev : Nat, route : Route]
    BY DEF RecordOf, Attempt
  <2>3. records' \in [Slots \X Turns -> [rev : Nat, route : Route]]
    BY <1>18, <2>2 DEF RecordSubmitted
  <2> QED
    BY <1>18, <2>1, <2>3 DEF RecordSubmitted
<1>19. CASE UNCHANGED vars
  BY <1>19 DEF vars
<1> QED
  BY <1>4, <1>5, <1>6, <1>7, <1>8, <1>9, <1>10, <1>11, <1>13, <1>14, <1>15, <1>16, <1>17,
     <1>18, <1>19
     DEF Next

-----------------------------------------------------------------------------
(* What a step may do to profiles *)

\* A stored profile stays as it is, goes, or moves on to a newer revision.
ProfileMoves(p) ==
    \/ profiles'[p].rev = 0
    \/ /\ profiles[p].rev # 0
       /\ \/ profiles'[p].rev > profiles[p].rev
          \/ profiles'[p] = profiles[p]

\* What create, update and delete do to the rows, as one relation.
LEMMA ProfilesMove ==
    ASSUME RoutingInv, [Next]_vars
    PROVE  /\ stored \subseteq stored'
           /\ \A p \in stored : ProfileMoves(p)
           /\ \A p \in stored' \ stored : profiles'[p].rev # 0
<1> USE DEF RoutingInv, TypeOK, ProfileMoves
<1>1. CASE CreateInsert
  BY <1>1 DEF CreateInsert, CreateFails, OpShape
<1>2. ASSUME NEW p \in Profiles, NEW in \in Input, Update(p, in)
      PROVE  /\ stored' = stored
             /\ \A q \in stored : ProfileMoves(q)
  <2>1. Updated(profiles[p], in).rev > profiles[p].rev \/ Updated(profiles[p], in) = profiles[p]
    BY DEF Updated, RouteChanged, Input
  <2> QED
    BY <1>2, <2>1 DEF Update, HasRow
<1>3. CASE DeleteRow
  BY <1>3 DEF DeleteRow, NoRow
<1>4. CASE UNCHANGED <<profiles, stored>>
  BY <1>4
<1>5. QED
  BY <1>1, <1>2, <1>3, <1>4
     DEF Next, vars, AccessChanges, CreateRollback, HostRestarts, CreatePut, ReplaceSecret,
         DeleteSecret, Upsert, DeleteAssignment, ResolveBinding, SwitchBinding,
         RollbackBinding, Appends, Begin, ReadAssignment, ReadProfile, BindTurn, ReadBinding,
         CheckProfile, ReadSecret, Abandon, Validate, Accept, RecordSubmitted, Answered,
         SubmitAgain, TurnEnds, Prepares

\* A route stays what the compiler could have made.
LEMMA CompilableKept ==
    ASSUME RoutingInv, [Next]_vars
    PROVE  \A r \in Route : Compilable(r) => Compilable(r)'
<1> TAKE r \in Route
<1> HAVE Compilable(r)
<1>1. ProfileMoves(r.profile) /\ r.profile \in stored'
  BY ProfilesMove DEF Compilable
<1>2. profiles[r.profile].rev \in Nat /\ profiles'[r.profile].rev \in Nat
  BY <1>1, NextType DEF Compilable, RoutingInv, TypeOK
<1> QED
  BY <1>1, <1>2 DEF Compilable, Faithful, HasRow, ProfileMoves

-----------------------------------------------------------------------------
(* What a step may do to bindings and records *)

\* bind_initial, switch and rollback append one compiled route to one slot.
Appended(s, r) == bindings' = [bindings EXCEPT ![s] = Append(@, r)]

\* Every step leaves the bindings or appends a route the compiler made.
LEMMA BindingsStep ==
    ASSUME RoutingInv, [Next]_vars
    PROVE  \/ bindings' = bindings
           \/ \E s \in Slots, r \in Route : Compilable(r) /\ Appended(s, r)
<1> USE DEF RoutingInv
<1>1. ASSUME NEW s \in Slots, NEW r \in Route, bindings' = BindInitial(s, r)
      PROVE  bindings' = bindings \/ Appended(s, r)
  <2>1. Append(<<>>, r) = <<r>>
    OBVIOUS
  <2> QED
    BY <1>1, <2>1 DEF BindInitial, Appended
<1>2. ASSUME NEW s \in Slots, ResolveBinding(s) \/ SwitchBinding(s)
      PROVE  bindings' = bindings \/ \E r \in Route : Compilable(r) /\ Appended(s, r)
  <2>1. Compiled(Resolve(s)) \in Route /\ Compilable(Compiled(Resolve(s)))
    BY <1>2, ResolveType, CompiledType DEF ResolveBinding, SwitchBinding
  <2> QED
    BY <1>1, <1>2, <2>1 DEF ResolveBinding, SwitchBinding, Appends, Appended
<1>3. ASSUME NEW s \in Slots, NEW i \in 1..MaxBind, RollbackBinding(s, i)
      PROVE  \E r \in Route : Compilable(r) /\ Appended(s, r)
  <2>1. i \in 1..Len(bindings[s]) /\ bindings[s] \in Seq(Route)
    BY <1>3 DEF RollbackBinding, TypeOK
  <2>2. bindings[s][i] \in Route /\ Compilable(bindings[s][i])
    BY <2>1 DEF BindingShape
  <2> QED
    BY <1>3, <2>2 DEF RollbackBinding, Appends, Appended
<1>4. ASSUME NEW t \in Attempts, BindTurn(t)
      PROVE  bindings' = bindings
             \/ \E s \in Slots, r \in Route : Compilable(r) /\ Appended(s, r)
  <2>1. att[t].slot \in Slots /\ att[t].route \in Route /\ Compilable(att[t].route)
    BY <1>4 DEF BindTurn, AttemptShape, AttemptOK, TypeOK, Attempt
  <2> QED
    BY <1>1, <1>4, <2>1 DEF BindTurn
<1>5. QED
  BY <1>2, <1>3, <1>4
     DEF Next, vars, AccessChanges, CreateRollback, CreateInsert, CreateFails, DeleteRow, HostRestarts,
         CreatePut, Update, ReplaceSecret, DeleteSecret, Upsert, DeleteAssignment, Begin,
         ReadAssignment, ReadProfile, ReadBinding, CheckProfile, ReadSecret, Abandon, Validate,
         Accept, RecordSubmitted, Answered, SubmitAgain, TurnEnds, Prepares

\* Bindings are only appended to.
BindingsExtended ==
    \A s \in Slots : /\ Len(bindings'[s]) >= Len(bindings[s])
                     /\ \A i \in 1..Len(bindings[s]) : bindings'[s][i] = bindings[s][i]

\* Bindings are kept, and what is appended is a route the compiler made.
LEMMA BindingsGrow ==
    ASSUME RoutingInv, [Next]_vars
    PROVE  /\ BindingsExtended
           /\ \A s \in Slots : bindings[s] # <<>> => bindings'[s] # <<>>
           /\ BindingShape'
<1>1. bindings \in [Slots -> Seq(Route)]
  BY DEF RoutingInv, TypeOK
<1>2. ASSUME NEW s \in Slots, NEW i \in 1..Len(bindings[s])
      PROVE  Compilable(bindings[s][i])'
             \/ bindings'[s][i] # bindings[s][i]
  <2>1. bindings[s][i] \in Route /\ Compilable(bindings[s][i])
    BY <1>1 DEF RoutingInv, BindingShape
  <2> QED
    BY <2>1, CompilableKept DEF Compilable, Faithful, HasRow
<1>3. CASE bindings' = bindings
  BY <1>1, <1>2, <1>3 DEF BindingsExtended, BindingShape, Compilable, Faithful, HasRow
<1>4. ASSUME NEW s \in Slots, NEW r \in Route, Compilable(r), Appended(s, r)
      PROVE  /\ BindingsExtended
             /\ \A z \in Slots : bindings[z] # <<>> => bindings'[z] # <<>>
             /\ BindingShape'
  <2>1. Compilable(r)'
    BY <1>4, CompilableKept
  <2>2. bindings[s] \in Seq(Route) /\ bindings'[s] = Append(bindings[s], r)
    BY <1>1, <1>4 DEF Appended
  <2>3. \A z \in Slots : z # s => bindings'[z] = bindings[z]
    BY <1>1, <1>4 DEF Appended
  <2>4. /\ Len(bindings'[s]) = Len(bindings[s]) + 1 /\ Len(bindings[s]) \in Nat
        /\ \A i \in 1..Len(bindings[s]) : bindings'[s][i] = bindings[s][i]
        /\ bindings'[s][Len(bindings[s]) + 1] = r
    BY <2>2
  <2>5. BindingsExtended
    BY <1>1, <2>3, <2>4 DEF BindingsExtended
  <2>6. bindings'[s] # <<>>
    BY <2>2
  <2>7. ASSUME NEW z \in Slots, NEW i \in 1..Len(bindings'[z])
        PROVE  Compilable(bindings[z][i])'
    <3>1. CASE i \in 1..Len(bindings[z])
      BY <1>2, <2>5, <3>1 DEF BindingsExtended
    <3>2. CASE i \notin 1..Len(bindings[z])
      <4>1. z = s /\ i = Len(bindings[s]) + 1
        BY <2>3, <2>4, <3>2
      <4> QED
        BY <2>1, <2>4, <4>1
    <3> QED
      BY <3>1, <3>2
  <2> QED
    BY <2>3, <2>5, <2>6, <2>7 DEF BindingShape
<1> QED
  BY <1>3, <1>4, BindingsStep

\* The record of a turn is written once, by a submission that agrees with it.
LEMMA RecordsStep ==
    ASSUME RoutingInv, [Next]_vars
    PROVE  \/ records' = records
           \/ \E t \in Attempts :
                /\ att[t].st = "accepted"
                /\ records[Key(t)] = NoRecord
                /\ records' = [records EXCEPT ![Key(t)] = RecordOf(t)]
  BY DEF Next, vars, AccessChanges, CreateRollback, CreateInsert, CreateFails, DeleteRow, HostRestarts,
         CreatePut, Update, ReplaceSecret, DeleteSecret, Upsert, DeleteAssignment,
         ResolveBinding, SwitchBinding, RollbackBinding, Appends, Begin, ReadAssignment,
         ReadProfile, BindTurn, ReadBinding, CheckProfile, ReadSecret, Abandon, Validate,
         Accept, RecordSubmitted, Answered, SubmitAgain, TurnEnds, Prepares

\* A record stays, and names a binding whatever is appended later.
LEMMA RecordsKept ==
    ASSUME RoutingInv, [Next]_vars
    PROVE  /\ \A k \in Slots \X Turns : records[k] # NoRecord => records'[k] = records[k]
           /\ RecordShape'
<1> USE DEF RoutingInv
<1>1. records \in [Slots \X Turns -> [rev : Nat, route : Route]]
  BY DEF TypeOK
<1>2. ASSUME NEW k \in Slots \X Turns, records[k] # NoRecord
      PROVE  /\ records[k].rev \in 1..Len(bindings'[k[1]])
             /\ records[k].route = bindings'[k[1]][records[k].rev]
  <2>1. k[1] \in Slots
    OBVIOUS
  <2>2. /\ records[k].rev \in 1..Len(bindings[k[1]])
        /\ records[k].route = bindings[k[1]][records[k].rev]
    BY <1>2 DEF RecordShape
  <2>3. Len(bindings[k[1]]) \in Nat /\ Len(bindings'[k[1]]) \in Nat
    BY <2>1, NextType DEF TypeOK
  <2> QED
    BY <2>1, <2>2, <2>3, BindingsGrow DEF BindingsExtended
<1>3. CASE records' = records
  BY <1>2, <1>3 DEF RecordShape
<1>4. ASSUME NEW t \in Attempts, att[t].st = "accepted", records[Key(t)] = NoRecord,
             records' = [records EXCEPT ![Key(t)] = RecordOf(t)]
      PROVE  /\ \A k \in Slots \X Turns : records[k] # NoRecord => records'[k] = records[k]
             /\ RecordShape'
  <2>1. /\ att[t].slot \in Slots /\ att[t].turn \in Turns
        /\ att[t].rev \in 1..Len(bindings[att[t].slot])
        /\ att[t].route = bindings[att[t].slot][att[t].rev]
    BY <1>4 DEF AttemptShape, AttemptOK, Leased
  <2>2. /\ Key(t) \in Slots \X Turns /\ Key(t)[1] = att[t].slot
        /\ records'[Key(t)] = RecordOf(t)
        /\ \A k \in Slots \X Turns : k # Key(t) => records'[k] = records[k]
    BY <1>1, <1>4, <2>1 DEF Key
  <2>3. Len(bindings[att[t].slot]) \in Nat /\ Len(bindings'[att[t].slot]) \in Nat
    BY <2>1, NextType DEF TypeOK
  <2>4. /\ RecordOf(t).rev \in 1..Len(bindings'[att[t].slot])
        /\ RecordOf(t).route = bindings'[att[t].slot][RecordOf(t).rev]
    BY <2>1, <2>3, BindingsGrow DEF BindingsExtended, RecordOf
  <2> QED
    BY <1>2, <1>4, <2>2, <2>4 DEF RecordShape
<1> QED
  BY <1>3, <1>4, RecordsStep

-----------------------------------------------------------------------------
(* Profiles, the handler under way, assignments *)

\* Create, update and delete of profiles and assignments keep the tables and the
\* vault consistent.
LEMMA ShapesKept ==
    ASSUME RoutingInv, [Next]_vars
    PROVE  RowShape' /\ OpShape' /\ AssignmentShape' /\ DeletedLeavesNoSecret'
<1> USE DEF RoutingInv, TypeOK
<1> DEFINE Goal == RowShape' /\ OpShape' /\ AssignmentShape' /\ DeletedLeavesNoSecret'
<1>1. CASE UNCHANGED <<profiles, vault, op, assignments, issued, stored>>
  BY <1>1 DEF RowShape, OpShape, AssignmentShape, DeletedLeavesNoSecret, HasRow
<1>2. CASE CreateInsert
  <2>1. op.profile \in issued \ stored /\ op.input \in Input /\ op.profile \in Profiles
    BY <1>2 DEF CreateInsert, CreateFails, OpShape
  <2>2. CASE UNCHANGED <<profiles, stored>>
    BY <1>2, <2>1, <2>2
       DEF CreateInsert, CreateFails, RowShape, OpShape, AssignmentShape, DeletedLeavesNoSecret, HasRow, NoOp
  <2>3. CASE ~UNCHANGED <<profiles, stored>>
    <3>1. /\ profiles' = [profiles EXCEPT ![op.profile] =
                [rev |-> 1, ep |-> op.input.ep, models |-> op.input.models]]
          /\ stored' = stored \cup {op.profile} /\ UNCHANGED <<vault, assignments, issued>>
          /\ op' = NoOp \/ op' = [kind |-> "rollback", profile |-> op.profile, input |-> None]
      BY <1>2, <2>3 DEF CreateInsert, CreateFails
    <3>2. RowShape'
      BY <2>1, <3>1 DEF RowShape, HasRow, Input
    <3>3. OpShape' /\ AssignmentShape'
      BY <2>1, <3>1 DEF OpShape, AssignmentShape, NoOp
    <3>4. DeletedLeavesNoSecret'
      BY <2>1, <3>1 DEF DeletedLeavesNoSecret, HasRow
    <3> QED
      BY <3>2, <3>3, <3>4
  <2> QED
    BY <2>2, <2>3
<1>3. CASE CreateRollback
  BY <1>3
     DEF CreateRollback, RowShape, OpShape, AssignmentShape, DeletedLeavesNoSecret, HasRow, NoOp
<1>4. CASE DeleteRow
  <2>1. op.profile \in stored \ vault /\ op' = NoOp /\ UNCHANGED <<vault, stored>>
    BY <1>4 DEF DeleteRow, OpShape
  <2>2. OpShape'
    BY <2>1 DEF OpShape, NoOp
  <2>3. \A p \in Profiles : /\ p # op.profile => profiles'[p] = profiles[p]
                            /\ profiles'[p].rev # 0 => profiles'[p] = profiles[p]
    BY <1>4 DEF DeleteRow, NoRow
  <2>4. RowShape'
    BY <2>1, <2>3 DEF RowShape, HasRow
  <2>5. DeletedLeavesNoSecret'
    BY <2>1, <2>3 DEF DeletedLeavesNoSecret, HasRow
  <2>6. AssignmentShape'
    BY <1>4, <2>1 DEF DeleteRow, AssignmentShape
  <2> QED
    BY <2>2, <2>4, <2>5, <2>6
<1>5. CASE HostRestarts
  BY <1>5
     DEF HostRestarts, RowShape, OpShape, AssignmentShape, DeletedLeavesNoSecret, HasRow, NoOp
<1>6. ASSUME NEW p \in Profiles, NEW in \in Input, CreatePut(p, in) PROVE Goal
  BY <1>6
     DEF CreatePut, HandlerStarts, Issue, NoOp, RowShape, OpShape, AssignmentShape,
         DeletedLeavesNoSecret, HasRow
<1>7. ASSUME NEW p \in Profiles, NEW in \in Input, Update(p, in) PROVE Goal
  <2>1. Updated(profiles[p], in).rev # 0 /\ Updated(profiles[p], in).ep \in Endpoints
    BY <1>7 DEF Update, HasRow, Updated, Input
  <2> QED
    BY <1>7, <2>1
       DEF Update, RowShape, OpShape, AssignmentShape, DeletedLeavesNoSecret, HasRow
<1>8. ASSUME NEW p \in Profiles, ReplaceSecret(p) \/ DeleteSecret(p) PROVE Goal
  BY <1>8
     DEF ReplaceSecret, DeleteSecret, SecretDeleted, HandlerStarts, NoOp, RowShape, OpShape,
         AssignmentShape, DeletedLeavesNoSecret, HasRow
<1>9. ASSUME NEW k \in Assignable, NEW p \in Profiles, NEW m \in Models, Upsert(k, p, m)
      PROVE  Goal
  <2>1. p \in stored
    BY <1>9 DEF Upsert, RowShape
  <2> QED
    BY <1>9, <2>1
       DEF Upsert, RowShape, OpShape, AssignmentShape, DeletedLeavesNoSecret, HasRow
<1>10. ASSUME NEW k \in Assignable, DeleteAssignment(k) PROVE Goal
  BY <1>10
     DEF DeleteAssignment, RowShape, OpShape, AssignmentShape, DeletedLeavesNoSecret, HasRow
<1>11. QED
  BY <1>1, <1>2, <1>3, <1>4, <1>5, <1>6, <1>7, <1>8, <1>9, <1>10
     DEF Next, vars, AccessChanges, ResolveBinding, SwitchBinding, RollbackBinding, Appends,
         Begin, ReadAssignment, ReadProfile, BindTurn, ReadBinding, CheckProfile, ReadSecret,
         Abandon, Validate, Accept, RecordSubmitted, Answered, SubmitAgain, TurnEnds, Prepares

-----------------------------------------------------------------------------
(* Submissions *)

\* The lease of a submission that holds one: its revision and route are those of
\* a binding of its slot.
HoldsLease(t, b) ==
    /\ att[t].slot \in Slots /\ att[t].turn \in Turns
    /\ b[att[t].slot] # <<>>
    /\ att[t].rev \in 1..Len(b[att[t].slot])
    /\ att[t].route = b[att[t].slot][att[t].rev]

\* A lease outlives whatever is appended to the bindings.
LEMMA LeaseKept ==
    ASSUME RoutingInv, [Next]_vars
    PROVE  \A t \in Attempts : att[t].st \in Leased => HoldsLease(t, bindings')
<1> TAKE t \in Attempts
<1> HAVE att[t].st \in Leased
<1>1. HoldsLease(t, bindings)
  BY DEF RoutingInv, AttemptShape, AttemptOK, HoldsLease, Leased
<1>2. Len(bindings[att[t].slot]) \in Nat /\ Len(bindings'[att[t].slot]) \in Nat
  BY <1>1, NextType DEF RoutingInv, TypeOK, HoldsLease
<1> QED
  BY <1>1, <1>2, BindingsGrow DEF HoldsLease, BindingsExtended

\* A submission that does not move stays right about bindings, profiles and records.
LEMMA AttemptKept ==
    ASSUME RoutingInv, [Next]_vars
    PROVE  \A t \in Attempts : att'[t] = att[t] => AttemptOK(t)'
<1> TAKE t \in Attempts
<1> HAVE att'[t] = att[t]
<1> USE DEF RoutingInv
<1>1. AttemptOK(t) /\ att[t] \in Attempt
  BY DEF AttemptShape, TypeOK
<1>2. att[t].st = "assigned" => att[t].route.profile \in stored'
  BY <1>1, ProfilesMove DEF AttemptOK
<1>3. att[t].st = "compiled" => Compilable(att[t].route)'
  <2>1. SUFFICES ASSUME att[t].st = "compiled" PROVE Compilable(att[t].route)'
    OBVIOUS
  <2>2. att[t].route \in Route /\ Compilable(att[t].route)
    BY <1>1, <2>1 DEF AttemptOK, Attempt
  <2>3. PICK r \in Route : r = att[t].route /\ Compilable(r)
    BY <2>2
  <2>4. Compilable(r)' /\ r = att'[t].route
    BY <2>3, CompilableKept
  <2> QED
    BY <2>4 DEF Compilable, Faithful, HasRow
<1>4. att[t].st = "bound" => bindings'[att[t].slot] # <<>>
  BY <1>1, BindingsGrow DEF AttemptOK
<1>5. att[t].st \in Leased => HoldsLease(t, bindings')
  BY LeaseKept
<1>6. att[t].st \in {"calling", "active"} => records'[Key(t)] = RecordOf(t)
  <2>1. SUFFICES ASSUME att[t].st \in {"calling", "active"}
                 PROVE  records'[Key(t)] = RecordOf(t)
    OBVIOUS
  <2>2. records[Key(t)] = RecordOf(t) /\ Key(t) \in Slots \X Turns /\ att[t].rev # 0
    BY <1>1, <2>1 DEF AttemptOK, Key, Leased
  <2>3. records[Key(t)] # NoRecord
    BY <2>2 DEF RecordOf, NoRecord
  <2> QED
    BY <2>2, <2>3, RecordsKept
<1>7. att[t].st = "assigned" => att[t].route.model \in Models
  BY <1>1 DEF AttemptOK
<1>8. /\ att[t].st # "idle" => att[t].slot \in Slots /\ att[t].turn \in Turns
      /\ att[t].st = "unbound" => att[t].rev \in 1..6
  BY <1>1 DEF AttemptOK
<1> QED
  BY <1>2, <1>3, <1>4, <1>5, <1>6, <1>7, <1>8
     DEF AttemptOK, HoldsLease, Key, RecordOf, Leased, Compilable, Faithful, HasRow

\* A step of one submission leaves it right, too.
LEMMA AttemptShapeKept ==
    ASSUME RoutingInv, [Next]_vars
    PROVE  AttemptShape'
<1> USE DEF RoutingInv
<1>1. att \in [Attempts -> Attempt]
  BY DEF TypeOK
<1>2. ASSUME NEW t \in Attempts, NEW a, att' = [att EXCEPT ![t] = a], AttemptOK(t)'
      PROVE  AttemptShape'
  BY <1>1, <1>2, AttemptKept DEF AttemptShape
<1>3. ASSUME NEW t \in Attempts, Fails(t) PROVE AttemptShape'
  <2>1. att'[t] = Idle
    BY <1>1, <1>3 DEF Fails
  <2>2. AttemptOK(t)'
    BY <2>1 DEF AttemptOK, Idle, Leased
  <2> QED
    BY <1>2, <1>3, <2>2 DEF Fails
<1>4. ASSUME NEW t \in Attempts, NEW st, NEW rev, NEW route, Carries(t, st, rev, route)
      PROVE  /\ att'[t] = [st |-> st, slot |-> att[t].slot, turn |-> att[t].turn,
                           rev |-> rev, route |-> route]
             /\ AttemptOK(t)' => AttemptShape'
  BY <1>1, <1>2, <1>4 DEF Carries
<1>5. CASE UNCHANGED att
  BY <1>5, AttemptKept DEF AttemptShape
<1>6. CASE HostRestarts
  BY <1>6 DEF HostRestarts, AttemptShape, AttemptOK, Idle, Leased
<1>7. ASSUME NEW t \in Attempts, NEW s \in Slots, NEW u \in Turns, Begin(t, s, u)
      PROVE  AttemptShape'
  <2>1. AttemptOK(t)'
    BY <1>1, <1>7 DEF Begin, Prepares, AttemptOK, Leased
  <2> QED
    BY <1>2, <1>7, <2>1 DEF Begin
<1>8. ASSUME NEW t \in Attempts, ReadAssignment(t) PROVE AttemptShape'
  <2> DEFINE k == LookupOrder(att[t].slot)[att[t].rev]
  <2>1. att[t].slot \in Slots /\ att[t].turn \in Turns /\ att[t].rev \in 1..6
    BY <1>8 DEF ReadAssignment, AttemptShape, AttemptOK
  <2>2. /\ stored' = stored
        /\ \/ Assigned(k) /\ Carries(t, "assigned", 0, Draft(assignments[k]))
           \/ att[t].rev < 6 /\ Carries(t, "unbound", att[t].rev + 1, NoRoute)
           \/ Fails(t)
    BY <1>8 DEF ReadAssignment, Prepares
  <2>3. Assigned(k) => /\ Draft(assignments[k]).profile \in stored
                       /\ Draft(assignments[k]).model \in Models
    BY AssignedType DEF Draft
  <2> HIDE DEF k
  <2>4. CASE Assigned(k) /\ Carries(t, "assigned", 0, Draft(assignments[k]))
    <3>1. att'[t] = [st |-> "assigned", slot |-> att[t].slot, turn |-> att[t].turn,
                     rev |-> 0, route |-> Draft(assignments[k])]
      BY <1>4, <2>4
    <3>2. AttemptOK(t)'
      BY <2>1, <2>2, <2>3, <2>4, <3>1 DEF AttemptOK, Leased
    <3> QED
      BY <1>4, <2>4, <3>2
  <2>5. CASE att[t].rev < 6 /\ Carries(t, "unbound", att[t].rev + 1, NoRoute)
    <3>1. att'[t] = [st |-> "unbound", slot |-> att[t].slot, turn |-> att[t].turn,
                     rev |-> att[t].rev + 1, route |-> NoRoute]
      BY <1>4, <2>5
    <3>2. att[t].rev + 1 \in 1..6
      BY <2>1, <2>5
    <3>3. AttemptOK(t)'
      BY <2>1, <3>1, <3>2 DEF AttemptOK, Leased
    <3> QED
      BY <1>4, <2>5, <3>3
  <2> QED
    BY <1>3, <2>2, <2>4, <2>5
<1>9. ASSUME NEW t \in Attempts, ReadProfile(t) PROVE AttemptShape'
  <2>1. /\ att[t].slot \in Slots /\ att[t].turn \in Turns
        /\ att[t].route.profile \in stored /\ att[t].route.model \in Models
    BY <1>9 DEF ReadProfile, AttemptShape, AttemptOK
  <2>2. CASE ~Fails(t)
    <3>1. /\ Carries(t, "compiled", 0, Compiled(att[t].route))
          /\ Compiles(att[t].route) /\ UNCHANGED <<profiles, stored>>
      BY <1>9, <2>2 DEF ReadProfile, Prepares
    <3>2. Compilable(Compiled(att[t].route))
      BY <2>1, <3>1, CompiledType
    <3>3. att'[t] = [st |-> "compiled", slot |-> att[t].slot, turn |-> att[t].turn,
                     rev |-> 0, route |-> Compiled(att[t].route)]
      BY <1>4, <3>1
    <3>4. Compilable(att[t].route)'
      BY <3>1, <3>2, <3>3 DEF Compilable, Faithful, HasRow
    <3>5. AttemptOK(t)'
      BY <2>1, <3>3, <3>4 DEF AttemptOK, Leased
    <3> QED
      BY <1>4, <3>1, <3>5
  <2> QED
    BY <1>3, <2>2
<1>10. ASSUME NEW t \in Attempts, BindTurn(t) PROVE AttemptShape'
  <2>1. att[t].slot \in Slots /\ att[t].turn \in Turns
    BY <1>10 DEF BindTurn, AttemptShape, AttemptOK
  <2>2. bindings'[att[t].slot] # <<>>
    BY <1>10, <2>1 DEF BindTurn, BindInitial, TypeOK
  <2>3. att'[t] = [st |-> "bound", slot |-> att[t].slot, turn |-> att[t].turn,
                   rev |-> 0, route |-> NoRoute]
    BY <1>4, <1>10 DEF BindTurn
  <2>4. AttemptOK(t)'
    BY <2>1, <2>2, <2>3 DEF AttemptOK, Leased
  <2> QED
    BY <1>4, <1>10, <2>4 DEF BindTurn
<1>11. ASSUME NEW t \in Attempts, ReadBinding(t) PROVE AttemptShape'
  <2> DEFINE b == bindings[att[t].slot]
  <2>1. att[t].slot \in Slots /\ att[t].turn \in Turns /\ b # <<>> /\ b \in Seq(Route)
    BY <1>11 DEF ReadBinding, AttemptShape, AttemptOK, TypeOK
  <2>2. Len(b) \in 1..Len(b)
    BY <2>1
  <2>3. Carries(t, "leasing", Len(b), b[Len(b)]) /\ bindings' = bindings
    BY <1>11 DEF ReadBinding, Prepares
  <2>4. AttemptOK(t)'
    <3>1. att'[t] = [st |-> "leasing", slot |-> att[t].slot, turn |-> att[t].turn,
                     rev |-> Len(b), route |-> b[Len(b)]]
      BY <1>4, <2>3
    <3>2. bindings'[att'[t].slot] = b
      BY <2>3, <3>1
    <3> HIDE DEF b
    <3> QED
      BY <2>1, <2>2, <3>1, <3>2 DEF AttemptOK, Leased
  <2> QED
    BY <1>4, <2>3, <2>4
<1>12. ASSUME NEW t \in Attempts, NEW st \in Leased, att[t].st \in Leased, Moves(t, st),
              st \in {"calling", "active"} => records'[Key(t)] = RecordOf(t)
       PROVE  AttemptShape'
  <2>1. att'[t] = [st |-> st, slot |-> att[t].slot, turn |-> att[t].turn,
                   rev |-> att[t].rev, route |-> att[t].route]
    BY <1>4, <1>12 DEF Moves
  <2>2. HoldsLease(t, bindings')
    BY <1>12, LeaseKept
  <2>3. AttemptOK(t)'
    BY <1>12, <2>1, <2>2 DEF AttemptOK, HoldsLease, Key, RecordOf, Leased
  <2> QED
    BY <1>4, <1>12, <2>3 DEF Moves
<1>13. ASSUME NEW t \in Attempts,
              \/ CheckProfile(t) \/ ReadSecret(t) \/ Abandon(t) \/ Validate(t) \/ Accept(t)
              \/ TurnEnds(t)
       PROVE  AttemptShape'
  <2>1. CASE ~Fails(t)
    <3>1. /\ att[t].st \in Leased
          /\ \E st \in {"checked", "prepared", "validated", "accepted"} : Moves(t, st)
      BY <1>13, <2>1 DEF CheckProfile, ReadSecret, Abandon, Validate, Accept, TurnEnds, Leased
    <3> QED
      BY <1>12, <3>1 DEF Leased
  <2> QED
    BY <1>3, <2>1
<1>14. ASSUME NEW t \in Attempts, Answered(t) \/ SubmitAgain(t) PROVE AttemptShape'
  <2>1. att[t].st \in {"calling", "active"} /\ records' = records
    BY <1>14 DEF Answered, SubmitAgain, Prepares
  <2>2. records'[Key(t)] = RecordOf(t)
    BY <2>1 DEF AttemptShape, AttemptOK
  <2> QED
    BY <1>12, <1>14, <2>1, <2>2 DEF Answered, SubmitAgain, Leased
<1>15. ASSUME NEW t \in Attempts, RecordSubmitted(t) PROVE AttemptShape'
  <2>1. CASE ~Fails(t)
    <3>1. att[t].st = "accepted" /\ Agrees(t) /\ Moves(t, "calling")
      BY <1>15, <2>1 DEF RecordSubmitted
    <3>2. records'[Key(t)] = RecordOf(t)
      <4>1. /\ Key(t) \in Slots \X Turns /\ Key(t)[1] = att[t].slot
            /\ att[t].route = bindings[att[t].slot][att[t].rev]
        BY <3>1 DEF AttemptShape, AttemptOK, Key, Leased
      <4>2. CASE records[Key(t)] = NoRecord
        BY <1>15, <2>1, <4>1, <4>2 DEF RecordSubmitted, TypeOK
      <4>3. CASE records[Key(t)] # NoRecord
        <5>1. /\ records[Key(t)].rev # 0
              /\ records[Key(t)].route = bindings[att[t].slot][records[Key(t)].rev]
          BY <4>1, <4>3 DEF RecordShape
        <5>2. records[Key(t)].rev = att[t].rev
          BY <3>1, <5>1 DEF Agrees
        <5>3. records[Key(t)] \in [rev : Nat, route : Route]
          BY <4>1 DEF TypeOK
        <5>4. records[Key(t)] = RecordOf(t)
          BY <4>1, <5>1, <5>2, <5>3 DEF RecordOf
        <5> QED
          BY <1>15, <2>1, <4>3, <5>4 DEF RecordSubmitted
      <4> QED
        BY <4>2, <4>3
    <3> QED
      BY <1>12, <3>1, <3>2 DEF Leased
  <2> QED
    BY <1>3, <2>1
<1>16. QED
  BY <1>5, <1>6, <1>7, <1>8, <1>9, <1>10, <1>11, <1>13, <1>14, <1>15
     DEF Next, vars, AccessChanges, CreateRollback, CreateInsert, CreateFails, DeleteRow, CreatePut, Update,
         ReplaceSecret, DeleteSecret, Upsert, DeleteAssignment, ResolveBinding, SwitchBinding,
         RollbackBinding, Appends

-----------------------------------------------------------------------------
(* The theorems *)

\* The inductive invariant holds in every reachable state.
LEMMA RoutingInvariant == Spec => []RoutingInv
<1>1. RoutingInv /\ [Next]_vars => RoutingInv'
  BY NextType, ShapesKept, BindingsGrow, RecordsKept, AttemptShapeKept DEF RoutingInv
<1> QED
  BY InitInv, <1>1, PTL DEF Spec

\* Every variable keeps its type.
THEOREM RoutingTypeCorrect == Spec => []TypeOK
<1>1. RoutingInv => TypeOK
  BY DEF RoutingInv
<1> QED
  BY RoutingInvariant, <1>1, PTL

\* No binding is ever refused for the revision of its profile, for any number of
\* profiles, sessions and submissions, whatever is updated between the reads.
THEOREM BindingsStayFaithful == Spec => []BindingsFaithful
<1>1. RoutingInv => BindingsFaithful
  BY DEF RoutingInv, BindingShape, Compilable, BindingsFaithful
<1> QED
  BY RoutingInvariant, <1>1, PTL

\* A running turn sends what its record and its binding say, for any number of
\* submissions of any number of turns.
THEOREM TurnsAlwaysFollowRecords == Spec => []TurnsFollowRecords
<1>1. RoutingInv => TurnsFollowRecords
  BY DEF RoutingInv, AttemptShape, AttemptOK, RecordOf, Leased, TurnsFollowRecords
<1> QED
  BY RoutingInvariant, <1>1, PTL

\* The vault keeps no secret of a deleted profile.
THEOREM DeletedProfilesLeaveNoSecret == Spec => []DeletedLeavesNoSecret
<1>1. RoutingInv => DeletedLeavesNoSecret
  BY DEF RoutingInv
<1> QED
  BY RoutingInvariant, <1>1, PTL

\* Bindings are only appended to; the record of a turn is written once.
THEOREM HistoryStaysFinal == Spec => HistoryIsFinal
<1> DEFINE Final ==
      /\ BindingsExtended
      /\ \A k \in Slots \X Turns : records[k] # NoRecord => records'[k] = records[k]
<1>1. RoutingInv /\ [Next]_vars => [Final]_vars
  BY BindingsGrow, RecordsKept
<1>2. [][Final]_vars => HistoryIsFinal
  BY PTL DEF HistoryIsFinal, BindingsExtended
<1> HIDE DEF Final
<1> QED
  BY RoutingInvariant, <1>1, <1>2, PTL DEF Spec
=============================================================================
