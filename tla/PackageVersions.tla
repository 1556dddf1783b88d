-------------------------- MODULE PackageVersions --------------------------
(***************************************************************************)
(* What the local Package registry promises, whoever installs: for every   *)
(* Package an Active and a Previous artifact that change in one step, by   *)
(* an upgrade or by a rollback.  An upgrade never changes the Agent of a   *)
(* Package or goes down in version, never takes an Agent from another      *)
(* Package, and adds permissions only with a consent given for exactly     *)
(* this artifact over exactly the Active one it replaces, used once.       *)
(***************************************************************************)
EXTENDS Naturals

CONSTANTS
    Packages,       \* package ids
    Artifacts,      \* verified artifacts, named by their digest
    Clients,        \* whoever asks for upgrades, each on behalf of a user
    PackageOf,      \* the Package of an artifact
    AgentIdOf,      \* the Agent that an artifact's manifest defines
    Precedence,     \* the SemVer precedence of an artifact's version
    PermissionsOf,  \* the permissions that an artifact's manifest requests
    None            \* no artifact, no consent

VARIABLES
    slots,    \* the Active and the Previous artifact of every Package
    consent   \* what a client's user has agreed to and has not used yet

vars == <<slots, consent>>

Empty == [active |-> None, previous |-> None]

\* The permissions that a user already accepted with an Active artifact.
Granted(a) == IF a = None THEN {} ELSE PermissionsOf[a]

Init ==
    /\ slots = [p \in Packages |-> Empty]
    /\ consent = [c \in Clients |-> None]

\* A user agrees to artifact a where b is Active.
Consent(c, a, b) ==
    /\ consent[c] = None
    /\ consent' = [consent EXCEPT ![c] = [art |-> a, base |-> b]]
    /\ UNCHANGED slots

\* Consents of some clients lapse unused.
Lapse(C) ==
    /\ consent' = [c \in Clients |-> IF c \in C THEN None ELSE consent[c]]
    /\ UNCHANGED slots

Upgrade(c, a) ==
    LET p == PackageOf[a]
        b == slots[p].active
    IN  /\ b # None => AgentIdOf[a] = AgentIdOf[b] /\ Precedence[a] > Precedence[b]
        /\ \A q \in Packages \ {p} :
              slots[q].active # None => AgentIdOf[slots[q].active] # AgentIdOf[a]
        /\ consent[c] = [art |-> a, base |-> b] \/ PermissionsOf[a] \subseteq Granted(b)
        /\ slots' = [slots EXCEPT ![p] = [active |-> a, previous |-> b]]
        /\ consent' = [consent EXCEPT ![c] = None]

Rollback(p) ==
    /\ slots[p].previous # None
    /\ slots' = [slots EXCEPT ![p] = [active |-> slots[p].previous, previous |-> slots[p].active]]
    /\ UNCHANGED consent

Next ==
    \/ \E C \in SUBSET Clients : Lapse(C)
    \/ \E c \in Clients, a \in Artifacts :
          \/ \E b \in Artifacts \cup {None} : Consent(c, a, b)
          \/ Upgrade(c, a)
    \/ \E p \in Packages : Rollback(p)

Spec == Init /\ [][Next]_vars
=============================================================================
