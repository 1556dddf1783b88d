------------------------- MODULE LeaderElectionProofs ------------------------
(***************************************************************************)
(* Proofs about LeaderElection, for any number of clients, Leaders and lock *)
(* files and any number of crashes, kills and stops: type correctness, and  *)
(* that what the lock file says is true.  Then the two promises that faults *)
(* break: one Host for any number of clients when there are none, and a     *)
(* Host that can be found again for a lone Bridge when Leaders crash.       *)
(***************************************************************************)
EXTENDS LeaderElection, FiniteSetTheorems, TLAPS

\* A Leader between taking the lock and closing the file.
Holder(l) ==
    \/ leader[l].pc \in {"locked", "ready", "draining", "dropping", "close"}
    \/ leader[l].pc \in {"bind", "bound"} /\ leader[l].fd # None

Held == \A l \in Leaders : Holder(l) => leader[l].fd \in Files /\ flock[leader[l].fd] = l

\* A live pid at the lock path is that of the lock's holder.
Told == (LockPid # None /\ Alive(LockPid)) => flock[lockPath] = LockPid

LockInv == TypeOK /\ Held /\ Told

----------------------------------------------------------------------------
ClientRecs == [pc : ClientSteps, fd : Files \cup {None}, conn : Leaders \cup {None}, failed : BOOLEAN]

LeaderRecs == [pc : LeaderSteps, fd : Files \cup {None}, stale : BOOLEAN]

LEMMA ClientUpdate ==
    ASSUME NEW f \in [Clients -> ClientRecs], NEW c \in Clients, NEW p \in ClientSteps
    PROVE  /\ [f EXCEPT ![c].pc = p] \in [Clients -> ClientRecs]
           /\ [f EXCEPT ![c] = Idle] \in [Clients -> ClientRecs]
BY DEF ClientRecs, Idle, ClientSteps

LEMMA ClientPcFd ==
    ASSUME NEW f \in [Clients -> ClientRecs], NEW c \in Clients, NEW p \in ClientSteps,
           NEW d \in Files \cup {None}
    PROVE  [f EXCEPT ![c].pc = p, ![c].fd = d] \in [Clients -> ClientRecs]
<1>1. PICK g \in [Clients -> ClientRecs] : g = [f EXCEPT ![c].pc = p]
  BY DEF ClientRecs
<1>2. [g EXCEPT ![c].fd = d] \in [Clients -> ClientRecs]
  BY DEF ClientRecs
<1>3. [f EXCEPT ![c].pc = p, ![c].fd = d] = [g EXCEPT ![c].fd = d]
  BY <1>1
<1> QED
  BY <1>2, <1>3

LEMMA ClientPcConn ==
    ASSUME NEW f \in [Clients -> ClientRecs], NEW c \in Clients, NEW p \in ClientSteps,
           NEW k \in Leaders \cup {None}
    PROVE  [f EXCEPT ![c].pc = p, ![c].conn = k] \in [Clients -> ClientRecs]
<1>1. PICK g \in [Clients -> ClientRecs] : g = [f EXCEPT ![c].pc = p]
  BY DEF ClientRecs
<1>2. [g EXCEPT ![c].conn = k] \in [Clients -> ClientRecs]
  BY DEF ClientRecs
<1>3. [f EXCEPT ![c].pc = p, ![c].conn = k] = [g EXCEPT ![c].conn = k]
  BY <1>1
<1> QED
  BY <1>2, <1>3

LEMMA ClientFailedConn ==
    ASSUME NEW f \in [Clients -> ClientRecs], NEW c \in Clients, NEW b \in BOOLEAN,
           NEW k \in Leaders \cup {None}
    PROVE  [f EXCEPT ![c].failed = b, ![c].conn = k] \in [Clients -> ClientRecs]
<1>1. PICK g \in [Clients -> ClientRecs] : g = [f EXCEPT ![c].failed = b]
  BY DEF ClientRecs
<1>2. [g EXCEPT ![c].conn = k] \in [Clients -> ClientRecs]
  BY DEF ClientRecs
<1>3. [f EXCEPT ![c].failed = b, ![c].conn = k] = [g EXCEPT ![c].conn = k]
  BY <1>1
<1> QED
  BY <1>2, <1>3

LEMMA ClientPcFdFailed ==
    ASSUME NEW f \in [Clients -> ClientRecs], NEW c \in Clients, NEW p \in ClientSteps,
           NEW d \in Files \cup {None}, NEW b \in BOOLEAN
    PROVE  [f EXCEPT ![c].pc = p, ![c].fd = d, ![c].failed = b] \in [Clients -> ClientRecs]
<1>1. PICK g \in [Clients -> ClientRecs] : g = [f EXCEPT ![c].pc = p, ![c].fd = d]
  BY ClientPcFd
<1>2. [g EXCEPT ![c].failed = b] \in [Clients -> ClientRecs]
  BY DEF ClientRecs
<1>3. [f EXCEPT ![c].pc = p, ![c].fd = d, ![c].failed = b] = [g EXCEPT ![c].failed = b]
  BY <1>1
<1> QED
  BY <1>2, <1>3

LEMMA LeaderUpdate ==
    ASSUME NEW f \in [Leaders -> LeaderRecs], NEW l \in Leaders, NEW p \in LeaderSteps,
           NEW r \in LeaderRecs
    PROVE  /\ [f EXCEPT ![l].pc = p] \in [Leaders -> LeaderRecs]
           /\ [f EXCEPT ![l] = r] \in [Leaders -> LeaderRecs]
BY DEF LeaderRecs

LEMMA LeaderPcFd ==
    ASSUME NEW f \in [Leaders -> LeaderRecs], NEW l \in Leaders, NEW p \in LeaderSteps,
           NEW d \in Files \cup {None}
    PROVE  [f EXCEPT ![l].pc = p, ![l].fd = d] \in [Leaders -> LeaderRecs]
<1>1. PICK g \in [Leaders -> LeaderRecs] : g = [f EXCEPT ![l].pc = p]
  BY DEF LeaderRecs
<1>2. [g EXCEPT ![l].fd = d] \in [Leaders -> LeaderRecs]
  BY DEF LeaderRecs
<1>3. [f EXCEPT ![l].pc = p, ![l].fd = d] = [g EXCEPT ![l].fd = d]
  BY <1>1
<1> QED
  BY <1>2, <1>3

LEMMA Constants ==
    /\ Dead \in LeaderRecs /\ [pc |-> "start", fd |-> None, stale |-> FALSE] \in LeaderRecs
    /\ "lock" \in ClientSteps /\ "clean" \in ClientSteps /\ "on" \in ClientSteps
    /\ "opened" \in ClientSteps /\ "final" \in ClientSteps
    /\ "listen" \in ClientSteps /\ "under" \in ClientSteps /\ "waiting" \in ClientSteps
    /\ "draining" \in LeaderSteps /\ "opened" \in LeaderSteps /\ "bind" \in LeaderSteps
    /\ "handoff" \in LeaderSteps /\ "locked" \in LeaderSteps /\ "dropping" \in LeaderSteps
BY DEF Dead, LeaderRecs, LeaderSteps, ClientSteps

LEMMA Unlocks ==
    ASSUME TypeOK, NEW p
    PROVE  Unlocked(p) \in [Files -> Clients \cup Leaders \cup {None}]
BY DEF TypeOK, Unlocked

LEMMA BeginsKeeps ==
    ASSUME LockInv, NEW c \in Clients, Begins(c)
    PROVE  LockInv'
<1> USE ElectionAssumption DEF LockInv
<1>1. TypeOK'
  BY DEF Begins, Steps, TypeOK, ClientSteps, LeaderSteps, budget
<1>2. Held'
  BY <1>1 DEF Begins, Steps, TypeOK, ClientSteps, LeaderSteps, budget, Held, Holder
<1>3. Told'
  BY <1>1 DEF Begins, Steps, TypeOK, ClientSteps, LeaderSteps, budget, Told, LockPid, Alive, Held, Holder
<1> QED
  BY <1>1, <1>2, <1>3

LEMMA ConnectsKeeps ==
    ASSUME LockInv, NEW c \in Clients, Connects(c)
    PROVE  LockInv'
<1> USE ElectionAssumption DEF LockInv
<1>1. TypeOK'
  <2>1. client \in [Clients -> ClientRecs] /\ sock \in Leaders \cup {None}
    BY DEF TypeOK, ClientRecs
  <2>2. client' \in [Clients -> ClientRecs]
    BY <2>1 DEF Connects, ClientRecs
  <2> QED
    BY <2>2 DEF Connects, TypeOK, ClientRecs, budget
<1>2. Held'
  BY <1>1 DEF Connects, Connecting, TypeOK, ClientSteps, LeaderSteps, budget, Held, Holder
<1>3. Told'
  BY <1>1 DEF Connects, Connecting, TypeOK, ClientSteps, LeaderSteps, budget, Told, LockPid, Alive, Held, Holder
<1> QED
  BY <1>1, <1>2, <1>3

LEMMA ConnectFailsKeeps ==
    ASSUME LockInv, NEW c \in Clients, ConnectFails(c)
    PROVE  LockInv'
<1> USE ElectionAssumption DEF LockInv
<1>1. TypeOK'
  <2>0. client \in [Clients -> ClientRecs] /\ leader \in [Leaders -> LeaderRecs]
    BY DEF TypeOK, ClientRecs, LeaderRecs
  <2>1. client' \in [Clients -> ClientRecs]
    <3>1. CASE client[c].pc = "fast"
      <4>1. client' = [client EXCEPT ![c].pc = "lock", ![c].conn = None]
        BY <3>1 DEF ConnectFails, Unreached
      <4> QED
        BY <2>0, <4>1, ClientPcConn, Constants
    <3>2. CASE client[c].pc = "waiting"
      <4>1. client' = [client EXCEPT ![c].failed = TRUE, ![c].conn = None]
        BY <3>2 DEF ConnectFails, Unreached
      <4> QED
        BY <2>0, <4>1, ClientFailedConn
    <3>3. CASE client[c].pc = "under"
      <4>1. client' = [client EXCEPT ![c].pc = "clean", ![c].conn = None]
        BY <3>3 DEF ConnectFails, Unreached
      <4> QED
        BY <2>0, <4>1, ClientPcConn, Constants
    <3>4. CASE client[c].pc = "final"
      <4>1. client' = [client EXCEPT ![c] = Idle]
        BY <3>4 DEF ConnectFails, Unreached, Errs
      <4> QED
        BY <2>0, <4>1, ClientUpdate, Constants
    <3> QED
      BY <3>1, <3>2, <3>3, <3>4 DEF ConnectFails, Connecting
  <2>2. leader' \in [Leaders -> LeaderRecs]
    BY <2>0, LeaderUpdate, Constants DEF ConnectFails, Connecting, Unreached, Errs, TypeOK
  <2>3. flock' \in [Files -> Clients \cup Leaders \cup {None}] /\ lockPath' \in Files \cup {None}
    BY Unlocks DEF ConnectFails, Connecting, Unreached, Errs, TypeOK
  <2>4. pid' \in [Files -> Leaders \cup {None}] /\ sock' \in Leaders \cup {None}
    BY DEF ConnectFails, Connecting, Unreached, Errs, TypeOK
  <2>5. UNCHANGED budget
    BY DEF ConnectFails, Connecting, Unreached, Errs
  <2> QED
    BY <2>1, <2>2, <2>3, <2>4, <2>5 DEF TypeOK, ClientRecs, LeaderRecs, budget
<1>2. Held'
  BY <1>1 DEF ConnectFails, Connecting, Unreached, Errs, Idle, TypeOK, ClientSteps, LeaderSteps, budget, Held, Holder
<1>3. Told'
  BY <1>1 DEF ConnectFails, Connecting, Unreached, Errs, Idle, TypeOK, ClientSteps, LeaderSteps, budget, Told, LockPid, Alive, Held, Holder
<1> QED
  BY <1>1, <1>2, <1>3

LEMMA ReadyFailsKeeps ==
    ASSUME LockInv, NEW c \in Clients, ReadyFails(c)
    PROVE  LockInv'
<1> USE ElectionAssumption DEF LockInv
<1>1. TypeOK'
  <2>0. client \in [Clients -> ClientRecs] /\ leader \in [Leaders -> LeaderRecs]
    BY DEF TypeOK, ClientRecs, LeaderRecs
  <2>1. client' \in [Clients -> ClientRecs]
    <3>1. CASE client[c].pc = "fast"
      <4>1. client' = [client EXCEPT ![c].pc = "lock", ![c].conn = None]
        BY <3>1 DEF ReadyFails, Unreached
      <4> QED
        BY <2>0, <4>1, ClientPcConn, Constants
    <3>2. CASE client[c].pc = "waiting"
      <4>1. client' = [client EXCEPT ![c].failed = TRUE, ![c].conn = None]
        BY <3>2 DEF ReadyFails, Unreached
      <4> QED
        BY <2>0, <4>1, ClientFailedConn
    <3>3. CASE client[c].pc = "under"
      <4>1. client' = [client EXCEPT ![c].pc = "clean", ![c].conn = None]
        BY <3>3 DEF ReadyFails, Unreached
      <4> QED
        BY <2>0, <4>1, ClientPcConn, Constants
    <3>4. CASE client[c].pc = "final"
      <4>1. client' = [client EXCEPT ![c] = Idle]
        BY <3>4 DEF ReadyFails, Unreached, Errs
      <4> QED
        BY <2>0, <4>1, ClientUpdate, Constants
    <3> QED
      BY <3>1, <3>2, <3>3, <3>4 DEF ReadyFails, Connecting
  <2>2. leader' \in [Leaders -> LeaderRecs]
    BY <2>0, LeaderUpdate, Constants DEF ReadyFails, Connecting, Unreached, Errs, TypeOK
  <2>3. flock' \in [Files -> Clients \cup Leaders \cup {None}] /\ lockPath' \in Files \cup {None}
    BY Unlocks DEF ReadyFails, Connecting, Unreached, Errs, TypeOK
  <2>4. pid' \in [Files -> Leaders \cup {None}] /\ sock' \in Leaders \cup {None}
    BY DEF ReadyFails, Connecting, Unreached, Errs, TypeOK
  <2>5. UNCHANGED budget
    BY DEF ReadyFails, Connecting, Unreached, Errs
  <2> QED
    BY <2>1, <2>2, <2>3, <2>4, <2>5 DEF TypeOK, ClientRecs, LeaderRecs, budget
<1>2. Held'
  BY <1>1 DEF ReadyFails, Connecting, Unreached, Errs, Idle, TypeOK, ClientSteps, LeaderSteps, budget, Held, Holder
<1>3. Told'
  BY <1>1 DEF ReadyFails, Connecting, Unreached, Errs, Idle, TypeOK, ClientSteps, LeaderSteps, budget, Told, LockPid, Alive, Held, Holder
<1> QED
  BY <1>1, <1>2, <1>3

LEMMA RegistersKeeps ==
    ASSUME LockInv, NEW c \in Clients, Registers(c)
    PROVE  LockInv'
<1> USE ElectionAssumption DEF LockInv
<1>1. TypeOK'
  <2>0. client \in [Clients -> ClientRecs] /\ leader \in [Leaders -> LeaderRecs]
    BY DEF TypeOK, ClientRecs, LeaderRecs
  <2>1. client' \in [Clients -> ClientRecs]
    <3>1. CASE client' = [client EXCEPT ![c].pc = "on", ![c].fd = None]
      BY <2>0, <3>1, ClientPcFd, Constants
    <3>2. CASE client' = [client EXCEPT ![c].pc = "lock", ![c].conn = None]
      BY <2>0, <3>2, ClientPcConn, Constants
    <3>3. CASE client' = [client EXCEPT ![c].pc = "clean", ![c].conn = None]
      BY <2>0, <3>3, ClientPcConn, Constants
    <3> QED
      BY <3>1, <3>2, <3>3 DEF Registers, Adopts
  <2>2. leader' \in [Leaders -> LeaderRecs]
    <3>0. PICK l \in Leaders : l = client[c].conn
      BY DEF Registers, TypeOK
    <3>1. CASE UNCHANGED leader
      BY <2>0, <3>1
    <3>2. CASE leader' = [leader EXCEPT ![l].pc = "draining"]
      BY <2>0, <3>2, LeaderUpdate, Constants
    <3>3. CASE LockPid # None /\ leader' = [leader EXCEPT ![LockPid] = Dead]
      <4>1. PICK k \in Leaders : k = LockPid
        BY <3>3 DEF LockPid, TypeOK
      <4> QED
        BY <2>0, <3>3, <4>1, LeaderUpdate, Constants
    <3> QED
      BY <3>0, <3>1, <3>2, <3>3 DEF Registers, Vacates, Evicts
  <2>3. flock' \in [Files -> Clients \cup Leaders \cup {None}] /\ lockPath' \in Files \cup {None}
    BY Unlocks DEF Registers, Connecting, Adopts, Vacates, Evicts, TypeOK
  <2>4. pid' \in [Files -> Leaders \cup {None}] /\ sock' \in Leaders \cup {None}
    BY DEF Registers, Connecting, Adopts, Vacates, Evicts, TypeOK
  <2>5. UNCHANGED budget
    BY DEF Registers, Connecting, Adopts, Vacates, Evicts
  <2> QED
    BY <2>1, <2>2, <2>3, <2>4, <2>5 DEF TypeOK, ClientRecs, LeaderRecs, budget
<1>2. Held'
  BY <1>1 DEF Registers, Connecting, Adopts, Vacates, Evicts, Unlocked, Dead, TypeOK, ClientSteps, LeaderSteps, budget, Held, Holder
<1>3. Told'
  BY <1>1 DEF Registers, Connecting, Adopts, Vacates, Evicts, Unlocked, Dead, TypeOK, ClientSteps, LeaderSteps, budget, Told, LockPid, Alive, Held, Holder
<1> QED
  BY <1>1, <1>2, <1>3

LEMMA ClientOpensKeeps ==
    ASSUME LockInv, NEW c \in Clients, ClientOpens(c)
    PROVE  LockInv'
<1> USE ElectionAssumption DEF LockInv
<1>1. TypeOK'
  <2>0. client \in [Clients -> ClientRecs] /\ leader \in [Leaders -> LeaderRecs]
    BY DEF TypeOK, ClientRecs, LeaderRecs
  <2>1. client' \in [Clients -> ClientRecs]
    <3>1. PICK i \in Files : client' = [client EXCEPT ![c].pc = "opened", ![c].fd = i, ![c].failed = FALSE]
      BY DEF ClientOpens
    <3> QED
      BY <2>0, <3>1, ClientPcFdFailed, Constants
  <2>2. leader' \in [Leaders -> LeaderRecs]
    BY <2>0, LeaderUpdate, Constants DEF ClientOpens, OpensFile, InUse, TypeOK
  <2>3. flock' \in [Files -> Clients \cup Leaders \cup {None}] /\ lockPath' \in Files \cup {None}
    BY Unlocks DEF ClientOpens, OpensFile, InUse, TypeOK
  <2>4. pid' \in [Files -> Leaders \cup {None}] /\ sock' \in Leaders \cup {None}
    BY DEF ClientOpens, OpensFile, InUse, TypeOK
  <2>5. UNCHANGED budget
    BY DEF ClientOpens, OpensFile, InUse
  <2> QED
    BY <2>1, <2>2, <2>3, <2>4, <2>5 DEF TypeOK, ClientRecs, LeaderRecs, budget
<1>2. Held'
  BY <1>1 DEF ClientOpens, OpensFile, InUse, TypeOK, ClientSteps, LeaderSteps, budget, Held, Holder
<1>3. Told'
  BY <1>1 DEF ClientOpens, OpensFile, InUse, TypeOK, ClientSteps, LeaderSteps, budget, Told, LockPid, Alive, Held, Holder
<1> QED
  BY <1>1, <1>2, <1>3

LEMMA ClientLocksKeeps ==
    ASSUME LockInv, NEW c \in Clients, ClientLocks(c)
    PROVE  LockInv'
<1> USE ElectionAssumption DEF LockInv
<1>1. TypeOK'
  <2>0. client \in [Clients -> ClientRecs]
    BY DEF TypeOK, ClientRecs
  <2>1. client' \in [Clients -> ClientRecs]
    <3>1. CASE client' = [client EXCEPT ![c].pc = "under"]
      BY <2>0, <3>1, ClientUpdate, Constants
    <3>2. CASE client' = [client EXCEPT ![c].pc = "clean"]
      BY <2>0, <3>2, ClientUpdate, Constants
    <3>3. CASE client' = [client EXCEPT ![c].pc = "waiting", ![c].fd = None]
      BY <2>0, <3>3, ClientPcFd, Constants
    <3> QED
      BY <3>1, <3>2, <3>3 DEF ClientLocks, Steps
  <2>2. flock' \in [Files -> Clients \cup Leaders \cup {None}]
    <3>1. CASE UNCHANGED flock
      BY <3>1 DEF TypeOK
    <3>2. CASE flock' = [flock EXCEPT ![client[c].fd] = c]
      BY <3>2 DEF TypeOK
    <3> QED
      BY <3>1, <3>2 DEF ClientLocks
  <2>3. UNCHANGED <<lockPath, pid, sock, leader, budget>>
    BY DEF ClientLocks
  <2> QED
    BY <2>1, <2>2, <2>3 DEF TypeOK, ClientRecs, budget
<1>2. Held'
  BY <1>1 DEF ClientLocks, Steps, TypeOK, ClientSteps, LeaderSteps, budget, Held, Holder
<1>3. Told'
  BY <1>1 DEF ClientLocks, Steps, TypeOK, ClientSteps, LeaderSteps, budget, Told, LockPid, Alive, Held, Holder
<1> QED
  BY <1>1, <1>2, <1>3

LEMMA WaitEndsKeeps ==
    ASSUME LockInv, NEW c \in Clients, WaitEnds(c)
    PROVE  LockInv'
<1> USE ElectionAssumption DEF LockInv
<1>1. TypeOK'
  <2>0. client \in [Clients -> ClientRecs] /\ leader \in [Leaders -> LeaderRecs]
    BY DEF TypeOK, ClientRecs, LeaderRecs
  <2>1. client' \in [Clients -> ClientRecs]
    <3>1. CASE client' = [client EXCEPT ![c] = Idle]
      BY <2>0, <3>1, ClientUpdate, Constants
    <3>2. CASE client' = [client EXCEPT ![c].pc = "lock"]
      BY <2>0, <3>2, ClientUpdate, Constants
    <3> QED
      BY <3>1, <3>2 DEF WaitEnds, Errs, Steps
  <2>2. leader' \in [Leaders -> LeaderRecs]
    BY <2>0, LeaderUpdate, Constants DEF WaitEnds, Errs, Steps, TypeOK
  <2>3. flock' \in [Files -> Clients \cup Leaders \cup {None}] /\ lockPath' \in Files \cup {None}
    BY Unlocks DEF WaitEnds, Errs, Steps, TypeOK
  <2>4. pid' \in [Files -> Leaders \cup {None}] /\ sock' \in Leaders \cup {None}
    BY DEF WaitEnds, Errs, Steps, TypeOK
  <2>5. UNCHANGED budget
    BY DEF WaitEnds, Errs, Steps
  <2> QED
    BY <2>1, <2>2, <2>3, <2>4, <2>5 DEF TypeOK, ClientRecs, LeaderRecs, budget
<1>2. Held'
  BY <1>1 DEF WaitEnds, Errs, Idle, Steps, TypeOK, ClientSteps, LeaderSteps, budget, Held, Holder
<1>3. Told'
  BY <1>1 DEF WaitEnds, Errs, Idle, Steps, TypeOK, ClientSteps, LeaderSteps, budget, Told, LockPid, Alive, Held, Holder
<1> QED
  BY <1>1, <1>2, <1>3

LEMMA SpawnsKeeps ==
    ASSUME LockInv, NEW c \in Clients, Spawns(c)
    PROVE  LockInv'
<1> USE ElectionAssumption DEF LockInv
<1>1. TypeOK'
  <2>0. client \in [Clients -> ClientRecs] /\ leader \in [Leaders -> LeaderRecs]
    BY DEF TypeOK, ClientRecs, LeaderRecs
  <2>1. client' \in [Clients -> ClientRecs]
    <3>1. client' = [client EXCEPT ![c].pc = "listen"]
      BY DEF Spawns, Steps
    <3> QED
      BY <2>0, <3>1, ClientUpdate, Constants
  <2>2. leader' \in [Leaders -> LeaderRecs]
    <3>1. PICK l \in Leaders : leader' = [leader EXCEPT ![l] = [pc |-> "start", fd |-> None, stale |-> FALSE]]
      BY DEF Spawns
    <3> QED
      BY <2>0, <3>1, LeaderUpdate, Constants
  <2>3. flock' \in [Files -> Clients \cup Leaders \cup {None}] /\ lockPath' \in Files \cup {None}
    BY Unlocks DEF Spawns, Steps, Fresh, TypeOK
  <2>4. pid' \in [Files -> Leaders \cup {None}] /\ sock' \in Leaders \cup {None}
    BY DEF Spawns, Steps, Fresh, TypeOK
  <2>5. UNCHANGED budget
    BY DEF Spawns, Steps, Fresh
  <2> QED
    BY <2>1, <2>2, <2>3, <2>4, <2>5 DEF TypeOK, ClientRecs, LeaderRecs, budget
<1>2. Held'
  BY <1>1 DEF Spawns, Steps, Fresh, TypeOK, ClientSteps, LeaderSteps, budget, Held, Holder
<1>3. Told'
  BY <1>1 DEF Spawns, Steps, Fresh, TypeOK, ClientSteps, LeaderSteps, budget, Told, LockPid, Alive, Held, Holder
<1> QED
  BY <1>1, <1>2, <1>3

LEMMA SeesListenerKeeps ==
    ASSUME LockInv, NEW c \in Clients, SeesListener(c)
    PROVE  LockInv'
<1> USE ElectionAssumption DEF LockInv
<1>1. TypeOK'
  <2>0. client \in [Clients -> ClientRecs] /\ leader \in [Leaders -> LeaderRecs]
    BY DEF TypeOK, ClientRecs, LeaderRecs
  <2>1. client' \in [Clients -> ClientRecs]
    <3>1. client' = [client EXCEPT ![c].pc = "final", ![c].fd = None]
      BY DEF SeesListener
    <3> QED
      BY <2>0, <3>1, ClientPcFd, Constants
  <2>2. leader' \in [Leaders -> LeaderRecs]
    BY <2>0, LeaderUpdate, Constants DEF SeesListener, TypeOK
  <2>3. flock' \in [Files -> Clients \cup Leaders \cup {None}] /\ lockPath' \in Files \cup {None}
    BY Unlocks DEF SeesListener, TypeOK
  <2>4. pid' \in [Files -> Leaders \cup {None}] /\ sock' \in Leaders \cup {None}
    BY DEF SeesListener, TypeOK
  <2>5. UNCHANGED budget
    BY DEF SeesListener
  <2> QED
    BY <2>1, <2>2, <2>3, <2>4, <2>5 DEF TypeOK, ClientRecs, LeaderRecs, budget
<1>2. Held'
  BY <1>1 DEF SeesListener, Unlocked, TypeOK, ClientSteps, LeaderSteps, budget, Held, Holder
<1>3. Told'
  BY <1>1 DEF SeesListener, Unlocked, TypeOK, ClientSteps, LeaderSteps, budget, Told, LockPid, Alive, Held, Holder
<1> QED
  BY <1>1, <1>2, <1>3

LEMMA SpawnFailsKeeps ==
    ASSUME LockInv, NEW c \in Clients, SpawnFails(c)
    PROVE  LockInv'
<1> USE ElectionAssumption DEF LockInv
<1>1. TypeOK'
  <2>1. client \in [Clients -> ClientRecs] /\ "drop" \in ClientSteps
    BY DEF TypeOK, ClientRecs, ClientSteps
  <2>2. client' \in [Clients -> ClientRecs]
    BY <2>1, ClientUpdate DEF SpawnFails, Steps
  <2> QED
    BY <2>2 DEF SpawnFails, TypeOK, ClientRecs, budget
<1>2. Held'
  BY <1>1 DEF SpawnFails, Steps, TypeOK, ClientSteps, LeaderSteps, budget, Held, Holder
<1>3. Told'
  BY <1>1 DEF SpawnFails, Steps, TypeOK, ClientSteps, LeaderSteps, budget, Told, LockPid, Alive, Held, Holder
<1> QED
  BY <1>1, <1>2, <1>3

LEMMA ListenTimesOutKeeps ==
    ASSUME LockInv, NEW c \in Clients, ListenTimesOut(c)
    PROVE  LockInv'
<1> USE ElectionAssumption DEF LockInv
<1>1. TypeOK'
  <2>1. client \in [Clients -> ClientRecs] /\ "drop" \in ClientSteps
    BY DEF TypeOK, ClientRecs, ClientSteps
  <2>2. client' \in [Clients -> ClientRecs]
    BY <2>1, ClientUpdate DEF ListenTimesOut, Steps
  <2> QED
    BY <2>2 DEF ListenTimesOut, TypeOK, ClientRecs, budget
<1>2. Held'
  BY <1>1 DEF ListenTimesOut, Steps, TypeOK, ClientSteps, LeaderSteps, budget, Held, Holder
<1>3. Told'
  BY <1>1 DEF ListenTimesOut, Steps, TypeOK, ClientSteps, LeaderSteps, budget, Told, LockPid, Alive, Held, Holder
<1> QED
  BY <1>1, <1>2, <1>3

LEMMA ClientUnlinksKeeps ==
    ASSUME LockInv, NEW c \in Clients, ClientUnlinks(c)
    PROVE  LockInv'
<1> USE ElectionAssumption DEF LockInv
<1>1. TypeOK'
  BY DEF ClientUnlinks, Steps, TypeOK, ClientSteps, LeaderSteps, budget
<1>2. Held'
  BY <1>1 DEF ClientUnlinks, Steps, TypeOK, ClientSteps, LeaderSteps, budget, Held, Holder
<1>3. Told'
  BY <1>1 DEF ClientUnlinks, Steps, TypeOK, ClientSteps, LeaderSteps, budget, Told, LockPid, Alive, Held, Holder
<1> QED
  BY <1>1, <1>2, <1>3

LEMMA ClientClosesKeeps ==
    ASSUME LockInv, NEW c \in Clients, ClientCloses(c)
    PROVE  LockInv'
<1> USE ElectionAssumption DEF LockInv
<1>1. TypeOK'
  BY DEF ClientCloses, Unlocked, Errs, Idle, TypeOK, ClientSteps, LeaderSteps, budget
<1>2. Held'
  BY <1>1 DEF ClientCloses, Unlocked, Errs, Idle, TypeOK, ClientSteps, LeaderSteps, budget, Held, Holder
<1>3. Told'
  BY <1>1 DEF ClientCloses, Unlocked, Errs, Idle, TypeOK, ClientSteps, LeaderSteps, budget, Told, LockPid, Alive, Held, Holder
<1> QED
  BY <1>1, <1>2, <1>3

LEMMA DisconnectsKeeps ==
    ASSUME LockInv, NEW c \in Clients, Disconnects(c)
    PROVE  LockInv'
<1> USE ElectionAssumption DEF LockInv
<1>1. TypeOK'
  BY DEF Disconnects, Errs, Idle, TypeOK, ClientSteps, LeaderSteps, budget
<1>2. Held'
  BY <1>1 DEF Disconnects, Errs, Idle, TypeOK, ClientSteps, LeaderSteps, budget, Held, Holder
<1>3. Told'
  BY <1>1 DEF Disconnects, Errs, Idle, TypeOK, ClientSteps, LeaderSteps, budget, Told, LockPid, Alive, Held, Holder
<1> QED
  BY <1>1, <1>2, <1>3

LEMMA ClientCrashesKeeps ==
    ASSUME LockInv, NEW c \in Clients, ClientCrashes(c)
    PROVE  LockInv'
<1> USE ElectionAssumption DEF LockInv
<1>1. TypeOK'
  BY DEF ClientCrashes, Unlocked, Errs, Idle, TypeOK, ClientSteps, LeaderSteps, budget
<1>2. Held'
  BY <1>1 DEF ClientCrashes, Unlocked, Errs, Idle, TypeOK, ClientSteps, LeaderSteps, budget, Held, Holder
<1>3. Told'
  BY <1>1 DEF ClientCrashes, Unlocked, Errs, Idle, TypeOK, ClientSteps, LeaderSteps, budget, Told, LockPid, Alive, Held, Holder
<1> QED
  BY <1>1, <1>2, <1>3

LEMMA LeaderOpensKeeps ==
    ASSUME LockInv, NEW l \in Leaders, LeaderOpens(l)
    PROVE  LockInv'
<1> USE ElectionAssumption DEF LockInv
<1>1. TypeOK'
  <2>0. client \in [Clients -> ClientRecs] /\ leader \in [Leaders -> LeaderRecs]
    BY DEF TypeOK, ClientRecs, LeaderRecs
  <2>1. client' \in [Clients -> ClientRecs]
    BY <2>0, ClientUpdate, Constants DEF LeaderOpens, OpensFile, InUse, TypeOK
  <2>2. leader' \in [Leaders -> LeaderRecs]
    <3>1. PICK i \in Files : leader' = [leader EXCEPT ![l].pc = "opened", ![l].fd = i]
      BY DEF LeaderOpens
    <3> QED
      BY <2>0, <3>1, LeaderPcFd, Constants
  <2>3. flock' \in [Files -> Clients \cup Leaders \cup {None}] /\ lockPath' \in Files \cup {None}
    BY Unlocks DEF LeaderOpens, OpensFile, InUse, TypeOK
  <2>4. pid' \in [Files -> Leaders \cup {None}] /\ sock' \in Leaders \cup {None}
    BY DEF LeaderOpens, OpensFile, InUse, TypeOK
  <2>5. UNCHANGED budget
    BY DEF LeaderOpens, OpensFile, InUse
  <2> QED
    BY <2>1, <2>2, <2>3, <2>4, <2>5 DEF TypeOK, ClientRecs, LeaderRecs, budget
<1>2. Held'
  BY <1>1 DEF LeaderOpens, OpensFile, InUse, TypeOK, ClientSteps, LeaderSteps, budget, Held, Holder
<1>3. Told'
  BY <1>1 DEF LeaderOpens, OpensFile, InUse, TypeOK, ClientSteps, LeaderSteps, budget, Told, LockPid, Alive, Held, Holder
<1> QED
  BY <1>1, <1>2, <1>3

LEMMA LeaderTriesKeeps ==
    ASSUME LockInv, NEW l \in Leaders, LeaderTries(l)
    PROVE  LockInv'
<1> USE ElectionAssumption DEF LockInv
<1>1. TypeOK'
  <2>0. client \in [Clients -> ClientRecs] /\ leader \in [Leaders -> LeaderRecs]
    BY DEF TypeOK, ClientRecs, LeaderRecs
  <2>1. client' \in [Clients -> ClientRecs]
    BY <2>0, ClientUpdate, Constants DEF LeaderTries, TypeOK
  <2>2. leader' \in [Leaders -> LeaderRecs]
    <3>1. CASE leader' = [leader EXCEPT ![l].pc = "bind"]
      BY <2>0, <3>1, LeaderUpdate, Constants
    <3>2. CASE leader' = [leader EXCEPT ![l] = Dead]
      BY <2>0, <3>2, LeaderUpdate, Constants
    <3>3. CASE leader' = [leader EXCEPT ![l].pc = "bind", ![l].fd = None]
      BY <2>0, <3>3, LeaderPcFd, Constants
    <3> QED
      BY <3>1, <3>2, <3>3 DEF LeaderTries
  <2>3. flock' \in [Files -> Clients \cup Leaders \cup {None}] /\ lockPath' \in Files \cup {None}
    BY Unlocks DEF LeaderTries, TypeOK
  <2>4. pid' \in [Files -> Leaders \cup {None}] /\ sock' \in Leaders \cup {None}
    BY DEF LeaderTries, TypeOK
  <2>5. UNCHANGED budget
    BY DEF LeaderTries
  <2> QED
    BY <2>1, <2>2, <2>3, <2>4, <2>5 DEF TypeOK, ClientRecs, LeaderRecs, budget
<1>2. Held'
  <2>1. CASE flock[leader[l].fd] = None
    BY <1>1, <2>1 DEF LeaderTries, TypeOK, Held, Holder
  <2>2. CASE flock[leader[l].fd] # None
    <3>1. \A m \in Leaders : m # l => leader'[m] = leader[m]
      BY <2>2 DEF LeaderTries, TypeOK
    <3>2. leader'[l].pc = "dead" \/ (leader'[l].pc = "bind" /\ leader'[l].fd = None)
      BY <2>2 DEF LeaderTries, TypeOK, Dead
    <3>3. flock' = flock
      BY <2>2 DEF LeaderTries
    <3> QED
      BY <3>1, <3>2, <3>3 DEF Held, Holder
  <2> QED
    BY <2>1, <2>2
<1>3. Told'
  BY <1>1 DEF LeaderTries, Dead, TypeOK, ClientSteps, LeaderSteps, budget, Told, LockPid, Alive, Held, Holder
<1> QED
  BY <1>1, <1>2, <1>3

LEMMA BindsKeeps ==
    ASSUME LockInv, NEW l \in Leaders, Binds(l)
    PROVE  LockInv'
<1> USE ElectionAssumption DEF LockInv
<1>1. TypeOK'
  BY DEF Binds, TypeOK, ClientSteps, LeaderSteps, budget
<1>2. Held'
  BY <1>1 DEF Binds, TypeOK, ClientSteps, LeaderSteps, budget, Held, Holder
<1>3. Told'
  BY <1>1 DEF Binds, TypeOK, ClientSteps, LeaderSteps, budget, Told, LockPid, Alive, Held, Holder
<1> QED
  BY <1>1, <1>2, <1>3

LEMMA HandoffKeeps ==
    ASSUME LockInv, NEW l \in Leaders, Handoff(l)
    PROVE  LockInv'
<1> USE ElectionAssumption DEF LockInv
<1>1. TypeOK'
  <2>0. client \in [Clients -> ClientRecs] /\ leader \in [Leaders -> LeaderRecs]
    BY DEF TypeOK, ClientRecs, LeaderRecs
  <2>1. UNCHANGED <<flock, sock, client, budget>>
    BY DEF Handoff
  <2>2. leader' \in [Leaders -> LeaderRecs]
    <3>1. CASE leader' = [leader EXCEPT ![l].pc = "locked"]
      BY <2>0, <3>1, LeaderUpdate, Constants
    <3>2. CASE \E i \in Files : leader' = [leader EXCEPT ![l].pc = "handoff", ![l].fd = i]
      <4>1. PICK i \in Files : leader' = [leader EXCEPT ![l].pc = "handoff", ![l].fd = i]
        BY <3>2
      <4> QED
        BY <2>0, <4>1, LeaderPcFd, Constants
    <3> QED
      BY <3>1, <3>2 DEF Handoff
  <2>3. lockPath' \in Files \cup {None} /\ pid' \in [Files -> Leaders \cup {None}]
    BY DEF Handoff, OpensFile, TypeOK
  <2> QED
    BY <2>1, <2>2, <2>3 DEF TypeOK, LeaderRecs, budget
<1>2. Held'
  BY <1>1 DEF Handoff, OpensFile, InUse, TypeOK, ClientSteps, LeaderSteps, budget, Held, Holder
<1>3. Told'
  BY <1>1 DEF Handoff, OpensFile, InUse, TypeOK, ClientSteps, LeaderSteps, budget, Told, LockPid, Alive, Held, Holder
<1> QED
  BY <1>1, <1>2, <1>3

LEMMA TakesLockKeeps ==
    ASSUME LockInv, NEW l \in Leaders, TakesLock(l)
    PROVE  LockInv'
<1> USE ElectionAssumption DEF LockInv
<1>1. TypeOK'
  <2>0. client \in [Clients -> ClientRecs] /\ leader \in [Leaders -> LeaderRecs]
    BY DEF TypeOK, ClientRecs, LeaderRecs
  <2>1. client' \in [Clients -> ClientRecs]
    BY <2>0, ClientUpdate, Constants DEF TakesLock, TypeOK
  <2>2. leader' \in [Leaders -> LeaderRecs]
    BY <2>0, LeaderUpdate, Constants DEF TakesLock, TypeOK
  <2>3. flock' \in [Files -> Clients \cup Leaders \cup {None}] /\ lockPath' \in Files \cup {None}
    BY Unlocks DEF TakesLock, TypeOK
  <2>4. pid' \in [Files -> Leaders \cup {None}] /\ sock' \in Leaders \cup {None}
    BY DEF TakesLock, TypeOK
  <2>5. UNCHANGED budget
    BY DEF TakesLock
  <2> QED
    BY <2>1, <2>2, <2>3, <2>4, <2>5 DEF TypeOK, ClientRecs, LeaderRecs, budget
<1>2. Held'
  BY <1>1 DEF TakesLock, TypeOK, ClientSteps, LeaderSteps, budget, Held, Holder
<1>3. Told'
  BY <1>1 DEF TakesLock, TypeOK, ClientSteps, LeaderSteps, budget, Told, LockPid, Alive, Held, Holder
<1> QED
  BY <1>1, <1>2, <1>3

LEMMA GivesUpKeeps ==
    ASSUME LockInv, NEW l \in Leaders, GivesUp(l)
    PROVE  LockInv'
<1> USE ElectionAssumption DEF LockInv
<1>1. TypeOK'
  <2>0. client \in [Clients -> ClientRecs] /\ leader \in [Leaders -> LeaderRecs]
    BY DEF TypeOK, ClientRecs, LeaderRecs
  <2>1. client' \in [Clients -> ClientRecs]
    BY <2>0, ClientUpdate, Constants DEF GivesUp, TypeOK
  <2>2. leader' \in [Leaders -> LeaderRecs]
    <3>1. CASE leader' = [leader EXCEPT ![l].pc = "dropping"]
      BY <2>0, <3>1, LeaderUpdate, Constants
    <3>2. CASE leader' = [leader EXCEPT ![l] = Dead]
      BY <2>0, <3>2, LeaderUpdate, Constants
    <3> QED
      BY <3>1, <3>2 DEF GivesUp
  <2>3. flock' \in [Files -> Clients \cup Leaders \cup {None}] /\ lockPath' \in Files \cup {None}
    BY Unlocks DEF GivesUp, TypeOK
  <2>4. pid' \in [Files -> Leaders \cup {None}] /\ sock' \in Leaders \cup {None}
    BY DEF GivesUp, TypeOK
  <2>5. UNCHANGED budget
    BY DEF GivesUp
  <2> QED
    BY <2>1, <2>2, <2>3, <2>4, <2>5 DEF TypeOK, ClientRecs, LeaderRecs, budget
<1>2. Held'
  BY <1>1 DEF GivesUp, Dead, TypeOK, ClientSteps, LeaderSteps, budget, Held, Holder
<1>3. Told'
  BY <1>1 DEF GivesUp, Dead, TypeOK, ClientSteps, LeaderSteps, budget, Told, LockPid, Alive, Held, Holder
<1> QED
  BY <1>1, <1>2, <1>3

LEMMA BecomesReadyKeeps ==
    ASSUME LockInv, NEW l \in Leaders, BecomesReady(l)
    PROVE  LockInv'
<1> USE ElectionAssumption DEF LockInv
<1>1. TypeOK'
  BY DEF BecomesReady, TypeOK, ClientSteps, LeaderSteps, budget
<1>2. Held'
  BY <1>1 DEF BecomesReady, TypeOK, ClientSteps, LeaderSteps, budget, Held, Holder
<1>3. Told'
  BY <1>1 DEF BecomesReady, TypeOK, ClientSteps, LeaderSteps, budget, Told, LockPid, Alive, Held, Holder
<1> QED
  BY <1>1, <1>2, <1>3

LEMMA ToldToStopKeeps ==
    ASSUME LockInv, NEW l \in Leaders, ToldToStop(l)
    PROVE  LockInv'
<1> USE ElectionAssumption DEF LockInv
<1>1. TypeOK'
  BY DEF ToldToStop, TypeOK, ClientSteps, LeaderSteps, budget
<1>2. Held'
  BY <1>1 DEF ToldToStop, TypeOK, ClientSteps, LeaderSteps, budget, Held, Holder
<1>3. Told'
  BY <1>1 DEF ToldToStop, TypeOK, ClientSteps, LeaderSteps, budget, Told, LockPid, Alive, Held, Holder
<1> QED
  BY <1>1, <1>2, <1>3

LEMMA ServerEndsKeeps ==
    ASSUME LockInv, NEW l \in Leaders, ServerEnds(l)
    PROVE  LockInv'
<1> USE ElectionAssumption DEF LockInv
<1>1. TypeOK'
  BY DEF ServerEnds, TypeOK, ClientSteps, LeaderSteps, budget
<1>2. Held'
  BY <1>1 DEF ServerEnds, TypeOK, ClientSteps, LeaderSteps, budget, Held, Holder
<1>3. Told'
  BY <1>1 DEF ServerEnds, TypeOK, ClientSteps, LeaderSteps, budget, Told, LockPid, Alive, Held, Holder
<1> QED
  BY <1>1, <1>2, <1>3

LEMMA LeaderUnlinksKeeps ==
    ASSUME LockInv, NEW l \in Leaders, LeaderUnlinks(l)
    PROVE  LockInv'
<1> USE ElectionAssumption DEF LockInv
<1>1. TypeOK'
  BY DEF LeaderUnlinks, TypeOK, ClientSteps, LeaderSteps, budget
<1>2. Held'
  BY <1>1 DEF LeaderUnlinks, TypeOK, ClientSteps, LeaderSteps, budget, Held, Holder
<1>3. Told'
  BY <1>1 DEF LeaderUnlinks, TypeOK, ClientSteps, LeaderSteps, budget, Told, LockPid, Alive, Held, Holder
<1> QED
  BY <1>1, <1>2, <1>3

LEMMA LeaderClosesKeeps ==
    ASSUME LockInv, NEW l \in Leaders, LeaderCloses(l)
    PROVE  LockInv'
<1> USE ElectionAssumption DEF LockInv
<1>1. TypeOK'
  BY DEF LeaderCloses, Unlocked, Dead, TypeOK, ClientSteps, LeaderSteps, budget
<1>2. Held'
  BY <1>1 DEF LeaderCloses, Unlocked, Dead, TypeOK, ClientSteps, LeaderSteps, budget, Held, Holder
<1>3. Told'
  BY <1>1 DEF LeaderCloses, Unlocked, Dead, TypeOK, ClientSteps, LeaderSteps, budget, Told, LockPid, Alive, Held, Holder
<1> QED
  BY <1>1, <1>2, <1>3

LEMMA LeaderCrashesKeeps ==
    ASSUME LockInv, NEW l \in Leaders, LeaderCrashes(l)
    PROVE  LockInv'
<1> USE ElectionAssumption DEF LockInv
<1>1. TypeOK'
  BY DEF LeaderCrashes, Unlocked, Dead, TypeOK, ClientSteps, LeaderSteps, budget
<1>2. Held'
  BY <1>1 DEF LeaderCrashes, Unlocked, Dead, TypeOK, ClientSteps, LeaderSteps, budget, Held, Holder
<1>3. Told'
  BY <1>1 DEF LeaderCrashes, Unlocked, Dead, TypeOK, ClientSteps, LeaderSteps, budget, Told, LockPid, Alive, Held, Holder
<1> QED
  BY <1>1, <1>2, <1>3

----------------------------------------------------------------------------
\* What is true of the lock file at the start stays true through every step of a
\* client or a Leader, crashes and kills included.
THEOREM LockInvariant == Spec => []LockInv
<1>1. Init => LockInv
  <2> SUFFICES ASSUME Init PROVE LockInv
    OBVIOUS
  <2> USE ElectionAssumption
  <2>1. TypeOK
    <3>1. client \in [Clients -> ClientRecs]
      BY DEF Init, Idle, ClientRecs, ClientSteps
    <3>2. 1 \in Files
      BY DEF Files
    <3>3. [pc |-> "ready", fd |-> 1, stale |-> TRUE] \in LeaderRecs
      BY <3>2 DEF LeaderRecs, LeaderSteps
    <3>4. leader \in [Leaders -> LeaderRecs]
      BY <3>3, Constants DEF Init
    <3>5. flock \in [Files -> Clients \cup Leaders \cup {None}] /\ pid \in [Files -> Leaders \cup {None}]
      BY DEF Init
    <3>6. lockPath \in Files \cup {None} /\ sock \in Leaders \cup {None}
      BY <3>2 DEF Init
    <3>7. crashes \in 0 .. MaxCrashes /\ kills \in 0 .. MaxKills /\ exits \in 0 .. MaxExits
      BY DEF Init
    <3> QED
      BY <3>1, <3>4, <3>5, <3>6, <3>7 DEF TypeOK, ClientRecs, LeaderRecs
  <2>2. Held
    BY DEF Init, Held, Holder, Dead, Files
  <2>3. Told
    BY DEF Init, Told, LockPid, Alive, Dead, Files
  <2> QED
    BY <2>1, <2>2, <2>3 DEF LockInv
<1>2. LockInv /\ [Next]_vars => LockInv'
  <2> SUFFICES ASSUME LockInv, [Next]_vars PROVE LockInv'
    OBVIOUS
  <2>1. ASSUME NEW c \in Clients, Begins(c) PROVE LockInv'
    BY <2>1, BeginsKeeps
  <2>2. ASSUME NEW c \in Clients, Connects(c) PROVE LockInv'
    BY <2>2, ConnectsKeeps
  <2>3. ASSUME NEW c \in Clients, ConnectFails(c) PROVE LockInv'
    BY <2>3, ConnectFailsKeeps
  <2>4. ASSUME NEW c \in Clients, ReadyFails(c) PROVE LockInv'
    BY <2>4, ReadyFailsKeeps
  <2>5. ASSUME NEW c \in Clients, Registers(c) PROVE LockInv'
    BY <2>5, RegistersKeeps
  <2>6. ASSUME NEW c \in Clients, ClientOpens(c) PROVE LockInv'
    BY <2>6, ClientOpensKeeps
  <2>7. ASSUME NEW c \in Clients, ClientLocks(c) PROVE LockInv'
    BY <2>7, ClientLocksKeeps
  <2>8. ASSUME NEW c \in Clients, WaitEnds(c) PROVE LockInv'
    BY <2>8, WaitEndsKeeps
  <2>10. ASSUME NEW c \in Clients, Spawns(c) PROVE LockInv'
    BY <2>10, SpawnsKeeps
  <2>11. ASSUME NEW c \in Clients, SeesListener(c) PROVE LockInv'
    BY <2>11, SeesListenerKeeps
  <2>12. ASSUME NEW c \in Clients, ListenTimesOut(c) PROVE LockInv'
    BY <2>12, ListenTimesOutKeeps
  <2>13. ASSUME NEW c \in Clients, ClientUnlinks(c) PROVE LockInv'
    BY <2>13, ClientUnlinksKeeps
  <2>14. ASSUME NEW c \in Clients, ClientCloses(c) PROVE LockInv'
    BY <2>14, ClientClosesKeeps
  <2>15. ASSUME NEW c \in Clients, Disconnects(c) PROVE LockInv'
    BY <2>15, DisconnectsKeeps
  <2>16. ASSUME NEW c \in Clients, ClientCrashes(c) PROVE LockInv'
    BY <2>16, ClientCrashesKeeps
  <2>17. ASSUME NEW l \in Leaders, LeaderOpens(l) PROVE LockInv'
    BY <2>17, LeaderOpensKeeps
  <2>18. ASSUME NEW l \in Leaders, LeaderTries(l) PROVE LockInv'
    BY <2>18, LeaderTriesKeeps
  <2>19. ASSUME NEW l \in Leaders, Binds(l) PROVE LockInv'
    BY <2>19, BindsKeeps
  <2>20. ASSUME NEW l \in Leaders, Handoff(l) PROVE LockInv'
    BY <2>20, HandoffKeeps
  <2>21. ASSUME NEW l \in Leaders, TakesLock(l) PROVE LockInv'
    BY <2>21, TakesLockKeeps
  <2>22. ASSUME NEW l \in Leaders, GivesUp(l) PROVE LockInv'
    BY <2>22, GivesUpKeeps
  <2>23. ASSUME NEW l \in Leaders, BecomesReady(l) PROVE LockInv'
    BY <2>23, BecomesReadyKeeps
  <2>24. ASSUME NEW l \in Leaders, ToldToStop(l) PROVE LockInv'
    BY <2>24, ToldToStopKeeps
  <2>25. ASSUME NEW l \in Leaders, ServerEnds(l) PROVE LockInv'
    BY <2>25, ServerEndsKeeps
  <2>26. ASSUME NEW l \in Leaders, LeaderUnlinks(l) PROVE LockInv'
    BY <2>26, LeaderUnlinksKeeps
  <2>27. ASSUME NEW l \in Leaders, LeaderCloses(l) PROVE LockInv'
    BY <2>27, LeaderClosesKeeps
  <2>28. ASSUME NEW l \in Leaders, LeaderCrashes(l) PROVE LockInv'
    BY <2>28, LeaderCrashesKeeps
  <2>29. ASSUME NEW c \in Clients, SpawnFails(c) PROVE LockInv'
    BY <2>29, SpawnFailsKeeps
  <2>30. CASE UNCHANGED vars
    BY <2>30 DEF vars, LockInv, TypeOK, Held, Holder, Told, LockPid, Alive
  <2> QED
    BY <2>1, <2>2, <2>3, <2>4, <2>5, <2>6, <2>7, <2>8, <2>10, <2>11, <2>12, <2>13, <2>14, <2>15, <2>16, <2>17, <2>18, <2>19, <2>20, <2>21, <2>22, <2>23, <2>24, <2>25, <2>26, <2>27, <2>28, <2>29, <2>30
       DEF Next, ClientStep, LeaderStep
<1> QED
  BY <1>1, <1>2, PTL DEF Spec

\* Every record of LeaderElection stays in its type.
THEOREM ElectionTypeCorrect == Spec => []TypeOK
BY LockInvariant, PTL DEF LockInv

\* A Leader that serves holds its lock, and a live pid at the lock path is that of
\* the holder of the lock (LockTruthful).
THEOREM LockFileTruthful == Spec => []LockTruthful
<1>1. LockInv => LockTruthful
  BY DEF LockInv, LockTruthful, Held, Holder, Told, Serving
<1> QED
  BY <1>1, LockInvariant, PTL

----------------------------------------------------------------------------
(* Without faults one Leader at a time is on its way to the socket: its     *)
(* spawner holds the lock until the Leader has bound, so no Leader ever     *)
(* takes the lock before it binds, none gives it up, and nobody unlinks the *)
(* lock path.  All open files are then the file at the lock path, and its   *)
(* lock admits one Host.                                                    *)

\* No process is killed, told to stop or fails to start, and none is stale.
FaultFree ==
    /\ MaxCrashes = 0 /\ MaxKills = 0 /\ MaxExits = 0
    /\ StaleAtStart = FALSE /\ SpawnMayFail = FALSE

\* A Leader that has not bound the socket yet.
Rising(l) == leader[l].pc \in {"start", "opened", "bind"}

CalmClient(c) ==
    /\ client[c].pc \notin {"drop", "close"}
    /\ client[c].fd # None => client[c].fd = lockPath
    /\ client[c].pc \in {"opened", "under", "clean", "listen"} => client[c].fd # None
    /\ client[c].pc \in {"under", "clean", "listen"} => flock[lockPath] = c

CalmLeader(l) ==
    /\ leader[l].pc \notin {"draining", "dropping", "close"} /\ leader[l].stale = FALSE
    /\ leader[l].fd # None => leader[l].fd = lockPath
    /\ leader[l].pc \in {"opened", "handoff", "locked", "ready"} => leader[l].fd # None
    /\ leader[l].pc \in {"start", "bind", "bound"} => leader[l].fd = None
    /\ leader[l].pc \in {"locked", "ready"} => flock[lockPath] = l

\* One Leader at most is about to bind, the socket is not there before, and the
\* client that spawned it holds the lock and waits.
RisingAwaited ==
    \A l \in Leaders : Rising(l) =>
        /\ sock = None
        /\ \E c \in Clients : client[c].pc = "listen"
        /\ \A m \in Leaders : Rising(m) => m = l

\* A client that waits for the socket has it, or a Leader is about to bind.
AwaitedRises ==
    \A c \in Clients : client[c].pc = "listen" => sock # None \/ \E l \in Leaders : Rising(l)

CalmInv ==
    /\ \A c \in Clients : CalmClient(c)
    /\ \A l \in Leaders : CalmLeader(l)
    /\ RisingAwaited /\ AwaitedRises

LEMMA FileNames == None \notin Files
BY ElectionAssumption DEF Files

\* What a failed attempt to connect leaves of the client.
LEMMA UnreachedMoves ==
    ASSUME TypeOK, NEW c \in Clients, Connecting(c), Unreached(c)
    PROVE  /\ \A d \in Clients : d # c => client'[d] = client[d]
           /\ client'[c].conn = None
           /\ \/ client[c].pc = "fast" /\ client'[c].pc = "lock" /\ client'[c].fd = client[c].fd
              \/ client[c].pc = "waiting" /\ client'[c].pc = "waiting" /\ client'[c].fd = client[c].fd
              \/ client[c].pc = "under" /\ client'[c].pc = "clean" /\ client'[c].fd = client[c].fd
              \/ client[c].pc = "final" /\ client'[c].pc = "idle" /\ client'[c].fd = None
<1> USE DEF TypeOK
<1>1. CASE client[c].pc = "fast"
  BY <1>1 DEF Unreached
<1>2. CASE client[c].pc = "waiting"
  BY <1>2 DEF Unreached
<1>3. CASE client[c].pc = "under"
  BY <1>3 DEF Unreached
<1>4. CASE client[c].pc = "final"
  BY <1>4 DEF Unreached, Errs, Idle
<1> QED
  BY <1>1, <1>2, <1>3, <1>4 DEF Connecting

LEMMA BeginsCalm ==
    ASSUME FaultFree, LockInv, LockInv', CalmInv, NEW c \in Clients, Begins(c)
    PROVE  CalmInv'
<1> USE ElectionAssumption DEF LockInv, TypeOK, CalmInv, Rising, FaultFree
<1>1. \A d \in Clients : CalmClient(d)'
  BY DEF Begins, Steps, CalmClient, RisingAwaited, AwaitedRises, CalmLeader
<1>2. \A k \in Leaders : CalmLeader(k)'
  BY DEF Begins, Steps, CalmLeader, CalmClient, RisingAwaited, AwaitedRises
<1>3. RisingAwaited'
  BY DEF Begins, Steps, RisingAwaited, CalmClient, CalmLeader
<1>4. AwaitedRises'
  BY DEF Begins, Steps, AwaitedRises, RisingAwaited, CalmClient, CalmLeader
<1> QED
  BY <1>1, <1>2, <1>3, <1>4

LEMMA ConnectsCalm ==
    ASSUME FaultFree, LockInv, LockInv', CalmInv, NEW c \in Clients, Connects(c)
    PROVE  CalmInv'
<1> USE ElectionAssumption DEF LockInv, TypeOK, CalmInv, Rising, FaultFree
<1>1. \A d \in Clients : CalmClient(d)'
  BY DEF Connects, Connecting, CalmClient, RisingAwaited, AwaitedRises, CalmLeader
<1>2. \A k \in Leaders : CalmLeader(k)'
  BY DEF Connects, Connecting, CalmLeader, CalmClient, RisingAwaited, AwaitedRises
<1>3. RisingAwaited'
  BY DEF Connects, Connecting, RisingAwaited, CalmClient, CalmLeader
<1>4. AwaitedRises'
  BY DEF Connects, Connecting, AwaitedRises, RisingAwaited, CalmClient, CalmLeader
<1> QED
  BY <1>1, <1>2, <1>3, <1>4

LEMMA UnreachedCalm ==
    ASSUME FaultFree, LockInv, LockInv', CalmInv, NEW c \in Clients, Connecting(c), Unreached(c),
           UNCHANGED <<lockPath, flock, pid, sock, leader, budget>>
    PROVE  CalmInv'
<1> USE ElectionAssumption DEF LockInv, CalmInv, Rising
<1>0. /\ \A d \in Clients : d # c => client'[d] = client[d]
      /\ client[c].pc # "listen" /\ client'[c].pc # "listen"
  BY UnreachedMoves
<1>1. \A d \in Clients : CalmClient(d)'
  BY UnreachedMoves DEF CalmClient
<1>2. \A k \in Leaders : CalmLeader(k)'
  BY DEF CalmLeader
<1>3. RisingAwaited'
  BY <1>0 DEF RisingAwaited
<1>4. AwaitedRises'
  BY <1>0 DEF AwaitedRises
<1> QED
  BY <1>1, <1>2, <1>3, <1>4

LEMMA RegistersCalm ==
    ASSUME FaultFree, LockInv, LockInv', CalmInv, NEW c \in Clients, Registers(c)
    PROVE  CalmInv'
<1> USE ElectionAssumption DEF LockInv, TypeOK, CalmInv, Rising, FaultFree
<1>1. \A d \in Clients : CalmClient(d)'
  BY DEF Registers, Connecting, Adopts, Unlocked, CalmClient, RisingAwaited, AwaitedRises, CalmLeader
<1>2. \A k \in Leaders : CalmLeader(k)'
  BY DEF Registers, Connecting, Adopts, Unlocked, CalmLeader, CalmClient, RisingAwaited, AwaitedRises
<1>3. RisingAwaited'
  BY DEF Registers, Connecting, Adopts, Unlocked, RisingAwaited, CalmClient, CalmLeader
<1>4. AwaitedRises'
  BY DEF Registers, Connecting, Adopts, Unlocked, AwaitedRises, RisingAwaited, CalmClient, CalmLeader
<1> QED
  BY <1>1, <1>2, <1>3, <1>4

LEMMA ClientOpensCalm ==
    ASSUME FaultFree, LockInv, LockInv', CalmInv, NEW c \in Clients, ClientOpens(c)
    PROVE  CalmInv'
<1> USE ElectionAssumption DEF LockInv, CalmInv, Rising
<1>0. PICK i \in Files :
        /\ OpensFile(i)
        /\ client' = [client EXCEPT ![c].pc = "opened", ![c].fd = i, ![c].failed = FALSE]
  BY DEF ClientOpens
<1>1. /\ \A d \in Clients : d # c => client'[d] = client[d]
      /\ client[c].pc = "lock" /\ client'[c].pc = "opened" /\ client'[c].fd = i
      /\ UNCHANGED <<flock, sock, leader>> /\ lockPath' = i /\ lockPath \in {i, None} /\ i # None
  BY <1>0, FileNames DEF ClientOpens, OpensFile, TypeOK
<1>2. \A d \in Clients : CalmClient(d)'
  BY <1>1 DEF CalmClient
<1>3. \A k \in Leaders : CalmLeader(k)'
  BY <1>1 DEF CalmLeader
<1>4. RisingAwaited'
  BY <1>1 DEF RisingAwaited
<1>5. AwaitedRises'
  BY <1>1 DEF AwaitedRises
<1> QED
  BY <1>2, <1>3, <1>4, <1>5

LEMMA ClientLocksCalm ==
    ASSUME FaultFree, LockInv, LockInv', CalmInv, NEW c \in Clients, ClientLocks(c)
    PROVE  CalmInv'
<1> USE ElectionAssumption DEF LockInv, TypeOK, CalmInv, Rising, FaultFree
<1>1. \A d \in Clients : CalmClient(d)'
  BY DEF ClientLocks, Steps, CalmClient, RisingAwaited, AwaitedRises, CalmLeader
<1>2. \A k \in Leaders : CalmLeader(k)'
  BY DEF ClientLocks, Steps, CalmLeader, CalmClient, RisingAwaited, AwaitedRises
<1>3. RisingAwaited'
  BY DEF ClientLocks, Steps, RisingAwaited, CalmClient, CalmLeader
<1>4. AwaitedRises'
  BY DEF ClientLocks, Steps, AwaitedRises, RisingAwaited, CalmClient, CalmLeader
<1> QED
  BY <1>1, <1>2, <1>3, <1>4

LEMMA WaitEndsCalm ==
    ASSUME FaultFree, LockInv, LockInv', CalmInv, NEW c \in Clients, WaitEnds(c)
    PROVE  CalmInv'
<1> USE ElectionAssumption DEF LockInv, TypeOK, CalmInv, Rising, FaultFree
<1>1. \A d \in Clients : CalmClient(d)'
  BY DEF WaitEnds, Errs, Idle, Steps, CalmClient, RisingAwaited, AwaitedRises, CalmLeader
<1>2. \A k \in Leaders : CalmLeader(k)'
  BY DEF WaitEnds, Errs, Idle, Steps, CalmLeader, CalmClient, RisingAwaited, AwaitedRises
<1>3. RisingAwaited'
  BY DEF WaitEnds, Errs, Idle, Steps, RisingAwaited, CalmClient, CalmLeader
<1>4. AwaitedRises'
  BY DEF WaitEnds, Errs, Idle, Steps, AwaitedRises, RisingAwaited, CalmClient, CalmLeader
<1> QED
  BY <1>1, <1>2, <1>3, <1>4

LEMMA SpawnsCalm ==
    ASSUME FaultFree, LockInv, LockInv', CalmInv, NEW c \in Clients, Spawns(c)
    PROVE  CalmInv'
<1> USE ElectionAssumption DEF LockInv, TypeOK, CalmInv, Rising, FaultFree
<1>1. \A d \in Clients : CalmClient(d)'
  BY DEF Spawns, Steps, Fresh, CalmClient, RisingAwaited, AwaitedRises, CalmLeader
<1>2. \A k \in Leaders : CalmLeader(k)'
  BY DEF Spawns, Steps, Fresh, CalmLeader, CalmClient, RisingAwaited, AwaitedRises
<1>3. RisingAwaited'
  BY DEF Spawns, Steps, Fresh, RisingAwaited, CalmClient, CalmLeader
<1>4. AwaitedRises'
  BY DEF Spawns, Steps, Fresh, AwaitedRises, RisingAwaited, CalmClient, CalmLeader
<1> QED
  BY <1>1, <1>2, <1>3, <1>4

LEMMA SeesListenerCalm ==
    ASSUME FaultFree, LockInv, LockInv', CalmInv, NEW c \in Clients, SeesListener(c)
    PROVE  CalmInv'
<1> USE ElectionAssumption DEF LockInv, TypeOK, CalmInv, Rising, FaultFree
<1>1. \A d \in Clients : CalmClient(d)'
  BY DEF SeesListener, Unlocked, CalmClient, RisingAwaited, AwaitedRises, CalmLeader
<1>2. \A k \in Leaders : CalmLeader(k)'
  BY DEF SeesListener, Unlocked, CalmLeader, CalmClient, RisingAwaited, AwaitedRises
<1>3. RisingAwaited'
  BY DEF SeesListener, Unlocked, RisingAwaited, CalmClient, CalmLeader
<1>4. AwaitedRises'
  BY DEF SeesListener, Unlocked, AwaitedRises, RisingAwaited, CalmClient, CalmLeader
<1> QED
  BY <1>1, <1>2, <1>3, <1>4

LEMMA DisconnectsCalm ==
    ASSUME FaultFree, LockInv, LockInv', CalmInv, NEW c \in Clients, Disconnects(c)
    PROVE  CalmInv'
<1> USE ElectionAssumption DEF LockInv, TypeOK, CalmInv, Rising, FaultFree
<1>1. \A d \in Clients : CalmClient(d)'
  BY DEF Disconnects, Errs, Idle, CalmClient, RisingAwaited, AwaitedRises, CalmLeader
<1>2. \A k \in Leaders : CalmLeader(k)'
  BY DEF Disconnects, Errs, Idle, CalmLeader, CalmClient, RisingAwaited, AwaitedRises
<1>3. RisingAwaited'
  BY DEF Disconnects, Errs, Idle, RisingAwaited, CalmClient, CalmLeader
<1>4. AwaitedRises'
  BY DEF Disconnects, Errs, Idle, AwaitedRises, RisingAwaited, CalmClient, CalmLeader
<1> QED
  BY <1>1, <1>2, <1>3, <1>4

LEMMA LeaderOpensCalm ==
    ASSUME FaultFree, LockInv, LockInv', CalmInv, NEW l \in Leaders, LeaderOpens(l)
    PROVE  CalmInv'
<1> USE ElectionAssumption DEF LockInv, TypeOK, CalmInv, Rising, FaultFree
<1>1. \A d \in Clients : CalmClient(d)'
  BY DEF LeaderOpens, OpensFile, CalmClient, RisingAwaited, AwaitedRises, CalmLeader
<1>2. \A k \in Leaders : CalmLeader(k)'
  BY DEF LeaderOpens, OpensFile, CalmLeader, CalmClient, RisingAwaited, AwaitedRises
<1>3. RisingAwaited'
  BY DEF LeaderOpens, OpensFile, RisingAwaited, CalmClient, CalmLeader
<1>4. AwaitedRises'
  BY DEF LeaderOpens, OpensFile, AwaitedRises, RisingAwaited, CalmClient, CalmLeader
<1> QED
  BY <1>1, <1>2, <1>3, <1>4

LEMMA LeaderTriesCalm ==
    ASSUME FaultFree, LockInv, LockInv', CalmInv, NEW l \in Leaders, LeaderTries(l)
    PROVE  CalmInv'
<1> USE ElectionAssumption DEF LockInv, TypeOK, CalmInv, Rising, FaultFree
<1>1. \A d \in Clients : CalmClient(d)'
  BY DEF LeaderTries, Dead, CalmClient, RisingAwaited, AwaitedRises, CalmLeader
<1>2. \A k \in Leaders : CalmLeader(k)'
  BY DEF LeaderTries, Dead, CalmLeader, CalmClient, RisingAwaited, AwaitedRises
<1>3. RisingAwaited'
  BY DEF LeaderTries, Dead, RisingAwaited, CalmClient, CalmLeader
<1>4. AwaitedRises'
  BY DEF LeaderTries, Dead, AwaitedRises, RisingAwaited, CalmClient, CalmLeader
<1> QED
  BY <1>1, <1>2, <1>3, <1>4

LEMMA BindsCalm ==
    ASSUME FaultFree, LockInv, LockInv', CalmInv, NEW l \in Leaders, Binds(l)
    PROVE  CalmInv'
<1> USE ElectionAssumption DEF LockInv, TypeOK, CalmInv, Rising, FaultFree
<1>1. \A d \in Clients : CalmClient(d)'
  BY DEF Binds, CalmClient, RisingAwaited, AwaitedRises, CalmLeader
<1>2. \A k \in Leaders : CalmLeader(k)'
  BY DEF Binds, CalmLeader, CalmClient, RisingAwaited, AwaitedRises
<1>3. RisingAwaited'
  BY DEF Binds, RisingAwaited, CalmClient, CalmLeader
<1>4. AwaitedRises'
  BY DEF Binds, AwaitedRises, RisingAwaited, CalmClient, CalmLeader
<1> QED
  BY <1>1, <1>2, <1>3, <1>4

LEMMA HandoffCalm ==
    ASSUME FaultFree, LockInv, LockInv', CalmInv, NEW l \in Leaders, Handoff(l)
    PROVE  CalmInv'
<1> USE ElectionAssumption DEF LockInv, CalmInv, Rising
<1>0. PICK i \in Files :
        /\ OpensFile(i)
        /\ leader' = [leader EXCEPT ![l].pc = "handoff", ![l].fd = i]
  BY DEF Handoff, CalmLeader
<1>a. leader[l].pc = "bound" /\ UNCHANGED <<flock, sock, client>>
  BY DEF Handoff
<1>b. /\ \A k \in Leaders : k # l => leader'[k] = leader[k]
      /\ leader'[l].pc = "handoff" /\ leader'[l].fd = i /\ leader'[l].stale = leader[l].stale
  BY <1>0 DEF TypeOK
<1>c. lockPath' = i /\ lockPath \in {i, None} /\ i # None
  BY <1>0, FileNames DEF OpensFile
<1>1. /\ \A k \in Leaders : k # l => leader'[k] = leader[k]
      /\ leader[l].pc = "bound" /\ leader'[l].pc = "handoff" /\ leader'[l].fd = i
      /\ leader'[l].stale = leader[l].stale
      /\ UNCHANGED <<flock, sock, client>> /\ lockPath' = i /\ lockPath \in {i, None} /\ i # None
  BY <1>a, <1>b, <1>c
<1>2. \A d \in Clients : CalmClient(d)'
  BY <1>1 DEF CalmClient
<1>3. \A k \in Leaders : CalmLeader(k)'
  BY <1>1 DEF CalmLeader
<1>4. RisingAwaited'
  BY <1>1 DEF RisingAwaited
<1>5. AwaitedRises'
  BY <1>1 DEF AwaitedRises
<1> QED
  BY <1>2, <1>3, <1>4, <1>5

LEMMA TakesLockCalm ==
    ASSUME FaultFree, LockInv, LockInv', CalmInv, NEW l \in Leaders, TakesLock(l)
    PROVE  CalmInv'
<1> USE ElectionAssumption DEF LockInv, TypeOK, CalmInv, Rising, FaultFree
<1>1. \A d \in Clients : CalmClient(d)'
  BY DEF TakesLock, CalmClient, RisingAwaited, AwaitedRises, CalmLeader
<1>2. \A k \in Leaders : CalmLeader(k)'
  BY DEF TakesLock, CalmLeader, CalmClient, RisingAwaited, AwaitedRises
<1>3. RisingAwaited'
  BY DEF TakesLock, RisingAwaited, CalmClient, CalmLeader
<1>4. AwaitedRises'
  BY DEF TakesLock, AwaitedRises, RisingAwaited, CalmClient, CalmLeader
<1> QED
  BY <1>1, <1>2, <1>3, <1>4

LEMMA GivesUpCalm ==
    ASSUME FaultFree, LockInv, LockInv', CalmInv, NEW l \in Leaders, GivesUp(l)
    PROVE  CalmInv'
<1> USE ElectionAssumption DEF LockInv, TypeOK, CalmInv, Rising, FaultFree
<1>1. \A d \in Clients : CalmClient(d)'
  BY DEF GivesUp, Dead, CalmClient, RisingAwaited, AwaitedRises, CalmLeader
<1>2. \A k \in Leaders : CalmLeader(k)'
  BY DEF GivesUp, Dead, CalmLeader, CalmClient, RisingAwaited, AwaitedRises
<1>3. RisingAwaited'
  BY DEF GivesUp, Dead, RisingAwaited, CalmClient, CalmLeader
<1>4. AwaitedRises'
  BY DEF GivesUp, Dead, AwaitedRises, RisingAwaited, CalmClient, CalmLeader
<1> QED
  BY <1>1, <1>2, <1>3, <1>4

LEMMA BecomesReadyCalm ==
    ASSUME FaultFree, LockInv, LockInv', CalmInv, NEW l \in Leaders, BecomesReady(l)
    PROVE  CalmInv'
<1> USE ElectionAssumption DEF LockInv, TypeOK, CalmInv, Rising, FaultFree
<1>1. \A d \in Clients : CalmClient(d)'
  BY DEF BecomesReady, CalmClient, RisingAwaited, AwaitedRises, CalmLeader
<1>2. \A k \in Leaders : CalmLeader(k)'
  BY DEF BecomesReady, CalmLeader, CalmClient, RisingAwaited, AwaitedRises
<1>3. RisingAwaited'
  BY DEF BecomesReady, RisingAwaited, CalmClient, CalmLeader
<1>4. AwaitedRises'
  BY DEF BecomesReady, AwaitedRises, RisingAwaited, CalmClient, CalmLeader
<1> QED
  BY <1>1, <1>2, <1>3, <1>4

LEMMA CalmStep ==
    ASSUME FaultFree, LockInv, LockInv', CalmInv, [Next]_vars
    PROVE  CalmInv'
<1>1. ASSUME NEW c \in Clients, ClientStep(c) \/ Begins(c) \/ Disconnects(c) \/ ClientCrashes(c)
      PROVE  CalmInv'
  <2>1. CASE Begins(c)
    BY <2>1, BeginsCalm
  <2>2. CASE Connects(c)
    BY <2>2, ConnectsCalm
  <2>3. CASE ConnectFails(c)
    BY <2>3, UnreachedCalm DEF ConnectFails
  <2>4. CASE ReadyFails(c)
    BY <2>4, UnreachedCalm DEF ReadyFails
  <2>5. CASE Registers(c)
    BY <2>5, RegistersCalm
  <2>6. CASE ClientOpens(c)
    BY <2>6, ClientOpensCalm
  <2>7. CASE ClientLocks(c)
    BY <2>7, ClientLocksCalm
  <2>8. CASE WaitEnds(c)
    BY <2>8, WaitEndsCalm
  <2>9. CASE Spawns(c)
    BY <2>9, SpawnsCalm
  <2>10. CASE SeesListener(c)
    BY <2>10, SeesListenerCalm
  <2>11. CASE Disconnects(c)
    BY <2>11, DisconnectsCalm
  <2>12. ~ SpawnFails(c)
    BY DEF SpawnFails, FaultFree
  <2>13. ~ ListenTimesOut(c)
    BY DEF ListenTimesOut, CalmInv, AwaitedRises, Rising
  <2>14. ~ ClientUnlinks(c) /\ ~ ClientCloses(c)
    BY DEF ClientUnlinks, ClientCloses, CalmInv, CalmClient
  <2>15. ~ ClientCrashes(c)
    BY DEF ClientCrashes, FaultFree, LockInv, TypeOK
  <2> QED
    BY <1>1, <2>1, <2>2, <2>3, <2>4, <2>5, <2>6, <2>7, <2>8, <2>9, <2>10, <2>11, <2>12, <2>13,
       <2>14, <2>15 DEF ClientStep
<1>2. ASSUME NEW l \in Leaders, LeaderStep(l) \/ ToldToStop(l) \/ LeaderCrashes(l)
      PROVE  CalmInv'
  <2>1. CASE LeaderOpens(l)
    BY <2>1, LeaderOpensCalm
  <2>2. CASE LeaderTries(l)
    BY <2>2, LeaderTriesCalm
  <2>3. CASE Binds(l)
    BY <2>3, BindsCalm
  <2>4. CASE Handoff(l)
    BY <2>4, HandoffCalm
  <2>5. CASE TakesLock(l)
    BY <2>5, TakesLockCalm
  <2>6. CASE GivesUp(l)
    BY <2>6, GivesUpCalm
  <2>7. CASE BecomesReady(l)
    BY <2>7, BecomesReadyCalm
  <2>8. ~ ServerEnds(l) /\ ~ LeaderUnlinks(l) /\ ~ LeaderCloses(l)
    BY DEF ServerEnds, LeaderUnlinks, LeaderCloses, CalmInv, CalmLeader
  <2>9. ~ ToldToStop(l) /\ ~ LeaderCrashes(l)
    BY DEF ToldToStop, LeaderCrashes, FaultFree, LockInv, TypeOK
  <2> QED
    BY <1>2, <2>1, <2>2, <2>3, <2>4, <2>5, <2>6, <2>7, <2>8, <2>9 DEF LeaderStep
<1>3. CASE UNCHANGED vars
  BY <1>3 DEF vars, CalmInv, CalmClient, CalmLeader, RisingAwaited, AwaitedRises, Rising
<1> QED
  BY <1>1, <1>2, <1>3 DEF Next

\* While no process is killed, told to stop or fails to start and no older Leader is
\* there, two Leaders never serve at once, however many clients start together.
THEOREM OneHost ==
    ASSUME FaultFree
    PROVE  Spec => []SingleHost
<1>1. Init => CalmInv
  BY DEF Init, FaultFree, CalmInv, CalmClient, CalmLeader, RisingAwaited, AwaitedRises, Rising, Idle, Dead
<1>2. LockInv /\ LockInv' /\ CalmInv /\ [Next]_vars => CalmInv'
  BY CalmStep
<1>3. CalmInv => SingleHost
  <2>1. SUFFICES ASSUME CalmInv PROVE SingleHost
    OBVIOUS
  <2>2. \A l, m \in Serving : l = m
    BY <2>1 DEF Serving, CalmInv, CalmLeader
  <2>3. CASE Serving = {}
    BY <2>3, FS_EmptySet DEF SingleHost
  <2>4. CASE Serving # {}
    <3>1. PICK l : Serving = {l}
      BY <2>2, <2>4
    <3> QED
      BY <3>1, FS_Singleton DEF SingleHost
  <2> QED
    BY <2>3, <2>4
<1> QED
  BY <1>1, <1>2, <1>3, LockInvariant, PTL DEF Spec


----------------------------------------------------------------------------
(* A Bridge that is alone leads the protocol: it cleans and spawns only     *)
(* when no Leader lives, and it stays with the Leader it spawned until that *)
(* one serves or dies.  So one Leader lives at a time, and once it has      *)
(* bound, the socket path is its own; crashes and failed starts included.   *)

SoleBridge ==
    /\ \E c : Clients = {c}
    /\ MaxKills = 0 /\ MaxExits = 0 /\ StaleAtStart = FALSE

SoleClient(c) ==
    /\ client[c].fd # None => client[c].fd = lockPath \/ client[c].pc = "close"
    /\ client[c].pc \in {"opened", "under", "clean", "listen"} => client[c].fd # None
    /\ client[c].pc \in {"under", "clean", "listen"} => flock[lockPath] = c
    /\ client[c].pc \notin {"fast", "waiting", "under", "final", "on"} => client[c].conn = None

SoleLeader(l) ==
    /\ leader[l].pc \notin {"draining", "dropping", "close"} /\ leader[l].stale = FALSE
    /\ leader[l].fd # None => leader[l].fd = lockPath
    /\ leader[l].pc \in {"opened", "handoff", "locked", "ready"} => leader[l].fd # None
    /\ leader[l].pc \in {"dead", "start", "bind", "bound"} => leader[l].fd = None
    /\ leader[l].pc \in {"locked", "ready"} => pid[lockPath] = l
    /\ Rising(l) => sock = None
    /\ Listening(l) => sock = l
    /\ Alive(l) => \A m \in Leaders : Alive(m) => m = l

\* Where the client is while the Leader lives.
SolePlaces(l, c) ==
    /\ Rising(l) => client[c].pc = "listen"
    /\ leader[l].pc \in {"bound", "handoff"} => client[c].pc \in {"listen", "final"}
    /\ leader[l].pc = "locked" => client[c].pc = "final"
    /\ leader[l].pc = "ready" => client[c].pc \in {"final", "on", "idle", "fast"}
    /\ Alive(l) => client[c].conn \in {None, l}

SoleInv ==
    /\ \A c \in Clients : SoleClient(c)
    /\ \A l \in Leaders : SoleLeader(l)
    /\ \A c \in Clients, l \in Leaders : SolePlaces(l, c)

\* Elsewhere no Leader lives.
LEMMA NoneAlive ==
    ASSUME LockInv, SoleInv, NEW c \in Clients,
           client[c].pc \notin {"listen", "final", "on", "idle", "fast"}
    PROVE  \A l \in Leaders : leader[l].pc = "dead"
BY DEF LockInv, TypeOK, LeaderSteps, SoleInv, SoleLeader, SolePlaces, Rising

LEMMA BeginsSole ==
    ASSUME SoleBridge, LockInv, LockInv', SoleInv, NEW c \in Clients, Begins(c)
    PROVE  SoleInv'
<1> USE ElectionAssumption DEF LockInv, TypeOK, SoleInv, Rising, SoleBridge, Alive, Listening
<1>1. \A d \in Clients : SoleClient(d)'
  BY DEF Begins, Steps, SoleClient, SoleLeader, SolePlaces, LockPid, Reachable
<1>2. \A k \in Leaders : SoleLeader(k)'
  BY DEF Begins, Steps, SoleClient, SoleLeader, SolePlaces, LockPid, Reachable
<1>3. \A d \in Clients, k \in Leaders : SolePlaces(k, d)'
  BY DEF Begins, Steps, SoleClient, SoleLeader, SolePlaces, LockPid, Reachable
<1> QED
  BY <1>1, <1>2, <1>3

LEMMA ConnectsSole ==
    ASSUME SoleBridge, LockInv, LockInv', SoleInv, NEW c \in Clients, Connects(c)
    PROVE  SoleInv'
<1> USE ElectionAssumption DEF LockInv, TypeOK, SoleInv, Rising, SoleBridge, Alive, Listening
<1>1. \A d \in Clients : SoleClient(d)'
  BY DEF Connects, Connecting, SoleClient, SoleLeader, SolePlaces, LockPid, Reachable
<1>2. \A k \in Leaders : SoleLeader(k)'
  BY DEF Connects, Connecting, SoleClient, SoleLeader, SolePlaces, LockPid, Reachable
<1>3. \A d \in Clients, k \in Leaders : SolePlaces(k, d)'
  BY DEF Connects, Connecting, SoleClient, SoleLeader, SolePlaces, LockPid, Reachable
<1> QED
  BY <1>1, <1>2, <1>3

LEMMA UnreachedSole ==
    ASSUME SoleBridge, LockInv, LockInv', SoleInv, NEW c \in Clients, Connecting(c), Unreached(c),
           \A l \in Leaders : ~ Alive(l),
           UNCHANGED <<lockPath, flock, pid, sock, leader, budget>>
    PROVE  SoleInv'
<1> USE DEF LockInv, SoleInv
<1>1. \A d \in Clients : SoleClient(d)'
  BY UnreachedMoves DEF SoleBridge, SoleClient
<1>2. \A k \in Leaders : SoleLeader(k)'
  BY DEF SoleLeader, Rising, Listening, Alive
<1>3. \A d \in Clients, k \in Leaders : SolePlaces(k, d)'
  BY DEF SolePlaces, Rising, Alive
<1> QED
  BY <1>1, <1>2, <1>3

LEMMA ConnectFailsSole ==
    ASSUME SoleBridge, LockInv, LockInv', SoleInv, NEW c \in Clients, ConnectFails(c)
    PROVE  SoleInv'
<1>1. \A l \in Leaders : ~ Alive(l)
  <2>1. SUFFICES ASSUME NEW l \in Leaders, Alive(l) PROVE FALSE
    OBVIOUS
  <2>2. ~ Listening(l)
    BY <2>1, ElectionAssumption DEF ConnectFails, Reachable, SoleInv, SoleLeader
  <2>3. client[c].pc # "listen" /\ Rising(l)
    BY <2>1, <2>2 DEF ConnectFails, Connecting, Alive, Listening, Rising, SoleInv, SoleLeader, LockInv, TypeOK, LeaderSteps
  <2> QED
    BY <2>3 DEF SoleInv, SolePlaces
<1> QED
  BY <1>1, UnreachedSole DEF ConnectFails

LEMMA ReadyFailsSole ==
    ASSUME SoleBridge, LockInv, LockInv', SoleInv, NEW c \in Clients, ReadyFails(c)
    PROVE  SoleInv'
<1>1. \A l \in Leaders : ~ Alive(l)
  <2>1. SUFFICES ASSUME NEW l \in Leaders, Alive(l) PROVE FALSE
    OBVIOUS
  <2>2. ~ Listening(l)
    BY <2>1 DEF ReadyFails, SoleInv, SolePlaces
  <2>3. client[c].pc # "listen" /\ Rising(l)
    BY <2>1, <2>2 DEF ReadyFails, Connecting, Alive, Listening, Rising, SoleInv, SoleLeader, LockInv, TypeOK, LeaderSteps
  <2> QED
    BY <2>3 DEF SoleInv, SolePlaces
<1> QED
  BY <1>1, UnreachedSole DEF ReadyFails

LEMMA RegistersSole ==
    ASSUME SoleBridge, LockInv, LockInv', SoleInv, NEW c \in Clients, Registers(c)
    PROVE  SoleInv'
<1> USE ElectionAssumption DEF LockInv, TypeOK, SoleInv, Rising, SoleBridge, Alive, Listening
<1>1. \A d \in Clients : SoleClient(d)'
  BY DEF Registers, Connecting, Adopts, Unlocked, SoleClient, SoleLeader, SolePlaces, LockPid, Reachable
<1>2. \A k \in Leaders : SoleLeader(k)'
  BY DEF Registers, Connecting, Adopts, Unlocked, SoleClient, SoleLeader, SolePlaces, LockPid, Reachable
<1>3. \A d \in Clients, k \in Leaders : SolePlaces(k, d)'
  BY DEF Registers, Connecting, Adopts, Unlocked, SoleClient, SoleLeader, SolePlaces, LockPid, Reachable
<1> QED
  BY <1>1, <1>2, <1>3

LEMMA ClientOpensSole ==
    ASSUME SoleBridge, LockInv, LockInv', SoleInv, NEW c \in Clients, ClientOpens(c)
    PROVE  SoleInv'
<1> USE DEF LockInv, SoleInv
<1>0. PICK i \in Files :
        /\ OpensFile(i)
        /\ client' = [client EXCEPT ![c].pc = "opened", ![c].fd = i, ![c].failed = FALSE]
  BY DEF ClientOpens
<1>1. /\ client[c].pc = "lock" /\ client'[c].pc = "opened" /\ client'[c].fd = i
      /\ client'[c].conn = client[c].conn
      /\ UNCHANGED <<flock, sock, leader>> /\ lockPath' = i /\ i # None
  BY <1>0, FileNames DEF ClientOpens, OpensFile, TypeOK
<1>2. \A l \in Leaders : leader[l].pc = "dead"
  BY <1>1, NoneAlive
<1>3. \A d \in Clients : SoleClient(d)'
  BY <1>1 DEF SoleBridge, SoleClient
<1>4. \A k \in Leaders : SoleLeader(k)'
  BY <1>1, <1>2 DEF SoleLeader, Rising, Listening, Alive
<1>5. \A d \in Clients, k \in Leaders : SolePlaces(k, d)'
  BY <1>1, <1>2 DEF SolePlaces, Rising, Alive
<1> QED
  BY <1>3, <1>4, <1>5

LEMMA ClientLocksSole ==
    ASSUME SoleBridge, LockInv, LockInv', SoleInv, NEW c \in Clients, ClientLocks(c)
    PROVE  SoleInv'
<1> USE ElectionAssumption DEF LockInv, TypeOK, SoleInv, Rising, SoleBridge, Alive, Listening
<1>1. \A d \in Clients : SoleClient(d)'
  BY DEF ClientLocks, Steps, SoleClient, SoleLeader, SolePlaces, LockPid, Reachable
<1>2. \A k \in Leaders : SoleLeader(k)'
  BY DEF ClientLocks, Steps, SoleClient, SoleLeader, SolePlaces, LockPid, Reachable
<1>3. \A d \in Clients, k \in Leaders : SolePlaces(k, d)'
  BY DEF ClientLocks, Steps, SoleClient, SoleLeader, SolePlaces, LockPid, Reachable
<1> QED
  BY <1>1, <1>2, <1>3

LEMMA WaitEndsSole ==
    ASSUME SoleBridge, LockInv, LockInv', SoleInv, NEW c \in Clients, WaitEnds(c)
    PROVE  SoleInv'
<1> USE ElectionAssumption DEF LockInv, TypeOK, SoleInv, Rising, SoleBridge, Alive, Listening
<1>1. \A d \in Clients : SoleClient(d)'
  BY DEF WaitEnds, Errs, Idle, Steps, SoleClient, SoleLeader, SolePlaces, LockPid, Reachable
<1>2. \A k \in Leaders : SoleLeader(k)'
  BY DEF WaitEnds, Errs, Idle, Steps, SoleClient, SoleLeader, SolePlaces, LockPid, Reachable
<1>3. \A d \in Clients, k \in Leaders : SolePlaces(k, d)'
  BY DEF WaitEnds, Errs, Idle, Steps, SoleClient, SoleLeader, SolePlaces, LockPid, Reachable
<1> QED
  BY <1>1, <1>2, <1>3

LEMMA SpawnsSole ==
    ASSUME SoleBridge, LockInv, LockInv', SoleInv, NEW c \in Clients, Spawns(c)
    PROVE  SoleInv'
<1> USE DEF LockInv, SoleInv
<1>1. \A l \in Leaders : leader[l].pc = "dead"
  BY NoneAlive DEF Spawns
<1>2. PICK l \in Leaders : leader' = [leader EXCEPT ![l] = [pc |-> "start", fd |-> None, stale |-> FALSE]]
  BY DEF Spawns
<1>3. /\ \A k \in Leaders : k # l => leader'[k] = leader[k]
      /\ leader'[l].pc = "start" /\ leader'[l].fd = None /\ leader'[l].stale = FALSE
  BY <1>2 DEF TypeOK
<1>4. /\ client[c].pc = "clean" /\ client'[c].pc = "listen" /\ client'[c].fd = client[c].fd
      /\ client'[c].conn = client[c].conn
      /\ sock' = None /\ UNCHANGED <<lockPath, flock, pid>>
  BY DEF Spawns, Steps, TypeOK
<1>5. \A d \in Clients : SoleClient(d)'
  BY <1>4 DEF SoleBridge, SoleClient
<1>6. \A k \in Leaders : SoleLeader(k)'
  BY <1>1, <1>3, <1>4 DEF SoleLeader, Rising, Listening, Alive
<1>7. \A d \in Clients, k \in Leaders : SolePlaces(k, d)'
  BY <1>1, <1>3, <1>4 DEF SoleBridge, SoleClient, SolePlaces, Rising, Alive
<1> QED
  BY <1>5, <1>6, <1>7

LEMMA SeesListenerSole ==
    ASSUME SoleBridge, LockInv, LockInv', SoleInv, NEW c \in Clients, SeesListener(c)
    PROVE  SoleInv'
<1> USE ElectionAssumption DEF LockInv, TypeOK, SoleInv, Rising, SoleBridge, Alive, Listening
<1>1. \A d \in Clients : SoleClient(d)'
  BY DEF SeesListener, Unlocked, SoleClient, SoleLeader, SolePlaces, LockPid, Reachable
<1>2. \A k \in Leaders : SoleLeader(k)'
  BY DEF SeesListener, Unlocked, SoleClient, SoleLeader, SolePlaces, LockPid, Reachable
<1>3. \A d \in Clients, k \in Leaders : SolePlaces(k, d)'
  BY DEF SeesListener, Unlocked, SoleClient, SoleLeader, SolePlaces, LockPid, Reachable
<1> QED
  BY <1>1, <1>2, <1>3

LEMMA DisconnectsSole ==
    ASSUME SoleBridge, LockInv, LockInv', SoleInv, NEW c \in Clients, Disconnects(c)
    PROVE  SoleInv'
<1> USE ElectionAssumption DEF LockInv, TypeOK, SoleInv, Rising, SoleBridge, Alive, Listening
<1>1. \A d \in Clients : SoleClient(d)'
  BY DEF Disconnects, Errs, Idle, SoleClient, SoleLeader, SolePlaces, LockPid, Reachable
<1>2. \A k \in Leaders : SoleLeader(k)'
  BY DEF Disconnects, Errs, Idle, SoleClient, SoleLeader, SolePlaces, LockPid, Reachable
<1>3. \A d \in Clients, k \in Leaders : SolePlaces(k, d)'
  BY DEF Disconnects, Errs, Idle, SoleClient, SoleLeader, SolePlaces, LockPid, Reachable
<1> QED
  BY <1>1, <1>2, <1>3

LEMMA SpawnFailsSole ==
    ASSUME SoleBridge, LockInv, LockInv', SoleInv, NEW c \in Clients, SpawnFails(c)
    PROVE  SoleInv'
<1> USE ElectionAssumption DEF LockInv, TypeOK, SoleInv, Rising, SoleBridge, Alive, Listening
<1>1. \A d \in Clients : SoleClient(d)'
  BY DEF SpawnFails, Steps, SoleClient, SoleLeader, SolePlaces, LockPid, Reachable
<1>2. \A k \in Leaders : SoleLeader(k)'
  BY DEF SpawnFails, Steps, SoleClient, SoleLeader, SolePlaces, LockPid, Reachable
<1>3. \A d \in Clients, k \in Leaders : SolePlaces(k, d)'
  BY DEF SpawnFails, Steps, SoleClient, SoleLeader, SolePlaces, LockPid, Reachable
<1> QED
  BY <1>1, <1>2, <1>3

LEMMA ListenTimesOutSole ==
    ASSUME SoleBridge, LockInv, LockInv', SoleInv, NEW c \in Clients, ListenTimesOut(c)
    PROVE  SoleInv'
<1> USE ElectionAssumption DEF LockInv, TypeOK, SoleInv, Rising, SoleBridge, Alive, Listening
<1>1. \A d \in Clients : SoleClient(d)'
  BY DEF ListenTimesOut, Steps, SoleClient, SoleLeader, SolePlaces, LockPid, Reachable
<1>2. \A k \in Leaders : SoleLeader(k)'
  BY DEF ListenTimesOut, Steps, SoleClient, SoleLeader, SolePlaces, LockPid, Reachable
<1>3. \A d \in Clients, k \in Leaders : SolePlaces(k, d)'
  BY DEF ListenTimesOut, Steps, SoleClient, SoleLeader, SolePlaces, LockPid, Reachable
<1> QED
  BY <1>1, <1>2, <1>3

LEMMA ClientUnlinksSole ==
    ASSUME SoleBridge, LockInv, LockInv', SoleInv, NEW c \in Clients, ClientUnlinks(c)
    PROVE  SoleInv'
<1> USE DEF LockInv, SoleInv
<1>1. /\ client[c].pc = "drop" /\ client'[c].pc = "close" /\ client'[c].fd = client[c].fd
      /\ client'[c].conn = client[c].conn
      /\ lockPath' = None /\ UNCHANGED <<flock, sock, leader>>
  BY DEF ClientUnlinks, Steps, TypeOK
<1>2. \A l \in Leaders : leader[l].pc = "dead"
  BY <1>1, NoneAlive
<1>3. \A d \in Clients : SoleClient(d)'
  BY <1>1 DEF SoleBridge, SoleClient
<1>4. \A k \in Leaders : SoleLeader(k)'
  BY <1>1, <1>2 DEF SoleLeader, Rising, Listening, Alive
<1>5. \A d \in Clients, k \in Leaders : SolePlaces(k, d)'
  BY <1>1, <1>2 DEF SolePlaces, Rising, Alive
<1> QED
  BY <1>3, <1>4, <1>5

LEMMA ClientClosesSole ==
    ASSUME SoleBridge, LockInv, LockInv', SoleInv, NEW c \in Clients, ClientCloses(c)
    PROVE  SoleInv'
<1> USE ElectionAssumption DEF LockInv, TypeOK, SoleInv, Rising, SoleBridge, Alive, Listening
<1>1. \A d \in Clients : SoleClient(d)'
  BY DEF ClientCloses, Errs, Idle, Unlocked, SoleClient, SoleLeader, SolePlaces, LockPid, Reachable
<1>2. \A k \in Leaders : SoleLeader(k)'
  BY DEF ClientCloses, Errs, Idle, Unlocked, SoleClient, SoleLeader, SolePlaces, LockPid, Reachable
<1>3. \A d \in Clients, k \in Leaders : SolePlaces(k, d)'
  BY DEF ClientCloses, Errs, Idle, Unlocked, SoleClient, SoleLeader, SolePlaces, LockPid, Reachable
<1> QED
  BY <1>1, <1>2, <1>3

LEMMA LeaderOpensSole ==
    ASSUME SoleBridge, LockInv, LockInv', SoleInv, NEW l \in Leaders, LeaderOpens(l)
    PROVE  SoleInv'
<1> USE DEF LockInv, SoleInv
<1>0. PICK i \in Files : OpensFile(i) /\ leader' = [leader EXCEPT ![l].pc = "opened", ![l].fd = i]
  BY DEF LeaderOpens
<1>1. leader[l].pc = "start" /\ UNCHANGED <<flock, sock, client>>
  BY DEF LeaderOpens
<1>2. /\ \A k \in Leaders : k # l => leader'[k] = leader[k]
      /\ leader'[l].pc = "opened" /\ leader'[l].fd = i /\ leader'[l].stale = leader[l].stale
  BY <1>0 DEF TypeOK
<1>3. \A c \in Clients : client[c].pc = "listen" /\ lockPath # None
  BY <1>1 DEF SolePlaces, SoleClient, Rising
<1>4. /\ lockPath' = i /\ lockPath \in {i, None} /\ i # None
      /\ Clients # {} => UNCHANGED lockPath
  BY <1>0, <1>3, FileNames DEF OpensFile
<1>5. \A k \in Leaders : k # l => leader[k].pc = "dead"
  BY <1>1 DEF SoleLeader, Alive
<1>6. \A d \in Clients : SoleClient(d)'
  BY <1>1, <1>3, <1>4 DEF SoleClient
<1>7. \A k \in Leaders : SoleLeader(k)'
  BY <1>1, <1>2, <1>4, <1>5 DEF SoleLeader, Rising, Listening, Alive
<1>8. \A d \in Clients, k \in Leaders : SolePlaces(k, d)'
  BY <1>1, <1>2, <1>5 DEF SolePlaces, Rising, Alive
<1> QED
  BY <1>6, <1>7, <1>8

LEMMA LeaderTriesSole ==
    ASSUME SoleBridge, LockInv, LockInv', SoleInv, NEW l \in Leaders, LeaderTries(l), NEW c \in Clients
    PROVE  SoleInv'
<1> USE DEF LockInv, SoleInv
<1>1. leader[l].pc = "opened" /\ UNCHANGED <<lockPath, sock, client>>
  BY DEF LeaderTries
<1>2. client[c].pc = "listen" /\ flock[lockPath] = c /\ leader[l].fd = lockPath /\ sock = None
  BY <1>1 DEF SolePlaces, SoleClient, SoleLeader, Rising
<1>3. leader' = [leader EXCEPT ![l].pc = "bind", ![l].fd = None] /\ UNCHANGED <<flock, pid>>
  BY <1>2, ElectionAssumption DEF LeaderTries
<1>s. UNCHANGED <<flock, pid>>
  BY <1>3
<1>4. /\ \A k \in Leaders : k # l => leader'[k] = leader[k]
      /\ leader'[l].pc = "bind" /\ leader'[l].fd = None /\ leader'[l].stale = leader[l].stale
  BY <1>3 DEF TypeOK
<1>5. \A k \in Leaders : k # l => leader[k].pc = "dead"
  BY <1>1 DEF SoleLeader, Alive
<1>6. \A d \in Clients : SoleClient(d)'
  BY <1>1, <1>3 DEF SoleClient
<1>7. \A k \in Leaders : SoleLeader(k)'
  BY <1>1, <1>2, <1>s, <1>4, <1>5 DEF SoleLeader, Rising, Listening, Alive
<1>8. \A d \in Clients, k \in Leaders : SolePlaces(k, d)'
  BY <1>1, <1>4, <1>5 DEF SolePlaces, Rising, Alive
<1> QED
  BY <1>6, <1>7, <1>8

LEMMA BindsSole ==
    ASSUME SoleBridge, LockInv, LockInv', SoleInv, NEW l \in Leaders, Binds(l)
    PROVE  SoleInv'
<1> USE ElectionAssumption DEF LockInv, TypeOK, SoleInv, Rising, SoleBridge, Alive, Listening
<1>1. \A d \in Clients : SoleClient(d)'
  BY DEF Binds, SoleClient, SoleLeader, SolePlaces, LockPid, Reachable
<1>2. \A k \in Leaders : SoleLeader(k)'
  BY DEF Binds, SoleClient, SoleLeader, SolePlaces, LockPid, Reachable
<1>3. \A d \in Clients, k \in Leaders : SolePlaces(k, d)'
  BY DEF Binds, SoleClient, SoleLeader, SolePlaces, LockPid, Reachable
<1> QED
  BY <1>1, <1>2, <1>3

LEMMA HandoffSole ==
    ASSUME SoleBridge, LockInv, LockInv', SoleInv, NEW l \in Leaders, Handoff(l)
    PROVE  SoleInv'
<1> USE DEF LockInv, SoleInv
<1>0. PICK i \in Files : OpensFile(i) /\ leader' = [leader EXCEPT ![l].pc = "handoff", ![l].fd = i]
  BY DEF Handoff, SoleLeader
<1>1. leader[l].pc = "bound" /\ UNCHANGED <<flock, sock, client>>
  BY DEF Handoff
<1>2. /\ \A k \in Leaders : k # l => leader'[k] = leader[k]
      /\ leader'[l].pc = "handoff" /\ leader'[l].fd = i /\ leader'[l].stale = leader[l].stale
  BY <1>0 DEF TypeOK
<1>3. lockPath' = i /\ lockPath \in {i, None} /\ i # None
  BY <1>0, FileNames DEF OpensFile
<1>5. \A k \in Leaders : k # l => leader[k].pc = "dead"
  BY <1>1 DEF SoleLeader, Alive
<1>6. \A d \in Clients : SoleClient(d)'
  BY <1>1, <1>3 DEF SoleClient
<1>7. \A k \in Leaders : SoleLeader(k)'
  BY <1>1, <1>2, <1>3, <1>5 DEF SoleLeader, Rising, Listening, Alive
<1>8. \A d \in Clients, k \in Leaders : SolePlaces(k, d)'
  BY <1>1, <1>2, <1>5 DEF SolePlaces, Rising, Alive
<1> QED
  BY <1>6, <1>7, <1>8

LEMMA TakesLockSole ==
    ASSUME SoleBridge, LockInv, LockInv', SoleInv, NEW l \in Leaders, TakesLock(l)
    PROVE  SoleInv'
<1> USE ElectionAssumption DEF LockInv, TypeOK, SoleInv, Rising, SoleBridge, Alive, Listening
<1>1. \A d \in Clients : SoleClient(d)'
  BY DEF TakesLock, SoleClient, SoleLeader, SolePlaces, LockPid, Reachable
<1>2. \A k \in Leaders : SoleLeader(k)'
  BY DEF TakesLock, SoleClient, SoleLeader, SolePlaces, LockPid, Reachable
<1>3. \A d \in Clients, k \in Leaders : SolePlaces(k, d)'
  BY DEF TakesLock, SoleClient, SoleLeader, SolePlaces, LockPid, Reachable
<1> QED
  BY <1>1, <1>2, <1>3

LEMMA GivesUpSole ==
    ASSUME SoleBridge, LockInv, LockInv', SoleInv, NEW l \in Leaders, GivesUp(l)
    PROVE  SoleInv'
<1> USE ElectionAssumption DEF LockInv, TypeOK, SoleInv, Rising, SoleBridge, Alive, Listening
<1>1. \A d \in Clients : SoleClient(d)'
  BY DEF GivesUp, Dead, SoleClient, SoleLeader, SolePlaces, LockPid, Reachable
<1>2. \A k \in Leaders : SoleLeader(k)'
  BY DEF GivesUp, Dead, SoleClient, SoleLeader, SolePlaces, LockPid, Reachable
<1>3. \A d \in Clients, k \in Leaders : SolePlaces(k, d)'
  BY DEF GivesUp, Dead, SoleClient, SoleLeader, SolePlaces, LockPid, Reachable
<1> QED
  BY <1>1, <1>2, <1>3

LEMMA BecomesReadySole ==
    ASSUME SoleBridge, LockInv, LockInv', SoleInv, NEW l \in Leaders, BecomesReady(l)
    PROVE  SoleInv'
<1> USE ElectionAssumption DEF LockInv, TypeOK, SoleInv, Rising, SoleBridge, Alive, Listening
<1>1. \A d \in Clients : SoleClient(d)'
  BY DEF BecomesReady, SoleClient, SoleLeader, SolePlaces, LockPid, Reachable
<1>2. \A k \in Leaders : SoleLeader(k)'
  BY DEF BecomesReady, SoleClient, SoleLeader, SolePlaces, LockPid, Reachable
<1>3. \A d \in Clients, k \in Leaders : SolePlaces(k, d)'
  BY DEF BecomesReady, SoleClient, SoleLeader, SolePlaces, LockPid, Reachable
<1> QED
  BY <1>1, <1>2, <1>3

LEMMA LeaderCrashesSole ==
    ASSUME SoleBridge, LockInv, LockInv', SoleInv, NEW l \in Leaders, LeaderCrashes(l)
    PROVE  SoleInv'
<1> USE ElectionAssumption DEF LockInv, TypeOK, SoleInv, Rising, SoleBridge, Alive, Listening
<1>1. \A d \in Clients : SoleClient(d)'
  BY DEF LeaderCrashes, Dead, Unlocked, SoleClient, SoleLeader, SolePlaces, LockPid, Reachable
<1>2. \A k \in Leaders : SoleLeader(k)'
  BY DEF LeaderCrashes, Dead, Unlocked, SoleClient, SoleLeader, SolePlaces, LockPid, Reachable
<1>3. \A d \in Clients, k \in Leaders : SolePlaces(k, d)'
  BY DEF LeaderCrashes, Dead, Unlocked, SoleClient, SoleLeader, SolePlaces, LockPid, Reachable
<1> QED
  BY <1>1, <1>2, <1>3

LEMMA SoleStep ==
    ASSUME SoleBridge, LockInv, LockInv', SoleInv, [Next]_vars
    PROVE  SoleInv'
<1>1. ASSUME NEW c \in Clients, ClientStep(c) \/ Begins(c) \/ Disconnects(c) \/ ClientCrashes(c)
      PROVE  SoleInv'
  <2>1. CASE Begins(c)
    BY <2>1, BeginsSole
  <2>2. CASE Connects(c)
    BY <2>2, ConnectsSole
  <2>3. CASE ConnectFails(c)
    BY <2>3, ConnectFailsSole
  <2>4. CASE ReadyFails(c)
    BY <2>4, ReadyFailsSole
  <2>5. CASE Registers(c)
    BY <2>5, RegistersSole
  <2>6. CASE ClientOpens(c)
    BY <2>6, ClientOpensSole
  <2>7. CASE ClientLocks(c)
    BY <2>7, ClientLocksSole
  <2>8. CASE WaitEnds(c)
    BY <2>8, WaitEndsSole
  <2>9. CASE Spawns(c)
    BY <2>9, SpawnsSole
  <2>10. CASE SpawnFails(c)
    BY <2>10, SpawnFailsSole
  <2>11. CASE SeesListener(c)
    BY <2>11, SeesListenerSole
  <2>12. CASE ListenTimesOut(c)
    BY <2>12, ListenTimesOutSole
  <2>13. CASE ClientUnlinks(c)
    BY <2>13, ClientUnlinksSole
  <2>14. CASE ClientCloses(c)
    BY <2>14, ClientClosesSole
  <2>15. CASE Disconnects(c)
    BY <2>15, DisconnectsSole
  <2>16. ~ ClientCrashes(c)
    BY DEF ClientCrashes, SoleBridge, LockInv, TypeOK
  <2> QED
    BY <1>1, <2>1, <2>2, <2>3, <2>4, <2>5, <2>6, <2>7, <2>8, <2>9, <2>10, <2>11, <2>12, <2>13,
       <2>14, <2>15, <2>16 DEF ClientStep
<1>2. ASSUME NEW l \in Leaders, LeaderStep(l) \/ ToldToStop(l) \/ LeaderCrashes(l)
      PROVE  SoleInv'
  <2>1. CASE LeaderOpens(l)
    BY <2>1, LeaderOpensSole
  <2>2. CASE LeaderTries(l)
    <3>1. PICK c : c \in Clients
      BY DEF SoleBridge
    <3> QED
      BY <2>2, <3>1, LeaderTriesSole
  <2>3. CASE Binds(l)
    BY <2>3, BindsSole
  <2>4. CASE Handoff(l)
    BY <2>4, HandoffSole
  <2>5. CASE TakesLock(l)
    BY <2>5, TakesLockSole
  <2>6. CASE GivesUp(l)
    BY <2>6, GivesUpSole
  <2>7. CASE BecomesReady(l)
    BY <2>7, BecomesReadySole
  <2>8. CASE LeaderCrashes(l)
    BY <2>8, LeaderCrashesSole
  <2>9. ~ ServerEnds(l) /\ ~ LeaderUnlinks(l) /\ ~ LeaderCloses(l)
    BY DEF ServerEnds, LeaderUnlinks, LeaderCloses, SoleInv, SoleLeader
  <2>10. ~ ToldToStop(l)
    BY DEF ToldToStop, SoleBridge, LockInv, TypeOK
  <2> QED
    BY <1>2, <2>1, <2>2, <2>3, <2>4, <2>5, <2>6, <2>7, <2>8, <2>9, <2>10 DEF LeaderStep
<1>3. CASE UNCHANGED vars
  BY <1>3 DEF vars, SoleInv, SoleClient, SoleLeader, SolePlaces, Rising, Listening, Alive
<1> QED
  BY <1>1, <1>2, <1>3 DEF Next

\* The Host that a lone Bridge left behind is the one the socket path leads to,
\* whatever Leaders crashed or failed to start before, so the Bridge finds it again.
THEOREM LoneBridgeFindsHost ==
    ASSUME SoleBridge
    PROVE  Spec => []HostReachable
<1>1. Init => SoleInv
  BY DEF Init, SoleBridge, SoleInv, SoleClient, SoleLeader, SolePlaces, Rising, Listening, Alive, Idle, Dead
<1>2. LockInv /\ LockInv' /\ SoleInv /\ [Next]_vars => SoleInv'
  BY SoleStep
<1>3. SoleInv => HostReachable
  BY DEF SoleInv, SoleLeader, HostReachable, Serving, Listening
<1> QED
  BY <1>1, <1>2, <1>3, LockInvariant, PTL DEF Spec
============================================================================
