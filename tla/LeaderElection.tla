---------------------------- MODULE LeaderElection ----------------------------
(* How the Bridges of one user come to share one Host process (the Leader).    *)
(*                                                                             *)
(* Two paths coordinate them: a lock file, taken with flock, whose content is  *)
(* the Leader's pid; and the socket.  A flock belongs to the open file, not to *)
(* the path: LeaderLock's Drop unlinks the path, so a process that opened the  *)
(* file earlier can take the lock of a file nobody else will find, while the   *)
(* next one creates a new file.  connect_or_spawn is the client's side,        *)
(* run_leader and run_leader_server the Leader's.  A spawning client holds the *)
(* lock until it sees the socket and releases it; the Leader, which binds      *)
(* first, polls for it for 30 s and writes its pid once it has it.             *)
(* All clients run the version their managed install spawns; only a Leader     *)
(* that was there at the start may be older (stale).                           *)
EXTENDS Naturals, FiniteSets

CONSTANTS
  Clients,        \* Bridges
  Leaders,        \* Leader processes alive or spawnable at once
  MaxFiles,       \* lock files (inodes) that exist at once
  MaxCrashes,     \* bound: Leaders killed without running a destructor
  MaxKills,       \* bound: clients killed in the middle of connect_or_spawn
  MaxExits,       \* bound: Leaders told to stop (auto update, cancellation)
  StaleAtStart,   \* whether an older Leader may be serving at the start
  SpawnMayFail,   \* whether starting a Leader process may fail
  None

ASSUME ElectionAssumption ==
  /\ MaxFiles \in Nat \ {0} /\ MaxCrashes \in Nat /\ MaxKills \in Nat /\ MaxExits \in Nat
  /\ StaleAtStart \in BOOLEAN /\ SpawnMayFail \in BOOLEAN
  /\ Clients \cap Leaders = {} /\ None \notin Clients \cup Leaders \cup (1 .. MaxFiles)

VARIABLES
  lockPath,  \* the file at the lock path, None when there is none
  flock,     \* who holds the lock of each file
  pid,       \* the pid written in each file
  sock,      \* the Leader that bound the file at the socket path, dead or alive
  client,
  leader,
  crashes,   \* faults so far
  kills,
  exits

budget == <<crashes, kills, exits>>

vars == <<lockPath, flock, pid, sock, client, leader, crashes, kills, exits>>

Files == 1 .. MaxFiles

ClientSteps == {"idle", "fast", "lock", "opened", "waiting", "under", "clean",
                "listen", "final", "drop", "close", "on"}

LeaderSteps == {"dead", "start", "opened", "bind", "bound", "handoff", "locked",
                "ready", "draining", "dropping", "close"}

Idle == [pc |-> "idle", fd |-> None, conn |-> None, failed |-> FALSE]

Dead == [pc |-> "dead", fd |-> None, stale |-> FALSE]

Alive(l) == leader[l].pc # "dead"

\* The IPC server accepts from the bind until it ends.
Listening(l) == leader[l].pc \in {"bound", "handoff", "locked", "ready", "draining"}

\* Whether a connection to the socket path is accepted.
Reachable == IF sock = None THEN FALSE ELSE Listening(sock)

\* Agents run handlers: ACP forwarding is open.
Serving == {l \in Leaders : leader[l].pc \in {"ready", "draining"}}

\* read_pid and is_process_alive: the pid in the file at the lock path now.
LockPid == IF lockPath = None THEN None ELSE pid[lockPath]

Init ==
  /\ client = [c \in Clients |-> Idle]
  /\ crashes = 0 /\ kills = 0 /\ exits = 0
  /\ \/ /\ lockPath = None /\ sock = None
        /\ flock = [i \in Files |-> None] /\ pid = [i \in Files |-> None]
        /\ leader = [l \in Leaders |-> Dead]
     \/ /\ StaleAtStart
        /\ \E l \in Leaders :
             /\ lockPath = 1 /\ sock = l
             /\ flock = [i \in Files |-> IF i = 1 THEN l ELSE None]
             /\ pid = [i \in Files |-> IF i = 1 THEN l ELSE None]
             /\ leader = [m \in Leaders |->
                  IF m = l THEN [pc |-> "ready", fd |-> 1, stale |-> TRUE] ELSE Dead]

-------------------------------------------------------------------------------
(* The lock file. *)

InUse(i) ==
  \/ lockPath = i
  \/ \E c \in Clients : client[c].fd = i
  \/ \E l \in Leaders : leader[l].fd = i

\* open_lock_file: the file at the path, created empty when there is none.
OpensFile(i) ==
  \/ /\ lockPath = i
     /\ UNCHANGED <<lockPath, pid>>
  \/ /\ lockPath = None
     /\ i \in Files /\ ~ InUse(i) /\ \A j \in 1 .. i - 1 : InUse(j)
     /\ lockPath' = i
     /\ pid' = [pid EXCEPT ![i] = None]

Unlocked(p) == [i \in Files |-> IF flock[i] = p THEN None ELSE flock[i]]

-------------------------------------------------------------------------------
(* connect_or_spawn *)

Steps(c, pc) == client' = [client EXCEPT ![c].pc = pc]

\* Returns an error; the caller may try again.
Errs(c) == client' = [client EXCEPT ![c] = Idle]

\* The fast path: connect when the socket is there, unless the pid is known dead.
Begins(c) ==
  /\ client[c].pc = "idle"
  /\ Steps(c, IF sock # None /\ (LockPid = None \/ Alive(LockPid)) THEN "fast" ELSE "lock")
  /\ UNCHANGED <<lockPath, flock, pid, sock, leader, budget>>

Connecting(c) == client[c].pc \in {"fast", "waiting", "under", "final"}

\* connect_to_leader reaches the Leader that listens behind the socket path;
\* register then waits for it to be ready.
Connects(c) ==
  /\ Connecting(c) /\ client[c].conn = None
  /\ Reachable
  /\ client' = [client EXCEPT ![c].conn = sock]
  /\ UNCHANGED <<lockPath, flock, pid, sock, leader, budget>>

\* Mutant: a failed attempt is remembered as the Leader it was made to.
UnreachedM(c) ==
  CASE client[c].pc = "fast"    -> client' = [client EXCEPT ![c].pc = "lock", ![c].conn = None]
    [] client[c].pc = "waiting" -> client' = [client EXCEPT ![c].failed = sock, ![c].conn = None]
    [] client[c].pc = "under"   -> client' = [client EXCEPT ![c].pc = "clean", ![c].conn = None]
    [] client[c].pc = "final"   -> Errs(c)

\* What connect_or_spawn does when connect_to_leader returns an error.
Unreached(c) ==
  CASE client[c].pc = "fast"    -> client' = [client EXCEPT ![c].pc = "lock", ![c].conn = None]
    [] client[c].pc = "waiting" -> client' = [client EXCEPT ![c].failed = TRUE, ![c].conn = None]
    [] client[c].pc = "under"   -> client' = [client EXCEPT ![c].pc = "clean", ![c].conn = None]
    [] client[c].pc = "final"   -> Errs(c)

ConnectFails(c) ==
  /\ Connecting(c) /\ client[c].conn = None
  /\ ~ Reachable /\ (client[c].pc = "waiting" => sock # None)
  /\ Unreached(c)
  /\ UNCHANGED <<lockPath, flock, pid, sock, leader, budget>>

\* The Leader ends while the client waits for LeaderReady.
ReadyFails(c) ==
  /\ Connecting(c) /\ client[c].conn # None /\ ~ Listening(client[c].conn)
  /\ Unreached(c)
  /\ UNCHANGED <<lockPath, flock, pid, sock, leader, budget>>

\* request_leader_vacate: a stale Leader drains, or is signalled by its pid.  It may
\* decline, and the request or the signal may fail: the client goes on all the same.
Vacates(l) ==
  \/ leader' = [leader EXCEPT ![l].pc = "draining"] /\ UNCHANGED flock
  \/ /\ LockPid # None
     /\ leader' = [leader EXCEPT ![LockPid] = Dead]
     /\ flock' = Unlocked(LockPid)
  \/ UNCHANGED <<leader, flock>>

\* evict_leader returns once the pid in the lock file exited or was killed.  One
\* step: a stale Leader keeps its lock until it leaves, so who has the lock meets none.
Evicts ==
  IF LockPid # None
  THEN leader' = [leader EXCEPT ![LockPid] = Dead] /\ flock' = Unlocked(LockPid)
  ELSE UNCHANGED <<leader, flock>>

Adopts(c) == client' = [client EXCEPT ![c].pc = "on", ![c].fd = None]

\* connect_to_leader returns a connection: should_evict_conn decides, except
\* after a spawn.
Registers(c) ==
  LET l == client[c].conn IN
  /\ Connecting(c) /\ l # None /\ leader[l].pc \in {"ready", "draining"}
  /\ \/ /\ ~ leader[l].stale \/ client[c].pc = "final"
        /\ Adopts(c)
        /\ flock' = Unlocked(c)
        /\ UNCHANGED leader
     \/ /\ leader[l].stale /\ client[c].pc = "fast"
        /\ client' = [client EXCEPT ![c].pc = "lock", ![c].conn = None]
        /\ UNCHANGED <<flock, leader>>
     \/ /\ leader[l].stale /\ client[c].pc = "waiting"
        /\ Vacates(l)
        /\ client' = [client EXCEPT ![c].pc = "lock", ![c].conn = None]
     \/ /\ leader[l].stale /\ client[c].pc = "under"
        /\ Evicts
        /\ client' = [client EXCEPT ![c].pc = "clean", ![c].conn = None]
  /\ UNCHANGED <<lockPath, pid, sock, budget>>

ClientOpens(c) ==
  /\ client[c].pc = "lock"
  /\ \E i \in Files :
       /\ OpensFile(i)
       /\ client' = [client EXCEPT ![c].pc = "opened", ![c].fd = i, ![c].failed = FALSE]
  /\ UNCHANGED <<flock, sock, leader, budget>>

\* try_acquire.  Under the lock a client that finds a live pid connects first;
\* without the lock it waits for the socket.
ClientLocks(c) ==
  /\ client[c].pc = "opened"
  /\ IF flock[client[c].fd] = None
     THEN /\ flock' = [flock EXCEPT ![client[c].fd] = c]
          /\ Steps(c, IF sock # None /\ LockPid # None /\ Alive(LockPid)
                      THEN "under" ELSE "clean")
     ELSE /\ client' = [client EXCEPT ![c].pc = "waiting", ![c].fd = None]
          /\ UNCHANGED flock
  /\ UNCHANGED <<lockPath, pid, sock, leader, budget>>

\* wait_for_socket_connectable gives up: an error when an attempt failed, else
\* the lock is tried again.
WaitEnds(c) ==
  /\ client[c].pc = "waiting" /\ client[c].conn = None
  /\ ~ Reachable
  /\ IF client[c].failed THEN Errs(c) ELSE Steps(c, "lock")
  /\ UNCHANGED <<lockPath, flock, pid, sock, leader, budget>>

\* A process id nothing refers to any more.
Fresh(l) == leader[l].pc = "dead" /\ sock # l /\ LockPid # l
            /\ \A c \in Clients : client[c].conn # l

\* cleanup_socket and spawn_leader_subprocess
Spawns(c) ==
  /\ client[c].pc = "clean"
  /\ sock' = None
  /\ \E l \in Leaders :
       /\ Fresh(l)
       /\ leader' = [leader EXCEPT ![l] = [pc |-> "start", fd |-> None, stale |-> FALSE]]
  /\ Steps(c, "listen")
  /\ UNCHANGED <<lockPath, flock, pid, budget>>

\* spawn_leader_subprocess returns an error: the lock is dropped while it is held.
SpawnFails(c) ==
  /\ client[c].pc = "clean" /\ SpawnMayFail
  /\ sock' = None
  /\ Steps(c, "drop")
  /\ UNCHANGED <<lockPath, flock, pid, leader, budget>>

\* Mutant: the socket is removed with the lock.
SeesListenerM(c) ==
  /\ client[c].pc = "listen" /\ sock # None
  /\ flock' = Unlocked(c)
  /\ sock' = None
  /\ client' = [client EXCEPT ![c].pc = "final", ![c].fd = None]
  /\ UNCHANGED <<lockPath, pid, leader, budget>>

\* wait_for_listener_ready sees the socket; release leaves both files in place.
SeesListener(c) ==
  /\ client[c].pc = "listen" /\ sock # None
  /\ flock' = Unlocked(c)
  /\ client' = [client EXCEPT ![c].pc = "final", ![c].fd = None]
  /\ UNCHANGED <<lockPath, pid, sock, leader, budget>>

\* Mutant: wait_for_listener_ready has no deadline.
ListenTimesOutM(c) ==
  /\ client[c].pc = "listen" /\ sock = None
  /\ UNCHANGED vars

\* wait_for_listener_ready times out: the lock is dropped while it is held.  A Leader
\* that starts binds well within the 10 s, so none is about to.
ListenTimesOut(c) ==
  /\ client[c].pc = "listen" /\ sock = None
  /\ \A l \in Leaders : leader[l].pc \notin {"start", "opened", "bind"}
  /\ Steps(c, "drop")
  /\ UNCHANGED <<lockPath, flock, pid, sock, leader, budget>>

ClientUnlinks(c) ==
  /\ client[c].pc = "drop"
  /\ lockPath' = None
  /\ Steps(c, "close")
  /\ UNCHANGED <<flock, pid, sock, leader, budget>>

ClientCloses(c) ==
  /\ client[c].pc = "close"
  /\ sock' = None
  /\ flock' = Unlocked(c)
  /\ Errs(c)
  /\ UNCHANGED <<lockPath, pid, leader, budget>>

\* The connection closes: the Bridge stops (the Leader stays, it is started with
\* --no-exit-on-disconnect), or its server ended and the Bridge will reconnect.
Disconnects(c) ==
  /\ client[c].pc = "on"
  /\ Errs(c)
  /\ UNCHANGED <<lockPath, flock, pid, sock, leader, budget>>

-------------------------------------------------------------------------------
(* run_leader *)

LeaderOpens(l) ==
  /\ leader[l].pc = "start"
  /\ \E i \in Files :
       /\ OpensFile(i)
       /\ leader' = [leader EXCEPT ![l].pc = "opened", ![l].fd = i]
  /\ UNCHANGED <<flock, sock, client, budget>>

\* Lock free: write the pid and keep it.  Held and a socket: another Leader
\* runs.  Held and no socket: a spawner waits for ours.
LeaderTries(l) ==
  /\ leader[l].pc = "opened"
  /\ IF flock[leader[l].fd] = None
     THEN /\ flock' = [flock EXCEPT ![leader[l].fd] = l]
          /\ pid' = [pid EXCEPT ![leader[l].fd] = l]
          /\ leader' = [leader EXCEPT ![l].pc = "bind"]
     ELSE /\ IF sock # None
             THEN leader' = [leader EXCEPT ![l] = Dead]
             ELSE leader' = [leader EXCEPT ![l].pc = "bind", ![l].fd = None]
          /\ UNCHANGED <<flock, pid>>
  /\ UNCHANGED <<lockPath, sock, client, budget>>

\* cleanup_socket and LeaderListener::bind
Binds(l) ==
  /\ leader[l].pc = "bind"
  /\ sock' = l
  /\ leader' = [leader EXCEPT ![l].pc = "bound"]
  /\ UNCHANGED <<lockPath, flock, pid, client, budget>>

\* The socket is there: keep the lock taken at the start, or open the lock file
\* for the handoff.
Handoff(l) ==
  /\ leader[l].pc = "bound" /\ sock # None
  /\ IF leader[l].fd # None
     THEN leader' = [leader EXCEPT ![l].pc = "locked"] /\ UNCHANGED <<lockPath, pid>>
     ELSE \E i \in Files :
            /\ OpensFile(i)
            /\ leader' = [leader EXCEPT ![l].pc = "handoff", ![l].fd = i]
  /\ UNCHANGED <<flock, sock, client, budget>>

\* Mutant: a Leader that cannot get the lock serves all the same.
TakesLockM(l) ==
  /\ leader[l].pc = "handoff"
  /\ flock' = [flock EXCEPT ![leader[l].fd] = l]
  /\ pid' = [pid EXCEPT ![leader[l].fd] = l]
  /\ leader' = [leader EXCEPT ![l].pc = "locked"]
  /\ UNCHANGED <<lockPath, sock, client, budget>>

\* try_acquire_timeout and write_pid
TakesLock(l) ==
  /\ leader[l].pc = "handoff" /\ flock[leader[l].fd] = None
  /\ flock' = [flock EXCEPT ![leader[l].fd] = l]
  /\ pid' = [pid EXCEPT ![leader[l].fd] = l]
  /\ leader' = [leader EXCEPT ![l].pc = "locked"]
  /\ UNCHANGED <<lockPath, sock, client, budget>>

\* The lock was not free for 30 s, or the socket vanished before it was seen.  A
\* spawning client holds the lock for 10 s at most, so another Leader has it; and a
\* client that polls for the socket every 100 ms sees it before 30 s are over.
\* The process ends; its server may or may not still remove the socket path.
GivesUp(l) ==
  /\ \/ /\ leader[l].pc = "handoff" /\ flock[leader[l].fd] \in Leaders
        /\ sock # None => \A c \in Clients : client[c].pc # "listen"
     \/ leader[l].pc = "bound" /\ sock = None
  /\ IF leader[l].pc = "bound" /\ leader[l].fd # None
     THEN leader' = [leader EXCEPT ![l].pc = "dropping"] /\ UNCHANGED sock
     ELSE leader' = [leader EXCEPT ![l] = Dead] /\ sock' \in {sock, None}
  /\ UNCHANGED <<lockPath, flock, pid, client, budget>>

\* Authentication and prefetch are done: ready_tx.send(true).
BecomesReady(l) ==
  /\ leader[l].pc = "locked"
  /\ leader' = [leader EXCEPT ![l].pc = "ready"]
  /\ UNCHANGED <<lockPath, flock, pid, sock, client, budget>>

ToldToStop(l) ==
  /\ leader[l].pc = "ready" /\ exits < MaxExits
  /\ exits' = exits + 1
  /\ leader' = [leader EXCEPT ![l].pc = "draining"]
  /\ UNCHANGED <<lockPath, flock, pid, sock, client, crashes, kills>>

\* The cancelled server leaves its loop and removes the socket path.
ServerEnds(l) ==
  /\ leader[l].pc = "draining"
  /\ sock' = None
  /\ leader' = [leader EXCEPT ![l].pc = "dropping"]
  /\ UNCHANGED <<lockPath, flock, pid, client, budget>>

\* Mutant: the file is closed before it is unlinked.
LeaderUnlinksM(l) ==
  /\ leader[l].pc = "dropping"
  /\ flock' = Unlocked(l)
  /\ leader' = [leader EXCEPT ![l].pc = "close"]
  /\ UNCHANGED <<lockPath, pid, sock, client, budget>>

\* LeaderLock's Drop: unlink the lock path; then unlink the socket path and close.
LeaderUnlinks(l) ==
  /\ leader[l].pc = "dropping"
  /\ lockPath' = None
  /\ leader' = [leader EXCEPT ![l].pc = "close"]
  /\ UNCHANGED <<flock, pid, sock, client, budget>>

LeaderCloses(l) ==
  /\ leader[l].pc = "close"
  /\ sock' = None
  /\ flock' = Unlocked(l)
  /\ leader' = [leader EXCEPT ![l] = Dead]
  /\ UNCHANGED <<lockPath, pid, client, budget>>

-------------------------------------------------------------------------------
(* Processes killed: the system frees their locks, the files stay. *)

LeaderCrashes(l) ==
  /\ Alive(l) /\ crashes < MaxCrashes
  /\ crashes' = crashes + 1
  /\ leader' = [leader EXCEPT ![l] = Dead]
  /\ flock' = Unlocked(l)
  /\ UNCHANGED <<lockPath, pid, sock, client, kills, exits>>

ClientCrashes(c) ==
  /\ client[c].pc \notin {"idle", "on"} /\ kills < MaxKills
  /\ kills' = kills + 1
  /\ Errs(c)
  /\ flock' = Unlocked(c)
  /\ UNCHANGED <<lockPath, pid, sock, leader, crashes, exits>>

ClientStep(c) ==
  \/ Connects(c) \/ ConnectFails(c) \/ ReadyFails(c) \/ Registers(c)
  \/ ClientOpens(c) \/ ClientLocks(c) \/ WaitEnds(c)
  \/ Spawns(c) \/ SpawnFails(c) \/ SeesListener(c) \/ ListenTimesOut(c)
  \/ ClientUnlinks(c) \/ ClientCloses(c)

LeaderStep(l) ==
  \/ LeaderOpens(l) \/ LeaderTries(l) \/ Binds(l) \/ Handoff(l) \/ TakesLock(l)
  \/ GivesUp(l) \/ BecomesReady(l) \/ ServerEnds(l) \/ LeaderUnlinks(l) \/ LeaderCloses(l)

Next ==
  \/ \E c \in Clients : Begins(c) \/ ClientStep(c) \/ Disconnects(c) \/ ClientCrashes(c)
  \/ \E l \in Leaders : LeaderStep(l) \/ ToldToStop(l) \/ LeaderCrashes(l)

Spec == Init /\ [][Next]_vars

\* Processes run, sockets answer and time limits end: nothing in progress rests.
\* Nobody has to start, stop or crash.
FairSpec ==
  /\ Spec
  /\ \A c \in Clients : WF_vars(ClientStep(c))
  /\ \A l \in Leaders : WF_vars(LeaderStep(l))

-------------------------------------------------------------------------------

\* Every variable has its type.
TypeOK ==
  /\ lockPath \in Files \cup {None}
  /\ flock \in [Files -> Clients \cup Leaders \cup {None}]
  /\ pid \in [Files -> Leaders \cup {None}]
  /\ sock \in Leaders \cup {None}
  /\ client \in [Clients -> [pc : ClientSteps, fd : Files \cup {None},
                             conn : Leaders \cup {None}, failed : BOOLEAN]]
  /\ leader \in [Leaders -> [pc : LeaderSteps, fd : Files \cup {None}, stale : BOOLEAN]]
  /\ crashes \in 0 .. MaxCrashes /\ kills \in 0 .. MaxKills /\ exits \in 0 .. MaxExits

\* What the lock file says is true: a Leader that serves holds the lock of the file
\* it opened, and a live pid read at the lock path is that of the lock's holder.
LockTruthful ==
  /\ \A l \in Serving : flock[leader[l].fd] = l
  /\ (LockPid # None /\ Alive(LockPid)) => flock[lockPath] = LockPid

\* One Host per user: at no time do two Leader processes run handlers on the
\* state home.
SingleHost == Cardinality(Serving) <= 1

Quiet ==
  /\ \A c \in Clients : client[c].pc \in {"idle", "on"}
  /\ \A l \in Leaders : leader[l].pc \in {"dead", "ready"}

\* Whenever nobody is in the middle of the protocol, the Host that holds the lock
\* is the one the socket path leads to, so that the next client finds it.
HostReachable == Quiet => \A l \in Serving : lockPath = leader[l].fd => sock = l

\* connect_or_spawn returns.
ClientsSettle ==
  \A c \in Clients : client[c].pc \notin {"idle", "on"} ~> client[c].pc \in {"idle", "on"}
===============================================================================
