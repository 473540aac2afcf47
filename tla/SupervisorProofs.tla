-------------------------- MODULE SupervisorProofs --------------------------
(* Proofs about Supervisor for any number of clients, supervisor processes   *)
(* and kills, and whatever service actions the clients ask for.              *)
EXTENDS Supervisor, TLAPS

\* The lock has one holder, and a supervisor that does not hold it has not
\* started a daemon.
Processes ==
    /\ sup \in [Slot -> Standing]
    /\ daemon \in [Slot -> {"none", "up"}]

LockExclusive == \A s, t \in Slot : HoldsLock(s) /\ HoldsLock(t) => s = t
NoneBeforeLock == \A s \in Slot : sup[s] = "spawned" => daemon[s] = "none"

IInv == Processes /\ LockExclusive /\ NoneBeforeLock

LEMMA InvInit == Init => IInv
BY DEF Init, IInv, Processes, Standing, LockExclusive, HoldsLock, NoneBeforeLock

\* A step of a supervisor that holds the lock leaves it the only one.
LEMMA HolderSteps ==
    ASSUME IInv, NEW s \in Slot, HoldsLock(s), NEW place \in Standing \ {"spawned"},
           sup' = [sup EXCEPT ![s] = place],
           NEW state \in {"none", "up"}, daemon' = [daemon EXCEPT ![s] = state]
    PROVE  IInv'
BY DEF IInv, Processes, Standing, LockExclusive, HoldsLock, NoneBeforeLock

\* Clients leave supervisors where they are, but for the ones they spawn.
LEMMA ClientKeeps ==
    ASSUME IInv, NEW c \in Client,
           (\E k \in Kind : Control(c, k)) \/ EnsureStarted(c) \/ ClientStep(c)
    PROVE  IInv'
<1>1. CASE UNCHANGED <<sup, daemon>>
  BY <1>1 DEF IInv, Processes, LockExclusive, HoldsLock, NoneBeforeLock
<1>2. ASSUME NEW s \in Slot, Spawn(c, s) PROVE IInv'
  BY <1>2 DEF Spawn, IInv, Processes, Standing, LockExclusive, HoldsLock, NoneBeforeLock
<1>3. (\E s \in Slot : Spawn(c, s)) \/ UNCHANGED <<sup, daemon>>
  BY DEF Control, EnsureStarted, ClientStep, Refused, GiveUp, Vanish, Connect, supervisors
<1>4. QED
  BY <1>1, <1>2, <1>3

LEMMA SupervisorKeeps ==
    ASSUME IInv, NEW s \in Slot,
           Supervise(s) \/ DaemonExits(s) \/ Terminate(s) \/ Killed(s)
           \/ \E c \in Client : Accept(s, c)
    PROVE  IInv'
<1> USE DEF GoesOn
<1>1. sup \in [Slot -> Standing] /\ daemon \in [Slot -> {"none", "up"}]
  BY DEF IInv, Processes
<1>2. CASE Lock(s)
  BY <1>2 DEF Lock, IInv, Processes, Standing, LockExclusive, HoldsLock, NoneBeforeLock
<1>3. CASE LockTaken(s)
  BY <1>3 DEF LockTaken, IInv, Processes, Standing, LockExclusive, HoldsLock, NoneBeforeLock
<1>4. CASE OrphanEnds(s)
  BY <1>4 DEF OrphanEnds, IInv, Processes, Standing, LockExclusive, HoldsLock, NoneBeforeLock
<1>5. ASSUME Bind(s) \/ ReadSettings(s) \/ Terminate(s) \/ Wake(s) \/ RemoveSocket(s)
             \/ Exit(s) \/ Killed(s) \/ \E c \in Client : Accept(s, c)
      PROVE  IInv'
  <2>1. daemon' = [daemon EXCEPT ![s] = daemon[s]]
    BY <1>1, <1>5 DEF Bind, ReadSettings, Terminate, Wake, RemoveSocket, Exit, Killed, Accept
  <2>2. HoldsLock(s)
    BY <1>5 DEF Bind, ReadSettings, Terminate, Wake, RemoveSocket, Exit, Killed, Accept, HoldsLock
  <2>3. \E place \in Standing \ {"spawned"} : sup' = [sup EXCEPT ![s] = place]
    BY <1>1, <1>5 DEF Bind, ReadSettings, Terminate, Wake, RemoveSocket, Exit, Killed, Accept,
       Standing
  <2>4. daemon[s] \in {"none", "up"}
    BY <1>1
  <2>5. QED
    BY <2>1, <2>2, <2>3, <2>4, HolderSteps
<1>6. ASSUME StartDaemon(s) \/ DaemonExits(s) \/ KillDaemon(s)
      PROVE  IInv'
  <2>1. HoldsLock(s)
    BY <1>6 DEF StartDaemon, DaemonExits, KillDaemon, HoldsLock
  <2>2. \E place \in Standing \ {"spawned"} : sup' = [sup EXCEPT ![s] = place]
    BY <1>6 DEF StartDaemon, DaemonExits, KillDaemon, Standing
  <2>3. \E state \in {"none", "up"} : daemon' = [daemon EXCEPT ![s] = state]
    BY <1>6 DEF StartDaemon, DaemonExits, KillDaemon
  <2>4. QED
    BY <2>1, <2>2, <2>3, HolderSteps
<1>7. QED
  BY <1>2, <1>3, <1>4, <1>5, <1>6 DEF Supervise

LEMMA LockInvariant == Spec => []IInv
<1>1. IInv /\ [Next]_vars => IInv'
  <2>1. ASSUME IInv, ContainerRestarts PROVE IInv'
    BY <2>1 DEF ContainerRestarts, IInv, Processes, Standing, LockExclusive, HoldsLock,
       NoneBeforeLock
  <2>2. ASSUME IInv, UNCHANGED vars PROVE IInv'
    BY <2>2 DEF vars, supervisors, IInv, Processes, LockExclusive, HoldsLock, NoneBeforeLock
  <2>3. QED
    BY <2>1, <2>2, ClientKeeps, SupervisorKeeps DEF Next
<1>2. QED
  BY InvInit, <1>1, PTL DEF Spec

\* Whatever commands, updates and bridges meet whatever kills, the lock file
\* leaves no two supervisors with a daemon each.
THEOREM OneOwner == Spec => []OneDaemon
<1>1. IInv => OneDaemon
  BY DEF IInv, Processes, Standing, LockExclusive, HoldsLock, NoneBeforeLock, OneDaemon, Owned
<1>2. QED
  BY LockInvariant, <1>1, PTL

-----------------------------------------------------------------------------
(* Stopping.  A daemon that starts has a supervisor that read the settings     *)
(* while it listened; a stop succeeds when nobody listens any more.            *)

Launching == {"starting", "running"}

ClientTypes ==
    /\ kind \in [Client -> Kind \cup {"revive", "none"}]
    /\ pc \in [Client -> Place]
    /\ via \in [Client -> Slot \cup {Nobody}]
    /\ \A c \in Client : pc[c] = "idle" => kind[c] = "none"
    /\ \A c \in Client : pc[c] = "idle" => via[c] = Nobody

SocketHeld ==
    \A s \in Slot :
        sup[s] \in {"reading", "starting", "running", "killing", "sleeping"} => socket = s

\* While a stop that counts is under way, no other command of a user is.
OneUser ==
    stopped = "trying" =>
        \A c, d \in Client : ByUser(kind[c]) /\ ByUser(kind[d]) => c = d

\* Who a stop talks to is the only one that may still be launching.
OthersQuiet ==
    stopped = "trying" /\ enabled = "off" =>
        \A c \in Client : kind[c] = "stop" /\ via[c] # Nobody =>
            \A s \in Slot \ {via[c]} : sup[s] \notin Launching

Quiet == stopped = "yes" /\ enabled = "off" => \A s \in Slot : sup[s] \notin Launching

SInv == ClientTypes /\ SocketHeld /\ OneUser /\ OthersQuiet /\ Quiet

LEMMA SInit == Init => SInv
BY SupervisorAssumption
DEF Init, SInv, ClientTypes, Place, SocketHeld, OneUser, OthersQuiet, Quiet

\* Supervisors do not change what clients run; one that begins to launch has
\* read that the service is enabled.
LEMMA SupervisorQuiet ==
    ASSUME IInv, SInv, UNCHANGED <<enabled, kind, stopped>>,
           ClientTypes', SocketHeld',
           \A c \in Client : via'[c] \in {via[c], Nobody},
           enabled = "off" => \A s \in Slot : sup'[s] \in Launching => sup[s] \in Launching
    PROVE  SInv'
BY DEF SInv, OneUser, OthersQuiet, Quiet

LEMMA SlotSteps ==
    ASSUME IInv, SInv, NEW s \in Slot, Supervise(s) \/ DaemonExits(s) \/ Terminate(s) \/ Killed(s)
    PROVE  SInv'
<1> USE DEF GoesOn
<1>1. UNCHANGED <<enabled, clients, stopped>>
  BY DEF Supervise, Lock, LockTaken, Bind, ReadSettings, StartDaemon, KillDaemon, Wake,
     RemoveSocket, Exit, OrphanEnds, DaemonExits, Terminate, Killed
<1>2. ClientTypes'
  BY <1>1 DEF SInv, ClientTypes, clients
<1>3. SocketHeld'
  <2>1. sup \in [Slot -> Standing] /\ LockExclusive
    BY DEF IInv, Processes
  <2>2. CASE Bind(s) \/ RemoveSocket(s)
    BY <2>1, <2>2 DEF SInv, SocketHeld, Bind, RemoveSocket, LockExclusive, HoldsLock
  <2>3. CASE UNCHANGED socket
    BY <2>1, <2>3 DEF SInv, SocketHeld, Supervise, Lock, LockTaken, Bind, ReadSettings,
       StartDaemon, KillDaemon, Wake, RemoveSocket, Exit, OrphanEnds, DaemonExits, Terminate, Killed
  <2>4. QED
    BY <2>2, <2>3 DEF Supervise, Lock, LockTaken, ReadSettings, StartDaemon, KillDaemon, Wake,
       Exit, OrphanEnds, DaemonExits, Terminate, Killed
<1>4. enabled = "off" => \A t \in Slot : sup'[t] \in Launching => sup[t] \in Launching
  BY DEF IInv, Processes, Launching, Supervise, Lock, LockTaken, Bind, ReadSettings, StartDaemon,
     KillDaemon, Wake, RemoveSocket, Exit, OrphanEnds, DaemonExits, Terminate, Killed
<1>5. QED
  BY <1>1, <1>2, <1>3, <1>4, SupervisorQuiet DEF clients

LEMMA AcceptQuiet ==
    ASSUME IInv, SInv, NEW s \in Slot, NEW c \in Client, Accept(s, c)
    PROVE  SInv'
<1> DEFINE place == Acknowledged(c)
<1>1. place \in {"idle", "order", "poll"}
  BY DEF Acknowledged
<1>2. via' = [via EXCEPT ![c] = Nobody] /\ UNCHANGED <<enabled, socket, stopped>> /\ Goes(c, place)
  BY DEF Accept
<1> HIDE DEF place
<1>3. ClientTypes'
  BY <1>1, <1>2 DEF Goes, SInv, ClientTypes, Place, Asking
<1>4. sup' = sup \/ sup' = [sup EXCEPT ![s] = "killing"]
  BY DEF Accept
<1>5. sup \in [Slot -> Standing] /\ sup[s] = "running"
  BY DEF Accept, IInv, Processes
<1>6. SocketHeld'
  BY <1>2, <1>4, <1>5 DEF SInv, SocketHeld
<1>7. \A t \in Slot : sup'[t] \in Launching => sup[t] \in Launching
  BY <1>4, <1>5 DEF Launching
<1>8. \A d \in Client : kind'[d] \in {kind[d], "none"} /\ via'[d] \in {via[d], Nobody}
  BY <1>2 DEF Goes, SInv, ClientTypes
<1>9. OneUser'
  BY <1>2, <1>8 DEF SInv, OneUser, ByUser
<1>10. OthersQuiet' /\ Quiet'
  BY <1>2, <1>7, <1>8 DEF SInv, OthersQuiet, Quiet
<1>11. QED
  BY <1>3, <1>6, <1>9, <1>10 DEF SInv

\* A supervisor that listens is the only one that may be launching.
LEMMA ListenerAlone ==
    ASSUME IInv, SInv, NEW s \in Slot, Listening(s)
    PROVE  \A t \in Slot \ {s} : sup[t] \notin Launching
BY DEF IInv, LockExclusive, HoldsLock, Listening, Launching

\* One that launches listens.
LEMMA LauncherListens ==
    ASSUME SInv, NEW s \in Slot, sup[s] \in Launching
    PROVE  Listening(s)
BY DEF SInv, SocketHeld, Listening, Launching

\* Commands, bridges and what they do without a supervisor's part in it.
LEMMA ClientQuiet ==
    ASSUME IInv, SInv, NEW c \in Client,
           (\E k \in Kind : Control(c, k)) \/ EnsureStarted(c) \/ ClientStep(c)
    PROVE  SInv'
<1>1. ASSUME NEW k \in Kind, Control(c, k) PROVE SInv'
  <2>1. /\ kind' = [kind EXCEPT ![c] = k] /\ via' = via /\ UNCHANGED <<sup, socket>>
        /\ enabled' = IF k = "stop" THEN "off" ELSE "on"
        /\ pc[c] = "idle" /\ via[c] = Nobody
    BY <1>1 DEF Control, supervisors, SInv, ClientTypes
  <2>2. ClientTypes'
    BY <1>1, <2>1 DEF Control, SInv, ClientTypes, Place, Asking
  <2>3. SocketHeld'
    BY <2>1 DEF SInv, SocketHeld
  <2>4. \A d \in Client : kind'[d] = IF d = c THEN k ELSE kind[d]
    BY <2>1 DEF SInv, ClientTypes
  <2>5. stopped' = "trying" /\ ~ByUser(k) => stopped = "trying"
    BY <1>1 DEF Control, Heard
  <2>6. stopped' = "trying" /\ ByUser(k) => \A d \in Client \ {c} : ~ByUser(kind[d])
    BY <1>1 DEF Control, Heard
  <2>7. OneUser'
    BY <2>4, <2>5, <2>6 DEF SInv, OneUser
  <2>8. OthersQuiet'
    BY <2>1, <2>4, <2>6 DEF OthersQuiet, ByUser
  <2>9. Quiet'
    <3>1. k = "stop" => stopped' # "yes"
      BY <1>1 DEF Control, Heard, ByUser
    <3>2. QED
      BY <2>1, <3>1 DEF Quiet
  <2>10. QED
    BY <2>2, <2>3, <2>7, <2>8, <2>9 DEF SInv
<1>2. CASE EnsureStarted(c)
  <2>1. ClientTypes' /\ SocketHeld'
    BY <1>2 DEF EnsureStarted, supervisors, SInv, ClientTypes, Place, Asking, SocketHeld
  <2>2. \A d \in Client : kind'[d] = IF d = c THEN "revive" ELSE kind[d]
    BY <1>2 DEF EnsureStarted, SInv, ClientTypes
  <2>3. QED
    BY <1>2, <2>1, <2>2 DEF EnsureStarted, supervisors, SInv, OneUser, ByUser, OthersQuiet, Quiet
<1>3. ASSUME NEW s \in Slot, Connect(c, s) PROVE SInv'
  <2>1. ClientTypes' /\ SocketHeld' /\ OneUser'
    BY <1>3 DEF Connect, supervisors, SInv, ClientTypes, Place, Asking, SocketHeld, OneUser
  <2>2. \A d \in Client : via'[d] = IF d = c THEN s ELSE via[d]
    BY <1>3 DEF Connect, SInv, ClientTypes
  <2>3. \A t \in Slot \ {s} : sup[t] \notin Launching
    BY <1>3, ListenerAlone DEF Connect
  <2>4. OthersQuiet' /\ Quiet'
    BY <1>3, <2>2, <2>3 DEF Connect, supervisors, SInv, OthersQuiet, Quiet
  <2>5. QED
    BY <2>1, <2>4 DEF SInv
<1>4. CASE Refused(c)
  <2> DEFINE place == WhenRefused(c)
  <2>1. place \in {"idle", "start", "spawn", "poll"}
    BY DEF WhenRefused
  <2>2. /\ Goes(c, place) /\ via' = [via EXCEPT ![c] = Nobody]
        /\ UNCHANGED <<enabled, sup, socket>> /\ pc[c] \in Asking
        /\ stopped' = IF Succeeds(c) /\ stopped = "trying" THEN "yes" ELSE stopped
    BY <1>4 DEF Refused, supervisors
  <2> HIDE DEF place
  <2>3. ClientTypes' /\ SocketHeld'
    BY <2>1, <2>2 DEF Goes, SInv, ClientTypes, SocketHeld, Place, Asking
  <2>4. \A d \in Client : kind'[d] \in {kind[d], "none"} /\ via'[d] \in {via[d], Nobody}
    BY <2>2 DEF Goes, SInv, ClientTypes
  <2>5. OneUser' /\ OthersQuiet'
    BY <2>2, <2>4 DEF SInv, OneUser, OthersQuiet, ByUser
  <2>6. ASSUME Succeeds(c), stopped = "trying", enabled = "off", NEW t \in Slot
        PROVE  sup[t] \notin Launching
    <3>1. CASE via[c] = Nobody
      BY <1>4, <3>1, LauncherListens DEF Refused
    <3>2. CASE via[c] # Nobody
      <4>1. ~Listening(via[c])
        BY <1>4, <3>2 DEF Refused
      <4>2. kind[c] = "stop"
        BY <2>6 DEF Succeeds
      <4>3. QED
        BY <2>6, <3>2, <4>1, <4>2, LauncherListens DEF SInv, OthersQuiet
    <3>3. QED
      BY <3>1, <3>2
  <2>7. Quiet'
    BY <2>2, <2>6 DEF SInv, Quiet
  <2>8. QED
    BY <2>3, <2>5, <2>7 DEF SInv
<1>5. CASE GiveUp(c) \/ Vanish(c)
  <2>1. ClientTypes' /\ SocketHeld'
    BY <1>5 DEF GiveUp, Vanish, Goes, supervisors, SInv, ClientTypes, SocketHeld, Place
  <2>2. \A d \in Client : kind'[d] \in {kind[d], "none"} /\ via'[d] \in {via[d], Nobody}
    BY <1>5 DEF GiveUp, Vanish, Goes, SInv, ClientTypes
  <2>3. UNCHANGED <<enabled, sup, stopped>>
    BY <1>5 DEF GiveUp, Vanish, supervisors
  <2>4. QED
    BY <2>1, <2>2, <2>3 DEF SInv, OneUser, OthersQuiet, Quiet, ByUser
<1>6. ASSUME NEW s \in Slot, Spawn(c, s) PROVE SInv'
  <2>1. sup' = [sup EXCEPT ![s] = "spawned"] /\ sup \in [Slot -> Standing]
    BY <1>6 DEF Spawn, IInv, Processes
  <2>2. ClientTypes' /\ SocketHeld'
    BY <1>6, <2>1 DEF Spawn, SInv, ClientTypes, SocketHeld, Place, Asking
  <2>3. \A t \in Slot : sup'[t] \in Launching => sup[t] \in Launching
    BY <2>1 DEF Launching
  <2>4. QED
    BY <1>6, <2>2, <2>3, SupervisorQuiet DEF Spawn
<1>7. QED
  BY <1>1, <1>2, <1>3, <1>4, <1>5, <1>6 DEF ClientStep

LEMMA RestartQuiet ==
    ASSUME IInv, SInv, ContainerRestarts
    PROVE  SInv'
<1>1. ClientTypes' /\ SocketHeld'
  BY DEF ContainerRestarts, ClientTypes, SocketHeld, Place
<1>2. OneUser' /\ OthersQuiet' /\ Quiet'
  BY DEF ContainerRestarts, OneUser, OthersQuiet, Quiet, ByUser, Launching
<1>3. QED
  BY <1>1, <1>2 DEF SInv

\* A stop that has succeeded holds: a bridge that saw the service enabled just
\* before starts a supervisor that reads the settings again.
THEOREM StoppedStays == Spec => []StopHolds
<1>1. IInv /\ SInv /\ [Next]_vars => SInv'
  <2>1. ASSUME SInv, UNCHANGED vars PROVE SInv'
    BY <2>1 DEF vars, clients, supervisors, SInv, ClientTypes, SocketHeld, OneUser, OthersQuiet,
       Quiet
  <2>2. QED
    BY <2>1, SlotSteps, AcceptQuiet, ClientQuiet, RestartQuiet DEF Next
<1>2. SInv => StopHolds
  BY DEF SInv, Quiet, Launching, StopHolds
<1>3. QED
  BY LockInvariant, SInit, <1>1, <1>2, PTL DEF Spec

=============================================================================
