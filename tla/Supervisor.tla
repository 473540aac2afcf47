----------------------------- MODULE Supervisor -----------------------------
(***************************************************************************)
(* The service manager of a container without systemd                      *)
(* (src/service/container.rs): a detached supervisor holds a lock, listens *)
(* on a socket and keeps one daemon running while the settings file says   *)
(* enabled; the service commands, the updater and every incoming SSH       *)
(* bridge are separate processes that talk to it over the socket.          *)
(*                                                                         *)
(* Of the settings only `enabled` is kept.  A supervisor is a slot for a   *)
(* process; a slot is used again once its process is gone.                 *)
(***************************************************************************)
EXTENDS Naturals

CONSTANTS
    Client,    \* slots for processes that run a service command or a bridge
    Slot,      \* slots for supervisor processes
    Kind,      \* the service actions that clients ask for
    MaxKills,  \* bound: supervisors killed or told to end, containers restarted
    Nobody     \* neither a client nor a slot

\* A user's commands, and the restart that the updater of a daemon asks for.
ASSUME SupervisorAssumption ==
    /\ Kind \subseteq {"start", "stop", "restart", "update"}
    /\ MaxKills \in Nat
    /\ Nobody \notin Slot

VARIABLES
    enabled,  \* the settings file: "on" or "off"
    kind,     \* what a client runs: one of Kind, "revive" for a bridge, "none"
    pc,       \* where it stands
    via,      \* supervisor that its request is connected to, or Nobody
    sup,      \* where a supervisor process stands
    again,    \* what follows the death of its daemon: "restart" or "end" (no restart)
    daemon,   \* "up" while a daemon that a supervisor started lives
    socket,   \* who bound supervisor.sock last, or Nobody when there is no file
    stopped,  \* "yes": a user's stop succeeded and no user did anything during it
              \* or since; "trying" while it has not (history)
    kills     \* kills so far

clients == <<kind, pc, via>>
supervisors == <<sup, again, daemon, socket>>
vars == <<enabled, clients, supervisors, stopped, kills>>

Init ==
    /\ enabled = "on"
    /\ kind = [c \in Client |-> "none"]
    /\ pc = [c \in Client |-> "idle"]
    /\ via = [c \in Client |-> Nobody]
    /\ sup = [s \in Slot |-> "none"]
    /\ again = [s \in Slot |-> "end"]
    /\ daemon = [s \in Slot |-> "none"]
    /\ socket = Nobody
    /\ stopped = "no"
    /\ kills = 0

\* The listener is there from the time it is bound until run_supervisor returns.
Listening(s) ==
    socket = s /\ sup[s] \in {"reading", "starting", "running", "killing", "sleeping"}

ByUser(k) == k \in {"start", "stop", "restart"}

-----------------------------------------------------------------------------
(* Clients: service commands, updates, bridges.                            *)

\* A client goes on to the given place, or its process ends.
Goes(c, place) ==
    /\ pc' = [pc EXCEPT ![c] = place]
    /\ kind' = IF place = "idle" THEN [kind EXCEPT ![c] = "none"] ELSE kind

\* A command of a user that no other command of a user overlaps can be held to
\* its word.
Heard(c, k) ==
    stopped' = IF ~ByUser(k) THEN stopped
               ELSE IF k = "stop" /\ \A d \in Client \ {c} : ~ByUser(kind[d]) THEN "trying"
               ELSE "no"

\* control writes the settings before anything else; every action but a stop
\* enables the service.
Control(c, k) ==
    /\ pc[c] = "idle"
    /\ k = "update" => \E s \in Slot : daemon[s] = "up"
    /\ enabled' = IF k = "stop" THEN "off" ELSE "on"
    /\ kind' = [kind EXCEPT ![c] = k]
    /\ pc' = [pc EXCEPT ![c] = IF k = "start" THEN "start" ELSE "ask"]
    /\ Heard(c, k)
    /\ UNCHANGED <<via, supervisors, kills>>

\* An SSH bridge: ensure_started leaves a disabled service alone.
EnsureStarted(c) ==
    /\ pc[c] = "idle"
    /\ enabled = "on"
    /\ kind' = [kind EXCEPT ![c] = "revive"]
    /\ pc' = [pc EXCEPT ![c] = "start"]
    /\ UNCHANGED <<enabled, via, supervisors, stopped, kills>>

\* Places where a client makes a request: the P of control, then S or R; the P
\* of start, and the P that start and stop repeat.
Asking == {"ask", "order", "start", "poll"}

Request(c) ==
    IF pc[c] # "order" THEN "P" ELSE IF kind[c] = "stop" THEN "S" ELSE "R"

\* Where a client goes when its request is acknowledged.
Acknowledged(c) ==
    CASE pc[c] = "ask" -> "order"
      [] pc[c] \in {"order", "poll"} /\ kind[c] = "stop" -> "poll"
      [] OTHER -> "idle"

\* Where it goes when there is nobody to answer.
WhenRefused(c) ==
    CASE pc[c] = "ask" /\ kind[c] # "stop" -> "start"
      [] pc[c] = "start" -> "spawn"
      [] pc[c] = "poll" /\ kind[c] # "stop" -> "poll"
      [] OTHER -> "idle"

Connect(c, s) ==
    /\ pc[c] \in Asking
    /\ via[c] = Nobody
    /\ Listening(s)
    /\ via' = [via EXCEPT ![c] = s]
    /\ UNCHANGED <<enabled, kind, pc, supervisors, stopped, kills>>

\* A stop succeeds when nobody answers its P, the first or a repeated one.
Succeeds(c) == kind[c] = "stop" /\ pc[c] \in {"ask", "poll"}

\* Nobody listens, or the supervisor went away with the connection.
Refused(c) ==
    /\ pc[c] \in Asking
    /\ IF via[c] = Nobody THEN \A s \in Slot : ~Listening(s) ELSE ~Listening(via[c])
    /\ Goes(c, WhenRefused(c))
    /\ via' = [via EXCEPT ![c] = Nobody]
    /\ stopped' = IF Succeeds(c) /\ stopped = "trying" THEN "yes" ELSE stopped
    /\ UNCHANGED <<enabled, supervisors, kills>>

Spawn(c, s) ==
    /\ pc[c] = "spawn"
    /\ sup[s] = "none"
    /\ daemon[s] = "none"
    /\ \A d \in Client : via[d] # s
    /\ sup' = [sup EXCEPT ![s] = "spawned"]
    /\ pc' = [pc EXCEPT ![c] = "poll"]
    /\ UNCHANGED <<enabled, kind, via, again, daemon, socket, stopped, kills>>

\* Fifty polls have not given what start or stop wait for.
GiveUp(c) ==
    /\ pc[c] = "poll"
    /\ via[c] = Nobody
    /\ Goes(c, "idle")
    /\ UNCHANGED <<enabled, via, supervisors, stopped, kills>>

\* The updater of a daemon that died is gone as well.
Vanish(c) ==
    /\ kind[c] = "update"
    /\ pc[c] # "idle"
    /\ \A s \in Slot : daemon[s] = "none"
    /\ Goes(c, "idle")
    /\ via' = [via EXCEPT ![c] = Nobody]
    /\ UNCHANGED <<enabled, supervisors, stopped, kills>>

-----------------------------------------------------------------------------
(* Supervisors.                                                            *)

\* The lock is held from here until the process is gone.
HoldsLock(s) == sup[s] \notin {"none", "spawned"}

GoesOn(s, from, to) ==
    /\ sup[s] = from
    /\ sup' = [sup EXCEPT ![s] = to]

\* Mutant: the lock is shared.
LockShared(s) ==
    /\ GoesOn(s, "spawned", "locked")
    /\ UNCHANGED <<enabled, clients, again, daemon, socket, stopped, kills>>

Lock(s) ==
    /\ \A t \in Slot : ~HoldsLock(t)
    /\ GoesOn(s, "spawned", "locked")
    /\ UNCHANGED <<enabled, clients, again, daemon, socket, stopped, kills>>

\* Another supervisor holds the lock: the process ends well.
LockTaken(s) ==
    /\ \E t \in Slot : HoldsLock(t)
    /\ GoesOn(s, "spawned", "none")
    /\ UNCHANGED <<enabled, clients, again, daemon, socket, stopped, kills>>

\* Mutant: a socket file that a killed supervisor left makes bind fail.
BindFresh(s) ==
    /\ sup[s] = "locked"
    /\ IF socket = Nobody
       THEN /\ socket' = s
            /\ sup' = [sup EXCEPT ![s] = "reading"]
       ELSE /\ sup' = [sup EXCEPT ![s] = "none"]
            /\ UNCHANGED socket
    /\ UNCHANGED <<enabled, clients, again, daemon, stopped, kills>>

\* A socket file that is still there is replaced.
Bind(s) ==
    /\ GoesOn(s, "locked", "reading")
    /\ socket' = s
    /\ UNCHANGED <<enabled, clients, again, daemon, stopped, kills>>

\* Mutant: a supervisor that was started starts its daemon.
ReadNothing(s) ==
    /\ GoesOn(s, "reading", "starting")
    /\ UNCHANGED <<enabled, clients, again, daemon, socket, stopped, kills>>

\* Before every start of the daemon the settings are read again.
ReadSettings(s) ==
    /\ GoesOn(s, "reading", IF enabled = "on" THEN "starting" ELSE "exiting")
    /\ UNCHANGED <<enabled, clients, again, daemon, socket, stopped, kills>>

StartDaemon(s) ==
    /\ GoesOn(s, "starting", "running")
    /\ daemon' = [daemon EXCEPT ![s] = "up"]
    /\ UNCHANGED <<enabled, clients, again, socket, stopped, kills>>

\* A crash, or the end of a daemon that was updated.
DaemonExits(s) ==
    /\ GoesOn(s, "running", "killing")
    /\ daemon' = [daemon EXCEPT ![s] = "none"]
    /\ again' = [again EXCEPT ![s] = "restart"]
    /\ UNCHANGED <<enabled, clients, socket, stopped, kills>>

\* Every request is acknowledged first; S and R end the wait for the daemon.
Accept(s, c) ==
    /\ sup[s] = "running"
    /\ via[c] = s
    /\ Goes(c, Acknowledged(c))
    /\ via' = [via EXCEPT ![c] = Nobody]
    /\ IF Request(c) = "P"
       THEN UNCHANGED <<sup, again>>
       ELSE /\ sup' = [sup EXCEPT ![s] = "killing"]
            /\ again' = [again EXCEPT ![s] = IF Request(c) = "R" THEN "restart" ELSE "end"]
    /\ UNCHANGED <<enabled, daemon, socket, stopped, kills>>

Kills == kills < MaxKills /\ kills' = kills + 1

\* SIGTERM.
Terminate(s) ==
    /\ Kills
    /\ GoesOn(s, "running", "killing")
    /\ again' = [again EXCEPT ![s] = "end"]
    /\ UNCHANGED <<enabled, clients, daemon, socket, stopped>>

KillDaemon(s) ==
    /\ GoesOn(s, "killing", IF again[s] = "restart" THEN "sleeping" ELSE "exiting")
    /\ again' = [again EXCEPT ![s] = "end"]
    /\ daemon' = [daemon EXCEPT ![s] = "none"]
    /\ UNCHANGED <<enabled, clients, socket, stopped, kills>>

\* The second between two daemons is over.
Wake(s) ==
    /\ GoesOn(s, "sleeping", "reading")
    /\ UNCHANGED <<enabled, clients, again, daemon, socket, stopped, kills>>

RemoveSocket(s) ==
    /\ GoesOn(s, "exiting", "closing")
    /\ socket' = Nobody
    /\ UNCHANGED <<enabled, clients, again, daemon, stopped, kills>>

Exit(s) ==
    /\ GoesOn(s, "closing", "none")
    /\ UNCHANGED <<enabled, clients, again, daemon, socket, stopped, kills>>

\* SIGKILL: the lock is free at once, the daemon lives until the signal it asked
\* for arrives.
Killed(s) ==
    /\ Kills
    /\ HoldsLock(s)
    /\ sup' = [sup EXCEPT ![s] = "none"]
    /\ again' = [again EXCEPT ![s] = "end"]
    /\ UNCHANGED <<enabled, clients, daemon, socket, stopped>>

\* Every process is gone; the files stay, the socket's among them.
ContainerRestarts ==
    /\ Kills
    /\ kind' = [c \in Client |-> "none"]
    /\ pc' = [c \in Client |-> "idle"]
    /\ via' = [c \in Client |-> Nobody]
    /\ sup' = [s \in Slot |-> "none"]
    /\ again' = [s \in Slot |-> "end"]
    /\ daemon' = [s \in Slot |-> "none"]
    /\ UNCHANGED <<enabled, socket, stopped>>

OrphanEnds(s) ==
    /\ sup[s] = "none"
    /\ daemon[s] = "up"
    /\ daemon' = [daemon EXCEPT ![s] = "none"]
    /\ UNCHANGED <<enabled, clients, sup, again, socket, stopped, kills>>

-----------------------------------------------------------------------------

ClientStep(c) ==
    \/ Refused(c) \/ GiveUp(c) \/ Vanish(c)
    \/ \E s \in Slot : Connect(c, s) \/ Spawn(c, s)

Supervise(s) ==
    \/ Lock(s) \/ LockTaken(s) \/ Bind(s) \/ ReadSettings(s) \/ StartDaemon(s)
    \/ KillDaemon(s) \/ Wake(s) \/ RemoveSocket(s) \/ Exit(s) \/ OrphanEnds(s)

Next ==
    \/ ContainerRestarts
    \/ \E c \in Client : (\E k \in Kind : Control(c, k)) \/ EnsureStarted(c) \/ ClientStep(c)
    \/ \E s \in Slot :
         \/ Supervise(s) \/ DaemonExits(s) \/ Terminate(s) \/ Killed(s)
         \/ \E c \in Client : Accept(s, c)

Spec == Init /\ [][Next]_vars

\* Processes run, and peers keep dialing: some client is a bridge again and
\* again.
FairSpec ==
    /\ Spec
    /\ \A c \in Client : WF_vars(ClientStep(c))
    /\ SF_vars(\E c \in Client : EnsureStarted(c))
    /\ \A s \in Slot : WF_vars(Supervise(s))

-----------------------------------------------------------------------------

Place == {"idle", "spawn"} \cup Asking
Standing ==
    {"none", "spawned", "locked", "reading", "starting", "running", "killing", "sleeping",
     "exiting", "closing"}

TypeOK ==
    /\ enabled \in {"on", "off"}
    /\ kind \in [Client -> Kind \cup {"revive", "none"}]
    /\ pc \in [Client -> Place]
    /\ via \in [Client -> Slot \cup {Nobody}]
    /\ \A c \in Client : kind[c] = "none" <=> pc[c] = "idle"
    /\ \A c \in Client : via[c] # Nobody => pc[c] \in Asking
    /\ sup \in [Slot -> Standing]
    /\ again \in [Slot -> {"restart", "end"}]
    /\ daemon \in [Slot -> {"none", "up"}]
    /\ socket \in Slot \cup {Nobody}
    /\ stopped \in {"no", "trying", "yes"}
    /\ kills \in 0 .. MaxKills

Owned(s) == daemon[s] = "up" /\ sup[s] # "none"

-----------------------------------------------------------------------------

\* However commands, updates, bridges and kills meet, no two supervisors each
\* keep a daemon: the clipboard has one owner, but for one that is dying.
OneDaemon == \A s, t \in Slot : Owned(s) /\ Owned(t) => s = t

\* Once a stop has succeeded and nothing has enabled the service again, no daemon
\* is kept running or comes up, whatever bridges were about to start one.
StopHolds == stopped = "yes" /\ enabled = "off" => \A s \in Slot : sup[s] # "running"

\* While peers dial, a service that stays enabled runs a daemon again and again,
\* whatever was killed before.
Revived == []<>(enabled = "off" \/ \E s \in Slot : Owned(s))

=============================================================================
