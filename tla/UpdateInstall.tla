--------------------------- MODULE UpdateInstall ----------------------------
(***************************************************************************)
(* How one machine replaces its own executable (src/update.rs, reconcile   *)
(* and install_verified_binary; src/deploy.rs, install_local_binary and    *)
(* restore_previous_binary): the files are written in place next to the    *)
(* live one, a watchdog process waits for the new daemon to report health  *)
(* and puts the previous executable back when it does not.                 *)
(*                                                                         *)
(* An Updater is a process that reconciles: the daemon itself, or the      *)
(* update command of a user.  Of a file only its version matters, or that  *)
(* it is absent or half written.                                           *)
(***************************************************************************)
EXTENDS Naturals

CONSTANTS
    Updater,     \* processes that update: "daemon", "command"
    MaxVersion,  \* bound: releases, numbered in order; the first is installed
    Broken,      \* releases whose daemon never comes up
    Reaped,      \* restarting the service kills the children of the daemon
    MaxFaults    \* bound: power failures and failed downloads

ASSUME InstallAssumption ==
    /\ Updater \subseteq {"daemon", "command"}
    /\ MaxVersion \in Nat \ {0}
    /\ Broken \subseteq 2 .. MaxVersion
    /\ Reaped \in BOOLEAN
    /\ MaxFaults \in Nat

Version == 1 .. MaxVersion
Absent == 0
Torn == MaxVersion + 1
NoVersion == 0

VARIABLES
    latest,    \* npm's latest release
    live,      \* the executable the service runs
    new,       \* ssh-clipboard.new
    previous,  \* ssh-clipboard.previous
    healthy,   \* state/healthy-version
    running,   \* version of the running daemon, or NoVersion
    pc,        \* where an updater stands
    own,       \* version of an updater's process
    target,    \* the release it installs
    writing,   \* file its copy goes to: "none", "new", or "live" once renamed
    backup,    \* what it read of the live file to back up
    watchdog,  \* release the watchdog an updater spawned waits for
    lost,      \* power failed while a watchdog was waiting (history)
    raced,     \* two updaters were installing at once (history)
    faults     \* faults so far

files == <<live, new, previous>>
updaters == <<pc, own, target, writing, backup>>
vars == <<latest, files, healthy, running, updaters, watchdog, lost, raced, faults>>

Init ==
    /\ latest = 1
    /\ live = 1
    /\ new = Absent
    /\ previous = Absent
    /\ healthy = 1
    /\ running = 1
    /\ pc = [i \in Updater |-> "idle"]
    /\ own = [i \in Updater |-> NoVersion]
    /\ target = [i \in Updater |-> NoVersion]
    /\ writing = [i \in Updater |-> "none"]
    /\ backup = [i \in Updater |-> Absent]
    /\ watchdog = [i \in Updater |-> NoVersion]
    /\ lost = "no"
    /\ raced = "no"
    /\ faults = 0

Fault == faults < MaxFaults /\ faults' = faults + 1

\* Updater i is installing: from the time it spawned its watchdog until that
\* has ended.
Installing(i) == pc[i] \notin {"idle", "download"} \/ watchdog[i] # NoVersion

\* What updater i does from here on may meet what another one is doing.
Meets(i) == raced' = IF \E j \in Updater \ {i} : Installing(j) THEN "yes" ELSE raced

\* Updater i moves on to the given place.
At(i, from, to) ==
    /\ pc[i] = from
    /\ pc' = [pc EXCEPT ![i] = to]

-----------------------------------------------------------------------------

Release ==
    /\ latest < MaxVersion
    /\ latest' = latest + 1
    /\ UNCHANGED <<files, healthy, running, updaters, watchdog, lost, raced, faults>>

\* The release an updater's own process was built as.
VersionOf(i) == IF i = "daemon" THEN running ELSE live

\* A tick or a hint wakes the daemon's updater, or a user runs the command; it
\* looks up the latest release and goes on when that is newer than itself.
\* Bound: not while the watchdog of its last installation waits.
Check(i) ==
    /\ watchdog[i] = NoVersion
    /\ VersionOf(i) \in Version
    /\ latest > VersionOf(i)
    /\ own' = [own EXCEPT ![i] = VersionOf(i)]
    /\ target' = [target EXCEPT ![i] = latest]
    /\ At(i, "idle", "download")
    /\ UNCHANGED <<latest, files, healthy, running, writing, backup, watchdog, lost, raced, faults>>

\* With nothing newer the command still sees to the service.
NothingNewer(i) ==
    /\ i = "command"
    /\ live \in Version
    /\ latest <= live
    /\ At(i, "idle", "restart")
    /\ Meets(i)
    /\ UNCHANGED <<latest, files, healthy, running, own, target, writing, backup, watchdog,
                   lost, faults>>

\* Download, digests or the staged --version check fail.
DownloadFails(i) ==
    /\ At(i, "download", "idle")
    /\ Fault
    /\ UNCHANGED <<latest, files, healthy, running, own, target, writing, backup,
                   watchdog, lost, raced>>

\* The staged binary is verified and the watchdog of its version spawned.
SpawnWatchdog(i) ==
    /\ watchdog' = [watchdog EXCEPT ![i] = target[i]]
    /\ At(i, "download", "copy")
    /\ Meets(i)
    /\ UNCHANGED <<latest, files, healthy, running, own, target, writing, backup, lost,
                   faults>>

\* Mutant: the staged binary is copied straight onto the live one.
CopyOntoLive(i) ==
    /\ live' = Torn
    /\ writing' = [writing EXCEPT ![i] = "live"]
    /\ At(i, "copy", "copying")
    /\ UNCHANGED <<latest, new, previous, healthy, running, own, target, backup, watchdog,
                   lost, raced, faults>>

\* The copy truncates whatever ssh-clipboard.new there is.
CopyStarts(i) ==
    /\ new' = Torn
    /\ writing' = [writing EXCEPT ![i] = "new"]
    /\ At(i, "copy", "copying")
    /\ UNCHANGED <<latest, live, previous, healthy, running, own, target, backup, watchdog,
                   lost, raced, faults>>

\* What a file holds when updater i has written it all: half of something as
\* long as another copy to it is not done.
Written(i) ==
    IF \E j \in Updater \ {i} : writing[j] = writing[i] THEN Torn ELSE target[i]

CopyEnds(i) ==
    /\ new' = IF writing[i] = "new" THEN Written(i) ELSE new
    /\ live' = IF writing[i] = "live" THEN Written(i) ELSE live
    /\ writing' = [writing EXCEPT ![i] = "none"]
    /\ At(i, "copying", "back up")
    /\ UNCHANGED <<latest, previous, healthy, running, own, target, backup, watchdog, lost,
                   raced, faults>>

BackupStarts(i) ==
    /\ backup' = [backup EXCEPT ![i] = live]
    /\ previous' = Torn
    /\ At(i, "back up", "backing up")
    /\ UNCHANGED <<latest, live, new, healthy, running, own, target, writing, watchdog, lost,
                   raced, faults>>

\* Mutant: what is about to become live is saved as the previous executable.
BackupOfNew(i) ==
    /\ previous' = new
    /\ At(i, "backing up", "rename")
    /\ UNCHANGED <<latest, live, new, healthy, running, own, target, writing, backup,
                   watchdog, lost, raced, faults>>

BackupEnds(i) ==
    /\ previous' = backup[i]
    /\ At(i, "backing up", "rename")
    /\ UNCHANGED <<latest, live, new, healthy, running, own, target, writing, backup,
                   watchdog, lost, raced, faults>>

\* The new file takes the name of the live one; a copy that is still being
\* written goes on into the same file.
Rename(i) ==
    /\ new # Absent
    /\ live' = new
    /\ new' = Absent
    /\ writing' = [j \in Updater |-> IF writing[j] = "new" THEN "live" ELSE writing[j]]
    /\ At(i, "rename", "restart")
    /\ UNCHANGED <<latest, previous, healthy, running, own, target, backup, watchdog, lost,
                   raced, faults>>

\* Another updater has renamed the file away: the watchdog is killed.
RenameFails(i) ==
    /\ new = Absent
    /\ watchdog' = [watchdog EXCEPT ![i] = NoVersion]
    /\ At(i, "rename", "idle")
    /\ UNCHANGED <<latest, files, healthy, running, own, target, writing, backup, lost, raced, faults>>

\* The daemon is killed with whatever it was installing and, where the service
\* manager reaps them, with its children.
ServiceRestarts ==
    /\ running' = NoVersion
    /\ writing' = [j \in Updater |-> IF j = "daemon" THEN "none" ELSE writing[j]]

RestartService(i) ==
    /\ pc[i] = "restart"
    /\ ServiceRestarts
    /\ pc' = [j \in Updater |-> IF j \in {i, "daemon"} THEN "idle" ELSE pc[j]]
    /\ watchdog' = [j \in Updater |-> IF Reaped /\ j = "daemon" THEN NoVersion ELSE watchdog[j]]
    /\ UNCHANGED <<latest, files, healthy, own, target, backup, lost, raced, faults>>

\* The command leaves a service alone that answers with the live version.
LeaveService(i) ==
    /\ i = "command"
    /\ running = live
    /\ At(i, "restart", "idle")
    /\ UNCHANGED <<latest, files, healthy, running, own, target, writing, backup, watchdog,
                   lost, raced, faults>>

\* The service manager starts the live executable and, when it is a daemon that
\* works, it reports its version as healthy.
DaemonStarts ==
    /\ running = NoVersion
    /\ live \in Version \ Broken
    /\ running' = live
    /\ healthy' = live
    /\ UNCHANGED <<latest, files, updaters, watchdog, lost, raced, faults>>

\* Power fails: every process is gone, the files stay as they are.
PowerFails ==
    /\ Fault
    /\ running' = NoVersion
    /\ pc' = [i \in Updater |-> "idle"]
    /\ writing' = [i \in Updater |-> "none"]
    /\ watchdog' = [i \in Updater |-> NoVersion]
    /\ lost' = IF \E i \in Updater : watchdog[i] # NoVersion THEN "yes" ELSE lost
    /\ UNCHANGED <<latest, files, healthy, own, target, backup, raced>>

WatchdogSatisfied(i) ==
    /\ watchdog[i] # NoVersion
    /\ healthy = watchdog[i]
    /\ watchdog' = [watchdog EXCEPT ![i] = NoVersion]
    /\ UNCHANGED <<latest, files, healthy, running, updaters, lost, raced, faults>>

\* Ninety seconds have passed: an installation ends and a daemon that can start
\* has started long before.
TimesOut(i) ==
    /\ watchdog[i] # NoVersion
    /\ healthy # watchdog[i]
    /\ pc[i] = "idle"
    /\ ~(running = NoVersion /\ live \in Version \ Broken)
    /\ watchdog' = [watchdog EXCEPT ![i] = NoVersion]

\* Mutant: the watchdog ends without putting anything back.
WatchdogGivesUp(i) ==
    /\ TimesOut(i)
    /\ UNCHANGED <<latest, files, healthy, running, updaters, lost, raced, faults>>

\* The previous executable, if there is one, is copied aside and renamed over
\* the live one, and the service restarted.
WatchdogRestores(i) ==
    /\ TimesOut(i)
    /\ \/ /\ previous = Absent
          /\ UNCHANGED <<live, running, pc, writing>>
       \/ /\ previous # Absent
          /\ live' = previous
          /\ ServiceRestarts
          /\ pc' = [j \in Updater |-> IF j = "daemon" THEN "idle" ELSE pc[j]]
    /\ UNCHANGED <<latest, new, previous, healthy, own, target, backup, lost, raced, faults>>

-----------------------------------------------------------------------------

Install(i) ==
    \/ SpawnWatchdog(i) \/ CopyStarts(i) \/ CopyEnds(i) \/ BackupStarts(i) \/ BackupEnds(i)
    \/ Rename(i) \/ RenameFails(i) \/ RestartService(i)

Watch(i) == WatchdogSatisfied(i) \/ WatchdogRestores(i)

Next ==
    \/ Release \/ DaemonStarts \/ PowerFails
    \/ \E i \in Updater :
         \/ Check(i) \/ NothingNewer(i) \/ LeaveService(i) \/ DownloadFails(i)
         \/ Install(i) \/ Watch(i)

Spec == Init /\ [][Next]_vars

\* The daemon checks on every tick, an installation goes on, the service manager
\* restarts a daemon that is down, and the time of a watchdog runs out.
\* Releases, users and faults are owed to nobody.
FairSpec ==
    /\ Spec
    /\ WF_vars(DaemonStarts)
    /\ \A i \in Updater : WF_vars(Install(i)) /\ SF_vars(Watch(i))
    /\ \A i \in Updater \cap {"daemon"} : WF_vars(Check(i))

-----------------------------------------------------------------------------

File == Version \cup {Absent, Torn}
Place == {"idle", "download", "copy", "copying", "back up", "backing up", "rename", "restart"}

TypeOK ==
    /\ latest \in Version
    /\ live \in File
    /\ new \in File
    /\ previous \in File
    /\ healthy \in Version
    /\ running \in Version \cup {NoVersion}
    /\ pc \in [Updater -> Place]
    /\ own \in [Updater -> Version \cup {NoVersion}]
    /\ target \in [Updater -> Version \cup {NoVersion}]
    /\ writing \in [Updater -> {"none", "new", "live"}]
    /\ \A i \in Updater : writing[i] # "none" <=> pc[i] = "copying"
    /\ backup \in [Updater -> File]
    /\ watchdog \in [Updater -> Version \cup {NoVersion}]
    /\ lost \in {"no", "yes"}
    /\ raced \in {"no", "yes"}
    /\ faults \in 0 .. MaxFaults

-----------------------------------------------------------------------------
(* What holds as long as one update follows the other; the proofs build on it. *)

Writes == {"copy", "copying", "back up", "backing up", "rename"}

TargetsChosen ==
    /\ \A i \in Updater : pc[i] \in Writes \cup {"download"} => target[i] \in Version
    /\ \A i \in Updater : pc[i] = "download" => watchdog[i] = NoVersion

OneAtATime ==
    \A i, j \in Updater : i # j => ~(Installing(i) /\ Installing(j))

\* The files hold what the one installer's place says.
FilesInOrder ==
    /\ live \in Version
    /\ \A i \in Updater : writing[i] # "live"
    /\ \A i \in Updater : pc[i] \in {"back up", "backing up", "rename"} => new = target[i]
    /\ \A i \in Updater : pc[i] = "backing up" => backup[i] \in Version
    /\ \A i \in Updater :
         watchdog[i] # NoVersion /\ pc[i] \in {"idle", "rename", "restart"} => previous # Torn

TurnsInOrder == raced = "yes" \/ (OneAtATime /\ FilesInOrder)

-----------------------------------------------------------------------------

\* As long as one update follows the other, the service never runs a
\* half-written executable: power may fail at any step.
LiveComplete == raced = "yes" \/ live \in Version

\* As long as the release on trial is live, the executable to go back to is
\* complete and another one.
RollbackReady ==
    \A i \in Updater :
        live = watchdog[i] /\ healthy # live => previous \in Version \ {live}

RollbackReadyAlone == raced = "yes" \/ RollbackReady

\* A release whose daemon never comes up does not stay live, unless power fails
\* while its watchdog waits.
RolledBack == \A v \in Broken : live = v ~> live # v \/ lost = "yes"

RolledBackAlone == \A v \in Broken : live = v ~> live # v \/ lost = "yes" \/ raced = "yes"

\* A machine with a broken release in between still reaches the last one.
ReachesLatest ==
    <>[](latest = MaxVersion) => <>(running = MaxVersion \/ lost = "yes" \/ raced = "yes")

=============================================================================
