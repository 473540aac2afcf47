------------------------ MODULE UpdateInstallProofs -------------------------
(* Proofs about UpdateInstall for every number of releases and faults, every *)
(* set of broken releases, and both kinds of service manager; RollbackKept   *)
(* is about the kind that leaves the watchdog alive when the daemon restarts.*)
EXTENDS UpdateInstall, TLAPS

IInv == TypeOK /\ TargetsChosen /\ TurnsInOrder

LEMMA VersionIsWhole ==
    /\ \A v \in Version : v # Torn /\ v # NoVersion
    /\ \A f \in File : f # Torn /\ f # Absent => f \in Version
BY InstallAssumption DEF Version, File, Torn, Absent, NoVersion

LEMMA VersionsAreNumbers == Version \subseteq Nat
BY InstallAssumption DEF Version

LEMMA NoneBelowItself == \A n \in Nat : ~(n < n)
BY SMT

LEMMA InvInit == Init => IInv
BY InstallAssumption
DEF Init, IInv, TypeOK, TargetsChosen, TurnsInOrder, OneAtATime, FilesInOrder, Installing,
    Version, File, Place, Absent, Torn, NoVersion, Writes

\* A release or a fault stays within its bound.
LEMMA OneMore ==
    ASSUME NEW x, NEW y, NEW z \in Nat, x \in y .. z, y \in Nat, x < z
    PROVE  x + 1 \in y .. z
BY SMT

\* The daemon that restarts leaves its installation where it was.
LEMMA DaemonDies ==
    ASSUME TypeOK, ServiceRestarts,
           pc' = [j \in Updater |-> IF j = "daemon" THEN "idle" ELSE pc[j]]
    PROVE  /\ pc' \in [Updater -> Place]
           /\ writing' \in [Updater -> {"none", "new", "live"}]
           /\ \A j \in Updater : writing'[j] # "none" <=> pc'[j] = "copying"
BY DEF TypeOK, ServiceRestarts, Place

LEMMA TypeStep ==
    ASSUME TypeOK, TargetsChosen, [Next]_vars
    PROVE  TypeOK'
<1> USE InstallAssumption DEF TypeOK, TargetsChosen, Version, File, Place, Absent, Torn, NoVersion,
        Writes, files, updaters, At
<1>1. CASE Release
  <2>1. latest + 1 \in 1 .. MaxVersion
    BY <1>1, OneMore DEF Release
  <2>2. QED
    BY <1>1, <2>1 DEF Release
<1>2. CASE DaemonStarts
  BY <1>2 DEF DaemonStarts
<1>3. CASE PowerFails
  <2>1. faults + 1 \in 0 .. MaxFaults
    BY <1>3, OneMore DEF PowerFails, Fault
  <2>2. QED
    BY <1>3, <2>1 DEF PowerFails, Fault
<1>4. ASSUME NEW i \in Updater, Check(i) PROVE TypeOK'
  BY <1>4 DEF Check, VersionOf
<1>5. ASSUME NEW i \in Updater, NothingNewer(i) PROVE TypeOK'
  BY <1>5 DEF NothingNewer, Meets
<1>6. ASSUME NEW i \in Updater, LeaveService(i) PROVE TypeOK'
  BY <1>6 DEF LeaveService
<1>7. ASSUME NEW i \in Updater, DownloadFails(i) PROVE TypeOK'
  <2>1. faults + 1 \in 0 .. MaxFaults
    BY <1>7, OneMore DEF DownloadFails, Fault
  <2>2. QED
    BY <1>7, <2>1 DEF DownloadFails, Fault
<1>8. ASSUME NEW i \in Updater, SpawnWatchdog(i) PROVE TypeOK'
  BY <1>8 DEF SpawnWatchdog, Meets
<1>9. ASSUME NEW i \in Updater, CopyStarts(i) PROVE TypeOK'
  BY <1>9 DEF CopyStarts
<1>10. ASSUME NEW i \in Updater, CopyEnds(i) PROVE TypeOK'
  BY <1>10 DEF CopyEnds, Written
<1>11. ASSUME NEW i \in Updater, BackupStarts(i) PROVE TypeOK'
  BY <1>11 DEF BackupStarts
<1>12. ASSUME NEW i \in Updater, BackupEnds(i) PROVE TypeOK'
  BY <1>12 DEF BackupEnds
<1>13. ASSUME NEW i \in Updater, Rename(i) PROVE TypeOK'
  BY <1>13 DEF Rename
<1>14. ASSUME NEW i \in Updater, RenameFails(i) PROVE TypeOK'
  BY <1>14 DEF RenameFails
<1>15. ASSUME NEW i \in Updater, RestartService(i) PROVE TypeOK'
  BY <1>15 DEF RestartService, ServiceRestarts
<1>16. ASSUME NEW i \in Updater, WatchdogSatisfied(i) PROVE TypeOK'
  BY <1>16 DEF WatchdogSatisfied
<1>17. ASSUME NEW i \in Updater, WatchdogRestores(i) PROVE TypeOK'
  <2>1. watchdog' \in [Updater -> Version \cup {NoVersion}]
    BY <1>17 DEF WatchdogRestores, TimesOut
  <2>2. CASE previous = Absent
    BY <1>17, <2>1, <2>2 DEF WatchdogRestores
  <2>3. CASE previous # Absent
    <3>1. /\ pc' \in [Updater -> Place]
          /\ writing' \in [Updater -> {"none", "new", "live"}]
          /\ \A j \in Updater : writing'[j] # "none" <=> pc'[j] = "copying"
      BY <1>17, <2>3, DaemonDies DEF WatchdogRestores
    <3>2. live' \in File /\ running' \in Version \cup {NoVersion}
      BY <1>17, <2>3 DEF WatchdogRestores, ServiceRestarts
    <3>4. QED
      BY <1>17, <2>1, <3>1, <3>2 DEF WatchdogRestores
  <2>4. QED
    BY <2>2, <2>3
<1>18. CASE UNCHANGED vars
  BY <1>18 DEF vars
<1>19. QED
  BY <1>1, <1>2, <1>3, <1>4, <1>5, <1>6, <1>7, <1>8, <1>9, <1>10, <1>11, <1>12, <1>13,
     <1>14, <1>15, <1>16, <1>17, <1>18 DEF Next, Install, Watch

\* An updater that goes on to download has no watchdog, and one that installs
\* has chosen a release.
LEMMA TargetsStep ==
    ASSUME TypeOK, TargetsChosen, [Next]_vars
    PROVE  TargetsChosen'
<1> USE DEF TypeOK, TargetsChosen, NoVersion, Writes, files, updaters, At
<1>1. CASE Release \/ DaemonStarts \/ PowerFails \/ UNCHANGED vars
  BY <1>1 DEF Release, DaemonStarts, PowerFails, vars
<1>2. ASSUME NEW i \in Updater, Check(i) PROVE TargetsChosen'
  <2>1. latest \in Version
    OBVIOUS
  <2>2. QED
    BY <1>2, <2>1 DEF Check
<1>3. ASSUME NEW i \in Updater,
             NothingNewer(i) \/ LeaveService(i) \/ DownloadFails(i) \/ SpawnWatchdog(i)
      PROVE  TargetsChosen'
  BY <1>3 DEF NothingNewer, LeaveService, DownloadFails, SpawnWatchdog
<1>4. ASSUME NEW i \in Updater, CopyStarts(i) \/ CopyEnds(i) \/ BackupStarts(i) \/ BackupEnds(i)
      PROVE  TargetsChosen'
  BY <1>4 DEF CopyStarts, CopyEnds, BackupStarts, BackupEnds
<1>5. ASSUME NEW i \in Updater, Rename(i) \/ RenameFails(i) \/ RestartService(i)
      PROVE  TargetsChosen'
  BY <1>5 DEF Rename, RenameFails, RestartService
<1>6. ASSUME NEW i \in Updater, Watch(i) PROVE TargetsChosen'
  BY <1>6 DEF Watch, WatchdogSatisfied, WatchdogRestores, TimesOut, ServiceRestarts
<1>7. QED
  BY <1>1, <1>2, <1>3, <1>4, <1>5, <1>6 DEF Next, Install

-----------------------------------------------------------------------------

\* While one updater installs, no other writes a file or has a watchdog.
LEMMA OthersAreQuiet ==
    ASSUME TypeOK, OneAtATime, NEW i \in Updater, Installing(i)
    PROVE  \A j \in Updater \ {i} :
             pc[j] \in {"idle", "download"} /\ watchdog[j] = NoVersion /\ writing[j] = "none"
BY DEF TypeOK, OneAtATime, Installing

\* An updater begins to install only where Meets looks for others.
LEMMA AloneStep ==
    ASSUME TypeOK, OneAtATime, [Next]_vars, raced' # "yes"
    PROVE  OneAtATime'
<1> DEFINE NoneBegins == \A j \in Updater : Installing(j)' => Installing(j)
<1>1. ASSUME NoneBegins PROVE OneAtATime'
  BY <1>1 DEF OneAtATime
<1>2. ASSUME NEW i \in Updater, Meets(i), \A j \in Updater \ {i} : Installing(j)' => Installing(j)
      PROVE  OneAtATime'
  BY <1>2 DEF OneAtATime, Meets
<1> USE DEF TypeOK, NoVersion, files, updaters, At
<1>3. ASSUME Release \/ DaemonStarts \/ PowerFails \/ UNCHANGED vars PROVE NoneBegins
  BY <1>3 DEF Release, DaemonStarts, PowerFails, vars, Installing
<1>4. ASSUME NEW i \in Updater, Check(i) \/ LeaveService(i) \/ DownloadFails(i) PROVE NoneBegins
  BY <1>4 DEF Check, LeaveService, DownloadFails, Installing
<1>5. ASSUME NEW i \in Updater, NothingNewer(i) \/ SpawnWatchdog(i) PROVE OneAtATime'
  <2>1. \A j \in Updater \ {i} : Installing(j)' => Installing(j)
    BY <1>5 DEF NothingNewer, SpawnWatchdog, Installing
  <2>2. QED
    BY <1>2, <1>5, <2>1 DEF NothingNewer, SpawnWatchdog
<1>6. ASSUME NEW i \in Updater, CopyStarts(i) \/ CopyEnds(i) \/ BackupStarts(i) \/ BackupEnds(i)
      PROVE  NoneBegins
  BY <1>6 DEF CopyStarts, CopyEnds, BackupStarts, BackupEnds, Installing
<1>7. ASSUME NEW i \in Updater, Rename(i) \/ RenameFails(i) \/ RestartService(i)
      PROVE  NoneBegins
  BY <1>7 DEF Rename, RenameFails, RestartService, Installing
<1>8. ASSUME NEW i \in Updater, Watch(i) PROVE NoneBegins
  BY <1>8 DEF Watch, WatchdogSatisfied, WatchdogRestores, TimesOut, ServiceRestarts, Installing
<1>9. QED
  BY <1>1, <1>3, <1>4, <1>5, <1>6, <1>7, <1>8 DEF Next, Install

\* What the only installer does keeps the files in order.
LEMMA FilesStep ==
    ASSUME TypeOK, TargetsChosen, OneAtATime, FilesInOrder, [Next]_vars
    PROVE  FilesInOrder'
<1> USE InstallAssumption DEF TypeOK, TargetsChosen, FilesInOrder, NoVersion, Writes, files,
        updaters, At
<1>1. CASE Release \/ DaemonStarts \/ UNCHANGED vars
  BY <1>1 DEF Release, DaemonStarts, vars
<1>2. CASE PowerFails
  BY <1>2 DEF PowerFails
<1>3. ASSUME NEW i \in Updater, Check(i) PROVE FilesInOrder'
  BY <1>3 DEF Check
<1>4. ASSUME NEW i \in Updater, NothingNewer(i) \/ LeaveService(i) PROVE FilesInOrder'
  BY <1>4 DEF NothingNewer, LeaveService
<1>5. ASSUME NEW i \in Updater, DownloadFails(i) PROVE FilesInOrder'
  BY <1>5 DEF DownloadFails
<1>6. ASSUME NEW i \in Updater, SpawnWatchdog(i) PROVE FilesInOrder'
  BY <1>6 DEF SpawnWatchdog
<1>7. ASSUME NEW i \in Updater, CopyStarts(i) PROVE FilesInOrder'
  BY <1>7, OthersAreQuiet DEF CopyStarts, Installing
<1>8. ASSUME NEW i \in Updater, CopyEnds(i) PROVE FilesInOrder'
  <2>1. writing[i] = "new"
    BY <1>8 DEF CopyEnds
  <2>2. \A j \in Updater \ {i} : pc[j] \in {"idle", "download"} /\ writing[j] = "none"
    BY <1>8, OthersAreQuiet DEF CopyEnds, Installing
  <2>3. new' = target[i] /\ live' = live
    BY <1>8, <2>1, <2>2 DEF CopyEnds, Written
  <2>4. QED
    BY <1>8, <2>2, <2>3 DEF CopyEnds, Installing
<1>9. ASSUME NEW i \in Updater, BackupStarts(i) PROVE FilesInOrder'
  BY <1>9, OthersAreQuiet DEF BackupStarts, Installing
<1>10. ASSUME NEW i \in Updater, BackupEnds(i) PROVE FilesInOrder'
  <2>1. previous' \in Version /\ previous' # Torn
    BY <1>10, VersionIsWhole DEF BackupEnds
  <2>2. QED
    BY <1>10, <2>1, OthersAreQuiet DEF BackupEnds, Installing
<1>11. ASSUME NEW i \in Updater, Rename(i) PROVE FilesInOrder'
  <2>1. \A j \in Updater : writing[j] = "none"
    BY <1>11, OthersAreQuiet DEF Rename, Installing
  <2>2. \A j \in Updater \ {i} : pc'[j] \in {"idle", "download"} /\ watchdog'[j] = NoVersion
    BY <1>11, OthersAreQuiet DEF Rename, Installing
  <2>3. live' \in Version /\ (\A j \in Updater : writing'[j] # "live")
    <3>1. new = target[i] /\ target[i] \in Version
      BY <1>11 DEF Rename
    <3>2. live' = new
      BY <1>11 DEF Rename
    <3>3. writing' = [j \in Updater |-> IF writing[j] = "new" THEN "live" ELSE writing[j]]
      BY <1>11 DEF Rename
    <3>4. \A j \in Updater : writing'[j] # "live"
      BY <2>1, <3>3
    <3>5. QED
      BY <3>1, <3>2, <3>4
  <2>4. pc'[i] = "restart" /\ (watchdog'[i] # NoVersion => previous' # Torn)
    BY <1>11 DEF Rename
  <2>5. QED
    BY <2>2, <2>3, <2>4
<1>12. ASSUME NEW i \in Updater, RenameFails(i) PROVE FilesInOrder'
  BY <1>12 DEF RenameFails
<1>13. ASSUME NEW i \in Updater, RestartService(i) PROVE FilesInOrder'
  <2>1. \A j \in Updater \ {i} : pc[j] \in {"idle", "download"} /\ watchdog[j] = NoVersion
    BY <1>13, OthersAreQuiet DEF RestartService, Installing
  <2>2. \A j \in Updater : pc'[j] \in {pc[j], "idle"} /\ watchdog'[j] \in {watchdog[j], NoVersion}
    BY <1>13 DEF RestartService
  <2>3. \A j \in Updater : writing'[j] \in {writing[j], "none"}
    BY <1>13 DEF RestartService, ServiceRestarts
  <2>4. watchdog[i] # NoVersion => previous # Torn
    BY <1>13 DEF RestartService
  <2>5. QED
    BY <1>13, <2>1, <2>2, <2>3, <2>4 DEF RestartService
<1>14. ASSUME NEW i \in Updater, WatchdogSatisfied(i) PROVE FilesInOrder'
  BY <1>14 DEF WatchdogSatisfied
<1>15. ASSUME NEW i \in Updater, WatchdogRestores(i) PROVE FilesInOrder'
  <2>1. live' \in Version
    BY <1>15, VersionIsWhole DEF WatchdogRestores, TimesOut
  <2>2. \A j \in Updater : watchdog'[j] = NoVersion
    BY <1>15, OthersAreQuiet DEF WatchdogRestores, TimesOut, Installing
  <2>3. \A j \in Updater : pc'[j] \in {pc[j], "idle"} /\ writing'[j] \in {writing[j], "none"}
    <3>1. CASE UNCHANGED <<pc, writing>>
      BY <3>1
    <3>2. CASE ServiceRestarts /\ pc' = [j \in Updater |-> IF j = "daemon" THEN "idle" ELSE pc[j]]
      BY <3>2 DEF ServiceRestarts
    <3>3. QED
      BY <1>15, <3>1, <3>2 DEF WatchdogRestores
  <2>4. QED
    BY <1>15, <2>1, <2>2, <2>3 DEF WatchdogRestores
<1>16. QED
  BY <1>1, <1>2, <1>3, <1>4, <1>5, <1>6, <1>7, <1>8, <1>9, <1>10, <1>11, <1>12, <1>13,
     <1>14, <1>15 DEF Next, Install, Watch

\* A race is never forgotten.
LEMMA RacedStays ==
    ASSUME raced = "yes", [Next]_vars
    PROVE  raced' = "yes"
BY DEF Next, Install, Watch, vars, Release, DaemonStarts, PowerFails, Check, NothingNewer,
   LeaveService, DownloadFails, SpawnWatchdog, CopyStarts, CopyEnds, BackupStarts, BackupEnds,
   Rename, RenameFails, RestartService, WatchdogSatisfied, WatchdogRestores, Meets

LEMMA TurnsStep ==
    ASSUME TypeOK, TargetsChosen, TurnsInOrder, [Next]_vars
    PROVE  TurnsInOrder'
BY AloneStep, FilesStep, RacedStays DEF TurnsInOrder

-----------------------------------------------------------------------------

LEMMA InstallInvariant == Spec => []IInv
<1>1. IInv /\ [Next]_vars => IInv'
  BY TypeStep, TargetsStep, TurnsStep DEF IInv
<1>2. QED
  BY InvInit, <1>1, PTL DEF Spec

\* Every place an updater may be in, every file and every process has its type,
\* raced or not: an updater never writes where another action may not expect it.
THEOREM TypeCorrect == Spec => []TypeOK
<1>1. IInv => TypeOK
  BY DEF IInv
<1>2. QED
  BY InstallInvariant, <1>1, PTL

\* Whatever the releases, the power failures and the service manager, an
\* executable is only ever renamed over the live one when it is complete, as
\* long as no two updaters install at once.
THEOREM NeverHalfWritten == Spec => []LiveComplete
<1>1. IInv => LiveComplete
  BY DEF IInv, TurnsInOrder, FilesInOrder, LiveComplete
<1>2. QED
  BY InstallInvariant, <1>1, PTL

-----------------------------------------------------------------------------
(* The executable to go back to, as long as no two updaters install at once *)
(* and a restart of the service leaves the daemon's watchdog alive.         *)

\* The watchdog of updater i waits, and what it is to try is live.
Tried(i) == watchdog[i] # NoVersion /\ pc[i] \in {"idle", "restart"}

\* A daemon that runs has reported its version.
HealthyRuns == running # NoVersion => running = healthy

\* Another version is live only until the installer has restarted the service.
LiveRuns == running \notin {NoVersion, live} => \E j \in Updater : pc[j] = "restart"

\* The watchdog waits for what is installed.  That of the command may have ended
\* already: the state file may have named its version before.
WritesWatched ==
    \A i \in Updater : pc[i] \in Writes =>
        watchdog[i] = target[i] \/ (i # "daemon" /\ watchdog[i] = NoVersion)

BackupIsLive ==
    \A i \in Updater :
        /\ pc[i] = "backing up" => backup[i] = live
        /\ pc[i] = "rename" => previous = live

\* What is live already is installed again only when it is known to work.
NoSecondTrial == \A i \in Updater : pc[i] \in Writes /\ live = target[i] => healthy = live

\* The daemon installs what is newer than itself, and finds it live only when
\* the command is about to restart it.
DaemonUpdates ==
    \A i \in Updater : i = "daemon" /\ pc[i] \in Writes \cup {"download"} =>
        /\ running # NoVersion
        /\ running < target[i]
        /\ live = target[i] => \E j \in Updater : pc[j] = "restart"

\* The command may find that the daemon has installed the same release, which
\* works or is still tried.
CommandUpdates ==
    \A i \in Updater : i # "daemon" /\ pc[i] = "download" /\ live = target[i] =>
        healthy = live \/ \E j \in Updater : Tried(j)

\* What is tried works, or there is another version to go back to; when the
\* daemon installed it, that is the one that worked last.
Trials ==
    \A i \in Updater : Tried(i) =>
        /\ live = watchdog[i]
        /\ healthy = live \/ previous \in Version \ {live}
        /\ i = "daemon" => healthy \in {live, previous}

InTurn ==
    /\ HealthyRuns /\ LiveRuns
    /\ WritesWatched /\ BackupIsLive /\ NoSecondTrial
    /\ DaemonUpdates /\ CommandUpdates /\ Trials

\* The state the steps below start from.
Calm == TypeOK /\ TargetsChosen /\ OneAtATime /\ FilesInOrder /\ InTurn

LEMMA InTurnInit == Init => InTurn
BY DEF Init, InTurn, HealthyRuns, LiveRuns, WritesWatched, BackupIsLive, NoSecondTrial,
    DaemonUpdates, CommandUpdates, Trials, Tried, NoVersion, Writes

LEMMA HealthyRunsStep ==
    ASSUME HealthyRuns, [Next]_vars
    PROVE  HealthyRuns'
<1> USE DEF HealthyRuns, files, updaters
<1>1. CASE DaemonStarts \/ PowerFails \/ UNCHANGED vars
  BY <1>1 DEF DaemonStarts, PowerFails, vars
<1>2. ASSUME NEW i \in Updater, RestartService(i) PROVE HealthyRuns'
  BY <1>2 DEF RestartService, ServiceRestarts
<1>3. ASSUME NEW i \in Updater, WatchdogRestores(i) PROVE HealthyRuns'
  BY <1>3 DEF WatchdogRestores, TimesOut, ServiceRestarts
<1>4. CASE UNCHANGED <<healthy, running>>
  BY <1>4
<1>5. QED
  BY <1>1, <1>2, <1>3, <1>4 DEF Next, Install, Watch, Release, Check, NothingNewer, LeaveService,
     DownloadFails, SpawnWatchdog, CopyStarts, CopyEnds, BackupStarts, BackupEnds, Rename,
     RenameFails, WatchdogSatisfied

\* While updater i writes, only its own rename changes the live file.
LEMMA LiveStays ==
    ASSUME TypeOK, OneAtATime, FilesInOrder, [Next]_vars, NEW i \in Updater, pc[i] \in Writes,
           ~Rename(i)
    PROVE  live' = live
<1> USE DEF TypeOK, OneAtATime, FilesInOrder, Writes, NoVersion, files, updaters, At
<1>1. \A j \in Updater \ {i} :
        pc[j] \in {"idle", "download"} /\ watchdog[j] = NoVersion /\ writing[j] = "none"
  BY OthersAreQuiet DEF Installing
<1>2. ASSUME NEW j \in Updater, CopyEnds(j) PROVE live' = live
  BY <1>2 DEF CopyEnds
<1>3. ASSUME NEW j \in Updater, Rename(j) PROVE live' = live
  BY <1>1, <1>3 DEF Rename
<1>4. ASSUME NEW j \in Updater, WatchdogRestores(j) PROVE live' = live
  BY <1>1, <1>4 DEF WatchdogRestores, TimesOut
<1>5. CASE UNCHANGED live
  BY <1>5
<1>6. QED
  BY <1>2, <1>3, <1>4, <1>5 DEF Next, Install, Watch, Release, Check, NothingNewer, LeaveService,
     DownloadFails, SpawnWatchdog, CopyStarts, BackupStarts, BackupEnds, RestartService,
     RenameFails, WatchdogSatisfied, DaemonStarts, PowerFails, vars

LEMMA LiveRunsStep ==
    ASSUME TypeOK, OneAtATime, FilesInOrder, LiveRuns, [Next]_vars
    PROVE  LiveRuns'
<1> USE DEF TypeOK, LiveRuns, NoVersion, files, updaters, At
<1>1. CASE Release \/ DaemonStarts \/ PowerFails \/ UNCHANGED vars
  BY <1>1 DEF Release, DaemonStarts, PowerFails, vars
<1>2. ASSUME NEW i \in Updater, Check(i) \/ NothingNewer(i) \/ DownloadFails(i) \/ SpawnWatchdog(i)
      PROVE  LiveRuns'
  <2>1. \A j \in Updater : pc[j] = "restart" => pc'[j] = "restart"
    BY <1>2 DEF Check, NothingNewer, DownloadFails, SpawnWatchdog
  <2>2. UNCHANGED <<running, live>>
    BY <1>2 DEF Check, NothingNewer, DownloadFails, SpawnWatchdog
  <2>3. QED
    BY <2>1, <2>2
<1>3. ASSUME NEW i \in Updater, LeaveService(i) PROVE LiveRuns'
  BY <1>3 DEF LeaveService
<1>4. ASSUME NEW i \in Updater,
             CopyStarts(i) \/ CopyEnds(i) \/ BackupStarts(i) \/ BackupEnds(i) \/ RenameFails(i)
      PROVE  LiveRuns'
  <2>1. \A j \in Updater : pc[j] = "restart" => pc'[j] = "restart"
    BY <1>4 DEF CopyStarts, CopyEnds, BackupStarts, BackupEnds, RenameFails
  <2>2. running' = running
    BY <1>4 DEF CopyStarts, CopyEnds, BackupStarts, BackupEnds, RenameFails
  <2>3. live' = live
    BY <1>4 DEF CopyStarts, CopyEnds, BackupStarts, BackupEnds, RenameFails, FilesInOrder
  <2>4. QED
    BY <2>1, <2>2, <2>3
<1>5. ASSUME NEW i \in Updater, Rename(i) PROVE LiveRuns'
  <2>1. pc'[i] = "restart"
    BY <1>5 DEF Rename
  <2>2. QED
    BY <2>1
<1>6. ASSUME NEW i \in Updater, RestartService(i) PROVE LiveRuns'
  BY <1>6 DEF RestartService, ServiceRestarts
<1>7. ASSUME NEW i \in Updater, WatchdogSatisfied(i) PROVE LiveRuns'
  BY <1>7 DEF WatchdogSatisfied
<1>8. ASSUME NEW i \in Updater, WatchdogRestores(i) PROVE LiveRuns'
  BY <1>8 DEF WatchdogRestores, TimesOut, ServiceRestarts
<1>9. QED
  BY <1>1, <1>2, <1>3, <1>4, <1>5, <1>6, <1>7, <1>8 DEF Next, Install, Watch

\* An updater that begins to write finds nobody else installing.
LEMMA BeginsAlone ==
    ASSUME TypeOK, raced' # "yes", NEW i \in Updater, SpawnWatchdog(i)
    PROVE  \A j \in Updater : pc[j] \in {"idle", "download"} /\ (j # i => watchdog[j] = NoVersion)
BY DEF TypeOK, SpawnWatchdog, Meets, Installing, At

LEMMA WritesWatchedStep ==
    ASSUME TypeOK, TargetsChosen, OneAtATime, FilesInOrder, HealthyRuns, DaemonUpdates,
           WritesWatched, [Next]_vars
    PROVE  WritesWatched'
<1> USE DEF TypeOK, WritesWatched, NoVersion, Writes, files, updaters, At
<1>1. CASE Release \/ DaemonStarts \/ PowerFails \/ UNCHANGED vars
  BY <1>1 DEF Release, DaemonStarts, PowerFails, vars
<1>2. ASSUME NEW i \in Updater,
             Check(i) \/ NothingNewer(i) \/ LeaveService(i) \/ DownloadFails(i) \/ SpawnWatchdog(i)
      PROVE  WritesWatched'
  <2>1. ASSUME NEW j \in Updater, pc'[j] \in Writes PROVE pc[j] \in Writes \/ SpawnWatchdog(j)
    BY <1>2, <2>1 DEF Check, NothingNewer, LeaveService, DownloadFails, SpawnWatchdog
  <2>2. ASSUME NEW j \in Updater, pc[j] \in Writes PROVE UNCHANGED <<watchdog[j], target[j]>>
    BY <1>2, <2>2 DEF Check, NothingNewer, LeaveService, DownloadFails, SpawnWatchdog
  <2>3. ASSUME NEW j \in Updater, SpawnWatchdog(j) PROVE watchdog'[j] = target'[j]
    BY <2>3 DEF SpawnWatchdog
  <2>4. QED
    BY <2>1, <2>2, <2>3
<1>3. ASSUME NEW i \in Updater, CopyStarts(i) \/ CopyEnds(i) \/ BackupStarts(i) \/ BackupEnds(i)
      PROVE  WritesWatched'
  BY <1>3 DEF CopyStarts, CopyEnds, BackupStarts, BackupEnds
<1>4. ASSUME NEW i \in Updater, Rename(i) \/ RenameFails(i) PROVE WritesWatched'
  BY <1>4 DEF Rename, RenameFails
<1>5. ASSUME NEW i \in Updater, RestartService(i) PROVE WritesWatched'
  <2>1. \A j \in Updater \ {i} : pc[j] \in {"idle", "download"}
    BY <1>5, OthersAreQuiet DEF RestartService, Installing
  <2>2. \A j \in Updater : pc'[j] \in {"idle", "download"}
    BY <1>5, <2>1 DEF RestartService
  <2>3. QED
    BY <2>2
<1>6. ASSUME NEW i \in Updater, WatchdogSatisfied(i) PROVE WritesWatched'
  <2>1. CASE i = "daemon" /\ pc[i] \in Writes
    <3>1. running # NoVersion /\ running < target[i] /\ running = healthy
      BY <2>1 DEF DaemonUpdates, HealthyRuns
    <3>2. watchdog[i] = target[i] /\ healthy = watchdog[i]
      BY <1>6, <2>1 DEF WatchdogSatisfied
    <3>3. target[i] \in Nat
      BY <2>1, VersionsAreNumbers DEF TargetsChosen
    <3>4. target[i] < target[i]
      BY <3>1, <3>2
    <3>5. QED
      BY <3>3, <3>4, NoneBelowItself
  <2>2. CASE ~(i = "daemon" /\ pc[i] \in Writes)
    BY <1>6, <2>2 DEF WatchdogSatisfied
  <2>3. QED
    BY <2>1, <2>2
<1>7. ASSUME NEW i \in Updater, WatchdogRestores(i) PROVE WritesWatched'
  <2>1. \A j \in Updater : pc[j] \in {"idle", "download"}
    BY <1>7, OthersAreQuiet DEF WatchdogRestores, TimesOut, Installing
  <2>2. \A j \in Updater : pc'[j] \in {"idle", "download"}
    BY <1>7, <2>1 DEF WatchdogRestores
  <2>3. QED
    BY <2>2
<1>8. QED
  BY <1>1, <1>2, <1>3, <1>4, <1>5, <1>6, <1>7 DEF Next, Install, Watch

LEMMA BackupIsLiveStep ==
    ASSUME TypeOK, OneAtATime, FilesInOrder, BackupIsLive, [Next]_vars
    PROVE  BackupIsLive'
<1> USE DEF TypeOK, BackupIsLive, files, updaters, At
<1>1. ASSUME NEW i \in Updater, pc[i] \in Writes, ~Rename(i) PROVE live' = live
  BY <1>1, LiveStays
<1>2. CASE Release \/ DaemonStarts \/ PowerFails \/ UNCHANGED vars
  BY <1>2 DEF Release, DaemonStarts, PowerFails, vars
<1>3. ASSUME NEW i \in Updater,
             Check(i) \/ NothingNewer(i) \/ LeaveService(i) \/ DownloadFails(i) \/ SpawnWatchdog(i)
      PROVE  BackupIsLive'
  BY <1>3 DEF Check, NothingNewer, LeaveService, DownloadFails, SpawnWatchdog
<1>4. ASSUME NEW i \in Updater, CopyStarts(i) \/ CopyEnds(i) PROVE BackupIsLive'
  BY <1>4 DEF CopyStarts, CopyEnds, FilesInOrder
<1>5. ASSUME NEW i \in Updater, BackupStarts(i) \/ BackupEnds(i) PROVE BackupIsLive'
  <2>1. \A j \in Updater \ {i} : pc[j] \in {"idle", "download"}
    BY <1>5, OthersAreQuiet DEF BackupStarts, BackupEnds, Installing
  <2>2. QED
    BY <1>5, <2>1 DEF BackupStarts, BackupEnds
<1>6. ASSUME NEW i \in Updater, Rename(i) PROVE BackupIsLive'
  <2>1. \A j \in Updater \ {i} : pc[j] \in {"idle", "download"}
    BY <1>6, OthersAreQuiet DEF Rename, Installing
  <2>2. QED
    BY <1>6, <2>1 DEF Rename
<1>7. ASSUME NEW i \in Updater, RenameFails(i) \/ RestartService(i) \/ WatchdogSatisfied(i)
      PROVE  BackupIsLive'
  BY <1>7 DEF RenameFails, RestartService, WatchdogSatisfied
<1>8. ASSUME NEW i \in Updater, WatchdogRestores(i) PROVE BackupIsLive'
  <2>1. \A j \in Updater : pc[j] \in {"idle", "download"}
    BY <1>8, OthersAreQuiet DEF WatchdogRestores, TimesOut, Installing
  <2>2. \A j \in Updater : pc'[j] \in {"idle", "download"}
    BY <1>8, <2>1 DEF WatchdogRestores
  <2>3. QED
    BY <2>2
<1>9. QED
  BY <1>2, <1>3, <1>4, <1>5, <1>6, <1>7, <1>8 DEF Next, Install, Watch

LEMMA NoSecondTrialStep ==
    ASSUME Calm, [Next]_vars, raced' # "yes"
    PROVE  NoSecondTrial'
<1> USE DEF Calm, InTurn, TypeOK, NoSecondTrial, NoVersion, files, updaters, At
<1>1. ASSUME NEW i \in Updater, pc[i] \in Writes, pc'[i] \in Writes, live' = target'[i]
      PROVE  healthy' = live'
  <2>1. ~Rename(i)
    BY <1>1 DEF Rename, Writes
  <2>2. live' = live
    BY <1>1, <2>1, LiveStays
  <2>3. target'[i] = target[i]
    <3>1. ASSUME NEW j \in Updater, Check(j) PROVE target'[i] = target[i]
      BY <1>1, <3>1 DEF Check, Writes
    <3>2. CASE UNCHANGED target
      BY <3>2
    <3>3. QED
      BY <3>1, <3>2 DEF Next, Install, Watch, Release, DaemonStarts, PowerFails, NothingNewer,
         LeaveService, DownloadFails, SpawnWatchdog, CopyStarts, CopyEnds, BackupStarts,
         BackupEnds, Rename, RenameFails, RestartService, WatchdogSatisfied, WatchdogRestores,
         vars
  <2>4. healthy' \in {healthy, live}
    BY DEF Next, Install, Watch, Release, DaemonStarts, PowerFails, Check, NothingNewer,
       LeaveService, DownloadFails, SpawnWatchdog, CopyStarts, CopyEnds, BackupStarts,
       BackupEnds, Rename, RenameFails, RestartService, WatchdogSatisfied, WatchdogRestores, vars
  <2>5. QED
    BY <1>1, <2>2, <2>3, <2>4
<1>2. ASSUME NEW i \in Updater, SpawnWatchdog(i), live' = target'[i] PROVE healthy' = live'
  <2>1. \A j \in Updater : pc[j] \in {"idle", "download"} /\ (j # i => watchdog[j] = NoVersion)
    BY <1>2, BeginsAlone
  <2>2. pc[i] = "download" /\ watchdog[i] = NoVersion
    BY <1>2 DEF SpawnWatchdog, TargetsChosen
  <2>3. live = target[i] /\ UNCHANGED <<healthy, live>>
    BY <1>2 DEF SpawnWatchdog
  <2>4. i # "daemon"
    BY <2>1, <2>2, <2>3 DEF DaemonUpdates
  <2>5. ~ \E j \in Updater : Tried(j)
    BY <2>1, <2>2 DEF Tried
  <2>6. QED
    BY <2>2, <2>3, <2>4, <2>5 DEF CommandUpdates
<1>3. ASSUME NEW i \in Updater, pc'[i] \in Writes PROVE pc[i] \in Writes \/ SpawnWatchdog(i)
  <2>1. CASE UNCHANGED pc
    BY <1>3, <2>1
  <2>2. CASE PowerFails
    BY <1>3, <2>2 DEF PowerFails, Writes
  <2>3. ASSUME NEW j \in Updater, Check(j) \/ NothingNewer(j) \/ LeaveService(j) \/ DownloadFails(j)
        PROVE  pc[i] \in Writes
    BY <1>3, <2>3 DEF Check, NothingNewer, LeaveService, DownloadFails, Writes
  <2>4. ASSUME NEW j \in Updater, SpawnWatchdog(j) PROVE pc[i] \in Writes \/ SpawnWatchdog(i)
    BY <1>3, <2>4 DEF SpawnWatchdog, Writes
  <2>5. ASSUME NEW j \in Updater,
               CopyStarts(j) \/ CopyEnds(j) \/ BackupStarts(j) \/ BackupEnds(j)
        PROVE  pc[i] \in Writes
    BY <1>3, <2>5 DEF CopyStarts, CopyEnds, BackupStarts, BackupEnds, Writes
  <2>6. ASSUME NEW j \in Updater, Rename(j) \/ RenameFails(j) \/ RestartService(j)
        PROVE  pc[i] \in Writes
    BY <1>3, <2>6 DEF Rename, RenameFails, RestartService, Writes
  <2>7. ASSUME NEW j \in Updater, WatchdogRestores(j) PROVE pc[i] \in Writes
    BY <1>3, <2>7 DEF WatchdogRestores, Writes
  <2>8. QED
    BY <2>1, <2>2, <2>3, <2>4, <2>5, <2>6, <2>7 DEF Next, Install, Watch, Release, DaemonStarts,
       WatchdogSatisfied, vars
<1>4. QED
  BY <1>1, <1>2, <1>3

\* Nobody gives up the restart of the service but by doing it, or by seeing that
\* the live version runs.
LEMMA RestartStays ==
    ASSUME TypeOK, [Next]_vars, NEW j \in Updater, pc[j] = "restart"
    PROVE  \/ pc'[j] = "restart"
           \/ \A i \in Updater : i = "daemon" => pc'[i] = "idle"
           \/ LeaveService(j)
<1> USE DEF TypeOK, files, updaters, At
<1>1. ASSUME NEW i \in Updater, RestartService(i) PROVE \A k \in Updater : k = "daemon" => pc'[k] = "idle"
  BY <1>1 DEF RestartService
<1>2. ASSUME NEW i \in Updater, WatchdogRestores(i)
      PROVE  pc'[j] = "restart" \/ \A k \in Updater : k = "daemon" => pc'[k] = "idle"
  BY <1>2 DEF WatchdogRestores
<1>3. CASE PowerFails
  BY <1>3 DEF PowerFails
<1>4. ASSUME NEW i \in Updater, LeaveService(i) PROVE pc'[j] = "restart" \/ LeaveService(j)
  BY <1>4 DEF LeaveService
<1>5. ASSUME NEW i \in Updater,
             Check(i) \/ NothingNewer(i) \/ DownloadFails(i) \/ SpawnWatchdog(i) \/ CopyStarts(i)
             \/ CopyEnds(i) \/ BackupStarts(i) \/ BackupEnds(i) \/ Rename(i) \/ RenameFails(i)
      PROVE  pc'[j] = "restart"
  BY <1>5 DEF Check, NothingNewer, DownloadFails, SpawnWatchdog, CopyStarts, CopyEnds,
     BackupStarts, BackupEnds, Rename, RenameFails
<1>6. CASE UNCHANGED pc
  BY <1>6
<1>7. QED
  BY <1>1, <1>2, <1>3, <1>4, <1>5, <1>6 DEF Next, Install, Watch, Release, DaemonStarts,
     WatchdogSatisfied, vars

\* A daemon that updates goes on running.
LEMMA DaemonRuns ==
    ASSUME TypeOK, [Next]_vars, NEW i \in Updater, i = "daemon", pc'[i] # "idle",
           running # NoVersion
    PROVE  running' = running
<1> USE DEF TypeOK, files, updaters, At
<1>1. CASE PowerFails
  BY <1>1 DEF PowerFails
<1>2. ASSUME NEW j \in Updater, RestartService(j) PROVE FALSE
  BY <1>2 DEF RestartService
<1>3. ASSUME NEW j \in Updater, WatchdogRestores(j) PROVE running' = running
  BY <1>3 DEF WatchdogRestores
<1>4. CASE UNCHANGED running
  BY <1>4
<1>5. QED
  BY <1>1, <1>2, <1>3, <1>4 DEF Next, Install, Watch, Release, Check, NothingNewer, LeaveService,
     DownloadFails, SpawnWatchdog, CopyStarts, CopyEnds, BackupStarts, BackupEnds, Rename,
     RenameFails, DaemonStarts, WatchdogSatisfied, vars

\* Where the daemon's updater is downloading or writing next, it was so before,
\* unless it has just looked the release up.
LEMMA DaemonGoesOn ==
    ASSUME TypeOK, [Next]_vars, NEW i \in Updater, pc'[i] \in Writes \cup {"download"}
    PROVE  \/ Check(i)
           \/ pc[i] \in Writes \cup {"download"} /\ target'[i] = target[i] /\ ~Rename(i)
<1> USE DEF TypeOK, Writes, files, updaters, At
<1>1. CASE PowerFails
  BY <1>1 DEF PowerFails
<1>2. ASSUME NEW j \in Updater, Check(j) \/ NothingNewer(j) \/ LeaveService(j) \/ DownloadFails(j)
                                \/ SpawnWatchdog(j)
      PROVE  \/ Check(i)
             \/ pc[i] \in Writes \cup {"download"} /\ target'[i] = target[i]
  BY <1>2 DEF Check, NothingNewer, LeaveService, DownloadFails, SpawnWatchdog
<1>3. ASSUME NEW j \in Updater,
             CopyStarts(j) \/ CopyEnds(j) \/ BackupStarts(j) \/ BackupEnds(j)
      PROVE  pc[i] \in Writes \cup {"download"} /\ target'[i] = target[i]
  BY <1>3 DEF CopyStarts, CopyEnds, BackupStarts, BackupEnds
<1>4. ASSUME NEW j \in Updater, Rename(j) \/ RenameFails(j) \/ RestartService(j)
      PROVE  pc[i] \in Writes \cup {"download"} /\ target'[i] = target[i]
  BY <1>4 DEF Rename, RenameFails, RestartService
<1>5. ASSUME NEW j \in Updater, WatchdogRestores(j)
      PROVE  pc[i] \in Writes \cup {"download"} /\ target'[i] = target[i]
  BY <1>5 DEF WatchdogRestores
<1>6. ASSUME UNCHANGED <<pc, target>>
      PROVE  pc[i] \in Writes \cup {"download"} /\ target'[i] = target[i]
  BY <1>6
<1>7. ~Rename(i)
  BY DEF Rename
<1>8. QED
  BY <1>1, <1>2, <1>3, <1>4, <1>5, <1>6, <1>7 DEF Next, Install, Watch, Release, DaemonStarts,
     WatchdogSatisfied, vars

LEMMA DaemonUpdatesStep ==
    ASSUME Calm, [Next]_vars, raced' # "yes"
    PROVE  DaemonUpdates'
<1> SUFFICES ASSUME NEW i \in Updater, i = "daemon", pc'[i] \in Writes \cup {"download"}
             PROVE  /\ running' # NoVersion
                    /\ running' < target'[i]
                    /\ live' = target'[i] => \E j \in Updater : pc'[j] = "restart"
  BY DEF DaemonUpdates
<1> USE DEF Calm, InTurn, files, updaters
<1>1. pc'[i] # "idle"
  BY DEF Writes
<1>2. CASE Check(i)
  <2>1. running \in Version /\ target'[i] = latest /\ running < latest
    BY <1>2 DEF Check, VersionOf, TypeOK
  <2>2. UNCHANGED <<running, live>> /\ \A j \in Updater : pc[j] = "restart" => pc'[j] = "restart"
    BY <1>2 DEF Check, At, TypeOK
  <2>3. running # NoVersion
    BY <2>1, VersionIsWhole
  <2>4. live' = target'[i] => running # live
    BY <2>1, <2>2, VersionsAreNumbers, NoneBelowItself
  <2>5. QED
    BY <2>1, <2>2, <2>3, <2>4 DEF LiveRuns
<1>3. CASE pc[i] \in Writes \cup {"download"} /\ target'[i] = target[i] /\ ~Rename(i)
  <2>1. /\ running # NoVersion
        /\ running < target[i]
        /\ live = target[i] => \E j \in Updater : pc[j] = "restart"
    BY <1>3 DEF DaemonUpdates
  <2>2. running' = running
    BY <1>1, <2>1, DaemonRuns
  <2>3. ASSUME live' = target'[i] PROVE \E j \in Updater : pc'[j] = "restart"
    <3>1. CASE live' = live
      <4>1. PICK j \in Updater : pc[j] = "restart"
        BY <1>3, <2>1, <2>3, <3>1
      <4>2. ~LeaveService(j)
        <5>1. running # live
          BY <1>3, <2>1, <2>3, <3>1, VersionsAreNumbers, NoneBelowItself DEF FilesInOrder
        <5>2. QED
          BY <5>1 DEF LeaveService
      <4>3. QED
        BY <1>1, <4>1, <4>2, RestartStays
    <3>2. CASE live' # live
      <4>1. ASSUME NEW j \in Updater, Rename(j) PROVE pc'[j] = "restart"
        BY <4>1 DEF Rename, At, TypeOK
      <4>2. ASSUME NEW j \in Updater, WatchdogRestores(j) PROVE FALSE
        BY <1>1, <3>2, <4>2 DEF WatchdogRestores, TypeOK
      <4>3. ASSUME NEW j \in Updater, CopyEnds(j) PROVE FALSE
        BY <3>2, <4>3 DEF CopyEnds, FilesInOrder
      <4>4. QED
        BY <3>2, <4>1, <4>2, <4>3 DEF Next, Install, Watch, Release, DaemonStarts, PowerFails,
           Check, NothingNewer, LeaveService, DownloadFails, SpawnWatchdog, CopyStarts,
           BackupStarts, BackupEnds, RenameFails, RestartService, WatchdogSatisfied, vars
    <3>3. QED
      BY <3>1, <3>2
  <2>4. QED
    BY <1>3, <2>1, <2>2, <2>3
<1>4. QED
  BY <1>2, <1>3, DaemonGoesOn DEF Calm

\* What an updater tries, it was trying already, or it has just renamed it.
LEMMA TrialBegins ==
    ASSUME TypeOK, TargetsChosen, OneAtATime, [Next]_vars, NEW i \in Updater, Tried(i)', ~Tried(i)
    PROVE  Rename(i)
<1> USE DEF TypeOK, TargetsChosen, Tried, Writes, NoVersion, files, updaters, At
<1>1. CASE PowerFails
  BY <1>1 DEF PowerFails
<1>2. ASSUME NEW j \in Updater, Check(j) \/ NothingNewer(j) \/ LeaveService(j) \/ DownloadFails(j)
                                \/ SpawnWatchdog(j)
      PROVE  FALSE
  BY <1>2 DEF Check, NothingNewer, LeaveService, DownloadFails, SpawnWatchdog
<1>3. ASSUME NEW j \in Updater,
             CopyStarts(j) \/ CopyEnds(j) \/ BackupStarts(j) \/ BackupEnds(j)
      PROVE  FALSE
  BY <1>3 DEF CopyStarts, CopyEnds, BackupStarts, BackupEnds
<1>4. ASSUME NEW j \in Updater, Rename(j) PROVE Rename(i)
  BY <1>4 DEF Rename
<1>5. ASSUME NEW j \in Updater, RenameFails(j) PROVE FALSE
  BY <1>5 DEF RenameFails
<1>6. ASSUME NEW j \in Updater, RestartService(j) \/ WatchdogRestores(j) PROVE FALSE
  <2>1. watchdog'[i] \in {watchdog[i], NoVersion} /\ pc'[i] \in {pc[i], "idle"}
    <3>1. CASE RestartService(j)
      BY <3>1 DEF RestartService
    <3>2. CASE WatchdogRestores(j)
      <4>1. watchdog'[i] \in {watchdog[i], NoVersion}
        BY <3>2 DEF WatchdogRestores, TimesOut
      <4>2. pc'[i] \in {pc[i], "idle"}
        BY <3>2 DEF WatchdogRestores
      <4>3. QED
        BY <4>1, <4>2
    <3>3. QED
      BY <1>6, <3>1, <3>2
  <2>2. watchdog[i] # NoVersion /\ pc[i] \in Writes
    BY <2>1 DEF Place
  <2>3. j # i
    BY <1>6, <2>2 DEF RestartService, WatchdogRestores, TimesOut
  <2>4. pc[j] \in {"idle", "download"} /\ watchdog[j] = NoVersion
    BY <2>2, <2>3, OthersAreQuiet DEF Installing
  <2>5. QED
    BY <1>6, <2>4 DEF RestartService, WatchdogRestores, TimesOut
<1>7. ASSUME NEW j \in Updater, WatchdogSatisfied(j) PROVE FALSE
  BY <1>7 DEF WatchdogSatisfied
<1>8. ~UNCHANGED <<pc, watchdog>>
  OBVIOUS
<1>9. QED
  BY <1>1, <1>2, <1>3, <1>4, <1>5, <1>6, <1>7, <1>8 DEF Next, Install, Watch, Release,
     DaemonStarts, vars

\* While what updater i installed is tried, the files stay, and the daemon
\* reports no version but that one.
LEMMA TrialGoesOn ==
    ASSUME TypeOK, OneAtATime, FilesInOrder, [Next]_vars, NEW i \in Updater, Tried(i), Tried(i)'
    PROVE  /\ UNCHANGED <<live, previous, watchdog[i]>>
           /\ healthy' \in {healthy, live}
<1> USE DEF TypeOK, Tried, NoVersion, files, updaters, At
<1>1. \A j \in Updater \ {i} :
        pc[j] \in {"idle", "download"} /\ watchdog[j] = NoVersion /\ writing[j] = "none"
  BY OthersAreQuiet DEF Installing
<1>2. CASE Release \/ DaemonStarts \/ PowerFails \/ UNCHANGED vars
  BY <1>2 DEF Release, DaemonStarts, PowerFails, vars
<1>3. ASSUME NEW j \in Updater, Check(j) \/ NothingNewer(j) \/ LeaveService(j) \/ DownloadFails(j)
      PROVE  UNCHANGED <<live, previous, healthy, watchdog>>
  BY <1>3 DEF Check, NothingNewer, LeaveService, DownloadFails
<1>4. ASSUME NEW j \in Updater, SpawnWatchdog(j)
      PROVE  UNCHANGED <<live, previous, healthy, watchdog[i]>>
  BY <1>4 DEF SpawnWatchdog
<1>5. ASSUME NEW j \in Updater,
             CopyStarts(j) \/ CopyEnds(j) \/ BackupStarts(j) \/ BackupEnds(j) \/ Rename(j)
             \/ RenameFails(j)
      PROVE  FALSE
  BY <1>1, <1>5 DEF CopyStarts, CopyEnds, BackupStarts, BackupEnds, Rename, RenameFails
<1>6. ASSUME NEW j \in Updater, RestartService(j)
      PROVE  UNCHANGED <<live, previous, healthy, watchdog[i]>>
  BY <1>6 DEF RestartService
<1>7. ASSUME NEW j \in Updater, WatchdogSatisfied(j)
      PROVE  UNCHANGED <<live, previous, healthy, watchdog[i]>>
  BY <1>7 DEF WatchdogSatisfied
<1>8. ASSUME NEW j \in Updater, WatchdogRestores(j) PROVE FALSE
  BY <1>1, <1>8 DEF WatchdogRestores, TimesOut
<1>9. QED
  BY <1>2, <1>3, <1>4, <1>5, <1>6, <1>7, <1>8 DEF Next, Install, Watch

LEMMA TrialsStep ==
    ASSUME Calm, [Next]_vars
    PROVE  Trials'
<1> SUFFICES ASSUME NEW i \in Updater, Tried(i)'
             PROVE  /\ live' = watchdog'[i]
                    /\ healthy' = live' \/ previous' \in Version \ {live'}
                    /\ i = "daemon" => healthy' \in {live', previous'}
  BY DEF Trials
<1> USE DEF Calm
<1>1. CASE Tried(i)
  BY <1>1, TrialGoesOn DEF InTurn, Trials
<1>2. CASE ~Tried(i)
  <2>1. Rename(i)
    BY <1>2, TrialBegins
  <2>2. live' = target[i] /\ previous' = live /\ previous' \in Version /\ healthy' = healthy
    BY <2>1 DEF Rename, At, FilesInOrder, BackupIsLive, InTurn, Writes
  <2>3. watchdog'[i] = target[i]
    BY <2>1 DEF Rename, At, InTurn, WritesWatched, Writes, Tried, updaters
  <2>4. live = target[i] => healthy = live
    BY <2>1 DEF Rename, At, InTurn, NoSecondTrial, Writes
  <2>5. ASSUME i = "daemon" PROVE healthy = live
    <3>1. running # NoVersion /\ running = healthy
      BY <2>1, <2>5 DEF Rename, At, InTurn, DaemonUpdates, HealthyRuns, Writes
    <3>2. \A j \in Updater : pc[j] # "restart"
      BY <2>1, OthersAreQuiet DEF Rename, At, Installing
    <3>3. QED
      BY <3>1, <3>2 DEF InTurn, LiveRuns
  <2>6. QED
    BY <2>2, <2>3, <2>4, <2>5
<1>3. QED
  BY <1>1, <1>2

\* A trial ends with its watchdog, unless the power fails.
LEMMA TrialEnds ==
    ASSUME Reaped = FALSE, TypeOK, OneAtATime, [Next]_vars, NEW i \in Updater, Tried(i), ~Tried(i)'
    PROVE  WatchdogSatisfied(i) \/ WatchdogRestores(i) \/ PowerFails
<1> USE DEF TypeOK, Tried, NoVersion, files, updaters, At
<1>1. \A j \in Updater \ {i} : pc[j] \in {"idle", "download"} /\ watchdog[j] = NoVersion
  BY OthersAreQuiet DEF Installing
<1>2. ASSUME NEW j \in Updater, Check(j) \/ NothingNewer(j) \/ LeaveService(j) \/ DownloadFails(j)
                                \/ SpawnWatchdog(j)
      PROVE  FALSE
  BY <1>2 DEF Check, NothingNewer, LeaveService, DownloadFails, SpawnWatchdog
<1>3. ASSUME NEW j \in Updater,
             CopyStarts(j) \/ CopyEnds(j) \/ BackupStarts(j) \/ BackupEnds(j) \/ Rename(j)
             \/ RenameFails(j)
      PROVE  FALSE
  BY <1>1, <1>3 DEF CopyStarts, CopyEnds, BackupStarts, BackupEnds, Rename, RenameFails
<1>4. ASSUME NEW j \in Updater, RestartService(j) PROVE FALSE
  BY <1>4 DEF RestartService
<1>5. ASSUME NEW j \in Updater, WatchdogSatisfied(j) PROVE j = i
  BY <1>5 DEF WatchdogSatisfied
<1>6. ASSUME NEW j \in Updater, WatchdogRestores(j) PROVE j = i
  BY <1>1, <1>6 DEF WatchdogRestores, TimesOut
<1>7. ~UNCHANGED <<pc, watchdog>>
  OBVIOUS
<1>8. QED
  BY <1>2, <1>3, <1>4, <1>5, <1>6, <1>7 DEF Next, Install, Watch, Release, DaemonStarts, vars

\* Only a daemon that starts writes the state file.
LEMMA HealthyNext ==
    ASSUME [Next]_vars
    PROVE  healthy' \in {healthy, live}
BY DEF Next, Install, Watch, Release, DaemonStarts, PowerFails, Check, NothingNewer,
   LeaveService, DownloadFails, SpawnWatchdog, CopyStarts, CopyEnds, BackupStarts,
   BackupEnds, Rename, RenameFails, RestartService, WatchdogSatisfied, WatchdogRestores, vars

\* The live file changes with a rename, the updater's or the watchdog's.
LEMMA LiveNext ==
    ASSUME FilesInOrder, [Next]_vars, live' # live
    PROVE  \E i \in Updater : Rename(i) \/ WatchdogRestores(i)
<1>1. ASSUME NEW i \in Updater, CopyEnds(i) PROVE FALSE
  BY <1>1 DEF CopyEnds, FilesInOrder
<1>2. QED
  BY <1>1 DEF Next, Install, Watch, Release, DaemonStarts, PowerFails, Check, NothingNewer,
     LeaveService, DownloadFails, SpawnWatchdog, CopyStarts, BackupStarts, BackupEnds,
     RenameFails, RestartService, WatchdogSatisfied, files, vars

\* An updater gets to the download by looking up a release.
LEMMA DownloadBegins ==
    ASSUME TypeOK, [Next]_vars, NEW i \in Updater, pc'[i] = "download", ~Check(i)
    PROVE  pc[i] = "download" /\ target'[i] = target[i]
<1>1. pc[i] \in Writes \cup {"download"} /\ target'[i] = target[i]
  BY DaemonGoesOn
<1>2. pc[i] \notin Writes
  BY DEF TypeOK, Writes, Next, Install, Watch, Release, DaemonStarts, PowerFails, Check,
     NothingNewer, LeaveService, DownloadFails, SpawnWatchdog, CopyStarts, CopyEnds, BackupStarts,
     BackupEnds, Rename, RenameFails, RestartService, WatchdogSatisfied, WatchdogRestores,
     updaters, vars, At
<1>3. QED
  BY <1>1, <1>2

LEMMA CommandUpdatesStep ==
    ASSUME Reaped = FALSE, Calm, [Next]_vars
    PROVE  CommandUpdates'
<1> SUFFICES ASSUME NEW i \in Updater, i # "daemon", pc'[i] = "download", live' = target'[i]
             PROVE  healthy' = live' \/ \E j \in Updater : Tried(j)'
  BY DEF CommandUpdates
<1> USE DEF Calm
<1>1. CASE Check(i)
  <2>1. live \in Version /\ target'[i] = latest /\ live < latest /\ live' = live
    BY <1>1 DEF Check, VersionOf, TypeOK, files
  <2>2. live < live
    BY <2>1
  <2>3. QED
    BY <2>1, <2>2, VersionsAreNumbers, NoneBelowItself
<1>2. CASE ~Check(i)
  <2>1. pc[i] = "download" /\ live' = target[i]
    BY <1>2, DownloadBegins
  <2>2. ~PowerFails
    BY DEF PowerFails, TypeOK
  <2>3. \A j \in Updater \ {i} : j = "daemon"
    BY InstallAssumption
  <2>4. ASSUME NEW j \in Updater, Rename(j) PROVE Tried(j)'
    <3>1. j = "daemon" /\ target[j] \in Version /\ target[j] # NoVersion
      BY <2>1, <2>3, <2>4, VersionIsWhole DEF Rename, At, TargetsChosen, Writes
    <3>2. watchdog[j] = target[j]
      BY <2>4, <3>1 DEF Rename, At, InTurn, WritesWatched, Writes
    <3>3. QED
      BY <2>4, <3>1, <3>2 DEF Rename, At, Tried, TypeOK
  <2>5. ASSUME NEW j \in Updater, WatchdogRestores(j) PROVE healthy' = live'
    <3>1. Tried(j) /\ healthy # watchdog[j] /\ j = "daemon"
      BY <2>1, <2>3, <2>5 DEF WatchdogRestores, TimesOut, Tried
    <3>2. live = watchdog[j] /\ healthy = previous
      BY <3>1 DEF InTurn, Trials
    <3>3. previous # Absent
      BY <3>2, VersionIsWhole DEF TypeOK, Absent, NoVersion
    <3>4. QED
      BY <2>5, <3>2, <3>3 DEF WatchdogRestores
  <2>6. ASSUME live' = live, healthy # live, NEW j \in Updater, Tried(j)
        PROVE  Tried(j)'
    <3>1. live = watchdog[j] /\ previous \in Version \ {live}
      BY <2>6 DEF InTurn, Trials
    <3>2. ~WatchdogSatisfied(j)
      BY <2>6, <3>1 DEF WatchdogSatisfied
    <3>3. ~WatchdogRestores(j)
      BY <2>6, <3>1, VersionIsWhole DEF WatchdogRestores, Absent, NoVersion
    <3>4. QED
      BY <2>2, <2>6, <3>2, <3>3, TrialEnds
  <2>7. CASE live' = live
    BY <2>1, <2>6, <2>7, HealthyNext DEF InTurn, CommandUpdates
  <2>8. CASE live' # live
    BY <2>4, <2>5, <2>8, LiveNext
  <2>9. QED
    BY <2>7, <2>8
<1>3. QED
  BY <1>1, <1>2

-----------------------------------------------------------------------------

RollbackInv == TypeOK /\ TargetsChosen /\ TurnsInOrder /\ (raced = "yes" \/ InTurn)

LEMMA RollbackInvStep ==
    ASSUME Reaped = FALSE, RollbackInv, [Next]_vars
    PROVE  RollbackInv'
<1>1. TypeOK' /\ TargetsChosen' /\ TurnsInOrder'
  BY TypeStep, TargetsStep, TurnsStep DEF RollbackInv
<1>2. CASE raced' = "yes"
  BY <1>1, <1>2 DEF RollbackInv
<1>3. CASE raced' # "yes"
  <2>1. Calm
    BY <1>3, RacedStays DEF RollbackInv, TurnsInOrder, Calm
  <2>2. HealthyRuns' /\ LiveRuns' /\ WritesWatched' /\ BackupIsLive'
    BY <2>1, HealthyRunsStep, LiveRunsStep, WritesWatchedStep, BackupIsLiveStep DEF Calm, InTurn
  <2>3. NoSecondTrial' /\ DaemonUpdates' /\ CommandUpdates' /\ Trials'
    BY <1>3, <2>1, NoSecondTrialStep, DaemonUpdatesStep, CommandUpdatesStep, TrialsStep
  <2>4. QED
    BY <1>1, <2>2, <2>3 DEF RollbackInv, InTurn
<1>4. QED
  BY <1>2, <1>3

LEMMA RollbackInvImplies == RollbackInv => RollbackReadyAlone
<1> SUFFICES ASSUME RollbackInv, raced # "yes", NEW i \in Updater, live = watchdog[i], healthy # live
             PROVE  previous \in Version \ {live}
  BY DEF RollbackReadyAlone, RollbackReady
<1>1. FilesInOrder /\ InTurn
  BY DEF RollbackInv, TurnsInOrder
<1>2. watchdog[i] # NoVersion
  BY <1>1, VersionIsWhole DEF FilesInOrder
<1>3. pc[i] # "download"
  BY <1>2 DEF RollbackInv, TargetsChosen
<1>4. pc[i] \notin Writes
  BY <1>1, <1>2 DEF InTurn, WritesWatched, NoSecondTrial
<1>5. Tried(i)
  BY <1>2, <1>3, <1>4 DEF RollbackInv, TypeOK, Place, Writes, Tried
<1>6. QED
  BY <1>1, <1>5 DEF InTurn, Trials

\* Where a restart of the service leaves the daemon's watchdog alive, and as long
\* as no two updaters install at once, the executable to go back to is complete
\* and another one whenever a release is live that has not proved itself:
\* whatever is released, breaks, is downloaded twice, restarted or loses power.
THEOREM RollbackKept ==
    ASSUME Reaped = FALSE
    PROVE  Spec => []RollbackReadyAlone
<1>1. Init => RollbackInv
  BY InvInit, InTurnInit DEF IInv, RollbackInv
<1>2. RollbackInv /\ [Next]_vars => RollbackInv'
  BY RollbackInvStep
<1>3. RollbackInv => RollbackReadyAlone
  BY RollbackInvImplies
<1>4. QED
  BY <1>1, <1>2, <1>3, PTL DEF Spec

=============================================================================
