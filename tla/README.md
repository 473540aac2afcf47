# ssh-clipboard, specified

TLA+ models of ssh-clipboard (paths below are relative to the repository root),
the TLC runs that check them and TLAPS proofs about them. `PROJECT.json` lists
the runs, the line of code behind every definition, the hazards and the findings.

    tlc -workers 2 -config MeshDouble.cfg MCClipMesh     # one run
    tlapm ClipMeshProofs.tla                             # one module's proofs

## The system

A daemon per machine watches the native clipboard and keeps an SSH connection to
each configured peer. Its parts, the state they keep and what makes them correct:

| part | state | operations | correct when | modelled in |
|---|---|---|---|---|
| clipboard core, `src/daemon.rs` | `peers`, `seen`, `suppressed`, `apply_lock`; the watcher's `previous`; one newest-value channel per connection | capture, mint, broadcast, receive, relay, apply, suppress | each copy reaches every machine, none is applied twice, nothing the daemon published is sent back, no user's copy is swallowed | ClipMesh, NewestClip |
| capture retry, `src/daemon/capture_retry.rs` | `failures`, `deadline`, the notification channel | next, failed, reset, fall back to polling | a copy is given up only after its budget of reads | CaptureRetry, FileClaim |
| update of a machine, `src/update.rs`, `src/deploy.rs` | the executable, `.new`, `.previous`, `healthy-version`, the watchdog process | check, download, install, restart, report health, roll back | the live file is complete, a release that does not start is taken back, the last one is reached | UpdateInstall |
| update gossip, `src/update.rs`, `src/daemon.rs` | `update.json`, the watch channel `desired`, `PeerLink.desired_version`, hints | persist, advance, greet, announce, hint | versions only advance, and what one daemon knows its peers learn | UpdateGossip |
| container supervisor, `src/service/container.rs` | settings file, lock, control socket, the daemon child | start, stop, restart, revive, supervise | one daemon at most, a stop holds, an enabled service comes back | Supervisor |
| native clipboard, `src/clipboard.rs`, `src/clipboard/*` | the platform's clipboard | capture, apply, notify | what is read back is what was published, or its rewriting | inside ClipMesh, CaptureRetry and FileClaim |
| X11 owner and reader, `src/clipboard/x11_*.rs` | the data offered, INCR transfers; a read's window, data and progress | publish, convert, continue, expire; ask, take a piece, time out | a reader gets one whole value, not older than its question, or is told that it gets none | Selection |
| file bundles, `src/filebundle.rs` | manifest and bodies; on the receiver a directory per clip | collect, encode, decode, materialize | what arrives is the selection, whole, whoever works on it meanwhile | FileBundle |
| wire protocol, `src/protocol.rs`, `serve_peer` | bytes in the pipes, the frame being written, the one being read | write and read a frame | messages arrive whole and in order, both ends keep moving, a connection that breaks is followed by one that stays | PeerStream, FrameQueue |
| macOS file claims, `src/daemon/file_conflict.rs` | the claim and its age | claim, match, ignore, restore, expire | an echo is never sent nor lasts over received files, a user's copy is not mistaken for one | FileClaim |
| setup, `src/tui/setup*`, `src/deploy.rs`, `src/ssh.rs` | stage, peers, results under way, the installation task; on each machine executable, config.json, unit file, daemon | verify, install, retry, run again | what it says is ready is complete and loaded, no owner's configuration or older connection is lost, a retry completes what a failure left | Setup |
| monitor, `src/tui/monitor*` | last status, a request under way | ask for a status, show each peer's update state, ask for an update | "outdated" is said of peers that need the key, and the key helps | Monitor |
| service definitions, SSH, Tailscale, config, CLI | files, child processes | install, probe, upload, discover | | as far as UpdateInstall and Setup use them |
| npm wrapper, scripts, site | | | | not modelled: packaging |

They interact by clips and announcements over connections (serve_peer on both
ends), by the `desired` channel and the hints between connections and updater, by
the executable and `healthy-version` between the updater, its watchdog and the next
daemon, by the control socket and settings file between service commands, bridges,
the updater's restart and the supervisor, and by SSH commands between setup and the
files and services of other machines.

Hard to test are the meetings: two connections and the watcher at `apply_lock`, a
user between publication and read-back, a task cancelled at an await whose blocking
part goes on, two updaters over the same files, a restart that kills more than the
daemon, commands and bridges that overlap. The list is in `PROJECT.json` under
"hazards", each with the properties that watch it or the reason there is none yet.

## Modules

### ClipMesh (runs through MCClipMesh), NewestClip

Nodes are machines, ports the ends of their connections. The variables are the
daemon's own: `previous` and `suppressed` of the watcher, `seen`, `lock`
(apply_lock), `slot` (a connection's watch channel), `wire`, `link`. A task, the
watcher or a read half, stands at a `pc`:

    watcher     idle -Wake-> capture -CaptureNew-> broadcast -Offer*-> offer -WatcherDone-> idle
    read half   idle -Receive-> broadcast -Offer*-> offer -AcquireLock-> publish
                -PublishClip-> readback -Readback-> idle

`Publish[n]` is what a desktop makes of a published value, so that an echo need not
equal the clip. Faults are a failed apply, a failed read-back and a broken link; a
link's two ends notice on their own (`ReadEnds`, `WriteFails`), and a read half
dropped at an await leaves the blocking publication behind (`orphan`).
`clips`, `author`, `applied` and `unguarded` are history for the properties.

Abstractions. A capture is one step: its turn at apply_lock is a wait, not an
operation. A clip's number stands for its UUID, its content for a fingerprint.
A frame is written and read whole; the pipes of a connection hold `WireCap` frames.
At most one orphan is kept per port. The first capture has happened (CaptureRetry
has it), `seen` is not pruned, daemons do not restart, macOS file claims are absent.

`NewestClip` is the promise of the newest-value channels to a machine that only
pastes: ever newer clips, some skipped, never left behind. `FollowsNewest` is
`Replica!Spec`: ClipMesh implements it under the mapping "last applied clip".

### PeerStream (runs through MCPeerStream), FrameQueue

One connection at the level of its frames, which ClipMesh takes to be written and read
whole. Everything between the two daemons (ssh, the bridge, the local socket) is one pipe
per direction that holds `PipeCap` pieces and then blocks its writer. A frame is its head
and one piece per representation; the head says how many follow.

    dialer     down -Connect-> hello -Meet-> up
    acceptor   down -Connect-> command -ReadCommand-> hello -Meet-> up
    write half SendClip | SendNews, then WritePiece*, or WriteFails
    read half  ReadPart*, then Meet | ReceiveClip (Handled) | ReceiveNews,
               or ReadFails | SeesEnd, which end the connection (Ends)

`ahead` is what the acceptor's command reader has in its buffer, `old` are the ends whose
program predates announcements, `Limit` their max_bytes in representations. An end reads
what the head announces and believes it: pieces of two frames would be read as one
message (`Mangled`), and what does not begin with a head is no message. A connection may
break at any piece, and whoever returns from serve_peer takes its own half along while
the other still gets some of what is under way.

`FrameQueue` is the contract: a queue of whole messages that loses a tail when the
connection ends. `FollowsQueue` is its specification, fairness included, for each
direction under a mapping that lists the heads still to be read.

Abstractions. Backoff times are left out, and headers that no peer of this program sends;
a capture is never larger than its own end's limit (clipboard.rs:161-195), nor is a clip
that was read and relayed.

### CaptureRetry

When the watcher reads at all. A copy may come before its data (`ready`), a read may
fail though the data is there; notifications may end, or never be there. `failures`
and `deadline` are those of `CaptureRetry`; `tries` and `arrived` are history.
Durations are left out: a deadline that is set may pass at any time.

### FileClaim

The daemon of a Mac whose desktop shares its clipboard: a bridge turns a selection of
files into the text of its name and puts that on the clipboard, here or at a peer. The
module extends CaptureRetry: each step of its watcher is one of CaptureRetry and says
besides what becomes of `previous`, `suppressed`, the `claim` and `apply_lock`; the read
half of a connection competes for the lock. What is on the clipboard is a selection, its
name, or another text.

    watcher    rest -TakesLock-> locked -CaptureFails | IgnoresEcho | KnownAlready | Sends-> rest
               locked -WillRestore-> restore -Restores-> restored -RestoreReadBack-> rest
    read half  idle -ClipComes-> waiting -ReaderTakesLock-> publish -Applies-> read back
               -ApplyReadBack-> idle

Between publication and read-back anyone may put something else there, which is then read
back in its place (`mistaken`). A claim may run out at any time; one that has put its
files back `MaxRounds` times has. `by`, `under`, `known` and `mistaken` are history.

What the model reaches and its properties therefore exempt: a lossy echo that arrives
while its files are being captured or applied, because the claim is looked at before
apply_lock and not again under it; an ignored echo that is still on the clipboard when the
claim ends, which a polling watcher then sends; a claim made from a read-back that
returned the bridge's text, which puts that text back again and again; a user's copy
that was read back in place of a published value and is never sent.

### UpdateInstall

One machine's files, each holding a version, nothing, or half of something, and two
updaters: the daemon and the `update` command. Every copy has a beginning and an end
so that power may fail, or another updater step, in between. A rename carries a copy
still being written along with the file. `Reaped` says whether a restart kills the
daemon's children. The watchdog's ninety seconds are taken to be longer than an
installation and the start of a daemon that can start. Bound: an updater checks again
only when its own last watchdog has ended.

### Supervisor

Service commands, the updater's restart and bridges are clients, supervisors occupy
slots. Requests are two steps, connection and answer; a supervisor answers only while it
waits for its daemon and then within the three seconds a request has. The fifty polls of
start and stop may be over at any time (`GiveUp`). SIGKILL frees the lock at once and
leaves the daemon to its parent-death signal (`OrphanEnds`). Settings are reduced to
`enabled`, Xvfb is part of starting, and control's read and save of the settings are one
step. "restart" takes the same path as "update" and is left out of the run's `Kind`.

### UpdateGossip, Monitor (runs through MCMonitor)

Each daemon's version, `update.json` and `desired`, and both ends of each connection:
greeting, then up, with the versions under way in `inbox`. Reconnection is `Greet`
after the ends are down. The files of an installation are UpdateInstall's business:
here it succeeds and the daemon starts anew, or fails. Not modelled: peers that
predate versions, an `update` command that rewrites update.json beside the daemon,
a registry that serves an older release than before.

`Monitor` adds the terminal monitor of one of the machines. `Status` is what its daemon
answers, `RowState` the last column of a peer's row, `PressU` the key and `Asks` the
worker that has the daemon check and announce; a request that meets a restart of the
daemon fails. The key may be pressed at any time, so that nothing depends on the age of
the status on the screen. Not modelled: the activity feed with its pause and totals, rows
kept for peers that have gone, peers without a version, drawing.

### Setup (runs through MCSetup)

The screen of one machine, the two background tasks it starts, and the machines that
they work on. `stage`, `config`, `input`, `peers`, `offered` and `selected` are fields
of SetupApp; `probing` and `found` belong to a verification; `pc`, `todo`, `at`,
`inspected` and `had` are where `install_all` stands:

    idle -BeginInstall-> query -QueryStatus-> save -SaveConfig-> next
    next -Inspect-> upload -UploadBinary-> configure -LookForConfig-> write | service
    write -WriteConfig-> service -InstallService-> next ... local -LocalService-> restart -Restart-> wait
         -WaitEnds-> done -Installed-> idle

A `machine` has an executable (none, older, this version, newer), a configuration
(none, its owner's, setup's, or one cut short), the flag for a managed display, a unit
file, the version of its daemon and perhaps Xvfb. What is on it is read when
the task inspects it and may be something else when the task writes: meanwhile the
owner may run setup there, a daemon may update itself, Xvfb may be installed, and an
upload that an earlier failure cut off may still be moved into place. Each remote
command is a step; one that is cut off leaves what `Remains` lists. The upload of a
configuration is two: the shell looks for one (`LookForConfig`, ssh.rs:118), waits in
`cat`, and moves what it has read over whatever is there by then (`WriteConfig`).

A connection that is lost gives its shell the end of its input, at any later time, which
`cat` takes for the end of the file. `stray` counts such shells with an executable,
`torn` those with a configuration that have looked and found none. When one lands
(`StrayLands`, `TornLands`) a piece, or the whole default, replaces what is there: what
setup has installed since, or what the owner has made since. Nothing in the code
prevents that, so what it has done is remembered, until setup installs the machine anew:
`mangled` for executables, `spoiled` for configurations that loaded. `overtaken` are the
machines whose owner made a configuration while such a shell was waiting. A default that
lands late on a configuration with a managed display switches the display off: a retry
from a screen that has verified that machine as managed is then refused, also if nothing
was cut short.

Abstractions. Machine names are unique and a command always reaches the same machine;
the order of several peers is left open; a failed discovery is one that offers nothing;
`input` is cleared when a verification ends, as no stage before the next entry looks at
it; error texts are left out. Which machines have a display or a session does not
change. This machine without a session (`Here \notin Session`) is the outcome
PendingLogin. The container path of `service install` is Supervisor's.

### FileBundle (runs through MCFileBundle)

A selection read on one machine and laid out on another. `roots`, `stack`, `looked`,
`entries` and `total` are the locals of encode and collect_accessible_entries; each
system call that can see a change is a step (`Inspect` is symlink_metadata, `Collect`
read_link, read_dir or read), and between any two of them the user may write, remove or
create a file. `made` and `disk` are the clip's directory on the receiver, `pc` and
`next` where decode stands:

    idle -Receive-> write -WriteEntry*-> -AllWritten-> finish -FinishEntry*-> -Materialized-> idle

`Receive` has the checks of decode (`Valid`) and its shortcut for a directory that
exists. The file system refuses what `CanCreate` does not allow. A failure or a restart
of the daemon may come in any step and leave a piece of a file; after a restart the clip
may arrive again, by another connection.

Abstractions. A path is a sequence of names; an entry carries its body, because bodies
that follow one another are split rightly where sizes agree; a file is read in one step;
magic and length take `Overhead` bytes, the manifest `EntryBytes` for each entry whatever it
says (`ManifestSize`); the permissions of a link, which the code neither reads nor sets,
are `Fresh` ones. Left out are the URIs, modes of zero, the u32 limit of encode on the
manifest, targets of links that are not UTF-8 and sockets (the capture fails), a selected
path without a name, receivers' disks that do not tell "a" from "A" or normalise names,
and the exception that sends a rendered image without the files it could not read.

Names are converted on the way: the paths of a manifest are text, and `Lossy` is what
to_string_lossy makes of a name (`Text`). The selected paths are text already, what lies
below them need not be. A name that is not UTF-8 arrives as another, and two of them may
become the same (`NamesMerge`), which decode refuses as a duplicate path. It refuses as
well a manifest longer than sixteen MiB (`TooLong`). encode looks at neither, so both
are sent, and refused by every receiver without a word to the sender. The properties say
that these are the only bundles to which it happens.

### Selection (runs through MCSelection)

The daemon as owner of the X11 selection, and what reads it. `data` is what is offered,
`transfers` the owner's incremental transfers, by the reader's window; `reading` is where a
reader stands. Between them are the server's `property` of a window, its `watched` event
masks, and two streams of events in order: `queue` to the owner, `events` to a reader.

    owner    Publish;  Answer = ConvertSmall | ConvertIncremental | Refuse;  Continue*;  Expire
    reader   Ask -(Overlook)*-> BeginIncremental -TakePiece*-> ok or failed
             Ask -(Overlook)*-> TakePiece -> ok,   TargetUnavailable -> failed

A publication may come between any two of these steps. `Own` are the windows of the
daemon's reads: they are new for each read and are gone when it ends, and such a read
gives up after five seconds without progress, which is before the owner's thirty.
`Paste` are those of other applications, which may be slow, end in the middle, or ask
again with the window that they had.

Abstractions. A value is a sequence of pieces, each as large as chunk_size allows; TARGETS
is a format of one piece. Nobody else takes the selection, the connection to the server
lasts, and a publication its caller gave up after five seconds is left to ClipMesh's
`orphan`.

## Runs

| run | shows |
|---|---|
| MeshDouble | two machines, two connections, a rewriting desktop, two copies, one fault: AppliedOnce, EchoOnlyUnguarded, QuietWatcherIsCurrent |
| MeshChain | three machines in a chain, no fault: FollowsNewest (refinement), LastCopyEverywhere |
| MeshOvertaken (finding) | without any fault an older clip replaces a newer one for good where two connections join the same machines |
| PeerStreamRun | clips of two and three pieces through pipes of two at the same time, one of them too large for the other end, an announcement, programs old or new, one break: FramesHold, FollowsQueue (refinement), WritesFinish, Settles |
| FileClaimRun | two copies by users and the bridge, one clip of a peer, one failed read, publication or read-back, a budget of one retry: EchoesStay, DismissedIsKnown, Mended, GivesUpAfterBudget, ReadOrGivenUp |
| InstallTurns | three releases with a broken one in the middle, two updaters, one fault |
| InstallReaped (finding) | the restart takes the watchdog along |
| SupervisorRun | two clients, two supervisors, one kill |
| MonitorRun | two peers, two releases, one fault, the monitor of one of them: LastWordIsDesired, DesiredOnlyAdvances, DesireSpreads, OutdatedExplained, PressingHelps |
| SetupRun | a bare headless machine and one with its owner's older installation, two sessions, one failure (its shell may land late), one change from outside; 514,334 states |
| FileBundleRun | two files and a link of one name; or a read-only folder with a link, a file and an empty folder; or a folder with a name that is not UTF-8; two edits, two failures or restarts, a second capture; 87,590 states |
| SelectionRun | a read of the daemon's and an application that asks again, three publications of which the last has no text and too large an image, two faults |

A finding's run states what the documentation says and ends in a counterexample of the
code; `PROJECT.json` quotes both. The passing runs hold the weaker statement that does
stand: the chain beside MeshOvertaken, RolledBackAlone beside InstallReaped. Some exempt what the model reaches and the code
does not prevent: updates that overlap (`raced` in UpdateInstall: the backup may then be
of the release on trial, or the live file torn), a machine verified a second time, of
which setup keeps the first result, a service that a restart for an update enables again
while a user stops it (StopHolds), a directory of copied files that an earlier attempt
left, of which decode looks at the roots only (`cut` in FileBundle), a change of the
desired version between hello and subscription (`missed` in UpdateGossip: not announced
on that connection), a value read back in place of the published one (`mistaken` in
FileClaim, against architecture.md:24, "The hash of the clipboard actually published by
the OS suppresses the watcher echo"), a broken upload that is moved into place late
(`mangled` and `spoiled` in Setup), a configuration that its owner made while a shell
that had found none was waiting for its input (`overtaken`), a configuration cut short,
which no retry replaces, a daemon that answered no query and was there all the same when
the configuration was saved (`raced` in Setup), and bundles with a manifest that is too
long or with names that conversion makes equal. Each exemption is needed: without it the
run fails.

One thing no property speaks of, though ClipMesh reaches it: a suppression count that is
left over. When the value that was published is the one the watcher knows already
(daemon.rs:177), or one capture meets two publications of it, the count stays, and the
next time a user copies that value after another it is taken for an echo and swallowed.

Bounds. Two copies are enough for a clip to overtake, replace or duplicate another; two
connections between two machines are the smallest cycle, a chain the smallest relay. One
fault meets every step of the exchange; more of them only repeat it. In FileClaimRun a budget of
one retry, one failed read and data that comes late spend it; CaptureRetry is proved for
every budget. In PeerStreamRun the clips are larger than the pipes, so that two writers
fill both, and one is a piece larger than its reader takes. Three releases give a broken one with a good one
on either side. Two clients and two supervisors give every pair of overlapping requests
and a race for the lock. In SetupRun a failure is any step's, Ctrl-C while a task runs,
or a restart of this machine's daemon; one of them and one change from outside meet at
every step, with a retry or a second session behind them, and the shell that the failure
left lands at any step of these; the starts have the daemon
absent with no peers, and up with an older peer. CHECK_DEADLOCK is off because every
model may come to rest: users, releases and faults are bounded and the system waits.

In FileBundleRun two trees are the smallest with a name that is taken by a number, a
folder that must be closed last, and an empty folder; in the third a folder is converted to
a name that an edit may create beside it, and edits make the manifest one entry too long
while its bytes are still within the limit. Two edits turn a file into another
of the same size or of another one, two failures give an attempt that is cut short, a
restart and a second attempt. In SelectionRun an image has two pieces, hence a first, a
last and an empty one; two windows and two places for transfers let an application
replace its own transfer and find every place taken; three asks are a question, another
with a publication between, and one more.

Fairness. Tasks and processes run (weak fairness), and tokio's mutex is granted in
order, hence strong fairness for a task that keeps finding apply_lock free. Nothing is
owed by users, releases, faults or ticks: MonitorRun shows that a release spreads
without the quarter-hour timer and that the key helps without it, and RetryCompletes owes setup only that its tasks run
(weak fairness of a verification and of an installation) once its user started them.
Materializes owes a capture and a materialization that they run once begun and that the
clip arrives (ClipMesh). Answered and RoomAgain owe the X11 selection that the owner's
thread and the readers run and that transfers nobody goes on with expire. PeerStream owes
each half of a connection its turn, dial_loop another connection and handle_local its
command. FileClaim owes the watcher and the read half their turns, the lock in order, and
that whoever took the clipboard publishes the data; neither expiry nor notifications. Supervisor
assumes that peers go on dialing, as dial_loop does for ever; UpdateInstall that the
daemon's ticks come and that the service manager restarts a daemon that is down
(`Restart=always`, `KeepAlive`).

## Proofs

| theorem | states | rests on |
|---|---|---|
| ClipMeshProofs!TypeCorrect | TypeOK | TypeOK, TasksInOrder, ClipboardFilled |
| ClipMeshProofs!NoEchoByInterleaving | EchoOnlyUnguarded | + DaemonValueGuarded |
| ClipMeshProofs!CirculationEnds | AppliedOnce | + ClaimsDistinct |
| ClipMeshProofs!WatcherMissesNothing | QuietWatcherIsCurrent | the first three |
| ClipMeshProofs!FollowersAdvance | the safety part of FollowsNewest, on any mesh without cycles | FlowInv: TasksAtHead, ShownInOrder, StreamsInOrder and others |
| ClipMeshProofs!NothingLeftBehind | the safety part of LastCopyEverywhere, on the same meshes: at rest, everybody has the last copy | RestInv: FlowInv, NothingLost, MinterCurrent, ClipboardShown, SeenIsShown |
| ClipboardProofs!RetryTypes, NoCopyDroppedEarly | TypeOK, GivesUpAfterBudget of CaptureRetry | RetryInOrder |
| ClipboardProofs!RetryImplemented, NoClaimedCopyDroppedEarly | ClaimSpec => Spec, hence GivesUpAfterBudget | nothing |
| ClipboardProofs!DismissedAreKnown | DismissedIsKnown | Ranges, ClaimTypes, HasWhatItPuts, AllAccounted |
| ClipboardProofs!EchoesAreKept | EchoesStay | the same and EchoIsKnown |
| UpdateInstallProofs!TypeCorrect | TypeOK | TargetsChosen |
| ClipboardProofs!SelectionTyped, ValuesWhole | SelectionTypes, WholeValue | SInv: Quiet, InOrder |
| UpdateInstallProofs!NeverHalfWritten | LiveComplete | TargetsChosen, TurnsInOrder |
| UpdateInstallProofs!RollbackKept | RollbackReadyAlone, where the watchdog outlives a restart | the same, InTurn |
| SupervisorProofs!OneOwner | OneDaemon | one holder of the lock |
| SupervisorProofs!StoppedStays | StopHolds | the same, SocketHeld, OneUser, OthersQuiet |
| SetupProofs!ReadyIsComplete | ReadyMeansComplete | TaskInOrder, StepsTaken, DoneStayComplete |
| SetupProofs!IdentityStays | IdentityKept | the same, SInv: ShellTypes, OwnUnderShell |
| SetupProofs!TypesHold, ConnectionsStay, ReadyIsLoaded | TypeOK, ConnectionsKept, ReadyMeansLoaded | KInv: ScreenTypes, SavedIsKnown, PeersAreSaved, StaleIsKnown |
| PeerStreamProofs!FramesAlwaysHold | FramesHold | TypeOK, Orderly |
| PeerStreamProofs!StreamIsQueue | the safety part of FollowsQueue | the same |
| FileBundleProofs!Typed | TypeOK | Sender, Receiver, Layout |
| FileBundleProofs!Decodes | BundlesDecode | Walk |
| FileBundleProofs!Whole | AcceptedIsWhole | the same |
| FileBundleProofs!Arrives | Preserved | Walk, Kept: Account, OnlyEntries |
| FileBundleProofs!NothingRefused | StopsForCause, the safety part of Materializes: only a failure stops decode in the middle, and it refuses only for one, for TooLong or for NamesMerge | Walk, Smooth: TopFirst, Unhindered |
| UpdateGossipProofs!VersionsAdvance | DesiredOnlyAdvances | VersionsInOrder |
| UpdateGossipProofs!LastWords | LastWordIsDesired | the same, ToldInOrder |
| UpdateGossipProofs!OutdatedIsExplained | OutdatedExplained | both, HintsInOrder, WordsReleased |

They hold for every value of the constants that meets the module's ASSUME: any mesh
whose ends pair up, any function `Publish`, any number of copies, faults, releases,
clients and supervisors. TypeOK alone is not inductive in ClipMesh: a suppression count
stays natural because it is only taken down when positive, but that a read-back value is
a content needs ClipboardFilled, and that a handler's clip exists needs TasksInOrder.
EchoOnlyUnguarded needs to know where the daemon's value on a clipboard is accounted
for: DaemonValueGuarded lists the four places, known to the watcher, suppressed, being
read back under apply_lock, or left unguarded. AppliedOnce needs that a clip some
handler or orphan still has to publish is claimed by nobody else (ClaimsDistinct).
DismissedIsKnown needs an account of every value the watcher may compare with, wherever it
lies: `previous`, what is suppressed, what a claim puts back and what the daemon last
published (AllAccounted). EchoesStay needs that an echo made under a claim is still claimed,
suppressed or the watcher's own last value (EchoIsKnown); the claim that a new copy ends is
the one whose echo that copy has replaced. RetryImplemented is a step simulation: FileClaim
keeps CaptureRetry's variables, and each of its steps is one of CaptureRetry's or leaves
them alone. LiveComplete is stated of updates that take turns; as long as they do, the installer's
place determines what each file holds (FilesInOrder). ReadyMeansComplete is about the
end of an installation; what it needs on the way is that the machines done stay complete
(DoneStayComplete), whatever happens to them, and that the steps behind the machine in
hand have left an executable and a configuration (StepsTaken). A machine that two
commands reach is installed twice: between an upload and its service it has one
executable and runs another, so the invariant exempts it while it is in hand.
IdentityKept needs to know of every shell that has looked for a configuration and found
none, whether its connection is up (pc "write") or gone (`torn`): where one waits, an
owner's configuration is overtaken (OwnUnderShell).
AcceptedIsWhole is about the end of a materialization: Layout says what each pass has done
for the entries behind it, and that neither undoes the other needs paths that are distinct
(a check of decode, kept in Receiver) and a file system that creates nothing over what is
there. It does not need BundlesDecode: a bundle that fails the checks is not laid out (in
Receiver, what has a directory is Valid).
StopHolds needs to know who a stop talks to: a supervisor that is about to start its daemon
still owns the socket (SocketHeld), so while the settings are off only the one a stop is
connected to may be launching (OthersQuiet), and that the stop is the only command under way
(OneUser) makes it the last to have written the settings. LastWordIsDesired needs the whole
life of a connection: nothing has been said at an end that is down, an end that is up has one
at the other side that is not down, and a word that is read passes from the inbox to what was
heard (ToldInOrder). OutdatedExplained is about both ends of it: what a peer has heard of and
does not install it either checks for or has itself announced (HintsInOrder), so that a row
does not say outdated; the monitor adds no step that the daemons do not have (MonitorSteps).

WholeValue is about a protocol of three queues. InOrder says for each window what is under
way: a reader that waits has one request in the queue, behind whatever it deleted before
it; or its answer and the notification behind all other events; or takes turns with the
owner, who has the transfer at exactly the piece behind those that were read, or has
dropped it. A reader that may ask again has no request and no notification left, and that
is what keeps an earlier answer from being taken for the next one. Windows that no longer
read are left out, as nothing they hold is read again. RollbackReadyAlone needs to follow
one release from its trial to the watchdog's verdict (InTurn): it says for
each updater's place what is live, what is backed up and which watchdog waits, and a
release that is live already is installed once more only when it is known to work
(NoSecondTrial), so the backup of a release on trial is never that release itself. It has the hypothesis Reaped = FALSE; where a restart kills the
watchdog the property fails, and that is the finding of InstallReaped. FramesHold needs
the whole line of a direction, from the frame being written through the pipe to the one
being read, as a chain of complete frames of which only the first may have lost its
beginning and only the last its end (Orderly). StreamIsQueue maps each step to one of
FrameQueue or to a stutter: the queue is the list of heads on that line, and a write half
that ends drops its tail. ReadyMeansLoaded and ConnectionsKept are about the configuration
that setup saves: what a merge keeps of any list of peers is proved by induction on it.
BundlesDecode follows the walk over the tree (Walk): what is on the stack lies under a root
or under a directory that was collected, no path is on the stack twice nor there and among
the entries, and roots get names no other root has. Walk speaks of the names as they are;
what becomes of them as text is a question for the end: a converted path has the
converted ones above it (TextAbove), so what lies above an entry is the text of a
directory's path, and only paths that were different and are converted to the same one
fail the checks (WalkIsValid).

Preserved needs to know what the walk has collected of each subtree. While nobody changes
the tree, every path of the selection has an entry at its place or lies below an item of
the stack, and every entry is of such a path (Account), both by the names as they are;
that no two places come together by conversion is taken from the check of decode. When
an item is replaced by its
children, a path below it goes to the one child it lies under, and this is where the
model's assumption that a tree is a file system (Connected: what a path has above it is
there, and a directory) is used; when the stack is empty, every path has its entry. At the
receiver, entries bring the directories above them along, so nothing else gets on the disk
(OnlyEntries). NothingRefused takes from the order of the bundle, a directory before what
is in it (TopFirst), that the second pass, which goes from the end, closes a directory only
when all in it is there, and that no entry finds its place taken (Unhindered).

FollowersAdvance says what the newest-value channels are for: where one machine copies, a
machine that follows never goes back to an older clip, however relays and slow handlers
interleave and whichever publications fail. It is about meshes without cycles, on which
`up` names for each follower the connection its clips come in on (Follows; in the chain of
MeshChain `up` is the end that is nearer to the copying machine), and about connections
that last. AppliedOnce and EchoOnlyUnguarded need neither; this does, and the two
connections between the same machines of MeshOvertaken show why. What makes it inductive
is that a clip on its way by a port, in the channel or on the wire, is newer than all that
the far machine has seen (StreamsInOrder), that a task at work has the newest clip its
machine has seen and is alone there (TasksAtHead), and that a machine that follows mints
nothing: what it finds on its clipboard is guarded (OnlyMinter, from DaemonValueGuarded).

NothingLeftBehind is the other half of that promise: channels and relays skip clips, but
never the last one. When no task is at work, no change is unread and nothing waits in a
channel or on a wire (AtRest), every machine has seen the last clip, and holds what its
clipboard makes of it, unless a publication failed. FlowInv keeps old clips from coming
late; here a clip must not get lost. For every port, what the near machine has seen the far
one has seen too, or it, or a newer clip, is on the wire, in the channel or in the hands of
a task whose broadcast has still to reach that port (NothingLost): an offer replaces a
channel's clip by a newer one (StreamsInOrder), and a clip that is received goes on by every
other port. A machine that has not seen the last clip, as near to the copying one as any,
contradicts this; hence the hypothesis that `up` leads to the copying machine (Reaches).
The copying machine's watcher knows its own last copy because nothing is suppressed there
(MinterCurrent). MeshChain adds that the mesh does come to rest; in
MeshOvertaken, with a second connection between the same machines, it rests on an old copy.

Data of any length is reasoned about through smallest counterexamples: the library's
induction theorems take an operator and cannot be instantiated, but that the natural
numbers are well-founded is a fact without one, and a recursive function unfolds by its
definition. MergePeers, Heads and Sorted are therefore functions. No module declares a
RECURSIVE operator.

Only model-checked: everything that is temporal (PTL of the prover does not reach
liveness under fairness or ENABLED), which takes in RolledBackAlone, Mended and the fair
halves of FollowsNewest, LastCopyEverywhere and FollowsQueue.

## Plan

1. done: ClipMesh and NewestClip, PeerStream and FrameQueue, CaptureRetry and FileClaim,
   UpdateInstall, Supervisor, UpdateGossip and Monitor, Setup, FileBundle and Selection,
   each with its run and theorems.
2. Another owner of the X11 selection, and captures that read one format after another
   while the owner changes; install in Supervisor; daemon restarts in ClipMesh.

Not modelled, and why: the cache of peer binaries and the download itself (pure I/O that
yields an executable or fails), parsing of command lines and of other programs' output,
the text of unit files, what the terminal draws, packaging and the web site.
