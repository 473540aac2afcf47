------------------------------- MODULE Setup --------------------------------
(***************************************************************************)
(* Setting a mesh up from one machine: the stages of the setup screen      *)
(* (src/tui/setup.rs), the installation it runs in the background          *)
(* (src/tui/setup/installation.rs) and what that does to the other         *)
(* machines over SSH (src/deploy.rs, src/ssh.rs, the `service install` of  *)
(* src/main.rs and src/service.rs).  Meanwhile machines update themselves, *)
(* get Xvfb or an owner's configuration, links fail and the user quits.    *)
(*                                                                         *)
(* Machine names are unique and a command always reaches the same machine. *)
(* The order in which several machines are verified and installed is left  *)
(* open.  What the screen shows besides its stage, errors included, is     *)
(* left out.                                                               *)
(***************************************************************************)
EXTENDS SequencesExt

CONSTANTS
    Command,     \* SSH commands, as typed or offered by Tailscale
    Host,        \* the machines they reach
    Reaches,     \* which command reaches which
    Display,     \* machines with a graphical clipboard, Macs among them
    Session,     \* machines with a session: their service manager can be reached
    Here,        \* this machine, as a member of Session
    Starts,      \* how things may be at first: the machines, this machine's
                 \* configuration and whether its daemon runs
    Tailnet,     \* the commands that Tailscale's discovery offers
    MaxSessions, \* bound: how often setup is run
    MaxFaults,   \* bound: failures, tasks cut off by Ctrl-C, and restarts of this
                 \* machine's daemon that setup did not ask for
    MaxChanges,  \* bound: what others do to the machines
    None         \* no command, no peer

VARIABLES
    machine,   \* what is on each machine
    saved,     \* this machine's config.json: its peers
    daemon,    \* its daemon: "absent", "down" for a while, or "up", and the peers
               \* it has loaded
    stage,     \* SetupApp.stage; "Closed" when setup does not run
    config,    \* SetupApp.config: its peers
    input,     \* SetupApp.input: a command, or None
    offered,   \* SetupApp.tailscale_choices; none until they are discovered
    selected,  \* those ticked
    peers,     \* SetupApp.peers
    probing,   \* commands a verification has still to try
    found,     \* what it has found
    pc,        \* where the installation stands
    todo,      \* peers it has still to install
    at,        \* the peer it is installing, or None
    inspected, \* what it knows of that one
    had,       \* was_running
    stray,     \* on each machine, the shells of broken uploads of an executable that
               \* still wait for the end
    torn,      \* and those of a configuration, which had found none
    mangled,   \* machines where such a shell has moved what it had of an executable
               \* into place, and none was uploaded since (history)
    spoiled,   \* machines where one has replaced a configuration that loads, and the
               \* service was not installed since (history)
    overtaken, \* machines whose owner made a configuration while a shell that had
               \* found none was waiting (history)
    raced,     \* this machine's daemon answered no query and yet was there when the
               \* configuration was saved (history)
    sessions, faults, changes

shells == <<stray, torn>>
history == <<mangled, spoiled, overtaken>>
remote == <<machine, shells, history>>
local == <<saved, daemon, raced>>
screen == <<stage, config, input, offered, selected, peers>>
verification == <<probing, found>>
installation == <<pc, todo, at, inspected, had>>
bounds == <<sessions, faults, changes>>
vars == <<remote, local, screen, verification, installation, bounds>>

\* An executable that does not answer --version counts as none.
NoBinary == 0
Older == 1
Current == 2
Newer == 3

\* A machine: its executable; its config.json, which the owner or setup made or
\* which was cut short, and headless_x11 in it; whether the unit file exists; the
\* version of the daemon that runs; whether Xvfb is there.
Machine == [binary : NoBinary .. Newer, config : {"none", "cut", "given", "own"},
            headless : BOOLEAN, service : BOOLEAN, running : NoBinary .. Newer,
            xvfb : BOOLEAN]

\* VerifiedPeer: needs stands for headless_capability.
Peer == [command : Command, needs : BOOLEAN, xvfb : BOOLEAN, headless : BOOLEAN]

\* Entries of config.peers.
Entry == [name : Host, command : Command]

Stages == {"Welcome", "Entry", "Verifying", "Confirmed", "Installing", "Ready",
           "Failed", "Closed"}

\* What setup writes to a config.json: every entry names the machine it reaches.
Configuration == Seq({e \in Entry : e.name = Reaches[e.command]})

HostOf(p) == Reaches[p.command]

Commands(ps) == {p.command : p \in ps}

Names(entries) == {entries[i].name : i \in DOMAIN entries}

Nothing == [needs |-> FALSE, configured |-> FALSE]

Init ==
    /\ \E start \in Starts :
          /\ machine = start.machines
          /\ saved = start.peers
          /\ daemon = [state |-> IF start.running THEN "up" ELSE "absent",
                       peers |-> start.peers]
    /\ stage = "Welcome" /\ config = saved /\ input = None
    /\ offered = {} /\ selected = {} /\ peers = {}
    /\ probing = {} /\ found = {}
    /\ pc = "idle" /\ todo = {} /\ at = None
    /\ inspected = Nothing /\ had = FALSE
    /\ stray = [h \in Host |-> 0] /\ torn = stray
    /\ mangled = {} /\ spoiled = {} /\ overtaken = {} /\ raced = FALSE
    /\ sessions = 1 /\ faults = 0 /\ changes = 0

ASSUME SetupAssumption ==
    /\ Reaches \in [Command -> Host]
    /\ \A start \in Starts :
          start.machines \in [Host -> Machine] /\ start.peers \in Configuration
    /\ Tailnet \subseteq Command
    /\ None \notin Command /\ None \notin Peer

-----------------------------------------------------------------------------
(* The screen: keys.                                                       *)

Begin ==
    /\ stage = "Welcome"
    /\ stage' = "Entry"
    /\ UNCHANGED <<remote, local, config, input, offered, selected, peers,
                   verification, installation, bounds>>

\* Typing or pasting a command, or taking it away again.
Type(c) ==
    /\ stage = "Entry"
    /\ input' = c
    /\ UNCHANGED <<remote, local, stage, config, offered, selected, peers,
                   verification, installation, bounds>>

\* Space ticks a machine only while nothing is typed.
Tick(c) ==
    /\ stage = "Entry" /\ input = None
    /\ c \in offered
    /\ selected' = IF c \in selected THEN selected \ {c} ELSE selected \cup {c}
    /\ UNCHANGED <<remote, local, stage, config, input, offered, peers,
                   verification, installation, bounds>>

Verify(commands) ==
    /\ stage' = "Verifying"
    /\ probing' = commands
    /\ UNCHANGED <<remote, local, config, input, offered, selected, peers,
                   found, installation, bounds>>

\* Every machine without a clipboard gets the managed display it can have.
CanInstall == \A p \in peers : p.needs => p.xvfb /\ p.headless

BeginInstall ==
    /\ peers # {}
    /\ CanInstall
    /\ stage' = "Installing"
    /\ pc' = "query" /\ todo' = peers
    /\ UNCHANGED <<remote, local, config, input, offered, selected, peers,
                   verification, at, inspected, had, bounds>>

\* Enter: what is typed comes before what is ticked, and that before installing.
EntryEnter ==
    /\ stage = "Entry"
    /\ \/ input # None /\ Verify({input})
       \/ input = None /\ selected # {} /\ Verify(selected)
       \/ input = None /\ selected = {} /\ BeginInstall

\* x, on all machines that can have a managed display.
ToggleHeadless ==
    /\ stage = "Confirmed"
    /\ LET capable == {p \in peers : p.needs /\ p.xvfb}
           enable == \E p \in capable : ~p.headless
       IN  peers' = (peers \ capable) \cup {[p EXCEPT !.headless = enable] : p \in capable}
    /\ UNCHANGED <<remote, local, stage, config, input, offered, selected,
                   verification, installation, bounds>>

AddAnother ==
    /\ stage \in {"Confirmed", "Ready"}
    /\ stage' = "Entry"
    /\ UNCHANGED <<remote, local, config, input, offered, selected, peers,
                   verification, installation, bounds>>

Install == stage \in {"Confirmed", "Failed"} /\ BeginInstall

-----------------------------------------------------------------------------
(* The screen: messages of background tasks.                               *)

\* Once in a session, unless discovery fails.
TailscaleDiscovered ==
    /\ stage # "Closed" /\ offered = {} /\ Tailnet # {}
    /\ offered' = Tailnet
    /\ selected' = {}
    /\ UNCHANGED <<remote, local, stage, config, input, peers,
                   verification, installation, bounds>>

\* Probe, target and inspection of one machine.
Probe(c) ==
    /\ stage = "Verifying" /\ c \in probing
    /\ probing' = probing \ {c}
    /\ found' = found \cup
          {[command |-> c, xvfb |-> machine[Reaches[c]].xvfb, headless |-> FALSE,
            needs |-> Reaches[c] \notin Display /\ ~machine[Reaches[c]].headless]}
    /\ UNCHANGED <<remote, local, screen, installation, bounds>>

\* One machine that cannot be verified fails all.
ProbeFails ==
    /\ stage = "Verifying" /\ probing # {}
    /\ faults < MaxFaults /\ faults' = faults + 1
    /\ stage' = "Entry" /\ probing' = {} /\ found' = {}
    /\ UNCHANGED <<remote, local, config, input, offered, selected, peers,
                   installation, sessions, changes>>

\* A machine that is there already keeps its entry.
Merged(ps, fs) == ps \cup {f \in fs : f.command \notin Commands(ps)}

\* What was typed is cleared here already: no stage before the next entry looks at it.
Verified ==
    /\ stage = "Verifying" /\ probing = {}
    /\ stage' = "Confirmed"
    /\ peers' = Merged(peers, found)
    /\ found' = {}
    /\ selected' = IF input = None THEN {} ELSE selected
    /\ input' = None
    /\ UNCHANGED <<remote, local, config, offered, probing, installation, bounds>>

\* Mutant: a task that ends leaves its list behind.
DropsTodo == pc' = "idle" /\ at' = None /\ inspected' = Nothing /\ had' = FALSE /\ UNCHANGED todo

TaskEnds == pc' = "idle" /\ todo' = {} /\ at' = None /\ inspected' = Nothing /\ had' = FALSE

\* UiMessage::Installed with an error.
Fail ==
    /\ stage' = "Failed"
    /\ TaskEnds
    /\ UNCHANGED <<config, input, offered, selected, peers, verification>>

-----------------------------------------------------------------------------
(* install_all: this machine's configuration.                              *)

Goes(place) == pc' = place /\ UNCHANGED <<screen, verification, sessions, changes>>

\* A daemon that is up answers within two seconds.
QueryStatus ==
    /\ pc = "query"
    /\ had' = (daemon.state = "up")
    /\ Goes("save")
    /\ UNCHANGED <<remote, local, todo, at, inspected, faults>>

QueryTimesOut ==
    /\ pc = "query"
    /\ faults < MaxFaults /\ faults' = faults + 1
    /\ had' = FALSE
    /\ Goes("save")
    /\ UNCHANGED <<remote, local, todo, at, inspected>>

\* merge_peer: the first entry with the command or the name is replaced.
MergePeer(entries, p) ==
    LET entry == [name |-> HostOf(p), command |-> p.command]
        i == SelectInSeq(entries,
                LAMBDA e : e.command = entry.command \/ e.name = entry.name)
    IN  IF i = 0 THEN Append(entries, entry) ELSE [entries EXCEPT ![i] = entry]

\* One peer after the other.
MergePeers(entries, order) ==
    LET merged[i \in 0 .. Len(order)] ==
            IF i = 0 THEN entries ELSE MergePeer(merged[i - 1], order[i])
    IN  merged[Len(order)]

\* The configuration to start from is the one setup was opened with.
SaveConfig ==
    /\ pc = "save"
    /\ \E order \in SetToSeqs(todo) : saved' = MergePeers(config, order)
    /\ raced' = (daemon.state = "up" /\ ~had)
    /\ Goes("next")
    /\ UNCHANGED <<remote, daemon, todo, at, inspected, had, faults>>

-----------------------------------------------------------------------------
(* install_remote: one machine after the other.                            *)

\* Mutant: an older executable is taken for good enough.
NeedsIfMissing(version) == version = NoBinary

\* An equal or a newer executable is left alone.
NeedsBinary(version) == version < Current

\* inspect_remote; looking for the binary to upload may take its time after it.
Inspect(p) ==
    /\ pc = "next" /\ p \in todo
    /\ LET m == machine[HostOf(p)]
       IN  /\ inspected' = [needs |-> NeedsBinary(m.binary),
                            configured |-> m.config # "none"]
           /\ Goes(IF NeedsBinary(m.binary) THEN "upload" ELSE "configure")
    /\ at' = p
    /\ UNCHANGED <<remote, local, todo, had, faults>>

\* upload_binary: `cat` into a temporary file, then `mv`.
UploadBinary ==
    /\ pc = "upload"
    /\ machine' = [machine EXCEPT ![HostOf(at)].binary = Current]
    /\ mangled' = mangled \ {HostOf(at)}
    /\ Goes("configure")
    /\ UNCHANGED <<shells, spoiled, overtaken, local, todo, at, inspected, had, faults>>

\* Mutant: whatever is there, a configuration is uploaded.
AbsentAnyway(m) == TRUE

Absent(m) == m.config = "none"

\* upload_config_if_missing: the shell looks again before it waits for its input.
LookForConfig ==
    /\ pc = "configure"
    /\ Goes(IF ~inspected.configured /\ Absent(machine[HostOf(at)]) THEN "write"
            ELSE "service")
    /\ UNCHANGED <<remote, local, todo, at, inspected, had, faults>>

\* What `mv` leaves, whatever there was: Config::default has headless_x11 off.
Configured(m, text) == [m EXCEPT !.config = text, !.headless = FALSE]

WriteConfig ==
    /\ pc = "write"
    /\ machine' = [machine EXCEPT ![HostOf(at)] = Configured(@, "given")]
    /\ Goes("service")
    /\ UNCHANGED <<shells, history, local, todo, at, inspected, had, faults>>

\* `service install`: it needs an executable and a configuration that load,
\* Xvfb for a managed display, and a daemon that finds a display at all.
Loads(m) == m.binary # NoBinary /\ m.config # "cut"
Serves(h, m) == Loads(m) /\ IF m.headless THEN m.xvfb ELSE h \in Display

\* --headless-x11 is saved before anything else.
WithFlag(m, flag) == [m EXCEPT !.headless = @ \/ (flag /\ Loads(m))]

\* Without a session the service is recorded for the next login.
Served(h, m) ==
    [m EXCEPT !.service = TRUE, !.running = IF h \in Session THEN m.binary ELSE @]

InstallService ==
    /\ pc = "service"
    /\ LET h == HostOf(at)
           m == WithFlag(machine[h], at.headless)
       IN  /\ Serves(h, m)
           /\ machine' = [machine EXCEPT ![h] = Served(h, m)]
           /\ spoiled' = spoiled \ {h}
    /\ todo' = todo \ {at} /\ at' = None
    /\ Goes(IF todo = {at} THEN "local" ELSE "next")
    /\ UNCHANGED <<shells, mangled, overtaken, local, inspected, had, faults>>

ServiceRefused ==
    /\ pc = "service"
    /\ LET h == HostOf(at)
           m == WithFlag(machine[h], at.headless)
       IN  /\ ~Serves(h, m)
           /\ machine' = [machine EXCEPT ![h] = m]
    /\ Fail
    /\ UNCHANGED <<shells, history, local, bounds>>

\* What a step leaves behind whose SSH connection ends under it.  The shell on
\* the other side takes the end of its input for the end of the file, once it sees
\* it (StrayLands, TornLands).
Remains ==
    LET h == HostOf(at)
        m == WithFlag(machine[h], at.headless)
    IN  /\ UNCHANGED history
        /\ \/ UNCHANGED <<machine, shells>>
           \/ /\ pc = "upload"
              /\ stray' = [stray EXCEPT ![h] = @ + 1]
              /\ UNCHANGED <<machine, torn>>
           \/ /\ pc = "write"
              /\ torn' = [torn EXCEPT ![h] = @ + 1]
              /\ UNCHANGED <<machine, stray>>
           \/ /\ pc = "service"
              /\ machine' \in {[machine EXCEPT ![h] = m],
                               [machine EXCEPT ![h] = IF Serves(h, m) THEN Served(h, m) ELSE m]}
              /\ UNCHANGED shells

RemoteFails ==
    /\ pc \in {"next", "upload", "configure", "write", "service"}
    /\ faults < MaxFaults /\ faults' = faults + 1
    /\ IF at = None THEN UNCHANGED remote ELSE Remains
    /\ Fail
    /\ UNCHANGED <<local, sessions, changes>>

-----------------------------------------------------------------------------
(* install_all: this machine's service.                                    *)

Reloaded == [state |-> "up", peers |-> saved]

\* Mutant: a service that is healthy is not restarted.
LocalServiceLeft ==
    /\ pc = "local"
    /\ daemon' \in IF Here \notin Session THEN {daemon}
                   ELSE IF daemon.state = "up" THEN {daemon, Reloaded}
                   ELSE {Reloaded}
    /\ Goes("done")
    /\ UNCHANGED <<remote, saved, raced, todo, at, inspected, had, faults>>

\* A healthy service is left alone, one of another version is restarted.
LocalService ==
    /\ pc = "local"
    /\ daemon' \in IF Here \notin Session THEN {daemon}
                   ELSE IF daemon.state = "up" THEN {daemon, Reloaded}
                   ELSE {Reloaded}
    /\ Goes(IF had /\ Here \in Session THEN "restart" ELSE "done")
    /\ UNCHANGED <<remote, saved, raced, todo, at, inspected, had, faults>>

Restart ==
    /\ pc = "restart"
    /\ daemon' = Reloaded
    /\ Goes("wait")
    /\ UNCHANGED <<remote, saved, raced, todo, at, inspected, had, faults>>

\* Mutant: the daemon is expected to have only the peers of this installation.
LoadedTodays == daemon.state = "up" /\ Names(daemon.peers) = {HostOf(p) : p \in peers}

\* wait_for_configured_peers compares names, in no order.
LoadedPeers == daemon.state = "up" /\ Names(daemon.peers) = Names(saved)

WaitEnds ==
    /\ pc = "wait" /\ LoadedPeers
    /\ Goes("done")
    /\ UNCHANGED <<remote, local, todo, at, inspected, had, faults>>

WaitGivesUp ==
    /\ pc = "wait" /\ ~LoadedPeers
    /\ Fail
    /\ UNCHANGED <<remote, local, bounds>>

\* The service may have been started by the step that fails; a save is atomic.
LocalFails ==
    /\ pc \in {"save", "local", "restart"}
    /\ faults < MaxFaults /\ faults' = faults + 1
    /\ daemon' \in IF pc = "save" \/ Here \notin Session THEN {daemon} ELSE {daemon, Reloaded}
    /\ Fail
    /\ UNCHANGED <<remote, saved, raced, sessions, changes>>

Installed ==
    /\ pc = "done"
    /\ stage' = "Ready"
    /\ TaskEnds
    /\ UNCHANGED <<remote, local, config, input, offered, selected, peers,
                   verification, bounds>>

-----------------------------------------------------------------------------
(* The user, and everything else.                                          *)

\* Ctrl-C at any time, Enter when ready: the tasks end with the process.
Quit ==
    /\ stage # "Closed"
    /\ IF stage \in {"Verifying", "Installing"}
       THEN faults < MaxFaults /\ faults' = faults + 1
       ELSE UNCHANGED faults
    /\ stage' = "Closed"
    /\ IF at = None THEN UNCHANGED remote ELSE Remains
    /\ TaskEnds
    /\ config' = <<>> /\ input' = None /\ offered' = {}
    /\ selected' = {} /\ peers' = {} /\ probing' = {} /\ found' = {}
    /\ UNCHANGED <<local, sessions, changes>>

\* Mutant: setup starts from a default configuration.
ReopenAnew ==
    /\ stage = "Closed"
    /\ sessions < MaxSessions /\ sessions' = sessions + 1
    /\ stage' = "Welcome" /\ config' = <<>>
    /\ UNCHANGED <<remote, local, input, offered, selected, peers,
                   verification, installation, faults, changes>>

\* `ssh-clipboard setup` with the configuration that is there.
Reopen ==
    /\ stage = "Closed"
    /\ sessions < MaxSessions /\ sessions' = sessions + 1
    /\ stage' = "Welcome" /\ config' = saved
    /\ UNCHANGED <<remote, local, input, offered, selected, peers,
                   verification, installation, faults, changes>>

\* A shell left behind moves the bytes that reached it into place, few or all.
StrayLands(h) ==
    /\ stray[h] > 0
    /\ stray' = [stray EXCEPT ![h] = @ - 1]
    /\ \E b \in {NoBinary, Current} : machine' = [machine EXCEPT ![h].binary = b]
    /\ mangled' = mangled \cup {h}
    /\ UNCHANGED <<torn, spoiled, overtaken, local, screen, verification, installation, bounds>>

TornLands(h) ==
    /\ torn[h] > 0
    /\ torn' = [torn EXCEPT ![h] = @ - 1]
    /\ \E text \in {"cut", "given"} : machine' = [machine EXCEPT ![h] = Configured(@, text)]
    /\ spoiled' = IF machine[h].config \in {"given", "own"} THEN spoiled \cup {h} ELSE spoiled
    /\ UNCHANGED <<stray, mangled, overtaken, local, screen, verification, installation, bounds>>

\* A daemon installs a release and restarts into it (UpdateInstall).
SelfUpdate(h) ==
    /\ machine[h].running \in {Older, Current}
    /\ changes < MaxChanges /\ changes' = changes + 1
    /\ machine' = [machine EXCEPT ![h].binary = Newer, ![h].running = Newer]
    /\ mangled' = mangled \ {h}
    /\ UNCHANGED <<shells, spoiled, overtaken, local, screen, verification, installation,
                   sessions, faults>>

\* Somebody follows the hint to install Xvfb.
InstallXvfb(h) ==
    /\ h \notin Display /\ ~machine[h].xvfb
    /\ changes < MaxChanges /\ changes' = changes + 1
    /\ machine' = [machine EXCEPT ![h].xvfb = TRUE]
    /\ UNCHANGED <<shells, history, local, screen, verification, installation, sessions, faults>>

\* The owner of a machine runs setup there.
OwnerConfigures(h) ==
    /\ machine[h].config = "none"
    /\ changes < MaxChanges /\ changes' = changes + 1
    /\ machine' = [machine EXCEPT ![h].config = "own"]
    /\ overtaken' = IF torn[h] > 0 \/ (pc = "write" /\ HostOf(at) = h)
                    THEN overtaken \cup {h} ELSE overtaken
    /\ UNCHANGED <<shells, mangled, spoiled, local, screen, verification, installation,
                   sessions, faults>>

\* This machine's daemon restarts for a reason of its own, an update say.
DaemonGoes ==
    /\ daemon.state = "up"
    /\ faults < MaxFaults /\ faults' = faults + 1
    /\ daemon' = [daemon EXCEPT !.state = "down"]
    /\ UNCHANGED <<remote, saved, raced, screen, verification, installation, sessions, changes>>

DaemonReturns ==
    /\ daemon.state = "down"
    /\ daemon' = Reloaded
    /\ UNCHANGED <<remote, saved, raced, screen, verification, installation, bounds>>

-----------------------------------------------------------------------------

Keys ==
    \/ Begin
    \/ \E c \in Command : Type(c) \/ Tick(c)
    \/ Type(None)
    \/ EntryEnter
    \/ ToggleHeadless
    \/ AddAnother
    \/ Install
    \/ Quit
    \/ Reopen

Verifying == (\E c \in Command : Probe(c)) \/ Verified

InstallAll ==
    \/ QueryStatus
    \/ SaveConfig
    \/ \E p \in todo : Inspect(p)
    \/ UploadBinary
    \/ LookForConfig
    \/ WriteConfig
    \/ InstallService
    \/ ServiceRefused
    \/ LocalService
    \/ Restart
    \/ WaitEnds
    \/ WaitGivesUp
    \/ Installed

Failures == ProbeFails \/ QueryTimesOut \/ RemoteFails \/ LocalFails \/ DaemonGoes

Meanwhile ==
    \/ TailscaleDiscovered
    \/ DaemonReturns
    \/ \E h \in Host :
          StrayLands(h) \/ TornLands(h) \/ SelfUpdate(h) \/ InstallXvfb(h) \/ OwnerConfigures(h)

Next == Keys \/ Verifying \/ InstallAll \/ Failures \/ Meanwhile

Spec == Init /\ [][Next]_vars

\* Tasks run while the process does; nothing is owed by the user or by failures.
FairSpec == Spec /\ WF_vars(Verifying) /\ WF_vars(InstallAll)

-----------------------------------------------------------------------------

TypeOK ==
    /\ machine \in [Host -> Machine]
    /\ \A i \in DOMAIN saved : saved[i] \in Entry
    /\ daemon.state \in {"absent", "down", "up"}
    /\ stage \in Stages
    /\ input \in Command \cup {None}
    /\ offered \subseteq Command /\ selected \subseteq offered
    /\ peers \subseteq Peer /\ todo \subseteq peers /\ found \subseteq Peer
    /\ probing \subseteq Command
    /\ pc \in {"idle", "query", "save", "next", "upload", "configure", "write", "service",
               "local", "restart", "wait", "done"}
    /\ at \in todo \cup {None}
    /\ stray \in [Host -> Nat] /\ torn \in [Host -> Nat]
    /\ mangled \subseteq Host /\ spoiled \subseteq Host /\ overtaken \subseteq Host

\* What an installed machine keeps: a configuration that loads, with a managed
\* display unless it has one of its own.
Recorded(h) ==
    /\ machine[h].config \in {"given", "own"}
    /\ h \in Display \/ machine[h].headless

\* It runs this version or a newer one, unless it has to wait for a login.
Runs(h) ==
    /\ machine[h].binary \in {Current, Newer}
    /\ h \in Session => machine[h].running = machine[h].binary

Complete(h) ==
    /\ machine[h].service
    /\ h \in spoiled \/ Recorded(h)
    /\ h \in mangled \/ Runs(h)

\* When the screen says that the clipboards are connected, every machine on it is
\* completely installed, whatever failed, was repeated or changed on the way
\* (install_all); only the shell of a broken upload undoes it that lands late on a
\* configuration that loads, or on an executable.
ReadyMeansComplete == stage = "Ready" => \A p \in peers : Complete(HostOf(p))

\* The configuration an owner made on a machine is never replaced, also when it
\* appears after the inspection (install_remote, upload_config_if_missing), unless
\* it appears behind the second look, while the shell that has found none waits for
\* its input: of a connection that is up, or of one that is gone.
IdentityKept ==
    [][\A h \in Host : machine[h].config = "own" =>
          machine'[h].config = "own" \/ h \in overtaken]_vars

\* A machine that this one has been connected to stays in its configuration,
\* through retries, several installations and setup run again (merge_peer).
Connected(entries) == {Reaches[entries[i].command] : i \in DOMAIN entries}

ConnectionsKept == [][Connected(saved) \subseteq Connected(saved')]_vars

\* When setup is ready, all its machines are in the saved configuration and this
\* machine's daemon, if it runs, has loaded it (was_running, the restart and the
\* wait), unless the daemon came up behind the query.
ReadyMeansLoaded ==
    stage = "Ready" =>
        /\ \A p \in peers : HostOf(p) \in Connected(saved)
        /\ daemon.state = "up" /\ Here \in Session => daemon.peers = saved \/ raced

\* An installation begun with no failure to come ends ready, whatever earlier ones
\* left behind ("setup is idempotent"), but for a configuration cut short or replaced
\* by a late shell, and for shells that have still to land.
RetryCompletes ==
    (/\ pc = "query" /\ faults = MaxFaults
     /\ \A h \in Host : stray[h] = 0 /\ torn[h] = 0 /\ machine[h].config # "cut"
     /\ spoiled = {})
        ~> stage = "Ready"

=============================================================================
