----------------------------- MODULE FileClaim ------------------------------
(***************************************************************************)
(* The daemon of a Mac that shares its screen (src/daemon/file_conflict.rs *)
(* and its uses in src/daemon.rs): the clipboard bridge of the desktop     *)
(* turns a selection of files into the text of its name and puts that on   *)
(* the other machine's clipboard.  A claim on the files lets the watcher   *)
(* and the read half of a connection tell such a lossy echo from a copy.   *)
(*                                                                         *)
(* The watcher of CaptureRetry is composed with the claim, with apply_lock *)
(* and with the handler of clips that come in: each of its steps is a step *)
(* of CaptureRetry and says besides what becomes of the claim.             *)
(***************************************************************************)
EXTENDS CaptureRetry

CONSTANTS
    MaxPuts,   \* bound: copies by users and bridges
    MaxClips,  \* bound: clips that come in
    MaxRounds, \* bound: times that a claim's files are put back before it expires
    MaxFaults  \* bound: failed publications and read-backs

ASSUME ClaimAssumption ==
    /\ MaxPuts \in Nat
    /\ MaxClips \in Nat
    /\ MaxRounds \in Nat \ {0}
    /\ MaxFaults \in Nat

\* A selection of files, the text of its name, another text.
Value == {"files", "name", "text"}
Nothing == "nothing"

VARIABLES
    value,       \* what the clipboard holds
    by,          \* who put it there: "user", "bridge" or "daemon"
    under,       \* the claim there was then, if it has not run out since (history)
    previous,    \* the watcher's last snapshot
    suppressed,  \* how often the watcher is to ignore a value
    claim,       \* file_claim: "none", "local" or "received"
    restore,     \* what a received claim puts back
    rounds,      \* how often it did
    lock,        \* apply_lock: "free", "watcher" or "reader"
    step,        \* where the watcher stands with what it read
    reader,      \* where the read half stands
    incoming,    \* the clip it handles
    known,       \* values this daemon sent, applied or started with (history)
    mistaken,    \* values another put was read back for (history)
    puts,        \* copies by users and bridges so far
    clips,       \* clips so far
    faults       \* faults so far

boardVars == <<value, by, under>>
watchVars == <<previous, known>>
claimVars == <<claim, restore, rounds>>
readerVars == <<reader, incoming>>
counts == <<puts, clips, faults>>
claimStateVars == <<boardVars, watchVars, suppressed, claimVars, lock, step, readerVars,
                    mistaken, counts>>
allVars == <<vars, claimStateVars>>

ClaimInit ==
    /\ Init
    /\ value = "text"
    /\ by = "user"
    /\ under = "none"
    /\ previous = Nothing
    /\ suppressed = [v \in Value |-> 0]
    /\ claim = "none"
    /\ restore = Nothing
    /\ rounds = 0
    /\ lock = "free"
    /\ step = "rest"
    /\ reader = "idle"
    /\ incoming = Nothing
    /\ known = {}
    /\ mistaken = {}
    /\ puts = 0
    /\ clips = 0
    /\ faults = 0

\* Bound: a read error is one of them.
Fault == faults + errors < MaxFaults /\ faults' = faults + 1

\* The clipboard takes value v.
Put(v, who) ==
    /\ Copy
    /\ value' = v
    /\ by' = who
    /\ under' = claim
    /\ who # "user" => ready'

-----------------------------------------------------------------------------
(* The desktop. *)

Others(v, who) ==
    /\ puts < MaxPuts
    /\ puts' = puts + 1
    /\ Put(v, who)
    /\ UNCHANGED <<watchVars, suppressed, claimVars, lock, step, readerVars, mistaken, clips,
                   faults>>

UserCopies(v) == Others(v, "user")

\* The bridge has files on the other machine's clipboard and passes their name.
BridgeEchoes == Others("name", "bridge")

Desktop == (ProvideData \/ EventsEnd) /\ UNCHANGED claimStateVars

\* Fifteen seconds have passed since the claim was made.
ClaimExpires ==
    /\ claim # "none"
    /\ claim' = "none"
    /\ under' = "none"
    /\ UNCHANGED <<vars, value, by, watchVars, suppressed, restore, rounds, lock, step,
                   readerVars, mistaken, counts>>

-----------------------------------------------------------------------------
(* The watcher. *)

\* The first capture is the baseline.
StartsWatching ==
    /\ InitialCapture
    /\ IF tries' = 0
       THEN previous' = value /\ known' = known \cup {value}
       ELSE UNCHANGED <<previous, known>>
    /\ UNCHANGED <<boardVars, suppressed, claimVars, lock, step, readerVars,
                   mistaken, counts>>

WatcherWaits ==
    /\ step = "rest"
    /\ Subscribe \/ Notified \/ FallBack \/ Tick \/ DeadlinePasses
    /\ UNCHANGED claimStateVars

TakesLock ==
    /\ pc = "reading"
    /\ step = "rest"
    /\ lock = "free"
    /\ lock' = "watcher"
    /\ step' = "locked"
    /\ UNCHANGED <<vars, boardVars, watchVars, suppressed, claimVars, readerVars, mistaken,
                   counts>>

\* The watcher has nothing more to do with what it read.
LetsGo == lock' = "free" /\ step' = "rest"

Reads == step = "locked" /\ Capture /\ UNCHANGED <<boardVars, readerVars, mistaken, counts>>

CaptureFails ==
    /\ Reads
    /\ tries' # 0
    /\ LetsGo
    /\ UNCHANGED <<watchVars, suppressed, claimVars>>

\* Mutant: only files copied here are claimed.
MatchesLocal(v) == claim = "local" /\ v = "name"

\* matching_file_claim: files are no echo, and a text is one if it is the name.
Matches(v) == claim # "none" /\ v = "name"

\* Mutant: the claim is gone with the first echo that it explains.
IgnoresOneEcho ==
    /\ Reads
    /\ tries' = 0
    /\ Matches(value)
    /\ claim = "local"
    /\ claim' = "none"
    /\ LetsGo
    /\ UNCHANGED <<watchVars, suppressed, restore, rounds>>

\* Mutant: the echo becomes the watcher's last snapshot.
RemembersEcho ==
    /\ Reads
    /\ tries' = 0
    /\ Matches(value)
    /\ claim = "local"
    /\ previous' = value
    /\ LetsGo
    /\ UNCHANGED <<known, suppressed, claimVars>>

\* The echo of files copied here is left on the clipboard and ignored.
IgnoresEcho ==
    /\ Reads
    /\ tries' = 0
    /\ Matches(value)
    /\ claim = "local"
    /\ LetsGo
    /\ UNCHANGED <<watchVars, suppressed, claimVars>>

\* Files that came from a peer are put back.
WillRestore ==
    /\ Reads
    /\ tries' = 0
    /\ Matches(value)
    /\ claim = "received"
    /\ step' = "restore"
    /\ UNCHANGED <<watchVars, suppressed, claimVars, lock>>

KnownAlready ==
    /\ Reads
    /\ tries' = 0
    /\ ~Matches(value)
    /\ \/ value = previous /\ UNCHANGED suppressed
       \/ /\ value # previous
          /\ suppressed[value] > 0
          /\ suppressed' = [suppressed EXCEPT ![value] = @ - 1]
    /\ previous' = value
    /\ LetsGo
    /\ UNCHANGED <<known, claimVars>>

\* A new copy is sent; files are claimed, and anything else ends the claim.
Sends ==
    /\ Reads
    /\ tries' = 0
    /\ ~Matches(value)
    /\ value # previous
    /\ suppressed[value] = 0
    /\ previous' = value
    /\ claim' = IF value = "files" THEN "local" ELSE "none"
    /\ known' = known \cup {value}
    /\ LetsGo
    /\ UNCHANGED <<suppressed, restore, rounds>>

RestoreFails ==
    /\ step = "restore"
    /\ Fault
    /\ LetsGo
    /\ UNCHANGED <<vars, boardVars, watchVars, suppressed, claimVars, readerVars, mistaken, puts,
                   clips>>

\* Bound: after MaxRounds of them the fifteen seconds are over.
Restores ==
    /\ step = "restore"
    /\ Put(restore, "daemon")
    /\ rounds' = rounds + 1
    /\ claim' = IF rounds' = MaxRounds THEN "none" ELSE claim
    /\ step' = "restored"
    /\ UNCHANGED <<watchVars, suppressed, restore, lock, readerVars, mistaken, counts>>

\* A put without its data is read back as nothing.
ReadBackFails == (~ready /\ UNCHANGED faults) \/ (ready /\ Fault)

\* What is read back may already be something else.
Mistakes == mistaken' = IF by = "daemon" THEN mistaken ELSE mistaken \cup {value}

RestoreReadBack ==
    /\ step = "restored"
    /\ ready
    /\ previous' = value
    /\ Mistakes
    /\ LetsGo
    /\ UNCHANGED <<vars, boardVars, known, suppressed, claimVars, readerVars,
                   counts>>

RestoreReadBackFails ==
    /\ step = "restored"
    /\ ReadBackFails
    /\ LetsGo
    /\ UNCHANGED <<vars, boardVars, watchVars, suppressed, claimVars, readerVars, mistaken, puts,
                   clips>>

-----------------------------------------------------------------------------
(* The read half of a connection. *)

\* A clip comes; the echo of claimed files is dropped, without apply_lock.
ClipComes(v) ==
    /\ reader = "idle"
    /\ clips < MaxClips
    /\ clips' = clips + 1
    /\ IF Matches(v)
       THEN UNCHANGED readerVars
       ELSE reader' = "waiting" /\ incoming' = v
    /\ UNCHANGED <<vars, boardVars, watchVars, suppressed, claimVars, lock, step, mistaken, puts,
                   faults>>

ReaderTakesLock ==
    /\ reader = "waiting"
    /\ lock = "free"
    /\ lock' = "reader"
    /\ reader' = "publish"
    /\ UNCHANGED <<vars, boardVars, watchVars, suppressed, claimVars, step, incoming, mistaken,
                   counts>>

ReaderDone == reader' = "idle" /\ lock' = "free" /\ UNCHANGED incoming

\* Files cannot be laid out, or the clipboard refuses them.
ApplyFails ==
    /\ reader = "publish"
    /\ Fault
    /\ ReaderDone
    /\ UNCHANGED <<vars, boardVars, watchVars, suppressed, claimVars, step, mistaken, puts, clips>>

Applies ==
    /\ reader = "publish"
    /\ Put(incoming, "daemon")
    /\ known' = known \cup {incoming}
    /\ reader' = "read back"
    /\ UNCHANGED <<previous, suppressed, claimVars, lock, step, incoming,
                   mistaken, counts>>

\* Files that came are claimed with what the clipboard made of them; anything
\* else ends the claim.
ApplyReadBack ==
    /\ reader = "read back"
    /\ ready
    /\ claim' = IF incoming = "files" THEN "received" ELSE "none"
    /\ restore' = IF incoming = "files" THEN value ELSE restore
    /\ rounds' = 0
    /\ suppressed' = [suppressed EXCEPT ![value] = @ + 1]
    /\ Mistakes
    /\ ReaderDone
    /\ UNCHANGED <<vars, boardVars, watchVars, step, counts>>

ApplyReadBackFails ==
    /\ reader = "read back"
    /\ ReadBackFails
    /\ ReaderDone
    /\ UNCHANGED <<vars, boardVars, watchVars, suppressed, claimVars, step, mistaken, puts, clips>>

-----------------------------------------------------------------------------

ClaimWatcher ==
    \/ StartsWatching \/ WatcherWaits \/ TakesLock \/ CaptureFails \/ IgnoresEcho
    \/ WillRestore \/ KnownAlready \/ Sends \/ RestoreFails \/ Restores \/ RestoreReadBack
    \/ RestoreReadBackFails

Reader ==
    \/ ReaderTakesLock \/ ApplyFails \/ Applies \/ ApplyReadBack \/ ApplyReadBackFails

ClaimNext ==
    \/ BridgeEchoes \/ Desktop \/ ClaimExpires \/ ClaimWatcher \/ Reader
    \/ \E v \in Value : UserCopies(v) \/ ClipComes(v)

ClaimSpec == ClaimInit /\ [][ClaimNext]_allVars

\* The watcher and the read half run, and apply_lock is fair between them.
FairClaimSpec ==
    /\ ClaimSpec
    /\ WF_allVars(ClaimWatcher) /\ SF_allVars(TakesLock)
    /\ WF_allVars(Reader) /\ SF_allVars(ReaderTakesLock)
    /\ WF_allVars(Desktop /\ ProvideData)

-----------------------------------------------------------------------------

Ranges ==
    /\ suppressed \in [Value -> Nat]
    /\ rounds \in 0 .. MaxRounds
    /\ puts \in 0 .. MaxPuts
    /\ clips \in 0 .. MaxClips
    /\ faults \in 0 .. MaxFaults

ClaimTypes ==
    /\ value \in Value
    /\ by \in {"user", "bridge", "daemon"}
    /\ under \in {"none", "local", "received"}
    /\ claim \in {"none", "local", "received"}
    /\ previous \in Value \cup {Nothing}
    /\ restore \in Value \cup {Nothing}
    /\ incoming \in Value \cup {Nothing}
    /\ lock \in {"free", "watcher", "reader"}
    /\ step \in {"rest", "locked", "restore", "restored"}
    /\ reader \in {"idle", "waiting", "publish", "read back"}
    /\ known \subseteq Value
    /\ mistaken \subseteq Value

-----------------------------------------------------------------------------

\* An echo that the bridge made while its files were claimed is never sent to the
\* peers as a copy, unless the claim ran out before the watcher could look.
EchoesStay == [][Sends => ~(by = "bridge" /\ under # "none")]_allVars

\* What a user copies is taken for known only when this daemon has sent, applied
\* or started with that value, or once read it back in the place of what it had
\* just published.
DismissedIsKnown ==
    [][KnownAlready /\ by = "user" => value \in known \cup mistaken]_allVars

\* Files from a peer that the bridge overwrites with their name are put back,
\* unless a user copies something, the claim runs out, the clipboard refuses the
\* files or had been read back too late when they came, or the watcher spent its
\* retries and is told of nothing more.
Mended ==
    by = "bridge" /\ under = "received" ~>
        \/ value = "files"
        \/ by = "user"
        \/ claim # "received"
        \/ faults > 0
        \/ mistaken # {}
        \/ ~WillLook

-----------------------------------------------------------------------------
(* What the proofs build on. *)

\* The files that are put back are there as long as they can be asked for, and
\* so is the clip that the read half handles.
HasWhatItPuts ==
    /\ claim = "received" \/ step = "restore" => restore # Nothing /\ rounds < MaxRounds
    /\ reader # "idle" => incoming # Nothing

Accounted == known \cup mistaken

\* Whatever the watcher compares with has an account.
AllAccounted ==
    /\ previous \in Accounted \cup {Nothing}
    /\ restore \in Accounted \cup {Nothing}
    /\ \A v \in Value : suppressed[v] > 0 => v \in Accounted
    /\ by = "daemon" => value \in Accounted

\* An echo on the clipboard stays claimed, or the watcher knows it.
EchoIsKnown ==
    by = "bridge" /\ under # "none" =>
        /\ value = "name"
        /\ claim # "none" \/ suppressed["name"] > 0 \/ previous = "name"

=============================================================================
