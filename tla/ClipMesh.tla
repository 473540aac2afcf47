------------------------------ MODULE ClipMesh ------------------------------
(***************************************************************************)
(* How a copy made on one machine reaches the clipboards of the others:    *)
(* the watcher (src/daemon.rs, watch_clipboard), the two halves of every   *)
(* peer connection (serve_peer, receive_clip) and the state they share     *)
(* under the daemon's locks (previous, suppressed, seen, apply_lock, the   *)
(* newest-value channel of every peer).                                    *)
(*                                                                         *)
(* A Port is one end of a peer connection, with the PeerLink the daemon    *)
(* keeps for it.  A Task is whatever runs inside a daemon: its watcher     *)
(* (named by the node) or the read half of a port (named by the port).     *)
(* A clip is known by its number in the sequence of all clips ever minted, *)
(* which stands for its UUID.                                              *)
(***************************************************************************)
EXTENDS Naturals, Sequences

CONSTANTS
    Node,       \* machines, one daemon each
    Port,       \* ends of the peer connections
    NodeOf,     \* NodeOf[p]: the node whose daemon serves port p
    PeerOf,     \* PeerOf[p]: the other end of p's connection
    Content,    \* fingerprints of clipboard contents
    Empty,      \* nothing was ever captured
    Publish,    \* Publish[n][v]: what reads back on n once v is published
    Copiers,    \* nodes whose user copies something
    WireCap,    \* frames a connection's pipes and buffers hold
    MaxCopies,  \* bound: user copies in a behaviour
    Faults,     \* which faults happen: "apply", "readback", "link"
    MaxFaults   \* bound: faults in a behaviour

ASSUME MeshAssumption ==
    /\ Node \cap Port = {}
    /\ NodeOf \in [Port -> Node]
    /\ PeerOf \in [Port -> Port]
    /\ \A p \in Port : PeerOf[p] # p /\ PeerOf[PeerOf[p]] = p
    /\ Empty \notin Content
    /\ Publish \in [Node -> [Content -> Content]]
    /\ Copiers \subseteq Node
    /\ WireCap \in Nat \ {0}
    /\ MaxCopies \in Nat
    /\ MaxFaults \in Nat
    /\ "free" \notin Node \cup Port

Task == Node \cup Port
HomeOf(t) == IF t \in Port THEN NodeOf[t] ELSE t
NoClip == 0
Free == "free"

VARIABLES
    clipboard,   \* content of the native clipboard
    author,      \* who put it there, "user" or "daemon" (history)
    changed,     \* a change notification the watcher has not taken yet
    previous,    \* fingerprint of the watcher's last snapshot
    suppressed,  \* how often the watcher is to ignore a fingerprint
    seen,        \* clips this daemon has handled
    lock,        \* holder of apply_lock
    pc,          \* where a task stands
    held,        \* the clip a task is handling
    todo,        \* ports a broadcast of the task has still to reach
    slot,        \* newest-value channel of a port's write half
    wire,        \* frames on their way to a port's read half
    link,        \* a port's connection: "hello", "up", "broken", "down"
    orphan,      \* clip whose publication outlived its cancelled handler
    clips,       \* every clip minted: origin, content, author (history)
    applied,     \* clips published on a node, in order (history)
    unguarded,   \* values published with no suppression recorded (history)
    copies,      \* user copies so far
    faults       \* faults so far

watcherVars == <<previous, suppressed, clips>>
linkVars == <<slot, wire, link>>
historyVars == <<applied, unguarded>>
taskVars == <<pc, held, todo, lock>>
vars == <<clipboard, author, changed, watcherVars, seen, taskVars, linkVars,
          orphan, historyVars, copies, faults>>

-----------------------------------------------------------------------------

Init ==
    /\ clipboard = [n \in Node |-> Empty]
    /\ author = [n \in Node |-> "user"]
    /\ changed = [n \in Node |-> FALSE]
    /\ previous = [n \in Node |-> Empty]
    /\ suppressed = [n \in Node |-> [v \in Content |-> 0]]
    /\ seen = [n \in Node |-> {}]
    /\ lock = [n \in Node |-> Free]
    /\ pc = [t \in Task |-> "idle"]
    /\ held = [t \in Task |-> NoClip]
    /\ todo = [t \in Task |-> {}]
    /\ slot = [p \in Port |-> NoClip]
    /\ wire = [p \in Port |-> <<>>]
    /\ link = [p \in Port |-> "up"]
    /\ orphan = [p \in Port |-> NoClip]
    /\ clips = <<>>
    /\ applied = [n \in Node |-> <<>>]
    /\ unguarded = [n \in Node |-> {}]
    /\ copies = 0
    /\ faults = 0

\* A fault of the given kind may still happen.
Fault(kind) ==
    /\ kind \in Faults
    /\ faults < MaxFaults
    /\ faults' = faults + 1

\* What node n's clipboard reads back after clip c was published there.
Published(n, c) == Publish[n][clips[c].content]

\* The native clipboard of n takes a value; the watcher is notified.  A user
\* who copies what is there already leaves its authorship as it was.
SetClipboard(n, v, who) ==
    /\ clipboard' = [clipboard EXCEPT ![n] = v]
    /\ author' = [author EXCEPT ![n] = IF v = clipboard[n] /\ who = "user" THEN @ ELSE who]
    /\ changed' = [changed EXCEPT ![n] = TRUE]

\* Task t ends what it was doing and gives up apply_lock if it holds it.
Rest(t) ==
    /\ pc' = [pc EXCEPT ![t] = "idle"]
    /\ held' = [held EXCEPT ![t] = NoClip]
    /\ lock' = [lock EXCEPT ![HomeOf(t)] = IF @ = t THEN Free ELSE @]

-----------------------------------------------------------------------------
(* The user and the clipboard watcher. *)

UserCopy(n, v) ==
    /\ n \in Copiers
    /\ copies < MaxCopies
    /\ copies' = copies + 1
    /\ SetClipboard(n, v, "user")
    /\ UNCHANGED <<watcherVars, seen, taskVars, linkVars, orphan, historyVars, faults>>

\* Mutant: a notification that comes while a clip is applied is taken for the
\* echo of it and dropped.
WakeUnlessBusy(n) ==
    /\ pc[n] = "idle"
    /\ changed[n]
    /\ changed' = [changed EXCEPT ![n] = FALSE]
    /\ pc' = [pc EXCEPT ![n] = IF lock[n] = Free THEN "capture" ELSE "idle"]
    /\ UNCHANGED <<clipboard, author, watcherVars, seen, held, todo, lock, linkVars,
                   orphan, historyVars, copies, faults>>

Wake(n) ==
    /\ pc[n] = "idle"
    /\ changed[n]
    /\ changed' = [changed EXCEPT ![n] = FALSE]
    /\ pc' = [pc EXCEPT ![n] = "capture"]
    /\ UNCHANGED <<clipboard, author, watcherVars, seen, held, todo, lock, linkVars,
                   orphan, historyVars, copies, faults>>

\* The snapshot is the one already known, or the echo of an apply: nothing
\* is sent, and apply_lock is free again when the step ends.
CaptureNothingNew(n) ==
    /\ pc[n] = "capture"
    /\ lock[n] = Free
    /\ LET v == clipboard[n] IN
       \/ /\ v = previous[n]
          /\ UNCHANGED <<previous, suppressed>>
       \/ /\ v # previous[n]
          /\ suppressed[n][v] > 0
          /\ previous' = [previous EXCEPT ![n] = v]
          /\ suppressed' = [suppressed EXCEPT ![n][v] = @ - 1]
    /\ pc' = [pc EXCEPT ![n] = "idle"]
    /\ UNCHANGED <<clipboard, author, changed, clips, seen, held, todo, lock, linkVars,
                   orphan, historyVars, copies, faults>>

\* The snapshot is new: a clip is minted and marked seen, apply_lock is kept.
CaptureNew(n) ==
    /\ pc[n] = "capture"
    /\ lock[n] = Free
    /\ LET v == clipboard[n]
           c == Len(clips) + 1
       IN /\ v # previous[n]
          /\ suppressed[n][v] = 0
          /\ previous' = [previous EXCEPT ![n] = v]
          /\ clips' = Append(clips, [origin |-> n, content |-> v, author |-> author[n]])
          /\ seen' = [seen EXCEPT ![n] = @ \cup {c}]
          /\ held' = [held EXCEPT ![n] = c]
    /\ lock' = [lock EXCEPT ![n] = n]
    /\ pc' = [pc EXCEPT ![n] = "broadcast"]
    /\ UNCHANGED <<clipboard, author, changed, suppressed, todo, linkVars, orphan,
                   historyVars, copies, faults>>

\* The watcher's broadcast has reached every peer: it lets go of apply_lock.
WatcherDone(n) ==
    /\ pc[n] = "offer"
    /\ todo[n] = {}
    /\ Rest(n)
    /\ UNCHANGED <<clipboard, author, changed, watcherVars, seen, todo, linkVars,
                   orphan, historyVars, copies, faults>>

-----------------------------------------------------------------------------
(* Broadcasting a clip, from the watcher or as a relay of a read half. *)

\* Mutant: a received clip is not relayed to the other peers.
TargetsOfWatcher(t) ==
    {q \in Port : NodeOf[q] = HomeOf(t) /\ link[q] \in {"up", "broken"} /\ t \in Node}

\* The links a broadcast of task t reaches: all of the node's, but its source.
Targets(t) ==
    {q \in Port : NodeOf[q] = HomeOf(t) /\ link[q] \in {"up", "broken"} /\ q # t}

Broadcast(t) ==
    /\ pc[t] = "broadcast"
    /\ todo' = [todo EXCEPT ![t] = Targets(t)]
    /\ pc' = [pc EXCEPT ![t] = "offer"]
    /\ UNCHANGED <<clipboard, author, changed, watcherVars, seen, held, lock, linkVars,
                   orphan, historyVars, copies, faults>>

\* Mutant: a channel that still holds a clip keeps it.
OfferUnlessFull(t, q) ==
    /\ pc[t] = "offer"
    /\ q \in todo[t]
    /\ todo' = [todo EXCEPT ![t] = @ \ {q}]
    /\ slot' = [slot EXCEPT ![q] = IF slot[q] = NoClip THEN held[t] ELSE @]
    /\ UNCHANGED <<clipboard, author, changed, watcherVars, seen, pc, held, lock, wire,
                   link, orphan, historyVars, copies, faults>>

\* send_replace: the newest clip takes the place of one not yet sent.
Offer(t, q) ==
    /\ pc[t] = "offer"
    /\ q \in todo[t]
    /\ todo' = [todo EXCEPT ![t] = @ \ {q}]
    /\ slot' = [slot EXCEPT ![q] = IF link[q] \in {"up", "broken"} THEN held[t] ELSE @]
    /\ UNCHANGED <<clipboard, author, changed, watcherVars, seen, pc, held, lock, wire,
                   link, orphan, historyVars, copies, faults>>

\* The write half takes the newest clip and writes its frame.
Send(p) ==
    /\ link[p] = "up"
    /\ slot[p] # NoClip
    /\ Len(wire[PeerOf[p]]) < WireCap
    /\ wire' = [wire EXCEPT ![PeerOf[p]] = Append(@, slot[p])]
    /\ slot' = [slot EXCEPT ![p] = NoClip]
    /\ UNCHANGED <<clipboard, author, changed, watcherVars, seen, taskVars, link, orphan,
                   historyVars, copies, faults>>

-----------------------------------------------------------------------------
(* The read half: receive_clip. *)

\* Mutant: a clip is handled without asking whether it was seen.
ReceiveAny(p) ==
    /\ link[p] \in {"up", "broken"}
    /\ pc[p] = "idle"
    /\ wire[p] # <<>>
    /\ wire' = [wire EXCEPT ![p] = Tail(@)]
    /\ seen' = [seen EXCEPT ![NodeOf[p]] = @ \cup {Head(wire[p])}]
    /\ pc' = [pc EXCEPT ![p] = "broadcast"]
    /\ held' = [held EXCEPT ![p] = Head(wire[p])]
    /\ UNCHANGED <<clipboard, author, changed, watcherVars, todo, lock, slot, link, orphan,
                   historyVars, copies, faults>>

\* A frame arrives.  A clip already seen is dropped, another one is relayed.
Receive(p) ==
    /\ link[p] \in {"up", "broken"}
    /\ pc[p] = "idle"
    /\ wire[p] # <<>>
    /\ wire' = [wire EXCEPT ![p] = Tail(@)]
    /\ LET c == Head(wire[p])
           n == NodeOf[p]
       IN \/ /\ c \in seen[n]
             /\ UNCHANGED <<seen, pc, held>>
          \/ /\ c \notin seen[n]
             /\ seen' = [seen EXCEPT ![n] = @ \cup {c}]
             /\ pc' = [pc EXCEPT ![p] = "broadcast"]
             /\ held' = [held EXCEPT ![p] = c]
    /\ UNCHANGED <<clipboard, author, changed, watcherVars, todo, lock, slot, link, orphan,
                   historyVars, copies, faults>>

AcquireLock(p) ==
    /\ pc[p] = "offer"
    /\ todo[p] = {}
    /\ lock[NodeOf[p]] = Free
    /\ lock' = [lock EXCEPT ![NodeOf[p]] = p]
    /\ pc' = [pc EXCEPT ![p] = "publish"]
    /\ UNCHANGED <<clipboard, author, changed, watcherVars, seen, held, todo, linkVars,
                   orphan, historyVars, copies, faults>>

\* Materializing the files or publishing fails: the clip is only logged.
ApplyFails(p) ==
    /\ pc[p] = "publish"
    /\ Fault("apply")
    /\ Rest(p)
    /\ UNCHANGED <<clipboard, author, changed, watcherVars, seen, todo, linkVars, orphan,
                   historyVars, copies>>

PublishClip(p) ==
    /\ pc[p] = "publish"
    /\ SetClipboard(NodeOf[p], Published(NodeOf[p], held[p]), "daemon")
    /\ applied' = [applied EXCEPT ![NodeOf[p]] = Append(@, held[p])]
    /\ pc' = [pc EXCEPT ![p] = "readback"]
    /\ UNCHANGED <<watcherVars, seen, held, todo, lock, linkVars, orphan, unguarded,
                   copies, faults>>

\* Mutant: the hash of the clip that came in is suppressed, not the hash of
\* what the clipboard made of it.
SuppressReceived(p) ==
    /\ pc[p] = "readback"
    /\ suppressed' = [suppressed EXCEPT ![NodeOf[p]][clips[held[p]].content] = @ + 1]
    /\ Rest(p)
    /\ UNCHANGED <<clipboard, author, changed, previous, clips, seen, todo, linkVars,
                   orphan, historyVars, copies, faults>>

\* What the clipboard holds now, which a user may have changed since it was
\* published, is what the watcher is told to ignore.
Readback(p) ==
    /\ pc[p] = "readback"
    /\ LET n == NodeOf[p] IN
       suppressed' = [suppressed EXCEPT ![n][clipboard[n]] = @ + 1]
    /\ Rest(p)
    /\ UNCHANGED <<clipboard, author, changed, previous, clips, seen, todo, linkVars,
                   orphan, historyVars, copies, faults>>

\* The handler of p will not record the suppression of what it published.
LeaveUnguarded(p, c) ==
    unguarded' = [unguarded EXCEPT ![NodeOf[p]] = @ \cup {Published(NodeOf[p], c)}]

ReadbackFails(p) ==
    /\ pc[p] = "readback"
    /\ Fault("readback")
    /\ LeaveUnguarded(p, held[p])
    /\ Rest(p)
    /\ UNCHANGED <<clipboard, author, changed, watcherVars, seen, todo, linkVars, orphan,
                   applied, copies>>

-----------------------------------------------------------------------------
(* Connections that break and come back. *)

\* The transport dies under both ends; each finds out in its own time.
LinkBreaks(p) ==
    LET ends == {p, PeerOf[p]}
    IN /\ \A q \in ends : link[q] \in {"hello", "up"}
       /\ Fault("link")
       /\ link' = [q \in Port |->
                     IF q \notin ends THEN link[q]
                     ELSE IF link[q] = "up" THEN "broken" ELSE "down"]
       /\ wire' = [q \in Port |-> IF link'[q] = "down" THEN <<>> ELSE wire[q]]
       /\ UNCHANGED <<clipboard, author, changed, watcherVars, seen, taskVars, slot,
                      orphan, historyVars, copies>>

\* serve_peer of p returns: its PeerLink and whatever was buffered are gone.
Disconnect(p) ==
    /\ link' = [link EXCEPT ![p] = "down"]
    /\ slot' = [slot EXCEPT ![p] = NoClip]
    /\ wire' = [wire EXCEPT ![p] = <<>>]

\* The read half meets the end of the stream.
ReadEnds(p) ==
    /\ link[p] = "broken"
    /\ pc[p] = "idle"
    /\ Disconnect(p)
    /\ UNCHANGED <<clipboard, author, changed, watcherVars, seen, taskVars, orphan,
                   historyVars, copies, faults>>

\* The write half fails first, writing a clip or an update announcement, and
\* the read half is dropped at an await, whatever receive_clip was doing; a
\* publication under way is not stopped.
WriteFails(p) ==
    /\ link[p] = "broken"
    /\ todo[p] = {}
    /\ Disconnect(p)
    /\ Rest(p)
    /\ \/ /\ pc[p] = "publish"
          /\ orphan[p] = NoClip
          /\ orphan' = [orphan EXCEPT ![p] = held[p]]
          /\ UNCHANGED unguarded
       \/ /\ pc[p] = "readback"
          /\ LeaveUnguarded(p, held[p])
          /\ UNCHANGED orphan
       \/ /\ pc[p] \notin {"publish", "readback"}
          /\ UNCHANGED <<orphan, unguarded>>
    /\ UNCHANGED <<clipboard, author, changed, watcherVars, seen, todo, applied, copies,
                   faults>>

\* The blocking task left behind publishes its clip; nobody waits for it.
OrphanPublishes(p) ==
    /\ orphan[p] # NoClip
    /\ SetClipboard(NodeOf[p], Published(NodeOf[p], orphan[p]), "daemon")
    /\ applied' = [applied EXCEPT ![NodeOf[p]] = Append(@, orphan[p])]
    /\ LeaveUnguarded(p, orphan[p])
    /\ orphan' = [orphan EXCEPT ![p] = NoClip]
    /\ UNCHANGED <<watcherVars, seen, taskVars, linkVars, copies, faults>>

\* The dialling side connects again and both ends exchange their hellos.
Dial(p) ==
    LET ends == {p, PeerOf[p]}
    IN /\ \A q \in ends : link[q] = "down"
       /\ link' = [q \in Port |-> IF q \in ends THEN "hello" ELSE link[q]]
       /\ UNCHANGED <<clipboard, author, changed, watcherVars, seen, taskVars, slot, wire,
                      orphan, historyVars, copies, faults>>

\* p has read the peer's hello and adds its PeerLink, which waits for any
\* broadcast that holds the map of peers.
Establish(p) ==
    /\ link[p] = "hello"
    /\ \A t \in Task : HomeOf(t) = NodeOf[p] => todo[t] = {}
    /\ link' = [link EXCEPT ![p] = "up"]
    /\ UNCHANGED <<clipboard, author, changed, watcherVars, seen, taskVars, slot, wire,
                   orphan, historyVars, copies, faults>>

-----------------------------------------------------------------------------

Watcher(n) == Wake(n) \/ CaptureNothingNew(n) \/ CaptureNew(n) \/ WatcherDone(n)
Spread(t) == Broadcast(t) \/ \E q \in Port : Offer(t, q)
Handling(p) == Receive(p) \/ AcquireLock(p) \/ PublishClip(p) \/ Readback(p)
Failing(p) == ApplyFails(p) \/ ReadbackFails(p)
Connection(p) ==
    \/ Send(p) \/ LinkBreaks(p) \/ ReadEnds(p) \/ WriteFails(p)
    \/ OrphanPublishes(p) \/ Dial(p) \/ Establish(p)

Next ==
    \/ \E n \in Node, v \in Content : UserCopy(n, v)
    \/ \E n \in Node : Watcher(n)
    \/ \E t \in Task : Spread(t)
    \/ \E p \in Port : Handling(p) \/ Failing(p) \/ Connection(p)

Spec == Init /\ [][Next]_vars

\* Every task runs while it can, and apply_lock is granted in the order it was
\* asked for: a task that keeps finding it free gets it.  Users, faults and the
\* return of a connection are owed to nobody.
Fairness ==
    /\ \A n \in Node : SF_vars(Watcher(n) \/ Spread(n))
    /\ \A p \in Port : SF_vars(Handling(p) \/ Spread(p)) /\ WF_vars(Send(p))

FairSpec == Spec /\ Fairness

-----------------------------------------------------------------------------

TaskState == {"idle", "capture", "broadcast", "offer", "publish", "readback"}
Clip == [origin : Node, content : Content, author : {"user", "daemon"}]

TypeOK ==
    /\ clipboard \in [Node -> Content \cup {Empty}]
    /\ author \in [Node -> {"user", "daemon"}]
    /\ changed \in [Node -> BOOLEAN]
    /\ previous \in [Node -> Content \cup {Empty}]
    /\ suppressed \in [Node -> [Content -> Nat]]
    /\ seen \in [Node -> SUBSET (1 .. Len(clips))]
    /\ lock \in [Node -> Task \cup {Free}]
    /\ pc \in [Task -> TaskState]
    /\ held \in [Task -> 0 .. Len(clips)]
    /\ todo \in [Task -> SUBSET Port]
    /\ slot \in [Port -> 0 .. Len(clips)]
    /\ wire \in [Port -> Seq(1 .. Len(clips))]
    /\ link \in [Port -> {"hello", "up", "broken", "down"}]
    /\ orphan \in [Port -> 0 .. Len(clips)]
    /\ clips \in Seq(Clip)
    /\ applied \in [Node -> Seq(1 .. Len(clips))]
    /\ unguarded \in [Node -> SUBSET Content]
    /\ copies \in 0 .. MaxCopies
    /\ faults \in 0 .. MaxFaults

-----------------------------------------------------------------------------
(* What holds along the way; the proofs build on it. *)

Busy == {"broadcast", "offer", "publish", "readback"}

\* A task at work has a clip in hand, and one that touches the clipboard holds
\* apply_lock.
TasksInOrder ==
    /\ \A n \in Node : pc[n] \in {"idle", "capture", "broadcast", "offer"}
    /\ \A p \in Port : pc[p] # "capture"
    /\ \A t \in Task : pc[t] \in Busy => held[t] # NoClip
    /\ \A p \in Port : pc[p] \in {"publish", "readback"} => lock[NodeOf[p]] = p

\* Nobody looks at a clipboard that nothing was ever put on.
ClipboardFilled ==
    /\ \A n \in Node :
         changed[n] \/ pc[n] = "capture" \/ author[n] = "daemon"
           => clipboard[n] \in Content
    /\ \A p \in Port : pc[p] = "readback" => clipboard[NodeOf[p]] \in Content

\* What the daemon put on a clipboard is known to the watcher, or suppressed,
\* or still being read back under apply_lock, or was left unguarded.
DaemonValueGuarded ==
    \A n \in Node : author[n] = "daemon" =>
        \/ previous[n] = clipboard[n]
        \/ suppressed[n][clipboard[n]] > 0
        \/ clipboard[n] \in unguarded[n]
        \/ \E p \in Port : /\ NodeOf[p] = n
                           /\ pc[p] = "readback"
                           /\ Published(n, held[p]) = clipboard[n]

\* A clip some handler or orphan of a node has still to publish.
Claimed(p) ==
    (IF pc[p] \in {"broadcast", "offer", "publish"} THEN {held[p]} ELSE {})
      \cup (IF orphan[p] # NoClip THEN {orphan[p]} ELSE {})

\* A claimed clip is marked seen, not yet published and from elsewhere, and
\* nobody else on the node claims it.
ClaimsDistinct ==
    /\ \A n \in Node, c \in 1 .. Len(clips) : clips[c].origin = n => c \in seen[n]
    /\ \A n \in Node : \A i \in 1 .. Len(applied[n]) : applied[n][i] \in seen[n]
    /\ \A p \in Port : \A c \in Claimed(p) :
         /\ c \in seen[NodeOf[p]]
         /\ clips[c].origin # NodeOf[p]
         /\ \A i \in 1 .. Len(applied[NodeOf[p]]) : applied[NodeOf[p]][i] # c
         /\ \A q \in Port : NodeOf[q] = NodeOf[p] /\ q # p => c \notin Claimed(q)
    /\ \A p \in Port :
         pc[p] \in {"broadcast", "offer", "publish"} => orphan[p] # held[p]

-----------------------------------------------------------------------------
(* What the daemon promises. *)

\* No clip is published twice on a node, nor on the node it was copied on:
\* UUIDs end the circulation of a clip in a mesh with cycles.
AppliedOnce ==
    \A n \in Node :
        /\ \A i, j \in 1 .. Len(applied[n]) : applied[n][i] = applied[n][j] => i = j
        /\ \A i \in 1 .. Len(applied[n]) : clips[applied[n][i]].origin # n

\* A clip that only sends back what the daemon itself published stems from a
\* publication whose handler failed or was cancelled before it recorded the
\* suppression; interleavings alone never produce an echo.
EchoOnlyUnguarded ==
    \A i \in 1 .. Len(clips) :
        clips[i].author = "daemon" => clips[i].content \in unguarded[clips[i].origin]

\* A watcher that has nothing to do knows what the clipboard holds: no change
\* falls between two captures, whoever made it.
QuietWatcherIsCurrent ==
    \A n \in Node : pc[n] # "capture" /\ ~changed[n] => previous[n] = clipboard[n]

\* What the last clip published on a follower is, 0 before the first.
Shown(n) == IF applied[n] = <<>> THEN NoClip ELSE applied[n][Len(applied[n])]

Replica == INSTANCE NewestClip WITH
    Follower <- Node \ Copiers,
    MaxClip <- MaxCopies,
    minted <- Len(clips),
    shown <- [n \in Node \ Copiers |-> Shown(n)]

\* With one copying machine in a mesh without cycles and without faults, each
\* other machine goes through ever newer clips and reaches the newest one,
\* though relays and newest-value channels may skip some on the way.
FollowsNewest == Replica!Spec

\* Once the user of the copying machine has stopped, every machine ends up
\* with that user's last copy, as its own clipboard renders it.
LastCopyEverywhere ==
    <>[](\A a \in Copiers, n \in Node \ Copiers :
           clipboard[a] # Empty => clipboard[n] = Publish[n][clipboard[a]])

=============================================================================
