--------------------------- MODULE ClipMeshProofs ---------------------------
(***************************************************************************)
(* Proofs about ClipMesh for every mesh, every number of copies and every  *)
(* set of faults; the last two, FollowersAdvance and NothingLeftBehind,    *)
(* for every mesh without cycles in which one machine copies.              *)
(***************************************************************************)
EXTENDS ClipMesh, SequenceTheorems, WellFoundedInduction, TLAPS

Basics == TypeOK /\ TasksInOrder /\ ClipboardFilled

LEMMA HomeType == \A t \in Task : HomeOf(t) \in Node
BY MeshAssumption DEF Task, HomeOf

LEMMA HomeOfNode == \A n \in Node : HomeOf(n) = n
BY MeshAssumption DEF HomeOf

LEMMA HomeOfPort == \A p \in Port : HomeOf(p) = NodeOf[p]
BY DEF HomeOf

LEMMA RestType ==
    ASSUME TypeOK, NEW t \in Task, Rest(t)
    PROVE  /\ pc' \in [Task -> TaskState]
           /\ held' \in [Task -> 0 .. Len(clips)]
           /\ lock' \in [Node -> Task \cup {Free}]
BY HomeType DEF TypeOK, Rest, TaskState, NoClip

LEMMA ClipType ==
    ASSUME TypeOK, NEW c \in 1 .. Len(clips)
    PROVE  /\ clips[c] \in Clip
           /\ clips[c].origin \in Node
           /\ clips[c].content \in Content
<1>1. clips \in Seq(Clip)
  BY DEF TypeOK
<1>2. clips[c] \in Clip
  BY <1>1
<1>3. QED
  BY <1>2 DEF Clip

LEMMA PublishedType ==
    ASSUME TypeOK, NEW n \in Node, NEW c \in 1 .. Len(clips)
    PROVE  Published(n, c) \in Content
BY ClipType, MeshAssumption DEF Published

LEMMA TypeStep ==
    ASSUME Basics, [Next]_vars
    PROVE  TypeOK'
<1> USE DEF Basics
<1> USE MeshAssumption, HomeType, HomeOfNode, HomeOfPort
<1>1. ASSUME NEW n \in Node, NEW v \in Content, UserCopy(n, v) PROVE TypeOK'
  BY <1>1 DEF TypeOK, UserCopy, SetClipboard, watcherVars, taskVars, linkVars, historyVars
<1>2. ASSUME NEW n \in Node, Wake(n) PROVE TypeOK'
  BY <1>2 DEF TypeOK, Wake, Task, TaskState, watcherVars, linkVars, historyVars
<1>3. ASSUME NEW n \in Node, CaptureNothingNew(n) PROVE TypeOK'
  <2>1. clipboard[n] \in Content
    BY <1>3 DEF CaptureNothingNew, ClipboardFilled
  <2>2. /\ previous' \in [Node -> Content \cup {Empty}]
        /\ suppressed' \in [Node -> [Content -> Nat]]
    <3>1. CASE clipboard[n] = previous[n] /\ UNCHANGED <<previous, suppressed>>
      BY <3>1 DEF TypeOK
    <3>2. CASE /\ suppressed[n][clipboard[n]] > 0
               /\ previous' = [previous EXCEPT ![n] = clipboard[n]]
               /\ suppressed' = [suppressed EXCEPT ![n][clipboard[n]] = @ - 1]
      BY <2>1, <3>2 DEF TypeOK
    <3>3. QED
      BY <1>3, <3>1, <3>2 DEF CaptureNothingNew
  <2>3. pc' \in [Task -> TaskState]
    BY <1>3 DEF TypeOK, CaptureNothingNew, Task, TaskState
  <2>4. QED
    BY <1>3, <2>2, <2>3 DEF TypeOK, CaptureNothingNew, linkVars, historyVars
<1>4. ASSUME NEW n \in Node, CaptureNew(n) PROVE TypeOK'
  BY <1>4 DEF TypeOK, CaptureNew, Task, TaskState, ClipboardFilled, Clip, linkVars, historyVars
<1>5. ASSUME NEW n \in Node, WatcherDone(n) PROVE TypeOK'
  BY <1>5, RestType DEF TypeOK, WatcherDone, Task, watcherVars, linkVars, historyVars
<1>6. ASSUME NEW t \in Task, Broadcast(t) PROVE TypeOK'
  BY <1>6 DEF TypeOK, Broadcast, Targets, TaskState, watcherVars, linkVars, historyVars
<1>7. ASSUME NEW t \in Task, NEW q \in Port, Offer(t, q) PROVE TypeOK'
  BY <1>7 DEF TypeOK, Offer, watcherVars, historyVars
<1>8. ASSUME NEW p \in Port, Receive(p) PROVE TypeOK'
  <2>1. /\ wire[p] \in Seq(1 .. Len(clips))
        /\ Head(wire[p]) \in 1 .. Len(clips)
        /\ Tail(wire[p]) \in Seq(1 .. Len(clips))
    BY <1>8 DEF TypeOK, Receive
  <2>2. wire' \in [Port -> Seq(1 .. Len(clips))]
    BY <1>8, <2>1 DEF TypeOK, Receive
  <2>3. /\ seen' \in [Node -> SUBSET (1 .. Len(clips))]
        /\ pc' \in [Task -> TaskState]
        /\ held' \in [Task -> 0 .. Len(clips)]
    <3>1. CASE Head(wire[p]) \in seen[NodeOf[p]] /\ UNCHANGED <<seen, pc, held>>
      BY <3>1 DEF TypeOK
    <3>2. CASE /\ seen' = [seen EXCEPT ![NodeOf[p]] = @ \cup {Head(wire[p])}]
               /\ pc' = [pc EXCEPT ![p] = "broadcast"]
               /\ held' = [held EXCEPT ![p] = Head(wire[p])]
      <4>1. Head(wire[p]) \in 0 .. Len(clips)
        BY <2>1 DEF TypeOK
      <4>2. held' \in [Task -> 0 .. Len(clips)]
        BY <3>2, <4>1 DEF TypeOK, Task
      <4>3. seen' \in [Node -> SUBSET (1 .. Len(clips))]
        BY <3>2, <2>1 DEF TypeOK
      <4>4. pc' \in [Task -> TaskState]
        BY <3>2 DEF TypeOK, Task, TaskState
      <4>5. QED
        BY <4>2, <4>3, <4>4
    <3>3. QED
      BY <1>8, <3>1, <3>2 DEF Receive
  <2>4. QED
    BY <1>8, <2>2, <2>3 DEF TypeOK, Receive, watcherVars, historyVars
<1>9. ASSUME NEW p \in Port, AcquireLock(p) PROVE TypeOK'
  BY <1>9 DEF TypeOK, AcquireLock, Task, TaskState, watcherVars, linkVars, historyVars
<1>10. ASSUME NEW p \in Port, PublishClip(p) PROVE TypeOK'
  <2>1. held[p] \in 1 .. Len(clips)
    BY <1>10 DEF TypeOK, TasksInOrder, Busy, PublishClip, Task, NoClip
  <2>2. Published(NodeOf[p], held[p]) \in Content
    BY <2>1, PublishedType
  <2>3. applied[NodeOf[p]] \in Seq(1 .. Len(clips))
    BY DEF TypeOK
  <2>4. Append(applied[NodeOf[p]], held[p]) \in Seq(1 .. Len(clips))
    BY <2>1, <2>3
  <2>5. applied' \in [Node -> Seq(1 .. Len(clips))]
    BY <1>10, <2>4 DEF TypeOK, PublishClip
  <2>6. /\ clipboard' \in [Node -> Content \cup {Empty}]
        /\ author' \in [Node -> {"user", "daemon"}]
        /\ changed' \in [Node -> BOOLEAN]
        /\ pc' \in [Task -> TaskState]
    BY <1>10, <2>2 DEF TypeOK, PublishClip, SetClipboard, Task, TaskState
  <2>7. QED
    BY <1>10, <2>5, <2>6 DEF TypeOK, PublishClip, watcherVars, linkVars
<1>11. ASSUME NEW p \in Port, Readback(p) PROVE TypeOK'
  <2>1. clipboard[NodeOf[p]] \in Content
    BY <1>11 DEF Readback, ClipboardFilled
  <2>2. suppressed' \in [Node -> [Content -> Nat]]
    BY <1>11, <2>1 DEF TypeOK, Readback
  <2>3. /\ pc' \in [Task -> TaskState]
        /\ held' \in [Task -> 0 .. Len(clips)]
        /\ lock' \in [Node -> Task \cup {Free}]
    BY <1>11, RestType DEF Readback, Task
  <2>4. QED
    BY <1>11, <2>2, <2>3 DEF TypeOK, Readback, linkVars, historyVars
<1>12. ASSUME NEW p \in Port, ApplyFails(p) PROVE TypeOK'
  <2>1. /\ pc' \in [Task -> TaskState]
        /\ held' \in [Task -> 0 .. Len(clips)]
        /\ lock' \in [Node -> Task \cup {Free}]
    BY <1>12, RestType DEF ApplyFails, Task
  <2>2. faults' \in 0 .. MaxFaults
    BY <1>12 DEF TypeOK, ApplyFails, Fault
  <2>3. QED
    BY <1>12, <2>1, <2>2 DEF TypeOK, ApplyFails, watcherVars, linkVars, historyVars
<1>13. ASSUME NEW p \in Port, ReadbackFails(p) PROVE TypeOK'
  <2>1. held[p] \in 1 .. Len(clips)
    BY <1>13 DEF TypeOK, TasksInOrder, Busy, ReadbackFails, Task, NoClip
  <2>2. Published(NodeOf[p], held[p]) \in Content
    BY <2>1, PublishedType
  <2>3. unguarded' \in [Node -> SUBSET Content]
    BY <1>13, <2>2 DEF TypeOK, ReadbackFails, LeaveUnguarded
  <2>4. /\ pc' \in [Task -> TaskState]
        /\ held' \in [Task -> 0 .. Len(clips)]
        /\ lock' \in [Node -> Task \cup {Free}]
    BY <1>13, RestType DEF ReadbackFails, Task
  <2>5. faults' \in 0 .. MaxFaults
    BY <1>13 DEF TypeOK, ReadbackFails, Fault
  <2>6. QED
    BY <1>13, <2>3, <2>4, <2>5 DEF TypeOK, ReadbackFails, watcherVars, linkVars
<1>14. ASSUME NEW p \in Port, Send(p) PROVE TypeOK'
  <2>1. slot[p] \in 1 .. Len(clips) /\ wire[PeerOf[p]] \in Seq(1 .. Len(clips))
    BY <1>14 DEF TypeOK, Send, NoClip
  <2>2. Append(wire[PeerOf[p]], slot[p]) \in Seq(1 .. Len(clips))
    BY <2>1
  <2>3. wire' \in [Port -> Seq(1 .. Len(clips))]
    BY <1>14, <2>2 DEF TypeOK, Send
  <2>4. slot' \in [Port -> 0 .. Len(clips)]
    BY <1>14 DEF TypeOK, Send, NoClip
  <2>5. QED
    BY <1>14, <2>3, <2>4 DEF TypeOK, Send, watcherVars, taskVars, historyVars
<1>15. ASSUME NEW p \in Port, LinkBreaks(p) PROVE TypeOK'
  <2>1. link' \in [Port -> {"hello", "up", "broken", "down"}]
    BY <1>15 DEF TypeOK, LinkBreaks
  <2>2. wire' \in [Port -> Seq(1 .. Len(clips))]
    <3>1. wire' = [q \in Port |-> IF link'[q] = "down" THEN <<>> ELSE wire[q]]
      BY <1>15 DEF LinkBreaks
    <3>2. \A q \in Port : wire[q] \in Seq(1 .. Len(clips))
      BY DEF TypeOK
    <3>3. <<>> \in Seq(1 .. Len(clips))
      OBVIOUS
    <3>4. QED
      BY <3>1, <3>2, <3>3
  <2>3. faults' \in 0 .. MaxFaults
    BY <1>15 DEF TypeOK, LinkBreaks, Fault
  <2>4. QED
    BY <1>15, <2>1, <2>2, <2>3
    DEF TypeOK, LinkBreaks, watcherVars, taskVars, historyVars
<1>16. ASSUME NEW p \in Port, ReadEnds(p) PROVE TypeOK'
  BY <1>16 DEF TypeOK, ReadEnds, Disconnect, NoClip, watcherVars, taskVars, historyVars
<1>17. ASSUME NEW p \in Port, WriteFails(p) PROVE TypeOK'
  <2>1. /\ pc' \in [Task -> TaskState]
        /\ held' \in [Task -> 0 .. Len(clips)]
        /\ lock' \in [Node -> Task \cup {Free}]
    BY <1>17, RestType DEF WriteFails, Task
  <2>2. /\ link' \in [Port -> {"hello", "up", "broken", "down"}]
        /\ slot' \in [Port -> 0 .. Len(clips)]
        /\ wire' \in [Port -> Seq(1 .. Len(clips))]
    BY <1>17 DEF TypeOK, WriteFails, Disconnect, NoClip
  <2>3. orphan' \in [Port -> 0 .. Len(clips)]
    BY <1>17 DEF TypeOK, WriteFails, Task
  <2>4. unguarded' \in [Node -> SUBSET Content]
    <3>1. CASE pc[p] = "readback" /\ LeaveUnguarded(p, held[p])
      <4>1. held[p] \in 1 .. Len(clips)
        BY <3>1 DEF TypeOK, TasksInOrder, Busy, Task, NoClip
      <4>2. Published(NodeOf[p], held[p]) \in Content
        BY <4>1, PublishedType
      <4>3. QED
        BY <3>1, <4>2 DEF TypeOK, LeaveUnguarded
    <3>2. QED
      BY <1>17, <3>1 DEF TypeOK, WriteFails
  <2>5. QED
    BY <1>17, <2>1, <2>2, <2>3, <2>4 DEF TypeOK, WriteFails, watcherVars
<1>18. ASSUME NEW p \in Port, OrphanPublishes(p) PROVE TypeOK'
  <2>1. orphan[p] \in 1 .. Len(clips)
    BY <1>18 DEF TypeOK, OrphanPublishes, NoClip
  <2>2. Published(NodeOf[p], orphan[p]) \in Content
    BY <2>1, PublishedType
  <2>3. applied[NodeOf[p]] \in Seq(1 .. Len(clips))
    BY DEF TypeOK
  <2>4. Append(applied[NodeOf[p]], orphan[p]) \in Seq(1 .. Len(clips))
    BY <2>1, <2>3
  <2>5. applied' \in [Node -> Seq(1 .. Len(clips))]
    BY <1>18, <2>4 DEF TypeOK, OrphanPublishes
  <2>6. /\ clipboard' \in [Node -> Content \cup {Empty}]
        /\ author' \in [Node -> {"user", "daemon"}]
        /\ changed' \in [Node -> BOOLEAN]
        /\ unguarded' \in [Node -> SUBSET Content]
        /\ orphan' \in [Port -> 0 .. Len(clips)]
    BY <1>18, <2>2 DEF TypeOK, OrphanPublishes, SetClipboard, LeaveUnguarded, NoClip
  <2>7. QED
    BY <1>18, <2>5, <2>6
    DEF TypeOK, OrphanPublishes, watcherVars, taskVars, linkVars
<1>19. ASSUME NEW p \in Port, Dial(p) PROVE TypeOK'
  BY <1>19 DEF TypeOK, Dial, watcherVars, taskVars, historyVars
<1>20. ASSUME NEW p \in Port, Establish(p) PROVE TypeOK'
  BY <1>20 DEF TypeOK, Establish, watcherVars, taskVars, historyVars
<1>21. CASE UNCHANGED vars
  BY <1>21 DEF TypeOK, vars, watcherVars, taskVars, linkVars, historyVars
<1>22. QED
  BY <1>1, <1>2, <1>3, <1>4, <1>5, <1>6, <1>7, <1>8, <1>9, <1>10, <1>11, <1>12, <1>13,
     <1>14, <1>15, <1>16, <1>17, <1>18, <1>19, <1>20, <1>21
  DEF Next, Watcher, Spread, Handling, Failing, Connection

-----------------------------------------------------------------------------

LEMMA InitBasics == Init => Basics
BY MeshAssumption
DEF Init, Basics, TypeOK, TasksInOrder, ClipboardFilled, Task, TaskState, Clip, Busy, NoClip, Free

\* A task that comes to rest leaves the others in order.
LEMMA RestInOrder ==
    ASSUME Basics, NEW t \in Task, Rest(t)
    PROVE  TasksInOrder'
<1> USE DEF Basics
<1>1. \A n \in Node : pc'[n] \in {"idle", "capture", "broadcast", "offer"}
  BY DEF TypeOK, TasksInOrder, Rest, Task
<1>2. \A p \in Port : pc'[p] # "capture"
  BY DEF TypeOK, TasksInOrder, Rest, Task
<1>3. \A u \in Task : pc'[u] \in Busy => held'[u] # NoClip
  BY DEF TypeOK, TasksInOrder, Rest, Busy
<1>4. ASSUME NEW p \in Port, pc'[p] \in {"publish", "readback"}
      PROVE  lock'[NodeOf[p]] = p
  <2>1. p # t /\ pc[p] \in {"publish", "readback"}
    BY <1>4 DEF TypeOK, Rest, Task
  <2>2. lock[NodeOf[p]] = p
    BY <2>1 DEF TasksInOrder
  <2>3. QED
    BY <2>1, <2>2, HomeType, MeshAssumption DEF TypeOK, Rest
<1>5. QED
  BY <1>1, <1>2, <1>3, <1>4 DEF TasksInOrder

LEMMA TasksStep ==
    ASSUME Basics, [Next]_vars
    PROVE  TasksInOrder'
<1> USE DEF Basics
<1> USE MeshAssumption, HomeOfPort
<1>1. CASE UNCHANGED <<pc, held, lock>>
  BY <1>1 DEF TasksInOrder
<1>2. ASSUME NEW t \in Task, Rest(t) PROVE TasksInOrder'
  BY <1>2, RestInOrder
<1>3. ASSUME NEW n \in Node, Wake(n) PROVE TasksInOrder'
  BY <1>3 DEF TypeOK, TasksInOrder, Wake, Task, Busy
<1>4. ASSUME NEW n \in Node, CaptureNothingNew(n) PROVE TasksInOrder'
  BY <1>4 DEF TypeOK, TasksInOrder, CaptureNothingNew, Task, Busy
<1>5. ASSUME NEW n \in Node, CaptureNew(n) PROVE TasksInOrder'
  <2>1. Len(clips) + 1 # NoClip
    BY DEF TypeOK, NoClip
  <2>2. \A p \in Port : pc[p] \in {"publish", "readback"} => NodeOf[p] # n
    BY <1>5 DEF TasksInOrder, CaptureNew, Free
  <2>3. QED
    BY <1>5, <2>1, <2>2 DEF TypeOK, TasksInOrder, CaptureNew, Task, Busy
<1>6. ASSUME NEW t \in Task, Broadcast(t) PROVE TasksInOrder'
  BY <1>6 DEF TypeOK, TasksInOrder, Broadcast, Task, Busy
<1>7. ASSUME NEW p \in Port, Receive(p) PROVE TasksInOrder'
  <2>1. Head(wire[p]) # NoClip
    <3>1. wire[p] \in Seq(1 .. Len(clips)) /\ wire[p] # <<>>
      BY <1>7 DEF TypeOK, Receive
    <3>2. QED
      BY <3>1 DEF NoClip
  <2>2. CASE UNCHANGED <<seen, pc, held>>
    BY <1>7, <2>2 DEF TasksInOrder, Receive
  <2>3. CASE /\ pc' = [pc EXCEPT ![p] = "broadcast"]
             /\ held' = [held EXCEPT ![p] = Head(wire[p])]
             /\ UNCHANGED lock
    BY <1>7, <2>1, <2>3 DEF TypeOK, TasksInOrder, Receive, Task, Busy
  <2>4. QED
    BY <1>7, <2>2, <2>3 DEF Receive
<1>8. ASSUME NEW p \in Port, AcquireLock(p) PROVE TasksInOrder'
  BY <1>8 DEF TypeOK, TasksInOrder, AcquireLock, Task, Busy, Free
<1>9. ASSUME NEW p \in Port, PublishClip(p) PROVE TasksInOrder'
  BY <1>9 DEF TypeOK, TasksInOrder, PublishClip, Task, Busy
<1>10. QED
  BY <1>1, <1>2, <1>3, <1>4, <1>5, <1>6, <1>7, <1>8, <1>9
  DEF Next, Watcher, Spread, Handling, Failing, Connection, UserCopy, Offer, Send, LinkBreaks,
      ReadEnds, OrphanPublishes, Dial, Establish, WatcherDone, ApplyFails, Readback,
      ReadbackFails, WriteFails, vars, taskVars, Task

LEMMA FilledStep ==
    ASSUME Basics, [Next]_vars
    PROVE  ClipboardFilled'
<1> USE DEF Basics
<1> USE MeshAssumption
<1>1. CASE UNCHANGED <<clipboard, author, changed, pc>>
  BY <1>1 DEF ClipboardFilled
<1>2. ASSUME NEW t \in Task, Rest(t), UNCHANGED <<clipboard, author, changed>>
      PROVE  ClipboardFilled'
  BY <1>2 DEF TypeOK, ClipboardFilled, Rest, Task
<1>3. ASSUME NEW n \in Node, NEW v \in Content, UserCopy(n, v) PROVE ClipboardFilled'
  BY <1>3 DEF TypeOK, ClipboardFilled, UserCopy, SetClipboard, taskVars
<1>4. ASSUME NEW n \in Node, Wake(n) PROVE ClipboardFilled'
  BY <1>4 DEF TypeOK, ClipboardFilled, Wake, Task
<1>5. ASSUME NEW n \in Node, CaptureNothingNew(n) PROVE ClipboardFilled'
  BY <1>5 DEF TypeOK, ClipboardFilled, CaptureNothingNew, Task
<1>6. ASSUME NEW n \in Node, CaptureNew(n) PROVE ClipboardFilled'
  BY <1>6 DEF TypeOK, ClipboardFilled, CaptureNew, Task
<1>7. ASSUME NEW t \in Task, Broadcast(t) PROVE ClipboardFilled'
  BY <1>7 DEF TypeOK, ClipboardFilled, Broadcast, Task
<1>8. ASSUME NEW p \in Port, Receive(p) PROVE ClipboardFilled'
  BY <1>8 DEF TypeOK, ClipboardFilled, Receive, Task
<1>9. ASSUME NEW p \in Port, AcquireLock(p) PROVE ClipboardFilled'
  BY <1>9 DEF TypeOK, ClipboardFilled, AcquireLock, Task
<1>10. ASSUME NEW p \in Port, NEW c \in 1 .. Len(clips),
              SetClipboard(NodeOf[p], Published(NodeOf[p], c), "daemon"),
              \/ pc' = [pc EXCEPT ![p] = "readback"]
              \/ UNCHANGED pc
       PROVE  ClipboardFilled'
  <2>1. Published(NodeOf[p], c) \in Content
    BY PublishedType
  <2>2. QED
    BY <1>10, <2>1 DEF TypeOK, ClipboardFilled, SetClipboard, Task
<1>11. ASSUME NEW p \in Port, PublishClip(p) PROVE ClipboardFilled'
  <2>1. held[p] \in 1 .. Len(clips)
    BY <1>11 DEF TypeOK, TasksInOrder, Busy, PublishClip, Task, NoClip
  <2>2. QED
    BY <1>10, <1>11, <2>1 DEF PublishClip
<1>12. ASSUME NEW p \in Port, OrphanPublishes(p) PROVE ClipboardFilled'
  <2>1. orphan[p] \in 1 .. Len(clips)
    BY <1>12 DEF TypeOK, OrphanPublishes, NoClip
  <2>2. QED
    BY <1>10, <1>12, <2>1 DEF OrphanPublishes, taskVars
<1>13. QED
  BY <1>1, <1>2, <1>3, <1>4, <1>5, <1>6, <1>7, <1>8, <1>9, <1>11, <1>12
  DEF Next, Watcher, Spread, Handling, Failing, Connection, Offer, Send, LinkBreaks, ReadEnds,
      Dial, Establish, WatcherDone, ApplyFails, Readback, ReadbackFails, WriteFails, vars,
      taskVars, Task

LEMMA BasicsStep == Basics /\ [Next]_vars => Basics'
BY TypeStep, TasksStep, FilledStep DEF Basics

LEMMA BasicsInvariant == Spec => []Basics
BY InitBasics, BasicsStep, PTL DEF Spec

\* The variables of every daemon keep their types: the count of suppressions
\* never goes below zero and no step handles a clip that does not exist.
THEOREM TypeCorrect == Spec => []TypeOK
<1>1. Basics => TypeOK
  BY DEF Basics
<1>2. QED
  BY <1>1, BasicsInvariant, PTL

-----------------------------------------------------------------------------
(* Echoes: a clip minted from a value the daemon published.                *)

EchoInv == Basics /\ DaemonValueGuarded /\ EchoOnlyUnguarded

\* One node's part of DaemonValueGuarded.
Guarded(n) ==
    \/ previous[n] = clipboard[n]
    \/ suppressed[n][clipboard[n]] > 0
    \/ clipboard[n] \in unguarded[n]
    \/ \E p \in Port : /\ NodeOf[p] = n
                       /\ pc[p] = "readback"
                       /\ Published(n, held[p]) = clipboard[n]

LEMMA GuardedDef == DaemonValueGuarded <=> \A n \in Node : author[n] = "daemon" => Guarded(n)
BY DEF DaemonValueGuarded, Guarded

\* A step that only moves tasks which are not reading back, and at most adds
\* unguarded values, leaves what is guarded guarded.
LEMMA GuardedKept ==
    ASSUME Basics, NEW n \in Node, Guarded(n),
           clipboard'[n] = clipboard[n], previous'[n] = previous[n],
           suppressed'[n] = suppressed[n], unguarded[n] \subseteq unguarded'[n],
           UNCHANGED clips,
           \A p \in Port : NodeOf[p] = n /\ pc[p] = "readback" =>
               \/ pc'[p] = "readback" /\ held'[p] = held[p]
               \/ Published(n, held[p]) \in unguarded'[n]
    PROVE  Guarded(n)'
<1>1. CASE \E p \in Port : /\ NodeOf[p] = n
                          /\ pc[p] = "readback"
                          /\ Published(n, held[p]) = clipboard[n]
  <2>1. PICK p \in Port : /\ NodeOf[p] = n
                          /\ pc[p] = "readback"
                          /\ Published(n, held[p]) = clipboard[n]
    BY <1>1
  <2>2. CASE pc'[p] = "readback" /\ held'[p] = held[p]
    BY <2>1, <2>2 DEF Guarded, Published
  <2>3. CASE Published(n, held[p]) \in unguarded'[n]
    BY <2>1, <2>3 DEF Guarded
  <2>4. QED
    BY <2>1, <2>2, <2>3
<1>2. CASE \/ previous[n] = clipboard[n]
           \/ suppressed[n][clipboard[n]] > 0
           \/ clipboard[n] \in unguarded[n]
  BY <1>2 DEF Guarded
<1>3. QED
  BY <1>1, <1>2 DEF Guarded

LEMMA GuardedStep ==
    ASSUME Basics, DaemonValueGuarded, [Next]_vars
    PROVE  DaemonValueGuarded'
<1> USE DEF Basics
<1> USE MeshAssumption, HomeOfPort
<1> DEFINE Goal == \A m \in Node : author'[m] = "daemon" => Guarded(m)'
<1>0. \A m \in Node : author[m] = "daemon" => Guarded(m)
  BY GuardedDef
<1>1. ASSUME UNCHANGED <<clipboard, author, previous, suppressed, clips, unguarded, pc, held>>
      PROVE  Goal
  BY <1>0, <1>1 DEF Guarded, Published
<1>2. ASSUME NEW n \in Node, NEW v \in Content, UserCopy(n, v) PROVE Goal
  <2>1. ASSUME NEW m \in Node, author'[m] = "daemon"
        PROVE  author[m] = "daemon" /\ clipboard'[m] = clipboard[m]
    BY <1>2, <2>1 DEF TypeOK, UserCopy, SetClipboard
  <2>2. QED
    BY <1>0, <1>2, <2>1, GuardedKept DEF UserCopy, watcherVars, taskVars, historyVars
<1>3. ASSUME NEW n \in Node, Wake(n) PROVE Goal
  BY <1>0, <1>3, GuardedKept DEF TypeOK, Wake, Task, watcherVars, historyVars
<1>4. ASSUME NEW n \in Node, CaptureNothingNew(n) PROVE Goal
  <2>1. ASSUME NEW m \in Node, m # n, author'[m] = "daemon" PROVE Guarded(m)'
    <3>1. previous'[m] = previous[m] /\ suppressed'[m] = suppressed[m]
      BY <1>4, <2>1 DEF TypeOK, CaptureNothingNew
    <3>2. \A p \in Port : pc'[p] = pc[p]
      BY <1>4 DEF TypeOK, CaptureNothingNew, Task
    <3>3. QED
      BY <1>0, <1>4, <2>1, <3>1, <3>2, GuardedKept DEF CaptureNothingNew, historyVars
  <2>2. previous'[n] = clipboard'[n]
    BY <1>4 DEF TypeOK, CaptureNothingNew
  <2>3. QED
    BY <2>1, <2>2 DEF Guarded
<1>5. ASSUME NEW n \in Node, CaptureNew(n) PROVE Goal
  <2>1. previous'[n] = clipboard'[n]
    BY <1>5 DEF TypeOK, CaptureNew
  <2>2. ASSUME NEW m \in Node, m # n, author'[m] = "daemon" PROVE Guarded(m)'
    <3>1. Guarded(m)
      BY <1>0, <1>5, <2>2 DEF CaptureNew
    <3>2. /\ previous'[m] = previous[m]
          /\ UNCHANGED <<clipboard, suppressed, unguarded>>
          /\ \A p \in Port : pc'[p] = pc[p] /\ held'[p] = held[p]
      BY <1>5, <2>2 DEF TypeOK, CaptureNew, Task, historyVars
    <3>3. ASSUME NEW p \in Port, pc[p] = "readback"
          PROVE  Published(m, held[p])' = Published(m, held[p])
      <4>1. held[p] \in 1 .. Len(clips)
        BY <3>3 DEF TypeOK, TasksInOrder, Busy, Task, NoClip
      <4>2. clips'[held[p]] = clips[held[p]]
        BY <1>5, <4>1 DEF TypeOK, CaptureNew
      <4>3. QED
        BY <3>2, <4>2 DEF Published
    <3>4. QED
      BY <3>1, <3>2, <3>3 DEF Guarded
  <2>3. QED
    BY <2>1, <2>2 DEF Guarded
<1>6. ASSUME NEW t \in Task, Broadcast(t) PROVE Goal
  BY <1>0, <1>6, GuardedKept DEF TypeOK, Broadcast, Task, watcherVars, historyVars
<1>7. ASSUME NEW p \in Port, Receive(p) PROVE Goal
  <2>1. \A q \in Port : pc[q] = "readback" => pc'[q] = "readback" /\ held'[q] = held[q]
    BY <1>7 DEF TypeOK, Receive, Task
  <2>2. QED
    BY <1>0, <1>7, <2>1, GuardedKept DEF Receive, watcherVars, historyVars
<1>8. ASSUME NEW p \in Port, AcquireLock(p) PROVE Goal
  BY <1>0, <1>8, GuardedKept DEF TypeOK, AcquireLock, Task, watcherVars, historyVars
<1>9. ASSUME NEW p \in Port, PublishClip(p) PROVE Goal
  <2>1. ASSUME NEW m \in Node, m # NodeOf[p], author'[m] = "daemon" PROVE Guarded(m)'
    <3>1. author[m] = "daemon" /\ clipboard'[m] = clipboard[m]
      BY <1>9, <2>1 DEF TypeOK, PublishClip, SetClipboard
    <3>2. \A q \in Port : pc[q] = "readback" => pc'[q] = "readback"
      BY <1>9 DEF TypeOK, PublishClip, Task
    <3>3. QED
      BY <1>0, <1>9, <3>1, <3>2, GuardedKept DEF PublishClip, watcherVars
  <2>2. Guarded(NodeOf[p])'
    <3>1. /\ pc'[p] = "readback"
          /\ held'[p] = held[p]
          /\ clips' = clips
          /\ clipboard'[NodeOf[p]] = Published(NodeOf[p], held[p])
      BY <1>9 DEF TypeOK, PublishClip, SetClipboard, Task, watcherVars
    <3>2. QED
      BY <3>1 DEF Guarded, Published
  <2>3. QED
    BY <2>1, <2>2
<1>10. ASSUME NEW p \in Port, Readback(p) PROVE Goal
  <2>1. ASSUME NEW m \in Node, m # NodeOf[p], author'[m] = "daemon" PROVE Guarded(m)'
    <3>1. suppressed'[m] = suppressed[m]
      BY <1>10, <2>1 DEF TypeOK, Readback
    <3>2. \A q \in Port : NodeOf[q] = m => pc'[q] = pc[q] /\ held'[q] = held[q]
      BY <1>10, <2>1 DEF TypeOK, Readback, Rest, Task
    <3>3. QED
      BY <1>0, <1>10, <2>1, <3>1, <3>2, GuardedKept DEF Readback, historyVars
  <2>2. suppressed'[NodeOf[p]][clipboard'[NodeOf[p]]] > 0
    <3>1. clipboard[NodeOf[p]] \in Content
      BY <1>10 DEF Readback, ClipboardFilled
    <3>2. QED
      BY <1>10, <3>1 DEF TypeOK, Readback
  <2>3. QED
    BY <2>1, <2>2 DEF Guarded
<1>11. ASSUME NEW p \in Port, Rest(p), UNCHANGED <<clipboard, author, previous, suppressed, clips>>,
              \/ pc[p] # "readback" /\ UNCHANGED unguarded
              \/ LeaveUnguarded(p, held[p])
       PROVE  Goal
  <2>1. \A m \in Node : unguarded[m] \subseteq unguarded'[m]
    <3>1. CASE UNCHANGED unguarded
      BY <3>1
    <3>2. CASE LeaveUnguarded(p, held[p])
      BY <3>2 DEF TypeOK, LeaveUnguarded
    <3>3. QED
      BY <1>11, <3>1, <3>2
  <2>2. ASSUME NEW q \in Port, pc[q] = "readback"
        PROVE  \/ pc'[q] = "readback" /\ held'[q] = held[q]
               \/ Published(NodeOf[q], held[q]) \in unguarded'[NodeOf[q]]
    <3>1. CASE q = p
      BY <1>11, <2>2, <3>1 DEF TypeOK, LeaveUnguarded
    <3>2. CASE q # p
      BY <1>11, <2>2, <3>2 DEF TypeOK, Rest, Task
    <3>3. QED
      BY <3>1, <3>2
  <2>3. QED
    BY <1>0, <1>11, <2>1, <2>2, GuardedKept
<1>12. ASSUME NEW p \in Port, OrphanPublishes(p) PROVE Goal
  <2>1. ASSUME NEW m \in Node, m # NodeOf[p], author'[m] = "daemon" PROVE Guarded(m)'
    <3>1. author[m] = "daemon" /\ clipboard'[m] = clipboard[m]
      BY <1>12, <2>1 DEF TypeOK, OrphanPublishes, SetClipboard
    <3>2. unguarded'[m] = unguarded[m]
      BY <1>12, <2>1 DEF TypeOK, OrphanPublishes, LeaveUnguarded
    <3>3. QED
      BY <1>0, <1>12, <3>1, <3>2, GuardedKept DEF OrphanPublishes, watcherVars, taskVars
  <2>2. clipboard'[NodeOf[p]] \in unguarded'[NodeOf[p]]
    BY <1>12 DEF TypeOK, OrphanPublishes, SetClipboard, LeaveUnguarded
  <2>3. QED
    BY <2>1, <2>2 DEF Guarded
<1>13. Goal
  <2>1. ASSUME NEW n \in Node, WatcherDone(n) PROVE Goal
    <3>1. \A q \in Port : pc'[q] = pc[q] /\ held'[q] = held[q]
      BY <2>1 DEF TypeOK, WatcherDone, Rest, Task
    <3>2. QED
      BY <1>0, <2>1, <3>1, GuardedKept DEF WatcherDone, watcherVars, historyVars
  <2>2. ASSUME NEW p \in Port, ApplyFails(p) PROVE Goal
    BY <1>11, <2>2 DEF ApplyFails, watcherVars, historyVars
  <2>3. ASSUME NEW p \in Port, ReadbackFails(p) PROVE Goal
    BY <1>11, <2>3 DEF ReadbackFails, watcherVars
  <2>4. ASSUME NEW p \in Port, WriteFails(p) PROVE Goal
    BY <1>11, <2>4 DEF WriteFails, watcherVars
  <2>5. ASSUME NEW p \in Port,
               Send(p) \/ LinkBreaks(p) \/ ReadEnds(p) \/ Dial(p) \/ Establish(p)
        PROVE  Goal
    BY <1>1, <2>5
    DEF Send, LinkBreaks, ReadEnds, Dial, Establish, watcherVars, taskVars, historyVars
  <2>6. ASSUME NEW t \in Task, NEW q \in Port, Offer(t, q) PROVE Goal
    BY <1>1, <2>6 DEF Offer, watcherVars, historyVars
  <2>7. CASE UNCHANGED vars
    BY <1>1, <2>7 DEF vars, watcherVars, taskVars, historyVars
  <2> HIDE DEF Goal
  <2>8. QED
    BY <1>2, <1>3, <1>4, <1>5, <1>6, <1>7, <1>8, <1>9, <1>10, <1>12, <2>1, <2>2, <2>3, <2>4,
       <2>5, <2>6, <2>7
    DEF Next, Watcher, Spread, Handling, Failing, Connection
<1>14. QED
  BY <1>13 DEF DaemonValueGuarded, Guarded

LEMMA EchoStep ==
    ASSUME Basics, DaemonValueGuarded, EchoOnlyUnguarded, [Next]_vars
    PROVE  EchoOnlyUnguarded'
<1> USE DEF Basics
<1> USE MeshAssumption
<1>1. ASSUME UNCHANGED clips, \A n \in Node : unguarded[n] \subseteq unguarded'[n]
      PROVE  EchoOnlyUnguarded'
  BY <1>1, ClipType DEF EchoOnlyUnguarded
<1>2. ASSUME NEW n \in Node, CaptureNew(n) PROVE EchoOnlyUnguarded'
  <2>1. ASSUME author[n] = "daemon" PROVE clipboard[n] \in unguarded[n]
    <3>1. \A p \in Port : NodeOf[p] = n => pc[p] # "readback"
      BY <1>2 DEF TasksInOrder, CaptureNew, Free
    <3>2. QED
      BY <1>2, <2>1, <3>1 DEF DaemonValueGuarded, CaptureNew
  <2>2. /\ Len(clips') = Len(clips) + 1
        /\ \A i \in 1 .. Len(clips) : clips'[i] = clips[i]
        /\ clips'[Len(clips) + 1] = [origin |-> n, content |-> clipboard[n],
                                     author |-> author[n]]
    BY <1>2 DEF TypeOK, CaptureNew
  <2>3. unguarded' = unguarded
    BY <1>2 DEF CaptureNew, historyVars
  <2>4. ASSUME NEW i \in 1 .. Len(clips'), clips'[i].author = "daemon"
        PROVE  clips'[i].content \in unguarded'[clips'[i].origin]
    <3>1. CASE i \in 1 .. Len(clips)
      BY <2>2, <2>3, <2>4, <3>1 DEF EchoOnlyUnguarded
    <3>2. CASE i = Len(clips) + 1
      <4>1. /\ clips'[i].origin = n
            /\ clips'[i].content = clipboard[n]
            /\ clips'[i].author = author[n]
        BY <2>2, <3>2
      <4>2. clipboard[n] \in unguarded[n]
        BY <2>1, <2>4, <4>1
      <4>3. QED
        BY <2>3, <4>1, <4>2
    <3>3. i \in 1 .. Len(clips) \/ i = Len(clips) + 1
      <4>1. Len(clips) \in Nat /\ i \in 1 .. Len(clips) + 1
        BY <2>2 DEF TypeOK
      <4>2. QED
        BY <4>1
    <3>4. QED
      BY <3>1, <3>2, <3>3
  <2>5. QED
    BY <2>4 DEF EchoOnlyUnguarded
<1>3. ASSUME NEW p \in Port, NEW c, LeaveUnguarded(p, c)
      PROVE  \A n \in Node : unguarded[n] \subseteq unguarded'[n]
  BY <1>3 DEF TypeOK, LeaveUnguarded
<1>4. ASSUME NEW p \in Port, WriteFails(p)
      PROVE  \A n \in Node : unguarded[n] \subseteq unguarded'[n]
  BY <1>3, <1>4 DEF WriteFails
<1>5. QED
  BY <1>1, <1>2, <1>3, <1>4
  DEF Next, Watcher, Spread, Handling, Failing, Connection, UserCopy, Wake, CaptureNothingNew,
      WatcherDone, Broadcast, Offer, Send, Receive, AcquireLock, ApplyFails, PublishClip,
      Readback, ReadbackFails, LinkBreaks, ReadEnds, WriteFails, OrphanPublishes, Dial,
      Establish, vars, watcherVars, historyVars

\* A clip that only sends back what the daemon published stems from a handler
\* that failed or was cancelled before it recorded the suppression, in every
\* mesh and under every interleaving and fault.
THEOREM NoEchoByInterleaving == Spec => []EchoOnlyUnguarded
<1>1. Init => EchoInv
  BY InitBasics DEF EchoInv, Init, DaemonValueGuarded, EchoOnlyUnguarded
<1>2. EchoInv /\ [Next]_vars => EchoInv'
  BY BasicsStep, GuardedStep, EchoStep DEF EchoInv
<1>3. EchoInv => EchoOnlyUnguarded
  BY DEF EchoInv
<1>4. QED
  BY <1>1, <1>2, <1>3, PTL DEF Spec

-----------------------------------------------------------------------------
(* Clips published at most once on every node.                             *)

AppliedInv == Basics /\ ClaimsDistinct /\ AppliedOnce

\* Handler and orphan of one port never claim the same clip.
OrphanApart(p) == pc[p] \in {"broadcast", "offer", "publish"} => orphan[p] # held[p]

LEMMA ClaimsType ==
    ASSUME TypeOK, ClaimsDistinct
    PROVE  /\ \A p \in Port : \A c \in Claimed(p) : c \in 1 .. Len(clips)
           /\ \A n \in Node : \A i \in 1 .. Len(applied[n]) : applied[n][i] \in 1 .. Len(clips)
<1>1. \A n \in Node : seen[n] \subseteq 1 .. Len(clips)
  BY DEF TypeOK
<1>2. QED
  BY <1>1, MeshAssumption DEF ClaimsDistinct

\* Nothing new is claimed, seen, minted or published.
LEMMA ClaimsKept ==
    ASSUME ClaimsDistinct, AppliedOnce, UNCHANGED <<seen, applied, clips>>,
           \A p \in Port : Claimed(p)' \subseteq Claimed(p),
           \A p \in Port : OrphanApart(p)'
    PROVE  ClaimsDistinct' /\ AppliedOnce'
<1>1. AppliedOnce'
  BY DEF AppliedOnce
<1> HIDE DEF AppliedOnce
<1>2. ASSUME NEW p \in Port, NEW c \in Claimed(p)'
      PROVE  /\ c \in seen'[NodeOf[p]]
             /\ clips'[c].origin # NodeOf[p]
             /\ \A i \in 1 .. Len(applied'[NodeOf[p]]) : applied'[NodeOf[p]][i] # c
             /\ \A q \in Port : NodeOf[q] = NodeOf[p] /\ q # p => c \notin Claimed(q)'
  BY <1>2 DEF ClaimsDistinct
<1>3. QED
  BY <1>1, <1>2 DEF ClaimsDistinct, OrphanApart

\* A clip is published by the one port that claims it, which claims it no more.
LEMMA ClaimPublished ==
    ASSUME TypeOK, ClaimsDistinct, AppliedOnce, NEW p \in Port, NEW c \in Claimed(p),
           UNCHANGED <<seen, clips>>,
           applied' = [applied EXCEPT ![NodeOf[p]] = Append(@, c)],
           Claimed(p)' \subseteq Claimed(p) \ {c},
           \A q \in Port : Claimed(q)' \subseteq Claimed(q),
           \A q \in Port : OrphanApart(q)'
    PROVE  ClaimsDistinct' /\ AppliedOnce'
<1> DEFINE n == NodeOf[p]
           len == Len(applied[n])
<1>1. n \in Node
  BY MeshAssumption
<1>2. /\ c \in seen[n]
      /\ clips[c].origin # n
      /\ \A i \in 1 .. len : applied[n][i] # c
      /\ \A q \in Port : NodeOf[q] = n /\ q # p => c \notin Claimed(q)
  BY DEF ClaimsDistinct
<1>3. /\ applied[n] \in Seq(1 .. Len(clips))
      /\ c \in 1 .. Len(clips)
  BY <1>1, ClaimsType DEF TypeOK
<1>4. /\ len \in Nat
      /\ Len(applied'[n]) = len + 1
      /\ \A i \in 1 .. len : applied'[n][i] = applied[n][i]
      /\ applied'[n][len + 1] = c
  BY <1>1, <1>3 DEF TypeOK
<1>5. \A m \in Node : m # n => applied'[m] = applied[m]
  BY DEF TypeOK
<1> HIDE DEF len
<1>6. \A i \in 1 .. Len(applied'[n]) : i \in 1 .. len \/ i = len + 1
  BY <1>4
<1>7. AppliedOnce'
  <2>1. ASSUME NEW m \in Node
        PROVE  /\ \A i, j \in 1 .. Len(applied'[m]) : applied'[m][i] = applied'[m][j] => i = j
               /\ \A i \in 1 .. Len(applied'[m]) : clips'[applied'[m][i]].origin # m
    <3>1. CASE m # n
      BY <1>5, <3>1 DEF AppliedOnce
    <3>2. CASE m = n
      <4>1. \A i \in 1 .. Len(applied'[n]) : clips'[applied'[n][i]].origin # n
        BY <1>1, <1>2, <1>4, <1>6 DEF AppliedOnce, len
      <4>2. ASSUME NEW i \in 1 .. Len(applied'[n]), NEW j \in 1 .. Len(applied'[n]),
                   applied'[n][i] = applied'[n][j]
            PROVE  i = j
        <5>1. CASE i \in 1 .. len /\ j \in 1 .. len
          BY <1>1, <1>4, <4>2, <5>1 DEF AppliedOnce, len
        <5>2. QED
          BY <1>2, <1>4, <1>6, <4>2, <5>1
      <4>3. QED
        BY <3>2, <4>1, <4>2
    <3>3. QED
      BY <3>1, <3>2
  <2>2. QED
    BY <2>1 DEF AppliedOnce
<1>8. ClaimsDistinct'
  <2>1. ASSUME NEW m \in Node, NEW i \in 1 .. Len(applied'[m])
        PROVE  applied'[m][i] \in seen'[m]
    <3>1. CASE m # n
      BY <1>5, <2>1, <3>1 DEF ClaimsDistinct
    <3>2. CASE m = n
      BY <1>2, <1>4, <1>6, <2>1, <3>2 DEF ClaimsDistinct, len
    <3>3. QED
      BY <3>1, <3>2
  <2>2. ASSUME NEW q \in Port, NEW d \in Claimed(q)'
        PROVE  /\ d \in seen'[NodeOf[q]]
               /\ clips'[d].origin # NodeOf[q]
               /\ \A i \in 1 .. Len(applied'[NodeOf[q]]) : applied'[NodeOf[q]][i] # d
               /\ \A r \in Port : NodeOf[r] = NodeOf[q] /\ r # q => d \notin Claimed(r)'
    <3>1. d \in Claimed(q) /\ (q = p => d # c)
      BY <2>2
    <3>2. NodeOf[q] \in Node
      BY MeshAssumption
    <3>3. NodeOf[q] = n => d # c
      BY <1>2, <3>1
    <3>4. /\ d \in seen[NodeOf[q]]
          /\ clips[d].origin # NodeOf[q]
          /\ \A i \in 1 .. Len(applied[NodeOf[q]]) : applied[NodeOf[q]][i] # d
          /\ \A r \in Port : NodeOf[r] = NodeOf[q] /\ r # q => d \notin Claimed(r)
      BY <3>1 DEF ClaimsDistinct
    <3>5. \A i \in 1 .. Len(applied'[NodeOf[q]]) : applied'[NodeOf[q]][i] # d
      <4>1. CASE NodeOf[q] # n
        BY <1>5, <3>2, <3>4, <4>1
      <4>2. CASE NodeOf[q] = n
        BY <1>4, <1>6, <3>3, <3>4, <4>2 DEF len
      <4>3. QED
        BY <4>1, <4>2
    <3>6. QED
      BY <3>4, <3>5
  <2>3. QED
    BY <2>1, <2>2 DEF ClaimsDistinct, OrphanApart
<1>9. QED
  BY <1>7, <1>8

\* Which steps leave every claim as it is, or end one.
LEMMA ClaimedSame ==
    ASSUME NEW p \in Port, pc'[p] = pc[p], held'[p] = held[p], orphan'[p] = orphan[p],
           OrphanApart(p)
    PROVE  Claimed(p)' = Claimed(p) /\ OrphanApart(p)'
BY DEF Claimed, OrphanApart

LEMMA ClaimsOfRest ==
    ASSUME TypeOK, NEW t \in Task, Rest(t), NEW p \in Port, OrphanApart(p), orphan'[p] = orphan[p]
    PROVE  Claimed(p)' \subseteq Claimed(p) /\ OrphanApart(p)'
BY DEF TypeOK, Rest, Task, Claimed, OrphanApart

LEMMA CapturedClaims ==
    ASSUME Basics, ClaimsDistinct, AppliedOnce, NEW n \in Node, CaptureNew(n)
    PROVE  ClaimsDistinct' /\ AppliedOnce'
<1> USE DEF Basics
<1> USE MeshAssumption
<1>1. /\ Len(clips') = Len(clips) + 1
      /\ \A i \in 1 .. Len(clips) : clips'[i] = clips[i]
      /\ clips'[Len(clips) + 1].origin = n
      /\ Len(clips) \in Nat
  BY DEF TypeOK, CaptureNew
<1>2. /\ seen'[n] = seen[n] \cup {Len(clips) + 1}
      /\ \A m \in Node : m # n => seen'[m] = seen[m]
      /\ applied' = applied
  BY DEF TypeOK, CaptureNew, historyVars
<1>3. \A p \in Port : Claimed(p)' = Claimed(p) /\ OrphanApart(p)'
  <2>1. \A p \in Port : pc'[p] = pc[p] /\ held'[p] = held[p] /\ orphan'[p] = orphan[p]
    BY DEF TypeOK, CaptureNew, Task
  <2>2. QED
    BY <2>1, ClaimedSame DEF ClaimsDistinct, OrphanApart
<1>4. AppliedOnce'
  <2>1. \A m \in Node : \A i \in 1 .. Len(applied[m]) :
          clips'[applied[m][i]].origin = clips[applied[m][i]].origin
    BY <1>1, ClaimsType
  <2>2. QED
    BY <1>2, <2>1 DEF AppliedOnce
<1>5. ASSUME NEW m \in Node, NEW c \in 1 .. Len(clips'), clips'[c].origin = m
      PROVE  c \in seen'[m]
  <2>1. CASE c = Len(clips) + 1
    BY <1>1, <1>2, <1>5, <2>1
  <2>2. CASE c \in 1 .. Len(clips)
    BY <1>1, <1>2, <1>5, <2>2 DEF ClaimsDistinct
  <2>3. QED
    BY <1>1, <2>1, <2>2
<1>6. \A m \in Node : seen[m] \subseteq seen'[m]
  BY <1>2
<1>7. ASSUME NEW p \in Port, NEW c \in Claimed(p)'
      PROVE  /\ c \in seen'[NodeOf[p]]
             /\ clips'[c].origin # NodeOf[p]
             /\ \A i \in 1 .. Len(applied'[NodeOf[p]]) : applied'[NodeOf[p]][i] # c
             /\ \A q \in Port : NodeOf[q] = NodeOf[p] /\ q # p => c \notin Claimed(q)'
  <2>1. c \in Claimed(p)
    BY <1>3, <1>7
  <2>2. clips'[c].origin = clips[c].origin
    BY <1>1, <2>1, ClaimsType
  <2>3. QED
    BY <1>2, <1>3, <1>6, <2>1, <2>2 DEF ClaimsDistinct
<1>8. \A m \in Node : \A i \in 1 .. Len(applied'[m]) : applied'[m][i] \in seen'[m]
  BY <1>2, <1>6 DEF ClaimsDistinct
<1>9. QED
  BY <1>3, <1>4, <1>5, <1>7, <1>8 DEF ClaimsDistinct, OrphanApart

LEMMA ReceivedClaims ==
    ASSUME Basics, ClaimsDistinct, AppliedOnce, NEW p \in Port, Receive(p)
    PROVE  ClaimsDistinct' /\ AppliedOnce'
<1> USE DEF Basics
<1> USE MeshAssumption
<1> DEFINE c == Head(wire[p])
           n == NodeOf[p]
<1>1. UNCHANGED <<applied, clips, orphan>>
  BY DEF Receive, watcherVars, historyVars
<1>2. CASE UNCHANGED <<seen, pc, held>>
  BY <1>1, <1>2, ClaimsKept, ClaimedSame DEF ClaimsDistinct, OrphanApart
<1>3. CASE /\ c \notin seen[n]
           /\ seen' = [seen EXCEPT ![n] = @ \cup {c}]
           /\ pc' = [pc EXCEPT ![p] = "broadcast"]
           /\ held' = [held EXCEPT ![p] = c]
  <2>1. c \in 1 .. Len(clips) /\ n \in Node
    <3>1. wire[p] \in Seq(1 .. Len(clips)) /\ wire[p] # <<>>
      BY DEF TypeOK, Receive
    <3>2. QED
      BY <3>1
  <2>2. /\ clips[c].origin # n
        /\ \A i \in 1 .. Len(applied[n]) : applied[n][i] # c
        /\ \A q \in Port : NodeOf[q] = n => c \notin Claimed(q)
    BY <1>3, <2>1 DEF ClaimsDistinct
  <2>3. /\ \A q \in Port : q # p => Claimed(q)' = Claimed(q) /\ OrphanApart(q)'
        /\ Claimed(p)' \subseteq Claimed(p) \cup {c}
        /\ OrphanApart(p)'
    <3>1. \A q \in Port : q # p => pc'[q] = pc[q] /\ held'[q] = held[q]
      BY <1>3 DEF TypeOK, Task
    <3>2. pc'[p] = "broadcast" /\ held'[p] = c
      BY <1>3 DEF TypeOK, Task
    <3>3. orphan[p] # NoClip => orphan[p] \in Claimed(p)
      BY DEF Claimed
    <3>4. orphan[p] # c
      BY <2>1, <2>2, <3>3 DEF NoClip
    <3>5. QED
      BY <1>1, <3>1, <3>2, <3>4, ClaimedSame DEF ClaimsDistinct, OrphanApart, Claimed
  <2>4. /\ \A m \in Node : seen[m] \subseteq seen'[m]
        /\ c \in seen'[n]
    BY <1>3, <2>1 DEF TypeOK
  <2>5. ASSUME NEW q \in Port, NEW d \in Claimed(q)'
        PROVE  /\ d \in seen'[NodeOf[q]]
               /\ clips'[d].origin # NodeOf[q]
               /\ \A i \in 1 .. Len(applied'[NodeOf[q]]) : applied'[NodeOf[q]][i] # d
               /\ \A r \in Port : NodeOf[r] = NodeOf[q] /\ r # q => d \notin Claimed(r)'
    <3>1. CASE d \in Claimed(q)
      <4>1. NodeOf[q] = n => d # c
        BY <2>2, <3>1
      <4>2. QED
        BY <1>1, <2>3, <2>4, <3>1, <4>1 DEF ClaimsDistinct
    <3>2. CASE q = p /\ d = c
      BY <1>1, <2>2, <2>3, <2>4, <3>2
    <3>3. QED
      BY <2>3, <3>1, <3>2
  <2>6. AppliedOnce'
    BY <1>1 DEF AppliedOnce
  <2>7. QED
    BY <1>1, <2>3, <2>4, <2>5, <2>6 DEF ClaimsDistinct, OrphanApart
<1>4. QED
  BY <1>2, <1>3 DEF Receive

LEMMA ClaimsStep ==
    ASSUME Basics, ClaimsDistinct, AppliedOnce, [Next]_vars
    PROVE  ClaimsDistinct' /\ AppliedOnce'
<1> USE DEF Basics
<1> USE MeshAssumption
<1> DEFINE Goal == ClaimsDistinct' /\ AppliedOnce'
<1>1. \A p \in Port : OrphanApart(p)
  BY DEF ClaimsDistinct, OrphanApart
<1>2. ASSUME UNCHANGED <<seen, applied, clips>>,
             \A p \in Port : pc'[p] = pc[p] /\ held'[p] = held[p] /\ orphan'[p] = orphan[p]
      PROVE  Goal
  BY <1>1, <1>2, ClaimedSame, ClaimsKept
<1>3. ASSUME NEW t \in Task, Rest(t), UNCHANGED <<seen, applied, clips, orphan>> PROVE Goal
  BY <1>1, <1>3, ClaimsOfRest, ClaimsKept
<1>4. ASSUME NEW n \in Node, Wake(n) \/ CaptureNothingNew(n) PROVE Goal
  <2>1. \A p \in Port : pc'[p] = pc[p]
    BY <1>4 DEF TypeOK, Wake, CaptureNothingNew, Task
  <2>2. QED
    BY <1>2, <1>4, <2>1 DEF Wake, CaptureNothingNew, watcherVars, historyVars
<1>5. ASSUME NEW n \in Node, CaptureNew(n) PROVE Goal
  BY <1>5, CapturedClaims
<1>6. ASSUME NEW t \in Task, Broadcast(t) PROVE Goal
  <2>1. \A p \in Port : Claimed(p)' = Claimed(p) /\ OrphanApart(p)'
    BY <1>1, <1>6 DEF TypeOK, Broadcast, Claimed, OrphanApart, Task
  <2>2. QED
    BY <1>6, <2>1, ClaimsKept DEF Broadcast, watcherVars, historyVars
<1>7. ASSUME NEW p \in Port, Receive(p) PROVE Goal
  BY <1>7, ReceivedClaims
<1>8. ASSUME NEW p \in Port, AcquireLock(p) PROVE Goal
  <2>1. \A q \in Port : Claimed(q)' = Claimed(q) /\ OrphanApart(q)'
    BY <1>1, <1>8 DEF TypeOK, AcquireLock, Claimed, OrphanApart, Task
  <2>2. QED
    BY <1>8, <2>1, ClaimsKept DEF AcquireLock, watcherVars, historyVars
<1>9. ASSUME NEW p \in Port, PublishClip(p) PROVE Goal
  <2>1. held[p] \in Claimed(p)
    BY <1>9 DEF PublishClip, Claimed
  <2>2. Claimed(p)' \subseteq Claimed(p) \ {held[p]}
    BY <1>1, <1>9 DEF TypeOK, PublishClip, Claimed, OrphanApart, Task
  <2>3. \A q \in Port : Claimed(q)' \subseteq Claimed(q) /\ OrphanApart(q)'
    BY <1>1, <1>9 DEF TypeOK, PublishClip, Claimed, OrphanApart, Task
  <2>4. QED
    BY <1>9, <2>1, <2>2, <2>3, ClaimPublished DEF PublishClip, watcherVars
<1>10. ASSUME NEW p \in Port, WriteFails(p) PROVE Goal
  <2>1. ASSUME NEW q \in Port PROVE Claimed(q)' \subseteq Claimed(q) /\ OrphanApart(q)'
    <3>1. CASE orphan'[q] = orphan[q]
      BY <1>1, <1>10, <3>1, ClaimsOfRest DEF WriteFails, Task
    <3>2. CASE q = p /\ pc[p] = "publish" /\ orphan'[p] = held[p]
      BY <1>10, <3>2 DEF TypeOK, WriteFails, Rest, Claimed, OrphanApart, Task
    <3>3. QED
      BY <1>10, <3>1, <3>2 DEF TypeOK, WriteFails
  <2>2. QED
    BY <1>10, <2>1, ClaimsKept DEF WriteFails, watcherVars
<1>11. ASSUME NEW p \in Port, OrphanPublishes(p) PROVE Goal
  <2>1. orphan[p] \in Claimed(p)
    BY <1>11 DEF OrphanPublishes, Claimed
  <2>2. /\ Claimed(p)' \subseteq Claimed(p) \ {orphan[p]}
        /\ OrphanApart(p)'
    <3>1. pc'[p] = pc[p] /\ held'[p] = held[p] /\ orphan'[p] = NoClip
      BY <1>11 DEF TypeOK, OrphanPublishes, taskVars
    <3>2. pc[p] \in Busy => held[p] # NoClip
      BY DEF TasksInOrder, Task
    <3>3. QED
      BY <1>1, <3>1, <3>2 DEF Claimed, OrphanApart, Busy
  <2>3. \A q \in Port : q # p => Claimed(q)' = Claimed(q) /\ OrphanApart(q)'
    BY <1>1, <1>11, ClaimedSame DEF TypeOK, OrphanPublishes, taskVars
  <2>4. QED
    BY <1>11, <2>1, <2>2, <2>3, ClaimPublished DEF OrphanPublishes, watcherVars
<1>12. ASSUME NEW n \in Node, WatcherDone(n) PROVE Goal
  BY <1>3, <1>12 DEF WatcherDone, watcherVars, historyVars, Task
<1>13. ASSUME NEW p \in Port, ApplyFails(p) \/ Readback(p) \/ ReadbackFails(p) PROVE Goal
  BY <1>3, <1>13 DEF ApplyFails, Readback, ReadbackFails, watcherVars, historyVars, Task
<1>14. ASSUME NEW p \in Port,
              Send(p) \/ LinkBreaks(p) \/ ReadEnds(p) \/ Dial(p) \/ Establish(p)
       PROVE  Goal
  BY <1>2, <1>14
  DEF Send, LinkBreaks, ReadEnds, Dial, Establish, watcherVars, taskVars, historyVars
<1>15. ASSUME NEW t \in Task, NEW q \in Port, Offer(t, q) PROVE Goal
  BY <1>2, <1>15 DEF Offer, watcherVars, historyVars
<1>16. ASSUME NEW n \in Node, NEW v \in Content, UserCopy(n, v) PROVE Goal
  BY <1>2, <1>16 DEF UserCopy, watcherVars, taskVars, historyVars
<1>17. ASSUME UNCHANGED vars PROVE Goal
  BY <1>2, <1>17 DEF vars, watcherVars, taskVars, historyVars
<1> HIDE DEF Goal
<1>18. Goal
  BY <1>4, <1>5, <1>6, <1>7, <1>8, <1>9, <1>10, <1>11, <1>12, <1>13, <1>14, <1>15, <1>16, <1>17
  DEF Next, Watcher, Spread, Handling, Failing, Connection
<1>19. QED
  BY <1>18 DEF Goal

\* Whatever cycles the mesh has and whatever fails, no daemon publishes a clip
\* twice, nor one that was copied on its own machine.
THEOREM CirculationEnds == Spec => []AppliedOnce
<1>1. Init => AppliedInv
  <2>1. Init => ClaimsDistinct /\ AppliedOnce
    BY MeshAssumption DEF Init, ClaimsDistinct, AppliedOnce, Claimed, Task
  <2>2. QED
    BY <2>1, InitBasics DEF AppliedInv
<1>2. AppliedInv /\ [Next]_vars => AppliedInv'
  BY BasicsStep, ClaimsStep DEF AppliedInv
<1>3. AppliedInv => AppliedOnce
  BY DEF AppliedInv
<1>4. QED
  BY <1>1, <1>2, <1>3, PTL DEF Spec

-----------------------------------------------------------------------------
(* The watcher misses nothing.                                             *)

LEMMA QuietStep ==
    ASSUME Basics, QuietWatcherIsCurrent, [Next]_vars
    PROVE  QuietWatcherIsCurrent'
<1> USE DEF Basics
<1> USE MeshAssumption
<1>1. ASSUME UNCHANGED <<clipboard, changed, previous>>,
             \A n \in Node : pc[n] = "capture" => pc'[n] = "capture"
      PROVE  QuietWatcherIsCurrent'
  BY <1>1 DEF QuietWatcherIsCurrent
<1>2. ASSUME NEW n \in Node, NEW v, NEW who, SetClipboard(n, v, who), UNCHANGED previous,
             \A m \in Node : pc[m] = "capture" => pc'[m] = "capture"
      PROVE  QuietWatcherIsCurrent'
  BY <1>2 DEF TypeOK, QuietWatcherIsCurrent, SetClipboard
<1>3. ASSUME NEW n \in Node, Wake(n) PROVE QuietWatcherIsCurrent'
  BY <1>3 DEF TypeOK, QuietWatcherIsCurrent, Wake, Task, watcherVars
<1>4. ASSUME NEW n \in Node, CaptureNothingNew(n) \/ CaptureNew(n)
      PROVE  QuietWatcherIsCurrent'
  <2>1. previous'[n] = clipboard'[n]
    BY <1>4 DEF TypeOK, CaptureNothingNew, CaptureNew
  <2>2. ASSUME NEW m \in Node, m # n
        PROVE  pc'[m] # "capture" /\ ~changed'[m] => previous'[m] = clipboard'[m]
    <3>1. /\ pc'[m] = pc[m] /\ previous'[m] = previous[m]
          /\ UNCHANGED <<clipboard, changed>>
      BY <1>4, <2>2 DEF TypeOK, CaptureNothingNew, CaptureNew, Task
    <3>2. QED
      BY <3>1 DEF QuietWatcherIsCurrent
  <2>3. QED
    BY <2>1, <2>2 DEF QuietWatcherIsCurrent
<1>5. ASSUME NEW p \in Port, PublishClip(p) PROVE QuietWatcherIsCurrent'
  BY <1>2, <1>5 DEF TypeOK, PublishClip, Task, watcherVars
<1>6. ASSUME NEW p \in Port, OrphanPublishes(p) PROVE QuietWatcherIsCurrent'
  BY <1>2, <1>6 DEF OrphanPublishes, watcherVars, taskVars
<1>7. ASSUME NEW n \in Node, NEW v \in Content, UserCopy(n, v) PROVE QuietWatcherIsCurrent'
  BY <1>2, <1>7 DEF UserCopy, watcherVars, taskVars
<1>8. ASSUME NEW t \in Task, Broadcast(t) PROVE QuietWatcherIsCurrent'
  BY <1>1, <1>8 DEF TypeOK, Broadcast, Task, watcherVars
<1>9. ASSUME NEW n \in Node, WatcherDone(n) PROVE QuietWatcherIsCurrent'
  BY <1>1, <1>9 DEF TypeOK, WatcherDone, Rest, Task, watcherVars
<1>10. ASSUME NEW p \in Port, Rest(p), UNCHANGED <<clipboard, changed, previous>>
       PROVE  QuietWatcherIsCurrent'
  BY <1>1, <1>10 DEF TypeOK, Rest, Task
<1>11. ASSUME NEW p \in Port, Receive(p) \/ AcquireLock(p) PROVE QuietWatcherIsCurrent'
  BY <1>1, <1>11 DEF TypeOK, Receive, AcquireLock, Task, watcherVars
<1>12. CASE UNCHANGED <<clipboard, changed, previous, pc>>
  BY <1>1, <1>12
<1>13. QED
  BY <1>3, <1>4, <1>5, <1>6, <1>7, <1>8, <1>9, <1>10, <1>11, <1>12
  DEF Next, Watcher, Spread, Handling, Failing, Connection, Offer, Send, LinkBreaks, ReadEnds,
      Dial, Establish, ApplyFails, Readback, ReadbackFails, WriteFails, vars, watcherVars,
      taskVars

\* A watcher with nothing to do knows what its clipboard holds, however user,
\* handlers and orphans interleave.
THEOREM WatcherMissesNothing == Spec => []QuietWatcherIsCurrent
<1>1. Init => Basics /\ QuietWatcherIsCurrent
  BY InitBasics DEF Init, QuietWatcherIsCurrent
<1>2. Basics /\ QuietWatcherIsCurrent /\ [Next]_vars => (Basics /\ QuietWatcherIsCurrent)'
  BY BasicsStep, QuietStep
<1>3. QED
  BY <1>1, <1>2, PTL DEF Spec

-----------------------------------------------------------------------------
(* One machine copies, the others follow: ClipMesh implements NewestClip.  *)

\* Machine a copies and no other, at worst a publication fails, and the connections
\* lead away from a: every other machine n has one, up[n], on which clips come in,
\* and every connection is such a one for the machine at one of its ends.  Any mesh
\* without cycles has such a function.
Follows(a, up) ==
    /\ a \in Node /\ Copiers = {a} /\ Faults \subseteq {"apply"}
    /\ up \in [Node \ {a} -> Port]
    /\ \A n \in Node \ {a} : NodeOf[up[n]] = n
    /\ \A p \in Port : \/ NodeOf[p] # a /\ p = up[NodeOf[p]]
                       \/ NodeOf[PeerOf[p]] # a /\ PeerOf[p] = up[NodeOf[PeerOf[p]]]

Far(q) == NodeOf[PeerOf[q]]

\* Clips leave by port q.
Down(a, up, q) == Far(q) # a /\ PeerOf[q] = up[Far(q)]

\* Task t may have clips in hand: the watcher of a, the handlers that follow it.
Carries(a, up, t) == t = a \/ (t \in Port /\ NodeOf[t] # a /\ t = up[NodeOf[t]])

NothingBroken ==
    \A p \in Port : orphan[p] = NoClip /\ link[p] = "up" /\ unguarded[NodeOf[p]] = {}

\* The watchers of the others have nothing to send before something is applied.
FollowersPaste(a) == \A n \in Node \ {a} : author[n] = "user" => clipboard[n] = previous[n]

\* A clip is minted for a copy that is not yet counted.
CopiesMinted(a) ==
    /\ Len(clips) <= copies
    /\ clipboard[a] # previous[a] => Len(clips) < copies

\* A task at work has the newest clip that its machine has seen.
TasksAtHead(a, up) ==
    \A t \in Task :
        /\ pc[t] \in Busy =>
             /\ Carries(a, up, t)
             /\ held[t] \in seen[HomeOf(t)]
             /\ \A c \in seen[HomeOf(t)] : c <= held[t]
        /\ pc[t] # "offer" => todo[t] = {}
        /\ \A q \in todo[t] : NodeOf[q] = HomeOf(t) /\ q # t

ShownInOrder ==
    \A p \in Port :
        LET s == applied[NodeOf[p]] IN
        /\ \A i \in 1 .. Len(s) : s[i] \in seen[NodeOf[p]]
        /\ pc[p] \in {"broadcast", "offer", "publish"} => \A i \in 1 .. Len(s) : s[i] < held[p]

\* Ports that a broadcast of t has still to reach.
Pending(t) ==
    IF pc[t] = "broadcast" THEN {q \in Port : NodeOf[q] = HomeOf(t) /\ q # t} ELSE todo[t]

\* Clip c is newer than what the machine behind port q has seen and what is on its way.
Newer(q, c) ==
    /\ \A d \in seen[Far(q)] : d < c
    /\ \A i \in 1 .. Len(wire[PeerOf[q]]) : wire[PeerOf[q]][i] < c

\* What goes through q is ever newer, and has been seen where it comes from.
Stream(q) ==
    /\ seen[Far(q)] \subseteq seen[NodeOf[q]]
    /\ \A i \in 1 .. Len(wire[PeerOf[q]]) :
          /\ wire[PeerOf[q]][i] \in seen[NodeOf[q]]
          /\ \A d \in seen[Far(q)] : d < wire[PeerOf[q]][i]
          /\ \A j \in 1 .. Len(wire[PeerOf[q]]) :
                j < i => wire[PeerOf[q]][j] < wire[PeerOf[q]][i]
    /\ slot[q] # NoClip => slot[q] \in seen[NodeOf[q]] /\ Newer(q, slot[q])
    /\ \A t \in Task : HomeOf(t) = NodeOf[q] /\ q \in Pending(t) =>
          /\ Newer(q, held[t])
          /\ slot[q] # NoClip => slot[q] < held[t]

StreamsInOrder(a, up) ==
    \A q \in Port :
        IF Down(a, up, q) THEN Stream(q) ELSE slot[q] = NoClip /\ wire[PeerOf[q]] = <<>>

FlowInv(a, up) ==
    /\ EchoInv
    /\ NothingBroken /\ FollowersPaste(a) /\ CopiesMinted(a)
    /\ TasksAtHead(a, up) /\ ShownInOrder /\ StreamsInOrder(a, up)

LEMMA FlowInit ==
    ASSUME NEW a, NEW up, Follows(a, up), Init
    PROVE  FlowInv(a, up)
<1>1. EchoInv
  BY InitBasics DEF EchoInv, Init, DaemonValueGuarded, EchoOnlyUnguarded
<1>2. NothingBroken /\ FollowersPaste(a)
  BY MeshAssumption DEF Init, NothingBroken, FollowersPaste
<1>3. CopiesMinted(a)
  BY DEF Init, CopiesMinted, Follows
<1>4. TasksAtHead(a, up)
  BY DEF Init, TasksAtHead, Busy
<1>5. ShownInOrder
  BY MeshAssumption DEF Init, ShownInOrder
<1>6. StreamsInOrder(a, up)
  BY MeshAssumption DEF Init, StreamsInOrder, Stream, Newer, Pending, Far
<1>7. QED
  BY <1>1, <1>2, <1>3, <1>4, <1>5, <1>6 DEF FlowInv

\* What a port carries, and whom.
LEMMA Carriers ==
    ASSUME NEW a, NEW up, Follows(a, up)
    PROVE  /\ \A p \in Port : /\ PeerOf[p] \in Port /\ PeerOf[p] # p /\ PeerOf[PeerOf[p]] = p
                              /\ NodeOf[p] \in Node /\ Far(p) \in Node
                              /\ Far(PeerOf[p]) = NodeOf[p]
           /\ \A p, q \in Port : PeerOf[p] = PeerOf[q] => p = q
           /\ \A p \in Port : ~Down(a, up, p) => NodeOf[p] # a /\ p = up[NodeOf[p]]
           /\ \A p \in Port : Down(a, up, PeerOf[p]) <=> NodeOf[p] # a /\ p = up[NodeOf[p]]
           /\ \A p, q \in Port : Down(a, up, p) /\ Down(a, up, q) /\ Far(p) = Far(q) => p = q
           /\ \A s, t \in Task : Carries(a, up, s) /\ Carries(a, up, t) /\ HomeOf(s) = HomeOf(t) => s = t
           /\ a \in Task /\ HomeOf(a) = a /\ a \notin Port
           /\ \A p \in Port : p \in Task /\ HomeOf(p) = NodeOf[p]
<1>1. \A p \in Port : /\ PeerOf[p] \in Port /\ PeerOf[p] # p /\ PeerOf[PeerOf[p]] = p
                      /\ NodeOf[p] \in Node
  BY MeshAssumption
<1>2. \A p \in Port : Far(p) \in Node /\ Far(PeerOf[p]) = NodeOf[p]
  BY <1>1 DEF Far
<1>3. \A p, q \in Port : PeerOf[p] = PeerOf[q] => p = q
  BY <1>1
<1>4. \A p \in Port : ~Down(a, up, p) => NodeOf[p] # a /\ p = up[NodeOf[p]]
  BY DEF Follows, Down, Far
<1>5. \A p \in Port : Down(a, up, PeerOf[p]) <=> NodeOf[p] # a /\ p = up[NodeOf[p]]
  BY <1>1, <1>2 DEF Down
<1>6. \A p, q \in Port : Down(a, up, p) /\ Down(a, up, q) /\ Far(p) = Far(q) => p = q
  BY <1>3 DEF Down
<1>7. a \in Task /\ HomeOf(a) = a /\ a \notin Port
  BY MeshAssumption DEF Follows, Task, HomeOf
<1>8. \A p \in Port : p \in Task /\ HomeOf(p) = NodeOf[p]
  BY DEF Task, HomeOf
<1>9. \A s, t \in Task : Carries(a, up, s) /\ Carries(a, up, t) /\ HomeOf(s) = HomeOf(t) => s = t
  BY <1>7, <1>8 DEF Carries
<1>10. QED
  BY <1>1, <1>2, <1>3, <1>4, <1>5, <1>6, <1>7, <1>8, <1>9

\* Clips are numbers.
LEMMA ClipsAreNumbers ==
    ASSUME TypeOK
    PROVE  /\ Len(clips) \in Nat
           /\ \A n \in Node : \A c \in seen[n] : c \in Nat /\ c >= 1 /\ c <= Len(clips)
           /\ \A t \in Task : held[t] \in Nat /\ held[t] <= Len(clips)
           /\ \A p \in Port : /\ slot[p] \in Nat
                              /\ wire[p] \in Seq(1 .. Len(clips)) /\ Len(wire[p]) \in Nat
                              /\ \A i \in 1 .. Len(wire[p]) :
                                    wire[p][i] \in Nat /\ wire[p][i] >= 1
           /\ \A n \in Node : applied[n] \in Seq(1 .. Len(clips)) /\ Len(applied[n]) \in Nat
                              /\ \A i \in 1 .. Len(applied[n]) : applied[n][i] \in Nat
<1>1. Len(clips) \in Nat
  BY DEF TypeOK
<1>2. \A n \in Node : \A c \in seen[n] : c \in Nat /\ c >= 1 /\ c <= Len(clips)
  BY <1>1 DEF TypeOK
<1>3. \A t \in Task : held[t] \in Nat /\ held[t] <= Len(clips)
  BY <1>1 DEF TypeOK
<1>4. ASSUME NEW p \in Port
      PROVE  /\ slot[p] \in Nat
             /\ wire[p] \in Seq(1 .. Len(clips)) /\ Len(wire[p]) \in Nat
             /\ \A i \in 1 .. Len(wire[p]) : wire[p][i] \in Nat /\ wire[p][i] >= 1
  <2>1. slot[p] \in Nat /\ wire[p] \in Seq(1 .. Len(clips))
    BY <1>1 DEF TypeOK
  <2>2. Len(wire[p]) \in Nat /\ \A i \in 1 .. Len(wire[p]) : wire[p][i] \in 1 .. Len(clips)
    BY <2>1
  <2>3. QED
    BY <1>1, <2>1, <2>2
<1>5. ASSUME NEW n \in Node
      PROVE  applied[n] \in Seq(1 .. Len(clips)) /\ Len(applied[n]) \in Nat
             /\ \A i \in 1 .. Len(applied[n]) : applied[n][i] \in Nat
  <2>1. applied[n] \in Seq(1 .. Len(clips))
    BY DEF TypeOK
  <2>2. Len(applied[n]) \in Nat /\ \A i \in 1 .. Len(applied[n]) : applied[n][i] \in 1 .. Len(clips)
    BY <2>1
  <2>3. QED
    BY <1>1, <2>1, <2>2
<1>6. QED
  BY <1>1, <1>2, <1>3, <1>4, <1>5

\* Who follows mints nothing: what its clipboard holds is known or guarded.
LEMMA OnlyMinter ==
    ASSUME NEW a, NEW up, Follows(a, up), FlowInv(a, up), NEW n \in Node, CaptureNew(n)
    PROVE  n = a
<1> SUFFICES ASSUME n # a PROVE FALSE
  OBVIOUS
<1>1. clipboard[n] # previous[n] /\ suppressed[n][clipboard[n]] = 0 /\ lock[n] = Free
  BY DEF CaptureNew
<1>2. author[n] = "daemon"
  BY <1>1 DEF FlowInv, FollowersPaste, EchoInv, Basics, TypeOK
<1>3. Guarded(n)
  BY <1>2, GuardedDef DEF FlowInv, EchoInv
<1>4. unguarded[n] = {}
  BY DEF Follows, FlowInv, NothingBroken
<1>5. PICK p \in Port : NodeOf[p] = n /\ pc[p] = "readback"
  BY <1>1, <1>3, <1>4 DEF Guarded
<1>6. lock[n] = p
  BY <1>5 DEF FlowInv, EchoInv, Basics, TasksInOrder
<1>7. QED
  BY <1>1, <1>6, MeshAssumption DEF Free

\* The steps there are.
Calm(a, up) ==
    \/ \E v \in Content : UserCopy(a, v)
    \/ \E n \in Node : Wake(n) \/ CaptureNothingNew(n) \/ WatcherDone(n)
    \/ CaptureNew(a)
    \/ \E t \in Task : Carries(a, up, t) /\ Spread(t)
    \/ \E p \in Port : p # a /\ Carries(a, up, p) /\ (Handling(p) \/ ApplyFails(p))
    \/ \E p \in Port : Send(p)
    \/ UNCHANGED vars

LEMMA StaysCalm ==
    ASSUME NEW a, NEW up, Follows(a, up), FlowInv(a, up), [Next]_vars
    PROVE  Calm(a, up)
<1>1. \A p \in Port : link[p] = "up" /\ orphan[p] = NoClip
  BY DEF FlowInv, NothingBroken
<1>2. ~Fault("link") /\ ~Fault("readback")
  BY DEF Follows, Fault
<1>3. \A t \in Task : pc[t] \in Busy => Carries(a, up, t)
  BY DEF FlowInv, TasksAtHead
<1>4. ASSUME NEW p \in Port PROVE p # a /\ p \in Task
  BY Carriers
<1>5. ASSUME NEW n \in Node, NEW v \in Content, UserCopy(n, v) PROVE Calm(a, up)
  BY <1>5 DEF Follows, UserCopy, Calm
<1>6. ASSUME NEW n \in Node, Watcher(n) PROVE Calm(a, up)
  BY <1>6, OnlyMinter DEF Watcher, Calm
<1>7. ASSUME NEW t \in Task, Spread(t) PROVE Calm(a, up)
  <2>1. pc[t] \in Busy
    BY <1>7 DEF Spread, Broadcast, Offer, Busy
  <2>2. QED
    BY <1>3, <1>7, <2>1 DEF Calm
<1>8. ASSUME NEW p \in Port, Handling(p) \/ ApplyFails(p) PROVE Calm(a, up)
  <2>1. CASE Receive(p)
    <3>1. wire[p] # <<>>
      BY <2>1 DEF Receive
    <3>2. PeerOf[p] \in Port /\ PeerOf[PeerOf[p]] = p
      BY Carriers
    <3>3. Down(a, up, PeerOf[p])
      BY <3>1, <3>2 DEF FlowInv, StreamsInOrder
    <3>4. Carries(a, up, p)
      BY <3>3, Carriers DEF Carries
    <3>5. QED
      BY <1>4, <1>8, <3>4 DEF Calm
  <2>2. CASE ~Receive(p)
    <3>1. pc[p] \in Busy
      BY <1>8, <2>2 DEF Handling, AcquireLock, PublishClip, Readback, ApplyFails, Busy
    <3>2. QED
      BY <1>3, <1>4, <1>8, <3>1 DEF Calm
  <2>3. QED
    BY <2>1, <2>2
<1>9. ASSUME NEW p \in Port, ReadbackFails(p) \/ Connection(p) PROVE Calm(a, up)
  <2>1. ~ReadbackFails(p) /\ ~LinkBreaks(p)
    BY <1>2 DEF ReadbackFails, LinkBreaks
  <2>2. ~ReadEnds(p) /\ ~WriteFails(p) /\ ~OrphanPublishes(p) /\ ~Establish(p) /\ ~Dial(p)
    BY <1>1 DEF ReadEnds, WriteFails, OrphanPublishes, Establish, Dial
  <2>3. QED
    BY <1>9, <2>1, <2>2 DEF Connection, Calm
<1>10. CASE UNCHANGED vars
  BY <1>10 DEF Calm
<1>11. QED
  BY <1>5, <1>6, <1>7, <1>8, <1>9, <1>10 DEF Next, Failing

\* What a calm step leaves alone: connections, and everything of machine a but by its
\* own watcher and user.
LEMMA NothingBreaks ==
    ASSUME NEW a, NEW up, Follows(a, up), FlowInv(a, up), Calm(a, up)
    PROVE  NothingBroken'
<1> USE DEF NothingBroken, FlowInv
<1>1. UNCHANGED <<orphan, link, unguarded>>
  BY DEF Calm, UserCopy, Wake, CaptureNothingNew, WatcherDone, CaptureNew, Spread, Broadcast,
     Offer, Handling, Receive, AcquireLock, PublishClip, Readback, ApplyFails, Send, vars,
     linkVars, historyVars
<1>2. QED
  BY <1>1

\* What a step of a handler or its end does to the clipboards and the watchers.
LEMMA ClipboardSteps ==
    ASSUME NEW a, NEW up, Follows(a, up), TypeOK, Calm(a, up)
    PROVE  \/ UNCHANGED <<clipboard, author, previous, clips, copies>>
           \/ /\ copies' = copies + 1 /\ UNCHANGED <<previous, clips>>
              /\ \A n \in Node \ {a} : clipboard'[n] = clipboard[n] /\ author'[n] = author[n]
           \/ /\ UNCHANGED <<clipboard, author, clips, copies>>
              /\ \E n \in Node : previous' = [previous EXCEPT ![n] = clipboard[n]]
           \/ /\ CaptureNew(a) /\ UNCHANGED <<clipboard, author, copies>>
              /\ clipboard[a] # previous[a]
              /\ previous' = [previous EXCEPT ![a] = clipboard[a]]
              /\ Len(clips') = Len(clips) + 1
           \/ \E n \in Node \ {a} :
                 /\ UNCHANGED <<previous, clips, copies>>
                 /\ author'[n] = "daemon"
                 /\ \A m \in Node \ {n} : clipboard'[m] = clipboard[m] /\ author'[m] = author[m]
<1>1. ASSUME NEW v \in Content, UserCopy(a, v)
      PROVE  /\ copies' = copies + 1 /\ UNCHANGED <<previous, clips>>
             /\ \A n \in Node \ {a} : clipboard'[n] = clipboard[n] /\ author'[n] = author[n]
  BY <1>1 DEF UserCopy, SetClipboard, watcherVars, TypeOK
<1>2. ASSUME NEW n \in Node, CaptureNothingNew(n)
      PROVE  \/ UNCHANGED <<clipboard, author, previous, clips, copies>>
             \/ /\ UNCHANGED <<clipboard, author, clips, copies>>
                /\ previous' = [previous EXCEPT ![n] = clipboard[n]]
  BY <1>2 DEF CaptureNothingNew
<1>3. ASSUME CaptureNew(a)
      PROVE  /\ UNCHANGED <<clipboard, author, copies>>
             /\ clipboard[a] # previous[a]
             /\ previous' = [previous EXCEPT ![a] = clipboard[a]]
             /\ Len(clips') = Len(clips) + 1
  BY <1>3 DEF CaptureNew, TypeOK
<1>4. ASSUME NEW p \in Port, p # a, Carries(a, up, p), PublishClip(p)
      PROVE  /\ NodeOf[p] \in Node \ {a}
             /\ UNCHANGED <<previous, clips, copies>>
             /\ author'[NodeOf[p]] = "daemon"
             /\ \A m \in Node \ {NodeOf[p]} :
                   clipboard'[m] = clipboard[m] /\ author'[m] = author[m]
  <2>1. NodeOf[p] \in Node \ {a}
    BY <1>4, MeshAssumption DEF Carries
  <2>2. QED
    BY <1>4, <2>1 DEF PublishClip, SetClipboard, watcherVars, TypeOK
<1>5. CASE \/ \E n \in Node : Wake(n) \/ WatcherDone(n)
           \/ \E t \in Task : Spread(t)
           \/ \E p \in Port : \/ Receive(p) \/ AcquireLock(p) \/ Readback(p) \/ ApplyFails(p)
                              \/ Send(p)
           \/ UNCHANGED vars
  BY <1>5 DEF Wake, WatcherDone, Spread, Broadcast, Offer, Receive, AcquireLock, Readback,
     ApplyFails, Send, vars, watcherVars
<1>6. QED
  BY <1>1, <1>2, <1>3, <1>4, <1>5 DEF Calm, Handling

LEMMA PasteStep ==
    ASSUME NEW a, NEW up, Follows(a, up), FlowInv(a, up), Calm(a, up)
    PROVE  FollowersPaste(a)'
<1>1. TypeOK /\ FollowersPaste(a)
  BY DEF FlowInv, EchoInv, Basics
<1> USE DEF FollowersPaste, TypeOK
<1>2. CASE UNCHANGED <<clipboard, author, previous, clips, copies>>
  BY <1>1, <1>2
<1>3. CASE /\ UNCHANGED previous
           /\ \A n \in Node \ {a} : clipboard'[n] = clipboard[n] /\ author'[n] = author[n]
  BY <1>1, <1>3
<1>4. ASSUME UNCHANGED <<clipboard, author>>, NEW n \in Node,
             previous' = [previous EXCEPT ![n] = clipboard[n]]
      PROVE  FollowersPaste(a)'
  BY <1>1, <1>4
<1>5. ASSUME NEW n \in Node \ {a}, UNCHANGED previous, author'[n] = "daemon",
             \A m \in Node \ {n} : clipboard'[m] = clipboard[m] /\ author'[m] = author[m]
      PROVE  FollowersPaste(a)'
  BY <1>1, <1>5
<1>6. a \in Node
  BY DEF Follows
<1>7. QED
  BY <1>1, <1>2, <1>3, <1>4, <1>5, <1>6, ClipboardSteps

LEMMA MintedStep ==
    ASSUME NEW a, NEW up, Follows(a, up), FlowInv(a, up), Calm(a, up)
    PROVE  CopiesMinted(a)'
<1>1. TypeOK /\ CopiesMinted(a) /\ a \in Node
  BY DEF FlowInv, EchoInv, Basics, Follows
<1>2. /\ Len(clips) \in Nat /\ copies \in Nat
      /\ previous \in [Node -> Content \cup {Empty}]
  BY <1>1 DEF TypeOK
<1> USE DEF CopiesMinted
<1>3. CASE UNCHANGED <<clipboard, author, previous, clips, copies>>
  BY <1>1, <1>3
<1>4. CASE copies' = copies + 1 /\ UNCHANGED <<previous, clips>>
  BY <1>1, <1>2, <1>4
<1>5. ASSUME UNCHANGED <<clipboard, clips, copies>>, NEW n \in Node,
             previous' = [previous EXCEPT ![n] = clipboard[n]]
      PROVE  CopiesMinted(a)'
  BY <1>1, <1>2, <1>5
<1>6. CASE /\ UNCHANGED <<clipboard, copies>> /\ clipboard[a] # previous[a]
           /\ previous' = [previous EXCEPT ![a] = clipboard[a]]
           /\ Len(clips') = Len(clips) + 1
  BY <1>1, <1>2, <1>6
<1>7. ASSUME NEW n \in Node \ {a}, UNCHANGED <<previous, clips, copies>>,
             \A m \in Node \ {n} : clipboard'[m] = clipboard[m] /\ author'[m] = author[m]
      PROVE  CopiesMinted(a)'
  BY <1>1, <1>7
<1>8. QED
  BY <1>1, <1>3, <1>4, <1>5, <1>6, <1>7, ClipboardSteps

LEMMA TailSequence ==
    ASSUME NEW S, NEW s \in Seq(S), s # <<>>
    PROVE  /\ Tail(s) \in Seq(S)
           /\ Len(s) \in Nat /\ Len(s) >= 1
           /\ Len(Tail(s)) = Len(s) - 1
           /\ \A i \in 1 .. Len(s) - 1 : Tail(s)[i] = s[i + 1]
           /\ Head(s) = s[1]
<1>1. Len(s) \in Nat /\ Len(s) # 0
  BY EmptySeq
<1>2. Head(s) = s[1]
  OBVIOUS
<1>3. QED
  BY <1>1, <1>2, HeadTailProperties

\* What the head of wire[p] is to the machine that reads it.
LEMMA Arrives ==
    ASSUME NEW a, NEW up, Follows(a, up), FlowInv(a, up), NEW p \in Port, wire[p] # <<>>
    PROVE  /\ Down(a, up, PeerOf[p]) /\ Stream(PeerOf[p])
           /\ Far(PeerOf[p]) = NodeOf[p] /\ PeerOf[PeerOf[p]] = p
           /\ NodeOf[PeerOf[p]] # NodeOf[p]
           /\ Head(wire[p]) = wire[p][1] /\ 1 \in 1 .. Len(wire[p])
           /\ Head(wire[p]) \in seen[NodeOf[PeerOf[p]]]
           /\ Head(wire[p]) \in 1 .. Len(clips)
           /\ \A d \in seen[NodeOf[p]] : d < Head(wire[p])
           /\ Head(wire[p]) \notin seen[NodeOf[p]]
           /\ Tail(wire[p]) \in Seq(1 .. Len(clips))
           /\ Len(Tail(wire[p])) = Len(wire[p]) - 1
           /\ \A i \in 1 .. Len(wire[p]) - 1 : Tail(wire[p])[i] = wire[p][i + 1]
<1> DEFINE q == PeerOf[p]
           c == Head(wire[p])
<1>1. q \in Port /\ PeerOf[q] = p /\ Far(q) = NodeOf[p] /\ NodeOf[p] \in Node
  BY Carriers
<1>2. TypeOK
  BY DEF FlowInv, EchoInv, Basics
<1>3. Down(a, up, q) /\ Stream(q)
  BY <1>1 DEF FlowInv, StreamsInOrder
<1>4. wire[p] \in Seq(1 .. Len(clips)) /\ Len(wire[p]) \in Nat
  BY <1>2, ClipsAreNumbers
<1>5. /\ Len(wire[p]) >= 1 /\ c = wire[p][1]
      /\ Tail(wire[p]) \in Seq(1 .. Len(clips))
      /\ Len(Tail(wire[p])) = Len(wire[p]) - 1
      /\ \A i \in 1 .. Len(wire[p]) - 1 : Tail(wire[p])[i] = wire[p][i + 1]
  BY <1>4, TailSequence
<1>6. 1 \in 1 .. Len(wire[p])
  BY <1>4, <1>5
<1>7. c \in 1 .. Len(clips)
  BY <1>4, <1>5, <1>6
<1> HIDE DEF q, c
<1>8. c \in seen[NodeOf[q]] /\ \A d \in seen[NodeOf[p]] : d < c
  BY <1>1, <1>3, <1>5, <1>6 DEF Stream
<1>9. c \notin seen[NodeOf[p]]
  <2>1. ~(c < c)
    BY <1>7
  <2>2. QED
    BY <1>8, <2>1
<1>10. QED
  BY <1>1, <1>3, <1>5, <1>6, <1>7, <1>8, <1>9 DEF q, c

\* One task per machine is at work.
LEMMA Alone ==
    ASSUME NEW a, NEW up, Follows(a, up), FlowInv(a, up), NEW t \in Task, Carries(a, up, t),
           NEW s \in Task, s # t, HomeOf(s) = HomeOf(t)
    PROVE  pc[s] \notin Busy /\ Pending(s) = {}
<1>1. pc[s] \notin Busy
  BY Carriers DEF FlowInv, TasksAtHead
<1>2. todo[s] = {} /\ pc[s] # "broadcast"
  BY <1>1 DEF FlowInv, TasksAtHead, Busy
<1>3. QED
  BY <1>1, <1>2 DEF Pending

AtHead(a, up, t) ==
    /\ pc[t] \in Busy =>
         /\ Carries(a, up, t)
         /\ held[t] \in seen[HomeOf(t)]
         /\ \A c \in seen[HomeOf(t)] : c <= held[t]
    /\ pc[t] # "offer" => todo[t] = {}
    /\ \A q \in todo[t] : NodeOf[q] = HomeOf(t) /\ q # t

LEMMA HeadKept ==
    ASSUME NEW a, NEW up, NEW t \in Task, AtHead(a, up, t),
           pc'[t] \in Busy => /\ pc[t] \in Busy /\ held'[t] = held[t]
                              /\ seen'[HomeOf(t)] = seen[HomeOf(t)],
           pc'[t] # "offer" => todo'[t] = {},
           todo'[t] \subseteq todo[t]
    PROVE  AtHead(a, up, t)'
BY DEF AtHead

LEMMA HeadStep ==
    ASSUME NEW a, NEW up, Follows(a, up), FlowInv(a, up), Calm(a, up)
    PROVE  TasksAtHead(a, up)'
<1>1. TypeOK /\ TasksInOrder /\ \A t \in Task : AtHead(a, up, t)
  BY DEF FlowInv, EchoInv, Basics, TasksAtHead, AtHead
<1>2. SUFFICES ASSUME NEW t \in Task PROVE AtHead(a, up, t)'
  BY DEF TasksAtHead, AtHead
<1>3. /\ HomeOf(t) \in Node /\ AtHead(a, up, t) /\ pc \in [Task -> TaskState]
      /\ held \in [Task -> 0 .. Len(clips)] /\ todo \in [Task -> SUBSET Port]
      /\ seen \in [Node -> SUBSET (1 .. Len(clips))]
  BY <1>1, HomeType DEF TypeOK
<1>4. \A n \in Node : n \in Task
  BY DEF Task
<1>5. \A p \in Port : p \in Task /\ HomeOf(p) = NodeOf[p] /\ NodeOf[p] \in Node
  BY Carriers
<1>6. CASE UNCHANGED <<pc, held, todo, seen>>
  BY <1>3, <1>6 DEF AtHead
<1>7. ASSUME NEW n \in Node, Wake(n) \/ CaptureNothingNew(n) PROVE AtHead(a, up, t)'
  <2>1. /\ UNCHANGED <<held, todo, seen>> /\ pc[n] # "offer"
        /\ \E x \in {"idle", "capture"} : pc' = [pc EXCEPT ![n] = x]
    BY <1>7 DEF Wake, CaptureNothingNew
  <2>2. pc'[t] \in Busy => pc[t] \in Busy
    BY <1>3, <2>1 DEF Busy
  <2>3. pc'[t] # "offer" => pc[t] # "offer"
    BY <1>3, <2>1
  <2>4. QED
    BY <1>3, <2>1, <2>2, <2>3, HeadKept DEF AtHead
<1>8. ASSUME NEW s \in Task, Rest(s), todo[s] = {}, UNCHANGED <<todo, seen>>
      PROVE  AtHead(a, up, t)'
  <2>1. pc' = [pc EXCEPT ![s] = "idle"] /\ held' = [held EXCEPT ![s] = NoClip]
    BY <1>8 DEF Rest
  <2>2. pc'[t] \in Busy => pc[t] \in Busy /\ held'[t] = held[t]
    BY <1>3, <2>1 DEF Busy
  <2>3. pc'[t] # "offer" => todo'[t] = {}
    BY <1>3, <1>8, <2>1 DEF AtHead
  <2>4. QED
    BY <1>3, <1>8, <2>2, <2>3, HeadKept
<1>9. ASSUME NEW p \in Port, AcquireLock(p) \/ PublishClip(p) PROVE AtHead(a, up, t)'
  <2>1. /\ UNCHANGED <<held, todo, seen>> /\ todo[p] = {} /\ pc[p] \in Busy
        /\ \E x \in {"publish", "readback"} : pc' = [pc EXCEPT ![p] = x]
    BY <1>1, <1>5, <1>9 DEF AcquireLock, PublishClip, AtHead, Busy
  <2>2. pc'[t] \in Busy => pc[t] \in Busy
    BY <1>3, <2>1
  <2>3. pc'[t] # "offer" => todo'[t] = {}
    BY <1>3, <2>1 DEF AtHead
  <2>4. QED
    BY <1>3, <2>1, <2>2, <2>3, HeadKept
<1>10. ASSUME NEW s \in Task, Broadcast(s) PROVE AtHead(a, up, t)'
  <2>1. /\ UNCHANGED <<held, seen>> /\ pc[s] \in Busy
        /\ todo' = [todo EXCEPT ![s] = Targets(s)] /\ pc' = [pc EXCEPT ![s] = "offer"]
    BY <1>10 DEF Broadcast, Busy
  <2>2. CASE t = s
    BY <1>3, <2>1, <2>2 DEF AtHead, Targets, Busy
  <2>3. CASE t # s
    BY <1>3, <2>1, <2>3 DEF AtHead
  <2>4. QED
    BY <2>2, <2>3
<1>11. ASSUME NEW s \in Task, NEW q \in Port, Offer(s, q) PROVE AtHead(a, up, t)'
  <2>1. UNCHANGED <<held, seen, pc>> /\ todo' = [todo EXCEPT ![s] = @ \ {q}]
    BY <1>11 DEF Offer
  <2>2. todo'[t] \subseteq todo[t]
    BY <1>3, <2>1
  <2>3. QED
    BY <1>3, <2>1, <2>2, HeadKept DEF AtHead
<1>12. CASE CaptureNew(a)
  <2>1. /\ a \in Node /\ HomeOf(a) = a /\ a \in Task
    <3>1. a \in Node
      BY DEF Follows
    <3>2. QED
      BY <3>1, Carriers
  <2>2. /\ seen'[a] = seen[a] \cup {Len(clips) + 1}
        /\ held' = [held EXCEPT ![a] = Len(clips) + 1]
        /\ pc' = [pc EXCEPT ![a] = "broadcast"] /\ pc[a] = "capture" /\ UNCHANGED todo
        /\ \A n \in Node \ {a} : seen'[n] = seen[n]
    BY <1>3, <1>12, <2>1 DEF CaptureNew
  <2>3. CASE t = a
    <3>1. \A c \in seen[a] : c <= Len(clips) + 1
      BY <1>1, <2>1, ClipsAreNumbers
    <3>2. Len(clips) + 1 <= Len(clips) + 1
      BY <1>1, ClipsAreNumbers
    <3>3. held'[a] = Len(clips) + 1 /\ todo'[a] = {}
      BY <1>3, <2>1, <2>2, <2>3 DEF AtHead
    <3>4. QED
      BY <1>3, <2>1, <2>2, <2>3, <3>1, <3>2, <3>3 DEF AtHead, Carries
  <2>4. CASE t # a
    <3>1. pc'[t] = pc[t] /\ held'[t] = held[t] /\ todo'[t] = todo[t]
      BY <1>3, <2>2, <2>4
    <3>2. CASE HomeOf(t) = a
      <4>1. pc[t] \notin Busy
        BY <2>1, <2>4, <3>2, Alone DEF Carries
      <4>2. QED
        BY <1>3, <3>1, <4>1 DEF AtHead
    <3>3. CASE HomeOf(t) # a
      BY <1>3, <2>2, <3>1, <3>3 DEF AtHead
    <3>4. QED
      BY <3>2, <3>3
  <2>5. QED
    BY <2>3, <2>4
<1>13. ASSUME NEW p \in Port, Carries(a, up, p), Receive(p) PROVE AtHead(a, up, t)'
  <2> DEFINE c == Head(wire[p])
             n == NodeOf[p]
  <2>1. wire[p] # <<>> /\ pc[p] = "idle"
    BY <1>13 DEF Receive
  <2>2. /\ c \notin seen[n] /\ c \in 1 .. Len(clips) /\ \A d \in seen[n] : d < c
        /\ n \in Node
    BY <2>1, Arrives, Carriers
  <2> HIDE DEF c, n
  <2>3. /\ seen' = [seen EXCEPT ![n] = @ \cup {c}] /\ pc' = [pc EXCEPT ![p] = "broadcast"]
        /\ held' = [held EXCEPT ![p] = c] /\ UNCHANGED todo
    BY <1>13, <2>2 DEF Receive, c, n
  <2>4. HomeOf(p) = n /\ p \in Task
    BY <1>5 DEF n
  <2>5. CASE t = p
    <3>1. \A d \in seen[n] \cup {c} : d <= c
      <4>1. \A d \in seen[n] : d \in Nat
        BY <1>1, <2>2, ClipsAreNumbers
      <4>2. QED
        BY <2>2, <4>1
    <3>2. seen'[n] = seen[n] \cup {c} /\ held'[p] = c /\ pc'[p] = "broadcast" /\ todo'[p] = {}
      BY <1>3, <2>1, <2>2, <2>3, <2>4, <2>5 DEF AtHead
    <3>3. QED
      BY <1>3, <1>13, <2>4, <2>5, <3>1, <3>2 DEF AtHead
  <2>6. CASE t # p
    <3>1. pc'[t] = pc[t] /\ held'[t] = held[t] /\ todo'[t] = todo[t]
      BY <1>3, <2>3, <2>6
    <3>2. CASE HomeOf(t) = n
      <4>1. pc[t] \notin Busy
        BY <1>13, <2>4, <2>6, <3>2, Alone
      <4>2. QED
        BY <1>3, <3>1, <4>1 DEF AtHead
    <3>3. CASE HomeOf(t) # n
      <4>1. seen'[HomeOf(t)] = seen[HomeOf(t)]
        BY <1>3, <2>3, <3>3
      <4>2. QED
        BY <1>3, <3>1, <4>1 DEF AtHead
    <3>4. QED
      BY <3>2, <3>3
  <2>7. QED
    BY <2>5, <2>6
<1>14. ASSUME NEW n \in Node, WatcherDone(n) PROVE AtHead(a, up, t)'
  BY <1>4, <1>8, <1>14 DEF WatcherDone, watcherVars
<1>15. ASSUME NEW p \in Port, Readback(p) \/ ApplyFails(p) PROVE AtHead(a, up, t)'
  <2>1. todo[p] = {}
    BY <1>1, <1>5, <1>15 DEF Readback, ApplyFails, AtHead
  <2>2. QED
    BY <1>5, <1>8, <1>15, <2>1 DEF Readback, ApplyFails, watcherVars
<1>16. CASE (\E v \in Content : UserCopy(a, v)) \/ (\E p \in Port : Send(p)) \/ UNCHANGED vars
  BY <1>6, <1>16 DEF UserCopy, Send, vars, watcherVars, taskVars
<1>17. QED
  BY <1>7, <1>9, <1>10, <1>11, <1>12, <1>13, <1>14, <1>15, <1>16 DEF Calm, Spread, Handling

LEMMA ShownStep ==
    ASSUME NEW a, NEW up, Follows(a, up), FlowInv(a, up), Calm(a, up)
    PROVE  ShownInOrder'
<1> DEFINE Shows(p) == LET s == applied[NodeOf[p]] IN
        /\ \A i \in 1 .. Len(s) : s[i] \in seen[NodeOf[p]]
        /\ pc[p] \in {"broadcast", "offer", "publish"} => \A i \in 1 .. Len(s) : s[i] < held[p]
<1>1. TypeOK /\ TasksInOrder /\ ShownInOrder /\ \A t \in Task : AtHead(a, up, t)
  BY DEF FlowInv, EchoInv, Basics, TasksAtHead, AtHead
<1>2. SUFFICES ASSUME NEW p \in Port PROVE Shows(p)'
  BY DEF ShownInOrder
<1>3. Shows(p) /\ p \in Task /\ NodeOf[p] \in Node /\ HomeOf(p) = NodeOf[p]
  BY <1>1, Carriers DEF ShownInOrder
<1>4. /\ pc \in [Task -> TaskState] /\ held \in [Task -> 0 .. Len(clips)]
      /\ seen \in [Node -> SUBSET (1 .. Len(clips))]
      /\ applied \in [Node -> Seq(1 .. Len(clips))]
  BY <1>1 DEF TypeOK
\* Nothing is applied, and the handler of p goes no way but on with what it has.
<1>5. ASSUME UNCHANGED applied, seen[NodeOf[p]] \subseteq seen'[NodeOf[p]],
             pc'[p] \in {"broadcast", "offer", "publish"} =>
                pc[p] \in {"broadcast", "offer", "publish"} /\ held'[p] = held[p]
      PROVE  Shows(p)'
  BY <1>3, <1>5
<1>6. CASE UNCHANGED <<applied, seen, pc, held>>
  BY <1>5, <1>6
<1>7. ASSUME NEW n \in Node, Wake(n) \/ CaptureNothingNew(n) \/ WatcherDone(n) \/ CaptureNew(n)
      PROVE  Shows(p)'
  <2>1. n # p
    BY <1>7, MeshAssumption
  <2>2. /\ UNCHANGED applied
        /\ \E x \in {"idle", "capture", "broadcast"} : pc' = [pc EXCEPT ![n] = x]
        /\ held' = held \/ \E c \in Nat : held' = [held EXCEPT ![n] = c]
        /\ \/ seen' = seen
           \/ \E c \in Nat : seen' = [seen EXCEPT ![n] = @ \cup {c}]
    <3>1. CASE Wake(n) \/ CaptureNothingNew(n)
      BY <3>1 DEF Wake, CaptureNothingNew, historyVars
    <3>2. CASE WatcherDone(n)
      BY <3>2 DEF WatcherDone, Rest, historyVars, NoClip
    <3>3. CASE CaptureNew(n)
      <4>1. Len(clips) + 1 \in Nat
        BY <1>1, ClipsAreNumbers
      <4>2. QED
        BY <3>3, <4>1 DEF CaptureNew, historyVars
    <3>4. QED
      BY <1>7, <3>1, <3>2, <3>3
  <2>3. pc'[p] = pc[p] /\ held'[p] = held[p]
    BY <1>3, <1>4, <2>1, <2>2
  <2>4. seen[NodeOf[p]] \subseteq seen'[NodeOf[p]]
    <3>1. ASSUME NEW c \in Nat, seen' = [seen EXCEPT ![n] = @ \cup {c}]
          PROVE  seen[NodeOf[p]] \subseteq seen'[NodeOf[p]]
      BY <1>3, <1>4, <3>1
    <3>2. QED
      BY <2>2, <3>1
  <2>5. QED
    BY <1>5, <2>2, <2>3, <2>4
<1>8. ASSUME NEW t \in Task, Spread(t) PROVE Shows(p)'
  <2>1. UNCHANGED <<applied, seen, held>>
    BY <1>8 DEF Spread, Broadcast, Offer, historyVars
  <2>2. pc'[p] \in {"broadcast", "offer", "publish"} => pc[p] \in {"broadcast", "offer", "publish"}
    BY <1>3, <1>4, <1>8 DEF Spread, Broadcast, Offer
  <2>3. QED
    BY <1>5, <2>1, <2>2
<1>9. ASSUME NEW q \in Port, AcquireLock(q) \/ Readback(q) \/ ApplyFails(q) PROVE Shows(p)'
  <2>1. UNCHANGED <<applied, seen>>
    BY <1>9 DEF AcquireLock, Readback, ApplyFails, historyVars
  <2>2. pc'[p] \in {"broadcast", "offer", "publish"} =>
            pc[p] \in {"broadcast", "offer", "publish"} /\ held'[p] = held[p]
    BY <1>3, <1>4, <1>9 DEF AcquireLock, Readback, ApplyFails, Rest
  <2>3. QED
    BY <1>5, <2>1, <2>2
<1>10. ASSUME NEW q \in Port, Receive(q) PROVE Shows(p)'
  <2> DEFINE c == Head(wire[q])
  <2>1. wire[q] # <<>> /\ UNCHANGED applied
    BY <1>10 DEF Receive, historyVars
  <2>2. c \notin seen[NodeOf[q]] /\ \A d \in seen[NodeOf[q]] : d < c
    BY <2>1, Arrives
  <2>3. /\ seen' = [seen EXCEPT ![NodeOf[q]] = @ \cup {c}] /\ pc' = [pc EXCEPT ![q] = "broadcast"]
        /\ held' = [held EXCEPT ![q] = c]
    BY <1>10, <2>2 DEF Receive
  <2> HIDE DEF c
  <2>4. seen[NodeOf[p]] \subseteq seen'[NodeOf[p]]
    BY <1>3, <1>4, <2>3
  <2>5. CASE p = q
    BY <1>3, <1>4, <2>1, <2>2, <2>3, <2>4, <2>5
  <2>6. CASE p # q
    BY <1>4, <1>5, <2>1, <2>3, <2>4, <2>6
  <2>7. QED
    BY <2>5, <2>6
<1>11. ASSUME NEW q \in Port, Carries(a, up, q), PublishClip(q) PROVE Shows(p)'
  <2> DEFINE n == NodeOf[q]
  <2>1. /\ q \in Task /\ HomeOf(q) = n /\ n \in Node
    BY Carriers
  <2>2. /\ pc[q] = "publish" /\ pc' = [pc EXCEPT ![q] = "readback"] /\ UNCHANGED <<seen, held>>
        /\ applied' = [applied EXCEPT ![n] = Append(applied[n], held[q])]
    BY <1>11 DEF PublishClip
  <2>3. held[q] \in seen[n]
    BY <1>1, <2>1, <2>2 DEF AtHead, Busy
  <2> HIDE DEF n
  <2>4. CASE NodeOf[p] = n
    <3>1. pc'[p] \notin {"broadcast", "offer", "publish"}
      <4>1. CASE p = q
        BY <1>3, <1>4, <2>2, <4>1
      <4>2. CASE p # q
        <5>1. pc[p] \notin Busy
          BY <1>3, <1>11, <2>1, <2>4, <4>2, Alone
        <5>2. QED
          BY <1>4, <2>2, <4>2, <5>1 DEF Busy
      <4>3. QED
        BY <4>1, <4>2
    <3>2. applied'[n] = Append(applied[n], held[q])
      BY <1>4, <2>1, <2>2
    <3>3. /\ Len(applied[n]) \in Nat /\ Len(applied'[n]) = Len(applied[n]) + 1
          /\ \A i \in 1 .. Len(applied[n]) : applied'[n][i] = applied[n][i]
          /\ applied'[n][Len(applied[n]) + 1] = held[q]
      BY <1>4, <2>1, <3>2
    <3>4. \A i \in 1 .. Len(applied'[n]) : i \in 1 .. Len(applied[n]) \/ i = Len(applied[n]) + 1
      BY <3>3
    <3>5. \A i \in 1 .. Len(applied'[n]) : applied'[n][i] \in seen[n]
      BY <1>3, <2>3, <2>4, <3>3, <3>4
    <3>6. QED
      BY <2>2, <2>4, <3>1, <3>5
  <2>5. CASE NodeOf[p] # n
    <3>1. p # q /\ applied'[NodeOf[p]] = applied[NodeOf[p]]
      BY <1>3, <1>4, <2>2, <2>5 DEF n
    <3>2. pc'[p] = pc[p]
      BY <1>4, <2>2, <3>1
    <3>3. QED
      BY <1>3, <2>2, <3>1, <3>2
  <2>6. QED
    BY <2>4, <2>5
<1>12. CASE (\E v \in Content : UserCopy(a, v)) \/ (\E q \in Port : Send(q)) \/ UNCHANGED vars
  BY <1>6, <1>12 DEF UserCopy, Send, vars, watcherVars, taskVars, historyVars
<1>13. a \in Node
  BY DEF Follows
<1>14. QED
  BY <1>7, <1>8, <1>9, <1>10, <1>11, <1>12, <1>13 DEF Calm, Handling

\* A stream stays in order when neither what is on its way nor what its far end has
\* seen changes, and no broadcast turns to it.
LEMMA StreamKept ==
    ASSUME NEW q \in Port, Stream(q),
           seen[NodeOf[q]] \subseteq seen'[NodeOf[q]],
           seen'[Far(q)] = seen[Far(q)],
           wire'[PeerOf[q]] = wire[PeerOf[q]],
           slot'[q] = slot[q],
           \A t \in Task : HomeOf(t) = NodeOf[q] /\ q \in Pending(t)' =>
                              q \in Pending(t) /\ held'[t] = held[t]
    PROVE  Stream(q)'
<1>1. ASSUME NEW c PROVE Newer(q, c)' <=> Newer(q, c)
  BY DEF Newer
<1>2. ASSUME NEW t \in Task, HomeOf(t) = NodeOf[q], q \in Pending(t)'
      PROVE  Newer(q, held[t])' /\ held'[t] = held[t] /\ (slot[q] # NoClip => slot[q] < held[t])
  BY <1>1, <1>2 DEF Stream
<1>3. slot[q] # NoClip => slot[q] \in seen'[NodeOf[q]] /\ Newer(q, slot[q])'
  BY <1>1 DEF Stream
<1>4. ASSUME NEW t \in Task, HomeOf(t) = NodeOf[q], q \in Pending(t)' PROVE Newer(q, held[t])'
  BY <1>2, <1>4
<1>5. QED
  BY <1>2, <1>3 DEF Stream, Newer

\* Ports by which no clips leave stay empty.
LEMMA UpstreamStep ==
    ASSUME NEW a, NEW up, Follows(a, up), FlowInv(a, up), Calm(a, up),
           NEW q \in Port, ~Down(a, up, q)
    PROVE  slot'[q] = NoClip /\ wire'[PeerOf[q]] = <<>>
<1>1. slot[q] = NoClip /\ wire[PeerOf[q]] = <<>>
  BY DEF FlowInv, StreamsInOrder
<1>2. PeerOf[q] \in Port /\ slot \in [Port -> 0 .. Len(clips)] /\ wire \in [Port -> Seq(1 .. Len(clips))]
  BY Carriers DEF FlowInv, EchoInv, Basics, TypeOK
<1>3. CASE UNCHANGED <<slot, wire>>
  BY <1>1, <1>3
<1>4. ASSUME NEW t \in Task, Carries(a, up, t), NEW r \in Port, Offer(t, r)
      PROVE  slot'[q] = NoClip /\ wire'[PeerOf[q]] = <<>>
  <2>1. NodeOf[r] = HomeOf(t) /\ r # t
    BY <1>4 DEF Offer, FlowInv, TasksAtHead
  <2>2. r # q
    <3>1. q \in Task /\ HomeOf(q) = NodeOf[q] /\ Carries(a, up, q)
      BY Carriers DEF Carries
    <3>2. QED
      BY <1>4, <2>1, <3>1, Carriers
  <2>3. QED
    BY <1>1, <1>2, <1>4, <2>2 DEF Offer
<1>5. ASSUME NEW p \in Port, Send(p) PROVE slot'[q] = NoClip /\ wire'[PeerOf[q]] = <<>>
  <2>1. p # q /\ PeerOf[p] # PeerOf[q]
    BY <1>1, <1>5, Carriers DEF Send
  <2>2. QED
    BY <1>1, <1>2, <1>5, <2>1 DEF Send
<1>6. ASSUME NEW p \in Port, Receive(p) PROVE slot'[q] = NoClip /\ wire'[PeerOf[q]] = <<>>
  BY <1>1, <1>2, <1>6 DEF Receive
<1>7. CASE \/ \E v \in Content : UserCopy(a, v)
           \/ \E n \in Node : Wake(n) \/ CaptureNothingNew(n) \/ WatcherDone(n)
           \/ CaptureNew(a)
           \/ \E t \in Task : Broadcast(t)
           \/ \E p \in Port : AcquireLock(p) \/ PublishClip(p) \/ Readback(p) \/ ApplyFails(p)
           \/ UNCHANGED vars
  BY <1>3, <1>7 DEF UserCopy, Wake, CaptureNothingNew, WatcherDone, CaptureNew, Broadcast,
     AcquireLock, PublishClip, Readback, ApplyFails, vars, linkVars
<1>8. QED
  BY <1>4, <1>5, <1>6, <1>7 DEF Calm, Spread, Handling

\* Nothing new is pending.
NothingNew ==
    \A t \in Task, q \in Port : q \in Pending(t)' => q \in Pending(t) /\ held'[t] = held[t]

LEMMA NothingNewPending ==
    ASSUME TypeOK, NEW s \in Task, NEW x \in TaskState, x # "broadcast",
           pc' = [pc EXCEPT ![s] = x],
           todo'[s] \subseteq Pending(s), held'[s] = held[s] \/ todo'[s] = {},
           \A t \in Task : t # s => todo'[t] = todo[t] /\ held'[t] = held[t]
    PROVE  NothingNew
<1>1. SUFFICES ASSUME NEW t \in Task, NEW q \in Port, q \in Pending(t)'
               PROVE  q \in Pending(t) /\ held'[t] = held[t]
  BY DEF NothingNew
<1>2. CASE t = s
  BY <1>1, <1>2 DEF Pending, TypeOK
<1>3. CASE t # s
  BY <1>1, <1>3 DEF Pending, TypeOK
<1>4. QED
  BY <1>2, <1>3

\* Steps that leave seen, the slots and the wires alone bring nothing new.
Quiet(a) ==
    \/ \E v \in Content : UserCopy(a, v)
    \/ \E n \in Node : Wake(n) \/ CaptureNothingNew(n) \/ WatcherDone(n)
    \/ \E t \in Task : Broadcast(t)
    \/ \E p \in Port : AcquireLock(p) \/ PublishClip(p) \/ Readback(p) \/ ApplyFails(p)
    \/ UNCHANGED vars

LEMMA QuietBringsNothing ==
    ASSUME NEW a, NEW up, Follows(a, up), FlowInv(a, up), Quiet(a)
    PROVE  seen' = seen /\ slot' = slot /\ wire' = wire /\ NothingNew
<1>1. TypeOK /\ \A t \in Task : AtHead(a, up, t)
  BY DEF FlowInv, EchoInv, Basics, TasksAtHead, AtHead
<1>2. \A n \in Node : n \in Task
  BY DEF Task
<1>3. \A p \in Port : p \in Task
  BY Carriers
<1>4. seen' = seen /\ slot' = slot /\ wire' = wire
  BY DEF Quiet, UserCopy, Wake, CaptureNothingNew, WatcherDone, Broadcast, AcquireLock,
     PublishClip, Readback, ApplyFails, vars, linkVars
<1>5. ASSUME UNCHANGED <<pc, held, todo>> PROVE NothingNew
  <2>1. \A t : Pending(t)' = Pending(t) /\ held'[t] = held[t]
    BY <1>5 DEF Pending
  <2>2. QED
    BY <2>1 DEF NothingNew
<1>6. ASSUME NEW n \in Node, Wake(n) \/ CaptureNothingNew(n) PROVE NothingNew
  <2>1. /\ UNCHANGED <<held, todo>> /\ pc[n] # "broadcast"
        /\ \E x \in {"idle", "capture"} : pc' = [pc EXCEPT ![n] = x]
    BY <1>6 DEF Wake, CaptureNothingNew
  <2>2. todo'[n] \subseteq Pending(n)
    BY <2>1 DEF Pending
  <2>3. QED
    BY <1>1, <1>2, <2>1, <2>2, NothingNewPending DEF TaskState
<1>7. ASSUME NEW s \in Task, Rest(s), UNCHANGED todo, todo[s] = {} PROVE NothingNew
  <2>1. pc' = [pc EXCEPT ![s] = "idle"] /\ held' = [held EXCEPT ![s] = NoClip]
    BY <1>7 DEF Rest
  <2>2. \A t \in Task : t # s => held'[t] = held[t]
    BY <1>1, <2>1 DEF TypeOK
  <2>3. QED
    BY <1>1, <1>7, <2>1, <2>2, NothingNewPending DEF TaskState
<1>8. ASSUME NEW p \in Port, AcquireLock(p) \/ PublishClip(p) PROVE NothingNew
  <2>1. /\ UNCHANGED <<held, todo>> /\ pc[p] # "broadcast"
        /\ \E x \in {"publish", "readback"} : pc' = [pc EXCEPT ![p] = x]
    BY <1>8 DEF AcquireLock, PublishClip
  <2>2. todo'[p] \subseteq Pending(p)
    BY <2>1 DEF Pending
  <2>3. QED
    BY <1>1, <1>3, <2>1, <2>2, NothingNewPending DEF TaskState
<1>9. ASSUME NEW s \in Task, Broadcast(s) PROVE NothingNew
  <2>1. /\ UNCHANGED held /\ pc[s] = "broadcast" /\ pc' = [pc EXCEPT ![s] = "offer"]
        /\ todo' = [todo EXCEPT ![s] = Targets(s)]
    BY <1>9 DEF Broadcast
  <2>2. todo'[s] \subseteq Pending(s) /\ \A t \in Task : t # s => todo'[t] = todo[t]
    BY <1>1, <2>1 DEF Pending, Targets, TypeOK
  <2>3. QED
    BY <1>1, <2>1, <2>2, NothingNewPending DEF TaskState
<1>10. ASSUME NEW n \in Node, WatcherDone(n) PROVE NothingNew
  BY <1>2, <1>7, <1>10 DEF WatcherDone
<1>11. ASSUME NEW p \in Port, Readback(p) \/ ApplyFails(p) PROVE NothingNew
  <2>1. todo[p] = {}
    BY <1>1, <1>3, <1>11 DEF Readback, ApplyFails, AtHead
  <2>2. QED
    BY <1>3, <1>7, <1>11, <2>1 DEF Readback, ApplyFails
<1>12. ASSUME (\E v \in Content : UserCopy(a, v)) \/ UNCHANGED vars PROVE NothingNew
  BY <1>5, <1>12 DEF UserCopy, vars, taskVars
<1>13. NothingNew
  BY <1>6, <1>8, <1>9, <1>10, <1>11, <1>12 DEF Quiet
<1>14. QED
  BY <1>4, <1>13

\* What a machine offers to a port is newer than what has gone through it.
LEMMA OfferStep ==
    ASSUME NEW a, NEW up, Follows(a, up), FlowInv(a, up), NEW q \in Port, Stream(q),
           NEW s \in Task, Carries(a, up, s), NEW r \in Port, Offer(s, r)
    PROVE  Stream(q)'
<1>1. /\ TypeOK /\ AtHead(a, up, s)
  BY DEF FlowInv, EchoInv, Basics, TasksAtHead, AtHead
<1>2. /\ UNCHANGED <<pc, held, seen, wire>> /\ pc[s] = "offer" /\ r \in todo[s]
      /\ todo' = [todo EXCEPT ![s] = @ \ {r}]
      /\ slot' = [slot EXCEPT ![r] = held[s]]
  BY DEF Offer, FlowInv, NothingBroken
<1>3. \A t \in Task : todo'[t] = IF t = s THEN todo[s] \ {r} ELSE todo[t]
  BY <1>1, <1>2 DEF TypeOK
<1>4. \A t \in Task : Pending(t)' \subseteq Pending(t)
  BY <1>2, <1>3 DEF Pending
<1>5. CASE q # r
  <2>1. slot'[q] = slot[q]
    BY <1>1, <1>2, <1>5 DEF TypeOK
  <2>2. QED
    BY <1>2, <1>4, <2>1, StreamKept
<1>6. CASE q = r
  <2>1. slot'[q] = held[s] /\ HomeOf(s) = NodeOf[q] /\ held[s] \in seen[NodeOf[q]]
    BY <1>1, <1>2, <1>6 DEF TypeOK, AtHead, Busy
  <2>2. Newer(q, held[s])
    BY <1>2, <1>6, <2>1 DEF Stream, Pending
  <2>3. ASSUME NEW t \in Task, HomeOf(t) = NodeOf[q] PROVE q \notin Pending(t)'
    <3>1. CASE t = s
      BY <1>2, <1>3, <1>6, <3>1 DEF Pending
    <3>2. CASE t # s
      BY <1>4, <2>1, <2>3, <3>2, Alone
    <3>3. QED
      BY <3>1, <3>2
  <2>4. Newer(q, held[s])'
    BY <1>2, <2>2 DEF Newer
  <2>5. QED
    BY <1>2, <2>1, <2>3, <2>4 DEF Stream
<1>7. QED
  BY <1>5, <1>6

LEMMA SendStep ==
    ASSUME NEW a, NEW up, Follows(a, up), FlowInv(a, up), NEW q \in Port, Stream(q),
           NEW p \in Port, Send(p)
    PROVE  Stream(q)'
<1>1. /\ TypeOK
  BY DEF FlowInv, EchoInv, Basics
<1>2. /\ UNCHANGED <<pc, held, todo, seen>> /\ slot[p] # NoClip
      /\ wire' = [wire EXCEPT ![PeerOf[p]] = Append(@, slot[p])]
      /\ slot' = [slot EXCEPT ![p] = NoClip]
  BY DEF Send, taskVars
<1>3. \A t : Pending(t)' = Pending(t)
  BY <1>2 DEF Pending
<1>4. CASE q # p
  <2>1. PeerOf[q] \in Port /\ PeerOf[q] # PeerOf[p]
    BY <1>4, Carriers
  <2>2. slot'[q] = slot[q] /\ wire'[PeerOf[q]] = wire[PeerOf[q]]
    BY <1>1, <1>2, <1>4, <2>1 DEF TypeOK
  <2>3. QED
    BY <1>2, <1>3, <2>2, StreamKept
<1>5. CASE q = p
  <2> DEFINE w == wire[PeerOf[q]]
  <2>1. w \in Seq(1 .. Len(clips)) /\ Len(w) \in Nat /\ slot[q] \in 1 .. Len(clips)
    <3>1. PeerOf[q] \in Port
      BY Carriers
    <3>2. slot[q] \in 0 .. Len(clips) /\ slot[q] # 0
      BY <1>1, <1>2, <1>5 DEF TypeOK, NoClip
    <3>3. QED
      BY <1>1, <3>1, <3>2, ClipsAreNumbers
  <2>2. /\ \A i \in 1 .. Len(w) : /\ w[i] \in seen[NodeOf[q]] /\ w[i] < slot[q]
                                  /\ \A d \in seen[Far(q)] : d < w[i]
                                  /\ \A j \in 1 .. Len(w) : j < i => w[j] < w[i]
        /\ slot[q] \in seen[NodeOf[q]] /\ \A d \in seen[Far(q)] : d < slot[q]
        /\ seen[Far(q)] \subseteq seen[NodeOf[q]]
    BY <1>2, <1>5 DEF Stream, Newer
  <2>3. ASSUME NEW t \in Task, HomeOf(t) = NodeOf[q], q \in Pending(t)
        PROVE  /\ slot[q] < held[t]
               /\ \A i \in 1 .. Len(w) : w[i] < held[t]
               /\ \A d \in seen[Far(q)] : d < held[t]
    BY <1>2, <1>5, <2>3 DEF Stream, Newer
  <2>4. wire'[PeerOf[q]] = Append(w, slot[q]) /\ slot'[q] = NoClip
    BY <1>1, <1>2, <1>5, Carriers DEF TypeOK
  <2> HIDE DEF w
  <2>5. /\ Len(Append(w, slot[q])) = Len(w) + 1
        /\ \A i \in 1 .. Len(w) : Append(w, slot[q])[i] = w[i]
        /\ Append(w, slot[q])[Len(w) + 1] = slot[q]
    BY <2>1
  <2> DEFINE x == wire'[PeerOf[q]]
  <2>6. /\ Len(x) = Len(w) + 1 /\ x[Len(w) + 1] = slot[q]
        /\ \A i \in 1 .. Len(w) : x[i] = w[i]
        /\ \A i \in 1 .. Len(x) : i \in 1 .. Len(w) \/ i = Len(w) + 1
    BY <2>1, <2>4, <2>5
  <2> HIDE DEF x
  <2>7. ASSUME NEW i \in 1 .. Len(x)
        PROVE  /\ x[i] \in seen[NodeOf[q]]
               /\ \A d \in seen[Far(q)] : d < x[i]
               /\ \A j \in 1 .. Len(x) : j < i => x[j] < x[i]
    <3>1. CASE i \in 1 .. Len(w)
      <4>1. \A j \in 1 .. Len(x) : j < i => j \in 1 .. Len(w)
        BY <2>1, <2>6, <3>1
      <4>2. QED
        BY <2>2, <2>6, <3>1, <4>1
    <3>2. CASE i = Len(w) + 1
      <4>1. \A j \in 1 .. Len(x) : j < i => j \in 1 .. Len(w)
        BY <2>1, <2>6, <3>2
      <4>2. QED
        BY <2>2, <2>6, <3>2, <4>1
    <3>3. QED
      BY <2>6, <3>1, <3>2
  <2>8. ASSUME NEW t \in Task, HomeOf(t) = NodeOf[q], q \in Pending(t)'
        PROVE  /\ \A i \in 1 .. Len(x) : x[i] < held[t]
               /\ \A d \in seen[Far(q)] : d < held[t]
    BY <1>3, <2>3, <2>6, <2>8
  <2>9. ASSUME NEW t \in Task, HomeOf(t) = NodeOf[q], q \in Pending(t)'
        PROVE  Newer(q, held[t])'
    BY <1>2, <2>8, <2>9 DEF Newer, x
  <2>10. QED
    BY <1>2, <2>2, <2>4, <2>7, <2>9 DEF Stream, x
<1>6. QED
  BY <1>4, <1>5

\* A clip just minted is newer than everything that has gone anywhere.
LEMMA MintStream ==
    ASSUME NEW a, NEW up, Follows(a, up), FlowInv(a, up), NEW q \in Port, Down(a, up, q),
           Stream(q), CaptureNew(a)
    PROVE  Stream(q)'
<1>1. TypeOK /\ a \in Node /\ a \in Task /\ HomeOf(a) = a /\ a \notin Port
  <2>1. TypeOK /\ a \in Node
    BY DEF FlowInv, EchoInv, Basics, Follows
  <2>2. QED
    BY <2>1, Carriers
<1>a. PICK c \in Nat : c = Len(clips) + 1
  BY <1>1, ClipsAreNumbers
<1>2. /\ UNCHANGED <<slot, wire, todo>>
      /\ seen' = [seen EXCEPT ![a] = @ \cup {c}]
      /\ held' = [held EXCEPT ![a] = c]
      /\ pc' = [pc EXCEPT ![a] = "broadcast"]
  BY <1>a DEF CaptureNew, linkVars
<1>3. /\ Far(q) \in Node /\ Far(q) # a /\ NodeOf[q] \in Node /\ PeerOf[q] \in Port
  BY Carriers DEF Down
<1>4. seen'[Far(q)] = seen[Far(q)] /\ seen[NodeOf[q]] \subseteq seen'[NodeOf[q]]
  BY <1>1, <1>2, <1>3 DEF TypeOK
<1>5. /\ held'[a] = c
      /\ \A t \in Task : t # a => pc'[t] = pc[t] /\ held'[t] = held[t] /\ todo'[t] = todo[t]
  BY <1>1, <1>2 DEF TypeOK
<1>6. \A t \in Task : t # a => Pending(t)' = Pending(t) /\ held'[t] = held[t]
  BY <1>5 DEF Pending
<1>7. CASE NodeOf[q] # a
  BY <1>1, <1>2, <1>4, <1>6, <1>7, StreamKept
<1>8. CASE NodeOf[q] = a
  <2>1. \A t \in Task : t # a /\ HomeOf(t) = a => Pending(t) = {}
    BY <1>1, Alone DEF Carries
  <2>2. ASSUME NEW t \in Task, HomeOf(t) = NodeOf[q], q \in Pending(t)' PROVE held'[t] = c
    BY <1>5, <1>6, <1>8, <2>1, <2>2
  <2>3. /\ \A d \in seen[Far(q)] : d < c
        /\ \A i \in 1 .. Len(wire[PeerOf[q]]) : wire[PeerOf[q]][i] < c
        /\ slot[q] < c
    <3>1. /\ Len(clips) \in Nat /\ \A d \in seen[Far(q)] : d \in 1 .. Len(clips)
          /\ slot[q] \in 0 .. Len(clips)
      BY <1>1, <1>3, ClipsAreNumbers DEF TypeOK
    <3>2. \A i \in 1 .. Len(wire[PeerOf[q]]) : wire[PeerOf[q]][i] \in seen[a]
      BY <1>8 DEF Stream
    <3>3. \A d \in seen[a] : d \in 1 .. Len(clips)
      BY <1>1 DEF TypeOK
    <3>4. QED
      BY <1>a, <3>1, <3>2, <3>3
  <2>4. Newer(q, c)'
    BY <1>2, <1>4, <2>3 DEF Newer
  <2>5. slot[q] # NoClip => Newer(q, slot[q])'
    BY <1>2, <1>4 DEF Stream, Newer
  <2>6. QED
    BY <1>2, <1>4, <2>2, <2>3, <2>4, <2>5 DEF Stream
<1>9. QED
  BY <1>7, <1>8

\* The head of wire[p] is newer than all that has gone on from the machine it reaches.
LEMMA ReceiveStream ==
    ASSUME NEW a, NEW up, Follows(a, up), FlowInv(a, up), NEW q \in Port, Down(a, up, q),
           Stream(q), NEW p \in Port, Carries(a, up, p), Receive(p)
    PROVE  Stream(q)'
<1>1. /\ TypeOK /\ p \in Task /\ HomeOf(p) = NodeOf[p] /\ NodeOf[p] \in Node
      /\ NodeOf[q] \in Node /\ Far(q) \in Node /\ PeerOf[q] \in Port /\ PeerOf[p] \in Port
      /\ PeerOf[PeerOf[q]] = q /\ PeerOf[PeerOf[p]] = p
  BY Carriers DEF FlowInv, EchoInv, Basics
<1>2. wire[p] # <<>>
  BY DEF Receive
<1>3. PICK c : /\ c = Head(wire[p]) /\ c = wire[p][1] /\ c \in 1 .. Len(clips)
               /\ \A d \in seen[NodeOf[p]] : d < c
               /\ c \notin seen[NodeOf[p]]
  BY <1>2, Arrives
<1>4. /\ seen' = [seen EXCEPT ![NodeOf[p]] = @ \cup {c}]
      /\ pc' = [pc EXCEPT ![p] = "broadcast"]
      /\ held' = [held EXCEPT ![p] = c]
      /\ wire' = [wire EXCEPT ![p] = Tail(wire[p])]
      /\ UNCHANGED <<slot, todo>>
  BY <1>3 DEF Receive
<1>5. /\ held'[p] = c
      /\ \A t \in Task : t # p => pc'[t] = pc[t] /\ held'[t] = held[t] /\ todo'[t] = todo[t]
  BY <1>1, <1>4 DEF TypeOK
<1>6. /\ \A t \in Task : t # p => Pending(t)' = Pending(t)
      /\ \A r : r \in Pending(p)' => NodeOf[r] = NodeOf[p] /\ r # p
  BY <1>1, <1>4, <1>5 DEF Pending, TypeOK
<1>7. seen[NodeOf[q]] \subseteq seen'[NodeOf[q]]
  BY <1>1, <1>4 DEF TypeOK
<1>8. CASE q = PeerOf[p]
  <2>1. /\ NodeOf[q] # NodeOf[p] /\ Far(q) = NodeOf[p] /\ PeerOf[q] = p
        /\ Len(Tail(wire[p])) = Len(wire[p]) - 1
        /\ \A i \in 1 .. Len(wire[p]) - 1 : Tail(wire[p])[i] = wire[p][i + 1]
        /\ 1 \in 1 .. Len(wire[p]) /\ c \in seen[NodeOf[q]] /\ Len(wire[p]) \in Nat
    BY <1>1, <1>2, <1>3, <1>8, Arrives, ClipsAreNumbers
  <2>2. /\ seen'[Far(q)] = seen[Far(q)] \cup {c} /\ seen'[NodeOf[q]] = seen[NodeOf[q]]
        /\ slot'[q] = slot[q] /\ wire'[PeerOf[q]] = Tail(wire[p])
    BY <1>1, <1>4, <2>1 DEF TypeOK
  <2>3. /\ seen'[Far(q)] \subseteq seen'[NodeOf[q]]
    BY <2>1, <2>2 DEF Stream
  <2>4. \A i \in 1 .. Len(Tail(wire[p])) :
            /\ i + 1 \in 1 .. Len(wire[p]) /\ 1 < i + 1 /\ Tail(wire[p])[i] = wire[p][i + 1]
    BY <2>1
  <2>5. ASSUME NEW i \in 1 .. Len(Tail(wire[p]))
        PROVE  /\ Tail(wire[p])[i] \in seen'[NodeOf[q]]
               /\ \A d \in seen'[Far(q)] : d < Tail(wire[p])[i]
               /\ \A j \in 1 .. Len(Tail(wire[p])) :
                     j < i => Tail(wire[p])[j] < Tail(wire[p])[i]
    <3>1. wire[p][i + 1] \in seen[NodeOf[q]] /\ \A d \in seen[Far(q)] : d < wire[p][i + 1]
      BY <2>1, <2>4 DEF Stream
    <3>2. c < wire[p][i + 1]
      BY <1>3, <2>1, <2>4 DEF Stream
    <3>3. ASSUME NEW j \in 1 .. Len(Tail(wire[p])), j < i
          PROVE  Tail(wire[p])[j] < Tail(wire[p])[i]
      <4>1. j + 1 < i + 1 /\ j + 1 \in 1 .. Len(wire[p]) /\ i + 1 \in 1 .. Len(wire[p])
        BY <2>1, <2>4, <3>3
      <4>2. wire[p][j + 1] < wire[p][i + 1]
        BY <2>1, <4>1 DEF Stream
      <4>3. QED
        BY <2>4, <4>2
    <3>4. QED
      BY <2>2, <2>4, <3>1, <3>2, <3>3
  <2>6. ASSUME NEW x, Newer(q, x) PROVE Newer(q, x)'
    <3>1. c < x
      BY <1>3, <2>1, <2>6 DEF Newer
    <3>2. \A i \in 1 .. Len(Tail(wire[p])) : Tail(wire[p])[i] < x
      BY <2>1, <2>4, <2>6 DEF Newer
    <3>3. QED
      BY <2>2, <2>6, <3>1, <3>2 DEF Newer
  <2>7. ASSUME NEW t \in Task, HomeOf(t) = NodeOf[q], q \in Pending(t)'
        PROVE  Newer(q, held[t])' /\ (slot'[q] # NoClip => slot'[q] < held'[t])
    <3>1. t # p
      BY <1>1, <2>1, <2>7
    <3>2. q \in Pending(t) /\ held'[t] = held[t]
      BY <1>5, <1>6, <2>7, <3>1
    <3>3. PICK x : x = held[t]
      OBVIOUS
    <3>4. Newer(q, x) /\ (slot[q] # NoClip => slot[q] < x)
      BY <2>7, <3>2, <3>3 DEF Stream
    <3>5. Newer(q, x)'
      BY <2>6, <3>4
    <3>6. QED
      BY <2>2, <3>2, <3>3, <3>4, <3>5 DEF Newer
  <2>8. slot'[q] # NoClip => slot'[q] \in seen'[NodeOf[q]] /\ Newer(q, slot[q])'
    <3>1. PICK x : x = slot[q]
      OBVIOUS
    <3>2. x # NoClip => x \in seen[NodeOf[q]] /\ Newer(q, x)'
      BY <2>6, <3>1 DEF Stream
    <3>3. QED
      BY <2>2, <3>1, <3>2 DEF Newer
  <2>9. QED
    BY <2>2, <2>3, <2>5, <2>7, <2>8 DEF Stream
<1>9. CASE q # PeerOf[p]
  <2>1. Far(q) # NodeOf[p]
    <3>1. Down(a, up, PeerOf[p]) /\ Far(PeerOf[p]) = NodeOf[p]
      BY <1>2, Arrives
    <3>2. QED
      BY <1>1, <1>9, <3>1, Carriers
  <2>2. PeerOf[q] # p
    BY <1>1, <1>9
  <2>3. seen'[Far(q)] = seen[Far(q)] /\ wire'[PeerOf[q]] = wire[PeerOf[q]] /\ slot'[q] = slot[q]
    BY <1>1, <1>4, <2>1, <2>2 DEF TypeOK
  <2>4. CASE NodeOf[q] # NodeOf[p] \/ q = p
    <3>1. \A t \in Task : HomeOf(t) = NodeOf[q] /\ q \in Pending(t)' =>
                              q \in Pending(t) /\ held'[t] = held[t]
      BY <1>1, <1>5, <1>6, <2>4
    <3>2. QED
      BY <1>7, <2>3, <3>1, StreamKept
  <2>5. CASE NodeOf[q] = NodeOf[p] /\ q # p
    <3>1. \A t \in Task : t # p /\ HomeOf(t) = NodeOf[p] => Pending(t)' = {}
      BY <1>1, <1>6, Alone
    <3>2. ASSUME NEW t \in Task, HomeOf(t) = NodeOf[q], q \in Pending(t)' PROVE held'[t] = c
      BY <1>5, <2>5, <3>1, <3>2
    <3>3. /\ \A d \in seen[Far(q)] : d < c
          /\ \A i \in 1 .. Len(wire[PeerOf[q]]) : wire[PeerOf[q]][i] < c
          /\ slot[q] # NoClip => slot[q] < c
      BY <1>3, <2>5 DEF Stream
    <3>4. Newer(q, c)'
      BY <2>3, <3>3 DEF Newer
    <3>5. slot[q] # NoClip => Newer(q, slot[q])'
      BY <1>4, <2>3 DEF Stream, Newer
    <3>6. QED
      BY <1>7, <2>3, <3>2, <3>3, <3>4, <3>5 DEF Stream, Newer
  <2>6. QED
    BY <2>4, <2>5
<1>10. QED
  BY <1>8, <1>9

LEMMA StreamsStep ==
    ASSUME NEW a, NEW up, Follows(a, up), FlowInv(a, up), Calm(a, up)
    PROVE  StreamsInOrder(a, up)'
<1>1. SUFFICES ASSUME NEW q \in Port
               PROVE  IF Down(a, up, q) THEN Stream(q)' ELSE slot'[q] = NoClip /\ wire'[PeerOf[q]] = <<>>
  BY DEF StreamsInOrder, Down, Far
<1>2. CASE ~Down(a, up, q)
  BY <1>2, UpstreamStep
<1>3. ASSUME Down(a, up, q) PROVE Stream(q)'
  <2>1. Stream(q)
    BY <1>3 DEF FlowInv, StreamsInOrder
  <2>2. CASE Quiet(a)
    <3>1. seen' = seen /\ slot' = slot /\ wire' = wire /\ NothingNew
      BY <2>2, QuietBringsNothing
    <3>2. \A t \in Task : q \in Pending(t)' => q \in Pending(t) /\ held'[t] = held[t]
      BY <3>1 DEF NothingNew
    <3>3. QED
      BY <2>1, <3>1, <3>2, StreamKept
  <2>3. CASE CaptureNew(a)
    BY <1>3, <2>1, <2>3, MintStream
  <2>4. ASSUME NEW t \in Task, Carries(a, up, t), NEW r \in Port, Offer(t, r) PROVE Stream(q)'
    BY <2>1, <2>4, OfferStep
  <2>5. ASSUME NEW p \in Port, Send(p) PROVE Stream(q)'
    BY <2>1, <2>5, SendStep
  <2>6. ASSUME NEW p \in Port, Carries(a, up, p), Receive(p) PROVE Stream(q)'
    BY <1>3, <2>1, <2>6, ReceiveStream
  <2>7. \/ Quiet(a) \/ CaptureNew(a)
        \/ \E t \in Task : Carries(a, up, t) /\ \E r \in Port : Offer(t, r)
        \/ \E p \in Port : Send(p)
        \/ \E p \in Port : Carries(a, up, p) /\ Receive(p)
    BY DEF Calm, Quiet, Spread, Handling
  <2>8. QED
    BY <2>2, <2>3, <2>4, <2>5, <2>6, <2>7
<1>4. QED
  BY <1>2, <1>3

LEMMA FlowStep ==
    ASSUME NEW a, NEW up, Follows(a, up), FlowInv(a, up), [Next]_vars
    PROVE  FlowInv(a, up)' /\ Calm(a, up)
<1>1. Calm(a, up)
  BY StaysCalm
<1>2. EchoInv'
  BY BasicsStep, GuardedStep, EchoStep DEF FlowInv, EchoInv
<1>3. NothingBroken' /\ FollowersPaste(a)' /\ CopiesMinted(a)'
  BY <1>1, NothingBreaks, PasteStep, MintedStep
<1>4. TasksAtHead(a, up)' /\ ShownInOrder' /\ StreamsInOrder(a, up)'
  BY <1>1, HeadStep, ShownStep, StreamsStep
<1>5. QED
  BY <1>1, <1>2, <1>3, <1>4 DEF FlowInv

\* The newest clip is published where only older ones were.
LEMMA ShowStep ==
    ASSUME NEW a, NEW up, Follows(a, up), FlowInv(a, up),
           NEW p \in Port, Carries(a, up, p), PublishClip(p)
    PROVE  Replica!Next
<1> DEFINE n == NodeOf[p]
           s == applied[n]
<1>1. TypeOK /\ TasksInOrder /\ ShownInOrder
  BY DEF FlowInv, EchoInv, Basics
<1>2. /\ pc[p] = "publish" /\ UNCHANGED <<held, clips>>
      /\ applied' = [applied EXCEPT ![n] = Append(@, held[p])]
  BY DEF PublishClip, watcherVars
<1>3. p \in Task /\ n \in Node /\ n \in Node \ Copiers
  <2>1. p \in Task /\ n \in Node /\ p # a
    BY Carriers
  <2>2. QED
    BY <2>1 DEF Carries, Follows
<1>4. /\ s \in Seq(1 .. Len(clips)) /\ Len(s) \in Nat /\ \A i \in 1 .. Len(s) : s[i] \in Nat
      /\ held[p] \in Nat /\ held[p] # 0 /\ held[p] <= Len(clips) /\ Len(clips) \in Nat
  BY <1>1, <1>2, <1>3, ClipsAreNumbers DEF TasksInOrder, Busy, NoClip
<1>5. \A i \in 1 .. Len(s) : s[i] < held[p]
  BY <1>1, <1>2, <1>3 DEF ShownInOrder
<1>6. /\ applied'[n] = Append(s, held[p])
      /\ \A m \in Node : m # n => applied'[m] = applied[m]
  BY <1>1, <1>2, <1>3 DEF TypeOK
<1>7. Shown(n) \in Nat /\ Shown(n) < held[p]
  <2>1. CASE s = <<>>
    BY <1>4, <2>1 DEF Shown, NoClip
  <2>2. CASE s # <<>>
    <3>1. Len(s) \in 1 .. Len(s)
      BY <1>4, <2>2, EmptySeq
    <3>2. QED
      BY <1>4, <1>5, <2>2, <3>1 DEF Shown
  <2>3. QED
    BY <2>1, <2>2
<1>8. Shown(n)' = held[p]
  <2>1. /\ Append(s, held[p]) # <<>>
        /\ Append(s, held[p])[Len(Append(s, held[p]))] = held[p]
    BY <1>4
  <2>2. QED
    BY <1>6, <2>1 DEF Shown
<1> HIDE DEF n, s
<1>9. \A m \in Node : m # n => Shown(m)' = Shown(m)
  BY <1>6 DEF Shown
<1>10. [m \in Node \ Copiers |-> Shown(m)]'
         = [[m \in Node \ Copiers |-> Shown(m)] EXCEPT ![n] = held[p]]
  BY <1>3, <1>8, <1>9
<1>11. Replica!Show(n)
  <2>1. [m \in Node \ Copiers |-> Shown(m)][n] = Shown(n)
    BY <1>3
  <2>2. held[p] \in Shown(n) + 1 .. Len(clips)
    BY <1>4, <1>7
  <2>3. QED
    BY <1>2, <1>10, <2>1, <2>2 DEF Replica!Show
<1>12. QED
  BY <1>3, <1>11 DEF Replica!Next

LEMMA FollowStep ==
    ASSUME NEW a, NEW up, Follows(a, up), FlowInv(a, up), Calm(a, up)
    PROVE  [Replica!Next]_(Replica!vars)
<1>1. ASSUME UNCHANGED <<clips, applied>> PROVE UNCHANGED Replica!vars
  BY <1>1 DEF Replica!vars, Shown
<1>2. CASE CaptureNew(a)
  <2>1. TypeOK /\ CopiesMinted(a)
    BY DEF FlowInv, EchoInv, Basics
  <2>2. Len(clips) < MaxCopies
    BY <1>2, <2>1, MeshAssumption DEF CaptureNew, CopiesMinted, TypeOK
  <2>3. Len(clips') = Len(clips) + 1 /\ UNCHANGED applied
    BY <1>2, <2>1 DEF CaptureNew, TypeOK, historyVars
  <2>4. UNCHANGED [n \in Node \ Copiers |-> Shown(n)]
    BY <2>3 DEF Shown
  <2>5. QED
    BY <2>2, <2>3, <2>4 DEF Replica!Next, Replica!Mint
<1>3. ASSUME NEW p \in Port, Carries(a, up, p), PublishClip(p) PROVE Replica!Next
  BY <1>3, ShowStep
<1>4. CASE \/ \E v \in Content : UserCopy(a, v)
           \/ \E n \in Node : Wake(n) \/ CaptureNothingNew(n) \/ WatcherDone(n)
           \/ \E t \in Task : Spread(t)
           \/ \E p \in Port : \/ Receive(p) \/ AcquireLock(p) \/ Readback(p) \/ ApplyFails(p)
                              \/ Send(p)
           \/ UNCHANGED vars
  BY <1>1, <1>4 DEF UserCopy, Wake, CaptureNothingNew, WatcherDone, Spread, Broadcast, Offer,
     Receive, AcquireLock, Readback, ApplyFails, Send, vars, watcherVars, historyVars
<1>5. QED
  BY <1>2, <1>3, <1>4 DEF Calm, Handling

\* However relays, newest-value channels and slow handlers interleave, and whichever
\* publications fail, every machine that follows shows ever newer clips of the one that
\* copies, each minted for a copy of its own: the mesh implements NewestClip, but for
\* what must happen eventually, on any mesh without cycles.
THEOREM FollowersAdvance ==
    ASSUME NEW a, NEW up, Follows(a, up)
    PROVE  Spec => Replica!Init /\ [][Replica!Next]_(Replica!vars)
<1>1. Init => FlowInv(a, up) /\ Replica!Init
  <2>1. ASSUME Init PROVE Replica!Init
    BY <2>1 DEF Init, Replica!Init, Shown, NoClip
  <2>2. QED
    BY <2>1, FlowInit
<1>2. FlowInv(a, up) /\ [Next]_vars => FlowInv(a, up)' /\ [Replica!Next]_(Replica!vars)
  BY FlowStep, FollowStep
<1>3. QED
  BY <1>1, <1>2, PTL DEF Spec

-----------------------------------------------------------------------------
(* Nothing is left behind: what skips and drops on the way are old clips.  *)

\* A clip as new as c is behind port q, or on its way there.
OnItsWay(q, c) ==
    \/ \E d \in seen[Far(q)] : c <= d
    \/ \E i \in 1 .. Len(wire[PeerOf[q]]) : c <= wire[PeerOf[q]][i]
    \/ c <= slot[q]
    \/ \E t \in Task : HomeOf(t) = NodeOf[q] /\ q \in Pending(t) /\ c <= held[t]

NothingLost(a, up) ==
    \A q \in Port : Down(a, up, q) => \A c \in seen[NodeOf[q]] : OnItsWay(q, c)

\* The step takes port q from no broadcast that has still to reach it.
NothingGone(q) ==
    \A t \in Task : HomeOf(t) = NodeOf[q] /\ q \in Pending(t) =>
                       q \in Pending(t)' /\ held'[t] = held[t]

LEMMA WayKept ==
    ASSUME NEW q \in Port, NEW c, OnItsWay(q, c), NothingGone(q),
           seen[Far(q)] \subseteq seen'[Far(q)],
           wire'[PeerOf[q]] = wire[PeerOf[q]],
           slot'[q] = slot[q]
    PROVE  OnItsWay(q, c)'
<1>1. CASE \E d \in seen[Far(q)] : c <= d
  BY <1>1 DEF OnItsWay
<1>2. CASE \E i \in 1 .. Len(wire[PeerOf[q]]) : c <= wire[PeerOf[q]][i]
  BY <1>2 DEF OnItsWay
<1>3. CASE c <= slot[q]
  BY <1>3 DEF OnItsWay
<1>4. ASSUME NEW t \in Task, HomeOf(t) = NodeOf[q], q \in Pending(t), c <= held[t]
      PROVE  OnItsWay(q, c)'
  <2>1. q \in Pending(t)' /\ c <= held'[t]
    BY <1>4 DEF NothingGone
  <2>2. QED
    BY <1>4, <2>1 DEF OnItsWay
<1>5. QED
  BY <1>1, <1>2, <1>3, <1>4 DEF OnItsWay

\* A step of one task takes nothing from the broadcasts of the others.
LEMMA OthersPend ==
    ASSUME TypeOK, NEW s \in Task, NEW x,
           pc' = [pc EXCEPT ![s] = x],
           \A t \in Task : t # s => todo'[t] = todo[t] /\ held'[t] = held[t],
           NEW q \in Port, q \in Pending(s) => q \in Pending(s)' /\ held'[s] = held[s]
    PROVE  NothingGone(q)
<1>1. SUFFICES ASSUME NEW t \in Task, q \in Pending(t)
               PROVE  q \in Pending(t)' /\ held'[t] = held[t]
  BY DEF NothingGone
<1>2. CASE t = s
  BY <1>1, <1>2
<1>3. CASE t # s
  BY <1>1, <1>3 DEF Pending, TypeOK
<1>4. QED
  BY <1>2, <1>3

LEMMA QuietLosesNothing ==
    ASSUME NEW a, NEW up, Follows(a, up), FlowInv(a, up), Quiet(a), NEW q \in Port
    PROVE  NothingGone(q)
<1>1. TypeOK /\ \A t \in Task : AtHead(a, up, t)
  BY DEF FlowInv, EchoInv, Basics, TasksAtHead, AtHead
<1>2. \A n \in Node : n \in Task
  BY DEF Task
<1>3. \A p \in Port : p \in Task
  BY Carriers
<1>4. CASE UNCHANGED <<pc, held, todo>>
  <2>1. \A t : Pending(t)' = Pending(t) /\ held'[t] = held[t]
    BY <1>4 DEF Pending
  <2>2. QED
    BY <2>1 DEF NothingGone
<1>5. ASSUME NEW n \in Node, Wake(n) \/ CaptureNothingNew(n) PROVE NothingGone(q)
  <2>1. /\ UNCHANGED <<held, todo>> /\ pc[n] \in {"idle", "capture"}
        /\ \E x \in {"idle", "capture"} : pc' = [pc EXCEPT ![n] = x]
    BY <1>5 DEF Wake, CaptureNothingNew
  <2>2. Pending(n) = {}
    BY <1>1, <1>2, <2>1 DEF Pending, AtHead
  <2>3. QED
    BY <1>1, <1>2, <2>1, <2>2, OthersPend
<1>6. ASSUME NEW s \in Task, Rest(s), UNCHANGED todo, todo[s] = {}, pc[s] # "broadcast"
      PROVE  NothingGone(q)
  <2>1. pc' = [pc EXCEPT ![s] = "idle"] /\ held' = [held EXCEPT ![s] = NoClip]
    BY <1>6 DEF Rest
  <2>2. \A t \in Task : t # s => held'[t] = held[t]
    BY <1>1, <2>1 DEF TypeOK
  <2>3. Pending(s) = {}
    BY <1>6 DEF Pending
  <2>4. QED
    BY <1>1, <1>6, <2>1, <2>2, <2>3, OthersPend
<1>7. ASSUME NEW p \in Port, AcquireLock(p) \/ PublishClip(p) PROVE NothingGone(q)
  <2>1. /\ UNCHANGED <<held, todo>> /\ pc[p] # "broadcast"
        /\ \E x \in {"publish", "readback"} : pc' = [pc EXCEPT ![p] = x]
        /\ todo[p] = {}
    BY <1>1, <1>3, <1>7 DEF AcquireLock, PublishClip, AtHead
  <2>2. Pending(p) = {}
    BY <2>1 DEF Pending
  <2>3. QED
    BY <1>1, <1>3, <2>1, <2>2, OthersPend
<1>8. ASSUME NEW s \in Task, Broadcast(s) PROVE NothingGone(q)
  <2>1. /\ UNCHANGED <<held, link>> /\ pc[s] = "broadcast" /\ pc' = [pc EXCEPT ![s] = "offer"]
        /\ todo' = [todo EXCEPT ![s] = Targets(s)]
    BY <1>8 DEF Broadcast, linkVars
  <2>2. todo'[s] = Targets(s) /\ pc'[s] = "offer" /\ \A t \in Task : t # s => todo'[t] = todo[t]
    BY <1>1, <2>1 DEF TypeOK
  <2>3. q \in Pending(s) => q \in Targets(s)
    BY <2>1 DEF Pending, Targets, FlowInv, NothingBroken
  <2>4. q \in Pending(s) => q \in Pending(s)'
    BY <2>2, <2>3 DEF Pending
  <2>5. QED
    BY <1>1, <2>1, <2>2, <2>4, OthersPend
<1>9. ASSUME NEW n \in Node, WatcherDone(n) PROVE NothingGone(q)
  BY <1>2, <1>6, <1>9 DEF WatcherDone
<1>10. ASSUME NEW p \in Port, Readback(p) \/ ApplyFails(p) PROVE NothingGone(q)
  <2>1. todo[p] = {} /\ pc[p] # "broadcast"
    BY <1>1, <1>3, <1>10 DEF Readback, ApplyFails, AtHead
  <2>2. QED
    BY <1>3, <1>6, <1>10, <2>1 DEF Readback, ApplyFails
<1>11. ASSUME (\E v \in Content : UserCopy(a, v)) \/ UNCHANGED vars PROVE NothingGone(q)
  BY <1>4, <1>11 DEF UserCopy, vars, taskVars
<1>12. QED
  BY <1>5, <1>7, <1>8, <1>9, <1>10, <1>11 DEF Quiet

\* What takes the place of a clip in a newest-value channel is newer.
LEMMA OfferLosesNothing ==
    ASSUME NEW a, NEW up, Follows(a, up), FlowInv(a, up), NEW q \in Port, Stream(q),
           NEW c \in seen[NodeOf[q]], OnItsWay(q, c),
           NEW s \in Task, Carries(a, up, s), NEW r \in Port, Offer(s, r)
    PROVE  OnItsWay(q, c)'
<1>1. TypeOK /\ AtHead(a, up, s)
  BY DEF FlowInv, EchoInv, Basics, TasksAtHead, AtHead
<1>2. /\ UNCHANGED <<pc, held, seen, wire>> /\ pc[s] = "offer" /\ r \in todo[s]
      /\ todo' = [todo EXCEPT ![s] = @ \ {r}]
      /\ slot' = [slot EXCEPT ![r] = held[s]]
  BY DEF Offer, FlowInv, NothingBroken
<1>3. \A t \in Task : todo'[t] = IF t = s THEN todo[s] \ {r} ELSE todo[t]
  BY <1>1, <1>2 DEF TypeOK
<1>4. CASE q # r
  <2>1. slot'[q] = slot[q]
    BY <1>1, <1>2, <1>4 DEF TypeOK
  <2>2. NothingGone(q)
    BY <1>2, <1>3, <1>4 DEF NothingGone, Pending
  <2>3. QED
    BY <1>2, <2>1, <2>2, WayKept
<1>5. CASE q = r
  <2>1. /\ slot'[q] = held[s] /\ HomeOf(s) = NodeOf[q] /\ q \in Pending(s)
        /\ c \in Nat /\ c >= 1 /\ slot[q] \in Nat /\ held[s] \in Nat
    <3>1. NodeOf[q] \in Node
      BY Carriers
    <3>2. QED
      BY <1>1, <1>2, <1>5, <3>1, ClipsAreNumbers DEF TypeOK, AtHead, Pending
  <2>2. c <= slot[q] => c <= held[s]
    BY <2>1 DEF Stream, NoClip
  <2>3. ASSUME NEW t \in Task, HomeOf(t) = NodeOf[q], q \in Pending(t) PROVE t = s
    BY <2>1, <2>3, Alone
  <2>4. CASE c <= slot[q] \/ \E t \in Task : HomeOf(t) = NodeOf[q] /\ q \in Pending(t) /\ c <= held[t]
    <3>1. c <= slot'[q]
      BY <2>1, <2>2, <2>3, <2>4
    <3>2. QED
      BY <3>1 DEF OnItsWay
  <2>5. CASE \/ \E d \in seen[Far(q)] : c <= d
             \/ \E i \in 1 .. Len(wire[PeerOf[q]]) : c <= wire[PeerOf[q]][i]
    BY <1>2, <2>5 DEF OnItsWay
  <2>6. QED
    BY <2>4, <2>5 DEF OnItsWay
<1>6. QED
  BY <1>4, <1>5

LEMMA SendLosesNothing ==
    ASSUME NEW a, NEW up, Follows(a, up), FlowInv(a, up), NEW q \in Port, NEW c,
           OnItsWay(q, c), NEW p \in Port, Send(p)
    PROVE  OnItsWay(q, c)'
<1>1. TypeOK
  BY DEF FlowInv, EchoInv, Basics
<1>2. /\ UNCHANGED <<pc, held, todo, seen>>
      /\ wire' = [wire EXCEPT ![PeerOf[p]] = Append(@, slot[p])]
      /\ slot' = [slot EXCEPT ![p] = NoClip]
  BY DEF Send, taskVars
<1>3. NothingGone(q)
  BY <1>2 DEF NothingGone, Pending
<1>4. CASE q # p
  <2>1. PeerOf[q] \in Port /\ PeerOf[q] # PeerOf[p]
    BY <1>4, Carriers
  <2>2. slot'[q] = slot[q] /\ wire'[PeerOf[q]] = wire[PeerOf[q]]
    BY <1>1, <1>2, <1>4, <2>1 DEF TypeOK
  <2>3. QED
    BY <1>2, <1>3, <2>2, WayKept
<1>5. CASE q = p
  <2> DEFINE w == wire[PeerOf[q]]
             x == wire'[PeerOf[q]]
  <2>1. w \in Seq(1 .. Len(clips)) /\ Len(w) \in Nat /\ x = Append(w, slot[q])
    <3>1. PeerOf[q] \in Port
      BY Carriers
    <3>2. QED
      BY <1>1, <1>2, <1>5, <3>1, ClipsAreNumbers DEF TypeOK
  <2> HIDE DEF w, x
  <2>2. /\ Len(w) + 1 \in 1 .. Len(x) /\ x[Len(w) + 1] = slot[q]
        /\ \A i \in 1 .. Len(w) : i \in 1 .. Len(x) /\ x[i] = w[i]
    BY <2>1
  <2>3. CASE c <= slot[q]
    BY <2>2, <2>3 DEF OnItsWay, x
  <2>4. CASE \E i \in 1 .. Len(w) : c <= w[i]
    BY <2>2, <2>4 DEF OnItsWay, x
  <2>5. CASE \E d \in seen[Far(q)] : c <= d
    BY <1>2, <2>5 DEF OnItsWay
  <2>6. ASSUME NEW t \in Task, HomeOf(t) = NodeOf[q], q \in Pending(t), c <= held[t]
        PROVE  OnItsWay(q, c)'
    <3>1. q \in Pending(t)' /\ c <= held'[t]
      BY <1>3, <2>6 DEF NothingGone
    <3>2. QED
      BY <2>6, <3>1 DEF OnItsWay
  <2>7. QED
    BY <2>3, <2>4, <2>5, <2>6 DEF OnItsWay, w
<1>6. QED
  BY <1>4, <1>5

\* A clip just minted is sent by every port; what a handler has taken from a wire is
\* seen, and sent on by every other port.
LEMMA MintLosesNothing ==
    ASSUME NEW a, NEW up, Follows(a, up), FlowInv(a, up), NothingLost(a, up),
           NEW q \in Port, Down(a, up, q), NEW c \in seen'[NodeOf[q]], CaptureNew(a)
    PROVE  OnItsWay(q, c)'
<1>1. TypeOK /\ AtHead(a, up, a) /\ a \in Node /\ a \in Task /\ HomeOf(a) = a /\ a \notin Port
  <2>1. TypeOK /\ a \in Node
    BY DEF FlowInv, EchoInv, Basics, Follows
  <2>2. QED
    BY <2>1, Carriers DEF FlowInv, TasksAtHead, AtHead
<1>a. PICK k \in Nat : k = Len(clips) + 1
  BY <1>1, ClipsAreNumbers
<1>2. /\ UNCHANGED <<slot, wire, todo>> /\ pc[a] = "capture"
      /\ seen' = [seen EXCEPT ![a] = @ \cup {k}]
      /\ held' = [held EXCEPT ![a] = k]
      /\ pc' = [pc EXCEPT ![a] = "broadcast"]
  BY <1>a DEF CaptureNew, linkVars
<1>3. /\ Far(q) \in Node /\ NodeOf[q] \in Node
      /\ held'[a] = k /\ pc'[a] = "broadcast"
      /\ \A t \in Task : t # a => held'[t] = held[t] /\ todo'[t] = todo[t]
  BY <1>1, <1>2, Carriers DEF TypeOK
<1>4. CASE NodeOf[q] = a
  <2>1. q \in Pending(a)'
    BY <1>1, <1>3, <1>4 DEF Pending
  <2>2. c <= k
    <3>1. seen'[a] = seen[a] \cup {k}
      BY <1>1, <1>2 DEF TypeOK
    <3>2. \A d \in seen[a] : d \in Nat /\ d <= Len(clips) /\ Len(clips) \in Nat
      BY <1>1, ClipsAreNumbers
    <3>3. QED
      BY <1>a, <1>4, <3>1, <3>2
  <2>3. QED
    BY <1>1, <1>3, <1>4, <2>1, <2>2 DEF OnItsWay
<1>5. CASE NodeOf[q] # a
  <2>1. c \in seen[NodeOf[q]] /\ seen[Far(q)] \subseteq seen'[Far(q)]
    BY <1>1, <1>2, <1>3, <1>5 DEF TypeOK
  <2>2. OnItsWay(q, c)
    BY <2>1 DEF NothingLost
  <2>3. Pending(a) = {}
    BY <1>1, <1>2 DEF Pending, AtHead
  <2>4. NothingGone(q)
    BY <1>1, <1>2, <1>3, <2>3, OthersPend
  <2>5. QED
    BY <1>2, <2>1, <2>2, <2>4, WayKept
<1>6. QED
  BY <1>4, <1>5

LEMMA ReceiveLosesNothing ==
    ASSUME NEW a, NEW up, Follows(a, up), FlowInv(a, up), NothingLost(a, up),
           NEW q \in Port, Down(a, up, q), NEW c \in seen'[NodeOf[q]],
           NEW p \in Port, Carries(a, up, p), Receive(p)
    PROVE  OnItsWay(q, c)'
<1>1. /\ TypeOK /\ AtHead(a, up, p) /\ p \in Task /\ HomeOf(p) = NodeOf[p] /\ NodeOf[p] \in Node
      /\ NodeOf[q] \in Node /\ Far(q) \in Node /\ PeerOf[q] \in Port /\ PeerOf[p] # p
      /\ PeerOf[PeerOf[q]] = q /\ PeerOf[PeerOf[p]] = p
  BY Carriers DEF FlowInv, EchoInv, Basics, TasksAtHead, AtHead
<1>2. wire[p] # <<>> /\ pc[p] = "idle"
  BY DEF Receive
<1>3. PICK k : /\ k = Head(wire[p]) /\ k = wire[p][1] /\ k \in 1 .. Len(clips)
               /\ \A d \in seen[NodeOf[p]] : d < k
               /\ k \notin seen[NodeOf[p]] /\ k \in seen[NodeOf[PeerOf[p]]]
               /\ NodeOf[PeerOf[p]] # NodeOf[p]
               /\ Len(Tail(wire[p])) = Len(wire[p]) - 1
               /\ \A i \in 1 .. Len(wire[p]) - 1 : Tail(wire[p])[i] = wire[p][i + 1]
  BY <1>2, Arrives
<1>4. /\ seen' = [seen EXCEPT ![NodeOf[p]] = @ \cup {k}]
      /\ pc' = [pc EXCEPT ![p] = "broadcast"]
      /\ held' = [held EXCEPT ![p] = k]
      /\ wire' = [wire EXCEPT ![p] = Tail(wire[p])]
      /\ UNCHANGED <<slot, todo>>
  BY <1>3 DEF Receive
<1>5. /\ held'[p] = k /\ pc'[p] = "broadcast"
      /\ \A t \in Task : t # p => held'[t] = held[t] /\ todo'[t] = todo[t]
      /\ seen'[NodeOf[p]] = seen[NodeOf[p]] \cup {k}
      /\ \A n \in Node : n # NodeOf[p] => seen'[n] = seen[n]
  BY <1>1, <1>4 DEF TypeOK
<1>6. NothingGone(q) /\ seen[Far(q)] \subseteq seen'[Far(q)] /\ slot'[q] = slot[q]
  <2>1. Pending(p) = {}
    BY <1>1, <1>2 DEF Pending, AtHead
  <2>2. NothingGone(q)
    BY <1>1, <1>4, <1>5, <2>1, OthersPend
  <2>3. QED
    BY <1>1, <1>4, <1>5, <2>2
<1>7. CASE q = PeerOf[p]
  <2>1. /\ Far(q) = NodeOf[p] /\ PeerOf[q] = p /\ c \in seen[NodeOf[q]]
        /\ Len(wire[p]) \in Nat
    BY <1>1, <1>3, <1>5, <1>7, ClipsAreNumbers DEF Far
  <2>2. OnItsWay(q, c) /\ wire'[PeerOf[q]] = Tail(wire[p])
    BY <1>1, <1>4, <2>1 DEF NothingLost, TypeOK
  <2>3. ASSUME NEW i \in 1 .. Len(wire[p]), c <= wire[p][i] PROVE OnItsWay(q, c)'
    <3>1. CASE i = 1
      BY <1>3, <1>5, <2>1, <2>3, <3>1 DEF OnItsWay
    <3>2. CASE i # 1
      <4>1. i - 1 \in 1 .. Len(wire[p]) - 1 /\ (i - 1) + 1 = i
        BY <2>1, <3>2
      <4>2. i - 1 \in 1 .. Len(Tail(wire[p])) /\ Tail(wire[p])[i - 1] = wire[p][i]
        BY <1>3, <4>1
      <4>3. QED
        BY <2>2, <2>3, <4>2 DEF OnItsWay
    <3>3. QED
      BY <3>1, <3>2
  <2>4. CASE (\E d \in seen[Far(q)] : c <= d) \/ c <= slot[q]
    BY <1>6, <2>4 DEF OnItsWay
  <2>5. ASSUME NEW t \in Task, HomeOf(t) = NodeOf[q], q \in Pending(t), c <= held[t]
        PROVE  OnItsWay(q, c)'
    <3>1. q \in Pending(t)' /\ c <= held'[t]
      BY <1>6, <2>5 DEF NothingGone
    <3>2. QED
      BY <2>5, <3>1 DEF OnItsWay
  <2>6. QED
    BY <2>1, <2>2, <2>3, <2>4, <2>5 DEF OnItsWay
<1>8. CASE q # PeerOf[p]
  <2>1. wire'[PeerOf[q]] = wire[PeerOf[q]]
    BY <1>1, <1>4, <1>8 DEF TypeOK
  <2>2. CASE c \in seen[NodeOf[q]]
    BY <1>6, <2>1, <2>2, WayKept DEF NothingLost
  <2>3. CASE c \notin seen[NodeOf[q]]
    <3>1. c = k /\ NodeOf[q] = NodeOf[p]
      BY <1>1, <1>5, <2>3
    <3>2. CASE q = p
      BY <1>3, <1>6, <3>1, <3>2 DEF OnItsWay, Far
    <3>3. CASE q # p
      <4>1. q \in Pending(p)' /\ c <= held'[p]
        BY <1>1, <1>3, <1>5, <3>1, <3>3 DEF Pending
      <4>2. QED
        BY <1>1, <3>1, <4>1 DEF OnItsWay
    <3>4. QED
      BY <3>2, <3>3
  <2>4. QED
    BY <2>2, <2>3
<1>9. QED
  BY <1>7, <1>8

LEMMA NothingLostStep ==
    ASSUME NEW a, NEW up, Follows(a, up), FlowInv(a, up), NothingLost(a, up), Calm(a, up)
    PROVE  NothingLost(a, up)'
<1>1. SUFFICES ASSUME NEW q \in Port, Down(a, up, q), NEW c \in seen'[NodeOf[q]]
               PROVE  OnItsWay(q, c)'
  BY DEF NothingLost, Down, Far
<1>2. Stream(q)
  BY <1>1 DEF FlowInv, StreamsInOrder
<1>3. ASSUME UNCHANGED seen PROVE c \in seen[NodeOf[q]] /\ OnItsWay(q, c)
  BY <1>1, <1>3 DEF NothingLost
<1>4. CASE Quiet(a)
  <2>1. seen' = seen /\ slot' = slot /\ wire' = wire
    BY <1>4, QuietBringsNothing
  <2>2. QED
    BY <1>3, <1>4, <2>1, QuietLosesNothing, WayKept
<1>5. CASE CaptureNew(a)
  BY <1>1, <1>5, MintLosesNothing
<1>6. ASSUME NEW t \in Task, Carries(a, up, t), NEW r \in Port, Offer(t, r) PROVE OnItsWay(q, c)'
  <2>1. UNCHANGED seen
    BY <1>6 DEF Offer
  <2>2. QED
    BY <1>2, <1>3, <1>6, <2>1, OfferLosesNothing
<1>7. ASSUME NEW p \in Port, Send(p) PROVE OnItsWay(q, c)'
  <2>1. UNCHANGED seen
    BY <1>7 DEF Send
  <2>2. QED
    BY <1>3, <1>7, <2>1, SendLosesNothing
<1>8. ASSUME NEW p \in Port, Carries(a, up, p), Receive(p) PROVE OnItsWay(q, c)'
  BY <1>1, <1>8, ReceiveLosesNothing
<1>9. QED
  BY <1>4, <1>5, <1>6, <1>7, <1>8 DEF Calm, Quiet, Spread, Handling

\* The watcher of a ignores nothing, as nothing is applied there, and what it knows of
\* its clipboard is the newest clip.
MinterCurrent(a) ==
    /\ seen[a] = 1 .. Len(clips)
    /\ \A v \in Content : suppressed[a][v] = 0
    /\ previous[a] = IF clips = <<>> THEN Empty ELSE clips[Len(clips)].content

LEMMA MinterStep ==
    ASSUME NEW a, NEW up, Follows(a, up), FlowInv(a, up), MinterCurrent(a), Calm(a, up)
    PROVE  MinterCurrent(a)'
<1>1. /\ TypeOK /\ ClipboardFilled /\ a \in Node
      /\ \A p \in Port : p # a /\ Carries(a, up, p) => NodeOf[p] \in Node /\ NodeOf[p] # a
  <2>1. TypeOK /\ ClipboardFilled /\ a \in Node
    BY DEF FlowInv, EchoInv, Basics, Follows
  <2>2. \A p \in Port : NodeOf[p] \in Node
    BY Carriers
  <2>3. QED
    BY <2>1, <2>2 DEF Carries
<1>2. /\ seen \in [Node -> SUBSET (1 .. Len(clips))] /\ clips \in Seq(Clip) /\ Len(clips) \in Nat
      /\ previous \in [Node -> Content \cup {Empty}]
      /\ suppressed \in [Node -> [Content -> Nat]]
  BY <1>1 DEF TypeOK
<1>3. CASE UNCHANGED clips /\ seen'[a] = seen[a] /\ suppressed'[a] = suppressed[a]
           /\ previous'[a] = previous[a]
  BY <1>3 DEF MinterCurrent
<1>4. ASSUME NEW n \in Node, CaptureNothingNew(n) PROVE MinterCurrent(a)'
  <2>1. UNCHANGED <<clips, seen>>
    BY <1>4 DEF CaptureNothingNew
  <2>2. CASE n # a
    BY <1>1, <1>2, <1>3, <1>4, <2>1, <2>2 DEF CaptureNothingNew
  <2>3. CASE n = a
    <3>1. clipboard[a] \in Content
      BY <1>1, <1>4, <2>3 DEF CaptureNothingNew, ClipboardFilled
    <3>2. UNCHANGED <<previous, suppressed>>
      BY <1>4, <2>3, <3>1 DEF CaptureNothingNew, MinterCurrent
    <3>3. QED
      BY <1>3, <2>1, <3>2
  <2>4. QED
    BY <2>2, <2>3
<1>5. CASE CaptureNew(a)
  <2>1. PICK x : x = [origin |-> a, content |-> clipboard[a], author |-> author[a]]
    OBVIOUS
  <2>2. /\ previous' = [previous EXCEPT ![a] = clipboard[a]]
        /\ clips' = Append(clips, x) /\ UNCHANGED suppressed
        /\ seen' = [seen EXCEPT ![a] = @ \cup {Len(clips) + 1}]
    BY <1>5, <2>1 DEF CaptureNew
  <2>3. Len(clips') = Len(clips) + 1 /\ clips' # <<>> /\ clips'[Len(clips')] = x
    <3>1. x \in Clip
      BY <1>1, <1>2, <1>5, <2>1 DEF CaptureNew, ClipboardFilled, Clip, TypeOK
    <3>2. /\ clips' \in Seq(Clip) /\ Len(clips') = Len(clips) + 1
          /\ clips'[Len(clips) + 1] = x
      BY <1>2, <2>2, <3>1
    <3>3. QED
      BY <1>2, <3>2
  <2>4. previous'[a] = x.content
    BY <1>1, <1>2, <2>1, <2>2
  <2>5. seen'[a] = 1 .. Len(clips) + 1
    BY <1>1, <1>2, <2>2 DEF MinterCurrent
  <2>6. QED
    BY <2>2, <2>3, <2>4, <2>5 DEF MinterCurrent
<1>6. ASSUME NEW p \in Port, p # a, Carries(a, up, p), Handling(p) \/ ApplyFails(p)
      PROVE  MinterCurrent(a)'
  <2>1. NodeOf[p] \in Node /\ NodeOf[p] # a
    BY <1>1, <1>6
  <2>2. CASE Receive(p)
    BY <1>1, <1>2, <1>3, <2>1, <2>2 DEF Receive, watcherVars
  <2>3. CASE Readback(p)
    BY <1>1, <1>2, <1>3, <2>1, <2>3 DEF Readback
  <2>4. CASE AcquireLock(p) \/ PublishClip(p) \/ ApplyFails(p)
    BY <1>3, <2>4 DEF AcquireLock, PublishClip, ApplyFails, watcherVars
  <2>5. QED
    BY <1>6, <2>2, <2>3, <2>4 DEF Handling
<1>7. CASE \/ \E v \in Content : UserCopy(a, v)
           \/ \E n \in Node : Wake(n) \/ WatcherDone(n)
           \/ \E t \in Task : Spread(t)
           \/ \E p \in Port : Send(p)
           \/ UNCHANGED vars
  BY <1>3, <1>7 DEF UserCopy, Wake, WatcherDone, Spread, Broadcast, Offer, Send, vars, watcherVars
<1>8. QED
  BY <1>4, <1>5, <1>6, <1>7 DEF Calm

\* On a machine that follows, the clipboard holds the last clip that was published, and
\* while no publication has failed, whatever was seen is published, or something newer,
\* or a handler has that in hand.
ClipboardShown(a) ==
    \A n \in Node \ {a} :
        applied[n] # <<>> => Shown(n) \in 1 .. Len(clips) /\ clipboard[n] = Published(n, Shown(n))

InHand(n, c) ==
    \E p \in Port : /\ NodeOf[p] = n /\ pc[p] \in {"broadcast", "offer", "publish"}
                    /\ c <= held[p]

SeenIsShown(a) ==
    faults = 0 => \A n \in Node \ {a}, c \in 1 .. Len(clips) :
                      c \in seen[n] => c <= Shown(n) \/ InHand(n, c)

LEMMA ShownOf ==
    ASSUME NEW p \in Port, TypeOK, held[p] \in 1 .. Len(clips), PublishClip(p)
    PROVE  /\ Shown(NodeOf[p])' = held[p] /\ applied'[NodeOf[p]] # <<>>
           /\ clipboard'[NodeOf[p]] = Published(NodeOf[p], held[p])
           /\ \A m \in Node : m # NodeOf[p] => applied'[m] = applied[m] /\ clipboard'[m] = clipboard[m]
<1>1. /\ NodeOf[p] \in Node
      /\ applied' = [applied EXCEPT ![NodeOf[p]] = Append(@, held[p])]
      /\ clipboard' = [clipboard EXCEPT ![NodeOf[p]] = Published(NodeOf[p], held[p])]
  BY MeshAssumption DEF PublishClip, SetClipboard
<1>2. applied \in [Node -> Seq(1 .. Len(clips))] /\ clipboard \in [Node -> Content \cup {Empty}]
  BY DEF TypeOK
<1>3. applied'[NodeOf[p]] = Append(applied[NodeOf[p]], held[p])
  BY <1>1, <1>2
<1>4. /\ Append(applied[NodeOf[p]], held[p]) # <<>>
      /\ Append(applied[NodeOf[p]], held[p])[Len(Append(applied[NodeOf[p]], held[p]))] = held[p]
  <2> DEFINE s == applied[NodeOf[p]]
  <2>1. s \in Seq(1 .. Len(clips)) /\ Len(s) \in Nat
    BY <1>1, <1>2
  <2> HIDE DEF s
  <2>2. /\ Len(Append(s, held[p])) = Len(s) + 1 /\ Append(s, held[p])[Len(s) + 1] = held[p]
        /\ Append(s, held[p]) # <<>>
    BY <2>1
  <2>3. QED
    BY <2>2 DEF s
<1>5. QED
  BY <1>1, <1>2, <1>3, <1>4 DEF Shown

LEMMA ClipboardShownStep ==
    ASSUME NEW a, NEW up, Follows(a, up), FlowInv(a, up), ClipboardShown(a), Calm(a, up)
    PROVE  ClipboardShown(a)'
<1>1. /\ TypeOK /\ TasksInOrder /\ a \in Node /\ clips \in Seq(Clip) /\ Len(clips) \in Nat
      /\ clipboard \in [Node -> Content \cup {Empty}]
  BY DEF FlowInv, EchoInv, Basics, Follows, TypeOK
<1>2. SUFFICES ASSUME NEW n \in Node \ {a}, applied'[n] # <<>>
               PROVE  Shown(n)' \in 1 .. Len(clips') /\ clipboard'[n] = Published(n, Shown(n))'
  BY DEF ClipboardShown
<1>3. CASE applied'[n] = applied[n] /\ clipboard'[n] = clipboard[n] /\ UNCHANGED clips
  <2>1. Shown(n)' = Shown(n)
    BY <1>3 DEF Shown
  <2>2. QED
    BY <1>2, <1>3, <2>1 DEF ClipboardShown, Published
<1>4. CASE CaptureNew(a)
  <2>1. UNCHANGED <<applied, clipboard>>
    BY <1>4 DEF CaptureNew, historyVars
  <2>2. Shown(n)' = Shown(n) /\ Shown(n) \in 1 .. Len(clips) /\ clipboard[n] = Published(n, Shown(n))
    BY <1>2, <2>1 DEF Shown, ClipboardShown
  <2>3. PICK x : clips' = Append(clips, x)
    BY <1>4 DEF CaptureNew
  <2>4. Len(clips') = Len(clips) + 1 /\ clips'[Shown(n)] = clips[Shown(n)]
    BY <1>1, <2>2, <2>3
  <2>5. Shown(n) \in 1 .. Len(clips')
    BY <1>1, <2>2, <2>4
  <2>6. QED
    BY <2>1, <2>2, <2>4, <2>5 DEF Published
<1>5. ASSUME NEW p \in Port, p # a, Carries(a, up, p), PublishClip(p)
      PROVE  Shown(n)' \in 1 .. Len(clips') /\ clipboard'[n] = Published(n, Shown(n))'
  <2>1. held[p] \in 1 .. Len(clips) /\ UNCHANGED clips
    <3>1. held[p] \in 0 .. Len(clips) /\ held[p] # 0 /\ UNCHANGED clips
      BY <1>1, <1>5, Carriers DEF PublishClip, TypeOK, TasksInOrder, Busy, NoClip, watcherVars
    <3>2. QED
      BY <1>1, <3>1
  <2>2. CASE n = NodeOf[p]
    BY <1>1, <1>5, <2>1, <2>2, ShownOf DEF Published
  <2>3. CASE n # NodeOf[p]
    BY <1>1, <1>3, <1>5, <2>1, <2>3, ShownOf
  <2>4. QED
    BY <2>2, <2>3
<1>6. ASSUME NEW v \in Content, UserCopy(a, v)
      PROVE  applied'[n] = applied[n] /\ clipboard'[n] = clipboard[n] /\ UNCHANGED clips
  BY <1>1, <1>6 DEF UserCopy, SetClipboard, watcherVars, historyVars
<1>7. CASE \/ \E m \in Node : Wake(m) \/ CaptureNothingNew(m) \/ WatcherDone(m)
           \/ \E t \in Task : Spread(t)
           \/ \E p \in Port : \/ Receive(p) \/ AcquireLock(p) \/ Readback(p) \/ ApplyFails(p)
                              \/ Send(p)
           \/ UNCHANGED vars
  BY <1>3, <1>7 DEF Wake, CaptureNothingNew, WatcherDone, Spread, Broadcast, Offer, Receive,
     AcquireLock, Readback, ApplyFails, Send, vars, watcherVars, historyVars
<1>8. QED
  BY <1>3, <1>4, <1>5, <1>6, <1>7 DEF Calm, Handling

LEMMA SeenIsShownStep ==
    ASSUME NEW a, NEW up, Follows(a, up), FlowInv(a, up), SeenIsShown(a), Calm(a, up)
    PROVE  SeenIsShown(a)'
<1>1. /\ TypeOK /\ TasksInOrder /\ ShownInOrder /\ a \in Node /\ clips \in Seq(Clip) /\ Len(clips) \in Nat
      /\ faults \in Nat
      /\ pc \in [Task -> TaskState] /\ held \in [Task -> 0 .. Len(clips)]
      /\ seen \in [Node -> SUBSET (1 .. Len(clips))]
      /\ \A p \in Port : p \in Task
  <2>1. TypeOK /\ TasksInOrder /\ ShownInOrder /\ a \in Node
    BY DEF FlowInv, EchoInv, Basics, Follows
  <2>2. faults \in Nat
    BY <2>1, MeshAssumption DEF TypeOK
  <2>3. QED
    BY <2>1, <2>2 DEF TypeOK, Task
<1>2. SUFFICES ASSUME faults' = 0, NEW n \in Node \ {a}, NEW c \in 1 .. Len(clips'), c \in seen'[n]
               PROVE  c <= Shown(n)' \/ InHand(n, c)'
  BY DEF SeenIsShown
\* A handler that has a clip in hand keeps it.
<1>3. ASSUME UNCHANGED <<faults, clips>>, applied'[n] = applied[n], c \in seen[n],
             \A p \in Port : pc[p] \in {"broadcast", "offer", "publish"} =>
                pc'[p] \in {"broadcast", "offer", "publish"} /\ held'[p] = held[p]
      PROVE  c <= Shown(n)' \/ InHand(n, c)'
  <2>1. Shown(n)' = Shown(n) /\ (c <= Shown(n) \/ InHand(n, c))
    BY <1>2, <1>3 DEF Shown, SeenIsShown
  <2>2. InHand(n, c) => InHand(n, c)'
    BY <1>3 DEF InHand
  <2>3. QED
    BY <2>1, <2>2
<1>4. ASSUME NEW p \in Port, p # a, Carries(a, up, p), Receive(p)
      PROVE  c <= Shown(n)' \/ InHand(n, c)'
  <2>1. PICK k \in 1 .. Len(clips) : k = Head(wire[p]) /\ k \notin seen[NodeOf[p]]
    <3>1. wire[p] # <<>>
      BY <1>4 DEF Receive
    <3>2. QED
      BY <3>1, Arrives
  <2>2. /\ seen' = [seen EXCEPT ![NodeOf[p]] = @ \cup {k}] /\ pc[p] = "idle"
        /\ pc' = [pc EXCEPT ![p] = "broadcast"]
        /\ held' = [held EXCEPT ![p] = k]
        /\ UNCHANGED <<applied, clips, faults>>
    BY <1>4, <2>1 DEF Receive, historyVars, watcherVars
  <2>3. pc'[p] = "broadcast" /\ held'[p] = k
    BY <1>1, <2>2
  <2>4. CASE c \in seen[n]
    BY <1>1, <1>3, <2>2, <2>4
  <2>5. CASE c \notin seen[n]
    <3>1. c = k /\ n = NodeOf[p]
      BY <1>1, <1>2, <2>2, <2>5
    <3>2. c <= held'[p]
      BY <1>1, <2>3, <3>1
    <3>3. QED
      BY <2>3, <3>1, <3>2 DEF InHand
  <2>6. QED
    BY <2>4, <2>5
<1>5. ASSUME NEW p \in Port, p # a, Carries(a, up, p), PublishClip(p)
      PROVE  c <= Shown(n)' \/ InHand(n, c)'
  <2>1. /\ pc[p] = "publish" /\ UNCHANGED <<held, clips, seen, faults>>
        /\ pc' = [pc EXCEPT ![p] = "readback"]
    BY <1>5 DEF PublishClip, watcherVars
  <2>2. held[p] \in 1 .. Len(clips)
    <3>1. held[p] \in 0 .. Len(clips) /\ held[p] # 0
      BY <1>1, <2>1 DEF TasksInOrder, Busy, NoClip
    <3>2. QED
      BY <1>1, <3>1
  <2>3. c \in seen[n] /\ (c <= Shown(n) \/ InHand(n, c))
    BY <1>2, <2>1 DEF SeenIsShown
  <2>4. ASSUME NEW q \in Port, q # p, NodeOf[q] = n, pc[q] \in {"broadcast", "offer", "publish"},
               c <= held[q]
        PROVE  InHand(n, c)'
    BY <1>1, <2>1, <2>4 DEF InHand
  <2>5. CASE n = NodeOf[p]
    <3>1. Shown(n)' = held[p]
      BY <1>1, <1>5, <2>2, <2>5, ShownOf
    <3>2. CASE c <= Shown(n)
      <4>1. Shown(n) \in Nat /\ Shown(n) < held[p]
        <5>1. CASE applied[n] = <<>>
          BY <1>1, <2>2, <5>1 DEF Shown, NoClip
        <5>2. CASE applied[n] # <<>>
          <6>1. Len(applied[n]) \in 1 .. Len(applied[n]) /\ applied[n][Len(applied[n])] \in Nat
            <7>1. /\ applied[n] \in Seq(1 .. Len(clips)) /\ Len(applied[n]) \in Nat
                  /\ \A i \in 1 .. Len(applied[n]) : applied[n][i] \in Nat
              BY <1>1, ClipsAreNumbers
            <7>2. Len(applied[n]) # 0
              BY <5>2, <7>1, EmptySeq
            <7>3. QED
              BY <7>1, <7>2
          <6>2. QED
            BY <1>1, <2>1, <2>5, <5>2, <6>1 DEF Shown, ShownInOrder
        <5>3. QED
          BY <5>1, <5>2
      <4>2. QED
        BY <1>1, <1>2, <2>1, <2>2, <3>1, <3>2, <4>1
    <3>3. CASE InHand(n, c)
      BY <2>4, <3>1, <3>3 DEF InHand
    <3>4. QED
      BY <2>3, <3>2, <3>3
  <2>6. CASE n # NodeOf[p]
    <3>1. Shown(n)' = Shown(n)
      BY <1>1, <1>5, <2>2, <2>6, ShownOf DEF Shown
    <3>2. InHand(n, c) => InHand(n, c)'
      BY <2>4, <2>6 DEF InHand
    <3>3. QED
      BY <2>3, <3>1, <3>2
  <2>7. QED
    BY <2>5, <2>6
<1>6. ASSUME NEW t \in Task, WatcherDone(t) \/ Readback(t), t \in Port => pc[t] = "readback",
             t \notin Port => t \in Node
      PROVE  c <= Shown(n)' \/ InHand(n, c)'
  <2>1. Rest(t) /\ UNCHANGED <<seen, applied, clips, faults>>
    BY <1>6 DEF WatcherDone, Readback, watcherVars, historyVars
  <2>2. ASSUME NEW p \in Port, pc[p] \in {"broadcast", "offer", "publish"}
        PROVE  pc'[p] = pc[p] /\ held'[p] = held[p]
    BY <1>1, <1>6, <2>1, <2>2 DEF Rest
  <2>3. QED
    BY <1>2, <1>3, <2>1, <2>2
<1>7. CASE CaptureNew(a)
  <2>1. PICK x : clips' = Append(clips, x)
    BY <1>7 DEF CaptureNew
  <2>2. /\ Len(clips') = Len(clips) + 1 /\ a \notin Port
        /\ UNCHANGED <<applied, faults>> /\ seen'[n] = seen[n]
        /\ \A p \in Port : pc'[p] = pc[p] /\ held'[p] = held[p]
    BY <1>1, <1>7, <2>1, Carriers DEF CaptureNew, historyVars
  <2>3. c \in seen[n] /\ c \in 1 .. Len(clips)
    BY <1>1, <1>2, <2>2
  <2>4. Shown(n)' = Shown(n) /\ (c <= Shown(n) \/ InHand(n, c))
    BY <1>2, <2>2, <2>3 DEF Shown, SeenIsShown
  <2>5. InHand(n, c) => InHand(n, c)'
    BY <2>2 DEF InHand
  <2>6. QED
    BY <2>4, <2>5
<1>8. CASE \/ \E m \in Node : Wake(m) \/ CaptureNothingNew(m)
           \/ \E t \in Task : Spread(t)
           \/ \E p \in Port : AcquireLock(p)
  <2>1. UNCHANGED <<seen, applied, clips, faults, held>>
    BY <1>8 DEF Wake, CaptureNothingNew, Spread, Broadcast, Offer, AcquireLock, watcherVars, historyVars
  <2>2. \A p \in Port : pc[p] \in {"broadcast", "offer", "publish"} =>
                           pc'[p] \in {"broadcast", "offer", "publish"}
    <3>1. \A m \in Node : m \notin Port
      BY MeshAssumption
    <3>2. QED
      BY <1>1, <1>8, <3>1 DEF Wake, CaptureNothingNew, Spread, Broadcast, Offer, AcquireLock
  <2>3. QED
    BY <1>2, <1>3, <2>1, <2>2
<1>9. CASE (\E v \in Content : UserCopy(a, v)) \/ (\E p \in Port : Send(p)) \/ UNCHANGED vars
  BY <1>2, <1>3, <1>9 DEF UserCopy, Send, vars, watcherVars, historyVars, taskVars
<1>10. ASSUME NEW p \in Port PROVE ~ApplyFails(p)
  BY <1>1, <1>2 DEF ApplyFails, Fault
<1>11. ASSUME NEW m \in Node, WatcherDone(m) PROVE c <= Shown(n)' \/ InHand(n, c)'
  BY <1>6, <1>11, MeshAssumption DEF Task
<1>12. ASSUME NEW p \in Port, Readback(p) PROVE c <= Shown(n)' \/ InHand(n, c)'
  BY <1>1, <1>6, <1>12 DEF Readback
<1>13. QED
  BY <1>4, <1>5, <1>7, <1>8, <1>9, <1>10, <1>11, <1>12 DEF Calm, Handling

RestInv(a, up) ==
    /\ FlowInv(a, up) /\ NothingLost(a, up) /\ MinterCurrent(a)
    /\ ClipboardShown(a) /\ SeenIsShown(a)

LEMMA RestInit ==
    ASSUME NEW a, NEW up, Follows(a, up), Init
    PROVE  RestInv(a, up)
<1>1. FlowInv(a, up)
  BY FlowInit
<1>0. a \in Node
  BY DEF Follows
<1>2. NothingLost(a, up) /\ ClipboardShown(a) /\ SeenIsShown(a)
  BY MeshAssumption DEF Init, NothingLost, ClipboardShown, SeenIsShown
<1>3. MinterCurrent(a)
  BY <1>0 DEF Init, MinterCurrent
<1>4. QED
  BY <1>1, <1>2, <1>3 DEF RestInv

LEMMA RestStep ==
    ASSUME NEW a, NEW up, Follows(a, up), RestInv(a, up), [Next]_vars
    PROVE  RestInv(a, up)'
<1>1. FlowInv(a, up)' /\ Calm(a, up)
  BY FlowStep DEF RestInv
<1>2. QED
  BY <1>1, NothingLostStep, MinterStep, ClipboardShownStep, SeenIsShownStep DEF RestInv

LEMMA Least == ASSUME NEW T \in SUBSET Nat, T # {} PROVE \E x \in T : \A y \in T : x <= y
<1> DEFINE R == {s \in Nat \X Nat : s[1] < s[2]}
<1>1. IsWellFoundedOn(R, Nat)
  BY NatLessThanWellFounded DEF OpToRel
<1> HIDE DEF R
<1>2. PICK x \in T : \A y \in T : ~(<<y, x>> \in R)
  BY <1>1, WFMin, Zenon
<1>3. \A y \in T : ~(y < x)
  BY <1>2 DEF R
<1>4. QED
  BY <1>3

\* Nobody has anything to do, unless a user copies something.
AtRest ==
    /\ \A n \in Node : ~changed[n]
    /\ \A t \in Task : pc[t] = "idle"
    /\ \A p \in Port : slot[p] = NoClip /\ wire[p] = <<>>

\* Every machine is reached from a: on the way up its connections there is no circle.
Reaches(a, up, depth) ==
    /\ depth \in [Node -> Nat]
    /\ \A n \in Node \ {a} : depth[Far(up[n])] < depth[n]

LEMMA AllHaveSeen ==
    ASSUME NEW a, NEW up, Follows(a, up), NEW depth, Reaches(a, up, depth),
           RestInv(a, up), AtRest, clips # <<>>, NEW n \in Node
    PROVE  Len(clips) \in seen[n]
<1> DEFINE Late == {m \in Node : Len(clips) \notin seen[m]}
<1>1. TypeOK /\ TasksAtHead(a, up) /\ Len(clips) \in Nat /\ Len(clips) # 0
  BY EmptySeq DEF RestInv, FlowInv, EchoInv, Basics, TypeOK
<1>2. SUFFICES ASSUME Late # {} PROVE FALSE
  OBVIOUS
<1>3. PICK m \in Late : \A x \in Late : depth[m] <= depth[x]
  <2>1. {depth[x] : x \in Late} \in SUBSET Nat /\ {depth[x] : x \in Late} # {}
    BY <1>2 DEF Reaches
  <2>2. PICK k \in {depth[x] : x \in Late} : \A y \in {depth[x] : x \in Late} : k <= y
    BY <2>1, Least
  <2>3. QED
    BY <2>2
<1>4. m \in Node \ {a}
  BY <1>1, <1>3 DEF RestInv, MinterCurrent
<1> DEFINE q == PeerOf[up[m]]
<1>5. /\ up[m] \in Port /\ NodeOf[up[m]] = m /\ q \in Port
      /\ PeerOf[q] = up[m] /\ Far(q) = m /\ NodeOf[q] = Far(up[m]) /\ NodeOf[q] \in Node
      /\ Down(a, up, q)
  <2>1. up[m] \in Port /\ NodeOf[up[m]] = m
    BY <1>4 DEF Follows
  <2>2. QED
    BY <1>4, <2>1, Carriers DEF Far
<1> HIDE DEF q
<1>6. Len(clips) \in seen[NodeOf[q]]
  <2>1. depth[NodeOf[q]] < depth[m] /\ depth[NodeOf[q]] \in Nat /\ depth[m] \in Nat
    BY <1>4, <1>5 DEF Reaches
  <2>2. QED
    BY <1>3, <1>5, <2>1
<1>7. OnItsWay(q, Len(clips))
  BY <1>5, <1>6 DEF RestInv, NothingLost
<1>8. /\ wire[PeerOf[q]] = <<>> /\ slot[q] = 0
      /\ \A t \in Task : Pending(t) = {}
  BY <1>1, <1>5 DEF AtRest, TasksAtHead, Pending, NoClip
<1>9. PICK d \in seen[m] : Len(clips) <= d
  BY <1>1, <1>5, <1>7, <1>8 DEF OnItsWay
<1>10. d = Len(clips)
  BY <1>1, <1>4, <1>9, ClipsAreNumbers
<1>11. QED
  BY <1>3, <1>9, <1>10

\* What LastCopyEverywhere comes to when everything has been done: what the user of a
\* copied last is known to every machine, and on each clipboard if nothing failed.
LastCopyAtRest(a) ==
    AtRest /\ clipboard[a] # Empty =>
        \A n \in Node \ {a} :
            /\ Len(clips) \in seen[n]
            /\ faults = 0 => clipboard[n] = Publish[n][clipboard[a]]

\* In a mesh without cycles where one machine copies, a mesh that has come to rest has
\* left no machine behind: whatever newest-value channels and relays have skipped was
\* older than what came after it, and that was published everywhere, unless a
\* publication failed.  That it does come to rest is LastCopyEverywhere.
THEOREM NothingLeftBehind ==
    ASSUME NEW a, NEW up, Follows(a, up), NEW depth, Reaches(a, up, depth)
    PROVE  Spec => []LastCopyAtRest(a)
<1>1. ASSUME RestInv(a, up), QuietWatcherIsCurrent PROVE LastCopyAtRest(a)
  <2>1. SUFFICES ASSUME AtRest, clipboard[a] # Empty, NEW n \in Node \ {a}
                 PROVE  /\ Len(clips) \in seen[n]
                        /\ faults = 0 => clipboard[n] = Publish[n][clipboard[a]]
    BY DEF LastCopyAtRest
  <2>2. /\ TypeOK /\ Len(clips) \in Nat /\ a \in Node /\ a \in Task
        /\ \A p \in Port : p \in Task
    <3>1. TypeOK
      BY <1>1 DEF RestInv, FlowInv, EchoInv, Basics
    <3>2. QED
      BY <3>1 DEF TypeOK, Follows, Task
  <2>3. previous[a] = clipboard[a]
    BY <1>1, <2>1, <2>2 DEF QuietWatcherIsCurrent, AtRest
  <2>4. clips # <<>> /\ clipboard[a] = clips[Len(clips)].content
    BY <2>1, <2>3, <1>1 DEF RestInv, MinterCurrent
  <2>5. Len(clips) \in seen[n]
    BY <1>1, <2>1, <2>4, AllHaveSeen
  <2>6. ASSUME faults = 0 PROVE clipboard[n] = Publish[n][clipboard[a]]
    <3>1. Len(clips) \in 1 .. Len(clips)
      BY <2>2, <2>4, EmptySeq DEF TypeOK
    <3>2. ~InHand(n, Len(clips))
      BY <2>1, <2>2 DEF InHand, AtRest
    <3>3. Len(clips) <= Shown(n)
      BY <1>1, <2>5, <2>6, <3>1, <3>2 DEF RestInv, SeenIsShown
    <3>4. applied[n] # <<>>
      BY <2>2, <3>1, <3>3 DEF Shown, NoClip
    <3>5. Shown(n) = Len(clips) /\ clipboard[n] = Published(n, Shown(n))
      BY <1>1, <2>2, <3>3, <3>4 DEF RestInv, ClipboardShown
    <3>6. QED
      BY <2>4, <3>5 DEF Published
  <2>7. QED
    BY <2>5, <2>6
<1>2. Init => RestInv(a, up)
  BY RestInit
<1>3. RestInv(a, up) /\ [Next]_vars => RestInv(a, up)'
  BY RestStep
<1>4. QED
  BY <1>1, <1>2, <1>3, WatcherMissesNothing, PTL DEF Spec

=============================================================================
