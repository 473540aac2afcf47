----------------------------- MODULE PeerStream -----------------------------
(***************************************************************************)
(* One peer connection at the level of its frames (src/protocol.rs and     *)
(* serve_peer of src/daemon.rs): the daemon that dials runs ssh, ssh runs  *)
(* a bridge, the bridge writes BRIDGE to the local socket of the daemon    *)
(* that accepts and copies bytes both ways (src/daemon/client.rs,          *)
(* src/daemon/runtime.rs).  Every link between the two is a pipe that      *)
(* holds so much and then blocks its writer; here they are one pipe per    *)
(* direction.                                                              *)
(*                                                                         *)
(* A frame travels in pieces: its head, then one piece per representation. *)
(* A clip is known by its size, the number of its representations.         *)
(***************************************************************************)
EXTENDS Naturals, Sequences

CONSTANTS
    Copies,     \* Copies[e]: sizes of the clips copied at end e, in order
    Limit,      \* Limit[e]: max_bytes of the daemon at e
    PipeCap,    \* pieces that the pipe of a direction holds
    MaxNews,    \* bound: changes of a desired version
    MaxFaults   \* bound: connections that break by themselves

End == {"dialer", "acceptor"}
Other(e) == IF e = "dialer" THEN "acceptor" ELSE "dialer"

ASSUME StreamAssumption ==
    /\ Limit \in [End -> Nat]
    /\ \A e \in End : Copies[e] \in Seq(1 .. Limit[e])
    /\ PipeCap \in Nat \ {0}
    /\ MaxNews \in Nat
    /\ MaxFaults \in Nat

Hello == [kind |-> "hello", size |-> 0]
News == [kind |-> "news", size |-> 0]
Clip(n) == [kind |-> "clip", size |-> n]
Size == UNION {{Copies[e][i] : i \in DOMAIN Copies[e]} : e \in End}
Message == {Hello, News} \cup {Clip(n) : n \in Size}

Nothing == [kind |-> "nothing", size |-> 0]
Mangled == [kind |-> "mangled", size |-> 0]
NoClip == 0

Piece(m, k) == [of |-> m, part |-> k]
Command == [of |-> Nothing, part |-> 0]
Frame(m) == [k \in 1 .. 1 + m.size |-> Piece(m, k - 1)]

VARIABLES
    old,      \* ends whose program predates update notices
    stage,    \* an end is "down", waits for the "command" or a "hello", or is "up"
    cut,      \* no piece gets through any more
    pipe,     \* pieces on their way to an end
    ahead,    \* pieces the acceptor's command reader read with the command
    writing,  \* pieces of its frame that an end has still to write
    reading,  \* pieces of the message that an end is reading
    busy,     \* the read half is in receive_clip
    last,     \* the message read last
    slot,     \* newest-value channel: a clip to send, or NoClip
    news,     \* the desired version changed since it was sent
    copied,   \* copies made so far
    changes,  \* changes of a desired version so far
    misread,  \* an end gave a connection up for what it read (history)
    faults    \* faults so far

streams == <<pipe, ahead, writing, reading>>
offers == <<slot, news>>
bounds == <<copied, changes, faults>>
vars == <<old, stage, cut, streams, busy, last, offers, misread, bounds>>

Init ==
    /\ old \in SUBSET End
    /\ stage = [e \in End |-> "down"]
    /\ cut = TRUE
    /\ pipe = [e \in End |-> <<>>]
    /\ ahead = <<>>
    /\ writing = [e \in End |-> <<>>]
    /\ reading = [e \in End |-> <<>>]
    /\ busy = [e \in End |-> FALSE]
    /\ last = [e \in End |-> Nothing]
    /\ slot = [e \in End |-> NoClip]
    /\ news = [e \in End |-> FALSE]
    /\ copied = [e \in End |-> 0]
    /\ changes = 0
    /\ misread = FALSE
    /\ faults = 0

Prefixes(s) == {SubSeq(s, 1, k) : k \in 0 .. Len(s)}

-----------------------------------------------------------------------------
(* Connections come and go. *)

\* dial_loop starts ssh; the bridge at its other end sends the command.
Connect ==
    /\ \A e \in End : stage[e] = "down"
    /\ stage' = [e \in End |-> IF e = "dialer" THEN "hello" ELSE "command"]
    /\ cut' = FALSE
    /\ pipe' = [e \in End |-> IF e = "dialer" THEN <<>> ELSE <<Command>>]
    /\ writing' = [writing EXCEPT !["dialer"] = Frame(Hello)]
    /\ UNCHANGED <<old, ahead, reading, busy, last, offers, misread, bounds>>

\* serve_peer of end e returns and whatever it held is dropped: ssh is killed or
\* the socket closed.  The other end still gets some of what is under way.
Ends(e) ==
    /\ stage' = [stage EXCEPT ![e] = "down"]
    /\ cut' = TRUE
    /\ \E rest \in Prefixes(pipe[Other(e)]) :
         pipe' = [pipe EXCEPT ![e] = <<>>, ![Other(e)] = rest]
    /\ ahead' = IF e = "acceptor" THEN <<>> ELSE ahead
    /\ writing' = [writing EXCEPT ![e] = <<>>]
    /\ reading' = [reading EXCEPT ![e] = <<>>]
    /\ busy' = [busy EXCEPT ![e] = FALSE]
    /\ slot' = [slot EXCEPT ![e] = NoClip]
    /\ news' = [news EXCEPT ![e] = FALSE]
    /\ UNCHANGED <<old, last, bounds>>

\* ssh or the bridge dies, or the network between them.
Break ==
    /\ ~cut
    /\ faults < MaxFaults
    /\ faults' = faults + 1
    /\ cut' = TRUE
    /\ pipe' \in {p \in [End -> Prefixes(pipe["dialer"]) \cup Prefixes(pipe["acceptor"])] :
                    \A e \in End : p[e] \in Prefixes(pipe[e])}
    /\ UNCHANGED <<old, stage, ahead, writing, reading, busy, last, offers, misread, copied,
                   changes>>

-----------------------------------------------------------------------------
(* The daemon's side of a connection. *)

\* broadcast_clip reaches the connections there are; the newest clip replaces
\* one that was not sent.
Copy(e) ==
    /\ copied[e] < Len(Copies[e])
    /\ copied' = [copied EXCEPT ![e] = @ + 1]
    /\ slot' = [slot EXCEPT ![e] = IF stage[e] = "up" THEN Copies[e][copied[e] + 1] ELSE @]
    /\ UNCHANGED <<old, stage, cut, streams, busy, last, news, misread, changes, faults>>

Desire(e) ==
    /\ e \notin old
    /\ changes < MaxNews
    /\ changes' = changes + 1
    /\ news' = [news EXCEPT ![e] = stage[e] = "up"]
    /\ UNCHANGED <<old, stage, cut, streams, busy, last, slot, misread, copied, faults>>

-----------------------------------------------------------------------------
(* The write half: one frame after the other, piece by piece. *)

SendClip(e) ==
    /\ stage[e] = "up"
    /\ writing[e] = <<>>
    /\ slot[e] # NoClip
    /\ writing' = [writing EXCEPT ![e] = Frame(Clip(slot[e]))]
    /\ slot' = [slot EXCEPT ![e] = NoClip]
    /\ UNCHANGED <<old, stage, cut, pipe, ahead, reading, busy, last, news, misread, bounds>>

\* Mutant: a change of the desired version cancels the write that is under way.
SendNewsAtOnce(e) ==
    /\ stage[e] = "up"
    /\ news[e]
    /\ Other(e) \notin old
    /\ writing' = [writing EXCEPT ![e] = Frame(News)]
    /\ news' = [news EXCEPT ![e] = FALSE]
    /\ UNCHANGED <<old, stage, cut, pipe, ahead, reading, busy, last, slot, misread, bounds>>

\* Mutant: notices are sent to every peer, whatever its program.
SendNewsToAll(e) ==
    /\ stage[e] = "up"
    /\ writing[e] = <<>>
    /\ news[e]
    /\ writing' = [writing EXCEPT ![e] = Frame(News)]
    /\ news' = [news EXCEPT ![e] = FALSE]
    /\ UNCHANGED <<old, stage, cut, pipe, ahead, reading, busy, last, slot, misread, bounds>>

\* Only a peer whose hello carried its program's version is told.
SendNews(e) ==
    /\ stage[e] = "up"
    /\ writing[e] = <<>>
    /\ news[e]
    /\ Other(e) \notin old
    /\ writing' = [writing EXCEPT ![e] = Frame(News)]
    /\ news' = [news EXCEPT ![e] = FALSE]
    /\ UNCHANGED <<old, stage, cut, pipe, ahead, reading, busy, last, slot, misread, bounds>>

\* A full pipe keeps the writer waiting.
WritePiece(e) ==
    /\ ~cut
    /\ writing[e] # <<>>
    /\ Len(pipe[Other(e)]) < PipeCap
    /\ pipe' = [pipe EXCEPT ![Other(e)] = Append(@, Head(writing[e]))]
    /\ writing' = [writing EXCEPT ![e] = Tail(@)]
    /\ UNCHANGED <<old, stage, cut, ahead, reading, busy, last, offers, misread, bounds>>

WriteFails(e) ==
    /\ cut
    /\ writing[e] # <<>>
    /\ Ends(e)
    /\ UNCHANGED misread

-----------------------------------------------------------------------------
(* The read half. *)

\* Mutant: the command is read through a buffer of its own, whose contents are
\* gone when the stream is handed to serve_peer.
ReadCommandAlone ==
    /\ stage["acceptor"] = "command"
    /\ pipe["acceptor"] # <<>>
    /\ \E k \in 1 .. Len(pipe["acceptor"]) :
         pipe' = [pipe EXCEPT !["acceptor"] = SubSeq(@, k + 1, Len(@))]
    /\ stage' = [stage EXCEPT !["acceptor"] = "hello"]
    /\ writing' = [writing EXCEPT !["acceptor"] = Frame(Hello)]
    /\ UNCHANGED <<old, cut, ahead, reading, busy, last, offers, misread, bounds>>

\* handle_local reads the command, and with it as much as is there.
ReadCommand ==
    /\ stage["acceptor"] = "command"
    /\ pipe["acceptor"] # <<>>
    /\ \E k \in 1 .. Len(pipe["acceptor"]) :
         /\ ahead' = SubSeq(pipe["acceptor"], 2, k)
         /\ pipe' = [pipe EXCEPT !["acceptor"] = SubSeq(@, k + 1, Len(@))]
    /\ stage' = [stage EXCEPT !["acceptor"] = "hello"]
    /\ writing' = [writing EXCEPT !["acceptor"] = Frame(Hello)]
    /\ UNCHANGED <<old, cut, reading, busy, last, offers, misread, bounds>>

\* What end e can read: first what came with the command.
Arrived(e) == IF e = "acceptor" THEN ahead \o pipe[e] ELSE pipe[e]

\* Mutant: reads wait for writes.
ReadsAfterWrites(e) == stage[e] \in {"hello", "up"} /\ writing[e] = <<>> /\ ~busy[e]

\* End e awaits a message: for the hello only once its own is written.
Reads(e) ==
    /\ \/ stage[e] = "up"
       \/ stage[e] = "hello" /\ writing[e] = <<>>
    /\ ~busy[e]

\* The next representation is one too many for e.
TooLarge(e) ==
    /\ reading[e] # <<>>
    /\ Head(reading[e]).of.size > Limit[e]
    /\ Len(reading[e]) = 1 + Limit[e]

\* End e reads another piece; it believes the head about how many there are.
Takes(e) ==
    /\ Reads(e)
    /\ ~TooLarge(e)
    /\ Arrived(e) # <<>>

Taken(e) == Append(reading[e], Head(Arrived(e)))

NoMessage(s) == Head(s).part # 0
Complete(s) == ~NoMessage(s) /\ Len(s) = 1 + Head(s).of.size
MessageOf(s) == IF s = Frame(Head(s).of) THEN Head(s).of ELSE Mangled

TakePiece(e) ==
    IF e = "acceptor" /\ ahead # <<>>
    THEN ahead' = Tail(ahead) /\ UNCHANGED pipe
    ELSE pipe' = [pipe EXCEPT ![e] = Tail(@)] /\ UNCHANGED ahead

ReadPart(e) ==
    /\ Takes(e)
    /\ ~NoMessage(Taken(e)) /\ ~Complete(Taken(e))
    /\ TakePiece(e)
    /\ reading' = [reading EXCEPT ![e] = Taken(e)]
    /\ UNCHANGED <<old, stage, cut, writing, busy, last, offers, misread, bounds>>

\* A message is complete, and it is one e can use where it stands.
ReadsMessage(e) ==
    /\ Takes(e)
    /\ Complete(Taken(e))
    /\ TakePiece(e)
    /\ last' = [last EXCEPT ![e] = MessageOf(Taken(e))]
    /\ reading' = [reading EXCEPT ![e] = <<>>]
    /\ UNCHANGED <<old, cut, writing, misread, bounds>>

\* Mutant: a new connection begins with the newest copy.
FirstOfferNewest(e) == IF copied[e] = 0 THEN NoClip ELSE Copies[e][copied[e]]

\* The channel of a new connection is empty.
FirstOffer(e) == NoClip

Meet(e) ==
    /\ ReadsMessage(e)
    /\ stage[e] = "hello"
    /\ last'[e] = Hello
    /\ stage' = [stage EXCEPT ![e] = "up"]
    /\ slot' = [slot EXCEPT ![e] = FirstOffer(e)]
    /\ news' = [news EXCEPT ![e] = FALSE]
    /\ UNCHANGED busy

ReceiveClip(e) ==
    /\ ReadsMessage(e)
    /\ stage[e] = "up"
    /\ last'[e].kind \in {"clip", "mangled"}
    /\ busy' = [busy EXCEPT ![e] = TRUE]
    /\ UNCHANGED <<stage, offers>>

\* receive_clip never waits for a write half: it always returns.
Handled(e) ==
    /\ busy[e]
    /\ busy' = [busy EXCEPT ![e] = FALSE]
    /\ UNCHANGED <<old, stage, cut, streams, last, offers, misread, bounds>>

ReceiveNews(e) ==
    /\ ReadsMessage(e)
    /\ stage[e] = "up"
    /\ last'[e] = News
    /\ e \notin old
    /\ UNCHANGED <<stage, busy, offers>>

\* What e reads is no message, or one that may not come here, or one that its
\* program does not know.
Unusable(e, s) ==
    \/ NoMessage(s)
    \/ /\ Complete(s)
       /\ \/ stage[e] = "hello" /\ Head(s).of # Hello
          \/ stage[e] = "up" /\ Head(s).of = Hello
          \/ e \in old /\ Head(s).of = News

Refused(e) == TooLarge(e) \/ (Arrived(e) # <<>> /\ Unusable(e, Taken(e)))

\* An error of read_message, or a message out of place, ends the connection.
ReadFails(e) ==
    /\ Reads(e)
    /\ Refused(e)
    /\ Ends(e)
    /\ misread' = (misread \/ ~TooLarge(e))

SeesEnd(e) ==
    /\ cut
    /\ stage[e] = "command" \/ Reads(e)
    /\ Arrived(e) = <<>>
    /\ Ends(e)
    /\ UNCHANGED misread

-----------------------------------------------------------------------------

WriteHalf(e) == SendClip(e) \/ SendNews(e) \/ WritePiece(e) \/ WriteFails(e)

ReadHalf(e) ==
    \/ ReadPart(e) \/ Meet(e) \/ ReceiveClip(e) \/ Handled(e) \/ ReceiveNews(e)
    \/ ReadFails(e) \/ SeesEnd(e)

Next ==
    \/ Connect \/ Break \/ ReadCommand
    \/ \E e \in End : Copy(e) \/ Desire(e) \/ WriteHalf(e) \/ ReadHalf(e)

\* The halves of a connection run side by side and dial_loop dials again; users,
\* releases and failures are owed to nobody.
Spec ==
    /\ Init /\ [][Next]_vars
    /\ WF_vars(Connect) /\ WF_vars(ReadCommand)
    /\ \A e \in End : WF_vars(WriteHalf(e)) /\ WF_vars(ReadHalf(e))

-----------------------------------------------------------------------------

PieceSet == {Command} \cup UNION {{Piece(m, k) : k \in 0 .. m.size} : m \in Message}

TypeOK ==
    /\ old \in SUBSET End
    /\ stage \in [End -> {"down", "command", "hello", "up"}]
    /\ cut \in BOOLEAN
    /\ pipe \in [End -> Seq(PieceSet)]
    /\ ahead \in Seq(PieceSet)
    /\ writing \in [End -> Seq(PieceSet)]
    /\ reading \in [End -> Seq(PieceSet)]
    /\ busy \in [End -> BOOLEAN]
    /\ last \in [End -> Message \cup {Nothing, Mangled}]
    /\ slot \in [End -> Size \cup {NoClip}]
    /\ news \in [End -> BOOLEAN]
    /\ \A e \in End : Len(pipe[e]) <= PipeCap
    /\ copied \in [End -> Nat]
    /\ changes \in 0 .. MaxNews
    /\ misread \in BOOLEAN
    /\ faults \in 0 .. MaxFaults

-----------------------------------------------------------------------------

\* Neither end gives a connection up for what it read: whatever the two send
\* at once, each finds the frames of the other where they begin, and of a kind
\* that it knows.
FramesHold == ~misread

\* The messages whose heads are in a sequence of pieces.
Heads(s) ==
    LET heads[i \in 0 .. Len(s)] ==
            IF i = 0 THEN <<>>
            ELSE IF s[i].part = 0 /\ s[i] # Command THEN Append(heads[i - 1], s[i].of)
            ELSE heads[i - 1]
    IN  heads[Len(s)]

\* What is on its way to end e: what it has read of a message, what it can read,
\* and what the other end has still to write, unless nothing gets through.
Line(e) == reading[e] \o Arrived(e) \o (IF cut THEN <<>> ELSE writing[Other(e)])

\* The messages sent to end e and not yet read.
Queue(e) == Heads(Line(e))

ToDialer == INSTANCE FrameQueue WITH queue <- Queue("dialer"), taken <- last["dialer"]
ToAcceptor == INSTANCE FrameQueue WITH queue <- Queue("acceptor"), taken <- last["acceptor"]

\* Each direction of a connection is a queue of whole messages.
FollowsQueue == ToDialer!Spec /\ ToAcceptor!Spec

\* Both ends may write large clips at once: a frame that was begun is written,
\* or the connection ends.
WritesFinish == \A e \in End : writing[e] # <<>> ~> writing[e] = <<>>

\* A clip that is too large for the other end costs one connection; in the end
\* there is one that stays.
Settles == <>[](\A e \in End : stage[e] = "up")

=============================================================================
