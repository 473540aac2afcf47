------------------------------ MODULE Selection ------------------------------
(***************************************************************************)
(* The daemon as owner of the X11 selection (src/clipboard/x11_owner.rs)   *)
(* and what reads it: the daemon itself (src/clipboard/x11_read.rs) and    *)
(* applications that paste.                                                *)
(*                                                                         *)
(* A reader asks with a window of its own and finds the answer in a        *)
(* property of it.  A value too large for one request comes in pieces: the *)
(* owner leaves a header, and whenever the reader has deleted what is in   *)
(* the property, the next piece, and at last an empty one (INCR).          *)
(* Publications may come between any two of these steps.                   *)
(***************************************************************************)
EXTENDS Integers, Sequences, FiniteSets

CONSTANTS
    Own,           \* windows of the daemon's own reads, each used once
    Paste,         \* windows of other applications, which use them again
    Target,        \* formats
    Size,          \* Size[p][t]: pieces of publication p in format t, 0 if it has none
    Limit,         \* max_bytes, in pieces
    MaxTransfers,  \* 128 in the code
    MaxAsks,       \* bound: reads in a behaviour
    MaxStalls,     \* bound: readers that stop, transfers that expire under them
    None

Window == Own \cup Paste
Publication == 1 .. Len(Size)

ASSUME SelectionAssumption ==
    /\ Own \cap Paste = {}
    /\ IsFiniteSet(Window)
    /\ Size \in Seq([Target -> Nat])
    /\ Limit \in Nat
    /\ MaxTransfers \in Nat \ {0}

VARIABLES
    data,       \* the publication the owner offers, 0 before the first
    queue,      \* events on their way to the owner
    transfers,  \* incremental transfers, by window
    watched,    \* windows of which the owner hears when something is deleted
    property,   \* what is in the property of a window
    events,     \* on their way to the reader
    reading,    \* where a reader stands
    asks, stalls

owner == <<data, transfers, watched>>
selectionVars == <<owner, queue, property, events, reading, asks, stalls>>

Piece == [publication : Publication, target : Target, index : Nat]
Header == [incr : Publication, target : Target]
Transfer == [publication : Publication, target : Target, offset : Nat]

\* A property that is not there is no content.
ASSUME NothingAssumption == None \notin Piece \cup Header

Request == [window : Window, target : Target]
Deleted == [deleted : Window]

\* `since` is the publication that was there when the reader asked (history).
Read == [at : {"idle", "waiting", "ok", "failed", "gone"}, target : Target \cup {None},
         incremental : BOOLEAN, data : Seq(Piece), since : 0 .. Len(Size)]

NoRead == [at |-> "idle", target |-> None, incremental |-> FALSE, data |-> <<>>, since |-> 0]

SelectionInit ==
    /\ data = 0 /\ queue = <<>>
    /\ transfers = [w \in {} |-> None] /\ watched = {}
    /\ property = [w \in Window |-> None]
    /\ events = [w \in Window |-> <<>>]
    /\ reading = [w \in Window |-> NoRead]
    /\ asks = 0 /\ stalls = 0

\* The connection of a read of the daemon's is closed, its window destroyed, at its end.
There(w) == IF w \in Own THEN reading[w].at = "waiting" ELSE reading[w].at # "gone"

-----------------------------------------------------------------------------
(* Owner, a thread that takes one publication or one event at a time.      *)

Publish ==
    /\ data < Len(Size)
    /\ data' = data + 1
    /\ UNCHANGED <<transfers, watched, queue, property, events, reading, asks, stalls>>

Asked == queue # <<>> /\ Head(queue) \in Request
Told == queue # <<>> /\ Head(queue) \in Deleted

Takes == queue' = Tail(queue) /\ UNCHANGED <<data, reading, asks, stalls>>

Tells(w, what) == events' = [events EXCEPT ![w] = @ \o what]

Leaves(w, content) == property' = [property EXCEPT ![w] = content]

PieceOf(p, t, i) == [publication |-> p, target |-> t, index |-> i]

ConvertSmall(w, t) ==
    /\ There(w) /\ Size[data][t] = 1
    /\ Leaves(w, PieceOf(data, t, 1))
    /\ Tells(w, <<"new", "notify">>)
    /\ UNCHANGED <<transfers, watched>>

\* Mutant: nobody tells the owner what is deleted in the window.
ConvertUnwatched(w, t) ==
    /\ There(w) /\ Size[data][t] > 1
    /\ Cardinality(DOMAIN transfers) < MaxTransfers
    /\ Leaves(w, [incr |-> data, target |-> t])
    /\ transfers' = [v \in DOMAIN transfers \cup {w} |->
                        IF v = w THEN [publication |-> data, target |-> t, offset |-> 0]
                        ELSE transfers[v]]
    /\ Tells(w, <<"new", "notify">>)
    /\ UNCHANGED watched

ConvertIncremental(w, t) ==
    /\ There(w) /\ Size[data][t] > 1
    /\ Cardinality(DOMAIN transfers) < MaxTransfers
    /\ watched' = watched \cup {w}
    /\ Leaves(w, [incr |-> data, target |-> t])
    /\ transfers' = [v \in DOMAIN transfers \cup {w} |->
                        IF v = w THEN [publication |-> data, target |-> t, offset |-> 0]
                        ELSE transfers[v]]
    /\ Tells(w, <<"new", "notify">>)

\* The publication has no such format, or too many readers are at it.
Refuse(w, t) ==
    /\ There(w)
    /\ \/ Size[data][t] = 0
       \/ Size[data][t] > 1 /\ Cardinality(DOMAIN transfers) >= MaxTransfers
    /\ Tells(w, <<"refused">>)
    /\ UNCHANGED <<transfers, watched, property>>

\* The window is gone: every request to the server fails.
Unasked(w) == ~There(w) /\ UNCHANGED <<transfers, watched, property, events>>

Answer ==
    /\ Asked
    /\ LET w == Head(queue).window
           t == Head(queue).target
       IN  ConvertSmall(w, t) \/ ConvertIncremental(w, t) \/ Refuse(w, t) \/ Unasked(w)
    /\ Takes

Without(w) == [v \in DOMAIN transfers \ {w} |-> transfers[v]]

\* Mutant: pieces are cut from what the clipboard holds now.
ContentNow(transfer) == data

\* A transfer goes on with its own data, whatever is published meanwhile.
ContentOf(transfer) == transfer.publication

\* Mutant: the empty piece is forgotten.
FinishedEarly(transfer) == transfer.offset + 1 >= Size[transfer.publication][transfer.target]

Finished(transfer) == transfer.offset = Size[transfer.publication][transfer.target]

\* The next piece, and after the last one an empty one.
Continue ==
    /\ Told
    /\ LET w == Head(queue).deleted
           transfer == transfers[w]
           end == transfer.offset = Size[transfer.publication][transfer.target]
       IN  /\ w \in DOMAIN transfers /\ There(w)
           /\ Leaves(w, PieceOf(ContentOf(transfer), transfer.target,
                                IF end THEN 0 ELSE transfer.offset + 1))
           /\ Tells(w, <<"new">>)
           /\ transfers' = IF Finished(transfer) THEN Without(w)
                           ELSE [transfers EXCEPT ![w].offset = @ + 1]
    /\ Takes /\ UNCHANGED watched

\* The window is gone, or nothing is to be continued.
Stop ==
    /\ Told
    /\ LET w == Head(queue).deleted
       IN  /\ w \notin DOMAIN transfers \/ ~There(w)
           /\ transfers' = Without(w)
    /\ Takes /\ UNCHANGED <<watched, property, events>>

\* Mutant: a transfer that has not begun is kept.
ExpireBegun(w) ==
    /\ w \in DOMAIN transfers /\ reading[w].at # "waiting"
    /\ transfers[w].offset > 0
    /\ transfers' = Without(w)
    /\ UNCHANGED <<data, watched, queue, property, events, reading, asks, stalls>>

\* Nothing was deleted for thirty seconds.
Expire(w) ==
    /\ w \in DOMAIN transfers /\ reading[w].at # "waiting"
    /\ transfers' = Without(w)
    /\ UNCHANGED <<data, watched, queue, property, events, reading, asks, stalls>>

\* An application may be that slow; the daemon's own reads give up before.
ExpireUnderway(w) ==
    /\ w \in DOMAIN transfers /\ reading[w].at = "waiting" /\ w \in Paste
    /\ stalls < MaxStalls /\ stalls' = stalls + 1
    /\ transfers' = Without(w)
    /\ UNCHANGED <<data, watched, queue, property, events, reading, asks>>

-----------------------------------------------------------------------------
(* Readers.                                                                *)

\* An application may ask again when it had a notification, if not all of the value.
Ask(w, t) ==
    /\ data > 0
    /\ \/ reading[w].at = "idle"
       \/ w \in Paste /\ reading[w].at \in {"ok", "failed"}
       \/ w \in Paste /\ reading[w].at = "waiting" /\ reading[w].incremental
    /\ asks < MaxAsks /\ asks' = asks + 1
    /\ reading' = [reading EXCEPT ![w] =
                      [NoRead EXCEPT !.at = "waiting", !.target = t, !.since = data]]
    /\ queue' = Append(queue, [window |-> w, target |-> t])
    /\ UNCHANGED <<owner, property, events, stalls>>

\* The property is read and deleted in one; the owner hears of it.
TakesContent(w) ==
    /\ Leaves(w, None)
    /\ queue' = IF w \in watched THEN Append(queue, [deleted |-> w]) ELSE queue

Becomes(w, r) ==
    /\ events' = [events EXCEPT ![w] = Tail(@)]
    /\ reading' = [reading EXCEPT ![w] = r]
    /\ UNCHANGED <<owner, asks, stalls>>

\* An event that makes the reader look at the property.
Looks(w) ==
    /\ reading[w].at = "waiting" /\ events[w] # <<>>
    /\ Head(events[w]) = "notify" \/ (Head(events[w]) = "new" /\ reading[w].incremental)

Overlook(w) ==
    /\ events[w] # <<>> /\ reading[w].at # "gone"
    /\ reading[w].at # "waiting" \/ (Head(events[w]) = "new" /\ ~reading[w].incremental)
    /\ Becomes(w, reading[w])
    /\ UNCHANGED <<queue, property>>

ReadFails(w) == Becomes(w, [reading[w] EXCEPT !.at = "failed"])

TargetUnavailable(w) ==
    /\ reading[w].at = "waiting" /\ events[w] # <<>> /\ Head(events[w]) = "refused"
    /\ ReadFails(w)
    /\ UNCHANGED <<queue, property>>

\* The header, if the value is not too large.
BeginIncremental(w) ==
    /\ Looks(w) /\ property[w] \in Header /\ ~reading[w].incremental
    /\ TakesContent(w)
    /\ IF Size[property[w].incr][property[w].target] <= Limit
       THEN Becomes(w, [reading[w] EXCEPT !.incremental = TRUE])
       ELSE ReadFails(w)

RightType(w) == property[w] \in Piece /\ property[w].target = reading[w].target

\* What is not the empty piece counts.
Bytes(w) == IF property[w].index = 0 THEN <<>> ELSE <<property[w]>>

\* Anything else: a value or a piece of it, if it is of the type and fits.
TakePiece(w) ==
    /\ Looks(w) /\ ~(property[w] \in Header /\ ~reading[w].incremental)
    /\ IF property[w] = None
       THEN Becomes(w, reading[w]) /\ UNCHANGED <<queue, property>>
       ELSE IF ~RightType(w) THEN TakesContent(w) /\ ReadFails(w)
       ELSE IF Len(reading[w].data \o Bytes(w)) > Limit
            THEN ReadFails(w) /\ UNCHANGED <<queue, property>>
       ELSE /\ TakesContent(w)
            /\ Becomes(w, [reading[w] EXCEPT
                  !.data = @ \o Bytes(w),
                  !.at = IF ~reading[w].incremental \/ Bytes(w) = <<>> THEN "ok" ELSE "waiting"])

\* Five seconds without progress, or thirty at all.
TimesOut(w) ==
    /\ w \in Own /\ reading[w].at = "waiting"
    /\ stalls < MaxStalls /\ stalls' = stalls + 1
    /\ reading' = [reading EXCEPT ![w].at = "failed"]
    /\ UNCHANGED <<owner, queue, property, events, asks>>

\* An application ends.
Vanish(w) ==
    /\ w \in Paste /\ reading[w].at # "gone"
    /\ stalls < MaxStalls /\ stalls' = stalls + 1
    /\ reading' = [reading EXCEPT ![w].at = "gone"]
    /\ UNCHANGED <<owner, queue, property, events, asks>>

-----------------------------------------------------------------------------

Owner == Answer \/ Continue \/ Stop

Proceeds(w) ==
    \/ Overlook(w) \/ TargetUnavailable(w)
    \/ BeginIncremental(w) \/ TakePiece(w)

SelectionNext ==
    \/ Publish \/ Owner
    \/ \E w \in Window : Proceeds(w) \/ Expire(w) \/ ExpireUnderway(w) \/ TimesOut(w) \/ Vanish(w)
    \/ \E w \in Window, t \in Target : Ask(w, t)

SelectionSpec == SelectionInit /\ [][SelectionNext]_selectionVars

\* The owner's thread and the readers run; what nobody fetches expires.
FairSelectionSpec ==
    /\ SelectionSpec
    /\ WF_selectionVars(Owner)
    /\ \A w \in Window : WF_selectionVars(Proceeds(w)) /\ WF_selectionVars(Expire(w))

-----------------------------------------------------------------------------

SelectionTypes ==
    /\ data \in 0 .. Len(Size)
    /\ queue \in Seq(Request \cup Deleted)
    /\ DOMAIN transfers \subseteq Window
    /\ \A w \in DOMAIN transfers : transfers[w] \in Transfer
    /\ Cardinality(DOMAIN transfers) <= MaxTransfers
    /\ watched \subseteq Window /\ DOMAIN transfers \subseteq watched
    /\ property \in [Window -> Piece \cup Header \cup {None}]
    /\ events \in [Window -> Seq({"new", "notify", "refused"})]
    /\ reading \in [Window -> Read]

\* What a read returns is one publication's value, every piece once and in order,
\* although others came in between or the window was used before; and none older than
\* the one that was there when it asked: what apply reads back is what it published.
WholeValue ==
    \A w \in Window : reading[w].at = "ok" =>
        \E p \in Publication :
            /\ p >= reading[w].since
            /\ reading[w].data = [i \in 1 .. Size[p][reading[w].target] |->
                                     PieceOf(p, reading[w].target, i)]

\* Owner and reader never wait for each other: whoever asks gets the value or is
\* told that he does not (the order of event mask, header and notification).
Answered ==
    \A w \in Window : reading[w].at = "waiting" ~> reading[w].at # "waiting" \/ stalls > 0

\* Transfers that nobody goes on with do not keep others out for good.
RoomAgain == []<>(Cardinality(DOMAIN transfers) < MaxTransfers)

=============================================================================
