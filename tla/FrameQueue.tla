----------------------------- MODULE FrameQueue -----------------------------
(***************************************************************************)
(* What src/protocol.rs promises one direction of a peer connection:       *)
(* messages arrive whole, in the order they were sent, each at most once;  *)
(* when the connection ends, what had not been received is lost from some  *)
(* message on.                                                             *)
(***************************************************************************)
EXTENDS Sequences, Naturals

CONSTANT Message

VARIABLES
    queue,  \* messages sent and not yet received
    taken   \* the message received last, or nothing yet

vars == <<queue, taken>>

Init == queue = <<>> /\ taken \notin Message

Send(m) ==
    /\ queue' = Append(queue, m)
    /\ UNCHANGED taken

Receive ==
    /\ queue # <<>>
    /\ taken' = Head(queue)
    /\ queue' = Tail(queue)

Break ==
    /\ \E k \in 0 .. Len(queue) : queue' = SubSeq(queue, 1, k)
    /\ UNCHANGED taken

Next == (\E m \in Message : Send(m)) \/ Receive \/ Break

\* A message that waits is received unless the connection ends.
Spec == Init /\ [][Next]_vars /\ WF_vars(Receive)

=============================================================================
