----------------------------- MODULE NewestClip -----------------------------
(***************************************************************************)
(* What the mesh promises when one machine copies and the others follow:   *)
(* the clips are numbered in the order they were minted, every follower    *)
(* shows ever newer ones, may skip some, and is never left behind.  This   *)
(* is the promise of the newest-value channels (docs/architecture.md,      *)
(* "Multi-peer behavior").                                                 *)
(***************************************************************************)
EXTENDS Naturals

CONSTANTS
    Follower,   \* nodes that only paste
    MaxClip     \* bound: clips minted in a behaviour

VARIABLES
    minted,     \* how many clips exist
    shown       \* shown[n]: the clip on n's clipboard, 0 before the first

vars == <<minted, shown>>

Init ==
    /\ minted = 0
    /\ shown = [n \in Follower |-> 0]

Mint ==
    /\ minted < MaxClip
    /\ minted' = minted + 1
    /\ UNCHANGED shown

Show(n) ==
    /\ \E c \in shown[n] + 1 .. minted : shown' = [shown EXCEPT ![n] = c]
    /\ UNCHANGED minted

Next == Mint \/ \E n \in Follower : Show(n)

\* Every clip is shown, or overtaken by a newer one, on every follower.
CatchesUp ==
    \A c \in 1 .. MaxClip : (minted >= c) ~> (\A n \in Follower : shown[n] >= c)

Spec == Init /\ [][Next]_vars /\ CatchesUp

=============================================================================
