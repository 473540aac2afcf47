----------------------------- MODULE MCMonitor ------------------------------
(* Two machines that are peers, and the monitor of one of them. *)
EXTENDS Monitor

CONSTANTS a, b

Both == {a, b}
BothPeers == [n \in Both |-> Both \ {n}]
=============================================================================
