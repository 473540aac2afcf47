------------------------------ MODULE MCSetup -------------------------------
(* A headless Linux machine without Xvfb and one with an older              *)
(* installation of its owner's; this machine knows the second already and   *)
(* runs a daemon.                                                           *)
EXTENDS Setup

CONSTANTS headless, desktop, toHeadless, toDesktop

MCReaches == toHeadless :> headless @@ toDesktop :> desktop

Bare == [binary |-> NoBinary, config |-> "none", headless |-> FALSE,
         service |-> FALSE, running |-> NoBinary, xvfb |-> FALSE]

Dated == [binary |-> Older, config |-> "own", headless |-> FALSE,
          service |-> TRUE, running |-> Older, xvfb |-> FALSE]

Paired == <<[name |-> desktop, command |-> toDesktop]>>

Machines(x) == headless :> [Bare EXCEPT !.xvfb = x] @@ desktop :> Dated

MCStarts == {[machines |-> Machines(FALSE), peers |-> <<>>, running |-> FALSE],
             [machines |-> Machines(TRUE), peers |-> Paired, running |-> TRUE]}
=============================================================================
