----------------------------- MODULE MCSelection -----------------------------
(* A read of the daemon's and an application that uses its window again;     *)
(* text in one piece and an image in several, too many of them at last.      *)
EXTENDS Selection, TLC

CONSTANTS text, image, own, app

MCSize == <<text :> 1 @@ image :> 2, text :> 1 @@ image :> 2, text :> 0 @@ image :> 3>>
=============================================================================
