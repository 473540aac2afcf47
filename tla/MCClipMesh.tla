----------------------------- MODULE MCClipMesh -----------------------------
(* Small meshes for ClipMesh: node a's ports are a1, a2, and so on. *)
EXTENDS ClipMesh, TLC

Pair == {"a", "b"}
Three == {"a", "b", "c"}

\* One connection between a and b, or two when each dials the other.
PairPorts == {"a1", "b1"}
DoublePorts == {"a1", "b1", "a2", "b2"}
DoubleNodeOf == "a1" :> "a" @@ "a2" :> "a" @@ "b1" :> "b" @@ "b2" :> "b"
PairNodeOf == [p \in PairPorts |-> DoubleNodeOf[p]]
PairPeerOf == "a1" :> "b1" @@ "b1" :> "a1"
DoublePeerOf == PairPeerOf @@ "a2" :> "b2" @@ "b2" :> "a2"

\* a and c know only the hub b.
ChainPorts == {"a1", "b1", "b2", "c1"}
ChainNodeOf == "a1" :> "a" @@ "b1" :> "b" @@ "b2" :> "b" @@ "c1" :> "c"
ChainPeerOf == "a1" :> "b1" @@ "b1" :> "a1" @@ "b2" :> "c1" @@ "c1" :> "b2"

Values == {"x", "y"}

\* Every value reads back as it was published.
Faithful == [n \in Node |-> [v \in Content |-> v]]

\* Publishing x on b reads back as y.
Rewritten == [n \in Node |-> [v \in Content |-> IF n = "b" THEN "y" ELSE v]]

OnlyA == {"a"}

=============================================================================
