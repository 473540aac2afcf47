---------------------------- MODULE MCFileBundle ----------------------------
(* Files of the same name from two folders beside one that has the number   *)
(* they would get; folders that are read-only, empty or nested; and one of  *)
(* a name that is not UTF-8, beside which the name that it is converted to  *)
(* may be created.                                                          *)
EXTENDS FileBundle, TLC

CONSTANTS x, y, xy, plain, exec, closed

MCNames == <<"a", "a 2", "a 2 2", "d", "f?", "f1">>

MCNumbered == [base \in {"a", "a 2", "a 2 2", "d", "f?", "f1"} |->
    IF base = "a" THEN 2 :> "a 2" @@ 3 :> "a 3"
    ELSE IF base = "a 2" THEN 2 :> "a 2 2" @@ 3 :> "a 2 3"
    ELSE 2 :> "b" @@ 3 :> "c"]

MCLossy == [n \in {"a", "a 2", "a 2 2", "d", "f?", "f1", "a 3", "a 2 3", "b", "c"} |->
    IF n = "f1" THEN "f?" ELSE n]

MCSize == x :> 1 @@ y :> 1 @@ xy :> 8

Dir(m) == [kind |-> "dir", body |-> Empty, mode |-> m]
File(b, m) == [kind |-> "file", body |-> b, mode |-> m]
Link(b) == [kind |-> "link", body |-> b, mode |-> plain]

Alike ==
    [tree |-> <<"d">> :> Dir(plain) @@ <<"d", "a">> :> File(x, exec)
              @@ <<"d", "a 2">> :> File(y, plain) @@ <<"a">> :> Link(x),
     selection |-> <<<<"a">>, <<"d", "a">>, <<"d", "a 2">>>>]

Nested ==
    [tree |-> <<"d">> :> Dir(closed) @@ <<"d", "a">> :> Link(y)
              @@ <<"d", "d">> :> Dir(plain) @@ <<"d", "a 2">> :> File(xy, exec),
     selection |-> <<<<"d">>>>]

Foreign ==
    [tree |-> <<"d">> :> Dir(plain) @@ <<"d", "f1">> :> Dir(closed)
              @@ <<"d", "f1", "a">> :> Link(x),
     selection |-> <<<<"d">>>>]

MCSources == {Alike, Nested, Foreign}
=============================================================================
