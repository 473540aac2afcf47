----------------------------- MODULE FileBundle -----------------------------
(***************************************************************************)
(* Copied files on their way from one machine's disk to another's          *)
(* (src/filebundle.rs): the selection is read into a bundle while its      *)
(* owner goes on working with it, and the bundle is laid out in a          *)
(* directory of its clip, by a daemon that may run out of disk or be       *)
(* restarted and get the clip again.                                       *)
(*                                                                         *)
(* A tree is a function from the paths that exist to what is there.  A     *)
(* bundle is its entries with their bodies: as sizes and bodies agree, the *)
(* bodies that follow one another split into the right ones.  Its paths    *)
(* are text: a name that is not UTF-8 is converted with loss, and two such *)
(* names may come to be the same.                                          *)
(***************************************************************************)
EXTENDS Integers, SequencesExt

CONSTANTS
    Names,      \* file names in the order of file_name, as a sequence
    Numbered,   \* Numbered[base][i] is the name "base i"
    Lossy,      \* what to_string_lossy makes of a name
    Body,       \* contents of files and targets of links
    Size,       \* bytes of each
    Mode,       \* permissions
    Fresh,      \* those of what a process creates
    ReadOnly,   \* those of a directory that nothing can be created in
    Sources,    \* trees and selections of paths in them, to begin with
    MaxBytes,   \* what the selection may take of max_bytes
    Overhead,   \* what magic and length of the manifest take of it
    EntryBytes, \* what an entry takes of it, and of the manifest
    MaxManifest,\* bytes of a manifest that decode takes
    MaxTries,   \* bound: captures of the selection
    MaxEdits,   \* bound: changes to the tree
    MaxFaults,  \* bound: failures and restarts at the receiver
    None

VARIABLES
    tree,       \* the sender's files
    selection,  \* the paths on its clipboard
    stage,      \* of the capture: "reading", "failed" or "sent"
    roots,      \* manifest.roots
    stack,      \* what collect_entries has still to visit, and its relative path
    looked,     \* metadata of the first of these, or None
    entries,    \* manifest.entries, with bodies: the bundle, once stage is "sent".
                \* Of each, path is sent, and relative is what it was made of (history)
    total,      \* bytes so far
    tries,
    seen,       \* the receiver's daemon has had the clip
    made,       \* the clip's directory exists
    disk,       \* the tree in it
    pc,         \* of decode: "idle", "write" or "finish"
    next,       \* the entry decode has come to
    outcome,    \* of materialize in this daemon: "none", "ok" or "error"
    cut,        \* a materialization ended before it was complete (history)
    edits, faults

source == <<tree, selection, edits>>
reading == <<stage, roots, stack, looked, entries, total, tries>>
decoding == <<seen, made, disk, pc, next, outcome, cut>>
vars == <<source, reading, decoding, faults>>

\* Content of a directory, and of a file that was not written to its end.
Empty == "empty"
Part == "part"

Kind == {"file", "dir", "link"}
Node == [kind : Kind, body : Body \cup {Empty, Part}, mode : Mode]
Name == ToSet(Names)

\* What a path is made of, and those names that are text.
Label == DOMAIN Lossy
Utf8 == {n \in Label : Lossy[n] = n}

\* Directories have no content, and files one that has a size.
Tidy(t) ==
    \A p \in DOMAIN t : /\ t[p] \in Node
                        /\ t[p].kind = "dir" => t[p].body = Empty
                        /\ t[p].kind = "file" => t[p].body \in Body

\* What a path has above it is there, and a directory.
Connected(t) ==
    \A p \in DOMAIN t : /\ p \in Seq(Name) \ {<<>>}
                        /\ \A n \in 1 .. Len(p) - 1 : /\ SubSeq(p, 1, n) \in DOMAIN t
                                                      /\ t[SubSeq(p, 1, n)].kind = "dir"

ASSUME FileBundleAssumption ==
    /\ Size \in [Body -> Nat]
    /\ {Empty, Part} \cap Body = {}
    /\ Fresh \in Mode /\ ReadOnly \in Mode /\ Fresh # ReadOnly
    /\ \A s \in Sources : Tidy(s.tree) /\ Connected(s.tree)
    /\ \A s \in Sources : s.selection \in Seq(Seq(Name \cap Utf8) \ {<<>>})
    /\ MaxBytes \in Nat /\ Overhead \in Nat /\ EntryBytes \in Nat /\ MaxManifest \in Nat

\* A selection is taken from text (uri_to_path).  No name occurs twice, a number makes
\* no other name of one, and numbers do not run out.
ASSUME NamesAssumption ==
    /\ Names \in Seq(Name)
    /\ \A i, j \in DOMAIN Names : Names[i] = Names[j] => i = j
    /\ Name \subseteq Label /\ Lossy \in [Label -> Utf8]
    /\ \A n \in Name \cap Utf8 : DOMAIN Numbered[n] \subseteq Nat /\ ToSet(Numbered[n]) \subseteq Utf8
    /\ \A s \in Sources, n \in Name \cap Utf8, used \in SUBSET Utf8 :
          n \in used /\ Cardinality(used) < Len(s.selection) =>
              \E i \in DOMAIN Numbered[n] : Numbered[n][i] \notin used

Init ==
    /\ \E s \in Sources : tree = s.tree /\ selection = s.selection
    /\ stage = "reading" /\ roots = <<>> /\ stack = <<>> /\ looked = None
    /\ entries = <<>> /\ total = 0 /\ tries = 1
    /\ seen = FALSE /\ made = FALSE /\ disk = [p \in {} |-> None]
    /\ pc = "idle" /\ next = 0 /\ outcome = "none" /\ cut = FALSE
    /\ edits = 0 /\ faults = 0

-----------------------------------------------------------------------------
(* Trees.                                                                  *)

\* Strictly above a path.
Above(p) == {SubSeq(p, 1, n) : n \in 1 .. Len(p) - 1}

Put(t, p, node) == [q \in DOMAIN t \cup {p} |-> IF q = p THEN node ELSE t[q]]

Directory == [kind |-> "dir", body |-> Empty, mode |-> Fresh]

\* create_dir_all of the paths ps.
MakeDirs(t, ps) == [q \in DOMAIN t \cup ps |-> IF q \in DOMAIN t THEN t[q] ELSE Directory]

AreDirs(t, ps) == \A q \in ps \cap DOMAIN t : t[q].kind = "dir"

\* Nothing is there yet, and the directory can be written to.
CanCreate(t, p) ==
    /\ p \notin DOMAIN t
    /\ AreDirs(t, Above(p))
    /\ \A q \in Above(p) \cap DOMAIN t : Len(q) = Len(p) - 1 => t[q].mode # ReadOnly

-----------------------------------------------------------------------------
(* encode.                                                                 *)

\* Mutant: roots of the same name are not told apart.
SameName(base, used) == base

\* The first of "base", "base 2", "base 3" ... that is not in use.
UniqueName(base, used) ==
    IF base \notin used THEN base
    ELSE LET free == {i \in DOMAIN Numbered[base] : Numbered[base][i] \notin used}
         IN  Numbered[base][CHOOSE i \in free : \A j \in free : i <= j]

NextSource ==
    /\ stage = "reading" /\ stack = <<>>
    /\ Len(roots) < Len(selection)
    /\ LET path == selection[Len(roots) + 1]
           root == UniqueName(Last(path), ToSet(roots))
       IN  /\ roots' = Append(roots, root)
           /\ stack' = <<[source |-> path, relative |-> <<root>>]>>
    /\ UNCHANGED <<source, stage, looked, entries, total, tries, decoding, faults>>

\* symlink_metadata.
Inspect ==
    /\ stage = "reading" /\ stack # <<>> /\ looked = None
    /\ Head(stack).source \in DOMAIN tree
    /\ looked' = tree[Head(stack).source]
    /\ UNCHANGED <<source, stage, roots, stack, entries, total, tries, decoding, faults>>

SizeOf(node) == IF node.kind = "file" THEN Size[node.body] ELSE 0

\* Mutant: a file may have changed its size since it was looked at.
StillAsLooked ==
    LET here == Head(stack).source
    IN  /\ here \in DOMAIN tree
        /\ tree[here].kind = looked.kind
        /\ total + SizeOf(looked) <= MaxBytes

\* What read_link, read_dir and read need to succeed, and the sizes they may have.
Readable ==
    LET here == Head(stack).source
    IN  /\ here \in DOMAIN tree
        /\ tree[here].kind = looked.kind
        /\ total + SizeOf(looked) <= MaxBytes
        /\ SizeOf(tree[here]) = SizeOf(looked)

\* The names in S in the order of file_name.
Sorted(S) ==
    LET sorted[i \in 0 .. Len(Names)] ==
            IF i = 0 THEN <<>>
            ELSE IF Names[i] \in S THEN Append(sorted[i - 1], Names[i])
            ELSE sorted[i - 1]
    IN  sorted[Len(Names)]

\* Mutant: the folders of a folder are left out.
FilesOf(item) ==
    LET there == Sorted({n \in Name : /\ Append(item.source, n) \in DOMAIN tree
                                      /\ tree[Append(item.source, n)].kind # "dir"})
    IN  [i \in DOMAIN there |-> [source   |-> Append(item.source, there[i]),
                                 relative |-> Append(item.relative, there[i])]]

\* A directory's children, in the order of their names.
Children(item) ==
    LET there == Sorted({n \in Name : Append(item.source, n) \in DOMAIN tree})
    IN  [i \in DOMAIN there |-> [source   |-> Append(item.source, there[i]),
                                 relative |-> Append(item.relative, there[i])]]

\* relative_to_string: of each name what can be said in UTF-8.
Text(relative) == [n \in DOMAIN relative |-> Lossy[relative[n]]]

Collect ==
    /\ stage = "reading" /\ stack # <<>> /\ looked # None
    /\ Readable
    /\ LET item == Head(stack)
       IN  /\ entries' = Append(entries, [relative |-> item.relative, path |-> Text(item.relative),
                                          kind |-> looked.kind, size |-> SizeOf(looked),
                                          mode |-> looked.mode, body |-> tree[item.source].body])
           /\ stack' = IF looked.kind = "dir" THEN Children(item) \o Tail(stack)
                       ELSE Tail(stack)
    /\ total' = total + SizeOf(looked)
    /\ looked' = None
    /\ UNCHANGED <<source, stage, roots, tries, decoding, faults>>

CollectFails ==
    /\ stage = "reading" /\ stack # <<>>
    /\ IF looked = None THEN Head(stack).source \notin DOMAIN tree ELSE ~Readable
    /\ stage' = "failed"
    /\ UNCHANGED <<source, roots, stack, looked, entries, total, tries, decoding, faults>>

Collected == stage = "reading" /\ stack = <<>> /\ Len(roots) = Len(selection)

Bytes(sizes) == FoldFunction(+, 0, sizes)

\* What entries take in the manifest; what its roots take is left out.
ManifestSize == Bytes([i \in DOMAIN entries |-> EntryBytes])

Encode ==
    /\ Collected
    /\ total + Overhead + ManifestSize <= MaxBytes
    /\ stage' = "sent"
    /\ UNCHANGED <<source, roots, stack, looked, entries, total, tries, decoding, faults>>

EncodeFails ==
    /\ Collected
    /\ total + Overhead + ManifestSize > MaxBytes
    /\ stage' = "failed"
    /\ UNCHANGED <<source, roots, stack, looked, entries, total, tries, decoding, faults>>

\* The watcher captures again (CaptureRetry).
CaptureAgain ==
    /\ stage = "failed" /\ tries < MaxTries
    /\ tries' = tries + 1
    /\ stage' = "reading" /\ roots' = <<>> /\ stack' = <<>> /\ looked' = None
    /\ entries' = <<>> /\ total' = 0
    /\ UNCHANGED <<source, decoding, faults>>

-----------------------------------------------------------------------------
(* decode.                                                                 *)

TooLong == ManifestSize > MaxManifest

\* The length of the manifest, validate_entries and the length of the bundle.
Valid ==
    /\ ~TooLong
    /\ \A i, j \in DOMAIN entries :
          /\ entries[i].path = entries[j].path => i = j
          /\ entries[i].path \in Above(entries[j].path) => entries[i].kind = "dir"
    /\ \A r \in ToSet(roots) : \E i \in DOMAIN entries : entries[i].path = <<r>>
    /\ Bytes([i \in DOMAIN entries |-> entries[i].size]) =
          Bytes([i \in DOMAIN entries |-> SizeOf(entries[i])])

HasRoots(t) == \A r \in ToSet(roots) : <<r>> \in DOMAIN t

Ends(result) == outcome' = result /\ pc' = "idle" /\ next' = 0

\* A clip is materialized once in a daemon's life.
Receive ==
    /\ stage = "sent" /\ ~seen
    /\ seen' = TRUE
    /\ IF Valid /\ ~made
       THEN made' = TRUE /\ pc' = "write" /\ next' = 1 /\ UNCHANGED outcome
       ELSE Ends(IF Valid /\ HasRoots(disk) THEN "ok" ELSE "error") /\ UNCHANGED made
    /\ UNCHANGED <<source, reading, disk, cut, faults>>

Goes == next' = next + 1 /\ UNCHANGED <<pc, outcome, cut>>

Refused == Ends("error") /\ cut' = TRUE /\ UNCHANGED disk

Here == entries[next]

\* What the first pass makes of an entry: links come last.
CanWrite ==
    \/ Here.kind = "link"
    \/ Here.kind = "dir" /\ AreDirs(disk, Above(Here.path) \cup {Here.path})
    \/ Here.kind = "file" /\ CanCreate(disk, Here.path)

Written(body) ==
    CASE Here.kind = "link" -> disk
      [] Here.kind = "dir"  -> MakeDirs(disk, Above(Here.path) \cup {Here.path})
      [] Here.kind = "file" -> Put(MakeDirs(disk, Above(Here.path)), Here.path,
                                   [kind |-> "file", body |-> body, mode |-> Fresh])

WriteEntry ==
    /\ pc = "write" /\ next <= Len(entries)
    /\ IF CanWrite THEN disk' = Written(Here.body) /\ Goes ELSE Refused
    /\ UNCHANGED <<source, reading, seen, made, faults>>

\* Mutant: the second pass goes from the first entry to the last.
Reversed(i) == i

\* The second pass goes from the last entry to the first.
Order(i) == Len(entries) + 1 - i

AllWritten ==
    /\ pc = "write" /\ next > Len(entries)
    /\ pc' = "finish" /\ next' = 1
    /\ UNCHANGED <<source, reading, seen, made, disk, outcome, cut, faults>>

Finishing == entries[Order(next)]

CanFinish ==
    IF Finishing.kind = "link" THEN CanCreate(disk, Finishing.path)
    ELSE Finishing.path \in DOMAIN disk

\* Mutant: what is there keeps the permissions it was created with.
FinishedFresh(e) ==
    IF e.kind = "link"
    THEN Put(MakeDirs(disk, Above(e.path)), e.path,
             [kind |-> "link", body |-> e.body, mode |-> e.mode])
    ELSE disk

\* Links, and the permissions of everything else.
Finished(e) ==
    IF e.kind = "link"
    THEN Put(MakeDirs(disk, Above(e.path)), e.path,
             [kind |-> "link", body |-> e.body, mode |-> e.mode])
    ELSE [disk EXCEPT ![e.path].mode = e.mode]

FinishEntry ==
    /\ pc = "finish" /\ next <= Len(entries)
    /\ IF CanFinish THEN disk' = Finished(Finishing) /\ Goes ELSE Refused
    /\ UNCHANGED <<source, reading, seen, made, faults>>

Materialized ==
    /\ pc = "finish" /\ next > Len(entries)
    /\ Ends(IF HasRoots(disk) THEN "ok" ELSE "error")
    /\ UNCHANGED <<source, reading, seen, made, disk, cut, faults>>

-----------------------------------------------------------------------------
(* What goes wrong, and who goes on working.                               *)

\* A step that is cut short may leave a piece of a file.
Stops ==
    /\ disk' \in IF pc = "write" /\ next <= Len(entries) /\ CanWrite /\ Here.kind = "file"
                 THEN {disk, Written(Part)} ELSE {disk}
    /\ cut' = (cut \/ pc # "idle")

\* No space left, say.
DecodeFails ==
    /\ pc # "idle"
    /\ faults < MaxFaults /\ faults' = faults + 1
    /\ Stops
    /\ Ends("error")
    /\ UNCHANGED <<source, reading, seen, made>>

\* The receiver's daemon ends at any point; the next one has seen nothing.
Restart ==
    /\ seen
    /\ faults < MaxFaults /\ faults' = faults + 1
    /\ Stops
    /\ Ends("none") /\ seen' = FALSE
    /\ UNCHANGED <<source, reading, made>>

\* The sender's user writes, removes and creates files.
Edits(t) ==
    /\ stage # "sent"
    /\ edits < MaxEdits /\ edits' = edits + 1
    /\ tree' = t
    /\ UNCHANGED <<selection, reading, decoding, faults>>

Edit ==
    \E p \in DOMAIN tree :
        \/ /\ tree[p].kind = "file"
           /\ \E b \in Body \ {tree[p].body} : Edits([tree EXCEPT ![p].body = b])
        \/ Edits([q \in {q \in DOMAIN tree : ~IsPrefix(p, q)} |-> tree[q]])
        \/ \E n \in Name, b \in Body :
              /\ tree[p].kind = "dir" /\ CanCreate(tree, Append(p, n))
              /\ Edits(Put(tree, Append(p, n), [kind |-> "file", body |-> b, mode |-> Fresh]))

Capture == NextSource \/ Inspect \/ Collect \/ CollectFails \/ Encode \/ EncodeFails \/ CaptureAgain
Decode == Receive \/ WriteEntry \/ AllWritten \/ FinishEntry \/ Materialized

Next == Capture \/ Decode \/ DecodeFails \/ Restart \/ Edit

Spec == Init /\ [][Next]_vars

\* A capture and a materialization run once begun, and the mesh delivers (ClipMesh).
FairSpec == Spec /\ WF_vars(Capture) /\ WF_vars(Decode)

-----------------------------------------------------------------------------

TypeOK ==
    /\ Tidy(tree)
    /\ stage \in {"reading", "failed", "sent"}
    /\ looked \in Node \cup {None}
    /\ \A i \in DOMAIN entries : entries[i].kind \in Kind /\ entries[i].mode \in Mode
    /\ total \in 0 .. MaxBytes
    /\ \A p \in DOMAIN disk : disk[p] \in Node
    /\ pc \in {"idle", "write", "finish"}
    /\ outcome \in {"none", "ok", "error"}

\* Conversion makes two names equal: encode does not look, as it does not at TooLong.
NamesMerge ==
    \E i, j \in DOMAIN entries : /\ entries[i].path = entries[j].path
                                /\ entries[i].relative # entries[j].relative

\* Whatever the user does with the files while they are read, what encode makes of
\* them passes every check of decode: paths are distinct and lie in directories,
\* roots are there, and sizes agree with bodies (the size check after fs::read).  Only a
\* manifest that is too long, and names that conversion makes equal, are sent and refused.
BundlesDecode == stage = "sent" => (Valid <=> ~TooLong /\ ~NamesMerge)

\* What materialize hands to the clipboard has every entry of the bundle, with its
\* content, target and permissions (decode), unless an earlier attempt for the same
\* clip was cut short: of what that one left only the roots are looked at.
AcceptedIsWhole ==
    outcome = "ok" =>
        \/ cut
        \/ \A i \in DOMAIN entries :
              LET e == entries[i]
              IN  /\ e.path \in DOMAIN disk
                  /\ disk[e.path] = [kind |-> e.kind, body |-> e.body, mode |-> e.mode]

\* What arrives is the selection and nothing else: "Folders, empty directories,
\* executable permissions, and symbolic links are preserved."  A name that is not UTF-8
\* arrives as it was converted, and no two files come together by that.
Place(i, p) == Text(<<roots[i]>> \o SubSeq(p, Len(selection[i]) + 1, Len(p)))

Selected == {s \in (DOMAIN selection) \X (DOMAIN tree) : IsPrefix(selection[s[1]], s[2])}

Preserved ==
    outcome = "ok" /\ ~cut /\ edits = 0 =>
        /\ DOMAIN disk = {Place(s[1], s[2]) : s \in Selected}
        /\ \A s \in Selected : disk[Place(s[1], s[2])] = tree[s[2]]
        /\ \A s, r \in Selected : Place(s[1], s[2]) = Place(r[1], r[2]) => s = r

\* A bundle that was made is laid out, also with directories that nothing can be
\* created in and links in them, unless the receiver fails (the order of both passes) or
\* must refuse it for its length or its names.
Materializes == stage = "sent" /\ ~TooLong /\ ~NamesMerge ~> outcome = "ok" \/ faults > 0

=============================================================================
