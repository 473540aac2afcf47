-------------------------- MODULE FileBundleProofs --------------------------
(***************************************************************************)
(* For all trees, selections and failures: what encode makes of a          *)
(* selection passes every check of decode but those for a manifest that is *)
(* too long and names that conversion makes equal (BundlesDecode), what    *)
(* materialize hands to the clipboard is the whole bundle, or of an        *)
(* attempt that was cut short (AcceptedIsWhole), and the whole bundle is   *)
(* the selection as it was, if nobody changed it meanwhile (Preserved).    *)
(*                                                                         *)
(* At the receiver the first pass leaves every entry behind it but the     *)
(* links with kind and content; the second, from the end, leaves every     *)
(* entry behind it as it has to be.  As no two entries have a path in      *)
(* common and nothing is put where something is, neither pass undoes what  *)
(* was done (IInv).                                                        *)
(*                                                                         *)
(* At the sender no item on the stack is, or has above it, another item or *)
(* an entry that is already there, and what an entry or an item has above  *)
(* it is the entry of a directory: a root is new, and children come in the *)
(* place of their directory, under names of which no two are the same      *)
(* (Walk).  That is said of paths as they were before conversion; as long  *)
(* as conversion tells names apart it carries over to those of the bundle  *)
(* (UnderPath).                                                            *)
(*                                                                         *)
(* While nobody changes the tree, every path of the selection has an entry *)
(* at its place or is below an item on the stack, and every entry is of    *)
(* one: from an item a path below it is reached by one of the children, as *)
(* what lies above a path is a directory (Account).  As an entry has one   *)
(* for each directory above it, neither pass of the receiver puts anything *)
(* but the entries on its disk (OnlyEntries).                              *)
(*                                                                         *)
(* And nothing but a failure stops a materialization (NothingRefused):     *)
(* what is on the disk is of entries that a pass has come to, or a         *)
(* directory above an entry, and a directory is closed only when what is   *)
(* in it is there, as it comes before that in the bundle (Unhindered).     *)
(***************************************************************************)
EXTENDS FileBundle, FiniteSetTheorems, SequenceTheorems, TLAPS

IsSequence(s) == \E S : s \in Seq(S)

InOrder(e) ==
    /\ e.kind \in Kind /\ e.mode \in Mode
    /\ e.body \in Body \cup {Empty, Part}
    /\ e.kind = "dir" => e.body = Empty

Sender ==
    /\ Tidy(tree)
    /\ stage \in {"reading", "failed", "sent"}
    /\ looked # None =>
          /\ looked \in Node
          /\ looked.kind = "dir" => looked.body = Empty
          /\ looked.kind = "file" => looked.body \in Body
    /\ IsSequence(entries)
    /\ \A i \in DOMAIN entries : InOrder(entries[i])
    /\ total \in 0 .. MaxBytes

Distinct == \A i, j \in DOMAIN entries : entries[i].path = entries[j].path => i = j

\* A directory is only made for a bundle that passes all checks.
Receiver ==
    /\ pc \in {"idle", "write", "finish"}
    /\ outcome \in {"none", "ok", "error"}
    /\ cut \in BOOLEAN
    /\ stage # "sent" => ~seen /\ ~made
    /\ ~seen => pc = "idle" /\ outcome = "none"
    /\ outcome = "ok" => made /\ pc = "idle"
    /\ made => Valid
    /\ pc # "idle" => made /\ next \in 1 .. Len(entries) + 1

OnDisk(t) == \A p \in DOMAIN t : t[p] \in Node /\ (t[p].kind = "dir" => t[p].body = Empty)

\* What the first pass and the second owe to an entry.
Laid(t, e) ==
    e.kind # "link" => /\ e.path \in DOMAIN t
                       /\ t[e.path].kind = e.kind
                       /\ t[e.path].body = e.body

Final(t, e) ==
    /\ e.path \in DOMAIN t
    /\ t[e.path] = [kind |-> e.kind, body |-> e.body, mode |-> e.mode]

Layout ==
    /\ OnDisk(disk)
    /\ pc = "write" => \A i \in 1 .. next - 1 : Laid(disk, entries[i])
    /\ pc = "finish" =>
          /\ \A i \in 1 .. Len(entries) + 1 - next : Laid(disk, entries[i])
          /\ \A i \in Len(entries) + 2 - next .. Len(entries) : Final(disk, entries[i])
    /\ pc = "idle" /\ made => cut \/ \A i \in DOMAIN entries : Final(disk, entries[i])

IInv == Sender /\ Receiver /\ Layout

-----------------------------------------------------------------------------
(* Sequences and trees.                                                    *)

LEMMA AppendGrows ==
    ASSUME NEW s, IsSequence(s), NEW e
    PROVE  /\ IsSequence(Append(s, e))
           /\ DOMAIN Append(s, e) = 1 .. Len(s) + 1
           /\ Append(s, e)[Len(s) + 1] = e
           /\ \A i \in 1 .. Len(s) : Append(s, e)[i] = s[i]
<1>1. PICK S : s \in Seq(S)
  BY DEF IsSequence
<1>2. s \in Seq(S \cup {e}) /\ e \in S \cup {e}
  BY <1>1
<1>3. Append(s, e) \in Seq(S \cup {e})
  BY <1>2
<1> QED
  BY <1>2, <1>3 DEF IsSequence

LEMMA LengthOf ==
    ASSUME NEW s, IsSequence(s) PROVE Len(s) \in Nat /\ DOMAIN s = 1 .. Len(s)
BY DEF IsSequence

\* What comes into being is tidy, and leaves alone what there was.
LEMMA PutKeeps ==
    ASSUME NEW t, OnDisk(t), NEW ps, NEW p, p \notin DOMAIN t, NEW node \in Node,
           node.kind = "dir" => node.body = Empty
    PROVE  LET u == Put(MakeDirs(t, ps), p, node)
           IN  /\ OnDisk(u)
               /\ p \in DOMAIN u /\ u[p] = node
               /\ \A e : Laid(t, e) => Laid(u, e)
               /\ \A e : Final(t, e) => Final(u, e)
BY FileBundleAssumption
   DEF OnDisk, Put, MakeDirs, Directory, Node, Kind, Laid, Final

LEMMA MakeDirsKeeps ==
    ASSUME NEW t, OnDisk(t), NEW ps
    PROVE  /\ OnDisk(MakeDirs(t, ps))
           /\ \A e : Laid(t, e) => Laid(MakeDirs(t, ps), e)
           /\ AreDirs(t, ps) => \A p \in ps : /\ p \in DOMAIN MakeDirs(t, ps)
                                              /\ MakeDirs(t, ps)[p].kind = "dir"
BY FileBundleAssumption
   DEF OnDisk, MakeDirs, Directory, Node, Kind, Laid, AreDirs


-----------------------------------------------------------------------------
(* The sender.                                                             *)

LEMMA InitOk == ASSUME Init PROVE IInv
<1>1. IsSequence(<<>>) /\ DOMAIN <<>> = {}
  <2>1. <<>> \in Seq({})
    OBVIOUS
  <2> QED
    BY <2>1 DEF IsSequence
<1>2. Tidy(tree)
  BY FileBundleAssumption DEF Init
<1>3. Sender
  BY <1>1, <1>2, FileBundleAssumption DEF Init, Sender
<1>4. Receiver
  BY DEF Init, Receiver
<1>5. Layout
  BY DEF Init, Layout, OnDisk
<1> QED
  BY <1>3, <1>4, <1>5 DEF IInv

LEMMA CollectKeeps == ASSUME Sender, Collect PROVE Sender'
<1> DEFINE e == [relative |-> Head(stack).relative, path |-> Text(Head(stack).relative),
                 kind |-> looked.kind, size |-> SizeOf(looked),
                 mode |-> looked.mode, body |-> tree[Head(stack).source].body]
<1>1. Head(stack).source \in DOMAIN tree /\ tree[Head(stack).source].kind = looked.kind
  BY DEF Collect, Readable
<1>2. looked \in Node /\ tree[Head(stack).source] \in Node
  BY <1>1 DEF Sender, Collect, Tidy
<1>3. InOrder(e)
  BY <1>1, <1>2 DEF InOrder, Sender, Tidy, Node
<1>4. SizeOf(looked) \in Nat
  BY FileBundleAssumption DEF SizeOf, Sender, Collect
<1>5. total' \in 0 .. MaxBytes
  BY <1>4, FileBundleAssumption DEF Sender, Collect, Readable
<1>6. entries' = Append(entries, e)
  BY DEF Collect
<1>7. IsSequence(entries') /\ \A i \in DOMAIN entries' : InOrder(entries'[i])
  BY <1>3, <1>6, AppendGrows, LengthOf DEF Sender
<1> QED
  BY <1>5, <1>7 DEF Sender, Collect, source, Tidy

LEMMA EditKeeps == ASSUME Sender, Edit PROVE Tidy(tree')
<1>1. CASE \E p \in DOMAIN tree, b \in Body :
              tree[p].kind = "file" /\ tree' = [tree EXCEPT ![p].body = b]
  BY <1>1 DEF Sender, Tidy, Node, Kind
<1>2. CASE \E p \in DOMAIN tree :
              tree' = [q \in {q \in DOMAIN tree : ~IsPrefix(p, q)} |-> tree[q]]
  BY <1>2 DEF Sender, Tidy
<1>3. CASE \E p, b : b \in Body /\ tree' = Put(tree, p, [kind |-> "file", body |-> b, mode |-> Fresh])
  BY <1>3, FileBundleAssumption DEF Sender, Tidy, Put, Node, Kind
<1> QED
  BY <1>1, <1>2, <1>3 DEF Edit, Edits

\* While a selection is read the receiver has nothing to do.
LEMMA SenderSteps == ASSUME IInv, Capture \/ Edit PROVE IInv'
<1>1. stage # "sent" /\ UNCHANGED decoding
  BY DEF Capture, Edit, Edits, NextSource, Inspect, Collect, CollectFails, Collected,
         Encode, EncodeFails, CaptureAgain
<1>2. Receiver' /\ Layout'
  BY <1>1 DEF IInv, Receiver, Layout, decoding
<1>3. CASE Collect
  BY <1>2, <1>3, CollectKeeps DEF IInv
<1>4. CASE Edit
  BY <1>2, <1>4, EditKeeps DEF IInv, Sender, Edit, Edits, reading
<1>5. CASE CaptureAgain
  <2>1. IsSequence(<<>>) /\ DOMAIN <<>> = {}
    <3>1. <<>> \in Seq({})
      OBVIOUS
    <3> QED
      BY <3>1 DEF IsSequence
  <2> QED
    BY <1>2, <1>5, <2>1, FileBundleAssumption DEF IInv, Sender, CaptureAgain, source, Tidy
<1>6. CASE Inspect
  BY <1>2, <1>6 DEF IInv, Sender, Inspect, source, Tidy
<1>7. CASE NextSource \/ CollectFails \/ Encode \/ EncodeFails
  BY <1>2, <1>7
     DEF IInv, Sender, NextSource, CollectFails, Encode, EncodeFails, source, Tidy
<1> QED
  BY <1>3, <1>4, <1>5, <1>6, <1>7 DEF Capture

-----------------------------------------------------------------------------
(* The receiver.                                                           *)

LEMMA ValidStays == ASSUME UNCHANGED reading PROVE Valid' <=> Valid
BY DEF reading, Valid, TooLong, SizeOf, ManifestSize

LEMMA ReceiveKeeps == ASSUME IInv, Receive PROVE Receiver' /\ Layout'
<1> USE DEF IInv, Receive
<1>1. Len(entries) \in Nat
  BY LengthOf DEF Sender
<1>2. (Valid' <=> Valid) /\ UNCHANGED <<entries, stage, disk, cut>>
  BY ValidStays DEF reading
<1>3. CASE Valid /\ ~made
  BY <1>1, <1>2, <1>3 DEF Receiver, Layout
<1>4. CASE ~(Valid /\ ~made)
  <2>1. UNCHANGED made /\ pc' = "idle" /\ pc = "idle"
    BY <1>4 DEF Ends, Receiver
  <2>2. outcome' \in {"ok", "error"} /\ (outcome' = "ok" => made)
    BY <1>4 DEF Ends, Receiver
  <2> QED
    BY <1>2, <2>1, <2>2 DEF Receiver, Layout
<1> QED
  BY <1>3, <1>4

\* An attempt that ends before it is complete.
LEMMA CutKeeps ==
    ASSUME IInv, OnDisk(disk'), UNCHANGED <<reading, made>>, pc # "idle", pc' = "idle",
           cut' = TRUE,
           \/ outcome' = "error" /\ seen' /\ stage = "sent"
           \/ outcome' = "none"
    PROVE  Receiver' /\ Layout'
BY ValidStays DEF IInv, Receiver, Layout, reading

LEMMA WrittenKeeps ==
    ASSUME IInv, pc = "write", next \in DOMAIN entries, CanWrite,
           NEW body \in Body \cup {Empty, Part}
    PROVE  /\ OnDisk(Written(body))
           /\ \A i \in 1 .. next - 1 : Laid(Written(body), entries[i])
           /\ body = Here.body => Laid(Written(body), Here)
<1> USE DEF IInv, Layout, Written, CanWrite
<1>1. InOrder(Here)
  BY DEF Sender, Here
<1>2. CASE Here.kind = "link"
  BY <1>2 DEF Laid
<1>3. CASE Here.kind = "dir"
  <2> DEFINE ps == Above(Here.path) \cup {Here.path}
  <2>1. Written(body) = MakeDirs(disk, ps) /\ AreDirs(disk, ps) /\ Here.path \in ps
    BY <1>3
  <2> HIDE DEF ps
  <2>2. OnDisk(MakeDirs(disk, ps))
    BY MakeDirsKeeps
  <2>3. \A i \in 1 .. next - 1 : Laid(MakeDirs(disk, ps), entries[i])
    BY MakeDirsKeeps
  <2>4. Here.path \in DOMAIN MakeDirs(disk, ps) /\ MakeDirs(disk, ps)[Here.path].kind = "dir"
    BY <2>1, MakeDirsKeeps
  <2>5. Laid(MakeDirs(disk, ps), Here)
    BY <1>1, <1>3, <2>2, <2>4 DEF Laid, OnDisk, InOrder
  <2> QED
    BY <2>1, <2>2, <2>3, <2>5
<1>4. CASE Here.kind = "file"
  <2> DEFINE node == [kind |-> "file", body |-> body, mode |-> Fresh]
  <2>1. Written(body) = Put(MakeDirs(disk, Above(Here.path)), Here.path, node)
        /\ Here.path \notin DOMAIN disk
    BY <1>4 DEF CanCreate
  <2>2. node \in Node /\ node.kind # "dir"
    BY FileBundleAssumption DEF Node, Kind
  <2> QED
    BY <1>4, <2>1, <2>2, PutKeeps DEF Laid
<1> QED
  BY <1>1, <1>2, <1>3, <1>4 DEF InOrder, Kind

LEMMA WriteKeeps == ASSUME IInv, WriteEntry PROVE Receiver' /\ Layout'
<1>1. next \in DOMAIN entries /\ Len(entries) \in Nat /\ InOrder(Here)
  BY LengthOf DEF IInv, Sender, Receiver, WriteEntry, Here
<1>2. CASE CanWrite
  <2>1. disk' = Written(Here.body) /\ next' = next + 1 /\ Here.body \in Body \cup {Empty, Part}
        /\ UNCHANGED <<reading, seen, made, pc, outcome, cut>> /\ pc = "write"
    BY <1>1, <1>2 DEF WriteEntry, Goes, InOrder
  <2>2. OnDisk(disk') /\ \A i \in 1 .. next : Laid(disk', entries[i])
    BY <1>1, <1>2, <2>1, WrittenKeeps DEF Here
  <2> QED
    BY <1>1, <2>1, <2>2, ValidStays DEF IInv, Receiver, Layout, reading, WriteEntry
<1>3. CASE ~CanWrite
  <2>1. Refused /\ UNCHANGED <<reading, seen, made>> /\ pc = "write"
    BY <1>3 DEF WriteEntry
  <2> QED
    BY <2>1, CutKeeps DEF Refused, Ends, IInv, Receiver, Layout
<1> QED
  BY <1>2, <1>3

LEMMA AllWrittenKeeps == ASSUME IInv, AllWritten PROVE Receiver' /\ Layout'
BY LengthOf, ValidStays DEF IInv, Sender, Receiver, Layout, AllWritten, reading

Chmod(node, m) == [node EXCEPT !.mode = m]

LEMMA ChmodSets ==
    ASSUME NEW node \in Node, NEW m, NEW e, node.kind = e.kind, node.body = e.body
    PROVE  Chmod(node, m) = [kind |-> e.kind, body |-> e.body, mode |-> m]
BY DEF Node, Chmod

LEMMA FinishedKeeps ==
    ASSUME IInv, pc = "finish", next \in DOMAIN entries, CanFinish
    PROVE  LET after == Finished(Finishing)
           IN  /\ OnDisk(after)
               /\ Final(after, Finishing)
               /\ \A i \in 1 .. Len(entries) - next : Laid(after, entries[i])
               /\ \A i \in Len(entries) + 2 - next .. Len(entries) : Final(after, entries[i])
<1> DEFINE k == Order(next)
           after == Finished(Finishing)
<1> USE DEF CanFinish, Finishing
<1>1. /\ Len(entries) \in Nat /\ next \in 1 .. Len(entries) /\ k = Len(entries) + 1 - next
      /\ k \in DOMAIN entries /\ DOMAIN entries = 1 .. Len(entries)
      /\ InOrder(Finishing)
  BY LengthOf DEF IInv, Sender, Order
<1>2. /\ \A i \in 1 .. Len(entries) - next : Laid(disk, entries[i]) /\ entries[i].path # Finishing.path
      /\ \A i \in Len(entries) + 2 - next .. Len(entries) :
            Final(disk, entries[i]) /\ entries[i].path # Finishing.path
      /\ Laid(disk, Finishing) /\ OnDisk(disk)
  <2>1. Layout /\ Distinct
    BY DEF IInv, Receiver, Valid, Distinct
  <2>2. \A i \in DOMAIN entries : i # k => entries[i].path # Finishing.path
    BY <1>1, <2>1 DEF Distinct
  <2>3. /\ OnDisk(disk)
        /\ \A i \in 1 .. Len(entries) + 1 - next : Laid(disk, entries[i])
        /\ \A i \in Len(entries) + 2 - next .. Len(entries) : Final(disk, entries[i])
    BY <2>1 DEF Layout
  <2>4. k \in 1 .. Len(entries) + 1 - next
    BY <1>1
  <2>5. \A i \in 1 .. Len(entries) - next :
          i \in DOMAIN entries /\ i # k /\ i \in 1 .. Len(entries) + 1 - next
    BY <1>1
  <2>6. \A i \in Len(entries) + 2 - next .. Len(entries) : i \in DOMAIN entries /\ i # k
    BY <1>1
  <2> QED
    BY <2>2, <2>3, <2>4, <2>5, <2>6
<1>3. CASE Finishing.kind = "link"
  <2> DEFINE node == [kind |-> "link", body |-> Finishing.body, mode |-> Finishing.mode]
  <2>1. after = Put(MakeDirs(disk, Above(Finishing.path)), Finishing.path, node)
        /\ Finishing.path \notin DOMAIN disk
    BY <1>3 DEF Finished, CanCreate
  <2>2. node \in Node /\ node.kind # "dir"
    BY <1>1 DEF InOrder, Node, Kind
  <2>3. Final(after, Finishing)
    BY <1>2, <1>3, <2>1, <2>2, PutKeeps DEF Final
  <2>4. /\ OnDisk(after)
        /\ \A e : Laid(disk, e) => Laid(after, e)
        /\ \A e : Final(disk, e) => Final(after, e)
    BY <1>2, <2>1, <2>2, PutKeeps
  <2> HIDE DEF node, after, Finishing
  <2>5. /\ \A i \in 1 .. Len(entries) - next : Laid(after, entries[i])
        /\ \A i \in Len(entries) + 2 - next .. Len(entries) : Final(after, entries[i])
    BY <1>2, <2>4
  <2> QED
    BY <2>3, <2>4, <2>5 DEF after
<1>4. CASE Finishing.kind # "link"
  <2>1. /\ after = [disk EXCEPT ![Finishing.path].mode = Finishing.mode]
        /\ Finishing.path \in DOMAIN disk
    BY <1>4 DEF Finished
  <2>2. /\ DOMAIN after = DOMAIN disk
        /\ \A p \in DOMAIN disk : p # Finishing.path => after[p] = disk[p]
        /\ after[Finishing.path] = Chmod(disk[Finishing.path], Finishing.mode)
    BY <2>1 DEF Chmod
  <2>3. /\ disk[Finishing.path] \in Node
        /\ disk[Finishing.path].kind = Finishing.kind
        /\ disk[Finishing.path].body = Finishing.body
        /\ Finishing.mode \in Mode
    BY <1>1, <1>2, <1>4, <2>1 DEF OnDisk, Laid, InOrder
  <2> HIDE DEF after, Finishing
  <2>4. after[Finishing.path] = [kind |-> Finishing.kind, body |-> Finishing.body,
                                 mode |-> Finishing.mode]
    BY <2>2, <2>3, ChmodSets
  <2>5. OnDisk(after)
    <3>1. after[Finishing.path] \in Node
      BY <1>1, <2>4 DEF Node, InOrder
    <3>2. after[Finishing.path].kind = "dir" => after[Finishing.path].body = Empty
      BY <1>1, <2>4 DEF InOrder
    <3> QED
      BY <1>2, <2>2, <3>1, <3>2 DEF OnDisk
  <2>6. Final(after, Finishing)
    BY <2>1, <2>2, <2>4 DEF Final
  <2>7. \A i \in 1 .. Len(entries) - next : Laid(after, entries[i])
    BY <1>2, <2>2 DEF Laid
  <2>8. \A i \in Len(entries) + 2 - next .. Len(entries) : Final(after, entries[i])
    BY <1>2, <2>2 DEF Final
  <2> USE DEF after, Finishing
  <2> QED
    BY <2>5, <2>6, <2>7, <2>8
<1> QED
  BY <1>3, <1>4

LEMMA FinishKeeps == ASSUME IInv, FinishEntry PROVE Receiver' /\ Layout'
<1>1. next \in DOMAIN entries /\ Len(entries) \in Nat /\ next \in 1 .. Len(entries)
  BY LengthOf DEF IInv, Sender, Receiver, FinishEntry
<1>2. CASE CanFinish
  <2>1. disk' = Finished(Finishing) /\ next' = next + 1
        /\ UNCHANGED <<reading, seen, made, pc, outcome, cut>> /\ pc = "finish"
    BY <1>2 DEF FinishEntry, Goes
  <2>2. /\ OnDisk(disk')
        /\ \A i \in 1 .. Len(entries) - next : Laid(disk', entries[i])
        /\ \A i \in Len(entries) + 1 - next .. Len(entries) : Final(disk', entries[i])
    BY <1>1, <1>2, <2>1, FinishedKeeps DEF Finishing, Order
  <2> QED
    BY <1>1, <2>1, <2>2, ValidStays DEF IInv, Receiver, Layout, reading
<1>3. CASE ~CanFinish
  <2>1. Refused /\ UNCHANGED <<reading, seen, made>> /\ pc = "finish"
    BY <1>3 DEF FinishEntry
  <2> QED
    BY <2>1, CutKeeps DEF Refused, Ends, IInv, Receiver, Layout
<1> QED
  BY <1>2, <1>3

LEMMA MaterializedKeeps == ASSUME IInv, Materialized PROVE Receiver' /\ Layout'
<1>1. Len(entries) \in Nat /\ DOMAIN entries = 1 .. Len(entries) /\ next = Len(entries) + 1
  BY LengthOf DEF IInv, Sender, Receiver, Materialized
<1>2. \A i \in DOMAIN entries : Final(disk, entries[i])
  BY <1>1 DEF IInv, Layout, Materialized
<1> QED
  BY <1>2, ValidStays DEF Materialized, Ends, IInv, Receiver, Layout, reading

LEMMA StopsOnDisk == ASSUME IInv, Stops PROVE OnDisk(disk')
<1>1. CASE disk' = disk
  BY <1>1 DEF IInv, Layout
<1>2. CASE pc = "write" /\ next <= Len(entries) /\ CanWrite /\ disk' = Written(Part)
  <2>1. next \in DOMAIN entries
    BY <1>2, LengthOf DEF IInv, Sender, Receiver
  <2> QED
    BY <1>2, <2>1, WrittenKeeps
<1> QED
  BY <1>1, <1>2 DEF Stops

LEMMA FaultKeeps == ASSUME IInv, DecodeFails \/ Restart PROVE Receiver' /\ Layout'
<1>1. OnDisk(disk') /\ UNCHANGED <<reading, made>> /\ pc' = "idle"
  BY StopsOnDisk DEF DecodeFails, Restart, Ends
<1>2. CASE pc # "idle"
  BY <1>1, <1>2, CutKeeps
     DEF DecodeFails, Restart, Stops, Ends, IInv, Receiver
<1>3. CASE pc = "idle"
  BY <1>1, <1>3, ValidStays DEF DecodeFails, Restart, Stops, Ends, IInv, Receiver, Layout, reading
<1> QED
  BY <1>2, <1>3

-----------------------------------------------------------------------------

LEMMA NextKeeps == ASSUME IInv, [Next]_vars PROVE IInv'
<1>1. CASE UNCHANGED vars
  BY <1>1, ValidStays DEF vars, source, reading, decoding, IInv, Sender, Receiver, Layout, Tidy
<1>2. CASE Capture \/ Edit
  BY <1>2, SenderSteps
<1>3. CASE Decode \/ DecodeFails \/ Restart
  <2>1. UNCHANGED <<source, reading>>
    BY <1>3 DEF Decode, Receive, WriteEntry, AllWritten, FinishEntry, Materialized,
                DecodeFails, Restart
  <2>2. Sender'
    BY <2>1 DEF IInv, Sender, source, reading, Tidy
  <2>3. Receiver' /\ Layout'
    BY <1>3, ReceiveKeeps, WriteKeeps, AllWrittenKeeps, FinishKeeps, MaterializedKeeps,
       FaultKeeps DEF Decode
  <2> QED
    BY <2>2, <2>3 DEF IInv
<1> QED
  BY <1>1, <1>2, <1>3 DEF Next

LEMMA Invariance == Spec => []IInv
BY InitOk, NextKeeps, PTL DEF Spec

\* The types of the model, among them that a capture never takes more bytes than the
\* clipboard limit leaves it (collect_accessible_entries).
THEOREM Typed == Spec => []TypeOK
<1>1. IInv => TypeOK
  BY DEF IInv, Sender, Receiver, Layout, TypeOK, InOrder, OnDisk
<1> QED
  BY <1>1, Invariance, PTL

\* Whatever is copied and wherever receivers fail, what materialize hands on is every
\* entry of the bundle as it was, or a directory that an earlier attempt left (decode).
THEOREM Whole == Spec => []AcceptedIsWhole
<1>1. IInv => AcceptedIsWhole
  BY DEF IInv, Receiver, Layout, AcceptedIsWhole, Final
<1> QED
  BY <1>1, Invariance, PTL
-----------------------------------------------------------------------------
(* Paths.                                                                  *)

Paths == Seq(Label) \ {<<>>}

LEMMA Least == ASSUME NEW T \in SUBSET Nat, T # {} PROVE \E x \in T : \A y \in T : x <= y
<1> DEFINE R == {s \in Nat \X Nat : s[1] < s[2]}
<1>1. IsWellFoundedOn(R, Nat)
  BY NatLessThanWellFounded DEF OpToRel
<1> HIDE DEF R
<1>2. PICK x \in T : \A y \in T : ~(<<y, x>> \in R)
  BY <1>1, WFMin, Zenon
<1>3. \A y \in T : ~(y < x)
  BY <1>2 DEF R
<1>4. QED
  BY <1>3

LEMMA PrefixMeans ==
    ASSUME NEW p \in Seq(Label), NEW q \in Seq(Label)
    PROVE  IsPrefix(p, q) <=> Len(p) <= Len(q) /\ \A i \in 1 .. Len(p) : p[i] = q[i]
<1>1. SubSeq(p, 1, Len(p)) = p /\ Len(p) \in Nat /\ Len(q) \in Nat
  BY SubSeqFull
<1>2. CASE Len(p) <= Len(q)
  <2> DEFINE b == SubSeq(q, 1, Len(p))
  <2>1. b \in Seq(Label) /\ Len(b) = Len(p) /\ \A i \in 1 .. Len(p) : b[i] = q[i]
    <3>1. \A i \in 1 .. Len(p) : q[i] \in Label
      BY <1>1, <1>2, ElementOfSeq
    <3>2. QED
      BY <1>1, <1>2, <3>1, SubSeqProperties
  <2> HIDE DEF b
  <2>2. p = b <=> \A i \in 1 .. Len(p) : p[i] = b[i]
    BY <2>1, SeqEqual
  <2>3. IsPrefix(p, q) <=> p = b
    BY <1>1, <1>2 DEF IsPrefix, b
  <2>4. QED
    BY <1>2, <2>1, <2>2, <2>3
<1>3. CASE ~(Len(p) <= Len(q))
  BY <1>3 DEF IsPrefix
<1>4. QED
  BY <1>2, <1>3

LEMMA AboveMeans ==
    ASSUME NEW p \in Paths, NEW q \in Paths
    PROVE  p \in Above(q) <=> IsPrefix(p, q) /\ p # q
<1>1. Len(p) \in Nat \ {0} /\ Len(q) \in Nat /\ p \in Seq(Label) /\ q \in Seq(Label)
  BY EmptySeq DEF Paths
<1>2. SubSeq(p, 1, Len(p)) = p /\ SubSeq(q, 1, Len(q)) = q
  BY <1>1, SubSeqFull
<1>3. ASSUME NEW n \in 1 .. Len(q) - 1, p = SubSeq(q, 1, n) PROVE IsPrefix(p, q) /\ p # q
  <2>1. \A i \in 1 .. n : q[i] \in Label
    BY <1>1, ElementOfSeq
  <2>2. Len(SubSeq(q, 1, n)) = n
    BY <1>1, <2>1, SubSeqProperties
  <2>3. Len(p) = n /\ Len(p) < Len(q)
    BY <1>1, <1>3, <2>2
  <2>4. IsPrefix(p, q)
    BY <1>1, <1>2, <1>3, <2>3 DEF IsPrefix
  <2>5. QED
    BY <2>3, <2>4
<1>4. ASSUME IsPrefix(p, q), p # q PROVE p \in Above(q)
  <2>1. Len(p) <= Len(q) /\ p = SubSeq(q, 1, Len(p))
    BY <1>2, <1>4 DEF IsPrefix
  <2>2. Len(p) # Len(q)
    BY <1>2, <1>4, <2>1
  <2>3. Len(p) \in 1 .. Len(q) - 1
    BY <1>1, <2>1, <2>2
  <2>4. QED
    BY <2>1, <2>3 DEF Above
<1>5. QED
  BY <1>3, <1>4 DEF Above

LEMMA Child ==
    ASSUME NEW p \in Paths, NEW n \in Label
    PROVE  /\ Append(p, n) \in Paths /\ Append(p, n)[1] = p[1]
           /\ IsPrefix(p, Append(p, n)) /\ ~IsPrefix(Append(p, n), p)
           /\ \A q \in Paths : IsPrefix(Append(p, n), q) => IsPrefix(p, q)
           /\ \A q \in Paths : IsPrefix(q, Append(p, n)) => q = Append(p, n) \/ IsPrefix(q, p)
           /\ \A m \in Label : IsPrefix(Append(p, n), Append(p, m)) => n = m
<1> DEFINE c == Append(p, n)
<1>1. p \in Seq(Label) /\ Len(p) \in Nat \ {0}
  BY EmptySeq DEF Paths
<1>2. /\ c \in Seq(Label) /\ Len(c) = Len(p) + 1 /\ c[Len(p) + 1] = n
      /\ \A i \in 1 .. Len(p) : c[i] = p[i]
  BY <1>1, AppendProperties
<1>3. \A m \in Label : /\ Append(p, m) \in Seq(Label) /\ Len(Append(p, m)) = Len(p) + 1
                       /\ Append(p, m)[Len(p) + 1] = m
  BY <1>1, AppendProperties
<1> HIDE DEF c
<1>4. c \in Paths /\ c[1] = p[1]
  BY <1>1, <1>2, EmptySeq DEF Paths
<1>5. IsPrefix(p, c) /\ ~IsPrefix(c, p)
  BY <1>1, <1>2, PrefixMeans
<1>6. ASSUME NEW q \in Paths, IsPrefix(c, q) PROVE IsPrefix(p, q)
  <2>1. q \in Seq(Label) /\ Len(q) \in Nat
    BY DEF Paths
  <2>2. Len(c) <= Len(q) /\ \A i \in 1 .. Len(c) : c[i] = q[i]
    BY <1>2, <1>6, <2>1, PrefixMeans
  <2>3. Len(p) <= Len(q) /\ \A i \in 1 .. Len(p) : p[i] = q[i]
    BY <1>1, <1>2, <2>1, <2>2
  <2>4. QED
    BY <1>1, <2>1, <2>3, PrefixMeans
<1>7. ASSUME NEW q \in Paths, IsPrefix(q, c), q # c PROVE IsPrefix(q, p)
  <2>1. q \in Seq(Label) /\ Len(q) \in Nat
    BY DEF Paths
  <2>2. Len(q) <= Len(c) /\ \A i \in 1 .. Len(q) : q[i] = c[i]
    BY <1>2, <1>7, <2>1, PrefixMeans
  <2>3. Len(q) # Len(c)
    BY <1>2, <1>7, <2>1, <2>2, SeqEqual
  <2>4. Len(q) <= Len(p) /\ \A i \in 1 .. Len(q) : q[i] = p[i]
    BY <1>1, <1>2, <2>1, <2>2, <2>3
  <2>5. QED
    BY <1>1, <2>1, <2>4, PrefixMeans
<1>8. ASSUME NEW m \in Label, IsPrefix(c, Append(p, m)) PROVE n = m
  <2> DEFINE d == Append(p, m)
  <2>1. d \in Seq(Label) /\ d[Len(p) + 1] = m
    BY <1>3
  <2> HIDE DEF d
  <2>2. \A i \in 1 .. Len(c) : c[i] = d[i]
    BY <1>2, <1>8, <2>1, PrefixMeans DEF d
  <2>3. Len(p) + 1 \in 1 .. Len(c)
    BY <1>1, <1>2
  <2>4. QED
    BY <1>2, <2>1, <2>2, <2>3
<1>9. QED
  BY <1>4, <1>5, <1>6, <1>7, <1>8 DEF c

\* What is above a child is its parent, or above that.
LEMMA AboveChild ==
    ASSUME NEW p \in Paths, NEW n \in Label, NEW q \in Above(Append(p, n))
    PROVE  q \in Above(p) \/ q = p
<1> DEFINE c == Append(p, n)
<1>1. /\ p \in Seq(Label) /\ Len(p) \in Nat /\ c \in Seq(Label) /\ Len(c) = Len(p) + 1
      /\ \A i \in 1 .. Len(p) : c[i] = p[i]
  BY AppendProperties DEF Paths
<1>2. PICK m \in 1 .. Len(p) : q = SubSeq(c, 1, m)
  BY <1>1 DEF Above
<1> HIDE DEF c
<1>3. SubSeq(c, 1, m) = SubSeq(p, 1, m)
  <2>1. \A i \in 1 .. m : c[i] \in Label /\ p[i] \in Label /\ c[i] = p[i]
    BY <1>1, ElementOfSeq
  <2>2. /\ SubSeq(c, 1, m) \in Seq(Label) /\ Len(SubSeq(c, 1, m)) = m
        /\ \A i \in 1 .. m : SubSeq(c, 1, m)[i] = c[i]
    BY <1>1, <2>1, SubSeqProperties
  <2>3. /\ SubSeq(p, 1, m) \in Seq(Label) /\ Len(SubSeq(p, 1, m)) = m
        /\ \A i \in 1 .. m : SubSeq(p, 1, m)[i] = p[i]
    BY <1>1, <2>1, SubSeqProperties
  <2> QED
    BY <2>1, <2>2, <2>3, SeqEqual
<1>4. CASE m = Len(p)
  BY <1>1, <1>2, <1>3, <1>4, SubSeqFull
<1>5. CASE m # Len(p)
  BY <1>1, <1>2, <1>3, <1>5 DEF Above
<1>6. QED
  BY <1>4, <1>5

\* Text has as many names, each converted by itself.
LEMMA TextMeans ==
    ASSUME NEW p \in Seq(Label)
    PROVE  /\ Text(p) \in Seq(Label) /\ Len(Text(p)) = Len(p)
           /\ \A i \in 1 .. Len(p) : Text(p)[i] = Lossy[p[i]]
<1>1. Len(p) \in Nat /\ DOMAIN p = 1 .. Len(p) /\ \A i \in 1 .. Len(p) : p[i] \in Label
  BY ElementOfSeq
<1>2. \A n \in Label : Lossy[n] \in Label
  BY NamesAssumption DEF Utf8
<1>3. Text(p) = [i \in 1 .. Len(p) |-> Lossy[p[i]]]
  BY <1>1 DEF Text
<1>4. Text(p) \in [1 .. Len(p) -> Label]
  BY <1>1, <1>2, <1>3
<1>5. QED
  BY <1>1, <1>3, <1>4

\* Above the text of a path are the texts of what is above it.
LEMMA TextAbove ==
    ASSUME NEW p \in Paths
    PROVE  /\ Text(p) \in Paths
           /\ \A q \in Above(Text(p)) : \E s \in Above(p) : q = Text(s)
<1> DEFINE t == Text(p)
<1>1. /\ p \in Seq(Label) /\ Len(p) \in Nat \ {0} /\ t \in Seq(Label) /\ Len(t) = Len(p)
      /\ \A i \in 1 .. Len(p) : t[i] = Lossy[p[i]]
  <2>1. p \in Seq(Label) /\ Len(p) \in Nat \ {0}
    BY EmptySeq DEF Paths
  <2> QED
    BY <2>1, TextMeans
<1> HIDE DEF t
<1>2. t \in Paths
  <2>1. t # <<>>
    BY <1>1, EmptySeq
  <2> QED
    BY <1>1, <2>1 DEF Paths
<1>3. ASSUME NEW m \in 1 .. Len(p) - 1 PROVE SubSeq(t, 1, m) = Text(SubSeq(p, 1, m))
  <2> DEFINE s == SubSeq(p, 1, m)
  <2>1. \A i \in 1 .. m : i \in 1 .. Len(p) /\ t[i] \in Label /\ p[i] \in Label
    BY <1>1, ElementOfSeq
  <2>2. m \in Nat
    OBVIOUS
  <2>3. /\ SubSeq(t, 1, m) \in Seq(Label) /\ Len(SubSeq(t, 1, m)) = m
        /\ \A i \in 1 .. m : SubSeq(t, 1, m)[i] = t[i]
    BY <1>1, <2>1, SubSeqProperties
  <2>4. s \in Seq(Label) /\ Len(s) = m /\ \A i \in 1 .. m : s[i] = p[i]
    BY <1>1, <2>1, SubSeqProperties
  <2> HIDE DEF s
  <2>5. /\ Text(s) \in Seq(Label) /\ Len(Text(s)) = m
        /\ \A i \in 1 .. m : Text(s)[i] = Lossy[s[i]]
    BY <2>4, TextMeans
  <2>6. \A i \in 1 .. m : SubSeq(t, 1, m)[i] = Text(s)[i]
    BY <1>1, <2>1, <2>3, <2>4, <2>5
  <2>7. SubSeq(t, 1, m) = Text(s)
    BY <2>3, <2>5, <2>6, SeqEqual
  <2> QED
    BY <2>7 DEF s
<1>4. ASSUME NEW q \in Above(t) PROVE \E s \in Above(p) : q = Text(s)
  <2>1. PICK m \in 1 .. Len(p) - 1 : q = SubSeq(t, 1, m)
    BY <1>1 DEF Above
  <2>2. SubSeq(p, 1, m) \in Above(p)
    BY DEF Above
  <2> QED
    BY <1>3, <2>1, <2>2
<1>5. QED
  BY <1>2, <1>4 DEF t

\* A name that is text stays what it is.
LEMMA TextOfRoot == ASSUME NEW r \in Utf8 PROVE Text(<<r>>) = <<r>>
<1>1. r \in Label /\ Lossy[r] = r
  BY DEF Utf8
<1> DEFINE one == <<r>>
<1>2. one \in Seq(Label) /\ Len(one) = 1 /\ one[1] = r
  BY <1>1
<1> HIDE DEF one
<1>3. Text(one) \in Seq(Label) /\ Len(Text(one)) = 1 /\ Text(one)[1] = r
  BY <1>1, <1>2, TextMeans
<1>4. Text(one) = one
  BY <1>2, <1>3, SeqEqual
<1>5. QED
  BY <1>4 DEF one

-----------------------------------------------------------------------------
(* Names.                                                                  *)

Sorts(S, n, f) ==
    f = [i \in 0 .. n |-> IF i = 0 THEN <<>>
                          ELSE IF Names[i] \in S THEN Append(f[i - 1], Names[i])
                          ELSE f[i - 1]]

LEMMA SortsExist == ASSUME NEW S PROVE \A n \in Nat : \E f : Sorts(S, n, f)
<1> DEFINE T == {n \in Nat : ~\E f : Sorts(S, n, f)}
           Step(i, x) == IF Names[i] \in S THEN Append(x, Names[i]) ELSE x
<1>1. SUFFICES ASSUME T # {} PROVE FALSE
  OBVIOUS
<1>2. PICK n \in T : \A m \in T : n <= m
  BY <1>1, Least
<1>3. n # 0
  <2> DEFINE f == [i \in 0 .. 0 |-> <<>>]
  <2>1. f = [i \in 0 .. 0 |-> IF i = 0 THEN <<>>
                              ELSE IF Names[i] \in S THEN Append(f[i - 1], Names[i])
                              ELSE f[i - 1]]
    OBVIOUS
  <2>2. QED
    BY <1>2, <2>1 DEF Sorts
<1>4. n \in Nat /\ n - 1 \in Nat /\ n - 1 \notin T
  BY <1>2, <1>3
<1>5. PICK f : Sorts(S, n - 1, f)
  BY <1>4
<1> DEFINE h == [i \in 0 .. n |-> IF i = n THEN Step(n, f[n - 1]) ELSE f[i]]
<1>6. \A i \in 0 .. n : h[i] = IF i = 0 THEN <<>> ELSE Step(i, h[i - 1])
  <2> SUFFICES ASSUME NEW i \in 0 .. n PROVE h[i] = IF i = 0 THEN <<>> ELSE Step(i, h[i - 1])
    OBVIOUS
  <2>1. CASE i = n
    <3>1. n - 1 \in 0 .. n /\ n - 1 # n
      BY <1>4
    <3>2. h[n - 1] = f[n - 1]
      BY <3>1
    <3>3. QED
      BY <1>3, <2>1, <3>2
  <2>2. CASE i # n
    <3>1. i \in 0 .. n - 1 /\ (i # 0 => i - 1 \in 0 .. n /\ i - 1 # n)
      BY <1>4, <2>2
    <3>2. h[i] = f[i] /\ (i # 0 => h[i - 1] = f[i - 1])
      BY <2>2, <3>1
    <3>3. f[i] = IF i = 0 THEN <<>> ELSE Step(i, f[i - 1])
      BY <1>5, <3>1 DEF Sorts
    <3>4. QED
      BY <3>2, <3>3
  <2>3. QED
    BY <2>1, <2>2
<1>7. Sorts(S, n, h)
  <2>1. h = [i \in 0 .. n |-> h[i]]
    OBVIOUS
  <2> HIDE DEF h
  <2>2. QED
    BY <1>6, <2>1 DEF Sorts
<1>8. QED
  BY <1>2, <1>7

\* What read_dir finds is listed once and completely.
LEMMA SortedNames ==
    ASSUME NEW S \in SUBSET Name
    PROVE  /\ Sorted(S) \in Seq(S) /\ {Sorted(S)[k] : k \in 1 .. Len(Sorted(S))} = S
           /\ \A j, k \in 1 .. Len(Sorted(S)) : Sorted(S)[j] = Sorted(S)[k] => j = k
<1> DEFINE N == Len(Names)
           f == CHOOSE f : Sorts(S, N, f)
           Before(i) == {Names[k] : k \in 1 .. i}
           Listed(i) ==
               /\ f[i] \in Seq(S) /\ {f[i][k] : k \in 1 .. Len(f[i])} = S \cap Before(i)
               /\ \A j, k \in 1 .. Len(f[i]) : f[i][j] = f[i][k] => j = k
           T == {i \in 0 .. N : ~Listed(i)}
<1>1. /\ N \in Nat /\ DOMAIN Names = 1 .. N /\ Name = Before(N)
      /\ \A j, k \in 1 .. N : Names[j] = Names[k] => j = k
  BY NamesAssumption DEF Name, ToSet
<1>2. Sorts(S, N, f)
  BY <1>1, SortsExist
<1>3. Sorted(S) = f[N]
  BY DEF Sorted, Sorts
<1> HIDE DEF f, N
<1>4. SUFFICES ASSUME T # {} PROVE FALSE
  <2>1. N \in 0 .. N
    BY <1>1
  <2>2. Listed(N)
    <3> HIDE DEF Listed
    <3>1. QED
      BY <1>4, <2>1
  <2>3. S \cap Before(N) = S
    BY <1>1
  <2>4. QED
    BY <1>3, <2>2, <2>3
<1>5. PICK i \in T : \A j \in T : i <= j
  <2>1. T \in SUBSET Nat
    BY <1>1
  <2> HIDE DEF T
  <2>2. QED
    BY <1>4, <2>1, Least
<1>6. /\ i \in 0 .. N
      /\ f[i] = IF i = 0 THEN <<>> ELSE IF Names[i] \in S THEN Append(f[i - 1], Names[i])
                ELSE f[i - 1]
  BY <1>2, <1>5 DEF Sorts
<1>7. i # 0
  <2>1. CASE i = 0
    <3>1. f[i] = <<>> /\ 1 .. i = {} /\ Len(<<>>) = 0 /\ <<>> \in Seq(S)
      BY <1>6, <2>1
    <3>2. Listed(i)
      BY <3>1
    <3>3. QED
      BY <1>5, <3>2
  <2>2. QED
    BY <2>1
<1>8. i - 1 \in 0 .. N /\ i \in 1 .. N /\ i \in Nat
  BY <1>1, <1>6, <1>7
<1> DEFINE g == f[i - 1]  name == Names[i]
<1>9. Listed(i - 1)
  <2> HIDE DEF Listed
  <2>1. i - 1 \notin T
    <3> HIDE DEF T
    <3>1. QED
      BY <1>5, <1>8
  <2>2. QED
    BY <1>8, <2>1
<1>10. Before(i) = Before(i - 1) \cup {name} /\ name \notin Before(i - 1)
  <2>1. 1 .. i = (1 .. i - 1) \cup {i} /\ i \notin 1 .. i - 1
    BY <1>8
  <2>2. \A k \in 1 .. i - 1 : k \in 1 .. N /\ k # i
    BY <1>1, <1>8
  <2>3. name \notin Before(i - 1)
    BY <1>1, <1>8, <2>2
  <2>4. QED
    BY <2>1, <2>3
<1> HIDE DEF Before
<1>11. CASE name \notin S
  <2>1. f[i] = g /\ S \cap Before(i) = S \cap Before(i - 1)
    BY <1>6, <1>7, <1>10, <1>11
  <2>2. Listed(i)
    BY <1>9, <2>1
  <2>3. QED
    BY <1>5, <2>2
<1>12. CASE name \in S
  <2>1. f[i] = Append(g, name) /\ S \cap Before(i) = (S \cap Before(i - 1)) \cup {name}
    BY <1>6, <1>7, <1>10, <1>12
  <2>2. /\ g \in Seq(S) /\ Len(g) \in Nat /\ {g[k] : k \in 1 .. Len(g)} = S \cap Before(i - 1)
        /\ \A j, k \in 1 .. Len(g) : g[j] = g[k] => j = k
    BY <1>9
  <2> HIDE DEF g, name
  <2>3. /\ f[i] \in Seq(S) /\ Len(f[i]) = Len(g) + 1 /\ f[i][Len(g) + 1] = name
        /\ \A k \in 1 .. Len(g) : f[i][k] = g[k]
    BY <1>12, <2>1, <2>2, AppendProperties
  <2>4. 1 .. Len(f[i]) = (1 .. Len(g)) \cup {Len(g) + 1}
    BY <2>2, <2>3
  <2>5. {f[i][k] : k \in 1 .. Len(f[i])} = S \cap Before(i)
    BY <2>1, <2>2, <2>3, <2>4
  <2>6. \A k \in 1 .. Len(g) : g[k] # name
    BY <1>10, <2>2
  <2>7. \A j, k \in 1 .. Len(f[i]) : f[i][j] = f[i][k] => j = k
    BY <2>2, <2>3, <2>4, <2>6
  <2>8. Listed(i)
    BY <2>3, <2>5, <2>7
  <2>9. QED
    BY <1>5, <2>8
<1>13. QED
  BY <1>11, <1>12

\* A root has a name of its own.
LEMMA UniqueRoot ==
    ASSUME NEW s \in Sources, NEW rs \in Seq(Utf8), Len(rs) < Len(s.selection),
           NEW base \in Name \cap Utf8
    PROVE  UniqueName(base, ToSet(rs)) \in Utf8 \ ToSet(rs)
<1> DEFINE used == ToSet(rs)
           free == {i \in DOMAIN Numbered[base] : Numbered[base][i] \notin used}
<1>1. Len(rs) \in Nat /\ rs \in [1 .. Len(rs) -> used] /\ used \in SUBSET Utf8
  BY DEF ToSet
<1>2. rs \in Surjection(1 .. Len(rs), used)
  BY <1>1 DEF Surjection, ToSet
<1>3. IsFiniteSet(1 .. Len(rs)) /\ Cardinality(1 .. Len(rs)) = Len(rs)
  <2> DEFINE n == Len(rs)
  <2>1. n \in Nat
    BY <1>1
  <2> HIDE DEF n
  <2>2. Cardinality(1 .. n) = n
    BY <2>1, FS_Interval
  <2>3. IsFiniteSet(1 .. n)
    BY <2>1, FS_Interval
  <2>4. QED
    BY <2>2, <2>3 DEF n
<1> HIDE DEF used
<1>4. Cardinality(used) <= Len(rs) /\ Cardinality(used) \in Nat
  BY <1>2, <1>3, FS_Surjection, FS_CardinalityType
<1>5. base \in Utf8
  OBVIOUS
<1>6. CASE base \in used
  <2>1. Cardinality(used) < Len(s.selection)
    BY <1>1, <1>4
  <2>2. free # {}
    BY <1>1, <1>6, <2>1, NamesAssumption
  <2>3. free \in SUBSET Nat
    BY NamesAssumption
  <2>4. \E i \in free : \A j \in free : i <= j
    <3> HIDE DEF free
    <3>1. QED
      BY <2>2, <2>3, Least
  <2>5. PICK i \in free : UniqueName(base, used) = Numbered[base][i]
    BY <1>6, <2>4 DEF UniqueName
  <2>6. Numbered[base][i] \in Utf8
    BY <2>5, NamesAssumption DEF ToSet
  <2>7. QED
    BY <2>5, <2>6 DEF used
<1>7. CASE base \notin used
  BY <1>5, <1>7 DEF UniqueName, used
<1>8. QED
  BY <1>6, <1>7

-----------------------------------------------------------------------------
(* The walk through the selection.                                         *)

Rooted(p, rs) == p \in Paths /\ p[1] \in ToSet(rs)

HasEntry(es, q) == \E j \in DOMAIN es : es[j].relative = q

\* Entries es with items st still to visit below roots rs: nothing is visited twice,
\* whatever has something below it is a directory, and has been visited before.
Walked(es, st, rs) ==
    /\ \A i \in DOMAIN es : Rooted(es[i].relative, rs)
    /\ \A k \in DOMAIN st : Rooted(st[k].relative, rs)
    /\ \A i, j \in DOMAIN es :
          /\ es[i].relative = es[j].relative => i = j
          /\ es[i].relative \in Above(es[j].relative) => es[i].kind = "dir"
    /\ \A i \in DOMAIN es, k \in DOMAIN st :
          /\ ~IsPrefix(st[k].relative, es[i].relative)
          /\ es[i].relative \in Above(st[k].relative) => es[i].kind = "dir"
    /\ \A k, l \in DOMAIN st : k # l => ~IsPrefix(st[k].relative, st[l].relative)
    /\ \A i \in DOMAIN es : \A q \in Above(es[i].relative) : HasEntry(es, q)
    /\ \A k \in DOMAIN st : \A q \in Above(st[k].relative) : HasEntry(es, q)
    /\ \A r \in ToSet(rs) : \/ \E i \in DOMAIN es : es[i].relative = <<r>>
                            \/ \E k \in DOMAIN st : st[k].relative = <<r>>

\* The first item st[1] is what e is about, and its children ch, of distinct names, have
\* taken its place in new.
Visits(es, st, e, names, ch, new) ==
    /\ IsSequence(es) /\ IsSequence(st) /\ IsSequence(ch) /\ IsSequence(new)
    /\ st # <<>> /\ e.relative = st[1].relative
    /\ DOMAIN ch # {} => e.kind = "dir"
    /\ \A k \in DOMAIN ch : names[k] \in Label /\ ch[k].relative = Append(e.relative, names[k])
    /\ \A k, l \in DOMAIN ch : names[k] = names[l] => k = l
    /\ Len(new) = Len(ch) + Len(st) - 1
    /\ \A k \in 1 .. Len(ch) : new[k] = ch[k]
    /\ \A k \in Len(ch) + 1 .. Len(new) : new[k] = st[k - Len(ch) + 1]

\* The first item becomes an entry, and its children come before the other items.
LEMMA VisitFirst ==
    ASSUME NEW es, NEW st, NEW rs, Walked(es, st, rs), NEW e, NEW names, NEW ch, NEW new,
           Visits(es, st, e, names, ch, new)
    PROVE  Walked(Append(es, e), new, rs)
<1>0. /\ IsSequence(es) /\ IsSequence(st) /\ IsSequence(ch) /\ IsSequence(new)
      /\ st # <<>> /\ e.relative = st[1].relative
      /\ DOMAIN ch # {} => e.kind = "dir"
      /\ \A k \in DOMAIN ch : names[k] \in Label /\ ch[k].relative = Append(e.relative, names[k])
      /\ \A k, l \in DOMAIN ch : names[k] = names[l] => k = l
      /\ Len(new) = Len(ch) + Len(st) - 1
      /\ \A k \in 1 .. Len(ch) : new[k] = ch[k]
      /\ \A k \in Len(ch) + 1 .. Len(new) : new[k] = st[k - Len(ch) + 1]
  BY DEF Visits
<1> DEFINE as == Append(es, e)
           p == e.relative
           c == Len(ch)
           n == Len(es) + 1
<1>1. /\ Len(es) \in Nat /\ Len(st) \in Nat \ {0} /\ c \in Nat /\ Len(new) \in Nat
      /\ DOMAIN es = 1 .. Len(es) /\ DOMAIN st = 1 .. Len(st)
      /\ DOMAIN ch = 1 .. c /\ DOMAIN new = 1 .. Len(new)
  <2>1. Len(st) # 0
    BY <1>0, EmptySeq DEF IsSequence
  <2>2. QED
    BY <2>1, LengthOf
<1>2. DOMAIN as = 1 .. n /\ as[n] = e /\ \A i \in 1 .. Len(es) : as[i] = es[i]
  BY AppendGrows
<1>3. 1 \in DOMAIN st /\ Rooted(p, rs) /\ p \in Paths
  <2>1. \A k \in DOMAIN st : Rooted(st[k].relative, rs)
    BY DEF Walked
  <2> QED
    BY <1>0, <1>1, <2>1 DEF Rooted
<1> HIDE DEF as
<1>4. \A k \in DOMAIN new : \/ k \in DOMAIN ch /\ new[k].relative = Append(p, names[k])
                            \/ /\ k \in c + 1 .. Len(new)
                               /\ k - c + 1 \in DOMAIN st /\ k - c + 1 # 1
                               /\ new[k].relative = st[k - c + 1].relative
  <2> SUFFICES ASSUME NEW k \in DOMAIN new
               PROVE  \/ k \in DOMAIN ch /\ new[k].relative = Append(p, names[k])
                      \/ /\ k \in c + 1 .. Len(new)
                         /\ k - c + 1 \in DOMAIN st /\ k - c + 1 # 1
                         /\ new[k].relative = st[k - c + 1].relative
    OBVIOUS
  <2>1. CASE k \in 1 .. c
    <3>1. k \in DOMAIN ch /\ new[k] = ch[k]
      BY <1>0, <1>1, <2>1
    <3>2. ch[k].relative = Append(p, names[k])
      BY <1>0, <3>1
    <3>3. QED
      BY <3>1, <3>2
  <2>2. CASE k \notin 1 .. c
    <3>1. /\ k \in c + 1 .. Len(new) /\ k - c + 1 \in 1 .. Len(st) /\ k - c + 1 # 1
          /\ new[k] = st[k - c + 1]
      BY <1>0, <1>1, <2>2
    <3>2. QED
      BY <1>1, <3>1
  <2>3. QED
    BY <2>1, <2>2
<1>5. \A k \in DOMAIN ch : Append(p, names[k]) \in Paths /\ Rooted(Append(p, names[k]), rs)
  BY <1>0, <1>3, Child DEF Rooted
<1>6. \A i \in DOMAIN as : i = n \/ (i \in DOMAIN es /\ as[i] = es[i])
  <2>1. 1 .. n = (1 .. Len(es)) \cup {n}
    BY <1>1
  <2> HIDE DEF n
  <2>2. QED
    BY <1>1, <1>2, <2>1
<1>7. \A i \in DOMAIN as : Rooted(as[i].relative, rs)
  BY <1>2, <1>3, <1>6 DEF Walked
<1>8. \A k \in DOMAIN new : Rooted(new[k].relative, rs)
  BY <1>4, <1>5 DEF Walked
<1>9. \A i \in DOMAIN es : /\ es[i].relative \in Paths /\ es[i].relative # p
                           /\ ~IsPrefix(p, es[i].relative)
                           /\ p \notin Above(es[i].relative)
                           /\ es[i].relative \in Above(p) => es[i].kind = "dir"
  <2> SUFFICES ASSUME NEW i \in DOMAIN es
               PROVE  /\ es[i].relative \in Paths /\ es[i].relative # p
                      /\ ~IsPrefix(p, es[i].relative)
                      /\ p \notin Above(es[i].relative)
                      /\ es[i].relative \in Above(p) => es[i].kind = "dir"
    OBVIOUS
  <2>1. /\ es[i].relative \in Paths /\ ~IsPrefix(p, es[i].relative)
        /\ es[i].relative \in Above(p) => es[i].kind = "dir"
    BY <1>0, <1>3 DEF Walked, Rooted
  <2>2. es[i].relative # p
    BY <1>3, <2>1, PrefixMeans DEF Paths
  <2>3. QED
    BY <1>3, <2>1, <2>2, AboveMeans
<1>10. \A i, j \in DOMAIN as : as[i].relative = as[j].relative => i = j
  <2> SUFFICES ASSUME NEW i \in DOMAIN as, NEW j \in DOMAIN as, as[i].relative = as[j].relative
               PROVE  i = j
    OBVIOUS
  <2>1. CASE i = n
    BY <1>2, <1>6, <1>9, <2>1
  <2>2. CASE j = n
    BY <1>2, <1>6, <1>9, <2>2
  <2>3. CASE i # n /\ j # n
    <3>1. i \in DOMAIN es /\ j \in DOMAIN es /\ es[i].relative = es[j].relative
      BY <1>6, <2>3
    <3>2. QED
      BY <3>1 DEF Walked
  <2>4. QED
    BY <2>1, <2>2, <2>3
<1>11. \A i, j \in DOMAIN as : as[i].relative \in Above(as[j].relative) => as[i].kind = "dir"
  <2>1. p \notin Above(p)
    BY <1>3, AboveMeans
  <2>2. QED
    BY <1>2, <1>6, <1>9, <2>1 DEF Walked
<1>12. \A l \in DOMAIN st : l # 1 => /\ st[l].relative \in Paths
                                     /\ ~IsPrefix(p, st[l].relative) /\ ~IsPrefix(st[l].relative, p)
  BY <1>0, <1>3 DEF Walked, Rooted
<1>13. \A i \in DOMAIN as, k \in DOMAIN new :
          /\ ~IsPrefix(new[k].relative, as[i].relative)
          /\ as[i].relative \in Above(new[k].relative) => as[i].kind = "dir"
  <2> SUFFICES ASSUME NEW i \in DOMAIN as, NEW k \in DOMAIN new
               PROVE  /\ ~IsPrefix(new[k].relative, as[i].relative)
                      /\ as[i].relative \in Above(new[k].relative) => as[i].kind = "dir"
    OBVIOUS
  <2>1. CASE k \in DOMAIN ch /\ new[k].relative = Append(p, names[k])
    <3> DEFINE q == Append(p, names[k])
    <3>0. p \in Paths /\ names[k] \in Label
      BY <1>0, <1>3, <2>1
    <3>1. /\ q \in Paths /\ ~IsPrefix(q, p)
          /\ \A r \in Paths : IsPrefix(q, r) => IsPrefix(p, r)
          /\ \A r \in Paths : IsPrefix(r, q) => r = q \/ IsPrefix(r, p)
      <4> HIDE DEF p
      <4>1. QED
        BY <3>0, Child
    <3> HIDE DEF q
    <3>2. CASE i = n
      BY <1>0, <1>2, <2>1, <3>1, <3>2 DEF q
    <3>3. CASE i \in DOMAIN es /\ as[i] = es[i]
      <4>1. ~IsPrefix(q, es[i].relative)
        BY <1>9, <3>1, <3>3
      <4>2. ASSUME es[i].relative \in Above(q) PROVE es[i].kind = "dir"
        <5>1. IsPrefix(es[i].relative, q) /\ es[i].relative # q
          BY <1>9, <3>1, <3>3, <4>2, AboveMeans
        <5>2. IsPrefix(es[i].relative, p)
          BY <1>9, <3>1, <3>3, <5>1
        <5>3. es[i].relative \in Above(p)
          BY <1>3, <1>9, <3>3, <5>2, AboveMeans
        <5>4. QED
          BY <1>9, <3>3, <5>3
      <4>3. QED
        BY <2>1, <3>3, <4>1, <4>2 DEF q
    <3>4. QED
      BY <1>6, <3>2, <3>3
  <2>2. CASE k - c + 1 \in DOMAIN st /\ k - c + 1 # 1 /\ new[k].relative = st[k - c + 1].relative
    <3> DEFINE l == k - c + 1
    <3>1. l \in DOMAIN st /\ l # 1 /\ new[k].relative = st[l].relative
      BY <2>2
    <3> HIDE DEF l
    <3>2. CASE i = n
      <4>1. p \notin Above(st[l].relative)
        BY <1>3, <1>12, <3>1, AboveMeans
      <4>2. QED
        BY <1>2, <1>12, <3>1, <3>2, <4>1
    <3>3. CASE i \in DOMAIN es /\ as[i] = es[i]
      BY <3>1, <3>3 DEF Walked
    <3>4. QED
      BY <1>6, <3>2, <3>3
  <2>3. QED
    BY <1>4, <2>1, <2>2
<1>14. \A k, l \in DOMAIN new : k # l => ~IsPrefix(new[k].relative, new[l].relative)
  <2> SUFFICES ASSUME NEW k \in DOMAIN new, NEW l \in DOMAIN new, k # l
               PROVE  ~IsPrefix(new[k].relative, new[l].relative)
    OBVIOUS
  <2> DEFINE IsChild(i) == i \in DOMAIN ch /\ new[i].relative = Append(p, names[i])
             IsOther(i) == /\ i \in c + 1 .. Len(new) /\ i - c + 1 \in DOMAIN st /\ i - c + 1 # 1
                           /\ new[i].relative = st[i - c + 1].relative
  <2>0. (IsChild(k) \/ IsOther(k)) /\ (IsChild(l) \/ IsOther(l))
    BY <1>4
  <2>1. CASE IsChild(k) /\ IsChild(l)
    BY <1>0, <1>3, <2>1, Child
  <2>2. CASE IsChild(k) /\ IsOther(l)
    <3>1. IsPrefix(new[k].relative, new[l].relative) => IsPrefix(p, new[l].relative)
      BY <1>0, <1>3, <1>12, <2>2, Child
    <3>2. QED
      BY <1>12, <2>2, <3>1
  <2>3. CASE IsOther(k) /\ IsChild(l)
    <3>0. p \in Paths /\ names[l] \in Label /\ new[k].relative \in Paths
      BY <1>0, <1>3, <1>12, <2>3
    <3>1. IsPrefix(new[k].relative, new[l].relative) =>
             new[k].relative = new[l].relative \/ IsPrefix(new[k].relative, p)
      <4>1. \A q \in Paths : IsPrefix(q, Append(p, names[l])) =>
               q = Append(p, names[l]) \/ IsPrefix(q, p)
        <5> HIDE DEF p
        <5>1. QED
          BY <3>0, Child
      <4>2. QED
        BY <2>3, <3>0, <4>1
    <3>2. IsPrefix(p, new[l].relative)
      BY <1>0, <1>3, <2>3, Child
    <3>3. QED
      BY <1>12, <2>3, <3>1, <3>2
  <2>4. CASE IsOther(k) /\ IsOther(l)
    <3>1. k - c + 1 # l - c + 1
      BY <1>1
    <3>2. QED
      BY <2>4, <3>1 DEF Walked
  <2>5. QED
    <3> HIDE DEF IsChild, IsOther
    <3>1. QED
      BY <2>0, <2>1, <2>2, <2>3, <2>4
<1>15. \A r \in ToSet(rs) : \/ \E i \in DOMAIN as : as[i].relative = <<r>>
                            \/ \E k \in DOMAIN new : new[k].relative = <<r>>
  <2> SUFFICES ASSUME NEW r \in ToSet(rs)
               PROVE  \/ \E i \in DOMAIN as : as[i].relative = <<r>>
                      \/ \E k \in DOMAIN new : new[k].relative = <<r>>
    OBVIOUS
  <2>1. CASE \E i \in DOMAIN es : es[i].relative = <<r>>
    <3>1. PICK i \in DOMAIN es : es[i].relative = <<r>>
      BY <2>1
    <3>2. i \in 1 .. Len(es) /\ i \in 1 .. n
      BY <1>1, <3>1
    <3>3. QED
      BY <1>2, <3>1, <3>2
  <2>2. CASE st[1].relative = <<r>>
    <3>1. n \in DOMAIN as
      BY <1>1, <1>2
    <3>2. QED
      BY <1>0, <1>2, <2>2, <3>1
  <2>3. CASE \E l \in DOMAIN st : l # 1 /\ st[l].relative = <<r>>
    <3>1. PICK l \in DOMAIN st : l # 1 /\ st[l].relative = <<r>>
      BY <2>3
    <3>2. l + c - 1 \in c + 1 .. Len(new) /\ (l + c - 1) - c + 1 = l
          /\ l + c - 1 \in DOMAIN new
      BY <1>0, <1>1, <3>1
    <3>3. new[l + c - 1] = st[l]
      BY <1>0, <3>2
    <3>4. QED
      BY <3>1, <3>2, <3>3
  <2>4. QED
    BY <2>1, <2>2, <2>3 DEF Walked
<1>16. \A q : HasEntry(es, q) => HasEntry(as, q)
  <2>1. ASSUME NEW j \in DOMAIN es PROVE j \in DOMAIN as /\ as[j] = es[j]
    <3>1. j \in 1 .. Len(es) /\ j \in 1 .. n
      BY <1>1
    <3> QED
      BY <1>2, <3>1
  <2> QED
    BY <2>1 DEF HasEntry
<1>17. \A q \in Above(p) : HasEntry(es, q)
  BY <1>0, <1>3 DEF Walked
<1>18. HasEntry(as, p)
  <2>1. n \in DOMAIN as /\ as[n].relative = p
    BY <1>1, <1>2
  <2> HIDE DEF p, n
  <2> QED
    BY <2>1 DEF HasEntry
<1>19. \A i \in DOMAIN as : \A q \in Above(as[i].relative) : HasEntry(as, q)
  <2>1. \A i \in DOMAIN es : \A q \in Above(es[i].relative) : HasEntry(es, q)
    BY DEF Walked
  <2> QED
    BY <1>2, <1>6, <1>16, <1>17, <2>1
<1>20. ASSUME NEW k \in DOMAIN new, NEW q \in Above(new[k].relative) PROVE HasEntry(as, q)
  <2>1. CASE k \in DOMAIN ch /\ new[k].relative = Append(p, names[k])
    <3>1. q \in Above(p) \/ q = p
      BY <1>0, <1>3, <1>20, <2>1, AboveChild
    <3> QED
      BY <1>16, <1>17, <1>18, <3>1
  <2>2. CASE k - c + 1 \in DOMAIN st /\ new[k].relative = st[k - c + 1].relative
    <3>1. HasEntry(es, q)
      BY <1>20, <2>2 DEF Walked
    <3> QED
      BY <1>16, <3>1
  <2> QED
    BY <1>4, <2>1, <2>2
<1>21. QED
  BY <1>7, <1>8, <1>10, <1>11, <1>13, <1>14, <1>15, <1>19, <1>20 DEF Walked, as

\* A root that is new begins a walk of its own.
LEMMA StartRoot ==
    ASSUME NEW es, NEW rs \in Seq(Label), Walked(es, <<>>, rs),
           NEW root \in Label \ ToSet(rs),
           NEW st, IsSequence(st), Len(st) = 1, st[1].relative = <<root>>
    PROVE  Append(rs, root) \in Seq(Label) /\ Walked(es, st, Append(rs, root))
<1> DEFINE all == Append(rs, root)
           p == <<root>>
<1>1. p \in Paths /\ Len(p) = 1 /\ p[1] = root
  BY DEF Paths
<1>2. all \in Seq(Label) /\ ToSet(all) = ToSet(rs) \cup {root}
  <2>1. /\ all \in Seq(Label) /\ Len(rs) \in Nat
        /\ DOMAIN rs = 1 .. Len(rs) /\ DOMAIN all = 1 .. Len(rs) + 1
        /\ all[Len(rs) + 1] = root /\ \A i \in 1 .. Len(rs) : all[i] = rs[i]
    BY AppendProperties
  <2>2. 1 .. Len(rs) + 1 = (1 .. Len(rs)) \cup {Len(rs) + 1}
    BY <2>1
  <2> HIDE DEF all
  <2>3. QED
    BY <2>1, <2>2 DEF ToSet
<1>3. DOMAIN st = {1} /\ st[1].relative = p
  <2>1. DOMAIN st = 1 .. 1
    BY LengthOf
  <2>2. QED
    BY <2>1
<1> HIDE DEF all, p
<1>4. \A i \in DOMAIN es : Rooted(es[i].relative, rs)
  BY DEF Walked
<1>5. \A i \in DOMAIN es : /\ es[i].relative \in Paths /\ es[i].relative[1] # root
                           /\ ~IsPrefix(p, es[i].relative)
                           /\ es[i].relative \notin Above(p)
  <2> SUFFICES ASSUME NEW i \in DOMAIN es
               PROVE  /\ es[i].relative \in Paths /\ es[i].relative[1] # root
                      /\ ~IsPrefix(p, es[i].relative)
                      /\ es[i].relative \notin Above(p)
    OBVIOUS
  <2> DEFINE q == es[i].relative
  <2>1. q \in Paths /\ q[1] # root /\ q \in Seq(Label) /\ Len(q) \in Nat \ {0}
    <3>1. q \in Paths /\ q[1] \in ToSet(rs)
      BY <1>4 DEF Rooted
    <3>2. q \in Seq(Label) /\ q # <<>>
      BY <3>1 DEF Paths
    <3>3. Len(q) \in Nat \ {0}
      BY <3>2, EmptySeq
    <3>4. QED
      BY <3>1, <3>2, <3>3
  <2> HIDE DEF q
  <2>2. ~IsPrefix(p, q) /\ ~IsPrefix(q, p)
    <3>1. 1 \in 1 .. Len(q) /\ 1 \in 1 .. Len(p) /\ p \in Seq(Label)
      BY <1>1, <2>1 DEF Paths
    <3>2. QED
      BY <1>1, <2>1, <3>1, PrefixMeans
  <2>3. q \notin Above(p)
    BY <1>1, <2>1, <2>2, AboveMeans
  <2>4. QED
    BY <2>1, <2>2, <2>3 DEF q
<1>6. Rooted(p, all) /\ \A i \in DOMAIN es : Rooted(es[i].relative, all)
  BY <1>1, <1>2, <1>4 DEF Rooted
<1>7. \A r \in ToSet(all) : \/ \E i \in DOMAIN es : es[i].relative = <<r>>
                            \/ \E k \in DOMAIN st : st[k].relative = <<r>>
  <2>1. DOMAIN <<>> = {}
    OBVIOUS
  <2>2. \A r \in ToSet(rs) : \E i \in DOMAIN es : es[i].relative = <<r>>
    BY <2>1 DEF Walked
  <2>3. QED
    BY <1>2, <1>3, <2>2 DEF p
<1>8. \A i, j \in DOMAIN es : /\ es[i].relative = es[j].relative => i = j
                              /\ es[i].relative \in Above(es[j].relative) => es[i].kind = "dir"
  BY DEF Walked
<1>9. /\ \A i \in DOMAIN es : \A q \in Above(es[i].relative) : HasEntry(es, q)
      /\ Above(p) = {}
  BY <1>1 DEF Walked, Above
<1>10. QED
  BY <1>2, <1>3, <1>5, <1>6, <1>7, <1>8, <1>9 DEF Walked, all

LEMMA Concat ==
    ASSUME NEW s, IsSequence(s), NEW u, IsSequence(u)
    PROVE  /\ IsSequence(s \o u) /\ Len(s \o u) = Len(s) + Len(u)
           /\ \A k \in 1 .. Len(s) : (s \o u)[k] = s[k]
           /\ \A k \in Len(s) + 1 .. Len(s \o u) : (s \o u)[k] = u[k - Len(s)]
<1>1. PICK A : s \in Seq(A)
  BY DEF IsSequence
<1>2. PICK B : u \in Seq(B)
  BY DEF IsSequence
<1>3. s \in Seq(A \cup B) /\ u \in Seq(A \cup B) /\ Len(s) \in Nat /\ Len(u) \in Nat
  BY <1>1, <1>2
<1>4. /\ s \o u \in Seq(A \cup B)
      /\ Len(s \o u) = Len(s) + Len(u)
      /\ \A i \in 1 .. Len(s) + Len(u) :
            (s \o u)[i] = IF i <= Len(s) THEN s[i] ELSE u[i - Len(s)]
  BY <1>3, ConcatProperties
<1> DEFINE c == s \o u
<1>5. IsSequence(c)
  BY <1>4 DEF IsSequence
<1> HIDE DEF c
<1>6. /\ \A k \in 1 .. Len(s) : c[k] = s[k]
      /\ \A k \in Len(s) + 1 .. Len(c) : c[k] = u[k - Len(s)]
  BY <1>3, <1>4 DEF c
<1>7. QED
  BY <1>4, <1>5, <1>6 DEF c

LEMMA Rest ==
    ASSUME NEW s, IsSequence(s), s # <<>>
    PROVE  /\ IsSequence(Tail(s)) /\ Len(Tail(s)) = Len(s) - 1 /\ Head(s) = s[1]
           /\ \A k \in 1 .. Len(Tail(s)) : Tail(s)[k] = s[k + 1]
<1>1. PICK A : s \in Seq(A)
  BY DEF IsSequence
<1>2. QED
  BY <1>1, HeadTailProperties DEF IsSequence

Walk ==
    /\ \E s \in Sources : selection = s.selection
    /\ roots \in Seq(Utf8)
    /\ IsSequence(stack)
    /\ stage = "sent" => stack = <<>>
    /\ Walked(entries, stack, roots)
    /\ \A i \in DOMAIN entries : /\ entries[i].size = SizeOf(entries[i])
                                /\ entries[i].path = Text(entries[i].relative)

LEMMA RootsAreLabels == ASSUME Walk PROVE roots \in Seq(Label)
<1>1. Utf8 \subseteq Label
  BY DEF Utf8
<1>2. QED
  BY <1>1, SeqMonotonic DEF Walk

LEMMA EmptyWalk == /\ <<>> \in Seq(Utf8) /\ IsSequence(<<>>) /\ DOMAIN <<>> = {}
                   /\ Walked(<<>>, <<>>, <<>>)
<1>1. <<>> \in Seq(Utf8) /\ DOMAIN <<>> = {}
  OBVIOUS
<1>2. ToSet(<<>>) = {}
  BY <1>1 DEF ToSet
<1>3. QED
  BY <1>1, <1>2 DEF IsSequence, Walked

LEMMA InitWalk == ASSUME Init PROVE Walk
BY EmptyWalk DEF Init, Walk

LEMMA NextSourceWalk == ASSUME Sender, Walk, NextSource PROVE Walk'
<1> DEFINE path == selection[Len(roots) + 1]
           root == UniqueName(Last(path), ToSet(roots))
           item == [source |-> path, relative |-> <<root>>]
<1>1. /\ stack = <<>> /\ Len(roots) < Len(selection) /\ stage = "reading"
      /\ roots' = Append(roots, root) /\ stack' = <<item>>
      /\ UNCHANGED <<stage, entries, selection>>
  BY DEF NextSource, source
<1>2. PICK s \in Sources : selection = s.selection
  BY DEF Walk
<1>3. roots \in Seq(Label) /\ roots \in Seq(Utf8)
      /\ selection \in Seq(Seq(Name \cap Utf8) \ {<<>>})
  BY <1>2, FileBundleAssumption, RootsAreLabels DEF Walk
<1>4. path \in Seq(Name \cap Utf8) \ {<<>>}
  <2>1. Len(roots) + 1 \in 1 .. Len(selection)
    BY <1>1, <1>3
  <2>2. QED
    BY <1>3, <2>1
<1>5. Last(path) \in Name \cap Utf8
  <2> HIDE DEF path
  <2>1. Len(path) \in 1 .. Len(path)
    BY <1>4, EmptySeq
  <2>2. QED
    BY <1>4, <2>1 DEF Last
<1>6. root \in Utf8 \ ToSet(roots) /\ root \in Label
  <2> DEFINE base == Last(path)
  <2>1. base \in Name \cap Utf8 /\ Len(roots) < Len(s.selection)
    BY <1>1, <1>2, <1>5
  <2> HIDE DEF base
  <2>2. UniqueName(base, ToSet(roots)) \in Utf8 \ ToSet(roots)
    BY <1>3, <2>1, UniqueRoot
  <2>3. QED
    BY <2>2 DEF base, Utf8
<1>7. IsSequence(stack') /\ Len(stack') = 1 /\ stack'[1].relative = <<root>>
  <2>1. <<item>> \in Seq({item})
    OBVIOUS
  <2>2. QED
    BY <1>1, <2>1 DEF IsSequence
<1>8. Walked(entries, <<>>, roots)
  BY <1>1 DEF Walk
<1> HIDE DEF root
<1>9. roots' \in Seq(Utf8) /\ Walked(entries, stack', roots')
  <2>1. roots' \in Seq(Utf8)
    BY <1>1, <1>3, <1>6
  <2>2. Walked(entries, stack', Append(roots, root))
    BY <1>3, <1>6, <1>7, <1>8, StartRoot
  <2> QED
    BY <1>1, <2>1, <2>2
<1>10. Walked(entries', stack', roots')
  BY <1>1, <1>9
<1>11. QED
  BY <1>1, <1>7, <1>9, <1>10 DEF Walk, SizeOf

\* What is put before the rest of the stack when item has been visited.
LEMMA ChildrenOf ==
    ASSUME NEW item
    PROVE  \E names : /\ IsSequence(Children(item)) /\ DOMAIN names = DOMAIN Children(item)
                      /\ \A k \in DOMAIN Children(item) :
                            /\ names[k] \in Label
                            /\ Children(item)[k].relative = Append(item.relative, names[k])
                      /\ \A k, l \in DOMAIN Children(item) : names[k] = names[l] => k = l
<1> DEFINE S == {n \in Name : Append(item.source, n) \in DOMAIN tree}
           there == Sorted(S)
           ch == [i \in DOMAIN there |-> [source   |-> Append(item.source, there[i]),
                                          relative |-> Append(item.relative, there[i])]]
<1>1. /\ there \in Seq(S) /\ S \in SUBSET Name
      /\ \A j, k \in 1 .. Len(there) : there[j] = there[k] => j = k
  <2>1. S \in SUBSET Name
    OBVIOUS
  <2> HIDE DEF S
  <2>2. QED
    BY <2>1, SortedNames
<1>2. ch = Children(item)
  BY DEF Children
<1> HIDE DEF there, S
<1>3. DOMAIN there = 1 .. Len(there) /\ Len(there) \in Nat /\ DOMAIN ch = DOMAIN there
  BY <1>1
<1>4. \A k \in DOMAIN there : there[k] \in Label
  BY <1>1, <1>3, NamesAssumption
<1>5. IsSequence(ch)
  <2> DEFINE A == {ch[k] : k \in DOMAIN there}
  <2>1. ch \in [1 .. Len(there) -> A]
    BY <1>3
  <2> HIDE DEF A, ch
  <2>2. ch \in Seq(A)
    BY <1>3, <2>1
  <2>3. QED
    BY <2>2 DEF IsSequence
<1>6. \A k \in DOMAIN ch : ch[k].relative = Append(item.relative, there[k])
  OBVIOUS
<1> HIDE DEF ch
<1>7. QED
  BY <1>1, <1>2, <1>3, <1>4, <1>5, <1>6

LEMMA CollectWalk == ASSUME Sender, Walk, Collect PROVE Walk'
<1> DEFINE item == Head(stack)
           e == [relative |-> item.relative, path |-> Text(item.relative),
                 kind |-> looked.kind, size |-> SizeOf(looked),
                 mode |-> looked.mode, body |-> tree[item.source].body]
<1>1. /\ stack # <<>> /\ stage = "reading" /\ Readable
      /\ entries' = Append(entries, e)
      /\ stack' = IF looked.kind = "dir" THEN Children(item) \o Tail(stack) ELSE Tail(stack)
      /\ UNCHANGED <<stage, roots, selection>>
  BY DEF Collect, source
<1>2. /\ IsSequence(stack) /\ IsSequence(entries) /\ Len(stack) \in Nat
      /\ IsSequence(Tail(stack)) /\ Len(Tail(stack)) = Len(stack) - 1
      /\ \A k \in 1 .. Len(Tail(stack)) : Tail(stack)[k] = stack[k + 1]
      /\ item = stack[1]
  BY <1>1, Rest, LengthOf DEF Walk, Sender
<1>3. \E ch, names :
         /\ IsSequence(ch) /\ (DOMAIN ch # {} => looked.kind = "dir")
         /\ \A k \in DOMAIN ch : /\ names[k] \in Label
                                 /\ ch[k].relative = Append(item.relative, names[k])
         /\ \A k, l \in DOMAIN ch : names[k] = names[l] => k = l
         /\ IsSequence(stack') /\ Len(stack') = Len(ch) + Len(Tail(stack))
         /\ \A k \in 1 .. Len(ch) : stack'[k] = ch[k]
         /\ \A k \in Len(ch) + 1 .. Len(stack') : stack'[k] = Tail(stack)[k - Len(ch)]
  <2>1. CASE looked.kind = "dir"
    <3> DEFINE ch == Children(item)  rest == Tail(stack)
    <3> HIDE DEF item
    <3>1. PICK names : /\ IsSequence(ch)
                       /\ \A k \in DOMAIN ch : /\ names[k] \in Label
                                               /\ ch[k].relative = Append(item.relative, names[k])
                       /\ \A k, l \in DOMAIN ch : names[k] = names[l] => k = l
      BY ChildrenOf
    <3>2. IsSequence(rest) /\ stack' = ch \o rest
      BY <1>1, <1>2, <2>1
    <3> HIDE DEF ch, rest
    <3>3. /\ IsSequence(stack') /\ Len(stack') = Len(ch) + Len(rest)
          /\ \A k \in 1 .. Len(ch) : stack'[k] = ch[k]
          /\ \A k \in Len(ch) + 1 .. Len(stack') : stack'[k] = rest[k - Len(ch)]
      BY <3>1, <3>2, Concat
    <3>4. QED
      BY <2>1, <3>1, <3>3 DEF rest
  <2>2. CASE looked.kind # "dir"
    <3> DEFINE rest == Tail(stack)  ch == <<>>
    <3>1. stack' = rest /\ IsSequence(rest) /\ Len(rest) \in Nat
      BY <1>1, <1>2, <2>2, LengthOf
    <3>2. IsSequence(ch) /\ DOMAIN ch = {} /\ Len(ch) = 0
      BY EmptyWalk
    <3> HIDE DEF ch, rest
    <3>3. /\ Len(stack') = Len(ch) + Len(rest)
          /\ \A k \in 1 .. Len(ch) : stack'[k] = ch[k]
          /\ \A k \in Len(ch) + 1 .. Len(stack') : stack'[k] = rest[k - Len(ch)]
      BY <3>1, <3>2
    <3>4. QED
      BY <3>1, <3>2, <3>3 DEF rest
  <2>3. QED
    BY <2>1, <2>2
<1>4. PICK ch, names :
         /\ IsSequence(ch) /\ (DOMAIN ch # {} => looked.kind = "dir")
         /\ \A k \in DOMAIN ch : /\ names[k] \in Label
                                 /\ ch[k].relative = Append(item.relative, names[k])
         /\ \A k, l \in DOMAIN ch : names[k] = names[l] => k = l
         /\ IsSequence(stack') /\ Len(stack') = Len(ch) + Len(Tail(stack))
         /\ \A k \in 1 .. Len(ch) : stack'[k] = ch[k]
         /\ \A k \in Len(ch) + 1 .. Len(stack') : stack'[k] = Tail(stack)[k - Len(ch)]
  BY <1>3
<1>5. e.relative = item.relative /\ e.kind = looked.kind
  OBVIOUS
<1>6. SizeOf(e) = e.size /\ e.path = Text(e.relative)
  BY <1>1 DEF Readable, SizeOf
<1> HIDE DEF e, item
<1>7. Len(stack') = Len(ch) + Len(stack) - 1
      /\ \A k \in Len(ch) + 1 .. Len(stack') : stack'[k] = stack[k - Len(ch) + 1]
  <2>1. Len(ch) \in Nat /\ Len(stack') \in Nat /\ Len(Tail(stack)) \in Nat
    BY <1>2, <1>4, LengthOf
  <2>2. ASSUME NEW k \in Len(ch) + 1 .. Len(stack')
        PROVE  stack'[k] = stack[k - Len(ch) + 1]
    <3>1. k - Len(ch) \in 1 .. Len(Tail(stack))
      BY <1>4, <2>1
    <3>2. QED
      BY <1>2, <1>4, <3>1
  <2>3. QED
    BY <1>2, <1>4, <2>1, <2>2
<1>8. Walked(entries, stack, roots)
  BY DEF Walk
<1>9. Walked(Append(entries, e), stack', roots)
  <2> DEFINE new == stack'
  <2>1. Visits(entries, stack, e, names, ch, new)
    BY <1>1, <1>2, <1>4, <1>5, <1>7 DEF Visits
  <2> HIDE DEF new
  <2>2. Walked(Append(entries, e), new, roots)
    BY <1>8, <2>1, VisitFirst
  <2>3. QED
    BY <2>2 DEF new
<1>10. \A i \in DOMAIN entries' : /\ entries'[i].size = SizeOf(entries'[i])
                                  /\ entries'[i].path = Text(entries'[i].relative)
  <2> DEFINE as == Append(entries, e)  n == Len(entries) + 1
  <2>1. /\ DOMAIN as = 1 .. n /\ as[n] = e /\ \A i \in 1 .. Len(entries) : as[i] = entries[i]
        /\ Len(entries) \in Nat /\ DOMAIN entries = 1 .. Len(entries)
    BY <1>2, AppendGrows, LengthOf
  <2>2. 1 .. n = (1 .. Len(entries)) \cup {n}
    BY <2>1
  <2>3. \A i \in 1 .. Len(entries) : /\ entries[i].size = SizeOf(entries[i])
                                     /\ entries[i].path = Text(entries[i].relative)
    BY <2>1 DEF Walk
  <2> HIDE DEF as, n
  <2>4. \A i \in DOMAIN as : as[i].size = SizeOf(as[i]) /\ as[i].path = Text(as[i].relative)
    BY <1>6, <2>1, <2>2, <2>3
  <2>5. QED
    BY <1>1, <2>4 DEF as
<1>11. QED
  BY <1>1, <1>4, <1>9, <1>10 DEF Walk

LEMMA NextWalk == ASSUME IInv, Walk, [Next]_vars PROVE Walk'
<1>1. CASE NextSource
  BY <1>1, NextSourceWalk DEF IInv
<1>2. CASE Collect
  BY <1>2, CollectWalk DEF IInv
<1>3. CASE CaptureAgain
  <2>1. /\ roots' = <<>> /\ stack' = <<>> /\ entries' = <<>> /\ stage' = "reading"
        /\ selection' = selection
    BY <1>3 DEF CaptureAgain, source
  <2>2. QED
    BY <2>1, EmptyWalk DEF Walk
<1>4. CASE Encode
  <2>1. stack = <<>> /\ UNCHANGED <<roots, stack, entries, selection>>
    BY <1>4 DEF Encode, Collected, source
  <2>2. QED
    BY <2>1 DEF Walk, SizeOf
<1>5. CASE Inspect \/ CollectFails \/ EncodeFails \/ Edit \/ Decode \/ DecodeFails \/ Restart
           \/ UNCHANGED vars
  <2>1. UNCHANGED <<roots, stack, entries, selection>> /\ (stage' = "sent" => stage = "sent")
    BY <1>5 DEF Inspect, CollectFails, EncodeFails, Edit, Edits, Decode, Receive, WriteEntry,
                AllWritten, FinishEntry, Materialized, DecodeFails, Restart,
                source, reading, vars
  <2>2. QED
    BY <2>1 DEF Walk, SizeOf
<1>6. QED
  BY <1>1, <1>2, <1>3, <1>4, <1>5 DEF Next, Capture

\* While conversion tells names apart, what lies above an entry in the bundle lies above
\* it in the tree.
LEMMA UnderPath ==
    ASSUME Walk, ~NamesMerge, NEW i \in DOMAIN entries, NEW j \in DOMAIN entries,
           entries[i].path \in Above(entries[j].path)
    PROVE  entries[i].relative \in Above(entries[j].relative)
<1>1. entries[j].relative \in Paths /\ entries[j].path = Text(entries[j].relative)
  BY DEF Walk, Walked, Rooted
<1>2. PICK s \in Above(entries[j].relative) : entries[i].path = Text(s)
  BY <1>1, TextAbove
<1>3. PICK k \in DOMAIN entries : entries[k].relative = s
  BY <1>2 DEF Walk, Walked, HasEntry
<1>4. entries[k].path = entries[i].path
  BY <1>2, <1>3 DEF Walk
<1>5. entries[k].relative = entries[i].relative
  BY <1>4 DEF NamesMerge
<1>6. QED
  BY <1>2, <1>3, <1>5

LEMMA WalkIsValid == ASSUME Walk, stage = "sent" PROVE Valid <=> ~TooLong /\ ~NamesMerge
<1>1. Walked(entries, <<>>, roots)
  BY DEF Walk
<1>2. [i \in DOMAIN entries |-> entries[i].size] = [i \in DOMAIN entries |-> SizeOf(entries[i])]
  BY DEF Walk
<1>3. Valid => ~TooLong /\ ~NamesMerge
  BY DEF Valid, NamesMerge
<1>4. ASSUME ~TooLong, ~NamesMerge PROVE Valid
  <2>1. \A i, j \in DOMAIN entries : entries[i].path = entries[j].path => i = j
    BY <1>1, <1>4 DEF NamesMerge, Walked
  <2>2. \A i, j \in DOMAIN entries :
           entries[i].path \in Above(entries[j].path) => entries[i].kind = "dir"
    BY <1>1, <1>4, UnderPath DEF Walked
  <2>3. ASSUME NEW r \in ToSet(roots) PROVE \E i \in DOMAIN entries : entries[i].path = <<r>>
    <3>1. DOMAIN <<>> = {}
      OBVIOUS
    <3>2. PICK i \in DOMAIN entries : entries[i].relative = <<r>>
      BY <1>1, <3>1 DEF Walked
    <3>3. r \in Utf8
      BY DEF Walk, ToSet
    <3>4. entries[i].path = <<r>>
      BY <3>2, <3>3, TextOfRoot DEF Walk
    <3>5. QED
      BY <3>4
  <2>4. QED
    BY <1>2, <1>4, <2>1, <2>2, <2>3 DEF Valid
<1>5. QED
  BY <1>3, <1>4

\* Whatever is selected, and whatever the user does with the files while they are read:
\* what encode makes of them passes every check of decode, unless the manifest is longer
\* than decode takes it or conversion has made two names equal, which encode does not look at.
THEOREM Decodes == Spec => []BundlesDecode
<1>1. Walk => BundlesDecode
  BY WalkIsValid DEF BundlesDecode
<1>2. QED
  BY <1>1, InitOk, NextKeeps, InitWalk, NextWalk, PTL DEF Spec

-----------------------------------------------------------------------------
(* Where the selection is put.                                             *)

\* Where the path p, of what is selected as a, is put when a gets the root r.
At(r, a, p) == <<r>> \o SubSeq(p, Len(a) + 1, Len(p))

Same(e, node) == node = [kind |-> e.kind, body |-> e.body, mode |-> e.mode]

\* Entries es, with items st still to visit, are of the selection sel in the tree t, and
\* all of the sources that have a root in rs.
Covers(es, st, rs, sel, t) ==
    /\ \A k \in DOMAIN es : \E i \in DOMAIN rs, p \in DOMAIN t :
          IsPrefix(sel[i], p) /\ es[k].relative = At(rs[i], sel[i], p) /\ Same(es[k], t[p])
    /\ \A k \in DOMAIN st : \E i \in DOMAIN rs :
          /\ st[k].source \in Seq(Name) \ {<<>>} /\ IsPrefix(sel[i], st[k].source)
          /\ st[k].relative = At(rs[i], sel[i], st[k].source)
    /\ \A i \in DOMAIN rs, p \in DOMAIN t : IsPrefix(sel[i], p) =>
          \/ \E k \in DOMAIN es : es[k].relative = At(rs[i], sel[i], p)
          \/ \E k \in DOMAIN st : /\ IsPrefix(sel[i], st[k].source) /\ IsPrefix(st[k].source, p)
                                  /\ st[k].relative = At(rs[i], sel[i], st[k].source)

\* While nobody changes the files.
Account ==
    /\ \E s \in Sources : tree = s.tree /\ selection = s.selection
    /\ Len(roots) <= Len(selection)
    /\ stage = "sent" => Len(roots) = Len(selection)
    /\ \A i, j \in DOMAIN roots : roots[i] = roots[j] => i = j
    /\ looked # None => stack # <<>> /\ looked = tree[Head(stack).source]
    /\ Covers(entries, stack, roots, selection, tree)

\* Nothing is in the clip's directory but what has an entry.
OnlyEntries == \A q \in DOMAIN disk : \E k \in DOMAIN entries : entries[k].path = q

Kept ==
    /\ edits \in Nat
    /\ stage # "sent" => DOMAIN disk = {}
    /\ edits = 0 => Account /\ (cut \/ OnlyEntries)

TreePaths == Seq(Name) \ {<<>>}

LEMMA NamesLabel == Name \subseteq Label /\ TreePaths \subseteq Paths
<1>1. Name \subseteq Label
  BY NamesAssumption
<1>2. \A p \in Seq(Name) : p \in Seq(Label)
  BY <1>1, SeqMonotonic
<1>3. QED
  BY <1>1, <1>2 DEF TreePaths, Paths

LEMMA AtMeans ==
    ASSUME NEW r \in Label, NEW a \in Paths, NEW p \in Paths, IsPrefix(a, p)
    PROVE  /\ At(r, a, p) \in Paths /\ Len(a) \in Nat \ {0} /\ Len(p) \in Nat
           /\ Len(a) <= Len(p)
           /\ Len(At(r, a, p)) = Len(p) - Len(a) + 1
           /\ At(r, a, p)[1] = r
           /\ \A k \in 1 .. Len(p) - Len(a) : At(r, a, p)[k + 1] = p[Len(a) + k]
<1> DEFINE below == SubSeq(p, Len(a) + 1, Len(p))
           top == <<r>>
           q == top \o below
<1>1. /\ a \in Seq(Label) /\ p \in Seq(Label)
      /\ Len(a) \in Nat \ {0} /\ Len(p) \in Nat /\ Len(a) <= Len(p)
  BY EmptySeq, PrefixMeans DEF Paths
<1>2. \A i \in Len(a) + 1 .. Len(p) : p[i] \in Label
  BY <1>1, ElementOfSeq
<1>3. /\ below \in Seq(Label) /\ Len(below) = Len(p) - Len(a)
      /\ \A k \in 1 .. Len(p) - Len(a) : below[k] = p[Len(a) + k]
  <2>1. /\ below \in Seq(Label)
        /\ Len(below) = IF Len(a) + 1 <= Len(p) THEN Len(p) - (Len(a) + 1) + 1 ELSE 0
        /\ \A k \in 1 .. Len(p) - (Len(a) + 1) + 1 : below[k] = p[(Len(a) + 1) + k - 1]
    BY <1>1, <1>2, SubSeqProperties
  <2> HIDE DEF below
  <2>2. Len(below) = Len(p) - Len(a)
    BY <1>1, <2>1
  <2>3. ASSUME NEW k \in 1 .. Len(p) - Len(a) PROVE below[k] = p[Len(a) + k]
    <3>1. k \in 1 .. Len(p) - (Len(a) + 1) + 1 /\ (Len(a) + 1) + k - 1 = Len(a) + k
      BY <1>1
    <3>2. QED
      BY <2>1, <3>1
  <2>4. QED
    BY <2>1, <2>2, <2>3
<1>4. At(r, a, p) = q
  BY DEF At
<1>5. top \in Seq(Label) /\ Len(top) = 1 /\ top[1] = r
  OBVIOUS
<1> HIDE DEF below, top
<1>6. /\ q \in Seq(Label) /\ Len(q) = Len(top) + Len(below)
      /\ \A i \in 1 .. Len(top) + Len(below) :
            q[i] = IF i <= Len(top) THEN top[i] ELSE below[i - Len(top)]
  BY <1>3, <1>5, ConcatProperties
<1> HIDE DEF q
<1>7. q # <<>> /\ Len(q) = Len(p) - Len(a) + 1 /\ q[1] = r
  <2>1. Len(q) = Len(p) - Len(a) + 1 /\ q[1] = r
    BY <1>1, <1>3, <1>5, <1>6
  <2>2. Len(<<>>) = 0 /\ Len(q) # 0
    BY <1>1, <2>1
  <2>3. QED
    BY <2>1, <2>2
<1>8. ASSUME NEW k \in 1 .. Len(p) - Len(a) PROVE q[k + 1] = p[Len(a) + k]
  <2>1. /\ k + 1 \in 1 .. Len(top) + Len(below) /\ ~(k + 1 <= Len(top))
        /\ k + 1 - Len(top) = k
    BY <1>1, <1>3, <1>5
  <2>2. q[k + 1] = below[k + 1 - Len(top)]
    BY <1>6, <2>1
  <2>3. below[k] = p[Len(a) + k]
    BY <1>3
  <2>4. QED
    BY <2>1, <2>2, <2>3
<1>9. QED
  BY <1>1, <1>4, <1>6, <1>7, <1>8 DEF Paths

LEMMA AtTop == ASSUME NEW r \in Label, NEW a \in Paths PROVE IsPrefix(a, a) /\ At(r, a, a) = <<r>>
<1>1. Len(a) \in Nat /\ IsPrefix(a, a)
  BY PrefixMeans DEF Paths
<1>2. SubSeq(a, Len(a) + 1, Len(a)) = <<>>
  BY <1>1, SubSeqEmpty
<1>3. <<r>> \o <<>> = <<r>>
  BY ConcatEmptySeq
<1>4. QED
  BY <1>1, <1>2, <1>3 DEF At

LEMMA AtBelow ==
    ASSUME NEW r \in Label, NEW a \in Paths, NEW p \in Paths, IsPrefix(a, p), NEW n \in Label
    PROVE  /\ Append(p, n) \in Paths /\ IsPrefix(a, Append(p, n))
           /\ At(r, a, Append(p, n)) = Append(At(r, a, p), n)
<1> DEFINE c == Append(p, n)
           x == At(r, a, p)
           y == At(r, a, c)
           z == Append(x, n)
<1>1. /\ x \in Paths /\ Len(a) \in Nat \ {0} /\ Len(p) \in Nat /\ Len(a) <= Len(p)
      /\ Len(x) = Len(p) - Len(a) + 1 /\ x[1] = r
      /\ \A k \in 1 .. Len(p) - Len(a) : x[k + 1] = p[Len(a) + k]
  BY AtMeans
<1>2. /\ p \in Seq(Label) /\ c \in Seq(Label) /\ c \in Paths /\ Len(c) = Len(p) + 1 /\ c[Len(p) + 1] = n
      /\ \A i \in 1 .. Len(p) : c[i] = p[i]
  BY AppendProperties DEF Paths
<1>3. IsPrefix(a, c)
  <2> HIDE DEF c
  <2>1. a \in Seq(Label) /\ Len(a) <= Len(c) /\ \A i \in 1 .. Len(a) : a[i] = p[i]
    BY <1>1, <1>2, PrefixMeans DEF Paths
  <2>2. \A i \in 1 .. Len(a) : a[i] = c[i]
    BY <1>1, <1>2, <2>1
  <2>3. QED
    BY <1>2, <2>1, <2>2, PrefixMeans
<1> HIDE DEF c, x, z
<1>4. /\ y \in Paths /\ Len(y) = Len(c) - Len(a) + 1 /\ y[1] = r
      /\ \A k \in 1 .. Len(c) - Len(a) : y[k + 1] = c[Len(a) + k]
  <2>1. c \in Paths /\ IsPrefix(a, c)
    BY <1>2, <1>3
  <2>2. QED
    BY <2>1, AtMeans
<1> HIDE DEF y
<1>5. /\ x \in Seq(Label) /\ z \in Seq(Label) /\ Len(z) = Len(x) + 1 /\ z[Len(x) + 1] = n
      /\ \A i \in 1 .. Len(x) : z[i] = x[i]
  <2>1. x \in Seq(Label)
    BY <1>1 DEF Paths
  <2>2. QED
    BY <2>1, AppendProperties DEF z
<1>6. Len(y) = Len(z)
  BY <1>1, <1>2, <1>4, <1>5
<1>7. ASSUME NEW i \in 1 .. Len(y) PROVE y[i] = z[i]
  <2>1. CASE i = 1
    BY <1>1, <1>4, <1>5, <2>1
  <2>2. CASE i = Len(x) + 1
    <3>1. i - 1 \in 1 .. Len(c) - Len(a) /\ Len(a) + (i - 1) = Len(p) + 1 /\ (i - 1) + 1 = i
      BY <1>1, <1>2, <2>2
    <3>2. y[i] = n
      BY <1>2, <1>4, <3>1
    <3>3. QED
      BY <1>5, <2>2, <3>2
  <2>3. CASE i # 1 /\ i # Len(x) + 1
    <3>1. /\ i - 1 \in 1 .. Len(p) - Len(a) /\ i - 1 \in 1 .. Len(c) - Len(a)
          /\ Len(a) + (i - 1) \in 1 .. Len(p) /\ (i - 1) + 1 = i /\ i \in 1 .. Len(x)
      BY <1>1, <1>2, <1>4, <2>3
    <3>2. y[i] = p[Len(a) + (i - 1)] /\ x[i] = p[Len(a) + (i - 1)]
      BY <1>1, <1>2, <1>4, <3>1
    <3>3. QED
      BY <1>5, <3>1, <3>2
  <2>4. QED
    BY <2>1, <2>2, <2>3
<1>8. y = z
  BY <1>4, <1>5, <1>6, <1>7, SeqEqual DEF Paths
<1>9. QED
  BY <1>2, <1>3, <1>8 DEF c, x, y, z

LEMMA AtDiffers ==
    ASSUME NEW r \in Label, NEW a \in Paths, NEW p \in Paths, NEW q \in Paths,
           IsPrefix(a, p), IsPrefix(a, q), At(r, a, p) = At(r, a, q)
    PROVE  p = q
<1> DEFINE x == At(r, a, p)
<1>1. /\ Len(a) \in Nat \ {0} /\ Len(p) \in Nat /\ Len(a) <= Len(p)
      /\ Len(x) = Len(p) - Len(a) + 1
      /\ \A k \in 1 .. Len(p) - Len(a) : x[k + 1] = p[Len(a) + k]
  BY AtMeans
<1>2. /\ Len(q) \in Nat /\ Len(a) <= Len(q)
      /\ Len(x) = Len(q) - Len(a) + 1
      /\ \A k \in 1 .. Len(q) - Len(a) : x[k + 1] = q[Len(a) + k]
  BY AtMeans
<1>3. /\ p \in Seq(Label) /\ q \in Seq(Label) /\ a \in Seq(Label)
      /\ \A i \in 1 .. Len(a) : a[i] = p[i] /\ a[i] = q[i]
  BY PrefixMeans DEF Paths
<1> HIDE DEF x
<1>4. Len(p) = Len(q)
  BY <1>1, <1>2
<1>5. ASSUME NEW i \in 1 .. Len(p) PROVE p[i] = q[i]
  <2>1. CASE i \in 1 .. Len(a)
    BY <1>3, <2>1
  <2>2. CASE i \notin 1 .. Len(a)
    <3>1. i - Len(a) \in 1 .. Len(p) - Len(a) /\ Len(a) + (i - Len(a)) = i
      BY <1>1, <2>2
    <3>2. QED
      BY <1>1, <1>2, <1>4, <3>1
  <2>3. QED
    BY <2>1, <2>2
<1>6. QED
  BY <1>3, <1>4, <1>5, SeqEqual

\* Above a place are the places of what is above the path.
LEMMA AtAbove ==
    ASSUME NEW r \in Label, NEW a \in Paths, NEW p \in Paths, IsPrefix(a, p),
           NEW q \in Above(At(r, a, p))
    PROVE  \E s \in Above(p) : s \in Paths /\ IsPrefix(a, s) /\ At(r, a, s) = q
<1> DEFINE x == At(r, a, p)
<1>1. /\ x \in Paths /\ Len(a) \in Nat \ {0} /\ Len(p) \in Nat /\ Len(a) <= Len(p)
      /\ Len(x) = Len(p) - Len(a) + 1 /\ x[1] = r
      /\ \A k \in 1 .. Len(p) - Len(a) : x[k + 1] = p[Len(a) + k]
  BY AtMeans
<1>2. /\ p \in Seq(Label) /\ a \in Seq(Label)
      /\ \A i \in 1 .. Len(a) : a[i] = p[i]
  BY PrefixMeans DEF Paths
<1>3. PICK n \in 1 .. Len(x) - 1 : q = SubSeq(x, 1, n)
  BY DEF Above
<1> HIDE DEF x
<1> DEFINE m == Len(a) + n - 1
           s == SubSeq(p, 1, m)
<1>4. m \in 1 .. Len(p) - 1 /\ m >= Len(a) /\ m - Len(a) + 1 = n /\ n \in Nat /\ n >= 1
  BY <1>1
<1>5. s \in Above(p)
  BY <1>4 DEF Above
<1>6. s \in Seq(Label) /\ Len(s) = m /\ \A i \in 1 .. m : s[i] = p[i]
  <2> HIDE DEF m
  <2>1. \A i \in 1 .. m : p[i] \in Label
    BY <1>1, <1>2, <1>4, ElementOfSeq
  <2>2. QED
    BY <1>1, <1>4, <2>1, SubSeqProperties
<1>7. q \in Seq(Label) /\ Len(q) = n /\ \A i \in 1 .. n : q[i] = x[i]
  <2>1. \A i \in 1 .. n : x[i] \in Label
    BY <1>1, <1>3, ElementOfSeq DEF Paths
  <2>2. QED
    BY <1>1, <1>3, <1>4, <2>1, SubSeqProperties
<1> HIDE DEF s
<1>8. s \in Paths /\ IsPrefix(a, s)
  <2>1. Len(a) \in Nat /\ Len(a) <= Len(s) /\ \A i \in 1 .. Len(a) : i \in 1 .. m
    BY <1>1, <1>4, <1>6
  <2>2. \A i \in 1 .. Len(a) : a[i] = s[i]
    BY <1>2, <1>6, <2>1
  <2>3. s # <<>>
    <3>1. Len(s) # 0 /\ Len(<<>>) = 0
      BY <1>1, <1>4, <1>6
    <3>2. QED
      BY <3>1
  <2>4. QED
    BY <1>2, <1>6, <2>1, <2>2, <2>3, PrefixMeans DEF Paths
<1> DEFINE y == At(r, a, s)
<1>9. /\ y \in Paths /\ Len(y) = Len(s) - Len(a) + 1 /\ y[1] = r
      /\ \A k \in 1 .. Len(s) - Len(a) : y[k + 1] = s[Len(a) + k]
  BY <1>8, AtMeans
<1> HIDE DEF y
<1>10. y \in Seq(Label) /\ Len(y) = Len(q)
  BY <1>4, <1>6, <1>7, <1>9 DEF Paths
<1>11. ASSUME NEW i \in 1 .. Len(q) PROVE y[i] = q[i]
  <2>1. CASE i = 1
    BY <1>1, <1>4, <1>7, <1>9, <2>1
  <2>2. CASE i # 1
    <3>1. /\ i - 1 \in 1 .. Len(s) - Len(a) /\ i - 1 \in 1 .. Len(p) - Len(a)
          /\ Len(a) + (i - 1) \in 1 .. m /\ (i - 1) + 1 = i /\ i \in 1 .. n
      BY <1>1, <1>4, <1>6, <1>7, <2>2
    <3>2. y[i] = s[Len(a) + (i - 1)] /\ x[i] = p[Len(a) + (i - 1)]
      BY <1>1, <1>9, <3>1
    <3>3. QED
      BY <1>6, <1>7, <3>1, <3>2
  <2>3. QED
    BY <2>1, <2>2
<1>12. y = q
  BY <1>7, <1>10, <1>11, SeqEqual
<1>13. QED
  BY <1>5, <1>8, <1>12 DEF y

\* From a path towards one that is below it.
LEMMA StepDown ==
    ASSUME NEW p \in TreePaths, NEW q \in TreePaths, IsPrefix(p, q), p # q
    PROVE  /\ p \in Above(q)
           /\ \E n \in Name : /\ IsPrefix(Append(p, n), q)
                              /\ Append(p, n) = q \/ Append(p, n) \in Above(q)
<1>1. p \in Paths /\ q \in Paths /\ p \in Seq(Label) /\ q \in Seq(Label)
  BY NamesLabel DEF Paths
<1>2. p \in Above(q)
  BY <1>1, AboveMeans
<1>3. /\ Len(p) \in Nat /\ Len(q) \in Nat /\ Len(p) <= Len(q)
      /\ \A i \in 1 .. Len(p) : p[i] = q[i]
  BY <1>1, PrefixMeans
<1>4. Len(p) # Len(q)
  BY <1>1, <1>3, SeqEqual
<1>5. Len(p) + 1 \in 1 .. Len(q)
  BY <1>3, <1>4
<1>6. PICK n \in Name : n = q[Len(p) + 1]
  BY <1>5, ElementOfSeq DEF TreePaths
<1> DEFINE c == Append(p, n)
<1>7. /\ c \in Seq(Label) /\ c # <<>> /\ Len(c) = Len(p) + 1 /\ c[Len(p) + 1] = n
      /\ \A i \in 1 .. Len(p) : c[i] = p[i]
  BY <1>1, AppendProperties, NamesLabel
<1> HIDE DEF c
<1>8. \A i \in 1 .. Len(c) : c[i] = q[i]
  BY <1>3, <1>6, <1>7
<1>9. IsPrefix(c, q) /\ c \in Paths
  BY <1>1, <1>3, <1>5, <1>7, <1>8, PrefixMeans DEF Paths
<1>10. c = q \/ c \in Above(q)
  BY <1>1, <1>9, AboveMeans
<1>11. QED
  BY <1>2, <1>9, <1>10 DEF c

LEMMA UpIsThere ==
    ASSUME NEW t, Connected(t), NEW p \in DOMAIN t
    PROVE  /\ p \in TreePaths
           /\ \A q \in Above(p) : q \in DOMAIN t /\ t[q].kind = "dir"
BY DEF Connected, Above, TreePaths

-----------------------------------------------------------------------------
(* A capture that nobody disturbs covers the selection.                    *)

\* A new root is one more source to cover, by an item of its own.
LEMMA CoversRoot ==
    ASSUME NEW es, NEW rs \in Seq(Label), NEW sel \in Seq(TreePaths), NEW t,
           Len(rs) < Len(sel), Covers(es, <<>>, rs, sel, t), NEW root \in Label,
           NEW st, IsSequence(st), Len(st) = 1, st[1].relative = <<root>>,
           st[1].source = sel[Len(rs) + 1]
    PROVE  Covers(es, st, Append(rs, root), sel, t)
<1> DEFINE all == Append(rs, root)
           n == Len(rs) + 1
<1>1. /\ Len(rs) \in Nat /\ DOMAIN rs = 1 .. Len(rs) /\ n \in 1 .. Len(sel)
      /\ DOMAIN all = 1 .. n /\ all[n] = root /\ \A i \in 1 .. Len(rs) : all[i] = rs[i]
  BY AppendProperties
<1>2. sel[n] \in TreePaths /\ sel[n] \in Paths
  <2> HIDE DEF n
  <2>1. sel[n] \in TreePaths
    BY <1>1
  <2>2. QED
    BY <2>1, NamesLabel
<1>3. DOMAIN st = {1}
  <2>1. DOMAIN st = 1 .. 1
    BY LengthOf
  <2>2. QED
    BY <2>1
<1>4. IsPrefix(sel[n], sel[n]) /\ At(root, sel[n], sel[n]) = <<root>>
  BY <1>2, AtTop
<1>5. \A i \in DOMAIN all : i = n \/ (i \in DOMAIN rs /\ all[i] = rs[i])
  <2>1. 1 .. n = (1 .. Len(rs)) \cup {n}
    BY <1>1
  <2>2. QED
    BY <1>1, <2>1
<1>6. \A i \in DOMAIN rs : i \in DOMAIN all /\ all[i] = rs[i]
  BY <1>1
<1>7. n \in DOMAIN all /\ st[1].source = sel[n]
  BY <1>1
<1> HIDE DEF all, n
<1>8. DOMAIN <<>> = {}
  OBVIOUS
<1>9. ASSUME NEW k \in DOMAIN es
      PROVE  \E i \in DOMAIN all, p \in DOMAIN t :
                IsPrefix(sel[i], p) /\ es[k].relative = At(all[i], sel[i], p) /\ Same(es[k], t[p])
  <2>1. PICK i \in DOMAIN rs, p \in DOMAIN t :
           IsPrefix(sel[i], p) /\ es[k].relative = At(rs[i], sel[i], p) /\ Same(es[k], t[p])
    BY DEF Covers
  <2>2. QED
    BY <1>6, <2>1
<1>10. ASSUME NEW k \in DOMAIN st
       PROVE  \E i \in DOMAIN all : /\ st[k].source \in TreePaths /\ IsPrefix(sel[i], st[k].source)
                                    /\ st[k].relative = At(all[i], sel[i], st[k].source)
  BY <1>1, <1>2, <1>3, <1>4, <1>7 DEF n
<1>11. ASSUME NEW i \in DOMAIN all, NEW p \in DOMAIN t, IsPrefix(sel[i], p)
       PROVE  \/ \E k \in DOMAIN es : es[k].relative = At(all[i], sel[i], p)
              \/ \E k \in DOMAIN st : /\ IsPrefix(sel[i], st[k].source) /\ IsPrefix(st[k].source, p)
                                      /\ st[k].relative = At(all[i], sel[i], st[k].source)
  <2>1. CASE i = n
    BY <1>1, <1>3, <1>4, <1>7, <1>11, <2>1
  <2>2. CASE i \in DOMAIN rs /\ all[i] = rs[i]
    BY <1>8, <1>11, <2>2 DEF Covers
  <2>3. QED
    BY <1>5, <2>1, <2>2
<1>12. QED
  BY <1>9, <1>10, <1>11 DEF Covers, TreePaths, all

\* e is of what the first item is about, and the children ch, all there are, have taken
\* its place in new.
Lists(es, st, e, ch, new, t) ==
    /\ IsSequence(es) /\ IsSequence(st) /\ IsSequence(ch) /\ IsSequence(new)
    /\ st # <<>> /\ e.relative = st[1].relative
    /\ st[1].source \in DOMAIN t /\ Same(e, t[st[1].source])
    /\ \A k \in DOMAIN ch : \E n \in Name : /\ ch[k].source = Append(st[1].source, n)
                                            /\ ch[k].relative = Append(e.relative, n)
    /\ e.kind = "dir" => \A n \in Name : Append(st[1].source, n) \in DOMAIN t =>
          \E k \in DOMAIN ch : /\ ch[k].source = Append(st[1].source, n)
                               /\ ch[k].relative = Append(e.relative, n)
    /\ Len(new) = Len(ch) + Len(st) - 1
    /\ \A k \in 1 .. Len(ch) : new[k] = ch[k]
    /\ \A k \in Len(ch) + 1 .. Len(new) : new[k] = st[k - Len(ch) + 1]

\* What the first item covered its entry and its children cover: what is below it is
\* below one of them.
LEMMA CoversVisit ==
    ASSUME NEW es, NEW st, NEW rs \in Seq(Label), NEW sel \in Seq(TreePaths), NEW t,
           Len(rs) <= Len(sel), Connected(t), Covers(es, st, rs, sel, t),
           NEW e, NEW ch, NEW new, Lists(es, st, e, ch, new, t)
    PROVE  Covers(Append(es, e), new, rs, sel, t)
<1> DEFINE as == Append(es, e)
           c == Len(ch)
           n == Len(es) + 1
           s == st[1].source
           q == e.relative
<1>0. /\ IsSequence(es) /\ IsSequence(st) /\ IsSequence(ch) /\ IsSequence(new)
      /\ st # <<>> /\ q = st[1].relative /\ s \in DOMAIN t /\ Same(e, t[s])
      /\ \A k \in DOMAIN ch : \E m \in Name : /\ ch[k].source = Append(s, m)
                                              /\ ch[k].relative = Append(q, m)
      /\ e.kind = "dir" => \A m \in Name : Append(s, m) \in DOMAIN t =>
            \E k \in DOMAIN ch : ch[k].source = Append(s, m) /\ ch[k].relative = Append(q, m)
      /\ Len(new) = c + Len(st) - 1
      /\ \A k \in 1 .. c : new[k] = ch[k]
      /\ \A k \in c + 1 .. Len(new) : new[k] = st[k - c + 1]
  BY DEF Lists
<1>1. /\ Len(es) \in Nat /\ Len(st) \in Nat \ {0} /\ c \in Nat /\ Len(new) \in Nat
      /\ DOMAIN es = 1 .. Len(es) /\ DOMAIN st = 1 .. Len(st)
      /\ DOMAIN ch = 1 .. c /\ DOMAIN new = 1 .. Len(new)
  <2>1. Len(st) # 0
    BY <1>0, EmptySeq DEF IsSequence
  <2>2. QED
    BY <1>0, <2>1, LengthOf
<1>2. DOMAIN as = 1 .. n /\ as[n] = e /\ \A i \in 1 .. Len(es) : as[i] = es[i]
  BY <1>0, AppendGrows
<1>3. s \in TreePaths /\ s \in Paths /\ \A p \in DOMAIN t : p \in TreePaths /\ p \in Paths
  BY <1>0, UpIsThere, NamesLabel
<1>4. \A i \in DOMAIN rs : rs[i] \in Label /\ sel[i] \in Paths
  <2> SUFFICES ASSUME NEW i \in DOMAIN rs PROVE rs[i] \in Label /\ sel[i] \in Paths
    OBVIOUS
  <2>1. i \in 1 .. Len(rs) /\ i \in 1 .. Len(sel)
    BY LenProperties
  <2>2. rs[i] \in Label /\ sel[i] \in TreePaths
    BY <2>1, ElementOfSeq
  <2>3. QED
    BY <2>2, NamesLabel
<1> HIDE DEF as, s, q
<1>5. \A k \in DOMAIN st : k # 1 => \E j \in DOMAIN new : new[j] = st[k]
  <2> SUFFICES ASSUME NEW k \in DOMAIN st, k # 1 PROVE \E j \in DOMAIN new : new[j] = st[k]
    OBVIOUS
  <2>1. k + c - 1 \in c + 1 .. Len(new) /\ (k + c - 1) - c + 1 = k /\ k + c - 1 \in DOMAIN new
    BY <1>0, <1>1
  <2>2. QED
    BY <1>0, <2>1
<1>6. \A k \in DOMAIN ch : \E j \in DOMAIN new : new[j] = ch[k]
  <2> SUFFICES ASSUME NEW k \in DOMAIN ch PROVE \E j \in DOMAIN new : new[j] = ch[k]
    OBVIOUS
  <2>1. k \in 1 .. c /\ k \in DOMAIN new
    BY <1>0, <1>1
  <2>2. QED
    BY <1>0, <2>1
<1>7. \A j \in DOMAIN new : \/ \E k \in DOMAIN ch : new[j] = ch[k]
                            \/ \E k \in DOMAIN st : new[j] = st[k]
  <2> SUFFICES ASSUME NEW j \in DOMAIN new
               PROVE  \/ \E k \in DOMAIN ch : new[j] = ch[k]
                      \/ \E k \in DOMAIN st : new[j] = st[k]
    OBVIOUS
  <2>1. CASE j \in 1 .. c
    BY <1>0, <1>1, <2>1
  <2>2. CASE j \notin 1 .. c
    <3>1. j \in c + 1 .. Len(new) /\ j - c + 1 \in DOMAIN st
      BY <1>0, <1>1, <2>2
    <3>2. QED
      BY <1>0, <3>1
  <2>3. QED
    BY <2>1, <2>2
<1>8. \A k \in DOMAIN es : k \in DOMAIN as /\ as[k] = es[k]
  <2>1. \A k \in 1 .. Len(es) : k \in 1 .. n
    BY <1>1
  <2>2. QED
    BY <1>1, <1>2, <2>1
<1>9. n \in DOMAIN as /\ \A k \in DOMAIN as : k = n \/ (k \in DOMAIN es /\ as[k] = es[k])
  <2>1. 1 .. n = (1 .. Len(es)) \cup {n}
    BY <1>1
  <2>2. QED
    BY <1>1, <1>2, <2>1
<1>10. 1 \in DOMAIN st
  BY <1>1
<1>11. PICK i0 \in DOMAIN rs : IsPrefix(sel[i0], s) /\ q = At(rs[i0], sel[i0], s)
  BY <1>0, <1>10 DEF Covers, s
<1> HIDE DEF n, c
<1>12. ASSUME NEW k \in DOMAIN as
       PROVE  \E i \in DOMAIN rs, p \in DOMAIN t :
                 IsPrefix(sel[i], p) /\ as[k].relative = At(rs[i], sel[i], p) /\ Same(as[k], t[p])
  <2>1. CASE k = n
    BY <1>0, <1>2, <1>11, <2>1 DEF q
  <2>2. CASE k \in DOMAIN es /\ as[k] = es[k]
    BY <2>2 DEF Covers
  <2>3. QED
    BY <1>9, <2>1, <2>2
<1>13. ASSUME NEW j \in DOMAIN new
       PROVE  \E i \in DOMAIN rs : /\ new[j].source \in TreePaths /\ IsPrefix(sel[i], new[j].source)
                                   /\ new[j].relative = At(rs[i], sel[i], new[j].source)
  <2>1. ASSUME NEW k \in DOMAIN ch, new[j] = ch[k]
        PROVE  /\ new[j].source \in TreePaths /\ IsPrefix(sel[i0], new[j].source)
               /\ new[j].relative = At(rs[i0], sel[i0], new[j].source)
    <3>1. PICK m \in Name : new[j].source = Append(s, m) /\ new[j].relative = Append(q, m)
      BY <1>0, <2>1
    <3>2. rs[i0] \in Label /\ sel[i0] \in Paths /\ m \in Label
      BY <1>4, NamesLabel
    <3>3. /\ IsPrefix(sel[i0], Append(s, m))
          /\ At(rs[i0], sel[i0], Append(s, m)) = Append(q, m)
      BY <1>3, <1>11, <3>2, AtBelow
    <3>4. Append(s, m) \in TreePaths
      <4>1. s \in Seq(Name) /\ m \in Name
        BY <1>3 DEF TreePaths
      <4>2. Append(s, m) \in Seq(Name) /\ Append(s, m) # <<>>
        BY <4>1, AppendProperties
      <4>3. QED
        BY <4>2 DEF TreePaths
    <3>5. QED
      BY <3>1, <3>3, <3>4
  <2>2. ASSUME NEW k \in DOMAIN st, new[j] = st[k]
        PROVE  \E i \in DOMAIN rs : /\ st[k].source \in TreePaths /\ IsPrefix(sel[i], st[k].source)
                                    /\ st[k].relative = At(rs[i], sel[i], st[k].source)
    BY DEF Covers, TreePaths
  <2>3. QED
    BY <1>7, <2>1, <2>2
<1>14. ASSUME NEW i \in DOMAIN rs, NEW p \in DOMAIN t, IsPrefix(sel[i], p)
       PROVE  \/ \E k \in DOMAIN as : as[k].relative = At(rs[i], sel[i], p)
              \/ \E k \in DOMAIN new : /\ IsPrefix(sel[i], new[k].source) /\ IsPrefix(new[k].source, p)
                                       /\ new[k].relative = At(rs[i], sel[i], new[k].source)
  <2>1. CASE \E k \in DOMAIN es : es[k].relative = At(rs[i], sel[i], p)
    BY <1>8, <2>1
  <2>2. CASE \E k \in DOMAIN st : /\ k # 1
                                  /\ IsPrefix(sel[i], st[k].source) /\ IsPrefix(st[k].source, p)
                                  /\ st[k].relative = At(rs[i], sel[i], st[k].source)
    BY <1>5, <2>2
  <2>3. CASE IsPrefix(sel[i], s) /\ IsPrefix(s, p) /\ q = At(rs[i], sel[i], s)
    <3>1. CASE p = s
      BY <1>2, <1>9, <2>3, <3>1 DEF q
    <3>2. CASE p # s
      <4>1. /\ s \in Above(p)
            /\ \E m \in Name : /\ IsPrefix(Append(s, m), p)
                               /\ Append(s, m) = p \/ Append(s, m) \in Above(p)
        BY <1>3, <2>3, <3>2, StepDown
      <4>2. PICK m \in Name : /\ IsPrefix(Append(s, m), p)
                              /\ Append(s, m) = p \/ Append(s, m) \in Above(p)
        BY <4>1
      <4>3. t[s].kind = "dir" /\ Append(s, m) \in DOMAIN t
        BY <4>1, <4>2, UpIsThere
      <4>4. e.kind = "dir"
        BY <1>0, <4>3 DEF Same
      <4>5. PICK k \in DOMAIN ch : ch[k].source = Append(s, m) /\ ch[k].relative = Append(q, m)
        BY <1>0, <4>3, <4>4
      <4>6. PICK j \in DOMAIN new : new[j] = ch[k]
        BY <1>6
      <4>7. /\ IsPrefix(sel[i], Append(s, m))
            /\ At(rs[i], sel[i], Append(s, m)) = Append(q, m)
        <5>1. rs[i] \in Label /\ sel[i] \in Paths /\ m \in Label /\ s \in Paths
          BY <1>3, <1>4, NamesLabel
        <5>2. QED
          BY <2>3, <5>1, AtBelow
      <4>8. QED
        BY <4>2, <4>5, <4>6, <4>7
    <3>3. QED
      BY <3>1, <3>2
  <2>4. \/ \E k \in DOMAIN es : es[k].relative = At(rs[i], sel[i], p)
        \/ \E k \in DOMAIN st : /\ IsPrefix(sel[i], st[k].source) /\ IsPrefix(st[k].source, p)
                                /\ st[k].relative = At(rs[i], sel[i], st[k].source)
    BY <1>14 DEF Covers
  <2>5. st[1].source = s /\ st[1].relative = q
    BY <1>0 DEF s
  <2>6. QED
    BY <2>1, <2>2, <2>3, <2>4, <2>5
<1>15. QED
  BY <1>12, <1>13, <1>14 DEF Covers, TreePaths, as

\* What read_dir finds: all names, and each of them.
LEMMA Listing ==
    ASSUME NEW item
    PROVE  /\ IsSequence(Children(item))
           /\ \A k \in DOMAIN Children(item) : \E n \in Name :
                 /\ Children(item)[k].source = Append(item.source, n)
                 /\ Children(item)[k].relative = Append(item.relative, n)
           /\ \A n \in Name : Append(item.source, n) \in DOMAIN tree =>
                 \E k \in DOMAIN Children(item) :
                    /\ Children(item)[k].source = Append(item.source, n)
                    /\ Children(item)[k].relative = Append(item.relative, n)
<1> DEFINE S == {n \in Name : Append(item.source, n) \in DOMAIN tree}
           there == Sorted(S)
           ch == [i \in DOMAIN there |-> [source   |-> Append(item.source, there[i]),
                                          relative |-> Append(item.relative, there[i])]]
<1>1. there \in Seq(S) /\ {there[k] : k \in 1 .. Len(there)} = S /\ S \in SUBSET Name
  <2>1. S \in SUBSET Name
    OBVIOUS
  <2> HIDE DEF S
  <2>2. QED
    BY <2>1, SortedNames
<1>2. ch = Children(item) /\ IsSequence(ch)
  <2>1. ch = Children(item)
    BY DEF Children
  <2>2. QED
    BY <2>1, ChildrenOf
<1>3. \A n \in Name : Append(item.source, n) \in DOMAIN tree => n \in S
  OBVIOUS
<1> HIDE DEF there, S
<1>4. DOMAIN there = 1 .. Len(there) /\ DOMAIN ch = DOMAIN there
  BY <1>1
<1>5. \A k \in DOMAIN there : there[k] \in Name
  BY <1>1, <1>4
<1>6. \A k \in DOMAIN ch : /\ ch[k].source = Append(item.source, there[k])
                           /\ ch[k].relative = Append(item.relative, there[k])
  OBVIOUS
<1> HIDE DEF ch
<1>7. \A k \in DOMAIN ch : \E n \in Name : /\ ch[k].source = Append(item.source, n)
                                           /\ ch[k].relative = Append(item.relative, n)
  BY <1>4, <1>5, <1>6
<1>8. ASSUME NEW n \in Name, Append(item.source, n) \in DOMAIN tree
      PROVE  \E k \in DOMAIN ch : /\ ch[k].source = Append(item.source, n)
                                  /\ ch[k].relative = Append(item.relative, n)
  <2>1. PICK k \in 1 .. Len(there) : there[k] = n
    BY <1>1, <1>3, <1>8
  <2>2. QED
    BY <1>4, <1>6, <2>1
<1>9. QED
  BY <1>2, <1>7, <1>8

LEMMA CoversNothing == ASSUME NEW sel, NEW t PROVE Covers(<<>>, <<>>, <<>>, sel, t)
<1>1. DOMAIN <<>> = {}
  OBVIOUS
<1>2. QED
  BY <1>1 DEF Covers

LEMMA EmptyAccount ==
    ASSUME NEW s \in Sources, tree = s.tree, selection = s.selection, stage # "sent",
           roots = <<>>, stack = <<>>, entries = <<>>, looked = None
    PROVE  Account
<1>1. DOMAIN <<>> = {} /\ Len(<<>>) = 0 /\ Len(selection) \in Nat
  BY FileBundleAssumption
<1>2. QED
  BY <1>1, CoversNothing DEF Account

LEMMA InitKept == ASSUME Init PROVE Kept
<1>1. Account
  BY EmptyAccount DEF Init
<1>2. QED
  BY <1>1 DEF Init, Kept, OnlyEntries

LEMMA SourceFacts ==
    ASSUME Account
    PROVE  /\ Connected(tree) /\ Tidy(tree)
           /\ selection \in Seq(Seq(Name \cap Utf8) \ {<<>>}) /\ selection \in Seq(TreePaths)
<1> DEFINE texts == Seq(Name \cap Utf8) \ {<<>>}
<1>1. Connected(tree) /\ Tidy(tree) /\ selection \in Seq(texts)
  BY FileBundleAssumption DEF Account
<1>2. Seq(Name \cap Utf8) \subseteq Seq(Name)
  BY SeqMonotonic
<1>3. texts \subseteq TreePaths
  BY <1>2 DEF TreePaths
<1> HIDE DEF texts
<1>4. selection \in Seq(TreePaths)
  BY <1>1, <1>3, SeqMonotonic
<1>5. QED
  BY <1>1, <1>4 DEF texts

LEMMA NextSourceAccount == ASSUME Walk, Account, NextSource PROVE Account'
<1> DEFINE path == selection[Len(roots) + 1]
           root == UniqueName(Last(path), ToSet(roots))
           item == [source |-> path, relative |-> <<root>>]
           all == Append(roots, root)
<1>1. /\ stack = <<>> /\ Len(roots) < Len(selection) /\ stage = "reading"
      /\ roots' = all /\ stack' = <<item>>
      /\ UNCHANGED <<stage, looked, entries, tree, selection>>
  BY DEF NextSource, source
<1>2. PICK s \in Sources : tree = s.tree /\ selection = s.selection
  BY DEF Account
<1>3. /\ roots \in Seq(Label) /\ roots \in Seq(Utf8)
      /\ selection \in Seq(Seq(Name \cap Utf8) \ {<<>>}) /\ selection \in Seq(TreePaths)
  BY SourceFacts, RootsAreLabels DEF Walk
<1>4. path \in Seq(Name \cap Utf8) \ {<<>>}
  <2>1. Len(roots) + 1 \in 1 .. Len(selection)
    BY <1>1, <1>3
  <2>2. QED
    BY <1>3, <2>1, ElementOfSeq
<1>5. Last(path) \in Name \cap Utf8
  <2> HIDE DEF path
  <2>1. Len(path) \in 1 .. Len(path)
    BY <1>4, EmptySeq
  <2>2. QED
    BY <1>4, <2>1 DEF Last
<1>6. root \in Utf8 \ ToSet(roots) /\ root \in Label
  <2> DEFINE base == Last(path)
  <2>1. base \in Name \cap Utf8 /\ Len(roots) < Len(s.selection)
    BY <1>1, <1>2, <1>5
  <2> HIDE DEF base
  <2>2. UniqueName(base, ToSet(roots)) \in Utf8 \ ToSet(roots)
    BY <1>3, <2>1, UniqueRoot
  <2>3. QED
    BY <2>2 DEF base, Utf8
<1>7. stack' # <<>> /\ IsSequence(stack') /\ Len(stack') = 1 /\ stack'[1] = item
  <2>1. <<item>> \in Seq({item}) /\ Len(<<item>>) = 1 /\ <<item>>[1] = item /\ <<item>> # <<>>
    OBVIOUS
  <2>2. QED
    BY <1>1, <2>1 DEF IsSequence
<1> HIDE DEF root
<1>8. Covers(entries, stack', all, selection, tree)
  <2> DEFINE st == stack'
  <2>1. IsSequence(st) /\ Len(st) = 1 /\ st[1].relative = <<root>> /\ st[1].source = selection[Len(roots) + 1]
    BY <1>7
  <2>2. Covers(entries, <<>>, roots, selection, tree)
    BY <1>1 DEF Account
  <2> HIDE DEF st
  <2>3. Covers(entries, st, all, selection, tree)
    BY <1>1, <1>3, <1>6, <2>1, <2>2, CoversRoot
  <2>4. QED
    BY <2>3 DEF st
<1>9. \A i, j \in DOMAIN all : all[i] = all[j] => i = j
  <2>1. /\ Len(roots) \in Nat /\ DOMAIN roots = 1 .. Len(roots)
        /\ DOMAIN all = 1 .. Len(roots) + 1
        /\ all[Len(roots) + 1] = root /\ \A i \in 1 .. Len(roots) : all[i] = roots[i]
    BY <1>3, <1>6, AppendProperties
  <2>2. 1 .. Len(roots) + 1 = (1 .. Len(roots)) \cup {Len(roots) + 1}
    BY <2>1
  <2>3. \A i \in 1 .. Len(roots) : roots[i] # root
    BY <1>6, <2>1 DEF ToSet
  <2>4. \A i, j \in 1 .. Len(roots) : roots[i] = roots[j] => i = j
    BY <2>1 DEF Account
  <2> HIDE DEF all
  <2>5. QED
    BY <2>1, <2>2, <2>3, <2>4
<1>10. Len(all) <= Len(selection)
  BY <1>1, <1>3, <1>6, AppendProperties
<1>11. looked = None
  BY <1>1 DEF Account
<1> HIDE DEF all
<1>12. Covers(entries, stack, roots, selection, tree)'
  BY <1>1, <1>8
<1>13. QED
  BY <1>1, <1>2, <1>9, <1>10, <1>11, <1>12 DEF Account

LEMMA InspectAccount == ASSUME Account, Inspect PROVE Account'
<1>1. /\ looked' = tree[Head(stack).source] /\ stack # <<>>
      /\ UNCHANGED <<tree, selection, stage, roots, stack, entries>>
  BY DEF Inspect, source
<1>2. Covers(entries, stack, roots, selection, tree)'
  BY <1>1 DEF Account
<1>3. QED
  BY <1>1, <1>2 DEF Account

LEMMA CollectAccount == ASSUME Sender, Walk, Account, Collect PROVE Account'
<1> DEFINE item == stack[1]
           e == [relative |-> item.relative, path |-> Text(item.relative),
                 kind |-> looked.kind, size |-> SizeOf(looked),
                 mode |-> looked.mode, body |-> tree[item.source].body]
<1>0. stack # <<>> /\ Head(stack) = item
  BY Rest DEF Collect, Walk
<1>1. /\ stack # <<>> /\ stage = "reading" /\ Readable /\ looked # None
      /\ entries' = Append(entries, e) /\ looked' = None
      /\ stack' = IF looked.kind = "dir" THEN Children(item) \o Tail(stack) ELSE Tail(stack)
      /\ UNCHANGED <<stage, roots, selection, tree>>
  BY <1>0 DEF Collect, source
<1>2. /\ IsSequence(stack) /\ IsSequence(entries) /\ Len(stack) \in Nat
      /\ IsSequence(Tail(stack)) /\ Len(Tail(stack)) = Len(stack) - 1
      /\ \A k \in 1 .. Len(Tail(stack)) : Tail(stack)[k] = stack[k + 1]
  BY <1>1, Rest, LengthOf DEF Walk, Sender
<1>3. /\ item.source \in DOMAIN tree /\ looked = tree[item.source] /\ looked \in Node
  BY <1>0, <1>1 DEF Account, Readable, Sender
<1>4. Same(e, tree[item.source])
  BY <1>3 DEF Same, Node
<1>5. e.relative = item.relative /\ e.kind = looked.kind
  OBVIOUS
<1> HIDE DEF e, item
<1>6. \E ch :
         /\ IsSequence(ch) /\ IsSequence(stack') /\ Len(stack') = Len(ch) + Len(Tail(stack))
         /\ \A k \in DOMAIN ch : \E n \in Name : /\ ch[k].source = Append(item.source, n)
                                                 /\ ch[k].relative = Append(item.relative, n)
         /\ looked.kind = "dir" => \A n \in Name : Append(item.source, n) \in DOMAIN tree =>
               \E k \in DOMAIN ch : /\ ch[k].source = Append(item.source, n)
                                    /\ ch[k].relative = Append(item.relative, n)
         /\ \A k \in 1 .. Len(ch) : stack'[k] = ch[k]
         /\ \A k \in Len(ch) + 1 .. Len(stack') : stack'[k] = Tail(stack)[k - Len(ch)]
  <2>1. CASE looked.kind = "dir"
    <3> DEFINE ch == Children(item)  rest == Tail(stack)
    <3>1. /\ IsSequence(ch)
          /\ \A k \in DOMAIN ch : \E n \in Name : /\ ch[k].source = Append(item.source, n)
                                                  /\ ch[k].relative = Append(item.relative, n)
          /\ \A n \in Name : Append(item.source, n) \in DOMAIN tree =>
                \E k \in DOMAIN ch : /\ ch[k].source = Append(item.source, n)
                                     /\ ch[k].relative = Append(item.relative, n)
      BY Listing
    <3>2. IsSequence(rest) /\ stack' = ch \o rest
      BY <1>1, <1>2, <2>1
    <3> HIDE DEF ch, rest
    <3>3. /\ IsSequence(stack') /\ Len(stack') = Len(ch) + Len(rest)
          /\ \A k \in 1 .. Len(ch) : stack'[k] = ch[k]
          /\ \A k \in Len(ch) + 1 .. Len(stack') : stack'[k] = rest[k - Len(ch)]
      BY <3>1, <3>2, Concat
    <3>4. QED
      BY <3>1, <3>3 DEF rest
  <2>2. CASE looked.kind # "dir"
    <3> DEFINE rest == Tail(stack)  ch == <<>>
    <3>1. stack' = rest /\ IsSequence(rest) /\ Len(rest) \in Nat
      BY <1>1, <1>2, <2>2, LengthOf
    <3>2. IsSequence(ch) /\ DOMAIN ch = {} /\ Len(ch) = 0
      BY EmptyWalk
    <3> HIDE DEF ch, rest
    <3>3. /\ Len(stack') = Len(ch) + Len(rest)
          /\ \A k \in 1 .. Len(ch) : stack'[k] = ch[k]
          /\ \A k \in Len(ch) + 1 .. Len(stack') : stack'[k] = rest[k - Len(ch)]
      BY <3>1, <3>2
    <3>4. QED
      BY <2>2, <3>1, <3>2, <3>3 DEF rest
  <2>3. QED
    BY <2>1, <2>2
<1>7. PICK ch :
         /\ IsSequence(ch) /\ IsSequence(stack') /\ Len(stack') = Len(ch) + Len(Tail(stack))
         /\ \A k \in DOMAIN ch : \E n \in Name : /\ ch[k].source = Append(item.source, n)
                                                 /\ ch[k].relative = Append(item.relative, n)
         /\ looked.kind = "dir" => \A n \in Name : Append(item.source, n) \in DOMAIN tree =>
               \E k \in DOMAIN ch : /\ ch[k].source = Append(item.source, n)
                                    /\ ch[k].relative = Append(item.relative, n)
         /\ \A k \in 1 .. Len(ch) : stack'[k] = ch[k]
         /\ \A k \in Len(ch) + 1 .. Len(stack') : stack'[k] = Tail(stack)[k - Len(ch)]
  BY <1>6
<1>8. Len(stack') = Len(ch) + Len(stack) - 1
      /\ \A k \in Len(ch) + 1 .. Len(stack') : stack'[k] = stack[k - Len(ch) + 1]
  <2>1. Len(ch) \in Nat /\ Len(stack') \in Nat /\ Len(Tail(stack)) \in Nat
    BY <1>2, <1>7, LengthOf
  <2>2. ASSUME NEW k \in Len(ch) + 1 .. Len(stack')
        PROVE  stack'[k] = stack[k - Len(ch) + 1]
    <3>1. k - Len(ch) \in 1 .. Len(Tail(stack))
      BY <1>7, <2>1
    <3>2. QED
      BY <1>2, <1>7, <3>1
  <2>3. QED
    BY <1>2, <1>7, <2>1, <2>2
<1>9. Covers(Append(entries, e), stack', roots, selection, tree)
  <2> DEFINE new == stack'
  <2>1. Lists(entries, stack, e, ch, new, tree)
    <3>1. /\ stack # <<>> /\ IsSequence(stack) /\ IsSequence(entries)
          /\ stack[1].source \in DOMAIN tree /\ Same(e, tree[stack[1].source])
          /\ e.relative = stack[1].relative
      BY <1>1, <1>2, <1>3, <1>4, <1>5 DEF item
    <3>2. /\ IsSequence(ch) /\ IsSequence(new)
          /\ \A k \in DOMAIN ch : \E n \in Name : /\ ch[k].source = Append(stack[1].source, n)
                                                  /\ ch[k].relative = Append(e.relative, n)
          /\ e.kind = "dir" => \A n \in Name : Append(stack[1].source, n) \in DOMAIN tree =>
                \E k \in DOMAIN ch : /\ ch[k].source = Append(stack[1].source, n)
                                     /\ ch[k].relative = Append(e.relative, n)
      BY <1>5, <1>7 DEF item
    <3>3. /\ Len(new) = Len(ch) + Len(stack) - 1
          /\ \A k \in 1 .. Len(ch) : new[k] = ch[k]
          /\ \A k \in Len(ch) + 1 .. Len(new) : new[k] = stack[k - Len(ch) + 1]
      BY <1>7, <1>8
    <3> HIDE DEF new
    <3>4. QED
      BY <3>1, <3>2, <3>3, Zenon DEF Lists
  <2>2. /\ Covers(entries, stack, roots, selection, tree) /\ Len(roots) <= Len(selection)
        /\ Connected(tree) /\ roots \in Seq(Label) /\ selection \in Seq(TreePaths)
    BY SourceFacts, RootsAreLabels DEF Account
  <2> HIDE DEF new
  <2>3. Covers(Append(entries, e), new, roots, selection, tree)
    BY <2>1, <2>2, CoversVisit
  <2>4. QED
    BY <2>3 DEF new
<1>10. Covers(entries, stack, roots, selection, tree)'
  BY <1>1, <1>9
<1>11. QED
  BY <1>1, <1>10 DEF Account

LEMMA NextAccount ==
    ASSUME IInv, Walk, Account, [Next]_vars, edits \in Nat, edits' = 0 PROVE Account'
<1>1. CASE NextSource
  BY <1>1, NextSourceAccount
<1>2. CASE Inspect
  BY <1>2, InspectAccount
<1>3. CASE Collect
  BY <1>3, CollectAccount DEF IInv
<1>4. CASE CaptureAgain
  <2>1. PICK s \in Sources : tree = s.tree /\ selection = s.selection
    BY DEF Account
  <2>2. /\ tree' = s.tree /\ selection' = s.selection /\ stage' # "sent"
        /\ roots' = <<>> /\ stack' = <<>> /\ entries' = <<>> /\ looked' = None
    BY <1>4, <2>1 DEF CaptureAgain, source
  <2>3. DOMAIN <<>> = {} /\ Len(<<>>) = 0 /\ Len(s.selection) \in Nat
    BY FileBundleAssumption
  <2>4. Covers(entries, stack, roots, selection, tree)'
    BY <2>2, CoversNothing
  <2>5. QED
    BY <2>2, <2>3, <2>4 DEF Account
<1>5. CASE Edit
  <2>1. edits' = edits + 1
    BY <1>5 DEF Edit, Edits
  <2>2. QED
    BY <2>1
<1>6. CASE CollectFails \/ Encode \/ EncodeFails \/ Decode \/ DecodeFails \/ Restart \/ UNCHANGED vars
  <2>1. /\ UNCHANGED <<tree, selection, roots, stack, looked, entries>>
        /\ stage' = "sent" => stage = "sent" \/ Len(roots) = Len(selection)
    BY <1>6 DEF CollectFails, Encode, EncodeFails, Collected, Decode, Receive, WriteEntry,
                AllWritten, FinishEntry, Materialized, DecodeFails, Restart,
                source, reading, vars
  <2>2. Covers(entries, stack, roots, selection, tree)'
    BY <2>1 DEF Account
  <2>3. QED
    BY <2>1, <2>2 DEF Account
<1>7. QED
  BY <1>1, <1>2, <1>3, <1>4, <1>5, <1>6 DEF Next, Capture

LEMMA RootFacts ==
    ASSUME Walk, Account, NEW i \in DOMAIN roots
    PROVE  i \in DOMAIN selection /\ roots[i] \in Label /\ selection[i] \in Paths
<1>1. roots \in Seq(Label) /\ selection \in Seq(TreePaths) /\ Len(roots) <= Len(selection)
  BY SourceFacts, RootsAreLabels DEF Account
<1>2. i \in 1 .. Len(roots) /\ i \in 1 .. Len(selection) /\ DOMAIN selection = 1 .. Len(selection)
  BY <1>1, LenProperties
<1>3. roots[i] \in Label /\ selection[i] \in TreePaths
  BY <1>1, <1>2, ElementOfSeq
<1>4. QED
  BY <1>2, <1>3, NamesLabel

\* Once everything is visited every place of the selection has its entry.
LEMMA EntryOf ==
    ASSUME Walk, Account, stage = "sent", NEW i \in DOMAIN roots, NEW p \in DOMAIN tree,
           IsPrefix(selection[i], p)
    PROVE  \E k \in DOMAIN entries :
              /\ entries[k].relative = At(roots[i], selection[i], p)
              /\ entries[k].path = Text(At(roots[i], selection[i], p))
<1>1. Covers(entries, <<>>, roots, selection, tree)
  BY DEF Walk, Account
<1>2. DOMAIN <<>> = {}
  OBVIOUS
<1>3. QED
  BY <1>1, <1>2 DEF Covers, Walk

\* What the folders of an entry are called in the bundle, entries are.
LEMMA FoldersAreEntries ==
    ASSUME Walk, NEW k \in DOMAIN entries, NEW q \in Above(entries[k].path)
    PROVE  \E j \in DOMAIN entries : entries[j].path = q
<1>1. entries[k].relative \in Paths /\ entries[k].path = Text(entries[k].relative)
  BY DEF Walk, Walked, Rooted
<1>2. PICK s \in Above(entries[k].relative) : q = Text(s)
  BY <1>1, TextAbove
<1>3. PICK j \in DOMAIN entries : entries[j].relative = s
  BY <1>2 DEF Walk, Walked, HasEntry
<1>4. QED
  BY <1>2, <1>3 DEF Walk

\* Neither pass puts anything anywhere else.
LEMMA WrittenOnly ==
    ASSUME Sender, Walk, OnlyEntries, next \in DOMAIN entries, NEW body
    PROVE  \A q \in DOMAIN Written(body) : \E k \in DOMAIN entries : entries[k].path = q
<1>1. Here.kind \in Kind /\ Here.path = entries[next].path
  BY DEF Sender, InOrder, Here
<1>2. \A q \in DOMAIN Written(body) : \/ q \in DOMAIN disk \/ q \in Above(Here.path)
                                      \/ q = Here.path
  BY <1>1 DEF Written, MakeDirs, Put, Kind
<1>3. QED
  BY <1>1, <1>2, FoldersAreEntries DEF OnlyEntries

LEMMA FinishedOnly ==
    ASSUME Walk, OnlyEntries, NEW i \in DOMAIN entries
    PROVE  \A q \in DOMAIN Finished(entries[i]) : \E k \in DOMAIN entries : entries[k].path = q
<1>1. \A q \in DOMAIN Finished(entries[i]) :
         q \in DOMAIN disk \/ q \in Above(entries[i].path) \/ q = entries[i].path
  BY DEF Finished, MakeDirs, Put
<1>2. QED
  BY <1>1, FoldersAreEntries DEF OnlyEntries

LEMMA DecodeOnly ==
    ASSUME IInv, Walk, OnlyEntries, Decode \/ DecodeFails \/ Restart
    PROVE  cut' \/ OnlyEntries'
<1>1. UNCHANGED <<source, reading>> /\ entries' = entries /\ Len(entries) \in Nat
      /\ DOMAIN entries = 1 .. Len(entries)
  BY LengthOf DEF IInv, Sender, Decode, Receive, WriteEntry, AllWritten, FinishEntry,
     Materialized, DecodeFails, Restart, reading
<1>2. pc # "idle" => stage = "sent" /\ next \in 1 .. Len(entries) + 1
  BY DEF IInv, Receiver
<1>3. CASE Receive \/ AllWritten \/ Materialized
  BY <1>1, <1>3 DEF Receive, AllWritten, Materialized, OnlyEntries
<1>4. CASE WriteEntry
  <2>1. next \in DOMAIN entries /\ stage = "sent"
    BY <1>1, <1>2, <1>4 DEF WriteEntry
  <2>2. CASE CanWrite
    BY <1>1, <1>4, <2>1, <2>2, WrittenOnly DEF WriteEntry, OnlyEntries, IInv
  <2>3. CASE ~CanWrite
    BY <1>4, <2>3 DEF WriteEntry, Refused
  <2>4. QED
    BY <2>2, <2>3
<1>5. CASE FinishEntry
  <2>1. Order(next) \in DOMAIN entries /\ stage = "sent"
    BY <1>1, <1>2, <1>5 DEF FinishEntry, Order
  <2>2. CASE CanFinish
    BY <1>1, <1>5, <2>1, <2>2, FinishedOnly DEF FinishEntry, Finishing, OnlyEntries
  <2>3. CASE ~CanFinish
    BY <1>5, <2>3 DEF FinishEntry, Refused
  <2>4. QED
    BY <2>2, <2>3
<1>6. CASE DecodeFails \/ Restart
  <2>1. disk' = disk \/ cut'
    BY <1>6 DEF DecodeFails, Restart, Stops
  <2>2. QED
    BY <1>1, <2>1 DEF OnlyEntries
<1>7. QED
  BY <1>3, <1>4, <1>5, <1>6 DEF Decode

LEMMA NextKept == ASSUME IInv, Walk, Kept, [Next]_vars PROVE Kept'
<1>1. edits' \in Nat /\ (edits' = 0 => edits = 0)
  <2>1. edits' \in {edits, edits + 1}
    BY DEF Next, Capture, Decode, NextSource, Inspect, Collect, CollectFails, Encode, EncodeFails,
           CaptureAgain, Receive, WriteEntry, AllWritten, FinishEntry, Materialized,
           DecodeFails, Restart, Edit, Edits, source, vars
  <2>2. QED
    BY <2>1 DEF Kept
<1>2. edits' = 0 => Account'
  BY <1>1, NextAccount DEF Kept
<1>3. CASE Capture \/ Edit
  <2>1. stage # "sent" /\ UNCHANGED decoding
    BY <1>3 DEF Capture, Edit, Edits, NextSource, Inspect, Collect, CollectFails, Collected,
           Encode, EncodeFails, CaptureAgain
  <2>2. DOMAIN disk' = {}
    BY <2>1 DEF Kept, decoding
  <2>3. QED
    BY <1>1, <1>2, <2>2 DEF Kept, OnlyEntries
<1>4. CASE Decode \/ DecodeFails \/ Restart
  <2>1. stage = "sent" /\ stage' = stage /\ cut \in BOOLEAN /\ (cut => cut')
    BY <1>4 DEF IInv, Receiver, Decode, Receive, WriteEntry, AllWritten, FinishEntry, Goes, Refused,
                Materialized, DecodeFails, Restart, Stops, reading
  <2>2. edits' = 0 => cut' \/ OnlyEntries'
    <3>1. CASE cut
      BY <2>1, <3>1
    <3>2. CASE ~cut
      BY <1>1, <1>4, <3>2, DecodeOnly DEF Kept
    <3>3. QED
      BY <3>1, <3>2
  <2>3. QED
    BY <1>1, <1>2, <2>1, <2>2 DEF Kept
<1>5. CASE UNCHANGED vars
  BY <1>1, <1>2, <1>5 DEF Kept, OnlyEntries, vars, source, reading, decoding
<1>6. QED
  BY <1>3, <1>4, <1>5 DEF Next

\* Whatever is selected, in whatever tree: if nobody changes it while it is read, what a
\* materialization that ran to its end hands on is all of the selection and nothing else,
\* with contents, targets and permissions, under its names as relative_to_string converts
\* them, and no two files have come together by that (encode, decode).
THEOREM Arrives == Spec => []Preserved
<1>1. ASSUME IInv, Walk, Kept PROVE Preserved
  <2> SUFFICES ASSUME outcome = "ok", ~cut, edits = 0
               PROVE  /\ DOMAIN disk = {Place(s[1], s[2]) : s \in Selected}
                      /\ \A s \in Selected : disk[Place(s[1], s[2])] = tree[s[2]]
                      /\ \A s, r \in Selected : Place(s[1], s[2]) = Place(r[1], r[2]) => s = r
    BY DEF Preserved
  <2>1. stage = "sent" /\ Distinct /\ \A k \in DOMAIN entries : Final(disk, entries[k])
    BY <1>1 DEF IInv, Receiver, Layout, Valid, Distinct
  <2>2. Account /\ OnlyEntries
    BY <1>1 DEF Kept
  <2>3. DOMAIN roots = DOMAIN selection
    <3>1. roots \in Seq(Label) /\ selection \in Seq(TreePaths) /\ Len(roots) = Len(selection)
      BY <1>1, <2>1, <2>2, SourceFacts, RootsAreLabels DEF Account
    <3>2. QED
      BY <3>1, LenProperties
  <2>4. \A s \in Selected : /\ s[1] \in DOMAIN roots /\ s[2] \in DOMAIN tree
                            /\ IsPrefix(selection[s[1]], s[2]) /\ s = <<s[1], s[2]>>
    BY <2>3 DEF Selected
  <2>5. \A i \in DOMAIN roots, p \in DOMAIN tree : IsPrefix(selection[i], p) =>
           /\ <<i, p>> \in Selected /\ <<i, p>>[1] = i /\ <<i, p>>[2] = p
    BY <2>3 DEF Selected
  <2>6. \A i, p : Place(i, p) = Text(At(roots[i], selection[i], p))
    BY DEF Place, At
  <2>7. \A i \in DOMAIN roots : roots[i] \in Label /\ selection[i] \in Paths
    BY <1>1, <2>2, RootFacts
  <2>8. \A p \in DOMAIN tree : p \in Paths
    BY <2>2, SourceFacts, UpIsThere, NamesLabel
  <2>9. ASSUME NEW i \in DOMAIN roots, NEW p \in DOMAIN tree, IsPrefix(selection[i], p),
               NEW j \in DOMAIN roots, NEW q \in DOMAIN tree, IsPrefix(selection[j], q),
               Place(i, p) = Place(j, q)
        PROVE  i = j /\ p = q
    <3> DEFINE a == At(roots[i], selection[i], p)  b == At(roots[j], selection[j], q)
    <3>1. PICK k \in DOMAIN entries : entries[k].relative = a /\ entries[k].path = Text(a)
      BY <1>1, <2>1, <2>2, <2>9, EntryOf
    <3>2. PICK l \in DOMAIN entries : entries[l].relative = b /\ entries[l].path = Text(b)
      BY <1>1, <2>1, <2>2, <2>9, EntryOf
    <3>3. a = b
      <4>1. Text(a) = Text(b)
        BY <2>6, <2>9
      <4> HIDE DEF a, b
      <4>2. QED
        BY <2>1, <3>1, <3>2, <4>1 DEF Distinct
    <3>4. a[1] = roots[i] /\ b[1] = roots[j]
      BY <2>7, <2>8, <2>9, AtMeans
    <3>5. i = j
      <4> HIDE DEF a, b
      <4>1. QED
        BY <2>2, <3>3, <3>4 DEF Account
    <3>6. p = q
      BY <2>7, <2>8, <2>9, <3>3, <3>5, AtDiffers
    <3>7. QED
      BY <3>5, <3>6
  <2>10. ASSUME NEW k \in DOMAIN entries
         PROVE  \E i \in DOMAIN roots, p \in DOMAIN tree :
                   /\ IsPrefix(selection[i], p) /\ entries[k].path = Place(i, p)
                   /\ disk[Place(i, p)] = tree[p]
    <3>1. PICK i \in DOMAIN roots, p \in DOMAIN tree :
             /\ IsPrefix(selection[i], p) /\ entries[k].path = Text(At(roots[i], selection[i], p))
             /\ Same(entries[k], tree[p])
      BY <1>1, <2>2 DEF Account, Covers, Walk
    <3>2. disk[entries[k].path] = tree[p]
      BY <2>1, <3>1 DEF Final, Same
    <3>3. QED
      BY <2>6, <3>1, <3>2
  <2>11. ASSUME NEW i \in DOMAIN roots, NEW p \in DOMAIN tree, IsPrefix(selection[i], p)
         PROVE  Place(i, p) \in DOMAIN disk /\ disk[Place(i, p)] = tree[p]
    <3>1. PICK k \in DOMAIN entries : entries[k].path = Place(i, p)
      BY <1>1, <2>1, <2>2, <2>6, <2>11, EntryOf
    <3>2. PICK j \in DOMAIN roots, q \in DOMAIN tree :
                   /\ IsPrefix(selection[j], q) /\ entries[k].path = Place(j, q)
                   /\ disk[Place(j, q)] = tree[q]
      BY <2>10
    <3>3. i = j /\ p = q
      BY <2>9, <2>11, <3>1, <3>2
    <3>4. QED
      BY <2>1, <3>1, <3>2, <3>3 DEF Final
  <2>12. DOMAIN disk = {Place(s[1], s[2]) : s \in Selected}
    <3>1. ASSUME NEW q \in DOMAIN disk PROVE \E s \in Selected : q = Place(s[1], s[2])
      <4>1. PICK k \in DOMAIN entries : entries[k].path = q
        BY <2>2 DEF OnlyEntries
      <4>2. PICK i \in DOMAIN roots, p \in DOMAIN tree :
               IsPrefix(selection[i], p) /\ entries[k].path = Place(i, p)
        BY <2>10
      <4>3. /\ <<i, p>> \in Selected /\ q = Place(i, p)
            /\ Place(<<i, p>>[1], <<i, p>>[2]) = Place(i, p)
        BY <2>5, <4>1, <4>2
      <4>4. QED
        BY <4>3
    <3>2. \A s \in Selected : Place(s[1], s[2]) \in DOMAIN disk
      BY <2>4, <2>11
    <3>3. QED
      BY <3>1, <3>2
  <2>13. QED
    BY <2>4, <2>9, <2>11, <2>12
<1>2. QED
  BY <1>1, InitOk, NextKeeps, InitWalk, NextWalk, InitKept, NextKept, PTL DEF Spec

-----------------------------------------------------------------------------
(* Nothing but a fault stops the receiver.                                 *)

\* Folders come before what is in them.
TopFirst(es) == \A i, j \in DOMAIN es : es[i].relative \in Above(es[j].relative) => i < j

\* What t has is of the entries ks, or a directory above an entry.
MadeFor(t, ks) ==
    \A q \in DOMAIN t :
        \/ \E k \in ks : entries[k].path = q
        \/ t[q].kind = "dir" /\ \E k \in DOMAIN entries : q \in Above(entries[k].path)

\* It has the permissions of new files unless it is of the entries ks.
FreshBut(t, ks) == \A q \in DOMAIN t : t[q].mode = Fresh \/ \E k \in ks : entries[k].path = q

\* What the first pass has made, and the second.
WrittenOnes == {k \in 1 .. next - 1 : entries[k].kind # "link"}
FinishedOnes == Len(entries) + 2 - next .. Len(entries)
There == {k \in DOMAIN entries : entries[k].kind # "link"} \cup FinishedOnes

\* Nothing is in the way of what is still to be made, and no directory is closed yet that
\* something is still to be made in.
Unhindered ==
    /\ ~cut
    /\ outcome = "error" => stage = "sent" /\ ~Valid
    /\ made => seen
    /\ pc = "write" => MadeFor(disk, WrittenOnes) /\ FreshBut(disk, {})
    /\ pc = "finish" => MadeFor(disk, There) /\ FreshBut(disk, FinishedOnes)

Smooth ==
    /\ faults \in Nat
    /\ ~made => DOMAIN disk = {}
    /\ TopFirst(entries)
    /\ faults = 0 => Unhindered

LEMMA InitSmooth == ASSUME Init PROVE Smooth
<1>1. TopFirst(<<>>)
  <2>1. DOMAIN <<>> = {}
    OBVIOUS
  <2>2. QED
    BY <2>1 DEF TopFirst
<1>2. QED
  BY <1>1 DEF Init, Smooth, Unhindered

LEMMA CollectTopFirst == ASSUME Sender, Walk, TopFirst(entries), Collect PROVE TopFirst(entries')
<1> DEFINE e == [relative |-> Head(stack).relative, path |-> Text(Head(stack).relative),
                 kind |-> looked.kind, size |-> SizeOf(looked),
                 mode |-> looked.mode, body |-> tree[Head(stack).source].body]
           as == Append(entries, e)
           n == Len(entries) + 1
<1>1. entries' = as /\ stack # <<>> /\ Head(stack) = stack[1] /\ 1 \in DOMAIN stack
  <2>1. entries' = as /\ stack # <<>> /\ IsSequence(stack)
    BY DEF Collect, Walk
  <2>2. Head(stack) = stack[1] /\ Len(Tail(stack)) = Len(stack) - 1 /\ IsSequence(Tail(stack))
    BY <2>1, Rest
  <2>3. Len(stack) \in Nat /\ Len(Tail(stack)) \in Nat /\ DOMAIN stack = 1 .. Len(stack)
    BY <2>1, <2>2, LengthOf
  <2>4. QED
    BY <2>1, <2>2, <2>3
<1>2. e.relative = stack[1].relative
  BY <1>1
<1> HIDE DEF e
<1>3. /\ DOMAIN as = 1 .. n /\ as[n] = e /\ \A i \in 1 .. Len(entries) : as[i] = entries[i]
      /\ Len(entries) \in Nat /\ DOMAIN entries = 1 .. Len(entries)
  BY AppendGrows, LengthOf DEF Sender
<1>4. /\ e.relative \in Paths
      /\ \A i \in DOMAIN entries : entries[i].relative \in Paths /\ ~IsPrefix(e.relative, entries[i].relative)
  BY <1>1, <1>2 DEF Walk, Walked, Rooted
<1>5. e.relative \notin Above(e.relative) /\ \A i \in DOMAIN entries : e.relative \notin Above(entries[i].relative)
  BY <1>4, AboveMeans
<1> HIDE DEF as
<1>6. \A i \in DOMAIN as : \/ i = n /\ as[i] = e
                           \/ i \in DOMAIN entries /\ i < n /\ as[i] = entries[i]
  <2>1. \A i \in 1 .. n : i = n \/ (i \in 1 .. Len(entries) /\ i < n)
    BY <1>3
  <2>2. QED
    BY <1>3, <2>1
<1>7. ASSUME NEW i \in DOMAIN as, NEW j \in DOMAIN as, as[i].relative \in Above(as[j].relative)
      PROVE  i < j
  <2>1. CASE i = n
    BY <1>3, <1>5, <1>6, <1>7, <2>1
  <2>2. CASE i # n /\ j = n
    BY <1>6, <2>2
  <2>3. CASE i # n /\ j # n
    <3>1. /\ i \in DOMAIN entries /\ j \in DOMAIN entries /\ as[i] = entries[i] /\ as[j] = entries[j]
      BY <1>6, <2>3
    <3>2. QED
      BY <1>7, <3>1 DEF TopFirst
  <2>4. QED
    BY <2>1, <2>2, <2>3
<1>8. TopFirst(as)
  BY <1>7 DEF TopFirst
<1>9. QED
  BY <1>1, <1>8

\* What is above an entry is a directory, and an entry that has not been made yet has
\* nothing in its place but a directory that it needs.
LEMMA RoomFor ==
    ASSUME Valid, NEW t, NEW ks, ks \subseteq DOMAIN entries, MadeFor(t, ks),
           \A k \in ks : t[entries[k].path].kind = entries[k].kind,
           NEW n \in DOMAIN entries, n \notin ks
    PROVE  /\ AreDirs(t, Above(entries[n].path))
           /\ entries[n].kind # "dir" => entries[n].path \notin DOMAIN t
           /\ entries[n].kind = "dir" => AreDirs(t, Above(entries[n].path) \cup {entries[n].path})
<1>1. ASSUME NEW q \in DOMAIN t, q \in Above(entries[n].path) PROVE t[q].kind = "dir"
  BY <1>1 DEF Valid, MadeFor
<1>2. ASSUME entries[n].path \in DOMAIN t
      PROVE  t[entries[n].path].kind = "dir" /\ entries[n].kind = "dir"
  BY <1>2 DEF Valid, MadeFor
<1>3. QED
  BY <1>1, <1>2 DEF AreDirs

LEMMA PassWrites ==
    ASSUME IInv, Valid, Unhindered, pc = "write", next \in DOMAIN entries
    PROVE  /\ CanWrite
           /\ MadeFor(Written(Here.body), {k \in 1 .. next : entries[k].kind # "link"})
           /\ FreshBut(Written(Here.body), {})
<1> DEFINE t == Written(Here.body)
           ks == {k \in 1 .. next : entries[k].kind # "link"}
<1>1. /\ Len(entries) \in Nat /\ DOMAIN entries = 1 .. Len(entries) /\ next \in 1 .. Len(entries)
      /\ Here = entries[next] /\ Here.kind \in Kind
  BY LengthOf DEF IInv, Sender, Here, InOrder
<1>2. MadeFor(disk, WrittenOnes) /\ FreshBut(disk, {})
  BY DEF Unhindered
<1>3. /\ WrittenOnes \subseteq DOMAIN entries /\ next \notin WrittenOnes
      /\ \A k \in WrittenOnes : disk[entries[k].path].kind = entries[k].kind
  BY <1>1 DEF WrittenOnes, IInv, Layout, Laid
<1>4. /\ AreDirs(disk, Above(Here.path))
      /\ Here.kind # "dir" => Here.path \notin DOMAIN disk
      /\ Here.kind = "dir" => AreDirs(disk, Above(Here.path) \cup {Here.path})
  BY <1>1, <1>2, <1>3, RoomFor
<1>5. \A q \in DOMAIN disk : disk[q].mode # ReadOnly
  BY <1>2, FileBundleAssumption DEF FreshBut
<1>6. CanWrite
  BY <1>1, <1>4, <1>5 DEF CanWrite, CanCreate, Kind
<1>7. WrittenOnes \subseteq ks /\ (Here.kind # "link" => next \in ks)
  BY <1>1 DEF WrittenOnes
<1>8. ASSUME NEW q \in DOMAIN t
      PROVE  \/ q \in DOMAIN disk /\ t[q] = disk[q]
             \/ q \in Above(Here.path) /\ t[q].kind = "dir" /\ t[q].mode = Fresh
             \/ q = Here.path /\ t[q].mode = Fresh /\ Here.kind # "link"
  BY <1>1, <1>4 DEF Written, MakeDirs, Put, Directory, Kind
<1> HIDE DEF t, ks
<1>9. MadeFor(t, ks)
  BY <1>1, <1>2, <1>7, <1>8 DEF MadeFor
<1>10. FreshBut(t, {})
  BY <1>2, <1>8 DEF FreshBut
<1>11. QED
  BY <1>6, <1>9, <1>10 DEF t, ks

LEMMA PassFinishes ==
    ASSUME IInv, Walk, Valid, TopFirst(entries), Unhindered, pc = "finish", next \in DOMAIN entries
    PROVE  LET done == Len(entries) + 1 - next .. Len(entries)
           IN  /\ CanFinish
               /\ MadeFor(Finished(Finishing),
                          {k \in DOMAIN entries : entries[k].kind # "link"} \cup done)
               /\ FreshBut(Finished(Finishing), done)
<1> DEFINE n == Order(next)
           t == Finished(Finishing)
           done == Len(entries) + 1 - next .. Len(entries)
           ks == {k \in DOMAIN entries : entries[k].kind # "link"} \cup done
<1>1. /\ Len(entries) \in Nat /\ DOMAIN entries = 1 .. Len(entries) /\ next \in 1 .. Len(entries)
      /\ n \in DOMAIN entries /\ n = Len(entries) + 1 - next
      /\ Finishing = entries[n] /\ Finishing.kind \in Kind
  BY LengthOf DEF IInv, Sender, Finishing, Order, InOrder
<1>2. MadeFor(disk, There) /\ FreshBut(disk, FinishedOnes)
  BY DEF Unhindered
<1>3. /\ There \subseteq DOMAIN entries /\ FinishedOnes \subseteq done /\ There \subseteq ks
      /\ n \in done /\ n \in ks /\ n \notin FinishedOnes
  BY <1>1 DEF There, FinishedOnes
<1>4. \A k \in There : disk[entries[k].path].kind = entries[k].kind
  <2> SUFFICES ASSUME NEW k \in There PROVE disk[entries[k].path].kind = entries[k].kind
    OBVIOUS
  <2>1. CASE k \in FinishedOnes
    <3>1. Final(disk, entries[k])
      BY <2>1 DEF FinishedOnes, IInv, Layout
    <3>2. QED
      BY <3>1 DEF Final
  <2>2. CASE k \notin FinishedOnes
    <3>1. k \in 1 .. Len(entries) + 1 - next /\ entries[k].kind # "link"
      BY <1>1, <1>3, <2>2 DEF There, FinishedOnes
    <3>2. QED
      BY <3>1 DEF IInv, Layout, Laid
  <2>3. QED
    BY <2>1, <2>2
<1>5. \A q \in Above(Finishing.path) \cap DOMAIN disk : disk[q].mode # ReadOnly
  <2> SUFFICES ASSUME NEW q \in Above(Finishing.path) \cap DOMAIN disk, disk[q].mode = ReadOnly
               PROVE  FALSE
    OBVIOUS
  <2>1. PICK k \in FinishedOnes : entries[k].path = q
    BY <1>2, FileBundleAssumption DEF FreshBut
  <2>2. k \in DOMAIN entries /\ n < k
    BY <1>1, <1>3 DEF FinishedOnes, There
  <2>3. k < n
    <3>1. ~NamesMerge /\ entries[k].path \in Above(entries[n].path)
      BY <1>1, <2>1 DEF Valid, NamesMerge
    <3>2. entries[k].relative \in Above(entries[n].relative)
      BY <1>1, <2>2, <3>1, UnderPath
    <3>3. QED
      BY <1>1, <2>2, <3>2 DEF TopFirst
  <2>4. QED
    BY <1>1, <2>2, <2>3
<1> HIDE DEF n, done, ks
<1>6. Finishing.kind = "link" => /\ AreDirs(disk, Above(Finishing.path))
                                 /\ Finishing.path \notin DOMAIN disk
  <2>1. Finishing.kind = "link" => n \notin There
    BY <1>1, <1>3 DEF There
  <2>2. QED
    BY <1>1, <1>2, <1>3, <1>4, <2>1, RoomFor
<1>7. Finishing.kind # "link" => Finishing.path \in DOMAIN disk
  <2>1. n \in 1 .. Len(entries) + 1 - next
    BY <1>1
  <2>2. QED
    BY <1>1, <2>1 DEF IInv, Layout, Laid
<1>8. CanFinish
  BY <1>5, <1>6, <1>7 DEF CanFinish, CanCreate
<1>9. ASSUME NEW q \in DOMAIN t
      PROVE  \/ q \in DOMAIN disk /\ t[q].kind = disk[q].kind /\ t[q].mode = disk[q].mode
             \/ q \in Above(Finishing.path) /\ t[q].kind = "dir" /\ t[q].mode = Fresh
             \/ q = Finishing.path
  <2>1. CASE Finishing.kind = "link"
    BY <2>1 DEF Finished, MakeDirs, Put, Directory
  <2>2. CASE Finishing.kind # "link"
    BY <1>7, <2>2 DEF Finished
  <2>3. QED
    BY <2>1, <2>2
<1> HIDE DEF t
<1>10. MadeFor(t, ks)
  <2> SUFFICES ASSUME NEW q \in DOMAIN t
               PROVE  \/ \E k \in ks : entries[k].path = q
                      \/ t[q].kind = "dir" /\ \E k \in DOMAIN entries : q \in Above(entries[k].path)
    BY DEF MadeFor
  <2>1. CASE q \in DOMAIN disk /\ t[q].kind = disk[q].kind
    BY <1>2, <1>3, <2>1 DEF MadeFor
  <2>2. CASE q \in Above(Finishing.path) /\ t[q].kind = "dir"
    BY <1>1, <2>2
  <2>3. CASE q = Finishing.path
    BY <1>1, <1>3, <2>3
  <2>4. QED
    BY <1>9, <2>1, <2>2, <2>3
<1>11. FreshBut(t, done)
  BY <1>1, <1>2, <1>3, <1>9 DEF FreshBut
<1>12. QED
  BY <1>8, <1>10, <1>11 DEF t, ks, done

LEMMA DecodeSmooth == ASSUME IInv, Walk, Smooth, faults = 0, Decode PROVE Unhindered'
<1>1. /\ stage = "sent" /\ Unhindered /\ TopFirst(entries)
      /\ UNCHANGED reading /\ entries' = entries
      /\ Len(entries) \in Nat /\ DOMAIN entries = 1 .. Len(entries)
  BY LengthOf DEF IInv, Sender, Receiver, Smooth, Decode, Receive, WriteEntry, AllWritten,
     FinishEntry, Materialized, reading
<1>2. (Valid' <=> Valid) /\ stage' = stage /\ (pc # "idle" => Valid)
  BY <1>1, ValidStays DEF IInv, Receiver, reading
<1>3. CASE Receive
  <2>1. ~made /\ DOMAIN disk = {} /\ pc = "idle"
    BY <1>1, <1>3 DEF Receive, Unhindered, Smooth, IInv, Receiver
  <2>2. CASE Valid
    <3>1. /\ pc' = "write" /\ disk' = disk /\ UNCHANGED <<outcome, cut>> /\ seen'
      BY <1>3, <2>1, <2>2 DEF Receive
    <3>2. QED
      BY <1>1, <1>2, <2>1, <3>1 DEF Unhindered, MadeFor, FreshBut
  <2>3. CASE ~Valid
    <3>1. pc' = "idle" /\ outcome' = "error" /\ UNCHANGED <<cut, made>>
      BY <1>3, <2>3 DEF Receive, Ends
    <3>2. QED
      BY <1>1, <1>2, <2>1, <2>3, <3>1 DEF Unhindered
  <2>4. QED
    BY <2>2, <2>3
<1>4. CASE WriteEntry
  <2>1. next \in DOMAIN entries /\ pc = "write"
    BY <1>1, <1>4 DEF WriteEntry, IInv, Receiver
  <2>2. /\ CanWrite
        /\ MadeFor(Written(Here.body), {k \in 1 .. next : entries[k].kind # "link"})
        /\ FreshBut(Written(Here.body), {})
    BY <1>1, <1>2, <2>1, PassWrites
  <2>3. /\ disk' = Written(Here.body) /\ next' = next + 1 /\ pc' = "write"
        /\ UNCHANGED <<cut, outcome, made, seen>>
    BY <1>4, <2>1, <2>2 DEF WriteEntry, Goes
  <2>4. WrittenOnes' = {k \in 1 .. next : entries[k].kind # "link"}
    BY <1>1, <2>1, <2>3 DEF WrittenOnes
  <2>5. MadeFor(disk, WrittenOnes)' /\ FreshBut(disk, {})'
    BY <1>1, <2>2, <2>3, <2>4 DEF MadeFor, FreshBut
  <2>6. QED
    BY <1>1, <1>2, <2>3, <2>5 DEF Unhindered
<1>5. CASE AllWritten
  <2>1. /\ pc = "write" /\ next > Len(entries) /\ pc' = "finish" /\ next' = 1
        /\ UNCHANGED <<disk, outcome, cut, made, seen>>
    BY <1>5 DEF AllWritten
  <2>2. WrittenOnes \subseteq There'
    <3>1. next = Len(entries) + 1
      BY <1>1, <2>1 DEF IInv, Receiver
    <3>2. QED
      BY <1>1, <3>1 DEF WrittenOnes, There
  <2>3. MadeFor(disk, There)' /\ FreshBut(disk, FinishedOnes)'
    BY <1>1, <2>1, <2>2 DEF Unhindered, MadeFor, FreshBut
  <2>4. QED
    BY <1>1, <1>2, <2>1, <2>3 DEF Unhindered
<1>6. CASE FinishEntry
  <2>1. next \in DOMAIN entries /\ pc = "finish"
    BY <1>1, <1>6 DEF FinishEntry, IInv, Receiver
  <2> DEFINE done == Len(entries) + 1 - next .. Len(entries)
  <2>2. /\ CanFinish
        /\ MadeFor(Finished(Finishing), {k \in DOMAIN entries : entries[k].kind # "link"} \cup done)
        /\ FreshBut(Finished(Finishing), done)
    BY <1>1, <1>2, <2>1, PassFinishes
  <2>3. /\ disk' = Finished(Finishing) /\ next' = next + 1 /\ pc' = "finish"
        /\ UNCHANGED <<cut, outcome, made, seen>>
    BY <1>6, <2>1, <2>2 DEF FinishEntry, Goes
  <2>4. /\ FinishedOnes' = done
        /\ There' = {k \in DOMAIN entries : entries[k].kind # "link"} \cup done
    BY <1>1, <2>1, <2>3 DEF FinishedOnes, There
  <2>5. MadeFor(disk, There)' /\ FreshBut(disk, FinishedOnes)'
    BY <1>1, <2>2, <2>3, <2>4 DEF MadeFor, FreshBut
  <2>6. QED
    BY <1>1, <1>2, <2>3, <2>5 DEF Unhindered
<1>7. CASE Materialized
  <2>1. \A k \in DOMAIN entries : entries[k].path \in DOMAIN disk
    <3>1. pc = "finish" /\ next = Len(entries) + 1
      BY <1>1, <1>7 DEF Materialized, IInv, Receiver
    <3>2. \A k \in DOMAIN entries : k \in Len(entries) + 2 - next .. Len(entries)
      BY <1>1, <3>1
    <3>3. QED
      BY <3>1, <3>2 DEF IInv, Layout, Final
  <2>2. HasRoots(disk)
    BY <1>2, <1>7, <2>1 DEF Valid, HasRoots, Materialized
  <2>3. QED
    BY <1>1, <1>2, <1>7, <2>2 DEF Materialized, Ends, Unhindered
<1>8. QED
  BY <1>3, <1>4, <1>5, <1>6, <1>7 DEF Decode

LEMMA NextSmooth == ASSUME IInv, Walk, Smooth, [Next]_vars PROVE Smooth'
<1>1. faults' \in Nat /\ (faults' = 0 => faults = 0)
  <2>1. faults' \in {faults, faults + 1}
    BY DEF Next, Capture, Decode, NextSource, Inspect, Collect, CollectFails, Encode, EncodeFails,
           CaptureAgain, Receive, WriteEntry, AllWritten, FinishEntry, Materialized,
           DecodeFails, Restart, Edit, Edits, vars
  <2>2. QED
    BY <2>1 DEF Smooth
<1>2. CASE Capture \/ Edit
  <2>1. stage # "sent" /\ UNCHANGED decoding /\ pc = "idle"
    BY <1>2 DEF Capture, Edit, Edits, NextSource, Inspect, Collect, CollectFails, Collected,
           Encode, EncodeFails, CaptureAgain, IInv, Receiver
  <2>2. TopFirst(entries')
    <3>1. CASE Collect
      BY <3>1, CollectTopFirst DEF IInv, Smooth
    <3>2. CASE CaptureAgain
      <4>1. entries' = <<>> /\ DOMAIN <<>> = {}
        BY <3>2 DEF CaptureAgain
      <4>2. QED
        BY <4>1 DEF TopFirst
    <3>3. CASE entries' = entries
      BY <3>3 DEF Smooth
    <3>4. QED
      BY <1>2, <3>1, <3>2, <3>3 DEF Capture, Edit, Edits, NextSource, Inspect, CollectFails,
         Encode, EncodeFails, reading
  <2>3. Unhindered => Unhindered'
    BY <2>1 DEF Unhindered, decoding, IInv, Receiver
  <2>4. QED
    BY <1>1, <2>1, <2>2, <2>3 DEF Smooth, decoding
<1>3. CASE Decode \/ DecodeFails \/ Restart
  <2>1. entries' = entries
    BY <1>3 DEF Decode, Receive, WriteEntry, AllWritten, FinishEntry, Materialized,
                DecodeFails, Restart, reading
  <2>2. ~made' => DOMAIN disk' = {}
    <3>1. CASE pc = "idle"
      BY <1>3, <3>1 DEF Smooth, Decode, Receive, WriteEntry, AllWritten, FinishEntry, Materialized,
                DecodeFails, Restart, Stops
    <3>2. CASE pc # "idle"
      BY <1>3, <3>2 DEF IInv, Receiver, Decode, Receive, WriteEntry, AllWritten, FinishEntry,
                Materialized, DecodeFails, Restart
    <3>3. QED
      BY <3>1, <3>2
  <2>3. faults' = 0 => Unhindered'
    <3>1. CASE Decode
      BY <1>1, <3>1, DecodeSmooth
    <3>2. CASE DecodeFails \/ Restart
      BY <3>2 DEF DecodeFails, Restart, Smooth
    <3>3. QED
      BY <1>3, <3>1, <3>2
  <2>4. QED
    BY <1>1, <2>1, <2>2, <2>3 DEF Smooth
<1>4. CASE UNCHANGED vars
  <2>1. Unhindered => Unhindered'
    BY <1>4, ValidStays DEF vars, reading, decoding, Unhindered, MadeFor, FreshBut, WrittenOnes,
                There, FinishedOnes
  <2>2. QED
    BY <1>1, <1>4, <2>1 DEF vars, reading, decoding, Smooth
<1>5. QED
  BY <1>2, <1>3, <1>4 DEF Next

StopsForCause ==
    /\ cut => faults > 0
    /\ outcome = "error" => faults > 0 \/ TooLong \/ NamesMerge

\* Whatever bundle a sender made, and however its files changed meanwhile: what decode
\* stops in the middle of, it was made to by a failure of the receiver, never by what it has
\* laid out itself: a file in the way of another, a directory that was closed before
\* everything was in it.  What it refuses it was made to by a failure, or by a manifest or by
\* names that encode should not have sent.  That it also comes to its end is Materializes.
THEOREM NothingRefused == Spec => []StopsForCause
<1>1. IInv /\ Walk /\ Smooth => StopsForCause
  <2>1. IInv /\ Walk /\ stage = "sent" /\ ~Valid => TooLong \/ NamesMerge
    BY WalkIsValid
  <2>2. QED
    BY <2>1 DEF Smooth, Unhindered, StopsForCause
<1>2. QED
  BY <1>1, InitOk, NextKeeps, InitWalk, NextWalk, InitSmooth, NextSmooth, PTL DEF Spec

=============================================================================
