---------------------------- MODULE UpdateGossip ----------------------------
(***************************************************************************)
(* How daemons tell each other of a release (src/daemon.rs, serve_peer and *)
(* notify_updates; src/update.rs, run_auto_updates and reconcile): every   *)
(* daemon keeps the newest release it knows of in a watch channel and in   *)
(* update.json, puts it in its hello, and announces it when it changes; a  *)
(* peer that hears of a version newer than its own asks npm itself.        *)
(*                                                                         *)
(* A connection is two ends; each end sends its hello, reads the other's,  *)
(* and then has a task that reads and one that writes.  The files that an  *)
(* installation replaces are the subject of UpdateInstall.                 *)
(***************************************************************************)
EXTENDS Naturals, Sequences

CONSTANTS
    Node,        \* machines
    Peers,       \* the machines each one has a connection with
    MaxVersion,  \* bound: releases, numbered in order
    MaxFaults,   \* bound: failed checks and installs, crashes, broken connections
    MaxInbox     \* bound: messages under way on one connection

ASSUME GossipAssumption ==
    /\ Peers \in [Node -> SUBSET Node]
    /\ \A n \in Node : n \notin Peers[n] /\ \A p \in Peers[n] : n \in Peers[p]
    /\ MaxVersion \in Nat \ {0}
    /\ MaxFaults \in Nat
    /\ MaxInbox \in Nat \ {0}

Version == 1 .. MaxVersion

VARIABLES
    latest,   \* npm's latest release
    version,  \* the release each daemon runs
    saved,    \* desired_version of update.json
    desired,  \* the watch channel with the newest release a daemon knows of
    wanted,   \* "yes" while a tick or a hint waits for the updater
    work,     \* where the updater stands
    found,    \* the release it found
    side,     \* a daemon's end of the connection with a peer
    inbox,    \* versions that a peer sent and a daemon has not read
    heard,    \* PeerLink.desired_version: the last version read, 0 when none
    unread,   \* "yes" while the writing task has not seen the channel change
    missed,   \* the channel changed between hello and subscription (history)
    spent,    \* the last check failed (history)
    faults    \* faults so far

updaters == <<wanted, work, found, spent>>
links == <<side, inbox, heard, unread, missed>>
vars == <<latest, version, saved, desired, updaters, links, faults>>

AtEnds(x) == [n \in Node |-> [p \in Peers[n] |-> x]]

Init ==
    /\ latest = 1
    /\ version = [n \in Node |-> 1]
    /\ saved = [n \in Node |-> 1]
    /\ desired = [n \in Node |-> 1]
    /\ wanted = [n \in Node |-> "yes"]
    /\ work = [n \in Node |-> "idle"]
    /\ found = [n \in Node |-> 1]
    /\ side = AtEnds("down")
    /\ inbox = AtEnds(<<>>)
    /\ heard = AtEnds(0)
    /\ unread = AtEnds("no")
    /\ missed = AtEnds("no")
    /\ spent = [n \in Node |-> "no"]
    /\ faults = 0

Newer(v, w) == IF v > w THEN v ELSE w

Fault == faults < MaxFaults /\ faults' = faults + 1

\* The given ends of connections are gone.
CutLinks(ends) ==
    LET Reset(link, x) ==
          [n \in Node |-> [p \in Peers[n] |-> IF <<n, p>> \in ends THEN x ELSE link[n][p]]]
    IN  /\ side' = Reset(side, "down")
        /\ inbox' = Reset(inbox, <<>>)
        /\ heard' = Reset(heard, 0)
        /\ unread' = Reset(unread, "no")
        /\ missed' = Reset(missed, "no")

-----------------------------------------------------------------------------
(* Updater.                                                                *)

Release ==
    /\ latest < MaxVersion
    /\ latest' = latest + 1
    /\ UNCHANGED <<version, saved, desired, updaters, links, faults>>

\* A quarter of an hour has passed.
Tick(n) ==
    /\ wanted[n] = "no"
    /\ wanted' = [wanted EXCEPT ![n] = "yes"]
    /\ UNCHANGED <<latest, version, saved, desired, work, found, spent, links, faults>>

LookUp(n) ==
    /\ wanted[n] = "yes"
    /\ work[n] = "idle"
    /\ wanted' = [wanted EXCEPT ![n] = "no"]
    /\ spent' = [spent EXCEPT ![n] = "no"]
    /\ IF latest > version[n]
       THEN /\ work' = [work EXCEPT ![n] = "found"]
            /\ found' = [found EXCEPT ![n] = latest]
       ELSE UNCHANGED <<work, found>>
    /\ UNCHANGED <<latest, version, saved, desired, links, faults>>

\* npm does not answer: what asked for the check is gone with it.
LookUpFails(n) ==
    /\ Fault
    /\ wanted[n] = "yes"
    /\ work[n] = "idle"
    /\ wanted' = [wanted EXCEPT ![n] = "no"]
    /\ spent' = [spent EXCEPT ![n] = "yes"]
    /\ UNCHANGED <<latest, version, saved, desired, work, found, links>>

WorksOn(n, from, to) ==
    /\ work[n] = from
    /\ work' = [work EXCEPT ![n] = to]

PersistDesired(n) ==
    /\ WorksOn(n, "found", "saved")
    /\ saved' = [saved EXCEPT ![n] = found[n]]
    /\ UNCHANGED <<latest, version, desired, wanted, found, spent, links, faults>>

\* Mutant: the channel changes without waking the tasks that wait for it.
AdvanceQuietly(n) ==
    /\ WorksOn(n, "saved", "installing")
    /\ desired' = [desired EXCEPT ![n] = Newer(found[n], @)]
    /\ UNCHANGED <<latest, version, saved, wanted, found, spent, links, faults>>

\* send_if_modified wakes the writing task of every connection that is up; one
\* that is still in its handshake has not subscribed.
Advance(n) ==
    /\ WorksOn(n, "saved", "installing")
    /\ IF found[n] > desired[n]
       THEN /\ desired' = [desired EXCEPT ![n] = found[n]]
            /\ unread' = [unread EXCEPT ![n] =
                 [p \in Peers[n] |-> IF side[n][p] = "up" THEN "yes" ELSE "no"]]
            /\ missed' = [missed EXCEPT ![n] =
                 [p \in Peers[n] |-> IF side[n][p] = "greeting" THEN "yes" ELSE @[p]]]
       ELSE UNCHANGED <<desired, unread, missed>>
    /\ UNCHANGED <<latest, version, saved, wanted, found, spent, side, inbox, heard, faults>>

\* Download, verification or installation fails.
InstallFails(n) ==
    /\ Fault
    /\ WorksOn(n, "installing", "idle")
    /\ UNCHANGED <<latest, version, saved, desired, wanted, found, spent, links>>

\* Mutant: a daemon starts with its own version as the newest it knows of.
InitialCurrent(n, v) == v

InitialDesired(n, v) == Newer(saved[n], v)

\* A daemon of version v starts: its first tick is due at once.
Starts(n, v) ==
    /\ version' = [version EXCEPT ![n] = v]
    /\ desired' = [desired EXCEPT ![n] = InitialDesired(n, v)]
    /\ wanted' = [wanted EXCEPT ![n] = "yes"]
    /\ work' = [work EXCEPT ![n] = "idle"]
    /\ spent' = [spent EXCEPT ![n] = "no"]
    /\ CutLinks({e \in Node \X Node : n \in {e[1], e[2]}})
    /\ UNCHANGED <<latest, saved, found>>

\* The service is restarted with the release.
Installed(n) ==
    /\ work[n] = "installing"
    /\ Starts(n, found[n])
    /\ UNCHANGED faults

Crash(n) == Fault /\ Starts(n, version[n])

\* Mutant: a value that is the same as before wakes nobody.
NotifyIfModified(n) ==
    /\ wanted' = [wanted EXCEPT ![n] = "yes"]
    /\ UNCHANGED <<latest, version, saved, desired, work, found, spent, links, faults>>

\* The user asks for a check: the channel is sent its own value again.
NotifyUpdates(n) ==
    /\ wanted' = [wanted EXCEPT ![n] = "yes"]
    /\ unread' = [unread EXCEPT ![n] =
         [p \in Peers[n] |-> IF side[n][p] = "up" THEN "yes" ELSE "no"]]
    /\ UNCHANGED <<latest, version, saved, desired, work, found, spent, side, inbox, heard,
                   missed, faults>>

-----------------------------------------------------------------------------
(* Connections.                                                            *)

\* n's end of the connection with p borrows the channel and sends its hello.
Greet(n, p) ==
    /\ side[n][p] = "down"
    /\ side' = [side EXCEPT ![n][p] = "greeting"]
    /\ inbox' = [inbox EXCEPT ![p][n] = Append(@, desired[n])]
    /\ UNCHANGED <<latest, version, saved, desired, updaters, heard, unread, missed, faults>>

\* A version newer than its own makes a daemon check.
Hint(n, v) == wanted' = IF v > version[n] THEN [wanted EXCEPT ![n] = "yes"] ELSE wanted

Reads(n, p) ==
    /\ inbox[n][p] # <<>>
    /\ heard' = [heard EXCEPT ![n][p] = Head(inbox[n][p])]
    /\ inbox' = [inbox EXCEPT ![n][p] = Tail(@)]
    /\ Hint(n, Head(inbox[n][p]))

\* n reads p's hello and subscribes to the channel as it is now.
Meet(n, p) ==
    /\ side[n][p] = "greeting"
    /\ Reads(n, p)
    /\ side' = [side EXCEPT ![n][p] = "up"]
    /\ UNCHANGED <<latest, version, saved, desired, work, found, spent, unread, missed, faults>>

Hear(n, p) ==
    /\ side[n][p] = "up"
    /\ Reads(n, p)
    /\ UNCHANGED <<latest, version, saved, desired, work, found, spent, side, unread, missed,
                   faults>>

Announce(n, p) ==
    /\ side[n][p] = "up"
    /\ unread[n][p] = "yes"
    /\ Len(inbox[p][n]) < MaxInbox
    /\ unread' = [unread EXCEPT ![n][p] = "no"]
    /\ missed' = [missed EXCEPT ![n][p] = "no"]
    /\ inbox' = [inbox EXCEPT ![p][n] = Append(@, desired[n])]
    /\ UNCHANGED <<latest, version, saved, desired, updaters, side, heard, faults>>

Disconnect(n, p) ==
    /\ Fault
    /\ side[n][p] # "down"
    /\ CutLinks({<<n, p>>, <<p, n>>})
    /\ UNCHANGED <<latest, version, saved, desired, updaters>>

-----------------------------------------------------------------------------

Update(n) == LookUp(n) \/ PersistDesired(n) \/ Advance(n) \/ Installed(n)

Converse(n, p) == Greet(n, p) \/ Meet(n, p) \/ Hear(n, p) \/ Announce(n, p)

Next ==
    \/ Release
    \/ \E n \in Node :
         \/ Tick(n) \/ Update(n) \/ LookUpFails(n) \/ InstallFails(n) \/ Crash(n)
         \/ NotifyUpdates(n)
         \/ \E p \in Peers[n] : Converse(n, p) \/ Disconnect(n, p)

Spec == Init /\ [][Next]_vars

\* Tasks run and connections come back; ticks, like releases, users and faults,
\* are owed to nobody, so that what spreads spreads by gossip.
FairSpec ==
    /\ Spec
    /\ \A n \in Node : WF_vars(Update(n))
    /\ \A n \in Node : \A p \in Peers[n] : WF_vars(Converse(n, p))

-----------------------------------------------------------------------------

YesNo == {"no", "yes"}

TypeOK ==
    /\ latest \in Version
    /\ {version, saved, desired, found} \subseteq [Node -> Version]
    /\ {wanted, spent} \subseteq [Node -> YesNo]
    /\ work \in [Node -> {"idle", "found", "saved", "installing"}]
    /\ \A n \in Node : \A p \in Peers[n] :
         /\ side[n][p] \in {"down", "greeting", "up"}
         /\ inbox[n][p] \in Seq(Version)
         /\ Len(inbox[n][p]) <= MaxInbox
         /\ heard[n][p] \in Version \cup {0}
         /\ unread[n][p] \in YesNo
         /\ missed[n][p] \in YesNo
    /\ faults \in 0 .. MaxFaults

-----------------------------------------------------------------------------
(* What the versions a daemon keeps have to do with each other; the proofs   *)
(* build on it.                                                              *)

VersionsInOrder ==
    \A n \in Node :
        /\ saved[n] <= latest
        /\ found[n] <= latest
        /\ desired[n] <= Newer(saved[n], version[n])
        /\ work[n] # "idle" => version[n] <= found[n] /\ saved[n] <= found[n]
        /\ work[n] \in {"saved", "installing"} => saved[n] = found[n]

-----------------------------------------------------------------------------

\* What p has heard of n, or will once it has read everything.
LastWord(n, p) ==
    IF inbox[p][n] = <<>> THEN heard[p][n] ELSE inbox[p][n][Len(inbox[p][n])]

\* Whatever crashes and reconnects, the last word a peer gets is the newest
\* release the daemon knows of, unless the handshake missed it.
LastWordIsDesired ==
    \A n \in Node : \A p \in Peers[n] :
        side[n][p] = "up" /\ unread[n][p] = "no" /\ missed[n][p] = "no"
          => LastWord(n, p) = desired[n]

\* The newest release a daemon knows of only advances: no crash at any step of
\* an update takes it back.
DesiredOnlyAdvances == [][\A n \in Node : desired'[n] >= desired[n]]_vars

\* What one daemon knows of, its peers learn of without their own ticks, unless
\* the handshake missed it or npm failed them.
DesireSpreads ==
    \A n \in Node : \A p \in Peers[n] : \A v \in Version :
        desired[n] = v ~> desired[p] >= v \/ missed[n][p] = "yes" \/ spent[p] = "yes"

=============================================================================
