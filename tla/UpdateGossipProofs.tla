------------------------- MODULE UpdateGossipProofs -------------------------
(* Proofs about UpdateGossip, and about Monitor over it, for any machines    *)
(* and connections between them, and every number of releases and faults:    *)
(* first what the daemons tell each other, then what they do about it.       *)
EXTENDS Monitor, TLAPS

Versions ==
    /\ latest \in Version
    /\ version \in [Node -> Version]
    /\ saved \in [Node -> Version]
    /\ desired \in [Node -> Version]
    /\ found \in [Node -> Version]
    /\ work \in [Node -> {"idle", "found", "saved", "installing"}]

IInv == Versions /\ VersionsInOrder

LEMMA InvInit == Init => IInv
BY GossipAssumption DEF Init, IInv, Versions, VersionsInOrder, Version, Newer

LEMMA NewerOfTwo ==
    \A v, w \in Version : Newer(v, w) \in Version /\ v <= Newer(v, w) /\ w <= Newer(v, w)
BY GossipAssumption DEF Version, Newer

\* A daemon that starts, with its old version or the one it installed, knows of
\* no older release than before.
LEMMA StartKeeps ==
    ASSUME IInv, NEW n \in Node, NEW v \in Version, Starts(n, v),
           v = version[n] \/ (work[n] = "installing" /\ v = found[n])
    PROVE  IInv' /\ desired'[n] >= desired[n]
<1>1. desired' = [desired EXCEPT ![n] = Newer(saved[n], v)]
  BY DEF Starts, InitialDesired
<1>2. Newer(saved[n], v) \in Version
  BY NewerOfTwo DEF IInv, Versions
<1>3. Newer(saved[n], version[n]) <= Newer(saved[n], v)
  BY GossipAssumption DEF IInv, Versions, VersionsInOrder, Version, Newer
<1>4. Versions'
  BY <1>1, <1>2 DEF IInv, Versions, Starts
<1>5. VersionsInOrder'
  BY <1>1, <1>2, GossipAssumption DEF IInv, Versions, VersionsInOrder, Version, Starts, Newer
<1>6. desired'[n] >= desired[n]
  <2>1. desired[n] <= Newer(saved[n], version[n])
    BY DEF IInv, VersionsInOrder
  <2>2. desired'[n] = Newer(saved[n], v)
    BY <1>1 DEF IInv, Versions
  <2>3. /\ desired[n] \in Nat
        /\ Newer(saved[n], version[n]) \in Nat
        /\ Newer(saved[n], v) \in Nat
    <3>1. Newer(saved[n], version[n]) \in Version
      BY NewerOfTwo DEF IInv, Versions
    <3>2. Version \subseteq Nat
      BY DEF Version
    <3>3. QED
      BY <1>2, <3>1, <3>2 DEF IInv, Versions
  <2>4. QED
    BY <1>3, <2>1, <2>2, <2>3
<1>7. QED
  BY <1>4, <1>5, <1>6 DEF IInv

LEMMA Step ==
    ASSUME IInv, [Next]_vars
    PROVE  IInv' /\ \A m \in Node : desired'[m] >= desired[m]
<1> DEFINE Goal == IInv' /\ \A m \in Node : desired'[m] >= desired[m]
<1> USE GossipAssumption DEF IInv, Versions, VersionsInOrder, Version, Newer
<1>1. ASSUME UNCHANGED <<latest, version, saved, desired, found, work>> PROVE Goal
  BY <1>1
<1>2. ASSUME Release PROVE Goal
  BY <1>2 DEF Release, updaters
<1>3. ASSUME NEW n \in Node, LookUp(n) PROVE Goal
  BY <1>3 DEF LookUp
<1>4. ASSUME NEW n \in Node, PersistDesired(n) PROVE Goal
  <2>1. Versions' /\ (\A m \in Node : desired'[m] = desired[m])
    BY <1>4 DEF PersistDesired, WorksOn
  <2>2. saved[n] <= found[n] /\ found[n] <= latest
    BY <1>4 DEF PersistDesired, WorksOn
  <2>3. VersionsInOrder'
    BY <1>4, <2>2 DEF PersistDesired, WorksOn
  <2>4. QED
    BY <2>1, <2>3
<1>5. ASSUME NEW n \in Node, Advance(n) PROVE Goal
  BY <1>5 DEF Advance, WorksOn
<1>6. ASSUME NEW n \in Node, InstallFails(n) PROVE Goal
  BY <1>6 DEF InstallFails, WorksOn
<1>7. ASSUME NEW n \in Node, NEW v \in Version, Starts(n, v),
             v = version[n] \/ (work[n] = "installing" /\ v = found[n])
      PROVE  Goal
  <2>1. IInv' /\ desired'[n] >= desired[n]
    BY <1>7, StartKeeps
  <2>2. \A m \in Node \ {n} : desired'[m] = desired[m]
    BY <1>7 DEF Starts
  <2>3. QED
    BY <2>1, <2>2
<1>8. ASSUME NEW n \in Node, Installed(n) \/ Crash(n) PROVE Goal
  BY <1>7, <1>8 DEF Installed, Crash
<1>9. ASSUME NEW n \in Node, Tick(n) \/ LookUpFails(n) \/ NotifyUpdates(n) PROVE Goal
  BY <1>1, <1>9 DEF Tick, LookUpFails, NotifyUpdates
<1>10. ASSUME NEW n \in Node, NEW p \in Peers[n], Converse(n, p) \/ Disconnect(n, p) PROVE Goal
  BY <1>1, <1>10 DEF Converse, Greet, Meet, Hear, Announce, Disconnect, updaters
<1>11. CASE UNCHANGED vars
  BY <1>1, <1>11 DEF vars, updaters
<1>12. QED
  BY <1>2, <1>3, <1>4, <1>5, <1>6, <1>8, <1>9, <1>10, <1>11 DEF Next, Update

\* Whatever crashes, failed installations and restarts, the newest release a
\* daemon knows of never goes back.
THEOREM VersionsAdvance == Spec => DesiredOnlyAdvances
<1>1. IInv /\ [Next]_vars => IInv'
  BY Step
<1>2. IInv /\ [Next]_vars => [\A n \in Node : desired'[n] >= desired[n]]_vars
  BY Step
<1>3. Spec => []IInv
  BY InvInit, <1>1, PTL DEF Spec
<1>4. QED
  BY <1>2, <1>3, PTL DEF Spec, DesiredOnlyAdvances

-----------------------------------------------------------------------------
(* Connections.  What is kept at both ends of them is a function of the two    *)
(* machines.                                                                   *)

IsLink(link, S) ==
    /\ DOMAIN link = Node
    /\ \A n \in Node : link[n] \in [Peers[n] -> S]

Inboxes == {q \in Seq(Version) : Len(q) <= MaxInbox}

Links ==
    /\ IsLink(side, {"down", "greeting", "up"})
    /\ IsLink(inbox, Inboxes)
    /\ IsLink(heard, Version \cup {0})
    /\ IsLink(unread, YesNo)
    /\ IsLink(missed, YesNo)

\* What a daemon has told a peer at each stage of their connection.
ToldInOrder ==
    \A n \in Node : \A p \in Peers[n] :
        /\ side[n][p] = "down" => LastWord(n, p) = 0 /\ inbox[p][n] = <<>> /\ missed[n][p] = "no"
        /\ side[n][p] # "up" => unread[n][p] = "no"
        /\ side[n][p] = "up" => side[p][n] # "down"
        /\ side[n][p] # "down" /\ unread[n][p] = "no" /\ missed[n][p] = "no"
             => LastWord(n, p) = desired[n]

TInv == Links /\ ToldInOrder

LEMMA PeersBothWays ==
    ASSUME NEW n \in Node, NEW p \in Peers[n]
    PROVE  p \in Node /\ n \in Peers[p] /\ n # p
BY GossipAssumption

LEMMA EmptyInbox == <<>> \in Inboxes
BY GossipAssumption DEF Inboxes

LEMMA TInit == Init => TInv
<1> SUFFICES ASSUME Init PROVE TInv
  OBVIOUS
<1>1. Links
  BY EmptyInbox DEF Init, AtEnds, Links, IsLink, YesNo
<1>2. ToldInOrder
  BY PeersBothWays DEF Init, AtEnds, ToldInOrder, LastWord
<1>3. QED
  BY <1>1, <1>2 DEF TInv

LEMMA Appended ==
    ASSUME NEW q \in Seq(Version), NEW v \in Version
    PROVE  LET next == Append(q, v) IN
           /\ next \in Seq(Version)
           /\ Len(next) = Len(q) + 1
           /\ next # <<>>
           /\ next[Len(next)] = v
OBVIOUS

\* Reading moves a word from the inbox to what was heard: the last word of both
\* together stays the same.
LEMMA WordRead ==
    ASSUME NEW q \in Inboxes, q # <<>>
    PROVE  /\ Head(q) \in Version
           /\ Tail(q) \in Inboxes
           /\ Tail(q) = <<>> => Head(q) = q[Len(q)]
           /\ Tail(q) # <<>> => Tail(q)[Len(Tail(q))] = q[Len(q)]
<1>1. q \in Seq(Version) /\ Len(q) \in Nat /\ Len(q) > 0 /\ Len(q) <= MaxInbox
  BY DEF Inboxes
<1>2. Head(q) \in Version /\ Tail(q) \in Seq(Version) /\ Len(Tail(q)) = Len(q) - 1
  BY <1>1
<1>3. Tail(q) \in Inboxes
  BY <1>1, <1>2, GossipAssumption DEF Inboxes
<1>4. ASSUME Tail(q) = <<>> PROVE Head(q) = q[Len(q)]
  <2>1. Len(q) - 1 = 0
    BY <1>2, <1>4
  <2>2. Len(q) = 1
    <3> HIDE <1>4
    <3>1. QED
      BY <1>1, <2>1
  <2>3. QED
    BY <1>1, <2>2
<1>5. ASSUME Tail(q) # <<>> PROVE Tail(q)[Len(Tail(q))] = q[Len(q)]
  BY <1>1, <1>2, <1>5
<1>6. QED
  BY <1>2, <1>3, <1>4, <1>5

\* Nothing is left of a connection that is cut at both ends.
LEMMA CutKeeps ==
    ASSUME TInv, NEW ends, CutLinks(ends),
           \A n \in Node : \A p \in Peers[n] : <<n, p>> \in ends <=> <<p, n>> \in ends,
           \A n \in Node : \A p \in Peers[n] : <<n, p>> \in ends \/ desired'[n] = desired[n]
    PROVE  TInv'
<1>1. Links'
  BY EmptyInbox DEF TInv, Links, IsLink, CutLinks, YesNo
<1>2. ASSUME NEW n \in Node, NEW p \in Peers[n]
      PROVE  /\ side'[n][p] = IF <<n, p>> \in ends THEN "down" ELSE side[n][p]
             /\ inbox'[n][p] = IF <<n, p>> \in ends THEN <<>> ELSE inbox[n][p]
             /\ heard'[n][p] = IF <<n, p>> \in ends THEN 0 ELSE heard[n][p]
             /\ unread'[n][p] = IF <<n, p>> \in ends THEN "no" ELSE unread[n][p]
             /\ missed'[n][p] = IF <<n, p>> \in ends THEN "no" ELSE missed[n][p]
  BY DEF CutLinks
<1>3. ToldInOrder'
  <2> SUFFICES ASSUME NEW n \in Node, NEW p \in Peers[n]
               PROVE  (/\ side[n][p] = "down"
                          => LastWord(n, p) = 0 /\ inbox[p][n] = <<>> /\ missed[n][p] = "no"
                       /\ side[n][p] # "up" => unread[n][p] = "no"
                       /\ side[n][p] = "up" => side[p][n] # "down"
                       /\ side[n][p] # "down" /\ unread[n][p] = "no" /\ missed[n][p] = "no"
                            => LastWord(n, p) = desired[n])'
    BY DEF ToldInOrder
  <2>1. p \in Node /\ n \in Peers[p]
    BY PeersBothWays
  <2>2. CASE <<n, p>> \in ends
    BY <1>2, <2>1, <2>2 DEF LastWord
  <2>3. CASE <<n, p>> \notin ends
    <3>0. <<p, n>> \notin ends /\ desired'[n] = desired[n]
      BY <2>3
    <3>1. /\ side'[n][p] = side[n][p] /\ side'[p][n] = side[p][n]
          /\ inbox'[p][n] = inbox[p][n] /\ heard'[p][n] = heard[p][n]
          /\ unread'[n][p] = unread[n][p] /\ missed'[n][p] = missed[n][p]
      BY <1>2, <2>1, <2>3, <3>0
    <3>2. LastWord(n, p)' = LastWord(n, p)
      BY <3>1 DEF LastWord
    <3>3. QED
      BY <2>1, <3>0, <3>1, <3>2 DEF TInv, ToldInOrder
  <2>4. QED
    BY <2>2, <2>3
<1>4. QED
  BY <1>1, <1>3 DEF TInv

\* A daemon that changes what it knows of, or says that it did, has its writing
\* tasks see to it.
LEMMA WakingKeeps ==
    ASSUME IInv, TInv, NEW n \in Node, Advance(n) \/ NotifyUpdates(n)
    PROVE  TInv'
<1> DEFINE awake == [p \in Peers[n] |-> IF side[n][p] = "up" THEN "yes" ELSE "no"]
<1> DEFINE late == [p \in Peers[n] |-> IF side[n][p] = "greeting" THEN "yes" ELSE missed[n][p]]
<1>1. awake \in [Peers[n] -> YesNo] /\ late \in [Peers[n] -> YesNo]
  BY DEF TInv, Links, IsLink, YesNo
<1>5. \A q \in Peers[n] :
        /\ awake[q] = IF side[n][q] = "up" THEN "yes" ELSE "no"
        /\ late[q] = IF side[n][q] = "greeting" THEN "yes" ELSE missed[n][q]
  OBVIOUS
<1>2. CASE UNCHANGED <<side, inbox, heard, unread, missed, desired>>
  BY <1>2 DEF TInv, Links, ToldInOrder, LastWord
<1>3. ASSUME /\ UNCHANGED <<side, inbox, heard>>
             /\ unread' = [unread EXCEPT ![n] = awake]
             /\ \/ missed' = [missed EXCEPT ![n] = late]
                \/ UNCHANGED <<missed, desired>>
             /\ \A m \in Node \ {n} : desired'[m] = desired[m]
      PROVE  TInv'
  <2> HIDE DEF awake, late
  <2>1. /\ IsLink(unread', YesNo)
        /\ \A m \in Node : \A q \in Peers[m] :
             unread'[m][q] = IF m = n THEN awake[q] ELSE unread[m][q]
    <3>1. IsLink(unread, YesNo)
      BY DEF TInv, Links
    <3>2. QED
      BY <1>1, <1>3, <3>1 DEF IsLink
  <2>2. /\ IsLink(missed', YesNo)
        /\ \A m \in Node \ {n} : \A q \in Peers[m] : missed'[m][q] = missed[m][q]
        /\ \A q \in Peers[n] :
             \/ missed'[n][q] = late[q]
             \/ missed'[n][q] = missed[n][q] /\ desired'[n] = desired[n]
    <3>1. IsLink(missed, YesNo)
      BY DEF TInv, Links
    <3>2. CASE missed' = [missed EXCEPT ![n] = late]
      BY <1>1, <3>1, <3>2 DEF IsLink
    <3>3. CASE UNCHANGED <<missed, desired>>
      BY <3>1, <3>3
    <3>4. QED
      BY <1>3, <3>2, <3>3
  <2>3. Links'
    BY <1>3, <2>1, <2>2 DEF TInv, Links
  <2>4. \A m \in Node : \A q \in Peers[m] : LastWord(m, q)' = LastWord(m, q)
    BY <1>3 DEF LastWord
  <2>5. ToldInOrder'
    <3> SUFFICES ASSUME NEW m \in Node, NEW q \in Peers[m]
                 PROVE  (/\ side[m][q] = "down"
                            => LastWord(m, q) = 0 /\ inbox[q][m] = <<>> /\ missed[m][q] = "no"
                         /\ side[m][q] # "up" => unread[m][q] = "no"
                         /\ side[m][q] = "up" => side[q][m] # "down"
                         /\ side[m][q] # "down" /\ unread[m][q] = "no" /\ missed[m][q] = "no"
                              => LastWord(m, q) = desired[m])'
      BY DEF ToldInOrder
    <3>1. CASE m # n
      <4>1. /\ unread'[m][q] = unread[m][q] /\ missed'[m][q] = missed[m][q]
            /\ desired'[m] = desired[m]
        BY <1>3, <2>1, <2>2, <3>1
      <4>2. q \in Node /\ m \in Peers[q]
        BY PeersBothWays
      <4>3. QED
        BY <1>3, <2>4, <4>1, <4>2 DEF TInv, ToldInOrder
    <3>2. CASE m = n
      <4>1. unread'[m][q] = IF side[m][q] = "up" THEN "yes" ELSE "no"
        BY <1>5, <2>1, <3>2
      <4>2. \/ missed'[m][q] = IF side[m][q] = "greeting" THEN "yes" ELSE missed[m][q]
            \/ missed'[m][q] = missed[m][q] /\ desired'[m] = desired[m]
        BY <1>3, <1>5, <2>2, <3>2
      <4>3. side[m][q] \in {"down", "greeting", "up"}
        BY DEF TInv, Links, IsLink
      <4>4. QED
        BY <1>3, <2>4, <4>1, <4>2, <4>3 DEF TInv, ToldInOrder
    <3>3. QED
      BY <3>1, <3>2
  <2>6. QED
    BY <2>3, <2>5 DEF TInv
<1>4. QED
  <2>1. CASE Advance(n)
    <3>1. \A m \in Node \ {n} : desired'[m] = desired[m]
      BY <2>1 DEF Advance, IInv, Versions
    <3>2. QED
      BY <1>2, <1>3, <2>1, <3>1 DEF Advance
  <2>2. CASE NotifyUpdates(n)
    BY <1>3, <2>2 DEF NotifyUpdates
  <2>3. QED
    BY <2>1, <2>2

\* A word that a daemon sends is the newest release it knows of.
LEMMA SendKeeps ==
    ASSUME IInv, TInv, NEW n \in Node, NEW p \in Peers[n], Greet(n, p) \/ Announce(n, p)
    PROVE  TInv'
<1>1. p \in Node /\ n \in Peers[p] /\ n # p
  BY PeersBothWays
<1>2. inbox[p][n] \in Inboxes /\ desired[n] \in Version
  BY <1>1 DEF TInv, Links, IsLink, IInv, Versions
<1> DEFINE next == Append(inbox[p][n], desired[n])
<1>3. next \in Seq(Version) /\ Len(next) = Len(inbox[p][n]) + 1 /\ next # <<>>
      /\ next[Len(next)] = desired[n]
  BY <1>2, Appended DEF Inboxes
<1>4. next \in Inboxes
  <2>1. CASE Greet(n, p)
    <3>1. inbox[p][n] = <<>>
      BY <2>1 DEF Greet, TInv, ToldInOrder
    <3>2. Len(next) = 1
      BY <1>3, <3>1
    <3>3. QED
      BY <1>3, <3>2, GossipAssumption DEF Inboxes
  <2>2. CASE Announce(n, p)
    BY <1>2, <1>3, <2>2, GossipAssumption DEF Announce, Inboxes
  <2>3. QED
    BY <2>1, <2>2
<1>5. inbox' = [inbox EXCEPT ![p][n] = next] /\ heard' = heard /\ desired' = desired
  BY DEF Greet, Announce
<1> HIDE DEF next
<1>6. /\ IsLink(inbox', Inboxes)
      /\ \A m \in Node : \A q \in Peers[m] :
           inbox'[m][q] = IF m = p /\ q = n THEN next ELSE inbox[m][q]
  BY <1>1, <1>4, <1>5 DEF TInv, Links, IsLink
<1>7. /\ IsLink(side', {"down", "greeting", "up"})
      /\ \A m \in Node : \A q \in Peers[m] :
           side'[m][q] = IF m = n /\ q = p /\ Greet(n, p) THEN "greeting" ELSE side[m][q]
  <2>1. CASE Greet(n, p)
    BY <2>1 DEF TInv, Links, IsLink, Greet
  <2>2. CASE Announce(n, p) /\ ~Greet(n, p)
    BY <2>2 DEF TInv, Links, Announce
  <2>3. QED
    BY <2>1, <2>2
<1>8. /\ IsLink(unread', YesNo) /\ IsLink(missed', YesNo)
      /\ \A m \in Node : \A q \in Peers[m] :
           \/ unread'[m][q] = unread[m][q] /\ missed'[m][q] = missed[m][q]
           \/ /\ m = n /\ q = p /\ side[m][q] = "up"
              /\ unread'[m][q] = "no" /\ missed'[m][q] = "no"
  <2>1. CASE Greet(n, p)
    BY <2>1 DEF TInv, Links, Greet
  <2>2. CASE Announce(n, p)
    BY <2>2 DEF TInv, Links, IsLink, Announce, YesNo
  <2>3. QED
    BY <2>1, <2>2
<1>9. Links'
  BY <1>5, <1>6, <1>7, <1>8 DEF TInv, Links
<1>10. ToldInOrder'
  <2> SUFFICES ASSUME NEW m \in Node, NEW q \in Peers[m]
               PROVE  (/\ side[m][q] = "down"
                          => LastWord(m, q) = 0 /\ inbox[q][m] = <<>> /\ missed[m][q] = "no"
                       /\ side[m][q] # "up" => unread[m][q] = "no"
                       /\ side[m][q] = "up" => side[q][m] # "down"
                       /\ side[m][q] # "down" /\ unread[m][q] = "no" /\ missed[m][q] = "no"
                            => LastWord(m, q) = desired[m])'
    BY DEF ToldInOrder
  <2>1. q \in Node /\ m \in Peers[q] /\ m # q
    BY PeersBothWays
  <2>2. CASE m = n /\ q = p
    <3>1. LastWord(m, q)' = desired[n]
      BY <1>3, <1>5, <1>6, <2>1, <2>2 DEF LastWord
    <3>2. side'[m][q] # "down"
      BY <1>7, <2>2 DEF Greet, Announce
    <3>3. side'[m][q] # "up" => unread'[m][q] = "no"
      BY <1>7, <1>8, <2>2 DEF Greet, Announce, TInv, ToldInOrder
    <3>4. side'[m][q] = "up" => side'[q][m] # "down"
      <4>1. side'[q][m] = side[q][m]
        BY <1>7, <2>1, <2>2
      <4>2. side'[m][q] = "up" => side[m][q] = "up"
        BY <1>7
      <4>3. QED
        BY <4>1, <4>2 DEF TInv, ToldInOrder
    <3>5. QED
      BY <1>5, <2>2, <3>1, <3>2, <3>3, <3>4
  <2>3. CASE ~(m = n /\ q = p)
    <3>1. /\ side'[m][q] = side[m][q] /\ inbox'[q][m] = inbox[q][m]
          /\ side[q][m] # "down" => side'[q][m] # "down"
          /\ unread'[m][q] = unread[m][q] /\ missed'[m][q] = missed[m][q]
      BY <1>6, <1>7, <1>8, <2>1, <2>3
    <3>2. LastWord(m, q)' = LastWord(m, q)
      BY <1>5, <3>1 DEF LastWord
    <3>3. QED
      BY <1>5, <3>1, <3>2 DEF TInv, ToldInOrder
  <2>4. QED
    BY <2>2, <2>3
<1>11. QED
  BY <1>9, <1>10 DEF TInv

\* A word that is read was sent by a daemon whose end is up or being greeted.
LEMMA ReadKeeps ==
    ASSUME IInv, TInv, NEW n \in Node, NEW p \in Peers[n], Meet(n, p) \/ Hear(n, p)
    PROVE  TInv'
<1>1. p \in Node /\ n \in Peers[p] /\ n # p
  BY PeersBothWays
<1> DEFINE q0 == inbox[n][p]
<1>2. q0 \in Inboxes /\ q0 # <<>>
  BY DEF TInv, Links, IsLink, Meet, Hear, Reads
<1>3. /\ Head(q0) \in Version
      /\ Tail(q0) \in Inboxes
      /\ Tail(q0) = <<>> => Head(q0) = q0[Len(q0)]
      /\ Tail(q0) # <<>> => Tail(q0)[Len(Tail(q0))] = q0[Len(q0)]
  BY <1>2, WordRead
<1>4. /\ heard' = [heard EXCEPT ![n][p] = Head(q0)]
      /\ inbox' = [inbox EXCEPT ![n][p] = Tail(q0)]
      /\ UNCHANGED <<desired, unread, missed>>
  BY DEF Meet, Hear, Reads, TInv, Links, IsLink
<1>5. /\ IsLink(heard', Version \cup {0})
      /\ \A m \in Node : \A q \in Peers[m] :
           heard'[m][q] = IF m = n /\ q = p THEN Head(q0) ELSE heard[m][q]
  BY <1>3, <1>4 DEF TInv, Links, IsLink
<1>6. /\ IsLink(inbox', Inboxes)
      /\ \A m \in Node : \A q \in Peers[m] :
           inbox'[m][q] = IF m = n /\ q = p THEN Tail(q0) ELSE inbox[m][q]
  BY <1>3, <1>4 DEF TInv, Links, IsLink
<1>7. /\ IsLink(side', {"down", "greeting", "up"})
      /\ \A m \in Node : \A q \in Peers[m] :
           side'[m][q] = IF m = n /\ q = p THEN "up" ELSE side[m][q]
  BY DEF TInv, Links, IsLink, Meet, Hear
<1>8. side[n][p] # "down" /\ side[p][n] # "down"
  <2>1. side[n][p] # "down"
    BY DEF Meet, Hear
  <2>2. side[p][n] # "down"
    BY <1>1, <1>2 DEF TInv, ToldInOrder
  <2>3. QED
    BY <2>1, <2>2
<1>9. Links'
  BY <1>4, <1>5, <1>6, <1>7 DEF TInv, Links
<1>10. \A m \in Node : \A q \in Peers[m] : LastWord(m, q)' = LastWord(m, q)
  <2> SUFFICES ASSUME NEW m \in Node, NEW q \in Peers[m]
               PROVE  LastWord(m, q)' = LastWord(m, q)
    OBVIOUS
  <2>1. q \in Node /\ m \in Peers[q]
    BY PeersBothWays
  <2>2. CASE q = n /\ m = p
    <3>1. heard'[q][m] = Head(q0) /\ inbox'[q][m] = Tail(q0) /\ inbox[q][m] = q0
      BY <1>5, <1>6, <2>1, <2>2
    <3> HIDE DEF q0
    <3>2. QED
      BY <1>2, <1>3, <3>1 DEF LastWord
  <2>3. CASE ~(q = n /\ m = p)
    BY <1>5, <1>6, <2>1, <2>3 DEF LastWord
  <2>4. QED
    BY <2>2, <2>3
<1>11. ToldInOrder'
  <2> SUFFICES ASSUME NEW m \in Node, NEW q \in Peers[m]
               PROVE  (/\ side[m][q] = "down"
                          => LastWord(m, q) = 0 /\ inbox[q][m] = <<>> /\ missed[m][q] = "no"
                       /\ side[m][q] # "up" => unread[m][q] = "no"
                       /\ side[m][q] = "up" => side[q][m] # "down"
                       /\ side[m][q] # "down" /\ unread[m][q] = "no" /\ missed[m][q] = "no"
                            => LastWord(m, q) = desired[m])'
    BY DEF ToldInOrder
  <2>1. q \in Node /\ m \in Peers[q] /\ m # q
    BY PeersBothWays
  <2>2. CASE m = n /\ q = p
    <3>1. side'[m][q] = "up" /\ side'[q][m] = side[q][m]
      BY <1>7, <2>1, <2>2
    <3>2. QED
      BY <1>4, <1>8, <1>10, <2>2, <3>1 DEF TInv, ToldInOrder
  <2>3. CASE ~(m = n /\ q = p)
    <3>1. side'[m][q] = side[m][q] /\ (side[q][m] # "down" => side'[q][m] # "down")
      BY <1>7, <2>1, <2>3
    <3>2. side[m][q] = "down" => inbox'[q][m] = <<>>
      <4>1. CASE q = n /\ m = p
        BY <1>8, <4>1
      <4>2. CASE ~(q = n /\ m = p)
        BY <1>6, <2>1, <4>2 DEF TInv, ToldInOrder
      <4>3. QED
        BY <4>1, <4>2
    <3>3. QED
      BY <1>4, <1>10, <3>1, <3>2 DEF TInv, ToldInOrder
  <2>4. QED
    BY <2>2, <2>3
<1>12. QED
  BY <1>9, <1>11 DEF TInv

LEMMA Told ==
    ASSUME IInv, TInv, [Next]_vars
    PROVE  TInv'
<1>1. ASSUME UNCHANGED <<links, desired>> PROVE TInv'
  BY <1>1 DEF links, TInv, Links, ToldInOrder, LastWord
<1>2. ASSUME NEW n \in Node, NEW v \in Version, Starts(n, v) PROVE TInv'
  <2> DEFINE ends == {e \in Node \X Node : n \in {e[1], e[2]}}
  <2>1. CutLinks(ends)
    BY <1>2 DEF Starts
  <2>2. \A m \in Node : \A p \in Peers[m] : <<m, p>> \in ends <=> <<p, m>> \in ends
    BY PeersBothWays
  <2>3. \A m \in Node : \A p \in Peers[m] : <<m, p>> \in ends \/ desired'[m] = desired[m]
    BY <1>2, PeersBothWays DEF Starts, IInv, Versions
  <2> HIDE DEF ends
  <2>4. QED
    BY <2>1, <2>2, <2>3, CutKeeps
<1>3. ASSUME NEW n \in Node, NEW p \in Peers[n], Disconnect(n, p) PROVE TInv'
  <2> DEFINE ends == {<<n, p>>, <<p, n>>}
  <2>1. CutLinks(ends) /\ desired' = desired
    BY <1>3 DEF Disconnect
  <2>2. \A m \in Node : \A q \in Peers[m] : <<m, q>> \in ends <=> <<q, m>> \in ends
    OBVIOUS
  <2> HIDE DEF ends
  <2>3. QED
    BY <2>1, <2>2, CutKeeps
<1>4. ASSUME NEW n \in Node, Installed(n) \/ Crash(n) PROVE TInv'
  <2>1. version[n] \in Version /\ found[n] \in Version
    BY DEF IInv, Versions
  <2>2. QED
    BY <1>2, <1>4, <2>1 DEF Installed, Crash
<1>5. ASSUME NEW n \in Node, LookUp(n) \/ PersistDesired(n) \/ Tick(n) \/ LookUpFails(n) \/ InstallFails(n)
      PROVE  TInv'
  BY <1>1, <1>5 DEF LookUp, PersistDesired, Tick, LookUpFails, InstallFails
<1>6. CASE Release \/ UNCHANGED vars
  BY <1>1, <1>6 DEF Release, vars
<1>7. QED
  BY <1>3, <1>4, <1>5, <1>6, WakingKeeps, SendKeeps, ReadKeeps DEF Next, Update, Converse

\* After any crashes and reconnections, the last word a peer gets of a daemon is
\* the newest release that daemon knows of, unless the handshake missed it.
THEOREM LastWords == Spec => []LastWordIsDesired
<1>1. IInv /\ TInv /\ [Next]_vars => IInv' /\ TInv'
  BY Step, Told
<1>2. IInv /\ TInv => LastWordIsDesired
  BY DEF TInv, ToldInOrder, LastWordIsDesired
<1>3. QED
  BY InvInit, TInit, <1>1, <1>2, PTL DEF Spec

-----------------------------------------------------------------------------
(* What the daemons do about what they hear, and what a row then says. *)

\* A release that a daemon has heard of is one it checks for, has found, or has
\* already announced itself.
HintsInOrder ==
    \A n \in Node :
        /\ version[n] <= latest
        /\ work[n] # "idle" => version[n] < found[n]
        /\ work[n] = "installing" => found[n] <= desired[n]
        /\ work[n] = "idle" /\ wanted[n] = "no" /\ spent[n] = "no"
             => desired[n] > version[n] \/ \A p \in Peers[n] : heard[n][p] <= version[n]

\* Only releases are talked of.
WordsReleased ==
    \A n \in Node : \A p \in Peers[n] :
        /\ heard[n][p] <= latest
        /\ \A k \in 1 .. Len(inbox[n][p]) : inbox[n][p][k] <= latest

Hints ==
    /\ wanted \in [Node -> YesNo]
    /\ spent \in [Node -> YesNo]
    /\ HintsInOrder
    /\ WordsReleased

MInv == IInv /\ TInv /\ Hints

LEMMA HInit == Init => Hints
<1> SUFFICES ASSUME Init PROVE Hints
  OBVIOUS
<1>1. 1 \in Version /\ 0 <= 1 /\ Len(<<>>) = 0
  BY GossipAssumption DEF Version
<1>2. QED
  BY <1>1 DEF Init, AtEnds, Hints, HintsInOrder, WordsReleased, YesNo

\* The monitor changes what the daemons keep only by what they offer.
LEMMA MonitorSteps == [MonitorNext]_monitorVars => [Next]_vars
<1> SUFFICES ASSUME [MonitorNext]_monitorVars PROVE [Next]_vars
  OBVIOUS
<1>1. CASE PressU \/ UNCHANGED monitorVars
  BY <1>1 DEF PressU, monitorVars
<1>2. CASE Asks
  BY <1>2, WatchedAssumption DEF Asks, Next
<1>3. CASE Others
  BY <1>3 DEF Others, Next
<1>4. ASSUME NEW n \in Node, Updates(n) PROVE Next
  BY <1>4 DEF Updates, Next, Update
<1>5. ASSUME NEW n \in Node, Crash(n) PROVE Next
  BY <1>5 DEF Next
<1>6. ASSUME NEW n \in Node, NEW p \in Peers[n], Converses(n, p) PROVE Next
  BY <1>6 DEF Converses, Next
<1>7. QED
  BY <1>1, <1>2, <1>3, <1>4, <1>5, <1>6 DEF MonitorNext

LEMMA Explained == MInv => OutdatedExplained
<1> SUFFICES ASSUME MInv, NEW n \in Node, NEW p \in Peers[n],
                    RowState(Status(n), p) = "outdated",
                    missed[n][p] # "yes", missed[p][n] # "yes",
                    unread[n][p] # "yes", unread[p][n] # "yes",
                    inbox[n][p] = <<>>, inbox[p][n] = <<>>,
                    wanted[p] # "yes", work[p] \notin {"found", "saved"}, spent[p] # "yes"
             PROVE  FALSE
  BY DEF OutdatedExplained
<1>1. p \in Node /\ n \in Peers[p]
  BY PeersBothWays DEF MInv
<1>2. /\ missed[n][p] = "no" /\ missed[p][n] = "no" /\ unread[n][p] = "no" /\ unread[p][n] = "no"
      /\ wanted[p] = "no" /\ spent[p] = "no" /\ work[p] \in {"idle", "installing"}
  BY <1>1 DEF MInv, IInv, Versions, TInv, Links, IsLink, Hints, YesNo
<1>3. /\ version[p] \in Nat /\ desired[n] \in Nat /\ desired[p] \in Nat /\ found[p] \in Nat
      /\ heard[n][p] \in Nat /\ heard[p][n] \in Nat
  BY <1>1 DEF MInv, IInv, Versions, TInv, Links, IsLink, Version
<1>4. side[n][p] = "up"
  BY DEF RowState, Status
<1>5. UpdateState(version[p], heard[n][p], desired[n]) = "outdated"
  BY <1>4 DEF RowState, Status
<1>6. heard[n][p] <= version[p] /\ desired[n] > version[p]
  BY <1>3, <1>5 DEF UpdateState
<1>7. heard[p][n] = desired[n]
  BY <1>2, <1>4 DEF MInv, TInv, ToldInOrder, LastWord
<1>8. heard[n][p] = desired[p]
  <2>1. side[p][n] # "down"
    BY <1>4 DEF MInv, TInv, ToldInOrder
  <2>2. QED
    BY <1>1, <1>2, <2>1 DEF MInv, TInv, ToldInOrder, LastWord
<1>9. CASE work[p] = "idle"
  <2>1. desired[p] > version[p] \/ heard[p][n] <= version[p]
    BY <1>1, <1>2, <1>9 DEF MInv, Hints, HintsInOrder
  <2>2. QED
    BY <1>3, <1>6, <1>7, <1>8, <2>1
<1>10. CASE work[p] = "installing"
  <2>1. version[p] < found[p] /\ found[p] <= desired[p]
    BY <1>1, <1>10 DEF MInv, Hints, HintsInOrder
  <2>2. QED
    BY <1>3, <1>6, <1>8, <2>1
<1>11. QED
  BY <1>2, <1>9, <1>10

LEMMA WordTypes ==
    ASSUME TInv, NEW n \in Node, NEW p \in Peers[n]
    PROVE  /\ heard[n][p] \in Nat
           /\ inbox[n][p] \in Seq(Version)
           /\ \A k \in 1 .. Len(inbox[n][p]) : inbox[n][p][k] \in Nat
<1>1. inbox[n][p] \in Seq(Version) /\ heard[n][p] \in Version \cup {0}
  BY DEF TInv, Links, IsLink, Inboxes
<1>2. \A k \in 1 .. Len(inbox[n][p]) : inbox[n][p][k] \in Version
  BY <1>1
<1>3. QED
  BY <1>1, <1>2 DEF Version

\* A word that is not new was released before; one that is cut off is gone.
LEMMA OldWords ==
    ASSUME MInv, latest' >= latest, latest' \in Nat,
           \A n \in Node : \A p \in Peers[n] :
             \/ heard'[n][p] = 0 /\ inbox'[n][p] = <<>>
             \/ heard'[n][p] = heard[n][p] /\ inbox'[n][p] = inbox[n][p]
    PROVE  WordsReleased'
<1> SUFFICES ASSUME NEW n \in Node, NEW p \in Peers[n]
             PROVE  /\ heard'[n][p] <= latest'
                    /\ \A k \in 1 .. Len(inbox'[n][p]) : inbox'[n][p][k] <= latest'
  BY DEF WordsReleased
<1>1. CASE heard'[n][p] = 0 /\ inbox'[n][p] = <<>>
  BY <1>1
<1>2. CASE heard'[n][p] = heard[n][p] /\ inbox'[n][p] = inbox[n][p]
  <2>1. latest \in Nat
    BY DEF MInv, IInv, Versions, Version
  <2>2. heard[n][p] <= latest /\ \A k \in 1 .. Len(inbox[n][p]) : inbox[n][p][k] <= latest
    BY DEF MInv, Hints, WordsReleased
  <2>3. heard[n][p] \in Nat /\ \A k \in 1 .. Len(inbox[n][p]) : inbox[n][p][k] \in Nat
    BY WordTypes DEF MInv
  <2>4. heard[n][p] <= latest'
    BY <2>1, <2>2, <2>3
  <2>5. \A k \in 1 .. Len(inbox[n][p]) : inbox[n][p][k] <= latest'
    BY <2>1, <2>2, <2>3
  <2>6. QED
    BY <1>2, <2>4, <2>5
<1>3. QED
  BY <1>1, <1>2

LEMMA NewWords ==
    ASSUME MInv, NEW n \in Node, NEW p \in Peers[n], Converse(n, p)
    PROVE  WordsReleased'
<1> SUFFICES ASSUME NEW m \in Node, NEW q \in Peers[m]
             PROVE  /\ heard'[m][q] <= latest'
                    /\ \A k \in 1 .. Len(inbox'[m][q]) : inbox'[m][q][k] <= latest'
  BY DEF WordsReleased
<1>1. latest' = latest /\ latest \in Nat
  BY DEF Converse, Greet, Meet, Hear, Announce, MInv, IInv, Versions, Version
<1>2. p \in Node /\ n \in Peers[p] /\ n # p
  BY PeersBothWays
<1>3. /\ heard[m][q] <= latest
      /\ \A k \in 1 .. Len(inbox[m][q]) : inbox[m][q][k] <= latest
  BY DEF MInv, Hints, WordsReleased
<1>4. inbox[m][q] \in Seq(Version)
  BY WordTypes DEF MInv
<1>5. CASE Greet(n, p) \/ Announce(n, p)
  <2>1. heard' = heard /\ inbox' = [inbox EXCEPT ![p][n] = Append(inbox[p][n], desired[n])]
    BY <1>5 DEF Greet, Announce
  <2>2. desired[n] <= latest
    BY DEF MInv, IInv, Versions, VersionsInOrder, Version, Hints, HintsInOrder, Newer
  <2>3. CASE m = p /\ q = n
    <3>1. inbox'[m][q] = Append(inbox[m][q], desired[n])
      BY <1>2, <2>1, <2>3 DEF MInv, TInv, Links, IsLink
    <3>2. desired[n] \in Version
      BY DEF MInv, IInv, Versions
    <3>3. \A k \in 1 .. Len(inbox'[m][q]) :
            inbox'[m][q][k] = desired[n] \/ (k \in 1 .. Len(inbox[m][q]) /\ inbox'[m][q][k] = inbox[m][q][k])
      BY <1>4, <3>1, <3>2
    <3>4. QED
      BY <1>1, <1>3, <2>1, <2>2, <3>3
  <2>4. CASE ~(m = p /\ q = n)
    <3>1. inbox'[m][q] = inbox[m][q]
      BY <1>2, <2>1, <2>4 DEF MInv, TInv, Links, IsLink
    <3>2. QED
      BY <1>1, <1>3, <2>1, <3>1
  <2>5. QED
    BY <2>3, <2>4
<1>6. CASE Meet(n, p) \/ Hear(n, p)
  <2>1. /\ inbox[n][p] # <<>>
        /\ heard' = [heard EXCEPT ![n][p] = Head(inbox[n][p])]
        /\ inbox' = [inbox EXCEPT ![n][p] = Tail(inbox[n][p])]
    BY <1>6 DEF Meet, Hear, Reads
  <2>2. CASE m = n /\ q = p
    <3>1. heard'[m][q] = Head(inbox[m][q]) /\ inbox'[m][q] = Tail(inbox[m][q])
      BY <2>1, <2>2 DEF MInv, TInv, Links, IsLink
    <3>2. inbox[m][q] # <<>>
      BY <2>1, <2>2
    <3>3. 1 \in 1 .. Len(inbox[m][q]) /\ Head(inbox[m][q]) = inbox[m][q][1]
      BY <1>4, <3>2
    <3>4. \A k \in 1 .. Len(Tail(inbox[m][q])) :
            k + 1 \in 1 .. Len(inbox[m][q]) /\ Tail(inbox[m][q])[k] = inbox[m][q][k + 1]
      BY <1>4, <3>2
    <3>5. QED
      BY <1>1, <1>3, <3>1, <3>3, <3>4
  <2>3. CASE ~(m = n /\ q = p)
    <3>1. heard'[m][q] = heard[m][q] /\ inbox'[m][q] = inbox[m][q]
      BY <2>1, <2>3 DEF MInv, TInv, Links, IsLink
    <3>2. QED
      BY <1>1, <1>3, <3>1
  <2>4. QED
    BY <2>2, <2>3
<1>7. QED
  BY <1>5, <1>6 DEF Converse

LEMMA LatestGrows == [Next]_vars => latest' = latest \/ latest' = latest + 1
<1>1. CASE Release \/ UNCHANGED vars
  BY <1>1 DEF Release, vars
<1>2. ASSUME NEW n \in Node, Update(n) PROVE latest' = latest
  BY <1>2 DEF Update, LookUp, PersistDesired, Advance, Installed, Starts
<1>3. ASSUME NEW n \in Node,
             Tick(n) \/ LookUpFails(n) \/ InstallFails(n) \/ Crash(n) \/ NotifyUpdates(n)
      PROVE  latest' = latest
  BY <1>3 DEF Tick, LookUpFails, InstallFails, Crash, Starts, NotifyUpdates
<1>4. ASSUME NEW n \in Node, NEW p \in Peers[n], Converse(n, p) \/ Disconnect(n, p)
      PROVE  latest' = latest
  BY <1>4 DEF Converse, Greet, Meet, Hear, Announce, Disconnect
<1>5. QED
  BY <1>1, <1>2, <1>3, <1>4 DEF Next

LEMMA HintsKept ==
    ASSUME MInv, [Next]_vars
    PROVE  Hints'
<1> USE DEF MInv, IInv, Versions, Version
<1>0. /\ latest' >= latest /\ latest' \in Nat
      /\ \A n \in Node : \A p \in Peers[n] : heard[n][p] \in Nat
  <2>1. latest' = latest \/ latest' = latest + 1
    BY LatestGrows
  <2>2. \A n \in Node : \A p \in Peers[n] : heard[n][p] \in Nat
    BY WordTypes
  <2>3. QED
    BY <2>1, <2>2
<1>1. ASSUME UNCHANGED <<version, work, found, desired, heard, inbox, wanted, spent>>
      PROVE  Hints'
  BY <1>0, <1>1, OldWords DEF Hints, HintsInOrder
<1>3. ASSUME NEW n \in Node, LookUp(n) PROVE Hints'
  <2>1. WordsReleased'
    BY <1>0, <1>3, OldWords DEF LookUp, links
  <2>2. wanted' \in [Node -> YesNo] /\ spent' \in [Node -> YesNo]
    BY <1>3 DEF LookUp, Hints, YesNo
  <2>3. HintsInOrder'
    <3>1. \A p \in Peers[n] : heard[n][p] <= latest
      BY DEF Hints, WordsReleased
    <3>2. CASE latest > version[n]
      BY <1>3, <3>2 DEF LookUp, links, Hints, HintsInOrder
    <3>3. CASE ~(latest > version[n])
      BY <1>0, <1>3, <3>1, <3>3 DEF LookUp, links, Hints, HintsInOrder
    <3>4. QED
      BY <3>2, <3>3
  <2>4. QED
    BY <2>1, <2>2, <2>3 DEF Hints
<1>4. ASSUME NEW n \in Node, LookUpFails(n) PROVE Hints'
  BY <1>4, OldWords DEF LookUpFails, links, Hints, HintsInOrder, YesNo
<1>5. ASSUME NEW n \in Node, PersistDesired(n) PROVE Hints'
  BY <1>5, OldWords DEF PersistDesired, WorksOn, links, Hints, HintsInOrder
<1>6. ASSUME NEW n \in Node, Advance(n) PROVE Hints'
  BY <1>6, OldWords DEF Advance, WorksOn, Hints, HintsInOrder
<1>7. ASSUME NEW n \in Node, InstallFails(n) PROVE Hints'
  BY <1>7, OldWords DEF InstallFails, WorksOn, links, Hints, HintsInOrder
<1>8. ASSUME NEW n \in Node, Tick(n) \/ NotifyUpdates(n) PROVE Hints'
  <2>1. WordsReleased'
    BY <1>0, <1>8, OldWords DEF Tick, NotifyUpdates, links
  <2>2. HintsInOrder' /\ wanted' \in [Node -> YesNo] /\ spent' \in [Node -> YesNo]
    BY <1>8 DEF Tick, NotifyUpdates, links, Hints, HintsInOrder, YesNo
  <2>3. QED
    BY <2>1, <2>2 DEF Hints
<1>9. ASSUME NEW n \in Node, NEW v \in Version, Starts(n, v), v <= latest PROVE Hints'
  <2>1. \A m \in Node : \A p \in Peers[m] :
          \/ heard'[m][p] = 0 /\ inbox'[m][p] = <<>>
          \/ heard'[m][p] = heard[m][p] /\ inbox'[m][p] = inbox[m][p]
    BY <1>9 DEF Starts, CutLinks
  <2>2. WordsReleased'
    BY <1>0, <2>1, OldWords
  <2>3. HintsInOrder' /\ wanted' \in [Node -> YesNo] /\ spent' \in [Node -> YesNo]
    <3>1. wanted' \in [Node -> YesNo] /\ spent' \in [Node -> YesNo]
      BY <1>9 DEF Starts, Hints, YesNo
    <3>2. \A m \in Node : \A p \in Peers[m] :
            heard'[m][p] \in Nat /\ heard'[m][p] <= heard[m][p]
      <4> SUFFICES ASSUME NEW m \in Node, NEW p \in Peers[m]
                   PROVE  heard'[m][p] \in Nat /\ heard'[m][p] <= heard[m][p]
        OBVIOUS
      <4>1. heard[m][p] \in Nat
        BY <1>0
      <4>2. heard'[m][p] = 0 \/ heard'[m][p] = heard[m][p]
        BY <2>1
      <4>3. QED
        BY <4>1, <4>2
    <3>3. /\ \A m \in Node \ {n} :
               /\ version'[m] = version[m] /\ desired'[m] = desired[m]
               /\ work'[m] = work[m] /\ wanted'[m] = wanted[m] /\ spent'[m] = spent[m]
          /\ version'[n] = v /\ work'[n] = "idle" /\ wanted'[n] = "yes"
          /\ found' = found /\ latest' = latest
      BY <1>9 DEF Starts, Hints
    <3>4. HintsInOrder'
      BY <1>0, <1>9, <3>2, <3>3 DEF Hints, HintsInOrder
    <3>5. QED
      BY <3>1, <3>4
  <2>4. QED
    BY <2>2, <2>3 DEF Hints
<1>10. ASSUME NEW n \in Node, Installed(n) \/ Crash(n) PROVE Hints'
  BY <1>9, <1>10 DEF Installed, Crash, Hints, HintsInOrder, VersionsInOrder
<1>11. ASSUME NEW n \in Node, NEW p \in Peers[n], Disconnect(n, p) PROVE Hints'
  <2>1. \A m \in Node : \A q \in Peers[m] :
          \/ heard'[m][q] = 0 /\ inbox'[m][q] = <<>>
          \/ heard'[m][q] = heard[m][q] /\ inbox'[m][q] = inbox[m][q]
    BY <1>11 DEF Disconnect, CutLinks
  <2>2. WordsReleased'
    BY <1>0, <2>1, OldWords
  <2>3. HintsInOrder' /\ wanted' \in [Node -> YesNo] /\ spent' \in [Node -> YesNo]
    <3>1. \A m \in Node : \A q \in Peers[m] : heard'[m][q] \in Nat /\ heard'[m][q] <= heard[m][q]
      <4> SUFFICES ASSUME NEW m \in Node, NEW q \in Peers[m]
                   PROVE  heard'[m][q] \in Nat /\ heard'[m][q] <= heard[m][q]
        OBVIOUS
      <4>1. heard[m][q] \in Nat
        BY <1>0
      <4>2. heard'[m][q] = 0 \/ heard'[m][q] = heard[m][q]
        BY <2>1
      <4>3. QED
        BY <4>1, <4>2
    <3>2. UNCHANGED <<version, work, found, desired, wanted, spent, latest>>
      BY <1>11 DEF Disconnect, updaters
    <3>3. QED
      BY <1>0, <3>1, <3>2 DEF Hints, HintsInOrder
  <2>4. QED
    BY <2>2, <2>3 DEF Hints
<1>12. ASSUME NEW n \in Node, NEW p \in Peers[n], Greet(n, p) \/ Announce(n, p) PROVE Hints'
  <2>1. WordsReleased'
    BY <1>12, NewWords DEF Converse
  <2>2. HintsInOrder' /\ wanted' \in [Node -> YesNo] /\ spent' \in [Node -> YesNo]
    BY <1>12 DEF Greet, Announce, updaters, Hints, HintsInOrder
  <2>3. QED
    BY <2>1, <2>2 DEF Hints
<1>13. ASSUME NEW n \in Node, NEW p \in Peers[n], Meet(n, p) \/ Hear(n, p) PROVE Hints'
  <2>1. WordsReleased'
    BY <1>13, NewWords DEF Converse
  <2>2. /\ heard' = [heard EXCEPT ![n][p] = Head(inbox[n][p])]
        /\ Hint(n, Head(inbox[n][p]))
        /\ UNCHANGED <<version, work, found, desired, spent, latest>>
    BY <1>13 DEF Meet, Hear, Reads
  <2>3. Head(inbox[n][p]) \in Nat
    <3>1. inbox[n][p] # <<>>
      BY <1>13 DEF Meet, Hear, Reads
    <3>2. inbox[n][p] \in Inboxes
      BY DEF TInv, Links, IsLink
    <3>3. QED
      BY <3>1, <3>2, WordRead
  <2>4. \A m \in Node : \A q \in Peers[m] :
          heard'[m][q] = IF m = n /\ q = p THEN Head(inbox[n][p]) ELSE heard[m][q]
    BY <2>2 DEF TInv, Links, IsLink
  <2>5. HintsInOrder' /\ wanted' \in [Node -> YesNo] /\ spent' \in [Node -> YesNo]
    BY <1>0, <2>2, <2>3, <2>4 DEF Hint, Hints, HintsInOrder, YesNo
  <2>6. QED
    BY <2>1, <2>5 DEF Hints
<1>14. QED
  BY <1>1, <1>3, <1>4, <1>5, <1>6, <1>7, <1>8, <1>10, <1>11, <1>12, <1>13
     DEF Next, Update, Converse, Release, vars, updaters, links

\* The key on the monitor is for releases that something kept from a peer: one
\* that is told of them, and whose checks npm answers, sees to itself.
THEOREM OutdatedIsExplained == MonitorSpec => []OutdatedExplained
<1>1. MonitorInit => MInv
  BY InvInit, TInit, HInit DEF MonitorInit, MInv
<1>2. MInv /\ [MonitorNext]_monitorVars => MInv'
  BY MonitorSteps, Step, Told, HintsKept DEF MInv
<1>3. QED
  BY <1>1, <1>2, Explained, PTL DEF MonitorSpec

=============================================================================
