------------------------------- MODULE Monitor -------------------------------
(***************************************************************************)
(* The terminal monitor of one machine (src/tui/monitor.rs and its feeds)  *)
(* over the daemons of UpdateGossip: it asks its daemon for a status every *)
(* second, works out what becomes of each peer's release                   *)
(* (src/tui/monitor/peer_version.rs), and a key has the daemon check and   *)
(* announce.  The key may be pressed at any time, so nothing here depends  *)
(* on how old the status on the screen is; rows are those of a status that *)
(* was just answered.                                                      *)
(***************************************************************************)
EXTENDS UpdateGossip

CONSTANT Watched  \* the machine whose monitor is open

ASSUME WatchedAssumption == Watched \in Node

VARIABLE pending  \* update_pending

monitorVars == <<vars, pending>>

\* Daemon::status: the peers are those whose hello has been read.  One that
\* installs a release restarts, and its connections end with it.
Status(n) ==
    [desired |-> desired[n],
     peers |-> [p \in {q \in Peers[n] : side[n][q] = "up"} |->
                  [version |-> version[p], desired |-> heard[n][p]]]]

\* Mutant: the local daemon's release is compared first.
LocalFirst(installed, peerDesired, localDesired) ==
    CASE localDesired > installed -> "outdated"
      [] localDesired <= installed /\ peerDesired > installed -> "updating"
      [] peerDesired <= installed /\ localDesired < installed -> "ahead"
      [] peerDesired <= installed /\ localDesired = installed -> "current"

\* peer_update_state of a peer that is connected.
UpdateState(installed, peerDesired, localDesired) ==
    CASE peerDesired > installed -> "updating"
      [] peerDesired <= installed /\ localDesired > installed -> "outdated"
      [] peerDesired <= installed /\ localDesired < installed -> "ahead"
      [] peerDesired <= installed /\ localDesired = installed -> "current"

\* The last column of p's row.
RowState(status, p) ==
    IF p \in DOMAIN status.peers
    THEN UpdateState(status.peers[p].version, status.peers[p].desired, status.desired)
    ELSE "offline"

-----------------------------------------------------------------------------

MonitorInit == Init /\ pending = FALSE

\* `u`: only one request at a time.
PressU ==
    /\ ~pending
    /\ pending' = TRUE
    /\ UNCHANGED vars

\* command_feed: the daemon checks and announces, and says so.
Asks ==
    /\ pending
    /\ NotifyUpdates(Watched)
    /\ pending' = FALSE

\* The daemon restarts: a request may meet that and fail.
MeetsRestart(n) == pending' \in (IF n = Watched THEN {pending, FALSE} ELSE {pending})

Updates(n) ==
    \/ (LookUp(n) \/ PersistDesired(n) \/ Advance(n)) /\ UNCHANGED pending
    \/ Installed(n) /\ MeetsRestart(n)

Converses(n, p) == Converse(n, p) /\ UNCHANGED pending

\* Another machine may have a monitor, too.
Others ==
    /\ \/ Release
       \/ \E n \in Node :
            \/ Tick(n) \/ LookUpFails(n) \/ InstallFails(n)
            \/ n # Watched /\ NotifyUpdates(n)
            \/ \E p \in Peers[n] : Disconnect(n, p)
    /\ UNCHANGED pending

MonitorNext ==
    \/ PressU \/ Asks \/ Others
    \/ \E n \in Node :
         \/ Updates(n)
         \/ Crash(n) /\ MeetsRestart(n)
         \/ \E p \in Peers[n] : Converses(n, p)

MonitorSpec == MonitorInit /\ [][MonitorNext]_monitorVars

\* What is fair in UpdateGossip, and the worker that sends the request.
FairMonitorSpec ==
    /\ MonitorSpec
    /\ \A n \in Node : WF_monitorVars(Updates(n))
    /\ \A n \in Node : \A p \in Peers[n] : WF_monitorVars(Converses(n, p))
    /\ WF_monitorVars(Asks)

-----------------------------------------------------------------------------

\* A peer that is connected and outdated has been let down by the handshake or
\* by npm, or a word or a check of its own is on the way: all others learn of
\* the release without the key that the row names.
OutdatedExplained ==
    \A n \in Node : \A p \in Peers[n] :
        RowState(Status(n), p) = "outdated" =>
            \/ "yes" \in {missed[n][p], missed[p][n], unread[n][p], unread[p][n]}
            \/ inbox[n][p] # <<>> \/ inbox[p][n] # <<>>
            \/ wanted[p] = "yes" \/ work[p] \in {"found", "saved"} \/ spent[p] = "yes"

\* Pressing the key brings a peer whose row says outdated up to date, whatever
\* kept it from it before, if nothing fails any more.  (A peer that is just
\* being greeted is not told.)
PressingHelps ==
    \A p \in Peers[Watched] : \A v \in Version :
        (/\ pending /\ faults = MaxFaults /\ desired[Watched] = v
         /\ RowState(Status(Watched), p) = "outdated")
        ~> version[p] >= v

=============================================================================
