---------------------------- MODULE SetupProofs -----------------------------
(***************************************************************************)
(* For all machines, commands, sessions and failures: an owner's           *)
(* configuration is replaced only by a shell that looked before it was     *)
(* made (IdentityStays), no machine that this one knows is forgotten       *)
(* (ConnectionsStay), and setup that says ready has completely installed   *)
(* its machines (ReadyIsComplete), saved them, and had the daemon load     *)
(* them (ReadyIsLoaded), but for what shells of broken uploads do later.   *)
(*                                                                         *)
(* While machines are installed, those done stay complete, but for one     *)
(* that a second command reaches and that is being installed again: the    *)
(* invariant exempts it until that is over.  What is saved is the merge of *)
(* what setup began with and the machines on its screen, whatever was      *)
(* saved before: that it loses nobody needs an invariant over the whole    *)
(* session (SavedIsKnown), and what a merge of a list of machines returns, *)
(* an induction on the list (MergedPeers).                                 *)
(***************************************************************************)
EXTENDS Setup, FiniteSetTheorems, SequenceTheorems, TLAPS

Types ==
    /\ machine \in [Host -> Machine]
    /\ input \in Command \cup {None}
    /\ offered \subseteq Command /\ selected \subseteq Command
    /\ probing \subseteq Command /\ found \subseteq Peer
    /\ peers \subseteq Peer /\ todo \subseteq peers
    /\ at \in todo \cup {None}

\* Where the task stands, and that it stands somewhere only while installing.
TaskInOrder ==
    /\ stage = "Installing" <=> pc # "idle"
    /\ pc \in {"idle", "local", "restart", "wait", "done"} => todo = {}
    /\ pc \in {"query", "save"} => todo = peers
    /\ pc \in {"upload", "configure", "write", "service"} <=> at # None

\* What the steps behind the task have put in place.
StepsTaken ==
    /\ pc \in {"configure", "write", "service"} =>
          HostOf(at) \in mangled \/ machine[HostOf(at)].binary \in {Current, Newer}
    /\ pc \in {"upload", "configure"} /\ inspected.configured =>
          machine[HostOf(at)].config # "none"
    /\ pc = "service" => machine[HostOf(at)].config # "none"

InHand(h) == at # None /\ HostOf(at) = h

DoneStayComplete ==
    stage \in {"Installing", "Ready"} =>
        \A p \in peers \ todo : Complete(HostOf(p)) \/ InHand(HostOf(p))

IInv == Types /\ TaskInOrder /\ StepsTaken /\ DoneStayComplete

-----------------------------------------------------------------------------

LEMMA HostOfPeer == ASSUME NEW p \in Peer PROVE HostOf(p) \in Host
BY SetupAssumption DEF HostOf, Peer

LEMMA InitOk == ASSUME Init PROVE IInv
BY SetupAssumption
   DEF Init, IInv, Types, TaskInOrder, StepsTaken, DoneStayComplete

\* The keys, and what arrives on the screen, touch neither machines nor a task.
LEMMA BeginInstallKeeps == ASSUME IInv, BeginInstall, stage # "Installing" PROVE IInv'
BY DEF BeginInstall, IInv, Types, TaskInOrder, StepsTaken, DoneStayComplete, remote, shells,
       history,
       local, verification, InHand, HostOf, Complete, Recorded, Runs

LEMMA ScreenKeeps ==
    ASSUME IInv, Types', UNCHANGED <<machine, mangled, spoiled, installation>>,
           \/ UNCHANGED <<stage, peers>>
           \/ stage # "Installing" /\ stage' \notin {"Installing", "Ready"}
    PROVE  IInv'
BY DEF IInv, Types, TaskInOrder, StepsTaken, DoneStayComplete, installation,
       InHand, HostOf, Complete, Recorded, Runs

\* Whatever a step leaves behind, a machine stays one.
LEMMA WithFlagTyped ==
    ASSUME NEW m \in Machine, NEW flag \in BOOLEAN, NEW h
    PROVE  WithFlag(m, flag) \in Machine /\ Served(h, m) \in Machine
BY DEF WithFlag, Loads, Served, Machine

LEMMA RemainsTyped ==
    ASSUME IInv, (at = None /\ UNCHANGED remote) \/ (at # None /\ Remains)
    PROVE  machine' \in [Host -> Machine]
<1>1. CASE UNCHANGED machine
  BY <1>1 DEF IInv, Types
<1>2. CASE at # None /\ Remains /\ machine' # machine
  <2> DEFINE h == HostOf(at)
             m == WithFlag(machine[h], at.headless)
  <2>1. at \in Peer /\ h \in Host /\ machine[h] \in Machine /\ at.headless \in BOOLEAN
    BY <1>2, HostOfPeer DEF IInv, Types, Peer
  <2>2. m \in Machine
    BY <2>1, WithFlagTyped
  <2>3. Served(h, m) \in Machine
    BY <2>2, WithFlagTyped
  <2> HIDE DEF h, m
  <2>5. \E n \in Machine : machine' = [machine EXCEPT ![h] = n]
    BY <1>2, <2>2, <2>3 DEF Remains, remote, shells, history, h, m
  <2>6. QED
    BY <2>5 DEF IInv, Types
<1>3. QED
  BY <1>1, <1>2 DEF remote, shells, history

LEMMA KeysKeep == ASSUME IInv, Keys PROVE IInv'
<1>1. ASSUME BeginInstall, stage # "Installing" PROVE IInv'
  BY <1>1, BeginInstallKeeps
<1>2. ASSUME NEW commands \in SUBSET Command, stage = "Entry", Verify(commands) PROVE IInv'
  <2>1. Types'
    BY <1>2 DEF Verify, IInv, Types, remote, shells, history, installation
  <2>2. QED
    BY <1>2, <2>1, ScreenKeeps DEF Verify, remote, shells, history
<1>3. CASE Begin \/ AddAnother \/ (\E c \in Command : Type(c) \/ Tick(c)) \/ Type(None)
  <2>1. Types'
    BY <1>3 DEF Begin, AddAnother, Type, Tick, IInv, Types, remote, shells, history,
                installation, verification
  <2>2. QED
    BY <1>3, <2>1, ScreenKeeps DEF Begin, AddAnother, Type, Tick, remote, shells, history
<1>4. CASE EntryEnter
  <2>1. {input} \subseteq Command \/ input = None
    BY DEF IInv, Types
  <2>2. selected \subseteq Command
    BY DEF IInv, Types
  <2>3. QED
    BY <1>1, <1>2, <1>4, <2>1, <2>2 DEF EntryEnter
<1>5. CASE ToggleHeadless
  <2>1. \A p \in Peer : \A enable \in BOOLEAN : [p EXCEPT !.headless = enable] \in Peer
    BY DEF Peer
  <2>2. peers' \subseteq Peer
    BY <1>5, <2>1 DEF ToggleHeadless, IInv, Types
  <2>3. todo = {} /\ at = None
    BY <1>5 DEF ToggleHeadless, IInv, TaskInOrder, Types
  <2>4. Types'
    BY <1>5, <2>2, <2>3 DEF ToggleHeadless, IInv, Types, remote, shells, history, installation,
                            verification
  <2>5. QED
    BY <1>5, <2>4, ScreenKeeps DEF ToggleHeadless, remote, shells, history
<1>6. CASE Install
  BY <1>1, <1>6 DEF Install
<1>7. CASE Quit
  <2>1. machine' \in [Host -> Machine]
    BY <1>7, RemainsTyped DEF Quit, IInv, Types, remote, shells, history
  <2>2. QED
    BY <1>7, <2>1 DEF Quit, TaskEnds, IInv, Types, TaskInOrder, StepsTaken, DoneStayComplete
<1>8. CASE Reopen
  <2>1. Types'
    BY <1>8 DEF Reopen, IInv, Types, remote, shells, history, installation, verification
  <2>2. QED
    BY <1>8, <2>1, ScreenKeeps DEF Reopen, remote, shells, history
<1>9. QED
  BY <1>3, <1>4, <1>5, <1>6, <1>7, <1>8 DEF Keys

LEMMA VerificationKeeps ==
    ASSUME IInv, Verifying \/ ProbeFails \/ TailscaleDiscovered PROVE IInv'
<1>1. ASSUME NEW c \in Command, Probe(c) PROVE IInv'
  <2>1. Reaches[c] \in Host /\ machine[Reaches[c]] \in Machine
    BY SetupAssumption DEF IInv, Types
  <2>2. [command |-> c, xvfb |-> machine[Reaches[c]].xvfb, headless |-> FALSE,
         needs |-> Reaches[c] \notin Display /\ ~machine[Reaches[c]].headless] \in Peer
    BY <2>1 DEF Peer, Machine
  <2>3. Types'
    BY <1>1, <2>2 DEF Probe, IInv, Types, remote, shells, history, screen, installation
  <2>4. QED
    BY <1>1, <2>3, ScreenKeeps DEF Probe, remote, shells, history, screen
<1>2. CASE Verified
  <2>1. Types'
    BY <1>2 DEF Verified, Merged, IInv, Types, remote, shells, history, installation
  <2>2. QED
    BY <1>2, <2>1, ScreenKeeps DEF Verified, remote, shells, history
<1>3. CASE ProbeFails
  <2>1. Types'
    BY <1>3 DEF ProbeFails, IInv, Types, remote, shells, history, installation
  <2>2. QED
    BY <1>3, <2>1, ScreenKeeps DEF ProbeFails, remote, shells, history
<1>4. CASE TailscaleDiscovered
  <2>1. Types'
    BY <1>4, SetupAssumption DEF TailscaleDiscovered, IInv, Types, remote, shells, history,
                                 installation, verification
  <2>2. QED
    BY <1>4, <2>1, ScreenKeeps DEF TailscaleDiscovered, remote, shells, history
<1>5. QED
  BY <1>1, <1>2, <1>3, <1>4 DEF Verifying

-----------------------------------------------------------------------------
(* The task.                                                               *)

\* Steps that only move on, or that concern this machine.
LEMMA LocalStepKeeps ==
    ASSUME IInv,
           QueryStatus \/ QueryTimesOut \/ SaveConfig \/ LocalService \/ Restart \/ WaitEnds
    PROVE  IInv'
<1> USE DEF Goes, screen, verification, remote, shells, history, InHand, HostOf, Complete,
            Recorded, Runs
<1>1. Types'
  BY DEF QueryStatus, QueryTimesOut, SaveConfig, LocalService, Restart, WaitEnds, IInv, Types,
         local
<1>2. TaskInOrder' /\ StepsTaken'
  BY DEF QueryStatus, QueryTimesOut, SaveConfig, LocalService, Restart, WaitEnds, IInv,
         TaskInOrder, StepsTaken, Types
<1>3. DoneStayComplete'
  BY DEF QueryStatus, QueryTimesOut, SaveConfig, LocalService, Restart, WaitEnds, IInv,
         DoneStayComplete
<1>4. QED
  BY <1>1, <1>2, <1>3 DEF IInv

LEMMA TaskEndKeeps ==
    ASSUME IInv, Installed \/ Fail, machine' \in [Host -> Machine]
    PROVE  IInv'
BY DEF Installed, Fail, TaskEnds, IInv, Types, TaskInOrder, StepsTaken, DoneStayComplete,
       verification, remote, shells, history, InHand, HostOf, Complete, Recorded, Runs

LEMMA FailureKeeps ==
    ASSUME IInv, ServiceRefused \/ WaitGivesUp \/ RemoteFails \/ LocalFails
    PROVE  IInv'
<1>1. CASE ServiceRefused
  <2>1. at \in Peer
    BY <1>1 DEF ServiceRefused, IInv, Types, TaskInOrder
  <2>2. HostOf(at) \in Host /\ machine[HostOf(at)] \in Machine /\ at.headless \in BOOLEAN
    BY <2>1, HostOfPeer DEF IInv, Types, Peer
  <2>3. machine' \in [Host -> Machine]
    BY <1>1, <2>2, WithFlagTyped DEF ServiceRefused, IInv, Types
  <2>4. QED
    BY <1>1, <2>3, TaskEndKeeps DEF ServiceRefused
<1>2. CASE WaitGivesUp \/ LocalFails
  BY <1>2, TaskEndKeeps DEF WaitGivesUp, LocalFails, remote, shells, history, IInv, Types
<1>3. CASE RemoteFails
  BY <1>3, RemainsTyped, TaskEndKeeps DEF RemoteFails
<1>4. QED
  BY <1>1, <1>2, <1>3

LEMMA InspectKeeps == ASSUME IInv, NEW p \in todo, Inspect(p) PROVE IInv'
<1>1. p \in Peer /\ p # None /\ HostOf(p) \in Host
  BY SetupAssumption, HostOfPeer DEF IInv, Types
<1>2. machine[HostOf(p)] \in Machine
  BY <1>1 DEF IInv, Types
<1>3. Types' /\ TaskInOrder'
  BY <1>1 DEF Inspect, Goes, IInv, Types, TaskInOrder, screen, verification, remote, shells,
              history
<1>4. StepsTaken'
  <2>1. ~NeedsBinary(machine[HostOf(p)].binary) => machine[HostOf(p)].binary \in {Current, Newer}
    BY <1>2 DEF NeedsBinary, Machine, NoBinary, Current, Newer
  <2>2. /\ pc' \in {"upload", "configure"} /\ at' = p /\ UNCHANGED <<machine, mangled>>
        /\ pc' = "configure" => ~NeedsBinary(machine[HostOf(p)].binary)
        /\ inspected'.configured => machine[HostOf(p)].config # "none"
    BY DEF Inspect, Goes, remote, shells, history
  <2>3. QED
    BY <2>1, <2>2 DEF StepsTaken, HostOf
<1>5. at = None
  BY DEF Inspect, IInv, TaskInOrder
<1>6. DoneStayComplete'
  BY <1>5 DEF Inspect, Goes, IInv, DoneStayComplete, InHand, HostOf, Complete, Recorded, Runs,
              remote, shells, history, screen
<1>7. QED
  BY <1>3, <1>4, <1>6 DEF IInv

\* Uploading and configuring disturb nothing but the machine in hand.
LEMMA UploadKeeps == ASSUME IInv, UploadBinary PROVE IInv'
<1>1. at \in todo /\ at \in Peer /\ at # None /\ HostOf(at) \in Host
  BY HostOfPeer DEF UploadBinary, IInv, Types, TaskInOrder
<1>2. machine' = [machine EXCEPT ![HostOf(at)] = [machine[HostOf(at)] EXCEPT !.binary = Current]]
  BY <1>1 DEF UploadBinary, IInv, Types
<1>3. [machine[HostOf(at)] EXCEPT !.binary = Current] \in Machine
  BY <1>1 DEF IInv, Types, Machine, Current, NoBinary, Newer
<1>4. Types' /\ TaskInOrder'
  BY <1>1, <1>2, <1>3 DEF UploadBinary, Goes, IInv, Types, TaskInOrder, screen, verification
<1>5. StepsTaken'
  BY <1>1, <1>2 DEF UploadBinary, Goes, IInv, Types, StepsTaken, HostOf, Machine
<1>6. DoneStayComplete'
  BY <1>1, <1>2 DEF UploadBinary, Goes, IInv, Types, DoneStayComplete, InHand, HostOf, Complete,
                    Recorded, Runs, screen
<1>7. QED
  BY <1>4, <1>5, <1>6 DEF IInv

LEMMA LookKeeps == ASSUME IInv, LookForConfig PROVE IInv'
<1>1. at \in todo /\ at \in Peer /\ at # None
  BY DEF LookForConfig, IInv, Types, TaskInOrder
<1>2. Types' /\ TaskInOrder'
  BY <1>1 DEF LookForConfig, Goes, IInv, Types, TaskInOrder, screen, verification, remote
<1>3. StepsTaken'
  BY <1>1 DEF LookForConfig, Absent, Goes, IInv, StepsTaken, HostOf, remote, shells, history
<1>4. DoneStayComplete'
  BY DEF LookForConfig, Goes, IInv, DoneStayComplete, InHand, HostOf, Complete, Recorded, Runs,
         screen, remote, shells, history
<1>5. QED
  BY <1>2, <1>3, <1>4 DEF IInv

\* What `mv` puts in place is a configuration.
LEMMA ConfiguredTyped ==
    ASSUME NEW m \in Machine, NEW text \in {"cut", "given"}
    PROVE  /\ Configured(m, text) \in Machine
           /\ Configured(m, text).config = text /\ Configured(m, text).headless = FALSE
           /\ Configured(m, text).binary = m.binary /\ Configured(m, text).service = m.service
           /\ Configured(m, text).running = m.running
BY DEF Configured, Machine

LEMMA WriteKeeps == ASSUME IInv, WriteConfig PROVE IInv'
<1>1. at \in todo /\ at \in Peer /\ at # None /\ HostOf(at) \in Host
  BY HostOfPeer DEF WriteConfig, IInv, Types, TaskInOrder
<1>2. machine[HostOf(at)] \in Machine
  BY <1>1 DEF IInv, Types
<1>3. PICK m \in Machine : /\ machine' = [machine EXCEPT ![HostOf(at)] = m]
                           /\ m.config = "given" /\ m.binary = machine[HostOf(at)].binary
  BY <1>2, ConfiguredTyped DEF WriteConfig
<1>4. Types' /\ TaskInOrder'
  BY <1>1, <1>3 DEF WriteConfig, Goes, IInv, Types, TaskInOrder, screen, verification
<1>5. StepsTaken'
  BY <1>1, <1>3 DEF WriteConfig, Goes, IInv, Types, StepsTaken, HostOf, history
<1>6. DoneStayComplete'
  BY <1>1, <1>3 DEF WriteConfig, Goes, IInv, Types, DoneStayComplete, InHand, HostOf, Complete,
                    Recorded, Runs, screen, history
<1>7. QED
  BY <1>4, <1>5, <1>6 DEF IInv

\* After its service a machine is complete.
LEMMA ServiceKeeps == ASSUME IInv, InstallService PROVE IInv'
<1>0. PICK h \in Host : h = HostOf(at)
  BY HostOfPeer DEF InstallService, IInv, Types, TaskInOrder
<1> DEFINE m == WithFlag(machine[h], at.headless)
<1>1. at \in todo /\ at \in Peer /\ at # None
  BY DEF InstallService, IInv, Types, TaskInOrder
<1>2. machine[h] \in Machine /\ at.headless \in BOOLEAN
  BY <1>1 DEF IInv, Types, Peer
<1>3. m \in Machine /\ m.config = machine[h].config /\ m.binary = machine[h].binary
  BY <1>2, WithFlagTyped DEF WithFlag, Machine
<1>4. Served(h, m) \in Machine
  BY <1>3, WithFlagTyped
<1>5. machine' = [machine EXCEPT ![h] = Served(h, m)] /\ Serves(h, m)
      /\ UNCHANGED mangled /\ spoiled' = spoiled \ {h}
  BY <1>0 DEF InstallService
<1>6. machine[h].config # "none" /\ (h \in mangled \/ machine[h].binary \in {Current, Newer})
  BY <1>0 DEF InstallService, IInv, StepsTaken
<1>7. machine'[h].service /\ Recorded(h)' /\ (h \in mangled \/ Runs(h)')
  BY <1>1, <1>3, <1>4, <1>5, <1>6
     DEF IInv, Types, Recorded, Runs, Served, Serves, Loads, Machine
<1>8. Complete(h)'
  BY <1>5, <1>7 DEF Complete
<1>9. \A g \in Host \ {h} : machine'[g] = machine[g]
  BY <1>1, <1>5 DEF IInv, Types
<1>10. \A g \in Host \ {h} : Complete(g) => Complete(g)'
  BY <1>5, <1>9 DEF Complete, Recorded, Runs
<1> HIDE DEF m
<1>11. Types' /\ TaskInOrder' /\ StepsTaken'
  BY <1>0, <1>1, <1>4, <1>5
     DEF InstallService, Goes, IInv, Types, TaskInOrder, StepsTaken, screen, verification
<1>12. DoneStayComplete'
  <2> SUFFICES ASSUME stage' \in {"Installing", "Ready"}, NEW p \in peers' \ todo'
               PROVE  Complete(HostOf(p))'
    BY DEF DoneStayComplete, HostOf
  <2>1. p \in Peer /\ HostOf(p) \in Host /\ p \in peers
    BY HostOfPeer DEF InstallService, Goes, screen, IInv, Types
  <2>2. CASE HostOf(p) = h
    BY <1>8, <2>2 DEF HostOf, Complete, Recorded, Runs
  <2>3. CASE HostOf(p) # h
    <3>1. p \notin todo
      BY <1>0, <2>3 DEF InstallService
    <3>2. Complete(HostOf(p))
      BY <1>0, <2>1, <2>3, <3>1 DEF InstallService, Goes, screen, IInv, DoneStayComplete, InHand
    <3>3. QED
      BY <1>10, <2>1, <2>3, <3>2 DEF HostOf, Complete, Recorded, Runs
  <2>4. QED
    BY <2>2, <2>3
<1>13. QED
  BY <1>11, <1>12 DEF IInv

-----------------------------------------------------------------------------
(* Everything else.                                                        *)

\* What happens to a machine meanwhile leaves it a complete one.
LEMMA MachineKeeps ==
    ASSUME IInv, NEW h \in Host,
           \/ StrayLands(h) \/ TornLands(h)
           \/ SelfUpdate(h) \/ InstallXvfb(h) \/ OwnerConfigures(h)
    PROVE  IInv'
<1> DEFINE Same == UNCHANGED <<screen, verification, installation>>
<1>1. machine[h] \in Machine
  BY DEF IInv, Types
<1>2. Same /\ UNCHANGED <<stage, peers, todo, at, pc, inspected>>
  BY DEF StrayLands, TornLands, SelfUpdate, InstallXvfb, OwnerConfigures, screen, installation
<1>3. machine' \in [Host -> Machine]
  <2>1. /\ [machine[h] EXCEPT !.binary = NoBinary] \in Machine
        /\ [machine[h] EXCEPT !.binary = Current] \in Machine
        /\ [machine[h] EXCEPT !.binary = Newer, !.running = Newer] \in Machine
    <3>1. {NoBinary, Current, Newer} \subseteq NoBinary .. Newer
      BY DEF NoBinary, Current, Newer
    <3>2. \A v \in NoBinary .. Newer : /\ [machine[h] EXCEPT !.binary = v] \in Machine
                                        /\ [machine[h] EXCEPT !.binary = v,
                                        !.running = v] \in Machine
      BY <1>1 DEF Machine
    <3>3. QED
      BY <3>1, <3>2
  <2>4. /\ [machine[h] EXCEPT !.xvfb = TRUE] \in Machine
        /\ [machine[h] EXCEPT !.config = "own"] \in Machine
    BY <1>1 DEF Machine
  <2>2. \E n \in Machine : machine' = [machine EXCEPT ![h] = n]
    <3>1. CASE StrayLands(h)
      BY <2>1, <3>1 DEF StrayLands
    <3>2. CASE SelfUpdate(h)
      <4>1. machine' = [machine EXCEPT ![h] = [machine[h] EXCEPT !.binary = Newer,
      !.running = Newer]]
        BY <1>1, <3>2 DEF SelfUpdate, IInv, Types
      <4>2. QED
        BY <2>1, <4>1
    <3>3. CASE InstallXvfb(h)
      BY <2>4, <3>3 DEF InstallXvfb
    <3>4. CASE OwnerConfigures(h)
      BY <2>4, <3>4 DEF OwnerConfigures
    <3>5. CASE TornLands(h)
      BY <1>1, <3>5, ConfiguredTyped DEF TornLands
    <3>6. QED
      BY <3>1, <3>2, <3>3, <3>4, <3>5
  <2>3. QED
    BY <2>2 DEF IInv, Types
<1>4. ASSUME NEW g \in Host
      PROVE  /\ Complete(g) => Complete(g)'
             /\ machine[g].config # "none" => machine'[g].config # "none"
             /\ g \in mangled \/ machine[g].binary \in {Current, Newer} =>
                   g \in mangled' \/ machine'[g].binary \in {Current, Newer}
  <2>1. CASE StrayLands(h) \/ SelfUpdate(h) \/ InstallXvfb(h) \/ OwnerConfigures(h)
    BY <1>1, <2>1 DEF StrayLands, SelfUpdate, InstallXvfb, OwnerConfigures, IInv, Types, Complete,
                Recorded, Runs, Machine, NoBinary, Older, Current, Newer, history
  <2>2. CASE TornLands(h)
    <3>1. PICK m \in Machine : /\ machine' = [machine EXCEPT ![h] = m]
                               /\ m.config \in {"cut", "given"}
                               /\ m.binary = machine[h].binary /\ m.service = machine[h].service
                               /\ m.running = machine[h].running
      <4>1. PICK text \in {"cut", "given"} :
               machine' = [machine EXCEPT ![h] = Configured(machine[h], text)]
        BY <2>2 DEF TornLands, IInv, Types
      <4>2. QED
        BY <1>1, <4>1, ConfiguredTyped
    <3>2. QED
      BY <2>2, <3>1 DEF TornLands, IInv, Types, Complete, Recorded, Runs
  <2>3. QED
    BY <2>1, <2>2
<1>5. Types' /\ TaskInOrder'
  BY <1>2, <1>3 DEF IInv, Types, TaskInOrder, screen, verification, installation
<1>6. at # None => HostOf(at) \in Host
  BY HostOfPeer DEF IInv, Types
<1>7. StepsTaken'
  <2>1. CASE at = None
    BY <1>2, <2>1 DEF IInv, StepsTaken, TaskInOrder
  <2>2. CASE at # None
    <3>1. PICK g \in Host : g = HostOf(at) /\ g = HostOf(at)'
      BY <1>2, <1>6, <2>2 DEF HostOf
    <3>2. QED
      BY <1>2, <1>4, <3>1 DEF IInv, StepsTaken
  <2>3. QED
    BY <2>1, <2>2
<1>8. \A p \in peers : HostOf(p) \in Host
  BY HostOfPeer DEF IInv, Types
<1>9. DoneStayComplete'
  <2> SUFFICES ASSUME stage' \in {"Installing", "Ready"}, NEW p \in peers' \ todo'
               PROVE  (Complete(HostOf(p)) \/ InHand(HostOf(p)))'
    BY DEF DoneStayComplete
  <2>1. Complete(HostOf(p)) \/ InHand(HostOf(p))
    BY <1>2 DEF IInv, DoneStayComplete
  <2>2. PICK g \in Host : g = HostOf(p)
    BY <1>2, <1>8
  <2>3. Complete(g)' \/ InHand(g)'
    <3>1. InHand(g) => InHand(g)'
      BY <1>2 DEF InHand, HostOf
    <3>2. Complete(g) => Complete(g)'
      BY <1>4
    <3>3. QED
      BY <2>1, <2>2, <3>1, <3>2
  <2>4. QED
    BY <2>2, <2>3 DEF HostOf, Complete, Recorded, Runs, InHand
<1>10. QED
  BY <1>5, <1>7, <1>9 DEF IInv

LEMMA NextOk == ASSUME IInv, [Next]_vars PROVE IInv'
<1>1. CASE Keys
  BY <1>1, KeysKeep
<1>2. CASE Verifying \/ ProbeFails \/ TailscaleDiscovered
  BY <1>2, VerificationKeeps
<1>3. CASE InstallAll \/ QueryTimesOut \/ RemoteFails \/ LocalFails
  <2>1. CASE Installed
    BY <2>1, TaskEndKeeps DEF Installed, remote, shells, history, IInv, Types
  <2>2. QED
    BY <1>3, <2>1, LocalStepKeeps, FailureKeeps, InspectKeeps, UploadKeeps, LookKeeps, WriteKeeps,
       ServiceKeeps DEF InstallAll
<1>4. CASE DaemonGoes \/ DaemonReturns \/ UNCHANGED vars
  BY <1>4 DEF DaemonGoes, DaemonReturns, vars, remote, shells, history, screen, verification,
              installation,
              IInv, Types, TaskInOrder, StepsTaken, DoneStayComplete, InHand, HostOf, Complete,
              Recorded, Runs
<1>5. CASE \E h \in Host : \/ StrayLands(h) \/ TornLands(h)
                          \/ SelfUpdate(h) \/ InstallXvfb(h) \/ OwnerConfigures(h)
  BY <1>5, MachineKeeps
<1>6. QED
  BY <1>1, <1>2, <1>3, <1>4, <1>5 DEF Next, Failures, Meanwhile

\* Setup that says ready has completely installed every machine on its screen.
THEOREM ReadyIsComplete == Spec => []ReadyMeansComplete
<1>1. IInv => ReadyMeansComplete
  BY DEF IInv, DoneStayComplete, TaskInOrder, InHand, ReadyMeansComplete, Types
<1>2. QED
  BY <1>1, InitOk, NextOk, PTL DEF Spec

-----------------------------------------------------------------------------

(* An owner's configuration.                                               *)

\* The shells that wait are counted, and whoever makes a configuration under one of
\* them is overtaken, whether its connection is up or gone.
Waits(h) == torn[h] > 0 \/ (pc = "write" /\ HostOf(at) = h)

ShellTypes ==
    /\ stray \in [Host -> Nat] /\ torn \in [Host -> Nat]
    /\ mangled \subseteq Host /\ spoiled \subseteq Host /\ overtaken \subseteq Host

OwnUnderShell == \A h \in Host : machine[h].config = "own" /\ Waits(h) => h \in overtaken

SInv == ShellTypes /\ OwnUnderShell

LEMMA ShellsInit == ASSUME Init PROVE SInv
BY DEF Init, SInv, ShellTypes, OwnUnderShell, Waits

\* Which steps write what on other machines, and who comes to wait.
LEMMA RemoteWriters ==
    ASSUME [Next]_vars
    PROVE  \/ /\ UNCHANGED <<machine, shells, history>>
              /\ pc' = "write" => UNCHANGED <<pc, at>> \/ LookForConfig
           \/ UploadBinary \/ WriteConfig \/ InstallService \/ ServiceRefused
           \/ (Quit \/ RemoteFails) /\ pc' = "idle" /\ (UNCHANGED remote \/ (at # None /\ Remains))
           \/ \E h \in Host : \/ StrayLands(h) \/ TornLands(h)
                             \/ SelfUpdate(h) \/ InstallXvfb(h) \/ OwnerConfigures(h)
<1> USE DEF remote, installation, Goes
<1>1. CASE \/ Begin \/ EntryEnter \/ ToggleHeadless \/ AddAnother \/ Install \/ Reopen
           \/ (\E c \in Command : Type(c) \/ Tick(c)) \/ Type(None)
           \/ Verifying \/ ProbeFails \/ TailscaleDiscovered
  BY <1>1 DEF Begin, EntryEnter, ToggleHeadless, AddAnother, Install, BeginInstall, Verify,
              Reopen, Type, Tick, Verifying, Probe, Verified, ProbeFails, TailscaleDiscovered
<1>2. CASE \/ QueryStatus \/ SaveConfig \/ (\E p \in todo : Inspect(p)) \/ LocalService
           \/ LookForConfig \/ Restart \/ WaitEnds \/ WaitGivesUp \/ Installed
           \/ QueryTimesOut \/ LocalFails \/ DaemonGoes \/ DaemonReturns \/ UNCHANGED vars
  BY <1>2 DEF QueryStatus, SaveConfig, Inspect, LocalService, LookForConfig, Restart, WaitEnds,
              WaitGivesUp, Installed, QueryTimesOut, LocalFails, DaemonGoes, DaemonReturns,
              vars, Fail, TaskEnds
<1>3. CASE Quit \/ RemoteFails
  BY <1>3 DEF Quit, RemoteFails, Fail, TaskEnds
<1>4. QED
  BY <1>1, <1>2, <1>3 DEF Next, Keys, InstallAll, Failures, Meanwhile

\* What the service, its flag included, does to a machine leaves its configuration.
LEMMA ServiceKeepsText ==
    ASSUME NEW m \in Machine, NEW flag \in BOOLEAN, NEW h
    PROVE  /\ WithFlag(m, flag).config = m.config
           /\ Served(h, WithFlag(m, flag)).config = m.config
<1>1. WithFlag(m, flag) \in Machine /\ WithFlag(m, flag).config = m.config
  BY WithFlagTyped DEF WithFlag, Machine
<1>2. \A n \in Machine : Served(h, n).config = n.config
  BY DEF Served, Machine
<1>3. QED
  BY <1>1, <1>2

\* A step that leaves something behind changes no text, and adds a shell only where
\* one waits already.
LEMMA RemainsKeepsText ==
    ASSUME IInv, SInv, at # None, Remains
    PROVE  /\ \A h \in Host : machine'[h].config = machine[h].config
           /\ \A h \in Host : torn'[h] > 0 => Waits(h)
           /\ stray' \in [Host -> Nat] /\ torn' \in [Host -> Nat] /\ UNCHANGED history
<1>1. PICK g \in Host : g = HostOf(at)
  BY HostOfPeer DEF IInv, Types
<1> DEFINE m == WithFlag(machine[g], at.headless)
<1>2. machine[g] \in Machine /\ at.headless \in BOOLEAN /\ machine \in [Host -> Machine]
  BY <1>1 DEF IInv, Types, Peer
<1>3. m.config = machine[g].config /\ Served(g, m).config = machine[g].config
  BY <1>2, ServiceKeepsText
<1> HIDE DEF m
<1>4. \/ UNCHANGED machine
      \/ machine' = [machine EXCEPT ![g] = m]
      \/ machine' = [machine EXCEPT ![g] = Served(g, m)]
  BY <1>1 DEF Remains, m
<1>5. \A h \in Host : machine'[h].config = machine[h].config
  BY <1>2, <1>3, <1>4
<1>6. /\ \A h \in Host : torn'[h] > 0 => Waits(h)
      /\ stray' \in [Host -> Nat] /\ torn' \in [Host -> Nat] /\ UNCHANGED history
  BY <1>1 DEF Remains, SInv, ShellTypes, Waits, shells, HostOf
<1>7. QED
  BY <1>5, <1>6

\* Of the steps that touch other machines, two replace a configuration, and both
\* looked for one before they waited.
LEMMA TextStep ==
    ASSUME IInv, SInv, [Next]_vars
    PROVE  /\ ShellTypes'
           /\ \A h \in Host : machine[h].config = "own" =>
                 machine'[h].config = "own" \/ h \in overtaken
           /\ OwnUnderShell'
<1>1. machine \in [Host -> Machine] /\ \A h \in Host : machine[h] \in Machine
  BY DEF IInv, Types
<1>2. at # None => HostOf(at) \in Host
  BY HostOfPeer DEF IInv, Types
<1> USE DEF SInv, ShellTypes
<1>3. CASE /\ UNCHANGED <<machine, shells, history>>
           /\ pc' = "write" => UNCHANGED <<pc, at>> \/ LookForConfig
  <2>1. CASE LookForConfig
    <3>1. at' = at /\ (pc' = "write" => machine[HostOf(at)].config = "none")
      BY <2>1 DEF LookForConfig, Absent, Goes
    <3>2. QED
      BY <1>3, <3>1 DEF OwnUnderShell, Waits, HostOf, shells, history
  <2>2. CASE ~LookForConfig
    BY <1>3, <2>2 DEF OwnUnderShell, Waits, HostOf, shells, history
  <2>3. QED
    BY <2>1, <2>2
<1>4. CASE UploadBinary \/ ServiceRefused \/ InstallService
  <2>1. PICK g \in Host : g = HostOf(at)
    BY <1>2, <1>4 DEF UploadBinary, ServiceRefused, InstallService, IInv, TaskInOrder
  <2>2. at.headless \in BOOLEAN
    BY <1>4 DEF UploadBinary, ServiceRefused, InstallService, IInv, TaskInOrder, Types, Peer
  <2> DEFINE m == WithFlag(machine[g], at.headless)
  <2>3. m.config = machine[g].config /\ Served(g, m).config = machine[g].config
    BY <1>1, <2>2, ServiceKeepsText
  <2> HIDE DEF m
  <2>4. \/ UploadBinary
        \/ machine' = [machine EXCEPT ![g] = m]
        \/ machine' = [machine EXCEPT ![g] = Served(g, m)]
    BY <1>4, <2>1 DEF ServiceRefused, InstallService, m
  <2>5. UploadBinary => \A h \in Host : machine'[h].config = machine[h].config
    BY <1>1 DEF UploadBinary, Machine
  <2>6. \A h \in Host : machine'[h].config = machine[h].config
    BY <1>1, <2>3, <2>4, <2>5
  <2>7. /\ UNCHANGED <<stray, torn, overtaken>> /\ pc' # "write"
        /\ mangled' \subseteq mangled /\ spoiled' \subseteq spoiled
    BY <1>4 DEF UploadBinary, ServiceRefused, InstallService, Goes, Fail, TaskEnds, shells,
                history
  <2>8. QED
    BY <2>6, <2>7 DEF OwnUnderShell, Waits
<1>5. CASE WriteConfig
  <2>1. HostOf(at) \in Host /\ Waits(HostOf(at))
    BY <1>2, <1>5 DEF WriteConfig, IInv, TaskInOrder, Waits
  <2>2. \A h \in Host : /\ h # HostOf(at) => machine'[h] = machine[h]
                        /\ h = HostOf(at) => machine'[h].config = "given"
    BY <1>1, <1>5, ConfiguredTyped DEF WriteConfig
  <2>3. UNCHANGED <<shells, history>> /\ pc' # "write"
    BY <1>5 DEF WriteConfig, Goes
  <2>4. QED
    BY <2>1, <2>2, <2>3 DEF OwnUnderShell, Waits, shells, history
<1>6. CASE pc' = "idle" /\ (UNCHANGED remote \/ (at # None /\ Remains))
  <2>1. CASE UNCHANGED remote
    BY <1>6, <2>1 DEF OwnUnderShell, Waits, remote, shells, history
  <2>2. CASE at # None /\ Remains
    BY <1>6, <2>2, RemainsKeepsText DEF OwnUnderShell, Waits, history
  <2>3. QED
    BY <1>6, <2>1, <2>2
<1>7. ASSUME NEW g \in Host, TornLands(g)
      PROVE  /\ ShellTypes' /\ OwnUnderShell'
             /\ \A h \in Host : machine[h].config = "own" =>
                   machine'[h].config = "own" \/ h \in overtaken
  <2>1. /\ machine[g].config = "own" => g \in overtaken
        /\ torn' = [torn EXCEPT ![g] = torn[g] - 1] /\ torn[g] - 1 \in Nat
        /\ spoiled' \subseteq spoiled \cup {g}
        /\ UNCHANGED <<stray, mangled, overtaken, pc, at>>
    BY <1>7 DEF TornLands, OwnUnderShell, Waits, installation
  <2>2. \A h \in Host : /\ h # g => machine'[h] = machine[h]
                        /\ machine'[g].config # "own"
    BY <1>1, <1>7, ConfiguredTyped DEF TornLands
  <2>3. QED
    BY <2>1, <2>2 DEF OwnUnderShell, Waits, HostOf
<1>8. ASSUME NEW g \in Host, OwnerConfigures(g)
      PROVE  /\ ShellTypes' /\ OwnUnderShell'
             /\ \A h \in Host : machine[h].config = "own" => machine'[h].config = "own"
  <2>1. /\ UNCHANGED <<shells, mangled, spoiled, pc, at>>
        /\ overtaken' = IF Waits(g) THEN overtaken \cup {g} ELSE overtaken
        /\ \A h \in Host \ {g} : machine'[h] = machine[h]
        /\ machine'[g].config = "own"
    BY <1>1, <1>8 DEF OwnerConfigures, Waits, installation, Machine
  <2>2. QED
    BY <2>1 DEF OwnUnderShell, Waits, HostOf, shells
<1>9. ASSUME NEW g \in Host, StrayLands(g) \/ SelfUpdate(g) \/ InstallXvfb(g)
      PROVE  /\ ShellTypes' /\ OwnUnderShell'
             /\ \A h \in Host : machine[h].config = "own" => machine'[h].config = "own"
  <2>1. \A h \in Host : machine'[h].config = machine[h].config
    BY <1>1, <1>9 DEF StrayLands, SelfUpdate, InstallXvfb, Machine
  <2>2. UNCHANGED <<torn, overtaken, pc, at>> /\ ShellTypes'
    BY <1>9 DEF StrayLands, SelfUpdate, InstallXvfb, shells, history, installation
  <2>3. QED
    BY <2>1, <2>2 DEF OwnUnderShell, Waits, HostOf
<1>10. QED
  BY <1>3, <1>4, <1>5, <1>6, <1>7, <1>8, <1>9, RemoteWriters

LEMMA ShellsStep == ASSUME IInv, SInv, [Next]_vars PROVE SInv'
BY TextStep DEF SInv

\* An owner's configuration is replaced only by a shell of setup's that had found
\* none before it was made.
THEOREM IdentityStays == Spec => IdentityKept
<1>1. IInv /\ SInv /\ [Next]_vars =>
          [\A h \in Host : machine[h].config = "own" =>
              machine'[h].config = "own" \/ h \in overtaken]_vars
  BY TextStep
<1>2. QED
  BY <1>1, InitOk, NextOk, ShellsInit, ShellsStep, PTL DEF Spec, IdentityKept

-----------------------------------------------------------------------------
(* What merge_peer makes of a configuration.                               *)

Pairing == {e \in Entry : e.name = Reaches[e.command]}

LEMMA Least == ASSUME NEW T \in SUBSET Nat, T # {} PROVE \E x \in T : \A y \in T : x <= y
<1> DEFINE R == {s \in Nat \X Nat : s[1] < s[2]}
<1>1. IsWellFoundedOn(R, Nat)
  BY NatLessThanWellFounded DEF OpToRel
<1> HIDE DEF R
<1>2. PICK x \in T : \A y \in T : ~(<<y, x>> \in R)
  BY <1>1, WFMin, Zenon
<1>3. \A y \in T : ~(y < x)
  BY <1>2 DEF R
<1>4. QED
  BY <1>3

LEMMA MergeOne ==
    ASSUME NEW entries \in Configuration, NEW p \in Peer
    PROVE  /\ MergePeer(entries, p) \in Configuration
           /\ Connected(MergePeer(entries, p)) = Connected(entries) \cup {HostOf(p)}
<1> DEFINE entry == [name |-> HostOf(p), command |-> p.command]
           I == {j \in 1 .. Len(entries) :
                   entries[j].command = entry.command \/ entries[j].name = entry.name}
           i == IF I # {} THEN Min(I) ELSE 0
           m == MergePeer(entries, p)
<1>1. m = IF i = 0 THEN Append(entries, entry) ELSE [entries EXCEPT ![i] = entry]
  BY DEF MergePeer, SelectInSeq
<1>2. entry \in Pairing /\ entries \in Seq(Pairing) /\ Configuration = Seq(Pairing)
      /\ HostOf(p) = Reaches[entry.command]
  BY HostOfPeer DEF Pairing, Entry, Peer, HostOf, Configuration
<1>3. (I = {} /\ i = 0) \/ i \in I
  <2>1. CASE I # {}
    <3>1. I \in SUBSET Nat
      BY <1>2
    <3>2. \E x \in I : \A y \in I : x <= y
      BY <2>1, <3>1, Least
    <3>3. QED
      BY <2>1, <3>2 DEF Min
  <2>2. QED
    BY <2>1
<1>4. CASE i = 0
  <2>1. m = Append(entries, entry)
    BY <1>1, <1>4
  <2> HIDE DEF entry, m
  <2>2. /\ m \in Seq(Pairing) /\ Len(m) = Len(entries) + 1 /\ Len(entries) \in Nat
        /\ \A j \in 1 .. Len(entries) : m[j] = entries[j]
        /\ m[Len(entries) + 1] = entry
        /\ DOMAIN m = 1 .. Len(m) /\ DOMAIN entries = 1 .. Len(entries)
    BY <1>2, <2>1, AppendProperties
  <2>3. DOMAIN m = DOMAIN entries \cup {Len(entries) + 1}
    BY <2>2
  <2>4. Connected(m) = Connected(entries) \cup {HostOf(p)}
    BY <1>2, <2>2, <2>3 DEF Connected
  <2>5. QED
    BY <1>2, <2>2, <2>4 DEF m
<1>5. CASE i \in I
  <2>1. /\ i \in 1 .. Len(entries) /\ i # 0
        /\ entries[i].command = entry.command \/ entries[i].name = entry.name
    BY <1>2, <1>5
  <2>2. m = [entries EXCEPT ![i] = entry]
    BY <1>1, <2>1
  <2>3. entries[i] \in Pairing
    BY <1>2, <2>1, ElementOfSeq
  <2>4. Reaches[entries[i].command] = HostOf(p)
    BY <1>2, <2>1, <2>3 DEF Pairing
  <2> HIDE DEF entry, m, i, I
  <2>5. m \in Seq(Pairing) /\ DOMAIN m = DOMAIN entries /\ i \in DOMAIN entries
    BY <1>2, <2>1, <2>2, ExceptSeq
  <2>6. \A j \in DOMAIN entries : Reaches[m[j].command] = Reaches[entries[j].command]
    BY <1>2, <2>2, <2>4, <2>5
  <2>7. HostOf(p) \in Connected(entries)
    BY <2>4, <2>5 DEF Connected
  <2>8. Connected(m) = Connected(entries)
    BY <2>5, <2>6 DEF Connected
  <2>9. QED
    BY <1>2, <2>5, <2>7, <2>8 DEF m
<1>6. QED
  BY <1>3, <1>4, <1>5

Merges(entries, order, n, g) ==
    g = [i \in 0 .. n |-> IF i = 0 THEN entries ELSE MergePeer(g[i - 1], order[i])]

LEMMA MergesExist ==
    ASSUME NEW entries, NEW order
    PROVE  \A n \in Nat : \E g : Merges(entries, order, n, g)
<1> DEFINE T == {n \in Nat : ~\E g : Merges(entries, order, n, g)}
<1>1. SUFFICES ASSUME T # {} PROVE FALSE
  OBVIOUS
<1>2. PICK n \in T : \A m \in T : n <= m
  BY <1>1, Least
<1>3. n # 0
  <2> DEFINE g == [i \in 0 .. 0 |-> entries]
  <2>1. g = [i \in 0 .. 0 |-> IF i = 0 THEN entries ELSE MergePeer(g[i - 1], order[i])]
    OBVIOUS
  <2>2. QED
    BY <1>2, <2>1 DEF Merges
<1>4. n \in Nat /\ n - 1 \in Nat /\ n - 1 \notin T
  BY <1>2, <1>3
<1>5. PICK g : Merges(entries, order, n - 1, g)
  BY <1>4
<1> DEFINE h == [i \in 0 .. n |-> IF i = n THEN MergePeer(g[n - 1], order[n]) ELSE g[i]]
<1>6. \A i \in 0 .. n : h[i] = IF i = 0 THEN entries ELSE MergePeer(h[i - 1], order[i])
  <2> SUFFICES ASSUME NEW i \in 0 .. n
               PROVE  h[i] = IF i = 0 THEN entries ELSE MergePeer(h[i - 1], order[i])
    OBVIOUS
  <2>1. CASE i = n
    <3>1. n - 1 \in 0 .. n /\ n - 1 # n
      BY <1>4
    <3>2. h[n - 1] = g[n - 1]
      BY <3>1
    <3>3. QED
      BY <1>3, <2>1, <3>2
  <2>2. CASE i # n
    <3>1. i \in 0 .. n - 1 /\ (i # 0 => i - 1 \in 0 .. n /\ i - 1 # n)
      BY <1>4, <2>2
    <3>2. h[i] = g[i] /\ (i # 0 => h[i - 1] = g[i - 1])
      BY <2>2, <3>1
    <3>3. g[i] = IF i = 0 THEN entries ELSE MergePeer(g[i - 1], order[i])
      BY <1>5, <3>1 DEF Merges
    <3>4. QED
      BY <3>2, <3>3
  <2>3. QED
    BY <2>1, <2>2
<1>7. Merges(entries, order, n, h)
  <2>1. h = [i \in 0 .. n |-> h[i]]
    OBVIOUS
  <2> HIDE DEF h
  <2>2. QED
    BY <1>6, <2>1 DEF Merges
<1>8. QED
  BY <1>2, <1>7

\* install_all connects this machine to every machine it was connected to and to
\* those it installs.
LEMMA MergedPeers ==
    ASSUME NEW entries \in Configuration, NEW order \in Seq(Peer)
    PROVE  /\ MergePeers(entries, order) \in Configuration
           /\ Connected(MergePeers(entries, order)) =
                 Connected(entries) \cup {HostOf(order[k]) : k \in 1 .. Len(order)}
<1> DEFINE n == Len(order)
           g == CHOOSE g : Merges(entries, order, n, g)
           Joined(i) == Connected(entries) \cup {HostOf(order[k]) : k \in 1 .. i}
           T == {i \in 0 .. n : ~(g[i] \in Configuration /\ Connected(g[i]) = Joined(i))}
<1>1. n \in Nat /\ DOMAIN order = 1 .. n
  OBVIOUS
<1>2. Merges(entries, order, n, g)
  BY <1>1, MergesExist
<1>3. MergePeers(entries, order) = g[n]
  BY DEF MergePeers, Merges
<1> HIDE DEF g, n
<1>4. SUFFICES ASSUME T # {} PROVE FALSE
  BY <1>1, <1>3 DEF n
<1>5. PICK i \in T : \A j \in T : i <= j
  <2>1. T \in SUBSET Nat
    BY <1>1
  <2> HIDE DEF T
  <2>2. QED
    BY <1>4, <2>1, Least
<1>6. i \in 0 .. n /\ g[i] = IF i = 0 THEN entries ELSE MergePeer(g[i - 1], order[i])
  BY <1>2, <1>5 DEF Merges
<1>7. i # 0
  <2>1. CASE i = 0
    <3>1. g[i] = entries /\ 1 .. i = {}
      BY <1>6, <2>1
    <3>2. QED
      BY <1>5, <3>1
  <2>2. QED
    BY <2>1
<1>8. i - 1 \in 0 .. n /\ i - 1 \notin T /\ i \in 1 .. n /\ i \in Nat
  BY <1>1, <1>5, <1>6, <1>7
<1>9. g[i - 1] \in Configuration /\ Connected(g[i - 1]) = Joined(i - 1)
  BY <1>8
<1>10. order[i] \in Peer
  BY <1>8, ElementOfSeq DEF n
<1>11. /\ g[i] \in Configuration
       /\ Connected(g[i]) = Joined(i - 1) \cup {HostOf(order[i])}
  BY <1>6, <1>7, <1>9, <1>10, MergeOne
<1>12. Joined(i - 1) \cup {HostOf(order[i])} = Joined(i)
  <2>1. 1 .. i = (1 .. i - 1) \cup {i}
    BY <1>8
  <2>2. QED
    BY <2>1
<1>13. QED
  BY <1>5, <1>11, <1>12

LEMMA OrderOfSet ==
    ASSUME NEW S, IsFiniteSet(S), NEW order \in SetToSeqs(S)
    PROVE  order \in Seq(S) /\ {order[k] : k \in 1 .. Len(order)} = S
<1> DEFINE n == Cardinality(S)
<1>1. n \in Nat
  BY FS_CardinalityType
<1>2. /\ order \in [1 .. n -> S]
      /\ \A i, j \in 1 .. n : i # j => order[i] # order[j]
  BY DEF SetToSeqs
<1> HIDE DEF n
<1>3. order \in Injection(1 .. n, S)
  BY <1>2 DEF Injection, IsInjective
<1>4. Cardinality(1 .. n) = n
  BY <1>1, FS_Interval
<1>5. order \in Surjection(1 .. n, S)
  BY <1>3, <1>4, FS_Injection DEF n
<1>6. order \in Seq(S) /\ Len(order) = n
  BY <1>1, <1>2
<1>7. QED
  BY <1>2, <1>5, <1>6 DEF Surjection

-----------------------------------------------------------------------------
(* What this machine knows of the others.                                  *)

Hosts(ps) == {HostOf(p) : p \in ps}

\* What TypeOK says beyond Types; what is found and shown stays finite, so that a
\* list of it exists.
ScreenTypes ==
    /\ saved \in Configuration /\ config \in Configuration
    /\ daemon \in [state : {"absent", "down", "up"}, peers : Configuration]
    /\ stage \in Stages /\ selected \subseteq offered
    /\ pc \in {"idle", "query", "save", "next", "upload", "configure", "write", "service",
               "local", "restart", "wait", "done"}
    /\ IsFiniteSet(peers) /\ IsFiniteSet(found)

\* What is saved was there when setup began or is on its screen.
SavedIsKnown == stage # "Closed" => Connected(saved) \subseteq Connected(config) \cup Hosts(peers)

PeersAreSaved ==
    \/ pc \in {"next", "upload", "configure", "write", "service", "local", "restart", "wait",
              "done"}
    \/ stage = "Ready"
    => Hosts(peers) \subseteq Connected(saved)

\* A daemon that has older peers is one that answered the query, and until the
\* restart that is remembered.
StaleIsKnown ==
    /\ /\ pc \in {"next", "upload", "configure", "write", "service", "local"}
       /\ daemon.state = "up"
       => had \/ raced \/ daemon.peers = saved
    /\ (pc \in {"wait", "done"} \/ stage = "Ready") /\ daemon.state = "up" /\ Here \in Session =>
          raced \/ daemon.peers = saved

KInv == ScreenTypes /\ SavedIsKnown /\ PeersAreSaved /\ StaleIsKnown

LEMMA KnownInit == ASSUME Init PROVE KInv
<1>1. /\ saved \in Configuration /\ config = saved
      /\ daemon \in [state : {"absent", "down", "up"}, peers : Configuration]
  BY SetupAssumption DEF Init
<1>2. IsFiniteSet({})
  BY FS_EmptySet
<1>3. QED
  BY <1>1, <1>2
     DEF Init, KInv, ScreenTypes, SavedIsKnown, PeersAreSaved, StaleIsKnown, Stages

\* Which steps write what.
LEMMA Writers ==
    ASSUME [Next]_vars
    PROVE  /\ SaveConfig \/ UNCHANGED <<saved, raced>>
           /\ Quit \/ Reopen \/ UNCHANGED config
           /\ Verified \/ ToggleHeadless \/ Quit \/ UNCHANGED peers
           /\ (\E c \in Command : Probe(c)) \/ ProbeFails \/ Verified \/ Quit \/ UNCHANGED found
           /\ LocalService \/ Restart \/ LocalFails \/ DaemonGoes \/ DaemonReturns
                \/ UNCHANGED daemon
<1> USE DEF remote, shells, history, local, screen, verification, installation, Goes, Fail
<1>1. CASE Keys
  BY <1>1 DEF Keys, Begin, Type, Tick, EntryEnter, Verify, BeginInstall, ToggleHeadless,
              AddAnother, Install, Quit, Reopen
<1>2. CASE Verifying
  BY <1>2 DEF Verifying, Probe, Verified
<1>3. CASE InstallAll
  BY <1>3 DEF InstallAll, QueryStatus, SaveConfig, Inspect, UploadBinary, LookForConfig,
              WriteConfig,
              InstallService, ServiceRefused, LocalService, Restart, WaitEnds, WaitGivesUp,
              Installed
<1>4. CASE Failures
  BY <1>4 DEF Failures, ProbeFails, QueryTimesOut, RemoteFails, LocalFails, DaemonGoes
<1>5. CASE Meanwhile
  BY <1>5 DEF Meanwhile, TailscaleDiscovered, DaemonReturns, StrayLands, TornLands, SelfUpdate,
              InstallXvfb, OwnerConfigures
<1>6. CASE UNCHANGED vars
  BY <1>6 DEF vars
<1>7. QED
  BY <1>1, <1>2, <1>3, <1>4, <1>5, <1>6 DEF Next

LEMMA SaveConnects ==
    ASSUME IInv, KInv, SaveConfig
    PROVE  /\ saved' \in Configuration
           /\ Connected(saved)' = Connected(config) \cup Hosts(peers)
<1>1. PICK order \in SetToSeqs(todo) : saved' = MergePeers(config, order)
  BY DEF SaveConfig
<1>2. todo = peers /\ IsFiniteSet(todo) /\ peers \subseteq Peer
  BY DEF SaveConfig, IInv, Types, TaskInOrder, KInv, ScreenTypes
<1>3. order \in Seq(peers) /\ {order[k] : k \in 1 .. Len(order)} = peers
  BY <1>1, <1>2, OrderOfSet
<1>4. order \in Seq(Peer)
  BY <1>2, <1>3, SeqMonotonic
<1>5. config \in Configuration
  BY DEF KInv, ScreenTypes
<1>6. {HostOf(order[k]) : k \in 1 .. Len(order)} = Hosts(peers)
  BY <1>3 DEF Hosts
<1>7. /\ MergePeers(config, order) \in Configuration
      /\ Connected(MergePeers(config, order)) = Connected(config) \cup Hosts(peers)
  BY <1>4, <1>5, <1>6, MergedPeers
<1>8. Connected(saved)' = Connected(saved')
  BY DEF Connected
<1>9. QED
  BY <1>1, <1>7, <1>8

\* x changes no command.
LEMMA ToggleKeepsHosts ==
    ASSUME IInv, KInv, ToggleHeadless
    PROVE  Hosts(peers)' = Hosts(peers) /\ IsFiniteSet(peers')
<1> DEFINE capable == {p \in peers : p.needs /\ p.xvfb}
           enable == \E p \in capable : ~p.headless
           set == [p \in capable |-> [p EXCEPT !.headless = enable]]
           T == {set[p] : p \in capable}
<1>1. peers' = (peers \ capable) \cup T
  BY DEF ToggleHeadless
<1>2. capable \subseteq peers /\ peers \subseteq Peer /\ IsFiniteSet(peers)
  BY DEF IInv, Types, KInv, ScreenTypes
<1>3. \A p \in capable : HostOf(set[p]) = HostOf(p)
  <2>1. \A p \in Peer : \A b : [p EXCEPT !.headless = b].command = p.command
    BY DEF Peer
  <2>2. QED
    BY <1>2, <2>1 DEF HostOf
<1> HIDE DEF set, capable
<1>4. IsFiniteSet(capable)
  BY <1>2, FS_Subset
<1>5. IsFiniteSet(T)
  <2>1. set \in Surjection(capable, T)
    <3>1. set \in [capable -> T]
      BY DEF set
    <3>2. QED
      BY <3>1 DEF Surjection
  <2> HIDE DEF T
  <2>2. QED
    BY <1>4, <2>1, FS_Surjection
<1>6. IsFiniteSet(peers \ capable)
  BY <1>2, FS_Subset
<1>7. IsFiniteSet(peers')
  <2> HIDE DEF T
  <2>1. QED
    BY <1>1, <1>5, <1>6, FS_Union
<1>8. Hosts(peers') = Hosts(peers)
  <2>1. Hosts(T) = Hosts(capable)
    BY <1>3 DEF Hosts
  <2>2. Hosts(peers') = Hosts(peers \ capable) \cup Hosts(T)
    BY <1>1 DEF Hosts
  <2>3. Hosts(peers) = Hosts(peers \ capable) \cup Hosts(capable)
    BY <1>2 DEF Hosts
  <2>4. QED
    BY <2>1, <2>2, <2>3
<1>9. QED
  BY <1>7, <1>8 DEF Hosts

LEMMA ScreenTypesStep == ASSUME IInv, KInv, [Next]_vars PROVE ScreenTypes'
<1>1. saved' \in Configuration /\ config' \in Configuration
  <2>1. saved' \in Configuration
    BY Writers, SaveConnects DEF KInv, ScreenTypes
  <2>2. <<>> \in Configuration
    BY DEF Configuration
  <2>3. config' \in Configuration
    BY <2>2, Writers DEF KInv, ScreenTypes, Quit, Reopen
  <2>4. QED
    BY <2>1, <2>3
<1>2. daemon' \in [state : {"absent", "down", "up"}, peers : Configuration]
  <2>1. /\ daemon \in [state : {"absent", "down", "up"}, peers : Configuration]
        /\ Reloaded \in [state : {"absent", "down", "up"}, peers : Configuration]
    BY DEF KInv, ScreenTypes, Reloaded
  <2>2. LocalService \/ Restart \/ LocalFails \/ DaemonReturns => daemon' \in {daemon, Reloaded}
    BY DEF LocalService, Restart, LocalFails, DaemonReturns
  <2>3. DaemonGoes => daemon' = [daemon EXCEPT !.state = "down"]
    BY DEF DaemonGoes
  <2>4. QED
    BY <2>1, <2>2, <2>3, Writers
<1>3. IsFiniteSet(peers') /\ IsFiniteSet(found')
  <2>1. IsFiniteSet(peers) /\ IsFiniteSet(found) /\ IsFiniteSet({})
    BY FS_EmptySet DEF KInv, ScreenTypes
  <2>2. Verified => IsFiniteSet(peers')
    <3> DEFINE F == {f \in found : f.command \notin Commands(peers)}
    <3>1. F \subseteq found
      OBVIOUS
    <3> HIDE DEF F
    <3>2. IsFiniteSet(peers \cup F)
      BY <2>1, <3>1, FS_Subset, FS_Union
    <3>3. Verified => peers' = peers \cup F
      BY DEF Verified, Merged, F
    <3>4. QED
      BY <3>2, <3>3
  <2>3. \A x : IsFiniteSet(found \cup {x})
    BY <2>1, FS_AddElement
  <2>4. (\E c \in Command : Probe(c)) => \E x : found' = found \cup {x}
    BY DEF Probe
  <2>5. (Quit => peers' = {}) /\ (ProbeFails \/ Verified \/ Quit => found' = {})
    BY DEF Quit, ProbeFails, Verified
  <2>6. QED
    BY <2>1, <2>2, <2>3, <2>4, <2>5, Writers, ToggleKeepsHosts
<1>4. stage' \in Stages /\ selected' \subseteq offered'
      /\ pc' \in {"idle", "query", "save", "next", "upload", "configure", "write", "service",
                  "local", "restart", "wait", "done"}
  <2> USE DEF remote, shells, history, local, screen, verification, installation, Goes, Fail,
              TaskEnds, KInv,
              ScreenTypes, Stages
  <2>1. CASE Keys
    BY <2>1 DEF Keys, Begin, Type, Tick, EntryEnter, Verify, BeginInstall, ToggleHeadless,
                AddAnother, Install, Quit, Reopen
  <2>2. CASE Verifying
    BY <2>2 DEF Verifying, Probe, Verified
  <2>3. CASE InstallAll
    BY <2>3 DEF InstallAll, QueryStatus, SaveConfig, Inspect, UploadBinary, LookForConfig,
                WriteConfig,
                InstallService, ServiceRefused, LocalService, Restart, WaitEnds, WaitGivesUp,
                Installed
  <2>4. CASE Failures
    BY <2>4 DEF Failures, ProbeFails, QueryTimesOut, RemoteFails, LocalFails, DaemonGoes
  <2>5. CASE Meanwhile
    <3>1. UNCHANGED <<stage, pc>> /\ (selected' = {} \/ UNCHANGED <<selected, offered>>)
      BY <2>5 DEF Meanwhile, TailscaleDiscovered, DaemonReturns, StrayLands, TornLands,
                  SelfUpdate,
                  InstallXvfb, OwnerConfigures
    <3>2. QED
      BY <3>1
  <2>6. CASE UNCHANGED vars
    BY <2>6 DEF vars
  <2>7. QED
    BY <2>1, <2>2, <2>3, <2>4, <2>5, <2>6 DEF Next
<1>5. QED
  BY <1>1, <1>2, <1>3, <1>4 DEF ScreenTypes

LEMMA HostsGrow ==
    ASSUME IInv, KInv, [Next]_vars
    PROVE  /\ Quit \/ Hosts(peers) \subseteq Hosts(peers')
           /\ Verified \/ Quit \/ Hosts(peers') = Hosts(peers)
<1>1. Verified => peers \subseteq peers'
  BY DEF Verified, Merged
<1>2. peers \subseteq peers' => Hosts(peers) \subseteq Hosts(peers')
  BY DEF Hosts
<1>3. ToggleHeadless => Hosts(peers') = Hosts(peers)
  BY ToggleKeepsHosts DEF Hosts
<1>4. QED
  BY <1>1, <1>2, <1>3, Writers

LEMMA SavedIsKnownStep == ASSUME IInv, KInv, [Next]_vars PROVE SavedIsKnown'
<1>1. SUFFICES ASSUME stage' # "Closed"
               PROVE  Connected(saved') \subseteq Connected(config') \cup Hosts(peers')
  BY DEF SavedIsKnown, Connected, Hosts
<1>2. ~Quit
  BY <1>1 DEF Quit
<1>3. CASE SaveConfig
  <2>1. config' = config /\ peers' = peers
    BY <1>3 DEF SaveConfig, Goes, screen
  <2>2. QED
    BY <1>3, <2>1, SaveConnects DEF Connected, Hosts
<1>4. CASE Reopen
  BY <1>4 DEF Reopen, local
<1>5. CASE ~SaveConfig /\ ~Reopen
  <2>1. UNCHANGED <<saved, config>>
    BY <1>2, <1>5, Writers
  <2>2. stage # "Closed"
    <3> USE DEF Goes, screen
    <3>1. SUFFICES ASSUME stage = "Closed" PROVE stage' = "Closed"
      BY <1>1
    <3>2. pc = "idle"
      BY <3>1 DEF IInv, TaskInOrder
    <3>3. CASE Keys \/ Verifying \/ UNCHANGED vars
      BY <1>5, <3>1, <3>3 DEF Keys, Begin, Type, Tick, EntryEnter, ToggleHeadless, AddAnother,
                        Install, Quit, Verifying, Probe, Verified, vars
    <3>4. CASE InstallAll \/ Failures
      BY <3>1, <3>2, <3>4 DEF InstallAll, QueryStatus, SaveConfig, Inspect, UploadBinary,
              LookForConfig, WriteConfig, InstallService, ServiceRefused, LocalService, Restart,
              WaitEnds,
              WaitGivesUp, Installed, Failures, ProbeFails, QueryTimesOut, RemoteFails,
              LocalFails, DaemonGoes
    <3>5. CASE Meanwhile
      BY <3>1, <3>5 DEF Meanwhile, TailscaleDiscovered, DaemonReturns, StrayLands, TornLands,
                        SelfUpdate,
                InstallXvfb, OwnerConfigures
    <3>6. QED
      BY <3>3, <3>4, <3>5 DEF Next
  <2>3. Hosts(peers) \subseteq Hosts(peers')
    BY <1>2, HostsGrow
  <2>4. QED
    BY <2>1, <2>2, <2>3 DEF KInv, SavedIsKnown
<1>6. QED
  BY <1>3, <1>4, <1>5

\* Where the task stands after a step, and where it stood.
LEMMA TaskMoves ==
    ASSUME IInv, KInv, [Next]_vars, stage' = "Ready" \/ pc' \notin {"idle", "query", "save"}
    PROVE  /\ peers' = peers
           /\ SaveConfig \/ UNCHANGED <<saved, raced>>
           /\ SaveConfig \/ stage = "Ready" \/ pc \notin {"idle", "query", "save"}
<1>1. peers' = peers
  BY Writers DEF Verified, ToggleHeadless, Quit, TaskEnds, IInv, TaskInOrder, installation
<1>2. SaveConfig \/ stage = "Ready" \/ pc \notin {"idle", "query", "save"}
  <2> USE DEF Goes, screen, TaskEnds, Fail, IInv, TaskInOrder, installation
  <2>1. CASE Keys \/ Verifying \/ UNCHANGED vars
    BY <2>1 DEF Keys, Begin, Type, Tick, EntryEnter, Verify, BeginInstall, ToggleHeadless,
                AddAnother, Install, Quit, Reopen, Verifying, Probe, Verified, vars
  <2>2. CASE InstallAll
    BY <2>2 DEF InstallAll, QueryStatus, Inspect, UploadBinary, LookForConfig, WriteConfig,
                InstallService,
                ServiceRefused, LocalService, Restart, WaitEnds, WaitGivesUp, Installed
  <2>3. CASE Failures
    BY <2>3 DEF Failures, ProbeFails, QueryTimesOut, RemoteFails, LocalFails, DaemonGoes
  <2>4. CASE Meanwhile
    BY <2>4 DEF Meanwhile, TailscaleDiscovered, DaemonReturns, StrayLands, TornLands, SelfUpdate,
                InstallXvfb, OwnerConfigures
  <2>5. QED
    BY <2>1, <2>2, <2>3, <2>4 DEF Next
<1>3. QED
  BY <1>1, <1>2, Writers

LEMMA PeersAreSavedStep == ASSUME IInv, KInv, [Next]_vars PROVE PeersAreSaved'
<1>1. SUFFICES ASSUME stage' = "Ready" \/ pc' \notin {"idle", "query", "save"}
               PROVE  Hosts(peers') \subseteq Connected(saved')
  BY DEF PeersAreSaved, Hosts, Connected
<1>2. Connected(saved)' = Connected(saved')
  BY DEF Connected
<1>3. CASE SaveConfig
  BY <1>1, <1>2, <1>3, SaveConnects, TaskMoves
<1>4. CASE ~SaveConfig
  <2>1. Hosts(peers) \subseteq Connected(saved)
    BY <1>1, <1>4, TaskMoves DEF KInv, PeersAreSaved, ScreenTypes
  <2>2. QED
    BY <1>1, <1>4, <2>1, TaskMoves
<1>5. QED
  BY <1>3, <1>4

\* Whoever restarts the daemon has it load what is saved.
LEMMA StaleIsKnownStep == ASSUME IInv, KInv, [Next]_vars PROVE StaleIsKnown'
<1>1. CASE SaveConfig
  BY <1>1 DEF SaveConfig, Goes, screen, IInv, TaskInOrder, StaleIsKnown
<1>2. CASE ~SaveConfig /\ daemon' = Reloaded
  BY <1>2, Writers DEF StaleIsKnown, Reloaded
<1>3. CASE ~SaveConfig /\ (\/ UNCHANGED daemon \/ DaemonGoes)
  <2>1. UNCHANGED <<saved, raced>> /\ (daemon' = daemon \/ daemon'.state = "down")
    <3>1. DaemonGoes => daemon'.state = "down"
      BY DEF DaemonGoes, KInv, ScreenTypes
    <3>2. QED
      BY <1>3, <3>1, Writers
  <2>2. /\ pc' \in {"next", "upload", "configure", "write", "service", "local"} =>
              had' = had /\ pc \in {"next", "upload", "configure", "write", "service", "local"}
        /\ pc' \in {"wait", "done"} \/ stage' = "Ready" =>
              \/ pc \in {"wait", "done"} \/ stage = "Ready"
              \/ Restart
              \/ pc = "local" /\ (~had \/ Here \notin Session)
    <3> USE DEF Goes, screen, TaskEnds, Fail, IInv, TaskInOrder
    <3>1. CASE Keys \/ Verifying \/ UNCHANGED vars
      BY <3>1 DEF Keys, Begin, Type, Tick, EntryEnter, Verify, BeginInstall, ToggleHeadless,
                  AddAnother, Install, Quit, Reopen, Verifying, Probe, Verified, local, vars,
                  installation
    <3>2. CASE InstallAll
      BY <1>3, <3>2 DEF InstallAll, QueryStatus, Inspect, UploadBinary, LookForConfig,
                        WriteConfig,
                  InstallService, ServiceRefused, LocalService, Restart, WaitEnds, WaitGivesUp,
                  Installed, local
    <3>3. CASE Failures
      BY <3>3 DEF Failures, ProbeFails, QueryTimesOut, RemoteFails, LocalFails, DaemonGoes,
                  local, installation
    <3>4. CASE Meanwhile
      BY <3>4 DEF Meanwhile, TailscaleDiscovered, DaemonReturns, StrayLands, TornLands,
                  SelfUpdate,
                  InstallXvfb, OwnerConfigures, local, installation
    <3>5. QED
      BY <3>1, <3>2, <3>3, <3>4 DEF Next
  <2>3. Restart => daemon' = Reloaded
    BY DEF Restart
  <2>4. QED
    BY <2>1, <2>2, <2>3 DEF KInv, StaleIsKnown, Reloaded
<1>4. \/ daemon' = Reloaded \/ UNCHANGED daemon \/ DaemonGoes
  BY Writers DEF LocalService, Restart, LocalFails, DaemonReturns
<1>5. QED
  BY <1>1, <1>2, <1>3, <1>4

LEMMA KnownStep == ASSUME IInv, KInv, [Next]_vars PROVE KInv'
BY ScreenTypesStep, SavedIsKnownStep, PeersAreSavedStep, StaleIsKnownStep DEF KInv

\* Every variable of setup keeps its type, whatever is typed, found, installed or
\* goes wrong, and so does the configuration that it saves.
THEOREM TypesHold == Spec => []TypeOK
<1>1. IInv /\ KInv /\ SInv => TypeOK
  <2>1. \A s \in Configuration : \A i \in DOMAIN s : s[i] \in Entry
    BY DEF Configuration
  <2>2. QED
    BY <2>1 DEF IInv, Types, KInv, ScreenTypes, SInv, ShellTypes, TypeOK
<1>2. QED
  BY <1>1, InitOk, NextOk, KnownInit, KnownStep, ShellsInit, ShellsStep, PTL DEF Spec

\* A machine that this one was ever connected to stays in its configuration.
THEOREM ConnectionsStay == Spec => ConnectionsKept
<1>1. IInv /\ KInv /\ [Next]_vars => [Connected(saved) \subseteq Connected(saved')]_vars
  <2> SUFFICES ASSUME IInv, KInv, [Next]_vars
               PROVE  Connected(saved) \subseteq Connected(saved')
    OBVIOUS
  <2>1. CASE SaveConfig
    <3>1. stage # "Closed"
      BY <2>1 DEF SaveConfig, IInv, TaskInOrder
    <3>2. Connected(saved)' = Connected(saved')
      BY DEF Connected
    <3>3. QED
      BY <2>1, <3>1, <3>2, SaveConnects DEF KInv, SavedIsKnown
  <2>2. CASE ~SaveConfig
    BY <2>2, Writers
  <2>3. QED
    BY <2>1, <2>2
<1>2. QED
  BY <1>1, InitOk, NextOk, KnownInit, KnownStep, PTL DEF Spec, ConnectionsKept

\* Setup that says ready has saved every machine on its screen, and the daemon of
\* this machine has loaded them, unless it came up behind the query.
THEOREM ReadyIsLoaded == Spec => []ReadyMeansLoaded
<1>1. IInv /\ KInv => ReadyMeansLoaded
  BY DEF KInv, PeersAreSaved, StaleIsKnown, Hosts, ReadyMeansLoaded
<1>2. QED
  BY <1>1, InitOk, NextOk, KnownInit, KnownStep, PTL DEF Spec

=============================================================================
