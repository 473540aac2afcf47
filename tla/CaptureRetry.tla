---------------------------- MODULE CaptureRetry ----------------------------
(***************************************************************************)
(* When the watcher reads the clipboard: after its first capture it waits  *)
(* for change notifications, or polls where there are none, and retries a  *)
(* failed read on its own timer (src/daemon/capture_retry.rs and the loop  *)
(* of watch_clipboard in src/daemon.rs).  ClipMesh says what the watcher   *)
(* does with what it read; here a read succeeds or fails, and the clipboard *)
(* is the number of copies made so far.                                    *)
(***************************************************************************)
EXTENDS Naturals

CONSTANTS
    Budget,     \* retries of a failed read (4 in the code)
    MaxCopies,  \* bound: copies in a behaviour
    MaxErrors   \* bound: reads that fail although there is data to read

ASSUME RetryAssumption ==
    /\ Budget \in Nat \ {0}
    /\ MaxCopies \in Nat
    /\ MaxErrors \in Nat

VARIABLES
    content,   \* the copy on the clipboard
    ready,     \* its owner has published the data
    errors,    \* transient read errors so far
    source,    \* "none" before the watch starts, "events", "ending" or "poll"
    notices,   \* change notifications not yet received
    pc,        \* "starting", "waiting" or "reading"
    failures,  \* CaptureRetry.failures
    deadline,  \* CaptureRetry.deadline: "none" or "set"
    read,      \* the copy the last successful read returned
    tries,     \* failed reads since the watcher was last told to look (history)
    arrived    \* the copy on the clipboard came "early", before the watch, or "watched" (history)

clipboardVars == <<content, ready, arrived>>
retryVars == <<failures, deadline>>
vars == <<clipboardVars, errors, source, notices, pc, retryVars, read, tries>>

Init ==
    /\ content = 0
    /\ ready = TRUE
    /\ errors = 0
    /\ source = "none"
    /\ notices = 0
    /\ pc = "starting"
    /\ failures = 0
    /\ deadline = "none"
    /\ read = 0
    /\ tries = 0
    /\ arrived = "early"

-----------------------------------------------------------------------------
(* The desktop. *)

\* A program takes the clipboard, with its data or before it has the data.
Copy ==
    /\ content < MaxCopies
    /\ content' = content + 1
    /\ ready' \in BOOLEAN
    /\ arrived' = IF source = "none" THEN "early" ELSE "watched"
    /\ notices' = IF source = "events" THEN notices + 1 ELSE notices
    /\ UNCHANGED <<errors, source, pc, retryVars, read, tries>>

ProvideData ==
    /\ ~ready
    /\ ready' = TRUE
    /\ UNCHANGED <<content, arrived, errors, source, notices, pc, retryVars, read, tries>>

\* The thread that delivers notifications ends.
EventsEnd ==
    /\ source = "events"
    /\ source' = "ending"
    /\ UNCHANGED <<clipboardVars, errors, notices, pc, retryVars, read, tries>>

-----------------------------------------------------------------------------
(* CaptureRetry. *)

\* Mutant: the last retry is not granted.
FailedEarly ==
    /\ failures' = failures + 1
    /\ deadline' = IF failures' < Budget THEN "set" ELSE "none"

failed ==
    /\ failures' = failures + 1
    /\ deadline' = IF failures' <= Budget THEN "set" ELSE "none"

reset ==
    /\ failures' = 0
    /\ deadline' = "none"

-----------------------------------------------------------------------------
(* The watcher. *)

Succeeds ==
    /\ ready
    /\ read' = content
    /\ tries' = 0
    /\ UNCHANGED errors

\* An empty read, or an error although the data is there.
Fails ==
    /\ \/ ~ready /\ UNCHANGED errors
       \/ ready /\ errors < MaxErrors /\ errors' = errors + 1
    /\ tries' = tries + 1
    /\ failed
    /\ UNCHANGED read

\* The first capture only sets the baseline.
InitialCapture ==
    /\ pc = "starting"
    /\ \/ Succeeds /\ UNCHANGED retryVars
       \/ Fails
    /\ pc' = "subscribing"
    /\ UNCHANGED <<clipboardVars, source, notices>>

\* change_receiver: notifications where the desktop has them, polling elsewhere.
Subscribe ==
    /\ pc = "subscribing"
    /\ source' \in {"events", "poll"}
    /\ pc' = "waiting"
    /\ UNCHANGED <<clipboardVars, errors, notices, retryVars, read, tries>>

\* Mutant: a notification does not renew the budget of retries.
NotifiedOnly ==
    /\ pc = "waiting"
    /\ notices > 0
    /\ notices' = notices - 1
    /\ deadline' = "none"
    /\ tries' = 0
    /\ pc' = "reading"
    /\ UNCHANGED <<clipboardVars, errors, source, failures, read>>

Notified ==
    /\ pc = "waiting"
    /\ notices > 0
    /\ notices' = notices - 1
    /\ reset
    /\ tries' = 0
    /\ pc' = "reading"
    /\ UNCHANGED <<clipboardVars, errors, source, read>>

\* The closed channel is drained: the watcher polls from now on.
FallBack ==
    /\ pc = "waiting"
    /\ source = "ending"
    /\ notices = 0
    /\ source' = "poll"
    /\ UNCHANGED <<clipboardVars, errors, notices, pc, retryVars, read, tries>>

\* Mutant: once the retries are spent, a tick no longer leads to a read.
TickWithinBudget ==
    /\ pc = "waiting"
    /\ source = "poll"
    /\ failures <= Budget
    /\ IF failures = 0 THEN reset ELSE UNCHANGED retryVars
    /\ tries' = 0
    /\ pc' = "reading"
    /\ UNCHANGED <<clipboardVars, errors, source, notices, read>>

Tick ==
    /\ pc = "waiting"
    /\ source = "poll"
    /\ reset
    /\ tries' = 0
    /\ pc' = "reading"
    /\ UNCHANGED <<clipboardVars, errors, source, notices, read>>

DeadlinePasses ==
    /\ pc = "waiting"
    /\ deadline = "set"
    /\ deadline' = "none"
    /\ pc' = "reading"
    /\ UNCHANGED <<clipboardVars, errors, source, notices, failures, read, tries>>

Capture ==
    /\ pc = "reading"
    /\ \/ Succeeds /\ reset
       \/ Fails
    /\ pc' = "waiting"
    /\ UNCHANGED <<clipboardVars, source, notices>>

-----------------------------------------------------------------------------

Watcher ==
    \/ InitialCapture \/ Subscribe \/ Notified \/ FallBack \/ Tick \/ DeadlinePasses \/ Capture

Next == Copy \/ ProvideData \/ EventsEnd \/ Watcher

Spec == Init /\ [][Next]_vars

\* The watcher runs, its timers fire, and whoever took the clipboard publishes
\* the data in the end.
FairSpec == Spec /\ WF_vars(Watcher) /\ WF_vars(ProvideData)

-----------------------------------------------------------------------------

TypeOK ==
    /\ content \in 0 .. MaxCopies
    /\ ready \in BOOLEAN
    /\ errors \in 0 .. MaxErrors
    /\ source \in {"none", "events", "ending", "poll"}
    /\ notices \in 0 .. content
    /\ pc \in {"starting", "subscribing", "waiting", "reading"}
    /\ failures \in 0 .. Budget + 1
    /\ deadline \in {"none", "set"}
    /\ read \in 0 .. content
    /\ tries \in 0 .. Budget + 1
    /\ arrived \in {"early", "watched"}

\* The two counts agree, a failed read leaves the timer running while retries
\* are left, and a watcher at rest without a failure has read what it was told
\* about.  The proofs build on it.
RetryInOrder ==
    /\ tries = failures
    /\ pc = "starting" => failures = 0 /\ deadline = "none"
    /\ deadline = "set" => failures \in 1 .. Budget
    /\ failures \in 1 .. Budget /\ pc # "reading" => deadline = "set"
    /\ pc = "reading" => failures <= Budget /\ deadline = "none"
    /\ pc \in {"starting", "subscribing"} => source = "none" /\ arrived = "early"
    /\ pc \in {"waiting", "reading"} => source # "none"
    /\ source = "events" /\ pc = "waiting" /\ notices = 0 /\ failures = 0
         => read = content \/ arrived = "early"

\* The watcher may look at the clipboard again without another copy.
WillLook == pc # "waiting" \/ notices > 0 \/ deadline = "set" \/ source # "events"

\* A copy that was announced is dropped only after a first read and the whole
\* budget of retries failed since: no earlier failure counts against it.
GivesUpAfterBudget ==
    ~WillLook /\ read # content /\ arrived = "watched" => tries = Budget + 1

\* Whatever is copied, the watcher catches up with the clipboard, unless the
\* desktop delivers notifications and either the retries ran out or the copy
\* came before the watch began.
ReadOrGivenUp ==
    read # content ~> \/ read = content
                      \/ source = "events" /\ (tries = Budget + 1 \/ arrived = "early")

=============================================================================
