-------------------------- MODULE ClipboardProofs ---------------------------
(***************************************************************************)
(* Proofs about a machine's clipboard and what watches and reads it: about *)
(* CaptureRetry for every budget of retries, about the watcher of          *)
(* FileClaim, which is one of its implementations, and about the reads of  *)
(* Selection, for every set of windows and formats and every sequence of   *)
(* publications.                                                           *)
(***************************************************************************)
EXTENDS FileClaim, Selection, FiniteSetTheorems, SequenceTheorems, TLAPS

-----------------------------------------------------------------------------
(* CaptureRetry. *)

IInv == TypeOK /\ RetryInOrder

LEMMA InvInit == Init => IInv
BY RetryAssumption DEF Init, IInv, TypeOK, RetryInOrder

LEMMA InvStep == IInv /\ [Next]_vars => IInv'
<1> SUFFICES ASSUME IInv, [Next]_vars PROVE IInv'
  OBVIOUS
<1> USE RetryAssumption DEF IInv, TypeOK, RetryInOrder, clipboardVars, retryVars
<1>1. CASE Copy
  BY <1>1 DEF Copy
<1>2. CASE ProvideData
  BY <1>2 DEF ProvideData
<1>3. CASE EventsEnd
  BY <1>3 DEF EventsEnd
<1>4. CASE InitialCapture
  BY <1>4 DEF InitialCapture, Succeeds, Fails, failed
<1>5. CASE Subscribe
  BY <1>5 DEF Subscribe
<1>6. CASE Notified
  BY <1>6 DEF Notified, reset
<1>7. CASE FallBack
  BY <1>7 DEF FallBack
<1>8. CASE Tick
  BY <1>8 DEF Tick, reset
<1>9. CASE DeadlinePasses
  BY <1>9 DEF DeadlinePasses
<1>10. CASE Capture
  <2>1. CASE Succeeds /\ reset
    BY <1>10, <2>1 DEF Capture, Succeeds, reset
  <2>2. CASE Fails
    BY <1>10, <2>2 DEF Capture, Fails, failed
  <2>3. QED
    BY <1>10, <2>1, <2>2 DEF Capture
<1>11. CASE UNCHANGED vars
  BY <1>11 DEF vars
<1>12. QED
  BY <1>1, <1>2, <1>3, <1>4, <1>5, <1>6, <1>7, <1>8, <1>9, <1>10, <1>11 DEF Next, Watcher

\* Whatever the budget, an announced copy is dropped only when a first read and
\* every retry failed after it was announced.
THEOREM NoCopyDroppedEarly == Spec => []GivesUpAfterBudget
<1>1. IInv => GivesUpAfterBudget
  BY RetryAssumption DEF IInv, TypeOK, RetryInOrder, GivesUpAfterBudget, WillLook
<1>2. QED
  BY <1>1, InvInit, InvStep, PTL DEF Spec

\* The watcher's counts, timer and place keep to their ranges.
THEOREM RetryTypes == Spec => []TypeOK
<1>1. IInv => TypeOK
  BY DEF IInv
<1>2. QED
  BY <1>1, InvInit, InvStep, PTL DEF Spec

-----------------------------------------------------------------------------
(* Each step of the composed watcher is one of CaptureRetry's. *)

LEMMA RetryInit == ClaimInit => Init
BY DEF ClaimInit

LEMMA RetryStep == [ClaimNext]_allVars => [Next]_vars
<1> SUFFICES ASSUME [ClaimNext]_allVars PROVE Next \/ UNCHANGED vars
  OBVIOUS
<1>1. CASE BridgeEchoes \/ \E v \in Value : UserCopies(v)
  BY <1>1 DEF BridgeEchoes, UserCopies, Others, Put, Next
<1>2. CASE Desktop
  BY <1>2 DEF Desktop, Next
<1>3. CASE ClaimExpires \/ \E v \in Value : ClipComes(v)
  BY <1>3 DEF ClaimExpires, ClipComes
<1>4. CASE StartsWatching \/ WatcherWaits
  BY <1>4 DEF StartsWatching, WatcherWaits, Next, Watcher
<1>5. CASE CaptureFails \/ IgnoresEcho \/ WillRestore \/ KnownAlready \/ Sends
  BY <1>5 DEF CaptureFails, IgnoresEcho, WillRestore, KnownAlready, Sends, Reads, Next, Watcher
<1>6. CASE TakesLock \/ RestoreFails \/ RestoreReadBack \/ RestoreReadBackFails
  BY <1>6 DEF TakesLock, RestoreFails, RestoreReadBack, RestoreReadBackFails
<1>7. CASE Restores \/ Applies
  BY <1>7 DEF Restores, Applies, Put, Next
<1>8. CASE ReaderTakesLock \/ ApplyFails \/ ApplyReadBack \/ ApplyReadBackFails
  BY <1>8 DEF ReaderTakesLock, ApplyFails, ApplyReadBack, ApplyReadBackFails
<1>9. CASE UNCHANGED allVars
  BY <1>9 DEF allVars
<1>10. QED
  BY <1>1, <1>2, <1>3, <1>4, <1>5, <1>6, <1>7, <1>8, <1>9 DEF ClaimNext, ClaimWatcher, Reader

\* However long the claim, the lock and the clips that come in hold the watcher
\* up, it retries as CaptureRetry says.
THEOREM RetryImplemented == ClaimSpec => Spec
BY RetryInit, RetryStep, PTL DEF ClaimSpec, Spec

\* So a copy on a Mac is given up only after its budget of reads, too.
THEOREM NoClaimedCopyDroppedEarly == ClaimSpec => []GivesUpAfterBudget
BY RetryImplemented, NoCopyDroppedEarly, PTL

-----------------------------------------------------------------------------
(* The claim. *)

ClaimInv == Ranges /\ ClaimTypes /\ HasWhatItPuts /\ AllAccounted /\ EchoIsKnown

LEMMA ClaimInvInit == ClaimInit => ClaimInv
BY ClaimAssumption DEF ClaimInit, ClaimInv, Ranges, ClaimTypes, HasWhatItPuts, AllAccounted,
   EchoIsKnown, Accounted, Value, Nothing

LEMMA Unchanged ==
  UNCHANGED claimStateVars =>
    UNCHANGED <<value, by, under, previous, known, suppressed, claim, restore, rounds, lock, step,
                reader, incoming, mistaken, puts, clips, faults>>
BY DEF claimStateVars,
    boardVars, watchVars, claimVars, readerVars, counts

LEMMA Values == Nothing \notin Value /\ "files" \in Value /\ "name" \in Value
BY DEF Value, Nothing

LEMMA RoundsPositive == 0 < MaxRounds
BY ClaimAssumption

LEMMA BelowBound ==
  ASSUME NEW n \in 0 .. MaxRounds, n < MaxRounds, n + 1 # MaxRounds
  PROVE  n + 1 < MaxRounds
BY ClaimAssumption

LEMMA Raised ==
  ASSUME NEW S, NEW f \in [S -> Nat], NEW x \in S
  PROVE  LET g == [f EXCEPT ![x] = @ + 1]
         IN  /\ g \in [S -> Nat]
             /\ g[x] > 0
             /\ \A y \in S : g[y] > 0 => y = x \/ f[y] > 0
<1>1. f[x] \in Nat
  OBVIOUS
<1>2. QED
  BY <1>1

LEMMA Lowered ==
  ASSUME NEW S, NEW f \in [S -> Nat], NEW x \in S, f[x] > 0
  PROVE  LET g == [f EXCEPT ![x] = @ - 1]
         IN  /\ g \in [S -> Nat]
             /\ \A y \in S : g[y] > 0 => f[y] > 0
<1>1. f[x] - 1 \in Nat
  OBVIOUS
<1>2. QED
  BY <1>1

LEMMA RangesStep ==
  Ranges /\ ClaimTypes /\ HasWhatItPuts /\ errors \in Nat /\ [ClaimNext]_allVars
    => Ranges'
<1> SUFFICES ASSUME Ranges, ClaimTypes, HasWhatItPuts, errors \in Nat, [ClaimNext]_allVars
             PROVE  Ranges'
  OBVIOUS
<1> USE ClaimAssumption, Values DEF Ranges,
    boardVars, watchVars, claimVars, readerVars, counts
<1>1. ASSUME NEW v \in Value, NEW who \in {"user", "bridge"}, Others(v, who),
             who = "bridge" => v = "name"
      PROVE  Ranges'
  BY <1>1 DEF Others, Put, Copy
<1>2. CASE Desktop
  BY <1>2, Unchanged DEF Desktop
<1>3. CASE ClaimExpires
  BY <1>3 DEF ClaimExpires
<1>4. CASE StartsWatching
  BY <1>4 DEF StartsWatching
<1>5. CASE WatcherWaits
  BY <1>5, Unchanged DEF WatcherWaits
<1>6. CASE TakesLock
  BY <1>6 DEF TakesLock
<1>7. CASE CaptureFails
  BY <1>7 DEF CaptureFails, Reads, LetsGo
<1>8. CASE IgnoresEcho
  BY <1>8 DEF IgnoresEcho, Reads, LetsGo
<1>9. CASE WillRestore
  BY <1>9 DEF WillRestore, Reads
<1>10. CASE KnownAlready
  <2>1. UNCHANGED <<rounds, puts, clips, faults>>
    BY <1>10 DEF KnownAlready, Reads
  <2>2. CASE UNCHANGED suppressed
    BY <2>1, <2>2
  <2>3. CASE suppressed[value] > 0 /\ suppressed' = [suppressed EXCEPT ![value] = @ - 1]
    <3>1. suppressed' \in [Value -> Nat]
      BY <2>3, Lowered DEF ClaimTypes
    <3>2. QED
      BY <2>1, <3>1
  <2>4. QED
    BY <1>10, <2>2, <2>3 DEF KnownAlready
<1>11. CASE Sends
  BY <1>11 DEF Sends, Reads, LetsGo, Matches
<1>12. CASE RestoreFails
  BY <1>12 DEF RestoreFails, Fault, LetsGo
<1>13. CASE Restores
  BY <1>13 DEF Restores, Put, Copy, HasWhatItPuts
<1>14. CASE RestoreReadBack
  BY <1>14 DEF RestoreReadBack, Mistakes, LetsGo
<1>15. CASE RestoreReadBackFails
  BY <1>15 DEF RestoreReadBackFails, ReadBackFails, Fault, LetsGo
<1>16. ASSUME NEW v \in Value, ClipComes(v)
      PROVE  Ranges'
  BY <1>16 DEF ClipComes
<1>17. CASE ReaderTakesLock
  BY <1>17 DEF ReaderTakesLock
<1>18. CASE ApplyFails
  BY <1>18 DEF ApplyFails, Fault, ReaderDone
<1>19. CASE Applies
  BY <1>19 DEF Applies, Put, Copy
<1>20. CASE ApplyReadBack
  <2>1. suppressed' = [suppressed EXCEPT ![value] = @ + 1]
    BY <1>20 DEF ApplyReadBack
  <2>2. suppressed' \in [Value -> Nat]
    BY <2>1, Raised DEF ClaimTypes
  <2>3. rounds' = 0 /\ UNCHANGED <<puts, clips, faults>>
    BY <1>20 DEF ApplyReadBack
  <2>4. QED
    BY <2>2, <2>3
<1>21. CASE ApplyReadBackFails
  <2>1. UNCHANGED <<suppressed, rounds, puts, clips>> /\ (UNCHANGED faults \/ Fault)
    BY <1>21 DEF ApplyReadBackFails, ReadBackFails
  <2>2. QED
    BY <2>1 DEF Fault
<1>22. CASE UNCHANGED allVars
  BY <1>22, Unchanged DEF allVars
<1>23. QED
  BY <1>1, <1>2, <1>3, <1>4, <1>5, <1>6, <1>7, <1>8, <1>9, <1>10, <1>11, <1>12, <1>13, <1>14,
     <1>15, <1>16, <1>17, <1>18, <1>19, <1>20, <1>21, <1>22 DEF ClaimNext, ClaimWatcher, Reader,
     BridgeEchoes, UserCopies, Value

LEMMA ClaimTypesStep ==
  ClaimTypes /\ HasWhatItPuts /\ [ClaimNext]_allVars
    => ClaimTypes'
<1> SUFFICES ASSUME ClaimTypes, HasWhatItPuts, [ClaimNext]_allVars
             PROVE  ClaimTypes'
  OBVIOUS
<1> USE ClaimAssumption, Values DEF ClaimTypes, HasWhatItPuts,
    boardVars, watchVars, claimVars, readerVars, counts
<1>1. ASSUME NEW v \in Value, NEW who \in {"user", "bridge"}, Others(v, who),
             who = "bridge" => v = "name"
      PROVE  ClaimTypes'
  BY <1>1 DEF Others, Put, Copy
<1>2. CASE Desktop
  BY <1>2, Unchanged DEF Desktop
<1>3. CASE ClaimExpires
  BY <1>3 DEF ClaimExpires
<1>4. CASE StartsWatching
  BY <1>4 DEF StartsWatching
<1>5. CASE WatcherWaits
  BY <1>5, Unchanged DEF WatcherWaits
<1>6. CASE TakesLock
  BY <1>6 DEF TakesLock
<1>7. CASE CaptureFails
  BY <1>7 DEF CaptureFails, Reads, LetsGo
<1>8. CASE IgnoresEcho
  BY <1>8 DEF IgnoresEcho, Reads, LetsGo
<1>9. CASE WillRestore
  BY <1>9 DEF WillRestore, Reads
<1>10. CASE KnownAlready
  BY <1>10 DEF KnownAlready, Reads, LetsGo, Matches
<1>11. CASE Sends
  BY <1>11 DEF Sends, Reads, LetsGo, Matches
<1>12. CASE RestoreFails
  BY <1>12 DEF RestoreFails, Fault, LetsGo
<1>13. CASE Restores
  BY <1>13 DEF Restores, Put, Copy
<1>14. CASE RestoreReadBack
  BY <1>14 DEF RestoreReadBack, Mistakes, LetsGo
<1>15. CASE RestoreReadBackFails
  BY <1>15 DEF RestoreReadBackFails, ReadBackFails, Fault, LetsGo
<1>16. ASSUME NEW v \in Value, ClipComes(v)
      PROVE  ClaimTypes'
  BY <1>16 DEF ClipComes
<1>17. CASE ReaderTakesLock
  BY <1>17 DEF ReaderTakesLock
<1>18. CASE ApplyFails
  BY <1>18 DEF ApplyFails, Fault, ReaderDone
<1>19. CASE Applies
  BY <1>19 DEF Applies, Put, Copy
<1>20. CASE ApplyReadBack
  BY <1>20 DEF ApplyReadBack, Mistakes, ReaderDone
<1>21. CASE ApplyReadBackFails
  BY <1>21 DEF ApplyReadBackFails, ReadBackFails, Fault, ReaderDone
<1>22. CASE UNCHANGED allVars
  BY <1>22, Unchanged DEF allVars
<1>23. QED
  BY <1>1, <1>2, <1>3, <1>4, <1>5, <1>6, <1>7, <1>8, <1>9, <1>10, <1>11, <1>12, <1>13, <1>14,
     <1>15, <1>16, <1>17, <1>18, <1>19, <1>20, <1>21, <1>22 DEF ClaimNext, ClaimWatcher, Reader,
     BridgeEchoes, UserCopies, Value

LEMMA HasWhatItPutsStep ==
  Ranges /\ ClaimTypes /\ HasWhatItPuts /\ [ClaimNext]_allVars
    => HasWhatItPuts'
<1> SUFFICES ASSUME Ranges, ClaimTypes, HasWhatItPuts, [ClaimNext]_allVars
             PROVE  HasWhatItPuts'
  OBVIOUS
<1> USE ClaimAssumption, Values DEF ClaimTypes, HasWhatItPuts,
    boardVars, watchVars, claimVars, readerVars, counts
<1>1. ASSUME NEW v \in Value, NEW who \in {"user", "bridge"}, Others(v, who),
             who = "bridge" => v = "name"
      PROVE  HasWhatItPuts'
  BY <1>1 DEF Others, Put, Copy
<1>2. CASE Desktop
  BY <1>2, Unchanged DEF Desktop
<1>3. CASE ClaimExpires
  BY <1>3 DEF ClaimExpires
<1>4. CASE StartsWatching
  BY <1>4 DEF StartsWatching
<1>5. CASE WatcherWaits
  BY <1>5, Unchanged DEF WatcherWaits
<1>6. CASE TakesLock
  BY <1>6 DEF TakesLock
<1>7. CASE CaptureFails
  BY <1>7 DEF CaptureFails, Reads, LetsGo
<1>8. CASE IgnoresEcho
  BY <1>8 DEF IgnoresEcho, Reads, LetsGo
<1>9. CASE WillRestore
  BY <1>9 DEF WillRestore, Reads
<1>10. CASE KnownAlready
  BY <1>10 DEF KnownAlready, Reads, LetsGo, Matches
<1>11. CASE Sends
  BY <1>11 DEF Sends, Reads, LetsGo, Matches
<1>12. CASE RestoreFails
  BY <1>12 DEF RestoreFails, Fault, LetsGo
<1>13. CASE Restores
  <2>1. restore' = restore /\ restore # Nothing /\ UNCHANGED <<reader, incoming>>
    BY <1>13 DEF Restores
  <2>2. claim' = "received" => rounds + 1 < MaxRounds /\ rounds' = rounds + 1
    <3>1. step = "restore" => rounds < MaxRounds
      BY DEF HasWhatItPuts
    <3>4. rounds \in 0 .. MaxRounds /\ step = "restore"
      BY <1>13 DEF Ranges, Restores
    <3>2. rounds' = rounds + 1 /\ (claim' = "received" => rounds' # MaxRounds)
      BY <1>13 DEF Restores
    <3>3. QED
      BY <3>1, <3>2, <3>4, BelowBound
  <2>3. step' # "restore"
    BY <1>13 DEF Restores
  <2>4. QED
    BY <2>1, <2>2, <2>3
<1>14. CASE RestoreReadBack
  BY <1>14 DEF RestoreReadBack, Mistakes, LetsGo
<1>15. CASE RestoreReadBackFails
  BY <1>15 DEF RestoreReadBackFails, ReadBackFails, Fault, LetsGo
<1>16. ASSUME NEW v \in Value, ClipComes(v)
      PROVE  HasWhatItPuts'
  BY <1>16 DEF ClipComes
<1>17. CASE ReaderTakesLock
  BY <1>17 DEF ReaderTakesLock
<1>18. CASE ApplyFails
  BY <1>18 DEF ApplyFails, Fault, ReaderDone
<1>19. CASE Applies
  BY <1>19 DEF Applies, Put, Copy
<1>20. CASE ApplyReadBack
  <2>1. /\ restore' = IF incoming = "files" THEN value ELSE restore
        /\ claim' = IF incoming = "files" THEN "received" ELSE "none"
        /\ rounds' = 0 /\ UNCHANGED step /\ reader' = "idle"
    BY <1>20 DEF ApplyReadBack, ReaderDone
  <2>2. 0 < MaxRounds
    BY RoundsPositive
  <2>3. claim' = "received" => restore' # Nothing
    BY <2>1
  <2>4. step' = "restore" => restore' # Nothing
    BY <2>1
  <2>5. QED
    BY <2>1, <2>2, <2>3, <2>4
<1>21. CASE ApplyReadBackFails
  BY <1>21 DEF ApplyReadBackFails, ReadBackFails, Fault, ReaderDone
<1>22. CASE UNCHANGED allVars
  BY <1>22, Unchanged DEF allVars
<1>23. QED
  BY <1>1, <1>2, <1>3, <1>4, <1>5, <1>6, <1>7, <1>8, <1>9, <1>10, <1>11, <1>12, <1>13, <1>14,
     <1>15, <1>16, <1>17, <1>18, <1>19, <1>20, <1>21, <1>22 DEF ClaimNext, ClaimWatcher, Reader,
     BridgeEchoes, UserCopies, Value

LEMMA AllAccountedStep ==
  Ranges /\ ClaimTypes /\ HasWhatItPuts /\ AllAccounted /\ [ClaimNext]_allVars
    => AllAccounted'
<1> SUFFICES ASSUME Ranges, ClaimTypes, HasWhatItPuts, AllAccounted, [ClaimNext]_allVars
             PROVE  AllAccounted'
  OBVIOUS
<1> USE Values DEF ClaimTypes, HasWhatItPuts, AllAccounted, Accounted,
    boardVars, watchVars, claimVars, readerVars, counts
<1>1. ASSUME NEW v \in Value, NEW who \in {"user", "bridge"}, Others(v, who),
             who = "bridge" => v = "name"
      PROVE  AllAccounted'
  BY <1>1 DEF Others, Put, Copy
<1>2. CASE Desktop
  BY <1>2, Unchanged DEF Desktop
<1>3. CASE ClaimExpires
  BY <1>3 DEF ClaimExpires
<1>4. CASE StartsWatching
  BY <1>4 DEF StartsWatching
<1>5. CASE WatcherWaits
  BY <1>5, Unchanged DEF WatcherWaits
<1>6. CASE TakesLock
  BY <1>6 DEF TakesLock
<1>7. CASE CaptureFails
  BY <1>7 DEF CaptureFails, Reads, LetsGo
<1>8. CASE IgnoresEcho
  BY <1>8 DEF IgnoresEcho, Reads, LetsGo
<1>9. CASE WillRestore
  BY <1>9 DEF WillRestore, Reads
<1>10. CASE KnownAlready
  <2>1. value \in Accounted
    BY <1>10 DEF KnownAlready
  <2>2. previous' = value /\ UNCHANGED <<value, by, restore, known, mistaken>>
    BY <1>10 DEF KnownAlready, Reads
  <2>3. ASSUME NEW v \in Value, suppressed'[v] > 0
        PROVE  suppressed[v] > 0
    <3>1. \/ suppressed' = suppressed
          \/ suppressed[value] > 0 /\ suppressed' = [suppressed EXCEPT ![value] = @ - 1]
      BY <1>10 DEF KnownAlready
    <3>2. QED
      BY <2>3, <3>1, Lowered DEF Ranges
  <2>4. QED
    BY <2>1, <2>2, <2>3
<1>11. CASE Sends
  BY <1>11 DEF Sends, Reads, LetsGo, Matches
<1>12. CASE RestoreFails
  BY <1>12 DEF RestoreFails, Fault, LetsGo
<1>13. CASE Restores
  BY <1>13 DEF Restores, Put, Copy
<1>14. CASE RestoreReadBack
  BY <1>14 DEF RestoreReadBack, Mistakes, LetsGo
<1>15. CASE RestoreReadBackFails
  BY <1>15 DEF RestoreReadBackFails, ReadBackFails, Fault, LetsGo
<1>16. ASSUME NEW v \in Value, ClipComes(v)
      PROVE  AllAccounted'
  BY <1>16 DEF ClipComes
<1>17. CASE ReaderTakesLock
  BY <1>17 DEF ReaderTakesLock
<1>18. CASE ApplyFails
  BY <1>18 DEF ApplyFails, Fault, ReaderDone
<1>19. CASE Applies
  BY <1>19 DEF Applies, Put, Copy
<1>20. CASE ApplyReadBack
  <2>1. suppressed' = [suppressed EXCEPT ![value] = @ + 1]
    BY <1>20 DEF ApplyReadBack
  <2>2. /\ mistaken' = IF by = "daemon" THEN mistaken ELSE mistaken \cup {value}
        /\ restore' \in {value, restore}
        /\ UNCHANGED <<value, by, previous, known>>
    BY <1>20 DEF ApplyReadBack, Mistakes
  <2>3. value \in Accounted'
    BY <2>2
  <2>4. ASSUME NEW v \in Value, suppressed'[v] > 0
        PROVE  v \in Accounted'
    <3>1. CASE v = value
      BY <2>3, <3>1
    <3>2. CASE v # value
      <4>1. suppressed[v] > 0
        BY <2>1, <2>4, <3>2, Raised DEF Ranges
      <4>2. QED
        BY <2>2, <4>1
    <3>3. QED
      BY <3>1, <3>2
  <2>5. QED
    BY <2>2, <2>3, <2>4
<1>21. CASE ApplyReadBackFails
  BY <1>21 DEF ApplyReadBackFails, ReadBackFails, Fault, ReaderDone
<1>22. CASE UNCHANGED allVars
  BY <1>22, Unchanged DEF allVars
<1>23. QED
  BY <1>1, <1>2, <1>3, <1>4, <1>5, <1>6, <1>7, <1>8, <1>9, <1>10, <1>11, <1>12, <1>13, <1>14,
     <1>15, <1>16, <1>17, <1>18, <1>19, <1>20, <1>21, <1>22 DEF ClaimNext, ClaimWatcher, Reader,
     BridgeEchoes, UserCopies, Value

LEMMA EchoIsKnownStep ==
  Ranges /\ ClaimTypes /\ EchoIsKnown /\ [ClaimNext]_allVars
    => EchoIsKnown'
<1> SUFFICES ASSUME Ranges, ClaimTypes, EchoIsKnown, [ClaimNext]_allVars
             PROVE  EchoIsKnown'
  OBVIOUS
<1> USE Values DEF ClaimTypes, EchoIsKnown,
    boardVars, watchVars, claimVars, readerVars, counts
<1>1. ASSUME NEW v \in Value, NEW who \in {"user", "bridge"}, Others(v, who),
             who = "bridge" => v = "name"
      PROVE  EchoIsKnown'
  BY <1>1 DEF Others, Put, Copy
<1>2. CASE Desktop
  BY <1>2, Unchanged DEF Desktop
<1>3. CASE ClaimExpires
  BY <1>3 DEF ClaimExpires
<1>4. CASE StartsWatching
  BY <1>4 DEF StartsWatching
<1>5. CASE WatcherWaits
  BY <1>5, Unchanged DEF WatcherWaits
<1>6. CASE TakesLock
  BY <1>6 DEF TakesLock
<1>7. CASE CaptureFails
  BY <1>7 DEF CaptureFails, Reads, LetsGo
<1>8. CASE IgnoresEcho
  BY <1>8 DEF IgnoresEcho, Reads, LetsGo
<1>9. CASE WillRestore
  BY <1>9 DEF WillRestore, Reads
<1>10. CASE KnownAlready
  BY <1>10 DEF KnownAlready, Reads, LetsGo, Matches
<1>11. CASE Sends
  BY <1>11 DEF Sends, Reads, LetsGo, Matches
<1>12. CASE RestoreFails
  BY <1>12 DEF RestoreFails, Fault, LetsGo
<1>13. CASE Restores
  BY <1>13 DEF Restores, Put, Copy
<1>14. CASE RestoreReadBack
  BY <1>14 DEF RestoreReadBack, Mistakes, LetsGo
<1>15. CASE RestoreReadBackFails
  BY <1>15 DEF RestoreReadBackFails, ReadBackFails, Fault, LetsGo
<1>16. ASSUME NEW v \in Value, ClipComes(v)
      PROVE  EchoIsKnown'
  BY <1>16 DEF ClipComes
<1>17. CASE ReaderTakesLock
  BY <1>17 DEF ReaderTakesLock
<1>18. CASE ApplyFails
  BY <1>18 DEF ApplyFails, Fault, ReaderDone
<1>19. CASE Applies
  BY <1>19 DEF Applies, Put, Copy
<1>20. CASE ApplyReadBack
  <2>1. suppressed' = [suppressed EXCEPT ![value] = @ + 1]
    BY <1>20 DEF ApplyReadBack
  <2>2. UNCHANGED <<value, by, under, previous>>
    BY <1>20 DEF ApplyReadBack
  <2>3. value = "name" => suppressed'["name"] > 0
    BY <2>1, Raised DEF Ranges
  <2>4. QED
    BY <2>2, <2>3
<1>21. CASE ApplyReadBackFails
  BY <1>21 DEF ApplyReadBackFails, ReadBackFails, Fault, ReaderDone
<1>22. CASE UNCHANGED allVars
  BY <1>22, Unchanged DEF allVars
<1>23. QED
  BY <1>1, <1>2, <1>3, <1>4, <1>5, <1>6, <1>7, <1>8, <1>9, <1>10, <1>11, <1>12, <1>13, <1>14,
     <1>15, <1>16, <1>17, <1>18, <1>19, <1>20, <1>21, <1>22 DEF ClaimNext, ClaimWatcher, Reader,
     BridgeEchoes, UserCopies, Value

LEMMA ClaimInvHolds == ClaimSpec => []ClaimInv
<1>1. IInv /\ ClaimInv /\ [ClaimNext]_allVars => (IInv /\ ClaimInv)'
  <2>1. IInv => errors \in Nat
    BY RetryAssumption DEF IInv, TypeOK
  <2>2. QED
    BY <2>1, RetryStep, InvStep, ClaimTypesStep, HasWhatItPutsStep, AllAccountedStep,
       RangesStep, EchoIsKnownStep DEF ClaimInv
<1>2. ClaimInit => IInv /\ ClaimInv
  BY RetryInit, InvInit, ClaimInvInit
<1>3. QED
  BY <1>1, <1>2, PTL DEF ClaimSpec

\* Whatever the copies, the clips and the faults, a user's copy is dismissed as
\* known only if its value has an account.
THEOREM DismissedAreKnown == ClaimSpec => DismissedIsKnown
<1>1. ClaimInv => (KnownAlready /\ by = "user" => value \in known \cup mistaken)
  BY DEF ClaimInv, ClaimTypes, AllAccounted, Accounted, KnownAlready, Value, Nothing
<1>2. QED
  BY <1>1, ClaimInvHolds, PTL DEF ClaimSpec, DismissedIsKnown

\* And no echo of claimed files is sent while the claim lasts.
THEOREM EchoesAreKept == ClaimSpec => EchoesStay
<1>1. ClaimInv => (Sends => ~(by = "bridge" /\ under # "none"))
  BY DEF ClaimInv, EchoIsKnown, Sends, Matches
<1>2. QED
  BY <1>1, ClaimInvHolds, PTL DEF ClaimSpec, EchoesStay


-----------------------------------------------------------------------------
(* Selection.                                                              *)

Event == {"new", "notify", "refused"}
Message == Request \cup Deleted

\* Requests and reports of deletion are told apart.
LEMMA MessagesDiffer ==
    /\ \A m \in Request : m \notin Deleted /\ \A w : m # [deleted |-> w]
    /\ \A m \in Deleted : m \notin Request /\ m = [deleted |-> m.deleted]
    /\ \A w \in Window, t \in Target :
          /\ [window |-> w, target |-> t] \in Request
          /\ [window |-> w, target |-> t].window = w
          /\ [window |-> w, target |-> t].target = t
          /\ [window |-> w, target |-> t] \notin Deleted
    /\ \A w \in Window : [deleted |-> w] \in Deleted /\ [deleted |-> w] \notin Request
    /\ \A v, w : [deleted |-> v] = [deleted |-> w] => v = w
    /\ \A w, t :
          /\ \A v : [window |-> w, target |-> t] # [deleted |-> v]
          /\ [window |-> w, target |-> t].window = w
          /\ [window |-> w, target |-> t].target = t
          /\ [window |-> w, target |-> t] \in Message => [window |-> w, target |-> t] \in Request
<1>1. \A w, t, v : [window |-> w, target |-> t] # [deleted |-> v]
  OBVIOUS
<1>2. \A v, w : [deleted |-> v] = [deleted |-> w] => v = w
  <2> SUFFICES ASSUME NEW v, NEW w, [deleted |-> v] = [deleted |-> w] PROVE v = w
    OBVIOUS
  <2>1. [deleted |-> v].deleted = v /\ [deleted |-> w].deleted = w
    OBVIOUS
  <2>2. QED
    BY <2>1
<1>3. \A m \in Request : m = [window |-> m.window, target |-> m.target]
  BY DEF Request
<1>4. \A m \in Deleted : m = [deleted |-> m.deleted]
  BY DEF Deleted
<1>5. \A w \in Window, t \in Target :
          /\ [window |-> w, target |-> t] \in Request
          /\ [window |-> w, target |-> t].window = w
          /\ [window |-> w, target |-> t].target = t
  BY DEF Request
<1>6. \A w \in Window : [deleted |-> w] \in Deleted
  BY DEF Deleted
<1>7. \A w, t : [window |-> w, target |-> t] \in Message => [window |-> w, target |-> t] \in Request
  BY <1>1, <1>4 DEF Message
<1>8. \A w, t : /\ [window |-> w, target |-> t].window = w
                /\ [window |-> w, target |-> t].target = t
  OBVIOUS
<1>9. QED
  BY <1>1, <1>2, <1>3, <1>4, <1>5, <1>6, <1>7, <1>8

\* And so are pieces, headers and no content.
LEMMA ContentsDiffer ==
    /\ \A c \in Piece : c \notin Header /\ c # None
    /\ \A c \in Header : c # None
    /\ \A p \in Publication, t \in Target, i \in Nat :
          /\ PieceOf(p, t, i) \in Piece
          /\ PieceOf(p, t, i).target = t
          /\ PieceOf(p, t, i).index = i
    /\ \A p \in Publication, t \in Target :
          /\ [incr |-> p, target |-> t] \in Header
          /\ [incr |-> p, target |-> t].incr = p
          /\ [incr |-> p, target |-> t].target = t
<1>1. \A a, b, c, d, e : [publication |-> a, target |-> b, index |-> c] # [incr |-> d, target |-> e]
  OBVIOUS
<1>2. \A c \in Piece : c = [publication |-> c.publication, target |-> c.target, index |-> c.index]
  BY DEF Piece
<1>3. \A c \in Header : c = [incr |-> c.incr, target |-> c.target]
  BY DEF Header
<1>4. \A p \in Publication, t \in Target, i \in Nat :
          /\ PieceOf(p, t, i) \in Piece
          /\ PieceOf(p, t, i).target = t
          /\ PieceOf(p, t, i).index = i
  BY DEF Piece, PieceOf
<1>5. \A p \in Publication, t \in Target :
          /\ [incr |-> p, target |-> t] \in Header
          /\ [incr |-> p, target |-> t].incr = p
          /\ [incr |-> p, target |-> t].target = t
  BY DEF Header
<1>6. QED
  BY <1>1, <1>2, <1>3, <1>4, <1>5, NothingAssumption

LEMMA SizesAreNumbers ==
    /\ Len(Size) \in Nat
    /\ Publication \subseteq Nat
    /\ \A p \in Publication : p >= 1 /\ p <= Len(Size)
    /\ \A p \in Publication, t \in Target : Size[p][t] \in Nat
<1>1. Len(Size) \in Nat /\ Size \in Seq([Target -> Nat])
  BY SelectionAssumption
<1>2. \A p \in Publication : Size[p] \in [Target -> Nat]
  BY <1>1, ElementOfSeq DEF Publication
<1>3. QED
  BY <1>1, <1>2 DEF Publication

-----------------------------------------------------------------------------
(* Sequences of events and of messages. *)

\* The words of a window's event queue.
JustNew(s) == \A i \in 1 .. Len(s) : s[i] = "new"

LastIs(s, e) ==
    /\ s # <<>>
    /\ \A i \in 1 .. Len(s) : s[i] = IF i = Len(s) THEN e ELSE "new"

LEMMA TailSequence ==
    ASSUME NEW S, NEW s \in Seq(S), s # <<>>
    PROVE  /\ Tail(s) \in Seq(S)
           /\ Len(s) \in Nat /\ Len(s) >= 1
           /\ Len(Tail(s)) = Len(s) - 1
           /\ \A i \in 1 .. Len(s) - 1 : Tail(s)[i] = s[i + 1]
           /\ Head(s) = s[1]
           /\ Head(s) \in S
<1>1. Len(s) \in Nat /\ Len(s) # 0
  BY EmptySeq
<1>2. Head(s) = s[1]
  OBVIOUS
<1>3. QED
  BY <1>1, <1>2, HeadTailProperties

LEMMA EventsTaken ==
    ASSUME NEW s \in Seq(Event)
    PROVE  /\ JustNew(s) /\ s # <<>> => Head(s) = "new" /\ JustNew(Tail(s))
           /\ \A e \in {"notify", "refused"} : LastIs(s, e) =>
                 /\ Head(s) \in {"new", e}
                 /\ Head(s) = e => Tail(s) = <<>>
                 /\ Head(s) = "new" => LastIs(Tail(s), e)
<1>1. CASE s = <<>>
  BY <1>1 DEF LastIs
<1>2. CASE s # <<>>
  <2>1. /\ Tail(s) \in Seq(Event)
        /\ Len(s) \in Nat /\ Len(s) >= 1
        /\ Len(Tail(s)) = Len(s) - 1
        /\ \A i \in 1 .. Len(s) - 1 : Tail(s)[i] = s[i + 1]
        /\ Head(s) = s[1]
    BY <1>2, TailSequence
  <2>2. JustNew(s) => Head(s) = "new" /\ JustNew(Tail(s))
    BY <2>1 DEF JustNew
  <2>3. ASSUME NEW e \in {"notify", "refused"}, LastIs(s, e)
        PROVE  /\ Head(s) \in {"new", e}
               /\ Head(s) = e => Tail(s) = <<>>
               /\ Head(s) = "new" => LastIs(Tail(s), e)
    <3>1. CASE Len(s) = 1
      <4>1. Len(Tail(s)) = 0
        BY <2>1, <3>1
      <4>2. Tail(s) = <<>>
        BY <2>1, <4>1, EmptySeq
      <4>3. Head(s) = e
        BY <2>1, <2>3, <3>1 DEF LastIs
      <4>4. QED
        BY <4>2, <4>3
    <3>2. CASE Len(s) # 1
      <4> DEFINE n == Len(s)
                 u == Tail(s)
      <4>1. /\ n \in Nat /\ n > 1 /\ Len(u) = n - 1
            /\ \A i \in 1 .. n - 1 : u[i] = s[i + 1]
            /\ Head(s) = s[1] /\ u \in Seq(Event)
        BY <2>1, <3>2
      <4>2. \A i \in 1 .. n : s[i] = IF i = n THEN e ELSE "new"
        BY <2>3 DEF LastIs
      <4> HIDE DEF n, u
      <4>3. Head(s) = "new"
        BY <4>1, <4>2
      <4>4. u # <<>>
        BY <4>1, EmptySeq
      <4>5. \A i \in 1 .. n - 1 : i + 1 \in 1 .. n /\ (i + 1 = n <=> i = n - 1)
        BY <4>1
      <4>6. \A i \in 1 .. Len(u) : u[i] = IF i = Len(u) THEN e ELSE "new"
        BY <4>1, <4>2, <4>5
      <4>7. LastIs(u, e)
        BY <4>4, <4>6 DEF LastIs
      <4>8. QED
        BY <4>3, <4>7 DEF u
    <3>3. QED
      BY <3>1, <3>2
  <2>4. QED
    BY <2>2, <2>3
<1>3. QED
  BY <1>1, <1>2

LEMMA EventsAdded ==
    ASSUME NEW s \in Seq(Event), JustNew(s)
    PROVE  /\ JustNew(s \o <<"new">>)
           /\ LastIs(s \o <<"new", "notify">>, "notify")
           /\ LastIs(s \o <<"refused">>, "refused")
<1>1. Len(s) \in Nat
  OBVIOUS
<1>2. /\ Len(s \o <<"new">>) = Len(s) + 1
      /\ \A i \in 1 .. Len(s) + 1 : (s \o <<"new">>)[i] = IF i <= Len(s) THEN s[i] ELSE "new"
  OBVIOUS
<1>3. /\ Len(s \o <<"refused">>) = Len(s) + 1
      /\ \A i \in 1 .. Len(s) + 1 :
           (s \o <<"refused">>)[i] = IF i <= Len(s) THEN s[i] ELSE "refused"
  OBVIOUS
<1>4. /\ Len(s \o <<"new", "notify">>) = Len(s) + 2
      /\ \A i \in 1 .. Len(s) + 2 :
           (s \o <<"new", "notify">>)[i] = IF i <= Len(s) THEN s[i]
                                           ELSE IF i = Len(s) + 1 THEN "new" ELSE "notify"
  OBVIOUS
<1>5. s \o <<"refused">> # <<>> /\ s \o <<"new", "notify">> # <<>>
  BY <1>1, <1>3, <1>4
<1>6. QED
  BY <1>1, <1>2, <1>3, <1>4, <1>5 DEF JustNew, LastIs

\* What window w has in the owner's queue.
NoRequest(q, w) == \A i \in 1 .. Len(q) : q[i] \in Request => q[i].window # w
NoDeleted(q, w) == \A i \in 1 .. Len(q) : q[i] # [deleted |-> w]
OneDeleted(q, w) ==
    \A i, j \in 1 .. Len(q) : q[i] = [deleted |-> w] /\ q[j] = [deleted |-> w] => i = j
OneRequest(q, w, t) ==
    \E k \in 1 .. Len(q) :
        /\ q[k] = [window |-> w, target |-> t]
        /\ \A i \in 1 .. Len(q) :
              /\ q[i] \in Request /\ q[i].window = w => i = k
              /\ q[i] = [deleted |-> w] => i < k

\* What the owner takes leaves the other windows' messages in order.
LEMMA QueueTaken ==
    ASSUME NEW q \in Seq(Message), q # <<>>, NEW w \in Window, NEW t
    PROVE  /\ NoRequest(q, w) => NoRequest(Tail(q), w)
           /\ NoDeleted(q, w) => NoDeleted(Tail(q), w)
           /\ OneDeleted(q, w) => OneDeleted(Tail(q), w)
           /\ OneDeleted(q, w) /\ Head(q) = [deleted |-> w] => NoDeleted(Tail(q), w)
           /\ OneRequest(q, w, t) =>
                IF Head(q) \in Request /\ Head(q).window = w
                THEN Head(q).target = t /\ NoRequest(Tail(q), w) /\ NoDeleted(Tail(q), w)
                ELSE OneRequest(Tail(q), w, t)
<1>1. /\ Len(q) \in Nat /\ Len(q) >= 1
      /\ Len(Tail(q)) = Len(q) - 1
      /\ \A i \in 1 .. Len(q) - 1 : Tail(q)[i] = q[i + 1]
      /\ Head(q) = q[1]
  BY TailSequence
<1>2. \A i \in 1 .. Len(q) - 1 : i + 1 \in 1 .. Len(q)
  BY <1>1
<1>3. (NoRequest(q, w) => NoRequest(Tail(q), w)) /\ (NoDeleted(q, w) => NoDeleted(Tail(q), w))
  BY <1>1, <1>2 DEF NoRequest, NoDeleted
<1>4. ASSUME OneDeleted(q, w) PROVE OneDeleted(Tail(q), w)
  <2>1. \A i, j \in 1 .. Len(q) - 1 : i + 1 = j + 1 => i = j
    BY <1>1
  <2>2. QED
    BY <1>1, <1>2, <1>4, <2>1 DEF OneDeleted
<1>5. ASSUME OneDeleted(q, w), Head(q) = [deleted |-> w] PROVE NoDeleted(Tail(q), w)
  <2>1. 1 \in 1 .. Len(q) /\ \A i \in 1 .. Len(q) - 1 : i + 1 # 1
    BY <1>1
  <2>2. QED
    BY <1>1, <1>2, <1>5, <2>1 DEF OneDeleted, NoDeleted
<1>6. ASSUME OneRequest(q, w, t)
      PROVE  IF Head(q) \in Request /\ Head(q).window = w
             THEN Head(q).target = t /\ NoRequest(Tail(q), w) /\ NoDeleted(Tail(q), w)
             ELSE OneRequest(Tail(q), w, t)
  <2>1. PICK k \in 1 .. Len(q) :
           /\ q[k] = [window |-> w, target |-> t]
           /\ \A i \in 1 .. Len(q) :
                 /\ q[i] \in Request /\ q[i].window = w => i = k
                 /\ q[i] = [deleted |-> w] => i < k
    BY <1>6 DEF OneRequest
  <2>2. 1 \in 1 .. Len(q)
    BY <1>1
  <2>3. CASE Head(q) \in Request /\ Head(q).window = w
    <3>1. k = 1
      BY <1>1, <2>1, <2>2, <2>3
    <3>2. Head(q).target = t
      BY <1>1, <2>1, <3>1, MessagesDiffer
    <3>3. \A i \in 1 .. Len(q) - 1 : i + 1 # k /\ ~(i + 1 < k)
      BY <1>1, <3>1
    <3>4. NoRequest(Tail(q), w) /\ NoDeleted(Tail(q), w)
      BY <1>1, <1>2, <2>1, <3>3 DEF NoRequest, NoDeleted
    <3>5. QED
      BY <2>3, <3>2, <3>4
  <2>4. CASE ~(Head(q) \in Request /\ Head(q).window = w)
    <3>1. k # 1
      BY <1>1, <2>1, <2>4, MessagesDiffer
    <3>2. k - 1 \in 1 .. Len(Tail(q)) /\ (k - 1) + 1 = k
      BY <1>1, <2>1, <3>1
    <3>3. Tail(q)[k - 1] = [window |-> w, target |-> t]
      BY <1>1, <2>1, <3>2
    <3>4. \A i \in 1 .. Len(Tail(q)) : (i + 1 = k => i = k - 1) /\ (i + 1 < k => i < k - 1)
      BY <1>1, <2>1
    <3>5. \A i \in 1 .. Len(Tail(q)) :
             /\ Tail(q)[i] \in Request /\ Tail(q)[i].window = w => i = k - 1
             /\ Tail(q)[i] = [deleted |-> w] => i < k - 1
      BY <1>1, <1>2, <2>1, <3>4
    <3>6. QED
      BY <2>4, <3>2, <3>3, <3>5 DEF OneRequest
  <2>5. QED
    BY <2>3, <2>4
<1>7. QED
  BY <1>3, <1>4, <1>5, <1>6

LEMMA QueueAdded ==
    ASSUME NEW q \in Seq(Message), NEW m \in Message, NEW w \in Window, NEW t
    PROVE  /\ m \in Deleted => /\ NoRequest(q, w) => NoRequest(Append(q, m), w)
                               /\ m = [deleted |-> w] /\ NoDeleted(q, w) =>
                                     OneDeleted(Append(q, m), w)
           /\ m = [window |-> w, target |-> t] /\ NoRequest(q, w) => OneRequest(Append(q, m), w, t)
           /\ m # [deleted |-> w] /\ (m \in Request => m.window # w) =>
                /\ NoRequest(q, w) => NoRequest(Append(q, m), w)
                /\ NoDeleted(q, w) => NoDeleted(Append(q, m), w)
                /\ OneDeleted(q, w) => OneDeleted(Append(q, m), w)
                /\ OneRequest(q, w, t) => OneRequest(Append(q, m), w, t)
<1> DEFINE a == Append(q, m)
<1>1. /\ Len(q) \in Nat
      /\ Len(a) = Len(q) + 1
      /\ \A i \in 1 .. Len(q) : i \in 1 .. Len(a) /\ a[i] = q[i] /\ i < Len(q) + 1
      /\ a[Len(q) + 1] = m
      /\ Len(q) + 1 \in 1 .. Len(a)
      /\ \A i \in 1 .. Len(a) : i \in 1 .. Len(q) \/ i = Len(q) + 1
  OBVIOUS
<1> HIDE DEF a
<1>2. m \in Deleted => (NoRequest(q, w) => NoRequest(a, w))
  BY <1>1, MessagesDiffer DEF NoRequest
<1>3. m = [deleted |-> w] /\ NoDeleted(q, w) => OneDeleted(a, w)
  BY <1>1 DEF NoDeleted, OneDeleted
<1>4. m = [window |-> w, target |-> t] /\ NoRequest(q, w) => OneRequest(a, w, t)
  <2> SUFFICES ASSUME m = [window |-> w, target |-> t], NoRequest(q, w)
               PROVE  /\ a[Len(q) + 1] = [window |-> w, target |-> t]
                      /\ \A i \in 1 .. Len(a) :
                            /\ a[i] \in Request /\ a[i].window = w => i = Len(q) + 1
                            /\ a[i] = [deleted |-> w] => i < Len(q) + 1
    BY <1>1 DEF OneRequest
  <2>1. m # [deleted |-> w]
    BY MessagesDiffer
  <2>2. QED
    BY <1>1, <2>1 DEF NoRequest
<1>5. ASSUME m # [deleted |-> w], m \in Request => m.window # w
      PROVE  /\ NoRequest(q, w) => NoRequest(a, w)
             /\ NoDeleted(q, w) => NoDeleted(a, w)
             /\ OneDeleted(q, w) => OneDeleted(a, w)
             /\ OneRequest(q, w, t) => OneRequest(a, w, t)
  <2>1. NoRequest(q, w) => NoRequest(a, w)
    BY <1>1, <1>5 DEF NoRequest
  <2>2. NoDeleted(q, w) => NoDeleted(a, w)
    BY <1>1, <1>5 DEF NoDeleted
  <2>3. OneDeleted(q, w) => OneDeleted(a, w)
    BY <1>1, <1>5 DEF OneDeleted
  <2>4. ASSUME OneRequest(q, w, t) PROVE OneRequest(a, w, t)
    <3>1. PICK k \in 1 .. Len(q) :
             /\ q[k] = [window |-> w, target |-> t]
             /\ \A i \in 1 .. Len(q) :
                   /\ q[i] \in Request /\ q[i].window = w => i = k
                   /\ q[i] = [deleted |-> w] => i < k
      BY <2>4 DEF OneRequest
    <3>2. /\ k \in 1 .. Len(a)
          /\ a[k] = [window |-> w, target |-> t]
          /\ \A i \in 1 .. Len(a) :
                /\ a[i] \in Request /\ a[i].window = w => i = k
                /\ a[i] = [deleted |-> w] => i < k
      BY <1>1, <1>5, <3>1
    <3>3. QED
      BY <3>2 DEF OneRequest
  <2>5. QED
    BY <2>1, <2>2, <2>3, <2>4
<1>6. QED
  BY <1>2, <1>3, <1>4, <1>5 DEF a

-----------------------------------------------------------------------------
(* Types. *)

LEMMA TypesInit == SelectionInit => SelectionTypes
<1> SUFFICES ASSUME SelectionInit PROVE SelectionTypes
  OBVIOUS
<1>1. DOMAIN transfers = {}
  BY DEF SelectionInit
<1>2. Cardinality(DOMAIN transfers) <= MaxTransfers
  BY <1>1, FS_EmptySet, SelectionAssumption
<1>3. NoRead \in Read
  BY SizesAreNumbers DEF NoRead, Read
<1>4. QED
  BY <1>1, <1>2, <1>3, SizesAreNumbers DEF SelectionInit, SelectionTypes

\* What may be added to the sequences.
LEMMA Longer ==
    ASSUME SelectionTypes, NEW w \in Window
    PROVE  /\ \A t \in Target : Append(queue, [window |-> w, target |-> t]) \in Seq(Message)
           /\ Append(queue, [deleted |-> w]) \in Seq(Message)
           /\ events[w] \o <<"new">> \in Seq(Event)
           /\ events[w] \o <<"new", "notify">> \in Seq(Event)
           /\ events[w] \o <<"refused">> \in Seq(Event)
           /\ queue # <<>> => Tail(queue) \in Seq(Message)
           /\ events[w] # <<>> => Tail(events[w]) \in Seq(Event)
<1>1. queue \in Seq(Message) /\ events[w] \in Seq(Event)
  BY DEF SelectionTypes, Message, Event
<1>2. \A t \in Target : [window |-> w, target |-> t] \in Message
  BY MessagesDiffer DEF Message
<1>3. [deleted |-> w] \in Message
  BY MessagesDiffer DEF Message
<1>4. /\ <<"new">> \in Seq(Event) /\ <<"new", "notify">> \in Seq(Event)
      /\ <<"refused">> \in Seq(Event)
  BY DEF Event
<1>5. \A t \in Target : Append(queue, [window |-> w, target |-> t]) \in Seq(Message)
  BY <1>1, <1>2, AppendProperties
<1>6. Append(queue, [deleted |-> w]) \in Seq(Message)
  BY <1>1, <1>3, AppendProperties
<1>7. /\ events[w] \o <<"new">> \in Seq(Event)
      /\ events[w] \o <<"new", "notify">> \in Seq(Event)
      /\ events[w] \o <<"refused">> \in Seq(Event)
  BY <1>1, <1>4, ConcatProperties
<1>8. QED
  BY <1>1, <1>5, <1>6, <1>7, TailSequence

LEMMA HeadIsMessage ==
    ASSUME SelectionTypes
    PROVE  /\ Asked => /\ Head(queue).window \in Window
                       /\ Head(queue).target \in Target
                       /\ Head(queue) = [window |-> Head(queue).window,
                                         target |-> Head(queue).target]
           /\ Told => /\ Head(queue).deleted \in Window
                      /\ Head(queue) = [deleted |-> Head(queue).deleted]
BY DEF Asked, Told, Request, Deleted

LEMMA Fewer ==
    ASSUME SelectionTypes, NEW w
    PROVE  /\ DOMAIN Without(w) = DOMAIN transfers \ {w}
           /\ \A v \in DOMAIN transfers \ {w} : Without(w)[v] = transfers[v]
           /\ DOMAIN Without(w) \subseteq Window
           /\ \A v \in DOMAIN Without(w) : Without(w)[v] \in Transfer
           /\ Cardinality(DOMAIN Without(w)) <= MaxTransfers
           /\ DOMAIN Without(w) \subseteq watched
<1>1. /\ DOMAIN Without(w) = DOMAIN transfers \ {w}
      /\ \A v \in DOMAIN transfers \ {w} : Without(w)[v] = transfers[v]
  BY DEF Without
<1>2. IsFiniteSet(DOMAIN transfers)
  BY FS_Subset, SelectionAssumption DEF SelectionTypes
<1>3. /\ Cardinality(DOMAIN transfers) \in Nat
      /\ Cardinality(DOMAIN transfers \ {w}) \in Nat
      /\ Cardinality(DOMAIN transfers \ {w}) <= Cardinality(DOMAIN transfers)
  BY <1>2, FS_Subset, FS_CardinalityType
<1>4. Cardinality(DOMAIN Without(w)) <= MaxTransfers
  BY <1>1, <1>3, SelectionAssumption DEF SelectionTypes
<1>5. QED
  BY <1>1, <1>4 DEF SelectionTypes

LEMMA OneMoreTransfer ==
    ASSUME SelectionTypes, NEW w \in Window, Cardinality(DOMAIN transfers) < MaxTransfers
    PROVE  Cardinality(DOMAIN transfers \cup {w}) <= MaxTransfers
<1>1. IsFiniteSet(DOMAIN transfers)
  BY FS_Subset, SelectionAssumption DEF SelectionTypes
<1>2. /\ Cardinality(DOMAIN transfers) \in Nat
      /\ Cardinality(DOMAIN transfers \cup {w}) \in
            {Cardinality(DOMAIN transfers), Cardinality(DOMAIN transfers) + 1}
  BY <1>1, FS_AddElement, FS_CardinalityType
<1>3. QED
  BY <1>2, SelectionAssumption

\* While the owner offers something, it is a publication.
LEMMA Offered ==
    ASSUME SelectionTypes, data > 0
    PROVE  data \in Publication
BY SizesAreNumbers DEF SelectionTypes, Publication

\* Nothing is asked before anything is offered.
Quiet == data = 0 => queue = <<>> /\ \A w \in Window : events[w] = <<>>

LEMMA QuietStep ==
    ASSUME SelectionTypes, Quiet, [SelectionNext]_selectionVars
    PROVE  Quiet'
<1> USE DEF Quiet
<1>1. CASE Publish
  BY <1>1, SizesAreNumbers DEF Publish, SelectionTypes
<1>2. ASSUME UNCHANGED data, queue # <<>> PROVE Quiet'
  BY <1>2
<1>3. CASE Owner
  BY <1>2, <1>3 DEF Owner, Answer, Continue, Stop, Asked, Told, Takes
<1>4. ASSUME NEW w \in Window, Proceeds(w) PROVE Quiet'
  <2>1. events[w] # <<>>
    BY <1>4 DEF Proceeds, Overlook, TargetUnavailable, BeginIncremental, TakePiece, Looks
  <2>2. UNCHANGED data
    BY <1>4 DEF Proceeds, Overlook, TargetUnavailable, BeginIncremental, TakePiece, Becomes,
       ReadFails, owner
  <2>3. QED
    BY <2>1, <2>2
<1>5. ASSUME NEW w \in Window, Expire(w) \/ ExpireUnderway(w) \/ TimesOut(w) \/ Vanish(w)
      PROVE  Quiet'
  BY <1>5 DEF Expire, ExpireUnderway, TimesOut, Vanish, owner
<1>6. ASSUME NEW w \in Window, NEW t \in Target, Ask(w, t) PROVE Quiet'
  BY <1>6 DEF Ask, owner
<1>7. CASE UNCHANGED selectionVars
  BY <1>7 DEF selectionVars, owner
<1>8. QED
  BY <1>1, <1>3, <1>4, <1>5, <1>6, <1>7 DEF SelectionNext

\* What an answer leaves in a window, and what it says of it.
LEMMA AnswerTypes ==
    ASSUME SelectionTypes, Quiet, Answer
    PROVE  SelectionTypes'
<1> DEFINE w == Head(queue).window
           t == Head(queue).target
<1>1. w \in Window /\ t \in Target /\ queue # <<>>
  BY HeadIsMessage DEF Answer, Asked
<1>2. data \in Publication
  BY <1>1, Offered DEF Quiet, SelectionTypes
<1>3. queue' = Tail(queue) /\ UNCHANGED <<data, reading, asks, stalls>>
  BY DEF Answer, Takes
<1>4. queue' \in Seq(Message)
  BY <1>1, <1>3, Longer
<1>5. ConvertSmall(w, t) \/ ConvertIncremental(w, t) \/ Refuse(w, t) \/ Unasked(w)
  BY DEF Answer
<1>6. PieceOf(data, t, 1) \in Piece /\ [incr |-> data, target |-> t] \in Header
  BY <1>1, <1>2, ContentsDiffer
<1>7. [publication |-> data, target |-> t, offset |-> 0] \in Transfer
  BY <1>1, <1>2 DEF Transfer
<1>8. /\ events[w] \o <<"new", "notify">> \in Seq(Event)
      /\ events[w] \o <<"refused">> \in Seq(Event)
  BY <1>1, Longer
<1> HIDE DEF w, t
<1> USE <1>1, <1>3, <1>4, <1>6, <1>7, <1>8 DEF SelectionTypes, Event, Message, Tells, Leaves
<1>9. CASE ConvertSmall(w, t)
  BY <1>9 DEF ConvertSmall
<1>10. CASE ConvertIncremental(w, t)
  <2>1. /\ DOMAIN transfers' = DOMAIN transfers \cup {w}
        /\ \A v \in DOMAIN transfers' : transfers'[v] \in Transfer
    BY <1>10 DEF ConvertIncremental
  <2>2. Cardinality(DOMAIN transfers') <= MaxTransfers
    BY <1>10, <2>1, OneMoreTransfer DEF ConvertIncremental
  <2>3. QED
    BY <1>10, <2>1, <2>2 DEF ConvertIncremental
<1>11. CASE Refuse(w, t)
  BY <1>11 DEF Refuse
<1>12. CASE Unasked(w)
  BY <1>12 DEF Unasked
<1>13. QED
  BY <1>5, <1>9, <1>10, <1>11, <1>12

LEMMA ContinueTypes ==
    ASSUME SelectionTypes, Continue
    PROVE  SelectionTypes'
<1> DEFINE w == Head(queue).deleted
           transfer == transfers[w]
           next == PieceOf(ContentOf(transfer), transfer.target,
                           IF transfer.offset = Size[transfer.publication][transfer.target] THEN 0
                           ELSE transfer.offset + 1)
<1>1. w \in Window /\ w \in DOMAIN transfers /\ queue # <<>>
  BY HeadIsMessage DEF Continue, Told
<1>2. /\ transfer \in Transfer
      /\ transfer.offset + 1 \in Nat /\ transfer.publication \in Publication
      /\ transfer.target \in Target
  BY <1>1 DEF SelectionTypes, Transfer
<1>3. next \in Piece
  BY <1>2, ContentsDiffer DEF ContentOf
<1>4. queue' = Tail(queue) /\ UNCHANGED <<data, reading, asks, stalls, watched>>
  BY DEF Continue, Takes
<1>5. queue' \in Seq(Message)
  BY <1>1, <1>4, Longer
<1>6. property' = [property EXCEPT ![w] = next] /\ events' = [events EXCEPT ![w] = @ \o <<"new">>]
  BY DEF Continue, Leaves, Tells
<1>7. events[w] \o <<"new">> \in Seq(Event)
  BY <1>1, Longer
<1>8. /\ DOMAIN transfers' \subseteq Window
      /\ \A v \in DOMAIN transfers' : transfers'[v] \in Transfer
      /\ Cardinality(DOMAIN transfers') <= MaxTransfers
      /\ DOMAIN transfers' \subseteq watched
  <2>1. CASE Finished(transfer)
    BY <2>1, Fewer DEF Continue
  <2>2. CASE ~Finished(transfer)
    <3>1. transfers' = [transfers EXCEPT ![w].offset = transfer.offset + 1]
      BY <2>2 DEF Continue
    <3>2. [transfer EXCEPT !.offset = transfer.offset + 1] \in Transfer
      BY <1>2 DEF Transfer
    <3>3. DOMAIN transfers' = DOMAIN transfers
      BY <3>1
    <3>4. \A v \in DOMAIN transfers' : transfers'[v] \in Transfer
      BY <3>1, <3>2 DEF SelectionTypes
    <3>5. QED
      BY <3>3, <3>4 DEF SelectionTypes
  <2>3. QED
    BY <2>1, <2>2
<1> HIDE DEF w, next
<1>9. property' \in [Window -> Piece \cup Header \cup {None}]
  BY <1>1, <1>3, <1>6 DEF SelectionTypes
<1>10. events' \in [Window -> Seq(Event)]
  BY <1>1, <1>6, <1>7 DEF SelectionTypes, Event
<1>11. QED
  BY <1>4, <1>5, <1>8, <1>9, <1>10 DEF SelectionTypes, Event, Message

\* What a reader that looks may become.
LEMMA BecomesTypes ==
    ASSUME SelectionTypes, NEW w \in Window, NEW r \in Read, Becomes(w, r), events[w] # <<>>,
           TakesContent(w) \/ UNCHANGED <<queue, property>>
    PROVE  SelectionTypes'
<1>1. Tail(events[w]) \in Seq(Event) /\ Append(queue, [deleted |-> w]) \in Seq(Message)
  BY Longer
<1>2. events' \in [Window -> Seq(Event)] /\ reading' \in [Window -> Read]
  BY <1>1 DEF SelectionTypes, Becomes, Event
<1>3. queue' \in Seq(Message) /\ property' \in [Window -> Piece \cup Header \cup {None}]
  BY <1>1 DEF SelectionTypes, TakesContent, Leaves, Message
<1>4. UNCHANGED <<data, transfers, watched>>
  BY DEF Becomes, owner
<1>5. QED
  BY <1>2, <1>3, <1>4 DEF SelectionTypes, Event, Message

LEMMA ReadTypes ==
    ASSUME NEW r \in Read
    PROVE  /\ [r EXCEPT !.at = "failed"] \in Read
           /\ [r EXCEPT !.at = "gone"] \in Read
           /\ [r EXCEPT !.incremental = TRUE] \in Read
           /\ \A d \in Seq(Piece), a \in {"ok", "waiting"} :
                 [r EXCEPT !.data = d, !.at = a] \in Read
           /\ \A t \in Target, p \in 0 .. Len(Size) :
                 [r EXCEPT !.at = "waiting", !.target = t, !.since = p] \in Read
           /\ r.data \in Seq(Piece)
<1>1. /\ r.at \in {"idle", "waiting", "ok", "failed", "gone"} /\ r.target \in Target \cup {None}
      /\ r.incremental \in BOOLEAN /\ r.data \in Seq(Piece) /\ r.since \in 0 .. Len(Size)
  BY DEF Read
<1>2. r = [at |-> r.at, target |-> r.target, incremental |-> r.incremental, data |-> r.data,
           since |-> r.since]
  BY DEF Read
<1>3. [r EXCEPT !.at = "failed"] \in Read /\ [r EXCEPT !.at = "gone"] \in Read
  BY <1>1, <1>2 DEF Read
<1>4. [r EXCEPT !.incremental = TRUE] \in Read
  BY <1>1, <1>2 DEF Read
<1>5. ASSUME NEW d \in Seq(Piece), NEW a \in {"ok", "waiting"}
      PROVE  [r EXCEPT !.data = d, !.at = a] \in Read
  BY <1>1, <1>2 DEF Read
<1>6. ASSUME NEW t \in Target, NEW p \in 0 .. Len(Size)
      PROVE  [r EXCEPT !.at = "waiting", !.target = t, !.since = p] \in Read
  BY <1>1, <1>2 DEF Read
<1>7. QED
  BY <1>1, <1>3, <1>4, <1>5, <1>6

LEMMA NoReadType ==
    /\ NoRead \in Read
    /\ NoRead.at = "idle" /\ NoRead.incremental = FALSE /\ NoRead.data = <<>>
BY SizesAreNumbers DEF NoRead, Read

LEMMA TypesStep ==
    ASSUME SelectionTypes, Quiet, [SelectionNext]_selectionVars
    PROVE  SelectionTypes'
<1>1. CASE Publish
  BY <1>1, SizesAreNumbers DEF Publish, SelectionTypes
<1>2. CASE Owner
  <2>1. CASE Stop
    <3>1. queue # <<>> /\ UNCHANGED <<data, reading, watched, property, events>>
      BY <2>1 DEF Stop, Told, Takes
    <3>2. queue' = Tail(queue) /\ transfers' = Without(Head(queue).deleted)
      BY <2>1 DEF Stop, Takes
    <3>3. PICK w \in Window : TRUE
      BY <3>1, <2>1, HeadIsMessage DEF Stop
    <3>4. queue' \in Seq(Message)
      BY <3>1, <3>2, <3>3, Longer
    <3>5. QED
      BY <3>1, <3>2, <3>4, Fewer DEF SelectionTypes, Message
  <2>2. QED
    BY <1>2, <2>1, AnswerTypes, ContinueTypes DEF Owner
<1>3. ASSUME NEW w \in Window, Proceeds(w) PROVE SelectionTypes'
  <2>1. reading[w] \in Read
    BY DEF SelectionTypes
  <2>2. CASE Overlook(w)
    BY <2>1, <2>2, BecomesTypes DEF Overlook
  <2>3. CASE TargetUnavailable(w)
    BY <2>1, <2>3, BecomesTypes, ReadTypes DEF TargetUnavailable, ReadFails
  <2>4. CASE BeginIncremental(w)
    BY <2>1, <2>4, BecomesTypes, ReadTypes DEF BeginIncremental, ReadFails, Looks
  <2>5. CASE TakePiece(w)
    <3>1. events[w] # <<>>
      BY <2>5 DEF TakePiece, Looks
    <3>2. CASE property[w] = None
      BY <2>1, <2>5, <3>1, <3>2, BecomesTypes DEF TakePiece
    <3>3. CASE property[w] # None /\ ~RightType(w)
      BY <2>1, <2>5, <3>1, <3>3, BecomesTypes, ReadTypes DEF TakePiece, ReadFails
    <3>4. CASE property[w] # None /\ RightType(w)
      <4>1. reading[w].data \o Bytes(w) \in Seq(Piece)
        <5>1. \A c \in Piece : <<c>> \in Seq(Piece)
          OBVIOUS
        <5>2. Bytes(w) \in Seq(Piece)
          BY <3>4, <5>1 DEF Bytes, RightType
        <5>3. reading[w].data \in Seq(Piece)
          BY <2>1, ReadTypes
        <5>4. QED
          BY <5>2, <5>3, ConcatProperties
      <4>2. [reading[w] EXCEPT
                !.data = @ \o Bytes(w),
                !.at = IF ~reading[w].incremental \/ Bytes(w) = <<>> THEN "ok" ELSE "waiting"]
               \in Read
        BY <2>1, <4>1, ReadTypes
      <4>3. QED
        BY <2>1, <2>5, <3>1, <3>4, <4>2, BecomesTypes, ReadTypes DEF TakePiece, ReadFails
    <3>5. QED
      BY <3>2, <3>3, <3>4
  <2>6. QED
    BY <1>3, <2>2, <2>3, <2>4, <2>5 DEF Proceeds
<1>4. ASSUME NEW w \in Window, Expire(w) \/ ExpireUnderway(w) PROVE SelectionTypes'
  BY <1>4, Fewer DEF Expire, ExpireUnderway, SelectionTypes
<1>5. ASSUME NEW w \in Window, TimesOut(w) \/ Vanish(w) PROVE SelectionTypes'
  <2>1. reading' \in [Window -> Read]
    <3>1. reading \in [Window -> Read]
      BY DEF SelectionTypes
    <3>2. [reading[w] EXCEPT !.at = "failed"] \in Read /\ [reading[w] EXCEPT !.at = "gone"] \in Read
      BY <3>1, ReadTypes
    <3>3. \E a \in {"failed", "gone"} : reading' = [reading EXCEPT ![w].at = a]
      BY <1>5 DEF TimesOut, Vanish
    <3>4. QED
      BY <3>1, <3>2, <3>3
  <2>2. QED
    BY <1>5, <2>1 DEF TimesOut, Vanish, SelectionTypes, owner
<1>6. ASSUME NEW w \in Window, NEW t \in Target, Ask(w, t) PROVE SelectionTypes'
  <2>1. queue' \in Seq(Message)
    BY <1>6, Longer DEF Ask
  <2>2. reading' \in [Window -> Read]
    BY <1>6, ReadTypes, NoReadType DEF Ask, SelectionTypes
  <2>3. QED
    BY <1>6, <2>1, <2>2 DEF Ask, SelectionTypes, owner, Message
<1>7. CASE UNCHANGED selectionVars
  BY <1>7 DEF selectionVars, owner, SelectionTypes
<1>8. QED
  BY <1>1, <1>2, <1>3, <1>4, <1>5, <1>6, <1>7 DEF SelectionNext

-----------------------------------------------------------------------------
(* What is under way between the owner and window w. *)

Pieces(p, t, n) == [i \in 1 .. n |-> PieceOf(p, t, i)]

\* If the owner still has the transfer, it stands at piece n of publication p.
Goes(w, p, n) ==
    w \in DOMAIN transfers =>
        transfers[w] = [publication |-> p, target |-> reading[w].target, offset |-> n]

\* The request is in the queue, behind what was deleted before it.
Asking(w) ==
    /\ OneRequest(queue, w, reading[w].target)
    /\ JustNew(events[w])
    /\ data > 0 /\ reading[w].since <= data

Small(w, p) ==
    /\ property[w] = PieceOf(p, reading[w].target, 1)
    /\ Size[p][reading[w].target] = 1

Large(w, p) ==
    /\ property[w] = [incr |-> p, target |-> reading[w].target]
    /\ Size[p][reading[w].target] > 1
    /\ w \in watched
    /\ Goes(w, p, 0)

\* The answer is in the property, and the notification on its way.
Answering(w) ==
    /\ NoRequest(queue, w)
    /\ NoDeleted(queue, w)
    /\ \/ LastIs(events[w], "refused")
       \/ /\ LastIs(events[w], "notify")
          /\ \E p \in Publication : p >= reading[w].since /\ (Small(w, p) \/ Large(w, p))

\* n pieces of publication p are read: the owner is to hear that its last one
\* was deleted, or the next one, or the empty one, is in the property.
OwnersTurn(w, p, n) ==
    /\ property[w] = None
    /\ events[w] = <<>>
    /\ OneDeleted(queue, w)
    /\ Goes(w, p, n)

ReadersTurn(w, p, n) ==
    /\ events[w] = <<"new">>
    /\ NoDeleted(queue, w)
    /\ \/ /\ n < Size[p][reading[w].target]
          /\ property[w] = PieceOf(p, reading[w].target, n + 1)
          /\ Goes(w, p, n + 1)
       \/ /\ n = Size[p][reading[w].target]
          /\ property[w] = PieceOf(p, reading[w].target, 0)
          /\ w \notin DOMAIN transfers

FetchingFrom(w, p) ==
    \E n \in Nat :
        /\ n <= Size[p][reading[w].target]
        /\ reading[w].data = Pieces(p, reading[w].target, n)
        /\ OwnersTurn(w, p, n) \/ ReadersTurn(w, p, n)

Fetching(w) ==
    /\ NoRequest(queue, w)
    /\ w \in watched
    /\ \E p \in Publication : p >= reading[w].since /\ FetchingFrom(w, p)

Waiting(w) ==
    /\ reading[w].target \in Target
    /\ \/ reading[w].incremental /\ Fetching(w)
       \/ ~reading[w].incremental /\ reading[w].data = <<>> /\ (Asking(w) \/ Answering(w))

Resting(w) == NoRequest(queue, w) /\ JustNew(events[w])

Had(w) ==
    \E p \in Publication :
        /\ p >= reading[w].since
        /\ reading[w].data = Pieces(p, reading[w].target, Size[p][reading[w].target])

\* A reader that waits has its request in the queue, or its answer in its window, or
\* takes turns with the owner; one that may ask has nothing under way that could be
\* taken for the next answer.  Windows that no longer read may have anything.
InOrder(w) ==
    /\ reading[w].at = "waiting" => Waiting(w)
    /\ reading[w].at = "idle" \/ (w \in Paste /\ reading[w].at \in {"ok", "failed"}) => Resting(w)
    /\ reading[w].at = "ok" => Had(w)

\* The inductive invariant of Selection.
SInv == SelectionTypes /\ Quiet /\ \A w \in Window : InOrder(w)

LEMMA SInvWhole == SInv => WholeValue
BY DEF SInv, InOrder, Had, Pieces, WholeValue

LEMMA SInvInit == SelectionInit => SInv
<1> SUFFICES ASSUME SelectionInit PROVE SInv
  OBVIOUS
<1>1. Quiet
  BY DEF SelectionInit, Quiet
<1>2. ASSUME NEW w \in Window PROVE InOrder(w)
  <2>1. reading[w].at = "idle" /\ events[w] = <<>> /\ queue = <<>>
    BY NoReadType DEF SelectionInit
  <2>2. Resting(w)
    BY <2>1 DEF Resting, NoRequest, JustNew
  <2>3. QED
    BY <2>1, <2>2 DEF InOrder
<1>3. QED
  BY <1>1, <1>2, TypesInit DEF SInv

\* The queue keeps what window w has in it.
QueueKeeps(w) ==
    /\ NoRequest(queue, w) => NoRequest(queue', w)
    /\ NoDeleted(queue, w) => NoDeleted(queue', w)
    /\ OneDeleted(queue, w) => OneDeleted(queue', w)
    /\ \A t \in Target : OneRequest(queue, w, t) => OneRequest(queue', w, t)

\* A step of others: at most it publishes something, or drops the transfer.
Untouched(w) ==
    /\ reading'[w] = reading[w]
    /\ events'[w] = events[w]
    /\ property'[w] = property[w]
    /\ data' \in Nat /\ data' >= data
    /\ w \in watched => w \in watched'
    /\ w \in DOMAIN transfers' => w \in DOMAIN transfers /\ transfers'[w] = transfers[w]
    /\ QueueKeeps(w)

LEMMA Frame ==
    ASSUME SelectionTypes, NEW w \in Window, InOrder(w), Untouched(w)
    PROVE  InOrder(w)'
<1>1. data \in Nat /\ data' \in Nat /\ data' >= data
  BY SizesAreNumbers DEF SelectionTypes, Untouched
<1>2. ASSUME NEW p, NEW n, Goes(w, p, n) PROVE Goes(w, p, n)'
  BY <1>2 DEF Goes, Untouched
<1>3. ASSUME reading[w].at = "waiting" PROVE Waiting(w)'
  <2>1. Waiting(w) /\ reading[w].target \in Target
    BY <1>3 DEF InOrder, Waiting
  <2>2. ASSUME Asking(w) PROVE Asking(w)'
    <3>1. data' > 0 /\ reading[w].since <= data'
      <4>1. reading[w].since \in Nat
        BY SizesAreNumbers DEF SelectionTypes, Read
      <4>2. data > 0 /\ reading[w].since <= data
        BY <2>2 DEF Asking
      <4>3. QED
        BY <1>1, <4>1, <4>2
    <3>2. QED
      BY <2>1, <2>2, <3>1 DEF Asking, Untouched, QueueKeeps
  <2>3. ASSUME Answering(w) PROVE Answering(w)'
    <3>1. NoRequest(queue', w) /\ NoDeleted(queue', w)
      BY <2>3 DEF Answering, Untouched, QueueKeeps
    <3>2. ASSUME NEW p \in Publication, Small(w, p) PROVE Small(w, p)'
      BY <3>2 DEF Small, Untouched
    <3>3. ASSUME NEW p \in Publication, Large(w, p) PROVE Large(w, p)'
      BY <1>2, <3>3 DEF Large, Untouched
    <3>4. UNCHANGED <<reading[w], events[w]>>
      BY DEF Untouched
    <3>5. QED
      BY <2>3, <3>1, <3>2, <3>3, <3>4 DEF Answering
  <2>4. ASSUME Fetching(w) PROVE Fetching(w)'
    <3>1. ASSUME NEW p \in Publication, NEW n \in Nat, OwnersTurn(w, p, n)
          PROVE  OwnersTurn(w, p, n)'
      BY <1>2, <3>1 DEF OwnersTurn, Untouched, QueueKeeps
    <3>2. ASSUME NEW p \in Publication, NEW n \in Nat, ReadersTurn(w, p, n)
          PROVE  ReadersTurn(w, p, n)'
      BY <1>2, <3>2 DEF ReadersTurn, Untouched, QueueKeeps
    <3>3. reading'[w] = reading[w]
      BY DEF Untouched
    <3>4. ASSUME NEW p \in Publication, FetchingFrom(w, p) PROVE FetchingFrom(w, p)'
      BY <3>1, <3>2, <3>3, <3>4 DEF FetchingFrom
    <3>5. QED
      BY <2>4, <3>3, <3>4 DEF Fetching, Untouched, QueueKeeps
  <2>5. QED
    BY <2>1, <2>2, <2>3, <2>4 DEF Waiting, Untouched
<1>4. ASSUME Resting(w) PROVE Resting(w)'
  BY <1>4 DEF Resting, Untouched, QueueKeeps
<1>5. ASSUME Had(w) PROVE Had(w)'
  BY <1>5 DEF Had, Untouched
<1>6. QED
  BY <1>3, <1>4, <1>5 DEF InOrder, Untouched

LEMMA KeepsSame ==
    ASSUME NEW w \in Window, queue' = queue
    PROVE  QueueKeeps(w)
BY DEF QueueKeeps

LEMMA KeepsTaken ==
    ASSUME SelectionTypes, NEW w \in Window, queue # <<>>, queue' = Tail(queue),
           ~(Head(queue) \in Request /\ Head(queue).window = w)
    PROVE  QueueKeeps(w)
<1>1. queue \in Seq(Message)
  BY DEF SelectionTypes, Message
<1>2. ASSUME NEW t \in Target, OneRequest(queue, w, t) PROVE OneRequest(queue', w, t)
  BY <1>1, <1>2, QueueTaken
<1>3. QED
  BY <1>1, <1>2, QueueTaken DEF QueueKeeps

LEMMA KeepsAdded ==
    ASSUME SelectionTypes, NEW w \in Window, NEW m \in Message, queue' = Append(queue, m),
           m # [deleted |-> w], m \in Request => m.window # w
    PROVE  QueueKeeps(w)
<1>1. queue \in Seq(Message)
  BY DEF SelectionTypes, Message
<1>2. QED
  BY <1>1, QueueAdded DEF QueueKeeps

-----------------------------------------------------------------------------
(* The owner. *)

\* What the owner does for window v leaves every other one alone.
LEMMA OwnerElsewhere ==
    ASSUME SelectionTypes, NEW w \in Window, NEW v \in Window, w # v, InOrder(w),
           queue # <<>>, Takes, ~(Head(queue) \in Request /\ Head(queue).window = w),
           property'[w] = property[w], events'[w] = events[w],
           watched \subseteq watched',
           w \in DOMAIN transfers' => w \in DOMAIN transfers /\ transfers'[w] = transfers[w]
    PROVE  InOrder(w)'
<1>1. QueueKeeps(w) /\ UNCHANGED <<data, reading>>
  BY KeepsTaken DEF Takes
<1>2. data \in Nat
  BY SizesAreNumbers DEF SelectionTypes
<1>3. Untouched(w)
  BY <1>1, <1>2 DEF Untouched
<1>4. QED
  BY <1>3, Frame

LEMMA StopStep ==
    ASSUME SInv, Stop, NEW w \in Window
    PROVE  InOrder(w)'
<1> USE DEF SInv
<1>1. /\ queue # <<>> /\ queue' = Tail(queue)
      /\ transfers' = Without(Head(queue).deleted)
      /\ UNCHANGED <<data, reading, property, events, watched>>
  BY DEF Stop, Told, Takes
<1>2. Head(queue) \notin Request
  BY MessagesDiffer DEF Stop, Told
<1>3. QueueKeeps(w)
  BY <1>1, <1>2, KeepsTaken
<1>4. w \in DOMAIN transfers' => w \in DOMAIN transfers /\ transfers'[w] = transfers[w]
  BY <1>1, Fewer
<1>5. data \in Nat
  BY SizesAreNumbers DEF SelectionTypes
<1>6. Untouched(w)
  BY <1>1, <1>3, <1>4, <1>5 DEF Untouched
<1>7. QED
  BY <1>6, Frame

\* A window whose request the owner takes has a reader that waits for its answer,
\* unless it has gone.
LEMMA AskedWaits ==
    ASSUME SInv, Asked, NEW w \in Window, w = Head(queue).window, There(w)
    PROVE  /\ reading[w].at = "waiting" /\ ~reading[w].incremental /\ reading[w].data = <<>>
           /\ Asking(w)
           /\ Head(queue).target = reading[w].target
           /\ reading[w].target \in Target
           /\ NoRequest(Tail(queue), w) /\ NoDeleted(Tail(queue), w)
<1>1. /\ queue \in Seq(Message) /\ queue # <<>> /\ Head(queue) \in Request
      /\ InOrder(w) /\ reading[w] \in Read
  BY DEF SInv, SelectionTypes, Message, Asked
<1>2. ~NoRequest(queue, w)
  <2>1. Len(queue) \in Nat /\ Len(queue) >= 1 /\ Head(queue) = queue[1]
    BY <1>1, TailSequence
  <2>2. 1 \in 1 .. Len(queue)
    BY <2>1
  <2>3. QED
    BY <1>1, <2>1, <2>2 DEF NoRequest
<1>3. reading[w].at = "waiting"
  <2>1. reading[w].at # "idle" /\ ~(w \in Paste /\ reading[w].at \in {"ok", "failed"})
    BY <1>1, <1>2 DEF InOrder, Resting
  <2>2. reading[w].at \in {"idle", "waiting", "ok", "failed", "gone"}
    BY <1>1 DEF Read
  <2>3. QED
    BY <2>1, <2>2 DEF There, Window
<1>4. /\ ~reading[w].incremental /\ reading[w].data = <<>> /\ Asking(w)
      /\ reading[w].target \in Target
  BY <1>1, <1>2, <1>3 DEF InOrder, Waiting, Fetching, Answering
<1>5. OneRequest(queue, w, reading[w].target)
  BY <1>4 DEF Asking
<1>6. QED
  BY <1>1, <1>3, <1>4, <1>5, QueueTaken

LEMMA AnswerStep ==
    ASSUME SInv, Answer, NEW w \in Window
    PROVE  InOrder(w)'
<1> DEFINE v == Head(queue).window
           t == Head(queue).target
<1>1. /\ v \in Window /\ t \in Target /\ queue # <<>> /\ Head(queue) \in Request
      /\ SelectionTypes /\ InOrder(w)
  BY HeadIsMessage DEF SInv, Answer, Asked
<1>2. Takes /\ queue' = Tail(queue) /\ UNCHANGED <<data, reading>>
  BY DEF Answer, Takes
<1>3. ConvertSmall(v, t) \/ ConvertIncremental(v, t) \/ Refuse(v, t) \/ Unasked(v)
  BY DEF Answer
<1> HIDE DEF v, t
<1>4. CASE w # v
  <2>1. /\ property'[w] = property[w] /\ events'[w] = events[w] /\ watched \subseteq watched'
        /\ w \in DOMAIN transfers' => w \in DOMAIN transfers /\ transfers'[w] = transfers[w]
    BY <1>1, <1>3, <1>4 DEF ConvertSmall, ConvertIncremental, Refuse, Unasked, Tells, Leaves,
       SelectionTypes
  <2>2. ~(Head(queue) \in Request /\ Head(queue).window = w)
    BY <1>4 DEF v
  <2>3. QED
    BY <1>1, <1>2, <1>4, <2>1, <2>2, OwnerElsewhere
<1>5. CASE w = v /\ There(v)
  <2>1. /\ reading[w].at = "waiting" /\ ~reading[w].incremental /\ reading[w].data = <<>>
        /\ Asking(w) /\ t = reading[w].target /\ t \in Target
        /\ NoRequest(queue', w) /\ NoDeleted(queue', w)
    BY <1>2, <1>5, AskedWaits DEF Answer, v, t
  <2>2. data > 0 /\ reading[w].since <= data /\ JustNew(events[w])
    BY <2>1 DEF Asking
  <2>3. data \in Publication /\ data >= reading[w].since
    <3>1. reading[w].since \in Nat /\ data \in Nat
      BY SizesAreNumbers, <1>1 DEF SelectionTypes, Read
    <3>2. QED
      BY <1>1, <2>2, <3>1, Offered
  <2>4. /\ LastIs(events[w] \o <<"new", "notify">>, "notify")
        /\ LastIs(events[w] \o <<"refused">>, "refused")
    BY <1>1, <2>2, EventsAdded DEF SelectionTypes, Event
  <2>5. Answering(w)'
    <3>1. CASE ConvertSmall(w, t)
      <4>1. /\ events'[w] = events[w] \o <<"new", "notify">>
            /\ property'[w] = PieceOf(data, t, 1) /\ Size[data][t] = 1
        BY <1>1, <3>1 DEF ConvertSmall, Tells, Leaves, SelectionTypes
      <4>2. Small(w, data)'
        BY <1>2, <2>1, <4>1 DEF Small
      <4>3. QED
        BY <1>2, <2>1, <2>3, <2>4, <4>1, <4>2 DEF Answering
    <3>2. CASE ConvertIncremental(w, t)
      <4>1. /\ events'[w] = events[w] \o <<"new", "notify">>
            /\ property'[w] = [incr |-> data, target |-> t] /\ Size[data][t] > 1
            /\ w \in watched'
            /\ transfers'[w] = [publication |-> data, target |-> t, offset |-> 0]
        BY <1>1, <3>2 DEF ConvertIncremental, Tells, Leaves, SelectionTypes
      <4>2. Large(w, data)'
        BY <1>2, <2>1, <4>1 DEF Large, Goes
      <4>3. QED
        BY <1>2, <2>1, <2>3, <2>4, <4>1, <4>2 DEF Answering
    <3>3. CASE Refuse(w, t)
      <4>1. events'[w] = events[w] \o <<"refused">>
        BY <1>1, <3>3 DEF Refuse, Tells, SelectionTypes
      <4>2. QED
        BY <2>1, <2>4, <4>1 DEF Answering
    <3>4. QED
      BY <1>3, <1>5, <3>1, <3>2, <3>3 DEF Unasked
  <2>6. QED
    BY <1>2, <2>1, <2>5 DEF InOrder, Waiting
<1>6. CASE w = v /\ ~There(v)
  <2>1. reading[w].at # "waiting"
    BY <1>6, SelectionAssumption DEF There, Window
  <2>2. ~NoRequest(queue, w)
    <3>1. Len(queue) \in Nat /\ Len(queue) >= 1 /\ Head(queue) = queue[1]
      BY <1>1, TailSequence DEF SelectionTypes
    <3>2. 1 \in 1 .. Len(queue)
      BY <3>1
    <3>3. QED
      BY <1>1, <1>6, <3>1, <3>2 DEF NoRequest, v
  <2>3. QED
    BY <1>1, <1>2, <2>1, <2>2 DEF InOrder, Resting, Had
<1>7. QED
  BY <1>4, <1>5, <1>6

LEMMA ContinueStep ==
    ASSUME SInv, Continue, NEW w \in Window
    PROVE  InOrder(w)'
<1> DEFINE v == Head(queue).deleted
<1>1. /\ v \in Window /\ queue # <<>> /\ Head(queue) \notin Request /\ Head(queue) = [deleted |-> v]
      /\ SelectionTypes /\ InOrder(w)
  BY HeadIsMessage, MessagesDiffer DEF SInv, Continue, Told
<1>2. Takes /\ queue' = Tail(queue) /\ UNCHANGED <<data, reading, watched>>
  BY DEF Continue, Takes
<1>3. /\ v \in DOMAIN transfers /\ There(v)
      /\ property' = [property EXCEPT ![v] =
            PieceOf(transfers[v].publication, transfers[v].target,
                    IF transfers[v].offset = Size[transfers[v].publication][transfers[v].target]
                    THEN 0 ELSE transfers[v].offset + 1)]
      /\ events' = [events EXCEPT ![v] = @ \o <<"new">>]
      /\ transfers' = IF Finished(transfers[v]) THEN Without(v)
                      ELSE [transfers EXCEPT ![v].offset = @ + 1]
  BY DEF Continue, ContentOf, Leaves, Tells
<1> HIDE DEF v
<1>4. CASE w # v
  <2>1. property'[w] = property[w] /\ events'[w] = events[w]
    BY <1>1, <1>3, <1>4 DEF SelectionTypes
  <2>2. w \in DOMAIN transfers' => w \in DOMAIN transfers /\ transfers'[w] = transfers[w]
    BY <1>1, <1>3, <1>4, Fewer
  <2>3. QED
    BY <1>1, <1>2, <1>4, <2>1, <2>2, OwnerElsewhere
<1>5. CASE w = v
  <2>1. ~NoDeleted(queue, w)
    <3>1. Len(queue) \in Nat /\ Len(queue) >= 1 /\ Head(queue) = queue[1]
      BY <1>1, TailSequence DEF SelectionTypes
    <3>2. 1 \in 1 .. Len(queue)
      BY <3>1
    <3>3. QED
      BY <1>1, <1>5, <3>1, <3>2 DEF NoDeleted
  <2>2. events'[w] = events[w] \o <<"new">>
    BY <1>1, <1>3, <1>5 DEF SelectionTypes
  <2>3. JustNew(events[w]) => JustNew(events'[w])
    BY <1>1, <2>2, EventsAdded DEF SelectionTypes, Event
  <2>4. QueueKeeps(w)
    BY <1>1, <1>2, KeepsTaken
  <2>5. ASSUME reading[w].at = "waiting" PROVE Waiting(w)'
    <3>1. Waiting(w) /\ reading[w].target \in Target
      BY <1>1, <2>5 DEF InOrder, Waiting
    <3>2. CASE ~reading[w].incremental /\ reading[w].data = <<>> /\ Asking(w)
      <4>1. Asking(w)'
        BY <1>2, <2>3, <2>4, <3>1, <3>2 DEF Asking, QueueKeeps
      <4>2. QED
        BY <1>2, <3>1, <3>2, <4>1 DEF Waiting
    <3>3. CASE reading[w].incremental /\ Fetching(w)
      <4>1. PICK p \in Publication : p >= reading[w].since /\ FetchingFrom(w, p)
        BY <3>3 DEF Fetching
      <4>2. PICK n \in Nat : /\ n <= Size[p][reading[w].target]
                             /\ reading[w].data = Pieces(p, reading[w].target, n)
                             /\ OwnersTurn(w, p, n) \/ ReadersTurn(w, p, n)
        BY <4>1 DEF FetchingFrom
      <4>3. OwnersTurn(w, p, n)
        BY <2>1, <4>2 DEF ReadersTurn
      <4>4. transfers[w] = [publication |-> p, target |-> reading[w].target, offset |-> n]
        BY <1>3, <1>5, <4>3 DEF OwnersTurn, Goes
      <4>5. /\ transfers[w].publication = p /\ transfers[w].target = reading[w].target
            /\ transfers[w].offset = n
        BY <4>4
      <4>6. NoDeleted(queue', w) /\ NoRequest(queue', w)
        <5>1. NoDeleted(queue', w)
          BY <1>1, <1>2, <1>5, <4>3, QueueTaken DEF OwnersTurn, SelectionTypes, Message
        <5>2. QED
          BY <2>4, <3>3, <5>1 DEF Fetching, QueueKeeps
      <4>7. events'[w] = <<"new">>
        BY <2>2, <4>3 DEF OwnersTurn
      <4>8. Size[p][reading[w].target] \in Nat
        BY <3>1, SizesAreNumbers
      <4>9. ASSUME ReadersTurn(w, p, n)' PROVE Waiting(w)'
        <5>1. FetchingFrom(w, p)'
          BY <1>2, <4>2, <4>9 DEF FetchingFrom
        <5>2. Fetching(w)'
          BY <1>2, <3>3, <4>1, <4>6, <5>1 DEF Fetching
        <5>3. QED
          BY <1>2, <3>1, <3>3, <5>2 DEF Waiting
      <4>10. CASE n = Size[p][reading[w].target]
        <5>1. property'[w] = PieceOf(p, reading[w].target, 0)
          BY <1>1, <1>3, <1>5, <4>5, <4>10 DEF SelectionTypes
        <5>2. w \notin DOMAIN transfers'
          BY <1>1, <1>3, <1>5, <4>5, <4>10, Fewer DEF Finished
        <5>3. ReadersTurn(w, p, n)'
          BY <1>2, <4>6, <4>7, <4>10, <5>1, <5>2 DEF ReadersTurn
        <5>4. QED
          BY <4>9, <5>3
      <4>11. CASE n # Size[p][reading[w].target]
        <5>1. property'[w] = PieceOf(p, reading[w].target, n + 1) /\ n < Size[p][reading[w].target]
          BY <1>1, <1>3, <1>5, <4>2, <4>5, <4>8, <4>11 DEF SelectionTypes
        <5>2. transfers'[w] = [publication |-> p, target |-> reading[w].target, offset |-> n + 1]
          <6>1. transfers' = [transfers EXCEPT ![w] = [transfers[w] EXCEPT !.offset = @ + 1]]
            BY <1>3, <1>5, <4>5, <4>11 DEF Finished
          <6>2. transfers'[w] = [transfers[w] EXCEPT !.offset = n + 1]
            BY <1>3, <1>5, <4>5, <6>1
          <6>3. QED
            BY <4>4, <6>2
        <5>3. ReadersTurn(w, p, n)'
          BY <1>2, <4>6, <4>7, <5>1, <5>2 DEF ReadersTurn, Goes
        <5>4. QED
          BY <4>9, <5>3
      <4>12. QED
        BY <4>10, <4>11
    <3>4. QED
      BY <2>1, <3>1, <3>2, <3>3 DEF Waiting, Answering
  <2>6. Resting(w) => Resting(w)'
    BY <2>3, <2>4 DEF Resting, QueueKeeps
  <2>7. Had(w) => Had(w)'
    BY <1>2 DEF Had
  <2>8. QED
    BY <1>1, <1>2, <2>5, <2>6, <2>7 DEF InOrder
<1>6. QED
  BY <1>4, <1>5

-----------------------------------------------------------------------------
(* The readers. *)

\* A reader that takes an event leaves every other window alone.
LEMMA ReaderElsewhere ==
    ASSUME SInv, NEW v \in Window, NEW w \in Window, w # v,
           TakesContent(v) \/ UNCHANGED <<queue, property>>,
           \A u \in Window \ {v} : reading'[u] = reading[u] /\ events'[u] = events[u],
           UNCHANGED owner
    PROVE  InOrder(w)'
<1>1. SelectionTypes /\ InOrder(w)
  BY DEF SInv
<1>2. QueueKeeps(w) /\ property'[w] = property[w]
  <2>1. [deleted |-> v] \in Message /\ [deleted |-> v] # [deleted |-> w] /\ [deleted |-> v] \notin Request
    BY MessagesDiffer DEF Message
  <2>2. CASE UNCHANGED <<queue, property>>
    BY <2>2, KeepsSame
  <2>3. CASE TakesContent(v)
    BY <1>1, <2>1, <2>3, KeepsSame, KeepsAdded DEF TakesContent, Leaves, SelectionTypes
  <2>4. QED
    BY <2>2, <2>3
<1>3. data \in Nat
  BY <1>1, SizesAreNumbers DEF SelectionTypes
<1>4. Untouched(w)
  BY <1>2, <1>3 DEF Untouched, owner
<1>5. QED
  BY <1>1, <1>4, Frame

\* What a reader has when it takes an event.
LEMMA TakesEvent ==
    ASSUME SInv, NEW w \in Window, NEW r \in Read, Becomes(w, r), events[w] # <<>>
    PROVE  /\ reading'[w] = r
           /\ events'[w] = Tail(events[w])
           /\ \A u \in Window \ {w} : reading'[u] = reading[u] /\ events'[u] = events[u]
           /\ UNCHANGED owner
           /\ JustNew(events[w]) => Head(events[w]) = "new" /\ JustNew(events'[w])
           /\ \A e \in {"notify", "refused"} : LastIs(events[w], e) =>
                 /\ Head(events[w]) \in {"new", e}
                 /\ Head(events[w]) = e => events'[w] = <<>>
                 /\ Head(events[w]) = "new" => LastIs(events'[w], e)
<1>1. /\ reading'[w] = r
      /\ events'[w] = Tail(events[w])
      /\ \A u \in Window \ {w} : reading'[u] = reading[u] /\ events'[u] = events[u]
      /\ UNCHANGED owner
  BY DEF Becomes, SInv, SelectionTypes
<1>2. events[w] \in Seq(Event)
  BY DEF SInv, SelectionTypes, Event
<1>3. QED
  BY <1>1, <1>2, EventsTaken

\* A reader that fails has had its answer.
LEMMA FailedRests ==
    ASSUME NEW w \in Window, reading'[w].at = "failed", NoRequest(queue', w), events'[w] = <<>>
    PROVE  InOrder(w)'
<1>1. JustNew(events'[w])
  BY DEF JustNew
<1>2. QED
  BY <1>1 DEF InOrder, Resting

\* What a reader may find in its window when an event makes it look.
LEMMA Finds ==
    ASSUME SInv, NEW w \in Window, Looks(w)
    PROVE  /\ reading[w].target \in Target
           /\ NoRequest(queue, w) /\ NoDeleted(queue, w)
           /\ Tail(events[w]) = <<>>
           /\ \E p \in Publication : p >= reading[w].since /\
                IF reading[w].incremental
                THEN w \in watched /\ \E n \in Nat :
                        /\ n <= Size[p][reading[w].target]
                        /\ reading[w].data = Pieces(p, reading[w].target, n)
                        /\ ReadersTurn(w, p, n)
                ELSE reading[w].data = <<>> /\ (Small(w, p) \/ Large(w, p))
<1>1. /\ reading[w].at = "waiting" /\ events[w] # <<>> /\ events[w] \in Seq(Event)
      /\ Head(events[w]) = "notify" \/ (Head(events[w]) = "new" /\ reading[w].incremental)
      /\ Waiting(w)
  BY DEF Looks, SInv, SelectionTypes, InOrder, Event
<1>2. reading[w].target \in Target
  BY <1>1 DEF Waiting
<1>3. CASE reading[w].incremental /\ Fetching(w)
  <2>1. PICK p \in Publication : p >= reading[w].since /\ FetchingFrom(w, p)
    BY <1>3 DEF Fetching
  <2>2. PICK n \in Nat : /\ n <= Size[p][reading[w].target]
                         /\ reading[w].data = Pieces(p, reading[w].target, n)
                         /\ OwnersTurn(w, p, n) \/ ReadersTurn(w, p, n)
    BY <2>1 DEF FetchingFrom
  <2>3. ReadersTurn(w, p, n)
    BY <1>1, <2>2 DEF OwnersTurn
  <2>4. events[w] = <<"new">> /\ NoDeleted(queue, w)
    BY <2>3 DEF ReadersTurn
  <2>5. Tail(events[w]) = <<>>
    BY <2>4
  <2>6. QED
    BY <1>2, <1>3, <2>1, <2>2, <2>3, <2>4, <2>5 DEF Fetching
<1>4. CASE ~reading[w].incremental /\ reading[w].data = <<>> /\ (Asking(w) \/ Answering(w))
  <2>1. Head(events[w]) = "notify"
    BY <1>1, <1>4
  <2>2. ~Asking(w)
    BY <1>1, <2>1, EventsTaken DEF Asking
  <2>3. ~LastIs(events[w], "refused")
    BY <1>1, <2>1, EventsTaken
  <2>4. PICK p \in Publication : p >= reading[w].since /\ (Small(w, p) \/ Large(w, p))
    BY <1>4, <2>2, <2>3 DEF Answering
  <2>5. LastIs(events[w], "notify") /\ NoRequest(queue, w) /\ NoDeleted(queue, w)
    BY <1>4, <2>2, <2>3 DEF Answering
  <2>6. Tail(events[w]) = <<>>
    BY <1>1, <2>1, <2>5, EventsTaken
  <2>7. QED
    BY <1>2, <1>4, <2>4, <2>5, <2>6
<1>5. QED
  BY <1>1, <1>3, <1>4 DEF Waiting

\* What is taken from a watched window is reported once.
LEMMA Reported ==
    ASSUME SelectionTypes, NEW w \in Window, TakesContent(w), NoRequest(queue, w)
    PROVE  /\ NoRequest(queue', w)
           /\ property'[w] = None
           /\ NoDeleted(queue, w) => OneDeleted(queue', w)
<1>1. queue \in Seq(Message) /\ [deleted |-> w] \in Message /\ [deleted |-> w] \in Deleted
  BY MessagesDiffer DEF SelectionTypes, Message
<1>2. property'[w] = None
  BY DEF TakesContent, Leaves, SelectionTypes
<1>3. CASE queue' = queue
  BY <1>2, <1>3 DEF NoDeleted, OneDeleted
<1>4. CASE queue' = Append(queue, [deleted |-> w])
  BY <1>1, <1>2, <1>4, QueueAdded
<1>5. QED
  BY <1>3, <1>4 DEF TakesContent

LEMMA OverlookStep ==
    ASSUME SInv, NEW w \in Window, Overlook(w)
    PROVE  InOrder(w)'
<1>1. /\ reading[w] \in Read /\ InOrder(w) /\ events[w] # <<>>
      /\ Becomes(w, reading[w]) /\ UNCHANGED <<queue, property>>
      /\ reading[w].at # "waiting" \/ (Head(events[w]) = "new" /\ ~reading[w].incremental)
  BY DEF SInv, SelectionTypes, Overlook
<1>2. /\ reading'[w] = reading[w] /\ UNCHANGED owner
      /\ JustNew(events[w]) => JustNew(events'[w])
      /\ \A e \in {"notify", "refused"} :
            LastIs(events[w], e) /\ Head(events[w]) = "new" => LastIs(events'[w], e)
  BY <1>1, TakesEvent
<1>3. Resting(w) => Resting(w)'
  BY <1>1, <1>2 DEF Resting
<1>4. Had(w) => Had(w)'
  BY <1>2 DEF Had
<1>5. ASSUME reading[w].at = "waiting" PROVE Waiting(w)'
  <2>1. /\ reading[w].target \in Target /\ ~reading[w].incremental /\ reading[w].data = <<>>
        /\ Asking(w) \/ Answering(w)
    BY <1>1, <1>5 DEF InOrder, Waiting
  <2>2. Asking(w) => Asking(w)'
    BY <1>1, <1>2 DEF Asking, owner
  <2>3. ASSUME Answering(w) PROVE Answering(w)'
    <3>1. ASSUME NEW p \in Publication PROVE (Small(w, p) \/ Large(w, p)) => (Small(w, p) \/ Large(w, p))'
      BY <1>1, <1>2 DEF Small, Large, Goes, owner
    <3>2. NoRequest(queue', w) /\ NoDeleted(queue', w)
      BY <1>1, <2>3 DEF Answering
    <3>3. \A e \in {"notify", "refused"} : LastIs(events[w], e) => LastIs(events'[w], e)
      BY <1>1, <1>2, <1>5
    <3>4. QED
      BY <1>2, <2>3, <3>1, <3>2, <3>3 DEF Answering
  <2>4. QED
    BY <1>2, <2>1, <2>2, <2>3 DEF Waiting
<1>6. QED
  BY <1>1, <1>2, <1>3, <1>4, <1>5 DEF InOrder

LEMMA TargetUnavailableStep ==
    ASSUME SInv, NEW w \in Window, TargetUnavailable(w)
    PROVE  InOrder(w)'
<1> DEFINE r == [reading[w] EXCEPT !.at = "failed"]
<1>1. /\ reading[w] \in Read /\ reading[w].at = "waiting" /\ Waiting(w) /\ events[w] # <<>>
      /\ Becomes(w, r) /\ UNCHANGED <<queue, property>>
      /\ Head(events[w]) = "refused"
  BY DEF SInv, SelectionTypes, TargetUnavailable, ReadFails, InOrder
<1>2. r \in Read /\ r.at = "failed"
  BY <1>1, ReadTypes DEF Read
<1> HIDE DEF r
<1>3. /\ reading'[w] = r
      /\ ~JustNew(events[w]) /\ ~LastIs(events[w], "notify")
      /\ LastIs(events[w], "refused") => events'[w] = <<>>
  BY <1>1, <1>2, TakesEvent
<1>4. ~Fetching(w)
  <2>1. events[w] # <<"new">>
    BY <1>1
  <2>2. QED
    BY <1>1, <2>1 DEF Fetching, FetchingFrom, OwnersTurn, ReadersTurn
<1>5. Answering(w)
  BY <1>1, <1>3, <1>4 DEF Waiting, Asking
<1>6. NoRequest(queue', w) /\ events'[w] = <<>>
  BY <1>1, <1>3, <1>5 DEF Answering
<1>7. QED
  BY <1>2, <1>3, <1>6, FailedRests

LEMMA BeginIncrementalStep ==
    ASSUME SInv, NEW w \in Window, BeginIncremental(w)
    PROVE  InOrder(w)'
<1> DEFINE f == [reading[w] EXCEPT !.at = "failed"]
           r == [reading[w] EXCEPT !.incremental = TRUE]
<1>1. /\ reading[w] \in Read /\ SelectionTypes /\ Looks(w) /\ events[w] # <<>>
      /\ property[w] \in Header /\ ~reading[w].incremental /\ TakesContent(w)
      /\ Becomes(w, r) \/ Becomes(w, f)
      /\ reading[w].at = "waiting"
  BY DEF SInv, SelectionTypes, BeginIncremental, ReadFails, Looks
<1>2. /\ f \in Read /\ f.at = "failed"
      /\ r \in Read /\ r.at = "waiting" /\ r.incremental /\ r.data = reading[w].data
      /\ r.target = reading[w].target /\ r.since = reading[w].since
  BY <1>1, ReadTypes DEF Read
<1> HIDE DEF f, r
<1>3. PICK p \in Publication :
         /\ p >= reading[w].since /\ reading[w].data = <<>> /\ (Small(w, p) \/ Large(w, p))
         /\ reading[w].target \in Target
         /\ NoRequest(queue, w) /\ NoDeleted(queue, w) /\ Tail(events[w]) = <<>>
  BY <1>1, Finds
<1>4. NoRequest(queue', w) /\ property'[w] = None /\ OneDeleted(queue', w)
  BY <1>1, <1>3, Reported
<1>5. CASE Becomes(w, f)
  <2>1. reading'[w] = f /\ events'[w] = <<>>
    BY <1>1, <1>2, <1>3, <1>5, TakesEvent
  <2>2. QED
    BY <1>2, <1>4, <2>1, FailedRests
<1>6. CASE Becomes(w, r)
  <2>1. reading'[w] = r /\ events'[w] = <<>> /\ UNCHANGED owner
    BY <1>1, <1>2, <1>3, <1>6, TakesEvent
  <2>2. Large(w, p)
    <3>1. \A t \in Target : PieceOf(p, t, 1) \in Piece
      BY ContentsDiffer
    <3>2. QED
      BY <1>1, <1>3, <3>1, ContentsDiffer DEF Small
  <2>3. OwnersTurn(w, p, 0)'
    BY <1>2, <1>4, <2>1, <2>2 DEF OwnersTurn, Large, Goes, owner
  <2>4. 0 <= Size[p][reading[w].target] /\ Pieces(p, reading[w].target, 0) = <<>>
    BY <1>3, SizesAreNumbers DEF Pieces
  <2>5. FetchingFrom(w, p)'
    BY <1>2, <1>3, <2>1, <2>3, <2>4 DEF FetchingFrom
  <2>6. Fetching(w)'
    BY <1>2, <1>3, <1>4, <2>1, <2>2, <2>5 DEF Fetching, Large, owner
  <2>7. QED
    BY <1>2, <1>3, <2>1, <2>6 DEF InOrder, Waiting
<1>7. QED
  BY <1>1, <1>5, <1>6

\* One more piece of the value.
LEMMA PiecesGrow ==
    ASSUME NEW p, NEW t, NEW n \in Nat
    PROVE  Pieces(p, t, n) \o <<PieceOf(p, t, n + 1)>> = Pieces(p, t, n + 1)
<1> DEFINE s == Pieces(p, t, n)
           c == PieceOf(p, t, n + 1)
           u == s \o <<c>>
           v == Pieces(p, t, n + 1)
<1>1. s \in Seq({PieceOf(p, t, i) : i \in Nat}) /\ Len(s) = n
  BY DEF Pieces
<1>2. /\ u \in Seq({PieceOf(p, t, i) : i \in Nat})
      /\ Len(u) = n + 1
      /\ \A i \in 1 .. n + 1 : u[i] = IF i <= n THEN s[i] ELSE c
  BY <1>1
<1>3. v \in Seq({PieceOf(p, t, i) : i \in Nat}) /\ Len(v) = n + 1
  BY DEF Pieces
<1>4. \A i \in 1 .. n + 1 : v[i] = PieceOf(p, t, i)
  BY DEF Pieces
<1>5. \A i \in 1 .. n : s[i] = PieceOf(p, t, i)
  BY DEF Pieces
<1>6. \A i \in 1 .. n + 1 : i \in 1 .. n \/ i = n + 1
  OBVIOUS
<1> HIDE DEF s, u, v
<1>7. \A i \in 1 .. n + 1 : u[i] = v[i]
  BY <1>2, <1>4, <1>5, <1>6
<1>8. u = v
  BY <1>2, <1>3, <1>7, SeqEqual
<1>9. QED
  BY <1>8 DEF s, u, v

\* A read that has all of the value.
LEMMA ReturnsWhole ==
    ASSUME NEW w \in Window, NEW p \in Publication,
           reading'[w].at = "ok", p >= reading'[w].since,
           reading'[w].data = Pieces(p, reading'[w].target, Size[p][reading'[w].target]),
           NoRequest(queue', w), events'[w] = <<>>
    PROVE  InOrder(w)'
<1>1. JustNew(events'[w])
  BY DEF JustNew
<1>2. Had(w)'
  BY DEF Had
<1>3. QED
  BY <1>1, <1>2 DEF InOrder, Resting

LEMMA TakePieceStep ==
    ASSUME SInv, NEW w \in Window, TakePiece(w)
    PROVE  InOrder(w)'
<1> DEFINE f == [reading[w] EXCEPT !.at = "failed"]
           d == reading[w].data \o Bytes(w)
           a == IF ~reading[w].incremental \/ Bytes(w) = <<>> THEN "ok" ELSE "waiting"
           r == [reading[w] EXCEPT !.data = d, !.at = a]
           T == reading[w].target
<1>1. /\ reading[w] \in Read /\ SelectionTypes /\ Looks(w) /\ events[w] # <<>>
      /\ ~(property[w] \in Header /\ ~reading[w].incremental)
      /\ reading[w].at = "waiting"
  BY DEF SInv, SelectionTypes, TakePiece, Looks
<1>2. PICK p \in Publication :
         /\ p >= reading[w].since /\ T \in Target
         /\ NoRequest(queue, w) /\ NoDeleted(queue, w) /\ Tail(events[w]) = <<>>
         /\ IF reading[w].incremental
            THEN w \in watched /\ \E n \in Nat :
                    /\ n <= Size[p][T] /\ reading[w].data = Pieces(p, T, n)
                    /\ ReadersTurn(w, p, n)
            ELSE reading[w].data = <<>> /\ (Small(w, p) \/ Large(w, p))
  BY <1>1, Finds
<1>3. \E i \in Nat : property[w] = PieceOf(p, T, i)
  <2>1. CASE reading[w].incremental
    <3>1. PICK n \in Nat : ReadersTurn(w, p, n)
      BY <1>2, <2>1
    <3>2. n + 1 \in Nat /\ 0 \in Nat
      OBVIOUS
    <3>3. QED
      BY <3>1, <3>2 DEF ReadersTurn
  <2>2. CASE ~reading[w].incremental
    <3>1. ~Large(w, p)
      BY <1>1, <1>2, <2>2, ContentsDiffer DEF Large
    <3>2. 1 \in Nat
      OBVIOUS
    <3>3. QED
      BY <1>2, <2>2, <3>1, <3>2 DEF Small
  <2>3. QED
    BY <2>1, <2>2
<1>4. property[w] \in Piece /\ property[w] # None /\ RightType(w)
  BY <1>2, <1>3, ContentsDiffer DEF RightType
<1>5. \/ Becomes(w, f) /\ UNCHANGED <<queue, property>>
      \/ Becomes(w, r) /\ TakesContent(w)
  BY <1>4 DEF TakePiece, ReadFails
<1>6. /\ f \in Read /\ f.at = "failed"
      /\ r \in Read /\ r.at = a /\ r.data = d /\ r.target = T
      /\ r.since = reading[w].since /\ r.incremental = reading[w].incremental
  <2>1. d \in Seq(Piece)
    <3>1. <<property[w]>> \in Seq(Piece)
      BY <1>4
    <3>2. Bytes(w) \in Seq(Piece)
      BY <3>1 DEF Bytes
    <3>3. QED
      BY <1>1, <3>2, ReadTypes, ConcatProperties
  <2> HIDE DEF d
  <2>2. a \in {"ok", "waiting"}
    OBVIOUS
  <2> HIDE DEF a
  <2>3. QED
    BY <1>1, <2>1, <2>2, ReadTypes DEF Read
<1> HIDE DEF f, r
<1>7. CASE Becomes(w, f) /\ UNCHANGED <<queue, property>>
  <2>1. reading'[w] = f /\ events'[w] = <<>>
    BY <1>1, <1>2, <1>6, <1>7, TakesEvent
  <2>2. QED
    BY <1>2, <1>6, <1>7, <2>1, FailedRests
<1>8. CASE Becomes(w, r) /\ TakesContent(w)
  <2>1. reading'[w] = r /\ events'[w] = <<>> /\ UNCHANGED owner
    BY <1>1, <1>2, <1>6, <1>8, TakesEvent
  <2>2. NoRequest(queue', w) /\ property'[w] = None /\ OneDeleted(queue', w)
    BY <1>1, <1>2, <1>8, Reported
  <2>3. CASE ~reading[w].incremental
    <3>1. Small(w, p) /\ reading[w].data = <<>>
      BY <1>1, <1>2, <2>3, ContentsDiffer DEF Large
    <3>2. property[w] = PieceOf(p, T, 1) /\ property[w].index = 1 /\ Size[p][T] = 1
      BY <1>2, <3>1, ContentsDiffer DEF Small
    <3>3. d = <<>> \o <<PieceOf(p, T, 1)>>
      BY <3>1, <3>2 DEF Bytes
    <3>4. Pieces(p, T, 0) = <<>>
      BY DEF Pieces
    <3>5. d = Pieces(p, T, Size[p][T])
      <4>1. Pieces(p, T, 0) \o <<PieceOf(p, T, 0 + 1)>> = Pieces(p, T, 0 + 1)
        BY PiecesGrow
      <4>2. 0 + 1 = 1
        OBVIOUS
      <4>3. QED
        BY <3>2, <3>3, <3>4, <4>1, <4>2
    <3>6. r.at = "ok"
      BY <1>6, <2>3
    <3>7. QED
      BY <1>2, <1>6, <2>1, <2>2, <3>5, <3>6, ReturnsWhole
  <2>4. CASE reading[w].incremental
    <3>1. PICK n \in Nat : /\ n <= Size[p][T] /\ reading[w].data = Pieces(p, T, n)
                           /\ ReadersTurn(w, p, n) /\ w \in watched
      BY <1>2, <2>4
    <3>2. CASE /\ n < Size[p][T] /\ property[w] = PieceOf(p, T, n + 1)
               /\ Goes(w, p, n + 1)
      <4>1. property[w].index = n + 1 /\ n + 1 # 0 /\ n + 1 \in Nat
        BY <1>2, <3>2, ContentsDiffer
      <4>2. Bytes(w) = <<PieceOf(p, T, n + 1)>>
        BY <3>2, <4>1 DEF Bytes
      <4>3. r.at = "waiting" /\ r.data = Pieces(p, T, n + 1)
        BY <1>6, <2>4, <3>1, <4>2, PiecesGrow
      <4>4. n + 1 <= Size[p][T]
        BY <1>2, <3>2, SizesAreNumbers
      <4>5. OwnersTurn(w, p, n + 1)'
        BY <1>6, <2>1, <2>2, <3>2 DEF OwnersTurn, Goes, owner
      <4>6. FetchingFrom(w, p)'
        BY <1>6, <2>1, <4>1, <4>3, <4>4, <4>5 DEF FetchingFrom
      <4>7. Fetching(w)'
        BY <1>2, <1>6, <2>1, <2>2, <3>1, <4>6 DEF Fetching, owner
      <4>8. QED
        BY <1>2, <1>6, <2>1, <2>4, <4>3, <4>7 DEF InOrder, Waiting
    <3>3. CASE n = Size[p][T] /\ property[w] = PieceOf(p, T, 0)
      <4>1. property[w].index = 0
        BY <1>2, <3>3, ContentsDiffer
      <4>2. Bytes(w) = <<>>
        BY <4>1 DEF Bytes
      <4>3. reading[w].data \in Seq(Piece)
        BY <1>1, ReadTypes
      <4>4. d = reading[w].data \o <<>>
        BY <4>2
      <4>5. r.at = "ok" /\ r.data = Pieces(p, T, Size[p][T])
        BY <1>6, <3>1, <3>3, <4>2, <4>3, <4>4, ConcatEmptySeq
      <4>6. QED
        BY <1>2, <1>6, <2>1, <2>2, <4>5, ReturnsWhole
    <3>4. QED
      BY <3>1, <3>2, <3>3 DEF ReadersTurn
  <2>5. QED
    BY <2>3, <2>4
<1>9. QED
  BY <1>5, <1>7, <1>8

LEMMA ProceedsStep ==
    ASSUME SInv, NEW v \in Window, Proceeds(v), NEW w \in Window
    PROVE  InOrder(w)'
<1>1. CASE w = v
  BY <1>1, OverlookStep, TargetUnavailableStep, BeginIncrementalStep, TakePieceStep DEF Proceeds
<1>2. CASE w # v
  <2>1. TakesContent(v) \/ UNCHANGED <<queue, property>>
    BY DEF Proceeds, Overlook, TargetUnavailable, BeginIncremental, TakePiece
  <2>2. PICK r : Becomes(v, r)
    BY DEF Proceeds, Overlook, TargetUnavailable, BeginIncremental, TakePiece, ReadFails
  <2>3. /\ \A u \in Window \ {v} : reading'[u] = reading[u] /\ events'[u] = events[u]
        /\ UNCHANGED owner
    BY <2>2 DEF Becomes, SInv, SelectionTypes
  <2>4. QED
    BY <1>2, <2>1, <2>3, ReaderElsewhere
<1>3. QED
  BY <1>1, <1>2

\* A reader stops: nothing more is promised to it.
LEMMA StopsStep ==
    ASSUME SInv, NEW v \in Window, TimesOut(v) \/ Vanish(v), NEW w \in Window
    PROVE  InOrder(w)'
<1>1. /\ SelectionTypes /\ InOrder(w) /\ reading \in [Window -> Read]
      /\ UNCHANGED <<data, transfers, watched, queue, property, events>>
  BY DEF SInv, SelectionTypes, TimesOut, Vanish, owner
<1>2. CASE w = v
  <2>1. \/ w \in Own /\ reading'[w].at = "failed"
        \/ reading'[w].at = "gone"
    BY <1>1, <1>2 DEF TimesOut, Vanish, Read
  <2>2. w \in Own => w \notin Paste
    BY SelectionAssumption
  <2>3. QED
    BY <2>1, <2>2 DEF InOrder
<1>3. CASE w # v
  <2>1. reading'[w] = reading[w]
    BY <1>1, <1>3 DEF TimesOut, Vanish
  <2>2. data \in Nat
    BY <1>1, SizesAreNumbers DEF SelectionTypes
  <2>3. Untouched(w)
    BY <1>1, <2>1, <2>2, KeepsSame DEF Untouched
  <2>4. QED
    BY <1>1, <2>3, Frame
<1>4. QED
  BY <1>2, <1>3

\* A window is asked with again only after an answer to the last request.
LEMMA AskStep ==
    ASSUME SInv, NEW v \in Window, NEW t \in Target, Ask(v, t), NEW w \in Window
    PROVE  InOrder(w)'
<1> DEFINE m == [window |-> v, target |-> t]
           r == [NoRead EXCEPT !.at = "waiting", !.target = t, !.since = data]
<1>1. /\ SelectionTypes /\ InOrder(w) /\ InOrder(v) /\ reading \in [Window -> Read]
      /\ queue' = Append(queue, m) /\ reading' = [reading EXCEPT ![v] = r]
      /\ UNCHANGED <<data, transfers, watched, property, events>>
      /\ data > 0 /\ queue \in Seq(Message)
      /\ \/ reading[v].at = "idle"
         \/ v \in Paste /\ reading[v].at \in {"ok", "failed"}
         \/ v \in Paste /\ reading[v].at = "waiting" /\ reading[v].incremental
  BY DEF SInv, SelectionTypes, Ask, owner, Message
<1>2. m \in Message /\ m \notin Deleted /\ m.window = v /\ m # [deleted |-> w]
  BY MessagesDiffer DEF Message
<1>3. /\ r.at = "waiting" /\ r.target = t /\ r.since = data
      /\ r.incremental = FALSE /\ r.data = <<>>
  BY DEF NoRead
<1>4. data \in Nat
  BY <1>1, SizesAreNumbers DEF SelectionTypes
<1>5. CASE w = v
  <2>1. NoRequest(queue, w) /\ JustNew(events[w])
    <3>1. CASE Resting(w)
      BY <3>1 DEF Resting
    <3>2. CASE Fetching(w)
      <4>1. NoRequest(queue, w)
        BY <3>2 DEF Fetching
      <4>2. events[w] = <<>> \/ events[w] = <<"new">>
        BY <3>2 DEF Fetching, FetchingFrom, OwnersTurn, ReadersTurn
      <4>3. JustNew(<<>>) /\ JustNew(<<"new">>)
        BY DEF JustNew
      <4>4. QED
        BY <4>1, <4>2, <4>3
    <3>3. QED
      BY <1>1, <1>5, <3>1, <3>2 DEF InOrder, Waiting
  <2>2. OneRequest(queue', w, t)
    BY <1>1, <1>2, <1>5, <2>1, QueueAdded
  <2>3. reading'[w] = r
    BY <1>1, <1>5
  <2> HIDE DEF r
  <2>4. Asking(w)'
    BY <1>1, <1>3, <1>4, <2>1, <2>2, <2>3 DEF Asking
  <2>5. QED
    BY <1>3, <2>3, <2>4 DEF InOrder, Waiting
<1>6. CASE w # v
  <2>1. reading'[w] = reading[w]
    BY <1>1, <1>6
  <2> HIDE DEF m
  <2>2. QueueKeeps(w)
    BY <1>1, <1>2, <1>6, KeepsAdded
  <2>3. Untouched(w)
    BY <1>1, <1>4, <2>1, <2>2 DEF Untouched
  <2>4. QED
    BY <1>1, <2>3, Frame
<1>7. QED
  BY <1>5, <1>6

\* What is published, and a transfer that is dropped, leave what is under way as it is.
LEMMA OthersStep ==
    ASSUME SInv, NEW w \in Window,
           \/ Publish
           \/ \E v \in Window : Expire(v) \/ ExpireUnderway(v)
           \/ UNCHANGED selectionVars
    PROVE  InOrder(w)'
<1>1. SelectionTypes /\ InOrder(w) /\ data \in Nat
  BY SizesAreNumbers DEF SInv, SelectionTypes
<1>2. /\ UNCHANGED <<watched, queue, property, events, reading>>
      /\ data' = data \/ data' = data + 1
  BY DEF Publish, Expire, ExpireUnderway, selectionVars, owner
<1>3. transfers' = transfers \/ \E v : transfers' = Without(v)
  BY DEF Publish, Expire, ExpireUnderway, selectionVars, owner
<1>4. w \in DOMAIN transfers' => w \in DOMAIN transfers /\ transfers'[w] = transfers[w]
  BY <1>1, <1>3, Fewer
<1>5. data' \in Nat /\ data' >= data
  BY <1>1, <1>2
<1>6. Untouched(w)
  BY <1>2, <1>4, <1>5, KeepsSame DEF Untouched
<1>7. QED
  BY <1>1, <1>6, Frame

LEMMA SInvStep == SInv /\ [SelectionNext]_selectionVars => SInv'
<1> SUFFICES ASSUME SInv, [SelectionNext]_selectionVars PROVE SInv'
  OBVIOUS
<1>1. SelectionTypes' /\ Quiet'
  BY TypesStep, QuietStep DEF SInv
<1>2. ASSUME NEW w \in Window PROVE InOrder(w)'
  <2>1. CASE Owner
    BY <2>1, AnswerStep, ContinueStep, StopStep DEF Owner
  <2>2. CASE \E v \in Window : Proceeds(v)
    BY <2>2, ProceedsStep
  <2>3. CASE \E v \in Window : TimesOut(v) \/ Vanish(v)
    BY <2>3, StopsStep
  <2>4. CASE \E v \in Window, t \in Target : Ask(v, t)
    BY <2>4, AskStep
  <2>5. CASE \/ Publish
             \/ \E v \in Window : Expire(v) \/ ExpireUnderway(v)
             \/ UNCHANGED selectionVars
    BY <2>5, OthersStep
  <2>6. QED
    BY <2>1, <2>2, <2>3, <2>4, <2>5 DEF SelectionNext
<1>3. QED
  BY <1>1, <1>2 DEF SInv

\* SInv is kept by every step of owner and readers.
THEOREM ReadsInOrder == SelectionSpec => []SInv
BY SInvInit, SInvStep, PTL DEF SelectionSpec

\* Owner, transfers and windows hold what their declarations say; never more than
\* MaxTransfers transfers are kept, each of a window the owner hears of.
THEOREM SelectionTyped == SelectionSpec => []SelectionTypes
<1>1. SInv => SelectionTypes
  BY DEF SInv
<1>2. QED
  BY <1>1, ReadsInOrder, PTL

\* What a read returns is the whole value of one publication, of one at least as
\* new as that at the time it asked.
THEOREM ValuesWhole == SelectionSpec => []WholeValue
BY SInvWhole, ReadsInOrder, PTL

=============================================================================
