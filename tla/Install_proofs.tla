--------------------------- MODULE Install_proofs ---------------------------
(***************************************************************************)
(* What is proved of an upload over a book, for any names, aliases, chains *)
(* and books.  Whatever was cut, refused or changed elsewhere, a listed    *)
(* book can be read and a record of a later build is left alone; a file    *)
(* somebody else put on the shelf stays there.  On a card nobody else      *)
(* writes, by this build and the one before it, the catalog the reader     *)
(* picks from is the shelf, an upload is one step of the library, and a    *)
(* pass finds its way to the end in three steps.                           *)
(***************************************************************************)
EXTENDS Install, FiniteSetTheorems, WellFoundedInduction, TLAPS

\* An earlier build, a computer and a later build, all of them between the
\* power cycles of this one.
AnySpec == Init /\ [][Next \/ Earlier \/ Elsewhere]_vars

-----------------------------------------------------------------------------
(***************************************************************************)
(* Where the task is, and what it has in hand there                        *)
(***************************************************************************)
Moves    == {"RetireOldHolder", "InstallStage", "RestoreOldHolder"}
Staging  == {"stage", "stream", "owe", "record"}
Sweeping == {"sweep", "discard", "remove"}
Resting  == {"off", "reader", "session", "stopped", "refused"}
Places   == Resting \cup Staging \cup Sweeping \cup
            {"reclaim", "journal", "observe", "unlink", "clear", "done", "publish"}

\* A record stands while its plan is walked and is gone when leftovers are
\* looked for; a reclaim stands only where one is carried out or waited for, or a
\* pass over another record has stopped.
Control ==
    /\ pc \in Places
    /\ pc \in {"observe", "unlink"} => Valid
    /\ pc = "clear" => Valid \/ journal = Truncated
    /\ pc \in Staging \cup Sweeping \cup {"done"} => NoInstall
    /\ reclaim # None => pc \in Resting \cup {"reclaim", "publish"}
    /\ step = "ReclaimRollback" => pc \in {"reclaim", "stopped"} /\ Valid
    /\ pc = "unlink" => step \in Moves
    /\ step # "none" => pc \in {"reclaim", "unlink", "stopped"}
    /\ caller = "delete" => pc = "reclaim" /\ step = "none"

\* The entry being reclaimed, the upload being taken, the leftover being
\* discarded.
ReclaimKey ==
    reclaim # None =>
        /\ reclaim.dir = "books" => reclaim.key \in Aliases
        /\ reclaim.dir = "rollback" => reclaim.key \in ParkedNames

Uploaded == upload.name \in LongNames /\ upload.is \in Books

UploadInHand ==
    /\ pc \in Staging => Uploaded
    /\ pc \in Staging \ {"stage"} => scratch[ScratchOf[upload.name]] \in Files
    /\ pc \in {"discard", "remove"} /\ resume = "stage" => Uploaded

LeftoverNames ==
    {<<"scratch", s>> : s \in ScratchNames} \cup {<<"parked", p>> : p \in ParkedNames}

VictimInHand ==
    pc \in {"discard", "remove"} =>
        /\ victim \in LeftoverNames
        /\ FileOf(victim) \in Files
        /\ resume \in {"sweep", "stage", "session"}

TypeInv == TypeOK /\ Control /\ ReclaimKey /\ UploadInHand /\ VictimInHand

-----------------------------------------------------------------------------
(***************************************************************************)
(* The plan, read backwards                                                *)
(***************************************************************************)
LEMMA PlanMeans ==
    /\ Plan = "RetireOldHolder" =>
         StageCounts /\ ~Installed /\ ~Foreign /\ OldStands /\ ~ParkedStands
    /\ Plan = "UnlinkOldHolder" =>
         StageCounts /\ ~Installed /\ ~Foreign /\ OldStands /\ ParkedStands
    /\ Plan = "InstallStage" => StageCounts /\ ~Installed
    /\ Plan = "UnlinkStage" => StageCounts /\ Installed
    /\ Plan = "ReclaimRollback" => ~StageCounts /\ Installed /\ ParkedStands /\ ~OldStands
    /\ Plan = "RestoreOldHolder" => ~StageCounts /\ ~Installed /\ ParkedStands /\ ~OldStands
    /\ Plan = "UnlinkRollbackCopy" => ~StageCounts /\ ParkedStands /\ OldStands
    /\ Plan = "Done" => ~ParkedStands
  <1>1. CASE StageCounts /\ ~Installed
    <2>1. Plan = PlanToInstall
      BY <1>1 DEF Plan
    <2> QED
      BY <1>1, <2>1 DEF PlanToInstall
  <1>2. CASE StageCounts /\ Installed
    BY <1>2 DEF Plan
  <1>3. CASE ~StageCounts /\ Installed
    <2>1. Plan = PlanInstalled
      BY <1>3 DEF Plan
    <2> QED
      BY <1>3, <2>1 DEF PlanInstalled
  <1>4. CASE ~StageCounts /\ ~Installed
    <2>1. Plan = PlanLost
      BY <1>4 DEF Plan
    <2> QED
      BY <1>4, <2>1 DEF PlanLost
  <1> QED
    BY <1>1, <1>2, <1>3, <1>4

-----------------------------------------------------------------------------
(***************************************************************************)
(* Types                                                                   *)
(***************************************************************************)
LEMMA TypeInit == Init => TypeInv
  <1> SUFFICES ASSUME Init PROVE TypeInv
    OBVIOUS
  <1>1. /\ scratch = [s \in ScratchNames |-> None]
        /\ parked = [p \in ParkedNames |-> None]
        /\ journal = Absent /\ reclaim = None /\ owed = FALSE
        /\ pc = "off" /\ caller = "none" /\ steps = 0 /\ step = "none" /\ had = FALSE
        /\ upload = None
    BY DEF Init, Asleep
  <1>2. /\ books \in [Aliases -> Entries \cup {None}]
        /\ holds \in [Chains -> Held \cup {Free}]
    <2> PICK titles \in SUBSET LongNames :
             \E legacy \in SUBSET titles, at \in [titles -> Aliases],
                where \in [titles -> Chains], what \in [titles -> Books] :
               /\ Stocked(titles, legacy, at, where, what)
               /\ holds = [chain \in Chains |->
                    IF \E n \in titles : where[n] = chain
                    THEN what[CHOOSE n \in titles : where[n] = chain] ELSE Free]
      BY DEF Init, AnyShelf
    <2> PICK legacy \in SUBSET titles, at \in [titles -> Aliases],
             where \in [titles -> Chains], what \in [titles -> Books] :
               /\ Stocked(titles, legacy, at, where, what)
               /\ holds = [chain \in Chains |->
                    IF \E n \in titles : where[n] = chain
                    THEN what[CHOOSE n \in titles : where[n] = chain] ELSE Free]
      OBVIOUS
    <2>1. \A chain \in Chains : holds[chain] \in Held \cup {Free}
      BY DEF Held, Contents
    <2>2. \A n \in titles : Book(n, n \in legacy, File(where[n], what[n])) \in Entries
      BY DEF Book, File, Entries, Held, Contents
    <2>3. \A a \in Aliases : books[a] \in Entries \cup {None}
      BY <2>2 DEF Stocked
    <2> QED
      BY <2>1, <2>3 DEF Stocked
  <1>3. 0 \in 0 .. StepLimit
    BY CountAssumption
  <1> QED
    BY <1>1, <1>2, <1>3
    DEF TypeInv, TypeOK, Control, Places, Resting, ReclaimKey, UploadInHand,
        VictimInHand, Staging, Sweeping, Moves

\* Control' says that a record stands where the plan is looked at.
LEMMA QuietTypes ==
    ASSUME TypeInv, UNCHANGED <<files, journal, reclaim>>,
           owed' \in BOOLEAN, had' \in BOOLEAN, steps' \in {0, steps},
           upload' = None \/ upload' = upload, Control'
    PROVE  TypeOK' /\ ReclaimKey'
  <1>1. steps' \in 0 .. StepLimit
    BY CountAssumption DEF TypeInv, TypeOK
  <1>2. /\ books' = books /\ scratch' = scratch /\ parked' = parked /\ holds' = holds
        /\ journal' = journal /\ reclaim' = reclaim
    BY DEF files
  <1>3. TypeOK'
    BY <1>1, <1>2 DEF TypeInv, TypeOK, Control
  <1>4. ReclaimKey'
    BY <1>2 DEF TypeInv, ReclaimKey
  <1> QED
    BY <1>3, <1>4

LEMMA HandsFree ==
    ASSUME pc' \notin Staging \cup {"discard", "remove"}
    PROVE  UploadInHand' /\ VictimInHand'
  BY DEF UploadInHand, VictimInHand, Staging

\* Where each of the steps that write no file and no record goes.
LEMMA QuietControl ==
    ASSUME TypeInv,
           \/ ReclaimSettled \/ ReadIntent \/ StopBlocked \/ PlanDone \/ SweepNext \/ SweepEnd
           \/ PassDone \/ PassStopped \/ PublishCatalog
           \/ BootFromCatalog \/ Scan \/ StartSession \/ Retry
           \/ BeginReplace \/ EarlierOwesNothing \/ Abandon
           \/ StopsPass \/ LeavesLeftover \/ FailsScan
    PROVE  Control'
  <1> USE DEF TypeInv, Control, Places, Resting, Staging, Sweeping, NoInstall, Valid,
              card, files, memory
  <1>1. CASE ReclaimSettled
    <2>1. CASE step = "ReclaimRollback"
      BY <1>1, <2>1 DEF ReclaimSettled
    <2>2. CASE step # "ReclaimRollback" /\ caller = "delete"
      BY <1>1, <2>2 DEF ReclaimSettled
    <2>3. CASE step # "ReclaimRollback" /\ caller # "delete"
      BY <1>1, <2>3 DEF ReclaimSettled
    <2> QED
      BY <2>1, <2>2, <2>3
  <1>2. CASE ReadIntent
    <2> DEFINE next == CASE NoInstall /\ caller = "command"           -> "done"
                         [] Valid                                     -> "observe"
                         [] journal = Truncated /\ caller # "command" -> "clear"
                         [] journal = Absent /\ caller # "command"    -> "sweep"
                         [] OTHER                                     -> "stopped"
    <2>1. pc' = next /\ UNCHANGED <<journal, reclaim, caller, step>> /\ pc = "journal"
      BY <1>2 DEF ReadIntent
    <2>2. Absent.kind = "absent" /\ Truncated.kind = "truncated"
      BY DEF Absent, Truncated
    <2>3. /\ next \in {"done", "observe", "clear", "sweep", "stopped"}
          /\ next = "observe" => Valid
          /\ next = "clear" => journal = Truncated
          /\ next \in {"done", "sweep"} => NoInstall
      BY <2>2
    <2> HIDE DEF next
    <2> QED
      BY <2>1, <2>3
  <1>3. CASE StopBlocked
    BY <1>3 DEF StopBlocked
  <1>4. CASE PlanDone
    BY <1>4 DEF PlanDone, Planned
  <1>5. CASE SweepNext
    BY <1>5 DEF SweepNext
  <1>6. CASE SweepEnd
    BY <1>6 DEF SweepEnd
  <1>7. CASE PassDone
    BY <1>7 DEF PassDone, Returning
  <1>8. CASE PassStopped
    BY <1>8 DEF PassStopped, Returning
  <1>9. CASE PublishCatalog
    BY <1>9 DEF PublishCatalog
  <1>10. CASE BootFromCatalog
    BY <1>10 DEF BootFromCatalog, BeginPass
  <1>11. CASE Scan
    BY <1>11 DEF Scan, BeginPass
  <1>12. CASE StartSession
    BY <1>12 DEF StartSession, BeginPass
  <1>13. CASE Retry
    BY <1>13 DEF Retry, BeginPass
  <1>14. CASE BeginReplace
    BY <1>14 DEF BeginReplace
  <1>15. CASE EarlierOwesNothing
    BY <1>15 DEF EarlierOwesNothing
  <1>16. CASE Abandon
    BY <1>16 DEF Abandon
  <1>17. CASE StopsPass
    BY <1>17 DEF StopsPass
  <1>18. CASE LeavesLeftover
    BY <1>18 DEF LeavesLeftover
  <1>19. CASE FailsScan
    BY <1>19 DEF FailsScan
  <1> QED
    BY <1>1, <1>2, <1>3, <1>4, <1>5, <1>6, <1>7, <1>8, <1>9, <1>10, <1>11, <1>12, <1>13, <1>14, <1>15, <1>16, <1>17, <1>18, <1>19

LEMMA TypeQuiet ==
    ASSUME TypeInv,
           \/ ReclaimSettled \/ ReadIntent \/ StopBlocked \/ PlanDone \/ SweepNext \/ SweepEnd
           \/ PassDone \/ PassStopped \/ PublishCatalog
           \/ BootFromCatalog \/ Scan \/ StartSession \/ Retry
           \/ BeginReplace \/ EarlierOwesNothing \/ Abandon
           \/ StopsPass \/ LeavesLeftover \/ FailsScan
    PROVE  TypeInv'
  <1>1. Control'
    BY QuietControl
  <1>2. /\ UNCHANGED <<files, journal, reclaim>>
        /\ owed' \in BOOLEAN /\ had' \in BOOLEAN /\ steps' \in {0, steps}
        /\ upload' = None \/ upload' = upload
    <2> USE DEF TypeInv, TypeOK, card, files, memory
    <2>1. CASE ReclaimSettled
      BY <2>1 DEF ReclaimSettled
    <2>2. CASE ReadIntent
      BY <2>2 DEF ReadIntent
    <2>3. CASE StopBlocked
      BY <2>3 DEF StopBlocked
    <2>4. CASE PlanDone
      BY <2>4 DEF PlanDone
    <2>5. CASE SweepNext
      BY <2>5 DEF SweepNext
    <2>6. CASE SweepEnd
      BY <2>6 DEF SweepEnd
    <2>7. CASE PassDone
      BY <2>7 DEF PassDone, Returning
    <2>8. CASE PassStopped
      BY <2>8 DEF PassStopped, Returning
    <2>9. CASE PublishCatalog
      BY <2>9 DEF PublishCatalog
    <2>10. CASE BootFromCatalog
      BY <2>10 DEF BootFromCatalog, BeginPass
    <2>11. CASE Scan
      BY <2>11 DEF Scan, BeginPass
    <2>12. CASE StartSession
      BY <2>12 DEF StartSession, BeginPass
    <2>13. CASE Retry
      BY <2>13 DEF Retry, BeginPass
    <2>14. CASE BeginReplace
      BY <2>14 DEF BeginReplace
    <2>15. CASE EarlierOwesNothing
      BY <2>15 DEF EarlierOwesNothing
    <2>16. CASE Abandon
      BY <2>16 DEF Abandon
    <2>17. CASE StopsPass
      BY <2>17 DEF StopsPass
    <2>18. CASE LeavesLeftover
      BY <2>18 DEF LeavesLeftover
    <2>19. CASE FailsScan
      BY <2>19 DEF FailsScan
    <2> QED
      BY <2>1, <2>2, <2>3, <2>4, <2>5, <2>6, <2>7, <2>8, <2>9, <2>10, <2>11, <2>12, <2>13, <2>14, <2>15, <2>16, <2>17, <2>18, <2>19
  <1>3. TypeOK' /\ ReclaimKey'
    BY <1>1, <1>2, QuietTypes
  <1>4. /\ scratch' = scratch /\ parked' = parked
    BY <1>2 DEF files
  <1>5. CASE SweepNext
    <2>1. PICK v \in Leftovers : victim' = v /\ pc' = "discard" /\ resume' = "sweep"
      BY <1>5 DEF SweepNext
    <2>2. v \in LeftoverNames /\ FileOf(v) \in Files
      BY DEF Leftovers, LeftoverNames, FileOf, TypeInv, TypeOK
    <2> QED
      BY <1>1, <1>3, <1>4, <2>1, <2>2
      DEF TypeInv, UploadInHand, VictimInHand, FileOf, Staging
  <1>6. CASE BeginReplace \/ EarlierOwesNothing
    BY <1>1, <1>3, <1>4, <1>6
    DEF TypeInv, UploadInHand, VictimInHand, Uploaded, Staging, BeginReplace,
        EarlierOwesNothing, memory
  <1>7. CASE Abandon
    <2>1. /\ pc' = "remove" /\ resume' = "session" /\ victim' = <<"scratch", ScratchOf[upload.name]>>
          /\ Uploaded /\ scratch[ScratchOf[upload.name]] \in Files
      BY <1>7 DEF Abandon, TypeInv, UploadInHand, Staging
    <2>2. ScratchOf[upload.name] \in ScratchNames
      BY <2>1, ScratchAssumption DEF Uploaded
    <2> QED
      BY <1>1, <1>3, <1>4, <2>1, <2>2
      DEF TypeInv, UploadInHand, VictimInHand, FileOf, Staging, LeftoverNames
  <1>8. CASE
           \/ ReclaimSettled \/ ReadIntent \/ StopBlocked \/ PlanDone \/ SweepEnd
           \/ PassDone \/ PassStopped \/ PublishCatalog
           \/ BootFromCatalog \/ Scan \/ StartSession \/ Retry
           \/ StopsPass \/ LeavesLeftover \/ FailsScan
    <2>1. pc' \notin Staging \cup {"discard", "remove"}
      <3>1. CASE ReclaimSettled
        BY <3>1 DEF ReclaimSettled, Staging, BeginPass
      <3>2. CASE ReadIntent
        BY <3>2 DEF ReadIntent, Staging, BeginPass
      <3>3. CASE StopBlocked
        BY <3>3 DEF StopBlocked, Staging, BeginPass
      <3>4. CASE PlanDone
        BY <3>4 DEF PlanDone, Staging, BeginPass
      <3>5. CASE SweepEnd
        BY <3>5 DEF SweepEnd, Staging, BeginPass
      <3>6. CASE PassDone
        BY <3>6 DEF PassDone, Staging, BeginPass
      <3>7. CASE PassStopped
        BY <3>7 DEF PassStopped, Staging, BeginPass
      <3>8. CASE PublishCatalog
        BY <3>8 DEF PublishCatalog, Staging, BeginPass
      <3>9. CASE BootFromCatalog
        BY <3>9 DEF BootFromCatalog, Staging, BeginPass
      <3>10. CASE Scan
        BY <3>10 DEF Scan, Staging, BeginPass
      <3>11. CASE StartSession
        BY <3>11 DEF StartSession, Staging, BeginPass
      <3>12. CASE Retry
        BY <3>12 DEF Retry, Staging, BeginPass
      <3>13. CASE StopsPass
        BY <3>13 DEF StopsPass, Staging, BeginPass
      <3>14. CASE LeavesLeftover
        BY <3>14 DEF LeavesLeftover, Staging, BeginPass
      <3>15. CASE FailsScan
        BY <3>15 DEF FailsScan, Staging, BeginPass
      <3> QED
        BY <1>8, <3>1, <3>2, <3>3, <3>4, <3>5, <3>6, <3>7, <3>8, <3>9, <3>10, <3>11, <3>12, <3>13, <3>14, <3>15
    <2> QED
      BY <1>1, <1>3, <2>1, HandsFree DEF TypeInv
  <1> QED
    BY <1>5, <1>6, <1>7, <1>8

-----------------------------------------------------------------------------
\* The parked name an upload is given: the first that nothing holds.
LEMMA FirstFreeProbe ==
    ASSUME NEW s, FreeProbes(s) # {}
    PROVE  \E i \in FreeProbes(s) : \A j \in FreeProbes(s) : i <= j
  <1>1. FreeProbes(s) \subseteq Nat
    BY CountAssumption DEF FreeProbes
  <1>2. PICK i \in FreeProbes(s) : \A j \in FreeProbes(s) : <<j, i>> \notin OpToRel(<, Nat)
    BY <1>1, NatLessThanWellFounded, WFMin
  <1>3. \A j \in FreeProbes(s) : ~(j < i)
    BY <1>1, <1>2 DEF OpToRel
  <1>4. \A j \in FreeProbes(s) : i <= j
    BY <1>1, <1>3
  <1> QED
    BY <1>4

LEMMA IntentMeans ==
    ASSUME TypeInv, pc = "record", ParkedNameFree
    PROVE  /\ Intent \in Records
           /\ Intent.kind = "valid"
           /\ Intent.name = upload.name
           /\ Intent.stage = Located(ScratchOf[upload.name], scratch[ScratchOf[upload.name]])
           /\ parked[Intent.rollback] = None
  <1> DEFINE s == ScratchOf[upload.name]
             i == CHOOSE i \in FreeProbes(s) : \A j \in FreeProbes(s) : i <= j
             n == upload.name
             found == IF Holders(n) # {} THEN Holders(n) ELSE Legacies(n)
  <1>1. n \in LongNames /\ upload.is \in Books /\ scratch[s] \in Files /\ s \in ScratchNames
    BY ScratchAssumption DEF TypeInv, UploadInHand, Uploaded, Staging
  <1>2. i \in FreeProbes(s)
    <2>1. FreeProbes(s) # {}
      BY DEF ParkedNameFree
    <2> QED
      BY <2>1, FirstFreeProbe
  <1>3. i \in 0 .. Probes - 1 /\ parked[<<s, i>>] = None
    BY <1>2 DEF FreeProbes
  <1>4. ASSUME NEW file, file.chain \in Chains, file.is \in Held, NEW names, NEW a \in names
        PROVE  Located(a, file) \in Locations(names)
    <2>1. Size(file.is) \in Nat
      BY <1>4, SizeAssumption DEF Size, Held, Contents
    <2> QED
      BY <1>4, <2>1 DEF Located, Locations
  <1>5. Located(s, scratch[s]) \in Locations(ScratchNames)
    BY <1>1, <1>4 DEF Files
  <1>6. Predecessor(n) \in Locations(Aliases) \cup {None}
    <2>1. CASE found = {}
      BY <2>1 DEF Predecessor
    <2>2. CASE found # {}
      <3> DEFINE a == CHOOSE a \in found : TRUE
      <3>1. a \in Aliases /\ books[a] # None
        BY <2>2 DEF Holders, Legacies
      <3>2. books[a] \in Entries
        BY <3>1 DEF TypeInv, TypeOK
      <3>3. Body(books[a]).chain \in Chains /\ Body(books[a]).is \in Held
        BY <3>2 DEF Body, File, Entries
      <3>4. Predecessor(n) = Located(a, Body(books[a]))
        BY <2>2 DEF Predecessor
      <3> HIDE DEF a
      <3> QED
        BY <1>4, <3>1, <3>3, <3>4
    <2> QED
      BY <2>1, <2>2
  <1>7. Intent = Record(n, Located(s, scratch[s]), Predecessor(n), <<s, i>>)
    BY DEF Intent
  <1> HIDE DEF s, i, n
  <1>8. <<s, i>> \in ParkedNames
    BY <1>1, <1>3 DEF ParkedNames
  <1>9. /\ Intent \in Records /\ Intent.kind = "valid" /\ Intent.name = n
        /\ Intent.stage = Located(s, scratch[s]) /\ Intent.rollback = <<s, i>>
    BY <1>1, <1>5, <1>6, <1>7, <1>8 DEF Record, Records
  <1> QED
    BY <1>3, <1>9 DEF s, n

LEMMA RecordOrNone ==
    ASSUME TypeInv
    PROVE  /\ Valid => journal \in Records
           /\ Absent.kind = "absent" /\ Truncated.kind = "truncated"
           /\ Unrecognized.kind = "unrecognized"
           /\ NoInstall => ~Valid
  <1>1. /\ Absent.kind = "absent" /\ Truncated.kind = "truncated"
        /\ Unrecognized.kind = "unrecognized"
    BY DEF Absent, Truncated, Unrecognized
  <1> QED
    BY <1>1 DEF TypeInv, TypeOK, Valid, NoInstall

LEMMA TypeJournal ==
    ASSUME TypeInv,
           ClearIntent \/ WriteIntent \/ FailsCommand \/ Crash
             \/ ComputerLosesRecord \/ LaterRecord
    PROVE  TypeInv'
  <1>1. /\ books' = books /\ scratch' = scratch /\ parked' = parked /\ holds' = holds
        /\ reclaim' = reclaim /\ owed' \in BOOLEAN /\ had' \in BOOLEAN
        /\ steps' \in {0, steps} /\ upload' \in {upload, None}
    <2> USE DEF TypeInv, TypeOK, files, memory
    <2>1. CASE ClearIntent
      BY <2>1 DEF ClearIntent
    <2>2. CASE WriteIntent
      BY <2>2 DEF WriteIntent
    <2>3. CASE FailsCommand
      BY <2>3 DEF FailsCommand
    <2>4. CASE Crash
      BY <2>4 DEF Crash
    <2>5. CASE ComputerLosesRecord
      BY <2>5 DEF ComputerLosesRecord
    <2>6. CASE LaterRecord
      BY <2>6 DEF LaterRecord
    <2> QED
      BY <2>1, <2>2, <2>3, <2>4, <2>5, <2>6
  <1>2. /\ pc' \notin {"observe", "discard", "remove", "unlink", "done"} \cup Staging
        /\ journal' \in {Absent, Truncated, Unrecognized} \cup Records
    <2>1. journal \in {Absent, Truncated, Unrecognized} \cup Records
      BY DEF TypeInv, TypeOK
    <2>2. pc = "record" /\ ParkedNameFree => Intent \in Records
      BY IntentMeans
    <2>3. CASE ClearIntent
      BY <2>1, <2>3 DEF ClearIntent, Staging
    <2>4. CASE WriteIntent
      BY <2>2, <2>4 DEF WriteIntent, Staging
    <2>5. CASE FailsCommand
      BY <2>1, <2>2, <2>5 DEF FailsCommand, Staging
    <2>6. CASE Crash
      BY <2>1, <2>6 DEF Crash, Staging
    <2>7. CASE ComputerLosesRecord
      BY <2>1, <2>7 DEF ComputerLosesRecord, Staging
    <2>8. CASE LaterRecord
      BY <2>1, <2>8 DEF LaterRecord, Staging
    <2> QED
      BY <2>3, <2>4, <2>5, <2>6, <2>7, <2>8
  <1>3. Control'
    <2> USE DEF TypeInv, Control, Places, Resting, Staging, Sweeping, NoInstall, Valid, files, memory
    <2>1. CASE ClearIntent
      BY <2>1, RecordOrNone DEF ClearIntent
    <2>2. CASE WriteIntent
      BY <2>2 DEF WriteIntent
    <2>3. CASE FailsCommand
      BY <2>3 DEF FailsCommand
    <2>4. CASE Crash
      BY <2>4 DEF Crash
    <2>5. CASE ComputerLosesRecord
      BY <2>5 DEF ComputerLosesRecord
    <2>6. CASE LaterRecord
      BY <2>6 DEF LaterRecord
    <2> QED
      BY <2>1, <2>2, <2>3, <2>4, <2>5, <2>6
  <1>4. TypeOK' /\ ReclaimKey'
    <2>1. steps' \in 0 .. StepLimit
      BY <1>1, CountAssumption DEF TypeInv, TypeOK
    <2> QED
      BY <1>1, <1>2, <2>1 DEF TypeInv, TypeOK, ReclaimKey
  <1> QED
    BY <1>2, <1>3, <1>4, HandsFree DEF TypeInv

-----------------------------------------------------------------------------
LEMMA RecordMeans ==
    ASSUME TypeInv, Valid
    PROVE  /\ journal.name \in LongNames
           /\ journal.stage \in Locations(ScratchNames)
           /\ journal.stage.alias \in ScratchNames
           /\ journal.rollback \in ParkedNames
           /\ journal.old \in Locations(Aliases) \cup {None}
           /\ journal.old # None => journal.old.alias \in Aliases
           /\ StageStands => scratch[journal.stage.alias] \in Files
           /\ parked[journal.rollback] \in Files \cup {None}
           /\ ParkedStands => parked[journal.rollback] \in Files /\ journal.old # None
           /\ Standing => books[journal.old.alias] \in Entries /\ journal.old # None
  <1>1. journal \in Records
    BY RecordOrNone
  <1>2. /\ journal.name \in LongNames
        /\ journal.stage \in Locations(ScratchNames)
        /\ journal.rollback \in ParkedNames
        /\ journal.old \in Locations(Aliases) \cup {None}
    BY <1>1 DEF Records
  <1>3. /\ journal.stage.alias \in ScratchNames
        /\ journal.old # None => journal.old.alias \in Aliases
    BY <1>2 DEF Locations
  <1>4. /\ scratch[journal.stage.alias] \in Files \cup {None}
        /\ parked[journal.rollback] \in Files \cup {None}
        /\ journal.old # None => books[journal.old.alias] \in Entries \cup {None}
    BY <1>2, <1>3 DEF TypeInv, TypeOK
  <1>5. StageStands => scratch[journal.stage.alias] # None
    BY DEF StageStands
  <1>6. ParkedStands => parked[journal.rollback] # None /\ journal.old # None
    BY DEF ParkedStands, ParkedIsOld
  <1>7. Standing => books[journal.old.alias] # None /\ journal.old # None
    BY DEF Standing
  <1> QED
    BY <1>2, <1>3, <1>4, <1>5, <1>6, <1>7

\* A book made of a file, and the file a book is.
LEMMA BookAndBody ==
    /\ \A n \in LongNames, l \in BOOLEAN, f \in Files : Book(n, l, f) \in Entries
    /\ \A b \in Entries : Body(b) \in Files /\ Body(b).chain = b.chain /\ Body(b).is = b.is
    /\ \A n, l, f : Body(Book(n, l, f)) = File(f.chain, f.is)
    /\ \A f \in Files : File(f.chain, f.is) = f
  BY DEF Book, Body, File, Files, Entries

LEMMA TypeReclaim ==
    ASSUME TypeInv, ReclaimUnlink \/ ReclaimFree \/ ReclaimRollback \/ \E a \in Aliases : DeleteBook(a)
    PROVE  TypeInv'
  <1>1. /\ scratch' = scratch /\ journal' = journal /\ owed' = owed /\ had' = had
        /\ upload' = upload /\ resume' = resume /\ victim' = victim
    BY DEF ReclaimUnlink, ReclaimFree, ReclaimRollback, DeleteBook, Apply, files, memory
  <1>2. /\ pc' = "reclaim"
    BY DEF ReclaimUnlink, ReclaimFree, ReclaimRollback, DeleteBook, Apply
  <1>3. /\ books' \in [Aliases -> Entries \cup {None}]
        /\ parked' \in [ParkedNames -> Files \cup {None}]
    BY DEF TypeInv, TypeOK, ReclaimUnlink, ReclaimFree, ReclaimRollback, DeleteBook, files
  <1>4. holds' \in [Chains -> Held \cup {Free}]
    BY DEF TypeInv, TypeOK, ReclaimUnlink, ReclaimFree, ReclaimRollback, DeleteBook, files
  <1>5. steps' \in 0 .. StepLimit
    <2>1. CASE ReclaimRollback
      <3>1. steps \in 0 .. StepLimit /\ steps < StepLimit /\ steps' = steps + 1
        BY <2>1 DEF TypeInv, TypeOK, ReclaimRollback, Planned, Apply
      <3> QED
        BY <3>1, CountAssumption
    <2>2. CASE ~ReclaimRollback
      BY <2>2 DEF TypeInv, TypeOK, ReclaimUnlink, ReclaimFree, DeleteBook, memory
    <2> QED
      BY <2>1, <2>2
  <1>6. /\ reclaim' = None \/ (reclaim'.dir \in {"books", "rollback"} /\ reclaim'.chain \in Chains)
        /\ ReclaimKey'
    <2>1. CASE ReclaimUnlink \/ ReclaimFree
      BY <2>1 DEF ReclaimUnlink, ReclaimFree, TypeInv, TypeOK, ReclaimKey
    <2>2. CASE ReclaimRollback
      <3>1. Valid /\ ParkedStands
        BY <2>2, PlanMeans DEF ReclaimRollback, Planned, TypeInv, Control
      <3>2. parked[journal.rollback] \in Files /\ journal.rollback \in ParkedNames
        BY <3>1, RecordMeans
      <3> QED
        BY <2>2, <3>2 DEF ReclaimRollback, ReclaimKey, Files
    <2>3. CASE \E a \in Aliases : DeleteBook(a)
      <3>1. PICK a \in Aliases : DeleteBook(a)
        BY <2>3
      <3>2. books[a] \in Entries
        BY <3>1 DEF TypeInv, TypeOK, DeleteBook
      <3> QED
        BY <3>1, <3>2 DEF DeleteBook, ReclaimKey, Entries
    <2> QED
      BY <2>1, <2>2, <2>3
  <1>7. Control'
    <2> USE DEF TypeInv, Control, Places, Resting, Staging, Sweeping, NoInstall, Valid, Moves, memory
    <2>1. CASE ReclaimUnlink \/ ReclaimFree
      BY <1>1, <1>2, <2>1 DEF ReclaimUnlink, ReclaimFree
    <2>2. CASE ReclaimRollback
      BY <1>1, <1>2, <2>2 DEF ReclaimRollback, Planned, Apply
    <2>3. CASE \E a \in Aliases : DeleteBook(a)
      BY <1>1, <1>2, <2>3 DEF DeleteBook
    <2> QED
      BY <2>1, <2>2, <2>3
  <1>8. TypeOK'
    BY <1>1, <1>2, <1>3, <1>4, <1>5, <1>6 DEF TypeInv, TypeOK
  <1>9. pc' \notin Staging \cup {"discard", "remove"}
    BY <1>2 DEF Staging
  <1> QED
    BY <1>6, <1>7, <1>8, <1>9, HandsFree DEF TypeInv

\* A step of the plan, and the second write of a move.
LEMMA TypeMoves ==
    ASSUME TypeInv,
           \/ RetireOldHolder \/ EarlierRetire \/ UnlinkOldHolder \/ InstallStage \/ UnlinkStage
           \/ RestoreOldHolder \/ UnlinkRollbackCopy \/ UnlinkSource
    PROVE  TypeInv'
  <1> DEFINE Act ==
           \/ RetireOldHolder \/ EarlierRetire \/ UnlinkOldHolder \/ InstallStage \/ UnlinkStage
           \/ RestoreOldHolder \/ UnlinkRollbackCopy
  <1>1. Valid
    BY DEF TypeInv, Control, RetireOldHolder, EarlierRetire, UnlinkOldHolder, InstallStage,
           UnlinkStage, RestoreOldHolder, UnlinkRollbackCopy, UnlinkSource, Planned
  <1>2. /\ holds' = holds /\ journal' = journal /\ reclaim' = reclaim /\ owed' = owed
        /\ had' = had /\ upload' = upload /\ caller' = caller
        /\ pc' \in {"observe", "unlink"} /\ pc \in {"observe", "unlink"}
        /\ pc' = "unlink" => step' \in Moves
        /\ pc' = "observe" => step' = "none"
    <2>1. CASE Act
      BY <2>1 DEF RetireOldHolder, EarlierRetire, UnlinkOldHolder, InstallStage, UnlinkStage,
                  RestoreOldHolder, UnlinkRollbackCopy, Planned, Apply, Moves
    <2>2. CASE UnlinkSource
      BY <2>2 DEF UnlinkSource
    <2> QED
      BY <2>1, <2>2
  <1>3. steps' \in 0 .. StepLimit
    <2>1. CASE Act
      <3>1. steps \in 0 .. StepLimit /\ steps' = steps + 1
        BY <2>1 DEF TypeInv, TypeOK, RetireOldHolder, EarlierRetire, UnlinkOldHolder,
                    InstallStage, UnlinkStage, RestoreOldHolder, UnlinkRollbackCopy, Apply
      <3>2. CASE EarlierRetire
        BY <3>1, <3>2, CountAssumption DEF EarlierRetire
      <3>3. CASE ~EarlierRetire
        <4>1. steps < StepLimit
          BY <2>1, <3>3
          DEF RetireOldHolder, UnlinkOldHolder, InstallStage, UnlinkStage, RestoreOldHolder,
              UnlinkRollbackCopy, Planned
        <4> QED
          BY <3>1, <4>1, CountAssumption
      <3> QED
        BY <3>2, <3>3
    <2>2. CASE UnlinkSource
      BY <2>2 DEF UnlinkSource, TypeInv, TypeOK
    <2> QED
      BY <2>1, <2>2
  <1>4. /\ books' \in [Aliases -> Entries \cup {None}]
        /\ scratch' \in [ScratchNames -> Files \cup {None}]
        /\ parked' \in [ParkedNames -> Files \cup {None}]
    <2>0. /\ books \in [Aliases -> Entries \cup {None}]
          /\ scratch \in [ScratchNames -> Files \cup {None}]
          /\ parked \in [ParkedNames -> Files \cup {None}]
      BY DEF TypeInv, TypeOK
    <2>1. CASE RetireOldHolder \/ EarlierRetire
      <3>1. Standing
        <4>1. CASE RetireOldHolder
          BY <4>1, PlanMeans DEF RetireOldHolder, Planned, OldStands, Restored
        <4>2. CASE EarlierRetire
          BY <4>2 DEF EarlierRetire
        <4> QED
          BY <2>1, <4>1, <4>2
      <3>2. Body(books[journal.old.alias]) \in Files
        BY <1>1, <3>1, RecordMeans, BookAndBody
      <3> QED
        BY <2>0, <2>1, <3>2 DEF RetireOldHolder, EarlierRetire
    <2>2. CASE UnlinkOldHolder
      BY <2>0, <2>2 DEF UnlinkOldHolder
    <2>3. CASE InstallStage
      <3>1. scratch[journal.stage.alias] \in Files /\ journal.name \in LongNames
        BY <1>1, <2>3, PlanMeans, RecordMeans DEF InstallStage, Planned, StageCounts
      <3>2. Book(journal.name, FALSE, scratch[journal.stage.alias]) \in Entries
        BY <3>1, BookAndBody
      <3> QED
        BY <2>0, <2>3, <3>2 DEF InstallStage
    <2>4. CASE UnlinkStage
      BY <2>0, <2>4 DEF UnlinkStage
    <2>5. CASE RestoreOldHolder
      <3>1. parked[journal.rollback] \in Files /\ journal.name \in LongNames
        BY <1>1, <2>5, PlanMeans, RecordMeans DEF RestoreOldHolder, Planned
      <3>2. \A l \in BOOLEAN : Book(journal.name, l, parked[journal.rollback]) \in Entries
        BY <3>1, BookAndBody
      <3> QED
        BY <2>0, <2>5, <3>2 DEF RestoreOldHolder
    <2>6. CASE UnlinkRollbackCopy
      BY <2>0, <2>6 DEF UnlinkRollbackCopy
    <2>7. CASE UnlinkSource
      <3>1. step \in Moves
        BY <2>7 DEF UnlinkSource, TypeInv, Control
      <3> QED
        BY <2>0, <2>7, <3>1 DEF UnlinkSource, Moves
    <2> QED
      BY <2>1, <2>2, <2>3, <2>4, <2>5, <2>6, <2>7
  <1>5. Control' /\ ReclaimKey'
    BY <1>1, <1>2
    DEF TypeInv, Control, ReclaimKey, Places, Resting, Staging, Sweeping, NoInstall, Valid, Moves
  <1>6. TypeOK'
    BY <1>1, <1>2, <1>3, <1>4 DEF TypeInv, TypeOK, Valid
  <1>7. pc' \notin Staging \cup {"discard", "remove"}
    BY <1>2 DEF Staging
  <1> QED
    BY <1>5, <1>6, <1>7, HandsFree DEF TypeInv

\* Which file a leftover's name is, and what setting it does.
LEMMA SetFileTypes ==
    ASSUME TypeInv, NEW v \in LeftoverNames, NEW file \in Files \cup {None}, SetFile(v, file)
    PROVE  /\ scratch' \in [ScratchNames -> Files \cup {None}]
           /\ parked' \in [ParkedNames -> Files \cup {None}]
           /\ (IF v[1] = "scratch" THEN scratch'[v[2]] ELSE parked'[v[2]]) = file
  <1>1. /\ scratch \in [ScratchNames -> Files \cup {None}]
        /\ parked \in [ParkedNames -> Files \cup {None}]
    BY DEF TypeInv, TypeOK
  <1>2. CASE \E s \in ScratchNames : v = <<"scratch", s>>
    BY <1>1, <1>2 DEF SetFile
  <1>3. CASE \E p \in ParkedNames : v = <<"parked", p>>
    BY <1>1, <1>3 DEF SetFile
  <1> QED
    BY <1>2, <1>3 DEF LeftoverNames

LEMMA TypeDiscard ==
    ASSUME TypeInv, DiscardShared \/ DiscardTruncate \/ RemoveTruncated
    PROVE  TypeInv'
  <1>1. /\ books' = books /\ journal' = journal /\ reclaim' = reclaim /\ owed' = owed
        /\ had' = had /\ upload' = upload /\ caller' = caller /\ steps' = steps /\ step' = step
    BY DEF DiscardShared, DiscardTruncate, RemoveTruncated, memory
  <1>2. /\ pc \in {"discard", "remove"} /\ victim \in LeftoverNames /\ FileOf(victim) \in Files
        /\ resume \in {"sweep", "stage", "session"}
        /\ resume = "stage" => Uploaded
    BY DEF DiscardShared, DiscardTruncate, RemoveTruncated, TypeInv, VictimInHand, UploadInHand
  <1>3. /\ Junk \in Held /\ FileOf(victim).chain \in Chains
        /\ File(FileOf(victim).chain, Junk) \in Files
    BY <1>2 DEF Held, File, Files
  <1>4. /\ scratch' \in [ScratchNames -> Files \cup {None}]
        /\ parked' \in [ParkedNames -> Files \cup {None}]
        /\ DiscardTruncate =>
             (IF victim[1] = "scratch" THEN scratch'[victim[2]] ELSE parked'[victim[2]])
               = File(FileOf(victim).chain, Junk)
    <2>1. \/ SetFile(victim, None)
          \/ DiscardTruncate /\ SetFile(victim, File(FileOf(victim).chain, Junk))
      BY DEF DiscardShared, DiscardTruncate, RemoveTruncated
    <2>2. CASE DiscardTruncate
      <3> DEFINE v == victim
                 f == File(FileOf(victim).chain, Junk)
      <3>1. SetFile(v, f) /\ v \in LeftoverNames /\ f \in Files \cup {None}
        BY <1>2, <1>3, <2>2 DEF DiscardTruncate
      <3>2. /\ scratch' \in [ScratchNames -> Files \cup {None}]
            /\ parked' \in [ParkedNames -> Files \cup {None}]
            /\ (IF v[1] = "scratch" THEN scratch'[v[2]] ELSE parked'[v[2]]) = f
        <4> HIDE DEF v, f
        <4> QED
          BY <3>1, SetFileTypes
      <3> QED
        BY <3>2
    <2>3. CASE ~DiscardTruncate
      BY <1>2, <2>1, <2>3, SetFileTypes
    <2> QED
      BY <2>2, <2>3
  <1>5. holds' \in [Chains -> Held \cup {Free}]
    BY <1>3 DEF TypeInv, TypeOK, DiscardShared, DiscardTruncate, RemoveTruncated
  <1>6. /\ DiscardTruncate => pc' = "remove" /\ victim' = victim /\ resume' = resume
        /\ ~DiscardTruncate => pc' = resume
    BY DEF DiscardShared, DiscardTruncate, RemoveTruncated, memory
  <1>7. Control' /\ ReclaimKey'
    BY <1>1, <1>2, <1>6
    DEF TypeInv, Control, ReclaimKey, Places, Resting, Staging, Sweeping, NoInstall, Valid
  <1>8. TypeOK'
    <2>1. pc' # "observe"
      BY <1>2, <1>6
    <2> QED
      BY <1>1, <1>4, <1>5, <2>1 DEF TypeInv, TypeOK
  <1>9. UploadInHand'
    BY <1>1, <1>2, <1>6 DEF UploadInHand, Uploaded, Staging
  <1>10. VictimInHand'
    BY <1>2, <1>3, <1>4, <1>6 DEF VictimInHand, FileOf
  <1> QED
    BY <1>7, <1>8, <1>9, <1>10 DEF TypeInv

LEMMA TypeUpload ==
    ASSUME TypeInv,
           \/ \E n \in LongNames, c \in Books : StageUpload(n, c)
           \/ CreateScratch \/ CloseScratch
    PROVE  TypeInv'
  <1>1. /\ books' = books /\ journal' = journal /\ reclaim' = reclaim /\ owed' = owed
        /\ parked' = parked
        /\ had' = had /\ caller' = caller /\ steps' = steps /\ step' = step
    BY DEF StageUpload, CreateScratch, CloseScratch, memory, card
  <1>2. /\ NoInstall
        /\ pc \in {"session", "stage", "stream"}
        /\ pc' \in {"stage", "discard", "stream", "owe"}
        /\ reclaim = None
    BY DEF StageUpload, CreateScratch, CloseScratch, TypeInv, Control, Staging, Sweeping,
           Resting, StorageSettled
  <1>3. Control' /\ ReclaimKey'
    BY <1>1, <1>2
    DEF TypeInv, Control, ReclaimKey, Places, Resting, Staging, Sweeping, NoInstall, Valid
  <1>4. CASE \E n \in LongNames, c \in Books : StageUpload(n, c)
    <2>1. PICK n \in LongNames, c \in Books : StageUpload(n, c)
      BY <1>4
    <2>2. /\ scratch' = scratch /\ holds' = holds
          /\ upload' = [name |-> n, is |-> c] /\ Uploaded'
      BY <2>1 DEF StageUpload, card, Uploaded
    <2>3. TypeOK'
      BY <1>1, <1>2, <2>2 DEF TypeInv, TypeOK
    <2>4. /\ pc' \in {"stage", "discard"}
          /\ pc' = "discard" => /\ scratch[ScratchOf[n]] # None
                                /\ victim' = <<"scratch", ScratchOf[n]>> /\ resume' = "stage"
      BY <2>1 DEF StageUpload
    <2>5. UploadInHand'
      BY <2>2, <2>4 DEF UploadInHand, Staging
    <2>6. VictimInHand'
      <3>1. ScratchOf[n] \in ScratchNames
        BY ScratchAssumption
      <3>2. scratch[ScratchOf[n]] \in Files \cup {None}
        BY <3>1 DEF TypeInv, TypeOK
      <3> QED
        BY <1>1, <2>2, <2>4, <3>1, <3>2 DEF VictimInHand, LeftoverNames, FileOf
    <2> QED
      BY <1>3, <2>3, <2>5, <2>6 DEF TypeInv
  <1>5. CASE CreateScratch \/ CloseScratch
    <2> DEFINE s == ScratchOf[upload.name]
    <2>1. Uploaded /\ s \in ScratchNames /\ upload' = upload
          /\ upload.is \in Held /\ Junk \in Held
      BY <1>5, ScratchAssumption
      DEF TypeInv, UploadInHand, Staging, CreateScratch, CloseScratch, Uploaded, memory,
          Held, Contents
    <2>2. /\ scratch' \in [ScratchNames -> Files \cup {None}]
          /\ scratch'[s] \in Files
          /\ holds' \in [Chains -> Held \cup {Free}]
      <3>0. /\ scratch \in [ScratchNames -> Files \cup {None}]
            /\ holds \in [Chains -> Held \cup {Free}]
        BY DEF TypeInv, TypeOK
      <3>1. CASE CreateScratch
        <4>1. PICK chain \in Chains :
                /\ holds' = [holds EXCEPT ![chain] = Junk]
                /\ scratch' = [scratch EXCEPT ![s] = File(chain, Junk)]
          BY <3>1 DEF CreateScratch
        <4>2. File(chain, Junk) \in Files
          BY <2>1 DEF File, Files
        <4> QED
          BY <2>1, <3>0, <4>1, <4>2
      <3>2. CASE CloseScratch
        <4>1. scratch[s] \in Files
          BY <3>2 DEF TypeInv, UploadInHand, Staging, CloseScratch
        <4>2. [scratch[s] EXCEPT !.is = upload.is] \in Files
          BY <2>1, <4>1 DEF Files
        <4>3. /\ scratch' = [scratch EXCEPT ![s].is = upload.is]
              /\ holds' = [holds EXCEPT ![scratch[s].chain] = upload.is]
          BY <3>2 DEF CloseScratch
        <4>4. scratch' = [scratch EXCEPT ![s] = [scratch[s] EXCEPT !.is = upload.is]]
          BY <2>1, <3>0, <4>3
        <4> HIDE DEF s
        <4> QED
          BY <2>1, <3>0, <4>2, <4>3, <4>4
      <3> QED
        BY <1>5, <3>1, <3>2
    <2>3. TypeOK'
      BY <1>1, <1>2, <2>1, <2>2 DEF TypeInv, TypeOK
    <2>4. pc' \in {"stream", "owe"}
      BY <1>5 DEF CreateScratch, CloseScratch
    <2> QED
      BY <1>3, <2>1, <2>2, <2>3, <2>4
      DEF TypeInv, UploadInHand, VictimInHand, Staging, Uploaded
  <1> QED
    BY <1>4, <1>5

LEMMA TypeComputer ==
    ASSUME TypeInv, ComputerDeletes \/ ComputerCopies
    PROVE  TypeInv'
  <1>1. /\ journal' = journal /\ reclaim' = reclaim /\ owed' = owed /\ pc' = pc /\ pc = "off"
        /\ had' = had /\ upload' = upload /\ caller' = caller /\ steps' = steps /\ step' = step
    BY DEF ComputerDeletes, ComputerCopies, memory
  <1>2. /\ books \in [Aliases -> Entries \cup {None}]
        /\ scratch \in [ScratchNames -> Files \cup {None}]
        /\ parked \in [ParkedNames -> Files \cup {None}]
        /\ holds \in [Chains -> Held \cup {Free}]
    BY DEF TypeInv, TypeOK
  <1>3. /\ books' \in [Aliases -> Entries \cup {None}]
        /\ scratch' \in [ScratchNames -> Files \cup {None}]
        /\ parked' \in [ParkedNames -> Files \cup {None}]
        /\ holds' \in [Chains -> Held \cup {Free}]
    <2>1. CASE ComputerDeletes
      <3>1. PICK chain \in Chains, name \in {"books", "scratch", "parked"} \X
                                      (Aliases \cup ScratchNames \cup ParkedNames) :
               /\ holds' = [holds EXCEPT ![chain] = Free]
               /\ IF name[1] = "books"
                  THEN books' = [books EXCEPT ![name[2]] = None] /\ UNCHANGED <<scratch, parked>>
                  ELSE SetFile(name, None) /\ UNCHANGED books
        BY <2>1 DEF ComputerDeletes
      <3> QED
        BY <1>2, <3>1 DEF SetFile
    <2>2. CASE ComputerCopies
      <3>1. PICK chain \in Chains, c \in Strangers :
             /\ holds' = [holds EXCEPT ![chain] = c]
             /\ \/ \E n \in LongNames, a \in Aliases \ Listed :
                     /\ books' = [books EXCEPT ![a] = Book(n, FALSE, File(chain, c))]
                     /\ UNCHANGED <<scratch, parked>>
                \/ \E s \in ScratchNames :
                     SetFile(<<"scratch", s>>, File(chain, c)) /\ UNCHANGED books
                \/ \E p \in ParkedNames :
                     SetFile(<<"parked", p>>, File(chain, c)) /\ UNCHANGED books
        BY <2>2 DEF ComputerCopies
      <3>2. File(chain, c) \in Files /\ c \in Held
        BY DEF File, Files, Held, Contents
      <3>3. \A n \in LongNames : Book(n, FALSE, File(chain, c)) \in Entries
        BY <3>2, BookAndBody
      <3> QED
        BY <1>2, <3>1, <3>2, <3>3 DEF SetFile
    <2> QED
      BY <2>1, <2>2
  <1>4. Control' /\ ReclaimKey'
    BY <1>1
    DEF TypeInv, Control, ReclaimKey, Places, Resting, Staging, Sweeping, NoInstall, Valid
  <1>5. TypeOK'
    BY <1>1, <1>3 DEF TypeInv, TypeOK
  <1>6. pc' \notin Staging \cup {"discard", "remove"}
    BY <1>1 DEF Staging
  <1> QED
    BY <1>4, <1>5, <1>6, HandsFree DEF TypeInv

LEMMA TypeStutter == TypeInv /\ UNCHANGED vars => TypeInv'
  BY DEF TypeInv, TypeOK, Control, ReclaimKey, UploadInHand, Uploaded, VictimInHand, FileOf,
         Valid, NoInstall, vars, card, memory

LEMMA TypeStep == TypeInv /\ [Next \/ Earlier \/ Elsewhere]_vars => TypeInv'
  <1> SUFFICES ASSUME TypeInv, [Next \/ Earlier \/ Elsewhere]_vars PROVE TypeInv'
    OBVIOUS
  <1>1. CASE Pass
    BY <1>1, TypeQuiet, TypeJournal, TypeReclaim, TypeMoves, TypeDiscard DEF Pass
  <1>2. CASE BootFromCatalog \/ Scan \/ StartSession \/ Retry
    BY <1>2, TypeQuiet
  <1>3. CASE Uploading
    <2>1. CASE \E n \in LongNames, c \in Books : BeginUpload(n, c)
      BY <2>1, TypeUpload DEF BeginUpload
    <2> QED
      BY <1>3, <2>1, TypeUpload, TypeQuiet, TypeJournal DEF Uploading
  <1>4. CASE \E a \in Aliases : DeleteBook(a)
    BY <1>4, TypeReclaim
  <1>5. CASE Fail \/ Crash
    BY <1>5, TypeQuiet, TypeJournal DEF Fail
  <1>6. CASE Earlier
    <2>1. CASE EarlierBegin
      BY <2>1, TypeUpload DEF EarlierBegin
    <2> QED
      BY <1>6, <2>1, TypeQuiet, TypeMoves DEF Earlier
  <1>7. CASE Elsewhere
    BY <1>7, TypeComputer, TypeJournal DEF Elsewhere
  <1>8. CASE UNCHANGED vars
    BY <1>8, TypeStutter
  <1> QED
    BY <1>1, <1>2, <1>3, <1>4, <1>5, <1>6, <1>7, <1>8 DEF Next

\* Every file, record and place has its type, whatever else wrote on the card
\* between two power cycles.
THEOREM InstallTypes == AnySpec => []TypeOK
  <1>1. TypeInv => TypeOK
    BY DEF TypeInv
  <1> QED
    BY <1>1, TypeInit, TypeStep, PTL DEF AnySpec

-----------------------------------------------------------------------------
(***************************************************************************)
(* A record of a later build                                               *)
(***************************************************************************)
LEMMA UnrecognizedStep ==
    ASSUME TypeInv, [Next \/ Earlier \/ Elsewhere]_vars,
           journal = Unrecognized, reclaim = None, pc # "off"
    PROVE  UNCHANGED <<files, journal, reclaim>>
  <1>1. ~Valid /\ ~NoInstall /\ journal # Truncated
    BY RecordOrNone DEF Valid, NoInstall, Truncated, Unrecognized
  <1>2. /\ pc \in Resting \cup {"reclaim", "journal", "publish"}
        /\ pc # "off"
    BY <1>1 DEF TypeInv, Control, Places
  <1>3. ~StorageSettled
    BY <1>1 DEF StorageSettled
  <1> USE DEF Resting
  <1>4. CASE Pass
    <2>1. \/ ReclaimUnlink \/ ReclaimFree \/ ReclaimSettled \/ ReadIntent
          \/ PassStopped \/ PublishCatalog
      BY <1>2, <1>4
      DEF Pass, RetireOldHolder, UnlinkOldHolder, InstallStage, UnlinkStage, ReclaimRollback,
          RestoreOldHolder, UnlinkRollbackCopy, UnlinkSource, StopBlocked, PlanDone,
          ClearIntent, SweepNext, SweepEnd, DiscardShared, DiscardTruncate, RemoveTruncated,
          PassDone, Planned
    <2> QED
      BY <2>1 DEF ReclaimUnlink, ReclaimFree, ReclaimSettled, ReadIntent, PassStopped,
                  PublishCatalog, card, files
  <1>5. CASE BootFromCatalog \/ Scan \/ StartSession \/ Retry
    BY <1>5 DEF BootFromCatalog, Scan, StartSession, Retry, card, files
  <1>6. CASE Uploading
    <2>1. FALSE
      BY <1>2, <1>3, <1>6
      DEF Uploading, BeginUpload, StageUpload, CreateScratch, Abandon, CloseScratch,
          BeginReplace, WriteIntent
    <2> QED
      BY <2>1
  <1>7. CASE \E a \in Aliases : DeleteBook(a)
    BY <1>3, <1>7 DEF DeleteBook
  <1>8. CASE Fail
    <2>1. CASE StopsPass
      BY <2>1 DEF StopsPass, card, files
    <2>2. CASE LeavesLeftover
      BY <2>2 DEF LeavesLeftover, card, files
    <2>3. CASE FailsCommand
      BY <1>2, <2>3 DEF FailsCommand
    <2>4. CASE FailsScan
      BY <2>4 DEF FailsScan
    <2> QED
      BY <1>8, <2>1, <2>2, <2>3, <2>4 DEF Fail
  <1>9. CASE Crash
    BY <1>2, <1>9 DEF Crash
  <1>10. CASE Earlier
    BY <1>2, <1>3, <1>10 DEF Earlier, EarlierBegin, StageUpload, EarlierOwesNothing, EarlierRetire
  <1>11. CASE Elsewhere
    BY <1>2, <1>11
    DEF Elsewhere, ComputerDeletes, ComputerCopies, ComputerLosesRecord, LaterRecord
  <1>12. CASE UNCHANGED vars
    BY <1>12 DEF vars, card, files
  <1> QED
    BY <1>4, <1>5, <1>6, <1>7, <1>8, <1>9, <1>10, <1>11, <1>12 DEF Next

\* A record this build cannot read is the only account of where a book went:
\* no step moves, sweeps or replaces anything beside it.
THEOREM UnrecognizedIsLeft == AnySpec => UnrecognizedStands
  <1>1. TypeInv /\ [Next \/ Earlier \/ Elsewhere]_vars =>
          [journal = Unrecognized /\ reclaim = None /\ pc # "off"
             => UNCHANGED <<files, journal, reclaim>>]_vars
    BY UnrecognizedStep
  <1> QED
    BY <1>1, TypeInit, TypeStep, PTL DEF AnySpec, UnrecognizedStands

-----------------------------------------------------------------------------
(***************************************************************************)
(* The books on the shelf                                                  *)
(***************************************************************************)
\* Two entries on the shelf never share a chain: a move always goes from one
\* directory to another.
Apart == \A a, b \in Listed : a # b => books[a].chain # books[b].chain

\* The upload a record speaks of is whole as long as it stands, and nothing
\* on the shelf reads from it but the book it has become, if it can become one.
StageKept ==
    Valid /\ StageStands =>
        /\ holds[journal.stage.chain] = scratch[journal.stage.alias].is
        /\ journal.name \in Installable =>
             \A a \in Listed : books[a].chain = journal.stage.chain => a \in Holders(journal.name)

\* So is the parked predecessor, and nothing on the shelf reads from it but
\* the entry it was parked from or the one it was put back under.
OldKept ==
    Valid /\ ParkedStands =>
        /\ holds[parked[journal.rollback].chain] = parked[journal.rollback].is
        /\ \A a \in Listed : books[a].chain = parked[journal.rollback].chain =>
             \/ a \in Holders(journal.name) /\ Body(books[a]) = parked[journal.rollback]
             \/ a = journal.old.alias /\ Is(journal.old, Body(books[a]))

\* What is being reclaimed is on the shelf only under the name being deleted;
\* beside a record it is the parked predecessor, and the upload has landed.
ReclaimKept ==
    reclaim # None =>
        /\ \A a \in Listed : books[a].chain = reclaim.chain =>
             reclaim.dir = "books" /\ a = reclaim.key
        /\ Valid => /\ reclaim.dir = "rollback" /\ reclaim.key = journal.rollback
                    /\ ~StageStands

CardInv == ListedReadable /\ Apart /\ StageKept /\ OldKept /\ ReclaimKept

\* An upload under way is nobody's yet, and whole once it is closed.
UploadKept ==
    pc \in Staging \ {"stage"} =>
        /\ ~ShelfHoldsChain(scratch[ScratchOf[upload.name]].chain)
        /\ pc # "stream" =>
             /\ scratch[ScratchOf[upload.name]].is = upload.is
             /\ holds[scratch[ScratchOf[upload.name]].chain] = upload.is

\* A leftover that was cut short is on no shelf.
VictimKept == pc = "remove" => ~ShelfHoldsChain(FileOf(victim).chain)

FileInv == TypeInv /\ CardInv /\ UploadKept /\ VictimKept

LEMMA FileInit == Init => FileInv
  <1> SUFFICES ASSUME Init PROVE FileInv
    OBVIOUS
  <1>1. pc = "off" /\ ~Valid /\ reclaim = None
    BY DEF Init, Asleep, Valid, Absent
  <1> DEFINE At(titles, legacy, at, where, what) ==
        /\ OneToOne(at) /\ OneToOne(where)
        /\ Stocked(titles, legacy, at, where, what)
        /\ holds = [chain \in Chains |->
             IF \E n \in titles : where[n] = chain
             THEN what[CHOOSE n \in titles : where[n] = chain] ELSE Free]
  <1>2. PICK titles \in SUBSET LongNames :
          \E legacy \in SUBSET titles, at \in [titles -> Aliases],
             where \in [titles -> Chains], what \in [titles -> Books] :
               At(titles, legacy, at, where, what)
    BY DEF Init, AnyShelf
  <1>3. PICK legacy \in SUBSET titles, at \in [titles -> Aliases],
             where \in [titles -> Chains], what \in [titles -> Books] :
               At(titles, legacy, at, where, what)
    BY <1>2
  <1> DEFINE Of(a) == CHOOSE n \in titles : at[n] = a
  <1>4. \A a \in Listed : Of(a) \in titles /\ at[Of(a)] = a
                            /\ books[a].chain = where[Of(a)] /\ books[a].is = what[Of(a)]
    BY <1>3 DEF Listed, Stocked, Book, File
  <1>5. \A n \in titles : holds[where[n]] = what[n]
    <2> SUFFICES ASSUME NEW n \in titles PROVE holds[where[n]] = what[n]
      OBVIOUS
    <2> DEFINE m == CHOOSE m \in titles : where[m] = where[n]
    <2>1. m \in titles /\ where[m] = where[n]
      OBVIOUS
    <2>2. m = n
      BY <1>3, <2>1 DEF OneToOne
    <2>3. holds[where[n]] = what[m]
      BY <1>3
    <2> QED
      BY <2>2, <2>3
  <1> HIDE DEF Of
  <1>6. ListedReadable
    BY <1>4, <1>5 DEF ListedReadable
  <1>7. Apart
    <2> SUFFICES ASSUME NEW a \in Listed, NEW b \in Listed, books[a].chain = books[b].chain
                 PROVE  a = b
      BY DEF Apart
    <2>1. Of(a) = Of(b)
      BY <1>3, <1>4 DEF OneToOne
    <2> QED
      BY <1>4, <2>1
  <1> QED
    BY <1>1, <1>6, <1>7, TypeInit
    DEF FileInv, CardInv, StageKept, OldKept, ReclaimKept, UploadKept, VictimKept, Staging

\* Names may go, records may go, and clusters nobody's book reads from may
\* change hands.
LEMMA NamesGo ==
    ASSUME TypeInv, TypeInv', CardInv,
           Listed' \subseteq Listed,
           \A a \in Listed' : books'[a] = books[a]
                                /\ holds'[books[a].chain] = holds[books[a].chain],
           reclaim' = reclaim \/ reclaim' = None,
           Valid' =>
             /\ journal' = journal
             /\ \A s \in ScratchNames : scratch'[s] = scratch[s] \/ scratch'[s] = None
             /\ \A p \in ParkedNames : parked'[p] = parked[p] \/ parked'[p] = None
             /\ StageStands' => holds'[journal.stage.chain] = holds[journal.stage.chain]
             /\ ParkedStands' => holds'[parked[journal.rollback].chain]
                                    = holds[parked[journal.rollback].chain]
    PROVE  CardInv'
  <1>1. ListedReadable'
    BY DEF CardInv, ListedReadable
  <1>2. Apart'
    BY DEF CardInv, Apart
  <1>3. CASE ~Valid'
    <2>1. StageKept' /\ OldKept'
      BY <1>3 DEF StageKept, OldKept
    <2>2. ReclaimKept'
      BY <1>3 DEF CardInv, ReclaimKept
    <2> QED
      BY <1>1, <1>2, <2>1, <2>2 DEF CardInv
  <1>4. CASE Valid'
    <2>1. Valid /\ journal' = journal
      BY <1>4 DEF Valid
    <2>2. /\ StageStands' => StageStands /\ scratch'[journal.stage.alias] = scratch[journal.stage.alias]
          /\ ParkedStands' => ParkedStands /\ parked'[journal.rollback] = parked[journal.rollback]
      BY <1>4, <2>1, RecordMeans DEF StageStands, ParkedStands, ParkedIsOld
    <2>3. \A a \in Listed' : a \in Holders(journal.name) => a \in Holders(journal.name)'
      BY <2>1 DEF Holders, Listed
    <2>4. StageKept'
      BY <1>4, <2>1, <2>2, <2>3 DEF CardInv, StageKept
    <2>5. OldKept'
      BY <1>4, <2>1, <2>2, <2>3 DEF CardInv, OldKept, Body
    <2>6. ReclaimKept'
      BY <1>4, <2>1, <2>2 DEF CardInv, ReclaimKept
    <2> QED
      BY <1>1, <1>2, <2>4, <2>5, <2>6 DEF CardInv
  <1> QED
    BY <1>3, <1>4

\* A step that writes no file leaves all of it as it was.
LEMMA CardKept ==
    ASSUME TypeInv, TypeInv', CardInv, UNCHANGED files,
           reclaim' = reclaim \/ reclaim' = None,
           journal' = journal \/ ~Valid'
    PROVE  CardInv'
  <1>1. /\ books' = books /\ scratch' = scratch /\ parked' = parked /\ holds' = holds
    BY DEF files
  <1>2. Listed' = Listed
    BY <1>1 DEF Listed
  <1> QED
    BY <1>1, <1>2, NamesGo

-----------------------------------------------------------------------------
LEMMA CardQuiet ==
    ASSUME TypeInv, TypeInv', CardInv,
           \/ ReclaimSettled \/ ReadIntent \/ StopBlocked \/ PlanDone \/ SweepNext \/ SweepEnd
           \/ PassDone \/ PassStopped \/ PublishCatalog
           \/ BootFromCatalog \/ Scan \/ StartSession \/ Retry
           \/ BeginReplace \/ EarlierOwesNothing \/ Abandon
           \/ StopsPass \/ LeavesLeftover \/ FailsScan
           \/ \E n \in LongNames, c \in Books : StageUpload(n, c)
           \/ ClearIntent \/ Crash \/ ComputerLosesRecord \/ LaterRecord
    PROVE  CardInv'
  <1>1. UNCHANGED files /\ reclaim' = reclaim
    <2> USE DEF card, files
    <2>1. CASE \/ ReclaimSettled \/ ReadIntent \/ StopBlocked \/ PlanDone \/ SweepNext \/ SweepEnd
      BY <2>1 DEF ReclaimSettled, ReadIntent, StopBlocked, PlanDone, SweepNext, SweepEnd
    <2>2. CASE \/ PassDone \/ PassStopped \/ PublishCatalog
               \/ BootFromCatalog \/ Scan \/ StartSession \/ Retry
      BY <2>2 DEF PassDone, PassStopped, PublishCatalog, BootFromCatalog, Scan, StartSession, Retry
    <2>3. CASE \/ BeginReplace \/ EarlierOwesNothing \/ Abandon
               \/ StopsPass \/ LeavesLeftover \/ FailsScan
      BY <2>3 DEF BeginReplace, EarlierOwesNothing, Abandon, StopsPass, LeavesLeftover, FailsScan
    <2>4. CASE \E n \in LongNames, c \in Books : StageUpload(n, c)
      BY <2>4 DEF StageUpload
    <2>5. CASE ClearIntent \/ Crash \/ ComputerLosesRecord \/ LaterRecord
      BY <2>5 DEF ClearIntent, Crash, ComputerLosesRecord, LaterRecord
    <2> QED
      BY <2>1, <2>2, <2>3, <2>4, <2>5
  <1>2. journal' = journal \/ journal' \in {Absent, Truncated, Unrecognized}
    <2> USE DEF card, files
    <2>1. CASE \/ ReclaimSettled \/ ReadIntent \/ StopBlocked \/ PlanDone \/ SweepNext \/ SweepEnd
      BY <2>1 DEF ReclaimSettled, ReadIntent, StopBlocked, PlanDone, SweepNext, SweepEnd
    <2>2. CASE \/ PassDone \/ PassStopped \/ PublishCatalog
               \/ BootFromCatalog \/ Scan \/ StartSession \/ Retry
      BY <2>2 DEF PassDone, PassStopped, PublishCatalog, BootFromCatalog, Scan, StartSession, Retry
    <2>3. CASE \/ BeginReplace \/ EarlierOwesNothing \/ Abandon
               \/ StopsPass \/ LeavesLeftover \/ FailsScan
      BY <2>3 DEF BeginReplace, EarlierOwesNothing, Abandon, StopsPass, LeavesLeftover, FailsScan
    <2>4. CASE \E n \in LongNames, c \in Books : StageUpload(n, c)
      BY <2>4 DEF StageUpload
    <2>5. CASE ClearIntent \/ Crash \/ ComputerLosesRecord \/ LaterRecord
      BY <2>5 DEF ClearIntent, Crash, ComputerLosesRecord, LaterRecord
    <2> QED
      BY <2>1, <2>2, <2>3, <2>4, <2>5
  <1>3. journal' = journal \/ ~Valid'
    BY <1>2, RecordOrNone DEF Valid
  <1> QED
    BY <1>1, <1>3, CardKept

LEMMA CardIntent ==
    ASSUME FileInv, TypeInv', WriteIntent \/ FailsCommand
    PROVE  CardInv'
  <1>1. UNCHANGED files /\ reclaim' = reclaim
    BY DEF WriteIntent, FailsCommand
  <1>2. CASE pc = "record" /\ ParkedNameFree /\ journal' = Intent
    <2> DEFINE s == ScratchOf[upload.name]
               new == Intent
    <2>1. /\ reclaim = None
          /\ new.stage = Located(s, scratch[s]) /\ parked[new.rollback] = None
          /\ new.stage.alias = s /\ new.stage.chain = scratch[s].chain
      BY <1>2, IntentMeans DEF FileInv, TypeInv, Control, Resting, Located
    <2>2. /\ ~ShelfHoldsChain(scratch[s].chain)
          /\ holds[scratch[s].chain] = scratch[s].is
      BY <1>2 DEF FileInv, UploadKept, Staging
    <2>3. /\ books' = books /\ scratch' = scratch /\ parked' = parked /\ holds' = holds
          /\ journal' = new /\ Listed' = Listed
      BY <1>1, <1>2 DEF files, Listed
    <2> HIDE DEF s, new
    <2>4. StageKept'
      BY <2>1, <2>2, <2>3 DEF StageKept, ShelfHoldsChain
    <2>5. OldKept'
      BY <2>1, <2>3 DEF OldKept, ParkedStands
    <2>6. ReclaimKept'
      BY <1>1, <2>1 DEF ReclaimKept
    <2>7. ListedReadable' /\ Apart'
      BY <2>3 DEF FileInv, CardInv, ListedReadable, Apart
    <2> QED
      BY <2>4, <2>5, <2>6, <2>7 DEF CardInv
  <1>3. CASE ~(pc = "record" /\ ParkedNameFree /\ journal' = Intent)
    <2>1. journal' = journal \/ journal' = Truncated
      BY <1>3 DEF WriteIntent, FailsCommand
    <2>2. journal' = journal \/ ~Valid'
      BY <2>1, RecordOrNone DEF FileInv, Valid
    <2> QED
      BY <1>1, <2>2, CardKept DEF FileInv
  <1> QED
    BY <1>2, <1>3

LEMMA OldOffShelf ==
    ASSUME TypeInv, CardInv, Valid, ParkedStands, ~OldStands
    PROVE  ~ShelfHoldsChain(parked[journal.rollback].chain)
  <1> SUFFICES ASSUME NEW a \in Listed, books[a].chain = parked[journal.rollback].chain
               PROVE  FALSE
    BY DEF ShelfHoldsChain
  <1>1. \/ a \in Holders(journal.name) /\ Body(books[a]) = parked[journal.rollback]
        \/ a = journal.old.alias /\ Is(journal.old, Body(books[a]))
    BY DEF CardInv, OldKept
  <1>2. parked[journal.rollback] # None /\ journal.old # None
    BY DEF ParkedStands, ParkedIsOld
  <1>3. books[a] # None
    BY DEF Listed
  <1>4. ~Restored /\ ~Standing
    BY DEF OldStands
  <1> QED
    BY <1>1, <1>2, <1>3, <1>4 DEF Restored, Standing

LEMMA CardReclaim ==
    ASSUME TypeInv, TypeInv', CardInv,
           ReclaimUnlink \/ ReclaimFree \/ ReclaimRollback \/ \E a \in Aliases : DeleteBook(a)
    PROVE  CardInv'
  <1>1. CASE ReclaimUnlink
    <2>1. /\ scratch' = scratch /\ holds' = holds /\ journal' = journal /\ reclaim' = reclaim
          /\ \A a \in Aliases : books'[a] = books[a] \/ books'[a] = None
          /\ \A p \in ParkedNames : parked'[p] = parked[p] \/ parked'[p] = None
      BY <1>1 DEF ReclaimUnlink, TypeInv, TypeOK
    <2>2. Listed' \subseteq Listed /\ \A a \in Listed' : books'[a] = books[a]
      BY <2>1 DEF Listed
    <2> QED
      BY <2>1, <2>2, NamesGo
  <1>2. CASE ReclaimFree
    <2>1. /\ books' = books /\ scratch' = scratch /\ parked' = parked /\ journal' = journal
          /\ reclaim' = None /\ reclaim # None
          /\ holds' = [holds EXCEPT ![reclaim.chain] = Free]
          /\ ~(Named(reclaim) # None /\ Named(reclaim).chain = reclaim.chain)
          /\ Listed' = Listed
      BY <1>2 DEF ReclaimFree, Listed
    <2>2. \A a \in Listed : books[a].chain # reclaim.chain
      BY <2>1 DEF CardInv, ReclaimKept, Named, Listed
    <2>3. Valid => ~StageStands /\ reclaim.dir # "books" /\ reclaim.key = journal.rollback
      BY <2>1 DEF CardInv, ReclaimKept
    <2>4. Valid /\ ParkedStands => parked[journal.rollback].chain # reclaim.chain
      BY <2>1, <2>3 DEF Named, ParkedStands
    <2>5. \A c : c # reclaim.chain => holds'[c] = holds[c]
      BY <2>1 DEF TypeInv, TypeOK
    <2>6. /\ Valid' => Valid
          /\ StageStands' => StageStands
          /\ ParkedStands' => ParkedStands
      BY <2>1 DEF Valid, StageStands, ParkedStands, ParkedIsOld
    <2> QED
      BY <2>1, <2>2, <2>3, <2>4, <2>5, <2>6, NamesGo
  <1>3. CASE ReclaimRollback
    <2>1. /\ books' = books /\ scratch' = scratch /\ parked' = parked /\ holds' = holds
          /\ journal' = journal
          /\ reclaim' = [dir |-> "rollback", key |-> journal.rollback,
                         chain |-> parked[journal.rollback].chain]
          /\ Valid /\ Listed' = Listed
          /\ ~StageCounts /\ Installed /\ ParkedStands /\ ~OldStands
      BY <1>3, PlanMeans DEF ReclaimRollback, Planned, Apply, files, TypeInv, Control, Listed
    <2>2. ~StageStands
      BY <2>1 DEF StageCounts
    <2>3. \A a \in Listed : books[a].chain # parked[journal.rollback].chain
      BY <2>1, OldOffShelf DEF ShelfHoldsChain
    <2>4. ReclaimKept'
      BY <2>1, <2>2, <2>3 DEF ReclaimKept, StageStands
    <2>5. ListedReadable' /\ Apart' /\ StageKept' /\ OldKept'
      BY <2>1 DEF CardInv, ListedReadable, Apart, StageKept, OldKept, StageStands, ParkedStands,
                  ParkedIsOld, Holders, Valid
    <2> QED
      BY <2>4, <2>5 DEF CardInv
  <1>4. CASE \E a \in Aliases : DeleteBook(a)
    <2>1. PICK a \in Aliases : DeleteBook(a)
      BY <1>4
    <2>2. /\ books' = books /\ scratch' = scratch /\ parked' = parked /\ holds' = holds
          /\ journal' = journal /\ Listed' = Listed
          /\ reclaim' = [dir |-> "books", key |-> a, chain |-> books[a].chain]
          /\ a \in Listed /\ ~Valid
      BY <2>1, RecordOrNone DEF DeleteBook, files, Listed, StorageSettled
    <2>3. \A b \in Listed : books[b].chain = books[a].chain => b = a
      BY <2>2 DEF CardInv, Apart
    <2>4. ReclaimKept'
      BY <2>2, <2>3 DEF ReclaimKept, Valid
    <2>5. ListedReadable' /\ Apart' /\ StageKept' /\ OldKept'
      BY <2>2 DEF CardInv, ListedReadable, Apart, StageKept, OldKept, Valid
    <2> QED
      BY <2>4, <2>5 DEF CardInv
  <1> QED
    BY <1>1, <1>2, <1>3, <1>4

\* A retirement begins where the record's predecessor stands.
LEMMA RetireStands ==
    ASSUME TypeInv, RetireOldHolder \/ EarlierRetire
    PROVE  /\ Valid /\ Standing /\ reclaim = None
           /\ books' = books /\ journal' = journal
  <1>1. pc = "observe"
    BY DEF RetireOldHolder, EarlierRetire, Planned
  <1>2. CASE RetireOldHolder
    BY <1>1, <1>2, PlanMeans
    DEF RetireOldHolder, Planned, Apply, OldStands, Restored, TypeInv, Control, Resting
  <1>3. CASE EarlierRetire
    BY <1>1, <1>3 DEF EarlierRetire, Apply, TypeInv, Control, Resting
  <1> QED
    BY <1>2, <1>3

LEMMA CardRetire ==
    ASSUME TypeInv, TypeInv', CardInv, RetireOldHolder \/ EarlierRetire
    PROVE  CardInv'
  <1> DEFINE old == books[journal.old.alias]
  <1>1. Valid /\ Standing /\ reclaim = None
    BY RetireStands
  <1>2. /\ books' = books /\ scratch' = scratch /\ holds' = holds /\ journal' = journal
        /\ reclaim' = None /\ Listed' = Listed
        /\ parked' = [parked EXCEPT ![journal.rollback] = Body(old)]
    BY <1>1 DEF RetireOldHolder, EarlierRetire, Apply, Listed
  <1>3. /\ old \in Entries /\ journal.old.alias \in Listed /\ journal.rollback \in ParkedNames
        /\ Is(journal.old, Body(old))
    BY <1>1, RecordMeans DEF Standing, Listed
  <1>4. Body(old) \in Files /\ Body(old).chain = old.chain /\ Body(old).is = old.is
    BY <1>3, BookAndBody
  <1>5. parked'[journal.rollback] = Body(old)
    BY <1>2, <1>3 DEF TypeInv, TypeOK
  <1>6. holds[old.chain] = old.is
    BY <1>3 DEF CardInv, ListedReadable
  <1>7. \A a \in Listed : books[a].chain = old.chain => a = journal.old.alias
    BY <1>3 DEF CardInv, Apart
  <1>8. OldKept'
    <2> HIDE DEF old
    <2>1. holds'[parked'[journal'.rollback].chain] = parked'[journal'.rollback].is
      BY <1>2, <1>4, <1>5, <1>6
    <2>2. \A a \in Listed : books'[a].chain = parked'[journal'.rollback].chain =>
            a = journal.old.alias /\ Is(journal.old, Body(books'[a]))
      BY <1>2, <1>3, <1>4, <1>5, <1>7 DEF old
    <2> QED
      BY <1>2, <2>1, <2>2 DEF OldKept, Is, Body
  <1>9. ListedReadable' /\ Apart' /\ StageKept' /\ ReclaimKept'
    BY <1>2 DEF CardInv, ListedReadable, Apart, StageKept, StageStands, Holders, ReclaimKept, Valid
  <1> QED
    BY <1>8, <1>9 DEF CardInv

\* A name goes.
LEMMA CardUnlink ==
    ASSUME TypeInv, TypeInv', CardInv,
           UnlinkOldHolder \/ UnlinkStage \/ UnlinkRollbackCopy \/ UnlinkSource
    PROVE  CardInv'
  <1>1. /\ holds' = holds /\ journal' = journal /\ reclaim' = reclaim
    BY DEF UnlinkOldHolder, UnlinkStage, UnlinkRollbackCopy, UnlinkSource, Apply
  <1>2. UnlinkSource => step \in Moves
    BY DEF UnlinkSource, TypeInv, Control
  <1>3. /\ \A a \in Aliases : books'[a] = books[a] \/ books'[a] = None
        /\ \A s \in ScratchNames : scratch'[s] = scratch[s] \/ scratch'[s] = None
        /\ \A p \in ParkedNames : parked'[p] = parked[p] \/ parked'[p] = None
    BY <1>2 DEF UnlinkOldHolder, UnlinkStage, UnlinkRollbackCopy, UnlinkSource, TypeInv, TypeOK, Moves
  <1>4. Listed' \subseteq Listed /\ \A a \in Listed' : books'[a] = books[a]
    BY <1>3 DEF Listed
  <1> QED
    BY <1>1, <1>3, <1>4, NamesGo

\* A chain that no entry on the shelf has is given one there, as the book the
\* record names or as the predecessor the record names.
LEMMA CardListed ==
    ASSUME TypeInv, TypeInv', CardInv, Valid, reclaim = None,
           NEW a \in Aliases, books[a] = None,
           NEW file \in Files, NEW legacy \in BOOLEAN,
           books' = [books EXCEPT ![a] = Book(journal.name, legacy, file)],
           UNCHANGED <<scratch, parked, holds, journal, reclaim>>,
           holds[file.chain] = file.is,
           \A b \in Listed : books[b].chain # file.chain,
           legacy => /\ journal.name \notin Installable /\ ParkedStands
                     /\ a = journal.old.alias /\ file = parked[journal.rollback],
           ParkedStands /\ parked[journal.rollback].chain = file.chain =>
             file = parked[journal.rollback]
    PROVE  CardInv'
  <1> DEFINE new == Book(journal.name, legacy, file)
  <1>1. /\ new.chain = file.chain /\ new.is = file.is /\ new.title = journal.name
        /\ new.legacy = legacy /\ Body(new) = file
    BY BookAndBody DEF Book
  <1>2. books'[a] = new /\ \A b \in Aliases : b # a => books'[b] = books[b]
    BY DEF TypeInv, TypeOK
  <1>3. new # None \/ books' = books
    BY DEF TypeInv, TypeOK
  <1> HIDE DEF new
  <1>4. Listed' \subseteq Listed \cup {a} /\ \A b \in Listed' : b # a => b \in Listed /\ books'[b] = books[b]
    BY <1>2 DEF Listed
  <1>5. ListedReadable'
    BY <1>1, <1>2, <1>4 DEF CardInv, ListedReadable
  <1>6. Apart'
    BY <1>1, <1>2, <1>4 DEF CardInv, Apart
  <1>7. /\ StageStands' => StageStands
        /\ ParkedStands' => ParkedStands
        /\ Valid' /\ reclaim' = None
    BY DEF StageStands, ParkedStands, ParkedIsOld, Valid
  <1>8. \A b \in Listed' : b # a /\ b \in Holders(journal.name) => b \in Holders(journal.name)'
    BY <1>2, <1>4 DEF Holders, Listed
  <1>9. a \in Listed' /\ ~legacy => a \in Holders(journal.name)'
    BY <1>1, <1>2 DEF Holders, Listed
  <1>10. StageKept'
    BY <1>1, <1>2, <1>4, <1>7, <1>8, <1>9 DEF CardInv, StageKept
  <1>11. OldKept'
    <2> SUFFICES ASSUME ParkedStands, NEW b \in Listed', books'[b].chain = parked[journal.rollback].chain
                 PROVE  \/ b \in Holders(journal.name)' /\ Body(books'[b]) = parked[journal.rollback]
                        \/ b = journal.old.alias /\ Is(journal.old, Body(books'[b]))
      BY <1>7 DEF CardInv, OldKept, Is, Body
    <2>1. CASE b # a
      BY <1>4, <1>8, <2>1 DEF CardInv, OldKept
    <2>2. CASE b = a
      <3>1. file = parked[journal.rollback]
        BY <1>1, <1>2, <2>2
      <3>2. Is(journal.old, file)
        BY <3>1 DEF ParkedStands, ParkedIsOld
      <3> QED
        BY <1>1, <1>2, <1>9, <2>2, <3>1, <3>2
    <2> QED
      BY <2>1, <2>2
  <1>12. ReclaimKept'
    BY <1>7 DEF ReclaimKept
  <1> QED
    BY <1>5, <1>6, <1>10, <1>11, <1>12 DEF CardInv

LEMMA CardLands ==
    ASSUME TypeInv, TypeInv', CardInv, InstallStage \/ RestoreOldHolder
    PROVE  CardInv'
  <1>1. /\ Valid /\ reclaim = None
        /\ UNCHANGED <<scratch, parked, holds, journal, reclaim>>
    BY DEF InstallStage, RestoreOldHolder, Planned, Apply, TypeInv, Control, Resting
  <1>2. CASE InstallStage
    <2> DEFINE file == scratch[journal.stage.alias]
    <2>1. StageStands /\ journal.name \in Installable /\ Holders(journal.name) = {}
      BY <1>2, PlanMeans DEF InstallStage, Planned, StageCounts
    <2>2. file \in Files /\ file.chain = journal.stage.chain
      BY <1>1, <2>1, RecordMeans DEF StageStands, Is
    <2>3. PICK a \in Aliases \ Listed :
            books' = [books EXCEPT ![a] = Book(journal.name, FALSE, file)]
      BY <1>2 DEF InstallStage
    <2>4. books[a] = None
      BY <2>3 DEF Listed
    <2>5. holds[file.chain] = file.is /\ \A b \in Listed : books[b].chain # file.chain
      BY <1>1, <2>1, <2>2 DEF CardInv, StageKept
    <2>6. ParkedStands /\ parked[journal.rollback].chain = file.chain
            => file = parked[journal.rollback]
      <3> SUFFICES ASSUME ParkedStands, parked[journal.rollback].chain = file.chain
                   PROVE  file = parked[journal.rollback]
        OBVIOUS
      <3> DEFINE kept == parked[journal.rollback]
      <3>1. holds[file.chain] = kept.is /\ kept \in Files /\ kept.chain = file.chain
        BY <1>1, RecordMeans DEF CardInv, OldKept
      <3> HIDE DEF file, kept
      <3>2. kept = File(kept.chain, kept.is) /\ file = File(file.chain, file.is)
        BY <2>2, <3>1, BookAndBody
      <3>3. kept = file
        BY <2>5, <3>1, <3>2
      <3> QED
        BY <3>3 DEF kept
    <2> HIDE DEF file
    <2> QED
      BY <1>1, <2>2, <2>3, <2>4, <2>5, <2>6, CardListed
  <1>3. CASE RestoreOldHolder
    <2> DEFINE file == parked[journal.rollback]
    <2>1. ParkedStands /\ ~OldStands
      BY <1>3, PlanMeans DEF RestoreOldHolder, Planned
    <2>2. file \in Files /\ journal.old.alias \in Aliases
      BY <1>1, <2>1, RecordMeans
    <2>3. holds[file.chain] = file.is /\ \A b \in Listed : books[b].chain # file.chain
      BY <1>1, <2>1, OldOffShelf DEF CardInv, OldKept, ShelfHoldsChain
    <2>4. CASE journal.name \in Installable
      <3>1. PICK a \in Aliases \ Listed :
              books' = [books EXCEPT ![a] = Book(journal.name, FALSE, file)]
        BY <1>3, <2>4 DEF RestoreOldHolder
      <3>2. books[a] = None
        BY <3>1 DEF Listed
      <3>3. file = parked[journal.rollback]
        OBVIOUS
      <3> HIDE DEF file
      <3> QED
        BY <1>1, <2>2, <2>3, <3>1, <3>2, <3>3, CardListed
    <2>5. CASE journal.name \notin Installable
      <3>1. /\ books[journal.old.alias] = None
            /\ books' = [books EXCEPT ![journal.old.alias] = Book(journal.name, TRUE, file)]
        BY <1>3, <2>5 DEF RestoreOldHolder
      <3>2. file = parked[journal.rollback]
        OBVIOUS
      <3> DEFINE a == journal.old.alias
      <3>3. a \in Aliases /\ books[a] = None /\ a = journal.old.alias
            /\ books' = [books EXCEPT ![a] = Book(journal.name, TRUE, file)]
        BY <2>2, <3>1
      <3> HIDE DEF file, a
      <3> QED
        BY <1>1, <2>1, <2>2, <2>3, <2>5, <3>2, <3>3, CardListed
    <2> QED
      BY <2>4, <2>5
  <1> QED
    BY <1>2, <1>3

-----------------------------------------------------------------------------
LEMMA FreeIsUnlisted ==
    ASSUME TypeInv, CardInv, NEW chain \in Chains, holds[chain] = Free
    PROVE  /\ Free \notin Held
           /\ \A a \in Listed : books[a].chain # chain
           /\ Valid /\ StageStands => journal.stage.chain # chain
           /\ Valid /\ ParkedStands => parked[journal.rollback].chain # chain
  <1>1. Free \notin Held
    BY ContentAssumption DEF Held, Contents, Free, Junk
  <1>2. \A a \in Listed : books[a].is \in Held
    BY DEF TypeInv, TypeOK, Entries, Listed
  <1>3. Valid /\ StageStands => scratch[journal.stage.alias].is \in Held
    BY RecordMeans DEF Files
  <1>4. Valid /\ ParkedStands => parked[journal.rollback].is \in Held
    BY RecordMeans DEF Files
  <1> QED
    BY <1>1, <1>2, <1>3, <1>4 DEF CardInv, ListedReadable, StageKept, OldKept

\* Leftovers and uploads: what is cut short, freed or filled is on no shelf.
LEMMA ShelfUntouched ==
    ASSUME FileInv, \/ DiscardShared \/ DiscardTruncate \/ RemoveTruncated
                    \/ CreateScratch \/ CloseScratch \/ ReclaimFree
    PROVE  /\ books' = books
           /\ \A a \in Listed : holds'[books[a].chain] = holds[books[a].chain]
  <1>1. books' = books
    BY DEF DiscardShared, DiscardTruncate, RemoveTruncated, CreateScratch, CloseScratch, ReclaimFree
  <1>2. CASE DiscardShared
    BY <1>1, <1>2 DEF DiscardShared
  <1>3. CASE \/ DiscardTruncate \/ RemoveTruncated \/ CreateScratch \/ CloseScratch \/ ReclaimFree
    <2> SUFFICES \E chain, left :
                   /\ holds' = [holds EXCEPT ![chain] = left]
                   /\ \A a \in Listed : books[a].chain # chain
      BY <1>1 DEF FileInv, TypeInv, TypeOK
    <2>1. CASE DiscardTruncate \/ RemoveTruncated
      <3> DEFINE chain == FileOf(victim).chain
      <3>1. ~ShelfHoldsChain(chain)
        BY <2>1 DEF DiscardTruncate, RemoveTruncated, FileInv, VictimKept
      <3>2. \E left : holds' = [holds EXCEPT ![chain] = left]
        BY <2>1 DEF DiscardTruncate, RemoveTruncated
      <3> QED
        BY <3>1, <3>2 DEF ShelfHoldsChain
    <2>2. CASE CreateScratch
      <3>1. PICK chain \in Chains : holds[chain] = Free /\ holds' = [holds EXCEPT ![chain] = Junk]
        BY <2>2 DEF CreateScratch
      <3> QED
        BY <3>1, FreeIsUnlisted DEF FileInv
    <2>3. CASE CloseScratch
      <3> DEFINE chain == scratch[ScratchOf[upload.name]].chain
      <3>1. ~ShelfHoldsChain(chain)
        BY <2>3 DEF CloseScratch, FileInv, UploadKept, Staging
      <3>2. holds' = [holds EXCEPT ![chain] = upload.is]
        BY <2>3 DEF CloseScratch
      <3> HIDE DEF chain
      <3> QED
        BY <3>1, <3>2 DEF ShelfHoldsChain
    <2>4. CASE ReclaimFree
      <3>1. /\ reclaim # None /\ holds' = [holds EXCEPT ![reclaim.chain] = Free]
            /\ ~(Named(reclaim) # None /\ Named(reclaim).chain = reclaim.chain)
        BY <2>4 DEF ReclaimFree
      <3>2. \A a \in Listed : books[a].chain # reclaim.chain
        BY <3>1 DEF FileInv, CardInv, ReclaimKept, Named, Listed
      <3> QED
        BY <3>1, <3>2
    <2> QED
      BY <1>3, <2>1, <2>2, <2>3, <2>4
  <1> QED
    BY <1>2, <1>3

LEMMA CardDiscard ==
    ASSUME FileInv, TypeInv', DiscardShared \/ DiscardTruncate \/ RemoveTruncated
    PROVE  CardInv'
  <1>1. /\ books' = books /\ journal' = journal /\ reclaim' = reclaim /\ Listed' = Listed
    BY DEF DiscardShared, DiscardTruncate, RemoveTruncated, Listed
  <1>2. ~Valid'
    BY <1>1, RecordOrNone
    DEF DiscardShared, DiscardTruncate, RemoveTruncated, FileInv, TypeInv, Control, Sweeping, Valid
  <1> QED
    BY <1>1, <1>2, ShelfUntouched, NamesGo DEF FileInv

LEMMA CardUpload ==
    ASSUME FileInv, TypeInv', CreateScratch \/ CloseScratch
    PROVE  CardInv'
  <1>1. /\ books' = books /\ journal' = journal /\ reclaim' = reclaim /\ Listed' = Listed
    BY DEF CreateScratch, CloseScratch, Listed
  <1>2. ~Valid'
    BY <1>1, RecordOrNone DEF CreateScratch, CloseScratch, FileInv, TypeInv, Control, Staging, Valid
  <1> QED
    BY <1>1, <1>2, ShelfUntouched, NamesGo DEF FileInv

\* A computer frees what has one name, and takes that name away.
LEMMA CardDeletes ==
    ASSUME TypeInv, TypeInv', CardInv, ComputerDeletes
    PROVE  CardInv'
  <1>1. PICK chain \in Chains, name \in {"books", "scratch", "parked"} \X
                                      (Aliases \cup ScratchNames \cup ParkedNames) :
         /\ Names(chain) = {name}
         /\ holds' = [holds EXCEPT ![chain] = Free]
         /\ IF name[1] = "books"
            THEN books' = [books EXCEPT ![name[2]] = None] /\ UNCHANGED <<scratch, parked>>
            ELSE SetFile(name, None) /\ UNCHANGED books
    BY DEF ComputerDeletes
  <1>2. journal' = journal /\ reclaim' = reclaim
    BY DEF ComputerDeletes
  <1>3. \A c : c # chain => holds'[c] = holds[c]
    BY <1>1 DEF TypeInv, TypeOK
  <1>4. /\ \A a \in Aliases : books'[a] = books[a] \/ books'[a] = None
        /\ \A s \in ScratchNames : scratch'[s] = scratch[s] \/ scratch'[s] = None
        /\ \A p \in ParkedNames : parked'[p] = parked[p] \/ parked'[p] = None
    BY <1>1 DEF TypeInv, TypeOK, SetFile
  <1>5. Listed' \subseteq Listed /\ \A a \in Listed' : books'[a] = books[a]
    BY <1>4 DEF Listed
  <1>6. \A a \in Listed' : books[a].chain # chain
    <2> SUFFICES ASSUME NEW a \in Listed', books[a].chain = chain PROVE FALSE
      OBVIOUS
    <2>1. <<"books", a>> \in Names(chain)
      BY <1>5 DEF Names
    <2>2. name = <<"books", a>>
      BY <1>1, <2>1
    <2> QED
      BY <1>1, <2>2 DEF Listed, TypeInv, TypeOK
  <1>7. \A s \in ScratchNames : scratch'[s] # None => scratch[s].chain # chain
    <2> SUFFICES ASSUME NEW s \in ScratchNames, scratch'[s] # None, scratch[s].chain = chain
                 PROVE  FALSE
      OBVIOUS
    <2>1. <<"scratch", s>> \in Names(chain)
      BY <1>4 DEF Names, Leftovers, FileOf
    <2>2. name = <<"scratch", s>>
      BY <1>1, <2>1
    <2> QED
      BY <1>1, <2>2 DEF SetFile, TypeInv, TypeOK
  <1>8. \A p \in ParkedNames : parked'[p] # None => parked[p].chain # chain
    <2> SUFFICES ASSUME NEW p \in ParkedNames, parked'[p] # None, parked[p].chain = chain
                 PROVE  FALSE
      OBVIOUS
    <2>1. <<"parked", p>> \in Names(chain)
      BY <1>4 DEF Names, Leftovers, FileOf
    <2>2. name = <<"parked", p>>
      BY <1>1, <2>1
    <2> QED
      BY <1>1, <2>2 DEF SetFile, TypeInv, TypeOK
  <1>9. ASSUME Valid'
        PROVE  /\ StageStands' => journal.stage.chain # chain
               /\ ParkedStands' => parked[journal.rollback].chain # chain
    <2>1. Valid
      BY <1>2, <1>9 DEF Valid
    <2>2. StageStands' => journal.stage.chain = scratch[journal.stage.alias].chain
      BY <1>2, <1>4, <2>1, RecordMeans DEF StageStands, Is
    <2> QED
      BY <1>2, <1>7, <1>8, <2>1, <2>2, RecordMeans DEF StageStands, ParkedStands
  <1> QED
    BY <1>2, <1>3, <1>4, <1>5, <1>6, <1>9, NamesGo

\* A computer's file takes a chain that nothing on record is on.
LEMMA CardCopies ==
    ASSUME TypeInv, TypeInv', CardInv, ComputerCopies
    PROVE  CardInv'
  <1>1. PICK chain \in Chains, c \in Strangers :
         /\ holds[chain] = Free
         /\ holds' = [holds EXCEPT ![chain] = c]
         /\ \/ \E n \in LongNames, a \in Aliases \ Listed :
                 /\ Holders(n) = {}
                 /\ books' = [books EXCEPT ![a] = Book(n, FALSE, File(chain, c))]
                 /\ UNCHANGED <<scratch, parked>>
            \/ \E s \in ScratchNames :
                 scratch[s] = None /\ SetFile(<<"scratch", s>>, File(chain, c)) /\ UNCHANGED books
            \/ \E p \in ParkedNames :
                 parked[p] = None /\ SetFile(<<"parked", p>>, File(chain, c)) /\ UNCHANGED books
    BY DEF ComputerCopies
  <1>2. journal' = journal /\ reclaim' = reclaim /\ reclaim = None
    BY DEF ComputerCopies
  <1> DEFINE file == File(chain, c)
  <1>3. file.chain = chain /\ file.is = c
    BY DEF File
  <1>4. holds'[chain] = c /\ \A d : d # chain => holds'[d] = holds[d]
    BY <1>1 DEF TypeInv, TypeOK
  <1>5. /\ \A a \in Listed : books[a].chain # chain
        /\ Valid /\ StageStands => journal.stage.chain # chain
        /\ Valid /\ ParkedStands => parked[journal.rollback].chain # chain
    BY <1>1, FreeIsUnlisted
  <1>6. ReclaimKept'
    BY <1>2 DEF ReclaimKept
  <1> HIDE DEF file
  <1>7. CASE \E n \in LongNames, a \in Aliases \ Listed :
                 /\ books' = [books EXCEPT ![a] = Book(n, FALSE, file)]
                 /\ UNCHANGED <<scratch, parked>>
    <2>1. PICK n \in LongNames, a \in Aliases \ Listed :
                 /\ books' = [books EXCEPT ![a] = Book(n, FALSE, file)]
                 /\ UNCHANGED <<scratch, parked>>
      BY <1>7
    <2>2. /\ books'[a].chain = chain /\ books'[a].is = c
          /\ \A b \in Aliases : b # a => books'[b] = books[b]
      BY <1>3, <2>1 DEF TypeInv, TypeOK, Book
    <2>3. \A b \in Listed' : b # a => b \in Listed /\ books'[b] = books[b]
      BY <2>2 DEF Listed
    <2>4. ListedReadable'
      BY <1>4, <1>5, <2>2, <2>3 DEF CardInv, ListedReadable
    <2>5. Apart'
      BY <1>5, <2>2, <2>3 DEF CardInv, Apart
    <2>6. /\ Valid' => Valid
          /\ StageStands' => StageStands
          /\ ParkedStands' => ParkedStands
      BY <1>2, <2>1 DEF Valid, StageStands, ParkedStands, ParkedIsOld
    <2>7. \A b \in Listed' : b # a /\ b \in Holders(journal.name) => b \in Holders(journal.name)'
      BY <1>2, <2>3 DEF Holders, Listed
    <2>8. StageKept'
      BY <1>2, <1>4, <1>5, <2>1, <2>2, <2>3, <2>6, <2>7 DEF CardInv, StageKept
    <2>9. OldKept'
      <3> SUFFICES ASSUME Valid', ParkedStands' PROVE OldKept'
        BY DEF OldKept
      <3>1. Valid /\ ParkedStands /\ parked' = parked
        BY <2>1, <2>6
      <3>2. holds'[parked[journal.rollback].chain] = parked[journal.rollback].is
        BY <1>4, <1>5, <3>1 DEF CardInv, OldKept
      <3>3. ASSUME NEW b \in Listed', books'[b].chain = parked[journal.rollback].chain
            PROVE  \/ b \in Holders(journal.name)' /\ Body(books'[b]) = parked[journal.rollback]
                   \/ b = journal.old.alias /\ Is(journal.old, Body(books'[b]))
        <4>1. b # a
          BY <1>5, <2>2, <3>1, <3>3
        <4>2. b \in Listed /\ books'[b] = books[b]
          BY <2>3, <3>3, <4>1
        <4> QED
          BY <2>7, <3>1, <3>3, <4>1, <4>2 DEF CardInv, OldKept
      <3> QED
        BY <1>2, <3>1, <3>2, <3>3 DEF OldKept, Body, Is
    <2> QED
      BY <1>6, <2>4, <2>5, <2>8, <2>9 DEF CardInv
  <1>8. CASE books' = books
    <2>1. Listed' = Listed
      BY <1>8 DEF Listed
    <2>2. ListedReadable' /\ Apart'
      BY <1>4, <1>5, <1>8, <2>1 DEF CardInv, ListedReadable, Apart
    <2>3. /\ \A s \in ScratchNames : scratch'[s] = scratch[s] \/ scratch'[s] = file
          /\ \A p \in ParkedNames : parked'[p] = parked[p] \/ parked'[p] = file
      <3>1. CASE \E s \in ScratchNames : SetFile(<<"scratch", s>>, file)
        BY <3>1 DEF SetFile, TypeInv, TypeOK
      <3>2. CASE \E p \in ParkedNames : SetFile(<<"parked", p>>, file)
        BY <3>2 DEF SetFile, TypeInv, TypeOK
      <3>3. CASE UNCHANGED <<scratch, parked>>
        BY <3>3
      <3> QED
        BY <1>1, <3>1, <3>2, <3>3 DEF file
    <2>4. StageKept'
      <3> SUFFICES ASSUME Valid', StageStands' PROVE StageKept'
        BY DEF StageKept
      <3>1. Valid /\ journal.stage.alias \in ScratchNames
        BY <1>2, RecordMeans DEF Valid
      <3>2. CASE scratch'[journal.stage.alias] = scratch[journal.stage.alias]
        <4>1. StageStands
          BY <1>2, <3>2 DEF StageStands
        <4> QED
          BY <1>2, <1>4, <1>5, <1>8, <2>1, <3>1, <3>2, <4>1 DEF CardInv, StageKept, Holders
      <3>3. CASE scratch'[journal.stage.alias] = file
        <4>1. journal.stage.chain = chain
          BY <1>2, <1>3, <3>3 DEF StageStands, Is
        <4> QED
          BY <1>2, <1>3, <1>4, <1>5, <1>8, <2>1, <3>3, <4>1 DEF StageKept
      <3> QED
        BY <2>3, <3>1, <3>2, <3>3
    <2>5. OldKept'
      <3> SUFFICES ASSUME Valid', ParkedStands' PROVE OldKept'
        BY DEF OldKept
      <3>1. Valid /\ journal.rollback \in ParkedNames
        BY <1>2, RecordMeans DEF Valid
      <3>2. CASE parked'[journal.rollback] = parked[journal.rollback]
        <4>1. ParkedStands
          BY <1>2, <3>2 DEF ParkedStands, ParkedIsOld
        <4> QED
          BY <1>2, <1>4, <1>5, <1>8, <2>1, <3>1, <3>2, <4>1 DEF CardInv, OldKept, Holders
      <3>3. CASE parked'[journal.rollback] = file
        BY <1>2, <1>3, <1>4, <1>5, <1>8, <2>1, <3>3 DEF OldKept
      <3> QED
        BY <2>3, <3>1, <3>2, <3>3
    <2> QED
      BY <1>6, <2>2, <2>4, <2>5 DEF CardInv
  <1> QED
    BY <1>1, <1>7, <1>8 DEF file

-----------------------------------------------------------------------------
LEMMA UploadStep == FileInv /\ [Next \/ Earlier \/ Elsewhere]_vars => UploadKept'
  <1> SUFFICES ASSUME FileInv, [Next \/ Earlier \/ Elsewhere]_vars, pc' \in Staging \ {"stage"}
               PROVE  UploadKept'
    BY DEF UploadKept
  <1> DEFINE s == ScratchOf[upload.name]
  <1>1. TypeInv' /\ TypeInv
    BY TypeStep DEF FileInv
  <1>2. /\ pc \in Places
        /\ pc \in {"discard", "remove"} => resume \in {"sweep", "stage", "session"}
        /\ pc \in {"unlink"} => step \in Moves
    BY <1>1 DEF TypeInv, Control, VictimInHand
  <1>3. \/ CreateScratch \/ CloseScratch \/ BeginReplace \/ EarlierOwesNothing
        \/ UNCHANGED vars
    <2> USE DEF Staging
    <2>1. CASE Pass
      <3>1. CASE \/ ReclaimUnlink \/ ReclaimFree \/ ReclaimSettled \/ ReadIntent
                 \/ RetireOldHolder \/ UnlinkOldHolder \/ InstallStage \/ UnlinkStage
                 \/ ReclaimRollback \/ RestoreOldHolder \/ UnlinkRollbackCopy \/ UnlinkSource
        BY <3>1 DEF ReclaimUnlink, ReclaimFree, ReclaimSettled, ReadIntent, RetireOldHolder,
                    UnlinkOldHolder, InstallStage, UnlinkStage, ReclaimRollback,
                    RestoreOldHolder, UnlinkRollbackCopy, UnlinkSource, Planned, Apply
      <3>2. CASE \/ StopBlocked \/ PlanDone \/ ClearIntent
                 \/ SweepNext \/ SweepEnd \/ DiscardShared \/ DiscardTruncate \/ RemoveTruncated
                 \/ PassDone \/ PassStopped \/ PublishCatalog
        BY <1>2, <3>2
           DEF StopBlocked, PlanDone, ClearIntent, SweepNext, SweepEnd, DiscardShared,
               DiscardTruncate, RemoveTruncated, PassDone, PassStopped, PublishCatalog
      <3> QED
        BY <2>1, <3>1, <3>2 DEF Pass
    <2>2. CASE BootFromCatalog \/ Scan \/ StartSession \/ Retry
      BY <2>2 DEF BootFromCatalog, Scan, StartSession, Retry, BeginPass
    <2>3. CASE Uploading
      BY <2>3 DEF Uploading, BeginUpload, StageUpload, Abandon, WriteIntent
    <2>4. CASE (\E a \in Aliases : DeleteBook(a)) \/ Fail \/ Crash
      BY <2>4 DEF DeleteBook, Fail, StopsPass, LeavesLeftover, FailsCommand, FailsScan, Crash
    <2>5. CASE Earlier
      BY <2>5 DEF Earlier, EarlierBegin, StageUpload, EarlierRetire, Apply
    <2>6. CASE Elsewhere
      BY <2>6 DEF Elsewhere, ComputerDeletes, ComputerCopies, ComputerLosesRecord, LaterRecord
    <2> QED
      BY <2>1, <2>2, <2>3, <2>4, <2>5, <2>6 DEF Next
  <1>4. CASE CreateScratch
    <2>1. PICK chain \in Chains :
             /\ holds[chain] = Free
             /\ holds' = [holds EXCEPT ![chain] = Junk]
             /\ scratch' = [scratch EXCEPT ![s] = File(chain, Junk)]
      BY <1>4 DEF CreateScratch
    <2>2. Uploaded /\ s \in ScratchNames /\ upload' = upload /\ pc' = "stream" /\ books' = books
      BY <1>1, <1>4, ScratchAssumption
      DEF CreateScratch, memory, TypeInv, UploadInHand, Staging, Uploaded
    <2>3. scratch'[s].chain = chain
      <3> HIDE DEF s
      <3> QED
        BY <1>1, <2>1, <2>2 DEF TypeInv, TypeOK, File
    <2>4. \A a \in Listed : books[a].chain # chain
      BY <2>1, FreeIsUnlisted DEF FileInv
    <2> QED
      BY <2>2, <2>3, <2>4 DEF UploadKept, ShelfHoldsChain, Listed
  <1>5. CASE CloseScratch
    <2>1. /\ Uploaded /\ s \in ScratchNames /\ upload' = upload /\ pc' = "owe" /\ books' = books
          /\ scratch[s] \in Files /\ pc = "stream"
      BY <1>1, <1>5, ScratchAssumption
      DEF CloseScratch, memory, TypeInv, UploadInHand, Staging, Uploaded
    <2>2. /\ scratch' = [scratch EXCEPT ![s].is = upload.is]
          /\ holds' = [holds EXCEPT ![scratch[s].chain] = upload.is]
          /\ scratch \in [ScratchNames -> Files \cup {None}]
          /\ holds \in [Chains -> Held \cup {Free}]
      BY <1>5 DEF CloseScratch, FileInv, TypeInv, TypeOK
    <2>3. ~ShelfHoldsChain(scratch[s].chain)
      BY <2>1 DEF FileInv, UploadKept, Staging
    <2> HIDE DEF s
    <2>4. scratch'[s].chain = scratch[s].chain /\ scratch'[s].is = upload.is
      BY <2>1, <2>2 DEF Files
    <2>5. holds'[scratch[s].chain] = upload.is
      BY <2>1, <2>2 DEF Files
    <2> QED
      BY <2>1, <2>3, <2>4, <2>5 DEF UploadKept, ShelfHoldsChain, Listed, s
  <1>6. CASE BeginReplace \/ EarlierOwesNothing
    <2>1. /\ scratch' = scratch /\ holds' = holds /\ books' = books /\ upload' = upload
          /\ pc = "owe" /\ pc' = "record"
      BY <1>6 DEF BeginReplace, EarlierOwesNothing, card, files, memory
    <2> QED
      BY <2>1 DEF FileInv, UploadKept, ShelfHoldsChain, Listed, Staging
  <1>7. CASE UNCHANGED vars
    BY <1>7 DEF FileInv, UploadKept, ShelfHoldsChain, Listed, vars, card, memory
  <1> QED
    BY <1>3, <1>4, <1>5, <1>6, <1>7

LEMMA VictimStep == FileInv /\ [Next \/ Earlier \/ Elsewhere]_vars => VictimKept'
  <1> SUFFICES ASSUME FileInv, [Next \/ Earlier \/ Elsewhere]_vars, pc' = "remove"
               PROVE  VictimKept'
    BY DEF VictimKept
  <1>1. TypeInv' /\ TypeInv
    BY TypeStep DEF FileInv
  <1>2. /\ pc \in Places
        /\ pc \in {"discard", "remove"} => resume \in {"sweep", "stage", "session"}
    BY <1>1 DEF TypeInv, Control, VictimInHand
  <1>3. DiscardTruncate \/ Abandon \/ UNCHANGED vars
    <2>1. CASE Pass
      <3>1. CASE \/ ReclaimUnlink \/ ReclaimFree \/ ReclaimSettled \/ ReadIntent
                 \/ RetireOldHolder \/ UnlinkOldHolder \/ InstallStage \/ UnlinkStage
                 \/ ReclaimRollback \/ RestoreOldHolder \/ UnlinkRollbackCopy \/ UnlinkSource
        BY <3>1 DEF ReclaimUnlink, ReclaimFree, ReclaimSettled, ReadIntent, RetireOldHolder,
                    UnlinkOldHolder, InstallStage, UnlinkStage, ReclaimRollback,
                    RestoreOldHolder, UnlinkRollbackCopy, UnlinkSource, Planned, Apply
      <3>2. CASE \/ StopBlocked \/ PlanDone \/ ClearIntent
                 \/ SweepNext \/ SweepEnd \/ DiscardShared \/ DiscardTruncate \/ RemoveTruncated
                 \/ PassDone \/ PassStopped \/ PublishCatalog
        BY <1>2, <3>2
           DEF StopBlocked, PlanDone, ClearIntent, SweepNext, SweepEnd, DiscardShared,
               DiscardTruncate, RemoveTruncated, PassDone, PassStopped, PublishCatalog
      <3> QED
        BY <2>1, <3>1, <3>2 DEF Pass
    <2>2. CASE BootFromCatalog \/ Scan \/ StartSession \/ Retry
      BY <2>2 DEF BootFromCatalog, Scan, StartSession, Retry, BeginPass
    <2>3. CASE Uploading
      BY <2>3 DEF Uploading, BeginUpload, StageUpload, CreateScratch, CloseScratch,
                  BeginReplace, WriteIntent
    <2>4. CASE (\E a \in Aliases : DeleteBook(a)) \/ Fail \/ Crash
      BY <2>4 DEF DeleteBook, Fail, StopsPass, LeavesLeftover, FailsCommand, FailsScan, Crash
    <2>5. CASE Earlier
      BY <2>5 DEF Earlier, EarlierBegin, StageUpload, EarlierOwesNothing, EarlierRetire, Apply
    <2>6. CASE Elsewhere
      BY <2>6 DEF Elsewhere, ComputerDeletes, ComputerCopies, ComputerLosesRecord, LaterRecord
    <2> QED
      BY <2>1, <2>2, <2>3, <2>4, <2>5, <2>6 DEF Next
  <1>4. CASE DiscardTruncate
    <2> DEFINE chain == FileOf(victim).chain
    <2>1. /\ books' = books /\ victim' = victim /\ victim \in LeftoverNames
          /\ ~ShelfHoldsChain(chain) /\ SetFile(victim, File(chain, Junk))
      BY <1>1, <1>4 DEF DiscardTruncate, memory, TypeInv, VictimInHand
    <2>2. (IF victim[1] = "scratch" THEN scratch'[victim[2]] ELSE parked'[victim[2]]).chain = chain
      <3> HIDE DEF chain
      <3>1. CASE \E s \in ScratchNames : victim = <<"scratch", s>>
        BY <1>1, <2>1, <3>1 DEF SetFile, TypeInv, TypeOK, File
      <3>2. CASE \E p \in ParkedNames : victim = <<"parked", p>>
        BY <1>1, <2>1, <3>2 DEF SetFile, TypeInv, TypeOK, File
      <3> QED
        BY <2>1, <3>1, <3>2 DEF LeftoverNames
    <2>3. FileOf(victim)'.chain = chain
      BY <2>1, <2>2 DEF FileOf
    <2> HIDE DEF chain
    <2> QED
      BY <2>1, <2>3 DEF VictimKept, ShelfHoldsChain, Listed
  <1>5. CASE Abandon
    <2> DEFINE s == ScratchOf[upload.name]
    <2>1. /\ books' = books /\ scratch' = scratch /\ victim' = <<"scratch", s>>
          /\ ~ShelfHoldsChain(scratch[s].chain)
      BY <1>5 DEF Abandon, card, FileInv, UploadKept, Staging
    <2> HIDE DEF s
    <2> QED
      BY <2>1 DEF VictimKept, FileOf, ShelfHoldsChain, Listed
  <1>6. CASE UNCHANGED vars
    BY <1>6 DEF FileInv, VictimKept, FileOf, ShelfHoldsChain, Listed, vars, card, memory
  <1> QED
    BY <1>3, <1>4, <1>5, <1>6

LEMMA CardStep == FileInv /\ [Next \/ Earlier \/ Elsewhere]_vars => CardInv'
  <1> SUFFICES ASSUME FileInv, [Next \/ Earlier \/ Elsewhere]_vars PROVE CardInv'
    OBVIOUS
  <1>1. TypeInv' /\ TypeInv /\ CardInv
    BY TypeStep DEF FileInv
  <1>2. CASE Pass
    BY <1>1, <1>2, CardQuiet, CardReclaim, CardRetire, CardUnlink, CardLands, CardDiscard DEF Pass
  <1>3. CASE BootFromCatalog \/ Scan \/ StartSession \/ Retry
    BY <1>1, <1>3, CardQuiet
  <1>4. CASE Uploading
    BY <1>1, <1>4, CardQuiet, CardUpload, CardIntent DEF Uploading, BeginUpload
  <1>5. CASE \E a \in Aliases : DeleteBook(a)
    BY <1>1, <1>5, CardReclaim
  <1>6. CASE Fail \/ Crash
    BY <1>1, <1>6, CardQuiet, CardIntent DEF Fail
  <1>7. CASE Earlier
    <2>1. CASE EarlierBegin
      BY <1>1, <2>1, CardQuiet DEF EarlierBegin
    <2> QED
      BY <1>1, <1>7, <2>1, CardQuiet, CardRetire DEF Earlier
  <1>8. CASE Elsewhere
    BY <1>1, <1>8, CardDeletes, CardCopies, CardQuiet DEF Elsewhere
  <1>9. CASE UNCHANGED vars
    BY <1>1, <1>9, CardKept DEF vars, card, files
  <1> QED
    BY <1>2, <1>3, <1>4, <1>5, <1>6, <1>7, <1>8, <1>9 DEF Next

LEMMA FileStep == FileInv /\ [Next \/ Earlier \/ Elsewhere]_vars => FileInv'
  BY TypeStep, CardStep, UploadStep, VictimStep DEF FileInv

\* Whatever was interrupted, refused or changed elsewhere, a name on the shelf
\* leads to the whole of the file it was given.
THEOREM ShelfStaysReadable == AnySpec => []ListedReadable
  <1>1. FileInv => ListedReadable
    BY DEF FileInv, CardInv
  <1> QED
    BY <1>1, FileInit, FileStep, PTL DEF AnySpec

-----------------------------------------------------------------------------
(***************************************************************************)
(* Files somebody else put on the shelf                                    *)
(***************************************************************************)
\* The upload and the book it replaces are two files, and the upload is as
\* long as a book of this device's.
RecordApart ==
    Valid => /\ journal.old # None => journal.old.chain # journal.stage.chain
             /\ \E b \in Books : journal.stage.size = SizeOf[b]

\* While the upload can still land, the predecessor is on the shelf only where
\* the record says it was.
Unmoved ==
    Valid /\ journal.name \in Installable /\ StageStands /\ ParkedStands /\ Restored => Standing

\* A retirement under way takes the predecessor's own entry away.
MoveStands == pc = "unlink" /\ step = "RetireOldHolder" => Standing

StrangerInv == FileInv /\ RecordApart /\ Unmoved /\ MoveStands

LEMMA OneEntryOnOld ==
    ASSUME TypeInv, CardInv, Valid, ParkedStands, NEW a \in Listed,
           Body(books[a]) = parked[journal.rollback]
    PROVE  \A b \in Listed : books[b].chain = journal.old.chain => b = a
  <1>1. books[a] \in Entries /\ parked[journal.rollback] \in Files
    BY RecordMeans DEF TypeInv, TypeOK, Listed
  <1>2. books[a].chain = parked[journal.rollback].chain
    BY <1>1, BookAndBody
  <1>3. parked[journal.rollback].chain = journal.old.chain
    BY DEF ParkedStands, ParkedIsOld, Is
  <1> QED
    BY <1>2, <1>3 DEF CardInv, Apart

\* Names going away move nothing.
LEMMA UnmovedGo ==
    ASSUME TypeInv, TypeInv', CardInv, Unmoved,
           Valid' =>
             /\ journal' = journal
             /\ \A a \in Listed' : a \in Listed /\ books'[a] = books[a]
             /\ \A s \in ScratchNames : scratch'[s] = scratch[s] \/ scratch'[s] = None
             /\ \A p \in ParkedNames : parked'[p] = parked[p] \/ parked'[p] = None
    PROVE  Unmoved'
  <1> SUFFICES ASSUME Valid', (journal.name \in Installable)', StageStands', ParkedStands', Restored'
               PROVE  Standing'
    BY DEF Unmoved
  <1>1. Valid /\ journal' = journal
    BY DEF Valid
  <1>2. /\ StageStands /\ ParkedStands /\ parked'[journal.rollback] = parked[journal.rollback]
        /\ journal.name \in Installable /\ journal.old # None
    BY <1>1, RecordMeans DEF StageStands, ParkedStands, ParkedIsOld
  <1>3. PICK a \in Holders(journal.name)' : Body(books'[a]) = parked[journal.rollback]
    BY <1>1, <1>2 DEF Restored
  <1>4. /\ a \in Listed' /\ a \in Listed /\ books'[a] = books[a]
        /\ a \in Holders(journal.name)
    BY <1>1 DEF Holders, Listed
  <1>5. Restored
    BY <1>2, <1>3, <1>4 DEF Restored, ParkedStands
  <1>6. Standing
    BY <1>1, <1>2, <1>5 DEF Unmoved
  <1>7. journal.old.alias \in Listed /\ books[journal.old.alias].chain = journal.old.chain
    BY <1>1, <1>6, RecordMeans, BookAndBody DEF Standing, Is, Listed
  <1>8. journal.old.alias = a
    BY <1>1, <1>2, <1>3, <1>4, <1>7, OneEntryOnOld
  <1> QED
    BY <1>1, <1>4, <1>6, <1>8 DEF Standing, Is, Listed

\* The record changes by being written, or by ceasing to be one.
LEMMA RecordSteps ==
    ASSUME TypeInv, [Next \/ Earlier \/ Elsewhere]_vars
    PROVE  \/ journal' = journal
           \/ ~Valid'
           \/ /\ pc = "record" /\ ParkedNameFree /\ journal' = Intent
              /\ UNCHANGED files
  <1> USE DEF card, files, memory
  <1>1. CASE Pass
    <2>1. CASE \/ ReclaimUnlink \/ ReclaimFree \/ ReclaimSettled \/ ReadIntent
               \/ RetireOldHolder \/ UnlinkOldHolder \/ InstallStage \/ UnlinkStage
               \/ ReclaimRollback \/ RestoreOldHolder \/ UnlinkRollbackCopy \/ UnlinkSource
      BY <2>1 DEF ReclaimUnlink, ReclaimFree, ReclaimSettled, ReadIntent, RetireOldHolder,
                  UnlinkOldHolder, InstallStage, UnlinkStage, ReclaimRollback,
                  RestoreOldHolder, UnlinkRollbackCopy, UnlinkSource, Apply
    <2>2. CASE \/ StopBlocked \/ PlanDone
               \/ SweepNext \/ SweepEnd \/ DiscardShared \/ DiscardTruncate \/ RemoveTruncated
               \/ PassDone \/ PassStopped \/ PublishCatalog
      BY <2>2
         DEF StopBlocked, PlanDone, SweepNext, SweepEnd, DiscardShared,
             DiscardTruncate, RemoveTruncated, PassDone, PassStopped, PublishCatalog
    <2>3. CASE ClearIntent
      BY <2>3, RecordOrNone DEF ClearIntent, Valid
    <2> QED
      BY <1>1, <2>1, <2>2, <2>3 DEF Pass
  <1>2. CASE BootFromCatalog \/ Scan \/ StartSession \/ Retry
    BY <1>2 DEF BootFromCatalog, Scan, StartSession, Retry
  <1>3. CASE Uploading
    BY <1>3 DEF Uploading, BeginUpload, StageUpload, CreateScratch, Abandon, CloseScratch,
                BeginReplace, WriteIntent
  <1>4. CASE (\E a \in Aliases : DeleteBook(a)) \/ StopsPass \/ LeavesLeftover \/ FailsScan
    BY <1>4 DEF DeleteBook, StopsPass, LeavesLeftover, FailsScan
  <1>5. CASE FailsCommand
    <2>1. \/ journal' = journal \/ journal' = Truncated
          \/ pc = "record" /\ ParkedNameFree /\ journal' = Intent /\ UNCHANGED files
      BY <1>5 DEF FailsCommand
    <2> QED
      BY <2>1, RecordOrNone DEF Valid
  <1>6. CASE Crash
    <2>1. journal' = journal \/ journal' = Truncated
      BY <1>6 DEF Crash
    <2> QED
      BY <2>1, RecordOrNone DEF Valid
  <1>7. CASE Earlier
    BY <1>7 DEF Earlier, EarlierBegin, StageUpload, EarlierOwesNothing, EarlierRetire, Apply
  <1>8. CASE Elsewhere
    <2>1. \/ journal' = journal \/ journal' = Absent \/ journal' = Unrecognized
      BY <1>8 DEF Elsewhere, ComputerDeletes, ComputerCopies, ComputerLosesRecord, LaterRecord
    <2> QED
      BY <2>1, RecordOrNone DEF Valid
  <1>9. CASE UNCHANGED vars
    BY <1>9 DEF vars
  <1> QED
    BY <1>1, <1>2, <1>3, <1>4, <1>5, <1>6, <1>7, <1>8, <1>9 DEF Next, Fail

LEMMA PredecessorIsListed ==
    ASSUME NEW n, Predecessor(n) # None
    PROVE  \E a \in Listed : Predecessor(n) = Located(a, Body(books[a]))
  <1> DEFINE found == IF Holders(n) # {} THEN Holders(n) ELSE Legacies(n)
  <1>1. found # {} /\ found \subseteq Listed
    BY DEF Predecessor, Holders, Legacies, Listed
  <1>2. Predecessor(n) = LET a == CHOOSE a \in found : TRUE IN Located(a, Body(books[a]))
    BY <1>1 DEF Predecessor
  <1> HIDE DEF found
  <1> QED
    BY <1>1, <1>2

LEMMA ApartStep ==
    ASSUME FileInv, RecordApart, [Next \/ Earlier \/ Elsewhere]_vars
    PROVE  RecordApart'
  <1>1. CASE journal' = journal \/ ~Valid'
    BY <1>1 DEF RecordApart, Valid
  <1>2. CASE pc = "record" /\ ParkedNameFree /\ journal' = Intent
    <2> DEFINE s == ScratchOf[upload.name]
               new == Intent
               old == Predecessor(upload.name)
    <2>1. /\ new.stage = Located(s, scratch[s]) /\ new.old = old
      BY <1>2, IntentMeans DEF FileInv, Intent, Record
    <2>2. /\ ~ShelfHoldsChain(scratch[s].chain)
          /\ scratch[s].is = upload.is /\ upload.is \in Books
      BY <1>2 DEF FileInv, UploadKept, TypeInv, UploadInHand, Uploaded, Staging
    <2>3. old # None => \E a \in Listed : old.chain = books[a].chain
      <3> SUFFICES ASSUME old # None PROVE \E a \in Listed : old.chain = books[a].chain
        OBVIOUS
      <3>1. PICK a \in Listed : old = Located(a, Body(books[a]))
        BY PredecessorIsListed
      <3> QED
        BY <3>1 DEF Located, Body, File
    <2>4. old # None => old.chain # scratch[s].chain
      BY <2>2, <2>3 DEF ShelfHoldsChain
    <2>5. Size(scratch[s].is) = SizeOf[upload.is]
      BY <2>2, ContentAssumption DEF Size, Junk
    <2>6. new.stage.chain = scratch[s].chain /\ new.stage.size = SizeOf[upload.is]
      BY <2>1, <2>5 DEF Located
    <2>7. journal' = new
      BY <1>2
    <2> HIDE DEF s, new, old
    <2> QED
      BY <2>1, <2>2, <2>4, <2>6, <2>7 DEF RecordApart
  <1> QED
    BY <1>1, <1>2, RecordSteps DEF FileInv

\* A move begins where a file is given its second name.
LEMMA IntoMove ==
    ASSUME TypeInv, [Next \/ Earlier \/ Elsewhere]_vars, pc' = "unlink"
    PROVE  \/ RetireOldHolder \/ EarlierRetire \/ InstallStage \/ RestoreOldHolder
           \/ UNCHANGED vars
  <1>1. pc \in {"discard", "remove"} => resume \in {"sweep", "stage", "session"}
    BY DEF TypeInv, VictimInHand
  <1>2. CASE Pass
    <2>1. CASE \/ ReclaimUnlink \/ ReclaimFree \/ ReadIntent
               \/ RetireOldHolder \/ UnlinkOldHolder \/ InstallStage \/ UnlinkStage
               \/ ReclaimRollback \/ RestoreOldHolder \/ UnlinkRollbackCopy \/ UnlinkSource
      BY <2>1 DEF ReclaimUnlink, ReclaimFree, ReadIntent, UnlinkOldHolder, UnlinkStage,
                  ReclaimRollback, UnlinkRollbackCopy, UnlinkSource, Planned, Apply
    <2>2. CASE \/ ReclaimSettled \/ StopBlocked \/ PlanDone \/ ClearIntent
               \/ SweepNext \/ SweepEnd \/ DiscardShared \/ DiscardTruncate \/ RemoveTruncated
               \/ PassDone \/ PassStopped \/ PublishCatalog
      BY <1>1, <2>2
         DEF ReclaimSettled, StopBlocked, PlanDone, ClearIntent, SweepNext, SweepEnd,
             DiscardShared, DiscardTruncate, RemoveTruncated, PassDone, PassStopped,
             PublishCatalog
    <2> QED
      BY <1>2, <2>1, <2>2 DEF Pass
  <1>3. CASE BootFromCatalog \/ Scan \/ StartSession \/ Retry
    BY <1>3 DEF BootFromCatalog, Scan, StartSession, Retry, BeginPass
  <1>4. CASE Uploading
    BY <1>4 DEF Uploading, BeginUpload, StageUpload, CreateScratch, Abandon, CloseScratch,
                BeginReplace, WriteIntent
  <1>5. CASE (\E a \in Aliases : DeleteBook(a)) \/ Fail \/ Crash
    BY <1>5 DEF DeleteBook, Fail, StopsPass, LeavesLeftover, FailsCommand, FailsScan, Crash
  <1>6. CASE Earlier
    BY <1>6 DEF Earlier, EarlierBegin, StageUpload, EarlierOwesNothing
  <1>7. CASE Elsewhere
    BY <1>7 DEF Elsewhere, ComputerDeletes, ComputerCopies, ComputerLosesRecord, LaterRecord
  <1>8. CASE UNCHANGED vars
    BY <1>8
  <1> QED
    BY <1>2, <1>3, <1>4, <1>5, <1>6, <1>7, <1>8 DEF Next

LEMMA MoveStep ==
    ASSUME FileInv, MoveStands, [Next \/ Earlier \/ Elsewhere]_vars
    PROVE  MoveStands'
  <1> SUFFICES ASSUME pc' = "unlink", step' = "RetireOldHolder" PROVE Standing'
    BY DEF MoveStands
  <1>1. CASE RetireOldHolder \/ EarlierRetire
    <2>1. Standing /\ books' = books /\ journal' = journal
      BY <1>1, RetireStands DEF FileInv
    <2> QED
      BY <2>1 DEF Standing
  <1>2. CASE InstallStage \/ RestoreOldHolder
    BY <1>2 DEF InstallStage, RestoreOldHolder
  <1>3. CASE UNCHANGED vars
    BY <1>3 DEF MoveStands, Standing, vars, card, memory
  <1> QED
    BY <1>1, <1>2, <1>3, IntoMove DEF FileInv

\* While a record stands, names are only taken away, but where the predecessor
\* is parked, where one of the two files lands, and at a computer.
LEMMA NamesOnlyGo ==
    ASSUME TypeInv, Valid, journal' = journal, [Next \/ Earlier \/ Elsewhere]_vars
    PROVE  \/ /\ \A a \in Aliases : books'[a] = books[a] \/ books'[a] = None
              /\ \A s \in ScratchNames : scratch'[s] = scratch[s] \/ scratch'[s] = None
              /\ \A p \in ParkedNames : parked'[p] = parked[p] \/ parked'[p] = None
           \/ RetireOldHolder \/ EarlierRetire \/ InstallStage \/ RestoreOldHolder
           \/ ComputerCopies
  <1> DEFINE Gone ==
        /\ \A a \in Aliases : books'[a] = books[a] \/ books'[a] = None
        /\ \A s \in ScratchNames : scratch'[s] = scratch[s] \/ scratch'[s] = None
        /\ \A p \in ParkedNames : parked'[p] = parked[p] \/ parked'[p] = None
  <1>1. UNCHANGED <<books, scratch, parked>> => Gone
    OBVIOUS
  <1>2. pc \notin Staging \cup Sweeping \cup {"done"} /\ ~NoInstall
    BY RecordOrNone DEF TypeInv, Control
  <1>3. step \in Moves \/ pc # "unlink"
    BY DEF TypeInv, Control
  <1>4. /\ books \in [Aliases -> Entries \cup {None}]
        /\ scratch \in [ScratchNames -> Files \cup {None}]
        /\ parked \in [ParkedNames -> Files \cup {None}]
    BY DEF TypeInv, TypeOK
  <1>5. CASE \/ UnlinkOldHolder \/ UnlinkStage \/ UnlinkRollbackCopy \/ UnlinkSource
             \/ ReclaimUnlink
    <2>1. CASE UnlinkSource
      BY <1>3, <1>4, <2>1 DEF UnlinkSource, Moves
    <2>2. CASE ReclaimUnlink
      BY <1>4, <2>2 DEF ReclaimUnlink
    <2> QED
      BY <1>4, <1>5, <2>1, <2>2 DEF UnlinkOldHolder, UnlinkStage, UnlinkRollbackCopy
  <1>6. CASE \/ ReclaimFree \/ ReclaimSettled \/ ReadIntent \/ ReclaimRollback
             \/ StopBlocked \/ PlanDone \/ ClearIntent
             \/ PassStopped \/ PublishCatalog
             \/ BootFromCatalog \/ Scan \/ StartSession \/ Retry
             \/ (\E a \in Aliases : DeleteBook(a)) \/ Fail \/ Crash
             \/ ComputerLosesRecord \/ LaterRecord
    <2>1. UNCHANGED <<books, scratch, parked>>
      BY <1>6 DEF ReclaimFree, ReclaimSettled, ReadIntent, ReclaimRollback, StopBlocked,
                  PlanDone, ClearIntent, PassStopped, PublishCatalog, BootFromCatalog, Scan,
                  StartSession, Retry, DeleteBook, Fail, StopsPass, LeavesLeftover,
                  FailsCommand, FailsScan, Crash, ComputerLosesRecord, LaterRecord,
                  card, files
    <2> QED
      BY <1>1, <2>1
  <1>7. CASE ComputerDeletes
    <2>1. PICK name \in {"books", "scratch", "parked"} \X
                            (Aliases \cup ScratchNames \cup ParkedNames) :
            IF name[1] = "books"
            THEN books' = [books EXCEPT ![name[2]] = None] /\ UNCHANGED <<scratch, parked>>
            ELSE SetFile(name, None) /\ UNCHANGED books
      BY <1>7 DEF ComputerDeletes
    <2> QED
      BY <1>4, <2>1 DEF SetFile
  <1>8. CASE \/ SweepNext \/ SweepEnd \/ DiscardShared \/ DiscardTruncate \/ RemoveTruncated
             \/ PassDone \/ Uploading \/ EarlierBegin \/ EarlierOwesNothing
    BY <1>2, <1>8
    DEF SweepNext, SweepEnd, DiscardShared, DiscardTruncate, RemoveTruncated, PassDone,
        Uploading, BeginUpload, StageUpload, StorageSettled, CreateScratch, Abandon,
        CloseScratch, BeginReplace, WriteIntent, EarlierBegin, EarlierOwesNothing,
        Staging, Sweeping
  <1>9. CASE UNCHANGED vars
    BY <1>1, <1>9 DEF vars, card
  <1> QED
    BY <1>5, <1>6, <1>7, <1>8, <1>9 DEF Next, Pass, Earlier, Elsewhere

LEMMA UnmovedLands ==
    ASSUME StrangerInv, InstallStage \/ RestoreOldHolder
    PROVE  Unmoved'
  <1> SUFFICES ASSUME Valid', (journal.name \in Installable)', StageStands', ParkedStands', Restored'
               PROVE  FALSE
    BY DEF Unmoved
  <1>1. /\ Valid /\ UNCHANGED <<scratch, parked, journal>>
    BY DEF InstallStage, RestoreOldHolder, Planned, Apply, StrangerInv, FileInv, TypeInv, Control
  <1>2. StageStands /\ ParkedStands /\ journal.name \in Installable
    BY <1>1 DEF StageStands, ParkedStands, ParkedIsOld
  <1>3. CASE InstallStage
    <2> DEFINE file == scratch[journal.stage.alias]
               kept == parked[journal.rollback]
    <2>1. PICK a \in Aliases \ Listed : books' = [books EXCEPT ![a] = Book(journal.name, FALSE, file)]
      BY <1>3 DEF InstallStage
    <2>2. /\ file.chain = journal.stage.chain /\ kept.chain = journal.old.chain
          /\ journal.old # None /\ file \in Files
      BY <1>1, <1>2, RecordMeans
      DEF StageStands, ParkedStands, ParkedIsOld, Is, StrangerInv, FileInv
    <2>3. kept.chain # file.chain
      BY <1>1, <2>2 DEF StrangerInv, RecordApart
    <2>4. PICK b \in Holders(journal.name)' : Body(books'[b]) = kept
      BY <1>1 DEF Restored
    <2>5. /\ books \in [Aliases -> Entries \cup {None}] /\ Holders(journal.name) = {}
      BY <1>3 DEF InstallStage, StrangerInv, FileInv, TypeInv, TypeOK
    <2>6. b \in Aliases /\ (b # a => b \in Holders(journal.name))
      BY <1>1, <2>1, <2>4, <2>5 DEF Holders
    <2>7. books'[a] = Book(journal.name, FALSE, file)
      BY <2>1, <2>5
    <2>8. Body(Book(journal.name, FALSE, file)).chain = file.chain
      BY DEF Body, Book, File
    <2> HIDE DEF file, kept
    <2> QED
      BY <2>3, <2>4, <2>5, <2>6, <2>7, <2>8
  <1>4. CASE RestoreOldHolder
    BY <1>2, <1>4, PlanMeans DEF RestoreOldHolder, Planned, StageCounts
  <1> QED
    BY <1>3, <1>4

\* A file copied on takes a chain and a length that are not on record.
LEMMA UnmovedCopies ==
    ASSUME StrangerInv, TypeInv', ComputerCopies, \A x \in Strangers, b \in Books : SizeOf[x] # SizeOf[b]
    PROVE  Unmoved'
  <1> SUFFICES ASSUME Valid', (journal.name \in Installable)', StageStands', ParkedStands', Restored'
               PROVE  Standing'
    BY DEF Unmoved
  <1>1. PICK chain \in Chains, c \in Strangers :
         /\ holds[chain] = Free
         /\ \/ \E n \in LongNames, a \in Aliases \ Listed :
                 /\ books' = [books EXCEPT ![a] = Book(n, FALSE, File(chain, c))]
                 /\ UNCHANGED <<scratch, parked>>
            \/ \E s \in ScratchNames :
                 SetFile(<<"scratch", s>>, File(chain, c)) /\ UNCHANGED books
            \/ \E p \in ParkedNames :
                 SetFile(<<"parked", p>>, File(chain, c)) /\ UNCHANGED books
    BY DEF ComputerCopies
  <1>2. journal' = journal /\ Valid /\ journal.name \in Installable
    BY DEF ComputerCopies, Valid
  <1> DEFINE file == File(chain, c)
  <1>3. file.chain = chain /\ file.is = c
    BY DEF File
  <1> HIDE DEF file
  <1>4. /\ \A a \in Listed : books[a].chain # chain
        /\ ParkedStands => parked[journal.rollback].chain # chain
    BY <1>1, <1>2, FreeIsUnlisted DEF StrangerInv, FileInv
  <1>5. /\ books \in [Aliases -> Entries \cup {None}]
        /\ scratch \in [ScratchNames -> Files \cup {None}]
        /\ parked \in [ParkedNames -> Files \cup {None}]
    BY DEF StrangerInv, FileInv, TypeInv, TypeOK
  <1>6. /\ \A s \in ScratchNames : scratch'[s] = scratch[s] \/ scratch'[s] = file
        /\ \A p \in ParkedNames : parked'[p] = parked[p] \/ parked'[p] = file
        /\ \A a \in Aliases :
             books'[a] = books[a] \/ (a \notin Listed /\ books'[a].chain = chain)
        /\ books' = books \/ parked' = parked
    <2>1. CASE \E n \in LongNames, a \in Aliases \ Listed :
                 /\ books' = [books EXCEPT ![a] = Book(n, FALSE, file)]
                 /\ UNCHANGED <<scratch, parked>>
      <3>1. PICK n \in LongNames, a \in Aliases \ Listed :
                 /\ books' = [books EXCEPT ![a] = Book(n, FALSE, file)]
                 /\ UNCHANGED <<scratch, parked>>
        BY <2>1
      <3>2. Book(n, FALSE, file).chain = chain
        BY <1>3 DEF Book
      <3>3. /\ books'[a] = Book(n, FALSE, file)
            /\ \A b \in Aliases : b # a => books'[b] = books[b]
        BY <1>5, <3>1
      <3> QED
        BY <3>1, <3>2, <3>3
    <2>2. CASE \E s \in ScratchNames : SetFile(<<"scratch", s>>, file) /\ UNCHANGED books
      <3>1. PICK s \in ScratchNames :
               scratch' = [scratch EXCEPT ![s] = file] /\ parked' = parked /\ books' = books
        BY <2>2 DEF SetFile
      <3> QED
        BY <1>5, <3>1
    <2>3. CASE \E p \in ParkedNames : SetFile(<<"parked", p>>, file) /\ UNCHANGED books
      <3>1. PICK p \in ParkedNames :
               parked' = [parked EXCEPT ![p] = file] /\ scratch' = scratch /\ books' = books
        BY <2>3 DEF SetFile
      <3> QED
        BY <1>5, <3>1
    <2> QED
      BY <1>1, <2>1, <2>2, <2>3 DEF file
  <1>7. StageStands
    <2>1. scratch'[journal.stage.alias] # file
      <3>1. SizeOf[c] # journal.stage.size
        BY <1>2 DEF StrangerInv, RecordApart
      <3>2. Size(c) = SizeOf[c]
        BY ContentAssumption DEF Size, Junk
      <3>3. StageStands' => Size(scratch'[journal.stage.alias].is) = journal.stage.size
        BY <1>2 DEF StageStands, Is
      <3> QED
        BY <1>3, <3>1, <3>2, <3>3
    <2>2. journal.stage.alias \in ScratchNames
      BY <1>2, RecordMeans DEF StrangerInv, FileInv
    <2> QED
      BY <1>2, <1>6, <2>1, <2>2 DEF StageStands
  <1>8. PICK b \in Holders(journal.name)' : Body(books'[b]) = parked'[journal.rollback]
    BY <1>2 DEF Restored
  <1>9. /\ journal.rollback \in ParkedNames
        /\ journal.old # None => journal.old.alias \in Aliases
    BY <1>2, RecordMeans DEF StrangerInv, FileInv
  <1>10. b \in Aliases /\ books'[b] # None /\ books'[b].chain = parked'[journal.rollback].chain
    BY <1>8 DEF Holders, Body, File
  <1>11. parked'[journal.rollback] = parked[journal.rollback]
    BY <1>3, <1>4, <1>6, <1>9, <1>10 DEF Listed
  <1>12. ParkedStands
    BY <1>2, <1>11 DEF ParkedStands, ParkedIsOld
  <1>13. books'[b] = books[b]
    BY <1>4, <1>6, <1>10, <1>11, <1>12
  <1>14. b \in Holders(journal.name)
    BY <1>2, <1>8, <1>13 DEF Holders
  <1>15. Restored
    BY <1>8, <1>11, <1>12, <1>13, <1>14 DEF Restored, ParkedStands
  <1>16. Standing
    BY <1>2, <1>7, <1>12, <1>15 DEF StrangerInv, Unmoved
  <1>17. books'[journal.old.alias] = books[journal.old.alias]
    BY <1>6, <1>9, <1>16 DEF Standing, Listed
  <1> QED
    BY <1>2, <1>16, <1>17 DEF Standing

LEMMA UnmovedStep ==
    ASSUME StrangerInv, [Next \/ Earlier \/ Elsewhere]_vars,
           \A x \in Strangers, b \in Books : SizeOf[x] # SizeOf[b]
    PROVE  Unmoved'
  <1> SUFFICES ASSUME Valid' PROVE Unmoved'
    BY DEF Unmoved
  <1>1. TypeInv' /\ TypeInv /\ CardInv
    BY TypeStep DEF StrangerInv, FileInv
  <1>2. CASE pc = "record" /\ ParkedNameFree /\ journal' = Intent /\ UNCHANGED files
    <2>1. ~ParkedStands'
      BY <1>1, <1>2, IntentMeans DEF ParkedStands, files
    <2> QED
      BY <2>1 DEF Unmoved
  <1>3. CASE journal' = journal
    <2>1. Valid
      BY <1>3 DEF Valid
    <2>2. CASE RetireOldHolder \/ EarlierRetire
      <3>1. Standing /\ books' = books
        BY <1>1, <2>2, RetireStands
      <3>2. Standing'
        BY <1>3, <3>1 DEF Standing
      <3> QED
        BY <3>2 DEF Unmoved
    <2>3. CASE InstallStage \/ RestoreOldHolder
      BY <2>3, UnmovedLands
    <2>4. CASE ComputerCopies
      BY <1>1, <2>4, UnmovedCopies
    <2>5. CASE /\ \A a \in Aliases : books'[a] = books[a] \/ books'[a] = None
               /\ \A s \in ScratchNames : scratch'[s] = scratch[s] \/ scratch'[s] = None
               /\ \A p \in ParkedNames : parked'[p] = parked[p] \/ parked'[p] = None
      <3>1. \A a \in Listed' : a \in Listed /\ books'[a] = books[a]
        BY <2>5 DEF Listed
      <3> QED
        BY <1>1, <1>3, <2>5, <3>1, UnmovedGo DEF StrangerInv
    <2> QED
      BY <1>1, <1>3, <2>1, <2>2, <2>3, <2>4, <2>5, NamesOnlyGo
  <1> QED
    BY <1>1, <1>2, <1>3, RecordSteps

\* What a pass takes off the shelf is the entry the record names, as the record
\* describes it.
LEMMA UnlinksTheOld ==
    ASSUME StrangerInv, UnlinkOldHolder \/ UnlinkSource, NEW a \in Listed, books'[a] # books[a]
    PROVE  Valid /\ journal.old = Located(a, Body(books[a]))
  <1>1. Valid /\ TypeInv
    BY DEF UnlinkOldHolder, UnlinkSource, Planned, StrangerInv, FileInv, TypeInv, Control
  <1>2. books \in [Aliases -> Entries \cup {None}]
    BY <1>1 DEF TypeInv, TypeOK
  <1>3. Standing /\ a = journal.old.alias
    <2>1. CASE UnlinkOldHolder
      <3>1. Plan = "UnlinkOldHolder" /\ books' = [books EXCEPT ![journal.old.alias] = None]
        BY <2>1 DEF UnlinkOldHolder, Planned
      <3>2. StageStands /\ journal.name \in Installable /\ OldStands /\ ParkedStands
        BY <3>1, PlanMeans DEF StageCounts
      <3>3. Standing
        BY <1>1, <3>2 DEF OldStands, StrangerInv, Unmoved
      <3> QED
        BY <1>2, <3>1, <3>3 DEF Listed
    <2>2. CASE UnlinkSource
      <3>1. pc = "unlink" /\ step \in Moves
        BY <1>1, <2>2 DEF UnlinkSource, TypeInv, Control
      <3>2. step = "RetireOldHolder" /\ books' = [books EXCEPT ![journal.old.alias] = None]
        BY <2>2, <3>1 DEF UnlinkSource, Moves
      <3>3. Standing
        BY <3>1, <3>2 DEF StrangerInv, MoveStands
      <3> QED
        BY <1>2, <3>2, <3>3 DEF Listed
    <2> QED
      BY <2>1, <2>2
  <1>4. /\ journal.old \in Locations(Aliases) /\ Is(journal.old, Body(books[a]))
    BY <1>1, <1>3, RecordMeans DEF Standing
  <1>5. journal.old = [alias |-> a, chain |-> Body(books[a]).chain, size |-> Size(Body(books[a]).is)]
    BY <1>3, <1>4 DEF Locations, Is
  <1> QED
    BY <1>1, <1>5 DEF Located

LEMMA ShelfStep ==
    ASSUME StrangerInv, [Next \/ Earlier \/ Elsewhere]_vars,
           NEW a \in Listed, pc # "off", ~Asked(a)
    PROVE  books'[a] = books[a] /\ holds'[books[a].chain] = holds[books[a].chain]
  <1>1. books \in [Aliases -> Entries \cup {None}]
    BY DEF StrangerInv, FileInv, TypeInv, TypeOK
  <1>2. CASE \/ ReclaimFree \/ DiscardShared \/ DiscardTruncate \/ RemoveTruncated
             \/ CreateScratch \/ CloseScratch
    BY <1>2, ShelfUntouched DEF StrangerInv
  <1>3. CASE ReclaimUnlink
    <2>1. ~(reclaim.dir = "books" /\ reclaim.key = a) /\ holds' = holds
      BY <1>3 DEF ReclaimUnlink, Asked
    <2> QED
      BY <1>1, <1>3, <2>1 DEF ReclaimUnlink, Listed
  <1>4. CASE UnlinkOldHolder \/ UnlinkSource
    <2>1. holds' = holds
      BY <1>4 DEF UnlinkOldHolder, UnlinkSource
    <2>2. books'[a] = books[a]
      BY <1>4, UnlinksTheOld DEF Asked
    <2> QED
      BY <2>1, <2>2
  <1>5. CASE InstallStage \/ RestoreOldHolder
    <2>1. holds' = holds /\ \E b, new : b \notin Listed /\ books' = [books EXCEPT ![b] = new]
      <3>1. CASE InstallStage
        BY <3>1 DEF InstallStage
      <3>2. CASE RestoreOldHolder
        <4>1. CASE journal.name \in Installable
          BY <3>2, <4>1 DEF RestoreOldHolder
        <4>2. CASE journal.name \notin Installable
          <5>1. /\ holds' = holds /\ journal.old.alias \notin Listed
                /\ books' = [books EXCEPT ![journal.old.alias] =
                               Book(journal.name, TRUE, parked[journal.rollback])]
            BY <3>2, <4>2 DEF RestoreOldHolder, Listed
          <5> QED
            BY <5>1
        <4> QED
          BY <4>1, <4>2
      <3> QED
        BY <1>5, <3>1, <3>2
    <2> QED
      BY <1>1, <2>1
  <1>6. CASE \/ RetireOldHolder \/ UnlinkStage \/ ReclaimRollback \/ UnlinkRollbackCopy
             \/ EarlierRetire
    <2>1. books' = books /\ holds' = holds
      BY <1>6 DEF RetireOldHolder, UnlinkStage, ReclaimRollback, UnlinkRollbackCopy,
                  EarlierRetire, files
    <2> QED
      BY <2>1
  <1>7. CASE \/ ReclaimSettled \/ ReadIntent \/ StopBlocked \/ PlanDone \/ ClearIntent
             \/ SweepNext \/ SweepEnd \/ PassDone \/ PassStopped \/ PublishCatalog
             \/ BootFromCatalog \/ Scan \/ StartSession \/ Retry
             \/ (\E n \in LongNames, c \in Books : StageUpload(n, c))
             \/ Abandon \/ BeginReplace \/ WriteIntent \/ EarlierOwesNothing
             \/ (\E b \in Aliases : DeleteBook(b)) \/ Fail \/ Crash
    <2>1. UNCHANGED files
      <3> USE DEF card
      <3>1. CASE \/ ReclaimSettled \/ ReadIntent \/ StopBlocked \/ PlanDone \/ ClearIntent
                 \/ SweepNext \/ SweepEnd \/ PassDone \/ PassStopped \/ PublishCatalog
        BY <3>1 DEF ReclaimSettled, ReadIntent, StopBlocked, PlanDone, ClearIntent, SweepNext,
                    SweepEnd, PassDone, PassStopped, PublishCatalog, files
      <3>2. CASE \/ BootFromCatalog \/ Scan \/ StartSession \/ Retry
                 \/ (\E n \in LongNames, c \in Books : StageUpload(n, c))
                 \/ Abandon \/ BeginReplace \/ WriteIntent \/ EarlierOwesNothing
        BY <3>2 DEF BootFromCatalog, Scan, StartSession, Retry, StageUpload, Abandon,
                    BeginReplace, WriteIntent, EarlierOwesNothing, files
      <3>3. CASE (\E b \in Aliases : DeleteBook(b)) \/ Fail \/ Crash
        BY <3>3 DEF DeleteBook, Fail, StopsPass, LeavesLeftover, FailsCommand, FailsScan,
                    Crash, files
      <3> QED
        BY <1>7, <3>1, <3>2, <3>3
    <2> QED
      BY <2>1 DEF files
  <1>8. CASE Elsewhere
    BY <1>8 DEF Elsewhere, ComputerDeletes, ComputerCopies, ComputerLosesRecord, LaterRecord
  <1>9. CASE UNCHANGED vars
    BY <1>9 DEF vars, card
  <1> QED
    BY <1>2, <1>3, <1>4, <1>5, <1>6, <1>7, <1>8, <1>9
    DEF Next, Pass, Uploading, BeginUpload, Earlier, EarlierBegin

LEMMA StrangerInit == Init => StrangerInv
  <1>1. Init => ~Valid /\ pc = "off"
    BY DEF Init, Asleep, Valid, Absent
  <1> QED
    BY <1>1, FileInit DEF StrangerInv, RecordApart, Unmoved, MoveStands

\* A file that a computer put on the shelf is left as it is, but for a delete
\* that names it and an upload that replaces it by its chain and its length.
\* install.rs says what this asks of the card: a chain is handed on, and a size
\* rarely goes with it.
THEOREM StrangersAreLeft ==
    ASSUME \A x \in Strangers, b \in Books : SizeOf[x] # SizeOf[b]
    PROVE  AnySpec => StrangersKept
  <1>1. StrangerInv /\ [Next \/ Earlier \/ Elsewhere]_vars => StrangerInv'
    BY FileStep, ApartStep, UnmovedStep, MoveStep DEF StrangerInv
  <1>2. StrangerInv /\ [Next \/ Earlier \/ Elsewhere]_vars =>
          [\A a \in Listed :
             pc # "off" /\ books[a].is \in Strangers /\ ~Asked(a)
               => books'[a] = books[a] /\ holds'[books[a].chain] = holds[books[a].chain]]_vars
    BY ShelfStep
  <1> QED
    BY <1>1, <1>2, StrangerInit, PTL DEF AnySpec, StrangersKept

-----------------------------------------------------------------------------
(***************************************************************************)
(* The catalog, on a card that stays in this device                        *)
(***************************************************************************)
Passing ==
    {"reclaim", "journal", "observe", "unlink", "clear", "sweep", "done", "stopped", "refused"}

\* A session's commands and the passes they wait for.
InSession ==
    \/ pc \in {"session"} \cup Staging
    \/ pc \in {"discard", "remove"} /\ resume # "sweep"
    \/ pc \in Passing \cup {"discard", "remove"} /\ caller \notin {"hit", "scan"}

\* While an intent of the library's stands, or a reclaim, or a session runs, no
\* catalog is on the card or in memory.
Dropped == owed \/ reclaim # None \/ InSession => catalog = None /\ served = None

\* Nor is one on the card while a record is replayed, and a cached one is known
\* to be out of date.
ReplayDropped ==
    pc \in {"observe", "unlink", "clear"} \/ step = "ReclaimRollback" => catalog = None /\ had

\* A reclaim that stops a pass from inside a record's plan is of a copy whose
\* upload has landed, and that one the library was told of.
PublishSettled ==
    /\ pc = "publish" => ~owed /\ reclaim = None
    /\ pc = "reclaim" => step \in {"none", "ReclaimRollback"}
    /\ reclaim # None /\ (pc = "stopped" \/ step = "ReclaimRollback") => owed

\* An upload that can land has told the library first.
LandingIsOwed ==
    /\ pc = "record" => owed \/ upload.name \notin Installable
    /\ Valid => owed \/ journal.name \notin Installable

\* A pass has found nothing before it has looked.
FreshHit ==
    caller = "hit" /\ pc \in {"reclaim", "journal"} /\ step # "ReclaimRollback" => ~had

\* No entry on the shelf has a long name the driver will not write.
NoRefusedName == \A n \in LongNames \ Installable : Holders(n) = {}

\* A catalog that is on the card describes the shelf, and so does one in memory
\* that a reader has, or that a pass has found nothing against so far.  A scan
\* that is refused at its start leaves the reader with that one.
CatalogTrue == catalog # None => catalog = Shelf
ServedStands ==
    \/ pc \in {"reader", "off"}
    \/ caller = "hit" /\ ~had
    \/ caller = "scan" /\ pc \in {"reclaim", "refused"} /\ step = "none"
ServedTrue == ServedStands => served = None \/ served = Shelf

CatalogControl == Dropped /\ ReplayDropped /\ PublishSettled /\ LandingIsOwed /\ FreshHit
CatalogInv == TypeInv /\ CatalogControl /\ NoRefusedName /\ CatalogTrue /\ ServedTrue

\* The rollback copy is reclaimed only once an upload has landed.
LEMMA ReclaimIsOwed ==
    ASSUME TypeInv, LandingIsOwed, NoRefusedName, ReclaimRollback
    PROVE  owed
  <1>1. Valid /\ journal.name \in LongNames /\ Plan = "ReclaimRollback"
    BY RecordMeans DEF ReclaimRollback, Planned, TypeInv, Control
  <1>2. Installed
    BY <1>1, PlanMeans
  <1>3. journal.name \in Installable
    BY <1>1, <1>2 DEF Installed, NoRefusedName
  <1> QED
    BY <1>1, <1>3 DEF LandingIsOwed

LEMMA CatalogControlStep ==
    ASSUME CatalogInv, TypeInv', [Next \/ Earlier]_vars
    PROVE  CatalogControl'
  <1> USE DEF CatalogInv, CatalogControl, Dropped, ReplayDropped, PublishSettled, LandingIsOwed,
              FreshHit, InSession, Passing, Staging, TypeInv, Control, VictimInHand, Valid, NoInstall,
              card, files, memory
  <1>1. CASE ReclaimUnlink
    BY <1>1 DEF ReclaimUnlink
  <1>2. CASE ReclaimFree
    BY <1>2 DEF ReclaimFree
  <1>3. CASE ReclaimSettled
    BY <1>3 DEF ReclaimSettled
  <1>4. CASE ReadIntent
    <2>1. CASE Valid
      <3>1. ~NoInstall /\ journal # Absent /\ journal # Truncated
        BY <2>1, RecordOrNone
      <3>2. pc' = "observe" /\ had' /\ catalog' = None
        BY <1>4, <2>1, <3>1 DEF ReadIntent
      <3> QED
        BY <1>4, <2>1, <3>2 DEF ReadIntent
    <2>2. CASE journal = Truncated
      BY <1>4, <2>2, RecordOrNone DEF ReadIntent, Absent
    <2>3. CASE ~Valid /\ journal # Truncated
      <3>1. pc' \in {"done", "sweep", "stopped"}
        BY <1>4, <2>3 DEF ReadIntent
      <3> QED
        BY <1>4, <2>3, <3>1 DEF ReadIntent, Resting
    <2> QED
      BY <2>1, <2>2, <2>3
  <1>5. CASE RetireOldHolder
    BY <1>5 DEF RetireOldHolder, Planned, Apply
  <1>6. CASE UnlinkOldHolder
    BY <1>6 DEF UnlinkOldHolder, Planned, Apply
  <1>7. CASE InstallStage
    BY <1>7 DEF InstallStage, Planned, Apply
  <1>8. CASE UnlinkStage
    BY <1>8 DEF UnlinkStage, Planned, Apply
  <1>9. CASE ReclaimRollback
    BY <1>9, ReclaimIsOwed DEF ReclaimRollback, Planned, Apply
  <1>10. CASE RestoreOldHolder
    BY <1>10 DEF RestoreOldHolder, Planned, Apply
  <1>11. CASE UnlinkRollbackCopy
    BY <1>11 DEF UnlinkRollbackCopy, Planned, Apply
  <1>12. CASE UnlinkSource
    BY <1>12 DEF UnlinkSource
  <1>13. CASE StopBlocked
    BY <1>13 DEF StopBlocked, Resting
  <1>14. CASE PlanDone
    BY <1>14 DEF PlanDone, Planned
  <1>15. CASE ClearIntent
    BY <1>15, RecordOrNone DEF ClearIntent
  <1>16. CASE SweepNext
    BY <1>16 DEF SweepNext
  <1>17. CASE SweepEnd
    BY <1>17 DEF SweepEnd
  <1>18. CASE DiscardShared
    BY <1>18 DEF DiscardShared
  <1>19. CASE DiscardTruncate
    BY <1>19 DEF DiscardTruncate
  <1>20. CASE RemoveTruncated
    BY <1>20 DEF RemoveTruncated
  <1>21. CASE PassDone
    <2>1. ~Valid' /\ owed' = FALSE /\ reclaim' = None
      BY <1>21, RecordOrNone DEF PassDone, Resting
    <2>2. CASE caller = "hit"
      BY <1>21, <2>1, <2>2 DEF PassDone, Returning
    <2>3. CASE caller = "scan"
      BY <1>21, <2>1, <2>3 DEF PassDone, Returning
    <2>4. CASE caller \notin {"hit", "scan"}
      BY <1>21, <2>1, <2>4 DEF PassDone, Returning
    <2> QED
      BY <2>2, <2>3, <2>4
  <1>22. CASE PassStopped
    BY <1>22 DEF PassStopped, Returning
  <1>23. CASE PublishCatalog
    BY <1>23 DEF PublishCatalog
  <1>24. CASE BootFromCatalog
    BY <1>24 DEF BootFromCatalog, BeginPass
  <1>25. CASE Scan
    BY <1>25 DEF Scan, BeginPass
  <1>26. CASE StartSession
    BY <1>26 DEF StartSession, BeginPass
  <1>27. CASE Retry
    BY <1>27 DEF Retry, BeginPass
  <1>28. CASE \E n \in LongNames, c \in Books : StageUpload(n, c)
    BY <1>28 DEF StageUpload
  <1>29. CASE CreateScratch
    BY <1>29 DEF CreateScratch
  <1>30. CASE Abandon
    BY <1>30 DEF Abandon
  <1>31. CASE CloseScratch
    BY <1>31 DEF CloseScratch
  <1>32. CASE BeginReplace
    BY <1>32 DEF BeginReplace
  <1>33. CASE WriteIntent
    BY <1>33, IntentMeans DEF WriteIntent
  <1>34. CASE \E a \in Aliases : DeleteBook(a)
    BY <1>34 DEF DeleteBook
  <1>35. CASE StopsPass
    BY <1>35 DEF StopsPass, Resting
  <1>36. CASE LeavesLeftover
    BY <1>36 DEF LeavesLeftover
  <1>37. CASE FailsCommand
    <2>1. journal' = journal \/ ~Valid' \/ (owed \/ journal'.name \notin Installable)
      BY <1>37, RecordOrNone, IntentMeans DEF FailsCommand
    <2> QED
      BY <1>37, <2>1 DEF FailsCommand
  <1>38. CASE FailsScan
    BY <1>38 DEF FailsScan
  <1>39. CASE Crash
    <2>1. journal' = journal \/ ~Valid'
      BY <1>39, RecordOrNone DEF Crash
    <2> QED
      BY <1>39, <2>1 DEF Crash
  <1>40. CASE EarlierOwesNothing
    BY <1>40 DEF EarlierOwesNothing
  <1>41. CASE EarlierRetire
    BY <1>41 DEF EarlierRetire, Planned, Apply
  <1>42. CASE UNCHANGED vars
    BY <1>42 DEF vars
  <1> QED
    BY <1>1, <1>2, <1>3, <1>4, <1>5, <1>6, <1>7, <1>8, <1>9, <1>10, <1>11, <1>12, <1>13, <1>14, <1>15, <1>16, <1>17, <1>18, <1>19, <1>20, <1>21, <1>22, <1>23, <1>24, <1>25, <1>26, <1>27, <1>28, <1>29, <1>30, <1>31, <1>32, <1>33, <1>34, <1>35, <1>36, <1>37, <1>38, <1>39, <1>40, <1>41, <1>42
    DEF Next, Pass, Uploading, BeginUpload, Fail, Earlier, EarlierBegin

\* What changes the shelf: a reclaim, and the steps of a record's plan.
ShelfMoves ==
    \/ ReclaimUnlink \/ UnlinkOldHolder \/ InstallStage \/ RestoreOldHolder \/ UnlinkSource

LEMMA ShelfMovesOnly ==
    ASSUME [Next \/ Earlier]_vars
    PROVE  books' = books \/ ShelfMoves
  <1> USE DEF card, files
  <1>1. CASE ReclaimFree \/ ReclaimSettled \/ ReadIntent \/ RetireOldHolder \/ UnlinkStage \/ ReclaimRollback \/ UnlinkRollbackCopy \/ StopBlocked \/ PlanDone
    BY <1>1 DEF ReclaimFree, ReclaimSettled, ReadIntent, RetireOldHolder, UnlinkStage, ReclaimRollback, UnlinkRollbackCopy, StopBlocked, PlanDone, Apply
  <1>2. CASE ClearIntent \/ SweepNext \/ SweepEnd \/ DiscardShared \/ DiscardTruncate \/ RemoveTruncated \/ PassDone \/ PassStopped \/ PublishCatalog
    BY <1>2 DEF ClearIntent, SweepNext, SweepEnd, DiscardShared, DiscardTruncate, RemoveTruncated, PassDone, PassStopped, PublishCatalog, Returning
  <1>3. CASE BootFromCatalog \/ Scan \/ StartSession \/ Retry \/ (\E n \in LongNames, c \in Books : StageUpload(n, c)) \/ CreateScratch \/ Abandon \/ CloseScratch \/ BeginReplace
    BY <1>3 DEF BootFromCatalog, Scan, StartSession, Retry, StageUpload, CreateScratch, Abandon, CloseScratch, BeginReplace, BeginPass
  <1>4. CASE WriteIntent \/ (\E a \in Aliases : DeleteBook(a)) \/ StopsPass \/ LeavesLeftover \/ FailsCommand \/ FailsScan \/ Crash \/ EarlierOwesNothing \/ EarlierRetire
    BY <1>4 DEF WriteIntent, DeleteBook, StopsPass, LeavesLeftover, FailsCommand, FailsScan, Crash, EarlierOwesNothing, EarlierRetire, Apply
  <1>5. CASE UNCHANGED vars
    BY <1>5 DEF vars
  <1> QED
    BY <1>1, <1>2, <1>3, <1>4, <1>5
    DEF ShelfMoves, Next, Pass, Uploading, BeginUpload, Fail, Earlier, EarlierBegin

\* Two kinds of step take an entry away, and write none.
LEMMA ShelfGoes ==
    ASSUME TypeInv, ReclaimUnlink \/ UnlinkOldHolder \/ UnlinkSource
    PROVE  \A a \in Aliases : books'[a] = books[a] \/ books'[a] = None
  <1>1. books \in [Aliases -> Entries \cup {None}]
    BY DEF TypeInv, TypeOK
  <1>2. CASE ReclaimUnlink
    BY <1>1, <1>2 DEF ReclaimUnlink
  <1>3. CASE UnlinkOldHolder
    BY <1>1, <1>3 DEF UnlinkOldHolder
  <1>4. CASE UnlinkSource
    <2>1. step \in Moves
      BY <1>4 DEF UnlinkSource, TypeInv, Control
    <2> QED
      BY <1>1, <1>4, <2>1 DEF UnlinkSource, Moves
  <1> QED
    BY <1>2, <1>3, <1>4

LEMMA RefusedNameStep ==
    ASSUME CatalogInv, [Next \/ Earlier]_vars
    PROVE  NoRefusedName'
  <1>1. /\ books \in [Aliases -> Entries \cup {None}] /\ TypeInv
        /\ \A n \in LongNames \ Installable : Holders(n) = {}
    BY DEF CatalogInv, NoRefusedName, TypeInv, TypeOK
  <1>2. CASE books' = books
    BY <1>1, <1>2 DEF NoRefusedName, Holders
  <1>3. CASE ReclaimUnlink \/ UnlinkOldHolder \/ UnlinkSource
    <2>1. \A a \in Aliases : books'[a] = books[a] \/ books'[a] = None
      BY <1>1, <1>3, ShelfGoes
    <2> QED
      BY <1>1, <2>1 DEF NoRefusedName, Holders
  <1>4. CASE InstallStage \/ RestoreOldHolder
    <2>1. \E a, legacy, file :
            /\ a \in Aliases /\ legacy \in BOOLEAN
            /\ books' = [books EXCEPT ![a] = Book(journal.name, legacy, file)]
            /\ journal.name \in Installable \/ legacy
      <3>1. CASE InstallStage
        BY <3>1 DEF InstallStage
      <3>2. CASE RestoreOldHolder /\ journal.name \in Installable
        BY <3>2 DEF RestoreOldHolder
      <3>3. CASE RestoreOldHolder /\ journal.name \notin Installable
        <4>1. Valid /\ ParkedStands
          BY <1>1, <3>3, PlanMeans DEF RestoreOldHolder, Planned, TypeInv, Control
        <4>2. journal.old.alias \in Aliases
          BY <1>1, <4>1, RecordMeans
        <4> QED
          BY <3>3, <4>2 DEF RestoreOldHolder
      <3> QED
        BY <1>4, <3>1, <3>2, <3>3
    <2>2. PICK a, legacy, file :
            /\ a \in Aliases /\ legacy \in BOOLEAN
            /\ books' = [books EXCEPT ![a] = Book(journal.name, legacy, file)]
            /\ journal.name \in Installable \/ legacy
      BY <2>1
    <2> DEFINE new == Book(journal.name, legacy, file)
    <2>3. new.title = journal.name /\ new.legacy = legacy
      BY DEF Book
    <2> HIDE DEF new
    <2>4. \A b \in Aliases : books'[b] = IF b = a THEN new ELSE books[b]
      BY <1>1, <2>2 DEF new
    <2> QED
      BY <1>1, <2>2, <2>3, <2>4 DEF NoRefusedName, Holders
  <1> QED
    BY <1>2, <1>3, <1>4, ShelfMovesOnly DEF ShelfMoves

LEMMA CatalogMoves ==
    ASSUME CatalogInv, ShelfMoves
    PROVE  CatalogTrue' /\ ServedTrue'
  <1>1. CASE ReclaimUnlink
    <2>1. /\ catalog = None /\ served = None /\ pc = "reclaim"
          /\ catalog' = catalog /\ served' = served
      BY <1>1 DEF ReclaimUnlink, memory, CatalogInv, CatalogControl, Dropped
    <2> QED
      BY <2>1 DEF CatalogTrue, ServedTrue, ServedStands
  <1>2. CASE UnlinkOldHolder \/ InstallStage \/ RestoreOldHolder \/ UnlinkSource
    <2>1. /\ pc \in {"observe", "unlink"} /\ pc' \in {"observe", "unlink"}
          /\ catalog' = catalog /\ had' = had
      BY <1>2 DEF UnlinkOldHolder, InstallStage, RestoreOldHolder, UnlinkSource, Planned, Apply
    <2>2. catalog = None /\ had
      BY <2>1 DEF CatalogInv, CatalogControl, ReplayDropped
    <2> QED
      BY <2>1, <2>2 DEF CatalogTrue, ServedTrue, ServedStands
  <1> QED
    BY <1>1, <1>2 DEF ShelfMoves

LEMMA CatalogStands ==
    ASSUME CatalogInv, [Next \/ Earlier]_vars, books' = books
    PROVE  CatalogTrue' /\ ServedTrue'
  <1>1. Shelf' = Shelf
    BY DEF Shelf, Listed
  <1>2. CatalogTrue'
    <2>1. catalog' = catalog \/ catalog' = None \/ catalog' = Shelf
      <3> USE DEF card
      <3>1. CASE ReclaimUnlink \/ ReclaimFree \/ ReclaimSettled \/ ReadIntent \/ RetireOldHolder \/ UnlinkOldHolder \/ InstallStage \/ UnlinkStage \/ ReclaimRollback
        BY <3>1 DEF ReclaimUnlink, ReclaimFree, ReclaimSettled, ReadIntent, RetireOldHolder, UnlinkOldHolder, InstallStage, UnlinkStage, ReclaimRollback, Planned, Apply
      <3>2. CASE RestoreOldHolder \/ UnlinkRollbackCopy \/ UnlinkSource \/ StopBlocked \/ PlanDone \/ ClearIntent \/ SweepNext \/ SweepEnd \/ DiscardShared
        BY <3>2 DEF RestoreOldHolder, UnlinkRollbackCopy, UnlinkSource, StopBlocked, PlanDone, ClearIntent, SweepNext, SweepEnd, DiscardShared, Planned, Apply
      <3>3. CASE DiscardTruncate \/ RemoveTruncated \/ PassDone \/ PassStopped \/ PublishCatalog \/ BootFromCatalog \/ Scan \/ StartSession \/ Retry
        BY <3>3 DEF DiscardTruncate, RemoveTruncated, PassDone, PassStopped, PublishCatalog, BootFromCatalog, Scan, StartSession, Retry, Returning, BeginPass
      <3>4. CASE (\E n \in LongNames, c \in Books : StageUpload(n, c)) \/ CreateScratch \/ Abandon \/ CloseScratch \/ BeginReplace \/ WriteIntent \/ (\E a \in Aliases : DeleteBook(a)) \/ StopsPass \/ LeavesLeftover
        BY <3>4 DEF StageUpload, CreateScratch, Abandon, CloseScratch, BeginReplace, WriteIntent, DeleteBook, StopsPass, LeavesLeftover
      <3>5. CASE FailsCommand \/ FailsScan \/ Crash \/ EarlierOwesNothing \/ EarlierRetire
        BY <3>5 DEF FailsCommand, FailsScan, Crash, EarlierOwesNothing, EarlierRetire, Planned, Apply
      <3>6. CASE UNCHANGED vars
        BY <3>6 DEF vars
      <3> QED
        BY <3>1, <3>2, <3>3, <3>4, <3>5, <3>6
        DEF Next, Pass, Uploading, BeginUpload, Fail, Earlier, EarlierBegin
    <2> QED
      BY <1>1, <2>1 DEF CatalogInv, CatalogTrue
  <1> SUFFICES ASSUME ServedStands'
               PROVE  served' = None \/ served' = Shelf
    BY <1>1, <1>2 DEF ServedTrue
  <1>3. ServedStands => served = None \/ served = Shelf
    BY DEF CatalogInv, ServedTrue
  <1> USE DEF ServedStands
  <1>4. CASE ReadIntent
    BY <1>3, <1>4 DEF ReadIntent, CatalogInv, CatalogControl, FreshHit, TypeInv, Control
  <1>5. CASE PassDone
    <2>1. CASE caller = "hit"
      BY <1>3, <1>5, <2>1 DEF PassDone
    <2>2. CASE caller # "hit"
      <3>1. pc' \in {"publish", "session"}
        BY <1>5, <2>2 DEF PassDone
      <3> QED
        BY <1>5, <3>1 DEF PassDone, Returning
    <2> QED
      BY <2>1, <2>2
  <1>6. CASE PassStopped
    <2>1. CASE caller = "hit"
      BY <1>6, <2>1 DEF PassStopped
    <2>2. CASE caller = "scan"
      BY <1>3, <1>6, <2>2 DEF PassStopped, Returning, CatalogInv, CatalogControl, Dropped, TypeInv, Control
    <2>3. CASE caller \notin {"hit", "scan"}
      BY <1>6, <2>3 DEF PassStopped, Returning
    <2> QED
      BY <2>1, <2>2, <2>3
  <1>7. CASE BootFromCatalog
    BY <1>7 DEF BootFromCatalog, CatalogInv, CatalogTrue
  <1>8. CASE PublishCatalog \/ FailsScan
    BY <1>8 DEF PublishCatalog, FailsScan, CatalogInv, CatalogTrue
  <1>9. CASE Crash
    BY <1>9 DEF Crash
  <1>10. CASE ReclaimUnlink \/ ReclaimFree \/ ReclaimSettled \/ RetireOldHolder \/ UnlinkOldHolder \/ InstallStage \/ UnlinkStage \/ ReclaimRollback \/ RestoreOldHolder
    BY <1>3, <1>10 DEF ReclaimUnlink, ReclaimFree, ReclaimSettled, RetireOldHolder, UnlinkOldHolder, InstallStage, UnlinkStage, ReclaimRollback, RestoreOldHolder, Planned, Apply, card, files, memory, CatalogInv, TypeInv, Control, VictimInHand
  <1>11. CASE UnlinkRollbackCopy \/ UnlinkSource \/ StopBlocked \/ PlanDone \/ ClearIntent \/ SweepNext \/ SweepEnd \/ DiscardShared \/ DiscardTruncate
    BY <1>3, <1>11 DEF UnlinkRollbackCopy, UnlinkSource, StopBlocked, PlanDone, ClearIntent, SweepNext, SweepEnd, DiscardShared, DiscardTruncate, Planned, Apply, card, files, memory, CatalogInv, TypeInv, Control, VictimInHand
  <1>12. CASE RemoveTruncated \/ Scan \/ StartSession \/ Retry \/ (\E n \in LongNames, c \in Books : StageUpload(n, c)) \/ CreateScratch \/ Abandon \/ CloseScratch \/ BeginReplace
    BY <1>3, <1>12 DEF RemoveTruncated, Scan, StartSession, Retry, StageUpload, CreateScratch, Abandon, CloseScratch, BeginReplace, BeginPass, card, files, memory, CatalogInv, TypeInv, Control, VictimInHand
  <1>13. CASE WriteIntent \/ (\E a \in Aliases : DeleteBook(a)) \/ StopsPass \/ LeavesLeftover \/ FailsCommand \/ EarlierOwesNothing \/ EarlierRetire
    BY <1>3, <1>13 DEF WriteIntent, DeleteBook, StopsPass, LeavesLeftover, FailsCommand, EarlierOwesNothing, EarlierRetire, Planned, Apply, card, files, memory, CatalogInv, TypeInv, Control, VictimInHand
  <1>14. CASE UNCHANGED vars
    BY <1>14 DEF vars, memory, CatalogInv, ServedTrue
  <1> QED
    BY <1>4, <1>5, <1>6, <1>7, <1>8, <1>9, <1>10, <1>11, <1>12, <1>13, <1>14
    DEF Next, Pass, Uploading, BeginUpload, Fail, Earlier, EarlierBegin

LEMMA CatalogInit == Init => CatalogInv
  <1> SUFFICES ASSUME Init PROVE CatalogInv
    OBVIOUS
  <1>1. /\ pc = "off" /\ ~Valid /\ reclaim = None /\ ~owed /\ catalog = None /\ step = "none"
        /\ caller = "none" /\ served = None
    BY DEF Init, Asleep, Valid, Absent
  <1>2. NoRefusedName
    <2> SUFFICES ASSUME NEW n \in LongNames \ Installable, NEW a \in Holders(n) PROVE FALSE
      BY DEF NoRefusedName
    <2>1. PICK titles \in SUBSET LongNames :
            \E legacy \in SUBSET titles, at \in [titles -> Aliases],
               where \in [titles -> Chains], what \in [titles -> Books] :
              /\ (LongNames \ Installable) \cap titles \subseteq legacy
              /\ Stocked(titles, legacy, at, where, what)
      BY DEF Init, AnyShelf
    <2>2. PICK legacy \in SUBSET titles, at \in [titles -> Aliases],
               where \in [titles -> Chains], what \in [titles -> Books] :
              /\ (LongNames \ Installable) \cap titles \subseteq legacy
              /\ Stocked(titles, legacy, at, where, what)
      BY <2>1
    <2> DEFINE m == CHOOSE m \in titles : at[m] = a
    <2>3. /\ m \in titles
          /\ books[a] = Book(m, m \in legacy, File(where[m], what[m]))
      BY <2>2 DEF Stocked, Holders
    <2> HIDE DEF m
    <2> DEFINE kept == m \in legacy
    <2>4. /\ Book(m, kept, File(where[m], what[m])).title = m
          /\ Book(m, kept, File(where[m], what[m])).legacy = kept
      <3> HIDE DEF kept
      <3> QED
        BY DEF Book
    <2>5. books[a].title = n /\ ~books[a].legacy
      BY DEF Holders
    <2>6. m = n /\ ~kept
      <3> HIDE DEF kept
      <3>1. books[a] = Book(m, kept, File(where[m], what[m]))
        BY <2>3 DEF kept
      <3> QED
        BY <2>4, <2>5, <3>1
    <2> QED
      BY <2>2, <2>3, <2>6
  <1> QED
    BY <1>1, <1>2, TypeInit
    DEF CatalogInv, CatalogControl, Dropped, ReplayDropped, PublishSettled, LandingIsOwed,
        FreshHit, InSession, Passing, Staging, CatalogTrue, ServedTrue, ServedStands

LEMMA CatalogStep == CatalogInv /\ [Next \/ Earlier]_vars => CatalogInv'
  <1> SUFFICES ASSUME CatalogInv, [Next \/ Earlier]_vars PROVE CatalogInv'
    OBVIOUS
  <1>1. TypeInv'
    BY TypeStep DEF CatalogInv
  <1> QED
    BY <1>1, CatalogControlStep, RefusedNameStep, CatalogMoves, CatalogStands, ShelfMovesOnly
    DEF CatalogInv

\* While nothing on the card says that the shelf has moved, a snapshot on it
\* describes the shelf, whatever was cut and whatever an earlier build left.
THEOREM SnapshotStaysTrue == EarlierSpec => []SnapshotIsTrue
  <1>1. CatalogInv => SnapshotIsTrue
    BY DEF CatalogInv, CatalogTrue, SnapshotIsTrue
  <1> QED
    BY <1>1, CatalogInit, CatalogStep, PTL DEF EarlierSpec

\* So does the one the reader picks its books from.
THEOREM ServedStaysTrue == EarlierSpec => []ServedIsTrue
  <1>1. CatalogInv => ServedIsTrue
    BY DEF CatalogInv, ServedTrue, ServedStands, ServedIsTrue
  <1> QED
    BY <1>1, CatalogInit, CatalogStep, PTL DEF EarlierSpec

-----------------------------------------------------------------------------
(***************************************************************************)
(* An upload over a book is one step of the library                        *)
(***************************************************************************)
\* A name is on the shelf once.
OnePerName == \A a, b \in Listed : books[a].title = books[b].title => a = b

\* The upload is where the record put it, or on the shelf.
RecordLands == Valid => StageStands \/ Installed

\* Until it lands, its name is on the shelf only as the predecessor, and the
\* predecessor is on the shelf only under that name.
TitleIsOld ==
    Valid /\ ~Installed =>
        \A a \in Listed : books[a].title = journal.name => Standing /\ a = journal.old.alias
OldIsTitled == Valid /\ Standing => books[journal.old.alias].title = journal.name

\* Between the two writes of a move the file has both names.
MoveHolds ==
    pc = "unlink" =>
        /\ step = "RetireOldHolder" => ParkedStands /\ Standing
        /\ step = "InstallStage" => Installed
        /\ step = "RestoreOldHolder" => OldStands

\* A record is cleared when nothing is parked for it any more.
ClearDone == pc = "clear" /\ Valid => ~ParkedStands

LandInv == OnePerName /\ RecordLands /\ TitleIsOld /\ OldIsTitled /\ MoveHolds /\ ClearDone
AtomicInv == FileInv /\ RecordApart /\ LandInv

LEMMA PredecessorMeans ==
    ASSUME TypeInv, NEW n \in LongNames
    PROVE  /\ Predecessor(n) # None =>
                \E a \in Listed : books[a].title = n /\ Predecessor(n) = Located(a, Body(books[a]))
           /\ (\E a \in Listed : books[a].title = n) => Predecessor(n) # None
  <1> DEFINE found == IF Holders(n) # {} THEN Holders(n) ELSE Legacies(n)
  <1>1. found \subseteq {a \in Listed : books[a].title = n}
    BY DEF Holders, Legacies, Listed
  <1>2. (\E a \in Listed : books[a].title = n) => found # {}
    BY DEF Holders, Legacies, Listed, TypeInv, TypeOK, Entries
  <1>3. found = {} => Predecessor(n) = None
    BY DEF Predecessor
  <1>4. ASSUME found # {}
        PROVE  \E a \in Listed : books[a].title = n /\ Predecessor(n) = Located(a, Body(books[a]))
    <2> DEFINE a == CHOOSE a \in found : TRUE
    <2>1. a \in Listed /\ books[a].title = n
      BY <1>1, <1>4
    <2>2. Predecessor(n) = Located(a, Body(books[a]))
      BY <1>4 DEF Predecessor
    <2> HIDE DEF a
    <2> QED
      BY <2>1, <2>2
  <1>5. ASSUME NEW a \in Listed PROVE Located(a, Body(books[a])) # None
    <2>1. /\ a \in Aliases /\ Body(books[a]).chain \in Chains
          /\ Body(books[a]).is \in Held
      BY BookAndBody DEF Listed, TypeInv, TypeOK, Files
    <2>2. Size(Body(books[a]).is) \in Nat
      BY <2>1, SizeAssumption DEF Size, Held, Contents
    <2>3. Located(a, Body(books[a])) \in Locations(Aliases)
      BY <2>1, <2>2 DEF Located, Locations
    <2> QED
      BY <2>3, NoneAssumption
  <1> HIDE DEF found
  <1> QED
    BY <1>2, <1>3, <1>4, <1>5

\* Where the predecessor stands, it is all the shelf has under the name.
LEMMA StandingMeans ==
    ASSUME AtomicInv, Valid, Standing
    PROVE  /\ ~Installed /\ StageStands
           /\ journal.old.alias \in Listed /\ books[journal.old.alias].title = journal.name
           /\ \A a \in Listed : books[a].title = journal.name => a = journal.old.alias
  <1>1. /\ journal.old.alias \in Listed /\ books[journal.old.alias].title = journal.name
        /\ books[journal.old.alias].chain = journal.old.chain /\ journal.old # None
    BY RecordMeans, BookAndBody DEF AtomicInv, FileInv, LandInv, OldIsTitled, Standing, Is, Listed
  <1>2. \A a \in Listed : books[a].title = journal.name => a = journal.old.alias
    BY <1>1 DEF AtomicInv, LandInv, OnePerName
  <1>3. ~Installed
    <2> SUFFICES ASSUME NEW a \in Holders(journal.name), Is(journal.stage, Body(books[a]))
                 PROVE  FALSE
      BY DEF Installed
    <2>1. a \in Listed /\ books[a].title = journal.name
      BY DEF Holders, Listed
    <2>2. books[a].chain = journal.stage.chain
      BY DEF Is, Body, File
    <2> QED
      BY <1>1, <1>2, <2>1, <2>2 DEF AtomicInv, RecordApart
  <1> QED
    BY <1>1, <1>2, <1>3 DEF AtomicInv, LandInv, RecordLands

\* The upload lands where its name is on the shelf no more.
LEMMA InstallMeans ==
    ASSUME AtomicInv, InstallStage
    PROVE  /\ Valid /\ StageStands /\ ~Installed /\ journal.name \in LongNames
           /\ scratch[journal.stage.alias] \in Files
           /\ \A a \in Listed : books[a].title # journal.name
           /\ \E a \in Aliases \ Listed :
                books' = [books EXCEPT ![a] =
                            Book(journal.name, FALSE, scratch[journal.stage.alias])]
  <1>1. Valid /\ TypeInv
    BY DEF InstallStage, Planned, AtomicInv, FileInv, TypeInv, Control
  <1>2. /\ Plan = "InstallStage" /\ Holders(journal.name) = {}
        /\ \E a \in Aliases \ Listed :
             books' = [books EXCEPT ![a] =
                         Book(journal.name, FALSE, scratch[journal.stage.alias])]
    BY DEF InstallStage, Planned
  <1>3. StageCounts /\ ~Installed
    BY <1>2, PlanMeans
  <1>4. ~Foreign
    BY <1>2 DEF Foreign
  <1>5. Plan = PlanToInstall
    BY <1>3 DEF Plan
  <1>6. ~OldStands
    BY <1>2, <1>4, <1>5 DEF PlanToInstall
  <1>7. \A a \in Listed : books[a].title # journal.name
    BY <1>1, <1>3, <1>6 DEF OldStands, AtomicInv, LandInv, TitleIsOld
  <1> QED
    BY <1>1, <1>2, <1>3, <1>7, RecordMeans DEF StageCounts

\* What is put back is a book whose upload cannot land.
LEMMA RestoreMeans ==
    ASSUME AtomicInv, RestoreOldHolder
    PROVE  /\ Valid /\ ParkedStands /\ ~Installed /\ StageStands /\ journal.name \in LongNames
           /\ journal.name \notin Installable
           /\ journal.old # None /\ journal.old.alias \in Aliases \ Listed
           /\ parked[journal.rollback] \in Files /\ Is(journal.old, parked[journal.rollback])
           /\ \A a \in Listed : books[a].title # journal.name
           /\ books' = [books EXCEPT ![journal.old.alias] =
                          Book(journal.name, TRUE, parked[journal.rollback])]
  <1>1. Valid /\ TypeInv
    BY DEF RestoreOldHolder, Planned, AtomicInv, FileInv, TypeInv, Control
  <1>2. ~StageCounts /\ ~Installed /\ ParkedStands /\ ~OldStands
    BY PlanMeans DEF RestoreOldHolder, Planned
  <1>3. StageStands
    BY <1>1, <1>2 DEF AtomicInv, LandInv, RecordLands
  <1>4. journal.name \notin Installable
    BY <1>2, <1>3 DEF StageCounts
  <1>5. /\ books[journal.old.alias] = None
        /\ books' = [books EXCEPT ![journal.old.alias] =
                       Book(journal.name, TRUE, parked[journal.rollback])]
    BY <1>4 DEF RestoreOldHolder
  <1>6. \A a \in Listed : books[a].title # journal.name
    BY <1>1, <1>2 DEF OldStands, AtomicInv, LandInv, TitleIsOld
  <1> QED
    BY <1>1, <1>2, <1>3, <1>4, <1>5, <1>6, RecordMeans DEF ParkedStands, ParkedIsOld, Listed

\* The predecessor leaves the shelf parked.
LEMMA OldGoes ==
    ASSUME AtomicInv, UnlinkOldHolder \/ UnlinkSource, books' # books
    PROVE  /\ Valid /\ Standing /\ ParkedStands
           /\ books' = [books EXCEPT ![journal.old.alias] = None]
           /\ UNCHANGED <<scratch, parked, holds, journal, reclaim>>
  <1>1. Valid /\ TypeInv /\ (pc = "unlink" => step \in Moves)
    BY DEF UnlinkOldHolder, UnlinkSource, Planned, AtomicInv, FileInv, TypeInv, Control
  <1>2. CASE UnlinkOldHolder
    <2>1. StageCounts /\ ~Installed /\ ~Foreign /\ OldStands /\ ParkedStands
      BY <1>2, PlanMeans DEF UnlinkOldHolder, Planned
    <2>2. Restored => Standing
      BY <1>1, <2>1 DEF Restored, Holders, Listed, AtomicInv, LandInv, TitleIsOld
    <2> QED
      BY <1>1, <1>2, <2>1, <2>2 DEF OldStands, UnlinkOldHolder, Apply
  <1>3. CASE UnlinkSource
    <2>1. step = "RetireOldHolder"
      BY <1>1, <1>3 DEF UnlinkSource, Moves
    <2> QED
      BY <1>1, <1>3, <2>1 DEF UnlinkSource, AtomicInv, LandInv, MoveHolds
  <1> QED
    BY <1>2, <1>3

LEMMA InstallLands ==
    ASSUME AtomicInv, InstallStage
    PROVE  Installed'
  <1> DEFINE file == scratch[journal.stage.alias]
             new == Book(journal.name, FALSE, file)
  <1>1. PICK a \in Aliases : books' = [books EXCEPT ![a] = new]
    BY InstallMeans
  <1>2. /\ file \in Files /\ Is(journal.stage, file) /\ journal.name \in LongNames
        /\ journal' = journal
    BY InstallMeans DEF StageStands, InstallStage, Apply
  <1>3. new \in Entries /\ new # None /\ Body(new) = file
    <2> HIDE DEF file
    <2>1. new \in Entries
      BY <1>2, BookAndBody
    <2>2. Body(new) = file
      BY <1>2 DEF Body, Book, File, Files
    <2> HIDE DEF new
    <2> QED
      BY <2>1, <2>2, NoneAssumption
  <1>4. new.title = journal.name /\ new.legacy = FALSE
    BY DEF Book
  <1> HIDE DEF new, file
  <1>5. books'[a] = new
    BY <1>1 DEF AtomicInv, FileInv, TypeInv, TypeOK
  <1>6. a \in Holders(journal.name)' /\ Is(journal.stage, Body(books'[a]))
    BY <1>2, <1>3, <1>4, <1>5 DEF Holders
  <1> QED
    BY <1>2, <1>6 DEF Installed, Is, Body

LEMMA RestoreStands ==
    ASSUME AtomicInv, RestoreOldHolder
    PROVE  Standing'
  <1> DEFINE file == parked[journal.rollback]
             new == Book(journal.name, TRUE, file)
  <1>1. /\ books' = [books EXCEPT ![journal.old.alias] = new] /\ journal.old # None
        /\ journal.old.alias \in Aliases /\ Is(journal.old, file)
        /\ file \in Files /\ journal.name \in LongNames
    BY RestoreMeans
  <1>2. journal' = journal
    BY DEF RestoreOldHolder, Apply
  <1>3. new \in Entries /\ new # None /\ Body(new) = file
    <2> HIDE DEF file
    <2>1. new \in Entries
      BY <1>1, BookAndBody
    <2>2. Body(new) = file
      BY <1>1 DEF Body, Book, File, Files
    <2> HIDE DEF new
    <2> QED
      BY <2>1, <2>2, NoneAssumption
  <1> HIDE DEF new, file
  <1>4. books'[journal.old.alias] = new
    BY <1>1 DEF AtomicInv, FileInv, TypeInv, TypeOK
  <1> QED
    BY <1>1, <1>2, <1>3, <1>4 DEF Standing, Is, Body

\* Beside a record nothing is reclaimed from the shelf.
LEMMA ReclaimBeside ==
    ASSUME AtomicInv, Valid, ReclaimUnlink
    PROVE  books' = books /\ Installed
  <1>1. reclaim.dir = "rollback" /\ ~StageStands
    BY DEF ReclaimUnlink, AtomicInv, FileInv, CardInv, ReclaimKept
  <1> QED
    BY <1>1 DEF ReclaimUnlink, AtomicInv, LandInv, RecordLands

LEMMA OnePerNameStep ==
    ASSUME AtomicInv, [Next \/ Earlier]_vars
    PROVE  OnePerName'
  <1>1. /\ books \in [Aliases -> Entries \cup {None}] /\ TypeInv
        /\ \A a, b \in Listed : books[a].title = books[b].title => a = b
    BY DEF AtomicInv, FileInv, TypeInv, TypeOK, LandInv, OnePerName
  <1>2. CASE books' = books
    BY <1>1, <1>2 DEF OnePerName, Listed
  <1>3. CASE ReclaimUnlink \/ UnlinkOldHolder \/ UnlinkSource
    <2>1. \A a \in Aliases : books'[a] = books[a] \/ books'[a] = None
      BY <1>1, <1>3, ShelfGoes
    <2> QED
      BY <1>1, <2>1 DEF OnePerName, Listed
  <1>4. CASE InstallStage \/ RestoreOldHolder
    <2>1. /\ \A a \in Listed : books[a].title # journal.name
          /\ \E a, legacy, file :
               /\ a \in Aliases
               /\ books' = [books EXCEPT ![a] = Book(journal.name, legacy, file)]
      <3>1. CASE InstallStage
        <4>1. PICK a \in Aliases \ Listed :
                books' = [books EXCEPT ![a] =
                            Book(journal.name, FALSE, scratch[journal.stage.alias])]
          BY <3>1, InstallMeans
        <4> QED
          BY <3>1, <4>1, InstallMeans
      <3>2. CASE RestoreOldHolder
        BY <3>2, RestoreMeans
      <3> QED
        BY <1>4, <3>1, <3>2
    <2>2. PICK a, legacy, file :
            /\ a \in Aliases
            /\ books' = [books EXCEPT ![a] = Book(journal.name, legacy, file)]
      BY <2>1
    <2> DEFINE new == Book(journal.name, legacy, file)
    <2>3. new.title = journal.name
      BY DEF Book
    <2> HIDE DEF new
    <2>4. \A b \in Aliases : books'[b] = IF b = a THEN new ELSE books[b]
      BY <1>1, <2>2 DEF new
    <2> QED
      BY <1>1, <2>1, <2>3, <2>4 DEF OnePerName, Listed
  <1> QED
    BY <1>2, <1>3, <1>4, ShelfMovesOnly DEF ShelfMoves

\* While a record stands its upload leaves its place only once it has landed.
LEMMA ScratchMoves ==
    ASSUME AtomicInv, Valid, [Next \/ Earlier]_vars
    PROVE  scratch' = scratch \/ (Installed /\ books' = books)
  <1>1. TypeInv /\ pc \notin Staging \cup Sweeping \cup {"done"} /\ (pc = "unlink" => step \in Moves)
    BY RecordOrNone DEF AtomicInv, FileInv, TypeInv, Control
  <1> USE DEF card, files
  <1>2. CASE UnlinkStage
    BY <1>2, PlanMeans DEF UnlinkStage, Planned
  <1>3. CASE UnlinkSource
    BY <1>1, <1>3 DEF UnlinkSource, Moves, AtomicInv, LandInv, MoveHolds
  <1>4. CASE \/ ReclaimUnlink \/ ReclaimFree \/ ReclaimSettled \/ ReadIntent
             \/ RetireOldHolder \/ UnlinkOldHolder \/ InstallStage
             \/ ReclaimRollback \/ RestoreOldHolder \/ UnlinkRollbackCopy
    BY <1>4 DEF ReclaimUnlink, ReclaimFree, ReclaimSettled, ReadIntent, RetireOldHolder,
                UnlinkOldHolder, InstallStage, ReclaimRollback, RestoreOldHolder,
                UnlinkRollbackCopy
  <1>5. CASE \/ StopBlocked \/ PlanDone \/ ClearIntent
             \/ SweepNext \/ SweepEnd \/ DiscardShared \/ DiscardTruncate \/ RemoveTruncated
             \/ PassDone \/ PassStopped \/ PublishCatalog
    BY <1>1, <1>5 DEF StopBlocked, PlanDone, ClearIntent, SweepNext, SweepEnd, DiscardShared,
                      DiscardTruncate, RemoveTruncated, PassDone, PassStopped, PublishCatalog,
                      Sweeping
  <1>6. CASE \/ BootFromCatalog \/ Scan \/ StartSession \/ Retry \/ Uploading
             \/ (\E a \in Aliases : DeleteBook(a))
    BY <1>1, <1>6 DEF BootFromCatalog, Scan, StartSession, Retry, Uploading, BeginUpload,
                      StageUpload, CreateScratch, Abandon, CloseScratch, BeginReplace,
                      WriteIntent, DeleteBook, Staging
  <1>7. CASE Fail \/ Crash \/ Earlier
    BY <1>7 DEF Fail, StopsPass, LeavesLeftover, FailsCommand, FailsScan, Crash, Earlier,
                EarlierBegin, StageUpload, EarlierOwesNothing, EarlierRetire
  <1>8. CASE UNCHANGED vars
    BY <1>8 DEF vars
  <1> QED
    BY <1>2, <1>3, <1>4, <1>5, <1>6, <1>7, <1>8 DEF Next, Pass

LEMMA RecordLandsStep ==
    ASSUME AtomicInv, [Next \/ Earlier]_vars
    PROVE  RecordLands'
  <1> SUFFICES ASSUME Valid' PROVE StageStands' \/ Installed'
    BY DEF RecordLands
  <1>1. TypeInv
    BY DEF AtomicInv, FileInv
  <1>2. CASE pc = "record" /\ ParkedNameFree /\ journal' = Intent /\ UNCHANGED files
    <2> DEFINE s == ScratchOf[upload.name]
    <2>1. journal'.stage = Located(s, scratch[s]) /\ scratch[s] \in Files
      BY <1>1, <1>2, IntentMeans DEF TypeInv, UploadInHand, Staging
    <2>2. /\ journal'.stage.alias = s /\ scratch' = scratch
          /\ Is(journal'.stage, scratch[s]) /\ scratch[s] # None
      BY <1>2, <2>1, NoneAssumption DEF Located, Is, files
    <2> HIDE DEF s
    <2> QED
      BY <2>2 DEF StageStands, Is
  <1>3. CASE journal' = journal
    <2>1. Valid
      BY <1>3 DEF Valid
    <2>2. scratch' = scratch /\ StageStands => StageStands'
      BY <1>3 DEF StageStands
    <2>3. books' = books /\ Installed => Installed'
      BY <1>3 DEF Installed, Holders
    <2>4. StageStands \/ Installed
      BY <2>1 DEF AtomicInv, LandInv, RecordLands
    <2>5. CASE books' = books
      BY <2>1, <2>2, <2>3, <2>4, <2>5, ScratchMoves
    <2>6. CASE books' # books
      <3>1. StageStands
        BY <2>1, <2>6, ReclaimBeside, OldGoes, StandingMeans, InstallMeans, RestoreMeans,
           ShelfMovesOnly DEF ShelfMoves
      <3>2. scratch' = scratch
        BY <2>1, <2>6, ScratchMoves
      <3> QED
        BY <2>2, <3>1, <3>2
    <2> QED
      BY <2>5, <2>6
  <1> QED
    BY <1>1, <1>2, <1>3, RecordSteps

LEMMA MoveHoldsStep ==
    ASSUME AtomicInv, TypeInv', [Next \/ Earlier]_vars
    PROVE  MoveHolds'
  <1> SUFFICES ASSUME pc' = "unlink"
               PROVE  /\ step' = "RetireOldHolder" => ParkedStands' /\ Standing'
                      /\ step' = "InstallStage" => Installed'
                      /\ step' = "RestoreOldHolder" => OldStands'
    BY DEF MoveHolds
  <1>1. TypeInv
    BY DEF AtomicInv, FileInv
  <1>2. CASE RetireOldHolder \/ EarlierRetire
    <2> DEFINE file == Body(books[journal.old.alias])
    <2>1. /\ Valid /\ Standing /\ books' = books /\ journal' = journal
          /\ step' = "RetireOldHolder" /\ parked' = [parked EXCEPT ![journal.rollback] = file]
      BY <1>1, <1>2, RetireStands DEF RetireOldHolder, EarlierRetire
    <2>2. /\ file \in Files /\ Is(journal.old, file) /\ journal.old # None
          /\ journal.rollback \in ParkedNames
      BY <1>1, <2>1, RecordMeans, BookAndBody DEF Standing
    <2> HIDE DEF file
    <2>3. parked'[journal.rollback] = file /\ file # None
      BY <1>1, <2>1, <2>2, NoneAssumption DEF TypeInv, TypeOK
    <2>4. ParkedStands'
      BY <2>1, <2>2, <2>3 DEF ParkedStands, ParkedIsOld, Is
    <2>5. Standing'
      BY <2>1 DEF Standing
    <2> QED
      BY <2>1, <2>4, <2>5
  <1>3. CASE InstallStage
    <2>1. journal' = journal /\ step' = "InstallStage"
      BY <1>3 DEF InstallStage, Apply
    <2>2. Installed'
      BY <1>1, <1>3, <2>1, InstallLands
    <2> QED
      BY <2>1, <2>2
  <1>4. CASE RestoreOldHolder
    <2>1. journal' = journal /\ step' = "RestoreOldHolder"
      BY <1>4 DEF RestoreOldHolder, Apply
    <2>2. Standing'
      BY <1>1, <1>4, <2>1, RestoreStands
    <2> QED
      BY <2>1, <2>2 DEF OldStands
  <1>5. CASE UNCHANGED vars
    <2>1. books' = books /\ parked' = parked /\ journal' = journal /\ pc = "unlink" /\ step' = step
      BY <1>5 DEF vars, card, memory
    <2>2. /\ Standing' = Standing /\ ParkedStands' = ParkedStands /\ Installed' = Installed
          /\ OldStands' = OldStands
      BY <2>1 DEF Standing, ParkedStands, ParkedIsOld, Installed, Holders, OldStands, Restored
    <2> QED
      BY <2>1, <2>2 DEF AtomicInv, LandInv, MoveHolds
  <1> QED
    BY <1>1, <1>2, <1>3, <1>4, <1>5, IntoMove

\* The record is written of the book its name has on the shelf.
LEMMA IntentStands ==
    ASSUME AtomicInv, pc = "record", ParkedNameFree, journal' = Intent, UNCHANGED files
    PROVE  TitleIsOld' /\ OldIsTitled'
  <1> DEFINE n == upload.name
             old == Predecessor(n)
  <1>1. TypeInv /\ n \in LongNames /\ books' = books /\ Listed' = Listed
    BY DEF AtomicInv, FileInv, TypeInv, UploadInHand, Uploaded, Staging, files, Listed
  <1>2. journal'.name = n /\ journal'.old = old
    BY <1>1, IntentMeans DEF Intent, Record
  <1>3. ASSUME NEW a \in Listed, books[a].title = n PROVE old = Located(a, Body(books[a])) /\ old # None
    <2>1. old # None
      BY <1>1, <1>3, PredecessorMeans
    <2>2. PICK b \in Listed : books[b].title = n /\ old = Located(b, Body(books[b]))
      BY <1>1, <2>1, PredecessorMeans
    <2>3. b = a
      BY <1>3, <2>2 DEF AtomicInv, LandInv, OnePerName
    <2> QED
      BY <2>1, <2>2, <2>3
  <1>4. old # None => \E a \in Listed : books[a].title = n /\ old = Located(a, Body(books[a]))
    BY <1>1, PredecessorMeans
  <1> HIDE DEF n, old
  <1>5. TitleIsOld'
    <2> SUFFICES ASSUME NEW a \in Listed, books[a].title = n
                 PROVE  Standing' /\ a = journal'.old.alias
      BY <1>1, <1>2 DEF TitleIsOld
    <2>1. old.alias = a /\ Is(old, Body(books[a])) /\ old # None
      BY <1>3 DEF Located, Is
    <2> QED
      BY <1>1, <1>2, <2>1 DEF Standing, Is, Body, Listed
  <1>6. OldIsTitled'
    <2> SUFFICES ASSUME Standing' PROVE books[old.alias].title = n
      BY <1>1, <1>2 DEF OldIsTitled
    <2>1. PICK a \in Listed : books[a].title = n /\ old = Located(a, Body(books[a]))
      BY <1>2, <1>4 DEF Standing
    <2> QED
      BY <2>1 DEF Located
  <1> QED
    BY <1>5, <1>6

LEMMA TitleStep ==
    ASSUME AtomicInv, [Next \/ Earlier]_vars
    PROVE  TitleIsOld' /\ OldIsTitled'
  <1>1. /\ TypeInv /\ books \in [Aliases -> Entries \cup {None}]
        /\ TitleIsOld /\ OldIsTitled
    BY DEF AtomicInv, FileInv, TypeInv, TypeOK, LandInv
  <1>2. CASE ~Valid'
    BY <1>2 DEF TitleIsOld, OldIsTitled
  <1>3. CASE pc = "record" /\ ParkedNameFree /\ journal' = Intent /\ UNCHANGED files
    BY <1>3, IntentStands
  <1>4. CASE Valid' /\ journal' = journal
    <2>1. Valid /\ journal' = journal
      BY <1>4 DEF Valid
    <2>2. CASE books' = books
      <3>1. Installed' = Installed /\ Standing' = Standing /\ Listed' = Listed /\ Valid' = Valid
        BY <2>1, <2>2 DEF Installed, Holders, Standing, Listed, Valid
      <3> QED
        BY <1>1, <2>1, <2>2, <3>1 DEF TitleIsOld, OldIsTitled
    <2>3. CASE InstallStage
      <3>1. Installed'
        BY <2>3, InstallLands
      <3>2. PICK a \in Aliases \ Listed :
              books' = [books EXCEPT ![a] =
                          Book(journal.name, FALSE, scratch[journal.stage.alias])]
        BY <2>3, InstallMeans
      <3>3. \A b \in Aliases : b # a => books'[b] = books[b]
        BY <1>1, <3>2
      <3>4. books'[a].title = journal.name
        BY <1>1, <3>2 DEF Book
      <3>5. OldIsTitled'
        <4> SUFFICES ASSUME Standing' PROVE books'[journal.old.alias].title = journal.name
          BY <2>1 DEF OldIsTitled
        <4>1. CASE journal.old.alias = a
          BY <3>4, <4>1
        <4>2. CASE journal.old.alias # a
          <5>1. journal.old # None
            BY <2>1 DEF Standing
          <5>2. journal.old.alias \in Aliases
            BY <1>1, <2>1, <5>1, RecordMeans
          <5>3. books'[journal.old.alias] = books[journal.old.alias]
            BY <3>3, <4>2, <5>2
          <5>4. Standing
            BY <2>1, <5>3 DEF Standing
          <5> QED
            BY <1>1, <2>1, <5>3, <5>4 DEF OldIsTitled
        <4> QED
          BY <4>1, <4>2
      <3> QED
        BY <3>1, <3>5 DEF TitleIsOld
    <2>4. CASE RestoreOldHolder
      <3> DEFINE at == journal.old.alias
      <3>1. /\ at \in Aliases /\ \A a \in Listed : books[a].title # journal.name
            /\ books' = [books EXCEPT ![at] = Book(journal.name, TRUE, parked[journal.rollback])]
        BY <2>4, RestoreMeans
      <3>2. Standing'
        BY <2>4, RestoreStands
      <3> HIDE DEF at
      <3>3. /\ books'[at].title = journal.name
            /\ \A b \in Aliases : b # at => books'[b] = books[b]
        BY <1>1, <3>1 DEF Book
      <3>4. \A b \in Listed' : books'[b].title = journal.name => b = at
        BY <3>1, <3>3 DEF Listed
      <3> QED
        BY <2>1, <3>2, <3>3, <3>4 DEF TitleIsOld, OldIsTitled, at
    <2>5. CASE (UnlinkOldHolder \/ UnlinkSource) /\ books' # books
      <3>1. Standing /\ books' = [books EXCEPT ![journal.old.alias] = None]
        BY <2>5, OldGoes
      <3>2. /\ journal.old.alias \in Listed
            /\ \A a \in Listed : books[a].title = journal.name => a = journal.old.alias
        BY <2>1, <3>1, StandingMeans
      <3>3. /\ books'[journal.old.alias] = None
            /\ \A b \in Aliases : b # journal.old.alias => books'[b] = books[b]
        BY <1>1, <3>1, <3>2 DEF Listed
      <3>4. ~Standing' /\ \A a \in Listed' : books'[a].title # journal.name
        BY <2>1, <3>2, <3>3 DEF Standing, Listed
      <3> QED
        BY <2>1, <3>4 DEF TitleIsOld, OldIsTitled
    <2>6. CASE ReclaimUnlink
      BY <2>1, <2>2, <2>6, ReclaimBeside
    <2> QED
      BY <2>2, <2>3, <2>4, <2>5, <2>6, ShelfMovesOnly DEF ShelfMoves
  <1> QED
    BY <1>1, <1>2, <1>3, <1>4, RecordSteps

LEMMA ClearDoneStep ==
    ASSUME AtomicInv, TypeInv', [Next \/ Earlier]_vars
    PROVE  ClearDone'
  <1> SUFFICES ASSUME pc' = "clear", Valid' PROVE ~ParkedStands'
    BY DEF ClearDone
  <1>1. /\ pc \in {"discard", "remove"} => resume \in {"sweep", "stage", "session"}
        /\ TypeInv
    BY DEF AtomicInv, FileInv, TypeInv, VictimInHand
  <1>2. PlanDone \/ UNCHANGED vars
    <2>1. CASE Pass
      <3>1. CASE \/ ReclaimUnlink \/ ReclaimFree \/ ReclaimSettled
                 \/ RetireOldHolder \/ UnlinkOldHolder \/ InstallStage \/ UnlinkStage
                 \/ ReclaimRollback \/ RestoreOldHolder \/ UnlinkRollbackCopy \/ UnlinkSource
        BY <3>1 DEF ReclaimUnlink, ReclaimFree, ReclaimSettled, RetireOldHolder,
                    UnlinkOldHolder, InstallStage, UnlinkStage, ReclaimRollback,
                    RestoreOldHolder, UnlinkRollbackCopy, UnlinkSource, Planned, Apply
      <3>2. CASE \/ StopBlocked \/ PlanDone
                 \/ SweepNext \/ SweepEnd \/ DiscardShared \/ DiscardTruncate \/ RemoveTruncated
                 \/ PassDone \/ PassStopped \/ PublishCatalog
        BY <1>1, <3>2
           DEF StopBlocked, SweepNext, SweepEnd, DiscardShared, DiscardTruncate,
               RemoveTruncated, PassDone, PassStopped, PublishCatalog
      <3>3. CASE ReadIntent
        <4>1. ~(pc' = "clear" /\ Valid)
          <5> SUFFICES ASSUME Valid PROVE pc' # "clear"
            OBVIOUS
          <5>1. ~NoInstall /\ journal # Truncated /\ journal # Absent
            BY <1>1, RecordOrNone DEF Valid
          <5>2. pc' = "observe"
            BY <3>3, <5>1 DEF ReadIntent
          <5> QED
            BY <5>2
        <4> QED
          BY <3>3, <4>1 DEF ReadIntent, Valid
      <3>4. CASE ClearIntent
        BY <1>1, <3>4, RecordOrNone DEF ClearIntent, Valid
      <3> QED
        BY <2>1, <3>1, <3>2, <3>3, <3>4 DEF Pass
    <2>2. CASE BootFromCatalog \/ Scan \/ StartSession \/ Retry
      BY <2>2 DEF BootFromCatalog, Scan, StartSession, Retry, BeginPass
    <2>3. CASE Uploading
      BY <2>3 DEF Uploading, BeginUpload, StageUpload, CreateScratch, Abandon, CloseScratch,
                  BeginReplace, WriteIntent
    <2>4. CASE (\E a \in Aliases : DeleteBook(a)) \/ Fail \/ Crash
      BY <2>4 DEF DeleteBook, Fail, StopsPass, LeavesLeftover, FailsCommand, FailsScan, Crash
    <2>5. CASE Earlier
      BY <2>5 DEF Earlier, EarlierBegin, StageUpload, EarlierOwesNothing, EarlierRetire, Apply
    <2> QED
      BY <2>1, <2>2, <2>3, <2>4, <2>5 DEF Next
  <1>3. CASE PlanDone
    <2>1. ~ParkedStands /\ parked' = parked /\ journal' = journal
      BY <1>3, PlanMeans DEF PlanDone, Planned, card
    <2> QED
      BY <2>1 DEF ParkedStands, ParkedIsOld
  <1>4. CASE UNCHANGED vars
    BY <1>4 DEF vars, card, AtomicInv, LandInv, ClearDone, ParkedStands, ParkedIsOld, Valid
  <1> QED
    BY <1>2, <1>3, <1>4

LEMMA AtomicStep == AtomicInv /\ [Next \/ Earlier]_vars => AtomicInv'
  <1> SUFFICES ASSUME AtomicInv, [Next \/ Earlier]_vars PROVE AtomicInv'
    OBVIOUS
  <1>1. FileInv' /\ TypeInv'
    BY FileStep DEF AtomicInv, FileInv
  <1>2. RecordApart'
    BY ApartStep DEF AtomicInv
  <1> QED
    BY <1>1, <1>2, OnePerNameStep, RecordLandsStep, TitleStep, MoveHoldsStep, ClearDoneStep
    DEF AtomicInv, LandInv

LEMMA AtomicInit == Init => AtomicInv
  <1> SUFFICES ASSUME Init PROVE AtomicInv
    OBVIOUS
  <1>1. ~Valid /\ pc = "off"
    BY DEF Init, Asleep, Valid, Absent
  <1>2. OnePerName
    <2> SUFFICES ASSUME NEW a \in Listed, NEW b \in Listed, books[a].title = books[b].title
                 PROVE  a = b
      BY DEF OnePerName
    <2>1. PICK titles \in SUBSET LongNames :
            \E legacy \in SUBSET titles, at \in [titles -> Aliases],
               where \in [titles -> Chains], what \in [titles -> Books] :
              Stocked(titles, legacy, at, where, what)
      BY DEF Init, AnyShelf
    <2>2. PICK legacy \in SUBSET titles, at \in [titles -> Aliases],
               where \in [titles -> Chains], what \in [titles -> Books] :
              Stocked(titles, legacy, at, where, what)
      BY <2>1
    <2>3. ASSUME NEW c \in Listed PROVE books[c].title \in titles /\ at[books[c].title] = c
      <3> DEFINE m == CHOOSE m \in titles : at[m] = c
      <3>1. m \in titles /\ at[m] = c /\ books[c] = Book(m, m \in legacy, File(where[m], what[m]))
        BY <2>2, <2>3 DEF Stocked, Listed
      <3> HIDE DEF m
      <3> QED
        BY <3>1 DEF Book
    <2> QED
      BY <2>3
  <1> QED
    BY <1>1, <1>2, FileInit
    DEF AtomicInv, RecordApart, LandInv, RecordLands, TitleIsOld, OldIsTitled, MoveHolds, ClearDone

\* Where a name's book is read: its entry on the shelf, or the predecessor
\* parked for an upload that has not landed.
Copies == [n \in LongNames |-> CopyOf(n)]
ParkedCounts == Valid /\ ParkedStands /\ ~Installed
NameListed(n) == \E a \in Listed : books[a].title = n
ParkedUnder(n) ==
    IF ParkedCounts /\ journal.name = n THEN parked[journal.rollback].is ELSE None

CopyMeans ==
    \A n \in LongNames :
        /\ \A a \in Listed : books[a].title = n => Copies[n] = books[a].is
        /\ ~NameListed(n) => Copies[n] = ParkedUnder(n)

LEMMA CopyIs == AtomicInv => CopyMeans
  <1> SUFFICES ASSUME AtomicInv, NEW n \in LongNames
               PROVE  /\ \A a \in Listed : books[a].title = n => Copies[n] = books[a].is
                      /\ ~NameListed(n) => Copies[n] = ParkedUnder(n)
    BY DEF CopyMeans
  <1>1. /\ TypeInv /\ ListedReadable /\ OldKept /\ OnePerName
        /\ Copies[n] = CopyOf(n)
    BY DEF AtomicInv, FileInv, CardInv, LandInv, Copies
  <1> DEFINE found == IF Holders(n) # {} THEN Holders(n) ELSE Legacies(n)
  <1>2. found \subseteq {a \in Listed : books[a].title = n}
    BY DEF Holders, Legacies, Listed
  <1>3. ASSUME NEW a \in Listed, books[a].title = n PROVE Copies[n] = books[a].is
    <2>1. a \in found
      <3>1. a \in Holders(n) \/ a \in Legacies(n)
        BY <1>1, <1>3 DEF Holders, Legacies, Listed, TypeInv, TypeOK, Entries
      <3>2. \A b \in Listed : books[b].title = n => b = a
        BY <1>1, <1>3 DEF OnePerName
      <3>3. Holders(n) # {} => a \in Holders(n)
        BY <3>2 DEF Holders, Listed
      <3> QED
        BY <3>1, <3>3
    <2>2. found = {a}
      BY <1>1, <1>2, <1>3, <2>1 DEF OnePerName
    <2>3. (CHOOSE b \in found : TRUE) = a
      BY <2>2
    <2>4. CopyOf(n) = Whole(books[a])
      BY <2>1, <2>3 DEF CopyOf
    <2>5. Whole(books[a]) = books[a].is
      BY <1>1 DEF Whole, ListedReadable
    <2> QED
      BY <1>1, <2>4, <2>5
  <1>4. ASSUME ~NameListed(n) PROVE Copies[n] = ParkedUnder(n)
    <2>1. found = {}
      BY <1>2, <1>4 DEF NameListed
    <2>2. CASE ParkedCounts /\ journal.name = n
      <3>1. Whole(parked[journal.rollback]) = parked[journal.rollback].is
        BY <1>1, <2>2 DEF Whole, OldKept, ParkedCounts
      <3> QED
        BY <1>1, <2>1, <2>2, <3>1 DEF CopyOf, ParkedUnder, ParkedCounts
    <2>3. CASE ~(ParkedCounts /\ journal.name = n)
      BY <1>1, <2>1, <2>3 DEF CopyOf, ParkedUnder, ParkedCounts
    <2> QED
      BY <2>2, <2>3
  <1> QED
    BY <1>3, <1>4

LEMMA CopyIsNext == AtomicInv' => CopyMeans'
  BY CopyIs, PTL

\* Where the predecessor stands after a step, the upload has not landed.
LEMMA StandingNext == AtomicInv' /\ Valid' /\ Standing' => ~Installed'
  <1>1. AtomicInv /\ Valid /\ Standing => ~Installed
    BY StandingMeans
  <1> QED
    BY <1>1, PTL

\* No copy is parked or taken from there but for a name that is on the shelf,
\* or one whose upload is.
LEMMA ParkedMoves ==
    ASSUME AtomicInv, Valid, [Next \/ Earlier]_vars
    PROVE  parked' = parked \/ Installed \/ NameListed(journal.name)
  <1>1. TypeInv /\ pc \notin Staging \cup Sweeping \cup {"done"} /\ (pc = "unlink" => step \in Moves)
    BY RecordOrNone DEF AtomicInv, FileInv, TypeInv, Control
  <1>2. OldStands => NameListed(journal.name)
    BY StandingMeans DEF OldStands, Restored, Holders, Listed, NameListed
  <1> USE DEF card, files
  <1>3. CASE RetireOldHolder
    BY <1>2, <1>3, PlanMeans DEF RetireOldHolder, Planned
  <1>4. CASE UnlinkRollbackCopy
    BY <1>2, <1>4, PlanMeans DEF UnlinkRollbackCopy, Planned
  <1>5. CASE UnlinkSource
    BY <1>1, <1>2, <1>5 DEF UnlinkSource, Moves, AtomicInv, LandInv, MoveHolds
  <1>6. CASE ReclaimUnlink
    BY <1>6, ReclaimBeside
  <1>7. CASE \/ ReclaimFree \/ ReclaimSettled \/ ReadIntent
             \/ UnlinkOldHolder \/ InstallStage \/ UnlinkStage
             \/ ReclaimRollback \/ RestoreOldHolder
    BY <1>7 DEF ReclaimFree, ReclaimSettled, ReadIntent, UnlinkOldHolder, InstallStage,
                UnlinkStage, ReclaimRollback, RestoreOldHolder
  <1>8. CASE \/ StopBlocked \/ PlanDone \/ ClearIntent
             \/ SweepNext \/ SweepEnd \/ DiscardShared \/ DiscardTruncate \/ RemoveTruncated
             \/ PassDone \/ PassStopped \/ PublishCatalog
    BY <1>1, <1>8 DEF StopBlocked, PlanDone, ClearIntent, SweepNext, SweepEnd, DiscardShared,
                      DiscardTruncate, RemoveTruncated, PassDone, PassStopped, PublishCatalog,
                      Sweeping
  <1>9. CASE \/ BootFromCatalog \/ Scan \/ StartSession \/ Retry \/ Uploading
             \/ (\E a \in Aliases : DeleteBook(a))
    BY <1>1, <1>9 DEF BootFromCatalog, Scan, StartSession, Retry, Uploading, BeginUpload,
                      StageUpload, CreateScratch, Abandon, CloseScratch, BeginReplace,
                      WriteIntent, DeleteBook, Staging
  <1>10. CASE Fail \/ Crash \/ EarlierOwesNothing
              \/ (\E n \in LongNames, c \in Books : StageUpload(n, c))
    BY <1>10 DEF Fail, StopsPass, LeavesLeftover, FailsCommand, FailsScan, Crash,
                 StageUpload, EarlierOwesNothing
  <1>11. CASE EarlierRetire
    BY <1>2, <1>11 DEF EarlierRetire, OldStands
  <1>12. CASE UNCHANGED vars
    BY <1>12 DEF vars
  <1> QED
    BY <1>3, <1>4, <1>5, <1>6, <1>7, <1>8, <1>9, <1>10, <1>11, <1>12
    DEF Next, Pass, Earlier, EarlierBegin

\* A record goes when nothing is parked for it, and nothing else goes with it.
LEMMA RecordGoes ==
    ASSUME AtomicInv, Valid, [Next \/ Earlier]_vars, ~Valid'
    PROVE  ~ParkedStands /\ UNCHANGED <<books, reclaim>>
  <1>1. TypeInv /\ pc # "record"
    BY RecordOrNone DEF AtomicInv, FileInv, TypeInv, Control, Staging
  <1>2. journal' # journal
    BY DEF Valid
  <1>3. ClearIntent
    <2>1. CASE \/ ReclaimUnlink \/ ReclaimFree \/ ReclaimSettled \/ ReadIntent
               \/ RetireOldHolder \/ UnlinkOldHolder \/ InstallStage \/ UnlinkStage
               \/ ReclaimRollback \/ RestoreOldHolder \/ UnlinkRollbackCopy \/ UnlinkSource
      BY <1>2, <2>1 DEF ReclaimUnlink, ReclaimFree, ReclaimSettled, ReadIntent,
           RetireOldHolder, UnlinkOldHolder, InstallStage, UnlinkStage, ReclaimRollback,
           RestoreOldHolder, UnlinkRollbackCopy, UnlinkSource, Apply, card, files
    <2>2. CASE \/ StopBlocked \/ PlanDone
               \/ SweepNext \/ SweepEnd \/ DiscardShared \/ DiscardTruncate \/ RemoveTruncated
               \/ PassDone \/ PassStopped \/ PublishCatalog
      BY <1>2, <2>2
         DEF StopBlocked, PlanDone, SweepNext, SweepEnd, DiscardShared, DiscardTruncate,
             RemoveTruncated, PassDone, PassStopped, PublishCatalog, card, files
    <2>3. CASE \/ BootFromCatalog \/ Scan \/ StartSession \/ Retry \/ Uploading
               \/ (\E a \in Aliases : DeleteBook(a))
      BY <1>1, <1>2, <2>3 DEF BootFromCatalog, Scan, StartSession, Retry, Uploading,
           BeginUpload, StageUpload, CreateScratch, Abandon, CloseScratch, BeginReplace,
           WriteIntent, DeleteBook, card, files
    <2>4. CASE Fail \/ Crash \/ Earlier
      BY <1>1, <1>2, <2>4 DEF Fail, StopsPass, LeavesLeftover, FailsCommand, FailsScan, Crash,
           Earlier, EarlierBegin, StageUpload, EarlierOwesNothing, EarlierRetire, Apply, card, files
    <2>5. CASE UNCHANGED vars
      BY <1>2, <2>5 DEF vars, card
    <2> QED
      BY <2>1, <2>2, <2>3, <2>4, <2>5 DEF Next, Pass
  <1> QED
    BY <1>3 DEF ClearIntent, AtomicInv, LandInv, ClearDone, files

\* While the shelf stands still, so does every copy.
LEMMA CopiesStay ==
    ASSUME AtomicInv, AtomicInv', [Next \/ Earlier]_vars, books' = books
    PROVE  Copies' = Copies
  <1>1. CopyMeans /\ CopyMeans' /\ TypeInv
    BY CopyIs, CopyIsNext DEF AtomicInv, FileInv
  <1>2. Listed' = Listed /\ \A n \in LongNames : NameListed(n)' = NameListed(n)
    BY DEF Listed, NameListed
  <1>3. ASSUME NEW n \in LongNames, ~NameListed(n) PROVE ParkedUnder(n)' = ParkedUnder(n)
    <2>1. CASE Valid /\ journal' = journal
      <3>1. Installed' = Installed /\ Valid'
        BY <2>1 DEF Installed, Holders, Valid
      <3>2. CASE parked' = parked
        BY <2>1, <3>1, <3>2 DEF ParkedUnder, ParkedCounts, ParkedStands, ParkedIsOld
      <3>3. CASE Installed
        BY <3>1, <3>3 DEF ParkedUnder, ParkedCounts
      <3>4. CASE NameListed(journal.name)
        BY <1>3, <2>1, <3>4 DEF ParkedUnder
      <3> QED
        BY <2>1, <3>2, <3>3, <3>4, ParkedMoves
    <2>2. CASE Valid /\ ~Valid'
      BY <2>2, RecordGoes DEF ParkedUnder, ParkedCounts
    <2>3. CASE ~Valid /\ ~Valid'
      BY <2>3 DEF ParkedUnder, ParkedCounts
    <2>4. CASE pc = "record" /\ ParkedNameFree /\ journal' = Intent /\ UNCHANGED files
      <3>1. ~Valid
        BY <1>1, <2>4, RecordOrNone DEF TypeInv, Control, Staging
      <3>2. parked[Intent.rollback] = None /\ parked' = parked
        BY <1>1, <2>4, IntentMeans DEF files
      <3>3. ~ParkedStands'
        BY <2>4, <3>2 DEF ParkedStands
      <3> QED
        BY <3>1, <3>3 DEF ParkedUnder, ParkedCounts
    <2>5. journal' = journal => Valid' = Valid
      BY DEF Valid
    <2> QED
      BY <1>1, <2>1, <2>2, <2>3, <2>4, <2>5, RecordSteps
  <1>4. ASSUME NEW n \in LongNames PROVE Copies'[n] = Copies[n]
    <2>1. CASE NameListed(n)
      <3>1. PICK a \in Listed : books[a].title = n
        BY <2>1 DEF NameListed
      <3> QED
        BY <1>1, <1>2, <3>1 DEF CopyMeans
    <2>2. CASE ~NameListed(n)
      <3>1. ~NameListed(n)'
        BY <1>2, <2>2
      <3> QED
        BY <1>1, <1>3, <2>2, <3>1 DEF CopyMeans
    <2> QED
      BY <2>1, <2>2
  <1> QED
    BY <1>4 DEF Copies

\* Beside a record nobody is deleting a book.
LEMMA NoDeleteBeside == AtomicInv /\ Valid => ~Deleting
  BY DEF AtomicInv, FileInv, CardInv, ReclaimKept, Deleting

LEMMA NoDeleteNext == AtomicInv' /\ Valid' => ~Deleting'
  BY NoDeleteBeside, PTL

\* What a record asks for.
LEMMA RequestMeans ==
    ASSUME AtomicInv
    PROVE  /\ Deleting => /\ reclaim.key \in Listed /\ ~Valid
                          /\ books[reclaim.key].title \in LongNames
                          /\ OnRecord = [name |-> books[reclaim.key].title, content |-> None]
           /\ Valid /\ ~Installed =>
                /\ journal.name \in LongNames
                /\ scratch[journal.stage.alias] \in Files
                /\ OnRecord = [name |-> journal.name, content |-> scratch[journal.stage.alias].is]
           /\ ~Deleting /\ ~(Valid /\ ~Installed) => OnRecord = None
           /\ OnRecord # None => Deleting \/ (Valid /\ ~Installed)
           /\ Deleting \/ (Valid /\ ~Installed) => OnRecord # None
  <1>1. TypeInv /\ ReclaimKey /\ books \in [Aliases -> Entries \cup {None}]
    BY DEF AtomicInv, FileInv, TypeInv, TypeOK
  <1>2. ASSUME Deleting
        PROVE  /\ reclaim.key \in Listed /\ ~Valid
               /\ books[reclaim.key].title \in LongNames
               /\ OnRecord = [name |-> books[reclaim.key].title, content |-> None]
               /\ OnRecord # None
    <2>1. reclaim.key \in Listed /\ ~Valid
      BY <1>1, <1>2, NoDeleteBeside DEF Deleting, ReclaimKey, Listed
    <2>2. books[reclaim.key].title \in LongNames
      BY <1>1, <2>1 DEF Listed, Entries
    <2>3. OnRecord = [name |-> books[reclaim.key].title, content |-> None]
      BY <1>2 DEF OnRecord
    <2>4. OnRecord \in [name : LongNames, content : Held \cup {None}]
      BY <2>2, <2>3
    <2> QED
      BY <2>1, <2>2, <2>3, <2>4, NoneAssumption
  <1>3. ASSUME Valid, ~Installed
        PROVE  /\ journal.name \in LongNames
               /\ scratch[journal.stage.alias] \in Files
               /\ OnRecord = [name |-> journal.name, content |-> scratch[journal.stage.alias].is]
               /\ OnRecord # None
    <2>1. StageStands
      BY <1>3 DEF AtomicInv, LandInv, RecordLands
    <2>2. journal.name \in LongNames /\ scratch[journal.stage.alias] \in Files
      BY <1>1, <1>3, <2>1, RecordMeans
    <2>3. OnRecord = [name |-> journal.name, content |-> scratch[journal.stage.alias].is]
      BY <1>3, NoDeleteBeside DEF OnRecord
    <2>4. OnRecord \in [name : LongNames, content : Held \cup {None}]
      BY <2>2, <2>3 DEF Files
    <2> QED
      BY <2>2, <2>3, <2>4, NoneAssumption
  <1>4. ~Deleting /\ ~(Valid /\ ~Installed) => OnRecord = None
    BY DEF OnRecord
  <1> QED
    BY <1>2, <1>3, <1>4

\* What changes the reclaim on record.
LEMMA ReclaimSteps ==
    ASSUME [Next \/ Earlier]_vars
    PROVE  reclaim' = reclaim \/ ReclaimFree \/ ReclaimRollback \/ \E a \in Aliases : DeleteBook(a)
  <1> USE DEF card, files
  <1>1. CASE \/ ReclaimUnlink \/ ReclaimSettled \/ ReadIntent
             \/ RetireOldHolder \/ UnlinkOldHolder \/ InstallStage \/ UnlinkStage
             \/ RestoreOldHolder \/ UnlinkRollbackCopy \/ UnlinkSource
    BY <1>1 DEF ReclaimUnlink, ReclaimSettled, ReadIntent, RetireOldHolder, UnlinkOldHolder,
                InstallStage, UnlinkStage, RestoreOldHolder, UnlinkRollbackCopy, UnlinkSource
  <1>2. CASE \/ StopBlocked \/ PlanDone \/ ClearIntent
             \/ SweepNext \/ SweepEnd \/ DiscardShared \/ DiscardTruncate \/ RemoveTruncated
             \/ PassDone \/ PassStopped \/ PublishCatalog
    BY <1>2 DEF StopBlocked, PlanDone, ClearIntent, SweepNext, SweepEnd, DiscardShared,
                DiscardTruncate, RemoveTruncated, PassDone, PassStopped, PublishCatalog
  <1>3. CASE BootFromCatalog \/ Scan \/ StartSession \/ Retry \/ Uploading
    BY <1>3 DEF BootFromCatalog, Scan, StartSession, Retry, Uploading, BeginUpload,
                StageUpload, CreateScratch, Abandon, CloseScratch, BeginReplace, WriteIntent
  <1>4. CASE Fail \/ Crash \/ Earlier
    BY <1>4 DEF Fail, StopsPass, LeavesLeftover, FailsCommand, FailsScan, Crash, Earlier,
                EarlierBegin, StageUpload, EarlierOwesNothing, EarlierRetire
  <1>5. CASE UNCHANGED vars
    BY <1>5 DEF vars
  <1> QED
    BY <1>1, <1>2, <1>3, <1>4, <1>5 DEF Next, Pass

Requests == [name : LongNames, content : Books \cup {None}]

\* While the shelf stands still, a request is put on record, kept or dropped.
LEMMA RequestSteps ==
    ASSUME AtomicInv, AtomicInv', [Next \/ Earlier]_vars, books' = books
    PROVE  \/ OnRecord' = OnRecord
           \/ OnRecord = None /\ OnRecord' \in Requests
           \/ OnRecord' = None
  <1>1. /\ TypeInv /\ ReclaimKey /\ books \in [Aliases -> Entries \cup {None}]
        /\ journal' = journal => Valid' = Valid
    BY DEF AtomicInv, FileInv, TypeInv, TypeOK, Valid
  <1>2. CASE Valid /\ ~Valid'
    <2>1. reclaim' = reclaim /\ ~Deleting
      BY <1>2, RecordGoes, NoDeleteBeside
    <2>2. ~Deleting'
      BY <2>1 DEF Deleting
    <2> QED
      BY <1>2, <2>2 DEF OnRecord
  <1>3. CASE Valid /\ journal' = journal
    <2>1. ~Deleting /\ ~Deleting' /\ Valid' /\ Installed' = Installed
      BY <1>1, <1>3, NoDeleteBeside, NoDeleteNext DEF Installed, Holders
    <2>2. CASE Installed
      BY <2>1, <2>2 DEF OnRecord
    <2>3. CASE scratch' = scratch
      BY <1>3, <2>1, <2>3 DEF OnRecord
    <2> QED
      BY <1>3, <2>2, <2>3, ScratchMoves
  <1>4. CASE pc = "record" /\ ParkedNameFree /\ journal' = Intent /\ UNCHANGED files
    <2>1. ~Valid /\ reclaim = None
      BY <1>1, <1>4, RecordOrNone DEF TypeInv, Control, Staging, Resting
    <2>2. OnRecord = None
      BY <2>1 DEF OnRecord, Deleting
    <2>3. /\ Valid' /\ journal'.name = upload.name /\ upload.name \in LongNames
          /\ journal'.stage.alias = ScratchOf[upload.name]
      BY <1>1, <1>4, IntentMeans DEF Valid, Located, TypeInv, UploadInHand, Uploaded, Staging
    <2>4. scratch'[journal'.stage.alias].is \in Books
      <3>1. /\ scratch' = scratch /\ upload.is \in Books
            /\ scratch[ScratchOf[upload.name]].is = upload.is
        BY <1>1, <1>4 DEF files, TypeInv, UploadInHand, Uploaded, Staging,
                          AtomicInv, FileInv, UploadKept
      <3> QED
        BY <2>3, <3>1
    <2>5. ~Deleting'
      BY <2>3, NoDeleteNext
    <2>6. CASE Installed'
      BY <2>5, <2>6 DEF OnRecord
    <2>7. CASE ~Installed'
      <3>1. OnRecord' = [name |-> journal'.name, content |-> scratch'[journal'.stage.alias].is]
        BY <2>3, <2>5, <2>7 DEF OnRecord
      <3> QED
        BY <2>2, <2>3, <2>4, <3>1 DEF Requests
    <2> QED
      BY <2>6, <2>7
  <1>5. CASE ~Valid /\ ~Valid'
    <2>1. CASE reclaim' = reclaim
      <3>1. Deleting' = Deleting
        BY <2>1 DEF Deleting
      <3> QED
        BY <1>5, <2>1, <3>1 DEF OnRecord
    <2>2. CASE ReclaimFree
      BY <1>5, <2>2 DEF ReclaimFree, OnRecord, Deleting
    <2>3. CASE ReclaimRollback
      BY <1>1, <1>5, <2>3 DEF ReclaimRollback, Planned, TypeInv, Control
    <2>4. ASSUME NEW a \in Aliases, DeleteBook(a)
          PROVE  OnRecord = None /\ (OnRecord' = None \/ OnRecord' \in Requests)
      <3>1. /\ OnRecord = None /\ books[a] \in Entries /\ reclaim'.key = a
        BY <1>1, <1>5, <2>4 DEF DeleteBook, StorageSettled, OnRecord, Deleting
      <3>2. CASE Deleting'
        <4>1. OnRecord' = [name |-> books[a].title, content |-> None]
          BY <3>1, <3>2 DEF OnRecord
        <4> QED
          BY <3>1, <4>1 DEF Requests, Entries
      <3>3. CASE ~Deleting'
        BY <1>5, <3>1, <3>3 DEF OnRecord
      <3> QED
        BY <3>1, <3>2, <3>3
    <2> QED
      BY <2>1, <2>2, <2>3, <2>4, ReclaimSteps
  <1> QED
    BY <1>1, <1>2, <1>3, <1>4, <1>5, RecordSteps

\* An entry leaves the shelf: what any other name holds stays.
LEMMA OthersStayWithout ==
    ASSUME AtomicInv, AtomicInv', NEW a \in Listed, NEW m \in LongNames, books[a].title = m,
           books' = [books EXCEPT ![a] = None],
           \A n \in LongNames : n # m => ParkedUnder(n)' = ParkedUnder(n)
    PROVE  /\ \A n \in LongNames : n # m => Copies'[n] = Copies[n]
           /\ ~NameListed(m)'
  <1>1. /\ books \in [Aliases -> Entries \cup {None}] /\ CopyMeans /\ CopyMeans'
        /\ \A b, c \in Listed : books[b].title = books[c].title => b = c
    BY CopyIs, CopyIsNext DEF AtomicInv, FileInv, TypeInv, TypeOK, LandInv, OnePerName
  <1>2. books'[a] = None /\ \A b \in Aliases : b # a => books'[b] = books[b]
    BY <1>1 DEF Listed
  <1>3. Listed' = Listed \ {a} /\ \A b \in Listed' : books'[b] = books[b]
    BY <1>2 DEF Listed
  <1>4. ~NameListed(m)'
    BY <1>1, <1>3 DEF NameListed
  <1>5. ASSUME NEW n \in LongNames, n # m PROVE Copies'[n] = Copies[n]
    <2>1. CASE NameListed(n)
      <3>1. PICK b \in Listed : books[b].title = n
        BY <2>1 DEF NameListed
      <3>2. b \in Listed' /\ books'[b] = books[b]
        BY <1>3, <1>5, <3>1
      <3> QED
        BY <1>1, <3>1, <3>2 DEF CopyMeans
    <2>2. CASE ~NameListed(n)
      <3>1. ~NameListed(n)'
        BY <1>3, <2>2 DEF NameListed
      <3> QED
        BY <1>1, <1>5, <2>2, <3>1 DEF CopyMeans
    <2> QED
      BY <2>1, <2>2
  <1> QED
    BY <1>4, <1>5

\* An entry comes to the shelf under a name that was not there.
LEMMA OthersStayBeside ==
    ASSUME AtomicInv, AtomicInv', NEW a \in Aliases \ Listed, NEW new \in Entries,
           books' = [books EXCEPT ![a] = new], ~NameListed(new.title),
           \A n \in LongNames : n # new.title => ParkedUnder(n)' = ParkedUnder(n)
    PROVE  \A n \in LongNames : Copies'[n] = IF n = new.title THEN new.is ELSE Copies[n]
  <1>1. books \in [Aliases -> Entries \cup {None}] /\ CopyMeans /\ CopyMeans' /\ new # None
    BY CopyIs, CopyIsNext, NoneAssumption DEF AtomicInv, FileInv, TypeInv, TypeOK
  <1>2. books'[a] = new /\ \A b \in Aliases : b # a => books'[b] = books[b]
    BY <1>1
  <1>3. Listed' = Listed \cup {a} /\ \A b \in Listed : books'[b] = books[b]
    BY <1>1, <1>2 DEF Listed
  <1>4. ASSUME NEW n \in LongNames, n # new.title PROVE Copies'[n] = Copies[n]
    <2>1. CASE NameListed(n)
      <3>1. PICK b \in Listed : books[b].title = n
        BY <2>1 DEF NameListed
      <3>2. b \in Listed' /\ books'[b] = books[b]
        BY <1>3, <3>1
      <3> QED
        BY <1>1, <3>1, <3>2 DEF CopyMeans
    <2>2. CASE ~NameListed(n)
      <3>1. ~NameListed(n)'
        BY <1>2, <1>3, <1>4, <2>2 DEF NameListed
      <3> QED
        BY <1>1, <1>4, <2>2, <3>1 DEF CopyMeans
    <2> QED
      BY <2>1, <2>2
  <1>5. ASSUME NEW n \in LongNames, n = new.title PROVE Copies'[n] = new.is
    BY <1>1, <1>2, <1>3, <1>5 DEF CopyMeans
  <1> QED
    BY <1>4, <1>5

\* A reclaim takes the name that was asked for off the shelf.
LEMMA ReclaimServes ==
    ASSUME AtomicInv, AtomicInv', ReclaimUnlink, books' # books
    PROVE  Library!Serve
  <1>1. /\ TypeInv /\ ReclaimKey /\ ~Valid /\ ~Valid'
        /\ reclaim' = reclaim /\ books' = [books EXCEPT ![reclaim.key] = None]
        /\ Deleting
    <2>1. reclaim.dir = "books"
      BY DEF ReclaimUnlink
    <2>2. ~Valid
      BY ReclaimBeside
    <2> QED
      BY <2>1, <2>2 DEF ReclaimUnlink, AtomicInv, FileInv, TypeInv, Deleting, Named, Valid
  <1>2. /\ reclaim.key \in Listed /\ books[reclaim.key].title \in LongNames
        /\ OnRecord = [name |-> books[reclaim.key].title, content |-> None]
        /\ OnRecord # None
    BY <1>1, RequestMeans
  <1>3. OnRecord' = None
    <2>1. books'[reclaim.key] = None
      BY <1>1, <1>2 DEF TypeInv, TypeOK, Listed
    <2> QED
      BY <1>1, <2>1 DEF OnRecord, Deleting
  <1>4. \A n \in LongNames : ParkedUnder(n) = None /\ ParkedUnder(n)' = None
    BY <1>1 DEF ParkedUnder, ParkedCounts
  <1>5. PICK a \in Listed, m \in LongNames : a = reclaim.key /\ m = books[a].title
    BY <1>2
  <1>6. (\A n \in LongNames : n # m => Copies'[n] = Copies[n]) /\ Copies'[m] = None
    <2>1. (\A n \in LongNames : n # m => Copies'[n] = Copies[n]) /\ ~NameListed(m)'
      BY <1>1, <1>4, <1>5, OthersStayWithout
    <2> QED
      BY <1>4, <2>1, CopyIsNext DEF CopyMeans
  <1>7. Copies' = [Copies EXCEPT ![OnRecord.name] = OnRecord.content]
    BY <1>2, <1>5, <1>6 DEF Copies
  <1> QED
    BY <1>2, <1>3, <1>7 DEF Library!Serve, Copies

\* An upload lands.
LEMMA InstallServes ==
    ASSUME AtomicInv, AtomicInv', InstallStage
    PROVE  Library!Serve
  <1> DEFINE file == scratch[journal.stage.alias]
             new == Book(journal.name, FALSE, file)
  <1>1. /\ Valid /\ ~Installed /\ journal.name \in LongNames /\ file \in Files
        /\ ~NameListed(journal.name) /\ journal' = journal /\ Valid'
    BY InstallMeans DEF NameListed, InstallStage, Apply, Valid
  <1>2. Installed' /\ ~Deleting'
    BY <1>1, InstallLands, NoDeleteNext
  <1>3. /\ OnRecord # None /\ OnRecord' = None
        /\ OnRecord = [name |-> journal.name, content |-> file.is]
    BY <1>1, <1>2, RequestMeans DEF OnRecord
  <1>4. PICK a \in Aliases \ Listed : books' = [books EXCEPT ![a] = new]
    BY InstallMeans
  <1>5. new \in Entries /\ new.title = journal.name /\ new.is = file.is
    <2> HIDE DEF file
    <2>1. new \in Entries
      BY <1>1, BookAndBody
    <2> QED
      BY <2>1 DEF Book
  <1>6. \A n \in LongNames : n # journal.name => ParkedUnder(n) = None /\ ParkedUnder(n)' = None
    BY <1>1 DEF ParkedUnder
  <1> HIDE DEF new, file
  <1>7. \A n \in LongNames : Copies'[n] = IF n = journal.name THEN file.is ELSE Copies[n]
    <2>1. PICK b \in Entries : b = new
      BY <1>5
    <2>2. /\ books' = [books EXCEPT ![a] = b] /\ ~NameListed(b.title)
          /\ \A n \in LongNames : n # b.title => ParkedUnder(n)' = ParkedUnder(n)
      BY <1>1, <1>4, <1>5, <1>6, <2>1
    <2>3. \A n \in LongNames : Copies'[n] = IF n = b.title THEN b.is ELSE Copies[n]
      BY <2>2, OthersStayBeside
    <2> QED
      BY <1>5, <2>1, <2>3
  <1>8. Copies' = [Copies EXCEPT ![OnRecord.name] = OnRecord.content]
    BY <1>1, <1>3, <1>7 DEF Copies
  <1> QED
    BY <1>3, <1>8 DEF Library!Serve, Copies

\* The predecessor comes off the shelf, or back to it, as the same book.
LEMMA OldGoesIsStutter ==
    ASSUME AtomicInv, AtomicInv', UnlinkOldHolder \/ UnlinkSource, books' # books
    PROVE  Copies' = Copies /\ OnRecord' = OnRecord
  <1>1. /\ Valid /\ Standing /\ ParkedStands
        /\ books' = [books EXCEPT ![journal.old.alias] = None]
        /\ UNCHANGED <<scratch, parked, holds, journal, reclaim>>
    BY OldGoes
  <1>2. /\ TypeInv /\ ListedReadable /\ OldKept /\ books \in [Aliases -> Entries \cup {None}]
        /\ ~Installed /\ journal.name \in LongNames
        /\ journal.old.alias \in Listed /\ books[journal.old.alias].title = journal.name
    BY <1>1, StandingMeans, RecordMeans DEF AtomicInv, FileInv, TypeInv, TypeOK, CardInv
  <1>3. PICK a \in Listed, m \in LongNames : a = journal.old.alias /\ m = journal.name
    BY <1>2
  <1>4. ~Installed' /\ ParkedStands' /\ Valid'
    <2>1. \A b \in Aliases : b # a => books'[b] = books[b]
      BY <1>1, <1>2, <1>3
    <2>2. books'[a] = None
      BY <1>1, <1>2, <1>3 DEF Listed
    <2> QED
      BY <1>1, <1>2, <2>1, <2>2 DEF Installed, Holders, ParkedStands, ParkedIsOld, Valid
  <1>5. OnRecord' = OnRecord
    BY <1>1, <1>2, <1>4, NoDeleteBeside, NoDeleteNext DEF OnRecord
  <1>6. \A n \in LongNames : n # m => ParkedUnder(n) = None /\ ParkedUnder(n)' = None
    BY <1>1, <1>3 DEF ParkedUnder
  <1>7. (\A n \in LongNames : n # m => Copies'[n] = Copies[n]) /\ ~NameListed(m)'
    <2>1. /\ books[a].title = m /\ books' = [books EXCEPT ![a] = None]
          /\ \A n \in LongNames : n # m => ParkedUnder(n)' = ParkedUnder(n)
      BY <1>1, <1>2, <1>3, <1>6
    <2> QED
      BY <2>1, OthersStayWithout
  <1>8. Copies[m] = books[a].is
    BY <1>2, <1>3, CopyIs DEF CopyMeans
  <1>9. Copies'[m] = parked[journal.rollback].is
    <2>1. ParkedUnder(m)' = parked[journal.rollback].is
      BY <1>1, <1>3, <1>4 DEF ParkedUnder, ParkedCounts
    <2> QED
      BY <1>7, <2>1, CopyIsNext DEF CopyMeans
  <1>10. books[a].is = parked[journal.rollback].is
    <2>1. books[a].chain = journal.old.chain /\ parked[journal.rollback].chain = journal.old.chain
      BY <1>1, <1>3 DEF Standing, ParkedStands, ParkedIsOld, Is, Body, File
    <2>2. holds[books[a].chain] = books[a].is
      BY <1>2 DEF ListedReadable
    <2>3. holds[parked[journal.rollback].chain] = parked[journal.rollback].is
      BY <1>1, <1>2 DEF OldKept
    <2> QED
      BY <2>1, <2>2, <2>3
  <1>11. \A n \in LongNames : Copies'[n] = Copies[n]
    BY <1>7, <1>8, <1>9, <1>10
  <1> QED
    BY <1>5, <1>11 DEF Copies

LEMMA RestoreIsStutter ==
    ASSUME AtomicInv, AtomicInv', RestoreOldHolder
    PROVE  Copies' = Copies /\ OnRecord' = OnRecord
  <1> DEFINE file == parked[journal.rollback]
             new == Book(journal.name, TRUE, file)
  <1>1. /\ Valid /\ ParkedStands /\ ~Installed /\ journal.name \in LongNames
        /\ file \in Files /\ ~NameListed(journal.name)
        /\ journal.old.alias \in Aliases \ Listed
        /\ books' = [books EXCEPT ![journal.old.alias] = new]
    BY RestoreMeans DEF NameListed
  <1>2. UNCHANGED <<scratch, journal, reclaim>> /\ Valid'
    BY <1>1 DEF RestoreOldHolder, Apply, Valid
  <1>3. ~Installed'
    BY <1>2, RestoreStands, StandingNext
  <1>4. OnRecord' = OnRecord
    BY <1>1, <1>2, <1>3, NoDeleteBeside, NoDeleteNext DEF OnRecord
  <1>5. new \in Entries /\ new.title = journal.name /\ new.is = file.is
    <2> HIDE DEF file
    <2>1. new \in Entries
      BY <1>1, BookAndBody
    <2> QED
      BY <2>1 DEF Book
  <1>6. \A n \in LongNames : n # journal.name => ParkedUnder(n) = None /\ ParkedUnder(n)' = None
    BY <1>2 DEF ParkedUnder
  <1>7. Copies[journal.name] = file.is
    BY <1>1, CopyIs DEF CopyMeans, ParkedUnder, ParkedCounts
  <1> HIDE DEF new, file
  <1>8. PICK b \in Entries, a \in Aliases \ Listed : b = new /\ a = journal.old.alias
    BY <1>1, <1>5
  <1>9. /\ books' = [books EXCEPT ![a] = b] /\ ~NameListed(b.title)
        /\ \A n \in LongNames : n # b.title => ParkedUnder(n)' = ParkedUnder(n)
    BY <1>1, <1>5, <1>6, <1>8
  <1>10. \A n \in LongNames : Copies'[n] = IF n = b.title THEN b.is ELSE Copies[n]
    BY <1>9, OthersStayBeside
  <1>11. \A n \in LongNames : Copies'[n] = Copies[n]
    BY <1>5, <1>7, <1>8, <1>10
  <1> QED
    BY <1>4, <1>11 DEF Copies

\* Each step of this build's, or of the earlier one's, is one of the library's
\* or none.
LEMMA StepIsAbstract ==
    ASSUME AtomicInv, AtomicInv', [Next \/ Earlier]_vars
    PROVE  [Library!Next]_<<Copies, OnRecord>>
  <1>1. CASE books' = books
    <2>1. Copies' = Copies
      BY <1>1, CopiesStay
    <2>2. CASE OnRecord' = OnRecord
      BY <2>1, <2>2
    <2>3. CASE OnRecord = None /\ OnRecord' \in Requests
      <3>1. Library!Ask
        BY <2>1, <2>3 DEF Library!Ask, Requests, Copies
      <3> QED
        BY <3>1 DEF Library!Next
    <2>4. CASE OnRecord # None /\ OnRecord' = None
      <3>1. Library!Drop
        BY <2>1, <2>4 DEF Library!Drop, Copies
      <3> QED
        BY <3>1 DEF Library!Next
    <2> QED
      BY <1>1, <2>2, <2>3, <2>4, RequestSteps
  <1>2. CASE ReclaimUnlink /\ books' # books
    BY <1>2, ReclaimServes DEF Library!Next
  <1>3. CASE (UnlinkOldHolder \/ UnlinkSource) /\ books' # books
    BY <1>3, OldGoesIsStutter
  <1>4. CASE InstallStage
    BY <1>4, InstallServes DEF Library!Next
  <1>5. CASE RestoreOldHolder
    BY <1>5, RestoreIsStutter
  <1> QED
    BY <1>1, <1>2, <1>3, <1>4, <1>5, ShelfMovesOnly DEF ShelfMoves

LEMMA InitIsAbstract == Init => Library!Init
  <1> SUFFICES ASSUME Init PROVE Library!Init
    OBVIOUS
  <1>1. CopyMeans /\ ~Valid /\ reclaim = None
    BY AtomicInit, CopyIs DEF Init, Valid, Absent
  <1>2. \A a \in Listed : books[a].is \in Books
    <2> SUFFICES ASSUME NEW a \in Listed PROVE books[a].is \in Books
      OBVIOUS
    <2>1. PICK titles \in SUBSET LongNames :
            \E legacy \in SUBSET titles, at \in [titles -> Aliases],
               where \in [titles -> Chains], what \in [titles -> Books] :
              Stocked(titles, legacy, at, where, what)
      BY DEF Init, AnyShelf
    <2>2. PICK legacy \in SUBSET titles, at \in [titles -> Aliases],
               where \in [titles -> Chains], what \in [titles -> Books] :
              Stocked(titles, legacy, at, where, what)
      BY <2>1
    <2> DEFINE m == CHOOSE m \in titles : at[m] = a
    <2>3. m \in titles /\ books[a] = Book(m, m \in legacy, File(where[m], what[m]))
      BY <2>2 DEF Stocked, Listed
    <2> HIDE DEF m
    <2> QED
      BY <2>3 DEF Book, File
  <1>3. \A n \in LongNames : Copies[n] \in Books \cup {None}
    BY <1>1, <1>2 DEF CopyMeans, NameListed, ParkedUnder, ParkedCounts
  <1>4. Copies \in [LongNames -> Books \cup {None}]
    BY <1>3 DEF Copies
  <1>5. OnRecord = None
    BY <1>1 DEF OnRecord, Deleting
  <1> QED
    BY <1>4, <1>5 DEF Library!Init, Copies

\* Under every interleaving of this build and the one before it, of cuts,
\* refusals and retries, an upload over a book is one step: a name has the old
\* book, whole, until it has the new one, and nothing but an upload or a delete
\* that was put on record changes what a name holds.
THEOREM UploadIsAtomic == EarlierSpec => AtomicReplace
  <1>1. AtomicInv /\ AtomicInv' /\ [Next \/ Earlier]_vars
          => [Library!Next]_<<[n \in LongNames |-> CopyOf(n)], OnRecord>>
    BY StepIsAbstract DEF Copies
  <1> QED
    BY <1>1, AtomicInit, AtomicStep, InitIsAbstract, PTL DEF EarlierSpec, AtomicReplace, Library!Spec

-----------------------------------------------------------------------------
(***************************************************************************)
(* A pass is stopped by the card alone                                     *)
(***************************************************************************)
\* Under a record's parked name lies the predecessor or nothing.
ParkedIsOurs == Valid /\ parked[journal.rollback] # None => ParkedStands

\* A book whose successor the driver will not name can go back to its alias.
OldPlaceKept ==
    Valid /\ journal.name \notin Installable /\ journal.old # None =>
        Standing \/ books[journal.old.alias] = None
RestoreRefused == pc = "unlink" /\ step = "RestoreOldHolder" => ~StageCounts

\* The steps a pass has before it, and those after the second write of a move.
Count(p) == IF p THEN 1 ELSE 0
ToRetire == StageCounts /\ ~Installed /\ OldStands
StepsToGo == Count(StageCounts) + Count(ToRetire) + Count(ParkedStands \/ ToRetire)

StepsLeft ==
    /\ pc = "observe" => steps + StepsToGo <= 3
    /\ pc = "unlink" /\ step = "RetireOldHolder" => steps <= 1
    /\ pc = "unlink" /\ step = "InstallStage" => steps + Count(ParkedStands) <= 3
    /\ pc = "unlink" /\ step = "RestoreOldHolder" => steps <= 3

\* Each pass counts from the start.
StepsFresh ==
    /\ pc \in {"journal", "session"} \cup Staging => steps = 0
    /\ pc \in {"discard", "remove"} /\ resume # "sweep" => steps = 0
    /\ pc = "reclaim" /\ step # "ReclaimRollback" => steps = 0

\* The reclaim of a parked predecessor is the last step there is.
ReclaimEnds ==
    pc = "reclaim" /\ step = "ReclaimRollback" =>
        /\ steps <= 3 /\ ~StageStands
        /\ parked[journal.rollback] # None =>
             reclaim # None /\ reclaim.chain = parked[journal.rollback].chain

StepsInv == StepsLeft /\ StepsFresh /\ ReclaimEnds
StopInv == AtomicInv /\ ParkedIsOurs /\ OldPlaceKept /\ RestoreRefused /\ StepsInv

\* What happens under a record's parked name.
LEMMA ParkedWrites ==
    ASSUME AtomicInv, Valid, [Next \/ Earlier]_vars
    PROVE  \/ parked' = parked
           \/ parked'[journal.rollback] = None
           \/ Standing /\ parked' = [parked EXCEPT ![journal.rollback] = Body(books[journal.old.alias])]
  <1>1. /\ TypeInv /\ pc \notin Staging \cup Sweeping \cup {"done"}
        /\ pc = "unlink" => step \in Moves
        /\ parked \in [ParkedNames -> Files \cup {None}] /\ journal.rollback \in ParkedNames
    BY RecordOrNone, RecordMeans DEF AtomicInv, FileInv, TypeInv, TypeOK, Control
  <1> USE DEF card, files
  <1>2. CASE RetireOldHolder
    <2>1. ~Installed /\ OldStands
      BY <1>2, PlanMeans DEF RetireOldHolder, Planned
    <2>2. Restored => Standing
      BY <2>1 DEF Restored, Holders, Listed, AtomicInv, LandInv, TitleIsOld
    <2> QED
      BY <1>2, <2>1, <2>2 DEF RetireOldHolder, OldStands
  <1>3. CASE UnlinkRollbackCopy
    BY <1>1, <1>3 DEF UnlinkRollbackCopy
  <1>4. CASE UnlinkSource
    BY <1>1, <1>4 DEF UnlinkSource, Moves
  <1>5. CASE ReclaimUnlink
    <2>1. reclaim # None /\ reclaim.dir = "rollback" /\ reclaim.key = journal.rollback
      BY <1>5 DEF ReclaimUnlink, AtomicInv, FileInv, CardInv, ReclaimKept
    <2> QED
      BY <1>1, <1>5, <2>1 DEF ReclaimUnlink
  <1>6. CASE \/ ReclaimFree \/ ReclaimSettled \/ ReadIntent
             \/ UnlinkOldHolder \/ InstallStage \/ UnlinkStage
             \/ ReclaimRollback \/ RestoreOldHolder
    BY <1>6 DEF ReclaimFree, ReclaimSettled, ReadIntent, UnlinkOldHolder, InstallStage,
                UnlinkStage, ReclaimRollback, RestoreOldHolder
  <1>7. CASE \/ StopBlocked \/ PlanDone \/ ClearIntent
             \/ SweepNext \/ SweepEnd \/ DiscardShared \/ DiscardTruncate \/ RemoveTruncated
             \/ PassDone \/ PassStopped \/ PublishCatalog
    BY <1>1, <1>7 DEF StopBlocked, PlanDone, ClearIntent, SweepNext, SweepEnd, DiscardShared,
                      DiscardTruncate, RemoveTruncated, PassDone, PassStopped, PublishCatalog,
                      Sweeping
  <1>8. CASE \/ BootFromCatalog \/ Scan \/ StartSession \/ Retry \/ Uploading
             \/ (\E a \in Aliases : DeleteBook(a))
    BY <1>1, <1>8 DEF BootFromCatalog, Scan, StartSession, Retry, Uploading, BeginUpload,
                      StageUpload, CreateScratch, Abandon, CloseScratch, BeginReplace,
                      WriteIntent, DeleteBook, Staging
  <1>9. CASE Fail \/ Crash \/ EarlierOwesNothing
             \/ (\E n \in LongNames, c \in Books : StageUpload(n, c))
    BY <1>9 DEF Fail, StopsPass, LeavesLeftover, FailsCommand, FailsScan, Crash,
                StageUpload, EarlierOwesNothing
  <1>10. CASE EarlierRetire
    BY <1>10 DEF EarlierRetire
  <1>11. CASE UNCHANGED vars
    BY <1>11 DEF vars
  <1> QED
    BY <1>2, <1>3, <1>4, <1>5, <1>6, <1>7, <1>8, <1>9, <1>10, <1>11
    DEF Next, Pass, Earlier, EarlierBegin

LEMMA ParkedIsOursStep ==
    ASSUME AtomicInv, ParkedIsOurs, [Next \/ Earlier]_vars
    PROVE  ParkedIsOurs'
  <1>1. TypeInv /\ parked \in [ParkedNames -> Files \cup {None}]
    BY DEF AtomicInv, FileInv, TypeInv, TypeOK
  <1>2. CASE ~Valid'
    BY <1>2 DEF ParkedIsOurs
  <1>3. CASE pc = "record" /\ ParkedNameFree /\ journal' = Intent /\ UNCHANGED files
    <2>1. parked'[journal'.rollback] = None
      BY <1>1, <1>3, IntentMeans DEF files
    <2> QED
      BY <2>1 DEF ParkedIsOurs
  <1>4. CASE Valid' /\ journal' = journal
    <2>1. Valid /\ journal' = journal /\ journal.rollback \in ParkedNames
      BY <1>1, <1>4, RecordMeans DEF Valid
    <2>2. CASE parked' = parked
      BY <2>1, <2>2 DEF ParkedIsOurs, ParkedStands, ParkedIsOld
    <2>3. CASE parked'[journal.rollback] = None
      BY <2>1, <2>3 DEF ParkedIsOurs
    <2>4. CASE Standing /\ parked' = [parked EXCEPT ![journal.rollback] = Body(books[journal.old.alias])]
      <3>1. parked'[journal.rollback] = Body(books[journal.old.alias])
        BY <1>1, <2>1, <2>4
      <3>2. journal.old # None /\ Is(journal.old, Body(books[journal.old.alias]))
        BY <2>4 DEF Standing
      <3> QED
        BY <2>1, <3>1, <3>2 DEF ParkedIsOurs, ParkedStands, ParkedIsOld, Is
    <2> QED
      BY <2>1, <2>2, <2>3, <2>4, ParkedWrites
  <1> QED
    BY <1>1, <1>2, <1>3, <1>4, RecordSteps

LEMMA OldPlaceStep ==
    ASSUME AtomicInv, OldPlaceKept, [Next \/ Earlier]_vars
    PROVE  OldPlaceKept'
  <1>1. TypeInv
    BY DEF AtomicInv, FileInv
  <1>2. CASE ~Valid'
    BY <1>2 DEF OldPlaceKept
  <1>3. CASE pc = "record" /\ ParkedNameFree /\ journal' = Intent /\ UNCHANGED files
    <2>1. /\ upload.name \in LongNames /\ books' = books
          /\ journal'.old = Predecessor(upload.name)
      BY <1>1, <1>3, IntentMeans
      DEF files, TypeInv, UploadInHand, Uploaded, Staging, Intent, Record
    <2>2. ASSUME journal'.old # None PROVE Standing'
      <3>1. PICK a \in Listed : journal'.old = Located(a, Body(books[a]))
        BY <1>1, <2>1, <2>2, PredecessorMeans
      <3> QED
        BY <2>1, <2>2, <3>1 DEF Standing, Located, Is, Listed
    <2> QED
      BY <2>2 DEF OldPlaceKept
  <1>4. CASE Valid' /\ journal' = journal
    <2> SUFFICES ASSUME journal.name \notin Installable, journal.old # None
                 PROVE  Standing' \/ books'[journal.old.alias] = None
      BY <1>4 DEF OldPlaceKept
    <2>1. /\ Valid /\ journal' = journal /\ journal.old.alias \in Aliases
          /\ Standing \/ books[journal.old.alias] = None
      BY <1>1, <1>4, RecordMeans DEF Valid, OldPlaceKept
    <2>2. CASE books' = books
      BY <2>1, <2>2 DEF Standing
    <2>3. CASE UnlinkOldHolder \/ UnlinkSource
      <3>1. books'[journal.old.alias] \in {books[journal.old.alias], None}
        BY <1>1, <2>1, <2>3, ShelfGoes
      <3> QED
        BY <2>1, <3>1 DEF Standing
    <2>4. CASE InstallStage
      BY <2>4 DEF InstallStage
    <2>5. CASE RestoreOldHolder
      BY <2>5, RestoreStands
    <2>6. CASE ReclaimUnlink
      BY <2>1, <2>2, <2>6, ReclaimBeside
    <2> QED
      BY <2>2, <2>3, <2>4, <2>5, <2>6, ShelfMovesOnly DEF ShelfMoves
  <1> QED
    BY <1>1, <1>2, <1>3, <1>4, RecordSteps

ToGoMeans ==
    /\ StepsToGo \in 0 .. 3 /\ Count(ParkedStands) \in {0, 1}
    /\ ToRetire => StepsToGo = 3
    /\ ~ToRetire => StepsToGo <= 2
    /\ StageCounts /\ ~ToRetire => StepsToGo = 1 + Count(ParkedStands)
    /\ ~StageCounts => StepsToGo = Count(ParkedStands)

LEMMA ToGoIs == ToGoMeans
  <1>1. /\ StageCounts \in BOOLEAN /\ ToRetire \in BOOLEAN /\ ParkedStands \in BOOLEAN
        /\ ToRetire => StageCounts
    BY DEF StageCounts, StageStands, ToRetire, ParkedStands
  <1> QED
    BY <1>1 DEF ToGoMeans, StepsToGo, Count

LEMMA ToGoNext == ToGoMeans'
  BY ToGoIs, PTL

LEMMA FewIsFew == \A m \in Nat, n \in 0 .. 3 : m <= 1 /\ n <= 2 => m + n <= 3
  OBVIOUS

\* Once the old name is gone, none of its kind is left.
LEMMA OldIsGone ==
    ASSUME AtomicInv, UnlinkOldHolder \/ UnlinkSource, books' # books
    PROVE  ~OldStands'
  <1>1. /\ Valid /\ Standing /\ journal' = journal
        /\ books' = [books EXCEPT ![journal.old.alias] = None]
    BY OldGoes
  <1>2. /\ books \in [Aliases -> Entries \cup {None}] /\ journal.old.alias \in Listed
        /\ \A a \in Listed : books[a].title = journal.name => a = journal.old.alias
    BY <1>1, StandingMeans DEF AtomicInv, FileInv, TypeInv, TypeOK
  <1>3. /\ books'[journal.old.alias] = None
        /\ \A b \in Aliases : b # journal.old.alias => books'[b] = books[b]
    BY <1>1, <1>2 DEF Listed
  <1> QED
    BY <1>1, <1>2, <1>3 DEF OldStands, Restored, Standing, Holders, Listed

\* From one look at the card to the next a step is counted, and one is done.
LEMMA ObservedStep ==
    ASSUME StopInv, [Next \/ Earlier]_vars, pc' = "observe",
           pc \in {"observe", "unlink"}
    PROVE  steps' + StepsToGo' <= 3
  <1>1. /\ TypeInv /\ Valid /\ steps \in Nat /\ AtomicInv
        /\ pc = "observe" => steps + StepsToGo <= 3
        /\ pc = "unlink" => step \in Moves
        /\ scratch \in [ScratchNames -> Files \cup {None}]
        /\ parked \in [ParkedNames -> Files \cup {None}]
        /\ journal.stage.alias \in ScratchNames /\ journal.rollback \in ParkedNames
    BY CountAssumption, RecordMeans
    DEF StopInv, AtomicInv, FileInv, TypeInv, TypeOK, Control, StepsInv, StepsLeft
  <1>2. ToGoMeans /\ ToGoMeans'
    BY ToGoIs, ToGoNext
  <1>3. CASE UnlinkOldHolder
    <2>1. steps' = steps + 1 /\ ToRetire /\ pc = "observe"
      BY <1>3, PlanMeans DEF UnlinkOldHolder, Planned, Apply, ToRetire
    <2>2. books' # books
      <3>1. Standing
        BY <1>1, <2>1 DEF ToRetire, OldStands, Restored, Holders, Listed, AtomicInv, LandInv, TitleIsOld
      <3>2. journal.old.alias \in Listed /\ books \in [Aliases -> Entries \cup {None}]
        BY <1>1, <3>1, StandingMeans DEF TypeInv, TypeOK
      <3> QED
        BY <1>3, <3>2 DEF UnlinkOldHolder, Listed
    <2>3. ~ToRetire'
      BY <1>1, <1>3, <2>2, OldIsGone DEF ToRetire
    <2> QED
      <3>1. StepsToGo = 3 /\ StepsToGo' \in 0 .. 3 /\ StepsToGo' <= 2
        BY <1>2, <2>1, <2>3 DEF ToGoMeans
      <3>2. steps \in Nat /\ steps + StepsToGo <= 3
        BY <1>1, <2>1
      <3>3. steps' \in Nat /\ steps' <= 1
        BY <2>1, <3>1, <3>2
      <3> QED
        BY <3>1, <3>3, FewIsFew
  <1>4. CASE UnlinkStage
    <2>1. /\ steps' = steps + 1 /\ StageCounts /\ ~ToRetire /\ pc = "observe"
          /\ scratch' = [scratch EXCEPT ![journal.stage.alias] = None]
          /\ journal' = journal /\ parked' = parked
      BY <1>4, PlanMeans DEF UnlinkStage, Planned, Apply, ToRetire
    <2>2. scratch'[journal.stage.alias] = None
      BY <1>1, <2>1
    <2>3. ~StageCounts'
      BY <2>1, <2>2 DEF StageCounts, StageStands
    <2>4. ParkedStands' = ParkedStands
      BY <2>1 DEF ParkedStands, ParkedIsOld
    <2>5. Count(ParkedStands)' = Count(ParkedStands)
      BY <2>4 DEF Count
    <2> QED
      BY <1>1, <1>2, <2>1, <2>3, <2>5 DEF ToGoMeans
  <1>5. CASE UnlinkRollbackCopy
    <2>1. /\ steps' = steps + 1 /\ ~StageCounts /\ ParkedStands /\ pc = "observe"
          /\ parked' = [parked EXCEPT ![journal.rollback] = None]
          /\ journal' = journal /\ books' = books /\ scratch' = scratch
      BY <1>5, PlanMeans DEF UnlinkRollbackCopy, Planned, Apply
    <2>2. ~ParkedStands'
      BY <1>1, <2>1 DEF ParkedStands
    <2>3. ~StageCounts'
      BY <2>1 DEF StageCounts, StageStands, Installed, Holders
    <2> QED
      BY <1>1, <1>2, <2>1, <2>2, <2>3 DEF ToGoMeans, Count
  <1>6. CASE UnlinkSource
    <2>1. pc = "unlink" /\ steps' = steps /\ journal' = journal
      BY <1>6 DEF UnlinkSource
    <2>2. CASE step = "RetireOldHolder"
      <3>1. steps <= 1 /\ Standing
        BY <2>1, <2>2 DEF StopInv, StepsInv, StepsLeft, AtomicInv, LandInv, MoveHolds
      <3>2. books' # books
        <4>1. journal.old.alias \in Listed /\ books \in [Aliases -> Entries \cup {None}]
          BY <1>1, <3>1, StandingMeans DEF TypeInv, TypeOK
        <4>2. books' = [books EXCEPT ![journal.old.alias] = None]
          BY <1>6, <2>2 DEF UnlinkSource
        <4> QED
          BY <4>1, <4>2 DEF Listed
      <3>3. ~ToRetire'
        BY <1>1, <1>6, <3>2, OldIsGone DEF ToRetire
      <3> QED
        <4>1. StepsToGo' \in 0 .. 3 /\ StepsToGo' <= 2
          BY <1>2, <3>3 DEF ToGoMeans
        <4>2. steps' \in Nat /\ steps' <= 1
          BY <1>1, <2>1, <3>1
        <4> QED
          BY <4>1, <4>2, FewIsFew
    <2>3. CASE step = "InstallStage"
      <3>1. /\ steps + Count(ParkedStands) <= 3
            /\ scratch' = [scratch EXCEPT ![journal.stage.alias] = None]
            /\ parked' = parked
        BY <1>6, <2>1, <2>3 DEF UnlinkSource, StopInv, StepsInv, StepsLeft
      <3>2. ~StageCounts'
        BY <1>1, <2>1, <3>1 DEF StageCounts, StageStands
      <3>3. ParkedStands' = ParkedStands
        BY <2>1, <3>1 DEF ParkedStands, ParkedIsOld
      <3>4. Count(ParkedStands)' = Count(ParkedStands)
        BY <3>3 DEF Count
      <3> QED
        BY <1>1, <1>2, <2>1, <3>1, <3>2, <3>4 DEF ToGoMeans
    <2>4. CASE step = "RestoreOldHolder"
      <3>1. /\ steps <= 3 /\ ~StageCounts
            /\ parked' = [parked EXCEPT ![journal.rollback] = None]
            /\ books' = books /\ scratch' = scratch
        BY <1>6, <2>1, <2>4 DEF UnlinkSource, StopInv, StepsInv, StepsLeft, RestoreRefused
      <3>2. ~ParkedStands'
        BY <1>1, <2>1, <3>1 DEF ParkedStands
      <3>3. ~StageCounts'
        BY <2>1, <3>1 DEF StageCounts, StageStands, Installed, Holders
      <3> QED
        BY <1>1, <1>2, <2>1, <3>1, <3>2, <3>3 DEF ToGoMeans, Count
    <2> QED
      BY <1>1, <2>1, <2>2, <2>3, <2>4 DEF Moves
  <1>7. CASE UNCHANGED vars
    <2>1. pc = "observe" /\ steps' = steps
      BY <1>7 DEF vars, memory
    <2>2. StepsToGo' = StepsToGo
      BY <1>7 DEF vars, card, StepsToGo, ToRetire, StageCounts, StageStands, Installed, Holders,
                  OldStands, Restored, Standing, ParkedStands, ParkedIsOld, Count
    <2> QED
      BY <1>1, <2>1, <2>2
  <1>8. \/ UnlinkOldHolder \/ UnlinkStage \/ UnlinkRollbackCopy \/ UnlinkSource
        \/ UNCHANGED vars
    <2>1. CASE \/ ReclaimUnlink \/ ReclaimFree \/ ReclaimSettled \/ ReadIntent
               \/ RetireOldHolder \/ InstallStage \/ ReclaimRollback \/ RestoreOldHolder
               \/ StopBlocked \/ PlanDone \/ ClearIntent
      BY <2>1 DEF ReclaimUnlink, ReclaimFree, ReclaimSettled, ReadIntent, RetireOldHolder,
                  InstallStage, ReclaimRollback, RestoreOldHolder, StopBlocked, PlanDone,
                  ClearIntent, Planned, Apply
    <2>2. CASE \/ SweepNext \/ SweepEnd \/ DiscardShared \/ DiscardTruncate \/ RemoveTruncated
               \/ PassDone \/ PassStopped \/ PublishCatalog
               \/ BootFromCatalog \/ Scan \/ StartSession \/ Retry
      BY <2>2 DEF SweepNext, SweepEnd, DiscardShared, DiscardTruncate, RemoveTruncated, PassDone,
                  PassStopped, PublishCatalog, BootFromCatalog, Scan, StartSession, Retry
    <2>3. CASE \/ Uploading \/ (\E a \in Aliases : DeleteBook(a)) \/ Fail \/ Crash \/ Earlier
      BY <2>3 DEF Uploading, BeginUpload, StageUpload, CreateScratch, Abandon, CloseScratch,
                  BeginReplace, WriteIntent, DeleteBook, Fail, StopsPass, LeavesLeftover,
                  FailsCommand, FailsScan, Crash, Earlier, EarlierBegin, EarlierOwesNothing,
                  EarlierRetire, Apply
    <2> QED
      BY <2>1, <2>2, <2>3 DEF Next, Pass
  <1> QED
    BY <1>3, <1>4, <1>5, <1>6, <1>7, <1>8

LEMMA IntoObserve ==
    ASSUME StopInv, ReadIntent \/ ReclaimSettled, pc' = "observe"
    PROVE  steps' + StepsToGo' <= 3
  <1>1. TypeInv /\ ToGoMeans'
    BY ToGoNext DEF StopInv, AtomicInv, FileInv
  <1>2. CASE ReadIntent
    <2>1. steps' = 0
      BY <1>2 DEF ReadIntent, StopInv, StepsInv, StepsFresh
    <2>2. steps' \in Nat /\ steps' <= 0 /\ StepsToGo' \in 0 .. 3
      BY <1>1, <2>1 DEF ToGoMeans
    <2>3. \A m \in Nat, n \in 0 .. 3 : m <= 0 => m + n <= 3
      OBVIOUS
    <2> QED
      BY <2>2, <2>3
  <1>3. CASE ReclaimSettled
    <2>1. /\ step = "ReclaimRollback" /\ pc = "reclaim" /\ reclaim = None
          /\ steps' = steps /\ UNCHANGED card
      BY <1>1, <1>3 DEF ReclaimSettled, TypeInv, Control
    <2>2. Valid /\ steps <= 3 /\ steps \in Nat /\ ~StageStands /\ parked[journal.rollback] = None
      BY <1>1, <2>1, CountAssumption
      DEF TypeInv, TypeOK, Control, StopInv, StepsInv, ReclaimEnds
    <2>3. ~StageCounts' /\ ~ParkedStands'
      BY <2>1, <2>2 DEF card, StageCounts, StageStands, ParkedStands
    <2>4. StepsToGo' = 0
      BY <1>1, <2>3 DEF ToGoMeans, Count
    <2> QED
      BY <2>1, <2>2, <2>4
  <1> QED
    BY <1>2, <1>3

\* The first write of a move is counted.
LEMMA UnlinkStep ==
    ASSUME StopInv, AtomicInv', [Next \/ Earlier]_vars, pc' = "unlink"
    PROVE  /\ step' = "RetireOldHolder" => steps' <= 1
           /\ step' = "InstallStage" => steps' + Count(ParkedStands)' <= 3
           /\ step' = "RestoreOldHolder" => steps' <= 3 /\ ~StageCounts'
  <1>1. /\ TypeInv /\ steps \in Nat /\ AtomicInv /\ ToGoMeans
        /\ pc = "observe" => steps + StepsToGo <= 3
    BY CountAssumption, ToGoIs
    DEF StopInv, AtomicInv, FileInv, TypeInv, TypeOK, StepsInv, StepsLeft
  <1>2. CASE RetireOldHolder
    <2>1. ToRetire /\ steps' = steps + 1 /\ step' = "RetireOldHolder" /\ pc = "observe"
      BY <1>2, PlanMeans DEF RetireOldHolder, Planned, Apply, ToRetire
    <2>2. StepsToGo = 3
      BY <1>1, <2>1 DEF ToGoMeans
    <2> QED
      BY <1>1, <2>1, <2>2
  <1>3. CASE EarlierRetire
    BY <1>3 DEF EarlierRetire, Apply
  <1>4. CASE InstallStage
    <2>1. /\ StageCounts /\ ~ToRetire /\ steps' = steps + 1 /\ step' = "InstallStage"
          /\ pc = "observe" /\ parked' = parked /\ journal' = journal
      <3>1. ~OldStands
        BY <1>1, <1>4, InstallMeans, StandingMeans
        DEF OldStands, Restored, Holders, Listed
      <3> QED
        BY <1>4, <3>1, PlanMeans DEF InstallStage, Planned, Apply, ToRetire
    <2>2. StepsToGo = 1 + Count(ParkedStands) /\ Count(ParkedStands) \in {0, 1}
      BY <1>1, <2>1 DEF ToGoMeans
    <2>3. Count(ParkedStands)' = Count(ParkedStands)
      BY <2>1 DEF ParkedStands, ParkedIsOld, Count
    <2> QED
      BY <1>1, <2>1, <2>2, <2>3
  <1>5. CASE RestoreOldHolder
    <2>1. /\ ~StageCounts /\ ParkedStands /\ steps' = steps + 1 /\ step' = "RestoreOldHolder"
          /\ pc = "observe" /\ journal' = journal
      BY <1>5, PlanMeans DEF RestoreOldHolder, Planned, Apply
    <2>2. StepsToGo = 1
      BY <1>1, <2>1 DEF ToGoMeans, Count
    <2>3. journal.name \notin Installable /\ Valid /\ Standing'
      BY <1>1, <1>5, RestoreMeans, RestoreStands
    <2>4. ~Installed'
      BY <2>1, <2>3, StandingNext DEF Valid
    <2> QED
      BY <1>1, <2>1, <2>2, <2>3, <2>4 DEF StageCounts
  <1>6. CASE UNCHANGED vars
    <2>1. /\ pc = "unlink" /\ step' = step /\ steps' = steps /\ journal' = journal
          /\ books' = books /\ scratch' = scratch /\ parked' = parked
      BY <1>6 DEF vars, card, memory
    <2>2. StageCounts' = StageCounts /\ ParkedStands' = ParkedStands
      BY <2>1 DEF StageCounts, StageStands, Installed, Holders, ParkedStands, ParkedIsOld
    <2>3. Count(ParkedStands)' = Count(ParkedStands)
      BY <2>2 DEF Count
    <2> QED
      BY <1>1, <2>1, <2>2, <2>3 DEF StopInv, StepsInv, StepsLeft, RestoreRefused
  <1>7. \/ RetireOldHolder \/ EarlierRetire \/ InstallStage \/ RestoreOldHolder
        \/ UNCHANGED vars
    <2>1. CASE \/ ReclaimUnlink \/ ReclaimFree \/ ReclaimSettled \/ ReadIntent
               \/ UnlinkOldHolder \/ UnlinkStage \/ ReclaimRollback \/ UnlinkRollbackCopy
               \/ UnlinkSource \/ StopBlocked \/ PlanDone \/ ClearIntent
      BY <2>1 DEF ReclaimUnlink, ReclaimFree, ReclaimSettled, ReadIntent, UnlinkOldHolder,
                  UnlinkStage, ReclaimRollback, UnlinkRollbackCopy, UnlinkSource, StopBlocked,
                  PlanDone, ClearIntent, Planned, Apply
    <2>2. CASE \/ SweepNext \/ SweepEnd \/ DiscardShared \/ DiscardTruncate \/ RemoveTruncated
               \/ PassDone \/ PassStopped \/ PublishCatalog
               \/ BootFromCatalog \/ Scan \/ StartSession \/ Retry
      <3>1. pc \in {"discard", "remove"} => resume \in {"sweep", "stage", "session"}
        BY <1>1 DEF TypeInv, VictimInHand
      <3> QED
        BY <2>2, <3>1
        DEF SweepNext, SweepEnd, DiscardShared, DiscardTruncate, RemoveTruncated, PassDone,
            PassStopped, PublishCatalog, BootFromCatalog, Scan, StartSession, Retry, BeginPass
    <2>3. CASE \/ Uploading \/ (\E a \in Aliases : DeleteBook(a)) \/ Fail \/ Crash
               \/ EarlierBegin \/ EarlierOwesNothing
      BY <2>3 DEF Uploading, BeginUpload, StageUpload, CreateScratch, Abandon, CloseScratch,
                  BeginReplace, WriteIntent, DeleteBook, Fail, StopsPass, LeavesLeftover,
                  FailsCommand, FailsScan, Crash, EarlierBegin, EarlierOwesNothing
    <2> QED
      BY <2>1, <2>2, <2>3 DEF Next, Pass, Earlier
  <1> QED
    BY <1>2, <1>3, <1>4, <1>5, <1>6, <1>7

LEMMA FreshStep ==
    ASSUME StopInv, [Next \/ Earlier]_vars
    PROVE  StepsFresh'
  <1>1. /\ StepsFresh
        /\ pc \in {"discard", "remove"} => resume \in {"sweep", "stage", "session"}
        /\ step = "ReclaimRollback" => pc \in {"reclaim", "stopped"}
        /\ step # "none" => pc \in {"reclaim", "unlink", "stopped"}
        /\ caller = "delete" => pc = "reclaim" /\ step = "none"
    BY DEF StopInv, StepsInv, AtomicInv, FileInv, TypeInv, Control, VictimInHand
  <1> USE DEF StepsFresh, Staging
  <1>2. CASE ReclaimUnlink \/ ReclaimFree \/ ReclaimSettled \/ ReadIntent
    BY <1>1, <1>2 DEF ReclaimUnlink, ReclaimFree, ReclaimSettled, ReadIntent, memory
  <1>3. CASE \/ RetireOldHolder \/ UnlinkOldHolder \/ InstallStage \/ UnlinkStage
             \/ ReclaimRollback \/ RestoreOldHolder \/ UnlinkRollbackCopy \/ EarlierRetire
    BY <1>1, <1>3 DEF RetireOldHolder, UnlinkOldHolder, InstallStage, UnlinkStage,
                      ReclaimRollback, RestoreOldHolder, UnlinkRollbackCopy, EarlierRetire,
                      Planned, Apply
  <1>4. CASE UnlinkSource \/ StopBlocked \/ PlanDone \/ ClearIntent
    BY <1>1, <1>4 DEF UnlinkSource, StopBlocked, PlanDone, ClearIntent, memory
  <1>5. CASE SweepNext \/ SweepEnd \/ DiscardShared \/ DiscardTruncate \/ RemoveTruncated
    BY <1>1, <1>5 DEF SweepNext, SweepEnd, DiscardShared, DiscardTruncate, RemoveTruncated, memory
  <1>6. CASE PassDone
    BY <1>1, <1>6 DEF PassDone, Returning
  <1>7. CASE PassStopped
    BY <1>1, <1>7 DEF PassStopped, Returning
  <1>8. CASE PublishCatalog \/ BootFromCatalog \/ Scan \/ StartSession \/ Retry
    BY <1>1, <1>8 DEF PublishCatalog, BootFromCatalog, Scan, StartSession, Retry, BeginPass
  <1>9. CASE (\E n \in LongNames, c \in Books : StageUpload(n, c)) \/ CreateScratch \/ Abandon
    BY <1>1, <1>9 DEF StageUpload, CreateScratch, Abandon, memory
  <1>10. CASE CloseScratch \/ BeginReplace \/ WriteIntent \/ (\E a \in Aliases : DeleteBook(a))
    BY <1>1, <1>10 DEF CloseScratch, BeginReplace, WriteIntent, DeleteBook, memory
  <1>11. CASE StopsPass \/ LeavesLeftover \/ FailsCommand \/ FailsScan \/ Crash \/ EarlierOwesNothing
    BY <1>1, <1>11 DEF StopsPass, LeavesLeftover, FailsCommand, FailsScan, Crash,
                       EarlierOwesNothing, memory
  <1>12. CASE UNCHANGED vars
    BY <1>1, <1>12 DEF vars, memory
  <1> QED
    BY <1>2, <1>3, <1>4, <1>5, <1>6, <1>7, <1>8, <1>9, <1>10, <1>11, <1>12
    DEF Next, Pass, Uploading, BeginUpload, Fail, Earlier, EarlierBegin

LEMMA ReclaimEndsStep ==
    ASSUME StopInv, [Next \/ Earlier]_vars
    PROVE  ReclaimEnds'
  <1> SUFFICES ASSUME pc' = "reclaim", step' = "ReclaimRollback"
               PROVE  /\ steps' <= 3 /\ ~StageStands'
                      /\ parked'[journal'.rollback] # None =>
                           reclaim' # None /\ reclaim'.chain = parked'[journal'.rollback].chain
    BY DEF ReclaimEnds
  <1>1. /\ TypeInv /\ AtomicInv /\ steps \in Nat /\ ToGoMeans
        /\ pc = "observe" => steps + StepsToGo <= 3
        /\ parked \in [ParkedNames -> Files \cup {None}]
        /\ step # "none" => pc \in {"reclaim", "unlink", "stopped"}
        /\ step = "ReclaimRollback" => Valid
    BY CountAssumption, ToGoIs
    DEF StopInv, AtomicInv, FileInv, TypeInv, TypeOK, Control, StepsInv, StepsLeft
  <1>2. CASE (ReclaimUnlink \/ ReclaimFree \/ UNCHANGED vars) /\ pc = "reclaim"
    <2>1. /\ step = "ReclaimRollback" /\ steps' = steps /\ journal' = journal /\ scratch' = scratch
      BY <1>2 DEF ReclaimUnlink, ReclaimFree, vars, card, memory
    <2>2. /\ steps <= 3 /\ ~StageStands /\ Valid /\ journal.rollback \in ParkedNames
          /\ parked[journal.rollback] # None =>
               reclaim # None /\ reclaim.chain = parked[journal.rollback].chain
      BY <1>1, <1>2, <2>1, RecordMeans DEF StopInv, StepsInv, ReclaimEnds
    <2>3. ~StageStands'
      BY <2>1, <2>2 DEF StageStands
    <2>4. reclaim # None => reclaim.dir = "rollback" /\ reclaim.key = journal.rollback
      BY <2>2 DEF StopInv, AtomicInv, FileInv, CardInv, ReclaimKept
    <2>5. CASE ReclaimUnlink
      <3>1. parked'[journal.rollback] = None
        BY <1>1, <2>2, <2>4, <2>5 DEF ReclaimUnlink
      <3> QED
        BY <2>1, <2>2, <2>3, <3>1
    <2>6. CASE ReclaimFree
      <3>1. parked'[journal.rollback] = None
        BY <2>2, <2>4, <2>6 DEF ReclaimFree, Named
      <3> QED
        BY <2>1, <2>2, <2>3, <3>1
    <2>7. CASE UNCHANGED vars
      BY <2>1, <2>2, <2>3, <2>7 DEF vars, card
    <2> QED
      BY <1>2, <2>5, <2>6, <2>7
  <1>3. CASE ReclaimRollback
    <2>1. /\ ~StageCounts /\ Installed /\ ParkedStands /\ pc = "observe"
          /\ steps' = steps + 1 /\ journal' = journal /\ scratch' = scratch /\ parked' = parked
          /\ reclaim' = [dir |-> "rollback", key |-> journal.rollback,
                         chain |-> parked[journal.rollback].chain]
          /\ Valid
      BY <1>1, <1>3, PlanMeans DEF ReclaimRollback, Planned, Apply, files, TypeInv, Control
    <2>2. StepsToGo = 1
      BY <1>1, <2>1 DEF ToGoMeans, Count
    <2>3. ~StageStands'
      BY <2>1 DEF StageCounts, StageStands
    <2>4. reclaim' # None
      <3>1. journal.rollback \in ParkedNames /\ parked[journal.rollback] \in Files
        BY <1>1, <2>1, RecordMeans
      <3>2. reclaim' \in [dir : {"books", "rollback"}, key : Aliases \cup ParkedNames,
                          chain : Chains]
        BY <2>1, <3>1 DEF Files
      <3> QED
        BY <3>2, NoneAssumption
    <2> QED
      BY <1>1, <2>1, <2>2, <2>3, <2>4
  <1>4. \/ ReclaimRollback
        \/ (ReclaimUnlink \/ ReclaimFree \/ UNCHANGED vars) /\ pc = "reclaim"
    <2>1. CASE ReclaimUnlink \/ ReclaimFree
      BY <2>1 DEF ReclaimUnlink, ReclaimFree
    <2>2. CASE UNCHANGED vars
      BY <2>2 DEF vars
    <2>3. CASE \/ ReclaimSettled \/ ReadIntent \/ RetireOldHolder \/ EarlierRetire
               \/ UnlinkOldHolder \/ InstallStage \/ UnlinkStage \/ RestoreOldHolder
               \/ UnlinkRollbackCopy \/ UnlinkSource \/ StopBlocked \/ PlanDone \/ ClearIntent
      BY <2>3 DEF ReclaimSettled, ReadIntent, RetireOldHolder, EarlierRetire, UnlinkOldHolder,
                  InstallStage, UnlinkStage, RestoreOldHolder, UnlinkRollbackCopy, UnlinkSource,
                  StopBlocked, PlanDone, ClearIntent, Planned, Apply
    <2>4. CASE \/ SweepNext \/ SweepEnd \/ DiscardShared \/ DiscardTruncate \/ RemoveTruncated
               \/ PassDone \/ PassStopped \/ PublishCatalog
               \/ BootFromCatalog \/ Scan \/ StartSession \/ Retry
      <3>1. pc \in {"discard", "remove"} => resume \in {"sweep", "stage", "session"}
        BY <1>1 DEF TypeInv, VictimInHand
      <3> QED
        BY <2>4, <3>1
        DEF SweepNext, SweepEnd, DiscardShared, DiscardTruncate, RemoveTruncated, PassDone,
            PassStopped, PublishCatalog, BootFromCatalog, Scan, StartSession, Retry, BeginPass
    <2>5. CASE \/ Uploading \/ (\E a \in Aliases : DeleteBook(a)) \/ Fail \/ Crash
               \/ EarlierBegin \/ EarlierOwesNothing
      BY <1>1, <2>5
      DEF Uploading, BeginUpload, StageUpload, CreateScratch, Abandon, CloseScratch,
          BeginReplace, WriteIntent, DeleteBook, Fail, StopsPass, LeavesLeftover,
          FailsCommand, FailsScan, Crash, EarlierBegin, EarlierOwesNothing
    <2> QED
      BY <1>3, <2>1, <2>2, <2>3, <2>4, <2>5 DEF Next, Pass, Earlier
  <1> QED
    BY <1>2, <1>3, <1>4

LEMMA StopStep == StopInv /\ [Next \/ Earlier]_vars => StopInv'
  <1> SUFFICES ASSUME StopInv, [Next \/ Earlier]_vars PROVE StopInv'
    OBVIOUS
  <1>1. AtomicInv' /\ ParkedIsOurs' /\ OldPlaceKept' /\ StepsFresh' /\ ReclaimEnds'
    BY AtomicStep, ParkedIsOursStep, OldPlaceStep, FreshStep, ReclaimEndsStep DEF StopInv
  <1>2. ASSUME pc' = "observe" PROVE steps' + StepsToGo' <= 3
    <2>1. CASE pc \in {"observe", "unlink"}
      BY <1>2, <2>1, ObservedStep
    <2>2. CASE ReadIntent \/ ReclaimSettled
      BY <1>2, <2>2, IntoObserve
    <2>3. pc \in {"observe", "unlink"} \/ ReadIntent \/ ReclaimSettled
      <3>1. CASE \/ ReclaimUnlink \/ ReclaimFree
                 \/ RetireOldHolder \/ EarlierRetire \/ UnlinkOldHolder \/ InstallStage
                 \/ UnlinkStage \/ ReclaimRollback \/ RestoreOldHolder
                 \/ UnlinkRollbackCopy \/ UnlinkSource \/ StopBlocked \/ PlanDone \/ ClearIntent
        BY <1>2, <3>1
        DEF ReclaimUnlink, ReclaimFree, RetireOldHolder, EarlierRetire, UnlinkOldHolder,
            InstallStage, UnlinkStage, ReclaimRollback, RestoreOldHolder, UnlinkRollbackCopy,
            UnlinkSource, StopBlocked, PlanDone, ClearIntent, Planned
      <3>2. CASE \/ SweepNext \/ SweepEnd \/ DiscardShared \/ DiscardTruncate \/ RemoveTruncated
                 \/ PassDone \/ PassStopped \/ PublishCatalog
                 \/ BootFromCatalog \/ Scan \/ StartSession \/ Retry
        <4>1. pc \in {"discard", "remove"} => resume \in {"sweep", "stage", "session"}
          BY DEF StopInv, AtomicInv, FileInv, TypeInv, VictimInHand
        <4> QED
          BY <1>2, <3>2, <4>1
          DEF SweepNext, SweepEnd, DiscardShared, DiscardTruncate, RemoveTruncated, PassDone,
              PassStopped, PublishCatalog, BootFromCatalog, Scan, StartSession, Retry, BeginPass
      <3>3. CASE \/ Uploading \/ (\E a \in Aliases : DeleteBook(a)) \/ Fail \/ Crash
                 \/ EarlierBegin \/ EarlierOwesNothing
        BY <1>2, <3>3
        DEF Uploading, BeginUpload, StageUpload, CreateScratch, Abandon, CloseScratch,
            BeginReplace, WriteIntent, DeleteBook, Fail, StopsPass, LeavesLeftover,
            FailsCommand, FailsScan, Crash, EarlierBegin, EarlierOwesNothing
      <3>4. CASE UNCHANGED vars
        BY <1>2, <3>4 DEF vars
      <3> QED
        BY <3>1, <3>2, <3>3, <3>4 DEF Next, Pass, Earlier
    <2> QED
      BY <2>1, <2>2, <2>3
  <1>3. RestoreRefused' /\ (pc' = "unlink" =>
          /\ step' = "RetireOldHolder" => steps' <= 1
          /\ step' = "InstallStage" => steps' + Count(ParkedStands)' <= 3
          /\ step' = "RestoreOldHolder" => steps' <= 3)
    BY <1>1, UnlinkStep DEF RestoreRefused
  <1> QED
    BY <1>1, <1>2, <1>3 DEF StopInv, StepsInv, StepsLeft

LEMMA StopInit == Init => StopInv
  <1> SUFFICES ASSUME Init PROVE StopInv
    OBVIOUS
  <1>1. ~Valid /\ pc = "off" /\ AtomicInv
    BY AtomicInit DEF Init, Asleep, Valid, Absent
  <1> QED
    BY <1>1 DEF StopInv, ParkedIsOurs, OldPlaceKept, RestoreRefused, StepsInv, StepsLeft,
                StepsFresh, ReclaimEnds, Staging

\* Where the driver has an alias left for every name, a step can be taken.
LEMMA NotBlocked ==
    ASSUME StopInv, pc = "observe", StepLimit > 3,
           IsFiniteSet(Aliases), IsFiniteSet(LongNames),
           Cardinality(LongNames) < Cardinality(Aliases)
    PROVE  ~Blocked
  <1>1. /\ TypeInv /\ AtomicInv /\ Valid /\ steps \in Nat /\ ToGoMeans
        /\ steps + StepsToGo <= 3
        /\ books \in [Aliases -> Entries \cup {None}]
    BY CountAssumption, ToGoIs
    DEF StopInv, AtomicInv, FileInv, TypeInv, TypeOK, Control, StepsInv, StepsLeft
  <1>2. steps # StepLimit
    <2>1. StepsToGo \in 0 .. 3
      BY <1>1 DEF ToGoMeans
    <2> QED
      BY <1>1, <2>1, CountAssumption
  <1>3. OldStands /\ ~Installed => Standing
    BY <1>1 DEF OldStands, Restored, Holders, Listed, AtomicInv, LandInv, TitleIsOld
  <1>4. Plan = "RetireOldHolder" => Standing /\ parked[journal.rollback] = None
    <2> SUFFICES ASSUME Plan = "RetireOldHolder"
                 PROVE  Standing /\ parked[journal.rollback] = None
      OBVIOUS
    <2>1. OldStands /\ ~Installed /\ ~ParkedStands
      BY PlanMeans
    <2> QED
      BY <1>1, <1>3, <2>1 DEF StopInv, ParkedIsOurs
  <1>5. Listed # Aliases
    <2> SUFFICES ASSUME Listed = Aliases PROVE FALSE
      OBVIOUS
    <2> DEFINE f == [a \in Aliases |-> books[a].title]
    <2>1. f \in [Aliases -> LongNames]
      BY <1>1 DEF Listed, Entries
    <2> HIDE DEF f
    <2>2. \E a, b \in Aliases : a # b /\ f[a] = f[b]
      BY <2>1, FS_PigeonHole, Zenon
    <2>3. PICK a \in Aliases, b \in Aliases : a # b /\ f[a] = f[b]
      BY <2>2
    <2>4. books[a].title = books[b].title
      BY <2>3 DEF f
    <2> QED
      BY <1>1, <2>3, <2>4 DEF AtomicInv, LandInv, OnePerName
  <1>6. Plan = "InstallStage" =>
          Holders(journal.name) = {} /\ journal.name \in Installable
    <2> SUFFICES ASSUME Plan = "InstallStage"
                 PROVE  Holders(journal.name) = {} /\ journal.name \in Installable
      OBVIOUS
    <2>1. StageCounts /\ ~Installed
      BY PlanMeans
    <2>2. \A a \in Holders(journal.name) : Standing /\ a = journal.old.alias
      BY <1>1, <2>1 DEF Holders, Listed, AtomicInv, LandInv, TitleIsOld
    <2>3. ~Foreign
      BY <2>2 DEF Foreign, Standing
    <2>4. Plan = PlanToInstall
      BY <2>1 DEF Plan
    <2>5. ~OldStands
      BY <2>3, <2>4 DEF PlanToInstall
    <2> QED
      BY <2>1, <2>2, <2>5 DEF OldStands, StageCounts
  <1>7. Plan = "RestoreOldHolder" =>
          journal.name \notin Installable /\ books[journal.old.alias] = None
    <2> SUFFICES ASSUME Plan = "RestoreOldHolder"
                 PROVE  journal.name \notin Installable /\ books[journal.old.alias] = None
      OBVIOUS
    <2>1. ~StageCounts /\ ~Installed /\ ParkedStands /\ ~OldStands
      BY PlanMeans
    <2>2. journal.name \notin Installable
      BY <1>1, <2>1 DEF AtomicInv, LandInv, RecordLands, StageCounts
    <2> QED
      BY <1>1, <2>1, <2>2 DEF StopInv, OldPlaceKept, OldStands, ParkedStands, ParkedIsOld
  <1> QED
    BY <1>2, <1>4, <1>5, <1>6, <1>7 DEF Blocked

\* Whatever cut, refusal or retry left behind, a pass over a record finds a
\* step it can take until it is done, and is done in three: it stops only where
\* the card refuses it something.
THEOREM CardAloneStops ==
    ASSUME StepLimit > 3, IsFiniteSet(Aliases), IsFiniteSet(LongNames),
           Cardinality(LongNames) < Cardinality(Aliases)
    PROVE  EarlierSpec => []StoppedByCardOnly
  <1>1. StopInv => StoppedByCardOnly
    BY NotBlocked DEF StoppedByCardOnly
  <1> QED
    BY <1>1, StopInit, StopStep, PTL DEF EarlierSpec
=============================================================================
