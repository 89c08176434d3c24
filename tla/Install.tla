------------------------------ MODULE Install ------------------------------
(***************************************************************************)
(* INSTALL.JNL: putting a finished upload on the shelf under its long name *)
(* in place of the book that held it.  (upload-store/src/install.rs, and   *)
(* the session and the mounts that call it, fw/src/sd_session.rs and       *)
(* storage/src/library_sd.rs)                                              *)
(*                                                                         *)
(* One record says what is to happen; how far it got is read off the card. *)
(* A file is moved by two directory writes, so for a moment two names      *)
(* stand on one chain, and a file is deleted by truncating it first.  Each *)
(* step here is one such write, and the power may go between any two.      *)
(*                                                                         *)
(* A chain is one value here, taken and freed whole: Reclaim has its       *)
(* clusters.  REPLACE.JNL, the library's own intent, is whether it stands. *)
(***************************************************************************)
EXTENDS Naturals, FiniteSets

CONSTANTS
    LongNames,      \* names books are uploaded under
    Installable,    \* those the driver will write as a long name
    Aliases,        \* 8.3 names in /BOOKS, handed out by the driver
    ScratchNames,   \* names in /READER/UPLOAD
    ScratchOf,      \* the scratch name an upload of a long name gets
    Probes,         \* parked names to try for one scratch name (16 in code)
    Chains,         \* the card's room, in files
    Books,          \* what an uploaded book can hold
    Strangers,      \* what a file copied on from a computer can hold
    SizeOf,         \* how long a file holding it is
    StepLimit,      \* steps one pass takes (8 in the code)
    None            \* no entry, no book, no catalog

Free == "free"      \* an unallocated chain
Junk == "junk"      \* a file cut short: no length, and no book

ASSUME ScratchAssumption ==
    ScratchOf \in [LongNames -> ScratchNames] /\ Installable \subseteq LongNames
ASSUME ContentAssumption ==
    /\ Books \cap Strangers = {}
    /\ {Free, Junk, None} \cap (Books \cup Strangers) = {}
ASSUME SizeAssumption  == SizeOf \in [Books \cup Strangers -> Nat \ {0}]
ASSUME CountAssumption == Probes \in Nat \ {0} /\ StepLimit \in Nat \ {0}

ParkedNames == ScratchNames \X (0 .. Probes - 1)
Contents    == Books \cup Strangers
Held        == Contents \cup {Junk}

VARIABLES
    books,      \* /BOOKS: alias -> entry or None
    scratch,    \* /READER/UPLOAD: scratch name -> entry or None
    parked,     \* /READER/ROLLBACK: parked name -> entry or None
    holds,      \* chain -> what its clusters hold
    journal,    \* INSTALL.JNL
    reclaim,    \* the file RECLAIM.JNL's record is taking away, or None
    owed,       \* REPLACE.JNL stands: the ledger has not been told
    catalog,    \* CATALOG.BIN: the shelf it lists, or None
    pc,         \* where the task that owns the card is
    caller,     \* what asked for the pass that is running
    steps,      \* steps this pass has taken
    step,       \* the step being applied
    had,        \* had_intent, or the shelf was touched
    upload,     \* the StagedUpload, or None
    victim,     \* the leftover being discarded, or None
    resume,     \* where to go once it is
    served      \* the catalog in the reader's memory, or None

card   == <<books, scratch, parked, holds, journal, reclaim, owed, catalog>>
files  == <<books, scratch, parked, holds>>
memory == <<caller, steps, step, had, upload, victim, resume, served>>
vars   == <<card, pc, memory>>

-----------------------------------------------------------------------------
(***************************************************************************)
(* Entries and records                                                     *)
(***************************************************************************)
\* An entry's length is that of what was written through it.
Size(content) == IF content = Junk THEN 0 ELSE SizeOf[content]
File(chain, content) == [chain |-> chain, is |-> content]

\* A book stored before long names has only its alias, and a sidecar that says
\* which book it is.
Book(title, legacy, file) ==
    [title |-> title, legacy |-> legacy, chain |-> file.chain, is |-> file.is]
Body(book) == File(book.chain, book.is)

Located(alias, file) == [alias |-> alias, chain |-> file.chain, size |-> Size(file.is)]

\* Mutant: a file is known by its chain alone.
IsByChain(located, file) == file.chain = located.chain
\* Located::is: a chain is handed on, and a size rarely goes with it.
Is(located, file) ==
    file.chain = located.chain /\ Size(file.is) = located.size

Absent       == [kind |-> "absent"]
Truncated    == [kind |-> "truncated"]
Unrecognized == [kind |-> "unrecognized"]
Record(name, stage, old, rollback) ==
    [kind |-> "valid", name |-> name, stage |-> stage, old |-> old,
     rollback |-> rollback]

Valid     == journal.kind = "valid"
\* journal_is_clear, and what begin and write_intent ask.
NoInstall == journal.kind \in {"absent", "truncated"}

Holders(n) == {a \in Aliases : books[a] # None /\ books[a].title = n /\ ~books[a].legacy}
Legacies(n) == {a \in Aliases : books[a] # None /\ books[a].title = n /\ books[a].legacy}

Listed == {a \in Aliases : books[a] # None}
ShelfHoldsChain(chain) == \E a \in Listed : books[a].chain = chain

\* What a scan finds.
Shelf == {<<a, books[a].title, books[a].is>> : a \in Listed}

-----------------------------------------------------------------------------
(***************************************************************************)
(* observe and plan                                                        *)
(***************************************************************************)
StageStands ==
    LET file == scratch[journal.stage.alias]
    IN  file # None /\ Is(journal.stage, file)

ParkedIsOld(file) == journal.old # None /\ Is(journal.old, file)

ParkedStands ==
    LET file == parked[journal.rollback]
    IN  file # None /\ ParkedIsOld(file)

Installed == \E a \in Holders(journal.name) : Is(journal.stage, Body(books[a]))

\* Two names on one chain can only have come from this build's own move.
Restored ==
    \E a \in Holders(journal.name) :
        parked[journal.rollback] # None /\ Body(books[a]) = parked[journal.rollback]

Standing ==
    /\ journal.old # None
    /\ books[journal.old.alias] # None
    /\ Is(journal.old, Body(books[journal.old.alias]))

OldStands == Restored \/ Standing

Foreign ==
    \E a \in Holders(journal.name) :
        /\ ~Installed /\ ~Restored
        /\ ~(journal.old # None /\ Is(journal.old, Body(books[a])))

\* Mutant: an upload that cannot be named is installed all the same.
StageCountsAlways == StageStands

\* The upload is there and can land.
StageCounts == StageStands /\ (Installed \/ journal.name \in Installable)

PlanToInstall ==
    CASE Foreign /\ ~ParkedStands              -> "Done"
      [] Foreign /\ ParkedStands               -> "InstallStage"
      [] ~Foreign /\ OldStands /\ ~ParkedStands -> "RetireOldHolder"
      [] ~Foreign /\ OldStands /\ ParkedStands  -> "UnlinkOldHolder"
      [] OTHER                                 -> "InstallStage"

PlanInstalled ==
    CASE ~ParkedStands             -> "Done"
      [] ParkedStands /\ OldStands -> "UnlinkRollbackCopy"
      [] OTHER                     -> "ReclaimRollback"

PlanLost ==
    CASE ~ParkedStands             -> "Done"
      [] ParkedStands /\ OldStands -> "UnlinkRollbackCopy"
      [] OTHER                     -> "RestoreOldHolder"

\* Mutant: the predecessor is freed as soon as it is parked.
PlanReclaimsEarly ==
    CASE StageCounts /\ ParkedStands /\ ~OldStands -> "ReclaimRollback"
      [] StageCounts /\ ~Installed  -> PlanToInstall
      [] StageCounts /\ Installed   -> "UnlinkStage"
      [] ~StageCounts /\ Installed  -> PlanInstalled
      [] OTHER                      -> PlanLost

\* The next step, from what stands and nothing else.
Plan ==
    CASE StageCounts /\ ~Installed -> PlanToInstall
      [] StageCounts /\ Installed  -> "UnlinkStage"
      [] ~StageCounts /\ Installed -> PlanInstalled
      [] OTHER                     -> PlanLost

-----------------------------------------------------------------------------
(***************************************************************************)
(* A pass: reclaim::recover, recover_installs, replace::recover            *)
(***************************************************************************)
\* A pass over the card begins: at a mount, or when a command finds it owed.
BeginPass(who) ==
    /\ pc' = "reclaim"
    /\ caller' = who
    /\ steps' = 0 /\ step' = "none" /\ had' = FALSE
    /\ UNCHANGED <<upload, victim, resume>>

\* reclaim::recover and reclaim_entry's tail: the name first, if it is still
\* that file's.
Named(r) == IF r.dir = "books" THEN books[r.key] ELSE parked[r.key]

ReclaimUnlink ==
    /\ pc = "reclaim"
    /\ reclaim # None
    /\ Named(reclaim) # None /\ Named(reclaim).chain = reclaim.chain
    /\ IF reclaim.dir = "books"
       THEN books' = [books EXCEPT ![reclaim.key] = None] /\ UNCHANGED parked
       ELSE parked' = [parked EXCEPT ![reclaim.key] = None] /\ UNCHANGED books
    /\ UNCHANGED <<scratch, holds, journal, reclaim, owed, catalog, pc, memory>>

\* Then its clusters, and the record.
ReclaimFree ==
    /\ pc = "reclaim"
    /\ reclaim # None
    /\ ~(Named(reclaim) # None /\ Named(reclaim).chain = reclaim.chain)
    /\ holds' = [holds EXCEPT ![reclaim.chain] = Free]
    /\ reclaim' = None
    /\ UNCHANGED <<books, scratch, parked, journal, owed, catalog, pc, memory>>

\* Back to whoever reclaimed.
ReclaimSettled ==
    /\ pc = "reclaim"
    /\ reclaim = None
    /\ pc' = CASE step = "ReclaimRollback"                       -> "observe"
               [] step # "ReclaimRollback" /\ caller = "delete" -> "session"
               [] OTHER                                         -> "journal"
    /\ caller' = IF caller = "delete" /\ step = "none" THEN "none" ELSE caller
    /\ step' = "none"
    /\ UNCHANGED <<card, steps, had, upload, victim, resume, served>>

\* Mutant: a record that cannot be read is taken for a finished one.
ReadIntentForgives ==
    /\ pc = "journal"
    /\ had' = (journal # Absent)
    /\ catalog' = IF journal = Absent THEN catalog ELSE None
    /\ pc' = CASE NoInstall /\ caller = "command"        -> "done"
               [] Valid                                  -> "observe"
               [] journal = Absent /\ caller # "command" -> "sweep"
               [] OTHER                                  -> "clear"
    /\ UNCHANGED <<files, journal, reclaim, owed, caller, steps, step, upload,
                   victim, resume, served>>

\* Mutant: whatever is in the file is a record to be replayed.
ReadIntentReplaysTruncated ==
    /\ pc = "journal"
    /\ had' = (journal # Absent)
    /\ catalog' = IF journal = Absent THEN catalog ELSE None
    /\ pc' = IF journal = Absent THEN "sweep" ELSE "observe"
    /\ UNCHANGED <<files, journal, reclaim, owed, caller, steps, step, upload,
                   victim, resume, served>>

\* recover_installs: the catalog goes before anything it might misdescribe.  A
\* command asks only whether a whole record stands.
ReadIntent ==
    /\ pc = "journal"
    /\ had' = (journal # Absent)
    /\ catalog' = IF journal.kind \in {"valid", "truncated"} THEN None ELSE catalog
    /\ pc' = CASE NoInstall /\ caller = "command"           -> "done"
               [] Valid                                     -> "observe"
               [] journal = Truncated /\ caller # "command" -> "clear"
               [] journal = Absent /\ caller # "command"    -> "sweep"
               [] OTHER                                     -> "stopped"
    /\ UNCHANGED <<files, journal, reclaim, owed, caller, steps, step, upload,
                   victim, resume, served>>

Planned(which) == pc = "observe" /\ steps < StepLimit /\ Plan = which

\* The first write of a step, or its only one; `next` is what is left of it.
Apply(next) ==
    /\ pc' = next
    /\ steps' = steps + 1
    /\ UNCHANGED <<journal, owed, catalog, caller, had, upload, victim, resume, served>>

RetireOldHolder ==
    /\ Planned("RetireOldHolder")
    /\ parked[journal.rollback] = None
    /\ parked' = [parked EXCEPT ![journal.rollback] = Body(books[journal.old.alias])]
    /\ Apply("unlink") /\ step' = "RetireOldHolder"
    /\ UNCHANGED <<books, scratch, holds, reclaim>>

UnlinkOldHolder ==
    /\ Planned("UnlinkOldHolder")
    /\ books' = [books EXCEPT ![journal.old.alias] = None]
    /\ Apply("observe") /\ step' = "none"
    /\ UNCHANGED <<scratch, parked, holds, reclaim>>

\* The driver derives an alias nothing holds, and refuses a name one holds or
\* it does not write.
InstallStage ==
    /\ Planned("InstallStage")
    /\ journal.name \in Installable
    /\ Holders(journal.name) = {}
    /\ \E a \in Aliases \ Listed :
         books' = [books EXCEPT ![a] =
                     Book(journal.name, FALSE, scratch[journal.stage.alias])]
    /\ Apply("unlink") /\ step' = "InstallStage"
    /\ UNCHANGED <<scratch, parked, holds, reclaim>>

UnlinkStage ==
    /\ Planned("UnlinkStage")
    /\ scratch' = [scratch EXCEPT ![journal.stage.alias] = None]
    /\ Apply("observe") /\ step' = "none"
    /\ UNCHANGED <<books, parked, holds, reclaim>>

\* Handed to the reclaim journal, which refuses beside a standing record.
ReclaimRollback ==
    /\ Planned("ReclaimRollback")
    /\ reclaim = None
    /\ reclaim' = [dir |-> "rollback", key |-> journal.rollback,
                   chain |-> parked[journal.rollback].chain]
    /\ Apply("reclaim") /\ step' = "ReclaimRollback"
    /\ UNCHANGED files

\* Under the book's long name where the driver will write it, else under the
\* alias it was found by.
RestoreOldHolder ==
    /\ Planned("RestoreOldHolder")
    /\ IF journal.name \in Installable
       THEN /\ Holders(journal.name) = {}
            /\ \E a \in Aliases \ Listed :
                 books' = [books EXCEPT ![a] =
                             Book(journal.name, FALSE, parked[journal.rollback])]
       ELSE /\ books[journal.old.alias] = None
            /\ books' = [books EXCEPT ![journal.old.alias] =
                           Book(journal.name, TRUE, parked[journal.rollback])]
    /\ Apply("unlink") /\ step' = "RestoreOldHolder"
    /\ UNCHANGED <<scratch, parked, holds, reclaim>>

UnlinkRollbackCopy ==
    /\ Planned("UnlinkRollbackCopy")
    /\ parked' = [parked EXCEPT ![journal.rollback] = None]
    /\ Apply("observe") /\ step' = "none"
    /\ UNCHANGED <<books, scratch, holds, reclaim>>

\* Mutant: the source of a move is deleted the way a leftover is.
UnlinkSourceFreeing ==
    /\ pc = "unlink"
    /\ scratch' = [scratch EXCEPT ![journal.stage.alias] = None]
    /\ holds' = [holds EXCEPT ![journal.stage.chain] = Free]
    /\ pc' = "observe" /\ step' = "none"
    /\ UNCHANGED <<books, parked, journal, reclaim, owed, catalog, caller, steps,
                   had, upload, victim, resume, served>>

\* The second write of a move.
UnlinkSource ==
    /\ pc = "unlink"
    /\ CASE step = "RetireOldHolder" ->
              /\ books' = [books EXCEPT ![journal.old.alias] = None]
              /\ UNCHANGED <<scratch, parked>>
         [] step = "InstallStage" ->
              /\ scratch' = [scratch EXCEPT ![journal.stage.alias] = None]
              /\ UNCHANGED <<books, parked>>
         [] step = "RestoreOldHolder" ->
              /\ parked' = [parked EXCEPT ![journal.rollback] = None]
              /\ UNCHANGED <<books, scratch>>
    /\ pc' = "observe" /\ step' = "none"
    /\ UNCHANGED <<holds, journal, reclaim, owed, catalog, caller, steps, had,
                   upload, victim, resume, served>>

\* A step the card will not take, or one too many, stops the pass and leaves
\* the record for the next.
Blocked ==
    \/ steps = StepLimit
    \/ Plan = "RetireOldHolder" /\ (~Standing \/ parked[journal.rollback] # None)
    \/ /\ Plan = "InstallStage"
       /\ Holders(journal.name) # {} \/ Listed = Aliases \/ journal.name \notin Installable
    \/ /\ Plan = "RestoreOldHolder"
       /\ IF journal.name \in Installable
          THEN Holders(journal.name) # {} \/ Listed = Aliases
          ELSE books[journal.old.alias] # None

StopBlocked ==
    /\ pc = "observe"
    /\ Blocked
    /\ pc' = "stopped"
    /\ UNCHANGED <<card, memory>>

PlanDone ==
    /\ Planned("Done")
    /\ pc' = "clear"
    /\ UNCHANGED <<card, memory>>

\* Mutant: the record is cut short and its name left standing.
ClearIntentHalf ==
    /\ pc = "clear"
    /\ journal' = Truncated /\ pc' = "sweep"
    /\ UNCHANGED <<files, reclaim, owed, catalog, memory>>

\* clear_intent: the record is cut short, then its name goes.
ClearIntent ==
    /\ pc = "clear"
    /\ IF journal = Truncated
       THEN journal' = Absent /\ pc' = "sweep"
       ELSE journal' = Truncated /\ UNCHANGED pc
    /\ UNCHANGED <<files, reclaim, owed, catalog, memory>>

-----------------------------------------------------------------------------
(***************************************************************************)
(* Leftovers: sweep_leftovers, discard_leftover                            *)
(***************************************************************************)
Leftovers ==
    {<<"scratch", s>> : s \in {s \in ScratchNames : scratch[s] # None}} \cup
    {<<"parked", p>> : p \in {p \in ParkedNames : parked[p] # None}}

FileOf(v) == IF v[1] = "scratch" THEN scratch[v[2]] ELSE parked[v[2]]

SetFile(v, file) ==
    IF v[1] = "scratch"
    THEN scratch' = [scratch EXCEPT ![v[2]] = file] /\ UNCHANGED parked
    ELSE parked' = [parked EXCEPT ![v[2]] = file] /\ UNCHANGED scratch

SweepNext ==
    /\ pc = "sweep"
    /\ \E v \in Leftovers : victim' = v
    /\ pc' = "discard" /\ resume' = "sweep"
    /\ UNCHANGED <<card, caller, steps, step, had, upload, served>>

\* Nothing left, or the card would not delete one: a leftover is nobody's.
SweepEnd ==
    /\ pc = "sweep"
    /\ pc' = "done"
    /\ UNCHANGED <<card, memory>>

\* A chain the shelf reads from loses only this name for it.
DiscardShared ==
    /\ pc = "discard"
    /\ ShelfHoldsChain(FileOf(victim).chain)
    /\ SetFile(victim, None)
    /\ pc' = resume /\ victim' = None /\ resume' = "sweep"
    /\ UNCHANGED <<books, holds, journal, reclaim, owed, catalog, caller, steps,
                   step, had, upload, served>>

\* Mutant: truncated without asking the shelf.
DiscardTruncateAlways ==
    /\ pc = "discard"
    /\ SetFile(victim, File(FileOf(victim).chain, Junk))
    /\ holds' = [holds EXCEPT ![FileOf(victim).chain] = Junk]
    /\ pc' = "remove"
    /\ UNCHANGED <<books, journal, reclaim, owed, catalog, memory>>

\* remove_file_reclaiming_clusters: truncate, unlink, free what is left.
DiscardTruncate ==
    /\ pc = "discard"
    /\ ~ShelfHoldsChain(FileOf(victim).chain)
    /\ SetFile(victim, File(FileOf(victim).chain, Junk))
    /\ holds' = [holds EXCEPT ![FileOf(victim).chain] = Junk]
    /\ pc' = "remove"
    /\ UNCHANGED <<books, journal, reclaim, owed, catalog, memory>>

\* The free may be refused, or cut off: the first cluster then leaks.
RemoveTruncated ==
    /\ pc = "remove"
    /\ \E left \in {Free, Junk} :
         holds' = [holds EXCEPT ![FileOf(victim).chain] = left]
    /\ SetFile(victim, None)
    /\ pc' = resume /\ victim' = None /\ resume' = "sweep"
    /\ UNCHANGED <<books, journal, reclaim, owed, catalog, caller, steps, step,
                   had, upload, served>>

-----------------------------------------------------------------------------
(***************************************************************************)
(* What a pass is for: reconcile_interrupted_uploads, serve_uploads,       *)
(* StagedUpload::install                                                   *)
(***************************************************************************)
Returning ==
    /\ steps' = 0 /\ step' = "none" /\ had' = FALSE /\ caller' = "none"
    /\ UNCHANGED <<upload, victim, resume>>

\* Complete: the library's intent is settled last.  A cached catalog is served
\* only where no record of any kind was found.
PassDone ==
    /\ pc = "done"
    /\ owed' = FALSE
    /\ CASE caller = "hit"  -> /\ pc' = "reader"
                               /\ served' = IF had \/ owed THEN None ELSE served
         [] caller = "scan" -> pc' = "publish" /\ UNCHANGED served
         [] OTHER           -> pc' = "session" /\ UNCHANGED served
    /\ Returning
    /\ UNCHANGED <<files, journal, reclaim, catalog>>

\* Mutant: a scan publishes whatever the pass left standing.
PassStoppedPublishes ==
    /\ pc \in {"stopped", "refused"}
    /\ CASE caller = "hit"  -> pc' = "reader" /\ served' = None
         [] caller = "scan" -> pc' = "publish" /\ UNCHANGED served
         [] OTHER           -> pc' = "session" /\ UNCHANGED served
    /\ Returning
    /\ UNCHANGED card

\* Incomplete: a scan still publishes, unless the reclaim was not settled or a
\* replacement stands beside the install.
PassStopped ==
    /\ pc \in {"stopped", "refused"}
    /\ CASE caller = "hit"  -> pc' = "reader" /\ served' = None
         [] caller = "scan" -> /\ pc' = IF pc = "refused" \/ owed THEN "reader" ELSE "publish"
                               /\ UNCHANGED served
         [] OTHER           -> pc' = "session" /\ UNCHANGED served
    /\ Returning
    /\ UNCHANGED card

\* scan_books, once reconciled.
PublishCatalog ==
    /\ pc = "publish"
    /\ catalog' = Shelf /\ served' = Shelf
    /\ pc' = "reader"
    /\ UNCHANGED <<files, journal, reclaim, owed, caller, steps, step, had, upload,
                   victim, resume>>

\* load_catalog_cache: read first, then reconciled.  An empty snapshot is
\* rescanned rather than believed.
BootFromCatalog ==
    /\ pc = "off"
    /\ catalog \notin {None, {}}
    /\ served' = catalog
    /\ BeginPass("hit")
    /\ UNCHANGED card

\* A miss is answered by a scan, and the reader can ask for one.
Scan ==
    /\ pc = "reader" \/ (pc = "off" /\ catalog \in {None, {}})
    /\ BeginPass("scan")
    /\ UNCHANGED <<card, served>>

\* Mutant: the snapshot is left in place for the session.
StartSessionKeepsCatalog ==
    /\ pc \in {"off", "reader"}
    /\ served' = None
    /\ BeginPass("session")
    /\ UNCHANGED card

\* A session proves the snapshot gone before it changes anything.
StartSession ==
    /\ pc \in {"off", "reader"}
    /\ catalog' = None /\ served' = None
    /\ BeginPass("session")
    /\ UNCHANGED <<files, journal, reclaim, owed>>

\* storage_settled, asked before every command.
StorageSettled == reclaim = None /\ NoInstall /\ ~owed

Retry ==
    /\ pc = "session"
    /\ ~StorageSettled
    /\ BeginPass("command")
    /\ UNCHANGED <<card, served>>

DeleteBook(a) ==
    /\ pc = "session"
    /\ StorageSettled
    /\ books[a] # None
    /\ reclaim' = [dir |-> "books", key |-> a, chain |-> books[a].chain]
    /\ pc' = "reclaim" /\ caller' = "delete"
    /\ UNCHANGED <<files, journal, owed, catalog, steps, step, had, upload, victim,
                   resume, served>>

-----------------------------------------------------------------------------
(***************************************************************************)
(* StagedUpload                                                            *)
(***************************************************************************)
\* begin: whatever holds the scratch name goes first.
StageUpload(n, c) ==
    /\ pc = "session"
    /\ StorageSettled
    /\ upload' = [name |-> n, is |-> c]
    /\ IF scratch[ScratchOf[n]] = None
       THEN pc' = "stage" /\ UNCHANGED <<victim, resume>>
       ELSE pc' = "discard" /\ victim' = <<"scratch", ScratchOf[n]>> /\ resume' = "stage"
    /\ UNCHANGED <<card, caller, steps, step, had, served>>

\* A name the driver will not write is refused.
BeginUpload(n, c) == n \in Installable /\ StageUpload(n, c)

CreateScratch ==
    /\ pc = "stage"
    /\ \E chain \in Chains :
         /\ holds[chain] = Free
         /\ holds' = [holds EXCEPT ![chain] = Junk]
         /\ scratch' = [scratch EXCEPT ![ScratchOf[upload.name]] = File(chain, Junk)]
    /\ pc' = "stream"
    /\ UNCHANGED <<books, parked, journal, reclaim, owed, catalog, memory>>

\* Abandoned, or the body could not be written.
Abandon ==
    /\ pc = "stream"
    /\ victim' = <<"scratch", ScratchOf[upload.name]>>
    /\ upload' = None
    /\ resume' = "session"
    /\ pc' = "remove"
    /\ UNCHANGED <<card, caller, steps, step, had, served>>

\* install: the close makes the body durable and its chain known.
CloseScratch ==
    /\ pc = "stream"
    /\ LET s == ScratchOf[upload.name]
       IN  /\ scratch' = [scratch EXCEPT ![s].is = upload.is]
           /\ holds' = [holds EXCEPT ![scratch[s].chain] = upload.is]
    /\ pc' = "owe"
    /\ UNCHANGED <<books, parked, journal, reclaim, owed, catalog, memory>>

\* replace::begin, durable before the filesystem's record.
BeginReplace ==
    /\ pc = "owe"
    /\ owed' = TRUE
    /\ pc' = "record"
    /\ UNCHANGED <<files, journal, reclaim, catalog, memory>>

\* The book the name holds, or the one stored for it before long names.
Predecessor(n) ==
    LET found == IF Holders(n) # {} THEN Holders(n) ELSE Legacies(n)
    IN  IF found = {} THEN None
        ELSE LET a == CHOOSE a \in found : TRUE IN Located(a, Body(books[a]))

FreeProbes(s) == {i \in 0 .. Probes - 1 : parked[<<s, i>>] = None}

\* The record, with a parked name nothing holds.
Intent ==
    LET s == ScratchOf[upload.name]
        i == CHOOSE i \in FreeProbes(s) : \A j \in FreeProbes(s) : i <= j
    IN  Record(upload.name, Located(s, scratch[s]), Predecessor(upload.name), <<s, i>>)

ParkedNameFree == FreeProbes(ScratchOf[upload.name]) # {}

WriteIntent ==
    /\ pc = "record"
    /\ ParkedNameFree
    /\ journal' = Intent
    /\ pc' = "journal" /\ caller' = "install"
    /\ upload' = None
    /\ UNCHANGED <<files, reclaim, owed, catalog, steps, step, had, victim, resume, served>>

-----------------------------------------------------------------------------
(***************************************************************************)
(* What goes wrong                                                         *)
(***************************************************************************)
\* The card refuses one read or write: a pass is stopped, or never gets past
\* the reclaim it begins with; a leftover is left, a command or a scan fails.
StopsPass ==
    /\ pc \in {"reclaim", "journal", "observe", "unlink", "clear"}
    /\ caller # "delete"
    /\ pc' = IF pc = "reclaim" /\ step = "none" THEN "refused" ELSE "stopped"
    /\ UNCHANGED <<card, memory>>

LeavesLeftover ==
    /\ pc \in {"discard", "remove"} /\ resume = "sweep"
    /\ pc' = "done" /\ victim' = None
    /\ UNCHANGED <<card, caller, steps, step, had, upload, resume, served>>

\* A write that is refused may have reached the card all the same.
FailsCommand ==
    /\ \/ pc \in {"stage", "stream", "owe", "record"}
       \/ pc \in {"discard", "remove"} /\ resume # "sweep"
       \/ pc = "reclaim" /\ caller = "delete"
    /\ owed' \in (IF pc = "owe" THEN {owed, TRUE} ELSE {owed})
    /\ journal' \in (IF pc = "record" /\ ParkedNameFree
                     THEN {journal, Truncated, Intent} ELSE {journal})
    /\ pc' = "session" /\ caller' = "none"
    /\ upload' = None /\ victim' = None /\ resume' = "sweep"
    /\ UNCHANGED <<files, reclaim, catalog, steps, step, had, served>>

\* The catalog that is there afterwards is served, if it is whole.
FailsScan ==
    /\ pc = "publish"
    /\ catalog' \in {catalog, None}
    /\ served' = catalog'
    /\ pc' = "reader"
    /\ UNCHANGED <<files, journal, reclaim, owed, caller, steps, step, had, upload,
                   victim, resume>>

Fail == StopsPass \/ LeavesLeftover \/ FailsCommand \/ FailsScan

\* The power goes, or the session ends in its reset; a record being written is
\* cut short, and so is a catalog.
Crash ==
    /\ pc # "off"
    /\ pc' = "off"
    /\ journal' \in (IF pc = "record" THEN {journal, Truncated} ELSE {journal})
    /\ catalog' \in (IF pc = "publish" THEN {catalog, None} ELSE {catalog})
    /\ caller' = "none" /\ steps' = 0 /\ step' = "none" /\ had' = FALSE
    /\ upload' = None /\ victim' = None /\ resume' = "sweep" /\ served' = None
    /\ UNCHANGED <<files, reclaim, owed>>

\* The card is in a computer: a file that is nobody's copy is deleted, or one
\* is copied on.  Not while a reclaim record stands.
Names(chain) ==
    {<<"books", a>> : a \in {a \in Listed : books[a].chain = chain}} \cup
    {v \in Leftovers : FileOf(v).chain = chain}

ComputerDeletes ==
    /\ pc = "off" /\ reclaim = None
    /\ \E chain \in Chains, name \in {"books", "scratch", "parked"} \X
                                      (Aliases \cup ScratchNames \cup ParkedNames) :
         /\ Names(chain) = {name}
         /\ holds' = [holds EXCEPT ![chain] = Free]
         /\ IF name[1] = "books"
            THEN books' = [books EXCEPT ![name[2]] = None] /\ UNCHANGED <<scratch, parked>>
            ELSE SetFile(name, None) /\ UNCHANGED books
    /\ UNCHANGED <<journal, reclaim, owed, catalog, pc, memory>>

ComputerCopies ==
    /\ pc = "off" /\ reclaim = None
    /\ \E chain \in Chains, c \in Strangers :
         /\ holds[chain] = Free
         /\ holds' = [holds EXCEPT ![chain] = c]
         /\ \/ \E n \in LongNames, a \in Aliases \ Listed :
                 /\ Holders(n) = {}
                 /\ books' = [books EXCEPT ![a] = Book(n, FALSE, File(chain, c))]
                 /\ UNCHANGED <<scratch, parked>>
            \/ \E s \in ScratchNames :
                 scratch[s] = None /\ SetFile(<<"scratch", s>>, File(chain, c)) /\ UNCHANGED books
            \/ \E p \in ParkedNames :
                 parked[p] = None /\ SetFile(<<"parked", p>>, File(chain, c)) /\ UNCHANGED books
    /\ UNCHANGED <<journal, reclaim, owed, catalog, pc, memory>>

\* Or the record itself is lost there.
ComputerLosesRecord ==
    /\ pc = "off" /\ Valid
    /\ journal' = Absent
    /\ UNCHANGED <<files, reclaim, owed, catalog, pc, memory>>

\* A later build took the transaction over and left a record of its own.
LaterRecord ==
    /\ pc = "off" /\ Valid
    /\ journal' = Unrecognized
    /\ UNCHANGED <<files, reclaim, owed, catalog, pc, memory>>

\* An earlier build, which kept no REPLACE.JNL, took names the driver refuses
\* and parked the book they replace before it found out.  What it uploads here
\* are those names; the others are this build's.
EarlierBegin ==
    \E n \in LongNames \ Installable, c \in Books : StageUpload(n, c)

EarlierOwesNothing ==
    /\ pc = "owe" /\ upload.name \notin Installable
    /\ pc' = "record"
    /\ UNCHANGED <<card, memory>>

EarlierRetire ==
    /\ pc = "observe" /\ caller = "install" /\ steps = 0
    /\ journal.name \notin Installable
    /\ Standing /\ parked[journal.rollback] = None
    /\ parked' = [parked EXCEPT ![journal.rollback] = Body(books[journal.old.alias])]
    /\ Apply("unlink") /\ step' = "RetireOldHolder"
    /\ UNCHANGED <<books, scratch, holds, reclaim>>

-----------------------------------------------------------------------------
(***************************************************************************)
(* Behaviours                                                              *)
(***************************************************************************)
Asleep ==
    /\ pc = "off" /\ caller = "none" /\ steps = 0 /\ step = "none" /\ had = FALSE
    /\ upload = None /\ victim = None /\ resume = "sweep" /\ served = None

\* A card with some of the books on it, with long names or from before them.
Stocked(titles, legacy, at, where, what) ==
    /\ books = [a \in Aliases |->
         IF \E n \in titles : at[n] = a
         THEN LET n == CHOOSE n \in titles : at[n] = a
              IN  Book(n, n \in legacy, File(where[n], what[n]))
         ELSE None]

OneToOne(f) == \A x, y \in DOMAIN f : f[x] = f[y] => x = y

AnyShelf ==
    \E titles \in SUBSET LongNames :
    \E legacy \in SUBSET titles, at \in [titles -> Aliases],
       where \in [titles -> Chains], what \in [titles -> Books] :
        /\ OneToOne(at) /\ OneToOne(where)
        /\ (LongNames \ Installable) \cap titles \subseteq legacy
        /\ Stocked(titles, legacy, at, where, what)
        /\ holds = [chain \in Chains |->
             IF \E n \in titles : where[n] = chain
             THEN what[CHOOSE n \in titles : where[n] = chain] ELSE Free]

Init ==
    /\ AnyShelf
    /\ scratch = [s \in ScratchNames |-> None]
    /\ parked = [p \in ParkedNames |-> None]
    /\ journal = Absent /\ reclaim = None /\ owed = FALSE /\ catalog = None
    /\ Asleep

Pass ==
    \/ ReclaimUnlink \/ ReclaimFree \/ ReclaimSettled
    \/ ReadIntent
    \/ RetireOldHolder \/ UnlinkOldHolder \/ InstallStage \/ UnlinkStage
    \/ ReclaimRollback \/ RestoreOldHolder \/ UnlinkRollbackCopy \/ UnlinkSource
    \/ StopBlocked \/ PlanDone \/ ClearIntent
    \/ SweepNext \/ SweepEnd \/ DiscardShared \/ DiscardTruncate \/ RemoveTruncated
    \/ PassDone \/ PassStopped \/ PublishCatalog

Uploading ==
    \/ \E n \in LongNames, c \in Books : BeginUpload(n, c)
    \/ CreateScratch \/ Abandon \/ CloseScratch \/ BeginReplace \/ WriteIntent

Next ==
    \/ Pass
    \/ BootFromCatalog \/ Scan \/ StartSession \/ Retry
    \/ Uploading
    \/ \E a \in Aliases : DeleteBook(a)
    \/ Fail
    \/ Crash

Spec == Init /\ [][Next]_vars

\* An earlier build ran on the card in between.  A pass that has begun runs on.
Earlier     == EarlierBegin \/ EarlierOwesNothing \/ EarlierRetire
EarlierSpec == Init /\ [][Next \/ Earlier]_vars /\ WF_vars(Pass)

\* The card also visits a computer, or a later build.
Elsewhere   == ComputerDeletes \/ ComputerCopies \/ ComputerLosesRecord \/ LaterRecord
BrowsedSpec == Init /\ [][Next \/ Elsewhere]_vars

-----------------------------------------------------------------------------
(***************************************************************************)
(* Properties                                                              *)
(***************************************************************************)
Files   == [chain : Chains, is : Held]
Entries == [title : LongNames, legacy : BOOLEAN, chain : Chains, is : Held]
Locations(names) == [alias : names, chain : Chains, size : Nat]
Records ==
    [kind : {"valid"}, name : LongNames, stage : Locations(ScratchNames),
     old : Locations(Aliases) \cup {None}, rollback : ParkedNames]

\* Nothing is told from every entry, place, reclaim and request.
ASSUME NoneAssumption ==
    None \notin Files \cup Entries \cup Locations(Aliases) \cup
                [dir : {"books", "rollback"}, key : Aliases \cup ParkedNames, chain : Chains] \cup
                [name : LongNames, content : Held \cup {None}]

TypeOK ==
    /\ books \in [Aliases -> Entries \cup {None}]
    /\ scratch \in [ScratchNames -> Files \cup {None}]
    /\ parked \in [ParkedNames -> Files \cup {None}]
    /\ holds \in [Chains -> Held \cup {Free}]
    /\ journal \in {Absent, Truncated, Unrecognized} \cup Records
    /\ reclaim = None \/ (reclaim.dir \in {"books", "rollback"} /\ reclaim.chain \in Chains)
    /\ owed \in BOOLEAN /\ had \in BOOLEAN
    /\ steps \in 0 .. StepLimit
    /\ upload = None \/ (upload.name \in LongNames /\ upload.is \in Books)
    /\ pc = "observe" => Valid

\* Whatever was interrupted, a name on the shelf leads to the whole of the file
\* it was given: no leftover, no obsolete predecessor and no second name of it
\* was freed from under it.
ListedReadable == \A a \in Listed : holds[books[a].chain] = books[a].is

\* While nothing on the card says that the shelf has moved, a catalog snapshot
\* describes it.
NothingOnRecord == journal = Absent /\ reclaim = None /\ ~owed
SnapshotIsTrue  == catalog # None /\ NothingOnRecord => catalog = Shelf

\* The catalog the reader picks books from describes the shelf, however many
\* crashes and passes ago it was written.
ServedIsTrue == pc = "reader" /\ served # None => served = Shelf

\* A pass stops short only because the card refused it something: on a card
\* nobody else writes, every state a cut can leave has a step that can be
\* taken, and the steps run out before the bound does.
StoppedByCardOnly == pc = "observe" => ~Blocked

\* A record this build cannot read is the only account of where a book went:
\* once a standing reclaim is finished, nothing it could be speaking of is
\* moved, swept or replaced beside it.
UnrecognizedStands ==
    [][journal = Unrecognized /\ reclaim = None /\ pc # "off"
          => UNCHANGED <<files, journal, reclaim>>]_vars

\* "An unfinished install leaves the shelf holding one complete book either way
\* -- the old one or the new one": what library_sd.rs says where it lets a shelf
\* with an install still in flight be served.  It gets there only beside no
\* REPLACE.JNL, so with the record of an earlier build.
UnfinishedShelfHoldsOne ==
    pc = "reader" /\ served # None /\ Valid /\ journal.old # None
        => \E book \in served : book[2] = journal.name

\* A file somebody else put on the shelf is left as it is, unless a delete
\* names it or an upload replaced it knowing its chain and its length.
Asked(a) ==
    \/ reclaim # None /\ reclaim.dir = "books" /\ reclaim.key = a
    \/ Valid /\ journal.old = Located(a, Body(books[a]))
StrangersKept ==
    [][\A a \in Listed :
         pc # "off" /\ books[a].is \in Strangers /\ ~Asked(a)
            => books'[a] = books[a] /\ holds'[books[a].chain] = holds[books[a].chain]]_vars

\* A pass over a standing record ends with the record gone, or with the card
\* having refused it or lost power.
ReplayEnds == (pc = "observe") ~> (journal = Absent \/ pc \in {"off", "stopped"})

\* The library as its user means it: a name has the book on the shelf, or the
\* predecessor parked for an upload that has not landed.
Whole(file) == IF holds[file.chain] = file.is THEN file.is ELSE Junk

CopyOf(n) ==
    LET found == IF Holders(n) # {} THEN Holders(n) ELSE Legacies(n)
    IN  IF found # {} THEN Whole(books[CHOOSE a \in found : TRUE])
        ELSE IF Valid /\ journal.name = n /\ ParkedStands /\ ~Installed
        THEN Whole(parked[journal.rollback])
        ELSE None

Deleting ==
    /\ reclaim # None /\ reclaim.dir = "books"
    /\ books[reclaim.key] # None /\ books[reclaim.key].chain = reclaim.chain

OnRecord ==
    IF Deleting THEN [name |-> books[reclaim.key].title, content |-> None]
    ELSE IF Valid /\ ~Installed
    THEN [name |-> journal.name, content |-> scratch[journal.stage.alias].is]
    ELSE None

\* An upload lands in one step, or leaves the library as it was; nothing else
\* changes what a name holds but a delete.
Library == INSTANCE AtomicReplace WITH
              Contents  <- Books,
              Nothing   <- None,
              NoRequest <- None,
              shelf     <- [n \in LongNames |-> CopyOf(n)],
              request   <- OnRecord
AtomicReplace == Library!Spec
=============================================================================
