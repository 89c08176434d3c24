# Calendula OS in TLA+

Calendula OS is the firmware of a battery e-paper reader (ESP32-C3, Rust,
Embassy): a handful of cooperative tasks, a FAT card that a reset may interrupt
at any write, and a panel that keeps whatever was on it when the power went.
What is hard about it is not in any one function. It is in what a reset leaves
on the card between two writes, and in what the tasks tell each other while the
reader goes on pressing buttons and one of them is about to cut the power. This
directory models both, checks them with TLC and proves part of them with TLAPS.

## The system

Paths are relative to the root of the repository.

| Component | State it keeps | Operations | Talks to | What makes it correct |
|---|---|---|---|---|
| Journalled reclaim, `upload-store/src/reclaim.rs` | `RECLAIM.JNL`: two slots, each a record of cluster numbers or a clear record | `reclaim_entry`, `reclaim_first_entry`, `recover` | called by every delete, by install, by mount and session | a listed file is readable; no cluster is lost; a later build's record is left alone |
| Crash-safe install, `upload-store/src/install.rs` | `INSTALL.JNL`; files in `/BOOKS`, `/READER/UPLOAD`, `/READER/ROLLBACK` | `StagedUpload`, `recover_installs`, the sweep | reclaim, REPLACE.JNL, the catalog | a name holds the old book or the new one; nobody else's file is touched; replays end |
| Replacement identity, `replace.rs` | `REPLACE.JNL`: who the replaced book was | `begin`, `settle`, recovery | install, ledger | reading position follows the copy exactly once |
| Identity ledger, `ledger.rs` | `LEDGERA`, `LEDGERB`, the journal that says which is being rewritten | `open`, `publish`, `relocate`, the scan's join | replace, mount | an interrupted generation leaves the one before; no copy in place loses its id |
| Removal, `upload-store/src/lib.rs` | none | truncate, free, unlink | install's sweep | only unshared chains are freed |
| Wireless session, `fw/src/sd_session.rs` | an open volume, the gate | list, upload, delete, sleep, exit | wifi, display, power | nothing allocates before the journals settle; an upload is not cut short by an idle timer |
| Mount and catalog, `storage/src/library_sd.rs` | `CATALOG.BIN`, the resident list | recover, read, scan, publish | reclaim, install | the list shown is the shelf |
| Saved state, `reader-cache/src/files.rs` | each book's place and the state record, as two generations each | alternate write, read newest, close a book out | storage task | a reset leaves one readable generation |
| Storage task, `storage/src/task.rs` | pending progress, the held place, the resident book, owed rescan | the storage commands, the slices in between | display (runs it), app | a saved place is only written over by a page that was chosen; the page on screen reaches the card |
| Power task, `fw/src/tasks/power.rs` | generation, trigger, idle deadline | idle timeout, Power press, handshake, settle window | display, input | power is cut only over the right sleep's image |
| Display task, `fw/src/tasks/display.rs` | the panel's state, held events, the storage task | render, sleep, park, storage arm | all | the panel is never driven while the rail goes |
| App task, `fw/src/tasks/app.rs`, `app-core/src/lib.rs` | the reducer's state, render lock, parked commands, the open gate | input, answers, renders | all | no press is left holding the buttons; what a press owes is sent in order |
| Wireless task, `fw/src/tasks/wifi.rs` | request in flight, browser activity | serve, exit | session, power | a request ends even when its session goes |
| Book build, caches, parsers, formats, UI, drivers, OTA | caches, buffers | pure or linear work | | not modelled, see the end |

The tasks share five queues (`DISPLAY_COMMANDS`, `POWER_EVENTS`,
`STORAGE_COMMANDS`, `LIBRARY_EVENTS`, `DISPLAY_EVENTS`), the ring of cancelled
sleeps and a resume signal. One executor runs them, so they interleave only at
an `.await`. Nobody awaits inside card work; but power can go inside it.

The hard behaviours are listed one by one, each at its line, under `hazards` in
`PROJECT.json`, with the properties that would catch it going wrong.

## The modules

### Reclaim and WhollyThereOrGone

`Reclaim` is `RECLAIM.JNL`. A FAT entry *is* the link to the next cluster, so a
chain being freed cannot be followed again after a reset. The code records the
cluster numbers, up to `MaxBatch` at a time, in the slot not in use, unlinks the
name, frees what is recorded, and goes on with the next batch.

- `dir`, `fat`: the directory and the FAT; `chain` is history, what a name's
  last file was given. `slots`, `jlen`, `jchain`: the journal and the clusters
  it lives in. `pc`, `batch`, `freed`, `cursor`, `at`, `target`: the locals of the call.
- One action is one write of the card, or one read the code decides on:
  `ReclaimEntry`/`ReclaimFirstEntry`, `WriteBootstrap`, the walk (`WalkFull`,
  `WalkOn`, `WalkEnd`), `WriteRecord`, and `recover`'s plan (`Unlink`,
  `FreeCluster`, `StartNextBatch`, `Finish`).
- `Interrupt` is a reset *or* a card error between any two of them,
  `InterruptInWrite` one inside a slot write, which leaves that slot torn.
  `LaterBuild` leaves a record of a format this build cannot read.
- `CreateFile` is gated by a settled journal, as uploads are. `CreateStateFile`
  is not: `write_state_file` asks nobody.

`WhollyThereOrGone` is what a reader of the directory should see: a file
appears, later it disappears, each in one step. `Reclaim` implements it with
`FileUnder`, where a listed file that does not read back is `Broken`.

### Install and AtomicReplace

`Install` is an upload over a book. One record says what is to be done; how far
it got is read off the card (`Observation`, `Plan`), one step after the other,
at most `StepLimit` a pass. A move is two directory writes and a discard is a
truncation and an unlink, so every step of the plan is two actions and the card
may be left between. A pass runs at a mount and inside a session; then the sweep
looks for leftovers, and the mount serves the snapshot or scans and publishes.

- `books`, `scratch`, `parked`: the three directories; `holds`: what each chain
  contains. `journal`, `reclaim`, `owed`: the three records. `catalog`,
  `served`: the list on the card and the one shown.
- `Fail` is a card error at any step, with what each caller then does
  (`StopsPass`, `FailsScan`, `FailsCommand`, `LeavesLeftover`); `Crash` is power.
  A pass that could not finish is `stopped`, and its scan publishes unless
  `REPLACE.JNL` stands; one that could not settle the reclaim it begins with is
  `refused`, and publishes nothing.
- `Elsewhere` is the card in a computer while a record stands: files deleted,
  copied on under any name, the record itself deleted, or a later build's.
  `Earlier` is a build that recorded names this one will not install.

Abstractions, each deliberate: a chain is one value, taken and freed whole (its
clusters are Reclaim's, whose free and clear are one step here); `REPLACE.JNL`
is reduced to `owed`, written and settled in one step (`Replace` has it whole); sidecars, empty files,
the catalog's own clusters and the sweep's limit of eight a pass are left out (a
pass may stop early by a card error, which covers a sweep left unfinished); a
session that cannot clear the catalog refuses everything and is left out. A
computer deletes only files whose chain no other name shares, and its files
differ in length from this device's: `install.rs:137-143` documents that one of
equal length and first cluster cannot be told apart.

`AtomicReplace` is the library as its user means it: a change goes on record,
then happens in one step or is dropped. `Install` implements it with `CopyOf`,
which counts the parked predecessor of an upload that has not landed.

### SleepHandshake

Going to sleep. Power queues `Sleep(generation)` behind whatever is to be
painted, then waits; the display drains everything owed to the card, draws the
sleep image, puts the panel down, acknowledges *that* generation and parks.
Until the rail goes a press, or a browser for an idle sleep, calls it off:
the generation goes into a ring of four and a signal wakes the display.

- `commands`, `events`: `DISPLAY_COMMANDS`, `POWER_EVENTS`; `cancelled`,
  `resume`: the ring and `DISPLAY_RESUME`. `app`, `power`, `display`: where each
  task is between two awaits, with the generation and trigger it holds.
  `panel`, `unsaved`: what the panel shows, whether a position is only in memory.
  `browser`: the session as wifi sees it.
- An action is what one task does from one await to the next. Sends that wait
  (`SendRender`, `EnterSleep`, `PowerPress`) have a state for waiting; sends that
  do not (`Offer`) lose what does not fit; `PlaceEvent` waits 20 ms, so it is
  dropped only where the power task is not about to receive.
- A session takes over the display's queue (`SessionSleep`, `Asked`,
  `FinishSession`): it discards renders, asks power to call an idle sleep off
  when an upload is in flight, and otherwise hands the sleep back.
- Timers are guards saying what they are longer than: the idle timeout than any
  handshake, 5 s of `ParkCeiling` than an event's delivery plus the cut, 250 ms
  of `Asked` and 1.5 s of the settle window than a receive.

Left out: what is painted and why (the app has at most one render unanswered and
may send whenever it has none); `DisplaySettled` and `DisplayRefreshFailed` to
power, which ignores both; `pending_restore_render`, never filled since the
queue was seen empty; what an `Activity` lost to a full queue costs (the loss is
a step, but `unsaved` counts a moved position only where power could be told);
the session's second look at the cancellation before it
re-queues, with no await since the first.

### SlotJournal, Ledger, LedgerRegister and Replace

Who a book is: which id answers for the file at a place, so that the reading
position follows a copy when an upload lands over it.

`SlotJournal` is the form `REPLACE.JNL` and `LEDGER.JNL` share, and the saved
places too: two slots, each with an entry under a sequence number compared in a
half window (`IsNewer`). `Publish` writes the slot that does not hold the newest
entry; `Tear` is that write cut, which leaves the slot damaged. `Refuses` is
when the code will not read at all.

`Ledger` is the list of copies. A generation (`gen.at` says which write is next)
announces in `LEDGER.JNL` the side it will rewrite, shortens that side, writes
the records, then the header, and says in the journal that it stands. `Open`
decides from the journal and both sides which one is the ledger. Above it, what
the code computes of the records: `AssignBookIds` and what it is built of (a
scan's rows against the records, copies that moved, missing copies carried and
aged by `misses`), `PublishRecord` and `RelocateRecord`.

`Replace` puts `begin`, the install, `settle` and recovery around it, with a
scan, deletes and a computer. `Interrupt` is a reset or a card error between two
writes; each write of either journal or of a side may be cut inside (`cut`). The
install is `Install`'s abstract behaviour, in its steps as recovery sees them:
parked, landed, put back. A digest is the content it stands for.

`LedgerRegister` is what the ledger promises: one value, replaced whole or not
at all, and Ok only over what is there. `Replace` implements it with `Value` for
the value and the records of the call under way for what is proposed.

The sole-writer contract: a computer edits the card only while no intent and no
install stands, as `replace.rs` documents; a card error and a reset are not told
apart, as every call drops what it holds on either.

### StorageLoop

The reader's place, from the press to the card. The app sends storage commands
through a channel, at most `ParkedSlots` wait in the app when it is full, and
library events come back, of which the storage task holds one when that channel
is full and then takes no more commands.

- `app`: the reducer's view, book and page, the open and its rollback, the pick
  under way, the input gate, the frame in flight and the one coalesced behind
  it. `parked`, `sent`, `events`: the two channels with what waits at each end.
  `task`: the resident book, the coalesced record (`pending`) and the held place
  (`hold`). `shown`: the page the storage task last saw rendered.
  `place`, `state`: the card. `chosen`, `lost` are history: the pages a save of
  each book may stand on, and whether a record of a turn was given up on.
- What a press owes is one action, as it is one pass of the app's loop:
  `Carry` sends the command, then the progress record, then the frame.
  `TurnPage`, `ReadOn`, `Leave`, `Pick`, `WalkAway`, the five library events
  (`Receive`), `FrameSettles` with what it drains, `OfferParked`.
- One command of the storage task is one action, as nothing awaits in it:
  `Open` (close-out of the book left, saved place, section, state pointer),
  `Extend`, `Progress`, `Choose`, `SkipStale`; `Settle` and `Flush` are what the
  display task has it do when idle and before a sleep.
- Every write may be refused, by `faults`, with nothing changed or the file
  spoiled; every read may be refused too. `PowerLoss` may cut a write of a place.

Assumed: `Settle` and `Flush` run only when the app owes nothing (`Quiet`). A
slice waits `BACKGROUND_SETTLE_MS` (50 ms) for a command, which is longer than
the app takes to answer an event; the press of Power waits in the app for the
same (`sleep_gate`), and the idle clock is minutes. A book has one layout and
one chapter. Left out: a walk that is still building pages, rescans, the loan of
the scratch, a session's refusals, the settings, and the page-keyed position
file. Its answer is asked for only where there is no place record; that its own
write may fail and be reported is kept. Two arms of `save_place` are left out
with them (`PlaceWrites`): the one that removes the older place when no section
file holds the page (`CachedAnchor::Absent`, then `forget_place`,
`files.rs:622-634`), and `CachedAnchor::Fault`, for a book whose pages were
dropped from memory. With one layout, no rescan and no loan of the scratch
neither can be reached.

## The runs

| Run | Question | Instance |
|---|---|---|
| `reclaim_safety` | deletes, cuts, errors, torn slots, later builds: readable, no leak, record elected right, unknown record left alone, refinement | 5 clusters, 2 names, files of at most 3, one cluster a record, sequence numbers mod 4 |
| `reclaim_settles` | two clusters a record, beside the ungated writer: the journal's own clusters stay its own, and `Settles` under fairness | 5 clusters, 1 name, 1 state file |
| `reclaim_ungated` | *violation*: the ungated writer meets a standing record | 4 clusters |
| `install_safety` | an upload over anything, a new one, a delete, a name of an earlier build; cut or failed everywhere; the replay ends | 3 chains, 3 aliases, 2 names sharing a scratch name, 1 of them installable, 2 parked names |
| `install_browsed` | the same with a computer and a later build between power cycles | 3 chains, 1 stranger |
| `install_unfinished` | *violation*: an earlier build's record, and neither copy on the shelf that is served | 2 chains, 1 name the driver refuses |
| `replace_identity` | uploads, scans, a delete or a computer, on a full ledger; cut anywhere: the id stays with the copy, the ledger is a register and always opens, intents settle | 4 spellings of 3 places, 4 contents of 2 lengths, ledger of 2 records, 2 cuts |
| `replace_respelled` | *violation*: the same bytes uploaded under another spelling | the same |
| `storage_loop` | turns, opens, picks, with full channels, a fault and a power cut: the saved place stands, the screen is on the card, no press waits for ever | 2 books of 3 pages, 3 presses, channels of 1, 2 parked |
| `sleep_handshake` | two sleeps, a browser, a session, the X3's settle window | queues of 4 and 3, ring of 4 |
| `sleep_many` | three sleeps, X4, with queues and ring scaled to 2 so that each overflows | liveness too |
| `sleep_screen` | *violation*: a resumed display with a second sleep queued | three sleeps |

Why the bounds suffice. A file of three clusters at one cluster a record has a
first, a middle and a last batch; two clusters a record gives the exactly full
and the part-full one; sequence numbers modulo 4 wrap within one delete, and the
election only compares neighbours. In `Install` a replace needs the old chain,
the new chain and one more that can be mistaken for either; two long names
sharing one scratch name is the collision the 8.3 names allow, and two parked
names make one that is taken.

In `Replace` a cut is needed to tear a write and a second to tear what recovery
does about it. Two spellings of one place make a landing that respells; two
contents of one length make a length that is not a book. A ledger of two
records, with two books on the card, is full when the third place is uploaded
to, so that a missing copy is let go of; a missing copy is kept for one scan and
not eight, and the count is otherwise only asked whether it is zero. The run starts also from
a ledger in another build's format. Two uploads, two scans and four ids are what
the above takes; `MaxChanges` is one delete or one visit to a computer.

In `StorageLoop` three presses are a turn, an open of the other book and one
more while either is under way, which is what a stale request, a coalesced
record of another book and a superseded hold take; the channel of one and the
event slot of one make parking, refusal and the held event happen within them.
The third page is the one that is neither the start nor the saved place.
Sequence numbers modulo 4 wrap for the book saved twice; the other has no saved
place at first, so that an open also starts a book from nothing. A waiting place is
let go of after one refusal instead of eight. The run has one fault, because
with two `PlaceStands` does not hold: see observation 7. With a channel of two
and no cut (three presses, one fault), and with two presses, two faults and a
cut for the two invariants, the outcome is the same.

In `SleepHandshake` a stale acknowledgement needs two generations, forgetting a
cancelled one needs more cancellations than the ring holds: three with a ring of
two, which keeps the ratio of the code (four slots, at most four sleeps in the
queue and one in hand). `MaxGeneration` bounds how often the reader or the idle
timer ask for sleep between two boots, and nothing else. Symmetry is used where
only safety is checked, over clusters, chains and aliases, none of which the
modules order or name.

Deadlock is checked except in `reclaim_safety`, where a later build's record
stops every reclaim, as it should, and in `storage_loop`, where a reader who has
pressed enough stops; a wait that nothing ends is what `InputIsFree` catches
there.

Every property has a mutant in `PROJECT.json`: a named variant of a definition,
standing beside it in the module, that is a plausible bug and breaks it.

### Fairness

- `Reclaim!FairSpec`: weak fairness of `Call`, since every mount and command
  begins with a pass over a standing record and a call that began runs on.
  `Settles` is conditional on interruptions ending.
- `Install!EarlierSpec`: weak fairness of `Pass`: a pass is a loop without
  awaits. Crashes and card errors stay possible and end it, as `ReplayEnds` says.
- `Replace!FairSpec`: weak fairness of `Replay`, likewise a loop without awaits
  that every mount and session begins with. Cuts are bounded by `MaxCuts`.
- `StorageLoop` states none: what must happen at last is stated of the states in
  which nothing is under way any more (`Idle`, `Quiet`).
- `SleepHandshake!FairSpec`: weak fairness of what each task does on its own;
  strong fairness of the sends that wait, which are tried again each time a
  slot comes free, and of the park's timer, which runs whatever arrives. The
  reader, browser and idle timer owe nothing.

### Where code and comments disagree

1. `reclaim_ungated`: `library_sd.rs:283-289` says whatever allocates before a
   standing reclaim settles can be handed a cluster that the replay frees again.
   `write_state_file` (`files.rs:2798`) is such a writer, and is not gated.
2. `install_unfinished`: `library_sd.rs:553-555` says an unfinished install
   leaves one complete book on the shelf, where it lets that shelf be served. It
   gets there only when no `REPLACE.JNL` stands beside the record (otherwise
   `library_sd.rs:510-522` has refused), so with the record of an earlier build.
   Cut after its retire move, that record has neither copy on the shelf; when the
   card then refuses the mount a read of the record, the old copy is not put back
   and the scan publishes the shelf without the book. Nothing is lost: the copy is
   parked, the record stands, and the next mount puts it back.
3. `sleep_screen`: `app-core/src/lib.rs:2666-2676` says a restore is skipped only
   for a newer render. `display.rs:914` skips it for any queued command, also a
   second sleep; if that is called off too, an awake device shows the sleep image.
4. `replace_respelled`: `replace.rs:43-45` and `docs/ARCHITECTURE.md` say settling
   moves the id to whichever spelling the file ends up under. A book uploaded
   again as it is, under another spelling, and cut before the install is on
   record, has not moved; recovery reads the bytes it means to land, and moves
   the record to the spelling no file has. `IdentityKept` excepts this case.

### Observations of the storage loop

Met while modelling; each is kept in the model as the code has it, and the
properties are stated so as to say what does hold. None is asked by a run.

1. *Read* on Home at page 0, of a book just turned back to its start, opens with
   no previous book, and page 0 is taken for a bare selection: the older place on
   the card is loaded, although the record for page 0 is only coalesced.
2. An extend, or an explicit open, whose section would not load falls back to
   page 0 with nothing held, and the app then saves page 0 over the place.
   (`chosen` has that page, as nothing else of the book would load.)
3. A page turned while the book is unreadable, which then loads, is not saved
   until the next turn (`TurnedUnread`).
4. A record handled while its book is not resident lands in the page-keyed file
   alone, behind the older place (`lost`).
5. An open drops the hold of the open before it (`StageBook`) while a record of
   the page that hold was against may still be coalesced: a flush would write it.
   A flush waits for the app to owe nothing, which closes the window in practice.
6. A slice that settled a place before the app redrew would drop the hold: only
   the 50 ms it waits prevents it (`Quiet`).
7. With two faults: the place is not read at the open, and its section is refused
   when a slice asks again, so the answer on its way says page 0. The reader
   turns to page 1 meanwhile; the record of that turn releases the hold; then the
   app takes page 0 from the answer and saves it over the place. Nobody chose it.
   `PlaceStands` finds this with `MaxFaults = 2`, and holds with one.
8. Opening a book after one that was unreadable carries no previous book, so the
   state record stays on the book before until a page is turned.

## Proofs

TLC answers for the instances above; the theorems below are of every value of
the constants that the ASSUMEs allow, and of what is assumed with the theorem,
which is named here. Wherever an invariant had to be strengthened, the
strengthened one was model-checked before it was proved.

### The card: Reclaim

`Reclaim_proofs`, for any set of clusters and names, any batch size, chain
length and modulus above two:

- `TypeCorrect == Spec => []TypeOK`. `TypeOK` is not inductive: inside a call
  the record in memory must be a record (`FreeCluster` indexes it, `Walk`
  appends to it) and the cursor must stand in it. `InCall` says so, `TypeInv ==
  TypeOK /\ InCall`, and there is a lemma for each action, for the journal's
  growth (`GrowType`) and for a slot's write (`WriteSlotType`).
- `UnsupportedIsLeft == StateFiles = {} |- DowngradeSpec => UnsupportedStands`.
  A call is only ever under way with slots that are usable (`UsableInCall`), and
  no other action writes the card while they are not (`UnsupportedStopsAll`). The
  assumption is the ungated writer of finding 1, which does write.

`ReclaimJournal_proofs`, beside any ungated writer and any later build:

- `RecordIsAlwaysFound == DowngradeSpec => []RecordIsFound`. `OrderInv` adds to
  the types that of two readable slots one follows the other (`JournalOrder`),
  and that the slot and number a call holds are still the ones the card would
  give it (`CallOrder`). The wrap enters in `NextIsLater` alone.
- `JournalStaysReadable == DowngradeSpec => []JournalIsReadable`. `JournalInv`:
  nothing a batch can come to name lies in the journal's chain, and, while the
  journal can still grow, nothing it can come to name is a free cluster
  (`Outside`). That a replay may free what is free already is harmless only
  because the journal has both its slots before the first record that can be
  replayed.

`ReclaimFiles_proofs`, with `Gated`: whoever creates a file has asked the journal
first. That is what `library_sd.rs:283-289` asks of every allocation and what
`write_state_file` does not do; without it the properties are false, which is
what `reclaim_ungated` shows. Where there are no state files it asks nothing
(`GatedWithoutStateFiles`).

- `ListedStaysReadable` (`ListedIsReadable`), `NoSpaceIsLost` (`NoLeak`), and the
  refinement `ReclaimIsAtomic == DowngradeSpec /\ Gated => WhollyThereOrGone`.
  One invariant, `FilesInv`, carries them. A record is true `k` clusters into its
  file (`Standing`): it names the clusters after the first `k` and goes on with
  the next; while the name stands `k` is 0 and the file whole, and once it is
  gone the first `k` are free, those the record names may be, and the rest still
  link and are nobody else's (`Leftover`). The next batch is put together only
  when the clusters of the one before it are free (`StandingTrue`), and every
  cluster in use is the journal's, a listed file's or the recorded one's
  (`NothingLost`). Each action preserves it; the refinement follows as `Unlink`
  is the only step that changes what a directory read finds.

### The card: Install

`Install_proofs`, for any names, aliases, chains and books. `AnySpec` has the
earlier build, the computer and the later build in one behaviour, which no run
combines; `EarlierSpec` is a card that stays in the device.

- `InstallTypes` (`TypeOK`), from `TypeInv`: what stands in hand at each place
  of the pass, the upload and the sweep. `NoneAssumption` is that `None` is told
  from every entry and record, as `Option` is.
- `UnrecognizedIsLeft` and `ShelfStaysReadable` (`ListedReadable`), under
  `AnySpec`. `FileInv`: two listed names never share a chain (`Apart`); the
  upload, and the parked predecessor, are whole while their record stands, and
  nothing on the shelf reads from them but what they are about to become
  (`StageKept`, `OldKept`); a reclaim's chain is listed only under the name being
  deleted (`ReclaimKept`); an upload in hand and a leftover being cut short are
  on no shelf. `Apart` is why a move may write two entries: it goes from one
  directory to another.
- `StrangersAreLeft` (`StrangersKept`), under `AnySpec` and the assumption that
  a stranger's file and a book of this device differ in length. `install.rs:137-143`
  says a chain is handed on and a length rarely is; with equal lengths the code
  takes one for the other, by its own account. `StrangerInv` adds that while the
  upload can still land, the predecessor is only where the record says it was.
- `SnapshotStaysTrue` and `ServedStaysTrue`, for `EarlierSpec` (a computer changes
  the shelf and tells nobody; what a mount then does is in `install_browsed`).
  `CatalogInv`: no catalog is on the card or in memory while an intent, a reclaim
  or a session stands (`Dropped`), nor during a replay, which remembers there was
  one (`ReplayDropped`); a landing has been announced before it can happen
  (`LandingIsOwed`), so a pass stopped inside a reclaim of its own does not
  publish, though nothing asks for that reclaim again (`PublishSettled`). `NoRefusedName` is the earlier build's part: a name this
  driver will not write is on no shelf, so what it recorded never lands unannounced.
- `UploadIsAtomic == EarlierSpec => AtomicReplace`, the refinement, step by step
  (`StepIsAbstract`). `AtomicInv`: a name is listed once (`OnePerName`), the
  upload is either where the record put it or on the shelf (`RecordLands`), until
  it lands its name means the predecessor and nothing else (`TitleIsOld`,
  `OldIsTitled`), and between its two writes a move's file has both names
  (`MoveHolds`). Without `ClearDone` the last step, which drops the record, could
  take a parked copy that counts with it.
- `CardAloneStops` (`StoppedByCardOnly`): a pass over a record never runs out of
  steps and never meets a state it has no step for. `StepsToGo` ranks what a plan
  sees: landing, retiring, reclaiming, at most three, and each step taken lowers
  it (`StepsLeft`). Assumed: `StepLimit > 3` (the code has 8) and more aliases
  than long names, finite both, so that putting a predecessor back finds an
  entry free. There are more 8.3 aliases than a directory can hold entries.

### Records: SlotJournal and Replace

`SlotJournal_proofs`, for any entries and any modulus above three. `Orderly` is
what a journal is between two writes: blank; one entry; two with the second one
after the first; or one of them damaged.

- `OrderlyReads`: it never refuses. `PublishStands`: what `Publish` writes is
  what is read next, and the journal is orderly again. `TearLeavesNewest`: a torn
  write leaves the newest entry the newest, and the next write goes to the slot
  that was torn. The half window enters in `NextIsNewer`, at the wrap too.

`Replace_proofs`, for any library, offers, limit of records, width of the
numbers and number of cuts:

- `LedgerInvariant == Spec => []LedgerInv`. None of the properties is inductive:
  whether a header that lands changes the ledger depends on which write came
  before. `LedgerInv` says both journals are orderly, that a call under way is
  one `Replace` is in the middle of, and, if no other build's generation is on
  the card, `Reached` (what each write of a generation finds on the card) during
  a call and `Whole` (a ledger, or none yet) between calls. A torn write leaves
  `Whole` again (`TornWrite`); each write leads from its `Reached` to the next
  (`AnnounceStep`, `TruncateStep`, `RewritingStep`, ..., `CommittedStep`).
- `LedgerIsARegister == Spec => RegisterSpec`, the refinement, from the same
  steps: only the header changes `Value`, and to the proposed records.
- `AlwaysReads`: neither journal refuses and the ledger opens, which is what
  every step above them relies on. `OneIntent == Spec => OneIntentAtATime`;
  `ForeignIsLeft == Spec => ForeignLedgerStands`.
- `LibraryInvariant == Spec => []LibraryInv`, beside `LedgerInv`: what the card
  holds, the intent, the install on record and both generations say of each
  other. `Libraries`: the live generation and the one being written are
  libraries, in which no two records share an id or a place and length
  (`Apart`). `Phases` and `Intents`: the destination of a standing intent is one
  of the two landings at every step of the install (`InstallAt`, `Resolved`),
  the ledger has room for what settling will say (`IsIntent`), and the copy let
  go of to make that room has no file (`Evictable`). `Remembered`: the generation
  being written leaves out no copy that is in place. `Identity` follows the copy
  replaced through all of it (`KeepsId`: where its old record stands, untold,
  told, or replaced) until it is at its place under its id (`KeptAt`).
- From it `TypesHold` (`TypeOK`), `NeverRefusing` (`AlwaysResolvable`), `OneClaim`
  (`OneClaimPerPlace`), `NotForgotten` (`NoCopyForgotten`) and `IdKept`
  (`IdentityKept`). What a scan, a publication and a relocation make of the
  records is stated once each (`Publishes`, `Relocates`, and the lemmas of the
  scan's join), and holds for records of any number: what they filter is `Taken`,
  the elements at some indices, of which the prover can be told the length and
  the elements, where a recursive selection would need induction.

Assumed are `ReplaceAssumption`, `LedgerAssumption` and `JournalAssumption`: a
spelling stands for one place and the catalog lists each once, the card a run
starts from has at most one file at a place and no more than the ledger can
record, and `None` and `Cleared` are told from every record. No order, number or
equality of contents and lengths is assumed.

### The tasks: SleepHandshake

`SleepHandshake_proofs`, for every number of slots, of sleeps and of presses. All
but `RingIsLongEnough`, which as its run does leaves the browser out, are of `WirelessSpec`.

- `SleepTypes` (`TypeOK`). That generations stay within their bound needs the
  presses still to be heard counted, in the queue and in the send that waits
  (`Minted`).
- `PanelStaysDown` (`PanelIsDown`). A generation is known to the display only
  once it was sent (`AllSent`), the one under way has not been called off
  (`NotCalledOff`), and an answer the power task still waits for is from a display
  that stands still behind it (`AnsweredBehind`). `PositionGoesToCard`
  (`PositionIsSaved`) adds to it that a position moved since the card work has its
  `Activity` in the queue (`MovedSince`).
- `RingIsLongEnough` (`CalledOffStaysKnown`) and `UploadIsNotBrokenOff`
  (`UploadStandsOverIdle`), if the ring holds as many as the display's queue.
  Both are four on the device (`CommandSlots <= RingSlots`), and nothing in the
  code ties the one to the other. The generations in the queue and the ring rise
  (`RingRises`, `SessionOrdered`), so one that was pushed out of the ring has too
  many behind it to still have a place.
- `ParkedHasItsAnswer` (`ParkedIsAnswered`), while the ring forgets no sleep
  that still has a place (`Remembers`). `KnownInv`: a generation is in one place
  at a time, queue, hand, acknowledgement or ring (`OnePlace`), and a display
  parked behind one called off has its signal set (`ResumeSet`). `FewAreRemembered`
  discharges `Remembers` where no more sleeps are asked for between two boots
  than the ring has room for. Beyond that it stays a condition: a ring that let
  go of the sleep a display is parked behind leaves that display its signal alone.

### The reader's place: StorageLoop

`StorageLoop_proofs`, for any books, pages, rooms of the channels, saved places
and number of presses, faults and cuts. The channel and what is parked behind it
are read as one queue; `DispatchIs` says what a dispatch does to it: the command
comes last, in the place of at most one it makes again, or nothing changes.

- `StorageTypes` (`TypeOK`). The channel and what is parked stay within their
  room, and an event is only sent where one fits. Strengthened by `CardOK`: a
  place still waiting to be read has refusals left (`Held`), as the count would
  else run past its bound.
- `InputStaysFree` (`InputIsFree`): with nothing under way no open and no pick
  waits for an answer. The answer is matched by book alone, requests overtake one
  another, and an open that is parked, sent on, skipped, refused or cut short
  leaves by different ways, so this is about every one of them. `LoopInv`:
  requests stand in the order they were made and the latest is among them
  (`InOrder`), so what is skipped as stale has a later one behind it; what is
  asked for and answered is of the book the reader is in (`SameBook`); an open
  that leaves a book has nothing asked for beside it, so a refusal, which puts the
  reader back, leaves nothing of the book it came from (`Leaving`); an open that
  holds the input is asked for or its answer is on the way (`Pending`), and so is
  the pick that is waited for, with only records behind it (`Picked`, `RowOrder`);
  the panel shows the state, or a frame that does is on its way or owed
  (`FrameTrue`), which is why a slice speaks of the right book; and the gate is
  down only for an open or a frame (`Gate`).
- `RestIsSaved` (`RestIsOnCard`), `PlaceIsChosen` and its corollary `PlacesStand`
  (`PlaceStands`): until the card has refused something (`Unrefused`), with any
  number of presses, books, pages and power cuts. With nothing under way the page
  on screen is the page the card has; and a place is written over only with what
  it is or a page that was chosen, which holds also of the step that meets the
  first refusal, and needs no exception for a lost record. `SavedInOrder` is
  assumed: the pairs on the card at first were written in turn (`Orderly` of
  `SlotJournal_proofs`), as the code writes every pair; a write and a torn write
  keep them so (`PlaceReads`).

  The condition is not for convenience: after two refusals `PlaceStands` is false
  (observation 7), so an invariant for every number of faults does not exist.
  Between none and that, TLC has it for one fault.

  The invariant is `Rest`, of the queue, the events, the task and the card
  together, checked by TLC before it was proved. The page of the reader is what
  the card will have when everything queued and owed is handled (`Says`: the last
  record queued, or else what is owed, or else what the card has), unless the
  record was given up on, an open leaves the book, or an answer is on its way
  that moves the reader (`OnItsWay`). So that this stands: everything under way is
  of one book, the one the reader is in or the one an open takes them from
  (`From`, `OneBook`); such an open is the last thing asked for, with only records
  before it and no answer about (`GoesAlone`); every answer loads where a save may
  stand (`Granted`); a hold is of the place the card has (`HeldAsSaved`), which
  also stops the slices; the book on screen is resident (`Resident`), as a record
  of any other is lost; and what is queued, owed or stood on was chosen, or is
  what the card has (`Picks`). `Wrote` says what a write of a place leaves,
  whatever is refused or cut. `LoopInv` gives the order of the requests and the book
  of each.

### What stays with TLC, and why

- Liveness, which this prover does not reach: `Settles`, `ReplayEnds`,
  `IntentSettles`, `SleepEnds`, `ParkEnds`.
- `NeverWaitsOnItself` of `SleepHandshake`: the power task's own queue cannot
  fill against it because the few sleeps between two boots do not fill it; how
  promptly a queue is emptied is not in the model, so it is a fact of the
  instance's bound and is not stated of every one.
- Of `StorageLoop`: `PlaceStands` and `RestIsOnCard` once the card has refused
  something. A refusal brings places that wait, fallbacks to the start, unreadable
  books and rollbacks, of which `Rest` says that there are none; and no invariant
  carries `PlaceStands` past a second refusal. The run has one.

## Plan

Done: every module, every run, and the theorems above, which cover every safety
property of `Reclaim`, `Install` and `Replace`, of `SleepHandshake` all but one,
and of `StorageLoop` the types, the input, and, until the card refuses something,
the places and the page at rest.

Modules to come: the session and the app's render lock composed, and the rescans
and loans of the storage task.

## Not modelled

By far most of the repository's lines are generated font tables
(`display/src/*_generated.rs`) and the parsers with their tests; what is
modelled is the part that keeps state across steps. Book layout and image
decoding, EPUB and text parsers, caches and title index: pure or rebuilt when
they do not read back, and tested in the repository against fixtures. UI, fonts,
drivers, hal: pixels and registers. The input task: timing of one ADC. OTA: a
linear download, verify and switch of the boot slot. Library places: name
resolution, reduced in `Install` and `Replace` to which entry holds which name
and which spellings are one place. Radio, HTTP framing, and the loan of the
reader's memory. Of `StorageLoop`: a refused read of the newer side of a pair,
which makes the next write go to that side; the page-keyed position file, and
with it the removal of an older place that no section file has the page of
(`forget_place`); a walk that is still building pages; rescans; chapters; settings.
