------------------------------ MODULE Reclaim ------------------------------
(***************************************************************************)
(* RECLAIM.JNL: taking a file's name away and freeing its clusters so that *)
(* a reset leaves the file either wholly there or wholly gone.             *)
(* (upload-store/src/reclaim.rs)                                           *)
(*                                                                         *)
(* A FAT entry is the pointer to the next cluster, so freeing a chain by   *)
(* following it cannot be resumed after a reset.  The code therefore       *)
(* records the cluster numbers, a batch at a time, in one of two           *)
(* alternating slots of a journal, unlinks the name, and only then frees   *)
(* what the durable record names.                                          *)
(*                                                                         *)
(* A step of this module is one write to the card (a slot, a directory     *)
(* entry, one FAT entry) or one read the code decides on, so the power may *)
(* go between any two of them.                                             *)
(***************************************************************************)
EXTENDS Naturals, Sequences, Functions

CONSTANTS
    Clusters,       \* the volume's data clusters
    Aliases,        \* 8.3 names a book can be listed under
    StateFiles,     \* names the reader's own settled-size records go under
    MaxBatch,       \* clusters one record names (118 in the code)
    SeqMod,         \* sequence numbers wrap here (2^32 in the code)
    MaxChain        \* clusters of the longest file

Free      == "free"      \* a FAT entry of an unallocated cluster
End       == "end"       \* a FAT entry that ends its chain
NoCluster == "none"      \* the first cluster of an empty file
NoEntry   == "absent"    \* no directory entry under an alias

ASSUME ClusterAssumption ==
    {Free, End, NoCluster, NoEntry} \cap Clusters = {}
ASSUME BatchAssumption == MaxBatch \in Nat \ {0} /\ MaxChain \in Nat
\* Two slots hold adjacent numbers; telling the later one needs three values.
ASSUME SeqAssumption   == SeqMod \in Nat /\ SeqMod > 2
ASSUME NameAssumption  == Aliases \cap StateFiles = {}

Names == Aliases \cup StateFiles

\* The first cluster of a chain, and what the FAT says at its i-th one.
First(s)     == IF s = <<>> THEN NoCluster ELSE s[1]
LinkAt(s, i) == IF i = Len(s) THEN End ELSE s[i + 1]

VARIABLES
    dir,      \* name -> first cluster of the file it lists
    fat,      \* cluster -> what its FAT entry says
    chain,    \* history: name -> the clusters its last file was given
    slots,    \* what was last written in each slot of the journal
    jlen,     \* the journal's length, in slots
    jchain,   \* the journal's own clusters, one per slot
    pc,       \* where the running call is; "idle" when none runs
    batch,    \* the record in memory
    fresh,    \* the walk is reclaim_entry's, not a pass's next batch
    freed,    \* batch_freed: this pass has freed the batch in hand
    cursor,   \* index of the cluster FreeBatch frees next
    at,       \* cluster the walk stands on
    target    \* slot index and sequence number the next record gets

disk     == <<dir, fat, chain, slots, jlen, jchain>>
volatile == <<batch, fresh, freed, cursor, at, target>>
vars     == <<disk, pc, volatile>>

-----------------------------------------------------------------------------
(***************************************************************************)
(* Slots, and reading the journal                                          *)
(***************************************************************************)
SlotIndex == {0, 1}
SeqNumber == 0 .. (SeqMod - 1)

Torn        == [kind |-> "torn"]
Unsupported == [kind |-> "unsupported"]
Clear(n)    == [kind |-> "clear", seq |-> n]

Batches ==
    [kind : {"work"}, seq : SeqNumber, name : Aliases,
     entry : Clusters \cup {NoCluster}, clusters : Seq(Clusters),
     continuation : Clusters \cup {NoCluster}]

Slots == {Torn, Unsupported} \cup [kind : {"clear"}, seq : SeqNumber] \cup Batches

\* Mutant: the number is not wrapped.
NextSeqUnwrapped(n) == n + 1
NextSeq(n)   == IF n = SeqMod - 1 THEN 0 ELSE n + 1
OtherSlot(i) == 1 - i

\* A slot beyond the file's length is not there to read.
SlotRead(i)    == IF i < jlen THEN slots[i] ELSE Torn
Readable(slot) == slot.kind \in {"clear", "work"}

\* a.wrapping_sub(b)
WrapSub(a, b) == IF a >= b THEN a - b ELSE a + SeqMod - b

SlotsUsable == \A i \in SlotIndex : SlotRead(i).kind # "unsupported"
LiveSlots   == {i \in SlotIndex : Readable(SlotRead(i))}

\* Mutant: numbers are compared as if they never wrapped.
LiveIndexUnwrapped ==
    IF LiveSlots = SlotIndex
    THEN IF slots[1].seq > slots[0].seq THEN 1 ELSE 0
    ELSE CHOOSE i \in LiveSlots : TRUE

\* The readable slot with the later sequence number.
LiveIndex ==
    IF LiveSlots = SlotIndex
    THEN LET a == slots[0].seq
             b == slots[1].seq
         IN  IF WrapSub(b, a) < WrapSub(a, b) THEN 1 ELSE 0
    ELSE CHOOSE i \in LiveSlots : TRUE

\* Mutant: the slot that decodes is trusted whatever the other one says.
JournalFoundInOne == jlen > 0 /\ LiveSlots # {}

JournalFound  == jlen > 0 /\ SlotsUsable /\ LiveSlots # {}
JournalAbsent ==
    \/ jlen = 0
    \/ jlen = 1 /\ SlotsUsable /\ LiveSlots = {}

Live        == slots[LiveIndex]
Outstanding == JournalFound /\ Live.kind = "work"
\* Mutant: a journal that reads is taken for one that has nothing in flight.
SettledWhenRead == JournalAbsent \/ JournalFound

\* What every writer that honours the journal asks before it allocates.
Settled     == JournalAbsent \/ (JournalFound /\ Live.kind = "clear")

-----------------------------------------------------------------------------
(***************************************************************************)
(* Writing a slot                                                          *)
(***************************************************************************)
\* The journal grows by a cluster when the slot lies past its chain.
Extend(c) ==
    /\ fat[c] = Free
    /\ jchain' = Append(jchain, c)
    /\ fat' = [d \in Clusters |->
                 IF d = c THEN End
                 ELSE IF jchain # <<>> /\ d = jchain[Len(jchain)] THEN c
                 ELSE fat[d]]

Grow(i) ==
    IF i < Len(jchain)
    THEN UNCHANGED <<fat, jchain>>
    ELSE \E c \in Clusters : Extend(c)

Lengthen(i) == jlen' = IF i < jlen THEN jlen ELSE i + 1

WriteSlot(i, value) ==
    /\ Grow(i)
    /\ Lengthen(i)
    /\ slots' = [slots EXCEPT ![i] = value]
    /\ UNCHANGED <<dir, chain>>

\* The power goes inside the write: the sector is no whole record, and the
\* length in the directory entry may not have caught up.
TearSlot(i) ==
    /\ Grow(i)
    /\ Lengthen(i) \/ UNCHANGED jlen
    /\ slots' = [slots EXCEPT ![i] = Torn]
    /\ UNCHANGED <<dir, chain>>

-----------------------------------------------------------------------------
(***************************************************************************)
(* Files come and go                                                       *)
(***************************************************************************)
NoBatch ==
    [kind |-> "none", seq |-> 0, name |-> NoEntry, entry |-> NoCluster,
     clusters |-> <<>>, continuation |-> NoCluster]

\* Leaving a call, by returning, by an error or by a reset, loses its memory.
Forget ==
    /\ pc' = "idle"
    /\ batch' = NoBatch
    /\ fresh' = FALSE
    /\ freed' = FALSE
    /\ cursor' = 0
    /\ at' = NoCluster
    /\ target' = [index |-> 0, seq |-> 0]

Init ==
    /\ dir = [a \in Names |-> NoEntry]
    /\ chain = [a \in Names |-> <<>>]
    /\ pc = "idle"
    /\ batch = NoBatch
    /\ fresh = FALSE /\ freed = FALSE
    /\ cursor = 0 /\ at = NoCluster
    /\ target = [index |-> 0, seq |-> 0]
    /\ fat = [c \in Clusters |-> Free]
    /\ jchain = <<>>
    /\ jlen = 0
    /\ slots = [i \in SlotIndex |-> Torn]

\* An upload lands a file: chain s, listed under alias a.  The session asks
\* the journal before every command.
CreateFile(a, s) ==
    /\ pc = "idle"
    /\ Settled
    /\ dir[a] = NoEntry
    /\ \A i \in DOMAIN s : fat[s[i]] = Free
    /\ IsInjective(s)
    /\ dir' = [dir EXCEPT ![a] = First(s)]
    /\ chain' = [chain EXCEPT ![a] = s]
    /\ fat' = [c \in Clusters |->
                 IF \E i \in DOMAIN s : s[i] = c
                 THEN LinkAt(s, CHOOSE i \in DOMAIN s : s[i] = c)
                 ELSE fat[c]]
    /\ UNCHANGED <<slots, jlen, jchain, pc, volatile>>

\* The first write of a record the reader keeps for itself (STATEA.BIN and its
\* like): one cluster, and no question put to the journal.
CreateStateFile(n, c) ==
    /\ pc = "idle"
    /\ dir[n] = NoEntry
    /\ fat[c] = Free
    /\ dir' = [dir EXCEPT ![n] = c]
    /\ fat' = [fat EXCEPT ![c] = End]
    /\ chain' = [chain EXCEPT ![n] = <<c>>]
    /\ UNCHANGED <<slots, jlen, jchain, pc, volatile>>

-----------------------------------------------------------------------------
(***************************************************************************)
(* reclaim_entry, up to the durable record                                 *)
(***************************************************************************)
\* The batch walk_batch fills: same file, no clusters yet.
EmptyBatch(seq, name, entry) ==
    [kind |-> "work", seq |-> seq, name |-> name, entry |-> entry,
     clusters |-> <<>>, continuation |-> NoCluster]

\* An entry with no chain has nothing to walk and still gets its record.
AfterJournalAsked(first) == IF first = NoCluster THEN "record" ELSE "walk"

Begin(a, index, seq, where) ==
    /\ pc' = where
    /\ batch' = EmptyBatch(seq, a, dir[a])
    /\ at' = dir[a]
    /\ fresh' = TRUE
    /\ target' = [index |-> index, seq |-> seq]
    /\ UNCHANGED <<disk, freed, cursor>>

\* Mutant: the first record goes straight into slot 0 of a new journal.
ReclaimFirstEntryInPlace(a) ==
    /\ pc = "idle"
    /\ dir[a] # NoEntry
    /\ JournalAbsent
    /\ Begin(a, 0, 1, AfterJournalAsked(dir[a]))

\* First use on this card: the journal reaches both slots through a clear
\* record while the chain is still allocated; the record goes in slot 1.
ReclaimFirstEntry(a) ==
    /\ pc = "idle"
    /\ dir[a] # NoEntry
    /\ JournalAbsent
    /\ Begin(a, 1, 2, "bootstrap")

\* A standing record (Busy) and a journal that cannot be read refuse.
ReclaimEntry(a) ==
    /\ pc = "idle"
    /\ dir[a] # NoEntry
    /\ JournalFound /\ Live.kind = "clear"
    /\ Begin(a, OtherSlot(LiveIndex), NextSeq(Live.seq), AfterJournalAsked(dir[a]))

WriteBootstrap ==
    /\ pc = "bootstrap"
    /\ WriteSlot(0, Clear(1))
    /\ pc' = AfterJournalAsked(batch.entry)
    /\ UNCHANGED volatile

(***************************************************************************)
(* walk_batch: reads only; a cluster that is free ends the call in error   *)
(***************************************************************************)
Push(b) == [b EXCEPT !.clusters = Append(@, at)]

WalkFull ==
    /\ pc = "walk"
    /\ Len(batch.clusters) = MaxBatch
    /\ batch' = [batch EXCEPT !.continuation = at]
    /\ pc' = "record"
    /\ UNCHANGED <<disk, fresh, freed, cursor, at, target>>

WalkOn ==
    /\ pc = "walk"
    /\ Len(batch.clusters) < MaxBatch
    /\ fat[at] \in Clusters
    /\ batch' = Push(batch)
    /\ at' = fat[at]
    /\ UNCHANGED <<disk, pc, fresh, freed, cursor, target>>

WalkEnd ==
    /\ pc = "walk"
    /\ Len(batch.clusters) < MaxBatch
    /\ fat[at] = End
    /\ batch' = Push(batch)
    /\ pc' = "record"
    /\ UNCHANGED <<disk, fresh, freed, cursor, at, target>>

\* Mutant: batch_freed is not reset for the next batch.
WriteRecordKeepsFreed ==
    /\ pc = "record"
    /\ WriteSlot(target.index, batch)
    /\ pc' = IF fresh THEN "recover" ELSE "pass"
    /\ fresh' = FALSE
    /\ target' = [index |-> OtherSlot(target.index), seq |-> NextSeq(target.seq)]
    /\ UNCHANGED <<batch, freed, cursor, at>>

\* Durable from here: recovery is entitled to act on this record.  A first
\* record is then read back by recover; a next one is carried on with.
WriteRecord ==
    /\ pc = "record"
    /\ WriteSlot(target.index, batch)
    /\ pc' = IF fresh THEN "recover" ELSE "pass"
    /\ fresh' = FALSE
    /\ freed' = FALSE
    /\ target' = [index |-> OtherSlot(target.index), seq |-> NextSeq(target.seq)]
    /\ UNCHANGED <<batch, cursor, at>>

-----------------------------------------------------------------------------
(***************************************************************************)
(* recover: at every mount, before every command, and reclaim_entry's tail *)
(***************************************************************************)
\* Mutant: no pass at mount; a record is only carried on by the call that
\* wrote it.
RecoverInCallOnly ==
    /\ pc = "recover"
    /\ Outstanding
    /\ pc' = "pass"
    /\ batch' = Live
    /\ fresh' = FALSE
    /\ freed' = FALSE
    /\ target' = [index |-> OtherSlot(LiveIndex), seq |-> NextSeq(Live.seq)]
    /\ UNCHANGED <<disk, cursor, at>>

Recover ==
    /\ pc \in {"idle", "recover"}
    /\ Outstanding
    /\ pc' = "pass"
    /\ batch' = Live
    /\ fresh' = FALSE
    /\ freed' = FALSE
    /\ target' = [index |-> OtherSlot(LiveIndex), seq |-> NextSeq(Live.seq)]
    /\ UNCHANGED <<disk, cursor, at>>

\* classify: a name on its own is not proof, the first cluster has to agree.
Classify(b) ==
    IF dir[b.name] = NoEntry THEN "gone"
    ELSE IF dir[b.name] = b.entry THEN "ours" ELSE "stranger"

\* Mutant: the clusters go before the name does.
PlanFreesFirst(b, entry, done) ==
    IF ~done /\ b.clusters # <<>> THEN "free"
    ELSE IF b.continuation # NoCluster THEN "next"
    ELSE IF entry = "ours" THEN "unlink"
    ELSE "finish"

\* The next step towards finishing the reclaim b describes.
Plan(b, entry, done) ==
    IF entry = "ours" THEN "unlink"
    ELSE IF ~done /\ b.clusters # <<>> THEN "free"
    ELSE IF b.continuation # NoCluster THEN "next"
    ELSE "finish"

Planned(step) == pc = "pass" /\ Plan(batch, Classify(batch), freed) = step

\* The commit point: the name goes, no cluster is touched.
Unlink ==
    /\ Planned("unlink")
    /\ dir' = [dir EXCEPT ![batch.name] = NoEntry]
    /\ UNCHANGED <<fat, chain, slots, jlen, jchain, pc, volatile>>

StartFreeing ==
    /\ Planned("free")
    /\ pc' = "free"
    /\ cursor' = 1
    /\ UNCHANGED <<disk, batch, fresh, freed, at, target>>

\* free_cluster clears the FAT entry whoever owns it, and again if need be.
FreeCluster ==
    /\ pc = "free"
    /\ fat' = [fat EXCEPT ![batch.clusters[cursor]] = Free]
    /\ IF cursor = Len(batch.clusters)
       THEN pc' = "pass" /\ freed' = TRUE /\ cursor' = 0
       ELSE cursor' = cursor + 1 /\ UNCHANGED <<pc, freed>>
    /\ UNCHANGED <<dir, chain, slots, jlen, jchain, batch, fresh, at, target>>

StartNextBatch ==
    /\ Planned("next")
    /\ pc' = "walk"
    /\ batch' = EmptyBatch(target.seq, batch.name, batch.entry)
    /\ at' = batch.continuation
    /\ UNCHANGED <<disk, fresh, freed, cursor, target>>

Finish ==
    /\ Planned("finish")
    /\ WriteSlot(target.index, Clear(target.seq))
    /\ Forget

-----------------------------------------------------------------------------
(***************************************************************************)
(* What interrupts a call: a reset, or an error of the card, which returns *)
(* at once.  Either way the memory of the call is gone and the card is as  *)
(* the last completed write left it, but for a slot the write was inside.  *)
(***************************************************************************)
Writing(i) ==
    \/ pc = "bootstrap" /\ i = 0
    \/ pc = "record" /\ i = target.index
    \/ Planned("finish") /\ i = target.index

Interrupt ==
    /\ pc # "idle"
    /\ Forget
    /\ UNCHANGED disk

InterruptInWrite ==
    /\ \E i \in SlotIndex : Writing(i) /\ TearSlot(i)
    /\ Forget

\* A later build ran in between and left a record of its own format.
LaterBuild ==
    /\ pc = "idle"
    /\ JournalFound
    /\ jlen = 2
    /\ slots' = [slots EXCEPT ![OtherSlot(LiveIndex)] = Unsupported]
    /\ UNCHANGED <<dir, fat, chain, jlen, jchain, pc, volatile>>

-----------------------------------------------------------------------------
Walk == WalkFull \/ WalkOn \/ WalkEnd

Pass ==
    \/ Recover \/ Unlink \/ StartFreeing \/ FreeCluster
    \/ StartNextBatch \/ Finish

Call ==
    \/ WriteBootstrap \/ Walk \/ WriteRecord \/ Pass

Chains == UNION {[1 .. n -> Clusters] : n \in 0 .. MaxChain}

Next ==
    \/ \E a \in Aliases, s \in Chains : CreateFile(a, s)
    \/ \E n \in StateFiles, c \in Clusters : CreateStateFile(n, c)
    \/ \E a \in Aliases : ReclaimFirstEntry(a) \/ ReclaimEntry(a)
    \/ Call
    \/ Interrupt
    \/ InterruptInWrite

Spec == Init /\ [][Next]_vars

\* A call that has begun runs on, and every mount and every command begins
\* with a pass over whatever record stands.
FairSpec == Spec /\ WF_vars(Call)

DowngradeSpec == Init /\ [][Next \/ LaterBuild]_vars

-----------------------------------------------------------------------------
(***************************************************************************)
(* Properties                                                              *)
(***************************************************************************)
TypeOK ==
    /\ dir \in [Names -> Clusters \cup {NoCluster, NoEntry}]
    /\ fat \in [Clusters -> Clusters \cup {Free, End}]
    /\ chain \in [Names -> Seq(Clusters)]
    /\ slots \in [SlotIndex -> Slots]
    /\ jlen \in 0 .. 2
    /\ jchain \in Seq(Clusters) /\ Len(jchain) \in jlen .. 2
    /\ pc \in {"idle", "bootstrap", "walk", "record", "recover", "pass", "free"}
    /\ batch \in Batches \cup {NoBatch}
    /\ fresh \in BOOLEAN /\ freed \in BOOLEAN
    /\ cursor \in Nat
    /\ at \in Clusters \cup {NoCluster}
    /\ target \in [index : SlotIndex, seq : SeqNumber]

\* A file that is listed can be read to its end: the entry points at the
\* clusters the file was given and the FAT still links them in order.  "There
\* is no reachable state in which something is listed and unreadable."
Linked(s) == \A i \in DOMAIN s : fat[s[i]] = LinkAt(s, i)
Intact(n) == dir[n] = First(chain[n]) /\ Linked(chain[n])

ListedIsReadable == \A n \in Names : dir[n] # NoEntry => Intact(n)

\* No batch frees a cluster the journal itself lives in, which a replay of a
\* batch that had already been freed would do if the journal could grow after
\* the free.
JournalIsReadable == Linked(jchain)

\* Clusters are freed on the word of the durable record alone: from its write
\* on, the batch in memory is the one a reset would find elected, also where
\* the sequence numbers wrap.
RecordIsFound == pc \in {"recover", "pass", "free"} => Outstanding /\ Live = batch

\* Once the journal says nothing is in flight, every allocated cluster belongs
\* to a listed file or to the journal: no interruption loses space.
Holds(s, c) == \E i \in DOMAIN s : s[i] = c

NoLeak ==
    Settled =>
        \A c \in Clusters : fat[c] # Free =>
            \/ Holds(jchain, c)
            \/ \E n \in Names : dir[n] # NoEntry /\ Holds(chain[n], c)

\* While a whole record this build cannot read stands in either slot, nothing
\* on the card that a reclaim touches changes, however well the other decodes.
UnsupportedStands == [][~SlotsUsable => UNCHANGED disk]_disk

\* Once calls stop being interrupted, no record stays outstanding.
NoMoreInterrupts == <>[][~(Interrupt \/ InterruptInWrite)]_vars
Settles == NoMoreInterrupts => (Outstanding ~> Settled)

\* A file is wholly there or wholly gone: to whoever lists the directory and
\* reads what it lists, a reclaim is one step.
Broken == <<"broken">>

FileUnder(a) ==
    IF dir[a] = NoEntry THEN {}
    ELSE {IF Intact(a) THEN chain[a] ELSE Broken}

Files == INSTANCE WhollyThereOrGone WITH
            Contents <- {{s} : s \in Chains},
            Nothing  <- {},
            files    <- [a \in Aliases |-> FileUnder(a)]
WhollyThereOrGone == Files!Spec
=============================================================================
