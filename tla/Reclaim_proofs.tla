--------------------------- MODULE Reclaim_proofs ---------------------------
(***************************************************************************)
(* What is proved of Reclaim, for every volume, batch size and sequence    *)
(* width.                                                                  *)
(***************************************************************************)
EXTENDS Reclaim, TLAPS

-----------------------------------------------------------------------------
(***************************************************************************)
(* The type invariant, with what a call in progress adds to it: there is a *)
(* batch in hand, the walk stands on a cluster, and the slot a record goes *)
(* to is never more than one past the journal's end.                       *)
(***************************************************************************)
InCall ==
    /\ pc # "idle" => batch \in Batches
    /\ pc = "walk" => at \in Clusters
    /\ pc = "bootstrap" => at = batch.entry
    /\ pc \notin {"idle", "bootstrap"} => jlen > 0

TypeInv == TypeOK /\ InCall

\* A sequence number's successor is a sequence number.
LEMMA NextSeqType == ASSUME NEW n \in SeqNumber PROVE NextSeq(n) \in SeqNumber
  BY SeqAssumption DEF NextSeq, SeqNumber

LEMMA OtherSlotType ==
    ASSUME NEW i \in SlotIndex
    PROVE  OtherSlot(i) \in SlotIndex /\ OtherSlot(i) # i
  BY DEF OtherSlot, SlotIndex

\* A chain a file may be given is a sequence of clusters.
LEMMA ChainsAreSequences == ASSUME NEW s \in Chains PROVE s \in Seq(Clusters)
  <1>1. PICK n \in 0 .. MaxChain : s \in [1 .. n -> Clusters]
    BY DEF Chains
  <1>2. n \in Nat
    BY BatchAssumption
  <1> QED
    BY <1>1, <1>2

LEMMA FirstType ==
    ASSUME NEW s \in Seq(Clusters)
    PROVE  First(s) \in Clusters \cup {NoCluster}
  BY DEF First

LEMMA LinkAtType ==
    ASSUME NEW s \in Seq(Clusters), NEW i \in DOMAIN s
    PROVE  LinkAt(s, i) \in Clusters \cup {End}
  BY DEF LinkAt

\* The live slot of a journal that was found is one of the two, and holds a
\* record this build reads.
LEMMA LiveIsReadable ==
    ASSUME TypeOK, JournalFound
    PROVE  /\ LiveIndex \in SlotIndex
           /\ LiveIndex < jlen
           /\ Live = slots[LiveIndex]
           /\ Live.kind \in {"clear", "work"}
           /\ Live.seq \in SeqNumber
           /\ Live.kind = "work" => Live \in Batches
  <1>1. LiveIndex \in LiveSlots
    <2>1. CASE LiveSlots = SlotIndex
      BY <2>1 DEF LiveIndex, SlotIndex
    <2>2. CASE LiveSlots # SlotIndex
      BY <2>2 DEF LiveIndex, JournalFound
    <2> QED
      BY <2>1, <2>2
  <1>2. LiveIndex \in SlotIndex /\ Readable(SlotRead(LiveIndex))
    BY <1>1 DEF LiveSlots
  <1>3. LiveIndex < jlen /\ Readable(slots[LiveIndex])
    BY <1>2 DEF SlotRead, Readable, Torn
  <1>4. slots[LiveIndex] \in Slots
    BY <1>2 DEF TypeOK
  <1>5. /\ slots[LiveIndex].seq \in SeqNumber
        /\ slots[LiveIndex].kind = "work" => slots[LiveIndex] \in Batches
    BY <1>3, <1>4 DEF Readable, Slots, Torn, Unsupported, Batches
  <1> QED
    BY <1>2, <1>3, <1>5 DEF Live, Readable

\* Writing a slot that is at most one past the journal's end keeps the types
\* of all it touches.
LEMMA GrowType ==
    ASSUME TypeOK, NEW i \in SlotIndex, i = 0 \/ jlen > 0,
           Grow(i), Lengthen(i) \/ jlen' = jlen
    PROVE  /\ fat' \in [Clusters -> Clusters \cup {Free, End}]
           /\ jlen' \in 0 .. 2
           /\ jchain' \in Seq(Clusters)
           /\ Len(jchain') \in jlen' .. 2
           /\ jlen > 0 => jlen' > 0
           /\ Lengthen(i) => jlen' > 0
  <1> USE DEF TypeOK
  <1>1. /\ jlen' \in 0 .. 2
        /\ jlen > 0 => jlen' > 0
        /\ Lengthen(i) => jlen' > 0
        /\ jlen' <= i + 1 \/ jlen' = jlen
    BY DEF Lengthen, SlotIndex
  <1>2. CASE i < Len(jchain)
    BY <1>1, <1>2 DEF Grow, SlotIndex
  <1>3. CASE ~(i < Len(jchain))
    <2>1. PICK c \in Clusters : Extend(c)
      BY <1>3 DEF Grow
    <2>2. /\ jchain' \in Seq(Clusters)
          /\ Len(jchain') = Len(jchain) + 1
      BY <2>1 DEF Extend
    <2>3. fat' \in [Clusters -> Clusters \cup {Free, End}]
      BY <2>1 DEF Extend
    <2> QED
      BY <1>1, <1>3, <2>2, <2>3 DEF SlotIndex
  <1> QED
    BY <1>2, <1>3

LEMMA WriteSlotType ==
    ASSUME TypeOK, NEW i \in SlotIndex, i = 0 \/ jlen > 0,
           NEW v \in Slots, WriteSlot(i, v)
    PROVE  /\ dir' = dir /\ chain' = chain
           /\ fat' \in [Clusters -> Clusters \cup {Free, End}]
           /\ slots' \in [SlotIndex -> Slots]
           /\ jlen' \in 0 .. 2
           /\ jlen' > 0
           /\ jchain' \in Seq(Clusters) /\ Len(jchain') \in jlen' .. 2
  <1>1. Grow(i) /\ Lengthen(i)
    BY DEF WriteSlot
  <1>2. slots' \in [SlotIndex -> Slots] /\ dir' = dir /\ chain' = chain
    BY DEF WriteSlot, TypeOK
  <1> QED
    BY <1>1, <1>2, GrowType

\* A call that ends leaves its memory well typed.
LEMMA ForgetType ==
    ASSUME Forget
    PROVE  /\ pc' = "idle"
           /\ batch' = NoBatch
           /\ fresh' \in BOOLEAN /\ freed' \in BOOLEAN
           /\ cursor' \in Nat
           /\ at' \in Clusters \cup {NoCluster}
           /\ target' \in [index : SlotIndex, seq : SeqNumber]
  <1>1. 0 \in SlotIndex /\ 0 \in SeqNumber
    BY SeqAssumption DEF SlotIndex, SeqNumber
  <1>2. [index |-> 0, seq |-> 0] \in [index : SlotIndex, seq : SeqNumber]
    BY <1>1
  <1>3. cursor' \in Nat
    BY DEF Forget
  <1> QED
    BY <1>2, <1>3 DEF Forget

LEMMA EmptyBatchType ==
    ASSUME NEW n \in SeqNumber, NEW a \in Aliases,
           NEW e \in Clusters \cup {NoCluster}
    PROVE  EmptyBatch(n, a, e) \in Batches
  <1>1. <<>> \in Seq(Clusters)
    OBVIOUS
  <1> QED
    BY <1>1 DEF EmptyBatch, Batches

\* Starting a call is well typed wherever its record is to go.
LEMMA BeginType ==
    ASSUME TypeInv, NEW a \in Aliases, dir[a] # NoEntry,
           NEW i \in SlotIndex, NEW n \in SeqNumber,
           NEW where \in {"bootstrap", AfterJournalAsked(dir[a])},
           Begin(a, i, n, where), where = "bootstrap" \/ jlen > 0
    PROVE  TypeInv'
  <1>1. a \in Names /\ dir[a] \in Clusters \cup {NoCluster}
    BY DEF TypeInv, TypeOK, Names
  <1>2. /\ batch' \in Batches
        /\ at' = batch'.entry
        /\ at' \in Clusters \cup {NoCluster}
    BY <1>1, EmptyBatchType DEF Begin, EmptyBatch
  <1>3. target' \in [index : SlotIndex, seq : SeqNumber]
    BY DEF Begin
  <1>4. /\ pc' \in {"bootstrap", "walk", "record"}
        /\ pc' = "walk" => at' \in Clusters
        /\ pc' # "bootstrap" => jlen' > 0
    BY <1>1 DEF Begin, AfterJournalAsked, disk
  <1>5. fresh' \in BOOLEAN /\ UNCHANGED <<disk, freed, cursor>>
    BY DEF Begin
  <1> QED
    BY <1>2, <1>3, <1>4, <1>5 DEF TypeInv, TypeOK, InCall, disk

\* The invariant holds of an empty card and no call running.
LEMMA TypeInit == Init => TypeInv
  <1> SUFFICES ASSUME Init PROVE TypeInv
    OBVIOUS
  <1>1. <<>> \in Seq(Clusters) /\ Len(<<>>) = 0
    OBVIOUS
  <1>2. 0 \in SlotIndex /\ 0 \in SeqNumber
    BY SeqAssumption DEF SlotIndex, SeqNumber
  <1>3. target \in [index : SlotIndex, seq : SeqNumber]
    BY <1>2 DEF Init
  <1>4. /\ dir \in [Names -> Clusters \cup {NoCluster, NoEntry}]
        /\ fat \in [Clusters -> Clusters \cup {Free, End}]
        /\ chain \in [Names -> Seq(Clusters)]
        /\ slots \in [SlotIndex -> Slots]
    BY <1>1 DEF Init, Slots
  <1>5. jlen \in 0 .. 2 /\ jchain \in Seq(Clusters) /\ Len(jchain) \in jlen .. 2
    BY <1>1 DEF Init
  <1> QED
    BY <1>3, <1>4, <1>5 DEF Init, TypeInv, TypeOK, InCall

LEMMA CreateFileType ==
    ASSUME TypeInv, NEW a \in Aliases, NEW s \in Chains, CreateFile(a, s)
    PROVE  TypeInv'
  <1>1. s \in Seq(Clusters)
    BY ChainsAreSequences
  <1>2. dir' \in [Names -> Clusters \cup {NoCluster, NoEntry}]
    BY <1>1, FirstType DEF CreateFile, TypeInv, TypeOK
  <1>3. chain' \in [Names -> Seq(Clusters)]
    BY <1>1 DEF CreateFile, TypeInv, TypeOK
  <1>4. ASSUME NEW c \in Clusters, \E i \in DOMAIN s : s[i] = c
        PROVE  LinkAt(s, CHOOSE i \in DOMAIN s : s[i] = c) \in Clusters \cup {End}
    BY <1>1, <1>4, LinkAtType
  <1>5. fat' \in [Clusters -> Clusters \cup {Free, End}]
    BY <1>4 DEF CreateFile, TypeInv, TypeOK
  <1> QED
    BY <1>2, <1>3, <1>5 DEF CreateFile, TypeInv, TypeOK, InCall, volatile

LEMMA CreateStateFileType ==
    ASSUME TypeInv, NEW n \in StateFiles, NEW c \in Clusters,
           CreateStateFile(n, c)
    PROVE  TypeInv'
  <1>1. <<c>> \in Seq(Clusters)
    OBVIOUS
  <1>2. /\ dir' \in [Names -> Clusters \cup {NoCluster, NoEntry}]
        /\ fat' \in [Clusters -> Clusters \cup {Free, End}]
        /\ chain' \in [Names -> Seq(Clusters)]
    BY <1>1 DEF CreateStateFile, TypeInv, TypeOK
  <1> QED
    BY <1>2 DEF CreateStateFile, TypeInv, TypeOK, InCall, volatile

LEMMA ReclaimType ==
    ASSUME TypeInv, NEW a \in Aliases, ReclaimFirstEntry(a) \/ ReclaimEntry(a)
    PROVE  TypeInv'
  <1>1. CASE ReclaimFirstEntry(a)
    <2>1. 1 \in SlotIndex /\ 2 \in SeqNumber
      BY SeqAssumption DEF SlotIndex, SeqNumber
    <2> QED
      BY <1>1, <2>1, BeginType DEF ReclaimFirstEntry
  <1>2. CASE ReclaimEntry(a)
    <2>1. LiveIndex \in SlotIndex /\ Live.seq \in SeqNumber
      BY <1>2, LiveIsReadable DEF ReclaimEntry, TypeInv
    <2>2. OtherSlot(LiveIndex) \in SlotIndex /\ NextSeq(Live.seq) \in SeqNumber
      BY <2>1, OtherSlotType, NextSeqType
    <2>3. jlen > 0
      BY <1>2 DEF ReclaimEntry, JournalFound
    <2> QED
      BY <1>2, <2>2, <2>3, BeginType DEF ReclaimEntry
  <1> QED
    BY <1>1, <1>2

LEMMA WriteBootstrapType == ASSUME TypeInv, WriteBootstrap PROVE TypeInv'
  <1>1. Clear(1) \in Slots /\ 0 \in SlotIndex
    BY SeqAssumption DEF Clear, Slots, SlotIndex, SeqNumber
  <1>2. WriteSlot(0, Clear(1)) /\ pc' = AfterJournalAsked(batch.entry)
    BY DEF WriteBootstrap
  <1>3. /\ dir' = dir /\ chain' = chain
        /\ fat' \in [Clusters -> Clusters \cup {Free, End}]
        /\ slots' \in [SlotIndex -> Slots]
        /\ jlen' \in 0 .. 2
        /\ jlen' > 0
        /\ jchain' \in Seq(Clusters) /\ Len(jchain') \in jlen' .. 2
    BY <1>1, <1>2, WriteSlotType DEF TypeInv
  <1>4. batch \in Batches /\ at = batch.entry
    BY DEF WriteBootstrap, TypeInv, InCall
  <1>5. pc' = "walk" => at' \in Clusters
    BY <1>2, <1>4 DEF AfterJournalAsked, WriteBootstrap, volatile, TypeInv, TypeOK
  <1>6. pc' \in {"walk", "record"}
    BY <1>2 DEF AfterJournalAsked
  <1> QED
    BY <1>3, <1>4, <1>5, <1>6 DEF WriteBootstrap, volatile, TypeInv, TypeOK, InCall

LEMMA WalkType == ASSUME TypeInv, Walk PROVE TypeInv'
  <1>1. batch \in Batches /\ at \in Clusters /\ pc = "walk" /\ jlen > 0
    BY DEF Walk, WalkFull, WalkOn, WalkEnd, TypeInv, InCall
  <1>2. Push(batch) \in Batches
    <2>1. Append(batch.clusters, at) \in Seq(Clusters)
      BY <1>1 DEF Batches
    <2> QED
      BY <1>1, <2>1 DEF Push, Batches
  <1>3. CASE WalkFull
    <2>1. batch' \in Batches
      BY <1>1, <1>3 DEF WalkFull, Batches
    <2> QED
      BY <1>1, <1>3, <2>1 DEF WalkFull, TypeInv, TypeOK, InCall, disk
  <1>4. CASE WalkOn
    BY <1>1, <1>2, <1>4 DEF WalkOn, TypeInv, TypeOK, InCall, disk
  <1>5. CASE WalkEnd
    BY <1>1, <1>2, <1>5 DEF WalkEnd, TypeInv, TypeOK, InCall, disk
  <1> QED
    BY <1>3, <1>4, <1>5 DEF Walk

LEMMA WriteRecordType == ASSUME TypeInv, WriteRecord PROVE TypeInv'
  <1>1. /\ batch \in Batches /\ batch \in Slots
        /\ jlen > 0
        /\ target.index \in SlotIndex /\ target.seq \in SeqNumber
    BY DEF WriteRecord, TypeInv, TypeOK, InCall, Slots
  <1>2. /\ dir' = dir /\ chain' = chain
        /\ fat' \in [Clusters -> Clusters \cup {Free, End}]
        /\ slots' \in [SlotIndex -> Slots]
        /\ jlen' \in 0 .. 2
        /\ jlen' > 0
        /\ jchain' \in Seq(Clusters) /\ Len(jchain') \in jlen' .. 2
    BY <1>1, WriteSlotType DEF WriteRecord, TypeInv
  <1>3. OtherSlot(target.index) \in SlotIndex /\ NextSeq(target.seq) \in SeqNumber
    BY <1>1, OtherSlotType, NextSeqType
  <1>4. target' \in [index : SlotIndex, seq : SeqNumber]
    BY <1>3 DEF WriteRecord
  <1> QED
    BY <1>1, <1>2, <1>4 DEF WriteRecord, TypeInv, TypeOK, InCall

LEMMA RecoverType == ASSUME TypeInv, Recover PROVE TypeInv'
  <1>1. /\ LiveIndex \in SlotIndex
        /\ Live.seq \in SeqNumber
        /\ Live \in Batches
        /\ jlen > 0
    BY LiveIsReadable DEF Recover, Outstanding, JournalFound, TypeInv
  <1>2. OtherSlot(LiveIndex) \in SlotIndex /\ NextSeq(Live.seq) \in SeqNumber
    BY <1>1, OtherSlotType, NextSeqType
  <1>3. target' \in [index : SlotIndex, seq : SeqNumber] /\ batch' \in Batches
    BY <1>1, <1>2 DEF Recover
  <1> QED
    BY <1>1, <1>3 DEF Recover, TypeInv, TypeOK, InCall, disk

\* What a pass does between the records it writes.
LEMMA PassType ==
    ASSUME TypeInv, Unlink \/ StartFreeing \/ FreeCluster \/ StartNextBatch
    PROVE  TypeInv'
  <1>1. batch \in Batches /\ jlen > 0
    BY DEF Unlink, StartFreeing, FreeCluster, StartNextBatch, Planned, TypeInv, InCall
  <1>2. CASE Unlink
    BY <1>1, <1>2 DEF Unlink, Planned, TypeInv, TypeOK, InCall, volatile
  <1>3. CASE StartFreeing
    BY <1>1, <1>3 DEF StartFreeing, TypeInv, TypeOK, InCall, disk
  <1>4. CASE FreeCluster
    <2>1. fat' \in [Clusters -> Clusters \cup {Free, End}]
      BY <1>4 DEF FreeCluster, TypeInv, TypeOK
    <2>2. /\ cursor' \in Nat /\ freed' \in BOOLEAN
          /\ pc' \in {"free", "pass"}
      <3>1. freed' = TRUE \/ freed' = freed
        BY <1>4 DEF FreeCluster
      <3>2. freed \in BOOLEAN
        BY DEF TypeInv, TypeOK
      <3>3. cursor' \in Nat /\ pc' \in {"free", "pass"}
        BY <1>4 DEF FreeCluster, TypeInv, TypeOK
      <3> QED
        BY <3>1, <3>2, <3>3
    <2>3. UNCHANGED <<dir, chain, slots, jlen, jchain, batch, fresh, at, target>>
      BY <1>4 DEF FreeCluster
    <2>4. TypeOK'
      BY <2>1, <2>2, <2>3 DEF TypeInv, TypeOK
    <2> QED
      BY <1>1, <2>2, <2>3, <2>4 DEF TypeInv, InCall
  <1>5. CASE StartNextBatch
    <2>1. /\ batch.continuation \in Clusters
          /\ batch.name \in Aliases /\ batch.entry \in Clusters \cup {NoCluster}
      <3>1. Plan(batch, Classify(batch), freed) = "next"
        BY <1>5 DEF StartNextBatch, Planned
      <3>2. batch.continuation # NoCluster
        BY <3>1 DEF Plan
      <3> QED
        BY <1>1, <3>2 DEF Batches
    <2>2. target.seq \in SeqNumber
      BY DEF TypeInv, TypeOK
    <2>3. batch' \in Batches
      BY <1>5, <2>1, <2>2, EmptyBatchType DEF StartNextBatch
    <2> QED
      BY <1>1, <1>5, <2>1, <2>3 DEF StartNextBatch, TypeInv, TypeOK, InCall, disk
  <1> QED
    BY <1>2, <1>3, <1>4, <1>5

LEMMA FinishType == ASSUME TypeInv, Finish PROVE TypeInv'
  <1>1. target.index \in SlotIndex /\ target.seq \in SeqNumber
    BY DEF TypeInv, TypeOK
  <1>2. Clear(target.seq) \in Slots
    BY <1>1 DEF Clear, Slots
  <1>3. jlen > 0
    BY DEF Finish, Planned, TypeInv, InCall
  <1>4. /\ dir' = dir /\ chain' = chain
        /\ fat' \in [Clusters -> Clusters \cup {Free, End}]
        /\ slots' \in [SlotIndex -> Slots]
        /\ jlen' \in 0 .. 2
        /\ jchain' \in Seq(Clusters) /\ Len(jchain') \in jlen' .. 2
    BY <1>1, <1>2, <1>3, WriteSlotType DEF Finish, TypeInv
  <1> QED
    BY <1>4, ForgetType DEF Finish, TypeInv, TypeOK, InCall

\* An interruption, wherever it falls, also inside the write of a slot.
LEMMA InterruptType ==
    ASSUME TypeInv, Interrupt \/ InterruptInWrite
    PROVE  TypeInv'
  <1>1. CASE Interrupt
    BY <1>1, ForgetType DEF Interrupt, disk, TypeInv, TypeOK, InCall
  <1>2. CASE InterruptInWrite
    <2>1. PICK i \in SlotIndex : Writing(i) /\ TearSlot(i)
      BY <1>2 DEF InterruptInWrite
    <2>2. i = 0 \/ jlen > 0
      BY <2>1 DEF Writing, Planned, TypeInv, InCall
    <2>3. /\ fat' \in [Clusters -> Clusters \cup {Free, End}]
          /\ jlen' \in 0 .. 2
          /\ jchain' \in Seq(Clusters) /\ Len(jchain') \in jlen' .. 2
      BY <2>1, <2>2, GrowType DEF TearSlot, TypeInv
    <2>4. slots' \in [SlotIndex -> Slots] /\ dir' = dir /\ chain' = chain
      BY <2>1 DEF TearSlot, Slots, TypeInv, TypeOK
    <2>5. Forget
      BY <1>2 DEF InterruptInWrite
    <2> QED
      BY <2>3, <2>4, <2>5, ForgetType DEF TypeInv, TypeOK, InCall
  <1> QED
    BY <1>1, <1>2

LEMMA TypeStep == TypeInv /\ [Next]_vars => TypeInv'
  <1> SUFFICES ASSUME TypeInv, [Next]_vars PROVE TypeInv'
    OBVIOUS
  <1>1. ASSUME NEW a \in Aliases, NEW s \in Chains, CreateFile(a, s)
        PROVE  TypeInv'
    BY <1>1, CreateFileType
  <1>2. ASSUME NEW n \in StateFiles, NEW c \in Clusters, CreateStateFile(n, c)
        PROVE  TypeInv'
    BY <1>2, CreateStateFileType
  <1>3. ASSUME NEW a \in Aliases, ReclaimFirstEntry(a) \/ ReclaimEntry(a)
        PROVE  TypeInv'
    BY <1>3, ReclaimType
  <1>4. CASE Call
    BY <1>4, WriteBootstrapType, WalkType, WriteRecordType, RecoverType,
       PassType, FinishType DEF Call, Pass
  <1>5. CASE Interrupt \/ InterruptInWrite
    BY <1>5, InterruptType
  <1>6. CASE UNCHANGED vars
    BY <1>6 DEF vars, disk, volatile, TypeInv, TypeOK, InCall
  <1> QED
    BY <1>1, <1>2, <1>3, <1>4, <1>5, <1>6 DEF Next

\* Whatever is created, reclaimed or interrupted, the card and the memory of a
\* call keep their types: a sequence number that wrapped is a number still, and
\* the journal is never longer than its chain.
THEOREM TypeCorrect == Spec => []TypeOK
  <1>1. TypeInv => TypeOK
    BY DEF TypeInv
  <1> QED
    BY <1>1, TypeInit, TypeStep, PTL DEF Spec

-----------------------------------------------------------------------------
(***************************************************************************)
(* A later build's record.  The journal is then neither found nor absent,  *)
(* so no call can begin; and no call of this build writes such a record,   *)
(* so none can be running.                                                 *)
(***************************************************************************)
UsableInCall == SlotsUsable \/ pc = "idle"

LEMMA LaterBuildType == ASSUME TypeInv, LaterBuild PROVE TypeInv'
  <1>1. slots' \in [SlotIndex -> Slots]
    BY DEF LaterBuild, Slots, TypeInv, TypeOK
  <1> QED
    BY <1>1 DEF LaterBuild, TypeInv, TypeOK, InCall, volatile

\* Beside a record that cannot be read nothing is outstanding, nothing is
\* settled, and the journal is not missing either.
LEMMA UnsupportedIsNeither ==
    ASSUME TypeOK, ~SlotsUsable
    PROVE  ~JournalFound /\ ~JournalAbsent
  <1>1. ~JournalFound
    BY DEF JournalFound
  <1>2. jlen # 0
    BY DEF SlotsUsable, SlotRead, Torn, SlotIndex
  <1> QED
    BY <1>1, <1>2 DEF JournalAbsent

\* Where state files are not written, nothing moves beside such a record.
LEMMA UnsupportedStopsAll ==
    ASSUME TypeInv, UsableInCall, ~SlotsUsable, StateFiles = {},
           [Next \/ LaterBuild]_vars
    PROVE  UNCHANGED vars
  <1>1. pc = "idle"
    BY DEF UsableInCall
  <1>2. ~JournalFound /\ ~JournalAbsent /\ ~Settled /\ ~Outstanding
    BY UnsupportedIsNeither DEF TypeInv, Settled, Outstanding
  <1>3. ~LaterBuild
    BY <1>2 DEF LaterBuild
  <1>4. /\ \A a \in Aliases, s \in Chains : ~CreateFile(a, s)
        /\ \A a \in Aliases : ~ReclaimFirstEntry(a) /\ ~ReclaimEntry(a)
    BY <1>2 DEF CreateFile, ReclaimFirstEntry, ReclaimEntry
  <1>5. ~Call
    BY <1>1, <1>2 DEF Call, WriteBootstrap, Walk, WalkFull, WalkOn, WalkEnd,
       WriteRecord, Pass, Recover, Unlink, StartFreeing, FreeCluster,
       StartNextBatch, Finish, Planned
  <1>6. ~Interrupt /\ ~InterruptInWrite
    BY <1>1 DEF Interrupt, InterruptInWrite, Writing, Planned
  <1> QED
    BY <1>3, <1>4, <1>5, <1>6 DEF Next

\* A slot this build writes is one it can read.
LEMMA WriteSlotUsable ==
    ASSUME TypeOK, SlotsUsable, NEW i \in SlotIndex, i = 0 \/ jlen > 0,
           NEW v \in Slots, v.kind # "unsupported", WriteSlot(i, v)
    PROVE  SlotsUsable'
  <1>1. slots' = [slots EXCEPT ![i] = v] /\ slots \in [SlotIndex -> Slots]
    BY DEF WriteSlot, TypeOK
  <1>2. jlen' = IF i < jlen THEN jlen ELSE i + 1
    BY DEF WriteSlot, Lengthen
  <1>3. ASSUME NEW j \in SlotIndex, j # i
        PROVE  SlotRead(j)' \in {Torn, SlotRead(j)}
    BY <1>1, <1>2, <1>3 DEF SlotRead, SlotIndex, TypeOK
  <1>4. SlotRead(i)' \in {Torn, v}
    BY <1>1 DEF SlotRead
  <1> QED
    BY <1>3, <1>4 DEF SlotsUsable, Torn

LEMMA UsableStep ==
    ASSUME TypeInv, UsableInCall, StateFiles = {}, [Next \/ LaterBuild]_vars
    PROVE  UsableInCall'
  <1>1. CASE ~SlotsUsable
    BY <1>1, UnsupportedStopsAll DEF UsableInCall, vars
  <1>2. CASE SlotsUsable
    <2>1. CASE UNCHANGED <<slots, jlen>>
      BY <1>2, <2>1 DEF UsableInCall, SlotsUsable, SlotRead
    <2>2. CASE pc' = "idle"
      BY <2>2 DEF UsableInCall
    <2>3. CASE WriteBootstrap
      <3>1. Clear(1) \in Slots /\ 0 \in SlotIndex /\ Clear(1).kind # "unsupported"
        BY SeqAssumption DEF Clear, Slots, SlotIndex, SeqNumber
      <3> QED
        BY <1>2, <2>3, <3>1, WriteSlotUsable
           DEF WriteBootstrap, UsableInCall, TypeInv
    <2>4. CASE WriteRecord
      <3>1. /\ batch \in Slots /\ batch.kind # "unsupported"
            /\ jlen > 0 /\ target.index \in SlotIndex
        BY <2>4 DEF WriteRecord, TypeInv, TypeOK, InCall, Slots, Batches
      <3> QED
        BY <1>2, <2>4, <3>1, WriteSlotUsable DEF WriteRecord, UsableInCall, TypeInv
    <2>5. CASE LaterBuild
      BY <2>5, <2>2 DEF LaterBuild
    <2>6. CASE Interrupt \/ InterruptInWrite \/ Finish
      BY <2>6, <2>2 DEF Interrupt, InterruptInWrite, Finish, Forget
    <2>7. CASE Walk \/ Recover \/ Unlink \/ StartFreeing \/ FreeCluster \/ StartNextBatch
      BY <2>7, <2>1 DEF Walk, WalkFull, WalkOn, WalkEnd, Recover, Unlink,
         StartFreeing, FreeCluster, StartNextBatch, disk
    <2>8. ASSUME NEW a \in Aliases, ReclaimFirstEntry(a) \/ ReclaimEntry(a)
          PROVE  UsableInCall'
      BY <2>8, <2>1 DEF ReclaimFirstEntry, ReclaimEntry, Begin, disk
    <2>9. ASSUME NEW a \in Aliases, NEW s \in Chains, CreateFile(a, s)
          PROVE  UsableInCall'
      BY <2>9, <2>1 DEF CreateFile
    <2>10. CASE UNCHANGED vars
      BY <2>10, <2>1 DEF vars, disk
    <2> QED
      BY <2>3, <2>4, <2>5, <2>6, <2>7, <2>8, <2>9, <2>10 DEF Next, Call, Pass
  <1> QED
    BY <1>1, <1>2

\* Beside a record of a later build this build changes nothing, however well
\* the other slot decodes: reclaim_entry refuses, recover refuses, and the
\* session hands out no command that would allocate.
THEOREM UnsupportedIsLeft ==
    ASSUME StateFiles = {}
    PROVE  DowngradeSpec => UnsupportedStands
  <1>1. Init => TypeInv /\ UsableInCall
    BY TypeInit DEF Init, UsableInCall
  <1>2. TypeInv /\ UsableInCall /\ [Next \/ LaterBuild]_vars
            => (TypeInv /\ UsableInCall)'
    <2> SUFFICES ASSUME TypeInv, UsableInCall, [Next \/ LaterBuild]_vars
                 PROVE  TypeInv' /\ UsableInCall'
      OBVIOUS
    <2>1. TypeInv'
      BY TypeStep, LaterBuildType
    <2>2. UsableInCall'
      BY UsableStep
    <2> QED
      BY <2>1, <2>2
  <1>3. TypeInv /\ UsableInCall /\ [Next \/ LaterBuild]_vars
            => [~SlotsUsable => UNCHANGED disk]_disk
    BY UnsupportedStopsAll DEF vars
  <1> QED
    BY <1>1, <1>2, <1>3, PTL DEF DowngradeSpec, UnsupportedStands
=============================================================================
