----------------------- MODULE ReclaimJournal_proofs -----------------------
(***************************************************************************)
(* The journal of Reclaim: that the record a reclaim wrote is the one a    *)
(* reset elects, whatever its sequence number, and that no reclaim frees a *)
(* cluster the journal lives in.  Both for every card, every batch size    *)
(* and sequence width, any set of state files, and with a later build      *)
(* writing records of its own in between.                                  *)
(***************************************************************************)
EXTENDS Reclaim_proofs

-----------------------------------------------------------------------------
(***************************************************************************)
(* The order of the two slots.  Where the next record goes and what number *)
(* it gets is a function of what stands on the card; a call that is under  *)
(* way holds exactly that answer, because nothing but its own writes can   *)
(* have changed it since it asked.                                         *)
(***************************************************************************)
ElectedTarget == [index |-> OtherSlot(LiveIndex), seq |-> NextSeq(Live.seq)]

Follows(i) == slots[i].seq = NextSeq(slots[OtherSlot(i)].seq)

JournalOrder ==
    /\ \A i \in SlotIndex : i >= jlen => slots[i] = Torn
    /\ \A i \in SlotIndex : slots[i].kind = "work" => jlen = 2
    /\ jlen = 2 /\ SlotsUsable => LiveSlots # {}
    /\ LiveSlots = SlotIndex => \E i \in SlotIndex : Follows(i)

CallOrder ==
    /\ pc = "bootstrap" =>
         JournalAbsent /\ fresh /\ target = [index |-> 1, seq |-> 2]
    /\ pc \notin {"idle", "bootstrap"} => JournalFound /\ target = ElectedTarget
    /\ pc \in {"walk", "record"} => Live.kind = IF fresh THEN "clear" ELSE "work"
    /\ pc \in {"bootstrap", "walk", "record"} => batch.seq = target.seq
    /\ pc \in {"recover", "pass", "free"} => Live = batch /\ ~fresh
    /\ pc = "free" => cursor \in 1 .. Len(batch.clusters)

OrderInv == TypeInv /\ JournalOrder /\ CallOrder

\* Of a number and the one it follows, the wrapped comparison picks the later.
LEMMA NextIsLater ==
    ASSUME NEW n \in SeqNumber
    PROVE  WrapSub(NextSeq(n), n) < WrapSub(n, NextSeq(n))
  BY SeqAssumption DEF WrapSub, NextSeq, SeqNumber

\* Reading the journal depends on nothing but its slots and its length.
LEMMA JournalStill ==
    ASSUME UNCHANGED <<slots, jlen>>
    PROVE  /\ SlotsUsable' = SlotsUsable
           /\ LiveSlots' = LiveSlots
           /\ LiveIndex' = LiveIndex
           /\ Live' = Live
           /\ JournalFound' = JournalFound
           /\ JournalAbsent' = JournalAbsent
           /\ Outstanding' = Outstanding
           /\ Settled' = Settled
           /\ ElectedTarget' = ElectedTarget
           /\ JournalOrder' = JournalOrder
  <1>1. \A i : SlotRead(i)' = SlotRead(i)
    BY DEF SlotRead
  <1>2. SlotsUsable' = SlotsUsable /\ LiveSlots' = LiveSlots
    BY <1>1 DEF SlotsUsable, LiveSlots
  <1>3. LiveIndex' = LiveIndex
    BY <1>2 DEF LiveIndex
  <1>4. Live' = Live
    BY <1>3 DEF Live
  <1>5. JournalFound' = JournalFound /\ JournalAbsent' = JournalAbsent
    BY <1>2 DEF JournalFound, JournalAbsent
  <1>6. JournalOrder' = JournalOrder
    BY <1>2 DEF JournalOrder, Follows
  <1> QED
    BY <1>2, <1>3, <1>4, <1>5, <1>6 DEF Outstanding, Settled, ElectedTarget

\* The journal of a call that is neither idle nor starting one afresh has a
\* live slot, and the slot its next record goes to is the other.
LEMMA TargetIsOther ==
    ASSUME OrderInv, pc \notin {"idle", "bootstrap"}
    PROVE  /\ JournalFound
           /\ LiveIndex \in SlotIndex /\ LiveIndex < jlen
           /\ Live = slots[LiveIndex]
           /\ Readable(Live)
           /\ Live.seq \in SeqNumber
           /\ target.index = OtherSlot(LiveIndex)
           /\ target.index \in SlotIndex /\ target.index # LiveIndex
           /\ target.seq = NextSeq(Live.seq)
           /\ target.seq \in SeqNumber
  <1>1. JournalFound /\ target = ElectedTarget
    BY DEF OrderInv, CallOrder
  <1>2. /\ LiveIndex \in SlotIndex /\ LiveIndex < jlen
        /\ Live = slots[LiveIndex]
        /\ Live.kind \in {"clear", "work"}
        /\ Live.seq \in SeqNumber
    BY <1>1, LiveIsReadable DEF OrderInv, TypeInv
  <1> QED
    BY <1>1, <1>2, OtherSlotType, NextSeqType DEF ElectedTarget, Readable

\* A record written where and as ElectedTarget says is the one elected next.
LEMMA WrittenIsElected ==
    ASSUME OrderInv, pc \notin {"idle", "bootstrap"},
           NEW v \in Slots, Readable(v), v.seq = target.seq,
           WriteSlot(target.index, v)
    PROVE  /\ jlen' = 2
           /\ JournalFound'
           /\ LiveIndex' = target.index
           /\ Live' = v
           /\ JournalOrder'
  <1>0. PICK i \in SlotIndex, j \in SlotIndex : i = target.index /\ j = LiveIndex
    BY TargetIsOther
  <1>1. /\ j \in SlotIndex /\ i \in SlotIndex /\ i # j
        /\ i = OtherSlot(j) /\ j = OtherSlot(i)
        /\ j < jlen /\ Readable(slots[j]) /\ slots[j].seq \in SeqNumber
        /\ v.seq = NextSeq(slots[j].seq)
        /\ SlotIndex = {i, j}
    BY <1>0, TargetIsOther DEF OtherSlot, SlotIndex
  <1>2. /\ slots'[i] = v /\ slots'[j] = slots[j]
        /\ jlen' = 2
    BY <1>0, <1>1 DEF WriteSlot, Lengthen, OrderInv, TypeInv, TypeOK, SlotIndex, OtherSlot
  <1>3. SlotRead(i)' = v /\ SlotRead(j)' = slots[j]
    BY <1>1, <1>2 DEF SlotRead, SlotIndex
  <1>4. LiveSlots' = SlotIndex /\ SlotsUsable'
    BY <1>1, <1>3 DEF LiveSlots, SlotsUsable, Readable
  <1>5. Follows(i)'
    BY <1>1, <1>2 DEF Follows
  <1>6. WrapSub(v.seq, slots[j].seq) < WrapSub(slots[j].seq, v.seq)
    BY <1>1, NextIsLater
  <1>7. LiveIndex' = i
    <2>0. v.seq \in SeqNumber
      BY <1>1, NextSeqType
    <2>1. CASE i = 1
      <3>1. j = 0
        BY <1>1, <2>1 DEF SlotIndex
      <3> QED
        BY <1>2, <1>4, <1>6, <2>1, <3>1 DEF LiveIndex
    <2>2. CASE i = 0
      <3>1. j = 1
        BY <1>1, <2>2 DEF SlotIndex
      <3>2. ~(WrapSub(slots[j].seq, v.seq) < WrapSub(v.seq, slots[j].seq))
        BY <1>1, <1>6, <2>0, SeqAssumption DEF WrapSub, SeqNumber
      <3> QED
        BY <1>2, <1>4, <2>2, <3>1, <3>2 DEF LiveIndex
    <2> QED
      BY <1>1, <2>1, <2>2 DEF SlotIndex
  <1>8. Live' = v
    BY <1>2, <1>7 DEF Live
  <1>9. JournalFound'
    BY <1>1, <1>2, <1>4 DEF JournalFound
  <1>10. JournalOrder'
    BY <1>1, <1>2, <1>4, <1>5 DEF JournalOrder, SlotIndex
  <1> QED
    BY <1>0, <1>2, <1>7, <1>8, <1>9, <1>10

\* A write the power cut into leaves the record that stood before it live.
LEMMA TornLeavesLive ==
    ASSUME OrderInv, pc \notin {"idle", "bootstrap"}, TearSlot(target.index)
    PROVE  /\ JournalFound'
           /\ LiveIndex' = LiveIndex
           /\ Live' = Live
           /\ JournalOrder'
  <1>0. PICK i \in SlotIndex, j \in SlotIndex : i = target.index /\ j = LiveIndex
    BY TargetIsOther
  <1>1. /\ j \in SlotIndex /\ i \in SlotIndex /\ i # j
        /\ j < jlen /\ Readable(slots[j]) /\ Live = slots[j]
        /\ SlotIndex = {i, j}
    BY <1>0, TargetIsOther DEF SlotIndex
  <1>2. /\ slots'[i] = Torn /\ slots'[j] = slots[j]
        /\ jlen' >= jlen /\ jlen' \in {1, 2}
        /\ jlen' = 2 \/ i >= jlen'  \/ i = 0
    BY <1>0, <1>1 DEF TearSlot, Lengthen, OrderInv, TypeInv, TypeOK, SlotIndex
  <1>3. SlotRead(i)' = Torn /\ SlotRead(j)' = slots[j]
    BY <1>1, <1>2 DEF SlotRead, SlotIndex, OrderInv, TypeInv, TypeOK
  <1>4. LiveSlots' = {j} /\ SlotsUsable'
    BY <1>1, <1>3 DEF LiveSlots, SlotsUsable, Readable, Torn
  <1>5. LiveIndex' = j
    BY <1>1, <1>4 DEF LiveIndex, SlotIndex
  <1>6. Live' = Live
    BY <1>1, <1>2, <1>5 DEF Live
  <1>7. JournalFound'
    BY <1>2, <1>4 DEF JournalFound
  <1>8. JournalOrder'
    <2>1. \A k \in SlotIndex : k >= jlen' => slots'[k] = Torn
      BY <1>1, <1>2 DEF SlotIndex, OrderInv, TypeInv, TypeOK
    <2>2. \A k \in SlotIndex : slots'[k].kind = "work" => jlen' = 2
      BY <1>1, <1>2 DEF OrderInv, JournalOrder, Torn, TypeInv, TypeOK
    <2> QED
      BY <1>1, <1>4, <2>1, <2>2 DEF JournalOrder
  <1> QED
    BY <1>0, <1>5, <1>6, <1>7, <1>8

\* The bootstrap of a new journal: its first slot, whole or torn.
LEMMA BootstrapSlots ==
    ASSUME OrderInv, pc = "bootstrap"
    PROVE  /\ slots[1] = Torn /\ ~Readable(slots[0])
           /\ slots[0].kind # "unsupported" \/ jlen = 0
           /\ jlen \in {0, 1}
  <1>1. JournalAbsent /\ JournalOrder /\ jlen \in 0 .. 2
    BY DEF OrderInv, CallOrder, TypeInv, TypeOK
  <1>2. jlen \in {0, 1}
    BY <1>1 DEF JournalAbsent
  <1>3. slots[1] = Torn /\ (jlen = 0 => slots[0] = Torn)
    BY <1>1, <1>2 DEF JournalOrder, SlotIndex
  <1>4. jlen = 1 => ~Readable(slots[0]) /\ slots[0].kind # "unsupported"
    BY <1>1 DEF JournalAbsent, LiveSlots, SlotsUsable, SlotRead, SlotIndex
  <1> QED
    BY <1>2, <1>3, <1>4 DEF Readable, Torn

LEMMA WriteBootstrapOrder ==
    ASSUME OrderInv, WriteBootstrap
    PROVE  JournalOrder' /\ CallOrder'
  <1>1. /\ slots[1] = Torn /\ jlen \in {0, 1}
        /\ fresh /\ target = [index |-> 1, seq |-> 2]
        /\ batch.seq = target.seq
        /\ batch \in Batches
    BY BootstrapSlots DEF WriteBootstrap, OrderInv, CallOrder, TypeInv, InCall
  <1>2. /\ slots'[0] = Clear(1) /\ slots'[1] = Torn /\ jlen' = 1
    BY <1>1 DEF WriteBootstrap, WriteSlot, Lengthen, OrderInv, TypeInv, TypeOK,
       SlotIndex
  <1>3. SlotRead(0)' = Clear(1) /\ SlotRead(1)' = Torn
    BY <1>2 DEF SlotRead
  <1>4. LiveSlots' = {0} /\ SlotsUsable'
    BY <1>3 DEF LiveSlots, SlotsUsable, SlotIndex, Readable, Torn, Clear
  <1>5. LiveIndex' = 0
    BY <1>4 DEF LiveIndex, SlotIndex
  <1>6. Live' = Clear(1) /\ JournalFound'
    BY <1>2, <1>4, <1>5 DEF Live, JournalFound
  <1>7. JournalOrder'
    BY <1>2, <1>4 DEF JournalOrder, SlotIndex, Clear, Torn
  <1>8. ElectedTarget' = [index |-> 1, seq |-> 2]
    BY <1>5, <1>6, SeqAssumption DEF ElectedTarget, OtherSlot, NextSeq, Clear
  <1>9. pc' \in {"walk", "record"} /\ UNCHANGED <<batch, fresh, target>>
    BY DEF WriteBootstrap, AfterJournalAsked, volatile
  <1> QED
    BY <1>1, <1>6, <1>7, <1>8, <1>9 DEF CallOrder, Clear

LEMMA WriteRecordOrder ==
    ASSUME OrderInv, WriteRecord
    PROVE  JournalOrder' /\ CallOrder'
  <1>1. /\ batch \in Batches /\ batch \in Slots /\ Readable(batch)
        /\ batch.seq = target.seq
    BY DEF WriteRecord, OrderInv, CallOrder, TypeInv, InCall, Slots, Batches,
       Readable
  <1>2. /\ JournalFound' /\ JournalOrder'
        /\ LiveIndex' = target.index /\ Live' = batch
    BY <1>1, WrittenIsElected DEF WriteRecord
  <1>3. target' = ElectedTarget'
    BY <1>1, <1>2 DEF ElectedTarget, WriteRecord
  <1>4. pc' \in {"recover", "pass"} /\ batch' = batch /\ fresh' = FALSE
    BY DEF WriteRecord
  <1> QED
    BY <1>2, <1>3, <1>4 DEF CallOrder

\* The last record of a call says that nothing is in flight.
LEMMA FinishOrder ==
    ASSUME OrderInv, Finish
    PROVE  JournalOrder' /\ JournalFound' /\ Live' = Clear(target.seq)
  <1>1. pc = "pass" /\ target.seq \in SeqNumber
    BY TargetIsOther DEF Finish, Planned
  <1>2. Clear(target.seq) \in Slots /\ Readable(Clear(target.seq))
    BY <1>1 DEF Clear, Slots, Readable
  <1>3. Clear(target.seq).seq = target.seq
    BY DEF Clear
  <1> QED
    BY <1>1, <1>2, <1>3, WrittenIsElected DEF Finish

\* The end of a call, by its last record, by an error or by a reset.
LEMMA EndOrder ==
    ASSUME OrderInv, Finish \/ Interrupt \/ InterruptInWrite
    PROVE  /\ JournalOrder' /\ CallOrder'
           /\ Outstanding' => Outstanding /\ Live' = Live
  <1>1. CallOrder'
    BY DEF Finish, Interrupt, InterruptInWrite, Forget, CallOrder
  <1>2. CASE Finish
    BY <1>1, <1>2, FinishOrder DEF Outstanding, Clear
  <1>3. CASE Interrupt
    BY <1>1, <1>3, JournalStill DEF Interrupt, disk, OrderInv
  <1>4. CASE InterruptInWrite
    <2>1. PICK i \in SlotIndex : Writing(i) /\ TearSlot(i)
      BY <1>4 DEF InterruptInWrite
    <2>2. CASE pc = "bootstrap"
      <3>1. i = 0 /\ slots[1] = Torn /\ jlen \in {0, 1}
        BY <2>1, <2>2, BootstrapSlots DEF Writing, Planned
      <3>2. slots'[0] = Torn /\ slots'[1] = Torn /\ jlen' \in {0, 1}
        BY <2>1, <3>1 DEF TearSlot, Lengthen, OrderInv, TypeInv, TypeOK, SlotIndex
      <3>3. SlotRead(0)' = Torn /\ SlotRead(1)' = Torn
        BY <3>2 DEF SlotRead
      <3>4. LiveSlots' = {}
        BY <3>3 DEF LiveSlots, SlotIndex, Readable, Torn
      <3> QED
        BY <1>1, <3>2, <3>4 DEF JournalOrder, SlotIndex, Torn, JournalFound,
           Outstanding
    <2>3. CASE pc # "bootstrap"
      <3>1. i = target.index /\ pc \notin {"idle", "bootstrap"}
        BY <2>1, <2>3 DEF Writing, Planned
      <3> QED
        BY <1>1, <2>1, <3>1, TornLeavesLive, TargetIsOther DEF Outstanding
    <2> QED
      BY <2>2, <2>3
  <1> QED
    BY <1>2, <1>3, <1>4

LEMMA LaterBuildOrder ==
    ASSUME OrderInv, LaterBuild
    PROVE  JournalOrder' /\ CallOrder'
  <1>1. PICK i \in SlotIndex : i = OtherSlot(LiveIndex)
    BY LiveIsReadable, OtherSlotType DEF LaterBuild, OrderInv, TypeInv
  <1>2. slots' = [slots EXCEPT ![i] = Unsupported] /\ jlen = 2 /\ jlen' = 2
    BY <1>1 DEF LaterBuild
  <1>3. SlotRead(i)' = Unsupported
    BY <1>2 DEF SlotRead, SlotIndex, OrderInv, TypeInv, TypeOK
  <1>4. ~SlotsUsable' /\ LiveSlots' # SlotIndex
    BY <1>3 DEF SlotsUsable, LiveSlots, Readable, Unsupported
  <1>5. JournalOrder'
    BY <1>2, <1>4 DEF JournalOrder, SlotIndex
  <1>6. CallOrder'
    BY DEF LaterBuild, volatile, CallOrder
  <1> QED
    BY <1>5, <1>6

\* The steps that write no slot: a call begins, reads, unlinks or frees.
LEMMA ReadingOrder ==
    ASSUME OrderInv,
           \/ \E a \in Aliases : ReclaimFirstEntry(a) \/ ReclaimEntry(a)
           \/ Walk \/ Recover \/ Unlink \/ StartFreeing \/ FreeCluster
           \/ StartNextBatch
    PROVE  JournalOrder' /\ CallOrder'
  <1> USE DEF OrderInv
  <1>1. UNCHANGED <<slots, jlen>>
    BY DEF ReclaimFirstEntry, ReclaimEntry, Begin, Walk, WalkFull, WalkOn,
       WalkEnd, Recover, Unlink, StartFreeing, FreeCluster, StartNextBatch, disk
  <1>2. /\ JournalOrder'
        /\ Live' = Live
        /\ JournalFound' = JournalFound /\ JournalAbsent' = JournalAbsent
        /\ Outstanding' = Outstanding
        /\ ElectedTarget' = ElectedTarget
    BY <1>1, JournalStill
  <1>3. ASSUME NEW a \in Aliases, ReclaimFirstEntry(a) \/ ReclaimEntry(a)
        PROVE  CallOrder'
    <2>1. CASE ReclaimFirstEntry(a)
      BY <1>2, <2>1 DEF ReclaimFirstEntry, Begin, EmptyBatch, CallOrder
    <2>2. CASE ReclaimEntry(a)
      BY <1>2, <2>2 DEF ReclaimEntry, Begin, EmptyBatch, CallOrder,
         AfterJournalAsked, ElectedTarget
    <2> QED
      BY <1>3, <2>1, <2>2
  <1>4. CASE Walk
    <2>1. pc = "walk" /\ pc' \in {"walk", "record"} /\ UNCHANGED <<fresh, target>>
      BY <1>4 DEF Walk, WalkFull, WalkOn, WalkEnd
    <2>2. batch'.seq = batch.seq
      BY <1>4, <2>1 DEF Walk, WalkFull, WalkOn, WalkEnd, Push, TypeInv, InCall,
         Batches
    <2> QED
      BY <1>2, <2>1, <2>2 DEF CallOrder
  <1>5. CASE Recover
    BY <1>2, <1>5 DEF Recover, CallOrder, Outstanding, ElectedTarget
  <1>6. CASE Unlink
    BY <1>2, <1>6 DEF Unlink, Planned, volatile, CallOrder
  <1>7. CASE StartFreeing
    <2>1. pc = "pass" /\ batch \in Batches /\ batch.clusters # <<>>
      BY <1>7 DEF StartFreeing, Planned, Plan, TypeInv, InCall
    <2>2. 1 \in 1 .. Len(batch.clusters)
      BY <2>1 DEF Batches
    <2> QED
      BY <1>2, <1>7, <2>1, <2>2 DEF StartFreeing, CallOrder
  <1>8. CASE FreeCluster
    <2>1. pc = "free" /\ cursor \in 1 .. Len(batch.clusters) /\ batch \in Batches
      BY <1>8 DEF FreeCluster, CallOrder, TypeInv, InCall
    <2>2. Len(batch.clusters) \in Nat
      BY <2>1 DEF Batches
    <2>3. /\ UNCHANGED <<batch, fresh, target>>
          /\ pc' \in {"free", "pass"}
          /\ pc' = "free" => cursor' = cursor + 1 /\ cursor # Len(batch.clusters)
      BY <1>8, <2>1 DEF FreeCluster
    <2>4. pc' = "free" => cursor' \in 1 .. Len(batch.clusters)
      BY <2>1, <2>2, <2>3
    <2> QED
      BY <1>2, <2>1, <2>3, <2>4 DEF CallOrder
  <1>9. CASE StartNextBatch
    <2>1. pc = "pass" /\ batch \in Batches /\ Live = batch /\ ~fresh
      BY <1>9 DEF StartNextBatch, Planned, CallOrder, TypeInv, InCall
    <2> QED
      BY <1>2, <1>9, <2>1 DEF StartNextBatch, EmptyBatch, CallOrder, Batches
  <1> QED
    BY <1>2, <1>3, <1>4, <1>5, <1>6, <1>7, <1>8, <1>9

LEMMA OrderInit == Init => OrderInv
  <1> SUFFICES ASSUME Init PROVE JournalOrder /\ CallOrder
    BY TypeInit DEF OrderInv
  <1>1. LiveSlots = {}
    BY DEF Init, LiveSlots, SlotRead, SlotIndex, Readable, Torn
  <1> QED
    BY <1>1 DEF Init, JournalOrder, CallOrder, SlotIndex, Torn

LEMMA OrderStep == OrderInv /\ [Next \/ LaterBuild]_vars => OrderInv'
  <1> SUFFICES ASSUME OrderInv, [Next \/ LaterBuild]_vars
               PROVE  JournalOrder' /\ CallOrder'
    BY TypeStep, LaterBuildType DEF OrderInv
  <1>1. ASSUME NEW a \in Aliases, NEW s \in Chains, CreateFile(a, s)
        PROVE  JournalOrder' /\ CallOrder'
    BY <1>1, JournalStill DEF CreateFile, OrderInv, CallOrder
  <1>2. ASSUME NEW n \in StateFiles, NEW c \in Clusters, CreateStateFile(n, c)
        PROVE  JournalOrder' /\ CallOrder'
    BY <1>2, JournalStill DEF CreateStateFile, OrderInv, CallOrder
  <1>3. CASE UNCHANGED vars
    BY <1>3, JournalStill DEF vars, disk, volatile, OrderInv, CallOrder
  <1> QED
    BY <1>1, <1>2, <1>3, WriteBootstrapOrder, WriteRecordOrder, EndOrder,
       LaterBuildOrder, ReadingOrder DEF Next, Call, Pass

\* Clusters are freed on the word of the durable record alone: from its write
\* until the call ends, the batch in memory is the record a reset at that point
\* would elect, also where the sequence number has just wrapped and also where
\* a write that was cut has torn the slot beside it.
THEOREM RecordIsAlwaysFound == DowngradeSpec => []RecordIsFound
  <1>1. OrderInv => RecordIsFound
    <2> SUFFICES ASSUME OrderInv, pc \in {"recover", "pass", "free"}
                 PROVE  Outstanding /\ Live = batch
      BY DEF RecordIsFound
    <2>1. JournalFound /\ Live = batch /\ batch \in Batches
      BY DEF OrderInv, CallOrder, TypeInv, InCall
    <2> QED
      BY <2>1 DEF Outstanding, Batches
  <1> QED
    BY <1>1, OrderInit, OrderStep, PTL DEF DowngradeSpec

-----------------------------------------------------------------------------
(***************************************************************************)
(* The journal's own clusters.  A batch names clusters to free, so nothing *)
(* a batch can come to name, an entry, a FAT pointer or the cluster a walk *)
(* stands on, may lie in the journal's chain.  While the journal can still *)
(* grow, none of those may be a free cluster either: the journal could be  *)
(* given it.                                                               *)
(***************************************************************************)
Outside(c) ==
    /\ ~Holds(jchain, c)
    /\ Len(jchain) < 2 /\ c \in Clusters => fat[c] # Free

OutsideBatch(b) ==
    /\ \A i \in DOMAIN b.clusters : Outside(b.clusters[i])
    /\ Outside(b.continuation)

ChainKept ==
    /\ IsInjective(jchain)
    /\ Linked(jchain)

NoneInside ==
    /\ \A c \in Clusters : ~Holds(jchain, c) => Outside(fat[c])
    /\ \A n \in Names : Outside(dir[n])
    /\ Outstanding => OutsideBatch(Live)
    /\ pc # "idle" => OutsideBatch(batch)
    /\ pc \in {"bootstrap", "walk"} => Outside(at)

JournalInv == OrderInv /\ ChainKept /\ NoneInside

LEMMA Markers == Free \notin Clusters /\ End \notin Clusters
                 /\ NoCluster \notin Clusters /\ NoEntry \notin Clusters
  BY ClusterAssumption

\* Only a cluster is held by a chain.
LEMMA HoldsClusters ==
    ASSUME NEW s \in Seq(Clusters), NEW c, Holds(s, c)
    PROVE  c \in Clusters
  BY DEF Holds

\* What is linked is allocated.
LEMMA LinkedIsTaken ==
    ASSUME NEW s \in Seq(Clusters), Linked(s), NEW c, Holds(s, c)
    PROVE  c \in Clusters /\ fat[c] # Free
  <1>1. PICK i \in DOMAIN s : s[i] = c
    BY DEF Holds
  <1>2. fat[c] = LinkAt(s, i) /\ LinkAt(s, i) \in Clusters \cup {End}
    BY <1>1, LinkAtType DEF Linked
  <1>3. Free # End
    BY DEF Free, End
  <1> QED
    BY <1>1, <1>2, <1>3, Markers

\* A record in flight means both slots have been reached, so the journal does
\* not grow any more.
LEMMA FullWhenOutstanding ==
    ASSUME OrderInv,
           \/ Outstanding
           \/ pc \in {"recover", "pass", "free"}
           \/ pc \in {"walk", "record"} /\ ~fresh
    PROVE  jlen = 2 /\ Len(jchain) = 2
  <1>1. JournalFound /\ Live.kind = "work"
    <2>1. CASE Outstanding
      BY <2>1 DEF Outstanding
    <2>2. CASE pc \in {"recover", "pass", "free"}
      BY <2>2 DEF OrderInv, CallOrder, TypeInv, InCall, Batches
    <2>3. CASE pc \in {"walk", "record"} /\ ~fresh
      BY <2>3 DEF OrderInv, CallOrder
    <2> QED
      BY <2>1, <2>2, <2>3
  <1>2. LiveIndex \in SlotIndex /\ slots[LiveIndex].kind = "work"
    BY <1>1, LiveIsReadable DEF OrderInv, TypeInv
  <1>3. jlen = 2
    BY <1>2 DEF OrderInv, JournalOrder
  <1> QED
    BY <1>3 DEF OrderInv, TypeInv, TypeOK

\* A slot's write takes the journal at most one cluster, a free one.
LEMMA GrowKeeps ==
    ASSUME JournalInv, NEW i \in SlotIndex, Grow(i)
    PROVE  /\ ChainKept'
           /\ \A c \in Clusters : Holds(jchain', c) \/ fat'[c] = fat[c]
           /\ \A c \in Clusters : fat[c] # Free => fat'[c] # Free
           /\ \A c : Holds(jchain, c) => Holds(jchain', c)
           /\ \A c : Holds(jchain', c) => Holds(jchain, c) \/ fat[c] = Free
           /\ \A c : Outside(c) => Outside(c)'
  <1>1. CASE i < Len(jchain)
    BY <1>1 DEF Grow, JournalInv, ChainKept, Linked, Outside
  <1>2. CASE ~(i < Len(jchain))
    <2>0. /\ jchain \in Seq(Clusters) /\ fat \in [Clusters -> Clusters \cup {Free, End}]
          /\ Len(jchain) \in Nat
      BY DEF JournalInv, OrderInv, TypeInv, TypeOK
    <2>1. Len(jchain) < 2
      BY <1>2, <2>0 DEF SlotIndex
    <2>2. PICK x \in Clusters : Extend(x)
      BY <1>2 DEF Grow
    <2>3. /\ fat[x] = Free /\ jchain' = Append(jchain, x)
          /\ ~Holds(jchain, x)
      BY <2>0, <2>2, LinkedIsTaken DEF Extend, JournalInv, ChainKept
    <2>4. /\ Len(jchain') = Len(jchain) + 1
          /\ DOMAIN jchain = 1 .. Len(jchain)
          /\ DOMAIN jchain' = 1 .. Len(jchain) + 1
          /\ \A k \in 1 .. Len(jchain) : jchain'[k] = jchain[k]
          /\ jchain'[Len(jchain) + 1] = x
      BY <2>0, <2>3
    <2>5. \A c : Holds(jchain', c) <=> Holds(jchain, c) \/ c = x
      BY <2>0, <2>4 DEF Holds
    <2>6. \A c \in Clusters :
            fat'[c] = IF c = x THEN End
                      ELSE IF jchain # <<>> /\ c = jchain[Len(jchain)] THEN x
                      ELSE fat[c]
      BY <2>2 DEF Extend
    <2>7. IsInjective(jchain')
      BY <2>0, <2>3, <2>4 DEF IsInjective, Holds, JournalInv, ChainKept
    <2>8. Linked(jchain)'
      <3>1. SUFFICES ASSUME NEW k \in DOMAIN jchain'
                     PROVE  fat'[jchain'[k]] = LinkAt(jchain', k)
        BY DEF Linked
      <3>2. CASE k = Len(jchain) + 1
        BY <2>4, <2>6, <3>2 DEF LinkAt
      <3>3. CASE k = Len(jchain)
        <4>1. jchain'[k] = jchain[k] /\ k \in DOMAIN jchain /\ jchain # <<>>
          BY <2>0, <2>4, <3>1, <3>3
        <4>2. jchain[k] \in Clusters /\ jchain[k] # x
          BY <2>0, <2>3, <4>1 DEF Holds
        <4>3. fat'[jchain'[k]] = x
          BY <2>6, <3>3, <4>1, <4>2
        <4>4. jchain'[k + 1] = x
          BY <2>4, <3>3
        <4>5. Len(jchain) # Len(jchain) + 1
          BY <2>0
        <4>6. k # Len(jchain')
          BY <2>4, <3>3, <4>5
        <4> QED
          BY <4>3, <4>4, <4>6 DEF LinkAt
      <3>4. CASE k \in 1 .. Len(jchain) - 1
        <4>1. /\ k \in DOMAIN jchain /\ k + 1 \in DOMAIN jchain
              /\ Len(jchain) \in DOMAIN jchain /\ k # Len(jchain)
          BY <2>0, <2>4, <3>4
        <4>2. jchain[k] \in Clusters /\ jchain[k] # x /\ jchain[k] # jchain[Len(jchain)]
          BY <2>0, <2>3, <4>1 DEF Holds, IsInjective, JournalInv, ChainKept
        <4>3. fat'[jchain'[k]] = fat[jchain[k]]
          BY <2>4, <2>6, <3>4, <4>2
        <4>4. fat[jchain[k]] = jchain[k + 1]
          BY <4>1 DEF Linked, LinkAt, JournalInv, ChainKept
        <4> QED
          BY <2>0, <2>4, <3>4, <4>1, <4>3, <4>4 DEF LinkAt
      <3> QED
        BY <2>0, <2>4, <3>1, <3>2, <3>3, <3>4
    <2>9. \A c \in Clusters : Holds(jchain', c) \/ fat'[c] = fat[c]
      <3>1. jchain # <<>> => Holds(jchain, jchain[Len(jchain)])
        BY <2>0 DEF Holds
      <3> QED
        BY <2>5, <2>6, <3>1
    <2>10. \A c \in Clusters : fat[c] # Free => fat'[c] # Free
      BY <2>6, Markers DEF Free, End
    <2>11. \A c : Outside(c) => Outside(c)'
      BY <2>1, <2>3, <2>5, <2>10 DEF Outside
    <2> QED
      BY <2>3, <2>5, <2>7, <2>8, <2>9, <2>10, <2>11 DEF ChainKept
  <1> QED
    BY <1>1, <1>2

\* The write of a slot, whole or torn, keeps the journal apart from all that
\* may be freed: it can only come to take a cluster nothing points at.
LEMMA WriteKeepsApart ==
    ASSUME JournalInv, NEW i \in SlotIndex, Grow(i), dir' = dir,
           pc' # "idle" => pc # "idle" /\ batch' = batch,
           pc' \in {"bootstrap", "walk"} => pc \in {"bootstrap", "walk"} /\ at' = at,
           Outstanding' => \/ Outstanding /\ Live' = Live
                           \/ pc # "idle" /\ Live' = batch
    PROVE  ChainKept' /\ NoneInside'
  <1>1. /\ ChainKept'
        /\ \A c \in Clusters : Holds(jchain', c) \/ fat'[c] = fat[c]
        /\ \A c : Holds(jchain, c) => Holds(jchain', c)
        /\ \A c : Outside(c) => Outside(c)'
    BY GrowKeeps
  <1>2. \A c \in Clusters : ~Holds(jchain', c) => Outside(fat[c])'
    BY <1>1 DEF JournalInv, NoneInside
  <1>3. \A n \in Names : Outside(dir[n])'
    BY <1>1 DEF JournalInv, NoneInside
  <1>4. \A b : OutsideBatch(b) => OutsideBatch(b)'
    BY <1>1 DEF OutsideBatch
  <1>5. pc' \in {"bootstrap", "walk"} => Outside(at)'
    BY <1>1 DEF JournalInv, NoneInside
  <1>6. (pc # "idle" => OutsideBatch(batch)) /\ (Outstanding => OutsideBatch(Live))
    BY DEF JournalInv, NoneInside
  <1>7. pc' # "idle" => OutsideBatch(batch)'
    BY <1>4, <1>6
  <1>8. Outstanding' => OutsideBatch(Live)'
    BY <1>4, <1>6
  <1> QED
    BY <1>1, <1>2, <1>3, <1>5, <1>7, <1>8 DEF NoneInside

\* Each write of a slot, and each way a call ends, is such a write.
LEMMA WritesKeepApart ==
    ASSUME JournalInv, OrderInv',
           WriteBootstrap \/ WriteRecord \/ Finish \/ Interrupt \/ InterruptInWrite
    PROVE  ChainKept' /\ NoneInside'
  <1>0. OrderInv
    BY DEF JournalInv
  <1>1. CASE WriteBootstrap
    <2>1. pc = "bootstrap" /\ pc' \in {"walk", "record"} /\ UNCHANGED <<batch, at, fresh>>
      BY <1>1 DEF WriteBootstrap, AfterJournalAsked, volatile
    <2>2. ~Outstanding'
      BY <2>1, <1>0 DEF OrderInv, CallOrder, Outstanding
    <2>3. Grow(0) /\ dir' = dir /\ 0 \in SlotIndex
      BY <1>1 DEF WriteBootstrap, WriteSlot, SlotIndex
    <2> QED
      BY <2>1, <2>2, <2>3, WriteKeepsApart
  <1>2. CASE WriteRecord
    <2>1. pc = "record" /\ pc' \in {"recover", "pass"} /\ batch' = batch
      BY <1>2 DEF WriteRecord
    <2>2. Live' = batch
      BY <2>1 DEF OrderInv, CallOrder
    <2>3. Grow(target.index) /\ dir' = dir /\ target.index \in SlotIndex
      BY <1>0, <1>2, <2>1, TargetIsOther DEF WriteRecord, WriteSlot
    <2> QED
      BY <2>1, <2>2, <2>3, WriteKeepsApart
  <1>3. CASE Finish
    <2>1. pc' = "idle" /\ (Outstanding' => Outstanding /\ Live' = Live)
      BY <1>0, <1>3, EndOrder DEF Finish, Forget
    <2>2. Grow(target.index) /\ dir' = dir /\ target.index \in SlotIndex
      BY <1>0, <1>3, TargetIsOther DEF Finish, WriteSlot, Planned
    <2> QED
      BY <2>1, <2>2, WriteKeepsApart
  <1>4. CASE Interrupt
    <2>1. UNCHANGED disk /\ pc' = "idle"
      BY <1>4 DEF Interrupt, Forget
    <2>2. Outstanding' = Outstanding /\ Live' = Live
      BY <2>1, JournalStill DEF disk
    <2> QED
      BY <2>1, <2>2 DEF disk, JournalInv, ChainKept, NoneInside, Linked, Outside,
         OutsideBatch
  <1>5. CASE InterruptInWrite
    <2>1. pc' = "idle" /\ (Outstanding' => Outstanding /\ Live' = Live)
      BY <1>0, <1>5, EndOrder DEF InterruptInWrite, Forget
    <2>2. PICK i \in SlotIndex : TearSlot(i)
      BY <1>5 DEF InterruptInWrite
    <2>3. Grow(i) /\ dir' = dir
      BY <2>2 DEF TearSlot
    <2> QED
      BY <2>1, <2>3, WriteKeepsApart
  <1> QED
    BY <1>1, <1>2, <1>3, <1>4, <1>5

\* No marker of the FAT or of the directory is a cluster, so each is outside.
LEMMA MarkersOutside ==
    ASSUME TypeOK, NEW c, c \notin Clusters
    PROVE  Outside(c)
  BY DEF Outside, Holds, TypeOK

\* A file comes: clusters that were free are linked to each other, and an
\* entry points at the first.
LEMMA Created ==
    ASSUME TypeOK,
           \/ \E a \in Aliases, s \in Chains : CreateFile(a, s)
           \/ \E n \in StateFiles, c \in Clusters : CreateStateFile(n, c)
    PROVE  \E n \in Names, s \in Seq(Clusters) :
             /\ dir[n] = NoEntry
             /\ IsInjective(s)
             /\ \A i \in DOMAIN s : fat[s[i]] = Free
             /\ dir' = [dir EXCEPT ![n] = First(s)]
             /\ chain' = [chain EXCEPT ![n] = s]
             /\ \A i \in DOMAIN s : fat'[s[i]] = LinkAt(s, i)
             /\ \A c \in Clusters : ~Holds(s, c) => fat'[c] = fat[c]
  <1>1. ASSUME NEW a \in Aliases, NEW s \in Chains, CreateFile(a, s)
        PROVE  /\ a \in Names /\ s \in Seq(Clusters)
               /\ dir[a] = NoEntry
               /\ IsInjective(s)
               /\ \A i \in DOMAIN s : fat[s[i]] = Free
               /\ dir' = [dir EXCEPT ![a] = First(s)]
               /\ chain' = [chain EXCEPT ![a] = s]
               /\ \A i \in DOMAIN s : fat'[s[i]] = LinkAt(s, i)
               /\ \A c \in Clusters : ~Holds(s, c) => fat'[c] = fat[c]
    <2>1. a \in Names /\ s \in Seq(Clusters) /\ IsInjective(s)
      BY <1>1, ChainsAreSequences DEF CreateFile, Names
    <2>2. \A c \in Clusters :
            fat'[c] = IF \E i \in DOMAIN s : s[i] = c
                      THEN LinkAt(s, CHOOSE i \in DOMAIN s : s[i] = c)
                      ELSE fat[c]
      BY <1>1 DEF CreateFile
    <2>3. \A i \in DOMAIN s : (CHOOSE j \in DOMAIN s : s[j] = s[i]) = i
      BY <2>1 DEF IsInjective
    <2>4. \A i \in DOMAIN s : s[i] \in Clusters
      BY <2>1
    <2>5. \A i \in DOMAIN s : fat'[s[i]] = LinkAt(s, i)
      BY <2>2, <2>3, <2>4
    <2> QED
      BY <1>1, <2>1, <2>2, <2>5 DEF CreateFile, Holds
  <1>2. ASSUME NEW n \in StateFiles, NEW x \in Clusters, NEW s, s = <<x>>,
               CreateStateFile(n, x)
        PROVE  /\ n \in Names /\ s \in Seq(Clusters)
               /\ dir[n] = NoEntry
               /\ IsInjective(s)
               /\ \A i \in DOMAIN s : fat[s[i]] = Free
               /\ dir' = [dir EXCEPT ![n] = First(s)]
               /\ chain' = [chain EXCEPT ![n] = s]
               /\ \A i \in DOMAIN s : fat'[s[i]] = LinkAt(s, i)
               /\ \A c \in Clusters : ~Holds(s, c) => fat'[c] = fat[c]
    <2>1. /\ s \in Seq(Clusters) /\ n \in Names /\ First(s) = x
          /\ DOMAIN s = {1} /\ s[1] = x /\ LinkAt(s, 1) = End
      BY <1>2 DEF Names, First, LinkAt
    <2>2. \A c \in Clusters : fat'[c] = IF c = x THEN End ELSE fat[c]
      BY <1>2 DEF CreateStateFile, TypeOK
    <2>3. /\ fat[x] = Free /\ dir[n] = NoEntry
          /\ dir' = [dir EXCEPT ![n] = x] /\ chain' = [chain EXCEPT ![n] = s]
      BY <1>2 DEF CreateStateFile
    <2> QED
      BY <2>1, <2>2, <2>3 DEF Holds, IsInjective
  <1>3. CASE \E a \in Aliases, s \in Chains : CreateFile(a, s)
    <2>1. PICK a \in Aliases, s \in Chains : CreateFile(a, s)
      BY <1>3
    <2> QED
      BY <2>1, <1>1
  <1>4. CASE \E n \in StateFiles, c \in Clusters : CreateStateFile(n, c)
    <2>1. PICK n \in StateFiles, c \in Clusters : CreateStateFile(n, c)
      BY <1>4
    <2>2. \E s : s = <<c>>
      OBVIOUS
    <2> QED
      BY <2>1, <2>2, <1>2
  <1> QED
    BY <1>3, <1>4

LEMMA CreateKeepsApart ==
    ASSUME JournalInv,
           \/ \E a \in Aliases, s \in Chains : CreateFile(a, s)
           \/ \E n \in StateFiles, c \in Clusters : CreateStateFile(n, c)
    PROVE  ChainKept' /\ NoneInside'
  <1>1. PICK n \in Names, s \in Seq(Clusters) :
          /\ \A i \in DOMAIN s : fat[s[i]] = Free
          /\ dir' = [dir EXCEPT ![n] = First(s)]
          /\ \A i \in DOMAIN s : fat'[s[i]] = LinkAt(s, i)
          /\ \A c \in Clusters : ~Holds(s, c) => fat'[c] = fat[c]
    BY Created DEF JournalInv, OrderInv, TypeInv
  <1>2. /\ UNCHANGED <<slots, jlen, jchain, pc, batch, at>>
        /\ dir \in [Names -> Clusters \cup {NoCluster, NoEntry}]
        /\ jchain \in Seq(Clusters)
        /\ TypeOK
    BY DEF CreateFile, CreateStateFile, volatile, JournalInv, OrderInv, TypeInv,
       TypeOK
  <1>3. Outstanding' = Outstanding /\ Live' = Live
    BY <1>2, JournalStill
  <1>4. \A i \in DOMAIN s : LinkAt(s, i) \in Clusters \cup {End}
    BY <1>1, LinkAtType
  <1>5. \A c \in Clusters : fat[c] # Free => fat'[c] # Free
    BY <1>1, <1>4, Markers DEF Holds, Free, End
  <1>6. \A c : Outside(c) => Outside(c)'
    BY <1>2, <1>5 DEF Outside
  <1>7. \A c : Holds(s, c) => ~Holds(jchain, c) /\ c \in Clusters /\ fat'[c] # Free
    <2>1. \A c : Holds(s, c) => c \in Clusters /\ fat[c] = Free
      BY <1>1 DEF Holds
    <2>2. \A c : Holds(jchain, c) => fat[c] # Free
      BY <1>2, LinkedIsTaken DEF JournalInv, ChainKept
    <2>3. \A c \in Clusters : Holds(s, c) => fat'[c] # Free
      BY <1>1, <1>4, Markers DEF Holds, Free, End
    <2> QED
      BY <2>1, <2>2, <2>3
  <1>8. \A c : Holds(s, c) => Outside(c)'
    BY <1>2, <1>7 DEF Outside
  <1>9. \A i \in DOMAIN s : Outside(LinkAt(s, i))'
    <2>1. SUFFICES ASSUME NEW i \in DOMAIN s PROVE Outside(LinkAt(s, i))'
      OBVIOUS
    <2>2. CASE i = Len(s)
      BY <1>2, <2>2, Markers DEF LinkAt, Outside, Holds
    <2>3. CASE i # Len(s)
      <3>1. i + 1 \in DOMAIN s
        BY <1>1, <2>3
      <3> QED
        BY <1>8, <2>3, <3>1 DEF LinkAt, Holds
    <2> QED
      BY <2>2, <2>3
  <1>10. Outside(First(s))'
    <2>1. CASE s = <<>>
      BY <1>2, <2>1, Markers DEF First, Outside, Holds
    <2>2. CASE s # <<>>
      <3>1. 1 \in DOMAIN s
        BY <1>1, <2>2
      <3> QED
        BY <1>8, <2>2, <3>1 DEF First, Holds
    <2> QED
      BY <2>1, <2>2
  <1>11. \A n2 \in Names : Outside(dir[n2])'
    <2>1. SUFFICES ASSUME NEW m \in Names PROVE Outside(dir[m])'
      OBVIOUS
    <2>2. dir'[m] = dir[m] \/ dir'[m] = First(s)
      BY <1>1, <1>2
    <2> QED
      BY <1>6, <1>10, <2>2 DEF JournalInv, NoneInside, Outside
  <1>12. ChainKept'
    <2>1. \A i \in DOMAIN jchain : jchain[i] \in Clusters /\ fat'[jchain[i]] = fat[jchain[i]]
      BY <1>1, <1>2, <1>7 DEF Holds
    <2> QED
      BY <1>2, <2>1 DEF ChainKept, Linked, JournalInv
  <1>13. \A c \in Clusters : ~Holds(jchain', c) => Outside(fat[c])'
    <2>1. SUFFICES ASSUME NEW c \in Clusters, ~Holds(jchain, c)
                   PROVE  Outside(fat[c])'
      BY <1>2
    <2>2. CASE fat'[c] = fat[c]
      BY <1>6, <2>1, <2>2 DEF JournalInv, NoneInside, Outside
    <2>3. CASE Holds(s, c)
      BY <1>1, <1>9, <2>3 DEF Holds, Outside
    <2> QED
      BY <1>1, <2>2, <2>3
  <1>14. \A b : OutsideBatch(b) => OutsideBatch(b)'
    BY <1>6 DEF OutsideBatch
  <1>15. /\ Outstanding' => OutsideBatch(Live)'
         /\ pc' # "idle" => OutsideBatch(batch)'
         /\ pc' \in {"bootstrap", "walk"} => Outside(at)'
    <2>1. /\ Outstanding' => OutsideBatch(Live)
          /\ pc' # "idle" => OutsideBatch(batch)
          /\ pc' \in {"bootstrap", "walk"} => Outside(at)
      BY <1>2, <1>3 DEF JournalInv, NoneInside
    <2> QED
      BY <1>2, <1>3, <1>6, <1>14, <2>1
  <1> QED
    BY <1>11, <1>12, <1>13, <1>15 DEF NoneInside

\* A free: of a cluster the batch names, so of none the journal lives in.
LEMMA FreeKeepsApart ==
    ASSUME JournalInv, FreeCluster
    PROVE  ChainKept' /\ NoneInside'
  <1>1. /\ pc = "free" /\ batch \in Batches
        /\ cursor \in DOMAIN batch.clusters
    BY DEF FreeCluster, JournalInv, OrderInv, CallOrder, TypeInv, InCall, Batches
  <1>2. PICK x \in Clusters : x = batch.clusters[cursor] /\ ~Holds(jchain, x)
    <2>1. batch.clusters[cursor] \in Clusters
      BY <1>1 DEF Batches
    <2>2. Outside(batch.clusters[cursor])
      BY <1>1 DEF JournalInv, NoneInside, OutsideBatch
    <2> QED
      BY <2>1, <2>2 DEF Outside
  <1>3. /\ fat' = [fat EXCEPT ![x] = Free]
        /\ UNCHANGED <<dir, slots, jlen, jchain, batch>>
        /\ pc' \in {"free", "pass"}
        /\ TypeOK
    BY <1>1, <1>2 DEF FreeCluster, JournalInv, OrderInv, TypeInv
  <1>4. Len(jchain) = 2
    BY <1>1, FullWhenOutstanding DEF JournalInv
  <1>5. \A c : Outside(c)' <=> ~Holds(jchain, c)
    BY <1>3, <1>4 DEF Outside
  <1>6. ChainKept'
    <2>1. \A i \in DOMAIN jchain : jchain[i] # x
      BY <1>2 DEF Holds
    <2>2. \A i \in DOMAIN jchain : fat'[jchain[i]] = fat[jchain[i]]
      BY <1>3, <2>1 DEF TypeOK
    <2> QED
      BY <1>3, <2>2 DEF ChainKept, Linked, JournalInv
  <1>7. \A c \in Clusters : ~Holds(jchain', c) => Outside(fat[c])'
    <2>1. \A c \in Clusters : fat'[c] = IF c = x THEN Free ELSE fat[c]
      BY <1>3 DEF TypeOK
    <2>2. ~Holds(jchain, Free)
      BY <1>3, Markers DEF TypeOK, Holds
    <2> QED
      BY <1>3, <1>4, <2>1, <2>2 DEF JournalInv, NoneInside, Outside
  <1>8. Outstanding' = Outstanding /\ Live' = Live
    BY <1>3, JournalStill
  <1>9. \A b : OutsideBatch(b) => OutsideBatch(b)'
    BY <1>5 DEF OutsideBatch, Outside
  <1>10. \A n \in Names : Outside(dir[n])'
    BY <1>3, <1>4 DEF JournalInv, NoneInside, Outside
  <1>11. /\ Outstanding' => OutsideBatch(Live)'
         /\ OutsideBatch(batch)'
    BY <1>1, <1>3, <1>8, <1>9 DEF JournalInv, NoneInside
  <1> QED
    BY <1>3, <1>6, <1>7, <1>10, <1>11 DEF NoneInside

\* The steps that leave FAT and journal alone take what they bring into memory
\* from the directory, from the FAT or from the record, all of them outside.
LEMMA ReadsStayApart ==
    ASSUME JournalInv,
           \/ \E a \in Aliases : ReclaimFirstEntry(a) \/ ReclaimEntry(a)
           \/ Walk \/ Recover \/ Unlink \/ StartFreeing \/ StartNextBatch
           \/ LaterBuild \/ UNCHANGED vars
    PROVE  ChainKept' /\ NoneInside'
  <1>0. TypeOK
    BY DEF JournalInv, OrderInv, TypeInv
  <1>1. UNCHANGED <<fat, jchain>>
    BY DEF ReclaimFirstEntry, ReclaimEntry, Begin, Walk, WalkFull, WalkOn,
       WalkEnd, Recover, Unlink, StartFreeing, StartNextBatch, LaterBuild, vars, disk
  <1>2. ChainKept'
    BY <1>1 DEF ChainKept, Linked, JournalInv
  <1>3. \A c : Outside(c)' <=> Outside(c)
    BY <1>1 DEF Outside
  <1>4. \A b : OutsideBatch(b)' <=> OutsideBatch(b)
    BY <1>3 DEF OutsideBatch
  <1>5. \A c \in Clusters : ~Holds(jchain', c) => Outside(fat[c])'
    BY <1>1 DEF JournalInv, NoneInside, Outside
  <1>6. Outside(NoCluster) /\ Outside(NoEntry)
    BY <1>0, Markers, MarkersOutside
  <1>7. Outstanding' => Outstanding /\ Live' = Live
    <2>1. CASE LaterBuild
      <3>1. PICK i \in SlotIndex : i = OtherSlot(LiveIndex)
        BY <2>1, LiveIsReadable, OtherSlotType DEF LaterBuild, JournalInv,
           OrderInv, TypeInv
      <3>2. SlotRead(i)' = Unsupported
        BY <1>0, <2>1, <3>1 DEF LaterBuild, SlotRead, SlotIndex, TypeOK
      <3>3. ~SlotsUsable'
        BY <3>2 DEF SlotsUsable, Unsupported
      <3> QED
        BY <3>3 DEF Outstanding, JournalFound
    <2>2. CASE ~LaterBuild
      <3>1. UNCHANGED <<slots, jlen>>
        BY <2>2 DEF ReclaimFirstEntry, ReclaimEntry, Begin, Walk, WalkFull,
           WalkOn, WalkEnd, Recover, Unlink, StartFreeing, StartNextBatch, vars, disk
      <3> QED
        BY <3>1, JournalStill
    <2> QED
      BY <2>1, <2>2
  <1>8. Outstanding' => OutsideBatch(Live)'
    BY <1>4, <1>7 DEF JournalInv, NoneInside
  <1>9. \A n \in Names : Outside(dir[n])'
    <2>1. CASE dir' = dir
      BY <1>1, <2>1 DEF JournalInv, NoneInside, Outside
    <2>2. CASE Unlink
      <3>1. \A n \in Names : dir'[n] = dir[n] \/ dir'[n] = NoEntry
        BY <1>0, <2>2 DEF Unlink, TypeOK
      <3> QED
        BY <1>1, <1>6, <3>1 DEF JournalInv, NoneInside, Outside
    <2> QED
      BY <2>1, <2>2 DEF ReclaimFirstEntry, ReclaimEntry, Begin, Walk, WalkFull,
         WalkOn, WalkEnd, Recover, StartFreeing, StartNextBatch, LaterBuild, vars, disk
  <1>10. SUFFICES /\ pc' # "idle" => OutsideBatch(batch')
                  /\ pc' \in {"bootstrap", "walk"} => Outside(at')
    <2>1. pc' # "idle" => OutsideBatch(batch)'
      BY <1>1, <1>10 DEF OutsideBatch, Outside
    <2>2. pc' \in {"bootstrap", "walk"} => Outside(at)'
      BY <1>1, <1>10 DEF Outside
    <2> QED
      BY <1>2, <1>5, <1>8, <1>9, <2>1, <2>2 DEF NoneInside
  <1>11. \A q, n, e : OutsideBatch(EmptyBatch(q, n, e))
    BY <1>6 DEF OutsideBatch, EmptyBatch
  <1>12. ASSUME NEW a \in Aliases, ReclaimFirstEntry(a) \/ ReclaimEntry(a)
         PROVE  OutsideBatch(batch') /\ Outside(at')
    <2>1. a \in Names
      BY DEF Names
    <2>2. Outside(at')
      BY <1>12, <2>1 DEF ReclaimFirstEntry, ReclaimEntry, Begin, JournalInv, NoneInside
    <2>3. \E q : batch' = EmptyBatch(q, a, dir[a])
      BY <1>12 DEF ReclaimFirstEntry, ReclaimEntry, Begin
    <2> QED
      BY <1>11, <2>2, <2>3
  <1>13. CASE Walk
    <2>1. /\ pc = "walk" /\ OutsideBatch(batch) /\ Outside(at)
          /\ batch \in Batches /\ at \in Clusters
      BY <1>13 DEF Walk, WalkFull, WalkOn, WalkEnd, JournalInv, NoneInside,
         OrderInv, TypeInv, InCall
    <2>2. OutsideBatch(Push(batch))
      <3>1. /\ Push(batch).clusters = Append(batch.clusters, at)
            /\ Push(batch).continuation = batch.continuation
            /\ batch.clusters \in Seq(Clusters)
        BY <2>1 DEF Push, Batches
      <3>2. \A i \in DOMAIN Append(batch.clusters, at) :
               \/ i \in DOMAIN batch.clusters
                    /\ Append(batch.clusters, at)[i] = batch.clusters[i]
               \/ Append(batch.clusters, at)[i] = at
        BY <2>1, <3>1
      <3> QED
        BY <2>1, <3>1, <3>2 DEF OutsideBatch
    <2>3. Outside(fat[at])
      BY <2>1 DEF JournalInv, NoneInside, Outside
    <2>4. CASE WalkFull
      <3>1. /\ batch'.clusters = batch.clusters
            /\ batch'.continuation = at
        BY <2>1, <2>4 DEF WalkFull, Batches
      <3> QED
        BY <2>1, <2>4, <3>1 DEF WalkFull, OutsideBatch
    <2>5. CASE WalkOn
      BY <2>2, <2>3, <2>5 DEF WalkOn
    <2>6. CASE WalkEnd
      BY <2>1, <2>2, <2>6 DEF WalkEnd
    <2> QED
      BY <1>13, <2>4, <2>5, <2>6 DEF Walk
  <1>14. CASE Recover
    BY <1>14 DEF Recover, JournalInv, NoneInside
  <1>15. CASE Unlink \/ StartFreeing
    BY <1>15 DEF Unlink, StartFreeing, Planned, volatile, JournalInv, NoneInside
  <1>16. CASE StartNextBatch
    <2>1. pc = "pass" /\ at' = batch.continuation
      BY <1>16 DEF StartNextBatch, Planned
    <2>2. Outside(at')
      BY <2>1 DEF JournalInv, NoneInside, OutsideBatch
    <2> QED
      BY <1>11, <1>16, <2>2 DEF StartNextBatch
  <1>17. CASE LaterBuild \/ UNCHANGED vars
    BY <1>17 DEF LaterBuild, vars, volatile, JournalInv, NoneInside
  <1> QED
    BY <1>12, <1>13, <1>14, <1>15, <1>16, <1>17

LEMMA JournalInit == Init => JournalInv
  <1> SUFFICES ASSUME Init PROVE ChainKept /\ NoneInside
    BY OrderInit DEF JournalInv
  <1>1. jchain = <<>> /\ ~JournalFound
    BY DEF Init, JournalFound
  <1>2. ChainKept
    BY <1>1 DEF ChainKept, IsInjective, Linked
  <1>3. TypeOK
    BY TypeInit DEF TypeInv
  <1>4. Outside(Free) /\ Outside(NoEntry)
    BY <1>3, Markers, MarkersOutside
  <1> QED
    BY <1>1, <1>2, <1>4 DEF Init, NoneInside, Outstanding

LEMMA JournalStep == JournalInv /\ [Next \/ LaterBuild]_vars => JournalInv'
  <1> SUFFICES ASSUME JournalInv, [Next \/ LaterBuild]_vars
               PROVE  ChainKept' /\ NoneInside'
    BY OrderStep DEF JournalInv
  <1>1. OrderInv'
    BY OrderStep DEF JournalInv
  <1> QED
    BY <1>1, WritesKeepApart, CreateKeepsApart, FreeKeepsApart, ReadsStayApart
       DEF Next, Call, Pass

\* No batch frees a cluster the journal itself lives in.  A replay of a batch
\* that had been freed already would, if the journal had been given one of its
\* clusters since; it cannot have been, because the journal reaches its second
\* slot before the first record that can be replayed.
THEOREM JournalStaysReadable == DowngradeSpec => []JournalIsReadable
  <1>1. JournalInv => JournalIsReadable
    BY DEF JournalInv, ChainKept, JournalIsReadable
  <1> QED
    BY <1>1, JournalInit, JournalStep, PTL DEF DowngradeSpec
=============================================================================
