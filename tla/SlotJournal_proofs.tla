------------------------ MODULE SlotJournal_proofs ------------------------
(***************************************************************************)
(* What a two-slot journal promises, for every modulus above three and     *)
(* whatever its entries are: the entry just published is the newest, and a *)
(* torn write leaves the newest entry standing.  Both rest on the order of *)
(* the two slots, which every write keeps.                                 *)
(***************************************************************************)
EXTENDS SlotJournal, TLAPS

\* Each slot is blank, damaged or an entry with a number of its own width.
Slotted(j) ==
    /\ j = [i \in SlotNumbers |-> j[i]]
    /\ \A i \in SlotNumbers :
         /\ j[i].kind \in {"blank", "damaged", "entry"}
         /\ j[i].kind = "entry" => j[i].seq \in SeqNumber

\* Two entries follow one another, in either slot; a journal that has been
\* written to has one.
Orderly(j) ==
    /\ Slotted(j)
    /\ j = NoJournal \/ Entries(j) # {}
    /\ Entries(j) = SlotNumbers =>
         \/ j[0].seq = NextSeq(j[1].seq)
         \/ j[1].seq = NextSeq(j[0].seq)

\* The number after n is a number, is newer than n, and n is not newer than it.
LEMMA NextIsNewer ==
    ASSUME NEW n \in SeqNumber
    PROVE  /\ NextSeq(n) \in SeqNumber
           /\ NextSeq(n) # n
           /\ IsNewer(NextSeq(n), n)
           /\ ~IsNewer(n, NextSeq(n))
<1>1. Modulus \in Int /\ Modulus > 3 /\ n \in Int /\ 0 <= n /\ n <= Modulus - 1
  BY ModulusAssumption DEF SeqNumber
<1>2. CASE n = Modulus - 1
  BY <1>1, <1>2 DEF NextSeq, IsNewer, Ahead, SeqNumber
<1>3. CASE n # Modulus - 1
  BY <1>1, <1>3 DEF NextSeq, IsNewer, Ahead, SeqNumber
<1> QED
  BY <1>2, <1>3

\* In an orderly journal one slot is the newest, and it is where NewestSlot says.
LEMMA NewestIsOne ==
    ASSUME NEW j, Orderly(j), Entries(j) # {}
    PROVE  /\ Newest(j) = {NewestSlot(j)}
           /\ NewestSlot(j) \in Entries(j)
           /\ HasEntry(j)
           /\ Entries(j) = SlotNumbers =>
                j[NewestSlot(j)].seq = NextSeq(j[1 - NewestSlot(j)].seq)
<1>1. Entries(j) \in {{0}, {1}, {0, 1}}
  BY DEF Entries, SlotNumbers
<1>2. CASE Entries(j) = {0}
  BY <1>2 DEF Newest, NewestSlot, HasEntry, SlotNumbers
<1>3. CASE Entries(j) = {1}
  BY <1>3 DEF Newest, NewestSlot, HasEntry, SlotNumbers
<1>4. CASE Entries(j) = {0, 1}
  <2>1. j[0].seq \in SeqNumber /\ j[1].seq \in SeqNumber
    BY <1>4 DEF Orderly, Slotted, Entries, SlotNumbers
  <2>2. \A i \in {0, 1} : {0, 1} \ {i} = {1 - i}
    OBVIOUS
  <2>3. CASE j[0].seq = NextSeq(j[1].seq)
    <3>1. IsNewer(j[0].seq, j[1].seq) /\ ~IsNewer(j[1].seq, j[0].seq)
      BY <2>1, <2>3, NextIsNewer
    <3>2. Newest(j) = {0}
      BY <1>4, <2>2, <3>1 DEF Newest
    <3> QED
      BY <1>4, <2>3, <3>2 DEF NewestSlot, HasEntry
  <2>4. CASE j[1].seq = NextSeq(j[0].seq)
    <3>1. IsNewer(j[1].seq, j[0].seq) /\ ~IsNewer(j[0].seq, j[1].seq)
      BY <2>1, <2>4, NextIsNewer
    <3>2. Newest(j) = {1}
      BY <1>4, <2>2, <3>1 DEF Newest
    <3> QED
      BY <1>4, <2>4, <3>2 DEF NewestSlot, HasEntry
  <2> QED
    BY <1>4, <2>3, <2>4 DEF Orderly, SlotNumbers
<1> QED
  BY <1>1, <1>2, <1>3, <1>4

\* An orderly journal is never refused.
THEOREM OrderlyReads ==
    ASSUME NEW j, Orderly(j)
    PROVE  ~Refuses(j)
<1>1. ~IsUnreadable(j)
  BY DEF IsUnreadable, Orderly, Slotted
<1>2. CASE j = NoJournal
  BY <1>2 DEF IsDamaged, NoJournal, Blank, Entries, SlotNumbers, Refuses, IsUnreadable
<1>3. CASE Entries(j) # {}
  <2>1. ASSUME Entries(j) = SlotNumbers PROVE j[0].seq # j[1].seq
    <3>1. j[0].seq \in SeqNumber /\ j[1].seq \in SeqNumber
      BY <2>1 DEF Orderly, Slotted, Entries, SlotNumbers
    <3> QED
      BY <2>1, <3>1, NextIsNewer DEF Orderly
  <2> QED
    BY <1>1, <1>3, <2>1 DEF Refuses, IsDamaged
<1> QED
  BY <1>2, <1>3 DEF Orderly

\* Where a write goes: never on the newest entry, with a number of its width.
LEMMA Target ==
    ASSUME NEW j, Orderly(j)
    PROVE  /\ TargetSlot(j) \in SlotNumbers
           /\ TargetSeq(j) \in SeqNumber
           /\ j = NoJournal => TargetSlot(j) = 0
           /\ j # NoJournal => /\ HasEntry(j)
                               /\ Entries(j) # {}
                               /\ TargetSlot(j) = 1 - NewestSlot(j)
                               /\ NewestSlot(j) = 1 - TargetSlot(j)
                               /\ NewestSlot(j) # TargetSlot(j)
                               /\ NewestSlot(j) \in Entries(j)
                               /\ TargetSeq(j) = NextSeq(j[NewestSlot(j)].seq)
<1>1. CASE j = NoJournal
  <2>1. ~HasEntry(j)
    BY <1>1 DEF HasEntry, Newest, Entries, NoJournal, Blank, SlotNumbers
  <2> QED
    BY <1>1, <2>1, ModulusAssumption DEF TargetSlot, TargetSeq, SlotNumbers, SeqNumber
<1>2. CASE j # NoJournal
  <2>1. Entries(j) # {}
    BY <1>2 DEF Orderly
  <2>2. NewestSlot(j) \in Entries(j) /\ HasEntry(j)
    BY <2>1, NewestIsOne
  <2>3. j[NewestSlot(j)].seq \in SeqNumber /\ NewestSlot(j) \in {0, 1}
    BY <2>2 DEF Entries, Orderly, Slotted, SlotNumbers
  <2> QED
    BY <1>2, <2>1, <2>2, <2>3, NextIsNewer DEF TargetSlot, TargetSeq, SlotNumbers
<1> QED
  BY <1>1, <1>2

\* Publishing: the journal stays orderly, and what was published is the newest
\* entry of it (publish_slot of ledger.rs).
THEOREM PublishStands ==
    ASSUME NEW j, Orderly(j), NEW e
    PROVE  /\ Orderly(Publish(j, e))
           /\ HasEntry(Publish(j, e))
           /\ NewestEntry(Publish(j, e)) = e
<1> DEFINE t == TargetSlot(j)
           p == Publish(j, e)
<1>1. t \in SlotNumbers /\ TargetSeq(j) \in SeqNumber
  BY Target
<1>2. /\ p = [i \in SlotNumbers |-> p[i]]
      /\ p[t] = Entry(TargetSeq(j), e)
      /\ \A i \in SlotNumbers : i # t => p[i] = j[i]
  BY <1>1 DEF Publish, Orderly, Slotted
<1>3. p[t].kind = "entry" /\ p[t].seq = TargetSeq(j) /\ p[t].entry = e
  BY <1>2 DEF Entry
<1>4. Slotted(p) /\ t \in Entries(p)
  BY <1>1, <1>2, <1>3 DEF Slotted, Orderly, Entries
<1>5. CASE j = NoJournal
  <2>1. t = 0 /\ p[1] = Blank
    BY <1>2, <1>5, Target DEF NoJournal, SlotNumbers
  <2>2. Entries(p) = {0}
    BY <1>4, <2>1 DEF Entries, Blank, SlotNumbers
  <2>3. Orderly(p)
    BY <1>4, <2>2 DEF Orderly, SlotNumbers
  <2>4. NewestSlot(p) = 0 /\ HasEntry(p)
    BY <2>2, <2>3, NewestIsOne
  <2> QED
    BY <1>3, <2>1, <2>3, <2>4 DEF NewestEntry
<1>6. CASE j # NoJournal
  <2> DEFINE s == NewestSlot(j)
  <2>1. s \in Entries(j) /\ t = 1 - s /\ s = 1 - t /\ s # t /\ TargetSeq(j) = NextSeq(j[s].seq)
    BY <1>6, Target
  <2>2. s \in SlotNumbers /\ p[s] = j[s] /\ j[s].seq \in SeqNumber
    BY <1>2, <2>1 DEF Entries, Orderly, Slotted
  <2>3. Entries(p) = SlotNumbers
    BY <1>1, <1>4, <2>1, <2>2 DEF Entries, SlotNumbers
  <2>4. p[t].seq = NextSeq(p[s].seq)
    BY <1>3, <2>1, <2>2
  <2>5. Orderly(p)
    BY <1>1, <1>4, <2>1, <2>2, <2>3, <2>4 DEF Orderly, SlotNumbers
  <2>6. p[NewestSlot(p)].seq = NextSeq(p[1 - NewestSlot(p)].seq) /\ HasEntry(p)
        /\ NewestSlot(p) \in Entries(p)
    BY <1>4, <2>3, <2>5, NewestIsOne
  <2>7. ASSUME NewestSlot(p) = s PROVE FALSE
    <3>1. p[s].seq = NextSeq(p[t].seq)
      BY <2>1, <2>6, <2>7
    <3>2. IsNewer(p[t].seq, p[s].seq) /\ ~IsNewer(p[s].seq, p[t].seq)
      BY <2>2, <2>4, NextIsNewer
    <3>3. IsNewer(p[s].seq, p[t].seq)
      BY <1>1, <1>3, <3>1, NextIsNewer
    <3> QED
      BY <3>2, <3>3
  <2>8. NewestSlot(p) = t
    BY <1>1, <2>1, <2>2, <2>3, <2>6, <2>7 DEF SlotNumbers
  <2> QED
    BY <1>3, <2>5, <2>6, <2>8 DEF NewestEntry
<1> QED
  BY <1>5, <1>6

\* A torn write: the journal stays orderly, and the entry that was the newest
\* still is; with no entry there is still none.
THEOREM TearLeavesNewest ==
    ASSUME NEW j, Orderly(j)
    PROVE  /\ Orderly(Tear(j))
           /\ HasEntry(Tear(j)) <=> HasEntry(j)
           /\ HasEntry(j) => NewestEntry(Tear(j)) = NewestEntry(j)
<1>1. CASE j = NoJournal
  BY <1>1 DEF Tear
<1>2. CASE j # NoJournal
  <2> DEFINE t == TargetSlot(j)
             s == NewestSlot(j)
             p == Tear(j)
  <2>1. t \in SlotNumbers /\ s \in Entries(j) /\ t = 1 - s /\ s = 1 - t /\ s # t /\ HasEntry(j)
    BY <1>2, Target
  <2>2. /\ p = [i \in SlotNumbers |-> p[i]]
        /\ p[t] = Damaged
        /\ \A i \in SlotNumbers : i # t => p[i] = j[i]
    BY <1>2, <2>1 DEF Tear, Orderly, Slotted
  <2>3. s \in SlotNumbers /\ p[s] = j[s] /\ j[s].kind = "entry"
    BY <2>1, <2>2 DEF Entries
  <2>4. p[t].kind = "damaged"
    BY <2>2 DEF Damaged
  <2>5. Slotted(p)
    BY <2>1, <2>2, <2>4 DEF Slotted, Orderly
  <2>6. Entries(p) = {s}
    BY <2>1, <2>3, <2>4 DEF Entries, SlotNumbers
  <2>7. Orderly(p)
    BY <2>1, <2>5, <2>6 DEF Orderly, SlotNumbers
  <2>8. HasEntry(p) /\ NewestSlot(p) = s
    BY <2>6, <2>7, NewestIsOne
  <2> QED
    BY <2>1, <2>3, <2>7, <2>8 DEF NewestEntry
<1> QED
  BY <1>1, <1>2
=============================================================================
