---------------------------- MODULE SlotJournal ----------------------------
(***************************************************************************)
(* The two-slot journals of upload-store/src/ledger.rs: LEDGER.JNL and     *)
(* REPLACE.JNL are both kept this way.  Two slots are written alternately, *)
(* an entry carries a sequence number one past the entry it supersedes,    *)
(* and a write torn by a power cut damages the slot it was writing.        *)
(*                                                                         *)
(* A journal is a function from slot numbers to slots.  No file, an empty  *)
(* file and two blank slots are one value: the code reads all three as     *)
(* "no entry yet".  A file whose creation was cut is empty, since its      *)
(* length reaches the directory when it is closed.                         *)
(***************************************************************************)
EXTENDS Integers

CONSTANTS
    Modulus,  \* sequence numbers and generations are counted modulo this (2^32)
    None     \* no entry, no record, no file

ASSUME ModulusAssumption == Modulus \in Nat /\ Modulus > 3

SlotNumbers == {0, 1}
SeqNumber == 0 .. Modulus - 1

Blank == [kind |-> "blank", seq |-> 0, entry |-> None]
Damaged == [kind |-> "damaged", seq |-> 0, entry |-> None]
UnknownVersion == [kind |-> "unknown", seq |-> 0, entry |-> None]
Entry(seq, entry) == [kind |-> "entry", seq |-> seq, entry |-> entry]

Slot(entries) == {Blank, Damaged, UnknownVersion} \cup
    [kind : {"entry"}, seq : SeqNumber, entry : entries]

NoJournal == [i \in SlotNumbers |-> Blank]

\* A bug that lets the count run on past its width.
NextSeqUnwrapped(n) == n + 1

\* The number after n, wrapping as a u32 does.
NextSeq(n) == IF n = Modulus - 1 THEN 0 ELSE n + 1

\* How far candidate is ahead of current, modulo Modulus.
Ahead(candidate, current) ==
    IF candidate >= current THEN candidate - current
    ELSE candidate - current + Modulus

\* Newer is within the half window ahead.
IsNewer(candidate, current) ==
    /\ candidate # current
    /\ 2 * Ahead(candidate, current) < Modulus

Entries(j) == {i \in SlotNumbers : j[i].kind = "entry"}

\* The slots whose entry no other entry is newer than.
Newest(j) ==
    {i \in Entries(j) : \A k \in Entries(j) \ {i} : ~IsNewer(j[k].seq, j[i].seq)}

\* An entry of another build refuses the journal, whatever the other slot says.
IsUnreadable(j) == \E i \in SlotNumbers : j[i].kind = "unknown"

IsDamaged(j) ==
    \/ Entries(j) = SlotNumbers /\ j[0].seq = j[1].seq
    \/ Entries(j) = {} /\ \E i \in SlotNumbers : j[i].kind = "damaged"

Refuses(j) == IsUnreadable(j) \/ IsDamaged(j)

\* The first slot in order among the newest: with two entries exactly half a
\* window apart neither is newer, and the code keeps the one it met first.
HasEntry(j) == Newest(j) # {}
NewestSlot(j) == IF 0 \in Newest(j) THEN 0 ELSE 1
NewestEntry(j) == j[NewestSlot(j)].entry

\* A bug that writes over the newest entry instead of the other slot.
TargetSlotInPlace(j) == IF HasEntry(j) THEN NewestSlot(j) ELSE 0

\* The slot to write and the number to write there.
TargetSlot(j) == IF HasEntry(j) THEN 1 - NewestSlot(j) ELSE 0
TargetSeq(j) == IF HasEntry(j) THEN NextSeq(j[NewestSlot(j)].seq) ELSE 1

Publish(j, entry) == [j EXCEPT ![TargetSlot(j)] = Entry(TargetSeq(j), entry)]

\* The same write torn.  A creation cut before it closes leaves an empty file.
Tear(j) ==
    IF j = NoJournal THEN j ELSE [j EXCEPT ![TargetSlot(j)] = Damaged]
=============================================================================
