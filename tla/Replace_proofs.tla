--------------------------- MODULE Replace_proofs ---------------------------
(***************************************************************************)
(* What is proved of Replace and of the ledger under it, for every library *)
(* and ledger, every width of the numbers and any number of cuts.          *)
(*                                                                         *)
(* Of the journal and the sides: the ledger is a register, an intent is    *)
(* followed only by its own clear, the ledger of another build is left     *)
(* alone.  Of the card and what the ledger says of it (LibraryInvariant):  *)
(* recovery is never refused, one copy claims a place, no copy the reader  *)
(* keeps is forgotten, and a replacement keeps the identity it was given.  *)
(*                                                                         *)
(* Between the two stand lemmas about the operators that edit a library:   *)
(* publish_record, relocate_record, assign_book_ids and the carry over.    *)
(***************************************************************************)
EXTENDS Replace, SlotJournal_proofs, FunctionTheorems, FiniteSetTheorems, SequenceTheorems

-----------------------------------------------------------------------------
(***************************************************************************)
(* What the journal and the sides have to do with one another, whatever    *)
(* write was the last to land.                                             *)
(***************************************************************************)
NewestIs(e) == HasEntry(ljnl) /\ NewestEntry(ljnl) = e
RewritingTo(t, h) == [kind |-> "rewriting", side |-> t, header |-> h]

\* No generation yet: nothing at all, or a first one begun and not landed.
EmptyLedger ==
    /\ sides[1].state = "absent"
    /\ ~Landed(0, NoHeader)
    /\ \/ ljnl = NoJournal /\ sides[0].state = "absent"
       \/ NewestIs(RewritingTo(0, NoHeader))

\* Side i is the ledger: committed and named, landed and not yet named, or
\* standing beside a rewrite that has not landed.
LiveAt(i) ==
    /\ sides[i].state = "committed"
    /\ sides[i].header.gen \in SeqNumber
    /\ ReadsBackWhole(i)
    /\ \/ NewestIs([kind |-> "committed", side |-> i, header |-> sides[i].header])
       \/ /\ HasEntry(ljnl)
          /\ NewestEntry(ljnl).kind = "rewriting"
          /\ NewestEntry(ljnl).side = i
          /\ Landed(i, NewestEntry(ljnl).header)
       \/ /\ NewestIs(RewritingTo(1 - i, sides[i].header))
          /\ ~Landed(1 - i, sides[i].header)

\* Every call starts over one of the two, and every write leaves one.
Whole == EmptyLedger \/ \E i \in SlotNumbers : LiveAt(i)

\* The first generation under way: no other side, and side 0 its target.
First == gen.standing = NoHeader /\ gen.target = 0 /\ EmptyLedger

\* A later one: the side it does not write is the ledger.
Later ==
    /\ gen.standing = sides[1 - gen.target].header
    /\ LiveAt(1 - gen.target)

Announced == NewestIs(RewritingTo(gen.target, gen.standing))

\* The records it means to write are down, under a header yet to come.
Down ==
    /\ sides[gen.target].state = "uncommitted"
    /\ sides[gen.target].recs = gen.recs

\* What each write of a generation finds, by the write to come.
Reached ==
    \/ At("announce") /\ First
    \/ gen.at \in {"truncate", "records"} /\ First /\ Announced
    \/ gen.at \in {"truncate", "records"} /\ Later
    \/ At("rewriting") /\ Later /\ Down
    \/ At("header") /\ (First \/ Later) /\ Announced /\ Down
    \/ /\ At("committed")
       /\ Announced
       /\ LiveAt(gen.target)
       /\ sides[gen.target].header = NextHeader
       /\ sides[gen.target].recs = gen.recs

Shape ==
    /\ Orderly(ljnl)
    /\ sides = [i \in SlotNumbers |-> sides[i]]
    /\ gen = [at |-> gen.at, target |-> gen.target,
              standing |-> gen.standing, recs |-> gen.recs]
    /\ gen.target \in SlotNumbers

OwnLedger ==
    /\ ~ForeignLedger
    /\ \/ gen = NoCall /\ Whole
       \/ gen # NoCall /\ Reached

OtherBuilds == ForeignLedger /\ gen = NoCall /\ Open.result = "fault"

\* The inductive invariant.
LedgerInv ==
    /\ Shape
    /\ Orderly(rjnl)
    /\ gen # NoCall => pc = "generation"
    /\ OwnLedger \/ OtherBuilds

-----------------------------------------------------------------------------
LEMMA Sides ==
    ASSUME NEW i \in SlotNumbers
    PROVE  1 - i \in SlotNumbers /\ 1 - (1 - i) = i /\ 1 - i # i
BY DEF SlotNumbers

LEMMA NoJournalHasNone == ~HasEntry(NoJournal)
BY DEF HasEntry, Newest, Entries, NoJournal, Blank, SlotNumbers

\* What open answers, and so what the ledger says.
LEMMA OpenAnswers ==
    /\ Orderly(ljnl) /\ ~ForeignLedger /\ EmptyLedger => Open = NoLedger /\ Value = <<>>
    /\ \A i \in SlotNumbers :
         Orderly(ljnl) /\ ~ForeignLedger /\ LiveAt(i) => Open = Live(i) /\ Value = sides[i].recs
<1>1. ASSUME Orderly(ljnl), ~ForeignLedger, EmptyLedger
      PROVE  Open = NoLedger /\ Value = <<>>
  <2>1. ~Refuses(ljnl)
    BY <1>1, OrderlyReads
  <2>2. CASE ljnl = NoJournal /\ sides[0].state = "absent"
    <3>1. ~HasEntry(ljnl)
      BY <2>2, NoJournalHasNone
    <3> QED
      BY <1>1, <2>1, <2>2, <3>1 DEF Open, Value, NoLedger, EmptyLedger, SlotNumbers
  <2>3. CASE NewestIs(RewritingTo(0, NoHeader))
    <3>1. Open = OpenRewriting(0, NoHeader)
      BY <2>1, <2>3 DEF Open, NewestIs, RewritingTo
    <3>2. sides[0].state # "unreadable"
      BY <1>1 DEF ForeignLedger, SlotNumbers
    <3> QED
      BY <1>1, <3>1, <3>2 DEF OpenRewriting, EmptyLedger, NoLedger, Value
  <2> QED
    BY <1>1, <2>2, <2>3 DEF EmptyLedger
<1>2. ASSUME NEW i \in SlotNumbers, Orderly(ljnl), ~ForeignLedger, LiveAt(i)
      PROVE  Open = Live(i) /\ Value = sides[i].recs
  <2>1. ~Refuses(ljnl)
    BY <1>2, OrderlyReads
  <2>2. HasEntry(ljnl)
    BY <1>2 DEF LiveAt, NewestIs
  <2>3. CASE NewestIs([kind |-> "committed", side |-> i, header |-> sides[i].header])
    <3>1. Stands(i, sides[i].header)
      BY <1>2 DEF LiveAt, Stands
    <3> QED
      BY <2>1, <2>2, <2>3, <3>1 DEF Open, NewestIs, Live, Value
  <2>4. CASE /\ NewestEntry(ljnl).kind = "rewriting"
             /\ NewestEntry(ljnl).side = i
             /\ Landed(i, NewestEntry(ljnl).header)
    BY <2>1, <2>2, <2>4 DEF Open, OpenRewriting, Live, Value
  <2>5. CASE /\ NewestIs(RewritingTo(1 - i, sides[i].header))
             /\ ~Landed(1 - i, sides[i].header)
    <3>1. Open = OpenRewriting(1 - i, sides[i].header)
      BY <2>1, <2>2, <2>5 DEF Open, NewestIs, RewritingTo
    <3>2. sides[1 - i].state # "unreadable"
      BY <1>2, Sides DEF ForeignLedger
    <3>3. sides[i].header # NoHeader
      BY <1>2, ModulusAssumption DEF LiveAt, NoHeader, Header, SeqNumber
    <3>4. Stands(i, sides[i].header)
      BY <1>2 DEF LiveAt, Stands
    <3> QED
      BY <2>5, <3>1, <3>2, <3>3, <3>4, Sides DEF OpenRewriting, Live, Value
  <2> QED
    BY <1>2, <2>3, <2>4, <2>5 DEF LiveAt
<1> QED
  BY <1>1, <1>2

\* The sides may be told apart from what open answers.
LEMMA OpenIsEither ==
    ASSUME Orderly(ljnl), ~ForeignLedger, Whole
    PROVE  \/ EmptyLedger /\ Open = NoLedger
           \/ \E i \in SlotNumbers : LiveAt(i) /\ Open = Live(i)
BY OpenAnswers DEF Whole

-----------------------------------------------------------------------------
(***************************************************************************)
(* The writes.                                                             *)
(***************************************************************************)

\* A torn journal write changes nothing of what stands.
LEMMA TornJournal ==
    ASSUME Orderly(ljnl), ljnl' = Tear(ljnl), UNCHANGED sides
    PROVE  /\ Orderly(ljnl)'
           /\ EmptyLedger => EmptyLedger'
           /\ \A i \in SlotNumbers : LiveAt(i) => LiveAt(i)'
<1>1. Orderly(ljnl')
  BY TearLeavesNewest
<1>2. HasEntry(ljnl') <=> HasEntry(ljnl)
  BY TearLeavesNewest
<1>3. HasEntry(ljnl) => NewestEntry(ljnl') = NewestEntry(ljnl)
  BY TearLeavesNewest
<1>4. ljnl = NoJournal => ljnl' = NoJournal
  BY DEF Tear
<1> QED
  BY <1>1, <1>2, <1>3, <1>4
     DEF EmptyLedger, LiveAt, NewestIs, Landed, ReadsBackWhole

\* What a step may do to the register: nothing, land what is proposed, answer
\* for it, or fail.
Ours == Shape /\ ~ForeignLedger /\ gen # NoCall /\ Reached

StillOurs ==
    /\ Shape'
    /\ ~ForeignLedger'
    /\ \/ gen' = NoCall /\ Whole'
       \/ gen' # NoCall /\ Reached'

Kept == Value' = Value
Same == gen' # NoCall /\ gen'.recs = gen.recs

\* A write cut: the call is over, and the ledger says what it said.
Cut == gen' = NoCall /\ Kept

LEMMA OpenAnswersAfter ==
    /\ (Orderly(ljnl) /\ ~ForeignLedger /\ EmptyLedger => Open = NoLedger /\ Value = <<>>)'
    /\ (\A i \in SlotNumbers :
         Orderly(ljnl) /\ ~ForeignLedger /\ LiveAt(i) => Open = Live(i) /\ Value = sides[i].recs)'
BY OpenAnswers, PTL

\* The ledger says the same while the same side stands, and its records do.
LEMMA SaysTheSame ==
    ASSUME Orderly(ljnl), ~ForeignLedger, Orderly(ljnl)', ~ForeignLedger'
    PROVE  /\ EmptyLedger /\ EmptyLedger' => Kept
           /\ \A i \in SlotNumbers :
                LiveAt(i) /\ LiveAt(i)' /\ sides'[i] = sides[i] => Kept
BY OpenAnswers, OpenAnswersAfter DEF Kept

\* A call under way stands on a whole ledger, at every write of it.
LEMMA ReachedIsWhole ==
    ASSUME Shape, Reached
    PROVE  Whole
BY Sides DEF Reached, First, Later, Whole, Shape

LEMMA TornWrite ==
    ASSUME Ours, ljnl' = Tear(ljnl), UNCHANGED sides, gen' = NoCall
    PROVE  StillOurs /\ Cut
<1>1. Orderly(ljnl) /\ Whole
  BY ReachedIsWhole DEF Ours, Shape
<1>2. /\ Orderly(ljnl)'
      /\ EmptyLedger => EmptyLedger'
      /\ \A i \in SlotNumbers : LiveAt(i) => LiveAt(i)'
  BY <1>1, TornJournal
<1>3. ~ForeignLedger'
  BY DEF Ours, ForeignLedger
<1>4. Whole'
  BY <1>1, <1>2 DEF Whole
<1>5. Kept
  BY <1>1, <1>2, <1>3, SaysTheSame DEF Ours, Whole
<1>6. gen' = [at |-> gen'.at, target |-> gen'.target,
              standing |-> gen'.standing, recs |-> gen'.recs] /\ gen'.target \in SlotNumbers
  BY DEF NoCall, SlotNumbers
<1>7. Shape'
  BY <1>2, <1>6 DEF Shape, Ours
<1> QED
  BY <1>3, <1>4, <1>5, <1>7 DEF StillOurs, Cut

\* One write of a generation leaves the next to find what it expects, and is
\* one step of the register: nothing said is changed but by the header that
\* lands, and the call returns only over what it proposed.
StepOf(cut) ==
    /\ StillOurs
    /\ \/ cut /\ Cut
       \/ ~cut /\ Same /\ (Kept \/ Value' = gen.recs)
       \/ ~cut /\ gen' = NoCall /\ Kept /\ Value = gen.recs

LEMMA GoesOn ==
    ASSUME Shape, gen' = [gen EXCEPT !.at = gen'.at], gen'.at # "done"
    PROVE  /\ gen' = [at |-> gen'.at, target |-> gen'.target,
                      standing |-> gen'.standing, recs |-> gen'.recs]
           /\ gen'.target = gen.target
           /\ gen'.standing = gen.standing /\ gen'.recs = gen.recs
           /\ gen' # NoCall
           /\ gen'.target \in SlotNumbers
BY DEF Shape, NoCall

\* The journal written whole: the new entry is the newest.
LEMMA WholeJournal ==
    ASSUME Orderly(ljnl), NEW e, ljnl' = Publish(ljnl, e)
    PROVE  Orderly(ljnl)' /\ NewestIs(e)'
BY PublishStands DEF NewestIs

LEMMA AnnounceStep ==
    ASSUME Ours, NEW cut \in BOOLEAN, Announce(cut)
    PROVE  StepOf(cut)
<1>1. First
  BY DEF Announce, Ours, Reached, At
<1>2. CASE cut
  BY <1>2, TornWrite DEF Announce, WriteJournal, GoOn, StepOf
<1>3. CASE ~cut
  <2>4. Rewriting = RewritingTo(0, NoHeader)
    BY <1>1 DEF First, Rewriting, RewritingTo
  <2>1. ljnl' = Publish(ljnl, RewritingTo(0, NoHeader)) /\ sides' = sides
        /\ gen' = [gen EXCEPT !.at = "truncate"]
    BY <1>3, <2>4 DEF Announce, WriteJournal, GoOn
  <2>2. Orderly(ljnl)' /\ NewestIs(RewritingTo(0, NoHeader))'
    BY <2>1, WholeJournal DEF Ours, Shape
  <2>3. /\ gen'.at = "truncate" /\ gen' # NoCall /\ gen'.target \in SlotNumbers
        /\ gen'.target = gen.target /\ gen'.standing = gen.standing /\ gen'.recs = gen.recs
        /\ gen' = [at |-> gen'.at, target |-> gen'.target,
                   standing |-> gen'.standing, recs |-> gen'.recs]
    <3>1. gen'.at = "truncate" /\ gen' = [gen EXCEPT !.at = gen'.at]
      BY <2>1 DEF Ours, Shape
    <3> QED
      BY <3>1, GoesOn DEF Ours
  <2>5. EmptyLedger'
    BY <1>1, <2>1, <2>2 DEF First, EmptyLedger, NewestIs, Landed, ReadsBackWhole
  <2>6. First' /\ Announced'
    BY <1>1, <2>2, <2>3, <2>5 DEF First, Announced, NewestIs
  <2>7. Shape' /\ ~ForeignLedger'
    BY <2>1, <2>2, <2>3 DEF Shape, Ours, ForeignLedger
  <2>8. Kept
    BY <1>1, <2>5, <2>7, SaysTheSame DEF Ours, First, Shape
  <2> QED
    BY <1>3, <2>3, <2>6, <2>7, <2>8 DEF StepOf, StillOurs, Reached, Same
<1> QED
  BY <1>2, <1>3

\* A side written short of its header, whichever write it is.
LEMMA ShortWrite ==
    ASSUME Ours, UNCHANGED ljnl, NEW t, t = gen.target,
           sides' = [i \in SlotNumbers |-> sides'[i]],
           sides'[t].state \in {"uncommitted", "damaged"},
           sides'[1 - t] = sides[1 - t],
           (First /\ Announced) \/ Later
    PROVE  /\ Orderly(ljnl)' /\ ~ForeignLedger' /\ Whole' /\ Kept
           /\ First /\ Announced => EmptyLedger'
           /\ Later => LiveAt(1 - t)'
<1>1. Shape /\ ~ForeignLedger /\ t \in SlotNumbers /\ 1 - t \in SlotNumbers
  BY Sides DEF Ours, Shape
<1>2. /\ ~ForeignLedger'
      /\ LiveAt(1 - t) => LiveAt(1 - t)'
      /\ t = 0 /\ EmptyLedger /\ HasEntry(ljnl) => EmptyLedger'
  <2>1. \A i \in SlotNumbers : i = t \/ i = 1 - t
    BY <1>1 DEF SlotNumbers
  <2>2. ~ForeignLedger'
    BY <1>1, <2>1 DEF ForeignLedger
  <2>3. \A h : ~Landed(t, h)'
    BY DEF Landed
  <2>4. ASSUME LiveAt(1 - t) PROVE LiveAt(1 - t)'
    BY <1>1, <2>3, <2>4, Sides DEF LiveAt, NewestIs, Landed, ReadsBackWhole
  <2>5. ASSUME t = 0, EmptyLedger, HasEntry(ljnl) PROVE EmptyLedger'
    <3>1. NewestIs(RewritingTo(0, NoHeader))
      BY <2>5, NoJournalHasNone DEF EmptyLedger
    <3> QED
      BY <2>3, <2>5, <3>1 DEF EmptyLedger, NewestIs
  <2> QED
    BY <2>2, <2>4, <2>5
<1>3. Orderly(ljnl)' /\ Orderly(ljnl)
  BY <1>1 DEF Shape
<1>4. ASSUME First, Announced PROVE EmptyLedger' /\ Kept
  <2>1. EmptyLedger /\ EmptyLedger'
    BY <1>2, <1>4 DEF First, Announced, NewestIs
  <2> QED
    BY <1>1, <1>2, <1>3, <2>1, SaysTheSame
<1>5. ASSUME Later PROVE LiveAt(1 - t)' /\ Kept
  <2>1. LiveAt(1 - t) /\ LiveAt(1 - t)'
    BY <1>2, <1>5 DEF Later
  <2> QED
    BY <1>1, <1>2, <1>3, <2>1, SaysTheSame
<1>6. Whole'
  BY <1>1, <1>4, <1>5 DEF Whole
<1> QED
  BY <1>1, <1>2, <1>3, <1>4, <1>5, <1>6

\* A side written: the other is as it was.
LEMMA Rewritten ==
    ASSUME Shape, NEW t, t = gen.target, NEW s, sides' = [sides EXCEPT ![t] = s]
    PROVE  /\ t \in SlotNumbers
           /\ sides' = [i \in SlotNumbers |-> sides'[i]]
           /\ sides'[t] = s
           /\ sides'[1 - t] = sides[1 - t]
BY Sides DEF Shape

\* Every short write but the last of a call goes on to one that expects it.
LEMMA TruncateStep ==
    ASSUME Ours, NEW cut \in BOOLEAN, TruncateTarget(cut)
    PROVE  StepOf(cut)
<1>1. (First /\ Announced) \/ Later
  BY DEF TruncateTarget, Ours, Reached, At
<1>2. PICK t : t = gen.target
  OBVIOUS
<1>3. /\ UNCHANGED ljnl
      /\ sides' = [i \in SlotNumbers |-> sides'[i]]
      /\ sides'[t] = Side("uncommitted", NoHeader, <<>>)
      /\ sides'[1 - t] = sides[1 - t]
  BY <1>2, Rewritten DEF TruncateTarget, Ours
<1>4. /\ Orderly(ljnl)' /\ ~ForeignLedger' /\ Whole' /\ Kept
      /\ First /\ Announced => EmptyLedger'
      /\ Later => LiveAt(1 - t)'
  <2>1. sides'[t].state \in {"uncommitted", "damaged"}
    BY <1>3 DEF Side
  <2> QED
    BY <1>1, <1>2, <1>3, <2>1, ShortWrite
<1>5. CASE cut
  <2>1. gen' = NoCall
    BY <1>5 DEF TruncateTarget, GoOn
  <2> QED
    BY <1>5, <1>3, <1>4, <2>1 DEF StepOf, StillOurs, Shape, NoCall, SlotNumbers, Cut
<1>6. CASE ~cut
  <2>1. gen'.at = "records" /\ gen' = [gen EXCEPT !.at = gen'.at]
    BY <1>6 DEF TruncateTarget, GoOn, Ours, Shape
  <2>2. /\ gen'.target = gen.target /\ gen'.standing = gen.standing /\ gen'.recs = gen.recs
        /\ gen' # NoCall /\ gen'.target \in SlotNumbers
        /\ gen' = [at |-> gen'.at, target |-> gen'.target,
                   standing |-> gen'.standing, recs |-> gen'.recs]
    BY <2>1, GoesOn DEF Ours
  <2>3. (First /\ Announced)' \/ Later'
    BY <1>1, <1>2, <1>3, <1>4, <2>2 DEF First, Later, Announced, NewestIs
  <2> QED
    BY <1>6, <1>3, <1>4, <2>1, <2>2, <2>3 DEF StepOf, StillOurs, Shape, Reached, Same
<1> QED
  BY <1>5, <1>6

LEMMA CloseStep ==
    ASSUME Ours, NEW cut \in BOOLEAN, CloseRecords(cut)
    PROVE  StepOf(cut)
<1>1. (First /\ Announced) \/ Later
  BY DEF CloseRecords, Ours, Reached, At
<1>2. PICK t : t = gen.target
  OBVIOUS
<1>3. PICK s : s = Side(IF cut THEN "damaged" ELSE "uncommitted", NoHeader, gen.recs)
  OBVIOUS
<1>4. /\ UNCHANGED ljnl
      /\ sides' = [i \in SlotNumbers |-> sides'[i]]
      /\ sides'[t] = s
      /\ sides'[1 - t] = sides[1 - t]
  <2>1. sides' = [sides EXCEPT ![t] = s]
    BY <1>2, <1>3 DEF CloseRecords
  <2> QED
    BY <1>2, <2>1, Rewritten DEF CloseRecords, Ours
<1>5. /\ Orderly(ljnl)' /\ ~ForeignLedger' /\ Whole' /\ Kept
      /\ First /\ Announced => EmptyLedger'
      /\ Later => LiveAt(1 - t)'
  <2>1. sides'[t].state \in {"uncommitted", "damaged"}
    BY <1>3, <1>4 DEF Side
  <2> QED
    BY <1>1, <1>2, <1>4, <2>1, ShortWrite
<1>6. CASE cut
  <2>1. gen' = NoCall
    BY <1>6 DEF CloseRecords, GoOn
  <2> QED
    BY <1>6, <1>4, <1>5, <2>1 DEF StepOf, StillOurs, Shape, NoCall, SlotNumbers, Cut
<1>7. CASE ~cut
  <2>1. /\ gen'.at = IF gen.standing = NoHeader THEN "header" ELSE "rewriting"
        /\ gen' = [gen EXCEPT !.at = gen'.at] /\ gen'.at # "done"
    BY <1>7 DEF CloseRecords, GoOn, Ours, Shape
  <2>2. /\ gen'.target = gen.target /\ gen'.standing = gen.standing /\ gen'.recs = gen.recs
        /\ gen' # NoCall /\ gen'.target \in SlotNumbers
        /\ gen' = [at |-> gen'.at, target |-> gen'.target,
                   standing |-> gen'.standing, recs |-> gen'.recs]
    BY <2>1, GoesOn DEF Ours
  <2>3. Down'
    BY <1>2, <1>3, <1>4, <1>7, <2>2 DEF Down, Side
  <2>4. CASE First /\ Announced
    <3>1. First' /\ Announced' /\ gen'.at = "header"
      BY <1>4, <1>5, <2>1, <2>2, <2>4 DEF First, Announced, NewestIs
    <3> QED
      BY <1>7, <1>4, <1>5, <2>2, <2>3, <3>1 DEF StepOf, StillOurs, Shape, Reached, At, Same
  <2>5. CASE Later
    <3>1. gen.standing # NoHeader
      BY <2>5, ModulusAssumption DEF Later, LiveAt, NoHeader, Header, SeqNumber
    <3>2. Later' /\ gen'.at = "rewriting"
      BY <1>2, <1>4, <1>5, <2>1, <2>2, <2>5, <3>1 DEF Later
    <3> QED
      BY <1>7, <1>4, <1>5, <2>2, <2>3, <3>2 DEF StepOf, StillOurs, Shape, Reached, At, Same
  <2> QED
    BY <1>1, <2>4, <2>5
<1> QED
  BY <1>6, <1>7

LEMMA RewritingStep ==
    ASSUME Ours, NEW cut \in BOOLEAN, SayRewriting(cut)
    PROVE  StepOf(cut)
<1>1. Later /\ Down
  BY DEF SayRewriting, Ours, Reached, At
<1>2. CASE cut
  BY <1>2, TornWrite DEF SayRewriting, WriteJournal, GoOn, StepOf
<1>3. CASE ~cut
  <2>1. PICK t, h : t = gen.target /\ h = gen.standing
    OBVIOUS
  <2>2. ljnl' = Publish(ljnl, RewritingTo(t, h)) /\ sides' = sides
        /\ gen' = [gen EXCEPT !.at = "header"]
    BY <1>3, <2>1 DEF SayRewriting, WriteJournal, GoOn, Rewriting, RewritingTo
  <2>3. Orderly(ljnl)' /\ NewestIs(RewritingTo(t, h))'
    BY <2>2, WholeJournal DEF Ours, Shape
  <2>4. gen'.at = "header" /\ gen' = [gen EXCEPT !.at = gen'.at]
    BY <2>2 DEF Ours, Shape
  <2>5. /\ gen'.target = gen.target /\ gen'.standing = gen.standing /\ gen'.recs = gen.recs
        /\ gen' # NoCall /\ gen'.target \in SlotNumbers
        /\ gen' = [at |-> gen'.at, target |-> gen'.target,
                   standing |-> gen'.standing, recs |-> gen'.recs]
    BY <2>4, GoesOn DEF Ours
  <2>6. t \in SlotNumbers /\ 1 - t \in SlotNumbers /\ 1 - (1 - t) = t
    BY <2>1, Sides DEF Ours, Shape
  <2>7. LiveAt(1 - t) /\ h = sides[1 - t].header /\ ~Landed(t, h)
    BY <1>1, <2>1 DEF Later, Down, Landed
  <2>8. LiveAt(1 - t)'
    BY <2>2, <2>3, <2>6, <2>7 DEF LiveAt, Landed, ReadsBackWhole
  <2>9. Later' /\ Announced' /\ Down'
    BY <1>1, <2>1, <2>2, <2>3, <2>5, <2>8 DEF Later, Announced, Down, NewestIs
  <2>10. Shape' /\ ~ForeignLedger'
    BY <2>2, <2>3, <2>5 DEF Shape, Ours, ForeignLedger
  <2>11. Kept
    BY <2>2, <2>6, <2>7, <2>8, <2>10, SaysTheSame DEF Ours, Shape
  <2> QED
    BY <1>3, <2>4, <2>5, <2>9, <2>10, <2>11 DEF StepOf, StillOurs, Reached, At, Same
<1> QED
  BY <1>2, <1>3

\* The header is the commit: with it, and with nothing else, what the ledger
\* says becomes what was proposed.
LEMMA HeaderStep ==
    ASSUME Ours, NEW cut \in BOOLEAN, CommitHeader(cut)
    PROVE  StepOf(cut)
<1>1. (First \/ Later) /\ Announced /\ Down
  BY DEF CommitHeader, Ours, Reached, At
<1>2. PICK t, h : t = gen.target /\ h = gen.standing
  OBVIOUS
<1>3. CASE cut
  <2>1. PICK s : s = Side("damaged", NoHeader, gen.recs)
    OBVIOUS
  <2>2. /\ UNCHANGED ljnl
        /\ sides' = [i \in SlotNumbers |-> sides'[i]]
        /\ sides'[t] = s
        /\ sides'[1 - t] = sides[1 - t]
    <3>1. sides' = [sides EXCEPT ![t] = s]
      BY <1>2, <1>3, <2>1 DEF CommitHeader
    <3> QED
      BY <1>2, <3>1, Rewritten DEF CommitHeader, Ours
  <2>3. Orderly(ljnl)' /\ ~ForeignLedger' /\ Whole' /\ Kept
    <3>1. sides'[t].state \in {"uncommitted", "damaged"}
      BY <2>1, <2>2 DEF Side
    <3> QED
      BY <1>1, <1>2, <2>2, <3>1, ShortWrite
  <2>4. gen' = NoCall
    BY <1>3 DEF CommitHeader, GoOn
  <2> QED
    BY <1>3, <2>2, <2>3, <2>4 DEF StepOf, StillOurs, Shape, NoCall, SlotNumbers, Cut
<1>4. CASE ~cut
  <2>1. PICK n : n = NextHeader
    OBVIOUS
  <2>2. /\ ljnl' = ljnl
        /\ sides' = [sides EXCEPT ![t] = Side("committed", n, gen.recs)]
        /\ gen' = [gen EXCEPT !.at = "committed"]
    BY <1>2, <1>4, <2>1 DEF CommitHeader, GoOn
  <2>3. t \in SlotNumbers
    BY <1>2 DEF Ours, Shape
  <2>4. /\ sides' = [i \in SlotNumbers |-> sides'[i]]
        /\ sides'[t] = Side("committed", n, gen.recs)
        /\ \A i \in SlotNumbers : i # t => sides'[i] = sides[i]
    BY <2>2, <2>3 DEF Ours, Shape
  <2>5. sides'[t].state = "committed" /\ sides'[t].header = n /\ sides'[t].recs = gen.recs
    BY <2>4 DEF Side
  <2>6. gen'.at = "committed" /\ gen' = [gen EXCEPT !.at = gen'.at]
    BY <2>2 DEF Ours, Shape
  <2>7. /\ gen'.target = gen.target /\ gen'.standing = gen.standing /\ gen'.recs = gen.recs
        /\ gen' # NoCall /\ gen'.target \in SlotNumbers
        /\ gen' = [at |-> gen'.at, target |-> gen'.target,
                   standing |-> gen'.standing, recs |-> gen'.recs]
    BY <2>6, GoesOn DEF Ours
  <2>8. n.gen = NextGen(h) /\ n.count = Len(gen.recs)
    BY <1>2, <2>1 DEF NextHeader, Header
  <2>9. n.gen \in SeqNumber
    <3>1. CASE First
      BY <1>2, <2>8, <3>1, ModulusAssumption DEF First, NextGen, SeqNumber
    <3>2. CASE Later
      <4>1. h.gen \in SeqNumber /\ h # NoHeader
        BY <1>2, <3>2, ModulusAssumption DEF Later, LiveAt, NoHeader, Header, SeqNumber
      <4> QED
        BY <2>8, <4>1, NextIsNewer DEF NextGen
    <3> QED
      BY <1>1, <3>1, <3>2
  <2>10. ReadsBackWhole(t)' /\ Landed(t, h)'
    BY <2>5, <2>8 DEF ReadsBackWhole, Landed
  <2>11. NewestIs(RewritingTo(t, h))'
    BY <1>1, <1>2, <2>2 DEF Announced, NewestIs
  <2>12. LiveAt(t)'
    BY <2>5, <2>9, <2>10, <2>11 DEF LiveAt, NewestIs, RewritingTo
  <2>13. Orderly(ljnl)' /\ ~ForeignLedger'
    BY <2>2, <2>3, <2>4, <2>5 DEF Ours, Shape, ForeignLedger
  <2>14. Value' = gen.recs
    BY <2>3, <2>5, <2>12, <2>13, OpenAnswersAfter
  <2>15. sides'[gen'.target].header = NextHeader' /\ sides'[gen'.target].recs = gen'.recs
    BY <1>2, <2>1, <2>5, <2>7 DEF NextHeader
  <2>16. LiveAt(gen.target)' /\ Announced'
    BY <1>2, <2>7, <2>11, <2>12 DEF Announced, NewestIs, LiveAt, Landed, ReadsBackWhole
  <2> QED
    BY <1>4, <2>4, <2>6, <2>7, <2>13, <2>14, <2>15, <2>16
       DEF StepOf, StillOurs, Shape, Reached, At, Same
<1> QED
  BY <1>3, <1>4

LEMMA CommittedStep ==
    ASSUME Ours, NEW cut \in BOOLEAN, SayCommitted(cut)
    PROVE  StepOf(cut)
<1>1. PICK t : t = gen.target
  OBVIOUS
<1>2. LiveAt(t) /\ sides[t].header = NextHeader /\ sides[t].recs = gen.recs
  BY <1>1 DEF SayCommitted, Ours, Reached, At
<1>3. CASE cut
  BY <1>3, TornWrite DEF SayCommitted, WriteJournal, StepOf
<1>4. CASE ~cut
  <2>1. PICK e : e = [kind |-> "committed", side |-> t, header |-> sides[t].header]
    OBVIOUS
  <2>2. ljnl' = Publish(ljnl, e) /\ sides' = sides /\ gen' = NoCall
    BY <1>1, <1>2, <1>4, <2>1 DEF SayCommitted, WriteJournal, Committed
  <2>3. Orderly(ljnl)' /\ NewestIs(e)'
    BY <2>2, WholeJournal DEF Ours, Shape
  <2>4. LiveAt(t)'
    BY <1>2, <2>1, <2>2, <2>3 DEF LiveAt, NewestIs, ReadsBackWhole
  <2>5. t \in SlotNumbers
    BY <1>1 DEF Ours, Shape
  <2>6. Shape' /\ ~ForeignLedger' /\ Whole'
    BY <2>2, <2>3, <2>4, <2>5 DEF Ours, Shape, ForeignLedger, Whole, NoCall, SlotNumbers
  <2>7. Kept /\ Value = gen.recs
    BY <1>2, <2>2, <2>4, <2>5, <2>6, SaysTheSame, OpenAnswers DEF Ours, Shape
  <2> QED
    BY <1>4, <2>2, <2>6, <2>7 DEF StepOf, StillOurs
<1> QED
  BY <1>3, <1>4

-----------------------------------------------------------------------------
(***************************************************************************)
(* The steps of Replace.                                                   *)
(***************************************************************************)
LEMMA SlotsOfInit == Orderly(NoJournal)
BY DEF Orderly, Slotted, NoJournal, Blank, Entries, SlotNumbers

LEMMA InvInit == Init => LedgerInv
<1> SUFFICES ASSUME Init PROVE LedgerInv
  OBVIOUS
<1>1. Orderly(rjnl) /\ gen = NoCall
  BY SlotsOfInit DEF Init
<1>2. sides = [i \in SlotNumbers |-> sides[i]]
  BY DEF Init
<1>3. CASE ljnl = NoJournal
  <2>1. sides[0].state = "absent" /\ sides[1].state = "absent"
    BY <1>3 DEF Init, NoSide, Side, SlotNumbers
  <2>2. EmptyLedger /\ ~ForeignLedger
    BY <1>3, <2>1 DEF EmptyLedger, Landed, ForeignLedger, SlotNumbers
  <2> QED
    BY <1>1, <1>2, <1>3, <2>2, SlotsOfInit
       DEF LedgerInv, Shape, OwnLedger, Whole, NoCall, SlotNumbers
<1>4. CASE ljnl # NoJournal
  <2>1. PICK e : e = [kind |-> "rewriting", side |-> 1, header |-> Header(1, 0)]
    OBVIOUS
  <2>2. ljnl = [i \in SlotNumbers |-> IF i = 0 THEN Entry(1, e) ELSE Blank]
    BY <1>4, <2>1 DEF Init
  <2>3. ljnl[0] = Entry(1, e) /\ ljnl[1] = Blank
    BY <2>2 DEF SlotNumbers
  <2>4. Entries(ljnl) = {0}
    BY <2>2, <2>3 DEF Entries, Entry, Blank, SlotNumbers
  <2>5. Orderly(ljnl)
    <3>1. 1 \in SeqNumber
      BY ModulusAssumption DEF SeqNumber
    <3> QED
      BY <2>2, <2>3, <2>4, <3>1 DEF Orderly, Slotted, Entry, Blank, SlotNumbers
  <2>6. NewestIs(e)
    <3>1. NewestSlot(ljnl) = 0 /\ HasEntry(ljnl)
      BY <2>4, <2>5, NewestIsOne
    <3> QED
      BY <2>3, <3>1 DEF NewestIs, NewestEntry, Entry
  <2>7. sides[1].state = "unreadable"
    BY <1>4 DEF Init, Side, SlotNumbers
  <2>8. ~Refuses(ljnl)
    BY <2>5, OrderlyReads
  <2>9. Open.result = "fault"
    BY <2>1, <2>6, <2>7, <2>8
       DEF Open, OpenRewriting, Landed, NewestIs, Fault
  <2> QED
    BY <1>1, <1>2, <2>5, <2>7, <2>9
       DEF LedgerInv, Shape, OtherBuilds, ForeignLedger, NoCall, SlotNumbers
<1> QED
  BY <1>3, <1>4

\* What a step that writes neither the ledger nor its journal leaves.
LEMMA LedgerAlone ==
    ASSUME UNCHANGED <<ljnl, sides>>
    PROVE  /\ Open' = Open /\ Kept
           /\ ForeignLedger' = ForeignLedger
           /\ Whole' = Whole
<1>1. \A i, h : Landed(i, h)' = Landed(i, h)
  BY DEF Landed, ReadsBackWhole
<1>2. \A i, h : Stands(i, h)' = Stands(i, h)
  BY DEF Stands, ReadsBackWhole
<1>3. \A t, h : OpenRewriting(t, h)' = OpenRewriting(t, h)
  BY <1>1, <1>2 DEF OpenRewriting
<1>4. Open' = Open
  BY <1>2, <1>3 DEF Open
<1>5. Kept
  BY <1>4 DEF Kept, Value
<1>6. ForeignLedger' = ForeignLedger
  BY DEF ForeignLedger
<1>7. Whole' = Whole
  BY DEF Whole, EmptyLedger, LiveAt, NewestIs, Landed, ReadsBackWhole
<1> QED
  BY <1>4, <1>5, <1>6, <1>7

\* A call begins over a ledger that opens, and reaches its first write.
LEMMA StartStep ==
    ASSUME Shape, OwnLedger, gen = NoCall, Open.result # "fault",
           UNCHANGED <<ljnl, sides>>, NEW recs, StartGeneration(recs)
    PROVE  /\ Shape' /\ OwnLedger'
           /\ gen' # NoCall /\ gen'.recs = recs
<1>1. Orderly(ljnl) /\ ~ForeignLedger /\ Whole
  BY DEF Shape, OwnLedger
<1>2. Orderly(ljnl)' /\ ~ForeignLedger'
  BY <1>1, LedgerAlone
<1>3. CASE EmptyLedger /\ Open = NoLedger
  <2>1. gen' = [at |-> "announce", target |-> 0, standing |-> NoHeader, recs |-> recs]
    BY <1>3 DEF StartGeneration, NoLedger
  <2>2. EmptyLedger'
    BY <1>3 DEF EmptyLedger, NewestIs, Landed, ReadsBackWhole
  <2> QED
    BY <1>2, <2>1, <2>2
       DEF Shape, OwnLedger, Reached, At, First, NoCall, SlotNumbers
<1>4. ASSUME NEW i \in SlotNumbers, LiveAt(i), Open = Live(i)
      PROVE  Shape' /\ OwnLedger' /\ gen' # NoCall /\ gen'.recs = recs
  <2>1. gen' = [at |-> "truncate", target |-> 1 - i,
                standing |-> sides[i].header, recs |-> recs]
    BY <1>4 DEF StartGeneration, Live
  <2>2. LiveAt(i)'
    BY <1>4 DEF LiveAt, NewestIs, Landed, ReadsBackWhole
  <2>3. 1 - i \in SlotNumbers /\ 1 - (1 - i) = i
    BY <1>4, Sides
  <2>4. Later'
    BY <2>1, <2>2, <2>3 DEF Later
  <2> QED
    BY <1>2, <2>1, <2>3, <2>4 DEF Shape, OwnLedger, Reached, At, NoCall
<1> QED
  BY <1>1, <1>3, <1>4, OpenIsEither

\* What each kind of step does to the ledger: nothing; begin a call; one write
\* of it; or drop it.
Alone == UNCHANGED ledgerVars
Started ==
    /\ UNCHANGED <<ljnl, sides>>
    /\ gen = NoCall /\ Open.result # "fault" /\ pc' = "generation"
    /\ \E recs : StartGeneration(recs)
Dropped == UNCHANGED <<ljnl, sides>> /\ gen' = NoCall

LEMMA KindsOfStep ==
    ASSUME LedgerInv, [Next]_vars
    PROVE  \/ Alone /\ (gen # NoCall => pc' = pc) /\ (gen = NoCall \/ cuts' = cuts)
              /\ (cuts' = cuts \/ cuts' = cuts + 1)
           \/ Started /\ cuts' = cuts
           \/ \E cut \in BOOLEAN : Write(cut)
           \/ Dropped /\ cuts' = cuts + 1
<1>0. gen # NoCall => pc = "generation"
  BY DEF LedgerInv
<1>1. ASSUME NEW o \in Offers, NEW cut \in BOOLEAN, Begin(o[1], o[2], cut)
      PROVE  Alone /\ gen = NoCall /\ (cuts' = cuts \/ cuts' = cuts + 1)
  BY <1>0, <1>1 DEF Begin, Alone, MayCut
<1>2. ASSUME NEW cut \in BOOLEAN, Clear(cut)
      PROVE  Alone /\ gen = NoCall /\ (cuts' = cuts \/ cuts' = cuts + 1)
  BY <1>0, <1>2 DEF Clear, Alone, MayCut
<1>3. CASE WriteIntent \/ Recover \/ Mount
  BY <1>0, <1>3 DEF WriteIntent, Recover, Mount, Alone
<1>4. CASE Park \/ Land \/ Restore \/ ClearInstall
  BY <1>0, <1>4 DEF Park, Land, Restore, InstallStep, ClearInstall, Alone
<1>5. CASE \E n \in Names : Delete(n)
  BY <1>0, <1>5 DEF Delete, Alone
<1>6. CASE (\E e \in Edits : Edit(e[1], e[2])) \/ (\E m \in Moves : Move(m[1], m[2]))
  BY <1>0, <1>6 DEF Edit, Move, InComputer, Alone
<1>7. CASE Settle
  <2>1. gen = NoCall /\ UNCHANGED <<ljnl, sides>> /\ cuts' = cuts
    BY <1>0, <1>7 DEF Settle, Tell
  <2>2. \/ UNCHANGED gen
        \/ Open.result # "fault" /\ pc' = "generation" /\ \E recs : StartGeneration(recs)
    BY <1>7 DEF Settle, Tell
  <2> QED
    BY <2>1, <2>2 DEF Alone, ledgerVars, Started
<1>8. CASE \E unread \in SUBSET Range(NewRows(Value, card, Rows)) : Scan(unread)
  <2>1. PICK unread \in SUBSET Range(NewRows(Value, card, Rows)) : Scan(unread)
    BY <1>8
  <2> QED
    BY <1>0, <2>1 DEF Scan, MayScan, Started
<1>9. CASE Interrupt
  BY <1>9 DEF Interrupt, Dropped
<1>10. CASE UNCHANGED vars
  BY <1>10 DEF vars, replaceVars, Alone
<1> QED
  BY <1>1, <1>2, <1>3, <1>4, <1>5, <1>6, <1>7, <1>8, <1>9, <1>10 DEF Next

\* One write of a generation.
LEMMA WriteStep ==
    ASSUME LedgerInv, NEW cut \in BOOLEAN, Write(cut)
    PROVE  Ours /\ StepOf(cut) /\ (gen' # NoCall => pc' = "generation")
           /\ cuts' = (IF cut THEN cuts + 1 ELSE cuts)
<1>1. WriteGeneration(cut)
  BY DEF Write
<1>2. gen # NoCall
  BY <1>1 DEF WriteGeneration, Announce, TruncateTarget, CloseRecords, SayRewriting,
              CommitHeader, SayCommitted, At, NoCall
<1>3. Ours
  BY <1>2 DEF LedgerInv, OwnLedger, OtherBuilds, Ours
<1>4. StepOf(cut)
  BY <1>1, <1>3, AnnounceStep, TruncateStep, CloseStep, RewritingStep, HeaderStep,
     CommittedStep DEF WriteGeneration
<1>5. cut => gen' = NoCall
  BY <1>4 DEF StepOf, Cut
<1> QED
  BY <1>3, <1>4, <1>5 DEF Write, MayCut

Proposed == IF gen = NoCall THEN {} ELSE {gen.recs}

\* The invariant is kept, and every step is one of the register's or none.
LEMMA InvStep ==
    ASSUME LedgerInv, [Next]_vars
    PROVE  /\ Shape' /\ (OwnLedger \/ OtherBuilds)'
           /\ (gen # NoCall => pc = "generation")'
           /\ Register!Next \/ UNCHANGED <<Value, Proposed, cuts>>
<1>1. Shape /\ (OwnLedger \/ OtherBuilds) /\ (gen # NoCall => pc = "generation")
  BY DEF LedgerInv
<1>2. CASE Alone /\ (gen # NoCall => pc' = pc) /\ (gen = NoCall \/ cuts' = cuts)
           /\ (cuts' = cuts \/ cuts' = cuts + 1)
  <2>1. UNCHANGED <<ljnl, sides, gen>>
    BY <1>2 DEF Alone, ledgerVars
  <2>2. Open' = Open /\ Kept /\ ForeignLedger' = ForeignLedger /\ Whole' = Whole
    BY <2>1, LedgerAlone
  <2>3. Shape'
    BY <1>1, <2>1 DEF Shape
  <2>4. Reached' = Reached
    BY <2>1 DEF Reached, At, First, Later, Announced, Down, EmptyLedger, LiveAt,
       NewestIs, Landed, ReadsBackWhole, NextHeader
  <2>5. (OwnLedger \/ OtherBuilds)'
    BY <1>1, <2>1, <2>2, <2>4 DEF OwnLedger, OtherBuilds
  <2>6. Register!Next \/ UNCHANGED <<Value, Proposed, cuts>>
    BY <1>2, <2>1, <2>2 DEF Register!Next, Register!Fail, Kept, Proposed
  <2> QED
    BY <1>1, <1>2, <2>1, <2>3, <2>5, <2>6
<1>3. CASE Started /\ cuts' = cuts
  <2>1. PICK recs : StartGeneration(recs)
    BY <1>3 DEF Started
  <2>2. OwnLedger
    BY <1>1, <1>3 DEF Started, OtherBuilds
  <2>3. Shape' /\ OwnLedger' /\ gen' # NoCall /\ gen'.recs = recs
    BY <1>1, <1>3, <2>1, <2>2, StartStep DEF Started
  <2>4. Kept
    BY <1>3, LedgerAlone DEF Started
  <2>5. Register!Propose
    BY <1>3, <2>3, <2>4 DEF Register!Propose, Started, Kept
  <2> QED
    BY <1>3, <2>3, <2>5 DEF Started, Register!Next
<1>4. ASSUME NEW cut \in BOOLEAN, Write(cut)
      PROVE  /\ Shape' /\ (OwnLedger \/ OtherBuilds)'
             /\ (gen # NoCall => pc = "generation")'
             /\ Register!Next \/ UNCHANGED <<Value, Proposed, cuts>>
  <2>1. /\ Ours /\ StepOf(cut) /\ (gen' # NoCall => pc' = "generation")
        /\ cuts' = (IF cut THEN cuts + 1 ELSE cuts)
    BY <1>4, WriteStep
  <2>2. Shape' /\ OwnLedger'
    BY <2>1 DEF StepOf, StillOurs, OwnLedger
  <2>3. gen # NoCall
    BY <2>1 DEF Ours
  <2>4. CASE cut /\ Cut
    BY <2>1, <2>2, <2>4 DEF Cut, Kept, Register!Next, Register!Fail
  <2>5. CASE ~cut /\ Same /\ Kept
    BY <2>1, <2>2, <2>3, <2>5 DEF Same, Kept, Proposed
  <2>6. CASE ~cut /\ Same /\ Value' = gen.recs
    BY <2>1, <2>2, <2>3, <2>6 DEF Same, Register!Next, Register!Land
  <2>7. CASE ~cut /\ gen' = NoCall /\ Kept /\ Value = gen.recs
    BY <2>1, <2>2, <2>3, <2>7 DEF Kept, Register!Next, Register!Answer
  <2> QED
    BY <2>1, <2>2, <2>4, <2>5, <2>6, <2>7 DEF StepOf
<1>5. CASE Dropped /\ cuts' = cuts + 1
  <2>1. Kept /\ Open' = Open /\ ForeignLedger' = ForeignLedger /\ Whole' = Whole
    BY <1>5, LedgerAlone DEF Dropped
  <2>2. Shape'
    BY <1>1, <1>5 DEF Shape, Dropped, NoCall, SlotNumbers
  <2>3. OwnLedger => Whole
    BY <1>1, ReachedIsWhole DEF OwnLedger
  <2>4. (OwnLedger \/ OtherBuilds)'
    BY <1>1, <1>5, <2>1, <2>3 DEF OwnLedger, OtherBuilds, Dropped
  <2> QED
    BY <1>5, <2>1, <2>2, <2>4 DEF Dropped, Kept, Register!Next, Register!Fail
<1> QED
  BY <1>2, <1>3, <1>4, <1>5, KindsOfStep

\* REPLACE.JNL: an intent that stands is followed by itself or by its clear.
LEMMA IntentStep ==
    ASSUME Orderly(rjnl), [Next]_vars
    PROVE  /\ Orderly(rjnl)'
           /\ IntentStands => /\ HasEntry(rjnl')
                              /\ NewestEntry(rjnl') \in {NewestEntry(rjnl), Cleared}
<1>1. CASE UNCHANGED rjnl
  BY <1>1 DEF IntentStands
<1>2. ASSUME NEW e, NEW cut \in BOOLEAN, WriteReplaceJournal(e, cut),
             IntentStands => e = Cleared
      PROVE  /\ Orderly(rjnl)'
             /\ IntentStands => /\ HasEntry(rjnl')
                                /\ NewestEntry(rjnl') \in {NewestEntry(rjnl), Cleared}
  <2>1. CASE cut
    BY <1>2, <2>1, TearLeavesNewest DEF WriteReplaceJournal, IntentStands
  <2>2. CASE ~cut
    BY <1>2, <2>2, PublishStands DEF WriteReplaceJournal
  <2> QED
    BY <2>1, <2>2
<1>3. ASSUME NEW o \in Offers, NEW cut \in BOOLEAN, Begin(o[1], o[2], cut)
      PROVE  \E e : WriteReplaceJournal(e, cut) /\ ~IntentStands
  BY <1>3 DEF Begin
<1>4. ASSUME NEW cut \in BOOLEAN, Clear(cut)
      PROVE  WriteReplaceJournal(Cleared, cut)
  BY <1>4 DEF Clear
<1>5. ASSUME \A o \in Offers, cut \in BOOLEAN : ~Begin(o[1], o[2], cut),
             \A cut \in BOOLEAN : ~Clear(cut)
      PROVE  UNCHANGED rjnl
  BY <1>5 DEF Next, vars, replaceVars, WriteIntent, Park, Land, Restore, InstallStep,
     ClearInstall, Settle, Recover, Write, Scan, Delete, Edit, Move, InComputer,
     Mount, Interrupt
<1> QED
  BY <1>1, <1>2, <1>3, <1>4, <1>5

THEOREM LedgerInvariant == Spec => []LedgerInv
<1>1. LedgerInv /\ [Next]_vars => LedgerInv'
  BY InvStep, IntentStep DEF LedgerInv
<1> QED
  BY InvInit, <1>1, PTL DEF Spec

-----------------------------------------------------------------------------
\* Whatever write is cut, and however often, the ledger is a register: what it
\* says is replaced whole, by the value a call means it to say, or not at all,
\* and a call that returns Ok finds its value there (write_generation, open).
THEOREM LedgerIsARegister == Spec => RegisterSpec
<1>1. Init => Register!Init
  BY DEF Init, Register!Init
<1>2. LedgerInv /\ [Next]_vars => [Register!Next]_<<Value, Proposed, cuts>>
  BY InvStep
<1> QED
  BY <1>1, <1>2, LedgerInvariant, PTL DEF Spec, RegisterSpec, Register!Spec, Proposed

\* Neither journal is ever left refusing, whatever is torn, and the ledger
\* opens unless another build's generation is on the card.
THEOREM AlwaysReads ==
    Spec => [](~Refuses(rjnl) /\ (Open.result = "fault" => ForeignLedger))
<1>1. LedgerInv => ~Refuses(rjnl)
  BY OrderlyReads DEF LedgerInv
<1>2. LedgerInv => (Open.result = "fault" => ForeignLedger)
  <2> SUFFICES ASSUME LedgerInv, ~ForeignLedger
               PROVE  Open.result # "fault"
    OBVIOUS
  <2>1. Orderly(ljnl) /\ Whole
    BY ReachedIsWhole DEF LedgerInv, Shape, OwnLedger, OtherBuilds
  <2> QED
    BY <2>1, OpenIsEither DEF NoLedger, Live
<1> QED
  BY <1>1, <1>2, LedgerInvariant, PTL

\* An intent in flight is never replaced by another: only its own clear
\* follows it, whichever of the two writes is torn (begin, publish).
THEOREM OneIntent == Spec => OneIntentAtATime
<1>1. LedgerInv /\ [Next]_vars
        => [HasEntry(rjnl) /\ NewestEntry(rjnl) # Cleared
              => HasEntry(rjnl') /\ NewestEntry(rjnl') \in {NewestEntry(rjnl), Cleared}]_vars
  BY IntentStep DEF LedgerInv, IntentStands
<1> QED
  BY <1>1, LedgerInvariant, PTL DEF Spec, OneIntentAtATime

\* The ledger of another build is never written: not by a scan, not by a
\* settlement, not by a call that was under way.
THEOREM ForeignIsLeft == Spec => ForeignLedgerStands
<1>1. LedgerInv /\ [Next]_vars => [ForeignLedger => UNCHANGED <<ljnl, sides>>]_vars
  <2> SUFFICES ASSUME LedgerInv, [Next]_vars, ForeignLedger
               PROVE  UNCHANGED <<ljnl, sides>>
    OBVIOUS
  <2>1. OtherBuilds
    BY DEF LedgerInv, OwnLedger
  <2>2. ASSUME NEW cut \in BOOLEAN, Write(cut) PROVE FALSE
    BY <2>2, WriteStep DEF Ours
  <2> QED
    BY <2>1, <2>2, KindsOfStep DEF OtherBuilds, Alone, Started, Dropped, ledgerVars
<1> QED
  BY <1>1, LedgerInvariant, PTL DEF Spec, ForeignLedgerStands

-----------------------------------------------------------------------------
(***************************************************************************)
(* What a pass over records leaves, by the positions it keeps.             *)
(***************************************************************************)

\* The ranks of the positions kept are 1 to as many as there are, each once.
LEMMA Ranks ==
    ASSUME NEW n \in Nat, NEW I \in SUBSET (1 .. n)
    PROVE  /\ IsFiniteSet(I) /\ Cardinality(I) \in Nat /\ Cardinality(I) <= n
           /\ \A i \in I : Rank(I, i) \in 1 .. Cardinality(I)
           /\ \A i, k \in I : i < k => Rank(I, i) < Rank(I, k)
           /\ \A j \in 1 .. Cardinality(I) : \E i \in I : Rank(I, i) = j
<1> DEFINE upto(i) == {k \in I : k <= i}
           c == Cardinality(I)
           rank == [i \in I |-> Rank(I, i)]
<1>1. IsFiniteSet(I) /\ c \in Nat /\ c <= n
  <2>1. IsFiniteSet(1 .. n) /\ Cardinality(1 .. n) = n
    BY FS_Interval
  <2> QED
    BY <2>1, FS_Subset, FS_CardinalityType
<1>2. \A i \in I : upto(i) \in SUBSET I /\ IsFiniteSet(upto(i)) /\ Cardinality(upto(i)) \in Nat
                   /\ Cardinality(upto(i)) <= c
  BY <1>1, FS_Subset, FS_CardinalityType
<1>3. \A i \in I : Rank(I, i) = Cardinality(upto(i))
  BY DEF Rank
<1>4. ASSUME NEW i \in I PROVE Rank(I, i) \in 1 .. c
  <2>1. i \in upto(i)
    OBVIOUS
  <2>2. Cardinality(upto(i)) # 0
    BY <1>2, <2>1, FS_EmptySet
  <2> QED
    BY <1>1, <1>2, <1>3, <2>2
<1>5. ASSUME NEW i \in I, NEW k \in I, i < k PROVE Rank(I, i) < Rank(I, k)
  <2>4. \A l \in I : l \in Int
    OBVIOUS
  <2>5. \A l \in I : l <= i => l <= k
    BY <1>5, <2>4
  <2>6. k <= k /\ ~(k <= i)
    BY <1>5, <2>4
  <2>1. upto(i) \in SUBSET upto(k) /\ k \in upto(k) /\ k \notin upto(i)
    BY <2>5, <2>6
  <2>2. upto(i) # upto(k)
    BY <2>1
  <2>3. Cardinality(upto(i)) <= Cardinality(upto(k)) /\ Cardinality(upto(i)) # Cardinality(upto(k))
    BY <1>2, <2>1, <2>2, FS_Subset
  <2> HIDE DEF upto
  <2> QED
    BY <1>2, <1>3, <2>3
<1>6. rank \in Injection(I, 1 .. c)
  <2>1. rank \in [I -> 1 .. c]
    BY <1>4
  <2>2. ASSUME NEW i \in I, NEW k \in I, rank[i] = rank[k] PROVE i = k
    <3>1. Rank(I, i) = Rank(I, k) /\ Rank(I, i) \in Nat
      BY <1>1, <1>4, <2>2
    <3>2. ~(i < k) /\ ~(k < i)
      BY <1>5, <3>1
    <3> QED
      BY <3>2
  <2> QED
    BY <2>1, <2>2, Fun_IsInj
<1>7. IsFiniteSet(1 .. c) /\ Cardinality(1 .. c) = c
  BY <1>1, FS_Interval
<1>8. rank \in Surjection(I, 1 .. c)
  BY <1>6, <1>7, FS_Injection
<1>9. \A i \in I : rank[i] = Rank(I, i)
  OBVIOUS
<1>10. \A j \in 1 .. c : \E i \in I : rank[i] = j
  <2> HIDE DEF rank
  <2> QED
    BY <1>8, Fun_SurjectionProperties
<1>11. \A j \in 1 .. c : \E i \in I : Rank(I, i) = j
  <2> HIDE DEF rank
  <2> QED
    BY <1>9, <1>10
<1> QED
  BY <1>1, <1>4, <1>5, <1>11

\* Each position kept is kept once: the records left are those, one for one.
LEMMA TakenIs ==
    ASSUME NEW S, NEW recs \in Seq(S), NEW I \in SUBSET DOMAIN recs
    PROVE  /\ Taken(recs, I) \in Seq(S)
           /\ IsFiniteSet(I) /\ Cardinality(I) \in Nat /\ Cardinality(I) <= Len(recs)
           /\ Len(Taken(recs, I)) = Cardinality(I)
           /\ DOMAIN Taken(recs, I) = 1 .. Cardinality(I)
           /\ \E at \in Bijection(1 .. Cardinality(I), I) :
                Taken(recs, I) = [j \in 1 .. Cardinality(I) |-> recs[at[j]]]
<1> DEFINE c == Cardinality(I)
           at == [j \in 1 .. c |-> CHOOSE i \in I : Rank(I, i) = j]
<1>1. Len(recs) \in Nat /\ DOMAIN recs = 1 .. Len(recs) /\ \A i \in 1 .. Len(recs) : recs[i] \in S
  BY LenProperties, ElementOfSeq
<1>2. /\ IsFiniteSet(I) /\ c \in Nat /\ c <= Len(recs)
      /\ \A i \in I : Rank(I, i) \in 1 .. c
      /\ \A i, k \in I : i < k => Rank(I, i) < Rank(I, k)
      /\ \A j \in 1 .. c : \E i \in I : Rank(I, i) = j
  BY <1>1, Ranks
<1>3. \A j \in 1 .. c : at[j] \in I /\ Rank(I, at[j]) = j
  BY <1>2
<1>4. at \in [1 .. c -> I]
  BY <1>3
<1>5. \A j, l \in 1 .. c : at[j] = at[l] => j = l
  BY <1>3
<1>6. ASSUME NEW i \in I PROVE \E j \in 1 .. c : at[j] = i
  <2>1. PICK j \in 1 .. c : j = Rank(I, i)
    BY <1>2
  <2>2. at[j] \in I /\ Rank(I, at[j]) = Rank(I, i)
    BY <1>3, <2>1
  <2>3. Rank(I, i) \in Nat
    BY <1>2
  <2>4. ~(at[j] < i) /\ ~(i < at[j])
    BY <1>2, <2>2, <2>3
  <2>5. at[j] \in Int /\ i \in Int
    BY <1>1, <2>2
  <2>6. at[j] = i
    BY ONLY <2>4, <2>5
  <2> QED
    BY <2>6
<1>7. at \in Bijection(1 .. c, I)
  BY <1>4, <1>5, <1>6, Fun_IsBij
<1>8. Taken(recs, I) = [j \in 1 .. c |-> recs[at[j]]]
  BY <1>3 DEF Taken
<1> HIDE DEF at
<1>9. \A j \in 1 .. c : recs[at[j]] \in S
  BY <1>1, <1>3
<1>10. Taken(recs, I) \in [1 .. c -> S]
  BY <1>8, <1>9
<1>11. Taken(recs, I) \in Seq(S)
  BY <1>2, <1>10, SeqDef
<1>12. Len(Taken(recs, I)) = c
  BY <1>2, <1>10, <1>11, LenProperties
<1> QED
  BY <1>2, <1>7, <1>8, <1>10, <1>11, <1>12

\* Every record left is one of those at the positions kept, every one of them
\* is left, and two that are left were two.
LEMMA TakenHas ==
    ASSUME NEW S, NEW recs \in Seq(S), NEW I \in SUBSET DOMAIN recs
    PROVE  /\ \A i \in I : \E j \in DOMAIN Taken(recs, I) : Taken(recs, I)[j] = recs[i]
           /\ \A j \in DOMAIN Taken(recs, I) : \E i \in I : Taken(recs, I)[j] = recs[i]
           /\ \A j, l \in DOMAIN Taken(recs, I) : j # l =>
                \E i, k \in I : /\ i # k
                                /\ Taken(recs, I)[j] = recs[i] /\ Taken(recs, I)[l] = recs[k]
<1> DEFINE c == Cardinality(I)
<1>1. DOMAIN Taken(recs, I) = 1 .. c
  BY TakenIs
<1>2. PICK at \in Bijection(1 .. c, I) : Taken(recs, I) = [j \in 1 .. c |-> recs[at[j]]]
  BY TakenIs
<1>3. /\ at \in [1 .. c -> I]
      /\ \A j, l \in 1 .. c : at[j] = at[l] => j = l
      /\ \A i \in I : \E j \in 1 .. c : at[j] = i
  <2> HIDE DEF c
  <2>1. at \in [1 .. c -> I]
    BY <1>2, Fun_BijectionProperties
  <2>2. \A j, l \in 1 .. c : at[j] = at[l] => j = l
    BY <1>2, Fun_BijectionProperties
  <2>3. \A i \in I : \E j \in 1 .. c : at[j] = i
    BY <1>2 DEF Bijection, Surjection
  <2> QED
    BY <2>1, <2>2, <2>3
<1>4. \A j \in 1 .. c : Taken(recs, I)[j] = recs[at[j]] /\ at[j] \in I
  BY <1>2, <1>3
<1> QED
  BY <1>1, <1>3, <1>4

LEMMA Elements ==
    ASSUME NEW S, NEW recs \in Seq(S)
    PROVE  /\ Len(recs) \in Nat /\ DOMAIN recs = 1 .. Len(recs)
           /\ \A i \in DOMAIN recs : recs[i] \in S /\ i \in Nat
BY LenProperties, ElementOfSeq

\* One position left out is one record fewer.
LEMMA TakenFewer ==
    ASSUME NEW S, NEW recs \in Seq(S), NEW I \in SUBSET DOMAIN recs,
           NEW i \in DOMAIN recs, i \notin I
    PROVE  Len(Taken(recs, I)) < Len(recs)
<1>1. Len(recs) \in Nat /\ DOMAIN recs = 1 .. Len(recs)
  BY Elements
<1>2. IsFiniteSet(DOMAIN recs) /\ Cardinality(DOMAIN recs) = Len(recs)
  <2>1. \A n \in Nat : IsFiniteSet(1 .. n) /\ Cardinality(1 .. n) = n
    BY FS_Interval
  <2> QED
    BY <1>1, <2>1
<1>3. I # DOMAIN recs
  OBVIOUS
<1>4. Cardinality(I) <= Len(recs) /\ Cardinality(I) # Len(recs)
  BY <1>2, <1>3, FS_Subset
<1>5. Len(Taken(recs, I)) = Cardinality(I) /\ Cardinality(I) \in Nat
  BY TakenIs
<1> QED
  BY <1>1, <1>4, <1>5

-----------------------------------------------------------------------------
(***************************************************************************)
(* What the records of a generation may be, and what the three operations  *)
(* make of them.                                                           *)
(***************************************************************************)
Apart(a, b) ==
    /\ a.id # b.id
    /\ ~IsAt(a, b.name, b.size)
    /\ a.misses = 0 /\ b.misses = 0 => a.name # b.name

\* No two copies under one id, none at the same place with the same length,
\* and no two that were there at the last scan under one name.
IsLibrary(recs) ==
    /\ recs \in Seq(Record)
    /\ Len(recs) <= MaxRecords
    /\ \A i, k \in DOMAIN recs : i # k => Apart(recs[i], recs[k])

\* The copy under an id is recorded at a place, with a length.
Says(recs, id, name, size) ==
    \E i \in DOMAIN recs : recs[i].id = id /\ IsAt(recs[i], name, size)

LEMMA Numbers ==
    /\ MaxRecords \in Nat /\ MissingScansRetained \in Nat
    /\ SizeOf \in [Contents -> Nat]
    /\ None \notin Contents \cup Names \cup Ids
BY LedgerAssumption

LEMMA EmptyLibrary == IsLibrary(<<>>)
<1>1. <<>> \in Seq(Record) /\ Len(<<>>) = 0 /\ DOMAIN <<>> = {}
  BY EmptySeq
<1> QED
  BY <1>1, Numbers DEF IsLibrary

LEMMA TakenLibrary ==
    ASSUME NEW recs \in Seq(Record), NEW I \in SUBSET DOMAIN recs,
           Len(recs) <= MaxRecords,
           \A i, k \in I : i # k => Apart(recs[i], recs[k])
    PROVE  IsLibrary(Taken(recs, I))
<1>1. /\ Taken(recs, I) \in Seq(Record) /\ Cardinality(I) \in Nat
      /\ Cardinality(I) <= Len(recs) /\ Len(Taken(recs, I)) = Cardinality(I)
  BY TakenIs
<1>2. Len(Taken(recs, I)) <= MaxRecords
  BY <1>1, Elements, Numbers
<1>3. ASSUME NEW j \in DOMAIN Taken(recs, I), NEW l \in DOMAIN Taken(recs, I), j # l
      PROVE  Apart(Taken(recs, I)[j], Taken(recs, I)[l])
  <2>1. PICK i \in I, k \in I :
            i # k /\ Taken(recs, I)[j] = recs[i] /\ Taken(recs, I)[l] = recs[k]
    BY <1>3, TakenHas
  <2> QED
    BY <2>1
<1> QED
  BY <1>1, <1>2, <1>3 DEF IsLibrary

LEMMA ApartSymmetric ==
    ASSUME NEW a, NEW b, Apart(a, b)
    PROVE  Apart(b, a)
BY DEF Apart, IsAt

\* publish_record: the record is there, every other is one that was, and a
\* record goes only with the id, from the place, or as the one evicted.
Publishes(recs, r, evict, out) ==
    /\ IsLibrary(out)
    /\ \E j \in DOMAIN out : out[j] = r
    /\ \A j \in DOMAIN out : out[j] = r \/ \E i \in DOMAIN recs : out[j] = recs[i]
    /\ \A i \in DOMAIN recs :
         \/ recs[i].id \in {r.id, evict} \/ recs[i].name = r.name
         \/ \E j \in DOMAIN out : out[j] = recs[i]

LEMMA PublishOver ==
    ASSUME NEW recs, IsLibrary(recs), NEW r \in Record, r.misses = 0, NEW evict,
           HasId(recs, r.id)
    PROVE  Publishes(recs, r, evict, PublishRecord(recs, r, evict))
<1> DEFINE stays == {i \in DOMAIN recs : recs[i].id = r.id \/ recs[i].name # r.name}
           carried == [i \in DOMAIN recs |-> IF recs[i].id = r.id THEN r ELSE recs[i]]
           out == Taken(carried, stays)
<1>1. /\ recs \in Seq(Record) /\ Len(recs) \in Nat /\ DOMAIN recs = 1 .. Len(recs)
      /\ \A i \in DOMAIN recs : recs[i] \in Record
      /\ Len(recs) <= MaxRecords
      /\ \A i, k \in DOMAIN recs : i # k => Apart(recs[i], recs[k])
  BY Elements DEF IsLibrary
<1>2. \A i \in DOMAIN recs : recs[i].id # None
  BY <1>1, Numbers DEF Record
<1>3. PublishRecord(recs, r, evict) = out
  <2>1. {i \in DOMAIN recs : recs[i].id # None
                              /\ (recs[i].id = r.id \/ recs[i].name # r.name)} = stays
    BY <1>2
  <2> QED
    BY <2>1 DEF PublishRecord
<1>4. /\ carried \in Seq(Record) /\ DOMAIN carried = DOMAIN recs /\ Len(carried) = Len(recs)
      /\ stays \in SUBSET DOMAIN carried
  <2>1. carried \in [1 .. Len(recs) -> Record]
    BY <1>1
  <2>2. carried \in Seq(Record)
    BY <1>1, <2>1, SeqDef
  <2> QED
    BY <1>1, <2>1, <2>2, LenProperties
<1>5. \A i \in DOMAIN recs : carried[i] = IF recs[i].id = r.id THEN r ELSE recs[i]
  OBVIOUS
<1>6. PICK p \in DOMAIN recs : recs[p].id = r.id
  BY DEF HasId
<1>7. p \in stays /\ carried[p] = r
  BY <1>5, <1>6
<1>8. ASSUME NEW i \in stays, i # p
      PROVE  carried[i] = recs[i] /\ Apart(recs[i], r) /\ Apart(r, recs[i])
  <2>1. recs[i].id # r.id
    BY <1>1, <1>6, <1>8 DEF Apart
  <2>2. recs[i].name # r.name
    BY <2>1
  <2> QED
    BY <1>5, <2>1, <2>2 DEF Apart, IsAt
<1>9. ASSUME NEW i \in stays, NEW k \in stays, i # k PROVE Apart(carried[i], carried[k])
  BY <1>1, <1>7, <1>8, <1>9
<1> HIDE DEF carried, stays
<1>10. IsLibrary(out)
  BY <1>1, <1>4, <1>9, TakenLibrary
<1>11. \E j \in DOMAIN out : out[j] = r
  BY <1>4, <1>7, TakenHas
<1>12. ASSUME NEW j \in DOMAIN out PROVE out[j] = r \/ \E i \in DOMAIN recs : out[j] = recs[i]
  <2>1. PICK i \in stays : out[j] = carried[i]
    BY <1>4, TakenHas
  <2> QED
    BY <1>4, <1>7, <1>8, <2>1
<1>13. ASSUME NEW i \in DOMAIN recs, recs[i].id # r.id, recs[i].name # r.name
      PROVE  \E j \in DOMAIN out : out[j] = recs[i]
  <2>1. i \in stays /\ carried[i] = recs[i]
    BY <1>13 DEF stays, carried
  <2> QED
    BY <1>4, <2>1, TakenHas
<1> HIDE DEF out
<1> QED
  BY <1>3, <1>10, <1>11, <1>12, <1>13 DEF Publishes

LEMMA PublishBeside ==
    ASSUME NEW recs, IsLibrary(recs), NEW r \in Record, r.misses = 0, NEW evict,
           ~HasId(recs, r.id), ~PublishIsFull(recs, r, evict)
    PROVE  Publishes(recs, r, evict, PublishRecord(recs, r, evict))
<1> DEFINE goes == IF Len(recs) >= MaxRecords THEN evict ELSE None
           stays == {i \in DOMAIN recs :
                        recs[i].id # goes /\ (recs[i].id = r.id \/ recs[i].name # r.name)}
           stayed == Taken(recs, stays)
           out == Append(stayed, r)
<1>1. /\ recs \in Seq(Record) /\ Len(recs) \in Nat /\ DOMAIN recs = 1 .. Len(recs)
      /\ \A i \in DOMAIN recs : recs[i] \in Record
      /\ Len(recs) <= MaxRecords
      /\ \A i, k \in DOMAIN recs : i # k => Apart(recs[i], recs[k])
  BY Elements DEF IsLibrary
<1>2. \A i \in DOMAIN recs : recs[i].id # None /\ recs[i].id # r.id
  BY <1>1, Numbers DEF Record, HasId
<1>3. PublishRecord(recs, r, evict) = out
  <2>1. [i \in DOMAIN recs |-> IF recs[i].id = r.id THEN r ELSE recs[i]] = recs
    <3>1. \A i \in DOMAIN recs : recs[i].id # r.id
      BY <1>2
    <3>2. recs = [i \in DOMAIN recs |-> recs[i]]
      BY <1>1
    <3> QED
      BY <3>1, <3>2
  <2> QED
    BY <2>1 DEF PublishRecord
<1>4. stays \in SUBSET DOMAIN recs
  OBVIOUS
<1>5. \A i \in stays : recs[i].name # r.name /\ recs[i].id # r.id
  BY <1>2
<1>6. IsLibrary(stayed)
  BY <1>1, <1>4, TakenLibrary
<1>7. stayed \in Seq(Record) /\ Len(stayed) \in Nat /\ DOMAIN stayed = 1 .. Len(stayed)
  BY <1>6, Elements DEF IsLibrary
<1>8. Len(stayed) < MaxRecords
  <2>1. CASE Len(recs) < MaxRecords
    <3>1. Len(stayed) <= Len(recs)
      BY <1>1, <1>4, TakenIs
    <3> QED
      BY <1>1, <1>7, <2>1, <3>1, Numbers
  <2>2. CASE Len(recs) >= MaxRecords
    <3>1. HasId(recs, evict)
      BY <2>2 DEF PublishIsFull
    <3>2. PICK i \in DOMAIN recs : recs[i].id = evict
      BY <3>1 DEF HasId
    <3>3. i \notin stays
      BY <2>2, <3>2
    <3>4. Len(stayed) < Len(recs)
      BY <1>1, <1>4, <3>3, TakenFewer
    <3> QED
      BY <1>1, <1>7, <3>4, Numbers
  <2> QED
    BY <1>1, <2>1, <2>2, Numbers
<1>9. /\ out \in Seq(Record) /\ Len(out) = Len(stayed) + 1
      /\ DOMAIN out = 1 .. Len(stayed) + 1
      /\ \A i \in 1 .. Len(stayed) : out[i] = stayed[i]
      /\ out[Len(stayed) + 1] = r
  BY <1>7, AppendProperties, LenProperties
<1>10. \A j \in DOMAIN stayed : \E i \in stays : stayed[j] = recs[i]
  BY <1>1, <1>4, TakenHas
<1>11. ASSUME NEW j \in DOMAIN stayed PROVE Apart(stayed[j], r) /\ Apart(r, stayed[j])
  <2>1. PICK i \in stays : stayed[j] = recs[i]
    BY <1>10
  <2>2. recs[i].name # r.name /\ recs[i].id # r.id
    BY <1>5
  <2> QED
    BY <2>1, <2>2 DEF Apart, IsAt
<1>12. \A i \in stays : \E j \in DOMAIN stayed : stayed[j] = recs[i]
  BY <1>1, <1>4, TakenHas
<1>13. \A i \in DOMAIN recs : recs[i].id # evict /\ recs[i].name # r.name => i \in stays
  BY <1>2
<1> HIDE DEF stayed, out, stays, goes
<1>14. Len(out) <= MaxRecords
  BY <1>7, <1>8, <1>9, Numbers
<1>15. ASSUME NEW j \in DOMAIN out, NEW l \in DOMAIN out, j # l
      PROVE  Apart(out[j], out[l])
  <2>1. CASE j \in DOMAIN stayed /\ l \in DOMAIN stayed
    BY <1>6, <1>7, <1>9, <1>15, <2>1 DEF IsLibrary
  <2>2. CASE j \notin DOMAIN stayed
    <3>1. j = Len(stayed) + 1 /\ l \in DOMAIN stayed
      BY <1>7, <1>9, <1>15, <2>2
    <3> QED
      BY <1>7, <1>9, <1>11, <3>1
  <2>3. CASE l \notin DOMAIN stayed
    <3>1. l = Len(stayed) + 1 /\ j \in DOMAIN stayed
      BY <1>7, <1>9, <1>15, <2>3
    <3> QED
      BY <1>7, <1>9, <1>11, <3>1
  <2> QED
    BY <2>1, <2>2, <2>3
<1>16. IsLibrary(out)
  BY <1>9, <1>14, <1>15 DEF IsLibrary
<1>17. \E j \in DOMAIN out : out[j] = r
  <2>1. Len(stayed) + 1 \in DOMAIN out
    BY <1>7, <1>9
  <2> QED
    BY <1>9, <2>1
<1>18. ASSUME NEW j \in DOMAIN out PROVE out[j] = r \/ \E i \in DOMAIN recs : out[j] = recs[i]
  <2>1. CASE j \in DOMAIN stayed
    BY <1>4, <1>7, <1>9, <1>10, <2>1
  <2>2. CASE j \notin DOMAIN stayed
    <3>1. j = Len(stayed) + 1
      BY <1>7, <1>9, <2>2
    <3> QED
      BY <1>9, <3>1
  <2> QED
    BY <2>1, <2>2
<1>19. ASSUME NEW i \in DOMAIN recs, recs[i].id # evict, recs[i].name # r.name
      PROVE  \E j \in DOMAIN out : out[j] = recs[i]
  <2>1. PICK j \in DOMAIN stayed : stayed[j] = recs[i]
    BY <1>12, <1>13, <1>19
  <2>2. j \in DOMAIN out /\ out[j] = stayed[j]
    BY <1>7, <1>9
  <2> QED
    BY <2>1, <2>2
<1> QED
  BY <1>3, <1>16, <1>17, <1>18, <1>19 DEF Publishes

LEMMA PublishIs ==
    ASSUME NEW recs, IsLibrary(recs), NEW r \in Record, r.misses = 0, NEW evict,
           ~PublishIsFull(recs, r, evict)
    PROVE  Publishes(recs, r, evict, PublishRecord(recs, r, evict))
BY PublishOver, PublishBeside

\* relocate_record: the copy is at the name it is given, with the length it
\* had, and only the copies of that name go.
Relocates(recs, id, name, out) ==
    /\ IsLibrary(out)
    /\ \A i \in DOMAIN recs : recs[i].id = id => Says(out, id, name, recs[i].size)
    /\ \A j \in DOMAIN out : out[j].id = id \/ \E i \in DOMAIN recs : out[j] = recs[i]
    /\ \A j \in DOMAIN out : \E i \in DOMAIN recs :
         out[j].id = recs[i].id /\ out[j].name \in {name, recs[i].name}
    /\ \A i \in DOMAIN recs :
         recs[i].id = id \/ recs[i].name = name \/ \E j \in DOMAIN out : out[j] = recs[i]

LEMMA RelocateIs ==
    ASSUME NEW recs, IsLibrary(recs), NEW id, NEW name \in Names
    PROVE  Relocates(recs, id, name, RelocateRecord(recs, id, name))
<1> DEFINE stays == {i \in DOMAIN recs : recs[i].id = id \/ recs[i].name # name}
           at(r) == [r EXCEPT !.name = name, !.misses = 0]
           moved == [i \in DOMAIN recs |->
                       IF recs[i].id = id THEN [recs[i] EXCEPT !.name = name, !.misses = 0]
                       ELSE recs[i]]
           out == Taken(moved, stays)
<1>1. /\ recs \in Seq(Record) /\ Len(recs) \in Nat /\ DOMAIN recs = 1 .. Len(recs)
      /\ \A i \in DOMAIN recs : recs[i] \in Record
      /\ Len(recs) <= MaxRecords
      /\ \A i, k \in DOMAIN recs : i # k => Apart(recs[i], recs[k])
  BY Elements DEF IsLibrary
<1>2. RelocateRecord(recs, id, name) = out
  BY DEF RelocateRecord
<1>3. ASSUME NEW r \in Record
      PROVE  /\ at(r) \in Record /\ at(r).id = r.id /\ at(r).name = name
             /\ at(r).size = r.size /\ at(r).misses = 0
  <2>1. 0 \in 0 .. MissingScansRetained
    BY Numbers
  <2>2. at(r) \in Record
    BY <1>3, <2>1 DEF Record
  <2>3. at(r).id = r.id
    BY <1>3 DEF Record
  <2>4. at(r).name = name
    BY <1>3 DEF Record
  <2>5. at(r).size = r.size
    BY <1>3 DEF Record
  <2>6. at(r).misses = 0
    BY <1>3 DEF Record
  <2> QED
    BY <2>2, <2>3, <2>4, <2>5, <2>6
<1>4. ASSUME NEW i \in DOMAIN recs
      PROVE  /\ moved[i] \in Record /\ moved[i].id = recs[i].id /\ moved[i].size = recs[i].size
             /\ recs[i].id = id => moved[i].name = name
             /\ recs[i].id # id => moved[i] = recs[i]
  <2>1. moved[i] = IF recs[i].id = id THEN at(recs[i]) ELSE recs[i]
    OBVIOUS
  <2> HIDE DEF moved, at
  <2> QED
    BY <1>1, <1>3, <2>1
<1>5. DOMAIN moved = DOMAIN recs
  OBVIOUS
<1> HIDE DEF moved, at
<1>6. /\ moved \in Seq(Record) /\ Len(moved) = Len(recs) /\ stays \in SUBSET DOMAIN moved
  <2>1. moved \in [1 .. Len(recs) -> Record]
    <3>1. moved = [i \in DOMAIN recs |-> moved[i]]
      BY DEF moved
    <3> QED
      BY <1>1, <1>4, <3>1
  <2>2. moved \in Seq(Record)
    BY <1>1, <2>1, SeqDef
  <2> QED
    BY <1>1, <1>5, <2>1, <2>2, LenProperties
<1>7. \A i \in stays : i \in DOMAIN recs /\ (recs[i].id = id \/ recs[i].name # name)
  OBVIOUS
<1>8. \A i \in DOMAIN recs : recs[i].id = id \/ recs[i].name # name => i \in stays
  OBVIOUS
<1> HIDE DEF stays
<1>9. ASSUME NEW i \in stays, NEW k \in stays, i # k PROVE Apart(moved[i], moved[k])
  <2>1. Apart(recs[i], recs[k]) /\ i \in DOMAIN recs /\ k \in DOMAIN recs
    BY <1>1, <1>7, <1>9
  <2>2. recs[i].id # recs[k].id
    BY <2>1 DEF Apart
  <2>3. CASE recs[i].id # id /\ recs[k].id # id
    BY <1>4, <2>1, <2>3
  <2>4. CASE recs[i].id = id
    <3>1. recs[k].id # id /\ recs[k].name # name /\ moved[k] = recs[k]
          /\ moved[i].name = name /\ moved[i].id = id
      BY <1>4, <1>7, <2>1, <2>2, <2>4
    <3> QED
      BY <3>1 DEF Apart, IsAt
  <2>5. CASE recs[k].id = id
    <3>1. recs[i].id # id /\ recs[i].name # name /\ moved[i] = recs[i]
          /\ moved[k].name = name /\ moved[k].id = id
      BY <1>4, <1>7, <2>1, <2>2, <2>5
    <3> QED
      BY <3>1 DEF Apart, IsAt
  <2> QED
    BY <2>3, <2>4, <2>5
<1>10. IsLibrary(out)
  BY <1>1, <1>6, <1>9, TakenLibrary
<1>11. \A i \in stays : \E j \in DOMAIN out : out[j] = moved[i]
  BY <1>6, TakenHas
<1>12. \A j \in DOMAIN out : \E i \in stays : out[j] = moved[i]
  BY <1>6, TakenHas
<1> HIDE DEF out
<1>13. ASSUME NEW i \in DOMAIN recs, recs[i].id = id PROVE Says(out, id, name, recs[i].size)
  <2>1. PICK j \in DOMAIN out : out[j] = moved[i]
    BY <1>8, <1>11, <1>13
  <2> QED
    BY <1>4, <1>13, <2>1 DEF Says, IsAt
<1>14. ASSUME NEW j \in DOMAIN out
      PROVE  /\ out[j].id = id \/ \E i \in DOMAIN recs : out[j] = recs[i]
             /\ \E i \in DOMAIN recs : out[j].id = recs[i].id /\ out[j].name \in {name, recs[i].name}
  <2>1. PICK i \in stays : out[j] = moved[i]
    BY <1>12
  <2> QED
    BY <1>4, <1>7, <2>1
<1>15. ASSUME NEW i \in DOMAIN recs, recs[i].id # id, recs[i].name # name
      PROVE  \E j \in DOMAIN out : out[j] = recs[i]
  BY <1>4, <1>8, <1>11, <1>15
<1> QED
  BY <1>2, <1>10, <1>13, <1>14, <1>15 DEF Relocates

\* What is at the positions kept is all that counts.
LEMMA TakenAlike ==
    ASSUME NEW S, NEW recs \in Seq(S), NEW other, NEW I \in SUBSET DOMAIN recs,
           \A i \in I : other[i] = recs[i]
    PROVE  Taken(other, I) = Taken(recs, I)
<1>1. Len(recs) \in Nat /\ DOMAIN recs = 1 .. Len(recs)
  BY Elements
<1>2. \A j \in 1 .. Cardinality(I) : \E i \in I : Rank(I, i) = j
  BY <1>1, Ranks
<1>3. \A j \in 1 .. Cardinality(I) :
        other[CHOOSE i \in I : Rank(I, i) = j] = recs[CHOOSE i \in I : Rank(I, i) = j]
  BY <1>2
<1> QED
  BY <1>3 DEF Taken

\* The first of some positions is one of them.
LEMMA FirstOf ==
    ASSUME NEW n \in Nat, NEW I \in SUBSET (1 .. n), I # {}
    PROVE  Min(I) \in I
<1>1. /\ IsFiniteSet(I) /\ Cardinality(I) \in Nat
      /\ \A j \in 1 .. Cardinality(I) : \E i \in I : Rank(I, i) = j
  BY Ranks
<1>2. Cardinality(I) # 0
  BY <1>1, FS_EmptySet
<1>3. 1 \in 1 .. Cardinality(I)
  BY <1>1, <1>2
<1>4. PICK i \in I : Rank(I, i) = 1
  BY <1>1, <1>3
<1> DEFINE upto == {k \in I : k <= i}
<1>5. IsFiniteSet(upto) /\ Cardinality(upto) = 1
  <2>1. upto \in SUBSET I
    OBVIOUS
  <2> QED
    BY <1>1, <1>4, <2>1, FS_Subset DEF Rank
<1>6. PICK x : upto = {x}
  BY <1>5, FS_Singleton
<1>7. i \in upto
  OBVIOUS
<1>8. \A k \in I : i <= k
  <2> TAKE k \in I
  <2>1. CASE k <= i
    BY <1>6, <1>7, <2>1
  <2>2. CASE ~(k <= i)
    BY <2>2
  <2> QED
    BY <2>1, <2>2
<1> QED
  BY <1>8 DEF Min

\* find_record, on a ledger without two copies at one place and length.
LEMMA FindIs ==
    ASSUME NEW v, v = Value, IsLibrary(v), NEW name, NEW size
    PROVE  /\ FindRecord(name, size) = None \/ FindRecord(name, size) \in Ids
           /\ \A id \in Ids : FindRecord(name, size) = id <=> Says(v, id, name, size)
<1> DEFINE found == {i \in DOMAIN v : IsAt(v[i], name, size)}
<1>1. /\ v \in Seq(Record) /\ Len(v) \in Nat /\ DOMAIN v = 1 .. Len(v)
      /\ \A i \in DOMAIN v : v[i] \in Record
      /\ \A i, k \in DOMAIN v : i # k => Apart(v[i], v[k])
  BY Elements DEF IsLibrary
<1>2. FindRecord(name, size) = IF found = {} THEN None ELSE v[Min(found)].id
  BY DEF FindRecord
<1>3. ASSUME NEW i \in found, NEW k \in found PROVE i = k
  BY <1>1, <1>3 DEF Apart, IsAt
<1>4. found # {} => Min(found) \in found
  <2>1. found \in SUBSET (1 .. Len(v))
    BY <1>1
  <2> HIDE DEF found
  <2> QED
    BY <1>1, <2>1, FirstOf
<1>5. None \notin Ids
  BY Numbers
<1>6. \A i \in DOMAIN v : v[i].id \in Ids
  BY <1>1 DEF Record
<1> QED
  BY <1>2, <1>3, <1>4, <1>5, <1>6 DEF Says

-----------------------------------------------------------------------------
(***************************************************************************)
(* A scan's join.                                                          *)
(***************************************************************************)

\* The names a card is listed by, each once.
ListOf(files, rows) ==
    /\ rows \in Seq(Names)
    /\ \A i, k \in DOMAIN rows : rows[i] = rows[k] => i = k
    /\ \A k \in DOMAIN rows : files[rows[k]] # None

LEMMA Catalog ==
    /\ CatalogOrder \in Seq(Names)
    /\ \A i, k \in DOMAIN CatalogOrder : CatalogOrder[i] = CatalogOrder[k] => i = k
    /\ \A n \in Names : \E k \in DOMAIN CatalogOrder : CatalogOrder[k] = n
    /\ IsFiniteSet(Names)
<1>1. /\ CatalogOrder \in Seq(Names) /\ Range(CatalogOrder) = Names
      /\ \A i, k \in DOMAIN CatalogOrder : CatalogOrder[i] = CatalogOrder[k] => i = k
  BY ReplaceAssumption
<1>2. \A n \in Names : \E k \in DOMAIN CatalogOrder : CatalogOrder[k] = n
  BY <1>1 DEF Range
<1>3. /\ Len(CatalogOrder) \in Nat /\ DOMAIN CatalogOrder = 1 .. Len(CatalogOrder)
      /\ CatalogOrder \in [1 .. Len(CatalogOrder) -> Names]
  BY <1>1, LenProperties
<1>4. CatalogOrder \in Surjection(1 .. Len(CatalogOrder), Names)
  BY <1>2, <1>3, Fun_IsSurj
<1>5. IsFiniteSet(1 .. Len(CatalogOrder))
  BY <1>3, FS_Interval
<1>6. IsFiniteSet(Names)
  BY <1>4, <1>5, FS_Surjection
<1> QED
  BY <1>1, <1>2, <1>6

LEMMA RowsAre ==
    ASSUME NEW files, files = card
    PROVE  ListOf(files, Rows)
<1> DEFINE here == {k \in DOMAIN CatalogOrder : files[CatalogOrder[k]] # None}
           rows == Taken(CatalogOrder, here)
<1>1. Rows = rows
  BY DEF Rows
<1>2. here \in SUBSET DOMAIN CatalogOrder /\ CatalogOrder \in Seq(Names)
  BY Catalog
<1>3. \A k \in here : files[CatalogOrder[k]] # None
  OBVIOUS
<1> HIDE DEF here
<1>4. rows \in Seq(Names)
  BY <1>2, TakenIs
<1>5. \A j \in DOMAIN rows : \E i \in here : rows[j] = CatalogOrder[i]
  BY <1>2, TakenHas
<1>6. ASSUME NEW j \in DOMAIN rows, NEW l \in DOMAIN rows, rows[j] = rows[l] PROVE j = l
  <2> SUFFICES ASSUME j # l PROVE FALSE
    OBVIOUS
  <2>1. PICK i \in here, k \in here : i # k /\ rows[j] = CatalogOrder[i] /\ rows[l] = CatalogOrder[k]
    BY <1>2, TakenHas
  <2> QED
    BY <1>2, <1>6, <2>1, Catalog
<1>7. \A j \in DOMAIN rows : files[rows[j]] # None
  BY <1>3, <1>5
<1> HIDE DEF rows
<1> QED
  BY <1>1, <1>4, <1>6, <1>7 DEF ListOf

\* A record takes a row if its file is there with its length, and no other
\* record can.
LEMMA NamedIs ==
    ASSUME NEW recs, IsLibrary(recs), NEW files
    PROVE  Named(recs, files) =
             {i \in DOMAIN recs : files[recs[i].name] # None
                                  /\ recs[i].size = SizeOf[files[recs[i].name]]}
<1>1. Len(recs) \in Nat /\ DOMAIN recs = 1 .. Len(recs)
  BY Elements DEF IsLibrary
<1>2. ASSUME NEW i \in DOMAIN recs, NEW k \in 1 .. i - 1
      PROVE  ~IsAt(recs[k], recs[i].name, recs[i].size)
  <2>1. k \in DOMAIN recs /\ k # i
    BY <1>1
  <2> QED
    BY <2>1 DEF IsLibrary, Apart
<1> QED
  BY <1>2 DEF Named, IsAt

\* The rows no record takes: listed once, and no record is at one with the
\* length of what is there.
LEMMA NewRowsAre ==
    ASSUME NEW recs, IsLibrary(recs), NEW files, NEW rows, ListOf(files, rows)
    PROVE  /\ ListOf(files, NewRows(recs, files, rows))
           /\ \A k \in DOMAIN NewRows(recs, files, rows), i \in DOMAIN recs :
                LET n == NewRows(recs, files, rows)[k] IN
                /\ i \in Named(recs, files) => recs[i].name # n
                /\ ~IsAt(recs[i], n, SizeOf[files[n]])
<1> DEFINE I == {k \in DOMAIN rows : \A i \in Named(recs, files) : recs[i].name # rows[k]}
           new == Taken(rows, I)
<1>1. NewRows(recs, files, rows) = new
  BY DEF NewRows
<1>2. I \in SUBSET DOMAIN rows /\ rows \in Seq(Names)
  BY DEF ListOf
<1>3. \A k \in I : \A i \in Named(recs, files) : recs[i].name # rows[k]
  OBVIOUS
<1> HIDE DEF I
<1>4. new \in Seq(Names)
  BY <1>2, TakenIs
<1>5. \A j \in DOMAIN new : \E i \in I : new[j] = rows[i]
  BY <1>2, TakenHas
<1>6. ASSUME NEW j \in DOMAIN new, NEW l \in DOMAIN new, new[j] = new[l] PROVE j = l
  <2> SUFFICES ASSUME j # l PROVE FALSE
    OBVIOUS
  <2>1. PICK i \in I, k \in I : i # k /\ new[j] = rows[i] /\ new[l] = rows[k]
    BY <1>2, TakenHas
  <2> QED
    BY <1>2, <1>6, <2>1 DEF ListOf
<1>7. \A j \in DOMAIN new : files[new[j]] # None
  BY <1>2, <1>5 DEF ListOf
<1>8. ASSUME NEW k \in DOMAIN new, NEW i \in DOMAIN recs
      PROVE  /\ i \in Named(recs, files) => recs[i].name # new[k]
             /\ ~IsAt(recs[i], new[k], SizeOf[files[new[k]]])
  <2>1. i \in Named(recs, files) => recs[i].name # new[k]
    BY <1>3, <1>5
  <2>2. IsAt(recs[i], new[k], SizeOf[files[new[k]]]) => i \in Named(recs, files)
    BY <1>7, NamedIs DEF IsAt
  <2> QED
    BY <2>1, <2>2 DEF IsAt
<1> HIDE DEF new
<1> QED
  BY <1>1, <1>4, <1>6, <1>7, <1>8 DEF ListOf

\* What a card has room for: the records that take a row and the rows none
\* takes are no more than the books on it.
LEMMA RowsFit ==
    ASSUME NEW recs, IsLibrary(recs), NEW files, IsLibraryCard(files),
           NEW rows, ListOf(files, rows)
    PROVE  /\ IsFiniteSet(Named(recs, files))
           /\ Cardinality(Named(recs, files)) \in Nat
           /\ Len(NewRows(recs, files, rows)) \in Nat
           /\ Cardinality(Named(recs, files)) + Len(NewRows(recs, files, rows)) <= MaxRecords
<1> DEFINE N == Named(recs, files)
           new == NewRows(recs, files, rows)
           held == {n \in Names : files[n] # None}
           name == [i \in N |-> recs[i].name]
<1>1. /\ Len(recs) \in Nat /\ DOMAIN recs = 1 .. Len(recs)
      /\ \A i \in DOMAIN recs : recs[i] \in Record
      /\ \A i, k \in DOMAIN recs : i # k => Apart(recs[i], recs[k])
  BY Elements DEF IsLibrary
<1>2. N \in SUBSET (1 .. Len(recs))
        /\ \A i \in N : files[recs[i].name] # None
                        /\ recs[i].size = SizeOf[files[recs[i].name]]
  BY <1>1, NamedIs
<1>3. IsFiniteSet(N) /\ Cardinality(N) \in Nat
  BY <1>1, <1>2, Ranks
<1>4. new \in Seq(Names) /\ \A k \in DOMAIN new : files[new[k]] # None
        /\ \A i, l \in DOMAIN new : new[i] = new[l] => i = l
  BY NewRowsAre DEF ListOf
<1>5. \A k \in DOMAIN new, i \in N : recs[i].name # new[k]
  BY <1>1, <1>2, NewRowsAre
<1>6. IsFiniteSet(held) /\ Cardinality(held) \in Nat /\ Cardinality(held) <= MaxRecords
  <2>1. held \in SUBSET Names
    OBVIOUS
  <2>2. IsFiniteSet(held)
    BY <2>1, Catalog, FS_Subset
  <2> QED
    BY <2>2, FS_CardinalityType DEF IsLibraryCard
<1> HIDE DEF N, new
<1>7. name \in Injection(N, held)
  <2>1. \A i \in N : recs[i].name \in held
    BY <1>1, <1>2 DEF Record
  <2>2. ASSUME NEW i \in N, NEW k \in N, name[i] = name[k] PROVE i = k
    BY <1>1, <1>2, <2>2 DEF Apart, IsAt
  <2>3. name \in [N -> held]
    BY <2>1
  <2> QED
    BY <2>2, <2>3, Fun_IsInj
<1>8. /\ Len(new) \in Nat /\ DOMAIN new = 1 .. Len(new)
      /\ new \in [1 .. Len(new) -> held]
  BY <1>4, LenProperties
<1>9. new \in Injection(1 .. Len(new), held)
  BY <1>4, <1>8, Fun_IsInj
<1>10. \A n \in Range(name) : \E i \in N : n = recs[i].name
  BY DEF Range
<1>11. \A n \in Range(new) : \E k \in DOMAIN new : n = new[k]
  BY DEF Range
<1>12. Range(name) \cap Range(new) = {}
  BY <1>5, <1>10, <1>11
<1>13. Range(name) \in SUBSET held /\ Range(new) \in SUBSET held
  <2>1. \A i \in N : name[i] \in held
    BY <1>7, Fun_InjectionProperties
  <2>2. \A i \in N : name[i] = recs[i].name
    OBVIOUS
  <2> HIDE DEF name
  <2> QED
    BY <1>8, <1>10, <1>11, <2>1, <2>2
<1> HIDE DEF name, held
<1>14. Cardinality(Range(name)) = Cardinality(N) /\ IsFiniteSet(Range(name))
  <2>1. name \in Bijection(N, Range(name))
    BY <1>7, Fun_InjMeansBijImage
  <2> QED
    BY <1>3, <2>1, FS_Bijection, Fun_ExistsBij
<1>15. Cardinality(Range(new)) = Len(new) /\ IsFiniteSet(Range(new))
  <2>1. new \in Bijection(1 .. Len(new), Range(new))
    BY <1>9, Fun_InjMeansBijImage
  <2>2. \A n \in Nat : IsFiniteSet(1 .. n) /\ Cardinality(1 .. n) = n
    BY FS_Interval
  <2>3. IsFiniteSet(1 .. Len(new)) /\ Cardinality(1 .. Len(new)) = Len(new)
    BY <1>8, <2>2
  <2> QED
    BY <2>1, <2>3, FS_Bijection, Fun_ExistsBij
<1>16. Cardinality(Range(name) \cup Range(new)) = Cardinality(N) + Len(new)
  <2>1. Cardinality({}) = 0
    BY FS_EmptySet
  <2>2. Cardinality(Range(name) \cup Range(new))
          = Cardinality(Range(name)) + Cardinality(Range(new)) - Cardinality({})
    BY <1>12, <1>14, <1>15, FS_Union
  <2> QED
    BY <1>3, <1>8, <1>14, <1>15, <2>1, <2>2
<1>17. Cardinality(Range(name) \cup Range(new)) <= Cardinality(held)
  <2>1. Range(name) \cup Range(new) \in SUBSET held
    BY <1>13
  <2> QED
    BY <1>6, <2>1, FS_Subset
<1>18. Cardinality(N) + Len(new) <= MaxRecords
  BY <1>3, <1>6, <1>8, <1>16, <1>17, Numbers
<1> QED
  BY <1>3, <1>8, <1>18 DEF N, new

\* The missing copies carried are those there is room for.
LEMMA CarriedFit ==
    ASSUME NEW recs, IsLibrary(recs), NEW files, IsLibraryCard(files),
           NEW rows, ListOf(files, rows), NEW unread
    PROVE  LET N == Named(recs, files)
               aged == CarryMissing(recs, files, rows, unread) IN
           /\ N \in SUBSET DOMAIN recs
           /\ aged \in SUBSET DOMAIN recs
           /\ \A i \in aged : /\ i \notin N
                              /\ recs[i].misses < MissingScansRetained
                              /\ MovedTo(recs, files, rows, unread, i) = {}
           /\ Cardinality(N \cup aged) + Len(NewRows(recs, files, rows)) <= MaxRecords
<1> DEFINE N == Named(recs, files)
           new == NewRows(recs, files, rows)
           room == MaxRecords - (Cardinality(N) + Len(new))
           ages == {i \in DOMAIN recs \ N : /\ MovedTo(recs, files, rows, unread, i) = {}
                                            /\ recs[i].misses < MissingScansRetained}
           aged == {i \in ages : Rank(ages, i) <= room}
           rank == [i \in aged |-> Rank(ages, i)]
<1>1. CarryMissing(recs, files, rows, unread) = aged
  BY DEF CarryMissing
<1>2. /\ Len(recs) \in Nat /\ DOMAIN recs = 1 .. Len(recs)
  BY Elements DEF IsLibrary
<1>3. /\ IsFiniteSet(N) /\ Cardinality(N) \in Nat /\ Len(new) \in Nat
      /\ Cardinality(N) + Len(new) <= MaxRecords
  BY RowsFit
<1>4. room \in Nat
  BY <1>3, Numbers
<1>5. N \in SUBSET DOMAIN recs
  BY NamedIs
<1>6. \A i \in ages : /\ i \in DOMAIN recs /\ i \notin N
                      /\ recs[i].misses < MissingScansRetained
                      /\ MovedTo(recs, files, rows, unread, i) = {}
  OBVIOUS
<1>7. ages \in SUBSET (1 .. Len(recs))
  BY <1>2
<1> HIDE DEF ages, N, new
<1>8. /\ IsFiniteSet(ages)
      /\ \A i \in ages : Rank(ages, i) \in 1 .. Cardinality(ages)
      /\ \A i, k \in ages : i < k => Rank(ages, i) < Rank(ages, k)
      /\ Cardinality(ages) \in Nat
  BY <1>2, <1>7, Ranks
<1>9. aged \in SUBSET ages
  OBVIOUS
<1>10. IsFiniteSet(aged) /\ Cardinality(aged) \in Nat
  BY <1>8, <1>9, FS_Subset, FS_CardinalityType
<1>11. \A i \in aged : Rank(ages, i) \in 1 .. room
  BY <1>4, <1>8
<1>12. rank \in Injection(aged, 1 .. room)
  <2>1. rank \in [aged -> 1 .. room]
    BY <1>11
  <2>2. ASSUME NEW i \in aged, NEW k \in aged, rank[i] = rank[k] PROVE i = k
    <3>1. i \in ages /\ k \in ages /\ i \in Int /\ k \in Int
      BY <1>2, <1>7
    <3>2. Rank(ages, i) = Rank(ages, k) /\ Rank(ages, i) \in Int
      BY <1>8, <2>2, <3>1
    <3>3. ~(i < k) /\ ~(k < i)
      BY <1>8, <3>1, <3>2
    <3> QED
      BY ONLY <3>1, <3>3
  <2> QED
    BY <2>1, <2>2, Fun_IsInj
<1> HIDE DEF rank, aged, room
<1>13. Cardinality(aged) <= room
  <2>1. IsFiniteSet(1 .. room) /\ Cardinality(1 .. room) = room
    BY <1>4, FS_Interval
  <2> QED
    BY <1>12, <2>1, FS_Injection
<1>14. Cardinality(N \cup aged) <= Cardinality(N) + Cardinality(aged)
  <2>1. Cardinality(N \cup aged) = Cardinality(N) + Cardinality(aged) - Cardinality(N \cap aged)
    BY <1>3, <1>10, FS_Union
  <2>2. Cardinality(N \cap aged) \in Nat
    BY <1>3, FS_Intersection, FS_CardinalityType
  <2> QED
    BY <1>3, <1>10, <2>1, <2>2
<1>15. Cardinality(N \cup aged) \in Nat
  BY <1>3, <1>10, FS_Union, FS_CardinalityType
<1>16. Cardinality(N \cup aged) + Len(new) <= MaxRecords
  BY <1>3, <1>10, <1>13, <1>14, <1>15, Numbers DEF room
<1> QED
  BY <1>1, <1>5, <1>6, <1>9, <1>16 DEF N, new

\* The ids a ledger carries have been minted.
MintedBy(recs, n) == \A i \in DOMAIN recs : recs[i].id <= n

LEMMA IdsAre == Ids = 1 .. MaxIds /\ MaxIds \in Nat
BY ReplaceAssumption

\* A scan's join leaves a library, and every copy whose file is where its
\* record says keeps its record.
LEMMA AssignIs ==
    ASSUME NEW recs, IsLibrary(recs), NEW files, IsLibraryCard(files),
           NEW rows, ListOf(files, rows), NEW unread,
           NEW next \in Nat, MintedBy(recs, next),
           next + Len(NewRows(recs, files, rows)) <= MaxIds,
           NEW fresh, fresh = [k \in DOMAIN NewRows(recs, files, rows) |-> next + k]
    PROVE  LET out == AssignBookIds(recs, files, rows, unread, fresh) IN
           /\ IsLibrary(out)
           /\ MintedBy(out, next + Len(NewRows(recs, files, rows)))
           /\ \A i \in Named(recs, files) : Says(out, recs[i].id, recs[i].name, recs[i].size)
<1> DEFINE N == Named(recs, files)
           aged == CarryMissing(recs, files, rows, unread)
           new == NewRows(recs, files, rows)
           c == Len(new)
           carried == [i \in DOMAIN recs |->
             [recs[i] EXCEPT !.misses = IF i \in N THEN 0 ELSE @ + 1]]
           movers(n) == {i \in DOMAIN recs \ N : MovedTo(recs, files, rows, unread, i) = {n}}
           adopt(k) ==
             LET n == new[k]
                 m == movers(n)
             IN  [id |-> IF m = {} THEN fresh[k] ELSE recs[CHOOSE i \in m : TRUE].id,
                  name |-> n, size |-> SizeOf[files[n]], misses |-> 0,
                  source |-> IF m = {} THEN None ELSE files[n]]
           adopted == [k \in DOMAIN new |-> adopt(k)]
           I == N \cup aged
           stayed == Taken(carried, I)
           out == stayed \o adopted
<1>1. AssignBookIds(recs, files, rows, unread, fresh) = out
  BY DEF AssignBookIds
<1>2. /\ recs \in Seq(Record) /\ Len(recs) \in Nat /\ DOMAIN recs = 1 .. Len(recs)
      /\ \A i \in DOMAIN recs : recs[i] \in Record
      /\ \A i, k \in DOMAIN recs : i # k => Apart(recs[i], recs[k])
      /\ Len(recs) <= MaxRecords
  BY Elements DEF IsLibrary
<1>3. /\ N \in SUBSET DOMAIN recs /\ aged \in SUBSET DOMAIN recs
      /\ \A i \in aged : /\ i \notin N
                         /\ recs[i].misses < MissingScansRetained
                         /\ MovedTo(recs, files, rows, unread, i) = {}
      /\ Cardinality(I) + c <= MaxRecords
  BY CarriedFit
<1>4. /\ new \in Seq(Names) /\ c \in Nat /\ DOMAIN new = 1 .. c
      /\ \A k \in DOMAIN new : new[k] \in Names /\ files[new[k]] # None
      /\ \A i, k \in DOMAIN new : new[i] = new[k] => i = k
  BY NewRowsAre, Elements DEF ListOf
<1>5. \A k \in DOMAIN new, i \in DOMAIN recs :
        /\ i \in N => recs[i].name # new[k]
        /\ ~IsAt(recs[i], new[k], SizeOf[files[new[k]]])
  BY NewRowsAre
<1>6. \A i, k \in N : i # k => recs[i].name # recs[k].name
  BY <1>2, NamedIs DEF Apart, IsAt
<1>7. \A k \in DOMAIN new : fresh[k] = next + k
  OBVIOUS
<1>8. \A k \in DOMAIN new : SizeOf[files[new[k]]] \in Sizes /\ files[new[k]] \in Contents
  BY <1>4 DEF IsLibraryCard, Sizes
<1> DEFINE old == [i \in DOMAIN recs |-> IF i \in I THEN carried[i] ELSE recs[i]]
<1>9. ASSUME NEW i \in I
      PROVE  /\ carried[i] \in Record
             /\ carried[i].id = recs[i].id /\ carried[i].name = recs[i].name
             /\ carried[i].size = recs[i].size
             /\ carried[i].misses = 0 => i \in N
  <2>1. i \in DOMAIN recs /\ recs[i] \in Record
    BY <1>2, <1>3
  <2>2. PICK m : m = IF i \in N THEN 0 ELSE recs[i].misses + 1
    OBVIOUS
  <2>3. carried[i] = [recs[i] EXCEPT !.misses = m]
    BY <2>1, <2>2 DEF Record
  <2>4. recs[i].misses \in 0 .. MissingScansRetained
    BY <2>1 DEF Record
  <2>5. m \in 0 .. MissingScansRetained /\ (m = 0 => i \in N)
    BY <1>3, <1>9, <2>2, <2>4, Numbers
  <2> HIDE DEF carried
  <2>6. carried[i] \in Record
    BY <2>1, <2>3, <2>5 DEF Record
  <2>7. /\ carried[i].id = recs[i].id /\ carried[i].name = recs[i].name
        /\ carried[i].size = recs[i].size /\ carried[i].misses = m
    BY <2>1, <2>3 DEF Record
  <2> QED
    BY <2>5, <2>6, <2>7
<1> HIDE DEF N, aged, new, carried
<1>10. /\ old \in Seq(Record) /\ DOMAIN old = DOMAIN recs /\ Len(old) = Len(recs)
       /\ I \in SUBSET DOMAIN old
  <2>1. \A i \in DOMAIN recs : old[i] \in Record
    BY <1>2, <1>9
  <2>2. old \in [1 .. Len(recs) -> Record]
    BY <1>2, <2>1
  <2>3. old \in Seq(Record)
    BY <1>2, <2>2, SeqDef
  <2> QED
    BY <1>2, <1>3, <2>2, <2>3, LenProperties
<1>11. \A i \in I : old[i] = carried[i]
  BY <1>3
<1> HIDE DEF old, I
<1>12. stayed = Taken(old, I)
  BY <1>10, <1>11, TakenAlike
<1>13. I = N \cup aged
  BY DEF I
<1>14. ASSUME NEW i \in I, NEW k \in I, i # k PROVE Apart(old[i], old[k])
  <2>1. Apart(recs[i], recs[k])
    BY <1>2, <1>3, <1>13, <1>14
  <2>2. /\ old[i].id = recs[i].id /\ old[i].name = recs[i].name /\ old[i].size = recs[i].size
        /\ old[k].id = recs[k].id /\ old[k].name = recs[k].name /\ old[k].size = recs[k].size
        /\ old[i].misses = 0 => i \in N
        /\ old[k].misses = 0 => k \in N
    BY <1>9, <1>11
  <2> QED
    BY <1>6, <1>14, <2>1, <2>2 DEF Apart, IsAt
<1>15. /\ stayed \in Seq(Record) /\ Len(stayed) = Cardinality(I) /\ Len(stayed) \in Nat
       /\ DOMAIN stayed = 1 .. Len(stayed)
       /\ \A j, l \in DOMAIN stayed : j # l => Apart(stayed[j], stayed[l])
  <2>1. IsLibrary(Taken(old, I))
    BY <1>2, <1>10, <1>14, TakenLibrary
  <2>2. Len(Taken(old, I)) = Cardinality(I)
    BY <1>10, TakenIs
  <2> QED
    BY <1>12, <2>1, <2>2, Elements DEF IsLibrary
<1>16. \A j \in DOMAIN stayed : \E i \in I : stayed[j] = old[i]
  BY <1>10, <1>12, TakenHas
<1>17. \A i \in I : \E j \in DOMAIN stayed : stayed[j] = old[i]
  BY <1>10, <1>12, TakenHas
<1> HIDE DEF stayed
<1>18. ASSUME NEW k \in DOMAIN new
       PROVE  /\ adopt(k).name = new[k] /\ adopt(k).size = SizeOf[files[new[k]]]
              /\ adopt(k).misses = 0
              /\ adopt(k).id \in Ids /\ adopt(k) \in Record
              /\ \/ adopt(k).id = next + k
                 \/ \E i \in DOMAIN recs \ I :
                      /\ adopt(k).id = recs[i].id
                      /\ MovedTo(recs, files, rows, unread, i) = {new[k]}
  <2>1. /\ adopt(k).name = new[k] /\ adopt(k).size = SizeOf[files[new[k]]]
        /\ adopt(k).misses = 0
    OBVIOUS
  <2>2. CASE movers(new[k]) = {}
    <3>1. adopt(k) = [id |-> next + k, name |-> new[k], size |-> SizeOf[files[new[k]]],
                      misses |-> 0, source |-> None]
      BY <1>7, <2>2
    <3>2. next + k \in Ids
      BY <1>4, IdsAre DEF new
    <3>3. 0 \in 0 .. MissingScansRetained
      BY Numbers
    <3> HIDE DEF adopt
    <3>4. adopt(k).id = next + k /\ adopt(k) \in Record
      BY <1>4, <1>8, <3>1, <3>2, <3>3 DEF Record
    <3> QED
      BY <2>1, <3>2, <3>4 DEF adopt
  <2>3. CASE movers(new[k]) # {}
    <3>1. PICK i \in movers(new[k]) : i = CHOOSE x \in movers(new[k]) : TRUE
      BY <2>3
    <3>2. adopt(k) = [id |-> recs[i].id, name |-> new[k], size |-> SizeOf[files[new[k]]],
                      misses |-> 0, source |-> files[new[k]]]
      BY <2>3, <3>1
    <3>3. i \in DOMAIN recs /\ i \notin N /\ MovedTo(recs, files, rows, unread, i) = {new[k]}
      BY <3>1
    <3>4. i \notin aged
      BY <1>3, <3>3
    <3>5. recs[i].id \in Ids
      BY <1>2, <3>3 DEF Record
    <3>6. 0 \in 0 .. MissingScansRetained
      BY Numbers
    <3> HIDE DEF adopt
    <3>7. adopt(k).id = recs[i].id /\ adopt(k) \in Record
      BY <1>4, <1>8, <3>2, <3>5, <3>6 DEF Record
    <3>8. i \in DOMAIN recs \ I
      BY <1>13, <3>3, <3>4
    <3> QED
      BY <2>1, <3>3, <3>5, <3>7, <3>8 DEF adopt
  <2> QED
    BY <2>2, <2>3
<1> HIDE DEF adopt
<1>19. /\ adopted \in Seq(Record) /\ Len(adopted) = c /\ DOMAIN adopted = 1 .. c
       /\ \A k \in DOMAIN new : adopted[k] = adopt(k)
  <2>1. adopted \in [1 .. c -> Record]
    BY <1>4, <1>18
  <2>2. adopted \in Seq(Record)
    BY <1>4, <2>1, SeqDef
  <2> QED
    BY <1>4, <2>1, <2>2, LenProperties
<1>20. ASSUME NEW k \in DOMAIN new, NEW l \in DOMAIN new, k # l
       PROVE  Apart(adopt(k), adopt(l))
  <2>1. new[k] # new[l]
    BY <1>4, <1>20
  <2>2. adopt(k).id # adopt(l).id
    <3>1. CASE adopt(k).id = next + k
      <4>1. CASE adopt(l).id = next + l
        BY <1>4, <1>20, <3>1, <4>1
      <4>2. ASSUME NEW i \in DOMAIN recs, adopt(l).id = recs[i].id PROVE adopt(k).id # adopt(l).id
        BY <1>2, <1>4, <3>1, <4>2, IdsAre DEF MintedBy, Record
      <4> QED
        BY <1>18, <4>1, <4>2
    <3>2. ASSUME NEW i \in DOMAIN recs, adopt(k).id = recs[i].id,
                 MovedTo(recs, files, rows, unread, i) = {new[k]}
          PROVE  adopt(k).id # adopt(l).id
      <4>1. CASE adopt(l).id = next + l
        BY <1>2, <1>4, <3>2, <4>1, IdsAre DEF MintedBy, Record
      <4>2. ASSUME NEW j \in DOMAIN recs, adopt(l).id = recs[j].id,
                   MovedTo(recs, files, rows, unread, j) = {new[l]}
            PROVE  adopt(k).id # adopt(l).id
        <5>1. i # j
          BY <2>1, <3>2, <4>2
        <5> QED
          BY <1>2, <3>2, <4>2, <5>1 DEF Apart
      <4> QED
        BY <1>18, <4>1, <4>2
    <3> QED
      BY <1>18, <3>1, <3>2
  <2> QED
    BY <1>18, <2>1, <2>2 DEF Apart, IsAt
<1>21. ASSUME NEW j \in DOMAIN stayed, NEW k \in DOMAIN new PROVE Apart(stayed[j], adopt(k))
  <2>1. PICK i \in I : stayed[j] = old[i]
    BY <1>16
  <2>2. /\ i \in DOMAIN recs
        /\ stayed[j].id = recs[i].id /\ stayed[j].name = recs[i].name /\ stayed[j].size = recs[i].size
        /\ stayed[j].misses = 0 => i \in N
    BY <1>3, <1>9, <1>11, <1>13, <2>1
  <2>3. stayed[j].id # adopt(k).id
    <3>1. CASE adopt(k).id = next + k
      BY <1>2, <1>4, <2>2, <3>1, IdsAre DEF MintedBy, Record
    <3>2. ASSUME NEW l \in DOMAIN recs \ I, adopt(k).id = recs[l].id
          PROVE  stayed[j].id # adopt(k).id
      BY <1>2, <2>1, <2>2, <3>2 DEF Apart
    <3> QED
      BY <1>18, <3>1, <3>2
  <2>4. ~IsAt(recs[i], new[k], SizeOf[files[new[k]]]) /\ (i \in N => recs[i].name # new[k])
    BY <1>5, <2>2
  <2> QED
    BY <1>18, <2>2, <2>3, <2>4 DEF Apart, IsAt
<1> HIDE DEF adopted
<1>22. /\ out \in Seq(Record) /\ Len(out) = Len(stayed) + c
       /\ DOMAIN out = 1 .. Len(stayed) + c
       /\ \A i \in 1 .. Len(stayed) : out[i] = stayed[i]
       /\ \A i \in DOMAIN out : i > Len(stayed) =>
            i - Len(stayed) \in DOMAIN new /\ out[i] = adopt(i - Len(stayed))
  <2>1. /\ out \in Seq(Record) /\ Len(out) = Len(stayed) + Len(adopted)
        /\ \A i \in 1 .. Len(stayed) + Len(adopted) :
             out[i] = IF i <= Len(stayed) THEN stayed[i] ELSE adopted[i - Len(stayed)]
    BY <1>15, <1>19, ConcatProperties
  <2> HIDE DEF out, c
  <2>2. Len(out) = Len(stayed) + c /\ DOMAIN out = 1 .. Len(stayed) + c
    BY <1>19, <2>1, LenProperties
  <2>3. \A i \in 1 .. Len(stayed) : out[i] = stayed[i]
    BY <1>4, <1>15, <1>19, <2>1
  <2>4. ASSUME NEW i \in DOMAIN out, i > Len(stayed)
        PROVE  i - Len(stayed) \in DOMAIN new /\ out[i] = adopt(i - Len(stayed))
    <3>1. i - Len(stayed) \in 1 .. c
      BY <1>4, <1>15, <2>2, <2>4
    <3>2. out[i] = adopted[i - Len(stayed)]
      BY <1>4, <1>15, <1>19, <2>1, <2>2, <2>4
    <3> QED
      BY <1>4, <1>19, <3>1, <3>2
  <2> QED
    BY <2>1, <2>2, <2>3, <2>4
<1> HIDE DEF out
<1>23. Len(out) <= MaxRecords
  BY <1>3, <1>4, <1>15, <1>22, Numbers DEF I, N, aged, new
<1>24. ASSUME NEW j \in DOMAIN out, NEW l \in DOMAIN out, j < l
       PROVE  Apart(out[j], out[l])
  <2>1. j \in Nat /\ l \in Nat /\ 1 <= j
    BY <1>4, <1>15, <1>22
  <2>2. CASE l <= Len(stayed)
    <3>1. j \in DOMAIN stayed /\ l \in DOMAIN stayed /\ j # l
      BY <1>15, <1>24, <2>1, <2>2
    <3> QED
      BY <1>15, <1>22, <3>1
  <2>3. CASE l > Len(stayed) /\ j <= Len(stayed)
    <3>1. j \in DOMAIN stayed
      BY <1>15, <2>1, <2>3
    <3>2. out[j] = stayed[j]
      BY <1>15, <1>22, <3>1
    <3>3. l - Len(stayed) \in DOMAIN new /\ out[l] = adopt(l - Len(stayed))
      BY <1>22, <2>3
    <3> QED
      BY <1>21, <3>1, <3>2, <3>3
  <2>4. CASE j > Len(stayed)
    <3>1. l > Len(stayed) /\ j - Len(stayed) # l - Len(stayed)
      BY <1>15, <1>24, <2>1, <2>4
    <3>2. j - Len(stayed) \in DOMAIN new /\ out[j] = adopt(j - Len(stayed))
      BY <1>22, <2>4
    <3>3. l - Len(stayed) \in DOMAIN new /\ out[l] = adopt(l - Len(stayed))
      BY <1>22, <3>1
    <3> QED
      BY <1>20, <3>1, <3>2, <3>3
  <2> QED
    BY <1>15, <2>1, <2>2, <2>3, <2>4
<1>25. ASSUME NEW j \in DOMAIN out, NEW l \in DOMAIN out, j # l
       PROVE  Apart(out[j], out[l])
  <2>1. j \in Int /\ l \in Int
    BY <1>22
  <2>2. j < l \/ l < j
    BY <1>25, <2>1
  <2> QED
    BY <1>24, <2>2, ApartSymmetric
<1>26. IsLibrary(out)
  BY <1>22, <1>23, <1>25 DEF IsLibrary
<1>27. ASSUME NEW j \in DOMAIN out PROVE out[j].id <= next + c
  <2>1. \A i \in DOMAIN recs : recs[i].id <= next + c
    BY <1>2, <1>4, IdsAre DEF MintedBy, Record
  <2>2. CASE j <= Len(stayed)
    <3>1. j \in DOMAIN stayed /\ out[j] = stayed[j]
      BY <1>4, <1>15, <1>22, <2>2
    <3>2. PICK i \in I : stayed[j] = old[i]
      BY <1>16, <3>1
    <3>3. i \in DOMAIN recs /\ stayed[j].id = recs[i].id
      BY <1>3, <1>9, <1>11, <1>13, <3>2
    <3> QED
      BY <2>1, <3>1, <3>3
  <2>3. CASE j > Len(stayed)
    <3>1. PICK k \in DOMAIN new : out[j] = adopt(k)
      BY <1>22, <2>3
    <3>2. k <= c /\ k \in Nat
      BY <1>4
    <3>3. adopt(k).id = next + k \/ \E i \in DOMAIN recs : adopt(k).id = recs[i].id
      BY <1>18
    <3> QED
      BY <1>4, <2>1, <3>1, <3>2, <3>3
  <2>4. j \in Int /\ Len(stayed) \in Int
    BY <1>15, <1>22
  <2> QED
    BY <2>2, <2>3, <2>4
<1>28. ASSUME NEW i \in N PROVE Says(out, recs[i].id, recs[i].name, recs[i].size)
  <2>1. PICK j \in DOMAIN stayed : stayed[j] = old[i]
    BY <1>13, <1>17
  <2>2. j \in DOMAIN out /\ out[j] = stayed[j]
    BY <1>4, <1>15, <1>22
  <2>3. out[j].id = recs[i].id /\ IsAt(out[j], recs[i].name, recs[i].size)
    BY <1>9, <1>11, <1>13, <2>1, <2>2 DEF IsAt
  <2> QED
    BY <2>2, <2>3 DEF Says
<1> QED
  BY <1>1, <1>26, <1>27, <1>28 DEF MintedBy, N, new

-----------------------------------------------------------------------------
(***************************************************************************)
(* The card, the intent that stands and what the ledger says, between any  *)
(* two writes.  files is what the card holds, recs the records of a        *)
(* generation, s an intent.                                                *)
(***************************************************************************)

\* A record's file is where it says, with the length it says.
InPlace(files, r) == files[r.name] # None /\ SizeOf[files[r.name]] = r.size

\* Nothing is at the place of an intent.
Vacant(files, s) == \A n \in Names : Fold[n] = Fold[s.name] => files[n] = None

\* What is at the other places.
Elsewhere(files, s) == {n \in Names : files[n] # None /\ Fold[n] # Fold[s.name]}

\* The catalog has room for the book of an intent.
HasRoom(files, s) == Cardinality(Elsewhere(files, s)) < MaxRecords

\* The destination is one of the two landings.
Resolved(files, s) ==
    /\ s.from # None => files[s.name] # None \/ files[s.from] # None
    /\ s.from = None => files[s.name] \in {None, s.new}

\* The copy to let go of has no file, but for the one that is to replace it.
Evictable(files, recs, s) ==
    \A i \in DOMAIN recs :
        recs[i].id = s.evict => files[recs[i].name] = None \/ recs[i].name = s.name

\* An intent there is room for, in the ledger and in the catalog.
IsIntent(s, files, recs, next) ==
    /\ s \in Intent
    /\ s.from # None => Fold[s.from] = Fold[s.name]
    /\ s.id <= next
    /\ HasRoom(files, s)
    /\ HasId(recs, s.id) \/ Len(recs) < MaxRecords \/ HasId(recs, s.evict)
    /\ Evictable(files, recs, s)

\* The install of an intent, by how far it has got.
InstallAt(i, s, files) ==
    /\ i \in Installs
    /\ i.name = s.name /\ i.from = s.from /\ i.new = s.new
    /\ i.at = "written" /\ s.from = None => Vacant(files, s) /\ i.old = None
    /\ i.at = "written" /\ s.from # None => i.old # None /\ files[s.from] = i.old
    /\ i.at = "parked" => s.from # None /\ i.old # None /\ Vacant(files, s)
    /\ i.at = "landed" => files[s.name] = s.new
    /\ i.at = "restored" => Resolved(files, s)

\* Where the copy an intent replaces can be: as it was, replaced, put back
\* under the name typed, or put back and recorded there.
OldStands(s, files, recs) ==
    /\ files[s.from] # None
    /\ Says(recs, s.id, s.from, SizeOf[files[s.from]])
    /\ s.from # s.name => files[s.from] # s.new
NewStands(s, files, recs) == files[s.name] = s.new /\ HasId(recs, s.id)
Untold(s, files, recs) ==
    /\ s.from # s.name
    /\ files[s.name] # None
    /\ Says(recs, s.id, s.from, SizeOf[files[s.name]])
Told(s, files, recs) ==
    /\ files[s.name] # None
    /\ Says(recs, s.id, s.name, SizeOf[files[s.name]])

\* The copy k remembers is at its place, under its id.
KeptAt(k, files, recs) ==
    \E n \in Names : /\ files[n] # None /\ Fold[n] = k.place
                     /\ Says(recs, k.id, n, SizeOf[files[n]])

\* While an intent stands over the copy k remembers: with the install i, the
\* firmware at a step, and the side it saw land.
KeepsId(s, k, files, recs, i, at, side) ==
    /\ s.from # None /\ s.id = k.id /\ Fold[s.name] = k.place
    /\ at = "begun" => OldStands(s, files, recs)
    /\ i # None =>
         /\ i.at = "written" => OldStands(s, files, recs)
         /\ i.at = "parked" => Says(recs, s.id, s.from, SizeOf[i.old])
         /\ i.at = "landed" => NewStands(s, files, recs)
         /\ i.at = "restored" => OldStands(s, files, recs) \/ Untold(s, files, recs)
    /\ i = None => \/ OldStands(s, files, recs) \/ NewStands(s, files, recs)
                   \/ Untold(s, files, recs) \/ Told(s, files, recs)
    /\ at = "settle" /\ side = "new" => NewStands(s, files, recs)
    /\ at = "settle" /\ side # "new" =>
         OldStands(s, files, recs) \/ Untold(s, files, recs) \/ Told(s, files, recs)
    /\ at = "clear" => OldStands(s, files, recs) \/ Told(s, files, recs)

\* Both generations, the live one and the one being written, are libraries.
Libraries ==
    /\ nextId \in Nat
    /\ IsLibrary(Value) /\ MintedBy(Value, nextId)
    /\ gen # NoCall => IsLibrary(gen.recs) /\ MintedBy(gen.recs, nextId)

\* What stands at each step of the firmware.
Phases ==
    /\ inst # None => pc \in {"install", "recover"} /\ IntentStands
    /\ pc = "install" => inst # None
    /\ pc \in {"begun", "settle", "clear"} => inst = None /\ IntentStands
    /\ pc = "idle" => inst = None /\ ~IntentStands
    /\ pc = "generation" => inst = None
    /\ pc = "settle" => landed \in {"new", "old"}
    /\ pc # "refused"
    /\ IntentStands => Open.result # "fault"

Intents ==
    IntentStands =>
        /\ IsIntent(Standing, card, Value, nextId)
        /\ inst = None => Resolved(card, Standing)
        /\ inst # None => InstallAt(inst, Standing, card)
        /\ pc = "begun" /\ Standing.from = None => Vacant(card, Standing)
        /\ pc = "begun" /\ Standing.from # None => card[Standing.from] # None
        /\ gen # NoCall => /\ HasId(gen.recs, Standing.id)
                           /\ Evictable(card, gen.recs, Standing)

\* The generation being written leaves out no copy that is in place, unless it
\* makes way for the one that landed there.
Remembered ==
    gen # NoCall =>
        \A i \in DOMAIN Value : InPlace(card, Value[i]) =>
            HasId(gen.recs, Value[i].id) \/ (IntentStands /\ Standing.name = Value[i].name)

Identity ==
    kept # None /\ ~kept.again =>
        /\ IntentStands => KeepsId(Standing, kept, card, Value, inst, pc, landed)
        /\ IntentStands /\ gen # NoCall => Told(Standing, card, gen.recs)
        /\ ~IntentStands => KeptAt(kept, card, Value)
        /\ ~IntentStands /\ gen # NoCall => KeptAt(kept, card, gen.recs)

\* The inductive invariant, beside LedgerInv.
LibraryInv ==
    /\ IsLibraryCard(card) /\ Libraries /\ Phases /\ Intents
    /\ Remembered /\ Identity

-----------------------------------------------------------------------------
\* What a step that leaves the ledger, or its journal, or the intent alone,
\* leaves of what they say.
LEMMA LedgerSame ==
    ASSUME UNCHANGED ledgerVars
    PROVE  Value' = Value /\ Open' = Open /\ gen' = gen
BY LedgerAlone DEF Kept, ledgerVars

LEMMA IntentSame ==
    ASSUME UNCHANGED rjnl
    PROVE  IntentStands' = IntentStands /\ Standing' = Standing
BY DEF IntentStands, Standing

\* REPLACE.JNL torn, and written whole.
LEMMA IntentTorn ==
    ASSUME Orderly(rjnl), rjnl' = Tear(rjnl)
    PROVE  IntentStands' = IntentStands /\ Standing' = Standing
<1>1. HasEntry(rjnl') <=> HasEntry(rjnl)
  BY TearLeavesNewest
<1>2. HasEntry(rjnl) => NewestEntry(rjnl') = NewestEntry(rjnl)
  BY TearLeavesNewest
<1> QED
  BY <1>1, <1>2 DEF IntentStands, Standing

LEMMA IntentWritten ==
    ASSUME Orderly(rjnl), NEW e, rjnl' = Publish(rjnl, e)
    PROVE  /\ e # Cleared => IntentStands' /\ Standing' = e
           /\ e = Cleared => ~IntentStands'
BY PublishStands DEF IntentStands, Standing

LEMMA IdNumbers == Ids \subseteq Nat /\ Ids \subseteq Int
BY IdsAre

LEMMA TypedRecords ==
    ASSUME NEW recs, IsLibrary(recs), NEW i \in DOMAIN recs
    PROVE  /\ recs[i] \in Record /\ i \in Nat
           /\ recs[i].id \in Ids /\ recs[i].name \in Names
           /\ recs[i].misses \in Nat
           /\ recs[i].id # None
<1>1. recs \in Seq(Record)
  BY DEF IsLibrary
<1>2. recs[i] \in Record /\ i \in Nat
  BY <1>1, Elements
<1> QED
  BY <1>2, Numbers DEF Record

\* Ids minted stay minted.
LEMMA MintedOn ==
    ASSUME NEW recs, IsLibrary(recs), NEW n \in Nat, NEW m \in Nat, n <= m, MintedBy(recs, n)
    PROVE  MintedBy(recs, m)
<1>1. ASSUME NEW i \in DOMAIN recs PROVE recs[i].id <= m
  <2>1. recs[i].id \in Int
    BY <1>1, TypedRecords, IdNumbers
  <2>2. recs[i].id <= n
    BY <1>1 DEF MintedBy
  <2> QED
    BY <2>1, <2>2
<1> QED
  BY <1>1 DEF MintedBy

LEMMA SaysHas ==
    ASSUME NEW recs, NEW id, NEW n, NEW size, Says(recs, id, n, size)
    PROVE  HasId(recs, id)
BY DEF Says, HasId

\* Files gone from a card leave it one that can be mounted.
LEMMA FewerOnCard ==
    ASSUME NEW files, IsLibraryCard(files), NEW out,
           out \in [Names -> Contents \cup {None}],
           \A m \in Names : out[m] \in {None, files[m]}
    PROVE  IsLibraryCard(out)
<1>1. \A n, m \in Names : n # m /\ Fold[n] = Fold[m] => None \in {out[n], out[m]}
  BY DEF IsLibraryCard
<1>2. Cardinality({n \in Names : out[n] # None}) <= MaxRecords
  <2> DEFINE A == {n \in Names : out[n] # None}
             B == {n \in Names : files[n] # None}
  <2>1. A \subseteq B
    OBVIOUS
  <2>2. IsFiniteSet(B)
    BY Catalog, FS_Subset
  <2>3. Cardinality(A) <= Cardinality(B) /\ Cardinality(A) \in Nat /\ Cardinality(B) \in Nat
    BY <2>1, <2>2, FS_Subset, FS_CardinalityType
  <2>4. Cardinality(B) <= MaxRecords
    BY DEF IsLibraryCard
  <2> HIDE DEF A, B
  <2>5. Cardinality(A) <= MaxRecords
    BY <2>3, <2>4, Numbers
  <2> QED
    BY <2>5 DEF A
<1> QED
  BY <1>1, <1>2 DEF IsLibraryCard

\* The predecessor off the shelf leaves the place of the intent vacant.
LEMMA ParkLeaves ==
    ASSUME NEW files, IsLibraryCard(files), NEW s \in Intent, s.from \in Names,
           Fold[s.from] = Fold[s.name], files[s.from] # None,
           NEW out, out = [files EXCEPT ![s.from] = None]
    PROVE  /\ IsLibraryCard(out) /\ Vacant(out, s)
           /\ Elsewhere(out, s) = Elsewhere(files, s)
           /\ \A m \in Names : out[m] \in {None, files[m]}
<1>1. /\ out \in [Names -> Contents \cup {None}]
      /\ out[s.from] = None /\ \A m \in Names : m # s.from => out[m] = files[m]
      /\ Elsewhere(out, s) = Elsewhere(files, s)
  <2>1. files \in [Names -> Contents \cup {None}]
    BY DEF IsLibraryCard
  <2>2. /\ out \in [Names -> Contents \cup {None}]
        /\ out[s.from] = None /\ \A m \in Names : m # s.from => out[m] = files[m]
    BY <2>1
  <2> QED
    BY <2>2 DEF Elsewhere
<1>2. Vacant(out, s)
  BY <1>1 DEF Vacant, IsLibraryCard
<1>3. \A m \in Names : out[m] \in {None, files[m]}
  BY <1>1
<1>4. IsLibraryCard(out)
  BY <1>1, <1>3, FewerOnCard
<1> QED
  BY <1>1, <1>2, <1>3, <1>4

\* A book onto a place that is vacant, while there is room in the catalog.
LEMMA LandLeaves ==
    ASSUME NEW files, IsLibraryCard(files), NEW s \in Intent, Vacant(files, s),
           HasRoom(files, s),
           NEW out, out \in [Names -> Contents \cup {None}],
           \A m \in Names : m # s.name => out[m] = files[m]
    PROVE  /\ IsLibraryCard(out)
           /\ Elsewhere(out, s) = Elsewhere(files, s)
<1>0. s.name \in Names
  BY DEF Intent
<1>1. Elsewhere(out, s) = Elsewhere(files, s)
  BY <1>0 DEF Elsewhere
<1>3. \A n, m \in Names : n # m /\ Fold[n] = Fold[m] => None \in {out[n], out[m]}
  BY <1>0 DEF IsLibraryCard, Vacant
<1>4. Cardinality({n \in Names : out[n] # None}) <= MaxRecords
  <2> DEFINE A == {n \in Names : out[n] # None}
             E == Elsewhere(files, s)
  <2>1. A \subseteq E \cup {s.name}
    BY <1>1 DEF Elsewhere, Vacant
  <2>2. IsFiniteSet(E)
    BY Catalog, FS_Subset DEF Elsewhere
  <2>3. s.name \notin E
    BY DEF Elsewhere
  <2> HIDE DEF A, E
  <2>4. IsFiniteSet(E \cup {s.name}) /\ Cardinality(E \cup {s.name}) = Cardinality(E) + 1
    BY <2>2, <2>3, FS_AddElement
  <2>5. Cardinality(A) <= Cardinality(E \cup {s.name})
        /\ Cardinality(A) \in Nat /\ Cardinality(E) \in Nat
    BY <2>1, <2>2, <2>4, FS_Subset, FS_CardinalityType
  <2>6. Cardinality(E) < MaxRecords
    BY DEF E, HasRoom
  <2>7. Cardinality(A) <= MaxRecords
    BY <2>4, <2>5, <2>6, Numbers
  <2> QED
    BY <2>7 DEF A
<1> QED
  BY <1>0, <1>1, <1>3, <1>4 DEF IsLibraryCard

-----------------------------------------------------------------------------
(***************************************************************************)
(* The install.                                                            *)
(***************************************************************************)

\* A step that leaves the ledger, the intent and the ids alone.
Quiet ==
    /\ Value' = Value /\ Open' = Open /\ gen' = gen
    /\ IntentStands' = IntentStands /\ Standing' = Standing
    /\ nextId' = nextId

LEMMA IsQuiet ==
    ASSUME UNCHANGED <<ledgerVars, rjnl, nextId>>
    PROVE  Quiet
BY LedgerSame, IntentSame DEF Quiet

LEMMA QuietLibraries ==
    ASSUME Libraries, Quiet
    PROVE  Libraries'
BY DEF Libraries, Quiet

LEMMA WriteIntentKeeps ==
    ASSUME LedgerInv, LibraryInv, WriteIntent
    PROVE  LibraryInv'
<1>1. Quiet
  BY IsQuiet DEF WriteIntent
<1>2. gen = NoCall /\ gen' = NoCall
  BY <1>1 DEF LedgerInv, WriteIntent, Quiet
<1>3. /\ pc = "begun" /\ pc' = "install" /\ card' = card /\ kept' = kept /\ landed' = landed
      /\ inst = None /\ IntentStands /\ IsLibraryCard(card)
  BY DEF WriteIntent, LibraryInv, Phases
<1>4. PICK s : s = Standing
  OBVIOUS
<1>5. IsIntent(s, card, Value, nextId) /\ s \in Intent
      /\ (s.from = None => Vacant(card, s)) /\ (s.from # None => card[s.from] # None)
  BY <1>3, <1>4 DEF LibraryInv, Intents, IsIntent
<1>6. inst' = [name |-> s.name, from |-> s.from,
               old |-> IF s.from = None THEN None ELSE card[s.from],
               new |-> s.new, at |-> "written"]
  BY <1>4 DEF WriteIntent
<1>7. inst' \in Installs /\ inst' # None
  <2>1. s.name \in Names /\ s.from \in Names \cup {None} /\ s.new \in Contents
    BY <1>5 DEF Intent
  <2>2. (IF s.from = None THEN None ELSE card[s.from]) \in Contents \cup {None}
    BY <1>3, <2>1 DEF IsLibraryCard
  <2>3. inst' \in Installs
    BY <1>6, <2>1, <2>2 DEF Installs
  <2> QED
    BY <2>3, JournalAssumption
<1>8. /\ inst'.name = s.name /\ inst'.from = s.from /\ inst'.new = s.new
      /\ inst'.at = "written" /\ inst'.old = IF s.from = None THEN None ELSE card[s.from]
  BY <1>6
<1>9. InstallAt(inst', s, card)
  BY <1>5, <1>7, <1>8 DEF InstallAt
<1>10. Libraries'
  BY <1>1, QuietLibraries DEF LibraryInv
<1>11. Phases'
  BY <1>1, <1>3, <1>7 DEF Phases, LibraryInv, Quiet
<1>12. Intents'
  BY <1>1, <1>2, <1>3, <1>4, <1>5, <1>7, <1>9 DEF Intents, Quiet
<1>13. Remembered'
  BY <1>2 DEF Remembered
<1>14. Identity'
  <2>1. ASSUME kept # None, ~kept.again
        PROVE  KeepsId(s, kept, card, Value, inst', "install", landed)
    <3>1. KeepsId(s, kept, card, Value, inst, pc, landed)
      BY <1>3, <1>4, <2>1 DEF LibraryInv, Identity
    <3>2. OldStands(s, card, Value)
      BY <1>3, <3>1 DEF KeepsId
    <3> QED
      BY <1>7, <1>8, <3>1, <3>2 DEF KeepsId
  <2> QED
    BY <1>1, <1>2, <1>3, <1>4, <2>1 DEF Identity, Quiet
<1> QED
  BY <1>3, <1>10, <1>11, <1>12, <1>13, <1>14 DEF LibraryInv

\* A step of the install finds its intent.
LEMMA Installing ==
    ASSUME LedgerInv, LibraryInv, inst # None
    PROVE  /\ IntentStands /\ gen = NoCall /\ pc \in {"install", "recover"}
           /\ IsIntent(Standing, card, Value, nextId) /\ Standing \in Intent
           /\ Standing.name \in Names /\ Standing.from \in Names \cup {None}
           /\ Standing.new \in Contents
           /\ InstallAt(inst, Standing, card)
           /\ kept # None /\ ~kept.again =>
                KeepsId(Standing, kept, card, Value, inst, pc, landed)
<1>1. IntentStands /\ pc \in {"install", "recover"}
  BY DEF LibraryInv, Phases
<1>2. gen = NoCall
  BY <1>1 DEF LedgerInv
<1>3. IsIntent(Standing, card, Value, nextId) /\ Standing \in Intent
      /\ InstallAt(inst, Standing, card)
  BY <1>1 DEF LibraryInv, Intents, IsIntent
<1>4. Standing.name \in Names /\ Standing.from \in Names \cup {None} /\ Standing.new \in Contents
  BY <1>3 DEF Intent
<1> QED
  BY <1>1, <1>2, <1>3, <1>4 DEF LibraryInv, Identity

\* A step of the install leaves the intent what it needs: the card still a
\* library, the other places as they were, and the copy to let go of gone.
LEMMA InstallKeeps ==
    ASSUME LedgerInv, LibraryInv, NEW card2, NEW at, InstallStep(card2, at),
           at \in {"parked", "landed", "restored"},
           IsLibraryCard(card2), Elsewhere(card2, Standing) = Elsewhere(card, Standing),
           \A m \in Names : m # Standing.name => card2[m] \in {None, card[m]},
           InstallAt([inst EXCEPT !.at = at], Standing, card2),
           kept # None /\ ~kept.again =>
             KeepsId(Standing, kept, card2, Value, [inst EXCEPT !.at = at], pc, landed)
    PROVE  LibraryInv'
<1>1. Quiet /\ card' = card2 /\ inst' = [inst EXCEPT !.at = at] /\ inst # None
      /\ pc' = pc /\ landed' = landed /\ kept' = kept
  BY IsQuiet DEF InstallStep
<1>2. PICK s : s = Standing
  OBVIOUS
<1>3. /\ IntentStands /\ gen = NoCall /\ pc \in {"install", "recover"}
      /\ IsIntent(s, card, Value, nextId)
  BY <1>1, <1>2, Installing
<1>4. inst' # None
  BY <1>1, JournalAssumption DEF InstallAt
<1>5. Evictable(card2, Value, s)
  <2>1. ASSUME NEW i \in DOMAIN Value, Value[i].id = s.evict
        PROVE  card2[Value[i].name] = None \/ Value[i].name = s.name
    <3>1. Value[i].name \in Names
      BY <2>1, TypedRecords DEF LibraryInv, Libraries
    <3>2. card[Value[i].name] = None \/ Value[i].name = s.name
      BY <1>3, <2>1 DEF IsIntent, Evictable
    <3> QED
      BY <1>2, <3>1, <3>2
  <2> QED
    BY <2>1 DEF Evictable
<1>6. IsIntent(s, card2, Value, nextId)
  BY <1>2, <1>3, <1>5 DEF IsIntent, HasRoom
<1>7. Libraries'
  BY <1>1, QuietLibraries DEF LibraryInv
<1>8. Phases'
  BY <1>1, <1>3, <1>4 DEF Phases, LibraryInv, Quiet
<1>9. Intents'
  BY <1>1, <1>2, <1>3, <1>4, <1>6 DEF Intents, Quiet
<1>10. Remembered'
  BY <1>1, <1>3 DEF Remembered, Quiet
<1>11. Identity'
  BY <1>1, <1>2, <1>3 DEF Identity, Quiet
<1> QED
  BY <1>1, <1>7, <1>8, <1>9, <1>10, <1>11 DEF LibraryInv

\* How far an install has got, said of the install.
LEMMA InstallMoved ==
    ASSUME NEW i \in Installs, NEW at \in {"written", "parked", "landed", "restored"}
    PROVE  /\ [i EXCEPT !.at = at] \in Installs
           /\ [i EXCEPT !.at = at].name = i.name /\ [i EXCEPT !.at = at].from = i.from
           /\ [i EXCEPT !.at = at].old = i.old /\ [i EXCEPT !.at = at].new = i.new
           /\ [i EXCEPT !.at = at].at = at
           /\ [i EXCEPT !.at = at] # None
           /\ i.old \in Contents \cup {None}
BY JournalAssumption DEF Installs

LEMMA ParkKeeps ==
    ASSUME LedgerInv, LibraryInv, Park
    PROVE  LibraryInv'
<1>1. inst # None /\ inst.at = "written" /\ inst.from # None
  BY DEF Park
<1>2. PICK s : s = Standing
  OBVIOUS
<1>3. /\ IntentStands /\ gen = NoCall /\ pc \in {"install", "recover"}
      /\ IsIntent(s, card, Value, nextId) /\ s \in Intent
      /\ s.name \in Names /\ s.from \in Names \cup {None}
      /\ InstallAt(inst, s, card)
      /\ kept # None /\ ~kept.again => KeepsId(s, kept, card, Value, inst, pc, landed)
  BY <1>1, <1>2, Installing
<1>4. /\ s.from # None /\ inst.from = s.from /\ inst.old # None /\ card[s.from] = inst.old
      /\ inst \in Installs /\ inst.name = s.name /\ inst.new = s.new
  BY <1>1, <1>3 DEF InstallAt
<1>5. PICK card2 : card2 = [card EXCEPT ![s.from] = None]
  OBVIOUS
<1>6. PICK i : i = [inst EXCEPT !.at = "parked"]
  OBVIOUS
<1>7. /\ i \in Installs /\ i.name = s.name /\ i.from = s.from /\ i.old = inst.old
      /\ i.new = s.new /\ i.at = "parked" /\ i # None
  BY <1>4, <1>6, InstallMoved
<1>8. InstallStep(card2, "parked")
  BY <1>4, <1>5 DEF Park
<1>9. /\ IsLibraryCard(card) /\ Fold[s.from] = Fold[s.name]
  BY <1>3, <1>4 DEF LibraryInv, IsIntent
<1>10. /\ IsLibraryCard(card2) /\ Vacant(card2, s)
       /\ Elsewhere(card2, s) = Elsewhere(card, s)
       /\ \A m \in Names : card2[m] \in {None, card[m]}
  BY <1>3, <1>4, <1>5, <1>9, ParkLeaves
<1>11. InstallAt(i, s, card2)
  BY <1>4, <1>7, <1>10 DEF InstallAt
<1>12. ASSUME kept # None, ~kept.again
       PROVE  KeepsId(s, kept, card2, Value, i, pc, landed)
  <2>1. KeepsId(s, kept, card, Value, inst, pc, landed)
    BY <1>3, <1>12
  <2>2. Says(Value, s.id, s.from, SizeOf[inst.old])
    BY <1>1, <1>4, <2>1 DEF KeepsId, OldStands
  <2> QED
    BY <1>3, <1>7, <2>1, <2>2 DEF KeepsId
<1> QED
  BY <1>2, <1>6, <1>8, <1>10, <1>11, <1>12, InstallKeeps

LEMMA LandKeeps ==
    ASSUME LedgerInv, LibraryInv, Land
    PROVE  LibraryInv'
<1>1. inst # None /\ inst.at = IF inst.from = None THEN "written" ELSE "parked"
  BY DEF Land
<1>2. PICK s : s = Standing
  OBVIOUS
<1>3. /\ IntentStands /\ gen = NoCall /\ pc \in {"install", "recover"}
      /\ IsIntent(s, card, Value, nextId) /\ s \in Intent
      /\ s.name \in Names /\ s.from \in Names \cup {None} /\ s.new \in Contents
      /\ InstallAt(inst, s, card)
      /\ kept # None /\ ~kept.again => KeepsId(s, kept, card, Value, inst, pc, landed)
  BY <1>1, <1>2, Installing
<1>4. /\ Vacant(card, s)
      /\ inst \in Installs /\ inst.name = s.name /\ inst.from = s.from /\ inst.new = s.new
  BY <1>1, <1>3 DEF InstallAt
<1>5. PICK card2 : card2 = [card EXCEPT ![s.name] = s.new]
  OBVIOUS
<1>6. PICK i : i = [inst EXCEPT !.at = "landed"]
  OBVIOUS
<1>7. /\ i \in Installs /\ i.name = s.name /\ i.from = s.from
      /\ i.new = s.new /\ i.at = "landed" /\ i # None
  BY <1>4, <1>6, InstallMoved
<1>8. InstallStep(card2, "landed")
  BY <1>4, <1>5 DEF Land
<1>9. IsLibraryCard(card) /\ HasRoom(card, s)
  BY <1>3 DEF LibraryInv, IsIntent
<1>10. /\ IsLibraryCard(card2)
       /\ Elsewhere(card2, s) = Elsewhere(card, s)
       /\ card2[s.name] = s.new
       /\ \A m \in Names : m # s.name => card2[m] = card[m]
  <2>1. card \in [Names -> Contents \cup {None}]
    BY <1>9 DEF IsLibraryCard
  <2>2. /\ card2 \in [Names -> Contents \cup {None}]
        /\ card2[s.name] = s.new
        /\ \A m \in Names : m # s.name => card2[m] = card[m]
    BY <1>3, <1>5, <2>1
  <2> QED
    BY <1>3, <1>4, <1>9, <2>2, LandLeaves
<1>11. InstallAt(i, s, card2)
  BY <1>7, <1>10 DEF InstallAt
<1>12. ASSUME kept # None, ~kept.again
       PROVE  KeepsId(s, kept, card2, Value, i, pc, landed)
  <2>1. KeepsId(s, kept, card, Value, inst, pc, landed)
    BY <1>3, <1>12
  <2>2. s.from # None /\ Says(Value, s.id, s.from, SizeOf[inst.old])
    BY <1>1, <1>4, <2>1 DEF KeepsId
  <2>3. NewStands(s, card2, Value)
    BY <1>10, <2>2, SaysHas DEF NewStands
  <2> QED
    BY <1>3, <1>7, <2>1, <2>3 DEF KeepsId
<1> QED
  BY <1>2, <1>6, <1>8, <1>10, <1>11, <1>12, InstallKeeps

LEMMA RestoreKeeps ==
    ASSUME LedgerInv, LibraryInv, Restore
    PROVE  LibraryInv'
<1>1. inst # None /\ inst.at \in {"written", "parked"}
  BY DEF Restore
<1>2. PICK s : s = Standing
  OBVIOUS
<1>3. /\ IntentStands /\ gen = NoCall /\ pc \in {"install", "recover"}
      /\ IsIntent(s, card, Value, nextId) /\ s \in Intent
      /\ s.name \in Names /\ s.from \in Names \cup {None}
      /\ InstallAt(inst, s, card)
      /\ kept # None /\ ~kept.again => KeepsId(s, kept, card, Value, inst, pc, landed)
  BY <1>1, <1>2, Installing
<1>4. inst \in Installs /\ inst.name = s.name /\ inst.from = s.from /\ inst.new = s.new
  BY <1>3 DEF InstallAt
<1>5. PICK i : i = [inst EXCEPT !.at = "restored"]
  OBVIOUS
<1>6. /\ i \in Installs /\ i.name = s.name /\ i.from = s.from /\ i.old = inst.old
      /\ i.new = s.new /\ i.at = "restored" /\ i # None
      /\ inst.old \in Contents \cup {None}
  BY <1>4, <1>5, InstallMoved
<1>7. IsLibraryCard(card) /\ HasRoom(card, s)
  BY <1>3 DEF LibraryInv, IsIntent
<1>8. CASE inst.at = "parked"
  <2>1. /\ Vacant(card, s) /\ inst.old # None /\ s.from # None /\ inst.old \in Contents
    BY <1>3, <1>6, <1>8 DEF InstallAt
  <2>2. PICK card2 : card2 = [card EXCEPT ![s.name] = inst.old]
    OBVIOUS
  <2>3. InstallStep(card2, "restored")
    BY <1>4, <1>8, <2>2 DEF Restore
  <2>4. /\ IsLibraryCard(card2)
        /\ Elsewhere(card2, s) = Elsewhere(card, s)
        /\ card2[s.name] = inst.old
        /\ \A m \in Names : m # s.name => card2[m] = card[m]
    <3>1. card \in [Names -> Contents \cup {None}]
      BY <1>7 DEF IsLibraryCard
    <3>2. /\ card2 \in [Names -> Contents \cup {None}]
          /\ card2[s.name] = inst.old
          /\ \A m \in Names : m # s.name => card2[m] = card[m]
      BY <1>3, <2>1, <2>2, <3>1
    <3> QED
      BY <1>3, <1>7, <2>1, <3>2, LandLeaves
  <2>5. InstallAt(i, s, card2)
    BY <1>6, <2>1, <2>4 DEF InstallAt, Resolved
  <2>6. ASSUME kept # None, ~kept.again
        PROVE  KeepsId(s, kept, card2, Value, i, pc, landed)
    <3>1. KeepsId(s, kept, card, Value, inst, pc, landed)
      BY <1>3, <2>6
    <3>2. Says(Value, s.id, s.from, SizeOf[inst.old])
      BY <1>1, <1>8, <3>1 DEF KeepsId
    <3>3. OldStands(s, card2, Value) \/ Untold(s, card2, Value)
      BY <2>1, <2>4, <3>2 DEF OldStands, Untold
    <3> QED
      BY <1>3, <1>6, <3>1, <3>3 DEF KeepsId
  <2> QED
    BY <1>2, <1>5, <2>3, <2>4, <2>5, <2>6, InstallKeeps
<1>9. CASE inst.at = "written"
  <2>1. InstallStep(card, "restored")
    BY <1>9 DEF Restore
  <2>2. Resolved(card, s)
    <3>1. CASE s.from = None
      BY <1>3, <1>9, <3>1 DEF InstallAt, Vacant, Resolved
    <3>2. CASE s.from # None
      BY <1>3, <1>9, <3>2 DEF InstallAt, Resolved
    <3> QED
      BY <3>1, <3>2
  <2>3. InstallAt(i, s, card)
    BY <1>6, <2>2 DEF InstallAt
  <2>4. ASSUME kept # None, ~kept.again
        PROVE  KeepsId(s, kept, card, Value, i, pc, landed)
    <3>1. KeepsId(s, kept, card, Value, inst, pc, landed)
      BY <1>3, <2>4
    <3> QED
      BY <1>1, <1>3, <1>6, <1>9, <3>1 DEF KeepsId
  <2> QED
    BY <1>2, <1>5, <1>7, <2>1, <2>3, <2>4, InstallKeeps
<1> QED
  BY <1>1, <1>8, <1>9

LEMMA ClearInstallKeeps ==
    ASSUME LedgerInv, LibraryInv, ClearInstall
    PROVE  LibraryInv'
<1>1. /\ inst # None /\ inst.at \in {"landed", "restored"} /\ inst' = None
      /\ landed' = (IF inst.at = "landed" THEN "new" ELSE "old")
      /\ pc' = (IF pc = "install" THEN "settle" ELSE pc)
      /\ card' = card /\ kept' = kept
  BY DEF ClearInstall
<1>2. Quiet
  BY IsQuiet DEF ClearInstall
<1>3. PICK s : s = Standing
  OBVIOUS
<1>4. /\ IntentStands /\ gen = NoCall /\ pc \in {"install", "recover"}
      /\ IsIntent(s, card, Value, nextId) /\ s.new \in Contents
      /\ InstallAt(inst, s, card)
      /\ kept # None /\ ~kept.again => KeepsId(s, kept, card, Value, inst, pc, landed)
  BY <1>1, <1>3, Installing
<1>5. Resolved(card, s)
  BY <1>1, <1>4, Numbers DEF InstallAt, Resolved
<1>6. Libraries'
  BY <1>2, QuietLibraries DEF LibraryInv
<1>7. Phases'
  BY <1>1, <1>2, <1>4 DEF Phases, LibraryInv, Quiet
<1>8. Intents'
  BY <1>1, <1>2, <1>3, <1>4, <1>5 DEF Intents, Quiet
<1>9. Remembered'
  BY <1>2, <1>4 DEF Remembered, Quiet
<1>10. ASSUME kept # None, ~kept.again
       PROVE  KeepsId(s, kept, card, Value, None, pc', landed')
  <2>1. KeepsId(s, kept, card, Value, inst, pc, landed)
    BY <1>4, <1>10
  <2>2. CASE inst.at = "landed"
    <3>1. NewStands(s, card, Value) /\ landed' = "new"
      BY <1>1, <2>1, <2>2 DEF KeepsId
    <3> QED
      BY <1>1, <1>4, <2>1, <3>1 DEF KeepsId
  <2>3. CASE inst.at = "restored"
    <3>1. (OldStands(s, card, Value) \/ Untold(s, card, Value)) /\ landed' = "old"
      BY <1>1, <2>1, <2>3 DEF KeepsId
    <3> QED
      BY <1>1, <1>4, <2>1, <3>1 DEF KeepsId
  <2> QED
    BY <1>1, <2>2, <2>3
<1>11. Identity'
  BY <1>1, <1>2, <1>3, <1>4, <1>10 DEF Identity, Quiet
<1> QED
  BY <1>1, <1>6, <1>7, <1>8, <1>9, <1>11 DEF LibraryInv

-----------------------------------------------------------------------------
(***************************************************************************)
(* begin.                                                                  *)
(***************************************************************************)

\* The missing copy begin would let go of has a record, and no file.
LEMMA RoomInIs ==
    ASSUME NEW v, v = Value, IsLibrary(v), RoomIn # None
    PROVE  /\ RoomIn \in Ids
           /\ \E i \in DOMAIN v : v[i].id = RoomIn
           /\ \A i \in DOMAIN v : v[i].id = RoomIn => card[v[i].name] = None
<1> DEFINE gone == {i \in DOMAIN v : v[i].misses > 0 /\ card[v[i].name] = None}
<1>1. Len(v) \in Nat /\ DOMAIN v = 1 .. Len(v)
  BY Elements DEF IsLibrary
<1>2. RoomIn = IF gone = {} THEN None ELSE v[Min(gone)].id
  BY DEF RoomIn
<1>3. gone # {} /\ gone \in SUBSET (1 .. Len(v))
  BY <1>1, <1>2
<1>4. PICK k \in gone : RoomIn = v[k].id
  <2> HIDE DEF gone
  <2>1. Min(gone) \in gone
    BY <1>1, <1>3, FirstOf
  <2> QED
    BY <1>2, <1>3, <2>1
<1>5. k \in DOMAIN v /\ card[v[k].name] = None
  BY <1>4
<1>6. \A i \in DOMAIN v : v[i].id = RoomIn => i = k
  BY <1>4, <1>5 DEF IsLibrary, Apart
<1> QED
  BY <1>4, <1>5, <1>6, TypedRecords

\* One place fewer than there would be with the upload is taken elsewhere.
LEMMA RoomElsewhere ==
    ASSUME IsLibraryCard(card), NEW s, s.name \in Names,
           Cardinality({Fold[m] : m \in Held \cup {s.name}}) <= MaxRecords
    PROVE  HasRoom(card, s)
<1> DEFINE E == Elsewhere(card, s)
           G == {Fold[m] : m \in Held \cup {s.name}}
           J == {Fold[m] : m \in E}
<1>1. IsFiniteSet(E)
  BY Catalog, FS_Subset DEF Elsewhere
<1>2. IsFiniteSet(Held \cup {s.name})
  BY Catalog, FS_Subset DEF Held
<1>3. IsFiniteSet(G) /\ IsFiniteSet(J)
  <2> DEFINE H == Held \cup {s.name}
             f == [m \in H |-> Fold[m]]
  <2>1. f \in [H -> G] /\ \A g \in G : \E m \in H : f[m] = g
    OBVIOUS
  <2>2. f \in Surjection(H, G)
    BY <2>1 DEF Surjection
  <2>3. J \subseteq G
    BY DEF Elsewhere, Held
  <2>4. IsFiniteSet(H)
    BY <1>2
  <2> HIDE DEF H, f, G, J
  <2>5. IsFiniteSet(G)
    BY <2>2, <2>4, FS_Surjection
  <2> QED
    BY <2>3, <2>5, FS_Subset
<1>4. J \cup {Fold[s.name]} \subseteq G /\ Fold[s.name] \notin J
  BY DEF Elsewhere, Held
<1>5. ASSUME NEW a \in E, NEW b \in E, Fold[a] = Fold[b] PROVE a = b
  BY <1>5 DEF IsLibraryCard, Elsewhere
<1>6. PICK f : f \in Injection(E, J)
  <2> DEFINE f == [m \in E |-> Fold[m]]
  <2>1. f \in [E -> J] /\ \A a, b \in E : f[a] = f[b] => a = b
    BY <1>5
  <2> HIDE DEF f
  <2>2. f \in Injection(E, J)
    BY <2>1, Fun_IsInj
  <2> QED
    BY <2>2
<1> HIDE DEF E, G, J
<1>7. Cardinality(E) <= Cardinality(J)
  BY <1>3, <1>6, FS_Injection
<1>8. IsFiniteSet(J \cup {Fold[s.name]})
      /\ Cardinality(J \cup {Fold[s.name]}) = Cardinality(J) + 1
  BY <1>3, <1>4, FS_AddElement
<1>9. Cardinality(J \cup {Fold[s.name]}) <= Cardinality(G)
  BY <1>3, <1>4, FS_Subset
<1>10. Cardinality(E) \in Nat /\ Cardinality(J) \in Nat /\ Cardinality(G) \in Nat
  BY <1>1, <1>3, FS_CardinalityType
<1>11. Cardinality(G) <= MaxRecords
  BY DEF G
<1>12. Cardinality(E) < MaxRecords
  BY <1>7, <1>8, <1>9, <1>10, <1>11, Numbers
<1> QED
  BY <1>12 DEF E, HasRoom

\* What begin publishes is an intent with room in the ledger and the catalog;
\* it is under the id that answers for the place, or under a new one.
LEMMA IntentForIs ==
    ASSUME LibraryInv, NEW n \in Names, NEW c \in Contents, NEW s, s = IntentFor(n, c),
           Mints(s) => Fresh(1) \in Ids, ~IsFull(s),
           Cardinality({Fold[m] : m \in Held \cup {n}}) <= MaxRecords
    PROVE  /\ IsIntent(s, card, Value, IF Mints(s) THEN Fresh(1) ELSE nextId)
           /\ s.name = n /\ s.new = c
           /\ s.from # None => s.from \in Names /\ card[s.from] # None
           /\ s.from = None => Vacant(card, s)
           /\ ~Mints(s) => s.from # None /\ Says(Value, s.id, s.from, SizeOf[card[s.from]])
<1> DEFINE from == IF Sharing(n) = {} THEN None ELSE CHOOSE m \in Sharing(n) : TRUE
           known == IF from = None THEN None ELSE Answer(from)
           evict == IF known = None /\ Len(Value) >= MaxRecords THEN RoomIn ELSE None
<1>1. s = [id |-> IF known = None THEN Fresh(1) ELSE known,
           name |-> n, from |-> from, evict |-> evict, new |-> c]
  BY DEF IntentFor
<1>2. IsLibraryCard(card) /\ IsLibrary(Value) /\ MintedBy(Value, nextId) /\ nextId \in Nat
  BY DEF LibraryInv, Libraries
<1>3. /\ from # None => from \in Names /\ card[from] # None /\ Fold[from] = Fold[n]
      /\ from = None => \A m \in Names : Fold[m] = Fold[n] => card[m] = None
  <2>1. CASE Sharing(n) = {}
    BY <2>1 DEF Sharing, Held
  <2>2. CASE Sharing(n) # {}
    <3>1. from \in Sharing(n)
      BY <2>2
    <3> QED
      BY <2>2, <3>1, Numbers DEF Sharing, Held
  <2> QED
    BY <2>1, <2>2
<1>4. known # None => /\ known \in Ids /\ from # None
                      /\ Says(Value, known, from, SizeOf[card[from]])
  <2> SUFFICES ASSUME known # None PROVE known \in Ids /\ from # None
                                         /\ Says(Value, known, from, SizeOf[card[from]])
    OBVIOUS
  <2>1. PICK f, size, v : f = from /\ size = SizeOf[card[f]] /\ v = Value
    OBVIOUS
  <2>2. from # None /\ known = FindRecord(f, size)
    BY <2>1 DEF Answer
  <2>3. IsLibrary(v)
    BY <1>2, <2>1
  <2>4. /\ FindRecord(f, size) = None \/ FindRecord(f, size) \in Ids
        /\ \A id \in Ids : FindRecord(f, size) = id <=> Says(v, id, f, size)
    BY <2>1, <2>3, FindIs
  <2> QED
    BY <2>1, <2>2, <2>4
<1> HIDE DEF from, known, evict
<1>5. known # None => known <= nextId /\ HasId(Value, known) /\ known # nextId + 1
  <2> SUFFICES ASSUME known # None PROVE known <= nextId /\ HasId(Value, known) /\ known # nextId + 1
    OBVIOUS
  <2>1. HasId(Value, known)
    BY <1>4, SaysHas
  <2>2. known <= nextId
    BY <1>2, <2>1 DEF HasId, MintedBy
  <2>3. known \in Int
    BY <1>4, IdNumbers
  <2> QED
    BY <1>2, <2>1, <2>2, <2>3
<1>6. /\ s.id = (IF known = None THEN Fresh(1) ELSE known)
      /\ s.name = n /\ s.from = from /\ s.evict = evict /\ s.new = c
  BY <1>1
<1>7. Mints(s) <=> known = None
  BY <1>5, <1>6 DEF Mints, Fresh
<1>8. evict # None => evict = RoomIn
  BY DEF evict
<1>9. /\ evict \in Ids \cup {None}
      /\ evict # None => HasId(Value, evict)
      /\ Evictable(card, Value, s)
  <2>1. PICK v : v = Value
    OBVIOUS
  <2>2. CASE evict = None
    <3>1. \A i \in DOMAIN v : v[i].id # s.evict
      BY <1>2, <1>6, <2>1, <2>2, TypedRecords
    <3> QED
      BY <2>1, <2>2, <3>1 DEF Evictable
  <2>3. CASE evict # None
    <3>1. IsLibrary(v) /\ RoomIn # None
      BY <1>2, <1>8, <2>1, <2>3
    <3>2. /\ RoomIn \in Ids
          /\ \E i \in DOMAIN v : v[i].id = RoomIn
          /\ \A i \in DOMAIN v : v[i].id = RoomIn => card[v[i].name] = None
      BY <2>1, <3>1, RoomInIs
    <3> QED
      BY <1>6, <1>8, <2>1, <2>3, <3>2 DEF Evictable, HasId
  <2> QED
    BY <2>2, <2>3
<1>10. s \in Intent
  <2>1. s.id \in Ids
    BY <1>4, <1>6, <1>7
  <2>2. s.from \in Names \cup {None}
    BY <1>3, <1>6
  <2> QED
    BY <1>1, <1>6, <1>9, <2>1, <2>2 DEF Intent
<1>11. s.id <= IF Mints(s) THEN Fresh(1) ELSE nextId
  <2>1. nextId + 1 <= nextId + 1
    BY <1>2
  <2> QED
    BY <1>5, <1>6, <1>7, <2>1 DEF Fresh
<1>12. HasId(Value, s.id) \/ Len(Value) < MaxRecords \/ HasId(Value, s.evict)
  <2>1. CASE known # None
    BY <1>5, <1>6, <2>1
  <2>2. CASE known = None
    <3>1. ~(Len(Value) >= MaxRecords) \/ s.evict # None
      BY <1>7, <2>2 DEF IsFull
    <3>2. Len(Value) \in Nat
      BY <1>2, Elements DEF IsLibrary
    <3>3. Len(Value) < MaxRecords \/ s.evict # None
      BY <3>1, <3>2, Numbers
    <3> QED
      BY <1>6, <1>9, <3>3
  <2> QED
    BY <2>1, <2>2
<1>13. HasRoom(card, s)
  BY <1>2, <1>6, RoomElsewhere
<1>14. IsIntent(s, card, Value, IF Mints(s) THEN Fresh(1) ELSE nextId)
  BY <1>3, <1>6, <1>9, <1>10, <1>11, <1>12, <1>13 DEF IsIntent
<1> QED
  BY <1>3, <1>4, <1>6, <1>7, <1>14 DEF Vacant

LEMMA BeginKeeps ==
    ASSUME LedgerInv, LibraryInv, NEW n \in Names, NEW c \in Contents,
           NEW cut \in BOOLEAN, Begin(n, c, cut)
    PROVE  LibraryInv'
<1>1. PICK s : s = IntentFor(n, c)
  OBVIOUS
<1>2. /\ pc = "idle" /\ ~IntentStands /\ Open.result # "fault"
      /\ Cardinality({Fold[m] : m \in Held \cup {n}}) <= MaxRecords
      /\ Mints(s) => Fresh(1) \in Ids
      /\ ~IsFull(s)
      /\ WriteReplaceJournal(s, cut)
      /\ pc' = (IF cut THEN "recover" ELSE "begun")
      /\ kept' = IF Mints(s) THEN None
                 ELSE [place |-> Fold[n], id |-> s.id,
                       again |-> s.from # n /\ card[s.from] = c]
      /\ nextId' = (IF Mints(s) THEN Fresh(1) ELSE nextId)
      /\ card' = card /\ inst' = inst /\ landed' = landed
  BY <1>1 DEF Begin, Then
<1>3. Value' = Value /\ Open' = Open /\ gen' = gen
  BY LedgerSame DEF Begin
<1>4. gen = NoCall /\ inst = None
  BY <1>2 DEF LedgerInv, LibraryInv, Phases
<1>5. /\ IsIntent(s, card, Value, nextId')
      /\ s.name = n /\ s.new = c
      /\ s.from # None => s.from \in Names /\ card[s.from] # None
      /\ s.from = None => Vacant(card, s)
      /\ ~Mints(s) => s.from # None /\ Says(Value, s.id, s.from, SizeOf[card[s.from]])
  <2>1. PICK m : m = IF Mints(s) THEN Fresh(1) ELSE nextId
    OBVIOUS
  <2> QED
    BY <1>1, <1>2, <2>1, IntentForIs
<1>6. nextId' \in Nat /\ nextId <= nextId'
  BY <1>2 DEF LibraryInv, Libraries, Fresh
<1>7. Libraries'
  <2>1. IsLibrary(Value) /\ MintedBy(Value, nextId) /\ nextId \in Nat
    BY DEF LibraryInv, Libraries
  <2>2. PICK v, a, b : v = Value /\ a = nextId /\ b = nextId'
    OBVIOUS
  <2>3. MintedBy(v, b)
    BY <1>6, <2>1, <2>2, MintedOn
  <2> QED
    BY <1>3, <1>4, <1>6, <2>1, <2>2, <2>3 DEF Libraries
<1>8. Remembered'
  BY <1>3, <1>4 DEF Remembered
<1>9. s \in Intent /\ s # Cleared /\ Orderly(rjnl)
  BY <1>5, JournalAssumption DEF IsIntent, LedgerInv
<1>10. IsLibraryCard(card)
  BY DEF LibraryInv
<1>11. CASE cut
  <2>1. IntentStands' = IntentStands
    BY <1>2, <1>9, <1>11, IntentTorn DEF WriteReplaceJournal
  <2>2. Phases'
    BY <1>2, <1>3, <1>4, <1>11, <2>1 DEF Phases
  <2>3. Intents'
    BY <1>2, <2>1 DEF Intents
  <2>4. ASSUME kept' # None PROVE KeptAt(kept', card, Value)
    <3>1. ~Mints(s) /\ kept'.place = Fold[n] /\ kept'.id = s.id
      BY <1>2, <2>4
    <3>2. Fold[s.from] = Fold[n]
      BY <1>5, <3>1 DEF IsIntent
    <3> QED
      BY <1>5, <3>1, <3>2 DEF KeptAt
  <2>5. Identity'
    BY <1>2, <1>3, <1>4, <2>1, <2>4 DEF Identity
  <2> QED
    BY <1>2, <1>7, <1>8, <1>10, <2>2, <2>3, <2>5 DEF LibraryInv
<1>12. CASE ~cut
  <2>0. rjnl' = Publish(rjnl, s)
    BY <1>2, <1>12 DEF WriteReplaceJournal
  <2>1. IntentStands' /\ Standing' = s
    BY <1>9, <2>0, IntentWritten
  <2>2. Phases'
    BY <1>2, <1>3, <1>4, <1>12, <2>1 DEF Phases
  <2>3. Resolved(card, s)
    BY <1>5, <1>9 DEF Resolved, Vacant, Intent
  <2>4. Intents'
    BY <1>2, <1>3, <1>4, <1>5, <2>1, <2>3 DEF Intents
  <2>5. ASSUME kept' # None, ~kept'.again
        PROVE  KeepsId(s, kept', card, Value, None, "begun", landed)
    <3>1. /\ ~Mints(s) /\ kept'.place = Fold[n] /\ kept'.id = s.id
          /\ ~(s.from # n /\ card[s.from] = c)
      BY <1>2, <2>5
    <3>2. OldStands(s, card, Value)
      BY <1>5, <3>1 DEF OldStands
    <3> QED
      BY <1>5, <3>1, <3>2 DEF KeepsId
  <2>6. Identity'
    BY <1>2, <1>3, <1>4, <1>12, <2>1, <2>5 DEF Identity
  <2> QED
    BY <1>2, <1>7, <1>8, <1>10, <2>2, <2>4, <2>6 DEF LibraryInv
<1> QED
  BY <1>11, <1>12

-----------------------------------------------------------------------------
(***************************************************************************)
(* What leaves the ledger alone.                                           *)
(***************************************************************************)

\* An intent that stands, whichever step has it.
LEMMA AnIntent ==
    ASSUME LibraryInv, IntentStands
    PROVE  /\ IsIntent(Standing, card, Value, nextId) /\ Standing \in Intent
           /\ Standing.name \in Names /\ Standing.from \in Names \cup {None}
           /\ Standing.new \in Contents /\ Standing.new # None
           /\ inst = None => Resolved(card, Standing)
           /\ Open.result # "fault"
<1>1. IsIntent(Standing, card, Value, nextId) /\ Standing \in Intent
      /\ (inst = None => Resolved(card, Standing)) /\ Open.result # "fault"
  BY DEF LibraryInv, Intents, IsIntent, Phases
<1> QED
  BY <1>1, Numbers DEF Intent

LEMMA ClearKeeps ==
    ASSUME LedgerInv, LibraryInv, NEW cut \in BOOLEAN, Clear(cut)
    PROVE  LibraryInv'
<1>1. /\ pc = "clear" /\ WriteReplaceJournal(Cleared, cut)
      /\ pc' = (IF cut THEN "recover" ELSE "idle")
      /\ card' = card /\ inst' = inst /\ landed' = landed /\ kept' = kept /\ nextId' = nextId
  BY DEF Clear, Then
<1>2. Value' = Value /\ Open' = Open /\ gen' = gen
  BY LedgerSame DEF Clear
<1>3. gen = NoCall /\ inst = None /\ IntentStands /\ Orderly(rjnl)
  BY <1>1 DEF LedgerInv, LibraryInv, Phases
<1>4. PICK s : s = Standing
  OBVIOUS
<1>5. /\ IsIntent(s, card, Value, nextId)
      /\ s.name \in Names /\ s.from \in Names \cup {None}
      /\ Resolved(card, s) /\ Open.result # "fault"
  BY <1>3, <1>4, AnIntent
<1>6. Libraries' /\ IsLibraryCard(card)' /\ Remembered'
  BY <1>1, <1>2, <1>3 DEF LibraryInv, Libraries, Remembered
<1>7. kept # None /\ ~kept.again =>
        /\ KeepsId(s, kept, card, Value, inst, pc, landed)
        /\ OldStands(s, card, Value) \/ Told(s, card, Value)
  BY <1>1, <1>3, <1>4 DEF LibraryInv, Identity, KeepsId
<1>8. CASE cut
  <2>1. IntentStands' = IntentStands /\ Standing' = Standing
    BY <1>1, <1>3, <1>8, IntentTorn DEF WriteReplaceJournal
  <2>2. Phases'
    BY <1>1, <1>2, <1>3, <1>5, <1>8, <2>1 DEF Phases
  <2>3. Intents'
    BY <1>1, <1>2, <1>3, <1>4, <1>5, <1>8, <2>1 DEF Intents
  <2>4. kept # None /\ ~kept.again => KeepsId(s, kept, card, Value, inst, "recover", landed)
    BY <1>3, <1>7 DEF KeepsId
  <2>5. Identity'
    BY <1>1, <1>2, <1>3, <1>4, <1>8, <2>1, <2>4 DEF Identity
  <2> QED
    BY <1>6, <2>2, <2>3, <2>5 DEF LibraryInv
<1>9. CASE ~cut
  <2>1. ~IntentStands'
    BY <1>1, <1>3, <1>9, IntentWritten DEF WriteReplaceJournal
  <2>2. Phases'
    BY <1>1, <1>2, <1>3, <1>9, <2>1 DEF Phases
  <2>3. Intents'
    BY <2>1 DEF Intents
  <2>4. ASSUME kept # None, ~kept.again PROVE KeptAt(kept, card, Value)
    <3>1. /\ s.from # None /\ s.id = kept.id /\ Fold[s.name] = kept.place
          /\ OldStands(s, card, Value) \/ Told(s, card, Value)
      BY <1>7, <2>4 DEF KeepsId
    <3>2. Fold[s.from] = kept.place /\ s.from \in Names
      BY <1>5, <3>1 DEF IsIntent
    <3> QED
      BY <1>5, <3>1, <3>2 DEF KeptAt, OldStands, Told
  <2>5. Identity'
    BY <1>1, <1>2, <1>3, <2>1, <2>4 DEF Identity
  <2> QED
    BY <1>6, <2>2, <2>3, <2>5 DEF LibraryInv
<1> QED
  BY <1>8, <1>9

\* The destination of an intent is one of its two landings.
LEMMA LandingIs ==
    ASSUME NEW s, Resolved(card, s), s.new # None
    PROVE  /\ Landing(s) \in {"new", "old"}
           /\ Landing(s) = "new" <=> Destination(s) = s.new
BY DEF Resolved, Landing, Destination

LEMMA RecoverKeeps ==
    ASSUME LedgerInv, LibraryInv, Recover
    PROVE  LibraryInv'
<1>1. /\ pc = "recover" /\ inst = None /\ inst' = None
      /\ card' = card /\ kept' = kept
  BY DEF Recover
<1>2. Quiet
  BY IsQuiet DEF Recover
<1>3. gen = NoCall
  BY <1>1 DEF LedgerInv
<1>4. Libraries' /\ Remembered' /\ IsLibraryCard(card)'
  BY <1>1, <1>2, <1>3, QuietLibraries DEF LibraryInv, Remembered, Quiet
<1>5. CASE ~IntentStands
  <2>1. pc' = "idle"
    BY <1>5 DEF Recover
  <2>2. Phases'
    BY <1>1, <1>2, <1>5, <2>1 DEF Phases, Quiet
  <2>3. Intents'
    BY <1>2, <1>5 DEF Intents, Quiet
  <2>4. Identity'
    BY <1>1, <1>2, <1>3, <1>5 DEF LibraryInv, Identity, Quiet
  <2> QED
    BY <1>4, <2>2, <2>3, <2>4 DEF LibraryInv
<1>6. CASE IntentStands
  <2>1. PICK s : s = Standing
    OBVIOUS
  <2>2. /\ IsIntent(s, card, Value, nextId)
        /\ s.name \in Names /\ s.from \in Names \cup {None} /\ s.new # None
        /\ Resolved(card, s) /\ Open.result # "fault"
    BY <1>1, <1>6, <2>1, AnIntent
  <2>3. PICK l : l = Landing(s)
    OBVIOUS
  <2>4. l \in {"new", "old"} /\ (l = "new" <=> Destination(s) = s.new)
    BY <2>2, <2>3, LandingIs
  <2>5. pc' = "settle" /\ landed' = l
    BY <1>6, <2>1, <2>3, <2>4 DEF Recover
  <2>6. Phases'
    BY <1>1, <1>2, <1>6, <2>2, <2>4, <2>5 DEF Phases, Quiet
  <2>7. Intents'
    BY <1>1, <1>2, <1>3, <2>1, <2>2, <2>5 DEF Intents, Quiet
  <2>8. ASSUME kept # None, ~kept.again
        PROVE  KeepsId(s, kept, card, Value, None, "settle", l)
    <3>1. /\ s.from # None /\ s.id = kept.id /\ Fold[s.name] = kept.place
          /\ \/ OldStands(s, card, Value) \/ NewStands(s, card, Value)
             \/ Untold(s, card, Value) \/ Told(s, card, Value)
      BY <1>1, <1>6, <2>1, <2>8 DEF LibraryInv, Identity, KeepsId
    <3>2. HasId(Value, s.id)
      BY <3>1, SaysHas DEF OldStands, NewStands, Untold, Told
    <3>3. CASE l = "new"
      <4>1. card[s.name] = s.new
        BY <2>2, <2>4, <3>1, <3>3 DEF Destination, OldStands, NewStands, Untold, Told
      <4> QED
        BY <3>1, <3>2, <3>3, <4>1 DEF KeepsId, NewStands
    <3>4. CASE l # "new"
      <4>1. ~NewStands(s, card, Value)
        BY <2>2, <2>4, <3>4 DEF Destination, NewStands
      <4> QED
        BY <3>1, <3>4, <4>1 DEF KeepsId
    <3> QED
      BY <3>3, <3>4
  <2>9. Identity'
    BY <1>1, <1>2, <1>3, <1>6, <2>1, <2>5, <2>8 DEF Identity, Quiet
  <2> QED
    BY <1>4, <2>6, <2>7, <2>9 DEF LibraryInv
<1> QED
  BY <1>5, <1>6

LEMMA DeleteKeeps ==
    ASSUME LedgerInv, LibraryInv, NEW n \in Names, Delete(n)
    PROVE  LibraryInv'
<1>1. /\ pc = "idle" /\ pc' = pc /\ inst' = inst /\ landed' = landed
      /\ card' = [card EXCEPT ![n] = None]
      /\ kept' = IF kept # None /\ kept.place = Fold[n] THEN None ELSE kept
  BY DEF Delete, Forget
<1>2. Quiet
  BY IsQuiet DEF Delete
<1>3. gen = NoCall /\ ~IntentStands
  BY <1>1 DEF LedgerInv, LibraryInv, Phases
<1>4. card \in [Names -> Contents \cup {None}] /\ IsLibraryCard(card)
  BY DEF LibraryInv, IsLibraryCard
<1>5. /\ card' \in [Names -> Contents \cup {None}]
      /\ \A m \in Names : m # n => card'[m] = card[m]
      /\ \A m \in Names : card'[m] \in {None, card[m]}
  BY <1>1, <1>4
<1>6. IsLibraryCard(card')
  BY <1>4, <1>5, FewerOnCard
<1>7. Libraries'
  BY <1>2, QuietLibraries DEF LibraryInv
<1>8. Phases'
  BY <1>1, <1>2 DEF Phases, LibraryInv, Quiet
<1>9. Intents' /\ Remembered'
  BY <1>2, <1>3 DEF Intents, Remembered, Quiet
<1>10. ASSUME kept' # None, ~kept'.again PROVE KeptAt(kept', card', Value)
  <2>1. kept' = kept /\ kept.place # Fold[n]
    BY <1>1, <1>10
  <2>2. KeptAt(kept, card, Value)
    BY <1>3, <1>10, <2>1 DEF LibraryInv, Identity
  <2>3. PICK m \in Names : /\ card[m] # None /\ Fold[m] = kept.place
                           /\ Says(Value, kept.id, m, SizeOf[card[m]])
    BY <2>2 DEF KeptAt
  <2>4. card'[m] = card[m]
    BY <1>5, <2>1, <2>3
  <2> QED
    BY <2>1, <2>3, <2>4 DEF KeptAt
<1>11. Identity'
  BY <1>2, <1>3, <1>10 DEF Identity, Quiet
<1> QED
  BY <1>6, <1>7, <1>8, <1>9, <1>11 DEF LibraryInv

LEMMA InComputerKeeps ==
    ASSUME LedgerInv, LibraryInv, NEW card2, InComputer(card2)
    PROVE  LibraryInv'
<1>1. /\ pc = "idle" /\ pc' = "recover" /\ inst = None /\ inst' = None /\ landed' = landed
      /\ ~IntentStands /\ IsLibraryCard(card') /\ kept' = None
  BY DEF InComputer
<1>2. Quiet
  BY IsQuiet DEF InComputer
<1>3. gen = NoCall
  BY <1>1 DEF LedgerInv
<1>4. Libraries'
  BY <1>2, QuietLibraries DEF LibraryInv
<1> QED
  BY <1>1, <1>2, <1>3, <1>4
     DEF LibraryInv, Phases, Intents, Remembered, Identity, Quiet

LEMMA MountKeeps ==
    ASSUME LedgerInv, LibraryInv, Mount
    PROVE  LibraryInv'
<1>1. /\ pc = "idle" /\ pc' = "recover" /\ inst = None /\ inst' = None /\ landed' = landed
      /\ ~IntentStands /\ card' = card /\ kept' = kept
  BY DEF Mount, LibraryInv, Phases
<1>2. Quiet
  BY IsQuiet DEF Mount
<1>3. gen = NoCall
  BY <1>1 DEF LedgerInv
<1>4. Libraries'
  BY <1>2, QuietLibraries DEF LibraryInv
<1> QED
  BY <1>1, <1>2, <1>3, <1>4
     DEF LibraryInv, Phases, Intents, Remembered, Identity, Quiet

LEMMA StutterKeeps ==
    ASSUME LedgerInv, LibraryInv, UNCHANGED vars
    PROVE  LibraryInv'
<1>1. /\ pc' = pc /\ inst' = inst /\ landed' = landed /\ card' = card /\ kept' = kept
      /\ UNCHANGED <<ledgerVars, rjnl, nextId>>
  BY DEF vars, replaceVars
<1>2. Quiet
  BY <1>1, IsQuiet
<1>3. Libraries'
  BY <1>2, QuietLibraries DEF LibraryInv
<1> QED
  BY <1>1, <1>2, <1>3 DEF LibraryInv, Phases, Intents, Remembered, Identity, Quiet

\* A reset: whatever stood stands, and nothing is under way.
LEMMA InterruptKeeps ==
    ASSUME LedgerInv, LibraryInv, Interrupt
    PROVE  LibraryInv'
<1>1. /\ pc' = "recover" /\ inst' = inst /\ landed' = landed /\ card' = card
      /\ kept' = kept /\ nextId' = nextId /\ gen' = NoCall
      /\ UNCHANGED <<ljnl, sides>> /\ UNCHANGED rjnl
  BY DEF Interrupt
<1>2. Value' = Value /\ Open' = Open
  BY <1>1, LedgerAlone DEF Kept
<1>3. IntentStands' = IntentStands /\ Standing' = Standing
  BY <1>1, IntentSame
<1>4. Libraries'
  BY <1>1, <1>2 DEF LibraryInv, Libraries
<1>5. Phases'
  BY <1>1, <1>2, <1>3 DEF LibraryInv, Phases
<1>6. Intents'
  BY <1>1, <1>2, <1>3 DEF LibraryInv, Intents
<1>7. Remembered'
  BY <1>1 DEF Remembered
<1>8. \A s : KeepsId(s, kept, card, Value, inst, pc, landed)
               => KeepsId(s, kept, card, Value, inst, "recover", landed)
  BY DEF KeepsId
<1>9. Identity'
  BY <1>1, <1>2, <1>3, <1>8 DEF LibraryInv, Identity
<1> QED
  BY <1>1, <1>4, <1>5, <1>6, <1>7, <1>9 DEF LibraryInv

-----------------------------------------------------------------------------
(***************************************************************************)
(* settle.                                                                 *)
(***************************************************************************)
LEMMA PublishedIs ==
    ASSUME NEW s \in Intent
    PROVE  /\ Published(s) \in Record
           /\ Published(s).id = s.id /\ Published(s).name = s.name
           /\ Published(s).size = SizeOf[s.new] /\ Published(s).misses = 0
<1>1. s.id \in Ids /\ s.name \in Names /\ s.new \in Contents
  BY DEF Intent
<1>2. SizeOf[s.new] \in Sizes
  BY <1>1 DEF Sizes
<1>3. 0 \in 0 .. MissingScansRetained
  BY Numbers
<1> QED
  BY <1>1, <1>2, <1>3 DEF Published, Record

\* A generation begun that tells the ledger of the landing.
LEMMA ToldKeeps ==
    ASSUME LedgerInv, LibraryInv, IntentStands, pc = "settle", pc' = "generation",
           UNCHANGED <<ljnl, sides, card, rjnl, inst, landed, kept, nextId>>,
           NEW out, StartGeneration(out),
           IsLibrary(out), MintedBy(out, nextId), HasId(out, Standing.id),
           Evictable(card, out, Standing),
           \A i \in DOMAIN Value : InPlace(card, Value[i]) =>
             HasId(out, Value[i].id) \/ Standing.name = Value[i].name,
           kept # None /\ ~kept.again => Told(Standing, card, out)
    PROVE  LibraryInv'
<1>1. gen = NoCall /\ inst = None /\ Open.result # "fault"
  BY DEF LedgerInv, LibraryInv, Phases
<1>2. Value' = Value /\ Open' = Open
  BY LedgerAlone DEF Kept
<1>3. IntentStands' = IntentStands /\ Standing' = Standing
  BY IntentSame
<1>4. gen' # NoCall /\ gen'.recs = out
  <2>1. Shape /\ OwnLedger
    BY <1>1 DEF LedgerInv, OtherBuilds
  <2> QED
    BY <1>1, <2>1, StartStep
<1>5. Libraries'
  BY <1>2, <1>4 DEF LibraryInv, Libraries
<1>6. Phases'
  BY <1>1, <1>2, <1>3 DEF Phases
<1>7. Intents'
  BY <1>1, <1>2, <1>3, <1>4 DEF LibraryInv, Intents
<1>8. Remembered'
  BY <1>2, <1>3, <1>4 DEF Remembered
<1>9. \A s : KeepsId(s, kept, card, Value, inst, pc, landed)
               => KeepsId(s, kept, card, Value, inst, "generation", landed)
  BY DEF KeepsId
<1>10. Identity'
  BY <1>1, <1>2, <1>3, <1>4, <1>9 DEF LibraryInv, Identity
<1> QED
  BY <1>5, <1>6, <1>7, <1>8, <1>10 DEF LibraryInv

\* A landing published: the ledger has it, and nothing else it should not.
LEMMA LandingPublished ==
    ASSUME NEW v, IsLibrary(v), NEW s \in Intent, NEW files, NEW next \in Nat,
           IsIntent(s, files, v, next), MintedBy(v, next), NEW out,
           out = PublishRecord(v, Published(s), s.evict)
    PROVE  /\ IsLibrary(out) /\ MintedBy(out, next) /\ HasId(out, s.id)
           /\ Says(out, s.id, s.name, SizeOf[s.new])
           /\ Evictable(files, out, s)
           /\ \A i \in DOMAIN v : InPlace(files, v[i]) =>
                HasId(out, v[i].id) \/ s.name = v[i].name
<1> DEFINE r == Published(s)
<1>1. /\ r \in Record /\ r.id = s.id /\ r.name = s.name
      /\ r.size = SizeOf[s.new] /\ r.misses = 0
  BY PublishedIs
<1>2. /\ HasId(v, s.id) \/ Len(v) < MaxRecords \/ HasId(v, s.evict)
      /\ Evictable(files, v, s) /\ s.id <= next
  BY DEF IsIntent
<1>3. ~PublishIsFull(v, r, s.evict)
  <2>1. Len(v) \in Nat
    BY Elements DEF IsLibrary
  <2>2. ~(Len(v) < MaxRecords /\ Len(v) >= MaxRecords)
    BY <2>1, Numbers
  <2> QED
    BY <1>1, <1>2, <2>2 DEF PublishIsFull
<1> HIDE DEF r
<1>4. PICK e : e = s.evict
  OBVIOUS
<1>5. out = PublishRecord(v, r, e) /\ ~PublishIsFull(v, r, e)
  BY <1>3, <1>4 DEF r
<1>6. Publishes(v, r, e, out)
  BY <1>1, <1>5, PublishIs
<1>7. IsLibrary(out)
  BY <1>6 DEF Publishes
<1>8. PICK j \in DOMAIN out : out[j] = r
  BY <1>6 DEF Publishes
<1>9. Says(out, s.id, s.name, SizeOf[s.new]) /\ HasId(out, s.id)
  BY <1>1, <1>8 DEF Says, IsAt, HasId
<1>10. \A k \in DOMAIN out : out[k] = r \/ \E i \in DOMAIN v : out[k] = v[i]
  BY <1>6 DEF Publishes
<1>11. MintedBy(out, next)
  BY <1>1, <1>2, <1>10 DEF MintedBy
<1>12. Evictable(files, out, s)
  BY <1>1, <1>2, <1>10 DEF Evictable
<1>13. ASSUME NEW i \in DOMAIN v, InPlace(files, v[i])
       PROVE  HasId(out, v[i].id) \/ s.name = v[i].name
  <2>1. \/ v[i].id \in {r.id, e} \/ v[i].name = r.name
        \/ \E k \in DOMAIN out : out[k] = v[i]
    BY <1>6 DEF Publishes
  <2>2. v[i].id = e => s.name = v[i].name
    BY <1>2, <1>4, <1>13 DEF Evictable, InPlace
  <2> QED
    BY <1>1, <1>9, <2>1, <2>2 DEF HasId
<1> QED
  BY <1>7, <1>9, <1>11, <1>12, <1>13

\* A rollback's record moved to the spelling the file is under.
LEMMA RollbackRelocated ==
    ASSUME NEW v, IsLibrary(v), NEW s \in Intent, NEW files, NEW next \in Nat,
           IsIntent(s, files, v, next), MintedBy(v, next), HasId(v, s.id), NEW out,
           out = RelocateRecord(v, s.id, s.name)
    PROVE  /\ IsLibrary(out) /\ MintedBy(out, next) /\ HasId(out, s.id)
           /\ \A n, size : Says(v, s.id, n, size) => Says(out, s.id, s.name, size)
           /\ Evictable(files, out, s)
           /\ \A i \in DOMAIN v : InPlace(files, v[i]) =>
                HasId(out, v[i].id) \/ s.name = v[i].name
<1>1. s.name \in Names /\ s.id \in Ids /\ Evictable(files, v, s)
  BY DEF IsIntent, Intent
<1>2. PICK id, name : id = s.id /\ name = s.name
  OBVIOUS
<1>3. Relocates(v, id, name, out)
  <2>1. name \in Names /\ out = RelocateRecord(v, id, name)
    BY <1>1, <1>2
  <2> QED
    BY <2>1, RelocateIs
<1>4. IsLibrary(out)
  BY <1>3 DEF Relocates
<1>5. ASSUME NEW n, NEW size, Says(v, s.id, n, size) PROVE Says(out, s.id, s.name, size)
  <2>1. PICK i \in DOMAIN v : v[i].id = s.id /\ v[i].size = size
    BY <1>5 DEF Says, IsAt
  <2>2. Says(out, id, name, v[i].size)
    BY <1>2, <1>3, <2>1 DEF Relocates
  <2> QED
    BY <1>2, <2>1, <2>2
<1>6. HasId(out, s.id)
  <2>1. PICK i \in DOMAIN v : v[i].id = s.id
    BY DEF HasId
  <2>2. Says(v, s.id, v[i].name, v[i].size)
    BY <2>1 DEF Says, IsAt
  <2>3. Says(out, s.id, s.name, v[i].size)
    BY <1>5, <2>2
  <2> QED
    BY <2>3, SaysHas
<1>7. \A j \in DOMAIN out : \E i \in DOMAIN v :
         out[j].id = v[i].id /\ out[j].name \in {name, v[i].name}
  BY <1>3 DEF Relocates
<1>8. MintedBy(out, next)
  BY <1>7 DEF MintedBy
<1>9. Evictable(files, out, s)
  BY <1>1, <1>2, <1>7 DEF Evictable
<1>10. ASSUME NEW i \in DOMAIN v PROVE HasId(out, v[i].id) \/ s.name = v[i].name
  <2>1. v[i].id = id \/ v[i].name = name \/ \E j \in DOMAIN out : out[j] = v[i]
    BY <1>3 DEF Relocates
  <2> QED
    BY <1>2, <1>6, <2>1 DEF HasId
<1> QED
  BY <1>4, <1>5, <1>6, <1>8, <1>9, <1>10

LEMMA SettleKeeps ==
    ASSUME LedgerInv, LibraryInv, Settle
    PROVE  LibraryInv'
<1>1. PICK v, s : v = Value /\ s = Standing
  OBVIOUS
<1>2. /\ pc = "settle" /\ Tell(s, v)
      /\ UNCHANGED <<ljnl, sides, card, rjnl, inst, landed, kept, nextId>>
  BY <1>1 DEF Settle
<1>3. IntentStands /\ gen = NoCall /\ inst = None /\ landed \in {"new", "old"}
  BY <1>2 DEF LedgerInv, LibraryInv, Phases
<1>4. /\ IsIntent(s, card, v, nextId) /\ s \in Intent
      /\ s.name \in Names /\ s.from \in Names \cup {None}
      /\ s.new \in Contents /\ s.new # None
      /\ Resolved(card, s) /\ Open.result # "fault"
  BY <1>1, <1>3, AnIntent
<1>5. IsLibrary(v) /\ MintedBy(v, nextId) /\ nextId \in Nat /\ IsLibraryCard(card)
  BY <1>1 DEF LibraryInv, Libraries
<1>6. kept # None /\ ~kept.again => KeepsId(s, kept, card, v, inst, "settle", landed)
  BY <1>1, <1>2, <1>3 DEF LibraryInv, Identity
<1>7. ~PublishIsFull(v, Published(s), s.evict)
  <2>1. /\ HasId(v, s.id) \/ Len(v) < MaxRecords \/ HasId(v, s.evict)
        /\ Published(s).id = s.id
    BY <1>4, PublishedIs DEF IsIntent
  <2>2. Len(v) \in Nat
    BY <1>5, Elements DEF IsLibrary
  <2>3. ~(Len(v) < MaxRecords /\ Len(v) >= MaxRecords)
    BY <2>2, Numbers
  <2> QED
    BY <2>1, <2>3 DEF PublishIsFull
<1>8. CASE landed = "new"
  <2>1. PICK out : out = PublishRecord(v, Published(s), s.evict)
    OBVIOUS
  <2>2. StartGeneration(out) /\ pc' = "generation"
    BY <1>2, <1>4, <1>7, <1>8, <2>1 DEF Tell
  <2>3. /\ IsLibrary(out) /\ MintedBy(out, nextId) /\ HasId(out, s.id)
        /\ Says(out, s.id, s.name, SizeOf[s.new])
        /\ Evictable(card, out, s)
        /\ \A i \in DOMAIN v : InPlace(card, v[i]) =>
             HasId(out, v[i].id) \/ s.name = v[i].name
    BY <1>4, <1>5, <2>1, LandingPublished
  <2>4. kept # None /\ ~kept.again => Told(s, card, out)
    <3>1. kept # None /\ ~kept.again => card[s.name] = s.new
      BY <1>6, <1>8 DEF KeepsId, NewStands
    <3> QED
      BY <1>4, <2>3, <3>1 DEF Told
  <2> QED
    BY <1>1, <1>2, <1>3, <2>2, <2>3, <2>4, ToldKeeps
<1>9. CASE landed # "new" /\ Respelled(s) /\ HasId(v, s.id)
  <2>1. PICK out : out = RelocateRecord(v, s.id, s.name)
    OBVIOUS
  <2>2. StartGeneration(out) /\ pc' = "generation"
    BY <1>2, <1>3, <1>4, <1>9, <2>1 DEF Tell
  <2>3. /\ IsLibrary(out) /\ MintedBy(out, nextId) /\ HasId(out, s.id)
        /\ \A n, size : Says(v, s.id, n, size) => Says(out, s.id, s.name, size)
        /\ Evictable(card, out, s)
        /\ \A i \in DOMAIN v : InPlace(card, v[i]) =>
             HasId(out, v[i].id) \/ s.name = v[i].name
    BY <1>4, <1>5, <1>9, <2>1, RollbackRelocated
  <2>4. ASSUME kept # None, ~kept.again PROVE Told(s, card, out)
    <3>1. OldStands(s, card, v) \/ Untold(s, card, v) \/ Told(s, card, v)
      BY <1>6, <1>9, <2>4 DEF KeepsId
    <3>2. ~OldStands(s, card, v) /\ card[s.name] # None
      BY <1>9 DEF Respelled, OldStands
    <3> QED
      BY <2>3, <3>1, <3>2 DEF Untold, Told
  <2> QED
    BY <1>1, <1>2, <1>3, <2>2, <2>3, <2>4, ToldKeeps
<1>10. CASE landed # "new" /\ ~(Respelled(s) /\ HasId(v, s.id))
  <2>1. pc' = "clear" /\ gen' = gen
    BY <1>2, <1>3, <1>4, <1>10 DEF Tell
  <2>2. Quiet
    BY <1>2, <2>1, IsQuiet DEF ledgerVars
  <2>3. Libraries'
    BY <2>2, QuietLibraries DEF LibraryInv
  <2>4. Phases'
    BY <1>2, <1>3, <1>4, <2>1, <2>2 DEF Phases, Quiet
  <2>5. Intents'
    BY <1>1, <1>2, <1>3, <1>4, <2>1, <2>2 DEF Intents, Quiet
  <2>6. Remembered'
    BY <1>3, <2>1 DEF Remembered
  <2>7. ASSUME kept # None, ~kept.again
        PROVE  KeepsId(s, kept, card, v, inst, "clear", landed)
    <3>1. /\ KeepsId(s, kept, card, v, inst, "settle", landed)
          /\ s.from # None
          /\ OldStands(s, card, v) \/ Untold(s, card, v) \/ Told(s, card, v)
      BY <1>6, <1>10, <2>7 DEF KeepsId
    <3>2. CASE Untold(s, card, v)
      <4>1. HasId(v, s.id) /\ s.from # s.name /\ card[s.name] # None
        BY <3>2, SaysHas DEF Untold
      <4>2. card[s.from] # None
        BY <1>10, <3>1, <4>1 DEF Respelled
      <4>3. Fold[s.from] = Fold[s.name]
        BY <1>4, <3>1 DEF IsIntent
      <4> QED
        BY <1>4, <1>5, <3>1, <4>1, <4>2, <4>3 DEF IsLibraryCard
    <3>3. CASE ~Untold(s, card, v)
      BY <1>3, <3>1, <3>3 DEF KeepsId
    <3> QED
      BY <3>2, <3>3
  <2>8. Identity'
    BY <1>1, <1>2, <1>3, <2>1, <2>2, <2>7 DEF Identity, Quiet
  <2> QED
    BY <1>2, <1>5, <2>3, <2>4, <2>5, <2>6, <2>8 DEF LibraryInv
<1> QED
  BY <1>8, <1>9, <1>10

-----------------------------------------------------------------------------
(***************************************************************************)
(* The writes of a generation, and the scan that begins one.               *)
(***************************************************************************)
LEMMA WholeAfter ==
    ASSUME StillOurs
    PROVE  Open'.result # "fault"
<1>1. (Shape /\ Reached => Whole)'
  BY ReachedIsWhole, PTL
<1>2. Orderly(ljnl)' /\ ~ForeignLedger' /\ Whole'
  BY <1>1 DEF StillOurs, Shape
<1>3. (Orderly(ljnl) /\ ~ForeignLedger /\ Whole =>
          \/ EmptyLedger /\ Open = NoLedger
          \/ \E i \in SlotNumbers : LiveAt(i) /\ Open = Live(i))'
  BY OpenIsEither, PTL
<1>4. Open' = NoLedger \/ \E i \in SlotNumbers : Open' = Live(i)
  BY <1>2, <1>3
<1> QED
  BY <1>4 DEF NoLedger, Live

LEMMA WriteKeeps ==
    ASSUME LedgerInv, LibraryInv, NEW cut \in BOOLEAN, Write(cut)
    PROVE  LibraryInv'
<1>1. /\ pc = "generation" /\ card' = card /\ inst' = inst /\ landed' = landed
      /\ kept' = kept /\ nextId' = nextId /\ rjnl' = rjnl
      /\ pc' = IF cut THEN "recover"
               ELSE IF gen' # NoCall THEN "generation"
               ELSE IF IntentStands THEN "clear" ELSE "idle"
  BY DEF Write
<1>2. Ours /\ StepOf(cut)
  BY WriteStep
<1>3. gen # NoCall /\ Open'.result # "fault"
  BY <1>2, WholeAfter DEF Ours, StepOf
<1>4. IntentStands' = IntentStands /\ Standing' = Standing
  BY <1>1, IntentSame
<1>5. inst = None
  BY <1>1 DEF LibraryInv, Phases
<1>6. PICK v, g, s : v = Value /\ g = gen.recs /\ s = Standing
  OBVIOUS
<1>7. /\ \/ gen' = NoCall
         \/ gen' # NoCall /\ gen'.recs = g
      /\ Value' \in {v, g}
      /\ cut => gen' = NoCall
      /\ ~cut /\ gen' = NoCall => Value' = g
  BY <1>2, <1>6 DEF StepOf, Cut, Kept, Same
<1>8. /\ IsLibrary(v) /\ MintedBy(v, nextId) /\ IsLibrary(g) /\ MintedBy(g, nextId)
      /\ nextId \in Nat /\ IsLibraryCard(card)
  BY <1>3, <1>6 DEF LibraryInv, Libraries
<1>9. Libraries'
  BY <1>1, <1>7, <1>8 DEF Libraries
<1>10. Phases'
  BY <1>1, <1>3, <1>4, <1>5, <1>7 DEF Phases
<1>11. ASSUME IntentStands
       PROVE  /\ IsIntent(s, card, v, nextId) /\ Resolved(card, s)
              /\ HasId(g, s.id) /\ Evictable(card, g, s)
  BY <1>3, <1>5, <1>6, <1>11 DEF LibraryInv, Intents
<1>12. ASSUME IntentStands PROVE IsIntent(s, card, g, nextId)
  BY <1>11, <1>12 DEF IsIntent
<1>13. Intents'
  <2>1. ASSUME IntentStands PROVE IsIntent(s, card, Value', nextId)
    BY <1>7, <1>11, <1>12, <2>1
  <2>2. pc' # "begun"
    BY <1>1
  <2> QED
    BY <1>1, <1>4, <1>5, <1>6, <1>7, <1>11, <2>1, <2>2 DEF Intents
<1>14. Remembered'
  <2>1. \A i \in DOMAIN v : InPlace(card, v[i]) =>
          HasId(g, v[i].id) \/ (IntentStands /\ s.name = v[i].name)
    BY <1>3, <1>6 DEF LibraryInv, Remembered
  <2>2. \A i \in DOMAIN g : HasId(g, g[i].id)
    BY DEF HasId
  <2>3. PICK w : w = Value'
    OBVIOUS
  <2>4. \A i \in DOMAIN w : InPlace(card, w[i]) =>
          HasId(g, w[i].id) \/ (IntentStands /\ s.name = w[i].name)
    BY <1>7, <2>1, <2>2, <2>3
  <2> QED
    BY <1>1, <1>4, <1>6, <1>7, <2>3, <2>4 DEF Remembered
<1>15. ASSUME kept # None, ~kept.again, IntentStands
       PROVE  KeepsId(s, kept, card, Value', None, pc', landed) /\ Told(s, card, g)
  <2>1. KeepsId(s, kept, card, v, None, pc, landed) /\ Told(s, card, g)
    BY <1>3, <1>5, <1>6, <1>15 DEF LibraryInv, Identity
  <2>2. CASE Value' = v
    <3>1. pc' \in {"recover", "generation", "clear"} /\ (pc' = "clear" => v = g)
      BY <1>1, <1>7, <1>15, <2>2
    <3> QED
      BY <2>1, <2>2, <3>1 DEF KeepsId
  <2>3. CASE Value' = g
    <3>1. pc' \in {"recover", "generation", "clear"}
      BY <1>1, <1>15
    <3> QED
      BY <2>1, <2>3, <3>1 DEF KeepsId
  <2> QED
    BY <1>7, <2>2, <2>3
<1>16. ASSUME kept # None, ~kept.again, ~IntentStands
       PROVE  KeptAt(kept, card, Value') /\ KeptAt(kept, card, g)
  BY <1>3, <1>6, <1>7, <1>16 DEF LibraryInv, Identity
<1>17. Identity'
  BY <1>1, <1>4, <1>5, <1>6, <1>7, <1>15, <1>16 DEF Identity
<1> QED
  BY <1>1, <1>8, <1>9, <1>10, <1>13, <1>14, <1>17 DEF LibraryInv

LEMMA ScanKeeps ==
    ASSUME LedgerInv, LibraryInv, NEW unread, Scan(unread)
    PROVE  LibraryInv'
<1>1. PICK v, files, rows, next : v = Value /\ files = card /\ rows = Rows /\ next = nextId
  OBVIOUS
<1> DEFINE new == NewRows(v, files, rows)
           fresh == [k \in DOMAIN new |-> next + k]
           out == AssignBookIds(v, files, rows, unread, fresh)
<1>2. /\ pc = "idle" /\ ~IntentStands /\ inst = None /\ Open.result # "fault"
      /\ next + Len(new) <= MaxIds
      /\ StartGeneration(out)
      /\ nextId' = next + Len(new)
      /\ pc' = "generation"
      /\ UNCHANGED <<ljnl, sides, card, rjnl, inst, landed, kept>>
  BY <1>1 DEF Scan, MayScan, Fresh
<1>3. gen = NoCall
  BY <1>2 DEF LedgerInv
<1>4. IsLibrary(v) /\ MintedBy(v, next) /\ next \in Nat /\ IsLibraryCard(files)
  BY <1>1 DEF LibraryInv, Libraries
<1>5. ListOf(files, rows)
  BY <1>1, RowsAre
<1>6. /\ IsLibrary(out)
      /\ MintedBy(out, next + Len(new))
      /\ \A i \in Named(v, files) : Says(out, v[i].id, v[i].name, v[i].size)
  <2>1. PICK f : f = fresh
    OBVIOUS
  <2> QED
    BY <1>2, <1>4, <1>5, <2>1, AssignIs
<1>7. Named(v, files) = {i \in DOMAIN v : files[v[i].name] # None
                                          /\ v[i].size = SizeOf[files[v[i].name]]}
  BY <1>4, NamedIs
<1>8. ListOf(files, new)
  BY <1>4, <1>5, NewRowsAre
<1> HIDE DEF new, fresh, out
<1>9. Len(new) \in Nat
  BY <1>8, Elements DEF ListOf
<1>10. nextId' \in Nat /\ next <= nextId'
  BY <1>2, <1>4, <1>9
<1>11. Value' = v /\ Open' = Open
  BY <1>1, <1>2, LedgerAlone DEF Kept
<1>12. IntentStands' = IntentStands
  BY <1>2, IntentSame
<1>13. gen' # NoCall /\ gen'.recs = out
  <2>1. Shape /\ OwnLedger
    BY <1>2 DEF LedgerInv, OtherBuilds
  <2> QED
    BY <1>2, <1>3, <2>1, StartStep
<1>14. Libraries'
  <2>1. PICK m : m = nextId'
    OBVIOUS
  <2>2. MintedBy(v, m)
    BY <1>4, <1>10, <2>1, MintedOn
  <2> QED
    BY <1>2, <1>4, <1>6, <1>10, <1>11, <1>13, <2>1, <2>2 DEF Libraries
<1>15. Phases'
  BY <1>2, <1>12 DEF Phases
<1>16. Intents'
  BY <1>2, <1>12 DEF Intents
<1>17. Remembered'
  <2>1. ASSUME NEW i \in DOMAIN v, InPlace(files, v[i]) PROVE HasId(out, v[i].id)
    <3>1. i \in Named(v, files)
      BY <1>7, <2>1 DEF InPlace
    <3> QED
      BY <1>6, <3>1, SaysHas
  <2> QED
    BY <1>1, <1>2, <1>11, <1>13, <2>1 DEF Remembered
<1>18. ASSUME kept # None, ~kept.again
       PROVE  KeptAt(kept, files, v) /\ KeptAt(kept, files, out)
  <2>1. KeptAt(kept, files, v)
    BY <1>1, <1>2, <1>18 DEF LibraryInv, Identity
  <2>2. PICK n \in Names : /\ files[n] # None /\ Fold[n] = kept.place
                           /\ Says(v, kept.id, n, SizeOf[files[n]])
    BY <2>1 DEF KeptAt
  <2>3. PICK i \in DOMAIN v : /\ v[i].id = kept.id /\ v[i].name = n
                              /\ v[i].size = SizeOf[files[n]]
    BY <2>2 DEF Says, IsAt
  <2>4. i \in Named(v, files)
    BY <1>7, <2>2, <2>3
  <2>5. Says(out, kept.id, n, SizeOf[files[n]])
    BY <1>6, <2>3, <2>4
  <2> QED
    BY <2>1, <2>2, <2>5 DEF KeptAt
<1>19. Identity'
  BY <1>1, <1>2, <1>11, <1>12, <1>13, <1>18 DEF Identity
<1> QED
  BY <1>1, <1>2, <1>4, <1>14, <1>15, <1>16, <1>17, <1>19 DEF LibraryInv

-----------------------------------------------------------------------------
LEMMA LibraryInit == Init => LibraryInv
<1> SUFFICES ASSUME Init PROVE LibraryInv
  OBVIOUS
<1>1. /\ card = Card /\ rjnl = NoJournal /\ inst = None /\ pc = "recover" /\ landed = "old"
      /\ kept = None /\ nextId = 0 /\ gen = NoCall
  BY DEF Init
<1>2. IsLibraryCard(card)
  BY <1>1, ReplaceAssumption
<1>3. ~IntentStands
  BY <1>1, NoJournalHasNone DEF IntentStands
<1>4. LedgerInv
  BY InvInit
<1>5. Value = <<>>
  <2>1. CASE ljnl = NoJournal
    <3>1. sides[0].state = "absent" /\ sides[1].state = "absent"
      BY <2>1 DEF Init, NoSide, Side, SlotNumbers
    <3>2. EmptyLedger /\ ~ForeignLedger
      BY <2>1, <3>1 DEF EmptyLedger, Landed, ForeignLedger, SlotNumbers
    <3> QED
      BY <1>4, <3>2, OpenAnswers DEF LedgerInv, Shape
  <2>2. CASE ljnl # NoJournal
    <3>1. sides[1].state = "unreadable"
      BY <2>2 DEF Init, Side, SlotNumbers
    <3>2. ForeignLedger
      BY <3>1 DEF ForeignLedger, SlotNumbers
    <3>3. Open.result = "fault"
      BY <1>4, <3>2 DEF LedgerInv, OwnLedger, OtherBuilds
    <3> QED
      BY <3>3 DEF Value
  <2> QED
    BY <2>1, <2>2
<1>6. Libraries
  <2>1. MintedBy(<<>>, 0)
    BY DEF MintedBy
  <2> QED
    BY <1>1, <1>5, <2>1, EmptyLibrary DEF Libraries
<1> QED
  BY <1>1, <1>2, <1>3, <1>6 DEF LibraryInv, Phases, Intents, Remembered, Identity

LEMMA LibraryStep ==
    ASSUME LedgerInv, LibraryInv, [Next]_vars
    PROVE  LibraryInv'
<1>1. ASSUME NEW o \in Offers, NEW cut \in BOOLEAN, Begin(o[1], o[2], cut) PROVE LibraryInv'
  <2>1. o[1] \in Names /\ o[2] \in Contents
    BY ReplaceAssumption
  <2> QED
    BY <1>1, <2>1, BeginKeeps
<1>2. CASE WriteIntent \/ Park \/ Land \/ Restore \/ ClearInstall
  BY <1>2, WriteIntentKeeps, ParkKeeps, LandKeeps, RestoreKeeps, ClearInstallKeeps
<1>3. CASE Settle \/ Recover
  BY <1>3, SettleKeeps, RecoverKeeps
<1>4. CASE \E cut \in BOOLEAN : Write(cut) \/ Clear(cut)
  BY <1>4, WriteKeeps, ClearKeeps
<1>5. CASE \E unread \in SUBSET Range(NewRows(Value, card, Rows)) : Scan(unread)
  <2>1. PICK unread : Scan(unread)
    BY <1>5
  <2> QED
    BY <2>1, ScanKeeps
<1>6. CASE \E n \in Names : Delete(n)
  BY <1>6, DeleteKeeps
<1>7. CASE \E e \in Edits : Edit(e[1], e[2])
  <2>1. PICK card2 : InComputer(card2)
    BY <1>7 DEF Edit
  <2> QED
    BY <2>1, InComputerKeeps
<1>8. CASE \E m \in Moves : Move(m[1], m[2])
  <2>1. PICK card2 : InComputer(card2)
    BY <1>8 DEF Move
  <2> QED
    BY <2>1, InComputerKeeps
<1>9. CASE Mount \/ Interrupt
  BY <1>9, MountKeeps, InterruptKeeps
<1>10. CASE UNCHANGED vars
  BY <1>10, StutterKeeps
<1> QED
  BY <1>1, <1>2, <1>3, <1>4, <1>5, <1>6, <1>7, <1>8, <1>9, <1>10 DEF Next

\* The card, the intent that stands and both generations fit one another at
\* every step: an upload always has room, a standing intent can always be
\* resolved, and the copy it replaces is where settle and recover look for it.
THEOREM LibraryInvariant == Spec => []LibraryInv
<1>1. LedgerInv /\ LibraryInv /\ [Next]_vars => LibraryInv'
  BY LibraryStep
<1> QED
  BY LibraryInit, <1>1, LedgerInvariant, PTL DEF Spec

\* Wherever a cut tears a write, recovery is never left refusing nor full: the
\* ledger opens, REPLACE.JNL reads, a standing intent's destination is one of
\* its two landings, and the ledger has room for it (recover, settle).
THEOREM NeverRefusing == Spec => []AlwaysResolvable
<1>1. LibraryInv => pc # "refused"
  BY DEF LibraryInv, Phases
<1> QED
  BY <1>1, LibraryInvariant, AlwaysReads, PTL DEF AlwaysResolvable

\* No two copies carry one id, and no two that were there at the last scan
\* claim one name, in any generation that is ever live (publish_record,
\* relocate_record, assign_book_ids).
THEOREM OneClaim == Spec => []OneClaimPerPlace
<1>1. LibraryInv => OneClaimPerPlace
  BY DEF LibraryInv, Libraries, IsLibrary, Apart, OneClaimPerPlace
<1> QED
  BY <1>1, LibraryInvariant, PTL

\* The ledger says what it said, or what the call under way means it to say.
LEMMA ValueStep ==
    ASSUME LedgerInv, [Next]_vars
    PROVE  Value' = Value \/ (gen # NoCall /\ Value' = gen.recs)
<1>1. CASE Alone
  BY <1>1, LedgerSame DEF Alone
<1>2. CASE Started \/ Dropped
  BY <1>2, LedgerAlone DEF Started, Dropped, Kept
<1>3. ASSUME NEW cut \in BOOLEAN, Write(cut)
      PROVE  Value' = Value \/ (gen # NoCall /\ Value' = gen.recs)
  BY <1>3, WriteStep DEF Ours, StepOf, Cut, Kept
<1> QED
  BY <1>1, <1>2, <1>3, KindsOfStep

\* A copy that is where its record says keeps its id in every generation that
\* lands, unless an upload has landed at that place: a scan carries it, and a
\* publication or a relocation drops no other.
THEOREM NotForgotten == Spec => NoCopyForgotten
<1>1. ASSUME LedgerInv, LibraryInv, [Next]_vars, NEW i \in DOMAIN Value,
             card[Value[i].name] # None, SizeOf[card[Value[i].name]] = Value[i].size
      PROVE  HasId(Value', Value[i].id) \/ (IntentStands /\ Standing.name = Value[i].name)
  <2>1. PICK v, w : v = Value /\ w = Value'
    OBVIOUS
  <2>2. CASE w = v
    BY <1>1, <2>1, <2>2 DEF HasId
  <2>3. CASE gen # NoCall /\ w = gen.recs
    <3>1. InPlace(card, Value[i])
      BY <1>1 DEF InPlace
    <3> QED
      BY <1>1, <2>1, <2>3, <3>1 DEF LibraryInv, Remembered
  <2> QED
    BY <1>1, <2>1, <2>2, <2>3, ValueStep
<1>2. LedgerInv /\ LibraryInv /\ [Next]_vars =>
        [LET recs == Value IN
         \A i \in DOMAIN recs :
           LET r == recs[i] IN
           /\ card[r.name] # None
           /\ SizeOf[card[r.name]] = r.size
           => HasId(Value', r.id) \/ (IntentStands /\ Standing.name = r.name)]_vars
  BY <1>1
<1> QED
  BY <1>2, LedgerInvariant, LibraryInvariant, PTL DEF Spec, NoCopyForgotten

\* A copy replaced by an upload keeps its id, whichever side landed, however
\* often it was settled and wherever the power went: once nothing stands, the
\* file at that place answers to the id the upload found there.
THEOREM IdKept == Spec => []IdentityKept
<1>1. LedgerInv /\ LibraryInv => IdentityKept
  <2> SUFFICES ASSUME LedgerInv, LibraryInv, kept # None, ~kept.again, ~IntentStands
               PROVE  \E n \in Held : Fold[n] = kept.place /\ Answer(n) = kept.id
    BY DEF IdentityKept, AnswersAtItsPlace
  <2>1. PICK v, k : v = Value /\ k = kept
    OBVIOUS
  <2>2. IsLibrary(v) /\ KeptAt(k, card, v)
    BY <2>1 DEF LibraryInv, Libraries, Identity
  <2>3. PICK n \in Names : /\ card[n] # None /\ Fold[n] = k.place
                           /\ Says(v, k.id, n, SizeOf[card[n]])
    BY <2>2 DEF KeptAt
  <2>4. k.id \in Ids
    BY <2>2, <2>3, TypedRecords DEF Says
  <2>5. PICK size : size = SizeOf[card[n]]
    OBVIOUS
  <2>6. FindRecord(n, size) = k.id
    BY <2>1, <2>2, <2>3, <2>4, <2>5, FindIs
  <2> QED
    BY <2>1, <2>3, <2>5, <2>6 DEF Held, Answer
<1> QED
  BY <1>1, LedgerInvariant, LibraryInvariant, PTL

-----------------------------------------------------------------------------
(***************************************************************************)
(* Types.                                                                  *)
(***************************************************************************)
LEMMA WrittenTyped ==
    ASSUME NEW E, NEW j \in [SlotNumbers -> Slot(E)], Orderly(j), NEW e \in E
    PROVE  /\ Publish(j, e) \in [SlotNumbers -> Slot(E)]
           /\ Tear(j) \in [SlotNumbers -> Slot(E)]
<1>1. TargetSlot(j) \in SlotNumbers /\ TargetSeq(j) \in SeqNumber
  BY Target
<1>2. Entry(TargetSeq(j), e) \in Slot(E) /\ Damaged \in Slot(E)
  BY <1>1 DEF Entry, Slot
<1> QED
  BY <1>1, <1>2 DEF Publish, Tear

LEMMA EmptyTyped == \A E : NoJournal \in [SlotNumbers -> Slot(E)]
BY DEF NoJournal, Slot

\* The part of TypeOK about the ledger, but for the records of a call.
SideTyped(s) ==
    /\ s.state \in SideStates
    /\ s.header \in Headers \cup {NoHeader}
    /\ Range(s.recs) \subseteq Record
    /\ Len(s.recs) <= MaxRecords

LedgerTyped ==
    /\ ljnl \in [SlotNumbers -> Slot(JournalEntries)]
    /\ \A i \in SlotNumbers : SideTyped(sides[i])
    /\ gen.at \in {"announce", "truncate", "records", "rewriting", "header",
                  "committed", "done"}
    /\ gen.standing \in Headers \cup {NoHeader}

\* The part about the rest.
RestTyped ==
    /\ rjnl \in [SlotNumbers -> Slot(Intent \cup {Cleared})]
    /\ pc \in {"recover", "idle", "begun", "install", "settle", "generation", "clear", "refused"}
    /\ landed \in {"new", "old", "refused"}
    /\ nextId \in 0 .. MaxIds
    /\ cuts \in 0 .. MaxCuts

LEMMA RecordsTyped ==
    /\ Range(<<>>) \subseteq Record /\ Len(<<>>) <= MaxRecords
    /\ \A recs : IsLibrary(recs) => /\ Range(recs) \subseteq Record
                                    /\ Len(recs) \in Nat /\ Len(recs) <= MaxRecords
<1>1. Range(<<>>) \subseteq Record /\ Len(<<>>) <= MaxRecords
  BY Numbers DEF Range
<1>2. ASSUME NEW recs, IsLibrary(recs)
      PROVE  Range(recs) \subseteq Record /\ Len(recs) \in Nat /\ Len(recs) <= MaxRecords
  <2>1. recs \in Seq(Record) /\ Len(recs) <= MaxRecords
    BY <1>2 DEF IsLibrary
  <2> QED
    BY <2>1, Elements DEF Range
<1> QED
  BY <1>1, <1>2

LEMMA HeaderTyped ==
    ASSUME NEW h \in Headers \cup {NoHeader}
    PROVE  NextGen(h) \in SeqNumber
<1>1. CASE h = NoHeader
  BY <1>1, ModulusAssumption DEF NextGen, SeqNumber
<1>2. CASE h # NoHeader
  BY <1>2, NextIsNewer DEF NextGen, Headers
<1> QED
  BY <1>1, <1>2

LEMMA TypesInit == Init => LedgerTyped /\ RestTyped
<1> SUFFICES ASSUME Init PROVE LedgerTyped /\ RestTyped
  OBVIOUS
<1>1. RestTyped
  <2>1. 0 \in 0 .. MaxIds /\ 0 \in 0 .. MaxCuts
    BY ReplaceAssumption
  <2> QED
    BY <2>1, EmptyTyped DEF Init, RestTyped
<1>2. SideTyped(NoSide) /\ SideTyped(Side("unreadable", NoHeader, <<>>))
  BY RecordsTyped DEF SideTyped, NoSide, Side, SideStates
<1>3. Header(1, 0) \in Headers
  <2>1. 1 \in SeqNumber /\ 0 \in 0 .. MaxRecords
    BY ModulusAssumption, Numbers DEF SeqNumber
  <2> QED
    BY <2>1 DEF Headers, Header
<1>4. SideTyped(Side("committed", Header(1, 0), <<>>))
  BY <1>3, RecordsTyped DEF SideTyped, Side, SideStates
<1>5. \A i \in SlotNumbers : SideTyped(sides[i])
  BY <1>2, <1>4 DEF Init
<1>6. ljnl \in [SlotNumbers -> Slot(JournalEntries)]
  <2>1. CASE ljnl = NoJournal
    BY <2>1, EmptyTyped
  <2>2. CASE ljnl # NoJournal
    <3>1. PICK e : e = [kind |-> "rewriting", side |-> 1, header |-> Header(1, 0)]
      OBVIOUS
    <3>2. ljnl = [i \in SlotNumbers |-> IF i = 0 THEN Entry(1, e) ELSE Blank]
      BY <2>2, <3>1 DEF Init
    <3>3. e \in JournalEntries
      BY <1>3, <3>1 DEF JournalEntries, SlotNumbers
    <3>4. Entry(1, e) \in Slot(JournalEntries) /\ Blank \in Slot(JournalEntries)
      BY <3>3, ModulusAssumption DEF Slot, Entry, SeqNumber
    <3> QED
      BY <3>2, <3>4
  <2> QED
    BY <2>1, <2>2
<1>7. gen.at = "done" /\ gen.standing = NoHeader
  BY DEF Init, NoCall
<1> QED
  BY <1>1, <1>5, <1>6, <1>7 DEF LedgerTyped

\* The three kinds of write of the ledger.
LEMMA SideWritten ==
    ASSUME Shape, LedgerTyped, NEW s, SideTyped(s), sides' = [sides EXCEPT ![gen.target] = s]
    PROVE  \A i \in SlotNumbers : SideTyped(sides'[i])
BY DEF Shape, LedgerTyped

LEMMA JournalWritten ==
    ASSUME Shape, LedgerTyped, NEW e \in JournalEntries, NEW cut \in BOOLEAN, WriteJournal(e, cut)
    PROVE  ljnl' \in [SlotNumbers -> Slot(JournalEntries)]
BY WrittenTyped DEF WriteJournal, Shape, LedgerTyped

LEMMA WentOn ==
    ASSUME Shape, LedgerTyped, NEW cut \in BOOLEAN,
           NEW at \in {"announce", "truncate", "records", "rewriting", "header", "committed"},
           GoOn(at, cut)
    PROVE  /\ gen'.at \in {"announce", "truncate", "records", "rewriting", "header",
                          "committed", "done"}
           /\ gen'.standing \in Headers \cup {NoHeader}
BY DEF GoOn, Shape, LedgerTyped, NoCall

LEMMA WriteTyped ==
    ASSUME LedgerInv, LibraryInv, LedgerTyped, NEW cut \in BOOLEAN, WriteGeneration(cut)
    PROVE  LedgerTyped'
<1>1. Shape /\ gen.target \in SlotNumbers
  BY DEF LedgerInv, Shape
<1>2. gen # NoCall
  BY DEF WriteGeneration, Announce, TruncateTarget, CloseRecords, SayRewriting,
         CommitHeader, SayCommitted, At, NoCall
<1>3. Range(gen.recs) \subseteq Record /\ Len(gen.recs) <= MaxRecords /\ Len(gen.recs) \in Nat
  BY <1>2, RecordsTyped DEF LibraryInv, Libraries
<1>4. Rewriting \in JournalEntries
  BY <1>1 DEF Rewriting, JournalEntries, LedgerTyped
<1>5. NextHeader \in Headers /\ Committed \in JournalEntries
  <2>1. NextGen(gen.standing) \in SeqNumber
    BY HeaderTyped DEF LedgerTyped
  <2>2. Len(gen.recs) \in 0 .. MaxRecords
    BY <1>3, Numbers
  <2>3. NextHeader \in Headers
    BY <2>1, <2>2 DEF NextHeader, Header, Headers
  <2> QED
    BY <1>1, <2>3 DEF Committed, JournalEntries
<1>6. SideTyped(Side("uncommitted", NoHeader, <<>>))
  BY RecordsTyped DEF SideTyped, Side, SideStates
<1>7. \A st \in {"uncommitted", "damaged"} : SideTyped(Side(st, NoHeader, gen.recs))
  BY <1>3 DEF SideTyped, Side, SideStates
<1>8. SideTyped(Side("committed", NextHeader, gen.recs))
  BY <1>3, <1>5 DEF SideTyped, Side, SideStates
<1>9. CASE Announce(cut)
  <2>1. ljnl' \in [SlotNumbers -> Slot(JournalEntries)]
    BY <1>1, <1>4, <1>9, JournalWritten DEF Announce
  <2> QED
    BY <1>1, <1>9, <2>1, WentOn DEF Announce, LedgerTyped
<1>10. CASE TruncateTarget(cut)
  <2>1. \A i \in SlotNumbers : SideTyped(sides'[i])
    BY <1>1, <1>6, <1>10, SideWritten DEF TruncateTarget
  <2> QED
    BY <1>1, <1>10, <2>1, WentOn DEF TruncateTarget, LedgerTyped
<1>11. CASE CloseRecords(cut)
  <2>1. \A i \in SlotNumbers : SideTyped(sides'[i])
    BY <1>1, <1>7, <1>11, SideWritten DEF CloseRecords
  <2>2. PICK at \in {"header", "rewriting"} : GoOn(at, cut)
    BY <1>11 DEF CloseRecords
  <2> QED
    BY <1>1, <1>11, <2>1, <2>2, WentOn DEF CloseRecords, LedgerTyped
<1>12. CASE SayRewriting(cut)
  <2>1. ljnl' \in [SlotNumbers -> Slot(JournalEntries)]
    BY <1>1, <1>4, <1>12, JournalWritten DEF SayRewriting
  <2> QED
    BY <1>1, <1>12, <2>1, WentOn DEF SayRewriting, LedgerTyped
<1>13. CASE CommitHeader(cut)
  <2>1. \A i \in SlotNumbers : SideTyped(sides'[i])
    <3>1. PICK s : SideTyped(s) /\ sides' = [sides EXCEPT ![gen.target] = s]
      BY <1>7, <1>8, <1>13 DEF CommitHeader
    <3> QED
      BY <1>1, <3>1, SideWritten
  <2> QED
    BY <1>1, <1>13, <2>1, WentOn DEF CommitHeader, LedgerTyped
<1>14. CASE SayCommitted(cut)
  <2>1. ljnl' \in [SlotNumbers -> Slot(JournalEntries)]
    BY <1>1, <1>5, <1>14, JournalWritten DEF SayCommitted
  <2> QED
    BY <1>14, <2>1 DEF SayCommitted, LedgerTyped, NoCall
<1> QED
  BY <1>9, <1>10, <1>11, <1>12, <1>13, <1>14 DEF WriteGeneration

LEMMA LedgerTypedStep ==
    ASSUME LedgerInv, LibraryInv, LedgerTyped, [Next]_vars
    PROVE  LedgerTyped'
<1>1. CASE Alone
  BY <1>1 DEF Alone, ledgerVars, LedgerTyped
<1>2. CASE Started
  <2>1. PICK recs : StartGeneration(recs)
    BY <1>2 DEF Started
  <2>2. Orderly(ljnl) /\ ~ForeignLedger /\ Whole
    BY <1>2 DEF LedgerInv, Shape, OwnLedger, OtherBuilds, Started
  <2>3. Open = NoLedger \/ \E i \in SlotNumbers : Open = Live(i)
    BY <2>2, OpenIsEither
  <2>4. gen'.at \in {"truncate", "announce"}
        /\ gen'.standing = IF Open.result = "live" THEN sides[Open.side].header ELSE NoHeader
    BY <2>1 DEF StartGeneration
  <2>5. gen'.standing \in Headers \cup {NoHeader}
    BY <2>3, <2>4 DEF Live, NoLedger, LedgerTyped, SideTyped
  <2> QED
    BY <1>2, <2>4, <2>5 DEF Started, LedgerTyped
<1>3. ASSUME NEW cut \in BOOLEAN, Write(cut) PROVE LedgerTyped'
  BY <1>3, WriteTyped DEF Write
<1>4. CASE Dropped
  BY <1>4 DEF Dropped, LedgerTyped, NoCall
<1> QED
  BY <1>1, <1>2, <1>3, <1>4, KindsOfStep

LEMMA CutTyped ==
    ASSUME cuts \in 0 .. MaxCuts, NEW cut, MayCut(cut)
    PROVE  cuts' \in 0 .. MaxCuts
<1>1. MaxCuts \in Nat
  BY ReplaceAssumption
<1> QED
  BY <1>1 DEF MayCut

LEMMA RestTypedStep ==
    ASSUME LedgerInv, LibraryInv, RestTyped, [Next]_vars
    PROVE  RestTyped'
<1>0. /\ MaxIds \in Nat /\ Ids = 1 .. MaxIds /\ MaxCuts \in Nat
      /\ nextId \in 0 .. MaxIds /\ cuts \in 0 .. MaxCuts /\ Orderly(rjnl)
      /\ rjnl \in [SlotNumbers -> Slot(Intent \cup {Cleared})]
  BY ReplaceAssumption DEF RestTyped, LedgerInv
<1>1. ASSUME NEW o \in Offers, NEW cut \in BOOLEAN, Begin(o[1], o[2], cut) PROVE RestTyped'
  <2>1. PICK n \in Names, c \in Contents : n = o[1] /\ c = o[2]
    BY ReplaceAssumption
  <2>2. PICK s : s = IntentFor(n, c)
    OBVIOUS
  <2>3. /\ Cardinality({Fold[m] : m \in Held \cup {n}}) <= MaxRecords
        /\ Mints(s) => Fresh(1) \in Ids
        /\ ~IsFull(s)
        /\ WriteReplaceJournal(s, cut) /\ MayCut(cut)
        /\ pc' = (IF cut THEN "recover" ELSE "begun")
        /\ nextId' = (IF Mints(s) THEN Fresh(1) ELSE nextId)
        /\ landed' = landed
    BY <1>1, <2>1, <2>2 DEF Begin, Then
  <2>4. s \in Intent
    BY <2>1, <2>2, <2>3, IntentForIs DEF IsIntent
  <2>5. rjnl' \in [SlotNumbers -> Slot(Intent \cup {Cleared})]
    BY <1>0, <2>3, <2>4, WrittenTyped DEF WriteReplaceJournal
  <2>6. cuts' \in 0 .. MaxCuts
    BY <1>0, <2>3, CutTyped
  <2>7. nextId' \in 0 .. MaxIds
    BY <1>0, <2>3
  <2> QED
    BY <2>3, <2>5, <2>6, <2>7 DEF RestTyped
<1>2. CASE WriteIntent
  BY <1>2 DEF WriteIntent, RestTyped
<1>3. CASE Park \/ Land \/ Restore
  BY <1>3 DEF Park, Land, Restore, InstallStep, RestTyped
<1>4. CASE ClearInstall
  BY <1>4 DEF ClearInstall, RestTyped
<1>5. CASE Settle
  <2>1. PICK recs : Tell(Standing, recs)
    BY <1>5 DEF Settle
  <2>2. pc' \in {"refused", "generation", "clear"}
    BY <2>1 DEF Tell
  <2> QED
    BY <1>5, <2>2 DEF Settle, RestTyped
<1>6. CASE Recover
  <2>1. PICK s, l : s = Standing /\ l = Landing(s)
    OBVIOUS
  <2>2. l \in {"new", "old", "refused"}
    BY <2>1 DEF Landing
  <2> QED
    BY <1>6, <2>1, <2>2 DEF Recover, RestTyped
<1>7. ASSUME NEW cut \in BOOLEAN, Write(cut) PROVE RestTyped'
  <2>1. cuts' \in 0 .. MaxCuts
    BY <1>0, <1>7, CutTyped DEF Write
  <2> QED
    BY <1>7, <2>1 DEF Write, RestTyped
<1>8. ASSUME NEW cut \in BOOLEAN, Clear(cut) PROVE RestTyped'
  <2>1. cuts' \in 0 .. MaxCuts
    BY <1>0, <1>8, CutTyped DEF Clear
  <2>2. rjnl' \in [SlotNumbers -> Slot(Intent \cup {Cleared})]
    BY <1>0, <1>8, WrittenTyped DEF Clear, WriteReplaceJournal
  <2> QED
    BY <1>8, <2>1, <2>2 DEF Clear, Then, RestTyped
<1>9. CASE \E unread \in SUBSET Range(NewRows(Value, card, Rows)) : Scan(unread)
  <2>1. PICK unread : Scan(unread)
    BY <1>9
  <2>2. PICK m : m = nextId'
    OBVIOUS
  <2>3. m <= MaxIds /\ m \in Nat
    BY <2>1, <2>2, ScanKeeps DEF Scan, LibraryInv, Libraries
  <2>4. nextId' \in 0 .. MaxIds
    BY <1>0, <2>2, <2>3
  <2>5. UNCHANGED <<rjnl, landed, cuts>> /\ pc' = "generation"
    BY <2>1 DEF Scan
  <2> QED
    BY <2>4, <2>5 DEF RestTyped
<1>10. CASE \E n \in Names : Delete(n)
  BY <1>10 DEF Delete, RestTyped
<1>11. CASE (\E e \in Edits : Edit(e[1], e[2])) \/ (\E m \in Moves : Move(m[1], m[2]))
  BY <1>11 DEF Edit, Move, InComputer, RestTyped
<1>12. CASE Mount
  BY <1>12 DEF Mount, RestTyped
<1>13. CASE Interrupt
  <2>1. cuts < MaxCuts /\ cuts' = cuts + 1 /\ pc' = "recover" /\ UNCHANGED <<rjnl, landed, nextId>>
    BY <1>13 DEF Interrupt
  <2>2. cuts' \in 0 .. MaxCuts
    BY <1>0, <2>1
  <2> QED
    BY <2>1, <2>2 DEF RestTyped
<1>14. CASE UNCHANGED vars
  BY <1>14 DEF vars, replaceVars, RestTyped
<1> QED
  BY <1>1, <1>2, <1>3, <1>4, <1>5, <1>6, <1>7, <1>8, <1>9, <1>10, <1>11, <1>12, <1>13, <1>14
     DEF Next

\* Every variable has its type: in particular a generation never outgrows its
\* file, no id past the last that can be minted is given out, and every entry
\* written to a journal is one a mount can read.
THEOREM TypesHold == Spec => []TypeOK
<1>1. LedgerInv /\ LibraryInv /\ LedgerTyped /\ RestTyped => TypeOK
  <2> SUFFICES ASSUME LedgerInv, LibraryInv, LedgerTyped, RestTyped PROVE TypeOK
    OBVIOUS
  <2>1. Range(gen.recs) \subseteq Record /\ Len(gen.recs) <= MaxRecords
    <3>1. CASE gen = NoCall
      BY <3>1, RecordsTyped DEF NoCall
    <3>2. CASE gen # NoCall
      BY <3>2, RecordsTyped DEF LibraryInv, Libraries
    <3> QED
      BY <3>1, <3>2
  <2>2. gen.target \in SlotNumbers
    BY DEF LedgerInv, Shape
  <2>3. card \in [Names -> Contents \cup {None}]
    BY DEF LibraryInv, IsLibraryCard
  <2>4. inst \in Installs \cup {None}
    BY DEF LibraryInv, Phases, Intents, InstallAt
  <2> QED
    BY <2>1, <2>2, <2>3, <2>4 DEF TypeOK, LedgerTyped, RestTyped, SideTyped
<1>2. LedgerInv /\ LibraryInv /\ (LedgerTyped /\ RestTyped) /\ [Next]_vars
        => (LedgerTyped /\ RestTyped)'
  BY LedgerTypedStep, RestTypedStep
<1> QED
  BY <1>1, <1>2, TypesInit, LedgerInvariant, LibraryInvariant, PTL DEF Spec

=============================================================================
