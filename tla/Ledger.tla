------------------------------- MODULE Ledger -------------------------------
(***************************************************************************)
(* The library ledger, upload-store/src/ledger.rs: which BookId each copy  *)
(* on the card carries.  A generation is a whole file, LEDGERA.BIN or      *)
(* LEDGERB.BIN, and LEDGER.JNL says which one is live.  A rewrite goes to  *)
(* the side that is not: records under a placeholder header, the file      *)
(* closed, then the header, then the journal.                              *)
(*                                                                         *)
(* One action is one write of the card.  Each takes cut: whether the power *)
(* goes during it, which leaves a journal slot or a header torn.  A        *)
(* reset or a card error between two writes is Replace!Interrupt.          *)
(*                                                                         *)
(* Left out: a record that does not decode (a torn record is under a       *)
(* placeholder, which nothing reads past) and the directory itself.        *)
(***************************************************************************)
EXTENDS SlotJournal, Sequences, FiniteSets, SequencesExt

CONSTANTS
    Names,       \* the places of the library, as spelled
    Ids,         \* the BookIds that can be minted
    Contents,    \* what a book's bytes can be: a content is its own digest
    SizeOf,      \* the length of each
    MaxRecords,  \* LEDGER_MAX_RECORDS
    MissingScansRetained  \* 8: scans a copy may be missing before it is let go

ASSUME LedgerAssumption ==
    /\ MaxRecords \in Nat \ {0}
    /\ MissingScansRetained \in Nat
    /\ SizeOf \in [Contents -> Nat]
    /\ None \notin Contents \cup Names \cup Ids

VARIABLES
    ljnl,   \* LEDGER.JNL
    sides,  \* the two files: what the first bytes say, and the records behind
    gen     \* the call of write_generation under way, or NoCall (volatile)

ledgerVars == <<ljnl, sides, gen>>

Sizes == {SizeOf[c] : c \in Contents}
Record == [id : Ids, name : Names, size : Sizes,
           misses : 0 .. MissingScansRetained, source : Contents \cup {None}]

Header(g, n) == [gen |-> g, count |-> n]
NoHeader == Header(Modulus, 0)  \* before the first generation: a number none has
Headers == [gen : SeqNumber, count : 0 .. MaxRecords]

JournalEntries ==
    [kind : {"committed"}, side : SlotNumbers, header : Headers]
    \cup [kind : {"rewriting"}, side : SlotNumbers, header : Headers \cup {NoHeader}]

\* "uncommitted" is an empty file or one under the placeholder.
Side(state, header, recs) == [state |-> state, header |-> header, recs |-> recs]
NoSide == Side("absent", NoHeader, <<>>)
SideStates == {"absent", "uncommitted", "damaged", "unreadable", "committed"}

ReadsBackWhole(i) == Len(sides[i].recs) = sides[i].header.count

\* What open answers: a live side, no ledger yet, or a fault.
Live(i) == [result |-> "live", side |-> i]
NoLedger == [result |-> "none", side |-> 0]
Fault == [result |-> "fault", side |-> 0]

Stands(i, header) ==
    /\ sides[i].state = "committed"
    /\ sides[i].header = header
    /\ ReadsBackWhole(i)

\* The header that commits a rewrite over what stood.
NextGen(standing) == IF standing = NoHeader THEN 1 ELSE NextSeq(standing.gen)

Landed(i, standing) ==
    /\ sides[i].state = "committed"
    /\ sides[i].header.gen = NextGen(standing)
    /\ ReadsBackWhole(i)

\* A bug that takes another build's commit for one that did not land.
OpenRewritingPast(t, standing) ==
    IF Landed(t, standing) THEN Live(t)
    ELSE IF standing = NoHeader
         THEN IF sides[1 - t].state = "absent" THEN NoLedger ELSE Fault
    ELSE IF Stands(1 - t, standing) THEN Live(1 - t) ELSE Fault

\* During a rewrite of side t: the target if its header landed, otherwise
\* what stood, exactly as recorded.
OpenRewriting(t, standing) ==
    IF Landed(t, standing) THEN Live(t)
    ELSE IF sides[t].state = "unreadable" THEN Fault
    ELSE IF standing = NoHeader
         THEN IF sides[1 - t].state = "absent" THEN NoLedger ELSE Fault
    ELSE IF Stands(1 - t, standing) THEN Live(1 - t) ELSE Fault

Open ==
    IF Refuses(ljnl) THEN Fault
    ELSE IF ~HasEntry(ljnl)
         THEN IF \A i \in SlotNumbers : sides[i].state = "absent"
              THEN NoLedger ELSE Fault
    ELSE LET e == NewestEntry(ljnl) IN
         IF e.kind = "rewriting" THEN OpenRewriting(e.side, e.header)
         ELSE IF Stands(e.side, e.header) THEN Live(e.side) ELSE Fault

\* The records of the live generation, which is what the ledger says.
Value == IF Open.result = "live" THEN sides[Open.side].recs ELSE <<>>

\* What a pass over records leaves: those at the positions of I, in order.
Rank(I, i) == Cardinality({k \in I : k <= i})
Taken(recs, I) ==
    [j \in 1 .. Cardinality(I) |-> recs[CHOOSE i \in I : Rank(I, i) = j]]

IsAt(r, name, size) == r.name = name /\ r.size = size

\* The first record naming a place with that size, in ledger order.
FindRecord(name, size) ==
    LET recs == Value
        found == {i \in DOMAIN recs : IsAt(recs[i], name, size)}
    IN  IF found = {} THEN None ELSE recs[Min(found)].id

HasId(recs, id) == \E i \in DOMAIN recs : recs[i].id = id

(***************************************************************************)
(* The three operations, each as the records of the next generation.       *)
(***************************************************************************)

\* publish_record on a ledger with no room for the record and nothing to drop.
PublishIsFull(recs, r, evict) ==
    /\ ~HasId(recs, r.id)
    /\ Len(recs) >= MaxRecords
    /\ ~HasId(recs, evict)

\* A bug that appends the copy afresh and leaves its record where it was.
PublishRecordBeside(recs, r, evict) ==
    LET goes == IF Len(recs) >= MaxRecords THEN evict ELSE None
    IN  Append(Taken(recs, {i \in DOMAIN recs : recs[i].id # goes}), r)

PublishRecord(recs, r, evict) ==
    LET exists == HasId(recs, r.id)
        goes == IF ~exists /\ Len(recs) >= MaxRecords THEN evict ELSE None
        stays == {i \in DOMAIN recs :
                    recs[i].id # goes /\ (recs[i].id = r.id \/ recs[i].name # r.name)}
        carried == [i \in DOMAIN recs |-> IF recs[i].id = r.id THEN r ELSE recs[i]]
        kept == Taken(carried, stays)
    IN  IF exists THEN kept ELSE Append(kept, r)

RelocateRecord(recs, id, name) ==
    LET stays == {i \in DOMAIN recs : recs[i].id = id \/ recs[i].name # name}
        moved == [i \in DOMAIN recs |->
            IF recs[i].id = id THEN [recs[i] EXCEPT !.name = name, !.misses = 0]
            ELSE recs[i]]
    IN  Taken(moved, stays)

(***************************************************************************)
(* A scan's join, assign_book_ids.  files is what the card holds, rows the *)
(* names of it in catalog order, unread the rows whose bytes the card      *)
(* would not give up, fresh the ids minted for the rows no record names.   *)
(* Left out: the digest a copy's cache claim may know (claim_digest), so a *)
(* copy has evidence only from its upload; the 64 copies one search carries.*)
(***************************************************************************)

\* A bug that asks a row's bytes for the digest every record is to have.
NamedByDigest(recs, files) ==
    {i \in DOMAIN recs :
        /\ files[recs[i].name] # None
        /\ files[recs[i].name] = recs[i].source
        /\ \A k \in 1 .. i - 1 : ~IsAt(recs[k], recs[i].name, recs[i].size)}

\* The record, by index, that takes a row: the first naming it exactly.
Named(recs, files) ==
    {i \in DOMAIN recs :
        /\ files[recs[i].name] # None
        /\ IsAt(recs[i], recs[i].name, SizeOf[files[recs[i].name]])
        /\ \A k \in 1 .. i - 1 : ~IsAt(recs[k], recs[i].name, recs[i].size)}

NewRows(recs, files, rows) ==
    Taken(rows, {k \in DOMAIN rows : \A i \in Named(recs, files) : recs[i].name # rows[k]})

\* The one new row that can be the missing copy i: same bytes, nothing else
\* with those bytes missing or new, and every new row of its length read.
MovedTo(recs, files, rows, unread, i) ==
    LET new == Range(NewRows(recs, files, rows))
        missing == DOMAIN recs \ Named(recs, files)
        holds == {n \in new : files[n] = recs[i].source}
        twins == {k \in missing : recs[k].source = recs[i].source}
        blind == {n \in new \cap unread : SizeOf[files[n]] = recs[i].size}
    IN  IF recs[i].source # None /\ Cardinality(holds) = 1 /\ twins = {i} /\ blind = {}
        THEN holds ELSE {}

\* A missing copy is carried, one scan older, while it is retained and there
\* is room beside the live and the new ones.
CarryMissing(recs, files, rows, unread) ==
    LET named == Named(recs, files)
        room == MaxRecords - (Cardinality(named) + Len(NewRows(recs, files, rows)))
        ages == {i \in DOMAIN recs \ named :
                    /\ MovedTo(recs, files, rows, unread, i) = {}
                    /\ recs[i].misses < MissingScansRetained}
    IN  {i \in ages : Rank(ages, i) <= room}

AssignBookIds(recs, files, rows, unread, fresh) ==
    LET named == Named(recs, files)
        aged == CarryMissing(recs, files, rows, unread)
        new == NewRows(recs, files, rows)
        carried == [i \in DOMAIN recs |->
            [recs[i] EXCEPT !.misses = IF i \in named THEN 0 ELSE @ + 1]]
        movers(n) == {i \in DOMAIN recs \ named :
                        MovedTo(recs, files, rows, unread, i) = {n}}
        adopt(k) ==
            LET n == new[k]
                m == movers(n)
            IN  [id |-> IF m = {} THEN fresh[k] ELSE recs[CHOOSE i \in m : TRUE].id,
                 name |-> n, size |-> SizeOf[files[n]], misses |-> 0,
                 source |-> IF m = {} THEN None ELSE files[n]]
    IN  Taken(carried, named \cup aged) \o [k \in DOMAIN new |-> adopt(k)]

(***************************************************************************)
(* write_generation, one write at a time.                                  *)
(***************************************************************************)

NoCall == [at |-> "done", target |-> 0, standing |-> NoHeader, recs |-> <<>>]

\* Where the call goes, and what stands beside it.
StartGeneration(recs) ==
    LET live == Open
    IN  gen' = [at |-> IF live.result = "live" THEN "truncate" ELSE "announce",
                target |-> IF live.result = "live" THEN 1 - live.side ELSE 0,
                standing |-> IF live.result = "live" THEN sides[live.side].header ELSE NoHeader,
                recs |-> recs]

Rewriting == [kind |-> "rewriting", side |-> gen.target, header |-> gen.standing]
NextHeader == Header(NextGen(gen.standing), Len(gen.recs))
Committed == [kind |-> "committed", side |-> gen.target, header |-> NextHeader]

\* A journal write: whole, or torn by a cut.
WriteJournal(entry, cut) == ljnl' = IF cut THEN Tear(ljnl) ELSE Publish(ljnl, entry)

\* On to the next write, unless the power went.
GoOn(at, cut) == gen' = IF cut THEN NoCall ELSE [gen EXCEPT !.at = at]

At(step) == gen.at = step

\* With nothing standing there is no journal: it comes before its first file.
Announce(cut) ==
    /\ At("announce")
    /\ WriteJournal(Rewriting, cut)
    /\ GoOn("truncate", cut)
    /\ UNCHANGED sides

\* Opening the target truncates it; its records are being written behind a
\* length still zero.
TruncateTarget(cut) ==
    /\ At("truncate")
    /\ sides' = [sides EXCEPT ![gen.target] = Side("uncommitted", NoHeader, <<>>)]
    /\ GoOn("records", cut)
    /\ UNCHANGED ljnl

\* A bug that leaves out the journal entry naming the side being rewritten.
CloseRecordsUnannounced(cut) ==
    /\ At("records")
    /\ sides' = [sides EXCEPT ![gen.target] =
                    Side(IF cut THEN "damaged" ELSE "uncommitted", NoHeader, gen.recs)]
    /\ GoOn("header", cut)
    /\ UNCHANGED ljnl

\* The file closed: the placeholder over every record.
CloseRecords(cut) ==
    /\ At("records")
    /\ sides' = [sides EXCEPT ![gen.target] =
                    Side(IF cut THEN "damaged" ELSE "uncommitted", NoHeader, gen.recs)]
    /\ GoOn(IF gen.standing = NoHeader THEN "header" ELSE "rewriting", cut)
    /\ UNCHANGED ljnl

SayRewriting(cut) ==
    /\ At("rewriting")
    /\ WriteJournal(Rewriting, cut)
    /\ GoOn("header", cut)
    /\ UNCHANGED sides

\* The header over the placeholder: the commit.
CommitHeader(cut) ==
    /\ At("header")
    /\ sides' = [sides EXCEPT ![gen.target] =
                    IF cut THEN Side("damaged", NoHeader, gen.recs)
                    ELSE Side("committed", NextHeader, gen.recs)]
    /\ GoOn("committed", cut)
    /\ UNCHANGED ljnl

SayCommitted(cut) ==
    /\ At("committed")
    /\ WriteJournal(Committed, cut)
    /\ gen' = NoCall
    /\ UNCHANGED sides

WriteGeneration(cut) ==
    \/ Announce(cut) \/ TruncateTarget(cut) \/ CloseRecords(cut)
    \/ SayRewriting(cut) \/ CommitHeader(cut) \/ SayCommitted(cut)

=============================================================================
