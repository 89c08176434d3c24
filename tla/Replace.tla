------------------------------ MODULE Replace ------------------------------
(***************************************************************************)
(* Managed replacement, upload-store/src/replace.rs: keeping a copy's id   *)
(* when an upload lands over it, across INSTALL.JNL, the ledger and a      *)
(* power cut at any write.  REPLACE.JNL says which copy, at which place,   *)
(* what stood there and what is meant to land.  It is published before the *)
(* install is put on record and cleared once the ledger has been told.     *)
(* Recovery runs after the install's own, and asks the card which side won.*)
(*                                                                         *)
(* The install is Install's AtomicReplace seen from here: retire, land, or *)
(* put back under the spelling that was typed.  Only the two landings the  *)
(* installer asks for are here: it never reads the predecessor's bytes, so *)
(* a predecessor is "unknown" or there is none.                            *)
(***************************************************************************)
EXTENDS Ledger

CONSTANTS
    Fold,         \* the place a spelling stands for, by FAT's rules
    CatalogOrder, \* the order a scan lists names in
    Card,         \* what the card holds before it is first mounted
    Offers,       \* the uploads a browser offers: <<name, content>>
    Cleared,      \* the entry that clears an intent
    Edits, Moves, \* what a computer does: <<name, content or None>>, <<from, to>>
    MaxCuts, MaxUploads, MaxScans, MaxChanges, MaxIds  \* bounds

\* A card that can be mounted: a place is spelled one way on it, as FAT has it,
\* and a catalog holds as many books as the ledger has records.
IsLibraryCard(files) ==
    /\ files \in [Names -> Contents \cup {None}]
    /\ \A n, m \in Names : n # m /\ Fold[n] = Fold[m] => None \in {files[n], files[m]}
    /\ Cardinality({n \in Names : files[n] # None}) <= MaxRecords

ASSUME ReplaceAssumption ==
    /\ Ids = 1 .. MaxIds
    /\ DOMAIN Fold = Names
    /\ CatalogOrder \in Seq(Names) /\ Range(CatalogOrder) = Names
    /\ \A i, k \in DOMAIN CatalogOrder : CatalogOrder[i] = CatalogOrder[k] => i = k
    /\ IsLibraryCard(Card)
    /\ Offers \subseteq Names \X Contents
    /\ Edits \subseteq Names \X (Contents \cup {None})
    /\ Moves \subseteq Names \X Names
    /\ {MaxCuts, MaxUploads, MaxScans, MaxChanges, MaxIds} \subseteq Nat

VARIABLES
    card,   \* the file under each spelling
    rjnl,   \* REPLACE.JNL
    inst,   \* INSTALL.JNL's record, or None
    pc,     \* where the firmware is (volatile: a reset starts at recover)
    landed, \* the landing settle was called with
    kept,   \* history: the id the last upload found at its place, or None
    nextId, \* ids minted so far
    cuts, spent

replaceVars == <<card, rjnl, inst, pc, landed, kept, nextId, cuts, spent>>
vars == <<ledgerVars, replaceVars>>

Intent == [id : Ids, name : Names, from : Names \cup {None},
           evict : Ids \cup {None}, new : Contents]
Installs == [name : Names, from : Names \cup {None}, old : Contents \cup {None},
             new : Contents, at : {"written", "parked", "landed", "restored"}]

ASSUME JournalAssumption == Cleared \notin Intent /\ None \notin Installs

\* A bug that believes an intent only while both slots read.
IntentStandsWhole ==
    /\ HasEntry(rjnl) /\ NewestEntry(rjnl) # Cleared
    /\ \A i \in SlotNumbers : rjnl[i].kind # "damaged"

\* An intent is in flight: the newest entry is not a clear.
IntentStands == HasEntry(rjnl) /\ NewestEntry(rjnl) # Cleared

Standing == IF IntentStands THEN NewestEntry(rjnl) ELSE None

Held == {n \in Names : card[n] # None}
Sharing(n) == {m \in Held : Fold[m] = Fold[n]}

\* The id that answers for the file under a name: the first record naming it.
Answer(n) == FindRecord(n, SizeOf[card[n]])

Fresh(k) == nextId + k
Spend(what) == spent' = [spent EXCEPT ![what] = @ - 1]

\* A power cut inside a write, or none.
MayCut(cut) ==
    /\ cut => cuts < MaxCuts
    /\ cuts' = IF cut THEN cuts + 1 ELSE cuts

WriteReplaceJournal(entry, cut) == rjnl' = IF cut THEN Tear(rjnl) ELSE Publish(rjnl, entry)

Then(at, cut) == pc' = IF cut THEN "recover" ELSE at

Init ==
    /\ ljnl \in {NoJournal} \cup
         {[i \in SlotNumbers |-> IF i = 0
             THEN Entry(1, [kind |-> "rewriting", side |-> 1, header |-> Header(1, 0)])
             ELSE Blank]}
    /\ sides = IF ljnl = NoJournal THEN [i \in SlotNumbers |-> NoSide]
               ELSE [i \in SlotNumbers |->
                      IF i = 0 THEN Side("committed", Header(1, 0), <<>>)
                      ELSE Side("unreadable", NoHeader, <<>>)]
    /\ gen = NoCall
    /\ card = Card
    /\ rjnl = NoJournal
    /\ inst = None
    /\ pc = "recover" /\ landed = "old"
    /\ kept = None
    /\ nextId = 0 /\ cuts = 0
    /\ spent = [uploads |-> MaxUploads, scans |-> MaxScans, changes |-> MaxChanges]

(***************************************************************************)
(* begin, and the install it lets start.                                   *)
(***************************************************************************)

\* A record the last scan found missing whose place is empty now, in order.
RoomIn ==
    LET recs == Value
        gone == {i \in DOMAIN recs : recs[i].misses > 0 /\ card[recs[i].name] = None}
    IN  IF gone = {} THEN None ELSE recs[Min(gone)].id

\* The intent begin publishes, for what holds the place now.
IntentFor(n, c) ==
    LET from == IF Sharing(n) = {} THEN None ELSE CHOOSE m \in Sharing(n) : TRUE
        known == IF from = None THEN None ELSE Answer(from)
    IN  [id |-> IF known = None THEN Fresh(1) ELSE known,
         name |-> n, from |-> from,
         evict |-> IF known = None /\ Len(Value) >= MaxRecords THEN RoomIn ELSE None,
         new |-> c]

Mints(intent) == intent.id = Fresh(1)

\* No record, no room, and no missing copy to make it: refused, before
\* anything is journalled.
IsFull(intent) ==
    Mints(intent) /\ Len(Value) >= MaxRecords /\ intent.evict = None

\* A browser uploads a book.  The session has settled what stood; begin
\* refuses while anything does.
Begin(n, c, cut) ==
    LET intent == IntentFor(n, c) IN
    /\ pc = "idle" /\ spent.uploads > 0
    /\ ~IntentStands /\ Open.result # "fault"
    /\ Cardinality({Fold[m] : m \in Held \cup {n}}) <= MaxRecords
    /\ Mints(intent) => Fresh(1) \in Ids
    /\ ~IsFull(intent)
    /\ MayCut(cut)
    /\ WriteReplaceJournal(intent, cut)
    /\ Then("begun", cut)
    /\ kept' = IF Mints(intent) THEN None
               ELSE [place |-> Fold[n], id |-> intent.id,
                     again |-> intent.from # n /\ card[intent.from] = c]
    /\ nextId' = IF Mints(intent) THEN Fresh(1) ELSE nextId
    /\ Spend("uploads")
    /\ UNCHANGED <<ledgerVars, card, inst, landed>>

\* INSTALL.JNL, once the intent is durable.
WriteIntent ==
    /\ pc = "begun"
    /\ inst' = LET s == Standing
               IN  [name |-> s.name, from |-> s.from,
                    old |-> IF s.from = None THEN None ELSE card[s.from],
                    new |-> s.new, at |-> "written"]
    /\ pc' = "install"
    /\ UNCHANGED <<ledgerVars, card, rjnl, landed, kept, nextId, cuts, spent>>

\* The install, in the call or in recovery: the predecessor off the shelf, ...
InstallStep(card2, at) ==
    /\ pc \in {"install", "recover"} /\ inst # None
    /\ card' = card2
    /\ inst' = [inst EXCEPT !.at = at]
    /\ UNCHANGED <<ledgerVars, rjnl, pc, landed, kept, nextId, cuts, spent>>

Park ==
    /\ inst # None /\ inst.at = "written" /\ inst.from # None
    /\ InstallStep([card EXCEPT ![inst.from] = None], "parked")

\* ... the new book onto it, ...
Land ==
    /\ inst # None
    /\ inst.at = IF inst.from = None THEN "written" ELSE "parked"
    /\ InstallStep([card EXCEPT ![inst.name] = inst.new], "landed")

\* ... or, the staged book lost, the predecessor back under the name typed.
Restore ==
    /\ inst # None /\ inst.at \in {"written", "parked"}
    /\ InstallStep(IF inst.at = "parked" THEN [card EXCEPT ![inst.name] = inst.old] ELSE card,
                   "restored")

\* The record cleared.  The call settles what it saw land; recovery looks.
ClearInstall ==
    /\ pc \in {"install", "recover"} /\ inst # None
    /\ inst.at \in {"landed", "restored"}
    /\ landed' = IF inst.at = "landed" THEN "new" ELSE "old"
    /\ pc' = IF pc = "install" THEN "settle" ELSE pc
    /\ inst' = None
    /\ UNCHANGED <<ledgerVars, card, rjnl, kept, nextId, cuts, spent>>

(***************************************************************************)
(* settle and recover.                                                     *)
(***************************************************************************)

\* What the destination holds: under the spelling typed, then under the
\* predecessor's own.
Destination(s) ==
    IF card[s.name] # None THEN card[s.name]
    ELSE IF s.from # None THEN card[s.from] ELSE None

\* A bug that looks under the spelling typed and nowhere else.
LandingAsTyped(s) ==
    IF card[s.name] = s.new THEN "new"
    ELSE IF card[s.name] # None /\ s.from # None THEN "old"
    ELSE IF card[s.name] = None /\ s.from = None THEN "old"
    ELSE "refused"

\* Which side landed.
Landing(s) ==
    IF Destination(s) = s.new THEN "new"
    ELSE IF Destination(s) # None /\ s.from # None THEN "old"
    ELSE IF Destination(s) = None /\ s.from = None THEN "old"
    ELSE "refused"

\* A rollback put the predecessor back under the spelling typed.
Respelled(s) ==
    /\ s.from # None /\ s.from # s.name
    /\ card[s.name] # None /\ card[s.from] = None

Published(s) ==
    [id |-> s.id, name |-> s.name, size |-> SizeOf[s.new], misses |-> 0, source |-> s.new]

\* A bug that leaves a rollback's record under the predecessor's spelling.
SettleUnspelled ==
    LET s == Standing IN
    /\ pc = "settle"
    /\ IF landed = "new"
       THEN StartGeneration(PublishRecord(Value, Published(s), s.evict)) /\ pc' = "generation"
       ELSE pc' = "clear" /\ UNCHANGED gen
    /\ UNCHANGED <<ljnl, sides, card, rjnl, inst, landed, kept, nextId, cuts, spent>>

\* The ledger is told first: a generation to write, or nothing to say.  It is
\* opened only when it is to be told.
Tell(s, recs) ==
    LET moves == landed = "old" /\ Respelled(s)
        full == landed = "new" /\ PublishIsFull(recs, Published(s), s.evict)
        tell(next) == StartGeneration(next) /\ pc' = "generation"
    IN
    IF (landed = "new" \/ moves) /\ (Open.result = "fault" \/ full)
    THEN pc' = "refused" /\ UNCHANGED gen
    ELSE IF landed = "new" THEN tell(PublishRecord(recs, Published(s), s.evict))
    ELSE IF moves /\ HasId(recs, s.id) THEN tell(RelocateRecord(recs, s.id, s.name))
    ELSE pc' = "clear" /\ UNCHANGED gen

Settle ==
    /\ pc = "settle"
    /\ \E recs \in {Value} : Tell(Standing, recs)
    /\ UNCHANGED <<ljnl, sides, card, rjnl, inst, landed, kept, nextId, cuts, spent>>

\* One write of the generation; after the last, the intent or the scan is done.
Write(cut) ==
    /\ pc = "generation"
    /\ MayCut(cut)
    /\ WriteGeneration(cut)
    /\ pc' = IF cut THEN "recover"
             ELSE IF gen' # NoCall THEN "generation"
             ELSE IF IntentStands THEN "clear" ELSE "idle"
    /\ UNCHANGED <<card, rjnl, inst, landed, kept, nextId, spent>>

Clear(cut) ==
    /\ pc = "clear"
    /\ MayCut(cut)
    /\ WriteReplaceJournal(Cleared, cut)
    /\ Then("idle", cut)
    /\ UNCHANGED <<ledgerVars, card, inst, landed, kept, nextId, spent>>

\* A mount, or a session before each command: the install's record first,
\* then this one, and the shelf may change once neither stands.
Recover ==
    /\ pc = "recover" /\ inst = None
    /\ IF ~IntentStands THEN pc' = "idle" /\ UNCHANGED landed
       ELSE /\ pc' = IF Landing(Standing) = "refused" THEN "refused" ELSE "settle"
            /\ landed' = Landing(Standing)
    /\ UNCHANGED <<ledgerVars, card, rjnl, inst, kept, nextId, cuts, spent>>

(***************************************************************************)
(* The scan, and what else happens to the card.                            *)
(***************************************************************************)

Rows == Taken(CatalogOrder, {k \in DOMAIN CatalogOrder : card[CatalogOrder[k]] # None})

\* A scan that would change nothing writes nothing.
Changes(recs) ==
    \/ NewRows(recs, card, Rows) # <<>>
    \/ Named(recs, card) # DOMAIN recs
    \/ \E i \in DOMAIN recs : recs[i].misses > 0

\* The gate of a scan: no intent stands, nor an install.
MayScan == pc = "idle" /\ ~IntentStands /\ inst = None

Scan(unread) ==
    LET recs == Value
        new == NewRows(recs, card, Rows)
    IN
    /\ MayScan /\ spent.scans > 0
    /\ Open.result # "fault"
    /\ Changes(recs)
    /\ nextId + Len(new) <= MaxIds
    /\ StartGeneration(AssignBookIds(recs, card, Rows, unread, [k \in DOMAIN new |-> Fresh(k)]))
    /\ nextId' = nextId + Len(new)
    /\ pc' = "generation"
    /\ Spend("scans")
    /\ UNCHANGED <<ljnl, sides, card, rjnl, inst, landed, kept, cuts>>

\* A file goes: kept is about a copy that is no longer there.
Forget(n) == kept' = IF kept # None /\ kept.place = Fold[n] THEN None ELSE kept

Delete(n) ==
    /\ pc = "idle" /\ spent.changes > 0
    /\ card[n] # None
    /\ card' = [card EXCEPT ![n] = None]
    /\ Forget(n)
    /\ Spend("changes")
    /\ UNCHANGED <<ledgerVars, rjnl, inst, pc, landed, nextId, cuts>>

\* The card in a computer, between transactions: a book written, replaced or
\* removed (c = None), or moved to another place or spelling.  While an intent
\* stands nothing else may write: the sole-writer contract.
InComputer(card2) ==
    /\ pc = "idle" /\ spent.changes > 0
    /\ ~IntentStands /\ inst = None
    /\ card' = card2
    /\ card2 # card
    /\ IsLibraryCard(card2)
    /\ kept' = None
    /\ pc' = "recover"
    /\ Spend("changes")
    /\ UNCHANGED <<ledgerVars, rjnl, inst, landed, nextId, cuts>>

Edit(n, c) == InComputer([card EXCEPT ![n] = c])

Move(from, to) ==
    /\ card[from] # None /\ card[to] = None
    /\ InComputer([card EXCEPT ![from] = None, ![to] = card[from]])

\* The card is mounted again; what was refused is asked again.
Mount ==
    /\ pc \in {"idle", "refused"}
    /\ pc' = "recover"
    /\ UNCHANGED <<ledgerVars, card, rjnl, inst, landed, kept, nextId, cuts, spent>>

\* A reset or a card error between two writes.  Every call returns and the
\* next thing to run is recovery.
Interrupt ==
    /\ pc \notin {"idle", "refused"} /\ cuts < MaxCuts
    /\ cuts' = cuts + 1
    /\ gen' = NoCall
    /\ pc' = "recover"
    /\ UNCHANGED <<ljnl, sides, card, rjnl, inst, landed, kept, nextId, spent>>

Replay == WriteIntent \/ Recover \/ Park \/ Land \/ ClearInstall \/ Settle \/ Write(FALSE) \/ Clear(FALSE)

Next ==
    \/ \E o \in Offers, cut \in BOOLEAN : Begin(o[1], o[2], cut)
    \/ WriteIntent \/ Park \/ Land \/ Restore \/ ClearInstall
    \/ Settle \/ Recover
    \/ \E cut \in BOOLEAN : Write(cut) \/ Clear(cut)
    \/ \E unread \in SUBSET Range(NewRows(Value, card, Rows)) : Scan(unread)
    \/ \E n \in Names : Delete(n)
    \/ \E e \in Edits : Edit(e[1], e[2])
    \/ \E m \in Moves : Move(m[1], m[2])
    \/ Mount \/ Interrupt

Spec == Init /\ [][Next]_vars

\* A pass over the journals is a loop without awaits.
FairSpec == Spec /\ WF_vars(Replay)

(***************************************************************************)
(* Properties.                                                             *)
(***************************************************************************)

\* Every variable has its type.
TypeOK ==
    /\ ljnl \in [SlotNumbers -> Slot(JournalEntries)]
    /\ \A i \in SlotNumbers :
         /\ sides[i].state \in SideStates
         /\ sides[i].header \in Headers \cup {NoHeader}
         /\ Range(sides[i].recs) \subseteq Record
         /\ Len(sides[i].recs) <= MaxRecords
    /\ gen.at \in {"announce", "truncate", "records", "rewriting", "header",
                  "committed", "done"}
    /\ gen.target \in SlotNumbers
    /\ gen.standing \in Headers \cup {NoHeader}
    /\ Range(gen.recs) \subseteq Record
    /\ Len(gen.recs) <= MaxRecords
    /\ card \in [Names -> Contents \cup {None}]
    /\ rjnl \in [SlotNumbers -> Slot(Intent \cup {Cleared})]
    /\ inst \in Installs \cup {None}
    /\ pc \in {"recover", "idle", "begun", "install", "settle", "generation", "clear", "refused"}
    /\ landed \in {"new", "old", "refused"}
    /\ nextId \in 0 .. MaxIds
    /\ cuts \in 0 .. MaxCuts

ForeignLedger == \E i \in SlotNumbers : sides[i].state = "unreadable"

\* Whatever write a cut tears, the ledger opens, REPLACE.JNL reads, and the
\* destination of a standing intent is one of its two landings: recovery is
\* never left refusing, nor full.  Only another build's generation refuses.
AlwaysResolvable ==
    /\ pc # "refused"
    /\ ~Refuses(rjnl)
    /\ Open.result = "fault" => ForeignLedger

AnswersAtItsPlace ==
    kept # None /\ ~IntentStands /\ inst = None =>
        \E n \in Held : Fold[n] = kept.place /\ Answer(n) = kept.id

\* A copy replaced by an upload keeps its id: once nothing stands, whichever
\* side landed and however often it was settled, the file at that place
\* answers to the id the upload found there.  Not so, and excepted, is a book
\* uploaded again as it is under another spelling: see SpellingFollowed.
IdentityKept == kept # None /\ ~kept.again => AnswersAtItsPlace

\* "Settling moves the record to whichever spelling the file ends up under"
\* (docs/ARCHITECTURE.md, replace.rs:43): also if the bytes are the same.
SpellingFollowed == AnswersAtItsPlace

\* No two copies carry one id and no two copies in place claim one spelling.
OneClaimPerPlace ==
    LET recs == Value IN
    \A i, k \in DOMAIN recs : i # k =>
        /\ recs[i].id # recs[k].id
        /\ recs[i].misses = 0 /\ recs[k].misses = 0 => recs[i].name # recs[k].name

\* A copy that is where its record says is never let go of: it keeps its id
\* in every generation that lands, unless an upload has landed at that place.
NoCopyForgotten ==
    [][LET recs == Value IN
       \A i \in DOMAIN recs :
         LET r == recs[i] IN
         /\ card[r.name] # None
         /\ SizeOf[card[r.name]] = r.size
         => HasId(Value', r.id) \/ (IntentStands /\ Standing.name = r.name)]_vars

\* An intent on the card is only ever followed by itself or by its clear: no
\* second replacement takes the place of one that stands.
OneIntentAtATime ==
    [][HasEntry(rjnl) /\ NewestEntry(rjnl) # Cleared =>
         HasEntry(rjnl') /\ NewestEntry(rjnl') \in {NewestEntry(rjnl), Cleared}]_vars

\* The ledger of another build is never written.
ForeignLedgerStands == [][ForeignLedger => UNCHANGED <<ljnl, sides>>]_vars

\* The ledger is a register: replaced whole, or not at all.
Register == INSTANCE LedgerRegister WITH
    value <- Value,
    proposed <- IF gen = NoCall THEN {} ELSE {gen.recs},
    faults <- cuts

RegisterSpec == Register!Spec

\* Whatever interrupts it, a replacement is settled in the end.
IntentSettles == IntentStands ~> ~IntentStands
=============================================================================
