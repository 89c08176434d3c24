---------------------------- MODULE StorageLoop ----------------------------
(***************************************************************************)
(* The reader's place, from the press to the card.  The app task           *)
(* (fw/src/tasks/app.rs, app-core/src/lib.rs) hands commands to the        *)
(* storage task (storage/src/task.rs, app-core/src/storage_loop.rs)        *)
(* through a channel, parking what does not fit; the storage task answers  *)
(* with library events.  Page turns are coalesced; an open closes out the  *)
(* book that is left, reads the saved place of the one that is opened and  *)
(* moves the reader there; a place that could not be reached is held       *)
(* against the saves of the page the reader was put on instead.            *)
(*                                                                         *)
(* A saved place is a pair of files written in turn (write_two_generation  *)
(* of reader-cache/src/files.rs), which is what SlotJournal says of two    *)
(* slots.  The state record names the book a boot opens at; it is kept in  *)
(* such a pair too and modelled by what it reads as.                       *)
(*                                                                         *)
(* One layout, one chapter and pages enough: a saved place names a page.   *)
(* Left out: a walk still building pages, rescans, the session's refusals, *)
(* and the page-keyed position file, which answers only with no place.     *)
(***************************************************************************)
EXTENDS SlotJournal, Sequences, FiniteSets, SequencesExt

CONSTANTS
    Books,
    LastPage,
    QueueSlots,         \* STORAGE_COMMANDS (4)
    ParkedSlots,        \* PARKED_STORAGE_SLOTS (2)
    EventSlots,         \* LIBRARY_EVENTS (8); one more is held by the sender
    PlaceReadRefusals,  \* refusals a waiting place takes before it is let go (8)
    SavedPlaces,        \* the pairs on the card at first
    SavedState,         \* the state record at first
    MaxPresses, MaxFaults, MaxCuts

ASSUME StorageAssumption ==
    /\ LastPage \in Nat
    /\ QueueSlots \in Nat \ {0} /\ EventSlots \in Nat \ {0}
    /\ PlaceReadRefusals \in Nat \ {0}
    /\ ParkedSlots \in Nat
    /\ MaxPresses \in Nat /\ MaxFaults \in Nat /\ MaxCuts \in Nat

VARIABLES
    app,      \* ReaderState and the locals of the app's loop
    parked,   \* commands the channel had no room for
    sent,     \* STORAGE_COMMANDS
    events,   \* LIBRARY_EVENTS, and the one the storage task holds
    task,     \* the storage task's memory
    shown,    \* what the last render taken shows: the page of a book, or neither
    place,    \* on the card: each book's place pair
    state,    \* on the card: what the state record reads as
    chosen,   \* the pages of each book a save may stand on, since the boot
    lost,     \* whether a page turn's record was given up on since the last one
    spent     \* what is left of the bounds

appVars == <<app, parked, sent>>
cardVars == <<place, state>>
history == <<chosen, lost>>
vars == <<appVars, events, task, shown, cardVars, history, spent>>

Pages == 0 .. LastPage
Spot(b, p) == [book |-> b, page |-> p]
Spots == [book : Books, page : Pages]

ASSUME SavedAssumption ==
    /\ SavedPlaces \in [Books -> [SlotNumbers -> Slot(Pages)]]
    /\ SavedState \in Spots

NewestPlace(pair) == IF HasEntry(pair) THEN NewestEntry(pair) ELSE None
Place(b) == NewestPlace(place[b])

(***************************************************************************)
(* Commands, and the app's way to the storage task.                        *)
(***************************************************************************)
OpenBook(id, b, p, previous, fenced, resolve) ==
    [op |-> "open", id |-> id, book |-> b, page |-> p,
     previous |-> previous, fenced |-> fenced, resolve |-> resolve]
ExtendSection(id, b, p) == [op |-> "extend", id |-> id, book |-> b, page |-> p]
StoreProgress(b, p) == [op |-> "progress", book |-> b, page |-> p]
ChooseRow(id, b) == [op |-> "choose", id |-> id, book |-> b]

Commands ==
    [op : {"open"}, id : Nat, book : Books, page : Pages,
     previous : Spots \cup {None}, fenced : BOOLEAN, resolve : BOOLEAN]
    \cup [op : {"extend"}, id : Nat, book : Books, page : Pages]
    \cup [op : {"progress"}, book : Books, page : Pages]
    \cup [op : {"choose"}, id : Nat, book : Books]

IsOpen(c) == c # None /\ c.op = "open"

Line == [parked |-> parked, sent |-> sent, taken |-> TRUE]
Parked(line, q) == [line EXCEPT !.parked = q, !.taken = TRUE]

\* A bug that sends a command on while others are parked.
DispatchPast(line, c) ==
    IF Len(line.sent) < QueueSlots
    THEN [line EXCEPT !.sent = Append(@, c), !.taken = TRUE]
    ELSE IF Len(line.parked) < ParkedSlots THEN Parked(line, Append(line.parked, c))
    ELSE [line EXCEPT !.taken = FALSE]

\* The commands of q without the first of those told.
Without(q, told) ==
    IF told = {} THEN q ELSE RemoveAt(q, CHOOSE i \in told : \A k \in told : i <= k)

\* Nothing overtakes what is parked.  A newer extend takes the place of a
\* parked one, and an open that of the parked write it makes again.
Dispatch(line, c) ==
    LET older == {i \in DOMAIN line.parked : /\ c.op = "extend"
                                             /\ line.parked[i].op = "extend"
                                             /\ line.parked[i].book = c.book}
        q == Without(line.parked, older)
        subsumed == {i \in DOMAIN q : /\ IsOpen(c) /\ c.previous # None
                                      /\ q[i].op = "progress"
                                      /\ q[i].book = c.previous.book}
    IN  IF q = <<>> /\ Len(line.sent) < QueueSlots
        THEN [Parked(line, q) EXCEPT !.sent = Append(@, c)]
        ELSE IF Len(q) < ParkedSlots THEN Parked(line, Append(q, c))
        ELSE IF subsumed # {} THEN Parked(line, Append(Without(q, subsumed), c))
        ELSE [line EXCEPT !.parked = q, !.taken = FALSE]

(***************************************************************************)
(* The app.                                                                *)
(***************************************************************************)
NoPick == 0

Views     == {"shelf", "reading"}
Rollbacks == [view : Views, book : Books, page : Pages, counted : BOOLEAN]
Frames    == [book : Books \cup {None}, page : Pages]
AppStates ==
    [view : Views, book : Books, page : Pages, counted : BOOLEAN,
     unreadable : Books \cup {None}, opening : Books \cup {None},
     rollback : Rollbacks \cup {None}, gated : BOOLEAN,
     picking : Nat, request : Nat, picks : Nat,
     frame : Frames \cup {None}, again : BOOLEAN]

BootedAt(spot) ==
    [view |-> "shelf", book |-> spot.book, page |-> spot.page,
     counted |-> FALSE,      \* page_layout: whether the page is this layout's
     unreadable |-> None, opening |-> None, rollback |-> None, gated |-> FALSE,
     picking |-> NoPick, request |-> 0, picks |-> 0,
     frame |-> None, again |-> FALSE]

Unreadable(a) == a.unreadable = a.book

Rollback(a) == [view |-> a.view, book |-> a.book, page |-> a.page, counted |-> a.counted]

RestoreAfterFailedOpen(a, r) ==
    [a EXCEPT !.view = r.view, !.book = r.book, !.page = r.page, !.counted = r.counted]

Nowhere == [book |-> None, page |-> 0]

\* The render request a state freezes, as far as the storage task reads it.
Render(a) == [book |-> IF a.view = "reading" THEN a.book ELSE None,
              page |-> IF a.view = "reading" THEN a.page ELSE 0]

Rendered(a) == IF a.frame = None THEN [a EXCEPT !.frame = Render(a)]
               ELSE [a EXCEPT !.again = TRUE]

\* An open that was parked or sent holds the input until it is answered and
\* its frame has settled; a rejected one leaves the reader where they were.
AfterDispatch(before, next, c, taken) ==
    IF c = None THEN next
    ELSE IF ~taken
    THEN IF IsOpen(c) THEN RestoreAfterFailedOpen(next, Rollback(before)) ELSE next
    ELSE IF IsOpen(c)
    THEN [next EXCEPT !.request = c.id, !.opening = c.book, !.gated = TRUE,
                      !.rollback = Rollback(before)]
    ELSE [next EXCEPT !.request = c.id]

ProgressOwed(before, after, c) ==
    /\ ~IsOpen(c)
    /\ before.book = after.book /\ before.page # after.page
    /\ ~Unreadable(after)

\* A page turned to in a book that would not be read owes no record, then or
\* when it loads.
TurnedUnread(before, after, c) ==
    ~IsOpen(c) /\ before.book = after.book /\ before.page # after.page /\ Unreadable(after)

\* What a transition owes: its command, then the progress record, then a frame.
Carry(before, next, c) ==
    LET first == IF c = None THEN Line ELSE Dispatch(Line, c)
        after == AfterDispatch(before, next, c, first.taken)
        owed == ProgressOwed(before, after, c)
        last == IF owed THEN Dispatch(first, StoreProgress(after.book, after.page))
                ELSE first
        closes == IsOpen(c) /\ c.previous # None /\ first.taken
    IN  /\ app' = Rendered(after)
        /\ parked' = last.parked
        /\ sent' = last.sent
        /\ lost' = IF owed THEN ~last.taken
                   ELSE (lost /\ ~closes) \/ TurnedUnread(before, after, c)

Ready == app.opening = None /\ ~app.gated
Press == spent.presses > 0 /\ spent' = [spent EXCEPT !.presses = @ - 1]

TurnPage(p) ==
    /\ Ready /\ Press /\ app.view = "reading" /\ p \in {app.page - 1, app.page + 1}
    /\ Carry(app, [app EXCEPT !.page = p], ExtendSection(app.request + 1, app.book, p))
    /\ chosen' = [chosen EXCEPT ![app.book] = @ \cup {p}]
    /\ UNCHANGED <<events, task, shown, cardVars>>

\* Read, on Home: an unchanged book is opened again and owes no close-out.
ReadOn ==
    /\ Ready /\ Press /\ app.view = "shelf" /\ app.picking = NoPick
    /\ Carry(app, [app EXCEPT !.view = "reading"],
             OpenBook(app.request + 1, app.book, app.page, None, FALSE, ~app.counted))
    /\ UNCHANGED <<events, task, shown, cardVars, chosen>>

Leave ==
    /\ Ready /\ app.view = "reading"
    /\ Carry(app, [app EXCEPT !.view = "shelf"], None)
    /\ UNCHANGED <<events, task, shown, cardVars, chosen, spent>>

\* Back, from a pick whose answer has not come: nobody waits for it.
WalkAway ==
    /\ Ready /\ app.picking # NoPick
    /\ Carry(app, [app EXCEPT !.picking = NoPick], None)
    /\ UNCHANGED <<events, task, shown, cardVars, chosen, spent>>

Pick(b) ==
    LET c == ChooseRow(app.picks + 1, b)
        line == Dispatch(Line, c)
    IN
    /\ Ready /\ Press /\ app.view = "shelf" /\ app.picking = NoPick
    /\ app' = Rendered([app EXCEPT !.picks = c.id,
                                   !.picking = IF line.taken THEN c.id ELSE NoPick])
    /\ parked' = line.parked /\ sent' = line.sent
    /\ UNCHANGED <<events, task, shown, cardVars, history>>

\* The open gate of an open that owed no frame.
Lifted(a) ==
    IF a.opening = None /\ a.frame = None THEN [a EXCEPT !.gated = FALSE] ELSE a

Answered(a, b) ==
    IF a.opening = b THEN [a EXCEPT !.opening = None, !.rollback = None] ELSE a

FoldOnly(a) ==
    /\ app' = Lifted(a)
    /\ UNCHANGED <<parked, sent, lost>>

\* Loaded is matched by book alone.  A page the storage task chose is taken,
\* and a page that moved owes an extend and a record as a turn does.
ReceiveLoaded(e) ==
    LET a == Answered(app, e.book)
        moved == [a EXCEPT !.unreadable = None, !.counted = TRUE,
                           !.page = IF e.position = None THEN @ ELSE e.position]
    IN  IF app.book # e.book THEN FoldOnly(a)
        ELSE IF app.view = "reading" /\ ~e.replaced /\ moved.page = app.page
        THEN FoldOnly(moved)
        ELSE Carry(app, moved,
                   IF moved.view = "reading" /\ moved.page # app.page
                   THEN ExtendSection(app.request + 1, moved.book, moved.page) ELSE None)

ReceiveUnreadable(e) ==
    LET a == Answered(app, e.book) IN
    IF app.book = e.book THEN Carry(app, [a EXCEPT !.unreadable = e.book], None)
    ELSE FoldOnly(a)

\* Back to the book that was never left.
ReceiveFailed(e) ==
    LET a == IF app.opening = e.book THEN [app EXCEPT !.opening = None] ELSE app IN
    Carry(app, IF a.rollback = None THEN a
               ELSE [RestoreAfterFailedOpen(a, a.rollback) EXCEPT !.rollback = None], None)

\* The row is a book: the reader goes to it, which owes the open.
ReceiveRow(e) ==
    LET next == [app EXCEPT !.picking = NoPick, !.view = "reading", !.book = e.book,
                            !.page = 0, !.counted = TRUE]
        previous == IF Unreadable(app) THEN None ELSE Spot(app.book, app.page)
    IN  IF e.id # app.picking THEN FoldOnly(app)
        ELSE Carry(app, next,
                   OpenBook(app.request + 1, e.book, 0, previous, TRUE, FALSE))

ReceiveRowFailed(e) ==
    IF e.id # app.picking THEN FoldOnly(app)
    ELSE Carry(app, [app EXCEPT !.picking = NoPick], None)

Receive ==
    /\ events # <<>>
    /\ LET e == Head(events) IN
       \/ e.kind = "loaded" /\ ReceiveLoaded(e)
       \/ e.kind = "unreadable" /\ ReceiveUnreadable(e)
       \/ e.kind = "failed" /\ ReceiveFailed(e)
       \/ e.kind = "row" /\ ReceiveRow(e)
       \/ e.kind = "rowFailed" /\ ReceiveRowFailed(e)
    /\ events' = Tail(events)
    /\ UNCHANGED <<task, shown, cardVars, chosen, spent>>

\* An open handed over from the parked commands holds the input again.
Accepted(a, handed) ==
    LET opens == {i \in DOMAIN handed : handed[i].op = "open"} IN
    IF opens = {} THEN a
    ELSE LET i == CHOOSE i \in opens : \A k \in opens : k <= i
         IN  [a EXCEPT !.opening = handed[i].book, !.gated = TRUE]

HandOver(n) ==
    /\ parked' = SubSeq(parked, n + 1, Len(parked))
    /\ sent' = sent \o SubSeq(parked, 1, n)

OfferParked ==
    /\ parked # <<>> /\ Len(sent) < QueueSlots
    /\ HandOver(1)
    /\ app' = Accepted(app, <<Head(parked)>>)
    /\ UNCHANGED <<events, task, shown, cardVars, history, spent>>

\* A frame reached the panel, and the storage task knows it: what is parked is
\* handed over, and the app sends the frame it coalesced or lets the input
\* through.
FrameSettles ==
    LET room == QueueSlots - Len(sent)
        n == IF Len(parked) < room THEN Len(parked) ELSE room
        a == Accepted(app, SubSeq(parked, 1, n))
    IN
    /\ app.frame # None /\ shown' = app.frame
    /\ HandOver(n)
    /\ app' = IF app.again THEN [a EXCEPT !.frame = Render(a), !.again = FALSE]
              ELSE Lifted([a EXCEPT !.frame = None])
    /\ UNCHANGED <<events, task, cardVars, history, spent>>

(***************************************************************************)
(* The card.  A write lands, or is refused with nothing changed or with    *)
(* the file it went to spoiled.  What is done to the card and to the       *)
(* task's memory is a record, ok when every write of it landed, with the   *)
(* number of faults it took.                                               *)
(***************************************************************************)
IdleTask(b) ==
    [loaded |-> None,     \* the book whose pages are resident
     reading |-> b,       \* the book last restored or loaded
     pending |-> None,    \* pending_progress
     hold |-> None]       \* pending_place

HeldPlaces ==
    [book : Books, landed : Pages, left : Pages \cup {None},
     place : Pages \cup {None}, refusals : 0 .. PlaceReadRefusals, stopped : BOOLEAN]

Tasks ==
    [loaded : Books \cup {None}, reading : Books \cup {None},
     pending : Spots \cup {None}, hold : HeldPlaces \cup {None}]

\* Nothing is told from every book, page, record and command.
ASSUME NoneAssumption ==
    None \notin Books \cup Pages \cup Frames \cup Rollbacks \cup HeldPlaces \cup Commands

Hold(b, landed, p, stopped) ==
    [book |-> b, landed |-> landed, left |-> None, place |-> p,
     refusals |-> 0, stopped |-> stopped]

Now == [place |-> place, state |-> state, task |-> task, ok |-> TRUE, faults |-> 0]

Holds(hold, b, p) ==
    hold # None /\ hold.book = b /\ p \in {hold.landed, hold.left}

\* A bug that holds the page against the reader who turns back to it.
RetireNever(hold, b, p) == hold

\* What a record says about the hold: the page it stands on keeps it, and
\* shows the app has taken the move; another page of the book ends it.
Retire(hold, b, p) ==
    IF hold = None \/ hold.book # b THEN hold
    ELSE IF ~Holds(hold, b, p) THEN None
    ELSE IF p = hold.landed THEN [hold EXCEPT !.left = None] ELSE hold

\* The place of b, written as p: not for a held page, and only while the
\* book's pages are resident, or there is no anchor to write.  The page-keyed
\* file is written after it, and may fail alone.
PlaceWrites(c, b, p) ==
    LET hold == Retire(c.task.hold, b, p)
        held == Holds(hold, b, p) /\ c.task.loaded = b
        out(pair, ok) == [c EXCEPT !.place[b] = pair, !.task.hold = hold, !.ok = ok,
                                   !.faults = @ + (IF ok THEN 0 ELSE 1)]
        unchanged == c.place[b]
        written == Publish(unchanged, p)
    IN  IF held \/ b \notin {c.task.loaded, c.task.reading} THEN {out(unchanged, TRUE)}
        ELSE IF c.task.loaded # b THEN {out(unchanged, TRUE), out(unchanged, FALSE)}
        ELSE {out(written, TRUE), out(written, FALSE),
              out(unchanged, FALSE), out(Tear(unchanged), FALSE)}

\* write_state_file, whatever became of the place.
StateWrites(c, spot) ==
    {[c EXCEPT !.state = spot], [c EXCEPT !.ok = FALSE, !.faults = @ + 1]}

\* store_app_state, and what is owed after it.
AppStateWrites(c, spot) ==
    {[w EXCEPT !.task.pending = IF w.ok THEN None ELSE spot] :
        w \in UNION {StateWrites(v, spot) : v \in PlaceWrites(c, spot.book, spot.page)}}

FlushWrites(c) ==
    IF c.task.pending = None THEN {c} ELSE AppStateWrites(c, c.task.pending)

\* A pending record of another book lands first.
OthersFirst(c, b) ==
    IF c.task.pending # None /\ c.task.pending.book # b THEN FlushWrites(c) ELSE {c}

\* close_out_departing_book
CloseOut(c, previous) ==
    LET held(v) == previous.book \in {v.task.loaded, v.task.reading}
        rest(v) == IF ~held(v) THEN {v}
                   ELSE PlaceWrites(v, previous.book, previous.page)
        kept(v) == [v EXCEPT !.task.pending = IF v.ok THEN None ELSE previous]
    IN  UNION {IF ~v.ok THEN {v} ELSE {kept(w) : w \in rest(v)} :
                  v \in OthersFirst(c, previous.book)}

(***************************************************************************)
(* The storage task.  It takes no command while it holds an event.         *)
(***************************************************************************)
\* A bug that goes on to the next command while an event is held.
RoomAlways == TRUE

Room == Len(events) <= EventSlots

Loaded(b, position, replaced) ==
    [kind |-> "loaded", book |-> b, position |-> position, replaced |-> replaced]
Event(kind, b) == [kind |-> kind, book |-> b]
RowEvent(kind, id, b) == [kind |-> kind, id |-> id, book |-> b]

Events ==
    [kind : {"loaded"}, book : Books, position : Pages \cup {None}, replaced : BOOLEAN]
    \cup [kind : {"unreadable", "failed"}, book : Books]
    \cup [kind : {"row", "rowFailed"}, id : Nat, book : Books]

Apply(c) ==
    /\ c.faults <= spent.faults
    /\ spent' = [spent EXCEPT !.faults = @ - c.faults]
    /\ place' = c.place /\ state' = c.state /\ task' = c.task

Take(op) ==
    /\ sent # <<>> /\ Head(sent).op = op /\ Room
    /\ sent' = Tail(sent)
    /\ UNCHANGED <<app, parked, shown>>

\* StoreProgress.  A record whose predecessor for another book cannot land is
\* given up on.
Progress(due) ==
    LET spot == Spot(Head(sent).book, Head(sent).page)
        retired == [Now EXCEPT !.task.hold = Retire(@, spot.book, spot.page)]
        other == task.pending # None /\ task.pending.book # spot.book
        writes(v) == IF ~v.ok THEN {v}
                     ELSE IF due \/ other THEN AppStateWrites(v, spot)
                     ELSE {[v EXCEPT !.task.pending = spot]}
    IN
    /\ Take("progress")
    /\ \E v \in OthersFirst(retired, spot.book) : \E c \in writes(v) :
          Apply(c) /\ lost' = (lost \/ ~v.ok \/ task.loaded # spot.book)
    /\ UNCHANGED <<events, chosen>>

Choose ==
    LET e == Head(sent) IN
    /\ Take("choose")
    /\ \E failed \in BOOLEAN :
          /\ Apply([Now EXCEPT !.faults = IF failed THEN 1 ELSE 0])
          /\ events' = Append(events,
                RowEvent(IF failed THEN "rowFailed" ELSE "row", e.id, e.book))
    /\ UNCHANGED <<chosen, lost>>

IsLatest(c) == c.id = app.request

\* One that lost to a newer request has touched nothing, and is not answered.
SkipStale ==
    /\ \E op \in {"open", "extend"} : Take(op)
    /\ ~IsLatest(Head(sent))
    /\ UNCHANGED <<events, task, cardVars, history, spent>>

\* Where a load leaves the card and the reader: the page reported if any, the
\* hold, whether text was read under the page on screen, and whether a save
\* may stand on the page reported.
Landing(c, b, position, hold, replaced) ==
    [card |-> [c EXCEPT !.task.loaded = b, !.task.reading = b, !.task.hold = hold],
     event |-> Loaded(b, position, replaced), stands |-> position # None]

\* The start of the book, when the section that was wanted would not load.
Fallback(c, b, hold, stands) ==
    [Landing([c EXCEPT !.faults = @ + 1], b, 0, hold, TRUE) EXCEPT !.stands = stands]

NothingLoads(c, b, hold) ==
    [card |-> [c EXCEPT !.task.loaded = None, !.task.hold = hold, !.faults = @ + 1],
     event |-> Event("unreadable", b), stands |-> FALSE]

\* From the resident pages, or off the card.
Replaced(c, b) == {TRUE, c.task.loaded # b}

\* At the page asked for; failing that at the start, and the hold stands as it
\* did.
AsAsked(c, e, hold) ==
    {Landing(c, e.book, None, hold, r) : r \in Replaced(c, e.book)}
    \cup (IF e.page = 0 THEN {} ELSE {Fallback(c, e.book, hold, TRUE)})
    \cup {NothingLoads(c, e.book, hold)}

\* A bug that leaves the place it could not reach with nothing holding it.
AtPlaceUnheld(c, e, p) ==
    {Landing(c, e.book, p, Hold(e.book, p, p, TRUE), TRUE), NothingLoads(c, e.book, None)}
    \cup (IF p = 0 THEN {} ELSE {Fallback(c, e.book, None, FALSE)})

\* At the saved place, which is held; failing that at the start, the place
\* waiting.
AtPlace(c, e, p) ==
    {Landing(c, e.book, p, Hold(e.book, p, p, TRUE), TRUE), NothingLoads(c, e.book, None)}
    \cup (IF p = 0 THEN {}
          ELSE {Fallback(c, e.book, Hold(e.book, 0, p, FALSE), FALSE)})

\* The place would not be read: the page that was asked for, the place waiting.
PlaceUnread(c, e) ==
    LET unread == [c EXCEPT !.faults = @ + 1]
        waiting(page) == Hold(e.book, page, None, FALSE)
    IN  {Landing(unread, e.book, None, waiting(e.page), r) : r \in Replaced(c, e.book)}
        \cup (IF e.page = 0 THEN {} ELSE {Fallback(unread, e.book, waiting(0), FALSE)})
        \cup {NothingLoads(unread, e.book, None)}

\* A bare selection, or a page of another layout, resumes from the place.
Loads(c, e) ==
    LET p == NewestPlace(c.place[e.book]) IN
    IF ~(e.resolve \/ e.page = 0) THEN AsAsked(c, e, None)
    ELSE PlaceUnread(c, e) \cup
         IF p = None THEN AsAsked(c, e, None) ELSE AtPlace(c, e, p)

\* Only an open that left a book moves the state record, and owes it when it
\* cannot.
Pointed(landing, e) ==
    LET at == landing.event.position
        spot == Spot(e.book, IF at = None THEN 0 ELSE at)
    IN  IF e.previous = None \/ landing.event.kind = "unreadable" THEN {landing}
        ELSE {[landing EXCEPT !.card.state = spot, !.card.task.pending = None],
              [landing EXCEPT !.card.task.pending = spot, !.card.faults = @ + 1]}

Announce(landing) ==
    /\ Apply(landing.card)
    /\ events' = Append(events, landing.event)
    /\ chosen' = IF landing.stands
                 THEN [chosen EXCEPT ![landing.event.book] = @ \cup {landing.event.position}]
                 ELSE chosen

\* A row that is no longer the book it was refuses the open before anything is
\* touched; a close-out that cannot land refuses it too.
Refuse(c, e) ==
    /\ Apply(c)
    /\ events' = Append(events, Event("failed", e.book))
    /\ UNCHANGED chosen

Open ==
    LET e == Head(sent)
        staged(c) == [c EXCEPT !.task.hold = None]
    IN
    /\ Take("open") /\ IsLatest(e)
    /\ \/ e.fenced /\ Refuse([Now EXCEPT !.faults = 1], e)
       \/ \E c \in IF e.previous = None THEN {Now} ELSE CloseOut(Now, e.previous) :
             \/ ~c.ok /\ Refuse(c, e)
             \/ c.ok /\ \E l \in Loads(staged(c), e) : \E d \in Pointed(l, e) : Announce(d)
    /\ UNCHANGED lost

\* More of the book that is open: it inherits the hold.
Extend ==
    /\ Take("extend") /\ IsLatest(Head(sent))
    /\ \E l \in AsAsked(Now, Head(sent), task.hold) : Announce(l)
    /\ UNCHANGED lost

\* The page a restore moved the reader off stays held too, until the app is
\* seen to take the move.
SettledOn(hold, p) ==
    [hold EXCEPT !.left = IF p = hold.landed THEN @ ELSE hold.landed,
                 !.landed = p, !.stopped = TRUE]

Refused(hold) ==
    [hold EXCEPT !.refusals = @ + 1, !.stopped = @ \/ hold.refusals + 1 >= PlaceReadRefusals]

\* A slice asks for a waiting place again (resolve_pending_place), unless the
\* reader left the book or turned the page.
SettleHold(hold) ==
    /\ task' = [task EXCEPT !.hold = hold]
    /\ UNCHANGED <<cardVars, events, chosen, spent>>

\* A slice waits BACKGROUND_SETTLE_MS with nothing to take, which the app needs
\* less of than it takes to answer an event or a frame.
Quiet == sent = <<>> /\ parked = <<>> /\ events = <<>> /\ app.frame = None

Settle ==
    LET h == task.hold
        b == h.book
        p == IF h.place = None THEN Place(b) ELSE h.place
    IN
    /\ Quiet /\ h # None /\ ~h.stopped
    /\ IF shown.book # b THEN SettleHold([h EXCEPT !.stopped = TRUE])
       ELSE IF shown.page # h.landed THEN SettleHold(None)
       ELSE \/ p # None /\ Announce(Landing(Now, b, p, SettledOn(h, p), TRUE))
            \/ p # None /\ h.landed # 0 /\ Announce(Fallback(Now, b, SettledOn(h, 0), FALSE))
            \/ p # None /\ Announce(NothingLoads(Now, b, None))
            \/ /\ Apply([Now EXCEPT !.faults = IF p = None THEN 0 ELSE 1,
                                    !.task.hold = Refused(h)])
               /\ UNCHANGED <<events, chosen>>
    /\ UNCHANGED <<appVars, shown, lost>>

\* Before the panel sleeps.  A press of Power waits for the app to owe nothing,
\* and an idle clock runs out long after.
Flush ==
    /\ Quiet /\ task.pending # None
    /\ \E c \in FlushWrites(Now) : Apply(c)
    /\ lost' = (lost \/ task.loaded # task.pending.book)
    /\ UNCHANGED <<appVars, events, shown, chosen>>

(***************************************************************************)
(* Power may go at any time, a write of a place cut with it.  What a boot  *)
(* opens at is the book of the state record, at its own place; the page in *)
(* the state record answers when there is none or it would not be read.    *)
(***************************************************************************)
\* The records a write may be cut in the middle of: what the command at the
\* head of the channel carries, the record of another book that lands before
\* it, and what is flushed before sleep.
Carried ==
    IF sent = <<>> \/ ~Room THEN {}
    ELSE IF Head(sent).op = "progress" THEN {Spot(Head(sent).book, Head(sent).page)}
    ELSE IF IsOpen(Head(sent)) /\ IsLatest(Head(sent)) THEN {Head(sent).previous} \ {None}
    ELSE {}

Owed ==
    {r \in {task.pending} \ {None} : Quiet \/ \E o \in Carried : o.book # r.book}

CutShort ==
    {Now} \cup (UNION {PlaceWrites(Now, r.book, r.page) : r \in Owed})
    \cup (UNION {UNION {PlaceWrites(c, r.book, r.page) :
                           c \in {w \in OthersFirst(Now, r.book) : w.ok}} : r \in Carried})

PowerLoss ==
    /\ spent.cuts > 0
    /\ \E c \in CutShort : \E unread \in BOOLEAN :
          LET b == c.state.book
              p == NewestPlace(c.place[b])
              at == Spot(b, IF unread \/ p = None THEN c.state.page ELSE p)
          IN  /\ unread => spent.faults > 0
              /\ spent' = [spent EXCEPT !.cuts = @ - 1,
                                        !.faults = @ - (IF unread THEN 1 ELSE 0)]
              /\ place' = c.place /\ state' = c.state
              /\ app' = BootedAt(at) /\ task' = IdleTask(b)
    /\ parked' = <<>> /\ sent' = <<>> /\ events' = <<>>
    /\ shown' = Nowhere
    /\ chosen' = [b \in Books |-> {}]
    /\ lost' = FALSE

-----------------------------------------------------------------------------
TypeOK ==
    /\ app \in AppStates
    /\ parked \in Seq(Commands) /\ Len(parked) <= ParkedSlots
    /\ sent \in Seq(Commands) /\ Len(sent) <= QueueSlots
    /\ events \in Seq(Events) /\ Len(events) <= EventSlots + 1
    /\ task \in Tasks
    /\ shown \in Frames
    /\ place \in [Books -> [SlotNumbers -> Slot(Pages)]]
    /\ state \in Spots
    /\ chosen \in [Books -> SUBSET Pages]
    /\ lost \in BOOLEAN
    /\ spent \in [presses : Nat, faults : Nat, cuts : Nat]

Init ==
    /\ place = SavedPlaces /\ state = SavedState
    /\ app = BootedAt(Spot(state.book, IF Place(state.book) = None THEN state.page
                                       ELSE Place(state.book)))
    /\ task = IdleTask(state.book)
    /\ parked = <<>> /\ sent = <<>> /\ events = <<>> /\ shown = Nowhere
    /\ chosen = [b \in Books |-> {}]
    /\ lost = FALSE
    /\ spent = [presses |-> MaxPresses, faults |-> MaxFaults, cuts |-> MaxCuts]

AppStep ==
    \/ \E p \in Pages : TurnPage(p)
    \/ ReadOn
    \/ Leave \/ WalkAway
    \/ \E b \in Books : Pick(b)

Handle == SkipStale \/ Open \/ Extend \/ (\E due \in BOOLEAN : Progress(due)) \/ Choose

Next == AppStep \/ Receive \/ OfferParked \/ FrameSettles
        \/ Handle \/ Settle \/ Flush \/ PowerLoss

Spec == Init /\ [][Next]_vars

(***************************************************************************)
(* Properties.                                                             *)
(***************************************************************************)
\* The place of a book is written over only with a page the reader turned to,
\* or the start of the book when nothing else of it would load.
PlaceStands ==
    [][place' # place /\ ~lost => \A b \in Books : Place(b) # None =>
          Place(b)' \in {Place(b)} \cup chosen[b]]_vars

Idle == Quiet /\ task.pending = None

\* The page a book is opened at: its place; for one that has none, the page of
\* the state record when that is the book's.
SavedAt(b) ==
    IF Place(b) # None THEN Place(b) ELSE IF state.book = b THEN state.page ELSE 0

\* With nothing under way the page on screen is the one the card holds, from
\* the book whose text is in memory.
RestIsOnCard ==
    Idle /\ app.view = "reading" /\ ~Unreadable(app) =>
        /\ task.loaded = app.book
        /\ ~lost /\ (task.hold = None \/ task.hold.landed = task.hold.place)
           => app.page = SavedAt(app.book)

\* With nothing under way no open and no pick waits for an answer: one that did
\* would hold the buttons for good.
InputIsFree == Quiet => Ready /\ app.picking = NoPick
=============================================================================
