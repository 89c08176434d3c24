--------------------------- MODULE SleepHandshake ---------------------------
(***************************************************************************)
(* How the device goes to sleep: the power task asks the display task to   *)
(* put the panel down, waits for that request's own acknowledgement, and   *)
(* cuts the power; a press, or a browser for a sleep nobody asked for, can *)
(* call it off at any point before.                                        *)
(*                                                                         *)
(* Four tasks of one executor: app (tasks/app.rs), power (tasks/power.rs), *)
(* display (tasks/display.rs, and sd_session.rs while a wireless session   *)
(* holds it) and wifi (tasks/wifi.rs).  They give way to each other only   *)
(* where they await, so an action is what a task does from one await to    *)
(* the next.  Card work happens inside an action: nothing else runs.       *)
(*                                                                         *)
(* What the app paints and why is left out: it has one render unanswered   *)
(* at a time, and may have one to send whenever it has none.               *)
(***************************************************************************)
EXTENDS Naturals, Sequences, FiniteSets, SequencesExt

CONSTANTS
    CommandSlots,   \* slots of DISPLAY_COMMANDS (4)
    EventSlots,     \* slots of POWER_EVENTS (4)
    RingSlots,      \* generations CANCELLED_SLEEPS remembers (4)
    MaxGeneration,  \* sleeps asked for between two boots: a bound of the check
    SettleWindow    \* TRUE on the X3, which waits 1.5 s before it cuts the power

ASSUME SlotsAssumption ==
    /\ CommandSlots \in Nat \ {0}
    /\ EventSlots \in Nat \ {0}
    /\ RingSlots \in Nat \ {0}
ASSUME MaxGenerationAssumption == MaxGeneration \in Nat
ASSUME SettleWindowAssumption  == SettleWindow \in BOOLEAN

VARIABLES
    commands,   \* DISPLAY_COMMANDS: renders and sleeps, to the display task
    events,     \* POWER_EVENTS, to the power task
    cancelled,  \* CANCELLED_SLEEPS: the last generations called off
    resume,     \* DISPLAY_RESUME, which stays set until somebody waits for it
    app,        \* where the app task is, its render lock, answers it has queued
    power,      \* where the power task is, its generation and its trigger
    display,    \* where the display task is, the sleep it has in hand, and
                \* whether it knows what to show should the sleep end
    panel,      \* what the panel shows: nothing known, a page, the sleep image
    unsaved,    \* the position moved with the power task told of the press,
                \* and is not on the card yet
    browser     \* the wireless session as wifi sees it

tasks == <<app, power, display>>
vars  == <<commands, events, cancelled, resume, tasks, panel, unsaved, browser>>

Triggers    == {"idle", "explicit"}
Render      == [type |-> "render"]
Sleep(g, t) == [type |-> "sleep", gen |-> g, trigger |-> t]
Acked(answer, g) == [type |-> answer, gen |-> g]
Activity        == [type |-> "activity"]
BrowserActivity == [type |-> "browser"]
SleepNow        == [type |-> "sleepnow"]

RoomToCommand == Len(commands) < CommandSlots
RoomToTell    == Len(events) < EventSlots
Awake         == power.at # "off"

\* Mutant: more is queued than the queue has slots for.
OfferOverfull(event) == events' = Append(events, event)

\* A send that does not wait: what does not fit is gone.
Offer(event) == events' = IF RoomToTell THEN Append(events, event) ELSE events

IsCancelled(g) == Contains(cancelled, g)

\* Mutant: only the last generation called off is remembered.
CancelOverwrites(g) == cancelled' = <<g>> /\ resume' = TRUE

\* Mutant: the display is not woken to look.
CancelQuietly(g) ==
    /\ cancelled' = Append(IF Len(cancelled) < RingSlots THEN cancelled
                           ELSE Tail(cancelled), g)
    /\ UNCHANGED resume

\* The ring forgets the oldest generation it holds.
Cancel(g) ==
    /\ cancelled' = Append(IF Len(cancelled) < RingSlots THEN cancelled
                           ELSE Tail(cancelled), g)
    /\ resume' = TRUE

\* The power task takes an event as soon as it runs; a timer of another task
\* that waits on it runs out only when there is none it could take.
PowerReceives == power.at \in {"run", "waiting", "settling"} /\ events # <<>>

-----------------------------------------------------------------------------
(***************************************************************************)
(* Booting, which is also how the device wakes and how wireless is left    *)
(***************************************************************************)
Running   == [at |-> "run", gen |-> 0, trigger |-> "idle"]
InLoop    == [at |-> "loop", gen |-> 0, trigger |-> "idle", request |-> FALSE]
NoBrowser == [serving |-> FALSE, inFlight |-> FALSE, queued |-> FALSE]
\* The first paint waits for storage's answer.
Booting   == [at |-> "run", first |-> TRUE, rendering |-> FALSE, acks |-> 0]

Init ==
    /\ commands = <<>> /\ events = <<>> /\ cancelled = <<>> /\ resume = FALSE
    /\ app = Booting /\ power = Running /\ display = InLoop
    /\ panel = "none" /\ unsaved = FALSE /\ browser = NoBrowser

Reboot ==
    /\ commands' = <<>> /\ events' = <<>> /\ cancelled' = <<>> /\ resume' = FALSE
    /\ app' = Booting /\ power' = Running /\ display' = InLoop
    /\ panel' = "none" /\ unsaved' = FALSE /\ browser' = NoBrowser

-----------------------------------------------------------------------------
(***************************************************************************)
(* The app task                                                            *)
(***************************************************************************)
\* A render goes out under the lock, which the display's answer takes off;
\* while the queue is full the app stays in the send.
SendRender(a) ==
    IF RoomToCommand
    THEN /\ commands' = Append(commands, Render)
         /\ app' = [a EXCEPT !.at = "run", !.rendering = TRUE]
    ELSE /\ app' = [a EXCEPT !.at = "render"]
         /\ UNCHANGED commands

\* Mutant: the render lock is not asked.
RepaintUnlocked(a) == SendRender(a)

Repaint(a) == ~a.rendering /\ SendRender(a)

\* A button: the power task hears of it if there is room, the position the
\* press moved to is handed to storage, and there may be something to paint.
Press ==
    /\ Awake /\ app.at = "run"
    /\ Offer(Activity)
    /\ unsaved' = (unsaved \/ RoomToTell)
    /\ Repaint(app) \/ UNCHANGED <<commands, app>>
    /\ UNCHANGED <<cancelled, resume, power, display, panel, browser>>

\* A storage answer, which may have moved the reader to another view.
Answer ==
    /\ Awake /\ app.at = "run"
    /\ UNCHANGED events \/ Offer(Activity)
    /\ Repaint([app EXCEPT !.first = FALSE])
    /\ UNCHANGED <<cancelled, resume, power, display, panel, unsaved, browser>>

FirstAnswer == app.first /\ Answer

\* The Power button, which is waited on, unlike every other press.
PressesToHear == Cardinality({i \in DOMAIN events : events[i] = SleepNow})

PowerPress ==
    /\ Awake /\ app.at = "run"
    /\ power.gen + PressesToHear < MaxGeneration
    /\ IF RoomToTell
       THEN events' = Append(events, SleepNow) /\ UNCHANGED app
       ELSE app' = [app EXCEPT !.at = "sleep"] /\ UNCHANGED events
    /\ UNCHANGED <<commands, cancelled, resume, power, display, panel, unsaved, browser>>

AppSends ==
    /\ Awake
    /\ \/ app.at = "render" /\ RoomToCommand /\ SendRender(app) /\ UNCHANGED events
       \/ /\ app.at = "sleep" /\ RoomToTell
          /\ events' = Append(events, SleepNow)
          /\ app' = [app EXCEPT !.at = "run"]
          /\ UNCHANGED commands
    /\ UNCHANGED <<cancelled, resume, power, display, panel, unsaved, browser>>

\* An answer of the display's ends the render cycle, whichever render it is of.
AppSettled ==
    /\ Awake /\ app.at = "run" /\ app.acks > 0
    /\ app' = [app EXCEPT !.acks = @ - 1, !.rendering = FALSE]
    /\ UNCHANGED <<commands, events, cancelled, resume, power, display, panel,
                   unsaved, browser>>

-----------------------------------------------------------------------------
(***************************************************************************)
(* The power task                                                          *)
(***************************************************************************)
\* Every request mints a generation, and stays in the send while the queue is
\* full.
EnterSleep(trigger) ==
    LET gen == power.gen + 1 IN
    IF RoomToCommand
    THEN /\ commands' = Append(commands, Sleep(gen, trigger))
         /\ power' = [at |-> "waiting", gen |-> gen, trigger |-> trigger]
    ELSE /\ power' = [at |-> "sending", gen |-> gen, trigger |-> trigger]
         /\ UNCHANGED commands

StayAwake == power' = [power EXCEPT !.at = "run", !.trigger = "idle"]

PowerRuns ==
    /\ power.at = "run" /\ events # <<>>
    /\ events' = Tail(events)
    /\ IF Head(events) = SleepNow
       THEN EnterSleep("explicit")
       ELSE UNCHANGED <<commands, power>>
    /\ UNCHANGED <<cancelled, resume, app, display, panel, unsaved, browser>>

\* Three minutes at least without an event, which is longer than any sleep
\* takes to be carried out or called off: none is still under way.  With an
\* upload in flight the deadline is put off.
IdleTimeout ==
    /\ power.at = "run" /\ events = <<>>
    /\ power.gen < MaxGeneration /\ app.at # "sleep"
    /\ ~browser.inFlight
    /\ commands = <<>> /\ display.at \in {"loop", "session", "refusing"}
    /\ EnterSleep("idle")
    /\ UNCHANGED <<events, cancelled, resume, app, display, panel, unsaved, browser>>

PowerSends ==
    /\ power.at = "sending" /\ RoomToCommand
    /\ commands' = Append(commands, Sleep(power.gen, power.trigger))
    /\ power' = [power EXCEPT !.at = "waiting"]
    /\ UNCHANGED <<events, cancelled, resume, app, display, panel, unsaved, browser>>

\* Mutant: a sleep the reader asked for is not called off by a press.
CallsOffIdleOnly(event) ==
    \/ event \in {Activity, BrowserActivity} /\ power.trigger = "idle"
    \/ power.at = "settling" /\ event = SleepNow

CallsOff(event) ==
    \/ event = Activity
    \/ event = BrowserActivity /\ power.trigger = "idle"
    \/ power.at = "settling" /\ event = SleepNow

\* Mutant: any sleep's acknowledgement is taken for this one's.
PowerHearsAny(event) ==
    CASE event.type = "asleep" ->
           power' = [power EXCEPT !.at = IF SettleWindow THEN "settling" ELSE "pin"]
      [] event.type = "failed" -> StayAwake
      [] event = SleepNow -> power' = [power EXCEPT !.trigger = "explicit"]
      [] OTHER            -> UNCHANGED power

\* Until the panel's own answer: anything else is not this sleep's.
PowerHears(event) ==
    CASE event = Acked("asleep", power.gen) ->
           power' = [power EXCEPT !.at = IF SettleWindow THEN "settling" ELSE "pin"]
      [] event = Acked("failed", power.gen) -> StayAwake
      [] event = SleepNow -> power' = [power EXCEPT !.trigger = "explicit"]
      [] OTHER            -> UNCHANGED power

PowerWaits ==
    /\ power.at = "waiting" /\ events # <<>>
    /\ events' = Tail(events)
    /\ IF CallsOff(Head(events))
       THEN Cancel(power.gen) /\ StayAwake
       ELSE PowerHears(Head(events)) /\ UNCHANGED <<cancelled, resume>>
    /\ UNCHANGED <<commands, app, display, panel, unsaved, browser>>

\* The X3's wait before the rail is cut, still listening: what comes is taken
\* at once, long before the 1.5 s are over.
PowerSettles ==
    /\ power.at = "settling" /\ events # <<>>
    /\ events' = Tail(events)
    /\ IF CallsOff(Head(events))
       THEN Cancel(power.gen) /\ StayAwake
       ELSE UNCHANGED <<cancelled, resume, power>>
    /\ UNCHANGED <<commands, app, display, panel, unsaved, browser>>

SettleEnds ==
    /\ power.at = "settling" /\ events = <<>>
    /\ power' = [power EXCEPT !.at = "pin"]
    /\ UNCHANGED <<commands, events, cancelled, resume, app, display, panel,
                   unsaved, browser>>

\* The Power button changes hands and becomes the wake source.  From the
\* request for it on nobody listens to POWER_EVENTS.
PowerDown ==
    /\ power.at = "pin"
    /\ power' = [power EXCEPT !.at = "off"]
    /\ UNCHANGED <<commands, events, cancelled, resume, app, display, panel,
                   unsaved, browser>>

Wake == power.at = "off" /\ Reboot

-----------------------------------------------------------------------------
(***************************************************************************)
(* The display task                                                        *)
(***************************************************************************)
At(place)     == display' = [display EXCEPT !.at = place]
BackToLoop    == display' = InLoop
Holding(place, sleep, request) ==
    display' = [at |-> place, gen |-> sleep.gen, trigger |-> sleep.trigger,
                request |-> request]
Takes(type)   == commands # <<>> /\ Head(commands).type = type

TakeRender ==
    /\ Awake /\ display.at = "loop" /\ Takes("render")
    /\ commands' = Tail(commands)
    /\ At("render")
    /\ UNCHANGED <<events, cancelled, resume, app, power, panel, unsaved, browser>>

\* The frame is on the panel and the app is told.  (The power task is too,
\* which it does not act on.)
RenderSettles ==
    /\ Awake /\ display.at = "render"
    /\ panel' = "page"
    /\ app' = [app EXCEPT !.acks = @ + 1]
    /\ BackToLoop
    /\ UNCHANGED <<commands, events, cancelled, resume, power, unsaved, browser>>

\* What a Sleep finds at the front of the queue.  Called off already: nothing.
\* Otherwise everything owed to the card goes first, and a sleep that cannot
\* have it refuses: an upload request still queued, a card that will not take
\* the position, an event the app has yet to be given.
SkipSleep(sleep)   == IsCancelled(sleep.gen) /\ UNCHANGED <<display, unsaved>>
RefuseSleep(sleep) ==
    ~IsCancelled(sleep.gen) /\ Holding("failed", sleep, FALSE) /\ UNCHANGED unsaved
DrainToCard(sleep) ==
    /\ ~IsCancelled(sleep.gen) /\ ~browser.queued
    /\ unsaved' = FALSE
    /\ \E saved \in BOOLEAN :
          Holding(IF panel = "page" THEN "flush" ELSE "init", sleep,
                  panel = "page" \/ saved)

TakeSleep ==
    /\ Awake /\ display.at = "loop" /\ Takes("sleep")
    /\ commands' = Tail(commands)
    /\ LET sleep == Head(commands)
       IN  SkipSleep(sleep) \/ RefuseSleep(sleep) \/ DrainToCard(sleep)
    /\ UNCHANGED <<events, cancelled, resume, app, power, panel, browser>>

\* A panel nothing is known of is brought up first, and the sleep asked about
\* once more before anything is drawn.
PanelReady ==
    /\ Awake /\ display.at = "init"
    /\ IF IsCancelled(display.gen) THEN BackToLoop ELSE At("flush")
    /\ UNCHANGED <<commands, events, cancelled, resume, app, power, panel,
                   unsaved, browser>>

\* The sleep image is drawn and the panel told to sleep, which it may not
\* answer.
PanelSleeps ==
    /\ Awake /\ display.at = "flush"
    /\ \/ panel' = "sleep" /\ At("asleep")
       \/ panel' = "none" /\ At("failed")
    /\ UNCHANGED <<commands, events, cancelled, resume, app, power, unsaved, browser>>

\* The page that was up comes back, unless something newer is queued.
Restore ==
    /\ BackToLoop
    /\ commands' = IF commands = <<>> /\ display.request
                   THEN Append(commands, Render) ELSE commands

\* Behind its acknowledgement the display waits for the power to go, or for
\* its own generation to be called off.
Park ==
    IF IsCancelled(display.gen) THEN Restore ELSE At("parked") /\ UNCHANGED commands

\* send_required_power_event: what does not fit within 20 ms is dropped.
PlaceEvent(event) ==
    \/ RoomToTell /\ events' = Append(events, event)
    \/ ~RoomToTell /\ ~PowerReceives /\ UNCHANGED events

\* Mutant: a refusal is not answered.
RefusedQuietly ==
    /\ Awake /\ display.at = "failed"
    /\ BackToLoop
    /\ UNCHANGED <<commands, events, cancelled, resume, app, power, panel,
                   unsaved, browser>>

Refused ==
    /\ Awake /\ display.at = "failed"
    /\ PlaceEvent(Acked("failed", display.gen))
    /\ BackToLoop
    /\ UNCHANGED <<commands, cancelled, resume, app, power, panel, unsaved, browser>>

Acknowledge ==
    /\ Awake /\ display.at = "asleep"
    /\ PlaceEvent(Acked("asleep", display.gen))
    /\ Park
    /\ UNCHANGED <<cancelled, resume, app, power, panel, unsaved, browser>>

\* DISPLAY_RESUME names no generation: one left from another sleep is
\* discarded.
ParkedResumes ==
    /\ Awake /\ display.at = "parked" /\ resume
    /\ resume' = FALSE
    /\ Park
    /\ UNCHANGED <<events, cancelled, app, power, panel, unsaved, browser>>

\* Mutant: when the time is up it is waited again.
ParkCeilingAgain ==
    /\ Awake /\ display.at = "parked" /\ ~resume
    /\ UNCHANGED vars

\* Five seconds with neither: longer than an event takes to be received and
\* the power to be cut.
ParkCeiling ==
    /\ Awake /\ display.at = "parked" /\ ~resume
    /\ power.at = "waiting" => events = <<>>
    /\ power.at \notin {"settling", "pin"}
    /\ BackToLoop
    /\ UNCHANGED <<commands, events, cancelled, resume, app, power, panel,
                   unsaved, browser>>

-----------------------------------------------------------------------------
(***************************************************************************)
(* A wireless session, which the display task serves                       *)
(***************************************************************************)
InSession     == display.at \in {"session", "refusing"}
SessionStands == InSession \/ display.at = "asking"

\* The card opened for uploads, or refusing them all.
UploadSession ==
    /\ Awake /\ display.at = "loop" /\ commands = <<>> /\ browser.queued
    /\ browser' = [browser EXCEPT !.queued = FALSE]
    /\ At("session") \/ At("refusing")
    /\ UNCHANGED <<commands, events, cancelled, resume, app, power, panel, unsaved>>

\* The wireless screen is already painted.
DiscardRender ==
    /\ Awake /\ InSession /\ Takes("render")
    /\ commands' = Tail(commands)
    /\ UNCHANGED <<events, cancelled, resume, tasks, panel, unsaved, browser>>

\* The session is closed; the sleep goes back to the loop's queue, of which
\* this task is the only reader.
FinishSession(sleep, queue) ==
    /\ Len(queue) < CommandSlots
    /\ BackToLoop
    /\ commands' = Append(queue, Sleep(sleep.gen, sleep.trigger))

CalledOff(sleep) == sleep.trigger = "idle" /\ IsCancelled(sleep.gen)

\* Mutant: an idle sleep ends the session as any other does.
UploadUnderNever(sleep) == FALSE

\* An idle sleep over an upload is put to the power task as activity first.
UploadUnder(sleep) == sleep.trigger = "idle" /\ display.at = "session" /\ browser.inFlight

SessionSleep ==
    /\ Awake /\ InSession /\ Takes("sleep")
    /\ LET sleep == Head(commands) IN
       \/ /\ CalledOff(sleep)
          /\ commands' = Tail(commands)
          /\ UNCHANGED <<events, display>>
       \/ /\ ~CalledOff(sleep) /\ UploadUnder(sleep)
          /\ Offer(BrowserActivity)
          /\ Holding("asking", sleep, FALSE)
          /\ commands' = Tail(commands)
       \/ /\ ~CalledOff(sleep) /\ ~UploadUnder(sleep)
          /\ FinishSession(sleep, Tail(commands))
          /\ UNCHANGED events
    /\ UNCHANGED <<cancelled, resume, app, power, panel, unsaved, browser>>

\* wait_for_sleep_cancellation: called off within 250 ms, or not.
BackToSession == display' = [InLoop EXCEPT !.at = "session"]

Asked ==
    /\ Awake /\ display.at = "asking"
    /\ IF IsCancelled(display.gen)
       THEN BackToSession /\ resume' = FALSE /\ UNCHANGED commands
       ELSE /\ ~PowerReceives
            /\ FinishSession(display, commands)
            /\ resume' = FALSE
    /\ UNCHANGED <<events, cancelled, app, power, panel, unsaved, browser>>

-----------------------------------------------------------------------------
(***************************************************************************)
(* The wifi task: a browser, once the radio has the reader's memory        *)
(***************************************************************************)
\* The loan of the memory waits for the position to be on the card.
Serve ==
    /\ Awake /\ ~browser.serving /\ display.at = "loop" /\ commands = <<>>
    /\ browser' = [browser EXCEPT !.serving = TRUE]
    /\ unsaved' = FALSE
    /\ UNCHANGED <<commands, events, cancelled, resume, tasks, panel>>

Request ==
    /\ Awake /\ browser.serving /\ ~browser.inFlight
    /\ browser' = [browser EXCEPT !.inFlight = TRUE]
    /\ UNCHANGED <<commands, events, cancelled, resume, tasks, panel, unsaved>>

\* Its head counts as activity, and so do the bytes of a long upload, at most
\* every 30 s.
NoteActivity ==
    /\ Awake /\ browser.inFlight
    /\ Offer(BrowserActivity)
    /\ UNCHANGED <<commands, cancelled, resume, tasks, panel, unsaved, browser>>

\* A request that writes waits for a session to write through.
EnsureSession ==
    /\ Awake /\ browser.inFlight /\ ~browser.queued /\ ~SessionStands
    /\ browser' = [browser EXCEPT !.queued = TRUE]
    /\ UNCHANGED <<commands, events, cancelled, resume, tasks, panel, unsaved>>

\* Answered, broken off, or its session gone.
RequestEnds ==
    /\ Awake /\ browser.inFlight /\ ~browser.queued
    /\ browser' = [browser EXCEPT !.inFlight = FALSE]
    /\ UNCHANGED <<commands, events, cancelled, resume, tasks, panel, unsaved>>

\* Leaving the wireless screen is a reset.
Exit == Awake /\ browser.serving /\ Reboot

-----------------------------------------------------------------------------
App == Press \/ Answer \/ PowerPress \/ AppSends \/ AppSettled

Power ==
    \/ PowerRuns \/ PowerSends \/ PowerWaits \/ PowerSettles
    \/ SettleEnds \/ PowerDown

Display ==
    \/ TakeRender \/ RenderSettles \/ TakeSleep \/ PanelReady \/ PanelSleeps
    \/ Refused \/ Acknowledge \/ ParkedResumes \/ ParkCeiling

Session == UploadSession \/ DiscardRender \/ SessionSleep \/ Asked
Wifi    == Serve \/ Request \/ NoteActivity \/ EnsureSession \/ RequestEnds \/ Exit

Handshake == App \/ Power \/ IdleTimeout \/ Wake \/ Display
Spec      == Init /\ [][Handshake]_vars

\* The executor runs every task that can: what a task does of its own is
\* done, and a reader, a browser or a timer owes nothing.  A send that waits
\* is tried again each time a slot comes free, and a timer runs whatever comes.
Fairness ==
    /\ WF_vars(FirstAnswer) /\ WF_vars(AppSends) /\ WF_vars(AppSettled)
    /\ WF_vars(Power) /\ WF_vars(Display)
    /\ SF_vars(PowerSends) /\ SF_vars(Refused \/ Acknowledge) /\ SF_vars(ParkCeiling)

FairSpec == Spec /\ Fairness

Next         == Handshake \/ Session \/ Wifi
WirelessSpec == Init /\ [][Next]_vars

-----------------------------------------------------------------------------
(***************************************************************************)
(* Properties                                                              *)
(***************************************************************************)
Generations == 1 .. MaxGeneration
Commands    == {Render} \cup {Sleep(g, t) : g \in Generations, t \in Triggers}
Events ==
    {Activity, BrowserActivity, SleepNow}
        \cup {Acked(answer, g) : answer \in {"asleep", "failed"}, g \in Generations}

TypeOK ==
    /\ commands \in Seq(Commands) /\ Len(commands) <= CommandSlots
    /\ events \in Seq(Events) /\ Len(events) <= EventSlots
    /\ cancelled \in Seq(Generations) /\ Len(cancelled) <= RingSlots
    /\ resume \in BOOLEAN /\ unsaved \in BOOLEAN
    /\ app \in [at : {"run", "render", "sleep"}, first : BOOLEAN,
                rendering : BOOLEAN, acks : Nat]
    /\ power \in [at : {"run", "sending", "waiting", "settling", "pin", "off"},
                  gen : 0 .. MaxGeneration, trigger : Triggers]
    /\ display \in [at : {"loop", "render", "init", "flush", "asleep", "failed",
                          "parked", "session", "refusing", "asking"},
                    gen : 0 .. MaxGeneration, trigger : Triggers, request : BOOLEAN]
    /\ panel \in {"none", "page", "sleep"}
    /\ browser \in [serving : BOOLEAN, inFlight : BOOLEAN, queued : BOOLEAN]

\* From the moment the power task has its acknowledgement, the sleep image is
\* up and the task that could paint over it stands still behind it.
PanelIsDown ==
    power.at \in {"settling", "pin", "off"} =>
        /\ display.at = "parked" /\ display.gen = power.gen
        /\ panel = "sleep"

\* A parked display waits for something that is on its way: the power task has
\* its acknowledgement or will take it from the queue, or has called the sleep
\* off and said so.  While no more sleeps are called off than the ring holds,
\* neither the dropped acknowledgement nor the five seconds that are there to
\* survive it ever happen.
ParkedIsAnswered ==
    display.at = "parked" =>
        \/ IsCancelled(display.gen) /\ resume
        \/ /\ power.gen = display.gen
           /\ \/ power.at \in {"settling", "pin", "off"}
              \/ power.at = "waiting" /\ Contains(events, Acked("asleep", power.gen))

\* A sleep that was called off is still known as such when its turn comes,
\* however many were asked for since: one the ring does not hold is the one
\* the power task is waiting for.
CalledOffStaysKnown ==
    \A i \in DOMAIN commands :
        commands[i].type = "sleep" /\ ~IsCancelled(commands[i].gen) =>
            power.at = "waiting" /\ power.gen = commands[i].gen

\* The device goes down with the reader's position on the card, but for a press
\* the power task was told of after its last look.
PositionIsSaved == power.at = "off" /\ unsaved => Contains(events, Activity)

\* The display never waits for room in the queue it alone empties.
NeverWaitsOnItself == display.at = "asking" => RoomToCommand

\* A session with a request in flight is never closed for an idle sleep, unless
\* the reader pressed Power over it meanwhile.
Closes == SessionStands /\ display'.at = "loop" /\ browser'.serving
UploadStandsOverIdle ==
    [][Closes /\ display.at # "refusing" /\ browser.inFlight
          => \/ commands'[Len(commands')].trigger = "explicit"
             \/ power.trigger = "explicit"]_vars

\* Every sleep asked for ends: off, refused, or called off.
SleepEnds == power.at \in {"sending", "waiting"} ~> power.at \in {"run", "off"}

\* A display that put the panel down comes back, or the power goes.
ParkEnds == display.at = "parked" ~> (display.at = "loop" \/ power.at = "off")

\* "any resume reason ... must restore the last active screen ... so the display
\* does not remain stuck showing the sleep image" (app-core/src/lib.rs).
ScreenComesBack ==
    (panel = "sleep" /\ display.request) ~> (panel # "sleep" \/ power.at = "off")
=============================================================================
