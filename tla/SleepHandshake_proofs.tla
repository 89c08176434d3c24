----------------------- MODULE SleepHandshake_proofs -----------------------
(***************************************************************************)
(* What is proved of the sleep handshake, for every number of slots and of *)
(* sleeps: the types of its state; that the power goes only over a panel   *)
(* that is down, with the position on the card; and what the ring of       *)
(* called-off sleeps has to hold for the rest.                             *)
(***************************************************************************)
EXTENDS SleepHandshake, FiniteSetTheorems, TLAPS

-----------------------------------------------------------------------------
(***************************************************************************)
(* Queues: what is in one after an element is put in or taken out          *)
(***************************************************************************)
LEMMA AppendHas ==
    ASSUME NEW S, NEW q \in Seq(S), NEW x \in S
    PROVE  /\ Append(q, x) \in Seq(S)
           /\ Len(Append(q, x)) = Len(q) + 1
           /\ \A e : Contains(Append(q, x), e) <=> Contains(q, e) \/ e = x
  <1>1. Append(q, x) \in Seq(S) /\ Len(Append(q, x)) = Len(q) + 1
    OBVIOUS
  <1>2. /\ \A i \in 1 .. Len(q) : Append(q, x)[i] = q[i]
        /\ Append(q, x)[Len(q) + 1] = x
    OBVIOUS
  <1>3. 1 .. Len(Append(q, x)) = (1 .. Len(q)) \cup {Len(q) + 1}
    BY <1>1
  <1> QED
    BY <1>1, <1>2, <1>3 DEF Contains

LEMMA TailHas ==
    ASSUME NEW S, NEW q \in Seq(S), q # <<>>
    PROVE  /\ Head(q) \in S
           /\ Tail(q) \in Seq(S)
           /\ Len(Tail(q)) = Len(q) - 1
           /\ Len(q) > 0
           /\ \A e : Contains(q, e) <=> e = Head(q) \/ Contains(Tail(q), e)
  <1>1. /\ Head(q) \in S /\ Tail(q) \in Seq(S)
        /\ Len(Tail(q)) = Len(q) - 1 /\ Len(q) > 0
    OBVIOUS
  <1>2. /\ Head(q) = q[1]
        /\ \A i \in 1 .. Len(q) - 1 : Tail(q)[i] = q[i + 1]
    OBVIOUS
  <1>3. ASSUME NEW e, Contains(q, e)
        PROVE  e = Head(q) \/ Contains(Tail(q), e)
    <2>1. PICK i \in 1 .. Len(q) : q[i] = e
      BY <1>3 DEF Contains
    <2>2. CASE i = 1
      BY <2>1, <2>2, <1>2
    <2>3. CASE i # 1
      <3>1. i - 1 \in 1 .. Len(q) - 1 /\ (i - 1) + 1 = i
        BY <2>3, <1>1
      <3>2. Tail(q)[i - 1] = e
        BY <3>1, <1>2, <2>1
      <3> QED
        BY <3>1, <3>2, <1>1 DEF Contains
    <2> QED
      BY <2>2, <2>3
  <1>4. ASSUME NEW e, e = Head(q) \/ Contains(Tail(q), e)
        PROVE  Contains(q, e)
    <2>1. CASE e = Head(q)
      BY <2>1, <1>1, <1>2 DEF Contains
    <2>2. CASE Contains(Tail(q), e)
      <3>1. PICK i \in 1 .. Len(q) - 1 : Tail(q)[i] = e
        BY <2>2, <1>1 DEF Contains
      <3>2. i + 1 \in 1 .. Len(q) /\ q[i + 1] = e
        BY <3>1, <1>1, <1>2
      <3> QED
        BY <3>2 DEF Contains
    <2> QED
      BY <1>4, <2>1, <2>2
  <1> QED
    BY <1>1, <1>3, <1>4

LEMMA EmptyHas == <<>> \in Seq({}) /\ Len(<<>>) = 0 /\ \A e : ~Contains(<<>>, e)
  BY DEF Contains

\* How many presses of the Power button a queue of events holds.
Presses(q) == Cardinality({i \in DOMAIN q : q[i] = SleepNow})

LEMMA PressesAreFinite ==
    ASSUME NEW S, NEW q \in Seq(S)
    PROVE  IsFiniteSet({i \in DOMAIN q : q[i] = SleepNow})
  <1>1. IsFiniteSet(1 .. Len(q))
    BY FS_Interval
  <1>2. {i \in DOMAIN q : q[i] = SleepNow} \in SUBSET (1 .. Len(q))
    OBVIOUS
  <1> QED
    BY <1>1, <1>2, FS_Subset

LEMMA PressesIsNat == ASSUME NEW S, NEW q \in Seq(S) PROVE Presses(q) \in Nat
  BY PressesAreFinite, FS_CardinalityType DEF Presses

LEMMA AppendCounts ==
    ASSUME NEW S, NEW q \in Seq(S), NEW x \in S
    PROVE  Presses(Append(q, x)) = IF x = SleepNow THEN Presses(q) + 1 ELSE Presses(q)
  <1> DEFINE A == {i \in DOMAIN q : q[i] = SleepNow}
             B == {i \in DOMAIN Append(q, x) : Append(q, x)[i] = SleepNow}
  <1>1. /\ \A i \in 1 .. Len(q) : Append(q, x)[i] = q[i]
        /\ Append(q, x)[Len(q) + 1] = x
        /\ DOMAIN Append(q, x) = (1 .. Len(q)) \cup {Len(q) + 1}
        /\ DOMAIN q = 1 .. Len(q)
        /\ Len(q) + 1 \notin 1 .. Len(q)
    OBVIOUS
  <1>2. CASE x = SleepNow
    <2>1. B = A \cup {Len(q) + 1} /\ Len(q) + 1 \notin A
      BY <1>1, <1>2
    <2>2. IsFiniteSet(A)
      BY PressesAreFinite
    <2>3. Cardinality(A \cup {Len(q) + 1}) = Cardinality(A) + 1
      <3> HIDE DEF A
      <3> QED
        BY <2>1, <2>2, FS_AddElement
    <2> QED
      BY <2>1, <2>3, <1>2 DEF Presses
  <1>3. CASE x # SleepNow
    <2>1. B = A
      BY <1>1, <1>3
    <2> QED
      BY <2>1, <1>3 DEF Presses
  <1> QED
    BY <1>2, <1>3

LEMMA TailCounts ==
    ASSUME NEW S, NEW q \in Seq(S), q # <<>>
    PROVE  Presses(q) = IF Head(q) = SleepNow THEN Presses(Tail(q)) + 1
                                              ELSE Presses(Tail(q))
  <1> DEFINE A == {i \in DOMAIN q : q[i] = SleepNow}
             B == {i \in DOMAIN Tail(q) : Tail(q)[i] = SleepNow}
             C == A \ {1}
             f == [i \in B |-> i + 1]
  <1>1. /\ DOMAIN q = 1 .. Len(q) /\ DOMAIN Tail(q) = 1 .. Len(q) - 1
        /\ Len(q) \in Nat /\ Len(q) > 0
        /\ Head(q) = q[1]
        /\ \A i \in 1 .. Len(q) - 1 : Tail(q)[i] = q[i + 1]
    OBVIOUS
  <1>2. f \in [B -> C]
    BY <1>1
  <1>3. \A i, j \in B : f[i] = f[j] => i = j
    BY <1>1
  <1>4. \A k \in C : \E i \in B : f[i] = k
    <2> SUFFICES ASSUME NEW k \in C PROVE \E i \in B : f[i] = k
      OBVIOUS
    <2>1. k - 1 \in 1 .. Len(q) - 1 /\ (k - 1) + 1 = k
      BY <1>1
    <2>2. k - 1 \in B
      BY <2>1, <1>1
    <2> QED
      BY <2>1, <2>2
  <1>5. f \in Bijection(B, C)
    BY <1>2, <1>3, <1>4 DEF Bijection, Injection, Surjection, IsInjective
  <1>6. IsFiniteSet(A) /\ IsFiniteSet(B)
    <2>1. Tail(q) \in Seq(S)
      OBVIOUS
    <2> QED
      BY <2>1, PressesAreFinite
  <1>7. Cardinality(C) = Cardinality(B)
    BY <1>5, <1>6, FS_Bijection DEF ExistsBijection
  <1>8. Cardinality(C) = IF 1 \in A THEN Cardinality(A) - 1 ELSE Cardinality(A)
    BY <1>6, FS_RemoveElement
  <1>9. 1 \in A <=> Head(q) = SleepNow
    BY <1>1
  <1>10. Cardinality(A) \in Nat /\ Cardinality(B) \in Nat
    BY <1>6, FS_CardinalityType
  <1>11. Cardinality(A) = IF Head(q) = SleepNow THEN Cardinality(B) + 1
                                                ELSE Cardinality(B)
    <2> HIDE DEF A, B, C, f
    <2> QED
      BY <1>7, <1>8, <1>9, <1>10
  <1> QED
    BY <1>11 DEF Presses

-----------------------------------------------------------------------------
(***************************************************************************)
(* Types.  With them: the presses still to be heard and the sleeps minted  *)
(* stay within the bound, and whoever has a sleep in hand has one that was *)
(* minted.                                                                 *)
(***************************************************************************)
InHandAt == {"init", "flush", "asleep", "failed", "parked", "asking"}
Holds == display.at \in InHandAt

\* The app task in the send of a press counts as one to be heard.
ToHear == Presses(events) + (IF app.at = "sleep" THEN 1 ELSE 0)

Minted ==
    /\ power.gen + ToHear <= MaxGeneration
    /\ power.at # "run" => power.gen # 0
    /\ Holds => display.gen # 0

TypeInv == TypeOK /\ Minted

LEMMA CommandTypes ==
    /\ Render \in Commands
    /\ \A g \in Generations, t \in Triggers : Sleep(g, t) \in Commands
    /\ \A c \in Commands :
          \/ c = Render /\ c.type = "render"
          \/ /\ c.type = "sleep" /\ c.gen \in Generations /\ c.trigger \in Triggers
             /\ c = Sleep(c.gen, c.trigger)
  <1>1. Render \in Commands /\ \A g \in Generations, t \in Triggers : Sleep(g, t) \in Commands
    BY DEF Commands
  <1>2. Render.type = "render"
    BY DEF Render
  <1>3. ASSUME NEW g \in Generations, NEW t \in Triggers
        PROVE  /\ Sleep(g, t).type = "sleep" /\ Sleep(g, t).gen = g
               /\ Sleep(g, t).trigger = t
    BY DEF Sleep
  <1>4. ASSUME NEW c \in Commands, c # Render
        PROVE  /\ c.type = "sleep" /\ c.gen \in Generations /\ c.trigger \in Triggers
               /\ c = Sleep(c.gen, c.trigger)
    <2>1. PICK g \in Generations, t \in Triggers : c = Sleep(g, t)
      BY <1>4 DEF Commands
    <2> QED
      BY <2>1, <1>3
  <1> QED
    BY <1>1, <1>2, <1>4

LEMMA EventTypes ==
    /\ Activity \in Events /\ BrowserActivity \in Events /\ SleepNow \in Events
    /\ Activity # SleepNow /\ BrowserActivity # SleepNow /\ Activity # BrowserActivity
    /\ \A g \in Generations, answer \in {"asleep", "failed"} :
          /\ Acked(answer, g) \in Events
          /\ Acked(answer, g).type = answer /\ Acked(answer, g).gen = g
          /\ Acked(answer, g) # SleepNow
          /\ Acked(answer, g) # Activity /\ Acked(answer, g) # BrowserActivity
  <1>1. Activity \in Events /\ BrowserActivity \in Events /\ SleepNow \in Events
    BY DEF Events
  <1>2. /\ Activity.type = "activity" /\ BrowserActivity.type = "browser"
        /\ SleepNow.type = "sleepnow"
    BY DEF Activity, BrowserActivity, SleepNow
  <1>3. ASSUME NEW g \in Generations, NEW answer \in {"asleep", "failed"}
        PROVE  /\ Acked(answer, g) \in Events
               /\ Acked(answer, g).type = answer /\ Acked(answer, g).gen = g
    BY DEF Events, Acked
  <1> QED
    BY <1>1, <1>2, <1>3

\* An event is one of the three, or an answer about a generation.
LEMMA EventKinds ==
    ASSUME NEW e \in Events, e \notin {Activity, BrowserActivity, SleepNow}
    PROVE  \E g \in Generations, answer \in {"asleep", "failed"} : e = Acked(answer, g)
  BY DEF Events

LEMMA GenerationType == Generations \subseteq Nat /\ \A n \in 0 .. MaxGeneration :
                            n \in Nat /\ (n # 0 => n \in Generations)
  BY MaxGenerationAssumption DEF Generations

LEMMA ToHearType == ASSUME TypeOK PROVE Presses(events) \in Nat /\ ToHear \in Nat
  <1>1. events \in Seq(Events)
    BY DEF TypeOK
  <1>2. Presses(events) \in Nat
    BY <1>1, PressesIsNat
  <1> QED
    BY <1>2 DEF ToHear

LEMMA PressesAsModelled == PressesToHear = Presses(events)
  BY DEF PressesToHear, Presses

\* An event that is not a press of the Power button, put in or dropped.
LEMMA OfferType ==
    ASSUME TypeOK, NEW e \in Events, e # SleepNow,
           Offer(e) \/ PlaceEvent(e)
    PROVE  /\ events' \in Seq(Events) /\ Len(events') <= EventSlots
           /\ Presses(events') = Presses(events)
  <1>1. CASE events' = Append(events, e) /\ RoomToTell
    <2>1. events \in Seq(Events) /\ Len(events) \in Nat
      BY DEF TypeOK
    <2>2. Presses(events') = Presses(events)
      BY <1>1, <2>1, AppendCounts
    <2>3. events' \in Seq(Events) /\ Len(events') = Len(events) + 1
      BY <1>1, <2>1, AppendHas
    <2> QED
      BY <1>1, <2>1, <2>2, <2>3, SlotsAssumption DEF RoomToTell
  <1>2. CASE events' = events
    BY <1>2 DEF TypeOK
  <1> QED
    BY <1>1, <1>2 DEF Offer, PlaceEvent

\* The next event, taken.
LEMMA ReceiveType ==
    ASSUME TypeOK, events # <<>>, events' = Tail(events)
    PROVE  /\ events' \in Seq(Events) /\ Len(events') <= EventSlots
           /\ Head(events) \in Events
           /\ Presses(events) = IF Head(events) = SleepNow
                                THEN Presses(events') + 1 ELSE Presses(events')
           /\ Presses(events') \in Nat
  <1>1. events \in Seq(Events) /\ Len(events) \in Nat /\ Len(events) <= EventSlots
    BY DEF TypeOK
  <1>2. /\ events' \in Seq(Events) /\ Head(events) \in Events
        /\ Len(events') = Len(events) - 1
    BY <1>1, TailHas
  <1>3. Presses(events) = IF Head(events) = SleepNow
                          THEN Presses(events') + 1 ELSE Presses(events')
    BY <1>1, TailCounts
  <1>4. Presses(events') \in Nat
    BY <1>2, PressesIsNat
  <1> QED
    BY <1>1, <1>2, <1>3, <1>4, SlotsAssumption

LEMMA CommandType ==
    ASSUME TypeOK, NEW c \in Commands, RoomToCommand, commands' = Append(commands, c)
    PROVE  commands' \in Seq(Commands) /\ Len(commands') <= CommandSlots
  BY AppendHas, SlotsAssumption DEF TypeOK, RoomToCommand

LEMMA TakeType ==
    ASSUME TypeOK, commands # <<>>
    PROVE  /\ Tail(commands) \in Seq(Commands)
           /\ Len(Tail(commands)) = Len(commands) - 1
           /\ Len(Tail(commands)) < CommandSlots
           /\ Head(commands) \in Commands
  BY TailHas, SlotsAssumption DEF TypeOK

LEMMA SendRenderType ==
    ASSUME TypeOK, NEW a, SendRender(a),
           a \in [at : {"run", "render", "sleep"}, first : BOOLEAN,
                  rendering : BOOLEAN, acks : Nat]
    PROVE  /\ commands' \in Seq(Commands) /\ Len(commands') <= CommandSlots
           /\ app' \in [at : {"run", "render", "sleep"}, first : BOOLEAN,
                        rendering : BOOLEAN, acks : Nat]
           /\ app'.at # "sleep"
  <1>1. CASE RoomToCommand
    <2>1. commands' \in Seq(Commands) /\ Len(commands') <= CommandSlots
      BY <1>1, CommandType, CommandTypes DEF SendRender
    <2> QED
      BY <1>1, <2>1 DEF SendRender
  <1>2. CASE ~RoomToCommand
    BY <1>2 DEF SendRender, TypeOK
  <1> QED
    BY <1>1, <1>2

LEMMA EnterSleepType ==
    ASSUME TypeOK, NEW t \in Triggers, power.gen < MaxGeneration, EnterSleep(t)
    PROVE  /\ commands' \in Seq(Commands) /\ Len(commands') <= CommandSlots
           /\ power' \in [at : {"run", "sending", "waiting", "settling", "pin", "off"},
                          gen : 0 .. MaxGeneration, trigger : Triggers]
           /\ power'.gen = power.gen + 1
           /\ power'.trigger = t
           /\ power'.at \in {"waiting", "sending"}
  <1>1. power.gen \in 0 .. MaxGeneration
    BY DEF TypeOK
  <1>2. power.gen + 1 \in Generations /\ power.gen + 1 \in 0 .. MaxGeneration
    BY <1>1, MaxGenerationAssumption DEF Generations
  <1>3. CASE RoomToCommand
    <2>1. commands' = Append(commands, Sleep(power.gen + 1, t))
      BY <1>3 DEF EnterSleep
    <2>2. Sleep(power.gen + 1, t) \in Commands
      BY <1>2, CommandTypes
    <2>3. commands' \in Seq(Commands) /\ Len(commands') <= CommandSlots
      BY <1>3, <2>1, <2>2, CommandType
    <2> QED
      BY <1>2, <1>3, <2>3 DEF EnterSleep
  <1>4. CASE ~RoomToCommand
    BY <1>2, <1>4 DEF EnterSleep, TypeOK
  <1> QED
    BY <1>3, <1>4

LEMMA CancelType ==
    ASSUME TypeOK, Cancel(power.gen), power.gen # 0
    PROVE  /\ cancelled' \in Seq(Generations) /\ Len(cancelled') <= RingSlots
           /\ resume' \in BOOLEAN
  <1>1. power.gen \in Generations
    BY GenerationType DEF TypeOK
  <1>2. /\ cancelled \in Seq(Generations) /\ Len(cancelled) \in Nat
        /\ Len(cancelled) <= RingSlots
    BY DEF TypeOK
  <1>3. CASE Len(cancelled) < RingSlots
    BY <1>1, <1>2, <1>3, AppendHas, SlotsAssumption DEF Cancel
  <1>4. CASE ~(Len(cancelled) < RingSlots)
    <2>1. cancelled # <<>>
      BY <1>2, <1>4, SlotsAssumption
    <2>2. Tail(cancelled) \in Seq(Generations) /\ Len(Tail(cancelled)) = Len(cancelled) - 1
      BY <1>2, <2>1, TailHas
    <2> QED
      BY <1>1, <1>2, <1>4, <2>2, AppendHas, SlotsAssumption DEF Cancel
  <1> QED
    BY <1>3, <1>4

LEMMA TypeInit == Init => TypeInv
  <1> SUFFICES ASSUME Init PROVE TypeInv
    OBVIOUS
  <1>1. /\ commands \in Seq(Commands) /\ events \in Seq(Events)
        /\ cancelled \in Seq(Generations)
        /\ Len(commands) = 0 /\ Len(events) = 0 /\ Len(cancelled) = 0
    BY DEF Init
  <1>2. TypeOK
    <2>1. 0 \in 0 .. MaxGeneration /\ "idle" \in Triggers
      BY MaxGenerationAssumption DEF Triggers
    <2>2. /\ power = Running /\ display = InLoop /\ app = Booting
          /\ browser = NoBrowser
          /\ resume \in BOOLEAN /\ unsaved \in BOOLEAN
          /\ panel \in {"none", "page", "sleep"}
      BY DEF Init
    <2> QED
      BY <1>1, <2>1, <2>2, SlotsAssumption
         DEF TypeOK, Booting, Running, InLoop, NoBrowser
  <1>3. DOMAIN events = {} /\ {i \in DOMAIN events : events[i] = SleepNow} = {}
    BY DEF Init
  <1>4. Presses(events) = 0
    BY <1>3, FS_EmptySet DEF Presses
  <1>5. ToHear = 0 /\ power.gen = 0
    BY <1>4 DEF Init, ToHear, Booting, Running
  <1>6. power.at = "run" /\ ~Holds
    BY DEF Init, Running, InLoop, Holds, InHandAt
  <1> QED
    BY <1>2, <1>5, <1>6, MaxGenerationAssumption DEF TypeInv, Minted

LEMMA RebootInit == ASSUME Reboot PROVE TypeInv'
  <1>1. /\ commands' \in Seq(Commands) /\ events' \in Seq(Events)
        /\ cancelled' \in Seq(Generations)
        /\ Len(commands') = 0 /\ Len(events') = 0 /\ Len(cancelled') = 0
    BY DEF Reboot
  <1>2. TypeOK'
    <2>1. 0 \in 0 .. MaxGeneration /\ "idle" \in Triggers
      BY MaxGenerationAssumption DEF Triggers
    <2>2. /\ power' = Running /\ display' = InLoop /\ app' = Booting
          /\ browser' = NoBrowser
          /\ resume' \in BOOLEAN /\ unsaved' \in BOOLEAN
          /\ panel' \in {"none", "page", "sleep"}
      BY DEF Reboot
    <2> QED
      BY <1>1, <2>1, <2>2, SlotsAssumption
         DEF TypeOK, Booting, Running, InLoop, NoBrowser
  <1>3. DOMAIN events' = {} /\ {i \in DOMAIN events' : events'[i] = SleepNow} = {}
    BY DEF Reboot
  <1>4. Presses(events') = 0
    BY <1>3, FS_EmptySet DEF Presses
  <1>5. ToHear' = 0 /\ power'.gen = 0
    BY <1>4 DEF Reboot, ToHear, Booting, Running
  <1>6. power'.at = "run" /\ ~Holds'
    BY DEF Reboot, Running, InLoop, Holds, InHandAt
  <1> QED
    BY <1>2, <1>5, <1>6, MaxGenerationAssumption DEF TypeInv, Minted

\* What an app step that paints may leave behind.
Painted ==
    /\ commands' \in Seq(Commands) /\ Len(commands') <= CommandSlots
    /\ app' \in [at : {"run", "render", "sleep"}, first : BOOLEAN,
                 rendering : BOOLEAN, acks : Nat]
    /\ app'.at # "sleep"

LEMMA AppType ==
    ASSUME TypeInv, App
    PROVE  TypeInv'
  <1> USE DEF TypeInv
  <1>0. /\ Presses(events) \in Nat /\ ToHear \in Nat
        /\ power.gen \in Nat /\ events \in Seq(Events)
        /\ app \in [at : {"run", "render", "sleep"}, first : BOOLEAN,
                    rendering : BOOLEAN, acks : Nat]
    BY ToHearType, MaxGenerationAssumption DEF TypeOK
  <1>1. CASE Press
    <2>1. /\ events' \in Seq(Events) /\ Len(events') <= EventSlots
          /\ Presses(events') = Presses(events)
      BY <1>1, OfferType, EventTypes DEF Press
    <2>2. Painted
      <3>1. CASE Repaint(app)
        BY <3>1, <1>0, SendRenderType DEF Repaint, Painted
      <3>2. CASE UNCHANGED <<commands, app>>
        BY <3>2, <1>1, <1>0 DEF Press, Painted, TypeOK
      <3> QED
        BY <3>1, <3>2, <1>1 DEF Press
    <2>3. ToHear' \in Nat /\ ToHear' <= ToHear
      BY <2>1, <2>2, <1>0 DEF ToHear, Painted
    <2>4. TypeOK'
      BY <2>1, <2>2, <2>3, <1>0, <1>1 DEF Press, TypeOK, Painted
    <2>5. Minted'
      BY <2>1, <2>2, <2>3, <1>0, <1>1, MaxGenerationAssumption DEF Press, Minted, Holds, Painted
    <2> QED
      BY <2>4, <2>5
  <1>2. CASE Answer
    <2>1. /\ events' \in Seq(Events) /\ Len(events') <= EventSlots
          /\ Presses(events') = Presses(events)
      BY <1>2, OfferType, EventTypes DEF Answer, TypeOK
    <2>2. Painted
      <3>1. [app EXCEPT !.first = FALSE]
              \in [at : {"run", "render", "sleep"}, first : BOOLEAN,
                   rendering : BOOLEAN, acks : Nat]
        BY <1>0
      <3>2. SendRender([app EXCEPT !.first = FALSE])
        BY <1>2 DEF Answer, Repaint
      <3> QED
        BY <3>1, <3>2, SendRenderType DEF Painted
    <2>3. ToHear' \in Nat /\ ToHear' <= ToHear
      BY <2>1, <2>2, <1>0 DEF ToHear, Painted
    <2>4. TypeOK'
      BY <2>1, <2>2, <2>3, <1>0, <1>2 DEF Answer, TypeOK, Painted
    <2>5. Minted'
      BY <2>1, <2>2, <2>3, <1>0, <1>2, MaxGenerationAssumption DEF Answer, Minted, Holds, Painted
    <2> QED
      BY <2>4, <2>5
  <1>3. CASE PowerPress
    <2>1. power.gen + Presses(events) < MaxGeneration /\ app.at = "run"
      BY <1>3, PressesAsModelled DEF PowerPress
    <2>2. CASE RoomToTell
      <3>1. events' = Append(events, SleepNow) /\ app' = app
        BY <1>3, <2>2 DEF PowerPress
      <3>2. events' \in Seq(Events) /\ Len(events') <= EventSlots
        BY <3>1, <2>2, <1>0, AppendHas, EventTypes, SlotsAssumption DEF RoomToTell
      <3>3. Presses(events') = Presses(events) + 1
        BY <3>1, <1>0, AppendCounts, EventTypes
      <3>4. ToHear' = Presses(events) + 1
        BY <3>1, <3>3, <2>1, <1>0 DEF ToHear
      <3>5. TypeOK'
        BY <3>1, <3>2, <3>4, <2>1, <1>0, <1>3 DEF PowerPress, TypeOK
      <3>6. Minted'
        BY <3>1, <3>2, <3>4, <2>1, <1>0, <1>3, MaxGenerationAssumption DEF PowerPress, Minted, Holds
      <3> QED
        BY <3>5, <3>6
    <2>3. CASE ~RoomToTell
      <3>1. events' = events /\ app' = [app EXCEPT !.at = "sleep"]
        BY <1>3, <2>3 DEF PowerPress
      <3>2. ToHear' = Presses(events) + 1
        BY <3>1, <1>0 DEF ToHear
      <3>3. TypeOK'
        BY <3>1, <3>2, <2>1, <1>0, <1>3 DEF PowerPress, TypeOK
      <3>4. Minted'
        BY <3>1, <3>2, <2>1, <1>0, <1>3, MaxGenerationAssumption DEF PowerPress, Minted, Holds
      <3> QED
        BY <3>3, <3>4
    <2> QED
      BY <2>2, <2>3
  <1>4. CASE AppSends
    <2>1. CASE app.at = "render" /\ SendRender(app) /\ UNCHANGED events
      <3>1. Painted
        BY <2>1, <1>0, SendRenderType DEF Painted
      <3>2. ToHear' \in Nat /\ ToHear' <= ToHear
        BY <2>1, <3>1, <1>0 DEF ToHear, Painted
      <3>3. TypeOK'
        BY <2>1, <3>1, <3>2, <1>0, <1>4 DEF AppSends, TypeOK, Painted
      <3>4. Minted'
        BY <2>1, <3>1, <3>2, <1>0, <1>4, MaxGenerationAssumption DEF AppSends, Minted, Holds, Painted
      <3> QED
        BY <3>3, <3>4
    <2>2. CASE /\ app.at = "sleep" /\ RoomToTell
               /\ events' = Append(events, SleepNow)
               /\ app' = [app EXCEPT !.at = "run"]
               /\ UNCHANGED commands
      <3>1. app' \in [at : {"run", "render", "sleep"}, first : BOOLEAN,
                      rendering : BOOLEAN, acks : Nat]
        BY <2>2, <1>0
      <3>2. events' \in Seq(Events) /\ Len(events') <= EventSlots
        BY <2>2, <1>0, AppendHas, EventTypes, SlotsAssumption DEF RoomToTell
      <3>3. Presses(events') = Presses(events) + 1
        BY <2>2, <1>0, AppendCounts, EventTypes
      <3>4. ToHear' = ToHear
        BY <2>2, <3>3, <1>0 DEF ToHear
      <3>5. TypeOK'
        BY <2>2, <3>1, <3>2, <3>4, <1>0, <1>4 DEF AppSends, TypeOK
      <3>6. Minted'
        BY <2>2, <3>2, <3>4, <1>0, <1>4, MaxGenerationAssumption DEF AppSends, Minted, Holds
      <3> QED
        BY <3>5, <3>6
    <2> QED
      BY <1>4, <2>1, <2>2 DEF AppSends
  <1>5. CASE AppSettled
    <2>0. app.acks - 1 \in Nat
      BY <1>5, <1>0 DEF AppSettled
    <2>1. app' \in [at : {"run", "render", "sleep"}, first : BOOLEAN,
                    rendering : BOOLEAN, acks : Nat]
      BY <2>0, <1>5, <1>0 DEF AppSettled
    <2>2. ToHear' = ToHear
      BY <1>5, <1>0 DEF AppSettled, ToHear
    <2> QED
      BY <1>5, <2>1, <2>2 DEF AppSettled, TypeOK, Minted, Holds
  <1> QED
    BY <1>1, <1>2, <1>3, <1>4, <1>5 DEF App

PowerRecords == [at : {"run", "sending", "waiting", "settling", "pin", "off"},
                 gen : 0 .. MaxGeneration, trigger : Triggers]
DisplayRecords == [at : {"loop", "render", "init", "flush", "asleep", "failed",
                         "parked", "session", "refusing", "asking"},
                   gen : 0 .. MaxGeneration, trigger : Triggers, request : BOOLEAN]
BrowserRecords == [serving : BOOLEAN, inFlight : BOOLEAN, queued : BOOLEAN]

LEMMA PowerType ==
    ASSUME TypeInv, Power \/ IdleTimeout
    PROVE  TypeInv'
  <1> USE DEF TypeInv
  <1>0. /\ Presses(events) \in Nat /\ ToHear \in Nat
        /\ power.gen \in Nat /\ events \in Seq(Events)
        /\ power \in PowerRecords
        /\ {"idle", "explicit"} \subseteq Triggers
    BY ToHearType, MaxGenerationAssumption DEF TypeOK, Triggers, PowerRecords
  <1>1. CASE PowerRuns
    <2>1. /\ events' \in Seq(Events) /\ Len(events') <= EventSlots
          /\ Presses(events) = IF Head(events) = SleepNow
                               THEN Presses(events') + 1 ELSE Presses(events')
          /\ Presses(events') \in Nat
      BY <1>1, ReceiveType DEF PowerRuns
    <2>2. CASE Head(events) = SleepNow
      <3>1. EnterSleep("explicit")
        BY <1>1, <2>2 DEF PowerRuns
      <3>2. /\ ToHear' \in Nat /\ ToHear = ToHear' + 1
            /\ app' = app
        BY <1>1, <2>1, <2>2 DEF PowerRuns, ToHear
      <3>3. power.gen < MaxGeneration
        BY <3>2, <1>0, MaxGenerationAssumption DEF Minted
      <3>4. /\ commands' \in Seq(Commands) /\ Len(commands') <= CommandSlots
            /\ power' \in PowerRecords /\ power'.gen = power.gen + 1
        BY <3>1, <3>3, <1>0, EnterSleepType DEF PowerRecords
      <3>5. TypeOK'
        BY <3>4, <2>1, <1>1 DEF PowerRuns, TypeOK, PowerRecords
      <3>6. Minted'
        BY <3>2, <3>4, <1>0, <1>1, MaxGenerationAssumption DEF PowerRuns, Minted, Holds
      <3> QED
        BY <3>5, <3>6
    <2>3. CASE Head(events) # SleepNow
      <3>1. power' = power /\ commands' = commands /\ app' = app
        BY <1>1, <2>3 DEF PowerRuns
      <3>2. ToHear' = ToHear
        BY <3>1, <2>1, <2>3 DEF ToHear
      <3>3. TypeOK'
        BY <3>1, <2>1, <1>1 DEF PowerRuns, TypeOK
      <3>4. Minted'
        BY <3>1, <3>2, <1>1 DEF PowerRuns, Minted, Holds
      <3> QED
        BY <3>3, <3>4
    <2> QED
      BY <2>2, <2>3
  <1>2. CASE IdleTimeout
    <2>1. /\ DOMAIN events = {} /\ {i \in DOMAIN events : events[i] = SleepNow} = {}
          /\ app.at # "sleep"
      BY <1>2 DEF IdleTimeout
    <2>2. Presses(events) = 0
      BY <2>1, FS_EmptySet DEF Presses
    <2>3. ToHear = 0 /\ ToHear' = 0
      BY <1>2, <2>1, <2>2 DEF ToHear, IdleTimeout
    <2>4. /\ commands' \in Seq(Commands) /\ Len(commands') <= CommandSlots
          /\ power' \in PowerRecords /\ power'.gen = power.gen + 1
      BY <1>2, <1>0, EnterSleepType DEF PowerRecords, IdleTimeout
    <2>5. TypeOK'
      BY <2>4, <1>2 DEF IdleTimeout, TypeOK, PowerRecords
    <2>6. Minted'
      BY <2>3, <2>4, <1>0, <1>2, MaxGenerationAssumption
         DEF IdleTimeout, Minted, Holds, PowerRecords
    <2> QED
      BY <2>5, <2>6
  <1>3. CASE PowerSends
    <2>1. power.gen \in Generations /\ power.trigger \in Triggers
      BY <1>3, <1>0, GenerationType DEF PowerSends, Minted, PowerRecords
    <2>2. commands' \in Seq(Commands) /\ Len(commands') <= CommandSlots
      BY <1>3, <2>1, CommandType, CommandTypes DEF PowerSends
    <2>3. power' \in PowerRecords /\ power'.gen = power.gen
      BY <1>3, <1>0 DEF PowerSends, PowerRecords
    <2>4. TypeOK'
      BY <2>2, <2>3, <1>3 DEF PowerSends, TypeOK, PowerRecords
    <2>5. Minted'
      BY <2>3, <1>3 DEF PowerSends, Minted, Holds, ToHear
    <2> QED
      BY <2>4, <2>5
  <1>4. ASSUME PowerWaits \/ PowerSettles
        PROVE  TypeInv'
    <2>1. /\ events' \in Seq(Events) /\ Len(events') <= EventSlots
          /\ Presses(events) = IF Head(events) = SleepNow
                               THEN Presses(events') + 1 ELSE Presses(events')
          /\ Presses(events') \in Nat
      BY <1>4, ReceiveType DEF PowerWaits, PowerSettles
    <2>2. ToHear' \in Nat /\ ToHear' <= ToHear
      BY <2>1, <1>0, <1>4 DEF ToHear, PowerWaits, PowerSettles
    <2>3. power' \in PowerRecords /\ power'.gen = power.gen
      BY <1>0, <1>4 DEF PowerWaits, PowerSettles, StayAwake, PowerHears, PowerRecords
    <2>4. /\ cancelled' \in Seq(Generations) /\ Len(cancelled') <= RingSlots
          /\ resume' \in BOOLEAN
      <3>1. CASE Cancel(power.gen)
        <4>1. power.gen # 0
          BY <1>4 DEF Minted, PowerWaits, PowerSettles
        <4> QED
          BY <3>1, <4>1, CancelType
      <3>2. CASE UNCHANGED <<cancelled, resume>>
        BY <3>2 DEF TypeOK
      <3> QED
        BY <3>1, <3>2, <1>4 DEF PowerWaits, PowerSettles
    <2>5. UNCHANGED <<commands, app, display, panel, unsaved, browser>>
      BY <1>4 DEF PowerWaits, PowerSettles
    <2>6. TypeOK'
      BY <2>1, <2>3, <2>4, <2>5 DEF TypeOK, PowerRecords
    <2>7. Minted'
      BY <1>4, <2>2, <2>3, <2>5, <1>0, MaxGenerationAssumption
         DEF Minted, Holds, PowerWaits, PowerSettles
    <2> QED
      BY <2>6, <2>7
  <1>5. CASE SettleEnds \/ PowerDown
    <2>1. power' \in PowerRecords /\ power'.gen = power.gen /\ power.at # "run"
      BY <1>5, <1>0 DEF SettleEnds, PowerDown, PowerRecords
    <2>2. UNCHANGED <<commands, events, cancelled, resume, app, display, panel,
                      unsaved, browser>>
      BY <1>5 DEF SettleEnds, PowerDown
    <2>3. TypeOK'
      BY <2>1, <2>2 DEF TypeOK, PowerRecords
    <2>4. Minted'
      BY <2>1, <2>2 DEF Minted, Holds, ToHear
    <2> QED
      BY <2>3, <2>4
  <1> QED
    BY <1>1, <1>2, <1>3, <1>4, <1>5 DEF Power

LEMMA HoldingType ==
    ASSUME TypeInv, NEW sleep, sleep.gen \in 0 .. MaxGeneration, sleep.gen # 0,
           sleep.trigger \in Triggers, NEW request \in BOOLEAN,
           NEW place \in InHandAt, Holding(place, sleep, request)
    PROVE  display' \in DisplayRecords /\ (Holds' => display'.gen # 0)
  BY DEF Holding, DisplayRecords, InHandAt, Holds

LEMMA InLoopType ==
    /\ InLoop \in DisplayRecords /\ InLoop.at \notin InHandAt
    /\ BackToLoop => display' \in DisplayRecords /\ ~Holds'
  <1>1. 0 \in 0 .. MaxGeneration /\ "idle" \in Triggers
    BY MaxGenerationAssumption DEF Triggers
  <1>2. InLoop \in DisplayRecords /\ InLoop.at = "loop"
    BY <1>1 DEF InLoop, DisplayRecords
  <1>3. "loop" \notin InHandAt
    BY DEF InHandAt
  <1> QED
    BY <1>2, <1>3 DEF BackToLoop, Holds

LEMMA AtType ==
    ASSUME TypeInv, NEW place \in {"loop", "render", "init", "flush", "asleep",
                "failed", "parked", "session", "refusing", "asking"},
           At(place), place \in InHandAt => Holds
    PROVE  display' \in DisplayRecords /\ (Holds' => display'.gen # 0)
  BY DEF At, DisplayRecords, TypeInv, TypeOK, Minted, Holds

LEMMA ParkType ==
    ASSUME TypeInv, Holds, Park
    PROVE  /\ commands' \in Seq(Commands) /\ Len(commands') <= CommandSlots
           /\ display' \in DisplayRecords /\ (Holds' => display'.gen # 0)
  <1>1. CASE IsCancelled(display.gen)
    <2>1. BackToLoop /\ \/ commands' = commands
                        \/ commands = <<>> /\ commands' = Append(commands, Render)
      BY <1>1 DEF Park, Restore
    <2>2. commands' \in Seq(Commands) /\ Len(commands') <= CommandSlots
      <3>1. CASE commands' = commands
        BY <3>1 DEF TypeInv, TypeOK
      <3>2. CASE commands = <<>> /\ commands' = Append(commands, Render)
        <4>1. RoomToCommand
          BY <3>2, SlotsAssumption DEF RoomToCommand
        <4> QED
          BY <3>2, <4>1, CommandType, CommandTypes DEF TypeInv
      <3> QED
        BY <2>1, <3>1, <3>2
    <2> QED
      BY <2>1, <2>2, InLoopType
  <1>2. CASE ~IsCancelled(display.gen)
    <2>1. At("parked") /\ commands' = commands
      BY <1>2 DEF Park
    <2> QED
      BY <2>1, AtType DEF TypeInv, TypeOK
  <1> QED
    BY <1>1, <1>2

\* A display step keeps the types when it keeps those of what it touches.
LEMMA DisplayStep ==
    ASSUME TypeInv, UNCHANGED <<cancelled, power>>,
           commands' \in Seq(Commands), Len(commands') <= CommandSlots,
           events' \in Seq(Events), Len(events') <= EventSlots,
           Presses(events') = Presses(events),
           resume' \in BOOLEAN, unsaved' \in BOOLEAN,
           app' \in [at : {"run", "render", "sleep"}, first : BOOLEAN,
                     rendering : BOOLEAN, acks : Nat],
           app'.at = app.at,
           display' \in DisplayRecords, Holds' => display'.gen # 0,
           panel' \in {"none", "page", "sleep"},
           browser' \in BrowserRecords
    PROVE  TypeInv'
  <1>1. TypeOK'
    BY DEF TypeInv, TypeOK, DisplayRecords, BrowserRecords
  <1>2. Minted'
    BY DEF TypeInv, Minted, ToHear
  <1> QED
    BY <1>1, <1>2 DEF TypeInv

LEMMA DisplayType ==
    ASSUME TypeInv, Display
    PROVE  TypeInv'
  <1>0. /\ commands \in Seq(Commands) /\ Len(commands) <= CommandSlots
        /\ events \in Seq(Events) /\ Len(events) <= EventSlots
        /\ resume \in BOOLEAN /\ unsaved \in BOOLEAN
        /\ app \in [at : {"run", "render", "sleep"}, first : BOOLEAN,
                    rendering : BOOLEAN, acks : Nat]
        /\ display \in DisplayRecords /\ (Holds => display.gen # 0)
        /\ panel \in {"none", "page", "sleep"}
        /\ browser \in BrowserRecords
    BY DEF TypeInv, TypeOK, Minted, DisplayRecords, BrowserRecords
  <1>1. CASE TakeRender
    <2>1. commands' \in Seq(Commands) /\ Len(commands') <= CommandSlots
      BY <1>1, TakeType, SlotsAssumption DEF TakeRender, Takes, TypeInv
    <2>2. display' \in DisplayRecords /\ (Holds' => display'.gen # 0)
      BY <1>1, AtType DEF TakeRender, InHandAt
    <2> QED
      BY <1>0, <1>1, <2>1, <2>2, DisplayStep DEF TakeRender
  <1>2. CASE RenderSettles
    <2>1. app' \in [at : {"run", "render", "sleep"}, first : BOOLEAN,
                    rendering : BOOLEAN, acks : Nat] /\ app'.at = app.at
      BY <1>0, <1>2 DEF RenderSettles
    <2>2. display' \in DisplayRecords /\ ~Holds'
      BY <1>2, InLoopType DEF RenderSettles
    <2> QED
      BY <1>0, <1>2, <2>1, <2>2, DisplayStep DEF RenderSettles
  <1>3. CASE TakeSleep
    <2>1. /\ commands' \in Seq(Commands) /\ Len(commands') <= CommandSlots
          /\ Head(commands) \in Commands /\ Head(commands).type = "sleep"
      BY <1>3, TakeType, SlotsAssumption DEF TakeSleep, Takes, TypeInv
    <2> DEFINE sleep == Head(commands)
    <2>2. sleep.gen \in 0 .. MaxGeneration /\ sleep.gen # 0 /\ sleep.trigger \in Triggers
      BY <2>1, CommandTypes DEF Render, Generations
    <2>3. /\ display' \in DisplayRecords /\ (Holds' => display'.gen # 0)
          /\ unsaved' \in BOOLEAN
      <3>1. CASE SkipSleep(sleep)
        BY <3>1, <1>0 DEF SkipSleep, Holds
      <3>2. CASE RefuseSleep(sleep)
        <4>1. Holding("failed", sleep, FALSE) /\ "failed" \in InHandAt
          BY <3>2 DEF RefuseSleep, InHandAt
        <4> HIDE DEF sleep
        <4> QED
          BY <3>2, <4>1, <2>2, <1>0, HoldingType DEF RefuseSleep
      <3>3. CASE DrainToCard(sleep)
        <4>1. PICK place \in InHandAt, saved \in BOOLEAN :
                 Holding(place, sleep, panel = "page" \/ saved)
          BY <3>3 DEF DrainToCard, InHandAt
        <4>2. (panel = "page" \/ saved) \in BOOLEAN
          OBVIOUS
        <4>3. unsaved' \in BOOLEAN
          BY <3>3 DEF DrainToCard
        <4> HIDE DEF sleep
        <4> QED
          BY <4>1, <4>2, <4>3, <2>2, HoldingType
      <3> QED
        BY <1>3, <3>1, <3>2, <3>3 DEF TakeSleep
    <2> QED
      BY <1>0, <1>3, <2>1, <2>3, DisplayStep DEF TakeSleep
  <1>4. CASE PanelReady
    <2>1. display' \in DisplayRecords /\ (Holds' => display'.gen # 0)
      BY <1>4, AtType, InLoopType DEF PanelReady, Holds, InHandAt
    <2> QED
      BY <1>0, <1>4, <2>1, DisplayStep DEF PanelReady
  <1>5. CASE PanelSleeps
    <2>1. Holds
      BY <1>5 DEF PanelSleeps, Holds, InHandAt
    <2>2. At("asleep") \/ At("failed")
      BY <1>5 DEF PanelSleeps
    <2>3. display' \in DisplayRecords /\ (Holds' => display'.gen # 0)
      BY <2>1, <2>2, AtType
    <2>4. panel' \in {"none", "page", "sleep"}
      BY <1>5 DEF PanelSleeps
    <2> QED
      BY <1>0, <1>5, <2>3, <2>4, DisplayStep DEF PanelSleeps
  <1>6. CASE Refused
    <2>1. display.gen \in Generations
      BY <1>6, <1>0, GenerationType DEF Refused, Holds, InHandAt, DisplayRecords
    <2>2. /\ events' \in Seq(Events) /\ Len(events') <= EventSlots
          /\ Presses(events') = Presses(events)
      BY <1>6, <2>1, OfferType, EventTypes DEF Refused, TypeInv
    <2>3. display' \in DisplayRecords /\ ~Holds'
      BY <1>6, InLoopType DEF Refused
    <2> QED
      BY <1>0, <1>6, <2>2, <2>3, DisplayStep DEF Refused
  <1>7. CASE Acknowledge
    <2>1. display.gen \in Generations /\ Holds
      BY <1>7, <1>0, GenerationType DEF Acknowledge, Holds, InHandAt, DisplayRecords
    <2>2. /\ events' \in Seq(Events) /\ Len(events') <= EventSlots
          /\ Presses(events') = Presses(events)
      BY <1>7, <2>1, OfferType, EventTypes DEF Acknowledge, TypeInv
    <2>3. /\ commands' \in Seq(Commands) /\ Len(commands') <= CommandSlots
          /\ display' \in DisplayRecords /\ (Holds' => display'.gen # 0)
      BY <1>7, <2>1, ParkType DEF Acknowledge
    <2> QED
      BY <1>0, <1>7, <2>2, <2>3, DisplayStep DEF Acknowledge
  <1>8. CASE ParkedResumes
    <2>1. Holds
      BY <1>8 DEF ParkedResumes, Holds, InHandAt
    <2>3. /\ commands' \in Seq(Commands) /\ Len(commands') <= CommandSlots
          /\ display' \in DisplayRecords /\ (Holds' => display'.gen # 0)
      BY <1>8, <2>1, ParkType DEF ParkedResumes
    <2> QED
      BY <1>0, <1>8, <2>3, DisplayStep DEF ParkedResumes
  <1>9. CASE ParkCeiling
    <2>1. display' \in DisplayRecords /\ ~Holds'
      BY <1>9, InLoopType DEF ParkCeiling
    <2> QED
      BY <1>0, <1>9, <2>1, DisplayStep DEF ParkCeiling
  <1> QED
    BY <1>1, <1>2, <1>3, <1>4, <1>5, <1>6, <1>7, <1>8, <1>9 DEF Display

LEMMA SleepInHandType ==
    ASSUME NEW c \in Commands, c.type = "sleep"
    PROVE  c.gen \in Generations /\ c.trigger \in Triggers /\ c = Sleep(c.gen, c.trigger)
  BY CommandTypes DEF Render

LEMMA FinishSessionType ==
    ASSUME NEW sleep, sleep.gen \in Generations, sleep.trigger \in Triggers,
           NEW queue \in Seq(Commands), FinishSession(sleep, queue)
    PROVE  /\ commands' \in Seq(Commands) /\ Len(commands') <= CommandSlots
           /\ display' \in DisplayRecords /\ ~Holds'
  <1>1. Sleep(sleep.gen, sleep.trigger) \in Commands
    BY CommandTypes
  <1>2. /\ commands' = Append(queue, Sleep(sleep.gen, sleep.trigger))
        /\ Len(queue) < CommandSlots /\ BackToLoop
    BY DEF FinishSession
  <1>3. commands' \in Seq(Commands) /\ Len(commands') = Len(queue) + 1
    BY <1>1, <1>2, AppendHas
  <1> QED
    BY <1>2, <1>3, InLoopType, SlotsAssumption

LEMMA SessionType ==
    ASSUME TypeInv, Session
    PROVE  TypeInv'
  <1>0. /\ commands \in Seq(Commands) /\ Len(commands) <= CommandSlots
        /\ events \in Seq(Events) /\ Len(events) <= EventSlots
        /\ resume \in BOOLEAN /\ unsaved \in BOOLEAN
        /\ app \in [at : {"run", "render", "sleep"}, first : BOOLEAN,
                    rendering : BOOLEAN, acks : Nat]
        /\ display \in DisplayRecords /\ (Holds => display.gen # 0)
        /\ panel \in {"none", "page", "sleep"}
        /\ browser \in BrowserRecords
    BY DEF TypeInv, TypeOK, Minted, DisplayRecords, BrowserRecords
  <1>1. CASE UploadSession
    <2>1. display' \in DisplayRecords /\ (Holds' => display'.gen # 0)
      BY <1>1, AtType DEF UploadSession, InHandAt
    <2>2. browser' \in BrowserRecords
      BY <1>0, <1>1 DEF UploadSession, BrowserRecords
    <2> QED
      BY <1>0, <1>1, <2>1, <2>2, DisplayStep DEF UploadSession
  <1>2. CASE DiscardRender
    <2>1. commands' \in Seq(Commands) /\ Len(commands') <= CommandSlots
      BY <1>2, TakeType, SlotsAssumption DEF DiscardRender, Takes, TypeInv
    <2>2. UNCHANGED <<app, display, power>>
      BY <1>2 DEF DiscardRender, tasks
    <2> QED
      BY <1>0, <1>2, <2>1, <2>2, DisplayStep DEF DiscardRender, Holds
  <1>3. CASE SessionSleep
    <2> DEFINE sleep == Head(commands)
    <2>1. /\ Tail(commands) \in Seq(Commands) /\ Len(Tail(commands)) <= CommandSlots
          /\ sleep \in Commands /\ sleep.type = "sleep"
      BY <1>3, TakeType, SlotsAssumption DEF SessionSleep, Takes, TypeInv
    <2>2. sleep.gen \in Generations /\ sleep.trigger \in Triggers
      BY <2>1, SleepInHandType
    <2>3. sleep.gen \in 0 .. MaxGeneration /\ sleep.gen # 0
      BY <2>2 DEF Generations
    <2> HIDE DEF sleep
    <2>4. CASE commands' = Tail(commands) /\ UNCHANGED <<events, display>>
      BY <1>0, <1>3, <2>1, <2>4, DisplayStep DEF SessionSleep, Holds
    <2>5. CASE /\ Offer(BrowserActivity) /\ Holding("asking", sleep, FALSE)
               /\ commands' = Tail(commands)
      <3>1. /\ events' \in Seq(Events) /\ Len(events') <= EventSlots
            /\ Presses(events') = Presses(events)
        BY <2>5, OfferType, EventTypes DEF TypeInv
      <3>2. display' \in DisplayRecords /\ (Holds' => display'.gen # 0)
        BY <2>2, <2>3, <2>5, HoldingType DEF InHandAt
      <3> QED
        BY <1>0, <1>3, <2>1, <2>5, <3>1, <3>2, DisplayStep DEF SessionSleep
    <2>6. CASE FinishSession(sleep, Tail(commands)) /\ UNCHANGED events
      <3>1. /\ commands' \in Seq(Commands) /\ Len(commands') <= CommandSlots
            /\ display' \in DisplayRecords /\ ~Holds'
        BY <2>1, <2>2, <2>6, FinishSessionType
      <3> QED
        BY <1>0, <1>3, <2>6, <3>1, DisplayStep DEF SessionSleep
    <2> QED
      BY <1>3, <2>4, <2>5, <2>6 DEF SessionSleep, sleep
  <1>4. CASE Asked
    <2>1. display.gen \in Generations /\ display.trigger \in Triggers
      BY <1>4, <1>0, GenerationType DEF Asked, Holds, InHandAt, DisplayRecords
    <2>2. /\ commands' \in Seq(Commands) /\ Len(commands') <= CommandSlots
          /\ display' \in DisplayRecords /\ ~Holds'
      <3>1. CASE IsCancelled(display.gen)
        <4>1. BackToSession /\ commands' = commands
          BY <1>4, <3>1 DEF Asked
        <4>2. display' \in DisplayRecords /\ display'.at = "session"
          BY <4>1, InLoopType DEF BackToSession, DisplayRecords
        <4> QED
          BY <1>0, <4>1, <4>2 DEF Holds, InHandAt
      <3>2. CASE ~IsCancelled(display.gen)
        BY <1>0, <1>4, <2>1, <3>2, FinishSessionType DEF Asked
      <3> QED
        BY <3>1, <3>2
    <2>3. resume' \in BOOLEAN
      BY <1>4 DEF Asked
    <2> QED
      BY <1>0, <1>4, <2>2, <2>3, DisplayStep DEF Asked
  <1> QED
    BY <1>1, <1>2, <1>3, <1>4 DEF Session

LEMMA WifiType ==
    ASSUME TypeInv, Wifi
    PROVE  TypeInv'
  <1>0. /\ commands \in Seq(Commands) /\ Len(commands) <= CommandSlots
        /\ events \in Seq(Events) /\ Len(events) <= EventSlots
        /\ resume \in BOOLEAN /\ unsaved \in BOOLEAN
        /\ app \in [at : {"run", "render", "sleep"}, first : BOOLEAN,
                    rendering : BOOLEAN, acks : Nat]
        /\ display \in DisplayRecords /\ (Holds => display.gen # 0)
        /\ panel \in {"none", "page", "sleep"}
        /\ browser \in BrowserRecords
    BY DEF TypeInv, TypeOK, Minted, DisplayRecords, BrowserRecords
  <1>1. CASE NoteActivity
    <2>1. /\ events' \in Seq(Events) /\ Len(events') <= EventSlots
          /\ Presses(events') = Presses(events)
      BY <1>1, OfferType, EventTypes DEF NoteActivity, TypeInv
    <2> QED
      BY <1>0, <1>1, <2>1, DisplayStep DEF NoteActivity, tasks, Holds
  <1>2. CASE Serve \/ Request \/ EnsureSession \/ RequestEnds
    <2>1. browser' \in BrowserRecords /\ unsaved' \in BOOLEAN
      BY <1>0, <1>2 DEF Serve, Request, EnsureSession, RequestEnds, BrowserRecords
    <2>2. UNCHANGED <<commands, events, cancelled, resume, app, power, display, panel>>
      BY <1>2 DEF Serve, Request, EnsureSession, RequestEnds, tasks
    <2> QED
      BY <1>0, <2>1, <2>2, DisplayStep DEF Holds
  <1>3. CASE Exit
    BY <1>3, RebootInit DEF Exit
  <1> QED
    BY <1>1, <1>2, <1>3 DEF Wifi

\* Every step keeps the types, and so does standing still.
LEMMA TypeStep ==
    ASSUME TypeInv, [Next]_vars
    PROVE  TypeInv'
  <1>1. CASE UNCHANGED vars
    BY <1>1 DEF vars, tasks, TypeInv, TypeOK, Minted, ToHear, Holds
  <1>2. CASE Wake
    BY <1>2, RebootInit DEF Wake
  <1> QED
    BY <1>1, <1>2, AppType, PowerType, DisplayType, SessionType, WifiType
       DEF Next, Handshake

\* The queues never hold more than their slots, a sleep always has a generation
\* the bound allows, and every task is somewhere it can be.
THEOREM SleepTypes == WirelessSpec => []TypeOK
  <1>1. TypeInv /\ [Next]_vars => TypeInv'
    BY TypeStep
  <1>2. TypeInv => TypeOK
    BY DEF TypeInv
  <1> QED
    BY TypeInit, <1>1, <1>2, PTL DEF WirelessSpec

-----------------------------------------------------------------------------
(***************************************************************************)
(* The panel is down before the power goes.  What makes it so is that a    *)
(* generation names one sleep: whatever is queued, answered, called off or *)
(* in hand is of a generation that was sent, and the one under way has not *)
(* been called off.                                                        *)
(***************************************************************************)
\* Queue q holds the sleep of generation g, or an answer about it.
SleepIn(q, g)       == \E t \in Triggers : Contains(q, Sleep(g, t))
AckIn(q, answer, g) == Contains(q, Acked(answer, g))
Answers             == {"asleep", "failed"}

\* While the power task stands in the send nobody has heard of its generation.
Sent(g) == g <= power.gen /\ (power.at = "sending" => g < power.gen)

AllSent ==
    /\ \A g \in Generations : SleepIn(commands, g) => Sent(g)
    /\ \A g \in Generations, answer \in Answers : AckIn(events, answer, g) => Sent(g)
    /\ Sent(display.gen)

\* The generation under way has not been called off.
NotCalledOff ==
    \A g \in Generations : IsCancelled(g) =>
        g <= power.gen /\ (power.at # "run" => g < power.gen)

\* A sleep image about to be answered for, or waiting behind its answer, is up.
ImageIsUp == display.at \in {"asleep", "parked"} => panel = "sleep"

\* The answer the power task waits for is from a display that stands still
\* behind it.
AnsweredBehind ==
    power.at = "waiting" /\ AckIn(events, "asleep", power.gen) =>
        display.at = "parked" /\ display.gen = power.gen

Down    == AllSent /\ NotCalledOff /\ ImageIsUp /\ AnsweredBehind /\ PanelIsDown
DownInv == TypeInv /\ Down

LEMMA SleepAppend ==
    ASSUME NEW q \in Seq(Commands), NEW c \in Commands, NEW g \in Generations
    PROVE  SleepIn(Append(q, c), g) <=> SleepIn(q, g) \/ (c.type = "sleep" /\ c.gen = g)
  <1>1. \A t \in Triggers : Contains(Append(q, c), Sleep(g, t))
                               <=> Contains(q, Sleep(g, t)) \/ Sleep(g, t) = c
    BY AppendHas
  <1>2. (\E t \in Triggers : Sleep(g, t) = c) <=> c.type = "sleep" /\ c.gen = g
    <2>1. \A t \in Triggers : Sleep(g, t).type = "sleep" /\ Sleep(g, t).gen = g
      BY DEF Sleep
    <2> QED
      BY <2>1, SleepInHandType
  <1> QED
    BY <1>1, <1>2 DEF SleepIn

LEMMA SleepTail ==
    ASSUME NEW q \in Seq(Commands), q # <<>>, NEW g \in Generations
    PROVE  SleepIn(q, g) <=> SleepIn(Tail(q), g)
                                \/ (Head(q).type = "sleep" /\ Head(q).gen = g)
  <1>1. /\ Head(q) \in Commands
        /\ \A t \in Triggers : Contains(q, Sleep(g, t))
              <=> Contains(Tail(q), Sleep(g, t)) \/ Sleep(g, t) = Head(q)
    BY TailHas
  <1>2. (\E t \in Triggers : Sleep(g, t) = Head(q))
           <=> Head(q).type = "sleep" /\ Head(q).gen = g
    <2>1. \A t \in Triggers : Sleep(g, t).type = "sleep" /\ Sleep(g, t).gen = g
      BY DEF Sleep
    <2> QED
      BY <1>1, <2>1, SleepInHandType
  <1> QED
    BY <1>1, <1>2 DEF SleepIn

LEMMA RenderIsNoSleep == Render.type # "sleep" /\ Render \in Commands
  BY CommandTypes DEF Render

LEMMA SleepIsSleep ==
    ASSUME NEW g \in Generations, NEW t \in Triggers
    PROVE  /\ Sleep(g, t) \in Commands
           /\ Sleep(g, t).type = "sleep" /\ Sleep(g, t).gen = g /\ Sleep(g, t).trigger = t
  BY CommandTypes DEF Sleep

\* An event that is no answer tells of no answer.
LEMMA AckAppend ==
    ASSUME TypeOK, NEW e \in Events
    PROVE  \A g \in Generations, answer \in Answers :
              AckIn(Append(events, e), answer, g)
                 <=> AckIn(events, answer, g) \/ e = Acked(answer, g)
  BY AppendHas DEF TypeOK, AckIn

LEMMA AckTail ==
    ASSUME TypeOK, events # <<>>
    PROVE  \A g \in Generations, answer \in Answers :
              AckIn(events, answer, g)
                 <=> AckIn(Tail(events), answer, g) \/ Head(events) = Acked(answer, g)
  BY TailHas DEF TypeOK, AckIn

LEMMA NoAck ==
    ASSUME NEW g \in Generations, NEW answer \in Answers
    PROVE  Acked(answer, g) \notin {Activity, BrowserActivity, SleepNow}
  BY EventTypes DEF Answers

LEMMA AckIsOne ==
    ASSUME NEW g \in Generations, NEW h \in Generations,
           NEW a \in Answers, NEW b \in Answers, Acked(a, g) = Acked(b, h)
    PROVE  a = b /\ g = h
  BY EventTypes DEF Answers

\* No answer in the queue that was not there before.
NoNewAck == \A g \in Generations, answer \in Answers :
                AckIn(events', answer, g) => AckIn(events, answer, g)
NoNewSleep == \A g \in Generations : SleepIn(commands', g) => SleepIn(commands, g)

LEMMA OfferTells ==
    ASSUME TypeOK, NEW e \in {Activity, BrowserActivity, SleepNow},
           \/ Offer(e) \/ events' = Append(events, e) \/ events' = events
    PROVE  NoNewAck
  <1>1. e \in Events
    BY EventTypes
  <1>2. CASE events' = Append(events, e)
    BY <1>1, <1>2, AckAppend, NoAck DEF NoNewAck
  <1>3. CASE events' = events
    BY <1>3 DEF NoNewAck
  <1> QED
    BY <1>2, <1>3 DEF Offer

LEMMA ReceiveTells ==
    ASSUME TypeOK, events # <<>>, events' = Tail(events)
    PROVE  NoNewAck
  BY AckTail DEF NoNewAck

LEMMA TakeTells ==
    ASSUME TypeOK, commands # <<>>, commands' = Tail(commands)
    PROVE  NoNewSleep
  BY SleepTail DEF NoNewSleep, TypeOK

LEMMA RenderTells ==
    ASSUME TypeOK, commands' = Append(commands, Render) \/ commands' = commands
    PROVE  NoNewSleep
  <1>1. CASE commands' = Append(commands, Render)
    BY <1>1, SleepAppend, RenderIsNoSleep DEF NoNewSleep, TypeOK
  <1>2. CASE commands' = commands
    BY <1>2 DEF NoNewSleep
  <1> QED
    BY <1>1, <1>2

LEMMA SendRenderTells ==
    ASSUME TypeOK, NEW a, SendRender(a)
    PROVE  NoNewSleep
  BY RenderTells DEF SendRender

\* Steps that concern no sleep.
LEMMA DownStill ==
    ASSUME DownInv, NoNewAck, NoNewSleep,
           UNCHANGED <<power, display, panel, cancelled>>
    PROVE  Down'
  <1>1. AllSent'
    BY DEF DownInv, Down, AllSent, Sent, NoNewAck, NoNewSleep
  <1>2. NotCalledOff' /\ ImageIsUp' /\ PanelIsDown'
    BY DEF DownInv, Down, NotCalledOff, ImageIsUp, PanelIsDown, IsCancelled
  <1>3. AnsweredBehind'
    <2>1. power.at = "waiting" => power.gen \in Generations
      BY GenerationType DEF DownInv, TypeInv, TypeOK, Minted
    <2> QED
      BY <2>1 DEF DownInv, Down, AnsweredBehind, NoNewAck, Answers
  <1> QED
    BY <1>1, <1>2, <1>3 DEF Down

LEMMA DownReboot == ASSUME Reboot, TypeInv PROVE Down'
  <1>1. \A e : ~Contains(<<>>, e)
    BY EmptyHas
  <1>2. power' = Running /\ display' = InLoop
    BY DEF Reboot
  <1> QED
    BY <1>1, <1>2 DEF Reboot, Running, InLoop, Down, AllSent, NotCalledOff, ImageIsUp,
       AnsweredBehind, PanelIsDown, IsCancelled, SleepIn, AckIn, Sent

LEMMA DownInit == ASSUME Init PROVE Down
  <1>1. \A e : ~Contains(<<>>, e)
    BY EmptyHas
  <1> QED
    BY <1>1 DEF Init, Running, InLoop, Down, AllSent, NotCalledOff, ImageIsUp,
       AnsweredBehind, PanelIsDown, IsCancelled, SleepIn, AckIn, Sent

LEMMA DownApp ==
    ASSUME DownInv, App
    PROVE  Down'
  <1>0. TypeOK
    BY DEF DownInv, TypeInv
  <1>1. NoNewSleep
    <2>1. CASE \E a : SendRender(a)
      BY <1>0, <2>1, SendRenderTells
    <2>2. CASE commands' = commands
      BY <1>0, <2>2, RenderTells
    <2> QED
      BY <2>1, <2>2 DEF App, Press, Answer, PowerPress, AppSends, AppSettled, Repaint
  <1>2. NoNewAck
    BY <1>0, OfferTells DEF App, Press, Answer, PowerPress, AppSends, AppSettled
  <1>3. UNCHANGED <<power, display, panel, cancelled>>
    BY DEF App, Press, Answer, PowerPress, AppSends, AppSettled
  <1> QED
    BY <1>1, <1>2, <1>3, DownStill

\* A new generation is above everything that is about.
LEMMA DownEnters ==
    ASSUME DownInv, NEW t \in Triggers, EnterSleep(t), power.gen < MaxGeneration,
           power.at = "run", NoNewAck, UNCHANGED <<cancelled, display, panel>>
    PROVE  Down'
  <1> DEFINE new == power.gen + 1
  <1>0. TypeOK /\ power.gen \in Nat /\ new \in Generations /\ display.gen \in Nat
    BY MaxGenerationAssumption DEF DownInv, TypeInv, TypeOK, Generations
  <1>1. power'.gen = new /\ power'.at \in {"waiting", "sending"}
    BY <1>0, EnterSleepType
  <1>2. \A g \in Generations : SleepIn(commands', g) =>
            SleepIn(commands, g) \/ (g = new /\ power'.at = "waiting")
    <2>1. CASE RoomToCommand
      <3>1. commands' = Append(commands, Sleep(new, t)) /\ power'.at = "waiting"
        BY <2>1 DEF EnterSleep
      <3>2. Sleep(new, t) \in Commands /\ Sleep(new, t).gen = new
        BY <1>0, SleepIsSleep
      <3> QED
        BY <1>0, <3>1, <3>2, SleepAppend DEF TypeOK
    <2>2. CASE ~RoomToCommand
      BY <2>2 DEF EnterSleep
    <2> QED
      BY <2>1, <2>2
  <1>3. \A g \in Generations : g \in Nat /\ (Sent(g) => g < new)
    BY <1>0, GenerationType DEF Sent
  <1>4. Sent(display.gen) /\ display.gen < new
    BY <1>0 DEF DownInv, Down, AllSent, Sent
  <1>5. AllSent'
    BY <1>0, <1>1, <1>2, <1>3, <1>4 DEF DownInv, Down, AllSent, Sent, NoNewAck
  <1>6. NotCalledOff'
    BY <1>0, <1>1, GenerationType DEF DownInv, Down, NotCalledOff, IsCancelled
  <1>7. ImageIsUp' /\ PanelIsDown'
    BY <1>1 DEF DownInv, Down, ImageIsUp, PanelIsDown
  <1>8. AnsweredBehind'
    <2>1. ~AckIn(events', "asleep", new)
      BY <1>0, <1>3 DEF NoNewAck, DownInv, Down, AllSent, Answers
    <2> QED
      BY <1>1, <2>1 DEF AnsweredBehind
  <1> QED
    BY <1>5, <1>6, <1>7, <1>8 DEF Down

\* The ring takes up the generation under way, and nothing else.
LEMMA CancelHas ==
    ASSUME TypeOK, Cancel(power.gen), power.gen # 0
    PROVE  /\ \A g : Contains(cancelled', g) => Contains(cancelled, g) \/ g = power.gen
           /\ Contains(cancelled', power.gen)
           /\ Len(cancelled) < RingSlots =>
                 \A g : Contains(cancelled, g) => Contains(cancelled', g)
  <1>1. power.gen \in Generations
    BY GenerationType DEF TypeOK
  <1>2. cancelled \in Seq(Generations) /\ Len(cancelled) \in Nat
    BY DEF TypeOK
  <1>3. CASE Len(cancelled) < RingSlots
    <2>1. cancelled' = Append(cancelled, power.gen)
      BY <1>3 DEF Cancel
    <2> QED
      BY <1>1, <1>2, <2>1, AppendHas
  <1>4. CASE ~(Len(cancelled) < RingSlots)
    <2>1. cancelled # <<>> /\ cancelled' = Append(Tail(cancelled), power.gen)
      BY <1>2, <1>4, SlotsAssumption DEF Cancel
    <2>2. /\ Tail(cancelled) \in Seq(Generations)
          /\ \A g : Contains(Tail(cancelled), g) => Contains(cancelled, g)
      BY <1>2, <2>1, TailHas
    <2> DEFINE rest == Tail(cancelled)
    <2>3. \A g : Contains(cancelled', g) <=> Contains(rest, g) \/ g = power.gen
      <3>1. rest \in Seq(Generations) /\ cancelled' = Append(rest, power.gen)
        BY <2>1, <2>2
      <3> HIDE DEF rest
      <3> QED
        BY <1>1, <3>1, AppendHas
    <2> QED
      BY <1>4, <2>2, <2>3
  <1> QED
    BY <1>3, <1>4

LEMMA DownPower ==
    ASSUME DownInv, TypeInv', Power \/ IdleTimeout
    PROVE  Down'
  <1>0. /\ TypeOK /\ power.gen \in Nat /\ display.gen \in Nat
        /\ \A g \in Generations : g \in Nat
        /\ power.at # "run" => power.gen \in Generations
    BY GenerationType DEF DownInv, TypeInv, TypeOK, Minted
  <1>1. CASE PowerRuns
    <2>1. NoNewAck
      BY <1>0, <1>1, ReceiveTells DEF PowerRuns
    <2>2. CASE EnterSleep("explicit")
      <3>1. power'.gen = power.gen + 1
        BY <2>2 DEF EnterSleep
      <3>2. power.gen < MaxGeneration
        BY <3>1, <1>0, MaxGenerationAssumption DEF TypeInv, TypeOK
      <3>3. "explicit" \in Triggers
        BY DEF Triggers
      <3> QED
        BY <1>1, <2>1, <2>2, <3>2, <3>3, DownEnters DEF PowerRuns
    <2>3. CASE UNCHANGED <<commands, power>>
      <3>1. NoNewSleep
        BY <2>3 DEF NoNewSleep
      <3> QED
        BY <1>1, <2>1, <2>3, <3>1, DownStill DEF PowerRuns
    <2> QED
      BY <1>1, <2>2, <2>3 DEF PowerRuns
  <1>2. CASE IdleTimeout
    <2>1. NoNewAck /\ "idle" \in Triggers
      BY <1>2 DEF IdleTimeout, NoNewAck, Triggers
    <2> QED
      BY <1>2, <2>1, DownEnters DEF IdleTimeout
  <1>3. CASE PowerSends
    <2>1. power.gen \in Generations /\ power.trigger \in Triggers
      BY <1>0, <1>3 DEF PowerSends, TypeOK
    <2>2. power'.gen = power.gen /\ power'.at = "waiting" /\ power.at = "sending"
      BY <1>0, <1>3 DEF PowerSends, TypeOK
    <2>3. \A g \in Generations : SleepIn(commands', g) =>
              SleepIn(commands, g) \/ g = power.gen
      <3> DEFINE sleep == Sleep(power.gen, power.trigger)
      <3>1. sleep \in Commands /\ sleep.gen = power.gen
        BY <2>1, SleepIsSleep
      <3>2. commands' = Append(commands, sleep) /\ commands \in Seq(Commands)
        BY <1>0, <1>3 DEF PowerSends, TypeOK
      <3> HIDE DEF sleep
      <3> QED
        BY <3>1, <3>2, SleepAppend
    <2>4. AllSent'
      BY <1>0, <1>3, <2>2, <2>3 DEF DownInv, Down, AllSent, Sent, PowerSends
    <2>5. ~AckIn(events', "asleep", power'.gen)
      BY <1>0, <1>3, <2>1, <2>2 DEF DownInv, Down, AllSent, Sent, PowerSends, Answers
    <2> QED
      BY <1>3, <2>2, <2>4, <2>5 DEF DownInv, Down, NotCalledOff, ImageIsUp,
         AnsweredBehind, PanelIsDown, IsCancelled, PowerSends
  <1>4. ASSUME PowerWaits \/ PowerSettles, Cancel(power.gen), StayAwake
        PROVE  Down'
    <2>1. power'.gen = power.gen /\ power'.at = "run" /\ power.at # "run"
      BY <1>0, <1>4 DEF StayAwake, PowerWaits, PowerSettles, TypeOK
    <2>2. NoNewAck /\ UNCHANGED <<commands, display, panel>>
      BY <1>0, <1>4, ReceiveTells DEF PowerWaits, PowerSettles
    <2>3. \A g : Contains(cancelled', g) => Contains(cancelled, g) \/ g = power.gen
      BY <1>0, <1>4, <2>1, CancelHas DEF DownInv, TypeInv, Minted
    <2>4. AllSent'
      BY <1>0, <2>1, <2>2 DEF DownInv, Down, AllSent, Sent, NoNewAck
    <2>5. NotCalledOff'
      BY <1>0, <2>1, <2>3 DEF DownInv, Down, NotCalledOff, IsCancelled
    <2> QED
      BY <2>1, <2>2, <2>4, <2>5 DEF DownInv, Down, ImageIsUp, AnsweredBehind, PanelIsDown
  <1>5. ASSUME PowerWaits, ~CallsOff(Head(events))
        PROVE  Down'
    <2>1. /\ NoNewAck /\ UNCHANGED <<commands, cancelled, display, panel>>
          /\ power.at = "waiting" /\ power.gen \in Generations
          /\ PowerHears(Head(events))
      BY <1>0, <1>5, ReceiveTells DEF PowerWaits
    <2>2. power'.gen = power.gen /\ power'.at \in {"waiting", "run", "settling", "pin"}
      BY <1>0, <2>1 DEF PowerHears, StayAwake, TypeOK
    <2>3. AllSent' /\ NotCalledOff' /\ ImageIsUp'
      BY <1>0, <2>1, <2>2 DEF DownInv, Down, AllSent, Sent, NoNewAck, NotCalledOff,
         ImageIsUp, IsCancelled
    <2>4. AnsweredBehind'
      BY <2>1, <2>2 DEF DownInv, Down, AnsweredBehind, NoNewAck, Answers
    <2>5. PanelIsDown'
      <3>1. power'.at \in {"settling", "pin"} =>
                Head(events) = Acked("asleep", power.gen)
        BY <1>0, <2>1 DEF PowerHears, StayAwake, TypeOK
      <3>2. power'.at \in {"settling", "pin"} => AckIn(events, "asleep", power.gen)
        BY <1>0, <1>5, <2>1, <3>1, AckTail DEF PowerWaits, Answers
      <3> QED
        BY <2>1, <2>2, <3>2 DEF DownInv, Down, AnsweredBehind, ImageIsUp, PanelIsDown
    <2> QED
      BY <2>3, <2>4, <2>5 DEF Down
  <1>6. ASSUME PowerSettles, ~CallsOff(Head(events))
        PROVE  Down'
    <2>1. NoNewAck /\ NoNewSleep /\ UNCHANGED <<power, cancelled, display, panel>>
      BY <1>0, <1>6, ReceiveTells DEF PowerSettles, NoNewSleep
    <2> QED
      BY <2>1, DownStill
  <1>7. CASE SettleEnds \/ PowerDown
    <2>1. /\ power'.gen = power.gen /\ power'.at \in {"pin", "off"}
          /\ power.at \in {"settling", "pin"}
          /\ UNCHANGED <<commands, events, cancelled, display, panel>>
      BY <1>0, <1>7 DEF SettleEnds, PowerDown, TypeOK
    <2> QED
      BY <1>0, <2>1 DEF DownInv, Down, AllSent, Sent, NotCalledOff, ImageIsUp,
         AnsweredBehind, PanelIsDown, IsCancelled
  <1> QED
    BY <1>1, <1>2, <1>3, <1>4, <1>5, <1>6, <1>7 DEF Power, PowerWaits, PowerSettles

\* A sleep the display takes up was sent before, and is not the one a power
\* task past its acknowledgement waits for.
LEMMA DownHolds ==
    ASSUME DownInv, NoNewAck, UNCHANGED <<power, panel, cancelled>>,
           \A g \in Generations : SleepIn(commands', g) => SleepIn(commands, g) \/ Sent(g),
           display.at \notin {"asleep", "parked"},
           display'.at \notin {"asleep", "parked"},
           display'.gen = 0 \/ Sent(display'.gen)
    PROVE  Down'
  <1>0. TypeOK /\ power.gen \in Nat /\ display.gen \in Nat
    BY GenerationType DEF DownInv, TypeInv, TypeOK
  <1>1. power.at # "run" => power.gen \in Generations /\ power.gen > 0
    BY <1>0, GenerationType DEF DownInv, TypeInv, Minted, TypeOK
  <1>2. /\ display'.gen <= power'.gen
        /\ power'.at = "sending" => display'.gen < power'.gen
    BY <1>0, <1>1 DEF Sent
  <1>3. AllSent'
    BY <1>2 DEF DownInv, Down, AllSent, Sent, NoNewAck
  <1>4. NotCalledOff' /\ ImageIsUp' /\ PanelIsDown'
    BY DEF DownInv, Down, NotCalledOff, ImageIsUp, PanelIsDown, IsCancelled
  <1>5. AnsweredBehind'
    BY <1>1 DEF DownInv, Down, AnsweredBehind, NoNewAck, Answers
  <1> QED
    BY <1>3, <1>4, <1>5 DEF Down

LEMMA DownDisplay ==
    ASSUME DownInv, Display
    PROVE  Down'
  <1>0. /\ TypeOK /\ power.gen \in Nat /\ display.gen \in Nat
        /\ \A g \in Generations : g \in Nat /\ g # 0
        /\ Holds => display.gen \in Generations
        /\ power.at # "run" => power.gen \in Generations /\ power.gen > 0
        /\ display \in DisplayRecords
        /\ Sent(display.gen)
    BY GenerationType DEF DownInv, Down, AllSent, TypeInv, TypeOK, Minted, Generations,
       DisplayRecords
  <1>1. CASE TakeRender \/ RenderSettles
    <2>1. NoNewAck
      BY <1>1 DEF TakeRender, RenderSettles, NoNewAck
    <2>2. NoNewSleep
      <3>1. CASE commands' = commands
        BY <3>1 DEF NoNewSleep
      <3>2. CASE commands # <<>> /\ commands' = Tail(commands)
        BY <1>0, <3>2, TakeTells
      <3> QED
        BY <1>1, <3>1, <3>2 DEF TakeRender, RenderSettles, Takes
    <2>3. /\ display.at \in {"loop", "render"} /\ display'.at \in {"loop", "render"}
          /\ display'.gen \in {0, display.gen}
          /\ UNCHANGED <<power, cancelled>>
      BY <1>0, <1>1 DEF TakeRender, RenderSettles, At, BackToLoop, InLoop, DisplayRecords
    <2>4. /\ display'.gen <= power'.gen
          /\ power'.at = "sending" => display'.gen < power'.gen
      BY <1>0, <2>3 DEF Sent
    <2>5. AllSent'
      BY <2>1, <2>2, <2>3, <2>4 DEF DownInv, Down, AllSent, Sent, NoNewAck, NoNewSleep
    <2>6. AnsweredBehind'
      BY <1>0, <2>1, <2>3 DEF DownInv, Down, AnsweredBehind, NoNewAck, Answers
    <2> QED
      BY <2>3, <2>5, <2>6 DEF DownInv, Down, NotCalledOff, ImageIsUp, PanelIsDown,
         IsCancelled
  <1>2. CASE TakeSleep
    <2>1. commands # <<>> /\ commands' = Tail(commands) /\ Head(commands).type = "sleep"
      BY <1>2 DEF TakeSleep, Takes
    <2>2. Head(commands) \in Commands
      BY <1>0, <2>1, TakeType
    <2>3. Sent(Head(commands).gen)
      <3>1. Head(commands).gen \in Generations /\ SleepIn(commands, Head(commands).gen)
        BY <1>0, <2>1, <2>2, SleepInHandType, SleepTail DEF TypeOK
      <3> QED
        BY <3>1 DEF DownInv, Down, AllSent
    <2>4. NoNewAck /\ NoNewSleep /\ UNCHANGED <<power, panel, cancelled>>
      BY <1>0, <1>2, <2>1, TakeTells DEF TakeSleep, NoNewAck
    <2>5. /\ display.at \notin {"asleep", "parked"} /\ display'.at \notin {"asleep", "parked"}
          /\ display'.gen \in {display.gen, Head(commands).gen}
      BY <1>2 DEF TakeSleep, SkipSleep, RefuseSleep, DrainToCard, Holding
    <2> QED
      BY <1>0, <2>3, <2>4, <2>5, DownHolds DEF NoNewSleep
  <1>3. CASE PanelReady
    <2>1. /\ display.at = "init" /\ display'.at \in {"loop", "flush"}
          /\ display'.gen \in {0, display.gen}
      BY <1>0, <1>3 DEF PanelReady, At, BackToLoop, InLoop, DisplayRecords
    <2> QED
      BY <1>0, <1>3, <2>1, DownHolds DEF PanelReady, NoNewAck
  <1>4. CASE PanelSleeps
    <2>1. /\ display.at = "flush" /\ display'.gen = display.gen
          /\ \/ display'.at = "asleep" /\ panel' = "sleep"
             \/ display'.at = "failed" /\ panel' = "none"
          /\ UNCHANGED <<commands, events, cancelled, power>>
      BY <1>0, <1>4 DEF PanelSleeps, At, DisplayRecords
    <2> QED
      BY <1>0, <2>1 DEF DownInv, Down, AllSent, Sent, NotCalledOff, ImageIsUp,
         AnsweredBehind, PanelIsDown, IsCancelled
  <1>5. ASSUME NEW answer \in Answers, PlaceEvent(Acked(answer, display.gen)), Holds
        PROVE  \A g \in Generations, a \in Answers : AckIn(events', a, g) =>
                  AckIn(events, a, g) \/ (a = answer /\ g = display.gen)
    <2>1. Acked(answer, display.gen) \in Events
      BY <1>0, <1>5, EventTypes DEF Answers
    <2>2. CASE events' = Append(events, Acked(answer, display.gen))
      BY <1>0, <1>5, <2>1, <2>2, AckAppend, AckIsOne
    <2>3. CASE events' = events
      BY <2>3
    <2> QED
      BY <1>5, <2>2, <2>3 DEF PlaceEvent
  <1>6. CASE Refused
    <2>1. /\ display.at = "failed" /\ Holds
          /\ display' = InLoop /\ UNCHANGED <<commands, cancelled, power, panel>>
      BY <1>6 DEF Refused, Holds, InHandAt, BackToLoop
    <2>2. "failed" \in Answers /\ "asleep" \in Answers /\ "asleep" # "failed"
      BY DEF Answers
    <2>3. \A g \in Generations, a \in Answers : AckIn(events', a, g) =>
             AckIn(events, a, g) \/ (a = "failed" /\ g = display.gen)
      BY <1>5, <1>6, <2>1, <2>2 DEF Refused
    <2>4. AllSent'
      BY <1>0, <2>1, <2>3 DEF DownInv, Down, AllSent, Sent, InLoop
    <2>5. AnsweredBehind'
      BY <1>0, <2>1, <2>2, <2>3 DEF DownInv, Down, AnsweredBehind
    <2> QED
      BY <2>1, <2>4, <2>5 DEF DownInv, Down, NotCalledOff, ImageIsUp, PanelIsDown,
         IsCancelled, InLoop
  <1>7. ASSUME Park, display.at \in {"asleep", "parked"}
        PROVE  /\ NoNewSleep
               /\ \/ IsCancelled(display.gen) /\ display' = InLoop
                  \/ /\ ~IsCancelled(display.gen)
                     /\ display'.at = "parked" /\ display'.gen = display.gen
    <2>1. NoNewSleep
      BY <1>0, <1>7, RenderTells DEF Park, Restore
    <2> QED
      BY <1>0, <1>7, <2>1 DEF Park, Restore, BackToLoop, At, DisplayRecords
  <1>8. CASE Acknowledge
    <2>1. /\ display.at = "asleep" /\ Holds
          /\ UNCHANGED <<cancelled, power, panel>>
      BY <1>8 DEF Acknowledge, Holds, InHandAt
    <2>2. "asleep" \in Answers
      BY DEF Answers
    <2>3. \A g \in Generations, a \in Answers : AckIn(events', a, g) =>
             AckIn(events, a, g) \/ (a = "asleep" /\ g = display.gen)
      BY <1>5, <1>8, <2>1, <2>2 DEF Acknowledge
    <2>4. /\ NoNewSleep
          /\ \/ IsCancelled(display.gen) /\ display' = InLoop
             \/ /\ ~IsCancelled(display.gen)
                /\ display'.at = "parked" /\ display'.gen = display.gen
      BY <1>7, <1>8, <2>1 DEF Acknowledge
    <2>5. display'.gen \in {0, display.gen}
      BY <2>4 DEF InLoop
    <2>6. /\ display'.gen <= power'.gen
          /\ power'.at = "sending" => display'.gen < power'.gen
      BY <1>0, <2>1, <2>5 DEF Sent
    <2>7. AllSent'
      BY <1>0, <2>1, <2>3, <2>4, <2>6 DEF DownInv, Down, AllSent, Sent, NoNewSleep
    <2>8. NotCalledOff' /\ ImageIsUp'
      BY <2>1 DEF DownInv, Down, NotCalledOff, ImageIsUp, IsCancelled
    <2>9. PanelIsDown'
      BY <2>1 DEF DownInv, Down, PanelIsDown
    <2>10. AnsweredBehind'
      <3> SUFFICES ASSUME power.at = "waiting", AckIn(events', "asleep", power.gen)
                   PROVE  display'.at = "parked" /\ display'.gen = power.gen
        BY <2>1 DEF AnsweredBehind
      <3>1. AckIn(events, "asleep", power.gen) \/ power.gen = display.gen
        BY <1>0, <2>2, <2>3
      <3>2. power.gen = display.gen
        BY <3>1, <2>1 DEF DownInv, Down, AnsweredBehind
      <3>3. ~IsCancelled(display.gen)
        BY <1>0, <3>2 DEF DownInv, Down, NotCalledOff
      <3> QED
        BY <2>4, <3>2, <3>3
    <2> QED
      BY <2>7, <2>8, <2>9, <2>10 DEF Down
  <1>9. CASE ParkedResumes
    <2>1. /\ display.at = "parked"
          /\ UNCHANGED <<events, cancelled, power, panel>>
      BY <1>9 DEF ParkedResumes
    <2>2. /\ NoNewSleep
          /\ \/ IsCancelled(display.gen) /\ display' = InLoop
             \/ /\ ~IsCancelled(display.gen)
                /\ display'.at = "parked" /\ display'.gen = display.gen
      BY <1>7, <1>9, <2>1 DEF ParkedResumes
    <2>3. display'.gen \in {0, display.gen}
      BY <2>2 DEF InLoop
    <2>4. /\ display'.gen <= power'.gen
          /\ power'.at = "sending" => display'.gen < power'.gen
      BY <1>0, <2>1, <2>3 DEF Sent
    <2>5. AllSent'
      BY <2>1, <2>2, <2>4 DEF DownInv, Down, AllSent, Sent, NoNewSleep
    <2>6. display.gen = power.gen /\ power.at # "run" =>
             display'.at = "parked" /\ display'.gen = power.gen
      BY <1>0, <2>2 DEF DownInv, Down, NotCalledOff
    <2>7. AnsweredBehind' /\ PanelIsDown'
      BY <2>1, <2>6 DEF DownInv, Down, AnsweredBehind, PanelIsDown
    <2>8. NotCalledOff' /\ ImageIsUp'
      BY <2>1 DEF DownInv, Down, NotCalledOff, ImageIsUp, IsCancelled
    <2> QED
      BY <2>5, <2>7, <2>8 DEF Down
  <1>10. CASE ParkCeiling
    <2>1. /\ display.at = "parked" /\ display' = InLoop
          /\ UNCHANGED <<commands, events, cancelled, power, panel>>
          /\ power.at = "waiting" => events = <<>>
          /\ power.at \notin {"settling", "pin", "off"}
      BY <1>10 DEF ParkCeiling, BackToLoop, Awake
    <2>2. power.at = "waiting" => ~AckIn(events, "asleep", power.gen)
      BY <2>1, EmptyHas DEF AckIn
    <2>3. AllSent'
      BY <1>0, <2>1 DEF DownInv, Down, AllSent, Sent, InLoop
    <2> QED
      BY <2>1, <2>2, <2>3 DEF DownInv, Down, NotCalledOff, ImageIsUp, AnsweredBehind,
         PanelIsDown, IsCancelled, InLoop
  <1> QED
    BY <1>1, <1>2, <1>3, <1>4, <1>6, <1>8, <1>9, <1>10 DEF Display

LEMMA DownSession ==
    ASSUME DownInv, Session
    PROVE  Down'
  <1>0. /\ TypeOK /\ display \in DisplayRecords
        /\ commands \in Seq(Commands)
        /\ display.at = "asking" => display.gen \in Generations
        /\ Sent(display.gen) /\ display.trigger \in Triggers
    BY GenerationType DEF DownInv, Down, AllSent, TypeInv, TypeOK, Minted, Holds, InHandAt,
       DisplayRecords
  <1>1. CASE UploadSession
    <2>1. display.at = "loop" /\ display'.at \in {"session", "refusing"}
          /\ display'.gen = display.gen
      BY <1>0, <1>1 DEF UploadSession, At, DisplayRecords
    <2> QED
      BY <1>0, <1>1, <2>1, DownHolds DEF UploadSession, NoNewAck
  <1>2. CASE DiscardRender
    <2>1. NoNewSleep
      BY <1>0, <1>2, TakeTells DEF DiscardRender, Takes
    <2> QED
      BY <1>2, <2>1, DownStill DEF DiscardRender, NoNewAck, tasks
  <1>3. CASE SessionSleep
    <2> DEFINE sleep == Head(commands)
               rest  == Tail(commands)
    <2>1. commands # <<>> /\ sleep.type = "sleep" /\ display.at \in {"session", "refusing"}
      BY <1>3 DEF SessionSleep, Takes, InSession
    <2>2. /\ sleep \in Commands /\ sleep.gen \in Generations /\ sleep.trigger \in Triggers
          /\ SleepIn(commands, sleep.gen)
          /\ rest \in Seq(Commands)
          /\ \A g \in Generations : SleepIn(rest, g) => SleepIn(commands, g)
      BY <1>0, <2>1, TakeType, SleepInHandType, SleepTail
    <2>3. Sent(sleep.gen)
      BY <2>2 DEF DownInv, Down, AllSent
    <2>4. UNCHANGED <<power, panel, cancelled>>
      BY <1>3 DEF SessionSleep
    <2>5. \/ commands' = rest /\ UNCHANGED <<events, display>>
          \/ Offer(BrowserActivity) /\ Holding("asking", sleep, FALSE) /\ commands' = rest
          \/ FinishSession(sleep, rest) /\ UNCHANGED events
      BY <1>3 DEF SessionSleep
    <2> HIDE DEF sleep, rest
    <2>6. NoNewAck
      BY <1>0, <2>5, OfferTells
    <2>7. \A g \in Generations : SleepIn(commands', g) => SleepIn(commands, g) \/ Sent(g)
      <3>1. CASE commands' = rest
        BY <2>2, <3>1
      <3>2. CASE FinishSession(sleep, rest)
        <4> DEFINE back == Sleep(sleep.gen, sleep.trigger)
        <4>1. back \in Commands /\ back.gen = sleep.gen
          BY <2>2, SleepIsSleep
        <4>2. commands' = Append(rest, back)
          BY <3>2 DEF FinishSession
        <4> HIDE DEF back
        <4> QED
          BY <2>2, <2>3, <4>1, <4>2, SleepAppend
      <3> QED
        BY <2>5, <3>1, <3>2
    <2>8. display'.at \in {"session", "refusing", "asking", "loop"}
          /\ display'.gen \in {0, display.gen, sleep.gen}
      BY <2>1, <2>5 DEF Holding, FinishSession, BackToLoop, InLoop
    <2> QED
      BY <1>0, <2>1, <2>3, <2>4, <2>6, <2>7, <2>8, DownHolds
  <1>4. CASE Asked
    <2>1. /\ display.at = "asking" /\ UNCHANGED <<power, panel, cancelled>> /\ NoNewAck
          /\ display'.at \in {"session", "loop"} /\ display'.gen = 0
      BY <1>4 DEF Asked, NoNewAck, BackToSession, FinishSession, BackToLoop, InLoop
    <2>2. \A g \in Generations : SleepIn(commands', g) => SleepIn(commands, g) \/ Sent(g)
      <3>1. CASE commands' = commands
        BY <3>1
      <3>2. CASE FinishSession(display, commands)
        <4> DEFINE back == Sleep(display.gen, display.trigger)
        <4>1. back \in Commands /\ back.gen = display.gen
          BY <1>0, <2>1, SleepIsSleep
        <4>2. commands' = Append(commands, back)
          BY <3>2 DEF FinishSession
        <4> HIDE DEF back
        <4> QED
          BY <1>0, <4>1, <4>2, SleepAppend
      <3> QED
        BY <1>4, <3>1, <3>2 DEF Asked
    <2> QED
      BY <2>1, <2>2, DownHolds
  <1> QED
    BY <1>1, <1>2, <1>3, <1>4 DEF Session

LEMMA DownWifi ==
    ASSUME DownInv, Wifi
    PROVE  Down'
  <1>0. TypeInv /\ TypeOK
    BY DEF DownInv, TypeInv
  <1>1. CASE NoteActivity
    <2>1. NoNewAck
      BY <1>0, <1>1, OfferTells DEF NoteActivity
    <2> QED
      BY <1>1, <2>1, DownStill DEF NoteActivity, NoNewSleep, tasks
  <1>2. CASE Serve \/ Request \/ EnsureSession \/ RequestEnds
    BY <1>2, DownStill DEF Serve, Request, EnsureSession, RequestEnds, NoNewAck,
       NoNewSleep, tasks
  <1>3. CASE Exit
    BY <1>0, <1>3, DownReboot DEF Exit
  <1> QED
    BY <1>1, <1>2, <1>3 DEF Wifi

LEMMA DownStep ==
    ASSUME DownInv, [Next]_vars
    PROVE  DownInv'
  <1>1. TypeInv /\ TypeInv'
    BY TypeStep DEF DownInv
  <1>2. CASE UNCHANGED vars
    BY <1>1, <1>2, DownStill DEF vars, tasks, NoNewAck, NoNewSleep, DownInv
  <1>3. CASE Wake
    BY <1>1, <1>3, DownReboot DEF Wake, DownInv
  <1> QED
    BY <1>1, <1>2, <1>3, DownApp, DownPower, DownDisplay, DownSession, DownWifi
       DEF Next, Handshake, DownInv

LEMMA DownAlways == WirelessSpec => []DownInv
  <1>1. Init => DownInv
    BY TypeInit, DownInit DEF DownInv
  <1>2. DownInv /\ [Next]_vars => DownInv'
    BY DownStep
  <1> QED
    BY <1>1, <1>2, PTL DEF WirelessSpec

\* From the moment the power task has its acknowledgement the sleep image is up
\* and the display stands still behind that same sleep, whatever was called off,
\* asked for again, refused or dropped before.
THEOREM PanelStaysDown == WirelessSpec => []PanelIsDown
  <1>1. DownInv => PanelIsDown
    BY DEF DownInv, Down
  <1> QED
    BY <1>1, DownAlways, PTL

-----------------------------------------------------------------------------
(***************************************************************************)
(* The position is on the card.  The display writes it out when it takes   *)
(* the sleep up; a press that moves it again tells the power task, which   *)
(* calls the sleep off should it hear of that in time.                     *)
(***************************************************************************)
\* The display has been to the card for the sleep the power task waits for.
Drained ==
    /\ power.at \in {"waiting", "settling", "pin", "off"}
    /\ display.at \in {"init", "flush", "asleep", "parked"}
    /\ display.gen = power.gen

MovedSince == Drained /\ unsaved => Contains(events, Activity)

SavedInv == DownInv /\ MovedSince

LEMMA MovedStill ==
    ASSUME MovedSince, Drained' => Drained, unsaved' => unsaved,
           Contains(events, Activity) => Contains(events', Activity)
    PROVE  MovedSince'
  BY DEF MovedSince

\* A queue that only grows keeps what it holds.
LEMMA TellsKeeps ==
    ASSUME TypeOK, NEW e \in Events,
           \/ Offer(e) \/ PlaceEvent(e) \/ events' = Append(events, e) \/ events' = events
    PROVE  \A x : Contains(events, x) => Contains(events', x)
  <1>1. CASE events' = Append(events, e)
    BY <1>1, AppendHas DEF TypeOK
  <1>2. CASE events' = events
    BY <1>2
  <1> QED
    BY <1>1, <1>2 DEF Offer, PlaceEvent

LEMMA SavedApp ==
    ASSUME SavedInv, App
    PROVE  MovedSince'
  <1>0. TypeOK /\ MovedSince /\ Activity \in Events /\ SleepNow \in Events
    BY EventTypes DEF SavedInv, DownInv, TypeInv
  <1>1. Drained' => Drained
    BY DEF App, Press, Answer, PowerPress, AppSends, AppSettled, Drained
  <1>2. Contains(events, Activity) => Contains(events', Activity)
    BY <1>0, TellsKeeps DEF App, Press, Answer, PowerPress, AppSends, AppSettled
  <1>3. CASE Press
    <2>1. RoomToTell => Contains(events', Activity)
      BY <1>0, <1>3, AppendHas DEF Press, Offer, TypeOK
    <2> QED
      BY <1>0, <1>1, <1>2, <1>3, <2>1 DEF MovedSince, Press
  <1>4. CASE Answer \/ PowerPress \/ AppSends \/ AppSettled
    <2>1. unsaved' = unsaved
      BY <1>4 DEF Answer, PowerPress, AppSends, AppSettled
    <2> QED
      BY <1>0, <1>1, <1>2, <2>1, MovedStill
  <1> QED
    BY <1>3, <1>4 DEF App

LEMMA SavedPower ==
    ASSUME SavedInv, Power \/ IdleTimeout
    PROVE  MovedSince'
  <1>0. /\ TypeOK /\ MovedSince /\ power.gen \in Nat /\ display.gen \in Nat
        /\ Sent(display.gen)
    BY GenerationType DEF SavedInv, DownInv, Down, AllSent, TypeInv, TypeOK
  <1>1. UNCHANGED <<display, unsaved>>
    BY DEF Power, PowerRuns, PowerSends, PowerWaits, PowerSettles, SettleEnds, PowerDown,
       IdleTimeout
  <1>2. CASE PowerRuns \/ IdleTimeout
    <2>1. CASE \E t : EnterSleep(t)
      <3>1. power'.gen = power.gen + 1
        BY <2>1 DEF EnterSleep
      <3> QED
        BY <1>0, <1>1, <3>1 DEF MovedSince, Drained, Sent
    <2>2. CASE power.at = "run" /\ power' = power
      BY <2>2 DEF MovedSince, Drained
    <2> QED
      BY <1>2, <2>1, <2>2 DEF PowerRuns, IdleTimeout
  <1>3. CASE PowerSends
    <2>1. power'.gen = power.gen /\ display.gen < power.gen
      BY <1>0, <1>3 DEF PowerSends, Sent
    <2> QED
      BY <1>0, <1>1, <2>1 DEF MovedSince, Drained
  <1>4. ASSUME PowerWaits \/ PowerSettles, CallsOff(Head(events))
        PROVE  MovedSince'
    <2>1. power'.at = "run"
      BY <1>0, <1>4 DEF PowerWaits, PowerSettles, StayAwake, TypeOK
    <2> QED
      BY <2>1 DEF MovedSince, Drained
  <1>5. ASSUME PowerWaits \/ PowerSettles, ~CallsOff(Head(events))
        PROVE  MovedSince'
    <2>1. /\ events # <<>> /\ events' = Tail(events) /\ Head(events) # Activity
          /\ power.at \in {"waiting", "settling"}
      BY <1>5 DEF PowerWaits, PowerSettles, CallsOff
    <2>2. power'.gen = power.gen
      BY <1>0, <1>5 DEF PowerWaits, PowerSettles, PowerHears, StayAwake, TypeOK
    <2>3. Contains(events, Activity) => Contains(events', Activity)
      BY <1>0, <2>1, TailHas DEF TypeOK
    <2> QED
      BY <1>0, <1>1, <2>1, <2>2, <2>3 DEF MovedSince, Drained
  <1>6. CASE SettleEnds \/ PowerDown
    <2>1. power'.gen = power.gen /\ power.at \in {"settling", "pin"} /\ events' = events
      BY <1>0, <1>6 DEF SettleEnds, PowerDown, TypeOK
    <2> QED
      BY <1>0, <1>1, <2>1 DEF MovedSince, Drained
  <1> QED
    BY <1>2, <1>3, <1>4, <1>5, <1>6 DEF Power, PowerWaits, PowerSettles

LEMMA SavedDisplay ==
    ASSUME SavedInv, Display
    PROVE  MovedSince'
  <1>0. /\ TypeOK /\ MovedSince /\ display \in DisplayRecords
    BY DEF SavedInv, DownInv, TypeInv, TypeOK, DisplayRecords
  <1>1. CASE TakeSleep
    <2>1. CASE SkipSleep(Head(commands))
      BY <1>0, <1>1, <2>1 DEF TakeSleep, SkipSleep, MovedSince, Drained
    <2>2. CASE RefuseSleep(Head(commands))
      BY <2>2 DEF RefuseSleep, Holding, MovedSince, Drained
    <2>3. CASE DrainToCard(Head(commands))
      BY <2>3 DEF DrainToCard, MovedSince
    <2> QED
      BY <1>1, <2>1, <2>2, <2>3 DEF TakeSleep
  <1>2. CASE PanelReady \/ PanelSleeps
    <2>1. display'.at \in {"loop", "failed"} \/
          /\ display'.gen = display.gen /\ display.at \in {"init", "flush"}
      BY <1>0, <1>2 DEF PanelReady, PanelSleeps, At, BackToLoop, InLoop,
         DisplayRecords
    <2>2. UNCHANGED <<power, events, unsaved>>
      BY <1>2 DEF PanelReady, PanelSleeps
    <2> QED
      BY <1>0, <2>1, <2>2 DEF MovedSince, Drained
  <1>3. CASE Acknowledge
    <2>1. display.at = "asleep" /\ UNCHANGED <<power, unsaved>>
      BY <1>3 DEF Acknowledge
    <2>2. display'.at = "loop" \/ display'.gen = display.gen
      BY <1>0, <1>3 DEF Acknowledge, Park, Restore, BackToLoop, InLoop, At,
         DisplayRecords
    <2>3. Acked("asleep", display.gen) \in Events
      <3>1. display.gen \in Generations
        BY <1>0, <2>1, GenerationType
           DEF SavedInv, DownInv, TypeInv, TypeOK, Minted, Holds, InHandAt
      <3> QED
        BY <3>1, EventTypes
    <2>4. Contains(events, Activity) => Contains(events', Activity)
      BY <1>0, <1>3, <2>3, TellsKeeps DEF Acknowledge
    <2> QED
      BY <1>0, <2>1, <2>2, <2>4 DEF MovedSince, Drained
  <1>4. CASE ParkedResumes
    <2>1. display.at = "parked" /\ UNCHANGED <<power, unsaved, events>>
      BY <1>4 DEF ParkedResumes
    <2>2. display'.at = "loop" \/ display'.gen = display.gen
      BY <1>0, <1>4 DEF ParkedResumes, Park, Restore, BackToLoop, InLoop, At,
         DisplayRecords
    <2> QED
      BY <1>0, <2>1, <2>2 DEF MovedSince, Drained
  <1>5. CASE TakeRender \/ RenderSettles \/ Refused \/ ParkCeiling
    <2>1. display'.at \in {"render", "loop"}
      BY <1>0, <1>5 DEF TakeRender, RenderSettles, Refused, ParkCeiling, At, BackToLoop,
         InLoop, DisplayRecords
    <2> QED
      BY <2>1 DEF MovedSince, Drained
  <1> QED
    BY <1>1, <1>2, <1>3, <1>4, <1>5 DEF Display

LEMMA SavedRest ==
    ASSUME SavedInv, Session \/ Wifi \/ Wake \/ UNCHANGED vars
    PROVE  MovedSince'
  <1>0. /\ TypeOK /\ MovedSince /\ display \in DisplayRecords /\ BrowserActivity \in Events
    BY EventTypes DEF SavedInv, DownInv, TypeInv, TypeOK, DisplayRecords
  <1>1. CASE Session
    <2>1. ~Drained'
      <3>1. display'.at \in {"session", "refusing", "asking", "loop"}
        BY <1>0, <1>1 DEF Session, UploadSession, DiscardRender, SessionSleep, Asked, At,
           Holding, FinishSession, BackToLoop, BackToSession, InLoop, InSession, tasks,
           DisplayRecords
      <3> QED
        BY <3>1 DEF Drained
    <2> QED
      BY <2>1 DEF MovedSince
  <1>2. CASE Serve
    BY <1>2 DEF Serve, MovedSince
  <1>3. CASE Request \/ NoteActivity \/ EnsureSession \/ RequestEnds
    <2>1. Contains(events, Activity) => Contains(events', Activity)
      BY <1>0, <1>3, TellsKeeps DEF Request, NoteActivity, EnsureSession, RequestEnds
    <2>2. UNCHANGED <<power, display, unsaved>>
      BY <1>3 DEF Request, NoteActivity, EnsureSession, RequestEnds, tasks
    <2> QED
      BY <1>0, <2>1, <2>2, MovedStill DEF Drained
  <1>4. CASE Wake \/ Exit
    BY <1>4 DEF Wake, Exit, Reboot, MovedSince
  <1>5. CASE UNCHANGED vars
    BY <1>0, <1>5, MovedStill DEF vars, tasks, Drained
  <1> QED
    BY <1>1, <1>2, <1>3, <1>4, <1>5 DEF Wifi

\* The device goes down with the position on the card, but for a press the
\* power task was told of and had not heard: in particular a press during the
\* sleep's own card work is never lost unheard.
THEOREM PositionGoesToCard == WirelessSpec => []PositionIsSaved
  <1>1. Init => SavedInv
    BY TypeInit, DownInit DEF DownInv, SavedInv, Init, MovedSince
  <1>2. SavedInv /\ [Next]_vars => SavedInv'
    BY DownStep, SavedApp, SavedPower, SavedDisplay, SavedRest DEF Next, Handshake, SavedInv
  <1>3. SavedInv => PositionIsSaved
    BY DEF SavedInv, DownInv, Down, PanelIsDown, MovedSince, Drained, PositionIsSaved
  <1> QED
    BY <1>1, <1>2, <1>3, PTL DEF WirelessSpec

-----------------------------------------------------------------------------
(***************************************************************************)
(* What the ring has to hold.  A sleep that is still queued has been       *)
(* passed, since it was called off, by no more others than the queue has   *)
(* slots behind it; a ring as long as the queue therefore still knows it.  *)
(***************************************************************************)
\* The last generation that went into the display's queue.
LastSent == IF power.at = "sending" THEN power.gen - 1 ELSE power.gen

\* Queue q holds its sleeps in the order of their generations, and every one
\* sent up to last since stands behind the one it followed.
InOrder(q, last) ==
    \A i \in DOMAIN q : q[i].type = "sleep" =>
        /\ last + i <= q[i].gen + Len(q)
        /\ \A j \in DOMAIN q : j > i /\ q[j].type = "sleep" => q[i].gen < q[j].gen

LEMMA InOrderRender ==
    ASSUME NEW q \in Seq(Commands), NEW last \in Nat, InOrder(q, last)
    PROVE  InOrder(Append(q, Render), last)
  <1> DEFINE p == Append(q, Render)
  <1>1. /\ Len(p) = Len(q) + 1 /\ DOMAIN p = (1 .. Len(q)) \cup {Len(q) + 1}
        /\ DOMAIN q = 1 .. Len(q) /\ Len(q) \in Nat
        /\ \A i \in 1 .. Len(q) : p[i] = q[i]
        /\ p[Len(q) + 1] = Render
    BY RenderIsNoSleep
  <1>2. \A i \in 1 .. Len(q) : q[i].type = "sleep" => q[i].gen \in Nat
    <2> SUFFICES ASSUME NEW i \in 1 .. Len(q), q[i].type = "sleep"
                 PROVE  q[i].gen \in Nat
      OBVIOUS
    <2>1. q[i] \in Commands
      OBVIOUS
    <2> QED
      BY <2>1, SleepInHandType, GenerationType
  <1> HIDE DEF p
  <1> QED
    BY <1>1, <1>2, RenderIsNoSleep DEF InOrder, p

LEMMA InOrderSleep ==
    ASSUME NEW q \in Seq(Commands), NEW last \in Nat, InOrder(q, last),
           last + 1 \in Generations, NEW t \in Triggers,
           \A g \in Generations : SleepIn(q, g) => g < last + 1
    PROVE  InOrder(Append(q, Sleep(last + 1, t)), last + 1)
  <1> DEFINE c == Sleep(last + 1, t)
             p == Append(q, c)
  <1>0. c \in Commands /\ c.type = "sleep" /\ c.gen = last + 1
    BY SleepIsSleep
  <1> HIDE DEF c
  <1>1. /\ Len(p) = Len(q) + 1 /\ DOMAIN p = (1 .. Len(q)) \cup {Len(q) + 1}
        /\ DOMAIN q = 1 .. Len(q) /\ Len(q) \in Nat
        /\ \A i \in 1 .. Len(q) : p[i] = q[i]
        /\ p[Len(q) + 1] = c
    BY <1>0
  <1> HIDE DEF p
  <1>2. ASSUME NEW i \in 1 .. Len(q), q[i].type = "sleep"
        PROVE  q[i].gen \in Nat /\ q[i].gen < last + 1
    <2>1. /\ q[i] \in Commands /\ q[i].gen \in Generations
          /\ q[i].trigger \in Triggers /\ q[i] = Sleep(q[i].gen, q[i].trigger)
      BY <1>2, SleepInHandType
    <2>2. SleepIn(q, q[i].gen)
      BY <2>1 DEF SleepIn, Contains
    <2> QED
      BY <2>1, <2>2, GenerationType
  <1>3. ASSUME NEW i \in DOMAIN p, p[i].type = "sleep"
        PROVE  (last + 1) + i <= p[i].gen + Len(p)
    <2>1. CASE i = Len(q) + 1
      BY <2>1, <1>0, <1>1
    <2>2. CASE i \in 1 .. Len(q)
      <3>1. last + i <= q[i].gen + Len(q) /\ q[i].gen \in Nat /\ p[i] = q[i]
        BY <1>1, <1>2, <1>3, <2>2 DEF InOrder
      <3> QED
        BY <1>1, <2>2, <3>1
    <2> QED
      BY <1>1, <2>1, <2>2
  <1>4. ASSUME NEW i \in DOMAIN p, p[i].type = "sleep",
               NEW j \in DOMAIN p, j > i, p[j].type = "sleep"
        PROVE  p[i].gen < p[j].gen
    <2>1. i \in 1 .. Len(q) /\ p[i] = q[i]
      BY <1>1, <1>4
    <2>2. CASE j = Len(q) + 1
      BY <2>1, <2>2, <1>0, <1>1, <1>2, <1>4
    <2>3. CASE j \in 1 .. Len(q)
      BY <2>1, <2>3, <1>1, <1>4 DEF InOrder
    <2> QED
      BY <1>1, <2>2, <2>3
  <1>5. InOrder(p, last + 1)
    BY <1>3, <1>4 DEF InOrder
  <1> QED
    BY <1>5 DEF p, c

LEMMA InOrderTail ==
    ASSUME NEW q \in Seq(Commands), q # <<>>, NEW last \in Nat, InOrder(q, last)
    PROVE  /\ InOrder(Tail(q), last)
           /\ Head(q).type = "sleep" =>
                 \A g \in Generations : SleepIn(Tail(q), g) => Head(q).gen < g
  <1> DEFINE p == Tail(q)
  <1>1. /\ Len(p) = Len(q) - 1 /\ DOMAIN p = 1 .. Len(q) - 1
        /\ DOMAIN q = 1 .. Len(q) /\ Len(q) \in Nat /\ Len(q) > 0
        /\ \A i \in 1 .. Len(q) - 1 : p[i] = q[i + 1]
        /\ Head(q) = q[1] /\ p \in Seq(Commands)
    OBVIOUS
  <1> HIDE DEF p
  <1>2. \A i \in 1 .. Len(q) : q[i].type = "sleep" => q[i].gen \in Nat
    <2> SUFFICES ASSUME NEW i \in 1 .. Len(q), q[i].type = "sleep"
                 PROVE  q[i].gen \in Nat
      OBVIOUS
    <2>1. q[i] \in Commands
      OBVIOUS
    <2> QED
      BY <2>1, SleepInHandType, GenerationType
  <1>3. ASSUME NEW i \in DOMAIN p, p[i].type = "sleep"
        PROVE  last + i <= p[i].gen + Len(p)
    <2>1. i + 1 \in DOMAIN q /\ p[i] = q[i + 1]
      BY <1>1
    <2>2. last + (i + 1) <= q[i + 1].gen + Len(q) /\ q[i + 1].gen \in Nat
      BY <1>2, <1>3, <2>1, <1>1 DEF InOrder
    <2> QED
      BY <1>1, <2>1, <2>2
  <1>4. ASSUME NEW i \in DOMAIN p, p[i].type = "sleep",
               NEW j \in DOMAIN p, j > i, p[j].type = "sleep"
        PROVE  p[i].gen < p[j].gen
    <2>1. /\ i + 1 \in DOMAIN q /\ p[i] = q[i + 1]
          /\ j + 1 \in DOMAIN q /\ p[j] = q[j + 1] /\ j + 1 > i + 1
      BY <1>1, <1>4
    <2> QED
      BY <1>4, <2>1 DEF InOrder
  <1>5. InOrder(p, last)
    BY <1>3, <1>4 DEF InOrder
  <1>6. ASSUME Head(q).type = "sleep", NEW g \in Generations, SleepIn(p, g)
        PROVE  Head(q).gen < g
    <2>1. PICK i \in 1 .. Len(p), t \in Triggers : p[i] = Sleep(g, t)
      BY <1>6 DEF SleepIn, Contains
    <2>2. p[i].type = "sleep" /\ p[i].gen = g
      BY <2>1, SleepIsSleep
    <2>3. i + 1 \in DOMAIN q /\ 1 \in DOMAIN q /\ i + 1 > 1 /\ p[i] = q[i + 1]
      BY <1>1, <2>1
    <2>4. q[1].type = "sleep" /\ q[i + 1].type = "sleep" /\ q[i + 1].gen = g
      BY <1>1, <1>6, <2>2, <2>3
    <2>5. q[1].gen < q[i + 1].gen
      BY <2>3, <2>4 DEF InOrder
    <2> QED
      BY <1>1, <2>4, <2>5
  <1> QED
    BY <1>5, <1>6 DEF p

\* What was sent after a sleep that is queued is queued behind it.
LEMMA InOrderBound ==
    ASSUME NEW q \in Seq(Commands), NEW last \in Nat, InOrder(q, last),
           NEW g \in Generations, SleepIn(q, g)
    PROVE  last + 1 <= g + Len(q)
  <1>1. PICK i \in 1 .. Len(q), t \in Triggers : q[i] = Sleep(g, t)
    BY DEF SleepIn, Contains
  <1>2. q[i].type = "sleep" /\ q[i].gen = g
    BY <1>1, SleepIsSleep
  <1>3. last + i <= g + Len(q) /\ i \in Nat /\ i >= 1 /\ g \in Nat /\ Len(q) \in Nat
    BY <1>1, <1>2, GenerationType DEF InOrder
  <1> QED
    BY <1>3

LEMMA InOrderEmpty == ASSUME NEW last PROVE InOrder(<<>>, last)
  BY DEF InOrder

\* The ring's generations rise, the last of them being one already left.
RingRises ==
    \A k \in DOMAIN cancelled :
        /\ cancelled[k] + Len(cancelled) <= power.gen + k
        /\ power.at # "run" => cancelled[k] + Len(cancelled) < power.gen + k

LEMMA RingStill ==
    ASSUME RingRises, TypeOK, TypeOK', cancelled' = cancelled,
           \/ power'.gen = power.gen /\ (power.at = "run" => power'.at = "run")
           \/ power'.gen = power.gen + 1
    PROVE  RingRises'
  <1>1. power.gen \in Nat /\ power'.gen \in Nat
    BY GenerationType DEF TypeOK
  <1>2. \A k \in DOMAIN cancelled : cancelled[k] \in Nat /\ k \in Nat
    <2> SUFFICES ASSUME NEW k \in DOMAIN cancelled
                 PROVE  cancelled[k] \in Nat /\ k \in Nat
      OBVIOUS
    <2>1. cancelled[k] \in Generations /\ k \in Nat
      BY DEF TypeOK
    <2> QED
      BY <2>1, GenerationType
  <1>3. Len(cancelled) \in Nat
    BY DEF TypeOK
  <1> QED
    BY <1>1, <1>2, <1>3 DEF RingRises

LEMMA RingCancels ==
    ASSUME RingRises, TypeOK, power.at # "run", power.gen # 0, Cancel(power.gen),
           power'.at = "run", power'.gen = power.gen
    PROVE  RingRises'
  <1>1. power.gen \in Nat /\ power.gen \in Generations
    BY GenerationType DEF TypeOK
  <1>2. PICK n \in Nat : n = Len(cancelled) /\ DOMAIN cancelled = 1 .. n
    BY DEF TypeOK
  <1>3. \A k \in 1 .. n : cancelled[k] \in Nat /\ cancelled[k] + n < power.gen + k
    <2> SUFFICES ASSUME NEW k \in 1 .. n
                 PROVE  cancelled[k] \in Nat /\ cancelled[k] + n < power.gen + k
      OBVIOUS
    <2>1. cancelled[k] \in Generations
      BY <1>2 DEF TypeOK
    <2> QED
      BY <1>2, <2>1, GenerationType DEF RingRises
  <1>4. CASE n < RingSlots
    <2>1. cancelled' = Append(cancelled, power.gen)
      BY <1>2, <1>4 DEF Cancel
    <2>2. /\ Len(cancelled') = n + 1 /\ DOMAIN cancelled' = (1 .. n) \cup {n + 1}
          /\ \A k \in 1 .. n : cancelled'[k] = cancelled[k]
          /\ cancelled'[n + 1] = power.gen
      BY <1>1, <1>2, <2>1 DEF TypeOK
    <2>3. ASSUME NEW k \in DOMAIN cancelled'
          PROVE  cancelled'[k] + (n + 1) <= power.gen + k
      <3>1. CASE k = n + 1
        BY <1>1, <2>2, <3>1
      <3>2. CASE k \in 1 .. n
        BY <1>1, <1>3, <2>2, <3>2
      <3> QED
        BY <2>2, <3>1, <3>2
    <2> QED
      BY <2>2, <2>3 DEF RingRises
  <1>5. CASE ~(n < RingSlots)
    <2>1. cancelled' = Append(Tail(cancelled), power.gen) /\ n > 0
      BY <1>2, <1>5, SlotsAssumption DEF Cancel
    <2> DEFINE rest == Tail(cancelled)
    <2>2. /\ rest \in Seq(Generations) /\ Len(rest) = n - 1
          /\ \A k \in 1 .. n - 1 : rest[k] = cancelled[k + 1]
      BY <1>2, <2>1 DEF TypeOK
    <2> HIDE DEF rest
    <2>3. cancelled' = Append(rest, power.gen)
      BY <2>1 DEF rest
    <2>4. /\ Len(cancelled') = n /\ DOMAIN cancelled' = 1 .. n
          /\ \A k \in 1 .. n - 1 : cancelled'[k] = rest[k]
          /\ cancelled'[n] = power.gen
      BY <1>1, <1>2, <2>1, <2>2, <2>3
    <2>5. ASSUME NEW k \in 1 .. n
          PROVE  cancelled'[k] + n <= power.gen + k
      <3>1. CASE k = n
        BY <1>1, <1>2, <2>4, <3>1
      <3>2. CASE k # n
        <4>1. k \in 1 .. n - 1 /\ k + 1 \in 1 .. n
          BY <1>2, <3>2
        <4>2. cancelled'[k] = cancelled[k + 1]
          BY <4>1, <2>2, <2>4
        <4>3. cancelled[k + 1] \in Nat /\ cancelled[k + 1] + n < power.gen + (k + 1)
          BY <4>1, <1>3
        <4> QED
          BY <1>1, <1>2, <4>1, <4>2, <4>3
      <3> QED
        BY <3>1, <3>2
    <2> QED
      BY <2>4, <2>5 DEF RingRises
  <1> QED
    BY <1>4, <1>5

\* What the ring forgets was asked for a ring's length ago.
LEMMA RingForgets ==
    ASSUME RingRises, TypeOK, power.at # "run", power.gen # 0, Cancel(power.gen),
           NEW g \in Generations, IsCancelled(g), ~Contains(cancelled', g)
    PROVE  g + RingSlots <= power.gen
  <1>1. power.gen \in Nat /\ power.gen \in Generations /\ g \in Nat /\ RingSlots \in Nat
    BY GenerationType, SlotsAssumption DEF TypeOK
  <1>2. PICK n \in Nat : /\ n = Len(cancelled) /\ DOMAIN cancelled = 1 .. n
                         /\ n <= RingSlots
    BY DEF TypeOK
  <1>3. n = RingSlots
    BY <1>1, <1>2, CancelHas DEF IsCancelled
  <1>4. cancelled # <<>> /\ cancelled' = Append(Tail(cancelled), power.gen)
    BY <1>1, <1>2, <1>3, SlotsAssumption DEF Cancel
  <1>5. g = Head(cancelled) \/ Contains(Tail(cancelled), g)
    BY <1>4, TailHas DEF TypeOK, IsCancelled
  <1>6. Tail(cancelled) \in Seq(Generations)
    BY <1>4 DEF TypeOK
  <1>7. ~Contains(Tail(cancelled), g)
    <2> DEFINE rest == Tail(cancelled)
    <2>1. rest \in Seq(Generations) /\ cancelled' = Append(rest, power.gen)
      BY <1>4, <1>6
    <2> HIDE DEF rest
    <2>2. ~Contains(rest, g)
      BY <1>1, <2>1, AppendHas
    <2> QED
      BY <2>2 DEF rest
  <1>8. g = cancelled[1] /\ 1 \in DOMAIN cancelled
    BY <1>2, <1>3, <1>4, <1>5, <1>7, SlotsAssumption DEF TypeOK
  <1>9. g + n < power.gen + 1
    BY <1>2, <1>8 DEF RingRises
  <1> QED
    BY <1>1, <1>3, <1>9

\* Sleeps are queued in the order of their generations, behind the one in hand
\* and behind all that was answered; one the ring does not know is awaited.
Behind ==
    \A g \in Generations : SleepIn(commands, g) =>
        /\ display.gen < g
        /\ \A h \in Generations, answer \in Answers : AckIn(events, answer, h) => h < g
        /\ ~IsCancelled(g) => power.at = "waiting" /\ power.gen = g

Ordered == InOrder(commands, LastSent) /\ Behind

LEMMA OrderedStill ==
    ASSUME DownInv, Ordered, InOrder(commands', LastSent'), NoNewSleep,
           \A g \in Generations, answer \in Answers : AckIn(events', answer, g) =>
              AckIn(events, answer, g) \/ g = display.gen,
           display'.gen \in {0, display.gen}, cancelled' = cancelled,
           power.at = "waiting" => power'.at = "waiting" /\ power'.gen = power.gen
    PROVE  Ordered'
  <1>1. \A g \in Generations : g \in Nat /\ 0 < g
    BY GenerationType DEF Generations
  <1>2. Behind'
    BY <1>1 DEF Ordered, Behind, NoNewSleep, IsCancelled
  <1> QED
    BY <1>2 DEF Ordered

\* While the power task does not move, or not the number it sent last.
LEMMA LastSentType ==
    ASSUME TypeInv
    PROVE  /\ LastSent \in Nat
           /\ power.at = "run" => LastSent = power.gen
           /\ power.at = "sending" => LastSent + 1 = power.gen
           /\ power.at \notin {"run", "sending"} => LastSent = power.gen
  BY GenerationType DEF LastSent, TypeInv, TypeOK, Minted

LEMMA OrderedApp ==
    ASSUME DownInv, Ordered, App
    PROVE  Ordered'
  <1>0. TypeInv /\ TypeOK /\ LastSent \in Nat /\ commands \in Seq(Commands)
    BY LastSentType DEF DownInv, TypeInv, TypeOK
  <1>1. commands' = commands \/ commands' = Append(commands, Render)
    BY DEF App, Press, Answer, PowerPress, AppSends, AppSettled, Repaint, SendRender
  <1>2. UNCHANGED <<power, display, cancelled>>
    BY DEF App, Press, Answer, PowerPress, AppSends, AppSettled
  <1>3. NoNewSleep
    BY <1>0, <1>1, RenderTells
  <1>4. NoNewAck
    BY <1>0, OfferTells DEF App, Press, Answer, PowerPress, AppSends, AppSettled
  <1>5. InOrder(commands', LastSent)
    BY <1>0, <1>1, InOrderRender DEF Ordered
  <1>6. LastSent' = LastSent
    BY <1>2 DEF LastSent
  <1> QED
    BY <1>2, <1>3, <1>4, <1>5, <1>6, OrderedStill DEF NoNewAck

\* A sleep that goes out is the next of its kind.
LEMMA OrderedSends ==
    ASSUME DownInv, Ordered, NEW last \in Nat, last = LastSent,
           last + 1 \in Generations, NEW t \in Triggers,
           commands' = Append(commands, Sleep(last + 1, t)),
           power'.at = "waiting", power'.gen = last + 1,
           power.at \in {"run", "sending"},
           NoNewAck, UNCHANGED <<display, cancelled>>
    PROVE  Ordered'
  <1>0. /\ TypeInv /\ TypeOK /\ commands \in Seq(Commands) /\ power.gen \in Nat
        /\ last \in {power.gen, power.gen - 1}
        /\ \A g \in Generations : g \in Nat
    BY LastSentType, GenerationType DEF DownInv, TypeInv, TypeOK, LastSent
  <1>1. \A g \in Generations : Sent(g) => g < last + 1
    BY <1>0 DEF Sent, LastSent
  <1>2. \A g \in Generations : SleepIn(commands, g) => g < last + 1
    BY <1>1 DEF DownInv, Down, AllSent
  <1>3. display.gen < last + 1
    BY <1>0, GenerationType DEF Sent, LastSent, DownInv, Down, AllSent, TypeOK
  <1>4. InOrder(commands', last + 1)
    BY <1>0, <1>2, InOrderSleep DEF Ordered
  <1>5. LastSent' = last + 1
    BY DEF LastSent
  <1>6. \A g \in Generations : SleepIn(commands', g) => SleepIn(commands, g) \/ g = last + 1
    <2> DEFINE sleep == Sleep(last + 1, t)
    <2>1. sleep \in Commands /\ sleep.gen = last + 1
      BY SleepIsSleep
    <2>2. commands' = Append(commands, sleep)
      OBVIOUS
    <2> HIDE DEF sleep
    <2> QED
      BY <1>0, <2>1, <2>2, SleepAppend
  <1>7. \A h \in Generations, answer \in Answers : AckIn(events', answer, h) => h < last + 1
    BY <1>1 DEF NoNewAck, DownInv, Down, AllSent
  <1>8. \A g \in Generations : SleepIn(commands, g) => IsCancelled(g)
    BY DEF Ordered, Behind
  <1>9. Behind'
    BY <1>3, <1>6, <1>7, <1>8 DEF Ordered, Behind, NoNewAck, IsCancelled
  <1> QED
    BY <1>4, <1>5, <1>9 DEF Ordered

LEMMA RingPower ==
    ASSUME TypeInv, TypeInv', RingRises, Power \/ IdleTimeout
    PROVE  RingRises'
  <1>0. /\ TypeOK /\ TypeOK' /\ (power.at # "run" => power.gen # 0)
    BY DEF TypeInv, Minted
  <1>1. CASE Cancel(power.gen) /\ StayAwake /\ power.at # "run"
    <2>1. power'.gen = power.gen /\ power'.at = "run"
      BY <1>0, <1>1 DEF StayAwake, TypeOK
    <2> QED
      BY <1>0, <1>1, <2>1, RingCancels
  <1>2. CASE cancelled' = cancelled
    <2>1. \/ power'.gen = power.gen /\ (power.at = "run" => power'.at = "run")
          \/ power'.gen = power.gen + 1
      <3>1. CASE PowerRuns \/ IdleTimeout
        BY <3>1 DEF PowerRuns, IdleTimeout, EnterSleep
      <3>2. CASE PowerSends \/ SettleEnds \/ PowerDown
        BY <1>0, <3>2 DEF PowerSends, SettleEnds, PowerDown, TypeOK
      <3>3. CASE PowerWaits \/ PowerSettles
        BY <1>0, <3>3 DEF PowerWaits, PowerSettles, PowerHears, StayAwake, TypeOK
      <3> QED
        BY <3>1, <3>2, <3>3 DEF Power
    <2> QED
      BY <1>0, <1>2, <2>1, RingStill
  <1> QED
    BY <1>1, <1>2 DEF Power, PowerRuns, IdleTimeout, PowerSends, PowerWaits, PowerSettles,
       SettleEnds, PowerDown

LEMMA RingStep ==
    ASSUME TypeInv, RingRises, [Next]_vars
    PROVE  RingRises'
  <1>0. TypeInv' /\ TypeOK /\ TypeOK'
    BY TypeStep DEF TypeInv
  <1>1. CASE Power \/ IdleTimeout
    BY <1>0, <1>1, RingPower
  <1>2. CASE Wake \/ Exit
    BY <1>2 DEF Wake, Exit, Reboot, RingRises
  <1>3. CASE UNCHANGED <<power, cancelled>>
    BY <1>0, <1>3, RingStill
  <1>4. App \/ Display \/ Session => UNCHANGED <<power, cancelled>>
    BY DEF App, Press, Answer, PowerPress, AppSends, AppSettled, Display, TakeRender,
       RenderSettles, TakeSleep, PanelReady, PanelSleeps, Refused, Acknowledge,
       ParkedResumes, ParkCeiling, Session, UploadSession, DiscardRender, SessionSleep,
       Asked, tasks
  <1>5. Wifi => UNCHANGED <<power, cancelled>> \/ Exit
    BY DEF Wifi, Serve, Request, NoteActivity, EnsureSession, RequestEnds, tasks
  <1>6. UNCHANGED vars => UNCHANGED <<power, cancelled>>
    BY DEF vars, tasks
  <1> QED
    BY <1>1, <1>2, <1>3, <1>4, <1>5, <1>6 DEF Next, Handshake

LEMMA OrderedPower ==
    ASSUME DownInv, TypeInv', RingRises, Ordered, CommandSlots <= RingSlots,
           Power \/ IdleTimeout
    PROVE  Ordered'
  <1>0. /\ TypeInv /\ TypeOK /\ TypeOK' /\ LastSent \in Nat /\ commands \in Seq(Commands)
        /\ power.gen \in Nat /\ Len(commands) \in Nat /\ Len(commands) <= CommandSlots
        /\ power.at # "run" => power.gen \in Generations /\ power.gen # 0
        /\ \A g \in Generations : g \in Nat
    BY LastSentType, GenerationType DEF DownInv, TypeInv, TypeOK, Minted
  <1>1. ASSUME NEW t \in Triggers, EnterSleep(t), power.at = "run", NoNewAck,
               UNCHANGED <<display, cancelled>>
        PROVE  Ordered'
    <2>1. power'.gen = power.gen + 1 /\ LastSent = power.gen
      BY <1>1 DEF EnterSleep, LastSent
    <2>3. CASE RoomToCommand
      <3>1. power.gen + 1 \in Generations
        BY <1>0, <2>1, GenerationType DEF TypeOK
      <3>2. /\ commands' = Append(commands, Sleep(power.gen + 1, t))
            /\ power'.at = "waiting"
        BY <1>1, <2>3 DEF EnterSleep
      <3> QED
        BY <1>0, <1>1, <2>1, <3>1, <3>2, OrderedSends
    <2>4. CASE ~RoomToCommand
      <3>1. commands' = commands /\ power'.at = "sending"
        BY <1>1, <2>4 DEF EnterSleep
      <3>2. LastSent' = LastSent
        BY <1>0, <2>1, <3>1 DEF LastSent
      <3> QED
        BY <1>1, <3>1, <3>2, OrderedStill DEF Ordered, NoNewAck, NoNewSleep
    <2> QED
      BY <2>3, <2>4
  <1>2. CASE PowerRuns
    <2>1. NoNewAck
      BY <1>0, <1>2, ReceiveTells DEF PowerRuns
    <2>2. CASE EnterSleep("explicit")
      <3>1. "explicit" \in Triggers
        BY DEF Triggers
      <3> QED
        BY <1>1, <1>2, <2>1, <2>2, <3>1 DEF PowerRuns
    <2>3. CASE UNCHANGED <<commands, power>>
      <3>1. LastSent' = LastSent
        BY <2>3 DEF LastSent
      <3> QED
        BY <1>2, <2>1, <2>3, <3>1, OrderedStill
           DEF PowerRuns, Ordered, NoNewAck, NoNewSleep
    <2> QED
      BY <1>2, <2>2, <2>3 DEF PowerRuns
  <1>3. CASE IdleTimeout
    <2>1. NoNewAck /\ "idle" \in Triggers
      BY <1>3 DEF IdleTimeout, NoNewAck, Triggers
    <2> QED
      BY <1>1, <1>3, <2>1 DEF IdleTimeout
  <1>4. CASE PowerSends
    <2>1. LastSent + 1 = power.gen /\ power.gen \in Generations /\ power.trigger \in Triggers
      BY <1>0, <1>4, LastSentType DEF PowerSends, TypeOK
    <2>2. power'.gen = power.gen /\ power'.at = "waiting" /\ power.at = "sending"
      BY <1>0, <1>4 DEF PowerSends, TypeOK
    <2>3. PICK last \in Nat : last = LastSent
      BY <1>0
    <2> QED
      BY <1>4, <2>1, <2>2, <2>3, OrderedSends DEF PowerSends, NoNewAck
  <1>5. ASSUME PowerWaits \/ PowerSettles, Cancel(power.gen), StayAwake
        PROVE  Ordered'
    <2>1. /\ power'.gen = power.gen /\ power'.at = "run"
          /\ power.at \in {"waiting", "settling"}
      BY <1>0, <1>5 DEF StayAwake, PowerWaits, PowerSettles, TypeOK
    <2>2. NoNewAck /\ UNCHANGED <<commands, display>>
      BY <1>0, <1>5, ReceiveTells DEF PowerWaits, PowerSettles
    <2>4. LastSent = power.gen /\ LastSent' = power.gen
      BY <2>1 DEF LastSent
    <2>5. ASSUME NEW g \in Generations, SleepIn(commands, g)
          PROVE  Contains(cancelled', g)
      <3>1. CASE IsCancelled(g)
        <4>1. SUFFICES ASSUME ~Contains(cancelled', g) PROVE FALSE
          OBVIOUS
        <4>2. g + RingSlots <= power.gen
          BY <1>0, <1>5, <2>1, <3>1, <4>1, RingForgets
        <4>3. power.gen + 1 <= g + Len(commands)
          BY <1>0, <2>4, <2>5, InOrderBound DEF Ordered
        <4> QED
          BY <1>0, <4>2, <4>3, SlotsAssumption
      <3>2. CASE ~IsCancelled(g)
        <4>1. power.gen = g
          BY <2>5, <3>2 DEF Ordered, Behind
        <4> QED
          BY <1>0, <1>5, <2>1, <4>1, CancelHas
      <3> QED
        BY <3>1, <3>2
    <2>6. Behind'
      BY <2>2, <2>5 DEF Ordered, Behind, NoNewAck, IsCancelled
    <2> QED
      BY <2>2, <2>4, <2>6 DEF Ordered
  <1>6. ASSUME PowerWaits, ~CallsOff(Head(events))
        PROVE  Ordered'
    <2>1. /\ NoNewAck /\ UNCHANGED <<commands, cancelled, display>>
          /\ power.at = "waiting" /\ power.gen \in Generations
          /\ PowerHears(Head(events))
      BY <1>0, <1>6, ReceiveTells DEF PowerWaits
    <2>2. power'.gen = power.gen /\ power'.at \in {"waiting", "run", "settling", "pin"}
      BY <1>0, <2>1 DEF PowerHears, StayAwake, TypeOK
    <2>4. LastSent' = LastSent
      BY <2>1, <2>2 DEF LastSent
    <2>5. CASE power'.at = "waiting"
      BY <2>1, <2>2, <2>4, <2>5, OrderedStill DEF Ordered, NoNewAck, NoNewSleep
    <2>6. CASE power'.at # "waiting"
      <3>1. \E answer \in Answers : Head(events) = Acked(answer, power.gen)
        BY <1>0, <2>1, <2>6 DEF PowerHears, StayAwake, Answers, TypeOK
      <3>2. \E answer \in Answers : AckIn(events, answer, power.gen)
        BY <1>0, <1>6, <2>1, <3>1, AckTail DEF PowerWaits
      <3>3. \A g \in Generations : SleepIn(commands, g) => power.gen < g
        BY <2>1, <3>2 DEF Ordered, Behind
      <3>4. Behind'
        BY <1>0, <2>1, <3>3 DEF Ordered, Behind, NoNewAck, IsCancelled
      <3> QED
        BY <2>1, <2>4, <3>4 DEF Ordered
    <2> QED
      BY <2>5, <2>6
  <1>7. ASSUME \/ PowerSettles /\ ~CallsOff(Head(events))
               \/ SettleEnds \/ PowerDown
        PROVE  Ordered'
    <2>1. /\ power'.gen = power.gen /\ power.at \in {"settling", "pin"}
          /\ power'.at \in {"settling", "pin", "off"}
          /\ UNCHANGED <<commands, cancelled, display>>
      BY <1>0, <1>7 DEF PowerSettles, SettleEnds, PowerDown, TypeOK
    <2>2. NoNewAck
      BY <1>0, <1>7, ReceiveTells DEF PowerSettles, SettleEnds, PowerDown, NoNewAck
    <2>3. LastSent' = LastSent
      BY <2>1 DEF LastSent
    <2> QED
      BY <2>1, <2>2, <2>3, OrderedStill DEF Ordered, NoNewAck, NoNewSleep
  <1> QED
    BY <1>2, <1>3, <1>4, <1>5, <1>6, <1>7 DEF Power, PowerWaits, PowerSettles

LEMMA OrderedDisplay ==
    ASSUME DownInv, Ordered, Display
    PROVE  Ordered'
  <1>0. /\ TypeInv /\ TypeOK /\ LastSent \in Nat /\ commands \in Seq(Commands)
        /\ display \in DisplayRecords
        /\ Holds => display.gen \in Generations
    BY LastSentType, GenerationType DEF DownInv, TypeInv, TypeOK, Minted, DisplayRecords
  <1>1. UNCHANGED <<power, cancelled>>
    BY DEF Display, TakeRender, RenderSettles, TakeSleep, PanelReady, PanelSleeps, Refused,
       Acknowledge, ParkedResumes, ParkCeiling
  <1>2. LastSent' = LastSent
    BY <1>1 DEF LastSent
  <1>3. CASE TakeRender
    <2>1. commands # <<>> /\ commands' = Tail(commands) /\ events' = events
      BY <1>3 DEF TakeRender, Takes
    <2>2. display'.gen = display.gen
      BY <1>0, <1>3 DEF TakeRender, At, DisplayRecords
    <2>3. InOrder(commands', LastSent) /\ NoNewSleep
      BY <1>0, <2>1, InOrderTail, TakeTells DEF Ordered
    <2> QED
      BY <1>1, <1>2, <2>1, <2>2, <2>3, OrderedStill
  <1>4. CASE TakeSleep
    <2> DEFINE sleep == Head(commands)
    <2>1. /\ commands # <<>> /\ commands' = Tail(commands) /\ events' = events
          /\ sleep.type = "sleep"
      BY <1>4 DEF TakeSleep, Takes
    <2>2. display'.gen \in {display.gen, sleep.gen}
      BY <1>4 DEF TakeSleep, SkipSleep, RefuseSleep, DrainToCard, Holding
    <2>3. /\ InOrder(commands', LastSent) /\ NoNewSleep
          /\ \A g \in Generations : SleepIn(commands', g) => sleep.gen < g
      BY <1>0, <2>1, InOrderTail, TakeTells DEF Ordered
    <2> HIDE DEF sleep
    <2>4. Behind'
      BY <1>1, <2>1, <2>2, <2>3 DEF Ordered, Behind, NoNewSleep, IsCancelled
    <2> QED
      BY <1>2, <2>3, <2>4 DEF Ordered
  <1>5. ASSUME Holds, NEW answer \in Answers, PlaceEvent(Acked(answer, display.gen))
        PROVE  \A g \in Generations, a \in Answers : AckIn(events', a, g) =>
                  AckIn(events, a, g) \/ g = display.gen
    <2>1. Acked(answer, display.gen) \in Events
      BY <1>0, <1>5, EventTypes DEF Answers
    <2>2. CASE events' = Append(events, Acked(answer, display.gen))
      BY <1>0, <1>5, <2>1, <2>2, AckAppend, AckIsOne
    <2>3. CASE events' = events
      BY <2>3
    <2> QED
      BY <1>5, <2>2, <2>3 DEF PlaceEvent
  <1>6. ASSUME commands' = commands \/ commands' = Append(commands, Render)
        PROVE  InOrder(commands', LastSent') /\ NoNewSleep
    BY <1>0, <1>2, <1>6, InOrderRender, RenderTells DEF Ordered
  <1>7. CASE RenderSettles \/ PanelReady \/ PanelSleeps \/ Refused \/ Acknowledge
               \/ ParkedResumes \/ ParkCeiling
    <2>1. commands' = commands \/ commands' = Append(commands, Render)
      BY <1>7 DEF RenderSettles, PanelReady, PanelSleeps, Refused, Acknowledge,
         ParkedResumes, ParkCeiling, Park, Restore
    <2>2. display'.gen \in {0, display.gen}
      BY <1>0, <1>7 DEF RenderSettles, PanelReady, PanelSleeps, Refused, Acknowledge,
         ParkedResumes, ParkCeiling, Park, Restore, At, BackToLoop, InLoop, DisplayRecords
    <2>3. \A g \in Generations, answer \in Answers : AckIn(events', answer, g) =>
              AckIn(events, answer, g) \/ g = display.gen
      <3>1. CASE Refused
        BY <1>5, <3>1 DEF Refused, Holds, InHandAt, Answers
      <3>2. CASE Acknowledge
        BY <1>5, <3>2 DEF Acknowledge, Holds, InHandAt, Answers
      <3>3. CASE events' = events
        BY <3>3
      <3> QED
        BY <1>7, <3>1, <3>2, <3>3 DEF RenderSettles, PanelReady, PanelSleeps,
           ParkedResumes, ParkCeiling
    <2> QED
      BY <1>1, <1>6, <2>1, <2>2, <2>3, OrderedStill
  <1> QED
    BY <1>3, <1>4, <1>7 DEF Display

LEMMA OrderedReboot == ASSUME Reboot PROVE Ordered' /\ RingRises'
  <1>1. commands' = <<>> /\ cancelled' = <<>>
    BY DEF Reboot
  <1> QED
    BY <1>1, InOrderEmpty, EmptyHas DEF Ordered, Behind, SleepIn, RingRises

LEMMA OrderedInit == ASSUME Init PROVE Ordered /\ RingRises
  BY InOrderEmpty, EmptyHas DEF Init, Ordered, Behind, SleepIn, RingRises

LEMMA OrderedStep ==
    ASSUME DownInv, RingRises, Ordered, CommandSlots <= RingSlots, Handshake
    PROVE  Ordered'
  <1>1. TypeInv'
    BY TypeStep DEF DownInv, Next
  <1>2. Wake => Reboot
    BY DEF Wake
  <1> QED
    BY <1>1, <1>2, OrderedApp, OrderedPower, OrderedDisplay, OrderedReboot DEF Handshake

\* With a ring as long as the display's queue, as the device has them, a sleep
\* that was called off is still known as such when its turn comes, however many
\* were asked for and called off since.
THEOREM RingIsLongEnough ==
    ASSUME CommandSlots <= RingSlots
    PROVE  Spec => []CalledOffStaysKnown
  <1> DEFINE Inv == DownInv /\ RingRises /\ Ordered
  <1>1. Init => Inv
    BY TypeInit, DownInit, OrderedInit DEF DownInv
  <1>2. Inv /\ [Handshake]_vars => Inv'
    <2> SUFFICES ASSUME Inv, [Handshake]_vars PROVE Inv'
      OBVIOUS
    <2>1. [Next]_vars
      BY DEF Next
    <2>2. DownInv' /\ RingRises'
      BY <2>1, DownStep, RingStep DEF DownInv
    <2>3. CASE Handshake
      BY <2>2, <2>3, OrderedStep
    <2>4. CASE UNCHANGED vars
      <3>1. Ordered'
        BY <2>4 DEF vars, tasks, Ordered, Behind, LastSent, IsCancelled
      <3> QED
        BY <2>2, <3>1
    <2> QED
      BY <2>3, <2>4
  <1>3. Inv => CalledOffStaysKnown
    <2> SUFFICES ASSUME Inv, NEW i \in DOMAIN commands, commands[i].type = "sleep",
                        ~IsCancelled(commands[i].gen)
                 PROVE  power.at = "waiting" /\ power.gen = commands[i].gen
      BY DEF CalledOffStaysKnown
    <2>1. commands \in Seq(Commands)
      BY DEF DownInv, TypeInv, TypeOK
    <2>2. /\ commands[i] \in Commands /\ commands[i].gen \in Generations
          /\ commands[i].trigger \in Triggers
          /\ commands[i] = Sleep(commands[i].gen, commands[i].trigger)
      BY <2>1, SleepInHandType
    <2>3. SleepIn(commands, commands[i].gen)
      BY <2>1, <2>2 DEF SleepIn, Contains
    <2> QED
      BY <2>2, <2>3 DEF Ordered, Behind
  <1> HIDE DEF Inv
  <1> QED
    BY <1>1, <1>2, <1>3, PTL DEF Spec

-----------------------------------------------------------------------------
(***************************************************************************)
(* An upload is not broken off for an idle sleep.  A session that has to   *)
(* ask puts the upload to the power task as activity; either that calls    *)
(* the sleep off, or the power task has heard a press meanwhile.           *)
(***************************************************************************)
\* The sleep in hand, if any, goes where it went before or to an answer; the
\* hand takes only what was queued.
Moved ==
    /\ \A g \in Generations : SleepIn(commands', g) =>
          SleepIn(commands, g) \/ (Holds /\ g = display.gen)
    /\ \A g \in Generations, answer \in Answers : AckIn(events', answer, g) =>
          AckIn(events, answer, g) \/ (Holds /\ g = display.gen)
    /\ Holds' => (Holds /\ display'.gen = display.gen) \/ SleepIn(commands, display'.gen)

LEMMA DisplayMoves ==
    ASSUME TypeInv, Display
    PROVE  Moved
  <1>0. /\ TypeOK /\ commands \in Seq(Commands) /\ display \in DisplayRecords
        /\ Holds => display.gen \in Generations
    BY GenerationType DEF TypeInv, TypeOK, Minted, DisplayRecords
  <1>1. \A g \in Generations : SleepIn(commands', g) => SleepIn(commands, g)
    <2>1. CASE commands # <<>> /\ commands' = Tail(commands)
      BY <1>0, <2>1, TakeTells DEF NoNewSleep
    <2>2. CASE commands' = commands \/ commands' = Append(commands, Render)
      BY <1>0, <2>2, RenderTells DEF NoNewSleep
    <2> QED
      BY <2>1, <2>2 DEF Display, TakeRender, RenderSettles, TakeSleep, PanelReady,
         PanelSleeps, Refused, Acknowledge, ParkedResumes, ParkCeiling, Takes, Park, Restore
  <1>2. ASSUME Holds, NEW answer \in Answers, PlaceEvent(Acked(answer, display.gen))
        PROVE  \A g \in Generations, a \in Answers : AckIn(events', a, g) =>
                  AckIn(events, a, g) \/ g = display.gen
    <2>1. Acked(answer, display.gen) \in Events
      BY <1>0, <1>2, EventTypes DEF Answers
    <2>2. CASE events' = Append(events, Acked(answer, display.gen))
      BY <1>0, <1>2, <2>1, <2>2, AckAppend, AckIsOne
    <2>3. CASE events' = events
      BY <2>3
    <2> QED
      BY <1>2, <2>2, <2>3 DEF PlaceEvent
  <1>3. \A g \in Generations, answer \in Answers : AckIn(events', answer, g) =>
            AckIn(events, answer, g) \/ (Holds /\ g = display.gen)
    <2>1. CASE Refused
      BY <1>2, <2>1 DEF Refused, Holds, InHandAt, Answers
    <2>2. CASE Acknowledge
      BY <1>2, <2>2 DEF Acknowledge, Holds, InHandAt, Answers
    <2>3. CASE events' = events
      BY <2>3
    <2> QED
      BY <2>1, <2>2, <2>3 DEF Display, TakeRender, RenderSettles, TakeSleep, PanelReady,
         PanelSleeps, ParkedResumes, ParkCeiling
  <1>4. Holds' => (Holds /\ display'.gen = display.gen) \/ SleepIn(commands, display'.gen)
    <2>1. CASE TakeSleep
      <3> DEFINE sleep == Head(commands)
      <3>1. commands # <<>> /\ sleep.type = "sleep" /\ sleep \in Commands
        BY <1>0, <2>1, TakeType DEF TakeSleep, Takes
      <3>2. sleep.gen \in Generations /\ SleepIn(commands, sleep.gen)
        BY <1>0, <3>1, SleepInHandType, SleepTail
      <3>3. display' = display \/ display'.gen = sleep.gen
        BY <2>1 DEF TakeSleep, SkipSleep, RefuseSleep, DrainToCard, Holding
      <3> QED
        BY <3>2, <3>3 DEF Holds
    <2>2. CASE ~TakeSleep
      BY <1>0, <2>2 DEF Display, TakeRender, RenderSettles, PanelReady, PanelSleeps,
         Refused, Acknowledge, ParkedResumes, ParkCeiling, Park, Restore, At, BackToLoop,
         InLoop, Holds, InHandAt, DisplayRecords
    <2> QED
      BY <2>1, <2>2
  <1> QED
    BY <1>1, <1>3, <1>4 DEF Moved

\* What FinishSession puts back.
LEMMA FinishMoves ==
    ASSUME NEW queue \in Seq(Commands), NEW sleep, sleep.gen \in Generations,
           sleep.trigger \in Triggers, FinishSession(sleep, queue)
    PROVE  /\ \A g \in Generations : SleepIn(commands', g) =>
                 SleepIn(queue, g) \/ g = sleep.gen
           /\ ~Holds' /\ display'.at = "loop"
           /\ commands'[Len(commands')].trigger = sleep.trigger
  <1> DEFINE back == Sleep(sleep.gen, sleep.trigger)
  <1>1. back \in Commands /\ back.gen = sleep.gen /\ back.trigger = sleep.trigger
    BY SleepIsSleep
  <1>2. commands' = Append(queue, back) /\ display' = InLoop
    BY DEF FinishSession, BackToLoop
  <1> HIDE DEF back
  <1>3. commands'[Len(commands')] = back
    BY <1>1, <1>2
  <1> QED
    BY <1>1, <1>2, <1>3, SleepAppend DEF Holds, InHandAt, InLoop

LEMMA SessionMoves ==
    ASSUME TypeInv, Session
    PROVE  Moved
  <1>0. /\ TypeOK /\ commands \in Seq(Commands) /\ display \in DisplayRecords
        /\ Holds => display.gen \in Generations
        /\ display.trigger \in Triggers
    BY GenerationType DEF TypeInv, TypeOK, Minted, DisplayRecords
  <1>1. CASE UploadSession \/ DiscardRender
    <2>1. NoNewSleep
      <3>1. CASE commands' = commands
        BY <3>1 DEF NoNewSleep
      <3>2. CASE commands # <<>> /\ commands' = Tail(commands)
        BY <1>0, <3>2, TakeTells
      <3> QED
        BY <1>1, <3>1, <3>2 DEF UploadSession, DiscardRender, Takes
    <2>2. events' = events /\ ~Holds'
      BY <1>0, <1>1 DEF UploadSession, DiscardRender, At, Holds, InHandAt, InSession,
         DisplayRecords, tasks
    <2> QED
      BY <2>1, <2>2 DEF Moved, NoNewSleep
  <1>2. CASE SessionSleep
    <2> DEFINE sleep == Head(commands)
               rest  == Tail(commands)
    <2>1. commands # <<>> /\ sleep.type = "sleep" /\ ~Holds
      BY <1>2 DEF SessionSleep, Takes, InSession, Holds, InHandAt
    <2>2. /\ sleep \in Commands /\ sleep.gen \in Generations /\ sleep.trigger \in Triggers
          /\ SleepIn(commands, sleep.gen) /\ rest \in Seq(Commands)
          /\ \A g \in Generations : SleepIn(rest, g) => SleepIn(commands, g)
      BY <1>0, <2>1, TakeType, SleepInHandType, SleepTail
    <2>3. \/ commands' = rest /\ UNCHANGED <<events, display>>
          \/ Offer(BrowserActivity) /\ Holding("asking", sleep, FALSE) /\ commands' = rest
          \/ FinishSession(sleep, rest) /\ UNCHANGED events
      BY <1>2 DEF SessionSleep
    <2> HIDE DEF sleep, rest
    <2>4. NoNewAck
      BY <1>0, <2>3, OfferTells
    <2>5. CASE commands' = rest
      <3>1. Holds' => display'.gen = sleep.gen
        BY <1>2, <2>1, <2>3, <2>5, <2>2, FinishMoves DEF Holding, Holds
      <3> QED
        BY <2>2, <2>4, <2>5, <3>1 DEF Moved, NoNewAck
    <2>6. CASE FinishSession(sleep, rest)
      BY <2>2, <2>4, <2>6, FinishMoves DEF Moved, NoNewAck
    <2> QED
      BY <2>3, <2>5, <2>6
  <1>3. CASE Asked
    <2>1. Holds /\ events' = events
      BY <1>3 DEF Asked, Holds, InHandAt
    <2>2. CASE BackToSession /\ commands' = commands
      BY <2>1, <2>2 DEF Moved, BackToSession, InLoop, Holds, InHandAt
    <2>3. CASE FinishSession(display, commands)
      BY <1>0, <2>1, <2>3, FinishMoves DEF Moved
    <2> QED
      BY <1>3, <2>2, <2>3 DEF Asked
  <1> QED
    BY <1>1, <1>2, <1>3 DEF Session

\* An idle sleep under way is the only one there is: the three minutes before
\* it saw all others off.
IdleAlone ==
    power.trigger = "idle" /\ power.at \in {"sending", "waiting"} =>
        /\ \A g \in Generations : SleepIn(commands, g) => g = power.gen
        /\ \A g \in Generations, answer \in Answers :
              AckIn(events, answer, g) => g = power.gen
        /\ Holds => display.gen = power.gen

LEMMA IdleMoves ==
    ASSUME TypeInv, TypeInv', IdleAlone, Moved, power' = power
    PROVE  IdleAlone'
  <1>1. Holds' => display'.gen \in Generations
    BY GenerationType DEF TypeInv, TypeOK, Minted
  <1> QED
    BY <1>1 DEF IdleAlone, Moved

LEMMA IdlePower ==
    ASSUME DownInv, TypeInv', IdleAlone, Power \/ IdleTimeout
    PROVE  IdleAlone'
  <1>0. /\ TypeOK /\ commands \in Seq(Commands)
        /\ power.at # "run" => power.gen \in Generations
    BY GenerationType DEF DownInv, TypeInv, TypeOK, Minted
  <1>1. CASE PowerRuns
    <2>1. power'.at = "run" \/ power'.trigger = "explicit"
      BY <1>1 DEF PowerRuns, EnterSleep
    <2> QED
      BY <2>1 DEF IdleAlone
  <1>2. CASE IdleTimeout
    <2>1. commands = <<>> /\ events' = <<>> /\ ~Holds'
      BY <1>2 DEF IdleTimeout, Holds, InHandAt
    <2>2. \A g \in Generations : SleepIn(commands', g) => g = power'.gen
      <3>1. CASE RoomToCommand
        <4> DEFINE sleep == Sleep(power.gen + 1, "idle")
        <4>1. power'.gen = power.gen + 1 /\ commands' = Append(commands, sleep)
          BY <1>2, <3>1 DEF IdleTimeout, EnterSleep
        <4>2. power.gen + 1 \in Generations /\ "idle" \in Triggers
          BY <4>1, GenerationType DEF TypeInv, TypeOK, Triggers, DownInv
        <4>3. sleep \in Commands /\ sleep.gen = power.gen + 1
          BY <4>2, SleepIsSleep
        <4> HIDE DEF sleep
        <4>4. \A g \in Generations : ~SleepIn(commands, g)
          BY <2>1, EmptyHas DEF SleepIn
        <4> QED
          BY <1>0, <4>1, <4>3, <4>4, SleepAppend
      <3>2. CASE ~RoomToCommand
        <4>1. commands' = <<>>
          BY <1>2, <2>1, <3>2 DEF IdleTimeout, EnterSleep
        <4> QED
          BY <4>1, EmptyHas DEF SleepIn
      <3> QED
        BY <3>1, <3>2
    <2>3. \A g \in Generations, answer \in Answers : ~AckIn(events', answer, g)
      BY <2>1, EmptyHas DEF AckIn
    <2> QED
      BY <2>1, <2>2, <2>3 DEF IdleAlone
  <1>3. CASE PowerSends
    <2>1. /\ power'.gen = power.gen /\ power'.trigger = power.trigger
          /\ power.at = "sending" /\ UNCHANGED <<events, display>>
      BY <1>0, <1>3 DEF PowerSends, TypeOK
    <2>2. \A g \in Generations : SleepIn(commands', g) => SleepIn(commands, g) \/ g = power.gen
      <3> DEFINE sleep == Sleep(power.gen, power.trigger)
      <3>1. sleep \in Commands /\ sleep.gen = power.gen
        BY <1>0, <2>1, SleepIsSleep DEF TypeOK
      <3>2. commands' = Append(commands, sleep)
        BY <1>3 DEF PowerSends
      <3> HIDE DEF sleep
      <3> QED
        BY <1>0, <3>1, <3>2, SleepAppend
    <2> QED
      BY <2>1, <2>2 DEF IdleAlone, Holds
  <1>4. CASE PowerWaits
    <2>1. /\ power'.gen = power.gen /\ power.at = "waiting"
          /\ power'.at = "waiting" /\ power'.trigger = "idle" => power.trigger = "idle"
      BY <1>0, <1>4 DEF PowerWaits, PowerHears, StayAwake, TypeOK
    <2>2. NoNewAck /\ UNCHANGED <<commands, display>>
      BY <1>0, <1>4, ReceiveTells DEF PowerWaits
    <2>3. power'.at # "sending"
      BY <1>0, <1>4 DEF PowerWaits, PowerHears, StayAwake, TypeOK
    <2> QED
      BY <2>1, <2>2, <2>3 DEF IdleAlone, Holds, NoNewAck
  <1>5. CASE PowerSettles \/ SettleEnds \/ PowerDown
    <2>1. power'.at \notin {"sending", "waiting"}
      BY <1>0, <1>5 DEF PowerSettles, SettleEnds, PowerDown, StayAwake, TypeOK
    <2> QED
      BY <2>1 DEF IdleAlone
  <1> QED
    BY <1>1, <1>2, <1>3, <1>4, <1>5 DEF Power

LEMMA IdleStep ==
    ASSUME DownInv, IdleAlone, [Next]_vars
    PROVE  IdleAlone'
  <1>0. TypeInv /\ TypeInv' /\ TypeOK
    BY TypeStep DEF DownInv, TypeInv
  <1>1. CASE App \/ Wifi \/ UNCHANGED vars
    <2>1. CASE Exit
      BY <2>1 DEF Exit, Reboot, Running, IdleAlone
    <2>2. CASE ~Exit
      <3>1. UNCHANGED <<power, display>>
        BY <1>1, <2>2 DEF App, Press, Answer, PowerPress, AppSends, AppSettled, Wifi,
           Serve, Request, NoteActivity, EnsureSession, RequestEnds, tasks, vars
      <3>2. NoNewSleep
        BY <1>0, <1>1, <2>2, RenderTells DEF App, Press, Answer, PowerPress, AppSends,
           AppSettled, Repaint, SendRender, Wifi, Serve, Request, NoteActivity,
           EnsureSession, RequestEnds, tasks, vars
      <3>3. NoNewAck
        BY <1>0, <1>1, <2>2, OfferTells DEF App, Press, Answer, PowerPress, AppSends,
           AppSettled, Wifi, Serve, Request, NoteActivity, EnsureSession, RequestEnds,
           tasks, vars
      <3> QED
        BY <1>0, <3>1, <3>2, <3>3, IdleMoves DEF Moved, NoNewSleep, NoNewAck, Holds
    <2> QED
      BY <2>1, <2>2
  <1>2. CASE Display \/ Session
    <2>1. Moved
      BY <1>0, <1>2, DisplayMoves, SessionMoves
    <2>2. power' = power
      BY <1>2 DEF Display, TakeRender, RenderSettles, TakeSleep, PanelReady, PanelSleeps,
         Refused, Acknowledge, ParkedResumes, ParkCeiling, Session, UploadSession,
         DiscardRender, SessionSleep, Asked, tasks
    <2> QED
      BY <1>0, <2>1, <2>2, IdleMoves
  <1>3. CASE Wake
    BY <1>3 DEF Wake, Reboot, Running, IdleAlone
  <1> QED
    BY <1>0, <1>1, <1>2, <1>3, IdlePower DEF Next, Handshake

\* While a session stands nothing is put back into the queue, which it found
\* empty.
SessionOrdered == SessionStands => Ordered

LEMMA SessionOrderedStep ==
    ASSUME DownInv, RingRises, SessionOrdered, CommandSlots <= RingSlots, [Next]_vars
    PROVE  SessionOrdered'
  <1>0. /\ TypeInv /\ TypeOK /\ LastSent \in Nat /\ commands \in Seq(Commands)
        /\ display \in DisplayRecords
    BY LastSentType DEF DownInv, TypeInv, TypeOK, DisplayRecords
  <1> SUFFICES ASSUME SessionStands' PROVE Ordered'
    BY DEF SessionOrdered
  <1>1. CASE Handshake
    <2>1. CASE Wake
      BY <2>1, OrderedReboot DEF Wake
    <2>2. CASE ~Wake
      <3>1. ~Display
        BY <1>0 DEF Display, TakeRender, RenderSettles, TakeSleep, PanelReady, PanelSleeps,
           Refused, Acknowledge, ParkedResumes, ParkCeiling, SkipSleep, RefuseSleep,
           DrainToCard, Holding, Park, Restore, At, BackToLoop, InLoop, DisplayRecords,
           SessionStands, InSession
      <3>2. display' = display
        BY <1>1, <2>2, <3>1 DEF Handshake, App, Press, Answer, PowerPress, AppSends,
           AppSettled, Power, PowerRuns, PowerSends, PowerWaits, PowerSettles, SettleEnds,
           PowerDown, IdleTimeout
      <3>3. Ordered
        BY <3>2 DEF SessionOrdered, SessionStands, InSession
      <3> QED
        BY <1>1, <3>3, OrderedStep
    <2> QED
      BY <2>1, <2>2
  <1>2. CASE UploadSession
    <2>1. commands' = <<>>
      BY <1>2 DEF UploadSession
    <2> QED
      BY <2>1, InOrderEmpty, EmptyHas DEF Ordered, Behind, SleepIn
  <1>3. CASE DiscardRender
    <2>1. /\ commands # <<>> /\ commands' = Tail(commands)
          /\ UNCHANGED <<events, cancelled, power, display>>
      BY <1>3 DEF DiscardRender, Takes, tasks
    <2>2. Ordered
      BY <1>3 DEF DiscardRender, SessionOrdered, SessionStands
    <2>3. InOrder(commands', LastSent) /\ NoNewSleep
      BY <1>0, <2>1, <2>2, InOrderTail, TakeTells DEF Ordered
    <2>4. LastSent' = LastSent
      BY <2>1 DEF LastSent
    <2> QED
      BY <2>1, <2>2, <2>3, <2>4, OrderedStill
  <1>4. CASE SessionSleep
    <2> DEFINE sleep == Head(commands)
    <2>1. /\ commands # <<>> /\ sleep.type = "sleep"
          /\ UNCHANGED <<cancelled, power>> /\ Ordered
      BY <1>4 DEF SessionSleep, Takes, SessionOrdered, SessionStands
    <2>2. /\ commands' = Tail(commands)
          /\ \/ UNCHANGED <<events, display>>
             \/ Offer(BrowserActivity) /\ display'.gen = sleep.gen
      BY <1>4 DEF SessionSleep, SessionStands, InSession, FinishSession, BackToLoop, InLoop,
         Holding
    <2>3. NoNewAck
      BY <1>0, <2>2, OfferTells DEF NoNewAck
    <2>4. /\ InOrder(commands', LastSent) /\ NoNewSleep
          /\ \A g \in Generations : SleepIn(commands', g) => sleep.gen < g
      BY <1>0, <2>1, <2>2, InOrderTail, TakeTells DEF Ordered
    <2>5. LastSent' = LastSent
      BY <2>1 DEF LastSent
    <2> HIDE DEF sleep
    <2>6. Behind'
      BY <2>1, <2>2, <2>3, <2>4 DEF Ordered, Behind, NoNewSleep, NoNewAck, IsCancelled
    <2> QED
      BY <2>4, <2>5, <2>6 DEF Ordered
  <1>5. CASE Asked
    <2>1. /\ UNCHANGED <<commands, events, cancelled, power>>
          /\ display'.gen = 0 /\ Ordered
      BY <1>5 DEF Asked, SessionStands, InSession, FinishSession, BackToLoop, BackToSession,
         InLoop, SessionOrdered
    <2>2. LastSent' = LastSent
      BY <2>1 DEF LastSent
    <2> QED
      BY <2>1, <2>2, OrderedStill DEF Ordered, NoNewSleep
  <1>6. CASE Wifi \/ UNCHANGED vars
    <2>1. CASE Exit
      BY <2>1, OrderedReboot DEF Exit
    <2>2. CASE ~Exit
      <3>1. UNCHANGED <<commands, cancelled, power, display>>
        BY <1>6, <2>2 DEF Wifi, Serve, Request, NoteActivity, EnsureSession, RequestEnds,
           tasks, vars
      <3>2. NoNewAck
        BY <1>0, <1>6, <2>2, OfferTells DEF Wifi, Serve, Request, NoteActivity,
           EnsureSession, RequestEnds, tasks, vars
      <3>3. Ordered /\ LastSent' = LastSent
        BY <3>1 DEF SessionOrdered, SessionStands, InSession, LastSent
      <3> QED
        BY <3>1, <3>2, <3>3, OrderedStill DEF Ordered, NoNewSleep, NoNewAck
    <2> QED
      BY <2>1, <2>2
  <1> QED
    BY <1>1, <1>2, <1>3, <1>4, <1>5, <1>6 DEF Next, Session

\* Something that will call an idle sleep off or make it the reader's own.
Heard == \E e \in {Activity, BrowserActivity, SleepNow} : Contains(events, e)

\* The sleep asked about is known to have been called off, or awaited by a power
\* task that has heard, or will hear, of the upload or of a press; if it is
\* neither, so many others have been sent since that the queue is full.
AskedFor ==
    display.at = "asking" =>
        /\ LastSent <= display.gen + Len(commands)
        /\ \A g \in Generations, answer \in Answers :
              AckIn(events, answer, g) => g < display.gen
        /\ \/ IsCancelled(display.gen)
           \/ ~RoomToCommand
           \/ /\ power.at = "waiting" /\ power.gen = display.gen
              /\ power.trigger = "explicit" \/ Heard

AskInv == DownInv /\ RingRises /\ SessionOrdered /\ IdleAlone /\ AskedFor

\* While it is asked, the queue only grows and the events are only added to.
LEMMA AskedStill ==
    ASSUME TypeInv, TypeInv', AskedFor, display' = display, cancelled' = cancelled,
           power' = power, Len(commands') >= Len(commands),
           NoNewAck, Heard => Heard'
    PROVE  AskedFor'
  <1>1. /\ display.gen \in Nat /\ LastSent \in Nat
        /\ Len(commands) \in Nat /\ Len(commands') \in Nat
    BY LastSentType, GenerationType DEF TypeInv, TypeOK
  <1>2. LastSent' = LastSent
    BY DEF LastSent
  <1> QED
    BY <1>1, <1>2, SlotsAssumption DEF AskedFor, NoNewAck, IsCancelled, RoomToCommand

LEMMA AskedPower ==
    ASSUME AskInv, TypeInv', CommandSlots <= RingSlots, Power \/ IdleTimeout
    PROVE  AskedFor'
  <1>0. /\ TypeInv /\ TypeOK /\ TypeOK' /\ LastSent \in Nat
        /\ commands \in Seq(Commands) /\ Len(commands) \in Nat
        /\ power.gen \in Nat /\ display.gen \in Nat
        /\ power.at # "run" => power.gen \in Generations /\ power.gen # 0
        /\ Holds => display.gen \in Generations
    BY LastSentType, GenerationType DEF AskInv, DownInv, TypeInv, TypeOK, Minted
  <1>1. display' = display
    BY DEF Power, PowerRuns, PowerSends, PowerWaits, PowerSettles, SettleEnds, PowerDown,
       IdleTimeout
  <1> SUFFICES ASSUME display.at = "asking"
               PROVE  AskedFor'
    BY <1>1 DEF AskedFor
  <1>2. /\ display.gen \in Generations
        /\ LastSent <= display.gen + Len(commands)
        /\ \A g \in Generations, answer \in Answers :
              AckIn(events, answer, g) => g < display.gen
        /\ \/ IsCancelled(display.gen) \/ ~RoomToCommand
           \/ /\ power.at = "waiting" /\ power.gen = display.gen
              /\ power.trigger = "explicit" \/ Heard
    BY <1>0 DEF AskInv, AskedFor, Holds, InHandAt
  \* A sleep that goes out takes the room it is counted by.
  <1>3. ASSUME commands' = commands \/ Len(commands') = Len(commands) + 1,
               LastSent' = LastSent \/ (LastSent' = LastSent + 1
                                          /\ Len(commands') = Len(commands) + 1),
               power.at # "waiting", NoNewAck, cancelled' = cancelled
        PROVE  AskedFor'
    <2>1. Len(commands') \in Nat /\ Len(commands') >= Len(commands)
      BY <1>0, <1>3
    <2>2. LastSent' <= display.gen + Len(commands')
      BY <1>0, <1>2, <1>3, <2>1
    <2>3. IsCancelled(display.gen) \/ ~RoomToCommand
      BY <1>2, <1>3
    <2>4. ~RoomToCommand => ~RoomToCommand'
      BY <1>0, <2>1, SlotsAssumption DEF RoomToCommand
    <2> QED
      BY <1>1, <1>2, <1>3, <2>2, <2>3, <2>4 DEF AskedFor, NoNewAck, IsCancelled
  <1>4. CASE PowerRuns
    <2>1. NoNewAck /\ cancelled' = cancelled /\ power.at = "run"
      BY <1>0, <1>4, ReceiveTells DEF PowerRuns
    <2>2. /\ commands' = commands \/ Len(commands') = Len(commands) + 1
          /\ LastSent' = LastSent \/ (LastSent' = LastSent + 1
                                        /\ Len(commands') = Len(commands) + 1)
      <3>1. CASE EnterSleep("explicit")
        <4>1. CASE RoomToCommand
          <5> DEFINE sleep == Sleep(power.gen + 1, "explicit")
          <5>1. commands' = Append(commands, sleep) /\ power'.at = "waiting"
                /\ power'.gen = power.gen + 1
            BY <3>1, <4>1 DEF EnterSleep
          <5>2. Len(commands') = Len(commands) + 1
            BY <1>0, <5>1
          <5> QED
            BY <2>1, <5>1, <5>2 DEF LastSent
        <4>2. CASE ~RoomToCommand
          <5>1. /\ commands' = commands /\ power'.at = "sending"
                /\ power'.gen = power.gen + 1
            BY <3>1, <4>2 DEF EnterSleep
          <5>2. LastSent' = LastSent
            BY <1>0, <2>1, <5>1 DEF LastSent
          <5> QED
            BY <5>1, <5>2
        <4> QED
          BY <4>1, <4>2
      <3>2. CASE UNCHANGED <<commands, power>>
        BY <3>2 DEF LastSent
      <3> QED
        BY <1>4, <3>1, <3>2 DEF PowerRuns
    <2> QED
      BY <1>3, <2>1, <2>2
  <1>5. CASE IdleTimeout
    BY <1>5 DEF IdleTimeout
  <1>6. CASE PowerSends
    <2>1. /\ power'.at = "waiting" /\ power'.gen = power.gen /\ power.at = "sending"
          /\ NoNewAck /\ cancelled' = cancelled
      BY <1>0, <1>6 DEF PowerSends, TypeOK, NoNewAck
    <2>2. Len(commands') = Len(commands) + 1
      BY <1>0, <1>6 DEF PowerSends
    <2>3. LastSent' = LastSent + 1
      BY <1>0, <2>1 DEF LastSent
    <2> QED
      BY <1>3, <2>1, <2>2, <2>3
  <1>7. ASSUME PowerWaits \/ PowerSettles, Cancel(power.gen), StayAwake
        PROVE  AskedFor'
    <2>1. /\ power'.gen = power.gen /\ power'.at = "run"
          /\ power.at \in {"waiting", "settling"} /\ commands' = commands
      BY <1>0, <1>7 DEF StayAwake, PowerWaits, PowerSettles, TypeOK
    <2>2. NoNewAck
      BY <1>0, <1>7, ReceiveTells DEF PowerWaits, PowerSettles
    <2>3. LastSent = power.gen /\ LastSent' = power.gen
      BY <2>1 DEF LastSent
    <2>4. Contains(cancelled', display.gen) \/ ~RoomToCommand
      <3>1. CASE IsCancelled(display.gen) /\ ~Contains(cancelled', display.gen)
        <4>1. display.gen + RingSlots <= power.gen
          BY <1>0, <1>2, <1>7, <2>1, <3>1, RingForgets DEF AskInv
        <4> QED
          BY <1>0, <1>2, <2>3, <4>1, SlotsAssumption DEF RoomToCommand
      <3>2. CASE power.gen = display.gen
        BY <1>0, <1>7, <2>1, <3>2, CancelHas
      <3> QED
        BY <1>2, <3>1, <3>2
    <2>5. ~RoomToCommand => ~RoomToCommand'
      BY <2>1 DEF RoomToCommand
    <2> QED
      BY <1>1, <1>2, <2>1, <2>2, <2>3, <2>4, <2>5 DEF AskedFor, NoNewAck, IsCancelled
  <1>8. ASSUME PowerWaits, ~CallsOff(Head(events))
        PROVE  AskedFor'
    <2>1. /\ NoNewAck /\ UNCHANGED <<commands, cancelled>>
          /\ power.at = "waiting" /\ power.gen \in Generations
          /\ PowerHears(Head(events)) /\ events # <<>> /\ events' = Tail(events)
      BY <1>0, <1>8, ReceiveTells DEF PowerWaits
    <2>2. power'.gen = power.gen /\ power'.at \in {"waiting", "run", "settling", "pin"}
      BY <1>0, <2>1 DEF PowerHears, StayAwake, TypeOK
    <2>3. LastSent' = LastSent
      BY <2>1, <2>2 DEF LastSent
    <2>4. ASSUME power.gen = display.gen, power.trigger = "explicit" \/ Heard
          PROVE  power'.at = "waiting" /\ (power'.trigger = "explicit" \/ Heard')
      <3>1. \A answer \in Answers : ~AckIn(events, answer, power.gen)
        BY <1>0, <1>2, <2>1, <2>4
      <3>2. \A answer \in Answers : Head(events) # Acked(answer, power.gen)
        BY <1>0, <2>1, <3>1, AckTail
      <3>3. power' = power \/ power' = [power EXCEPT !.trigger = "explicit"]
        BY <2>1, <3>2 DEF PowerHears, Answers
      <3>4. power'.at = "waiting"
        BY <1>0, <2>1, <3>3 DEF TypeOK
      <3>5. CASE Head(events) = SleepNow
        <4>1. SleepNow # Acked("asleep", power.gen) /\ SleepNow # Acked("failed", power.gen)
          BY <2>1, EventTypes
        <4>2. power'.trigger = "explicit"
          BY <1>0, <2>1, <3>5, <4>1 DEF PowerHears, TypeOK
        <4> QED
          BY <3>4, <4>2
      <3>6. CASE Head(events) # SleepNow
        <4>1. CASE power.trigger = "explicit"
          BY <1>0, <3>3, <3>4, <4>1 DEF TypeOK
        <4>2. CASE power.trigger # "explicit"
          <5>1. power.trigger = "idle" /\ Heard
            BY <1>0, <2>4, <4>2 DEF TypeOK, Triggers
          <5>2. Head(events) \notin {Activity, BrowserActivity, SleepNow}
            BY <1>8, <3>6, <5>1 DEF CallsOff
          <5>3. Heard'
            BY <1>0, <2>1, <5>1, <5>2, TailHas DEF Heard, TypeOK
          <5> QED
            BY <3>4, <5>3
        <4> QED
          BY <4>1, <4>2
      <3> QED
        BY <3>5, <3>6
    <2>5. RoomToCommand' = RoomToCommand
      BY <2>1 DEF RoomToCommand
    <2> QED
      BY <1>1, <1>2, <2>1, <2>2, <2>3, <2>4, <2>5 DEF AskedFor, NoNewAck, IsCancelled
  <1>9. ASSUME \/ PowerSettles /\ ~CallsOff(Head(events))
               \/ SettleEnds \/ PowerDown
        PROVE  AskedFor'
    <2>1. /\ power'.gen = power.gen /\ power.at \in {"settling", "pin"}
          /\ power'.at \in {"settling", "pin", "off"}
          /\ UNCHANGED <<commands, cancelled>>
      BY <1>0, <1>9 DEF PowerSettles, SettleEnds, PowerDown, TypeOK
    <2>2. NoNewAck
      BY <1>0, <1>9, ReceiveTells DEF PowerSettles, SettleEnds, PowerDown, NoNewAck
    <2>3. LastSent' = LastSent
      BY <2>1 DEF LastSent
    <2> QED
      BY <1>3, <2>1, <2>2, <2>3
  <1> QED
    BY <1>4, <1>5, <1>6, <1>7, <1>8, <1>9 DEF Power, PowerWaits, PowerSettles

\* The tasks that stand still beside it only add to the queues.
LEMMA AskedAdds ==
    ASSUME AskInv, TypeInv', App \/ NoteActivity \/ UNCHANGED vars
    PROVE  AskedFor'
  <1>0. TypeInv /\ TypeOK /\ commands \in Seq(Commands)
    BY DEF AskInv, DownInv, TypeInv, TypeOK
  <1>1. UNCHANGED <<display, cancelled, power>>
    BY DEF App, Press, Answer, PowerPress, AppSends, AppSettled, NoteActivity, vars, tasks
  <1>2. commands' = commands \/ commands' = Append(commands, Render)
    BY DEF App, Press, Answer, PowerPress, AppSends, AppSettled, NoteActivity, vars, tasks,
       Repaint, SendRender
  <1>3. Len(commands') >= Len(commands)
    BY <1>0, <1>2, RenderIsNoSleep
  <1>4. PICK e \in {Activity, BrowserActivity, SleepNow} :
           Offer(e) \/ events' = Append(events, e) \/ events' = events
    BY DEF App, Press, Answer, PowerPress, AppSends, AppSettled, NoteActivity, vars, tasks
  <1>5. NoNewAck /\ (Heard => Heard')
    BY <1>0, <1>4, OfferTells, TellsKeeps, EventTypes DEF Heard
  <1> QED
    BY <1>0, <1>1, <1>3, <1>5, AskedStill DEF AskInv

\* The session that takes an idle sleep off the queue asks about it: the sleep
\* is awaited, and the power task is told, or has as much as it can be told.
LEMMA SessionAsks ==
    ASSUME AskInv, SessionSleep, ~CalledOff(Head(commands)),
           UploadUnder(Head(commands)), Offer(BrowserActivity),
           Holding("asking", Head(commands), FALSE), commands' = Tail(commands)
    PROVE  AskedFor'
  <1> DEFINE sleep == Head(commands)
             rest  == Tail(commands)
  <1>0. /\ TypeInv /\ TypeOK /\ LastSent \in Nat /\ commands \in Seq(Commands)
        /\ events \in Seq(Events) /\ power.trigger \in Triggers
    BY LastSentType DEF AskInv, DownInv, TypeInv, TypeOK, PowerRecords
  <1>1. /\ commands # <<>> /\ sleep.type = "sleep" /\ sleep \in Commands
        /\ rest \in Seq(Commands) /\ Len(rest) = Len(commands) - 1
        /\ UNCHANGED <<power, cancelled>> /\ InSession
    BY <1>0, TailHas DEF SessionSleep, Takes
  <1>2. /\ sleep.gen \in Generations /\ SleepIn(commands, sleep.gen)
        /\ ~IsCancelled(sleep.gen) /\ display'.at = "asking" /\ display'.gen = sleep.gen
    BY <1>0, <1>1, SleepInHandType, SleepTail DEF CalledOff, UploadUnder, Holding
  <1> HIDE DEF sleep, rest
  <1>3. Ordered
    BY <1>1 DEF AskInv, SessionOrdered, SessionStands
  <1>4. /\ power.at = "waiting" /\ power.gen = sleep.gen
        /\ \A h \in Generations, answer \in Answers : AckIn(events, answer, h) => h < sleep.gen
    BY <1>2, <1>3 DEF Ordered, Behind
  <1>5. LastSent' = LastSent
    BY <1>1 DEF LastSent
  <1>6. LastSent <= sleep.gen + Len(commands')
    <2>1. LastSent + 1 <= sleep.gen + Len(commands)
      BY <1>0, <1>2, <1>3, InOrderBound DEF Ordered
    <2>2. sleep.gen \in Nat
      BY <1>2, GenerationType
    <2>3. Len(commands) \in Nat
      BY <1>0
    <2>4. Len(commands') = Len(commands) - 1
      BY <1>1 DEF rest
    <2> QED
      BY <1>0, <2>1, <2>2, <2>3, <2>4
  <1>7. NoNewAck
    BY <1>0, OfferTells
  <1>8. power.trigger = "explicit" \/ Heard'
    <2>1. CASE RoomToTell
      <3>1. Contains(events', BrowserActivity)
        BY <1>0, <2>1, AppendHas, EventTypes DEF Offer
      <3> QED
        BY <3>1 DEF Heard
    <2>2. CASE ~RoomToTell /\ power.trigger = "idle"
      <3>1. events' = events /\ events # <<>>
        BY <1>0, <2>2, SlotsAssumption DEF Offer, RoomToTell
      <3>2. Head(events) \in Events /\ Contains(events, Head(events))
        BY <1>0, <3>1, TailHas
      <3>3. \A h \in Generations, answer \in Answers : ~AckIn(events, answer, h)
        <4> SUFFICES ASSUME NEW h \in Generations, NEW answer \in Answers,
                            AckIn(events, answer, h)
                     PROVE  FALSE
          OBVIOUS
        <4>1. h < sleep.gen /\ h = sleep.gen
          BY <1>4, <2>2 DEF AskInv, IdleAlone
        <4>2. h \in Nat
          BY GenerationType
        <4> QED
          BY <4>1, <4>2
      <3>4. Head(events) \in {Activity, BrowserActivity, SleepNow}
        BY <3>2, <3>3, EventKinds DEF AckIn, Answers
      <3> QED
        BY <3>1, <3>2, <3>4 DEF Heard
    <2> QED
      BY <1>0, <2>1, <2>2 DEF Triggers
  <1> QED
    BY <1>1, <1>2, <1>4, <1>5, <1>6, <1>7, <1>8 DEF AskedFor, NoNewAck

LEMMA AskedStep ==
    ASSUME AskInv, TypeInv', CommandSlots <= RingSlots, [Next]_vars
    PROVE  AskedFor'
  <1>0. TypeInv /\ TypeOK /\ display \in DisplayRecords
    BY DEF AskInv, DownInv, TypeInv, TypeOK, DisplayRecords
  <1>1. CASE Display
    <2>1. display'.at # "asking"
      BY <1>0, <1>1 DEF Display, TakeRender, RenderSettles, TakeSleep, PanelReady,
         PanelSleeps, Refused, Acknowledge, ParkedResumes, ParkCeiling, SkipSleep,
         RefuseSleep, DrainToCard, Holding, Park, Restore, At, BackToLoop, InLoop,
         DisplayRecords
    <2> QED
      BY <2>1 DEF AskedFor
  <1>2. CASE UploadSession \/ DiscardRender \/ Asked
    <2>1. display'.at # "asking"
      BY <1>0, <1>2 DEF UploadSession, DiscardRender, Asked, At, InSession, BackToSession,
         FinishSession, BackToLoop, InLoop, DisplayRecords, tasks
    <2> QED
      BY <2>1 DEF AskedFor
  <1>3. CASE SessionSleep
    <2>1. CASE /\ ~CalledOff(Head(commands)) /\ UploadUnder(Head(commands))
               /\ Offer(BrowserActivity) /\ Holding("asking", Head(commands), FALSE)
               /\ commands' = Tail(commands)
      BY <1>3, <2>1, SessionAsks
    <2>2. CASE display' = display \/ FinishSession(Head(commands), Tail(commands))
      <3>1. display'.at # "asking"
        BY <1>3, <2>2 DEF SessionSleep, InSession, FinishSession, BackToLoop, InLoop
      <3> QED
        BY <3>1 DEF AskedFor
    <2> QED
      BY <1>3, <2>1, <2>2 DEF SessionSleep
  <1>4. CASE Wake \/ Exit
    BY <1>4 DEF Wake, Exit, Reboot, InLoop, AskedFor
  <1>5. CASE Serve \/ Request \/ EnsureSession \/ RequestEnds
    BY <1>0, <1>5, AskedStill DEF Serve, Request, EnsureSession, RequestEnds, tasks, AskInv,
       NoNewAck, Heard, TypeOK
  <1> QED
    BY <1>1, <1>2, <1>3, <1>4, <1>5, AskedAdds, AskedPower
       DEF Next, Handshake, Session, Wifi

LEMMA AskStep ==
    ASSUME AskInv, CommandSlots <= RingSlots, [Next]_vars
    PROVE  AskInv'
  BY DownStep, RingStep, SessionOrderedStep, IdleStep, AskedStep, TypeStep
     DEF AskInv, DownInv

\* A sleep that closes a session with a request in flight is the reader's.
LEMMA UploadStands ==
    ASSUME AskInv, TypeInv', Next
    PROVE  Closes /\ display.at # "refusing" /\ browser.inFlight =>
              \/ commands'[Len(commands')].trigger = "explicit"
              \/ power.trigger = "explicit"
  <1> SUFFICES ASSUME Closes, display.at # "refusing", browser.inFlight
               PROVE  \/ commands'[Len(commands')].trigger = "explicit"
                      \/ power.trigger = "explicit"
    OBVIOUS
  <1>0. /\ TypeInv /\ TypeOK /\ commands \in Seq(Commands) /\ events \in Seq(Events)
        /\ display \in DisplayRecords
        /\ display.at = "asking" => display.gen \in Generations
    BY GenerationType DEF AskInv, DownInv, TypeInv, TypeOK, Minted, Holds, InHandAt,
       DisplayRecords
  <1>1. display.at \in {"session", "asking"} /\ display'.at = "loop" /\ browser'.serving
    BY DEF Closes, SessionStands, InSession
  <1>2. SessionSleep \/ Asked
    <2>1. ~Exit /\ ~Wake
      BY <1>1 DEF Exit, Wake, Reboot, NoBrowser
    <2>2. ~Display
      BY <1>1 DEF Display, TakeRender, RenderSettles, TakeSleep, PanelReady, PanelSleeps,
         Refused, Acknowledge, ParkedResumes, ParkCeiling
    <2>3. display' # display
      BY <1>1
    <2> QED
      BY <1>1, <2>1, <2>2, <2>3 DEF Next, Handshake, App, Press, Answer, PowerPress, AppSends,
         AppSettled, Power, PowerRuns, PowerSends, PowerWaits, PowerSettles, SettleEnds,
         PowerDown, IdleTimeout, Session, UploadSession, DiscardRender, Wifi, Serve,
         Request, NoteActivity, EnsureSession, RequestEnds, tasks
  <1>3. CASE SessionSleep
    <2> DEFINE sleep == Head(commands)
               rest  == Tail(commands)
    <2>1. /\ commands # <<>> /\ sleep.type = "sleep" /\ sleep \in Commands
          /\ rest \in Seq(Commands)
          /\ sleep.gen \in Generations /\ sleep.trigger \in Triggers
      BY <1>0, <1>3, TakeType, SleepInHandType DEF SessionSleep, Takes
    <2>2. ~UploadUnder(sleep) /\ FinishSession(sleep, rest)
      BY <1>1, <1>3 DEF SessionSleep, InSession, Holding
    <2>3. sleep.trigger = "explicit"
      BY <1>1, <1>3, <2>1, <2>2 DEF UploadUnder, SessionSleep, InSession, Triggers
    <2> HIDE DEF sleep, rest
    <2> QED
      BY <2>1, <2>2, <2>3, FinishMoves
  <1>4. CASE Asked
    <2>1. /\ display.at = "asking" /\ ~IsCancelled(display.gen) /\ ~PowerReceives
          /\ Len(commands) < CommandSlots
      BY <1>1, <1>4 DEF Asked, FinishSession, BackToSession, InLoop
    <2>2. power.at = "waiting" /\ (power.trigger = "explicit" \/ Heard)
      BY <2>1 DEF AskInv, AskedFor, RoomToCommand
    <2>3. ~Heard
      BY <2>1, <2>2, EmptyHas DEF PowerReceives, Heard
    <2> QED
      BY <2>2, <2>3
  <1> QED
    BY <1>2, <1>3, <1>4

\* With a ring as long as the display's queue, a session is never closed over a
\* request in flight by a sleep nobody asked for.
THEOREM UploadIsNotBrokenOff ==
    ASSUME CommandSlots <= RingSlots
    PROVE  WirelessSpec => UploadStandsOverIdle
  <1>1. Init => AskInv
    <2> SUFFICES ASSUME Init PROVE AskInv
      OBVIOUS
    <2>1. DownInv /\ RingRises /\ SessionOrdered
      BY TypeInit, DownInit, OrderedInit DEF DownInv, SessionOrdered
    <2>2. IdleAlone /\ AskedFor
      BY DEF Init, Running, InLoop, IdleAlone, AskedFor
    <2> QED
      BY <2>1, <2>2 DEF AskInv
  <1>2. AskInv /\ [Next]_vars => AskInv'
    BY AskStep
  <1>3. AskInv /\ [Next]_vars =>
           [Closes /\ display.at # "refusing" /\ browser.inFlight =>
               \/ commands'[Len(commands')].trigger = "explicit"
               \/ power.trigger = "explicit"]_vars
    BY UploadStands, TypeStep DEF AskInv, DownInv
  <1> QED
    BY <1>1, <1>2, <1>3, PTL DEF WirelessSpec, UploadStandsOverIdle

-----------------------------------------------------------------------------
(***************************************************************************)
(* A parked display is always answered.  A sleep is in one place at a      *)
(* time; while the ring forgets none that has a place, one that has and    *)
(* has not been called off is the one the power task waits for, so that    *)
(* its acknowledgement is received and its calling off is announced.       *)
(***************************************************************************)
InHand(g)  == Holds /\ display.gen = g
InPlace(g) == SleepIn(commands, g) \/ InHand(g)

Distinct(q) ==
    \A i, j \in DOMAIN q :
        q[i].type = "sleep" /\ q[j].type = "sleep" /\ q[i].gen = q[j].gen => i = j

\* A sleep is queued once, or in hand, or refused.
OnePlace ==
    /\ Distinct(commands)
    /\ Holds => ~SleepIn(commands, display.gen)
    /\ \A g \in Generations : AckIn(events, "failed", g) => ~InPlace(g)

Known ==
    \A g \in Generations : InPlace(g) /\ ~IsCancelled(g) =>
        power.gen = g /\ power.at \in {"waiting", "settling", "pin", "off"}

\* Who waits behind an acknowledgement was woken if it has been called off, and
\* has its answer in the queue while the power task still waits for it.
ResumeSet == display.at = "parked" /\ IsCancelled(display.gen) => resume
AckPlaced ==
    display.at = "parked" /\ power.at = "waiting" /\ power.gen = display.gen =>
        AckIn(events, "asleep", power.gen)

LEMMA DistinctAppend ==
    ASSUME NEW q \in Seq(Commands), Distinct(q), NEW c \in Commands,
           c.type = "sleep" => ~SleepIn(q, c.gen)
    PROVE  Distinct(Append(q, c))
  <1> DEFINE p == Append(q, c)
  <1>1. /\ DOMAIN p = (1 .. Len(q)) \cup {Len(q) + 1} /\ Len(q) \in Nat
        /\ DOMAIN q = 1 .. Len(q)
        /\ \A i \in 1 .. Len(q) : p[i] = q[i]
        /\ p[Len(q) + 1] = c
    OBVIOUS
  <1> HIDE DEF p
  <1>2. ASSUME NEW i \in 1 .. Len(q), q[i].type = "sleep", c.type = "sleep",
               q[i].gen = c.gen
        PROVE  FALSE
    <2>1. q[i] \in Commands
      OBVIOUS
    <2>2. q[i].trigger \in Triggers /\ q[i] = Sleep(q[i].gen, q[i].trigger)
      BY <1>2, <2>1, SleepInHandType
    <2>3. SleepIn(q, c.gen)
      BY <1>2, <2>2 DEF SleepIn, Contains
    <2> QED
      BY <1>2, <2>3
  <1>3. Distinct(p)
    BY <1>1, <1>2 DEF Distinct
  <1> QED
    BY <1>3 DEF p

LEMMA DistinctTail ==
    ASSUME NEW q \in Seq(Commands), q # <<>>, Distinct(q)
    PROVE  /\ Distinct(Tail(q))
           /\ Head(q).type = "sleep" =>
                 \A g \in Generations : SleepIn(Tail(q), g) => g # Head(q).gen
  <1> DEFINE p == Tail(q)
  <1>1. /\ Len(p) = Len(q) - 1 /\ DOMAIN p = 1 .. Len(q) - 1
        /\ DOMAIN q = 1 .. Len(q) /\ Len(q) \in Nat /\ Len(q) > 0
        /\ \A i \in 1 .. Len(q) - 1 : p[i] = q[i + 1]
        /\ Head(q) = q[1] /\ p \in Seq(Commands)
    OBVIOUS
  <1> HIDE DEF p
  <1>2. ASSUME NEW i \in DOMAIN p, NEW j \in DOMAIN p, p[i].type = "sleep",
               p[j].type = "sleep", p[i].gen = p[j].gen
        PROVE  i = j
    <2>1. /\ i + 1 \in DOMAIN q /\ p[i] = q[i + 1]
          /\ j + 1 \in DOMAIN q /\ p[j] = q[j + 1] /\ i \in Nat /\ j \in Nat
      BY <1>1
    <2>2. i + 1 = j + 1
      BY <1>2, <2>1 DEF Distinct
    <2> QED
      BY <2>1, <2>2
  <1>3. Distinct(p)
    BY <1>2 DEF Distinct
  <1>4. ASSUME Head(q).type = "sleep", NEW g \in Generations, SleepIn(p, g)
        PROVE  g # Head(q).gen
    <2>1. PICK i \in 1 .. Len(p), t \in Triggers : p[i] = Sleep(g, t)
      BY <1>4 DEF SleepIn, Contains
    <2>2. p[i].type = "sleep" /\ p[i].gen = g
      BY <2>1, SleepIsSleep
    <2>3. i + 1 \in DOMAIN q /\ 1 \in DOMAIN q /\ i + 1 # 1 /\ p[i] = q[i + 1]
      BY <1>1, <2>1
    <2> QED
      BY <1>1, <1>4, <2>2, <2>3 DEF Distinct
  <1> QED
    BY <1>3, <1>4 DEF p

NoNewFailed == \A g \in Generations :
                   AckIn(events', "failed", g) => AckIn(events, "failed", g)

LEMMA HeldType == ASSUME TypeInv PROVE Holds => display.gen \in Generations
  BY GenerationType DEF TypeInv, TypeOK, Minted

\* A step that puts no sleep anywhere it was not.
LEMMA OnePlaceStill ==
    ASSUME TypeInv, TypeInv', OnePlace, Distinct(commands'), NoNewSleep, NoNewFailed,
           Holds' => Holds /\ display'.gen = display.gen
    PROVE  OnePlace'
  <1>1. (Holds => display.gen \in Generations) /\ (Holds' => display'.gen \in Generations)
    BY HeldType, GenerationType DEF TypeInv, TypeOK, Minted
  <1>2. Holds' => ~SleepIn(commands', display'.gen)
    BY <1>1 DEF OnePlace, NoNewSleep
  <1>3. ASSUME NEW g \in Generations, AckIn(events', "failed", g)
        PROVE  ~SleepIn(commands', g) /\ ~(Holds' /\ display'.gen = g)
    BY <1>3 DEF OnePlace, NoNewSleep, NoNewFailed, InPlace, InHand
  <1> QED
    BY <1>2, <1>3 DEF OnePlace, InPlace, InHand

\* A sleep nobody has heard of goes out.
LEMMA OnePlaceSends ==
    ASSUME DownInv, OnePlace, NoNewAck, display' = display, NEW c \in Commands,
           c.type = "sleep", ~Sent(c.gen), commands' = Append(commands, c)
    PROVE  OnePlace'
  <1>0. /\ TypeInv /\ commands \in Seq(Commands) /\ c.gen \in Generations
        /\ Holds => display.gen \in Generations
    BY SleepInHandType, HeldType DEF DownInv, TypeInv, TypeOK
  <1>1. /\ ~SleepIn(commands, c.gen) /\ display.gen # c.gen
        /\ \A answer \in Answers : ~AckIn(events, answer, c.gen)
    BY <1>0 DEF DownInv, Down, AllSent
  <1>2. \A g \in Generations : SleepIn(commands', g) => SleepIn(commands, g) \/ g = c.gen
    BY <1>0, SleepAppend
  <1>3. Distinct(commands')
    BY <1>0, <1>1, DistinctAppend DEF OnePlace
  <1>4. Holds' => ~SleepIn(commands', display'.gen)
    BY <1>0, <1>1, <1>2 DEF OnePlace, Holds
  <1>5. ASSUME NEW g \in Generations, AckIn(events', "failed", g)
        PROVE  ~SleepIn(commands', g) /\ ~(Holds' /\ display'.gen = g)
    <2>1. AckIn(events, "failed", g) /\ "failed" \in Answers
      BY <1>5 DEF NoNewAck, Answers
    <2> QED
      BY <1>1, <1>2, <2>1 DEF OnePlace, InPlace, InHand, Holds
  <1> QED
    BY <1>3, <1>4, <1>5 DEF OnePlace, InPlace, InHand

\* The sleep at the front is taken in hand.
LEMMA OnePlaceTakes ==
    ASSUME TypeInv, OnePlace, commands # <<>>, commands' = Tail(commands),
           Head(commands).type = "sleep", NoNewFailed, display'.gen = Head(commands).gen
    PROVE  OnePlace'
  <1> DEFINE sleep == Head(commands)
             rest  == Tail(commands)
  <1>1. /\ commands \in Seq(Commands) /\ sleep \in Commands
        /\ sleep.gen \in Generations /\ SleepIn(commands, sleep.gen)
        /\ \A g \in Generations : SleepIn(rest, g) => SleepIn(commands, g)
    BY TakeType, SleepInHandType, SleepTail DEF TypeInv, TypeOK
  <1>2. Distinct(rest) /\ \A g \in Generations : SleepIn(rest, g) => g # sleep.gen
    BY <1>1, DistinctTail DEF OnePlace
  <1>3. commands' = rest /\ display'.gen = sleep.gen
    OBVIOUS
  <1> HIDE DEF sleep, rest
  <1>4. ASSUME NEW g \in Generations, AckIn(events', "failed", g)
        PROVE  ~SleepIn(commands', g) /\ ~(Holds' /\ display'.gen = g)
    BY <1>1, <1>3, <1>4 DEF OnePlace, InPlace, NoNewFailed
  <1> QED
    BY <1>1, <1>2, <1>3, <1>4 DEF OnePlace, InPlace, InHand

\* A sleep that was in hand, or at the front, goes to the back.
LEMMA OnePlaceReturns ==
    ASSUME TypeInv, OnePlace, NEW queue \in Seq(Commands), Distinct(queue), NEW sleep,
           sleep.gen \in Generations, sleep.trigger \in Triggers, InPlace(sleep.gen),
           ~SleepIn(queue, sleep.gen),
           \A g \in Generations : SleepIn(queue, g) => SleepIn(commands, g),
           FinishSession(sleep, queue), events' = events
    PROVE  OnePlace'
  <1> DEFINE back == Sleep(sleep.gen, sleep.trigger)
  <1>1. back \in Commands /\ back.gen = sleep.gen
    BY SleepIsSleep
  <1>2. commands' = Append(queue, back)
    BY DEF FinishSession
  <1> HIDE DEF back
  <1>3. Distinct(commands')
    BY <1>1, <1>2, DistinctAppend
  <1>4. ~Holds' /\ \A g \in Generations : SleepIn(commands', g) => InPlace(g)
    BY FinishMoves DEF InPlace
  <1> QED
    BY <1>3, <1>4 DEF OnePlace, InPlace, InHand

LEMMA NotFailed == NoNewAck => NoNewFailed
  BY DEF NoNewAck, NoNewFailed, Answers

LEMMA OnePlaceAdds ==
    ASSUME DownInv, TypeInv', OnePlace, App \/ (Wifi /\ ~Exit) \/ UNCHANGED vars
    PROVE  OnePlace'
  <1>0. TypeInv /\ TypeOK /\ commands \in Seq(Commands)
    BY DEF DownInv, TypeInv, TypeOK
  <1>1. display' = display
    BY DEF App, Press, Answer, PowerPress, AppSends, AppSettled, Wifi, Serve, Request,
       NoteActivity, EnsureSession, RequestEnds, tasks, vars
  <1>2. commands' = commands \/ commands' = Append(commands, Render)
    BY DEF App, Press, Answer, PowerPress, AppSends, AppSettled, Repaint, SendRender, Wifi,
       Serve, Request, NoteActivity, EnsureSession, RequestEnds, tasks, vars
  <1>3. NoNewSleep
    BY <1>0, <1>2, RenderTells
  <1>4. NoNewAck
    BY <1>0, OfferTells DEF App, Press, Answer, PowerPress, AppSends, AppSettled, Wifi,
       Serve, Request, NoteActivity, EnsureSession, RequestEnds, tasks, vars
  <1>5. Distinct(commands')
    BY <1>0, <1>2, RenderIsNoSleep, DistinctAppend DEF OnePlace
  <1> QED
    BY <1>0, <1>1, <1>3, <1>4, <1>5, NotFailed, OnePlaceStill DEF Holds

LEMMA OnePlacePower ==
    ASSUME DownInv, TypeInv', OnePlace, Power \/ IdleTimeout
    PROVE  OnePlace'
  <1>0. /\ TypeInv /\ TypeOK /\ power.gen \in Nat /\ power.trigger \in Triggers
        /\ power.at # "run" => power.gen \in Generations
    BY GenerationType DEF DownInv, TypeInv, TypeOK, Minted
  <1>1. display' = display
    BY DEF Power, PowerRuns, PowerSends, PowerWaits, PowerSettles, SettleEnds, PowerDown,
       IdleTimeout
  <1>2. NoNewAck
    <2>1. CASE events' = events
      BY <2>1 DEF NoNewAck
    <2>2. CASE events # <<>> /\ events' = Tail(events)
      BY <1>0, <2>2, ReceiveTells
    <2> QED
      BY <2>1, <2>2 DEF Power, PowerRuns, PowerSends, PowerWaits, PowerSettles, SettleEnds,
         PowerDown, IdleTimeout
  <1>3. CASE commands' = commands
    <2>1. NoNewSleep /\ Distinct(commands')
      BY <1>3 DEF NoNewSleep, OnePlace
    <2> QED
      BY <1>0, <1>1, <1>2, <2>1, NotFailed, OnePlaceStill DEF Holds
  <1>4. ASSUME NEW t \in Triggers, EnterSleep(t), RoomToCommand
        PROVE  OnePlace'
    <2> DEFINE sleep == Sleep(power.gen + 1, t)
    <2>1. commands' = Append(commands, sleep) /\ power'.gen = power.gen + 1
      BY <1>4 DEF EnterSleep
    <2>2. power.gen + 1 \in Generations
      BY <2>1, <1>0, GenerationType DEF TypeInv, TypeOK
    <2>3. sleep \in Commands /\ sleep.type = "sleep" /\ sleep.gen = power.gen + 1
      BY <1>4, <2>2, SleepIsSleep
    <2> HIDE DEF sleep
    <2>4. ~Sent(sleep.gen)
      BY <1>0, <2>3 DEF Sent
    <2> QED
      BY <1>1, <1>2, <2>1, <2>3, <2>4, OnePlaceSends
  <1>5. CASE PowerSends
    <2> DEFINE sleep == Sleep(power.gen, power.trigger)
    <2>1. commands' = Append(commands, sleep) /\ power.at = "sending"
      BY <1>5 DEF PowerSends
    <2>2. sleep \in Commands /\ sleep.type = "sleep" /\ sleep.gen = power.gen
      BY <1>0, <2>1, SleepIsSleep
    <2> HIDE DEF sleep
    <2>3. ~Sent(sleep.gen)
      BY <1>0, <2>1, <2>2 DEF Sent
    <2> QED
      BY <1>1, <1>2, <2>1, <2>2, <2>3, OnePlaceSends
  <1>6. \/ commands' = commands \/ PowerSends
        \/ RoomToCommand /\ \E t \in Triggers : EnterSleep(t)
    BY DEF Power, PowerRuns, PowerWaits, PowerSettles, SettleEnds, PowerDown, IdleTimeout,
       EnterSleep, Triggers
  <1> QED
    BY <1>3, <1>4, <1>5, <1>6

LEMMA OnePlaceDisplay ==
    ASSUME DownInv, TypeInv', OnePlace, Display
    PROVE  OnePlace'
  <1>0. /\ TypeInv /\ TypeOK /\ commands \in Seq(Commands) /\ display \in DisplayRecords
        /\ Holds => display.gen \in Generations
    BY HeldType DEF DownInv, TypeInv, TypeOK, DisplayRecords
  <1>1. CASE TakeRender
    <2>1. commands # <<>> /\ commands' = Tail(commands) /\ events' = events /\ ~Holds'
      BY <1>0, <1>1 DEF TakeRender, Takes, At, Holds, InHandAt, DisplayRecords
    <2>2. NoNewSleep /\ Distinct(commands') /\ NoNewFailed
      BY <1>0, <2>1, TakeTells, DistinctTail DEF OnePlace, NoNewFailed
    <2> QED
      BY <1>0, <2>1, <2>2, OnePlaceStill
  <1>2. CASE TakeSleep
    <2>1. /\ commands # <<>> /\ commands' = Tail(commands) /\ events' = events
          /\ Head(commands).type = "sleep" /\ ~Holds
      BY <1>2 DEF TakeSleep, Takes, Holds, InHandAt
    <2>2. NoNewSleep /\ Distinct(commands') /\ NoNewFailed
      BY <1>0, <2>1, TakeTells, DistinctTail DEF OnePlace, NoNewFailed
    <2>3. CASE display' = display
      BY <1>0, <2>1, <2>2, <2>3, OnePlaceStill DEF Holds
    <2>4. CASE display'.gen = Head(commands).gen
      BY <1>0, <2>1, <2>2, <2>4, OnePlaceTakes
    <2> QED
      BY <1>2, <2>3, <2>4 DEF TakeSleep, SkipSleep, RefuseSleep, DrainToCard, Holding
  <1>3. CASE RenderSettles \/ PanelReady \/ PanelSleeps \/ Acknowledge \/ ParkedResumes
               \/ ParkCeiling
    <2>1. commands' = commands \/ commands' = Append(commands, Render)
      BY <1>3 DEF RenderSettles, PanelReady, PanelSleeps, Acknowledge, ParkedResumes,
         ParkCeiling, Park, Restore
    <2>2. Holds' => Holds /\ display'.gen = display.gen
      BY <1>0, <1>3 DEF RenderSettles, PanelReady, PanelSleeps, Acknowledge, ParkedResumes,
         ParkCeiling, Park, Restore, At, BackToLoop, InLoop, Holds, InHandAt, DisplayRecords
    <2>3. NoNewFailed
      <3>1. CASE Acknowledge
        <4>1. Holds /\ PlaceEvent(Acked("asleep", display.gen))
          BY <3>1 DEF Acknowledge, Holds, InHandAt
        <4>2. Acked("asleep", display.gen) \in Events
          BY <1>0, <4>1, EventTypes
        <4>3. \A g \in Generations : Acked("asleep", display.gen) # Acked("failed", g)
          BY <1>0, <4>1, AckIsOne DEF Answers
        <4>4. CASE events' = Append(events, Acked("asleep", display.gen))
          BY <1>0, <4>2, <4>3, <4>4, AckAppend DEF NoNewFailed, Answers
        <4>5. CASE events' = events
          BY <4>5 DEF NoNewFailed
        <4> QED
          BY <4>1, <4>4, <4>5 DEF PlaceEvent
      <3>2. CASE events' = events
        BY <3>2 DEF NoNewFailed
      <3> QED
        BY <1>3, <3>1, <3>2 DEF RenderSettles, PanelReady, PanelSleeps, ParkedResumes,
           ParkCeiling
    <2>4. NoNewSleep /\ Distinct(commands')
      BY <1>0, <2>1, RenderTells, RenderIsNoSleep, DistinctAppend DEF OnePlace
    <2> QED
      BY <1>0, <2>2, <2>3, <2>4, OnePlaceStill
  <1>4. CASE Refused
    <2>1. Holds /\ ~Holds' /\ commands' = commands
      BY <1>4 DEF Refused, BackToLoop, InLoop, Holds, InHandAt
    <2>2. Moved
      BY <1>0, <1>4, DisplayMoves DEF Display
    <2>3. ASSUME NEW g \in Generations, AckIn(events', "failed", g)
          PROVE  ~SleepIn(commands', g)
      <3>1. AckIn(events, "failed", g) \/ g = display.gen
        BY <2>2, <2>3 DEF Moved, Answers
      <3> QED
        BY <2>1, <3>1 DEF OnePlace, InPlace
    <2> QED
      BY <2>1, <2>3 DEF OnePlace, InPlace, InHand
  <1> QED
    BY <1>1, <1>2, <1>3, <1>4 DEF Display

LEMMA OnePlaceSession ==
    ASSUME DownInv, TypeInv', OnePlace, Session
    PROVE  OnePlace'
  <1>0. /\ TypeInv /\ TypeOK /\ commands \in Seq(Commands) /\ display \in DisplayRecords
        /\ display.trigger \in Triggers
        /\ Holds => display.gen \in Generations
    BY HeldType DEF DownInv, TypeInv, TypeOK, DisplayRecords
  <1>1. CASE UploadSession
    <2>1. ~Holds' /\ UNCHANGED <<commands, events>>
      BY <1>0, <1>1 DEF UploadSession, At, Holds, InHandAt, DisplayRecords
    <2> QED
      BY <1>0, <2>1, OnePlaceStill DEF OnePlace, NoNewSleep, NoNewFailed
  <1>2. CASE DiscardRender
    <2>1. commands # <<>> /\ commands' = Tail(commands) /\ UNCHANGED <<events, display>>
      BY <1>2 DEF DiscardRender, Takes, tasks
    <2>2. NoNewSleep /\ Distinct(commands') /\ NoNewFailed
      BY <1>0, <2>1, TakeTells, DistinctTail DEF OnePlace, NoNewFailed
    <2> QED
      BY <1>0, <2>1, <2>2, OnePlaceStill DEF Holds
  <1>3. CASE SessionSleep
    <2> DEFINE sleep == Head(commands)
               rest  == Tail(commands)
    <2>1. commands # <<>> /\ sleep.type = "sleep" /\ ~Holds
      BY <1>3 DEF SessionSleep, Takes, InSession, Holds, InHandAt
    <2>2. /\ sleep \in Commands /\ sleep.gen \in Generations /\ sleep.trigger \in Triggers
          /\ SleepIn(commands, sleep.gen) /\ rest \in Seq(Commands)
          /\ \A g \in Generations : SleepIn(rest, g) => SleepIn(commands, g)
      BY <1>0, <2>1, TakeType, SleepInHandType, SleepTail
    <2>3. Distinct(rest) /\ ~SleepIn(rest, sleep.gen)
      BY <1>0, <2>1, <2>2, DistinctTail DEF OnePlace
    <2>4. \/ commands' = rest /\ UNCHANGED <<events, display>>
          \/ /\ Offer(BrowserActivity) /\ display'.gen = sleep.gen
             /\ commands' = rest
          \/ FinishSession(sleep, rest) /\ UNCHANGED events
      BY <1>3 DEF SessionSleep, Holding
    <2>5. CASE Offer(BrowserActivity) /\ display'.gen = sleep.gen /\ commands' = rest
      <3>1. NoNewFailed
        BY <1>0, <2>5, OfferTells, NotFailed
      <3> QED
        BY <1>0, <2>1, <2>5, <3>1, OnePlaceTakes
    <2> HIDE DEF sleep, rest
    <2>6. CASE commands' = rest /\ UNCHANGED <<events, display>>
      <3>1. NoNewSleep /\ Distinct(commands') /\ NoNewFailed
        BY <2>2, <2>3, <2>6 DEF NoNewSleep, NoNewFailed
      <3> QED
        BY <1>0, <2>6, <3>1, OnePlaceStill DEF Holds
    <2>7. CASE FinishSession(sleep, rest) /\ UNCHANGED events
      BY <1>0, <2>2, <2>3, <2>7, OnePlaceReturns DEF InPlace
    <2> QED
      BY <2>4, <2>5, <2>6, <2>7
  <1>4. CASE Asked
    <2>1. Holds /\ events' = events
      BY <1>4 DEF Asked, Holds, InHandAt
    <2>2. CASE BackToSession /\ commands' = commands
      <3>1. ~Holds'
        BY <2>2 DEF BackToSession, InLoop, Holds, InHandAt
      <3> QED
        BY <1>0, <2>1, <2>2, <3>1, OnePlaceStill DEF OnePlace, NoNewSleep, NoNewFailed
    <2>3. CASE FinishSession(display, commands)
      <3>1. InPlace(display.gen) /\ ~SleepIn(commands, display.gen)
        BY <2>1 DEF InPlace, InHand, OnePlace
      <3> QED
        BY <1>0, <2>1, <2>3, <3>1, OnePlaceReturns DEF OnePlace
    <2> QED
      BY <1>4, <2>2, <2>3 DEF Asked
  <1> QED
    BY <1>1, <1>2, <1>3, <1>4 DEF Session

\* Nothing is anywhere at a boot.
LEMMA NothingInPlace ==
    ASSUME commands' = <<>>, events' = <<>>, display' = InLoop
    PROVE  OnePlace' /\ Known' /\ ResumeSet' /\ AckPlaced'
  <1>1. \A g : ~SleepIn(commands', g) /\ ~AckIn(events', "failed", g)
    BY EmptyHas DEF SleepIn, AckIn
  <1>2. ~Holds' /\ display'.at # "parked"
    BY DEF Holds, InHandAt, InLoop
  <1>3. Distinct(commands')
    BY DEF Distinct
  <1> QED
    BY <1>1, <1>2, <1>3 DEF OnePlace, Known, InPlace, InHand, ResumeSet, AckPlaced

\* The ring forgets no sleep that is queued or in hand.
Remembers ==
    PowerWaits \/ PowerSettles =>
        \A g \in Generations : InPlace(g) /\ IsCancelled(g) => Contains(cancelled', g)

\* While no more sleeps are asked for than the ring holds, it forgets none.
LEMMA NeverForgets ==
    ASSUME TypeInv, RingRises, MaxGeneration <= RingSlots, power.at # "run",
           Cancel(power.gen), NEW g \in Generations, IsCancelled(g)
    PROVE  Contains(cancelled', g)
  <1>1. TypeOK /\ power.gen # 0 /\ power.gen \in Nat /\ power.gen <= MaxGeneration
    BY MaxGenerationAssumption DEF TypeInv, TypeOK, Minted
  <1>2. g \in Nat /\ g >= 1 /\ RingSlots \in Nat /\ MaxGeneration \in Nat
    BY MaxGenerationAssumption, SlotsAssumption DEF Generations
  <1> SUFFICES ASSUME ~Contains(cancelled', g) PROVE FALSE
    OBVIOUS
  <1>3. g + RingSlots <= power.gen
    BY <1>1, RingForgets
  <1> QED
    BY <1>1, <1>2, <1>3

LEMMA KnownPower ==
    ASSUME DownInv, TypeInv', OnePlace, Known, Remembers, Power \/ IdleTimeout
    PROVE  Known'
  <1>0. /\ TypeInv /\ TypeOK /\ power.gen \in Nat /\ power.trigger \in Triggers
        /\ commands \in Seq(Commands)
        /\ power.at # "run" => power.gen \in Generations /\ power.gen # 0
    BY GenerationType DEF DownInv, TypeInv, TypeOK, Minted
  <1>1. display' = display
    BY DEF Power, PowerRuns, PowerSends, PowerWaits, PowerSettles, SettleEnds, PowerDown,
       IdleTimeout
  \* A power task that waits for nothing knows all that is in place to be
  \* called off; what it sends is what it waits for.
  <1>2. ASSUME power.at \in {"run", "sending"}, cancelled' = cancelled,
               \A g \in Generations : SleepIn(commands', g) =>
                  SleepIn(commands, g) \/ (g = power'.gen /\ power'.at = "waiting")
        PROVE  Known'
    <2>1. \A g \in Generations : InPlace(g) => IsCancelled(g)
      BY <1>2 DEF Known
    <2> QED
      BY <1>1, <1>2, <2>1 DEF Known, InPlace, InHand, Holds, IsCancelled
  <1>3. ASSUME NEW t \in Triggers, EnterSleep(t), power.at = "run", cancelled' = cancelled
        PROVE  Known'
    <2>1. \A g \in Generations : SleepIn(commands', g) =>
             SleepIn(commands, g) \/ (g = power'.gen /\ power'.at = "waiting")
      <3>1. CASE RoomToCommand
        <4> DEFINE sleep == Sleep(power.gen + 1, t)
        <4>1. /\ commands' = Append(commands, sleep) /\ power'.gen = power.gen + 1
              /\ power'.at = "waiting"
          BY <1>3, <3>1 DEF EnterSleep
        <4>2. power.gen + 1 \in Generations
          BY <4>1, <1>0, GenerationType DEF TypeInv, TypeOK
        <4>3. sleep \in Commands /\ sleep.gen = power.gen + 1
          BY <1>3, <4>2, SleepIsSleep
        <4> HIDE DEF sleep
        <4> QED
          BY <1>0, <4>1, <4>3, SleepAppend
      <3>2. CASE ~RoomToCommand
        BY <1>3, <3>2 DEF EnterSleep
      <3> QED
        BY <3>1, <3>2
    <2> QED
      BY <1>2, <1>3, <2>1
  <1>4. CASE PowerRuns
    <2>1. CASE UNCHANGED <<commands, power>>
      BY <1>2, <1>4, <2>1 DEF PowerRuns
    <2> QED
      BY <1>3, <1>4, <2>1 DEF PowerRuns, Triggers
  <1>5. CASE IdleTimeout
    BY <1>3, <1>5 DEF IdleTimeout, Triggers
  <1>6. CASE PowerSends
    <2> DEFINE sleep == Sleep(power.gen, power.trigger)
    <2>1. /\ commands' = Append(commands, sleep) /\ power.at = "sending"
          /\ power'.gen = power.gen /\ power'.at = "waiting" /\ cancelled' = cancelled
      BY <1>0, <1>6 DEF PowerSends, TypeOK
    <2>2. sleep \in Commands /\ sleep.gen = power.gen
      BY <1>0, <2>1, SleepIsSleep
    <2> HIDE DEF sleep
    <2>3. \A g \in Generations : SleepIn(commands', g) => SleepIn(commands, g) \/ g = power'.gen
      BY <1>0, <2>1, <2>2, SleepAppend
    <2> QED
      BY <1>2, <2>1, <2>3
  <1>7. ASSUME PowerWaits \/ PowerSettles, Cancel(power.gen), StayAwake
        PROVE  Known'
    <2>1. power.at # "run" /\ commands' = commands
      BY <1>7 DEF PowerWaits, PowerSettles
    <2>2. \A g \in Generations : InPlace(g) /\ IsCancelled(g) => Contains(cancelled', g)
      BY <1>7 DEF Remembers
    <2>3. Contains(cancelled', power.gen)
      BY <1>0, <1>7, <2>1, CancelHas
    <2>4. \A g \in Generations : InPlace(g) => Contains(cancelled', g)
      BY <2>2, <2>3 DEF Known
    <2> QED
      BY <1>1, <2>1, <2>4 DEF Known, InPlace, InHand, Holds, IsCancelled
  <1>8. ASSUME PowerWaits, ~CallsOff(Head(events))
        PROVE  Known'
    <2>1. /\ UNCHANGED <<commands, cancelled>> /\ power.at = "waiting"
          /\ PowerHears(Head(events)) /\ events # <<>>
      BY <1>8 DEF PowerWaits
    <2>2. power'.gen = power.gen /\ power'.at \in {"waiting", "run", "settling", "pin"}
      BY <1>0, <2>1 DEF PowerHears, StayAwake, TypeOK
    <2>3. CASE Head(events) = Acked("failed", power.gen)
      <3>1. AckIn(events, "failed", power.gen)
        BY <1>0, <2>1, <2>3, AckTail DEF Answers
      <3>2. ~InPlace(power.gen)
        BY <1>0, <2>1, <3>1 DEF OnePlace
      <3> QED
        BY <1>1, <2>1, <3>2 DEF Known, InPlace, InHand, Holds, IsCancelled
    <2>4. CASE Head(events) # Acked("failed", power.gen)
      <3>1. power'.at \in {"waiting", "settling", "pin"}
        BY <1>0, <2>1, <2>2, <2>4 DEF PowerHears, TypeOK
      <3> QED
        BY <1>1, <2>1, <2>2, <3>1 DEF Known, InPlace, InHand, Holds, IsCancelled
    <2> QED
      BY <2>3, <2>4
  <1>9. CASE \/ PowerSettles /\ ~CallsOff(Head(events))
             \/ SettleEnds \/ PowerDown
    <2>1. /\ power'.gen = power.gen /\ power.at \in {"settling", "pin"}
          /\ power'.at \in {"settling", "pin", "off"}
          /\ UNCHANGED <<commands, cancelled>>
      BY <1>0, <1>9 DEF PowerSettles, SettleEnds, PowerDown, TypeOK
    <2> QED
      BY <1>1, <2>1 DEF Known, InPlace, InHand, Holds, IsCancelled
  <1> QED
    BY <1>4, <1>5, <1>6, <1>7, <1>8, <1>9 DEF Power, PowerWaits, PowerSettles

LEMMA KnownStep ==
    ASSUME DownInv, TypeInv', OnePlace, Known, [Next]_vars, [Remembers]_vars
    PROVE  Known'
  <1>0. TypeInv /\ TypeOK
    BY DEF DownInv, TypeInv
  <1>1. CASE App \/ (Wifi /\ ~Exit) \/ UNCHANGED vars
    <2>1. UNCHANGED <<power, display, cancelled>>
      BY <1>1 DEF App, Press, Answer, PowerPress, AppSends, AppSettled, Wifi, Serve,
         Request, NoteActivity, EnsureSession, RequestEnds, tasks, vars
    <2>2. NoNewSleep
      BY <1>0, <1>1, RenderTells DEF App, Press, Answer, PowerPress, AppSends, AppSettled,
         Repaint, SendRender, Wifi, Serve, Request, NoteActivity, EnsureSession,
         RequestEnds, tasks, vars
    <2> QED
      BY <2>1, <2>2 DEF Known, InPlace, InHand, Holds, NoNewSleep, IsCancelled
  <1>2. CASE Display \/ Session
    <2>1. Moved
      BY <1>0, <1>2, DisplayMoves, SessionMoves
    <2>2. UNCHANGED <<power, cancelled>>
      BY <1>2 DEF Display, TakeRender, RenderSettles, TakeSleep, PanelReady, PanelSleeps,
         Refused, Acknowledge, ParkedResumes, ParkCeiling, Session, UploadSession,
         DiscardRender, SessionSleep, Asked, tasks
    <2>3. \A g \in Generations : SleepIn(commands', g) \/ (Holds' /\ display'.gen = g)
                                     => InPlace(g)
      BY <2>1 DEF Moved, InPlace, InHand
    <2> QED
      BY <2>2, <2>3 DEF Known, InPlace, InHand, IsCancelled
  <1>3. CASE Wake \/ Exit
    BY <1>3, NothingInPlace DEF Wake, Exit, Reboot
  <1> QED
    BY <1>1, <1>2, <1>3, KnownPower DEF Next, Handshake

LEMMA ParkPower ==
    ASSUME DownInv, ResumeSet, AckPlaced, Power \/ IdleTimeout
    PROVE  ResumeSet' /\ AckPlaced'
  <1>0. /\ TypeInv /\ TypeOK /\ power.gen \in Nat /\ display.gen \in Nat
        /\ Sent(display.gen)
        /\ power.at # "run" => power.gen \in Generations
    BY GenerationType DEF DownInv, Down, AllSent, TypeInv, TypeOK, Minted
  <1>1. display' = display
    BY DEF Power, PowerRuns, PowerSends, PowerWaits, PowerSettles, SettleEnds, PowerDown,
       IdleTimeout
  <1>2. CASE PowerRuns \/ IdleTimeout \/ PowerSends
    <2>1. UNCHANGED <<cancelled, resume>>
      BY <1>2 DEF PowerRuns, IdleTimeout, PowerSends
    <2>2. power'.at = "waiting" => display.gen < power'.gen
      BY <1>0, <1>2 DEF PowerRuns, IdleTimeout, PowerSends, EnterSleep, Sent, TypeOK
    <2> QED
      BY <1>0, <1>1, <2>1, <2>2 DEF ResumeSet, AckPlaced, IsCancelled
  <1>3. ASSUME PowerWaits \/ PowerSettles, Cancel(power.gen), StayAwake
        PROVE  ResumeSet' /\ AckPlaced'
    <2>1. resume' = TRUE /\ power'.at = "run"
      BY <1>0, <1>3 DEF Cancel, StayAwake, TypeOK
    <2> QED
      BY <2>1 DEF ResumeSet, AckPlaced
  <1>4. ASSUME PowerWaits, ~CallsOff(Head(events))
        PROVE  ResumeSet' /\ AckPlaced'
    <2>1. /\ UNCHANGED <<cancelled, resume>> /\ power.at = "waiting"
          /\ PowerHears(Head(events)) /\ events # <<>> /\ events' = Tail(events)
      BY <1>4 DEF PowerWaits
    <2>2. /\ power'.gen = power.gen
          /\ power'.at = "waiting" => Head(events) # Acked("asleep", power.gen)
      <3>1. power'.gen = power.gen
        BY <1>0, <2>1 DEF PowerHears, StayAwake, TypeOK
      <3>2. CASE Head(events) = Acked("asleep", power.gen)
        <4>1. Head(events) # Acked("failed", power.gen) /\ Head(events) # SleepNow
          BY <1>0, <2>1, <3>2, AckIsOne, NoAck DEF Answers
        <4>2. power' = [power EXCEPT !.at = IF SettleWindow THEN "settling" ELSE "pin"]
          BY <2>1, <3>2, <4>1 DEF PowerHears
        <4> QED
          BY <1>0, <3>1, <4>2 DEF TypeOK
      <3> QED
        BY <3>1, <3>2
    <2>3. power'.at = "waiting" /\ AckIn(events, "asleep", power.gen)
             => AckIn(events', "asleep", power.gen)
      BY <1>0, <2>1, <2>2, AckTail DEF Answers
    <2> QED
      BY <1>1, <2>1, <2>2, <2>3 DEF ResumeSet, AckPlaced, IsCancelled
  <1>5. CASE \/ PowerSettles /\ ~CallsOff(Head(events))
             \/ SettleEnds \/ PowerDown
    <2>1. UNCHANGED <<cancelled, resume>> /\ power'.at \in {"settling", "pin", "off"}
      BY <1>0, <1>5 DEF PowerSettles, SettleEnds, PowerDown, TypeOK
    <2> QED
      BY <1>1, <2>1 DEF ResumeSet, AckPlaced, IsCancelled
  <1> QED
    BY <1>2, <1>3, <1>4, <1>5 DEF Power, PowerWaits, PowerSettles

LEMMA ParkDisplay ==
    ASSUME DownInv, ResumeSet, AckPlaced, Display
    PROVE  ResumeSet' /\ AckPlaced'
  <1>0. /\ TypeInv /\ TypeOK /\ display \in DisplayRecords /\ events \in Seq(Events)
        /\ Holds => display.gen \in Generations
    BY HeldType DEF DownInv, TypeInv, TypeOK, DisplayRecords
  <1>1. CASE Acknowledge
    <2>1. /\ UNCHANGED <<cancelled, resume, power>> /\ display.at = "asleep" /\ Holds
          /\ PlaceEvent(Acked("asleep", display.gen)) /\ Park
      BY <1>1 DEF Acknowledge, Holds, InHandAt
    <2>2. display'.at = "parked" => ~IsCancelled(display.gen) /\ display'.gen = display.gen
      BY <1>0, <2>1 DEF Park, Restore, BackToLoop, InLoop, At, DisplayRecords
    \* A power task that waits takes from a full queue before the 20 ms are over.
    <2>3. power.at = "waiting" => Contains(events', Acked("asleep", display.gen))
      <3>1. CASE RoomToTell /\ events' = Append(events, Acked("asleep", display.gen))
        <4>1. Acked("asleep", display.gen) \in Events
          BY <1>0, <2>1, EventTypes
        <4> QED
          BY <1>0, <3>1, <4>1, AppendHas
      <3>2. CASE ~RoomToTell /\ ~PowerReceives
        <4>1. events # <<>>
          BY <3>2, SlotsAssumption DEF RoomToTell
        <4> QED
          BY <3>2, <4>1 DEF PowerReceives
      <3> QED
        BY <2>1, <3>1, <3>2 DEF PlaceEvent
    <2> QED
      BY <2>1, <2>2, <2>3 DEF ResumeSet, AckPlaced, IsCancelled, AckIn
  <1>2. CASE ParkedResumes
    <2>1. /\ UNCHANGED <<events, cancelled, power>> /\ display.at = "parked" /\ Park
      BY <1>2 DEF ParkedResumes
    <2>2. display'.at = "parked" => ~IsCancelled(display.gen) /\ display'.gen = display.gen
      BY <1>0, <2>1 DEF Park, Restore, BackToLoop, InLoop, At, DisplayRecords
    <2> QED
      BY <2>1, <2>2 DEF ResumeSet, AckPlaced, IsCancelled
  <1>3. CASE ~Acknowledge /\ ~ParkedResumes
    <2>1. display'.at # "parked"
      BY <1>0, <1>3 DEF Display, TakeRender, RenderSettles, TakeSleep, PanelReady,
         PanelSleeps, Refused, ParkCeiling, SkipSleep, RefuseSleep, DrainToCard, Holding,
         At, BackToLoop, InLoop, DisplayRecords
    <2> QED
      BY <2>1 DEF ResumeSet, AckPlaced
  <1> QED
    BY <1>1, <1>2, <1>3

LEMMA ParkStep ==
    ASSUME DownInv, ResumeSet, AckPlaced, [Next]_vars
    PROVE  ResumeSet' /\ AckPlaced'
  <1>0. TypeInv /\ TypeOK /\ display \in DisplayRecords
    BY DEF DownInv, TypeInv, TypeOK, DisplayRecords
  <1>1. CASE App \/ (Wifi /\ ~Exit) \/ UNCHANGED vars
    <2>1. UNCHANGED <<power, display, cancelled, resume>>
      BY <1>1 DEF App, Press, Answer, PowerPress, AppSends, AppSettled, Wifi, Serve,
         Request, NoteActivity, EnsureSession, RequestEnds, tasks, vars
    <2>2. PICK e \in {Activity, BrowserActivity, SleepNow} :
             Offer(e) \/ events' = Append(events, e) \/ events' = events
      BY <1>1 DEF App, Press, Answer, PowerPress, AppSends, AppSettled, Wifi, Serve,
         Request, NoteActivity, EnsureSession, RequestEnds, tasks, vars
    <2>3. \A x : Contains(events, x) => Contains(events', x)
      BY <1>0, <2>2, TellsKeeps, EventTypes
    <2> QED
      BY <2>1, <2>3 DEF ResumeSet, AckPlaced, IsCancelled, AckIn
  <1>2. CASE Session
    <2>1. display'.at # "parked"
      BY <1>0, <1>2 DEF Session, UploadSession, DiscardRender, SessionSleep, Asked, At,
         InSession, Holding, BackToSession, FinishSession, BackToLoop, InLoop,
         DisplayRecords, tasks
    <2> QED
      BY <2>1 DEF ResumeSet, AckPlaced
  <1>3. CASE Wake \/ Exit
    BY <1>3, NothingInPlace DEF Wake, Exit, Reboot
  <1> QED
    BY <1>1, <1>2, <1>3, ParkPower, ParkDisplay DEF Next, Handshake

KnownInv == DownInv /\ OnePlace /\ Known /\ ResumeSet /\ AckPlaced

LEMMA OnePlaceStep ==
    ASSUME DownInv, TypeInv', OnePlace, [Next]_vars
    PROVE  OnePlace'
  <1>1. CASE Wake \/ Exit
    BY <1>1, NothingInPlace DEF Wake, Exit, Reboot
  <1> QED
    BY <1>1, OnePlaceAdds, OnePlacePower, OnePlaceDisplay, OnePlaceSession
       DEF Next, Handshake

LEMMA KnownInit == Init => KnownInv
  <1> SUFFICES ASSUME Init PROVE KnownInv
    OBVIOUS
  <1>1. DownInv
    BY TypeInit, DownInit DEF DownInv
  <1>2. /\ \A g : ~SleepIn(commands, g) /\ ~AckIn(events, "failed", g)
        /\ Distinct(commands) /\ ~Holds /\ display.at # "parked"
    BY EmptyHas DEF Init, InLoop, SleepIn, AckIn, Distinct, Holds, InHandAt
  <1> QED
    BY <1>1, <1>2 DEF KnownInv, OnePlace, Known, InPlace, InHand, ResumeSet, AckPlaced

LEMMA KnownAnswers == KnownInv => ParkedIsAnswered
  <1> SUFFICES ASSUME KnownInv, display.at = "parked" PROVE ParkedIsAnswered
    BY DEF ParkedIsAnswered
  <1>1. Holds /\ display.gen \in Generations
    BY HeldType DEF KnownInv, DownInv, Holds, InHandAt
  <1>2. CASE IsCancelled(display.gen)
    BY <1>2 DEF KnownInv, ResumeSet, ParkedIsAnswered
  <1>3. CASE ~IsCancelled(display.gen)
    <2>1. power.gen = display.gen /\ power.at \in {"waiting", "settling", "pin", "off"}
      BY <1>1, <1>3 DEF KnownInv, Known, InPlace, InHand
    <2> QED
      BY <2>1 DEF KnownInv, AckPlaced, AckIn, ParkedIsAnswered
  <1> QED
    BY <1>2, <1>3

\* While the ring forgets no sleep that has a place, a parked display's
\* acknowledgement is never dropped and its five seconds never run out: the
\* power task has the answer or will take it, or has called the sleep off and
\* set the display's wake-up.
THEOREM ParkedHasItsAnswer == WirelessSpec /\ [][Remembers]_vars => []ParkedIsAnswered
  <1>1. KnownInv /\ [Next]_vars /\ [Remembers]_vars => KnownInv'
    BY TypeStep, DownStep, OnePlaceStep, KnownStep, ParkStep DEF KnownInv, DownInv
  <1> QED
    BY <1>1, KnownInit, KnownAnswers, PTL DEF WirelessSpec

\* It forgets none while no more sleeps are asked for between two boots than it
\* has room for.
THEOREM FewAreRemembered ==
    ASSUME MaxGeneration <= RingSlots
    PROVE  WirelessSpec => [][Remembers]_vars /\ []ParkedIsAnswered
  <1> DEFINE Inv == TypeInv /\ RingRises
  <1>1. Init => Inv
    BY TypeInit, OrderedInit
  <1>2. Inv /\ [Next]_vars => Inv'
    BY TypeStep, RingStep
  <1>3. Inv /\ [Next]_vars => [Remembers]_vars
    <2> SUFFICES ASSUME Inv, PowerWaits \/ PowerSettles PROVE Remembers
      BY DEF Remembers
    <2>1. CASE Cancel(power.gen)
      <3>1. power.at # "run"
        BY DEF PowerWaits, PowerSettles
      <3> QED
        BY <2>1, <3>1, NeverForgets DEF Remembers
    <2>2. CASE cancelled' = cancelled
      BY <2>2 DEF Remembers, IsCancelled
    <2> QED
      BY <2>1, <2>2 DEF PowerWaits, PowerSettles
  <1> HIDE DEF Inv
  <1> QED
    BY <1>1, <1>2, <1>3, ParkedHasItsAnswer, PTL DEF WirelessSpec
=============================================================================
