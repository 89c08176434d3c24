------------------------- MODULE StorageLoop_proofs -------------------------
(***************************************************************************)
(* What is proved of the storage loop, for any books, pages, channels and  *)
(* saved places, and any number of presses, faults and cuts.               *)
(***************************************************************************)
EXTENDS StorageLoop, SlotJournal_proofs, SequenceTheorems, WellFoundedInduction

-----------------------------------------------------------------------------
(***************************************************************************)
(* The way to the storage task as one queue: the channel, and what is      *)
(* parked behind it.                                                       *)
(***************************************************************************)
Queue == sent \o parked
QueueOf(line) == line.sent \o line.parked

Lines == [parked : Seq(Commands), sent : Seq(Commands), taken : BOOLEAN]
Fits(line) == Len(line.parked) <= ParkedSlots /\ Len(line.sent) <= QueueSlots

\* What c may take the place of.
MayReplace(c, x) ==
    \/ c.op = "extend" /\ x.op = "extend"
    \/ c.op = "open" /\ c.previous # None /\ x.op = "progress"

\* r is q with c at its end, and without the k-th of q if there is one.
QueuedAt(q, c, r, k) ==
    /\ k \in 1 .. Len(q) + 1
    /\ k <= Len(q) => MayReplace(c, q[k])
    /\ Len(r) = IF k <= Len(q) THEN Len(q) ELSE Len(q) + 1
    /\ r[Len(r)] = c
    /\ \A i \in 1 .. Len(r) - 1 : r[i] = IF i < k THEN q[i] ELSE q[i + 1]

Queued(q, c, r) == \E k \in 1 .. Len(q) + 1 : QueuedAt(q, c, r, k)

LEMMA RemoveAtIs ==
    ASSUME NEW S, NEW q \in Seq(S), NEW k \in 1 .. Len(q)
    PROVE  /\ RemoveAt(q, k) \in Seq(S)
           /\ Len(RemoveAt(q, k)) = Len(q) - 1
           /\ \A i \in 1 .. Len(q) - 1 :
                RemoveAt(q, k)[i] = IF i < k THEN q[i] ELSE q[i + 1]
  <1> DEFINE a == SubSeq(q, 1, k - 1)
             b == SubSeq(q, k + 1, Len(q))
  <1>0. Len(q) \in Nat
    BY LenProperties
  <1>1. a \in Seq(S) /\ Len(a) = k - 1 /\ \A i \in 1 .. k - 1 : a[i] = q[i]
    <2>1. \A i \in 1 .. k - 1 : q[i] \in S
      BY ElementOfSeq, <1>0
    <2> QED
      BY <1>0, <2>1, SubSeqProperties
  <1>2. /\ b \in Seq(S) /\ Len(b) = Len(q) - k
        /\ \A i \in 1 .. Len(q) - k : b[i] = q[k + i]
    <2>1. \A i \in k + 1 .. Len(q) : q[i] \in S
      BY ElementOfSeq, <1>0
    <2>2. /\ b \in Seq(S) /\ Len(b) = IF k + 1 <= Len(q) THEN Len(q) - (k + 1) + 1 ELSE 0
          /\ \A i \in 1 .. Len(q) - (k + 1) + 1 : b[i] = q[k + 1 + i - 1]
      BY <1>0, <2>1, SubSeqProperties
    <2> QED
      BY <1>0, <2>2
  <1> HIDE DEF a, b
  <1>3. /\ a \o b \in Seq(S)
        /\ Len(a \o b) = Len(a) + Len(b)
        /\ \A i \in 1 .. Len(a) + Len(b) :
             (a \o b)[i] = IF i <= Len(a) THEN a[i] ELSE b[i - Len(a)]
    BY <1>1, <1>2, ConcatProperties
  <1>4. RemoveAt(q, k) = a \o b
    BY DEF RemoveAt, a, b
  <1>5. Len(a \o b) = Len(q) - 1
    BY <1>0, <1>1, <1>2, <1>3
  <1>6. ASSUME NEW i \in 1 .. Len(q) - 1
        PROVE  (a \o b)[i] = IF i < k THEN q[i] ELSE q[i + 1]
    <2>1. (a \o b)[i] = IF i <= k - 1 THEN a[i] ELSE b[i - (k - 1)]
      BY <1>0, <1>1, <1>2, <1>3
    <2>2. CASE i < k
      BY <1>0, <1>1, <2>1, <2>2
    <2>3. CASE ~(i < k)
      <3>1. i - (k - 1) \in 1 .. Len(q) - k
        BY <1>0, <1>6, <2>3
      <3>2. b[i - (k - 1)] = q[k + (i - (k - 1))]
        BY <1>2, <3>1
      <3>3. k + (i - (k - 1)) = i + 1
        BY <1>0, <1>6
      <3> QED
        BY <1>0, <1>6, <2>1, <2>3, <3>2, <3>3
    <2> QED
      BY <2>2, <2>3
  <1> QED
    BY <1>3, <1>4, <1>5, <1>6

\* The first of some slots.
LEMMA FirstIs ==
    ASSUME NEW n \in Nat, NEW told \in SUBSET (1 .. n), told # {}
    PROVE  (CHOOSE i \in told : \A k \in told : i <= k) \in told
  <1>1. \E i \in told : \A k \in told : i <= k
    <2>1. told \subseteq Nat /\ told # {}
      OBVIOUS
    <2>2. PICK i \in told : \A y \in told : <<y, i>> \notin OpToRel(<, Nat)
      BY <2>1, NatLessThanWellFounded, WFMin
    <2>3. \A y \in told : ~(y < i)
      BY <2>1, <2>2 DEF OpToRel
    <2> QED
      BY <2>1, <2>3
  <1> QED
    BY <1>1

\* One command is taken out of the queue, or none is.
LEMMA WithoutIs ==
    ASSUME NEW q \in Seq(Commands), NEW told \in SUBSET DOMAIN q
    PROVE  \/ told = {} /\ Without(q, told) = q
           \/ \E k \in told :
                /\ Without(q, told) = RemoveAt(q, k)
                /\ Without(q, told) \in Seq(Commands)
                /\ Len(Without(q, told)) = Len(q) - 1
                /\ \A i \in 1 .. Len(q) - 1 :
                     Without(q, told)[i] = IF i < k THEN q[i] ELSE q[i + 1]
  <1>1. CASE told = {}
    BY <1>1 DEF Without
  <1>2. CASE told # {}
    <2> DEFINE k == CHOOSE i \in told : \A j \in told : i <= j
    <2>1. Len(q) \in Nat /\ DOMAIN q = 1 .. Len(q)
      BY LenProperties
    <2>2. k \in told
      BY <1>2, <2>1, FirstIs
    <2>3. Without(q, told) = RemoveAt(q, k)
      BY <1>2 DEF Without
    <2> HIDE DEF k
    <2>4. k \in 1 .. Len(q)
      BY <2>1, <2>2
    <2> QED
      BY <2>2, <2>3, <2>4, RemoveAtIs
  <1> QED
    BY <1>1, <1>2

\* What a queue s \o p becomes when c takes the place of the k-th of p, or
\* comes after them all.
LEMMA QueuedBehind ==
    ASSUME NEW s \in Seq(Commands), NEW p \in Seq(Commands), NEW r \in Seq(Commands),
           NEW c \in Commands, NEW k \in 1 .. Len(p) + 1,
           k <= Len(p) => MayReplace(c, p[k]),
           Len(r) = IF k <= Len(p) THEN Len(p) ELSE Len(p) + 1,
           r[Len(r)] = c,
           \A i \in 1 .. Len(r) - 1 : r[i] = IF i < k THEN p[i] ELSE p[i + 1]
    PROVE  Queued(s \o p, c, s \o r)
  <1> DEFINE n == Len(s)
             q == s \o p
             t == s \o r
  <1>0. Len(s) \in Nat /\ Len(p) \in Nat /\ Len(r) \in Nat
    BY LenProperties
  <1>1. /\ q \in Seq(Commands) /\ Len(q) = n + Len(p)
        /\ \A i \in 1 .. n + Len(p) : q[i] = IF i <= n THEN s[i] ELSE p[i - n]
    BY ConcatProperties
  <1>2. /\ t \in Seq(Commands) /\ Len(t) = n + Len(r)
        /\ \A i \in 1 .. n + Len(r) : t[i] = IF i <= n THEN s[i] ELSE r[i - n]
    BY ConcatProperties
  <1>3. n \in Nat
    BY <1>0
  <1> HIDE DEF n, q, t
  <1>4. n + k \in 1 .. Len(q) + 1
    BY <1>0, <1>1, <1>3
  <1>5. ASSUME n + k <= Len(q) PROVE MayReplace(c, q[n + k])
    <2>1. k <= Len(p) /\ n + k \in 1 .. n + Len(p) /\ ~(n + k <= n) /\ (n + k) - n = k
      BY <1>0, <1>1, <1>3, <1>5
    <2>2. q[n + k] = p[(n + k) - n]
      BY <1>1, <2>1
    <2> QED
      BY <2>1, <2>2
  <1>6. Len(t) = IF n + k <= Len(q) THEN Len(q) ELSE Len(q) + 1
    BY <1>0, <1>1, <1>2, <1>3
  <1>7. t[Len(t)] = c
    <2>1. Len(r) >= 1
      BY <1>0
    <2>2. n + Len(r) \in 1 .. n + Len(r) /\ ~(n + Len(r) <= n) /\ (n + Len(r)) - n = Len(r)
      BY <1>0, <1>3, <2>1
    <2> QED
      BY <1>2, <2>2
  <1>8. ASSUME NEW i \in 1 .. Len(t) - 1
        PROVE  t[i] = IF i < n + k THEN q[i] ELSE q[i + 1]
    <2>1. i \in 1 .. n + Len(r) /\ i \in 1 .. n + Len(p) /\ i + 1 \in 1 .. n + Len(r)
      BY <1>0, <1>2, <1>3, <1>8
    <2>2. CASE i <= n
      <3>1. i < n + k
        BY <1>3, <1>8, <2>2
      <3> QED
        BY <1>1, <1>2, <2>1, <2>2, <3>1
    <2>3. CASE ~(i <= n) /\ i < n + k
      <3>1. i - n \in 1 .. Len(r) - 1 /\ i - n < k
        BY <1>0, <1>2, <1>3, <1>8, <2>3
      <3>2. r[i - n] = p[i - n]
        BY <3>1
      <3> QED
        BY <1>1, <1>2, <2>1, <2>3, <3>2
    <2>4. CASE ~(i <= n) /\ ~(i < n + k)
      <3>1. /\ i - n \in 1 .. Len(r) - 1 /\ ~(i - n < k) /\ (i - n) + 1 = (i + 1) - n
            /\ ~(i + 1 <= n)
        BY <1>0, <1>2, <1>3, <1>8, <2>4
      <3>3. i + 1 \in 1 .. n + Len(p)
        <4>1. k <= Len(p)
          BY <1>0, <1>2, <1>3, <1>8, <2>4
        <4>2. Len(r) = Len(p)
          BY <4>1
        <4> QED
          BY <1>0, <1>2, <1>3, <1>8, <4>2
      <3>2. r[i - n] = p[(i + 1) - n]
        BY <3>1
      <3> QED
        BY <1>1, <1>2, <2>1, <2>4, <3>1, <3>2, <3>3
    <2> QED
      BY <2>2, <2>3, <2>4
  <1>9. QueuedAt(q, c, t, n + k)
    BY <1>4, <1>5, <1>6, <1>7, <1>8 DEF QueuedAt
  <1> QED
    BY <1>4, <1>9 DEF Queued, q, t

LEMMA OneLess ==
    ASSUME NEW n \in Nat, NEW m \in Nat, NEW k \in 1 .. n + 1,
           m = IF k <= n THEN n - 1 ELSE n
    PROVE  /\ m <= n
           /\ m = n => k = n + 1
           /\ m + 1 = IF k <= n THEN n ELSE n + 1
  OBVIOUS

\* The four ways a line is changed.
LineIs(d, q, s, taken) == d \in Lines /\ d.parked = q /\ d.sent = s /\ d.taken = taken

LEMMA ParkedIs ==
    ASSUME NEW line \in Lines, NEW q \in Seq(Commands)
    PROVE  /\ LineIs(Parked(line, q), q, line.sent, TRUE)
           /\ LineIs([line EXCEPT !.parked = q, !.taken = FALSE], q, line.sent, FALSE)
  BY DEF Lines, Parked, LineIs

LEMMA SentIs ==
    ASSUME NEW line \in Lines, NEW q \in Seq(Commands), NEW c \in Commands
    PROVE  LineIs([Parked(line, q) EXCEPT !.sent = Append(@, c)], q, Append(line.sent, c), TRUE)
  <1>1. Parked(line, q) \in Lines /\ LineIs(Parked(line, q), q, line.sent, TRUE)
    BY ParkedIs DEF LineIs
  <1>2. Append(line.sent, c) \in Seq(Commands)
    BY AppendProperties DEF Lines
  <1> QED
    BY <1>1, <1>2 DEF LineIs, Lines

\* What becomes of a command: it is at the end of the queue, or it is not taken
\* and the queue is as it was.
LEMMA DispatchIs ==
    ASSUME NEW line \in Lines, Fits(line), NEW c \in Commands
    PROVE  /\ Dispatch(line, c) \in Lines
           /\ Fits(Dispatch(line, c))
           /\ Dispatch(line, c).taken => Queued(QueueOf(line), c, QueueOf(Dispatch(line, c)))
           /\ ~Dispatch(line, c).taken => QueueOf(Dispatch(line, c)) = QueueOf(line)
  <1> DEFINE p == line.parked
             s == line.sent
             older == {i \in DOMAIN p : /\ c.op = "extend"
                                        /\ p[i].op = "extend"
                                        /\ p[i].book = c.book}
             q == Without(p, older)
             subsumed == {i \in DOMAIN q : /\ IsOpen(c) /\ c.previous # None
                                           /\ q[i].op = "progress"
                                           /\ q[i].book = c.previous.book}
             d == Dispatch(line, c)
  <1>1. /\ p \in Seq(Commands) /\ s \in Seq(Commands)
        /\ Len(p) \in Nat /\ Len(s) \in Nat /\ DOMAIN p = 1 .. Len(p)
        /\ Len(p) <= ParkedSlots /\ Len(s) <= QueueSlots
        /\ ParkedSlots \in Nat /\ QueueSlots \in Nat
    BY LenProperties, StorageAssumption DEF Lines, Fits
  <1>2. d = IF q = <<>> /\ Len(s) < QueueSlots
            THEN [Parked(line, q) EXCEPT !.sent = Append(@, c)]
            ELSE IF Len(q) < ParkedSlots THEN Parked(line, Append(q, c))
            ELSE IF subsumed # {} THEN Parked(line, Append(Without(q, subsumed), c))
            ELSE [line EXCEPT !.parked = q, !.taken = FALSE]
    BY DEF Dispatch
  <1> HIDE DEF d, p, s
  <1>3. older \in SUBSET DOMAIN p
    OBVIOUS
  <1>4. \E k \in 1 .. Len(p) + 1 :
          /\ q \in Seq(Commands)
          /\ k <= Len(p) => MayReplace(c, p[k])
          /\ Len(q) = IF k <= Len(p) THEN Len(p) - 1 ELSE Len(p)
          /\ \A i \in 1 .. Len(q) : q[i] = IF i < k THEN p[i] ELSE p[i + 1]
          /\ k = Len(p) + 1 => q = p
    <2>2. ASSUME NEW k \in older, q \in Seq(Commands), Len(q) = Len(p) - 1,
                 \A i \in 1 .. Len(p) - 1 : q[i] = IF i < k THEN p[i] ELSE p[i + 1]
          PROVE  /\ k \in 1 .. Len(p) /\ MayReplace(c, p[k])
                 /\ \A i \in 1 .. Len(q) : q[i] = IF i < k THEN p[i] ELSE p[i + 1]
      BY <1>1, <2>2 DEF MayReplace
    <2> HIDE DEF q, older
    <2>1. CASE older = {} /\ q = p
      <3>1. /\ Len(p) + 1 \in 1 .. Len(p) + 1 /\ ~(Len(p) + 1 <= Len(p))
            /\ \A i \in 1 .. Len(p) : i < Len(p) + 1
        BY <1>1
      <3> QED
        BY <1>1, <2>1, <3>1
    <2>3. CASE \E k \in older :
                 /\ q \in Seq(Commands) /\ Len(q) = Len(p) - 1
                 /\ \A i \in 1 .. Len(p) - 1 : q[i] = IF i < k THEN p[i] ELSE p[i + 1]
      <3>1. PICK k \in older :
                 /\ q \in Seq(Commands) /\ Len(q) = Len(p) - 1
                 /\ \A i \in 1 .. Len(p) - 1 : q[i] = IF i < k THEN p[i] ELSE p[i + 1]
        BY <2>3
      <3>2. /\ k \in 1 .. Len(p) /\ MayReplace(c, p[k])
            /\ \A i \in 1 .. Len(q) : q[i] = IF i < k THEN p[i] ELSE p[i + 1]
        BY <2>2, <3>1
      <3>3. k \in 1 .. Len(p) + 1 /\ k <= Len(p) /\ k # Len(p) + 1
        BY <1>1, <3>2
      <3> QED
        BY <3>1, <3>2, <3>3
    <2>4. \/ older = {} /\ q = p
          \/ \E k \in older :
                 /\ q \in Seq(Commands) /\ Len(q) = Len(p) - 1
                 /\ \A i \in 1 .. Len(p) - 1 : q[i] = IF i < k THEN p[i] ELSE p[i + 1]
      BY <1>1, <1>3, WithoutIs DEF q
    <2> QED
      BY <2>1, <2>3, <2>4
  <1>5. PICK k \in 1 .. Len(p) + 1 :
          /\ q \in Seq(Commands)
          /\ k <= Len(p) => MayReplace(c, p[k])
          /\ Len(q) = IF k <= Len(p) THEN Len(p) - 1 ELSE Len(p)
          /\ \A i \in 1 .. Len(q) : q[i] = IF i < k THEN p[i] ELSE p[i + 1]
          /\ k = Len(p) + 1 => q = p
    BY <1>4
  <1>6. subsumed \in SUBSET DOMAIN q
    OBVIOUS
  <1>7. /\ Len(q) \in Nat /\ Len(q) <= Len(p) /\ DOMAIN q = 1 .. Len(q)
        /\ Len(q) = Len(p) => k = Len(p) + 1
        /\ Len(q) + 1 = IF k <= Len(p) THEN Len(p) ELSE Len(p) + 1
    <2>1. Len(q) \in Nat /\ DOMAIN q = 1 .. Len(q)
      BY <1>5, LenProperties
    <2>2. Len(q) = IF k <= Len(p) THEN Len(p) - 1 ELSE Len(p)
      BY <1>5
    <2> HIDE DEF q
    <2>3. Len(p) \in Nat
      BY <1>1
    <2> QED
      BY <2>1, <2>2, <2>3, OneLess
  <1>8. \A i \in subsumed : MayReplace(c, q[i])
    BY DEF MayReplace, IsOpen
  <1> HIDE DEF q, older, subsumed
  <1>9. line.parked = p /\ line.sent = s
    BY DEF p, s
  <1>10. CASE q = <<>> /\ Len(s) < QueueSlots
    <2>1. LineIs(d, q, Append(s, c), TRUE)
      BY <1>2, <1>5, <1>9, <1>10, SentIs
    <2>2. /\ Append(s, c) \in Seq(Commands) /\ Len(Append(s, c)) = Len(s) + 1
          /\ Append(s, c) = s \o <<c>>
      BY <1>1, AppendProperties, AppendIsConcat
    <2>3. Append(s, c) \o q = Append(s, c)
      BY <1>10, <2>2, ConcatEmptySeq
    <2>4. Queued(s \o p, c, s \o <<c>>)
      <3>1. /\ <<c>> \in Seq(Commands) /\ Len(<<c>>) = 1 /\ <<c>>[1] = c
            /\ Len(q) = 0
        BY <1>10
      <3>2. Len(p) = IF k <= Len(p) THEN 1 ELSE 0
        BY <1>1, <1>5, <3>1
      <3> HIDE <1>2
      <3>3. /\ Len(<<c>>) = IF k <= Len(p) THEN Len(p) ELSE Len(p) + 1
            /\ \A i \in 1 .. Len(<<c>>) - 1 : <<c>>[i] = IF i < k THEN p[i] ELSE p[i + 1]
        BY <1>1, <3>1, <3>2
      <3> QED
        BY <1>1, <1>5, <3>1, <3>3, QueuedBehind
    <2>5. QueueOf(d) = s \o <<c>> /\ QueueOf(line) = s \o p /\ d.taken
      BY <1>9, <2>1, <2>2, <2>3 DEF QueueOf, LineIs
    <2>6. d \in Lines /\ Fits(d)
      <3>1. Len(Append(s, c)) <= QueueSlots /\ Len(q) <= ParkedSlots
        BY <1>1, <1>7, <1>10, <2>2
      <3> QED
        BY <1>1, <1>5, <2>1, <2>2, <3>1 DEF LineIs, Fits
    <2> QED
      BY <2>4, <2>5, <2>6, <1>9 DEF d, QueueOf
  <1>11. CASE ~(q = <<>> /\ Len(s) < QueueSlots) /\ Len(q) < ParkedSlots
    <2>1. LineIs(d, Append(q, c), s, TRUE)
      <3>1. Append(q, c) \in Seq(Commands)
        BY <1>5, AppendProperties
      <3> QED
        BY <1>2, <1>9, <1>11, <3>1, ParkedIs
    <2>2. /\ Append(q, c) \in Seq(Commands) /\ Len(Append(q, c)) = Len(q) + 1
          /\ \A i \in 1 .. Len(q) : Append(q, c)[i] = q[i]
          /\ Append(q, c)[Len(q) + 1] = c
      BY <1>5, AppendProperties
    <2>3. Queued(s \o p, c, s \o Append(q, c))
      <3> DEFINE r == Append(q, c)
      <3>1. Len(r) = IF k <= Len(p) THEN Len(p) ELSE Len(p) + 1
        <4>1. Len(r) = Len(q) + 1
          BY <2>2
        <4> HIDE DEF r
        <4> QED
          BY <1>7, <4>1
      <3>2. r[Len(r)] = c
        BY <2>2
      <3>3. \A i \in 1 .. Len(r) - 1 : r[i] = IF i < k THEN p[i] ELSE p[i + 1]
        BY <1>5, <1>7, <2>2
      <3> HIDE DEF r
      <3>4. r \in Seq(Commands)
        BY <2>2 DEF r
      <3>5. Queued(s \o p, c, s \o r)
        BY <1>1, <1>5, <3>1, <3>2, <3>3, <3>4, QueuedBehind
      <3> QED
        BY <3>5 DEF r
    <2>4. QueueOf(d) = s \o Append(q, c) /\ QueueOf(line) = s \o p /\ d.taken
      BY <1>9, <2>1 DEF QueueOf, LineIs
    <2>5. d \in Lines /\ Fits(d)
      <3>1. Len(Append(q, c)) <= ParkedSlots
        <4>1. Len(q) < ParkedSlots
          BY <1>11
        <4>2. ParkedSlots \in Nat /\ Len(q) \in Nat /\ Len(Append(q, c)) = Len(q) + 1
          BY <1>1, <1>7, <2>2
        <4> QED
          BY <4>1, <4>2
      <3> QED
        BY <1>1, <2>1, <2>2, <3>1 DEF LineIs, Fits
    <2> QED
      BY <2>3, <2>4, <2>5 DEF d
  <1>12. CASE ~(q = <<>> /\ Len(s) < QueueSlots) /\ ~(Len(q) < ParkedSlots)
    <2>1. q = p /\ Len(p) = ParkedSlots
      <3>1. Len(p) = ParkedSlots /\ Len(q) = Len(p)
        <4>1. ~(Len(q) < ParkedSlots)
          BY <1>12
        <4>2. /\ ParkedSlots \in Nat /\ Len(q) \in Nat /\ Len(p) \in Nat
              /\ Len(p) <= ParkedSlots /\ Len(q) <= Len(p)
          BY <1>1, <1>7
        <4> QED
          BY <4>1, <4>2
      <3> QED
        BY <1>5, <1>7, <3>1
    <2>2. CASE subsumed = {}
      <3>1. LineIs(d, q, s, FALSE)
        BY <1>2, <1>5, <1>9, <1>12, <2>2, ParkedIs
      <3>2. QueueOf(d) = QueueOf(line) /\ ~d.taken
        BY <1>9, <2>1, <3>1 DEF QueueOf, LineIs
      <3>3. d \in Lines /\ Fits(d)
        BY <1>1, <2>1, <3>1 DEF LineIs, Fits
      <3> QED
        BY <3>2, <3>3 DEF d
    <2>3. CASE subsumed # {}
      <3> DEFINE w == Without(p, subsumed)
      <3>2. PICK j \in subsumed :
              /\ w \in Seq(Commands) /\ Len(w) = Len(p) - 1
              /\ \A i \in 1 .. Len(p) - 1 : w[i] = IF i < j THEN p[i] ELSE p[i + 1]
        BY <1>1, <1>6, <2>1, <2>3, WithoutIs
      <3> HIDE DEF w
      <3>3. j \in 1 .. Len(p) /\ MayReplace(c, p[j]) /\ Len(p) >= 1
        BY <1>1, <1>6, <1>8, <2>1
      <3>4. /\ Append(w, c) \in Seq(Commands) /\ Len(Append(w, c)) = Len(w) + 1
            /\ \A i \in 1 .. Len(w) : Append(w, c)[i] = w[i]
            /\ Append(w, c)[Len(w) + 1] = c
        BY <3>2, AppendProperties
      <3>1. LineIs(d, Append(w, c), s, TRUE)
        BY <1>2, <1>9, <1>12, <2>1, <2>3, <3>4, ParkedIs DEF w
      <3>5. Queued(s \o p, c, s \o Append(w, c))
        <4> DEFINE r == Append(w, c)
        <4>1. Len(r) = Len(p) /\ j \in 1 .. Len(p) + 1 /\ j <= Len(p)
          BY <1>1, <3>2, <3>3, <3>4
        <4>2. r[Len(r)] = c /\ r \in Seq(Commands)
          BY <3>4
        <4>3. \A i \in 1 .. Len(r) - 1 : r[i] = IF i < j THEN p[i] ELSE p[i + 1]
          BY <1>1, <3>2, <3>4
        <4> HIDE DEF r
        <4>4. Queued(s \o p, c, s \o r)
          BY <1>1, <3>3, <4>1, <4>2, <4>3, QueuedBehind
        <4> QED
          BY <4>4 DEF r
      <3>6. QueueOf(d) = s \o Append(w, c) /\ QueueOf(line) = s \o p /\ d.taken
        BY <1>9, <3>1 DEF QueueOf, LineIs
      <3>7. d \in Lines /\ Fits(d)
        BY <1>1, <2>1, <3>1, <3>2, <3>4 DEF LineIs, Fits
      <3> QED
        BY <3>5, <3>6, <3>7 DEF d
    <2> QED
      BY <2>2, <2>3
  <1> QED
    BY <1>10, <1>11, <1>12

\* What is where in the queue then.
LEMMA QueuedHas ==
    ASSUME NEW q \in Seq(Commands), NEW c, NEW r \in Seq(Commands), Queued(q, c, r)
    PROVE  /\ Len(r) \in DOMAIN r /\ r[Len(r)] = c
           /\ \A i \in DOMAIN r : i # Len(r) => \E k \in DOMAIN q : r[i] = q[k]
           /\ \A i, j \in DOMAIN r : i < j /\ j # Len(r) =>
                \E k, l \in DOMAIN q : k < l /\ r[i] = q[k] /\ r[j] = q[l]
           /\ \A k \in DOMAIN q : ~MayReplace(c, q[k]) =>
                \E i \in DOMAIN r :
                  /\ i # Len(r) /\ r[i] = q[k]
                  /\ \A j \in DOMAIN r : i < j /\ j # Len(r) =>
                       \E l \in DOMAIN q : k < l /\ r[j] = q[l]
  <1>0. /\ Len(q) \in Nat /\ Len(r) \in Nat
        /\ DOMAIN q = 1 .. Len(q) /\ DOMAIN r = 1 .. Len(r)
    BY LenProperties
  <1>1. PICK m \in 1 .. Len(q) + 1 : QueuedAt(q, c, r, m)
    BY DEF Queued
  <1> DEFINE at(i) == IF i < m THEN i ELSE i + 1
  <1>2. /\ m <= Len(q) => MayReplace(c, q[m])
        /\ Len(r) = IF m <= Len(q) THEN Len(q) ELSE Len(q) + 1
        /\ r[Len(r)] = c
        /\ \A i \in 1 .. Len(r) - 1 : r[i] = q[at(i)]
    BY <1>1 DEF QueuedAt
  <1>3. Len(r) >= 1
    <2>1. m \in 1 .. Len(q) + 1 /\ Len(r) = IF m <= Len(q) THEN Len(q) ELSE Len(q) + 1
      BY <1>2
    <2> QED
      BY <1>0, <2>1
  <1>4. \A i \in 1 .. Len(r) - 1 : at(i) \in 1 .. Len(q)
    <2>1. m \in 1 .. Len(q) + 1 /\ Len(r) = IF m <= Len(q) THEN Len(q) ELSE Len(q) + 1
      BY <1>2
    <2> QED
      BY <1>0, <2>1
  <1>5. \A i, j \in 1 .. Len(r) - 1 : i < j => at(i) < at(j)
    BY <1>0
  <1>6. \A k \in 1 .. Len(q) : k # m =>
          \E i \in 1 .. Len(r) - 1 : at(i) = k
    <2> SUFFICES ASSUME NEW k \in 1 .. Len(q), k # m
                 PROVE  \E i \in 1 .. Len(r) - 1 : at(i) = k
      OBVIOUS
    <2>1. m \in 1 .. Len(q) + 1 /\ Len(r) = IF m <= Len(q) THEN Len(q) ELSE Len(q) + 1
      BY <1>2
    <2>2. CASE k < m
      <3>1. k \in 1 .. Len(r) - 1 /\ at(k) = k
        BY <1>0, <2>1, <2>2
      <3> QED
        BY <3>1
    <2>3. CASE ~(k < m)
      <3>1. k - 1 \in 1 .. Len(r) - 1 /\ at(k - 1) = k
        BY <1>0, <2>1, <2>3
      <3> QED
        BY <3>1
    <2> QED
      BY <2>2, <2>3
  <1> HIDE DEF at
  <1>7. \A i \in DOMAIN r : i # Len(r) => i \in 1 .. Len(r) - 1
    BY <1>0
  <1>8. \A i, j \in DOMAIN r : i < j /\ j # Len(r) =>
          \E k, l \in DOMAIN q : k < l /\ r[i] = q[k] /\ r[j] = q[l]
    <2> SUFFICES ASSUME NEW i \in DOMAIN r, NEW j \in DOMAIN r, i < j, j # Len(r)
                 PROVE  \E k, l \in DOMAIN q : k < l /\ r[i] = q[k] /\ r[j] = q[l]
      OBVIOUS
    <2>1. i \in 1 .. Len(r) - 1 /\ j \in 1 .. Len(r) - 1
      BY <1>0
    <2> QED
      BY <1>0, <1>2, <1>4, <1>5, <2>1
  <1>9. ASSUME NEW k \in DOMAIN q, ~MayReplace(c, q[k])
        PROVE  \E i \in DOMAIN r :
                  /\ i # Len(r) /\ r[i] = q[k]
                  /\ \A j \in DOMAIN r : i < j /\ j # Len(r) =>
                       \E l \in DOMAIN q : k < l /\ r[j] = q[l]
    <2>1. k # m /\ k \in 1 .. Len(q)
      BY <1>0, <1>2, <1>9
    <2>2. PICK i \in 1 .. Len(r) - 1 : at(i) = k
      BY <1>6, <2>1
    <2>3. i \in DOMAIN r /\ i # Len(r) /\ r[i] = q[k]
      <3>1. r[i] = q[at(i)]
        BY <1>2
      <3>0. Len(r) \in Nat /\ i \in 1 .. Len(r) - 1
        BY <1>0, <2>2
      <3>2. i \in 1 .. Len(r) /\ i # Len(r)
        BY <3>0
      <3> QED
        BY <1>0, <2>2, <3>1, <3>2
    <2>4. ASSUME NEW j \in DOMAIN r, i < j, j # Len(r)
          PROVE  \E l \in DOMAIN q : k < l /\ r[j] = q[l]
      <3>1. j \in 1 .. Len(r) - 1
        BY <1>0, <2>4
      <3> QED
        BY <1>0, <1>2, <1>4, <1>5, <2>2, <2>4, <3>1
    <2> QED
      BY <2>3, <2>4
  <1>10. \A i \in DOMAIN r : i # Len(r) => \E k \in DOMAIN q : r[i] = q[k]
    BY <1>0, <1>2, <1>4, <1>7
  <1> QED
    BY <1>0, <1>2, <1>3, <1>8, <1>9, <1>10

\* What is where when the head has gone.
LEMMA TailHas ==
    ASSUME NEW S, NEW q \in Seq(S), q # <<>>
    PROVE  /\ 1 \in DOMAIN q /\ Head(q) = q[1] /\ Head(q) \in S
           /\ Tail(q) \in Seq(S) /\ Len(Tail(q)) = Len(q) - 1
           /\ DOMAIN q = 1 .. Len(q) /\ Len(q) \in Nat /\ Len(q) >= 1
           /\ \A i \in DOMAIN Tail(q) : i + 1 \in DOMAIN q /\ Tail(q)[i] = q[i + 1]
           /\ \A k \in DOMAIN q : k # 1 => k - 1 \in DOMAIN Tail(q) /\ Tail(q)[k - 1] = q[k]
  <1>1. Len(q) \in Nat /\ Len(q) # 0 /\ DOMAIN q = 1 .. Len(q)
    BY LenProperties, EmptySeq
  <1>2. /\ Head(q) \in S /\ Tail(q) \in Seq(S) /\ Len(Tail(q)) = Len(q) - 1
        /\ \A i \in 1 .. Len(Tail(q)) : Tail(q)[i] = q[i + 1]
    BY HeadTailProperties
  <1>3. DOMAIN Tail(q) = 1 .. Len(q) - 1
    BY <1>2, LenProperties
  <1>4. Head(q) = q[1]
    OBVIOUS
  <1> QED
    BY <1>1, <1>2, <1>3, <1>4

\* The elements of a sequence with one more at its end.
LEMMA AppendHas ==
    ASSUME NEW S, NEW q \in Seq(S), NEW e \in S
    PROVE  /\ Append(q, e) \in Seq(S) /\ Len(Append(q, e)) = Len(q) + 1 /\ Len(q) \in Nat
           /\ DOMAIN q = 1 .. Len(q) /\ DOMAIN Append(q, e) = 1 .. Len(q) + 1
           /\ \A i \in DOMAIN q : Append(q, e)[i] = q[i]
           /\ Append(q, e)[Len(q) + 1] = e
  BY AppendProperties, LenProperties
-----------------------------------------------------------------------------
(***************************************************************************)
(* The card.                                                               *)
(***************************************************************************)
Pairs == [SlotNumbers -> Slot(Pages)]

\* A place that is still asked for has refusals left to take.
Held ==
    {h \in HeldPlaces : h.stopped \/ h.refusals < PlaceReadRefusals} \cup {None}

HeldTasks ==
    [loaded : Books \cup {None}, reading : Books \cup {None},
     pending : Spots \cup {None}, hold : Held]

Cards == [place : [Books -> Pairs], state : Spots, task : HeldTasks,
          ok : BOOLEAN, faults : Nat]

\* A written or spoiled pair is a pair of slots, and reads as a page or none.
LEMMA PairIs ==
    ASSUME NEW pair \in Pairs, NEW p \in Pages
    PROVE  /\ Publish(pair, p) \in Pairs
           /\ Tear(pair) \in Pairs
           /\ NewestPlace(pair) \in Pages \cup {None}
  <1>1. NewestSlot(pair) \in SlotNumbers /\ TargetSlot(pair) \in SlotNumbers
    BY DEF NewestSlot, TargetSlot, SlotNumbers
  <1>2. TargetSeq(pair) \in SeqNumber
    <2>1. CASE HasEntry(pair)
      <3>1. PICK i \in Newest(pair) : TRUE
        BY <2>1 DEF HasEntry
      <3>2. NewestSlot(pair) \in Newest(pair)
        BY <3>1 DEF NewestSlot, Newest, Entries, SlotNumbers
      <3>3. pair[NewestSlot(pair)].seq \in SeqNumber
        BY <1>1, <3>2 DEF Newest, Entries, Pairs, Slot, Blank, Damaged, UnknownVersion
      <3> QED
        BY <2>1, <3>3, NextIsNewer DEF TargetSeq
    <2>2. CASE ~HasEntry(pair)
      BY <2>2, ModulusAssumption DEF TargetSeq, SeqNumber
    <2> QED
      BY <2>1, <2>2
  <1>3. Entry(TargetSeq(pair), p) \in Slot(Pages) /\ Damaged \in Slot(Pages)
    BY <1>2 DEF Entry, Slot
  <1>4. CASE HasEntry(pair)
    <2>1. PICK i \in Newest(pair) : TRUE
      BY <1>4 DEF HasEntry
    <2>2. NewestSlot(pair) \in Newest(pair)
      BY <2>1 DEF NewestSlot, Newest, Entries, SlotNumbers
    <2>3. pair[NewestSlot(pair)].entry \in Pages
      BY <1>1, <2>2 DEF Newest, Entries, Pairs, Slot, Blank, Damaged, UnknownVersion
    <2> QED
      BY <1>1, <1>3, <1>4, <2>3 DEF Publish, Tear, Pairs, NewestPlace, NewestEntry
  <1>5. CASE ~HasEntry(pair)
    BY <1>1, <1>3, <1>5 DEF Publish, Tear, Pairs, NewestPlace
  <1> QED
    BY <1>4, <1>5

\* The fields of a hold.
LEMMA HeldIs ==
    ASSUME NEW hold \in Held
    PROVE  \/ hold = None
           \/ /\ hold # None /\ hold \in HeldPlaces
              /\ hold.book \in Books /\ hold.landed \in Pages /\ hold.left \in Pages \cup {None}
              /\ hold.place \in Pages \cup {None}
              /\ hold.refusals \in 0 .. PlaceReadRefusals /\ hold.stopped \in BOOLEAN
              /\ hold.stopped \/ hold.refusals < PlaceReadRefusals
  BY NoneAssumption DEF Held, HeldPlaces

LEMMA HoldIs ==
    ASSUME NEW b \in Books, NEW landed \in Pages, NEW p \in Pages \cup {None},
           NEW stopped \in BOOLEAN
    PROVE  Hold(b, landed, p, stopped) \in Held /\ None \in Held
  BY StorageAssumption DEF Hold, Held, HeldPlaces

\* A record ends a hold or leaves one.
LEMMA RetireIs ==
    ASSUME NEW hold \in Held, NEW b \in Books, NEW p \in Pages
    PROVE  Retire(hold, b, p) \in Held
  <1>1. CASE hold = None
    BY <1>1 DEF Retire
  <1>2. CASE hold # None
    <2>1. [hold EXCEPT !.left = None] \in Held
      BY <1>2 DEF Held, HeldPlaces
    <2> QED
      BY <1>2, <2>1, HoldIs DEF Retire, Held
  <1> QED
    BY <1>1, <1>2

\* The fields of what is done to the card and to the task.
LEMMA CardHas ==
    ASSUME NEW c \in Cards
    PROVE  /\ c.place \in [Books -> Pairs] /\ c.state \in Spots /\ c.task \in HeldTasks
           /\ c.ok \in BOOLEAN /\ c.faults \in Nat
           /\ c.task.loaded \in Books \cup {None} /\ c.task.reading \in Books \cup {None}
           /\ c.task.pending \in Spots \cup {None} /\ c.task.hold \in Held
  BY DEF Cards, HeldTasks

\* What a step may do to a card record leaves a card record.
LEMMA CardIs ==
    ASSUME NEW c \in Cards
    PROVE  /\ \A spot \in Spots : [c EXCEPT !.state = spot] \in Cards
           /\ [c EXCEPT !.faults = @ + 1] \in Cards
           /\ [c EXCEPT !.ok = FALSE, !.faults = @ + 1] \in Cards
           /\ \A h \in Held : [c EXCEPT !.task.hold = h] \in Cards
           /\ \A r \in Spots \cup {None} : [c EXCEPT !.task.pending = r] \in Cards
           /\ \A r \in Spots \cup {None} :
                [c EXCEPT !.task.pending = r, !.faults = @ + 1] \in Cards
           /\ \A h \in Held, b \in Books :
                [c EXCEPT !.task.loaded = b, !.task.reading = b, !.task.hold = h] \in Cards
           /\ \A h \in Held :
                [c EXCEPT !.task.loaded = None, !.task.hold = h, !.faults = @ + 1] \in Cards
           /\ \A pair \in Pairs, b \in Books, h \in Held, ok \in BOOLEAN :
                [c EXCEPT !.place[b] = pair, !.task.hold = h, !.ok = ok,
                          !.faults = @ + (IF ok THEN 0 ELSE 1)] \in Cards
  <1>1. /\ c = [place |-> c.place, state |-> c.state, task |-> c.task,
                ok |-> c.ok, faults |-> c.faults]
        /\ c.place \in [Books -> Pairs] /\ c.state \in Spots /\ c.task \in HeldTasks
        /\ c.ok \in BOOLEAN /\ c.faults \in Nat
    BY DEF Cards
  <1>2. c.faults + 1 \in Nat /\ \A ok \in BOOLEAN : c.faults + (IF ok THEN 0 ELSE 1) \in Nat
    BY <1>1
  <1>4. \A spot \in Spots : [c EXCEPT !.state = spot] \in Cards
    BY <1>1 DEF Cards
  <1>5. [c EXCEPT !.faults = @ + 1] \in Cards
    BY <1>1 DEF Cards
  <1>6. [c EXCEPT !.ok = FALSE, !.faults = @ + 1] \in Cards
    <2>1. \A n \in Nat : [c EXCEPT !.ok = FALSE, !.faults = n] \in Cards
      BY <1>1 DEF Cards
    <2>2. [c EXCEPT !.ok = FALSE, !.faults = c.faults + 1] \in Cards
      BY <1>2, <2>1
    <2> QED
      BY <2>2
  <1>7. \A h \in Held : [c EXCEPT !.task.hold = h] \in Cards
    BY <1>1 DEF Cards, HeldTasks
  <1>8. \A r \in Spots \cup {None} : [c EXCEPT !.task.pending = r] \in Cards
    BY <1>1 DEF Cards, HeldTasks
  <1>9. \A r \in Spots \cup {None} : [c EXCEPT !.task.pending = r, !.faults = @ + 1] \in Cards
    <2>1. \A r \in Spots \cup {None}, n \in Nat :
            [c EXCEPT !.task.pending = r, !.faults = n] \in Cards
      BY <1>1 DEF Cards, HeldTasks
    <2>2. \A r \in Spots \cup {None} :
            [c EXCEPT !.task.pending = r, !.faults = c.faults + 1] \in Cards
      BY <1>2, <2>1
    <2> QED
      BY <2>2
  <1>10. \A h \in Held, b \in Books :
           [c EXCEPT !.task.loaded = b, !.task.reading = b, !.task.hold = h] \in Cards
    BY <1>1 DEF Cards, HeldTasks
  <1>11. \A h \in Held :
           [c EXCEPT !.task.loaded = None, !.task.hold = h, !.faults = @ + 1] \in Cards
    <2>1. \A h \in Held, n \in Nat :
            [c EXCEPT !.task.loaded = None, !.task.hold = h, !.faults = n] \in Cards
      BY <1>1 DEF Cards, HeldTasks
    <2>2. \A h \in Held :
            [c EXCEPT !.task.loaded = None, !.task.hold = h, !.faults = c.faults + 1] \in Cards
      BY <1>2, <2>1
    <2> QED
      BY <2>2
  <1>12. \A pair \in Pairs, b \in Books, h \in Held, ok \in BOOLEAN :
           [c EXCEPT !.place[b] = pair, !.task.hold = h, !.ok = ok,
                     !.faults = @ + (IF ok THEN 0 ELSE 1)] \in Cards
    <2>1. \A pair \in Pairs, b \in Books, h \in Held, ok \in BOOLEAN, n \in Nat :
            [c EXCEPT !.place[b] = pair, !.task.hold = h, !.ok = ok, !.faults = n] \in Cards
      BY <1>1 DEF Cards, HeldTasks
    <2>2. \A pair \in Pairs, b \in Books, h \in Held, ok \in BOOLEAN :
            [c EXCEPT !.place[b] = pair, !.task.hold = h, !.ok = ok,
                      !.faults = c.faults + (IF ok THEN 0 ELSE 1)] \in Cards
      BY <1>2, <2>1
    <2> QED
      BY <2>2
  <1> QED
    BY <1>4, <1>5, <1>6, <1>7, <1>8, <1>9, <1>10, <1>11, <1>12

\* The outcomes of a write of a place are cards.
LEMMA PlaceWritesAre ==
    ASSUME NEW c \in Cards, NEW b \in Books, NEW p \in Pages
    PROVE  PlaceWrites(c, b, p) \subseteq Cards
  <1> DEFINE hold == Retire(c.task.hold, b, p)
             out(pair, ok) == [c EXCEPT !.place[b] = pair, !.task.hold = hold, !.ok = ok,
                                        !.faults = @ + (IF ok THEN 0 ELSE 1)]
             unchanged == c.place[b]
             written == Publish(unchanged, p)
  <1>1. hold \in Held
    BY CardHas, RetireIs
  <1>2. unchanged \in Pairs
    BY CardHas
  <1>3. written \in Pairs /\ Tear(unchanged) \in Pairs
    BY <1>2, PairIs
  <1>4. ASSUME NEW pair \in Pairs, NEW ok \in BOOLEAN PROVE out(pair, ok) \in Cards
    BY <1>1, CardIs
  <1>5. PlaceWrites(c, b, p) \subseteq
            {out(unchanged, TRUE), out(unchanged, FALSE), out(written, TRUE),
             out(written, FALSE), out(Tear(unchanged), FALSE)}
    <2> HIDE DEF out
    <2> QED
      BY DEF PlaceWrites, out
  <1> HIDE DEF out, unchanged, written
  <1> QED
    BY <1>2, <1>3, <1>4, <1>5 DEF written

LEMMA StateWritesAre ==
    ASSUME NEW c \in Cards, NEW spot \in Spots
    PROVE  StateWrites(c, spot) \subseteq Cards
  BY CardIs DEF StateWrites

LEMMA AppStateWritesAre ==
    ASSUME NEW c \in Cards, NEW spot \in Spots
    PROVE  AppStateWrites(c, spot) \subseteq Cards
  <1>1. spot.book \in Books /\ spot.page \in Pages
    BY DEF Spots
  <1>2. PlaceWrites(c, spot.book, spot.page) \subseteq Cards
    BY <1>1, PlaceWritesAre
  <1>3. \A w \in UNION {StateWrites(v, spot) : v \in PlaceWrites(c, spot.book, spot.page)} :
          w \in Cards
    BY <1>2, StateWritesAre
  <1>4. ASSUME NEW w \in Cards
        PROVE  [w EXCEPT !.task.pending = IF w.ok THEN None ELSE spot] \in Cards
    <2>1. (IF w.ok THEN None ELSE spot) \in Spots \cup {None}
      OBVIOUS
    <2> QED
      BY <2>1, CardIs
  <1> QED
    BY <1>3, <1>4 DEF AppStateWrites

LEMMA FlushWritesAre ==
    ASSUME NEW c \in Cards
    PROVE  FlushWrites(c) \subseteq Cards
  BY CardHas, AppStateWritesAre DEF FlushWrites

LEMMA OthersFirstAre ==
    ASSUME NEW c \in Cards, NEW b
    PROVE  OthersFirst(c, b) \subseteq Cards
  BY FlushWritesAre DEF OthersFirst

\* The outcomes of leaving a book are cards.
LEMMA CloseOutIs ==
    ASSUME NEW c \in Cards, NEW previous \in Spots
    PROVE  CloseOut(c, previous) \subseteq Cards
  <1> DEFINE held(v) == previous.book \in {v.task.loaded, v.task.reading}
             rest(v) == IF ~held(v) THEN {v}
                        ELSE PlaceWrites(v, previous.book, previous.page)
             kept(v) == [v EXCEPT !.task.pending = IF v.ok THEN None ELSE previous]
  <1>1. previous.book \in Books /\ previous.page \in Pages
    BY DEF Spots
  <1>2. ASSUME NEW v \in Cards PROVE kept(v) \in Cards
    <2>1. (IF v.ok THEN None ELSE previous) \in Spots \cup {None}
      OBVIOUS
    <2> QED
      BY <2>1, CardIs
  <1>3. ASSUME NEW v \in Cards PROVE rest(v) \subseteq Cards
    BY <1>1, PlaceWritesAre
  <1>4. CloseOut(c, previous) =
            UNION {IF ~v.ok THEN {v} ELSE {kept(w) : w \in rest(v)} :
                      v \in OthersFirst(c, previous.book)}
    BY DEF CloseOut
  <1> HIDE DEF kept, rest
  <1>5. ASSUME NEW v \in Cards
        PROVE  (IF ~v.ok THEN {v} ELSE {kept(w) : w \in rest(v)}) \subseteq Cards
    BY <1>2, <1>3
  <1>6. OthersFirst(c, previous.book) \subseteq Cards
    BY OthersFirstAre
  <1> QED
    BY <1>4, <1>5, <1>6

-----------------------------------------------------------------------------
(***************************************************************************)
(* Where a load leaves the card and the reader.                            *)
(***************************************************************************)
Landings == [card : Cards, event : Events, stands : BOOLEAN]

\* A page that a save may stand on is one that the event reports.
WellLanded(l) ==
    /\ l \in Landings
    /\ l.event.kind \in {"loaded", "unreadable"}
    /\ l.stands => l.event.kind = "loaded" /\ l.event.position \in Pages

LEMMA LandingIs ==
    ASSUME NEW c \in Cards, NEW b \in Books, NEW position \in Pages \cup {None},
           NEW hold \in Held, NEW replaced \in BOOLEAN
    PROVE  /\ WellLanded(Landing(c, b, position, hold, replaced))
           /\ Landing(c, b, position, hold, replaced).event = Loaded(b, position, replaced)
  <1>1. /\ Loaded(b, position, replaced) \in Events
        /\ Loaded(b, position, replaced).kind = "loaded"
        /\ Loaded(b, position, replaced).position = position
    BY DEF Loaded, Events
  <1>2. [c EXCEPT !.task.loaded = b, !.task.reading = b, !.task.hold = hold] \in Cards
    BY CardIs
  <1> QED
    BY <1>1, <1>2 DEF WellLanded, Landings, Landing

LEMMA FallbackIs ==
    ASSUME NEW c \in Cards, NEW b \in Books, NEW hold \in Held, NEW stands \in BOOLEAN
    PROVE  /\ WellLanded(Fallback(c, b, hold, stands))
           /\ Fallback(c, b, hold, stands).event = Loaded(b, 0, TRUE)
  <1>0. 0 \in Pages
    BY StorageAssumption DEF Pages
  <1>1. [c EXCEPT !.faults = @ + 1] \in Cards
    BY CardIs
  <1> DEFINE l == Landing([c EXCEPT !.faults = @ + 1], b, 0, hold, TRUE)
  <1>2. WellLanded(l) /\ l.event = Loaded(b, 0, TRUE)
    BY <1>0, <1>1, LandingIs
  <1>3. Fallback(c, b, hold, stands) = [l EXCEPT !.stands = stands]
    BY DEF Fallback
  <1> HIDE DEF l
  <1>4. l.event.kind = "loaded" /\ l.event.position = 0
    BY <1>2 DEF Loaded
  <1> QED
    BY <1>0, <1>2, <1>3, <1>4 DEF WellLanded, Landings

LEMMA NothingLoadsIs ==
    ASSUME NEW c \in Cards, NEW b \in Books, NEW hold \in Held
    PROVE  /\ WellLanded(NothingLoads(c, b, hold))
           /\ NothingLoads(c, b, hold).event = Event("unreadable", b)
  <1>1. Event("unreadable", b) \in Events /\ Event("unreadable", b).kind = "unreadable"
    BY DEF Event, Events
  <1>2. [c EXCEPT !.task.loaded = None, !.task.hold = hold, !.faults = @ + 1] \in Cards
    BY CardIs
  <1> QED
    BY <1>1, <1>2 DEF WellLanded, Landings, NothingLoads
LandsOn(l, b) == WellLanded(l) /\ l.event.book = b

\* Every way a load ends is about the book that was asked for.
LEMMA LandsOnIs ==
    ASSUME NEW c \in Cards, NEW b \in Books, NEW hold \in Held
    PROVE  /\ \A position \in Pages \cup {None}, replaced \in BOOLEAN :
                LandsOn(Landing(c, b, position, hold, replaced), b)
           /\ \A stands \in BOOLEAN : LandsOn(Fallback(c, b, hold, stands), b)
           /\ LandsOn(NothingLoads(c, b, hold), b)
  <1>1. \A position, replaced : Loaded(b, position, replaced).book = b
    BY DEF Loaded
  <1>2. Event("unreadable", b).book = b
    BY DEF Event
  <1>3. \A position \in Pages \cup {None}, replaced \in BOOLEAN :
          LandsOn(Landing(c, b, position, hold, replaced), b)
    BY <1>1, LandingIs DEF LandsOn
  <1>4. ASSUME NEW stands \in BOOLEAN PROVE LandsOn(Fallback(c, b, hold, stands), b)
    <2>1. /\ WellLanded(Fallback(c, b, hold, stands))
          /\ Fallback(c, b, hold, stands).event = Loaded(b, 0, TRUE)
      BY FallbackIs
    <2> QED
      BY <2>1 DEF LandsOn, Loaded
  <1>5. LandsOn(NothingLoads(c, b, hold), b)
    BY <1>2, NothingLoadsIs DEF LandsOn
  <1> QED
    BY <1>3, <1>4, <1>5

LEMMA AsAskedIs ==
    ASSUME NEW c \in Cards, NEW e, e.book \in Books, NEW hold \in Held
    PROVE  \A l \in AsAsked(c, e, hold) : LandsOn(l, e.book)
  <1>1. Replaced(c, e.book) \subseteq BOOLEAN
    BY DEF Replaced
  <1> QED
    BY <1>1, LandsOnIs DEF AsAsked

LEMMA AtPlaceIs ==
    ASSUME NEW c \in Cards, NEW e, e.book \in Books, NEW p \in Pages
    PROVE  \A l \in AtPlace(c, e, p) : LandsOn(l, e.book)
  <1>1. 0 \in Pages
    BY StorageAssumption DEF Pages
  <1>2. /\ Hold(e.book, p, p, TRUE) \in Held /\ Hold(e.book, 0, p, FALSE) \in Held
        /\ None \in Held
    BY <1>1, HoldIs
  <1> QED
    BY <1>2, LandsOnIs DEF AtPlace

LEMMA PlaceUnreadIs ==
    ASSUME NEW c \in Cards, NEW e, e.book \in Books, e.page \in Pages
    PROVE  \A l \in PlaceUnread(c, e) : LandsOn(l, e.book)
  <1> DEFINE unread == [c EXCEPT !.faults = @ + 1]
             waiting(page) == Hold(e.book, page, None, FALSE)
  <1>1. 0 \in Pages
    BY StorageAssumption DEF Pages
  <1>2. waiting(e.page) \in Held /\ waiting(0) \in Held /\ None \in Held
    BY <1>1, HoldIs
  <1>3. unread \in Cards
    BY CardIs
  <1>4. Replaced(c, e.book) \subseteq BOOLEAN
    BY DEF Replaced
  <1>5. PlaceUnread(c, e) =
          {Landing(unread, e.book, None, waiting(e.page), r) : r \in Replaced(c, e.book)}
          \cup (IF e.page = 0 THEN {} ELSE {Fallback(unread, e.book, waiting(0), FALSE)})
          \cup {NothingLoads(unread, e.book, None)}
    BY DEF PlaceUnread
  <1> HIDE DEF unread, waiting
  <1> QED
    BY <1>2, <1>3, <1>4, <1>5, LandsOnIs

LEMMA LoadsIs ==
    ASSUME NEW c \in Cards, NEW e, e.book \in Books, e.page \in Pages
    PROVE  \A l \in Loads(c, e) : LandsOn(l, e.book)
  <1> DEFINE p == NewestPlace(c.place[e.book])
  <1>1. p \in Pages \cup {None}
    BY CardHas, PairIs, StorageAssumption DEF Pages
  <1>2. /\ \A l \in AsAsked(c, e, None) : LandsOn(l, e.book)
        /\ \A l \in PlaceUnread(c, e) : LandsOn(l, e.book)
    BY AsAskedIs, PlaceUnreadIs DEF Held
  <1>3. p # None => \A l \in AtPlace(c, e, p) : LandsOn(l, e.book)
    BY <1>1, AtPlaceIs
  <1>4. Loads(c, e) \subseteq
          AsAsked(c, e, None) \cup PlaceUnread(c, e)
          \cup (IF p = None THEN {} ELSE AtPlace(c, e, p))
    <2> HIDE DEF p
    <2> QED
      BY DEF Loads, p
  <1> QED
    BY <1>2, <1>3, <1>4

LEMMA PointedIs ==
    ASSUME NEW e, e.book \in Books, NEW l, LandsOn(l, e.book)
    PROVE  \A d \in Pointed(l, e) : LandsOn(d, e.book)
  <1> DEFINE at == l.event.position
             spot == Spot(e.book, IF at = None THEN 0 ELSE at)
  <1>1. l \in Landings /\ l.card \in Cards /\ l.event \in Events /\ l.stands \in BOOLEAN
    BY DEF LandsOn, WellLanded, Landings
  <1>2. CASE e.previous = None \/ l.event.kind = "unreadable"
    BY <1>2 DEF Pointed
  <1>3. CASE ~(e.previous = None \/ l.event.kind = "unreadable")
    <2>1. l.event.kind = "loaded" /\ at \in Pages \cup {None}
      BY <1>1, <1>3 DEF LandsOn, WellLanded, Events
    <2>2. spot \in Spots
      <3>1. (IF at = None THEN 0 ELSE at) \in Pages
        BY <2>1, StorageAssumption DEF Pages
      <3> QED
        BY <3>1 DEF Spot, Spots
    <2> HIDE DEF spot, at
    <2>3. ASSUME NEW card \in Cards PROVE LandsOn([l EXCEPT !.card = card], e.book)
      BY <1>1 DEF LandsOn, WellLanded, Landings
    <2>4. [[l.card EXCEPT !.state = spot] EXCEPT !.task.pending = None] \in Cards
      BY <1>1, <2>2, CardIs
    <2>5. [l.card EXCEPT !.task.pending = spot, !.faults = @ + 1] \in Cards
      BY <1>1, <2>2, CardIs
    <2>6. /\ [l EXCEPT !.card.state = spot, !.card.task.pending = None]
             = [l EXCEPT !.card = [[l.card EXCEPT !.state = spot] EXCEPT !.task.pending = None]]
          /\ [l EXCEPT !.card.task.pending = spot, !.card.faults = @ + 1]
             = [l EXCEPT !.card = [l.card EXCEPT !.task.pending = spot, !.faults = @ + 1]]
      BY <1>1 DEF Landings, Cards, HeldTasks
    <2> QED
      BY <1>3, <2>3, <2>4, <2>5, <2>6 DEF Pointed, spot, at
  <1> QED
    BY <1>2, <1>3
-----------------------------------------------------------------------------
(***************************************************************************)
(* The app.                                                                *)
(***************************************************************************)
\* What the queue and the events are held against is the same in a and in b.
Alike(a, b) ==
    /\ b.request = a.request /\ b.picks = a.picks /\ b.book = a.book
    /\ b.opening = a.opening /\ b.rollback = a.rollback
    /\ b.view = a.view /\ b.picking = a.picking

\* What the panel shows is the state's, or a frame is on its way that is, or
\* one is owed after it.
FrameTrue(a, sh) ==
    /\ a.again => a.frame # None
    /\ a.frame = None => sh \in {Nowhere, Render(a)}
    /\ a.frame # None /\ ~a.again => a.frame = Render(a)

\* The input is held for an open, or for the frame it owes.
Gate(a) == a.gated => a.opening # None \/ a.frame # None

\* The fields of a state of the app.
LEMMA AppHas ==
    ASSUME NEW a \in AppStates
    PROVE  /\ a.view \in Views /\ a.book \in Books /\ a.page \in Pages /\ a.counted \in BOOLEAN
           /\ a.unreadable \in Books \cup {None} /\ a.opening \in Books \cup {None}
           /\ a.rollback \in Rollbacks \cup {None} /\ a.gated \in BOOLEAN
           /\ a.picking \in Nat /\ a.request \in Nat /\ a.picks \in Nat
           /\ a.frame \in Frames \cup {None} /\ a.again \in BOOLEAN
           /\ Render(a) \in Frames /\ Render(a) # None
           /\ Rollback(a) \in Rollbacks /\ Rollback(a) # None
           /\ Rollback(a).view = a.view /\ Rollback(a).book = a.book
           /\ Rollback(a).page = a.page /\ Rollback(a).counted = a.counted
           /\ a.book # None
           /\ 0 \in Pages
  <1>1. /\ a.view \in Views /\ a.book \in Books /\ a.page \in Pages /\ a.counted \in BOOLEAN
        /\ a.unreadable \in Books \cup {None} /\ a.opening \in Books \cup {None}
        /\ a.rollback \in Rollbacks \cup {None} /\ a.gated \in BOOLEAN
        /\ a.picking \in Nat /\ a.request \in Nat /\ a.picks \in Nat
        /\ a.frame \in Frames \cup {None} /\ a.again \in BOOLEAN
    BY DEF AppStates
  <1>2. 0 \in Pages
    BY StorageAssumption DEF Pages
  <1>3. Render(a) \in Frames
    BY <1>1, <1>2 DEF Render, Frames
  <1>4. Rollback(a) \in Rollbacks
    BY <1>1 DEF Rollback, Rollbacks
  <1>5. /\ Rollback(a).view = a.view /\ Rollback(a).book = a.book
        /\ Rollback(a).page = a.page /\ Rollback(a).counted = a.counted
    BY DEF Rollback
  <1> QED
    BY <1>1, <1>2, <1>3, <1>4, <1>5, NoneAssumption

\* A frame frozen from the state, or owed after one, is true to it.
LEMMA RenderedIs ==
    ASSUME NEW a \in AppStates, a.again => a.frame # None, NEW sh
    PROVE  /\ Rendered(a) \in AppStates
           /\ Alike(a, Rendered(a))
           /\ FrameTrue(Rendered(a), sh)
           /\ Gate(Rendered(a))
  <1>1. Render(a) \in Frames /\ Render(a) # None
    BY AppHas
  <1>2. CASE a.frame = None
    <2> DEFINE b == [a EXCEPT !.frame = Render(a)]
    <2>1. /\ b \in AppStates /\ Alike(a, b) /\ b.frame = Render(a) /\ b.again = a.again
          /\ b.page = a.page
      BY <1>1 DEF AppStates, Alike
    <2>2. Rendered(a) = b
      BY <1>2 DEF Rendered
    <2> HIDE DEF b
    <2>3. Render(b) = Render(a)
      BY <2>1 DEF Render, Alike
    <2>4. b.frame # None /\ ~b.again
      BY <1>1, <1>2, <2>1
    <2> QED
      BY <2>1, <2>2, <2>3, <2>4 DEF FrameTrue, Gate
  <1>3. CASE a.frame # None
    <2> DEFINE b == [a EXCEPT !.again = TRUE]
    <2>1. /\ b \in AppStates /\ Alike(a, b) /\ b.frame = a.frame /\ b.again
      BY DEF AppStates, Alike
    <2>2. Rendered(a) = b
      BY <1>3 DEF Rendered
    <2> HIDE DEF b
    <2> QED
      BY <1>3, <2>1, <2>2 DEF FrameTrue, Gate
  <1> QED
    BY <1>2, <1>3

\* Lifting the gate changes nothing else.
LEMMA LiftedIs ==
    ASSUME NEW a \in AppStates
    PROVE  /\ Lifted(a) \in AppStates
           /\ Alike(a, Lifted(a))
           /\ Lifted(a).page = a.page
           /\ Lifted(a).frame = a.frame /\ Lifted(a).again = a.again
           /\ Render(Lifted(a)) = Render(a)
           /\ \A sh : FrameTrue(a, sh) => FrameTrue(Lifted(a), sh)
           /\ Gate(Lifted(a))
  <1>1. /\ Lifted(a) \in AppStates /\ Alike(a, Lifted(a)) /\ Lifted(a).page = a.page
        /\ Lifted(a).frame = a.frame /\ Lifted(a).again = a.again
        /\ Lifted(a).gated => a.opening # None \/ a.frame # None
    BY DEF AppStates, Alike, Lifted
  <1>2. Render(Lifted(a)) = Render(a)
    BY <1>1 DEF Render, Alike
  <1>3. Gate(Lifted(a))
    BY <1>1 DEF Gate, Alike
  <1>4. \A sh : FrameTrue(a, sh) => FrameTrue(Lifted(a), sh)
    BY <1>1, <1>2 DEF FrameTrue
  <1> QED
    BY <1>1, <1>2, <1>3, <1>4

\* An answer clears the wait of its own book alone.
LEMMA AnsweredIs ==
    ASSUME NEW a \in AppStates, NEW b
    PROVE  /\ Answered(a, b) \in AppStates
           /\ Answered(a, b).request = a.request /\ Answered(a, b).picks = a.picks
           /\ Answered(a, b).book = a.book /\ Answered(a, b).view = a.view
           /\ Answered(a, b).page = a.page
           /\ Answered(a, b).picking = a.picking
           /\ Answered(a, b).frame = a.frame /\ Answered(a, b).again = a.again
           /\ a.opening = b => Answered(a, b).opening = None /\ Answered(a, b).rollback = None
           /\ a.opening # b => Answered(a, b) = a
  BY DEF AppStates, Answered

\* An open that is handed over is of the book that holds the input.
LEMMA AcceptedIs ==
    ASSUME NEW a \in AppStates, NEW q \in Seq(Commands)
    PROVE  /\ Accepted(a, q) \in AppStates
           /\ Accepted(a, q).frame = a.frame /\ Accepted(a, q).again = a.again
           /\ Accepted(a, q).page = a.page
           /\ \/ Accepted(a, q) = a
              \/ \E i \in DOMAIN q :
                   /\ q[i].op = "open"
                   /\ Accepted(a, q).opening = q[i].book
                   /\ Alike([a EXCEPT !.opening = q[i].book], Accepted(a, q))
  <1> DEFINE opens == {i \in DOMAIN q : q[i].op = "open"}
             k == CHOOSE i \in opens : \A j \in opens : j <= i
  <1>1. CASE opens = {}
    BY <1>1 DEF Accepted
  <1>2. CASE opens # {}
    <2>1. DOMAIN q = 1 .. Len(q) /\ Len(q) \in Nat
      BY LenProperties
    <2>2. k \in opens
      <3>1. \E i \in opens : \A j \in opens : j <= i
        <4> DEFINE back == {Len(q) + 1 - i : i \in opens}
        <4>1. back \subseteq Nat /\ back # {}
          BY <1>2, <2>1
        <4>2. PICK n \in back : \A y \in back : <<y, n>> \notin OpToRel(<, Nat)
          <5> HIDE DEF back
          <5> QED
            BY <4>1, NatLessThanWellFounded, WFMin
        <4>3. \A y \in back : ~(y < n)
          BY <4>1, <4>2 DEF OpToRel
        <4>4. PICK i \in opens : n = Len(q) + 1 - i
          BY <4>2
        <4>5. \A j \in opens : ~(Len(q) + 1 - j < Len(q) + 1 - i)
          BY <4>3, <4>4
        <4>6. opens \subseteq Nat
          BY <2>1
        <4> HIDE DEF back, opens
        <4> QED
          BY <2>1, <4>4, <4>5, <4>6
      <3> QED
        BY <3>1
    <2>3. Accepted(a, q) = [a EXCEPT !.opening = q[k].book, !.gated = TRUE]
      BY <1>2 DEF Accepted
    <2>4. q[k] \in Commands /\ q[k].op = "open"
      BY <2>1, <2>2, ElementOfSeq
    <2>5. q[k].book \in Books /\ k \in DOMAIN q
      BY <2>2, <2>4 DEF Commands
    <2> HIDE DEF k, opens
    <2> DEFINE d == [a EXCEPT !.opening = q[k].book, !.gated = TRUE]
    <2>6. /\ d \in AppStates /\ d.frame = a.frame /\ d.again = a.again
          /\ d.page = a.page /\ d.opening = q[k].book
          /\ Alike([a EXCEPT !.opening = q[k].book], d)
      BY <2>5 DEF AppStates, Alike
    <2> QED
      BY <2>3, <2>4, <2>5, <2>6
  <1> QED
    BY <1>1, <1>2

\* The fields of a command.
LEMMA CommandHas ==
    ASSUME NEW c \in Commands
    PROVE  /\ c # None
           /\ c.op \in {"open", "extend", "progress", "choose"}
           /\ c.book \in Books
           /\ c.op \in {"open", "extend", "progress"} => c.page \in Pages
           /\ c.op \in {"open", "extend", "choose"} => c.id \in Nat
           /\ c.op = "open" => c.previous \in Spots \cup {None}
           /\ IsOpen(c) <=> c.op = "open"
  <1>1. c # None
    BY NoneAssumption
  <1> QED
    BY <1>1 DEF Commands, IsOpen

\* The commands that load pages, and carry a request.
Load(c) == c.op \in {"open", "extend"}

\* Where a command leaves the app, whether it was taken or not.
LEMMA AfterIs ==
    ASSUME NEW b \in AppStates, NEW n \in AppStates, NEW c \in Commands, Load(c),
           NEW taken \in BOOLEAN
    PROVE  LET a == AfterDispatch(b, n, c, taken) IN
           /\ a \in AppStates /\ a.frame = n.frame /\ a.again = n.again
           /\ ~IsOpen(c) => a.page = n.page
           /\ a.picks = n.picks /\ a.picking = n.picking
           /\ ~taken /\ ~IsOpen(c) => a = n
           /\ ~taken /\ IsOpen(c) =>
                /\ a.view = b.view /\ a.book = b.book
                /\ a.request = n.request /\ a.opening = n.opening /\ a.rollback = n.rollback
           /\ taken => a.request = c.id /\ a.view = n.view /\ a.book = n.book
           /\ taken /\ ~IsOpen(c) => a.opening = n.opening /\ a.rollback = n.rollback
           /\ taken /\ IsOpen(c) => a.opening = c.book /\ a.rollback = Rollback(b)
  <1>0. c # None /\ c.op \in {"open", "extend", "progress", "choose"}
        /\ (IsOpen(c) <=> c.op = "open") /\ c.book \in Books
    BY CommandHas
  <1>1. CASE ~taken /\ IsOpen(c)
    <2> DEFINE a == [n EXCEPT !.view = b.view, !.book = b.book, !.page = b.page,
                              !.counted = b.counted]
    <2>1. AfterDispatch(b, n, c, taken) = a
      BY <1>0, <1>1, AppHas DEF AfterDispatch, RestoreAfterFailedOpen
    <2>2. b.view \in Views /\ b.book \in Books /\ b.page \in Pages /\ b.counted \in BOOLEAN
      BY AppHas
    <2>3. /\ a \in AppStates /\ a.frame = n.frame /\ a.again = n.again
          /\ a.picks = n.picks /\ a.picking = n.picking
          /\ a.view = b.view /\ a.book = b.book
          /\ a.request = n.request /\ a.opening = n.opening /\ a.rollback = n.rollback
      BY <2>2 DEF AppStates
    <2> HIDE DEF a
    <2> QED
      BY <1>0, <1>1, <2>1, <2>3
  <1>2. CASE ~taken /\ ~IsOpen(c)
    BY <1>0, <1>2 DEF AfterDispatch
  <1>3. CASE taken /\ IsOpen(c)
    <2> DEFINE a == [n EXCEPT !.request = c.id, !.opening = c.book, !.gated = TRUE,
                              !.rollback = Rollback(b)]
    <2>1. AfterDispatch(b, n, c, taken) = a
      BY <1>0, <1>3 DEF AfterDispatch
    <2>2. c.id \in Nat /\ Rollback(b) \in Rollbacks
      BY <1>3, CommandHas, AppHas
    <2>3. /\ a \in AppStates /\ a.frame = n.frame /\ a.again = n.again
          /\ a.picks = n.picks /\ a.picking = n.picking
          /\ a.view = n.view /\ a.book = n.book /\ a.request = c.id
          /\ a.opening = c.book /\ a.rollback = Rollback(b)
      BY <1>0, <2>2 DEF AppStates
    <2> HIDE DEF a
    <2> QED
      BY <1>0, <1>3, <2>1, <2>3
  <1>4. CASE taken /\ ~IsOpen(c)
    <2> DEFINE a == [n EXCEPT !.request = c.id]
    <2>1. AfterDispatch(b, n, c, taken) = a
      BY <1>0, <1>4 DEF AfterDispatch
    <2>2. c.id \in Nat
      BY CommandHas DEF Load
    <2>3. /\ a \in AppStates /\ a.frame = n.frame /\ a.again = n.again /\ a.page = n.page
          /\ a.picks = n.picks /\ a.picking = n.picking
          /\ a.view = n.view /\ a.book = n.book /\ a.request = c.id
          /\ a.opening = n.opening /\ a.rollback = n.rollback
      BY <2>2 DEF AppStates
    <2> HIDE DEF a
    <2> QED
      BY <1>0, <1>4, <2>1, <2>3
  <1> QED
    BY <1>1, <1>2, <1>3, <1>4

\* What becomes of a transition: its command is taken or not, the record of
\* the page is taken or not, and a frame follows.
LEMMA CarryIs ==
    ASSUME parked \in Seq(Commands), Len(parked) <= ParkedSlots,
           sent \in Seq(Commands), Len(sent) <= QueueSlots, lost \in BOOLEAN,
           NEW b \in AppStates, NEW n \in AppStates,
           NEW c \in Commands \cup {None}, c # None => Load(c),
           Carry(b, n, c)
    PROVE  \E a \in AppStates, r \in Seq(Commands) :
             /\ app' = Rendered(a)
             /\ parked' \in Seq(Commands) /\ Len(parked') <= ParkedSlots
             /\ sent' \in Seq(Commands) /\ Len(sent') <= QueueSlots
             /\ lost' \in BOOLEAN
             /\ \/ c = None /\ a = n /\ r = Queue
                \/ c # None /\ a = AfterDispatch(b, n, c, TRUE) /\ Queued(Queue, c, r)
                \/ c # None /\ a = AfterDispatch(b, n, c, FALSE) /\ r = Queue
             /\ \/ sent' \o parked' = r
                \/ \E w \in Commands : /\ w.op = "progress" /\ ~IsOpen(c)
                                       /\ Queued(r, w, sent' \o parked')
  <1> DEFINE first == IF c = None THEN Line ELSE Dispatch(Line, c)
             after == AfterDispatch(b, n, c, first.taken)
             owed == ProgressOwed(b, after, c)
             w == StoreProgress(after.book, after.page)
             last == IF owed THEN Dispatch(first, w) ELSE first
  <1>1. /\ Line \in Lines /\ Fits(Line) /\ QueueOf(Line) = Queue
    BY DEF Line, Lines, Fits, QueueOf, Queue
  <1>2. /\ first \in Lines /\ Fits(first)
        /\ c # None /\ first.taken => Queued(Queue, c, QueueOf(first))
        /\ c # None /\ ~first.taken => QueueOf(first) = Queue
        /\ c = None => QueueOf(first) = Queue
    BY <1>1, DispatchIs
  <1>3. /\ app' = Rendered(after) /\ parked' = last.parked /\ sent' = last.sent
        /\ lost' = IF owed THEN ~last.taken
                   ELSE (lost /\ ~(IsOpen(c) /\ c.previous # None /\ first.taken))
                        \/ TurnedUnread(b, after, c)
    BY DEF Carry
  <1> HIDE DEF first
  <1>4. first.taken \in BOOLEAN
    BY <1>2 DEF Lines
  <1>5. /\ after \in AppStates
        /\ \/ c = None /\ after = n
           \/ c # None /\ first.taken /\ after = AfterDispatch(b, n, c, TRUE)
           \/ c # None /\ ~first.taken /\ after = AfterDispatch(b, n, c, FALSE)
    <2>1. CASE c = None
      BY <2>1 DEF AfterDispatch
    <2>2. CASE c # None /\ first.taken
      BY <1>4, <2>2, AfterIs
    <2>3. CASE c # None /\ ~first.taken
      BY <1>4, <2>3, AfterIs
    <2> QED
      BY <1>4, <2>1, <2>2, <2>3
  <1> HIDE DEF after, owed
  <1>6. w \in Commands /\ w.op = "progress"
    BY <1>5, AppHas DEF StoreProgress, Commands
  <1>7. QueueOf(first) \in Seq(Commands)
    BY <1>2, ConcatProperties DEF QueueOf, Lines
  <1> HIDE DEF w
  <1>8. /\ last \in Lines /\ Fits(last)
        /\ \/ QueueOf(last) = QueueOf(first)
           \/ owed /\ Queued(QueueOf(first), w, QueueOf(last))
    BY <1>2, <1>6, DispatchIs
  <1> HIDE DEF last
  <1>9. /\ parked' \in Seq(Commands) /\ Len(parked') <= ParkedSlots
        /\ sent' \in Seq(Commands) /\ Len(sent') <= QueueSlots
        /\ sent' \o parked' = QueueOf(last)
    BY <1>3, <1>8 DEF Lines, Fits, QueueOf
  <1>10. lost' \in BOOLEAN
    BY <1>3
  <1>11. owed => ~IsOpen(c)
    BY DEF owed, ProgressOwed
  <1>12. \/ c = None /\ after = n /\ QueueOf(first) = Queue
         \/ c # None /\ after = AfterDispatch(b, n, c, TRUE) /\ Queued(Queue, c, QueueOf(first))
         \/ c # None /\ after = AfterDispatch(b, n, c, FALSE) /\ QueueOf(first) = Queue
    BY <1>2, <1>5
  <1>13. \/ sent' \o parked' = QueueOf(first)
         \/ /\ w \in Commands /\ w.op = "progress" /\ ~IsOpen(c)
            /\ Queued(QueueOf(first), w, sent' \o parked')
    BY <1>6, <1>8, <1>9, <1>11
  <1> QED
    BY <1>3, <1>5, <1>7, <1>9, <1>10, <1>12, <1>13
\* The commands of parked are those of the queue, and handing some of them over
\* leaves the queue as it is.
LEMMA HandOverIs ==
    ASSUME parked \in Seq(Commands), Len(parked) <= ParkedSlots,
           sent \in Seq(Commands), Len(sent) <= QueueSlots,
           NEW n \in Nat, n <= Len(parked), Len(sent) + n <= QueueSlots,
           HandOver(n)
    PROVE  /\ parked' \in Seq(Commands) /\ Len(parked') <= ParkedSlots
           /\ sent' \in Seq(Commands) /\ Len(sent') <= QueueSlots
           /\ sent' \o parked' = Queue
           /\ SubSeq(parked, 1, n) \in Seq(Commands)
           /\ \A i \in DOMAIN SubSeq(parked, 1, n) :
                \E k \in DOMAIN Queue : SubSeq(parked, 1, n)[i] = Queue[k]
  <1> DEFINE h == SubSeq(parked, 1, n)
             t == SubSeq(parked, n + 1, Len(parked))
  <1>0. /\ Len(parked) \in Nat /\ Len(sent) \in Nat /\ ParkedSlots \in Nat /\ QueueSlots \in Nat
        /\ DOMAIN parked = 1 .. Len(parked)
    BY LenProperties, StorageAssumption
  <1>1. \A i \in 1 .. Len(parked) : parked[i] \in Commands
    BY <1>0, ElementOfSeq
  <1>2. h \in Seq(Commands) /\ Len(h) = n /\ \A i \in 1 .. n : h[i] = parked[i]
    <2>1. \A i \in 1 .. n : parked[i] \in Commands
      BY <1>0, <1>1
    <2>2. /\ h \in Seq(Commands) /\ Len(h) = IF 1 <= n THEN n - 1 + 1 ELSE 0
          /\ \A i \in 1 .. n - 1 + 1 : h[i] = parked[1 + i - 1]
      BY <2>1, SubSeqProperties
    <2> HIDE DEF h
    <2>3. \A i \in 1 .. n : 1 + i - 1 = i /\ i \in 1 .. n - 1 + 1
      OBVIOUS
    <2> QED
      BY <2>2, <2>3
  <1>3. t \in Seq(Commands) /\ Len(t) = Len(parked) - n
    <2>1. \A i \in n + 1 .. Len(parked) : parked[i] \in Commands
      BY <1>0, <1>1
    <2>2. t \in Seq(Commands) /\ Len(t) = IF n + 1 <= Len(parked) THEN Len(parked) - (n + 1) + 1
                                         ELSE 0
      BY <1>0, <2>1, SubSeqProperties
    <2>3. \A m \in Nat : n <= m => (IF n + 1 <= m THEN m - (n + 1) + 1 ELSE 0) = m - n
      OBVIOUS
    <2> HIDE DEF t
    <2> QED
      BY <1>0, <2>2, <2>3
  <1>4. h \o t = parked
    <2>1. 1 \in 1 .. Len(parked) + 1 /\ n \in 1 - 1 .. Len(parked)
          /\ Len(parked) \in n .. Len(parked)
      BY <1>0
    <2>2. h \o t = SubSeq(parked, 1, Len(parked))
      BY <2>1, ConcatAdjacentSubSeq
    <2> QED
      BY <2>2, SubSeqFull
  <1>5. parked' = t /\ sent' = sent \o h
    BY DEF HandOver
  <1> HIDE DEF h, t
  <1>6. /\ sent \o h \in Seq(Commands) /\ Len(sent \o h) = Len(sent) + n
        /\ (sent \o h) \o t = sent \o parked
    <2>1. sent \o h \in Seq(Commands) /\ Len(sent \o h) = Len(sent) + n
      BY <1>2, ConcatProperties
    <2>2. sent \in Seq(Commands) /\ h \in Seq(Commands) /\ t \in Seq(Commands)
      BY <1>2, <1>3
    <2>3. (sent \o h) \o t = sent \o (h \o t)
      BY ONLY <2>2, ConcatAssociative, SMTT(30)
    <2> QED
      BY <1>4, <2>1, <2>3
  <1>7. /\ Len(sent \o parked) = Len(sent) + Len(parked)
        /\ sent \o parked \in Seq(Commands)
        /\ \A i \in 1 .. Len(sent) + Len(parked) : (sent \o parked)[i] =
             IF i <= Len(sent) THEN sent[i] ELSE parked[i - Len(sent)]
    BY ConcatProperties
  <1>8. DOMAIN (sent \o parked) = 1 .. Len(sent) + Len(parked)
    BY <1>7, LenProperties
  <1>9. ASSUME NEW i \in DOMAIN h
        PROVE  \E k \in DOMAIN Queue : h[i] = Queue[k]
    <2>1. i \in 1 .. n /\ i \in 1 .. Len(parked)
      BY <1>0, <1>2, LenProperties
    <2>2. /\ Len(sent) + i \in 1 .. Len(sent) + Len(parked)
          /\ ~(Len(sent) + i <= Len(sent)) /\ (Len(sent) + i) - Len(sent) = i
      BY <1>0, <2>1
    <2>3. (sent \o parked)[Len(sent) + i] = h[i]
      BY <1>2, <1>7, <2>1, <2>2
    <2> QED
      BY <1>8, <2>2, <2>3 DEF Queue
  <1>10. Len(t) <= ParkedSlots /\ Len(sent \o h) <= QueueSlots
    BY <1>0, <1>3, <1>6
  <1> QED
    BY <1>2, <1>3, <1>5, <1>6, <1>9, <1>10 DEF Queue, h

\* The fields of an event.
LEMMA EventHas ==
    ASSUME NEW e \in Events
    PROVE  /\ e.kind \in {"loaded", "unreadable", "failed", "row", "rowFailed"}
           /\ e.book \in Books
           /\ e.kind = "loaded" => e.position \in Pages \cup {None} /\ e.replaced \in BOOLEAN
           /\ e.kind \in {"row", "rowFailed"} => e.id \in Nat
  BY DEF Events

\* The reader moved to the page an event reports, if any.
Moved(a, position) ==
    [a EXCEPT !.unreadable = None, !.counted = TRUE,
              !.page = IF position = None THEN @ ELSE position]

LEMMA MovedIs ==
    ASSUME NEW a \in AppStates, NEW position \in Pages \cup {None}
    PROVE  /\ Moved(a, position) \in AppStates
           /\ Alike(a, Moved(a, position))
           /\ Moved(a, position).frame = a.frame /\ Moved(a, position).again = a.again
           /\ Moved(a, position).gated = a.gated
  <1>1. a.page \in Pages
    BY AppHas
  <1> DEFINE at(p) == [a EXCEPT !.unreadable = None, !.counted = TRUE, !.page = p]
  <1>2. \A p \in Pages :
          /\ at(p) \in AppStates /\ Alike(a, at(p))
          /\ at(p).frame = a.frame /\ at(p).again = a.again /\ at(p).gated = a.gated
    BY DEF AppStates, Alike
  <1>3. (IF position = None THEN a.page ELSE position) \in Pages
    BY <1>1
  <1>4. Moved(a, position) = at(IF position = None THEN a.page ELSE position)
    BY DEF Moved
  <1> HIDE DEF at
  <1> QED
    BY <1>2, <1>3, <1>4
-----------------------------------------------------------------------------
(***************************************************************************)
(* Types.                                                                  *)
(***************************************************************************)
AppOK ==
    /\ app \in AppStates
    /\ parked \in Seq(Commands) /\ Len(parked) <= ParkedSlots
    /\ sent \in Seq(Commands) /\ Len(sent) <= QueueSlots

SpentOK == spent \in [presses : Nat, faults : Nat, cuts : Nat]

\* The card, what the storage task holds, and the faults there have been.
CardOK ==
    /\ task \in HeldTasks
    /\ place \in [Books -> Pairs]
    /\ state \in Spots
    /\ spent.faults <= MaxFaults

\* A transition keeps the types of the app and of its way out.
LEMMA CarryTyped ==
    ASSUME AppOK, lost \in BOOLEAN, NEW b \in AppStates, NEW n \in AppStates,
           NEW c \in Commands \cup {None}, c # None => Load(c),
           Carry(b, n, c)
    PROVE  AppOK' /\ lost' \in BOOLEAN
  <1>1. PICK a \in AppStates, r \in Seq(Commands) :
             /\ app' = Rendered(a)
             /\ parked' \in Seq(Commands) /\ Len(parked') <= ParkedSlots
             /\ sent' \in Seq(Commands) /\ Len(sent') <= QueueSlots
             /\ lost' \in BOOLEAN
    BY CarryIs DEF AppOK
  <1>2. Rendered(a) \in AppStates
    <2>1. Render(a) \in Frames
      BY AppHas
    <2> QED
      BY <2>1 DEF Rendered, AppStates
  <1> QED
    BY <1>1, <1>2 DEF AppOK

\* A command that asks for pages of b.
LEMMA RequestIs ==
    ASSUME NEW id \in Nat, NEW b \in Books, NEW p \in Pages
    PROVE  /\ ExtendSection(id + 1, b, p) \in Commands
           /\ Load(ExtendSection(id + 1, b, p)) /\ ~IsOpen(ExtendSection(id + 1, b, p))
           /\ ExtendSection(id + 1, b, p).id = id + 1 /\ ExtendSection(id + 1, b, p).book = b
           /\ \A previous \in Spots \cup {None}, fenced, resolve \in BOOLEAN :
                LET c == OpenBook(id + 1, b, p, previous, fenced, resolve)
                IN  c \in Commands /\ Load(c) /\ IsOpen(c) /\ c.id = id + 1 /\ c.book = b
           /\ ChooseRow(id + 1, b) \in Commands /\ ChooseRow(id + 1, b).op = "choose"
           /\ ChooseRow(id + 1, b).id = id + 1
  <1>1. /\ ExtendSection(id + 1, b, p) \in Commands /\ ExtendSection(id + 1, b, p).op = "extend"
        /\ ExtendSection(id + 1, b, p).id = id + 1 /\ ExtendSection(id + 1, b, p).book = b
    BY DEF ExtendSection, Commands
  <1>2. /\ ChooseRow(id + 1, b) \in Commands /\ ChooseRow(id + 1, b).op = "choose"
        /\ ChooseRow(id + 1, b).id = id + 1
    BY DEF ChooseRow, Commands
  <1>3. ASSUME NEW previous \in Spots \cup {None}, NEW fenced \in BOOLEAN, NEW resolve \in BOOLEAN
        PROVE  LET c == OpenBook(id + 1, b, p, previous, fenced, resolve)
               IN  c \in Commands /\ Load(c) /\ IsOpen(c) /\ c.id = id + 1 /\ c.book = b
    <2> DEFINE c == OpenBook(id + 1, b, p, previous, fenced, resolve)
    <2>1. c \in Commands /\ c.op = "open" /\ c.id = id + 1 /\ c.book = b
      BY DEF OpenBook, Commands
    <2> HIDE DEF c
    <2>2. Load(c) /\ IsOpen(c)
      BY <2>1, CommandHas DEF Load
    <2> QED
      BY <2>1, <2>2 DEF c
  <1>4. Load(ExtendSection(id + 1, b, p)) /\ ~IsOpen(ExtendSection(id + 1, b, p))
    BY <1>1, CommandHas DEF Load
  <1> QED
    BY <1>1, <1>2, <1>3, <1>4

LEMMA AppStepTyped ==
    ASSUME TypeOK, AppStep
    PROVE  AppOK' /\ lost' \in BOOLEAN /\ SpentOK' /\ chosen' \in [Books -> SUBSET Pages]
  <1>0. AppOK /\ lost \in BOOLEAN /\ SpentOK /\ chosen \in [Books -> SUBSET Pages]
    BY DEF TypeOK, AppOK, SpentOK
  <1>1. PICK a \in AppStates : a = app
    BY <1>0 DEF AppOK
  <1>2. a.book \in Books /\ a.page \in Pages /\ a.request \in Nat /\ a.picks \in Nat
    BY AppHas
  <1>3. Press => SpentOK'
    <2>1. ASSUME NEW s \in [presses : Nat, faults : Nat, cuts : Nat], s.presses > 0
          PROVE  [s EXCEPT !.presses = @ - 1] \in [presses : Nat, faults : Nat, cuts : Nat]
      BY <2>1
    <2> QED
      BY <1>0, <2>1 DEF Press, SpentOK
  <1>4. ASSUME NEW p \in Pages, TurnPage(p)
        PROVE  AppOK' /\ lost' \in BOOLEAN /\ SpentOK' /\ chosen' \in [Books -> SUBSET Pages]
    <2>1. [a EXCEPT !.page = p] \in AppStates
      BY <1>4 DEF AppStates
    <2>2. Carry(a, [a EXCEPT !.page = p], ExtendSection(a.request + 1, a.book, p))
      BY <1>1, <1>4 DEF TurnPage
    <2>3. ExtendSection(a.request + 1, a.book, p) \in Commands
          /\ Load(ExtendSection(a.request + 1, a.book, p))
      BY <1>2, RequestIs
    <2>4. AppOK' /\ lost' \in BOOLEAN
      BY <1>0, <2>1, <2>2, <2>3, CarryTyped
    <2>5. chosen' = [chosen EXCEPT ![a.book] = @ \cup {p}]
      BY <1>1, <1>4 DEF TurnPage
    <2>6. chosen' \in [Books -> SUBSET Pages]
      BY <1>0, <1>2, <2>5
    <2> QED
      BY <1>3, <1>4, <2>4, <2>6 DEF TurnPage
  <1>5. ASSUME ReadOn
        PROVE  AppOK' /\ lost' \in BOOLEAN /\ SpentOK' /\ chosen' \in [Books -> SUBSET Pages]
    <2> DEFINE c == OpenBook(a.request + 1, a.book, a.page, None, FALSE, ~a.counted)
    <2>1. [a EXCEPT !.view = "reading"] \in AppStates
      BY DEF AppStates, Views
    <2>2. Carry(a, [a EXCEPT !.view = "reading"], c)
      BY <1>1, <1>5 DEF ReadOn
    <2>3. c \in Commands /\ Load(c)
      BY <1>2, RequestIs
    <2> HIDE DEF c
    <2>4. AppOK' /\ lost' \in BOOLEAN
      BY <1>0, <2>1, <2>2, <2>3, CarryTyped
    <2> QED
      BY <1>0, <1>3, <1>5, <2>4 DEF ReadOn
  <1>6. ASSUME Leave
        PROVE  AppOK' /\ lost' \in BOOLEAN /\ SpentOK' /\ chosen' \in [Books -> SUBSET Pages]
    <2>1. [a EXCEPT !.view = "shelf"] \in AppStates
      BY DEF AppStates, Views
    <2>2. Carry(a, [a EXCEPT !.view = "shelf"], None)
      BY <1>1, <1>6 DEF Leave
    <2>3. AppOK' /\ lost' \in BOOLEAN
      BY <1>0, <2>1, <2>2, CarryTyped
    <2> QED
      BY <1>0, <1>6, <2>3 DEF Leave, SpentOK
  <1>7. ASSUME WalkAway
        PROVE  AppOK' /\ lost' \in BOOLEAN /\ SpentOK' /\ chosen' \in [Books -> SUBSET Pages]
    <2>1. [a EXCEPT !.picking = NoPick] \in AppStates
      BY DEF AppStates, NoPick
    <2>2. Carry(a, [a EXCEPT !.picking = NoPick], None)
      BY <1>1, <1>7 DEF WalkAway
    <2>3. AppOK' /\ lost' \in BOOLEAN
      BY <1>0, <2>1, <2>2, CarryTyped
    <2> QED
      BY <1>0, <1>7, <2>3 DEF WalkAway, SpentOK
  <1>8. ASSUME NEW b \in Books, Pick(b)
        PROVE  AppOK' /\ lost' \in BOOLEAN /\ SpentOK' /\ chosen' \in [Books -> SUBSET Pages]
    <2> DEFINE c == ChooseRow(a.picks + 1, b)
               line == Dispatch(Line, c)
               d == [a EXCEPT !.picks = c.id, !.picking = IF line.taken THEN c.id ELSE NoPick]
    <2>1. c \in Commands /\ c.id = a.picks + 1
      BY <1>2, RequestIs
    <2>2. Line \in Lines /\ Fits(Line)
      BY <1>0 DEF AppOK, Line, Lines, Fits
    <2>3. /\ app' = Rendered(d) /\ parked' = line.parked /\ sent' = line.sent
          /\ Press /\ chosen' = chosen /\ lost' = lost
      BY <1>1, <1>8 DEF Pick, history
    <2> HIDE DEF c
    <2>4. line \in Lines /\ Fits(line)
      BY <2>1, <2>2, DispatchIs
    <2> HIDE DEF line
    <2>5. d \in AppStates
      <3>1. c.id \in Nat /\ (IF line.taken THEN c.id ELSE NoPick) \in Nat
        BY <1>2, <2>1 DEF NoPick
      <3> QED
        BY <3>1 DEF AppStates
    <2> HIDE DEF d
    <2>6. Rendered(d) \in AppStates
      <3>1. Render(d) \in Frames
        BY <2>5, AppHas
      <3> QED
        BY <2>5, <3>1 DEF Rendered, AppStates
    <2> QED
      BY <1>0, <1>3, <2>3, <2>4, <2>6 DEF AppOK, Lines, Fits
  <1> QED
    BY <1>4, <1>5, <1>6, <1>7, <1>8 DEF AppStep
\* An answer is of a few kinds, and each is taken by one handler.
LEMMA ReceiveTyped ==
    ASSUME TypeOK, Receive
    PROVE  AppOK' /\ lost' \in BOOLEAN
  <1>0. AppOK /\ lost \in BOOLEAN /\ events \in Seq(Events) /\ events # <<>>
    BY DEF TypeOK, AppOK, Receive
  <1>1. PICK a \in AppStates : a = app
    BY <1>0 DEF AppOK
  <1>2. PICK e \in Events : e = Head(events)
    BY <1>0, HeadTailProperties
  <1>3. /\ e.kind \in {"loaded", "unreadable", "failed", "row", "rowFailed"}
        /\ e.book \in Books
        /\ e.kind = "loaded" => e.position \in Pages \cup {None} /\ e.replaced \in BOOLEAN
        /\ e.kind \in {"row", "rowFailed"} => e.id \in Nat
    BY EventHas
  <1>4. a.book \in Books /\ a.page \in Pages /\ a.request \in Nat /\ 0 \in Pages
    BY AppHas
  <1>5. ASSUME NEW d \in AppStates, FoldOnly(d)
        PROVE  AppOK' /\ lost' \in BOOLEAN
    BY <1>0, <1>5, LiftedIs DEF FoldOnly, AppOK
  <1>6. ASSUME NEW d \in AppStates, Carry(a, d, None)
        PROVE  AppOK' /\ lost' \in BOOLEAN
    BY <1>0, <1>6, CarryTyped
  <1>7. ASSUME e.kind = "loaded", ReceiveLoaded(e)
        PROVE  AppOK' /\ lost' \in BOOLEAN
    <2> DEFINE d == Answered(a, e.book)
               m == Moved(d, e.position)
               c == ExtendSection(a.request + 1, m.book, m.page)
    <2>1. d \in AppStates
      BY AnsweredIs
    <2>2. \/ FoldOnly(d) \/ FoldOnly(m) \/ Carry(a, m, c) \/ Carry(a, m, None)
      BY <1>1, <1>7 DEF ReceiveLoaded, Moved
    <2> HIDE DEF d
    <2>3. m \in AppStates
      BY <1>3, <1>7, <2>1, MovedIs
    <2> HIDE DEF m
    <2>4. c \in Commands /\ Load(c)
      BY <1>4, <2>3, AppHas, RequestIs
    <2> HIDE DEF c
    <2>5. Carry(a, m, c) => AppOK' /\ lost' \in BOOLEAN
      BY <1>0, <2>3, <2>4, CarryTyped
    <2> QED
      BY <1>5, <1>6, <2>1, <2>2, <2>3, <2>5
  <1>8. ASSUME e.kind = "unreadable", ReceiveUnreadable(e)
        PROVE  AppOK' /\ lost' \in BOOLEAN
    <2> DEFINE d == Answered(a, e.book)
    <2>1. d \in AppStates
      BY AnsweredIs
    <2>2. FoldOnly(d) \/ Carry(a, [d EXCEPT !.unreadable = e.book], None)
      BY <1>1, <1>8 DEF ReceiveUnreadable
    <2> HIDE DEF d
    <2>3. [d EXCEPT !.unreadable = e.book] \in AppStates
      BY <1>3, <2>1 DEF AppStates
    <2> QED
      BY <1>5, <1>6, <2>1, <2>2, <2>3
  <1>9. ASSUME e.kind = "failed", ReceiveFailed(e)
        PROVE  AppOK' /\ lost' \in BOOLEAN
    <2> DEFINE d == IF a.opening = e.book THEN [a EXCEPT !.opening = None] ELSE a
    <2>1. d \in AppStates
      BY DEF AppStates
    <2>2. Carry(a, IF d.rollback = None THEN d
                   ELSE [RestoreAfterFailedOpen(d, d.rollback) EXCEPT !.rollback = None], None)
      BY <1>1, <1>9 DEF ReceiveFailed
    <2> HIDE DEF d
    <2>3. d.rollback # None =>
            [RestoreAfterFailedOpen(d, d.rollback) EXCEPT !.rollback = None] \in AppStates
      <3>1. ASSUME NEW r \in Rollbacks
            PROVE  [RestoreAfterFailedOpen(d, r) EXCEPT !.rollback = None] \in AppStates
        BY <2>1 DEF RestoreAfterFailedOpen, AppStates, Rollbacks
      <3> QED
        BY <2>1, <3>1, AppHas
    <2> QED
      BY <1>6, <2>1, <2>2, <2>3
  <1>10. ASSUME e.kind = "row", ReceiveRow(e)
         PROVE  AppOK' /\ lost' \in BOOLEAN
    <2> DEFINE d == [a EXCEPT !.picking = NoPick, !.view = "reading", !.book = e.book,
                              !.page = 0, !.counted = TRUE]
               previous == IF Unreadable(a) THEN None ELSE Spot(a.book, a.page)
               c == OpenBook(a.request + 1, e.book, 0, previous, TRUE, FALSE)
    <2>1. d \in AppStates
      BY <1>3, <1>4 DEF AppStates, NoPick, Views
    <2>2. previous \in Spots \cup {None}
      BY <1>4 DEF Spot, Spots
    <2>3. c \in Commands /\ Load(c)
      BY <1>3, <1>4, <2>2, RequestIs
    <2>4. FoldOnly(a) \/ Carry(a, d, c)
      BY <1>1, <1>10 DEF ReceiveRow
    <2> HIDE DEF d, c
    <2>5. Carry(a, d, c) => AppOK' /\ lost' \in BOOLEAN
      BY <1>0, <2>1, <2>3, CarryTyped
    <2> QED
      BY <1>5, <2>4, <2>5
  <1>11. ASSUME e.kind = "rowFailed", ReceiveRowFailed(e)
         PROVE  AppOK' /\ lost' \in BOOLEAN
    <2>1. FoldOnly(a) \/ Carry(a, [a EXCEPT !.picking = NoPick], None)
      BY <1>1, <1>11 DEF ReceiveRowFailed
    <2>2. [a EXCEPT !.picking = NoPick] \in AppStates
      BY DEF AppStates, NoPick
    <2> QED
      BY <1>5, <1>6, <2>1, <2>2
  <1> QED
    BY <1>2, <1>7, <1>8, <1>9, <1>10, <1>11 DEF Receive

LEMMA OfferTyped ==
    ASSUME TypeOK, OfferParked
    PROVE  /\ AppOK'
           /\ sent' \o parked' = Queue
           /\ \E h \in Seq(Commands) :
                /\ app' = Accepted(app, h)
                /\ \A i \in DOMAIN h : \E k \in DOMAIN Queue : h[i] = Queue[k]
  <1>0. AppOK /\ parked # <<>> /\ Len(sent) < QueueSlots /\ HandOver(1)
        /\ app' = Accepted(app, <<Head(parked)>>)
    BY DEF TypeOK, AppOK, OfferParked
  <1>1. Len(parked) \in Nat /\ Len(sent) \in Nat /\ Len(parked) >= 1 /\ QueueSlots \in Nat
    BY <1>0, TailHas, LenProperties, StorageAssumption DEF AppOK
  <1>2. Len(sent) + 1 <= QueueSlots
    BY <1>0, <1>1
  <1>3. /\ parked' \in Seq(Commands) /\ Len(parked') <= ParkedSlots
        /\ sent' \in Seq(Commands) /\ Len(sent') <= QueueSlots
        /\ sent' \o parked' = Queue
        /\ SubSeq(parked, 1, 1) \in Seq(Commands)
        /\ \A i \in DOMAIN SubSeq(parked, 1, 1) :
             \E k \in DOMAIN Queue : SubSeq(parked, 1, 1)[i] = Queue[k]
    BY <1>0, <1>1, <1>2, HandOverIs DEF AppOK
  <1>4. <<Head(parked)>> = SubSeq(parked, 1, 1)
    <2>1. parked[1] \in Commands /\ Head(parked) = parked[1]
      BY <1>0, TailHas DEF AppOK
    <2>2. Len(SubSeq(parked, 1, 1)) = 1 /\ SubSeq(parked, 1, 1)[1] = parked[1]
      <3>1. \A i \in 1 .. 1 : parked[i] \in Commands
        BY <2>1
      <3> QED
        BY <3>1, SubSeqProperties
    <2> QED
      BY <1>3, <2>1, <2>2, SeqEqual
  <1>5. PICK a \in AppStates : a = app
    BY <1>0 DEF AppOK
  <1>6. Accepted(a, <<Head(parked)>>) \in AppStates
    BY <1>3, <1>4, AcceptedIs
  <1> QED
    BY <1>0, <1>3, <1>4, <1>5, <1>6 DEF AppOK

LEMMA SettlesTyped ==
    ASSUME TypeOK, FrameSettles
    PROVE  /\ AppOK' /\ shown' \in Frames
           /\ sent' \o parked' = Queue
           /\ \E h \in Seq(Commands) :
                /\ app' = IF app.again
                          THEN [Accepted(app, h) EXCEPT !.frame = Render(Accepted(app, h)),
                                                        !.again = FALSE]
                          ELSE Lifted([Accepted(app, h) EXCEPT !.frame = None])
                /\ \A i \in DOMAIN h : \E k \in DOMAIN Queue : h[i] = Queue[k]
  <1> DEFINE room == QueueSlots - Len(sent)
             n == IF Len(parked) < room THEN Len(parked) ELSE room
             h == SubSeq(parked, 1, n)
  <1>0. /\ AppOK /\ HandOver(n) /\ app.frame # None /\ shown' = app.frame
        /\ app' = IF app.again
                  THEN [Accepted(app, h) EXCEPT !.frame = Render(Accepted(app, h)), !.again = FALSE]
                  ELSE Lifted([Accepted(app, h) EXCEPT !.frame = None])
    BY DEF TypeOK, AppOK, FrameSettles
  <1>1. Len(parked) \in Nat /\ Len(sent) \in Nat /\ Len(sent) <= QueueSlots /\ QueueSlots \in Nat
    BY <1>0, LenProperties, StorageAssumption DEF AppOK
  <1>2. n \in Nat /\ n <= Len(parked) /\ Len(sent) + n <= QueueSlots
    BY <1>1
  <1> HIDE DEF n
  <1>3. /\ parked' \in Seq(Commands) /\ Len(parked') <= ParkedSlots
        /\ sent' \in Seq(Commands) /\ Len(sent') <= QueueSlots
        /\ sent' \o parked' = Queue
        /\ h \in Seq(Commands)
        /\ \A i \in DOMAIN h : \E k \in DOMAIN Queue : h[i] = Queue[k]
    BY <1>0, <1>2, HandOverIs DEF AppOK
  <1> HIDE DEF h
  <1>4. PICK a \in AppStates : a = app
    BY <1>0 DEF AppOK
  <1>5. a.frame \in Frames \cup {None} /\ a.again \in BOOLEAN
    BY AppHas
  <1>6. PICK d \in AppStates : d = Accepted(a, h)
    BY <1>3, AcceptedIs
  <1>7. [d EXCEPT !.frame = Render(d), !.again = FALSE] \in AppStates
    <2>1. Render(d) \in Frames
      BY AppHas
    <2> QED
      BY <2>1 DEF AppStates
  <1>8. Lifted([d EXCEPT !.frame = None]) \in AppStates
    <2>1. [d EXCEPT !.frame = None] \in AppStates
      BY DEF AppStates
    <2> QED
      BY <2>1, LiftedIs
  <1> QED
    BY <1>0, <1>3, <1>4, <1>5, <1>6, <1>7, <1>8 DEF AppOK
EventsOK == events \in Seq(Events) /\ Len(events) <= EventSlots + 1

LEMMA NowIs ==
    ASSUME CardOK
    PROVE  Now \in Cards /\ Now.ok = TRUE /\ Now.task = task /\ Now.place = place
  BY DEF CardOK, Now, Cards

LEMMA ApplyTyped ==
    ASSUME SpentOK, CardOK, NEW c \in Cards, Apply(c)
    PROVE  /\ CardOK' /\ SpentOK'
           /\ spent'.faults = MaxFaults => spent.faults = MaxFaults /\ c.faults = 0
  <1>1. ASSUME NEW s \in [presses : Nat, faults : Nat, cuts : Nat], NEW n \in Nat, n <= s.faults
        PROVE  /\ [s EXCEPT !.faults = @ - n] \in [presses : Nat, faults : Nat, cuts : Nat]
               /\ [s EXCEPT !.faults = @ - n].faults = s.faults - n
    BY <1>1
  <1>2. c.faults \in Nat /\ c.place \in [Books -> Pairs] /\ c.state \in Spots /\ c.task \in HeldTasks
    BY CardHas
  <1>3. SpentOK' /\ spent'.faults = spent.faults - c.faults
    BY <1>1, <1>2 DEF Apply, SpentOK
  <1>4. /\ spent'.faults <= MaxFaults
        /\ spent'.faults = MaxFaults => spent.faults = MaxFaults /\ c.faults = 0
    <2>1. spent.faults \in Nat /\ spent.faults <= MaxFaults /\ MaxFaults \in Nat
      BY StorageAssumption DEF SpentOK, CardOK
    <2>2. PICK n \in Nat, m \in Nat : n = c.faults /\ m = spent.faults
      BY <1>2, <2>1
    <2>3. m - n <= MaxFaults /\ (m - n = MaxFaults => m = MaxFaults /\ n = 0)
      BY <2>1, <2>2
    <2> QED
      BY <1>3, <2>2, <2>3
  <1> QED
    BY <1>2, <1>3, <1>4 DEF Apply, CardOK

LEMMA AppendTyped ==
    ASSUME events \in Seq(Events), Room, NEW e \in Events, events' = Append(events, e)
    PROVE  EventsOK'
  <1>1. Append(events, e) \in Seq(Events) /\ Len(Append(events, e)) = Len(events) + 1
        /\ Len(events) \in Nat
    BY AppendHas
  <1>2. Len(events) <= EventSlots /\ EventSlots \in Nat
    BY StorageAssumption DEF Room
  <1>3. Len(events) + 1 <= EventSlots + 1
    BY <1>1, <1>2
  <1> QED
    BY <1>1, <1>3 DEF EventsOK

LEMMA AnnounceTyped ==
    ASSUME SpentOK, CardOK, chosen \in [Books -> SUBSET Pages], NEW l, WellLanded(l), Announce(l)
    PROVE  /\ CardOK' /\ SpentOK' /\ chosen' \in [Books -> SUBSET Pages]
           /\ l.event \in Events /\ events' = Append(events, l.event)
  <1>1. /\ l.card \in Cards /\ l.event \in Events /\ l.stands \in BOOLEAN
        /\ l.stands => l.event.position \in Pages
    BY DEF WellLanded, Landings
  <1>2. l.event.book \in Books
    BY <1>1, EventHas
  <1>3. chosen' \in [Books -> SUBSET Pages]
    BY <1>1, <1>2 DEF Announce
  <1>4. Apply(l.card) /\ events' = Append(events, l.event)
    BY DEF Announce
  <1> QED
    BY <1>1, <1>3, <1>4, ApplyTyped

\* What is taken is the head of the queue.
LEMMA TakeTyped ==
    ASSUME AppOK, NEW op, Take(op)
    PROVE  /\ AppOK' /\ app' = app /\ shown' = shown /\ Room
           /\ Head(sent) \in Commands /\ Head(sent).op = op
           /\ Queue \in Seq(Commands) /\ Queue # <<>> /\ Head(Queue) = Head(sent)
           /\ sent' \o parked' = Tail(Queue)
  <1>1. /\ sent # <<>> /\ sent' = Tail(sent) /\ app' = app /\ parked' = parked /\ shown' = shown
        /\ Head(sent).op = op /\ Room
    BY DEF Take
  <1>2. /\ Head(sent) \in Commands /\ Head(sent) = sent[1] /\ Tail(sent) \in Seq(Commands)
        /\ Len(Tail(sent)) = Len(sent) - 1 /\ Len(sent) \in Nat /\ Len(sent) >= 1
        /\ \A i \in DOMAIN Tail(sent) : Tail(sent)[i] = sent[i + 1]
    BY <1>1, TailHas DEF AppOK
  <1>3. Len(Tail(sent)) <= QueueSlots
    BY <1>2, StorageAssumption DEF AppOK
  <1>4. /\ Queue \in Seq(Commands) /\ Len(Queue) = Len(sent) + Len(parked)
        /\ \A i \in 1 .. Len(sent) + Len(parked) :
             Queue[i] = IF i <= Len(sent) THEN sent[i] ELSE parked[i - Len(sent)]
        /\ Len(parked) \in Nat
    BY ConcatProperties, LenProperties DEF Queue, AppOK
  <1>5. Queue # <<>>
    <2>1. Len(Queue) # 0
      BY <1>2, <1>4
    <2> QED
      BY <2>1
  <1>6. Head(Queue) = Queue[1] /\ Queue[1] = sent[1]
    <2>1. 1 \in 1 .. Len(sent) + Len(parked) /\ 1 <= Len(sent)
      BY <1>2, <1>4
    <2> QED
      BY <1>4, <1>5, <2>1, TailHas
  <1>7. Tail(sent) \o parked = Tail(Queue)
    <2> DEFINE t == Tail(sent) \o parked
               u == Tail(Queue)
    <2>1. /\ t \in Seq(Commands) /\ Len(t) = Len(sent) - 1 + Len(parked)
          /\ \A i \in 1 .. Len(sent) - 1 + Len(parked) :
               t[i] = IF i <= Len(sent) - 1 THEN Tail(sent)[i]
                      ELSE parked[i - (Len(sent) - 1)]
      BY <1>2, ConcatProperties DEF AppOK
    <2>2. /\ u \in Seq(Commands) /\ Len(u) = Len(Queue) - 1
          /\ \A i \in 1 .. Len(u) : u[i] = Queue[i + 1]
      BY <1>4, <1>5, HeadTailProperties
    <2>3. DOMAIN Tail(sent) = 1 .. Len(sent) - 1
      BY <1>2, LenProperties
    <2> HIDE DEF t, u
    <2>4. Len(t) = Len(u) /\ Len(t) = Len(sent) - 1 + Len(parked)
      BY <1>2, <1>4, <2>1, <2>2
    <2>5. ASSUME NEW i \in 1 .. Len(t) PROVE t[i] = u[i]
      <3>0. /\ i \in 1 .. Len(sent) - 1 + Len(parked) /\ i + 1 \in 1 .. Len(sent) + Len(parked)
            /\ i \in 1 .. Len(u)
        BY <1>2, <1>4, <2>4, <2>5
      <3>1. u[i] = Queue[i + 1]
        BY <2>2, <3>0
      <3>2. CASE i <= Len(sent) - 1
        <4>1. i \in DOMAIN Tail(sent) /\ i + 1 <= Len(sent)
          BY <1>2, <1>4, <2>3, <3>0, <3>2
        <4> QED
          BY <1>2, <1>4, <2>1, <3>0, <3>1, <3>2, <4>1
      <3>3. CASE ~(i <= Len(sent) - 1)
        <4>1. ~(i + 1 <= Len(sent)) /\ i - (Len(sent) - 1) = (i + 1) - Len(sent)
          BY <1>2, <1>4, <3>0, <3>3
        <4> QED
          BY <1>4, <2>1, <3>0, <3>1, <3>3, <4>1
      <3> QED
        BY <3>2, <3>3
    <2>6. t = u
      BY <2>1, <2>2, <2>4, <2>5, SeqEqual
    <2> QED
      BY <2>6 DEF t, u
  <1> QED
    BY <1>1, <1>2, <1>3, <1>4, <1>5, <1>6, <1>7 DEF AppOK
\* The answers to a load, and to a row.
IsSettle(e) == e.kind \in {"loaded", "unreadable", "failed"}
IsRow(e) == e.kind \in {"row", "rowFailed"}

\* What the storage task does with a command, as far as the app is concerned.
Handled(c) ==
    \/ c.op = "progress" /\ events' = events
    \/ Load(c) /\ c.id # app.request /\ events' = events
    \/ Load(c) /\ \E e \in Events : IsSettle(e) /\ e.book = c.book /\ events' = Append(events, e)
    \/ c.op = "choose" /\ \E e \in Events : IsRow(e) /\ e.id = c.id /\ events' = Append(events, e)

\* What is handled leaves the queue, and what becomes of it is one of four things.
LEMMA HandleTyped ==
    ASSUME TypeOK, CardOK, Handle
    PROVE  /\ AppOK' /\ CardOK' /\ EventsOK' /\ SpentOK'
           /\ chosen' \in [Books -> SUBSET Pages] /\ lost' \in BOOLEAN
           /\ app' = app /\ shown' = shown
           /\ Queue \in Seq(Commands) /\ Queue # <<>>
           /\ Handled(Head(Queue)) /\ sent' \o parked' = Tail(Queue)
  <1>0. /\ AppOK /\ CardOK /\ SpentOK /\ events \in Seq(Events) /\ EventsOK
        /\ chosen \in [Books -> SUBSET Pages] /\ lost \in BOOLEAN
    BY DEF TypeOK, AppOK, SpentOK, EventsOK
  <1>1. Now \in Cards /\ Now.ok = TRUE /\ Now.task = task
    BY <1>0, NowIs
  <1> DEFINE c == Head(sent)
             Goal == /\ CardOK' /\ EventsOK' /\ SpentOK'
                     /\ chosen' \in [Books -> SUBSET Pages] /\ lost' \in BOOLEAN
                     /\ Handled(c)
  <1>2. ASSUME NEW op, Take(op), Goal
        PROVE  /\ AppOK' /\ CardOK' /\ EventsOK' /\ SpentOK'
               /\ chosen' \in [Books -> SUBSET Pages] /\ lost' \in BOOLEAN
               /\ app' = app /\ shown' = shown
               /\ Queue \in Seq(Commands) /\ Queue # <<>>
               /\ Handled(Head(Queue)) /\ sent' \o parked' = Tail(Queue)
    <2>1. /\ AppOK' /\ app' = app /\ shown' = shown
          /\ Queue \in Seq(Commands) /\ Queue # <<>> /\ Head(Queue) = c
          /\ sent' \o parked' = Tail(Queue)
      BY <1>0, <1>2, TakeTyped
    <2> QED
      BY <1>2, <2>1
  <1>3. ASSUME NEW op, Take(op)
        PROVE  c \in Commands /\ c.op = op /\ Room /\ c.book \in Books
    BY <1>0, <1>3, TakeTyped, CommandHas
  <1> HIDE DEF c
  <1>4. ASSUME NEW l, LandsOn(l, c.book), Announce(l), Load(c), Room, lost' = lost
        PROVE  Goal
    <2>1. /\ CardOK' /\ SpentOK' /\ chosen' \in [Books -> SUBSET Pages]
          /\ l.event \in Events /\ events' = Append(events, l.event)
      BY <1>0, <1>4, AnnounceTyped DEF LandsOn
    <2>2. EventsOK'
      BY <1>0, <1>4, <2>1, AppendTyped
    <2>3. IsSettle(l.event) /\ l.event.book = c.book
      BY <1>4 DEF LandsOn, WellLanded, IsSettle
    <2>4. Handled(c)
      BY <1>4, <2>1, <2>3 DEF Handled
    <2> QED
      BY <1>0, <1>4, <2>1, <2>2, <2>4
  <1>5. ASSUME NEW d \in Cards, Refuse(d, c), Load(c), c.book \in Books, Room, lost' = lost
        PROVE  Goal
    <2> DEFINE e == Event("failed", c.book)
    <2>1. e \in Events /\ e.kind = "failed" /\ e.book = c.book
      BY <1>5 DEF Event, Events
    <2>2. Apply(d) /\ events' = Append(events, e) /\ chosen' = chosen
      BY <1>5 DEF Refuse
    <2> HIDE DEF e
    <2>3. CardOK' /\ SpentOK'
      BY <1>0, <1>5, <2>2, ApplyTyped
    <2>4. EventsOK'
      BY <1>0, <1>5, <2>1, <2>2, AppendTyped
    <2>5. Handled(c)
      BY <1>5, <2>1, <2>2 DEF Handled, IsSettle
    <2> QED
      BY <1>0, <1>5, <2>2, <2>3, <2>4, <2>5
  <1>6. ASSUME SkipStale PROVE \E op : Take(op) /\ Goal
    <2>1. PICK op \in {"open", "extend"} : Take(op)
      BY <1>6 DEF SkipStale
    <2>2. /\ c.id # app.request
          /\ UNCHANGED <<events, task, cardVars, history, spent>>
      BY <1>6 DEF SkipStale, IsLatest, c
    <2>3. c.op = op
      BY <1>3, <2>1
    <2>4. Handled(c)
      BY <2>1, <2>2, <2>3 DEF Handled, Load
    <2>5. CardOK' /\ EventsOK' /\ SpentOK' /\ chosen' \in [Books -> SUBSET Pages]
          /\ lost' \in BOOLEAN
      BY <1>0, <2>2 DEF cardVars, history, CardOK, EventsOK, SpentOK
    <2> QED
      BY <2>1, <2>4, <2>5
  <1>7. ASSUME Open PROVE \E op : Take(op) /\ Goal
    <2>1. /\ Take("open")
          /\ \/ Refuse([Now EXCEPT !.faults = 1], c)
             \/ \E d \in IF c.previous = None THEN {Now} ELSE CloseOut(Now, c.previous) :
                  \/ ~d.ok /\ Refuse(d, c)
                  \/ d.ok /\ \E l \in Loads([d EXCEPT !.task.hold = None], c) :
                               \E m \in Pointed(l, c) : Announce(m)
          /\ lost' = lost
      BY <1>7 DEF Open, c
    <2>2. c \in Commands /\ c.op = "open" /\ Room
      BY <1>3, <2>1
    <2>3. c.book \in Books /\ c.page \in Pages /\ c.previous \in Spots \cup {None} /\ Load(c)
      BY <2>2, CommandHas DEF Load
    <2>4. [Now EXCEPT !.faults = 1] \in Cards
      BY <1>1 DEF Cards
    <2>5. ASSUME NEW d \in IF c.previous = None THEN {Now} ELSE CloseOut(Now, c.previous)
          PROVE  d \in Cards
      BY <1>1, <2>3, <2>5, CloseOutIs
    <2>6. ASSUME NEW d \in Cards, NEW l \in Loads([d EXCEPT !.task.hold = None], c),
                 NEW m \in Pointed(l, c), Announce(m)
          PROVE  Goal
      <3>1. [d EXCEPT !.task.hold = None] \in Cards
        BY CardIs DEF Held
      <3>2. LandsOn(l, c.book)
        BY <2>3, <3>1, <2>6, LoadsIs
      <3>3. LandsOn(m, c.book)
        BY <2>3, <2>6, <3>2, PointedIs
      <3> HIDE DEF Goal
      <3> QED
        BY <1>4, <2>1, <2>2, <2>3, <2>6, <3>3
    <2> HIDE DEF Goal
    <2> QED
      BY <1>5, <2>1, <2>2, <2>3, <2>4, <2>5, <2>6
  <1>8. ASSUME Extend PROVE \E op : Take(op) /\ Goal
    <2>1. Take("extend") /\ lost' = lost
      BY <1>8 DEF Extend
    <2>2. PICK l \in AsAsked(Now, c, task.hold) : Announce(l)
      BY <1>8 DEF Extend, c
    <2>3. c \in Commands /\ c.op = "extend" /\ Room /\ c.book \in Books
      BY <1>3, <2>1
    <2>4. task.hold \in Held
      BY <1>1, CardHas
    <2>5. LandsOn(l, c.book)
      BY <1>1, <2>2, <2>3, <2>4, AsAskedIs
    <2>6. Load(c)
      BY <2>3 DEF Load
    <2> HIDE DEF Goal
    <2> QED
      BY <1>4, <2>1, <2>2, <2>3, <2>5, <2>6
  <1>9. ASSUME NEW due \in BOOLEAN, Progress(due) PROVE \E op : Take(op) /\ Goal
    <2> DEFINE spot == Spot(c.book, c.page)
               retired == [Now EXCEPT !.task.hold = Retire(@, spot.book, spot.page)]
               other == task.pending # None /\ task.pending.book # spot.book
               writes(v) == IF ~v.ok THEN {v}
                            ELSE IF due \/ other THEN AppStateWrites(v, spot)
                            ELSE {[v EXCEPT !.task.pending = spot]}
    <2>1. /\ Take("progress") /\ events' = events /\ chosen' = chosen
          /\ \E v \in OthersFirst(retired, spot.book) : \E d \in writes(v) :
               Apply(d) /\ lost' = (lost \/ ~v.ok \/ task.loaded # spot.book)
      BY <1>9 DEF Progress, c
    <2>2. c \in Commands /\ c.op = "progress"
      BY <1>3, <2>1
    <2>3. spot \in Spots /\ spot.book \in Books /\ spot.page \in Pages
      BY <2>2, CommandHas DEF Spot, Spots
    <2> HIDE DEF spot
    <2>4. retired \in Cards
      <3>1. Retire(Now.task.hold, spot.book, spot.page) \in Held
        BY <1>1, <2>3, CardHas, RetireIs
      <3>2. [Now EXCEPT !.task.hold = Retire(Now.task.hold, spot.book, spot.page)] \in Cards
        BY <1>1, <3>1, CardIs
      <3> QED
        BY <3>2
    <2> HIDE DEF retired
    <2>5. ASSUME NEW v \in Cards PROVE writes(v) \subseteq Cards
      BY <2>3, CardIs, AppStateWritesAre
    <2> HIDE DEF writes
    <2>6. PICK v \in OthersFirst(retired, spot.book) : \E d \in writes(v) :
            Apply(d) /\ lost' = (lost \/ ~v.ok \/ task.loaded # spot.book)
      BY <2>1
    <2>7. PICK d \in writes(v) :
            Apply(d) /\ lost' = (lost \/ ~v.ok \/ task.loaded # spot.book)
      BY <2>6
    <2>8. v \in Cards /\ d \in Cards
      BY <2>4, <2>5, <2>6, <2>7, OthersFirstAre
    <2>9. CardOK' /\ SpentOK' /\ lost' \in BOOLEAN
      BY <1>0, <2>7, <2>8, ApplyTyped, CardHas
    <2>10. Handled(c)
      BY <2>1, <2>2 DEF Handled
    <2> QED
      BY <1>0, <2>1, <2>9, <2>10 DEF EventsOK
  <1>10. ASSUME Choose PROVE \E op : Take(op) /\ Goal
    <2>1. Take("choose") /\ chosen' = chosen /\ lost' = lost
      BY <1>10 DEF Choose
    <2>2. PICK failed \in BOOLEAN :
            /\ Apply([Now EXCEPT !.faults = IF failed THEN 1 ELSE 0])
            /\ events' = Append(events, RowEvent(IF failed THEN "rowFailed" ELSE "row", c.id, c.book))
      BY <1>10 DEF Choose, c
    <2>3. c \in Commands /\ c.op = "choose" /\ Room /\ c.book \in Books
      BY <1>3, <2>1
    <2>4. c.id \in Nat
      BY <2>3, CommandHas
    <2> DEFINE e == RowEvent(IF failed THEN "rowFailed" ELSE "row", c.id, c.book)
    <2>5. e \in Events /\ e.id = c.id /\ IsRow(e)
      BY <2>3, <2>4 DEF RowEvent, Events, IsRow
    <2> HIDE DEF e
    <2>6. [Now EXCEPT !.faults = IF failed THEN 1 ELSE 0] \in Cards
      <3>1. \A n \in Nat : [Now EXCEPT !.faults = n] \in Cards
        BY <1>1 DEF Cards
      <3> QED
        BY <3>1
    <2>7. CardOK' /\ SpentOK'
      BY <1>0, <2>2, <2>6, ApplyTyped
    <2>8. events' = Append(events, e)
      BY <2>2 DEF e
    <2>9. EventsOK'
      BY <1>0, <2>3, <2>5, <2>8, AppendTyped
    <2>10. Handled(c)
      BY <2>3, <2>5, <2>8 DEF Handled
    <2> QED
      BY <1>0, <2>1, <2>7, <2>9, <2>10
  <1> HIDE DEF Goal
  <1>11. PICK op : Take(op) /\ Goal
    BY <1>6, <1>7, <1>8, <1>9, <1>10 DEF Handle
  <1> QED
    BY <1>2, <1>11
LEMMA SettledOnIs ==
    ASSUME NEW h \in HeldPlaces, h \in Held, ~h.stopped, NEW p \in Pages
    PROVE  /\ SettledOn(h, p) \in Held /\ Refused(h) \in Held
           /\ [h EXCEPT !.stopped = TRUE] \in Held
  <1>1. /\ h.book \in Books /\ h.landed \in Pages /\ h.left \in Pages \cup {None}
        /\ h.place \in Pages \cup {None}
        /\ h.refusals \in 0 .. PlaceReadRefusals /\ h.stopped \in BOOLEAN
        /\ h.refusals < PlaceReadRefusals
    BY NoneAssumption DEF Held, HeldPlaces
  <1>2. SettledOn(h, p) \in Held
    <2>1. \A l \in Pages \cup {None} :
            [h EXCEPT !.left = l, !.landed = p, !.stopped = TRUE] \in Held
      BY <1>1 DEF Held, HeldPlaces
    <2>2. (IF p = h.landed THEN h.left ELSE h.landed) \in Pages \cup {None}
      BY <1>1
    <2>3. [h EXCEPT !.left = IF p = h.landed THEN h.left ELSE h.landed,
                    !.landed = p, !.stopped = TRUE] \in Held
      BY <2>1, <2>2
    <2> QED
      BY <2>3 DEF SettledOn
  <1>3. Refused(h) \in Held
    <2>1. ASSUME NEW n \in 0 .. PlaceReadRefusals, NEW t \in BOOLEAN,
                 t \/ n < PlaceReadRefusals
          PROVE  [h EXCEPT !.refusals = n, !.stopped = t] \in Held
      BY <1>1, <2>1 DEF Held, HeldPlaces
    <2>2. /\ h.refusals + 1 \in 0 .. PlaceReadRefusals
          /\ (h.stopped \/ h.refusals + 1 >= PlaceReadRefusals) \in BOOLEAN
          /\ (h.stopped \/ h.refusals + 1 >= PlaceReadRefusals)
             \/ h.refusals + 1 < PlaceReadRefusals
      BY <1>1, StorageAssumption
    <2>3. [h EXCEPT !.refusals = h.refusals + 1,
                    !.stopped = (h.stopped \/ h.refusals + 1 >= PlaceReadRefusals)] \in Held
      BY <2>1, <2>2
    <2> QED
      BY <2>3 DEF Refused
  <1>4. [h EXCEPT !.stopped = TRUE] \in Held
    BY <1>1 DEF Held, HeldPlaces
  <1> QED
    BY <1>2, <1>3, <1>4

\* A slice runs in quiet, and what it says is of the book on screen.
LEMMA SettleTyped ==
    ASSUME TypeOK, CardOK, Settle
    PROVE  /\ AppOK' /\ CardOK' /\ EventsOK' /\ SpentOK'
           /\ chosen' \in [Books -> SUBSET Pages]
           /\ Quiet /\ app' = app /\ shown' = shown /\ sent' = sent /\ parked' = parked
           /\ lost' = lost
           /\ \/ events' = events
              \/ \E e \in Events : /\ IsSettle(e) /\ e.book = shown.book
                                   /\ events' = Append(events, e)
  <1>0. /\ AppOK /\ CardOK /\ SpentOK /\ events \in Seq(Events) /\ EventsOK
        /\ chosen \in [Books -> SUBSET Pages] /\ lost \in BOOLEAN
    BY DEF TypeOK, AppOK, SpentOK, EventsOK
  <1>1. Now \in Cards /\ Now.task = task /\ Now.place = place
    BY <1>0, NowIs
  <1>2. /\ Quiet /\ task.hold # None /\ ~task.hold.stopped
        /\ UNCHANGED <<appVars, shown, lost>>
    BY DEF Settle
  <1>3. AppOK' /\ app' = app /\ shown' = shown /\ sent' = sent /\ parked' = parked /\ lost' = lost
    BY <1>0, <1>2 DEF appVars, AppOK
  <1>4. PICK h \in HeldPlaces : h = task.hold /\ h \in Held
    BY <1>1, <1>2, CardHas, HeldIs
  <1>5. h.book \in Books /\ h.landed \in Pages /\ h.place \in Pages \cup {None}
    BY <1>4 DEF HeldPlaces
  <1>6. /\ [h EXCEPT !.stopped = TRUE] \in Held /\ Refused(h) \in Held /\ None \in Held
        /\ \A p \in Pages : SettledOn(h, p) \in Held
    <2>1. ~h.stopped
      BY <1>2, <1>4
    <2>2. None \in Held
      BY DEF Held
    <2>3. 0 \in Pages
      BY StorageAssumption DEF Pages
    <2> QED
      BY <1>4, <2>1, <2>2, <2>3, SettledOnIs
  <1> DEFINE Goal == /\ CardOK' /\ EventsOK' /\ SpentOK'
                     /\ chosen' \in [Books -> SUBSET Pages]
                     /\ \/ events' = events
                        \/ \E e \in Events : /\ IsSettle(e) /\ e.book = shown.book
                                             /\ events' = Append(events, e)
             p == IF h.place = None THEN Place(h.book) ELSE h.place
  <1>7. ASSUME NEW d \in Held, SettleHold(d) PROVE Goal
    <2>1. /\ task' = [task EXCEPT !.hold = d] /\ place' = place /\ state' = state
          /\ events' = events /\ chosen' = chosen /\ spent' = spent
      BY <1>7 DEF SettleHold, cardVars
    <2>2. [task EXCEPT !.hold = d] \in HeldTasks
      BY <1>0 DEF CardOK, HeldTasks
    <2> QED
      BY <1>0, <2>1, <2>2 DEF CardOK, EventsOK, SpentOK
  <1>8. ASSUME NEW l, LandsOn(l, h.book), Announce(l), shown.book = h.book PROVE Goal
    <2>1. /\ CardOK' /\ SpentOK' /\ chosen' \in [Books -> SUBSET Pages]
          /\ l.event \in Events /\ events' = Append(events, l.event)
      BY <1>0, <1>8, AnnounceTyped DEF LandsOn
    <2>2. Room
      <3>1. events = <<>> /\ EventSlots \in Nat
        BY <1>2, StorageAssumption DEF Quiet
      <3> QED
        BY <3>1 DEF Room
    <2>3. EventsOK'
      BY <1>0, <2>1, <2>2, AppendTyped
    <2>4. IsSettle(l.event) /\ l.event.book = shown.book
      BY <1>8 DEF LandsOn, WellLanded, IsSettle
    <2> QED
      BY <2>1, <2>3, <2>4
  <1>9. p \in Pages \cup {None}
    <2>1. 0 \in Pages
      BY StorageAssumption DEF Pages
    <2>2. place[h.book] \in Pairs
      BY <1>0, <1>5 DEF CardOK
    <2>3. Place(h.book) \in Pages \cup {None}
      BY <2>1, <2>2, PairIs DEF Place
    <2> QED
      BY <1>5, <2>3
  <1>10. \/ SettleHold([h EXCEPT !.stopped = TRUE]) \/ SettleHold(None)
         \/ /\ shown.book = h.book
            /\ \/ p # None /\ Announce(Landing(Now, h.book, p, SettledOn(h, p), TRUE))
               \/ p # None /\ Announce(Fallback(Now, h.book, SettledOn(h, 0), FALSE))
               \/ Announce(NothingLoads(Now, h.book, None))
               \/ /\ Apply([Now EXCEPT !.faults = IF p = None THEN 0 ELSE 1,
                                       !.task.hold = Refused(h)])
                  /\ UNCHANGED <<events, chosen>>
    BY <1>4 DEF Settle
  <1> HIDE DEF p
  <1>11. ASSUME p # None, Announce(Landing(Now, h.book, p, SettledOn(h, p), TRUE)),
                shown.book = h.book
         PROVE  Goal
    <2>1. SettledOn(h, p) \in Held /\ p \in Pages
      BY <1>6, <1>9, <1>11
    <2>2. LandsOn(Landing(Now, h.book, p, SettledOn(h, p), TRUE), h.book)
      BY <1>1, <1>5, <2>1, LandsOnIs
    <2> HIDE DEF Goal
    <2> QED
      BY <1>8, <1>11, <2>2
  <1>12. ASSUME p # None, Announce(Fallback(Now, h.book, SettledOn(h, 0), FALSE)),
                shown.book = h.book
         PROVE  Goal
    <2>1. SettledOn(h, 0) \in Held
      BY <1>6, StorageAssumption DEF Pages
    <2>2. LandsOn(Fallback(Now, h.book, SettledOn(h, 0), FALSE), h.book)
      BY <1>1, <1>5, <2>1, LandsOnIs
    <2> HIDE DEF Goal
    <2> QED
      BY <1>8, <1>12, <2>2
  <1>13. ASSUME Announce(NothingLoads(Now, h.book, None)), shown.book = h.book
         PROVE  Goal
    <2>1. LandsOn(NothingLoads(Now, h.book, None), h.book)
      BY <1>1, <1>5, <1>6, LandsOnIs
    <2> HIDE DEF Goal
    <2> QED
      BY <1>8, <1>13, <2>1
  <1>14. ASSUME Apply([Now EXCEPT !.faults = IF p = None THEN 0 ELSE 1, !.task.hold = Refused(h)]),
                UNCHANGED <<events, chosen>>
         PROVE  Goal
    <2> DEFINE d == [Now EXCEPT !.faults = IF p = None THEN 0 ELSE 1, !.task.hold = Refused(h)]
    <2>1. d \in Cards
      <3>1. \A n \in Nat, g \in Held : [Now EXCEPT !.faults = n, !.task.hold = g] \in Cards
        BY <1>1 DEF Cards, HeldTasks
      <3> QED
        BY <1>6, <3>1
    <2> HIDE DEF d
    <2>2. Apply(d)
      BY <1>14 DEF d
    <2>3. CardOK' /\ SpentOK'
      BY <1>0, <2>1, <2>2, ApplyTyped
    <2> QED
      BY <1>0, <1>14, <2>3 DEF EventsOK
  <1> HIDE DEF Goal
  <1>15. Goal
    BY <1>6, <1>7, <1>10, <1>11, <1>12, <1>13, <1>14
  <1> QED
    BY <1>2, <1>3, <1>15 DEF Goal

\* A flush is nothing to the app.
LEMMA FlushTyped ==
    ASSUME TypeOK, CardOK, Flush
    PROVE  /\ AppOK' /\ CardOK' /\ EventsOK' /\ SpentOK' /\ lost' \in BOOLEAN
           /\ chosen' \in [Books -> SUBSET Pages]
           /\ app' = app /\ shown' = shown /\ sent' = sent /\ parked' = parked
           /\ events' = events
  <1>0. /\ AppOK /\ CardOK /\ SpentOK /\ EventsOK
        /\ chosen \in [Books -> SUBSET Pages] /\ lost \in BOOLEAN
    BY DEF TypeOK, AppOK, SpentOK, EventsOK
  <1>1. PICK c \in FlushWrites(Now) : Apply(c)
    BY DEF Flush
  <1>2. c \in Cards
    BY <1>0, <1>1, NowIs, FlushWritesAre
  <1>3. CardOK' /\ SpentOK'
    BY <1>0, <1>1, <1>2, ApplyTyped
  <1>4. /\ UNCHANGED <<appVars, events, shown, chosen>>
        /\ lost' = (lost \/ task.loaded # task.pending.book)
    BY DEF Flush
  <1> QED
    BY <1>0, <1>3, <1>4 DEF appVars, AppOK, EventsOK

\* What a cut leaves on the card is a card.
LEMMA CutShortIs ==
    ASSUME TypeOK, CardOK
    PROVE  CutShort \subseteq Cards
  <1>0. AppOK /\ CardOK
    BY DEF TypeOK, AppOK
  <1>1. Now \in Cards
    BY <1>0, NowIs
  <1>2. Owed \subseteq Spots
    BY <1>0 DEF Owed, CardOK, HeldTasks
  <1>3. Carried \subseteq Spots
    <2>1. CASE sent = <<>>
      BY <2>1 DEF Carried
    <2>2. CASE sent # <<>>
      <3>1. PICK c \in Commands : c = Head(sent)
        BY <1>0, <2>2, TailHas DEF AppOK
      <3>2. c.op = "progress" => Spot(c.book, c.page) \in Spots
        BY CommandHas DEF Spot, Spots
      <3>3. IsOpen(c) => {c.previous} \ {None} \subseteq Spots
        BY CommandHas
      <3> QED
        BY <3>1, <3>2, <3>3 DEF Carried
    <2> QED
      BY <2>1, <2>2
  <1>4. ASSUME NEW c \in Cards, NEW r \in Spots
        PROVE  PlaceWrites(c, r.book, r.page) \subseteq Cards
    <2>1. r.book \in Books /\ r.page \in Pages
      BY DEF Spots
    <2> QED
      BY <2>1, PlaceWritesAre
  <1>5. ASSUME NEW r \in Spots
        PROVE  {w \in OthersFirst(Now, r.book) : w.ok} \subseteq Cards
    BY <1>1, OthersFirstAre
  <1> DEFINE owed == UNION {PlaceWrites(Now, r.book, r.page) : r \in Owed}
             then(r) == UNION {PlaceWrites(c, r.book, r.page) :
                                 c \in {w \in OthersFirst(Now, r.book) : w.ok}}
             carried == UNION {then(r) : r \in Carried}
  <1>6. owed \subseteq Cards
    BY <1>1, <1>2, <1>4
  <1>7. ASSUME NEW r \in Spots PROVE then(r) \subseteq Cards
    BY <1>4, <1>5
  <1>8. CutShort = {Now} \cup owed \cup carried
    BY DEF CutShort
  <1> HIDE DEF owed, then
  <1>9. carried \subseteq Cards
    BY <1>3, <1>7
  <1> HIDE DEF carried
  <1> QED
    BY <1>1, <1>6, <1>8, <1>9

LEMMA BootIs ==
    ASSUME NEW spot \in Spots
    PROVE  /\ BootedAt(spot) \in AppStates
           /\ IdleTask(spot.book) \in HeldTasks
           /\ Nowhere \in Frames
  <1>1. spot.book \in Books /\ spot.page \in Pages /\ 0 \in Pages
    BY StorageAssumption DEF Spots, Pages
  <1>2. BootedAt(spot) \in AppStates
    BY <1>1 DEF BootedAt, AppStates, Views, NoPick
  <1>3. IdleTask(spot.book) \in HeldTasks
    BY <1>1 DEF IdleTask, HeldTasks, Held
  <1>4. Nowhere \in Frames
    BY <1>1 DEF Nowhere, Frames
  <1> QED
    BY <1>2, <1>3, <1>4

\* A cut leaves the app as booted, with nothing asked for.
LEMMA PowerLossTyped ==
    ASSUME TypeOK, CardOK, PowerLoss
    PROVE  /\ AppOK' /\ CardOK' /\ EventsOK' /\ SpentOK' /\ lost' \in BOOLEAN
           /\ chosen' \in [Books -> SUBSET Pages] /\ shown' \in Frames
           /\ \E spot \in Spots : app' = BootedAt(spot)
           /\ sent' \o parked' = <<>> /\ events' = <<>> /\ shown' = Nowhere
  <1>0. SpentOK
    BY DEF TypeOK, SpentOK
  <1> DEFINE p(c) == NewestPlace(c.place[c.state.book])
             at(c, unread) == Spot(c.state.book, IF unread \/ p(c) = None THEN c.state.page
                                                 ELSE p(c))
  <1>1. PICK c \in CutShort, unread \in BOOLEAN :
          /\ unread => spent.faults > 0
          /\ spent' = [spent EXCEPT !.cuts = @ - 1,
                                    !.faults = @ - (IF unread THEN 1 ELSE 0)]
          /\ place' = c.place /\ state' = c.state
          /\ app' = BootedAt(at(c, unread)) /\ task' = IdleTask(c.state.book)
    BY DEF PowerLoss
  <1>2. /\ spent.cuts > 0 /\ parked' = <<>> /\ sent' = <<>> /\ events' = <<>>
        /\ shown' = Nowhere /\ chosen' = [b \in Books |-> {}] /\ lost' = FALSE
    BY DEF PowerLoss
  <1>3. c \in Cards
    BY CutShortIs
  <1>4. c.place \in [Books -> Pairs] /\ c.state \in Spots
    BY <1>3, CardHas
  <1>5. c.state.book \in Books /\ c.state.page \in Pages
    BY <1>4 DEF Spots
  <1>6. p(c) \in Pages \cup {None}
    BY <1>4, <1>5, PairIs
  <1> HIDE DEF p
  <1>7. at(c, unread) \in Spots /\ at(c, unread).book = c.state.book
    BY <1>5, <1>6 DEF Spot, Spots
  <1> HIDE DEF at
  <1>8. /\ BootedAt(at(c, unread)) \in AppStates /\ IdleTask(c.state.book) \in HeldTasks
        /\ Nowhere \in Frames
    BY <1>7, BootIs
  <1>9. SpentOK' /\ spent'.faults <= MaxFaults
    <2>1. ASSUME NEW s \in [presses : Nat, faults : Nat, cuts : Nat], NEW n \in Nat,
                 s.cuts > 0, n <= s.faults
          PROVE  /\ [s EXCEPT !.cuts = s.cuts - 1, !.faults = s.faults - n]
                       \in [presses : Nat, faults : Nat, cuts : Nat]
                 /\ s.faults <= MaxFaults =>
                      [s EXCEPT !.cuts = s.cuts - 1, !.faults = s.faults - n].faults <= MaxFaults
      <3>1. s.cuts - 1 \in Nat /\ s.faults - n \in Nat /\ MaxFaults \in Nat
        BY <2>1, StorageAssumption
      <3>2. s.faults <= MaxFaults => s.faults - n <= MaxFaults
        BY <3>1
      <3> QED
        BY <3>1, <3>2
    <2>2. (IF unread THEN 1 ELSE 0) \in Nat /\ (IF unread THEN 1 ELSE 0) <= spent.faults
      BY <1>0, <1>1 DEF SpentOK
    <2> QED
      BY <1>0, <1>1, <1>2, <2>1, <2>2 DEF SpentOK, CardOK
  <1>10. /\ AppOK' /\ sent' \o parked' = <<>>
    <2>1. <<>> \in Seq(Commands) /\ Len(<<>>) = 0
      OBVIOUS
    <2>2. <<>> \o <<>> = <<>>
      BY ConcatEmptySeq, <2>1
    <2> QED
      BY <1>1, <1>2, <1>8, <2>1, <2>2, StorageAssumption DEF AppOK
  <1>11. CardOK'
    BY <1>1, <1>4, <1>8, <1>9 DEF CardOK
  <1>12. EventsOK'
    <2>1. <<>> \in Seq(Events) /\ Len(<<>>) = 0 /\ EventSlots \in Nat
      BY StorageAssumption
    <2> QED
      BY <1>2, <2>1 DEF EventsOK
  <1> QED
    BY <1>1, <1>2, <1>7, <1>8, <1>9, <1>10, <1>11, <1>12

\* The first state is that of a boot.
LEMMA InitTyped ==
    ASSUME Init
    PROVE  /\ TypeOK /\ CardOK
           /\ \E spot \in Spots : app = BootedAt(spot)
           /\ Queue = <<>> /\ events = <<>> /\ shown = Nowhere
  <1> DEFINE at == Spot(state.book, IF Place(state.book) = None THEN state.page
                                    ELSE Place(state.book))
  <1>1. /\ place = SavedPlaces /\ state = SavedState /\ app = BootedAt(at)
        /\ task = IdleTask(state.book)
        /\ parked = <<>> /\ sent = <<>> /\ events = <<>> /\ shown = Nowhere
        /\ chosen = [b \in Books |-> {}] /\ lost = FALSE
        /\ spent = [presses |-> MaxPresses, faults |-> MaxFaults, cuts |-> MaxCuts]
    BY DEF Init
  <1>2. place \in [Books -> Pairs] /\ state \in Spots
    BY <1>1, SavedAssumption DEF Pairs
  <1>3. state.book \in Books /\ state.page \in Pages /\ 0 \in Pages
    BY <1>2, StorageAssumption DEF Spots, Pages
  <1>4. place[state.book] \in Pairs
    BY <1>2, <1>3
  <1>5. Place(state.book) \in Pages \cup {None}
    BY <1>3, <1>4, PairIs DEF Place
  <1>6. at \in Spots
    BY <1>3, <1>5 DEF Spot, Spots
  <1> HIDE DEF at
  <1>7. app \in AppStates /\ task \in HeldTasks /\ shown \in Frames
    BY <1>1, <1>2, <1>6, BootIs
  <1>8. task \in Tasks
    BY <1>7 DEF HeldTasks, Tasks, Held
  <1>9. spent \in [presses : Nat, faults : Nat, cuts : Nat]
    BY <1>1, StorageAssumption
  <1>10. <<>> \in Seq(Commands) /\ <<>> \in Seq(Events) /\ Len(<<>>) = 0
    OBVIOUS
  <1>11. <<>> \o <<>> = <<>>
    BY <1>10, ConcatEmptySeq
  <1>12. 0 <= ParkedSlots /\ 0 <= QueueSlots /\ 0 <= EventSlots + 1
    BY StorageAssumption
  <1>13. chosen \in [Books -> SUBSET Pages] /\ lost \in BOOLEAN
    BY <1>1
  <1>14. TypeOK
    BY <1>1, <1>2, <1>7, <1>8, <1>9, <1>10, <1>12, <1>13 DEF TypeOK, Pairs
  <1>15. spent.faults <= MaxFaults
    BY <1>1, StorageAssumption
  <1> QED
    BY <1>1, <1>2, <1>6, <1>7, <1>11, <1>14, <1>15 DEF CardOK, Queue

\* Every variable is typed when its parts are.
LEMMA TypedParts ==
    ASSUME AppOK, CardOK, EventsOK, SpentOK, chosen \in [Books -> SUBSET Pages],
           lost \in BOOLEAN, shown \in Frames
    PROVE  TypeOK
  <1>1. task \in Tasks
    BY DEF CardOK, HeldTasks, Tasks, Held
  <1> QED
    BY <1>1 DEF TypeOK, AppOK, CardOK, EventsOK, SpentOK, Pairs

LEMMA TypedPartsNext == (AppOK /\ CardOK /\ EventsOK /\ SpentOK
                         /\ chosen \in [Books -> SUBSET Pages] /\ lost \in BOOLEAN
                         /\ shown \in Frames => TypeOK)'
  BY TypedParts, PTL

\* Every step keeps the types.
LEMMA StepTyped ==
    ASSUME TypeOK, CardOK, [Next]_vars
    PROVE  TypeOK' /\ CardOK'
  <1>0. /\ AppOK /\ CardOK /\ SpentOK /\ EventsOK /\ events \in Seq(Events)
        /\ chosen \in [Books -> SUBSET Pages] /\ lost \in BOOLEAN /\ shown \in Frames
    BY DEF TypeOK, AppOK, SpentOK, EventsOK
  <1> DEFINE Goal == /\ AppOK' /\ CardOK' /\ EventsOK' /\ SpentOK' /\ shown' \in Frames
                     /\ chosen' \in [Books -> SUBSET Pages] /\ lost' \in BOOLEAN
  <1>1. ASSUME AppStep PROVE Goal
    <2>1. AppOK' /\ lost' \in BOOLEAN /\ SpentOK' /\ chosen' \in [Books -> SUBSET Pages]
      BY <1>1, AppStepTyped
    <2>2. UNCHANGED <<events, task, shown, cardVars>>
      BY <1>1 DEF AppStep, TurnPage, ReadOn, Leave, WalkAway, Pick
    <2>3. spent'.faults = spent.faults
      <3>1. spent' = spent \/ spent' = [spent EXCEPT !.presses = @ - 1]
        BY <1>1 DEF AppStep, TurnPage, ReadOn, Leave, WalkAway, Pick, Press
      <3> QED
        BY <1>0, <3>1 DEF SpentOK
    <2> QED
      BY <1>0, <2>1, <2>2, <2>3 DEF CardOK, EventsOK, cardVars
  <1>2. ASSUME Receive PROVE Goal
    <2>1. AppOK' /\ lost' \in BOOLEAN
      BY <1>2, ReceiveTyped
    <2>2. events # <<>> /\ events' = Tail(events) /\ UNCHANGED <<task, shown, cardVars, chosen, spent>>
      BY <1>2 DEF Receive
    <2>3. EventsOK'
      <3>1. Tail(events) \in Seq(Events) /\ Len(Tail(events)) = Len(events) - 1 /\ Len(events) \in Nat
        BY <1>0, <2>2, TailHas
      <3>2. Len(events) - 1 <= EventSlots + 1
        BY <1>0, <3>1, StorageAssumption DEF EventsOK
      <3> QED
        BY <2>2, <3>1, <3>2 DEF EventsOK
    <2> QED
      BY <1>0, <2>1, <2>2, <2>3 DEF CardOK, SpentOK, cardVars
  <1>3. ASSUME OfferParked PROVE Goal
    <2>1. AppOK'
      BY <1>3, OfferTyped
    <2>2. UNCHANGED <<events, task, shown, cardVars, history, spent>>
      BY <1>3 DEF OfferParked
    <2> QED
      BY <1>0, <2>1, <2>2 DEF CardOK, SpentOK, EventsOK, cardVars, history
  <1>4. ASSUME FrameSettles PROVE Goal
    <2>1. AppOK' /\ shown' \in Frames
      BY <1>4, SettlesTyped
    <2>2. UNCHANGED <<events, task, cardVars, history, spent>>
      BY <1>4 DEF FrameSettles
    <2> QED
      BY <1>0, <2>1, <2>2 DEF CardOK, SpentOK, EventsOK, cardVars, history
  <1>5. ASSUME Handle PROVE Goal
    BY <1>0, <1>5, HandleTyped
  <1>6. ASSUME Settle PROVE Goal
    BY <1>0, <1>6, SettleTyped
  <1>7. ASSUME Flush PROVE Goal
    BY <1>0, <1>7, FlushTyped
  <1>8. ASSUME PowerLoss PROVE Goal
    BY <1>8, PowerLossTyped
  <1>9. ASSUME UNCHANGED vars PROVE Goal
    BY <1>0, <1>9 DEF vars, appVars, cardVars, history, AppOK, CardOK, EventsOK, SpentOK
  <1> HIDE DEF Goal
  <1>10. Goal
    BY <1>1, <1>2, <1>3, <1>4, <1>5, <1>6, <1>7, <1>8, <1>9 DEF Next
  <1> QED
    BY <1>10, TypedPartsNext DEF Goal

\* Every variable keeps its type: the channel and what is parked stay within
\* their room, and an event fits where the storage task holds it.
THEOREM StorageTypes == Spec => []TypeOK
  <1>1. Init => TypeOK /\ CardOK
    BY InitTyped
  <1>2. TypeOK /\ CardOK /\ [Next]_vars => (TypeOK /\ CardOK)'
    BY StepTyped
  <1> QED
    BY <1>1, <1>2, PTL DEF Spec
-----------------------------------------------------------------------------
(***************************************************************************)
(* What holds the input is answered.  The queue q and the events ev are    *)
(* read against a state a of the app; the lemmas say what each step of a   *)
(* task does to the three.                                                 *)
(***************************************************************************)
\* Requests are in the order they were made in, and the latest is among them.
InOrder(q, latest) ==
    /\ \A i \in DOMAIN q : Load(q[i]) => q[i].id <= latest
    /\ \A i, j \in DOMAIN q : i < j /\ Load(q[i]) /\ Load(q[j]) => q[i].id < q[j].id
    /\ \A i \in DOMAIN q : Load(q[i]) => \E j \in DOMAIN q : Load(q[j]) /\ q[j].id = latest

\* What is asked for and what is answered is of the book the reader is in.
SameBook(a, q, ev) ==
    /\ \A i \in DOMAIN q : Load(q[i]) => q[i].book = a.book
    /\ \A i \in DOMAIN ev : IsSettle(ev[i]) => ev[i].book = a.book
    /\ a.opening # None => a.opening = a.book

\* An open that leaves a book has nothing asked for beside it, so that a reader
\* put back in that book is answered for no other.
Leaving(a, q, ev) ==
    /\ a.rollback # None => a.rollback.view = "shelf" /\ a.opening # None
    /\ a.rollback # None /\ a.rollback.book # a.book =>
         /\ \A i, j \in DOMAIN q : Load(q[i]) /\ Load(q[j]) => i = j
         /\ \A i \in DOMAIN ev : IsSettle(ev[i]) =>
              /\ \A k \in DOMAIN q : ~Load(q[k])
              /\ \A k \in DOMAIN ev : IsSettle(ev[k]) => i = k

Loading(q) == \E i \in DOMAIN q : Load(q[i])
Settling(ev) == \E i \in DOMAIN ev : IsSettle(ev[i])

\* An open that holds the input is asked for, or its answer is on the way.
Pending(a, q, ev) == a.opening # None => Loading(q) \/ Settling(ev)

\* So is the pick that is waited for, and only records come after it.
Picked(a, q, ev) ==
    a.picking # NoPick =>
        /\ a.view = "shelf" /\ a.picking = a.picks
        /\ \/ \E i \in DOMAIN q :
                /\ q[i].op = "choose" /\ q[i].id = a.picking
                /\ \A j \in DOMAIN q : i < j => q[j].op = "progress"
           \/ /\ \A j \in DOMAIN q : q[j].op = "progress"
              /\ Len(ev) \in DOMAIN ev /\ IsRow(ev[Len(ev)]) /\ ev[Len(ev)].id = a.picking

\* Picks are answered in the order they were made in, each once.
RowOrder(q, ev, picks) ==
    /\ \A i \in DOMAIN q : q[i].op = "choose" => q[i].id \in 1 .. picks
    /\ \A i \in DOMAIN ev : IsRow(ev[i]) => ev[i].id \in 1 .. picks
    /\ \A i, j \in DOMAIN q : q[i].op = "choose" /\ q[j].op = "choose" /\ i < j =>
                                q[i].id < q[j].id
    /\ \A i, j \in DOMAIN ev : IsRow(ev[i]) /\ IsRow(ev[j]) /\ i < j => ev[i].id < ev[j].id
    /\ \A i \in DOMAIN ev, j \in DOMAIN q : IsRow(ev[i]) /\ q[j].op = "choose" =>
                                              ev[i].id < q[j].id

Core(a, q, ev) ==
    /\ InOrder(q, a.request)
    /\ SameBook(a, q, ev)
    /\ Leaving(a, q, ev)
    /\ Pending(a, q, ev)
    /\ Picked(a, q, ev)
    /\ RowOrder(q, ev, a.picks)

\* Two states that are alike are in order with the same things.
LEMMA CoreAlike ==
    ASSUME NEW a, NEW b, NEW q, NEW ev, Alike(a, b), Core(a, q, ev)
    PROVE  Core(b, q, ev)
  <1>1. InOrder(q, b.request) /\ RowOrder(q, ev, b.picks)
    BY DEF Core, Alike
  <1>2. SameBook(b, q, ev)
    BY DEF Core, Alike, SameBook
  <1>3. Leaving(b, q, ev)
    BY DEF Core, Alike, Leaving
  <1>4. Pending(b, q, ev)
    BY DEF Core, Alike, Pending
  <1>5. Picked(b, q, ev)
    BY DEF Core, Alike, Picked
  <1> QED
    BY <1>1, <1>2, <1>3, <1>4, <1>5 DEF Core

\* Picks are as they were when anything else is put behind them.
LEMMA RowsKept ==
    ASSUME NEW q \in Seq(Commands), NEW ev, NEW picks, NEW c, c.op # "choose",
           NEW r \in Seq(Commands), Queued(q, c, r), RowOrder(q, ev, picks)
    PROVE  RowOrder(r, ev, picks)
  <1> DEFINE n == Len(r)
  <1>1. /\ n \in DOMAIN r /\ r[n] = c
        /\ \A i \in DOMAIN r : i # n => \E k \in DOMAIN q : r[i] = q[k]
        /\ \A i, j \in DOMAIN r : i < j /\ j # n =>
             \E k, l \in DOMAIN q : k < l /\ r[i] = q[k] /\ r[j] = q[l]
    BY QueuedHas
  <1> HIDE DEF n
  <1>2. \A i \in DOMAIN r : r[i].op = "choose" => i # n
    BY <1>1
  <1>3. \A i \in DOMAIN r : r[i].op = "choose" => r[i].id \in 1 .. picks
    BY <1>1, <1>2 DEF RowOrder
  <1>4. \A i, j \in DOMAIN r : r[i].op = "choose" /\ r[j].op = "choose" /\ i < j =>
                                 r[i].id < r[j].id
    BY <1>1, <1>2 DEF RowOrder
  <1>5. \A i \in DOMAIN ev, j \in DOMAIN r : IsRow(ev[i]) /\ r[j].op = "choose" =>
                                               ev[i].id < r[j].id
    BY <1>1, <1>2 DEF RowOrder
  <1> QED
    BY <1>3, <1>4, <1>5 DEF RowOrder

\* A record may be put behind anything.
LEMMA AddProgress ==
    ASSUME NEW a, NEW q \in Seq(Commands), NEW ev, NEW c, c.op = "progress",
           NEW r \in Seq(Commands), Queued(q, c, r), Core(a, q, ev)
    PROVE  Core(a, r, ev)
  <1> DEFINE n == Len(r)
  <1>1. /\ n \in DOMAIN r /\ r[n] = c
        /\ \A i \in DOMAIN r : i # n => \E k \in DOMAIN q : r[i] = q[k]
        /\ \A i, j \in DOMAIN r : i < j /\ j # n =>
             \E k, l \in DOMAIN q : k < l /\ r[i] = q[k] /\ r[j] = q[l]
        /\ \A k \in DOMAIN q : ~MayReplace(c, q[k]) =>
             \E i \in DOMAIN r :
               /\ i # n /\ r[i] = q[k]
               /\ \A j \in DOMAIN r : i < j /\ j # n =>
                    \E l \in DOMAIN q : k < l /\ r[j] = q[l]
    BY QueuedHas
  <1>2. /\ ~Load(c) /\ c.op # "choose"
        /\ \A x : ~MayReplace(c, x)
    BY DEF Load, MayReplace
  <1> HIDE DEF n
  <1>3. \A i \in DOMAIN r : Load(r[i]) \/ r[i].op = "choose" => i # n
    BY <1>1, <1>2
  <1>4. \A k \in DOMAIN q : \E i \in DOMAIN r : r[i] = q[k]
    BY <1>1, <1>2
  <1>5. InOrder(r, a.request)
    <2>1. \A i \in DOMAIN r : Load(r[i]) => r[i].id <= a.request
      BY <1>1, <1>3 DEF Core, InOrder
    <2>2. \A i, j \in DOMAIN r : i < j /\ Load(r[i]) /\ Load(r[j]) => r[i].id < r[j].id
      BY <1>1, <1>3 DEF Core, InOrder
    <2>3. ASSUME NEW i \in DOMAIN r, Load(r[i])
          PROVE  \E j \in DOMAIN r : Load(r[j]) /\ r[j].id = a.request
      <3>1. PICK k \in DOMAIN q : r[i] = q[k]
        BY <1>1, <1>3, <2>3
      <3>2. PICK l \in DOMAIN q : Load(q[l]) /\ q[l].id = a.request
        BY <2>3, <3>1 DEF Core, InOrder
      <3> QED
        BY <1>4, <3>2
    <2> QED
      BY <2>1, <2>2, <2>3 DEF InOrder
  <1>6. SameBook(a, r, ev)
    BY <1>1, <1>3 DEF Core, SameBook
  <1>7. ASSUME \A k \in DOMAIN q : ~Load(q[k]) PROVE \A i \in DOMAIN r : ~Load(r[i])
    BY <1>1, <1>3, <1>7
  <1>8. ASSUME \A k, l \in DOMAIN q : Load(q[k]) /\ Load(q[l]) => k = l
        PROVE  \A i, j \in DOMAIN r : Load(r[i]) /\ Load(r[j]) => i = j
    <2>1. DOMAIN r \subseteq Int /\ DOMAIN q \subseteq Int
      BY LenProperties
    <2>2. ASSUME NEW i \in DOMAIN r, NEW j \in DOMAIN r, Load(r[i]), Load(r[j]), i < j
          PROVE  FALSE
      <3>1. PICK k \in DOMAIN q, l \in DOMAIN q : k < l /\ r[i] = q[k] /\ r[j] = q[l]
        BY <1>1, <1>3, <2>2
      <3> QED
        BY <1>8, <2>1, <2>2, <3>1
    <2> QED
      BY <2>1, <2>2
  <1>9. Leaving(a, r, ev)
    BY <1>7, <1>8 DEF Core, Leaving
  <1>10. Pending(a, r, ev)
    BY <1>4 DEF Core, Pending, Loading
  <1>11. Picked(a, r, ev)
    <2>1. ASSUME NEW k \in DOMAIN q, q[k].op = "choose", q[k].id = a.picking,
                 \A l \in DOMAIN q : k < l => q[l].op = "progress"
          PROVE  \E i \in DOMAIN r : /\ r[i].op = "choose" /\ r[i].id = a.picking
                                     /\ \A j \in DOMAIN r : i < j => r[j].op = "progress"
      <3>1. PICK i \in DOMAIN r :
               /\ i # n /\ r[i] = q[k]
               /\ \A j \in DOMAIN r : i < j /\ j # n => \E l \in DOMAIN q : k < l /\ r[j] = q[l]
        BY <1>1, <1>2
      <3>2. ASSUME NEW j \in DOMAIN r, i < j PROVE r[j].op = "progress"
        BY <1>1, <2>1, <3>1, <3>2
      <3> QED
        BY <2>1, <3>1, <3>2
    <2>2. ASSUME \A k \in DOMAIN q : q[k].op = "progress"
          PROVE  \A i \in DOMAIN r : r[i].op = "progress"
      BY <1>1, <2>2
    <2> QED
      BY <2>1, <2>2 DEF Core, Picked
  <1>12. RowOrder(r, ev, a.picks)
    BY <1>2, RowsKept DEF Core
  <1> QED
    BY <1>5, <1>6, <1>9, <1>10, <1>11, <1>12 DEF Core
\* A new request is the latest, and comes last.
LEMMA AddLoad ==
    ASSUME NEW q \in Seq(Commands), NEW latest \in Nat, InOrder(q, latest),
           NEW c, Load(c), c.id = latest + 1,
           NEW r \in Seq(Commands), Queued(q, c, r)
    PROVE  /\ InOrder(r, c.id)
           /\ Len(r) \in DOMAIN r /\ r[Len(r)] = c
           /\ \A i \in DOMAIN r : i # Len(r) => \E k \in DOMAIN q : r[i] = q[k]
  <1> DEFINE n == Len(r)
  <1>0. DOMAIN r = 1 .. n /\ n \in Nat /\ \A i \in DOMAIN q : q[i] \in Commands
    BY LenProperties, ElementOfSeq
  <1>1. /\ n \in DOMAIN r /\ r[n] = c
        /\ \A i \in DOMAIN r : i # n => \E k \in DOMAIN q : r[i] = q[k]
        /\ \A i, j \in DOMAIN r : i < j /\ j # n =>
             \E k, l \in DOMAIN q : k < l /\ r[i] = q[k] /\ r[j] = q[l]
    BY QueuedHas
  <1> HIDE DEF n
  <1>2. \A k \in DOMAIN q : Load(q[k]) => q[k].id \in Nat /\ q[k].id < c.id
    BY <1>0, CommandHas DEF Load, InOrder
  <1>3. \A i \in DOMAIN r : i # n /\ Load(r[i]) => r[i].id < c.id
    BY <1>1, <1>2
  <1>4. \A i \in DOMAIN r : Load(r[i]) => r[i].id <= c.id
    <2>1. ASSUME NEW i \in DOMAIN r, Load(r[i]), i # n PROVE r[i].id <= c.id
      <3>1. PICK k \in DOMAIN q : r[i] = q[k]
        BY <1>1, <2>1
      <3> QED
        BY <1>2, <2>1, <3>1
    <2> QED
      BY <1>1, <2>1
  <1>5. ASSUME NEW i \in DOMAIN r, NEW j \in DOMAIN r, i < j, Load(r[i]), Load(r[j])
        PROVE  r[i].id < r[j].id
    <2>1. CASE j # n
      BY <1>1, <1>5, <2>1 DEF InOrder
    <2>2. CASE j = n
      <3>1. i # n
        BY <1>0, <1>5, <2>2
      <3> QED
        BY <1>1, <1>3, <1>5, <2>2, <3>1
    <2> QED
      BY <2>1, <2>2
  <1>6. \A i \in DOMAIN r : Load(r[i]) => \E j \in DOMAIN r : Load(r[j]) /\ r[j].id = c.id
    BY <1>1
  <1>7. InOrder(r, c.id)
    BY <1>4, <1>5, <1>6 DEF InOrder
  <1> QED
    BY <1>1, <1>7 DEF n

\* A turn asks for more of the book the reader is in.
LEMMA AddExtend ==
    ASSUME NEW b, b.request \in Nat, NEW q \in Seq(Commands), NEW ev, Core(b, q, ev),
           b.opening = None, b.picking = NoPick,
           NEW c \in Commands, Load(c), c.id = b.request + 1, c.book = b.book,
           NEW r \in Seq(Commands), Queued(q, c, r),
           NEW a, a.request = c.id, a.picks = b.picks, a.book = b.book,
           a.opening = None, a.rollback = b.rollback, a.picking = NoPick
    PROVE  Core(a, r, ev)
  <1>1. InOrder(r, a.request) /\ Len(r) \in DOMAIN r /\ r[Len(r)] = c
        /\ \A i \in DOMAIN r : i # Len(r) => \E k \in DOMAIN q : r[i] = q[k]
    BY AddLoad DEF Core
  <1>2. SameBook(a, r, ev)
    BY <1>1 DEF Core, SameBook
  <1>3. Leaving(a, r, ev)
    BY DEF Core, Leaving
  <1>4. Pending(a, r, ev) /\ Picked(a, r, ev)
    BY DEF Pending, Picked
  <1>5. RowOrder(r, ev, a.picks)
    BY RowsKept DEF Core, Load
  <1> QED
    BY <1>1, <1>2, <1>3, <1>4, <1>5 DEF Core

\* An open of the book the reader is in, or of another when nothing is asked
\* for.
LEMMA AddOpen ==
    ASSUME NEW b, b.request \in Nat, NEW q \in Seq(Commands), NEW ev, Core(b, q, ev),
           NEW c \in Commands, Load(c), c.id = b.request + 1,
           NEW r \in Seq(Commands), Queued(q, c, r),
           NEW a, a.request = c.id, a.picks = b.picks, a.book = c.book,
           a.opening = c.book, a.picking = NoPick,
           a.rollback.view = "shelf", a.rollback.book = b.book,
           c.book = b.book \/ (~Loading(q) /\ ~Settling(ev))
    PROVE  Core(a, r, ev)
  <1>0. c.book # None
    BY CommandHas, NoneAssumption
  <1>1. InOrder(r, a.request) /\ Len(r) \in DOMAIN r /\ r[Len(r)] = c
        /\ \A i \in DOMAIN r : i # Len(r) => \E k \in DOMAIN q : r[i] = q[k]
    BY AddLoad DEF Core
  <1>2. CASE c.book = b.book
    <2>1. SameBook(a, r, ev)
      BY <1>1, <1>2 DEF Core, SameBook
    <2>2. Leaving(a, r, ev)
      BY <1>0, <1>2 DEF Leaving
    <2> QED
      BY <1>1, <2>1, <2>2, RowsKept DEF Core, Pending, Picked, Loading, Load
  <1>3. CASE ~Loading(q) /\ ~Settling(ev)
    <2>1. \A i \in DOMAIN r : Load(r[i]) => i = Len(r)
      BY <1>1, <1>3 DEF Loading
    <2>2. SameBook(a, r, ev)
      BY <1>1, <1>3, <2>1 DEF SameBook, Settling
    <2>3. Leaving(a, r, ev)
      BY <1>0, <1>3, <2>1 DEF Leaving, Settling
    <2> QED
      BY <1>1, <2>2, <2>3, RowsKept DEF Core, Pending, Picked, Loading, Load
  <1> QED
    BY <1>2, <1>3

\* A pick, with no other waited for.
LEMMA AddChoose ==
    ASSUME NEW b, b.picks \in Nat, NEW q \in Seq(Commands), NEW ev \in Seq(Events),
           Core(b, q, ev), b.opening = None, b.picking = NoPick, b.view = "shelf",
           NEW c \in Commands, c.op = "choose", c.id = b.picks + 1,
           NEW r \in Seq(Commands),
           NEW a, a.request = b.request, a.picks = c.id, a.book = b.book, a.view = b.view,
           a.opening = b.opening, a.rollback = b.rollback,
           \/ Queued(q, c, r) /\ a.picking = c.id
           \/ r = q /\ a.picking = NoPick
    PROVE  Core(a, r, ev)
  <1>0. /\ \A x : ~MayReplace(c, x)
        /\ ~Load(c)
        /\ \A i \in DOMAIN q : q[i] \in Commands
        /\ \A i \in DOMAIN ev : ev[i] \in Events
    BY ElementOfSeq, LenProperties DEF MayReplace, Load
  <1>1. SameBook(b, q, ev) /\ Leaving(b, q, ev) /\ InOrder(q, b.request)
        /\ RowOrder(q, ev, b.picks)
    BY DEF Core
  <1>2. CASE r = q /\ a.picking = NoPick
    <2>1. RowOrder(q, ev, a.picks)
      <3>1. 1 .. b.picks \subseteq 1 .. a.picks
        OBVIOUS
      <3> QED
        BY <1>1, <3>1 DEF RowOrder
    <2>2. SameBook(a, q, ev) /\ Leaving(a, q, ev) /\ Pending(a, q, ev) /\ Picked(a, q, ev)
      BY <1>1, <1>2 DEF SameBook, Leaving, Pending, Picked
    <2> QED
      BY <1>1, <1>2, <2>1, <2>2 DEF Core
  <1>3. CASE Queued(q, c, r) /\ a.picking = c.id
    <2> DEFINE n == Len(r)
    <2>0. DOMAIN r = 1 .. n /\ n \in Nat
      BY LenProperties
    <2>1. /\ n \in DOMAIN r /\ r[n] = c
          /\ \A i \in DOMAIN r : i # n => \E k \in DOMAIN q : r[i] = q[k]
          /\ \A i, j \in DOMAIN r : i < j /\ j # n =>
               \E k, l \in DOMAIN q : k < l /\ r[i] = q[k] /\ r[j] = q[l]
          /\ \A k \in DOMAIN q : \E i \in DOMAIN r : r[i] = q[k]
      BY <1>0, <1>3, QueuedHas
    <2> HIDE DEF n
    <2>2. InOrder(r, a.request)
      <3>1. \A i \in DOMAIN r : Load(r[i]) => i # n
        BY <1>0, <2>1
      <3>2. \A i \in DOMAIN r : Load(r[i]) => r[i].id <= a.request
        BY <1>1, <2>1, <3>1 DEF InOrder
      <3>3. ASSUME NEW i \in DOMAIN r, NEW j \in DOMAIN r, i < j, Load(r[i]), Load(r[j])
            PROVE  r[i].id < r[j].id
        <4>1. PICK k \in DOMAIN q, l \in DOMAIN q : k < l /\ r[i] = q[k] /\ r[j] = q[l]
          BY <2>1, <3>1, <3>3
        <4> QED
          BY <1>1, <3>3, <4>1 DEF InOrder
      <3>4. ASSUME NEW i \in DOMAIN r, Load(r[i])
            PROVE  \E j \in DOMAIN r : Load(r[j]) /\ r[j].id = a.request
        <4>1. PICK k \in DOMAIN q : r[i] = q[k]
          BY <2>1, <3>1, <3>4
        <4>2. PICK l \in DOMAIN q : Load(q[l]) /\ q[l].id = a.request
          BY <1>1, <3>4, <4>1 DEF InOrder
        <4> QED
          BY <2>1, <4>2
      <3> QED
        BY <3>2, <3>3, <3>4 DEF InOrder
    <2>3. SameBook(a, r, ev) /\ Leaving(a, r, ev) /\ Pending(a, r, ev)
      <3>1. \A i \in DOMAIN r : Load(r[i]) => i # n
        BY <1>0, <2>1
      <3>2. ASSUME NEW i \in DOMAIN r, Load(r[i]) PROVE r[i].book = a.book
        <4>1. PICK k \in DOMAIN q : r[i] = q[k]
          BY <2>1, <3>1, <3>2
        <4> QED
          BY <1>1, <3>2, <4>1 DEF SameBook
      <3>3. SameBook(a, r, ev)
        BY <1>1, <3>2 DEF SameBook
      <3> QED
        BY <1>1, <3>3 DEF Leaving, Pending
    <2>4. Picked(a, r, ev)
      <3>1. \A j \in DOMAIN r : ~(n < j)
        BY <2>0
      <3> QED
        BY <1>3, <2>1, <3>1 DEF Picked
    <2>5. \A k \in DOMAIN q : q[k].op = "choose" =>
            q[k].id \in 1 .. b.picks /\ q[k].id \in 1 .. c.id /\ q[k].id < c.id
      BY <1>1 DEF RowOrder
    <2>6. \A k \in DOMAIN ev : IsRow(ev[k]) =>
            ev[k].id \in 1 .. b.picks /\ ev[k].id \in 1 .. c.id /\ ev[k].id < c.id
      BY <1>1 DEF RowOrder
    <2>7. \A i \in DOMAIN r : r[i].op = "choose" => r[i].id \in 1 .. c.id
      <3>1. c.id \in 1 .. c.id
        OBVIOUS
      <3> QED
        BY <2>1, <2>5, <3>1
    <2>8. ASSUME NEW i \in DOMAIN r, NEW j \in DOMAIN r, r[i].op = "choose", r[j].op = "choose",
                 i < j
          PROVE  r[i].id < r[j].id
      <3>1. CASE j = n
        <4>1. i # n
          BY <2>0, <2>8, <3>1
        <4>2. PICK k \in DOMAIN q : r[i] = q[k]
          BY <2>1, <4>1
        <4> QED
          BY <2>1, <2>5, <2>8, <3>1, <4>2
      <3>2. CASE j # n
        BY <1>1, <2>1, <2>8, <3>2 DEF RowOrder
      <3> QED
        BY <3>1, <3>2
    <2>9. ASSUME NEW i \in DOMAIN ev, NEW j \in DOMAIN r, IsRow(ev[i]), r[j].op = "choose"
          PROVE  ev[i].id < r[j].id
      <3>1. CASE j = n
        BY <2>1, <2>6, <2>9, <3>1
      <3>2. CASE j # n
        BY <1>1, <2>1, <2>9, <3>2 DEF RowOrder
      <3> QED
        BY <3>1, <3>2
    <2>10. RowOrder(r, ev, a.picks)
      BY <1>1, <2>6, <2>7, <2>8, <2>9 DEF RowOrder
    <2> QED
      BY <2>2, <2>3, <2>4, <2>10 DEF Core
  <1> QED
    BY <1>2, <1>3
-----------------------------------------------------------------------------
(***************************************************************************)
(* What the storage task takes off the queue, and what it answers.         *)
(***************************************************************************)
LEMMA RestHas ==
    ASSUME NEW S, NEW q \in Seq(S), q # <<>>
    PROVE  /\ 1 \in DOMAIN q /\ Head(q) = q[1]
           /\ \A k \in DOMAIN q : k # 1 => 1 < k
           /\ \A i \in DOMAIN Tail(q) : \E k \in DOMAIN q : k # 1 /\ Tail(q)[i] = q[k]
           /\ \A i, j \in DOMAIN Tail(q) : i < j =>
                \E k, l \in DOMAIN q : k < l /\ k # 1 /\ l # 1 /\ Tail(q)[i] = q[k] /\ Tail(q)[j] = q[l]
           /\ \A k \in DOMAIN q : k # 1 =>
                \E i \in DOMAIN Tail(q) :
                  /\ Tail(q)[i] = q[k]
                  /\ \A j \in DOMAIN Tail(q) : i < j =>
                       \E l \in DOMAIN q : k < l /\ Tail(q)[j] = q[l]
  <1>1. /\ 1 \in DOMAIN q /\ Head(q) = q[1]
        /\ Tail(q) \in Seq(S)
        /\ DOMAIN q = 1 .. Len(q) /\ Len(q) \in Nat
        /\ \A i \in DOMAIN Tail(q) : i + 1 \in DOMAIN q /\ Tail(q)[i] = q[i + 1]
        /\ \A k \in DOMAIN q : k # 1 => k - 1 \in DOMAIN Tail(q) /\ Tail(q)[k - 1] = q[k]
    BY TailHas
  <1> DEFINE r == Tail(q)
  <1>2. DOMAIN r = 1 .. Len(r) /\ Len(r) \in Nat
    BY <1>1, LenProperties
  <1> HIDE DEF r
  <1>3. /\ \A i \in DOMAIN r : i + 1 \in DOMAIN q /\ r[i] = q[i + 1]
        /\ \A k \in DOMAIN q : k # 1 => k - 1 \in DOMAIN r /\ r[k - 1] = q[k]
    BY <1>1 DEF r
  <1>4. \A i \in DOMAIN r : i \in Nat /\ i + 1 # 1 /\ 1 < i + 1
    BY <1>2
  <1>5. \A k \in DOMAIN q : k \in Nat /\ (k # 1 => 1 < k)
    BY <1>1
  <1>6. \A i \in DOMAIN r : \E k \in DOMAIN q : k # 1 /\ r[i] = q[k]
    BY <1>3, <1>4
  <1>7. ASSUME NEW i \in DOMAIN r, NEW j \in DOMAIN r, i < j
        PROVE  \E k, l \in DOMAIN q : k < l /\ k # 1 /\ l # 1 /\ r[i] = q[k] /\ r[j] = q[l]
    <2>1. i + 1 < j + 1 /\ i + 1 # 1 /\ j + 1 # 1
      BY <1>4, <1>7
    <2> QED
      BY <1>3, <2>1
  <1>8. ASSUME NEW k \in DOMAIN q, k # 1
        PROVE  \E i \in DOMAIN r : /\ r[i] = q[k]
                                   /\ \A j \in DOMAIN r : i < j =>
                                        \E l \in DOMAIN q : k < l /\ r[j] = q[l]
    <2>1. ASSUME NEW j \in DOMAIN r, k - 1 < j
          PROVE  \E l \in DOMAIN q : k < l /\ r[j] = q[l]
      <3>1. k < j + 1
        BY <1>4, <1>5, <2>1
      <3> QED
        BY <1>3, <3>1
    <2> QED
      BY <1>3, <1>8, <2>1
  <1>9. 1 \in DOMAIN q /\ Head(q) = q[1] /\ \A k \in DOMAIN q : k # 1 => 1 < k
    BY <1>1, <1>5
  <1> QED
    BY <1>6, <1>7, <1>8, <1>9 DEF r

\* What is left is in its order, and is of the same book.
LEMMA RestKept ==
    ASSUME NEW a, NEW q \in Seq(Commands), q # <<>>, NEW ev, Core(a, q, ev),
           ~Load(Head(q)) \/ a.request # Head(q).id
    PROVE  /\ InOrder(Tail(q), a.request) /\ RowOrder(Tail(q), ev, a.picks)
           /\ SameBook(a, Tail(q), ev) /\ Leaving(a, Tail(q), ev)
           /\ Pending(a, Tail(q), ev)
  <1> DEFINE r == Tail(q)
  <1>1. /\ 1 \in DOMAIN q /\ Head(q) = q[1]
        /\ \A i \in DOMAIN r : \E k \in DOMAIN q : k # 1 /\ r[i] = q[k]
        /\ \A i, j \in DOMAIN r : i < j =>
             \E k, l \in DOMAIN q : k < l /\ k # 1 /\ l # 1 /\ r[i] = q[k] /\ r[j] = q[l]
        /\ \A k \in DOMAIN q : k # 1 => \E i \in DOMAIN r : r[i] = q[k]
    BY RestHas
  <1>0. DOMAIN r \subseteq Int /\ DOMAIN q \subseteq Int
    BY TailHas, LenProperties
  <1> HIDE DEF r
  <1>2. InOrder(r, a.request)
    <2>1. \A i \in DOMAIN r : Load(r[i]) => r[i].id <= a.request
      BY <1>1 DEF Core, InOrder
    <2>2. \A i, j \in DOMAIN r : i < j /\ Load(r[i]) /\ Load(r[j]) => r[i].id < r[j].id
      BY <1>1 DEF Core, InOrder
    <2>3. ASSUME NEW i \in DOMAIN r, Load(r[i])
          PROVE  \E j \in DOMAIN r : Load(r[j]) /\ r[j].id = a.request
      <3>1. PICK l \in DOMAIN q : Load(q[l]) /\ q[l].id = a.request
        BY <1>1, <2>3 DEF Core, InOrder
      <3>2. l # 1
        BY <1>1, <3>1
      <3> QED
        BY <1>1, <3>1, <3>2
    <2> QED
      BY <2>1, <2>2, <2>3 DEF InOrder
  <1>3. SameBook(a, r, ev)
    BY <1>1 DEF Core, SameBook
  <1>4. Leaving(a, r, ev)
    <2>1. ASSUME \A k, l \in DOMAIN q : Load(q[k]) /\ Load(q[l]) => k = l
          PROVE  \A i, j \in DOMAIN r : Load(r[i]) /\ Load(r[j]) => i = j
      <3>1. ASSUME NEW i \in DOMAIN r, NEW j \in DOMAIN r, Load(r[i]), Load(r[j]), i < j
            PROVE  FALSE
        <4>1. PICK k \in DOMAIN q, l \in DOMAIN q : k < l /\ r[i] = q[k] /\ r[j] = q[l]
          BY <1>1, <3>1
        <4> QED
          BY <1>0, <2>1, <3>1, <4>1
      <3> QED
        BY <1>0, <3>1
    <2>2. ASSUME \A k \in DOMAIN q : ~Load(q[k]) PROVE \A i \in DOMAIN r : ~Load(r[i])
      BY <1>1, <2>2
    <2> QED
      BY <2>1, <2>2 DEF Core, Leaving
  <1>5. Pending(a, r, ev)
    <2>1. ASSUME NEW k \in DOMAIN q, Load(q[k]) PROVE Loading(r)
      <3>1. PICK l \in DOMAIN q : Load(q[l]) /\ q[l].id = a.request
        BY <2>1 DEF Core, InOrder
      <3>2. l # 1
        BY <1>1, <3>1
      <3> QED
        BY <1>1, <3>1, <3>2 DEF Loading
    <2> QED
      BY <2>1 DEF Core, Pending, Loading
  <1>6. RowOrder(r, ev, a.picks)
    BY <1>1 DEF Core, RowOrder
  <1> QED
    BY <1>2, <1>3, <1>4, <1>5, <1>6 DEF r

\* A record, or a request that lost to a newer one: nothing is answered.
LEMMA TakeQuiet ==
    ASSUME NEW a, NEW q \in Seq(Commands), q # <<>>, NEW ev, Core(a, q, ev),
           \/ Head(q).op = "progress"
           \/ Load(Head(q)) /\ Head(q).id # a.request
    PROVE  Core(a, Tail(q), ev)
  <1>1. Head(q).op # "choose" /\ (~Load(Head(q)) \/ a.request # Head(q).id)
    BY DEF Load
  <1>2. Picked(a, Tail(q), ev)
    <2> DEFINE r == Tail(q)
    <2>1. /\ Head(q) = q[1]
          /\ \A i \in DOMAIN r : \E k \in DOMAIN q : k # 1 /\ r[i] = q[k]
          /\ \A k \in DOMAIN q : k # 1 =>
               \E i \in DOMAIN r : /\ r[i] = q[k]
                                   /\ \A j \in DOMAIN r : i < j =>
                                        \E l \in DOMAIN q : k < l /\ r[j] = q[l]
      BY RestHas
    <2> HIDE DEF r
    <2>2. ASSUME NEW k \in DOMAIN q, q[k].op = "choose", q[k].id = a.picking,
                 \A l \in DOMAIN q : k < l => q[l].op = "progress"
          PROVE  \E i \in DOMAIN r : /\ r[i].op = "choose" /\ r[i].id = a.picking
                                     /\ \A j \in DOMAIN r : i < j => r[j].op = "progress"
      <3>1. k # 1
        BY <1>1, <2>1, <2>2
      <3>2. PICK i \in DOMAIN r : /\ r[i] = q[k]
                                  /\ \A j \in DOMAIN r : i < j =>
                                       \E l \in DOMAIN q : k < l /\ r[j] = q[l]
        BY <2>1, <3>1
      <3> QED
        BY <2>2, <3>2
    <2>3. (\A k \in DOMAIN q : q[k].op = "progress") => \A i \in DOMAIN r : r[i].op = "progress"
      BY <2>1
    <2>4. Picked(a, r, ev)
      BY <2>2, <2>3 DEF Core, Picked
    <2> QED
      BY <2>4 DEF r
  <1> QED
    BY <1>1, <1>2, RestKept DEF Core

\* A load that is answered: its book's event is on the way.
LEMMA TakeAnswered ==
    ASSUME NEW a, NEW q \in Seq(Commands), q # <<>>, NEW ev \in Seq(Events), Core(a, q, ev),
           Load(Head(q)), NEW e \in Events, IsSettle(e), e.book = Head(q).book
    PROVE  Core(a, Tail(q), Append(ev, e))
  <1> DEFINE r == Tail(q)
             m == Len(ev) + 1
             w == Append(ev, e)
  <1>1. /\ 1 \in DOMAIN q /\ Head(q) = q[1] /\ Head(q) \in Commands
        /\ \A k \in DOMAIN q : k # 1 => 1 < k
        /\ \A i \in DOMAIN r : \E k \in DOMAIN q : k # 1 /\ r[i] = q[k]
        /\ \A i, j \in DOMAIN r : i < j =>
             \E k, l \in DOMAIN q : k < l /\ k # 1 /\ l # 1 /\ r[i] = q[k] /\ r[j] = q[l]
        /\ \A k \in DOMAIN q : k # 1 => \E i \in DOMAIN r : r[i] = q[k]
    BY RestHas, TailHas
  <1>2. /\ m \in DOMAIN w /\ w[m] = e
        /\ \A i \in DOMAIN w : i = m \/ (i \in DOMAIN ev /\ w[i] = ev[i])
        /\ m \notin DOMAIN ev
    BY AppendHas
  <1>3. /\ Load(q[1]) /\ q[1].id \in Nat /\ e.book = q[1].book /\ ~IsRow(e)
        /\ q[1].op # "progress" /\ q[1].op # "choose"
    BY <1>1, CommandHas DEF Load, IsSettle, IsRow
  <1> HIDE DEF r, m, w
  <1>4. InOrder(q, a.request) /\ SameBook(a, q, ev) /\ Leaving(a, q, ev)
        /\ Picked(a, q, ev) /\ RowOrder(q, ev, a.picks)
    BY DEF Core
  <1>5. InOrder(r, a.request)
    <2>1. \A i \in DOMAIN r : Load(r[i]) => r[i].id <= a.request
      BY <1>1, <1>4 DEF InOrder
    <2>2. \A i, j \in DOMAIN r : i < j /\ Load(r[i]) /\ Load(r[j]) => r[i].id < r[j].id
      BY <1>1, <1>4 DEF InOrder
    <2>3. ASSUME NEW i \in DOMAIN r, Load(r[i])
          PROVE  \E j \in DOMAIN r : Load(r[j]) /\ r[j].id = a.request
      <3>1. PICK k \in DOMAIN q : k # 1 /\ r[i] = q[k]
        BY <1>1, <2>3
      <3>2. q[1].id < q[k].id /\ q[k].id <= a.request
        BY <1>1, <1>3, <1>4, <2>3, <3>1 DEF InOrder
      <3>3. q[k].id \in Nat
        BY <2>3, <3>1, CommandHas, ElementOfSeq, LenProperties DEF Load
      <3>4. q[1].id # a.request
        <4>1. ASSUME q[1].id = a.request PROVE FALSE
          BY <1>3, <3>2, <3>3, <4>1
        <4> QED
          BY <4>1
      <3>5. PICK l \in DOMAIN q : Load(q[l]) /\ q[l].id = a.request
        BY <1>4, <2>3, <3>1 DEF InOrder
      <3> QED
        BY <1>1, <3>4, <3>5
    <2> QED
      BY <2>1, <2>2, <2>3 DEF InOrder
  <1>6. SameBook(a, r, w)
    <2>1. e.book = a.book
      BY <1>1, <1>3, <1>4 DEF SameBook
    <2> QED
      BY <1>1, <1>2, <1>4, <2>1 DEF SameBook
  <1>7. Leaving(a, r, w)
    <2>1. ASSUME a.rollback # None, a.rollback.book # a.book
          PROVE  /\ \A k \in DOMAIN q : Load(q[k]) => k = 1
                 /\ \A k \in DOMAIN ev : ~IsSettle(ev[k])
      BY <1>1, <1>3, <1>4, <2>1 DEF Leaving
    <2>2. ASSUME a.rollback # None, a.rollback.book # a.book
          PROVE  /\ \A i \in DOMAIN r : ~Load(r[i])
                 /\ \A i \in DOMAIN w : IsSettle(w[i]) => i = m
      BY <1>1, <1>2, <2>1, <2>2
    <2> QED
      BY <1>4, <2>2 DEF Leaving
  <1>8. Pending(a, r, w)
    BY <1>2 DEF Pending, Settling
  <1>9. Picked(a, r, w)
    <2>0. /\ 1 \in DOMAIN q /\ Head(q) = q[1]
          /\ \A i \in DOMAIN r : \E k \in DOMAIN q : k # 1 /\ r[i] = q[k]
          /\ \A k \in DOMAIN q : k # 1 =>
               \E i \in DOMAIN r : /\ r[i] = q[k]
                                   /\ \A j \in DOMAIN r : i < j =>
                                        \E l \in DOMAIN q : k < l /\ r[j] = q[l]
      BY RestHas DEF r
    <2>1. ASSUME a.picking # NoPick
          PROVE  \E k \in DOMAIN q : /\ q[k].op = "choose" /\ q[k].id = a.picking
                                     /\ \A j \in DOMAIN q : k < j => q[j].op = "progress"
      BY <1>1, <1>3, <1>4, <2>1 DEF Picked
    <2>2. ASSUME a.picking # NoPick
          PROVE  \E i \in DOMAIN r : /\ r[i].op = "choose" /\ r[i].id = a.picking
                                     /\ \A j \in DOMAIN r : i < j => r[j].op = "progress"
      <3>1. PICK k \in DOMAIN q : /\ q[k].op = "choose" /\ q[k].id = a.picking
                                  /\ \A j \in DOMAIN q : k < j => q[j].op = "progress"
        BY <2>1, <2>2
      <3>2. k # 1
        BY <1>3, <3>1
      <3>3. PICK i \in DOMAIN r : /\ r[i] = q[k]
                                  /\ \A j \in DOMAIN r : i < j =>
                                       \E l \in DOMAIN q : k < l /\ r[j] = q[l]
        BY <2>0, <3>2
      <3> QED
        BY <3>1, <3>3
    <2> QED
      BY <1>4, <2>2 DEF Picked
  <1>10. RowOrder(r, w, a.picks)
    <2>1. \A i \in DOMAIN w : IsRow(w[i]) => i \in DOMAIN ev /\ w[i] = ev[i]
      BY <1>2, <1>3
    <2> QED
      BY <1>1, <1>4, <2>1 DEF RowOrder
  <1> QED
    BY <1>5, <1>6, <1>7, <1>8, <1>9, <1>10 DEF Core, r, w

\* A pick that is answered: its row is on the way, after every other.
LEMMA TakeRow ==
    ASSUME NEW a, NEW q \in Seq(Commands), q # <<>>, NEW ev \in Seq(Events), Core(a, q, ev),
           Head(q).op = "choose", NEW e \in Events, IsRow(e), e.id = Head(q).id
    PROVE  Core(a, Tail(q), Append(ev, e))
  <1> DEFINE r == Tail(q)
             m == Len(ev) + 1
             w == Append(ev, e)
  <1>1. /\ 1 \in DOMAIN q /\ Head(q) = q[1]
        /\ \A k \in DOMAIN q : k # 1 => 1 < k
        /\ \A i \in DOMAIN r : \E k \in DOMAIN q : k # 1 /\ r[i] = q[k]
        /\ \A k \in DOMAIN q : k # 1 =>
             \E i \in DOMAIN r : /\ r[i] = q[k]
                                 /\ \A j \in DOMAIN r : i < j =>
                                      \E l \in DOMAIN q : k < l /\ r[j] = q[l]
    BY RestHas
  <1>2. /\ m \in DOMAIN w /\ w[m] = e /\ Len(w) = m
        /\ \A i \in DOMAIN w : i = m \/ (i \in DOMAIN ev /\ w[i] = ev[i] /\ i < m)
        /\ \A i \in DOMAIN w : ~(m < i)
        /\ m \notin DOMAIN ev /\ \A i \in DOMAIN ev : i \in DOMAIN w /\ w[i] = ev[i]
    BY AppendHas
  <1>3. q[1].op = "choose" /\ e.id = q[1].id /\ ~IsSettle(e) /\ ~Load(q[1])
    BY <1>1 DEF Load, IsSettle, IsRow
  <1>4. /\ InOrder(r, a.request) /\ RowOrder(r, ev, a.picks)
        /\ SameBook(a, r, ev) /\ Leaving(a, r, ev) /\ Pending(a, r, ev)
    BY <1>1, <1>3, RestKept DEF r
  <1>5. Picked(a, q, ev) /\ RowOrder(q, ev, a.picks)
    BY DEF Core
  <1> HIDE DEF r, m, w
  <1>6. \A i \in DOMAIN w : IsSettle(w[i]) => i \in DOMAIN ev /\ w[i] = ev[i]
    BY <1>2, <1>3
  <1>7. SameBook(a, r, w)
    BY <1>4, <1>6 DEF SameBook
  <1>8. Leaving(a, r, w)
    BY <1>4, <1>6 DEF Leaving
  <1>9. Pending(a, r, w)
    BY <1>2, <1>4 DEF Pending, Settling
  <1>10. Picked(a, r, w)
    <2>1. ASSUME NEW k \in DOMAIN q, q[k].op = "choose", q[k].id = a.picking,
                 \A j \in DOMAIN q : k < j => q[j].op = "progress"
          PROVE  \/ \E i \in DOMAIN r : /\ r[i].op = "choose" /\ r[i].id = a.picking
                                        /\ \A j \in DOMAIN r : i < j => r[j].op = "progress"
                 \/ /\ \A j \in DOMAIN r : r[j].op = "progress"
                    /\ w[m].id = a.picking
      <3>1. CASE k = 1
        BY <1>1, <1>2, <1>3, <2>1, <3>1
      <3>2. CASE k # 1
        <4>1. PICK i \in DOMAIN r : /\ r[i] = q[k]
                                    /\ \A j \in DOMAIN r : i < j =>
                                         \E l \in DOMAIN q : k < l /\ r[j] = q[l]
          BY <1>1, <3>2
        <4> QED
          BY <2>1, <4>1
      <3> QED
        BY <3>1, <3>2
    <2>2. a.picking # NoPick =>
            \E k \in DOMAIN q : /\ q[k].op = "choose" /\ q[k].id = a.picking
                                /\ \A j \in DOMAIN q : k < j => q[j].op = "progress"
      BY <1>1, <1>3, <1>5 DEF Picked
    <2> QED
      BY <1>2, <1>5, <2>1, <2>2 DEF Picked
  <1>11. RowOrder(r, w, a.picks)
    <2>1. e.id \in 1 .. a.picks
      BY <1>1, <1>3, <1>5 DEF RowOrder
    <2>2. \A i \in DOMAIN w : IsRow(w[i]) => w[i].id \in 1 .. a.picks
      BY <1>2, <1>5, <2>1 DEF RowOrder
    <2>3. \A i \in DOMAIN ev : IsRow(ev[i]) => ev[i].id < e.id
      BY <1>1, <1>3, <1>5 DEF RowOrder
    <2>4. \A j \in DOMAIN r : r[j].op = "choose" => e.id < r[j].id
      BY <1>1, <1>3, <1>5 DEF RowOrder
    <2>5. \A i, j \in DOMAIN w : IsRow(w[i]) /\ IsRow(w[j]) /\ i < j => w[i].id < w[j].id
      <3>1. ASSUME NEW i \in DOMAIN w, NEW j \in DOMAIN w, IsRow(w[i]), IsRow(w[j]), i < j
            PROVE  w[i].id < w[j].id
        <4>1. i \in DOMAIN ev /\ w[i] = ev[i]
          BY <1>2, <3>1
        <4>2. CASE j = m
          BY <1>2, <2>3, <3>1, <4>1, <4>2
        <4>3. CASE j # m
          BY <1>2, <1>5, <3>1, <4>1, <4>3 DEF RowOrder
        <4> QED
          BY <4>2, <4>3
      <3> QED
        BY <3>1
    <2>6. \A i \in DOMAIN w, j \in DOMAIN r : IsRow(w[i]) /\ r[j].op = "choose" =>
                                               w[i].id < r[j].id
      BY <1>2, <1>4, <2>4 DEF RowOrder
    <2> QED
      BY <1>4, <2>2, <2>5, <2>6 DEF RowOrder
  <1> QED
    BY <1>4, <1>7, <1>8, <1>9, <1>10, <1>11 DEF Core, r, w
-----------------------------------------------------------------------------
(***************************************************************************)
(* What the app makes of an event.                                         *)
(***************************************************************************)
\* An event less, when no open and no pick is answered by it.
LEMMA EventGone ==
    ASSUME NEW a, NEW q \in Seq(Commands), NEW ev \in Seq(Events), ev # <<>>, Core(a, q, ev)
    PROVE  /\ InOrder(q, a.request) /\ RowOrder(q, Tail(ev), a.picks)
           /\ SameBook(a, q, Tail(ev)) /\ Leaving(a, q, Tail(ev))
           /\ IsSettle(Head(ev)) => Head(ev).book = a.book
           /\ (~IsRow(Head(ev)) \/ Head(ev).id # a.picking) => Picked(a, q, Tail(ev))
           /\ ~IsSettle(Head(ev)) => Pending(a, q, Tail(ev))
  <1> DEFINE w == Tail(ev)
  <1>1. /\ 1 \in DOMAIN ev /\ Head(ev) = ev[1]
        /\ \A i \in DOMAIN w : \E k \in DOMAIN ev : k # 1 /\ w[i] = ev[k]
        /\ \A i, j \in DOMAIN w : i < j =>
             \E k, l \in DOMAIN ev : k < l /\ k # 1 /\ l # 1 /\ w[i] = ev[k] /\ w[j] = ev[l]
        /\ \A k \in DOMAIN ev : k # 1 => \E i \in DOMAIN w : w[i] = ev[k]
    BY RestHas
  <1>2. /\ DOMAIN w \subseteq Int /\ DOMAIN ev \subseteq Int
        /\ DOMAIN w = 1 .. Len(w) /\ Len(w) \in Nat /\ Len(ev) \in DOMAIN ev
        /\ Len(w) = Len(ev) - 1
        /\ \A i \in DOMAIN w : w[i] = ev[i + 1]
    BY TailHas, LenProperties
  <1>3. SameBook(a, q, ev) /\ Leaving(a, q, ev) /\ Pending(a, q, ev)
        /\ Picked(a, q, ev) /\ RowOrder(q, ev, a.picks) /\ InOrder(q, a.request)
    BY DEF Core
  <1>4. Len(ev) # 1 => Len(w) \in DOMAIN w /\ w[Len(w)] = ev[Len(ev)]
    <2>1. Len(ev) # 1 => Len(w) \in DOMAIN w /\ Len(w) + 1 = Len(ev)
      BY <1>1, <1>2, TailHas
    <2> QED
      BY <1>2, <2>1
  <1> HIDE DEF w
  <1>5. SameBook(a, q, w)
    BY <1>1, <1>3 DEF SameBook
  <1>6. Leaving(a, q, w)
    <2>1. ASSUME NEW i \in DOMAIN w, NEW j \in DOMAIN w, i < j, IsSettle(w[i]), IsSettle(w[j])
          PROVE  \E k, l \in DOMAIN ev : k # l /\ IsSettle(ev[k]) /\ IsSettle(ev[l])
      <3>1. PICK k \in DOMAIN ev, l \in DOMAIN ev : k < l /\ w[i] = ev[k] /\ w[j] = ev[l]
        BY <1>1, <2>1
      <3> QED
        BY <1>2, <2>1, <3>1
    <2>2. ASSUME a.rollback # None, a.rollback.book # a.book, NEW i \in DOMAIN w, IsSettle(w[i])
          PROVE  /\ \A k \in DOMAIN q : ~Load(q[k])
                 /\ \A j \in DOMAIN w : IsSettle(w[j]) => i = j
      <3>1. PICK k \in DOMAIN ev : w[i] = ev[k]
        BY <1>1, <2>2
      <3>2. /\ \A l \in DOMAIN q : ~Load(q[l])
            /\ \A l \in DOMAIN ev : IsSettle(ev[l]) => k = l
        BY <1>3, <2>2, <3>1 DEF Leaving
      <3>3. \A j \in DOMAIN w : IsSettle(w[j]) => ~(i < j) /\ ~(j < i)
        BY <2>1, <2>2, <3>2
      <3> QED
        BY <1>2, <3>2, <3>3
    <2> QED
      BY <1>3, <2>2 DEF Leaving
  <1>7. ASSUME ~IsRow(ev[1]) \/ ev[1].id # a.picking PROVE Picked(a, q, w)
    <2>1. ASSUME IsRow(ev[Len(ev)]), ev[Len(ev)].id = a.picking
          PROVE  Len(w) \in DOMAIN w /\ w[Len(w)] = ev[Len(ev)]
      BY <1>4, <1>7, <2>1
    <2> QED
      BY <1>3, <2>1 DEF Picked
  <1>8. ASSUME ~IsSettle(ev[1]) PROVE Pending(a, q, w)
    BY <1>1, <1>3, <1>8 DEF Pending, Settling
  <1>9. RowOrder(q, w, a.picks)
    BY <1>1, <1>3 DEF RowOrder
  <1> QED
    BY <1>1, <1>3, <1>5, <1>6, <1>7, <1>8, <1>9 DEF SameBook, w

\* An answer about the book the reader is in ends the wait of its open.
LEMMA Answers ==
    ASSUME NEW a, NEW q, NEW ev \in Seq(Events), ev # <<>>, Core(a, q, ev), IsSettle(Head(ev)),
           NEW b, b.request = a.request, b.picks = a.picks, b.book = a.book, b.view = a.view,
           b.picking = a.picking,
           a.opening = Head(ev).book => b.opening = None /\ b.rollback = None,
           a.opening # Head(ev).book => b.opening = a.opening /\ b.rollback = a.rollback
    PROVE  b.opening = None /\ b.rollback = None
  <1>1. Head(ev).book = a.book
    <2>1. 1 \in DOMAIN ev /\ Head(ev) = ev[1]
      BY TailHas
    <2> QED
      BY <2>1 DEF Core, SameBook
  <1>2. a.opening # None => a.opening = Head(ev).book
    BY <1>1 DEF Core, SameBook
  <1>3. a.opening = None => a.rollback = None
    BY DEF Core, Leaving
  <1> QED
    BY <1>2, <1>3

\* With the wait over, what is left is in order.
LEMMA ReceiveAnswer ==
    ASSUME NEW a, NEW q \in Seq(Commands), NEW ev \in Seq(Events), ev # <<>>, Core(a, q, ev),
           IsSettle(Head(ev)),
           NEW b, b.request = a.request, b.picks = a.picks, b.book = a.book, b.view = a.view,
           b.picking = a.picking, b.opening = None, b.rollback = None
    PROVE  Core(b, q, Tail(ev))
  <1>1. ~IsRow(Head(ev))
    BY DEF IsSettle, IsRow
  <1>2. /\ InOrder(q, a.request) /\ RowOrder(q, Tail(ev), a.picks)
        /\ SameBook(a, q, Tail(ev)) /\ Picked(a, q, Tail(ev))
    BY <1>1, EventGone
  <1>3. SameBook(b, q, Tail(ev))
    BY <1>2 DEF SameBook
  <1>4. Picked(b, q, Tail(ev))
    BY <1>2 DEF Picked
  <1> QED
    BY <1>2, <1>3, <1>4 DEF Core, Leaving, Pending

\* A refused open takes the reader back: nothing was asked for beside it.
LEMMA ReceiveRefusal ==
    ASSUME NEW a, NEW q \in Seq(Commands), NEW ev \in Seq(Events), ev # <<>>, Core(a, q, ev),
           IsSettle(Head(ev)), a.rollback # None,
           NEW b, b.request = a.request, b.picks = a.picks, b.book = a.rollback.book,
           b.view = a.rollback.view, b.picking = a.picking, b.opening = None, b.rollback = None
    PROVE  Core(b, q, Tail(ev))
  <1>1. ~IsRow(Head(ev))
    BY DEF IsSettle, IsRow
  <1>2. /\ InOrder(q, a.request) /\ RowOrder(q, Tail(ev), a.picks)
        /\ SameBook(a, q, Tail(ev)) /\ Picked(a, q, Tail(ev))
    BY <1>1, EventGone
  <1>3. b.view = "shelf"
    BY DEF Core, Leaving
  <1>4. Picked(b, q, Tail(ev))
    BY <1>2, <1>3 DEF Picked
  <1>5. SameBook(b, q, Tail(ev))
    <2>1. CASE a.rollback.book = a.book
      BY <1>2, <2>1 DEF SameBook
    <2>2. CASE a.rollback.book # a.book
      <3>1. /\ 1 \in DOMAIN ev /\ Head(ev) = ev[1]
            /\ \A i \in DOMAIN Tail(ev) : \E k \in DOMAIN ev : k # 1 /\ Tail(ev)[i] = ev[k]
        BY RestHas
      <3>2. /\ \A k \in DOMAIN q : ~Load(q[k])
            /\ \A k \in DOMAIN ev : IsSettle(ev[k]) => k = 1
        BY <2>2, <3>1 DEF Core, Leaving
      <3>3. \A i \in DOMAIN Tail(ev) : ~IsSettle(Tail(ev)[i])
        BY <3>1, <3>2
      <3> QED
        BY <3>2, <3>3 DEF SameBook
    <2> QED
      BY <2>1, <2>2
  <1> QED
    BY <1>2, <1>4, <1>5 DEF Core, Leaving, Pending

\* The row that is waited for is the last event, and nothing is asked for
\* behind it.
LEMMA ReceivePick ==
    ASSUME NEW a, NEW q \in Seq(Commands), NEW ev \in Seq(Events), ev # <<>>, Core(a, q, ev),
           IsRow(Head(ev)), Head(ev).id = a.picking
    PROVE  /\ a.view = "shelf" /\ a.opening = None /\ a.rollback = None
           /\ ~Loading(q) /\ ~Settling(Tail(ev))
           /\ \A j \in DOMAIN q : q[j].op = "progress"
           /\ \A b : /\ b.request = a.request /\ b.picks = a.picks /\ b.book = a.book
                     /\ b.opening = None /\ b.rollback = None /\ b.picking = NoPick
                     => Core(b, q, Tail(ev))
  <1>1. 1 \in DOMAIN ev /\ Head(ev) = ev[1] /\ DOMAIN ev = 1 .. Len(ev) /\ Len(ev) \in Nat
        /\ DOMAIN Tail(ev) = 1 .. Len(Tail(ev)) /\ Len(Tail(ev)) = Len(ev) - 1
    BY TailHas, LenProperties
  <1>2. /\ Picked(a, q, ev) /\ RowOrder(q, ev, a.picks) /\ Leaving(a, q, ev)
        /\ Pending(a, q, ev)
    BY DEF Core
  <1>3. ev[1].id \in 1 .. a.picks
    BY <1>1, <1>2 DEF RowOrder
  <1>4. a.picking # NoPick /\ ev[1].id = a.picking /\ a.picking \in Int
    BY <1>1, <1>3 DEF NoPick
  <1>5. \A i \in DOMAIN q : q[i].op = "choose" => q[i].id # a.picking
    <2>1. ASSUME NEW i \in DOMAIN q, q[i].op = "choose", q[i].id = a.picking PROVE FALSE
      <3>1. ev[1].id < q[i].id
        BY <1>1, <1>2, <2>1 DEF RowOrder
      <3> QED
        BY <1>4, <2>1, <3>1
    <2> QED
      BY <2>1
  <1>6. /\ a.view = "shelf" /\ \A j \in DOMAIN q : q[j].op = "progress"
        /\ Len(ev) \in DOMAIN ev /\ IsRow(ev[Len(ev)]) /\ ev[Len(ev)].id = a.picking
    BY <1>2, <1>4, <1>5 DEF Picked
  <1>7. Len(ev) = 1
    <2>1. ASSUME Len(ev) # 1 PROVE FALSE
      <3>1. 1 < Len(ev)
        BY <1>1, <2>1
      <3>2. ev[1].id < ev[Len(ev)].id
        BY <1>1, <1>2, <1>6, <3>1 DEF RowOrder
      <3> QED
        BY <1>4, <1>6, <3>2
    <2> QED
      BY <2>1
  <1>8. DOMAIN Tail(ev) = {} /\ DOMAIN ev = {1}
    <2> DEFINE w == Tail(ev)
    <2>0. DOMAIN w = 1 .. Len(w) /\ Len(w) = Len(ev) - 1 /\ DOMAIN ev = 1 .. Len(ev)
      BY <1>1
    <2> HIDE DEF w
    <2>3. Len(w) = 0
      BY <1>7, <2>0
    <2>1. DOMAIN w = 1 .. 0 /\ DOMAIN ev = 1 .. 1
      BY <1>7, <2>0, <2>3
    <2>2. 1 .. 0 = {} /\ 1 .. 1 = {1}
      OBVIOUS
    <2> QED
      BY <2>1, <2>2 DEF w
  <1>9. ~Loading(q) /\ ~Settling(Tail(ev)) /\ ~Settling(ev)
    BY <1>1, <1>6, <1>8 DEF Loading, Settling, Load, IsSettle, IsRow
  <1>10. a.opening = None /\ a.rollback = None
    BY <1>2, <1>9 DEF Pending, Leaving
  <1>11. /\ InOrder(q, a.request) /\ RowOrder(q, Tail(ev), a.picks)
         /\ SameBook(a, q, Tail(ev))
    BY EventGone
  <1>12. ASSUME NEW b, b.request = a.request, b.picks = a.picks, b.book = a.book,
                b.opening = None, b.rollback = None, b.picking = NoPick
         PROVE  Core(b, q, Tail(ev))
    <2>1. SameBook(b, q, Tail(ev))
      BY <1>11, <1>12 DEF SameBook
    <2> QED
      BY <1>11, <1>12, <2>1 DEF Core, Leaving, Pending, Picked
  <1> QED
    BY <1>6, <1>9, <1>10, <1>12
-----------------------------------------------------------------------------
(***************************************************************************)
(* The app's own steps.                                                    *)
(***************************************************************************)
\* A step of the app leaves it in order with the queue and the events ev, and
\* with a panel that shows sh.
Kept(ev, sh) ==
    \E a \in AppStates, q \in Seq(Commands) :
        /\ app' = a /\ sent' \o parked' = q
        /\ Core(a, q, ev) /\ FrameTrue(a, sh) /\ Gate(a)

\* A transition is in order when its command is, taken or not; its record and
\* its frame are always.
LEMMA CarryKept ==
    ASSUME AppOK, lost \in BOOLEAN, NEW b \in AppStates, NEW n \in AppStates,
           NEW c \in Commands \cup {None}, c # None => Load(c),
           Carry(b, n, c), n.again => n.frame # None, NEW ev, NEW sh,
           c = None => Core(n, Queue, ev),
           c # None => Core(AfterDispatch(b, n, c, FALSE), Queue, ev),
           c # None => \A r \in Seq(Commands) :
                         Queued(Queue, c, r) => Core(AfterDispatch(b, n, c, TRUE), r, ev)
    PROVE  Kept(ev, sh)
  <1>1. PICK a \in AppStates, r \in Seq(Commands) :
             /\ app' = Rendered(a)
             /\ parked' \in Seq(Commands) /\ sent' \in Seq(Commands)
             /\ \/ c = None /\ a = n /\ r = Queue
                \/ c # None /\ a = AfterDispatch(b, n, c, TRUE) /\ Queued(Queue, c, r)
                \/ c # None /\ a = AfterDispatch(b, n, c, FALSE) /\ r = Queue
             /\ \/ sent' \o parked' = r
                \/ \E w \in Commands : w.op = "progress" /\ Queued(r, w, sent' \o parked')
    BY CarryIs DEF AppOK
  <1>2. a.again => a.frame # None
    <2>1. ASSUME c # None, NEW taken \in BOOLEAN
          PROVE  LET d == AfterDispatch(b, n, c, taken) IN d.frame = n.frame /\ d.again = n.again
      BY <2>1, AfterIs
    <2>2. a.frame = n.frame /\ a.again = n.again
      BY <1>1, <2>1
    <2> QED
      BY <2>2
  <1>3. Core(a, r, ev)
    BY <1>1
  <1>4. PICK d \in AppStates : d = Rendered(a)
    BY <1>2, RenderedIs
  <1>5. Alike(a, d) /\ FrameTrue(d, sh) /\ Gate(d)
    BY <1>2, <1>4, RenderedIs
  <1>6. Core(d, r, ev)
    BY <1>3, <1>5, CoreAlike
  <1>7. PICK q \in Seq(Commands) : q = sent' \o parked'
    BY <1>1, ConcatProperties
  <1>8. Core(d, q, ev)
    <2>1. CASE q = r
      BY <1>6, <2>1
    <2>2. CASE \E w \in Commands : w.op = "progress" /\ Queued(r, w, q)
      BY <1>6, <2>2, AddProgress
    <2> QED
      BY <1>1, <1>7, <2>1, <2>2
  <1> QED
    BY <1>1, <1>4, <1>5, <1>7, <1>8 DEF Kept

LEMMA QueueIs ==
    ASSUME AppOK
    PROVE  Queue \in Seq(Commands)
  BY ConcatProperties DEF AppOK, Queue

\* A request that was taken.
LEMMA SentOn ==
    ASSUME NEW b \in AppStates, NEW n \in AppStates, NEW c \in Commands, Load(c)
    PROVE  \E d \in AppStates :
             /\ d = AfterDispatch(b, n, c, TRUE)
             /\ d.picks = n.picks /\ d.picking = n.picking
             /\ d.request = c.id /\ d.view = n.view /\ d.book = n.book
             /\ ~IsOpen(c) => d.opening = n.opening /\ d.rollback = n.rollback
             /\ IsOpen(c) => d.opening = c.book /\ d.rollback = Rollback(b)
  <1> DEFINE d == AfterDispatch(b, n, c, TRUE)
  <1>1. d \in AppStates
    BY AfterIs
  <1>2. d.picks = n.picks /\ d.picking = n.picking
    BY AfterIs
  <1>3. d.request = c.id /\ d.view = n.view /\ d.book = n.book
    BY AfterIs
  <1>4. ~IsOpen(c) => d.opening = n.opening /\ d.rollback = n.rollback
    BY AfterIs
  <1>5. IsOpen(c) => d.opening = c.book /\ d.rollback = Rollback(b)
    BY AfterIs
  <1> HIDE DEF d
  <1> QED
    BY <1>1, <1>2, <1>3, <1>4, <1>5 DEF d

\* A request that found no room: an open leaves the reader where they were.
LEMMA NotSent ==
    ASSUME NEW b \in AppStates, NEW n \in AppStates, NEW c \in Commands, Load(c)
    PROVE  \E d \in AppStates :
             /\ d = AfterDispatch(b, n, c, FALSE)
             /\ d.picks = n.picks /\ d.picking = n.picking
             /\ d.request = n.request /\ d.opening = n.opening /\ d.rollback = n.rollback
             /\ ~IsOpen(c) => d = n
             /\ IsOpen(c) => d.view = b.view /\ d.book = b.book
  <1> DEFINE d == AfterDispatch(b, n, c, FALSE)
  <1>1. d \in AppStates
    BY AfterIs
  <1>2. d.picks = n.picks /\ d.picking = n.picking
    BY AfterIs
  <1>3. ~IsOpen(c) => d = n
    BY AfterIs
  <1>4. IsOpen(c) => d.view = b.view /\ d.book = b.book
    BY AfterIs
  <1>5. IsOpen(c) => d.request = n.request /\ d.opening = n.opening /\ d.rollback = n.rollback
    BY AfterIs
  <1>6. d.request = n.request /\ d.opening = n.opening /\ d.rollback = n.rollback
    BY <1>3, <1>5
  <1> HIDE DEF d
  <1> QED
    BY <1>1, <1>2, <1>3, <1>4, <1>6 DEF d

\* A turn, a walk back, and an open of the book the reader is in.
LEMMA AppStepKept ==
    ASSUME TypeOK, AppStep, Core(app, Queue, events), FrameTrue(app, shown), Gate(app)
    PROVE  Kept(events, shown)
  <1>0. AppOK /\ lost \in BOOLEAN /\ Queue \in Seq(Commands) /\ events \in Seq(Events)
    BY QueueIs DEF TypeOK, AppOK
  <1>1. PICK a \in AppStates : a = app
    BY <1>0 DEF AppOK
  <1>2. PICK q \in Seq(Commands) : q = Queue
    BY <1>0
  <1>3. a.book \in Books /\ a.page \in Pages /\ a.request \in Nat /\ a.picks \in Nat
    BY AppHas
  <1>4. PICK ev \in Seq(Events) : ev = events
    BY <1>0
  <1>5. Core(a, q, ev) /\ (a.again => a.frame # None)
    BY <1>1, <1>2, <1>4 DEF FrameTrue
  <1>6. Ready => a.opening = None
    BY <1>1 DEF Ready
  <1>7. ASSUME NEW p \in Pages, TurnPage(p) PROVE Kept(ev, shown)
    <2> DEFINE n == [a EXCEPT !.page = p]
               c == ExtendSection(a.request + 1, a.book, p)
    <2>1. n \in AppStates /\ Alike(a, n) /\ n.frame = a.frame /\ n.again = a.again
      BY DEF AppStates, Alike
    <2>2. Carry(a, n, c) /\ a.view = "reading" /\ a.opening = None
      BY <1>1, <1>6, <1>7 DEF TurnPage
    <2>3. c \in Commands /\ Load(c) /\ ~IsOpen(c) /\ c.id = a.request + 1 /\ c.book = a.book
      BY <1>3, RequestIs
    <2>4. a.picking = NoPick
      BY <1>5, <2>2 DEF Core, Picked
    <2> HIDE DEF n, c
    <2>5. c # None
      BY <2>3, CommandHas
    <2>6. Core(AfterDispatch(a, n, c, FALSE), q, ev)
      <3>1. PICK d \in AppStates : d = AfterDispatch(a, n, c, FALSE) /\ d = n
        BY <2>1, <2>3, NotSent
      <3> QED
        BY <1>5, <2>1, <3>1, CoreAlike
    <2>7. ASSUME NEW r \in Seq(Commands), Queued(q, c, r)
          PROVE  Core(AfterDispatch(a, n, c, TRUE), r, ev)
      <3>1. PICK d \in AppStates :
               /\ d = AfterDispatch(a, n, c, TRUE)
               /\ d.picks = n.picks /\ d.picking = n.picking /\ d.request = c.id
               /\ d.view = n.view /\ d.book = n.book
               /\ d.opening = n.opening /\ d.rollback = n.rollback
        BY <2>1, <2>3, SentOn
      <3>2. /\ d.picks = a.picks /\ d.book = a.book
            /\ d.opening = None /\ d.rollback = a.rollback /\ d.picking = NoPick
        BY <2>1, <2>2, <2>4, <3>1 DEF Alike
      <3> QED
        BY <1>3, <1>5, <2>2, <2>3, <2>4, <2>7, <3>1, <3>2, AddExtend
    <2> QED
      BY <1>0, <1>2, <1>5, <2>1, <2>2, <2>3, <2>5, <2>6, <2>7, CarryKept
  <1>8. ASSUME ReadOn PROVE Kept(ev, shown)
    <2> DEFINE n == [a EXCEPT !.view = "reading"]
               c == OpenBook(a.request + 1, a.book, a.page, None, FALSE, ~a.counted)
    <2>1. /\ n \in AppStates /\ n.frame = a.frame /\ n.again = a.again
          /\ n.request = a.request /\ n.picks = a.picks /\ n.book = a.book
          /\ n.opening = a.opening /\ n.rollback = a.rollback /\ n.picking = a.picking
      BY DEF AppStates, Views
    <2>2. Carry(a, n, c) /\ a.view = "shelf" /\ a.opening = None /\ a.picking = NoPick
      BY <1>1, <1>6, <1>8 DEF ReadOn
    <2>3. c \in Commands /\ Load(c) /\ IsOpen(c) /\ c.id = a.request + 1 /\ c.book = a.book
      <3>1. None \in Spots \cup {None} /\ FALSE \in BOOLEAN /\ (~a.counted) \in BOOLEAN
        OBVIOUS
      <3>2. c \in Commands /\ Load(c)
        BY <1>3, <3>1, RequestIs
      <3>3. IsOpen(c)
        BY <1>3, <3>1, RequestIs
      <3>4. c.id = a.request + 1 /\ c.book = a.book
        BY DEF OpenBook
      <3> QED
        BY <3>2, <3>3, <3>4
    <2> HIDE DEF n, c
    <2>5. c # None
      BY <2>3, CommandHas
    <2>6. Core(AfterDispatch(a, n, c, FALSE), q, ev)
      <3>1. PICK d \in AppStates :
               /\ d = AfterDispatch(a, n, c, FALSE)
               /\ d.picks = n.picks /\ d.picking = n.picking
               /\ d.request = n.request /\ d.opening = n.opening /\ d.rollback = n.rollback
               /\ d.view = a.view /\ d.book = a.book
        BY <2>1, <2>3, NotSent
      <3>2. Alike(a, d)
        BY <2>1, <3>1 DEF Alike
      <3> QED
        BY <1>5, <3>1, <3>2, CoreAlike
    <2>7. ASSUME NEW r \in Seq(Commands), Queued(q, c, r)
          PROVE  Core(AfterDispatch(a, n, c, TRUE), r, ev)
      <3>1. PICK d \in AppStates :
               /\ d = AfterDispatch(a, n, c, TRUE)
               /\ d.picks = n.picks /\ d.picking = n.picking /\ d.request = c.id
               /\ d.view = n.view /\ d.book = n.book
               /\ d.opening = c.book /\ d.rollback = Rollback(a)
        BY <2>1, <2>3, SentOn
      <3>2. d.picks = a.picks /\ d.book = c.book /\ d.picking = NoPick
        BY <2>1, <2>2, <2>3, <3>1
      <3>3. d.rollback.view = "shelf" /\ d.rollback.book = a.book
        BY <2>2, <3>1, AppHas
      <3> QED
        BY <1>3, <1>5, <2>3, <2>7, <3>1, <3>2, <3>3, AddOpen
    <2> QED
      BY <1>0, <1>2, <1>5, <2>1, <2>2, <2>3, <2>5, <2>6, <2>7, CarryKept
  <1>9. ASSUME NEW n \in AppStates, n.frame = a.frame, n.again = a.again,
               n.request = a.request, n.picks = a.picks, n.book = a.book,
               n.opening = None, a.opening = None, n.rollback = a.rollback,
               \/ n.picking = NoPick
               \/ n.picking = a.picking /\ n.view = "shelf",
               Carry(a, n, None)
        PROVE  Kept(ev, shown)
    <2>1. Picked(n, q, ev)
      BY <1>5, <1>9 DEF Core, Picked
    <2>2. SameBook(n, q, ev) /\ Leaving(n, q, ev) /\ Pending(n, q, ev)
      BY <1>5, <1>9 DEF Core, SameBook, Leaving, Pending
    <2>3. Core(n, q, ev)
      BY <1>5, <1>9, <2>1, <2>2 DEF Core
    <2> QED
      BY <1>0, <1>2, <1>5, <1>9, <2>3, CarryKept
  <1>10. ASSUME Leave PROVE Kept(ev, shown)
    <2> DEFINE n == [a EXCEPT !.view = "shelf"]
    <2>1. /\ n \in AppStates /\ n.frame = a.frame /\ n.again = a.again
          /\ n.request = a.request /\ n.picks = a.picks /\ n.book = a.book
          /\ n.opening = a.opening /\ n.rollback = a.rollback
          /\ n.picking = a.picking /\ n.view = "shelf"
      BY DEF AppStates, Views
    <2>2. Carry(a, n, None) /\ a.opening = None
      BY <1>1, <1>6, <1>10 DEF Leave
    <2> HIDE DEF n
    <2> QED
      BY <1>9, <2>1, <2>2
  <1>11. ASSUME WalkAway PROVE Kept(ev, shown)
    <2> DEFINE n == [a EXCEPT !.picking = NoPick]
    <2>1. /\ n \in AppStates /\ n.frame = a.frame /\ n.again = a.again
          /\ n.request = a.request /\ n.picks = a.picks /\ n.book = a.book
          /\ n.opening = a.opening /\ n.rollback = a.rollback
          /\ n.picking = NoPick
      BY DEF AppStates, NoPick
    <2>2. Carry(a, n, None) /\ a.opening = None
      BY <1>1, <1>6, <1>11 DEF WalkAway
    <2> HIDE DEF n
    <2> QED
      BY <1>9, <2>1, <2>2
  <1>12. ASSUME NEW b \in Books, Pick(b) PROVE Kept(ev, shown)
    <2> DEFINE c == ChooseRow(a.picks + 1, b)
               line == Dispatch(Line, c)
               picking == IF line.taken THEN c.id ELSE NoPick
               n == [a EXCEPT !.picks = c.id, !.picking = picking]
    <2>1. c \in Commands /\ c.op = "choose" /\ c.id = a.picks + 1
      BY <1>3, RequestIs
    <2>2. Line \in Lines /\ Fits(Line) /\ QueueOf(Line) = Queue
      BY <1>0 DEF AppOK, Line, Lines, Fits, QueueOf, Queue
    <2>3. /\ app' = Rendered(n) /\ parked' = line.parked /\ sent' = line.sent
          /\ a.view = "shelf" /\ a.picking = NoPick /\ a.opening = None
      BY <1>1, <1>6, <1>12 DEF Pick
    <2> HIDE DEF c
    <2>4. /\ line \in Lines
          /\ line.taken => Queued(q, c, QueueOf(line))
          /\ ~line.taken => QueueOf(line) = q
      BY <1>2, <2>1, <2>2, DispatchIs
    <2>5. PICK r \in Seq(Commands) : r = QueueOf(line) /\ r = sent' \o parked'
      BY <2>3, <2>4, ConcatProperties DEF QueueOf, Lines
    <2>6. \/ Queued(q, c, r) /\ picking = c.id
          \/ r = q /\ picking = NoPick
      BY <2>4, <2>5
    <2> HIDE DEF line
    <2>7. picking \in Nat /\ c.id \in Nat
      BY <1>3, <2>1 DEF NoPick
    <2> HIDE DEF picking
    <2>8. /\ n \in AppStates /\ n.frame = a.frame /\ n.again = a.again
          /\ n.request = a.request /\ n.picks = c.id /\ n.book = a.book /\ n.view = a.view
          /\ n.opening = a.opening /\ n.rollback = a.rollback /\ n.picking = picking
      BY <2>7 DEF AppStates
    <2> HIDE DEF n
    <2>9. Core(n, r, ev)
      BY <1>3, <1>5, <2>1, <2>3, <2>6, <2>8, AddChoose
    <2>10. PICK d \in AppStates : d = Rendered(n)
      BY <1>5, <2>8, RenderedIs
    <2>11. Alike(n, d) /\ FrameTrue(d, shown) /\ Gate(d)
      BY <1>5, <2>8, <2>10, RenderedIs
    <2>12. Core(d, r, ev)
      BY <2>9, <2>11, CoreAlike
    <2> QED
      BY <2>3, <2>5, <2>10, <2>11, <2>12 DEF Kept
  <1> QED
    BY <1>4, <1>7, <1>8, <1>10, <1>11, <1>12 DEF AppStep

\* An answer that asks for nothing.
LEMMA FoldKept ==
    ASSUME AppOK, NEW d \in AppStates, FoldOnly(d), NEW ev, NEW sh,
           Core(d, Queue, ev), FrameTrue(d, sh)
    PROVE  Kept(ev, sh)
  <1>1. PICK q \in Seq(Commands) : q = Queue
    BY QueueIs
  <1>2. PICK a \in AppStates : a = Lifted(d)
    BY LiftedIs
  <1>3. Alike(d, a) /\ FrameTrue(a, sh) /\ Gate(a)
    BY <1>2, LiftedIs
  <1>4. Core(a, q, ev)
    BY <1>1, <1>3, CoreAlike
  <1>5. app' = a /\ sent' \o parked' = q
    BY <1>1, <1>2 DEF FoldOnly, Queue
  <1> QED
    BY <1>3, <1>4, <1>5 DEF Kept

\* Every answer leaves what is still asked for and answered in order.
LEMMA ReceiveKept ==
    ASSUME TypeOK, Receive, Core(app, Queue, events), FrameTrue(app, shown), Gate(app)
    PROVE  Kept(Tail(events), shown)
  <1>0. AppOK /\ lost \in BOOLEAN /\ Queue \in Seq(Commands)
        /\ events \in Seq(Events) /\ events # <<>> /\ shown \in Frames
    BY QueueIs DEF TypeOK, AppOK, Receive
  <1>1. PICK a \in AppStates : a = app
    BY <1>0 DEF AppOK
  <1>2. PICK q \in Seq(Commands) : q = Queue
    BY <1>0
  <1>3. PICK ev \in Seq(Events) : ev = events
    BY <1>0
  <1>4. PICK w \in Seq(Events) : w = Tail(ev)
    BY <1>0, <1>3, HeadTailProperties
  <1>5. PICK e \in Events : e = Head(ev)
    BY <1>0, <1>3, HeadTailProperties
  <1>6. PICK sh \in Frames : sh = shown
    BY <1>0
  <1>7. /\ ev # <<>> /\ Core(a, q, ev) /\ FrameTrue(a, sh)
        /\ a.again => a.frame # None
    BY <1>0, <1>1, <1>2, <1>3, <1>6 DEF FrameTrue
  <1>8. /\ e.book \in Books
        /\ e.kind = "loaded" => e.position \in Pages \cup {None}
        /\ a.book \in Books /\ a.page \in Pages /\ a.request \in Nat /\ 0 \in Pages
    BY EventHas, AppHas
  <1>9. ASSUME NEW d \in AppStates, FoldOnly(d), Core(d, q, w), FrameTrue(d, sh)
        PROVE  Kept(w, sh)
    BY <1>0, <1>2, <1>9, FoldKept
  <1>10. ASSUME NEW n \in AppStates, Carry(a, n, None), n.frame = a.frame, n.again = a.again,
                Core(n, q, w)
         PROVE  Kept(w, sh)
    BY <1>0, <1>2, <1>7, <1>10, CarryKept
  <1>11. IsSettle(e) => e.book = a.book
    BY <1>5, <1>7, EventGone
  <1>12. PICK d \in AppStates : d = Answered(a, e.book)
    BY AnsweredIs
  <1>13. /\ d.request = a.request /\ d.picks = a.picks /\ d.book = a.book /\ d.view = a.view
         /\ d.page = a.page /\ d.picking = a.picking /\ d.frame = a.frame /\ d.again = a.again
         /\ a.opening = e.book => d.opening = None /\ d.rollback = None
         /\ a.opening # e.book => d = a
    BY <1>12, AnsweredIs
  <1>14. IsSettle(e) => d.opening = None /\ d.rollback = None
    BY <1>5, <1>7, <1>13, Answers
  <1>15. ASSUME e.kind = "loaded", ReceiveLoaded(e) PROVE Kept(w, sh)
    <2>1. PICK n \in AppStates : n = Moved(d, e.position)
      BY <1>8, <1>15, MovedIs
    <2>2. Alike(d, n) /\ n.frame = a.frame /\ n.again = a.again
      BY <1>8, <1>13, <1>15, <2>1, MovedIs
    <2>3. e.book = a.book /\ IsSettle(e) /\ d.opening = None /\ d.rollback = None
      BY <1>11, <1>14, <1>15 DEF IsSettle
    <2>4. /\ n.request = a.request /\ n.picks = a.picks /\ n.book = a.book /\ n.view = a.view
          /\ n.picking = a.picking /\ n.opening = None /\ n.rollback = None
      BY <1>13, <2>2, <2>3 DEF Alike
    <2>5. Core(n, q, w)
      BY <1>4, <1>5, <1>7, <2>3, <2>4, ReceiveAnswer
    <2> DEFINE c == ExtendSection(a.request + 1, n.book, n.page)
    <2>6. \/ FoldOnly(n) /\ n.page = a.page
          \/ Carry(a, n, c) /\ n.view = "reading"
          \/ Carry(a, n, None)
      BY <1>1, <1>12, <1>15, <2>1, <2>3 DEF ReceiveLoaded, Moved
    <2>7. ASSUME FoldOnly(n), n.page = a.page PROVE Kept(w, sh)
      <3>1. Render(n) = Render(a)
        BY <2>4, <2>7 DEF Render
      <3>2. FrameTrue(n, sh)
        BY <1>7, <2>2, <3>1 DEF FrameTrue
      <3> QED
        BY <1>9, <2>5, <2>7, <3>2
    <2>8. ASSUME Carry(a, n, c), n.view = "reading" PROVE Kept(w, sh)
      <3>1. n.page \in Pages
        BY AppHas
      <3>2. c \in Commands /\ Load(c) /\ ~IsOpen(c) /\ c.id = n.request + 1 /\ c.book = n.book
        BY <1>8, <2>4, <3>1, RequestIs
      <3>3. n.picking = NoPick
        BY <2>5, <2>8 DEF Core, Picked
      <3> HIDE DEF c
      <3>4. c # None
        BY <3>2, CommandHas
      <3>5. Core(AfterDispatch(a, n, c, FALSE), q, w)
        <4>1. PICK x \in AppStates : x = AfterDispatch(a, n, c, FALSE) /\ x = n
          BY <3>2, NotSent
        <4> QED
          BY <2>5, <4>1
      <3>6. ASSUME NEW r \in Seq(Commands), Queued(q, c, r)
            PROVE  Core(AfterDispatch(a, n, c, TRUE), r, w)
        <4>1. PICK x \in AppStates :
                 /\ x = AfterDispatch(a, n, c, TRUE)
                 /\ x.picks = n.picks /\ x.picking = n.picking /\ x.request = c.id
                 /\ x.view = n.view /\ x.book = n.book
                 /\ x.opening = n.opening /\ x.rollback = n.rollback
          BY <3>2, SentOn
        <4>2. n.request \in Nat
          BY <1>8, <2>4
        <4>3. x.opening = None /\ n.opening = None /\ x.picking = NoPick
          BY <2>4, <3>3, <4>1
        <4> QED
          BY <2>5, <3>2, <3>3, <3>6, <4>1, <4>2, <4>3, AddExtend
      <3> QED
        BY <1>0, <1>2, <1>7, <2>2, <2>8, <3>2, <3>4, <3>5, <3>6, CarryKept
    <2> HIDE DEF c
    <2> QED
      BY <1>10, <2>2, <2>5, <2>6, <2>7, <2>8
  <1>16. ASSUME e.kind = "unreadable", ReceiveUnreadable(e) PROVE Kept(w, sh)
    <2>1. e.book = a.book /\ IsSettle(e) /\ d.opening = None /\ d.rollback = None
      BY <1>11, <1>14, <1>16 DEF IsSettle
    <2> DEFINE n == [d EXCEPT !.unreadable = e.book]
    <2>2. Carry(a, n, None)
      BY <1>1, <1>12, <1>16, <2>1 DEF ReceiveUnreadable
    <2>3. /\ n \in AppStates /\ n.frame = a.frame /\ n.again = a.again
          /\ n.request = a.request /\ n.picks = a.picks /\ n.book = a.book /\ n.view = a.view
          /\ n.picking = a.picking /\ n.opening = None /\ n.rollback = None
      BY <1>8, <1>13, <2>1 DEF AppStates
    <2> HIDE DEF n
    <2>4. Core(n, q, w)
      BY <1>4, <1>5, <1>7, <2>1, <2>3, ReceiveAnswer
    <2> QED
      BY <1>10, <2>2, <2>3, <2>4
  <1>17. ASSUME e.kind = "failed", ReceiveFailed(e) PROVE Kept(w, sh)
    <2>1. e.book = a.book /\ IsSettle(e)
      BY <1>11, <1>17 DEF IsSettle
    <2>2. PICK x \in AppStates : x = IF a.opening = e.book THEN [a EXCEPT !.opening = None] ELSE a
      <3>1. [a EXCEPT !.opening = None] \in AppStates
        BY DEF AppStates
      <3> QED
        BY <3>1
    <2>3. /\ x.frame = a.frame /\ x.again = a.again
          /\ x.request = a.request /\ x.picks = a.picks /\ x.book = a.book /\ x.view = a.view
          /\ x.picking = a.picking /\ x.rollback = a.rollback
      BY <2>2 DEF AppStates
    <2>4. x.opening = None
      <3>1. a.opening # None => a.opening = a.book
        BY <1>7 DEF Core, SameBook
      <3> QED
        BY <2>1, <2>2, <3>1 DEF AppStates
    <2>5. Carry(a, IF x.rollback = None THEN x
                   ELSE [RestoreAfterFailedOpen(x, x.rollback) EXCEPT !.rollback = None], None)
      BY <1>1, <1>17, <2>2 DEF ReceiveFailed
    <2>6. CASE x.rollback = None
      <3>1. Core(x, q, w)
        BY <1>4, <1>5, <1>7, <2>1, <2>3, <2>4, <2>6, ReceiveAnswer
      <3> QED
        BY <1>10, <2>3, <2>5, <2>6, <3>1
    <2>7. CASE x.rollback # None
      <3>1. PICK r \in Rollbacks : r = x.rollback
        BY <2>7, AppHas
      <3> DEFINE n == [RestoreAfterFailedOpen(x, r) EXCEPT !.rollback = None]
      <3>2. Carry(a, n, None)
        BY <2>5, <2>7, <3>1
      <3>3. /\ n \in AppStates /\ n.frame = a.frame /\ n.again = a.again
            /\ n.request = a.request /\ n.picks = a.picks /\ n.picking = a.picking
            /\ n.book = r.book /\ n.view = r.view
            /\ n.opening = None /\ n.rollback = None
        BY <2>3, <2>4 DEF RestoreAfterFailedOpen, AppStates, Rollbacks
      <3> HIDE DEF n
      <3>4. Core(n, q, w)
        BY <1>4, <1>5, <1>7, <2>1, <2>3, <2>7, <3>1, <3>3, ReceiveRefusal
      <3> QED
        BY <1>10, <3>2, <3>3, <3>4
    <2> QED
      BY <2>6, <2>7
  <1>18. ASSUME IsRow(e), e.id # a.picking, FoldOnly(a) PROVE Kept(w, sh)
    <2>1. ~IsSettle(e)
      BY <1>18 DEF IsRow, IsSettle
    <2>2. /\ InOrder(q, a.request) /\ RowOrder(q, w, a.picks)
          /\ SameBook(a, q, w) /\ Leaving(a, q, w) /\ Picked(a, q, w) /\ Pending(a, q, w)
      BY <1>4, <1>5, <1>7, <1>18, <2>1, EventGone
    <2> QED
      BY <1>7, <1>9, <1>18, <2>2 DEF Core
  <1>19. ASSUME IsRow(e), e.id = a.picking
         PROVE  /\ a.view = "shelf" /\ a.opening = None /\ a.rollback = None
                /\ ~Loading(q) /\ ~Settling(w)
                /\ \A b : /\ b.request = a.request /\ b.picks = a.picks /\ b.book = a.book
                          /\ b.opening = None /\ b.rollback = None /\ b.picking = NoPick
                          => Core(b, q, w)
    BY <1>4, <1>5, <1>7, <1>19, ReceivePick
  <1>20. ASSUME e.kind = "row", ReceiveRow(e) PROVE Kept(w, sh)
    <2> DEFINE n == [a EXCEPT !.picking = NoPick, !.view = "reading", !.book = e.book,
                              !.page = 0, !.counted = TRUE]
               b == [a EXCEPT !.picking = NoPick]
               previous == IF Unreadable(a) THEN None ELSE Spot(a.book, a.page)
               c == OpenBook(a.request + 1, e.book, 0, previous, TRUE, FALSE)
    <2>0. IsRow(e)
      BY <1>20 DEF IsRow
    <2>1. /\ n \in AppStates /\ n.frame = a.frame /\ n.again = a.again
          /\ n.request = a.request /\ n.picks = a.picks /\ n.book = e.book
          /\ n.opening = a.opening /\ n.rollback = a.rollback /\ n.picking = NoPick
      BY <1>8 DEF AppStates, NoPick, Views
    <2>2. /\ b.request = a.request /\ b.picks = a.picks /\ b.book = a.book
          /\ b.opening = a.opening /\ b.rollback = a.rollback /\ b.picking = NoPick
      BY DEF AppStates
    <2>3. previous \in Spots \cup {None}
      BY <1>8 DEF Spot, Spots
    <2>4. c \in Commands /\ Load(c)
      BY <1>8, <2>3, RequestIs
    <2>5. IsOpen(c)
      BY <1>8, <2>3, RequestIs
    <2>6. c.id = a.request + 1 /\ c.book = e.book
      BY DEF OpenBook
    <2>7. \/ e.id # a.picking /\ FoldOnly(a)
          \/ e.id = a.picking /\ Carry(a, n, c)
      BY <1>1, <1>20 DEF ReceiveRow
    <2> HIDE DEF n, b, c
    <2>8. ASSUME e.id = a.picking, Carry(a, n, c) PROVE Kept(w, sh)
      <3>1. Core(b, q, w) /\ a.view = "shelf" /\ a.opening = None /\ a.rollback = None
            /\ ~Loading(q) /\ ~Settling(w)
        BY <1>19, <2>0, <2>2, <2>8
      <3>2. c # None
        BY <2>4, CommandHas
      <3>3. Core(AfterDispatch(a, n, c, FALSE), q, w)
        <4>1. PICK x \in AppStates :
                 /\ x = AfterDispatch(a, n, c, FALSE)
                 /\ x.picks = n.picks /\ x.picking = n.picking
                 /\ x.request = n.request /\ x.opening = n.opening /\ x.rollback = n.rollback
                 /\ x.view = a.view /\ x.book = a.book
          BY <2>1, <2>4, <2>5, NotSent
        <4>2. /\ x.request = a.request /\ x.picks = a.picks /\ x.book = a.book
              /\ x.opening = None /\ x.rollback = None /\ x.picking = NoPick
          BY <2>1, <3>1, <4>1
        <4> QED
          BY <1>19, <2>0, <2>8, <4>1, <4>2
      <3>4. ASSUME NEW r \in Seq(Commands), Queued(q, c, r)
            PROVE  Core(AfterDispatch(a, n, c, TRUE), r, w)
        <4>1. PICK x \in AppStates :
                 /\ x = AfterDispatch(a, n, c, TRUE)
                 /\ x.picks = n.picks /\ x.picking = n.picking /\ x.request = c.id
                 /\ x.view = n.view /\ x.book = n.book
                 /\ x.opening = c.book /\ x.rollback = Rollback(a)
          BY <2>1, <2>4, <2>5, SentOn
        <4>2. x.rollback.view = "shelf" /\ x.rollback.book = b.book
          BY <2>2, <3>1, <4>1, AppHas
        <4>3. x.picks = b.picks /\ x.book = c.book /\ x.picking = NoPick
              /\ c.id = b.request + 1 /\ b.request \in Nat
          BY <1>8, <2>1, <2>2, <2>6, <4>1
        <4> QED
          BY <2>4, <3>1, <3>4, <4>1, <4>2, <4>3, AddOpen
      <3> QED
        BY <1>0, <1>2, <1>7, <2>1, <2>4, <2>8, <3>2, <3>3, <3>4, CarryKept
    <2> QED
      BY <1>18, <2>0, <2>7, <2>8
  <1>21. ASSUME e.kind = "rowFailed", ReceiveRowFailed(e) PROVE Kept(w, sh)
    <2> DEFINE n == [a EXCEPT !.picking = NoPick]
    <2>0. IsRow(e)
      BY <1>21 DEF IsRow
    <2>1. /\ n \in AppStates /\ n.frame = a.frame /\ n.again = a.again
          /\ n.request = a.request /\ n.picks = a.picks /\ n.book = a.book
          /\ n.opening = a.opening /\ n.rollback = a.rollback /\ n.picking = NoPick
      BY DEF AppStates, NoPick
    <2>2. \/ e.id # a.picking /\ FoldOnly(a)
          \/ e.id = a.picking /\ Carry(a, n, None)
      BY <1>1, <1>21 DEF ReceiveRowFailed
    <2> HIDE DEF n
    <2>3. ASSUME e.id = a.picking, Carry(a, n, None) PROVE Kept(w, sh)
      <3>1. Core(n, q, w)
        BY <1>19, <2>0, <2>1, <2>3
      <3> QED
        BY <1>10, <2>1, <2>3, <3>1
    <2> QED
      BY <1>18, <2>0, <2>2, <2>3
  <1> QED
    BY <1>3, <1>4, <1>5, <1>6, <1>15, <1>16, <1>17, <1>20, <1>21 DEF Receive
-----------------------------------------------------------------------------
(***************************************************************************)
(* The loop.                                                               *)
(***************************************************************************)
\* The app in order with what it asked for and what comes back, and its panel.
LoopInv ==
    \E a \in AppStates, q \in Seq(Commands), ev \in Seq(Events), sh \in Frames :
        /\ app = a /\ sent \o parked = q /\ events = ev /\ shown = sh
        /\ Core(a, q, ev) /\ FrameTrue(a, sh) /\ Gate(a)

\* The loop, read off the variables.
LEMMA LoopParts ==
    ASSUME LoopInv
    PROVE  /\ Core(app, Queue, events) /\ FrameTrue(app, shown) /\ Gate(app)
           /\ app \in AppStates /\ Queue \in Seq(Commands) /\ events \in Seq(Events)
           /\ shown \in Frames
  BY DEF LoopInv, Queue

\* The loop after a step.
LEMMA LoopNext ==
    ASSUME NEW a \in AppStates, NEW q \in Seq(Commands), NEW ev \in Seq(Events),
           NEW sh \in Frames,
           app' = a, sent' \o parked' = q, events' = ev, shown' = sh,
           Core(a, q, ev), FrameTrue(a, sh), Gate(a)
    PROVE  LoopInv'
  BY DEF LoopInv

\* An open handed over again holds the input for the book the reader is in.
LEMMA AcceptedKept ==
    ASSUME NEW a \in AppStates, NEW q \in Seq(Commands), NEW ev, Core(a, q, ev), Gate(a),
           NEW h \in Seq(Commands), \A i \in DOMAIN h : \E k \in DOMAIN q : h[i] = q[k],
           NEW b, b = Accepted(a, h)
    PROVE  /\ b \in AppStates /\ Core(b, q, ev) /\ Gate(b) /\ Render(b) = Render(a)
           /\ b.frame = a.frame /\ b.again = a.again
  <1>1. /\ b \in AppStates /\ b.frame = a.frame /\ b.again = a.again /\ b.page = a.page
        /\ \/ b = a
           \/ \E i \in DOMAIN h : /\ h[i].op = "open" /\ b.opening = h[i].book
                                  /\ Alike([a EXCEPT !.opening = h[i].book], b)
    BY AcceptedIs
  <1>2. CASE b = a
    BY <1>1, <1>2
  <1>3. ASSUME NEW i \in DOMAIN h, h[i].op = "open", b.opening = h[i].book,
               Alike([a EXCEPT !.opening = h[i].book], b)
        PROVE  Core(b, q, ev) /\ Gate(b) /\ Render(b) = Render(a)
    <2>1. PICK k \in DOMAIN q : h[i] = q[k]
      BY <1>3
    <2>2. Load(q[k]) /\ q[k].book = a.book
      BY <1>3, <2>1 DEF Load, Core, SameBook
    <2>3. b.opening = a.book /\ a.book # None
      BY <1>3, <2>1, <2>2, AppHas
    <2>4. /\ b.request = a.request /\ b.picks = a.picks /\ b.book = a.book
          /\ b.rollback = a.rollback /\ b.view = a.view /\ b.picking = a.picking
      BY <1>3 DEF Alike, AppStates
    <2>5. SameBook(b, q, ev)
      BY <2>3, <2>4 DEF Core, SameBook
    <2>6. Leaving(b, q, ev)
      BY <2>3, <2>4 DEF Core, Leaving
    <2>7. Pending(b, q, ev)
      BY <2>2 DEF Pending, Loading
    <2>8. Picked(b, q, ev)
      BY <2>4 DEF Core, Picked
    <2> QED
      BY <1>1, <2>3, <2>4, <2>5, <2>6, <2>7, <2>8 DEF Core, Gate, Render
  <1> QED
    BY <1>1, <1>2, <1>3

\* What is parked moves up, and the queue is the same.
LEMMA OfferKept ==
    ASSUME TypeOK, LoopInv, OfferParked
    PROVE  Kept(events, shown)
  <1>1. PICK a \in AppStates, q \in Seq(Commands) : a = app /\ q = Queue
    BY LoopParts
  <1>2. sent' \o parked' = q
    BY <1>1, OfferTyped
  <1>3. PICK h \in Seq(Commands) : /\ app' = Accepted(a, h)
                                   /\ \A i \in DOMAIN h : \E k \in DOMAIN q : h[i] = q[k]
    BY <1>1, OfferTyped
  <1>4. PICK b \in AppStates : b = Accepted(a, h)
    BY AcceptedIs
  <1>5. PICK sh \in Frames, ev \in Seq(Events) : sh = shown /\ ev = events
    BY LoopParts
  <1>6. Core(a, q, ev) /\ FrameTrue(a, sh) /\ Gate(a)
    BY <1>1, <1>5, LoopParts
  <1>7. /\ Core(b, q, ev) /\ Gate(b) /\ Render(b) = Render(a)
        /\ b.frame = a.frame /\ b.again = a.again
    BY <1>3, <1>4, <1>6, AcceptedKept
  <1>8. FrameTrue(b, sh)
    BY <1>6, <1>7 DEF FrameTrue
  <1> QED
    BY <1>2, <1>3, <1>4, <1>5, <1>7, <1>8 DEF Kept

\* The panel shows what the state froze, and the frame that is sent after it
\* what the state is now.
LEMMA SettlesKept ==
    ASSUME TypeOK, LoopInv, FrameSettles
    PROVE  Kept(events, shown')
  <1>1. PICK a \in AppStates, q \in Seq(Commands) : a = app /\ q = Queue
    BY LoopParts
  <1>2. sent' \o parked' = q
    BY <1>1, SettlesTyped
  <1>3. PICK h \in Seq(Commands) :
          /\ app' = IF a.again
                    THEN [Accepted(a, h) EXCEPT !.frame = Render(Accepted(a, h)), !.again = FALSE]
                    ELSE Lifted([Accepted(a, h) EXCEPT !.frame = None])
          /\ \A i \in DOMAIN h : \E k \in DOMAIN q : h[i] = q[k]
    BY <1>1, SettlesTyped
  <1>4. PICK b \in AppStates : b = Accepted(a, h)
    BY AcceptedIs
  <1>5. PICK old \in Frames, ev \in Seq(Events) : old = shown /\ ev = events
    BY LoopParts
  <1>6. Core(a, q, ev) /\ FrameTrue(a, old) /\ Gate(a)
    BY <1>1, <1>5, LoopParts
  <1>7. /\ Core(b, q, ev) /\ Gate(b) /\ Render(b) = Render(a)
        /\ b.frame = a.frame /\ b.again = a.again
    BY <1>3, <1>4, <1>6, AcceptedKept
  <1>8. a.frame # None /\ shown' = a.frame
    BY <1>1 DEF FrameSettles
  <1>9. PICK sh : sh = a.frame
    OBVIOUS
  <1>10. CASE a.again
    <2> DEFINE d == [b EXCEPT !.frame = Render(b), !.again = FALSE]
    <2>1. /\ d \in AppStates /\ Alike(b, d) /\ Render(d) = Render(b)
          /\ d.frame = Render(b) /\ d.again = FALSE /\ d.frame # None
      <3>1. Render(b) \in Frames /\ Render(b) # None
        BY AppHas
      <3> HIDE DEF d
      <3>2. ASSUME NEW f \in Frames
            PROVE  LET x == [b EXCEPT !.frame = f, !.again = FALSE] IN
                   /\ x \in AppStates /\ Alike(b, x) /\ Render(x) = Render(b)
                   /\ x.frame = f /\ x.again = FALSE
        BY DEF AppStates, Alike, Render
      <3> QED
        BY <3>1, <3>2 DEF d
    <2>2. app' = d
      BY <1>3, <1>4, <1>10
    <2> HIDE DEF d
    <2>3. FrameTrue(d, sh) /\ Gate(d)
      BY <2>1 DEF FrameTrue, Gate
    <2>4. Core(d, q, ev)
      BY <1>7, <2>1, CoreAlike
    <2> QED
      BY <1>2, <1>5, <1>8, <1>9, <2>1, <2>2, <2>3, <2>4 DEF Kept
  <1>11. CASE ~a.again
    <2>1. PICK c \in AppStates : c = [b EXCEPT !.frame = None]
      <3>1. [b EXCEPT !.frame = None] \in AppStates
        BY DEF AppStates
      <3> QED
        BY <3>1
    <2>2. Alike(b, c) /\ Render(c) = Render(b) /\ c.frame = None /\ c.again = b.again
      BY <2>1 DEF AppStates, Alike, Render
    <2>3. FrameTrue(c, sh)
      BY <1>6, <1>7, <1>8, <1>9, <1>11, <2>2 DEF FrameTrue
    <2>4. PICK d \in AppStates : d = Lifted(c)
      BY LiftedIs
    <2>5. Alike(c, d) /\ FrameTrue(d, sh) /\ Gate(d)
      BY <2>3, <2>4, LiftedIs
    <2>6. Core(c, q, ev)
      BY <1>7, <2>2, CoreAlike
    <2>7. Core(d, q, ev)
      BY <2>5, <2>6, CoreAlike
    <2>8. app' = d
      BY <1>3, <1>4, <1>11, <2>1, <2>4
    <2> QED
      BY <1>2, <1>5, <1>8, <1>9, <2>5, <2>7, <2>8 DEF Kept
  <1> QED
    BY <1>10, <1>11

\* What is taken is answered, or asked for again by a later request.
LEMMA HandleKept ==
    ASSUME TypeOK, CardOK, LoopInv, Handle, TypeOK'
    PROVE  LoopInv'
  <1>1. PICK a \in AppStates, q \in Seq(Commands), ev \in Seq(Events), sh \in Frames :
          a = app /\ q = Queue /\ ev = events /\ sh = shown
    BY LoopParts
  <1>2. Core(a, q, ev) /\ FrameTrue(a, sh) /\ Gate(a)
    BY <1>1, LoopParts
  <1>3. /\ app' = a /\ shown' = sh /\ q # <<>>
        /\ Handled(Head(q)) /\ sent' \o parked' = Tail(q)
    BY <1>1, HandleTyped
  <1>4. PICK w \in Seq(Events) : w = events'
    BY DEF TypeOK
  <1>5. PICK r \in Seq(Commands) : r = Tail(q)
    BY <1>3, TailHas
  <1> DEFINE Goal == Core(a, r, w)
  <1>6. ASSUME Head(q).op = "progress" \/ (Load(Head(q)) /\ Head(q).id # a.request), w = ev
        PROVE  Goal
    BY <1>2, <1>3, <1>5, <1>6, TakeQuiet
  <1>7. ASSUME Load(Head(q)), NEW e \in Events, IsSettle(e), e.book = Head(q).book,
               w = Append(ev, e)
        PROVE  Goal
    BY <1>2, <1>3, <1>5, <1>7, TakeAnswered
  <1>8. ASSUME Head(q).op = "choose", NEW e \in Events, IsRow(e), e.id = Head(q).id,
                w = Append(ev, e)
         PROVE  Goal
    BY <1>2, <1>3, <1>5, <1>8, TakeRow
  <1> HIDE DEF Goal
  <1>9. Goal
    BY <1>1, <1>3, <1>4, <1>6, <1>7, <1>8 DEF Handled
  <1> QED
    BY <1>2, <1>3, <1>4, <1>5, <1>9, LoopNext DEF Goal

\* A slice speaks of the book on screen, with nothing asked for.
LEMMA SettleKept ==
    ASSUME TypeOK, CardOK, LoopInv, Settle, TypeOK'
    PROVE  LoopInv'
  <1>1. PICK a \in AppStates, q \in Seq(Commands), ev \in Seq(Events), sh \in Frames :
          a = app /\ q = Queue /\ ev = events /\ sh = shown
    BY LoopParts
  <1>2. Core(a, q, ev) /\ FrameTrue(a, sh) /\ Gate(a)
    BY <1>1, LoopParts
  <1>3. Quiet /\ app' = a /\ shown' = sh /\ sent' = sent /\ parked' = parked
    BY <1>1, SettleTyped
  <1>4. sent' \o parked' = q
    BY <1>1, <1>3 DEF Queue
  <1>5. CASE events' = events
    BY <1>1, <1>2, <1>3, <1>4, <1>5, LoopNext
  <1>6. ASSUME NEW e \in Events, IsSettle(e), e.book = sh.book, events' = Append(ev, e)
        PROVE  LoopInv'
    <2>1. q = <<>> /\ ev = <<>> /\ a.frame = None
      BY <1>1, <1>3 DEF Quiet, Queue
    <2>2. e.book = a.book
      <3>1. sh \in {Nowhere, Render(a)}
        BY <1>2, <2>1 DEF FrameTrue
      <3>2. e.book \in Books /\ e.book # None
        BY EventHas, NoneAssumption
      <3> QED
        BY <1>6, <3>1, <3>2 DEF Nowhere, Render
    <2>3. PICK w \in Seq(Events) : w = Append(ev, e)
      BY AppendHas
    <2>4. DOMAIN q = {} /\ DOMAIN ev = {}
      BY <2>1
    <2>5. \A i \in DOMAIN w : w[i] = e
      BY <2>3, <2>4, AppendHas
    <2>6. a.opening = None /\ a.rollback = None /\ a.picking = NoPick
      <3>1. ~Loading(q) /\ ~Settling(ev)
        BY <2>4 DEF Loading, Settling
      <3> QED
        BY <1>2, <2>4, <3>1 DEF Core, Pending, Leaving, Picked
    <2>7. ~IsRow(e)
      BY <1>6 DEF IsRow, IsSettle
    <2>8. InOrder(q, a.request) /\ RowOrder(q, w, a.picks)
      BY <2>4, <2>5, <2>7 DEF InOrder, RowOrder
    <2>9. SameBook(a, q, w) /\ Leaving(a, q, w) /\ Pending(a, q, w) /\ Picked(a, q, w)
      BY <2>2, <2>4, <2>5, <2>6 DEF SameBook, Leaving, Pending, Picked
    <2>10. Core(a, q, w)
      BY <2>8, <2>9 DEF Core
    <2> QED
      BY <1>2, <1>3, <1>4, <1>6, <2>3, <2>10, LoopNext
  <1> QED
    BY <1>1, <1>5, <1>6, SettleTyped

\* Nothing is asked for at a boot.
LEMMA BootKept ==
    ASSUME NEW spot \in Spots
    PROVE  /\ BootedAt(spot) \in AppStates
           /\ Core(BootedAt(spot), <<>>, <<>>)
           /\ FrameTrue(BootedAt(spot), Nowhere) /\ Gate(BootedAt(spot))
           /\ <<>> \in Seq(Commands) /\ <<>> \in Seq(Events) /\ Nowhere \in Frames
  <1> DEFINE a == BootedAt(spot)
  <1>1. a \in AppStates /\ Nowhere \in Frames
    BY BootIs
  <1>2. /\ a.opening = None /\ a.rollback = None /\ a.picking = NoPick
        /\ a.gated = FALSE /\ a.frame = None /\ a.again = FALSE
    BY DEF BootedAt
  <1> HIDE DEF a
  <1>3. InOrder(<<>>, a.request) /\ RowOrder(<<>>, <<>>, a.picks)
    BY DEF InOrder, RowOrder
  <1>4. /\ SameBook(a, <<>>, <<>>) /\ Leaving(a, <<>>, <<>>)
        /\ Pending(a, <<>>, <<>>) /\ Picked(a, <<>>, <<>>)
    BY <1>2 DEF SameBook, Leaving, Pending, Picked
  <1>5. FrameTrue(a, Nowhere) /\ Gate(a)
    BY <1>2 DEF FrameTrue, Gate
  <1> QED
    BY <1>1, <1>3, <1>4, <1>5 DEF Core, a

\* Every step keeps the loop.
LEMMA LoopStep ==
    ASSUME TypeOK, CardOK, LoopInv, TypeOK', [Next]_vars
    PROVE  LoopInv'
  <1>0. events' \in Seq(Events) /\ shown' \in Frames
    BY DEF TypeOK
  <1>1. Core(app, Queue, events) /\ FrameTrue(app, shown) /\ Gate(app)
    BY LoopParts
  <1>2. ASSUME Kept(events', shown') PROVE LoopInv'
    BY <1>0, <1>2 DEF Kept, LoopInv
  <1>3. CASE AppStep
    <2>1. events' = events /\ shown' = shown
      BY <1>3 DEF AppStep, TurnPage, ReadOn, Leave, WalkAway, Pick
    <2> QED
      BY <1>1, <1>2, <1>3, <2>1, AppStepKept
  <1>4. CASE Receive
    <2>1. events' = Tail(events) /\ shown' = shown
      BY <1>4 DEF Receive
    <2> QED
      BY <1>1, <1>2, <1>4, <2>1, ReceiveKept
  <1>5. CASE OfferParked
    <2>1. events' = events /\ shown' = shown
      BY <1>5 DEF OfferParked
    <2> QED
      BY <1>2, <1>5, <2>1, OfferKept
  <1>6. CASE FrameSettles
    <2>1. events' = events
      BY <1>6 DEF FrameSettles
    <2> QED
      BY <1>2, <1>6, <2>1, SettlesKept
  <1>7. CASE Handle
    BY <1>7, HandleKept
  <1>8. CASE Settle
    BY <1>8, SettleKept
  <1>9. CASE Flush \/ UNCHANGED vars
    <2>1. /\ app' = app /\ shown' = shown /\ sent' = sent /\ parked' = parked
          /\ events' = events
      BY <1>9, FlushTyped DEF vars, appVars
    <2> QED
      BY <2>1 DEF LoopInv
  <1>10. CASE PowerLoss
    <2>1. PICK spot \in Spots : app' = BootedAt(spot)
      BY <1>10, PowerLossTyped
    <2>2. sent' \o parked' = <<>> /\ events' = <<>> /\ shown' = Nowhere
      BY <1>10, PowerLossTyped
    <2>3. PICK a \in AppStates : a = BootedAt(spot)
      BY BootKept
    <2>4. PICK q \in Seq(Commands), ev \in Seq(Events), sh \in Frames :
            q = <<>> /\ ev = <<>> /\ sh = Nowhere
      BY BootKept
    <2>5. Core(a, q, ev) /\ FrameTrue(a, sh) /\ Gate(a)
      BY <2>3, <2>4, BootKept
    <2> QED
      BY <2>1, <2>2, <2>3, <2>4, <2>5, LoopNext
  <1> QED
    BY <1>3, <1>4, <1>5, <1>6, <1>7, <1>8, <1>9, <1>10 DEF Next

\* The loop at a boot.
LEMMA LoopStarts ==
    ASSUME Init
    PROVE  LoopInv
  <1>1. PICK spot \in Spots : app = BootedAt(spot)
    BY InitTyped
  <1>2. sent \o parked = <<>> /\ events = <<>> /\ shown = Nowhere
    BY InitTyped DEF Queue
  <1> QED
    BY <1>1, <1>2, BootKept DEF LoopInv

\* With nothing asked for and nothing on the way, nothing is waited for.
LEMMA QuietIsFree ==
    ASSUME LoopInv
    PROVE  InputIsFree
  <1>1. PICK a \in AppStates, q \in Seq(Commands), ev \in Seq(Events) :
          a = app /\ q = Queue /\ ev = events
    BY LoopParts
  <1>2. Core(a, q, ev) /\ Gate(a)
    BY <1>1, LoopParts
  <1>3. ASSUME Quiet PROVE Ready /\ app.picking = NoPick
    <2>1. q = <<>> /\ ev = <<>> /\ a.frame = None
      BY <1>1, <1>3 DEF Quiet, Queue
    <2>2. DOMAIN q = {} /\ DOMAIN ev = {}
      BY <2>1
    <2>3. a.opening = None /\ a.picking = NoPick
      BY <1>2, <2>2 DEF Core, Pending, Picked, Loading, Settling
    <2>4. ~a.gated
      BY <1>2, <2>1, <2>3 DEF Gate
    <2> QED
      BY <1>1, <2>3, <2>4 DEF Ready
  <1> QED
    BY <1>3 DEF InputIsFree

\* No open and no pick holds the buttons with nothing under way: whatever is
\* parked, sent on, overtaken, refused or cut short, what the app waits for is
\* still asked for or its answer is on the way.
THEOREM InputStaysFree == Spec => []InputIsFree
  <1>1. Init => TypeOK /\ CardOK /\ LoopInv
    BY InitTyped, LoopStarts
  <1>2. TypeOK /\ CardOK /\ LoopInv /\ [Next]_vars => (TypeOK /\ CardOK /\ LoopInv)'
    BY StepTyped, LoopStep
  <1>3. LoopInv => InputIsFree
    BY QuietIsFree
  <1> QED
    BY <1>1, <1>2, <1>3, PTL DEF Spec
-----------------------------------------------------------------------------
(***************************************************************************)
(* The page on screen is the one on the card.  What is kept until the card *)
(* has refused something: the queue q and the events ev are read against   *)
(* the app a, as before, and against the storage task t, the places pl and *)
(* the state record st of the card, the pages ch that were chosen and      *)
(* whether a record was lost, lo.                                          *)
(***************************************************************************)
\* The card has refused nothing yet.
Unrefused == spent.faults = MaxFaults

\* The page b is opened at.
OpensAt(pl, st, b) ==
    IF NewestPlace(pl[b]) # None THEN NewestPlace(pl[b])
    ELSE IF st.book = b THEN st.page ELSE 0

\* An open that leaves a book.
Leaves(c) == c.op = "open" /\ c.previous # None
Going(q) == \E i \in DOMAIN q : Leaves(q[i])

Records(q) == {i \in DOMAIN q : q[i].op = "progress"}
LastRecord(q, p) == \E i \in Records(q) : q[i].page = p /\ \A k \in Records(q) : k <= i

\* Where the storage task is, or will be with the records before it handled:
\* where the reader is, or where the open on its way takes them from.
From(a, q) == IF Going(q) THEN q[Len(q)].previous ELSE Spot(a.book, a.page)

\* Such an open is the last thing asked for, only records are before it, and
\* nothing is answered while it is on its way.
GoesAlone(a, q, ev) ==
    Going(q) =>
        /\ Len(q) \in DOMAIN q /\ Leaves(q[Len(q)])
        /\ q[Len(q)].page = 0 /\ a.page = 0
        /\ \A i \in DOMAIN q : i # Len(q) => q[i].op = "progress"
        /\ ~Settling(ev)
        /\ a.opening # None

\* Every answer is a row found, or a book loaded where a save may stand.
Granted(a, ev, ch) ==
    /\ a.unreadable = None
    /\ \A i \in DOMAIN ev :
         \/ ev[i].kind = "row"
         \/ ev[i].kind = "loaded" /\ ev[i].position \in {None} \cup ch[a.book]

\* What is under way is of one book.
OneBook(a, q, t) ==
    /\ \A i \in Records(q) : q[i].book = From(a, q).book
    /\ t.pending # None => t.pending.book = From(a, q).book
    /\ t.reading = From(a, q).book
    /\ t.loaded \in {None, From(a, q).book}
    /\ t.hold # None => t.hold.book = From(a, q).book

\* A hold is of the place the card has.
HeldAsSaved(t, pl) ==
    t.hold # None =>
        /\ t.hold.place # None /\ t.hold.landed = t.hold.place
        /\ t.hold.left = None /\ t.hold.stopped
        /\ t.hold.place = NewestPlace(pl[t.hold.book])

\* The text of the book that is read is in memory.
Resident(a, q, ev, t) ==
    Settling(ev) \/ (a.view = "reading" /\ ~Loading(q)) => t.loaded = a.book

\* The page the card will have for b once what is queued and owed is handled.
Says(q, t, pl, st, b, p) ==
    \/ LastRecord(q, p)
    \/ Records(q) = {} /\ t.pending # None /\ t.pending.page = p
    \/ Records(q) = {} /\ t.pending = None /\ OpensAt(pl, st, b) = p

\* An answer is on its way that moves the reader.
Moving(a, ev) ==
    \E i \in DOMAIN ev : ev[i].kind = "loaded" /\ ev[i].position \notin {None, a.page}

OnItsWay(a, q, ev, t, pl, st, lo) ==
    lo \/ Going(q) \/ Says(q, t, pl, st, a.book, a.page) \/ Moving(a, ev)

\* What is queued and owed was chosen; where the reader is was too, or it is
\* what the card says and nothing else is owed, or the reader is about to move.
Picks(a, q, ev, t, pl, ch) ==
    /\ \A i \in Records(q) : q[i].page \in ch[q[i].book]
    /\ t.pending # None => t.pending.page \in ch[t.pending.book]
    /\ \/ From(a, q).page \in ch[From(a, q).book]
       \/ /\ Records(q) = {} /\ t.pending = None
          /\ NewestPlace(pl[From(a, q).book]) \in {None, From(a, q).page}
       \/ ~Going(q) /\ Moving(a, ev)

AllOrderly(pl) == \A b \in Books : Orderly(pl[b])

Rest(a, q, ev, t, pl, st, ch, lo) ==
    /\ GoesAlone(a, q, ev)
    /\ Granted(a, ev, ch)
    /\ OneBook(a, q, t)
    /\ HeldAsSaved(t, pl)
    /\ Resident(a, q, ev, t)
    /\ OnItsWay(a, q, ev, t, pl, st, lo)
    /\ Picks(a, q, ev, t, pl, ch)
    /\ AllOrderly(pl)

\* The records of r are those of q, or some of them and the last.
Carries(q, r) ==
    /\ \A i \in Records(r) : \E k \in Records(q) : r[i] = q[k]
    /\ \A p : LastRecord(q, p) => LastRecord(r, p)

\* What is said of a page is said still when the records are the same.
LEMMA SaysStill ==
    ASSUME NEW q, NEW r, Carries(q, r), NEW t, NEW pl, NEW st, NEW b, NEW p,
           Says(q, t, pl, st, b, p)
    PROVE  Says(r, t, pl, st, b, p)
  <1>1. Records(q) = {} => Records(r) = {}
    BY DEF Carries
  <1>2. LastRecord(q, p) => LastRecord(r, p)
    BY DEF Carries
  <1> QED
    BY <1>1, <1>2 DEF Says

\* No record is replaced but by an open that leaves a book.
LEMMA QueuedCarries ==
    ASSUME NEW q \in Seq(Commands), NEW c, NEW r \in Seq(Commands), Queued(q, c, r),
           c.op # "progress", ~Leaves(c)
    PROVE  Carries(q, r) /\ (Going(r) => Going(q))
  <1> DEFINE n == Len(r)
  <1>0. DOMAIN r = 1 .. n /\ n \in Nat /\ DOMAIN q \subseteq Int
    BY LenProperties
  <1>1. /\ n \in DOMAIN r /\ r[n] = c
        /\ \A i \in DOMAIN r : i # n => \E k \in DOMAIN q : r[i] = q[k]
        /\ \A i, j \in DOMAIN r : i < j /\ j # n =>
             \E k, l \in DOMAIN q : k < l /\ r[i] = q[k] /\ r[j] = q[l]
        /\ \A k \in DOMAIN q : ~MayReplace(c, q[k]) =>
             \E i \in DOMAIN r :
               /\ i # n /\ r[i] = q[k]
               /\ \A j \in DOMAIN r : i < j /\ j # n =>
                    \E l \in DOMAIN q : k < l /\ r[j] = q[l]
    BY QueuedHas
  <1> HIDE DEF n
  <1>2. \A i \in Records(r) : i # n /\ \E k \in Records(q) : r[i] = q[k]
    BY <1>1 DEF Records
  <1>3. ASSUME NEW p, LastRecord(q, p) PROVE LastRecord(r, p)
    <2>1. PICK k \in Records(q) : q[k].page = p /\ \A l \in Records(q) : l <= k
      BY <1>3 DEF LastRecord
    <2>2. k \in DOMAIN q /\ q[k].op = "progress" /\ ~MayReplace(c, q[k])
      BY <2>1 DEF Records, MayReplace, Leaves
    <2>3. PICK i \in DOMAIN r :
             /\ i # n /\ r[i] = q[k]
             /\ \A j \in DOMAIN r : i < j /\ j # n => \E l \in DOMAIN q : k < l /\ r[j] = q[l]
      BY <1>1, <2>2
    <2>4. i \in Records(r) /\ r[i].page = p
      BY <2>1, <2>2, <2>3 DEF Records
    <2>5. ASSUME NEW j \in Records(r), i < j PROVE FALSE
      <3>1. j \in DOMAIN r /\ j # n /\ r[j].op = "progress"
        BY <1>2 DEF Records
      <3>2. PICK l \in DOMAIN q : k < l /\ r[j] = q[l]
        BY <2>3, <2>5, <3>1
      <3>3. l \in Records(q)
        BY <3>1, <3>2 DEF Records
      <3>4. l <= k /\ l \in Int /\ k \in Int
        BY <1>0, <2>1, <2>2, <3>3
      <3> QED
        BY <3>2, <3>4
    <2>6. \A j \in Records(r) : j <= i
      BY <1>0, <2>3, <2>5 DEF Records
    <2> QED
      BY <2>4, <2>6 DEF LastRecord
  <1>4. Going(r) => Going(q)
    BY <1>1 DEF Going
  <1> QED
    BY <1>2, <1>3, <1>4 DEF Carries

\* A record put behind the queue is the last.
LEMMA QueuedRecord ==
    ASSUME NEW q \in Seq(Commands), NEW c, NEW r \in Seq(Commands), Queued(q, c, r),
           c.op = "progress"
    PROVE  /\ LastRecord(r, c.page)
           /\ \A i \in Records(r) : r[i] = c \/ \E k \in Records(q) : r[i] = q[k]
           /\ Going(r) => Going(q)
           /\ Loading(q) => Loading(r)
  <1> DEFINE n == Len(r)
  <1>0. DOMAIN r = 1 .. n /\ n \in Nat
    BY LenProperties
  <1>1. /\ n \in DOMAIN r /\ r[n] = c
        /\ \A i \in DOMAIN r : i # n => \E k \in DOMAIN q : r[i] = q[k]
        /\ \A k \in DOMAIN q : ~MayReplace(c, q[k]) => \E i \in DOMAIN r : r[i] = q[k]
    BY QueuedHas
  <1> HIDE DEF n
  <1>2. n \in Records(r) /\ \A i \in Records(r) : i <= n
    BY <1>0, <1>1 DEF Records
  <1>3. Going(r) => Going(q)
    BY <1>1 DEF Going, Leaves
  <1>4. Loading(q) => Loading(r)
    BY <1>1 DEF Loading, MayReplace, Load
  <1> QED
    BY <1>1, <1>2, <1>3, <1>4 DEF LastRecord, Records

\* What has gone from the head was no record, or not the last.
LEMMA TailCarries ==
    ASSUME NEW q \in Seq(Commands), q # <<>>
    PROVE  /\ Going(Tail(q)) => Going(q)
           /\ \A i \in Records(Tail(q)) : \E k \in Records(q) : Tail(q)[i] = q[k]
           /\ Head(q).op # "progress" \/ Records(Tail(q)) # {} => Carries(q, Tail(q))
           /\ Records(Tail(q)) = {} =>
                \A p : LastRecord(q, p) => Head(q).op = "progress" /\ p = Head(q).page
  <1> DEFINE r == Tail(q)
  <1>1. /\ 1 \in DOMAIN q /\ Head(q) = q[1]
        /\ \A i \in DOMAIN r : i + 1 \in DOMAIN q /\ r[i] = q[i + 1]
        /\ \A k \in DOMAIN q : k # 1 => k - 1 \in DOMAIN r /\ r[k - 1] = q[k]
        /\ DOMAIN q = 1 .. Len(q) /\ Len(q) \in Nat
        /\ DOMAIN r = 1 .. Len(q) - 1
    <2>1. Tail(q) \in Seq(Commands) /\ Len(Tail(q)) = Len(q) - 1
      BY TailHas
    <2>2. DOMAIN Tail(q) = 1 .. Len(q) - 1
      BY <2>1, LenProperties
    <2> QED
      BY <2>2, TailHas
  <1> HIDE DEF r
  <1>2. Going(r) => Going(q)
    BY <1>1 DEF Going
  <1>3. \A i \in Records(r) : i + 1 \in Records(q) /\ r[i] = q[i + 1]
    BY <1>1 DEF Records
  <1>4. \A k \in Records(q) : k # 1 => k - 1 \in Records(r)
    BY <1>1 DEF Records
  <1>5. ASSUME NEW p, LastRecord(q, p), Head(q).op # "progress" \/ Records(r) # {}
        PROVE  LastRecord(r, p)
    <2>1. PICK k \in Records(q) : q[k].page = p /\ \A l \in Records(q) : l <= k
      BY <1>5 DEF LastRecord
    <2>2. k # 1
      <3>1. CASE Head(q).op # "progress"
        BY <1>1, <2>1, <3>1 DEF Records
      <3>2. CASE Records(r) # {}
        <4>1. PICK i \in Records(r) : TRUE
          BY <3>2
        <4>2. i + 1 <= k /\ i \in 1 .. Len(q) - 1
          BY <1>1, <1>3, <2>1, <4>1 DEF Records
        <4> QED
          BY <1>1, <4>2
      <3> QED
        BY <1>5, <3>1, <3>2
    <2>3. k - 1 \in Records(r) /\ r[k - 1].page = p
      BY <1>1, <1>4, <2>1, <2>2 DEF Records
    <2>4. ASSUME NEW j \in Records(r) PROVE j <= k - 1
      <3>1. j + 1 <= k /\ j \in Int /\ k \in Int
        BY <1>1, <1>3, <2>1 DEF Records
      <3> QED
        BY <3>1
    <2> QED
      BY <2>3, <2>4 DEF LastRecord
  <1>6. ASSUME Records(r) = {}, NEW p, LastRecord(q, p)
        PROVE  Head(q).op = "progress" /\ p = Head(q).page
    <2>1. PICK k \in Records(q) : q[k].page = p
      BY <1>6 DEF LastRecord
    <2>2. k = 1
      BY <1>4, <1>6, <2>1
    <2> QED
      BY <1>1, <2>1, <2>2 DEF Records
  <1>7. \A i \in Records(r) : \E k \in Records(q) : r[i] = q[k]
    BY <1>3
  <1> QED
    BY <1>2, <1>5, <1>6, <1>7 DEF Carries, r

-----------------------------------------------------------------------------
\* The reader where they were, with what is asked for still asked for.
LEMMA StayRest ==
    ASSUME NEW a, NEW b, NEW q, NEW r, NEW ev, NEW w, NEW t, NEW pl, NEW st, NEW ch,
           NEW lo, NEW lo2,
           Rest(a, q, ev, t, pl, st, ch, lo), ~Going(q), ~Going(r), Carries(q, r), lo => lo2,
           b.book = a.book, b.page = a.page, b.unreadable = None,
           \A i \in DOMAIN w : w[i].kind = "row" \/ \E k \in DOMAIN ev : w[i] = ev[k],
           Moving(a, ev) => Moving(b, w),
           Resident(b, r, w, t)
    PROVE  Rest(b, r, w, t, pl, st, ch, lo2)
  <1>1. GoesAlone(b, r, w)
    BY DEF GoesAlone
  <1>2. Granted(b, w, ch)
    BY DEF Rest, Granted
  <1>3. From(b, r) = From(a, q) /\ From(a, q) = Spot(a.book, a.page)
    BY DEF From
  <1>4. /\ \A i \in Records(r) : \E k \in Records(q) : r[i] = q[k]
        /\ Records(q) = {} => Records(r) = {}
    BY DEF Carries
  <1>5. OneBook(b, r, t)
    BY <1>3, <1>4 DEF Rest, OneBook
  <1>6. HeldAsSaved(t, pl) /\ AllOrderly(pl)
    BY DEF Rest
  <1>7. OnItsWay(b, r, w, t, pl, st, lo2)
    <2>1. Says(q, t, pl, st, a.book, a.page) => Says(r, t, pl, st, b.book, b.page)
      BY SaysStill
    <2> QED
      BY <2>1 DEF Rest, OnItsWay
  <1>8. Picks(b, r, w, t, pl, ch)
    BY <1>3, <1>4 DEF Rest, Picks
  <1> QED
    BY <1>1, <1>2, <1>5, <1>6, <1>7, <1>8 DEF Rest

\* The reader on a page that was chosen, with a record of it asked for or lost.
LEMMA MoveRest ==
    ASSUME NEW a, NEW b, NEW q, NEW r, NEW ev, NEW w, NEW t, NEW pl, NEW st, NEW ch, NEW ch2,
           NEW lo, NEW lo2,
           Rest(a, q, ev, t, pl, st, ch, lo), ~Going(q), ~Going(r),
           \A i \in Records(r) :
             \/ \E k \in Records(q) : r[i] = q[k]
             \/ r[i].book = a.book /\ r[i].page = b.page,
           lo2 \/ LastRecord(r, b.page),
           b.book = a.book, b.page \in ch2[a.book], b.unreadable = None,
           ch[a.book] \subseteq ch2[a.book],
           \A i \in DOMAIN w : \E k \in DOMAIN ev : w[i] = ev[k],
           Resident(b, r, w, t)
    PROVE  Rest(b, r, w, t, pl, st, ch2, lo2)
  <1>1. GoesAlone(b, r, w)
    BY DEF GoesAlone
  <1>2. Granted(b, w, ch2)
    BY DEF Rest, Granted
  <1>3. /\ From(b, r) = Spot(a.book, b.page) /\ From(a, q) = Spot(a.book, a.page)
        /\ From(b, r).book = a.book /\ From(b, r).page = b.page /\ From(a, q).book = a.book
    BY DEF From, Spot
  <1>5. OneBook(b, r, t)
    BY <1>3 DEF Rest, OneBook
  <1>6. HeldAsSaved(t, pl) /\ AllOrderly(pl)
    BY DEF Rest
  <1>7. OnItsWay(b, r, w, t, pl, st, lo2)
    BY DEF OnItsWay, Says
  <1>8. Picks(b, r, w, t, pl, ch2)
    <2>1. /\ \A i \in Records(q) : q[i].page \in ch[a.book]
          /\ t.pending # None => t.pending.page \in ch[a.book] /\ t.pending.book = a.book
      BY <1>3 DEF Rest, Picks, OneBook
    <2>2. \A i \in Records(r) : r[i].page \in ch2[a.book] /\ r[i].book = a.book
      BY <1>3, <1>5, <2>1 DEF OneBook
    <2> QED
      BY <1>3, <2>1, <2>2 DEF Picks
  <1> QED
    BY <1>1, <1>2, <1>5, <1>6, <1>7, <1>8 DEF Rest

\* Where the reader is, as far as the above goes.
Placed(a, b) ==
    /\ b.book = a.book /\ b.page = a.page /\ b.unreadable = a.unreadable /\ b.view = a.view
    /\ a.opening # None => b.opening # None

LEMMA PlacedRest ==
    ASSUME NEW a, NEW b, NEW q, NEW ev, NEW t, NEW pl, NEW st, NEW ch, NEW lo,
           Placed(a, b), Rest(a, q, ev, t, pl, st, ch, lo)
    PROVE  Rest(b, q, ev, t, pl, st, ch, lo)
  <1>1. GoesAlone(b, q, ev)
    BY DEF Placed, Rest, GoesAlone
  <1>2. Granted(b, ev, ch)
    BY DEF Placed, Rest, Granted
  <1>3. From(b, q) = From(a, q)
    BY DEF Placed, From
  <1>5. OneBook(b, q, t)
    BY <1>3 DEF Rest, OneBook
  <1>6. HeldAsSaved(t, pl) /\ AllOrderly(pl)
    BY DEF Rest
  <1>7. Moving(b, ev) <=> Moving(a, ev)
    BY DEF Placed, Moving
  <1>8. OnItsWay(b, q, ev, t, pl, st, lo)
    BY <1>7 DEF Placed, Rest, OnItsWay
  <1>9. Picks(b, q, ev, t, pl, ch)
    BY <1>3, <1>7 DEF Rest, Picks
  <1>10. Resident(b, q, ev, t)
    BY DEF Placed, Rest, Resident
  <1> QED
    BY <1>1, <1>2, <1>5, <1>6, <1>8, <1>9, <1>10 DEF Rest

\* A frame, a gate lifted and an open handed over leave the reader there.
LEMMA PlacedStill ==
    ASSUME NEW a \in AppStates
    PROVE  /\ Placed(a, Rendered(a)) /\ Rendered(a) \in AppStates
           /\ Placed(a, Lifted(a)) /\ Lifted(a) \in AppStates
           /\ \A f \in Frames \cup {None}, g \in BOOLEAN :
                /\ Placed(a, [a EXCEPT !.frame = f, !.again = g])
                /\ [a EXCEPT !.frame = f, !.again = g] \in AppStates
           /\ \A f \in Frames \cup {None} :
                /\ Placed(a, [a EXCEPT !.frame = f])
                /\ [a EXCEPT !.frame = f] \in AppStates
  <1>1. Render(a) \in Frames
    BY AppHas
  <1>2. \A f \in Frames \cup {None} :
          /\ Placed(a, [a EXCEPT !.frame = f])
          /\ [a EXCEPT !.frame = f] \in AppStates
    BY DEF Placed, AppStates
  <1>3. Placed(a, [a EXCEPT !.again = TRUE]) /\ [a EXCEPT !.again = TRUE] \in AppStates
    BY DEF Placed, AppStates
  <1>4. Placed(a, [a EXCEPT !.gated = FALSE]) /\ [a EXCEPT !.gated = FALSE] \in AppStates
    BY DEF Placed, AppStates
  <1>5. \A f \in Frames \cup {None}, g \in BOOLEAN :
          /\ Placed(a, [a EXCEPT !.frame = f, !.again = g])
          /\ [a EXCEPT !.frame = f, !.again = g] \in AppStates
    BY DEF Placed, AppStates
  <1>6. Placed(a, a)
    BY DEF Placed
  <1> QED
    BY <1>1, <1>2, <1>3, <1>4, <1>5, <1>6 DEF Rendered, Lifted

LEMMA PlacedAccepted ==
    ASSUME NEW a \in AppStates, NEW h \in Seq(Commands)
    PROVE  Placed(a, Accepted(a, h))
  <1> DEFINE opens == {i \in DOMAIN h : h[i].op = "open"}
             k == CHOOSE i \in opens : \A j \in opens : j <= i
             d == Accepted(a, h)
  <1>1. d = a \/ d = [a EXCEPT !.opening = h[k].book, !.gated = TRUE]
    BY DEF Accepted
  <1>2. /\ d = a \/ \E i \in DOMAIN h :
                     d.opening = h[i].book /\ h[i].op = "open"
    BY AcceptedIs
  <1>3. \A i \in DOMAIN h : h[i].book # None
    <2>1. \A i \in DOMAIN h : h[i] \in Commands
      BY ElementOfSeq, LenProperties
    <2>2. \A i \in DOMAIN h : h[i].book \in Books
      BY <2>1, CommandHas
    <2> QED
      BY <2>2, NoneAssumption
  <1> HIDE DEF k, opens
  <1>4. CASE d = a
    BY <1>4 DEF Placed
  <1>5. CASE d = [a EXCEPT !.opening = h[k].book, !.gated = TRUE] /\ d # a
    <2>1. /\ d.book = a.book /\ d.page = a.page /\ d.unreadable = a.unreadable /\ d.view = a.view
      BY <1>5 DEF AppStates
    <2>2. d.opening # None
      BY <1>2, <1>3, <1>5
    <2> HIDE DEF d
    <2>3. Placed(a, d)
      BY <2>1, <2>2 DEF Placed
    <2> QED
      BY <2>3 DEF d
  <1> QED
    BY <1>1, <1>4, <1>5

\* Where a command leaves the reader, whether it was taken or not.
LEMMA AfterWhere ==
    ASSUME NEW b \in AppStates, NEW n \in AppStates, NEW c \in Commands, Load(c),
           NEW taken \in BOOLEAN
    PROVE  LET a == AfterDispatch(b, n, c, taken) IN
           /\ a \in AppStates
           /\ a.unreadable = n.unreadable
           /\ taken \/ ~IsOpen(c) => a.view = n.view /\ a.book = n.book /\ a.page = n.page
           /\ ~taken /\ IsOpen(c) => a.view = b.view /\ a.book = b.book /\ a.page = b.page
           /\ taken /\ IsOpen(c) => a.opening = c.book
           /\ ~taken \/ ~IsOpen(c) => a.opening = n.opening
  <1> DEFINE a == AfterDispatch(b, n, c, taken)
  <1>0. c # None /\ (IsOpen(c) => c.id \in Nat /\ c.book \in Books) /\ (Load(c) => c.id \in Nat)
    BY CommandHas DEF Load, IsOpen
  <1>1. CASE ~taken /\ IsOpen(c)
    <2>1. a = [n EXCEPT !.view = b.view, !.book = b.book, !.page = b.page,
                        !.counted = b.counted]
      BY <1>0, <1>1, AppHas DEF AfterDispatch, RestoreAfterFailedOpen
    <2>2. /\ a.unreadable = n.unreadable /\ a.opening = n.opening
          /\ a.view = b.view /\ a.book = b.book /\ a.page = b.page
      BY <2>1 DEF AppStates
    <2> QED
      BY <1>1, <2>2, AfterIs
  <1>2. CASE ~taken /\ ~IsOpen(c)
    <2>1. a = n
      BY <1>0, <1>2 DEF AfterDispatch
    <2> QED
      BY <1>2, <2>1
  <1>3. CASE taken /\ IsOpen(c)
    <2>1. a = [n EXCEPT !.request = c.id, !.opening = c.book, !.gated = TRUE,
                        !.rollback = Rollback(b)]
      BY <1>0, <1>3 DEF AfterDispatch
    <2>2. /\ a.unreadable = n.unreadable /\ a.opening = c.book
          /\ a.view = n.view /\ a.book = n.book /\ a.page = n.page
      BY <2>1 DEF AppStates
    <2> QED
      BY <1>3, <2>2, AfterIs
  <1>4. CASE taken /\ ~IsOpen(c)
    <2>1. a = [n EXCEPT !.request = c.id]
      BY <1>0, <1>4 DEF AfterDispatch
    <2>2. /\ a.unreadable = n.unreadable /\ a.opening = n.opening
          /\ a.view = n.view /\ a.book = n.book /\ a.page = n.page
      BY <2>1 DEF AppStates
    <2> QED
      BY <1>4, <2>2, AfterIs
  <1> QED
    BY <1>1, <1>2, <1>3, <1>4

\* The same, of a request that was taken and of one that was not.
Taken(b, n, c) == AfterDispatch(b, n, c, TRUE)
Untaken(b, n, c) == AfterDispatch(b, n, c, FALSE)

LEMMA Whereabouts ==
    ASSUME NEW b \in AppStates, NEW n \in AppStates, NEW c \in Commands, Load(c)
    PROVE  /\ Taken(b, n, c).unreadable = n.unreadable
           /\ Taken(b, n, c).view = n.view
           /\ Taken(b, n, c).book = n.book /\ Taken(b, n, c).page = n.page
           /\ IsOpen(c) => Taken(b, n, c).opening = c.book
           /\ ~IsOpen(c) => Taken(b, n, c).opening = n.opening
           /\ Untaken(b, n, c).unreadable = n.unreadable
           /\ Untaken(b, n, c).opening = n.opening
           /\ ~IsOpen(c) =>
                /\ Untaken(b, n, c).view = n.view
                /\ Untaken(b, n, c).book = n.book /\ Untaken(b, n, c).page = n.page
           /\ IsOpen(c) =>
                /\ Untaken(b, n, c).view = b.view
                /\ Untaken(b, n, c).book = b.book /\ Untaken(b, n, c).page = b.page
  <1>1. PICK yes \in BOOLEAN, no \in BOOLEAN : yes = TRUE /\ no = FALSE
    OBVIOUS
  <1>2. /\ Taken(b, n, c).unreadable = n.unreadable
        /\ Taken(b, n, c).view = n.view
        /\ Taken(b, n, c).book = n.book /\ Taken(b, n, c).page = n.page
        /\ IsOpen(c) => Taken(b, n, c).opening = c.book
        /\ ~IsOpen(c) => Taken(b, n, c).opening = n.opening
    <2> DEFINE a == Taken(b, n, c)
    <2>1. a = AfterDispatch(b, n, c, yes)
      BY <1>1 DEF Taken
    <2> HIDE DEF a
    <2>2. a.unreadable = n.unreadable
      BY <2>1, AfterWhere
    <2>3. a.view = n.view /\ a.book = n.book /\ a.page = n.page
      BY <1>1, <2>1, AfterWhere
    <2>4. IsOpen(c) => a.opening = c.book
      BY <1>1, <2>1, AfterWhere
    <2>5. ~IsOpen(c) => a.opening = n.opening
      BY <1>1, <2>1, AfterWhere
    <2> QED
      BY <2>2, <2>3, <2>4, <2>5 DEF a
  <1>3. /\ Untaken(b, n, c).unreadable = n.unreadable
        /\ Untaken(b, n, c).opening = n.opening
        /\ ~IsOpen(c) =>
                /\ Untaken(b, n, c).view = n.view
                /\ Untaken(b, n, c).book = n.book /\ Untaken(b, n, c).page = n.page
        /\ IsOpen(c) =>
                /\ Untaken(b, n, c).view = b.view
                /\ Untaken(b, n, c).book = b.book /\ Untaken(b, n, c).page = b.page
    <2> DEFINE a == Untaken(b, n, c)
    <2>1. a = AfterDispatch(b, n, c, no)
      BY <1>1 DEF Untaken
    <2> HIDE DEF a
    <2>2. a.unreadable = n.unreadable
      BY <2>1, AfterWhere
    <2>3. a.opening = n.opening
      BY <1>1, <2>1, AfterWhere
    <2>4. ~IsOpen(c) => a.view = n.view /\ a.book = n.book /\ a.page = n.page
      BY <1>1, <2>1, AfterWhere, SMTT(60)
    <2>5. IsOpen(c) => a.view = b.view /\ a.book = b.book /\ a.page = b.page
      BY <1>1, <2>1, AfterWhere
    <2> QED
      BY <2>2, <2>3, <2>4, <2>5 DEF a
  <1> QED
    BY <1>2, <1>3

\* What becomes of a transition, with what is asked for and what is lost: its
\* command is taken or not; a record that is owed is asked for or lost.
CarriedOn(b, n, c, a, r) ==
    /\ app' = Rendered(a)
    /\ sent' \o parked' \in Seq(Commands)
    /\ lost' \in BOOLEAN
    /\ \/ c = None /\ a = n /\ r = Queue
       \/ c # None /\ a = Taken(b, n, c) /\ Queued(Queue, c, r)
       \/ c # None /\ a = Untaken(b, n, c) /\ r = Queue
    /\ \/ /\ ~ProgressOwed(b, a, c) /\ sent' \o parked' = r
          /\ lost /\ ~(Queued(Queue, c, r) /\ IsOpen(c) /\ c.previous # None) => lost'
       \/ ProgressOwed(b, a, c) /\ lost' /\ sent' \o parked' = r
       \/ /\ ProgressOwed(b, a, c)
          /\ StoreProgress(a.book, a.page) \in Commands
          /\ Queued(r, StoreProgress(a.book, a.page), sent' \o parked')

LEMMA CarrySays ==
    ASSUME parked \in Seq(Commands), Len(parked) <= ParkedSlots,
           sent \in Seq(Commands), Len(sent) <= QueueSlots, lost \in BOOLEAN,
           NEW b \in AppStates, NEW n \in AppStates,
           NEW c \in Commands \cup {None}, c # None => Load(c),
           Carry(b, n, c)
    PROVE  \E a \in AppStates, r \in Seq(Commands) : CarriedOn(b, n, c, a, r)
  <1> DEFINE first == IF c = None THEN Line ELSE Dispatch(Line, c)
             after == AfterDispatch(b, n, c, first.taken)
             owed == ProgressOwed(b, after, c)
             w == StoreProgress(after.book, after.page)
             last == IF owed THEN Dispatch(first, w) ELSE first
  <1>1. /\ Line \in Lines /\ Fits(Line) /\ QueueOf(Line) = Queue
    BY DEF Line, Lines, Fits, QueueOf, Queue
  <1>2. /\ first \in Lines /\ Fits(first)
        /\ c # None /\ first.taken => Queued(Queue, c, QueueOf(first))
        /\ c # None /\ ~first.taken => QueueOf(first) = Queue
        /\ c = None => QueueOf(first) = Queue
    BY <1>1, DispatchIs
  <1>3. /\ app' = Rendered(after) /\ parked' = last.parked /\ sent' = last.sent
        /\ lost' = IF owed THEN ~last.taken
                   ELSE (lost /\ ~(IsOpen(c) /\ c.previous # None /\ first.taken))
                        \/ TurnedUnread(b, after, c)
    BY DEF Carry
  <1> HIDE DEF first
  <1>4. first.taken \in BOOLEAN
    BY <1>2 DEF Lines
  <1>5. /\ after \in AppStates
        /\ \/ c = None /\ after = n
           \/ c # None /\ first.taken /\ after = AfterDispatch(b, n, c, TRUE)
           \/ c # None /\ ~first.taken /\ after = AfterDispatch(b, n, c, FALSE)
    <2>1. CASE c = None
      BY <2>1 DEF AfterDispatch
    <2>2. CASE c # None /\ first.taken
      BY <1>4, <2>2, AfterIs
    <2>3. CASE c # None /\ ~first.taken
      BY <1>4, <2>3, AfterIs
    <2> QED
      BY <1>4, <2>1, <2>2, <2>3
  <1> HIDE DEF after
  <1>6. w \in Commands
    BY <1>5, AppHas DEF StoreProgress, Commands
  <1>7. QueueOf(first) \in Seq(Commands)
    BY <1>2, ConcatProperties DEF QueueOf, Lines
  <1>8. last \in Lines /\ Fits(last)
    BY <1>2, <1>6, DispatchIs
  <1>9. owed => \/ ~last.taken /\ QueueOf(last) = QueueOf(first)
                \/ Queued(QueueOf(first), w, QueueOf(last))
    BY <1>2, <1>6, <1>8, DispatchIs
  <1>10. ~owed => QueueOf(last) = QueueOf(first)
    OBVIOUS
  <1> HIDE DEF last, owed, w
  <1>11. sent' \o parked' = QueueOf(last) /\ QueueOf(last) \in Seq(Commands)
    BY <1>3, <1>8, ConcatProperties DEF Lines, QueueOf
  <1>12. lost' \in BOOLEAN
    BY <1>3
  <1>13. \/ c = None /\ after = n /\ QueueOf(first) = Queue
         \/ c # None /\ after = AfterDispatch(b, n, c, TRUE) /\ Queued(Queue, c, QueueOf(first))
         \/ c # None /\ after = AfterDispatch(b, n, c, FALSE) /\ QueueOf(first) = Queue
    BY <1>2, <1>5
  <1>14. CASE ~owed
    <2>1. lost /\ ~(Queued(Queue, c, QueueOf(first)) /\ IsOpen(c) /\ c.previous # None) => lost'
      <3>1. IsOpen(c) /\ first.taken => Queued(Queue, c, QueueOf(first))
        BY <1>2 DEF IsOpen
      <3>2. lost /\ ~(IsOpen(c) /\ c.previous # None /\ first.taken) => lost'
        BY <1>3, <1>14
      <3> QED
        BY <3>1, <3>2
    <2>2. ~ProgressOwed(b, after, c)
      BY <1>14 DEF owed
    <2> QED
      BY <1>3, <1>5, <1>7, <1>10, <1>11, <1>12, <1>13, <1>14, <2>1, <2>2 DEF CarriedOn, Taken, Untaken
  <1>15. CASE owed
    <2>1. ProgressOwed(b, after, c)
      BY <1>15 DEF owed
    <2>2. ~last.taken => lost'
      BY <1>3, <1>15
    <2>3. \/ ~last.taken /\ sent' \o parked' = QueueOf(first)
          \/ Queued(QueueOf(first), StoreProgress(after.book, after.page), sent' \o parked')
      BY <1>9, <1>11, <1>15 DEF w
    <2>4. StoreProgress(after.book, after.page) \in Commands
      BY <1>6 DEF w
    <2> QED
      BY <1>3, <1>5, <1>7, <1>11, <1>12, <1>13, <2>1, <2>2, <2>3, <2>4 DEF CarriedOn, Taken, Untaken
  <1> QED
    BY <1>14, <1>15

-----------------------------------------------------------------------------
(***************************************************************************)
(* What the app does keeps it.                                             *)
(***************************************************************************)
\* It holds of the app after a step, with the events w and the rest as given.
RestThen(w, t, pl, st, ch) ==
    \E a, q, lo : /\ app' = a /\ sent' \o parked' = q /\ lost' = lo
                  /\ Rest(a, q, w, t, pl, st, ch, lo)

\* A transition that leaves the reader on the page.
LEMMA CarryStays ==
    ASSUME AppOK, lost \in BOOLEAN, NEW b \in AppStates, NEW n \in AppStates,
           NEW c \in Commands \cup {None},
           c # None => c.op = "open" /\ c.previous = None,
           Carry(b, n, c),
           NEW q, q = Queue, NEW lo, lo = lost,
           NEW ev, NEW t, NEW pl, NEW st, NEW ch, Rest(b, q, ev, t, pl, st, ch, lo),
           ~Going(q), n.book = b.book, n.page = b.page, n.unreadable = None,
           NEW w, \A i \in DOMAIN w : \E k \in DOMAIN ev : w[i] = ev[k],
           \A d : d.page = b.page /\ Moving(b, ev) => Moving(d, w),
           Settling(w) => t.loaded = b.book,
           n.view = "reading" /\ c = None /\ ~Loading(q) => t.loaded = b.book
    PROVE  RestThen(w, t, pl, st, ch)
  <1>1. /\ parked \in Seq(Commands) /\ Len(parked) <= ParkedSlots
        /\ sent \in Seq(Commands) /\ Len(sent) <= QueueSlots
    BY DEF AppOK
  <1>2. /\ c # None => Load(c) /\ ~Leaves(c) /\ c.op # "progress" /\ IsOpen(c)
        /\ IsOpen(c) => c.previous = None
    BY DEF Load, Leaves, IsOpen
  <1>3. PICK a \in AppStates, r \in Seq(Commands) : CarriedOn(b, n, c, a, r)
    BY <1>1, <1>2, CarrySays
  <1>30. /\ app' = Rendered(a)
         /\ sent' \o parked' \in Seq(Commands)
         /\ lost' \in BOOLEAN
         /\ \/ c = None /\ a = n /\ r = Queue
            \/ c # None /\ a = Taken(b, n, c) /\ Queued(Queue, c, r)
            \/ c # None /\ a = Untaken(b, n, c) /\ r = Queue
         /\ \/ /\ ~ProgressOwed(b, a, c) /\ sent' \o parked' = r
               /\ lost /\ ~(Queued(Queue, c, r) /\ IsOpen(c) /\ c.previous # None) => lost'
            \/ ProgressOwed(b, a, c) /\ lost' /\ sent' \o parked' = r
            \/ /\ ProgressOwed(b, a, c)
               /\ StoreProgress(a.book, a.page) \in Commands
               /\ Queued(r, StoreProgress(a.book, a.page), sent' \o parked')
    BY <1>3 DEF CarriedOn
  <1>4. q \in Seq(Commands)
    BY <1>1, ConcatProperties DEF Queue
  <1>5. /\ a.book = b.book /\ a.page = b.page /\ a.unreadable = None
        /\ r = q => a.view \in {b.view, n.view} /\ (c = None => a.view = n.view)
        /\ r = q /\ c # None /\ ~Queued(q, c, r) => a.view = b.view
    <2>1. CASE c = None
      BY <1>30, <2>1
    <2>2. CASE c # None
      <3>1. a = Taken(b, n, c) \/ a = Untaken(b, n, c)
        BY <1>30, <2>2
      <3>2. c \in Commands /\ Load(c)
        BY <1>2, <2>2
      <3>3. \/ a.view = n.view
            \/ IsOpen(c) /\ a.view = b.view /\ a = Untaken(b, n, c)
        BY <3>1, <3>2, Whereabouts
      <3>4. a.book = n.book /\ a.page = n.page /\ a.unreadable = n.unreadable
        BY <3>1, <3>2, Whereabouts
      <3>5. ~Queued(q, c, r) => a.view = b.view
        BY <1>2, <1>30, <2>2, <3>2, Whereabouts
      <3> QED
        BY <1>2, <2>2, <3>3, <3>4, <3>5
    <2> QED
      BY <2>1, <2>2
  <1>6. ~ProgressOwed(b, a, c)
    BY <1>5 DEF ProgressOwed
  <1>7. sent' \o parked' = r /\ (lo => lost')
    BY <1>2, <1>30, <1>6
  <1>8. Carries(q, r) /\ ~Going(r) /\ (Queued(q, c, r) /\ c # None => Loading(r))
    <2>1. CASE ~(c # None /\ Queued(q, c, r))
      BY <1>30, <2>1 DEF Carries
    <2>2. ASSUME c # None, Queued(q, c, r)
          PROVE  Carries(q, r) /\ ~Going(r) /\ Loading(r)
      <3>1. Carries(q, r) /\ ~Going(r)
        BY <1>2, <1>4, <2>2, QueuedCarries
      <3>2. Len(r) \in DOMAIN r /\ r[Len(r)] = c
        BY <1>4, <2>2, QueuedHas
      <3> QED
        BY <1>2, <2>2, <3>1, <3>2 DEF Loading
    <2> QED
      BY <1>30, <2>1, <2>2
  <1>9. Resident(a, r, w, t)
    <2>1. CASE c # None /\ Queued(q, c, r)
      BY <1>5, <1>8, <2>1 DEF Resident
    <2>2. CASE c = None
      BY <1>30, <1>5, <2>2 DEF Resident
    <2>3. CASE c # None /\ ~Queued(q, c, r)
      <3>1. r = q /\ a.view = b.view
        BY <1>30, <1>5, <2>3
      <3> QED
        BY <1>5, <2>3, <3>1 DEF Rest, Resident
    <2> QED
      BY <2>1, <2>2, <2>3
  <1>10. Moving(b, ev) => Moving(a, w)
    BY <1>5
  <1>11. Rest(a, r, w, t, pl, st, ch, lost')
    <2>1. PICK lo2 : lo2 = lost'
      OBVIOUS
    <2>2. Rest(a, r, w, t, pl, st, ch, lo2)
      BY <1>5, <1>7, <1>8, <1>9, <1>10, <2>1, StayRest
    <2> QED
      BY <2>1, <2>2
  <1>12. Rest(Rendered(a), r, w, t, pl, st, ch, lost')
    <2>1. PICK lo2 : lo2 = lost'
      OBVIOUS
    <2>2. Rest(a, r, w, t, pl, st, ch, lo2)
      BY <1>11, <2>1
    <2>3. Rest(Rendered(a), r, w, t, pl, st, ch, lo2)
      BY <2>2, PlacedStill, PlacedRest
    <2> QED
      BY <2>1, <2>3
  <1> QED
    BY <1>30, <1>7, <1>12 DEF RestThen

\* A transition that moves the reader to a page that was chosen.
LEMMA CarryMoves ==
    ASSUME AppOK, lost \in BOOLEAN, NEW b \in AppStates, NEW n \in AppStates,
           NEW c \in Commands \cup {None}, c # None => c.op = "extend",
           Carry(b, n, c),
           NEW q, q = Queue, NEW lo, lo = lost,
           NEW ev, NEW t, NEW pl, NEW st, NEW ch, NEW ch2, Rest(b, q, ev, t, pl, st, ch, lo),
           ~Going(q), n.book = b.book, n.page # b.page, n.unreadable = None,
           ch[b.book] \subseteq ch2[b.book], n.page \in ch2[b.book],
           NEW w, \A i \in DOMAIN w : \E k \in DOMAIN ev : w[i] = ev[k],
           Settling(w) => t.loaded = b.book,
           n.view = "reading" /\ ~Loading(q) => t.loaded = b.book
    PROVE  RestThen(w, t, pl, st, ch2)
  <1>1. /\ parked \in Seq(Commands) /\ Len(parked) <= ParkedSlots
        /\ sent \in Seq(Commands) /\ Len(sent) <= QueueSlots
    BY DEF AppOK
  <1>2. c # None => Load(c) /\ ~Leaves(c) /\ c.op # "progress" /\ ~IsOpen(c)
    BY DEF Load, Leaves, IsOpen
  <1>3. PICK a \in AppStates, r \in Seq(Commands) : CarriedOn(b, n, c, a, r)
    BY <1>1, <1>2, CarrySays
  <1>30. /\ app' = Rendered(a)
         /\ sent' \o parked' \in Seq(Commands)
         /\ lost' \in BOOLEAN
         /\ \/ c = None /\ a = n /\ r = Queue
            \/ c # None /\ a = Taken(b, n, c) /\ Queued(Queue, c, r)
            \/ c # None /\ a = Untaken(b, n, c) /\ r = Queue
         /\ \/ /\ ~ProgressOwed(b, a, c) /\ sent' \o parked' = r
               /\ lost /\ ~(Queued(Queue, c, r) /\ IsOpen(c) /\ c.previous # None) => lost'
            \/ ProgressOwed(b, a, c) /\ lost' /\ sent' \o parked' = r
            \/ /\ ProgressOwed(b, a, c)
               /\ StoreProgress(a.book, a.page) \in Commands
               /\ Queued(r, StoreProgress(a.book, a.page), sent' \o parked')
    BY <1>3 DEF CarriedOn
  <1>4. q \in Seq(Commands)
    BY <1>1, ConcatProperties DEF Queue
  <1>5. a.book = b.book /\ a.page = n.page /\ a.unreadable = None /\ a.view = n.view
    <2>1. CASE c = None
      BY <1>30, <2>1
    <2>2. CASE c # None
      <3>1. a = Taken(b, n, c) \/ a = Untaken(b, n, c)
        BY <1>30, <2>2
      <3> QED
        BY <1>2, <2>2, <3>1, Whereabouts
    <2> QED
      BY <2>1, <2>2
  <1>6. ProgressOwed(b, a, c)
    <2>1. a.unreadable # a.book
      BY <1>5, AppHas
    <2>2. ~IsOpen(c)
      BY <1>2 DEF IsOpen
    <2> QED
      BY <1>5, <2>1, <2>2 DEF ProgressOwed, Unreadable
  <1>7. Carries(q, r) /\ ~Going(r) /\ (Loading(q) => Loading(r)) /\ (r # q => Loading(r))
    <2>1. CASE r = q
      BY <2>1 DEF Carries
    <2>2. ASSUME c # None, Queued(q, c, r)
          PROVE  Carries(q, r) /\ ~Going(r) /\ Loading(r)
      <3>1. Carries(q, r) /\ ~Going(r)
        BY <1>2, <1>4, <2>2, QueuedCarries
      <3>2. Len(r) \in DOMAIN r /\ r[Len(r)] = c
        BY <1>4, <2>2, QueuedHas
      <3> QED
        BY <1>2, <2>2, <3>1, <3>2 DEF Loading
    <2> QED
      BY <1>30, <2>1, <2>2
  <1> DEFINE x == StoreProgress(a.book, a.page)
  <1>8. x.op = "progress" /\ x.book = b.book /\ x.page = a.page
    BY <1>5 DEF StoreProgress
  <1>9. \/ lost' /\ sent' \o parked' = r
        \/ Queued(r, x, sent' \o parked')
    BY <1>30, <1>6
  <1> HIDE DEF x
  <1>10. PICK s \in Seq(Commands), lo2 \in BOOLEAN : sent' \o parked' = s /\ lo2 = lost'
    BY <1>30
  <1>11. /\ lo2 \/ LastRecord(s, a.page)
         /\ \A i \in Records(s) : s[i] = x \/ \E k \in Records(r) : s[i] = r[k]
         /\ ~Going(s)
         /\ Loading(r) => Loading(s)
    <2>1. CASE Queued(r, x, s)
      BY <1>7, <1>8, <2>1, QueuedRecord
    <2>2. CASE lost' /\ s = r
      BY <1>7, <1>10, <2>2
    <2> QED
      BY <1>9, <1>10, <2>1, <2>2
  <1>12. \A i \in Records(s) :
             \/ \E k \in Records(q) : s[i] = q[k]
             \/ s[i].book = b.book /\ s[i].page = a.page
    BY <1>7, <1>8, <1>11 DEF Carries
  <1>13. Resident(a, s, w, t)
    <2>1. a.view = "reading" /\ ~Loading(s) => t.loaded = b.book
      BY <1>5, <1>7, <1>11
    <2> QED
      BY <1>5, <2>1 DEF Resident
  <1>14. a.page \in ch2[b.book]
    BY <1>5
  <1>15. Rest(a, s, w, t, pl, st, ch2, lo2)
    <2> HIDE DEF Rest
    <2> QED
      BY <1>5, <1>11, <1>12, <1>13, <1>14, MoveRest
  <1>16. Rest(Rendered(a), s, w, t, pl, st, ch2, lo2)
    BY <1>15, PlacedStill, PlacedRest
  <1> QED
    BY <1>30, <1>10, <1>16 DEF RestThen

\* It holds of the state of the loop.
RestNow ==
    \E a, q, ev, t, pl, st, ch, lo :
       /\ app = a /\ sent \o parked = q /\ events = ev /\ task = t
       /\ place = pl /\ state = st /\ chosen = ch /\ lost = lo
       /\ Rest(a, q, ev, t, pl, st, ch, lo)

LEMMA RestMade ==
    ASSUME NEW w, NEW t, NEW pl, NEW st, NEW ch, RestThen(w, t, pl, st, ch),
           events' = w, task' = t, place' = pl, state' = st, chosen' = ch
    PROVE  RestNow'
  BY DEF RestThen, RestNow

LEMMA RestParts ==
    ASSUME RestNow
    PROVE  \E q, ev, t, pl, st, ch, lo :
             /\ q = Queue /\ ev = events /\ t = task
             /\ pl = place /\ st = state /\ ch = chosen /\ lo = lost
             /\ Rest(app, q, ev, t, pl, st, ch, lo)
  BY DEF RestNow, Queue

\* With the input free nothing on its way leaves the book.
LEMMA FreeStays ==
    ASSUME NEW a, NEW q, NEW ev, NEW t, NEW pl, NEW st, NEW ch, NEW lo,
           Rest(a, q, ev, t, pl, st, ch, lo), a.opening = None \/ Settling(ev)
    PROVE  ~Going(q)
  BY DEF Rest, GoesAlone

\* A page turned.
LEMMA TurnRest ==
    ASSUME TypeOK, CardOK, RestNow, NEW p \in Pages, TurnPage(p)
    PROVE  RestNow'
  <1>1. PICK q, ev, t, pl, st, ch, lo :
             /\ q = Queue /\ ev = events /\ t = task
             /\ pl = place /\ st = state /\ ch = chosen /\ lo = lost
             /\ Rest(app, q, ev, t, pl, st, ch, lo)
    BY RestParts
  <1>2. PICK b \in AppStates : b = app
    BY DEF TypeOK
  <1> DEFINE n == [b EXCEPT !.page = p]
             c == ExtendSection(b.request + 1, b.book, p)
             ch2 == [ch EXCEPT ![b.book] = @ \cup {p}]
  <1>3. /\ AppOK /\ lost \in BOOLEAN /\ ch \in [Books -> SUBSET Pages]
    BY <1>1 DEF TypeOK, AppOK
  <1>4. /\ b.opening = None /\ b.view = "reading" /\ p \in {b.page - 1, b.page + 1}
        /\ Carry(b, n, c) /\ chosen' = ch2
        /\ events' = ev /\ task' = t /\ place' = pl /\ state' = st
    BY <1>1, <1>2 DEF TurnPage, Ready, cardVars
  <1>5. b.book \in Books /\ b.page \in Pages /\ b.request \in Nat
    BY AppHas
  <1>6. n \in AppStates /\ n.book = b.book /\ n.page = p /\ n.view = b.view
        /\ n.unreadable = b.unreadable
    BY <1>5 DEF AppStates
  <1>7. c \in Commands /\ c.op = "extend"
    BY <1>5, RequestIs DEF ExtendSection
  <1>8. p # b.page
    BY <1>4, <1>5 DEF Pages
  <1>9. ch2[b.book] = ch[b.book] \cup {p}
    BY <1>3, <1>5
  <1> HIDE DEF n, c, ch2
  <1>10. Rest(b, q, ev, t, pl, st, ch, lo)
    BY <1>1, <1>2
  <1>11. ~Going(q)
    BY <1>4, <1>10, FreeStays
  <1>12. /\ Settling(ev) => t.loaded = b.book
         /\ ~Loading(q) => t.loaded = b.book
         /\ b.unreadable = None
    BY <1>4, <1>10 DEF Rest, Resident, Granted
  <1>13. RestThen(ev, t, pl, st, ch2)
    BY <1>1, <1>3, <1>4, <1>6, <1>7, <1>8, <1>9, <1>10, <1>11, <1>12, CarryMoves
  <1> QED
    BY <1>4, <1>13, RestMade

\* The book opened again, the book left for the shelf, a pick no longer waited
\* for.
LEMMA StaysRest ==
    ASSUME TypeOK, CardOK, RestNow, ReadOn \/ Leave \/ WalkAway
    PROVE  RestNow'
  <1>1. PICK q, ev, t, pl, st, ch, lo :
             /\ q = Queue /\ ev = events /\ t = task
             /\ pl = place /\ st = state /\ ch = chosen /\ lo = lost
             /\ Rest(app, q, ev, t, pl, st, ch, lo)
    BY RestParts
  <1>2. PICK b \in AppStates : b = app
    BY DEF TypeOK
  <1>3. AppOK /\ lost \in BOOLEAN
    BY DEF TypeOK, AppOK
  <1>4. /\ b.opening = None
        /\ events' = ev /\ task' = t /\ place' = pl /\ state' = st /\ chosen' = ch
    BY <1>1, <1>2 DEF ReadOn, Leave, WalkAway, Ready, cardVars
  <1>5. b.book \in Books /\ b.page \in Pages /\ b.request \in Nat /\ b.counted \in BOOLEAN
    BY AppHas
  <1>6. Rest(b, q, ev, t, pl, st, ch, lo)
    BY <1>1, <1>2
  <1>7. /\ ~Going(q)
        /\ Settling(ev) => t.loaded = b.book
        /\ b.view = "reading" /\ ~Loading(q) => t.loaded = b.book
        /\ b.unreadable = None
    BY <1>4, <1>6, FreeStays DEF Rest, Resident, Granted
  <1>8. /\ \A i \in DOMAIN ev : \E k \in DOMAIN ev : ev[i] = ev[k]
        /\ \A d : d.page = b.page /\ Moving(b, ev) => Moving(d, ev)
    BY DEF Moving
  <1>9. CASE ReadOn
    <2> DEFINE n == [b EXCEPT !.view = "reading"]
               c == OpenBook(b.request + 1, b.book, b.page, None, FALSE, ~b.counted)
    <2>1. Carry(b, n, c)
      BY <1>2, <1>9 DEF ReadOn
    <2>2. n \in AppStates /\ n.book = b.book /\ n.page = b.page /\ n.unreadable = b.unreadable
      BY DEF AppStates, Views
    <2>3. c \in Commands /\ c.op = "open" /\ c.previous = None
      <3>1. c \in Commands
        BY <1>5, RequestIs
      <3> QED
        BY <3>1 DEF OpenBook
    <2>4. c # None
      BY <2>3, CommandHas
    <2> HIDE DEF n, c
    <2>5. RestThen(ev, t, pl, st, ch)
      BY <1>1, <1>3, <1>6, <1>7, <1>8, <2>1, <2>2, <2>3, <2>4, CarryStays
    <2> QED
      BY <1>4, <2>5, RestMade
  <1>10. CASE Leave
    <2> DEFINE n == [b EXCEPT !.view = "shelf"]
    <2>1. Carry(b, n, None)
      BY <1>2, <1>10 DEF Leave
    <2>2. /\ n \in AppStates /\ n.book = b.book /\ n.page = b.page /\ n.unreadable = b.unreadable
          /\ n.view # "reading"
      BY DEF AppStates, Views
    <2> HIDE DEF n
    <2>5. RestThen(ev, t, pl, st, ch)
      BY <1>1, <1>3, <1>6, <1>7, <1>8, <2>1, <2>2, CarryStays
    <2> QED
      BY <1>4, <2>5, RestMade
  <1>11. CASE WalkAway
    <2> DEFINE n == [b EXCEPT !.picking = NoPick]
    <2>1. Carry(b, n, None)
      BY <1>2, <1>11 DEF WalkAway
    <2>2. /\ n \in AppStates /\ n.book = b.book /\ n.page = b.page /\ n.unreadable = b.unreadable
          /\ n.view = b.view
      BY DEF AppStates, NoPick
    <2> HIDE DEF n
    <2>5. RestThen(ev, t, pl, st, ch)
      BY <1>1, <1>3, <1>6, <1>7, <1>8, <2>1, <2>2, CarryStays
    <2> QED
      BY <1>4, <2>5, RestMade
  <1> QED
    BY <1>9, <1>10, <1>11

\* A pick.
LEMMA PickRest ==
    ASSUME TypeOK, CardOK, RestNow, NEW b \in Books, Pick(b)
    PROVE  RestNow'
  <1>1. PICK q, ev, t, pl, st, ch, lo :
             /\ q = Queue /\ ev = events /\ t = task
             /\ pl = place /\ st = state /\ ch = chosen /\ lo = lost
             /\ Rest(app, q, ev, t, pl, st, ch, lo)
    BY RestParts
  <1>2. PICK a \in AppStates : a = app
    BY DEF TypeOK
  <1>3. AppOK /\ lost \in BOOLEAN
    BY DEF TypeOK, AppOK
  <1> DEFINE c == ChooseRow(a.picks + 1, b)
             line == Dispatch(Line, c)
             n == [a EXCEPT !.picks = c.id, !.picking = IF line.taken THEN c.id ELSE NoPick]
  <1>4. /\ a.opening = None /\ a.view = "shelf"
        /\ events' = ev /\ task' = t /\ place' = pl /\ state' = st /\ chosen' = ch /\ lost' = lo
        /\ app' = Rendered(n) /\ parked' = line.parked /\ sent' = line.sent
    BY <1>1, <1>2 DEF Pick, Ready, cardVars, history
  <1>5. a.picks \in Nat
    BY AppHas
  <1>6. c \in Commands /\ c.op = "choose" /\ c.id \in Nat
    BY <1>5 DEF ChooseRow, Commands
  <1> HIDE DEF c
  <1>7. line \in Lines /\ (line.taken => Queued(q, c, QueueOf(line)))
        /\ (~line.taken => QueueOf(line) = q)
    <2>1. Line \in Lines /\ Fits(Line) /\ QueueOf(Line) = Queue
      BY <1>3 DEF Line, Lines, Fits, QueueOf, Queue, AppOK
    <2> QED
      BY <1>1, <1>6, <2>1, DispatchIs
  <1> HIDE DEF line
  <1>8. n \in AppStates /\ n.book = a.book /\ n.page = a.page /\ n.unreadable = a.unreadable
        /\ n.view = a.view
    BY <1>6 DEF AppStates, NoPick
  <1> HIDE DEF n
  <1>9. PICK r \in Seq(Commands) : r = QueueOf(line) /\ sent' \o parked' = r
    BY <1>4, <1>7, ConcatProperties DEF QueueOf, Lines
  <1>10. q \in Seq(Commands)
    BY <1>1, <1>3, QueueIs
  <1>11. Rest(a, q, ev, t, pl, st, ch, lo)
    BY <1>1, <1>2
  <1>12. ~Going(q) /\ a.unreadable = None
    BY <1>4, <1>11, FreeStays DEF Rest, Granted
  <1>13. Carries(q, r) /\ ~Going(r)
    <2>1. CASE line.taken
      <3>1. ~Leaves(c) /\ c.op # "progress"
        BY <1>6 DEF Leaves
      <3> QED
        BY <1>7, <1>9, <1>10, <1>12, <2>1, <3>1, QueuedCarries
    <2>2. CASE ~line.taken
      BY <1>7, <1>9, <1>12, <2>2 DEF Carries
    <2> QED
      BY <2>1, <2>2
  <1>14. /\ \A i \in DOMAIN ev : ev[i].kind = "row" \/ \E k \in DOMAIN ev : ev[i] = ev[k]
         /\ Moving(a, ev) => Moving(n, ev)
         /\ Resident(n, r, ev, t)
    BY <1>4, <1>8, <1>11 DEF Moving, Rest, Resident
  <1>15. Rest(n, r, ev, t, pl, st, ch, lo)
    BY <1>8, <1>11, <1>12, <1>13, <1>14, StayRest
  <1>16. Rest(Rendered(n), r, ev, t, pl, st, ch, lo)
    BY <1>8, <1>15, PlacedStill, PlacedRest
  <1>17. RestThen(ev, t, pl, st, ch)
    BY <1>4, <1>9, <1>16 DEF RestThen
  <1> QED
    BY <1>4, <1>17, RestMade

LEMMA AppStepRest ==
    ASSUME TypeOK, CardOK, RestNow, AppStep
    PROVE  RestNow'
  BY TurnRest, StaysRest, PickRest DEF AppStep

LEMMA NoneIsNoSpot == None \notin Spots
  <1>1. Spots \subseteq Frames
    BY DEF Spots, Frames
  <1> QED
    BY <1>1, NoneAssumption

\* A row that nobody waits for is gone.
LEMMA GoneRest ==
    ASSUME NEW a, NEW q, NEW ev, NEW t, NEW pl, NEW st, NEW ch, NEW lo,
           Rest(a, q, ev, t, pl, st, ch, lo),
           NEW w, \A i \in DOMAIN w : \E k \in DOMAIN ev : w[i] = ev[k],
           Moving(a, ev) => Moving(a, w)
    PROVE  Rest(a, q, w, t, pl, st, ch, lo)
  <1>1. Settling(w) => Settling(ev)
    BY DEF Settling
  <1>2. GoesAlone(a, q, w) /\ Granted(a, w, ch) /\ Resident(a, q, w, t)
    BY <1>1 DEF Rest, GoesAlone, Granted, Resident
  <1>3. OnItsWay(a, q, w, t, pl, st, lo) /\ Picks(a, q, w, t, pl, ch)
    BY DEF Rest, OnItsWay, Picks
  <1> QED
    BY <1>2, <1>3 DEF Rest

\* An open that leaves the book, put behind records.
LEMMA LeaveRest ==
    ASSUME NEW a, NEW b, NEW q \in Seq(Commands), NEW r \in Seq(Commands), NEW c,
           NEW ev, NEW w, NEW t, NEW pl, NEW st, NEW ch, NEW lo, NEW lo2,
           Rest(a, q, ev, t, pl, st, ch, lo), ~Going(q), ~Moving(a, ev),
           \A i \in DOMAIN q : q[i].op = "progress",
           Queued(q, c, r), Leaves(c), c.page = 0, c.previous = Spot(a.book, a.page),
           b.page = 0, b.unreadable = None, b.opening # None,
           \A i \in DOMAIN w : w[i].kind = "row", ~Settling(w)
    PROVE  Rest(b, r, w, t, pl, st, ch, lo2)
  <1> DEFINE n == Len(r)
  <1>1. n \in DOMAIN r /\ r[n] = c /\ \A i \in DOMAIN r : i # n => \E k \in DOMAIN q : r[i] = q[k]
    BY QueuedHas
  <1> HIDE DEF n
  <1>2. Going(r)
    BY <1>1 DEF Going
  <1>3. GoesAlone(b, r, w)
    BY <1>1 DEF GoesAlone, n
  <1>4. Granted(b, w, ch)
    BY DEF Granted
  <1>5. From(b, r) = From(a, q) /\ From(a, q) = Spot(a.book, a.page)
    BY <1>1, <1>2 DEF From, n
  <1>6. \A i \in Records(r) : \E k \in Records(q) : r[i] = q[k]
    BY <1>1 DEF Records, Leaves
  <1>7. OneBook(b, r, t) /\ HeldAsSaved(t, pl) /\ AllOrderly(pl)
    BY <1>5, <1>6 DEF Rest, OneBook
  <1>8. Resident(b, r, w, t)
    BY <1>1 DEF Resident, Loading, Load, Leaves
  <1>9. OnItsWay(b, r, w, t, pl, st, lo2)
    BY <1>2 DEF OnItsWay
  <1>10. Picks(b, r, w, t, pl, ch)
    BY <1>5, <1>6 DEF Rest, Picks
  <1> QED
    BY <1>3, <1>4, <1>7, <1>8, <1>9, <1>10 DEF Rest

LEMMA ReceiveRest ==
    ASSUME TypeOK, CardOK, Core(app, Queue, events), RestNow, Receive
    PROVE  RestNow'
  <1>0. /\ AppOK /\ lost \in BOOLEAN /\ Queue \in Seq(Commands)
        /\ events \in Seq(Events) /\ events # <<>>
    BY QueueIs DEF TypeOK, AppOK, Receive
  <1>1. PICK q, ev, t, pl, st, ch, lo :
             /\ q = Queue /\ ev = events /\ t = task
             /\ pl = place /\ st = state /\ ch = chosen /\ lo = lost
             /\ Rest(app, q, ev, t, pl, st, ch, lo)
    BY RestParts
  <1>2. PICK a \in AppStates : a = app
    BY <1>0 DEF AppOK
  <1>3. q \in Seq(Commands) /\ ev \in Seq(Events) /\ ev # <<>>
    BY <1>0, <1>1
  <1> DEFINE w == Tail(ev)
             e == Head(ev)
  <1>4. Rest(a, q, ev, t, pl, st, ch, lo) /\ Core(a, q, ev)
    BY <1>1, <1>2
  <1>5. /\ events' = w /\ task' = t /\ place' = pl /\ state' = st /\ chosen' = ch
        /\ \/ e.kind = "loaded" /\ ReceiveLoaded(e)
           \/ e.kind = "unreadable" /\ ReceiveUnreadable(e)
           \/ e.kind = "failed" /\ ReceiveFailed(e)
           \/ e.kind = "row" /\ ReceiveRow(e)
           \/ e.kind = "rowFailed" /\ ReceiveRowFailed(e)
    BY <1>1 DEF Receive, cardVars
  <1>6. /\ 1 \in DOMAIN ev /\ e = ev[1] /\ e \in Events
        /\ \A i \in DOMAIN w : \E k \in DOMAIN ev : w[i] = ev[k]
        /\ \A k \in DOMAIN ev : k # 1 => \E i \in DOMAIN w : w[i] = ev[k]
    BY <1>3, TailHas
  <1>7. IsSettle(e) => e.book = a.book
    BY <1>3, <1>4, EventGone
  <1> HIDE DEF w, e
  <1>8. /\ a.unreadable = None
        /\ \/ e.kind = "row"
           \/ e.kind = "loaded" /\ e.position \in {None} \cup ch[a.book]
    BY <1>4, <1>6 DEF Rest, Granted
  <1>9. /\ a.book \in Books /\ a.page \in Pages /\ a.request \in Nat /\ 0 \in Pages
        /\ a.book # None /\ e.book \in Books
        /\ e.kind = "loaded" => e.position \in Pages \cup {None}
    BY <1>6, AppHas, EventHas
  <1>10. Settling(w) => Settling(ev)
    BY <1>6 DEF Settling
  <1>11. Settling(ev) => t.loaded = a.book
    BY <1>4 DEF Rest, Resident
  <1>12. ASSUME e.kind = "loaded", ReceiveLoaded(e) PROVE RestThen(w, t, pl, st, ch)
    <2>1. e.book = a.book /\ Settling(ev)
      BY <1>6, <1>7, <1>12 DEF IsSettle, Settling
    <2>2. PICK d \in AppStates : d = Answered(a, e.book)
      BY AnsweredIs
    <2>3. PICK n \in AppStates : n = Moved(d, e.position)
      BY <1>9, <1>12, MovedIs
    <2>4. /\ n.book = a.book /\ n.view = a.view /\ n.unreadable = None
          /\ n.page = IF e.position = None THEN a.page ELSE e.position
      <3>1. d.book = a.book /\ d.view = a.view /\ d.page = a.page
        BY <2>2, AnsweredIs
      <3> QED
        BY <2>3, <3>1 DEF Moved, AppStates
    <2>5. ~Going(q) /\ t.loaded = a.book
      BY <1>4, <1>11, <2>1, FreeStays
    <2> DEFINE c == ExtendSection(a.request + 1, n.book, n.page)
    <2>6. c \in Commands /\ c.op = "extend"
      BY <1>9, <2>4, AppHas DEF ExtendSection, Commands
    <2>7. \/ FoldOnly(n) /\ n.page = a.page
          \/ Carry(a, n, c) /\ n.page # a.page
          \/ Carry(a, n, None)
      <3>1. IF app.view = "reading" /\ ~e.replaced /\ n.page = app.page
            THEN FoldOnly(n)
            ELSE Carry(app, n, IF n.view = "reading" /\ n.page # app.page THEN c ELSE None)
        BY <1>2, <1>12, <2>1, <2>2, <2>3 DEF ReceiveLoaded, Moved
      <3> QED
        BY <1>2, <3>1
    <2> HIDE DEF c
    <2>8. ASSUME n.page = a.page PROVE Moving(a, ev) => \A x : x.page = a.page => Moving(x, w)
      <3>1. e.position \in {None, a.page}
        BY <2>4, <2>8
      <3> QED
        BY <1>6, <3>1 DEF Moving
    <2>9. Resident(n, q, w, t)
      BY <2>4, <2>5 DEF Resident
    <2>10. CASE FoldOnly(n) /\ n.page = a.page
      <3>1. app' = Lifted(n) /\ sent' \o parked' = q /\ lost' = lo
        BY <1>1, <2>10 DEF FoldOnly, Queue
      <3>2. Carries(q, q)
        BY DEF Carries
      <3>3. Rest(n, q, w, t, pl, st, ch, lo)
        BY <1>4, <1>6, <2>4, <2>5, <2>8, <2>9, <2>10, <3>2, StayRest
      <3>4. Rest(Lifted(n), q, w, t, pl, st, ch, lo)
        BY <3>3, PlacedStill, PlacedRest
      <3> QED
        BY <3>1, <3>4 DEF RestThen
    <2>11. CASE (Carry(a, n, c) \/ Carry(a, n, None)) /\ n.page # a.page
      <3>1. n.page \in ch[a.book]
        BY <1>8, <1>12, <2>4, <2>11
      <3>2. PICK c2 \in Commands \cup {None} : Carry(a, n, c2) /\ (c2 # None => c2.op = "extend")
        BY <2>6, <2>11
      <3> HIDE DEF Rest
      <3> QED
        BY <1>0, <1>1, <1>4, <1>6, <2>4, <2>5, <2>11, <3>1, <3>2, CarryMoves
    <2>12. CASE Carry(a, n, None) /\ n.page = a.page
      <3>1. \A x : x.page = a.page /\ Moving(a, ev) => Moving(x, w)
        BY <2>8, <2>12
      <3> QED
        BY <1>0, <1>1, <1>4, <1>6, <2>4, <2>5, <2>12, <3>1, CarryStays
    <2> QED
      BY <2>7, <2>10, <2>11, <2>12
  <1>13. ASSUME e.kind = "row", ReceiveRow(e), e.id # a.picking PROVE RestThen(w, t, pl, st, ch)
    <2>1. app' = Lifted(a) /\ sent' \o parked' = q /\ lost' = lo
      BY <1>1, <1>2, <1>13 DEF ReceiveRow, FoldOnly, Queue
    <2>2. Moving(a, ev) => Moving(a, w)
      BY <1>6, <1>13 DEF Moving
    <2>3. Rest(a, q, w, t, pl, st, ch, lo)
      BY <1>4, <1>6, <2>2, GoneRest
    <2>4. Rest(Lifted(a), q, w, t, pl, st, ch, lo)
      BY <2>3, PlacedStill, PlacedRest
    <2> QED
      BY <2>1, <2>4 DEF RestThen
  <1>14. ASSUME e.kind = "row", ReceiveRow(e), e.id = a.picking PROVE RestThen(w, t, pl, st, ch)
    <2>1. /\ a.view = "shelf" /\ a.opening = None /\ ~Settling(w)
          /\ \A j \in DOMAIN q : q[j].op = "progress"
      BY <1>3, <1>4, <1>14, ReceivePick DEF IsRow, w, e
    <2>2. ~Going(q)
      BY <1>4, <2>1, FreeStays
    <2>3. \A i \in DOMAIN w : w[i].kind = "row"
      <3>1. ASSUME NEW i \in DOMAIN w PROVE w[i].kind = "row"
        <4>1. PICK k \in DOMAIN ev : w[i] = ev[k]
          BY <1>6
        <4>2. ev[k].kind = "row" \/ ev[k].kind = "loaded"
          BY <1>4 DEF Rest, Granted
        <4> QED
          BY <2>1, <4>1, <4>2 DEF Settling, IsSettle
      <3> QED
        BY <3>1
    <2>4. ~Moving(a, ev)
      <3>1. \A k \in DOMAIN ev : ev[k].kind # "loaded"
        BY <1>6, <1>14, <2>3
      <3> QED
        BY <3>1 DEF Moving
    <2> DEFINE n == [a EXCEPT !.picking = NoPick, !.view = "reading", !.book = e.book,
                              !.page = 0, !.counted = TRUE]
               c == OpenBook(a.request + 1, e.book, 0, Spot(a.book, a.page), TRUE, FALSE)
    <2>5. Carry(a, n, c)
      <3>1. ~Unreadable(a)
        BY <1>8, <1>9 DEF Unreadable
      <3> QED
        BY <1>2, <1>14, <3>1 DEF ReceiveRow
    <2>6. n \in AppStates /\ n.unreadable = None /\ n.book = e.book /\ n.page = 0
      BY <1>8, <1>9 DEF AppStates, NoPick, Views
    <2>7. /\ c \in Commands /\ c.op = "open" /\ c.page = 0 /\ c.book = e.book
          /\ c.previous = Spot(a.book, a.page) /\ c.previous # None
      <3>1. Spot(a.book, a.page) \in Spots
        BY <1>9 DEF Spot, Spots
      <3>2. None \notin Spots
        BY NoneIsNoSpot
      <3> QED
        BY <1>9, <3>1, <3>2 DEF OpenBook, Commands
    <2>8. c # None /\ Load(c) /\ IsOpen(c) /\ Leaves(c)
      BY <2>7, CommandHas DEF Load, Leaves
    <2> HIDE DEF n, c
    <2>9. PICK x \in AppStates, r \in Seq(Commands) : CarriedOn(a, n, c, x, r)
      <3>1. /\ parked \in Seq(Commands) /\ Len(parked) <= ParkedSlots
            /\ sent \in Seq(Commands) /\ Len(sent) <= QueueSlots
        BY <1>0 DEF AppOK
      <3> QED
        BY <1>0, <2>5, <2>6, <2>7, <2>8, <3>1, CarrySays
    <2>10. ~ProgressOwed(a, x, c)
      BY <2>8 DEF ProgressOwed
    <2>11. /\ app' = Rendered(x) /\ sent' \o parked' = r /\ lost' \in BOOLEAN
           /\ \/ x = Taken(a, n, c) /\ Queued(q, c, r)
              \/ x = Untaken(a, n, c) /\ r = q
           /\ lo /\ ~Queued(q, c, r) => lost'
      BY <1>1, <2>8, <2>9, <2>10 DEF CarriedOn
    <2>12. PICK lo2 \in BOOLEAN : lo2 = lost'
      BY <2>11
    <2>13. Rest(x, r, w, t, pl, st, ch, lo2)
      <3>1. CASE x = Taken(a, n, c) /\ Queued(q, c, r)
        <4>1. x.page = 0 /\ x.unreadable = None /\ x.opening # None
          <5>1. e.book # None
            BY <1>9, NoneAssumption
          <5> QED
            BY <2>6, <2>7, <2>8, <3>1, <5>1, Whereabouts
        <4> HIDE DEF Rest
        <4> QED
          BY <1>3, <1>4, <2>1, <2>2, <2>3, <2>4, <2>7, <2>8, <3>1, <4>1, LeaveRest
      <3>2. CASE x = Untaken(a, n, c) /\ r = q
        <4>1. x.view = a.view /\ x.book = a.book /\ x.page = a.page /\ x.unreadable = None
          BY <2>6, <2>7, <2>8, <3>2, Whereabouts
        <4>2. ~Queued(q, c, r)
          <5>1. Queued(q, c, r) => Len(r) \in DOMAIN q /\ q[Len(r)] = c
            BY <1>3, <3>2, QueuedHas
          <5> QED
            BY <2>1, <2>7, <5>1
        <4>3. lo => lo2
          BY <2>11, <2>12, <4>2
        <4>4. Carries(q, r) /\ ~Going(r) /\ Resident(x, r, w, t)
          BY <2>1, <2>2, <3>2, <4>1 DEF Carries, Resident
        <4> HIDE DEF Rest
        <4> QED
          BY <1>4, <1>6, <2>2, <2>4, <4>1, <4>3, <4>4, StayRest
      <3> QED
        BY <2>11, <3>1, <3>2
    <2>14. Rest(Rendered(x), r, w, t, pl, st, ch, lo2)
      BY <2>13, PlacedStill, PlacedRest
    <2> QED
      BY <2>11, <2>12, <2>14 DEF RestThen
  <1>15. RestThen(w, t, pl, st, ch)
    BY <1>5, <1>8, <1>12, <1>13, <1>14
  <1> QED
    BY <1>5, <1>15, RestMade

\* What is parked moves up, and a frame settles.
LEMMA OfferRest ==
    ASSUME TypeOK, CardOK, RestNow, OfferParked \/ FrameSettles
    PROVE  RestNow'
  <1>1. PICK q, ev, t, pl, st, ch, lo :
             /\ q = Queue /\ ev = events /\ t = task
             /\ pl = place /\ st = state /\ ch = chosen /\ lo = lost
             /\ Rest(app, q, ev, t, pl, st, ch, lo)
    BY RestParts
  <1>2. PICK a \in AppStates : a = app
    BY DEF TypeOK
  <1>3. /\ events' = ev /\ task' = t /\ place' = pl /\ state' = st /\ chosen' = ch /\ lost' = lo
    BY <1>1 DEF OfferParked, FrameSettles, cardVars, history
  <1>4. \E x \in AppStates : Placed(a, x) /\ app' = x /\ sent' \o parked' = q
    <2>1. ASSUME OfferParked
          PROVE  \E x \in AppStates : Placed(a, x) /\ app' = x /\ sent' \o parked' = q
      <3>1. PICK h \in Seq(Commands) : app' = Accepted(app, h) /\ sent' \o parked' = Queue
        BY <2>1, OfferTyped
      <3> QED
        BY <1>1, <1>2, <3>1, PlacedAccepted, AcceptedIs
    <2>2. ASSUME FrameSettles
          PROVE  \E x \in AppStates : Placed(a, x) /\ app' = x /\ sent' \o parked' = q
      <3>1. PICK h \in Seq(Commands) :
               /\ app' = IF app.again
                         THEN [Accepted(app, h) EXCEPT !.frame = Render(Accepted(app, h)),
                                                       !.again = FALSE]
                         ELSE Lifted([Accepted(app, h) EXCEPT !.frame = None])
               /\ sent' \o parked' = Queue
        BY <2>2, SettlesTyped
      <3>2. PICK d \in AppStates : d = Accepted(a, h) /\ Placed(a, d)
        BY PlacedAccepted, AcceptedIs
      <3>3. PICK f \in Frames : f = Render(d)
        BY AppHas
      <3>4. PICK no \in BOOLEAN : no = FALSE
        OBVIOUS
      <3>5. Placed(d, [d EXCEPT !.frame = f, !.again = no])
            /\ [d EXCEPT !.frame = f, !.again = no] \in AppStates
        BY PlacedStill
      <3>6. PICK g \in AppStates : g = [d EXCEPT !.frame = None] /\ Placed(d, g)
        BY PlacedStill
      <3>7. Placed(g, Lifted(g)) /\ Lifted(g) \in AppStates
        BY PlacedStill
      <3>8. \A x : Placed(d, x) => Placed(a, x)
        BY <3>2 DEF Placed
      <3>9. \A x : Placed(g, x) => Placed(d, x)
        BY <3>6 DEF Placed
      <3>10. app' = [d EXCEPT !.frame = f, !.again = no] \/ app' = Lifted(g)
        BY <1>2, <3>1, <3>2, <3>3, <3>4, <3>6
      <3> QED
        BY <1>1, <3>1, <3>5, <3>7, <3>8, <3>9, <3>10
    <2> QED
      BY <2>1, <2>2
  <1>5. PICK x \in AppStates : Placed(a, x) /\ app' = x /\ sent' \o parked' = q
    BY <1>4
  <1>6. Rest(x, q, ev, t, pl, st, ch, lo)
    BY <1>1, <1>2, <1>5, PlacedRest
  <1> QED
    BY <1>3, <1>5, <1>6 DEF RestNow

-----------------------------------------------------------------------------
(***************************************************************************)
(* What is written to the card.                                            *)
(***************************************************************************)
\* What a write of p as the place of b leaves, whatever is refused; and where
\* it leaves the place when nothing is.
Wrote(c, d, b, p) ==
    /\ d \in Cards /\ c.faults <= d.faults
    /\ AllOrderly(d.place)
    /\ NewestPlace(d.place[b]) \in {NewestPlace(c.place[b]), p}
    /\ \A x \in Books \ {b} : d.place[x] = c.place[x]
    /\ d.task.loaded = c.task.loaded /\ d.task.reading = c.task.reading
    /\ d.task.hold # None => c.task.hold # None /\ d.task.hold.book = c.task.hold.book
    /\ d.faults = c.faults => d.ok
    /\ d.faults = c.faults /\ HeldAsSaved(c.task, c.place) =>
         /\ HeldAsSaved(d.task, d.place)
         /\ c.task.loaded = b => NewestPlace(d.place[b]) = p
         /\ c.task.loaded # b => d.place[b] = c.place[b]

LEMMA NoneIsNoPage == None \notin Pages /\ None \notin Books /\ None \notin HeldPlaces
  BY NoneAssumption

\* Reading a place that was written, and one that was spoiled.
LEMMA PlaceReads ==
    ASSUME NEW j, Orderly(j), NEW p
    PROVE  /\ Orderly(Publish(j, p)) /\ NewestPlace(Publish(j, p)) = p
           /\ Orderly(Tear(j)) /\ NewestPlace(Tear(j)) = NewestPlace(j)
  BY PublishStands, TearLeavesNewest DEF NewestPlace

\* The hold that a record of p leaves.
LEMMA Retires ==
    ASSUME NEW hold \in Held, NEW b \in Books, NEW p \in Pages,
           NEW h, h = Retire(hold, b, p)
    PROVE  /\ h \in Held
           /\ h # None => hold # None /\ h.book = hold.book
           /\ hold # None /\ hold.book # b => h = hold
           /\ h # None /\ hold.book = b /\ hold.left = None =>
                /\ h.landed = hold.landed /\ h.place = hold.place /\ h.stopped = hold.stopped
                /\ h.left = None /\ h.landed = p
           /\ ~Holds(h, b, p) /\ h # None => h.book # b
  <1>1. h \in Held
    BY RetireIs
  <1>2. CASE hold = None \/ hold.book # b
    <2>1. h = hold
      BY <1>2 DEF Retire
    <2> QED
      BY <1>1, <1>2, <2>1
  <1>3. CASE hold # None /\ hold.book = b /\ ~Holds(hold, b, p)
    <2>1. h = None
      BY <1>3 DEF Retire
    <2> QED
      BY <1>1, <1>3, <2>1
  <1>4. CASE hold # None /\ hold.book = b /\ Holds(hold, b, p) /\ p # hold.landed
    <2>1. h = hold
      BY <1>4 DEF Retire
    <2>2. hold.left # None
      BY <1>4, NoneIsNoPage DEF Holds
    <2> QED
      BY <1>1, <1>4, <2>1, <2>2
  <1>5. CASE hold # None /\ hold.book = b /\ Holds(hold, b, p) /\ p = hold.landed
    <2>1. h = [hold EXCEPT !.left = None]
      BY <1>5 DEF Retire
    <2>2. hold \in HeldPlaces
      BY <1>5 DEF Held
    <2>3. /\ h.book = b /\ h.landed = hold.landed /\ h.place = hold.place
          /\ h.stopped = hold.stopped /\ h.left = None /\ h # None
      BY <1>5, <2>1, <2>2, NoneIsNoPage DEF HeldPlaces
    <2>4. Holds(h, b, p)
      BY <1>5, <2>3 DEF Holds
    <2> QED
      BY <1>1, <1>5, <2>3, <2>4
  <1> QED
    BY <1>2, <1>3, <1>4, <1>5

\* A card with the place of b replaced.
Put(c, b, pair, h, ok) ==
    [c EXCEPT !.place[b] = pair, !.task.hold = h, !.ok = ok,
              !.faults = @ + (IF ok THEN 0 ELSE 1)]

LEMMA PlacePut ==
    ASSUME NEW c \in Cards, NEW pair \in Pairs, NEW b \in Books, NEW h \in Held,
           NEW ok \in BOOLEAN, NEW d, d = Put(c, b, pair, h, ok)
    PROVE  /\ d \in Cards
           /\ d.place[b] = pair /\ \A x \in Books \ {b} : d.place[x] = c.place[x]
           /\ d.state = c.state /\ d.ok = ok
           /\ d.task.loaded = c.task.loaded /\ d.task.reading = c.task.reading
           /\ d.task.pending = c.task.pending /\ d.task.hold = h
           /\ d.faults = IF ok THEN c.faults ELSE c.faults + 1
  <1>1. d \in Cards
    BY CardIs DEF Put
  <1>2. c.place \in [Books -> Pairs] /\ c.task \in HeldTasks /\ c.faults \in Nat
    BY CardHas
  <1>3. /\ d.place = [c.place EXCEPT ![b] = pair]
        /\ d.task = [c.task EXCEPT !.hold = h]
        /\ d.state = c.state /\ d.ok = ok
        /\ d.faults = c.faults + (IF ok THEN 0 ELSE 1)
    BY DEF Cards, Put
  <1>4. d.place[b] = pair /\ \A x \in Books \ {b} : d.place[x] = c.place[x]
    BY <1>2, <1>3
  <1>5. /\ d.task.loaded = c.task.loaded /\ d.task.reading = c.task.reading
        /\ d.task.pending = c.task.pending /\ d.task.hold = h
    BY <1>2, <1>3 DEF HeldTasks
  <1>6. d.faults = IF ok THEN c.faults ELSE c.faults + 1
    <2> HIDE <1>1
    <2> QED
      BY <1>2, <1>3
  <1> QED
    BY <1>1, <1>3, <1>4, <1>5, <1>6

LEMMA PlaceWritten ==
    ASSUME NEW c \in Cards, NEW b \in Books, NEW p \in Pages, AllOrderly(c.place),
           NEW d \in PlaceWrites(c, b, p)
    PROVE  /\ Wrote(c, d, b, p)
           /\ d.state = c.state /\ d.task.pending = c.task.pending
  <1> DEFINE hold == Retire(c.task.hold, b, p)
             held == Holds(hold, b, p) /\ c.task.loaded = b
             out(pair, ok) == Put(c, b, pair, hold, ok)
             unchanged == c.place[b]
             written == Publish(unchanged, p)
  <1>1. /\ c.task.hold \in Held /\ unchanged \in Pairs /\ c.faults \in Nat
    BY CardHas
  <1>2. /\ hold \in Held
        /\ hold # None => c.task.hold # None /\ hold.book = c.task.hold.book
        /\ c.task.hold # None /\ c.task.hold.book # b => hold = c.task.hold
        /\ hold # None /\ c.task.hold.book = b /\ c.task.hold.left = None =>
             /\ hold.landed = c.task.hold.landed /\ hold.place = c.task.hold.place
             /\ hold.stopped = c.task.hold.stopped /\ hold.left = None /\ hold.landed = p
        /\ ~Holds(hold, b, p) /\ hold # None => hold.book # b
    BY <1>1, Retires
  <1>3. written \in Pairs /\ Tear(unchanged) \in Pairs
    BY <1>1, PairIs
  <1>4. /\ Orderly(unchanged) /\ Orderly(written) /\ NewestPlace(written) = p
        /\ Orderly(Tear(unchanged)) /\ NewestPlace(Tear(unchanged)) = NewestPlace(unchanged)
    BY PlaceReads DEF AllOrderly
  <1>5. PICK pair \in Pairs, ok \in BOOLEAN :
          /\ d = out(pair, ok)
          /\ Orderly(pair)
          /\ NewestPlace(pair) \in {NewestPlace(unchanged), p}
          /\ ok /\ (held \/ c.task.loaded # b) => pair = unchanged
          /\ ok /\ c.task.loaded = b /\ ~held => pair = written
    <2>1. CASE held \/ b \notin {c.task.loaded, c.task.reading}
      <3>1. d = out(unchanged, TRUE)
        BY <2>1 DEF PlaceWrites, Put
      <3> HIDE DEF out, hold, unchanged, written
      <3> QED
        BY <1>1, <1>4, <2>1, <3>1
    <2>2. CASE ~(held \/ b \notin {c.task.loaded, c.task.reading}) /\ c.task.loaded # b
      <3>1. d \in {out(unchanged, TRUE), out(unchanged, FALSE)}
        BY <2>2 DEF PlaceWrites, Put
      <3> HIDE DEF out, hold, unchanged, written
      <3> QED
        BY <1>1, <1>4, <2>2, <3>1
    <2>3. CASE ~(held \/ b \notin {c.task.loaded, c.task.reading}) /\ c.task.loaded = b
      <3>1. d \in {out(written, TRUE), out(written, FALSE),
                   out(unchanged, FALSE), out(Tear(unchanged), FALSE)}
        BY <2>3 DEF PlaceWrites, Put
      <3> HIDE DEF out, hold, unchanged, written
      <3> QED
        BY <1>1, <1>3, <1>4, <2>3, <3>1
    <2> QED
      BY <2>1, <2>2, <2>3
  <1> HIDE DEF hold, unchanged, written
  <1>6. /\ d \in Cards
        /\ d.place[b] = pair /\ \A x \in Books \ {b} : d.place[x] = c.place[x]
        /\ d.state = c.state /\ d.ok = ok
        /\ d.task.loaded = c.task.loaded /\ d.task.reading = c.task.reading
        /\ d.task.pending = c.task.pending /\ d.task.hold = hold
        /\ d.faults = IF ok THEN c.faults ELSE c.faults + 1
    BY <1>2, <1>5, PlacePut
  <1> HIDE DEF out, held
  <1>7. c.faults <= d.faults /\ (d.faults = c.faults => d.ok /\ ok)
    BY <1>1, <1>5, <1>6
  <1>8. AllOrderly(d.place)
    BY <1>5, <1>6 DEF AllOrderly
  <1>9. NewestPlace(d.place[b]) \in {NewestPlace(c.place[b]), p}
    BY <1>5, <1>6 DEF unchanged
  <1>10. ASSUME d.faults = c.faults, HeldAsSaved(c.task, c.place)
         PROVE  /\ HeldAsSaved(d.task, d.place)
                /\ c.task.loaded = b => NewestPlace(d.place[b]) = p
                /\ c.task.loaded # b => d.place[b] = c.place[b]
    <2>1. ok /\ (held \/ c.task.loaded # b => pair = unchanged)
          /\ (c.task.loaded = b /\ ~held => pair = written)
      BY <1>5, <1>7, <1>10
    <2>2. hold # None =>
            /\ c.task.hold # None /\ hold.book = c.task.hold.book
            /\ c.task.hold.place # None /\ c.task.hold.landed = c.task.hold.place
            /\ c.task.hold.left = None /\ c.task.hold.stopped
            /\ c.task.hold.place = NewestPlace(c.place[c.task.hold.book])
      BY <1>2, <1>10 DEF HeldAsSaved
    <2>3. hold # None => hold.book \in Books
      BY <1>2, HeldIs
    <2>4. hold # None /\ hold.book # b => hold = c.task.hold /\ d.place[hold.book] = c.place[hold.book]
      BY <1>2, <1>6, <2>2, <2>3
    <2>5. hold # None /\ hold.book = b =>
            /\ hold.landed = p /\ hold.place = p /\ hold.left = None /\ hold.stopped
            /\ NewestPlace(unchanged) = p /\ Holds(hold, b, p)
      BY <1>2, <2>2 DEF unchanged, Holds
    <2>6. hold # None /\ hold.book = b => pair = unchanged
      BY <2>1, <2>5 DEF held
    <2>7. HeldAsSaved(d.task, d.place)
      <3>1. CASE hold = None
        BY <1>6, <3>1 DEF HeldAsSaved
      <3>2. CASE hold # None /\ hold.book = b
        BY <1>6, <2>5, <2>6, <3>2, NoneIsNoPage DEF HeldAsSaved
      <3>3. CASE hold # None /\ hold.book # b
        BY <1>6, <2>2, <2>4, <3>3 DEF HeldAsSaved
      <3> QED
        BY <3>1, <3>2, <3>3
    <2>8. ASSUME c.task.loaded = b PROVE NewestPlace(d.place[b]) = p
      <3>1. CASE held
        <4>1. hold # None /\ hold.book = b
          BY <3>1 DEF held, Holds
        <4> QED
          BY <1>6, <2>5, <2>6, <4>1
      <3>2. CASE ~held
        BY <1>4, <1>6, <2>1, <2>8, <3>2
      <3> QED
        BY <3>1, <3>2
    <2>9. c.task.loaded # b => d.place[b] = c.place[b]
      BY <1>6, <2>1 DEF unchanged
    <2> QED
      BY <2>7, <2>8, <2>9
  <1>11. d.task.hold # None => c.task.hold # None /\ d.task.hold.book = c.task.hold.book
    BY <1>2, <1>6
  <1>12. Wrote(c, d, b, p)
    BY <1>6, <1>7, <1>8, <1>9, <1>10, <1>11 DEF Wrote
  <1> QED
    BY <1>6, <1>12

\* The state record and what is owed, written over.
Stated(v, spot) == [v EXCEPT !.state = spot]
Faulted(v) == [v EXCEPT !.ok = FALSE, !.faults = @ + 1]
Owing(v, r) == [v EXCEPT !.task.pending = r]

LEMMA StatedIs ==
    ASSUME NEW v \in Cards, NEW spot \in Spots, NEW d, d = Stated(v, spot)
    PROVE  /\ d \in Cards /\ d.state = spot /\ d.place = v.place /\ d.task = v.task
           /\ d.ok = v.ok /\ d.faults = v.faults
  BY DEF Cards, Stated

LEMMA FaultedIs ==
    ASSUME NEW v \in Cards, NEW d, d = Faulted(v)
    PROVE  /\ d \in Cards /\ d.state = v.state /\ d.place = v.place /\ d.task = v.task
           /\ d.ok = FALSE /\ d.faults = v.faults + 1
  <1>1. d \in Cards
    BY CardIs DEF Faulted
  <1>2. /\ d.state = v.state /\ d.place = v.place /\ d.task = v.task
        /\ d.ok = FALSE /\ d.faults = v.faults + 1
    BY DEF Cards, Faulted
  <1> QED
    BY <1>1, <1>2

LEMMA OwingIs ==
    ASSUME NEW v \in Cards, NEW r \in Spots \cup {None}, NEW d, d = Owing(v, r)
    PROVE  /\ d \in Cards /\ d.state = v.state /\ d.place = v.place
           /\ d.ok = v.ok /\ d.faults = v.faults
           /\ d.task.pending = r /\ d.task.loaded = v.task.loaded
           /\ d.task.reading = v.task.reading /\ d.task.hold = v.task.hold
  BY DEF Cards, HeldTasks, Owing

\* A write whose task and place are those of another, and that took as many
\* faults or more and is ok if no fault was taken.
LEMMA WroteOn ==
    ASSUME NEW c \in Cards, NEW v \in Cards, NEW d \in Cards, NEW b, NEW p,
           Wrote(c, v, b, p), d.place = v.place,
           d.task.loaded = v.task.loaded, d.task.reading = v.task.reading,
           d.task.hold = v.task.hold, v.faults <= d.faults, d.faults = v.faults => d.ok = v.ok
    PROVE  /\ Wrote(c, d, b, p)
           /\ d.faults = c.faults => v.faults = c.faults
  <1>1. c.faults \in Nat /\ v.faults \in Nat /\ d.faults \in Nat
    BY CardHas
  <1>2. c.faults <= v.faults
    BY DEF Wrote
  <1>3. c.faults <= d.faults /\ (d.faults = c.faults => v.faults = c.faults /\ d.faults = v.faults)
    BY <1>1, <1>2
  <1>4. HeldAsSaved(v.task, v.place) => HeldAsSaved(d.task, d.place)
    BY DEF HeldAsSaved
  <1>5. d.faults = c.faults => d.ok
    BY <1>3 DEF Wrote
  <1> QED
    BY <1>3, <1>4, <1>5 DEF Wrote

LEMMA AppStateWritten ==
    ASSUME NEW c \in Cards, NEW spot \in Spots, AllOrderly(c.place),
           NEW d \in AppStateWrites(c, spot)
    PROVE  /\ Wrote(c, d, spot.book, spot.page)
           /\ d.faults = c.faults => d.state = spot /\ d.task.pending = None
  <1>1. spot.book \in Books /\ spot.page \in Pages
    BY DEF Spots
  <1>2. PICK w \in UNION {StateWrites(v, spot) : v \in PlaceWrites(c, spot.book, spot.page)} :
          d = [w EXCEPT !.task.pending = IF w.ok THEN None ELSE spot]
    BY DEF AppStateWrites
  <1>3. PICK v \in PlaceWrites(c, spot.book, spot.page) : w \in StateWrites(v, spot)
    BY <1>2
  <1>4. v \in Cards /\ Wrote(c, v, spot.book, spot.page)
    BY <1>1, PlaceWritten, PlaceWritesAre
  <1>5. /\ w \in Cards /\ w.place = v.place /\ w.task = v.task
        /\ \/ w.state = spot /\ w.ok = v.ok /\ w.faults = v.faults
           \/ w.ok = FALSE /\ w.faults = v.faults + 1
    <2>1. w = Stated(v, spot) \/ w = Faulted(v)
      BY <1>3 DEF StateWrites, Stated, Faulted
    <2>2. CASE w = Stated(v, spot)
      BY <1>4, <2>2, StatedIs
    <2>3. CASE w = Faulted(v)
      BY <1>4, <2>3, FaultedIs
    <2> QED
      BY <2>1, <2>2, <2>3
  <1>6. PICK r \in Spots \cup {None} : r = IF w.ok THEN None ELSE spot
    OBVIOUS
  <1>7. /\ d \in Cards /\ d.state = w.state /\ d.place = w.place
        /\ d.ok = w.ok /\ d.faults = w.faults
        /\ d.task.pending = r /\ d.task.loaded = w.task.loaded
        /\ d.task.reading = w.task.reading /\ d.task.hold = w.task.hold
    <2>1. d = Owing(w, r)
      BY <1>2, <1>6 DEF Owing
    <2> QED
      BY <1>5, <2>1, OwingIs
  <1>8. v.faults \in Nat
    BY <1>4, CardHas
  <1>9. v.faults <= d.faults /\ (d.faults = v.faults => w.state = spot /\ w.ok = v.ok)
    BY <1>5, <1>7, <1>8
  <1>10. Wrote(c, d, spot.book, spot.page) /\ (d.faults = c.faults => v.faults = c.faults)
    BY <1>4, <1>5, <1>7, <1>9, WroteOn
  <1>11. d.faults = c.faults => d.ok
    BY <1>10 DEF Wrote
  <1> QED
    BY <1>6, <1>7, <1>9, <1>10, <1>11

\* A pending record of the same book is not written first.
LEMMA OthersWait ==
    ASSUME NEW c, NEW b, c.task.pending = None \/ c.task.pending.book = b
    PROVE  OthersFirst(c, b) = {c}
  BY DEF OthersFirst

LEMMA CloseOutWritten ==
    ASSUME NEW c \in Cards, NEW previous \in Spots, AllOrderly(c.place), c.ok = TRUE,
           c.task.reading = previous.book,
           c.task.pending = None \/ c.task.pending.book = previous.book,
           NEW d \in CloseOut(c, previous)
    PROVE  /\ Wrote(c, d, previous.book, previous.page)
           /\ d.state = c.state
           /\ d.faults = c.faults => d.task.pending = None
  <1>1. previous.book \in Books /\ previous.page \in Pages
    BY DEF Spots
  <1> DEFINE held(v) == previous.book \in {v.task.loaded, v.task.reading}
             rest(v) == IF ~held(v) THEN {v}
                        ELSE PlaceWrites(v, previous.book, previous.page)
             kept(v) == [v EXCEPT !.task.pending = IF v.ok THEN None ELSE previous]
  <1>2. CloseOut(c, previous) =
            UNION {IF ~v.ok THEN {v} ELSE {kept(w) : w \in rest(v)} :
                      v \in OthersFirst(c, previous.book)}
    BY DEF CloseOut
  <1>3. OthersFirst(c, previous.book) = {c}
    BY OthersWait
  <1>4. d \in {kept(w) : w \in rest(c)}
    <2> HIDE DEF kept, rest
    <2> QED
      BY <1>2, <1>3
  <1>5. rest(c) = PlaceWrites(c, previous.book, previous.page)
    OBVIOUS
  <1>6. PICK v \in PlaceWrites(c, previous.book, previous.page) : d = kept(v)
    <2> HIDE DEF kept, rest
    <2> QED
      BY <1>4, <1>5
  <1>7. /\ v \in Cards /\ Wrote(c, v, previous.book, previous.page)
        /\ v.state = c.state
    BY <1>1, PlaceWritten, PlaceWritesAre
  <1>8. PICK r \in Spots \cup {None} : r = IF v.ok THEN None ELSE previous
    OBVIOUS
  <1>9. /\ d \in Cards /\ d.state = v.state /\ d.place = v.place
        /\ d.ok = v.ok /\ d.faults = v.faults
        /\ d.task.pending = r /\ d.task.loaded = v.task.loaded
        /\ d.task.reading = v.task.reading /\ d.task.hold = v.task.hold
    <2>1. d = Owing(v, r)
      BY <1>6, <1>8 DEF Owing
    <2> QED
      BY <1>7, <2>1, OwingIs
  <1>10. v.faults <= d.faults
    <2>1. v.faults \in Nat
      BY <1>7, CardHas
    <2> QED
      BY <1>9, <2>1
  <1>11. Wrote(c, d, previous.book, previous.page)
    BY <1>7, <1>9, <1>10, WroteOn
  <1>12. d.faults = c.faults => d.ok
    BY <1>11 DEF Wrote
  <1> QED
    BY <1>7, <1>8, <1>9, <1>11, <1>12

\* What a cut leaves of the places, wherever it comes.
LEMMA CutOrderly ==
    ASSUME TypeOK, CardOK, AllOrderly(place), NEW c \in CutShort
    PROVE  AllOrderly(c.place)
  <1>1. /\ Now \in Cards /\ AllOrderly(Now.place) /\ Now.place = place
    BY NowIs
  <1>2. Owed \subseteq Spots /\ Carried \subseteq Spots
    <2>1. Owed \subseteq Spots
      BY DEF Owed, TypeOK, Tasks
    <2>2. sent # <<>> => Head(sent) \in Commands
      BY HeadTailProperties DEF TypeOK
    <2>3. ASSUME sent # <<>> PROVE Carried \subseteq Spots
      <3>1. Head(sent).op = "progress" => Spot(Head(sent).book, Head(sent).page) \in Spots
        BY <2>2, <2>3, CommandHas DEF Spot, Spots
      <3>2. IsOpen(Head(sent)) => Head(sent).previous \in Spots \cup {None}
        BY <2>2, <2>3, CommandHas
      <3> QED
        BY <3>1, <3>2 DEF Carried
    <2> QED
      BY <2>1, <2>3 DEF Carried
  <1>3. ASSUME NEW d \in Cards, AllOrderly(d.place), NEW r \in Spots,
               NEW x \in PlaceWrites(d, r.book, r.page)
        PROVE  AllOrderly(x.place)
    <2>1. r.book \in Books /\ r.page \in Pages
      BY <1>3 DEF Spots
    <2> QED
      BY <1>3, <2>1, PlaceWritten DEF Wrote
  <1>4. ASSUME NEW b, NEW d \in OthersFirst(Now, b)
        PROVE  d \in Cards /\ AllOrderly(d.place)
    <2>1. Now.task.pending \in Spots \cup {None}
      BY <1>1, CardHas
    <2>2. d = Now \/ (Now.task.pending \in Spots /\ d \in AppStateWrites(Now, Now.task.pending))
      BY <1>4, <2>1 DEF OthersFirst, FlushWrites
    <2>3. d \in Cards
      BY <1>1, <1>4, OthersFirstAre
    <2> QED
      BY <1>1, <2>2, <2>3, AppStateWritten DEF Wrote
  <1>5. \/ c = Now
        \/ \E r \in Owed : c \in PlaceWrites(Now, r.book, r.page)
        \/ \E r \in Carried : \E d \in OthersFirst(Now, r.book) :
             c \in PlaceWrites(d, r.book, r.page)
    BY DEF CutShort
  <1> QED
    BY <1>1, <1>2, <1>3, <1>4, <1>5
-----------------------------------------------------------------------------
(***************************************************************************)
(* What the storage task does keeps it.                                    *)
(***************************************************************************)
\* With no open that leaves a book at the head there is none behind it.
LEMMA HeadStays ==
    ASSUME NEW a, NEW q \in Seq(Commands), q # <<>>, NEW ev, NEW t, NEW pl, NEW st, NEW ch,
           NEW lo, Rest(a, q, ev, t, pl, st, ch, lo),
           Head(q).op # "progress", ~Leaves(Head(q))
    PROVE  ~Going(q) /\ ~Going(Tail(q)) /\ Carries(q, Tail(q))
  <1>1. 1 \in DOMAIN q /\ Head(q) = q[1]
    BY TailHas
  <1>2. ~Going(q)
    BY <1>1 DEF Rest, GoesAlone
  <1> QED
    BY <1>2, TailCarries

\* One at the head is all there is.
LEMMA HeadLeaves ==
    ASSUME NEW a, NEW q \in Seq(Commands), q # <<>>, NEW ev, NEW t, NEW pl, NEW st, NEW ch,
           NEW lo, Rest(a, q, ev, t, pl, st, ch, lo), Leaves(Head(q))
    PROVE  /\ Tail(q) = <<>> /\ From(a, q) = Head(q).previous /\ Records(q) = {}
           /\ Head(q).page = 0 /\ a.page = 0 /\ ~Settling(ev) /\ Going(q)
  <1>1. /\ 1 \in DOMAIN q /\ Head(q) = q[1] /\ Tail(q) \in Seq(Commands)
        /\ Len(Tail(q)) = Len(q) - 1 /\ DOMAIN q = 1 .. Len(q) /\ Len(q) \in Nat
    BY TailHas
  <1>2. Going(q) /\ Head(q).op = "open"
    BY <1>1 DEF Going, Leaves
  <1>3. Len(q) = 1
    BY <1>1, <1>2 DEF Rest, GoesAlone
  <1>4. Tail(q) = <<>>
    <2>1. Len(Tail(q)) = 0
      BY <1>1, <1>3
    <2> QED
      BY <1>1, <2>1, EmptySeq
  <1>5. Records(q) = {}
    BY <1>1, <1>2, <1>3 DEF Records
  <1> QED
    BY <1>1, <1>2, <1>3, <1>4, <1>5 DEF Rest, GoesAlone, From

\* A request that lost to a newer one is gone: the newer one is behind it.
LEMMA SkippedRest ==
    ASSUME NEW a, NEW q \in Seq(Commands), q # <<>>, NEW ev, NEW t, NEW pl, NEW st, NEW ch,
           NEW lo, Rest(a, q, ev, t, pl, st, ch, lo), InOrder(q, a.request),
           Load(Head(q)), Head(q).id # a.request
    PROVE  Rest(a, Tail(q), ev, t, pl, st, ch, lo)
  <1>1. /\ 1 \in DOMAIN q /\ Head(q) = q[1]
        /\ \A k \in DOMAIN q : k # 1 => k - 1 \in DOMAIN Tail(q) /\ Tail(q)[k - 1] = q[k]
    BY TailHas
  <1>2. PICK j \in DOMAIN q : Load(q[j]) /\ q[j].id = a.request
    BY <1>1 DEF InOrder
  <1>3. j # 1
    BY <1>1, <1>2
  <1>4. Loading(Tail(q))
    BY <1>1, <1>2, <1>3 DEF Loading
  <1>5. ~Going(q)
    <2>1. SUFFICES ASSUME Going(q) PROVE FALSE
      OBVIOUS
    <2>2. \A i \in DOMAIN q : i # Len(q) => ~Load(q[i])
      BY <2>1 DEF Rest, GoesAlone, Load
    <2> QED
      BY <1>1, <1>2, <1>3, <2>2
  <1>6. ~Going(Tail(q)) /\ Carries(q, Tail(q))
    BY <1>5, TailCarries DEF Load
  <1>7. Resident(a, Tail(q), ev, t)
    BY <1>4 DEF Rest, Resident
  <1>8. /\ a.unreadable = None
        /\ \A i \in DOMAIN ev : ev[i].kind = "row" \/ \E k \in DOMAIN ev : ev[i] = ev[k]
    BY DEF Rest, Granted
  <1> QED
    BY <1>5, <1>6, <1>7, <1>8, StayRest

\* An event more.
Added(ev, e, w) == ev \in Seq(Events) /\ e \in Events /\ w = Append(ev, e)

LEMMA EventMore ==
    ASSUME NEW ev, NEW e, NEW w, Added(ev, e, w), NEW a
    PROVE  /\ \A i \in DOMAIN w : w[i] = e \/ \E k \in DOMAIN ev : w[i] = ev[k]
           /\ Moving(a, ev) => Moving(a, w)
           /\ e.kind = "loaded" /\ e.position \notin {None, a.page} => Moving(a, w)
           /\ Settling(w) => Settling(ev) \/ IsSettle(e)
  <1>1. /\ DOMAIN ev = 1 .. Len(ev) /\ DOMAIN w = 1 .. Len(ev) + 1 /\ Len(ev) \in Nat
        /\ \A i \in DOMAIN ev : w[i] = ev[i]
        /\ w[Len(ev) + 1] = e
    BY AppendHas DEF Added
  <1>2. /\ \A i \in DOMAIN ev : i \in DOMAIN w
        /\ Len(ev) + 1 \in DOMAIN w
        /\ \A i \in DOMAIN w : i # Len(ev) + 1 => i \in DOMAIN ev
    BY <1>1
  <1>3. \A i \in DOMAIN w : w[i] = e \/ \E k \in DOMAIN ev : w[i] = ev[k]
    BY <1>1, <1>2
  <1> QED
    BY <1>1, <1>2, <1>3 DEF Moving, Settling

\* A row was found.
LEMMA ChosenRest ==
    ASSUME NEW a, NEW q \in Seq(Commands), q # <<>>, NEW ev, NEW t, NEW pl,
           NEW st, NEW ch, NEW lo, Rest(a, q, ev, t, pl, st, ch, lo),
           Head(q).op = "choose", NEW e, e.kind = "row", NEW w, Added(ev, e, w)
    PROVE  Rest(a, Tail(q), w, t, pl, st, ch, lo)
  <1>1. ~Going(q) /\ ~Going(Tail(q)) /\ Carries(q, Tail(q))
    BY HeadStays DEF Leaves
  <1>2. /\ \A i \in DOMAIN w : w[i] = e \/ \E k \in DOMAIN ev : w[i] = ev[k]
        /\ Moving(a, ev) => Moving(a, w)
        /\ Settling(w) => Settling(ev)
    BY EventMore DEF IsSettle
  <1>3. Loading(q) => Loading(Tail(q))
    <2>1. /\ 1 \in DOMAIN q /\ Head(q) = q[1]
          /\ \A k \in DOMAIN q : k # 1 => k - 1 \in DOMAIN Tail(q) /\ Tail(q)[k - 1] = q[k]
      BY TailHas
    <2> QED
      BY <2>1 DEF Loading, Load
  <1>4. Resident(a, Tail(q), w, t)
    BY <1>2, <1>3 DEF Rest, Resident
  <1>5. a.unreadable = None
    BY DEF Rest, Granted
  <1> QED
    BY <1>1, <1>2, <1>4, <1>5, StayRest

\* The book the reader is in was loaded, where it was asked for or at its place.
LEMMA LandedRest ==
    ASSUME NEW a, NEW q \in Seq(Commands), q # <<>>, NEW ev, NEW t, NEW pl,
           NEW st, NEW ch, NEW ch2, NEW lo, Rest(a, q, ev, t, pl, st, ch, lo),
           Load(Head(q)), ~Leaves(Head(q)), NEW e, e.kind = "loaded",
           NEW w, Added(ev, e, w),
           ch[a.book] \subseteq ch2[a.book], e.position \in {None} \cup ch2[a.book],
           NEW u, u.loaded = a.book, u.reading = a.book, u.pending = t.pending,
           u.hold # None => u.hold.book = a.book, HeldAsSaved(u, pl)
    PROVE  Rest(a, Tail(q), w, u, pl, st, ch2, lo)
  <1> DEFINE r == Tail(q)
  <1>1. ~Going(q) /\ ~Going(r) /\ Carries(q, r)
    BY HeadStays DEF Load
  <1> HIDE DEF r
  <1>2. /\ \A i \in DOMAIN w : w[i] = e \/ \E k \in DOMAIN ev : w[i] = ev[k]
        /\ Moving(a, ev) => Moving(a, w)
    BY EventMore
  <1>3. From(a, r) = Spot(a.book, a.page) /\ From(a, q) = Spot(a.book, a.page)
        /\ From(a, q).book = a.book /\ From(a, q).page = a.page
    BY <1>1 DEF From, Spot
  <1>4. /\ \A i \in Records(r) : \E k \in Records(q) : r[i] = q[k]
        /\ Records(q) = {} => Records(r) = {}
    BY <1>1 DEF Carries
  <1>5. GoesAlone(a, r, w)
    BY <1>1 DEF GoesAlone
  <1>6. Granted(a, w, ch2)
    BY <1>2 DEF Rest, Granted
  <1>7. OneBook(a, r, u)
    BY <1>3, <1>4 DEF Rest, OneBook
  <1>8. Resident(a, r, w, u) /\ AllOrderly(pl)
    BY DEF Rest, Resident
  <1>9. OnItsWay(a, r, w, u, pl, st, lo)
    <2>1. Says(q, t, pl, st, a.book, a.page) => Says(r, t, pl, st, a.book, a.page)
      BY <1>1, SaysStill
    <2>2. Says(r, t, pl, st, a.book, a.page) => Says(r, u, pl, st, a.book, a.page)
      BY DEF Says
    <2> QED
      BY <1>1, <1>2, <2>1, <2>2 DEF Rest, OnItsWay
  <1>10. Picks(a, r, w, u, pl, ch2)
    <2>1. /\ \A i \in Records(q) : q[i].page \in ch[a.book]
          /\ t.pending # None => t.pending.page \in ch[a.book] /\ t.pending.book = a.book
      BY <1>3 DEF Rest, Picks, OneBook
    <2>2. \A i \in Records(r) : r[i].page \in ch2[a.book] /\ r[i].book = a.book
      BY <1>3, <1>4, <1>7, <2>1 DEF OneBook
    <2>3. \/ a.page \in ch2[a.book]
          \/ /\ Records(r) = {} /\ u.pending = None
             /\ NewestPlace(pl[a.book]) \in {None, a.page}
          \/ Moving(a, w)
      BY <1>2, <1>3, <1>4 DEF Rest, Picks
    <2> QED
      BY <1>1, <1>3, <2>1, <2>2, <2>3 DEF Picks
  <1> QED
    BY <1>5, <1>6, <1>7, <1>8, <1>9, <1>10 DEF Rest, r

\* A record of p taken: it is owed, or it is on the card.
Recorded(t, u, pl, pl2, b, p) ==
    /\ u.loaded = t.loaded /\ u.reading = t.reading
    /\ u.hold # None => t.hold # None /\ u.hold.book = t.hold.book
    /\ HeldAsSaved(u, pl2) /\ AllOrderly(pl2)
    /\ \/ u.pending = Spot(b, p)
       \/ u.pending = None /\ (t.loaded = b => NewestPlace(pl2[b]) = p)

LEMMA RecordRest ==
    ASSUME NEW a, NEW q \in Seq(Commands), q # <<>>, NEW ev, NEW t, NEW pl, NEW st, NEW ch,
           NEW lo, Rest(a, q, ev, t, pl, st, ch, lo), Head(q).op = "progress",
           NEW u, NEW pl2, NEW st2, Recorded(t, u, pl, pl2, Head(q).book, Head(q).page),
           NEW lo2, lo2 \/ (~lo /\ t.loaded = Head(q).book)
    PROVE  Rest(a, Tail(q), ev, u, pl2, st2, ch, lo2)
  <1> DEFINE r == Tail(q)
             b == Head(q).book
             p == Head(q).page
  <1>1. /\ 1 \in DOMAIN q /\ Head(q) = q[1]
        /\ r \in Seq(Commands) /\ Len(r) = Len(q) - 1
        /\ DOMAIN q = 1 .. Len(q) /\ Len(q) \in Nat /\ Len(q) >= 1
        /\ \A i \in DOMAIN r : i + 1 \in DOMAIN q /\ r[i] = q[i + 1]
        /\ \A k \in DOMAIN q : k # 1 => k - 1 \in DOMAIN r /\ r[k - 1] = q[k]
    BY TailHas
  <1>2. /\ Going(r) => Going(q)
        /\ \A i \in Records(r) : \E k \in Records(q) : r[i] = q[k]
        /\ Records(r) # {} => Carries(q, r)
        /\ Records(r) = {} => \A x : LastRecord(q, x) => x = p
    BY TailCarries
  <1>3. Head(q) \in Commands
    BY TailHas
  <1>4. b \in Books /\ p \in Pages /\ p # None
    BY <1>3, CommandHas, NoneIsNoPage
  <1>5. 1 \in Records(q)
    BY <1>1 DEF Records
  <1>6. Loading(q) => Loading(r)
    BY <1>1 DEF Loading, Load
  <1>7. Going(q) => Len(q) # 1 /\ Going(r) /\ r[Len(r)] = q[Len(q)] /\ Len(r) \in DOMAIN r
    <2>1. SUFFICES ASSUME Going(q) PROVE Len(q) # 1 /\ Going(r) /\ r[Len(r)] = q[Len(q)]
                                         /\ Len(r) \in DOMAIN r
      OBVIOUS
    <2>2. Leaves(q[Len(q)]) /\ Len(q) \in DOMAIN q
      BY <2>1 DEF Rest, GoesAlone
    <2>3. Len(q) # 1
      BY <1>1, <2>2 DEF Leaves
    <2>4. Len(q) - 1 \in DOMAIN r /\ r[Len(q) - 1] = q[Len(q)]
      BY <1>1, <2>2, <2>3
    <2> QED
      BY <1>1, <2>2, <2>3, <2>4 DEF Going
  <1> HIDE DEF r
  <1>8. From(a, r) = From(a, q)
    BY <1>2, <1>7 DEF From
  <1>9. GoesAlone(a, r, ev)
    <2>1. SUFFICES ASSUME Going(r)
                   PROVE  /\ Len(r) \in DOMAIN r /\ Leaves(r[Len(r)])
                          /\ r[Len(r)].page = 0 /\ a.page = 0
                          /\ \A i \in DOMAIN r : i # Len(r) => r[i].op = "progress"
                          /\ ~Settling(ev)
                          /\ a.opening # None
      BY DEF GoesAlone
    <2>2. Going(q)
      BY <1>2, <2>1
    <2>3. /\ Leaves(q[Len(q)]) /\ q[Len(q)].page = 0 /\ a.page = 0
          /\ \A i \in DOMAIN q : i # Len(q) => q[i].op = "progress"
          /\ ~Settling(ev) /\ a.opening # None
      BY <2>2 DEF Rest, GoesAlone
    <2>4. ASSUME NEW i \in DOMAIN r, i # Len(r) PROVE i + 1 # Len(q)
      <3>1. i \in Int
        BY <1>1, LenProperties
      <3> QED
        BY <1>1, <2>4, <3>1
    <2>5. \A i \in DOMAIN r : i # Len(r) => r[i].op = "progress"
      BY <1>1, <2>3, <2>4
    <2> QED
      BY <1>7, <2>2, <2>3, <2>5
  <1>10. Granted(a, ev, ch)
    BY DEF Rest
  <1> HIDE DEF b, p
  <1>11. b = From(a, q).book /\ Spot(b, p).book = b /\ Spot(b, p).page = p
    BY <1>1, <1>5 DEF Rest, OneBook, b, Spot
  <1>12. Spot(b, p) # None
    BY <1>4, NoneIsNoSpot DEF Spot, Spots
  <1>13. /\ u.loaded = t.loaded /\ u.reading = t.reading
         /\ u.hold # None => t.hold # None /\ u.hold.book = t.hold.book
         /\ HeldAsSaved(u, pl2) /\ AllOrderly(pl2)
         /\ \/ u.pending = Spot(b, p)
            \/ u.pending = None /\ (t.loaded = b => NewestPlace(pl2[b]) = p)
    BY DEF Recorded, b, p
  <1>14. OneBook(a, r, u)
    BY <1>2, <1>8, <1>11, <1>13 DEF Rest, OneBook
  <1>15. Resident(a, r, ev, u)
    BY <1>6, <1>13 DEF Rest, Resident
  <1>16. OnItsWay(a, r, ev, u, pl2, st2, lo2)
    <2>1. SUFFICES ASSUME ~lo2, ~Going(r), ~Moving(a, ev)
                   PROVE  Says(r, u, pl2, st2, a.book, a.page)
      BY DEF OnItsWay
    <2>2. ~lo /\ t.loaded = b /\ ~Going(q)
      BY <1>7, <2>1 DEF b
    <2>3. Says(q, t, pl, st, a.book, a.page)
      BY <2>1, <2>2 DEF Rest, OnItsWay
    <2>4. LastRecord(q, a.page)
      BY <1>5, <2>3 DEF Says
    <2>5. From(a, q).book = a.book
      BY <2>2 DEF From, Spot
    <2>6. CASE Records(r) # {}
      BY <1>2, <2>4, <2>6 DEF Carries, Says
    <2>7. CASE Records(r) = {}
      <3>1. a.page = p
        BY <1>2, <2>4, <2>7
      <3>2. u.pending = None => OpensAt(pl2, st2, a.book) = p
        BY <1>4, <1>11, <1>12, <1>13, <2>2, <2>5 DEF OpensAt
      <3>3. u.pending # None => u.pending.page = p
        BY <1>11, <1>13
      <3> QED
        BY <2>7, <3>1, <3>2, <3>3 DEF Says
    <2> QED
      BY <2>6, <2>7
  <1>17. Picks(a, r, ev, u, pl2, ch)
    <2>1. \A i \in Records(q) : q[i].page \in ch[q[i].book]
      BY DEF Rest, Picks
    <2>2. p \in ch[b]
      BY <1>1, <1>5, <2>1 DEF b, p
    <2>3. From(a, q).page \in ch[From(a, q).book] \/ (~Going(r) /\ Moving(a, ev))
      BY <1>2, <1>5 DEF Rest, Picks
    <2> QED
      BY <1>2, <1>8, <1>11, <1>12, <1>13, <2>1, <2>2, <2>3 DEF Picks
  <1> QED
    BY <1>9, <1>10, <1>13, <1>14, <1>15, <1>16, <1>17 DEF Rest, r

\* What was owed is on the card, with nothing else under way.
LEMMA FlushedRest ==
    ASSUME NEW a, NEW q, q = <<>>, NEW ev, ev = <<>>, NEW t, NEW pl, NEW st, NEW ch,
           NEW lo, Rest(a, q, ev, t, pl, st, ch, lo), t.pending # None,
           NEW u, NEW pl2, NEW st2, Recorded(t, u, pl, pl2, t.pending.book, t.pending.page),
           u.pending = None, t.pending \in Spots,
           NEW lo2, lo2 \/ (~lo /\ t.loaded = t.pending.book)
    PROVE  Rest(a, q, ev, u, pl2, st2, ch, lo2)
  <1> DEFINE b == t.pending.book
             p == t.pending.page
  <1>1. DOMAIN q = {} /\ DOMAIN ev = {}
    OBVIOUS
  <1>2. ~Going(q) /\ ~Settling(ev) /\ ~Moving(a, ev) /\ Records(q) = {} /\ ~Loading(q)
    BY <1>1 DEF Going, Settling, Moving, Records, Loading
  <1>3. /\ From(a, q) = Spot(a.book, a.page) /\ From(a, q).book = a.book
        /\ From(a, q).page = a.page
    BY <1>2 DEF From, Spot
  <1>4. b = a.book /\ p # None /\ p \in Pages
    <2>1. b = a.book
      BY <1>3 DEF Rest, OneBook
    <2> QED
      BY <2>1, NoneIsNoPage DEF Spots
  <1> HIDE DEF b, p
  <1>5. /\ u.loaded = t.loaded /\ u.reading = t.reading
        /\ u.hold # None => t.hold # None /\ u.hold.book = t.hold.book
        /\ HeldAsSaved(u, pl2) /\ AllOrderly(pl2)
        /\ t.loaded = b => NewestPlace(pl2[b]) = p
    <2>1. Spot(b, p) # None
      BY <1>4, NoneIsNoSpot DEF Spot, Spots, b
    <2> QED
      BY <2>1 DEF Recorded, b, p
  <1>6. GoesAlone(a, q, ev) /\ Granted(a, ev, ch)
    BY DEF Rest
  <1>7. OneBook(a, q, u)
    BY <1>3, <1>5 DEF Rest, OneBook
  <1>8. Resident(a, q, ev, u)
    BY <1>5 DEF Rest, Resident
  <1>9. OnItsWay(a, q, ev, u, pl2, st2, lo2)
    <2>1. SUFFICES ASSUME ~lo2 PROVE Says(q, u, pl2, st2, a.book, a.page)
      BY DEF OnItsWay
    <2>2. ~lo /\ t.loaded = b
      BY <2>1 DEF b
    <2>3. Says(q, t, pl, st, a.book, a.page)
      BY <1>2, <2>2 DEF Rest, OnItsWay
    <2>4. a.page = p
      BY <1>2, <2>3 DEF Says, LastRecord, p
    <2>5. OpensAt(pl2, st2, a.book) = p
      BY <1>4, <1>5, <2>2 DEF OpensAt
    <2> QED
      BY <1>2, <2>4, <2>5 DEF Says
  <1>10. Picks(a, q, ev, u, pl2, ch)
    BY <1>2, <1>3 DEF Rest, Picks
  <1> QED
    BY <1>5, <1>6, <1>7, <1>8, <1>9, <1>10 DEF Rest

\* The book that was left is closed out, and the one that is gone to is loaded
\* at its place, or at the start when it has none.
LEMMA LeftRest ==
    ASSUME NEW a, NEW q \in Seq(Commands), q # <<>>, NEW ev, NEW t, NEW pl, NEW st, NEW ch,
           NEW lo, Rest(a, q, ev, t, pl, st, ch, lo), Leaves(Head(q)), Head(q).book = a.book,
           NEW e, e.kind = "loaded", NEW w, Added(ev, e, w),
           NEW u, NEW pl2, NEW st2, NEW ch2, AllOrderly(pl2),
           u.loaded = a.book, u.reading = a.book, u.pending = None,
           u.hold # None => u.hold.book = a.book, HeldAsSaved(u, pl2),
           e.position = NewestPlace(pl2[a.book]), e.position \in {None} \cup ch2[a.book],
           e.position = None => st2 = Spot(a.book, 0)
    PROVE  Rest(a, Tail(q), w, u, pl2, st2, ch2, lo)
  <1>1. /\ Tail(q) = <<>> /\ a.page = 0 /\ ~Settling(ev)
    BY HeadLeaves
  <1> DEFINE r == Tail(q)
  <1>2. DOMAIN r = {}
    BY <1>1
  <1> HIDE DEF r
  <1>3. ~Going(r) /\ Records(r) = {} /\ ~Loading(r)
    BY <1>2 DEF Going, Records, Loading
  <1>4. /\ \A i \in DOMAIN w : w[i] = e \/ \E k \in DOMAIN ev : w[i] = ev[k]
        /\ e.position \notin {None, a.page} => Moving(a, w)
    BY EventMore
  <1>5. From(a, r) = Spot(a.book, a.page) /\ From(a, r).book = a.book /\ From(a, r).page = a.page
    BY <1>3 DEF From, Spot
  <1>6. GoesAlone(a, r, w)
    BY <1>3 DEF GoesAlone
  <1>7. Granted(a, w, ch2)
    <2>1. \A i \in DOMAIN ev : ev[i].kind = "row"
      BY <1>1 DEF Rest, Granted, Settling, IsSettle
    <2> QED
      BY <1>4, <2>1 DEF Rest, Granted
  <1>8. OneBook(a, r, u)
    BY <1>3, <1>5 DEF OneBook
  <1>9. Resident(a, r, w, u)
    BY DEF Resident
  <1>10. OnItsWay(a, r, w, u, pl2, st2, lo)
    <2>1. CASE e.position \notin {None, a.page}
      BY <1>4, <2>1 DEF OnItsWay
    <2>2. CASE e.position \in {None, a.page}
      <3>1. OpensAt(pl2, st2, a.book) = a.page
        BY <1>1, <2>2 DEF OpensAt, Spot
      <3> QED
        BY <1>3, <3>1 DEF OnItsWay, Says
    <2> QED
      BY <2>1, <2>2
  <1>11. Picks(a, r, w, u, pl2, ch2)
    BY <1>3, <1>4, <1>5 DEF Picks
  <1> QED
    BY <1>6, <1>7, <1>8, <1>9, <1>10, <1>11 DEF Rest, r
-----------------------------------------------------------------------------
(***************************************************************************)
(* A load that takes no fault.                                             *)
(***************************************************************************)
\* The book b is loaded at a page, or where it was asked for, and is held so.
Landed(c, l, b, position, hold) ==
    /\ l.card \in Cards
    /\ l.card.place = c.place /\ l.card.state = c.state
    /\ l.card.faults = c.faults
    /\ l.card.task.loaded = b /\ l.card.task.reading = b
    /\ l.card.task.pending = c.task.pending /\ l.card.task.hold = hold
    /\ l.event \in Events /\ l.event.kind = "loaded" /\ l.event.book = b
    /\ l.event.position = position
    /\ l.stands = (position # None)

LEMMA LandingLands ==
    ASSUME NEW c \in Cards, NEW b \in Books, NEW position \in Pages \cup {None},
           NEW hold \in Held, NEW replaced \in BOOLEAN,
           NEW l, l = Landing(c, b, position, hold, replaced)
    PROVE  Landed(c, l, b, position, hold)
  <1> DEFINE d == [c EXCEPT !.task.loaded = b, !.task.reading = b, !.task.hold = hold]
  <1>1. d \in Cards
    BY CardIs
  <1>2. /\ d.place = c.place /\ d.state = c.state /\ d.faults = c.faults
        /\ d.task.loaded = b /\ d.task.reading = b
        /\ d.task.pending = c.task.pending /\ d.task.hold = hold
    BY DEF Cards, HeldTasks
  <1>3. /\ Loaded(b, position, replaced) \in Events
        /\ Loaded(b, position, replaced).kind = "loaded"
        /\ Loaded(b, position, replaced).book = b
        /\ Loaded(b, position, replaced).position = position
    BY DEF Loaded, Events
  <1>4. /\ l.card = d /\ l.event = Loaded(b, position, replaced)
        /\ l.stands = (position # None)
    BY DEF Landing
  <1> HIDE DEF d
  <1> QED
    BY <1>1, <1>2, <1>3, <1>4 DEF Landed

\* Every other way a load ends takes a fault.
LEMMA FaultMore ==
    ASSUME NEW c \in Cards, NEW d, d = [c EXCEPT !.faults = @ + 1]
    PROVE  d \in Cards /\ d.faults = c.faults + 1 /\ c.faults \in Nat /\ d.place = c.place
  BY CardIs DEF Cards

LEMMA LandingFaults ==
    ASSUME NEW c \in Cards, NEW b, NEW position, NEW hold, NEW replaced,
           NEW l, l = Landing(c, b, position, hold, replaced)
    PROVE  l.card.faults = c.faults /\ l.card.place = c.place
  BY DEF Landing, Cards

LEMMA FallbackFaults ==
    ASSUME NEW c \in Cards, NEW b, NEW hold, NEW stands, NEW l, l = Fallback(c, b, hold, stands)
    PROVE  l.card.faults = c.faults + 1 /\ l.card.place = c.place
  <1>1. PICK v \in Cards : v = [c EXCEPT !.faults = @ + 1] /\ v.faults = c.faults + 1
                         /\ v.place = c.place
    BY FaultMore, CardIs
  <1>2. PICK m : m = Landing(v, b, 0, hold, TRUE)
    OBVIOUS
  <1>3. m.card.faults = v.faults /\ m.card.place = v.place
    BY <1>2 DEF Landing, Cards
  <1>4. l = [m EXCEPT !.stands = stands]
    BY <1>1, <1>2 DEF Fallback
  <1>5. l.card = m.card
    BY <1>2, <1>4 DEF Landing
  <1> QED
    BY <1>1, <1>3, <1>5

LEMMA NothingFaults ==
    ASSUME NEW c \in Cards, NEW b, NEW hold, NEW l, l = NothingLoads(c, b, hold)
    PROVE  l.card.faults = c.faults + 1 /\ l.card.place = c.place
  BY DEF NothingLoads, Cards

LEMMA AsAskedFree ==
    ASSUME NEW c \in Cards, NEW e, NEW b \in Books, b = e.book, NEW hold \in Held,
           NEW l \in AsAsked(c, e, hold), l.card.faults <= c.faults
    PROVE  Landed(c, l, b, None, hold)
  <1>1. \/ \E r \in Replaced(c, b) : l = Landing(c, b, None, hold, r)
        \/ l = Fallback(c, b, hold, TRUE)
        \/ l = NothingLoads(c, b, hold)
    BY DEF AsAsked
  <1>2. c.faults \in Nat
    BY CardHas
  <1>3. CASE \E r \in Replaced(c, b) : l = Landing(c, b, None, hold, r)
    <2>1. PICK r \in Replaced(c, b) : l = Landing(c, b, None, hold, r)
      BY <1>3
    <2>2. r \in BOOLEAN
      BY DEF Replaced
    <2> QED
      BY <2>1, <2>2, LandingLands
  <1>4. CASE l = Fallback(c, b, hold, TRUE)
    <2>1. PICK yes : yes = TRUE
      OBVIOUS
    <2>2. l = Fallback(c, b, hold, yes)
      BY <1>4, <2>1
    <2>3. l.card.faults = c.faults + 1
      BY <2>2, FallbackFaults
    <2> QED
      BY <1>2, <2>3
  <1>5. CASE l = NothingLoads(c, b, hold)
    <2>1. l.card.faults = c.faults + 1
      BY <1>5, NothingFaults
    <2> QED
      BY <1>2, <2>1
  <1> QED
    BY <1>1, <1>3, <1>4, <1>5

LEMMA AtPlaceFree ==
    ASSUME NEW c \in Cards, NEW e, NEW b \in Books, b = e.book, NEW p \in Pages,
           NEW l \in AtPlace(c, e, p), l.card.faults <= c.faults
    PROVE  \E h \in Held : h = Hold(b, p, p, TRUE) /\ Landed(c, l, b, p, h)
  <1>1. \/ l = Landing(c, b, p, Hold(b, p, p, TRUE), TRUE)
        \/ l = NothingLoads(c, b, None)
        \/ l = Fallback(c, b, Hold(b, 0, p, FALSE), FALSE)
    BY DEF AtPlace
  <1>2. c.faults \in Nat
    BY CardHas
  <1>3. CASE l = Landing(c, b, p, Hold(b, p, p, TRUE), TRUE)
    <2>1. PICK h \in Held : h = Hold(b, p, p, TRUE)
      BY HoldIs
    <2>2. PICK r \in BOOLEAN : r = TRUE
      OBVIOUS
    <2>3. l = Landing(c, b, p, h, r)
      BY <1>3, <2>1, <2>2
    <2>4. Landed(c, l, b, p, h)
      BY <2>3, LandingLands
    <2> QED
      BY <2>1, <2>4
  <1>4. CASE l = Fallback(c, b, Hold(b, 0, p, FALSE), FALSE)
    <2>1. PICK no, h : no = FALSE /\ h = Hold(b, 0, p, FALSE)
      OBVIOUS
    <2>2. l = Fallback(c, b, h, no)
      BY <1>4, <2>1
    <2>3. l.card.faults = c.faults + 1
      BY <2>2, FallbackFaults
    <2> QED
      BY <1>2, <2>3
  <1>5. CASE l = NothingLoads(c, b, None)
    <2>1. l.card.faults = c.faults + 1
      BY <1>5, NothingFaults
    <2> QED
      BY <1>2, <2>1
  <1> QED
    BY <1>1, <1>3, <1>4, <1>5

LEMMA PlaceUnreadFaults ==
    ASSUME NEW c \in Cards, NEW e, NEW l \in PlaceUnread(c, e)
    PROVE  ~(l.card.faults <= c.faults)
  <1>0. PICK b : b = e.book
    OBVIOUS
  <1>1. PICK v \in Cards : v = [c EXCEPT !.faults = @ + 1] /\ v.faults = c.faults + 1
    BY FaultMore, CardIs
  <1>2. c.faults \in Nat
    BY CardHas
  <1>3. \/ \E r, h : l = Landing(v, b, None, h, r)
        \/ \E h, no : l = Fallback(v, b, h, no)
        \/ l = NothingLoads(v, b, None)
    BY <1>0, <1>1 DEF PlaceUnread
  <1>4. l.card.faults = v.faults \/ l.card.faults = v.faults + 1
    BY <1>3, LandingFaults, FallbackFaults, NothingFaults
  <1> QED
    BY <1>1, <1>2, <1>4

\* At the place the card has, or where it was asked for when it has none.
LEMMA LoadsFree ==
    ASSUME NEW c \in Cards, NEW e, NEW b \in Books, b = e.book,
           NEW p, p = NewestPlace(c.place[b]),
           NEW l \in Loads(c, e), l.card.faults <= c.faults
    PROVE  \E h \in Held :
             \/ /\ Landed(c, l, b, None, h) /\ h = None
                /\ e.page = 0 => p = None
             \/ /\ Landed(c, l, b, p, h) /\ h = Hold(b, p, p, TRUE)
                /\ p \in Pages
  <1>1. p \in Pages \cup {None}
    BY CardHas, PairIs, StorageAssumption DEF Pages
  <1>2. None \in Held
    BY DEF Held
  <1>3. l \notin PlaceUnread(c, e)
    BY PlaceUnreadFaults
  <1>4. CASE l \in AsAsked(c, e, None) /\ (e.page = 0 => p = None)
    <2>1. Landed(c, l, b, None, None)
      BY <1>2, <1>4, AsAskedFree
    <2> QED
      BY <1>2, <1>4, <2>1
  <1>5. CASE p # None /\ l \in AtPlace(c, e, p)
    BY <1>1, <1>5, AtPlaceFree
  <1>6. \/ l \in AsAsked(c, e, None) /\ (e.page = 0 => p = None)
        \/ p # None /\ l \in AtPlace(c, e, p)
    <2>1. CASE ~(e.resolve \/ e.page = 0)
      BY <2>1 DEF Loads
    <2>2. CASE e.resolve \/ e.page = 0
      <3>1. l \in PlaceUnread(c, e) \cup (IF p = None THEN AsAsked(c, e, None) ELSE AtPlace(c, e, p))
        BY <2>2 DEF Loads
      <3> QED
        BY <1>3, <3>1
    <2> QED
      BY <2>1, <2>2
  <1> QED
    BY <1>4, <1>5, <1>6
-----------------------------------------------------------------------------
(***************************************************************************)
(* The steps of the storage task.                                          *)
(***************************************************************************)
\* With nothing refused after a step, nothing was before it or in it.
LEMMA AppliedFree ==
    ASSUME TypeOK, CardOK, NEW c \in Cards, Apply(c), Unrefused'
    PROVE  /\ Unrefused /\ c.faults = 0
           /\ task' = c.task /\ place' = c.place /\ state' = c.state
  <1>1. SpentOK
    BY DEF TypeOK, SpentOK
  <1> QED
    BY <1>1, ApplyTyped DEF Apply, Unrefused

LEMMA RestSet ==
    ASSUME NEW a, NEW q, NEW ev, NEW t, NEW pl, NEW st, NEW ch, NEW lo,
           Rest(a, q, ev, t, pl, st, ch, lo),
           app' = a, sent' \o parked' = q, events' = ev, task' = t, place' = pl,
           state' = st, chosen' = ch, lost' = lo
    PROVE  RestNow'
  BY DEF RestNow

\* The loop before a command is taken.
At(a, q, ev, t, pl, st, ch, lo) ==
    /\ a = app /\ q = Queue /\ ev = events /\ t = task /\ pl = place /\ st = state
    /\ ch = chosen /\ lo = lost
    /\ a \in AppStates /\ q \in Seq(Commands) /\ q # <<>> /\ ev \in Seq(Events)
    /\ t \in HeldTasks /\ ch \in [Books -> SUBSET Pages]
    /\ Head(q) = Head(sent) /\ Head(q) \in Commands
    /\ app' = a /\ sent' \o parked' = Tail(q)
    /\ Core(a, q, ev) /\ Rest(a, q, ev, t, pl, st, ch, lo)

LEMMA TakeAt ==
    ASSUME TypeOK, CardOK, Core(app, Queue, events), RestNow, NEW op, Take(op)
    PROVE  /\ \E a, q, ev, t, pl, st, ch, lo : At(a, q, ev, t, pl, st, ch, lo)
           /\ Head(sent).op = op
  <1>1. AppOK /\ events \in Seq(Events) /\ task \in HeldTasks
        /\ chosen \in [Books -> SUBSET Pages]
    BY DEF TypeOK, AppOK, CardOK
  <1>2. /\ app' = app /\ Head(sent) \in Commands /\ Head(sent).op = op
        /\ Queue \in Seq(Commands) /\ Queue # <<>> /\ Head(Queue) = Head(sent)
        /\ sent' \o parked' = Tail(Queue)
    BY <1>1, TakeTyped
  <1>3. PICK q, ev, t, pl, st, ch, lo :
             /\ q = Queue /\ ev = events /\ t = task
             /\ pl = place /\ st = state /\ ch = chosen /\ lo = lost
             /\ Rest(app, q, ev, t, pl, st, ch, lo)
    BY RestParts
  <1>4. PICK a : a = app /\ Rest(a, q, ev, t, pl, st, ch, lo) /\ Core(a, q, ev)
    BY <1>3
  <1>5. At(a, q, ev, t, pl, st, ch, lo)
    BY <1>1, <1>2, <1>3, <1>4 DEF At, AppOK
  <1> QED
    BY <1>2, <1>5

LEMMA SkipStaleRest ==
    ASSUME TypeOK, CardOK, Core(app, Queue, events), Unrefused => RestNow, SkipStale, Unrefused'
    PROVE  RestNow'
  <1>1. PICK op \in {"open", "extend"} : Take(op)
    BY DEF SkipStale
  <1>2. /\ Head(sent).id # app.request
        /\ UNCHANGED <<events, task, cardVars, history, spent>>
    BY DEF SkipStale, IsLatest
  <1>3. RestNow
    BY <1>2 DEF Unrefused
  <1>4. PICK a, q, ev, t, pl, st, ch, lo : At(a, q, ev, t, pl, st, ch, lo)
    BY <1>1, <1>3, TakeAt
  <1>5. Head(sent).op = op
    BY <1>1, <1>3, TakeAt
  <1>6. Load(Head(q)) /\ Head(q).id # a.request /\ InOrder(q, a.request)
    BY <1>2, <1>4, <1>5 DEF At, Load, Core
  <1>7. Rest(a, Tail(q), ev, t, pl, st, ch, lo)
    BY <1>4, <1>6, SkippedRest DEF At
  <1>8. /\ app' = a /\ sent' \o parked' = Tail(q) /\ events' = ev /\ task' = t
        /\ place' = pl /\ state' = st /\ chosen' = ch /\ lost' = lo
    BY <1>2, <1>4 DEF At, cardVars, history
  <1> QED
    BY <1>7, <1>8, RestSet

LEMMA ChooseRest ==
    ASSUME TypeOK, CardOK, Core(app, Queue, events), Unrefused => RestNow, Choose, Unrefused'
    PROVE  RestNow'
  <1>1. Take("choose") /\ chosen' = chosen /\ lost' = lost
    BY DEF Choose
  <1>2. PICK failed \in BOOLEAN :
          /\ Apply([Now EXCEPT !.faults = IF failed THEN 1 ELSE 0])
          /\ events' = Append(events, RowEvent(IF failed THEN "rowFailed" ELSE "row",
                                               Head(sent).id, Head(sent).book))
    BY DEF Choose
  <1>3. PICK d \in Cards : /\ d = [Now EXCEPT !.faults = IF failed THEN 1 ELSE 0]
                           /\ d.faults = (IF failed THEN 1 ELSE 0)
                           /\ d.task = task /\ d.place = place /\ d.state = state
    <2>1. Now \in Cards /\ Now.task = task /\ Now.place = place /\ Now.state = state
      BY NowIs DEF Now
    <2>2. ASSUME NEW c \in Cards, NEW n \in Nat
          PROVE  /\ [c EXCEPT !.faults = n] \in Cards /\ [c EXCEPT !.faults = n].faults = n
                 /\ [c EXCEPT !.faults = n].task = c.task
                 /\ [c EXCEPT !.faults = n].place = c.place
                 /\ [c EXCEPT !.faults = n].state = c.state
      BY DEF Cards
    <2>3. PICK n \in Nat : n = IF failed THEN 1 ELSE 0
      OBVIOUS
    <2>4. PICK d : d = [Now EXCEPT !.faults = n]
      OBVIOUS
    <2>5. d \in Cards /\ d.faults = n /\ d.task = task /\ d.place = place /\ d.state = state
      BY <2>1, <2>2, <2>4
    <2> QED
      BY <2>3, <2>4, <2>5
  <1>4. Apply(d)
    BY <1>2, <1>3
  <1>5. /\ Unrefused /\ d.faults = 0
        /\ task' = d.task /\ place' = d.place /\ state' = d.state
    BY <1>4, AppliedFree
  <1>6. ~failed
    BY <1>3, <1>5
  <1>7. PICK a, q, ev, t, pl, st, ch, lo : At(a, q, ev, t, pl, st, ch, lo)
    BY <1>1, <1>5, TakeAt
  <1>8. Head(sent).op = "choose"
    BY <1>1, <1>5, TakeAt
  <1>9. Head(q) = Head(sent) /\ Head(q).op = "choose" /\ Head(q).id \in Nat /\ Head(q).book \in Books
    BY <1>7, <1>8, CommandHas DEF At
  <1>10. PICK e \in Events : e = RowEvent("row", Head(q).id, Head(q).book) /\ e.kind = "row"
    <2>1. ASSUME NEW id \in Nat, NEW b \in Books
          PROVE  RowEvent("row", id, b) \in Events /\ RowEvent("row", id, b).kind = "row"
      BY DEF RowEvent, Events
    <2> QED
      BY <1>9, <2>1
  <1>11. events' = Append(ev, e)
    BY <1>2, <1>6, <1>7, <1>9, <1>10 DEF At
  <1>12. PICK w : w = events' /\ Added(ev, e, w)
    BY <1>7, <1>10, <1>11 DEF At, Added
  <1>13. Rest(a, Tail(q), w, t, pl, st, ch, lo)
    BY <1>7, <1>9, <1>10, <1>12, ChosenRest DEF At
  <1>14. /\ app' = a /\ sent' \o parked' = Tail(q) /\ events' = w /\ task' = t
         /\ place' = pl /\ state' = st /\ chosen' = ch /\ lost' = lo
    BY <1>1, <1>3, <1>5, <1>7, <1>12 DEF At
  <1> QED
    BY <1>13, <1>14, RestSet

LEMMA NowHas ==
    ASSUME CardOK
    PROVE  /\ Now \in Cards /\ Now.ok = TRUE /\ Now.task = task /\ Now.place = place
           /\ Now.state = state /\ Now.faults = 0
  BY NowIs DEF Now

\* What a load that took no fault does.
LEMMA AnnouncedFree ==
    ASSUME TypeOK, CardOK, NEW l, l.card \in Cards, Announce(l), Unrefused'
    PROVE  /\ Unrefused /\ l.card.faults = 0
           /\ task' = l.card.task /\ place' = l.card.place /\ state' = l.card.state
           /\ events' = Append(events, l.event)
           /\ chosen' = IF l.stands
                        THEN [chosen EXCEPT ![l.event.book] = @ \cup {l.event.position}]
                        ELSE chosen
  BY AppliedFree DEF Announce

LEMMA ExtendRest ==
    ASSUME TypeOK, CardOK, Core(app, Queue, events), Unrefused => RestNow, Extend, Unrefused'
    PROVE  RestNow'
  <1>1. Take("extend") /\ lost' = lost
    BY DEF Extend
  <1>2. PICK l \in AsAsked(Now, Head(sent), task.hold) : Announce(l)
    BY DEF Extend
  <1>3. Head(sent) \in Commands /\ Head(sent).op = "extend" /\ Head(sent).book \in Books
    <2>1. AppOK
      BY DEF TypeOK, AppOK
    <2> QED
      BY <1>1, <2>1, TakeTyped, CommandHas
  <1>4. PICK b \in Books : b = Head(sent).book
    BY <1>3
  <1>5. task.hold \in Held
    BY NowHas, CardHas
  <1>6. LandsOn(l, Head(sent).book)
    BY <1>2, <1>3, <1>5, NowHas, AsAskedIs
  <1>7. l.card \in Cards
    BY <1>6 DEF LandsOn, WellLanded, Landings
  <1>8. /\ Unrefused /\ l.card.faults = 0
        /\ task' = l.card.task /\ place' = l.card.place /\ state' = l.card.state
        /\ events' = Append(events, l.event)
        /\ chosen' = IF l.stands
                     THEN [chosen EXCEPT ![l.event.book] = @ \cup {l.event.position}]
                     ELSE chosen
    BY <1>2, <1>7, AnnouncedFree
  <1>9. Landed(Now, l, b, None, task.hold)
    BY <1>2, <1>4, <1>5, <1>8, NowHas, AsAskedFree
  <1>10. PICK a, q, ev, t, pl, st, ch, lo : At(a, q, ev, t, pl, st, ch, lo)
    BY <1>1, <1>8, TakeAt
  <1>11. PICK u, e : u = l.card.task /\ e = l.event
    OBVIOUS
  <1>12. /\ u.loaded = b /\ u.reading = b /\ u.pending = t.pending /\ u.hold = t.hold
         /\ e \in Events /\ e.kind = "loaded" /\ e.position = None
         /\ ~l.stands /\ l.card.place = pl /\ l.card.state = st
    BY <1>9, <1>10, <1>11, NowHas DEF Landed, At
  <1>13. PICK w : w = events' /\ Added(ev, e, w)
    BY <1>8, <1>10, <1>11, <1>12 DEF At, Added
  <1>14. /\ Head(q).op = "extend" /\ Load(Head(q)) /\ ~Leaves(Head(q)) /\ b = a.book
    <2>1. Head(q).op = "extend" /\ b = Head(q).book
      BY <1>3, <1>4, <1>10 DEF At
    <2>2. 1 \in DOMAIN q /\ Head(q) = q[1] /\ SameBook(a, q, ev)
      BY <1>10, TailHas DEF At, Core
    <2> QED
      BY <2>1, <2>2 DEF Load, Leaves, SameBook
  <1>15. Rest(a, q, ev, t, pl, st, ch, lo) /\ q \in Seq(Commands) /\ q # <<>>
    BY <1>10 DEF At
  <1>16. u.hold # None => u.hold.book = a.book
    <2>1. ~Going(q)
      BY <1>14, <1>15, HeadStays
    <2> QED
      BY <1>12, <1>15, <2>1 DEF Rest, OneBook, From, Spot
  <1>17. HeldAsSaved(u, pl)
    BY <1>12, <1>15 DEF Rest, HeldAsSaved
  <1>18. Rest(a, Tail(q), w, u, pl, st, ch, lo)
    BY <1>12, <1>13, <1>14, <1>15, <1>16, <1>17, LandedRest
  <1>19. /\ app' = a /\ sent' \o parked' = Tail(q) /\ events' = w /\ task' = u
         /\ place' = pl /\ state' = st /\ chosen' = ch /\ lost' = lo
    BY <1>1, <1>8, <1>10, <1>11, <1>12, <1>13 DEF At
  <1> QED
    BY <1>18, <1>19, RestSet

\* The card with the hold that a record of p leaves.
Retired(c, b, p) == [c EXCEPT !.task.hold = Retire(@, b, p)]

LEMMA RetiredIs ==
    ASSUME NEW c \in Cards, NEW b \in Books, NEW p \in Pages, NEW d, d = Retired(c, b, p)
    PROVE  /\ d \in Cards /\ d.place = c.place /\ d.state = c.state
           /\ d.ok = c.ok /\ d.faults = c.faults
           /\ d.task.loaded = c.task.loaded /\ d.task.reading = c.task.reading
           /\ d.task.pending = c.task.pending
           /\ d.task.hold # None => c.task.hold # None /\ d.task.hold.book = c.task.hold.book
           /\ HeldAsSaved(c.task, c.place) => HeldAsSaved(d.task, d.place)
  <1>1. c.task.hold \in Held
    BY CardHas
  <1>2. PICK h : h = Retire(c.task.hold, b, p)
    OBVIOUS
  <1>3. /\ h \in Held
        /\ h # None => c.task.hold # None /\ h.book = c.task.hold.book
        /\ c.task.hold # None /\ c.task.hold.book # b => h = c.task.hold
        /\ h # None /\ c.task.hold.book = b /\ c.task.hold.left = None =>
             /\ h.landed = c.task.hold.landed /\ h.place = c.task.hold.place
             /\ h.stopped = c.task.hold.stopped
             /\ h.left = None /\ h.landed = p
    BY <1>1, <1>2, Retires
  <1>4. d = [c EXCEPT !.task.hold = h]
    BY <1>2 DEF Retired
  <1>5. d \in Cards
    BY <1>3, <1>4, CardIs
  <1>6. /\ d.place = c.place /\ d.state = c.state /\ d.ok = c.ok /\ d.faults = c.faults
        /\ d.task.loaded = c.task.loaded /\ d.task.reading = c.task.reading
        /\ d.task.pending = c.task.pending /\ d.task.hold = h
    BY <1>4 DEF Cards, HeldTasks
  <1>7. HeldAsSaved(c.task, c.place) => HeldAsSaved(d.task, d.place)
    BY <1>3, <1>6 DEF HeldAsSaved
  <1> QED
    BY <1>3, <1>5, <1>6, <1>7

LEMMA SpotIs ==
    ASSUME NEW b \in Books, NEW p \in Pages
    PROVE  Spot(b, p) \in Spots /\ Spot(b, p).book = b /\ Spot(b, p).page = p
  BY DEF Spot, Spots

\* What a record leaves of the card when nothing is refused.
LEMMA RecordedOn ==
    ASSUME NEW c \in Cards, c.faults = 0, NEW b \in Books, NEW p \in Pages,
           AllOrderly(c.place), HeldAsSaved(c.task, c.place),
           NEW v, v = Retired(c, b, p), NEW d \in Cards, d.faults = 0,
           d = Owing(v, Spot(b, p)) \/ d \in AppStateWrites(v, Spot(b, p))
    PROVE  Recorded(c.task, d.task, c.place, d.place, b, p)
  <1>1. /\ v \in Cards /\ v.place = c.place /\ v.faults = 0
        /\ v.task.loaded = c.task.loaded /\ v.task.reading = c.task.reading
        /\ v.task.hold # None => c.task.hold # None /\ v.task.hold.book = c.task.hold.book
        /\ HeldAsSaved(v.task, v.place)
    BY RetiredIs
  <1>2. PICK spot \in Spots : spot = Spot(b, p) /\ spot.book = b /\ spot.page = p
    BY SpotIs
  <1>3. CASE d = Owing(v, Spot(b, p))
    <2>1. /\ d.place = v.place /\ d.task.pending = spot
          /\ d.task.loaded = v.task.loaded /\ d.task.reading = v.task.reading
          /\ d.task.hold = v.task.hold
      BY <1>1, <1>2, <1>3, OwingIs
    <2>2. HeldAsSaved(d.task, d.place) /\ AllOrderly(d.place)
      BY <1>1, <2>1 DEF HeldAsSaved
    <2> QED
      BY <1>1, <1>2, <2>1, <2>2 DEF Recorded
  <1>4. CASE d \in AppStateWrites(v, Spot(b, p))
    <2>1. Wrote(v, d, b, p) /\ d.task.pending = None
      BY <1>1, <1>2, <1>4, AppStateWritten
    <2> QED
      BY <1>1, <2>1 DEF Wrote, Recorded
  <1> QED
    BY <1>3, <1>4

LEMMA ProgressRest ==
    ASSUME TypeOK, CardOK, Core(app, Queue, events), Unrefused => RestNow,
           NEW due \in BOOLEAN, Progress(due), Unrefused'
    PROVE  RestNow'
  <1>1. Take("progress") /\ events' = events /\ chosen' = chosen
    BY DEF Progress
  <1>2. Head(sent) \in Commands /\ Head(sent).op = "progress"
    <2>1. AppOK
      BY DEF TypeOK, AppOK
    <2> QED
      BY <1>1, <2>1, TakeTyped
  <1>3. PICK b \in Books, p \in Pages : b = Head(sent).book /\ p = Head(sent).page
    BY <1>2, CommandHas
  <1>4. PICK spot \in Spots : spot = Spot(b, p) /\ spot.book = b /\ spot.page = p
    BY SpotIs
  <1>5. PICK z : z = Retired(Now, b, p)
    OBVIOUS
  <1>6. z \in Cards /\ z.ok = TRUE /\ z.faults = 0 /\ z.task.pending = task.pending
    <2>1. PICK c \in Cards : c = Now /\ c.ok = TRUE /\ c.faults = 0 /\ c.task = task
      BY NowHas
    <2>2. z = Retired(c, b, p)
      BY <1>5, <2>1
    <2>3. z \in Cards /\ z.ok = c.ok /\ z.faults = c.faults /\ z.task.pending = c.task.pending
      BY <2>2, RetiredIs
    <2> QED
      BY <2>1, <2>3
  <1> DEFINE other == task.pending # None /\ task.pending.book # b
             writes(v) == IF ~v.ok THEN {v}
                          ELSE IF due \/ other THEN AppStateWrites(v, spot)
                          ELSE {Owing(v, spot)}
  <1>7. PICK v \in OthersFirst(z, b) : \E d \in writes(v) :
               Apply(d) /\ lost' = (lost \/ ~v.ok \/ task.loaded # b)
    BY <1>3, <1>4, <1>5 DEF Progress, Retired, Owing
  <1>8. PICK d \in writes(v) : Apply(d) /\ lost' = (lost \/ ~v.ok \/ task.loaded # b)
    BY <1>7
  <1>9. v \in Cards
    BY <1>6, OthersFirstAre
  <1>10. d \in {v} \cup AppStateWrites(v, spot) \cup {Owing(v, spot)}
    OBVIOUS
  <1>11. d \in Cards
    BY <1>4, <1>9, <1>10, AppStateWritesAre, OwingIs
  <1>12. Unrefused /\ d.faults = 0 /\ task' = d.task /\ place' = d.place /\ state' = d.state
    BY <1>8, <1>11, AppliedFree
  <1>13. PICK a, q, ev, t, pl, st, ch, lo : At(a, q, ev, t, pl, st, ch, lo)
    BY <1>1, <1>12, TakeAt
  <1>14. Rest(a, q, ev, t, pl, st, ch, lo) /\ q \in Seq(Commands) /\ q # <<>>
         /\ Head(q).op = "progress" /\ Head(q).book = b /\ Head(q).page = p
    BY <1>2, <1>3, <1>13 DEF At
  <1>15. t.pending = None \/ t.pending.book = b
    <2>1. 1 \in Records(q) /\ q[1].book = b
      BY <1>14, TailHas DEF Records
    <2> QED
      BY <1>14, <2>1 DEF Rest, OneBook
  <1>16. v = z
    <2>1. t.pending = z.task.pending
      BY <1>6, <1>13 DEF At
    <2> QED
      BY <1>7, <1>15, <2>1, OthersWait
  <1>17. ~other
    BY <1>13, <1>15 DEF At
  <1>18. d = Owing(z, Spot(b, p)) \/ d \in AppStateWrites(z, Spot(b, p))
    BY <1>4, <1>6, <1>8, <1>16, <1>17
  <1> HIDE DEF other, writes
  <1>19. PICK c \in Cards : /\ c = Now /\ c.faults = 0 /\ c.task = t /\ c.place = pl
    BY <1>13, NowHas DEF At
  <1>20. AllOrderly(c.place) /\ HeldAsSaved(c.task, c.place)
    BY <1>14, <1>19 DEF Rest
  <1>21. Recorded(c.task, d.task, c.place, d.place, b, p)
    BY <1>5, <1>11, <1>12, <1>18, <1>19, <1>20, RecordedOn
  <1>22. PICK u, pl2, st2, lo2 : u = d.task /\ pl2 = d.place /\ st2 = d.state /\ lo2 = lost'
    OBVIOUS
  <1>23. Recorded(t, u, pl, pl2, Head(q).book, Head(q).page)
    BY <1>14, <1>19, <1>21, <1>22
  <1>24. lo2 \/ (~lo /\ t.loaded = Head(q).book)
    BY <1>8, <1>13, <1>14, <1>22 DEF At
  <1>25. Rest(a, Tail(q), ev, u, pl2, st2, ch, lo2)
    BY <1>14, <1>23, <1>24, RecordRest
  <1>26. /\ app' = a /\ sent' \o parked' = Tail(q) /\ events' = ev /\ task' = u
         /\ place' = pl2 /\ state' = st2 /\ chosen' = ch /\ lost' = lo2
    BY <1>1, <1>12, <1>13, <1>22 DEF At
  <1> QED
    BY <1>25, <1>26, RestSet

\* A load, and what is pointed at after it, take what they take on top, and
\* write no place.
LEMMA LoadsMore ==
    ASSUME NEW c \in Cards, NEW e, NEW l \in Loads(c, e)
    PROVE  c.faults <= l.card.faults /\ l.card.place = c.place
  <1>0. PICK b : b = e.book
    OBVIOUS
  <1>1. c.faults \in Nat
    BY CardHas
  <1>2. CASE l \in PlaceUnread(c, e)
    <2>1. PICK v \in Cards : v = [c EXCEPT !.faults = @ + 1] /\ v.faults = c.faults + 1
                           /\ v.place = c.place
      BY FaultMore, CardIs
    <2>2. \/ \E r, h : l = Landing(v, b, None, h, r)
          \/ \E h, no : l = Fallback(v, b, h, no)
          \/ l = NothingLoads(v, b, None)
      BY <1>0, <1>2, <2>1 DEF PlaceUnread
    <2>3. (l.card.faults = v.faults \/ l.card.faults = v.faults + 1) /\ l.card.place = v.place
      BY <2>2, LandingFaults, FallbackFaults, NothingFaults
    <2> QED
      BY <1>1, <2>1, <2>3
  <1>3. CASE l \notin PlaceUnread(c, e)
    <2>1. \/ l \in AsAsked(c, e, None)
          \/ \E p : l \in AtPlace(c, e, p)
      <3>1. CASE ~(e.resolve \/ e.page = 0)
        BY <3>1 DEF Loads
      <3>2. CASE e.resolve \/ e.page = 0
        <4>1. PICK p : p = NewestPlace(c.place[e.book])
          OBVIOUS
        <4>2. l \in PlaceUnread(c, e) \cup (IF p = None THEN AsAsked(c, e, None) ELSE AtPlace(c, e, p))
          BY <3>2, <4>1 DEF Loads
        <4> QED
          BY <1>3, <4>2
      <3> QED
        BY <3>1, <3>2
    <2>2. l \in AsAsked(c, e, None) =>
            \/ \E r, h : l = Landing(c, b, None, h, r)
            \/ \E h, no : l = Fallback(c, b, h, no)
            \/ \E h : l = NothingLoads(c, b, h)
      BY <1>0 DEF AsAsked
    <2>3. ASSUME NEW p, l \in AtPlace(c, e, p)
          PROVE  \/ \E r, h : l = Landing(c, b, p, h, r)
                 \/ \E h, no : l = Fallback(c, b, h, no)
                 \/ \E h : l = NothingLoads(c, b, h)
      BY <1>0, <2>3 DEF AtPlace
    <2>4. \/ \E p, r, h : l = Landing(c, b, p, h, r)
          \/ \E h, no : l = Fallback(c, b, h, no)
          \/ \E h : l = NothingLoads(c, b, h)
      BY <2>1, <2>2, <2>3
    <2>5. (l.card.faults = c.faults \/ l.card.faults = c.faults + 1) /\ l.card.place = c.place
      BY <2>4, LandingFaults, FallbackFaults, NothingFaults
    <2> QED
      BY <1>1, <2>5
  <1> QED
    BY <1>2, <1>3

\* The landing with the state record moved to a place, or owing it.
PointMoved(l, spot) == [l EXCEPT !.card.state = spot, !.card.task.pending = None]
PointOwed(l, spot) == [l EXCEPT !.card.task.pending = spot, !.card.faults = @ + 1]

LEMMA PointedFree ==
    ASSUME NEW e, NEW b \in Books, b = e.book, NEW l, LandsOn(l, b),
           NEW m \in Pointed(l, e)
    PROVE  /\ l.card.faults <= m.card.faults
           /\ l.card.faults \in Nat /\ m.card.faults \in Nat
           /\ m.event = l.event /\ m.stands = l.stands
           /\ m.card.place = l.card.place
           /\ m.card.task.loaded = l.card.task.loaded
           /\ m.card.task.reading = l.card.task.reading
           /\ m.card.task.hold = l.card.task.hold
           /\ e.previous = None => m = l
           /\ e.previous # None /\ l.event.kind = "loaded" /\ m.card.faults <= l.card.faults =>
                /\ m.card.task.pending = None
                /\ m.card.state = Spot(b, IF l.event.position = None THEN 0 ELSE l.event.position)
  <1>1. l.card \in Cards /\ l \in Landings
    BY DEF LandsOn, WellLanded, Landings
  <1>2. l.card.faults \in Nat
    BY <1>1, CardHas
  <1>3. CASE e.previous = None \/ l.event.kind = "unreadable"
    <2>1. m = l
      BY <1>3 DEF Pointed
    <2> QED
      BY <1>2, <1>3, <2>1
  <1>4. CASE ~(e.previous = None \/ l.event.kind = "unreadable")
    <2>1. PICK spot : spot = Spot(b, IF l.event.position = None THEN 0 ELSE l.event.position)
      OBVIOUS
    <2>2. m = PointMoved(l, spot) \/ m = PointOwed(l, spot)
      BY <1>4, <2>1 DEF Pointed, PointMoved, PointOwed
    <2>3. CASE m = PointMoved(l, spot)
      <3>1. /\ m.event = l.event /\ m.stands = l.stands
            /\ m.card = [l.card EXCEPT !.state = spot, !.task.pending = None]
        BY <1>1, <2>3 DEF PointMoved, Landings
      <3>2. PICK c \in Cards : c = l.card
        BY <1>1
      <3>3. m.card = [c EXCEPT !.state = spot, !.task.pending = None]
        BY <3>1, <3>2
      <3>4. /\ m.card.place = c.place /\ m.card.faults = c.faults /\ m.card.state = spot
            /\ m.card.task.loaded = c.task.loaded /\ m.card.task.reading = c.task.reading
            /\ m.card.task.hold = c.task.hold /\ m.card.task.pending = None
        BY <3>3 DEF Cards, HeldTasks
      <3> QED
        BY <1>2, <1>4, <2>1, <3>1, <3>2, <3>4
    <2>4. CASE m = PointOwed(l, spot)
      <3>1. /\ m.event = l.event /\ m.stands = l.stands
            /\ m.card = [l.card EXCEPT !.task.pending = spot, !.faults = l.card.faults + 1]
        BY <1>1, <2>4 DEF PointOwed, Landings
      <3>2. PICK c \in Cards : c = l.card
        BY <1>1
      <3>3. m.card = [c EXCEPT !.task.pending = spot, !.faults = c.faults + 1]
        BY <3>1, <3>2
      <3>4. /\ m.card.place = c.place /\ m.card.faults = c.faults + 1
            /\ m.card.task.loaded = c.task.loaded /\ m.card.task.reading = c.task.reading
            /\ m.card.task.hold = c.task.hold
        BY <3>3 DEF Cards, HeldTasks
      <3>5. c.faults <= c.faults + 1 /\ ~(c.faults + 1 <= c.faults) /\ c.faults + 1 \in Nat
        BY <1>2, <3>2
      <3> QED
        BY <1>2, <1>4, <3>1, <3>2, <3>4, <3>5
    <2> QED
      BY <2>2, <2>3, <2>4
  <1> QED
    BY <1>3, <1>4

\* The card with nothing held any more.
Staged(c) == [c EXCEPT !.task.hold = None]

\* An open, in its parts: refused, or landed and pointed at.
OpenLands(z, c, l, m) ==
    /\ c \in Cards /\ c.ok
    /\ \/ z.previous = None /\ c = Now
       \/ z.previous # None /\ c \in CloseOut(Now, z.previous)
    /\ l \in Loads(Staged(c), z) /\ LandsOn(l, z.book)
    /\ m \in Pointed(l, z) /\ LandsOn(m, z.book)
    /\ Announce(m)

OpenFails(z, c) ==
    /\ c \in Cards /\ Apply(c)
    /\ \/ c.faults = 1 /\ c.place = place
       \/ ~c.ok /\ z.previous # None /\ c \in CloseOut(Now, z.previous)

LEMMA StagedIs ==
    ASSUME NEW c \in Cards, NEW d, d = Staged(c)
    PROVE  /\ d \in Cards /\ d.place = c.place /\ d.state = c.state
           /\ d.ok = c.ok /\ d.faults = c.faults /\ d.task.pending = c.task.pending
  <1>1. d \in Cards
    BY CardIs DEF Staged, Held
  <1> QED
    BY <1>1 DEF Staged, Cards, HeldTasks

LEMMA OpenParts ==
    ASSUME TypeOK, CardOK, Open
    PROVE  \E z \in Commands :
             /\ z = Head(sent) /\ z.op = "open" /\ z.book \in Books
             /\ Take("open") /\ lost' = lost
             /\ (\E c : OpenFails(z, c)) \/ (\E c, l, m : OpenLands(z, c, l, m))
  <1>1. /\ Take("open") /\ lost' = lost
    BY DEF Open
  <1>2. Head(sent) \in Commands /\ Head(sent).op = "open"
    <2>1. AppOK
      BY DEF TypeOK, AppOK
    <2> QED
      BY <1>1, <2>1, TakeTyped
  <1>3. PICK z \in Commands : z = Head(sent)
    BY <1>2
  <1>4. z.book \in Books /\ z.page \in Pages /\ z.previous \in Spots \cup {None}
    BY <1>2, <1>3, CommandHas
  <1>5. \/ Refuse([Now EXCEPT !.faults = 1], z)
        \/ \E d \in IF z.previous = None THEN {Now} ELSE CloseOut(Now, z.previous) :
             \/ ~d.ok /\ Refuse(d, z)
             \/ d.ok /\ \E l \in Loads(Staged(d), z) : \E m \in Pointed(l, z) : Announce(m)
    BY <1>3 DEF Open, Staged
  <1>6. CASE Refuse([Now EXCEPT !.faults = 1], z)
    <2>1. PICK d : d = [Now EXCEPT !.faults = 1]
      OBVIOUS
    <2>2. d \in Cards /\ d.faults = 1 /\ d.place = place
      <3>1. PICK c \in Cards : c = Now /\ c.place = place
        BY NowHas
      <3>2. d = [c EXCEPT !.faults = 1]
        BY <2>1, <3>1
      <3> QED
        BY <3>1, <3>2 DEF Cards
    <2>3. OpenFails(z, d)
      BY <1>6, <2>1, <2>2 DEF Refuse, OpenFails
    <2> QED
      BY <1>1, <1>2, <1>3, <1>4, <2>3
  <1>7. CASE \E d \in IF z.previous = None THEN {Now} ELSE CloseOut(Now, z.previous) :
             \/ ~d.ok /\ Refuse(d, z)
             \/ d.ok /\ \E l \in Loads(Staged(d), z) : \E m \in Pointed(l, z) : Announce(m)
    <2>1. PICK d \in IF z.previous = None THEN {Now} ELSE CloseOut(Now, z.previous) :
             \/ ~d.ok /\ Refuse(d, z)
             \/ d.ok /\ \E l \in Loads(Staged(d), z) : \E m \in Pointed(l, z) : Announce(m)
      BY <1>7
    <2>2. d \in Cards
      BY <1>4, <2>1, NowHas, CloseOutIs
    <2>3. \/ z.previous = None /\ d = Now /\ d.ok
          \/ z.previous # None /\ d \in CloseOut(Now, z.previous)
      BY <2>1, NowHas
    <2>4. CASE ~d.ok /\ Refuse(d, z)
      <3>1. OpenFails(z, d)
        BY <2>2, <2>3, <2>4 DEF Refuse, OpenFails
      <3> QED
        BY <1>1, <1>2, <1>3, <1>4, <3>1
    <2>5. CASE d.ok /\ \E l \in Loads(Staged(d), z) : \E m \in Pointed(l, z) : Announce(m)
      <3>1. PICK l \in Loads(Staged(d), z) : \E m \in Pointed(l, z) : Announce(m)
        BY <2>5
      <3>2. PICK m \in Pointed(l, z) : Announce(m)
        BY <3>1
      <3>3. Staged(d) \in Cards
        BY <2>2, StagedIs
      <3>4. LandsOn(l, z.book)
        BY <1>4, <3>1, <3>3, LoadsIs
      <3>5. LandsOn(m, z.book)
        BY <1>4, <3>2, <3>4, PointedIs
      <3>6. OpenLands(z, d, l, m)
        BY <2>2, <2>3, <2>5, <3>1, <3>2, <3>4, <3>5 DEF OpenLands
      <3> QED
        BY <1>1, <1>2, <1>3, <1>4, <3>6
    <2> QED
      BY <2>1, <2>4, <2>5
  <1> QED
    BY <1>5, <1>6, <1>7

\* A hold that a landing leaves is of the place the card has.
LEMMA HeldLanded ==
    ASSUME NEW u, NEW pl, NEW b, NEW p, NEW h, u.hold = h,
           h = None \/ (h = Hold(b, p, p, TRUE) /\ p \in Pages /\ p = NewestPlace(pl[b]))
    PROVE  HeldAsSaved(u, pl) /\ (u.hold # None => u.hold.book = b)
  <1>1. CASE h = None
    BY <1>1 DEF HeldAsSaved
  <1>2. CASE h = Hold(b, p, p, TRUE) /\ p \in Pages /\ p = NewestPlace(pl[b])
    <2>1. h.book = b /\ h.place = p /\ h.landed = p /\ h.left = None /\ h.stopped
      BY <1>2 DEF Hold
    <2>2. p # None
      BY <1>2, NoneIsNoPage
    <2> QED
      BY <1>2, <2>1, <2>2 DEF HeldAsSaved
  <1> QED
    BY <1>1, <1>2

LEMMA ChosenMore ==
    ASSUME NEW ch \in [Books -> SUBSET Pages], NEW b \in Books, NEW p, NEW stands,
           NEW ch2, ch2 = IF stands THEN [ch EXCEPT ![b] = @ \cup {p}] ELSE ch
    PROVE  ch[b] \subseteq ch2[b] /\ (stands => p \in ch2[b])
  OBVIOUS

\* The book that is left, when the open that leaves it is at the head.
LEMMA LeftBook ==
    ASSUME CardOK, NEW a, NEW q, NEW ev, NEW t, NEW pl, NEW st, NEW ch, NEW lo,
           At(a, q, ev, t, pl, st, ch, lo), NEW z \in Commands, z = Head(q), Leaves(z),
           NEW c \in CloseOut(Now, z.previous)
    PROVE  /\ AllOrderly(c.place) /\ c.state = st
           /\ c.faults = 0 => c.ok /\ c.task.pending = None
  <1>1. PICK n \in Cards : /\ n = Now /\ n.ok = TRUE /\ n.task = t /\ n.place = pl
                           /\ n.state = st /\ n.faults = 0
    BY NowHas DEF At
  <1>2. Rest(a, q, ev, t, pl, st, ch, lo) /\ q \in Seq(Commands) /\ q # <<>>
    BY DEF At
  <1>3. From(a, q) = z.previous
    BY <1>2, HeadLeaves
  <1>4. PICK r \in Spots : r = z.previous
    BY CommandHas DEF Leaves
  <1>5. /\ t.reading = r.book
        /\ t.pending = None \/ t.pending.book = r.book
        /\ AllOrderly(pl)
    BY <1>2, <1>3, <1>4 DEF Rest, OneBook
  <1>6. c \in CloseOut(n, r)
    BY <1>1, <1>4
  <1>7. /\ Wrote(n, c, r.book, r.page)
        /\ c.state = n.state
        /\ c.faults = n.faults => c.task.pending = None
    BY <1>1, <1>5, <1>6, CloseOutWritten
  <1> QED
    BY <1>1, <1>7 DEF Wrote

LEMMA OpenRest ==
    ASSUME TypeOK, CardOK, Core(app, Queue, events), Unrefused => RestNow, Open, Unrefused'
    PROVE  RestNow'
  <1>1. PICK z \in Commands :
             /\ z = Head(sent) /\ z.op = "open" /\ z.book \in Books
             /\ Take("open") /\ lost' = lost
             /\ (\E c : OpenFails(z, c)) \/ (\E c, l, m : OpenLands(z, c, l, m))
    BY OpenParts
  <1>2. ASSUME NEW c, OpenFails(z, c) PROVE FALSE
    <2>1. /\ c \in Cards /\ Apply(c)
          /\ c.faults = 1 \/ (~c.ok /\ z.previous # None /\ c \in CloseOut(Now, z.previous))
      BY <1>2 DEF OpenFails
    <2>2. Unrefused /\ c.faults = 0
      BY <2>1, AppliedFree
    <2>3. PICK a, q, ev, t, pl, st, ch, lo : At(a, q, ev, t, pl, st, ch, lo)
      BY <1>1, <2>2, TakeAt
    <2>4. z = Head(q) /\ Leaves(z) /\ c \in CloseOut(Now, z.previous)
      BY <1>1, <2>1, <2>2, <2>3 DEF At, Leaves
    <2>5. c.ok
      BY <2>2, <2>3, <2>4, LeftBook
    <2> QED
      BY <2>1, <2>2, <2>5
  <1>3. ASSUME NEW c, NEW l, NEW m, OpenLands(z, c, l, m) PROVE RestNow'
    <2>1. /\ c \in Cards /\ c.ok
          /\ \/ z.previous = None /\ c = Now
             \/ z.previous # None /\ c \in CloseOut(Now, z.previous)
          /\ l \in Loads(Staged(c), z) /\ LandsOn(l, z.book)
          /\ m \in Pointed(l, z) /\ LandsOn(m, z.book)
          /\ Announce(m)
      BY <1>3 DEF OpenLands
    <2>2. PICK b \in Books : b = z.book
      BY <1>1
    <2>3. m.card \in Cards
      BY <2>1 DEF LandsOn, WellLanded, Landings
    <2>4. /\ Unrefused /\ m.card.faults = 0
          /\ task' = m.card.task /\ place' = m.card.place /\ state' = m.card.state
          /\ events' = Append(events, m.event)
          /\ chosen' = IF m.stands
                       THEN [chosen EXCEPT ![m.event.book] = @ \cup {m.event.position}]
                       ELSE chosen
      BY <2>1, <2>3, AnnouncedFree
    <2>5. PICK s \in Cards : /\ s = Staged(c) /\ s.place = c.place /\ s.state = c.state
                             /\ s.faults = c.faults /\ s.task.pending = c.task.pending
      BY <2>1, StagedIs
    <2>6. s.faults <= l.card.faults
      BY <2>1, <2>5, LoadsMore
    <2>7. /\ l.card.faults <= m.card.faults
          /\ l.card.faults \in Nat /\ m.card.faults \in Nat
          /\ m.event = l.event /\ m.stands = l.stands
          /\ m.card.place = l.card.place
          /\ m.card.task.loaded = l.card.task.loaded
          /\ m.card.task.reading = l.card.task.reading
          /\ m.card.task.hold = l.card.task.hold
          /\ z.previous = None => m = l
          /\ z.previous # None /\ l.event.kind = "loaded" /\ m.card.faults <= l.card.faults =>
               /\ m.card.task.pending = None
               /\ m.card.state = Spot(b, IF l.event.position = None THEN 0 ELSE l.event.position)
      BY <2>1, <2>2, PointedFree
    <2>8. s.faults = 0 /\ l.card.faults = 0 /\ l.card.faults <= s.faults
      <3>1. s.faults \in Nat
        BY CardHas
      <3> QED
        BY <2>4, <2>6, <2>7, <3>1
    <2>9. PICK p : p = NewestPlace(s.place[b])
      OBVIOUS
    <2>10. PICK h \in Held :
             \/ /\ Landed(s, l, b, None, h) /\ h = None
                /\ z.page = 0 => p = None
             \/ /\ Landed(s, l, b, p, h) /\ h = Hold(b, p, p, TRUE)
                /\ p \in Pages
      <3>1. l \in Loads(s, z) /\ l.card.faults <= s.faults
        BY <2>1, <2>5, <2>8
      <3> QED
        BY <2>2, <2>9, <3>1, LoadsFree
    <2>11. PICK u, e : u = m.card.task /\ e = l.event
      OBVIOUS
    <2>12. /\ l.card.place = s.place /\ l.card.state = s.state
           /\ l.card.task.loaded = b /\ l.card.task.reading = b
           /\ l.card.task.pending = s.task.pending /\ l.card.task.hold = h
           /\ e \in Events /\ e.kind = "loaded" /\ e.book = b
           /\ l.stands = (e.position # None)
           /\ e.position \in {None, p}
           /\ z.page = 0 => e.position = p
      BY <2>10, <2>11 DEF Landed
    <2>13. PICK a, q, ev, t, pl, st, ch, lo : At(a, q, ev, t, pl, st, ch, lo)
      BY <1>1, <2>4, TakeAt
    <2>14. /\ Rest(a, q, ev, t, pl, st, ch, lo) /\ q \in Seq(Commands) /\ q # <<>>
           /\ z = Head(q) /\ Load(Head(q)) /\ ch \in [Books -> SUBSET Pages]
      BY <1>1, <2>13 DEF At, Load
    <2>15. b = a.book
      <3>1. 1 \in DOMAIN q /\ Head(q) = q[1] /\ SameBook(a, q, ev)
        BY <2>13, TailHas DEF At, Core
      <3> QED
        BY <2>2, <2>14, <3>1 DEF SameBook
    <2>16. PICK w, ch2, pl2, st2 : w = events' /\ ch2 = chosen' /\ pl2 = place' /\ st2 = state'
      OBVIOUS
    <2>17. Added(ev, e, w)
      BY <2>4, <2>7, <2>11, <2>12, <2>13, <2>16 DEF At, Added
    <2>18. PICK stands : stands = l.stands
      OBVIOUS
    <2>19. ch2 = IF l.stands THEN [ch EXCEPT ![b] = @ \cup {e.position}] ELSE ch
      BY <2>4, <2>7, <2>11, <2>12, <2>13, <2>16 DEF At
    <2>20. ch[b] \subseteq ch2[b] /\ (l.stands => e.position \in ch2[b])
      BY <2>14, <2>19, ChosenMore
    <2>21. /\ u.loaded = b /\ u.reading = b /\ u.hold = h /\ pl2 = s.place
      BY <2>4, <2>7, <2>11, <2>12, <2>16
    <2>22. HeldAsSaved(u, pl2) /\ (u.hold # None => u.hold.book = b)
      BY <2>9, <2>10, <2>21, HeldLanded
    <2>23. e.position \in {None} \cup ch2[a.book]
      BY <2>12, <2>15, <2>20
    <2>24. ASSUME NEW r, r = Tail(q), Rest(a, r, w, u, pl2, st2, ch2, lo) PROVE RestNow'
      <3>1. /\ app' = a /\ sent' \o parked' = r /\ events' = w /\ task' = u
            /\ place' = pl2 /\ state' = st2 /\ chosen' = ch2 /\ lost' = lo
        BY <1>1, <2>4, <2>11, <2>13, <2>16, <2>24 DEF At
      <3> QED
        BY <2>24, <3>1, RestSet
    <2>25. CASE z.previous = None
      <3>1. c = Now /\ m = l
        BY <2>1, <2>7, <2>25
      <3>2. u.pending = t.pending /\ pl2 = pl /\ st2 = st
        BY <2>4, <2>5, <2>11, <2>12, <2>13, <2>16, <2>21, <3>1, NowHas DEF At
      <3>3. ~Leaves(Head(q))
        BY <2>14, <2>25 DEF Leaves
      <3>4. Rest(a, Tail(q), w, u, pl, st, ch2, lo)
        BY <2>12, <2>14, <2>15, <2>17, <2>20, <2>21, <2>22, <2>23, <3>2, <3>3, LandedRest
      <3> QED
        BY <2>24, <3>2, <3>4
    <2>26. CASE z.previous # None
      <3>1. Leaves(Head(q)) /\ Leaves(z) /\ c \in CloseOut(Now, z.previous)
        BY <1>1, <2>1, <2>14, <2>26 DEF Leaves
      <3>2. AllOrderly(c.place)
        BY <2>13, <2>14, <3>1, LeftBook
      <3>3. AllOrderly(pl2)
        BY <2>5, <2>21, <3>2
      <3>4. z.page = 0
        BY <2>14, <3>1, HeadLeaves
      <3>5. e.position = NewestPlace(pl2[a.book])
        BY <2>9, <2>12, <2>15, <2>21, <3>4
      <3>6. /\ u.pending = None
            /\ e.position = None => st2 = Spot(a.book, 0)
        BY <2>4, <2>7, <2>8, <2>11, <2>12, <2>15, <2>16, <2>26
      <3>7. Rest(a, Tail(q), w, u, pl2, st2, ch2, lo)
        BY <2>2, <2>12, <2>14, <2>15, <2>17, <2>21, <2>22, <2>23, <3>1, <3>3, <3>5, <3>6, LeftRest
      <3> QED
        BY <2>24, <3>7
    <2> QED
      BY <2>25, <2>26
  <1> QED
    BY <1>1, <1>2, <1>3

LEMMA HandleRest ==
    ASSUME TypeOK, CardOK, Core(app, Queue, events), Unrefused => RestNow, Handle, Unrefused'
    PROVE  RestNow'
  BY SkipStaleRest, OpenRest, ExtendRest, ProgressRest, ChooseRest DEF Handle
-----------------------------------------------------------------------------
(***************************************************************************)
(* Every step keeps it, from the boot on.                                  *)
(***************************************************************************)
\* The faults of a card that is applied are spent.
LEMMA AppliedUnrefused ==
    ASSUME TypeOK, CardOK, NEW c, c.faults \in Nat, Apply(c), Unrefused'
    PROVE  Unrefused
  <1>1. spent \in [presses : Nat, faults : Nat, cuts : Nat] /\ spent.faults <= MaxFaults
        /\ MaxFaults \in Nat
    BY StorageAssumption DEF TypeOK, CardOK
  <1>2. spent'.faults = spent.faults - c.faults
    BY <1>1 DEF Apply
  <1> QED
    BY <1>1, <1>2 DEF Unrefused

\* With a place held as the card has it, no slice asks for it again.
LEMMA SettleStops ==
    ASSUME RestNow, Settle
    PROVE  FALSE
  <1>1. task.hold # None /\ ~task.hold.stopped
    BY DEF Settle
  <1>2. PICK q, ev, t, pl, st, ch, lo :
             /\ q = Queue /\ ev = events /\ t = task
             /\ pl = place /\ st = state /\ ch = chosen /\ lo = lost
             /\ Rest(app, q, ev, t, pl, st, ch, lo)
    BY RestParts
  <1> QED
    BY <1>1, <1>2 DEF Rest, HeldAsSaved

LEMMA SettleRest ==
    ASSUME TypeOK, CardOK, Unrefused => RestNow, Settle, Unrefused'
    PROVE  FALSE
  <1>1. task.hold # None /\ ~task.hold.stopped
    BY DEF Settle
  <1>2. PICK n \in Cards : n = Now /\ n.faults = 0
    BY NowHas
  <1>3. Unrefused
    <2>1. CASE spent' = spent
      BY <2>1 DEF Unrefused
    <2>2. CASE \E c : c.faults \in Nat /\ Apply(c)
      BY <2>2, AppliedUnrefused
    <2>3. spent' = spent \/ \E c : c.faults \in Nat /\ Apply(c)
      <3>1. \/ spent' = spent
            \/ \E l : Announce(l) /\ \/ \E b, p, h, r : l = Landing(n, b, p, h, r)
                                     \/ \E b, h, s : l = Fallback(n, b, h, s)
                                     \/ \E b, h : l = NothingLoads(n, b, h)
            \/ \E h, p : Apply([Now EXCEPT !.faults = IF p = None THEN 0 ELSE 1, !.task.hold = h])
        BY <1>2 DEF Settle, SettleHold
      <3>2. ASSUME NEW l, Announce(l),
                   \/ \E b, p, h, r : l = Landing(n, b, p, h, r)
                   \/ \E b, h, s : l = Fallback(n, b, h, s)
                   \/ \E b, h : l = NothingLoads(n, b, h)
            PROVE  \E c : c.faults \in Nat /\ Apply(c)
        <4>1. l.card.faults = 0 \/ l.card.faults = 0 + 1
          BY <1>2, <3>2, LandingFaults, FallbackFaults, NothingFaults
        <4>2. l.card.faults \in Nat /\ Apply(l.card)
          BY <3>2, <4>1 DEF Announce
        <4> QED
          BY <4>2
      <3>3. ASSUME NEW h, NEW p,
                   Apply([Now EXCEPT !.faults = IF p = None THEN 0 ELSE 1, !.task.hold = h])
            PROVE  \E c : c.faults \in Nat /\ Apply(c)
        <4>1. PICK c : c = [Now EXCEPT !.faults = IF p = None THEN 0 ELSE 1, !.task.hold = h]
          OBVIOUS
        <4>2. c.faults \in Nat
          BY <4>1 DEF Now
        <4> QED
          BY <3>3, <4>1, <4>2
      <3> QED
        BY <3>1, <3>2, <3>3
    <2> QED
      BY <2>1, <2>2, <2>3
  <1> QED
    BY <1>3, SettleStops

\* With nothing asked for the queue is empty.
LEMMA QuietQueue ==
    ASSUME Quiet
    PROVE  Queue = <<>> /\ events = <<>>
  <1>1. <<>> \in Seq(Commands)
    OBVIOUS
  <1> QED
    BY <1>1, ConcatEmptySeq DEF Quiet, Queue

LEMMA FlushRest ==
    ASSUME TypeOK, CardOK, Unrefused => RestNow, Flush, Unrefused'
    PROVE  RestNow'
  <1>1. /\ Quiet /\ task.pending # None
        /\ lost' = (lost \/ task.loaded # task.pending.book)
        /\ UNCHANGED <<appVars, events, shown, chosen>>
    BY DEF Flush
  <1>2. PICK c \in FlushWrites(Now) : Apply(c)
    BY DEF Flush
  <1>3. PICK n \in Cards : /\ n = Now /\ n.faults = 0 /\ n.task = task /\ n.place = place
    BY NowHas
  <1>4. c \in Cards /\ c \in AppStateWrites(n, n.task.pending)
    BY <1>1, <1>2, <1>3, FlushWritesAre DEF FlushWrites
  <1>5. Unrefused /\ c.faults = 0 /\ task' = c.task /\ place' = c.place /\ state' = c.state
    BY <1>2, <1>4, AppliedFree
  <1>6. PICK q, ev, t, pl, st, ch, lo :
             /\ q = Queue /\ ev = events /\ t = task
             /\ pl = place /\ st = state /\ ch = chosen /\ lo = lost
             /\ Rest(app, q, ev, t, pl, st, ch, lo)
    BY <1>5, RestParts
  <1>7. PICK a : a = app /\ Rest(a, q, ev, t, pl, st, ch, lo)
    BY <1>6
  <1>8. PICK spot \in Spots : spot = t.pending /\ spot = n.task.pending /\ spot # None
    <2>1. task.pending \in Spots \cup {None}
      BY <1>3, CardHas
    <2> QED
      BY <1>1, <1>3, <1>6, <2>1
  <1>9. AllOrderly(n.place) /\ HeldAsSaved(n.task, n.place) /\ n.task = t /\ n.place = pl
    BY <1>3, <1>6 DEF Rest
  <1>10. /\ Wrote(n, c, spot.book, spot.page)
         /\ c.faults = n.faults => c.task.pending = None
    BY <1>4, <1>8, <1>9, AppStateWritten
  <1>11. PICK u, pl2, st2, lo2 : u = c.task /\ pl2 = c.place /\ st2 = c.state /\ lo2 = lost'
    OBVIOUS
  <1>12. u.pending = None
    BY <1>3, <1>5, <1>10, <1>11
  <1>13. Recorded(t, u, pl, pl2, t.pending.book, t.pending.page)
    BY <1>3, <1>5, <1>8, <1>9, <1>10, <1>11, <1>12 DEF Wrote, Recorded
  <1>14. lo2 \/ (~lo /\ t.loaded = t.pending.book)
    BY <1>1, <1>6, <1>11
  <1>15. q = <<>> /\ ev = <<>>
    BY <1>1, <1>6, QuietQueue
  <1>19. t.pending # None /\ t.pending \in Spots
    BY <1>8
  <1>16. Rest(a, q, ev, u, pl2, st2, ch, lo2)
    BY <1>7, <1>19, <1>12, <1>13, <1>14, <1>15, FlushedRest
  <1>17. /\ app' = a /\ sent' \o parked' = q /\ events' = ev /\ task' = u
         /\ place' = pl2 /\ state' = st2 /\ chosen' = ch /\ lost' = lo2
    BY <1>1, <1>5, <1>6, <1>7, <1>11 DEF appVars, Queue
  <1> QED
    BY <1>16, <1>17, RestSet

\* The reader at a boot is on the page that the card has.
LEMMA BootRest ==
    ASSUME NEW pl, AllOrderly(pl), NEW st, NEW at, at.book = st.book,
           at.page = OpensAt(pl, st, st.book), NEW a, a = BootedAt(at),
           NEW t, t = IdleTask(st.book), NEW q, q = <<>>, NEW ev, ev = <<>>, NEW ch
    PROVE  Rest(a, q, ev, t, pl, st, ch, FALSE)
  <1>1. DOMAIN q = {} /\ DOMAIN ev = {}
    OBVIOUS
  <1>2. ~Going(q) /\ ~Settling(ev) /\ ~Moving(a, ev) /\ Records(q) = {} /\ ~Loading(q)
    BY <1>1 DEF Going, Settling, Moving, Records, Loading
  <1>3. /\ a.book = at.book /\ a.page = at.page /\ a.view = "shelf" /\ a.unreadable = None
    BY DEF BootedAt
  <1>4. t.loaded = None /\ t.reading = at.book /\ t.pending = None /\ t.hold = None
    BY DEF IdleTask
  <1>5. From(a, q).book = at.book /\ From(a, q).page = at.page
    BY <1>2, <1>3 DEF From, Spot
  <1>6. GoesAlone(a, q, ev) /\ Granted(a, ev, ch)
    BY <1>1, <1>2, <1>3 DEF GoesAlone, Granted
  <1>7. OneBook(a, q, t) /\ HeldAsSaved(t, pl)
    BY <1>2, <1>4, <1>5 DEF OneBook, HeldAsSaved
  <1>8. Resident(a, q, ev, t)
    BY <1>2, <1>3 DEF Resident
  <1>9. Says(q, t, pl, st, a.book, a.page)
    BY <1>2, <1>3, <1>4 DEF Says
  <1>10. OnItsWay(a, q, ev, t, pl, st, FALSE)
    BY <1>9 DEF OnItsWay
  <1>11. NewestPlace(pl[at.book]) \in {None, at.page}
    BY DEF OpensAt
  <1>12. Picks(a, q, ev, t, pl, ch)
    BY <1>2, <1>4, <1>5, <1>11 DEF Picks
  <1> QED
    BY <1>6, <1>7, <1>8, <1>10, <1>12 DEF Rest

\* The spent of a boot that read the card.
LEMMA BootUnrefused ==
    ASSUME TypeOK, CardOK, NEW unread \in BOOLEAN,
           spent' = [spent EXCEPT !.cuts = @ - 1, !.faults = @ - (IF unread THEN 1 ELSE 0)],
           Unrefused'
    PROVE  Unrefused /\ ~unread
  <1>1. spent \in [presses : Nat, faults : Nat, cuts : Nat] /\ spent.faults <= MaxFaults
        /\ MaxFaults \in Nat
    BY StorageAssumption DEF TypeOK, CardOK
  <1>2. spent'.faults = spent.faults - (IF unread THEN 1 ELSE 0)
    BY <1>1
  <1> QED
    BY <1>1, <1>2 DEF Unrefused

LEMMA PowerLossRest ==
    ASSUME TypeOK, CardOK, Unrefused => RestNow, PowerLoss, Unrefused'
    PROVE  RestNow'
  <1> DEFINE p(c) == NewestPlace(c.place[c.state.book])
             at(c, unread) == Spot(c.state.book, IF unread \/ p(c) = None THEN c.state.page
                                                 ELSE p(c))
  <1>1. PICK c \in CutShort, unread \in BOOLEAN :
          /\ spent' = [spent EXCEPT !.cuts = @ - 1,
                                    !.faults = @ - (IF unread THEN 1 ELSE 0)]
          /\ place' = c.place /\ state' = c.state
          /\ app' = BootedAt(at(c, unread)) /\ task' = IdleTask(c.state.book)
    BY DEF PowerLoss
  <1>2. parked' = <<>> /\ sent' = <<>> /\ events' = <<>> /\ lost' = FALSE
    BY DEF PowerLoss
  <1>3. Unrefused /\ ~unread
    BY <1>1, BootUnrefused
  <1>4. AllOrderly(place)
    BY <1>3 DEF RestNow, Rest
  <1>5. AllOrderly(c.place)
    BY <1>4, CutOrderly
  <1>6. PICK spot, a, t, q, ev, pl, st, ch :
          /\ spot = at(c, unread) /\ a = BootedAt(spot) /\ t = IdleTask(st.book)
          /\ q = <<>> /\ ev = <<>> /\ pl = c.place /\ st = c.state /\ ch = chosen'
    OBVIOUS
  <1>7. spot.book = st.book /\ spot.page = OpensAt(pl, st, st.book)
    BY <1>3, <1>6 DEF Spot, OpensAt
  <1> HIDE DEF at, p
  <1>8. Rest(a, q, ev, t, pl, st, ch, FALSE)
    BY <1>5, <1>6, <1>7, BootRest
  <1>9. sent' \o parked' = q
    <2>1. <<>> \in Seq(Commands)
      OBVIOUS
    <2> QED
      BY <1>2, <1>6, <2>1, ConcatEmptySeq
  <1> QED
    BY <1>1, <1>2, <1>6, <1>8, <1>9, RestSet

\* Places that a write was not cut in: the files of a pair are written in turn.
SavedInOrder == \A b \in Books : Orderly(SavedPlaces[b])

LEMMA InitRest ==
    ASSUME Init, SavedInOrder
    PROVE  RestNow
  <1> DEFINE at == Spot(state.book, IF Place(state.book) = None THEN state.page
                                    ELSE Place(state.book))
  <1>1. /\ place = SavedPlaces /\ app = BootedAt(at) /\ task = IdleTask(state.book)
        /\ parked = <<>> /\ sent = <<>> /\ events = <<>> /\ lost = FALSE
    BY DEF Init
  <1>2. PICK spot, a, t, q, ev, pl, st, ch :
          /\ spot = at /\ a = BootedAt(spot) /\ t = IdleTask(st.book)
          /\ q = <<>> /\ ev = <<>> /\ pl = place /\ st = state /\ ch = chosen
    OBVIOUS
  <1>3. spot.book = st.book /\ spot.page = OpensAt(pl, st, st.book)
    BY <1>2 DEF Spot, OpensAt, Place
  <1> HIDE DEF at
  <1>4. AllOrderly(pl)
    BY <1>1, <1>2 DEF AllOrderly, SavedInOrder
  <1>5. Rest(a, q, ev, t, pl, st, ch, FALSE)
    BY <1>2, <1>3, <1>4, BootRest
  <1>6. sent \o parked = q
    <2>1. <<>> \in Seq(Commands)
      OBVIOUS
    <2> QED
      BY <1>1, <1>2, <2>1, ConcatEmptySeq
  <1> QED
    BY <1>1, <1>2, <1>5, <1>6 DEF RestNow

\* A step of the app takes no fault.
LEMMA AppFree ==
    ASSUME TypeOK, AppStep \/ Receive \/ OfferParked \/ FrameSettles
    PROVE  Unrefused' => Unrefused
  <1>1. spent \in [presses : Nat, faults : Nat, cuts : Nat]
    BY DEF TypeOK
  <1>2. spent' = spent \/ spent' = [spent EXCEPT !.presses = @ - 1]
    BY DEF AppStep, TurnPage, ReadOn, Leave, WalkAway, Pick, Press, Receive, OfferParked,
           FrameSettles
  <1>3. spent'.faults = spent.faults
    BY <1>1, <1>2
  <1> QED
    BY <1>3 DEF Unrefused

LEMMA RestStep ==
    ASSUME TypeOK, CardOK, LoopInv, Unrefused => RestNow, [Next]_vars
    PROVE  (Unrefused => RestNow)'
  <1>1. SUFFICES ASSUME Unrefused' PROVE RestNow'
    OBVIOUS
  <1>2. Core(app, Queue, events)
    BY LoopParts
  <1>3. CASE AppStep \/ Receive \/ OfferParked \/ FrameSettles
    BY <1>1, <1>2, <1>3, AppFree, AppStepRest, ReceiveRest, OfferRest
  <1>4. CASE Handle
    BY <1>1, <1>2, <1>4, HandleRest
  <1>5. CASE Settle
    BY <1>1, <1>5, SettleRest
  <1>6. CASE Flush
    BY <1>1, <1>6, FlushRest
  <1>7. CASE PowerLoss
    BY <1>1, <1>7, PowerLossRest
  <1>8. CASE UNCHANGED vars
    BY <1>1, <1>8 DEF vars, appVars, cardVars, history, Unrefused, RestNow
  <1> QED
    BY <1>3, <1>4, <1>5, <1>6, <1>7, <1>8 DEF Next

\* What the reader is on, at rest, is what the card has.
LEMMA RestSaved ==
    ASSUME RestNow
    PROVE  RestIsOnCard
  <1>1. PICK q, ev, t, pl, st, ch, lo :
             /\ q = Queue /\ ev = events /\ t = task
             /\ pl = place /\ st = state /\ ch = chosen /\ lo = lost
             /\ Rest(app, q, ev, t, pl, st, ch, lo)
    BY RestParts
  <1>2. PICK a : a = app /\ Rest(a, q, ev, t, pl, st, ch, lo)
    BY <1>1
  <1>3. SUFFICES ASSUME Idle, a.view = "reading"
                 PROVE  t.loaded = a.book /\ (~lo => a.page = OpensAt(pl, st, a.book))
    BY <1>1, <1>2 DEF RestIsOnCard, SavedAt, Place, OpensAt
  <1>4. q = <<>> /\ ev = <<>> /\ t.pending = None
    BY <1>1, <1>3, QuietQueue DEF Idle
  <1>5. DOMAIN q = {} /\ DOMAIN ev = {}
    BY <1>4
  <1>6. ~Going(q) /\ ~Moving(a, ev) /\ ~Loading(q) /\ Records(q) = {}
        /\ \A p : ~LastRecord(q, p)
    BY <1>5 DEF Going, Moving, Records, Loading, LastRecord
  <1>7. t.loaded = a.book
    BY <1>2, <1>3, <1>6 DEF Rest, Resident
  <1>8. ASSUME ~lo PROVE a.page = OpensAt(pl, st, a.book)
    BY <1>2, <1>4, <1>6, <1>8 DEF Rest, OnItsWay, Says
  <1> QED
    BY <1>7, <1>8

\* It is kept for as long as the card has refused nothing.
LEMMA UnrefusedRests ==
    SavedInOrder /\ Spec => [](TypeOK /\ CardOK /\ (Unrefused => RestNow))
  <1>1. SavedInOrder /\ Init => TypeOK /\ CardOK /\ LoopInv /\ (Unrefused => RestNow)
    BY InitTyped, LoopStarts, InitRest
  <1>2. TypeOK /\ CardOK /\ LoopInv /\ (Unrefused => RestNow) /\ [Next]_vars
          => (TypeOK /\ CardOK /\ LoopInv /\ (Unrefused => RestNow))'
    BY StepTyped, LoopStep, RestStep
  <1> QED
    BY <1>1, <1>2, PTL DEF Spec

\* For as long as the card has refused nothing, and through every power cut
\* until it does, the page on screen at rest is the page the card has: every
\* record of it was written, or given up on.
THEOREM RestIsSaved == SavedInOrder /\ Spec => [](Unrefused => RestIsOnCard)
  <1>1. (Unrefused => RestNow) => (Unrefused => RestIsOnCard)
    BY RestSaved
  <1> QED
    BY <1>1, UnrefusedRests, PTL
-----------------------------------------------------------------------------
(***************************************************************************)
(* A place is written over with nothing but a page that was chosen.        *)
(***************************************************************************)
\* From the places old to the places new, with the pages ch chosen.
Stands(old, new, ch) ==
    \A b \in Books : NewestPlace(old[b]) # None =>
        NewestPlace(new[b]) \in {NewestPlace(old[b])} \cup ch[b]

LEMMA SameStands ==
    ASSUME NEW old, NEW new, new = old, NEW ch
    PROVE  Stands(old, new, ch)
  BY DEF Stands

\* A record that may be written: of the book the storage task is in, and what is
\* owed is of no other; its page was chosen, or is what the card has or has none.
Mine(t, pl, ch, r) ==
    /\ r \in Spots /\ t.reading = r.book
    /\ t.pending = None \/ t.pending.book = r.book
    /\ r.page \in ch[r.book] \/ NewestPlace(pl[r.book]) \in {None, r.page}

LEMMA WroteStands ==
    ASSUME NEW c, NEW d, NEW t, NEW pl, c.place = pl, NEW ch, NEW r, Mine(t, pl, ch, r),
           Wrote(c, d, r.book, r.page)
    PROVE  Stands(pl, d.place, ch)
  <1>1. ASSUME NEW x \in Books, NewestPlace(pl[x]) # None
        PROVE  NewestPlace(d.place[x]) \in {NewestPlace(pl[x])} \cup ch[x]
    <2>1. CASE x = r.book
      BY <1>1, <2>1 DEF Wrote, Mine
    <2>2. CASE x # r.book
      BY <1>1, <2>2 DEF Wrote
    <2> QED
      BY <2>1, <2>2
  <1> QED
    BY <1>1 DEF Stands

\* What is owed, and what the head of the queue writes, may be.
LEMMA PendingMine ==
    ASSUME NEW a, NEW q, NEW ev, NEW t, NEW pl, NEW st, NEW ch, NEW lo,
           Rest(a, q, ev, t, pl, st, ch, lo), t.pending \in Spots, None \notin Spots
    PROVE  Mine(t, pl, ch, t.pending)
  <1>1. t.pending # None
    OBVIOUS
  <1> QED
    BY <1>1 DEF Rest, OneBook, Picks, Mine

LEMMA HeadMine ==
    ASSUME NEW a, NEW q \in Seq(Commands), q # <<>>, NEW ev, NEW t, NEW pl, NEW st,
           NEW ch, NEW lo, Rest(a, q, ev, t, pl, st, ch, lo), NEW z \in Commands, z = Head(q)
    PROVE  /\ z.op = "progress" => Mine(t, pl, ch, Spot(z.book, z.page))
           /\ Leaves(z) => Mine(t, pl, ch, z.previous)
  <1>1. ASSUME z.op = "progress" PROVE Mine(t, pl, ch, Spot(z.book, z.page))
    <2>1. z.book \in Books /\ z.page \in Pages
      BY <1>1, CommandHas
    <2>2. 1 \in Records(q) /\ q[1] = z
      BY <1>1, TailHas DEF Records
    <2>3. t.reading = z.book /\ (t.pending = None \/ t.pending.book = z.book)
      BY <2>2 DEF Rest, OneBook
    <2>4. z.page \in ch[z.book]
      BY <2>2 DEF Rest, Picks
    <2>5. PICK r \in Spots : r = Spot(z.book, z.page) /\ r.book = z.book /\ r.page = z.page
      BY <2>1, SpotIs
    <2> QED
      BY <2>3, <2>4, <2>5 DEF Mine
  <1>2. ASSUME Leaves(z) PROVE Mine(t, pl, ch, z.previous)
    <2>1. From(a, q) = z.previous /\ Records(q) = {} /\ Going(q)
      BY <1>2, HeadLeaves
    <2>2. z.previous \in Spots
      BY <1>2, CommandHas DEF Leaves
    <2>3. \/ z.previous.page \in ch[z.previous.book]
          \/ NewestPlace(pl[z.previous.book]) \in {None, z.previous.page}
      BY <2>1 DEF Rest, Picks
    <2>4. t.reading = z.previous.book /\ (t.pending = None \/ t.pending.book = z.previous.book)
      BY <2>1 DEF Rest, OneBook
    <2> QED
      BY <2>2, <2>3, <2>4 DEF Mine
  <1> QED
    BY <1>1, <1>2

\* The storage task as it is read before a step of its own.
LEMMA TaskAt ==
    ASSUME TypeOK, CardOK, RestNow
    PROVE  \E a, q, ev, t, pl, st, ch, lo :
             /\ q = Queue /\ t = task /\ pl = place /\ ch = chosen
             /\ Rest(a, q, ev, t, pl, st, ch, lo)
             /\ AllOrderly(pl) /\ q \in Seq(Commands)
             /\ t.pending \in Spots \cup {None}
             /\ sent # <<>> => q # <<>> /\ Head(q) = Head(sent) /\ Head(q) \in Commands
  <1>1. PICK q, ev, t, pl, st, ch, lo :
             /\ q = Queue /\ ev = events /\ t = task
             /\ pl = place /\ st = state /\ ch = chosen /\ lo = lost
             /\ Rest(app, q, ev, t, pl, st, ch, lo)
    BY RestParts
  <1>2. PICK a : a = app /\ Rest(a, q, ev, t, pl, st, ch, lo)
    BY <1>1
  <1>3. parked \in Seq(Commands) /\ sent \in Seq(Commands)
    BY DEF TypeOK
  <1>4. q \in Seq(Commands)
    BY <1>1, <1>3 DEF Queue
  <1>5. ASSUME sent # <<>>
        PROVE  q # <<>> /\ Head(q) = Head(sent) /\ Head(q) \in Commands
    <2>1. Len(sent) \in Nat /\ Len(sent) > 0 /\ Len(parked) \in Nat
      BY <1>3, <1>5
    <2>2. Len(q) = Len(sent) + Len(parked) /\ q[1] = sent[1] /\ sent[1] \in Commands
      BY <1>1, <1>3, <2>1 DEF Queue
    <2>3. Len(q) > 0 /\ q # <<>>
      BY <1>4, <2>1, <2>2
    <2> QED
      BY <1>3, <1>4, <1>5, <2>2, <2>3
  <1>6. t.pending \in Spots \cup {None}
    BY <1>1 DEF TypeOK, Tasks
  <1>7. AllOrderly(pl)
    BY <1>2 DEF Rest
  <1> QED
    BY <1>1, <1>2, <1>4, <1>5, <1>6, <1>7

LEMMA ProgressStands ==
    ASSUME TypeOK, CardOK, RestNow, NEW due \in BOOLEAN, Progress(due)
    PROVE  Stands(place, place', chosen)
  <1>1. Take("progress")
    BY DEF Progress
  <1>2. Head(sent) \in Commands /\ Head(sent).op = "progress" /\ sent # <<>>
    <2>1. AppOK
      BY DEF TypeOK, AppOK
    <2> QED
      BY <1>1, <2>1, TakeTyped DEF Take
  <1>3. PICK b \in Books, p \in Pages : b = Head(sent).book /\ p = Head(sent).page
    BY <1>2, CommandHas
  <1>4. PICK spot \in Spots : spot = Spot(b, p) /\ spot.book = b /\ spot.page = p
    BY SpotIs
  <1>5. PICK a, q, ev, t, pl, st, ch, lo :
             /\ q = Queue /\ t = task /\ pl = place /\ ch = chosen
             /\ Rest(a, q, ev, t, pl, st, ch, lo)
             /\ AllOrderly(pl) /\ q \in Seq(Commands)
             /\ t.pending \in Spots \cup {None}
             /\ sent # <<>> => q # <<>> /\ Head(q) = Head(sent) /\ Head(q) \in Commands
    BY TaskAt
  <1>6. Mine(t, pl, ch, spot)
    <2>1. PICK h \in Commands : h = Head(q)
      BY <1>2, <1>5
    <2>2. h.op = "progress" /\ Spot(h.book, h.page) = spot
      BY <1>2, <1>3, <1>4, <1>5, <2>1
    <2> QED
      BY <1>2, <1>5, <2>1, <2>2, HeadMine
  <1>7. PICK z : z = Retired(Now, b, p)
    OBVIOUS
  <1>8. z \in Cards /\ z.place = pl /\ z.task.pending = t.pending
    <2>1. PICK n \in Cards : n = Now /\ n.place = pl /\ n.task = t
      BY <1>5, NowHas
    <2> QED
      BY <1>7, <2>1, RetiredIs
  <1> DEFINE other == task.pending # None /\ task.pending.book # b
             writes(v) == IF ~v.ok THEN {v}
                          ELSE IF due \/ other THEN AppStateWrites(v, spot)
                          ELSE {Owing(v, spot)}
  <1>9. PICK v \in OthersFirst(z, b) : \E d \in writes(v) : Apply(d)
    BY <1>3, <1>4, <1>7 DEF Progress, Retired, Owing
  <1>10. PICK d \in writes(v) : Apply(d)
    BY <1>9
  <1>11. v = z
    BY <1>4, <1>6, <1>8, <1>9, OthersWait DEF Mine
  <1>12. d = z \/ d = Owing(z, spot) \/ d \in AppStateWrites(z, spot)
    BY <1>11
  <1> HIDE DEF other, writes
  <1>13. d.place = pl \/ Wrote(z, d, spot.book, spot.page)
    <2>1. CASE d = Owing(z, spot)
      BY <1>8, <2>1, OwingIs
    <2>2. CASE d \in AppStateWrites(z, spot)
      BY <1>5, <1>8, <2>2, AppStateWritten
    <2> QED
      BY <1>8, <1>12, <2>1, <2>2
  <1>14. Stands(pl, d.place, ch)
    BY <1>6, <1>8, <1>13, SameStands, WroteStands
  <1> QED
    BY <1>5, <1>10, <1>14 DEF Apply

LEMMA OpenStands ==
    ASSUME TypeOK, CardOK, RestNow, Open
    PROVE  Stands(place, place', chosen)
  <1>1. PICK z \in Commands :
             /\ z = Head(sent) /\ z.op = "open" /\ z.book \in Books
             /\ Take("open") /\ lost' = lost
             /\ (\E c : OpenFails(z, c)) \/ (\E c, l, m : OpenLands(z, c, l, m))
    BY OpenParts
  <1>2. PICK a, q, ev, t, pl, st, ch, lo :
             /\ q = Queue /\ t = task /\ pl = place /\ ch = chosen
             /\ Rest(a, q, ev, t, pl, st, ch, lo)
             /\ AllOrderly(pl) /\ q \in Seq(Commands)
             /\ t.pending \in Spots \cup {None}
             /\ sent # <<>> => q # <<>> /\ Head(q) = Head(sent) /\ Head(q) \in Commands
    BY TaskAt
  <1>3. z = Head(q) /\ q # <<>>
    BY <1>1, <1>2 DEF Take
  <1>4. ASSUME NEW c, z.previous # None, c \in CloseOut(Now, z.previous)
        PROVE  Stands(pl, c.place, ch)
    <2>1. PICK r \in Spots : r = z.previous
      BY <1>1, <1>4, CommandHas
    <2>2. Mine(t, pl, ch, r)
      BY <1>1, <1>2, <1>3, <1>4, <2>1, HeadMine DEF Leaves
    <2>3. PICK n \in Cards : n = Now /\ n.ok = TRUE /\ n.task = t /\ n.place = pl
      BY <1>2, NowHas
    <2>4. Wrote(n, c, r.book, r.page)
      BY <1>2, <1>4, <2>1, <2>2, <2>3, CloseOutWritten DEF Mine
    <2> QED
      BY <2>2, <2>3, <2>4, WroteStands
  <1>5. ASSUME NEW c, OpenFails(z, c) PROVE Stands(pl, place', ch)
    <2>1. c.place = pl \/ (z.previous # None /\ c \in CloseOut(Now, z.previous))
      BY <1>2, <1>5 DEF OpenFails
    <2>2. place' = c.place
      BY <1>5 DEF OpenFails, Apply
    <2> QED
      BY <1>4, <2>1, <2>2, SameStands
  <1>6. ASSUME NEW c, NEW l, NEW m, OpenLands(z, c, l, m) PROVE Stands(pl, place', ch)
    <2>1. /\ c \in Cards
          /\ \/ z.previous = None /\ c = Now
             \/ z.previous # None /\ c \in CloseOut(Now, z.previous)
          /\ l \in Loads(Staged(c), z) /\ LandsOn(l, z.book)
          /\ m \in Pointed(l, z) /\ Announce(m)
      BY <1>6 DEF OpenLands
    <2>2. PICK d \in Cards : d = Staged(c) /\ d.place = c.place
      BY <2>1, StagedIs
    <2>3. l.card.place = c.place
      BY <2>1, <2>2, LoadsMore
    <2>4. PICK b \in Books : b = z.book
      BY <1>1
    <2>5. m.card.place = l.card.place
      BY <2>1, <2>4, PointedFree
    <2>6. place' = c.place
      BY <2>1, <2>3, <2>5 DEF Announce, Apply
    <2>7. Stands(pl, c.place, ch)
      <3>1. c = Now => c.place = pl
        BY <1>2, NowHas
      <3> QED
        BY <1>4, <2>1, <3>1, SameStands
    <2> QED
      BY <2>6, <2>7
  <1> QED
    BY <1>1, <1>2, <1>5, <1>6

LEMMA ExtendStands ==
    ASSUME TypeOK, CardOK, Extend
    PROVE  place' = place
  <1>1. PICK l \in AsAsked(Now, Head(sent), task.hold) : Announce(l)
    BY DEF Extend
  <1>2. PICK n \in Cards : n = Now /\ n.place = place
    BY NowHas
  <1>3. PICK b, h : b = Head(sent).book /\ h = task.hold
    OBVIOUS
  <1>4. \/ \E r : l = Landing(n, b, None, h, r)
        \/ \E yes : l = Fallback(n, b, h, yes)
        \/ l = NothingLoads(n, b, h)
    BY <1>1, <1>2, <1>3 DEF AsAsked
  <1>5. l.card.place = n.place
    BY <1>4, LandingFaults, FallbackFaults, NothingFaults
  <1> QED
    BY <1>1, <1>2, <1>5 DEF Announce, Apply

LEMMA HandleStands ==
    ASSUME TypeOK, CardOK, RestNow, Handle
    PROVE  Stands(place, place', chosen)
  <1>1. CASE SkipStale
    BY <1>1, SameStands DEF SkipStale, cardVars
  <1>2. CASE Open
    BY <1>2, OpenStands
  <1>3. CASE Extend
    BY <1>3, ExtendStands, SameStands
  <1>4. CASE \E due \in BOOLEAN : Progress(due)
    BY <1>4, ProgressStands
  <1>5. CASE Choose
    <2>1. PICK failed \in BOOLEAN : Apply([Now EXCEPT !.faults = IF failed THEN 1 ELSE 0])
      BY <1>5 DEF Choose
    <2>2. place' = place
      BY <2>1 DEF Apply, Now
    <2> QED
      BY <2>2, SameStands
  <1> QED
    BY <1>1, <1>2, <1>3, <1>4, <1>5 DEF Handle

LEMMA FlushStands ==
    ASSUME TypeOK, CardOK, RestNow, Flush
    PROVE  Stands(place, place', chosen)
  <1>1. task.pending # None
    BY DEF Flush
  <1>2. PICK a, q, ev, t, pl, st, ch, lo :
             /\ q = Queue /\ t = task /\ pl = place /\ ch = chosen
             /\ Rest(a, q, ev, t, pl, st, ch, lo)
             /\ AllOrderly(pl) /\ q \in Seq(Commands)
             /\ t.pending \in Spots \cup {None}
             /\ sent # <<>> => q # <<>> /\ Head(q) = Head(sent) /\ Head(q) \in Commands
    BY TaskAt
  <1>3. PICK spot \in Spots : spot = t.pending
    BY <1>1, <1>2
  <1>4. Mine(t, pl, ch, spot)
    BY <1>2, <1>3, NoneIsNoSpot, PendingMine
  <1>5. PICK n \in Cards : n = Now /\ n.task = t /\ n.place = pl
    BY <1>2, NowHas
  <1>6. PICK c \in FlushWrites(n) : Apply(c)
    BY <1>5 DEF Flush
  <1>7. c \in AppStateWrites(n, spot)
    BY <1>1, <1>2, <1>3, <1>5, <1>6 DEF FlushWrites
  <1>8. Wrote(n, c, spot.book, spot.page)
    BY <1>2, <1>5, <1>7, AppStateWritten
  <1>9. Stands(pl, c.place, ch)
    BY <1>4, <1>5, <1>8, WroteStands
  <1> QED
    BY <1>2, <1>6, <1>9 DEF Apply

LEMMA CutStands ==
    ASSUME TypeOK, CardOK, RestNow, PowerLoss
    PROVE  Stands(place, place', chosen)
  <1>1. PICK c \in CutShort : place' = c.place
    BY DEF PowerLoss
  <1>2. PICK a, q, ev, t, pl, st, ch, lo :
             /\ q = Queue /\ t = task /\ pl = place /\ ch = chosen
             /\ Rest(a, q, ev, t, pl, st, ch, lo)
             /\ AllOrderly(pl) /\ q \in Seq(Commands)
             /\ t.pending \in Spots \cup {None}
             /\ sent # <<>> => q # <<>> /\ Head(q) = Head(sent) /\ Head(q) \in Commands
    BY TaskAt
  <1>3. PICK n \in Cards : n = Now /\ n.task = t /\ n.place = pl
    BY <1>2, NowHas
  <1>4. \/ c = n
        \/ \E r \in Owed : c \in PlaceWrites(n, r.book, r.page)
        \/ \E r \in Carried : \E d \in OthersFirst(n, r.book) :
             c \in PlaceWrites(d, r.book, r.page)
    BY <1>3 DEF CutShort
  <1>5. ASSUME NEW r \in Owed PROVE Mine(t, pl, ch, r)
    <2>1. r = t.pending /\ r # None
      BY <1>2 DEF Owed
    <2>2. t.pending \in Spots
      BY <1>2, <2>1
    <2> QED
      BY <1>2, <2>1, <2>2, NoneIsNoSpot, PendingMine
  <1>6. ASSUME NEW r \in Carried PROVE Mine(t, pl, ch, r)
    <2>1. sent # <<>>
      BY DEF Carried
    <2>2. PICK z \in Commands : z = Head(q) /\ z = Head(sent) /\ q # <<>>
      BY <1>2, <2>1
    <2>3. \/ z.op = "progress" /\ r = Spot(z.book, z.page)
          \/ Leaves(z) /\ r = z.previous
      BY <2>1, <2>2 DEF Carried, IsOpen, Leaves
    <2> QED
      BY <1>2, <2>2, <2>3, HeadMine
  <1>7. ASSUME NEW r, Mine(t, pl, ch, r)
        PROVE  /\ OthersFirst(n, r.book) = {n}
               /\ \A d \in PlaceWrites(n, r.book, r.page) : Stands(pl, d.place, ch)
    <2>1. OthersFirst(n, r.book) = {n}
      BY <1>3, <1>7, OthersWait DEF Mine
    <2>2. r.book \in Books /\ r.page \in Pages
      BY <1>7 DEF Mine, Spots
    <2>3. ASSUME NEW d \in PlaceWrites(n, r.book, r.page) PROVE Stands(pl, d.place, ch)
      <3>1. Wrote(n, d, r.book, r.page)
        BY <1>2, <1>3, <2>2, <2>3, PlaceWritten
      <3> QED
        BY <1>3, <1>7, <3>1, WroteStands
    <2> QED
      BY <2>1, <2>3
  <1>8. Stands(pl, c.place, ch)
    BY <1>3, <1>4, <1>5, <1>6, <1>7, SameStands
  <1> QED
    BY <1>1, <1>2, <1>8

LEMMA StepStands ==
    ASSUME TypeOK, CardOK, RestNow, [Next]_vars
    PROVE  Stands(place, place', chosen)
  <1>1. CASE AppStep \/ Receive \/ OfferParked \/ FrameSettles \/ UNCHANGED vars
    <2>1. place' = place
      BY <1>1 DEF AppStep, TurnPage, ReadOn, Leave, WalkAway, Pick, Receive, OfferParked,
             FrameSettles, vars, cardVars
    <2> QED
      BY <2>1, SameStands
  <1>2. CASE Handle
    BY <1>2, HandleStands
  <1>3. CASE Settle
    BY <1>3, SettleStops
  <1>4. CASE Flush
    BY <1>4, FlushStands
  <1>5. CASE PowerLoss
    BY <1>5, CutStands
  <1> QED
    BY <1>1, <1>2, <1>3, <1>4, <1>5 DEF Next

\* Until the card has refused something, and whatever the step does that first
\* meets a refusal, a place is written over only with the place it has or with
\* a page that was chosen.
THEOREM PlaceIsChosen ==
    SavedInOrder /\ Spec =>
        [][Unrefused => \A b \in Books : Place(b) # None =>
               Place(b)' \in {Place(b)} \cup chosen[b]]_vars
  <1> DEFINE Step == Unrefused => \A b \in Books : Place(b) # None =>
                         Place(b)' \in {Place(b)} \cup chosen[b]
  <1>1. ASSUME TypeOK, CardOK, Unrefused => RestNow, [Next]_vars PROVE Step
    <2>1. ASSUME Unrefused PROVE Stands(place, place', chosen)
      BY <1>1, <2>1, StepStands
    <2> QED
      BY <2>1 DEF Stands, Place
  <1>2. TypeOK /\ CardOK /\ (Unrefused => RestNow) /\ [Next]_vars => [Step]_vars
    BY <1>1
  <1> QED
    BY <1>2, UnrefusedRests, PTL DEF Spec

\* On a card that refuses nothing, however often the power goes, every place
\* stands until a page of the book is chosen.
THEOREM PlacesStand ==
    ASSUME MaxFaults = 0, SavedInOrder
    PROVE  Spec => PlaceStands
  <1> DEFINE Step == \A b \in Books : Place(b) # None =>
                         Place(b)' \in {Place(b)} \cup chosen[b]
             Given == Unrefused => Step
             Told == place' # place /\ ~lost => Step
  <1>1. TypeOK /\ CardOK => Unrefused
    BY DEF TypeOK, CardOK, Unrefused
  <1>2. TypeOK /\ CardOK /\ [Given]_vars => [Told]_vars
    BY <1>1
  <1>3. SavedInOrder /\ Spec => [][Given]_vars
    BY PlaceIsChosen
  <1> HIDE DEF Given, Told
  <1>4. Spec => [][Told]_vars
    BY <1>2, <1>3, UnrefusedRests, PTL
  <1> QED
    BY <1>4 DEF PlaceStands, Told

=============================================================================
