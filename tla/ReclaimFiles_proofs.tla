------------------------ MODULE ReclaimFiles_proofs ------------------------
(***************************************************************************)
(* The files of Reclaim: that a listed file can be read to its end, that   *)
(* no interruption loses space, and that to whoever reads the card a       *)
(* reclaim is one step.  For every card, batch size and sequence width,    *)
(* with a later build writing records in between, and on one condition:    *)
(* whoever allocates has asked the journal first (Gated).                  *)
(***************************************************************************)
EXTENDS ReclaimJournal_proofs

\* Every writer asks the journal: also the one that creates the reader's own
\* records, which the code lets pass unasked.
Gated == [][\A n \in StateFiles, c \in Clusters : CreateStateFile(n, c) => Settled]_vars

-----------------------------------------------------------------------------
(***************************************************************************)
(* What is on the card                                                     *)
(***************************************************************************)
Listed(n) == dir[n] # NoEntry

Disjoint(s, t) == \A c \in Clusters : ~(Holds(s, c) /\ Holds(t, c))

\* Listed files are whole, and share no cluster with the journal or another.
FilesApart ==
    /\ \A n \in Names : IsInjective(chain[n])
    /\ \A n \in Names : Listed(n) => Intact(n) /\ Disjoint(chain[n], jchain)
    /\ \A m, n \in Names : Listed(m) /\ Listed(n) /\ m # n
                             => Disjoint(chain[m], chain[n])

\* A batch b of a file f names the clusters that follow the first k, and
\* carries on with the one after those, if there is one.
Covers(f, b, k) ==
    /\ b.entry = First(f)
    /\ k + Len(b.clusters) <= Len(f)
    /\ \A i \in DOMAIN b.clusters : b.clusters[i] = f[k + i]

Ends(f, b, k) ==
    b.continuation = IF k + Len(b.clusters) = Len(f) THEN NoCluster
                     ELSE f[k + Len(b.clusters) + 1]

\* What is left of a file whose name has gone: its first k clusters are free,
\* those up to m may be, the rest still link, and nothing else has any of them.
Leftover(f, k, m) ==
    /\ \A i \in DOMAIN f : i <= k => fat[f[i]] = Free
    /\ \A i \in DOMAIN f :
         i > k => fat[f[i]] = LinkAt(f, i) \/ (i <= m /\ fat[f[i]] = Free)
    /\ Disjoint(f, jchain)
    /\ \A n \in Names : Listed(n) => Disjoint(f, chain[n])

\* The record b tells the truth, k clusters into its file.
Standing(b, k) ==
    /\ Covers(chain[b.name], b, k)
    /\ Ends(chain[b.name], b, k)
    /\ Listed(b.name) => k = 0
    /\ ~Listed(b.name) => Leftover(chain[b.name], k, k + Len(b.clusters))

Done(b) == ~Listed(b.name) /\ \A i \in DOMAIN b.clusters : fat[b.clusters[i]] = Free

\* The batch being put together is one of its file's, from k on.
InHand(k) ==
    LET f == chain[batch.name]
        m == k + Len(batch.clusters)
    IN  /\ Covers(f, batch, k)
        /\ pc = "record" => Ends(f, batch, k)
        /\ pc \in {"bootstrap", "walk"} => batch.continuation = NoCluster
        /\ pc = "bootstrap" => batch.clusters = <<>>
        /\ pc = "walk" => m < Len(f) /\ at = f[m + 1]

\* The record on the card, and the batch that is to follow it: no batch is
\* written while the clusters of the one before it are not free.
StandingTrue ==
    Outstanding =>
        \E k \in Nat :
            /\ Standing(Live, k)
            /\ pc \in {"walk", "record"} =>
                 /\ batch.name = Live.name
                 /\ Done(Live)
                 /\ InHand(k + Len(Live.clusters))

\* A call's first batch: its file is listed and whole until the record stands.
FreshTrue ==
    pc \in {"bootstrap", "walk", "record"} /\ fresh =>
        Listed(batch.name) /\ InHand(0)

FreeingTrue ==
    /\ pc = "free" =>
         /\ ~Listed(batch.name)
         /\ \A i \in DOMAIN batch.clusters : i < cursor => fat[batch.clusters[i]] = Free
    /\ pc = "pass" /\ freed => Done(batch)
    /\ pc = "recover" => ~freed

NothingLost ==
    SlotsUsable =>
        \A c \in Clusters : fat[c] # Free =>
            \/ Holds(jchain, c)
            \/ \E n \in Names : Listed(n) /\ Holds(chain[n], c)
            \/ Outstanding /\ Holds(chain[Live.name], c)

FilesInv ==
    /\ JournalInv
    /\ FilesApart
    /\ StandingTrue /\ FreshTrue /\ FreeingTrue
    /\ NothingLost

-----------------------------------------------------------------------------
\* The types this module's proofs go on.
LEMMA FilesTypes ==
    ASSUME FilesInv
    PROVE  /\ TypeOK /\ InCall /\ OrderInv /\ JournalInv
           /\ dir \in [Names -> Clusters \cup {NoCluster, NoEntry}]
           /\ fat \in [Clusters -> Clusters \cup {Free, End}]
           /\ chain \in [Names -> Seq(Clusters)]
           /\ jchain \in Seq(Clusters)
           /\ pc # "idle" => batch \in Batches
           /\ \A b \in Batches : /\ b.name \in Names
                                 /\ b.clusters \in Seq(Clusters)
                                 /\ Len(b.clusters) \in Nat
                                 /\ DOMAIN b.clusters = 1 .. Len(b.clusters)
                                 /\ b.continuation \in Clusters \cup {NoCluster}
                                 /\ chain[b.name] \in Seq(Clusters)
                                 /\ Len(chain[b.name]) \in Nat
                                 /\ DOMAIN chain[b.name] = 1 .. Len(chain[b.name])
  <1>1. TypeOK /\ InCall /\ OrderInv /\ JournalInv
    BY DEF FilesInv, JournalInv, OrderInv, TypeInv
  <1>2. \A b \in Batches : b.name \in Names /\ b.clusters \in Seq(Clusters)
                           /\ b.continuation \in Clusters \cup {NoCluster}
    BY DEF Batches, Names
  <1>3. chain \in [Names -> Seq(Clusters)]
    BY <1>1 DEF TypeOK
  <1>4. \A s \in Seq(Clusters) : Len(s) \in Nat /\ DOMAIN s = 1 .. Len(s)
    OBVIOUS
  <1>5. \A b \in Batches : chain[b.name] \in Seq(Clusters)
    BY <1>2, <1>3
  <1> QED
    BY <1>1, <1>2, <1>3, <1>4, <1>5 DEF TypeOK, InCall

\* A listed file has no free cluster, nor one of the journal's.
LEMMA ListedIsTaken ==
    ASSUME FilesInv, NEW n \in Names, Listed(n), NEW c, Holds(chain[n], c)
    PROVE  c \in Clusters /\ fat[c] # Free /\ ~Holds(jchain, c)
  <1>1. chain[n] \in Seq(Clusters)
    BY FilesTypes
  <1>2. Linked(chain[n]) /\ Disjoint(chain[n], jchain)
    BY DEF FilesInv, FilesApart, Intact
  <1> QED
    BY <1>1, <1>2, LinkedIsTaken DEF Disjoint

\* A call that is past its record has it standing on the card, and has in
\* memory what stands there; whose name is listed is still that file.
LEMMA PassRecord ==
    ASSUME FilesInv, pc \in {"recover", "pass", "free"}
    PROVE  /\ batch \in Batches
           /\ Outstanding /\ Live = batch /\ ~fresh
           /\ \E k \in Nat : Standing(batch, k)
           /\ Classify(batch) = "ours" <=> Listed(batch.name)
           /\ Len(jchain) = 2
  <1>1. /\ batch \in Batches /\ JournalFound /\ Live = batch /\ ~fresh
        /\ Outstanding
    BY DEF FilesInv, JournalInv, OrderInv, CallOrder, TypeInv, InCall, Outstanding, Batches
  <1>2. PICK k \in Nat : Standing(batch, k)
    BY <1>1 DEF FilesInv, StandingTrue
  <1>3. Listed(batch.name) => dir[batch.name] = batch.entry
    <2>1. batch.name \in Names
      BY <1>1, FilesTypes
    <2> QED
      BY <1>2, <2>1 DEF Standing, Covers, FilesInv, FilesApart, Intact
  <1>4. Len(jchain) = 2
    BY FullWhenOutstanding DEF FilesInv, JournalInv
  <1> QED
    BY <1>1, <1>2, <1>3, <1>4 DEF Classify, Listed

\* Nothing is in flight while the journal is missing.
LEMMA AbsentIsNotOutstanding ==
    ASSUME JournalAbsent PROVE ~JournalFound /\ ~Outstanding
  BY DEF JournalAbsent, JournalFound, Outstanding

LEMMA SettledIsUsable ==
    ASSUME Settled
    PROVE  SlotsUsable /\ ~Outstanding
  <1>1. CASE JournalAbsent
    BY <1>1, AbsentIsNotOutstanding DEF JournalAbsent, SlotsUsable, SlotRead,
       SlotIndex, Torn
  <1>2. CASE ~JournalAbsent
    BY <1>2 DEF Settled, JournalFound, Outstanding
  <1> QED
    BY <1>1, <1>2

-----------------------------------------------------------------------------
(***************************************************************************)
(* The steps that leave the card as it is                                  *)
(***************************************************************************)
LEMMA CardStill ==
    ASSUME FilesInv, UNCHANGED disk
    PROVE  /\ FilesApart' /\ NothingLost'
           /\ \A b, k : Standing(b, k)' <=> Standing(b, k)
           /\ \A b : Done(b)' <=> Done(b)
           /\ Outstanding' = Outstanding /\ Live' = Live
  <1>1. Outstanding' = Outstanding /\ Live' = Live /\ SlotsUsable' = SlotsUsable
    BY JournalStill DEF disk
  <1>2. FilesApart'
    BY DEF disk, FilesInv, FilesApart, Listed, Intact, Linked
  <1>3. NothingLost'
    BY <1>1 DEF disk, FilesInv, NothingLost, Listed
  <1>4. \A b, k : Standing(b, k)' <=> Standing(b, k)
    BY DEF disk, Standing, Leftover, Listed
  <1>5. \A b : Done(b)' <=> Done(b)
    BY DEF disk, Done, Listed
  <1> QED
    BY <1>1, <1>2, <1>3, <1>4, <1>5

\* A call begins: its file is listed, so it is whole.
LEMMA BeginFiles ==
    ASSUME FilesInv, NEW a \in Aliases, ReclaimFirstEntry(a) \/ ReclaimEntry(a)
    PROVE  StandingTrue' /\ FreshTrue' /\ FreeingTrue'
  <1>1. /\ UNCHANGED disk /\ a \in Names /\ Listed(a)
        /\ batch'.name = a /\ batch'.entry = dir[a] /\ batch'.clusters = <<>>
        /\ batch'.continuation = NoCluster
        /\ at' = dir[a]
        /\ pc' \in {"bootstrap", AfterJournalAsked(dir[a])}
    BY DEF ReclaimFirstEntry, ReclaimEntry, Begin, EmptyBatch, Names, Listed
  <1>2. ~Outstanding'
    <2>1. ~Outstanding
      BY AbsentIsNotOutstanding DEF ReclaimFirstEntry, ReclaimEntry, Outstanding
    <2> QED
      BY <1>1, <2>1, CardStill
  <1>3. chain'[a] = chain[a] /\ dir'[a] = dir[a]
    BY <1>1 DEF disk
  <1>4. PICK f \in Seq(Clusters) : f = chain[a] /\ dir[a] = First(f)
    BY <1>1, FilesTypes DEF FilesInv, FilesApart, Intact
  <1>5. Len(f) \in Nat /\ (f # <<>> => Len(f) > 0 /\ f[1] \in Clusters)
    OBVIOUS
  <1>6. Len(batch'.clusters) = 0 /\ DOMAIN batch'.clusters = {}
    BY <1>1
  <1>7. Covers(f, batch', 0)
    BY <1>1, <1>4, <1>5, <1>6 DEF Covers
  <1>8. pc' = "record" => Ends(f, batch', 0)
    <2>1. SUFFICES ASSUME pc' = "record" PROVE f = <<>>
      BY <1>1, <1>6 DEF Ends
    <2>2. dir[a] = NoCluster
      BY <1>1, <2>1 DEF AfterJournalAsked
    <2> QED
      BY <1>4, <1>5, <2>2, Markers DEF First
  <1>9. pc' = "walk" => 0 < Len(f) /\ at' = f[1]
    <2>1. SUFFICES ASSUME pc' = "walk" PROVE f # <<>>
      BY <1>1, <1>4, <1>5 DEF First
    <2>2. dir[a] # NoCluster
      BY <1>1, <2>1 DEF AfterJournalAsked
    <2> QED
      BY <1>4, <2>2 DEF First
  <1>10. InHand(0)'
    BY <1>1, <1>3, <1>4, <1>6, <1>7, <1>8, <1>9 DEF InHand
  <1>11. pc' \in {"bootstrap", "walk", "record"}
    BY <1>1 DEF AfterJournalAsked
  <1> QED
    BY <1>1, <1>2, <1>3, <1>10, <1>11 DEF StandingTrue, FreshTrue, FreeingTrue, Listed

\* The walk follows the file it is given as long as the FAT links it, and puts
\* down where it goes on when the batch is full.
LEMMA WalkInHand ==
    ASSUME FilesInv, Walk, NEW k \in Nat, InHand(k),
           \A i \in DOMAIN chain[batch.name] :
              i > k + Len(batch.clusters)
                => fat[chain[batch.name][i]] = LinkAt(chain[batch.name], i)
    PROVE  InHand(k)'
  <1>1. /\ pc = "walk" /\ UNCHANGED disk /\ batch \in Batches
        /\ at \in Clusters
    BY FilesTypes DEF Walk, WalkFull, WalkOn, WalkEnd, InCall
  <1>2. PICK f \in Seq(Clusters) : f = chain[batch.name]
    BY <1>1, FilesTypes
  <1>3. PICK m \in Nat : m = k + Len(batch.clusters)
    BY <1>1, FilesTypes
  <1>n. PICK z \in Nat : z = Len(f) /\ DOMAIN f = 1 .. z
    OBVIOUS
  <1>4. /\ Covers(f, batch, k) /\ batch.continuation = NoCluster
        /\ m < z /\ at = f[m + 1]
    BY <1>1, <1>2, <1>3, <1>n DEF InHand
  <1>5. /\ batch.clusters \in Seq(Clusters)
        /\ DOMAIN batch.clusters = 1 .. Len(batch.clusters)
        /\ Len(batch.clusters) \in Nat
    BY <1>1, <1>2, FilesTypes
  <1>6. fat[at] = LinkAt(f, m + 1)
    <2>1. m + 1 \in DOMAIN f /\ m + 1 > k + Len(batch.clusters)
      BY <1>3, <1>4, <1>5, <1>n
    <2> QED
      BY <1>2, <1>4, <2>1
  <1>7. chain'[batch.name] = f
    BY <1>1, <1>2 DEF disk
  <1>8. CASE WalkFull
    <2>1. /\ batch'.clusters = batch.clusters /\ batch'.continuation = at
          /\ batch'.name = batch.name /\ batch'.entry = batch.entry
          /\ pc' = "record"
      BY <1>1, <1>8 DEF WalkFull, Batches
    <2>2. Covers(f, batch', k)
      BY <1>4, <2>1 DEF Covers
    <2>3. Ends(f, batch', k)
      <3>1. m # z
        BY <1>4
      <3> QED
        BY <1>3, <1>4, <1>n, <2>1, <3>1 DEF Ends
    <2> QED
      BY <1>7, <2>1, <2>2, <2>3 DEF InHand
  <1>9. CASE WalkOn \/ WalkEnd
    <2>1. /\ batch' = Push(batch)
          /\ batch'.clusters = Append(batch.clusters, at)
          /\ batch'.continuation = batch.continuation
          /\ batch'.name = batch.name /\ batch'.entry = batch.entry
      BY <1>1, <1>9 DEF WalkOn, WalkEnd, Push, Batches
    <2>2. /\ Len(batch'.clusters) = Len(batch.clusters) + 1
          /\ DOMAIN batch'.clusters = 1 .. Len(batch.clusters) + 1
          /\ \A i \in 1 .. Len(batch.clusters) : batch'.clusters[i] = batch.clusters[i]
          /\ batch'.clusters[Len(batch.clusters) + 1] = at
      BY <1>1, <1>5, <2>1
    <2>3. k + Len(batch'.clusters) = m + 1
      BY <1>3, <1>5, <2>2
    <2>4. Covers(f, batch', k)
      <3>0. k + Len(batch'.clusters) <= Len(f)
        BY <1>4, <1>n, <2>3
      <3>1. SUFFICES ASSUME NEW i \in DOMAIN batch'.clusters
                     PROVE  batch'.clusters[i] = f[k + i]
        BY <1>4, <2>1, <3>0 DEF Covers
      <3>2. CASE i \in 1 .. Len(batch.clusters)
        BY <1>4, <1>5, <2>2, <3>2 DEF Covers
      <3>3. CASE i = Len(batch.clusters) + 1
        <4>1. k + i = m + 1
          BY <1>3, <1>5, <3>3
        <4> QED
          BY <1>4, <2>2, <3>3, <4>1
      <3> QED
        BY <1>5, <2>2, <3>1, <3>2, <3>3
    <2>5. CASE WalkOn
      <3>1. pc' = "walk" /\ fat[at] \in Clusters /\ at' = fat[at]
        BY <1>1, <2>5 DEF WalkOn
      <3>2. m + 1 # z
        BY <1>6, <1>n, <3>1, Markers DEF LinkAt
      <3>3. at' = f[m + 2] /\ m + 1 < z
        <4>1. (m + 1) + 1 = m + 2
          OBVIOUS
        <4>2. at' = f[(m + 1) + 1]
          BY <1>6, <1>n, <3>1, <3>2 DEF LinkAt
        <4> QED
          BY <1>4, <3>2, <4>1, <4>2
      <3>4. (k + Len(batch'.clusters)) + 1 = m + 2
        BY <2>3
      <3>5. at' = f[k + Len(batch'.clusters) + 1]
        BY <3>3, <3>4
      <3>6. batch'.continuation = NoCluster
        BY <1>4, <2>1
      <3> QED
        BY <1>7, <1>n, <2>1, <2>3, <2>4, <3>1, <3>3, <3>5, <3>6 DEF InHand
    <2>6. CASE WalkEnd
      <3>1. pc' = "record" /\ fat[at] = End
        BY <2>6 DEF WalkEnd
      <3>2. m + 1 = z
        <4>1. SUFFICES ASSUME m + 1 # z PROVE FALSE
          OBVIOUS
        <4>2. (m + 1) + 1 \in DOMAIN f
          BY <1>4, <1>n, <4>1
        <4>3. f[(m + 1) + 1] \in Clusters
          BY <4>2
        <4>4. End = f[(m + 1) + 1]
          BY <1>6, <1>n, <3>1, <4>1 DEF LinkAt
        <4> QED
          BY <4>3, <4>4, Markers
      <3>3. Ends(f, batch', k)
        BY <1>4, <1>n, <2>1, <2>3, <3>2 DEF Ends
      <3> QED
        BY <1>7, <2>1, <2>4, <3>1, <3>3 DEF InHand
    <2> QED
      BY <1>9, <2>5, <2>6
  <1> QED
    BY <1>8, <1>9 DEF Walk

LEMMA WalkFiles ==
    ASSUME FilesInv, Walk
    PROVE  StandingTrue' /\ FreshTrue' /\ FreeingTrue'
  <1>1. /\ pc = "walk" /\ pc' \in {"walk", "record"} /\ UNCHANGED disk
        /\ fresh' = fresh /\ fresh \in BOOLEAN
        /\ batch \in Batches /\ batch'.name = batch.name
        /\ batch.name \in Names
    BY FilesTypes DEF Walk, WalkFull, WalkOn, WalkEnd, TypeOK, InCall, Push, Batches
  <1>2. Live.kind = IF fresh THEN "clear" ELSE "work"
    BY <1>1 DEF FilesInv, JournalInv, OrderInv, CallOrder
  <1>3. /\ Outstanding' = Outstanding /\ Live' = Live
        /\ \A b, k : Standing(b, k)' <=> Standing(b, k)
        /\ \A b : Done(b)' <=> Done(b)
    BY <1>1, CardStill
  <1>4. FreeingTrue'
    BY <1>1 DEF FreeingTrue
  <1>5. CASE fresh
    <2>1. ~Outstanding'
      BY <1>2, <1>3, <1>5 DEF Outstanding
    <2>2. Listed(batch.name) /\ InHand(0)
      BY <1>1, <1>5 DEF FilesInv, FreshTrue
    <2>3. Linked(chain[batch.name])
      BY <1>1, <2>2 DEF FilesInv, FilesApart, Intact
    <2>4. InHand(0)'
      BY <2>2, <2>3, WalkInHand DEF Linked
    <2>5. Listed(batch.name)'
      BY <1>1, <2>2 DEF Listed, disk
    <2> QED
      BY <1>4, <2>1, <2>4, <2>5 DEF StandingTrue, FreshTrue
  <1>6. CASE ~fresh
    <2>1. Outstanding
      BY <1>1, <1>2, <1>6 DEF FilesInv, JournalInv, OrderInv, CallOrder, Outstanding
    <2>2. PICK b \in Batches, k \in Nat :
            /\ b = Live /\ Standing(b, k)
            /\ batch.name = b.name /\ Done(b)
            /\ InHand(k + Len(b.clusters))
      <3>1. Live \in Batches
        BY <2>1, LiveIsReadable, FilesTypes DEF Outstanding
      <3> QED
        BY <1>1, <2>1, <3>1 DEF FilesInv, StandingTrue
    <2>3. PICK m \in Nat : m = k + Len(b.clusters)
      BY <2>2, FilesTypes
    <2>4. Leftover(chain[b.name], k, m)
      BY <2>2, <2>3 DEF Standing, Done
    <2>5. \A i \in DOMAIN chain[batch.name] :
             i > m + Len(batch.clusters)
               => fat[chain[batch.name][i]] = LinkAt(chain[batch.name], i)
      <3>1. SUFFICES ASSUME NEW i \in DOMAIN chain[b.name], i > m + Len(batch.clusters)
                     PROVE  fat[chain[b.name][i]] = LinkAt(chain[b.name], i)
        BY <2>2
      <3>2. PICK p \in Nat, q \in Nat : p = Len(b.clusters) /\ q = Len(batch.clusters)
        BY <1>1, FilesTypes
      <3>3. i \in Nat
        BY <2>2, <3>1, FilesTypes
      <3>4. m = k + p /\ i > m + q
        BY <2>3, <3>1, <3>2
      <3>5. i > k /\ ~(i <= m)
        BY <3>3, <3>4
      <3> QED
        BY <2>4, <3>5 DEF Leftover
    <2>6. InHand(m)'
      BY <2>2, <2>3, <2>5, WalkInHand
    <2>7. StandingTrue'
      BY <1>1, <1>3, <2>2, <2>3, <2>6 DEF StandingTrue
    <2> QED
      BY <1>1, <1>4, <1>6, <2>7 DEF FreshTrue
  <1> QED
    BY <1>5, <1>6

LEMMA RecoverFiles ==
    ASSUME FilesInv, Recover \/ StartFreeing \/ UNCHANGED vars
    PROVE  StandingTrue' /\ FreshTrue' /\ FreeingTrue'
  <1>1. UNCHANGED disk
    BY DEF Recover, StartFreeing, vars
  <1>2. /\ Outstanding' = Outstanding /\ Live' = Live
        /\ \A b, k : Standing(b, k)' <=> Standing(b, k)
        /\ \A b : Done(b)' <=> Done(b)
    BY <1>1, CardStill
  <1>3. CASE Recover
    BY <1>2, <1>3 DEF Recover, FilesInv, StandingTrue, FreshTrue, FreeingTrue
  <1>4. CASE StartFreeing
    <2>1. /\ pc = "pass" /\ pc' = "free" /\ cursor' = 1 /\ batch' = batch
          /\ Plan(batch, Classify(batch), freed) = "free"
      BY <1>4 DEF StartFreeing, Planned
    <2>2. batch \in Batches /\ ~Listed(batch.name)
      BY <2>1, PassRecord DEF Plan
    <2>3. \A i \in DOMAIN batch.clusters : ~(i < 1)
      BY <2>2, FilesTypes
    <2>4. ~Listed(batch.name)'
      BY <1>1, <2>1, <2>2 DEF disk, Listed
    <2> QED
      BY <1>2, <2>1, <2>3, <2>4 DEF FilesInv, StandingTrue, FreshTrue, FreeingTrue
  <1>5. CASE UNCHANGED vars
    <2>1. UNCHANGED <<pc, batch, fresh, freed, cursor, at, dir, fat, chain>>
      BY <1>5 DEF vars, disk, volatile
    <2>2. \A k : InHand(k)' <=> InHand(k)
      BY <2>1 DEF InHand
    <2>3. StandingTrue'
      BY <1>2, <2>1, <2>2 DEF FilesInv, StandingTrue
    <2>4. FreshTrue'
      BY <2>1, <2>2 DEF FilesInv, FreshTrue, Listed
    <2>5. FreeingTrue'
      BY <1>2, <2>1 DEF FilesInv, FreeingTrue, Listed, Done
    <2> QED
      BY <2>3, <2>4, <2>5
  <1> QED
    BY <1>3, <1>4, <1>5

\* The next batch is begun once the clusters of the one that stands are free,
\* at the cluster that one says it goes on with.
LEMMA StartNextBatchFiles ==
    ASSUME FilesInv, StartNextBatch
    PROVE  StandingTrue' /\ FreshTrue' /\ FreeingTrue'
  <1>1. /\ pc = "pass" /\ pc' = "walk" /\ UNCHANGED disk /\ fresh' = fresh
        /\ batch' = EmptyBatch(target.seq, batch.name, batch.entry)
        /\ at' = batch.continuation
        /\ Plan(batch, Classify(batch), freed) = "next"
    BY DEF StartNextBatch, Planned
  <1>2. PICK b \in Batches, k \in Nat :
          /\ b = batch /\ b = Live /\ Outstanding /\ Standing(b, k)
          /\ ~fresh
          /\ Classify(b) = "ours" <=> Listed(b.name)
    BY <1>1, PassRecord
  <1>3. ~Listed(b.name) /\ b.continuation # NoCluster /\ (freed \/ b.clusters = <<>>)
    BY <1>1, <1>2 DEF Plan
  <1>4. Done(b)
    BY <1>1, <1>2, <1>3 DEF Done, FilesInv, FreeingTrue
  <1>5. /\ batch'.name = b.name /\ batch'.entry = b.entry
        /\ batch'.clusters = <<>> /\ batch'.continuation = NoCluster
        /\ at' = b.continuation
    BY <1>1, <1>2 DEF EmptyBatch
  <1>6. PICK f \in Seq(Clusters), z \in Nat :
          f = chain[b.name] /\ z = Len(f) /\ chain'[b.name] = f
    BY <1>1, FilesTypes DEF disk
  <1>7. PICK m \in Nat : m = k + Len(b.clusters)
    BY FilesTypes
  <1>8. Covers(f, b, k) /\ Ends(f, b, k)
    BY <1>2, <1>6 DEF Standing
  <1>9. m < z /\ at' = f[m + 1]
    <2>1. m # z
      BY <1>3, <1>6, <1>7, <1>8 DEF Ends
    <2>2. m <= z
      BY <1>6, <1>7, <1>8 DEF Covers
    <2> QED
      BY <1>5, <1>6, <1>7, <1>8, <2>1, <2>2 DEF Ends
  <1>10. Len(batch'.clusters) = 0 /\ DOMAIN batch'.clusters = {}
    BY <1>5
  <1>11. Covers(f, batch', m)
    BY <1>5, <1>6, <1>8, <1>9, <1>10 DEF Covers
  <1>12. InHand(m)'
    <2>1. m + Len(batch'.clusters) = m
      BY <1>10
    <2> QED
      BY <1>1, <1>5, <1>6, <1>9, <1>11, <2>1 DEF InHand
  <1>13. /\ Outstanding' = Outstanding /\ Live' = Live
         /\ Standing(b, k)' /\ Done(b)'
    BY <1>1, <1>2, <1>4, CardStill
  <1>14. StandingTrue'
    BY <1>2, <1>5, <1>7, <1>12, <1>13 DEF StandingTrue
  <1> QED
    BY <1>1, <1>2, <1>14 DEF FreshTrue, FreeingTrue

\* A call that has ended has nothing in memory to be true or false.
LEMMA EndedFiles ==
    ASSUME pc' = "idle", Outstanding' => \E k \in Nat : Standing(Live, k)'
    PROVE  StandingTrue' /\ FreshTrue' /\ FreeingTrue'
  BY DEF StandingTrue, FreshTrue, FreeingTrue

LEMMA InterruptFiles ==
    ASSUME FilesInv, Interrupt
    PROVE  StandingTrue' /\ FreshTrue' /\ FreeingTrue'
  <1>1. UNCHANGED disk /\ pc' = "idle"
    BY DEF Interrupt, Forget
  <1>2. Outstanding' => \E k \in Nat : Standing(Live, k)'
    <2>1. /\ Outstanding' = Outstanding /\ Live' = Live
          /\ \A b, k : Standing(b, k)' <=> Standing(b, k)
      BY <1>1, CardStill
    <2> QED
      BY <2>1 DEF FilesInv, StandingTrue
  <1> QED
    BY <1>1, <1>2, EndedFiles

\* A later build's record hides the one that stands, and moves nothing.
LEMMA LaterBuildFiles ==
    ASSUME FilesInv, LaterBuild
    PROVE  /\ FilesApart' /\ NothingLost'
           /\ StandingTrue' /\ FreshTrue' /\ FreeingTrue'
  <1>1. UNCHANGED <<dir, fat, chain, jchain, jlen>> /\ pc' = "idle" /\ jlen = 2
    BY DEF LaterBuild, volatile
  <1>2. ~SlotsUsable'
    <2>1. PICK i \in SlotIndex : i = OtherSlot(LiveIndex)
      BY LiveIsReadable, OtherSlotType, FilesTypes DEF LaterBuild
    <2>2. SlotRead(i)' = Unsupported
      BY <1>1, <2>1, FilesTypes DEF LaterBuild, SlotRead, SlotIndex, TypeOK
    <2> QED
      BY <2>2 DEF SlotsUsable, Unsupported
  <1>3. ~Outstanding'
    BY <1>2 DEF Outstanding, JournalFound
  <1>4. FilesApart'
    BY <1>1 DEF FilesInv, FilesApart, Listed, Intact, Linked
  <1> QED
    BY <1>1, <1>2, <1>3, <1>4, EndedFiles DEF NothingLost

-----------------------------------------------------------------------------
(***************************************************************************)
(* The commit point, and the frees after it                                *)
(***************************************************************************)
\* The name goes; what it listed is what the standing record tells of.
LEMMA UnlinkFiles ==
    ASSUME FilesInv, Unlink
    PROVE  /\ FilesApart' /\ NothingLost'
           /\ StandingTrue' /\ FreshTrue' /\ FreeingTrue'
  <1>1. /\ pc = "pass" /\ pc' = "pass" /\ UNCHANGED <<fat, chain, slots, jlen, jchain, batch, freed>>
        /\ dir' = [dir EXCEPT ![batch.name] = NoEntry]
        /\ Plan(batch, Classify(batch), freed) = "unlink"
    BY DEF Unlink, Planned, volatile
  <1>2. PICK b \in Batches, k \in Nat :
          /\ b = batch /\ b = Live /\ Outstanding /\ Standing(b, k)
          /\ Classify(b) = "ours" <=> Listed(b.name)
    BY <1>1, PassRecord
  <1>3. Listed(b.name) /\ k = 0
    BY <1>1, <1>2 DEF Plan, Standing
  <1>4. \A n \in Names : Listed(n)' <=> Listed(n) /\ n # b.name
    BY <1>1, <1>2, FilesTypes DEF Listed
  <1>5. \A n \in Names : n # b.name => dir'[n] = dir[n]
    BY <1>1, <1>2, FilesTypes
  <1>6. FilesApart'
    BY <1>1, <1>4, <1>5 DEF FilesInv, FilesApart, Intact, Linked
  <1>7. Outstanding' = Outstanding /\ Live' = Live /\ SlotsUsable' = SlotsUsable
    BY <1>1, JournalStill
  <1>8. NothingLost'
    <2>1. SUFFICES ASSUME SlotsUsable, NEW c \in Clusters, fat[c] # Free,
                          ~Holds(jchain, c), ~Holds(chain[b.name], c)
                   PROVE  \E n \in Names : Listed(n)' /\ Holds(chain[n], c)
      BY <1>1, <1>2, <1>7 DEF NothingLost
    <2>2. PICK n \in Names : Listed(n) /\ Holds(chain[n], c)
      BY <1>2, <2>1 DEF FilesInv, NothingLost
    <2> QED
      BY <1>4, <2>1, <2>2
  <1>9. Standing(b, 0)'
    <2>1. PICK f \in Seq(Clusters) : f = chain[b.name]
      BY FilesTypes
    <2>2. Linked(f) /\ Disjoint(f, jchain)
      BY <1>3, <2>1, FilesTypes DEF FilesInv, FilesApart, Intact
    <2>3. \A n \in Names : Listed(n)' => Disjoint(f, chain[n])
      BY <1>3, <1>4, <2>1, FilesTypes DEF FilesInv, FilesApart
    <2>4. \A i \in DOMAIN f : ~(i <= 0)
      BY <2>1
    <2>5. Leftover(f, 0, 0 + Len(b.clusters))'
      BY <1>1, <2>2, <2>3, <2>4 DEF Leftover, Linked
    <2> QED
      BY <1>1, <1>2, <1>3, <1>4, <2>1, <2>5, FilesTypes DEF Standing
  <1>10. StandingTrue'
    BY <1>1, <1>2, <1>7, <1>9 DEF StandingTrue
  <1>11. ~freed
    BY <1>1, <1>2, <1>3 DEF FilesInv, FreeingTrue, Done
  <1> QED
    BY <1>1, <1>6, <1>8, <1>10, <1>11 DEF FreshTrue, FreeingTrue

\* A cluster is freed: of the file whose name has gone, which no listed file
\* and not the journal has any part in.
LEMMA FreeClusterFiles ==
    ASSUME FilesInv, FreeCluster
    PROVE  /\ FilesApart' /\ NothingLost'
           /\ StandingTrue' /\ FreshTrue' /\ FreeingTrue'
  <1>1. /\ pc = "free" /\ pc' \in {"free", "pass"}
        /\ UNCHANGED <<dir, chain, slots, jlen, jchain, batch>>
    BY DEF FreeCluster
  <1>2. PICK b \in Batches, k \in Nat :
          /\ b = batch /\ b = Live /\ Outstanding /\ Standing(b, k)
    BY <1>1, PassRecord
  <1>3. PICK f \in Seq(Clusters), z \in Nat, w \in Nat :
          /\ f = chain[b.name] /\ z = Len(f) /\ DOMAIN f = 1 .. z
          /\ w = Len(b.clusters) /\ DOMAIN b.clusters = 1 .. w
    BY FilesTypes
  <1>4. PICK j \in 1 .. w : j = cursor
    BY <1>1, <1>2, <1>3 DEF FilesInv, JournalInv, OrderInv, CallOrder
  <1>5. /\ ~Listed(b.name)
        /\ Leftover(f, k, k + w)
        /\ Covers(f, b, k) /\ Ends(f, b, k)
        /\ k + w <= z
    BY <1>1, <1>2, <1>3 DEF FilesInv, FreeingTrue, Standing, Covers
  <1>6. PICK x \in Clusters : x = b.clusters[j] /\ x = f[k + j] /\ k + j \in 1 .. z
    <2>1. b.clusters[j] = f[k + j]
      BY <1>3, <1>4, <1>5 DEF Covers
    <2>2. k + j \in 1 .. z
      BY <1>4, <1>5
    <2> QED
      BY <1>3, <2>1, <2>2
  <1>7. \A c \in Clusters : fat'[c] = IF c = x THEN Free ELSE fat[c]
    BY <1>2, <1>4, <1>6, FilesTypes DEF FreeCluster
  <1>8. ~Holds(jchain, x) /\ \A n \in Names : Listed(n) => ~Holds(chain[n], x)
    BY <1>3, <1>5, <1>6 DEF Leftover, Disjoint, Holds
  <1>9. \A i \in 1 .. z : f[i] \in Clusters /\ (f[i] = x => i = k + j)
    <2>1. IsInjective(f)
      BY <1>3, FilesTypes DEF FilesInv, FilesApart
    <2> QED
      BY <1>3, <1>6, <2>1 DEF IsInjective
  <1>10. \A n \in Names : Listed(n)' <=> Listed(n)
    BY <1>1 DEF Listed
  <1>11. FilesApart'
    <2>1. \A n \in Names : Listed(n) => \A i \in DOMAIN chain[n] :
             chain[n][i] \in Clusters /\ chain[n][i] # x
      BY <1>8, FilesTypes DEF Holds
    <2>2. \A n \in Names : Listed(n) => Linked(chain[n])'
      BY <1>1, <1>7, <2>1 DEF FilesInv, FilesApart, Intact, Linked
    <2> QED
      BY <1>1, <1>10, <2>2 DEF FilesInv, FilesApart, Intact
  <1>12. Outstanding' = Outstanding /\ Live' = Live /\ SlotsUsable' = SlotsUsable
    BY <1>1, JournalStill
  <1>13. NothingLost'
    <2>1. \A c \in Clusters : fat'[c] # Free => fat[c] # Free
      BY <1>7
    <2> QED
      BY <1>1, <1>10, <1>12, <2>1 DEF FilesInv, NothingLost
  <1>14. Standing(b, k)'
    <2>1. \A i \in DOMAIN f : i <= k => fat'[f[i]] = Free
      BY <1>3, <1>5, <1>7, <1>9 DEF Leftover
    <2>2. \A i \in DOMAIN f :
            i > k => fat'[f[i]] = LinkAt(f, i) \/ (i <= k + w /\ fat'[f[i]] = Free)
      <3>1. SUFFICES ASSUME NEW i \in 1 .. z, i > k
                     PROVE  fat'[f[i]] = LinkAt(f, i) \/ (i <= k + w /\ fat'[f[i]] = Free)
        BY <1>3
      <3>2. CASE f[i] = x
        <4>1. i = k + j /\ k + j <= k + w
          BY <1>4, <1>9, <3>1, <3>2
        <4> QED
          BY <1>7, <1>9, <3>2, <4>1
      <3>3. CASE f[i] # x
        BY <1>3, <1>5, <1>7, <1>9, <3>1, <3>3 DEF Leftover
      <3> QED
        BY <3>2, <3>3
    <2>3. Leftover(f, k, k + w)'
      BY <1>1, <1>5, <1>10, <2>1, <2>2 DEF Leftover
    <2> QED
      BY <1>1, <1>3, <1>5, <1>10, <2>3, FilesTypes DEF Standing
  <1>15. StandingTrue'
    BY <1>1, <1>2, <1>12, <1>14 DEF StandingTrue
  <1>16. FreshTrue'
    BY <1>1, PassRecord DEF FreshTrue, FreeCluster
  <1>17. \A i \in 1 .. w : i <= j => fat'[b.clusters[i]] = Free
    <2>1. SUFFICES ASSUME NEW i \in 1 .. w, i <= j PROVE fat'[b.clusters[i]] = Free
      OBVIOUS
    <2>2. PICK c \in Clusters : c = b.clusters[i]
      BY <1>3, FilesTypes
    <2>3. i < j => fat[c] = Free
      BY <1>1, <1>2, <1>3, <1>4, <2>2 DEF FilesInv, FreeingTrue
    <2>4. i = j => c = x
      BY <1>6, <2>2
    <2>5. i = j \/ i < j
      BY <2>1
    <2> QED
      BY <1>7, <2>2, <2>3, <2>4, <2>5
  <1>18. FreeingTrue'
    <2>1. CASE j = w
      <3>1. pc' = "pass"
        BY <1>2, <1>3, <1>4, <2>1 DEF FreeCluster
      <3>2. \A i \in 1 .. w : i <= j
        BY <2>1
      <3>3. Done(batch)'
        BY <1>1, <1>2, <1>3, <1>5, <1>10, <1>17, <3>2, FilesTypes DEF Done
      <3> QED
        BY <3>1, <3>3 DEF FreeingTrue
    <2>2. CASE j # w
      <3>1. pc' = "free" /\ cursor' = j + 1
        BY <1>1, <1>2, <1>3, <1>4, <2>2 DEF FreeCluster
      <3>2. \A i \in 1 .. w : i < j + 1 => i <= j
        BY <1>4
      <3>3. ~Listed(b.name)'
        BY <1>1, <1>5 DEF Listed
      <3> QED
        BY <1>1, <1>2, <1>3, <1>17, <3>1, <3>2, <3>3 DEF FreeingTrue
    <2> QED
      BY <2>1, <2>2
  <1> QED
    BY <1>11, <1>13, <1>15, <1>16, <1>18

-----------------------------------------------------------------------------
(***************************************************************************)
(* Writing a slot                                                          *)
(***************************************************************************)
\* The cluster the journal may take was free, so it is no listed file's.
LEMMA GrowFiles ==
    ASSUME FilesInv, NEW i \in SlotIndex, Grow(i), UNCHANGED <<dir, chain>>
    PROVE  /\ FilesApart'
           /\ \A c \in Clusters : fat'[c] # Free => fat[c] # Free \/ Holds(jchain', c)
           /\ Len(jchain) = 2 => UNCHANGED <<fat, jchain>>
  <1>1. /\ \A c \in Clusters : Holds(jchain', c) \/ fat'[c] = fat[c]
        /\ \A c : Holds(jchain', c) => Holds(jchain, c) \/ fat[c] = Free
    BY GrowKeeps, FilesTypes
  <1>2. \A n \in Names : Listed(n) =>
           \A c : Holds(chain[n], c) => ~Holds(jchain', c) /\ c \in Clusters
    BY <1>1, ListedIsTaken
  <1>3. \A n \in Names : Listed(n) => Disjoint(chain[n], jchain')
    BY <1>2 DEF Disjoint
  <1>4. \A n \in Names : Listed(n) => Linked(chain[n])'
    <2>1. SUFFICES ASSUME NEW n \in Names, Listed(n), NEW j \in DOMAIN chain[n]
                   PROVE  fat'[chain[n][j]] = LinkAt(chain[n], j)
      BY DEF Linked
    <2>2. Holds(chain[n], chain[n][j])
      BY <2>1 DEF Holds
    <2>3. fat'[chain[n][j]] = fat[chain[n][j]]
      BY <1>1, <1>2, <2>1, <2>2
    <2> QED
      BY <2>1, <2>3 DEF FilesInv, FilesApart, Intact, Linked
  <1>5. FilesApart'
    BY <1>3, <1>4 DEF FilesInv, FilesApart, Intact, Listed, Disjoint
  <1>6. Len(jchain) = 2 => UNCHANGED <<fat, jchain>>
    BY DEF Grow, SlotIndex
  <1> QED
    BY <1>1, <1>5, <1>6

\* The card after a write that leaves nothing in flight that was, or something
\* in flight that covers the same file.
LEMMA WriteLosesNothing ==
    ASSUME FilesInv, NEW i \in SlotIndex, Grow(i), UNCHANGED <<dir, chain>>,
           SlotsUsable,
           Outstanding => Outstanding' /\ Live'.name = Live.name
    PROVE  NothingLost'
  <1>1. SUFFICES ASSUME NEW c \in Clusters, fat'[c] # Free, ~Holds(jchain', c)
                 PROVE  \/ \E n \in Names : Listed(n)' /\ Holds(chain'[n], c)
                        \/ Outstanding' /\ Holds(chain'[Live'.name], c)
    BY DEF NothingLost
  <1>2. fat[c] # Free /\ ~Holds(jchain, c)
    BY <1>1, GrowFiles, GrowKeeps, FilesTypes
  <1>3. CASE \E n \in Names : Listed(n) /\ Holds(chain[n], c)
    BY <1>3 DEF Listed
  <1>4. CASE Outstanding /\ Holds(chain[Live.name], c)
    BY <1>4
  <1> QED
    BY <1>2, <1>3, <1>4 DEF FilesInv, NothingLost

\* The bootstrap: the file is as listed as it was, and the walk may begin.
LEMMA WriteBootstrapFiles ==
    ASSUME FilesInv, OrderInv', WriteBootstrap
    PROVE  /\ FilesApart' /\ NothingLost'
           /\ StandingTrue' /\ FreshTrue' /\ FreeingTrue'
  <1>1. /\ pc = "bootstrap" /\ Grow(0) /\ 0 \in SlotIndex
        /\ UNCHANGED <<dir, chain>> /\ UNCHANGED <<batch, fresh, at>>
        /\ pc' = AfterJournalAsked(batch.entry)
    BY DEF WriteBootstrap, WriteSlot, SlotIndex, volatile
  <1>2. pc' \in {"walk", "record"}
    BY <1>1 DEF AfterJournalAsked
  <1>3. /\ fresh /\ JournalAbsent /\ at = batch.entry
        /\ batch \in Batches
    BY <1>1, FilesTypes DEF OrderInv, CallOrder, InCall
  <1>4. SlotsUsable /\ ~Outstanding
    BY <1>3, SettledIsUsable DEF Settled
  <1>5. FilesApart' /\ NothingLost'
    BY <1>1, <1>4, GrowFiles, WriteLosesNothing
  <1>6. ~Outstanding'
    BY <1>1, <1>2, <1>3 DEF OrderInv, CallOrder, Outstanding
  <1>7. Listed(batch.name) /\ InHand(0)
    BY <1>1, <1>3 DEF FilesInv, FreshTrue
  <1>8. PICK f \in Seq(Clusters), z \in Nat :
          /\ f = chain[batch.name] /\ z = Len(f) /\ (z > 0 => f[1] \in Clusters)
          /\ (f = <<>> <=> z = 0)
    BY <1>3, FilesTypes
  <1>9. /\ Covers(f, batch, 0) /\ batch.continuation = NoCluster
        /\ batch.entry = First(f)
        /\ batch.clusters = <<>> /\ 0 + Len(batch.clusters) = 0
    BY <1>1, <1>7, <1>8 DEF InHand, Covers
  <1>10. pc' = "record" => Ends(f, batch, 0)
    <2>1. SUFFICES ASSUME pc' = "record" PROVE z = 0
      BY <1>8, <1>9 DEF Ends
    <2>2. batch.entry = NoCluster
      BY <1>1, <2>1 DEF AfterJournalAsked
    <2> QED
      BY <1>8, <1>9, <2>2, Markers DEF First
  <1>11. pc' = "walk" => 0 < z /\ at = f[0 + 1]
    <2>1. SUFFICES ASSUME pc' = "walk" PROVE f # <<>>
      BY <1>3, <1>8, <1>9 DEF First
    <2>2. batch.entry # NoCluster
      BY <1>1, <2>1 DEF AfterJournalAsked
    <2> QED
      BY <1>9, <2>2 DEF First
  <1>12. InHand(0)'
    BY <1>1, <1>2, <1>8, <1>9, <1>10, <1>11 DEF InHand
  <1> QED
    BY <1>1, <1>2, <1>5, <1>6, <1>7, <1>12 DEF StandingTrue, FreshTrue, FreeingTrue, Listed

\* The record is durable: of a first batch while its file is still listed, of
\* a next one when all that came before it is free.
LEMMA WriteRecordFiles ==
    ASSUME FilesInv, OrderInv', WriteRecord
    PROVE  /\ FilesApart' /\ NothingLost'
           /\ StandingTrue' /\ FreshTrue' /\ FreeingTrue'
  <1>1. /\ pc = "record" /\ pc' \in {"recover", "pass"}
        /\ UNCHANGED <<dir, chain>> /\ batch' = batch
        /\ ~fresh' /\ ~freed'
        /\ Grow(target.index) /\ target.index \in SlotIndex
        /\ JournalFound /\ SlotsUsable
    BY TargetIsOther, FilesTypes DEF WriteRecord, WriteSlot, JournalFound
  <1>2. /\ batch \in Batches /\ batch.name \in Names
        /\ fresh \in BOOLEAN
        /\ Live.kind = IF fresh THEN "clear" ELSE "work"
    BY <1>1, FilesTypes DEF OrderInv, CallOrder, TypeOK
  <1>3. Live' = batch /\ Outstanding'
    BY <1>1, <1>2 DEF OrderInv, CallOrder, Outstanding, Batches
  <1>4. FilesApart'
    BY <1>1, GrowFiles
  <1>5. PICK f \in Seq(Clusters), z \in Nat, w \in Nat :
          /\ f = chain[batch.name] /\ z = Len(f) /\ DOMAIN f = 1 .. z
          /\ w = Len(batch.clusters)
    BY <1>2, FilesTypes
  <1>6. /\ FreshTrue'
        /\ FreeingTrue'
    BY <1>1 DEF FreshTrue, FreeingTrue
  <1>7. CASE fresh
    <2>1. ~Outstanding
      BY <1>2, <1>7 DEF Outstanding
    <2>2. NothingLost'
      BY <1>1, <2>1, WriteLosesNothing
    <2>3. Listed(batch.name) /\ InHand(0)
      BY <1>1, <1>7 DEF FilesInv, FreshTrue
    <2>4. Covers(f, batch, 0) /\ Ends(f, batch, 0)
      BY <1>1, <1>5, <2>3 DEF InHand
    <2>5. \E k \in Nat : Standing(batch, k)'
      <3>1. Standing(batch, 0)'
        BY <1>1, <1>5, <2>3, <2>4 DEF Standing, Listed
      <3> QED
        BY <3>1
    <2> QED
      BY <1>1, <1>3, <1>4, <1>6, <2>2, <2>5 DEF StandingTrue
  <1>8. CASE ~fresh
    <2>1. Outstanding
      BY <1>1, <1>2, <1>8 DEF Outstanding
    <2>2. UNCHANGED <<fat, jchain>>
      BY <1>1, <1>8, FullWhenOutstanding, GrowFiles, FilesTypes
    <2>3. PICK b \in Batches, k \in Nat :
            /\ b = Live /\ Standing(b, k)
            /\ batch.name = b.name /\ Done(b)
            /\ InHand(k + Len(b.clusters))
      <3>1. Live \in Batches
        BY <2>1, LiveIsReadable, FilesTypes DEF Outstanding
      <3> QED
        BY <1>1, <2>1, <3>1 DEF FilesInv, StandingTrue
    <2>4. PICK v \in Nat, m \in Nat :
            /\ v = Len(b.clusters) /\ DOMAIN b.clusters = 1 .. v /\ m = k + v
      BY FilesTypes
    <2>5. NothingLost'
      BY <1>1, <1>3, <2>3, WriteLosesNothing
    <2>6. /\ Covers(f, batch, m) /\ Ends(f, batch, m)
          /\ Covers(f, b, k) /\ Leftover(f, k, m) /\ ~Listed(b.name)
      BY <1>1, <1>5, <2>3, <2>4 DEF InHand, Standing, Done
    <2>7. Leftover(f, m, m + w)'
      <3>1. \A i \in 1 .. z : i <= m => fat[f[i]] = Free
        <4>1. SUFFICES ASSUME NEW i \in 1 .. z, i <= m, i > k PROVE fat[f[i]] = Free
          BY <1>5, <2>6 DEF Leftover
        <4>2. PICK j \in 1 .. v : i = k + j
          <5>1. i - k \in 1 .. v /\ i = k + (i - k)
            BY <2>4, <4>1
          <5> QED
            BY <5>1
        <4>3. f[i] = b.clusters[j]
          BY <2>4, <2>6, <4>2 DEF Covers
        <4> QED
          BY <2>3, <2>4, <4>2, <4>3 DEF Done
      <3>2. \A i \in 1 .. z : i > m => fat[f[i]] = LinkAt(f, i)
        <4>1. SUFFICES ASSUME NEW i \in 1 .. z, i > m PROVE fat[f[i]] = LinkAt(f, i)
          OBVIOUS
        <4>2. i > k /\ ~(i <= m)
          BY <2>4, <4>1
        <4> QED
          BY <1>5, <2>6, <4>2 DEF Leftover
      <3> QED
        BY <1>1, <1>5, <2>2, <2>6, <3>1, <3>2 DEF Leftover, Listed
    <2>8. Standing(batch, m)'
      BY <1>1, <1>5, <2>3, <2>6, <2>7 DEF Standing, Listed
    <2> QED
      BY <1>1, <1>3, <1>4, <1>6, <2>5, <2>8 DEF StandingTrue
  <1> QED
    BY <1>2, <1>7, <1>8

\* The last record: every cluster of the file is free by then.
LEMMA FinishFiles ==
    ASSUME FilesInv, Finish
    PROVE  /\ FilesApart' /\ NothingLost'
           /\ StandingTrue' /\ FreshTrue' /\ FreeingTrue'
  <1>1. /\ pc = "pass" /\ pc' = "idle" /\ UNCHANGED <<dir, chain>>
        /\ Grow(target.index) /\ target.index \in SlotIndex
        /\ Plan(batch, Classify(batch), freed) = "finish"
    BY TargetIsOther, FilesTypes DEF Finish, Planned, WriteSlot, Forget
  <1>2. PICK b \in Batches, k \in Nat :
          /\ b = batch /\ b = Live /\ Outstanding /\ Standing(b, k)
          /\ Classify(b) = "ours" <=> Listed(b.name)
          /\ Len(jchain) = 2
    BY <1>1, PassRecord
  <1>3. UNCHANGED <<fat, jchain>> /\ FilesApart'
    BY <1>1, <1>2, GrowFiles
  <1>4. ~Outstanding'
    BY FinishOrder, FilesTypes DEF Outstanding, Clear
  <1>5. ~Listed(b.name) /\ b.continuation = NoCluster /\ (freed \/ b.clusters = <<>>)
    BY <1>1, <1>2 DEF Plan
  <1>6. Done(b)
    BY <1>1, <1>2, <1>5 DEF Done, FilesInv, FreeingTrue
  <1>7. PICK f \in Seq(Clusters), z \in Nat, w \in Nat :
          /\ f = chain[b.name] /\ z = Len(f) /\ DOMAIN f = 1 .. z
          /\ w = Len(b.clusters) /\ DOMAIN b.clusters = 1 .. w
    BY FilesTypes
  <1>8. Covers(f, b, k) /\ Ends(f, b, k) /\ Leftover(f, k, k + w) /\ k + w <= z
    BY <1>2, <1>5, <1>7 DEF Standing, Covers
  <1>9. k + w = z
    <2>1. SUFFICES ASSUME k + w # z PROVE FALSE
      OBVIOUS
    <2>2. k + w + 1 \in 1 .. z
      BY <1>8, <2>1
    <2>3. f[k + w + 1] \in Clusters
      BY <1>7, <2>2
    <2>4. NoCluster = f[k + w + 1]
      BY <1>5, <1>7, <1>8, <2>1 DEF Ends
    <2> QED
      BY <2>3, <2>4, Markers
  <1>10. \A i \in 1 .. z : fat[f[i]] = Free
    <2>0. \A i \in 1 .. z : i <= k \/ i > k
      OBVIOUS
    <2>1. SUFFICES ASSUME NEW i \in 1 .. z, i > k PROVE fat[f[i]] = Free
      BY <1>7, <1>8, <2>0 DEF Leftover
    <2>2. PICK j \in 1 .. w : i = k + j
      <3>1. i - k \in 1 .. w /\ i = k + (i - k)
        BY <1>9, <2>1
      <3> QED
        BY <3>1
    <2>3. f[i] = b.clusters[j]
      BY <1>7, <1>8, <2>2 DEF Covers
    <2> QED
      BY <1>6, <1>7, <2>3 DEF Done
  <1>11. NothingLost'
    <2>1. SUFFICES ASSUME NEW c \in Clusters, fat[c] # Free, ~Holds(jchain, c)
                   PROVE  \E n \in Names : Listed(n)' /\ Holds(chain'[n], c)
      BY <1>3 DEF NothingLost
    <2>2. ~Holds(f, c)
      BY <1>7, <1>10, <2>1 DEF Holds
    <2>3. SlotsUsable
      BY <1>2 DEF Outstanding, JournalFound
    <2>4. PICK n \in Names : Listed(n) /\ Holds(chain[n], c)
      BY <1>2, <1>7, <2>1, <2>2, <2>3 DEF FilesInv, NothingLost
    <2> QED
      BY <1>1, <2>4 DEF Listed
  <1> QED
    BY <1>1, <1>3, <1>4, <1>11, EndedFiles

\* A write the power cuts into leaves what stood standing.
LEMMA InterruptInWriteFiles ==
    ASSUME FilesInv, InterruptInWrite
    PROVE  /\ FilesApart' /\ NothingLost'
           /\ StandingTrue' /\ FreshTrue' /\ FreeingTrue'
  <1>1. PICK i \in SlotIndex : Writing(i) /\ TearSlot(i)
    BY DEF InterruptInWrite
  <1>2. /\ Grow(i) /\ UNCHANGED <<dir, chain>> /\ pc' = "idle"
        /\ pc # "idle"
    BY <1>1 DEF TearSlot, InterruptInWrite, Forget, Writing, Planned
  <1>3. FilesApart'
    BY <1>2, GrowFiles
  <1>4. Outstanding' => Outstanding /\ Live' = Live
    BY EndOrder, FilesTypes
  <1>5. SlotsUsable /\ (Outstanding => Outstanding' /\ Live' = Live)
    <2>1. CASE pc = "bootstrap"
      <3>1. JournalAbsent
        BY <2>1, FilesTypes DEF OrderInv, CallOrder
      <3> QED
        BY <3>1, SettledIsUsable DEF Settled
    <2>2. CASE pc # "bootstrap"
      <3>1. i = target.index /\ pc \notin {"idle", "bootstrap"}
        BY <1>1, <1>2, <2>2 DEF Writing, Planned
      <3>2. JournalFound /\ JournalFound' /\ Live' = Live
        BY <1>1, <3>1, TornLeavesLive, TargetIsOther, FilesTypes
      <3> QED
        BY <3>2 DEF Outstanding, JournalFound
    <2> QED
      BY <2>1, <2>2
  <1>6. NothingLost'
    BY <1>2, <1>5, WriteLosesNothing
  <1>7. Outstanding' => \E k \in Nat : Standing(Live, k)'
    <2>1. SUFFICES ASSUME Outstanding, Outstanding', Live' = Live
                   PROVE  \E k \in Nat : Standing(Live, k)'
      BY <1>4
    <2>2. UNCHANGED <<fat, jchain>>
      BY <1>2, <2>1, FullWhenOutstanding, GrowFiles, FilesTypes
    <2>3. PICK k \in Nat : Standing(Live, k)
      BY <2>1 DEF FilesInv, StandingTrue
    <2>4. Standing(Live, k)'
      BY <1>2, <2>1, <2>2, <2>3 DEF Standing, Leftover, Listed
    <2> QED
      BY <2>4
  <1> QED
    BY <1>2, <1>3, <1>6, <1>7, EndedFiles

-----------------------------------------------------------------------------
(***************************************************************************)
(* A file comes, once the journal has said that nothing is in flight       *)
(***************************************************************************)
LEMMA CreatedFiles ==
    ASSUME FilesInv, Settled,
           \/ \E a \in Aliases, s \in Chains : CreateFile(a, s)
           \/ \E n \in StateFiles, c \in Clusters : CreateStateFile(n, c)
    PROVE  /\ FilesApart' /\ NothingLost'
           /\ StandingTrue' /\ FreshTrue' /\ FreeingTrue'
  <1>1. PICK n \in Names, s \in Seq(Clusters) :
          /\ dir[n] = NoEntry
          /\ IsInjective(s)
          /\ \A i \in DOMAIN s : fat[s[i]] = Free
          /\ dir' = [dir EXCEPT ![n] = First(s)]
          /\ chain' = [chain EXCEPT ![n] = s]
          /\ \A i \in DOMAIN s : fat'[s[i]] = LinkAt(s, i)
          /\ \A c \in Clusters : ~Holds(s, c) => fat'[c] = fat[c]
    BY Created, FilesTypes
  <1>2. UNCHANGED <<slots, jlen, jchain>> /\ pc' = "idle"
    BY DEF CreateFile, CreateStateFile
  <1>3. ~Outstanding' /\ SlotsUsable /\ ~Outstanding
    BY <1>2, SettledIsUsable, JournalStill
  <1>4. /\ dir'[n] = First(s) /\ chain'[n] = s
        /\ \A m \in Names : m # n => dir'[m] = dir[m] /\ chain'[m] = chain[m]
        /\ ~Listed(n)
        /\ \A m \in Names : m # n => (Listed(m)' <=> Listed(m))
    BY <1>1, FilesTypes DEF Listed
  <1>5. First(s) # NoEntry
    BY FirstType, Markers DEF NoCluster, NoEntry
  <1>6. Listed(n)'
    BY <1>4, <1>5 DEF Listed
  <1>7. \A c : Holds(s, c) => c \in Clusters /\ fat[c] = Free
    BY <1>1 DEF Holds
  <1>8. \A m \in Names : Listed(m) => Disjoint(s, chain[m])
    BY <1>7, ListedIsTaken DEF Disjoint
  <1>9. Disjoint(s, jchain)
    <2>1. \A c : Holds(jchain, c) => fat[c] # Free
      BY LinkedIsTaken, FilesTypes DEF JournalInv, ChainKept
    <2> QED
      BY <1>7, <2>1 DEF Disjoint
  <1>10. ASSUME NEW m \in Names, Listed(m)'
         PROVE  Intact(m)' /\ Disjoint(chain[m], jchain)'
    <2>1. CASE m = n
      <3>1. Linked(s)'
        BY <1>1 DEF Linked
      <3> QED
        BY <1>2, <1>4, <1>9, <2>1, <3>1 DEF Intact, Disjoint, Linked
    <2>2. CASE m # n
      <3>1. Listed(m) /\ chain'[m] = chain[m] /\ dir'[m] = dir[m]
        BY <1>4, <1>10, <2>2
      <3>2. Intact(m) /\ Disjoint(chain[m], jchain)
        BY <3>1 DEF FilesInv, FilesApart
      <3>3. \A i \in DOMAIN chain[m] : fat'[chain[m][i]] = fat[chain[m][i]]
        <4>1. SUFFICES ASSUME NEW i \in DOMAIN chain[m]
                       PROVE  fat'[chain[m][i]] = fat[chain[m][i]]
          OBVIOUS
        <4>2. PICK c : c = chain[m][i] /\ Holds(chain[m], c)
          BY <4>1 DEF Holds
        <4>3. c \in Clusters /\ ~Holds(s, c)
          BY <1>8, <3>1, <4>2, ListedIsTaken DEF Disjoint
        <4> QED
          BY <1>1, <4>2, <4>3
      <3>4. Linked(chain[m])'
        BY <3>1, <3>2, <3>3 DEF Intact, Linked
      <3> QED
        BY <1>2, <3>1, <3>2, <3>4 DEF Intact
    <2> QED
      BY <2>1, <2>2
  <1>11. ASSUME NEW m \in Names, NEW l \in Names, Listed(m)', Listed(l)', m # l
         PROVE  Disjoint(chain[m], chain[l])'
    <2>1. CASE m # n /\ l # n
      BY <1>4, <1>11, <2>1 DEF FilesInv, FilesApart
    <2>2. CASE m = n
      BY <1>4, <1>8, <1>11, <2>2
    <2>3. CASE l = n
      <3>1. Disjoint(s, chain[m])
        BY <1>4, <1>8, <1>11, <2>3
      <3> QED
        BY <1>4, <1>11, <2>3, <3>1 DEF Disjoint
    <2> QED
      BY <2>1, <2>2, <2>3
  <1>12. \A m \in Names : IsInjective(chain'[m])
    BY <1>1, <1>4 DEF FilesInv, FilesApart
  <1>13. FilesApart'
    BY <1>10, <1>11, <1>12 DEF FilesApart
  <1>14. NothingLost'
    <2>1. SUFFICES ASSUME NEW c \in Clusters, fat'[c] # Free, ~Holds(jchain, c)
                   PROVE  \E m \in Names : Listed(m)' /\ Holds(chain'[m], c)
      BY <1>2 DEF NothingLost
    <2>2. CASE Holds(s, c)
      BY <1>4, <1>6, <2>2
    <2>3. CASE ~Holds(s, c)
      <3>1. fat[c] # Free
        BY <1>1, <2>1, <2>3
      <3>2. PICK m \in Names : Listed(m) /\ Holds(chain[m], c)
        BY <1>3, <2>1, <3>1 DEF FilesInv, NothingLost
      <3>3. m # n
        BY <1>4, <3>2
      <3> QED
        BY <1>4, <3>2, <3>3
    <2> QED
      BY <2>2, <2>3
  <1> QED
    BY <1>2, <1>3, <1>13, <1>14, EndedFiles

-----------------------------------------------------------------------------
LEMMA FilesInit == Init => FilesInv
  <1> SUFFICES ASSUME Init PROVE FilesInv
    OBVIOUS
  <1>1. JournalInv
    BY JournalInit
  <1>2. /\ \A n \in Names : chain[n] = <<>> /\ ~Listed(n)
        /\ \A c \in Clusters : fat[c] = Free
        /\ ~Outstanding /\ pc = "idle"
    BY DEF Init, Listed, Outstanding, JournalFound
  <1>3. \A n \in Names : IsInjective(chain[n])
    BY <1>2 DEF IsInjective
  <1> QED
    BY <1>1, <1>2, <1>3 DEF FilesInv, FilesApart, StandingTrue, FreshTrue,
       FreeingTrue, NothingLost

\* A step as the gated specification allows it.
AskedFirst == \A n \in StateFiles, c \in Clusters : CreateStateFile(n, c) => Settled

LEMMA FilesStep ==
    FilesInv /\ [Next \/ LaterBuild]_vars /\ [AskedFirst]_vars => FilesInv'
  <1> SUFFICES ASSUME FilesInv, [Next \/ LaterBuild]_vars, [AskedFirst]_vars
               PROVE  FilesInv'
    OBVIOUS
  <1>1. JournalInv' /\ OrderInv'
    BY JournalStep DEF FilesInv, JournalInv
  <1> SUFFICES /\ FilesApart' /\ NothingLost'
               /\ StandingTrue' /\ FreshTrue' /\ FreeingTrue'
    BY <1>1 DEF FilesInv
  <1>2. ASSUME NEW a \in Aliases, NEW s \in Chains, CreateFile(a, s)
        PROVE  /\ FilesApart' /\ NothingLost'
               /\ StandingTrue' /\ FreshTrue' /\ FreeingTrue'
    <2>1. Settled
      BY <1>2 DEF CreateFile
    <2> QED
      BY <1>2, <2>1, CreatedFiles
  <1>3. ASSUME NEW n \in StateFiles, NEW c \in Clusters, CreateStateFile(n, c)
        PROVE  /\ FilesApart' /\ NothingLost'
               /\ StandingTrue' /\ FreshTrue' /\ FreeingTrue'
    <2>1. dir' # dir
      <3>1. n \in Names /\ dir[n] = NoEntry /\ dir'[n] = c
        BY <1>3, FilesTypes DEF CreateStateFile, Names
      <3> QED
        BY <3>1, Markers
    <2>2. Settled
      BY <1>3, <2>1 DEF AskedFirst, vars, disk
    <2> QED
      BY <1>3, <2>2, CreatedFiles
  <1>4. ASSUME NEW a \in Aliases, ReclaimFirstEntry(a) \/ ReclaimEntry(a)
        PROVE  /\ FilesApart' /\ NothingLost'
               /\ StandingTrue' /\ FreshTrue' /\ FreeingTrue'
    <2>1. UNCHANGED disk
      BY <1>4 DEF ReclaimFirstEntry, ReclaimEntry, Begin
    <2> QED
      BY <1>4, <2>1, BeginFiles, CardStill
  <1>5. CASE Walk \/ Recover \/ StartFreeing \/ StartNextBatch \/ Interrupt \/ UNCHANGED vars
    <2>1. UNCHANGED disk
      BY <1>5 DEF Walk, WalkFull, WalkOn, WalkEnd, Recover, StartFreeing,
         StartNextBatch, Interrupt, vars
    <2> QED
      BY <1>5, <2>1, CardStill, WalkFiles, RecoverFiles, StartNextBatchFiles,
         InterruptFiles
  <1>6. CASE WriteBootstrap \/ WriteRecord
    BY <1>1, <1>6, WriteBootstrapFiles, WriteRecordFiles
  <1>7. CASE Unlink \/ FreeCluster \/ Finish \/ InterruptInWrite \/ LaterBuild
    BY <1>7, UnlinkFiles, FreeClusterFiles, FinishFiles, InterruptInWriteFiles,
       LaterBuildFiles
  <1> QED
    BY <1>2, <1>3, <1>4, <1>5, <1>6, <1>7 DEF Next, Call, Pass

\* Gated asks nothing where there are no such writers.
LEMMA GatedWithoutStateFiles == ASSUME StateFiles = {} PROVE Gated
  <1>1. AskedFirst
    BY DEF AskedFirst
  <1> QED
    BY <1>1, PTL DEF Gated, AskedFirst

LEMMA FilesAlways == DowngradeSpec /\ Gated => []FilesInv
  BY FilesInit, FilesStep, PTL DEF DowngradeSpec, Gated, AskedFirst

\* There is no reachable state in which something is listed and unreadable:
\* whatever was interrupted, and however the numbers wrapped, a free falls on
\* clusters of a file whose name is gone and that nothing else has a part in.
THEOREM ListedStaysReadable == DowngradeSpec /\ Gated => []ListedIsReadable
  <1>1. FilesInv => ListedIsReadable
    BY DEF FilesInv, FilesApart, ListedIsReadable, Listed
  <1> QED
    BY <1>1, FilesAlways, PTL

\* No interruption loses space: while a file's clusters are neither listed nor
\* free the journal says that a reclaim is in flight, and names the file.
THEOREM NoSpaceIsLost == DowngradeSpec /\ Gated => []NoLeak
  <1>1. FilesInv => NoLeak
    BY SettledIsUsable DEF FilesInv, NothingLost, NoLeak, Listed
  <1> QED
    BY <1>1, FilesAlways, PTL

-----------------------------------------------------------------------------
(***************************************************************************)
(* The refinement: to whoever lists the directory and reads what it lists, *)
(* a reclaim is the one step in which the name goes.                       *)
(***************************************************************************)
LEMMA WhatIsListed ==
    ASSUME FilesInv, NEW a \in Aliases
    PROVE  FileUnder(a) = IF Listed(a) THEN {chain[a]} ELSE {}
  BY DEF FilesInv, FilesApart, FileUnder, Listed, Names

\* A step that leaves names and what they were given alone shows nothing.
LEMMA FilesUnderStill ==
    ASSUME FilesInv, FilesInv', UNCHANGED <<dir, chain>>
    PROVE  [a \in Aliases |-> FileUnder(a)]' = [a \in Aliases |-> FileUnder(a)]
  <1>1. \A a \in Aliases : FileUnder(a)' = FileUnder(a)
    <2>1. SUFFICES ASSUME NEW a \in Aliases PROVE FileUnder(a)' = FileUnder(a)
      OBVIOUS
    <2>2. a \in Names
      BY DEF Names
    <2>3. Listed(a) => Intact(a) /\ Intact(a)'
      BY <2>2 DEF FilesInv, FilesApart, Listed
    <2> QED
      BY <2>3 DEF FileUnder, Listed
  <1> QED
    BY <1>1

\* The primed form of WhatIsListed.
LEMMA WhatIsListedNext ==
    ASSUME FilesInv', NEW a \in Aliases
    PROVE  FileUnder(a)' = IF Listed(a)' THEN {chain'[a]} ELSE {}
  BY DEF FilesInv, FilesApart, FileUnder, Listed, Names

\* The commit point is the deletion.
LEMMA UnlinkIsDelete ==
    ASSUME FilesInv, FilesInv', Unlink
    PROVE  Files!Next
  <1>1. /\ pc = "pass" /\ UNCHANGED chain
        /\ dir' = [dir EXCEPT ![batch.name] = NoEntry]
        /\ Plan(batch, Classify(batch), freed) = "unlink"
    BY DEF Unlink, Planned
  <1>2. batch \in Batches /\ Listed(batch.name)
    BY <1>1, PassRecord DEF Plan
  <1>3. PICK a \in Aliases : a = batch.name /\ a \in Names
    BY <1>2 DEF Batches, Names
  <1>4. /\ Listed(a) /\ ~Listed(a)'
        /\ \A m \in Aliases : m # a => (Listed(m)' <=> Listed(m))
    BY <1>1, <1>2, <1>3, FilesTypes DEF Listed, Names
  <1>5. /\ FileUnder(a) # {} /\ FileUnder(a)' = {}
        /\ \A m \in Aliases : m # a => FileUnder(m)' = FileUnder(m)
    BY <1>1, <1>3, <1>4, WhatIsListed, WhatIsListedNext
  <1>6. Files!Delete(a)
    BY <1>5 DEF Files!Delete
  <1> QED
    BY <1>6 DEF Files!Next

\* An upload that has landed is the creation.
LEMMA CreateFileIsCreate ==
    ASSUME FilesInv, FilesInv', NEW a \in Aliases, NEW s \in Chains,
           CreateFile(a, s)
    PROVE  Files!Next
  <1>1. /\ a \in Names /\ ~Listed(a)
        /\ dir' = [dir EXCEPT ![a] = First(s)]
        /\ chain' = [chain EXCEPT ![a] = s]
    BY DEF CreateFile, Names, Listed
  <1>2. First(s) # NoEntry
    BY ChainsAreSequences, FirstType, Markers DEF NoCluster, NoEntry
  <1>3. /\ Listed(a)' /\ chain'[a] = s
        /\ \A m \in Aliases : m # a => (Listed(m)' <=> Listed(m)) /\ chain'[m] = chain[m]
    BY <1>1, <1>2, FilesTypes DEF Listed, Names
  <1>4. /\ FileUnder(a) = {} /\ FileUnder(a)' = {s}
        /\ \A m \in Aliases : m # a => FileUnder(m)' = FileUnder(m)
    BY <1>1, <1>3, WhatIsListed, WhatIsListedNext
  <1>5. Files!Create(a)
    BY <1>4 DEF Files!Create
  <1> QED
    BY <1>5 DEF Files!Next

\* A record the reader keeps for itself lies beside the books.
LEMMA StateFileIsStutter ==
    ASSUME FilesInv, FilesInv', NEW n \in StateFiles, NEW c \in Clusters,
           CreateStateFile(n, c)
    PROVE  [a \in Aliases |-> FileUnder(a)]' = [a \in Aliases |-> FileUnder(a)]
  <1>1. n \notin Aliases
    BY NameAssumption
  <1>2. \A a \in Aliases : (Listed(a)' <=> Listed(a)) /\ chain'[a] = chain[a]
    BY <1>1, FilesTypes DEF CreateStateFile, Listed, Names
  <1>3. \A a \in Aliases : FileUnder(a)' = FileUnder(a)
    BY <1>2, WhatIsListed, WhatIsListedNext
  <1> QED
    BY <1>3

\* Each step of the detailed specification is a step of the abstract one, or
\* none.
LEMMA StepIsAbstract ==
    ASSUME FilesInv, FilesInv', [Next \/ LaterBuild]_vars
    PROVE  [Files!Next]_([a \in Aliases |-> FileUnder(a)])
  <1>1. ASSUME NEW a \in Aliases, NEW s \in Chains, CreateFile(a, s)
        PROVE  Files!Next
    BY <1>1, CreateFileIsCreate
  <1>2. ASSUME NEW n \in StateFiles, NEW c \in Clusters, CreateStateFile(n, c)
        PROVE  [a \in Aliases |-> FileUnder(a)]' = [a \in Aliases |-> FileUnder(a)]
    BY <1>2, StateFileIsStutter
  <1>3. CASE Unlink
    BY <1>3, UnlinkIsDelete
  <1>4. CASE UNCHANGED <<dir, chain>>
    BY <1>4, FilesUnderStill
  <1>5. \/ \E a \in Aliases, s \in Chains : CreateFile(a, s)
        \/ \E n \in StateFiles, c \in Clusters : CreateStateFile(n, c)
        \/ Unlink
        \/ UNCHANGED <<dir, chain>>
    BY DEF Next, Call, Pass, ReclaimFirstEntry, ReclaimEntry, Begin,
       WriteBootstrap, WriteRecord, Finish, WriteSlot, TearSlot, Walk, WalkFull,
       WalkOn, WalkEnd, Recover, StartFreeing, FreeCluster, StartNextBatch,
       Interrupt, InterruptInWrite, LaterBuild, vars, disk
  <1> QED
    BY <1>1, <1>2, <1>3, <1>4, <1>5

\* A file is wholly there or wholly gone: to whoever lists the directory and
\* reads what it lists, a file appears in one step and a reclaim, whatever
\* interrupts it and however often it is taken up again, is one step too.
THEOREM ReclaimIsAtomic == DowngradeSpec /\ Gated => WhollyThereOrGone
  <1>1. Init => Files!Init
    BY DEF Init, Files!Init, FileUnder, Names
  <1>2. FilesInv /\ FilesInv' /\ [Next \/ LaterBuild]_vars
          => [Files!Next]_([a \in Aliases |-> FileUnder(a)])
    BY StepIsAbstract
  <1> QED
    BY <1>1, <1>2, FilesAlways, PTL DEF DowngradeSpec, WhollyThereOrGone, Files!Spec
=============================================================================
