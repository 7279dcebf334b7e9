------------------------- MODULE AdminPanel_proofs -------------------------
(***************************************************************************)
(* TLAPS proofs about AdminPanel and the Lifecycle it extends, for any     *)
(* records, groups, requests, capacities and windows: the counters of the  *)
(* error groups are real, no record is left behind by a process that is    *)
(* gone, what a page shows is as recent as the cache promises, and no two  *)
(* pages load the same subject at once.                                    *)
(***************************************************************************)
EXTENDS AdminPanel, SequenceTheorems, FiniteSetTheorems, TLAPS

-----------------------------------------------------------------------------
(* Sequences without repetitions                                           *)

\* A queue holds a record once; the sentinel may be there.
Once(s) == \A i, j \in 1 .. Len(s) : s[i] = s[j] /\ s[i] # STOP => i = j

\* A new element at the end of a sequence in which each occurs once.
LEMMA Appended ==
  ASSUME NEW S, NEW s \in Seq(S), NEW x \in S, Once(s),
         x = STOP \/ x \notin Range(s)
  PROVE  /\ Append(s, x) \in Seq(S) /\ Once(Append(s, x))
         /\ Range(Append(s, x)) = Range(s) \union {x}
<1>1. /\ Append(s, x) \in Seq(S) /\ Len(Append(s, x)) = Len(s) + 1
      /\ \A i \in 1 .. Len(s) : Append(s, x)[i] = s[i]
      /\ Append(s, x)[Len(s) + 1] = x
  BY AppendProperties
<1>2. /\ Range(s) = {s[i] : i \in 1 .. Len(s)}
      /\ Range(Append(s, x)) = {Append(s, x)[i] : i \in 1 .. Len(s) + 1}
  BY <1>1, RangeEquality
<1>3. Len(s) \in Nat
  BY LenProperties
<1>4. Range(Append(s, x)) = Range(s) \union {x}
  <2>1. \A i \in 1 .. Len(s) + 1 : i \in 1 .. Len(s) \/ i = Len(s) + 1
    BY <1>3
  <2>2. \A i \in 1 .. Len(s) : i \in 1 .. Len(s) + 1
    BY <1>3
  <2>3. Len(s) + 1 \in 1 .. Len(s) + 1
    BY <1>3
  <2>4. QED
    BY <1>1, <1>2, <2>1, <2>2, <2>3
<1>5. Once(Append(s, x))
  <2> DEFINE z == Append(s, x)
  <2>1. SUFFICES ASSUME NEW i \in 1 .. Len(s) + 1, NEW j \in 1 .. Len(s) + 1,
                        z[i] = z[j], z[i] # STOP
                 PROVE  i = j
    BY <1>1 DEF Once
  <2>2. CASE i \in 1 .. Len(s) /\ j \in 1 .. Len(s)
    BY <1>1, <2>1, <2>2 DEF Once
  <2>3. CASE i = Len(s) + 1 /\ j \in 1 .. Len(s)
    BY <1>1, <1>2, <2>1, <2>3
  <2>4. CASE j = Len(s) + 1 /\ i \in 1 .. Len(s)
    BY <1>1, <1>2, <2>1, <2>4
  <2>5. QED
    BY <1>3, <2>2, <2>3, <2>4
<1>6. QED
  BY <1>1, <1>4, <1>5

\* The sentinel may be there more than once.
LEMMA SentinelAppended ==
  ASSUME NEW s \in Seq(Record \union {STOP}), Once(s)
  PROVE  /\ Append(s, STOP) \in Seq(Record \union {STOP})
         /\ Once(Append(s, STOP))
         /\ Range(Append(s, STOP)) = Range(s) \union {STOP}
<1>1. STOP \in Record \union {STOP}
  OBVIOUS
<1>2. QED
  BY <1>1, Appended

\* What is left without the first element.
LEMMA Tailed ==
  ASSUME NEW S, NEW s \in Seq(S), s # <<>>, Once(s)
  PROVE  /\ Tail(s) \in Seq(S) /\ Once(Tail(s)) /\ Head(s) \in S
         /\ Range(s) = Range(Tail(s)) \union {Head(s)}
         /\ Head(s) # STOP => Head(s) \notin Range(Tail(s))
<1>1. /\ Tail(s) \in Seq(S) /\ Len(Tail(s)) = Len(s) - 1
      /\ \A i \in 1 .. Len(s) - 1 : Tail(s)[i] = s[i + 1]
      /\ Head(s) = s[1] /\ Head(s) \in S
  BY HeadTailProperties
<1>2. Len(s) \in Nat /\ Len(s) # 0
  BY LenProperties, EmptySeq
<1>3. /\ Range(s) = {s[i] : i \in 1 .. Len(s)}
      /\ Range(Tail(s)) = {Tail(s)[i] : i \in 1 .. Len(s) - 1}
  BY <1>1, RangeEquality
<1>4. \A i \in 1 .. Len(s) - 1 : i + 1 \in 1 .. Len(s) /\ i + 1 # 1
  BY <1>2
<1>5. \A i \in 1 .. Len(s) : i = 1 \/ (i - 1 \in 1 .. Len(s) - 1
                                       /\ (i - 1) + 1 = i)
  BY <1>2
<1>6. 1 \in 1 .. Len(s)
  BY <1>2
<1>7. Range(s) = Range(Tail(s)) \union {Head(s)}
  <2>1. Range(Tail(s)) \union {Head(s)} \subseteq Range(s)
    BY <1>1, <1>3, <1>4, <1>6
  <2>2. ASSUME NEW i \in 1 .. Len(s)
        PROVE  s[i] \in Range(Tail(s)) \union {Head(s)}
    <3>1. CASE i = 1
      BY <1>1, <3>1
    <3>2. CASE i # 1
      <4>1. Tail(s)[i - 1] = s[i] /\ i - 1 \in 1 .. Len(s) - 1
        BY <1>1, <1>5, <3>2
      <4>2. QED
        BY <1>3, <4>1
    <3>3. QED
      BY <3>1, <3>2
  <2>3. QED
    BY <1>3, <2>1, <2>2
<1>8. Head(s) # STOP => Head(s) \notin Range(Tail(s))
  BY <1>1, <1>3, <1>4, <1>6 DEF Once
<1>9. Once(Tail(s))
  <2>1. SUFFICES ASSUME NEW i \in 1 .. Len(s) - 1, NEW j \in 1 .. Len(s) - 1,
                        Tail(s)[i] = Tail(s)[j], Tail(s)[i] # STOP
                 PROVE  i = j
    BY <1>1 DEF Once
  <2>2. i + 1 = j + 1
    BY <1>1, <1>4, <2>1 DEF Once
  <2>3. QED
    BY <2>2
<1>10. QED
  BY <1>1, <1>7, <1>8, <1>9

\* The empty sequence.
LEMMA NothingInEmpty ==
  Range(<<>>) = {} /\ Once(<<>>) /\ \A S : <<>> \in Seq(S)
BY DEF Range, Once

-----------------------------------------------------------------------------
(* Where the records of the sink are                                       *)

Held   == {r \in Record : fate[r] = "held"}
Stored == {r \in Record : fate[r] = "stored"}

SinkTypes ==
  /\ called \in Seq(Record) /\ Once(called)
  /\ queue \in Seq(Record \union {STOP}) /\ Once(queue)
  /\ drain \in [phase : DrainPhases, batch : Seq(Record)]
  /\ Once(drain.batch)
  /\ fate \in [Record -> Fates] /\ table \in [Group -> Nat]

\* The held records h are those of c, q and b, each in one of the three.
Split(h, c, q, b) ==
  /\ h = c \union q \union b
  /\ c \intersect q = {} /\ c \intersect b = {} /\ q \intersect b = {}

HeldInPlace ==
  /\ Split(Held, Range(called), Leftovers, Range(drain.batch))
  /\ IsFiniteSet(Held)

DownIsEmpty ==
  app = "down" => called = <<>> /\ queue = <<>> /\ drain.batch = <<>>

Sink == /\ SinkTypes /\ HeldInPlace /\ DownIsEmpty
        /\ IsFiniteSet(Stored) /\ CountsAreReal

\* Records of g in a set.
Of(records, g) == {r \in records : GroupOf[r] = g}

\* CountsAreReal in terms of the stored records.
LEMMA CountedStored ==
  CountsAreReal <=> \A g \in Group : table[g] = Cardinality(Of(Stored, g))
<1>1. \A g : Of(Stored, g) = {r \in Record : GroupOf[r] = g /\ fate[r] = "stored"}
  BY DEF Of, Stored
<1>2. QED
  BY <1>1 DEF CountsAreReal

\* A batch of held records is counted once when it is stored.
LEMMA Aggregated ==
  ASSUME Sink, NEW records \in SUBSET Held,
         table' = Aggregate(records), Stored' = Stored \union records
  PROVE  /\ table' \in [Group -> Nat]
         /\ IsFiniteSet(Stored') /\ CountsAreReal'
<1>1. IsFiniteSet(records) /\ IsFiniteSet(Stored)
  BY FS_Subset DEF Sink, HeldInPlace
<1>2. records \intersect Stored = {}
  BY DEF Held, Stored
<1>3. ASSUME NEW g \in Group
      PROVE  /\ table'[g] \in Nat
             /\ table'[g] = Cardinality(Of(Stored \union records, g))
  <2>1. /\ Of(Stored \union records, g) = Of(Stored, g) \union Of(records, g)
        /\ Of(Stored, g) \intersect Of(records, g) = {}
    BY <1>2 DEF Of
  <2>2. Of(Stored, g) \in SUBSET Stored /\ Of(records, g) \in SUBSET records
    BY DEF Of
  <2>3. IsFiniteSet(Of(Stored, g)) /\ IsFiniteSet(Of(records, g))
    BY <1>1, <2>2, FS_Subset
  <2>4. Cardinality(Of(Stored, g)) \in Nat /\ Cardinality(Of(records, g)) \in Nat
    BY <2>3, FS_CardinalityType
  <2>5. Cardinality({}) = 0
    BY FS_EmptySet
  <2>6. Cardinality(Of(Stored, g) \union Of(records, g))
          = Cardinality(Of(Stored, g)) + Cardinality(Of(records, g))
              - Cardinality({})
    BY <2>1, <2>3, FS_Union
  <2>7. Cardinality(Of(Stored, g) \union Of(records, g))
          = Cardinality(Of(Stored, g)) + Cardinality(Of(records, g))
    BY <2>4, <2>5, <2>6
  <2>8. table[g] = Cardinality(Of(Stored, g))
    BY CountedStored DEF Sink
  <2>9. table'[g] = table[g] + Cardinality(Of(records, g))
    BY DEF Aggregate, Of
  <2>10. Cardinality(Of(Stored \union records, g))
           = table[g] + Cardinality(Of(records, g))
    BY <2>1, <2>7, <2>8
  <2>11. table[g] + Cardinality(Of(records, g)) \in Nat
    BY <2>4, <2>8
  <2>12. QED
    BY <2>9, <2>10, <2>11
<1>4. table' \in [Group -> Nat]
  BY <1>3 DEF Aggregate
<1>5. IsFiniteSet(Stored')
  BY <1>1, FS_Union
<1>6. CountsAreReal'
  <2>1. ASSUME NEW g \in Group
        PROVE  table'[g] = Cardinality({r \in Record : GroupOf[r] = g
                                                      /\ fate'[r] = "stored"})
    <3>1. Of(Stored \union records, g)
            = {r \in Record : GroupOf[r] = g /\ fate'[r] = "stored"}
      BY DEF Of, Stored
    <3>2. QED
      BY <1>3, <3>1
  <2>2. QED
    BY <2>1 DEF CountsAreReal
<1>7. QED
  BY <1>4, <1>5, <1>6

\* Nothing that is stored changes, and the held are others.
LEMMA Uncounted ==
  ASSUME Sink, UNCHANGED table, Stored' = Stored
  PROVE  table' \in [Group -> Nat] /\ IsFiniteSet(Stored') /\ CountsAreReal'
<1>1. CountsAreReal'
  <2>1. ASSUME NEW g \in Group
        PROVE  table'[g] = Cardinality({r \in Record : GroupOf[r] = g
                                                      /\ fate'[r] = "stored"})
    <3>1. Of(Stored, g)
            = {r \in Record : GroupOf[r] = g /\ fate'[r] = "stored"}
      BY DEF Of, Stored
    <3>2. table[g] = Cardinality(Of(Stored, g))
      BY CountedStored DEF Sink
    <3>3. QED
      BY <3>1, <3>2
  <2>2. QED
    BY <2>1 DEF CountsAreReal
<1>2. QED
  BY <1>1 DEF Sink, SinkTypes

\* What became of records that Settle names.
LEMMA Settled ==
  ASSUME SinkTypes, NEW records \in SUBSET Record, NEW o \in Fates,
         Settle(records, o)
  PROVE  /\ fate' \in [Record -> Fates]
         /\ Held' = IF o = "held" THEN Held \union records
                    ELSE Held \ records
         /\ Stored' = IF o = "stored" THEN Stored \union records
                      ELSE Stored \ records
<1>1. fate' = [r \in Record |-> IF r \in records THEN o ELSE fate[r]]
  BY DEF Settle
<1>2. fate \in [Record -> Fates]
  BY DEF SinkTypes
<1>3. fate' \in [Record -> Fates]
  BY <1>1, <1>2
<1>4. \A r \in Record : fate'[r] = IF r \in records THEN o ELSE fate[r]
  BY <1>1
<1>5. QED
  BY <1>3, <1>4 DEF Held, Stored

\* A logging thread hands its record to the loop.
LEMMA HandedOver ==
  ASSUME Sink, NEW r \in Record, fate[r] = "new", app # "down",
         called' = Append(called, r), Settle({r}, "held"),
         UNCHANGED <<app, queue, drain, table>>
  PROVE  Sink'
<1>1. SinkTypes /\ HeldInPlace /\ DownIsEmpty
  BY DEF Sink
<1>2. /\ called' = Append(called, r) /\ Settle({r}, "held")
      /\ fate[r] = "new" /\ app # "down"
      /\ UNCHANGED <<app, queue, drain, table>>
  OBVIOUS
<1>3. r \notin Held /\ r \notin Stored
  BY <1>2 DEF Held, Stored
<1>4. r \notin Range(called)
  BY <1>1, <1>3 DEF HeldInPlace, Split
<1>5. /\ called' \in Seq(Record) /\ Once(called')
      /\ Range(called') = Range(called) \union {r}
  BY <1>1, <1>2, <1>4, Appended DEF SinkTypes
<1>6. /\ fate' \in [Record -> Fates] /\ Held' = Held \union {r}
      /\ Stored' = Stored
  <2>1. {r} \in SUBSET Record /\ "held" \in Fates
    BY DEF Fates
  <2>2. /\ fate' \in [Record -> Fates] /\ Held' = Held \union {r}
        /\ Stored' = Stored \ {r}
    BY <1>1, <1>2, <2>1, Settled
  <2>3. QED
    BY <1>3, <2>2
<1>7. table' \in [Group -> Nat] /\ IsFiniteSet(Stored') /\ CountsAreReal'
  BY <1>2, <1>6, Uncounted
<1>8. SinkTypes'
  BY <1>1, <1>2, <1>5, <1>6, <1>7 DEF SinkTypes, Once
<1>9. HeldInPlace'
  <2>1. IsFiniteSet(Held \union {r})
    BY <1>1, FS_AddElement DEF HeldInPlace
  <2>2. Split(Held \union {r}, Range(called) \union {r}, Leftovers,
              Range(drain.batch))
    BY <1>1, <1>3 DEF HeldInPlace, Split
  <2>3. Leftovers' = Leftovers /\ drain'.batch = drain.batch
    BY <1>2 DEF Leftovers
  <2>4. QED
    BY <1>5, <1>6, <2>1, <2>2, <2>3 DEF HeldInPlace, Split
<1>10. DownIsEmpty'
  BY <1>2 DEF DownIsEmpty
<1>11. QED
  BY <1>7, <1>8, <1>9, <1>10 DEF Sink

\* A logging thread comes too late: its record is in nobody's hands.
LEMMA ComesTooLate ==
  ASSUME Sink, NEW r \in Record, fate[r] = "new", Settle({r}, "lost"),
         UNCHANGED <<app, called, queue, drain, table>>
  PROVE  Sink'
<1>1. SinkTypes /\ HeldInPlace /\ DownIsEmpty
  BY DEF Sink
<1>2. r \notin Held /\ r \notin Stored
  BY DEF Held, Stored
<1>3. fate' \in [Record -> Fates] /\ Held' = Held /\ Stored' = Stored
  <2>1. {r} \in SUBSET Record /\ "lost" \in Fates
    BY DEF Fates
  <2>2. /\ fate' \in [Record -> Fates] /\ Held' = Held \ {r}
        /\ Stored' = Stored \ {r}
    BY <1>1, <2>1, Settled
  <2>3. QED
    BY <1>2, <2>2
<1>4. table' \in [Group -> Nat] /\ IsFiniteSet(Stored') /\ CountsAreReal'
  BY <1>3, Uncounted
<1>5. SinkTypes'
  BY <1>1, <1>3, <1>4 DEF SinkTypes, Once
<1>6. Leftovers' = Leftovers
  BY DEF Leftovers
<1>7. HeldInPlace'
  BY <1>1, <1>3, <1>6 DEF HeldInPlace, Split
<1>8. DownIsEmpty'
  BY <1>1 DEF DownIsEmpty
<1>9. QED
  BY <1>4, <1>5, <1>7, <1>8 DEF Sink

\* A record is logged, in time or while the sink stops.
LEMMA LogSinks ==
  ASSUME Sink, NEW r \in Record, Log(r) \/ LogLate(r)
  PROVE  Sink'
<1>1. fate[r] = "new" /\ app # "down" /\ UNCHANGED <<app, queue, drain, table>>
  BY DEF Log, LogLate, Logging
<1>2. \/ called' = Append(called, r) /\ Settle({r}, "held")
      \/ UNCHANGED called /\ Settle({r}, "lost")
  BY DEF Log, LogLate
<1>3. QED
  BY <1>1, <1>2, HandedOver, ComesTooLate

\* The loop puts it into the queue, or drops it when that is full.
LEMMA EnqueueSinks ==
  ASSUME Sink, Enqueue
  PROVE  Sink'
<1>1. SinkTypes /\ HeldInPlace /\ DownIsEmpty
  BY DEF Sink
<1>2. /\ called # <<>> /\ called' = Tail(called)
      /\ UNCHANGED <<app, drain, table>>
  BY DEF Enqueue
<1>3. PICK r \in Record :
        /\ r = Head(called) /\ r \notin Range(Tail(called))
        /\ Range(called) = Range(Tail(called)) \union {r}
        /\ Tail(called) \in Seq(Record) /\ Once(Tail(called))
  <2>1. Head(called) \in Record
    BY <1>1, <1>2, Tailed DEF SinkTypes
  <2>2. Head(called) # STOP
    BY <2>1, LifecycleAssumption
  <2>3. QED
    BY <1>1, <1>2, <2>1, <2>2, Tailed DEF SinkTypes
<1>4. r \in Held /\ r \notin Leftovers /\ r \notin Range(drain.batch)
      /\ r # STOP /\ r \notin Stored
  BY <1>1, <1>3, LifecycleAssumption DEF HeldInPlace, Split, Held, Stored
<1>5. app' # "down"
  BY <1>1, <1>2 DEF DownIsEmpty
<1>6. drain'.batch = drain.batch /\ called' = Tail(called)
  BY <1>2
<1>7. CASE QueueFull
  <2>1. Settle({r}, "dropped") /\ UNCHANGED queue
    BY <1>3, <1>7 DEF Enqueue
  <2>2. /\ fate' \in [Record -> Fates] /\ Held' = Held \ {r}
        /\ Stored' = Stored
    BY <1>1, <1>4, <2>1, Settled DEF Fates
  <2>3. table' \in [Group -> Nat] /\ IsFiniteSet(Stored') /\ CountsAreReal'
    BY <1>2, <2>2, Uncounted
  <2>4. SinkTypes'
    BY <1>1, <1>2, <1>3, <2>1, <2>2, <2>3 DEF SinkTypes, Once
  <2>5. HeldInPlace'
    <3>1. IsFiniteSet(Held \ {r})
      BY <1>1, FS_Subset DEF HeldInPlace
    <3>2. Split(Held \ {r}, Range(Tail(called)), Leftovers, Range(drain.batch))
      BY <1>1, <1>3, <1>4 DEF HeldInPlace, Split
    <3>3. Leftovers' = Leftovers
      BY <2>1 DEF Leftovers
    <3>4. QED
      BY <1>6, <2>2, <3>1, <3>2, <3>3 DEF HeldInPlace, Split
  <2>6. QED
    BY <1>5, <2>3, <2>4, <2>5 DEF Sink, DownIsEmpty
<1>8. CASE ~QueueFull
  <2>1. queue' = Append(queue, r) /\ UNCHANGED fate
    BY <1>3, <1>8 DEF Enqueue
  <2>2. r \notin Range(queue)
    BY <1>4 DEF Leftovers
  <2>3. /\ queue' \in Seq(Record \union {STOP}) /\ Once(queue')
        /\ Range(queue') = Range(queue) \union {r}
    BY <1>1, <2>1, <2>2, Appended DEF SinkTypes
  <2>4. Held' = Held /\ Stored' = Stored
    BY <2>1 DEF Held, Stored
  <2>5. table' \in [Group -> Nat] /\ IsFiniteSet(Stored') /\ CountsAreReal'
    BY <1>2, <2>4, Uncounted
  <2>6. SinkTypes'
    BY <1>1, <1>2, <1>3, <2>1, <2>3, <2>5 DEF SinkTypes, Once
  <2>7. HeldInPlace'
    <3>1. Leftovers' = Leftovers \union {r}
      BY <1>4, <2>3 DEF Leftovers
    <3>2. Split(Held, Range(Tail(called)), Leftovers \union {r},
                Range(drain.batch))
      BY <1>1, <1>3, <1>4 DEF HeldInPlace, Split
    <3>3. QED
      BY <1>1, <1>6, <2>4, <3>1, <3>2 DEF HeldInPlace, Split
  <2>8. QED
    BY <1>5, <2>5, <2>6, <2>7 DEF Sink, DownIsEmpty
<1>9. QED
  BY <1>7, <1>8

\* The drainer takes it out.
LEMMA CollectSinks ==
  ASSUME Sink, Collect
  PROVE  Sink'
<1>1. SinkTypes /\ HeldInPlace /\ DownIsEmpty
  BY DEF Sink
<1>2. /\ queue # <<>> /\ queue' = Tail(queue)
      /\ UNCHANGED <<app, called, fate, table>>
  BY DEF Collect
<1>3. PICK h \in Record \union {STOP} :
        /\ h = Head(queue)
        /\ h # STOP => h \notin Range(Tail(queue))
        /\ Range(queue) = Range(Tail(queue)) \union {h}
        /\ Tail(queue) \in Seq(Record \union {STOP}) /\ Once(Tail(queue))
  BY <1>1, <1>2, Tailed DEF SinkTypes
<1>4. app' # "down"
  BY <1>1, <1>2 DEF DownIsEmpty
<1>5. Held' = Held /\ Stored' = Stored
  BY <1>2 DEF Held, Stored
<1>6. table' \in [Group -> Nat] /\ IsFiniteSet(Stored') /\ CountsAreReal'
  BY <1>2, <1>5, Uncounted
<1>7. CASE h # STOP
  <2>1. drain' = [phase |-> "collecting", batch |-> Append(drain.batch, h)]
    BY <1>3, <1>7 DEF Collect
  <2>2. h \in Leftovers /\ Leftovers' = Leftovers \ {h} /\ h \in Record
    BY <1>2, <1>3, <1>7 DEF Leftovers
  <2>3. h \notin Range(drain.batch) /\ drain.batch \in Seq(Record)
        /\ Once(drain.batch)
    BY <1>1, <2>2 DEF HeldInPlace, Split, SinkTypes
  <2>4. /\ drain'.batch \in Seq(Record) /\ Once(drain'.batch)
        /\ Range(drain'.batch) = Range(drain.batch) \union {h}
    BY <2>1, <2>2, <2>3, Appended
  <2>5. SinkTypes'
    <3>1. drain' \in [phase : DrainPhases, batch : Seq(Record)]
      BY <2>1, <2>4 DEF DrainPhases
    <3>2. QED
      BY <1>1, <1>2, <1>3, <1>6, <2>4, <3>1 DEF SinkTypes, Once
  <2>6. HeldInPlace'
    <3>1. Split(Held, Range(called), Leftovers \ {h},
                Range(drain.batch) \union {h})
      BY <1>1, <2>2 DEF HeldInPlace, Split
    <3>2. QED
      BY <1>1, <1>2, <1>5, <2>2, <2>4, <3>1 DEF HeldInPlace, Split
  <2>7. QED
    BY <1>4, <1>6, <2>5, <2>6 DEF Sink, DownIsEmpty
<1>8. CASE h = STOP
  <2>1. drain' = [drain EXCEPT !.phase =
                    IF @ = "waiting" THEN "done" ELSE "last"]
    BY <1>3, <1>8 DEF Collect
  <2>2. /\ drain' \in [phase : DrainPhases, batch : Seq(Record)]
        /\ drain'.batch = drain.batch
    BY <1>1, <2>1 DEF SinkTypes, DrainPhases
  <2>3. Leftovers' = Leftovers
    BY <1>2, <1>3, <1>8 DEF Leftovers
  <2>4. SinkTypes'
    BY <1>1, <1>2, <1>3, <1>6, <2>2 DEF SinkTypes, Once
  <2>5. HeldInPlace'
    BY <1>1, <1>2, <1>5, <2>2, <2>3 DEF HeldInPlace, Split
  <2>6. QED
    BY <1>4, <1>6, <2>4, <2>5 DEF Sink, DownIsEmpty
<1>9. QED
  BY <1>7, <1>8

\* Only the phase of the drainer changes, or nothing of the sink.
LEMMA SameSinks ==
  ASSUME Sink, UNCHANGED <<called, queue, fate, table>>,
         drain' \in [phase : DrainPhases, batch : Seq(Record)],
         drain'.batch = drain.batch,
         app' = "down" => app = "down"
  PROVE  Sink'
<1>1. Held' = Held /\ Stored' = Stored /\ Leftovers' = Leftovers
  BY DEF Held, Stored, Leftovers
<1>2. table' \in [Group -> Nat] /\ IsFiniteSet(Stored') /\ CountsAreReal'
  BY <1>1, Uncounted
<1>3. SinkTypes'
  BY <1>2 DEF Sink, SinkTypes, Once
<1>4. HeldInPlace' /\ DownIsEmpty'
  BY <1>1 DEF Sink, HeldInPlace, Split, DownIsEmpty
<1>5. QED
  BY <1>2, <1>3, <1>4 DEF Sink

\* The batch goes to the table, or is lost with the failure.
LEMMA FlushSinks ==
  ASSUME Sink, FlushBatch
  PROVE  Sink'
<1>1. SinkTypes /\ HeldInPlace /\ DownIsEmpty
  BY DEF Sink
<1>2. /\ drain' = [phase |-> IF drain.phase = "last" THEN "done"
                             ELSE "waiting", batch |-> <<>>]
      /\ Flush(Range(drain.batch))
      /\ UNCHANGED <<app, called, queue>>
  BY DEF FlushBatch
<1>3. /\ drain' \in [phase : DrainPhases, batch : Seq(Record)]
      /\ drain'.batch = <<>> /\ Range(drain'.batch) = {} /\ Once(drain'.batch)
  BY <1>2, NothingInEmpty DEF DrainPhases
<1>4. PICK b \in SUBSET Held : b = Range(drain.batch)
  BY <1>1 DEF HeldInPlace, Split
<1>5. b \in SUBSET Record /\ b \intersect Stored = {}
  BY <1>4 DEF Held, Stored
<1>6. /\ fate' \in [Record -> Fates] /\ Held' = Held \ b
      /\ table' \in [Group -> Nat] /\ IsFiniteSet(Stored') /\ CountsAreReal'
  <2>1. CASE table' = Aggregate(b) /\ Settle(b, "stored")
    <3>1. /\ fate' \in [Record -> Fates] /\ Held' = Held \ b
          /\ Stored' = Stored \union b
      BY <1>1, <1>5, <2>1, Settled DEF Fates
    <3>2. QED
      BY <1>4, <2>1, <3>1, Aggregated
  <2>2. CASE Settle(b, "failed") /\ UNCHANGED table
    <3>1. /\ fate' \in [Record -> Fates] /\ Held' = Held \ b
          /\ Stored' = Stored
      BY <1>1, <1>5, <2>2, Settled DEF Fates
    <3>2. QED
      BY <2>2, <3>1, Uncounted
  <2>3. QED
    BY <1>2, <1>4, <2>1, <2>2 DEF Flush
<1>7. SinkTypes'
  BY <1>1, <1>2, <1>3, <1>6 DEF SinkTypes, Once
<1>8. HeldInPlace'
  <2>1. IsFiniteSet(Held \ b)
    BY <1>1, FS_Subset DEF HeldInPlace
  <2>2. Split(Held \ b, Range(called), Leftovers, {})
    BY <1>1, <1>4 DEF HeldInPlace, Split
  <2>3. Leftovers' = Leftovers
    BY <1>2 DEF Leftovers
  <2>4. QED
    BY <1>2, <1>3, <1>6, <2>1, <2>2, <2>3 DEF HeldInPlace, Split
<1>9. DownIsEmpty'
  BY <1>1, <1>2, <1>3 DEF DownIsEmpty
<1>10. QED
  BY <1>6, <1>7, <1>8, <1>9 DEF Sink

\* The daily cleanup deletes a group with its records.
LEMMA CleanupSinks ==
  ASSUME Sink, NEW g \in Group, Cleanup(g)
  PROVE  Sink'
<1>1. SinkTypes /\ HeldInPlace /\ DownIsEmpty
  BY DEF Sink
<1>2. /\ table' = [table EXCEPT ![g] = 0]
      /\ Settle(Of(Stored, g), "removed")
      /\ UNCHANGED <<app, called, queue, drain>>
  <2>1. Of(Stored, g) = {r \in Record : GroupOf[r] = g /\ fate[r] = "stored"}
    BY DEF Of, Stored
  <2>2. QED
    BY <2>1 DEF Cleanup
<1>3. Of(Stored, g) \in SUBSET Record /\ Of(Stored, g) \intersect Held = {}
  BY DEF Of, Stored, Held
<1>4. /\ fate' \in [Record -> Fates] /\ Held' = Held
      /\ Stored' = Stored \ Of(Stored, g)
  BY <1>1, <1>2, <1>3, Settled DEF Fates
<1>5. table' \in [Group -> Nat]
  BY <1>1, <1>2 DEF SinkTypes
<1>6. IsFiniteSet(Stored')
  BY <1>4, FS_Subset DEF Sink
<1>7. CountsAreReal'
  <2>1. ASSUME NEW k \in Group
        PROVE  table'[k] = Cardinality({r \in Record : GroupOf[r] = k
                                                      /\ fate'[r] = "stored"})
    <3>1. {r \in Record : GroupOf[r] = k /\ fate'[r] = "stored"}
            = Of(Stored \ Of(Stored, g), k)
      BY <1>4 DEF Of, Stored
    <3>2. CASE k = g
      <4>1. Of(Stored \ Of(Stored, g), k) = {}
        BY <3>2 DEF Of
      <4>2. table'[k] = 0
        BY <1>1, <1>2, <3>2 DEF SinkTypes
      <4>3. QED
        BY <3>1, <4>1, <4>2, FS_EmptySet
    <3>3. CASE k # g
      <4>1. Of(Stored \ Of(Stored, g), k) = Of(Stored, k)
        BY <3>3 DEF Of
      <4>2. table'[k] = table[k]
        BY <1>1, <1>2, <3>3 DEF SinkTypes
      <4>3. table[k] = Cardinality(Of(Stored, k))
        BY CountedStored DEF Sink
      <4>4. QED
        BY <3>1, <4>1, <4>2, <4>3
    <3>4. QED
      BY <3>2, <3>3
  <2>2. QED
    BY <2>1 DEF CountsAreReal
<1>8. SinkTypes' /\ DownIsEmpty'
  BY <1>1, <1>2, <1>4, <1>5 DEF SinkTypes, DownIsEmpty, Once
<1>9. HeldInPlace'
  BY <1>1, <1>2, <1>4 DEF HeldInPlace, Split, Leftovers
<1>10. QED
  BY <1>6, <1>7, <1>8, <1>9 DEF Sink

\* The drainer starts, with nothing in the queue.
LEMMA StartSinks ==
  ASSUME Sink, Start
  PROVE  Sink'
<1>1. SinkTypes /\ DownIsEmpty
  BY DEF Sink
<1>2. /\ app = "down" /\ app' = "starting"
      /\ drain' = [Off EXCEPT !.phase = "waiting"]
      /\ UNCHANGED <<called, queue, fate, table>>
  BY DEF Start, hookVars
<1>3. /\ drain' \in [phase : DrainPhases, batch : Seq(Record)]
      /\ drain'.batch = <<>>
  BY <1>2, NothingInEmpty DEF Off, DrainPhases
<1>4. drain.batch = <<>>
  BY <1>1, <1>2 DEF DownIsEmpty
<1>5. QED
  BY <1>2, <1>3, <1>4, SameSinks

\* The process perishes, and with it what it held.
LEMMA PerishSinks ==
  ASSUME Sink, Perish
  PROVE  Sink'
<1>1. SinkTypes
  BY DEF Sink
<1>2. /\ called' = <<>> /\ queue' = <<>> /\ drain' = Off
      /\ Settle(Held, "lost") /\ UNCHANGED table
  BY DEF Perish, Held
<1>3. /\ Held \in SUBSET Record /\ Held \intersect Stored = {}
      /\ "lost" \in Fates /\ "lost" # "held" /\ "lost" # "stored"
  BY DEF Held, Stored, Fates
<1>4. /\ fate' \in [Record -> Fates] /\ Held' = Held \ Held
      /\ Stored' = Stored \ Held
  BY <1>1, <1>2, <1>3, Settled
<1>5. Held' = {} /\ Stored' = Stored
  BY <1>3, <1>4
<1>6. table' \in [Group -> Nat] /\ IsFiniteSet(Stored') /\ CountsAreReal'
  BY <1>2, <1>5, Uncounted
<1>7. /\ drain' \in [phase : DrainPhases, batch : Seq(Record)]
      /\ drain'.batch = <<>>
  BY <1>2, NothingInEmpty DEF Off, DrainPhases
<1>8. SinkTypes'
  BY <1>2, <1>4, <1>6, <1>7, NothingInEmpty DEF SinkTypes, Once
<1>9. HeldInPlace'
  <2>1. Range(called') = {} /\ Leftovers' = {} /\ Range(drain'.batch) = {}
    BY <1>2, <1>7, NothingInEmpty DEF Leftovers
  <2>2. Split({}, {}, {}, {}) /\ IsFiniteSet({})
    BY FS_EmptySet DEF Split
  <2>3. QED
    BY <1>5, <2>1, <2>2 DEF HeldInPlace, Split
<1>10. DownIsEmpty'
  BY <1>2, <1>7 DEF DownIsEmpty
<1>11. QED
  BY <1>6, <1>8, <1>9, <1>10 DEF Sink

\* The sentinel is put, over the first record if the queue is full.
LEMMA StopSinks ==
  ASSUME Sink, StopSink
  PROVE  Sink'
<1>1. SinkTypes /\ HeldInPlace
  BY DEF Sink
<1>2. /\ app' = "draining" /\ UNCHANGED <<called, drain, table>>
  BY DEF StopSink
<1>3. CASE QueueFull
  <2>1. queue' = Append(Tail(queue), STOP) /\ Settle({Head(queue)}, "evicted")
    BY <1>3 DEF StopSink
  <2>2. queue # <<>>
    <3>1. Len(queue) >= QueueSize /\ QueueSize \in Nat \ {0}
      BY <1>3, LifecycleAssumption DEF QueueFull
    <3>2. Len(<<>>) = 0
      OBVIOUS
    <3>3. QED
      BY <3>1, <3>2
  <2>3. PICK h \in Record \union {STOP} :
          /\ h = Head(queue)
          /\ h # STOP => h \notin Range(Tail(queue))
          /\ Range(queue) = Range(Tail(queue)) \union {h}
          /\ Tail(queue) \in Seq(Record \union {STOP}) /\ Once(Tail(queue))
    BY <1>1, <2>2, Tailed DEF SinkTypes
  <2>4. /\ queue' \in Seq(Record \union {STOP}) /\ Once(queue')
        /\ Range(queue') = Range(Tail(queue)) \union {STOP}
    BY <2>1, <2>3, SentinelAppended
  <2>5. Leftovers' = Leftovers \ {h}
    BY <2>3, <2>4 DEF Leftovers
  <2>6. /\ fate' \in [Record -> Fates] /\ Held' = Held \ {h}
        /\ Stored' = Stored
    <3>1. CASE h = STOP
      <4>1. fate' = fate
        BY <1>1, <2>1, <2>3, <3>1, LifecycleAssumption DEF Settle, SinkTypes
      <4>2. STOP \notin Held
        BY LifecycleAssumption DEF Held
      <4>3. QED
        BY <1>1, <3>1, <4>1, <4>2 DEF Held, Stored, SinkTypes
    <3>2. CASE h # STOP
      <4>1. /\ {h} \in SUBSET Record /\ "evicted" \in Fates
            /\ "evicted" # "held" /\ "evicted" # "stored"
        BY <3>2 DEF Fates
      <4>2. h \in Leftovers
        BY <2>3, <3>2 DEF Leftovers
      <4>3. h \in Held /\ h \notin Stored
        BY <1>1, <4>2 DEF HeldInPlace, Split, Held, Stored
      <4>4. /\ fate' \in [Record -> Fates] /\ Held' = Held \ {h}
            /\ Stored' = Stored \ {h}
        BY <1>1, <2>1, <2>3, <4>1, Settled
      <4>5. QED
        BY <4>3, <4>4
    <3>3. QED
      BY <3>1, <3>2
  <2>7. table' \in [Group -> Nat] /\ IsFiniteSet(Stored') /\ CountsAreReal'
    BY <1>2, <2>6, Uncounted
  <2>8. SinkTypes'
    BY <1>1, <1>2, <2>4, <2>6, <2>7 DEF SinkTypes, Once
  <2>9. HeldInPlace'
    <3>1. IsFiniteSet(Held \ {h})
      BY <1>1, FS_Subset DEF HeldInPlace
    <3>2. h = STOP \/ h \in Leftovers
      BY <2>3 DEF Leftovers
    <3>3. STOP \notin Held /\ STOP \notin Leftovers
      BY LifecycleAssumption DEF Held, Leftovers
    <3>4. Split(Held \ {h}, Range(called), Leftovers \ {h}, Range(drain.batch))
      BY <1>1, <3>2, <3>3 DEF HeldInPlace, Split
    <3>5. QED
      BY <1>2, <2>5, <2>6, <3>1, <3>4 DEF HeldInPlace, Split
  <2>10. QED
    BY <1>2, <2>7, <2>8, <2>9 DEF Sink, DownIsEmpty
<1>4. CASE ~QueueFull
  <2>1. queue' = Append(queue, STOP) /\ UNCHANGED fate
    BY <1>4 DEF StopSink
  <2>2. /\ queue' \in Seq(Record \union {STOP}) /\ Once(queue')
        /\ Range(queue') = Range(queue) \union {STOP}
    BY <1>1, <2>1, SentinelAppended DEF SinkTypes
  <2>3. Leftovers' = Leftovers
    BY <2>2 DEF Leftovers
  <2>4. Held' = Held /\ Stored' = Stored
    BY <2>1 DEF Held, Stored
  <2>5. table' \in [Group -> Nat] /\ IsFiniteSet(Stored') /\ CountsAreReal'
    BY <1>2, <2>4, Uncounted
  <2>6. SinkTypes'
    BY <1>1, <1>2, <2>1, <2>2, <2>5 DEF SinkTypes, Once
  <2>7. HeldInPlace'
    BY <1>1, <1>2, <2>3, <2>4 DEF HeldInPlace, Split
  <2>8. QED
    BY <1>2, <2>5, <2>6, <2>7 DEF Sink, DownIsEmpty
<1>5. QED
  BY <1>3, <1>4

\* The sink has stopped: every record it had is settled.
LEMMA StoppedSinks ==
  ASSUME Sink, SinkStops
  PROVE  Sink'
<1>1. SinkTypes /\ HeldInPlace
  BY DEF Sink
<1>2. /\ called = <<>> /\ called' = <<>> /\ queue' = <<>> /\ drain' = Off
  BY DEF SinkStops
<1>3. PICK b \in SUBSET Held, q \in SUBSET Held :
        b = Range(drain.batch) /\ q = Leftovers /\ Held = b \union q
          /\ b \intersect q = {}
  BY <1>1, <1>2, NothingInEmpty DEF HeldInPlace, Split
<1>4. PICK saved \in {{}, b}, flushed \in {{}, q} :
        /\ table' = Aggregate(saved \union flushed)
        /\ fate' = [r \in Record |->
             CASE r \in saved \union flushed -> "stored"
               [] r \in b \ saved            -> "lost"
               [] r \in q \ flushed          -> "failed"
               [] OTHER                      -> fate[r]]
  <2>1. \E saved \in {{}, Range(drain.batch)}, flushed \in {{}, Leftovers} :
          /\ table' = Aggregate(saved \union flushed)
          /\ fate' = [r \in Record |->
               CASE r \in saved \union flushed        -> "stored"
                 [] r \in Range(drain.batch) \ saved -> "lost"
                 [] r \in Leftovers \ flushed        -> "failed"
                 [] OTHER                            -> fate[r]]
    BY Zenon DEF SinkStops
  <2>2. QED
    BY <1>3, <2>1
<1>5. PICK records \in SUBSET Held : records = saved \union flushed
  BY <1>3
<1>6. ASSUME NEW r \in Record
      PROVE  /\ fate'[r] \in Fates
             /\ fate'[r] # "held"
             /\ fate'[r] = "stored" <=> (r \in records \/ fate[r] = "stored")
  <2>1. fate'[r] = CASE r \in saved \union flushed -> "stored"
                     [] r \in b \ saved            -> "lost"
                     [] r \in q \ flushed          -> "failed"
                     [] OTHER                      -> fate[r]
    BY <1>4
  <2>2. fate[r] \in Fates
    BY <1>1 DEF SinkTypes
  <2>3. CASE r \in records
    <3>1. r \in saved \union flushed
      BY <1>5, <2>3
    <3>2. r \notin b \ saved /\ r \notin q \ flushed
      BY <1>3, <3>1
    <3>3. fate'[r] = "stored"
      BY <2>1, <3>1, <3>2
    <3>4. QED
      BY <2>3, <3>3 DEF Fates
  <2>4. CASE r \notin records /\ r \in Held
    <3>1. fate'[r] \in {"lost", "failed"}
      BY <1>3, <1>5, <2>1, <2>4
    <3>2. fate[r] = "held"
      BY <2>4 DEF Held
    <3>3. QED
      BY <2>4, <3>1, <3>2 DEF Fates
  <2>5. CASE r \notin Held
    <3>1. fate'[r] = fate[r] /\ r \notin records
      BY <1>3, <1>5, <2>1, <2>5
    <3>2. fate[r] # "held"
      BY <2>5 DEF Held
    <3>3. QED
      BY <2>2, <3>1, <3>2
  <2>6. QED
    BY <2>3, <2>4, <2>5
<1>7. fate' \in [Record -> Fates]
  BY <1>4, <1>6
<1>8. Held' = {} /\ Stored' = Stored \union records
  BY <1>6, <1>5 DEF Held, Stored
<1>9. table' \in [Group -> Nat] /\ IsFiniteSet(Stored') /\ CountsAreReal'
  BY <1>4, <1>5, <1>8, Aggregated
<1>10. /\ drain' \in [phase : DrainPhases, batch : Seq(Record)]
       /\ drain'.batch = <<>>
  BY <1>2, NothingInEmpty DEF Off, DrainPhases
<1>11. SinkTypes'
  BY <1>2, <1>7, <1>9, <1>10, NothingInEmpty DEF SinkTypes, Once
<1>12. HeldInPlace'
  <2>1. Range(called') = {} /\ Leftovers' = {} /\ Range(drain'.batch) = {}
    BY <1>2, <1>10, NothingInEmpty DEF Leftovers
  <2>2. Split({}, {}, {}, {}) /\ IsFiniteSet({})
    BY FS_EmptySet DEF Split
  <2>3. QED
    BY <1>8, <2>1, <2>2 DEF HeldInPlace, Split
<1>13. DownIsEmpty'
  BY <1>2, <1>10 DEF DownIsEmpty
<1>14. QED
  BY <1>9, <1>11, <1>12, <1>13 DEF Sink

\* At the start there are no records.
LEMMA SinkInit ==
  ASSUME LifeInit
  PROVE  Sink
<1>1. /\ app = "down" /\ called = <<>> /\ queue = <<>> /\ drain = Off
      /\ fate = [r \in Record |-> "new"] /\ table = [g \in Group |-> 0]
  BY DEF LifeInit
<1>2. Held = {} /\ Stored = {} /\ fate \in [Record -> Fates]
  BY <1>1 DEF Held, Stored, Fates
<1>3. drain \in [phase : DrainPhases, batch : Seq(Record)]
      /\ drain.batch = <<>>
  BY <1>1, NothingInEmpty DEF Off, DrainPhases
<1>4. SinkTypes
  BY <1>1, <1>2, <1>3, NothingInEmpty DEF SinkTypes
<1>5. HeldInPlace /\ IsFiniteSet(Stored)
  <2>1. Range(called) = {} /\ Leftovers = {} /\ Range(drain.batch) = {}
    BY <1>1, <1>3, NothingInEmpty DEF Leftovers
  <2>2. QED
    BY <1>2, <2>1, FS_EmptySet DEF HeldInPlace, Split
<1>6. CountsAreReal
  <2>1. ASSUME NEW g \in Group
        PROVE  table[g] = Cardinality(Of(Stored, g))
    <3>1. Of(Stored, g) = {} /\ table[g] = 0
      BY <1>1, <1>2 DEF Of
    <3>2. QED
      BY <3>1, FS_EmptySet
  <2>2. QED
    BY <2>1, CountedStored
<1>7. QED
  BY <1>1, <1>3, <1>4, <1>5, <1>6 DEF Sink, DownIsEmpty

\* Every step of the process.
LEMMA LifeSinks ==
  ASSUME Sink, LifeStep
  PROVE  Sink'
<1>1. ASSUME UNCHANGED sinkVars, app' = "down" => app = "down"
      PROVE  Sink'
  <2>1. UNCHANGED <<called, queue, drain, fate, table>>
    BY <1>1 DEF sinkVars
  <2>2. drain \in [phase : DrainPhases, batch : Seq(Record)]
    BY DEF Sink, SinkTypes
  <2>3. QED
    BY <1>1, <2>1, <2>2, SameSinks
<1>2. CASE Unhook \/ Hook \/ Beat \/ Stop \/ EndHeartbeat
  BY <1>1, <1>2 DEF Unhook, Hook, Beat, Stop, EndHeartbeat
<1>3. ASSUME NEW u \in Update, Send(u) \/ Push(u)
      PROVE  Sink'
  BY <1>1, <1>3 DEF Send, Push
<1>4. CASE WindowCloses
  <2>1. /\ drain' = [drain EXCEPT !.phase = "flushing"]
        /\ UNCHANGED <<app, called, queue, fate, table>>
    BY <1>4 DEF WindowCloses
  <2>2. drain \in [phase : DrainPhases, batch : Seq(Record)]
    BY DEF Sink, SinkTypes
  <2>3. /\ drain' \in [phase : DrainPhases, batch : Seq(Record)]
        /\ drain'.batch = drain.batch
    BY <2>1, <2>2 DEF DrainPhases
  <2>4. QED
    BY <2>1, <2>3, SameSinks
<1>5. QED
  BY <1>2, <1>3, <1>4, StartSinks, PerishSinks, StopSinks, StoppedSinks,
     EnqueueSinks, CollectSinks, FlushSinks, LogSinks, CleanupSinks
     DEF LifeStep, SinkStep

\* Every step, those of the panel included.
LEMMA SinkKept ==
  ASSUME Sink, [Next]_vars
  PROVE  Sink'
<1>1. ASSUME UNCHANGED <<app, sinkVars>>
      PROVE  Sink'
  <2>1. UNCHANGED <<app, called, queue, drain, fate, table>>
    BY <1>1 DEF sinkVars
  <2>2. drain \in [phase : DrainPhases, batch : Seq(Record)]
    BY DEF Sink, SinkTypes
  <2>3. QED
    BY <2>1, <2>2, SameSinks
<1>2. ASSUME NEW q \in Request, RequestStep(q)
      PROVE  UNCHANGED lifeVars
  BY <1>2 DEF RequestStep, Ask, Enter, Read, Finish
<1>3. Tick => UNCHANGED <<app, sinkVars>>
  BY DEF Tick
<1>4. UNCHANGED lifeVars => UNCHANGED <<app, sinkVars>>
  BY DEF lifeVars
<1>5. UNCHANGED vars => UNCHANGED lifeVars
  BY DEF vars
<1>6. QED
  BY <1>1, <1>2, <1>3, <1>4, <1>5, LifeSinks DEF Next

\* The counter of every row is the number of records behind it, for any
\* records, fingerprints, capacities of queue and batch, and restarts.
THEOREM CountsAreRealHolds == Spec => []CountsAreReal
<1>1. Init => Sink
  BY SinkInit DEF Init
<1>2. Sink /\ [Next]_vars => Sink'
  BY SinkKept
<1>3. Sink => CountsAreReal
  BY DEF Sink
<1>4. QED
  BY <1>1, <1>2, <1>3, PTL DEF Spec

\* When the process is gone, no record is held any more: the sentinel, the
\* drainer and the rest of the queue leave none behind.
THEOREM NothingHeldWhenDownHolds == Spec => []NothingHeldWhenDown
<1>1. Init => Sink
  BY SinkInit DEF Init
<1>2. Sink /\ [Next]_vars => Sink'
  BY SinkKept
<1>3. Sink => NothingHeldWhenDown
  <2> SUFFICES ASSUME Sink, app = "down"
               PROVE  Held = {}
    BY DEF NothingHeldWhenDown, Held
  <2>1. called = <<>> /\ queue = <<>> /\ drain.batch = <<>>
    BY DEF Sink, DownIsEmpty
  <2>2. Range(called) = {} /\ Leftovers = {} /\ Range(drain.batch) = {}
    BY <2>1, NothingInEmpty DEF Leftovers
  <2>3. QED
    BY <2>2 DEF Sink, HeldInPlace, Split
<1>4. QED
  BY <1>1, <1>2, <1>3, PTL DEF Spec

-----------------------------------------------------------------------------
(* How old what is shown can be                                            *)

EntryType   == [at : (0 .. MaxAge) \union {Absent}, result : Result]
RequestType == [phase : RequestPhases, result : Result, since : 0 .. LoadTimeout]

PanelTypes ==
  /\ cache \in [Subject -> EntryType]
  /\ req \in [Request -> RequestType]
  /\ silent \in 0 .. MaxAge
  /\ beat \in (0 .. HeartbeatTtl) \union {Absent}

Window(stale) == IF stale THEN StaleTtl + LoadTimeout ELSE Max({Ttl, LoadTimeout})

\* With the process silent for z: what a result says of it was so when the
\* data were read, old ticks ago.
Right(result, z) == result.what = "healthy" => z <= HealthyAge + result.old

\* The data were read after the time that the age belongs to.
Within(result, age, z) ==
  /\ result.old <= age
  /\ ~result.stale
  /\ Right(result, z)

EntryFits(entry, z) == entry.at # Absent => Within(entry.result, entry.at, z)

RequestFits(r, z) ==
  /\ r.phase \in {"idle", "waiting"} => r.result = Bad(0)
  /\ IF r.phase = "shown"
     THEN r.result.old <= Window(r.result.stale) /\ Right(r.result, z)
     ELSE Within(r.result, r.since, z)

BeatFits(b, z) == b # Absent => z <= b

Ages ==
  /\ PanelTypes
  /\ \A s \in Subject : EntryFits(cache[s], silent)
  /\ \A q \in Request : RequestFits(req[q], silent)
  /\ BeatFits(beat, silent)

\* The windows are numbers, and a failure's is no longer than a load.
LEMMA Numbers ==
  /\ HealthyAge \in Nat /\ Ttl \in Nat /\ StaleTtl \in Nat /\ NegativeTtl \in Nat
  /\ LoadTimeout \in Nat /\ HeartbeatTtl \in Nat /\ MaxAge \in Nat
  /\ NegativeTtl <= LoadTimeout /\ LoadTimeout <= MaxAge
  /\ Absent \notin Nat
<1>1. /\ HealthyAge \in Nat /\ Ttl \in Nat /\ StaleTtl \in Nat
      /\ NegativeTtl \in Nat /\ LoadTimeout \in Nat /\ HeartbeatTtl \in Nat
      /\ NegativeTtl <= LoadTimeout /\ Absent \notin Nat
  BY PanelAssumption, LifecycleAssumption
<1>2. MaxAge \in Nat /\ LoadTimeout <= MaxAge
  BY <1>1 DEF MaxAge
<1>3. QED
  BY <1>1, <1>2

\* The longest that a fresh result is shown.
LEMMA LongestFresh ==
  LET longest == Max({Ttl, LoadTimeout})
  IN longest \in Nat /\ Ttl <= longest /\ LoadTimeout <= longest
<1>1. Ttl \in Nat /\ LoadTimeout \in Nat
  BY Numbers
<1>2. \E x \in {Ttl, LoadTimeout} : \A y \in {Ttl, LoadTimeout} : x >= y
  <2>1. CASE Ttl >= LoadTimeout
    BY <1>1, <2>1
  <2>2. CASE LoadTimeout >= Ttl
    BY <1>1, <2>2
  <2>3. QED
    BY <1>1, <2>1, <2>2
<1>3. /\ Max({Ttl, LoadTimeout}) \in {Ttl, LoadTimeout}
      /\ \A y \in {Ttl, LoadTimeout} : Max({Ttl, LoadTimeout}) >= y
  BY <1>2 DEF Max
<1>4. QED
  BY <1>1, <1>3

\* A tick makes an age one more, up to MaxAge.
LEMMA OneOlder ==
  ASSUME NEW age \in 0 .. MaxAge
  PROVE  Older(age) = IF age + 1 <= MaxAge THEN age + 1 ELSE MaxAge
<1>1. MaxAge \in Nat /\ age + 1 \in Nat
  BY Numbers
<1>2. \E x \in {age + 1, MaxAge} : \A y \in {age + 1, MaxAge} : x =< y
  <2>1. CASE age + 1 <= MaxAge
    BY <1>1, <2>1
  <2>2. CASE MaxAge <= age + 1
    BY <1>1, <2>2
  <2>3. QED
    BY <1>1, <2>1, <2>2
<1>3. /\ Older(age) \in {age + 1, MaxAge}
      /\ \A y \in {age + 1, MaxAge} : Older(age) =< y
  BY <1>2 DEF Older, Min
<1>4. QED
  BY <1>1, <1>3

\* A tick adds one, up to the cap.
LEMMA OlderType ==
  ASSUME NEW age \in 0 .. MaxAge
  PROVE  Older(age) \in 0 .. MaxAge /\ age <= Older(age) /\ Older(age) <= age + 1
BY OneOlder, Numbers

\* It keeps the order.
LEMMA OlderMonotone ==
  ASSUME NEW a \in 0 .. MaxAge, NEW b \in 0 .. MaxAge, a <= b
  PROVE  Older(a) <= Older(b)
BY OneOlder, Numbers

\* Both the silence and the data get older.
LEMMA RightLater ==
  ASSUME NEW result \in Result, NEW z \in 0 .. MaxAge, Right(result, z),
         NEW y \in {0, Older(z)}
  PROVE  Right([result EXCEPT !.old = Older(@)], y)
<1>1. result.old \in 0 .. MaxAge /\ HealthyAge \in Nat /\ MaxAge \in Nat
  BY Numbers DEF Result
<1>2. SUFFICES ASSUME result.what = "healthy"
               PROVE  y <= HealthyAge + Older(result.old)
  BY DEF Right, Result
<1>3. z <= HealthyAge + result.old
  BY <1>2 DEF Right
<1>4. /\ Older(result.old) = IF result.old + 1 <= MaxAge THEN result.old + 1
                             ELSE MaxAge
      /\ Older(z) = IF z + 1 <= MaxAge THEN z + 1 ELSE MaxAge
  BY <1>1, OneOlder
<1>5. QED
  BY <1>1, <1>3, <1>4

\* No silence grows but in a tick.
LEMMA FitsSooner ==
  ASSUME NEW y \in Nat, NEW z \in Nat, y <= z
  PROVE  /\ \A result \in Result : Right(result, z) => Right(result, y)
         /\ \A e \in EntryType : EntryFits(e, z) => EntryFits(e, y)
         /\ \A r \in RequestType : RequestFits(r, z) => RequestFits(r, y)
<1>1. ASSUME NEW result \in Result, Right(result, z)
      PROVE  Right(result, y)
  <2>1. result.old \in Nat /\ HealthyAge \in Nat
    BY Numbers DEF Result
  <2>2. QED
    BY <1>1, <2>1 DEF Right
<1>2. /\ \A e \in EntryType : e.result \in Result
      /\ \A r \in RequestType : r.result \in Result
  BY DEF EntryType, RequestType
<1>3. QED
  BY <1>1, <1>2 DEF EntryFits, RequestFits, Within

\* Steps of the process, while something beats.
LEMMA LifeAges ==
  ASSUME Ages, LifeStep, Alive, UNCHANGED <<cache, holder, req>>
  PROVE  Ages'
<1>1. PanelTypes /\ silent \in Nat /\ BeatFits(beat, silent)
  BY Numbers DEF Ages, PanelTypes
<1>2. silent' = (IF Beating' THEN 0 ELSE silent)
  BY DEF Alive
<1>3. silent' \in 0 .. MaxAge /\ silent' <= silent
  BY <1>1, <1>2, Numbers DEF PanelTypes
<1>4. \/ beat' \in {beat, Absent}
      \/ beat' = 0 /\ silent' = 0
  <2>1. CASE Beat
    <3>1. beat' = 0 /\ Beating'
      BY <2>1 DEF Beat, Beating
    <3>2. QED
      BY <1>2, <3>1
  <2>2. CASE EndHeartbeat
    BY <2>2 DEF EndHeartbeat
  <2>3. CASE Start \/ Unhook \/ Hook \/ Perish \/ Stop \/ StopSink \/ SinkStops
    BY <2>3 DEF Start, Unhook, Hook, Perish, Stop, StopSink, SinkStops
  <2>4. CASE SinkStep
    BY <2>4 DEF SinkStep, Enqueue, Collect, WindowCloses, FlushBatch
  <2>5. ASSUME NEW r \in Record, Log(r) \/ LogLate(r)
        PROVE  beat' = beat
    BY <2>5 DEF Log, LogLate
  <2>6. ASSUME NEW g \in Group, Cleanup(g)
        PROVE  beat' = beat
    BY <2>6 DEF Cleanup
  <2>7. ASSUME NEW u \in Update, Send(u) \/ Push(u)
        PROVE  beat' = beat
    BY <2>7 DEF Send, Push
  <2>8. QED
    BY <2>1, <2>2, <2>3, <2>4, <2>5, <2>6, <2>7 DEF LifeStep
<1>5. beat' \in (0 .. HeartbeatTtl) \union {Absent} /\ BeatFits(beat', silent')
  <2>1. CASE beat' = beat
    BY <1>1, <1>3, <2>1, Numbers DEF PanelTypes, BeatFits
  <2>2. CASE beat' = Absent
    BY <2>2 DEF BeatFits
  <2>3. CASE beat' = 0 /\ silent' = 0
    BY <2>3, Numbers DEF BeatFits
  <2>4. QED
    BY <1>4, <2>1, <2>2, <2>3
<1>6. PanelTypes'
  BY <1>1, <1>3, <1>5 DEF PanelTypes
<1>7. /\ \A s \in Subject : EntryFits(cache[s], silent')
      /\ \A q \in Request : RequestFits(req[q], silent')
  <2>1. /\ \A e \in EntryType : EntryFits(e, silent) => EntryFits(e, silent')
        /\ \A r \in RequestType : RequestFits(r, silent) => RequestFits(r, silent')
    BY <1>1, <1>3, FitsSooner, Numbers
  <2>2. QED
    BY <1>1, <2>1 DEF Ages, PanelTypes
<1>8. QED
  BY <1>5, <1>6, <1>7 DEF Ages

\* A step of one request, which keeps the cache or stores an entry.
LEMMA OneRequest ==
  ASSUME Ages, NEW q \in Request,
         NEW r \in RequestType, RequestFits(r, silent),
         req' = [req EXCEPT ![q] = r],
         NEW s \in Subject, NEW e \in EntryType, EntryFits(e, silent),
         cache' \in {cache, [cache EXCEPT ![s] = e]},
         UNCHANGED <<silent, beat>>
  PROVE  Ages'
<1>1. PanelTypes
  BY DEF Ages
<1>2. req' \in [Request -> RequestType]
      /\ \A p \in Request : req'[p] = IF p = q THEN r ELSE req[p]
  BY <1>1 DEF PanelTypes
<1>3. cache' \in [Subject -> EntryType]
      /\ \A t \in Subject : cache'[t] \in {cache[t], e}
                            /\ (cache'[t] # cache[t] => cache'[t] = e)
  BY <1>1 DEF PanelTypes
<1>4. PanelTypes'
  BY <1>1, <1>2, <1>3 DEF PanelTypes
<1>5. /\ \A t \in Subject : EntryFits(cache'[t], silent)
      /\ \A p \in Request : RequestFits(req'[p], silent)
  BY <1>2, <1>3 DEF Ages
<1>6. QED
  BY <1>4, <1>5 DEF Ages

\* A failure of now, and no request, fit whatever the silence.
LEMMA BadFits ==
  /\ Bad(0) \in Result
  /\ NoRequest \in RequestType
  /\ \A z : Within(Bad(0), 0, z)
<1>1. Bad(0) \in Result
  BY Numbers DEF Bad, Result, Whats
<1>2. NoRequest \in RequestType
  BY <1>1, Numbers DEF NoRequest, RequestType, RequestPhases
<1>3. \A z : Within(Bad(0), 0, z)
  BY DEF Bad, Within, Right
<1>4. QED
  BY <1>1, <1>2, <1>3

\* What get returns out of the cache is within the window of its kind.
LEMMA FreshFits ==
  ASSUME Ages, NEW s \in Subject, Fresh(s)
  PROVE  LET shown == [NoRequest EXCEPT !.phase = "shown",
                                        !.result = cache[s].result]
         IN shown \in RequestType /\ RequestFits(shown, silent)
<1>1. cache[s] \in EntryType /\ EntryFits(cache[s], silent) /\ cache[s].at # Absent
  BY DEF Ages, PanelTypes, Fresh
<1>2. cache[s].at \in Nat /\ cache[s].result \in Result
  BY <1>1, Numbers DEF EntryType
<1>3. /\ cache[s].result.old \in Nat /\ cache[s].result.old <= cache[s].at
      /\ ~cache[s].result.stale /\ Right(cache[s].result, silent)
  BY <1>1, <1>2, Numbers DEF EntryFits, Within, Result
<1>4. cache[s].at <= Max({Ttl, LoadTimeout})
  <2>1. cache[s].at <= Ttl \/ cache[s].at <= NegativeTtl
    BY DEF Fresh
  <2>2. QED
    BY <1>2, <2>1, LongestFresh, Numbers
<1>5. cache[s].result.old <= Window(cache[s].result.stale)
  BY <1>2, <1>3, <1>4, LongestFresh DEF Window
<1>6. DEFINE shown == [NoRequest EXCEPT !.phase = "shown",
                                        !.result = cache[s].result]
<1>7. shown.phase = "shown" /\ shown.result = cache[s].result
  BY DEF NoRequest
<1>8. shown \in RequestType
  BY <1>2, BadFits DEF RequestType, RequestPhases
<1>9. QED
  BY <1>3, <1>5, <1>7, <1>8 DEF RequestFits

\* A request looks at the cache without the lock.
LEMMA AskAges ==
  ASSUME Ages, NEW q \in Request, Ask(q)
  PROVE  Ages'
<1>1. /\ UNCHANGED <<cache, silent, beat>> /\ SubjectOf[q] \in Subject
  BY PanelAssumption DEF Ask, lifeVars
<1>2. cache[SubjectOf[q]] \in EntryType /\ EntryFits(cache[SubjectOf[q]], silent)
  BY <1>1 DEF Ages, PanelTypes
<1>3. PICK r \in RequestType : RequestFits(r, silent) /\ req' = [req EXCEPT ![q] = r]
  <2>1. CASE Fresh(SubjectOf[q])
    <3>1. Returns(q, cache[SubjectOf[q]].result)
      BY <2>1 DEF Ask
    <3>2. QED
      BY <1>1, <2>1, <3>1, FreshFits DEF Returns
  <2>2. CASE ~Fresh(SubjectOf[q])
    <3>1. DEFINE r == [NoRequest EXCEPT !.phase = "waiting"]
    <3>2. req' = [req EXCEPT ![q] = r]
      BY <2>2 DEF Ask
    <3>3. r \in RequestType
      BY BadFits DEF RequestType, RequestPhases
    <3>4. r.phase = "waiting" /\ r.result = Bad(0) /\ r.since = 0
      BY DEF NoRequest
    <3>5. RequestFits(r, silent)
      BY <3>4, BadFits DEF RequestFits
    <3>6. QED
      BY <3>2, <3>3, <3>5
  <2>3. QED
    BY <2>1, <2>2
<1>4. QED
  BY <1>1, <1>2, <1>3, OneRequest

\* It looks again with the lock.
LEMMA EnterAges ==
  ASSUME Ages, NEW q \in Request, Enter(q)
  PROVE  Ages'
<1>1. /\ UNCHANGED <<cache, silent, beat>> /\ SubjectOf[q] \in Subject
  BY PanelAssumption DEF Enter, lifeVars
<1>2. cache[SubjectOf[q]] \in EntryType /\ EntryFits(cache[SubjectOf[q]], silent)
  BY <1>1 DEF Ages, PanelTypes
<1>3. PICK r \in RequestType : RequestFits(r, silent) /\ req' = [req EXCEPT ![q] = r]
  <2>1. CASE Fresh(SubjectOf[q])
    <3>1. Returns(q, cache[SubjectOf[q]].result)
      BY <2>1 DEF Enter
    <3>2. QED
      BY <1>1, <2>1, <3>1, FreshFits DEF Returns
  <2>2. CASE ~Fresh(SubjectOf[q])
    <3>1. DEFINE r == [req[q] EXCEPT !.phase = "loading"]
    <3>2. req' = [req EXCEPT ![q] = r]
      BY <2>2 DEF Enter
    <3>3. /\ req[q] \in RequestType /\ RequestFits(req[q], silent)
          /\ req[q].phase = "waiting"
      BY DEF Ages, PanelTypes, Enter
    <3>4. r \in RequestType
      BY <3>3 DEF RequestType, RequestPhases
    <3>5. r.phase = "loading" /\ r.result = req[q].result /\ r.since = req[q].since
      BY <3>3 DEF RequestType
    <3>6. RequestFits(r, silent)
      BY <3>3, <3>5 DEF RequestFits
    <3>7. QED
      BY <3>2, <3>4, <3>6
  <2>3. QED
    BY <2>1, <2>2
<1>4. QED
  BY <1>1, <1>2, <1>3, OneRequest

\* A process that is read as healthy has beaten within HealthyAge.
LEMMA TruthFits ==
  ASSUME Ages, NEW s \in Subject
  PROVE  Truth(s) \in Result /\ Within(Truth(s), 0, silent)
<1>1. /\ beat \in (0 .. HeartbeatTtl) \union {Absent} /\ silent \in Nat
      /\ BeatFits(beat, silent)
  BY Numbers DEF Ages, PanelTypes
<1>2. Status \in {"missing", "healthy", "stale"}
  BY DEF Status
<1>3. Status = "healthy" => silent <= HealthyAge
  <2>1. SUFFICES ASSUME Status = "healthy"
                 PROVE  silent <= HealthyAge
    OBVIOUS
  <2>2. beat # Absent /\ beat <= HealthyAge
    BY <2>1 DEF Status
  <2>3. beat \in Nat /\ silent <= beat
    BY <1>1, <2>2, Numbers DEF BeatFits
  <2>4. QED
    BY <1>1, <2>2, <2>3, Numbers
<1>4. CASE s = "runtime"
  <2>1. Truth(s) = Good(Status, 0)
    BY <1>4 DEF Truth
  <2>2. Good(Status, 0) \in Result
    BY <1>2, Numbers DEF Good, Result, Whats
  <2>3. Within(Good(Status, 0), 0, silent)
    BY <1>1, <1>3, Numbers DEF Good, Within, Right
  <2>4. QED
    BY <2>1, <2>2, <2>3
<1>5. CASE s # "runtime"
  <2>1. Truth(s) \in {Good("found", 0), Bad(0)}
    BY <1>5 DEF Truth
  <2>2. Good("found", 0) \in Result /\ Within(Good("found", 0), 0, silent)
    BY Numbers DEF Good, Result, Whats, Within, Right
  <2>3. QED
    BY <2>1, <2>2, BadFits
<1>6. QED
  BY <1>4, <1>5

\* It reads from the source.
LEMMA ReadAges ==
  ASSUME Ages, NEW q \in Request, Read(q)
  PROVE  Ages'
<1>1. /\ UNCHANGED <<cache, silent, beat>> /\ SubjectOf[q] \in Subject
  BY PanelAssumption DEF Read, lifeVars
<1>2. cache[SubjectOf[q]] \in EntryType /\ EntryFits(cache[SubjectOf[q]], silent)
  BY <1>1 DEF Ages, PanelTypes
<1>3. PICK result \in {Truth(SubjectOf[q]), Bad(0)} :
        req' = [req EXCEPT ![q].phase = "read", ![q].result = result]
  BY DEF Read
<1>4. result \in Result /\ Within(result, 0, silent)
  BY <1>1, <1>3, TruthFits, BadFits
<1>5. DEFINE r == [req[q] EXCEPT !.phase = "read", !.result = result]
<1>6. req[q] \in RequestType
  BY DEF Ages, PanelTypes
<1>7. req' = [req EXCEPT ![q] = r]
  BY <1>3, <1>6 DEF RequestType, Ages, PanelTypes
<1>8. r \in RequestType
  BY <1>4, <1>6 DEF RequestType, RequestPhases
<1>9. r.phase = "read" /\ r.result = result /\ r.since = req[q].since
      /\ req[q].since \in Nat
  BY <1>6, Numbers DEF RequestType
<1>10. RequestFits(r, silent)
  <2>1. result.old \in Nat /\ result.old <= 0
    BY <1>4, Numbers DEF Result, Within
  <2>2. Within(result, req[q].since, silent)
    BY <1>4, <1>9, <2>1 DEF Within
  <2>3. QED
    BY <1>9, <2>2 DEF RequestFits
<1>11. QED
  BY <1>1, <1>2, <1>7, <1>8, <1>10, OneRequest

\* It stores what it read, or what covers for a failure, and shows it.
LEMMA FinishAges ==
  ASSUME Ages, NEW q \in Request, Finish(q)
  PROVE  Ages'
<1> DEFINE s == SubjectOf[q]
           result == req[q].result
           shown(x) == [NoRequest EXCEPT !.phase = "shown", !.result = x]
<1>1. /\ UNCHANGED <<silent, beat>> /\ s \in Subject
  BY PanelAssumption DEF Finish, lifeVars
<1>2. cache[s] \in EntryType /\ EntryFits(cache[s], silent)
  BY <1>1 DEF Ages, PanelTypes
<1>3. /\ req[q] \in RequestType /\ RequestFits(req[q], silent)
      /\ req[q].phase = "read"
  BY DEF Ages, PanelTypes, Finish
<1>4. /\ result \in Result /\ result.old \in Nat
      /\ req[q].since \in 0 .. LoadTimeout
      /\ Within(result, req[q].since, silent)
  BY <1>3, Numbers DEF RequestFits, RequestType, Result
<1>5. ASSUME NEW x \in Result
      PROVE  /\ shown(x) \in RequestType
             /\ shown(x).phase = "shown" /\ shown(x).result = x
  BY BadFits DEF NoRequest, RequestType, RequestPhases
<1>6. CASE ~result.ok /\ Covers(s, q)
  <2> DEFINE x == [cache[s].result EXCEPT !.stale = TRUE]
  <2>1. req' = [req EXCEPT ![q] = shown(x)] /\ cache' = cache
    BY <1>6 DEF Finish, Returns
  <2>2. /\ cache[s].at # Absent /\ cache[s].at - req[q].since <= StaleTtl
        /\ cache[s].at \in Nat /\ cache[s].result \in Result
        /\ Within(cache[s].result, cache[s].at, silent)
    BY <1>2, <1>6, Numbers DEF Covers, EntryType, EntryFits
  <2>3. /\ x \in Result /\ x.old = cache[s].result.old
        /\ x.what = cache[s].result.what /\ x.stale = TRUE
    BY <2>2 DEF Result
  <2>4. cache[s].result.old \in Nat /\ cache[s].result.old <= cache[s].at
    BY <2>2, Numbers DEF Result, Within
  <2>5. x.old <= StaleTtl + LoadTimeout
    BY <1>4, <2>2, <2>3, <2>4, Numbers
  <2>6. Right(x, silent)
    BY <2>2, <2>3 DEF Within, Right
  <2>7. RequestFits(shown(x), silent)
    BY <1>5, <2>3, <2>5, <2>6 DEF RequestFits, Window
  <2>8. shown(x) \in RequestType
    BY <1>5, <2>3
  <2>9. QED
    BY <1>1, <1>2, <2>1, <2>7, <2>8, OneRequest
<1>7. CASE ~(~result.ok /\ Covers(s, q))
  <2> DEFINE e == [at |-> Stamp(q), result |-> result]
  <2>1. req' = [req EXCEPT ![q] = shown(result)]
        /\ cache' = [cache EXCEPT ![s] = e]
    BY <1>7 DEF Finish, Returns
  <2>2. req[q].since \in 0 .. MaxAge
    BY <1>4, Numbers
  <2>3. e \in EntryType /\ EntryFits(e, silent)
    BY <1>4, <2>2 DEF EntryType, EntryFits, Stamp
  <2>4. result.old <= LoadTimeout /\ ~result.stale /\ Right(result, silent)
    BY <1>4, Numbers DEF Within
  <2>5. result.old <= Window(result.stale)
    BY <1>4, <2>4, LongestFresh, Numbers DEF Window
  <2>6. RequestFits(shown(result), silent) /\ shown(result) \in RequestType
    BY <1>4, <1>5, <2>4, <2>5 DEF RequestFits
  <2>7. QED
    BY <1>1, <2>1, <2>3, <2>6, OneRequest
<1>8. QED
  BY <1>6, <1>7

\* An entry that is one tick older still fits.
LEMMA OlderEntry ==
  ASSUME NEW e \in EntryType, NEW z \in 0 .. MaxAge, EntryFits(e, z),
         NEW y \in {0, Older(z)}
  PROVE  LET later == IF e.at = Absent THEN e
                      ELSE [e EXCEPT !.at = Older(@), !.result.old = Older(@)]
         IN later \in EntryType /\ EntryFits(later, y)
<1>1. CASE e.at = Absent
  BY <1>1 DEF EntryFits
<1>2. CASE e.at # Absent
  <2> DEFINE later == [e EXCEPT !.at = Older(@), !.result.old = Older(@)]
             data  == [e.result EXCEPT !.old = Older(@)]
  <2>1. /\ e.at \in 0 .. MaxAge /\ e.result \in Result
        /\ e.result.old \in 0 .. MaxAge
        /\ e.result.old <= e.at /\ ~e.result.stale /\ Right(e.result, z)
    BY <1>2 DEF EntryType, Result, EntryFits, Within
  <2>2. /\ later = [e EXCEPT !.at = Older(e.at), !.result = data]
        /\ later.at = Older(e.at) /\ later.result = data
    BY <2>1 DEF EntryType, Result
  <2>3. Older(e.at) \in 0 .. MaxAge /\ Older(e.result.old) \in 0 .. MaxAge
        /\ Older(e.result.old) <= Older(e.at)
    BY <2>1, OlderType, OlderMonotone
  <2>4. data \in Result /\ data.old = Older(e.result.old) /\ ~data.stale
    BY <2>1, <2>3 DEF Result
  <2>5. Right(data, y)
    BY <2>1, RightLater
  <2>6. later \in EntryType
    BY <2>2, <2>3, <2>4 DEF EntryType
  <2>7. EntryFits(later, y)
    BY <2>2, <2>3, <2>4, <2>5 DEF EntryFits, Within
  <2>8. QED
    BY <1>2, <2>6, <2>7
<1>3. QED
  BY <1>1, <1>2

\* So does a request, whose load has time left.
LEMMA OlderRequest ==
  ASSUME NEW r \in RequestType, NEW z \in 0 .. MaxAge, RequestFits(r, z),
         NEW y \in {0, Older(z)},
         r.phase \in {"loading", "read"} => r.since < LoadTimeout
  PROVE  LET later ==
               IF r.phase \in {"loading", "read"}
               THEN [r EXCEPT !.since = @ + 1, !.result.old = Older(@)]
               ELSE IF r.phase = "shown" THEN NoRequest ELSE r
         IN later \in RequestType /\ RequestFits(later, y)
<1>1. CASE r.phase \in {"loading", "read"}
  <2> DEFINE later == [r EXCEPT !.since = @ + 1, !.result.old = Older(@)]
             data  == [r.result EXCEPT !.old = Older(@)]
  <2>1. /\ r.since \in 0 .. LoadTimeout /\ r.result \in Result
        /\ r.result.old \in 0 .. MaxAge /\ r.phase \in RequestPhases
        /\ r.since < LoadTimeout
    BY <1>1 DEF RequestType, Result
  <2>2. r.result.old <= r.since /\ ~r.result.stale /\ Right(r.result, z)
    BY <1>1 DEF RequestFits, Within
  <2>3. /\ later = [r EXCEPT !.since = r.since + 1, !.result = data]
        /\ later.since = r.since + 1 /\ later.result = data
        /\ later.phase = r.phase
    BY <2>1 DEF RequestType, Result
  <2>4. Older(r.result.old) \in 0 .. MaxAge
        /\ Older(r.result.old) <= r.result.old + 1
    BY <2>1, OlderType
  <2>5. data \in Result /\ data.old = Older(r.result.old) /\ ~data.stale
    BY <2>1, <2>2, <2>4 DEF Result
  <2>6. Right(data, y)
    BY <2>1, <2>2, RightLater
  <2>7. r.since + 1 \in 0 .. LoadTimeout /\ data.old <= r.since + 1
    BY <2>1, <2>2, <2>4, <2>5, Numbers
  <2>8. later \in RequestType
    BY <2>1, <2>3, <2>5, <2>7 DEF RequestType
  <2>9. RequestFits(later, y)
    BY <1>1, <2>3, <2>5, <2>6, <2>7 DEF RequestFits, Within
  <2>10. QED
    BY <1>1, <2>8, <2>9
<1>2. CASE r.phase = "shown"
  <2>1. NoRequest.phase = "idle" /\ NoRequest.result = Bad(0)
        /\ NoRequest.since = 0
    BY DEF NoRequest
  <2>2. RequestFits(NoRequest, y) /\ NoRequest \in RequestType
    BY <2>1, BadFits DEF RequestFits
  <2>3. QED
    BY <1>2, <2>2
<1>3. CASE r.phase \in {"idle", "waiting"}
  <2>1. Right(Bad(0), y)
    BY DEF Bad, Right
  <2>2. RequestFits(r, y)
    BY <1>3, <2>1 DEF RequestFits, Within
  <2>3. QED
    BY <1>3, <2>2
<1>4. QED
  BY <1>1, <1>2, <1>3 DEF RequestType, RequestPhases

\* A tick makes all of them older, and the silence with them.
LEMMA TickAges ==
  ASSUME Ages, Tick
  PROVE  Ages'
<1>1. PanelTypes /\ silent \in 0 .. MaxAge /\ BeatFits(beat, silent)
  BY DEF Ages, PanelTypes
<1>2. silent' \in {0, Older(silent)}
  BY DEF Tick
<1>3. silent' \in 0 .. MaxAge /\ silent' <= silent + 1
  BY <1>1, <1>2, OlderType, Numbers
<1>4. beat' \in (0 .. HeartbeatTtl) \union {Absent} /\ BeatFits(beat', silent')
  <2>1. CASE beat = Absent \/ beat = HeartbeatTtl
    BY <2>1 DEF Tick, BeatFits
  <2>2. CASE ~(beat = Absent \/ beat = HeartbeatTtl)
    <3>1. beat' = beat + 1 /\ beat \in 0 .. HeartbeatTtl /\ beat # HeartbeatTtl
      BY <1>1, <2>2 DEF Tick, PanelTypes
    <3>2. silent <= beat
      BY <1>1, <2>2 DEF BeatFits
    <3>3. beat' \in 0 .. HeartbeatTtl /\ silent' <= beat'
      BY <1>1, <1>3, <3>1, <3>2, Numbers
    <3>4. QED
      BY <3>3 DEF BeatFits
  <2>3. QED
    BY <2>1, <2>2
<1>5. ASSUME NEW s \in Subject
      PROVE  cache'[s] \in EntryType /\ EntryFits(cache'[s], silent')
  <2>1. cache[s] \in EntryType /\ EntryFits(cache[s], silent)
    BY DEF Ages, PanelTypes
  <2>2. cache'[s] = IF cache[s].at = Absent THEN cache[s]
                    ELSE [cache[s] EXCEPT !.at = Older(@),
                                          !.result.old = Older(@)]
    BY DEF Tick
  <2>3. QED
    BY <1>1, <1>2, <2>1, <2>2, OlderEntry
<1>6. ASSUME NEW q \in Request
      PROVE  req'[q] \in RequestType /\ RequestFits(req'[q], silent')
  <2>1. req[q] \in RequestType /\ RequestFits(req[q], silent)
    BY DEF Ages, PanelTypes
  <2>2. req[q].phase \in {"loading", "read"} => req[q].since < LoadTimeout
    BY DEF Tick
  <2>3. req'[q] = IF req[q].phase \in {"loading", "read"}
                  THEN [req[q] EXCEPT !.since = @ + 1, !.result.old = Older(@)]
                  ELSE IF req[q].phase = "shown" THEN NoRequest ELSE req[q]
    BY DEF Tick
  <2>4. QED
    BY <1>1, <1>2, <2>1, <2>2, <2>3, OlderRequest
<1>7. PanelTypes'
  <2>1. cache' \in [Subject -> EntryType]
    BY <1>5 DEF Tick
  <2>2. req' \in [Request -> RequestType]
    BY <1>6 DEF Tick
  <2>3. QED
    BY <1>3, <1>4, <2>1, <2>2 DEF PanelTypes
<1>8. QED
  BY <1>4, <1>5, <1>6, <1>7 DEF Ages

\* At the start the cache is empty.
LEMMA AgesInit ==
  ASSUME Init
  PROVE  Ages
<1>1. /\ cache = [s \in Subject |-> NoEntry] /\ req = [q \in Request |-> NoRequest]
      /\ silent = MaxAge /\ beat = Absent
  BY DEF Init, LifeInit
<1>2. NoEntry \in EntryType /\ NoEntry.at = Absent
  BY BadFits DEF NoEntry, EntryType
<1>3. NoRequest.phase = "idle" /\ NoRequest.result = Bad(0) /\ NoRequest.since = 0
  BY DEF NoRequest
<1>4. RequestFits(NoRequest, silent) /\ NoRequest \in RequestType
  BY <1>3, BadFits DEF RequestFits
<1>5. PanelTypes
  BY <1>1, <1>2, <1>4, Numbers DEF PanelTypes
<1>6. QED
  BY <1>1, <1>2, <1>4, <1>5 DEF Ages, EntryFits, BeatFits

\* Every step keeps the ages.
LEMMA AgesKept ==
  ASSUME Ages, [Next]_vars
  PROVE  Ages'
<1>1. CASE LifeStep /\ Alive /\ UNCHANGED <<cache, holder, req>>
  BY <1>1, LifeAges
<1>2. CASE \E q \in Request : RequestStep(q)
  BY <1>2, AskAges, EnterAges, ReadAges, FinishAges DEF RequestStep
<1>3. CASE UNCHANGED vars
  <2>1. UNCHANGED <<cache, req, silent, beat>>
    BY <1>3 DEF vars, lifeVars, panelVars
  <2>2. QED
    BY <2>1 DEF Ages, PanelTypes
<1>4. QED
  BY <1>1, <1>2, <1>3, TickAges DEF Next

\* What a page shows is as recent as ttl, stale window and load timeout say,
\* for any windows, however requests share the cache, fail and time out.
THEOREM ShownIsRecentHolds == Spec => []ShownIsRecent
<1>1. Init => Ages
  BY AgesInit
<1>2. Ages /\ [Next]_vars => Ages'
  BY AgesKept
<1>3. Ages => ShownIsRecent
  BY DEF Ages, RequestFits, ShownIsRecent, Window
<1>4. QED
  BY <1>1, <1>2, <1>3, PTL DEF Spec

\* A page that says healthy is right up to the age of a heartbeat and of what
\* it shows, over every crash, stop and restart of the process.
THEOREM HealthyMeansAliveHolds == Spec => []HealthyMeansAlive
<1>1. Init => Ages
  BY AgesInit
<1>2. Ages /\ [Next]_vars => Ages'
  BY AgesKept
<1>3. Ages => HealthyMeansAlive
  <2> SUFFICES ASSUME Ages, NEW q \in Request, req[q].phase = "shown",
                      req[q].result.what = "healthy"
               PROVE  silent <= HealthyAge + Window(req[q].result.stale)
    BY DEF HealthyMeansAlive, Window
  <2> DEFINE old == req[q].result.old
             window == Window(req[q].result.stale)
  <2>1. old <= window /\ silent <= HealthyAge + old
    BY DEF Ages, RequestFits, Right
  <2>2. old \in Nat /\ silent \in Nat
    BY Numbers DEF Ages, PanelTypes, RequestType, Result
  <2>3. window \in Nat
    BY LongestFresh, Numbers DEF Window
  <2>4. QED
    BY <2>1, <2>2, <2>3, Numbers
<1>4. QED
  BY <1>1, <1>2, <1>3, PTL DEF Spec

-----------------------------------------------------------------------------
(* The locks of the cache                                                  *)

\* Inside the lock of get.
Loading(q) == req[q].phase \in {"loading", "read"}

\* The holder of a lock is the request that loads the subject, and no other.
LocksHeld ==
  /\ holder \in [Subject -> Request \union {Nobody}]
  /\ \A q \in Request, s \in Subject :
       holder[s] = q <=> SubjectOf[q] = s /\ Loading(q)

\* Steps that take or release no lock.
LEMMA SameLocks ==
  ASSUME LocksHeld, UNCHANGED holder,
         \A q \in Request : Loading(q)' <=> Loading(q)
  PROVE  LocksHeld'
BY DEF LocksHeld

\* A request that ends shows its result and holds no lock.
LEMMA ReturnedShows ==
  ASSUME PanelTypes, NEW q \in Request, NEW result, Returns(q, result)
  PROVE  /\ ~Loading(q)'
         /\ \A r \in Request \ {q} : Loading(r)' <=> Loading(r)
<1> DEFINE d == [NoRequest EXCEPT !.phase = "shown", !.result = result]
<1>1. d.phase = "shown"
  BY DEF NoRequest
<1>2. req' = [req EXCEPT ![q] = d]
  BY DEF Returns
<1> HIDE DEF d
<1>3. req'[q] = d /\ \A r \in Request \ {q} : req'[r] = req[r]
  BY <1>2 DEF PanelTypes
<1>4. QED
  BY <1>1, <1>3 DEF Loading

\* A request takes the lock of its subject, and gives it back.
LEMMA RequestLocks ==
  ASSUME PanelTypes, LocksHeld, NEW q \in Request, RequestStep(q)
  PROVE  LocksHeld'
<1>1. SubjectOf[q] \in Subject /\ Nobody \notin Request
  BY PanelAssumption
<1>2. PICK s : s = SubjectOf[q]
  OBVIOUS
<1>3. CASE Ask(q)
  <2>1. UNCHANGED holder /\ req[q].phase \in {"idle", "shown"}
    BY <1>3 DEF Ask
  <2>2. CASE Returns(q, cache[s].result)
    <3>1. ~Loading(q)' /\ \A r \in Request \ {q} : Loading(r)' <=> Loading(r)
      BY <2>2, ReturnedShows
    <3>2. ~Loading(q)
      BY <2>1 DEF Loading
    <3>3. QED
      BY <2>1, <3>1, <3>2, SameLocks
  <2>3. CASE req' = [req EXCEPT ![q] = [NoRequest EXCEPT !.phase = "waiting"]]
    <3>1. req'[q].phase = "waiting" /\ \A r \in Request \ {q} : req'[r] = req[r]
      BY <2>3 DEF PanelTypes, NoRequest
    <3>2. \A r \in Request : Loading(r)' <=> Loading(r)
      BY <2>1, <3>1 DEF Loading
    <3>3. QED
      BY <2>1, <3>2, SameLocks
  <2>4. QED
    BY <1>2, <1>3, <2>2, <2>3 DEF Ask
<1>4. CASE Enter(q)
  <2>1. req[q].phase = "waiting" /\ holder[s] = Nobody
    BY <1>2, <1>4 DEF Enter
  <2>2. CASE Returns(q, cache[s].result) /\ UNCHANGED holder
    <3>1. ~Loading(q)' /\ \A r \in Request \ {q} : Loading(r)' <=> Loading(r)
      BY <2>2, ReturnedShows
    <3>2. ~Loading(q)
      BY <2>1 DEF Loading
    <3>3. QED
      BY <2>2, <3>1, <3>2, SameLocks
  <2>3. CASE /\ req' = [req EXCEPT ![q].phase = "loading"]
             /\ holder' = [holder EXCEPT ![s] = q]
    <3>1. /\ req'[q].phase = "loading"
          /\ \A r \in Request \ {q} : req'[r] = req[r]
      BY <2>3 DEF PanelTypes, RequestType
    <3>2. /\ Loading(q)' /\ ~Loading(q)
          /\ \A r \in Request \ {q} : Loading(r)' <=> Loading(r)
      BY <2>1, <3>1 DEF Loading
    <3>3. holder' \in [Subject -> Request \union {Nobody}]
      BY <2>3 DEF LocksHeld
    <3>4. \A t \in Subject : holder'[t] = IF t = s THEN q ELSE holder[t]
      BY <1>1, <1>2, <2>3 DEF LocksHeld
    <3>5. ASSUME NEW r \in Request, NEW t \in Subject
          PROVE  holder'[t] = r <=> SubjectOf[r] = t /\ Loading(r)'
      <4>1. holder[t] = r <=> SubjectOf[r] = t /\ Loading(r)
        BY DEF LocksHeld
      <4>2. holder[s] # r
        BY <1>1, <2>1
      <4>3. QED
        BY <1>1, <1>2, <3>2, <3>4, <4>1, <4>2
    <3>6. QED
      BY <3>3, <3>5 DEF LocksHeld
  <2>4. QED
    BY <1>2, <1>4, <2>2, <2>3 DEF Enter
<1>5. CASE Read(q)
  <2>1. PICK result :
          req' = [req EXCEPT ![q].phase = "read", ![q].result = result]
    BY <1>5 DEF Read
  <2>2. /\ req[q].phase = "loading" /\ UNCHANGED holder
    BY <1>5 DEF Read
  <2>3. /\ req'[q].phase = "read" /\ \A r \in Request \ {q} : req'[r] = req[r]
    BY <2>1 DEF PanelTypes, RequestType
  <2>4. \A r \in Request : Loading(r)' <=> Loading(r)
    BY <2>2, <2>3 DEF Loading
  <2>5. QED
    BY <2>2, <2>4, SameLocks
<1>6. CASE Finish(q)
  <2>1. PICK result : Returns(q, result)
    BY <1>6 DEF Finish
  <2>2. req[q].phase = "read" /\ holder' = [holder EXCEPT ![s] = Nobody]
    BY <1>2, <1>6 DEF Finish
  <2>3. /\ Loading(q) /\ ~Loading(q)'
        /\ \A r \in Request \ {q} : Loading(r)' <=> Loading(r)
    BY <2>1, <2>2, ReturnedShows DEF Loading
  <2>4. holder' \in [Subject -> Request \union {Nobody}]
    BY <2>2 DEF LocksHeld
  <2>5. \A t \in Subject : holder'[t] = IF t = s THEN Nobody ELSE holder[t]
    BY <2>2 DEF LocksHeld
  <2>6. ASSUME NEW r \in Request, NEW t \in Subject
        PROVE  holder'[t] = r <=> SubjectOf[r] = t /\ Loading(r)'
    <3>1. /\ holder[t] = r <=> SubjectOf[r] = t /\ Loading(r)
          /\ holder[s] = r <=> SubjectOf[r] = s /\ Loading(r)
          /\ holder[s] = q
      BY <1>1, <1>2, <2>3 DEF LocksHeld
    <3>2. QED
      BY <1>1, <1>2, <2>3, <2>5, <3>1
  <2>7. QED
    BY <2>4, <2>6 DEF LocksHeld
<1>7. QED
  BY <1>3, <1>4, <1>5, <1>6 DEF RequestStep

\* Every step keeps the locks with those who load.
LEMMA LocksKept ==
  ASSUME PanelTypes, LocksHeld, [Next]_vars
  PROVE  LocksHeld'
<1>1. ASSUME UNCHANGED <<holder, req>> PROVE LocksHeld'
  BY <1>1 DEF LocksHeld, Loading
<1>2. CASE Tick
  <2>1. ASSUME NEW q \in Request PROVE Loading(q)' <=> Loading(q)
    <3>1. req'[q] = IF Loading(q)
                    THEN [req[q] EXCEPT !.since = @ + 1, !.result.old = Older(@)]
                    ELSE IF req[q].phase = "shown" THEN NoRequest ELSE req[q]
      BY <1>2 DEF Tick, Loading
    <3>2. Loading(q) => req'[q].phase = req[q].phase
      BY <3>1 DEF PanelTypes, RequestType
    <3>3. ~Loading(q) => req'[q].phase \in {"idle", req[q].phase}
      BY <3>1 DEF NoRequest
    <3>4. QED
      BY <3>2, <3>3 DEF Loading
  <2>2. QED
    BY <1>2, <2>1, SameLocks DEF Tick
<1>3. UNCHANGED vars => UNCHANGED <<holder, req>>
  BY DEF vars, panelVars
<1>4. QED
  BY <1>1, <1>2, <1>3, RequestLocks DEF Next

\* The holder of a lock is in its load, and whoever loads has the lock.
THEOREM LocksInvariant == Spec => [](PanelTypes /\ LocksHeld)
<1>1. Init => Ages /\ LocksHeld
  <2> SUFFICES ASSUME Init PROVE LocksHeld
    BY AgesInit
  <2>1. /\ holder = [s \in Subject |-> Nobody]
        /\ req = [q \in Request |-> NoRequest]
    BY DEF Init
  <2>2. \A q \in Request : ~Loading(q)
    BY <2>1 DEF NoRequest, Loading
  <2>3. QED
    BY <2>1, <2>2, PanelAssumption DEF LocksHeld
<1>2. Ages => PanelTypes
  BY DEF Ages
<1>3. Ages /\ LocksHeld /\ [Next]_vars => Ages' /\ LocksHeld'
  BY <1>2, AgesKept, LocksKept
<1>4. QED
  BY <1>1, <1>2, <1>3, PTL DEF Spec

\* No two requests load the same subject at once, however many ask for it.
THEOREM SingleFlightHolds == Spec => []SingleFlight
<1>1. LocksHeld => SingleFlight
  <2> SUFFICES ASSUME LocksHeld, NEW q \in Request, NEW r \in Request,
                      Loading(q), Loading(r), SubjectOf[q] = SubjectOf[r]
               PROVE  q = r
    BY DEF SingleFlight, Loading
  <2>1. SubjectOf[q] \in Subject
    BY PanelAssumption
  <2>2. QED
    BY <2>1 DEF LocksHeld
<1>2. QED
  BY <1>1, LocksInvariant, PTL

-----------------------------------------------------------------------------
(* Capacities, and all the types                                           *)

\* Neither the queue nor a batch outgrows its size: the drainer waits without
\* a batch.
Capacities ==
  /\ Len(queue) <= QueueSize
  /\ Len(drain.batch) <= BatchSize
  /\ drain.phase = "waiting" => drain.batch = <<>>

\* The steps of the sink.
LEMMA SinkCapacities ==
  ASSUME SinkTypes, Capacities, SinkStep
  PROVE  Capacities'
<1>1. /\ queue \in Seq(Record \union {STOP}) /\ Len(queue) \in Nat
      /\ drain \in [phase : DrainPhases, batch : Seq(Record)]
      /\ drain.batch \in Seq(Record) /\ Len(drain.batch) \in Nat
      /\ QueueSize \in Nat \ {0} /\ BatchSize \in Nat \ {0}
      /\ STOP \notin Record
  BY LifecycleAssumption DEF SinkTypes
<1>2. CASE Enqueue
  <2>1. /\ called # <<>> /\ called \in Seq(Record) /\ UNCHANGED drain
        /\ \/ UNCHANGED queue
           \/ Len(queue) < QueueSize /\ queue' = Append(queue, Head(called))
    BY <1>1, <1>2 DEF Enqueue, QueueFull, SinkTypes
  <2>2. CASE UNCHANGED queue
    BY <2>1, <2>2 DEF Capacities
  <2>3. CASE Len(queue) < QueueSize /\ queue' = Append(queue, Head(called))
    <3>1. Head(called) \in Record \union {STOP}
      BY <2>1, HeadTailProperties
    <3>2. Len(Append(queue, Head(called))) = Len(queue) + 1
      BY <1>1, <3>1, AppendProperties
    <3>3. Len(queue') = Len(queue) + 1
      BY <2>3, <3>2, Zenon
    <3>4. Len(queue') <= QueueSize
      BY <1>1, <2>3, <3>3
    <3>5. QED
      BY <2>1, <3>4 DEF Capacities
  <2>4. QED
    BY <2>1, <2>2, <2>3
<1>3. CASE Collect
  <2>1. /\ queue # <<>> /\ queue' = Tail(queue)
        /\ \/ drain.phase = "waiting"
           \/ drain.phase = "collecting" /\ Len(drain.batch) < BatchSize
    BY <1>3 DEF Collect
  <2>2. Len(queue') = Len(queue) - 1
    BY <1>1, <2>1, HeadTailProperties
  <2>3. Len(queue') <= QueueSize
    BY <1>1, <2>2 DEF Capacities
  <2>4. CASE Head(queue) # STOP
    <3>1. drain' = [phase |-> "collecting",
                    batch |-> Append(drain.batch, Head(queue))]
      BY <1>3, <2>4 DEF Collect
    <3>2. Head(queue) \in Record
      BY <1>1, <2>1, <2>4, HeadTailProperties
    <3>3. Len(Append(drain.batch, Head(queue))) = Len(drain.batch) + 1
      BY <1>1, <3>2, AppendProperties
    <3>4. Len(drain.batch) < BatchSize
      BY <1>1, <2>1 DEF Capacities
    <3>5. drain'.phase = "collecting" /\ Len(drain'.batch) <= BatchSize
      BY <1>1, <3>1, <3>3, <3>4
    <3>6. QED
      BY <2>3, <3>5 DEF Capacities
  <2>5. CASE Head(queue) = STOP
    <3>1. \/ drain' = [drain EXCEPT !.phase = "done"]
          \/ drain' = [drain EXCEPT !.phase = "last"]
      BY <1>3, <2>5 DEF Collect
    <3>2. drain'.phase \in {"done", "last"} /\ drain'.batch = drain.batch
      BY <1>1, <3>1
    <3>3. QED
      BY <2>3, <3>2 DEF Capacities
  <2>6. QED
    BY <2>4, <2>5
<1>4. CASE WindowCloses
  <2>1. drain' = [drain EXCEPT !.phase = "flushing"] /\ UNCHANGED queue
    BY <1>4 DEF WindowCloses
  <2>2. drain'.phase = "flushing" /\ drain'.batch = drain.batch
    BY <1>1, <2>1
  <2>3. QED
    BY <2>1, <2>2 DEF Capacities
<1>5. CASE FlushBatch
  <2>1. drain'.batch = <<>> /\ UNCHANGED queue
    BY <1>5 DEF FlushBatch
  <2>2. Len(drain'.batch) <= BatchSize
    BY <1>1, <2>1
  <2>3. QED
    BY <2>1, <2>2 DEF Capacities
<1>6. QED
  BY <1>2, <1>3, <1>4, <1>5 DEF SinkStep

\* The sentinel takes the place of the first record when the queue is full, and
\* a process begins and ends with nothing in it.
LEMMA CapacitiesKept ==
  ASSUME SinkTypes, Capacities, [Next]_vars
  PROVE  Capacities'
<1>1. ASSUME UNCHANGED <<queue, drain>> PROVE Capacities'
  BY <1>1 DEF Capacities
<1>2. QueueSize \in Nat \ {0} /\ BatchSize \in Nat \ {0}
  BY LifecycleAssumption
<1>3. Off.batch = <<>> /\ [Off EXCEPT !.phase = "waiting"].batch = <<>>
  BY DEF Off
<1>4. CASE Start
  <2>1. drain'.batch = <<>> /\ UNCHANGED queue
    BY <1>3, <1>4 DEF Start
  <2>2. QED
    BY <1>2, <2>1 DEF Capacities
<1>5. CASE Perish \/ SinkStops
  <2>1. drain'.batch = <<>> /\ queue' = <<>>
    BY <1>3, <1>5 DEF Perish, SinkStops
  <2>2. QED
    BY <1>2, <2>1 DEF Capacities
<1>6. CASE StopSink
  <2>1. queue \in Seq(Record \union {STOP}) /\ Len(queue) \in Nat
        /\ STOP \in Record \union {STOP}
    BY DEF SinkTypes
  <2>2. \/ Len(queue) >= QueueSize /\ queue' = Append(Tail(queue), STOP)
        \/ ~(Len(queue) >= QueueSize) /\ queue' = Append(queue, STOP)
    BY <1>6 DEF StopSink, QueueFull
  <2>3. CASE Len(queue) >= QueueSize /\ queue' = Append(Tail(queue), STOP)
    <3>1. queue # <<>>
      BY <1>2, <2>3
    <3>2. /\ Tail(queue) \in Seq(Record \union {STOP})
          /\ Len(Tail(queue)) = Len(queue) - 1
      BY <2>1, <3>1, HeadTailProperties
    <3>3. Len(queue') = Len(queue)
      BY <2>1, <2>3, <3>2, AppendProperties
    <3>4. QED
      BY <1>6, <3>3 DEF Capacities, StopSink
  <2>4. CASE ~(Len(queue) >= QueueSize) /\ queue' = Append(queue, STOP)
    <3>1. Len(queue') = Len(queue) + 1
      BY <2>1, <2>4, AppendProperties
    <3>2. Len(queue') <= QueueSize
      BY <1>2, <2>1, <2>4, <3>1
    <3>3. QED
      BY <1>6, <3>2 DEF Capacities, StopSink
  <2>5. QED
    BY <2>2, <2>3, <2>4
<1>7. CASE Unhook \/ Hook \/ Beat \/ Stop \/ EndHeartbeat
  BY <1>1, <1>7 DEF Unhook, Hook, Beat, Stop, EndHeartbeat, sinkVars
<1>8. ASSUME \/ \E r \in Record : Log(r) \/ LogLate(r)
             \/ \E g \in Group : Cleanup(g)
             \/ \E u \in Update : Send(u) \/ Push(u)
      PROVE  Capacities'
  BY <1>1, <1>8 DEF Log, LogLate, Cleanup, Send, Push, sinkVars
<1>9. CASE (\E q \in Request : RequestStep(q)) \/ Tick \/ UNCHANGED vars
  BY <1>1, <1>9 DEF RequestStep, Ask, Enter, Read, Finish, Tick, vars,
                    lifeVars, sinkVars
<1>10. QED
  BY <1>4, <1>5, <1>6, <1>7, <1>8, <1>9, SinkCapacities DEF Next, LifeStep

ProcessTypes ==
  /\ agenda \in Agendas
  /\ app \in AppPhases
  /\ starts \in 0 .. MaxStarts
  /\ webhook \in BOOLEAN
  /\ update \in [Update -> {"unsent", "pending", "delivered", "dropped"}]

\* The start and stop of the process, and the messages at Telegram.
LEMMA ProcessTyped ==
  ASSUME ProcessTypes, [Next]_vars
  PROVE  ProcessTypes'
<1>1. ASSUME UNCHANGED <<agenda, app, starts, hookVars>> PROVE ProcessTypes'
  BY <1>1 DEF ProcessTypes, hookVars
<1>2. ASSUME UNCHANGED <<agenda, starts, hookVars>>, app' \in AppPhases
      PROVE  ProcessTypes'
  BY <1>2 DEF ProcessTypes, hookVars
<1>3. CASE Start
  <2>1. starts' \in 0 .. MaxStarts
    BY <1>3, LifecycleAssumption DEF Start, ProcessTypes
  <2>2. QED
    BY <1>3, <2>1 DEF Start, ProcessTypes, AppPhases, hookVars
<1>4. CASE Perish \/ Stop \/ EndHeartbeat \/ SinkStops
  BY <1>2, <1>4 DEF Perish, Stop, EndHeartbeat, SinkStops, AppPhases
<1>5. CASE Unhook
  BY <1>5 DEF Unhook, ProcessTypes, AppPhases
<1>6. CASE Hook
  BY <1>6 DEF Hook, ProcessTypes, AppPhases
<1>7. CASE StopSink
  <2>1. webhook' \in {webhook, FALSE} /\ UNCHANGED <<agenda, starts, update>>
        /\ app' = "draining"
    BY <1>7 DEF StopSink
  <2>2. QED
    BY <2>1 DEF ProcessTypes, AppPhases
<1>8. CASE Beat \/ SinkStep
  BY <1>1, <1>8 DEF Beat, SinkStep, Enqueue, Collect, WindowCloses, FlushBatch
<1>9. ASSUME \/ \E r \in Record : Log(r) \/ LogLate(r)
             \/ \E g \in Group : Cleanup(g)
      PROVE  ProcessTypes'
  BY <1>1, <1>9 DEF Log, LogLate, Cleanup
<1>10. ASSUME NEW u \in Update, Send(u) \/ Push(u)
       PROVE  ProcessTypes'
  BY <1>10 DEF Send, Push, ProcessTypes
<1>11. CASE (\E q \in Request : RequestStep(q)) \/ Tick \/ UNCHANGED vars
  BY <1>1, <1>11 DEF RequestStep, Ask, Enter, Read, Finish, Tick, vars,
                     lifeVars
<1>12. QED
  BY <1>3, <1>4, <1>5, <1>6, <1>7, <1>8, <1>9, <1>10, <1>11 DEF Next, LifeStep

\* Every variable of the process, the sink, the cache and the requests keeps
\* its type, and queue and batch their sizes, for any capacities and windows.
THEOREM TypeCorrectness == Spec => []TypeOK
<1>1. Init => Sink /\ Ages /\ Capacities /\ ProcessTypes
  <2> SUFFICES ASSUME Init PROVE Capacities /\ ProcessTypes
    BY SinkInit, AgesInit DEF Init
  <2>1. QueueSize \in Nat /\ BatchSize \in Nat /\ MaxStarts \in Nat
    BY LifecycleAssumption
  <2>2. queue = <<>> /\ drain.batch = <<>>
    BY DEF Init, LifeInit, Off
  <2>3. Capacities
    BY <2>1, <2>2 DEF Capacities
  <2>4. ProcessTypes
    <3>1. /\ agenda \in Agendas /\ app = "down" /\ starts = 0
          /\ webhook = FALSE /\ update = [u \in Update |-> "unsent"]
      BY DEF Init, LifeInit
    <3>2. update \in [Update -> {"unsent", "pending", "delivered", "dropped"}]
      BY <3>1
    <3>3. app \in AppPhases /\ starts \in 0 .. MaxStarts
      BY <2>1, <3>1 DEF AppPhases
    <3>4. webhook \in BOOLEAN
      BY <3>1, Zenon
    <3>5. QED
      BY <3>1, <3>2, <3>3, <3>4, Zenon DEF ProcessTypes
  <2>5. QED
    BY <2>3, <2>4
<1>2. Sink /\ Ages /\ Capacities /\ ProcessTypes /\ [Next]_vars
        => Sink' /\ Ages' /\ Capacities' /\ ProcessTypes'
  BY SinkKept, AgesKept, CapacitiesKept, ProcessTyped DEF Sink
<1>3. Sink /\ Ages /\ Capacities /\ ProcessTypes /\ LocksHeld => TypeOK
  <2> SUFFICES ASSUME Sink, Ages, Capacities, ProcessTypes, LocksHeld
               PROVE  TypeOK
    OBVIOUS
  <2>1. /\ called \in Seq(Record) /\ queue \in Seq(Record \union {STOP})
        /\ drain \in [phase : DrainPhases, batch : Seq(Record)]
        /\ fate \in [Record -> Fates] /\ table \in [Group -> Nat]
    BY DEF Sink, SinkTypes
  <2>2. /\ Range(called) \subseteq Record
        /\ Range(queue) \subseteq Record \union {STOP}
        /\ Range(drain.batch) \subseteq Record
    BY <2>1 DEF Range
  <2>3. LifeTypeOK
    BY <2>1, <2>2 DEF Ages, PanelTypes, Capacities, ProcessTypes, LifeTypeOK
  <2>4. QED
    BY <2>3 DEF Ages, PanelTypes, LocksHeld, EntryType, RequestType, TypeOK
<1>4. QED
  BY <1>1, <1>2, <1>3, LocksInvariant, PTL DEF Spec
=============================================================================
