------------------------ MODULE Consolidation_proofs ------------------------
(* TLAPS proofs about Consolidation, for any number of turns and faults,   *)
(* any cap and any times, and about the lock it relies on.                 *)
EXTENDS Consolidation, UserLock, SequenceTheorems, TLAPS

-----------------------------------------------------------------------------
(* Histories                                                               *)

\* The turns in a history are turns of the dialogue.
LEMMA CoveredTurns ==
  ASSUME NEW h \in Seq(Entry)
  PROVE  Covered(h) \subseteq Turn /\ Raw(h) \subseteq Covered(h)
<1>1. ASSUME NEW i \in DOMAIN h PROVE h[i].of \subseteq Turn
  <2>1. h[i] \in Entry
    OBVIOUS
  <2>2. QED
    BY <2>1 DEF Entry
<1>2. QED
  BY <1>1 DEF Covered, Raw

\* What a turn at the end of a history adds.
LEMMA CoveredAppend ==
  ASSUME NEW h \in Seq(Entry), NEW n \in Turn
  PROVE  /\ Append(h, TurnEntry(n)) \in Seq(Entry)
         /\ Covered(Append(h, TurnEntry(n))) = Covered(h) \union {n}
<1> DEFINE e == TurnEntry(n)
           a == Append(h, e)
<1>1. e \in Entry /\ e.of = {n}
  BY DEF TurnEntry, Entry
<1> HIDE DEF e
<1>2. /\ a \in Seq(Entry) /\ Len(h) \in Nat /\ Len(a) = Len(h) + 1
      /\ DOMAIN h = 1 .. Len(h) /\ DOMAIN a = 1 .. Len(a)
      /\ a[Len(h) + 1] = e
      /\ \A i \in 1 .. Len(h) : a[i] = h[i]
  BY <1>1
<1> HIDE DEF a
<1>3. ASSUME NEW t
      PROVE  (\E i \in DOMAIN a : t \in a[i].of)
               <=> (\E i \in DOMAIN h : t \in h[i].of) \/ t = n
  BY <1>1, <1>2
<1>4. QED
  BY <1>2, <1>3 DEF Covered, a, e

\* The cap keeps entries of the history, and no more than MaxLen of them.
LEMMA TrimmedIsPart ==
  ASSUME NEW h \in Seq(Entry)
  PROVE  /\ Trimmed(h) \in Seq(Entry)
         /\ Len(Trimmed(h)) <= MaxLen
         /\ \A i \in DOMAIN Trimmed(h) : \E j \in DOMAIN h : Trimmed(h)[i] = h[j]
<1>1. CASE Len(h) <= MaxLen
  BY <1>1 DEF Trimmed
<1>2. CASE ~(Len(h) <= MaxLen)
  <2> DEFINE m == Len(h) - MaxLen + 1
  <2>1. /\ Len(h) \in Nat /\ MaxLen \in Nat /\ DOMAIN h = 1 .. Len(h)
        /\ m \in 1 .. Len(h) + 1 /\ Trimmed(h) = SubSeq(h, m, Len(h))
    BY <1>2, SizeAssumption DEF Trimmed
  <2>2. /\ Trimmed(h) \in Seq(Entry)
        /\ Len(Trimmed(h)) = MaxLen
        /\ \A i \in 1 .. MaxLen : Trimmed(h)[i] = h[m + i - 1]
    BY <2>1, SubSeqProperties
  <2>3. QED
    BY <2>1, <2>2
<1>3. QED
  BY <1>1, <1>2

\* The swap leaves one entry, which tells of the turns it sums up.
LEMMA CoveredSummary ==
  ASSUME NEW S \in SUBSET Turn
  PROVE  /\ <<Summary(S)>> \in Seq(Entry)
         /\ Len(<<Summary(S)>>) = 1
         /\ Covered(<<Summary(S)>>) = S
BY DEF Summary, Entry, Covered

\* Every summary in h is of turns whose facts are in F.
Backed(h, F) ==
  \A i \in DOMAIN h : h[i].role = "summary" => h[i].of \subseteq F

\* With its turns persisted, a history is ready to be summed up.
LEMMA BackedCovers ==
  ASSUME NEW h \in Seq(Entry), NEW F, Backed(h, F)
  PROVE  Covered(h) \subseteq F \union Raw(h)
<1> SUFFICES ASSUME NEW t \in Covered(h), t \notin Raw(h) PROVE t \in F
  OBVIOUS
<1>1. PICK i \in DOMAIN h : t \in h[i].of
  BY DEF Covered
<1>2. h[i].role # "turn"
  BY <1>1 DEF Raw
<1>3. h[i] \in Entry
  OBVIOUS
<1>4. h[i].role = "summary"
  BY <1>2, <1>3 DEF Entry
<1>5. QED
  BY <1>1, <1>4 DEF Backed

-----------------------------------------------------------------------------
(* Types                                                                   *)

Run == [phase: SleeperPhases, seen: Seq(Entry), points: SUBSET Turn]

\* A phase that a run enters keeps what it has read.
LEMMA PhaseType ==
  ASSUME sleeper \in [Sleeper -> Run], NEW s \in Sleeper,
         NEW from, NEW to \in SleeperPhases, SleeperGoes(s, from, to)
  PROVE  /\ sleeper' \in [Sleeper -> Run]
         /\ sleeper'[s].phase = to /\ sleeper[s].phase = from
         /\ sleeper'[s].seen = sleeper[s].seen
         /\ \A r \in Sleeper \ {s} : sleeper'[r] = sleeper[r]
BY DEF SleeperGoes, Run

\* So does the phase after the vectors, and the points are gone.
LEMMA EmbeddedType ==
  ASSUME sleeper \in [Sleeper -> Run], NEW s \in Sleeper, VectorizeEnds(s)
  PROVE  /\ sleeper' \in [Sleeper -> Run]
         /\ sleeper'[s].phase = "embedded" /\ sleeper[s].phase = "persisted"
         /\ sleeper'[s].seen = sleeper[s].seen
         /\ \A r \in Sleeper \ {s} : sleeper'[r] = sleeper[r]
BY DEF VectorizeEnds, Run, SleeperPhases

\* What the loop of _persist_facts may write is of turns read.
LEMMA FirstsAreTurns ==
  ASSUME NEW R \in SUBSET Turn, NEW P \in Considered(R), NEW F \in Firsts(P)
  PROVE  P \subseteq R /\ F \subseteq P /\ F \in SUBSET Turn
<1>1. P \subseteq R
  BY DEF Considered, kSubset
<1>2. QED
  BY <1>1 DEF Firsts

\* So is the phase after the commit, with the points of what was written.
LEMMA PersistType ==
  ASSUME sleeper \in [Sleeper -> Run], NEW s \in Sleeper, PersistFacts(s)
  PROVE  LET R == Raw(sleeper[s].seen)
         IN /\ sleeper' \in [Sleeper -> Run]
            /\ sleeper'[s].phase = "persisted" /\ sleeper[s].phase = "asleep"
            /\ sleeper'[s].seen = sleeper[s].seen
            /\ \A r \in Sleeper \ {s} : sleeper'[r] = sleeper[r]
            /\ R \in SUBSET Turn
            /\ \E P \in SUBSET R : \E F \in Firsts(P) :
                 /\ F \in SUBSET Turn
                 /\ hardFacts' = Upserted(hardFacts, F)
                 /\ surplus' = surplus \union (R \ P)
<1> DEFINE R == Raw(sleeper[s].seen)
<1>1. R \in SUBSET Turn
  <2>1. sleeper[s].seen \in Seq(Entry)
    BY DEF Run
  <2>2. QED
    BY <2>1, CoveredTurns
<1> HIDE DEF R
<1>2. PICK P, F :
        /\ P \in Considered(R) /\ F \in Firsts(P)
        /\ sleeper[s].phase = "asleep"
        /\ hardFacts' = Upserted(hardFacts, F)
        /\ surplus' = surplus \union (R \ P)
        /\ sleeper' = [sleeper EXCEPT ![s].phase = "persisted",
                                      ![s].points = F]
  BY DEF PersistFacts, R
<1>3. P \subseteq R /\ F \in SUBSET Turn
  BY <1>1, <1>2, FirstsAreTurns
<1>4. "persisted" \in SleeperPhases
  BY DEF SleeperPhases
<1>5. /\ sleeper' \in [Sleeper -> Run]
      /\ sleeper'[s].phase = "persisted" /\ sleeper'[s].seen = sleeper[s].seen
      /\ \A r \in Sleeper \ {s} : sleeper'[r] = sleeper[r]
  BY <1>2, <1>3, <1>4 DEF Run
<1>6. QED
  BY <1>1, <1>2, <1>3, <1>5 DEF R

\* At the start everything is of its type.
LEMMA InitTypes == Init => TypeOK
<1>1. AtRest \in Run
  BY DEF AtRest, RunAt, Run, SleeperPhases
<1>2. QED
  BY <1>1, SizeAssumption
  DEF Init, TypeOK, Run, NoState, Statuses, WorkerPhases, Faults

\* Giving the lock back leaves nobody there, or its holder.
LEMMA GiveBackType ==
  ASSUME TypeOK, NEW h \in Holder, GiveBack(h)
  PROVE  lock' \in Holder \union {Orphan, Nobody}
BY DEF TypeOK, GiveBack

\* What a fault adds.
LEMMA FaultType ==
  ASSUME TypeOK, NEW k, Fault(k)
  PROVE  faults' \in SUBSET Faults /\ k \in faults' /\ faults \subseteq faults'
BY FaultAssumption DEF TypeOK, Fault

\* The four ways in which a step sets the state.
LEMMA StateType ==
  ASSUME TypeOK, SetThinking \/ SetIdle \/ SetSleeping \/ state' = Aged
  PROVE  state' \in [status: Statuses, age: 0 .. IdleTicks, ttl: 0 .. StateTtl]
<1>1. CASE SetThinking \/ SetIdle \/ SetSleeping
  BY <1>1, SizeAssumption
  DEF TypeOK, SetThinking, SetIdle, SetSleeping, SetState, Statuses
<1>2. CASE state' = Aged
  <2>1. CASE state.status = "none" \/ state.ttl = 1
    <3>1. Aged = NoState
      BY <2>1 DEF Aged
    <3>2. QED
      BY <1>2, <3>1, SizeAssumption DEF NoState, Statuses
  <2>2. CASE ~(state.status = "none" \/ state.ttl = 1)
    <3>1. Aged = [state EXCEPT !.age = Older(@),
                               !.ttl = IF @ = 0 THEN 0 ELSE @ - 1]
      BY <2>2 DEF Aged
    <3>2. /\ state.age \in 0 .. IdleTicks /\ state.ttl \in 0 .. StateTtl
          /\ state.status \in Statuses
          /\ state = [status |-> state.status, age |-> state.age, ttl |-> state.ttl]
      BY DEF TypeOK
    <3>3. Older(state.age) \in 0 .. IdleTicks
      BY <3>2, SizeAssumption DEF Older
    <3>4. (IF state.ttl = 0 THEN 0 ELSE state.ttl - 1) \in 0 .. StateTtl
      BY <3>2, SizeAssumption
    <3>5. QED
      BY <1>2, <3>1, <3>2, <3>3, <3>4
  <2>3. QED
    BY <2>1, <2>2
<1>3. QED
  BY <1>1, <1>2

\* The Worker takes a message only if there is a turn left to save.
TurnLeft == worker \in {"locked", "thinking"} => turns < NTurns

Typed == TypeOK /\ TurnLeft

\* A turn of the Worker keeps the types.
LEMMA WorkerTypes ==
  ASSUME Typed, WorkerAcquires \/ WorkerStep
  PROVE  Typed'
<1> USE DEF Typed, Holder
<1>1. CASE WorkerAcquires
  BY <1>1 DEF WorkerAcquires, WorkerGoes, Take, TypeOK, TurnLeft, WorkerPhases, memory
<1>2. CASE Think
  BY <1>2, StateType, SizeAssumption
  DEF Think, WorkerGoes, TypeOK, TurnLeft, WorkerPhases, memory
<1>3. CASE SaveTurn
  <2> DEFINE a == Append(context, TurnEntry(turns + 1))
  <2>1. turns + 1 \in Turn /\ turns + 1 \in 0 .. NTurns
    BY <1>3, SizeAssumption DEF SaveTurn, WorkerGoes, TypeOK, TurnLeft, Turn
  <2>2. a \in Seq(Entry)
    BY <2>1, CoveredAppend DEF TypeOK
  <2>3. /\ context' = Trimmed(a)
        /\ dropped' = dropped \union (Covered(a) \ Covered(Trimmed(a)))
        /\ turns' = turns + 1 /\ worker' = "saved"
        /\ UNCHANGED <<state, lock, sleeper, quiet, hardFacts, vectors, surplus,
                       faults>>
    BY <1>3 DEF SaveTurn, WorkerGoes
  <2> HIDE DEF a
  <2>4. /\ context' \in Seq(Entry) /\ Len(context') <= MaxLen
        /\ dropped' \in SUBSET Turn
    BY <2>2, <2>3, TrimmedIsPart, CoveredTurns DEF TypeOK
  <2>5. QED
    BY <2>1, <2>3, <2>4 DEF TypeOK, TurnLeft, WorkerPhases
<1>4. CASE SaveFails
  BY <1>4, FaultType
  DEF SaveFails, WorkerGoes, TypeOK, TurnLeft, WorkerPhases, memory
<1>5. CASE BackToIdle
  BY <1>5, StateType
  DEF BackToIdle, WorkerGoes, TypeOK, TurnLeft, WorkerPhases, memory
<1>6. CASE WorkerFails
  BY <1>6, FaultType
  DEF WorkerFails, WorkerGoes, TypeOK, TurnLeft, WorkerPhases, memory
<1>7. CASE WorkerReleases
  BY <1>7, GiveBackType
  DEF WorkerReleases, WorkerGoes, TypeOK, TurnLeft, WorkerPhases, memory
<1>8. QED
  BY <1>1, <1>2, <1>3, <1>4, <1>5, <1>6, <1>7 DEF WorkerStep

\* Every step of a run keeps the types.
LEMMA RunTypes ==
  ASSUME Typed, NEW s \in Sleeper, CheckState(s) \/ RunStep(s)
  PROVE  Typed'
<1> USE DEF Typed, TypeOK, TurnLeft, Run, memory
<1>1. CASE CheckState(s)
  <2>1. "eligible" \in SleeperPhases
    BY DEF SleeperPhases
  <2>2. QED
    BY <1>1, <2>1, PhaseType DEF CheckState
<1>2. CASE CheckLength(s)
  <2>1. {"rest", "long"} \subseteq SleeperPhases
    BY DEF SleeperPhases
  <2>2. QED
    BY <1>2, <2>1, PhaseType DEF CheckLength
<1>3. CASE TryLock(s)
  <2>1. {"locked", "rest"} \subseteq SleeperPhases
    BY DEF SleeperPhases
  <2>2. QED
    BY <1>3, <2>1, PhaseType DEF TryLock, Take, Holder
<1>4. CASE ReadHistory(s)
  <2>1. RunAt("leaving", <<>>) \in Run /\ RunAt("read", context) \in Run
    BY DEF RunAt, SleeperPhases
  <2>2. QED
    BY <1>4, <2>1 DEF ReadHistory
<1>5. CASE FallAsleep(s)
  <2>1. "asleep" \in SleeperPhases
    BY DEF SleeperPhases
  <2>2. QED
    BY <1>5, <2>1, PhaseType, StateType DEF FallAsleep
<1>6. CASE LeaveEarly(s)
  <2>1. "leaving" \in SleeperPhases
    BY DEF SleeperPhases
  <2>2. QED
    BY <1>6, <2>1, PhaseType, FaultType DEF LeaveEarly
<1>7. CASE PersistFacts(s)
  <2>1. /\ sleeper' \in [Sleeper -> Run]
        /\ hardFacts' \in SUBSET Turn /\ surplus' \in SUBSET Turn
    BY <1>7, PersistType DEF Upserted
  <2>2. QED
    BY <1>7, <2>1 DEF PersistFacts
<1>8. CASE Vectorize(s)
  <2>1. sleeper[s].points \in SUBSET Turn
    OBVIOUS
  <2>2. vectors' \in SUBSET Turn
    BY <1>8, <2>1 DEF Vectorize, Upserted
  <2>3. QED
    BY <1>8, <2>2, EmbeddedType DEF Vectorize
<1>9. CASE EmbedFails(s)
  BY <1>9, EmbeddedType, FaultType DEF EmbedFails
<1>10. CASE Swap(s)
  <2>1. "waking" \in SleeperPhases /\ sleeper[s].seen \in Seq(Entry)
    BY DEF SleeperPhases
  <2>2. context' \in Seq(Entry) /\ Len(context') <= MaxLen
    BY <1>10, <2>1, CoveredTurns, CoveredSummary, SizeAssumption DEF Swap
  <2>3. QED
    BY <1>10, <2>1, <2>2, PhaseType DEF Swap
<1>11. CASE RunFails(s)
  <2>1. "waking" \in SleeperPhases
    BY DEF SleeperPhases
  <2>2. QED
    BY <1>11, <2>1, PhaseType, FaultType DEF RunFails
<1>12. CASE Wake(s)
  <2>1. "leaving" \in SleeperPhases
    BY DEF SleeperPhases
  <2>2. QED
    BY <1>12, <2>1, PhaseType, StateType DEF Wake
<1>13. CASE WakeFails(s)
  <2>1. "leaving" \in SleeperPhases
    BY DEF SleeperPhases
  <2>2. QED
    BY <1>13, <2>1, PhaseType, FaultType DEF WakeFails
<1>14. CASE SleeperReleases(s)
  <2>1. AtRest \in Run
    BY DEF AtRest, RunAt, SleeperPhases
  <2>2. QED
    BY <1>14, <2>1, GiveBackType DEF SleeperReleases, Holder
<1>15. QED
  BY <1>1, <1>2, <1>3, <1>4, <1>5, <1>6, <1>7, <1>8, <1>9, <1>10, <1>11, <1>12,
     <1>13, <1>14 DEF RunStep

\* So do time and crashes.
LEMMA NextTypes ==
  ASSUME Typed, [Next]_vars
  PROVE  Typed'
<1> USE DEF Typed, TypeOK, TurnLeft, memory
<1>1. CASE WorkerAcquires \/ WorkerStep
  BY <1>1, WorkerTypes
<1>2. ASSUME NEW s \in Sleeper, CheckState(s) \/ RunStep(s) PROVE Typed'
  BY <1>2, RunTypes
<1>3. CASE Tick
  <2>1. quiet' \in 0 .. IdleTicks
    BY <1>3, SizeAssumption DEF Tick, Older
  <2>2. QED
    BY <1>3, <2>1, StateType DEF Tick
<1>4. CASE ContextExpires
  <2>1. /\ context' \in Seq(Entry) /\ Len(context') <= MaxLen
        /\ dropped' \in SUBSET Turn
    BY <1>4, CoveredTurns, SizeAssumption DEF ContextExpires
  <2>2. QED
    BY <1>4, <2>1 DEF ContextExpires
<1>5. CASE OrphanExpires
  BY <1>5 DEF OrphanExpires
<1>6. CASE HolderOutlivesLock
  BY <1>6, FaultType DEF HolderOutlivesLock
<1>7. ASSUME NEW P \in Process, Crash(P) PROVE Typed'
  <2>1. AtRest \in Run
    BY DEF AtRest, RunAt, Run, SleeperPhases
  <2>2. sleeper' \in [Sleeper -> Run]
    BY <1>7, <2>1 DEF Crash, Run
  <2>3. QED
    BY <1>7, <2>2, FaultType DEF Crash, Run, WorkerPhases
<1>8. CASE UNCHANGED vars
  BY <1>8 DEF vars
<1>9. QED
  BY <1>1, <1>2, <1>3, <1>4, <1>5, <1>6, <1>7, <1>8 DEF Next

\* The history never outgrows its cap, and the key of the state never lives
\* longer than its ttl, for any number of turns and any faults.
THEOREM TypeCorrectness == Spec => []TypeOK
<1>1. Init => Typed
  BY InitTypes DEF Init, Typed, TurnLeft
<1>2. Typed /\ [Next]_vars => Typed'
  BY NextTypes
<1>3. Typed => TypeOK
  BY DEF Typed
<1>4. QED
  BY <1>1, <1>2, <1>3, PTL DEF Spec

-----------------------------------------------------------------------------
(* The state                                                               *)

\* Whatever sets the state, "thinking" is set with a ttl or aged with one.
LEMMA ThinkingStep ==
  ASSUME TypeOK, ThinkingExpires,
         \/ UNCHANGED state \/ SetThinking \/ SetIdle \/ SetSleeping
         \/ state' = Aged
  PROVE  ThinkingExpires'
<1>1. CASE UNCHANGED state
  BY <1>1 DEF ThinkingExpires
<1>2. CASE SetThinking \/ SetIdle \/ SetSleeping
  BY <1>2, SizeAssumption
  DEF ThinkingExpires, SetThinking, SetIdle, SetSleeping, SetState
<1>3. CASE state' = Aged
  <2>1. CASE state.status = "none" \/ state.ttl = 1
    BY <1>3, <2>1 DEF Aged, NoState, ThinkingExpires
  <2>2. CASE ~(state.status = "none" \/ state.ttl = 1)
    <3>1. state' = [state EXCEPT !.age = Older(@),
                                 !.ttl = IF @ = 0 THEN 0 ELSE @ - 1]
      BY <1>3, <2>2 DEF Aged
    <3>2. /\ state'.status = state.status
          /\ state'.ttl = IF state.ttl = 0 THEN 0 ELSE state.ttl - 1
      BY <3>1 DEF TypeOK
    <3>3. state.ttl \in Nat
      BY SizeAssumption DEF TypeOK
    <3>4. QED
      BY <2>2, <3>2, <3>3 DEF ThinkingExpires
  <2>3. QED
    BY <2>1, <2>2
<1>4. QED
  BY <1>1, <1>2, <1>3

\* Every action treats the state in one of these ways.
LEMMA StateSteps ==
  ASSUME [Next]_vars
  PROVE  \/ UNCHANGED state \/ SetThinking \/ SetIdle \/ SetSleeping
         \/ state' = Aged
<1>1. CASE WorkerAcquires \/ WorkerStep
  BY <1>1 DEF WorkerAcquires, WorkerStep, Think, SaveTurn, SaveFails,
              BackToIdle, WorkerFails, WorkerReleases
<1>2. ASSUME NEW s \in Sleeper, CheckState(s) \/ RunStep(s)
      PROVE  UNCHANGED state \/ SetIdle \/ SetSleeping
  BY <1>2 DEF CheckState, RunStep, CheckLength, TryLock, ReadHistory,
              FallAsleep, LeaveEarly, PersistFacts, Vectorize, EmbedFails,
              Swap, RunFails, Wake, WakeFails, SleeperReleases
<1>3. CASE Tick
  BY <1>3 DEF Tick
<1>4. CASE ContextExpires \/ OrphanExpires \/ HolderOutlivesLock
  BY <1>4 DEF ContextExpires, OrphanExpires, HolderOutlivesLock
<1>5. ASSUME NEW P \in Process, Crash(P) PROVE UNCHANGED state
  BY <1>5 DEF Crash
<1>6. CASE UNCHANGED vars
  BY <1>6 DEF vars
<1>7. QED
  BY <1>1, <1>2, <1>3, <1>4, <1>5, <1>6 DEF Next

\* A crash never leaves a user "thinking" for good: at every moment at which
\* the status is "thinking" its key has a ttl.
THEOREM ThinkingExpiresHolds == Spec => []ThinkingExpires
<1> DEFINE I == Typed /\ ThinkingExpires
<1>1. Init => I
  BY InitTypes DEF Init, Typed, TurnLeft, ThinkingExpires, NoState
<1>2. I /\ [Next]_vars => I'
  BY NextTypes, ThinkingStep, StateSteps DEF Typed
<1>3. QED
  BY <1>1, <1>2, PTL DEF Spec

-----------------------------------------------------------------------------
(* Facts before summaries                                                  *)

\* What a run has read is backed by committed facts as the history is, and
\* after the commit it is covered by them.
SeenBacked ==
  \A s \in Sleeper :
    /\ Backed(sleeper[s].seen, Recorded)
    /\ sleeper[s].phase \in {"persisted", "embedded"}
         => Covered(sleeper[s].seen) \subseteq Recorded

FInv == Typed /\ FactsBeforeSummary /\ SeenBacked

\* More facts back as much, and so does a part of a history.
LEMMA BackedMore ==
  ASSUME NEW h, NEW F, NEW G, Backed(h, F), F \subseteq G
  PROVE  Backed(h, G)
BY DEF Backed

\* The commit of a run records every turn that it has read, and those recorded
\* before stay so: a row is refreshed, never removed.
LEMMA CommitRecords ==
  ASSUME TypeOK, NEW R \in SUBSET Turn, NEW P \in SUBSET R,
         NEW F \in Firsts(P), F \in SUBSET Turn,
         hardFacts' = Upserted(hardFacts, F),
         surplus' = surplus \union (R \ P)
  PROVE  Recorded \subseteq Recorded' /\ R \subseteq Recorded'
<1>1. ASSUME NEW t \in Recorded PROVE t \in Recorded'
  <2>1. CASE t \in surplus
    BY <2>1, <1>1 DEF Recorded
  <2>2. ASSUME NEW f \in hardFacts, FactOf[f] = FactOf[t]
        PROVE  t \in Recorded'
    <3>1. CASE \E g \in F : FactOf[g] = FactOf[f]
      BY <1>1, <2>2, <3>1 DEF Recorded, Upserted
    <3>2. CASE \A g \in F : FactOf[g] # FactOf[f]
      BY <1>1, <2>2, <3>2 DEF Recorded, Upserted
    <3>3. QED
      BY <3>1, <3>2
  <2>3. QED
    BY <1>1, <2>1, <2>2 DEF Recorded
<1>2. ASSUME NEW t \in R PROVE t \in Recorded'
  <2>1. CASE t \in P
    <3>1. PICK f \in F : FactOf[f] = FactOf[t]
      BY <2>1 DEF Firsts
    <3>2. QED
      BY <1>2, <3>1 DEF Recorded, Upserted
  <2>2. CASE t \notin P
    BY <1>2, <2>2 DEF Recorded
  <2>3. QED
    BY <2>1, <2>2
<1>3. QED
  BY <1>1, <1>2

\* A run that changes its phase and commits nothing.
LEMMA SeenKept ==
  ASSUME FInv, NEW s \in Sleeper, NEW from, NEW to \in SleeperPhases,
         SleeperGoes(s, from, to), UNCHANGED <<hardFacts, surplus>>,
         to \in {"persisted", "embedded"} => from \in {"persisted", "embedded"}
  PROVE  SeenBacked'
<1>1. sleeper \in [Sleeper -> Run]
  BY DEF FInv, Typed, TypeOK, Run
<1>2. /\ sleeper'[s].phase = to /\ sleeper[s].phase = from
      /\ sleeper'[s].seen = sleeper[s].seen
      /\ \A r \in Sleeper \ {s} : sleeper'[r] = sleeper[r]
  BY <1>1, PhaseType
<1>3. QED
  BY <1>2 DEF FInv, SeenBacked, Recorded

\* A step of a run.
LEMMA RunFacts ==
  ASSUME FInv, NEW s \in Sleeper, CheckState(s) \/ RunStep(s)
  PROVE  FactsBeforeSummary' /\ SeenBacked'
<1> USE DEF memory
<1>0. /\ sleeper \in [Sleeper -> Run] /\ context \in Seq(Entry)
      /\ sleeper[s].seen \in Seq(Entry)
  BY DEF FInv, Typed, TypeOK, Run
<1>p. {"rest", "eligible", "long", "locked", "asleep", "persisted", "embedded",
       "waking", "leaving"} \subseteq SleeperPhases
  BY DEF SleeperPhases
<1>1. CASE CheckState(s) \/ CheckLength(s) \/ TryLock(s) \/ FallAsleep(s)
           \/ LeaveEarly(s) \/ RunFails(s) \/ Wake(s) \/ WakeFails(s)
  <2>1. UNCHANGED <<context, hardFacts, surplus>>
    BY <1>1 DEF CheckState, CheckLength, TryLock, FallAsleep, LeaveEarly,
                RunFails, Wake, WakeFails
  <2>2. PICK from, to :
          /\ SleeperGoes(s, from, to) /\ to \in SleeperPhases
          /\ to \in {"persisted", "embedded"}
               => from \in {"persisted", "embedded"}
    <3>2. CASE CheckState(s) \/ CheckLength(s) \/ TryLock(s)
      BY <3>2, <1>p DEF CheckState, CheckLength, TryLock
    <3>3. CASE FallAsleep(s) \/ LeaveEarly(s) \/ RunFails(s) \/ Wake(s)
               \/ WakeFails(s)
      BY <3>3, <1>p DEF FallAsleep, LeaveEarly, RunFails, Wake, WakeFails
    <3>4. QED
      BY <1>1, <3>2, <3>3
  <2>3. SeenBacked'
    BY <2>1, <2>2, SeenKept
  <2>4. QED
    BY <2>1, <2>3 DEF FInv, FactsBeforeSummary, Recorded
<1>2. CASE ReadHistory(s)
  <2>1. UNCHANGED <<context, hardFacts, surplus>> /\ Recorded' = Recorded
    BY <1>2 DEF ReadHistory, Recorded
  <2>2. /\ sleeper'[s].seen \in {<<>>, context}
        /\ sleeper'[s].phase \in {"leaving", "read"}
        /\ \A r \in Sleeper \ {s} : sleeper'[r] = sleeper[r]
    BY <1>0, <1>2 DEF ReadHistory, RunAt
  <2>3. Backed(context, Recorded) /\ Backed(<<>>, Recorded)
    BY DEF FInv, FactsBeforeSummary, Backed
  <2>4. QED
    BY <2>1, <2>2, <2>3 DEF FInv, FactsBeforeSummary, SeenBacked
<1>3. CASE PersistFacts(s)
  <2> DEFINE R == Raw(sleeper[s].seen)
  <2>1. /\ sleeper'[s].phase = "persisted"
        /\ sleeper'[s].seen = sleeper[s].seen
        /\ \A r \in Sleeper \ {s} : sleeper'[r] = sleeper[r]
        /\ UNCHANGED context
    BY <1>0, <1>3, PersistType DEF PersistFacts
  <2>2. Recorded \subseteq Recorded' /\ R \subseteq Recorded'
    <3>1. PICK P, F :
            /\ P \in SUBSET R /\ F \in Firsts(P)
            /\ R \in SUBSET Turn /\ F \in SUBSET Turn
            /\ hardFacts' = Upserted(hardFacts, F)
            /\ surplus' = surplus \union (R \ P)
      BY <1>0, <1>3, PersistType
    <3> HIDE DEF R
    <3>2. QED
      BY <3>1, CommitRecords DEF FInv, Typed
  <2>3. Covered(sleeper[s].seen) \subseteq Recorded'
    <3>1. Covered(sleeper[s].seen) \subseteq Recorded \union R
      BY <1>0, BackedCovers DEF FInv, SeenBacked
    <3>2. QED
      BY <2>2, <3>1
  <2>4. \A r \in Sleeper : Backed(sleeper[r].seen, Recorded')
    BY <2>2, BackedMore DEF FInv, SeenBacked
  <2>5. Backed(context, Recorded')
    BY <2>2, BackedMore DEF FInv, FactsBeforeSummary, Backed
  <2>6. \A r \in Sleeper :
          /\ Backed(sleeper'[r].seen, Recorded')
          /\ sleeper'[r].phase \in {"persisted", "embedded"}
               => Covered(sleeper'[r].seen) \subseteq Recorded'
    BY <2>1, <2>2, <2>3, <2>4 DEF FInv, SeenBacked
  <2>7. QED
    BY <2>1, <2>5, <2>6 DEF FactsBeforeSummary, SeenBacked, Backed
<1>4. CASE Swap(s)
  <2>1. /\ context' = <<Summary(Covered(sleeper[s].seen))>>
        /\ UNCHANGED <<hardFacts, surplus>>
        /\ SleeperGoes(s, "embedded", "waking")
    BY <1>4 DEF Swap
  <2>2. Covered(sleeper[s].seen) \subseteq Recorded
    BY <2>1 DEF FInv, SeenBacked, SleeperGoes
  <2>3. FactsBeforeSummary'
    BY <2>1, <2>2 DEF FactsBeforeSummary, Summary, Recorded
  <2>4. SeenBacked'
    BY <1>p, <2>1, SeenKept
  <2>5. QED
    BY <2>3, <2>4
<1>5. CASE SleeperReleases(s)
  <2>1. /\ UNCHANGED <<context, hardFacts, surplus>>
        /\ sleeper'[s] = AtRest
        /\ \A r \in Sleeper \ {s} : sleeper'[r] = sleeper[r]
    BY <1>0, <1>5 DEF SleeperReleases
  <2>2. QED
    BY <2>1 DEF FInv, FactsBeforeSummary, SeenBacked, Backed, AtRest, RunAt, Recorded
<1>6. CASE Vectorize(s) \/ EmbedFails(s)
  <2>1. UNCHANGED <<context, hardFacts, surplus>> /\ VectorizeEnds(s)
    BY <1>6 DEF Vectorize, EmbedFails
  <2>2. Recorded' = Recorded
    BY <2>1 DEF Recorded
  <2>3. QED
    BY <1>0, <2>1, <2>2, EmbeddedType DEF FInv, FactsBeforeSummary, SeenBacked
<1>7. QED
  BY <1>1, <1>2, <1>3, <1>4, <1>5, <1>6 DEF RunStep

\* A saved turn is verbatim, and the cap keeps entries as they are.
LEMMA NextFacts ==
  ASSUME FInv, [Next]_vars
  PROVE  FInv'
<1> USE DEF memory
<1>1. CASE SaveTurn
  <2> DEFINE e == TurnEntry(turns + 1)
             a == Append(context, e)
  <2>1. /\ context' = Trimmed(a)
        /\ UNCHANGED <<sleeper, hardFacts, surplus>>
    BY <1>1 DEF SaveTurn
  <2>2. turns + 1 \in Turn /\ context \in Seq(Entry)
    BY <1>1, SizeAssumption
    DEF SaveTurn, WorkerGoes, FInv, Typed, TypeOK, TurnLeft, Turn
  <2>3. e \in Entry /\ e.role = "turn"
    BY <2>2 DEF TurnEntry, Entry
  <2> HIDE DEF e
  <2>4. /\ a \in Seq(Entry)
        /\ \A i \in DOMAIN a : a[i] = e \/ \E j \in DOMAIN context : a[i] = context[j]
    BY <2>2, <2>3
  <2> HIDE DEF a
  <2>5. \A i \in DOMAIN context' :
          context'[i] = e \/ \E j \in DOMAIN context : context'[i] = context[j]
    BY <2>1, <2>4, TrimmedIsPart
  <2>6. FactsBeforeSummary'
    BY <2>1, <2>3, <2>5 DEF FInv, FactsBeforeSummary, Recorded
  <2>7. QED
    BY <2>1, <2>6, NextTypes DEF FInv, SeenBacked, Recorded
<1>2. ASSUME NEW s \in Sleeper, CheckState(s) \/ RunStep(s) PROVE FInv'
  BY <1>2, RunFacts, NextTypes DEF FInv
<1>3. CASE ContextExpires
  <2>1. context' = <<>> /\ UNCHANGED <<sleeper, hardFacts, surplus>>
    BY <1>3 DEF ContextExpires
  <2>2. SeenBacked' /\ FactsBeforeSummary'
    <3>1. Recorded' = Recorded
      BY <2>1 DEF Recorded
    <3>2. SeenBacked'
      BY <2>1, <3>1 DEF FInv, SeenBacked
    <3>3. FactsBeforeSummary'
      BY <2>1 DEF FactsBeforeSummary
    <3>4. QED
      BY <3>2, <3>3
  <2>3. QED
    BY <2>2, NextTypes DEF FInv
<1>4. ASSUME NEW P \in Process, Crash(P) PROVE FInv'
  <2>1. /\ UNCHANGED <<context, hardFacts, surplus>>
        /\ \A r \in Sleeper : sleeper'[r] \in {AtRest, sleeper[r]}
    BY <1>4 DEF Crash
  <2>2. QED
    BY <2>1, NextTypes
    DEF FInv, SeenBacked, FactsBeforeSummary, Backed, AtRest, RunAt, Covered, Recorded
<1>5. CASE UNCHANGED <<context, sleeper, hardFacts, surplus>>
  BY <1>5, NextTypes DEF FInv, SeenBacked, FactsBeforeSummary, Recorded
<1>6. ASSUME \/ WorkerAcquires \/ Think \/ SaveFails \/ BackToIdle
             \/ WorkerFails \/ WorkerReleases \/ Tick \/ OrphanExpires
             \/ HolderOutlivesLock \/ UNCHANGED vars
      PROVE  UNCHANGED <<context, sleeper, hardFacts, surplus>>
  BY <1>6 DEF WorkerAcquires, Think, SaveFails, BackToIdle, WorkerFails,
              WorkerReleases, Tick, OrphanExpires, HolderOutlivesLock, vars
<1>7. QED
  BY <1>1, <1>2, <1>3, <1>4, <1>5, <1>6 DEF Next, WorkerStep

\* A turn disappears behind a summary only after its fact, or one of another
\* turn with its category and key, is committed, whatever fails, dies or expires
\* before the swap: only facts beyond the cap of a committed run are lost.
THEOREM FactsBeforeSummaryHolds == Spec => []FactsBeforeSummary
<1>1. Init => FInv
  BY InitTypes
  DEF Init, FInv, Typed, TurnLeft, FactsBeforeSummary, SeenBacked, Backed,
      AtRest, RunAt
<1>2. FInv /\ [Next]_vars => FInv'
  BY NextFacts
<1>3. FInv => FactsBeforeSummary
  BY DEF FInv
<1>4. QED
  BY <1>1, <1>2, <1>3, PTL DEF Spec

-----------------------------------------------------------------------------
(* No turn is forgotten                                                    *)

\* The phases of a run with the lock, and those with a history that it read.
Holding == {"locked", "read", "asleep", "persisted", "embedded", "waking",
            "leaving"}
Reading == {"read", "asleep", "persisted", "embedded"}

\* Who is at work has the lock: the lock keeps the Worker and the runs apart.
LockHeld ==
  /\ worker # "rest" => lock = Worker
  /\ \A s \in Sleeper : sleeper[s].phase \in Holding => lock = s

\* What a run has read still tells of every turn that was not dropped.
SeenComplete ==
  \A s \in Sleeper :
    sleeper[s].phase \in Reading
      => 1 .. turns \subseteq Covered(sleeper[s].seen) \union dropped

Remembered == 1 .. turns \subseteq Covered(context) \union dropped

\* All of it as long as no lock has expired under its holder.
Kept == LockHeld /\ SeenComplete /\ Remembered
KInv == Typed /\ ("expiry" \notin faults => Kept)

\* The faults that have happened stay.
LEMMA FaultsStay ==
  ASSUME Typed, [Next]_vars
  PROVE  faults \subseteq faults'
<1> USE DEF memory
<1>1. CASE WorkerAcquires \/ WorkerStep
  BY <1>1 DEF WorkerAcquires, WorkerStep, Think, SaveTurn, SaveFails,
              BackToIdle, WorkerFails, WorkerReleases, Fault
<1>2. ASSUME NEW s \in Sleeper, CheckState(s) \/ RunStep(s)
      PROVE  faults \subseteq faults'
  BY <1>2 DEF CheckState, RunStep, CheckLength, TryLock, ReadHistory,
              FallAsleep, LeaveEarly, PersistFacts, Vectorize, EmbedFails,
              Swap, RunFails, Wake, WakeFails, SleeperReleases, Fault
<1>3. CASE Tick \/ ContextExpires \/ OrphanExpires \/ HolderOutlivesLock
  BY <1>3 DEF Tick, ContextExpires, OrphanExpires, HolderOutlivesLock, Fault
<1>4. ASSUME NEW P \in Process, Crash(P) PROVE faults \subseteq faults'
  BY <1>4 DEF Crash, Fault
<1>5. CASE UNCHANGED vars
  BY <1>5 DEF vars
<1>6. QED
  BY <1>1, <1>2, <1>3, <1>4, <1>5 DEF Next

\* A run that goes on with the lock it has, or gives up before it has it.
LEMMA RunGoesOn ==
  ASSUME Typed, Kept, NEW s \in Sleeper, NEW from, NEW to \in SleeperPhases,
         SleeperGoes(s, from, to),
         UNCHANGED <<context, lock, worker, turns, dropped>>,
         to \in Holding => from \in Holding,
         to \in Reading => from \in Reading
  PROVE  Kept'
<1>1. sleeper \in [Sleeper -> Run]
  BY DEF Typed, TypeOK, Run
<1>2. /\ sleeper'[s].phase = to /\ sleeper[s].phase = from
      /\ sleeper'[s].seen = sleeper[s].seen
      /\ \A r \in Sleeper \ {s} : sleeper'[r] = sleeper[r]
  BY <1>1, PhaseType
<1>3. LockHeld'
  BY <1>2 DEF Kept, LockHeld
<1>4. SeenComplete'
  BY <1>2 DEF Kept, SeenComplete
<1>5. Remembered'
  BY DEF Kept, Remembered
<1>6. QED
  BY <1>3, <1>4, <1>5 DEF Kept

\* A step of a run.
LEMMA RunKeeps ==
  ASSUME Typed, Kept, NEW s \in Sleeper, CheckState(s) \/ RunStep(s)
  PROVE  Kept'
<1> USE DEF memory
<1>0. /\ sleeper \in [Sleeper -> Run] /\ sleeper[s].seen \in Seq(Entry)
  BY DEF Typed, TypeOK, Run
<1>p. {"rest", "eligible", "long", "locked", "asleep", "persisted", "embedded",
       "waking", "leaving"} \subseteq SleeperPhases
  BY DEF SleeperPhases
<1>1. CASE CheckState(s) \/ CheckLength(s) \/ FallAsleep(s) \/ LeaveEarly(s)
           \/ RunFails(s) \/ Wake(s) \/ WakeFails(s)
  <2>1. UNCHANGED <<context, lock, worker, turns, dropped>>
    BY <1>1 DEF CheckState, CheckLength, FallAsleep, LeaveEarly,
                RunFails, Wake, WakeFails
  <2>2. PICK from, to :
          /\ SleeperGoes(s, from, to) /\ to \in SleeperPhases
          /\ to \in Holding => from \in Holding
          /\ to \in Reading => from \in Reading
    <3>1. CASE CheckState(s) \/ CheckLength(s)
      BY <3>1, <1>p DEF CheckState, CheckLength, Holding, Reading
    <3>2. CASE FallAsleep(s)
      BY <3>2, <1>p DEF FallAsleep, Holding, Reading
    <3>3. CASE LeaveEarly(s) \/ RunFails(s) \/ Wake(s) \/ WakeFails(s)
      BY <3>3, <1>p DEF LeaveEarly, RunFails, Wake, WakeFails, Holding, Reading
    <3>4. QED
      BY <1>1, <3>1, <3>2, <3>3
  <2>3. QED
    BY <2>1, <2>2, RunGoesOn
<1>2. CASE TryLock(s)
  <2>1. UNCHANGED <<context, worker, turns, dropped>>
    BY <1>2 DEF TryLock
  <2>2. CASE lock # Nobody /\ UNCHANGED lock /\ SleeperGoes(s, "long", "rest")
    BY <1>p, <2>1, <2>2, RunGoesOn DEF Holding, Reading
  <2>3. CASE Take(s) /\ SleeperGoes(s, "long", "locked")
    <3>1. /\ sleeper'[s].phase = "locked"
          /\ \A r \in Sleeper \ {s} : sleeper'[r] = sleeper[r]
      BY <1>0, <1>p, <2>3, PhaseType
    <3>2. /\ lock' = s /\ worker = "rest"
          /\ \A r \in Sleeper : sleeper[r].phase \notin Holding
      BY <2>3, TokenAssumption DEF Take, Kept, LockHeld
    <3>3. LockHeld'
      BY <2>1, <3>1, <3>2 DEF LockHeld
    <3>4. SeenComplete' /\ Remembered'
      BY <2>1, <3>1 DEF Kept, SeenComplete, Remembered, Reading
    <3>5. QED
      BY <3>3, <3>4 DEF Kept
  <2>4. QED
    BY <1>2, <2>2, <2>3 DEF TryLock
<1>3. CASE ReadHistory(s)
  <2>1. /\ UNCHANGED <<context, lock, worker, turns, dropped>>
        /\ sleeper[s].phase = "locked"
        /\ \/ sleeper'[s] = RunAt("leaving", <<>>)
           \/ sleeper'[s] = RunAt("read", context)
        /\ \A r \in Sleeper \ {s} : sleeper'[r] = sleeper[r]
    BY <1>0, <1>3 DEF ReadHistory
  <2>2. LockHeld'
    BY <2>1 DEF Kept, LockHeld, AtRest, RunAt, Holding
  <2>3. SeenComplete' /\ Remembered'
    BY <2>1 DEF Kept, SeenComplete, Remembered, AtRest, RunAt, Reading
  <2>4. QED
    BY <2>2, <2>3 DEF Kept
<1>4. CASE Swap(s)
  <2>1. /\ UNCHANGED <<lock, worker, turns, dropped>>
        /\ context' = <<Summary(Covered(sleeper[s].seen))>>
        /\ SleeperGoes(s, "embedded", "waking")
    BY <1>4 DEF Swap
  <2>2. /\ sleeper[s].phase = "embedded" /\ sleeper'[s].phase = "waking"
        /\ \A r \in Sleeper \ {s} : sleeper'[r] = sleeper[r]
    BY <1>0, <1>p, <2>1, PhaseType
  <2>3. Covered(context') = Covered(sleeper[s].seen)
    BY <1>0, <2>1, CoveredTurns, CoveredSummary
  <2>4. Remembered'
    BY <2>1, <2>2, <2>3 DEF Kept, SeenComplete, Remembered, Covered, Reading
  <2>5. LockHeld' /\ SeenComplete'
    BY <2>1, <2>2 DEF Kept, LockHeld, SeenComplete, Holding, Reading
  <2>6. QED
    BY <2>4, <2>5 DEF Kept
<1>5. CASE SleeperReleases(s)
  <2>1. /\ UNCHANGED <<context, worker, turns, dropped>>
        /\ sleeper[s].phase = "leaving" /\ sleeper'[s] = AtRest
        /\ \A r \in Sleeper \ {s} : sleeper'[r] = sleeper[r]
        /\ GiveBack(s)
    BY <1>0, <1>5 DEF SleeperReleases
  <2>2. lock = s /\ worker = "rest"
    BY <2>1, TokenAssumption DEF Kept, LockHeld, Holding
  <2>3. \A r \in Sleeper : sleeper'[r].phase \notin Holding
    BY <2>1, <2>2 DEF Kept, LockHeld, AtRest, RunAt, Holding
  <2>4. LockHeld'
    BY <2>1, <2>2, <2>3 DEF LockHeld
  <2>5. SeenComplete' /\ Remembered'
    BY <2>1 DEF Kept, SeenComplete, Remembered, AtRest, RunAt, Reading
  <2>6. QED
    BY <2>4, <2>5 DEF Kept
<1>6. CASE PersistFacts(s) \/ Vectorize(s) \/ EmbedFails(s)
  <2>1. /\ UNCHANGED <<context, lock, worker, turns, dropped>>
        /\ sleeper[s].phase \in {"asleep", "persisted"}
        /\ sleeper'[s].phase \in {"persisted", "embedded"}
        /\ sleeper'[s].seen = sleeper[s].seen
        /\ \A r \in Sleeper \ {s} : sleeper'[r] = sleeper[r]
    BY <1>0, <1>6, PersistType, EmbeddedType DEF PersistFacts, Vectorize, EmbedFails
  <2>2. QED
    BY <2>1 DEF Kept, LockHeld, SeenComplete, Remembered, Holding, Reading
<1>7. QED
  BY <1>1, <1>2, <1>3, <1>4, <1>5, <1>6 DEF RunStep

\* A turn of the Worker: no run is at work on a history while it is saved.
LEMMA WorkerKeeps ==
  ASSUME Typed, Kept, WorkerAcquires \/ WorkerStep
  PROVE  Kept'
<1> USE DEF memory
<1>1. CASE WorkerAcquires
  <2>1. /\ UNCHANGED <<context, sleeper, turns, dropped>>
        /\ lock = Nobody /\ lock' = Worker
    BY <1>1 DEF WorkerAcquires, Take
  <2>2. \A s \in Sleeper : sleeper[s].phase \notin Holding
    BY <2>1, TokenAssumption DEF Kept, LockHeld
  <2>3. QED
    BY <2>1, <2>2 DEF Kept, LockHeld, SeenComplete, Remembered
<1>2. CASE Think \/ SaveFails \/ BackToIdle \/ WorkerFails
  <2>1. /\ UNCHANGED <<context, sleeper, lock, turns, dropped>>
        /\ worker # "rest"
    BY <1>2 DEF Think, SaveFails, BackToIdle, WorkerFails, WorkerGoes
  <2>2. QED
    BY <2>1 DEF Kept, LockHeld, SeenComplete, Remembered
<1>3. CASE SaveTurn
  <2> DEFINE a == Append(context, TurnEntry(turns + 1))
  <2>1. /\ worker = "thinking"
        /\ context' = Trimmed(a)
        /\ dropped' = dropped \union (Covered(a) \ Covered(Trimmed(a)))
        /\ turns' = turns + 1
        /\ UNCHANGED <<sleeper, lock>>
    BY <1>3 DEF SaveTurn, WorkerGoes
  <2>2. turns \in Nat /\ turns + 1 \in Turn /\ context \in Seq(Entry)
    BY <2>1, SizeAssumption DEF Typed, TypeOK, TurnLeft, Turn
  <2>3. Covered(a) = Covered(context) \union {turns + 1}
    BY <2>2, CoveredAppend
  <2> HIDE DEF a
  <2>4. Covered(a) \subseteq Covered(context') \union dropped'
    BY <2>1
  <2>5. 1 .. turns + 1 = 1 .. turns \union {turns + 1}
    BY <2>2
  <2>6. Remembered'
    BY <2>1, <2>3, <2>4, <2>5 DEF Kept, Remembered
  <2>7. \A s \in Sleeper : sleeper[s].phase \notin Holding
    BY <2>1, TokenAssumption DEF Kept, LockHeld
  <2>8. LockHeld' /\ SeenComplete'
    BY <2>1, <2>7 DEF Kept, LockHeld, SeenComplete, Holding, Reading
  <2>9. QED
    BY <2>6, <2>8 DEF Kept
<1>4. CASE WorkerReleases
  <2>1. /\ UNCHANGED <<context, sleeper, turns, dropped>>
        /\ worker = "leaving" /\ worker' = "rest"
    BY <1>4 DEF WorkerReleases, WorkerGoes
  <2>2. \A s \in Sleeper : sleeper[s].phase \notin Holding
    BY <2>1, TokenAssumption DEF Kept, LockHeld
  <2>3. QED
    BY <2>1, <2>2 DEF Kept, LockHeld, SeenComplete, Remembered
<1>5. QED
  BY <1>1, <1>2, <1>3, <1>4 DEF WorkerStep

\* So do time, crashes, and the expiry of a lock nobody holds.
LEMMA NextKeeps ==
  ASSUME KInv, [Next]_vars
  PROVE  KInv'
<1> USE DEF memory
<1>1. Typed' /\ faults \subseteq faults'
  BY NextTypes, FaultsStay DEF KInv
<1> SUFFICES ASSUME "expiry" \notin faults' PROVE Kept'
  BY <1>1 DEF KInv
<1>2. Typed /\ Kept
  BY <1>1 DEF KInv
<1>3. CASE WorkerAcquires \/ WorkerStep
  BY <1>2, <1>3, WorkerKeeps
<1>4. ASSUME NEW s \in Sleeper, CheckState(s) \/ RunStep(s) PROVE Kept'
  BY <1>2, <1>4, RunKeeps
<1>5. CASE Tick \/ UNCHANGED vars
  <2>1. UNCHANGED <<context, lock, worker, sleeper, turns, dropped>>
    BY <1>5 DEF Tick, vars
  <2>2. QED
    BY <1>2, <2>1 DEF Kept, LockHeld, SeenComplete, Remembered
<1>6. CASE ContextExpires
  <2>1. /\ dropped' = dropped \union Covered(context)
        /\ UNCHANGED <<lock, worker, sleeper, turns>>
    BY <1>6 DEF ContextExpires
  <2>2. QED
    BY <1>2, <2>1 DEF Kept, LockHeld, SeenComplete, Remembered
<1>7. CASE OrphanExpires
  <2>1. /\ lock = Orphan
        /\ UNCHANGED <<context, worker, sleeper, turns, dropped>>
    BY <1>7 DEF OrphanExpires
  <2>2. /\ worker = "rest"
        /\ \A s \in Sleeper : sleeper[s].phase \notin Holding
    BY <1>2, <2>1, TokenAssumption DEF Kept, LockHeld
  <2>3. QED
    BY <1>2, <2>1, <2>2 DEF Kept, LockHeld, SeenComplete, Remembered
<1>8. CASE HolderOutlivesLock
  BY <1>2, <1>8, FaultType DEF HolderOutlivesLock, Typed
<1>9. ASSUME NEW P \in Process, Crash(P) PROVE Kept'
  <2>1. /\ UNCHANGED <<context, turns, dropped>>
        /\ worker' = IF Worker \in P THEN "rest" ELSE worker
        /\ lock' = IF lock \in P THEN Orphan ELSE lock
        /\ \A r \in Sleeper :
             sleeper'[r] = IF r \in P THEN AtRest ELSE sleeper[r]
    BY <1>9 DEF Crash
  <2>2. LockHeld'
    BY <1>2, <2>1 DEF Kept, LockHeld, AtRest, RunAt, Holding
  <2>3. SeenComplete' /\ Remembered'
    BY <1>2, <2>1 DEF Kept, SeenComplete, Remembered, AtRest, RunAt, Reading
  <2>4. QED
    BY <2>2, <2>3 DEF Kept
<1>10. QED
  BY <1>3, <1>4, <1>5, <1>6, <1>7, <1>8, <1>9 DEF Next

\* At the start nothing is held, read or saved.
LEMMA KInvInit == Init => KInv
<1> SUFFICES ASSUME Init PROVE KInv
  OBVIOUS
<1>1. Typed
  BY InitTypes DEF Init, Typed, TurnLeft
<1>2. LockHeld /\ SeenComplete
  BY DEF Init, LockHeld, SeenComplete, AtRest, RunAt, Holding, Reading
<1>3. Remembered
  BY DEF Init, Remembered
<1>4. QED
  BY <1>1, <1>2, <1>3 DEF KInv, Kept

\* No swap erases a turn that was saved after the history was read, whichever
\* of the Worker and the runs crash or fail, as long as no lock expires under
\* its holder: each saved turn is told of, or left by the cap or the ttl.
THEOREM NoTurnForgottenHolds == Spec => []NoTurnForgotten
<1>1. Init => KInv
  BY KInvInit
<1>2. KInv /\ [Next]_vars => KInv'
  BY NextKeeps
<1>3. KInv => NoTurnForgotten
  BY DEF KInv, Kept, Remembered, NoTurnForgotten
<1>4. QED
  BY <1>1, <1>2, <1>3, PTL DEF Spec

-----------------------------------------------------------------------------
(* No summary of a summary                                                 *)

\* What a run has read is long enough, and still is the history, unless the
\* ttl of that has passed meanwhile.
SeenCurrent ==
  \A s \in Sleeper :
    sleeper[s].phase \in Reading
      => /\ Len(sleeper[s].seen) >= MinEntries
         /\ context = sleeper[s].seen \/ context = <<>>

CInv == KInv /\ ("expiry" \notin faults => SeenCurrent)

\* Steps that write nothing to the history, in which no run reads it.
LEMMA CurrentStays ==
  ASSUME SeenCurrent, context' = context \/ context' = <<>>,
         \A r \in Sleeper :
           sleeper'[r].phase \in Reading
             => sleeper[r].phase \in Reading /\ sleeper'[r].seen = sleeper[r].seen
  PROVE  SeenCurrent'
BY DEF SeenCurrent

\* A step of a run: only the run that has the lock can swap the history.
LEMMA RunKeepsCurrent ==
  ASSUME Typed, Kept, SeenCurrent, NEW s \in Sleeper, CheckState(s) \/ RunStep(s)
  PROVE  SeenCurrent'
<1> USE DEF memory
<1>0. sleeper \in [Sleeper -> Run]
  BY DEF Typed, TypeOK, Run
<1>p. {"rest", "eligible", "long", "locked", "asleep", "persisted", "embedded",
       "waking", "leaving"} \subseteq SleeperPhases
  BY DEF SleeperPhases
<1>1. ASSUME UNCHANGED context, NEW from, NEW to \in SleeperPhases,
             SleeperGoes(s, from, to), to \in Reading => from \in Reading
      PROVE  SeenCurrent'
  <2>1. /\ sleeper'[s].phase = to /\ sleeper[s].phase = from
        /\ sleeper'[s].seen = sleeper[s].seen
        /\ \A r \in Sleeper \ {s} : sleeper'[r] = sleeper[r]
    BY <1>0, <1>1, PhaseType
  <2>2. QED
    BY <1>1, <2>1, CurrentStays
<1>2. CASE CheckState(s) \/ CheckLength(s) \/ TryLock(s)
  BY <1>1, <1>2, <1>p DEF CheckState, CheckLength, TryLock, Reading
<1>3. CASE FallAsleep(s) \/ PersistFacts(s) \/ Vectorize(s) \/ EmbedFails(s)
  <2>1. CASE FallAsleep(s)
    BY <1>1, <1>p, <2>1 DEF FallAsleep, Reading
  <2>2. CASE PersistFacts(s) \/ Vectorize(s) \/ EmbedFails(s)
    <3>1. /\ UNCHANGED context
          /\ sleeper[s].phase \in {"asleep", "persisted"}
          /\ sleeper'[s].seen = sleeper[s].seen
          /\ \A r \in Sleeper \ {s} : sleeper'[r] = sleeper[r]
      BY <1>0, <2>2, PersistType, EmbeddedType DEF PersistFacts, Vectorize, EmbedFails
    <3>2. QED
      BY <3>1, CurrentStays DEF Reading
  <2>3. QED
    BY <1>3, <2>1, <2>2
<1>4. CASE LeaveEarly(s) \/ RunFails(s) \/ Wake(s) \/ WakeFails(s)
  BY <1>1, <1>4, <1>p DEF LeaveEarly, RunFails, Wake, WakeFails, Reading
<1>5. CASE ReadHistory(s)
  <2>1. /\ UNCHANGED context
        /\ \/ sleeper'[s] = RunAt("leaving", <<>>)
           \/ /\ sleeper'[s] = RunAt("read", context)
              /\ ~TooShort(context)
        /\ \A r \in Sleeper \ {s} : sleeper'[r] = sleeper[r]
    BY <1>0, <1>5 DEF ReadHistory
  <2>2. ~TooShort(context) => Len(context) >= MinEntries
    BY SizeAssumption DEF TooShort, Typed, TypeOK
  <2>3. QED
    BY <2>1, <2>2 DEF SeenCurrent, RunAt, Reading
<1>6. CASE Swap(s)
  <2>1. /\ sleeper[s].phase = "embedded" /\ sleeper'[s].phase = "waking"
        /\ \A r \in Sleeper \ {s} : sleeper'[r] = sleeper[r]
    BY <1>0, <1>p, <1>6, PhaseType DEF Swap
  <2>2. \A r \in Sleeper \ {s} : sleeper[r].phase \notin Holding
    BY <2>1 DEF Kept, LockHeld, Holding
  <2>3. QED
    BY <2>1, <2>2 DEF SeenCurrent, Reading, Holding
<1>7. CASE SleeperReleases(s)
  <2>1. /\ UNCHANGED context /\ sleeper'[s].phase = "rest"
        /\ \A r \in Sleeper \ {s} : sleeper'[r] = sleeper[r]
    BY <1>0, <1>7 DEF SleeperReleases, AtRest, RunAt
  <2>2. QED
    BY <2>1, CurrentStays DEF Reading
<1>8. QED
  BY <1>2, <1>3, <1>4, <1>5, <1>6, <1>7 DEF RunStep

\* Every step keeps the invariant: the Worker saves a turn under the lock.
LEMMA NextKeepsCurrent ==
  ASSUME CInv, [Next]_vars
  PROVE  CInv'
<1> USE DEF memory
<1>1. KInv' /\ faults \subseteq faults'
  BY NextKeeps, FaultsStay DEF CInv, KInv
<1> SUFFICES ASSUME "expiry" \notin faults' PROVE SeenCurrent'
  BY <1>1 DEF CInv
<1>2. Typed /\ Kept /\ SeenCurrent
  BY <1>1 DEF CInv, KInv
<1>3. ASSUME UNCHANGED sleeper, context' = context \/ context' = <<>>
      PROVE  SeenCurrent'
  BY <1>2, <1>3, CurrentStays
<1>4. CASE WorkerAcquires \/ WorkerStep
  <2>1. CASE SaveTurn
    <3>1. worker = "thinking" /\ UNCHANGED sleeper
      BY <2>1 DEF SaveTurn, WorkerGoes
    <3>2. \A s \in Sleeper : sleeper[s].phase \notin Holding
      BY <1>2, <3>1, TokenAssumption DEF Kept, LockHeld
    <3>3. QED
      BY <3>1, <3>2 DEF SeenCurrent, Reading, Holding
  <2>2. CASE ~SaveTurn
    BY <1>3, <1>4, <2>2 DEF WorkerAcquires, WorkerStep, Think, SaveFails,
                            BackToIdle, WorkerFails, WorkerReleases
  <2>3. QED
    BY <2>1, <2>2
<1>5. ASSUME NEW s \in Sleeper, CheckState(s) \/ RunStep(s) PROVE SeenCurrent'
  BY <1>2, <1>5, RunKeepsCurrent
<1>6. CASE Tick \/ ContextExpires \/ OrphanExpires \/ HolderOutlivesLock
           \/ UNCHANGED vars
  BY <1>3, <1>6 DEF Tick, ContextExpires, OrphanExpires, HolderOutlivesLock, vars
<1>7. ASSUME NEW P \in Process, Crash(P) PROVE SeenCurrent'
  <2>1. /\ UNCHANGED context
        /\ \A r \in Sleeper :
             sleeper'[r] = IF r \in P THEN AtRest ELSE sleeper[r]
    BY <1>7 DEF Crash
  <2>2. QED
    BY <1>2, <2>1, CurrentStays DEF AtRest, RunAt, Reading
<1>8. QED
  BY <1>4, <1>5, <1>6, <1>7 DEF Next

LEMMA CInvariant == Spec => []CInv
<1>1. Init => CInv
  BY KInvInit DEF CInv, Init, SeenCurrent, AtRest, RunAt, Reading
<1>2. QED
  BY <1>1, NextKeepsCurrent, PTL DEF Spec

\* Two runs that both found the user eligible do not summarise the summary: a
\* swap replaces a history that is still long enough, or one that is gone, as
\* long as no lock expires under its holder.
THEOREM SwapsWorthwhileHolds == Spec => SwapsWorthwhile
<1>1. CInv /\ [Next]_vars
        => [\A s \in Sleeper :
              Swap(s) => \/ Len(context) >= MinEntries \/ context = <<>>
                         \/ "expiry" \in faults]_vars
  <2> SUFFICES ASSUME CInv, NEW s \in Sleeper, Swap(s), "expiry" \notin faults
               PROVE  Len(context) >= MinEntries \/ context = <<>>
    OBVIOUS
  <2>1. sleeper[s].phase \in Reading
    BY DEF Swap, SleeperGoes, Reading
  <2>2. QED
    BY <2>1 DEF CInv, SeenCurrent
<1>2. QED
  BY <1>1, CInvariant, PTL DEF Spec, SwapsWorthwhile

-----------------------------------------------------------------------------
(* The lock by itself                                                      *)
(*                                                                         *)
(* Consolidation takes from UserLock that nobody but its holder, or the    *)
(* end of its time (the fault "expiry"), takes a lock away.  UserLock says *)
(* so of any clients, tokens and times.                                    *)

\* No key, no holder.
LEMMA LockInvInit ==
  ASSUME LockInit
  PROVE  LockInv
BY DEF LockInit, LockInv, LockTypeOK, KeyLives, OwnerLease, TokensDiffer, NoLock

\* Every call of a client and every tick preserves it.
LEMMA LockInvKept ==
  ASSUME LockInv, [LockNext]_lockVars
  PROVE  LockInv'
<1> USE TtlAssumption, UuidAssumption
    DEF LockInv, LockTypeOK, KeyLives, OwnerLease, TokensDiffer, NoLock
<1>1. ASSUME NEW c \in Client, NEW k \in Token, Acquire(c, k)
      PROVE  LockInv'
  BY <1>1 DEF Acquire, Fresh, Free, Locked
<1>2. ASSUME NEW c \in Client, NEW k \in Token, AcquireAnswerLost(c, k)
      PROVE  LockInv'
  BY <1>2 DEF AcquireAnswerLost, Fresh, Free, Locked
<1>3. ASSUME NEW c \in Client, Release(c)
      PROVE  LockInv'
  BY <1>3 DEF Release, AfterRelease
<1>4. ASSUME NEW c \in Client, Abandon(c)
      PROVE  LockInv'
  BY <1>4 DEF Abandon
<1>5. CASE LockTick
  BY <1>5 DEF LockTick, Less
<1>6. CASE MergeDropsKey
  BY <1>6 DEF MergeDropsKey
<1>7. CASE UNCHANGED lockVars
  BY <1>7 DEF lockVars
<1>8. QED
  BY <1>1, <1>2, <1>3, <1>4, <1>5, <1>6, <1>7 DEF LockNext

\* The inductive invariant holds in every reachable state of the lock: the key
\* lives as long as it has time left, an owner within its lease has it unless a
\* merge deleted it, it runs down with the lease of its owner, and no two
\* clients share a token.
THEOREM LockInvariant == LockSpec => []LockInv
<1>1. LockInit => LockInv
  BY LockInvInit
<1>2. LockInv /\ [LockNext]_lockVars => LockInv'
  BY LockInvKept
<1>3. QED
  BY <1>1, <1>2, PTL DEF LockSpec

\* A client within its ttl owns the key unless a merge deleted it: the token
\* check of the Lua script and SET NX together keep every other client's
\* hands off it.
THEOREM LeaseOwnership == LockSpec => []LeaseOwnsKey
<1>1. LockInv => LeaseOwnsKey
  BY DEF LockInv, OwnerLease, LeaseOwnsKey, Secure
<1>2. QED
  BY <1>1, LockInvariant, PTL

\* Two clients overlap only when one has outlived its ttl or lost its key to a
\* merge.
THEOREM Exclusion == LockSpec => []MutualExclusion
<1>1. LockInv => MutualExclusion
  BY DEF LockInv, LockTypeOK, OwnerLease, TokensDiffer, MutualExclusion, Secure
<1>2. QED
  BY <1>1, LockInvariant, PTL
=============================================================================
