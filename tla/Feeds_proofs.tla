---------------------------- MODULE Feeds_proofs ----------------------------
(***************************************************************************)
(* TLAPS proofs about the two sides of the feeds.  FeedSources, for any    *)
(* URLs, callers and limits; then FeedScan, for any sources, entries,      *)
(* budgets, limits, failures and expiries.  Besides the types one          *)
(* invariant carries what is proved of the scan: what the entry in hand    *)
(* still stands for is counted with what was done already.                 *)
(***************************************************************************)
EXTENDS FeedSources, FeedScan, FiniteSetTheorems, WellFoundedInduction, TLAPS

-----------------------------------------------------------------------------
(* Types                                                                   *)

\* Every count the actions take is that of a finite set.
LEMMA CountsAreNat ==
  /\ IsFiniteSet(Active) /\ Cardinality(Active) \in Nat
  /\ IsFiniteSet(PastCheck) /\ Cardinality(PastCheck) \in Nat
  /\ IsFiniteSet(PastCheck') /\ Cardinality(PastCheck') \in Nat
<1>1. Active \subseteq Url /\ PastCheck \subseteq Slot /\ PastCheck' \subseteq Slot
  BY DEF Active, PastCheck
<1>2. QED
  BY <1>1, SlotAssumption, FS_Subset, FS_CardinalityType

\* The larger of two numbers.
LEMMA LargerIsNat ==
  ASSUME NEW m \in Nat, NEW n \in Nat
  PROVE  Larger(m, n) \in Nat /\ Larger(m, n) >= m /\ Larger(m, n) >= n
BY DEF Larger

\* The parts of TypeOK, which each step disturbs separately.
CallRec == [phase: CallPhases, url: Url \union {NoFeed}]
OpRec == [phase: OpPhases, ref: Link \union Url \union {NoFeed}]
JobRec == [phase: JobPhases, active: Nat, known: SUBSET Url, off: SUBSET Url,
           selected: Seq(Url), added: SUBSET Url]

CallTypes ==
  /\ call \in [Slot -> CallRec]
  /\ \A s \in Slot : call[s].phase # "none" => call[s].url \in Url
ListTypes ==
  /\ row \in [Url -> {"none", "on", "off"}]
  /\ inserts \in [Url -> Nat]
  /\ peak \in Nat
OpTypes == op \in [Op -> OpRec]
JobTypes == job \in [Job -> JobRec]
CountTypes ==
  /\ captured \in SUBSET Link
  /\ quota \in Nat
  /\ captures \in Nat
  /\ restarts \in Nat
  /\ passes \in Nat

\* TypeOK is these parts, before and after a step.
LEMMA TypesAreParts ==
  /\ TypeOK <=> CallTypes /\ ListTypes /\ OpTypes /\ JobTypes /\ CountTypes
  /\ TypeOK' <=> CallTypes' /\ ListTypes' /\ OpTypes' /\ JobTypes' /\ CountTypes'
BY DEF TypeOK, CallTypes, ListTypes, OpTypes, JobTypes, CountTypes, CallRec,
   OpRec, JobRec

\* A pass has a call under way only in its loop, for the source at the head
\* of its selection.
InPass(j) ==
  call[j] # NoCall => job[j].phase = "add" /\ job[j].selected # <<>>

Typed == TypeOK /\ \A j \in Job : InPass(j)

\* The records of a slot that is not in use.
LEMMA EmptyRecords ==
  NoCall \in CallRec /\ NoOp \in OpRec /\ NoJob \in JobRec
BY DEF NoCall, NoOp, NoJob, CallRec, OpRec, JobRec, CallPhases, OpPhases,
   JobPhases

\* At the start nothing is under way.
LEMMA InitTyped == Init => Typed
<1>1. SUFFICES ASSUME Init PROVE TypeOK /\ \A j \in Job : InPass(j)
  BY DEF Typed
<1>2. CallTypes
  BY <1>1, EmptyRecords DEF Init, CallTypes, NoCall
<1>3. ListTypes /\ CountTypes
  BY <1>1 DEF Init, ListTypes, CountTypes
<1>4. OpTypes /\ JobTypes
  BY <1>1, EmptyRecords DEF Init, OpTypes, JobTypes
<1>5. \A j \in Job : InPass(j)
  BY <1>1 DEF Init, InPass, Slot
<1>6. QED
  BY <1>2, <1>3, <1>4, <1>5, TypesAreParts

\* Whatever the resolver finds is a URL or nothing.
LEMMA ResolvedIsUrl ==
  ASSUME NEW l \in Link
  PROVE  Resolve(l) \subseteq Url \union {NoFeed}
<1>1. Range(Feeds[l]) \subseteq Url
  BY LinkAssumption DEF Range
<1>2. QED
  BY <1>1 DEF Resolve, ResolveSite

\* A call that moves, starts or ends keeps its type.
LEMMA CallMoved ==
  ASSUME CallTypes, NEW s \in Slot, NEW p \in CallPhases,
         call[s].phase # "none", CallMoves(s, p)
  PROVE  CallTypes'
<1>1. /\ call' \in [Slot -> CallRec]
      /\ call'[s].url = call[s].url
      /\ \A t \in Slot \ {s} : call'[t] = call[t]
  BY DEF CallTypes, CallMoves, CallRec
<1>2. QED
  BY <1>1 DEF CallTypes

\* A slot calls add_resolved for a URL.
LEMMA CallStarted ==
  ASSUME CallTypes, NEW s \in Slot, NEW u \in Url, Calls(s, u)
  PROVE  CallTypes'
<1>1. [phase |-> "lookup", url |-> u] \in CallRec
  BY DEF CallRec, CallPhases
<1>2. /\ call' \in [Slot -> CallRec]
      /\ call'[s].url = u
      /\ \A t \in Slot \ {s} : call'[t] = call[t]
  BY <1>1 DEF CallTypes, Calls
<1>3. QED
  BY <1>2 DEF CallTypes

\* Its caller has taken the answer.
LEMMA CallEnded ==
  ASSUME CallTypes, NEW s \in Slot, call' = [call EXCEPT ![s] = NoCall]
  PROVE  CallTypes'
<1>1. /\ call' \in [Slot -> CallRec]
      /\ call'[s].phase = "none"
      /\ \A t \in Slot \ {s} : call'[t] = call[t]
  BY EmptyRecords DEF CallTypes, NoCall
<1>2. QED
  BY <1>1 DEF CallTypes

\* A call of add_resolved moves from one phase to another.
LEMMA CallMovesOn ==
  ASSUME CallTypes, ListTypes, NEW s \in Slot, AddResolved(s)
  PROVE  /\ call[s].phase # "none"
         /\ \E p \in CallPhases : CallMoves(s, p)
<1>1. CASE Lookup(s)
  <2>1. call[s].phase = "lookup"
    BY <1>1 DEF Lookup
  <2>2. row[call[s].url] \in {"none", "on", "off"}
    BY <2>1 DEF CallTypes, ListTypes
  <2>3. (CASE row[call[s].url] = "on"   -> "exists"
           [] row[call[s].url] = "off"  -> "known"
           [] row[call[s].url] = "none" -> "fresh")
          \in {"exists", "known", "fresh"}
    BY <2>2
  <2>4. QED
    BY <1>1, <2>1, <2>3 DEF Lookup, CallPhases, Results
<1>2. CASE EnsureCapacity(s)
  <2>1. (IF Cardinality(Active) >= Cap THEN "limit"
         ELSE IF call[s].phase = "fresh" THEN "insert" ELSE "switch_on")
          \in {"limit", "insert", "switch_on"}
    OBVIOUS
  <2>2. QED
    BY <1>2, <2>1 DEF EnsureCapacity, CallPhases, Results, Checked
<1>3. CASE Insert(s) \/ SwitchOn(s) \/ CallFails(s)
  BY <1>3 DEF Insert, SwitchOn, CallFails, CallPhases, Results, Checked
<1>4. QED
  BY <1>1, <1>2, <1>3 DEF AddResolved

\* A call of add_resolved keeps the types.
LEMMA CallTyped ==
  ASSUME Typed, NEW s \in Slot, AddResolved(s)
  PROVE  TypeOK'
<1>0. CallTypes /\ ListTypes /\ OpTypes /\ JobTypes /\ CountTypes
  BY TypesAreParts DEF Typed
<1>1. CallTypes'
  BY <1>0, CallMovesOn, CallMoved
<1>2. ListTypes'
  <2>1. CASE UNCHANGED listVars
    BY <1>0, <2>1 DEF ListTypes, listVars
  <2>2. CASE EnsureCapacity(s)
    BY <1>0, <2>2, CountsAreNat, LargerIsNat DEF EnsureCapacity, ListTypes
  <2>3. CASE Insert(s)
    BY <1>0, <2>1, <2>3 DEF Insert, ListTypes, listVars
  <2>4. CASE SwitchOn(s)
    BY <1>0, <2>4 DEF SwitchOn, ListTypes
  <2>5. QED
    BY <2>1, <2>2, <2>3, <2>4 DEF AddResolved, Lookup, CallFails
<1>3. OpTypes' /\ JobTypes' /\ CountTypes'
  BY <1>0 DEF AddResolved, OpTypes, JobTypes, CountTypes
<1>4. QED
  BY <1>1, <1>2, <1>3, TypesAreParts

\* A command moves to another phase, with a link or a source in hand.
LEMMA OpMoved ==
  ASSUME OpTypes, NEW o \in Op, NEW p \in OpPhases,
         NEW r \in Link \union Url \union {NoFeed}, Moves(o, p, r)
  PROVE  OpTypes'
<1>1. [phase |-> p, ref |-> r] \in OpRec
  BY DEF OpRec
<1>2. QED
  BY <1>1 DEF OpTypes, Moves

\* A command is over.
LEMMA OpEnded ==
  ASSUME OpTypes, NEW o \in Op, op' = [op EXCEPT ![o] = NoOp]
  PROVE  OpTypes'
BY EmptyRecords DEF OpTypes

\* So does a command or a capture.
LEMMA OpTyped ==
  ASSUME Typed, NEW o \in Op, OpStep(o)
  PROVE  TypeOK'
<1>0. CallTypes /\ ListTypes /\ OpTypes /\ JobTypes /\ CountTypes
  BY TypesAreParts DEF Typed
<1> USE DEF OpPhases
<1>1. op[o].ref \in Link \union Url \union {NoFeed} /\ o \in Slot
  BY <1>0 DEF OpTypes, OpRec, Slot
<1>2. OpTypes'
  <2>1. ASSUME NEW l \in Link, FeedAdd(o, l) \/ Capture(o, l)
        PROVE  OpTypes'
    BY <1>0, <2>1, OpMoved DEF FeedAdd, Capture
  <2>2. ASSUME NEW u \in Url, FeedRemove(o, u)
        PROVE  OpTypes'
    BY <1>0, <2>2, OpMoved DEF FeedRemove
  <2>3. CASE CaptureQuota(o)
    BY <1>0, <1>1, <2>3, OpMoved, OpEnded DEF CaptureQuota
  <2>4. ASSUME NEW u \in Url \union {NoFeed}, Resolved(o, u)
        PROVE  OpTypes'
    BY <1>0, <2>4, OpMoved, OpEnded DEF Resolved
  <2>5. CASE AddAnswered(o) \/ Deactivate(o) \/ OpFails(o)
    BY <1>0, <2>5, OpEnded DEF AddAnswered, Deactivate, OpFails
  <2>6. QED
    BY <2>1, <2>2, <2>3, <2>4, <2>5 DEF OpStep
<1>3. CallTypes'
  <2>1. CASE call' = call
    BY <1>0, <2>1 DEF CallTypes
  <2>2. ASSUME NEW u \in Url \union {NoFeed}, Resolved(o, u)
        PROVE  CallTypes'
    BY <1>0, <1>1, <2>1, <2>2, CallStarted DEF Resolved
  <2>3. CASE AddAnswered(o)
    BY <1>0, <1>1, <2>3, CallEnded DEF AddAnswered
  <2>4. QED
    BY <2>1, <2>2, <2>3 DEF OpStep, FeedAdd, Capture, FeedRemove,
       CaptureQuota, Deactivate, OpFails
<1>4. ListTypes'
  <2>1. CASE UNCHANGED listVars
    BY <1>0, <2>1 DEF ListTypes, listVars
  <2>2. CASE Deactivate(o)
    BY <1>0, <2>2 DEF Deactivate, ListTypes
  <2>3. QED
    BY <2>1, <2>2 DEF OpStep, FeedAdd, Capture, FeedRemove, CaptureQuota,
       Resolved, AddAnswered, OpFails
<1>5. JobTypes' /\ CountTypes'
  BY <1>0, LinkAssumption DEF OpStep, FeedAdd, Capture, FeedRemove,
     CaptureQuota, Resolved, AddAnswered, Deactivate, OpFails, JobTypes,
     CountTypes
<1>6. QED
  BY <1>2, <1>3, <1>4, <1>5, TypesAreParts

\* What a discovery pass selects are sources it did not know.
LEMMA SelectedAreFresh ==
  ASSUME NEW ls \in SUBSET Link, NEW known,
         NEW chosen \in Selections(Fresh(ls, known))
  PROVE  /\ chosen \in Seq(Url)
         /\ \A i \in 1 .. Len(chosen) : chosen[i] \notin known
<1>1. Fresh(ls, known) \subseteq Url \ known
  <2>1. SUFFICES ASSUME NEW u \in Fresh(ls, known)
                 PROVE  u \in Url \ known
    OBVIOUS
  <2>2. PICK l \in ls : u \in Resolve(l)
    BY DEF Fresh
  <2>3. u \notin known /\ u # NoFeed
    BY DEF Fresh
  <2>4. QED
    BY <2>2, <2>3, ResolvedIsUrl
<1>2. PICK n \in 1 .. MaxSources : chosen \in [1 .. n -> Fresh(ls, known)]
  BY DEF Selections
<1>3. n \in Nat
  BY LimitAssumption
<1>4. chosen \in Seq(Url) /\ Len(chosen) = n
  BY <1>1, <1>2, <1>3
<1>5. QED
  BY <1>1, <1>2, <1>4

\* And so does a step of a discovery pass.
LEMMA JobTyped ==
  ASSUME Typed, NEW j \in Job, JobStep(j)
  PROVE  TypeOK'
<1>0. CallTypes /\ ListTypes /\ OpTypes /\ JobTypes /\ CountTypes /\ InPass(j)
  BY TypesAreParts DEF Typed
<1>1. job[j] \in JobRec /\ j \in Slot
  BY <1>0 DEF JobTypes, Slot
<1>2. JobTypes'
  <2>0. ASSUME NEW r \in JobRec, job' = [job EXCEPT ![j] = r]
        PROVE  JobTypes'
    BY <1>0, <2>0 DEF JobTypes
  <2>1. CASE DiscoveryStarts(j)
    <3>1. [NoJob EXCEPT !.phase = "search", !.active = Cardinality(Active)]
            \in JobRec
      BY EmptyRecords, CountsAreNat DEF JobRec, JobPhases
    <3>2. QED
      BY <2>0, <2>1, <3>1 DEF DiscoveryStarts
  <2>2. CASE DiscoveryGivesUp(j) \/ DiscoveryEnds(j)
    BY <2>0, <2>2, EmptyRecords DEF DiscoveryGivesUp, DiscoveryEnds
  <2>3. CASE ReadsKnown(j)
    <3>1. [job[j] EXCEPT !.phase = "select", !.known = ExistingUrls,
                         !.off = {u \in Url : row[u] = "off"}] \in JobRec
      BY <1>1 DEF JobRec, JobPhases, ExistingUrls
    <3>2. job' = [job EXCEPT ![j] =
            [job[j] EXCEPT !.phase = "select", !.known = ExistingUrls,
                           !.off = {u \in Url : row[u] = "off"}]]
      BY <1>0, <2>3 DEF ReadsKnown, JobTypes
    <3>3. QED
      BY <2>0, <3>1, <3>2
  <2>4. ASSUME NEW ls \in SUBSET Link, Selects(j, ls)
        PROVE  JobTypes'
    <3>1. PICK chosen \in Selections(Fresh(ls, job[j].known)) :
            job' = [job EXCEPT ![j].phase = "add", ![j].selected = chosen]
      BY <2>4 DEF Selects
    <3>2. chosen \in Seq(Url)
      BY SelectedAreFresh
    <3>3. [job[j] EXCEPT !.phase = "add", !.selected = chosen] \in JobRec
      BY <1>1, <3>2 DEF JobRec, JobPhases
    <3>4. job' = [job EXCEPT ![j] =
                    [job[j] EXCEPT !.phase = "add", !.selected = chosen]]
      BY <1>0, <3>1 DEF JobTypes
    <3>5. QED
      BY <2>0, <3>3, <3>4
  <2>5. CASE AddsNext(j)
    BY <1>0, <2>5 DEF AddsNext, JobTypes
  <2>6. CASE Collects(j)
    <3>1. call[j].phase \in Results /\ call[j] # NoCall
      BY <2>6 DEF Collects, Results, NoCall
    <3>2. call[j].url \in Url /\ job[j].selected # <<>>
      BY <1>0, <1>1, <3>1 DEF CallTypes, Results, InPass
    <3>3. job[j].selected \in Seq(Url)
      BY <1>1 DEF JobRec
    <3>4. Tail(job[j].selected) \in Seq(Url)
      BY <3>2, <3>3
    <3>5. DEFINE r == [job[j] EXCEPT
                         !.selected = Tail(job[j].selected),
                         !.added = IF call[j].phase = "added"
                                   THEN job[j].added \union {call[j].url}
                                   ELSE job[j].added]
    <3>6. r \in JobRec
      BY <1>1, <3>2, <3>4 DEF JobRec
    <3>7. job' = [job EXCEPT ![j] = r]
      BY <1>0, <2>6 DEF Collects, JobTypes
    <3>8. QED
      BY <2>0, <3>6, <3>7
  <2>7. QED
    BY <2>1, <2>2, <2>3, <2>4, <2>5, <2>6 DEF JobStep
<1>3. CallTypes'
  <2>1. CASE call' = call
    BY <1>0, <2>1 DEF CallTypes
  <2>2. CASE AddsNext(j)
    <3>1. Head(job[j].selected) \in Url
      BY <1>1, <2>2 DEF AddsNext, JobRec
    <3>2. QED
      BY <1>0, <1>1, <2>2, <3>1, CallStarted DEF AddsNext
  <2>3. CASE Collects(j)
    BY <1>0, <1>1, <2>3, CallEnded DEF Collects
  <2>4. QED
    BY <2>1, <2>2, <2>3 DEF JobStep, DiscoveryStarts, DiscoveryGivesUp,
       ReadsKnown, Selects, DiscoveryEnds
<1>4. ListTypes' /\ OpTypes' /\ CountTypes'
  BY <1>0 DEF JobStep, DiscoveryStarts, DiscoveryGivesUp, ReadsKnown, Selects,
     AddsNext, Collects, DiscoveryEnds, listVars, ListTypes, OpTypes,
     CountTypes
<1>5. QED
  BY <1>2, <1>3, <1>4, TypesAreParts

\* A restart, midnight, and steps that change nothing.
LEMMA WorldTyped ==
  ASSUME Typed, Restart \/ NewDay \/ UNCHANGED vars
  PROVE  TypeOK'
<1>0. CallTypes /\ ListTypes /\ OpTypes /\ JobTypes /\ CountTypes
  BY TypesAreParts DEF Typed
<1>1. CallTypes'
  BY <1>0, EmptyRecords DEF Restart, NewDay, vars, CallTypes, NoCall
<1>2. ListTypes' /\ CountTypes'
  BY <1>0 DEF Restart, NewDay, vars, listVars, ListTypes, CountTypes
<1>3. OpTypes' /\ JobTypes'
  BY <1>0, EmptyRecords DEF Restart, NewDay, vars, OpTypes, JobTypes
<1>4. QED
  BY <1>1, <1>2, <1>3, TypesAreParts

\* A pass has no call but in its loop.
LEMMA StaysInPass ==
  ASSUME Typed, [Next]_vars, NEW j \in Job
  PROVE  InPass(j)'
<1>0. /\ CallTypes /\ JobTypes /\ ListTypes
      /\ InPass(j)
      /\ j \in Slot
  BY TypesAreParts DEF Typed, Slot
<1>1. CASE call'[j] = call[j] /\ job'[j] = job[j]
  BY <1>0, <1>1 DEF InPass
<1>2. CASE call'[j] = NoCall
  BY <1>2 DEF InPass
<1>3. ASSUME NEW s \in Slot, AddResolved(s)
      PROVE  InPass(j)'
  <2>1. call[s].phase # "none" /\ \E p \in CallPhases : CallMoves(s, p)
    BY <1>0, <1>3, CallMovesOn
  <2>2. job' = job
    BY <1>3 DEF AddResolved
  <2>3. CASE s = j
    BY <1>0, <2>1, <2>2, <2>3 DEF InPass, NoCall
  <2>4. CASE s # j
    BY <1>0, <1>1, <2>1, <2>2, <2>4 DEF CallMoves, CallTypes
  <2>5. QED
    BY <2>3, <2>4
<1>4. ASSUME NEW o \in Op, OpStep(o)
      PROVE  InPass(j)'
  <2>1. job' = job
    BY <1>4 DEF OpStep, FeedAdd, Capture, FeedRemove, CaptureQuota,
       Resolved, AddAnswered, Deactivate, OpFails
  <2>2. j # o
    BY SlotAssumption
  <2>3. call'[j] = call[j]
    BY <1>0, <1>4, <2>2 DEF OpStep, FeedAdd, Capture, FeedRemove,
       CaptureQuota, Resolved, AddAnswered, Deactivate, OpFails, Calls,
       CallTypes
  <2>4. QED
    BY <1>1, <2>1, <2>3
<1>5. ASSUME NEW k \in Job, JobStep(k), k # j
      PROVE  InPass(j)'
  <2>1. call'[j] = call[j] /\ job'[j] = job[j]
    BY <1>0, <1>5 DEF JobStep, DiscoveryStarts, DiscoveryGivesUp, ReadsKnown,
       Selects, AddsNext, Collects, DiscoveryEnds, Calls, CallTypes, JobTypes
  <2>2. QED
    BY <1>1, <2>1
<1>6. ASSUME JobStep(j)
      PROVE  InPass(j)'
  <2>1. CASE AddsNext(j)
    BY <2>1 DEF AddsNext, InPass
  <2>2. CASE Collects(j)
    BY <1>0, <1>2, <2>2 DEF Collects, CallTypes
  <2>3. CASE call' = call /\ (job[j].phase # "add" \/ call[j] = NoCall)
    BY <1>0, <1>2, <2>3 DEF InPass
  <2>4. QED
    BY <1>6, <2>1, <2>2, <2>3 DEF JobStep, DiscoveryStarts, DiscoveryGivesUp,
       ReadsKnown, Selects, DiscoveryEnds
<1>7. CASE Restart \/ NewDay \/ UNCHANGED vars
  BY <1>0, <1>1, <1>2, <1>7 DEF Restart, NewDay, vars
<1>8. QED
  BY <1>3, <1>4, <1>5, <1>6, <1>7 DEF Next

\* The variables keep their types in every reachable state.
THEOREM TypeCorrectness == Spec => []TypeOK
<1>1. Typed /\ [Next]_vars => Typed'
  BY CallTyped, OpTyped, JobTyped, WorldTyped, StaysInPass DEF Next, Typed
<1>2. Typed => TypeOK
  BY DEF Typed
<1>3. QED
  BY <1>1, <1>2, InitTyped, PTL DEF Spec

-----------------------------------------------------------------------------
(* The cap on active sources                                               *)

\* Between check and commit a call holds a place: the sources that are on
\* and the places together stay within the cap and the calls that were ever
\* past the check at once, less the first.
Counted ==
  /\ Cardinality(PastCheck) <= peak
  /\ Cardinality(Active) + Cardinality(PastCheck) <= Cap + Larger(peak, 1) - 1

\* A step that switches nothing on and lets no call past the check.
LEMMA StaysCounted ==
  ASSUME TypeOK, TypeOK', Counted,
         Active' \subseteq Active, PastCheck' \subseteq PastCheck,
         peak' >= peak
  PROVE  Counted'
<1>1. /\ Cardinality(Active') <= Cardinality(Active)
      /\ Cardinality(PastCheck') <= Cardinality(PastCheck)
      /\ Cardinality(Active') \in Nat
  BY CountsAreNat, FS_Subset, FS_CardinalityType
<1>2. peak \in Nat /\ peak' \in Nat
  BY DEF TypeOK
<1>3. QED
  BY <1>1, <1>2, CountsAreNat, LimitAssumption DEF Counted, Larger

\* The commit of a call: its place becomes a source.
LEMMA CommitCounted ==
  ASSUME TypeOK, Counted, NEW s \in PastCheck, NEW u \in Url,
         Active' \subseteq Active \union {u},
         PastCheck' \subseteq PastCheck \ {s},
         peak' = peak
  PROVE  Counted'
<1>1. IsFiniteSet(Active \union {u})
      /\ Cardinality(Active \union {u}) <= Cardinality(Active) + 1
  <2>1. IsFiniteSet(Active)
    BY CountsAreNat
  <2>2. /\ IsFiniteSet(Active \union {u})
        /\ Cardinality(Active \union {u})
             = IF u \in Active THEN Cardinality(Active)
               ELSE Cardinality(Active) + 1
    BY <2>1, FS_AddElement
  <2>3. QED
    BY <2>2, CountsAreNat
<1>2. /\ Cardinality(Active') <= Cardinality(Active) + 1
      /\ Cardinality(Active') \in Nat
  BY <1>1, CountsAreNat, FS_Subset, FS_CardinalityType
<1>3. /\ IsFiniteSet(PastCheck \ {s})
      /\ Cardinality(PastCheck \ {s}) = Cardinality(PastCheck) - 1
  BY CountsAreNat, FS_RemoveElement
<1>4. Cardinality(PastCheck') <= Cardinality(PastCheck) - 1
  BY <1>3, FS_Subset
<1>5. peak \in Nat
  BY DEF TypeOK
<1>6. QED
  BY <1>2, <1>4, <1>5, CountsAreNat, LimitAssumption DEF Counted, Larger

\* A step of a call of add_resolved.
LEMMA CallCounted ==
  ASSUME TypeOK, TypeOK', Counted, NEW s \in Slot, AddResolved(s)
  PROVE  Counted'
<1> USE DEF Checked, Results, CallMoves
<1>0. call \in [Slot -> [phase: CallPhases, url: Url \union {NoFeed}]]
      /\ row \in [Url -> {"none", "on", "off"}] /\ peak \in Nat
      /\ (call[s].phase # "none" => call[s].url \in Url)
  BY DEF TypeOK
<1>1. ASSUME row' = row, peak' = peak,
             NEW p \in CallPhases \ Checked, CallMoves(s, p)
      PROVE  Counted'
  <2>1. Active' \subseteq Active /\ PastCheck' \subseteq PastCheck
    BY <1>0, <1>1 DEF Active, PastCheck
  <2>2. QED
    BY <1>0, <1>1, <2>1, StaysCounted
<1>2. CASE Lookup(s)
  BY <1>0, <1>1, <1>2 DEF Lookup, listVars, CallPhases
<1>3. CASE EnsureCapacity(s)
  <2>1. Active' = Active /\ peak' = Larger(peak, Cardinality(PastCheck'))
    BY <1>3 DEF EnsureCapacity, Active
  <2>2. peak' \in Nat /\ peak' >= peak /\ peak' >= Cardinality(PastCheck')
    BY <1>0, <2>1, CountsAreNat, LargerIsNat
  <2>3. CASE Cardinality(Active) >= Cap
    <3>1. call' = [call EXCEPT ![s].phase = "limit"]
      BY <1>3, <2>3 DEF EnsureCapacity
    <3>2. PastCheck' \subseteq PastCheck
      BY <1>0, <3>1 DEF PastCheck
    <3>3. QED
      BY <2>1, <2>2, <3>2, StaysCounted
  <2>4. CASE ~ (Cardinality(Active) >= Cap)
    BY <2>1, <2>2, <2>4, CountsAreNat, LimitAssumption DEF Counted, Larger
  <2>5. QED
    BY <2>3, <2>4
<1>4. CASE Insert(s)
  <2>1. s \in PastCheck /\ call[s].url \in Url /\ peak' = peak
    BY <1>0, <1>4 DEF Insert, PastCheck
  <2>2. Active' \subseteq Active \union {call[s].url}
    BY <1>0, <1>4, <2>1 DEF Insert, Active
  <2>3. PastCheck' \subseteq PastCheck \ {s}
    BY <1>0, <1>4 DEF Insert, PastCheck
  <2>4. QED
    BY <2>1, <2>2, <2>3, CommitCounted
<1>5. CASE SwitchOn(s)
  <2>1. s \in PastCheck /\ call[s].url \in Url /\ peak' = peak
    BY <1>0, <1>5 DEF SwitchOn, PastCheck
  <2>2. Active' \subseteq Active \union {call[s].url}
    BY <1>0, <1>5, <2>1 DEF SwitchOn, Active
  <2>3. PastCheck' \subseteq PastCheck \ {s}
    BY <1>0, <1>5 DEF SwitchOn, PastCheck
  <2>4. QED
    BY <2>1, <2>2, <2>3, CommitCounted
<1>6. CASE CallFails(s)
  BY <1>0, <1>1, <1>6 DEF CallFails, listVars, CallPhases
<1>7. QED
  BY <1>2, <1>3, <1>4, <1>5, <1>6 DEF AddResolved

\* A command, a capture, a discovery pass, a restart and midnight switch
\* nothing on by themselves.
LEMMA OtherCounted ==
  ASSUME TypeOK, TypeOK', Counted,
         \/ \E o \in Op : OpStep(o)
         \/ \E j \in Job : JobStep(j)
         \/ Restart \/ NewDay \/ UNCHANGED vars
  PROVE  Counted'
<1> SUFFICES Active' \subseteq Active /\ PastCheck' \subseteq PastCheck
             /\ peak' = peak
  BY StaysCounted DEF TypeOK
<1>1. row \in [Url -> {"none", "on", "off"}]
      /\ call \in [Slot -> [phase: CallPhases, url: Url \union {NoFeed}]]
      /\ Op \subseteq Slot /\ Job \subseteq Slot
  BY DEF TypeOK, Slot
<1>2. ASSUME NEW o \in Op, OpStep(o)
      PROVE  Active' \subseteq Active /\ peak' = peak
  BY <1>1, <1>2 DEF OpStep, FeedAdd, Capture, FeedRemove, CaptureQuota,
     Resolved, AddAnswered, Deactivate, OpFails, Active, listVars
<1>3. ASSUME NEW o \in Op, OpStep(o)
      PROVE  PastCheck' \subseteq PastCheck
  <2>1. ASSUME NEW u, Resolved(o, u)
        PROVE  PastCheck' \subseteq PastCheck
    BY <1>1, <2>1 DEF Resolved, Calls, PastCheck, Checked
  <2>2. CASE AddAnswered(o)
    BY <1>1, <2>2 DEF AddAnswered, NoCall, PastCheck, Checked
  <2>3. CASE call' = call
    BY <2>3 DEF PastCheck
  <2>4. QED
    BY <1>3, <2>1, <2>2, <2>3 DEF OpStep, FeedAdd, Capture, FeedRemove,
       CaptureQuota, Deactivate, OpFails
<1>4. ASSUME NEW j \in Job, JobStep(j)
      PROVE  Active' \subseteq Active /\ peak' = peak
  BY <1>4 DEF JobStep, DiscoveryStarts, DiscoveryGivesUp, ReadsKnown, Selects,
     AddsNext, Collects, DiscoveryEnds, Active, listVars
<1>5. ASSUME NEW j \in Job, JobStep(j)
      PROVE  PastCheck' \subseteq PastCheck
  <2>1. CASE AddsNext(j)
    BY <1>1, <2>1 DEF AddsNext, Calls, PastCheck, Checked
  <2>2. CASE Collects(j)
    BY <1>1, <2>2 DEF Collects, NoCall, PastCheck, Checked
  <2>3. CASE call' = call
    BY <2>3 DEF PastCheck
  <2>4. QED
    BY <1>5, <2>1, <2>2, <2>3 DEF JobStep, DiscoveryStarts, DiscoveryGivesUp,
       ReadsKnown, Selects, DiscoveryEnds
<1>6. CASE Restart \/ NewDay \/ UNCHANGED vars
  BY <1>6 DEF Restart, NewDay, vars, listVars, Active, PastCheck, NoCall,
     Checked
<1>7. QED
  BY <1>2, <1>3, <1>4, <1>5, <1>6

\* However many callers race, the sources that are on exceed the cap by no
\* more than the callers who were past the check at once, less one.
THEOREM CapOvershootHolds == Spec => []CapOvershoot
<1>1. Init => Counted
  <2>1. SUFFICES ASSUME Init PROVE Active = {} /\ PastCheck = {} /\ peak = 0
    BY FS_EmptySet, LimitAssumption DEF Counted, Larger
  <2>2. QED
    BY <2>1 DEF Init, Active, PastCheck, NoCall, Checked
<1>2. TypeOK /\ TypeOK' /\ Counted /\ [Next]_vars => Counted'
  BY CallCounted, OtherCounted DEF Next
<1>3. TypeOK /\ Counted => CapOvershoot
  BY CountsAreNat, LimitAssumption DEF Counted, CapOvershoot, Larger, TypeOK
<1>4. QED
  BY <1>1, <1>2, <1>3, TypeCorrectness, PTL DEF Spec

-----------------------------------------------------------------------------
(* The announcement of a source                                            *)

\* A row is never deleted: only the caller that made it was told "added".
InsertedOnce ==
  \A u \in Url : inserts[u] <= (IF row[u] = "none" THEN 0 ELSE 1)

\* Of all the callers who race to add a URL, one is told that it was added.
THEOREM AddedOnceHolds == Spec => []AddedOnce
<1>1. Init => InsertedOnce
  BY DEF Init, InsertedOnce
<1>2. ASSUME TypeOK, InsertedOnce, [Next]_vars
      PROVE  InsertedOnce'
  <2>0. row \in [Url -> {"none", "on", "off"}] /\ inserts \in [Url -> Nat]
    BY <1>2 DEF TypeOK
  <2>1. CASE UNCHANGED <<row, inserts>>
    BY <1>2, <2>1 DEF InsertedOnce
  <2>2. ASSUME NEW s \in Slot, Insert(s)
        PROVE  InsertedOnce'
    <3>1. CASE row[call[s].url] = "none"
      BY <1>2, <2>0, <2>2, <3>1 DEF Insert, InsertedOnce
    <3>2. CASE row[call[s].url] # "none"
      BY <2>1, <2>2, <3>2 DEF Insert
    <3>3. QED
      BY <3>1, <3>2
  <2>3. ASSUME NEW s \in Slot, SwitchOn(s)
        PROVE  InsertedOnce'
    BY <1>2, <2>0, <2>3 DEF SwitchOn, InsertedOnce
  <2>4. ASSUME NEW o \in Op, Deactivate(o)
        PROVE  InsertedOnce'
    BY <1>2, <2>0, <2>4 DEF Deactivate, InsertedOnce
  <2>5. ASSUME NEW s \in Slot, AddResolved(s)
        PROVE  InsertedOnce'
    BY <2>1, <2>2, <2>3, <2>5 DEF AddResolved, Lookup, EnsureCapacity,
       CallFails, listVars
  <2>6. ASSUME NEW o \in Op, OpStep(o)
        PROVE  InsertedOnce'
    BY <2>1, <2>4, <2>6 DEF OpStep, FeedAdd, Capture, FeedRemove,
       CaptureQuota, Resolved, AddAnswered, OpFails, listVars
  <2>7. ASSUME NEW j \in Job, JobStep(j)
        PROVE  InsertedOnce'
    BY <2>1, <2>7 DEF JobStep, DiscoveryStarts, DiscoveryGivesUp, ReadsKnown,
       Selects, AddsNext, Collects, DiscoveryEnds, listVars
  <2>8. CASE Restart \/ NewDay \/ UNCHANGED vars
    BY <2>1, <2>8 DEF Restart, NewDay, vars, listVars
  <2>9. QED
    BY <1>2, <2>5, <2>6, <2>7, <2>8 DEF Next
<1>3. TypeOK /\ InsertedOnce => AddedOnce
  BY DEF TypeOK, InsertedOnce, AddedOnce
<1>4. QED
  BY <1>1, <1>2, <1>3, TypeCorrectness, PTL DEF Spec

-----------------------------------------------------------------------------
(* The daily quota of captures                                             *)

\* The counter of the day counts at least the captures let through.
QuotaCounts ==
  /\ captures <= quota
  /\ captures <= (IF CaptureLimit > 0 THEN CaptureLimit ELSE 0)

\* No more than the daily number of captures gets past the quota, however
\* often the process restarts and forgets which links it has seen.
THEOREM CapturesWithinQuotaHolds == Spec => []CapturesWithinQuota
<1>1. Init => QuotaCounts
  BY LimitAssumption DEF Init, QuotaCounts
<1>2. ASSUME TypeOK, QuotaCounts, [Next]_vars
      PROVE  QuotaCounts'
  <2>0. quota \in Nat /\ captures \in Nat /\ CaptureLimit \in Int
    BY <1>2, LimitAssumption DEF TypeOK
  <2>1. CASE UNCHANGED <<quota, captures>>
    BY <1>2, <2>1 DEF QuotaCounts
  <2>2. ASSUME NEW o \in Op, CaptureQuota(o)
        PROVE  QuotaCounts'
    BY <1>2, <2>0, <2>2 DEF CaptureQuota, QuotaAllows, QuotaCounts
  <2>3. CASE NewDay
    BY <1>2, <2>0, <2>3 DEF NewDay, QuotaCounts
  <2>4. ASSUME NEW o \in Op, OpStep(o)
        PROVE  QuotaCounts'
    BY <2>1, <2>2, <2>4 DEF OpStep, FeedAdd, Capture, FeedRemove, Resolved,
       AddAnswered, Deactivate, OpFails
  <2>5. ASSUME NEW j \in Job, JobStep(j)
        PROVE  QuotaCounts'
    BY <2>1, <2>5 DEF JobStep, DiscoveryStarts, DiscoveryGivesUp, ReadsKnown,
       Selects, AddsNext, Collects, DiscoveryEnds
  <2>6. ASSUME NEW s \in Slot, AddResolved(s)
        PROVE  QuotaCounts'
    BY <2>1, <2>6 DEF AddResolved
  <2>7. CASE Restart \/ UNCHANGED vars
    BY <2>1, <2>7 DEF Restart, vars
  <2>8. QED
    BY <1>2, <2>3, <2>4, <2>5, <2>6, <2>7 DEF Next
<1>3. QuotaCounts => CapturesWithinQuota
  BY DEF QuotaCounts, CapturesWithinQuota
<1>4. QED
  BY <1>1, <1>2, <1>3, TypeCorrectness, PTL DEF Spec

-----------------------------------------------------------------------------
(* Discovery and the sources the owner switched off                        *)

\* A pass calls add_resolved only in its loop, with a source it selected, and
\* it selected none it had read in the list.
PassKnows(j) ==
  /\ job[j].off \subseteq job[j].known
  /\ job[j].phase # "add" => call[j] = NoCall /\ job[j].selected = <<>>
  /\ call[j].url \notin job[j].known
  /\ \A i \in 1 .. Len(job[j].selected) : job[j].selected[i] \notin job[j].known

CallsUnknown == \A j \in Job : PassKnows(j)

\* What a pass knows is not disturbed by steps that are not its own.
LEMMA OthersLeavePass ==
  ASSUME CallsUnknown, NEW j \in Job, call'[j] = call[j], job'[j] = job[j]
  PROVE  PassKnows(j)'
BY DEF CallsUnknown, PassKnows

\* A call under way keeps its URL.
LEMMA CallKeepsUnknown ==
  ASSUME TypeOK, CallsUnknown, NEW s \in Slot, AddResolved(s)
  PROVE  CallsUnknown'
<1>1. call \in [Slot -> [phase: CallPhases, url: Url \union {NoFeed}]]
  BY DEF TypeOK
<1>2. job' = job /\ call[s].phase # "none"
  BY DEF AddResolved, Lookup, EnsureCapacity, Insert, SwitchOn, CallFails,
     Checked
<1>3. PICK p : call' = [call EXCEPT ![s].phase = p]
  BY DEF AddResolved, Lookup, EnsureCapacity, Insert, SwitchOn, CallFails,
     CallMoves
<1>4. SUFFICES ASSUME NEW j \in Job PROVE PassKnows(j)'
  BY DEF CallsUnknown
<1>5. CASE j = s
  <2>1. call'[j].url = call[j].url /\ job'[j] = job[j]
    BY <1>1, <1>2, <1>3, <1>5
  <2>2. PassKnows(j) /\ job[j].phase = "add"
    BY <1>2, <1>5 DEF CallsUnknown, PassKnows, NoCall
  <2>3. QED
    BY <2>1, <2>2 DEF PassKnows
<1>6. CASE j # s
  <2>1. j \in Slot
    BY DEF Slot
  <2>2. call'[j] = call[j] /\ job'[j] = job[j]
    BY <1>1, <1>2, <1>3, <1>6, <2>1
  <2>3. QED
    BY <2>2, OthersLeavePass
<1>7. QED
  BY <1>5, <1>6

\* The steps of a pass itself.
LEMMA PassKeepsUnknown ==
  ASSUME TypeOK, CallsUnknown, NEW j \in Job, JobStep(j)
  PROVE  PassKnows(j)'
<1>1. /\ call \in [Slot -> [phase: CallPhases, url: Url \union {NoFeed}]]
      /\ job \in [Job -> [phase: JobPhases, active: Nat, known: SUBSET Url,
                      off: SUBSET Url, selected: Seq(Url), added: SUBSET Url]]
      /\ j \in Slot
      /\ PassKnows(j)
  BY DEF TypeOK, CallsUnknown, Slot
<1>2. ASSUME call[j] = NoCall, call'[j] = NoCall,
             job'[j].known = {}, job'[j].off = {}, job'[j].selected = <<>>
      PROVE  PassKnows(j)'
  BY <1>2 DEF PassKnows
<1>3. CASE DiscoveryStarts(j)
  <2>1. call[j] = NoCall /\ call' = call
    BY <1>1, <1>3 DEF DiscoveryStarts, PassKnows
  <2>2. job'[j] = [NoJob EXCEPT !.phase = "search",
                               !.active = Cardinality(Active)]
    BY <1>1, <1>3 DEF DiscoveryStarts
  <2>3. QED
    BY <1>2, <2>1, <2>2 DEF NoJob
<1>4. CASE DiscoveryGivesUp(j) \/ DiscoveryEnds(j)
  <2>1. call[j] = NoCall /\ call' = call /\ job'[j] = NoJob
    BY <1>1, <1>4 DEF DiscoveryGivesUp, DiscoveryEnds, PassKnows
  <2>2. QED
    BY <1>2, <2>1 DEF NoJob
<1>5. CASE ReadsKnown(j)
  <2>1. /\ call'[j] = NoCall
        /\ job'[j].selected = <<>>
        /\ job'[j].known = {u \in Url : row[u] # "none"}
        /\ job'[j].off = {u \in Url : row[u] = "off"}
    BY <1>1, <1>5 DEF ReadsKnown, ExistingUrls, PassKnows
  <2>2. QED
    BY <2>1, LinkAssumption DEF PassKnows, NoCall
<1>6. ASSUME NEW ls \in SUBSET Link, Selects(j, ls)
      PROVE  PassKnows(j)'
  <2>1. PICK chosen \in Selections(Fresh(ls, job[j].known)) :
          job' = [job EXCEPT ![j].phase = "add", ![j].selected = chosen]
    BY <1>6 DEF Selects
  <2>2. \A i \in 1 .. Len(chosen) : chosen[i] \notin job[j].known
    BY SelectedAreFresh
  <2>3. /\ call'[j] = call[j]
        /\ job'[j].phase = "add"
        /\ job'[j].known = job[j].known
        /\ job'[j].off = job[j].off
        /\ job'[j].selected = chosen
    BY <1>1, <1>6, <2>1 DEF Selects
  <2>4. QED
    BY <1>1, <2>2, <2>3 DEF PassKnows
<1>7. CASE AddsNext(j)
  <2>1. /\ job' = job
        /\ job[j].phase = "add"
        /\ call'[j].url = Head(job[j].selected)
        /\ job[j].selected # <<>>
    BY <1>1, <1>7 DEF AddsNext, Calls
  <2>2. Head(job[j].selected) = job[j].selected[1]
        /\ 1 \in 1 .. Len(job[j].selected)
    BY <1>1, <2>1
  <2>3. QED
    BY <1>1, <2>1, <2>2 DEF PassKnows
<1>8. CASE Collects(j)
  <2>1. /\ call'[j] = NoCall
        /\ job'[j].phase = "add"
        /\ job'[j].known = job[j].known
        /\ job'[j].off = job[j].off
        /\ job'[j].selected = Tail(job[j].selected)
    BY <1>1, <1>8 DEF Collects
  <2>2. NoFeed \notin job[j].known
    BY <1>1, LinkAssumption
  <2>3. \A i \in 1 .. Len(Tail(job[j].selected)) :
          Tail(job[j].selected)[i] \notin job[j].known
    <3>1. job[j].selected \in Seq(Url)
      BY <1>1
    <3>2. CASE job[j].selected = <<>>
      BY <3>2
    <3>3. CASE job[j].selected # <<>>
      BY <1>1, <3>1, <3>3 DEF PassKnows
    <3>4. QED
      BY <3>2, <3>3
  <2>4. QED
    BY <1>1, <2>1, <2>2, <2>3 DEF PassKnows, NoCall
<1>9. QED
  BY <1>3, <1>4, <1>5, <1>6, <1>7, <1>8 DEF JobStep

\* A source the owner has switched off before a discovery pass read the list
\* is not switched on by that pass.
THEOREM NeverRevivedHolds == Spec => NeverRevived
<1>1. Init => CallsUnknown
  BY LinkAssumption DEF Init, CallsUnknown, PassKnows, NoCall, NoJob, Slot
<1>2. ASSUME TypeOK, CallsUnknown, [Next]_vars
      PROVE  CallsUnknown'
  <2>0. call \in [Slot -> [phase: CallPhases, url: Url \union {NoFeed}]]
        /\ job \in [Job -> [phase: JobPhases, active: Nat, known: SUBSET Url,
                      off: SUBSET Url, selected: Seq(Url), added: SUBSET Url]]
        /\ Job \subseteq Slot
    BY <1>2 DEF TypeOK, Slot
  <2>1. CASE UNCHANGED <<call, job>>
    BY <1>2, <2>1, OthersLeavePass DEF CallsUnknown
  <2>2. ASSUME NEW s \in Slot, AddResolved(s)
        PROVE  CallsUnknown'
    BY <1>2, <2>2, CallKeepsUnknown
  <2>3. ASSUME NEW o \in Op, OpStep(o)
        PROVE  CallsUnknown'
    <3>1. job' = job
      BY <2>3 DEF OpStep, FeedAdd, Capture, FeedRemove, CaptureQuota,
         Resolved, AddAnswered, Deactivate, OpFails
    <3>2. \A j \in Job : j # o /\ call'[j] = call[j]
      BY <2>0, <2>3, SlotAssumption DEF OpStep, FeedAdd, Capture, FeedRemove,
         CaptureQuota, Resolved, AddAnswered, Deactivate, OpFails, Calls
    <3>3. QED
      BY <1>2, <3>1, <3>2, OthersLeavePass DEF CallsUnknown
  <2>4. ASSUME NEW j \in Job, JobStep(j)
        PROVE  CallsUnknown'
    <3>1. \A k \in Job \ {j} : call'[k] = call[k] /\ job'[k] = job[k]
      BY <2>0, <2>4 DEF JobStep, DiscoveryStarts, DiscoveryGivesUp,
         ReadsKnown, Selects, AddsNext, Collects, DiscoveryEnds, Calls
    <3>2. \A k \in Job \ {j} : PassKnows(k)'
      BY <1>2, <3>1, OthersLeavePass
    <3>3. PassKnows(j)'
      BY <1>2, <2>4, PassKeepsUnknown
    <3>4. QED
      BY <3>2, <3>3 DEF CallsUnknown
  <2>5. CASE Restart
    BY <2>5, LinkAssumption DEF Restart, CallsUnknown, PassKnows, NoCall,
       NoJob, Slot
  <2>6. CASE NewDay \/ UNCHANGED vars
    BY <2>1, <2>6 DEF NewDay, vars
  <2>7. QED
    BY <1>2, <2>2, <2>3, <2>4, <2>5, <2>6 DEF Next
<1>3. CallsUnknown =>
        \A j \in Job, u \in Url :
          /\ call[j].url = u
          /\ call[j].phase = "switch_on" /\ call'[j].phase = "reactivated"
          => u \notin job[j].off
  BY DEF CallsUnknown, PassKnows
<1>4. QED
  BY <1>1, <1>2, <1>3, TypeCorrectness, PTL DEF Spec, NeverRevived

-----------------------------------------------------------------------------
(* The state of a scan                                                     *)

Fields == {"phase", "sources", "page", "todo", "item", "budget"}

\* At the loop over the entries of a source, or in one of them.
AtItems == scan.phase = "items" \/ scan.phase \in InItem

Shapes ==
  /\ DOMAIN scan = Fields
  /\ scan.phase \in InItem => scan.item \in Entry
  /\ announced \in [Entry -> Nat] /\ expiries \in [Entry -> Nat]
  /\ notified \in Nat /\ sentToday \in Nat /\ faults \in Nat

\* The entry in hand may still be announced, on the claim that brought it
\* there, even if that claim runs out meanwhile.
ClaimsCover ==
  \A e \in Entry :
    announced[e] + (IF scan.phase \in InItem /\ scan.item = e THEN 1 ELSE 0)
      <= expiries[e] + (IF e \in claims THEN 1 ELSE 0)

\* Whatever was sent today had its quota taken today, but for one.
QuotaCovers ==
  sentToday + (IF scan.phase = "publish" THEN 1 ELSE 0)
    <= (IF notified <= NotifyLimit THEN notified ELSE NotifyLimit) + 1

\* Only the entry in hand is owed.
OwedInHand ==
  faults = 0 =>
    owed \subseteq IF scan.phase \in InItem \ {"score"} THEN {scan.item} ELSE {}

\* What the loop has passed over was claimed, now or before.
PassedClaimed ==
  AtItems => \A e \in scan.page \ scan.todo :
               e \in Entry /\ (e \in claims \/ expiries[e] > 0)

ScanInv ==
  Shapes /\ ClaimsCover /\ QuotaCovers /\ OwedInHand /\ PassedClaimed

\* The limits are numbers.
LEMMA Bounds == NotifyLimit \in Nat /\ MaxFaults \in Nat
BY FeedScanAssumption

-----------------------------------------------------------------------------
(* The steps                                                               *)

\* Without an entry in hand, and with none taken.
LEMMA Between ==
  ASSUME ScanInv,
         DOMAIN scan' = Fields,
         scan.phase \notin InItem, scan'.phase \notin InItem,
         scan'.phase = "items" =>
           \A e \in scan'.page \ scan'.todo :
             e \in Entry /\ (e \in claims \/ expiries[e] > 0),
         UNCHANGED <<claims, notified, announced, expiries, owed, sentToday>>,
         faults' \in {faults, faults + 1}
  PROVE  ScanInv'
<1>1. scan.phase # "publish" /\ scan'.phase # "publish"
  BY DEF InItem
<1>2. Shapes'
  BY DEF ScanInv, Shapes
<1>3. ClaimsCover'
  BY DEF ScanInv, ClaimsCover
<1>4. QuotaCovers'
  BY <1>1 DEF ScanInv, QuotaCovers
<1>5. OwedInHand'
  BY DEF ScanInv, OwedInHand, Shapes
<1>6. PassedClaimed'
  BY DEF ScanInv, PassedClaimed, AtItems
<1>7. QED
  BY <1>2, <1>3, <1>4, <1>5, <1>6 DEF ScanInv

\* The loops over the sources and over the entries they show.
LEMMA LoopKeeps ==
  ASSUME ScanInv,
         ScanStarts \/ ScanEnds \/ Skip \/ Fetch \/ FetchFails \/ Touch
           \/ Exhausted \/ (ScanAborts /\ scan.phase \notin InItem)
  PROVE  ScanInv'
<1>1. DOMAIN scan = Fields /\ DOMAIN Resting = Fields
      /\ Resting.phase = "idle" /\ Resting.phase \notin InItem
  BY DEF ScanInv, Shapes, Resting, Fields, InItem
<1>2. /\ DOMAIN scan' = Fields
      /\ scan.phase \notin InItem /\ scan'.phase \notin InItem
      /\ scan'.phase = "items" => scan'.page \ scan'.todo = {}
  <2>1. CASE ScanStarts
    BY <1>1, <2>1 DEF ScanStarts, Resting, Fields, InItem
  <2>2. CASE ScanEnds \/ Exhausted \/ (ScanAborts /\ scan.phase \notin InItem)
    BY <1>1, <2>2 DEF ScanEnds, Exhausted, ScanAborts, InItem
  <2>3. CASE Skip \/ FetchFails
    BY <1>1, <2>3 DEF Skip, FetchFails, AtSource, Fields, InItem
  <2>4. CASE Fetch
    BY <1>1, <2>4 DEF Fetch, AtSource, Fields, InItem
  <2>5. CASE Touch
    BY <1>1, <2>5 DEF Touch, Fields, InItem
  <2>6. QED
    BY <2>1, <2>2, <2>3, <2>4, <2>5
<1>3. /\ UNCHANGED <<claims, notified, announced, expiries, owed, sentToday>>
      /\ faults' \in {faults, faults + 1}
  BY DEF ScanStarts, ScanEnds, Skip, Fetch, FetchFails, Touch, Exhausted,
         ScanAborts, historyVars, Fails
<1>4. QED
  BY <1>2, <1>3, Between

\* An entry that is claimed already is passed over.
LEMMA SeenKeeps ==
  ASSUME ScanInv, NEW e \in Entry, Seen(e)
  PROVE  ScanInv'
<1>1. /\ DOMAIN scan = Fields /\ scan.phase = "items" /\ e \in claims
      /\ scan' = [scan EXCEPT !.todo = @ \ {e}]
      /\ UNCHANGED <<claims, notified, announced, expiries, owed, sentToday,
                     faults>>
  BY DEF ScanInv, Shapes, Seen, AtEntry, historyVars
<1>2. /\ DOMAIN scan' = Fields /\ scan'.phase = "items"
      /\ scan'.page = scan.page /\ scan'.todo = scan.todo \ {e}
  BY <1>1 DEF Fields
<1>3. \A d \in scan'.page \ scan'.todo :
        d \in Entry /\ (d \in claims \/ expiries[d] > 0)
  BY <1>1, <1>2 DEF ScanInv, PassedClaimed, AtItems
<1>4. scan.phase \notin InItem /\ scan'.phase \notin InItem
  BY <1>1, <1>2 DEF InItem
<1>5. QED
  BY <1>1, <1>2, <1>3, <1>4, Between

\* An entry is claimed and taken in hand.
LEMMA ClaimKeeps ==
  ASSUME ScanInv, NEW e \in Entry, Claim(e)
  PROVE  ScanInv'
<1>1. /\ DOMAIN scan = Fields /\ scan.phase = "items"
      /\ e \notin claims /\ claims' = claims \union {e}
      /\ scan' = [scan EXCEPT !.phase = "score", !.item = e]
      /\ UNCHANGED <<notified, announced, expiries, owed, sentToday, faults>>
  BY DEF ScanInv, Shapes, Claim, AtEntry, historyVars
<1>2. /\ DOMAIN scan' = Fields /\ scan'.phase = "score" /\ scan'.item = e
      /\ scan'.page = scan.page /\ scan'.todo = scan.todo
  BY <1>1 DEF Fields
<1>3. scan.phase \notin InItem /\ scan'.phase \in InItem
  BY <1>1, <1>2 DEF InItem
<1>4. Shapes'
  BY <1>1, <1>2 DEF ScanInv, Shapes
<1>5. ClaimsCover'
  <2>1. SUFFICES ASSUME NEW d \in Entry
                 PROVE  announced[d] + (IF d = e THEN 1 ELSE 0)
                          <= expiries[d] + (IF d \in claims' THEN 1 ELSE 0)
    BY <1>1, <1>2, <1>3 DEF ClaimsCover
  <2>2. /\ announced[d] \in Nat /\ expiries[d] \in Nat
        /\ announced[d] <= expiries[d] + (IF d \in claims THEN 1 ELSE 0)
    BY <1>3 DEF ScanInv, Shapes, ClaimsCover
  <2>3. QED
    BY <1>1, <2>2
<1>6. QuotaCovers'
  BY <1>1, <1>2 DEF ScanInv, QuotaCovers
<1>7. OwedInHand'
  BY <1>1, <1>2, <1>3 DEF ScanInv, OwedInHand
<1>8. PassedClaimed'
  BY <1>1, <1>2 DEF ScanInv, PassedClaimed, AtItems
<1>9. QED
  BY <1>4, <1>5, <1>6, <1>7, <1>8 DEF ScanInv

\* The entry in hand was claimed, now or before.
LEMMA HandClaimed ==
  ASSUME ScanInv, scan.phase \in InItem
  PROVE  /\ scan.item \in Entry
         /\ announced[scan.item] \in Nat /\ expiries[scan.item] \in Nat
         /\ announced[scan.item] + 1
              <= expiries[scan.item] + (IF scan.item \in claims THEN 1 ELSE 0)
         /\ scan.item \in claims \/ expiries[scan.item] > 0
<1>1. /\ scan.item \in Entry
      /\ announced[scan.item] \in Nat /\ expiries[scan.item] \in Nat
  BY DEF ScanInv, Shapes
<1>2. announced[scan.item] + 1
        <= expiries[scan.item] + (IF scan.item \in claims THEN 1 ELSE 0)
  BY <1>1 DEF ScanInv, ClaimsCover
<1>3. QED
  BY <1>1, <1>2

\* The entry in hand is laid down: announced with its quota, kept, or dropped.
LEMMA HandledKeeps ==
  ASSUME ScanInv, scan.phase \in InItem, Handled,
         UNCHANGED <<claims, expiries, notified>>,
         \/ UNCHANGED <<announced, sentToday>>
         \/ /\ scan.phase = "publish"
            /\ announced' = [announced EXCEPT ![scan.item] = @ + 1]
            /\ sentToday' = sentToday + 1,
         faults' \in {faults, faults + 1},
         faults' = 0 => owed' = owed \ {scan.item}
  PROVE  ScanInv'
<1>1. /\ DOMAIN scan = Fields /\ scan.phase \in InItem
      /\ faults \in Nat /\ sentToday \in Nat /\ notified \in Nat
  BY DEF ScanInv, Shapes
<1>2. /\ DOMAIN scan' = Fields /\ scan'.phase = "items"
      /\ scan'.page = scan.page /\ scan'.todo = scan.todo \ {scan.item}
  BY <1>1 DEF Handled, Fields
<1>3. scan'.phase \notin InItem
  BY <1>2 DEF InItem
<1>4. Shapes'
  BY <1>2, <1>3 DEF ScanInv, Shapes
<1>5. ClaimsCover'
  <2>1. SUFFICES ASSUME NEW d \in Entry
                 PROVE  announced'[d]
                          <= expiries[d] + (IF d \in claims THEN 1 ELSE 0)
    <3>1. ASSUME NEW d \in Entry
          PROVE  announced'[d] \in Nat
      BY <1>4 DEF Shapes
    <3>2. QED
      BY <1>3, <3>1 DEF ClaimsCover
  <2>2. /\ announced[d] \in Nat /\ expiries[d] \in Nat
        /\ announced[d] + (IF scan.item = d THEN 1 ELSE 0)
             <= expiries[d] + (IF d \in claims THEN 1 ELSE 0)
    BY DEF ScanInv, Shapes, ClaimsCover
  <2>3. announced'[d] <= announced[d] + (IF scan.item = d THEN 1 ELSE 0)
    BY <2>2 DEF ScanInv, Shapes
  <2>4. announced'[d] \in Nat
    BY <1>4 DEF Shapes
  <2>5. QED
    BY <2>2, <2>3, <2>4
<1>6. QuotaCovers'
  BY <1>1, <1>2, Bounds DEF ScanInv, QuotaCovers
<1>7. OwedInHand'
  <2>1. SUFFICES ASSUME faults' = 0
                 PROVE  owed' = {}
    BY DEF OwedInHand
  <2>2. faults = 0 /\ owed' = owed \ {scan.item}
    BY <1>1, <2>1
  <2>3. QED
    BY <2>2 DEF ScanInv, OwedInHand
<1>8. PassedClaimed'
  BY <1>2, HandClaimed DEF ScanInv, PassedClaimed, AtItems
<1>9. QED
  BY <1>4, <1>5, <1>6, <1>7, <1>8 DEF ScanInv

\* The entry in hand goes on to the next step of _handle_item.
LEMMA GoesOnKeeps ==
  ASSUME ScanInv, scan.phase \in InItem,
         NEW phase \in InItem \ {"score"}, scan' = [scan EXCEPT !.phase = phase],
         UNCHANGED <<claims, announced, expiries, sentToday, faults>>,
         owed' \subseteq owed \union {scan.item},
         notified' \in Nat, QuotaCovers'
  PROVE  ScanInv'
<1>1. DOMAIN scan = Fields
  BY DEF ScanInv, Shapes
<1>2. /\ DOMAIN scan' = Fields /\ scan'.phase = phase
      /\ scan'.page = scan.page /\ scan'.todo = scan.todo
      /\ scan'.item = scan.item
  BY <1>1 DEF Fields
<1>3. Shapes'
  BY <1>2 DEF ScanInv, Shapes
<1>4. ClaimsCover'
  BY <1>2 DEF ScanInv, ClaimsCover
<1>5. OwedInHand'
  BY <1>2 DEF ScanInv, OwedInHand
<1>6. PassedClaimed'
  BY <1>2 DEF ScanInv, PassedClaimed, AtItems
<1>7. QED
  BY <1>3, <1>4, <1>5, <1>6 DEF ScanInv

\* The entry in hand is scored, announced or remembered.
LEMMA ItemKeeps ==
  ASSUME ScanInv,
         Score \/ ScoreFails \/ NotifyQuota \/ Publish \/ Remember
           \/ RememberFails
  PROVE  ScanInv'
<1>1. /\ DOMAIN scan = Fields /\ NotifyLimit \in Nat
      /\ notified \in Nat /\ sentToday \in Nat /\ faults \in Nat
  BY Bounds DEF ScanInv, Shapes
<1>2. CASE Score
  <2>1. /\ scan.phase = "score" /\ scan.phase \in InItem
        /\ UNCHANGED <<claims, notified, announced, expiries, sentToday,
                       faults>>
    BY <1>2 DEF Score, InItem
  <2>2. CASE Handled /\ UNCHANGED owed
    <3>1. faults' = 0 => owed' = owed \ {scan.item}
      BY <2>1, <2>2 DEF ScanInv, OwedInHand
    <3>2. QED
      BY <2>1, <2>2, <3>1, HandledKeeps
  <2>3. ASSUME NEW phase \in {"notify", "remember"},
               scan' = [scan EXCEPT !.phase = phase],
               owed' = owed \union {scan.item}
        PROVE  ScanInv'
    <3>1. phase \in InItem \ {"score"} /\ phase # "publish"
      BY DEF InItem
    <3>2. scan'.phase # "publish"
      BY <1>1, <2>3, <3>1 DEF Fields
    <3>3. QuotaCovers'
      BY <1>1, <2>1, <3>2 DEF ScanInv, QuotaCovers
    <3>4. QED
      BY <1>1, <2>1, <2>3, <3>1, <3>3, GoesOnKeeps
  <2>4. QED
    BY <1>2, <2>2, <2>3 DEF Score
<1>3. CASE ScoreFails \/ RememberFails
  <2>1. /\ scan.phase \in InItem /\ Handled /\ faults' = faults + 1
        /\ UNCHANGED <<claims, notified, announced, expiries, sentToday>>
    BY <1>3 DEF ScoreFails, RememberFails, Fails, historyVars, InItem
  <2>2. faults' # 0
    BY <1>1, <2>1
  <2>3. QED
    BY <2>1, <2>2, HandledKeeps
<1>4. CASE NotifyQuota
  <2> DEFINE phase ==
        IF notified + 1 <= NotifyLimit THEN "publish" ELSE "remember"
  <2>1. /\ scan.phase = "notify" /\ scan.phase \in InItem
        /\ scan' = [scan EXCEPT !.phase = phase]
        /\ notified' = IF NotifyLimit > 0 THEN notified + 1 ELSE notified
        /\ UNCHANGED <<claims, announced, expiries, owed, sentToday, faults>>
    BY <1>4 DEF NotifyQuota, historyVars, InItem
  <2>2. phase \in InItem \ {"score"} /\ scan'.phase = phase
    BY <1>1, <2>1 DEF InItem, Fields
  <2>3. sentToday
          <= (IF notified <= NotifyLimit THEN notified ELSE NotifyLimit) + 1
    BY <1>1, <2>1 DEF ScanInv, QuotaCovers
  <2>4. notified' \in Nat
    BY <1>1, <2>1
  <2>5. QuotaCovers'
    <3>1. CASE notified + 1 <= NotifyLimit
      <4>1. scan'.phase = "publish" /\ notified' = notified + 1
        BY <1>1, <2>1, <2>2, <3>1
      <4>2. QED
        BY <1>1, <2>1, <2>3, <3>1, <4>1 DEF QuotaCovers
    <3>2. CASE ~(notified + 1 <= NotifyLimit)
      <4>1. scan'.phase = "remember"
        BY <2>2, <3>2
      <4>2. QED
        BY <1>1, <2>1, <2>3, <3>2, <4>1 DEF QuotaCovers
    <3>3. QED
      BY <3>1, <3>2
  <2>6. QED
    BY <2>1, <2>2, <2>4, <2>5, GoesOnKeeps
<1>5. CASE Publish
  BY <1>5, HandledKeeps DEF Publish, InItem
<1>6. CASE Remember
  BY <1>6, HandledKeeps DEF Remember, InItem
<1>7. QED
  BY <1>2, <1>3, <1>4, <1>5, <1>6

\* The pass is over with an entry in hand, which keeps its claim.
LEMMA AbortKeeps ==
  ASSUME ScanInv, ScanAborts, scan.phase \in InItem
  PROVE  ScanInv'
<1>1. /\ DOMAIN Resting = Fields /\ Resting.phase = "idle"
      /\ Resting.phase \notin InItem
  BY DEF Resting, Fields, InItem
<1>2. /\ scan' = Resting /\ faults' = faults + 1
      /\ UNCHANGED <<claims, notified, announced, expiries, owed, sentToday>>
  BY DEF ScanAborts, Fails, historyVars
<1>3. Shapes'
  BY <1>1, <1>2 DEF ScanInv, Shapes
<1>4. ClaimsCover'
  <2>1. SUFFICES ASSUME NEW d \in Entry
                 PROVE  announced[d] <= expiries[d]
                                          + (IF d \in claims THEN 1 ELSE 0)
    <3>1. \A d \in Entry : announced[d] \in Nat
      BY DEF ScanInv, Shapes
    <3>2. QED
      BY <1>1, <1>2, <3>1 DEF ClaimsCover
  <2>2. /\ announced[d] \in Nat /\ expiries[d] \in Nat
        /\ announced[d] + (IF scan.item = d THEN 1 ELSE 0)
             <= expiries[d] + (IF d \in claims THEN 1 ELSE 0)
    BY DEF ScanInv, Shapes, ClaimsCover
  <2>3. QED
    BY <2>2
<1>5. QuotaCovers'
  BY <1>1, <1>2, Bounds DEF ScanInv, Shapes, QuotaCovers
<1>6. OwedInHand'
  BY <1>2 DEF ScanInv, Shapes, OwedInHand
<1>7. PassedClaimed'
  BY <1>1, <1>2 DEF PassedClaimed, AtItems
<1>8. QED
  BY <1>3, <1>4, <1>5, <1>6, <1>7 DEF ScanInv

\* A claim that runs out is counted.
LEMMA ExpiryKeeps ==
  ASSUME ScanInv, NEW e \in Entry, ClaimExpires(e)
  PROVE  ScanInv'
<1>1. /\ e \in claims /\ claims' = claims \ {e}
      /\ expiries' = [expiries EXCEPT ![e] = @ + 1]
      /\ UNCHANGED <<scan, notified, announced, owed, sentToday, faults>>
  BY DEF ClaimExpires
<1>2. /\ expiries' \in [Entry -> Nat] /\ expiries \in [Entry -> Nat]
      /\ \A d \in Entry : expiries'[d] = IF d = e THEN expiries[d] + 1
                                         ELSE expiries[d]
  BY <1>1 DEF ScanInv, Shapes
<1>3. Shapes'
  BY <1>1, <1>2 DEF ScanInv, Shapes
<1>4. ClaimsCover'
  <2>1. ASSUME NEW d \in Entry
        PROVE  expiries'[d] + (IF d \in claims' THEN 1 ELSE 0)
                 = expiries[d] + (IF d \in claims THEN 1 ELSE 0)
    BY <1>1, <1>2
  <2>2. QED
    BY <1>1, <2>1 DEF ScanInv, ClaimsCover
<1>5. QuotaCovers' /\ OwedInHand'
  BY <1>1 DEF ScanInv, QuotaCovers, OwedInHand
<1>6. PassedClaimed'
  BY <1>1, <1>2 DEF ScanInv, PassedClaimed, AtItems
<1>7. QED
  BY <1>3, <1>4, <1>5, <1>6 DEF ScanInv

\* At midnight both counters start again.
LEMMA DayKeeps ==
  ASSUME ScanInv, DayPasses
  PROVE  ScanInv'
<1>1. /\ notified' = 0 /\ sentToday' = 0
      /\ UNCHANGED <<scan, claims, announced, expiries, owed, faults>>
  BY DEF DayPasses
<1>2. QuotaCovers'
  BY <1>1, Bounds DEF QuotaCovers
<1>3. QED
  BY <1>1, <1>2 DEF ScanInv, Shapes, ClaimsCover, OwedInHand, PassedClaimed,
                    AtItems

\* At the start nothing was claimed.
LEMMA ScanInvInit ==
  ASSUME ScanInit
  PROVE  ScanInv
<1>1. /\ DOMAIN Resting = Fields /\ Resting.phase = "idle"
      /\ Resting.phase \notin InItem
  BY DEF Resting, Fields, InItem
<1>2. /\ scan = Resting /\ notified = 0 /\ sentToday = 0 /\ faults = 0
      /\ owed = {} /\ claims = {}
      /\ announced = [e \in Entry |-> 0] /\ expiries = [e \in Entry |-> 0]
  BY DEF ScanInit
<1>3. Shapes /\ ClaimsCover
  BY <1>1, <1>2 DEF Shapes, ClaimsCover
<1>4. QuotaCovers /\ OwedInHand /\ PassedClaimed
  BY <1>1, <1>2, Bounds DEF QuotaCovers, OwedInHand, PassedClaimed, AtItems
<1>5. QED
  BY <1>3, <1>4 DEF ScanInv

\* Every step keeps the invariant.
LEMMA ScanKept ==
  ASSUME ScanInv, [ScanNext]_scanVars
  PROVE  ScanInv'
<1>1. ASSUME UNCHANGED <<scan, claims, notified, historyVars, faults>>
      PROVE  ScanInv'
  BY <1>1 DEF historyVars, ScanInv, Shapes, ClaimsCover, QuotaCovers,
              OwedInHand, PassedClaimed, AtItems
<1>2. ASSUME NEW s \in Source, Appears(s) \/ Switch(s)
      PROVE  ScanInv'
  BY <1>1, <1>2 DEF Appears, Switch
<1>3. CASE UNCHANGED scanVars
  BY <1>1, <1>3 DEF scanVars
<1>4. ScanAborts => ScanInv'
  BY LoopKeeps, AbortKeeps
<1>5. ScanStep => ScanInv'
  BY LoopKeeps, SeenKeeps, ClaimKeeps, ItemKeeps DEF ScanStep, EntryStep
<1>6. CASE FetchFails \/ ScoreFails \/ RememberFails
  BY <1>6, LoopKeeps, ItemKeeps
<1>7. QED
  BY <1>2, <1>3, <1>4, <1>5, <1>6, ExpiryKeeps, DayKeeps DEF ScanNext

\* The invariant holds in every reachable state of the scan.
LEMMA ScanInvariant == ScanSpec => []ScanInv
<1>1. ScanInit => ScanInv
  BY ScanInvInit
<1>2. ScanInv /\ [ScanNext]_scanVars => ScanInv'
  BY ScanKept
<1>3. QED
  BY <1>1, <1>2, PTL DEF ScanSpec

Waits == wait \in [Source -> Nat]

\* The steps that write timestamps: Touch and the start of a pass.
LEMMA WaitSteps ==
  ASSUME [ScanNext]_scanVars
  PROVE  Touch \/ ScanStarts \/ UNCHANGED wait
<1>1. CASE ScanStep
  BY <1>1 DEF ScanStep, ScanEnds, Skip, Fetch, Exhausted, EntryStep, Claim,
              Seen, Score, NotifyQuota, Publish, Remember
<1>2. CASE FetchFails \/ ScoreFails \/ RememberFails \/ ScanAborts
  BY <1>2 DEF FetchFails, ScoreFails, RememberFails, ScanAborts
<1>3. CASE \E s \in Source : Appears(s) \/ Switch(s)
  BY <1>3 DEF Appears, Switch
<1>4. CASE (\E e \in Entry : ClaimExpires(e)) \/ DayPasses \/ UNCHANGED scanVars
  BY <1>4 DEF ClaimExpires, DayPasses, scanVars
<1>5. QED
  BY <1>1, <1>2, <1>3, <1>4 DEF ScanNext

\* The scans since a timestamp are a number.
LEMMA WaitsInvariant == ScanSpec => []Waits
<1>1. ScanInit => Waits
  BY DEF ScanInit, Waits
<1>2. Waits /\ [ScanNext]_scanVars => Waits'
  <2>1. ASSUME Waits, ScanStarts
        PROVE  Waits'
    <3>1. \A s \in Source : wait[s] \in Nat
      BY <2>1 DEF Waits
    <3>2. QED
      BY <2>1, <3>1 DEF ScanStarts, Waits
  <2>2. ASSUME Waits, Touch
        PROVE  Waits'
    BY <2>2 DEF Touch, Waits
  <2>3. QED
    BY <2>1, <2>2, WaitSteps DEF Waits
<1>3. QED
  BY <1>1, <1>2, PTL DEF ScanSpec

-----------------------------------------------------------------------------
(* Types of the scan                                                       *)

ScanRecord == [phase: ScanPhases, sources: SUBSET Source, page: SUBSET Entry,
               todo: SUBSET Entry, item: Entry \union {<<0, 0>>},
               budget: 0 .. RunBudget]

\* The entry in hand is one that the loop has not done, within the budget, and
\* the source that shows it is still to be done.
Scanned ==
  /\ scan \in ScanRecord
  /\ scan.phase \in InItem => scan.item \in scan.todo /\ scan.budget > 0
  /\ scan.phase \in InItem \union {"items"} => scan.sources # {}

Surroundings ==
  /\ active \in [Source -> BOOLEAN]
  /\ published \in [Source -> Nat]
  /\ \A s \in Source : published[s] <= MaxEntries[s]
  /\ wait \in [Source -> 0 .. 2]
  /\ faults \in 0 .. MaxFaults /\ switches \in 0 .. MaxSwitches

Tallies ==
  /\ claims \in SUBSET Entry /\ owed \in SUBSET Entry
  /\ notified \in Nat /\ sentToday \in Nat
  /\ announced \in [Entry -> Nat] /\ expiries \in [Entry -> Nat]

\* The parts of ScanTypeOK.
LEMMA ScanTypeParts == ScanTypeOK <=> Scanned /\ Surroundings /\ Tallies
BY DEF ScanTypeOK, Scanned, ScanRecord, Surroundings, Tallies

\* Numbers are compared as elements of a relation, so that the theorems about
\* well-founded relations can be used.
Less == {p \in Nat \X Nat : p[1] < p[2]}

\* Sources that are left have a foremost one.
LEMMA ForemostIsLeft ==
  ASSUME scan.sources \in SUBSET Source, scan.sources # {}
  PROVE  /\ Foremost \in scan.sources
         /\ \A s \in scan.sources : Foremost <= s
<1>1. PICK S : S = scan.sources
  OBVIOUS
<1>2. S \subseteq Nat /\ S # {}
  BY <1>1, FeedScanAssumption DEF Source
<1>3. IsWellFoundedOn(Less, Nat)
  BY NatLessThanWellFounded DEF OpToRel, Less
<1>4. PICK x \in S : \A y \in S : <<y, x>> \notin Less
  BY <1>2, <1>3, WFMin
<1>5. \A y \in S : x <= y
  <2>1. TAKE y \in S
  <2>2. x \in Nat /\ y \in Nat /\ ~(y < x)
    BY <1>2, <1>4 DEF Less
  <2>3. QED
    BY <2>2
<1>6. Foremost = CHOOSE s \in S : \A t \in S : s <= t
  BY <1>1 DEF Foremost, Min
<1>7. QED
  BY <1>1, <1>5, <1>6

\* What a source shows are entries.
LEMMA PageOfEntries ==
  ASSUME Surroundings, NEW s \in Source
  PROVE  Page(s) \in SUBSET Entry
<1>1. /\ published[s] \in Nat /\ published[s] <= MaxEntries[s]
      /\ MaxEntries[s] \in Nat
  BY FeedScanAssumption DEF Surroundings
<1>2. 1 .. published[s] \subseteq 1 .. MaxEntries[s]
  BY <1>1
<1>3. Page(s) \subseteq {s} \X (1 .. MaxEntries[s])
  BY <1>2 DEF Page
<1>4. QED
  BY <1>3 DEF Entry

\* The loop over the sources keeps the types.
LEMMA LoopTyped ==
  ASSUME Scanned, Surroundings,
         ScanStarts \/ ScanEnds \/ Skip \/ Fetch \/ FetchFails \/ Touch
           \/ Exhausted \/ ScanAborts
  PROVE  Scanned'
<1>1. Resting \in ScanRecord /\ Resting.phase = "idle" /\ RunBudget \in Nat
  BY FeedScanAssumption DEF Resting, ScanRecord, ScanPhases
<1>2. CASE ScanEnds \/ Exhausted \/ ScanAborts
  BY <1>1, <1>2 DEF ScanEnds, Exhausted, ScanAborts, Scanned, InItem
<1>3. CASE ScanStarts
  <2>1. PICK left \in SUBSET Source :
          scan' = [Resting EXCEPT !.phase = "next", !.sources = left,
                                  !.budget = RunBudget]
    BY <1>3 DEF ScanStarts
  <2>2. scan' \in ScanRecord
    <3>1. "next" \in ScanPhases /\ RunBudget \in 0 .. RunBudget
      BY <1>1 DEF ScanPhases
    <3>2. QED
      BY <1>1, <2>1, <3>1 DEF ScanRecord
  <2>3. scan'.phase = "next"
    BY <1>1, <2>1 DEF ScanRecord
  <2>4. QED
    BY <2>2, <2>3 DEF Scanned, InItem
<1>4. CASE Skip \/ FetchFails
  <2>1. scan.phase = "next" /\ scan' = [scan EXCEPT !.sources = Others]
    BY <1>4 DEF Skip, FetchFails, AtSource
  <2>2. scan' \in ScanRecord /\ scan'.phase = "next"
    BY <2>1 DEF Scanned, ScanRecord, Others
  <2>3. QED
    BY <2>2 DEF Scanned, InItem
<1>5. CASE Fetch
  <2> DEFINE page == Page(Foremost)
  <2>1. /\ scan.sources # {}
        /\ scan' = [scan EXCEPT !.phase = "items", !.page = page, !.todo = page]
    BY <1>5 DEF Fetch, AtSource
  <2>2. scan.sources \in SUBSET Source
    BY DEF Scanned, ScanRecord
  <2>3. page \in SUBSET Entry
    BY <2>1, <2>2, ForemostIsLeft, PageOfEntries
  <2> HIDE DEF page
  <2>4. /\ scan' \in ScanRecord /\ scan'.phase = "items"
        /\ scan'.sources = scan.sources
    BY <2>1, <2>3 DEF Scanned, ScanRecord, ScanPhases
  <2>5. QED
    BY <2>1, <2>4 DEF Scanned, InItem
<1>6. CASE Touch
  <2>1. scan' = [scan EXCEPT !.phase = "next", !.sources = Others]
    BY <1>6 DEF Touch
  <2>2. scan' \in ScanRecord /\ scan'.phase = "next"
    BY <2>1 DEF Scanned, ScanRecord, ScanPhases, Others
  <2>3. QED
    BY <2>2 DEF Scanned, InItem
<1>7. QED
  BY <1>2, <1>3, <1>4, <1>5, <1>6

\* So do the loop over the entries and the steps of _handle_item.
LEMMA ItemTyped ==
  ASSUME Scanned,
         \/ \E e \in Entry : EntryStep(e)
         \/ Score \/ NotifyQuota \/ Publish \/ Remember
         \/ ScoreFails \/ RememberFails
  PROVE  Scanned'
<1>1. CASE Handled /\ scan.phase \in InItem
  <2>1. /\ scan.budget - 1 \in 0 .. RunBudget /\ scan.sources # {}
        /\ scan \in ScanRecord
    BY <1>1, FeedScanAssumption DEF Scanned, ScanRecord
  <2>2. /\ scan' \in ScanRecord /\ scan'.phase = "items"
        /\ scan'.sources = scan.sources
    BY <1>1, <2>1 DEF Handled, ScanRecord, ScanPhases
  <2>3. QED
    BY <2>1, <2>2 DEF Scanned, InItem
<1>2. ASSUME NEW phase \in InItem, scan.phase \in InItem,
             scan' = [scan EXCEPT !.phase = phase]
      PROVE  Scanned'
  <2>1. /\ scan' \in ScanRecord /\ scan'.phase = phase
        /\ scan'.sources = scan.sources /\ scan'.item = scan.item
        /\ scan'.todo = scan.todo /\ scan'.budget = scan.budget
    BY <1>2 DEF Scanned, ScanRecord, ScanPhases, InItem
  <2>2. QED
    BY <1>2, <2>1 DEF Scanned
<1>3. ASSUME NEW e \in Entry, EntryStep(e)
      PROVE  Scanned'
  <2>1. CASE Claim(e)
    <3>1. /\ scan' = [scan EXCEPT !.phase = "score", !.item = e]
          /\ scan.phase = "items" /\ e \in scan.todo /\ scan.budget > 0
      BY <2>1 DEF Claim, AtEntry
    <3>2. /\ scan' \in ScanRecord /\ scan'.item = e
          /\ scan'.sources = scan.sources
          /\ scan'.todo = scan.todo /\ scan'.budget = scan.budget
      BY <3>1 DEF Scanned, ScanRecord, ScanPhases
    <3>3. QED
      BY <3>1, <3>2 DEF Scanned
  <2>2. CASE Seen(e)
    <3>1. /\ scan' = [scan EXCEPT !.todo = @ \ {e}]
          /\ scan.phase = "items"
      BY <2>2 DEF Seen, AtEntry
    <3>2. /\ scan' \in ScanRecord /\ scan'.phase = "items"
          /\ scan'.sources = scan.sources
      BY <3>1 DEF Scanned, ScanRecord
    <3>3. QED
      BY <3>1, <3>2 DEF Scanned, InItem
  <2>3. QED
    BY <1>3, <2>1, <2>2 DEF EntryStep
<1>4. CASE Score
  BY <1>1, <1>2, <1>4 DEF Score, InItem
<1>5. CASE NotifyQuota
  BY <1>2, <1>5 DEF NotifyQuota, InItem
<1>6. CASE Publish \/ Remember \/ ScoreFails \/ RememberFails
  BY <1>1, <1>6 DEF Publish, Remember, ScoreFails, RememberFails, InItem
<1>7. QED
  BY <1>3, <1>4, <1>5, <1>6

\* What the job finds around it.
LEMMA SurroundingsTyped ==
  ASSUME Surroundings, [ScanNext]_scanVars
  PROVE  Surroundings'
<1>1. wait' \in [Source -> 0 .. 2]
  <2>1. CASE Touch
    <3>1. PICK s : wait' = [wait EXCEPT ![s] = 0]
      BY <2>1 DEF Touch
    <3>2. wait \in [Source -> 0 .. 2]
      BY DEF Surroundings
    <3>3. \A t \in Source : wait'[t] \in 0 .. 2
      BY <3>1, <3>2
    <3>4. wait' = [t \in Source |-> IF t = s THEN 0 ELSE wait[t]]
      BY <3>1, <3>2
    <3>5. QED
      BY <3>3, <3>4
  <2>2. CASE ScanStarts
    <3>1. \A s \in Source :
            (IF wait[s] < 2 THEN wait[s] + 1 ELSE 2) \in 0 .. 2
      BY DEF Surroundings
    <3>2. QED
      BY <2>2, <3>1 DEF ScanStarts
  <2>3. QED
    BY <2>1, <2>2, WaitSteps DEF Surroundings
<1>2. MaxFaults \in Nat /\ MaxSwitches \in Nat
  BY FeedScanAssumption
<1>3. ASSUME \/ UNCHANGED <<feedVars, faults>>
             \/ UNCHANGED feedVars /\ Fails
      PROVE  Surroundings'
  BY <1>1, <1>2, <1>3 DEF Surroundings, feedVars, Fails
<1>4. CASE ScanStep
  BY <1>3, <1>4 DEF ScanStep, ScanStarts, ScanEnds, Skip, Fetch, Touch,
                    Exhausted, EntryStep, Claim, Seen, Score, NotifyQuota,
                    Publish, Remember
<1>5. CASE FetchFails \/ ScoreFails \/ RememberFails \/ ScanAborts
  BY <1>3, <1>5 DEF FetchFails, ScoreFails, RememberFails, ScanAborts
<1>6. ASSUME NEW s \in Source, Appears(s)
      PROVE  Surroundings'
  <2>1. /\ published[s] < MaxEntries[s] /\ UNCHANGED <<active, switches, faults>>
        /\ published' = [published EXCEPT ![s] = @ + 1]
        /\ MaxEntries \in [Source -> Nat]
    BY <1>6, FeedScanAssumption DEF Appears
  <2>2. /\ published' \in [Source -> Nat]
        /\ \A t \in Source : published'[t] <= MaxEntries[t]
    BY <2>1 DEF Surroundings
  <2>3. QED
    BY <1>1, <2>1, <2>2 DEF Surroundings
<1>7. ASSUME NEW s \in Source, Switch(s)
      PROVE  Surroundings'
  <2>1. /\ switches' \in 0 .. MaxSwitches /\ UNCHANGED <<published, faults>>
        /\ active' = [active EXCEPT ![s] = ~@]
    BY <1>2, <1>7 DEF Switch, Surroundings
  <2>2. active' \in [Source -> BOOLEAN]
    BY <2>1, Zenon DEF Surroundings
  <2>3. QED
    BY <1>1, <2>1, <2>2 DEF Surroundings
<1>8. CASE (\E e \in Entry : ClaimExpires(e)) \/ DayPasses \/ UNCHANGED scanVars
  BY <1>3, <1>8 DEF ClaimExpires, DayPasses, scanVars
<1>9. QED
  BY <1>4, <1>5, <1>6, <1>7, <1>8 DEF ScanNext

\* What is counted, claimed and owed.
LEMMA TalliesTyped ==
  ASSUME Scanned, Tallies, ScanInv', [ScanNext]_scanVars
  PROVE  Tallies'
<1>1. /\ announced' \in [Entry -> Nat] /\ expiries' \in [Entry -> Nat]
      /\ notified' \in Nat /\ sentToday' \in Nat
  BY DEF ScanInv, Shapes
<1>2. claims' \in SUBSET Entry
  <2>1. CASE ScanStep
    BY <2>1 DEF ScanStep, ScanStarts, ScanEnds, Skip, Fetch, Touch, Exhausted,
                EntryStep, Claim, Seen, Score, NotifyQuota, Publish, Remember,
                Tallies
  <2>2. CASE FetchFails \/ ScoreFails \/ RememberFails \/ ScanAborts
    BY <2>2 DEF FetchFails, ScoreFails, RememberFails, ScanAborts, Tallies
  <2>3. CASE \E s \in Source : Appears(s) \/ Switch(s)
    BY <2>3 DEF Appears, Switch, Tallies
  <2>4. CASE (\E e \in Entry : ClaimExpires(e)) \/ DayPasses
               \/ UNCHANGED scanVars
    BY <2>4 DEF ClaimExpires, DayPasses, scanVars, Tallies
  <2>5. QED
    BY <2>1, <2>2, <2>3, <2>4 DEF ScanNext
<1>3. owed' \in SUBSET Entry
  <2>1. CASE Score
    <3>1. scan.item \in Entry
      BY <2>1 DEF Score, Scanned, ScanRecord, InItem
    <3>2. QED
      BY <2>1, <3>1 DEF Score, Tallies
  <2>2. CASE Publish \/ Remember
    BY <2>2 DEF Publish, Remember, Tallies
  <2>3. CASE ScanStep /\ ~Score /\ ~Publish /\ ~Remember
    BY <2>3 DEF ScanStep, ScanStarts, ScanEnds, Skip, Fetch, Touch, Exhausted,
                EntryStep, Claim, Seen, NotifyQuota, historyVars, Tallies
  <2>4. CASE FetchFails \/ ScoreFails \/ RememberFails \/ ScanAborts
    BY <2>4 DEF FetchFails, ScoreFails, RememberFails, ScanAborts, historyVars,
                Tallies
  <2>5. CASE \E s \in Source : Appears(s) \/ Switch(s)
    BY <2>5 DEF Appears, Switch, historyVars, Tallies
  <2>6. CASE (\E e \in Entry : ClaimExpires(e)) \/ DayPasses
               \/ UNCHANGED scanVars
    BY <2>6 DEF ClaimExpires, DayPasses, scanVars, historyVars, Tallies
  <2>7. QED
    BY <2>1, <2>2, <2>3, <2>4, <2>5, <2>6 DEF ScanNext
<1>4. QED
  BY <1>1, <1>2, <1>3 DEF Tallies

\* Every variable of the scan keeps its type, for any sources, entries, budgets
\* and limits: a pass reads and touches sources that are left to it, and works
\* on entries of the page it has fetched, within its budget.
THEOREM ScanTypeCorrectness == ScanSpec => []ScanTypeOK
<1>1. ScanInit => ScanTypeOK
  <2> SUFFICES ASSUME ScanInit PROVE ScanTypeOK
    OBVIOUS
  <2>1. {NSources, MaxFaults, MaxSwitches, RunBudget} \subseteq Nat
        /\ MaxEntries \in [Source -> Nat]
    BY FeedScanAssumption
  <2>2. Scanned
    BY <2>1 DEF ScanInit, Resting, Scanned, ScanRecord, ScanPhases, InItem
  <2>3. Surroundings /\ Tallies
    BY <2>1 DEF ScanInit, Surroundings, Tallies
  <2>4. QED
    BY <2>2, <2>3, ScanTypeParts
<1>2. ScanTypeOK /\ ScanInv' /\ [ScanNext]_scanVars => ScanTypeOK'
  <2> SUFFICES ASSUME ScanTypeOK, ScanInv', [ScanNext]_scanVars
               PROVE  ScanTypeOK'
    OBVIOUS
  <2>1. Scanned /\ Surroundings /\ Tallies
    BY ScanTypeParts
  <2>2. ASSUME UNCHANGED scan PROVE Scanned'
    BY <2>1, <2>2 DEF Scanned
  <2>3. Scanned'
    <3>1. CASE \E s \in Source : Appears(s) \/ Switch(s)
      BY <2>2, <3>1 DEF Appears, Switch
    <3>2. CASE (\E e \in Entry : ClaimExpires(e)) \/ DayPasses
                 \/ UNCHANGED scanVars
      BY <2>2, <3>2 DEF ClaimExpires, DayPasses, scanVars
    <3>3. QED
      BY <2>1, <3>1, <3>2, LoopTyped, ItemTyped DEF ScanNext, ScanStep
  <2>4. Surroundings' /\ Tallies'
    BY <2>1, SurroundingsTyped, TalliesTyped
  <2>5. QED
    BY <2>3, <2>4 DEF ScanTypeOK, Scanned, ScanRecord, Surroundings, Tallies
<1>3. QED
  BY <1>1, <1>2, ScanInvariant, PTL DEF ScanSpec

-----------------------------------------------------------------------------
(* What follows                                                            *)

\* However feeds repeat themselves, scans fail and claims run out under an
\* entry in hand: one announcement for each fresh claim.
THEOREM AnnouncedPerClaimHolds == ScanSpec => []AnnouncedPerClaim
<1>1. ScanInv => AnnouncedPerClaim
  <2>1. SUFFICES ASSUME ScanInv, NEW e \in Entry
                 PROVE  announced[e] <= expiries[e] + 1
    BY DEF AnnouncedPerClaim
  <2>2. /\ announced[e] \in Nat /\ expiries[e] \in Nat
        /\ announced[e] + (IF scan.phase \in InItem /\ scan.item = e
                           THEN 1 ELSE 0)
             <= expiries[e] + (IF e \in claims THEN 1 ELSE 0)
    BY <2>1 DEF ScanInv, Shapes, ClaimsCover
  <2>3. QED
    BY <2>2
<1>2. QED
  BY <1>1, ScanInvariant, PTL

\* No day sees more than one notification over the limit, the one that
\* midnight overtook, for any limit and any number of days.
THEOREM NotificationsBoundedHolds == ScanSpec => []NotificationsBounded
<1>1. ScanInv => NotificationsBounded
  BY Bounds DEF ScanInv, Shapes, QuotaCovers, NotificationsBounded
<1>2. QED
  BY <1>1, ScanInvariant, PTL

\* Nothing that was scored high enough is forgotten but in a failure.
THEOREM RelevantIsKeptHolds == ScanSpec => []RelevantIsKept
<1>1. ScanInv => RelevantIsKept
  BY DEF ScanInv, OwedInHand, RelevantIsKept
<1>2. QED
  BY <1>1, ScanInvariant, PTL

\* A source whose entries were not all claimed keeps its old timestamp.
THEOREM TouchedWhenHandledHolds == ScanSpec => TouchedWhenHandled
<1> DEFINE Claimed(e) == e \in claims \/ expiries[e] > 0
           Step == \A s \in Source : wait[s] > 0 /\ wait'[s] = 0
                                       => \A e \in scan.page : Claimed(e)
<1>1. ScanInv /\ Waits /\ [ScanNext]_scanVars => [Step]_scanVars
  <2>1. SUFFICES ASSUME ScanInv, Waits, ScanNext, NEW s \in Source,
                        wait[s] > 0, wait'[s] = 0
                 PROVE  \A e \in scan.page : Claimed(e)
    OBVIOUS
  <2>2. CASE Touch
    <3>1. scan.phase = "items" /\ scan.todo = {}
      BY <2>2 DEF Touch
    <3>2. QED
      BY <2>1, <3>1 DEF ScanInv, PassedClaimed, AtItems
  <2>3. CASE ScanStarts
    <3>1. wait'[s] = IF wait[s] < 2 THEN wait[s] + 1 ELSE 2
      BY <2>3 DEF ScanStarts
    <3>2. wait[s] \in Nat
      BY <2>1 DEF Waits
    <3>3. QED
      BY <2>1, <3>1, <3>2
  <2>4. CASE UNCHANGED wait
    BY <2>1, <2>4
  <2>5. QED
    BY <2>1, <2>2, <2>3, <2>4, WaitSteps
<1>2. QED
  BY <1>1, ScanInvariant, WaitsInvariant, PTL DEF ScanSpec, TouchedWhenHandled
=============================================================================
