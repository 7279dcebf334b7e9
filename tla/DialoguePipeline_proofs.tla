---------------------- MODULE DialoguePipeline_proofs ----------------------
(***************************************************************************)
(* TLAPS proofs about DialoguePipeline, for any number of messages, users, *)
(* task slots, retries and faults, in five parts: the inductive invariant  *)
(* behind the acknowledgements, on which the others build; the lock and    *)
(* the retries; the refinement of MessageFate; the deliveries in the hands *)
(* of the tasks; the replies within the deliveries.                        *)
(***************************************************************************)
EXTENDS DialoguePipeline, SequenceTheorems, FiniteSetTheorems, TLAPS

-----------------------------------------------------------------------------
(* Batches as sequences                                                    *)

\* The messages of a batch are a sequence of messages, one per delivery.
LEMMA MsgsOfBatch ==
  ASSUME NEW b \in Seq(Delivery)
  PROVE  /\ Msgs(b) \in Seq(Message)
         /\ Range(Msgs(b)) = {b[i].msg : i \in 1 .. Len(b)}
         /\ Range(Msgs(b)) \subseteq Message
         /\ Msgs(b) = <<>> <=> b = <<>>
         /\ b # <<>> => /\ Msgs(b)[1] = b[1].msg
                        /\ b[1] \in Delivery
                        /\ b[1].msg \in Range(Msgs(b))
<1> DEFINE n == Len(b)
<1>1. n \in Nat /\ DOMAIN b = 1 .. n /\ \A i \in 1 .. n : b[i] \in Delivery
  OBVIOUS
<1>2. \A i \in 1 .. n : b[i].msg \in Message
  BY <1>1 DEF Delivery
<1>3. Msgs(b) = [i \in 1 .. n |-> b[i].msg]
  BY <1>1 DEF Msgs
<1>4. Msgs(b) \in Seq(Message) /\ Len(Msgs(b)) = n
  BY <1>1, <1>2, <1>3
<1>5. Range(Msgs(b)) = {b[i].msg : i \in 1 .. n}
  BY <1>3 DEF Range
<1>6. Msgs(b) = <<>> <=> b = <<>>
  BY <1>4
<1>7. b # <<>> => 1 \in 1 .. n
  BY <1>1
<1>8. QED
  BY <1>1, <1>2, <1>3, <1>4, <1>5, <1>6, <1>7

\* A delivery that joins the batch adds its message.
LEMMA MsgsOfAppend ==
  ASSUME NEW b \in Seq(Delivery), NEW d \in Delivery
  PROVE  /\ Append(b, d) \in Seq(Delivery)
         /\ Append(b, d) # <<>>
         /\ Range(Msgs(Append(b, d))) = Range(Msgs(b)) \union {d.msg}
         /\ b # <<>> => Append(b, d)[1] = b[1]
<1> DEFINE c == Append(b, d)
<1>1. /\ c \in Seq(Delivery) /\ Len(c) = Len(b) + 1 /\ Len(b) \in Nat
      /\ \A i \in 1 .. Len(b) : c[i] = b[i]
      /\ c[Len(b) + 1] = d
  OBVIOUS
<1>2. Range(Msgs(c)) = {c[i].msg : i \in 1 .. Len(b) + 1}
  BY <1>1, MsgsOfBatch
<1>3. Range(Msgs(b)) = {b[i].msg : i \in 1 .. Len(b)}
  BY MsgsOfBatch
<1> HIDE DEF c
<1>4. {c[i].msg : i \in 1 .. Len(b) + 1}
        = {b[i].msg : i \in 1 .. Len(b)} \union {d.msg}
  <2>1. \A i \in 1 .. Len(b) : c[i].msg = b[i].msg
    BY <1>1
  <2>2. c[Len(b) + 1].msg = d.msg
    BY <1>1
  <2>3. \A i \in 1 .. Len(b) + 1 : i \in 1 .. Len(b) \/ i = Len(b) + 1
    BY <1>1
  <2>4. Len(b) + 1 \in 1 .. Len(b) + 1 /\ 1 .. Len(b) \subseteq 1 .. Len(b) + 1
    BY <1>1
  <2>5. ASSUME NEW i \in 1 .. Len(b) + 1
        PROVE  c[i].msg \in {b[j].msg : j \in 1 .. Len(b)} \union {d.msg}
    <3>1. CASE i \in 1 .. Len(b)
      BY <2>1, <3>1
    <3>2. CASE i = Len(b) + 1
      BY <2>2, <3>2
    <3>3. QED
      BY <2>3, <3>1, <3>2
  <2>6. ASSUME NEW j \in 1 .. Len(b)
        PROVE  b[j].msg \in {c[i].msg : i \in 1 .. Len(b) + 1}
    BY <2>1, <2>4
  <2>7. d.msg \in {c[i].msg : i \in 1 .. Len(b) + 1}
    BY <2>2, <2>4
  <2>8. QED
    BY <2>5, <2>6, <2>7
<1>5. c # <<>> /\ (b # <<>> => c[1] = b[1])
  <2>1. c # <<>>
    BY <1>1
  <2>2. b # <<>> => 1 \in 1 .. Len(b)
    OBVIOUS
  <2>3. QED
    BY <1>1, <2>1, <2>2
<1>6. QED
  BY <1>1, <1>2, <1>3, <1>4, <1>5 DEF c

\* The rest of an ack or nack loop has no new messages.
LEMMA MsgsOfTail ==
  ASSUME NEW b \in Seq(Delivery), b # <<>>
  PROVE  /\ Tail(b) \in Seq(Delivery)
         /\ Range(Msgs(Tail(b))) \subseteq Range(Msgs(b))
         /\ Len(b) # 1 => Tail(b) # <<>>
<1> DEFINE c == Tail(b)
<1>1. /\ c \in Seq(Delivery) /\ Len(c) = Len(b) - 1 /\ Len(b) \in Nat \ {0}
      /\ \A i \in 1 .. Len(c) : c[i] = b[i + 1] /\ i + 1 \in 1 .. Len(b)
  <2>1. Len(b) \in Nat \ {0}
    OBVIOUS
  <2>2. /\ c \in Seq(Delivery) /\ Len(c) = Len(b) - 1
        /\ \A i \in 1 .. Len(c) : c[i] = b[i + 1]
    BY HeadTailProperties
  <2>3. \A i \in 1 .. Len(c) : i + 1 \in 1 .. Len(b)
    <3> HIDE DEF c
    <3> QED
      BY <2>1, <2>2
  <2>4. QED
    BY <2>1, <2>2, <2>3
<1>2. Range(Msgs(c)) = {c[i].msg : i \in 1 .. Len(c)}
  BY <1>1, MsgsOfBatch
<1>3. Range(Msgs(b)) = {b[i].msg : i \in 1 .. Len(b)}
  BY MsgsOfBatch
<1> HIDE DEF c
<1>4. Range(Msgs(c)) \subseteq Range(Msgs(b))
  BY <1>1, <1>2, <1>3
<1>5. Len(b) # 1 => c # <<>>
  BY <1>1
<1>6. QED
  BY <1>1, <1>4, <1>5 DEF c

\* The first message of an entry is a message.
LEMMA FirstOfEntry ==
  ASSUME NEW ms \in Seq(Message), ms # <<>>
  PROVE  ms[1] \in Range(ms) /\ ms[1] \in Message
  BY DEF Range

\* The messages of a sequence of messages.
LEMMA RangeOfEntry ==
  ASSUME NEW ms \in Seq(Message)
  PROVE  Range(ms) \subseteq Message
  BY DEF Range

-----------------------------------------------------------------------------
(* What the actions are built from                                         *)

\* The batch of a busy task has messages, and its lock is that of a user.
LEMMA TaskTyped ==
  ASSUME TypeOK, BusyHasBatch, NEW t \in Task, task[t].phase # "idle"
  PROVE  /\ task[t].batch \in Seq(Delivery) /\ task[t].batch # <<>>
         /\ Msgs(task[t].batch) \in Seq(Message) \ {<<>>}
         /\ TaskUser(t) \in User
<1>1. task[t].batch \in Seq(Delivery) /\ task[t].batch # <<>>
  BY DEF TypeOK, BusyHasBatch
<1>2. Msgs(task[t].batch) \in Seq(Message) \ {<<>>}
      /\ task[t].batch[1].msg \in Message
  BY <1>1, MsgsOfBatch DEF Delivery
<1>3. TaskUser(t) \in User
  BY <1>2, MessageAssumption DEF TaskUser
<1>4. QED
  BY <1>1, <1>2, <1>3

\* So has an entry, whether in the ZSet, popped, or in the poller's hands.
LEMMA EntryTyped ==
  ASSUME NEW e \in Envelope, e.msgs # <<>>
  PROVE  /\ e.msgs \in Seq(Message) \ {<<>>} /\ e.retry \in Nat
         /\ EnvUser(e) \in User
<1>1. e.msgs \in Seq(Message) /\ e.retry \in Nat
  BY DEF Envelope
<1>2. e.msgs[1] \in Message
  BY <1>1, FirstOfEntry
<1>3. QED
  BY <1>1, <1>2, MessageAssumption DEF EnvUser

\* Whatever happens to the lock, its value is a token or its absence.
LEMMA LockTyped ==
  ASSUME TypeOK, NEW u \in User, NEW h \in Holder,
         \/ Take(u, h) \/ GiveBack(u, h) \/ LeaveBehind(u, h)
         \/ TakeUnknowing(u) \/ UNCHANGED lock
  PROVE  lock' \in [User -> Holder \union {Orphan, Nobody}]
BY DEF TypeOK, Take, GiveBack, LeaveBehind, TakeUnknowing

\* What is settled or parked stays so.
Grows ==
  /\ dlq \subseteq dlq' /\ skipped \subseteq skipped' /\ parked \subseteq parked'
  /\ \A m \in Message : replies[m] # <<>> => replies'[m] # <<>>

\* Settled, or handed over to the ZSet.
Accounted(m) == Settled(m) \/ m \in parked

\* What is accounted for stays so.
LEMMA GrowsAccounted ==
  ASSUME Grows, NEW m \in Message, Accounted(m)
  PROVE  Accounted(m)'
BY DEF Grows, Accounted, Settled

\* What a step may add to the ZSet, for the messages ms.
Adds(ms) ==
  /\ scheduled' \subseteq Envelope
  /\ \A e \in scheduled' :
       e \in scheduled \/ (e.msgs = ms /\ Range(ms) \subseteq parked')

\* Defer loses none of its messages: they are parked or dead-lettered.
LEMMA DeferKeeps ==
  ASSUME TypeOK, NEW ms \in Seq(Message) \ {<<>>}, NEW n \in Nat,
         Defer(ms, n), UNCHANGED outcomeVars
  PROVE  /\ dlq' \in SUBSET Message /\ parked' \in SUBSET Message
         /\ Grows /\ Adds(ms)
         /\ \A m \in Range(ms) : Accounted(m)'
<1>1. Range(ms) \subseteq Message
  BY RangeOfEntry
<1>2. Incoming(ms, n) \in Envelope /\ Incoming(ms, n).msgs = ms
  BY DEF Incoming, Envelope
<1>3. CASE n >= MaxRetries
  BY <1>1, <1>3 DEF TypeOK, Defer, Grows, Adds, Accounted, Settled, outcomeVars
<1>4. CASE ~(n >= MaxRetries)
  BY <1>1, <1>2, <1>4
     DEF TypeOK, Defer, Grows, Adds, Accounted, Settled, outcomeVars
<1>5. QED
  BY <1>3, <1>4

\* A parked reply is one more entry.
LEMMA ParkedAs ==
  ASSUME NEW ms, ParkReply(ms)
  PROVE  \E n \in Nat : scheduled' = scheduled \union {Outgoing(ms, n)}
BY DEF ParkReply

\* RunLocked decides on all its messages: answered, skipped or parked.
LEMMA RunLockedKeeps ==
  ASSUME TypeOK, NEW ms \in Seq(Message) \ {<<>>}, RunLocked(ms),
         UNCHANGED dlq
  PROVE  /\ replies' \in [Message -> Seq(Chat)]
         /\ skipped' \in SUBSET Message /\ parked' \in SUBSET Message
         /\ Grows /\ Adds(ms)
         /\ \A m \in Range(ms) : Accounted(m)'
<1>1. Range(ms) \subseteq Message /\ ms[1] \in Message
  BY RangeOfEntry, FirstOfEntry
<1>2. ChatOf[ms[1]] \in Chat
  BY <1>1, MessageAssumption
<1>3. CASE PublishReply(ms)
  <2>1. \A s \in Seq(Chat) :
          /\ Append(s, ChatOf[ms[1]]) \in Seq(Chat)
          /\ Append(s, ChatOf[ms[1]]) # <<>>
    BY <1>2
  <2>2. replies' \in [Message -> Seq(Chat)]
    BY <1>3, <2>1 DEF PublishReply, TypeOK
  <2>3. \A m \in Message :
          replies[m] # <<>> \/ m \in Range(ms) => replies'[m] # <<>>
    BY <1>3, <2>1 DEF PublishReply, TypeOK
  <2>4. QED
    BY <1>1, <1>3, <2>2, <2>3
       DEF PublishReply, TypeOK, Grows, Adds, Accounted, Settled
<1>4. CASE ParkReply(ms)
  <2>1. PICK n \in Nat : scheduled' = scheduled \union {Outgoing(ms, n)}
    BY <1>4, ParkedAs
  <2>2. Outgoing(ms, n) \in Envelope /\ Outgoing(ms, n).msgs = ms
    BY DEF Outgoing, Envelope
  <2>3. /\ parked' = parked \union Range(ms)
        /\ UNCHANGED <<replies, skipped>>
    BY <1>4 DEF ParkReply
  <2>4. QED
    BY <1>1, <2>1, <2>2, <2>3
       DEF TypeOK, Grows, Adds, Accounted, Settled
<1>5. CASE SkipReply(ms)
  BY <1>1, <1>5 DEF SkipReply, TypeOK, Grows, Adds, Accounted, Settled
<1>6. QED
  BY <1>3, <1>4, <1>5 DEF RunLocked

-----------------------------------------------------------------------------
(* The inductive invariant, in three parts                                 *)

TasksOK ==
  /\ task \in [Task -> [phase: TaskPhases, batch: Seq(Delivery)]]
  /\ BusyHasBatch /\ Backed

EntriesOK ==
  /\ scheduled \in SUBSET Envelope /\ due \in SUBSET Envelope
  /\ poller \in [phase: PollerPhases, env: Envelope]
  /\ EntriesNonEmpty /\ EntriesParked

OutcomesTyped ==
  /\ dlq \in SUBSET Message /\ skipped \in SUBSET Message
  /\ parked \in SUBSET Message
  /\ replies \in [Message -> Seq(Chat)]

RestOK ==
  /\ broker \in [Message -> {"unsent", "queued", "unacked", "gone"}]
  /\ deliveries \in [Message -> Nat]
  /\ lock \in [User -> Holder \union {Orphan, Nobody}]
  /\ running \in BOOLEAN
  /\ faults \in Nat
  /\ OutcomesTyped
  /\ AccountedFor

\* The invariant is the three parts.
LEMMA InvParts == PipelineInv <=> TasksOK /\ EntriesOK /\ RestOK
BY DEF PipelineInv, TypeOK, TasksOK, EntriesOK, RestOK, OutcomesTyped

\* A step that leaves the outcomes alone.
LEMMA GrowsTrivially ==
  ASSUME UNCHANGED <<skipped, parked, replies>>, dlq \subseteq dlq'
  PROVE  Grows
BY DEF Grows

\* A task that a step leaves alone keeps its part.
LEMMA TasksStay ==
  ASSUME TasksOK, Grows, UNCHANGED task
  PROVE  TasksOK'
<1>1. ASSUME NEW t \in Task, NEW m \in Range(Msgs(task[t].batch)),
             task[t].phase \in {"answered", "acking"}
      PROVE  Accounted(m)'
  <2>1. m \in Message
    BY MsgsOfBatch DEF TasksOK
  <2>2. Accounted(m)
    BY <1>1 DEF TasksOK, Backed, Accounted
  <2>3. QED
    BY <2>1, <2>2, GrowsAccounted
<1>2. QED
  BY <1>1 DEF TasksOK, BusyHasBatch, Backed, Accounted, Settled

\* One task gets a new state; what it is about to ack is accounted for.
LEMMA TaskChanges ==
  ASSUME TasksOK, Grows, NEW t \in Task,
         NEW s \in [phase: TaskPhases, batch: Seq(Delivery)],
         task' = [task EXCEPT ![t] = s],
         s.phase = "idle" <=> s.batch = <<>>,
         s.phase \in {"answered", "acking"} =>
           \A m \in Range(Msgs(s.batch)) : Accounted(m)'
  PROVE  TasksOK'
<1>1. task' \in [Task -> [phase: TaskPhases, batch: Seq(Delivery)]]
  BY DEF TasksOK
<1>2. \A r \in Task : task'[r] = IF r = t THEN s ELSE task[r]
  BY DEF TasksOK
<1>3. BusyHasBatch'
  BY <1>2 DEF TasksOK, BusyHasBatch
<1>4. ASSUME NEW r \in Task, r # t, NEW m \in Range(Msgs(task[r].batch)),
             task[r].phase \in {"answered", "acking"}
      PROVE  Accounted(m)'
  <2>1. m \in Message
    BY MsgsOfBatch DEF TasksOK
  <2>2. Accounted(m)
    BY <1>4 DEF TasksOK, Backed, Accounted
  <2>3. QED
    BY <2>1, <2>2, GrowsAccounted
<1>5. Backed'
  <2> SUFFICES ASSUME NEW r \in Task,
                      task'[r].phase \in {"answered", "acking"},
                      NEW m \in Range(Msgs(task'[r].batch))
               PROVE  Accounted(m)'
    BY DEF Backed, Accounted, Settled
  <2>1. CASE r = t
    BY <1>2, <2>1
  <2>2. CASE r # t
    BY <1>2, <1>4, <2>2
  <2>3. QED
    BY <2>1, <2>2
<1>6. QED
  BY <1>1, <1>3, <1>5 DEF TasksOK

\* The same for a step from phase to phase.
LEMMA TaskMoves ==
  ASSUME TasksOK, Grows, NEW t \in Task,
         NEW from \in TaskPhases \ {"idle"}, NEW to \in TaskPhases \ {"idle"},
         InPhase(t, from, to),
         to \in {"answered", "acking"} =>
           \A m \in Range(Msgs(task[t].batch)) : Accounted(m)'
  PROVE  TasksOK'
<1> DEFINE s == [task[t] EXCEPT !.phase = to]
<1>1. /\ s \in [phase: TaskPhases, batch: Seq(Delivery)]
      /\ s.phase = to /\ s.batch = task[t].batch
  BY DEF TasksOK
<1>2. task' = [task EXCEPT ![t] = s]
  BY DEF InPhase
<1>3. s.batch # <<>>
  BY <1>1 DEF TasksOK, BusyHasBatch, InPhase
<1> HIDE DEF s
<1>4. QED
  BY <1>1, <1>2, <1>3, TaskChanges

\* Steps that leave the poller alone and may add an entry keep that part.
LEMMA EntriesStay ==
  ASSUME EntriesOK, Grows, NEW ms, ms # <<>>,
         UNCHANGED scheduled \/ Adds(ms), UNCHANGED <<poller, due>>
  PROVE  EntriesOK'
BY DEF EntriesOK, EntriesNonEmpty, EntriesParked, Grows, Adds

\* What a step takes out of the queue has to be accounted for.
LEMMA QueueKept ==
  ASSUME AccountedFor, Grows,
         \A m \in Message :
           broker'[m] = "gone" => broker[m] = "gone" \/ Accounted(m)'
  PROVE  AccountedFor'
<1>1. ASSUME NEW m \in Message, broker[m] = "gone"
      PROVE  Accounted(m)'
  BY <1>1, GrowsAccounted DEF AccountedFor, Accounted
<1>2. QED
  BY <1>1 DEF AccountedFor, Accounted, Settled

\* A step that leaves the queue alone.
LEMMA QueueStays ==
  ASSUME AccountedFor, Grows, UNCHANGED broker
  PROVE  AccountedFor'
BY QueueKept

-----------------------------------------------------------------------------
(* Every step keeps it                                                     *)

\* From the gateway to the flushed batch.
LEMMA AcceptKeeps ==
  ASSUME TasksOK, EntriesOK, RestOK, NEW m \in Message, Accept(m)
  PROVE  TasksOK' /\ EntriesOK' /\ RestOK'
<1>1. Grows
  BY GrowsTrivially DEF Accept, outcomeVars
<1>2. TasksOK'
  BY <1>1, TasksStay DEF Accept, processVars
<1>3. EntriesOK'
  BY DEF Accept, processVars, EntriesOK, EntriesNonEmpty, EntriesParked
<1>4. RestOK'
  <2>1. broker' \in [Message -> {"unsent", "queued", "unacked", "gone"}]
        /\ \A k \in Message : broker'[k] = "gone" => broker[k] = "gone"
    BY DEF Accept, RestOK
  <2>2. AccountedFor'
    BY <1>1, <2>1, QueueKept DEF RestOK
  <2>3. QED
    BY <2>1, <2>2 DEF Accept, processVars, outcomeVars, RestOK, OutcomesTyped
<1>5. QED
  BY <1>2, <1>3, <1>4

\* A delivery goes into a batch.
LEMMA OnMessageKeeps ==
  ASSUME TasksOK, EntriesOK, RestOK,
         NEW m \in Message, NEW t \in Task, OnMessage(m, t)
  PROVE  TasksOK' /\ EntriesOK' /\ RestOK'
<1> DEFINE d == [msg |-> m, tag |-> deliveries[m] + 1]
           s == [phase |-> "debounce", batch |-> Append(task[t].batch, d)]
<1>1. Grows
  BY GrowsTrivially DEF OnMessage, outcomeVars
<1>2. d \in Delivery /\ task[t].batch \in Seq(Delivery)
  <2>1. deliveries[m] + 1 \in Nat
    BY DEF RestOK
  <2>2. d \in Delivery
    BY <2>1 DEF Delivery
  <2>3. task[t].batch \in Seq(Delivery)
    BY DEF TasksOK
  <2>4. QED
    BY <2>2, <2>3
<1>3. Append(task[t].batch, d) \in Seq(Delivery)
      /\ Append(task[t].batch, d) # <<>>
  BY <1>2, MsgsOfAppend
<1>4. /\ s \in [phase: TaskPhases, batch: Seq(Delivery)]
      /\ s.phase = "debounce" /\ s.batch # <<>>
  BY <1>3 DEF TaskPhases
<1>5. task' = [task EXCEPT ![t] = s]
  BY DEF OnMessage
<1>6. TasksOK'
  <2> HIDE DEF s
  <2> QED
    BY <1>1, <1>4, <1>5, TaskChanges
<1>7. EntriesOK'
  BY DEF OnMessage, EntriesOK, EntriesNonEmpty, EntriesParked
<1>8. RestOK'
  BY DEF OnMessage, Delivers, outcomeVars, RestOK, OutcomesTyped, AccountedFor,
         Settled
<1>9. QED
  BY <1>6, <1>7, <1>8

\* A delivery that cannot be parsed is dead-lettered.
LEMMA OnMalformedKeeps ==
  ASSUME TasksOK, EntriesOK, RestOK, NEW m \in Message, OnMalformed(m)
  PROVE  TasksOK' /\ EntriesOK' /\ RestOK'
<1>1. Grows
  BY GrowsTrivially DEF OnMalformed, outcomeVars
<1>2. TasksOK'
  BY <1>1, TasksStay DEF OnMalformed, processVars
<1>3. EntriesOK'
  BY DEF OnMalformed, processVars, EntriesOK, EntriesNonEmpty, EntriesParked
<1>4. RestOK'
  BY DEF OnMalformed, Delivers, processVars, outcomeVars, RestOK,
         OutcomesTyped, AccountedFor, Settled
<1>5. QED
  BY <1>2, <1>3, <1>4

\* The steps of a flush task that change no outcome.
LEMMA QuietTaskStepKeeps ==
  ASSUME TasksOK, EntriesOK, RestOK, NEW t \in Task,
         DebounceFires(t) \/ AcquireLock(t) \/ ReleaseLock(t) \/ BatchFails(t)
  PROVE  TasksOK' /\ EntriesOK' /\ RestOK'
<1>1. Grows
  BY GrowsTrivially DEF DebounceFires, AcquireLock, ReleaseLock, BatchFails,
                        outcomeVars
<1>2. TasksOK'
  <2>1. CASE DebounceFires(t)
    <3>1. InPhase(t, "debounce", "acquire")
      BY <2>1 DEF DebounceFires, InPhase
    <3>2. QED
      BY <1>1, <3>1, TaskMoves DEF TaskPhases
  <2>2. CASE AcquireLock(t)
    BY <1>1, <2>2, TaskMoves DEF AcquireLock, TaskPhases
  <2>3. CASE ReleaseLock(t)
    <3>1. \A m \in Range(Msgs(task[t].batch)) : Accounted(m)
      BY <2>3 DEF ReleaseLock, InPhase, TasksOK, Backed, Accounted
    <3>2. Range(Msgs(task[t].batch)) \subseteq Message
      BY MsgsOfBatch DEF TasksOK
    <3>3. \A m \in Range(Msgs(task[t].batch)) : Accounted(m)'
      BY <1>1, <3>1, <3>2, GrowsAccounted
    <3>4. QED
      BY <1>1, <2>3, <3>3, TaskMoves DEF ReleaseLock, TaskPhases
  <2>4. CASE BatchFails(t)
    BY <1>1, <2>4, TaskMoves DEF BatchFails, TaskPhases
  <2>5. QED
    BY <2>1, <2>2, <2>3, <2>4
<1>3. EntriesOK'
  BY DEF DebounceFires, AcquireLock, ReleaseLock, BatchFails, InPhase,
         EntriesOK, EntriesNonEmpty, EntriesParked
<1>4. RestOK'
  <2>1. AccountedFor'
    BY <1>1, QueueStays DEF DebounceFires, AcquireLock, ReleaseLock,
                            BatchFails, brokerVars, RestOK
  <2>2. task[t].phase # "idle"
    BY DEF DebounceFires, AcquireLock, ReleaseLock, BatchFails, InPhase
  <2>3. TaskUser(t) \in User /\ t \in Holder
    BY <2>2, InvParts, TaskTyped DEF PipelineInv, Holder
  <2>4. lock' \in [User -> Holder \union {Orphan, Nobody}]
    BY <2>3, InvParts, LockTyped
       DEF PipelineInv, DebounceFires, AcquireLock, ReleaseLock, BatchFails
  <2>5. QED
    BY <2>1, <2>4
       DEF DebounceFires, AcquireLock, ReleaseLock, BatchFails, InPhase, Fault,
           brokerVars, outcomeVars, RestOK, OutcomesTyped
<1>5. QED
  BY <1>2, <1>3, <1>4

\* The steps that decide on a batch: deferred or dead-lettered, or answered.
LEMMA DecidingTaskStepKeeps ==
  ASSUME TasksOK, EntriesOK, RestOK, NEW t \in Task,
         DeferBusy(t) \/ DeferUnknowing(t) \/ Answer(t)
  PROVE  TasksOK' /\ EntriesOK' /\ RestOK'
<1> DEFINE ms == Msgs(task[t].batch)
<1>1. TypeOK /\ BusyHasBatch
  BY InvParts DEF PipelineInv
<1>2. task[t].phase # "idle"
  BY DEF DeferBusy, DeferUnknowing, Answer, InPhase
<1>3. ms \in Seq(Message) \ {<<>>}
  BY <1>1, <1>2, TaskTyped
<1> HIDE DEF ms
<1>4. /\ OutcomesTyped' /\ Grows /\ Adds(ms)
      /\ \A m \in Range(ms) : Accounted(m)'
  <2>1. CASE DeferBusy(t) \/ DeferUnknowing(t)
    <3>1. Defer(ms, 0) /\ UNCHANGED outcomeVars
      BY <2>1 DEF DeferBusy, DeferUnknowing, ms
    <3>2. QED
      BY <1>1, <1>3, <3>1, DeferKeeps DEF OutcomesTyped, RestOK, outcomeVars
  <2>2. CASE Answer(t)
    <3>1. RunLocked(ms) /\ UNCHANGED dlq
      BY <2>2 DEF Answer, ms
    <3>2. QED
      BY <1>1, <1>3, <3>1, RunLockedKeeps DEF OutcomesTyped, RestOK
  <2>3. QED
    BY <2>1, <2>2
<1>5. TasksOK'
  <2>1. CASE DeferBusy(t)
    BY <1>4, <2>1, TaskMoves DEF DeferBusy, TaskPhases, ms
  <2>2. CASE DeferUnknowing(t)
    BY <1>4, <2>2, TaskMoves DEF DeferUnknowing, TaskPhases
  <2>3. CASE Answer(t)
    BY <1>4, <2>3, TaskMoves DEF Answer, TaskPhases, ms
  <2>4. QED
    BY <2>1, <2>2, <2>3
<1>6. EntriesOK'
  <2>1. UNCHANGED <<poller, due>>
    BY DEF DeferBusy, DeferUnknowing, Answer, InPhase
  <2>2. QED
    BY <1>3, <1>4, <2>1, EntriesStay
<1>7. RestOK'
  <2>1. /\ UNCHANGED <<brokerVars, lock, running>>
        /\ faults' \in Nat
    BY DEF DeferBusy, DeferUnknowing, Answer, InPhase, Fault, RestOK
  <2>2. AccountedFor'
    BY <1>4, <2>1, QueueStays DEF RestOK, brokerVars
  <2>3. QED
    BY <1>4, <2>1, <2>2 DEF RestOK, brokerVars
<1>8. QED
  BY <1>5, <1>6, <1>7

\* The ack and nack loops: what leaves the queue was decided on before, or
\* goes to the dead-letter queue now.
LEMMA SettlingTaskStepKeeps ==
  ASSUME TasksOK, EntriesOK, RestOK, NEW t \in Task,
         AckNext(t) \/ NackNext(t)
  PROVE  TasksOK' /\ EntriesOK' /\ RestOK'
<1> DEFINE b == task[t].batch
           d == b[1]
           s == IF Valid(d) THEN Rest(t) ELSE Idle
<1>1. /\ Settles(t, task[t].phase)
      /\ AckNext(t) => task[t].phase = "acking"
      /\ NackNext(t) => task[t].phase = "nacking"
  BY DEF AckNext, NackNext, Settles
<1>2. task[t].phase \in {"acking", "nacking"}
  BY <1>1
<1>3. /\ b \in Seq(Delivery) /\ b # <<>>
      /\ d.msg \in Message /\ d.msg \in Range(Msgs(b))
  <2>1. b \in Seq(Delivery) /\ b # <<>>
    BY <1>2 DEF TasksOK, BusyHasBatch
  <2>2. QED
    BY <2>1, MsgsOfBatch DEF Delivery
<1>4. /\ task' = [task EXCEPT ![t] = s]
      /\ broker' = IF Valid(d) THEN [broker EXCEPT ![d.msg] = "gone"]
                               ELSE broker
  BY <1>1 DEF Settles
<1>6. OutcomesTyped' /\ Grows
  <2>1. /\ UNCHANGED <<skipped, parked, replies>>
        /\ dlq' = dlq \/ dlq' = dlq \union {d.msg}
    BY DEF AckNext, NackNext, outcomeVars
  <2>2. Grows
    BY <2>1, GrowsTrivially
  <2>3. QED
    BY <1>3, <2>1, <2>2 DEF RestOK, OutcomesTyped
<1>7. /\ s \in [phase: TaskPhases, batch: Seq(Delivery)]
      /\ s.phase = "idle" <=> s.batch = <<>>
      /\ s.phase # "idle" => /\ s.phase = task[t].phase
                             /\ Range(Msgs(s.batch)) \subseteq Range(Msgs(b))
  <2>1. CASE s = Idle
    <3>1. <<>> \in Seq(Delivery) /\ s.phase = "idle" /\ s.batch = <<>>
      <4> HIDE DEF s
      <4> QED
        BY <2>1 DEF Idle
    <3>2. s \in [phase: TaskPhases, batch: Seq(Delivery)]
      <4> HIDE DEF s
      <4> QED
        BY <2>1, <3>1 DEF Idle, TaskPhases
    <3>3. QED
      BY <3>1, <3>2
  <2>2. CASE s # Idle
    <3>1. s = [task[t] EXCEPT !.batch = Tail(b)] /\ Len(b) # 1
      BY <2>2 DEF Rest
    <3>2. Tail(b) \in Seq(Delivery) /\ Tail(b) # <<>>
          /\ Range(Msgs(Tail(b))) \subseteq Range(Msgs(b))
      BY <1>3, <3>1, MsgsOfTail
    <3>3. s.phase = task[t].phase /\ s.batch = Tail(b)
          /\ s \in [phase: TaskPhases, batch: Seq(Delivery)]
      <4> HIDE DEF b
      <4> QED
        BY <3>1, <3>2 DEF TasksOK, s
    <3>4. QED
      BY <1>2, <3>2, <3>3
  <2>3. QED
    BY <2>1, <2>2
<1>8. TasksOK'
  <2>1. task[t].phase = "acking" => \A m \in Range(Msgs(b)) : Accounted(m)
    BY DEF TasksOK, Backed, Accounted
  <2>2. Range(Msgs(b)) \subseteq Message
    BY <1>3, MsgsOfBatch
  <2>3. s.phase \in {"answered", "acking"} =>
          \A m \in Range(Msgs(s.batch)) : Accounted(m)'
    BY <1>2, <1>6, <1>7, <2>1, <2>2, GrowsAccounted
  <2> HIDE DEF s, b, d
  <2>4. QED
    BY <1>4, <1>6, <1>7, <2>3, TaskChanges
<1>9. EntriesOK'
  BY DEF AckNext, NackNext, EntriesOK, EntriesNonEmpty, EntriesParked
<1>10. AccountedFor'
  <2>1. PICK k \in Message : k = d.msg
    BY <1>3
  <2>2. \A m \in Message : broker'[m] = "gone" => broker[m] = "gone" \/ m = k
    BY <1>4, <2>1 DEF RestOK
  <2>3. CASE broker' = broker
    BY <1>6, <2>3, QueueStays DEF RestOK
  <2>4. CASE AckNext(t)
    <3>1. Accounted(k)
      BY <1>1, <1>3, <2>1, <2>4 DEF TasksOK, Backed, Accounted
    <3>2. Accounted(k)'
      BY <1>6, <3>1, GrowsAccounted
    <3>3. QED
      BY <1>6, <2>2, <3>2, QueueKept DEF RestOK
  <2>5. CASE NackNext(t) /\ broker' # broker
    <3>1. k \in dlq'
      BY <2>1, <2>5 DEF NackNext
    <3>2. Accounted(k)'
      BY <3>1 DEF Accounted, Settled
    <3>3. QED
      BY <1>6, <2>2, <3>2, QueueKept DEF RestOK
  <2>6. QED
    BY <2>3, <2>4, <2>5
<1>11. RestOK'
  <2>1. broker' \in [Message -> {"unsent", "queued", "unacked", "gone"}]
    BY <1>3, <1>4 DEF RestOK
  <2>2. UNCHANGED <<deliveries, lock, running, faults>>
    BY DEF AckNext, NackNext
  <2>3. QED
    BY <1>6, <1>10, <2>1, <2>2 DEF RestOK
<1>12. QED
  BY <1>8, <1>9, <1>11

\* The steps of the poller that change no outcome.
QuietPollerStep ==
  \/ \E S \in SUBSET scheduled : PopDue(S) \/ PopFails(S)
  \/ \E e \in due : PollerAcquires(e) \/ PollerDrops(e)
  \/ PollerReleases \/ PollerFails \/ PollerSleeps

\* The steps of the poller that decide nothing.
LEMMA QuietPollerStepKeeps ==
  ASSUME TasksOK, EntriesOK, RestOK, QuietPollerStep
  PROVE  TasksOK' /\ EntriesOK' /\ RestOK'
<1> USE DEF QuietPollerStep
<1>1. Grows
  BY GrowsTrivially
     DEF PopDue, PopFails, PollerAcquires, PollerDrops, PollerReleases,
         PollerFails, PollerSleeps, outcomeVars
<1>2. /\ UNCHANGED <<task, broker, deliveries, running, replies, skipped>>
      /\ UNCHANGED <<dlq, parked>>
      /\ faults' \in Nat
  BY DEF PopDue, PopFails, PollerAcquires, PollerDrops, PollerReleases,
         PollerFails, PollerSleeps, Picks, Fault, brokerVars, outcomeVars,
         RestOK
<1>3. TasksOK'
  BY <1>1, <1>2, TasksStay
<1>4. NoEnvelope \in Envelope /\ Range(NoEnvelope.msgs) = {}
  BY DEF NoEnvelope, Outgoing, Envelope, Range
<1>5. EntriesOK'
  <2>1. CASE \E S \in SUBSET scheduled : PopDue(S) \/ PopFails(S)
    <3>1. PICK S \in SUBSET scheduled : PopDue(S) \/ PopFails(S)
      BY <2>1
    <3>2. /\ scheduled' = scheduled \ S
          /\ due' = S \/ due' = due
          /\ \/ poller' = [poller EXCEPT !.phase = "work"]
             \/ poller' = [poller EXCEPT !.phase = "dead"]
          /\ UNCHANGED parked
      BY <3>1 DEF PopDue, PopFails
    <3>3. /\ poller' \in [phase: PollerPhases, env: Envelope]
          /\ poller'.env = poller.env
          /\ poller'.phase \in {"work", "dead"}
      BY <3>2 DEF EntriesOK, PollerPhases
    <3>4. QED
      BY <3>2, <3>3 DEF EntriesOK, EntriesNonEmpty, EntriesParked
  <2>2. CASE \E e \in due : PollerAcquires(e) \/ PollerDrops(e)
    <3>1. PICK e \in due : PollerAcquires(e) \/ PollerDrops(e)
      BY <2>2
    <3>2. /\ due' = due \ {e} /\ UNCHANGED <<scheduled, parked>>
          /\ poller' = poller \/ poller' = [phase |-> "locked", env |-> e]
      BY <3>1 DEF PollerAcquires, PollerDrops, Picks
    <3>3. /\ poller' \in [phase: PollerPhases, env: Envelope]
          /\ poller' = poller \/ poller'.env = e
      BY <3>2 DEF EntriesOK, PollerPhases
    <3>4. QED
      BY <3>2, <3>3 DEF EntriesOK, EntriesNonEmpty, EntriesParked
  <2>3. CASE PollerReleases \/ PollerFails \/ PollerSleeps
    <3>1. /\ UNCHANGED <<scheduled, due, parked>>
          /\ poller'.phase \in {"work", "sleep"} /\ poller'.env = NoEnvelope
          /\ poller' \in [phase: PollerPhases, env: Envelope]
      BY <1>4, <2>3 DEF PollerReleases, PollerFails, PollerSleeps, BackToWork,
                        Asleep, PollerPhases
    <3>2. QED
      BY <1>4, <3>1 DEF EntriesOK, EntriesNonEmpty, EntriesParked
  <2>4. QED
    BY <2>1, <2>2, <2>3
<1>6. AccountedFor'
  BY <1>1, <1>2, QueueStays DEF RestOK
<1>7. lock' \in [User -> Holder \union {Orphan, Nobody}]
  <2>1. TypeOK /\ Poller \in Holder
    BY InvParts DEF PipelineInv, Holder
  <2>2. CASE \E S \in SUBSET scheduled : PopDue(S) \/ PopFails(S)
    BY <2>2 DEF PopDue, PopFails, RestOK
  <2>3. CASE \E e \in due : PollerAcquires(e) \/ PollerDrops(e)
    <3>1. PICK e \in due : PollerAcquires(e) \/ PollerDrops(e)
      BY <2>3
    <3>2. EnvUser(e) \in User
      BY EntryTyped DEF EntriesOK, EntriesNonEmpty
    <3>3. Take(EnvUser(e), Poller) \/ TakeUnknowing(EnvUser(e))
          \/ UNCHANGED lock
      BY <3>1 DEF PollerAcquires, PollerDrops
    <3>4. QED
      BY <2>1, <3>2, <3>3, LockTyped
  <2>4. CASE PollerReleases \/ PollerFails
    <3>1. poller.env \in Envelope /\ poller.env.msgs # <<>>
      BY <2>4 DEF PollerReleases, PollerFails, EntriesOK, EntriesNonEmpty
    <3>2. EnvUser(poller.env) \in User
      BY <3>1, EntryTyped
    <3>3. GiveBack(EnvUser(poller.env), Poller)
          \/ LeaveBehind(EnvUser(poller.env), Poller)
      BY <2>4 DEF PollerReleases, PollerFails
    <3>4. QED
      BY <2>1, <3>2, <3>3, LockTyped
  <2>5. CASE PollerSleeps
    BY <2>5 DEF PollerSleeps, RestOK
  <2>6. QED
    BY <2>2, <2>3, <2>4, <2>5
<1>8. QED
  BY <1>2, <1>3, <1>5, <1>6, <1>7 DEF RestOK, OutcomesTyped

\* The steps of the poller that decide on a postponed batch.
LEMMA DecidingPollerStepKeeps ==
  ASSUME TasksOK, EntriesOK, RestOK,
         \/ \E e \in due : PollerDelivers(e) \/ PollerDefers(e)
         \/ PollerAnswers
  PROVE  TasksOK' /\ EntriesOK' /\ RestOK'
<1>1. PICK ms \in Seq(Message) \ {<<>>} :
        /\ OutcomesTyped' /\ Grows
        /\ UNCHANGED scheduled \/ Adds(ms)
  <2>1. TypeOK
    BY InvParts DEF PipelineInv
  <2>2. CASE \E e \in due : PollerDelivers(e) \/ PollerDefers(e)
    <3>1. PICK e \in due : PollerDelivers(e) \/ PollerDefers(e)
      BY <2>2
    <3>2. e.msgs \in Seq(Message) \ {<<>>} /\ e.retry + 1 \in Nat
      BY EntryTyped DEF EntriesOK, EntriesNonEmpty
    <3>3. CASE PollerDelivers(e)
      <4>1. RunLocked(e.msgs) /\ UNCHANGED dlq
        BY <3>3 DEF PollerDelivers, RunLocked
      <4>2. QED
        BY <2>1, <3>2, <4>1, RunLockedKeeps DEF OutcomesTyped, RestOK
    <3>4. CASE PollerDefers(e)
      <4>1. Defer(e.msgs, e.retry + 1) /\ UNCHANGED outcomeVars
        BY <3>4 DEF PollerDefers
      <4>2. QED
        BY <2>1, <3>2, <4>1, DeferKeeps DEF OutcomesTyped, RestOK, outcomeVars
    <3>5. QED
      BY <3>1, <3>3, <3>4
  <2>3. CASE PollerAnswers
    <3>1. poller.env.msgs \in Seq(Message) \ {<<>>}
      <4>1. poller.env \in Envelope /\ poller.env.msgs # <<>>
        BY <2>3 DEF PollerAnswers, EntriesOK, EntriesNonEmpty
      <4>2. QED
        BY <4>1, EntryTyped
    <3>2. RunLocked(poller.env.msgs) /\ UNCHANGED dlq
      BY <2>3 DEF PollerAnswers
    <3>3. QED
      BY <2>1, <3>1, <3>2, RunLockedKeeps DEF OutcomesTyped, RestOK
  <2>4. QED
    BY <2>2, <2>3
<1>2. UNCHANGED <<task, broker, deliveries, lock, running, faults>>
  BY DEF PollerDelivers, PollerDefers, PollerAnswers, Picks, brokerVars
<1>3. TasksOK'
  BY <1>1, <1>2, TasksStay
<1>4. EntriesOK'
  <2>1. due' \subseteq due
    BY DEF PollerDelivers, PollerDefers, PollerAnswers, Picks
  <2>2. /\ poller' \in [phase: PollerPhases, env: Envelope]
        /\ poller'.env = poller.env
        /\ poller'.phase \in {"locked", "answered"} =>
             poller.phase \in {"locked", "answered"}
    BY DEF PollerDelivers, PollerDefers, PollerAnswers, EntriesOK, PollerPhases
  <2>3. QED
    BY <1>1, <2>1, <2>2
       DEF EntriesOK, EntriesNonEmpty, EntriesParked, Grows, Adds
<1>5. AccountedFor'
  BY <1>1, <1>2, QueueStays DEF RestOK
<1>6. QED
  BY <1>1, <1>2, <1>3, <1>4, <1>5 DEF RestOK

\* The other holder of the lock, and its ttl.
LEMMA LockStepKeeps ==
  ASSUME TasksOK, EntriesOK, RestOK, NEW u \in User,
         \/ SleeperAcquires(u) \/ SleeperReleases(u)
         \/ OrphanExpires(u) \/ HolderOutlivesLock(u)
  PROVE  TasksOK' /\ EntriesOK' /\ RestOK'
<1>1. UNCHANGED onlyLock /\ faults' \in Nat
  BY DEF SleeperAcquires, SleeperReleases, OrphanExpires, HolderOutlivesLock,
         Fault, RestOK
<1>2. Grows
  BY <1>1, GrowsTrivially DEF onlyLock, outcomeVars
<1>3. TasksOK'
  BY <1>1, <1>2, TasksStay DEF onlyLock, processVars
<1>4. EntriesOK'
  BY <1>1 DEF onlyLock, processVars, EntriesOK, EntriesNonEmpty, EntriesParked
<1>5. AccountedFor'
  BY <1>1, <1>2, QueueStays DEF onlyLock, brokerVars, RestOK
<1>6. lock' \in [User -> Holder \union {Orphan, Nobody}]
  <2>1. Sleeper \in Holder
    BY DEF Holder
  <2>2. QED
    BY <2>1 DEF SleeperAcquires, SleeperReleases, OrphanExpires,
                HolderOutlivesLock, Take, GiveBack, RestOK
<1>7. QED
  BY <1>1, <1>3, <1>4, <1>5, <1>6
     DEF onlyLock, brokerVars, processVars, outcomeVars, RestOK, OutcomesTyped

\* The ends of the process or of its connection, and a flush that returns.
Breaks ==
  Crash \/ Stop \/ Restart \/ Reconnect \/ \E t \in Task : FlushIgnored(t)

\* Crashes, shutdowns and lost connections: the broker takes back what was
\* not acknowledged, and what the process forgets was not acknowledged.
LEMMA BreakKeeps ==
  ASSUME TasksOK, EntriesOK, RestOK, Breaks
  PROVE  TasksOK' /\ EntriesOK' /\ RestOK'
<1> USE DEF Breaks, Crash, Stop, Restart, NewProcess, Reconnect, FlushIgnored
<1>1. Grows
  BY GrowsTrivially DEF outcomeVars
<1>2. /\ broker' \in [Message -> {"unsent", "queued", "unacked", "gone"}]
      /\ \A m \in Message : broker'[m] = "gone" => broker[m] = "gone"
  BY DEF Requeued, brokerVars, RestOK
<1>3. Idle \in [phase: TaskPhases, batch: Seq(Delivery)]
  BY DEF Idle, TaskPhases
<1>4. \A t \in Task : task'[t] = task[t] \/ task'[t] = Idle
  BY DEF processVars, TasksOK
<1>5. task' \in [Task -> [phase: TaskPhases, batch: Seq(Delivery)]]
  BY <1>3 DEF processVars, TasksOK
<1>6. TasksOK'
  <2>1. BusyHasBatch'
    BY <1>4 DEF Idle, TasksOK, BusyHasBatch
  <2>2. ASSUME NEW t \in Task, task'[t].phase \in {"answered", "acking"},
               NEW m \in Range(Msgs(task'[t].batch))
        PROVE  Accounted(m)'
    <3>1. task'[t] = task[t]
      BY <1>4, <2>2 DEF Idle
    <3>2. m \in Range(Msgs(task[t].batch)) /\ m \in Message
      BY <3>1, MsgsOfBatch DEF TasksOK
    <3>3. Accounted(m)
      BY <2>2, <3>1, <3>2 DEF TasksOK, Backed, Accounted
    <3>4. QED
      BY <1>1, <3>2, <3>3, GrowsAccounted
  <2>3. Backed'
    BY <2>2 DEF Backed, Accounted, Settled
  <2>4. QED
    BY <1>5, <2>1, <2>3 DEF TasksOK
<1>7. EntriesOK'
  <2>1. NoEnvelope \in Envelope /\ Range(NoEnvelope.msgs) = {}
    BY DEF NoEnvelope, Outgoing, Envelope, Range
  <2>2. /\ UNCHANGED <<scheduled, parked>>
        /\ due' \subseteq due
        /\ poller' = poller \/ poller' = Asleep
    BY DEF processVars
  <2>3. Asleep \in [phase: PollerPhases, env: Envelope]
        /\ Asleep.phase = "sleep" /\ Asleep.env = NoEnvelope
    BY <2>1 DEF Asleep, PollerPhases
  <2>4. QED
    BY <2>1, <2>2, <2>3 DEF EntriesOK, EntriesNonEmpty, EntriesParked
<1>8. AccountedFor'
  BY <1>1, <1>2, QueueKept DEF RestOK
<1>9. lock' \in [User -> Holder \union {Orphan, Nobody}]
  BY DEF RestOK
<1>10. UNCHANGED <<deliveries, dlq, replies, skipped, parked>>
  BY DEF brokerVars, outcomeVars
<1>11. running' \in BOOLEAN
  BY DEF processVars, RestOK
<1>12. faults' \in Nat
  BY DEF Fault, RestOK
<1>13. QED
  BY <1>2, <1>6, <1>7, <1>8, <1>9, <1>10, <1>11, <1>12
     DEF RestOK, OutcomesTyped

\* Nothing happens.
LEMMA StutterKeeps ==
  ASSUME TasksOK, EntriesOK, RestOK, UNCHANGED vars
  PROVE  TasksOK' /\ EntriesOK' /\ RestOK'
<1>1. Grows
  BY GrowsTrivially DEF vars, outcomeVars
<1>2. TasksOK'
  BY <1>1, TasksStay DEF vars, processVars
<1>3. EntriesOK'
  BY DEF vars, processVars, EntriesOK, EntriesNonEmpty, EntriesParked
<1>4. AccountedFor'
  BY <1>1, QueueStays DEF vars, brokerVars, RestOK
<1>5. QED
  BY <1>2, <1>3, <1>4
     DEF vars, brokerVars, processVars, outcomeVars, RestOK, OutcomesTyped

\* Every step keeps the invariant.
LEMMA NextKeeps ==
  ASSUME PipelineInv, [Next]_vars
  PROVE  PipelineInv'
<1>1. TasksOK /\ EntriesOK /\ RestOK
  BY InvParts
<1>2. TasksOK' /\ EntriesOK' /\ RestOK'
  <2>1. CASE \E m \in Message : Accept(m)
    BY <1>1, <2>1, AcceptKeeps
  <2>2. CASE Consume
    BY <1>1, <2>2, OnMessageKeeps, OnMalformedKeeps DEF Consume
  <2>3. ASSUME NEW t \in Task, TaskStep(t)
        PROVE  TasksOK' /\ EntriesOK' /\ RestOK'
    BY <1>1, <2>3, QuietTaskStepKeeps, DecidingTaskStepKeeps,
       SettlingTaskStepKeeps, BreakKeeps DEF TaskStep, Breaks
  <2>4. CASE (\E S \in SUBSET scheduled : PopDue(S)) \/ PollerStep
    BY <1>1, <2>4, QuietPollerStepKeeps, DecidingPollerStepKeeps
       DEF PollerStep, QuietPollerStep
  <2>5. ASSUME NEW u \in User,
               SleeperAcquires(u) \/ SleeperReleases(u) \/ OrphanExpires(u)
        PROVE  TasksOK' /\ EntriesOK' /\ RestOK'
    BY <1>1, <2>5, LockStepKeeps
  <2>6. CASE FaultStep
    BY <1>1, <2>6, QuietTaskStepKeeps, DecidingTaskStepKeeps,
       QuietPollerStepKeeps, LockStepKeeps,
       BreakKeeps DEF FaultStep, QuietPollerStep, Breaks
  <2>7. CASE Restart
    BY <1>1, <2>7, BreakKeeps DEF Breaks
  <2>8. CASE UNCHANGED vars
    BY <1>1, <2>8, StutterKeeps
  <2>9. QED
    BY <2>1, <2>2, <2>3, <2>4, <2>5, <2>6, <2>7, <2>8 DEF Next
<1>3. QED
  <2>1. (PipelineInv <=> TasksOK /\ EntriesOK /\ RestOK)'
    BY InvParts, PTL
  <2>2. QED
    BY <1>2, <2>1

\* At the start nothing was delivered.
LEMMA InitHolds == Init => PipelineInv
<1> SUFFICES ASSUME Init PROVE PipelineInv
  OBVIOUS
<1> USE DEF Init, Idle, Asleep, NoEnvelope, Outgoing, TaskPhases, PollerPhases
<1>1. NoEnvelope \in Envelope /\ Range(NoEnvelope.msgs) = {}
  BY DEF Envelope, Range
<1>2. TasksOK
  BY DEF TasksOK, BusyHasBatch, Backed
<1>3. EntriesOK
  BY <1>1 DEF EntriesOK, EntriesNonEmpty, EntriesParked
<1>4. RestOK
  BY DEF RestOK, OutcomesTyped, AccountedFor
<1>5. QED
  BY <1>2, <1>3, <1>4, InvParts

-----------------------------------------------------------------------------
(* Types and acknowledgements                                              *)

\* The state always has its types, and the five facts that make the
\* acknowledgement discipline inductive hold in every reachable state.
THEOREM Invariance == Spec => []PipelineInv
BY InitHolds, NextKeeps, PTL DEF Spec

\* Its types by themselves.
THEOREM TypeCorrectness == Spec => []TypeOK
<1>1. PipelineInv => TypeOK
  BY DEF PipelineInv
<1>2. QED
  BY <1>1, Invariance, PTL

\* The queue never lets go of a message that is not settled or in the ZSet's
\* care, whatever crashes, failures and lost connections happen.
THEOREM NoEarlyAck == Spec => []AccountedFor
<1>1. PipelineInv => AccountedFor
  BY DEF PipelineInv
<1>2. QED
  BY <1>1, Invariance, PTL

-----------------------------------------------------------------------------
(* Who works has the lock                                                  *)

\* WorkingHoldsLock, said of each holder: a task between acquire_lock and
\* release_lock has its user's lock, and so has the poller.
AtWork == {"locked", "answered"}
TaskHolds(t) == task[t].phase \in AtWork => lock[TaskUser(t)] = t
PollerHolds == poller.phase \in AtWork => lock[EnvUser(poller.env)] = Poller

LockHeld == (\A t \in Task : TaskHolds(t)) /\ PollerHolds

\* The invariant of the lock gives the property.
LEMMA HeldMeansWorking == LockHeld => WorkingHoldsLock
BY DEF LockHeld, TaskHolds, PollerHolds, WorkingHoldsLock, Working, AtWork

\* Only h's keys, or keys without a holder, change in a step.
OnlyFor(h) ==
  \A u \in User : lock[u] \in Holder \ {h} => lock'[u] = lock[u]

\* Whatever a holder does to a key, it is its own or nobody's.
LEMMA KeysOfOthers ==
  ASSUME TypeOK, NEW u \in User, NEW h \in Holder,
         \/ Take(u, h) \/ GiveBack(u, h) \/ LeaveBehind(u, h)
         \/ TakeUnknowing(u) \/ UNCHANGED lock
  PROVE  OnlyFor(h)
BY TokenAssumption
   DEF TypeOK, OnlyFor, Take, GiveBack, LeaveBehind, TakeUnknowing

\* The tasks other than h that a step leaves alone, or takes from their work,
\* hold what they held.
LEMMA OtherTasksHold ==
  ASSUME TypeOK, BusyHasBatch, LockHeld, NEW h \in Holder, OnlyFor(h),
         NEW t \in Task, t # h,
         task'[t] = task[t] \/ task'[t].phase \notin AtWork
  PROVE  TaskHolds(t)'
<1> SUFFICES ASSUME task'[t].phase \in AtWork
             PROVE  lock'[TaskUser(t)'] = t
  BY DEF TaskHolds
<1>1. task[t].phase \in AtWork /\ TaskUser(t)' = TaskUser(t)
  BY DEF TaskUser
<1>2. TaskUser(t) \in User
  BY <1>1, TaskTyped DEF AtWork
<1>3. lock[TaskUser(t)] = t
  BY <1>1 DEF LockHeld, TaskHolds
<1>4. QED
  BY <1>1, <1>2, <1>3 DEF OnlyFor, Holder

\* Another holder's step leaves the poller its lock.
LEMMA PollerStillHolds ==
  ASSUME TypeOK, EntriesNonEmpty, LockHeld,
         NEW h \in Holder, OnlyFor(h), h # Poller,
         poller' = poller \/ poller'.phase \notin AtWork
  PROVE  PollerHolds'
<1> SUFFICES ASSUME poller'.phase \in AtWork
             PROVE  lock'[EnvUser(poller'.env)] = Poller
  BY DEF PollerHolds, EnvUser
<1>1. poller' = poller
  OBVIOUS
<1>2. EnvUser(poller.env) \in User
  BY <1>1, EntryTyped DEF TypeOK, EntriesNonEmpty, AtWork
<1>3. lock[EnvUser(poller.env)] = Poller
  BY <1>1 DEF LockHeld, PollerHolds
<1>4. QED
  BY <1>1, <1>2, <1>3 DEF OnlyFor, Holder

\* A step of the flush task t.
LEMMA TaskStepHolds ==
  ASSUME PipelineInv, LockHeld, NEW t \in Task,
         \/ TaskStep(t) \/ BatchFails(t) \/ DeferUnknowing(t)
         \/ \E m \in Message : OnMessage(m, t)
  PROVE  LockHeld'
<1> USE DEF PipelineInv
<1>1. \A r \in Task \ {t} : task'[r] = task[r]
  BY DEF TaskStep, DebounceFires, FlushIgnored, AcquireLock, DeferBusy,
         Answer, ReleaseLock, AckNext, NackNext, Settles, InPhase,
         BatchFails, DeferUnknowing, OnMessage, TypeOK
<1>2. UNCHANGED poller
  BY DEF TaskStep, DebounceFires, FlushIgnored, AcquireLock, DeferBusy,
         Answer, ReleaseLock, AckNext, NackNext, InPhase, BatchFails,
         DeferUnknowing, OnMessage
<1>3. OnlyFor(t)
  <2>1. CASE task[t].phase = "idle"
    <3>1. UNCHANGED lock
      BY <2>1 DEF TaskStep, DebounceFires, FlushIgnored, AcquireLock, DeferBusy,
         Answer, ReleaseLock, AckNext, NackNext, Settles, InPhase, BatchFails,
         DeferUnknowing, OnMessage
    <3>2. QED
      BY <3>1 DEF OnlyFor
  <2>2. CASE task[t].phase # "idle"
    <3>1. TaskUser(t) \in User
      BY <2>2, TaskTyped
    <3>2. \/ Take(TaskUser(t), t) \/ GiveBack(TaskUser(t), t)
          \/ LeaveBehind(TaskUser(t), t) \/ TakeUnknowing(TaskUser(t))
          \/ UNCHANGED lock
      BY DEF TaskStep, DebounceFires, FlushIgnored, AcquireLock, DeferBusy,
         Answer, ReleaseLock, AckNext, NackNext, BatchFails,
         DeferUnknowing, OnMessage
    <3>3. QED
      BY <3>1, <3>2, KeysOfOthers DEF Holder
  <2>3. QED
    BY <2>1, <2>2
<1>4. TaskHolds(t)'
  <2>1. CASE AcquireLock(t)
    <3>1. task'[t].phase = "locked" /\ TaskUser(t)' = TaskUser(t)
      BY <2>1 DEF AcquireLock, InPhase, TypeOK, TaskUser
    <3>2. TaskUser(t) \in User
      BY <2>1, TaskTyped DEF AcquireLock, InPhase
    <3>3. lock'[TaskUser(t)] = t
      BY <2>1, <3>2 DEF AcquireLock, Take, TypeOK
    <3>4. QED
      BY <3>1, <3>3 DEF TaskHolds
  <2>2. CASE Answer(t)
    <3>1. task[t].phase \in AtWork /\ TaskUser(t)' = TaskUser(t)
      BY <2>2 DEF Answer, InPhase, TypeOK, TaskUser, AtWork
    <3>2. lock[TaskUser(t)] = t /\ UNCHANGED lock
      BY <2>2, <3>1 DEF Answer, LockHeld, TaskHolds
    <3>3. QED
      BY <3>1, <3>2 DEF TaskHolds
  <2>3. CASE ~AcquireLock(t) /\ ~Answer(t)
    <3>1. task'[t].phase \notin AtWork
      <4>1. CASE AckNext(t) \/ NackNext(t)
        <5>1. task'[t].phase \in {"idle", "acking", "nacking"}
          BY <4>1 DEF AckNext, NackNext, Settles, Rest, Idle, TypeOK
        <5>2. QED
          BY <5>1 DEF AtWork
      <4>2. ASSUME NEW m \in Message, OnMessage(m, t)
            PROVE  task'[t].phase \notin AtWork
        <5>1. task'[t].phase = "debounce"
          BY <4>2 DEF OnMessage, TypeOK
        <5>2. QED
          BY <5>1 DEF AtWork
      <4>3. CASE \/ DebounceFires(t) \/ DeferBusy(t) \/ ReleaseLock(t)
                 \/ BatchFails(t) \/ DeferUnknowing(t) \/ FlushIgnored(t)
        <5>1. task'[t].phase \in {"idle", "acquire", "acking", "nacking"}
          BY <4>3 DEF DebounceFires, DeferBusy, ReleaseLock, InPhase,
             BatchFails, DeferUnknowing, FlushIgnored, Idle, TypeOK
        <5>2. QED
          BY <5>1 DEF AtWork
      <4>4. QED
        BY <2>3, <4>1, <4>2, <4>3 DEF TaskStep
    <3>2. QED
      BY <3>1 DEF TaskHolds
  <2>4. QED
    BY <2>1, <2>2, <2>3
<1>5. t \in Holder /\ t # Poller
  BY TokenAssumption DEF Holder
<1>6. \A r \in Task : TaskHolds(r)'
  BY <1>1, <1>3, <1>4, <1>5, OtherTasksHold
<1>7. PollerHolds'
  BY <1>2, <1>3, <1>5, PollerStillHolds
<1>8. QED
  BY <1>6, <1>7 DEF LockHeld

\* A step of the poller.
LEMMA PollerStepHolds ==
  ASSUME PipelineInv, LockHeld,
         \/ PollerStep \/ PollerFails
         \/ \E S \in SUBSET scheduled : PopDue(S) \/ PopFails(S)
         \/ \E e \in due : PollerDrops(e)
  PROVE  LockHeld'
<1> USE DEF PipelineInv
<1>1. UNCHANGED task
  BY DEF PollerStep, PollerFails, PopDue, PopFails, PollerDrops,
         PollerDelivers, PollerAcquires, PollerDefers, PollerAnswers,
         PollerReleases, PollerSleeps, Picks
<1>2. \A e \in due : EnvUser(e) \in User
  BY EntryTyped DEF TypeOK, EntriesNonEmpty
<1>3. poller.phase \in AtWork => EnvUser(poller.env) \in User
  BY EntryTyped DEF TypeOK, EntriesNonEmpty, AtWork
<1>4. OnlyFor(Poller)
  <2>1. CASE UNCHANGED lock
    BY <2>1 DEF OnlyFor
  <2>2. CASE PollerReleases \/ PollerFails
    <3>1. EnvUser(poller.env) \in User
      BY <1>3, <2>2 DEF PollerReleases, PollerFails, AtWork
    <3>2. QED
      BY <2>2, <3>1, KeysOfOthers DEF PollerReleases, PollerFails, Holder
  <2>3. ASSUME NEW e \in due, PollerAcquires(e) \/ PollerDrops(e)
        PROVE  OnlyFor(Poller)
    BY <1>2, <2>3, KeysOfOthers DEF PollerAcquires, PollerDrops, Holder
  <2>4. QED
    BY <2>1, <2>2, <2>3 DEF PollerStep, PopDue, PopFails, PollerDelivers,
       PollerDefers, PollerAnswers, PollerSleeps
<1>5. PollerHolds'
  <2>1. ASSUME NEW e \in due, PollerAcquires(e)
        PROVE  PollerHolds'
    <3>1. poller'.env = e
      BY <2>1 DEF PollerAcquires
    <3>2. lock'[EnvUser(e)] = Poller
      BY <1>2, <2>1 DEF PollerAcquires, Take, TypeOK
    <3>3. QED
      BY <3>1, <3>2 DEF PollerHolds, EnvUser
  <2>2. CASE PollerAnswers
    <3>1. poller.phase \in AtWork /\ poller'.env = poller.env
      BY <2>2 DEF PollerAnswers, TypeOK, AtWork
    <3>2. lock[EnvUser(poller.env)] = Poller /\ UNCHANGED lock
      BY <2>2, <3>1 DEF PollerAnswers, LockHeld, PollerHolds
    <3>3. QED
      BY <3>1, <3>2 DEF PollerHolds, EnvUser
  <2>3. CASE /\ ~PollerAnswers
             /\ \A e \in due : ~PollerAcquires(e)
    <3>1. poller'.phase \notin AtWork
      BY <2>3 DEF PollerStep, PollerFails, PopDue, PopFails, PollerDrops,
         PollerDelivers, PollerDefers, PollerReleases, PollerSleeps, Picks,
         BackToWork, Asleep, TypeOK, AtWork
    <3>2. QED
      BY <3>1 DEF PollerHolds
  <2>4. QED
    BY <2>1, <2>2, <2>3
<1>6. \A t \in Task : TaskHolds(t)'
  BY <1>1, <1>4, OtherTasksHold, TokenAssumption DEF Holder
<1>7. QED
  BY <1>5, <1>6 DEF LockHeld

\* The steps of the other holder, the expiry of orphans, and the ends of the
\* process.
LEMMA OutsideStepHolds ==
  ASSUME PipelineInv, LockHeld,
         \/ \E u \in User : SleeperAcquires(u) \/ SleeperReleases(u)
                            \/ OrphanExpires(u)
         \/ Crash \/ Stop \/ Restart \/ Reconnect
         \/ \E m \in Message : Accept(m) \/ OnMalformed(m)
         \/ UNCHANGED vars
  PROVE  LockHeld'
<1> USE DEF PipelineInv
<1>1. CASE UNCHANGED <<lock, task, poller>>
  BY <1>1 DEF LockHeld, TaskHolds, PollerHolds, TaskUser, EnvUser
<1>2. ASSUME NEW u \in User, SleeperAcquires(u) \/ SleeperReleases(u)
                             \/ OrphanExpires(u)
      PROVE  LockHeld'
  <2>1. OnlyFor(Sleeper)
    <3>1. CASE OrphanExpires(u)
      BY <3>1, TokenAssumption DEF OrphanExpires, OnlyFor, TypeOK
    <3>2. CASE SleeperAcquires(u) \/ SleeperReleases(u)
      BY <3>2, KeysOfOthers DEF SleeperAcquires, SleeperReleases, Holder
    <3>3. QED
      BY <1>2, <3>1, <3>2
  <2>2. UNCHANGED <<task, poller>>
    BY <1>2 DEF SleeperAcquires, SleeperReleases, OrphanExpires, onlyLock,
       processVars
  <2>3. Sleeper \in Holder /\ Sleeper \notin Task /\ Sleeper # Poller
    BY TokenAssumption DEF Holder
  <2>4. \A t \in Task : TaskHolds(t)'
    BY <2>1, <2>2, <2>3, OtherTasksHold
  <2>5. PollerHolds'
    BY <2>1, <2>2, <2>3, PollerStillHolds
  <2>6. QED
    BY <2>4, <2>5 DEF LockHeld
<1>3. CASE Crash \/ Restart
  BY <1>3 DEF Crash, Restart, NewProcess, LockHeld, TaskHolds, PollerHolds,
     Idle, Asleep, AtWork
<1>4. CASE Stop
  <2>1. ASSUME NEW t \in Task PROVE TaskHolds(t)'
    <3> SUFFICES ASSUME task'[t].phase \in AtWork
                 PROVE  lock'[TaskUser(t)'] = t
      BY DEF TaskHolds
    <3>1. task'[t] = task[t] /\ task[t].phase \in AtWork
      BY <1>4 DEF Stop, Idle, AtWork
    <3>2. TaskUser(t)' = TaskUser(t) /\ lock[TaskUser(t)] = t
      BY <3>1 DEF TaskUser, LockHeld, TaskHolds
    <3>3. TaskUser(t) \in User
      BY <3>1, TaskTyped DEF AtWork
    <3>4. QED
      BY <1>4, <3>2, <3>3, TokenAssumption DEF Stop
  <2>2. PollerHolds'
    BY <1>4 DEF Stop, PollerHolds, Asleep, AtWork
  <2>3. QED
    BY <2>1, <2>2 DEF LockHeld
<1>5. QED
  <2>1. CASE Reconnect \/ UNCHANGED vars
             \/ \E m \in Message : Accept(m) \/ OnMalformed(m)
    BY <1>1, <2>1 DEF Reconnect, vars, Accept, OnMalformed, processVars
  <2>2. QED
    BY <1>2, <1>3, <1>4, <2>1

\* Every step keeps the invariant of the lock.
LEMMA LockHeldKept ==
  ASSUME "expiry" \notin FaultKinds, PipelineInv, LockHeld, [Next]_vars
  PROVE  LockHeld'
<1>1. \A u \in User : ~HolderOutlivesLock(u)
  BY DEF HolderOutlivesLock, Fault
<1>2. CASE FaultStep
  BY <1>1, <1>2, TaskStepHolds, PollerStepHolds, OutsideStepHolds DEF FaultStep
<1>3. CASE Consume
  BY <1>3, TaskStepHolds, OutsideStepHolds DEF Consume
<1>4. QED
  BY <1>2, <1>3, TaskStepHolds, PollerStepHolds, OutsideStepHolds DEF Next

\* As long as no lock expires under its holder, whoever is between
\* acquire_lock and release_lock has the lock of the user, however the flush
\* tasks, the poller, a consolidation run and all other faults interleave.
THEOREM LockKeepsOut ==
  ASSUME "expiry" \notin FaultKinds
  PROVE  Spec => []WorkingHoldsLock
<1>1. Init => LockHeld
  BY DEF Init, LockHeld, TaskHolds, PollerHolds, Idle, Asleep, AtWork
<1>2. PipelineInv /\ LockHeld /\ [Next]_vars => LockHeld'
  BY LockHeldKept
<1>3. Spec => []LockHeld
  BY <1>1, <1>2, Invariance, PTL DEF Spec
<1>4. QED
  BY <1>3, HeldMeansWorking, PTL

-----------------------------------------------------------------------------
(* What a step does to the fates of the messages                           *)

\* The messages the gateway has published, those that are settled, and those
\* that somebody carries: the broker, a task, or an entry.
Sent == {m \in Message : broker[m] # "unsent"}
Done == {m \in Message : Settled(m)}
AtBroker == {m \in Message : broker[m] \in {"queued", "unacked"}}
InTask(t) == Range(Msgs(task[t].batch))
InTasks == UNION {InTask(t) : t \in Task}
InZSet == UNION {Range(e.msgs) : e \in scheduled}
InPoller == UNION {Range(e.msgs) : e \in due \union {poller.env}}
Open == AtBroker \union InTasks \union InZSet \union InPoller

\* Only what was published is settled, parked or carried.
SentOnly == Open \union parked \union Done \subseteq Sent

\* A step forgets, settles, parks or accepts messages.
Forgets ==
  Sent' = Sent /\ Done' = Done /\ parked' = parked /\ Open' \subseteq Open
SettlesAll(S) ==
  /\ S \subseteq Open
  /\ Sent' = Sent /\ Done' = Done \union S /\ parked' = parked
  /\ Open \ S \subseteq Open' /\ Open' \subseteq Open
ParksAll(S) ==
  /\ S \subseteq Open
  /\ Sent' = Sent /\ Done' = Done /\ parked' = parked \union S /\ Open' = Open
Accepts(m) ==
  /\ m \notin Sent
  /\ Sent' = Sent \union {m} /\ Done' = Done /\ parked' = parked
  /\ Open' = Open \union {m}

FateMoves ==
  \/ Forgets
  \/ \E S \in SUBSET Message : SettlesAll(S) \/ ParksAll(S)
  \/ \E m \in Message : Accepts(m)

\* A move brings nothing up that was not sent.
LEMMA MovesKeepSentOnly ==
  ASSUME SentOnly, FateMoves
  PROVE  SentOnly'
<1>1. CASE Forgets
  BY <1>1 DEF Forgets, SentOnly
<1>2. ASSUME NEW S \in SUBSET Message, SettlesAll(S)
      PROVE  SentOnly'
  BY <1>2 DEF SettlesAll, SentOnly
<1>3. ASSUME NEW S \in SUBSET Message, ParksAll(S)
      PROVE  SentOnly'
  BY <1>3 DEF ParksAll, SentOnly
<1>4. ASSUME NEW m \in Message, Accepts(m)
      PROVE  SentOnly'
  BY <1>4 DEF Accepts, SentOnly
<1>5. QED
  BY <1>1, <1>2, <1>3, <1>4 DEF FateMoves

\* The fate of a message, read off these sets.
LEMMA FateByParts ==
  ASSUME NEW m \in Message
  PROVE  FateOf(m) = IF m \notin Sent THEN "unsent"
                     ELSE IF m \in Done THEN "settled"
                     ELSE IF m \in Open THEN "pending" ELSE "lost"
<1>1. m \in Open <=> Carried(m)
  BY DEF Open, AtBroker, InTasks, InTask, InZSet, InPoller, Carried
<1>2. QED
  BY <1>1 DEF FateOf, Sent, Done

\* The same after the step.
LEMMA FateByPartsPrimed ==
  ASSUME NEW m \in Message
  PROVE  FateOf(m)' = IF m \notin Sent' THEN "unsent"
                      ELSE IF m \in Done' THEN "settled"
                      ELSE IF m \in Open' THEN "pending" ELSE "lost"
<1>1. m \in Open' <=> Carried(m)'
  BY DEF Open, AtBroker, InTasks, InTask, InZSet, InPoller, Carried
<1>2. QED
  BY <1>1 DEF FateOf, Sent, Done

\* Each of the moves is a step of MessageFate.
LEMMA MovesRefine ==
  ASSUME PipelineInv, PipelineInv', SentOnly, FateMoves
  PROVE  Fate!FateNext
<1> DEFINE f == [m \in Message |-> FateOf(m)]
<1>1. CASE Forgets
  <2> DEFINE S == {m \in Message : FateOf(m) = "pending"
                                   /\ FateOf(m)' = "lost"}
  <2>1. \A m \in Message :
          FateOf(m)' = IF m \in S THEN "lost" ELSE FateOf(m)
    BY <1>1, FateByParts, FateByPartsPrimed DEF Forgets
  <2>2. S \subseteq parked
    <3> SUFFICES ASSUME NEW m \in S PROVE m \in parked
      OBVIOUS
    <3>1. m \in Sent' /\ m \notin Done' /\ m \notin Open'
      BY FateByPartsPrimed
    <3>2. broker'[m] = "gone"
      BY <3>1 DEF PipelineInv, TypeOK, Sent, Open, AtBroker
    <3>3. m \in parked'
      BY <3>1, <3>2 DEF PipelineInv, AccountedFor, Done
    <3>4. QED
      BY <1>1, <3>3 DEF Forgets
  <2>3. Fate!Lose(S)
    BY <1>1, <2>1, <2>2 DEF Fate!Lose, Fate!Turned, Forgets
  <2>4. S \in SUBSET Message
    OBVIOUS
  <2>5. QED
    BY <2>3, <2>4 DEF Fate!FateNext
<1>2. ASSUME NEW S \in SUBSET Message, SettlesAll(S)
      PROVE  Fate!FateNext
  <2>1. \A m \in S : FateOf(m) \in {"pending", "settled"}
    BY <1>2, FateByParts DEF SettlesAll, SentOnly
  <2>2. \A m \in Message :
          FateOf(m)' = IF m \in S THEN "settled" ELSE FateOf(m)
    BY <1>2, FateByParts, FateByPartsPrimed DEF SettlesAll, SentOnly
  <2>3. Fate!Settle(S)
    BY <1>2, <2>1, <2>2 DEF Fate!Settle, Fate!Turned, SettlesAll
  <2>4. QED
    BY <2>3 DEF Fate!FateNext
<1>3. ASSUME NEW S \in SUBSET Message, ParksAll(S)
      PROVE  Fate!FateNext
  <2>1. \A m \in S : FateOf(m) \in {"pending", "settled"}
    BY <1>3, FateByParts DEF ParksAll, SentOnly
  <2>2. \A m \in Message : FateOf(m)' = FateOf(m)
    BY <1>3, FateByParts, FateByPartsPrimed DEF ParksAll
  <2>3. Fate!Park(S)
    BY <1>3, <2>1, <2>2 DEF Fate!Park, ParksAll
  <2>4. QED
    BY <2>3 DEF Fate!FateNext
<1>4. ASSUME NEW m \in Message, Accepts(m)
      PROVE  Fate!FateNext
  <2>1. FateOf(m) = "unsent" /\ m \notin Done /\ m \notin parked
    BY <1>4, FateByParts DEF Accepts, SentOnly
  <2>2. \A k \in Message :
          FateOf(k)' = IF k \in {m} THEN "pending" ELSE FateOf(k)
    BY <1>4, <2>1, FateByParts, FateByPartsPrimed DEF Accepts
  <2>3. Fate!Accept(m)
    BY <1>4, <2>1, <2>2 DEF Fate!Accept, Fate!Turned, Accepts
  <2>4. QED
    BY <2>3 DEF Fate!FateNext
<1>5. QED
  BY <1>1, <1>2, <1>3, <1>4 DEF FateMoves

-----------------------------------------------------------------------------
(* Every step is one of the moves                                          *)

\* An empty batch has no messages.
LEMMA MsgsOfNone == Range(<<>>) = {} /\ Range(Msgs(<<>>)) = {}
<1>1. <<>> \in Seq(Delivery) /\ Len(<<>>) = 0 /\ DOMAIN <<>> = {}
  OBVIOUS
<1>2. Range(<<>>) = {}
  BY <1>1 DEF Range
<1>3. Msgs(<<>>) = <<>>
  BY <1>1, MsgsOfBatch
<1>4. QED
  BY <1>2, <1>3

\* A step that decides on nothing and gives nobody a message he had not.
LEMMA ForgetMoves ==
  ASSUME Sent' = Sent, UNCHANGED <<dlq, outcomeVars, parked>>,
         AtBroker' \subseteq AtBroker, InTasks' \subseteq Open,
         InZSet' \union InPoller' \subseteq InZSet \union InPoller
  PROVE  FateMoves
<1>1. Done' = Done
  BY DEF Done, Settled, outcomeVars
<1>2. Open' \subseteq Open
  BY DEF Open
<1>3. QED
  BY <1>1, <1>2 DEF FateMoves, Forgets

\* What Defer and RunLocked make of a batch: it is settled, or it, or its
\* reply, goes into the ZSet.
Decided(ms) ==
  \/ Done' = Done \union Range(ms) /\ UNCHANGED <<parked, scheduled>>
  \/ /\ Done' = Done /\ parked' = parked \union Range(ms)
     /\ \E e \in Envelope :
          e.msgs = ms /\ scheduled' = scheduled \union {e}

\* A postponement parks the batch, or gives it up.
LEMMA DeferDecides ==
  ASSUME NEW ms \in Seq(Message), NEW n \in Nat, Defer(ms, n),
         UNCHANGED outcomeVars
  PROVE  Decided(ms)
<1>1. Range(ms) \subseteq Message
  BY RangeOfEntry
<1>2. Incoming(ms, n) \in Envelope /\ Incoming(ms, n).msgs = ms
  BY DEF Incoming, Envelope
<1>3. CASE n >= MaxRetries
  <2>1. dlq' = dlq \union Range(ms) /\ UNCHANGED <<scheduled, parked>>
    BY <1>3 DEF Defer
  <2>2. Done' = Done \union Range(ms)
    BY <1>1, <2>1 DEF Done, Settled, outcomeVars
  <2>3. QED
    BY <2>1, <2>2 DEF Decided
<1>4. CASE ~(n >= MaxRetries)
  <2>1. /\ scheduled' = scheduled \union {Incoming(ms, n)}
        /\ parked' = parked \union Range(ms)
        /\ UNCHANGED dlq
    BY <1>4 DEF Defer
  <2>2. Done' = Done
    BY <2>1 DEF Done, Settled, outcomeVars
  <2>3. QED
    BY <1>2, <2>1, <2>2 DEF Decided
<1>5. QED
  BY <1>3, <1>4

\* A decision answers the batch, skips it, or parks its reply.
LEMMA RunLockedDecides ==
  ASSUME TypeOK, NEW ms \in Seq(Message) \ {<<>>}, RunLocked(ms),
         UNCHANGED dlq
  PROVE  Decided(ms)
<1>1. Range(ms) \subseteq Message /\ ms[1] \in Message
  BY RangeOfEntry, FirstOfEntry
<1>2. CASE PublishReply(ms)
  <2>1. /\ replies \in [Message -> Seq(Chat)]
        /\ \A s \in Seq(Chat) : Append(s, ChatOf[ms[1]]) # <<>>
    <3>1. ChatOf[ms[1]] \in Chat
      BY <1>1, MessageAssumption
    <3>2. \A s \in Seq(Chat) : Append(s, ChatOf[ms[1]]) # <<>>
      BY <3>1
    <3>3. QED
      BY <3>2 DEF TypeOK
  <2>2. \A m \in Message :
          replies'[m] # <<>> <=> replies[m] # <<>> \/ m \in Range(ms)
    BY <1>2, <2>1 DEF PublishReply
  <2>3. UNCHANGED <<skipped, scheduled, parked>>
    BY <1>2 DEF PublishReply
  <2>4. Done' = Done \union Range(ms)
    BY <1>1, <2>2, <2>3 DEF Done, Settled
  <2>5. QED
    BY <2>3, <2>4 DEF Decided
<1>3. CASE ParkReply(ms)
  <2>1. PICK n \in Nat : scheduled' = scheduled \union {Outgoing(ms, n)}
    BY <1>1, <1>3, ParkedAs
  <2>2. Outgoing(ms, n) \in Envelope /\ Outgoing(ms, n).msgs = ms
    BY DEF Outgoing, Envelope
  <2>3. /\ parked' = parked \union Range(ms)
        /\ UNCHANGED <<replies, skipped>>
    BY <1>3 DEF ParkReply
  <2>4. Done' = Done
    BY <2>3 DEF Done, Settled
  <2>5. QED
    BY <2>1, <2>2, <2>3, <2>4 DEF Decided
<1>4. CASE SkipReply(ms)
  <2>1. skipped' = skipped \union Range(ms)
        /\ UNCHANGED <<replies, scheduled, parked>>
    BY <1>4 DEF SkipReply
  <2>2. Done' = Done \union Range(ms)
    BY <1>1, <2>1 DEF Done, Settled
  <2>3. QED
    BY <2>1, <2>2 DEF Decided
<1>5. QED
  BY <1>2, <1>3, <1>4 DEF RunLocked

\* A decision settles or parks the batch, if nothing else is forgotten.
LEMMA DecidedMoves ==
  ASSUME NEW ms \in Seq(Message), Decided(ms), UNCHANGED broker,
         InTasks' = InTasks, Range(ms) \subseteq InTasks \union InPoller,
         InPoller' \subseteq InPoller,
         InPoller \ Range(ms) \subseteq InPoller'
  PROVE  FateMoves
<1> DEFINE S == Range(ms)
<1>1. S \in SUBSET Message /\ S \subseteq Open
  BY RangeOfEntry DEF Open
<1>2. Sent' = Sent /\ AtBroker' = AtBroker
  BY DEF Sent, AtBroker
<1>3. CASE Done' = Done \union S /\ UNCHANGED <<parked, scheduled>>
  <2>1. InZSet' = InZSet
    BY <1>3 DEF InZSet
  <2>2. Open \ S \subseteq Open' /\ Open' \subseteq Open
    BY <1>2, <2>1 DEF Open
  <2>3. SettlesAll(S)
    BY <1>1, <1>2, <1>3, <2>2 DEF SettlesAll
  <2>4. QED
    BY <1>1, <2>3 DEF FateMoves
<1>4. CASE /\ Done' = Done /\ parked' = parked \union S
           /\ \E e \in Envelope :
                e.msgs = ms /\ scheduled' = scheduled \union {e}
  <2>1. InZSet' = InZSet \union S
    BY <1>4 DEF InZSet
  <2>2. Open' = Open
    BY <1>1, <1>2, <2>1 DEF Open
  <2>3. ParksAll(S)
    BY <1>1, <1>2, <1>4, <2>2 DEF ParksAll
  <2>4. QED
    BY <1>1, <2>3 DEF FateMoves
<1>5. QED
  BY <1>3, <1>4 DEF Decided

\* From the gateway into the debounce buffer.
LEMMA AcceptMoves ==
  ASSUME PipelineInv, NEW m \in Message, Accept(m)
  PROVE  FateMoves
<1>1. /\ m \notin Sent /\ Sent' = Sent \union {m}
      /\ AtBroker' = AtBroker \union {m}
  BY DEF Accept, Sent, AtBroker, PipelineInv, TypeOK
<1>2. Done' = Done /\ parked' = parked
  BY DEF Accept, outcomeVars, Done, Settled
<1>3. InTasks' = InTasks /\ InZSet' = InZSet /\ InPoller' = InPoller
  BY DEF Accept, processVars, InTasks, InTask, InZSet, InPoller
<1>4. Accepts(m)
  BY <1>1, <1>2, <1>3 DEF Accepts, Open
<1>5. QED
  BY <1>4 DEF FateMoves

\* A delivery goes into a batch.
LEMMA OnMessageMoves ==
  ASSUME PipelineInv, NEW m \in Message, NEW t \in Task, OnMessage(m, t)
  PROVE  FateMoves
<1>1. m \in AtBroker /\ Sent' = Sent /\ AtBroker' = AtBroker
  BY DEF OnMessage, Delivers, Sent, AtBroker, PipelineInv, TypeOK
<1>2. InZSet' = InZSet /\ InPoller' = InPoller
  BY DEF OnMessage, InZSet, InPoller
<1>3. /\ \A r \in Task \ {t} : task'[r] = task[r]
      /\ task'[t].batch = Append(task[t].batch,
                                 [msg |-> m, tag |-> deliveries[m] + 1])
  BY DEF OnMessage, PipelineInv, TypeOK
<1>4. [msg |-> m, tag |-> deliveries[m] + 1] \in Delivery
      /\ task[t].batch \in Seq(Delivery)
  <2>1. deliveries[m] + 1 \in Nat
    BY DEF PipelineInv, TypeOK
  <2>2. task[t].batch \in Seq(Delivery)
    BY DEF PipelineInv, TypeOK
  <2>3. QED
    BY <2>1, <2>2 DEF Delivery
<1>5. InTask(t)' = InTask(t) \union {m}
  BY <1>3, <1>4, MsgsOfAppend DEF InTask
<1>6. \A r \in Task \ {t} : InTask(r)' = InTask(r)
  BY <1>3 DEF InTask
<1>7. InTasks' \subseteq Open
  BY <1>1, <1>5, <1>6 DEF InTasks, Open
<1>8. UNCHANGED <<dlq, outcomeVars, parked>>
  BY DEF OnMessage
<1>9. QED
  BY <1>1, <1>2, <1>7, <1>8, ForgetMoves

\* A delivery that cannot be parsed is settled.
LEMMA OnMalformedMoves ==
  ASSUME PipelineInv, NEW m \in Message, OnMalformed(m)
  PROVE  FateMoves
<1>1. /\ m \in AtBroker /\ Sent' = Sent
      /\ AtBroker' = AtBroker \ {m}
  BY DEF OnMalformed, Delivers, Sent, AtBroker, PipelineInv, TypeOK
<1>2. Done' = Done \union {m} /\ parked' = parked
  BY DEF OnMalformed, outcomeVars, Done, Settled
<1>3. InTasks' = InTasks /\ InZSet' = InZSet /\ InPoller' = InPoller
  BY DEF OnMalformed, processVars, InTasks, InTask, InZSet, InPoller
<1>4. SettlesAll({m})
  BY <1>1, <1>2, <1>3 DEF SettlesAll, Open
<1>5. {m} \in SUBSET Message
  OBVIOUS
<1>6. QED
  BY <1>4, <1>5 DEF FateMoves

\* A task that goes on to the next phase keeps its batch.
LEMMA SameBatches ==
  ASSUME TypeOK, NEW t \in Task, NEW from, NEW to, InPhase(t, from, to)
  PROVE  InTasks' = InTasks /\ InPoller' = InPoller
<1>1. \A r \in Task : task'[r].batch = task[r].batch
  BY DEF InPhase, TypeOK
<1>2. \A r \in Task : InTask(r)' = InTask(r)
  BY <1>1 DEF InTask
<1>3. InPoller' = InPoller
  BY DEF InPhase, InPoller
<1>4. QED
  BY <1>2, <1>3 DEF InTasks

\* The steps of a task that decide nothing.
LEMMA QuietTaskStepMoves ==
  ASSUME PipelineInv, NEW t \in Task,
         DebounceFires(t) \/ AcquireLock(t) \/ ReleaseLock(t) \/ BatchFails(t)
  PROVE  FateMoves
<1>1. TypeOK
  BY DEF PipelineInv
<1>2. UNCHANGED <<broker, scheduled, dlq, outcomeVars, parked>>
  BY DEF DebounceFires, AcquireLock, ReleaseLock, BatchFails, brokerVars
<1>3. \E from, to : InPhase(t, from, to)
  BY DEF DebounceFires, AcquireLock, ReleaseLock, BatchFails, InPhase
<1>4. InTasks' = InTasks /\ InPoller' = InPoller
  BY <1>1, <1>3, SameBatches
<1>5. Sent' = Sent /\ AtBroker' = AtBroker /\ InZSet' = InZSet
  BY <1>2 DEF Sent, AtBroker, InZSet
<1>6. InTasks' \subseteq Open
  BY <1>4 DEF Open
<1>7. QED
  BY <1>2, <1>4, <1>5, <1>6, ForgetMoves

\* The steps of a task that decide.
LEMMA DecidingTaskStepMoves ==
  ASSUME PipelineInv, NEW t \in Task,
         DeferBusy(t) \/ DeferUnknowing(t) \/ Answer(t)
  PROVE  FateMoves
<1> DEFINE ms == Msgs(task[t].batch)
<1>1. TypeOK /\ BusyHasBatch
  BY DEF PipelineInv
<1>2. task[t].phase # "idle"
  BY DEF DeferBusy, DeferUnknowing, Answer, InPhase
<1>3. ms \in Seq(Message) \ {<<>>}
  BY <1>1, <1>2, TaskTyped
<1>4. \E from, to : InPhase(t, from, to)
  BY DEF DeferBusy, DeferUnknowing, Answer
<1>5. InTasks' = InTasks /\ InPoller' = InPoller
  BY <1>1, <1>4, SameBatches
<1>6. Range(ms) \subseteq InTasks
  BY DEF InTasks, InTask
<1>7. UNCHANGED broker
  BY DEF DeferBusy, DeferUnknowing, Answer, brokerVars
<1> HIDE DEF ms
<1>8. Decided(ms)
  <2>1. CASE DeferBusy(t) \/ DeferUnknowing(t)
    <3>1. Defer(ms, 0) /\ UNCHANGED outcomeVars
      BY <2>1 DEF DeferBusy, DeferUnknowing, ms
    <3>2. QED
      BY <1>3, <3>1, DeferDecides
  <2>2. CASE Answer(t)
    <3>1. RunLocked(ms) /\ UNCHANGED dlq
      BY <2>2 DEF Answer, ms
    <3>2. QED
      BY <1>1, <1>3, <3>1, RunLockedDecides
  <2>3. QED
    BY <2>1, <2>2
<1>9. QED
  BY <1>3, <1>5, <1>6, <1>7, <1>8, DecidedMoves

\* The head of a batch and its rest have its messages.
LEMMA MsgsOfHeadAndTail ==
  ASSUME NEW b \in Seq(Delivery), b # <<>>
  PROVE  /\ Range(Msgs(b)) = {b[1].msg} \union Range(Msgs(Tail(b)))
         /\ Len(b) = 1 => Range(Msgs(Tail(b))) = {}
<1> DEFINE c == Tail(b)
<1>1. /\ c \in Seq(Delivery) /\ Len(c) = Len(b) - 1 /\ Len(b) \in Nat \ {0}
      /\ \A i \in 1 .. Len(c) : c[i] = b[i + 1]
  BY HeadTailProperties
<1>2. /\ Range(Msgs(c)) = {c[i].msg : i \in 1 .. Len(c)}
      /\ Range(Msgs(b)) = {b[i].msg : i \in 1 .. Len(b)}
  BY <1>1, MsgsOfBatch
<1> HIDE DEF c
<1>3. ASSUME NEW i \in 1 .. Len(b), i # 1
      PROVE  b[i].msg \in {c[j].msg : j \in 1 .. Len(c)}
  <2>1. i - 1 \in 1 .. Len(c) /\ c[i - 1] = b[(i - 1) + 1] /\ (i - 1) + 1 = i
    BY <1>1, <1>3
  <2>2. QED
    BY <2>1
<1>4. \A i \in 1 .. Len(c) : i + 1 \in 1 .. Len(b) /\ c[i] = b[i + 1]
  BY <1>1
<1>5. 1 \in 1 .. Len(b)
  BY <1>1
<1>6. Len(b) = 1 => Range(Msgs(c)) = {}
  BY <1>1, <1>2
<1>7. QED
  BY <1>2, <1>3, <1>4, <1>5, <1>6 DEF c

\* The ack and nack loops.
LEMMA SettlingTaskStepMoves ==
  ASSUME PipelineInv, NEW t \in Task, AckNext(t) \/ NackNext(t)
  PROVE  FateMoves
<1> DEFINE b == task[t].batch
           d == b[1]
<1>1. /\ task[t].phase \in {"acking", "nacking"}
      /\ task' = [task EXCEPT ![t] = IF Valid(d) THEN Rest(t) ELSE Idle]
      /\ broker' = IF Valid(d) THEN [broker EXCEPT ![d.msg] = "gone"]
                               ELSE broker
      /\ UNCHANGED <<scheduled, poller, due, outcomeVars, parked>>
  BY DEF AckNext, NackNext, Settles
<1>2. b \in Seq(Delivery) /\ b # <<>>
  BY <1>1 DEF PipelineInv, TypeOK, BusyHasBatch
<1>3. d.msg \in Message /\ Range(Msgs(b)) = {d.msg} \union Range(Msgs(Tail(b)))
  BY <1>2, MsgsOfBatch, MsgsOfHeadAndTail DEF Delivery
<1>4. InZSet' = InZSet /\ InPoller' = InPoller
  BY <1>1 DEF InZSet, InPoller
<1>5. /\ \A r \in Task \ {t} : task'[r] = task[r]
      /\ task'[t] = IF Valid(d) THEN Rest(t) ELSE Idle
  BY <1>1 DEF PipelineInv, TypeOK
<1>6. \A r \in Task \ {t} : InTask(r)' = InTask(r)
  BY <1>5 DEF InTask
<1>7. Range(Msgs(<<>>)) = {}
  BY MsgsOfNone
<1>8. InTask(t) = Range(Msgs(b)) /\ InTask(t)' = Range(Msgs(task'[t].batch))
  BY DEF InTask
<1> HIDE DEF d
<1>9. CASE ~Valid(d)
  <2>1. task'[t].batch = <<>> /\ broker' = broker
    BY <1>1, <1>5, <1>9 DEF Idle
  <2>2. InTasks' \subseteq InTasks
    BY <1>6, <1>7, <1>8, <2>1 DEF InTasks
  <2>3. Sent' = Sent /\ AtBroker' = AtBroker
    BY <2>1 DEF Sent, AtBroker
  <2>4. UNCHANGED dlq
    BY <2>1 DEF AckNext, NackNext
  <2>5. InTasks' \subseteq Open
    BY <2>2 DEF Open
  <2>6. QED
    BY <1>1, <1>4, <2>3, <2>4, <2>5, ForgetMoves
<1>10. CASE Valid(d)
  <2>1. broker[d.msg] = "unacked" /\ broker' = [broker EXCEPT ![d.msg] = "gone"]
    BY <1>1, <1>10 DEF Valid
  <2>2. /\ Sent' = Sent /\ AtBroker' = AtBroker \ {d.msg}
        /\ d.msg \in AtBroker
    BY <1>3, <2>1 DEF Sent, AtBroker, PipelineInv, TypeOK
  <2>3. InTask(t)' = Range(Msgs(Tail(b)))
    <3>1. CASE Len(b) = 1
      <4>1. task'[t] = Idle
        BY <1>5, <1>10, <3>1 DEF Rest
      <4>2. Range(Msgs(Tail(b))) = {}
        BY <1>2, <3>1, MsgsOfHeadAndTail
      <4>3. task'[t].batch = <<>>
        BY <4>1 DEF Idle
      <4>4. InTask(t)' = Range(Msgs(<<>>))
        BY <1>8, <4>3
      <4>5. QED
        BY <1>7, <4>2, <4>4
    <3>2. CASE Len(b) # 1
      <4>1. task'[t] = [task[t] EXCEPT !.batch = Tail(@)]
        BY <1>5, <1>10, <3>2 DEF Rest
      <4>2. task'[t].batch = Tail(b)
        BY <4>1 DEF PipelineInv, TypeOK
      <4>3. QED
        BY <1>8, <4>2
    <3>3. QED
      BY <3>1, <3>2
  <2>4. InTasks' \subseteq InTasks /\ InTasks \ {d.msg} \subseteq InTasks'
    <3>1. InTask(t)' \subseteq InTask(t) /\ InTask(t) \ {d.msg} \subseteq InTask(t)'
      BY <1>3, <1>8, <2>3
    <3>2. QED
      BY <1>6, <3>1 DEF InTasks
  <2>5. CASE AckNext(t)
    <3>1. UNCHANGED dlq /\ InTasks' \subseteq Open
      BY <2>4, <2>5 DEF AckNext, Open
    <3>2. QED
      BY <1>1, <1>4, <2>2, <3>1, ForgetMoves
  <2>6. CASE NackNext(t)
    <3>1. broker' # broker
      BY <1>3, <2>1 DEF PipelineInv, TypeOK
    <3>2. dlq' = dlq \union {d.msg}
      BY <2>6, <3>1 DEF NackNext, d
    <3>3. Done' = Done \union {d.msg}
      BY <1>1, <1>3, <3>2 DEF Done, Settled, outcomeVars
    <3>4. SettlesAll({d.msg})
      BY <1>1, <1>4, <2>2, <2>4, <3>3 DEF SettlesAll, Open
    <3>5. {d.msg} \in SUBSET Message
      BY <1>3
    <3>6. QED
      BY <3>4, <3>5 DEF FateMoves
  <2>7. QED
    BY <2>5, <2>6
<1>11. QED
  BY <1>9, <1>10

\* The poller.
LEMMA QuietPollerStepMoves ==
  ASSUME PipelineInv, QuietPollerStep
  PROVE  FateMoves
<1>1. UNCHANGED <<task, broker, dlq, outcomeVars, parked>>
  BY DEF QuietPollerStep, PopDue, PopFails, PollerAcquires, PollerDrops,
         PollerReleases, PollerFails, PollerSleeps, Picks, brokerVars
<1>2. NoEnvelope.msgs = <<>> /\ Range(NoEnvelope.msgs) = {}
  BY DEF NoEnvelope, Outgoing, Range
<1>3. /\ scheduled' \subseteq scheduled
      /\ due' \subseteq scheduled \union due
      /\ poller'.env \in due \union {poller.env, NoEnvelope}
  <2>1. ASSUME NEW S \in SUBSET scheduled, PopDue(S) \/ PopFails(S)
        PROVE  /\ scheduled' \subseteq scheduled
               /\ due' \subseteq scheduled \union due
               /\ poller'.env = poller.env
    BY <2>1 DEF PopDue, PopFails, PipelineInv, TypeOK
  <2>2. ASSUME NEW e \in due, PollerAcquires(e) \/ PollerDrops(e)
        PROVE  /\ scheduled' = scheduled /\ due' \subseteq due
               /\ poller'.env \in {poller.env, e}
    BY <2>2 DEF PollerAcquires, PollerDrops, Picks
  <2>3. CASE PollerReleases \/ PollerFails \/ PollerSleeps
    BY <2>3 DEF PollerReleases, PollerFails, PollerSleeps, BackToWork, Asleep
  <2>4. QED
    BY <2>1, <2>2, <2>3 DEF QuietPollerStep
<1>4. InZSet' \union InPoller' \subseteq InZSet \union InPoller
  BY <1>2, <1>3 DEF InZSet, InPoller
<1>5. /\ Sent' = Sent /\ AtBroker' = AtBroker /\ InTasks' = InTasks
  BY <1>1 DEF Sent, AtBroker, InTasks, InTask
<1>6. InTasks' \subseteq Open
  BY <1>5 DEF Open
<1>7. QED
  BY <1>1, <1>4, <1>5, <1>6, ForgetMoves

\* The steps of the poller that decide.
LEMMA DecidingPollerStepMoves ==
  ASSUME PipelineInv,
         \/ \E e \in due : PollerDelivers(e) \/ PollerDefers(e)
         \/ PollerAnswers
  PROVE  FateMoves
<1>1. TypeOK /\ EntriesNonEmpty
  BY DEF PipelineInv
<1>2. UNCHANGED <<task, broker>>
  BY DEF PollerDelivers, PollerDefers, PollerAnswers, Picks, brokerVars
<1>3. InTasks' = InTasks
  BY <1>2 DEF InTasks, InTask
<1>4. ASSUME NEW e \in due, PollerDelivers(e) \/ PollerDefers(e)
      PROVE  FateMoves
  <2>1. e.msgs \in Seq(Message) \ {<<>>} /\ e.retry + 1 \in Nat
    BY <1>1, EntryTyped DEF TypeOK, EntriesNonEmpty
  <2>2. due' = due \ {e} /\ UNCHANGED poller
    BY <1>4 DEF PollerDelivers, PollerDefers, Picks
  <2>3. /\ Range(e.msgs) \subseteq InPoller
        /\ InPoller' \subseteq InPoller
        /\ InPoller \ Range(e.msgs) \subseteq InPoller'
    BY <2>2 DEF InPoller
  <2>4. Decided(e.msgs)
    <3>1. CASE PollerDelivers(e)
      <4>1. RunLocked(e.msgs) /\ UNCHANGED dlq
        BY <3>1 DEF PollerDelivers, RunLocked
      <4>2. QED
        BY <1>1, <2>1, <4>1, RunLockedDecides
    <3>2. CASE PollerDefers(e)
      <4>1. Defer(e.msgs, e.retry + 1) /\ UNCHANGED outcomeVars
        BY <3>2 DEF PollerDefers
      <4>2. QED
        BY <2>1, <4>1, DeferDecides
    <3>3. QED
      BY <1>4, <3>1, <3>2
  <2>5. QED
    BY <1>2, <1>3, <2>1, <2>3, <2>4, DecidedMoves
<1>5. CASE PollerAnswers
  <2>1. poller.env.msgs \in Seq(Message) \ {<<>>}
    <3>1. poller.env \in Envelope /\ poller.env.msgs # <<>>
      BY <1>1, <1>5 DEF PollerAnswers, TypeOK, EntriesNonEmpty
    <3>2. QED
      BY <3>1, EntryTyped
  <2>2. due' = due /\ poller'.env = poller.env
    BY <1>1, <1>5 DEF PollerAnswers, TypeOK
  <2>3. InPoller' = InPoller /\ Range(poller.env.msgs) \subseteq InPoller
    BY <2>2 DEF InPoller
  <2>4. RunLocked(poller.env.msgs) /\ UNCHANGED dlq
    BY <1>5 DEF PollerAnswers
  <2>5. Decided(poller.env.msgs)
    BY <1>1, <2>1, <2>4, RunLockedDecides
  <2>6. QED
    BY <1>2, <1>3, <2>1, <2>3, <2>5, DecidedMoves
<1>6. QED
  BY <1>4, <1>5

\* The lock is nobody's message.
LEMMA LockStepMoves ==
  ASSUME \/ \E u \in User : \/ SleeperAcquires(u) \/ SleeperReleases(u)
                            \/ OrphanExpires(u) \/ HolderOutlivesLock(u)
         \/ UNCHANGED vars
  PROVE  FateMoves
<1>1. UNCHANGED onlyLock
  BY DEF SleeperAcquires, SleeperReleases, OrphanExpires, HolderOutlivesLock,
         vars, onlyLock
<1>2. UNCHANGED <<broker, scheduled, task, poller, due, dlq, outcomeVars, parked>>
  BY <1>1 DEF onlyLock, brokerVars, processVars
<1>3. /\ Sent' = Sent /\ AtBroker' = AtBroker /\ InTasks' = InTasks
      /\ InZSet' = InZSet /\ InPoller' = InPoller
  BY <1>2 DEF Sent, AtBroker, InTasks, InTask, InZSet, InPoller
<1>4. InTasks' \subseteq Open
  BY <1>3 DEF Open
<1>5. QED
  BY <1>2, <1>3, <1>4, ForgetMoves

\* What the process forgets is with the broker again, or it is forgotten.
LEMMA BreakMoves ==
  ASSUME PipelineInv, Breaks
  PROVE  FateMoves
<1> USE DEF Breaks, Crash, Stop, Restart, NewProcess, Reconnect, FlushIgnored
<1>1. UNCHANGED <<dlq, scheduled, outcomeVars, parked>>
  OBVIOUS
<1>2. broker' = Requeued \/ broker' = broker
  BY DEF brokerVars
<1>3. Sent' = Sent /\ AtBroker' = AtBroker
  BY <1>2 DEF Requeued, Sent, AtBroker
<1>4. \A t \in Task : task'[t] = task[t] \/ task'[t] = Idle
  BY DEF processVars, PipelineInv, TypeOK
<1>5. due' \subseteq due /\ (poller' = poller \/ poller' = Asleep)
  BY DEF processVars
<1>6. Range(Asleep.env.msgs) = {}
  BY DEF Asleep, NoEnvelope, Outgoing, Range
<1>7. InZSet' = InZSet /\ InPoller' \subseteq InPoller
  BY <1>1, <1>5, <1>6 DEF InZSet, InPoller
<1>8. InTasks' \subseteq InTasks
  <2>1. Range(Msgs(Idle.batch)) = {}
    BY MsgsOfNone DEF Idle
  <2>2. \A t \in Task : InTask(t)' \subseteq InTask(t)
    BY <1>4, <2>1 DEF InTask
  <2>3. QED
    BY <2>2 DEF InTasks
<1>9. InTasks' \subseteq Open
  BY <1>8 DEF Open
<1>10. QED
  BY <1>1, <1>3, <1>7, <1>9, ForgetMoves

\* Every step is one of the moves.
LEMMA NextMoves ==
  ASSUME PipelineInv, [Next]_vars
  PROVE  FateMoves
<1>1. CASE \E m \in Message : Accept(m)
  BY <1>1, AcceptMoves
<1>2. CASE Consume
  BY <1>2, OnMessageMoves, OnMalformedMoves DEF Consume
<1>3. ASSUME NEW t \in Task, TaskStep(t)
      PROVE  FateMoves
  BY <1>3, QuietTaskStepMoves, DecidingTaskStepMoves, SettlingTaskStepMoves,
     BreakMoves DEF TaskStep, Breaks
<1>4. CASE (\E S \in SUBSET scheduled : PopDue(S)) \/ PollerStep
  BY <1>4, QuietPollerStepMoves, DecidingPollerStepMoves
     DEF PollerStep, QuietPollerStep
<1>5. ASSUME NEW u \in User,
             SleeperAcquires(u) \/ SleeperReleases(u) \/ OrphanExpires(u)
      PROVE  FateMoves
  BY <1>5, LockStepMoves
<1>6. CASE FaultStep
  BY <1>6, QuietTaskStepMoves, DecidingTaskStepMoves, QuietPollerStepMoves,
     LockStepMoves, BreakMoves DEF FaultStep, QuietPollerStep, Breaks
<1>7. CASE Restart
  BY <1>7, BreakMoves DEF Breaks
<1>8. CASE UNCHANGED vars
  BY <1>8, LockStepMoves
<1>9. QED
  BY <1>1, <1>2, <1>3, <1>4, <1>5, <1>6, <1>7, <1>8 DEF Next

\* The pipeline implements MessageFate, for any number of messages, users,
\* tasks and faults: settled is for ever, and only what was handed over to
\* the ZSet can be lost.
THEOREM PromiseKept == Spec => KeepsPromise
<1>1. Init => SentOnly /\ Fate!FateInit
  <2> SUFFICES ASSUME Init PROVE SentOnly /\ Fate!FateInit
    OBVIOUS
  <2>1. /\ \A m \in Message : broker[m] = "unsent" /\ replies[m] = <<>>
        /\ skipped = {} /\ dlq = {} /\ parked = {} /\ scheduled = {} /\ due = {}
        /\ \A t \in Task : task[t].batch = <<>>
        /\ poller.env.msgs = <<>>
    BY DEF Init, Idle, Asleep, NoEnvelope, Outgoing
  <2>2. Range(<<>>) = {} /\ Range(Msgs(<<>>)) = {}
    BY MsgsOfNone
  <2>3. AtBroker = {} /\ InTasks = {} /\ InZSet = {} /\ InPoller = {}
    BY <2>1, <2>2 DEF AtBroker, InTasks, InTask, InZSet, InPoller
  <2>4. Done = {} /\ Sent = {}
    BY <2>1 DEF Done, Settled, Sent
  <2>5. SentOnly
    BY <2>1, <2>3, <2>4 DEF SentOnly, Open
  <2>6. Fate!FateInit
    BY <2>1, <2>4, FateByParts DEF Fate!FateInit
  <2>7. QED
    BY <2>5, <2>6
<1>2. PipelineInv /\ SentOnly /\ [Next]_vars => SentOnly'
  BY NextMoves, MovesKeepSentOnly
<1>3. PipelineInv /\ PipelineInv' /\ SentOnly /\ [Next]_vars => Fate!FateNext
  BY NextMoves, MovesRefine
<1>4. QED
  BY <1>1, <1>2, <1>3, Invariance, PTL DEF Spec, KeepsPromise, Fate!FateSpec

-----------------------------------------------------------------------------
(* What the broker waits for is in somebody's hands                        *)

Place(t) == 1 .. Len(task[t].batch)
MsgAt(t, i) == task[t].batch[i].msg
Current(t, i) == Valid(task[t].batch[i])

\* While the process runs, the batches have the current deliveries of
\* messages that are not acknowledged, each once.
CurrentOnly ==
  \A t \in Task : \A i \in Place(t) : Current(t, i)
OnceOnly ==
  \A t, r \in Task : \A i \in Place(t), j \in Place(r) :
    MsgAt(t, i) = MsgAt(r, j) => t = r /\ i = j
NoneMissing ==
  \A m \in Message : broker[m] = "unacked" =>
    \E t \in Task : \E i \in Place(t) : MsgAt(t, i) = m
InHands == CurrentOnly /\ OnceOnly /\ NoneMissing
HandsInv == running => InHands

\* The invariant of the deliveries gives the property.
LEMMA HandsMeanHeld == TypeOK /\ HandsInv => UnackedIsHeld
<1> SUFFICES ASSUME TypeOK, HandsInv, running,
                    NEW m \in Message, broker[m] = "unacked"
             PROVE  \E t \in Task : [msg |-> m, tag |-> deliveries[m]]
                                      \in Range(task[t].batch)
  BY DEF UnackedIsHeld
<1>1. InHands
  BY DEF HandsInv
<1>2. PICK t \in Task : \E i \in Place(t) : MsgAt(t, i) = m
  BY <1>1 DEF InHands, NoneMissing
<1>3. PICK i \in Place(t) : MsgAt(t, i) = m
  BY <1>2
<1>4. task[t].batch \in Seq(Delivery) /\ Valid(task[t].batch[i])
  BY <1>1 DEF TypeOK, InHands, CurrentOnly, Current
<1>5. task[t].batch[i] \in Delivery /\ i \in DOMAIN task[t].batch
  BY <1>4 DEF Place
<1>6. task[t].batch[i] = [msg |-> m, tag |-> deliveries[m]]
  BY <1>3, <1>4, <1>5 DEF Delivery, MsgAt, Valid
<1>7. QED
  BY <1>5, <1>6 DEF Range

\* Steps that take nothing from the batches and out of the hands.
LEMMA HandsStay ==
  ASSUME TypeOK, HandsInv, running' = running,
         \A t \in Task : task'[t].batch = task[t].batch,
         \A m \in Message :
           /\ broker'[m] = "unacked" <=> broker[m] = "unacked"
           /\ broker[m] = "unacked" => deliveries'[m] = deliveries[m]
  PROVE  HandsInv'
<1>1. \A t \in Task : Place(t)' = Place(t)
  BY DEF Place
<1>2. \A t \in Task : \A i \in Place(t) : MsgAt(t, i)' = MsgAt(t, i)
  BY DEF MsgAt
<1>3. ASSUME InHands
      PROVE  InHands'
  <2>1. ASSUME NEW t \in Task, NEW i \in Place(t)
        PROVE  Current(t, i)'
    <3>1. task[t].batch[i] \in Delivery
      BY DEF TypeOK, Place
    <3>2. Current(t, i)
      BY <1>3 DEF InHands, CurrentOnly
    <3>3. QED
      BY <3>1, <3>2 DEF Current, Valid, Delivery
  <2>2. CurrentOnly'
    BY <1>1, <2>1 DEF CurrentOnly
  <2>3. OnceOnly'
    BY <1>1, <1>2, <1>3 DEF InHands, OnceOnly
  <2>4. NoneMissing'
    BY <1>1, <1>2, <1>3 DEF InHands, NoneMissing
  <2>5. QED
    BY <2>2, <2>3, <2>4 DEF InHands
<1>4. QED
  BY <1>3 DEF HandsInv

\* A message that is delivered is in no batch yet, and joins one.
LEMMA OnMessageHands ==
  ASSUME TypeOK, HandsInv, NEW m \in Message, NEW t \in Task, OnMessage(m, t)
  PROVE  HandsInv'
<1> SUFFICES ASSUME running'
             PROVE  HandsInv'
  BY DEF HandsInv
<1>0. PICK n, d : /\ n = Len(task[t].batch)
                  /\ d = [msg |-> m, tag |-> deliveries[m] + 1]
  OBVIOUS
<1>1. /\ running /\ running' /\ broker[m] = "queued"
      /\ \A k \in Message \ {m} :
           broker'[k] = broker[k] /\ deliveries'[k] = deliveries[k]
      /\ broker'[m] = "unacked" /\ deliveries'[m] = deliveries[m] + 1
  BY DEF OnMessage, Delivers, TypeOK
<1>2. /\ \A r \in Task \ {t} : task'[r] = task[r]
      /\ task'[t].batch = Append(task[t].batch, d)
  BY <1>0 DEF OnMessage, TypeOK
<1>3. task[t].batch \in Seq(Delivery) /\ n \in Nat
  BY <1>0 DEF TypeOK
<1>4. /\ Len(task'[t].batch) = n + 1
      /\ \A i \in 1 .. n : task'[t].batch[i] = task[t].batch[i]
      /\ task'[t].batch[n + 1] = d
  BY <1>0, <1>2, <1>3
<1>5. InHands
  BY <1>1 DEF HandsInv
<1>6. ASSUME NEW r \in Task, NEW i \in Place(r)
      PROVE  /\ task[r].batch[i] \in Delivery
             /\ MsgAt(r, i) \in Message /\ MsgAt(r, i) # m
             /\ broker'[MsgAt(r, i)] = "unacked"
             /\ deliveries'[MsgAt(r, i)] = task[r].batch[i].tag
  <2>1. task[r].batch[i] \in Delivery
    BY DEF TypeOK, Place
  <2>2. Valid(task[r].batch[i])
    BY <1>5 DEF InHands, CurrentOnly, Current
  <2>3. MsgAt(r, i) \in Message /\ MsgAt(r, i) # m
    BY <1>1, <2>1, <2>2 DEF MsgAt, Valid, Delivery
  <2>4. QED
    BY <1>1, <2>1, <2>2, <2>3 DEF MsgAt, Valid
<1>7. Place(t)' = Place(t) \union {n + 1} /\ n + 1 \notin Place(t)
  BY <1>0, <1>3, <1>4 DEF Place
<1>8. \A i \in Place(t) : task'[t].batch[i] = task[t].batch[i]
  BY <1>0, <1>4 DEF Place
<1>9. \A r \in Task \ {t} : Place(r)' = Place(r)
  BY <1>2 DEF Place
<1>10. \A r \in Task : \A i \in Place(r) :
         /\ i \in Place(r)'
         /\ task'[r].batch[i] = task[r].batch[i]
         /\ MsgAt(r, i)' = MsgAt(r, i)
  BY <1>2, <1>7, <1>8, <1>9 DEF MsgAt
<1>11. MsgAt(t, n + 1)' = m /\ Current(t, n + 1)'
  BY <1>0, <1>1, <1>4 DEF MsgAt, Current, Valid
<1>12. \A r \in Task : \A i \in Place(r)' :
         i \in Place(r) \/ (r = t /\ i = n + 1)
  BY <1>7, <1>9
<1>13. CurrentOnly'
  <2>1. ASSUME NEW r \in Task, NEW i \in Place(r)'
        PROVE  Current(r, i)'
    <3>1. CASE i \in Place(r)
      BY <1>6, <1>10, <3>1 DEF Current, Valid, MsgAt
    <3>2. CASE r = t /\ i = n + 1
      BY <1>11, <3>2
    <3>3. QED
      BY <1>12, <3>1, <3>2
  <2>2. QED
    BY <2>1 DEF CurrentOnly
<1>14. OnceOnly'
  <2>1. ASSUME NEW r \in Task, NEW q \in Task,
               NEW i \in Place(r)', NEW j \in Place(q)',
               MsgAt(r, i)' = MsgAt(q, j)'
        PROVE  r = q /\ i = j
    <3>1. CASE i \in Place(r) /\ j \in Place(q)
      BY <1>5, <1>10, <2>1, <3>1 DEF InHands, OnceOnly
    <3>2. CASE i \in Place(r) /\ q = t /\ j = n + 1
      BY <1>6, <1>10, <1>11, <2>1, <3>2
    <3>3. CASE r = t /\ i = n + 1 /\ j \in Place(q)
      BY <1>6, <1>10, <1>11, <2>1, <3>3
    <3>4. QED
      BY <1>12, <3>1, <3>2, <3>3
  <2>2. QED
    BY <2>1 DEF OnceOnly
<1>15. NoneMissing'
  <2>1. ASSUME NEW k \in Message, broker'[k] = "unacked"
        PROVE  \E r \in Task : \E i \in Place(r)' : MsgAt(r, i)' = k
    <3>1. CASE k = m
      BY <1>7, <1>11, <3>1
    <3>2. CASE k # m
      <4>1. broker[k] = "unacked"
        BY <1>1, <2>1, <3>2
      <4>2. PICK r \in Task : \E i \in Place(r) : MsgAt(r, i) = k
        BY <1>5, <4>1 DEF InHands, NoneMissing
      <4>3. QED
        BY <1>10, <4>2
    <3>3. QED
      BY <3>1, <3>2
  <2>2. QED
    BY <2>1 DEF NoneMissing
<1>16. QED
  BY <1>1, <1>13, <1>14, <1>15 DEF HandsInv, InHands

\* An ack or a nack lets go of the head of a batch and of its message.
LEMMA SettlesHands ==
  ASSUME TypeOK, BusyHasBatch, HandsInv, NEW t \in Task,
         AckNext(t) \/ NackNext(t)
  PROVE  HandsInv'
<1> DEFINE b == task[t].batch
           d == b[1]
           n == Len(b)
<1>1. /\ task[t].phase \in {"acking", "nacking"}
      /\ task' = [task EXCEPT ![t] = IF Valid(d) THEN Rest(t) ELSE Idle]
      /\ broker' = IF Valid(d) THEN [broker EXCEPT ![d.msg] = "gone"]
                               ELSE broker
      /\ UNCHANGED <<running, deliveries>>
  BY DEF AckNext, NackNext, Settles
<1>2. /\ b \in Seq(Delivery) /\ b # <<>>
      /\ n \in Nat \ {0} /\ 1 \in Place(t) /\ d \in Delivery /\ d.msg \in Message
  <2>1. b \in Seq(Delivery) /\ b # <<>>
    BY <1>1 DEF TypeOK, BusyHasBatch
  <2>2. n \in Nat \ {0} /\ d \in Delivery
    BY <2>1
  <2>3. QED
    BY <2>1, <2>2 DEF Place, Delivery
<1>3. CASE ~running
  BY <1>1, <1>3 DEF HandsInv
<1>4. CASE running
  <2>1. InHands
    BY <1>4 DEF HandsInv
  <2>2. Valid(d)
    BY <1>2, <2>1 DEF InHands, CurrentOnly, Current
  <2>3. /\ \A r \in Task \ {t} : task'[r] = task[r]
        /\ task'[t] = Rest(t)
        /\ broker' = [broker EXCEPT ![d.msg] = "gone"]
    BY <1>1, <2>2 DEF TypeOK
  <2>4. /\ Len(task'[t].batch) = n - 1
        /\ \A i \in 1 .. n - 1 : task'[t].batch[i] = b[i + 1]
    <3>1. CASE n = 1
      <4>1. task'[t].batch = <<>>
        BY <2>3, <3>1 DEF Rest, Idle
      <4>2. QED
        BY <3>1, <4>1
    <3>2. CASE n # 1
      <4>1. task'[t].batch = Tail(b)
        BY <2>3, <3>2 DEF Rest, TypeOK
      <4>2. Len(Tail(b)) = n - 1 /\ \A i \in 1 .. Len(Tail(b)) : Tail(b)[i] = b[i + 1]
        BY <1>2, HeadTailProperties
      <4>3. QED
        BY <4>1, <4>2
    <3>3. QED
      BY <3>1, <3>2
  <2>5. /\ broker'[d.msg] = "gone"
        /\ \A k \in Message \ {d.msg} : broker'[k] = broker[k]
    BY <1>2, <2>3 DEF TypeOK
  <2>6. \A r \in Task : \A i \in Place(r) :
          /\ MsgAt(r, i) \in Message
          /\ MsgAt(r, i) = d.msg => r = t /\ i = 1
    <3>1. MsgAt(t, 1) = d.msg
      BY DEF MsgAt
    <3>2. ASSUME NEW r \in Task, NEW i \in Place(r)
          PROVE  MsgAt(r, i) \in Message
      <4>1. task[r].batch[i] \in Delivery
        BY DEF TypeOK, Place
      <4>2. QED
        BY <4>1 DEF MsgAt, Delivery
    <3>3. QED
      BY <1>2, <2>1, <3>1, <3>2 DEF InHands, OnceOnly
  <2> HIDE DEF d, b, n
  <2> DEFINE was(r, i) == IF r = t THEN i + 1 ELSE i
  <2>7. ASSUME NEW r \in Task, NEW i \in Place(r)'
        PROVE  /\ was(r, i) \in Place(r)
               /\ task'[r].batch[i] = task[r].batch[was(r, i)]
               /\ MsgAt(r, i)' = MsgAt(r, was(r, i))
               /\ MsgAt(r, was(r, i)) # d.msg
    <3>1. CASE r = t
      <4>1. i \in 1 .. n - 1 /\ i + 1 \in 1 .. n /\ i + 1 # 1
        BY <1>2, <2>4, <3>1 DEF Place
      <4>2. was(r, i) = i + 1 /\ was(r, i) \in Place(r) /\ was(r, i) # 1
        BY <3>1, <4>1 DEF Place, n, b
      <4>3. task'[r].batch[i] = task[r].batch[was(r, i)]
        BY <2>4, <3>1, <4>1, <4>2 DEF b
      <4>4. QED
        BY <2>6, <4>2, <4>3 DEF MsgAt
    <3>2. CASE r # t
      <4>1. was(r, i) = i /\ i \in Place(r) /\ task'[r] = task[r]
        BY <2>3, <3>2 DEF Place
      <4>2. QED
        BY <2>6, <3>2, <4>1 DEF MsgAt
    <3>3. QED
      BY <3>1, <3>2
  <2>8. CurrentOnly'
    <3>1. ASSUME NEW r \in Task, NEW i \in Place(r)'
          PROVE  Current(r, i)'
      <4>1. PICK e : e = task[r].batch[was(r, i)]
        OBVIOUS
      <4>2. Valid(e) /\ e.msg \in Message /\ e.msg # d.msg
        BY <2>1, <2>6, <2>7, <4>1 DEF InHands, CurrentOnly, Current, MsgAt
      <4>3. broker'[e.msg] = "unacked" /\ deliveries'[e.msg] = e.tag
        BY <1>1, <2>5, <4>2 DEF Valid
      <4>4. task'[r].batch[i] = e
        BY <2>7, <4>1
      <4>5. QED
        BY <4>3, <4>4 DEF Current, Valid
    <3>2. QED
      BY <3>1 DEF CurrentOnly
  <2>9. OnceOnly'
    <3>1. ASSUME NEW r \in Task, NEW q \in Task,
                 NEW i \in Place(r)', NEW j \in Place(q)',
                 MsgAt(r, i)' = MsgAt(q, j)'
          PROVE  r = q /\ i = j
      <4>1. r = q /\ was(r, i) = was(q, j)
        BY <2>1, <2>7, <3>1 DEF InHands, OnceOnly
      <4>2. i \in Int /\ j \in Int
        BY DEF Place
      <4>3. QED
        BY <4>1, <4>2
    <3>2. QED
      BY <3>1 DEF OnceOnly
  <2>10. NoneMissing'
    <3>1. ASSUME NEW k \in Message, broker'[k] = "unacked"
          PROVE  \E r \in Task : \E i \in Place(r)' : MsgAt(r, i)' = k
      <4>1. k # d.msg /\ broker[k] = "unacked"
        BY <2>5, <3>1
      <4>2. PICK r \in Task : \E i \in Place(r) : MsgAt(r, i) = k
        BY <2>1, <4>1 DEF InHands, NoneMissing
      <4>3. PICK i \in Place(r) : MsgAt(r, i) = k
        BY <4>2
      <4>4. CASE r # t
        BY <2>3, <4>3, <4>4 DEF Place, MsgAt
      <4>5. CASE r = t
        <5>1. i # 1
          BY <4>1, <4>3, <4>5 DEF MsgAt, d, b
        <5>2. i - 1 \in 1 .. n - 1 /\ (i - 1) + 1 = i
          BY <1>2, <4>5, <5>1 DEF Place, n, b
        <5>3. i - 1 \in Place(r)' /\ task'[r].batch[i - 1] = task[r].batch[i]
          BY <2>4, <4>5, <5>2 DEF Place, b
        <5>4. QED
          BY <4>3, <5>3 DEF MsgAt
      <4>6. QED
        BY <4>4, <4>5
    <3>2. QED
      BY <3>1 DEF NoneMissing
  <2>11. QED
    BY <1>1, <1>4, <2>8, <2>9, <2>10 DEF HandsInv, InHands
<1>5. QED
  BY <1>3, <1>4

\* A new process has everything before it; a stopped one does not count.
LEMMA BreakHands ==
  ASSUME TypeOK, HandsInv,
         Crash \/ Stop \/ Restart \/ \E t \in Task : FlushIgnored(t)
  PROVE  HandsInv'
<1>1. CASE Crash \/ Restart
  <2>1. NewProcess
    BY <1>1 DEF Crash, Restart
  <2>2. \A t \in Task : task'[t].batch = <<>>
    BY <2>1 DEF NewProcess, Idle
  <2>3. \A t \in Task : Place(t)' = {}
    BY <2>2 DEF Place
  <2>4. \A m \in Message : broker'[m] # "unacked"
    BY <2>1 DEF NewProcess, Requeued
  <2>5. QED
    BY <2>3, <2>4
       DEF HandsInv, InHands, CurrentOnly, OnceOnly, NoneMissing
<1>2. CASE Stop \/ \E t \in Task : FlushIgnored(t)
  BY <1>2 DEF Stop, FlushIgnored, HandsInv
<1>3. QED
  BY <1>1, <1>2

\* Every step keeps the invariant of the deliveries.
LEMMA NextHands ==
  ASSUME "reconnect" \notin FaultKinds, PipelineInv, HandsInv, [Next]_vars
  PROVE  HandsInv'
<1>1. TypeOK /\ BusyHasBatch
  BY DEF PipelineInv
<1>2. ~Reconnect
  BY DEF Reconnect, Fault
<1>3. ASSUME NEW m \in Message, Accept(m) \/ OnMalformed(m)
      PROVE  HandsInv'
  <2>1. UNCHANGED <<running, task>>
    BY <1>3 DEF Accept, OnMalformed, processVars
  <2>2. \A k \in Message :
           /\ broker'[k] = "unacked" <=> broker[k] = "unacked"
           /\ broker[k] = "unacked" => deliveries'[k] = deliveries[k]
    BY <1>1, <1>3 DEF Accept, OnMalformed, Delivers, TypeOK
  <2>3. QED
    BY <1>1, <2>1, <2>2, HandsStay
<1>4. ASSUME NEW t \in Task,
             \/ DebounceFires(t) \/ AcquireLock(t) \/ DeferBusy(t) \/ Answer(t)
             \/ ReleaseLock(t) \/ BatchFails(t) \/ DeferUnknowing(t)
      PROVE  HandsInv'
  <2>1. \A r \in Task : task'[r].batch = task[r].batch
    <3>1. task' \in {[task EXCEPT ![t].phase = p] : p \in TaskPhases}
      BY <1>4 DEF DebounceFires, AcquireLock, DeferBusy, Answer, ReleaseLock,
         BatchFails, DeferUnknowing, InPhase, TaskPhases
    <3>2. task \in [Task -> [phase: TaskPhases, batch: Seq(Delivery)]]
      BY <1>1 DEF TypeOK
    <3>3. QED
      BY <3>1, <3>2
  <2>2. UNCHANGED <<running, broker, deliveries>>
    BY <1>4 DEF DebounceFires, AcquireLock, DeferBusy, Answer,
       ReleaseLock, BatchFails, DeferUnknowing, InPhase, brokerVars
  <2>3. QED
    BY <1>1, <2>1, <2>2, HandsStay
<1>5. ASSUME \/ \E S \in SUBSET scheduled : PopDue(S) \/ PopFails(S)
             \/ \E e \in due : PollerDrops(e)
             \/ PollerStep \/ PollerFails
             \/ \E u \in User : \/ SleeperAcquires(u) \/ SleeperReleases(u)
                                \/ OrphanExpires(u) \/ HolderOutlivesLock(u)
             \/ UNCHANGED vars
      PROVE  HandsInv'
  <2>1. UNCHANGED <<running, task, broker, deliveries>>
    BY <1>5 DEF PopDue, PopFails, PollerDrops, PollerStep, PollerDelivers,
       PollerAcquires, PollerDefers, PollerAnswers, PollerReleases,
       PollerSleeps, PollerFails, Picks, SleeperAcquires, SleeperReleases,
       OrphanExpires, HolderOutlivesLock, onlyLock, processVars, brokerVars,
       vars
  <2>2. QED
    BY <1>1, <2>1, HandsStay
<1>6. CASE FaultStep
  BY <1>1, <1>2, <1>4, <1>5, <1>6, BreakHands DEF FaultStep
<1>7. CASE Consume
  BY <1>1, <1>3, <1>7, OnMessageHands DEF Consume
<1>8. ASSUME NEW t \in Task, TaskStep(t)
      PROVE  HandsInv'
  BY <1>1, <1>4, <1>8, SettlesHands, BreakHands DEF TaskStep
<1>9. QED
  BY <1>1, <1>3, <1>5, <1>6, <1>7, <1>8, BreakHands DEF Next

\* As long as the consumer connection does not break, the broker never waits
\* for a delivery that no task will ack or nack, whatever else crashes, fails
\* or is stopped.
THEOREM NothingPinned ==
  ASSUME "reconnect" \notin FaultKinds
  PROVE  Spec => []UnackedIsHeld
<1>1. Init => HandsInv
  BY DEF Init, HandsInv, InHands, CurrentOnly, OnceOnly, NoneMissing, Place, Idle
<1>2. PipelineInv /\ HandsInv /\ [Next]_vars => HandsInv'
  BY NextHands
<1>3. PipelineInv => TypeOK
  BY DEF PipelineInv
<1>4. QED
  BY <1>1, <1>2, <1>3, Invariance, HandsMeanHeld, PTL DEF Spec

-----------------------------------------------------------------------------
(* No reply without a delivery of its own                                  *)

\* Who may still answer m: the tasks that have not decided, the entries in
\* the ZSet and with the poller, and the poller at work.
Trying(m) ==
  {t \in Task : /\ task[t].phase \in {"debounce", "acquire", "locked"}
                /\ m \in InTask(t)}
About(m, S) == {e \in S : m \in Range(e.msgs)}
InWork(m) == IF poller.phase = "locked" /\ m \in Range(poller.env.msgs)
             THEN 1 ELSE 0

FewTry(m) ==
  /\ IsFiniteSet(Trying(m))
  /\ IsFiniteSet(About(m, scheduled)) /\ IsFiniteSet(About(m, due))

\* What m has had or has in the ZSet, and what else may come of it.
Paid(m) == Len(replies[m]) + Cardinality(About(m, scheduled))
Left(m) == Cardinality(Trying(m)) + Cardinality(About(m, due)) + InWork(m)

\* Each reply that was sent or may still come has a delivery of its own.
Covered(m) == FewTry(m) /\ Paid(m) + Left(m) <= deliveries[m]

\* All that is counted is a number.
LEMMA CoverTypes ==
  ASSUME TypeOK, NEW m \in Message, FewTry(m)
  PROVE  /\ Paid(m) \in Nat /\ Left(m) \in Nat /\ deliveries[m] \in Nat
         /\ Len(replies[m]) \in Nat /\ Cardinality(Trying(m)) \in Nat
         /\ Cardinality(About(m, due)) \in Nat
         /\ Cardinality(About(m, scheduled)) \in Nat /\ InWork(m) \in {0, 1}
<1>1. /\ Cardinality(Trying(m)) \in Nat /\ Cardinality(About(m, due)) \in Nat
      /\ Cardinality(About(m, scheduled)) \in Nat
  BY FS_CardinalityType DEF FewTry
<1>2. Len(replies[m]) \in Nat /\ deliveries[m] \in Nat
  BY DEF TypeOK
<1>3. InWork(m) \in {0, 1}
  BY DEF InWork
<1>4. QED
  BY <1>1, <1>2, <1>3 DEF Paid, Left

\* The chances of m shrink or stay.
LEMMA CoverStays ==
  ASSUME TypeOK, TypeOK', NEW m \in Message, Covered(m),
         Trying(m)' \subseteq Trying(m),
         About(m, scheduled)' \subseteq About(m, scheduled),
         About(m, due)' \subseteq About(m, due),
         InWork(m)' = 0 \/ InWork(m)' = InWork(m),
         replies'[m] = replies[m], deliveries'[m] >= deliveries[m]
  PROVE  Covered(m)'
<1>1. FewTry(m)
  BY DEF Covered
<1>2. FewTry(m)' 
  BY <1>1, FS_Subset DEF FewTry
<1>3. /\ Cardinality(Trying(m)') <= Cardinality(Trying(m))
      /\ Cardinality(About(m, scheduled)') <= Cardinality(About(m, scheduled))
      /\ Cardinality(About(m, due)') <= Cardinality(About(m, due))
  BY <1>1, FS_Subset DEF FewTry
<1>4. /\ Cardinality(Trying(m)') \in Nat
      /\ Cardinality(About(m, scheduled)') \in Nat
      /\ Cardinality(About(m, due)') \in Nat
  BY <1>2, FS_CardinalityType DEF FewTry
<1>5. /\ Len(replies[m]) \in Nat /\ Cardinality(Trying(m)) \in Nat
      /\ Cardinality(About(m, due)) \in Nat
      /\ Cardinality(About(m, scheduled)) \in Nat /\ InWork(m) \in {0, 1}
  BY <1>1, CoverTypes
<1>6. Paid(m)' \in Nat /\ Paid(m)' <= Paid(m) /\ Paid(m) \in Nat
  BY <1>3, <1>4, <1>5 DEF Paid
<1>7. Left(m)' \in Nat /\ Left(m)' <= Left(m) /\ Left(m) \in Nat
  BY <1>3, <1>4, <1>5 DEF Left
<1>8. deliveries[m] \in Nat /\ deliveries'[m] \in Nat
  BY DEF TypeOK
<1>9. Paid(m) + Left(m) <= deliveries[m]
  BY DEF Covered
<1>10. Paid(m)' + Left(m)' <= deliveries'[m]
  BY <1>6, <1>7, <1>8, <1>9
<1>11. QED
  BY <1>2, <1>10 DEF Covered

\* What a decision about the batch ms costs the message m: a chance, if m is
\* in the batch.
Cost(m, ms) == IF m \in Range(ms) THEN 1 ELSE 0
Pays(m, ms) ==
  IsFiniteSet(About(m, scheduled)') /\ Paid(m)' <= Paid(m) + Cost(m, ms)

\* A set with one more element.
LEMMA OneMore ==
  ASSUME NEW S, IsFiniteSet(S), NEW x
  PROVE  /\ IsFiniteSet(S \union {x})
         /\ Cardinality(S \union {x}) <= Cardinality(S) + 1
<1>1. Cardinality(S) \in Nat
  BY FS_CardinalityType
<1>2. /\ IsFiniteSet(S \union {x})
      /\ Cardinality(S \union {x})
           = IF x \in S THEN Cardinality(S) ELSE Cardinality(S) + 1
  BY FS_AddElement
<1>3. CASE x \in S
  BY <1>1, <1>2, <1>3
<1>4. CASE x \notin S
  BY <1>1, <1>2, <1>4
<1>5. QED
  BY <1>3, <1>4

\* A new entry is paid for by those it is about.
LEMMA EntryPays ==
  ASSUME TypeOK, NEW m \in Message, IsFiniteSet(About(m, scheduled)), NEW e,
         scheduled' = scheduled \union {e}, UNCHANGED replies
  PROVE  Pays(m, e.msgs)
<1>1. CASE m \in Range(e.msgs)
  <2>1. About(m, scheduled)' = About(m, scheduled) \union {e}
    BY <1>1 DEF About
  <2>2. IsFiniteSet(About(m, scheduled)')
        /\ Cardinality(About(m, scheduled)')
             <= Cardinality(About(m, scheduled)) + 1
    BY <2>1, OneMore
  <2>3. /\ Len(replies[m]) \in Nat
        /\ Cardinality(About(m, scheduled)) \in Nat
        /\ Cardinality(About(m, scheduled)') \in Nat
    BY <2>2, FS_CardinalityType DEF TypeOK
  <2>4. QED
    BY <1>1, <2>2, <2>3 DEF Pays, Paid, Cost
<1>2. CASE m \notin Range(e.msgs)
  <2>1. About(m, scheduled)' = About(m, scheduled)
    BY <1>2 DEF About
  <2>2. Paid(m)' = Paid(m) /\ Paid(m) \in Nat
    <3>1. Cardinality(About(m, scheduled)) \in Nat /\ Len(replies[m]) \in Nat
      BY FS_CardinalityType DEF TypeOK
    <3>2. QED
      BY <2>1, <3>1 DEF Paid
  <2>3. QED
    BY <1>2, <2>1, <2>2 DEF Pays, Cost
<1>3. QED
  BY <1>1, <1>2

\* No entry and no reply costs nothing.
LEMMA NothingPays ==
  ASSUME TypeOK, NEW m \in Message, IsFiniteSet(About(m, scheduled)),
         UNCHANGED <<scheduled, replies>>, NEW ms
  PROVE  Pays(m, ms)
<1>1. About(m, scheduled)' = About(m, scheduled)
  BY DEF About
<1>2. Cardinality(About(m, scheduled)) \in Nat /\ Len(replies[m]) \in Nat
  BY FS_CardinalityType DEF TypeOK
<1>3. Paid(m)' = Paid(m) /\ Paid(m) \in Nat
  BY <1>1, <1>2 DEF Paid
<1>4. QED
  BY <1>1, <1>3 DEF Pays, Cost

\* A postponement costs one entry, or nothing.
LEMMA DeferPays ==
  ASSUME TypeOK, NEW m \in Message, IsFiniteSet(About(m, scheduled)),
         NEW ms, NEW n, Defer(ms, n), UNCHANGED outcomeVars
  PROVE  Pays(m, ms)
<1>1. CASE n >= MaxRetries
  BY <1>1, NothingPays DEF Defer, outcomeVars
<1>2. CASE ~(n >= MaxRetries)
  <2>1. scheduled' = scheduled \union {Incoming(ms, n)} /\ UNCHANGED replies
    BY <1>2 DEF Defer, outcomeVars
  <2>2. Incoming(ms, n).msgs = ms
    BY DEF Incoming
  <2>3. Pays(m, Incoming(ms, n).msgs)
    BY <2>1, EntryPays
  <2>4. QED
    BY <2>2, <2>3
<1>3. QED
  BY <1>1, <1>2

\* A decision costs one reply, or one entry, or nothing.
LEMMA RunLockedPays ==
  ASSUME TypeOK, NEW m \in Message, IsFiniteSet(About(m, scheduled)),
         NEW ms \in Seq(Message) \ {<<>>}, RunLocked(ms)
  PROVE  Pays(m, ms)
<1>1. CASE PublishReply(ms)
  <2>1. ChatOf[ms[1]] \in Chat
    BY FirstOfEntry, MessageAssumption
  <2>2. About(m, scheduled)' = About(m, scheduled)
    BY <1>1 DEF PublishReply, About
  <2>3. replies'[m] = IF m \in Range(ms)
                      THEN Append(replies[m], ChatOf[ms[1]]) ELSE replies[m]
    BY <1>1 DEF PublishReply
  <2>4. replies[m] \in Seq(Chat)
    BY DEF TypeOK
  <2>5. Len(replies'[m]) = Len(replies[m]) + Cost(m, ms)
        /\ Len(replies[m]) \in Nat
    <3>1. CASE m \in Range(ms)
      <4>1. replies'[m] = Append(replies[m], ChatOf[ms[1]])
        BY <2>3, <3>1
      <4>2. Len(replies'[m]) = Len(replies[m]) + 1 /\ Len(replies[m]) \in Nat
        BY <2>1, <2>4, <4>1
      <4>3. QED
        BY <3>1, <4>2 DEF Cost
    <3>2. CASE m \notin Range(ms)
      <4>1. replies'[m] = replies[m] /\ Len(replies[m]) \in Nat
        BY <2>3, <2>4, <3>2
      <4>2. QED
        BY <3>2, <4>1 DEF Cost
    <3>3. QED
      BY <3>1, <3>2
  <2>6. Cardinality(About(m, scheduled)) \in Nat /\ Cost(m, ms) \in Nat
    BY FS_CardinalityType DEF Cost
  <2>7. Paid(m)' = Paid(m) + Cost(m, ms) /\ Paid(m) \in Nat
    BY <2>2, <2>5, <2>6 DEF Paid
  <2>8. QED
    BY <2>2, <2>6, <2>7 DEF Pays
<1>2. CASE ParkReply(ms)
  <2>1. PICK n \in Nat : scheduled' = scheduled \union {Outgoing(ms, n)}
    BY <1>2, ParkedAs
  <2>2. Outgoing(ms, n).msgs = ms /\ UNCHANGED replies
    BY <1>2 DEF Outgoing, ParkReply
  <2>3. Pays(m, Outgoing(ms, n).msgs)
    BY <2>1, <2>2, EntryPays
  <2>4. QED
    BY <2>2, <2>3
<1>3. CASE SkipReply(ms)
  BY <1>3, NothingPays DEF SkipReply
<1>4. QED
  BY <1>1, <1>2, <1>3 DEF RunLocked

\* A decision is covered by the chance it takes.
LEMMA PaidFor ==
  ASSUME TypeOK, TypeOK', NEW m \in Message, Covered(m), NEW ms, Pays(m, ms),
         IsFiniteSet(Trying(m)'), IsFiniteSet(About(m, due)'),
         Left(m)' + Cost(m, ms) <= Left(m), UNCHANGED deliveries
  PROVE  Covered(m)'
<1>1. FewTry(m)'
  BY DEF FewTry, Pays
<1>2. Paid(m)' \in Nat /\ Left(m)' \in Nat
  <2>1. /\ Cardinality(Trying(m)') \in Nat
        /\ Cardinality(About(m, due)') \in Nat
        /\ Cardinality(About(m, scheduled)') \in Nat
    BY FS_CardinalityType DEF Pays
  <2>2. Len(replies'[m]) \in Nat
    BY DEF TypeOK
  <2>3. InWork(m)' \in {0, 1}
    BY DEF InWork
  <2>4. QED
    BY <2>1, <2>2, <2>3 DEF Paid, Left
<1>3. Paid(m) \in Nat /\ Left(m) \in Nat /\ deliveries[m] \in Nat
  BY CoverTypes DEF Covered
<1>4. Paid(m) + Left(m) <= deliveries[m] /\ Paid(m)' <= Paid(m) + Cost(m, ms)
  BY DEF Covered, Pays
<1>5. Cost(m, ms) \in Nat
  BY DEF Cost
<1>6. Paid(m)' + Left(m)' <= deliveries'[m]
  BY <1>2, <1>3, <1>4, <1>5
<1>7. QED
  BY <1>1, <1>6 DEF Covered

\* A set with one element less.
LEMMA OneLess ==
  ASSUME NEW S, IsFiniteSet(S), NEW x, NEW c,
         x \in S => c = 1, x \notin S => c = 0
  PROVE  IsFiniteSet(S \ {x}) /\ Cardinality(S \ {x}) + c <= Cardinality(S)
<1>1. Cardinality(S) \in Nat
  BY FS_CardinalityType
<1>2. /\ IsFiniteSet(S \ {x})
      /\ Cardinality(S \ {x})
           = IF x \in S THEN Cardinality(S) - 1 ELSE Cardinality(S)
  BY FS_RemoveElement
<1>3. CASE x \in S
  BY <1>1, <1>2, <1>3
<1>4. CASE x \notin S
  BY <1>1, <1>2, <1>4
<1>5. QED
  BY <1>3, <1>4

\* A task that decides has no say any more.
LEMMA TaskDecides ==
  ASSUME TypeOK, NEW m \in Message, IsFiniteSet(Trying(m)), NEW t \in Task,
         task[t].phase \in {"debounce", "acquire", "locked"},
         task'[t].phase \notin {"debounce", "acquire", "locked"},
         \A r \in Task \ {t} : task'[r] = task[r]
  PROVE  /\ IsFiniteSet(Trying(m)')
         /\ Cardinality(Trying(m)') + Cost(m, Msgs(task[t].batch))
              <= Cardinality(Trying(m))
<1>1. Trying(m)' = Trying(m) \ {t}
  BY DEF Trying, InTask
<1>2. t \in Trying(m) <=> m \in Range(Msgs(task[t].batch))
  BY DEF Trying, InTask
<1>3. t \in Trying(m) => Cost(m, Msgs(task[t].batch)) = 1
  BY <1>2 DEF Cost
<1>4. t \notin Trying(m) => Cost(m, Msgs(task[t].batch)) = 0
  BY <1>2 DEF Cost
<1>5. /\ IsFiniteSet(Trying(m) \ {t})
      /\ Cardinality(Trying(m) \ {t}) + Cost(m, Msgs(task[t].batch))
           <= Cardinality(Trying(m))
  BY <1>3, <1>4, OneLess
<1>6. QED
  BY <1>1, <1>5

\* Neither has a popped entry the poller has picked.
LEMMA EntryPicked ==
  ASSUME NEW m \in Message, IsFiniteSet(About(m, due)), NEW e \in due,
         due' = due \ {e}
  PROVE  /\ IsFiniteSet(About(m, due)')
         /\ Cardinality(About(m, due)') + Cost(m, e.msgs)
              <= Cardinality(About(m, due))
<1>1. About(m, due)' = About(m, due) \ {e}
  BY DEF About
<1>2. e \in About(m, due) <=> m \in Range(e.msgs)
  BY DEF About
<1>3. e \in About(m, due) => Cost(m, e.msgs) = 1
  BY <1>2 DEF Cost
<1>4. e \notin About(m, due) => Cost(m, e.msgs) = 0
  BY <1>2 DEF Cost
<1>5. /\ IsFiniteSet(About(m, due) \ {e})
      /\ Cardinality(About(m, due) \ {e}) + Cost(m, e.msgs)
           <= Cardinality(About(m, due))
  BY <1>3, <1>4, OneLess
<1>6. QED
  BY <1>1, <1>5

\* A delivery gives the task it reaches one chance, and pays for it.
LEMMA OnMessageCovers ==
  ASSUME TypeOK, TypeOK', NEW m \in Message, Covered(m),
         NEW k \in Message, NEW t \in Task, OnMessage(k, t), BusyHasBatch
  PROVE  Covered(m)'
<1>1. /\ UNCHANGED <<scheduled, due, poller, replies>>
      /\ deliveries' = [deliveries EXCEPT ![k] = @ + 1]
      /\ \A r \in Task \ {t} : task'[r] = task[r]
      /\ task'[t].phase = "debounce"
      /\ task'[t].batch
           = Append(task[t].batch, [msg |-> k, tag |-> deliveries[k] + 1])
  BY DEF OnMessage, Delivers, outcomeVars, TypeOK
<1>2. InTask(t)' = InTask(t) \union {k}
  <2>1. /\ task[t].batch \in Seq(Delivery)
        /\ [msg |-> k, tag |-> deliveries[k] + 1] \in Delivery
    <3>1. deliveries[k] + 1 \in Nat
      BY DEF TypeOK
    <3>2. [msg |-> k, tag |-> deliveries[k] + 1] \in Delivery
      BY <3>1 DEF Delivery
    <3>3. QED
      BY <3>2 DEF TypeOK
  <2>2. QED
    BY <1>1, <2>1, MsgsOfAppend DEF InTask
<1>3. \A r \in Task \ {t} : r \in Trying(m)' <=> r \in Trying(m)
  BY <1>1 DEF Trying, InTask
<1>4. /\ About(m, scheduled)' = About(m, scheduled)
      /\ About(m, due)' = About(m, due) /\ InWork(m)' = InWork(m)
      /\ replies'[m] = replies[m]
  BY <1>1 DEF About, InWork
<1>5. CASE m # k
  <2>1. deliveries'[m] = deliveries[m]
    BY <1>1, <1>5 DEF TypeOK
  <2>2. m \in InTask(t)' => m \in InTask(t) /\ task[t].phase = "debounce"
    <3>1. m \in InTask(t)' => m \in InTask(t)
      BY <1>2, <1>5
    <3>2. task[t].phase \in {"debounce", "idle"}
      BY DEF OnMessage, Buffering
    <3>3. task[t].phase = "idle" => InTask(t) = {}
      <4>1. task[t].batch \in Seq(Delivery)
        BY DEF TypeOK
      <4>2. InTask(t) = {task[t].batch[i].msg : i \in 1 .. Len(task[t].batch)}
        BY <4>1, MsgsOfBatch DEF InTask
      <4>3. task[t].phase = "idle" => Len(task[t].batch) = 0
        BY DEF BusyHasBatch
      <4>4. QED
        BY <4>2, <4>3
    <3>4. QED
      BY <3>1, <3>2, <3>3
  <2>3. t \in Trying(m)' => t \in Trying(m)
    BY <2>2 DEF Trying
  <2>4. Trying(m)' \subseteq Trying(m)
    BY <1>3, <2>3 DEF Trying
  <2>5. deliveries'[m] >= deliveries[m]
    BY <2>1 DEF TypeOK
  <2>6. QED
    BY <1>4, <2>4, <2>5, CoverStays
<1>6. CASE m = k
  <2>1. deliveries'[m] = deliveries[m] + 1 /\ deliveries[m] \in Nat
    BY <1>1, <1>6 DEF TypeOK
  <2>2. Trying(m)' \subseteq Trying(m) \union {t}
    BY <1>3 DEF Trying
  <2>3. FewTry(m)
    BY DEF Covered
  <2>4. /\ IsFiniteSet(Trying(m) \union {t})
        /\ Cardinality(Trying(m) \union {t}) <= Cardinality(Trying(m)) + 1
    BY <2>3, OneMore DEF FewTry
  <2>5. /\ IsFiniteSet(Trying(m)')
        /\ Cardinality(Trying(m)') <= Cardinality(Trying(m) \union {t})
    BY <2>2, <2>4, FS_Subset
  <2>6. FewTry(m)'
    BY <1>4, <2>3, <2>5 DEF FewTry
  <2>7. /\ Cardinality(Trying(m)') \in Nat /\ Cardinality(Trying(m)) \in Nat
        /\ Cardinality(Trying(m) \union {t}) \in Nat
    BY <2>3, <2>4, <2>5, FS_CardinalityType DEF FewTry
  <2>8. Cardinality(Trying(m)') <= Cardinality(Trying(m)) + 1
    BY <2>4, <2>5, <2>7
  <2>9. Paid(m)' = Paid(m) /\ Paid(m) \in Nat /\ Left(m) \in Nat
    BY <1>4, <2>3, CoverTypes DEF Paid
  <2>10. Left(m)' <= Left(m) + 1 /\ Left(m)' \in Nat
    <3>1. /\ Cardinality(About(m, due)) \in Nat /\ InWork(m) \in {0, 1}
      BY <2>3, CoverTypes
    <3>2. Left(m)' = Cardinality(Trying(m)') + Cardinality(About(m, due))
                       + InWork(m)
      BY <1>4 DEF Left
    <3>3. QED
      BY <2>7, <2>8, <3>1, <3>2 DEF Left
  <2>11. Paid(m) + Left(m) <= deliveries[m]
    BY DEF Covered
  <2>12. Paid(m)' + Left(m)' <= deliveries'[m]
    BY <2>1, <2>9, <2>10, <2>11
  <2>13. QED
    BY <2>6, <2>12 DEF Covered
<1>7. QED
  BY <1>5, <1>6

\* The steps of a task that decide on its batch.
LEMMA DecidingTaskStepCovers ==
  ASSUME TypeOK, TypeOK', BusyHasBatch, NEW m \in Message, Covered(m),
         NEW t \in Task, DeferBusy(t) \/ DeferUnknowing(t) \/ Answer(t)
  PROVE  Covered(m)'
<1>1. PICK ms : ms = Msgs(task[t].batch)
  OBVIOUS
<1>2. /\ task[t].phase \in {"acquire", "locked"}
      /\ task'[t].phase \in {"acking", "nacking", "answered"}
      /\ \A r \in Task \ {t} : task'[r] = task[r]
      /\ UNCHANGED <<due, poller, deliveries>>
  BY DEF DeferBusy, DeferUnknowing, Answer, InPhase, brokerVars, TypeOK
<1>3. FewTry(m)
  BY DEF Covered
<1>4. Pays(m, ms)
  <2>1. ms \in Seq(Message) \ {<<>>}
    BY <1>1, <1>2, TaskTyped
  <2>2. CASE Answer(t)
    BY <1>1, <1>3, <2>1, <2>2, RunLockedPays DEF Answer, FewTry
  <2>3. CASE DeferBusy(t) \/ DeferUnknowing(t)
    <3>1. Defer(ms, 0) /\ UNCHANGED outcomeVars
      BY <1>1, <2>3 DEF DeferBusy, DeferUnknowing
    <3>2. QED
      BY <1>3, <3>1, DeferPays DEF FewTry
  <2>4. QED
    BY <2>2, <2>3
<1>5. /\ IsFiniteSet(Trying(m)')
      /\ Cardinality(Trying(m)') + Cost(m, ms) <= Cardinality(Trying(m))
  BY <1>1, <1>2, <1>3, TaskDecides DEF FewTry
<1>6. About(m, due)' = About(m, due) /\ InWork(m)' = InWork(m)
  BY <1>2 DEF About, InWork
<1>7. Left(m)' + Cost(m, ms) <= Left(m)
  <2>1. /\ Cardinality(Trying(m)') \in Nat /\ Cardinality(Trying(m)) \in Nat
        /\ Cardinality(About(m, due)) \in Nat /\ InWork(m) \in {0, 1}
        /\ Cost(m, ms) \in {0, 1}
    BY <1>3, <1>5, CoverTypes, FS_CardinalityType DEF Cost
  <2>2. Left(m)' = Cardinality(Trying(m)') + Cardinality(About(m, due))
                     + InWork(m)
    BY <1>6 DEF Left
  <2>3. QED
    BY <1>5, <2>1, <2>2 DEF Left
<1>8. IsFiniteSet(About(m, due)')
  BY <1>3, <1>6 DEF FewTry
<1>9. QED
  BY <1>2, <1>4, <1>5, <1>7, <1>8, PaidFor

\* The steps of the poller that decide on an entry it has picked.
LEMMA DecidingPollerStepCovers ==
  ASSUME TypeOK, TypeOK', EntriesNonEmpty, NEW m \in Message, Covered(m),
         NEW e \in due, PollerDelivers(e) \/ PollerDefers(e)
  PROVE  Covered(m)'
<1>1. due' = due \ {e} /\ UNCHANGED <<task, poller, deliveries>>
  BY DEF PollerDelivers, PollerDefers, Picks, brokerVars
<1>2. FewTry(m)
  BY DEF Covered
<1>3. PICK ms : ms = e.msgs
  OBVIOUS
<1>4. Pays(m, ms)
  <2>1. ms \in Seq(Message) \ {<<>>}
    BY <1>3, EntryTyped DEF TypeOK, EntriesNonEmpty
  <2>2. CASE PollerDelivers(e)
    <3>1. RunLocked(ms)
      BY <1>3, <2>2 DEF PollerDelivers, RunLocked
    <3>2. QED
      BY <1>2, <2>1, <3>1, RunLockedPays DEF FewTry
  <2>3. CASE PollerDefers(e)
    <3>1. Defer(ms, e.retry + 1) /\ UNCHANGED outcomeVars
      BY <1>3, <2>3 DEF PollerDefers
    <3>2. QED
      BY <1>2, <3>1, DeferPays DEF FewTry
  <2>4. QED
    BY <2>2, <2>3
<1>5. /\ IsFiniteSet(About(m, due)')
      /\ Cardinality(About(m, due)') + Cost(m, ms) <= Cardinality(About(m, due))
  BY <1>1, <1>2, <1>3, EntryPicked DEF FewTry
<1>6. Trying(m)' = Trying(m) /\ InWork(m)' = InWork(m)
  BY <1>1 DEF Trying, InTask, InWork
<1>7. Left(m)' + Cost(m, ms) <= Left(m)
  <2>1. /\ Cardinality(About(m, due)') \in Nat /\ InWork(m) \in {0, 1}
        /\ Cardinality(About(m, due)) \in Nat /\ Cost(m, ms) \in {0, 1}
        /\ Cardinality(Trying(m)) \in Nat
    BY <1>2, <1>5, CoverTypes, FS_CardinalityType DEF Cost
  <2>2. Left(m)' = Cardinality(Trying(m)) + Cardinality(About(m, due)')
                     + InWork(m)
    BY <1>6 DEF Left
  <2>3. QED
    BY <1>5, <2>1, <2>2 DEF Left
<1>8. IsFiniteSet(Trying(m)')
  BY <1>2, <1>6 DEF FewTry
<1>9. QED
  BY <1>1, <1>4, <1>5, <1>7, <1>8, PaidFor

\* The poller answers the entry it is working on.
LEMMA PollerAnswersCovers ==
  ASSUME TypeOK, TypeOK', EntriesNonEmpty, NEW m \in Message, Covered(m),
         PollerAnswers
  PROVE  Covered(m)'
<1>1. /\ poller.phase = "locked" /\ poller'.phase = "answered"
      /\ UNCHANGED <<task, due, deliveries>>
  BY DEF PollerAnswers, brokerVars, TypeOK
<1>2. FewTry(m)
  BY DEF Covered
<1>3. PICK ms : ms = poller.env.msgs
  OBVIOUS
<1>4. Pays(m, ms)
  <2>1. ms \in Seq(Message) \ {<<>>}
    BY <1>1, <1>3, EntryTyped DEF TypeOK, EntriesNonEmpty
  <2>2. RunLocked(ms)
    BY <1>3 DEF PollerAnswers
  <2>3. QED
    BY <1>2, <2>1, <2>2, RunLockedPays DEF FewTry
<1>5. Trying(m)' = Trying(m) /\ About(m, due)' = About(m, due)
  BY <1>1 DEF Trying, InTask, About
<1>6. InWork(m)' = 0 /\ InWork(m) = Cost(m, ms)
  BY <1>1, <1>3 DEF InWork, Cost
<1>7. Left(m)' + Cost(m, ms) <= Left(m)
  <2>1. /\ Cardinality(About(m, due)) \in Nat /\ Cost(m, ms) \in {0, 1}
        /\ Cardinality(Trying(m)) \in Nat
    BY <1>2, CoverTypes DEF Cost
  <2>2. Left(m)' = Cardinality(Trying(m)) + Cardinality(About(m, due))
    BY <1>5, <1>6, <2>1 DEF Left
  <2>3. QED
    BY <1>6, <2>1, <2>2 DEF Left
<1>8. IsFiniteSet(Trying(m)') /\ IsFiniteSet(About(m, due)')
  BY <1>2, <1>5 DEF FewTry
<1>9. QED
  BY <1>1, <1>4, <1>7, <1>8, PaidFor

\* The poller takes what it pops out of the ZSet.
LEMMA PopDueCovers ==
  ASSUME TypeOK, TypeOK', NEW m \in Message, Covered(m),
         NEW S \in SUBSET scheduled, PopDue(S)
  PROVE  Covered(m)'
<1> DEFINE A == About(m, scheduled)
           B == About(m, S)
<1>1. /\ scheduled' = scheduled \ S /\ due' = S
      /\ poller.phase = "sleep" /\ poller'.phase = "work"
      /\ UNCHANGED <<task, deliveries, replies>>
  BY DEF PopDue, brokerVars, outcomeVars, TypeOK
<1>2. FewTry(m)
  BY DEF Covered
<1>3. About(m, scheduled)' = A \ B /\ About(m, due)' = B /\ B \subseteq A
  BY <1>1 DEF About
<1>4. Trying(m)' = Trying(m) /\ InWork(m)' = 0
  BY <1>1 DEF Trying, InTask, InWork
<1>5. IsFiniteSet(A)
  BY <1>2 DEF FewTry
<1> HIDE DEF A, B
<1>6. IsFiniteSet(B) /\ IsFiniteSet(A \ B)
  BY <1>3, <1>5, FS_Subset
<1>7. Cardinality(A \ B) = Cardinality(A) - Cardinality(B)
  <2>1. A \cap B = B
    BY <1>3
  <2>2. QED
    BY <1>5, <2>1, FS_Difference
<1>8. /\ Cardinality(A) \in Nat /\ Cardinality(B) \in Nat
      /\ Cardinality(A \ B) \in Nat
  BY <1>5, <1>6, FS_CardinalityType
<1>9. /\ Len(replies[m]) \in Nat /\ Cardinality(Trying(m)) \in Nat
      /\ Cardinality(About(m, due)) \in Nat /\ InWork(m) \in {0, 1}
      /\ deliveries[m] \in Nat
  BY <1>2, CoverTypes
<1>10. Len(replies[m]) + Cardinality(A)
         + (Cardinality(Trying(m)) + Cardinality(About(m, due)) + InWork(m))
         <= deliveries[m]
  BY DEF Covered, Paid, Left, A
<1>11. Paid(m)' = Len(replies[m]) + (Cardinality(A) - Cardinality(B))
  BY <1>1, <1>3, <1>7 DEF Paid
<1>12. Left(m)' = Cardinality(Trying(m)) + Cardinality(B)
  BY <1>3, <1>4, <1>8, <1>9 DEF Left
<1>13. Paid(m)' + Left(m)' <= deliveries'[m]
  <2>1. deliveries'[m] = deliveries[m]
    BY <1>1
  <2>2. Paid(m)' + Left(m)'
          = Len(replies[m]) + Cardinality(A) + Cardinality(Trying(m))
    BY <1>8, <1>9, <1>11, <1>12
  <2>3. Len(replies[m]) + Cardinality(A) + Cardinality(Trying(m))
          <= deliveries[m]
    BY <1>8, <1>9, <1>10
  <2>4. QED
    BY <2>1, <2>2, <2>3
<1>14. FewTry(m)'
  BY <1>2, <1>3, <1>4, <1>6 DEF FewTry
<1>15. QED
  BY <1>13, <1>14 DEF Covered

\* The entry the poller takes the lock for moves from due into its hands.
LEMMA PollerAcquiresCovers ==
  ASSUME TypeOK, TypeOK', NEW m \in Message, Covered(m),
         NEW e \in due, PollerAcquires(e)
  PROVE  Covered(m)'
<1>1. /\ due' = due \ {e} /\ poller.phase = "work"
      /\ poller' = [phase |-> "locked", env |-> e]
      /\ UNCHANGED <<task, deliveries, replies, scheduled>>
  BY DEF PollerAcquires, Picks, brokerVars, outcomeVars
<1>2. FewTry(m)
  BY DEF Covered
<1>3. /\ Trying(m)' = Trying(m) /\ About(m, scheduled)' = About(m, scheduled)
      /\ InWork(m) = 0 /\ InWork(m)' = Cost(m, e.msgs)
  BY <1>1 DEF Trying, InTask, About, InWork, Cost
<1>4. /\ IsFiniteSet(About(m, due)')
      /\ Cardinality(About(m, due)') + Cost(m, e.msgs)
           <= Cardinality(About(m, due))
  BY <1>1, <1>2, EntryPicked DEF FewTry
<1>5. FewTry(m)'
  BY <1>2, <1>3, <1>4 DEF FewTry
<1>6. /\ Cardinality(About(m, due)') \in Nat /\ Cardinality(Trying(m)) \in Nat
      /\ Cardinality(About(m, due)) \in Nat /\ Cost(m, e.msgs) \in {0, 1}
      /\ Paid(m) \in Nat /\ deliveries[m] \in Nat /\ Left(m) \in Nat
  BY <1>2, <1>4, CoverTypes, FS_CardinalityType DEF Cost
<1>7. Paid(m)' = Paid(m)
  BY <1>1, <1>3 DEF Paid
<1>8. Left(m)' = Cardinality(Trying(m)) + Cardinality(About(m, due)')
                   + Cost(m, e.msgs)
  BY <1>3 DEF Left
<1>9. Left(m) = Cardinality(Trying(m)) + Cardinality(About(m, due))
  BY <1>3, <1>6 DEF Left
<1>10. Paid(m) + Left(m) <= deliveries[m]
  BY DEF Covered
<1>11. Paid(m)' + Left(m)' <= deliveries'[m]
  BY <1>1, <1>4, <1>6, <1>7, <1>8, <1>9, <1>10
<1>12. QED
  BY <1>5, <1>11 DEF Covered

\* No other step gives a message a chance.
LEMMA OtherStepCovers ==
  ASSUME TypeOK, TypeOK', NEW m \in Message, Covered(m),
         UNCHANGED replies, deliveries'[m] >= deliveries[m],
         scheduled' \subseteq scheduled, due' \subseteq due,
         poller' = poller \/ poller'.phase # "locked",
         \A t \in Task :
           \/ task'[t].phase \notin {"debounce", "acquire", "locked"}
           \/ /\ task[t].phase \in {"debounce", "acquire", "locked"}
              /\ task'[t].batch = task[t].batch
  PROVE  Covered(m)'
<1>1. Trying(m)' \subseteq Trying(m)
  BY DEF Trying, InTask
<1>2. /\ About(m, scheduled)' \subseteq About(m, scheduled)
      /\ About(m, due)' \subseteq About(m, due)
  BY DEF About
<1>3. InWork(m)' = 0 \/ InWork(m)' = InWork(m)
  BY DEF InWork
<1>4. QED
  BY <1>1, <1>2, <1>3, CoverStays

\* Every step keeps the replies covered.
LEMMA NextCovers ==
  ASSUME PipelineInv, PipelineInv', NEW m \in Message, Covered(m), [Next]_vars
  PROVE  Covered(m)'
<1>1. TypeOK /\ TypeOK' /\ BusyHasBatch /\ EntriesNonEmpty
  BY DEF PipelineInv
<1>2. ASSUME NEW k \in Message, Accept(k) \/ OnMalformed(k)
      PROVE  Covered(m)'
  <2>1. deliveries'[m] >= deliveries[m]
    <3>1. deliveries' = deliveries
          \/ deliveries' = [deliveries EXCEPT ![k] = deliveries[k] + 1]
      BY <1>2 DEF Accept, OnMalformed, Delivers
    <3>2. deliveries[m] \in Nat /\ deliveries \in [Message -> Nat]
      BY <1>1 DEF TypeOK
    <3>3. deliveries'[m] = deliveries[m] \/ deliveries'[m] = deliveries[m] + 1
      BY <3>1, <3>2
    <3>4. QED
      BY <3>2, <3>3
  <2>2. UNCHANGED <<task, poller, due, scheduled, replies>>
    BY <1>2 DEF Accept, OnMalformed, processVars, outcomeVars
  <2>3. QED
    BY <1>1, <2>1, <2>2, OtherStepCovers
<1>3. ASSUME NEW t \in Task,
             \/ DebounceFires(t) \/ AcquireLock(t) \/ ReleaseLock(t)
             \/ AckNext(t) \/ NackNext(t) \/ BatchFails(t)
      PROVE  Covered(m)'
  <2>1. \A r \in Task \ {t} : task'[r] = task[r]
    BY <1>1, <1>3 DEF DebounceFires, AcquireLock, ReleaseLock, AckNext,
       NackNext, BatchFails, InPhase, Settles, TypeOK
  <2>2. \/ task'[t].phase \notin {"debounce", "acquire", "locked"}
        \/ /\ task[t].phase \in {"debounce", "acquire", "locked"}
           /\ task'[t].batch = task[t].batch
    <3>1. CASE AckNext(t) \/ NackNext(t)
      <4>1. /\ task'[t] = Rest(t) \/ task'[t] = Idle
            /\ task[t].phase \in {"acking", "nacking"}
        BY <1>1, <3>1 DEF AckNext, NackNext, Settles, TypeOK
      <4>2. Rest(t) = Idle \/ Rest(t).phase = task[t].phase
        BY <1>1 DEF Rest, TypeOK
      <4>3. QED
        BY <4>1, <4>2 DEF Idle
    <3>2. CASE DebounceFires(t) \/ AcquireLock(t)
      BY <1>1, <3>2 DEF DebounceFires, AcquireLock, InPhase, TypeOK
    <3>3. CASE ReleaseLock(t) \/ BatchFails(t)
      BY <1>1, <3>3 DEF ReleaseLock, BatchFails, InPhase, TypeOK
    <3>4. QED
      BY <1>3, <3>1, <3>2, <3>3
  <2>3. UNCHANGED <<deliveries, poller, due, scheduled, replies>>
    BY <1>3 DEF DebounceFires, AcquireLock, ReleaseLock, AckNext, NackNext,
       BatchFails, InPhase, brokerVars, outcomeVars
  <2>4. \A r \in Task :
          \/ task'[r].phase \notin {"debounce", "acquire", "locked"}
          \/ /\ task[r].phase \in {"debounce", "acquire", "locked"}
             /\ task'[r].batch = task[r].batch
    BY <2>1, <2>2
  <2>5. deliveries'[m] >= deliveries[m]
    BY <1>1, <2>3 DEF TypeOK
  <2>6. QED
    BY <1>1, <2>3, <2>4, <2>5, OtherStepCovers
<1>4. ASSUME \/ \E S \in SUBSET scheduled : PopFails(S)
             \/ \E e \in due : PollerDrops(e)
             \/ PollerReleases \/ PollerSleeps \/ PollerFails
      PROVE  Covered(m)'
  <2>1. /\ UNCHANGED <<deliveries, task, replies>>
        /\ scheduled' \subseteq scheduled /\ due' \subseteq due
    BY <1>4 DEF PopFails, PollerDrops, PollerReleases, PollerSleeps,
       PollerFails, Picks, brokerVars, outcomeVars
  <2>2. poller' = poller \/ poller'.phase # "locked"
    <3>1. CASE \E S \in SUBSET scheduled : PopFails(S)
      BY <1>1, <3>1 DEF PopFails, TypeOK
    <3>2. CASE \E e \in due : PollerDrops(e)
      BY <3>2 DEF PollerDrops
    <3>3. CASE PollerReleases \/ PollerSleeps \/ PollerFails
      BY <3>3 DEF PollerReleases, PollerSleeps, PollerFails, BackToWork, Asleep
    <3>4. QED
      BY <1>4, <3>1, <3>2, <3>3
  <2>3. deliveries'[m] >= deliveries[m]
    BY <1>1, <2>1 DEF TypeOK
  <2>4. QED
    BY <1>1, <2>1, <2>2, <2>3, OtherStepCovers
<1>5. ASSUME \/ \E u \in User : \/ SleeperAcquires(u) \/ SleeperReleases(u)
                                \/ OrphanExpires(u) \/ HolderOutlivesLock(u)
             \/ Reconnect \/ UNCHANGED vars
      PROVE  Covered(m)'
  <2>1. UNCHANGED <<deliveries, task, poller, due, scheduled, replies>>
    BY <1>5 DEF SleeperAcquires, SleeperReleases, OrphanExpires,
       HolderOutlivesLock, onlyLock, Reconnect, vars, processVars, brokerVars,
       outcomeVars
  <2>2. deliveries'[m] >= deliveries[m]
    BY <1>1, <2>1 DEF TypeOK
  <2>3. QED
    BY <1>1, <2>1, <2>2, OtherStepCovers
<1>6. ASSUME Crash \/ Stop \/ Restart \/ \E t \in Task : FlushIgnored(t)
      PROVE  Covered(m)'
  <2>1. /\ UNCHANGED <<deliveries, scheduled, replies>>
        /\ due' \subseteq due
        /\ poller' = poller \/ poller' = Asleep
        /\ \A t \in Task : task'[t] = Idle \/ task'[t] = task[t]
    BY <1>1, <1>6 DEF Crash, Stop, Restart, NewProcess, FlushIgnored,
       brokerVars, outcomeVars, TypeOK
  <2>2. deliveries'[m] >= deliveries[m]
    BY <1>1, <2>1 DEF TypeOK
  <2>3. \A t \in Task :
          \/ task'[t].phase \notin {"debounce", "acquire", "locked"}
          \/ /\ task[t].phase \in {"debounce", "acquire", "locked"}
             /\ task'[t].batch = task[t].batch
    BY <2>1 DEF Idle
  <2>4. poller' = poller \/ poller'.phase # "locked"
    BY <2>1 DEF Asleep
  <2>5. QED
    BY <1>1, <2>1, <2>2, <2>3, <2>4, OtherStepCovers
<1>7. CASE Consume
  BY <1>1, <1>2, <1>7, OnMessageCovers DEF Consume
<1>8. ASSUME NEW t \in Task, TaskStep(t)
      PROVE  Covered(m)'
  BY <1>1, <1>3, <1>6, <1>8, DecidingTaskStepCovers DEF TaskStep
<1>9. CASE PollerStep
  BY <1>1, <1>4, <1>9, DecidingPollerStepCovers, PollerAcquiresCovers,
     PollerAnswersCovers DEF PollerStep
<1>10. CASE FaultStep
  BY <1>1, <1>3, <1>4, <1>5, <1>6, <1>10, DecidingTaskStepCovers DEF FaultStep
<1>11. QED
  BY <1>1, <1>2, <1>5, <1>6, <1>7, <1>8, <1>9, <1>10, PopDueCovers DEF Next

\* Whatever crashes, is stopped, fails, or loses its connection or its lock:
\* a message has at most one reply for each of its deliveries.
THEOREM NoReplyTwice == Spec => []RepliesWithinDeliveries
<1> DEFINE AllCovered == \A m \in Message : Covered(m)
<1>1. Init => AllCovered
  <2> SUFFICES ASSUME Init, NEW m \in Message PROVE Covered(m)
    OBVIOUS
  <2>1. Trying(m) = {} /\ About(m, scheduled) = {} /\ About(m, due) = {}
    BY DEF Init, Idle, Trying, About
  <2>2. InWork(m) = 0 /\ Len(replies[m]) = 0 /\ deliveries[m] = 0
    BY DEF Init, Asleep, InWork
  <2>3. QED
    BY <2>1, <2>2, FS_EmptySet DEF Covered, FewTry, Paid, Left
<1>2. PipelineInv /\ PipelineInv' /\ AllCovered /\ [Next]_vars => AllCovered'
  BY NextCovers
<1>3. PipelineInv /\ AllCovered => RepliesWithinDeliveries
  <2> SUFFICES ASSUME PipelineInv, NEW m \in Message, Covered(m)
               PROVE  Len(replies[m]) <= deliveries[m]
    BY DEF RepliesWithinDeliveries
  <2>1. TypeOK /\ FewTry(m) /\ Paid(m) + Left(m) <= deliveries[m]
    BY DEF PipelineInv, Covered
  <2>2. /\ Len(replies[m]) \in Nat /\ Cardinality(About(m, scheduled)) \in Nat
        /\ Left(m) \in Nat /\ deliveries[m] \in Nat
    BY <2>1, CoverTypes
  <2>3. QED
    BY <2>1, <2>2 DEF Paid
<1> HIDE DEF AllCovered
<1>4. QED
  BY <1>1, <1>2, <1>3, Invariance, PTL DEF Spec
=============================================================================
