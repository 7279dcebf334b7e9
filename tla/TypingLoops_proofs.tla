------------------------- MODULE TypingLoops_proofs -------------------------
(* TLAPS proofs about TypingLoops, for any turns, chats and limits.        *)
EXTENDS TypingLoops, FiniteSetTheorems, TLAPS

-----------------------------------------------------------------------------
(* The invariant                                                           *)

Queued == {typing[i] : i \in 1 .. Len(typing)}
Held   == {h.event : h \in inHand}

\* The events that were published and not acknowledged.
UnderWay == Queued \union Held

StopOf(t) == [turn |-> t, action |-> "stop"]

Silent == OtherChannel \union Unreachable

Types ==
  /\ turn \in [Turn -> TurnPhases]
  /\ typing \in Seq(Event)
  /\ inHand \subseteq InHand /\ IsFiniteSet(inHand)
  /\ loop \in [Chat -> {"off", "running", "broken"}]
  /\ started \subseteq Turn
  /\ stopped \subseteq Turn
  /\ misled \subseteq Chat

\* Events come from turns, loops from events that were handled, and an event
\* of another channel is never kept in hand.
EventsOfTurns ==
  /\ \A e \in Held : e.turn \notin OtherChannel
  /\ \A e \in UnderWay : turn[e.turn] # "idle"
  /\ \A t \in started : turn[t] # "idle" /\ t \notin Silent

\* When a turn is over its stop event is handled, given up or under way.
StopsUnderWay ==
  \A t \in Turn \ Silent :
    turn[t] = "done" => t \in stopped \/ StopOf(t) \in UnderWay

\* A loop that runs belongs to a turn whose stop event is not handled.
LoopsOfTurns ==
  \A c \in Chat \ misled :
    loop[c] = "running" => \E t \in started \ stopped : ChatOf[t] = c

IInv ==
  /\ Types
  /\ EventsOfTurns
  /\ StopsUnderWay
  /\ LoopsOfTurns
  /\ ShownWhileTyping

\* At the start nothing goes on.
LEMMA InitIInv == Init => IInv
<1> SUFFICES ASSUME Init PROVE IInv
  OBVIOUS
<1> USE DEF Init
<1>1. Types
  BY FS_EmptySet DEF Types, TurnPhases
<1>2. UnderWay = {}
  BY DEF UnderWay, Queued, Held
<1>3. EventsOfTurns /\ StopsUnderWay /\ LoopsOfTurns /\ ShownWhileTyping
  BY <1>2 DEF UnderWay, EventsOfTurns, StopsUnderWay, LoopsOfTurns, ShownWhileTyping
<1>4. QED
  BY <1>1, <1>3 DEF IInv

-----------------------------------------------------------------------------
(* Queues                                                                  *)

\* What an event published at the end of the queue adds.
LEMMA Appended ==
  ASSUME NEW s \in Seq(Event), NEW e \in Event
  PROVE  /\ Append(s, e) \in Seq(Event)
         /\ {Append(s, e)[i] : i \in 1 .. Len(Append(s, e))}
              = {s[i] : i \in 1 .. Len(s)} \union {e}
<1> DEFINE a == Append(s, e)
<1>1. /\ a \in Seq(Event) /\ Len(s) \in Nat /\ Len(a) = Len(s) + 1
      /\ a[Len(s) + 1] = e
      /\ \A i \in 1 .. Len(s) : a[i] = s[i]
  OBVIOUS
<1> HIDE DEF a
<1>2. ASSUME NEW x
      PROVE  (\E i \in 1 .. Len(a) : a[i] = x)
               <=> (\E i \in 1 .. Len(s) : s[i] = x) \/ x = e
  BY <1>1
<1>3. QED
  BY <1>1, <1>2 DEF a

\* What is left of the queue when its head is taken.
LEMMA HeadTaken ==
  ASSUME NEW s \in Seq(Event), s # <<>>
  PROVE  /\ Tail(s) \in Seq(Event) /\ Head(s) \in Event
         /\ {s[i] : i \in 1 .. Len(s)}
              = {Tail(s)[i] : i \in 1 .. Len(Tail(s))} \union {Head(s)}
<1> DEFINE r == Tail(s)
<1>1. /\ r \in Seq(Event) /\ Head(s) \in Event /\ Head(s) = s[1]
      /\ Len(s) \in Nat /\ Len(s) > 0 /\ Len(r) = Len(s) - 1
      /\ \A i \in 1 .. Len(r) : r[i] = s[i + 1]
  OBVIOUS
<1> HIDE DEF r
<1>2. ASSUME NEW x
      PROVE  (\E i \in 1 .. Len(s) : s[i] = x)
               <=> (\E i \in 1 .. Len(r) : r[i] = x) \/ x = Head(s)
  <2>1. ASSUME NEW i \in 1 .. Len(s), s[i] = x, i # 1
        PROVE  \E k \in 1 .. Len(r) : r[k] = x
    <3>1. i - 1 \in 1 .. Len(r) /\ (i - 1) + 1 = i
      BY <1>1, <2>1
    <3>2. r[i - 1] = x
      BY <1>1, <2>1, <3>1
    <3>3. QED
      BY <3>1, <3>2
  <2>2. ASSUME NEW i \in 1 .. Len(r), r[i] = x
        PROVE  \E k \in 1 .. Len(s) : s[k] = x
    <3>1. i + 1 \in 1 .. Len(s)
      BY <1>1
    <3>2. QED
      BY <1>1, <2>2, <3>1
  <2>3. 1 \in 1 .. Len(s)
    BY <1>1
  <2>4. QED
    BY <1>1, <2>1, <2>2, <2>3
<1>3. QED
  BY <1>1, <1>2 DEF r

\* An order of a finite set has every element of it.
LEMMA OrderHasAll ==
  ASSUME NEW S, IsFiniteSet(S), NEW s \in Orders(S)
  PROVE  s \in Seq(S) /\ {s[i] : i \in 1 .. Len(s)} = S
<1> DEFINE n == Cardinality(S)
<1>1. n \in Nat
  BY FS_CardinalityType
<1>2. s \in Injection(1 .. n, S)
  BY DEF Orders, Injection, IsInjective
<1>3. s \in [1 .. n -> S] /\ s \in Seq(S) /\ Len(s) = n
  BY <1>1 DEF Orders
<1>4. Cardinality(1 .. n) = n
  BY <1>1, FS_Interval
<1>5. s \in Surjection(1 .. n, S)
  BY <1>2, <1>4, FS_Injection
<1>6. QED
  BY <1>3, <1>5 DEF Surjection

\* What is put back before the queue is in it.
LEMMA PutBack ==
  ASSUME NEW s \in Seq(Event), NEW r \in Seq(Event)
  PROVE  /\ s \o r \in Seq(Event)
         /\ {(s \o r)[i] : i \in 1 .. Len(s \o r)}
              = {s[i] : i \in 1 .. Len(s)} \union {r[i] : i \in 1 .. Len(r)}
<1> DEFINE q == s \o r
<1>1. /\ q \in Seq(Event) /\ Len(s) \in Nat /\ Len(r) \in Nat
      /\ Len(q) = Len(s) + Len(r)
      /\ \A i \in 1 .. Len(s) : q[i] = s[i]
      /\ \A i \in Len(s) + 1 .. Len(s) + Len(r) : q[i] = r[i - Len(s)]
  OBVIOUS
<1> HIDE DEF q
<1>2. ASSUME NEW i \in 1 .. Len(q)
      PROVE  q[i] \in {s[k] : k \in 1 .. Len(s)} \union {r[k] : k \in 1 .. Len(r)}
  <2>1. CASE i <= Len(s)
    <3>1. i \in 1 .. Len(s)
      BY <1>1, <2>1
    <3>2. QED
      BY <1>1, <3>1
  <2>2. CASE i > Len(s)
    <3>1. i \in Len(s) + 1 .. Len(s) + Len(r) /\ i - Len(s) \in 1 .. Len(r)
      BY <1>1, <2>2
    <3>2. QED
      BY <1>1, <3>1
  <2>3. QED
    BY <1>1, <2>1, <2>2
<1>3. ASSUME NEW i \in 1 .. Len(s)
      PROVE  s[i] \in {q[k] : k \in 1 .. Len(q)}
  <2>1. i \in 1 .. Len(q)
    BY <1>1
  <2>2. QED
    BY <1>1, <2>1
<1>4. ASSUME NEW i \in 1 .. Len(r)
      PROVE  r[i] \in {q[k] : k \in 1 .. Len(q)}
  <2>1. /\ i + Len(s) \in 1 .. Len(q)
        /\ i + Len(s) \in Len(s) + 1 .. Len(s) + Len(r)
        /\ (i + Len(s)) - Len(s) = i
    BY <1>1
  <2>2. q[i + Len(s)] = r[i]
    BY <1>1, <2>1
  <2>3. QED
    BY <2>1, <2>2
<1>5. QED
  BY <1>1, <1>2, <1>3, <1>4 DEF q

-----------------------------------------------------------------------------
(* The events                                                              *)

\* What is under way are events, of turns of a chat.
LEMMA EventsTyped ==
  ASSUME Types
  PROVE  /\ UnderWay \subseteq Event
         /\ \A e \in Event : e.turn \in Turn /\ e.action \in {"start", "stop"}
                             /\ ChatOf[e.turn] \in Chat
         /\ \A e \in Event : e.action = "stop" => e = StopOf(e.turn)
<1>1. Queued \subseteq Event
  BY DEF Types, Queued
<1>2. Held \subseteq Event
  BY DEF Types, Held, InHand
<1>3. QED
  BY <1>1, <1>2, TypingAssumption DEF UnderWay, Event, StopOf

\* An event of a turn that is not silent is handled; then it may be
\* acknowledged, or its callback raises and it stays.
LEMMA HandleKeeps ==
  ASSUME IInv, NEW e \in UnderWay, e.turn \notin Silent, Handle(e),
         turn' = turn, UnderWay' \subseteq UnderWay,
         UnderWay \ {e} \subseteq UnderWay',
         \A d \in Held' : d.turn \notin OtherChannel,
         typing' \in Seq(Event), inHand' \subseteq InHand, IsFiniteSet(inHand')
  PROVE  IInv'
<1> DEFINE t == e.turn
           c == ChatOf[t]
<1>1. /\ t \in Turn /\ c \in Chat /\ e.action \in {"start", "stop"}
      /\ e.action = "stop" => e = StopOf(t)
      /\ turn[t] # "idle"
  BY EventsTyped DEF IInv, EventsOfTurns
<1>2. loop \in [Chat -> {"off", "running", "broken"}]
      /\ started \subseteq Turn /\ stopped \subseteq Turn /\ misled \subseteq Chat
  BY DEF IInv, Types
<1>3. loop' = [loop EXCEPT ![c] = IF e.action = "stop" THEN "off"
                                  ELSE IF @ = "off" THEN "running" ELSE @]
  BY DEF Handle, Applied
<1>4. CASE e.action = "start"
  <2>1. /\ started' = started \union {t} /\ stopped' = stopped
        /\ misled' = IF t \in stopped THEN misled \union {c} ELSE misled
    BY <1>4 DEF Handle
  <2>2. /\ loop' \in [Chat -> {"off", "running", "broken"}]
        /\ loop'[c] # "off"
        /\ \A d \in Chat \ {c} : loop'[d] = loop[d]
    BY <1>1, <1>2, <1>3, <1>4
  <2> HIDE DEF t, c
  <2>3. Types'
    BY <1>1, <1>2, <2>1, <2>2 DEF IInv, Types
  <2>4. EventsOfTurns'
    <3>1. t \notin Silent
      BY DEF t
    <3>2. QED
      BY <1>1, <2>1, <3>1 DEF IInv, EventsOfTurns, Silent
  <2>5. StopsUnderWay'
    <3>1. ASSUME NEW u \in Turn, StopOf(u) \in UnderWay
          PROVE  StopOf(u) \in UnderWay'
      BY <1>4, <3>1 DEF StopOf
    <3>2. QED
      BY <2>1, <3>1 DEF IInv, StopsUnderWay, Silent
  <2>6. LoopsOfTurns'
    <3>1. SUFFICES ASSUME NEW d \in Chat \ misled', loop'[d] = "running"
                   PROVE  \E u \in started' \ stopped' : ChatOf[u] = d
      BY DEF LoopsOfTurns
    <3>2. d \notin misled
      BY <2>1
    <3>3. CASE d = c
      BY <2>1, <3>1, <3>3 DEF c
    <3>4. CASE d # c
      BY <2>1, <2>2, <3>1, <3>2, <3>4 DEF IInv, LoopsOfTurns
    <3>5. QED
      BY <3>3, <3>4
  <2>7. ShownWhileTyping'
    <3>1. SUFFICES ASSUME NEW u \in started' \ stopped', loop'[ChatOf[u]] = "off"
                   PROVE  \E v \in Mates(u) : v \in stopped'
      BY DEF ShownWhileTyping, Mates
    <3>2. ChatOf[u] # c /\ ChatOf[u] \in Chat
      BY <1>1, <1>2, <2>1, <2>2, <3>1, TypingAssumption
    <3>3. u \in started \ stopped /\ loop[ChatOf[u]] = "off"
      BY <2>1, <2>2, <3>1, <3>2 DEF c
    <3>4. QED
      BY <2>1, <3>3 DEF IInv, ShownWhileTyping
  <2>8. QED
    BY <2>3, <2>4, <2>5, <2>6, <2>7 DEF IInv
<1>5. CASE e.action = "stop"
  <2>1. stopped' = stopped \union {t} /\ started' = started /\ misled' = misled
    BY <1>5 DEF Handle
  <2>2. /\ loop' \in [Chat -> {"off", "running", "broken"}]
        /\ loop'[c] = "off"
        /\ \A d \in Chat \ {c} : loop'[d] = loop[d]
    BY <1>1, <1>2, <1>3, <1>5
  <2>3. e = StopOf(t)
    BY <1>1, <1>5
  <2> HIDE DEF t
  <2>4. Types'
    BY <1>1, <1>2, <2>1, <2>2 DEF IInv, Types
  <2>5. EventsOfTurns'
    BY <2>1 DEF IInv, EventsOfTurns, Silent
  <2>6. StopsUnderWay'
    <3>1. ASSUME NEW u \in Turn \ {t}, StopOf(u) \in UnderWay
          PROVE  StopOf(u) \in UnderWay'
      BY <2>3, <3>1 DEF StopOf
    <3>2. QED
      BY <2>1, <3>1 DEF IInv, StopsUnderWay, Silent
  <2>7. LoopsOfTurns'
    <3>1. SUFFICES ASSUME NEW d \in Chat \ misled, loop'[d] = "running"
                   PROVE  \E u \in started \ stopped' : ChatOf[u] = d
      BY <2>1 DEF LoopsOfTurns
    <3>2. d # c /\ loop[d] = "running"
      BY <2>2, <3>1
    <3>3. PICK u \in started \ stopped : ChatOf[u] = d
      BY <3>1, <3>2 DEF IInv, LoopsOfTurns
    <3>4. QED
      BY <2>1, <3>2, <3>3
  <2>8. ShownWhileTyping'
    <3>1. SUFFICES ASSUME NEW u \in started \ stopped',
                          loop'[ChatOf[u]] = "off"
                   PROVE  \E v \in Mates(u) : v \in stopped'
      BY <2>1 DEF ShownWhileTyping, Mates
    <3>2. CASE ChatOf[u] = c
      BY <1>1, <2>1, <3>1, <3>2 DEF Mates
    <3>3. CASE ChatOf[u] # c
      <4>1. ChatOf[u] \in Chat
        BY <1>2, <3>1, TypingAssumption
      <4>2. loop[ChatOf[u]] = "off"
        BY <2>2, <3>1, <3>3, <4>1
      <4>3. QED
        BY <2>1, <3>1, <4>2 DEF IInv, ShownWhileTyping
    <3>4. QED
      BY <3>2, <3>3
  <2>9. QED
    BY <2>4, <2>5, <2>6, <2>7, <2>8 DEF IInv
<1>6. QED
  BY <1>1, <1>4, <1>5

\* An event that is not handled: it goes to a callback, is given up by one,
\* or is dropped because it is silent.
LEMMA MovedKeeps ==
  ASSUME IInv, UNCHANGED <<turn, loop, started, stopped>>,
         misled \subseteq misled', misled' \subseteq Chat,
         UnderWay' \subseteq UnderWay,
         \A e \in UnderWay \ UnderWay' : e.turn \in Silent,
         \A d \in Held' : d.turn \notin OtherChannel,
         typing' \in Seq(Event), inHand' \subseteq InHand, IsFiniteSet(inHand')
  PROVE  IInv'
<1>1. Types'
  BY DEF IInv, Types
<1>2. EventsOfTurns'
  BY DEF IInv, EventsOfTurns, Silent
<1>3. StopsUnderWay'
  BY DEF IInv, StopsUnderWay, Silent, StopOf
<1>4. LoopsOfTurns' /\ ShownWhileTyping'
  BY DEF IInv, LoopsOfTurns, ShownWhileTyping, Mates
<1>5. QED
  BY <1>1, <1>2, <1>3, <1>4 DEF IInv

\* A callback that waits or raised is in hand with its event.
LEMMA HandTaken ==
  ASSUME Types, NEW e \in Event, NEW p \in {"waiting", "stuck"},
         inHand' = inHand \union {[event |-> e, phase |-> p]}
  PROVE  /\ inHand' \subseteq InHand /\ IsFiniteSet(inHand')
         /\ Held' = Held \union {e}
<1>1. inHand' \subseteq InHand
  BY DEF Types, InHand
<1>2. IsFiniteSet(inHand')
  BY FS_AddElement DEF Types
<1>3. Held' = Held \union {e}
  <2>1. \A h \in inHand' : h \in inHand \/ h.event = e
    OBVIOUS
  <2>2. [event |-> e, phase |-> p] \in inHand'
        /\ [event |-> e, phase |-> p].event = e
    OBVIOUS
  <2>3. inHand \subseteq inHand'
    OBVIOUS
  <2>4. QED
    BY <2>1, <2>2, <2>3 DEF Held
<1>4. QED
  BY <1>1, <1>2, <1>3

\* The delivery of an event.
LEMMA OnTypingKeeps ==
  ASSUME IInv, OnTyping
  PROVE  IInv'
<1> DEFINE e == Head(typing)
<1>1. Types
  BY DEF IInv
<1>2. /\ typing \in Seq(Event) /\ typing # <<>> /\ typing' = Tail(typing)
      /\ turn' = turn
  BY <1>1 DEF OnTyping, Types
<1>3. /\ typing' \in Seq(Event) /\ e \in Event
      /\ Queued = Queued' \union {e}
  BY <1>2, HeadTaken DEF Queued
<1>4. e \in UnderWay /\ e.turn \in Turn
  BY <1>1, <1>3, EventsTyped DEF UnderWay
<1>5. inHand \subseteq InHand /\ IsFiniteSet(inHand) /\ misled \subseteq Chat
  BY <1>1 DEF Types
<1>6. CASE e.turn \in OtherChannel /\ UNCHANGED <<inHand, loop, history>>
  <2>1. Held' = Held
    BY <1>6 DEF Held
  <2>2. UnderWay' \subseteq UnderWay /\ UnderWay \ UnderWay' \subseteq {e}
    BY <1>3, <2>1 DEF UnderWay
  <2>3. e.turn \in Silent
    BY <1>6 DEF Silent
  <2>4. \A d \in Held' : d.turn \notin OtherChannel
    BY <2>1 DEF IInv, EventsOfTurns
  <2>5. QED
    BY <1>2, <1>3, <1>5, <1>6, <2>2, <2>3, <2>4, MovedKeeps DEF history
<1>7. CASE /\ e.turn \in Pinned \ OtherChannel
           /\ Handle(e)
           /\ inHand' = IF Raises(e) THEN inHand \union {Stuck(e)} ELSE inHand
  <2>1. /\ inHand' \subseteq InHand /\ IsFiniteSet(inHand')
        /\ Held \subseteq Held' /\ Held' \subseteq Held \union {e}
    <3>1. CASE Raises(e)
      BY <1>1, <1>3, <1>7, <3>1, HandTaken DEF Stuck
    <3>2. CASE ~ Raises(e)
      BY <1>5, <1>7, <3>2 DEF Held
    <3>3. QED
      BY <3>1, <3>2
  <2>2. UnderWay' \subseteq UnderWay /\ UnderWay \ {e} \subseteq UnderWay'
    BY <1>3, <1>4, <2>1 DEF UnderWay
  <2>3. e.turn \notin Silent
    BY <1>7, TypingAssumption DEF Silent
  <2>4. \A d \in Held' : d.turn \notin OtherChannel
    BY <1>7, <2>1 DEF IInv, EventsOfTurns
  <2>5. QED
    BY <1>2, <1>3, <1>4, <1>7, <2>1, <2>2, <2>3, <2>4, HandleKeeps
<1>8. CASE /\ e.turn \notin Pinned \union OtherChannel
           /\ inHand' = inHand \union {[event |-> e, phase |-> "waiting"]}
           /\ UNCHANGED <<loop, history>>
  <2>1. /\ inHand' \subseteq InHand /\ IsFiniteSet(inHand')
        /\ Held' = Held \union {e}
    BY <1>1, <1>3, <1>8, HandTaken
  <2>2. UnderWay' = UnderWay
    BY <1>3, <2>1 DEF UnderWay
  <2>3. \A d \in Held' : d.turn \notin OtherChannel
    BY <1>8, <2>1 DEF IInv, EventsOfTurns
  <2>4. QED
    BY <1>2, <1>3, <1>5, <1>8, <2>1, <2>2, <2>3, MovedKeeps DEF history
<1>9. QED
  BY <1>6, <1>7, <1>8 DEF OnTyping

\* The lookup of a chat has an answer.
LEMMA ResolvedKeeps ==
  ASSUME IInv, NEW h \in inHand, Resolved(h)
  PROVE  IInv'
<1> DEFINE e == h.event
<1>1. /\ Types
      /\ inHand \subseteq InHand /\ IsFiniteSet(inHand) /\ misled \subseteq Chat
      /\ typing \in Seq(Event)
  BY DEF IInv, Types
<1>2. e \in Event /\ e \in Held /\ e \in UnderWay
  BY <1>1 DEF InHand, Held, UnderWay
<1>3. turn' = turn /\ typing' = typing /\ Queued' = Queued
  BY DEF Resolved, Queued
<1>4. /\ inHand \ {h} \subseteq InHand /\ IsFiniteSet(inHand \ {h})
  BY <1>1, FS_RemoveElement
<1>5. CASE e.turn \in Unreachable
  <2>1. inHand' = inHand \ {h} /\ UNCHANGED <<loop, history>>
    BY <1>5 DEF Resolved
  <2>2. Held' \subseteq Held /\ Held \ Held' \subseteq {e}
    BY <2>1 DEF Held
  <2>3. UnderWay' \subseteq UnderWay /\ UnderWay \ UnderWay' \subseteq {e}
    BY <1>3, <2>2 DEF UnderWay
  <2>4. e.turn \in Silent
    BY <1>5 DEF Silent
  <2>5. \A d \in Held' : d.turn \notin OtherChannel
    BY <2>2 DEF IInv, EventsOfTurns
  <2>6. QED
    BY <1>1, <1>3, <1>4, <2>1, <2>3, <2>4, <2>5, MovedKeeps DEF history
<1>6. CASE e.turn \notin Unreachable
  <2>1. /\ Handle(e)
        /\ inHand' = (inHand \ {h}) \union
             (IF Raises(e) THEN {Stuck(e)} ELSE {})
    BY <1>6 DEF Resolved
  <2>2. Stuck(e) \in InHand
    BY <1>2 DEF Stuck, InHand
  <2>3. inHand' \subseteq InHand /\ IsFiniteSet(inHand')
    <3>1. CASE Raises(e)
      <4>1. inHand' = (inHand \ {h}) \union {Stuck(e)}
        BY <2>1, <3>1
      <4>2. QED
        BY <1>4, <2>2, <4>1, FS_AddElement
    <3>2. CASE ~ Raises(e)
      <4>1. inHand' = inHand \ {h}
        BY <2>1, <3>2
      <4>2. QED
        BY <1>4, <4>1
    <3>3. QED
      BY <3>1, <3>2
  <2>4. Held' \subseteq Held /\ Held \ {e} \subseteq Held'
    BY <1>2, <2>1 DEF Held, Stuck
  <2>5. UnderWay' \subseteq UnderWay /\ UnderWay \ {e} \subseteq UnderWay'
    BY <1>3, <2>4 DEF UnderWay
  <2>6. /\ e.turn \notin Silent
        /\ \A d \in Held' : d.turn \notin OtherChannel
    BY <1>2, <1>6, <2>4 DEF IInv, EventsOfTurns, Silent
  <2>7. QED
    BY <1>1, <1>2, <1>3, <2>1, <2>3, <2>5, <2>6, HandleKeeps
<1>7. QED
  BY <1>5, <1>6

\* The lookup raises: the event stays in hand.
LEMMA LookupFailsKeeps ==
  ASSUME IInv, NEW h \in inHand, LookupFails(h)
  PROVE  IInv'
<1> DEFINE e == h.event
<1>1. /\ Types
      /\ inHand \subseteq InHand /\ IsFiniteSet(inHand) /\ misled \subseteq Chat
      /\ typing \in Seq(Event)
  BY DEF IInv, Types
<1>2. e \in Event /\ e \in Held
  BY <1>1 DEF InHand, Held
<1>3. /\ inHand' = (inHand \ {h}) \union {Stuck(e)}
      /\ UNCHANGED <<turn, typing, loop, started, stopped>>
      /\ Stuck(e) \in InHand /\ Stuck(e).event = e
  BY <1>2 DEF LookupFails, Stuck, InHand
<1>4. inHand' \subseteq InHand /\ IsFiniteSet(inHand')
  <2>1. IsFiniteSet(inHand \ {h})
    BY <1>1, FS_RemoveElement
  <2>2. QED
    BY <1>1, <1>3, <2>1, FS_AddElement
<1>5. Held' = Held
  <2>1. \A g \in inHand' : g \in inHand \/ g.event = e
    BY <1>3
  <2>2. \A g \in inHand : g \in inHand' \/ g.event = e
    BY <1>3
  <2>3. Stuck(e) \in inHand'
    BY <1>3
  <2>4. QED
    BY <1>2, <1>3, <2>1, <2>2, <2>3 DEF Held
<1>6. UnderWay' = UnderWay
  BY <1>3, <1>5 DEF UnderWay, Queued
<1>7. misled \subseteq misled' /\ misled' \subseteq Chat
  BY <1>1, <1>2, EventsTyped DEF LookupFails
<1>8. \A d \in Held' : d.turn \notin OtherChannel
  BY <1>5 DEF IInv, EventsOfTurns
<1>9. QED
  BY <1>1, <1>3, <1>4, <1>6, <1>7, <1>8, MovedKeeps

-----------------------------------------------------------------------------
(* The turns                                                               *)

\* A turn starts, ends, and announces it or fails to.
LEMMA TurnKeeps ==
  ASSUME IInv, NEW t \in Turn, StartTurn(t) \/ TurnEnds(t) \/ StopTurn(t)
  PROVE  IInv'
<1>1. Types /\ t \in Turn /\ ChatOf[t] \in Chat
  BY TypingAssumption DEF IInv
<1>2. PICK p \in {"typing", "over", "done"} : turn' = [turn EXCEPT ![t] = p]
  BY DEF StartTurn, TurnEnds, StopTurn
<1>3. /\ turn' \in [Turn -> TurnPhases] /\ turn'[t] = p
      /\ \A u \in Turn \ {t} : turn'[u] = turn[u]
      /\ \A u \in Turn : turn[u] # "idle" => turn'[u] # "idle"
  BY <1>1, <1>2 DEF Types, TurnPhases
<1>4. UNCHANGED <<inHand, loop, started>> /\ Held' = Held
  BY DEF StartTurn, TurnEnds, StopTurn, history, Held
<1>5. \/ UNCHANGED typing
      \/ \E action \in {"start", "stop"} : Announces(t, action)
  BY DEF StartTurn, TurnEnds, StopTurn
<1>6. /\ typing' \in Seq(Event)
      /\ Queued \subseteq Queued'
      /\ \A e \in Queued' : e \in Queued \/ e.turn = t
  <2>1. CASE UNCHANGED typing
    BY <1>1, <2>1 DEF Types, Queued
  <2>2. ASSUME NEW action \in {"start", "stop"}, Announces(t, action)
        PROVE  /\ typing' \in Seq(Event)
               /\ Queued' = Queued \union {[turn |-> t, action |-> action]}
    <3>1. [turn |-> t, action |-> action] \in Event
      BY DEF Event
    <3>2. QED
      BY <1>1, <2>2, <3>1, Appended DEF Announces, Types, Queued
  <2>3. QED
    BY <1>5, <2>1, <2>2
<1>7. /\ stopped' = stopped \/ stopped' = stopped \union {t}
      /\ stopped' # stopped => ChatOf[t] \in misled'
      /\ misled \subseteq misled' /\ misled' \subseteq Chat
  BY <1>1 DEF StartTurn, TurnEnds, StopTurn, history, Types
<1>8. Types'
  BY <1>1, <1>3, <1>4, <1>6, <1>7 DEF Types
<1>9. EventsOfTurns'
  <2>1. \A e \in UnderWay' : e.turn \in Turn /\ (e \in UnderWay \/ e.turn = t)
    BY <1>1, <1>4, <1>6, <1>8, EventsTyped DEF UnderWay
  <2>2. QED
    BY <1>2, <1>3, <1>4, <1>8, <2>1 DEF IInv, EventsOfTurns, Silent, Types
<1>10. StopsUnderWay'
  <2>1. UnderWay \subseteq UnderWay'
    BY <1>4, <1>6 DEF UnderWay
  <2>2. ASSUME turn'[t] = "done"
        PROVE  t \in stopped' \/ StopOf(t) \in UnderWay'
    <3>1. StopTurn(t)
      BY <1>1, <2>2 DEF StartTurn, TurnEnds, Types
    <3>2. CASE Announces(t, "stop")
      <4>1. StopOf(t) \in Event
        BY DEF StopOf, Event
      <4>2. Queued' = Queued \union {StopOf(t)}
        BY <1>1, <3>2, <4>1, Appended DEF Announces, StopOf, Types, Queued
      <4>3. QED
        BY <4>2 DEF UnderWay
    <3>3. CASE stopped' = stopped \union {t}
      BY <3>3
    <3>4. QED
      BY <3>1, <3>2, <3>3 DEF StopTurn
  <2>3. ASSUME NEW u \in Turn \ Silent, turn'[u] = "done", u # t
        PROVE  u \in stopped' \/ StopOf(u) \in UnderWay'
    BY <1>3, <1>7, <2>1, <2>3 DEF IInv, StopsUnderWay
  <2>4. QED
    BY <2>2, <2>3 DEF StopsUnderWay, Silent
<1>11. LoopsOfTurns'
  BY <1>4, <1>7 DEF IInv, LoopsOfTurns
<1>12. ShownWhileTyping'
  BY <1>4, <1>7 DEF IInv, ShownWhileTyping, Mates
<1>13. QED
  BY <1>8, <1>9, <1>10, <1>11, <1>12 DEF IInv

-----------------------------------------------------------------------------
(* The process                                                             *)

\* A loop that breaks does not run.
LEMMA LoopBreaksKeeps ==
  ASSUME IInv, NEW c \in Chat, LoopBreaks(c)
  PROVE  IInv'
<1>1. /\ loop \in [Chat -> {"off", "running", "broken"}]
      /\ started \subseteq Turn
  BY DEF IInv, Types
<1>2. /\ loop' = [loop EXCEPT ![c] = "broken"]
      /\ UNCHANGED <<turn, typing, inHand, started, stopped, misled>>
  BY DEF LoopBreaks, history
<1>3. /\ loop' \in [Chat -> {"off", "running", "broken"}]
      /\ \A d \in Chat : loop'[d] = "running" => loop[d] = "running"
      /\ \A d \in Chat : loop'[d] = "off" => loop[d] = "off"
  BY <1>1, <1>2
<1>4. Types' /\ EventsOfTurns' /\ StopsUnderWay'
  BY <1>2, <1>3 DEF IInv, Types, EventsOfTurns, StopsUnderWay, UnderWay,
     Queued, Held, Silent
<1>5. LoopsOfTurns'
  BY <1>2, <1>3 DEF IInv, LoopsOfTurns
<1>6. ShownWhileTyping'
  BY <1>1, <1>2, <1>3, TypingAssumption DEF IInv, ShownWhileTyping, Mates
<1>7. QED
  BY <1>4, <1>5, <1>6 DEF IInv

\* The process ends: its loops with it, and what was in hand is put back.
LEMMA ProcessEndsKeeps ==
  ASSUME IInv, ProcessEnds
  PROVE  IInv'
<1>1. Types
  BY DEF IInv
<1>2. IsFiniteSet(Held)
  <2>1. [h \in inHand |-> h.event] \in Surjection(inHand, Held)
    BY DEF Surjection, Held
  <2>2. QED
    BY <1>1, <2>1, FS_Surjection DEF Types
<1>3. PICK s \in Orders(Held) : typing' = s \o typing
  BY DEF ProcessEnds, Held
<1>4. s \in Seq(Event) /\ {s[i] : i \in 1 .. Len(s)} = Held
  <2>1. s \in Seq(Held) /\ {s[i] : i \in 1 .. Len(s)} = Held
    BY <1>2, OrderHasAll
  <2>2. Held \subseteq Event
    BY <1>1, EventsTyped DEF UnderWay
  <2>3. QED
    BY <2>1, <2>2
<1>5. /\ typing' \in Seq(Event)
      /\ Queued' = Held \union Queued
  <2>1. typing \in Seq(Event)
    BY <1>1 DEF Types
  <2>2. /\ s \o typing \in Seq(Event)
        /\ {(s \o typing)[i] : i \in 1 .. Len(s \o typing)}
             = {s[i] : i \in 1 .. Len(s)} \union Queued
    BY <1>4, <2>1, PutBack DEF Queued
  <2>3. Queued' = {(s \o typing)[i] : i \in 1 .. Len(s \o typing)}
    BY <1>3 DEF Queued
  <2>4. QED
    BY <1>3, <1>4, <2>2, <2>3
<1>6. inHand' = {} /\ Held' = {}
  BY DEF ProcessEnds, Held
<1>7. UnderWay' = UnderWay
  BY <1>5, <1>6 DEF UnderWay
<1>8. /\ turn' = [t \in Turn |-> IF turn[t] = "idle" THEN "idle" ELSE "done"]
      /\ stopped' = stopped \union {t \in Turn : turn[t] \in {"typing", "over"}}
      /\ loop' = [c \in Chat |-> "off"] /\ started' = {} /\ misled' = misled
  BY DEF ProcessEnds
<1>9. Types'
  BY <1>1, <1>5, <1>6, <1>8, FS_EmptySet DEF Types, TurnPhases
<1>10. EventsOfTurns'
  <2>1. \A e \in UnderWay : e.turn \in Turn
    BY <1>1, EventsTyped
  <2>2. QED
    BY <1>6, <1>7, <1>8, <2>1 DEF IInv, EventsOfTurns
<1>11. StopsUnderWay'
  <2>1. \A t \in Turn : turn'[t] = "done" =>
          turn[t] = "done" \/ t \in stopped'
    BY <1>1, <1>8 DEF Types, TurnPhases
  <2>2. QED
    BY <1>7, <1>8, <2>1 DEF IInv, StopsUnderWay, Silent
<1>12. LoopsOfTurns' /\ ShownWhileTyping'
  BY <1>8 DEF LoopsOfTurns, ShownWhileTyping
<1>13. QED
  BY <1>9, <1>10, <1>11, <1>12 DEF IInv

-----------------------------------------------------------------------------
(* The theorems                                                            *)

\* The invariant is kept by every step.
LEMMA NextKeeps == IInv /\ [Next]_vars => IInv'
<1>1. SUFFICES ASSUME IInv, [Next]_vars PROVE IInv'
  OBVIOUS
<1>2. CASE UNCHANGED vars
  BY <1>1, <1>2 DEF vars, history, IInv, Types, EventsOfTurns, StopsUnderWay,
     LoopsOfTurns, ShownWhileTyping, UnderWay, Queued, Held, Mates
<1>3. QED
  BY <1>1, <1>2, TurnKeeps, OnTypingKeeps, ResolvedKeeps, LookupFailsKeeps,
     LoopBreaksKeeps, ProcessEndsKeeps DEF Next, SenderStep

\* The invariant holds in every reachable state.
LEMMA Invariance == Spec => []IInv
BY InitIInv, NextKeeps, PTL DEF Spec

\* However the turns of several people overlap in a chat, its loop has ended
\* when they are over and their events handled, unless a stop event was lost
\* or came before its start.
THEOREM TypingEndsHolds == Spec => []TypingEnds
<1>1. ASSUME IInv, NEW c \in Chat \ misled, Quiet(c)
      PROVE  loop[c] # "running"
  <2>1. SUFFICES ASSUME loop[c] = "running" PROVE FALSE
    OBVIOUS
  <2>2. PICK t \in started \ stopped : ChatOf[t] = c
    BY <1>1, <2>1 DEF IInv, LoopsOfTurns
  <2>3. t \in Turn \ Silent /\ turn[t] # "idle"
    BY <1>1, <2>2 DEF IInv, Types, EventsOfTurns
  <2>4. turn[t] = "done"
    BY <1>1, <2>2, <2>3 DEF Quiet
  <2>5. StopOf(t) \in UnderWay /\ StopOf(t).turn = t
    BY <1>1, <2>2, <2>3, <2>4 DEF IInv, StopsUnderWay, StopOf
  <2>6. DOMAIN typing = 1 .. Len(typing)
    BY <1>1 DEF IInv, Types
  <2>7. QED
    BY <1>1, <2>2, <2>5, <2>6 DEF Quiet, UnderWay, Queued, Held
<1>2. IInv => TypingEnds
  BY <1>1 DEF TypingEnds
<1>3. QED
  BY <1>2, Invariance, PTL

\* While a turn goes on its chat shows it, unless somebody else's turn in the
\* same chat has ended.
THEOREM ShownWhileTypingHolds == Spec => []ShownWhileTyping
<1>1. IInv => ShownWhileTyping
  BY DEF IInv
<1>2. QED
  BY <1>1, Invariance, PTL

-----------------------------------------------------------------------------
(* The prefetch limit                                                      *)

\* No more callbacks than the limit are in hand, nor more failures and ends of
\* the process than the bounds allow.
Limits ==
  /\ Cardinality(inHand) <= Prefetch
  /\ faults \in 0 .. MaxFaults
  /\ ends \in 0 .. MaxEnds

\* What one delivery adds.
LEMMA OneMore ==
  ASSUME NEW S, IsFiniteSet(S), NEW x, NEW T, T \subseteq S \union {x}
  PROVE  Cardinality(T) \in Nat /\ Cardinality(T) <= Cardinality(S) + 1
<1> DEFINE U == S \union {x}
<1>1. IsFiniteSet(U) /\ (Cardinality(U) = Cardinality(S)
                          \/ Cardinality(U) = Cardinality(S) + 1)
  BY FS_AddElement
<1> HIDE DEF U
<1>2. IsFiniteSet(T) /\ Cardinality(T) <= Cardinality(U)
  BY <1>1, FS_Subset DEF U
<1>3. Cardinality(S) \in Nat /\ Cardinality(T) \in Nat
  BY <1>2, FS_CardinalityType
<1>4. QED
  BY <1>1, <1>2, <1>3

\* A callback that goes on is in hand once more, or not at all.
LEMMA OneForOne ==
  ASSUME NEW S, IsFiniteSet(S), NEW h \in S, NEW x,
         NEW T, T \subseteq (S \ {h}) \union {x}
  PROVE  Cardinality(T) \in Nat /\ Cardinality(T) <= Cardinality(S)
<1> DEFINE R == S \ {h}
<1>1. IsFiniteSet(R) /\ Cardinality(R) = Cardinality(S) - 1
  BY FS_RemoveElement
<1> HIDE DEF R
<1>2. Cardinality(T) \in Nat /\ Cardinality(T) <= Cardinality(R) + 1
  BY <1>1, OneMore DEF R
<1>3. Cardinality(S) \in Nat /\ Cardinality(R) \in Nat
  BY <1>1, FS_CardinalityType
<1>4. QED
  BY <1>1, <1>2, <1>3

\* A delivery needs room; every other step keeps or empties the hands.
LEMMA LimitsKept ==
  ASSUME IInv, Limits, [Next]_vars
  PROVE  Limits'
<1>1. /\ IsFiniteSet(inHand) /\ Cardinality(inHand) \in Nat
      /\ Prefetch \in Nat /\ MaxFaults \in Nat /\ MaxEnds \in Nat
  BY FS_CardinalityType, TypingAssumption DEF IInv, Types
<1>2. Fails => faults' \in 0 .. MaxFaults
  BY <1>1 DEF Fails, Limits
<1>3. CASE \E t \in Turn : StartTurn(t) \/ TurnEnds(t) \/ StopTurn(t)
  BY <1>2, <1>3 DEF StartTurn, TurnEnds, StopTurn, Announces, Limits
<1>4. CASE OnTyping
  <2>1. PICK x : inHand' \subseteq inHand \union {x}
    BY <1>4 DEF OnTyping
  <2>2. Cardinality(inHand) < Prefetch /\ UNCHANGED <<faults, ends>>
    BY <1>4 DEF OnTyping, HasRoom
  <2>3. /\ Cardinality(inHand') \in Nat
        /\ Cardinality(inHand') <= Cardinality(inHand) + 1
    BY <1>1, <2>1, OneMore
  <2>4. QED
    BY <1>1, <2>2, <2>3 DEF Limits
<1>5. ASSUME NEW h \in inHand, Resolved(h) \/ LookupFails(h) PROVE Limits'
  <2>1. inHand' \subseteq (inHand \ {h}) \union {Stuck(h.event)}
    BY <1>5 DEF Resolved, LookupFails
  <2>2. /\ Cardinality(inHand') \in Nat
        /\ Cardinality(inHand') <= Cardinality(inHand)
    BY <1>1, <2>1, OneForOne
  <2>3. faults' \in 0 .. MaxFaults /\ UNCHANGED ends
    BY <1>2, <1>5 DEF Resolved, LookupFails, Limits
  <2>4. QED
    BY <1>1, <2>2, <2>3 DEF Limits
<1>6. ASSUME NEW c \in Chat, LoopBreaks(c) PROVE Limits'
  BY <1>2, <1>6 DEF LoopBreaks, Limits
<1>7. CASE ProcessEnds
  <2>1. Cardinality(inHand') = 0
    BY <1>7, FS_EmptySet DEF ProcessEnds
  <2>2. ends' \in 0 .. MaxEnds /\ UNCHANGED faults
    BY <1>1, <1>7 DEF ProcessEnds, Limits
  <2>3. QED
    BY <1>1, <2>1, <2>2 DEF Limits
<1>8. CASE UNCHANGED vars
  BY <1>8 DEF vars, Limits
<1>9. QED
  BY <1>3, <1>4, <1>5, <1>6, <1>7, <1>8 DEF Next, SenderStep

\* The state always has its types, and no more callbacks than the prefetch
\* limit are in hand.
THEOREM TypeCorrectness == Spec => []TypeOK
<1>1. Init => Limits
  BY FS_EmptySet, TypingAssumption DEF Init, Limits
<1>2. IInv /\ Limits /\ [Next]_vars => Limits'
  BY LimitsKept
<1>3. IInv /\ Limits => TypeOK
  BY DEF IInv, Types, Limits, TypeOK
<1>4. QED
  BY <1>1, <1>2, <1>3, Invariance, PTL DEF Spec
=============================================================================
