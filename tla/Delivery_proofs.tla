-------------------------- MODULE Delivery_proofs --------------------------
(* TLAPS proofs about Delivery, for any messages, limits and failures.     *)
EXTENDS Delivery, FiniteSetTheorems, TLAPS

-----------------------------------------------------------------------------
(* The invariant                                                           *)

InQueue(m) == \E i \in 1 .. Len(outgoing) : outgoing[i] = m

\* A message that is published and not settled is in one place: once in the
\* queue, or in the hands of one callback.
OnePlace ==
  /\ \A i, j \in 1 .. Len(outgoing) : i # j => outgoing[i] # outgoing[j]
  /\ \A i \in 1 .. Len(outgoing) :
       handler[outgoing[i]] = "none" /\ settled[outgoing[i]] = "no"
  /\ \A m \in Message : handler[m] # "none" => settled[m] = "no"
  /\ \A m \in Message : settled[m] = "no" => handler[m] # "none" \/ InQueue(m)

Sent(m)    == handler[m] = "ack" \/ settled[m] = "acked"
Dropped(m) == handler[m] = "drop" \/ settled[m] = "dropped"
GivenUp(m) == handler[m] = "nack" \/ settled[m] = "dead"

\* What the history of a message says about the way it is going.
Explained(m) ==
  /\ copies[m] <= unsure[m] + (IF Sent(m) THEN 1 ELSE 0)
  /\ Sent(m) => copies[m] > 0
  /\ Dropped(m) => m \in OtherChannel \union Unreachable
  /\ GivenUp(m) => m \in Malformed \/ failures[m] >= MaxAttempts
  /\ handler[m] \in {"resolve", "send", "pause"} =>
       attempt[m] <= failures[m] /\ attempt[m] < MaxAttempts

IInv == TypeOK /\ OnePlace /\ \A m \in Message : Explained(m)

\* The bounds are numbers.
LEMMA Limits ==
  Prefetch \in Nat \ {0} /\ MaxAttempts \in Nat \ {0}
  /\ MaxFaults \in Nat /\ MaxEnds \in Nat
BY DeliveryAssumption

\* At the start nothing is published.
LEMMA InitIInv == Init => IInv
<1> SUFFICES ASSUME Init PROVE IInv
  OBVIOUS
<1> USE Limits DEF Init
<1>1. TypeOK
  <2>1. /\ handler \in [Message -> HandlerPhases]
        /\ settled \in [Message -> Fates]
        /\ attempt \in [Message -> 0 .. MaxAttempts]
    BY DEF HandlerPhases, Fates
  <2>2. /\ outgoing \in Seq(Message)
        /\ copies \in [Message -> Nat] /\ unsure \in [Message -> Nat]
        /\ failures \in [Message -> Nat]
    OBVIOUS
  <2>3. faults \in 0 .. MaxFaults /\ ends \in 0 .. MaxEnds
    OBVIOUS
  <2>4. connected \in BOOLEAN
    OBVIOUS
  <2>5. QED
    BY <2>1, <2>2, <2>3, <2>4 DEF TypeOK
<1>2. OnePlace
  BY DEF OnePlace
<1>3. \A m \in Message : Explained(m)
  BY DEF Explained, Sent, Dropped, GivenUp
<1>4. QED
  BY <1>1, <1>2, <1>3 DEF IInv

\* The types of what most steps disturb.
LEMMA Types ==
  ASSUME TypeOK
  PROVE  /\ outgoing \in Seq(Message)
         /\ handler \in [Message -> HandlerPhases]
         /\ attempt \in [Message -> Nat]
         /\ settled \in [Message -> Fates]
         /\ copies \in [Message -> Nat]
         /\ unsure \in [Message -> Nat]
         /\ failures \in [Message -> Nat]
         /\ MaxAttempts \in Nat \ {0}
BY DeliveryAssumption DEF TypeOK

-----------------------------------------------------------------------------
(* The queue                                                               *)

\* A message is published once, at the end of the queue.
LEMMA PublishKeeps ==
  ASSUME IInv, NEW m \in Message, PublishOutgoing(m)
  PROVE  IInv'
<1> USE DEF IInv
<1>1. TypeOK'
  BY DEF PublishOutgoing, TypeOK, Fates, history
<1>2. OnePlace'
  <2>1. /\ handler[m] = "none"
        /\ \A i \in 1 .. Len(outgoing) : outgoing[i] # m
    BY Types DEF PublishOutgoing, OnePlace
  <2>2. /\ Len(outgoing') = Len(outgoing) + 1
        /\ outgoing'[Len(outgoing) + 1] = m
        /\ \A i \in 1 .. Len(outgoing) : outgoing'[i] = outgoing[i]
        /\ Len(outgoing) \in Nat
    BY Types DEF PublishOutgoing
  <2>3. /\ settled'[m] = "no" /\ handler' = handler
        /\ \A k \in Message \ {m} : settled'[k] = settled[k]
    BY Types DEF PublishOutgoing
  <2>4. \A i \in 1 .. Len(outgoing) : outgoing[i] \in Message
    BY Types
  <2>5. \A i, j \in 1 .. Len(outgoing') : i # j => outgoing'[i] # outgoing'[j]
    BY <2>1, <2>2 DEF OnePlace
  <2>6. \A i \in 1 .. Len(outgoing') :
          handler'[outgoing'[i]] = "none" /\ settled'[outgoing'[i]] = "no"
    BY <2>1, <2>2, <2>3, <2>4 DEF OnePlace
  <2>7. \A k \in Message : handler'[k] # "none" => settled'[k] = "no"
    BY <2>1, <2>3 DEF OnePlace
  <2>8. ASSUME NEW k \in Message, settled'[k] = "no"
        PROVE  handler'[k] # "none" \/ InQueue(k)'
    <3>1. CASE k = m
      BY <2>2, <3>1 DEF InQueue
    <3>2. CASE k # m
      BY <2>2, <2>3, <2>8, <3>2 DEF OnePlace, InQueue
    <3>3. QED
      BY <3>1, <3>2
  <2>9. QED
    BY <2>5, <2>6, <2>7, <2>8 DEF OnePlace
<1>3. \A k \in Message : Explained(k)'
  BY Types DEF PublishOutgoing, history, Explained, Sent, Dropped, GivenUp
<1>4. QED
  BY <1>1, <1>2, <1>3

\* The message at the head of the queue goes to a callback.
LEMMA ReceiveKeeps ==
  ASSUME IInv, Receive
  PROVE  IInv'
<1> USE DEF IInv
<1> DEFINE m == Head(outgoing)
<1>1. /\ m \in Message /\ m = outgoing[1]
      /\ Len(outgoing) \in Nat /\ 1 \in 1 .. Len(outgoing)
      /\ Len(outgoing') = Len(outgoing) - 1
      /\ outgoing' \in Seq(Message)
      /\ \A i \in 1 .. Len(outgoing') : outgoing'[i] = outgoing[i + 1]
      /\ \A i \in 1 .. Len(outgoing) : outgoing[i] \in Message
  BY Types DEF Receive
<1>2. handler[m] = "none" /\ settled[m] = "no"
  BY <1>1 DEF OnePlace
<1>3. PICK p \in {"nack", "drop", "send", "resolve"} :
        /\ handler' = [handler EXCEPT ![m] = p]
        /\ p = "nack" => m \in Malformed
        /\ p = "drop" => m \in OtherChannel
  BY DEF Receive, Becomes
<1>4. /\ attempt' = [attempt EXCEPT ![m] = 0]
      /\ failures' = [failures EXCEPT ![m] = 0]
      /\ UNCHANGED <<settled, connected, copies, unsure, faults, ends>>
  BY DEF Receive
<1> HIDE DEF m
<1>5. handler'[m] = p /\ \A k \in Message \ {m} : handler'[k] = handler[k]
  BY <1>1, <1>3, Types
<1>6. TypeOK'
  <2>1. handler' \in [Message -> HandlerPhases]
    BY <1>1, <1>3, Types DEF HandlerPhases
  <2>2. attempt' \in [Message -> 0 .. MaxAttempts]
    BY <1>1, <1>4, Limits DEF TypeOK
  <2>3. failures' \in [Message -> Nat]
    BY <1>1, <1>4, Types
  <2>4. QED
    BY <1>1, <1>4, <2>1, <2>2, <2>3 DEF TypeOK
<1>7. OnePlace'
  <2>1. \A i \in 1 .. Len(outgoing') : outgoing'[i] # m
    BY <1>1 DEF OnePlace
  <2>2. \A i, j \in 1 .. Len(outgoing') : i # j => outgoing'[i] # outgoing'[j]
    BY <1>1 DEF OnePlace
  <2>3. \A i \in 1 .. Len(outgoing') :
          handler'[outgoing'[i]] = "none" /\ settled'[outgoing'[i]] = "no"
    <3>1. ASSUME NEW i \in 1 .. Len(outgoing')
          PROVE  handler'[outgoing'[i]] = "none" /\ settled'[outgoing'[i]] = "no"
      <4>1. i + 1 \in 1 .. Len(outgoing) /\ outgoing'[i] = outgoing[i + 1]
        BY <1>1, <3>1
      <4>2. /\ handler[outgoing[i + 1]] = "none"
            /\ settled[outgoing[i + 1]] = "no"
        BY <4>1 DEF OnePlace
      <4>3. outgoing'[i] \in Message \ {m}
        BY <1>1, <2>1, <4>1
      <4>4. QED
        BY <1>4, <1>5, <4>1, <4>2, <4>3
    <3>2. QED
      BY <3>1
  <2>4. \A k \in Message : handler'[k] # "none" => settled'[k] = "no"
    BY <1>2, <1>4, <1>5 DEF OnePlace
  <2>5. ASSUME NEW k \in Message, settled'[k] = "no"
        PROVE  handler'[k] # "none" \/ InQueue(k)'
    <3>1. CASE k = m
      BY <1>5, <3>1
    <3>2. CASE k # m
      <4>1. handler[k] # "none" \/ InQueue(k)
        BY <1>4, <2>5 DEF OnePlace
      <4>2. ASSUME NEW i \in 1 .. Len(outgoing), outgoing[i] = k
            PROVE  InQueue(k)'
        <5>1. i - 1 \in 1 .. Len(outgoing')
          BY <1>1, <3>2, <4>2
        <5>2. outgoing'[i - 1] = outgoing[(i - 1) + 1] /\ (i - 1) + 1 = i
          BY <1>1, <5>1
        <5>3. QED
          BY <4>2, <5>1, <5>2 DEF InQueue
      <4>3. QED
        BY <1>5, <3>2, <4>1, <4>2 DEF InQueue
    <3>3. QED
      BY <3>1, <3>2
  <2>6. QED
    BY <2>2, <2>3, <2>4, <2>5 DEF OnePlace
<1>8. ASSUME NEW k \in Message
      PROVE  Explained(k)'
  <2>1. CASE k = m
    <3>1. /\ copies' = copies /\ unsure' = unsure
          /\ settled'[m] = "no" /\ handler'[m] = p
          /\ attempt'[m] = 0 /\ failures'[m] = 0
      BY <1>1, <1>2, <1>4, <1>5, Types
    <3>2. copies[m] <= unsure[m] + 0
      BY <1>1, <1>2 DEF Explained, Sent
    <3>3. QED
      BY <1>1, <1>3, <2>1, <3>1, <3>2, Limits, Types
         DEF Explained, Sent, Dropped, GivenUp
  <2>2. CASE k # m
    BY <1>1, <1>4, <1>5, <2>2, Types DEF Explained, Sent, Dropped, GivenUp
  <2>3. QED
    BY <2>1, <2>2
<1>9. QED
  BY <1>6, <1>7, <1>8

-----------------------------------------------------------------------------
(* The end of the process                                                  *)

\* An order of a finite set has every element of it, once.
LEMMA OrderHasAll ==
  ASSUME NEW S, IsFiniteSet(S), NEW s \in Orders(S)
  PROVE  /\ s \in Seq(S) /\ Len(s) = Cardinality(S)
         /\ \A x \in S : \E i \in 1 .. Len(s) : s[i] = x
         /\ \A i, j \in 1 .. Len(s) : i # j => s[i] # s[j]
<1> DEFINE n == Cardinality(S)
<1>1. n \in Nat
  BY FS_CardinalityType
<1>2. /\ s \in [1 .. n -> S]
      /\ \A i, j \in 1 .. n : i # j => s[i] # s[j]
  BY DEF Orders
<1>3. s \in Seq(S) /\ Len(s) = n
  BY <1>1, <1>2
<1>4. \A x \in S : \E i \in 1 .. n : s[i] = x
  <2>1. s \in Injection(1 .. n, S)
    BY <1>2 DEF Injection, IsInjective
  <2>2. Cardinality(1 .. n) = n
    BY <1>1, FS_Interval
  <2>3. s \in Surjection(1 .. n, S)
    BY <2>1, <2>2, FS_Injection
  <2>4. QED
    BY <2>3 DEF Surjection
<1>5. QED
  BY <1>2, <1>3, <1>4

\* What was delivered and not acknowledged is in the queue again.
LEMMA ProcessEndsKeeps ==
  ASSUME IInv, ProcessEnds
  PROVE  IInv'
<1> USE DEF IInv
<1>1. IsFiniteSet(Busy) /\ Busy \subseteq Message
  BY DeliveryAssumption, FS_Subset DEF Busy
<1>2. PICK s \in Orders(Busy) : outgoing' = s \o outgoing
  BY DEF ProcessEnds, Requeued
<1>3. /\ s \in Seq(Busy) /\ Len(s) \in Nat
      /\ \A m \in Busy : \E i \in 1 .. Len(s) : s[i] = m
      /\ \A i, j \in 1 .. Len(s) : i # j => s[i] # s[j]
  <2>1. s \in Seq(Busy)
    BY <1>1, OrderHasAll
  <2>2. Len(s) \in Nat
    BY <2>1
  <2>3. QED
    BY <1>1, <2>1, <2>2, OrderHasAll
<1>4. /\ outgoing' \in Seq(Message)
      /\ Len(outgoing) \in Nat
      /\ Len(outgoing') = Len(s) + Len(outgoing)
      /\ \A i \in 1 .. Len(s) : outgoing'[i] = s[i] /\ s[i] \in Busy
      /\ \A i \in Len(s) + 1 .. Len(s) + Len(outgoing) :
           outgoing'[i] = outgoing[i - Len(s)]
      /\ \A i \in 1 .. Len(outgoing) : outgoing[i] \in Message
  <2>1. s \in Seq(Message)
    BY <1>1, <1>3
  <2>2. QED
    BY <1>2, <1>3, <2>1, Types
<1>5. /\ handler' = [m \in Message |-> "none"]
      /\ unsure' = [m \in Message |->
           IF handler[m] = "ack" THEN unsure[m] + 1 ELSE unsure[m]]
      /\ connected' = FALSE
      /\ UNCHANGED <<attempt, settled, copies, failures, faults>>
  BY DEF ProcessEnds
<1>6. TypeOK'
  <2>1. handler' \in [Message -> HandlerPhases] /\ unsure' \in [Message -> Nat]
    BY <1>5, Types DEF HandlerPhases
  <2>2. ends' \in 0 .. MaxEnds
    BY Limits DEF ProcessEnds, TypeOK
  <2>3. QED
    BY <1>4, <1>5, <2>1, <2>2 DEF TypeOK
<1>7. OnePlace'
  <2>1. \A i \in 1 .. Len(outgoing) : outgoing[i] \notin Busy
    BY DEF OnePlace, Busy
  <2>2. \A m \in Busy : settled[m] = "no"
    BY DEF OnePlace, Busy
  <2>0. /\ Len(s) \in Nat /\ Len(outgoing) \in Nat
        /\ Len(outgoing') = Len(s) + Len(outgoing)
    BY <1>3, <1>4
  <2>3. ASSUME NEW i \in 1 .. Len(outgoing'), NEW j \in 1 .. Len(outgoing'),
               i < j
        PROVE  outgoing'[i] # outgoing'[j]
    <3>1. CASE j <= Len(s)
      <4>1. i \in 1 .. Len(s) /\ j \in 1 .. Len(s) /\ i # j
        BY <2>3, <3>1, <2>0
      <4>2. outgoing'[i] = s[i] /\ outgoing'[j] = s[j]
        BY <1>4, <4>1
      <4>3. QED
        BY <1>3, <4>1, <4>2
    <3>2. CASE i > Len(s)
      <4>1. /\ i - Len(s) \in 1 .. Len(outgoing)
            /\ j - Len(s) \in 1 .. Len(outgoing)
            /\ i - Len(s) # j - Len(s)
        BY <1>3, <1>4, <2>3, <3>2
      <4>2. /\ i \in Len(s) + 1 .. Len(s) + Len(outgoing)
            /\ j \in Len(s) + 1 .. Len(s) + Len(outgoing)
        BY <1>3, <1>4, <2>3, <3>2
      <4>3. /\ outgoing'[i] = outgoing[i - Len(s)]
            /\ outgoing'[j] = outgoing[j - Len(s)]
        BY <1>4, <4>2
      <4>4. QED
        BY <4>1, <4>3 DEF OnePlace
    <3>3. CASE i <= Len(s) /\ j > Len(s)
      <4>0. /\ i \in 1 .. Len(s)
            /\ j \in Len(s) + 1 .. Len(s) + Len(outgoing)
            /\ j - Len(s) \in 1 .. Len(outgoing)
        BY <2>0, <2>3, <3>3
      <4>1. outgoing'[i] \in Busy
        BY <1>4, <4>0
      <4>2. outgoing'[j] = outgoing[j - Len(s)]
        BY <1>4, <4>0
      <4>3. QED
        BY <2>1, <4>0, <4>1, <4>2
    <3>4. QED
      BY <2>0, <3>1, <3>2, <3>3
  <2>4. \A i, j \in 1 .. Len(outgoing') : i # j => outgoing'[i] # outgoing'[j]
    <3>1. SUFFICES ASSUME NEW i \in 1 .. Len(outgoing'),
                          NEW j \in 1 .. Len(outgoing'), i # j
                   PROVE  outgoing'[i] # outgoing'[j]
      OBVIOUS
    <3>2. i < j \/ j < i
      BY <1>3, <1>4, <3>1
    <3>3. QED
      BY <2>3, <3>2
  <2>5. ASSUME NEW i \in 1 .. Len(outgoing')
        PROVE  handler'[outgoing'[i]] = "none" /\ settled'[outgoing'[i]] = "no"
    <3>1. CASE i <= Len(s)
      <4>1. i \in 1 .. Len(s)
        BY <1>3, <1>4, <3>1
      <4>2. outgoing'[i] \in Busy
        BY <1>4, <4>1
      <4>3. QED
        BY <1>1, <1>5, <2>2, <4>2
    <3>2. CASE i > Len(s)
      <4>1. i - Len(s) \in 1 .. Len(outgoing)
            /\ outgoing'[i] = outgoing[i - Len(s)]
        BY <1>3, <1>4, <3>2
      <4>2. QED
        BY <1>4, <1>5, <4>1 DEF OnePlace
    <3>3. QED
      BY <1>3, <1>4, <3>1, <3>2
  <2>6. ASSUME NEW m \in Message, settled'[m] = "no"
        PROVE  InQueue(m)'
    <3>1. m \in Busy \/ InQueue(m)
      BY <1>5, <2>6 DEF OnePlace, Busy
    <3>2. CASE m \in Busy
      <4>1. PICK i \in 1 .. Len(s) : s[i] = m
        BY <1>3, <3>2
      <4>2. i \in 1 .. Len(outgoing') /\ outgoing'[i] = m
        BY <1>3, <1>4, <4>1
      <4>3. QED
        BY <4>2 DEF InQueue
    <3>3. CASE InQueue(m)
      <4>1. PICK i \in 1 .. Len(outgoing) : outgoing[i] = m
        BY <3>3 DEF InQueue
      <4>2. /\ i + Len(s) \in Len(s) + 1 .. Len(s) + Len(outgoing)
            /\ i + Len(s) \in 1 .. Len(outgoing')
            /\ (i + Len(s)) - Len(s) = i
        BY <1>3, <1>4
      <4>3. outgoing'[i + Len(s)] = m
        BY <1>4, <4>1, <4>2
      <4>4. QED
        BY <4>2, <4>3 DEF InQueue
    <3>4. QED
      BY <3>1, <3>2, <3>3
  <2>7. QED
    BY <1>5, <2>4, <2>5, <2>6 DEF OnePlace
<1>8. ASSUME NEW m \in Message
      PROVE  Explained(m)'
  <2>1. settled[m] = "acked" => handler[m] # "ack"
    BY DEF OnePlace
  <2>2. QED
    BY <1>5, <2>1, Types DEF Explained, Sent, Dropped, GivenUp
<1>9. QED
  BY <1>6, <1>7, <1>8

-----------------------------------------------------------------------------
(* The callbacks                                                           *)

\* What is in the hands of a callback is not in the queue.
LEMMA OtherInQueue ==
  ASSUME TypeOK, OnePlace, NEW m \in Message, handler[m] # "none"
  PROVE  \A i \in 1 .. Len(outgoing) : outgoing[i] \in Message /\ outgoing[i] # m
<1>1. \A i \in 1 .. Len(outgoing) : outgoing[i] \in Message
  BY Types
<1>2. \A i \in 1 .. Len(outgoing) : handler[outgoing[i]] = "none"
  BY DEF OnePlace
<1>3. QED
  BY <1>1, <1>2

\* A callback that is not done leaves its message where it is.
LEMMA CallbackStays ==
  ASSUME TypeOK, OnePlace, NEW m \in Message, handler[m] # "none",
         NEW p, p # "none", Becomes(m, p), UNCHANGED <<outgoing, settled>>
  PROVE  OnePlace'
<1>1. /\ handler'[m] # "none"
      /\ \A k \in Message \ {m} : handler'[k] = handler[k]
  BY Types DEF Becomes
<1>2. \A i \in 1 .. Len(outgoing) : outgoing[i] \in Message /\ outgoing[i] # m
  BY OtherInQueue
<1>3. QED
  BY <1>1, <1>2 DEF OnePlace, InQueue

\* A message that is not the one of the callback is explained as before.
LEMMA OthersExplained ==
  ASSUME NEW k, Explained(k), handler'[k] = handler[k],
         settled'[k] = settled[k], attempt'[k] = attempt[k],
         copies'[k] = copies[k], unsure'[k] = unsure[k],
         failures'[k] = failures[k]
  PROVE  Explained(k)'
BY DEF Explained, Sent, Dropped, GivenUp

\* The lookup of the chat, and the pause.
LEMMA LookupKeeps ==
  ASSUME IInv, NEW m \in Message,
         Resolve(m) \/ ResolveFails(m) \/ PauseEnds(m)
  PROVE  IInv'
<1> USE DEF IInv
<1>1. PICK p \in {"drop", "send", "stuck"} :
        /\ Becomes(m, p)
        /\ p = "drop" => m \in Unreachable
        /\ p = "send" => handler[m] \in {"resolve", "pause"}
  BY DEF Resolve, ResolveFails, PauseEnds
<1>2. /\ handler[m] \in {"resolve", "pause"}
      /\ UNCHANGED <<outgoing, attempt, settled, connected, copies, unsure,
                     failures, ends>>
      /\ faults' \in 0 .. MaxFaults
  BY Limits DEF Resolve, ResolveFails, PauseEnds, history, Fails, TypeOK
<1>3. /\ handler' \in [Message -> HandlerPhases]
      /\ handler'[m] = p
      /\ \A k \in Message \ {m} : handler'[k] = handler[k]
  BY <1>1, Types DEF Becomes, HandlerPhases
<1>4. TypeOK'
  BY <1>2, <1>3 DEF TypeOK
<1>5. OnePlace'
  BY <1>1, <1>2, CallbackStays
<1>6. Explained(m)'
  <2>1. settled[m] = "no"
    BY <1>2 DEF OnePlace
  <2>2. QED
    BY <1>1, <1>2, <1>3, <2>1, Types DEF Explained, Sent, Dropped, GivenUp
<1>7. \A k \in Message \ {m} : Explained(k)'
  BY <1>2, <1>3, OthersExplained
<1>8. QED
  BY <1>4, <1>5, <1>6, <1>7

\* An attempt to send.
LEMMA SendKeeps ==
  ASSUME IInv, NEW m \in Message,
         SendSucceeds(m) \/ SendFails(m) \/ SendRefused(m) \/ SendRaises(m)
  PROVE  IInv'
<1> USE DEF IInv
<1>1. /\ handler[m] = "send" /\ settled[m] = "no"
      /\ UNCHANGED <<outgoing, settled, connected, ends>>
  BY DEF SendSucceeds, SendFails, SendRefused, SendRaises, OnePlace
<1>2. /\ attempt[m] <= failures[m] /\ attempt[m] < MaxAttempts
      /\ copies[m] <= unsure[m]
  <2>1. Explained(m) /\ ~ Sent(m)
    BY <1>1 DEF Sent
  <2>2. copies[m] \in Nat /\ unsure[m] \in Nat
    BY Types
  <2>3. QED
    BY <1>1, <2>1, <2>2 DEF Explained
<1>3. PICK p \in HandlerPhases \ {"none"} : Becomes(m, p)
  BY DEF SendSucceeds, SendFails, SendRefused, SendRaises, CountAttempt,
     HandlerPhases
<1>4. OnePlace'
  BY <1>1, <1>3, CallbackStays
<1>5. /\ handler' \in [Message -> HandlerPhases]
      /\ \A k \in Message \ {m} : handler'[k] = handler[k]
  BY <1>3, Types DEF Becomes
<1>6. faults' \in 0 .. MaxFaults
  BY Limits DEF SendSucceeds, SendFails, SendRefused, SendRaises, Fails, TypeOK
<1>7. /\ attempt' \in [Message -> 0 .. MaxAttempts]
      /\ copies' \in [Message -> Nat]
      /\ unsure' \in [Message -> Nat]
      /\ failures' \in [Message -> Nat]
  <2>1. CASE SendSucceeds(m)
    <3>1. /\ copies' = [copies EXCEPT ![m] = copies[m] + 1]
          /\ UNCHANGED <<attempt, unsure, failures>>
      BY <2>1 DEF SendSucceeds
    <3>2. copies[m] + 1 \in Nat /\ copies \in [Message -> Nat]
      BY Types
    <3>3. copies' \in [Message -> Nat]
      BY <3>1, <3>2
    <3>4. QED
      BY <3>1, <3>3 DEF TypeOK
  <2>2. CASE SendRefused(m)
    <3>1. failures[m] + MaxAttempts \in Nat
      BY Types
    <3>2. QED
      BY <2>2, <3>1, Types DEF SendRefused, TypeOK
  <2>3. CASE SendFails(m)
    <3>1. attempt[m] + 1 \in 0 .. MaxAttempts
      BY <1>2, Types
    <3>2. attempt' \in [Message -> 0 .. MaxAttempts]
      BY <2>3, <3>1 DEF SendFails, CountAttempt, TypeOK
    <3>3. failures' \in [Message -> Nat]
      BY <2>3, Types DEF SendFails
    <3>4. copies' \in [Message -> Nat] /\ unsure' \in [Message -> Nat]
      <4>1. CASE UNCHANGED <<copies, unsure>>
        BY <4>1, Types
      <4>2. CASE /\ copies' = [copies EXCEPT ![m] = @ + 1]
                 /\ unsure' = [unsure EXCEPT ![m] = @ + 1]
        BY <4>2, Types
      <4>3. QED
        BY <2>3, <4>1, <4>2 DEF SendFails, PerhapsArrived
    <3>5. QED
      BY <3>2, <3>3, <3>4
  <2>4. CASE SendRaises(m)
    <3>1. UNCHANGED <<attempt, failures>>
      BY <2>4 DEF SendRaises
    <3>2. copies' \in [Message -> Nat] /\ unsure' \in [Message -> Nat]
      <4>1. CASE UNCHANGED <<copies, unsure>>
        BY <4>1, Types
      <4>2. CASE /\ copies' = [copies EXCEPT ![m] = @ + 1]
                 /\ unsure' = [unsure EXCEPT ![m] = @ + 1]
        BY <4>2, Types
      <4>3. QED
        BY <2>4, <4>1, <4>2 DEF SendRaises, PerhapsArrived
    <3>3. QED
      BY <3>1, <3>2 DEF TypeOK
  <2>5. QED
    BY <2>1, <2>2, <2>3, <2>4
<1>8. TypeOK'
  BY <1>1, <1>5, <1>6, <1>7 DEF TypeOK
<1>9. ASSUME NEW k \in Message \ {m}
      PROVE  Explained(k)'
  <2>1. /\ attempt'[k] = attempt[k] /\ copies'[k] = copies[k]
        /\ unsure'[k] = unsure[k] /\ failures'[k] = failures[k]
    BY Types DEF SendSucceeds, SendFails, SendRefused, SendRaises,
       CountAttempt, PerhapsArrived
  <2>2. QED
    BY <1>1, <1>5, <2>1, OthersExplained
<1>10. Explained(m)'
  <2>1. CASE SendSucceeds(m)
    <3>1. /\ handler'[m] = "ack" /\ copies'[m] = copies[m] + 1
          /\ unsure' = unsure
      BY <2>1, Types DEF SendSucceeds, Becomes
    <3>2. QED
      BY <1>1, <1>2, <3>1, Types DEF Explained, Sent, Dropped, GivenUp
  <2>2. CASE SendFails(m)
    <3>1. /\ attempt'[m] = attempt[m] + 1
          /\ failures'[m] = failures[m] + 1
          /\ handler'[m] = IF attempt'[m] < MaxAttempts THEN "pause" ELSE "nack"
      BY <2>2, Types DEF SendFails, CountAttempt, Becomes
    <3>2. copies'[m] <= unsure'[m]
      BY <1>2, <2>2, Types DEF SendFails, PerhapsArrived
    <3>3. /\ settled'[m] = "no" /\ attempt[m] \in Nat /\ failures[m] \in Nat
          /\ copies'[m] \in Nat /\ unsure'[m] \in Nat
      BY <1>1, <1>7, Types
    <3>4. CASE attempt'[m] < MaxAttempts
      BY <1>2, <3>1, <3>2, <3>3, <3>4 DEF Explained, Sent, Dropped, GivenUp
    <3>5. CASE ~ (attempt'[m] < MaxAttempts)
      <4>1. failures'[m] >= MaxAttempts /\ handler'[m] = "nack"
        BY <1>2, <3>1, <3>3, <3>5, Limits
      <4>2. QED
        BY <3>2, <3>3, <4>1 DEF Explained, Sent, Dropped, GivenUp
    <3>6. QED
      BY <3>4, <3>5
  <2>3. CASE SendRefused(m)
    <3>1. /\ handler'[m] = "nack" /\ failures'[m] = failures[m] + MaxAttempts
          /\ copies' = copies /\ unsure' = unsure
      BY <2>3, Types DEF SendRefused, Becomes
    <3>2. QED
      BY <1>1, <1>2, <3>1, Types DEF Explained, Sent, Dropped, GivenUp
  <2>4. CASE SendRaises(m)
    <3>1. /\ handler'[m] = "stuck" /\ settled'[m] = "no"
          /\ copies'[m] <= unsure'[m]
      BY <1>1, <1>2, <2>4, Types DEF SendRaises, PerhapsArrived, Becomes
    <3>2. QED
      BY <1>7, <3>1 DEF Explained, Sent, Dropped, GivenUp
  <2>5. QED
    BY <2>1, <2>2, <2>3, <2>4
<1>11. QED
  BY <1>4, <1>8, <1>9, <1>10

\* The acknowledgement.
LEMMA SettleKeeps ==
  ASSUME IInv, NEW m \in Message, Settle(m)
  PROVE  IInv'
<1> USE DEF IInv
<1>1. PICK f \in {"acked", "dropped", "dead"} :
        /\ settled' = [settled EXCEPT ![m] = f]
        /\ f = "acked" <=> handler[m] = "ack"
        /\ f = "dropped" <=> handler[m] = "drop"
        /\ f = "dead" <=> handler[m] = "nack"
  <2>1. CASE handler[m] = "ack"
    BY <2>1 DEF Settle
  <2>2. CASE handler[m] = "drop"
    BY <2>2 DEF Settle
  <2>3. CASE handler[m] = "nack"
    BY <2>3 DEF Settle
  <2>4. QED
    BY <2>1, <2>2, <2>3 DEF Settle
<1>2. /\ handler' = [handler EXCEPT ![m] = "none"]
      /\ UNCHANGED <<outgoing, attempt, connected, copies, unsure, failures,
                     faults, ends>>
  BY DEF Settle, Becomes, history
<1>3. /\ handler' \in [Message -> HandlerPhases]
      /\ settled' \in [Message -> Fates]
      /\ handler'[m] = "none" /\ settled'[m] = f
      /\ \A k \in Message \ {m} :
           handler'[k] = handler[k] /\ settled'[k] = settled[k]
  BY <1>1, <1>2, Types DEF HandlerPhases, Fates
<1>4. TypeOK'
  BY <1>2, <1>3 DEF TypeOK
<1>5. OnePlace'
  <2>1. handler[m] # "none"
    BY DEF Settle
  <2>2. \A i \in 1 .. Len(outgoing) : outgoing[i] \in Message /\ outgoing[i] # m
    BY <2>1, OtherInQueue
  <2>3. QED
    BY <1>1, <1>2, <1>3, <2>2 DEF OnePlace, InQueue
<1>6. Explained(m)'
  <2>1. settled[m] = "no"
    BY DEF Settle, OnePlace
  <2>2. QED
    BY <1>1, <1>2, <1>3, <2>1 DEF Explained, Sent, Dropped, GivenUp
<1>7. \A k \in Message \ {m} : Explained(k)'
  BY <1>2, <1>3, OthersExplained
<1>8. QED
  BY <1>4, <1>5, <1>6, <1>7

-----------------------------------------------------------------------------
(* The theorems                                                            *)

\* The invariant is kept by every step.
LEMMA NextKeeps == IInv /\ [Next]_vars => IInv'
<1>1. SUFFICES ASSUME IInv, [Next]_vars PROVE IInv'
  OBVIOUS
<1>2. CASE Run
  BY <1>1, <1>2 DEF Run, IInv, TypeOK, OnePlace, InQueue, Explained, Sent,
     Dropped, GivenUp, history
<1>3. CASE UNCHANGED vars
  BY <1>1, <1>3 DEF vars, IInv, TypeOK, OnePlace, InQueue, Explained, Sent,
     Dropped, GivenUp, history
<1>4. QED
  BY <1>1, <1>2, <1>3, PublishKeeps, ReceiveKeeps, ProcessEndsKeeps,
     LookupKeeps, SendKeeps, SettleKeeps DEF Next, CallbackStep

\* The invariant holds in every reachable state.
LEMMA Invariance == Spec => []IInv
BY InitIInv, NextKeeps, PTL DEF Spec

\* The variables keep their types: no callback makes more than MaxAttempts
\* attempts.
THEOREM TypeCorrectness == Spec => []TypeOK
<1>1. IInv => TypeOK
  BY DEF IInv
<1>2. QED
  BY <1>1, Invariance, PTL

\* However the process ends and whatever fails, a published message is in the
\* queue or in the hands of a callback until it is settled for a reason.
THEOREM NothingLostHolds == Spec => []NothingLost
<1>1. ASSUME IInv
      PROVE  NothingLost
  <2>1. SUFFICES ASSUME NEW m \in Message
                 PROVE  /\ settled[m] = "no" => m \in Busy \/
                             \E i \in DOMAIN outgoing : outgoing[i] = m
                        /\ settled[m] = "acked" => copies[m] > 0
                        /\ settled[m] = "dropped" =>
                             m \in OtherChannel \union Unreachable
    BY DEF NothingLost
  <2>2. DOMAIN outgoing = 1 .. Len(outgoing)
    BY <1>1, Types DEF IInv
  <2>3. QED
    BY <1>1, <2>2 DEF IInv, OnePlace, Busy, InQueue, Explained, Sent, Dropped
<1>2. QED
  BY <1>1, Invariance, PTL

\* A person sees a message once more for every answer of Telegram and every
\* acknowledgement that was lost, and never without one.
THEOREM CopiesExplainedHolds == Spec => []CopiesExplained
<1>1. ASSUME IInv
      PROVE  CopiesExplained
  <2>1. SUFFICES ASSUME NEW m \in Message
                 PROVE  copies[m] <= 1 + unsure[m]
    BY DEF CopiesExplained
  <2>2. Explained(m) /\ copies[m] \in Nat /\ unsure[m] \in Nat
    BY <1>1, Types DEF IInv
  <2>3. QED
    BY <2>2 DEF Explained
<1>2. QED
  BY <1>1, Invariance, PTL

\* No message is dead-lettered before Telegram refused it or it failed
\* MaxAttempts times in one callback.
THEOREM GivenUpLateHolds == Spec => []GivenUpLate
<1>1. IInv => GivenUpLate
  BY DEF IInv, GivenUpLate, Explained, GivenUp
<1>2. QED
  BY <1>1, Invariance, PTL
=============================================================================
