-------------------------- MODULE MediaNotes_proofs --------------------------
(***************************************************************************)
(* TLAPS proofs about MediaNotes and the calls of FallbackChain that it    *)
(* makes, for any configuration of the chains, any batch and any limits.   *)
(* First come facts about recursions over numbers, which the chain of a    *)
(* call is made of.                                                        *)
(***************************************************************************)
EXTENDS MediaNotes, FiniteSetTheorems, WellFoundedInduction, TLAPS

-----------------------------------------------------------------------------
(* Recursion over numbers                                                  *)

\* Numbers are compared as elements of a relation, so that the theorems about
\* well-founded relations can be used.
Less == {p \in Nat \X Nat : p[1] < p[2]}

\* Every set of numbers has a least one.
LEMMA LessWellFounded == IsWellFoundedOn(Less, Nat)
BY NatLessThanWellFounded DEF OpToRel, Less

\* A set of numbers that has 0 and with each number the next has all.
LEMMA NatSetInduction ==
  ASSUME NEW S, 0 \in S, \A n \in Nat : n \in S => n + 1 \in S
  PROVE  Nat \subseteq S
<1> DEFINE T == Nat \ S
<1>1. SUFFICES ASSUME T # {} PROVE FALSE
  OBVIOUS
<1>2. PICK x \in T : \A y \in T : <<y, x>> \notin Less
  BY <1>1, WFMin, LessWellFounded
<1>3. x \in Nat /\ x # 0 /\ x - 1 \in Nat
  BY <1>2
<1>4. x - 1 \notin T
  <2>1. <<x - 1, x>> \in Nat \X Nat /\ x - 1 < x
    BY <1>3
  <2>2. <<x - 1, x>> \in Less
    BY <2>1 DEF Less
  <2>3. QED
    BY <1>2, <2>2
<1>5. QED
  BY <1>2, <1>3, <1>4

\* A run of a recursion from v over the steps 1 .. n.
Runs(n, V, v, step) ==
  {g \in [0 .. n -> V] : /\ g[0] = v
                         /\ \A i \in 1 .. n : g[i] = step[i][g[i - 1]]}

\* Every recursion over numbers can be run as far as one likes.
LEMMA RunsExist ==
  ASSUME NEW V, NEW v \in V, NEW step, NEW N \in Nat,
         \A n \in 1 .. N : step[n] \in [V -> V]
  PROVE  Runs(N, V, v, step) # {}
<1> DEFINE S == {n \in Nat : n <= N => Runs(n, V, v, step) # {}}
<1>1. 0 \in S
  <2>1. [i \in 0 .. 0 |-> v] \in Runs(0, V, v, step)
    BY DEF Runs
  <2>2. QED
    BY <2>1
<1>2. ASSUME NEW n \in Nat, n \in S PROVE n + 1 \in S
  <2>1. SUFFICES ASSUME n + 1 <= N PROVE Runs(n + 1, V, v, step) # {}
    OBVIOUS
  <2>2. PICK g \in [0 .. n -> V] : /\ g[0] = v
                                   /\ \A i \in 1 .. n : g[i] = step[i][g[i - 1]]
    BY <1>2, <2>1 DEF Runs
  <2> DEFINE h == [i \in 0 .. n + 1 |-> IF i = n + 1 THEN step[n + 1][g[n]]
                                        ELSE g[i]]
  <2>3. h \in [0 .. n + 1 -> V]
    BY <2>1
  <2>4. h[0] = v
    BY <2>2
  <2>5. \A i \in 1 .. n + 1 : h[i] = step[i][h[i - 1]]
    <3>1. TAKE i \in 1 .. n + 1
    <3>2. CASE i = n + 1
      BY <3>2
    <3>3. CASE i # n + 1
      <4>1. i \in 1 .. n /\ h[i] = g[i] /\ h[i - 1] = g[i - 1]
        BY <3>3
      <4>2. QED
        BY <2>2, <4>1
    <3>4. QED
      BY <3>2, <3>3
  <2> HIDE DEF h
  <2>6. QED
    BY <2>3, <2>4, <2>5 DEF Runs
<1> HIDE DEF S
<1>3. Nat \subseteq S
  BY <1>1, <1>2, NatSetInduction
<1>4. QED
  BY <1>3 DEF S

\* Two runs agree as far as both go.
LEMMA RunsAgree ==
  ASSUME NEW V, NEW v, NEW step, NEW m \in Nat, NEW n \in Nat,
         NEW g \in Runs(m, V, v, step), NEW h \in Runs(n, V, v, step)
  PROVE  \A i \in Nat : i <= m /\ i <= n => g[i] = h[i]
<1> DEFINE S == {i \in Nat : i <= m /\ i <= n => g[i] = h[i]}
<1>1. 0 \in S
  BY DEF Runs
<1>2. ASSUME NEW i \in Nat, i \in S PROVE i + 1 \in S
  <2>1. SUFFICES ASSUME i + 1 <= m, i + 1 <= n PROVE g[i + 1] = h[i + 1]
    OBVIOUS
  <2>2. i + 1 \in 1 .. m /\ i + 1 \in 1 .. n /\ g[i] = h[i] /\ (i + 1) - 1 = i
    BY <1>2, <2>1
  <2>3. /\ g[i + 1] = step[i + 1][g[(i + 1) - 1]]
        /\ h[i + 1] = step[i + 1][h[(i + 1) - 1]]
    BY <2>2 DEF Runs
  <2>4. QED
    BY <2>2, <2>3
<1> HIDE DEF S
<1>3. Nat \subseteq S
  BY <1>1, <1>2, NatSetInduction
<1>4. QED
  BY <1>3 DEF S

-----------------------------------------------------------------------------
(* The candidates                                                          *)

\* What entry n of a role contributes to its candidates.
Part(role, modality, n) ==
  IF Fits(Config[role][n], role, modality) THEN Pairs(Config[role][n]) ELSE <<>>

\* The loop of _chain, as far as entry n.
Upto(role, modality) ==
  CHOOSE f : f = [n \in 0 .. Len(Config[role]) |->
                    IF n = 0 THEN <<>>
                    ELSE f[n - 1] \o Part(role, modality, n)]

\* The candidate that the model at place m of an entry makes.
Named(entry, m) == [provider |-> entry.provider, model |-> entry.models[m]]

\* c is one of the elements of s.
In(c, s) == \E k \in 1 .. Len(s) : c = s[k]

\* c is a candidate that entry n offers.
Offers(role, modality, n, c) ==
  /\ Fits(Config[role][n], role, modality)
  /\ \E m \in 1 .. Len(Config[role][n].models) : c = Named(Config[role][n], m)

\* The entries of a role.
LEMMA Entries ==
  ASSUME NEW role \in Role
  PROVE  /\ Len(Config[role]) \in Nat
         /\ \A n \in 1 .. Len(Config[role]) : Config[role][n] \in Entry
BY ChainAssumption

\* What an entry contributes are the pairs of its provider and its models.
LEMMA PartOfEntry ==
  ASSUME NEW role \in Role, NEW modality, NEW n \in 1 .. Len(Config[role]),
         NEW c
  PROVE  /\ Part(role, modality, n) \in Seq(Candidate)
         /\ In(c, Part(role, modality, n)) <=> Offers(role, modality, n, c)
<1> DEFINE entry == Config[role][n]
<1>1. entry \in Entry
  BY Entries
<1>2. /\ entry.provider \in Provider /\ entry.models \in Seq(Nat)
      /\ Len(entry.models) \in Nat
      /\ DOMAIN entry.models = 1 .. Len(entry.models)
      /\ \A m \in 1 .. Len(entry.models) : entry.models[m] \in Nat
  BY <1>1 DEF Entry
<1> HIDE DEF entry
<1> DEFINE pairs == [m \in 1 .. Len(entry.models) |-> Named(entry, m)]
<1>3. Pairs(entry) = pairs
  BY <1>2 DEF Pairs, Named
<1>4. \A m \in 1 .. Len(entry.models) : Named(entry, m) \in Candidate
  BY <1>2 DEF Named, Candidate
<1>5. /\ pairs \in Seq(Candidate) /\ Len(pairs) = Len(entry.models)
      /\ \A m \in 1 .. Len(entry.models) : pairs[m] = Named(entry, m)
  BY <1>2, <1>4
<1> HIDE DEF pairs
<1>6. CASE Fits(entry, role, modality)
  <2>1. Part(role, modality, n) = pairs
    BY <1>3, <1>6 DEF Part, entry
  <2>2. QED
    BY <1>5, <1>6, <2>1 DEF entry, In, Offers
<1>7. CASE ~Fits(entry, role, modality)
  <2>1. Part(role, modality, n) = <<>>
    BY <1>7 DEF Part, entry
  <2>2. <<>> \in Seq(Candidate) /\ 1 .. Len(<<>>) = {}
    OBVIOUS
  <2>3. QED
    BY <1>7, <2>1, <2>2 DEF entry, In, Offers
<1>8. QED
  BY <1>6, <1>7

\* The loop is a recursion that has a solution.
LEMMA UptoSolved ==
  ASSUME NEW role \in Role, NEW modality
  PROVE  Upto(role, modality) =
           [n \in 0 .. Len(Config[role]) |->
              IF n = 0 THEN <<>>
              ELSE Upto(role, modality)[n - 1] \o Part(role, modality, n)]
<1>0. PICK N : N = Len(Config[role]) /\ N \in Nat
  BY Entries
<1>1. PICK step : step = [n \in 1 .. N |-> [s \in Seq(Candidate) |->
                                              s \o Part(role, modality, n)]]
  OBVIOUS
<1>2. \A n \in 1 .. N : step[n] \in [Seq(Candidate) -> Seq(Candidate)]
  <2>1. TAKE n \in 1 .. N
  <2>2. Part(role, modality, n) \in Seq(Candidate)
    BY <1>0, PartOfEntry
  <2>3. QED
    BY <1>1, <2>2
<1>3. <<>> \in Seq(Candidate)
  OBVIOUS
<1>4. Runs(N, Seq(Candidate), <<>>, step) # {}
  BY <1>0, <1>2, <1>3, RunsExist
<1>5. PICK g \in [0 .. N -> Seq(Candidate)] :
        g[0] = <<>> /\ \A i \in 1 .. N : g[i] = step[i][g[i - 1]]
  BY <1>4 DEF Runs
<1>6. ASSUME NEW n \in 0 .. N
      PROVE  g[n] = IF n = 0 THEN <<>> ELSE g[n - 1] \o Part(role, modality, n)
  <2>1. CASE n = 0
    BY <1>5, <2>1
  <2>2. CASE n # 0
    <3>1. n \in 1 .. N /\ n - 1 \in 0 .. N
      BY <1>0, <2>2
    <3>2. g[n] = step[n][g[n - 1]] /\ g[n - 1] \in Seq(Candidate)
      BY <1>5, <3>1
    <3>3. step[n] = [s \in Seq(Candidate) |-> s \o Part(role, modality, n)]
      BY <1>1, <3>1
    <3>4. QED
      BY <2>2, <3>2, <3>3
  <2>3. QED
    BY <2>1, <2>2
<1>7. g = [n \in 0 .. N |-> g[n]]
  BY <1>5
<1>8. g = [n \in 0 .. N |->
             IF n = 0 THEN <<>> ELSE g[n - 1] \o Part(role, modality, n)]
  BY <1>6, <1>7, Zenon
<1>9. QED
  BY <1>0, <1>8 DEF Upto

\* The candidates are the end of the loop.
LEMMA CandidatesAreUpto ==
  ASSUME NEW role, NEW modality
  PROVE  Candidates(role, modality) = Upto(role, modality)[Len(Config[role])]
BY DEF Candidates, Upto, Part

\* The elements of a concatenation.
LEMMA ElementsOfBoth ==
  ASSUME NEW T, NEW s \in Seq(T), NEW t \in Seq(T), NEW c
  PROVE  /\ s \o t \in Seq(T)
         /\ In(c, s \o t) <=> In(c, s) \/ In(c, t)
<1>1. /\ s \o t \in Seq(T) /\ Len(s \o t) = Len(s) + Len(t)
      /\ Len(s) \in Nat /\ Len(t) \in Nat
      /\ \A k \in 1 .. Len(s) : (s \o t)[k] = s[k]
      /\ \A k \in 1 .. Len(t) : (s \o t)[Len(s) + k] = t[k]
  OBVIOUS
<1>2. ASSUME NEW k \in 1 .. Len(s \o t), c = (s \o t)[k]
      PROVE  \/ \E j \in 1 .. Len(s) : c = s[j]
             \/ \E j \in 1 .. Len(t) : c = t[j]
  <2>1. CASE k \in 1 .. Len(s)
    BY <1>1, <1>2, <2>1
  <2>2. CASE k \notin 1 .. Len(s)
    <3>1. k - Len(s) \in 1 .. Len(t) /\ Len(s) + (k - Len(s)) = k
      BY <1>1, <2>2
    <3>2. c = t[k - Len(s)]
      BY <1>1, <1>2, <3>1
    <3>3. QED
      BY <3>1, <3>2
  <2>3. QED
    BY <2>1, <2>2
<1>3. ASSUME NEW k \in 1 .. Len(s), c = s[k]
      PROVE  \E j \in 1 .. Len(s \o t) : c = (s \o t)[j]
  <2>1. k \in 1 .. Len(s \o t) /\ (s \o t)[k] = s[k]
    BY <1>1
  <2>2. QED
    BY <1>3, <2>1
<1>4. ASSUME NEW k \in 1 .. Len(t), c = t[k]
      PROVE  \E j \in 1 .. Len(s \o t) : c = (s \o t)[j]
  <2>1. Len(s) + k \in 1 .. Len(s \o t) /\ (s \o t)[Len(s) + k] = t[k]
    BY <1>1
  <2>2. QED
    BY <1>4, <2>1
<1>5. QED
  BY <1>1, <1>2, <1>3, <1>4 DEF In

\* The loop has collected the offers of the entries it has passed.
LEMMA UptoCollects ==
  ASSUME NEW role \in Role, NEW modality, NEW c
  PROVE  \A n \in 0 .. Len(Config[role]) :
           /\ Upto(role, modality)[n] \in Seq(Candidate)
           /\ In(c, Upto(role, modality)[n])
                <=> \E i \in 1 .. n : Offers(role, modality, i, c)
<1>1. PICK N : N = Len(Config[role]) /\ N \in Nat
  BY Entries
<1>2. PICK u : u = Upto(role, modality)
  OBVIOUS
<1>3. u = [n \in 0 .. N |->
             IF n = 0 THEN <<>> ELSE u[n - 1] \o Part(role, modality, n)]
  <2>1. Upto(role, modality) =
          [n \in 0 .. Len(Config[role]) |->
             IF n = 0 THEN <<>>
             ELSE Upto(role, modality)[n - 1] \o Part(role, modality, n)]
    BY UptoSolved, Zenon
  <2>2. QED
    BY <1>1, <1>2, <2>1, Zenon
<1> DEFINE Collected(n) ==
      /\ u[n] \in Seq(Candidate)
      /\ In(c, u[n]) <=> \E i \in 1 .. n : Offers(role, modality, i, c)
    S == {n \in Nat : n <= N => Collected(n)}
<1>4. 0 \in S
  <2>1. 0 \in 0 .. N
    BY <1>1
  <2>2. u[0] = <<>>
    BY <1>3, <2>1
  <2>3. <<>> \in Seq(Candidate) /\ ~In(c, <<>>)
    BY DEF In
  <2>4. ~\E i \in 1 .. 0 : Offers(role, modality, i, c)
    OBVIOUS
  <2>5. QED
    BY <2>2, <2>3, <2>4
<1>5. ASSUME NEW n \in Nat, n \in S PROVE n + 1 \in S
  <2>1. SUFFICES ASSUME n + 1 <= N PROVE Collected(n + 1)
    OBVIOUS
  <2>2. Collected(n)
    BY <1>1, <1>5, <2>1
  <2>3. PICK s, t : s = u[n] /\ t = Part(role, modality, n + 1)
    OBVIOUS
  <2>4. u[n + 1] = s \o t
    <3>1. n + 1 \in 0 .. N /\ n + 1 # 0 /\ (n + 1) - 1 = n
      BY <1>1, <2>1
    <3>2. QED
      BY <1>3, <2>3, <3>1
  <2>5. t \in Seq(Candidate) /\ (In(c, t) <=> Offers(role, modality, n + 1, c))
    <3>1. n + 1 \in 1 .. Len(Config[role])
      BY <1>1, <2>1
    <3>2. QED
      BY <2>3, <3>1, PartOfEntry
  <2>6. /\ s \in Seq(Candidate)
        /\ In(c, s) <=> \E i \in 1 .. n : Offers(role, modality, i, c)
    BY <2>2, <2>3
  <2>7. s \o t \in Seq(Candidate) /\ (In(c, s \o t) <=> In(c, s) \/ In(c, t))
    BY <2>5, <2>6, ElementsOfBoth
  <2>8. (\E i \in 1 .. n + 1 : Offers(role, modality, i, c))
          <=> \/ \E i \in 1 .. n : Offers(role, modality, i, c)
              \/ Offers(role, modality, n + 1, c)
    <3>1. 1 .. n + 1 = (1 .. n) \union {n + 1}
      OBVIOUS
    <3>2. QED
      BY <3>1
  <2>9. QED
    BY <2>4, <2>5, <2>6, <2>7, <2>8
<1> HIDE DEF S
<1>6. Nat \subseteq S
  BY <1>4, <1>5, NatSetInduction
<1>7. \A n \in 0 .. N : Collected(n)
  BY <1>1, <1>6 DEF S
<1>8. QED
  BY <1>1, <1>2, <1>7

\* The chain of a call consists of the models of those entries of its role
\* that are good for the modality, and of nothing else, however the chains are
\* configured (_chain).
THEOREM CandidatesAreThoseThatFit ==
  ASSUME NEW role \in Role, NEW modality, NEW c
  PROVE  /\ Candidates(role, modality) \in Seq(Candidate)
         /\ In(c, Candidates(role, modality))
              <=> \E n \in 1 .. Len(Config[role]) : Offers(role, modality, n, c)
<1>1. Len(Config[role]) \in 0 .. Len(Config[role])
  BY Entries
<1>2. Candidates(role, modality) = Upto(role, modality)[Len(Config[role])]
  BY CandidatesAreUpto
<1>3. QED
  BY <1>1, <1>2, UptoCollects

-----------------------------------------------------------------------------
(* The calls                                                               *)

\* An outcome that ends a call with an answer.
Answers(outcome, role) ==
  outcome = "text" \/ (outcome = "empty" /\ role # "search")

\* A call has tried a sequence of candidates; none but the last has answered,
\* and the last has just when the call is answered.
CallOK(c) ==
  /\ c.tried \in Seq(Outcomes)
  /\ \A n \in 1 .. Len(c.tried) :
       Answers(c.tried[n], c.role) => n = Len(c.tried) /\ c.phase = "answered"
  /\ c.phase = "answered" => /\ c.tried # <<>>
                             /\ Answers(c.tried[Len(c.tried)], c.role)
  /\ c.phase = "exhausted" => Len(c.tried) = Len(c.chain)

CallFields == {"phase", "role", "chain", "tried"}
CallRecord(c) == c = [f \in CallFields |-> c[f]]

CallsOK ==
  /\ call = [k \in Call |-> call[k]]
  /\ \A k \in Call : CallRecord(call[k]) /\ CallOK(call[k])

\* Every handler of a failure goes on, pauses or gives up, and only an answer
\* ends a call as answered.
LEMMA AfterAnswers ==
  ASSUME NEW role, NEW outcome \in Outcomes \ {"unavailable"}
  PROVE  After(role, outcome) = "answered" <=> Answers(outcome, role)
BY DEF After, Answers, Outcomes, Failures

\* After(...) is never "exhausted".
LEMMA AfterGoesOn ==
  ASSUME NEW role, NEW outcome \in Outcomes \ {"unavailable"}
  PROVE  After(role, outcome) # "exhausted"
BY DEF After, Outcomes, Failures

\* It is enough to look at the call that changes.
LEMMA CallChanges ==
  ASSUME CallsOK, NEW k \in Call, NEW d, CallRecord(d), CallOK(d),
         call' = [call EXCEPT ![k] = d]
  PROVE  CallsOK'
<1>1. /\ call' = [l \in Call |-> call'[l]]
      /\ \A l \in Call : call'[l] = IF l = k THEN d ELSE call[l]
  BY DEF CallsOK
<1>2. QED
  BY <1>1 DEF CallsOK

\* One more outcome, of a call that had no answer yet.
LEMMA OneMoreTried ==
  ASSUME NEW k \in Call, CallsOK, call[k].phase \in {"next", "asked"},
         NEW outcome \in Outcomes, NEW phase,
         phase = "answered" <=> Answers(outcome, call[k].role),
         phase # "exhausted",
         Move(k, phase, outcome)
  PROVE  CallsOK'
<1> DEFINE c == call[k]
           d == [c EXCEPT !.phase = phase, !.tried = Append(@, outcome)]
<1>1. CallRecord(c) /\ CallOK(c)
  BY DEF CallsOK
<1>2. /\ d.phase = phase /\ d.role = c.role /\ d.chain = c.chain
      /\ d.tried = Append(c.tried, outcome)
      /\ CallRecord(d)
  BY <1>1 DEF CallRecord, CallFields
<1>3. call' = [call EXCEPT ![k] = d]
  BY DEF Move
<1>4. CallOK(d)
  <2>1. c.tried \in Seq(Outcomes)
    BY <1>1 DEF CallOK
  <2>2. /\ d.tried \in Seq(Outcomes) /\ Len(d.tried) = Len(c.tried) + 1
        /\ d.tried[Len(d.tried)] = outcome /\ d.tried # <<>>
        /\ \A n \in 1 .. Len(c.tried) : d.tried[n] = c.tried[n]
    BY <1>2, <2>1
  <2>3. \A n \in 1 .. Len(c.tried) : ~Answers(c.tried[n], c.role)
    BY <1>1 DEF CallOK
  <2>4. Len(c.tried) \in Nat
    BY <2>1
  <2>5. \A n \in 1 .. Len(d.tried) : n = Len(d.tried) \/ n \in 1 .. Len(c.tried)
    BY <2>2, <2>4
  <2> HIDE DEF d, c
  <2>6. \A n \in 1 .. Len(d.tried) :
          Answers(d.tried[n], d.role) => n = Len(d.tried) /\ d.phase = "answered"
    BY <1>2, <2>2, <2>3, <2>5 DEF c
  <2>7. QED
    BY <1>2, <2>2, <2>6 DEF CallOK, c
<1> HIDE DEF d
<1>5. QED
  BY <1>2, <1>3, <1>4, CallChanges

\* A call begins with nothing tried.
LEMMA BeginKeeps ==
  ASSUME CallsOK, NEW k \in Call, NEW role, NEW modality,
         Begin(k, role, modality)
  PROVE  CallsOK'
<1> DEFINE d == [NoCall EXCEPT !.phase = "next", !.role = role,
                               !.chain = Candidates(role, modality)]
<1>1. /\ d.phase = "next" /\ d.tried = <<>> /\ CallRecord(d)
  BY DEF NoCall, CallRecord, CallFields
<1>2. call' = [call EXCEPT ![k] = d]
  BY DEF Begin
<1> HIDE DEF d
<1>3. CallOK(d)
  BY <1>1 DEF CallOK
<1>4. QED
  BY <1>1, <1>2, <1>3, CallChanges

\* A call whose description was taken over is as good as new.
LEMMA ResetKeeps ==
  ASSUME CallsOK, NEW k \in Call, call' = [call EXCEPT ![k] = NoCall]
  PROVE  CallsOK'
<1>1. NoCall.phase = "idle" /\ NoCall.tried = <<>> /\ CallRecord(NoCall)
  BY DEF NoCall, CallRecord, CallFields
<1>2. CallOK(NoCall)
  BY <1>1 DEF CallOK
<1>3. QED
  BY <1>1, <1>2, CallChanges

\* Another phase, with the outcomes as they are.
LEMMA PhaseKeeps ==
  ASSUME CallsOK, NEW k \in Call, NEW phase,
         call' = [call EXCEPT ![k].phase = phase],
         call[k].phase \in {"next", "pause"}, phase # "answered",
         phase = "exhausted" => Len(call[k].tried) = Len(call[k].chain)
  PROVE  CallsOK'
<1> DEFINE c == call[k]
           d == [c EXCEPT !.phase = phase]
<1>1. CallRecord(c) /\ CallOK(c)
  BY DEF CallsOK
<1>2. /\ d.phase = phase /\ d.role = c.role /\ d.chain = c.chain
      /\ d.tried = c.tried /\ CallRecord(d)
  BY <1>1 DEF CallRecord, CallFields
<1>3. CallOK(d)
  BY <1>1, <1>2 DEF CallOK
<1>4. call' = [call EXCEPT ![k] = d]
  OBVIOUS
<1> HIDE DEF d
<1>5. QED
  BY <1>2, <1>3, <1>4, CallChanges

\* The loops of the router and of the search chain.
LEMMA ChainStepKeeps ==
  ASSUME CallsOK, NEW k \in Call, ChainStep(k)
  PROVE  CallsOK'
<1>1. CASE Skip(k)
  <2>1. Move(k, "next", "unavailable") /\ call[k].phase = "next"
    BY <1>1 DEF Skip
  <2>2. ~Answers("unavailable", call[k].role) /\ "unavailable" \in Outcomes
    BY DEF Answers, Outcomes, Failures
  <2>3. QED
    BY <2>1, <2>2, OneMoreTried
<1>2. ASSUME NEW outcome \in Outcomes \ {"unavailable"}, Respond(k, outcome)
      PROVE  CallsOK'
  <2>1. /\ Move(k, After(call[k].role, outcome), outcome)
        /\ call[k].phase = "asked"
    BY <1>2 DEF Respond
  <2>2. QED
    BY <2>1, AfterAnswers, AfterGoesOn, OneMoreTried
<1>3. CASE Ask(k)
  BY <1>3, PhaseKeeps DEF Ask
<1>4. CASE PauseEnds(k)
  BY <1>4, PhaseKeeps DEF PauseEnds
<1>5. CASE Exhausted(k)
  BY <1>5, PhaseKeeps DEF Exhausted
<1>6. QED
  BY <1>1, <1>2, <1>3, <1>4, <1>5 DEF ChainStep

\* The attachments' calls are those of their items.
LEMMA ItemsCall == Item \subseteq Call /\ OtherCall \subseteq Call
BY NotesAssumption

\* Every step keeps the calls in order.
LEMMA CallsKept ==
  ASSUME CallsOK, [Next]_vars
  PROVE  CallsOK'
<1>1. ASSUME UNCHANGED call PROVE CallsOK'
  BY <1>1 DEF CallsOK
<1>2. ASSUME NEW i \in Item, ItemStep(i) PROVE CallsOK'
  <2>1. CASE Enter(i) \/ GiveUp(i)
    BY <1>1, <2>1 DEF Enter, GiveUp, chainVars
  <2>2. CASE Fetch(i)
    BY <1>1, <2>2, BeginKeeps, ItemsCall DEF Fetch, chainVars
  <2>3. CASE Described(i)
    BY <2>3, ResetKeeps, ItemsCall DEF Described
  <2>4. QED
    BY <1>2, <2>1, <2>2, <2>3 DEF ItemStep
<1>3. CASE UNCHANGED vars
  BY <1>1, <1>3 DEF vars, chainVars
<1>4. QED
  BY <1>2, <1>3, ChainStepKeeps, BeginKeeps, ItemsCall DEF Next

\* In every reachable state the calls are as their candidates left them.
THEOREM CallsFollowTheirChains == Spec => []CallsOK
<1>1. Init => CallsOK
  <2> SUFFICES ASSUME Init PROVE CallsOK
    OBVIOUS
  <2>1. call = [k \in Call |-> NoCall]
    BY DEF Init, ChainInit
  <2>2. NoCall.phase = "idle" /\ NoCall.tried = <<>> /\ CallRecord(NoCall)
    BY DEF NoCall, CallRecord, CallFields
  <2>3. CallOK(NoCall)
    BY <2>2 DEF CallOK
  <2>4. QED
    BY <2>1, <2>2, <2>3 DEF CallsOK
<1>2. CallsOK /\ [Next]_vars => CallsOK'
  BY CallsKept
<1>3. QED
  BY <1>1, <1>2, PTL DEF Spec

\* Whatever the candidates do, the first that answers is the one whose answer
\* is used and nobody is asked after it, and a call is exhausted only after all
\* of them (generate_with_fallback, embed, SearchChain.search).
THEOREM FirstAnswerWinsHolds == Spec => []FirstAnswerWins
<1>1. CallsOK => FirstAnswerWins
  <2> SUFFICES ASSUME CallsOK, NEW k \in Call
               PROVE  LET c == call[k]
                          answers(n) == \/ c.tried[n] = "text"
                                        \/ c.tried[n] = "empty" /\ c.role # "search"
                      IN /\ \A n \in DOMAIN c.tried :
                              answers(n) => /\ n = Len(c.tried)
                                            /\ c.phase = "answered"
                         /\ c.phase = "answered" =>
                              c.tried # <<>> /\ answers(Len(c.tried))
                         /\ c.phase = "exhausted" => Len(c.tried) = Len(c.chain)
    BY DEF FirstAnswerWins
  <2>1. CallOK(call[k])
    BY DEF CallsOK
  <2>2. DOMAIN call[k].tried = 1 .. Len(call[k].tried)
    BY <2>1 DEF CallOK
  <2>3. QED
    BY <2>1, <2>2 DEF CallOK, Answers
<1>2. QED
  BY <1>1, CallsFollowTheirChains, PTL

-----------------------------------------------------------------------------
(* The types of the calls                                                  *)

CallType == [phase : Phases, role : Role, chain : Seq(Candidate),
             tried : Seq(Outcomes)]

\* A call tries no more candidates than it has; the one that is asked is one
\* of them.
CallTyped(c) ==
  /\ c \in CallType
  /\ Len(c.tried) <= Len(c.chain)
  /\ c.phase = "asked" => Len(c.tried) < Len(c.chain)

CallsTyped ==
  /\ call \in [Call -> CallType]
  /\ \A k \in Call : CallTyped(call[k])

\* It is enough to look at the call that changes.
LEMMA TypedChanges ==
  ASSUME CallsTyped, NEW k \in Call, NEW d, CallTyped(d),
         call' = [call EXCEPT ![k] = d]
  PROVE  CallsTyped'
<1>1. /\ d \in CallType /\ call' \in [Call -> CallType]
      /\ \A l \in Call : call'[l] = IF l = k THEN d ELSE call[l]
  BY DEF CallsTyped, CallTyped
<1>2. QED
  BY <1>1 DEF CallsTyped

\* What the handlers do is one of the phases.
LEMMA AfterPhase ==
  ASSUME NEW role, NEW outcome \in Outcomes \ {"unavailable"}
  PROVE  After(role, outcome) \in Phases \ {"asked", "exhausted", "idle"}
BY DEF After, Outcomes, Failures, Phases

\* A candidate more was tried.
LEMMA MoveTyped ==
  ASSUME NEW k \in Call, CallsTyped, NEW outcome \in Outcomes,
         Len(call[k].tried) < Len(call[k].chain),
         NEW phase \in Phases \ {"asked"}, Move(k, phase, outcome)
  PROVE  CallsTyped'
<1> DEFINE c == call[k]
           d == [c EXCEPT !.phase = phase, !.tried = Append(@, outcome)]
<1>1. c \in CallType
  BY DEF CallsTyped
<1>2. /\ c.tried \in Seq(Outcomes) /\ Len(c.tried) \in Nat
      /\ c.chain \in Seq(Candidate) /\ Len(c.chain) \in Nat
  BY <1>1 DEF CallType
<1>3. /\ Append(c.tried, outcome) \in Seq(Outcomes)
      /\ Len(Append(c.tried, outcome)) = Len(c.tried) + 1
  BY <1>2
<1>4. /\ d \in CallType /\ d.phase = phase /\ d.chain = c.chain
      /\ d.tried = Append(c.tried, outcome)
  BY <1>1, <1>3 DEF CallType
<1>5. call' = [call EXCEPT ![k] = d]
  BY DEF Move
<1> HIDE DEF d
<1>6. Len(d.tried) <= Len(d.chain)
  BY <1>2, <1>3, <1>4
<1>7. CallTyped(d)
  BY <1>4, <1>6 DEF CallTyped
<1>8. QED
  BY <1>5, <1>7, TypedChanges

\* Another phase.
LEMMA PhaseTyped ==
  ASSUME CallsTyped, NEW k \in Call, NEW phase \in Phases,
         call' = [call EXCEPT ![k].phase = phase],
         phase = "asked" => Len(call[k].tried) < Len(call[k].chain)
  PROVE  CallsTyped'
<1> DEFINE c == call[k]
           d == [c EXCEPT !.phase = phase]
<1>1. c \in CallType /\ CallTyped(c)
  BY DEF CallsTyped
<1>2. /\ d \in CallType /\ d.phase = phase /\ d.tried = c.tried
      /\ d.chain = c.chain
  BY <1>1 DEF CallType
<1>3. CallTyped(d)
  BY <1>1, <1>2 DEF CallTyped
<1>4. call' = [call EXCEPT ![k] = d]
  OBVIOUS
<1> HIDE DEF d
<1>5. QED
  BY <1>3, <1>4, TypedChanges

\* The loops of the router and of the search chain.
LEMMA ChainStepTyped ==
  ASSUME CallsTyped, NEW k \in Call, ChainStep(k)
  PROVE  CallsTyped'
<1> DEFINE c == call[k]
<1>1. CASE Skip(k)
  <2>1. /\ Move(k, "next", "unavailable")
        /\ Len(c.tried) < Len(c.chain)
    BY <1>1 DEF Skip
  <2>2. "unavailable" \in Outcomes /\ "next" \in Phases \ {"asked"}
    BY DEF Outcomes, Failures, Phases
  <2>3. QED
    BY <2>1, <2>2, MoveTyped
<1>2. ASSUME NEW outcome \in Outcomes \ {"unavailable"}, Respond(k, outcome)
      PROVE  CallsTyped'
  <2>1. Move(k, After(c.role, outcome), outcome) /\ c.phase = "asked"
    BY <1>2 DEF Respond
  <2>2. Len(c.tried) < Len(c.chain)
    BY <2>1 DEF CallsTyped, CallTyped
  <2>3. After(c.role, outcome) \in Phases \ {"asked"}
    BY AfterPhase
  <2>4. QED
    BY <2>1, <2>2, <2>3, MoveTyped
<1>3. CASE Ask(k)
  BY <1>3, PhaseTyped DEF Ask, Phases
<1>4. CASE PauseEnds(k)
  BY <1>4, PhaseTyped DEF PauseEnds, Phases
<1>5. CASE Exhausted(k)
  BY <1>5, PhaseTyped DEF Exhausted, Phases
<1>6. QED
  BY <1>1, <1>2, <1>3, <1>4, <1>5 DEF ChainStep

\* No call.
LEMMA NoCallTyped == CallTyped(NoCall)
<1>1. "search" \in Role
  BY ChainAssumption
<1>2. <<>> \in Seq(Candidate) /\ <<>> \in Seq(Outcomes) /\ "idle" \in Phases
  BY DEF Phases
<1>3. NoCall \in CallType
  BY <1>1, <1>2 DEF NoCall, CallType
<1>4. NoCall.phase = "idle" /\ Len(NoCall.tried) = 0 /\ Len(NoCall.chain) = 0
  BY DEF NoCall
<1>5. QED
  BY <1>3, <1>4 DEF CallTyped

\* A call begins with the candidates of its role.
LEMMA BeginTyped ==
  ASSUME CallsTyped, NEW k \in Call, NEW role \in Role, NEW modality,
         Begin(k, role, modality)
  PROVE  CallsTyped'
<1> DEFINE chain == Candidates(role, modality)
           d == [NoCall EXCEPT !.phase = "next", !.role = role,
                               !.chain = chain]
<1>1. call' = [call EXCEPT ![k] = d]
  BY DEF Begin
<1>2. chain \in Seq(Candidate)
  BY CandidatesAreThoseThatFit
<1> HIDE DEF chain
<1>3. NoCall \in CallType /\ NoCall.tried = <<>>
  BY NoCallTyped DEF CallTyped, NoCall
<1>4. /\ d \in CallType /\ d.phase = "next" /\ d.tried = <<>>
      /\ d.chain = chain
  BY <1>2, <1>3 DEF CallType, Phases
<1>5. Len(<<>>) = 0 /\ Len(chain) \in Nat
  BY <1>2
<1> HIDE DEF d
<1>6. CallTyped(d)
  BY <1>4, <1>5 DEF CallTyped
<1>7. QED
  BY <1>1, <1>6, TypedChanges

\* The roles that calls are made for.
LEMMA RolesOfCalls == "media" \in Role /\ OtherRole \subseteq Role
BY ChainAssumption, NotesAssumption

\* Every step keeps the types of the calls.
LEMMA TypedKept ==
  ASSUME CallsTyped, [Next]_vars
  PROVE  CallsTyped'
<1>1. ASSUME UNCHANGED call PROVE CallsTyped'
  BY <1>1 DEF CallsTyped
<1>2. ASSUME NEW i \in Item, ItemStep(i) PROVE CallsTyped'
  <2>1. CASE Enter(i) \/ GiveUp(i)
    BY <1>1, <2>1 DEF Enter, GiveUp, chainVars
  <2>2. CASE Fetch(i)
    BY <1>1, <2>2, BeginTyped, ItemsCall, RolesOfCalls DEF Fetch, chainVars
  <2>3. CASE Described(i)
    <3>1. call' = [call EXCEPT ![i] = NoCall]
      BY <2>3 DEF Described
    <3>2. QED
      BY <3>1, NoCallTyped, TypedChanges, ItemsCall
  <2>4. QED
    BY <1>2, <2>1, <2>2, <2>3 DEF ItemStep
<1>3. CASE UNCHANGED vars
  BY <1>1, <1>3 DEF vars, chainVars
<1>4. QED
  BY <1>2, <1>3, ChainStepTyped, BeginTyped, ItemsCall, RolesOfCalls DEF Next

\* In every reachable state the calls have their types.
LEMMA CallsStayTyped == Spec => []CallsTyped
<1>1. Init => CallsTyped
  BY NoCallTyped DEF Init, ChainInit, CallsTyped, CallTyped
<1>2. CallsTyped /\ [Next]_vars => CallsTyped'
  BY TypedKept
<1>3. QED
  BY <1>1, <1>2, PTL DEF Spec

-----------------------------------------------------------------------------
(* The descriptors                                                         *)

\* The leading field of a message that has any is one of its fields, and none
\* that comes before it in the order is.
LEMMA LeadingField ==
  ASSUME NEW m \in Message, m.has # {}
  PROVE  /\ Leading(m.has) \in m.has
         /\ \E n \in 1 .. 8 : /\ FieldOrder[n] = Leading(m.has)
                            /\ \A k \in 1 .. n - 1 : FieldOrder[k] \notin m.has
<1> DEFINE P(f) == \E n \in DOMAIN FieldOrder :
                     /\ FieldOrder[n] = f
                     /\ \A k \in 1 .. n - 1 : FieldOrder[k] \notin m.has
<1>1. DOMAIN FieldOrder = 1 .. 8
  BY DEF FieldOrder
<1>2. m.has = {"animation", "document"} \/ \E f \in Fields : m.has = {f}
  BY DEF Message, Attachments
<1>3. \E f \in m.has : P(f)
  <2>1. CASE m.has = {"animation", "document"}
    <3>1. FieldOrder[1] = "animation" /\ 1 \in DOMAIN FieldOrder
      BY <1>1 DEF FieldOrder
    <3>2. QED
      BY <2>1, <3>1
  <2>2. ASSUME NEW f \in Fields, m.has = {f} PROVE \E g \in m.has : P(g)
    <3>1. \E n \in 1 .. 8 : /\ FieldOrder[n] = f
                           /\ \A k \in 1 .. n - 1 : FieldOrder[k] # f
      <4>1. /\ FieldOrder[1] = "animation" /\ FieldOrder[2] = "photo"
            /\ FieldOrder[3] = "video" /\ FieldOrder[4] = "video_note"
            /\ FieldOrder[5] = "sticker" /\ FieldOrder[6] = "voice"
            /\ FieldOrder[7] = "audio" /\ FieldOrder[8] = "document"
        BY DEF FieldOrder
      <4>2. \A n \in 1 .. 8 : \A k \in 1 .. n - 1 : FieldOrder[k] # FieldOrder[n]
        BY DEF FieldOrder
      <4>3. \E n \in 1 .. 8 : FieldOrder[n] = f
        BY <4>1 DEF Fields
      <4>4. QED
        BY <4>2, <4>3
    <3>2. QED
      BY <1>1, <2>2, <3>1
  <2>3. QED
    BY <1>2, <2>1, <2>2
<1>4. Leading(m.has) \in m.has /\ P(Leading(m.has))
  <2>1. Leading(m.has) = CHOOSE f \in m.has : P(f)
    BY DEF Leading
  <2> HIDE DEF P
  <2>2. QED
    BY <1>3, <2>1
<1>5. QED
  BY <1>1, <1>4

\* The sources of a descriptor, and which of them is the file itself.
LEMMA SourcesOf ==
  ASSUME NEW d
  PROVE  /\ Sources(d) \in Seq({"file", "thumb"})
         /\ Len(Sources(d)) <= 2
         /\ \A n \in 1 .. Len(Sources(d)) :
              Sources(d)[n] = "file" =>
                d.kind = "photo" \/ (d.kind = "sticker" /\ d.format = "static")
<1> DEFINE still == \/ d.kind = "photo"
                    \/ d.kind = "sticker" /\ d.format = "static"
           head  == IF still THEN <<"file">> ELSE <<>>
           tail  == IF d.thumb THEN <<"thumb">> ELSE <<>>
<1>1. Sources(d) = IF d.kind \in {"voice", "audio", "none"} THEN <<>>
                   ELSE head \o tail
  BY DEF Sources
<1>2. head \in Seq({"file", "thumb"}) /\ tail \in Seq({"file", "thumb"})
  <2>1. /\ <<"file">> \in Seq({"file", "thumb"})
        /\ <<"thumb">> \in Seq({"file", "thumb"})
        /\ <<>> \in Seq({"file", "thumb"})
    OBVIOUS
  <2>2. QED
    BY <2>1
<1>3. \A n \in 1 .. Len(tail) : tail[n] = "thumb"
  OBVIOUS
<1>4. ~still => head = <<>>
  OBVIOUS
<1>5. Len(head) \in 0 .. 1 /\ Len(tail) \in 0 .. 1
  OBVIOUS
<1> HIDE DEF head, tail
<1>6. ~still => head \o tail = tail
  BY <1>2, <1>4
<1>7. head \o tail \in Seq({"file", "thumb"})
  BY <1>2
<1>8. Sources(d) \in Seq({"file", "thumb"})
  BY <1>1, <1>7
<1>9. ~still => \A n \in 1 .. Len(Sources(d)) : Sources(d)[n] # "file"
  BY <1>1, <1>3, <1>6
<1>10. Len(Sources(d)) <= 2
  <2>1. Len(head \o tail) = Len(head) + Len(tail)
    BY <1>2
  <2>2. QED
    BY <1>1, <1>5, <2>1
<1>11. QED
  BY <1>8, <1>9, <1>10

\* The file itself is among the sources of still images only.
LEMMA FilesOfStills ==
  ASSUME NEW m \in Message,
         NEW n \in 1 .. Len(Sources(Descriptor(m))),
         Sources(Descriptor(m))[n] = "file"
  PROVE  /\ m.has \intersect {"animation", "video", "video_note"} = {}
         /\ "sticker" \in m.has => m.format = "static"
<1> DEFINE d == Descriptor(m)
           field == Leading(m.has)
<1>1. d.kind = "photo" \/ (d.kind = "sticker" /\ d.format = "static")
  BY SourcesOf
<1>2. m.has # {}
  BY <1>1 DEF Descriptor, None
<1>3. field \in m.has
  BY <1>2, LeadingField
<1>4. \/ field = "document"
      \/ field = d.kind /\ m.format = d.format
  BY <1>1, <1>2 DEF Descriptor, None
<1>5. m.has = {"animation", "document"} \/ \E f \in Fields : m.has = {f}
  BY <1>2 DEF Message, Attachments
<1> HIDE DEF d, field
<1>6. CASE m.has = {"animation", "document"}
  <2>1. PICK n1 \in 1 .. 8 : /\ FieldOrder[n1] = field
                            /\ \A k \in 1 .. n1 - 1 : FieldOrder[k] \notin m.has
    BY <1>2, LeadingField DEF field
  <2>2. FieldOrder[1] = "animation"
    BY DEF FieldOrder
  <2>3. field = "animation"
    BY <1>6, <2>1, <2>2
  <2>4. QED
    BY <1>1, <1>4, <2>3
<1>7. CASE \E f \in Fields : m.has = {f}
  <2>1. m.has = {field}
    BY <1>3, <1>7
  <2>2. QED
    BY <1>1, <1>4, <2>1
<1>8. QED
  BY <1>5, <1>6, <1>7

-----------------------------------------------------------------------------
(* The notes                                                               *)

Files(i) == Sources(Descriptor(Batch[i]))

ItemTypes ==
  /\ item \in [Item -> ItemPhases] /\ source \in [Item -> 0 .. 2]
  /\ note \in [Item -> Notes]
  /\ requested \in [Item -> SUBSET {"file", "thumb"}]
  /\ fetched \in [Item -> SUBSET {"file", "thumb"}]

\* What was requested is among the sources; an attachment that is worked on is
\* within the limit and has no note yet; one that is being described was
\* fetched, and is the only kind to have a call.
Worked(i) ==
  /\ \A x \in requested[i] : \E n \in 1 .. Len(Files(i)) : Files(i)[n] = x
  /\ item[i] # "done" => i \in Allowed /\ note[i] = "none"
  /\ item[i] = "asked" => fetched[i] # {}
  /\ i \in Call /\ (call[i].phase # "idle" => item[i] = "asked")

\* What the note of an attachment that is done says.
Noted(i) ==
  item[i] = "done" =>
    /\ note[i] = "none"           <=> i \notin Media
    /\ note[i] = "skipped"        <=> i \in Media \ Allowed
    /\ note[i] = "described"      =>  fetched[i] # {}
    /\ note[i] = "not recognized" =>  fetched[i] # {}
    /\ note[i] = "no preview"     =>  fetched[i] = {}

ItemsOK ==
  /\ ItemTypes
  /\ \A i \in Item : Worked(i) /\ Noted(i)

\* It is enough to look at the attachment that goes on.
LEMMA ItemChanges ==
  ASSUME ItemsOK, ItemTypes', NEW i \in Item, Worked(i)', Noted(i)',
         \A j \in Item \ {i} : /\ item'[j] = item[j] /\ note'[j] = note[j]
                              /\ requested'[j] = requested[j]
                              /\ fetched'[j] = fetched[j]
                              /\ call'[j].phase = call[j].phase
  PROVE  ItemsOK'
<1>1. ASSUME NEW j \in Item, j # i PROVE Worked(j)' /\ Noted(j)'
  <2>1. Worked(j) /\ Noted(j) /\ j \in Item \ {i}
    BY <1>1 DEF ItemsOK
  <2>2. /\ item'[j] = item[j] /\ note'[j] = note[j]
        /\ requested'[j] = requested[j] /\ fetched'[j] = fetched[j]
        /\ call'[j].phase = call[j].phase
    BY <2>1
  <2>3. Worked(j)'
    BY <2>1, <2>2 DEF Worked, Files
  <2>4. Noted(j)'
    BY <2>1, <2>2 DEF Noted
  <2>5. QED
    BY <2>3, <2>4
<1>2. QED
  BY <1>1 DEF ItemsOK

\* A call that is not an attachment's, or goes on, changes no note.
LEMMA ItemsStay ==
  ASSUME ItemsOK, UNCHANGED notesVars,
         \A i \in Item : call'[i].phase # "idle" => call[i].phase # "idle"
  PROVE  ItemsOK'
<1>1. ItemTypes'
  BY DEF ItemsOK, ItemTypes, notesVars
<1>2. ASSUME NEW i \in Item PROVE Worked(i)' /\ Noted(i)'
  BY <1>2 DEF ItemsOK, Worked, Noted, Files, notesVars
<1>3. QED
  BY <1>1, <1>2 DEF ItemsOK

\* What is within the limit is an attachment.
LEMMA AllowedMedia == Allowed \subseteq Media /\ Media \subseteq Item
BY DEF Allowed, Media

\* The steps of one attachment.
LEMMA ItemStepKeeps ==
  ASSUME CallsOK, ItemsOK, NEW i \in Item, ItemStep(i)
  PROVE  ItemsOK'
<1>1. /\ ItemTypes /\ Worked(i) /\ Noted(i)
      /\ i \in Call /\ Item \subseteq Call
  BY ItemsCall DEF ItemsOK
<1>2. CASE Enter(i)
  <2>1. /\ item' = [item EXCEPT ![i] = "fetch"] /\ item[i] = "queued"
        /\ UNCHANGED <<call, source, note, requested, fetched>>
    BY <1>2 DEF Enter, chainVars
  <2>2. ItemTypes' /\ item'[i] = "fetch"
    BY <1>1, <2>1 DEF ItemTypes, ItemPhases
  <2>3. Worked(i)' /\ Noted(i)'
    BY <1>1, <2>1, <2>2 DEF Worked, Noted, Files
  <2>4. QED
    BY <1>1, <2>1, <2>2, <2>3, ItemChanges DEF ItemTypes
<1>3. CASE GiveUp(i)
  <2>1. /\ item[i] = "fetch" /\ Finishes(i, FailureNote(i))
        /\ UNCHANGED <<call, source, requested, fetched>>
    BY <1>3 DEF GiveUp, chainVars
  <2>2. /\ FailureNote(i) \in {"sound", "no preview", "not recognized"}
        /\ FailureNote(i) = "no preview" => fetched[i] = {}
        /\ FailureNote(i) = "not recognized" => fetched[i] # {}
    BY DEF FailureNote
  <2> DEFINE marker == FailureNote(i)
  <2> HIDE DEF marker
  <2>3. /\ item' = [item EXCEPT ![i] = "done"]
        /\ note' = [note EXCEPT ![i] = marker]
    BY <2>1 DEF Finishes, marker
  <2>4. ItemTypes' /\ item'[i] = "done" /\ note'[i] = marker
    BY <1>1, <2>1, <2>2, <2>3 DEF ItemTypes, ItemPhases, Notes, marker
  <2>5. Worked(i)' /\ Noted(i)'
    BY <1>1, <2>1, <2>2, <2>4, AllowedMedia DEF Worked, Noted, Files, marker
  <2>6. QED
    BY <1>1, <2>1, <2>3, <2>4, <2>5, ItemChanges DEF ItemTypes
<1>4. CASE Fetch(i)
  <2> DEFINE n == source[i] + 1
             file == Files(i)[n]
  <2>1. /\ item[i] = "fetch" /\ source[i] < Len(Files(i))
        /\ source' = [source EXCEPT ![i] = n] /\ note' = note
        /\ requested' = [requested EXCEPT ![i] = requested[i] \union {file}]
        /\ \/ UNCHANGED <<call, item, fetched>>
           \/ /\ fetched' = [fetched EXCEPT ![i] = fetched[i] \union {file}]
              /\ item' = [item EXCEPT ![i] = "asked"]
              /\ Begin(i, "media", "image")
    BY <1>4 DEF Fetch, chainVars, Files
  <2>2. /\ source' \in [Item -> 0 .. 2]
        /\ n \in 1 .. Len(Files(i)) /\ file \in {"file", "thumb"}
    <3>1. /\ Len(Files(i)) \in Nat /\ Len(Files(i)) <= 2
          /\ Files(i) \in Seq({"file", "thumb"})
      BY SourcesOf DEF Files
    <3>2. source[i] \in 0 .. 2 /\ n \in 0 .. 2 /\ n \in 1 .. Len(Files(i))
      BY <1>1, <2>1, <3>1 DEF ItemTypes
    <3>3. file \in {"file", "thumb"}
      BY <3>1, <3>2
    <3>4. QED
      BY <1>1, <2>1, <3>2, <3>3 DEF ItemTypes
  <2> HIDE DEF n
  <2>3. /\ requested' \in [Item -> SUBSET {"file", "thumb"}]
        /\ requested'[i] = requested[i] \union {file}
        /\ \A j \in Item \ {i} : requested'[j] = requested[j]
    BY <1>1, <2>1, <2>2 DEF ItemTypes
  <2>4. \A x \in requested'[i] : \E k \in 1 .. Len(Files(i)) : Files(i)[k] = x
    BY <1>1, <2>2, <2>3 DEF Worked
  <2>5. CASE UNCHANGED <<call, item, fetched>>
    <3>1. ItemTypes'
      BY <1>1, <2>1, <2>2, <2>3, <2>5 DEF ItemTypes
    <3>2. Worked(i)' /\ Noted(i)'
      BY <1>1, <2>1, <2>4, <2>5 DEF Worked, Noted, Files
    <3>3. QED
      BY <1>1, <2>1, <2>3, <2>5, <3>1, <3>2, ItemChanges
  <2>6. CASE /\ fetched' = [fetched EXCEPT ![i] = fetched[i] \union {file}]
             /\ item' = [item EXCEPT ![i] = "asked"]
             /\ Begin(i, "media", "image")
    <3>1. /\ ItemTypes' /\ item'[i] = "asked"
          /\ fetched'[i] = fetched[i] \union {file}
      BY <1>1, <2>1, <2>2, <2>3, <2>6 DEF ItemTypes, ItemPhases
    <3>2. Worked(i)' /\ Noted(i)'
      BY <1>1, <2>1, <2>4, <3>1 DEF Worked, Noted, Files
    <3>3. \A j \in Item \ {i} : call'[j] = call[j]
      BY <1>1, <2>6 DEF Begin, CallsOK
    <3>4. QED
      BY <1>1, <2>1, <2>3, <2>6, <3>1, <3>2, <3>3, ItemChanges DEF ItemTypes
  <2>7. QED
    BY <2>1, <2>5, <2>6
<1>5. CASE Described(i)
  <2> DEFINE c == call[i]
  <2>1. /\ item[i] = "asked" /\ call' = [call EXCEPT ![i] = NoCall]
        /\ UNCHANGED <<source, requested, fetched>>
        /\ \/ Finishes(i, "not recognized")
           \/ Finishes(i, "described")
           \/ item' = [item EXCEPT ![i] = "fetch"] /\ UNCHANGED note
    BY <1>5 DEF Described
  <2>2. /\ call'[i].phase = "idle"
        /\ \A j \in Item \ {i} : call'[j] = call[j]
    BY <1>1, <2>1 DEF CallsOK, NoCall
  <2>3. ASSUME NEW marker \in {"not recognized", "described"},
               Finishes(i, marker)
        PROVE  ItemsOK'
    <3>1. /\ item' = [item EXCEPT ![i] = "done"]
          /\ note' = [note EXCEPT ![i] = marker]
      BY <2>3 DEF Finishes
    <3>2. ItemTypes' /\ item'[i] = "done" /\ note'[i] = marker
      BY <1>1, <2>1, <3>1 DEF ItemTypes, ItemPhases, Notes
    <3>3. Worked(i)' /\ Noted(i)'
      BY <1>1, <2>1, <2>2, <3>2, AllowedMedia DEF Worked, Noted, Files
    <3>4. QED
      BY <1>1, <2>1, <2>2, <3>1, <3>2, <3>3, ItemChanges DEF ItemTypes
  <2>4. CASE item' = [item EXCEPT ![i] = "fetch"] /\ UNCHANGED note
    <3>1. ItemTypes' /\ item'[i] = "fetch"
      BY <1>1, <2>1, <2>4 DEF ItemTypes, ItemPhases
    <3>2. Worked(i)' /\ Noted(i)'
      BY <1>1, <2>1, <2>2, <2>4, <3>1 DEF Worked, Noted, Files
    <3>3. QED
      BY <1>1, <2>1, <2>2, <2>4, <3>1, <3>2, ItemChanges DEF ItemTypes
  <2>5. QED
    BY <2>1, <2>3, <2>4
<1>6. QED
  BY <1>2, <1>3, <1>4, <1>5 DEF ItemStep

\* A step of a loop is that of a call that has begun.
LEMMA ChainStepBegun ==
  ASSUME CallsOK, NEW k \in Call, ChainStep(k)
  PROVE  /\ call[k].phase # "idle"
         /\ \A l \in Call \ {k} : call'[l] = call[l]
BY DEF ChainStep, Skip, Ask, PauseEnds, Exhausted, Respond, Move, CallsOK

\* Every step keeps the attachments in order.
LEMMA ItemsKept ==
  ASSUME CallsOK, ItemsOK, [Next]_vars
  PROVE  ItemsOK'
<1>1. ASSUME NEW k \in OtherCall, NEW role \in OtherRole,
             Begin(k, role, "none"), UNCHANGED notesVars
      PROVE  ItemsOK'
  <2>1. \A i \in Item : i # k /\ i \in Call
    BY NotesAssumption
  <2>2. \A i \in Item : call'[i] = call[i]
    BY <1>1, <2>1 DEF Begin, CallsOK
  <2>3. QED
    BY <1>1, <2>2, ItemsStay
<1>2. ASSUME NEW k \in Call, ChainStep(k), UNCHANGED notesVars PROVE ItemsOK'
  BY <1>2, ChainStepBegun, ItemsStay, ItemsCall
<1>3. CASE UNCHANGED vars
  BY <1>3, ItemsStay DEF vars, chainVars
<1>4. QED
  BY <1>1, <1>2, <1>3, ItemStepKeeps DEF Next

\* Every attachment that is worked on is within the limit, has no note yet,
\* and has a call just while it is being described.
THEOREM ItemsInvariant == Spec => []ItemsOK
<1>1. Init => ItemsOK
  <2> SUFFICES ASSUME Init PROVE ItemsOK
    OBVIOUS
  <2>1. ItemTypes
    BY DEF Init, ItemTypes, ItemPhases, Notes
  <2>2. \A i \in Item : i \in Call /\ call[i].phase = "idle"
    BY ItemsCall DEF Init, ChainInit, NoCall
  <2>3. \A i \in Item : Worked(i) /\ Noted(i)
    BY <2>2, AllowedMedia DEF Init, Worked, Noted
  <2>4. QED
    BY <2>1, <2>3 DEF ItemsOK
<1>2. CallsOK /\ ItemsOK /\ [Next]_vars => ItemsOK'
  BY ItemsKept
<1>3. QED
  BY <1>1, <1>2, CallsFollowTheirChains, PTL DEF Spec

\* Only still images and thumbnails are downloaded, whatever attachments come
\* (_descriptor_from_message, _image_sources).
THEOREM OnlyFramesFetchedHolds == Spec => []OnlyFramesFetched
<1>1. ItemsOK => OnlyFramesFetched
  <2> SUFFICES ASSUME ItemsOK, NEW i \in Item, "file" \in requested[i]
               PROVE  LET m == Batch[i]
                      IN /\ m.has \intersect {"animation", "video", "video_note"}
                              = {}
                         /\ "sticker" \in m.has => m.format = "static"
    BY DEF OnlyFramesFetched
  <2>1. Batch[i] \in Message
    BY NotesAssumption DEF Item
  <2>2. PICK n \in 1 .. Len(Files(i)) : Files(i)[n] = "file"
    BY DEF ItemsOK, Worked
  <2>3. QED
    BY <2>1, <2>2, FilesOfStills DEF Files
<1>2. QED
  BY <1>1, ItemsInvariant, PTL

\* A note says what happened to its attachment (_describe_descriptor).
THEOREM NotesAreTrueHolds == Spec => []NotesAreTrue
<1>1. ItemsOK => NotesAreTrue
  BY DEF ItemsOK, Noted, NotesAreTrue
<1>2. QED
  BY <1>1, ItemsInvariant, PTL

-----------------------------------------------------------------------------
(* The semaphore                                                           *)

\* A batch is finite, and so is what is in work.
LEMMA DescribingIsFinite ==
  /\ IsFiniteSet(Describing) /\ Cardinality(Describing) \in Nat
  /\ IsFiniteSet(Describing') /\ Cardinality(Describing') \in Nat
<1>1. IsFiniteSet(Item)
  <2>1. Item = 1 .. Len(Batch) /\ Len(Batch) \in Nat
    BY NotesAssumption DEF Item
  <2>2. QED
    BY <2>1, FS_Interval
<1>2. Describing \subseteq Item /\ Describing' \subseteq Item
  BY DEF Describing
<1>3. QED
  BY <1>1, <1>2, FS_Subset, FS_CardinalityType

\* No step but an entry, for which there is room, adds to those described.
LEMMA RoomKept ==
  ASSUME ItemTypes, Cardinality(Describing) <= MaxConcurrency, [Next]_vars
  PROVE  Cardinality(Describing') <= MaxConcurrency
<1>1. MaxConcurrency \in Nat
  BY NotesAssumption
<1>2. ASSUME Describing' \subseteq Describing
      PROVE  Cardinality(Describing') <= MaxConcurrency
  <2>1. Cardinality(Describing') <= Cardinality(Describing)
    BY <1>2, DescribingIsFinite, FS_Subset
  <2>2. QED
    BY <1>1, <2>1, DescribingIsFinite
<1>3. ASSUME UNCHANGED item PROVE Cardinality(Describing') <= MaxConcurrency
  BY <1>2, <1>3 DEF Describing
<1>4. ASSUME NEW i \in Item, Enter(i)
      PROVE  Cardinality(Describing') <= MaxConcurrency
  <2>1. /\ item[i] = "queued" /\ item' = [item EXCEPT ![i] = "fetch"]
        /\ Cardinality(Describing) < MaxConcurrency
    BY <1>4 DEF Enter, HasRoom
  <2>2. Describing' = Describing \union {i} /\ i \notin Describing
    BY <2>1 DEF Describing, ItemTypes
  <2>3. Cardinality(Describing') = Cardinality(Describing) + 1
    BY <2>2, DescribingIsFinite, FS_AddElement
  <2>4. QED
    BY <1>1, <2>1, <2>3, DescribingIsFinite
<1>5. ASSUME NEW i \in Item, GiveUp(i) \/ Fetch(i) \/ Described(i)
      PROVE  Cardinality(Describing') <= MaxConcurrency
  <2>1. item[i] \in {"fetch", "asked"}
    BY <1>5 DEF GiveUp, Fetch, Described
  <2>2. \A j \in Item \ {i} : item'[j] = item[j]
    BY <1>5 DEF GiveUp, Fetch, Described, Finishes, ItemTypes
  <2>3. Describing' \subseteq Describing
    BY <2>1, <2>2 DEF Describing
  <2>4. QED
    BY <1>2, <2>3
<1>6. CASE UNCHANGED vars
  BY <1>3, <1>6 DEF vars, notesVars
<1>7. QED
  BY <1>3, <1>4, <1>5, <1>6 DEF Next, ItemStep, notesVars

\* The semaphore of describe_many: never more attachments in work than it
\* allows, and no call of the router but for one of them.
THEOREM ConcurrencyKeptHolds == Spec => []ConcurrencyKept
<1>1. Init => Cardinality(Describing) <= MaxConcurrency
  <2> SUFFICES ASSUME Init PROVE Cardinality(Describing) <= MaxConcurrency
    OBVIOUS
  <2>1. Describing = {}
    BY DEF Init, Describing
  <2>2. QED
    BY <2>1, NotesAssumption, FS_EmptySet
<1>2. ItemsOK /\ Cardinality(Describing) <= MaxConcurrency /\ [Next]_vars
        => (Cardinality(Describing) <= MaxConcurrency)'
  BY RoomKept DEF ItemsOK
<1>3. ItemsOK /\ Cardinality(Describing) <= MaxConcurrency => ConcurrencyKept
  BY DEF ItemsOK, Worked, ConcurrencyKept
<1>4. QED
  BY <1>1, <1>2, <1>3, ItemsInvariant, PTL DEF Spec

-----------------------------------------------------------------------------
(* The types                                                               *)

\* The providers that were built are known, and none is switched off; the
\* failures are counted up to their bound.
BuiltOK == built \subseteq Provider \ Unavailable /\ faults \in 0 .. MaxFaults

\* Asking builds the provider of the candidate at hand.
LEMMA BuiltKept ==
  ASSUME CallsTyped, BuiltOK, [Next]_vars
  PROVE  BuiltOK'
<1>1. ASSUME UNCHANGED <<built, faults>> PROVE BuiltOK'
  BY <1>1 DEF BuiltOK
<1>2. ASSUME NEW i \in Item, ItemStep(i) PROVE BuiltOK'
  BY <1>1, <1>2 DEF ItemStep, Enter, GiveUp, Fetch, Described, Begin, chainVars
<1>3. ASSUME NEW k \in Call, ChainStep(k) PROVE BuiltOK'
  <2>1. CASE Ask(k)
    <3> DEFINE p == Current(k).provider
               n == Len(call[k].tried) + 1
    <3>1. call[k] \in CallType /\ n \in 1 .. Len(call[k].chain)
      BY <2>1 DEF CallsTyped, CallTyped, CallType, Ask
    <3>2. call[k].chain[n] \in Candidate
      BY <3>1 DEF CallType
    <3>3. p \in Provider
      BY <3>2 DEF Current, Candidate
    <3> HIDE DEF p, n
    <3>4. /\ call[k].role # "search" => p \notin Unavailable
          /\ built' = IF call[k].role = "search" THEN built
                      ELSE built \union {p}
          /\ faults' = faults
      BY <2>1 DEF Ask, p
    <3>5. QED
      BY <3>3, <3>4 DEF BuiltOK
  <2>2. CASE Skip(k)
    <3>1. MaxFaults \in Nat
      BY ChainAssumption
    <3>2. /\ built' = built
          /\ faults' = faults \/ (faults < MaxFaults /\ faults' = faults + 1)
      BY <2>2 DEF Skip
    <3>3. QED
      BY <3>1, <3>2 DEF BuiltOK
  <2>3. QED
    BY <1>1, <1>3, <2>1, <2>2 DEF ChainStep, PauseEnds, Exhausted, Respond
<1>4. ASSUME NEW k \in OtherCall, NEW role \in OtherRole, Begin(k, role, "none")
      PROVE  BuiltOK'
  BY <1>1, <1>4 DEF Begin
<1>5. CASE UNCHANGED vars
  BY <1>1, <1>5 DEF vars, chainVars
<1>6. QED
  BY <1>2, <1>3, <1>4, <1>5 DEF Next

\* Every variable keeps its type, whatever the configuration, the batch and the
\* limits are: a call has candidates of providers that are known, and tries no
\* more of them than it has.
THEOREM TypeCorrectness == Spec => []TypeOK
<1>1. Init => BuiltOK
  BY ChainAssumption DEF Init, ChainInit, BuiltOK
<1>2. CallsTyped /\ BuiltOK /\ [Next]_vars => BuiltOK'
  BY BuiltKept
<1>3. CallsTyped /\ BuiltOK /\ ItemsOK => TypeOK
  BY DEF CallsTyped, CallTyped, CallType, BuiltOK, ItemsOK, ItemTypes, TypeOK
<1>4. QED
  BY <1>1, <1>2, <1>3, CallsStayTyped, ItemsInvariant, PTL DEF Spec
=============================================================================
