------------------------- MODULE AccountLink_proofs -------------------------
(***************************************************************************)
(* TLAPS proofs about AccountLink, for any accounts, codes, persons and    *)
(* commands: a code is good for one command, every variable has its type,  *)
(* a link that is announced is bound, a person's turns follow them, and a  *)
(* merge leaves nothing behind.                                            *)
(***************************************************************************)
EXTENDS AccountLink, FiniteSetTheorems, TLAPS

-----------------------------------------------------------------------------
(* Codes                                                                   *)

\* A code that got somebody an account is gone, and nothing is issued under
\* the name of a code that is gone.
GoneWhenUsed ==
  /\ DOMAIN codes = Code
  /\ uses \in [Code -> Nat]
  /\ \A c \in Code : uses[c] <= (IF codes[c] = Gone THEN 1 ELSE 0)

\* A code that leaves Redis got nobody anything so far, or is gone already.
LEMMA DeletionKeeps ==
  ASSUME GoneWhenUsed, NEW c, codes' = [codes EXCEPT ![c] = Gone], uses' = uses
  PROVE  GoneWhenUsed'
BY DEF GoneWhenUsed

\* A web request and the expiry of a code.
LEMMA WebKeeps ==
  ASSUME GoneWhenUsed, WebStep
  PROVE  GoneWhenUsed'
<1>1. CASE UNCHANGED <<codes, uses>>
  BY <1>1 DEF GoneWhenUsed
<1>2. ASSUME NEW q \in Request, IssueDeletes(q)
      PROVE  GoneWhenUsed'
  BY <1>2, DeletionKeeps DEF IssueDeletes, historyVars
<1>3. ASSUME NEW c \in Code, CodeExpires(c)
      PROVE  GoneWhenUsed'
  BY <1>3, DeletionKeeps DEF CodeExpires, historyVars
<1>4. ASSUME NEW q \in Request, NEW c \in Code, IssueSets(q, c)
      PROVE  GoneWhenUsed'
  <2>1. /\ codes' = [codes EXCEPT ![c] = request[q].user] /\ uses' = uses
        /\ codes[c] = NoAccount
    BY <1>4 DEF IssueSets, historyVars
  <2>2. uses[c] = 0
    BY <2>1, LinkAssumption DEF GoneWhenUsed
  <2>3. QED
    BY <2>1, <2>2 DEF GoneWhenUsed
<1>5. QED
  BY <1>1, <1>2, <1>3, <1>4 DEF WebStep, Register, Login, Logout, DeleteMe,
     IssueReads, redisVars, historyVars

\* GETDEL: a code is gone with its first use.
LEMMA UseKeeps ==
  ASSUME GoneWhenUsed, NEW m \in Command, Consume(m)
  PROVE  GoneWhenUsed'
<1> DEFINE c == command[m].code
<1>1. CASE codes[c] \in Web
  <2>1. /\ codes' = [codes EXCEPT ![c] = Gone]
        /\ uses' = [uses EXCEPT ![c] = @ + 1]
    BY <1>1 DEF Consume
  <2>2. c \in Code => uses[c] = 0
    BY <1>1, LinkAssumption DEF GoneWhenUsed, Account
  <2> HIDE DEF c
  <2>3. DOMAIN codes' = Code /\ uses' \in [Code -> Nat]
    <3>1. CASE c \in Code
      BY <2>1, <2>2, <3>1 DEF GoneWhenUsed
    <3>2. CASE c \notin Code
      BY <2>1, <3>2 DEF GoneWhenUsed
    <3>3. QED
      BY <3>1, <3>2
  <2>4. ASSUME NEW k \in Code
        PROVE  uses'[k] <= (IF codes'[k] = Gone THEN 1 ELSE 0)
    <3>1. CASE k = c
      <4>1. uses'[k] = 1 /\ codes'[k] = Gone
        BY <2>1, <2>2, <3>1 DEF GoneWhenUsed
      <4>2. QED
        BY <4>1
    <3>2. CASE k # c
      BY <2>1, <3>2 DEF GoneWhenUsed
    <3>3. QED
      BY <3>1, <3>2
  <2>5. QED
    BY <2>3, <2>4 DEF GoneWhenUsed
<1>2. CASE codes[c] \notin Web
  BY <1>2 DEF Consume, GoneWhenUsed
<1>3. QED
  BY <1>1, <1>2

\* The rest of /link, the batches and a crash leave codes alone.
LEMMA OthersKeep ==
  ASSUME GoneWhenUsed, [Next]_vars, ~ WebStep,
         \A m \in Command : ~ Consume(m)
  PROVE  GoneWhenUsed'
<1> SUFFICES UNCHANGED <<codes, uses>>
  BY DEF GoneWhenUsed
<1>1. ASSUME NEW m \in Command,
             CommandStep(m) \/ HandlingFails(m) \/ RenameFails(m)
               \/ AnswerFails(m)
               \/ \E t \in Telegram, c \in Code : SendLink(m, t, c)
      PROVE  UNCHANGED <<codes, uses>>
  BY <1>1 DEF CommandStep, ReadAccounts, Commit, CommitRefused, RenameKeys,
     Reassign, Answer, HandlingFails, RenameFails, AnswerFails, SendLink,
     redisVars, historyVars
<1>2. ASSUME NEW b \in Batch,
             (\E t \in Telegram, a \in Account : BatchStarts(b, t, a))
               \/ BatchThinks(b) \/ BatchSaves(b)
      PROVE  UNCHANGED <<codes, uses>>
  BY <1>2 DEF BatchStarts, BatchThinks, BatchSaves, redisVars, historyVars
<1>3. CASE Crash \/ UNCHANGED vars
  BY <1>3 DEF Crash, vars, redisVars, historyVars
<1>4. QED
  BY <1>1, <1>2, <1>3 DEF Next

\* However many requests issue codes, and however often a /link is delivered
\* again, a code gets one command an account.
THEOREM CodeUsedOnceHolds == Spec => []CodeUsedOnce
<1>1. Init => GoneWhenUsed
  BY LinkAssumption DEF Init, GoneWhenUsed
<1>2. GoneWhenUsed /\ [Next]_vars => GoneWhenUsed'
  BY WebKeeps, UseKeeps, OthersKeep
<1>3. GoneWhenUsed => CodeUsedOnce
  BY DEF GoneWhenUsed, CodeUsedOnce
<1>4. QED
  BY <1>1, <1>2, <1>3, PTL DEF Spec

-----------------------------------------------------------------------------
(* Types, and the shape of commands, requests and batches                  *)

\* The marks of a row are neither persons nor accounts.
LEMMA Distinct ==
  /\ Unused # Gone /\ Unused # Unbound /\ Gone # Unbound
  /\ Unused \notin Telegram /\ Gone \notin Telegram /\ Unbound \notin Telegram
  /\ NoAccount \notin Account /\ Gone \notin Account
<1>1. ASSUME NEW x, NEW y
      PROVE  Cardinality({x, y}) # 3
  <2>1. IsFiniteSet({x}) /\ Cardinality({x}) = 1
    BY FS_Singleton
  <2>2. Cardinality({x} \union {y}) = IF y \in {x} THEN 1 ELSE 1 + 1
    BY <2>1, FS_AddElement
  <2>3. {x, y} = {x} \union {y}
    OBVIOUS
  <2>4. QED
    BY <2>2, <2>3
<1>2. Unused # Gone
  <2> SUFFICES ASSUME Unused = Gone PROVE FALSE
    OBVIOUS
  <2>1. {Unused, Gone, Unbound} = {Gone, Unbound}
    OBVIOUS
  <2>2. QED
    BY <1>1, <2>1, LinkAssumption
<1>3. Unused # Unbound
  <2> SUFFICES ASSUME Unused = Unbound PROVE FALSE
    OBVIOUS
  <2>1. {Unused, Gone, Unbound} = {Gone, Unbound}
    OBVIOUS
  <2>2. QED
    BY <1>1, <2>1, LinkAssumption
<1>4. Gone # Unbound
  <2> SUFFICES ASSUME Gone = Unbound PROVE FALSE
    OBVIOUS
  <2>1. {Unused, Gone, Unbound} = {Unused, Unbound}
    OBVIOUS
  <2>2. QED
    BY <1>1, <2>1, LinkAssumption
<1>5. /\ Unused \notin Telegram /\ Gone \notin Telegram
      /\ Unbound \notin Telegram
      /\ NoAccount \notin Account /\ Gone \notin Account
  BY LinkAssumption
<1>6. QED
  BY <1>2, <1>3, <1>4, <1>5

CommandType ==
  [phase: CommandPhases, tg: Telegram \union {Unbound},
   code: Code \union {NoCode}, target: Web \union {NoAccount},
   old: Account \union {NoAccount}, outcome: Outcomes]

BatchType == [tg: Telegram \union {Unbound}, user: Account \union {NoAccount},
              thinking: BOOLEAN]

\* What a command knows in each of its phases.
Shaped(k) ==
  /\ k.phase \in {"unsent", "done"} => k = [NoCommand EXCEPT !.phase = k.phase]
  /\ k.phase \notin {"unsent", "done"} => k.tg \in Telegram /\ k.code \in Code
  /\ k.phase \in {"queued", "read"} => k.old = NoAccount
  /\ k.phase \in {"queued", "read", "commit", "redis"} => k.outcome = "linked"
  /\ k.phase \in {"read", "commit", "redis", "qdrant"} => k.target \in Web
  /\ k.outcome = "linked" /\ k.phase = "answer" => k.target \in Web
  /\ k.phase = "redis" => k.old \in Account
  /\ k.phase = "commit" => k.old # k.target

RequestsShaped ==
  \A q \in Request :
    /\ request[q].phase # "idle" => request[q].user \in Web
    /\ request[q].phase = "read" => request[q].previous \in Code
BatchesShaped ==
  \A b \in Batch :
    batch[b] # NoBatch => batch[b].tg \in Telegram /\ batch[b].user \in Account

Shapes ==
  /\ TypeOK
  /\ \A m \in Command : Shaped(command[m])
  /\ RequestsShaped /\ BatchesShaped

\* One command changes, to r.
Turns(m, r) ==
  /\ r \in CommandType
  /\ command' = [command EXCEPT ![m] = r]
\* It keeps whose it is, what code it has, and what accounts it has read.
SameLink(k, r) ==
  r.tg = k.tg /\ r.code = k.code /\ r.target = k.target /\ r.old = k.old

\* A command that turns into r is a typed one, and the others stay.
LEMMA TurnsTo ==
  ASSUME Shapes, NEW m \in Command, NEW r, Turns(m, r)
  PROVE  /\ command[m] \in CommandType /\ Shaped(command[m])
         /\ command' \in [Command -> CommandType]
         /\ command'[m] = r
         /\ \A n \in Command \ {m} : command'[n] = command[n]
BY DEF Shapes, TypeOK, CommandType, Turns

\* A new phase leaves the link of the command as it is.
LEMMA BecomesTurns ==
  ASSUME Shapes, NEW m \in Command, NEW p \in CommandPhases, Becomes(m, p)
  PROVE  \E r : /\ Turns(m, r) /\ SameLink(command[m], r)
                /\ r.phase = p /\ r.outcome = command[m].outcome
<1> DEFINE r == [command[m] EXCEPT !.phase = p]
<1>1. command[m] \in CommandType
  BY DEF Shapes, TypeOK, CommandType
<1>2. r \in CommandType /\ SameLink(command[m], r)
      /\ r.phase = p /\ r.outcome = command[m].outcome
  BY <1>1 DEF CommandType, SameLink
<1>3. command' = [command EXCEPT ![m] = r]
  BY DEF Becomes
<1>4. QED
  BY <1>2, <1>3 DEF Turns

\* So does an outcome.
LEMMA EndsTurns ==
  ASSUME Shapes, NEW m \in Command, NEW o \in Outcomes, Ends(m, o)
  PROVE  \E r : /\ Turns(m, r) /\ SameLink(command[m], r)
                /\ r.phase = "answer" /\ r.outcome = o
<1> DEFINE r == [command[m] EXCEPT !.phase = "answer", !.outcome = o]
<1>1. command[m] \in CommandType
  BY DEF Shapes, TypeOK, CommandType
<1>2. r \in CommandType /\ SameLink(command[m], r)
      /\ r.phase = "answer" /\ r.outcome = o
  BY <1>1 DEF CommandType, SameLink, CommandPhases
<1>3. command' = [command EXCEPT ![m] = r]
  BY DEF Ends
<1>4. QED
  BY <1>2, <1>3 DEF Turns

\* The web requests and the expiry of a code.
LEMMA WebShapes ==
  ASSUME Shapes, WebStep,
         states' \in SUBSET Account, strays' \in SUBSET Account
  PROVE  Shapes'
<1>1. TypeOK /\ RequestsShaped /\ BatchesShaped
  BY DEF Shapes
<1>2. UNCHANGED <<command, batch, context, saved, exposed, faults, crashes>>
  BY DEF WebStep, Register, Login, Logout, DeleteMe, IssueReads, IssueDeletes,
     IssueSets, CodeExpires, redisVars, processVars, historyVars
<1>3. BatchesShaped' /\ \A m \in Command : Shaped(command[m])'
  BY <1>2 DEF Shapes, BatchesShaped, Shaped
<1>4. ASSUME NEW a \in Web, Register(a) \/ Login(a) \/ Logout(a)
      PROVE  Shapes'
  <2>1. UNCHANGED <<codes, pending, request, uses, excused>>
    BY <1>4 DEF Register, Login, Logout, redisVars, processVars, historyVars
  <2>2. /\ bound' \in [Account -> Telegram \union {Unused, Gone, Unbound}]
        /\ token' \in [Web -> BOOLEAN]
    BY <1>1, <1>4 DEF Register, Login, Logout, TypeOK
  <2>3. QED
    BY <1>1, <1>2, <1>3, <2>1, <2>2 DEF Shapes, TypeOK, RequestsShaped
<1>5. ASSUME NEW a \in Web, DeleteMe(a)
      PROVE  Shapes'
  <2>1. UNCHANGED <<codes, pending, request, uses>>
    BY <1>5 DEF DeleteMe, redisVars, processVars
  <2>2. /\ bound' \in [Account -> Telegram \union {Unused, Gone, Unbound}]
        /\ token' \in [Web -> BOOLEAN]
    BY <1>1, <1>5 DEF DeleteMe, TypeOK
  <2>3. ASSUME NEW m \in Command, command[m].target = a
        PROVE  command[m].tg \in Telegram
    <3>1. command[m].target # NoAccount
      BY <2>3, Distinct DEF Account
    <3>2. Shaped(command[m])
      BY DEF Shapes
    <3>3. command[m].phase \notin {"unsent", "done"}
      BY <3>1, <3>2 DEF Shaped, NoCommand
    <3>4. QED
      BY <3>2, <3>3 DEF Shaped
  <2>4. excused' \in SUBSET Telegram
    <3>1. {command[m].tg : m \in {k \in Command : command[k].target = a}}
            \subseteq Telegram
      BY <2>3
    <3>2. QED
      BY <1>1, <1>5, <3>1 DEF DeleteMe, TypeOK
  <2>5. QED
    BY <1>1, <1>2, <1>3, <2>1, <2>2, <2>4 DEF Shapes, TypeOK, RequestsShaped
<1>6. ASSUME NEW q \in Request, NEW a \in Web, IssueReads(q, a)
      PROVE  Shapes'
  <2>1. UNCHANGED <<bound, token, codes, pending, uses, excused>>
    BY <1>6 DEF IssueReads, redisVars, historyVars
  <2>2. PICK p \in {"issue", "read"} :
          /\ request' = [request EXCEPT ![q] =
               [phase |-> p, user |-> a, previous |-> pending[a]]]
          /\ p = "read" => pending[a] # NoCode
    BY <1>6 DEF IssueReads
  <2>3. pending[a] \in Code \union {NoCode}
    BY <1>1 DEF TypeOK
  <2>4. request' \in [Request ->
          [phase: RequestPhases, user: Web \union {NoAccount},
           previous: Code \union {NoCode}]]
    BY <1>1, <2>2, <2>3 DEF TypeOK, RequestPhases
  <2>5. RequestsShaped'
    BY <1>1, <2>2, <2>3 DEF TypeOK, RequestsShaped
  <2>6. QED
    BY <1>1, <1>2, <1>3, <2>1, <2>4, <2>5 DEF Shapes, TypeOK
<1>7. ASSUME NEW q \in Request, IssueDeletes(q)
      PROVE  Shapes'
  <2>1. UNCHANGED <<bound, token, pending, uses, excused>>
    BY <1>7 DEF IssueDeletes, historyVars
  <2>2. codes' \in [Code -> Web \union {NoAccount, Gone}]
    BY <1>1, <1>7 DEF IssueDeletes, TypeOK
  <2>3. request' = [request EXCEPT ![q].phase = "issue"]
        /\ request[q].phase = "read"
    BY <1>7 DEF IssueDeletes
  <2>4. request' \in [Request ->
          [phase: RequestPhases, user: Web \union {NoAccount},
           previous: Code \union {NoCode}]]
    <3>1. request \in [Request ->
            [phase: RequestPhases, user: Web \union {NoAccount},
             previous: Code \union {NoCode}]]
      BY <1>1 DEF TypeOK
    <3>2. QED
      BY <2>3, <3>1 DEF RequestPhases
  <2>5. RequestsShaped'
    BY <1>1, <2>3 DEF TypeOK, RequestsShaped
  <2>6. QED
    BY <1>1, <1>2, <1>3, <2>1, <2>2, <2>4, <2>5 DEF Shapes, TypeOK
<1>8. ASSUME NEW q \in Request, NEW c \in Code, IssueSets(q, c)
      PROVE  Shapes'
  <2>1. UNCHANGED <<bound, token, uses, excused>>
    BY <1>8 DEF IssueSets, historyVars
  <2>2. request[q].user \in Web
    BY <1>1, <1>8 DEF IssueSets, RequestsShaped
  <2>3. codes' \in [Code -> Web \union {NoAccount, Gone}]
        /\ pending' \in [Web -> Code \union {NoCode}]
    BY <1>1, <1>8, <2>2 DEF IssueSets, TypeOK
  <2>4. request' \in [Request ->
          [phase: RequestPhases, user: Web \union {NoAccount},
           previous: Code \union {NoCode}]]
    BY <1>1, <1>8 DEF IssueSets, TypeOK, RequestPhases, NoRequest
  <2>5. RequestsShaped'
    BY <1>1, <1>8 DEF IssueSets, TypeOK, RequestsShaped, NoRequest
  <2>6. QED
    BY <1>1, <1>2, <1>3, <2>1, <2>3, <2>4, <2>5 DEF Shapes, TypeOK
<1>9. ASSUME NEW c \in Code, CodeExpires(c)
      PROVE  Shapes'
  <2>1. UNCHANGED <<bound, token, request, uses, excused>>
    BY <1>9 DEF CodeExpires, processVars, historyVars
  <2>2. codes' \in [Code -> Web \union {NoAccount, Gone}]
        /\ pending' \in [Web -> Code \union {NoCode}]
    BY <1>1, <1>9 DEF CodeExpires, TypeOK
  <2>3. QED
    BY <1>1, <1>2, <1>3, <2>1, <2>2 DEF Shapes, TypeOK, RequestsShaped
<1>10. QED
  BY <1>4, <1>5, <1>6, <1>7, <1>8, <1>9 DEF WebStep

\* _resolve_user writes the identity to an account that had no row.
LEMMA ResolveTyped ==
  ASSUME TypeOK, NEW t \in Telegram, NEW a \in Account, ResolveUser(t, a)
  PROVE  /\ bound' \in [Account -> Telegram \union {Unused, Gone, Unbound}]
         /\ bound'[a] = t
         /\ \A d \in Account \ {a} : bound'[d] = bound[d]
         /\ bound[a] = t \/ bound[a] = Unused
<1>1. CASE Holders(t) # {}
  BY <1>1 DEF ResolveUser, Holders, TypeOK
<1>2. CASE Holders(t) = {}
  BY <1>2 DEF ResolveUser, TypeOK
<1>3. QED
  BY <1>1, <1>2

\* The dialogue batches.
LEMMA BatchShapes ==
  ASSUME Shapes, NEW b \in Batch,
         \/ \E t \in Telegram, a \in Account : BatchStarts(b, t, a)
         \/ BatchThinks(b) \/ BatchSaves(b),
         states' \in SUBSET Account, strays' \in SUBSET Account
  PROVE  Shapes'
<1>1. TypeOK /\ RequestsShaped /\ BatchesShaped
  BY DEF Shapes
<1>2. UNCHANGED <<token, codes, pending, request, command, uses, excused,
                  faults, crashes>>
  BY DEF BatchStarts, BatchThinks, BatchSaves, redisVars, historyVars
<1>3. RequestsShaped' /\ \A m \in Command : Shaped(command[m])'
  BY <1>2 DEF Shapes, RequestsShaped, Shaped
<1>4. ASSUME NEW t \in Telegram, NEW a \in Account, BatchStarts(b, t, a)
      PROVE  Shapes'
  <2>1. UNCHANGED <<context, saved, exposed>>
    BY <1>4 DEF BatchStarts, redisVars, historyVars
  <2>2. bound' \in [Account -> Telegram \union {Unused, Gone, Unbound}]
    BY <1>1, <1>4, ResolveTyped DEF BatchStarts
  <2>3. batch' = [batch EXCEPT ![b] = [tg |-> t, user |-> a,
                                       thinking |-> FALSE]]
    BY <1>4 DEF BatchStarts
  <2>4. batch' \in [Batch -> BatchType]
    BY <1>1, <2>3 DEF TypeOK, BatchType
  <2>5. BatchesShaped'
    BY <1>1, <2>3 DEF TypeOK, BatchesShaped
  <2>6. QED
    BY <1>1, <1>2, <1>3, <2>1, <2>2, <2>4, <2>5 DEF Shapes, TypeOK,
       BatchType
<1>5. CASE BatchSaves(b)
  <2>1. UNCHANGED bound
    BY <1>5 DEF BatchSaves
  <2>2. PICK t \in Telegram, a \in Account :
          batch[b].tg = t /\ batch[b].user = a
    BY <1>1, <1>5 DEF BatchSaves, BatchesShaped
  <2>3. saved[t] \in 0 .. MaxTurns /\ saved[t] < MaxTurns /\ MaxTurns \in Nat
    BY <1>1, <1>5, <2>2, LinkAssumption DEF BatchSaves, TypeOK
  <2>4. saved[t] + 1 \in 1 .. MaxTurns
    BY <2>3
  <2>5. <<t, saved[t] + 1>> \in Turn
    BY <2>4 DEF Turn
  <2>6. /\ saved' = [saved EXCEPT ![t] = saved[t] + 1]
        /\ context' = [context EXCEPT ![a] = context[a]
                                               \union {<<t, saved[t] + 1>>}]
        /\ exposed' \subseteq exposed \union {<<t, saved[t] + 1>>}
        /\ batch' = [batch EXCEPT ![b] = NoBatch]
    BY <1>5, <2>2 DEF BatchSaves
  <2>7. saved' \in [Telegram -> 0 .. MaxTurns]
    BY <1>1, <2>4, <2>6 DEF TypeOK
  <2>8. context' \in [Account -> SUBSET Turn] /\ exposed' \in SUBSET Turn
    <3>1. context[a] \union {<<t, saved[t] + 1>>} \in SUBSET Turn
      BY <1>1, <2>5 DEF TypeOK
    <3>2. QED
      BY <1>1, <2>5, <2>6, <3>1 DEF TypeOK
  <2>9. batch' \in [Batch -> BatchType]
    BY <1>1, <2>6 DEF TypeOK, BatchType, NoBatch
  <2>10. BatchesShaped'
    BY <1>1, <2>6 DEF TypeOK, BatchesShaped
  <2>11. QED
    BY <1>1, <1>2, <1>3, <2>1, <2>7, <2>8, <2>9, <2>10 DEF Shapes, TypeOK,
       BatchType
<1>6. CASE BatchThinks(b)
  <2>1. UNCHANGED <<bound, context, saved, exposed>>
    BY <1>6 DEF BatchThinks
  <2>2. batch' = [batch EXCEPT ![b].thinking = TRUE] /\ batch[b] # NoBatch
    BY <1>6 DEF BatchThinks
  <2>3. batch \in [Batch -> BatchType]
    BY <1>1 DEF TypeOK, BatchType
  <2>4. /\ batch' \in [Batch -> BatchType]
        /\ batch'[b].tg = batch[b].tg /\ batch'[b].user = batch[b].user
        /\ \A d \in Batch \ {b} : batch'[d] = batch[d]
    BY <2>2, <2>3 DEF BatchType
  <2>5. BatchesShaped'
    BY <1>1, <2>2, <2>4 DEF BatchesShaped
  <2>6. QED
    BY <1>1, <1>2, <1>3, <2>1, <2>4, <2>5 DEF Shapes, TypeOK, BatchType
<1>7. QED
  BY <1>4, <1>5, <1>6

\* A command that changes to a well shaped one.
LEMMA TurnShapes ==
  ASSUME Shapes, NEW m \in Command, NEW r, Turns(m, r), Shaped(r),
         UNCHANGED <<pending, request, batch, saved, exposed, crashes>>,
         UNCHANGED token \/ token' \in [Web -> BOOLEAN],
         bound' \in [Account -> Telegram \union {Unused, Gone, Unbound}],
         codes' \in [Code -> Web \union {NoAccount, Gone}],
         context' \in [Account -> SUBSET Turn],
         uses' \in [Code -> Nat], excused' \in SUBSET Telegram,
         states' \in SUBSET Account, strays' \in SUBSET Account,
         faults' \in 0 .. MaxFaults
  PROVE  Shapes'
<1>1. /\ command' \in [Command -> CommandType] /\ command'[m] = r
      /\ \A n \in Command \ {m} : command'[n] = command[n]
  BY TurnsTo
<1>2. \A n \in Command : Shaped(command'[n])
  BY <1>1 DEF Shapes
<1>3. RequestsShaped' /\ BatchesShaped'
  BY DEF Shapes, RequestsShaped, BatchesShaped
<1>4. TypeOK'
  BY <1>1 DEF Shapes, TypeOK, CommandType
<1>5. QED
  BY <1>2, <1>3, <1>4 DEF Shapes, Shaped

\* Steps of /link up to the commit.
LEMMA ReadingShapes ==
  ASSUME Shapes, NEW m \in Command,
         \/ \E t \in Telegram, c \in Code : SendLink(m, t, c)
         \/ Consume(m) \/ ReadAccounts(m) \/ HandlingFails(m),
         states' \in SUBSET Account, strays' \in SUBSET Account
  PROVE  Shapes'
<1>1. TypeOK /\ Shaped(command[m]) /\ command[m] \in CommandType
  BY DEF Shapes, TypeOK, CommandType
<1>2. UNCHANGED <<bound, token, pending, context, request, batch, saved,
                  exposed, excused, crashes>>
  BY DEF SendLink, Consume, ReadAccounts, HandlingFails, redisVars, historyVars
<1>3. ASSUME NEW t \in Telegram, NEW c \in Code, SendLink(m, t, c)
      PROVE  Shapes'
  <2> DEFINE r == [NoCommand EXCEPT !.phase = "queued", !.tg = t, !.code = c]
  <2>1. Turns(m, r) /\ Shaped(r)
    BY <1>3 DEF SendLink, Turns, Shaped, NoCommand, CommandType, CommandPhases,
       Outcomes
  <2> HIDE DEF r
  <2>2. UNCHANGED <<codes, uses, faults>>
    BY <1>3 DEF SendLink, redisVars, historyVars
  <2>3. QED
    BY <1>1, <1>2, <2>1, <2>2, TurnShapes DEF TypeOK
<1>4. CASE Consume(m)
  <2>1. CASE codes[command[m].code] \in Web
    <3> DEFINE r == [command[m] EXCEPT !.phase = "read",
                                       !.target = codes[command[m].code]]
    <3>1. command[m].phase = "queued" /\ command' = [command EXCEPT ![m] = r]
      BY <1>4, <2>1 DEF Consume
    <3>2. r \in CommandType
      BY <1>1, <2>1 DEF CommandType, CommandPhases
    <3>3. /\ r.phase = "read" /\ r.target \in Web /\ r.tg = command[m].tg
          /\ r.code = command[m].code /\ r.old = command[m].old
          /\ r.outcome = command[m].outcome
      BY <1>1, <2>1 DEF CommandType
    <3> HIDE DEF r
    <3>4. Turns(m, r) /\ Shaped(r)
      BY <1>1, <3>1, <3>2, <3>3 DEF Turns, Shaped
    <3>5. /\ codes' \in [Code -> Web \union {NoAccount, Gone}]
          /\ uses' \in [Code -> Nat]
      <4>1. /\ codes \in [Code -> Web \union {NoAccount, Gone}]
            /\ uses \in [Code -> Nat]
        BY <1>1 DEF TypeOK
      <4>2. /\ codes' = [codes EXCEPT ![command[m].code] = Gone]
            /\ uses' = [uses EXCEPT ![command[m].code] = @ + 1]
        BY <1>4, <2>1 DEF Consume
      <4>3. codes' \in [Code -> Web \union {NoAccount, Gone}]
        BY <4>1, <4>2
      <4>4. uses' \in [Code -> Nat]
        <5>1. command[m].code \in Code
          BY <1>1, <1>4 DEF Consume, Shaped
        <5>2. uses[command[m].code] + 1 \in Nat
          BY <4>1, <5>1
        <5>3. QED
          BY <4>1, <4>2, <5>2
      <4>5. QED
        BY <4>3, <4>4
    <3>6. UNCHANGED faults
      BY <1>4 DEF Consume
    <3>7. QED
      BY <1>1, <1>2, <3>4, <3>5, <3>6, TurnShapes DEF TypeOK
  <2>2. CASE codes[command[m].code] \notin Web
    <3>1. Ends(m, "invalid") /\ UNCHANGED <<codes, uses, faults>>
          /\ command[m].phase = "queued"
      BY <1>4, <2>2 DEF Consume
    <3>2. PICK r : /\ Turns(m, r) /\ SameLink(command[m], r)
                   /\ r.phase = "answer" /\ r.outcome = "invalid"
      BY <3>1, EndsTurns DEF Outcomes
    <3>3. Shaped(r)
      BY <1>1, <3>1, <3>2 DEF Shaped, SameLink
    <3>4. QED
      BY <1>1, <1>2, <3>1, <3>2, <3>3, TurnShapes DEF TypeOK
  <2>3. QED
    BY <2>1, <2>2
<1>5. CASE ReadAccounts(m)
  <2>1. UNCHANGED <<codes, uses, faults>> /\ command[m].phase = "read"
    BY <1>5 DEF ReadAccounts, redisVars, historyVars
  <2>2. ASSUME NEW o \in {"missing", "already", "taken"}, Ends(m, o)
        PROVE  Shapes'
    <3>1. PICK r : /\ Turns(m, r) /\ SameLink(command[m], r)
                   /\ r.phase = "answer" /\ r.outcome = o
      BY <2>2, EndsTurns DEF Outcomes
    <3>2. Shaped(r)
      BY <1>1, <2>1, <2>2, <3>1 DEF Shaped, SameLink
    <3>3. QED
      BY <1>1, <1>2, <2>1, <3>1, <3>2, TurnShapes DEF TypeOK
  <2>3. ASSUME bound[command[m].target] = Unbound,
               NEW a \in Account \union {NoAccount},
               a = NoAccount \/ a \in Holders(command[m].tg),
               command' = [command EXCEPT ![m].phase = "commit", ![m].old = a]
        PROVE  Shapes'
    <3> DEFINE r == [command[m] EXCEPT !.phase = "commit", !.old = a]
    <3>1. a # command[m].target
      BY <1>1, <2>1, <2>3, Distinct DEF Shaped, Holders, Account
    <3>2. r \in CommandType /\ command' = [command EXCEPT ![m] = r]
      BY <1>1, <2>3 DEF CommandType, CommandPhases
    <3>3. /\ r.phase = "commit" /\ r.target = command[m].target /\ r.old = a
          /\ r.tg = command[m].tg /\ r.code = command[m].code
          /\ r.outcome = command[m].outcome
      BY <1>1 DEF CommandType
    <3> HIDE DEF r
    <3>4. Turns(m, r) /\ Shaped(r)
      BY <1>1, <2>1, <3>1, <3>2, <3>3 DEF Turns, Shaped
    <3>5. QED
      BY <1>1, <1>2, <2>1, <3>4, TurnShapes DEF TypeOK
  <2>4. (IF Holders(command[m].tg) = {} THEN NoAccount
         ELSE CHOOSE a \in Holders(command[m].tg) : TRUE)
          \in {NoAccount} \union Holders(command[m].tg)
    OBVIOUS
  <2>5. QED
    BY <1>5, <2>2, <2>3, <2>4 DEF ReadAccounts, Holders
<1>6. CASE HandlingFails(m)
  <2>1. /\ Ends(m, "failed") /\ UNCHANGED <<codes, uses>>
        /\ command[m].phase \in {"queued", "read", "commit"}
        /\ faults' = faults + 1 /\ faults < MaxFaults
    BY <1>6 DEF HandlingFails, Fails, redisVars, historyVars
  <2>2. PICK r : /\ Turns(m, r) /\ SameLink(command[m], r)
                 /\ r.phase = "answer" /\ r.outcome = "failed"
    BY <2>1, EndsTurns DEF Outcomes
  <2>3. Shaped(r)
    BY <1>1, <2>1, <2>2 DEF Shaped, SameLink
  <2>4. faults' \in 0 .. MaxFaults
    BY <1>1, <2>1, LinkAssumption DEF TypeOK
  <2>5. QED
    BY <1>1, <1>2, <2>1, <2>2, <2>3, <2>4, TurnShapes DEF TypeOK
<1>7. QED
  BY <1>3, <1>4, <1>5, <1>6

\* A failure is one of those that are allowed.
LEMMA FailsTyped ==
  ASSUME TypeOK, Fails
  PROVE  faults' \in 0 .. MaxFaults
BY LinkAssumption DEF TypeOK, Fails

\* The commit.
LEMMA CommitShapes ==
  ASSUME Shapes, NEW m \in Command, Commit(m) \/ CommitRefused(m),
         states' \in SUBSET Account, strays' \in SUBSET Account
  PROVE  Shapes'
<1>1. TypeOK /\ Shaped(command[m]) /\ command[m] \in CommandType
      /\ command[m].phase = "commit"
  BY DEF Shapes, TypeOK, CommandType, Commit, CommitRefused
<1>2. UNCHANGED <<pending, codes, context, request, batch, uses, saved,
                  exposed, faults, crashes>>
  BY DEF Commit, CommitRefused, redisVars, historyVars
<1>3. CASE Commit(m)
  <2>1. bound' \in [Account -> Telegram \union {Unused, Gone, Unbound}]
    <3>1. command[m].tg \in Telegram
      BY <1>1 DEF Shaped
    <3>2. ASSUME NEW a \in Account
          PROVE  Bind(m)[a] \in Telegram \union {Unused, Gone, Unbound}
      BY <1>1, <3>1 DEF Bind, TypeOK
    <3>3. QED
      BY <1>3, <3>2 DEF Commit, Bind
  <2>2. token' \in [Web -> BOOLEAN]
    BY <1>1, <1>3 DEF Commit, TypeOK
  <2>3. excused' \in SUBSET Telegram
    <3>1. command[m].tg \in Telegram
      BY <1>1 DEF Shaped
    <3>2. LeftFrom(command[m].target) \subseteq Telegram
      <4>1. ASSUME NEW n \in Command, command[n].old = command[m].target
            PROVE  command[n].tg \in Telegram
        <5>1. command[n].old # NoAccount /\ Shaped(command[n])
          BY <1>1, <4>1, Distinct DEF Shaped, Account, Shapes
        <5>2. command[n].phase \notin {"unsent", "done"}
          BY <5>1 DEF Shaped, NoCommand
        <5>3. QED
          BY <5>1, <5>2 DEF Shaped
      <4>2. QED
        BY <4>1 DEF LeftFrom
    <3>3. QED
      BY <1>1, <1>3, <3>1, <3>2 DEF Commit, TypeOK
  <2>4. CASE command[m].old = NoAccount
    <3>1. PICK r : /\ Turns(m, r) /\ SameLink(command[m], r)
                   /\ r.phase = "answer" /\ r.outcome = "linked"
      BY <1>3, <2>4, EndsTurns DEF Commit, Outcomes
    <3>2. Shaped(r)
      BY <1>1, <3>1 DEF Shaped, SameLink
    <3>3. QED
      BY <1>1, <1>2, <2>1, <2>2, <2>3, <3>1, <3>2, TurnShapes DEF TypeOK
  <2>5. CASE command[m].old # NoAccount
    <3>1. PICK r : /\ Turns(m, r) /\ SameLink(command[m], r)
                   /\ r.phase = "redis" /\ r.outcome = command[m].outcome
      BY <1>3, <2>5, BecomesTurns DEF Commit, CommandPhases
    <3>2. command[m].old \in Account
      BY <1>1, <2>5 DEF CommandType
    <3>3. Shaped(r)
      BY <1>1, <3>1, <3>2 DEF Shaped, SameLink
    <3>4. QED
      BY <1>1, <1>2, <2>1, <2>2, <2>3, <3>1, <3>3, TurnShapes DEF TypeOK
  <2>6. QED
    BY <2>4, <2>5
<1>4. CASE CommitRefused(m)
  <2>1. UNCHANGED <<bound, token, excused>> /\ Ends(m, "failed")
    BY <1>4 DEF CommitRefused, historyVars
  <2>2. PICK r : /\ Turns(m, r) /\ SameLink(command[m], r)
                 /\ r.phase = "answer" /\ r.outcome = "failed"
    BY <2>1, EndsTurns DEF Outcomes
  <2>3. Shaped(r)
    BY <1>1, <2>2 DEF Shaped, SameLink
  <2>4. QED
    BY <1>1, <1>2, <2>1, <2>2, <2>3, TurnShapes DEF TypeOK
<1>5. QED
  BY <1>3, <1>4

\* The move goes on after the rename, whether it raised half way or not.
LEMMA RenamedTurns ==
  ASSUME Shapes, NEW m \in Command, RenameKeys(m)
  PROVE  \E r : /\ Turns(m, r) /\ SameLink(command[m], r)
                /\ r.phase = "qdrant"
                /\ r.outcome \in {command[m].outcome, "partial"}
<1>1. CASE Becomes(m, "qdrant")
  BY <1>1, BecomesTurns DEF CommandPhases
<1>2. CASE command' = [command EXCEPT ![m].phase = "qdrant",
                                      ![m].outcome = "partial"]
  <2> DEFINE r == [command[m] EXCEPT !.phase = "qdrant", !.outcome = "partial"]
  <2>1. command[m] \in CommandType
    BY DEF Shapes, TypeOK, CommandType
  <2>2. r \in CommandType /\ SameLink(command[m], r)
        /\ r.phase = "qdrant" /\ r.outcome = "partial"
    BY <2>1 DEF CommandType, CommandPhases, Outcomes, SameLink
  <2>3. command' = [command EXCEPT ![m] = r]
    BY <1>2
  <2>4. QED
    BY <2>2, <2>3 DEF Turns
<1>3. QED
  BY <1>1, <1>2 DEF RenameKeys

\* What follows the commit.
LEMMA MovingShapes ==
  ASSUME Shapes, NEW m \in Command,
         RenameKeys(m) \/ RenameFails(m) \/ Reassign(m),
         states' \in SUBSET Account, strays' \in SUBSET Account
  PROVE  Shapes'
<1>1. TypeOK /\ Shaped(command[m]) /\ command[m] \in CommandType
  BY DEF Shapes, TypeOK, CommandType
<1>2. UNCHANGED <<bound, token, pending, codes, request, batch, uses, saved,
                  exposed, excused, crashes>>
  BY DEF RenameKeys, RenameFails, Reassign, redisVars, historyVars
<1>3. CASE RenameKeys(m)
  <2>1. /\ command[m].phase = "redis"
        /\ context' = ContextMoved(command[m].old, command[m].target)
    BY <1>3 DEF RenameKeys
  <2>2. PICK r : /\ Turns(m, r) /\ SameLink(command[m], r)
                 /\ r.phase = "qdrant"
                 /\ r.outcome \in {command[m].outcome, "partial"}
    BY <1>3, RenamedTurns
  <2>3. Shaped(r)
    BY <1>1, <2>1, <2>2 DEF Shaped, SameLink
  <2>4. context' \in [Account -> SUBSET Turn]
    <3>1. command[m].old \in Account /\ command[m].target \in Account
      BY <1>1, <2>1 DEF Shaped, Account
    <3>2. context[command[m].old] \in SUBSET Turn
      BY <1>1, <3>1 DEF TypeOK
    <3>3. QED
      BY <1>1, <2>1, <3>2 DEF ContextMoved, TypeOK
  <2>5. faults' \in 0 .. MaxFaults
    BY <1>1, <1>3, FailsTyped DEF RenameKeys, TypeOK
  <2>6. QED
    BY <1>1, <1>2, <2>1, <2>2, <2>3, <2>4, <2>5, TurnShapes DEF TypeOK
<1>4. CASE RenameFails(m)
  <2> DEFINE r == [command[m] EXCEPT !.phase = "qdrant", !.outcome = "partial"]
  <2>1. command[m].phase = "redis" /\ UNCHANGED context
        /\ command' = [command EXCEPT ![m].phase = "qdrant",
                                      ![m].outcome = "partial"]
    BY <1>4 DEF RenameFails, redisVars
  <2>2. r \in CommandType /\ command' = [command EXCEPT ![m] = r]
    BY <1>1, <2>1 DEF CommandType, CommandPhases, Outcomes
  <2>3. /\ r.phase = "qdrant" /\ r.outcome = "partial"
        /\ SameLink(command[m], r)
    BY <1>1 DEF CommandType, SameLink
  <2> HIDE DEF r
  <2>4. Turns(m, r) /\ Shaped(r)
    BY <1>1, <2>1, <2>2, <2>3 DEF Turns, Shaped, SameLink
  <2>5. faults' \in 0 .. MaxFaults
    BY <1>1, <1>4, FailsTyped DEF RenameFails
  <2>6. QED
    BY <1>1, <1>2, <2>1, <2>4, <2>5, TurnShapes DEF TypeOK
<1>5. CASE Reassign(m)
  <2>1. command[m].phase = "qdrant" /\ UNCHANGED context
    BY <1>5 DEF Reassign, redisVars
  <2>2. CASE Becomes(m, "answer") /\ UNCHANGED faults
    <3>1. PICK r : /\ Turns(m, r) /\ SameLink(command[m], r)
                   /\ r.phase = "answer" /\ r.outcome = command[m].outcome
      BY <2>2, BecomesTurns DEF CommandPhases
    <3>2. Shaped(r)
      BY <1>1, <2>1, <3>1 DEF Shaped, SameLink
    <3>3. QED
      BY <1>1, <1>2, <2>1, <2>2, <3>1, <3>2, TurnShapes DEF TypeOK
  <2>3. CASE Ends(m, "partial") /\ Fails
    <3>1. PICK r : /\ Turns(m, r) /\ SameLink(command[m], r)
                   /\ r.phase = "answer" /\ r.outcome = "partial"
      BY <2>3, EndsTurns DEF Outcomes
    <3>2. Shaped(r)
      BY <1>1, <2>1, <3>1 DEF Shaped, SameLink
    <3>3. faults' \in 0 .. MaxFaults
      BY <1>1, <2>3, FailsTyped
    <3>4. QED
      BY <1>1, <1>2, <2>1, <3>1, <3>2, <3>3, TurnShapes DEF TypeOK
  <2>4. QED
    BY <1>5, <2>2, <2>3 DEF Reassign
<1>6. QED
  BY <1>3, <1>4, <1>5

\* The answer.
LEMMA AnswerShapes ==
  ASSUME Shapes, NEW m \in Command,
         AnswerFails(m) \/ \E a \in Account : Answer(m, a),
         states' \in SUBSET Account, strays' \in SUBSET Account
  PROVE  Shapes'
<1>1. TypeOK /\ Shaped(command[m]) /\ command[m] \in CommandType
      /\ command[m].phase = "answer"
  BY DEF Shapes, TypeOK, CommandType, Answer, AnswerFails
<1>2. UNCHANGED <<token, codes, pending, context, request, batch, uses, saved,
                  exposed, crashes>>
  BY DEF Answer, AnswerFails, redisVars, historyVars
<1>3. ASSUME NEW a \in Account, Answer(m, a)
      PROVE  Shapes'
  <2> DEFINE r == [NoCommand EXCEPT !.phase = "done"]
  <2>1. Turns(m, r) /\ Shaped(r)
    BY <1>3 DEF Answer, Turns, Shaped, NoCommand, CommandType, CommandPhases,
       Outcomes
  <2> HIDE DEF r
  <2>2. command[m].tg \in Telegram
    BY <1>1 DEF Shaped
  <2>3. bound' \in [Account -> Telegram \union {Unused, Gone, Unbound}]
    BY <1>1, <1>3, <2>2, ResolveTyped DEF Answer
  <2>4. excused' \in SUBSET Telegram /\ UNCHANGED faults
    BY <1>1, <1>3, <2>2 DEF Answer, TypeOK
  <2>5. QED
    BY <1>1, <1>2, <2>1, <2>3, <2>4, TurnShapes DEF TypeOK
<1>4. CASE AnswerFails(m)
  <2>1. UNCHANGED <<bound, excused>> /\ Fails
    BY <1>4 DEF AnswerFails, historyVars
  <2>2. PICK r : /\ Turns(m, r) /\ SameLink(command[m], r)
                 /\ r.phase \in {"answer", "stuck"} /\ r.outcome = "failed"
    <3>1. CASE command[m].outcome = "failed"
      BY <1>4, <3>1, BecomesTurns DEF AnswerFails, CommandPhases
    <3>2. CASE command[m].outcome # "failed"
      BY <1>4, <3>2, EndsTurns DEF AnswerFails, Outcomes
    <3>3. QED
      BY <3>1, <3>2
  <2>3. Shaped(r)
    BY <1>1, <2>2 DEF Shaped, SameLink
  <2>4. faults' \in 0 .. MaxFaults
    BY <1>1, <2>1, FailsTyped
  <2>5. QED
    BY <1>1, <1>2, <2>1, <2>2, <2>3, <2>4, TurnShapes DEF TypeOK
<1>5. QED
  BY <1>3, <1>4

\* What a crash makes of a command.
Dropped(k) ==
  IF k.phase \in {"unsent", "done"} THEN k
  ELSE [NoCommand EXCEPT !.phase = "queued", !.tg = k.tg, !.code = k.code]

\* After a crash the commands are queued again or as they were.
LEMMA CrashShapes ==
  ASSUME Shapes, Crash,
         states' \in SUBSET Account, strays' \in SUBSET Account
  PROVE  Shapes'
<1>1. TypeOK
  BY DEF Shapes
<1>2. UNCHANGED <<bound, token, codes, pending, context, uses, saved, exposed,
                  faults>>
  BY DEF Crash, redisVars
<1>3. ASSUME NEW m \in Command
      PROVE  Dropped(command[m]) \in CommandType /\ Shaped(Dropped(command[m]))
  <2>1. Shaped(command[m]) /\ command[m] \in CommandType
    BY DEF Shapes, TypeOK, CommandType
  <2>2. CASE command[m].phase \in {"unsent", "done"}
    BY <2>1, <2>2 DEF Dropped
  <2>3. CASE command[m].phase \notin {"unsent", "done"}
    BY <2>1, <2>3 DEF Dropped, Shaped, CommandType, CommandPhases, NoCommand,
       Outcomes
  <2>4. QED
    BY <2>2, <2>3
<1>4. command' = [m \in Command |-> Dropped(command[m])]
  BY DEF Crash, Dropped
<1>5. /\ command' \in [Command -> CommandType]
      /\ \A m \in Command : Shaped(command'[m])
  BY <1>3, <1>4
<1>6. excused' \in SUBSET Telegram
  <2>1. ASSUME NEW m \in Command, command[m].old # NoAccount
        PROVE  command[m].tg \in Telegram
    <3>1. Shaped(command[m])
      BY DEF Shapes
    <3>2. command[m].phase \notin {"unsent", "done"}
      BY <2>1, <3>1 DEF Shaped, NoCommand
    <3>3. QED
      BY <3>1, <3>2 DEF Shaped
  <2>2. {command[m].tg : m \in {k \in Command :
           /\ command[k].old # NoAccount
           /\ \/ command[k].phase = "redis"
              \/ command[k].outcome \in {"partial", "failed"}}}
          \subseteq Telegram
    BY <2>1
  <2>3. excused \in SUBSET Telegram
    BY <1>1 DEF TypeOK
  <2>4. QED
    BY <2>2, <2>3 DEF Crash
<1>7. crashes' \in 0 .. MaxCrashes
  <2>1. crashes < MaxCrashes /\ crashes' = crashes + 1
    BY DEF Crash
  <2>2. QED
    BY <1>1, <2>1, LinkAssumption DEF TypeOK
<1>8. /\ request' = [q \in Request |-> NoRequest]
      /\ batch' = [b \in Batch |-> NoBatch]
  BY DEF Crash
<1>9. /\ request' \in [Request ->
          [phase: RequestPhases, user: Web \union {NoAccount},
           previous: Code \union {NoCode}]]
      /\ RequestsShaped'
  BY <1>8 DEF RequestPhases, NoRequest, RequestsShaped
<1>10. batch' \in [Batch -> BatchType] /\ BatchesShaped'
  BY <1>8 DEF NoBatch, BatchType, BatchesShaped
<1>11. TypeOK'
  BY <1>1, <1>2, <1>5, <1>6, <1>7, <1>9, <1>10 DEF TypeOK, CommandType,
     BatchType
<1>12. QED
  BY <1>5, <1>9, <1>10, <1>11 DEF Shapes, Shaped

\* At the start nothing is going on.
LEMMA ShapesInit ==
  ASSUME Init
  PROVE  Shapes
<1>1. TypeOK
  BY LinkAssumption DEF Init, TypeOK, NoRequest, NoCommand, NoBatch,
     RequestPhases, CommandPhases, Outcomes
<1>2. \A m \in Command : Shaped(command[m])
  BY DEF Init, Shaped, NoCommand
<1>3. RequestsShaped /\ BatchesShaped
  BY DEF Init, RequestsShaped, BatchesShaped, NoRequest
<1>4. QED
  BY <1>1, <1>2, <1>3 DEF Shapes

\* Only keys of accounts are written, moved or go astray.
LEMMA KeysTyped ==
  ASSUME Shapes, [Next]_vars
  PROVE  states' \in SUBSET Account /\ strays' \in SUBSET Account
<1>1. states \in SUBSET Account /\ strays \in SUBSET Account
  BY DEF Shapes, TypeOK
<1>2. \A m \in Command :
        command[m].phase = "redis" =>
          command[m].old \in Account /\ command[m].target \in Account
  BY DEF Shapes, Shaped, Account
<1>3. \A b \in Batch : batch[b] # NoBatch => batch[b].user \in Account
  BY DEF Shapes, BatchesShaped
<1>4. CASE UNCHANGED <<states, strays>>
  BY <1>1, <1>4
<1>5. ASSUME NEW a \in Web, DeleteMe(a)
      PROVE  states' \in SUBSET Account /\ strays' \in SUBSET Account
  BY <1>1, <1>5 DEF DeleteMe, redisVars, Account
<1>6. ASSUME NEW b \in Batch, BatchThinks(b) \/ BatchSaves(b)
      PROVE  states' \in SUBSET Account /\ strays' \in SUBSET Account
  BY <1>1, <1>3, <1>6 DEF BatchThinks, BatchSaves, WrittenLate
<1>7. ASSUME NEW m \in Command, RenameKeys(m)
      PROVE  states' \in SUBSET Account /\ strays' \in SUBSET Account
  BY <1>1, <1>2, <1>7 DEF RenameKeys, StateMoved, WrittenLate
<1>8. ASSUME NEW m \in Command, RenameFails(m)
      PROVE  states' \in SUBSET Account /\ strays' \in SUBSET Account
  BY <1>1, <1>2, <1>8 DEF RenameFails, redisVars
<1>9. CASE Crash
  BY <1>1, <1>2, <1>9 DEF Crash, redisVars
<1>10. ASSUME NEW m \in Command,
              \/ CommandStep(m) \/ HandlingFails(m) \/ AnswerFails(m)
              \/ \E t \in Telegram, c \in Code : SendLink(m, t, c),
              ~RenameKeys(m)
       PROVE  UNCHANGED <<states, strays>>
  BY <1>10 DEF CommandStep, Consume, ReadAccounts, Commit, CommitRefused,
     Reassign, Answer, HandlingFails, AnswerFails, SendLink, redisVars,
     historyVars
<1>11. ASSUME WebStep, \A a \in Web : ~DeleteMe(a)
       PROVE  UNCHANGED <<states, strays>>
  BY <1>11 DEF WebStep, Register, Login, Logout, IssueReads, IssueDeletes,
     IssueSets, CodeExpires, redisVars, historyVars
<1>12. ASSUME NEW b \in Batch, NEW t \in Telegram, NEW a \in Account,
              BatchStarts(b, t, a)
       PROVE  UNCHANGED <<states, strays>>
  BY <1>12 DEF BatchStarts, redisVars, historyVars
<1>13. CASE UNCHANGED vars
  BY <1>4, <1>13 DEF vars, redisVars, historyVars
<1>14. QED
  BY <1>4, <1>5, <1>6, <1>7, <1>8, <1>9, <1>10, <1>11, <1>12, <1>13 DEF Next

\* Every step keeps the shapes.
LEMMA ShapesStep ==
  ASSUME Shapes, [Next]_vars
  PROVE  Shapes'
<1>0. states' \in SUBSET Account /\ strays' \in SUBSET Account
  BY KeysTyped
<1>1. ASSUME NEW m \in Command,
             \/ CommandStep(m) \/ HandlingFails(m) \/ RenameFails(m)
             \/ AnswerFails(m)
             \/ \E t \in Telegram, c \in Code : SendLink(m, t, c)
      PROVE  Shapes'
  BY <1>0, <1>1, ReadingShapes, CommitShapes, MovingShapes, AnswerShapes
     DEF CommandStep
<1>2. CASE UNCHANGED vars
  BY <1>2 DEF vars, redisVars, processVars, historyVars, Shapes, TypeOK,
     Shaped, RequestsShaped, BatchesShaped
<1>3. QED
  BY <1>0, <1>1, <1>2, WebShapes, BatchShapes, CrashShapes DEF Next

\* Every variable stays within its type: the codes, accounts and turns that
\* requests, commands and batches carry are real ones in every phase.
THEOREM TypeCorrectness == Spec => []TypeOK
<1>1. Init => Shapes
  BY ShapesInit
<1>2. Shapes /\ [Next]_vars => Shapes'
  BY ShapesStep
<1>3. Shapes => TypeOK
  BY DEF Shapes
<1>4. QED
  BY <1>1, <1>2, <1>3, PTL DEF Spec

-----------------------------------------------------------------------------
(* Where the accounts of a command are bound                               *)

\* It is past the move, and its sender is going to hear of success.
Settled(k) == k.phase = "qdrant" \/ (k.phase = "answer" /\ k.outcome = "linked")

\* With rows b and excused persons e, the accounts of k are bound to its
\* person, or why they are not is known.
Aimed(k, b, e) ==
  /\ k.phase = "commit" => b[k.target] # Unused
  /\ k.phase = "redis" => /\ b[k.old] = Gone
                          /\ \/ b[k.target] = k.tg
                             \/ k.tg \in e /\ b[k.target] \in e \union {Gone}
  /\ Settled(k) => b[k.target] \in {k.tg, Gone} \/ k.tg \in e
  /\ k.old \in Account => \/ b[k.old] \in {k.tg, Gone}
                          \/ k.tg \in e /\ b[k.old] \in e

\* Two commands that share accounts: who of them is excused.
Apart(k, l, e) ==
  /\ k.phase = "redis" /\ l.phase = "redis" /\ k.target = l.target => k.tg \in e
  /\ k.old \in Account /\ k.old = l.old /\ k.tg # l.tg => k.tg \in e
  /\ k.phase = "redis" /\ l.old = k.target /\ k.tg # l.tg => l.tg \in e

\* What the target has of the person who is moved to it was saved meanwhile.
Fresh(k, c, x, e) ==
  k.phase = "redis" /\ k.tg \notin e =>
    \A turn \in c[k.target] : turn[1] = k.tg => turn \in x

AllAimed == \A m \in Command : Aimed(command[m], bound, excused)
AllApart == \A m, n \in Command :
              m # n => Apart(command[m], command[n], excused)
AllFresh == \A m \in Command : Fresh(command[m], context, exposed, excused)
NothingBefore ==
  \A a \in Account : bound[a] \in {Unused, Unbound} => context[a] = {}
BatchesBound ==
  \A b \in Batch :
    batch[b] # NoBatch => bound[batch[b].user] \in Telegram \union {Gone}

Places == /\ Shapes
          /\ AllAimed /\ AllApart /\ AllFresh /\ NothingBefore /\ BatchesBound

\* How the rows may change from b to c while the excused grow from e to f;
\* the persons in busy are being moved.
Rebound(b, c, e, f, busy) ==
  /\ e \subseteq f /\ f \subseteq Telegram
  /\ \A d \in Account :
       \/ c[d] = b[d]
       \/ b[d] \in {Unused, Unbound} /\ c[d] \in Telegram \union {Unbound}
       \/ b[d] \in {Unused, Unbound} /\ c[d] = Gone
       \/ b[d] \in f /\ c[d] \in f \union {Gone}
       \/ b[d] \in Telegram /\ c[d] = Gone /\ b[d] \notin busy

\* A command goes on from k to r without a look at the accounts.
Quiet(k, r) ==
  /\ r.phase \in {"commit", "redis"} => r = k
  /\ Settled(r) => /\ Settled(k) \/ k.phase = "redis"
                   /\ r.tg = k.tg /\ r.target = k.target
  /\ r.old \in Account => r.old = k.old /\ r.tg = k.tg

\* It does not forget that turns are on their way, unless f excuses them.
Carries(k) == k.old \in Account
              /\ (k.phase = "redis" \/ k.outcome \in {"partial", "failed"})
Minds(k, r, f) ==
  Carries(k) /\ k.tg \notin f => Carries(r) /\ r.old = k.old /\ r.tg = k.tg

\* A command that goes on quietly stays aimed while rows are rebound.
LEMMA AimStays ==
  ASSUME NEW k \in CommandType, NEW r \in CommandType, Shaped(k), Shaped(r),
         NEW b, NEW c, NEW e \in SUBSET Telegram, NEW f, NEW busy,
         Aimed(k, b, e), Quiet(k, r), Rebound(b, c, e, f, busy),
         k.phase = "redis" => k.tg \in busy
  PROVE  Aimed(r, c, f)
<1>1. /\ r.phase \in {"commit", "redis", "qdrant"} => r.target \in Account
      /\ r.phase = "redis" => r.old \in Account /\ r.tg \in Telegram
      /\ Settled(r) => r.target \in Account /\ r.tg \in Telegram
      /\ r.old \in Account => r.tg \in Telegram
  <2>1. r.phase \in {"unsent", "done"} => r.old \notin Account
    BY Distinct DEF Shaped, NoCommand
  <2>2. /\ r.phase \in {"commit", "redis", "qdrant"} => r.target \in Account
        /\ r.phase = "redis" => r.old \in Account
        /\ Settled(r) => r.target \in Account
        /\ Settled(r) => r.phase \notin {"unsent", "done"}
    BY DEF Shaped, Account, Settled
  <2>3. QED
    BY <2>1, <2>2 DEF Shaped
<1>2. r.phase = "commit" => c[r.target] # Unused
  BY <1>1, Distinct DEF Aimed, Quiet, Rebound
<1>3. r.phase = "redis" => c[r.old] = Gone
  BY <1>1, Distinct DEF Aimed, Quiet, Rebound
<1>4. r.phase = "redis" => \/ c[r.target] = r.tg
                           \/ r.tg \in f /\ c[r.target] \in f \union {Gone}
  BY <1>1, Distinct DEF Aimed, Quiet, Rebound
<1>5. Settled(r) => c[r.target] \in {r.tg, Gone} \/ r.tg \in f
  <2> SUFFICES ASSUME Settled(r), r.tg \notin f
               PROVE  c[r.target] \in {r.tg, Gone}
    OBVIOUS
  <2>1. b[r.target] \in {r.tg, Gone}
    BY DEF Aimed, Quiet, Rebound
  <2>2. QED
    BY <1>1, <2>1, Distinct DEF Rebound
<1>6. r.old \in Account => \/ c[r.old] \in {r.tg, Gone}
                           \/ r.tg \in f /\ c[r.old] \in f
  <2> SUFFICES ASSUME r.old \in Account, c[r.old] # Gone
               PROVE  c[r.old] = r.tg \/ (r.tg \in f /\ c[r.old] \in f)
    OBVIOUS
  <2>1. \/ b[r.old] \in {r.tg, Gone}
        \/ r.tg \in e /\ b[r.old] \in e
    BY DEF Aimed, Quiet
  <2>2. r.tg \in Telegram /\ e \subseteq f /\ Gone \notin f
    BY <1>1, Distinct DEF Rebound
  <2>3. b[r.old] \notin {Unused, Unbound}
    BY <2>1, <2>2, Distinct
  <2>4. c[r.old] = b[r.old] \/ (b[r.old] \in f /\ c[r.old] \in f)
    BY <2>3 DEF Rebound
  <2>5. QED
    BY <2>1, <2>2, <2>4
<1>7. QED
  BY <1>2, <1>3, <1>4, <1>5, <1>6 DEF Aimed

\* Two commands that go on quietly stay apart.
LEMMA ApartStays ==
  ASSUME NEW k, NEW l, NEW r, NEW s, NEW e, NEW f,
         Shaped(k), Shaped(l),
         Apart(k, l, e), Quiet(k, r), Quiet(l, s), e \subseteq f
  PROVE  Apart(r, s, f)
BY DEF Apart, Quiet, Shaped, Account

SameUser(b) == batch[b] # NoBatch /\ batch'[b].user = batch[b].user

\* A step that only lets commands go on, rebinds accounts, and lets batches
\* go on or drops them.
Ordinary ==
  /\ \A m \in Command : /\ Quiet(command[m], command'[m])
                        /\ Minds(command[m], command'[m], excused')
  /\ Rebound(bound, bound', excused, excused', Telegram)
  /\ UNCHANGED <<context, saved, exposed>>
  /\ \A b \in Batch : \/ batch'[b] = batch[b] \/ batch'[b] = NoBatch
                      \/ SameUser(b)
                      \/ bound'[batch'[b].user] \in Telegram

\* Rebound rows give no memory to an unused account, and no batch is left
\* behind by them.
LEMMA RowsStay ==
  ASSUME Places, Shapes', NEW busy,
         Rebound(bound, bound', excused, excused', busy)
  PROVE  /\ context' = context => NothingBefore'
         /\ (\A b \in Batch : \/ batch'[b] = batch[b] \/ batch'[b] = NoBatch
                              \/ SameUser(b)
                              \/ bound'[batch'[b].user] \in Telegram)
              => BatchesBound'
<1>1. \A a \in Account : bound'[a] \in {Unused, Unbound} =>
                           bound[a] \in {Unused, Unbound}
  BY Distinct DEF Rebound
<1>2. \A a \in Account : bound[a] \in Telegram \union {Gone} =>
                           bound'[a] \in Telegram \union {Gone}
  BY Distinct DEF Rebound
<1>3. context' = context => NothingBefore'
  BY <1>1 DEF Places, NothingBefore
<1>4. ASSUME \A b \in Batch :
               \/ batch'[b] = batch[b] \/ batch'[b] = NoBatch
               \/ SameUser(b)
               \/ bound'[batch'[b].user] \in Telegram
      PROVE  BatchesBound'
  BY <1>2, <1>4 DEF Places, Shapes, BatchesShaped, BatchesBound, SameUser
<1>5. QED
  BY <1>3, <1>4

\* What the shapes say of one command.
LEMMA CommandFacts ==
  ASSUME Shapes, NEW m \in Command
  PROVE  /\ command[m] \in CommandType /\ Shaped(command[m])
         /\ bound \in [Account -> Telegram \union {Unused, Gone, Unbound}]
         /\ excused \in SUBSET Telegram
BY DEF Shapes, TypeOK, CommandType

\* The same after the step.
LEMMA NextFacts ==
  ASSUME Shapes', NEW m \in Command
  PROVE  /\ command'[m] \in CommandType /\ Shaped(command'[m])
         /\ excused' \in SUBSET Telegram
BY DEF Shapes, TypeOK, CommandType, Shaped

\* An ordinary step keeps all of the places.
LEMMA OrdinaryPlaces ==
  ASSUME Places, Shapes', Ordinary
  PROVE  Places'
<1>1. AllAimed'
  <2>1. ASSUME NEW m \in Command
        PROVE  Aimed(command'[m], bound', excused')
    <3>1. /\ command[m] \in CommandType /\ Shaped(command[m])
          /\ command'[m] \in CommandType /\ Shaped(command'[m])
          /\ excused \in SUBSET Telegram
      BY CommandFacts, NextFacts DEF Places
    <3>2. command[m].phase = "redis" => command[m].tg \in Telegram
      BY <3>1 DEF Shaped
    <3>3. QED
      BY <3>1, <3>2, AimStays DEF Places, AllAimed, Ordinary
  <2>2. QED
    BY <2>1 DEF AllAimed, Aimed, Settled
<1>2. AllApart'
  <2>1. ASSUME NEW m \in Command, NEW n \in Command, m # n
        PROVE  Apart(command'[m], command'[n], excused')
    <3>1. Shaped(command[m]) /\ Shaped(command[n])
      BY CommandFacts DEF Places
    <3>2. Apart(command[m], command[n], excused) /\ excused \subseteq excused'
      BY <2>1 DEF Places, AllApart, Ordinary, Rebound
    <3>3. QED
      BY <3>1, <3>2, ApartStays DEF Ordinary
  <2>2. QED
    BY <2>1 DEF AllApart, Apart
<1>3. AllFresh'
  <2>1. ASSUME NEW m \in Command
        PROVE  Fresh(command'[m], context, exposed, excused')
    <3>1. Fresh(command[m], context, exposed, excused)
          /\ excused \subseteq excused'
      BY DEF Places, AllFresh, Ordinary, Rebound
    <3>2. Quiet(command[m], command'[m])
      BY DEF Ordinary
    <3>3. QED
      BY <3>1, <3>2 DEF Fresh, Quiet
  <2>2. QED
    BY <2>1 DEF AllFresh, Fresh, Ordinary
<1>4. NothingBefore' /\ BatchesBound'
  BY RowsStay DEF Ordinary
<1>5. QED
  BY <1>1, <1>2, <1>3, <1>4 DEF Places

\* When one command goes on quietly, all do.
LEMMA QuietTurn ==
  ASSUME Shapes, NEW m \in Command, NEW r, Turns(m, r),
         Quiet(command[m], r), Minds(command[m], r, excused')
  PROVE  \A n \in Command : /\ Quiet(command[n], command'[n])
                            /\ Minds(command[n], command'[n], excused')
<1>1. command'[m] = r /\ \A n \in Command \ {m} : command'[n] = command[n]
  BY TurnsTo
<1>2. ASSUME NEW k
      PROVE  Quiet(k, k) /\ Minds(k, k, excused')
  BY DEF Quiet, Minds
<1>3. QED
  BY <1>1, <1>2

\* Rows that stay are rebound, trivially.
LEMMA SameRows ==
  ASSUME UNCHANGED bound, excused \subseteq excused',
         excused' \in SUBSET Telegram
  PROVE  Rebound(bound, bound', excused, excused', Telegram)
BY DEF Rebound

\* A person without an account is given an unused one.
LEMMA ResolvedRows ==
  ASSUME Shapes, Shapes', excused \subseteq excused',
         NEW t \in Telegram, NEW a \in Account, ResolveUser(t, a)
  PROVE  /\ Rebound(bound, bound', excused, excused', Telegram)
         /\ bound'[a] = t
<1>1. excused' \in SUBSET Telegram /\ TypeOK
  BY DEF Shapes, TypeOK
<1>2. /\ bound'[a] = t /\ (bound[a] = t \/ bound[a] = Unused)
      /\ \A d \in Account \ {a} : bound'[d] = bound[d]
  BY <1>1, ResolveTyped
<1>3. QED
  BY <1>1, <1>2 DEF Rebound

\* The requests of the web API.
LEMMA WebOrdinary ==
  ASSUME Shapes, Shapes', WebStep
  PROVE  Ordinary
<1>1. UNCHANGED <<command, batch, context, saved, exposed>>
  BY DEF WebStep, Register, Login, Logout, DeleteMe, IssueReads, IssueDeletes,
     IssueSets, CodeExpires, redisVars, processVars, historyVars
<1>2. bound \in [Account -> Telegram \union {Unused, Gone, Unbound}]
      /\ excused' \in SUBSET Telegram
  BY DEF Shapes, TypeOK
<1>3. Rebound(bound, bound', excused, excused', Telegram)
  <2>1. ASSUME NEW a \in Web, Register(a)
        PROVE  Rebound(bound, bound', excused, excused', Telegram)
    <3>1. /\ bound[a] = Unused /\ bound' = [bound EXCEPT ![a] = Unbound]
          /\ UNCHANGED excused
      BY <2>1 DEF Register, historyVars
    <3>2. QED
      BY <1>2, <3>1 DEF Rebound
  <2>2. ASSUME NEW a \in Web, DeleteMe(a)
        PROVE  Rebound(bound, bound', excused, excused', Telegram)
    <3>1. /\ bound' = [bound EXCEPT ![a] = Gone]
          /\ excused \subseteq excused'
          /\ bound[a] \in Telegram => bound[a] \in excused'
          /\ bound[a] \notin {Unused, Gone}
      BY <2>2 DEF DeleteMe, Authorized, Exists
    <3>2. \A d \in Account : d # a => bound'[d] = bound[d]
      BY <1>2, <3>1
    <3>3. a \in Account => bound'[a] = Gone /\ (bound[a] = Unbound
                                                \/ bound[a] \in excused')
      BY <1>2, <3>1
    <3>4. QED
      BY <1>2, <3>1, <3>2, <3>3 DEF Rebound
  <2>3. CASE UNCHANGED <<bound, excused>>
    BY <1>2, <2>3, SameRows
  <2>4. QED
    BY <2>1, <2>2, <2>3 DEF WebStep, Login, Logout, IssueReads, IssueDeletes,
       IssueSets, CodeExpires, historyVars
<1>4. \A m \in Command : /\ Quiet(command[m], command'[m])
                         /\ Minds(command[m], command'[m], excused')
  BY <1>1 DEF Quiet, Minds
<1>5. QED
  BY <1>1, <1>3, <1>4 DEF Ordinary

\* A batch that reads its account.
LEMMA StartOrdinary ==
  ASSUME Shapes, Shapes', NEW b \in Batch, NEW t \in Telegram,
         NEW a \in Account, BatchStarts(b, t, a)
  PROVE  Ordinary
<1>1. UNCHANGED <<command, context, saved, exposed, excused>>
  BY DEF BatchStarts, redisVars, historyVars
<1>2. Rebound(bound, bound', excused, excused', Telegram) /\ bound'[a] = t
  BY <1>1, ResolvedRows DEF BatchStarts
<1>3. ASSUME NEW d \in Batch
      PROVE  batch'[d] = batch[d] \/ bound'[batch'[d].user] \in Telegram
  <2>1. batch' = [batch EXCEPT ![b] = [tg |-> t, user |-> a,
                                       thinking |-> FALSE]]
    BY DEF BatchStarts
  <2>2. d = b => batch'[d].user = a
    BY <2>1 DEF Shapes, TypeOK
  <2>3. d # b => batch'[d] = batch[d]
    BY <2>1 DEF Shapes, TypeOK
  <2>4. QED
    BY <1>2, <2>2, <2>3
<1>4. \A m \in Command : /\ Quiet(command[m], command'[m])
                         /\ Minds(command[m], command'[m], excused')
  BY <1>1 DEF Quiet, Minds
<1>5. QED
  BY <1>1, <1>2, <1>3, <1>4 DEF Ordinary

\* A batch that sets thinking.
LEMMA ThinkOrdinary ==
  ASSUME Shapes, Shapes', NEW b \in Batch, BatchThinks(b)
  PROVE  Ordinary
<1>1. UNCHANGED <<bound, command, context, saved, exposed, excused>>
  BY DEF BatchThinks
<1>2. Rebound(bound, bound', excused, excused', Telegram)
  BY <1>1, SameRows DEF Shapes, TypeOK
<1>3. ASSUME NEW d \in Batch
      PROVE  batch'[d] = batch[d] \/ SameUser(d)
  <2>1. batch' = [batch EXCEPT ![b].thinking = TRUE] /\ batch[b] # NoBatch
    BY DEF BatchThinks
  <2>2. batch \in [Batch -> BatchType]
    BY DEF Shapes, TypeOK, BatchType
  <2>3. QED
    BY <2>1, <2>2 DEF SameUser, BatchType
<1>4. \A m \in Command : /\ Quiet(command[m], command'[m])
                         /\ Minds(command[m], command'[m], excused')
  BY <1>1 DEF Quiet, Minds
<1>5. QED
  BY <1>1, <1>2, <1>3, <1>4 DEF Ordinary

\* Steps of a command that neither commit, nor rename, nor read accounts.
LEMMA TurnOrdinary ==
  ASSUME Shapes, Shapes', NEW m \in Command, NEW r, Turns(m, r),
         Quiet(command[m], r), Minds(command[m], r, excused'),
         UNCHANGED <<context, saved, exposed, batch>>,
         Rebound(bound, bound', excused, excused', Telegram)
  PROVE  Ordinary
BY QuietTurn DEF Ordinary

\* The steps of a command that look at no account.
LEMMA QuietCommands ==
  ASSUME Shapes, Shapes', NEW m \in Command,
         \/ \E t \in Telegram, c \in Code : SendLink(m, t, c)
         \/ Consume(m) \/ CommitRefused(m) \/ HandlingFails(m)
         \/ RenameFails(m) \/ Reassign(m) \/ AnswerFails(m)
  PROVE  Ordinary
<1>1. /\ UNCHANGED <<bound, context, saved, exposed, excused, batch>>
      /\ Rebound(bound, bound', excused, excused', Telegram)
  <2>1. UNCHANGED <<bound, context, saved, exposed, excused, batch>>
    BY DEF SendLink, Consume, CommitRefused, HandlingFails, RenameFails,
       Reassign, AnswerFails, redisVars, historyVars
  <2>2. excused' \in SUBSET Telegram
    BY DEF Shapes, TypeOK
  <2>3. QED
    BY <2>1, <2>2, SameRows
<1>2. Shaped(command[m]) /\ command[m] \in CommandType
  BY CommandFacts
<1>3. ASSUME NEW r, Turns(m, r), Quiet(command[m], r),
             Minds(command[m], r, excused)
      PROVE  Ordinary
  BY <1>1, <1>3, TurnOrdinary
<1>4. ASSUME NEW t \in Telegram, NEW c \in Code, SendLink(m, t, c)
      PROVE  Ordinary
  <2> DEFINE r == [NoCommand EXCEPT !.phase = "queued", !.tg = t, !.code = c]
  <2>1. command[m].old \notin Account
    BY <1>2, <1>4, Distinct DEF SendLink, Shaped, NoCommand
  <2>2. /\ r.phase = "queued" /\ r.old = NoAccount /\ r.outcome = "linked"
        /\ command' = [command EXCEPT ![m] = r] /\ r \in CommandType
    BY <1>4 DEF SendLink, NoCommand, CommandType, CommandPhases, Outcomes
  <2> HIDE DEF r
  <2>3. Turns(m, r) /\ Quiet(command[m], r) /\ Minds(command[m], r, excused)
    BY <2>1, <2>2, Distinct DEF Turns, Quiet, Settled, Minds, Carries
  <2>4. QED
    BY <1>3, <2>3
<1>5. ASSUME NEW r, Turns(m, r), SameLink(command[m], r),
             r.phase \notin {"commit", "redis"},
             Settled(r) => Settled(command[m]) \/ command[m].phase = "redis",
             Carries(command[m]) => r.outcome \in {"partial", "failed"}
      PROVE  Ordinary
  <2>1. Quiet(command[m], r) /\ Minds(command[m], r, excused)
    BY <1>5 DEF Quiet, Minds, Carries, SameLink
  <2>2. QED
    BY <1>3, <1>5, <2>1
<1>6. ASSUME NEW o \in {"failed", "invalid", "partial"}, Ends(m, o),
             Carries(command[m]) => o # "invalid"
      PROVE  Ordinary
  <2>1. PICK r : /\ Turns(m, r) /\ SameLink(command[m], r)
                 /\ r.phase = "answer" /\ r.outcome = o
    BY <1>6, EndsTurns DEF Outcomes
  <2>2. QED
    BY <1>5, <1>6, <2>1 DEF Settled
<1>7. CASE Consume(m)
  <2>1. command[m].phase = "queued" /\ command[m].old \notin Account
    BY <1>2, <1>7, Distinct DEF Consume, Shaped
  <2>2. CASE codes[command[m].code] \in Web
    <3> DEFINE r == [command[m] EXCEPT !.phase = "read",
                                       !.target = codes[command[m].code]]
    <3>1. /\ command' = [command EXCEPT ![m] = r] /\ r \in CommandType
          /\ r.phase = "read" /\ r.old = command[m].old
      BY <1>2, <1>7, <2>2 DEF Consume, CommandType, CommandPhases
    <3> HIDE DEF r
    <3>2. Turns(m, r) /\ Quiet(command[m], r) /\ Minds(command[m], r, excused)
      BY <2>1, <3>1 DEF Turns, Quiet, Settled, Minds, Carries
    <3>3. QED
      BY <1>3, <3>2
  <2>3. CASE codes[command[m].code] \notin Web
    BY <1>6, <1>7, <2>1, <2>3 DEF Consume, Carries
  <2>4. QED
    BY <2>2, <2>3
<1>8. CASE CommitRefused(m) \/ HandlingFails(m)
  BY <1>6, <1>8 DEF CommitRefused, HandlingFails
<1>9. CASE RenameFails(m)
  <2> DEFINE r == [command[m] EXCEPT !.phase = "qdrant", !.outcome = "partial"]
  <2>1. /\ command' = [command EXCEPT ![m] = r] /\ r \in CommandType
        /\ r.phase = "qdrant" /\ r.outcome = "partial"
        /\ SameLink(command[m], r) /\ command[m].phase = "redis"
    BY <1>2, <1>9 DEF RenameFails, CommandType, CommandPhases, Outcomes,
       SameLink
  <2> HIDE DEF r
  <2>2. QED
    BY <1>5, <2>1 DEF Turns
<1>10. CASE Reassign(m)
  <2>1. CASE Becomes(m, "answer")
    <3>1. PICK r : /\ Turns(m, r) /\ SameLink(command[m], r)
                   /\ r.phase = "answer" /\ r.outcome = command[m].outcome
      BY <2>1, BecomesTurns DEF CommandPhases
    <3>2. command[m].phase = "qdrant"
      BY <1>10 DEF Reassign
    <3>3. QED
      BY <1>5, <3>1, <3>2 DEF Settled, Carries
  <2>2. CASE Ends(m, "partial")
    BY <1>6, <2>2
  <2>3. QED
    BY <1>10, <2>1, <2>2 DEF Reassign
<1>11. CASE AnswerFails(m)
  <2>1. CASE command[m].outcome = "failed"
    <3>1. PICK r : /\ Turns(m, r) /\ SameLink(command[m], r)
                   /\ r.phase = "stuck" /\ r.outcome = command[m].outcome
      BY <1>11, <2>1, BecomesTurns DEF AnswerFails, CommandPhases
    <3>2. QED
      BY <1>5, <2>1, <3>1 DEF Settled
  <2>2. CASE command[m].outcome # "failed"
    BY <1>6, <1>11, <2>2 DEF AnswerFails
  <2>3. QED
    BY <2>1, <2>2
<1>12. QED
  BY <1>4, <1>7, <1>8, <1>9, <1>10, <1>11

\* The answer, which may register its sender.
LEMMA AnswerOrdinary ==
  ASSUME Shapes, Shapes', NEW m \in Command, NEW a \in Account, Answer(m, a)
  PROVE  Ordinary
<1> DEFINE r == [NoCommand EXCEPT !.phase = "done"]
<1>1. Shaped(command[m]) /\ command[m].phase = "answer"
  BY CommandFacts DEF Answer
<1>2. command[m].tg \in Telegram
  BY <1>1 DEF Shaped
<1>3. UNCHANGED <<context, saved, exposed, batch>>
  BY DEF Answer, redisVars
<1>4. excused \subseteq excused'
      /\ (command[m].outcome \in {"partial", "failed"} =>
            command[m].tg \in excused')
  BY DEF Answer
<1>5. Rebound(bound, bound', excused, excused', Telegram)
  BY <1>2, <1>4, ResolvedRows DEF Answer
<1>6. /\ r.phase = "done" /\ r.old = NoAccount /\ r \in CommandType
      /\ command' = [command EXCEPT ![m] = r]
  BY DEF Answer, NoCommand, CommandType, CommandPhases, Outcomes
<1> HIDE DEF r
<1>7. /\ Turns(m, r) /\ Quiet(command[m], r)
      /\ Minds(command[m], r, excused')
  BY <1>1, <1>4, <1>6, Distinct DEF Turns, Quiet, Settled, Minds, Carries
<1>8. QED
  BY <1>3, <1>5, <1>7, TurnOrdinary

\* A crash sends the commands back and excuses whose moves it cut short.
LEMMA CrashOrdinary ==
  ASSUME Shapes, Shapes', Crash
  PROVE  Ordinary
<1>1. /\ UNCHANGED <<bound, context, saved, exposed>>
      /\ excused \subseteq excused'
      /\ command' = [m \in Command |-> Dropped(command[m])]
      /\ batch' = [b \in Batch |-> NoBatch]
  BY DEF Crash, redisVars, Dropped
<1>2. Rebound(bound, bound', excused, excused', Telegram)
  BY <1>1, SameRows DEF Shapes, TypeOK
<1>3. ASSUME NEW m \in Command
      PROVE  /\ Quiet(command[m], command'[m])
             /\ Minds(command[m], command'[m], excused')
  <2>1. CASE command[m].phase \in {"unsent", "done"}
    BY <1>1, <2>1 DEF Dropped, Quiet, Minds
  <2>2. CASE command[m].phase \notin {"unsent", "done"}
    <3>1. command'[m].phase = "queued" /\ command'[m].old = NoAccount
      BY <1>1, <2>2 DEF Dropped, NoCommand
    <3>2. Carries(command[m]) => command[m].tg \in excused'
      BY Distinct DEF Crash, Carries
    <3>3. QED
      BY <3>1, <3>2, Distinct DEF Quiet, Settled, Minds
  <2>3. QED
    BY <2>1, <2>2
<1>4. QED
  BY <1>1, <1>2, <1>3 DEF Ordinary

\* Nothing happens.
LEMMA StutterOrdinary ==
  ASSUME Shapes, UNCHANGED vars
  PROVE  Ordinary
<1>1. UNCHANGED <<bound, context, saved, exposed, excused, command, batch>>
  BY DEF vars, redisVars, processVars, historyVars
<1>2. Rebound(bound, bound', excused, excused', Telegram)
  BY <1>1, SameRows DEF Shapes, TypeOK
<1>3. QED
  BY <1>1, <1>2 DEF Ordinary, Quiet, Minds

\* The accounts are read: either the answer is known, or they are kept for
\* the commit.
LEMMA AccountsRead ==
  ASSUME Shapes, NEW m \in Command, ReadAccounts(m)
  PROVE  \E r : /\ Turns(m, r) /\ r.tg = command[m].tg
                /\ r.target = command[m].target
                /\ \/ r.phase = "answer" /\ r.outcome # "linked"
                      /\ r.old = NoAccount
                   \/ r.phase = "commit" /\ r.outcome = "linked"
                      /\ Exists(r.target)
                      /\ \/ r.old = NoAccount
                         \/ r.old \in Account /\ bound[r.old] = r.tg
<1>1. /\ command[m] \in CommandType /\ command[m].phase = "read"
      /\ command[m].old = NoAccount /\ command[m].outcome = "linked"
  BY CommandFacts DEF ReadAccounts, Shaped
<1>2. ASSUME NEW o \in {"missing", "already", "taken"}, Ends(m, o)
      PROVE  \E r : /\ Turns(m, r) /\ r.tg = command[m].tg
                    /\ r.target = command[m].target
                    /\ r.phase = "answer" /\ r.outcome # "linked"
                    /\ r.old = NoAccount
  <2>1. PICK r : /\ Turns(m, r) /\ SameLink(command[m], r)
                 /\ r.phase = "answer" /\ r.outcome = o
    BY <1>2, EndsTurns DEF Outcomes
  <2>2. QED
    BY <1>1, <2>1 DEF SameLink
<1>3. ASSUME Exists(command[m].target),
             NEW a \in Account \union {NoAccount},
             a = NoAccount \/ a \in Holders(command[m].tg),
             command' = [command EXCEPT ![m].phase = "commit", ![m].old = a]
      PROVE  \E r : /\ Turns(m, r) /\ r.tg = command[m].tg
                    /\ r.target = command[m].target
                    /\ r.phase = "commit" /\ r.outcome = "linked"
                    /\ Exists(r.target)
                    /\ \/ r.old = NoAccount
                       \/ r.old \in Account /\ bound[r.old] = r.tg
  <2> DEFINE r == [command[m] EXCEPT !.phase = "commit", !.old = a]
  <2>1. r \in CommandType /\ command' = [command EXCEPT ![m] = r]
    BY <1>1, <1>3 DEF CommandType, CommandPhases
  <2>2. /\ r.tg = command[m].tg /\ r.target = command[m].target
        /\ r.phase = "commit" /\ r.outcome = "linked" /\ r.old = a
    BY <1>1 DEF CommandType
  <2> HIDE DEF r
  <2>3. Turns(m, r) /\ Exists(r.target)
    BY <1>3, <2>1, <2>2 DEF Turns
  <2>4. r.old = NoAccount \/ (r.old \in Account /\ bound[r.old] = r.tg)
    BY <1>3, <2>2 DEF Holders
  <2>5. QED
    BY <2>2, <2>3, <2>4
<1>4. (IF Holders(command[m].tg) = {} THEN NoAccount
       ELSE CHOOSE a \in Holders(command[m].tg) : TRUE)
        \in {NoAccount} \union Holders(command[m].tg)
  OBVIOUS
<1>5. \/ \E o \in {"missing", "already", "taken"} : Ends(m, o)
      \/ /\ Exists(command[m].target)
         /\ \E a \in {NoAccount} \union Holders(command[m].tg) :
              command' = [command EXCEPT ![m].phase = "commit", ![m].old = a]
  BY <1>4 DEF ReadAccounts
<1>6. Holders(command[m].tg) \subseteq Account
  BY DEF Holders
<1>7. QED
  BY <1>2, <1>3, <1>5, <1>6

\* A command reads the accounts it is going to bind.
LEMMA ReadPlaces ==
  ASSUME Places, Shapes', NEW m \in Command, ReadAccounts(m)
  PROVE  Places'
<1>1. UNCHANGED <<bound, context, batch, saved, exposed, excused>>
  BY DEF ReadAccounts, redisVars, historyVars
<1>2. Shapes /\ AllAimed /\ AllApart /\ AllFresh
  BY DEF Places
<1>3. PICK r : /\ Turns(m, r) /\ r.tg = command[m].tg
               /\ r.target = command[m].target
               /\ \/ r.phase = "answer" /\ r.outcome # "linked"
                     /\ r.old = NoAccount
                  \/ r.phase = "commit" /\ r.outcome = "linked"
                     /\ Exists(r.target)
                     /\ \/ r.old = NoAccount
                        \/ r.old \in Account /\ bound[r.old] = r.tg
  BY <1>2, AccountsRead
<1>4. command'[m] = r /\ \A n \in Command \ {m} : command'[n] = command[n]
  BY <1>2, <1>3, TurnsTo
<1>5. r.tg \in Telegram /\ excused \in SUBSET Telegram
  BY <1>2, <1>3, CommandFacts DEF ReadAccounts, Shaped
<1>6. Aimed(r, bound, excused)
  BY <1>3, Distinct DEF Aimed, Settled, Exists
<1>7. AllAimed'
  <2>1. \A n \in Command : Aimed(command'[n], bound, excused)
    BY <1>2, <1>4, <1>6 DEF AllAimed
  <2>2. QED
    BY <1>1, <2>1 DEF AllAimed, Aimed, Settled
<1>8. ASSUME NEW n \in Command \ {m}
      PROVE  Apart(r, command[n], excused) /\ Apart(command[n], r, excused)
  <2>1. Aimed(command[n], bound, excused) /\ Shaped(command[n])
    BY <1>2, CommandFacts DEF AllAimed
  <2>2. r.phase # "redis"
    BY <1>3
  <2>3. ASSUME r.old \in Account, command[n].old = r.old, command[n].tg # r.tg
        PROVE  r.tg \in excused /\ command[n].tg \in excused
    <3>1. bound[r.old] = r.tg /\ r.tg # Gone
      BY <1>3, <1>5, <2>3, Distinct
    <3>2. QED
      BY <2>1, <2>3, <3>1 DEF Aimed
  <2>4. ASSUME command[n].phase = "redis", r.old = command[n].target,
               command[n].tg # r.tg
        PROVE  r.tg \in excused
    <3>1. r.old \in Account
      BY <2>1, <2>4 DEF Shaped, Account
    <3>2. bound[r.old] = r.tg /\ r.tg # Gone
      BY <1>3, <1>5, <3>1, Distinct
    <3>3. QED
      BY <2>1, <2>4, <3>2 DEF Aimed
  <2>5. QED
    BY <2>2, <2>3, <2>4 DEF Apart
<1>9. AllApart'
  <2>1. \A k, n \in Command :
          k # n => Apart(command'[k], command'[n], excused)
    BY <1>2, <1>4, <1>8 DEF AllApart
  <2>2. QED
    BY <1>1, <2>1 DEF AllApart, Apart
<1>10. AllFresh'
  <2>1. \A n \in Command : Fresh(command'[n], context, exposed, excused)
    <3>1. Fresh(r, context, exposed, excused)
      BY <1>3 DEF Fresh
    <3>2. QED
      BY <1>2, <1>4, <3>1 DEF AllFresh
  <2>2. QED
    BY <1>1, <2>1 DEF AllFresh, Fresh
<1>11. NothingBefore' /\ BatchesBound'
  BY <1>1 DEF Places, NothingBefore, BatchesBound
<1>12. QED
  BY <1>7, <1>9, <1>10, <1>11 DEF Places

\* A batch saves a turn.
LEMMA Saved ==
  ASSUME Shapes, NEW b \in Batch, BatchSaves(b)
  PROVE  \E t \in Telegram, a \in Account, turn \in Turn :
           /\ batch[b] # NoBatch /\ batch[b].tg = t /\ batch[b].user = a
           /\ saved[t] \in Nat /\ turn = <<t, saved[t] + 1>>
           /\ saved' = [saved EXCEPT ![t] = saved[t] + 1]
           /\ context' = [context EXCEPT ![a] = context[a] \union {turn}]
           /\ exposed' = IF bound[a] # t \/ Moving(t) # {}
                         THEN exposed \union {turn} ELSE exposed
           /\ batch' = [batch EXCEPT ![b] = NoBatch]
           /\ UNCHANGED <<bound, command, excused>>
<1>1. PICK t \in Telegram, a \in Account :
        batch[b].tg = t /\ batch[b].user = a
  BY DEF Shapes, BatchesShaped, BatchSaves
<1>2. saved[t] \in 0 .. MaxTurns /\ saved[t] < MaxTurns /\ MaxTurns \in Nat
  BY <1>1, LinkAssumption DEF BatchSaves, Shapes, TypeOK
<1>3. saved[t] + 1 \in 1 .. MaxTurns /\ saved[t] \in Nat
  BY <1>2
<1>4. <<t, saved[t] + 1>> \in Turn
  BY <1>3 DEF Turn
<1>5. QED
  BY <1>1, <1>3, <1>4 DEF BatchSaves

\* A batch saves its turn.
LEMMA SavesPlaces ==
  ASSUME Places, Shapes', NEW b \in Batch, BatchSaves(b)
  PROVE  Places'
<1>1. Shapes /\ AllFresh /\ NothingBefore /\ BatchesBound
  BY DEF Places
<1>2. PICK t \in Telegram, a \in Account, turn \in Turn :
        /\ batch[b] # NoBatch /\ batch[b].tg = t /\ batch[b].user = a
        /\ saved[t] \in Nat /\ turn = <<t, saved[t] + 1>>
        /\ saved' = [saved EXCEPT ![t] = saved[t] + 1]
        /\ context' = [context EXCEPT ![a] = context[a] \union {turn}]
        /\ exposed' = IF bound[a] # t \/ Moving(t) # {}
                      THEN exposed \union {turn} ELSE exposed
        /\ batch' = [batch EXCEPT ![b] = NoBatch]
        /\ UNCHANGED <<bound, command, excused>>
  BY <1>1, Saved
<1>3. AllAimed' /\ AllApart'
  BY <1>2 DEF Places, AllAimed, AllApart, Aimed, Settled, Apart
<1>4. /\ context'[a] = context[a] \union {turn}
      /\ \A d \in Account \ {a} : context'[d] = context[d]
  BY <1>1, <1>2 DEF Shapes, TypeOK
<1>5. AllFresh'
  <2>1. ASSUME NEW n \in Command
        PROVE  Fresh(command[n], context', exposed', excused)
    <3> SUFFICES ASSUME command[n].phase = "redis",
                        command[n].tg \notin excused,
                        NEW x \in context'[command[n].target],
                        x[1] = command[n].tg
                 PROVE  x \in exposed'
      BY DEF Fresh
    <3>1. Fresh(command[n], context, exposed, excused)
          /\ command[n].target \in Account
      BY <1>1, CommandFacts DEF AllFresh, Shaped, Account
    <3>2. CASE x \in context[command[n].target]
      BY <1>2, <3>1, <3>2 DEF Fresh
    <3>3. CASE x \notin context[command[n].target]
      <4>1. x = turn
        BY <1>4, <3>1, <3>3
      <4>2. command[n].tg = t
        BY <1>2, <4>1
      <4>3. n \in Moving(t)
        BY <4>2 DEF Moving
      <4>4. QED
        BY <1>2, <4>1, <4>3
    <3>4. QED
      BY <3>2, <3>3
  <2>2. QED
    BY <1>2, <2>1 DEF AllFresh, Fresh
<1>6. NothingBefore'
  BY <1>1, <1>2, <1>4, Distinct DEF NothingBefore, BatchesBound
<1>7. BatchesBound'
  <2>1. \A d \in Batch : batch'[d] = batch[d] \/ batch'[d] = NoBatch
    BY <1>1, <1>2 DEF Shapes, TypeOK
  <2>2. QED
    BY <1>1, <1>2, <2>1 DEF BatchesBound
<1>8. QED
  BY <1>3, <1>5, <1>6, <1>7 DEF Places

\* The persons that are being moved.
Busy == {command[n].tg : n \in {k \in Command : command[k].phase = "redis"}}

\* The command that commits, and what its transaction leaves.
LEMMA Committed ==
  ASSUME Shapes, NEW m \in Command, Commit(m)
  PROVE  \E r \in CommandType, t \in Telegram, target \in Account,
            old \in Account \union {NoAccount} :
           /\ Turns(m, r) /\ SameLink(command[m], r)
           /\ command[m].phase = "commit"
           /\ r.tg = t /\ r.target = target /\ r.old = old /\ old # target
           /\ r.outcome = "linked"
           /\ \/ old = NoAccount /\ r.phase = "answer" /\ Exists(target)
              \/ old \in Account /\ r.phase = "redis"
           /\ old \in Account => bound'[old] = Gone
           /\ Exists(target) => bound'[target] = t
           /\ \A d \in Account \ {old} :
                d # target \/ ~Exists(d) => bound'[d] = bound[d]
           /\ excused \subseteq excused'
           /\ \/ bound[target] = Unbound /\ t \notin Busy
              \/ /\ t \in excused' /\ LeftFrom(target) \subseteq excused'
                 /\ bound[target] \in Telegram => bound[target] \in excused'
           /\ UNCHANGED <<context, saved, exposed, batch>>
<1>1. /\ Shaped(command[m]) /\ command[m] \in CommandType
      /\ command[m].phase = "commit" /\ command[m].outcome = "linked"
  BY CommandFacts DEF Commit, Shaped
<1>2. PICK t \in Telegram, target \in Account,
           old \in Account \union {NoAccount} :
        /\ command[m].tg = t /\ command[m].target = target
        /\ command[m].old = old /\ old # target
  BY <1>1 DEF Shaped, CommandType, Account
<1>3. PICK r : /\ Turns(m, r) /\ SameLink(command[m], r)
               /\ r.outcome = "linked"
               /\ \/ old = NoAccount /\ r.phase = "answer"
                  \/ old \in Account /\ r.phase = "redis"
  <2>1. CASE old = NoAccount
    BY <1>2, <2>1, EndsTurns DEF Commit, Outcomes
  <2>2. CASE old # NoAccount
    BY <1>1, <1>2, <2>2, BecomesTurns DEF Commit, CommandPhases
  <2>3. QED
    BY <2>1, <2>2
<1>4. /\ bound' = Bind(m)
      /\ Exists(target) \/ old # NoAccount
      /\ UNCHANGED <<context, saved, exposed, batch>>
  BY <1>2 DEF Commit, redisVars
<1>5. Moving(t) = {} => t \notin Busy
  BY DEF Moving, Busy
<1>6. /\ excused \subseteq excused'
      /\ \/ bound[target] = Unbound /\ t \notin Busy
         \/ /\ t \in excused' /\ LeftFrom(target) \subseteq excused'
            /\ bound[target] \in Telegram => bound[target] \in excused'
  <2>1. CASE bound[target] = Unbound /\ Moving(t) = {}
    BY <1>2, <1>5, <2>1 DEF Commit
  <2>2. CASE ~(bound[target] = Unbound /\ Moving(t) = {})
    <3>1. excused' = excused \union {t} \union ({bound[target]}
                       \intersect Telegram) \union LeftFrom(target)
      BY <1>2, <2>2 DEF Commit
    <3>2. QED
      BY <3>1
  <2>3. QED
    BY <2>1, <2>2
<1>7. ASSUME NEW d \in Account
      PROVE  /\ d = old => bound'[d] = Gone
             /\ d # old /\ d = target /\ Exists(d) => bound'[d] = t
             /\ d # old /\ (d # target \/ ~Exists(d)) => bound'[d] = bound[d]
  BY <1>2, <1>4 DEF Bind
<1>8. r.tg = t /\ r.target = target /\ r.old = old
  BY <1>2, <1>3 DEF SameLink
<1>9. /\ \/ old = NoAccount /\ r.phase = "answer" /\ Exists(target)
         \/ old \in Account /\ r.phase = "redis"
      /\ old \in Account => bound'[old] = Gone
      /\ Exists(target) => bound'[target] = t
      /\ \A d \in Account \ {old} :
           d # target \/ ~Exists(d) => bound'[d] = bound[d]
  BY <1>2, <1>3, <1>4, <1>7, Distinct
<1>10. /\ Turns(m, r) /\ SameLink(command[m], r)
       /\ command[m].phase = "commit"
       /\ r.tg = t /\ r.target = target /\ r.old = old /\ old # target
       /\ r.outcome = "linked"
       /\ \/ old = NoAccount /\ r.phase = "answer" /\ Exists(target)
          \/ old \in Account /\ r.phase = "redis"
       /\ old \in Account => bound'[old] = Gone
       /\ Exists(target) => bound'[target] = t
       /\ \A d \in Account \ {old} :
            d # target \/ ~Exists(d) => bound'[d] = bound[d]
       /\ excused \subseteq excused'
       /\ \/ bound[target] = Unbound /\ t \notin Busy
          \/ /\ t \in excused' /\ LeftFrom(target) \subseteq excused'
             /\ bound[target] \in Telegram => bound[target] \in excused'
       /\ UNCHANGED <<context, saved, exposed, batch>>
  BY <1>1, <1>2, <1>3, <1>4, <1>6, <1>8, <1>9
<1>11. r \in CommandType
  BY <1>10 DEF Turns
<1>12. QED
  BY <1>10, <1>11

\* A command binds its target and deletes the old account.
LEMMA CommitPlaces ==
  ASSUME Places, Shapes', NEW m \in Command, Commit(m)
  PROVE  Places'
<1>1. Shapes /\ AllAimed /\ AllApart /\ AllFresh /\ NothingBefore
  BY DEF Places
<1>2. PICK r \in CommandType, t \in Telegram, target \in Account,
           old \in Account \union {NoAccount} :
        /\ Turns(m, r) /\ SameLink(command[m], r)
        /\ command[m].phase = "commit"
        /\ r.tg = t /\ r.target = target /\ r.old = old /\ old # target
        /\ r.outcome = "linked"
        /\ \/ old = NoAccount /\ r.phase = "answer" /\ Exists(target)
           \/ old \in Account /\ r.phase = "redis"
        /\ old \in Account => bound'[old] = Gone
        /\ Exists(target) => bound'[target] = t
        /\ \A d \in Account \ {old} :
             d # target \/ ~Exists(d) => bound'[d] = bound[d]
        /\ excused \subseteq excused'
        /\ \/ bound[target] = Unbound /\ t \notin Busy
           \/ /\ t \in excused' /\ LeftFrom(target) \subseteq excused'
              /\ bound[target] \in Telegram => bound[target] \in excused'
        /\ UNCHANGED <<context, saved, exposed, batch>>
  BY <1>1, Committed
<1>3. command'[m] = r /\ \A n \in Command \ {m} : command'[n] = command[n]
  BY <1>1, <1>2, TurnsTo
<1>4. /\ excused \in SUBSET Telegram /\ excused' \in SUBSET Telegram
      /\ bound \in [Account -> Telegram \union {Unused, Gone, Unbound}]
  BY <1>1, CommandFacts, NextFacts
<1>5. /\ bound[target] # Unused
      /\ old \in Account => \/ bound[old] \in {t, Gone}
                            \/ t \in excused /\ bound[old] \in excused
  BY <1>1, <1>2 DEF AllAimed, Aimed, SameLink
<1>6. bound[target] \in Telegram \union {Gone, Unbound}
      /\ (bound[target] \notin {Gone, Unused} <=> Exists(target))
  BY <1>4, <1>5 DEF Exists
<1>7. Rebound(bound, bound', excused, excused', Busy)
  <2> DEFINE Fine(d) ==
        \/ bound'[d] = bound[d]
        \/ bound[d] \in {Unused, Unbound}
             /\ bound'[d] \in Telegram \union {Unbound}
        \/ bound[d] \in {Unused, Unbound} /\ bound'[d] = Gone
        \/ bound[d] \in excused' /\ bound'[d] \in excused' \union {Gone}
        \/ bound[d] \in Telegram /\ bound'[d] = Gone /\ bound[d] \notin Busy
  <2>1. ASSUME old \in Account
        PROVE  Fine(old)
    <3>1. bound'[old] = Gone
      BY <1>2, <2>1
    <3>2. CASE bound[old] = t
      BY <1>2, <3>1, <3>2
    <3>3. CASE bound[old] # t
      BY <1>2, <1>5, <2>1, <3>1, <3>3
    <3>4. QED
      BY <3>2, <3>3
  <2>2. Fine(target)
    <3>1. CASE Exists(target)
      BY <1>2, <1>6, <3>1
    <3>2. CASE ~Exists(target)
      BY <1>2, <3>2
    <3>3. QED
      BY <3>1, <3>2
  <2>3. \A d \in Account \ {old, target} : Fine(d)
    BY <1>2
  <2>4. \A d \in Account : Fine(d)
    BY <2>1, <2>2, <2>3
  <2>5. QED
    BY <1>2, <1>4, <2>4 DEF Rebound
<1>8. AllAimed'
  <2>1. ASSUME NEW n \in Command \ {m}
        PROVE  Aimed(command'[n], bound', excused')
    <3>1. command[n].phase = "redis" => command[n].tg \in Busy
      BY DEF Busy
    <3>2. Quiet(command[n], command'[n])
      BY <1>3 DEF Quiet
    <3>3. QED
      BY <1>1, <1>4, <1>7, <3>1, <3>2, AimStays, CommandFacts, NextFacts
         DEF AllAimed
  <2>2. Aimed(r, bound', excused')
    <3>1. r.phase # "commit"
      BY <1>2
    <3>2. r.old \in Account => bound'[r.old] = Gone
      BY <1>2
    <3>3. r.phase = "redis" => bound'[r.old] = Gone
      BY <1>2
    <3>4. bound'[target] = t \/ (t \in excused' /\ bound'[target] = Gone)
      <4>1. CASE Exists(target)
        BY <1>2, <4>1
      <4>2. CASE ~Exists(target)
        BY <1>2, <1>6, <4>2, Distinct
      <4>3. QED
        BY <4>1, <4>2
    <3>5. QED
      BY <1>2, <3>1, <3>2, <3>3, <3>4 DEF Aimed
  <2>3. \A n \in Command : Aimed(command'[n], bound', excused')
    BY <1>3, <2>1, <2>2
  <2>4. QED
    BY <2>3 DEF AllAimed, Aimed, Settled
<1>9. ASSUME NEW n \in Command \ {m}
      PROVE  Apart(r, command[n], excused') /\ Apart(command[n], r, excused')
  <2>1. /\ Aimed(command[n], bound, excused) /\ Shaped(command[n])
        /\ Apart(command[m], command[n], excused)
        /\ Apart(command[n], command[m], excused)
    BY <1>1, CommandFacts DEF AllAimed, AllApart
  <2>2. ASSUME command[n].phase = "redis", command[n].target = target
        PROVE  t \in excused' /\ command[n].tg \in excused'
    <3>1. bound[target] # Unbound
      BY <1>4, <2>1, <2>2, Distinct DEF Aimed, Shaped
    <3>2. command[n].tg \in Telegram
      BY <2>1, <2>2 DEF Shaped
    <3>3. QED
      BY <1>2, <2>1, <2>2, <3>1, <3>2 DEF Aimed
  <2>3. ASSUME r.phase = "redis", command[n].old = target,
               command[n].tg # t
        PROVE  command[n].tg \in excused'
    <3>1. command[n].tg \in LeftFrom(target)
      BY <2>3 DEF LeftFrom
    <3>2. CASE bound[target] # Unbound
      BY <1>2, <3>1, <3>2
    <3>3. CASE bound[target] = Unbound
      <4>1. command[n].tg \in Telegram
        BY <2>1, <2>3, Distinct DEF Shaped, NoCommand
      <4>2. QED
        BY <1>4, <2>1, <2>3, <3>3, <4>1, Distinct DEF Aimed
    <3>4. QED
      BY <3>2, <3>3
  <2>4. QED
    BY <1>2, <2>1, <2>2, <2>3 DEF Apart, SameLink
<1>10. AllApart'
  <2>1. \A k, n \in Command \ {m} :
          k # n => Apart(command[k], command[n], excused')
    BY <1>1, <1>2 DEF AllApart, Apart
  <2>2. \A k, n \in Command :
          k # n => Apart(command'[k], command'[n], excused')
    BY <1>3, <1>9, <2>1
  <2>3. QED
    BY <2>2 DEF AllApart, Apart
<1>11. AllFresh'
  <2>1. ASSUME NEW n \in Command \ {m}
        PROVE  Fresh(command'[n], context, exposed, excused')
    BY <1>1, <1>2, <1>3 DEF AllFresh, Fresh
  <2>2. Fresh(r, context, exposed, excused')
    <3>1. bound[target] = Unbound => context[target] = {}
      BY <1>1 DEF NothingBefore
    <3>2. QED
      BY <1>2, <3>1 DEF Fresh
  <2>3. \A n \in Command : Fresh(command'[n], context, exposed, excused')
    BY <1>3, <2>1, <2>2
  <2>4. QED
    BY <1>2, <2>3 DEF AllFresh, Fresh
<1>12. NothingBefore' /\ BatchesBound'
  BY <1>2, <1>7, RowsStay
<1>13. QED
  BY <1>8, <1>10, <1>11, <1>12 DEF Places

\* The rename.
LEMMA Renamed ==
  ASSUME Shapes, NEW m \in Command, RenameKeys(m)
  PROVE  \E r \in CommandType, t \in Telegram, target \in Account,
            old \in Account :
           /\ Turns(m, r) /\ SameLink(command[m], r)
           /\ command[m].phase = "redis" /\ r.phase = "qdrant"
           /\ command[m].tg = t /\ command[m].target = target
           /\ command[m].old = old
           /\ context' = IF context[old] = {} THEN context
                         ELSE [context EXCEPT ![target] = context[old],
                                              ![old] = {}]
           /\ UNCHANGED <<bound, saved, exposed, excused, batch>>
<1>1. Shaped(command[m]) /\ command[m].phase = "redis"
  BY CommandFacts DEF RenameKeys
<1>2. PICK r : /\ Turns(m, r) /\ SameLink(command[m], r)
               /\ r.phase = "qdrant"
  BY RenamedTurns
<1>3. /\ command[m].tg \in Telegram /\ command[m].target \in Account
      /\ command[m].old \in Account
  BY <1>1 DEF Shaped, Account
<1>4. PICK t \in Telegram, target \in Account, old \in Account :
        /\ command[m].tg = t /\ command[m].target = target
        /\ command[m].old = old
  BY <1>3
<1>5. /\ Turns(m, r) /\ SameLink(command[m], r)
      /\ command[m].phase = "redis" /\ r.phase = "qdrant"
      /\ command[m].tg = t /\ command[m].target = target
      /\ command[m].old = old
      /\ context' = IF context[old] = {} THEN context
                    ELSE [context EXCEPT ![target] = context[old],
                                         ![old] = {}]
      /\ UNCHANGED <<bound, saved, exposed, excused, batch>>
  BY <1>1, <1>2, <1>4 DEF RenameKeys, ContextMoved
<1>6. r \in CommandType
  BY <1>5 DEF Turns
<1>7. QED
  BY <1>5, <1>6

\* The memory of the old account goes to the target.
LEMMA RenamePlaces ==
  ASSUME Places, Shapes', NEW m \in Command, RenameKeys(m)
  PROVE  Places'
<1>1. Shapes /\ AllAimed /\ AllApart /\ AllFresh /\ NothingBefore
      /\ BatchesBound
  BY DEF Places
<1>2. PICK r \in CommandType, t \in Telegram, target \in Account,
           old \in Account :
        /\ Turns(m, r) /\ SameLink(command[m], r)
        /\ command[m].phase = "redis" /\ r.phase = "qdrant"
        /\ command[m].tg = t /\ command[m].target = target
        /\ command[m].old = old
        /\ context' = IF context[old] = {} THEN context
                      ELSE [context EXCEPT ![target] = context[old],
                                           ![old] = {}]
        /\ UNCHANGED <<bound, saved, exposed, excused, batch>>
  BY <1>1, Renamed
<1>3. command'[m] = r /\ \A n \in Command \ {m} : command'[n] = command[n]
  BY <1>1, <1>2, TurnsTo
<1>4. /\ excused \in SUBSET Telegram /\ excused' \in SUBSET Telegram
      /\ bound \in [Account -> Telegram \union {Unused, Gone, Unbound}]
  BY <1>1, CommandFacts, NextFacts
<1>5. Aimed(command[m], bound, excused)
  BY <1>1 DEF AllAimed
<1>6. \A n \in Command : Quiet(command[n], command'[n])
  <2>1. Quiet(command[m], r)
    BY <1>2 DEF Quiet, SameLink
  <2>2. \A n \in Command \ {m} : Quiet(command[n], command[n])
    BY DEF Quiet
  <2>3. QED
    BY <1>3, <2>1, <2>2
<1>7. Rebound(bound, bound', excused, excused', Telegram)
  BY <1>2, <1>4, SameRows
<1>8. AllAimed'
  <2>1. ASSUME NEW n \in Command
        PROVE  Aimed(command'[n], bound', excused')
    <3>1. /\ command[n] \in CommandType /\ Shaped(command[n])
          /\ command'[n] \in CommandType /\ Shaped(command'[n])
      BY <1>1, CommandFacts, NextFacts
    <3>2. command[n].phase = "redis" => command[n].tg \in Telegram
      BY <3>1 DEF Shaped
    <3>3. QED
      BY <1>1, <1>4, <1>6, <1>7, <3>1, <3>2, AimStays DEF AllAimed
  <2>2. QED
    BY <2>1 DEF AllAimed, Aimed, Settled
<1>9. AllApart'
  <2>1. ASSUME NEW k \in Command, NEW n \in Command, k # n
        PROVE  Apart(command'[k], command'[n], excused')
    <3>1. Apart(command[k], command[n], excused)
          /\ Shaped(command[k]) /\ Shaped(command[n])
      BY <1>1, <2>1, CommandFacts DEF AllApart
    <3>2. QED
      BY <1>2, <1>6, <3>1, ApartStays
  <2>2. QED
    BY <2>1 DEF AllApart, Apart
<1>10. /\ \A d \in Account \ {target} : context'[d] \subseteq context[d]
       /\ context'[target] \subseteq context[target] \union context[old]
  BY <1>1, <1>2 DEF Shapes, TypeOK
<1>11. AllFresh'
  <2>1. ASSUME NEW n \in Command \ {m}
        PROVE  Fresh(command[n], context', exposed, excused)
    <3> SUFFICES ASSUME command[n].phase = "redis",
                        command[n].tg \notin excused
                 PROVE  \A x \in context'[command[n].target] :
                          x[1] = command[n].tg => x \in exposed
      BY DEF Fresh
    <3>1. command[n].target # target
      BY <1>1, <1>2 DEF AllApart, Apart
    <3>2. command[n].target \in Account
      BY <1>1, CommandFacts DEF Shaped, Account
    <3>3. QED
      BY <1>1, <1>10, <3>1, <3>2 DEF AllFresh, Fresh
  <2>2. Fresh(r, context', exposed, excused)
    BY <1>2 DEF Fresh
  <2>3. \A n \in Command : Fresh(command'[n], context', exposed', excused')
    BY <1>2, <1>3, <2>1, <2>2
  <2>4. QED
    BY <2>3 DEF AllFresh, Fresh
<1>12. NothingBefore'
  <2>1. bound[target] \notin {Unused, Unbound}
    BY <1>2, <1>4, <1>5, Distinct DEF Aimed
  <2>2. QED
    BY <1>1, <1>2, <1>10, <2>1 DEF NothingBefore
<1>13. BatchesBound'
  BY <1>1, <1>2 DEF BatchesBound
<1>14. QED
  BY <1>8, <1>9, <1>11, <1>12, <1>13 DEF Places

\* At the start nobody is bound.
LEMMA PlacesInit ==
  ASSUME Init
  PROVE  Places
<1>1. Shapes
  BY ShapesInit
<1>2. AllAimed /\ AllApart /\ AllFresh
  BY Distinct DEF Init, AllAimed, AllApart, AllFresh, Aimed, Settled, Apart,
     Fresh, NoCommand
<1>3. NothingBefore /\ BatchesBound
  BY DEF Init, NothingBefore, BatchesBound
<1>4. QED
  BY <1>1, <1>2, <1>3 DEF Places

\* Every step is an ordinary one, or one of the four that are not.
LEMMA StepKinds ==
  ASSUME Shapes, [Next]_vars
  PROVE  \/ Ordinary
         \/ \E m \in Command : ReadAccounts(m) \/ Commit(m) \/ RenameKeys(m)
         \/ \E b \in Batch : BatchSaves(b)
<1>1. Shapes'
  BY ShapesStep
<1>2. ASSUME NEW m \in Command,
             \/ CommandStep(m) \/ HandlingFails(m) \/ RenameFails(m)
             \/ AnswerFails(m)
             \/ \E t \in Telegram, c \in Code : SendLink(m, t, c)
      PROVE  Ordinary \/ ReadAccounts(m) \/ Commit(m) \/ RenameKeys(m)
  BY <1>1, <1>2, QuietCommands, AnswerOrdinary DEF CommandStep
<1>3. ASSUME NEW b \in Batch,
             \/ \E t \in Telegram, a \in Account : BatchStarts(b, t, a)
             \/ BatchThinks(b) \/ BatchSaves(b)
      PROVE  Ordinary \/ BatchSaves(b)
  BY <1>1, <1>3, StartOrdinary, ThinkOrdinary
<1>4. QED
  BY <1>1, <1>2, <1>3, WebOrdinary, CrashOrdinary, StutterOrdinary DEF Next

\* Every step keeps the places.
LEMMA PlacesStep ==
  ASSUME Places, [Next]_vars
  PROVE  Places'
<1>1. Shapes /\ Shapes'
  BY ShapesStep DEF Places
<1>2. QED
  BY <1>1, StepKinds, OrdinaryPlaces, ReadPlaces, CommitPlaces, RenamePlaces,
     SavesPlaces

\* Whoever is told that the link succeeded has the identity on the target,
\* or the target is gone, or an identity got in between: for any number of
\* commands, persons, codes, failures and crashes.
THEOREM LinkedMeansBoundHolds == Spec => []LinkedMeansBound
<1>1. Init => Places
  BY PlacesInit
<1>2. Places /\ [Next]_vars => Places'
  BY PlacesStep
<1>3. Places => LinkedMeansBound
  BY DEF Places, AllAimed, Aimed, Settled, LinkedMeansBound
<1>4. QED
  BY <1>1, <1>2, <1>3, PTL DEF Spec

-----------------------------------------------------------------------------
(* The turns of a person                                                   *)

\* With rows b, contexts c, exposed turns x and commands k: where a turn of
\* person t is.
Kept(turn, t, b, c, x, k) ==
  \/ turn \in x
  \/ \E a \in Account : b[a] = t /\ turn \in c[a]
  \/ \E m \in Command :
       k[m].tg = t /\ Carries(k[m]) /\ turn \in c[k[m].old]

\* What TurnsFollow says of one turn.
LEMMA FollowsBefore ==
  ASSUME TurnsFollow, NEW t \in Telegram \ excused, NEW n \in 1 .. saved[t]
  PROVE  Kept(<<t, n>>, t, bound, context, exposed, command)
BY DEF TurnsFollow, Kept, Carries

\* It is enough to say so of every turn.
LEMMA FollowsAfter ==
  ASSUME \A t \in Telegram \ excused' : \A n \in 1 .. saved'[t] :
           Kept(<<t, n>>, t, bound', context', exposed', command')
  PROVE  TurnsFollow'
BY DEF TurnsFollow, Kept, Carries

\* What a step has to show when it saves nothing.
LEMMA FollowsWhenKept ==
  ASSUME TurnsFollow, UNCHANGED saved, excused \subseteq excused',
         \A t \in Telegram \ excused' : \A n \in 1 .. saved[t] :
           Kept(<<t, n>>, t, bound, context, exposed, command) =>
             Kept(<<t, n>>, t, bound', context', exposed', command')
  PROVE  TurnsFollow'
<1>1. ASSUME NEW t \in Telegram \ excused', NEW n \in 1 .. saved'[t]
      PROVE  Kept(<<t, n>>, t, bound', context', exposed', command')
  <2>1. t \in Telegram \ excused /\ n \in 1 .. saved[t]
    BY <1>1
  <2>2. QED
    BY <2>1, FollowsBefore
<1>2. QED
  BY <1>1, FollowsAfter

\* An ordinary step leaves each turn where its person finds it.
LEMMA OrdinaryTurns ==
  ASSUME Places, Ordinary, TurnsFollow
  PROVE  TurnsFollow'
<1>1. ASSUME NEW t \in Telegram \ excused', NEW turn,
             Kept(turn, t, bound, context, exposed, command)
      PROVE  Kept(turn, t, bound', context', exposed', command')
  <2>1. UNCHANGED <<context, exposed>>
    BY DEF Ordinary
  <2>2. ASSUME NEW a \in Account, bound[a] = t
        PROVE  bound'[a] = t
    BY <1>1, <2>2, Distinct DEF Ordinary, Rebound
  <2>3. ASSUME NEW m \in Command, command[m].tg = t, Carries(command[m])
        PROVE  /\ command'[m].tg = t /\ Carries(command'[m])
               /\ command'[m].old = command[m].old
    BY <1>1, <2>3 DEF Ordinary, Minds
  <2>4. QED
    BY <1>1, <2>1, <2>2, <2>3 DEF Kept
<1>2. UNCHANGED saved /\ excused \subseteq excused'
  BY DEF Ordinary, Rebound
<1>3. QED
  BY <1>1, <1>2, FollowsWhenKept

\* Only a command that is read has nothing to carry yet.
LEMMA ReadTurns ==
  ASSUME Places, TurnsFollow, NEW m \in Command, ReadAccounts(m)
  PROVE  TurnsFollow'
<1>1. UNCHANGED <<bound, context, saved, exposed, excused>>
  BY DEF ReadAccounts, redisVars, historyVars
<1>2. Shapes /\ Shaped(command[m]) /\ command[m].phase = "read"
  BY CommandFacts DEF ReadAccounts, Places
<1>3. ~ Carries(command[m])
  BY <1>2, Distinct DEF Shaped, Carries
<1>4. \A n \in Command \ {m} : command'[n] = command[n]
  <2>1. PICK r : Turns(m, r)
    BY <1>2, AccountsRead
  <2>2. QED
    BY <1>2, <2>1, TurnsTo
<1>5. ASSUME NEW t, NEW turn,
             Kept(turn, t, bound, context, exposed, command)
      PROVE  Kept(turn, t, bound', context', exposed', command')
  BY <1>1, <1>3, <1>4, <1>5 DEF Kept
<1>6. QED
  BY <1>1, <1>5, FollowsWhenKept

\* A commit sets turns on their way, or excuses their person.
LEMMA CommitTurns ==
  ASSUME Places, TurnsFollow, NEW m \in Command, Commit(m)
  PROVE  TurnsFollow'
<1>1. Shapes /\ AllAimed
  BY DEF Places
<1>2. PICK r \in CommandType, p \in Telegram, target \in Account,
           old \in Account \union {NoAccount} :
        /\ Turns(m, r) /\ SameLink(command[m], r)
        /\ command[m].phase = "commit"
        /\ r.tg = p /\ r.target = target /\ r.old = old /\ old # target
        /\ r.outcome = "linked"
        /\ \/ old = NoAccount /\ r.phase = "answer" /\ Exists(target)
           \/ old \in Account /\ r.phase = "redis"
        /\ old \in Account => bound'[old] = Gone
        /\ Exists(target) => bound'[target] = p
        /\ \A d \in Account \ {old} :
             d # target \/ ~Exists(d) => bound'[d] = bound[d]
        /\ excused \subseteq excused'
        /\ \/ bound[target] = Unbound /\ p \notin Busy
           \/ /\ p \in excused' /\ LeftFrom(target) \subseteq excused'
              /\ bound[target] \in Telegram => bound[target] \in excused'
        /\ UNCHANGED <<context, saved, exposed, batch>>
  BY <1>1, Committed
<1>3. command'[m] = r /\ \A n \in Command \ {m} : command'[n] = command[n]
  BY <1>1, <1>2, TurnsTo
<1>4. ~ Carries(command[m])
  BY <1>1, <1>2, CommandFacts DEF Carries, Shaped
<1>5. old \in Account => \/ bound[old] \in {p, Gone}
                         \/ p \in excused /\ bound[old] \in excused
  BY <1>1, <1>2 DEF AllAimed, Aimed, SameLink
<1>6. ASSUME NEW t \in Telegram \ excused', NEW turn,
             Kept(turn, t, bound, context, exposed, command)
      PROVE  Kept(turn, t, bound', context', exposed', command')
  <2>1. CASE turn \in exposed
    BY <1>2, <2>1 DEF Kept
  <2>2. ASSUME NEW n \in Command, command[n].tg = t, Carries(command[n]),
               turn \in context[command[n].old]
        PROVE  Kept(turn, t, bound', context', exposed', command')
    <3>1. n # m
      BY <1>4, <2>2
    <3>2. command'[n] = command[n]
      BY <1>3, <3>1
    <3>3. QED
      BY <1>2, <2>2, <3>2 DEF Kept
  <2>3. ASSUME NEW a \in Account, bound[a] = t, turn \in context[a]
        PROVE  Kept(turn, t, bound', context', exposed', command')
    <3>1. CASE a = old
      <4>1. p = t
        BY <1>2, <1>5, <1>6, <2>3, <3>1, Distinct
      <4>2. Carries(r) /\ r.tg = t /\ r.old = a
        BY <1>2, <2>3, <3>1, <4>1, Distinct DEF Carries
      <4>3. QED
        BY <1>2, <1>3, <2>3, <4>2 DEF Kept
    <3>2. CASE a # old
      <4>1. a # target
        BY <1>2, <1>6, <2>3, Distinct
      <4>2. bound'[a] = t
        BY <1>2, <2>3, <3>2, <4>1
      <4>3. QED
        BY <1>2, <2>3, <4>2 DEF Kept
    <3>3. QED
      BY <3>1, <3>2
  <2>4. QED
    BY <1>6, <2>1, <2>2, <2>3 DEF Kept
<1>7. QED
  BY <1>2, <1>6, FollowsWhenKept

\* A move that succeeds brings them to the target.
LEMMA RenameTurns ==
  ASSUME Places, TurnsFollow, NEW m \in Command, RenameKeys(m)
  PROVE  TurnsFollow'
<1>1. Shapes /\ AllAimed /\ AllApart /\ AllFresh
  BY DEF Places
<1>2. PICK r \in CommandType, p \in Telegram, target \in Account,
           old \in Account :
        /\ Turns(m, r) /\ SameLink(command[m], r)
        /\ command[m].phase = "redis" /\ r.phase = "qdrant"
        /\ command[m].tg = p /\ command[m].target = target
        /\ command[m].old = old
        /\ context' = IF context[old] = {} THEN context
                      ELSE [context EXCEPT ![target] = context[old],
                                           ![old] = {}]
        /\ UNCHANGED <<bound, saved, exposed, excused, batch>>
  BY <1>1, Renamed
<1>3. command'[m] = r /\ \A n \in Command \ {m} : command'[n] = command[n]
  BY <1>1, <1>2, TurnsTo
<1>4. /\ bound[old] = Gone
      /\ \/ bound[target] = p
         \/ p \in excused /\ bound[target] \in excused \union {Gone}
  BY <1>1, <1>2 DEF AllAimed, Aimed
<1>5. /\ \A d \in Account \ {target, old} : context'[d] = context[d]
      /\ context[old] # {} /\ target # old => context'[target] = context[old]
      /\ context[old] = {} => context' = context
  BY <1>1, <1>2 DEF Shapes, TypeOK
<1>6. ASSUME NEW t \in Telegram \ excused', NEW turn, turn[1] = t,
             Kept(turn, t, bound, context, exposed, command)
      PROVE  Kept(turn, t, bound', context', exposed', command')
  <2>1. t \notin excused /\ t # Gone
    BY <1>2, <1>6, Distinct
  <2>2. CASE turn \in exposed
    BY <1>2, <2>2 DEF Kept
  \* The person's own move has arrived.
  <2>3. ASSUME p = t, turn \in context[old]
        PROVE  Kept(turn, t, bound', context', exposed', command')
    <3>1. bound[target] = t /\ target # old
      BY <1>4, <2>1, <2>3
    <3>2. turn \in context'[target]
      BY <1>5, <2>3, <3>1
    <3>3. QED
      BY <1>2, <3>1, <3>2 DEF Kept
  \* What RENAME replaces was saved in the middle of the move.
  <2>4. ASSUME p = t, turn \in context[target]
        PROVE  Kept(turn, t, bound', context', exposed', command')
    <3>1. turn \in exposed
      BY <1>1, <1>2, <1>6, <2>1, <2>4 DEF AllFresh, Fresh
    <3>2. QED
      BY <1>2, <3>1 DEF Kept
  <2>5. ASSUME NEW a \in Account, bound[a] = t, turn \in context[a]
        PROVE  Kept(turn, t, bound', context', exposed', command')
    <3>1. a # old
      BY <1>4, <2>1, <2>5
    <3>2. CASE a = target
      <4>1. p = t
        BY <1>4, <2>1, <2>5, <3>2
      <4>2. QED
        BY <2>4, <2>5, <3>2, <4>1
    <3>3. CASE a # target
      <4>1. turn \in context'[a]
        BY <1>5, <2>5, <3>1, <3>3
      <4>2. QED
        BY <1>2, <2>5, <4>1 DEF Kept
    <3>4. QED
      BY <3>2, <3>3
  <2>6. ASSUME NEW n \in Command, command[n].tg = t, Carries(command[n]),
               turn \in context[command[n].old]
        PROVE  Kept(turn, t, bound', context', exposed', command')
    <3>1. CASE n = m
      BY <1>2, <2>3, <2>6, <3>1
    <3>2. CASE n # m
      <4>1. /\ Apart(command[n], command[m], excused)
            /\ Apart(command[m], command[n], excused)
            /\ command'[n] = command[n] /\ command[n].old \in Account
        BY <1>1, <1>3, <2>6, <3>2 DEF AllApart, Carries
      <4>2. CASE command[n].old = old
        <5>1. p = t
          BY <1>2, <2>1, <2>6, <4>1, <4>2 DEF Apart
        <5>2. QED
          BY <2>3, <2>6, <4>2, <5>1
      <4>3. CASE command[n].old = target
        <5>1. p = t
          BY <1>2, <2>1, <2>6, <4>1, <4>3 DEF Apart
        <5>2. QED
          BY <2>4, <2>6, <4>3, <5>1
      <4>4. CASE command[n].old \notin {old, target}
        <5>1. turn \in context'[command[n].old]
          BY <1>5, <2>6, <4>1, <4>4
        <5>2. /\ command'[n].tg = t /\ Carries(command'[n])
              /\ turn \in context'[command'[n].old]
          BY <2>6, <4>1, <5>1
        <5>3. QED
          BY <5>2 DEF Kept
      <4>5. QED
        BY <4>2, <4>3, <4>4
    <3>3. QED
      BY <3>1, <3>2
  <2>7. QED
    BY <1>6, <2>2, <2>5, <2>6 DEF Kept
<1>7. UNCHANGED saved /\ excused \subseteq excused'
  BY <1>2
<1>8. \A t, n : <<t, n>>[1] = t
  OBVIOUS
<1>9. QED
  BY <1>6, <1>7, <1>8, FollowsWhenKept

\* A new turn is with its person's account, or exposed.
LEMMA SavesTurns ==
  ASSUME Places, TurnsFollow, NEW b \in Batch, BatchSaves(b)
  PROVE  TurnsFollow'
<1>1. Shapes
  BY DEF Places
<1>2. PICK p \in Telegram, a \in Account, turn \in Turn :
        /\ batch[b] # NoBatch /\ batch[b].tg = p /\ batch[b].user = a
        /\ saved[p] \in Nat /\ turn = <<p, saved[p] + 1>>
        /\ saved' = [saved EXCEPT ![p] = saved[p] + 1]
        /\ context' = [context EXCEPT ![a] = context[a] \union {turn}]
        /\ exposed' = IF bound[a] # p \/ Moving(p) # {}
                      THEN exposed \union {turn} ELSE exposed
        /\ batch' = [batch EXCEPT ![b] = NoBatch]
        /\ UNCHANGED <<bound, command, excused>>
  BY <1>1, Saved
<1>3. /\ turn \in context'[a]
      /\ \A d \in Account : context[d] \subseteq context'[d]
      /\ exposed \subseteq exposed'
  BY <1>1, <1>2 DEF Shapes, TypeOK
<1>4. ASSUME NEW t \in Telegram \ excused', NEW n \in 1 .. saved'[t]
      PROVE  Kept(<<t, n>>, t, bound', context', exposed', command')
  <2>1. CASE t = p /\ n = saved[p] + 1
    <3>1. CASE bound[a] = p
      BY <1>2, <1>3, <2>1, <3>1 DEF Kept
    <3>2. CASE bound[a] # p
      BY <1>2, <2>1, <3>2 DEF Kept
    <3>3. QED
      BY <3>1, <3>2
  <2>2. CASE ~(t = p /\ n = saved[p] + 1)
    <3>1. n \in 1 .. saved[t] /\ t \in Telegram \ excused
      <4>1. CASE t = p
        <5>1. saved'[p] = saved[p] + 1
          BY <1>1, <1>2 DEF Shapes, TypeOK
        <5>2. QED
          BY <1>2, <1>4, <2>2, <4>1, <5>1
      <4>2. CASE t # p
        BY <1>1, <1>2, <1>4, <4>2 DEF Shapes, TypeOK
      <4>3. QED
        BY <4>1, <4>2
    <3>2. Kept(<<t, n>>, t, bound, context, exposed, command)
      BY <3>1, FollowsBefore
    <3>3. QED
      BY <1>2, <1>3, <3>2 DEF Kept, Carries
  <2>3. QED
    BY <2>1, <2>2
<1>5. QED
  BY <1>4, FollowsAfter

\* A person's turns follow them into the account they are linked to, whatever
\* number of persons, accounts, commands and batches meet, with any number of
\* redeliveries, failures and crashes.
THEOREM TurnsFollowHolds == Spec => []TurnsFollow
<1> DEFINE IInv == Places /\ TurnsFollow
<1>1. Init => IInv
  <2>1. ASSUME Init
        PROVE  TurnsFollow
    BY <2>1 DEF Init, TurnsFollow
  <2>2. QED
    BY <2>1, PlacesInit
<1>2. IInv /\ [Next]_vars => IInv'
  <2> SUFFICES ASSUME Places, TurnsFollow, [Next]_vars
               PROVE  Places' /\ TurnsFollow'
    OBVIOUS
  <2>1. Shapes
    BY DEF Places
  <2>2. Places'
    BY PlacesStep
  <2>3. TurnsFollow'
    BY <2>1, StepKinds, OrdinaryTurns, ReadTurns, CommitTurns, RenameTurns,
       SavesTurns
  <2>4. QED
    BY <2>2, <2>3
<1>3. IInv => TurnsFollow
  OBVIOUS
<1>4. QED
  BY <1>1, <1>2, <1>3, PTL DEF Spec

-----------------------------------------------------------------------------
(* What a merge leaves behind                                              *)

\* Something is under a key of account a.
HasKeys(a) == context[a] # {} \/ a \in states
\* A command has committed the merge of account a and not yet renamed.
Pending(a, m) == command[m].old = a /\ command[m].phase = "redis"

\* What has to stay true of account a over a step that neither absorbs it
\* nor writes to it.
LEMMA LeftStays ==
  ASSUME NothingLeftBehind, NEW a \in Account \ strays',
         strays \subseteq strays', bound'[a] = Gone => bound[a] = Gone,
         context'[a] # {} => context[a] # {}, a \in states' => a \in states,
         \A m \in Command : Pending(a, m) => Pending(a, m)'
  PROVE  bound'[a] = Gone /\ HasKeys(a)' => \E m \in Command : Pending(a, m)'
BY DEF NothingLeftBehind, HasKeys, Pending

\* The property of one account at a time.
LEMMA LeftNext ==
  ASSUME \A a \in Account \ strays' :
           bound'[a] = Gone /\ HasKeys(a)' =>
             \E m \in Command : Pending(a, m)'
  PROVE  NothingLeftBehind'
BY DEF NothingLeftBehind, HasKeys, Pending

\* A step that writes no key and moves no command that is to rename.
LEMMA IdleLeaves ==
  ASSUME NothingLeftBehind, UNCHANGED <<context, states>>,
         strays \subseteq strays',
         \A a \in Account \ strays' : bound'[a] = Gone => bound[a] = Gone,
         \A m \in Command :
           command[m].phase = "redis" => command'[m] = command[m]
  PROVE  NothingLeftBehind'
<1>1. ASSUME NEW a \in Account \ strays'
      PROVE  bound'[a] = Gone /\ HasKeys(a)' =>
               \E m \in Command : Pending(a, m)'
  <2>1. \A m \in Command : Pending(a, m) => Pending(a, m)'
    BY DEF Pending
  <2>2. QED
    BY <2>1, LeftStays
<1>2. QED
  BY <1>1, LeftNext

\* The web API: delete_me makes a stray of the account it removes.
LEMMA WebLeaves ==
  ASSUME Shapes, NothingLeftBehind, WebStep
  PROVE  NothingLeftBehind'
<1>1. UNCHANGED <<command, context, states>> /\ strays \subseteq strays'
  BY DEF WebStep, Register, Login, Logout, DeleteMe, IssueReads, IssueDeletes,
     IssueSets, CodeExpires, redisVars, processVars, historyVars
<1>2. bound \in [Account -> Telegram \union {Unused, Gone, Unbound}]
  BY DEF Shapes, TypeOK
<1>3. ASSUME NEW a \in Account \ strays', bound'[a] = Gone
      PROVE  bound[a] = Gone
  <2>1. ASSUME NEW w \in Web, Register(w)
        PROVE  bound[a] = Gone
    BY <1>2, <1>3, <2>1, Distinct DEF Register
  <2>2. ASSUME NEW w \in Web, DeleteMe(w)
        PROVE  bound[a] = Gone
    BY <1>2, <1>3, <2>2 DEF DeleteMe
  <2>3. CASE UNCHANGED bound
    BY <1>3, <2>3
  <2>4. QED
    BY <2>1, <2>2, <2>3 DEF WebStep, Login, Logout, IssueReads, IssueDeletes,
       IssueSets, CodeExpires
<1>4. QED
  BY <1>1, <1>3, IdleLeaves

\* Somebody is resolved: no row goes.
LEMMA ResolveLeaves ==
  ASSUME Shapes, NothingLeftBehind, NEW t \in Telegram, NEW d \in Account,
         ResolveUser(t, d), UNCHANGED <<context, states, strays>>,
         \A m \in Command :
           command[m].phase = "redis" => command'[m] = command[m]
  PROVE  NothingLeftBehind'
<1>1. TypeOK
  BY DEF Shapes
<1>2. \A a \in Account : bound'[a] = Gone => bound[a] = Gone
  BY <1>1, ResolveTyped, Distinct
<1>3. QED
  BY <1>2, IdleLeaves

\* A batch that writes to an account without a row makes a stray of it.
LEMMA BatchLeaves ==
  ASSUME Shapes, NothingLeftBehind, NEW b \in Batch,
         \/ \E t \in Telegram, a \in Account : BatchStarts(b, t, a)
         \/ BatchThinks(b) \/ BatchSaves(b)
  PROVE  NothingLeftBehind'
<1>1. ASSUME NEW t \in Telegram, NEW a \in Account, BatchStarts(b, t, a)
      PROVE  NothingLeftBehind'
  BY <1>1, ResolveLeaves DEF BatchStarts, redisVars, historyVars
<1>2. CASE BatchThinks(b) \/ BatchSaves(b)
  <2> DEFINE u == batch[b].user
  <2>1. /\ UNCHANGED <<bound, command>>
        /\ strays' = WrittenLate(u) /\ states' = states \union {u}
        /\ \A a \in Account \ {u} : context'[a] = context[a]
    <3>1. context \in [Account -> SUBSET Turn]
      BY DEF Shapes, TypeOK
    <3>2. CASE BatchThinks(b)
      BY <3>2 DEF BatchThinks
    <3>3. CASE BatchSaves(b)
      BY <3>1, <3>3 DEF BatchSaves
    <3>4. QED
      BY <1>2, <3>2, <3>3
  <2> HIDE DEF u
  <2>2. ASSUME NEW a \in Account \ strays'
        PROVE  bound'[a] = Gone /\ HasKeys(a)' =>
                 \E m \in Command : Pending(a, m)'
    <3>1. strays \subseteq strays'
      BY <2>1 DEF WrittenLate
    <3>2. CASE a = u
      BY <2>1, <2>2, <3>2 DEF WrittenLate
    <3>3. CASE a # u
      BY <2>1, <3>1, <3>3, LeftStays DEF Pending
    <3>4. QED
      BY <3>2, <3>3
  <2>3. QED
    BY <2>2, LeftNext
<1>3. QED
  BY <1>1, <1>2

\* The account a commit removes is going to be renamed.
LEMMA CommitLeaves ==
  ASSUME Shapes, NothingLeftBehind, NEW m \in Command, Commit(m)
  PROVE  NothingLeftBehind'
<1>1. /\ UNCHANGED <<context, states, strays>> /\ bound' = Bind(m)
      /\ command[m].phase = "commit"
      /\ IF command[m].old = NoAccount THEN Ends(m, "linked")
                                       ELSE Becomes(m, "redis")
  BY DEF Commit, redisVars
<1>2. command \in [Command -> CommandType] /\ command[m] \in CommandType
  BY DEF Shapes, TypeOK, CommandType
<1>3. \A n \in Command \ {m} : command'[n] = command[n]
  BY <1>1, <1>2 DEF Ends, Becomes
<1>4. ASSUME NEW a \in Account \ strays'
      PROVE  bound'[a] = Gone /\ HasKeys(a)' =>
               \E n \in Command : Pending(a, n)'
  <2>1. CASE a = command[m].old
    <3>1. Becomes(m, "redis")
      BY <1>1, <2>1, Distinct
    <3>2. command'[m].phase = "redis" /\ command'[m].old = a
      BY <1>2, <2>1, <3>1 DEF Becomes, CommandType
    <3>3. QED
      BY <3>2 DEF Pending
  <2>2. CASE a # command[m].old
    <3>1. bound'[a] = Gone => bound[a] = Gone
      <4>1. command[m].tg # Gone
        BY <1>1, Distinct DEF Shapes, Shaped
      <4>2. QED
        BY <1>1, <2>2, <4>1 DEF Bind
    <3>2. \A n \in Command : Pending(a, n) => Pending(a, n)'
      BY <1>1, <1>3 DEF Pending
    <3>3. QED
      BY <1>1, <3>1, <3>2, LeftStays
  <2>3. QED
    BY <2>1, <2>2
<1>5. QED
  BY <1>4, LeftNext

\* The rename takes everything from the account that was absorbed, or makes a
\* stray of it, and writes to a target without a row only as to a stray.
LEMMA RenameLeaves ==
  ASSUME Shapes, NothingLeftBehind, NEW m \in Command, RenameKeys(m)
  PROVE  NothingLeftBehind'
<1> DEFINE old == command[m].old
           target == command[m].target
<1>1. /\ old \in Account /\ target \in Account
      /\ context \in [Account -> SUBSET Turn]
      /\ command \in [Command -> CommandType]
  <2>1. command[m].phase = "redis" /\ Shaped(command[m])
    BY DEF Shapes, RenameKeys
  <2>2. QED
    BY <2>1 DEF Shapes, TypeOK, CommandType, Shaped, Account
<1>2. /\ bound' = bound /\ context' = ContextMoved(old, target)
      /\ states' \in {states, StateMoved(old, target)}
      /\ WrittenLate(target) \subseteq strays'
      /\ old \in strays' \/ states' = StateMoved(old, target)
      /\ \A n \in Command \ {m} : command'[n] = command[n]
  BY <1>1 DEF RenameKeys, Becomes
<1>3. /\ context'[old] = {}
      /\ \A a \in Account \ {old, target} : context'[a] = context[a]
  BY <1>1, <1>2 DEF ContextMoved
<1> HIDE DEF old, target
<1>4. ASSUME NEW a \in Account \ strays'
      PROVE  bound'[a] = Gone /\ HasKeys(a)' =>
               \E n \in Command : Pending(a, n)'
  <2>1. CASE a = target
    BY <1>2, <1>4, <2>1 DEF WrittenLate
  <2>2. CASE a = old /\ a # target
    <3>1. a \notin states'
      BY <1>2, <1>4, <2>2 DEF StateMoved
    <3>2. QED
      BY <1>3, <2>2, <3>1 DEF HasKeys
  <2>3. CASE a \notin {old, target}
    <3>1. a \in states' => a \in states
      BY <1>2, <2>3 DEF StateMoved
    <3>2. \A n \in Command : Pending(a, n) => Pending(a, n)'
      BY <1>2, <2>3 DEF Pending, old
    <3>3. strays \subseteq strays'
      BY <1>2 DEF WrittenLate
    <3>4. QED
      BY <1>2, <1>3, <2>3, <3>1, <3>2, <3>3, LeftStays
  <2>4. QED
    BY <2>1, <2>2, <2>3
<1>5. QED
  BY <1>4, LeftNext

\* A rename that raises, or does not happen for a crash, makes a stray.
LEMMA BrokenLeaves ==
  ASSUME Shapes, NothingLeftBehind,
         Crash \/ \E m \in Command : RenameFails(m)
  PROVE  NothingLeftBehind'
<1>1. UNCHANGED <<bound, context, states>> /\ strays \subseteq strays'
  BY DEF Crash, RenameFails, redisVars
<1>2. command \in [Command -> CommandType]
  BY DEF Shapes, TypeOK, CommandType
<1>3. ASSUME NEW a \in Account \ strays', NEW n \in Command, Pending(a, n)
      PROVE  Pending(a, n)'
  <2>1. CASE Crash
    BY <1>3, <2>1 DEF Crash, Pending
  <2>2. ASSUME NEW m \in Command, RenameFails(m)
        PROVE  Pending(a, n)'
    <3>1. /\ n # m => command'[n] = command[n]
          /\ command[m].old \in strays'
      BY <1>2, <2>2 DEF RenameFails
    <3>2. QED
      BY <1>3, <3>1 DEF Pending
  <2>3. QED
    BY <2>1, <2>2
<1>4. ASSUME NEW a \in Account \ strays'
      PROVE  bound'[a] = Gone /\ HasKeys(a)' =>
               \E n \in Command : Pending(a, n)'
  BY <1>1, <1>3, <1>4, LeftStays
<1>5. QED
  BY <1>4, LeftNext

\* The other steps of a command write no key and remove no row.
LEMMA CommandLeaves ==
  ASSUME Shapes, NothingLeftBehind, NEW m \in Command,
         \/ \E t \in Telegram, c \in Code : SendLink(m, t, c)
         \/ Consume(m) \/ ReadAccounts(m) \/ CommitRefused(m)
         \/ HandlingFails(m) \/ Reassign(m) \/ AnswerFails(m)
         \/ \E a \in Account : Answer(m, a)
  PROVE  NothingLeftBehind'
<1>1. /\ UNCHANGED <<context, states, strays>> /\ command[m].phase # "redis"
      /\ \A n \in Command \ {m} : command'[n] = command[n]
  <2>1. command \in [Command -> CommandType]
    BY DEF Shapes, TypeOK, CommandType
  <2>2. UNCHANGED <<context, states, strays>> /\ command[m].phase # "redis"
    BY DEF SendLink, Consume, ReadAccounts, CommitRefused, HandlingFails,
       Reassign, AnswerFails, Answer, redisVars, historyVars
  <2>3. \E r : command' = [command EXCEPT ![m] = r]
    BY DEF SendLink, Consume, ReadAccounts, CommitRefused, HandlingFails,
       Reassign, AnswerFails, Answer, Ends, Becomes
  <2>4. QED
    BY <2>1, <2>2, <2>3
<1>2. ASSUME NEW a \in Account, Answer(m, a)
      PROVE  NothingLeftBehind'
  <2>1. command[m].tg \in Telegram
    BY <1>2 DEF Shapes, Shaped, Answer
  <2>2. QED
    BY <1>1, <1>2, <2>1, ResolveLeaves DEF Answer
<1>3. CASE UNCHANGED bound
  BY <1>1, <1>3, IdleLeaves
<1>4. QED
  BY <1>2, <1>3 DEF SendLink, Consume, ReadAccounts, CommitRefused,
     HandlingFails, Reassign, AnswerFails

\* An account that a merge removed leaves no keys behind but in the ways the
\* property names: for any accounts, persons, commands and batches, with two
\* merges after one another, redeliveries, failures and crashes.
THEOREM NothingLeftBehindHolds == Spec => []NothingLeftBehind
<1> DEFINE IInv == Shapes /\ NothingLeftBehind
<1>1. Init => IInv
  <2>1. Init => NothingLeftBehind
    BY DEF Init, NothingLeftBehind
  <2>2. QED
    BY <2>1, ShapesInit
<1>2. IInv /\ [Next]_vars => IInv'
  <2> SUFFICES ASSUME Shapes, NothingLeftBehind, [Next]_vars
               PROVE  Shapes' /\ NothingLeftBehind'
    OBVIOUS
  <2>1. Shapes'
    BY ShapesStep
  <2>2. CASE UNCHANGED vars
    <3>1. UNCHANGED <<bound, context, states, strays, command>>
      BY <2>2 DEF vars, redisVars, processVars, historyVars
    <3>2. QED
      BY <2>1, <3>1, IdleLeaves
  <2>3. CASE Next
    BY <2>1, <2>3, WebLeaves, BatchLeaves, CommitLeaves, RenameLeaves, BrokenLeaves,
       CommandLeaves DEF Next, CommandStep
  <2>4. QED
    BY <2>2, <2>3
<1>3. IInv => NothingLeftBehind
  OBVIOUS
<1>4. QED
  BY <1>1, <1>2, <1>3, PTL DEF Spec
=============================================================================
