---------------------------- MODULE AccountLink ----------------------------
(***************************************************************************)
(* Pairing a Telegram identity with an account of the web API: codes that  *)
(* are issued and consumed in Redis, the /link command of the Worker that  *)
(* binds the identity and absorbs the account which had it before, the     *)
(* registration and removal of accounts, and the dialogue batches that     *)
(* write the memory which is moved meanwhile.                              *)
(*                                                                         *)
(* One identity is one person.  The unique columns of users are kept by    *)
(* the database; a step is what happens between two awaits that another    *)
(* step can disturb.                                                       *)
(***************************************************************************)
EXTENDS Integers, FiniteSets, Sequences

CONSTANTS
  Web,          \* accounts of the web API
  Guest,        \* accounts the Worker may register for an identity
  Telegram,     \* Telegram identities
  Code,         \* pairing codes, each drawn at most once
  Request,      \* slots for concurrent POST /auth/telegram/code
  Command,      \* the /link commands that are sent
  Batch,        \* slots for dialogue batches
  MaxTurns,     \* turns a person has (bounds the model)
  MaxFaults,    \* bounds the failures
  MaxCrashes,   \* bounds the crashes
  Unused,       \* an account without a row, so far
  Gone,         \* an account whose row is deleted
  Unbound,      \* an account without a Telegram identity
  NoAccount,
  NoCode

Account == Web \union Guest
Turn    == Telegram \X (1 .. MaxTurns)

ASSUME LinkAssumption ==
  /\ Web \intersect Guest = {}
  /\ {NoAccount, Gone} \intersect Account = {}
  /\ NoAccount # Gone
  /\ NoCode \notin Code
  /\ Telegram \intersect {Unused, Gone, Unbound} = {}
  /\ Cardinality({Unused, Gone, Unbound}) = 3
  /\ {MaxTurns, MaxFaults, MaxCrashes} \subseteq Nat

VARIABLES
  (* Postgres *)
  bound,     \* bound[a]: the row of account a and its telegram_id
  token,     \* token[a]: whether a has a bearer token that is not revoked
  (* Redis *)
  codes,     \* codes[c]: NoAccount before it is issued, then its account,
             \* then Gone
  pending,   \* pending[a]: the code under nodya:link:user:a
  context,   \* context[a]: the turns under the context key of a
  states,    \* the accounts that have a state key
  (* processes *)
  request,   \* the requests for a code
  command,   \* the /link commands
  batch,     \* the dialogue batches
  (* history *)
  uses,      \* uses[c]: how many commands got an account for c
  saved,     \* saved[t]: how many turns of person t were saved
  exposed,   \* turns saved while their person was being moved
  excused,   \* persons whose memory went astray for a reason given below
  strays,    \* accounts whose keys went astray for a reason given below
  faults,
  crashes

redisVars   == <<codes, pending, context, states>>
processVars == <<request, command, batch>>
historyVars == <<uses, saved, exposed, excused, strays>>
vars == <<bound, token, redisVars, processVars, historyVars, faults, crashes>>

-----------------------------------------------------------------------------
(* Data                                                                    *)

Outcomes == {"linked", "partial", "invalid", "missing", "already", "taken",
             "failed"}

\* read: the old code is known; issue: before MULTI.
RequestPhases == {"idle", "read", "issue"}
NoRequest == [phase |-> "idle", user |-> NoAccount, previous |-> NoCode]

\* queued: in incoming_messages; read: the code is consumed; commit: both
\* accounts are read; redis, qdrant: the old account is moved; answer: before
\* _ack_with_reply; stuck: unacknowledged for good.
CommandPhases == {"unsent", "queued", "read", "commit", "redis", "qdrant",
                  "answer", "stuck", "done"}
NoCommand == [phase |-> "unsent", tg |-> Unbound, code |-> NoCode,
              target |-> NoAccount, old |-> NoAccount, outcome |-> "linked"]

NoBatch == [tg |-> Unbound, user |-> NoAccount, thinking |-> FALSE]

TypeOK ==
  /\ bound \in [Account -> Telegram \union {Unused, Gone, Unbound}]
  /\ token \in [Web -> BOOLEAN]
  /\ codes \in [Code -> Web \union {NoAccount, Gone}]
  /\ pending \in [Web -> Code \union {NoCode}]
  /\ context \in [Account -> SUBSET Turn]
  /\ states \in SUBSET Account
  /\ request \in [Request -> [phase: RequestPhases, user: Web \union {NoAccount},
                              previous: Code \union {NoCode}]]
  /\ command \in [Command ->
       [phase: CommandPhases, tg: Telegram \union {Unbound},
        code: Code \union {NoCode}, target: Web \union {NoAccount},
        old: Account \union {NoAccount}, outcome: Outcomes]]
  /\ batch \in [Batch -> [tg: Telegram \union {Unbound},
                          user: Account \union {NoAccount},
                          thinking: BOOLEAN]]
  /\ uses \in [Code -> Nat]
  /\ saved \in [Telegram -> 0 .. MaxTurns]
  /\ exposed \in SUBSET Turn
  /\ excused \in SUBSET Telegram
  /\ strays \in SUBSET Account
  /\ faults \in 0 .. MaxFaults
  /\ crashes \in 0 .. MaxCrashes

Init ==
  /\ bound = [a \in Account |-> Unused]
  /\ token = [a \in Web |-> FALSE]
  /\ codes = [c \in Code |-> NoAccount]
  /\ pending = [a \in Web |-> NoCode]
  /\ context = [a \in Account |-> {}]
  /\ states = {}
  /\ request = [q \in Request |-> NoRequest]
  /\ command = [m \in Command |-> NoCommand]
  /\ batch = [b \in Batch |-> NoBatch]
  /\ uses = [c \in Code |-> 0]
  /\ saved = [t \in Telegram |-> 0]
  /\ exposed = {}
  /\ excused = {}
  /\ strays = {}
  /\ faults = 0
  /\ crashes = 0

Exists(a) == a \in Account /\ bound[a] \notin {Unused, Gone}
Holders(t) == {a \in Account : bound[a] = t}

Fails ==
  /\ faults < MaxFaults
  /\ faults' = faults + 1

-----------------------------------------------------------------------------
(* The web API                                                             *)

\* register: the account and its first token.
Register(a) ==
  /\ bound[a] = Unused
  /\ bound' = [bound EXCEPT ![a] = Unbound]
  /\ token' = [token EXCEPT ![a] = TRUE]
  /\ UNCHANGED <<redisVars, processVars, historyVars, faults, crashes>>

\* login with the password.
Login(a) ==
  /\ Exists(a)
  /\ ~token[a]
  /\ token' = [token EXCEPT ![a] = TRUE]
  /\ UNCHANGED <<bound, redisVars, processVars, historyVars, faults, crashes>>

\* get_current_user: a token that is not revoked, of an account that exists.
Authorized(a) == token[a] /\ Exists(a)

\* logout.
Logout(a) ==
  /\ Authorized(a)
  /\ token' = [token EXCEPT ![a] = FALSE]
  /\ UNCHANGED <<bound, redisVars, processVars, historyVars, faults, crashes>>

\* delete_me: the row goes, and with it what refers to it in Postgres.
DeleteMe(a) ==
  /\ Authorized(a)
  /\ bound' = [bound EXCEPT ![a] = Gone]
  /\ token' = [token EXCEPT ![a] = FALSE]
  /\ excused' = excused \union ({bound[a]} \intersect Telegram)
       \union {command[m].tg : m \in {k \in Command : command[k].target = a}}
  /\ strays' = strays \union {a}
  /\ UNCHANGED <<redisVars, processVars, uses, saved, exposed, faults,
                 crashes>>

\* issue_link_code, the pending code of the account is read ...
IssueReads(q, a) ==
  /\ request[q].phase = "idle"
  /\ Authorized(a)
  /\ request' = [request EXCEPT ![q] =
       [phase |-> IF pending[a] = NoCode THEN "issue" ELSE "read",
        user |-> a, previous |-> pending[a]]]
  /\ UNCHANGED <<bound, token, redisVars, command, batch, historyVars, faults,
                 crashes>>

\* ... deleted ...
IssueDeletes(q) ==
  /\ request[q].phase = "read"
  /\ codes' = [codes EXCEPT ![request[q].previous] = Gone]
  /\ request' = [request EXCEPT ![q].phase = "issue"]
  /\ UNCHANGED <<bound, token, pending, context, states, command, batch,
                 historyVars, faults, crashes>>

\* ... and a new one is set.
IssueSets(q, c) ==
  /\ request[q].phase = "issue"
  /\ codes[c] = NoAccount
  /\ codes' = [codes EXCEPT ![c] = request[q].user]
  /\ pending' = [pending EXCEPT ![request[q].user] = c]
  /\ request' = [request EXCEPT ![q] = NoRequest]
  /\ UNCHANGED <<bound, token, context, states, command, batch, historyVars,
                 faults, crashes>>

\* LINK_TTL_SECONDS are over for a code and for the key of its account.
CodeExpires(c) ==
  /\ codes[c] \in Web
  /\ codes' = [codes EXCEPT ![c] = Gone]
  /\ pending' = [a \in Web |-> IF pending[a] = c THEN NoCode ELSE pending[a]]
  /\ UNCHANGED <<bound, token, context, states, processVars, historyVars,
                 faults, crashes>>

-----------------------------------------------------------------------------
(* Dialogue batches                                                        *)

\* _resolve_user: the account of the identity, or a new one.  Two that
\* register at once get the same row: the second reads it again.
ResolveUser(t, a) ==
  IF Holders(t) # {}
  THEN a \in Holders(t) /\ UNCHANGED bound
  ELSE /\ a \in Guest
       /\ bound[a] = Unused
       /\ bound' = [bound EXCEPT ![a] = t]

\* _process_batch: the account is read before the lock is taken ...
BatchStarts(b, t, a) ==
  /\ batch[b] = NoBatch
  /\ saved[t] < MaxTurns
  /\ ResolveUser(t, a)
  /\ batch' = [batch EXCEPT ![b] = [tg |-> t, user |-> a,
                                             thinking |-> FALSE]]
  /\ UNCHANGED <<token, redisVars, request, command, historyVars, faults,
                 crashes>>

\* A command has committed a merge of this person and not yet renamed.
Moving(t) == {m \in Command : command[m].phase = "redis" /\ command[m].tg = t}

\* An account that is written to after its row has gone.
WrittenLate(a) == IF bound[a] = Gone THEN strays \union {a} ELSE strays

\* ... _run_locked: thinking, before the answer is generated ...
BatchThinks(b) ==
  /\ batch[b] # NoBatch
  /\ ~batch[b].thinking
  /\ states' = states \union {batch[b].user}
  /\ strays' = WrittenLate(batch[b].user)
  /\ batch' = [batch EXCEPT ![b].thinking = TRUE]
  /\ UNCHANGED <<bound, token, codes, pending, context, request, command,
                 uses, saved, exposed, excused, faults, crashes>>

\* ... and _save_dialog_context and idle, under the account read before.
BatchSaves(b) ==
  LET t == batch[b].tg
      turn == <<t, saved[t] + 1>>
  IN /\ batch[b] # NoBatch
     /\ batch[b].thinking
     /\ saved[t] < MaxTurns
     /\ saved' = [saved EXCEPT ![t] = @ + 1]
     /\ context' = [context EXCEPT ![batch[b].user] = @ \union {turn}]
     /\ states' = states \union {batch[b].user}
     /\ strays' = WrittenLate(batch[b].user)
     /\ exposed' = IF bound[batch[b].user] # t \/ Moving(t) # {}
                   THEN exposed \union {turn} ELSE exposed
     /\ batch' = [batch EXCEPT ![b] = NoBatch]
     /\ UNCHANGED <<bound, token, codes, pending, request, command, uses,
                    excused, faults, crashes>>

-----------------------------------------------------------------------------
(* The /link command                                                       *)

Becomes(m, phase) == command' = [command EXCEPT ![m].phase = phase]
Ends(m, outcome) ==
  command' = [command EXCEPT ![m].phase = "answer", ![m].outcome = outcome]

\* A person sends /link with a code that was issued.
SendLink(m, t, c) ==
  /\ command[m].phase = "unsent"
  /\ codes[c] # NoAccount
  /\ command' = [command EXCEPT ![m] =
       [NoCommand EXCEPT !.phase = "queued", !.tg = t, !.code = c]]
  /\ UNCHANGED <<bound, token, redisVars, request, batch, historyVars, faults,
                 crashes>>

\* Bug: the code is read and stays.
ConsumeKeeps(m) ==
  LET c == command[m].code
  IN /\ command[m].phase = "queued"
     /\ IF codes[c] \in Web
        THEN /\ uses' = [uses EXCEPT ![c] = @ + 1]
             /\ command' = [command EXCEPT ![m].phase = "read",
                                           ![m].target = codes[c]]
             /\ UNCHANGED codes
        ELSE Ends(m, "invalid") /\ UNCHANGED <<codes, uses>>
     /\ UNCHANGED <<bound, token, pending, context, states, request, batch,
                    saved, exposed, excused, strays, faults, crashes>>

\* consume_link_code: GETDEL.
Consume(m) ==
  LET c == command[m].code
  IN /\ command[m].phase = "queued"
     /\ IF codes[c] \in Web
        THEN /\ codes' = [codes EXCEPT ![c] = Gone]
             /\ uses' = [uses EXCEPT ![c] = @ + 1]
             /\ command' = [command EXCEPT ![m].phase = "read",
                                           ![m].target = codes[c]]
        ELSE Ends(m, "invalid") /\ UNCHANGED <<codes, uses>>
     /\ UNCHANGED <<bound, token, pending, context, states, request, batch,
                    saved, exposed, excused, strays, faults, crashes>>

\* The target and the account that has the identity now are read.
ReadAccounts(m) ==
  LET t      == command[m].tg
      target == command[m].target
  IN /\ command[m].phase = "read"
     /\ IF ~Exists(target)             THEN Ends(m, "missing")
        ELSE IF bound[target] = t      THEN Ends(m, "already")
        ELSE IF bound[target] # Unbound THEN Ends(m, "taken")
        ELSE command' = [command EXCEPT ![m].phase = "commit",
               ![m].old = IF Holders(t) = {} THEN NoAccount
                          ELSE CHOOSE a \in Holders(t) : TRUE]
     /\ UNCHANGED <<bound, token, redisVars, request, batch, historyVars,
                    faults, crashes>>

\* The unique constraint on telegram_id, once the old account is deleted.
Conflict(m) == Holders(command[m].tg) \ {command[m].target, command[m].old} # {}

\* What the transaction writes: the old account goes, the target, if it still
\* exists, has the identity, whatever it had before.
Bind(m) ==
  [a \in Account |->
     CASE a = command[m].old                   -> Gone
       [] a = command[m].target /\ Exists(a)   -> command[m].tg
       [] OTHER                                -> bound[a]]

\* Persons whose /link takes them away from account a.
LeftFrom(a) == {command[m].tg : m \in {k \in Command : command[k].old = a}}

\* commit.  A target that was deleted fails the transaction, unless the old
\* account has no rows that would refer to it.
Commit(m) ==
  LET target == command[m].target
      old    == command[m].old
  IN /\ command[m].phase = "commit"
     /\ ~Conflict(m)
     /\ Exists(target) \/ old # NoAccount
     /\ bound' = Bind(m)
     /\ token' = [a \in Web |-> token[a] /\ a # old]
     /\ excused' = IF bound[target] = Unbound /\ Moving(command[m].tg) = {}
                   THEN excused
                   ELSE excused \union {command[m].tg}
                          \union ({bound[target]} \intersect Telegram)
                          \union LeftFrom(target)
     /\ IF old = NoAccount THEN Ends(m, "linked") ELSE Becomes(m, "redis")
     /\ UNCHANGED <<redisVars, request, batch, uses, saved, exposed, strays,
                    faults, crashes>>

\* Bug: the violated constraint is taken for a link that exists.
RefusedIsLinked(m) ==
  /\ command[m].phase = "commit"
  /\ Conflict(m) \/ ~Exists(command[m].target)
  /\ Ends(m, "linked")
  /\ UNCHANGED <<bound, token, redisVars, request, batch, historyVars, faults,
                 crashes>>

\* The transaction fails: another account has the identity by now, or the
\* target was deleted.
CommitRefused(m) ==
  /\ command[m].phase = "commit"
  /\ Conflict(m) \/ ~Exists(command[m].target)
  /\ Ends(m, "failed")
  /\ UNCHANGED <<bound, token, redisVars, request, batch, historyVars, faults,
                 crashes>>

\* The keys of an account under the name of another: RENAME replaces what
\* that one had, and a key that does not exist is not renamed.
ContextMoved(from, to) ==
  IF context[from] = {} THEN context
  ELSE [context EXCEPT ![to] = context[from], ![from] = {}]
StateMoved(from, to) ==
  IF from \in states THEN (states \ {from}) \union {to} ELSE states

\* Bug: the keys are renamed the other way round.
RenameBackwards(m) ==
  LET old == command[m].old
      target == command[m].target
  IN /\ command[m].phase = "redis"
     /\ context' = ContextMoved(target, old)
     /\ states' = StateMoved(target, old)
     /\ Becomes(m, "qdrant")
     /\ UNCHANGED <<bound, token, codes, pending, request, batch, historyVars,
                    faults, crashes>>

\* Bug: the state stays under the old account.
RenameContextOnly(m) ==
  LET old == command[m].old
      target == command[m].target
  IN /\ command[m].phase = "redis"
     /\ context' = ContextMoved(old, target)
     /\ Becomes(m, "qdrant")
     /\ UNCHANGED <<bound, token, codes, pending, states, request, batch,
                    historyVars, faults, crashes>>

\* rename_user_keys: the context, then the state; the second RENAME or the DEL
\* after it may raise when the context has moved.  What a batch writes between
\* the two it might have written after both.  The DEL takes the lock of the
\* old account, UserLock!MergeDropsKey; nobody has a debounce key, as
\* push_debounce has no caller.
RenameKeys(m) ==
  LET old == command[m].old
      target == command[m].target
  IN /\ command[m].phase = "redis"
     /\ context' = ContextMoved(old, target)
     /\ \/ /\ states' = StateMoved(old, target)
           /\ strays' = WrittenLate(target)
           /\ Becomes(m, "qdrant")
           /\ UNCHANGED faults
        \/ /\ states' \in {states, StateMoved(old, target)}
           /\ command' = [command EXCEPT ![m].phase = "qdrant",
                                         ![m].outcome = "partial"]
           /\ strays' = WrittenLate(target) \union {old}
           /\ Fails
     /\ UNCHANGED <<bound, token, codes, pending, request, batch, uses, saved,
                    exposed, excused, crashes>>

\* It raised before anything was renamed.
RenameFails(m) ==
  /\ command[m].phase = "redis"
  /\ Fails
  /\ command' = [command EXCEPT ![m].phase = "qdrant", ![m].outcome = "partial"]
  /\ strays' = strays \union {command[m].old}
  /\ UNCHANGED <<bound, token, redisVars, request, batch, uses, saved, exposed,
                 excused, crashes>>

\* reassign_user, whose failure is independent of that of the rename.
Reassign(m) ==
  /\ command[m].phase = "qdrant"
  /\ \/ Becomes(m, "answer") /\ UNCHANGED faults
     \/ Ends(m, "partial") /\ Fails
  /\ UNCHANGED <<bound, token, redisVars, request, batch, historyVars, crashes>>

\* Redis or Postgres raised before the commit took effect: _try_command
\* answers that it did not work.
HandlingFails(m) ==
  /\ command[m].phase \in {"queued", "read", "commit"}
  /\ Fails
  /\ Ends(m, "failed")
  /\ UNCHANGED <<bound, token, redisVars, request, batch, historyVars, crashes>>

\* _ack_with_reply: the sender may be registered for it.  Whoever is told of
\* a move that failed knows that memory may have stayed behind.
Answer(m, a) ==
  /\ command[m].phase = "answer"
  /\ ResolveUser(command[m].tg, a)
  /\ command' = [command EXCEPT ![m] = [NoCommand EXCEPT !.phase = "done"]]
  /\ excused' = IF command[m].outcome \in {"partial", "failed"}
                THEN excused \union {command[m].tg} ELSE excused
  /\ UNCHANGED <<token, redisVars, request, batch, uses, saved, exposed,
                 strays, faults, crashes>>

\* _ack_with_reply raised: it is tried once more with another text, and then
\* the delivery stays unacknowledged.
AnswerFails(m) ==
  /\ command[m].phase = "answer"
  /\ Fails
  /\ IF command[m].outcome = "failed" THEN Becomes(m, "stuck")
                                      ELSE Ends(m, "failed")
  /\ UNCHANGED <<bound, token, redisVars, request, batch, historyVars, crashes>>

-----------------------------------------------------------------------------

\* The process dies.  Commands that were not acknowledged are delivered
\* again; a merge that was committed is not taken up again.
Crash ==
  /\ crashes < MaxCrashes
  /\ crashes' = crashes + 1
  /\ command' = [m \in Command |->
       IF command[m].phase \in {"unsent", "done"} THEN command[m]
       ELSE [NoCommand EXCEPT !.phase = "queued", !.tg = command[m].tg,
                              !.code = command[m].code]]
  /\ excused' = excused \union
       {command[m].tg : m \in {k \in Command :
          /\ command[k].old # NoAccount
          /\ \/ command[k].phase = "redis"
             \/ command[k].outcome \in {"partial", "failed"}}}
  /\ strays' = strays \union
       {command[m].old : m \in {k \in Command : command[k].phase = "redis"}}
  /\ request' = [q \in Request |-> NoRequest]
  /\ batch' = [b \in Batch |-> NoBatch]
  /\ UNCHANGED <<bound, token, redisVars, uses, saved, exposed, faults>>

CommandStep(m) ==
  \/ Consume(m)
  \/ ReadAccounts(m)
  \/ Commit(m) \/ CommitRefused(m)
  \/ RenameKeys(m)
  \/ Reassign(m)
  \/ \E a \in Account : Answer(m, a)

WebStep ==
  \/ \E a \in Web : Register(a) \/ Login(a) \/ Logout(a) \/ DeleteMe(a)
  \/ \E q \in Request : \/ \E a \in Web : IssueReads(q, a)
                        \/ IssueDeletes(q)
                        \/ \E c \in Code : IssueSets(q, c)
  \/ \E c \in Code : CodeExpires(c)

Next ==
  \/ WebStep
  \/ \E m \in Command :
       \/ CommandStep(m) \/ HandlingFails(m) \/ RenameFails(m)
       \/ AnswerFails(m)
       \/ \E t \in Telegram, c \in Code : SendLink(m, t, c)
  \/ \E b \in Batch : \/ \E t \in Telegram, a \in Account : BatchStarts(b, t, a)
                      \/ BatchThinks(b) \/ BatchSaves(b)
  \/ Crash

Spec == Init /\ [][Next]_vars

-----------------------------------------------------------------------------
(* Properties                                                              *)

\* No code is good for two accounts or two commands, whatever is issued,
\* redelivered and consumed at the same time (GETDEL in consume_link_code).
CodeUsedOnce == \A c \in Code : uses[c] <= 1

\* A person's turns follow them into the account they are linked to.  A turn
\* is on its way during a merge; it may stay behind when the move failed and
\* the sender is going to be told, when it was saved in the middle of the move
\* (exposed), or when its person is excused: they were told of a failure, the
\* account was deleted, another identity took it over at the same time or was
\* linked to the one they had just left, two moves of the person overlapped, or
\* the process died before it had told them (_handle_link, rename_user_keys).
TurnsFollow ==
  \A t \in Telegram \ excused : \A n \in 1 .. saved[t] :
    LET turn == <<t, n>>
    IN \/ turn \in exposed
       \/ \E a \in Account : bound[a] = t /\ turn \in context[a]
       \/ \E m \in Command :
            /\ command[m].tg = t
            /\ command[m].old \in Account
            /\ turn \in context[command[m].old]
            /\ command[m].phase = "redis"
                 \/ command[m].outcome \in {"partial", "failed"}

\* Whoever is about to be told that the link succeeded has the identity on the
\* target of the code, unless that account is gone again or another identity
\* took it over at the same time (the checks of _handle_link are made before
\* the commit, the unique constraint after them).
LinkedMeansBound ==
  \A m \in Command :
    command[m].phase = "answer" /\ command[m].outcome = "linked"
      /\ command[m].tg \notin excused =>
        bound[command[m].target] \in {command[m].tg, Gone}

\* A merge leaves nothing of the account it removes under that account's keys:
\* neither its turns nor a state key, which may have no ttl and which nobody
\* would read or delete again.  An account is a stray when delete_me removed
\* it, when its rename raised or the process died before it, or when a batch or
\* a merge that had read it before wrote to it afterwards (rename_user_keys).
NothingLeftBehind ==
  \A a \in Account \ strays :
    bound[a] = Gone /\ (context[a] # {} \/ a \in states) =>
      \E m \in Command : command[m].old = a /\ command[m].phase = "redis"

\* "Hard-delete the account and all of its data" (delete_me).
DeletedLeavesNothing ==
  \A a \in Web : bound[a] = Gone => context[a] = {}

\* "a new code invalidates the previous pending one of the same user"
\* (issue_link_code).
OneCodePerAccount ==
  \A a \in Web : Cardinality({c \in Code : codes[c] = a}) <= 1

\* "an auto-registered duplicate" is what a merge removes (_handle_link).
OnlyDuplicatesAbsorbed ==
  [][\A m \in Command :
       command[m].phase = "commit" /\ command'[m].phase = "redis" =>
         command[m].old \in Guest]_vars
=============================================================================
