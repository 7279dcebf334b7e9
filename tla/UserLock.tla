------------------------------ MODULE UserLock ------------------------------
(***************************************************************************)
(* The Redis lock of one user (key nodya:lock:{user_id}), as the methods   *)
(* acquire_lock and release_lock of RedisClient implement it: SET NX EX    *)
(* with a fresh token, and a Lua script that deletes the key only when it  *)
(* still holds the caller's token.  A client is anything that takes the    *)
(* lock around its work: a flushed batch of the Worker, the scheduled      *)
(* poller, a consolidation run.  The key has one more enemy: an account    *)
(* merge (/link, Worker._handle_link) takes no lock, and its               *)
(* rename_user_keys deletes the lock key of the absorbed account whoever   *)
(* holds it.                                                               *)
(*                                                                         *)
(* Time is counted down in ticks: key.ttl is what Redis has left before    *)
(* it drops the key, lease[c] what is left of the time client c asked for. *)
(* No action reads lease or robbed: they are there to state the            *)
(* properties.                                                             *)
(***************************************************************************)
EXTENDS Integers

CONSTANTS
  Client,    \* who may take the lock
  Token,     \* the values uuid4().hex can return
  TtlOf,     \* [Client -> Nat \ {0}]: the ttl argument each client passes
  NoToken    \* the None of acquire_lock, and the absent key

ASSUME TtlAssumption   == TtlOf \in [Client -> Nat \ {0}]
ASSUME UuidAssumption == NoToken \notin Token

VARIABLES
  key,       \* the Redis key of the lock: its value and its remaining ttl
  holding,   \* holding[c]: the lock_token in c's local variable
  lease,     \* lease[c]: what is left of the ttl c asked for
  robbed     \* the clients at work whose key a merge has deleted

lockVars == <<key, holding, lease, robbed>>

-----------------------------------------------------------------------------
NoLock == [token |-> NoToken, ttl |-> 0]

LockTypeOK ==
  /\ key \in [token: Token \union {NoToken}, ttl: Nat]
  /\ holding \in [Client -> Token \union {NoToken}]
  /\ lease \in [Client -> Nat]
  /\ robbed \subseteq Client

\* A uuid4 value is assumed to differ from every token still around.
Fresh(k) == k # key.token /\ \A c \in Client : holding[c] # k

\* Bug: SET without NX.
FreeAnyway == TRUE

Free == key.token = NoToken

LockInit ==
  /\ key = NoLock
  /\ holding = [c \in Client |-> NoToken]
  /\ lease = [c \in Client |-> 0]
  /\ robbed = {}

-----------------------------------------------------------------------------
\* Bug: SET without EX.
LockedForEver(c, k) == [token |-> k, ttl |-> 0]

\* What SET NX EX leaves in Redis when the key is absent.
Locked(c, k) == [token |-> k, ttl |-> TtlOf[c]]

\* acquire_lock returns a token; on a busy lock it returns None and
\* changes nothing.
Acquire(c, k) ==
  /\ holding[c] = NoToken
  /\ Fresh(k)
  /\ Free
  /\ key' = Locked(c, k)
  /\ holding' = [holding EXCEPT ![c] = k]
  /\ lease' = [lease EXCEPT ![c] = TtlOf[c]]
  /\ UNCHANGED robbed

\* The SET reached Redis, its answer did not reach the client: the call
\* raises and nobody holds the token.
AcquireAnswerLost(c, k) ==
  /\ holding[c] = NoToken
  /\ Fresh(k)
  /\ Free
  /\ key' = Locked(c, k)
  /\ UNCHANGED <<holding, lease, robbed>>

\* Bug: DEL without comparing the token.
AfterPlainDelete(k) == NoLock

\* The Lua script: delete the key only while it holds this token.
AfterRelease(k) == IF key.token = k THEN NoLock ELSE key

\* release_lock, called in the finally of every client.
Release(c) ==
  /\ holding[c] # NoToken
  /\ key' = AfterRelease(holding[c])
  /\ holding' = [holding EXCEPT ![c] = NoToken]
  /\ lease' = [lease EXCEPT ![c] = 0]
  /\ robbed' = robbed \ {c}

\* The client crashed, or release_lock raised: the token is forgotten and
\* the key stays.
Abandon(c) ==
  /\ holding[c] # NoToken
  /\ holding' = [holding EXCEPT ![c] = NoToken]
  /\ lease' = [lease EXCEPT ![c] = 0]
  /\ robbed' = robbed \ {c}
  /\ UNCHANGED key

\* The end of rename_user_keys: DEL of the lock key of the absorbed account,
\* with no token and no lock of the merge's own.  Clients that resolved
\* this account before the merge committed still work under its lock and may
\* still ask for it afterwards.  (An account is absorbed once; the model lets
\* it happen any number of times.)
MergeDropsKey ==
  /\ key' = NoLock
  /\ robbed' = robbed \union
                 {c \in Client : holding[c] # NoToken /\ holding[c] = key.token}
  /\ UNCHANGED <<holding, lease>>

Less(n) == IF n > 0 THEN n - 1 ELSE 0

\* One unit of time: Redis drops the key once its ttl has run out.
LockTick ==
  /\ \/ key.ttl > 0
     \/ \E c \in Client : lease[c] > 0
  /\ key' = IF key.ttl <= 1 THEN NoLock ELSE [key EXCEPT !.ttl = @ - 1]
  /\ lease' = [c \in Client |-> Less(lease[c])]
  /\ UNCHANGED <<holding, robbed>>

LockNext ==
  \/ \E c \in Client, k \in Token : Acquire(c, k) \/ AcquireAnswerLost(c, k)
  \/ \E c \in Client : Release(c) \/ Abandon(c)
  \/ MergeDropsKey
  \/ LockTick

LockSpec == LockInit /\ [][LockNext]_lockVars

\* Time passes; no client is assumed to give the lock back.
LockFairSpec == LockSpec /\ WF_lockVars(LockTick)

-----------------------------------------------------------------------------
(* Properties                                                              *)

\* At work within the ttl it asked for, and not robbed by a merge.
Secure(c) == holding[c] # NoToken /\ lease[c] > 0 /\ c \notin robbed

\* A client whose ttl has not run out really owns the key: no release of
\* another client, late or not, and no acquire takes it away
\* (release_lock: "we could delete someone else's fresh lock").  Only the DEL
\* of a merge does, which compares no token.
LeaseOwnsKey == \A c \in Client : Secure(c) => key.token = holding[c]

\* Two clients work at the same time only when one of them has outlived
\* the ttl it asked for or has lost its key to a merge.
MutualExclusion == \A c, d \in Client : Secure(c) /\ Secure(d) => c = d

\* The "crash safety" of acquire_lock's ttl: whatever the clients do, the
\* lock of a dead holder is not kept for ever.
NeverStuck == []<>Free

-----------------------------------------------------------------------------
(* The inductive strengthening used by the proofs.                         *)

\* The key exists exactly as long as it has time left.
KeyLives == key.token = NoToken <=> key.ttl = 0

\* An owner within its lease holds the key unless a merge took it, and the
\* key's ttl and the lease of its owner run down together.
OwnerLease ==
  \A c \in Client :
    holding[c] # NoToken =>
      /\ lease[c] > 0 /\ c \notin robbed => key.token = holding[c]
      /\ key.token = holding[c] => lease[c] = key.ttl

\* No two clients have the same token.
TokensDiffer ==
  \A c, d \in Client :
    c # d /\ holding[c] # NoToken => holding[c] # holding[d]

LockInv == LockTypeOK /\ KeyLives /\ OwnerLease /\ TokensDiffer
=============================================================================
