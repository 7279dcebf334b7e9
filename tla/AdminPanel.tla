----------------------------- MODULE AdminPanel -----------------------------
(***************************************************************************)
(* The admin panel beside the bot: pages ask AdminServices for the state   *)
(* of the process (its heartbeat) and for a group of errors, each through  *)
(* a TTLCache that loads once at a time, serves what is fresh, and covers  *)
(* a failing load with what it had.                                        *)
(*                                                                         *)
(* Time passes in ticks; ages are kept instead of points in time.          *)
(***************************************************************************)
EXTENDS Lifecycle, FiniteSetsExt

CONSTANTS
  Request,      \* requests of the pages, made over and over
  SubjectOf,    \* SubjectOf[q]: what it asks for, "runtime" or a group
  HealthyAge,   \* HEALTHY_MAX_AGE_SECONDS
  Ttl,          \* ttl of a cache
  StaleTtl,     \* stale_ttl
  NegativeTtl,  \* negative_ttl
  LoadTimeout,  \* timeout of a load
  Nobody        \* no holder of a lock

Subject == {"runtime"} \union Group

ASSUME PanelAssumption ==
  /\ SubjectOf \in [Request -> Subject]
  /\ {HealthyAge, Ttl, StaleTtl, NegativeTtl, LoadTimeout} \subseteq Nat
  \* the defaults of TTLCache, which none of the caches changes
  /\ NegativeTtl <= LoadTimeout
  /\ Nobody \notin Request

VARIABLES
  cache,   \* cache[s]: the entry of s, with the age of its stored_at
  holder,  \* holder[s]: who holds the lock of s
  req,     \* the requests
  silent   \* how long no process was beating

panelVars == <<cache, holder, req, silent>>
vars == <<lifeVars, panelVars>>

-----------------------------------------------------------------------------

\* A Result: good data or an error, and whether it is marked stale.  old is
\* the time since the data were read.
Bad(old)        == [ok |-> FALSE, what |-> "error", old |-> old, stale |-> FALSE]
Good(what, old) == [ok |-> TRUE, what |-> what, old |-> old, stale |-> FALSE]

\* loading: inside the loader; read: it has its data; shown: get has returned.
RequestPhases == {"idle", "waiting", "loading", "read", "shown"}

\* since: the time since now was taken.
NoRequest == [phase |-> "idle", result |-> Bad(0), since |-> 0]
NoEntry   == [at |-> Absent, result |-> Bad(0)]

\* Ages beyond every window are not told apart.
MaxAge == HealthyAge + HeartbeatTtl + Ttl + StaleTtl + NegativeTtl
            + 2 * LoadTimeout
Older(age) == Min({age + 1, MaxAge})

Whats == {"error", "healthy", "stale", "missing", "found"}
Result == [ok : BOOLEAN, what : Whats, old : 0 .. MaxAge, stale : BOOLEAN]

TypeOK ==
  /\ LifeTypeOK
  /\ cache \in [Subject -> [at : (0 .. MaxAge) \union {Absent}, result : Result]]
  /\ holder \in [Subject -> Request \union {Nobody}]
  /\ req \in [Request -> [phase : RequestPhases, result : Result,
                          since : 0 .. LoadTimeout]]
  /\ silent \in 0 .. MaxAge

Init ==
  /\ LifeInit
  /\ cache = [s \in Subject |-> NoEntry]
  /\ holder = [s \in Subject |-> Nobody]
  /\ req = [q \in Request |-> NoRequest]
  /\ silent = MaxAge

-----------------------------------------------------------------------------

\* _fresh.
Fresh(s) ==
  /\ cache[s].at # Absent
  /\ cache[s].at <= IF cache[s].result.ok THEN Ttl ELSE NegativeTtl

Returns(q, result) ==
  req' = [req EXCEPT ![q] = [NoRequest EXCEPT !.phase = "shown",
                                              !.result = result]]

\* get: the first look at the cache, without the lock.
Ask(q) ==
  LET s == SubjectOf[q]
  IN /\ q \in agenda
     /\ req[q].phase \in {"idle", "shown"}
     /\ IF Fresh(s) THEN Returns(q, cache[s].result)
        ELSE req' = [req EXCEPT ![q] = [NoRequest EXCEPT !.phase = "waiting"]]
     /\ UNCHANGED <<lifeVars, cache, holder, silent>>

\* The second look, with the lock; then the loader starts.
Enter(q) ==
  LET s == SubjectOf[q]
  IN /\ req[q].phase = "waiting"
     /\ holder[s] = Nobody
     /\ IF Fresh(s)
        THEN Returns(q, cache[s].result) /\ UNCHANGED holder
        ELSE /\ req' = [req EXCEPT ![q].phase = "loading"]
             /\ holder' = [holder EXCEPT ![s] = q]
     /\ UNCHANGED <<lifeVars, cache, silent>>

\* Bug: the key itself is the heartbeat, whatever its age.
StatusOfKey == IF beat = Absent THEN "missing" ELSE "healthy"

\* RuntimeCollector.get_status.  The key ends with STALE_MAX_AGE_SECONDS, and
\* its stamp parses: heartbeat_loop, its only writer, writes isoformat().
Status ==
  IF beat = Absent THEN "missing"
  ELSE IF beat <= HealthyAge THEN "healthy" ELSE "stale"

\* What a collector finds; no error group is no data, like a failure.
Truth(s) ==
  IF s = "runtime" THEN Good(Status, 0)
  ELSE IF table[s] > 0 THEN Good("found", 0) ELSE Bad(0)

\* The loader reads, or fails, or the timeout of the load strikes.
Read(q) ==
  /\ req[q].phase = "loading"
  /\ \E result \in {Truth(SubjectOf[q]), Bad(0)} :
       req' = [req EXCEPT ![q].phase = "read", ![q].result = result]
  /\ UNCHANGED <<lifeVars, cache, holder, silent>>

\* Bug: stored_at is taken when the load has ended.
StampAtEnd(q) == 0

\* now is taken before the load: so long ago it was.
Stamp(q) == req[q].since

\* A failing load is covered by good data that are not too old.
Covers(s, q) ==
  /\ cache[s].at # Absent
  /\ cache[s].result.ok
  /\ cache[s].at - req[q].since <= StaleTtl

\* The lock is released: data or an error are stored, unless old data cover
\* the failure.
Finish(q) ==
  LET s == SubjectOf[q]
      result == req[q].result
  IN /\ req[q].phase = "read"
     /\ IF ~result.ok /\ Covers(s, q)
        THEN /\ Returns(q, [cache[s].result EXCEPT !.stale = TRUE])
             /\ UNCHANGED cache
        ELSE /\ Returns(q, result)
             /\ cache' = [cache EXCEPT ![s] = [at |-> Stamp(q), result |-> result]]
     /\ holder' = [holder EXCEPT ![s] = Nobody]
     /\ UNCHANGED <<lifeVars, silent>>

\* A tick.  A load is over when its timeout is; what was shown is done with.
Tick ==
  /\ \A q \in Request :
       req[q].phase \in {"loading", "read"} => req[q].since < LoadTimeout
  /\ beat' = IF beat = Absent \/ beat = HeartbeatTtl THEN Absent ELSE beat + 1
  /\ silent' = IF Beating THEN 0 ELSE Older(silent)
  /\ cache' = [s \in Subject |->
       IF cache[s].at = Absent THEN cache[s]
       ELSE [cache[s] EXCEPT !.at = Older(@), !.result.old = Older(@)]]
  /\ req' = [q \in Request |->
       IF req[q].phase \in {"loading", "read"}
       THEN [req[q] EXCEPT !.since = @ + 1, !.result.old = Older(@)]
       ELSE IF req[q].phase = "shown" THEN NoRequest ELSE req[q]]
  /\ UNCHANGED <<agenda, app, starts, hookVars, sinkVars, holder>>

RequestStep(q) == Ask(q) \/ Enter(q) \/ Read(q) \/ Finish(q)

\* Nobody is silent while it beats.
Alive == silent' = IF Beating' THEN 0 ELSE silent

Next ==
  \/ LifeStep /\ Alive /\ UNCHANGED <<cache, holder, req>>
  \/ \E q \in Request : RequestStep(q)
  \/ Tick

Spec == Init /\ [][Next]_vars

-----------------------------------------------------------------------------
(* Properties                                                              *)

\* What a page shows without a mark was read within the ttl of the cache or the
\* timeout of a load, and within the stale window and the timeout with a mark.
ShownIsRecent ==
  \A q \in Request :
    req[q].phase = "shown" =>
      req[q].result.old <= IF req[q].result.stale THEN StaleTtl + LoadTimeout
                           ELSE Max({Ttl, LoadTimeout})

\* A page that calls the bot healthy is right up to the age of a heartbeat and
\* of the cache: the process was up within that time.  After an orderly stop
\* the deleted key makes it right at once, but for the cache.
HealthyMeansAlive ==
  \A q \in Request :
    /\ req[q].phase = "shown"
    /\ req[q].result.what = "healthy"
    => silent <= HealthyAge + IF req[q].result.stale THEN StaleTtl + LoadTimeout
                              ELSE Max({Ttl, LoadTimeout})

\* "per-key locking" (cache.py): however many requests miss an entry, one of them
\* loads it at a time (TTLCache.get).
SingleFlight ==
  \A q, r \in Request :
    /\ req[q].phase \in {"loading", "read"}
    /\ req[r].phase \in {"loading", "read"}
    /\ SubjectOf[q] = SubjectOf[r]
    => q = r
=============================================================================
