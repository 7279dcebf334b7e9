---------------------------- MODULE FeedSources ----------------------------
(***************************************************************************)
(* The list of news sources: FeedSourceService and everyone who calls it,  *)
(* at the same time: the /feed commands and the automatic capture of the   *)
(* Worker, the command-line tool and the discovery job.                    *)
(*                                                                         *)
(* A call of add_resolved awaits the database three times (look the URL    *)
(* up, count the active sources, commit), and other calls run in between.  *)
(* Only the owner gets this far; other accounts change nothing.            *)
(***************************************************************************)
EXTENDS Integers, Sequences, FiniteSets, Functions

CONSTANTS
  Url,           \* canonical feed URLs, the unique column of feed_sources
  Link,          \* links in commands, messages and search results
  Feeds,         \* [Link -> Seq(Url)]: the feeds a resolver may find there
  Direct,        \* links that name their feed (YouTube /channel/<id>)
  Capturable,    \* links _capture_url takes from a bare message
  HostOf,        \* [Link \union Url -> host]
  NoFeed,        \* a link leads to no feed, a reference to no source
  Op,            \* slots for concurrent commands and captures
  Job,           \* slots for concurrent discovery passes
  Cap,           \* FEED_MAX_ACTIVE_SOURCES
  CaptureLimit,  \* FEED_AUTOCAPTURE_DAILY_LIMIT
  MaxCandidates, \* FEED_DISCOVERY_MAX_CANDIDATES
  MaxSources,    \* FEED_DISCOVERY_MAX_SOURCES
  MaxRestarts,   \* bounds the restarts of the process
  MaxPasses      \* bounds the discovery passes

Slot == Op \union Job

ASSUME SlotAssumption ==
  /\ IsFiniteSet(Url)
  /\ IsFiniteSet(Slot)
  /\ Op # {}
  /\ Op \intersect Job = {}
ASSUME LimitAssumption ==
  /\ Cap \in Nat
  /\ CaptureLimit \in Int
  /\ MaxSources \in Nat
  /\ MaxCandidates \in Nat
  /\ MaxRestarts \in Nat
  /\ MaxPasses \in Nat
ASSUME LinkAssumption ==
  /\ Feeds \in [Link -> Seq(Url)]
  /\ Direct \subseteq {l \in Link : Len(Feeds[l]) = 1}
  /\ Capturable \subseteq Link
  /\ NoFeed \notin Url

VARIABLES
  row,       \* row[u]: the row of u in feed_sources
  call,      \* call[s]: the service call of slot s
  op,        \* op[o]: the command or capture in slot o
  job,       \* job[j]: the discovery pass in slot j
  captured,  \* Worker._captured_refs, for the owner's chat
  quota,     \* the counter of today's quota key
  peak,      \* history: the most calls between check and commit at once
  inserts,   \* history: inserts[u]: how many callers were told "added"
  captures,  \* history: how many captures were let through today
  restarts,  \* restarts so far
  passes     \* discovery passes so far

listVars == <<row, peak, inserts>>
vars == <<listVars, call, op, job, captured, quota, captures, restarts,
          passes>>

-----------------------------------------------------------------------------
(* Data                                                                    *)

\* lookup: before get_by_url; fresh, known: before count_active, for a URL
\* without a row and with an inactive one; insert, switch_on: before commit;
\* the others are what the call returned or raised.
Checked == {"insert", "switch_on"}
Results == {"added", "reactivated", "exists", "limit", "error"}
CallPhases == {"none", "lookup", "fresh", "known"} \union Checked \union Results
NoCall == [phase |-> "none", url |-> NoFeed]

\* quota: a capture before consume_daily_quota; resolve: before the resolver
\* answers; adding: in add_resolved; matched: in deactivate, before commit.
OpPhases == {"idle", "quota", "resolve", "adding", "matched"}
NoOp == [phase |-> "idle", ref |-> NoFeed]

\* search: the queries are out; select: existing_urls is read, candidates
\* are resolved and ranked; add: in the loop over the selected sources.
\* off is history: the sources that were off when the list was read.
JobPhases == {"idle", "search", "select", "add"}
NoJob ==
  [phase |-> "idle", active |-> 0, known |-> {}, off |-> {},
   selected |-> <<>>, added |-> {}]

Larger(m, n) == IF m < n THEN n ELSE m

Active == {u \in Url : row[u] = "on"}
PastCheck == {s \in Slot : call[s].phase \in Checked}

TypeOK ==
  /\ row \in [Url -> {"none", "on", "off"}]
  /\ call \in [Slot -> [phase: CallPhases, url: Url \union {NoFeed}]]
  /\ \A s \in Slot : call[s].phase # "none" => call[s].url \in Url
  /\ op \in [Op -> [phase: OpPhases, ref: Link \union Url \union {NoFeed}]]
  /\ job \in [Job -> [phase: JobPhases, active: Nat, known: SUBSET Url,
                      off: SUBSET Url, selected: Seq(Url), added: SUBSET Url]]
  /\ captured \in SUBSET Link
  /\ quota \in Nat
  /\ peak \in Nat
  /\ inserts \in [Url -> Nat]
  /\ captures \in Nat
  /\ restarts \in Nat
  /\ passes \in Nat

Init ==
  /\ row = [u \in Url |-> "none"]
  /\ call = [s \in Slot |-> NoCall]
  /\ op = [o \in Op |-> NoOp]
  /\ job = [j \in Job |-> NoJob]
  /\ captured = {}
  /\ quota = 0
  /\ peak = 0
  /\ inserts = [u \in Url |-> 0]
  /\ captures = 0
  /\ restarts = 0
  /\ passes = 0

-----------------------------------------------------------------------------
(* The resolver                                                            *)

\* _resolve_site and _validate_feed: the page itself when it is a feed, else
\* the first advertised feed that can be read at the moment.
ResolveSite(l) == Range(Feeds[l]) \union {NoFeed}

\* resolve_source: a Telegram channel or YouTube handle has at most one feed
\* and needs its page; a YouTube channel id needs no request.
Resolve(l) == IF l \in Direct THEN Range(Feeds[l]) ELSE ResolveSite(l)

-----------------------------------------------------------------------------
(* FeedSourceService.add_resolved, for any caller                          *)

\* Moves the call of s to another phase; the row stays.
CallMoves(s, phase) == call' = [call EXCEPT ![s].phase = phase]

Calls(s, u) == call' = [call EXCEPT ![s] = [phase |-> "lookup", url |-> u]]

\* get_by_url.
Lookup(s) ==
  /\ call[s].phase = "lookup"
  /\ CallMoves(s, CASE row[call[s].url] = "on"   -> "exists"
                    [] row[call[s].url] = "off"  -> "known"
                    [] row[call[s].url] = "none" -> "fresh")
  /\ UNCHANGED listVars

\* Bug: one source more than the limit.
EnsureCapacityOffByOne(s) ==
  /\ call[s].phase \in {"fresh", "known"}
  /\ CallMoves(s, IF Cardinality(Active) > Cap THEN "limit"
                   ELSE IF call[s].phase = "fresh" THEN "insert"
                   ELSE "switch_on")
  /\ peak' = Larger(peak, Cardinality(PastCheck'))
  /\ UNCHANGED <<row, inserts>>

\* _ensure_capacity, after which the URL is inserted or switched on.
EnsureCapacity(s) ==
  /\ call[s].phase \in {"fresh", "known"}
  /\ CallMoves(s, IF Cardinality(Active) >= Cap THEN "limit"
                   ELSE IF call[s].phase = "fresh" THEN "insert"
                   ELSE "switch_on")
  /\ peak' = Larger(peak, Cardinality(PastCheck'))
  /\ UNCHANGED <<row, inserts>>

\* Bug: the caller whose insert met the row of another is told "added".
InsertAnyway(s) ==
  LET u == call[s].url
  IN /\ call[s].phase = "insert"
     /\ row' = [row EXCEPT ![u] = IF @ = "none" THEN "on" ELSE @]
     /\ CallMoves(s, "added")
     /\ inserts' = [inserts EXCEPT ![u] = @ + 1]
     /\ UNCHANGED peak

\* commit of a new row.  When another caller's row is there by now, the
\* unique constraint refuses it and the row is read again.
Insert(s) ==
  LET u == call[s].url
  IN /\ call[s].phase = "insert"
     /\ IF row[u] = "none"
        THEN /\ row' = [row EXCEPT ![u] = "on"]
             /\ CallMoves(s, "added")
             /\ inserts' = [inserts EXCEPT ![u] = @ + 1]
        ELSE /\ CallMoves(s, "exists")
             /\ UNCHANGED <<row, inserts>>
     /\ UNCHANGED peak

\* _handle_existing: commit with is_active set.
SwitchOn(s) ==
  /\ call[s].phase = "switch_on"
  /\ row' = [row EXCEPT ![call[s].url] = "on"]
  /\ CallMoves(s, "reactivated")
  /\ UNCHANGED <<peak, inserts>>

\* The database raised: the session rolls back.
CallFails(s) ==
  /\ call[s].phase \in {"lookup", "fresh", "known"} \union Checked
  /\ CallMoves(s, "error")
  /\ UNCHANGED listVars

AddResolved(s) ==
  /\ \/ Lookup(s) \/ EnsureCapacity(s) \/ Insert(s) \/ SwitchOn(s)
     \/ CallFails(s)
  /\ UNCHANGED <<op, job, captured, quota, captures, restarts, passes>>

-----------------------------------------------------------------------------
(* /feed add, /feed rm, feed_cli and the automatic capture                 *)

Moves(o, phase, ref) == op' = [op EXCEPT ![o] = [phase |-> phase, ref |-> ref]]

\* /feed add <link>, or feed_cli add.
FeedAdd(o, l) ==
  /\ op[o].phase = "idle"
  /\ Moves(o, "resolve", l)
  /\ UNCHANGED <<listVars, call, job, captured, quota, captures, restarts,
                 passes>>

\* _maybe_capture_source: once per link.  _flush_after_debounce means to
\* forget the links of the batch but compares keys that are never equal.
Capture(o, l) ==
  /\ op[o].phase = "idle"
  /\ l \in Capturable \ captured
  /\ captured' = captured \union {l}
  /\ Moves(o, "quota", l)
  /\ UNCHANGED <<listVars, call, job, quota, captures, restarts, passes>>

\* Bug: compares the counter before it is incremented.
QuotaAllowsOneMore(used, limit) == limit > 0 /\ used <= limit

\* consume_daily_quota: does the call that makes the counter used + 1 fit?
QuotaAllows(used, limit) == limit > 0 /\ used + 1 <= limit

\* _capture_source up to the quota.  A limit of zero leaves the counter alone.
CaptureQuota(o) ==
  /\ op[o].phase = "quota"
  /\ quota' = IF CaptureLimit > 0 THEN quota + 1 ELSE quota
  /\ IF QuotaAllows(quota, CaptureLimit)
     THEN /\ captures' = captures + 1
          /\ Moves(o, "resolve", op[o].ref)
     ELSE /\ op' = [op EXCEPT ![o] = NoOp]
          /\ UNCHANGED captures
  /\ UNCHANGED <<listVars, call, job, captured, restarts, passes>>

\* FeedSourceService.add: FeedResolutionError, or on to add_resolved.
Resolved(o, u) ==
  /\ op[o].phase = "resolve"
  /\ u \in Resolve(op[o].ref)
  /\ IF u = NoFeed
     THEN /\ op' = [op EXCEPT ![o] = NoOp]
          /\ UNCHANGED call
     ELSE /\ Moves(o, "adding", u)
          /\ Calls(o, u)
  /\ UNCHANGED <<listVars, job, captured, quota, captures, restarts, passes>>

\* The caller is told the result, or the error.
AddAnswered(o) ==
  /\ op[o].phase = "adding"
  /\ call[o].phase \in Results
  /\ call' = [call EXCEPT ![o] = NoCall]
  /\ op' = [op EXCEPT ![o] = NoOp]
  /\ UNCHANGED <<listVars, job, captured, quota, captures, restarts, passes>>

\* deactivate, up to its commit: list_all and _match_source by id or by
\* canonical URL.  A source that is off, or none at all, is only reported.
FeedRemove(o, u) ==
  /\ op[o].phase = "idle"
  /\ row[u] = "on"
  /\ Moves(o, "matched", u)
  /\ UNCHANGED <<listVars, call, job, captured, quota, captures, restarts,
                 passes>>

\* deactivate: commit.
Deactivate(o) ==
  /\ op[o].phase = "matched"
  /\ row' = [row EXCEPT ![op[o].ref] = "off"]
  /\ op' = [op EXCEPT ![o] = NoOp]
  /\ UNCHANGED <<peak, inserts, call, job, captured, quota, captures,
                 restarts, passes>>

\* Redis or the database raises: a command answers that it failed, a
\* capture only logs.
OpFails(o) ==
  /\ op[o].phase \in {"quota", "matched"}
  /\ op' = [op EXCEPT ![o] = NoOp]
  /\ UNCHANGED <<listVars, call, job, captured, quota, captures, restarts,
                 passes>>

-----------------------------------------------------------------------------
(* FeedDiscoveryJob.run                                                    *)

\* Enabled, with an owner and a search provider, below the cap.
DiscoveryStarts(j) ==
  /\ job[j].phase = "idle"
  /\ passes < MaxPasses
  /\ Cardinality(Active) < Cap
  /\ passes' = passes + 1
  /\ job' = [job EXCEPT ![j] =
       [NoJob EXCEPT !.phase = "search", !.active = Cardinality(Active)]]
  /\ UNCHANGED <<listVars, call, op, captured, quota, captures, restarts>>

\* No facts, no queries, no results or a failure of a model or provider.
DiscoveryGivesUp(j) ==
  /\ job[j].phase \in {"search", "select"}
  /\ job' = [job EXCEPT ![j] = NoJob]
  /\ UNCHANGED <<listVars, call, op, captured, quota, captures, restarts,
                 passes>>

\* Bug: existing_urls without the disabled sources.
OnlyActiveUrls == Active

\* existing_urls: every row, the disabled ones too.
ExistingUrls == {u \in Url : row[u] # "none"}

ReadsKnown(j) ==
  /\ job[j].phase = "search"
  /\ job' = [job EXCEPT ![j].phase = "select", ![j].known = ExistingUrls,
                        ![j].off = {u \in Url : row[u] = "off"}]
  /\ UNCHANGED <<listVars, call, op, captured, quota, captures, restarts,
                 passes>>

\* _collect_candidates: one link per host, no host of a known source.
Candidates(known) ==
  {ls \in SUBSET {l \in Link : \A u \in known : HostOf[l] # HostOf[u]} :
     /\ Cardinality(ls) <= MaxCandidates
     /\ \A l, k \in ls : HostOf[l] = HostOf[k] => l = k}

\* _resolve_candidates: a candidate may lead to a known source after all.
Fresh(ls, known) ==
  (UNION {Resolve(l) : l \in ls}) \ (known \union {NoFeed})

\* _rank: the model may name a candidate twice.
Selections(us) == UNION {[1 .. n -> us] : n \in 1 .. MaxSources}

Selects(j, ls) ==
  /\ job[j].phase = "select"
  /\ ls \in Candidates(job[j].known)
  /\ \E chosen \in Selections(Fresh(ls, job[j].known)) :
       job' = [job EXCEPT ![j].phase = "add", ![j].selected = chosen]
  /\ UNCHANGED <<listVars, call, op, captured, quota, captures, restarts,
                 passes>>

\* The next selected source, below the cap by the job's own count.
Room(j) == job[j].active + Cardinality(job[j].added) < Cap

AddsNext(j) ==
  /\ job[j].phase = "add"
  /\ job[j].selected # <<>>
  /\ call[j] = NoCall
  /\ Room(j)
  /\ Calls(j, Head(job[j].selected))
  /\ UNCHANGED <<listVars, op, job, captured, quota, captures, restarts,
                 passes>>

\* Only a new row counts; a limit or an error skips the source.
Collects(j) ==
  /\ job[j].phase = "add"
  /\ call[j].phase \in Results
  /\ job' = [job EXCEPT ![j].selected = Tail(@),
                        ![j].added = IF call[j].phase = "added"
                                     THEN @ \union {call[j].url} ELSE @]
  /\ call' = [call EXCEPT ![j] = NoCall]
  /\ UNCHANGED <<listVars, op, captured, quota, captures, restarts, passes>>

\* The pass is over; _notify names the added sources once, or only logs.
DiscoveryEnds(j) ==
  /\ job[j].phase = "add"
  /\ call[j] = NoCall
  /\ job[j].selected = <<>> \/ ~Room(j)
  /\ job' = [job EXCEPT ![j] = NoJob]
  /\ UNCHANGED <<listVars, call, op, captured, quota, captures, restarts,
                 passes>>

-----------------------------------------------------------------------------
(* The rest of the world                                                   *)

\* The process ends and starts again; open sessions roll back.
Restart ==
  /\ restarts < MaxRestarts
  /\ restarts' = restarts + 1
  /\ call' = [s \in Slot |-> NoCall]
  /\ op' = [o \in Op |-> NoOp]
  /\ job' = [j \in Job |-> NoJob]
  /\ captured' = {}
  /\ UNCHANGED <<listVars, quota, captures, passes>>

\* Midnight, UTC: another quota key.
NewDay ==
  /\ quota > 0
  /\ quota' = 0
  /\ captures' = 0
  /\ UNCHANGED <<listVars, call, op, job, captured, restarts, passes>>

OpStep(o) ==
  \/ \E l \in Link : FeedAdd(o, l) \/ Capture(o, l)
  \/ \E u \in Url : FeedRemove(o, u)
  \/ CaptureQuota(o)
  \/ \E u \in Url \union {NoFeed} : Resolved(o, u)
  \/ AddAnswered(o)
  \/ Deactivate(o)
  \/ OpFails(o)

JobStep(j) ==
  \/ DiscoveryStarts(j)
  \/ DiscoveryGivesUp(j)
  \/ ReadsKnown(j)
  \/ \E ls \in SUBSET Link : Selects(j, ls)
  \/ AddsNext(j)
  \/ Collects(j)
  \/ DiscoveryEnds(j)

Next ==
  \/ \E s \in Slot : AddResolved(s)
  \/ \E o \in Op : OpStep(o)
  \/ \E j \in Job : JobStep(j)
  \/ Restart
  \/ NewDay

Spec == Init /\ [][Next]_vars

-----------------------------------------------------------------------------
(* Properties                                                              *)

\* The cap on active sources is checked before the commit, so concurrent
\* callers can exceed it; but never by more sources than callers were, at the
\* worst moment, between check and commit beside the first
\* (FeedSourceService._ensure_capacity).
CapOvershoot == Cardinality(Active) <= Cap + Larger(peak, 1) - 1

\* Of all the callers who race to add a URL, at most one is told it was
\* added: it is announced once, by a command, a capture or a discovery report
\* (the IntegrityError branch of add_resolved).
AddedOnce == \A u \in Url : inserts[u] <= 1

\* Discovery switches no source on that it had seen in the list: a source
\* the owner has switched off stays off (existing_urls, _resolve_candidates).
NeverRevived ==
  [][\A j \in Job, u \in Url :
       /\ call[j].url = u
       /\ call[j].phase = "switch_on" /\ call'[j].phase = "reactivated"
       => u \notin job[j].off]_vars

\* However often the process restarts and links are sent again, no more than
\* the daily number of captures gets past the quota (consume_daily_quota).
CapturesWithinQuota ==
  captures <= (IF CaptureLimit > 0 THEN CaptureLimit ELSE 0)

\* Stated by the limit's message, "Достигнут лимит активных источников", and
\* by FEED_MAX_ACTIVE_SOURCES: never more active sources than the cap.
NeverAboveCap == Cardinality(Active) <= Cap
=============================================================================
