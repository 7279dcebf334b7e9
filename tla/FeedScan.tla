----------------------------- MODULE FeedScan -----------------------------
(***************************************************************************)
(* The background parser: BackgroundParserJob.run goes over the active     *)
(* sources, claims each entry it has not seen in Redis, has it scored and  *)
(* announces, remembers or drops it.  The scheduler runs one pass at a     *)
(* time; feeds, the source list, midnight and the ttl of the claims move   *)
(* on in between, and the process may restart after any step.              *)
(***************************************************************************)
EXTENDS Integers, FiniteSets, FiniteSetsExt, Functions

CONSTANTS
  NSources,     \* sources, numbered in the order they were created
  MaxEntries,   \* [Source -> Nat]: entries it ever publishes (bounds the model)
  PageSize,     \* FEED_MAX_ITEMS_PER_SOURCE
  RunBudget,    \* FEED_MAX_ITEMS_PER_RUN
  NotifyLimit,  \* FEED_NOTIFY_DAILY_LIMIT
  MaxFaults,    \* bounds the failures and restarts
  MaxExpiries,  \* bounds the claims that run out
  MaxSwitches   \* bounds how often sources are switched on and off

Source == 1 .. NSources
Entry  == UNION {{s} \X (1 .. MaxEntries[s]) : s \in Source}

ASSUME FeedScanAssumption ==
  /\ {NSources, MaxFaults, MaxExpiries, MaxSwitches} \subseteq Nat
  /\ MaxEntries \in [Source -> Nat]
  /\ {PageSize, RunBudget} \subseteq Nat \ {0}
  /\ NotifyLimit \in Nat

VARIABLES
  active,     \* active[s]: feed_sources.is_active
  published,  \* published[s]: how many entries s has published
  wait,       \* wait[s]: scans since last_checked_at, 2 for more or never
  claims,     \* the entries with a nodya:feed:seen key
  notified,   \* today's counter of notifications
  scan,       \* the pass in progress
  announced,  \* history: announced[e]: how often e was sent to the owner
  expiries,   \* history: expiries[e]: how often the claim of e ran out
  owed,       \* history: entries scored high enough, not yet announced or
              \* remembered
  sentToday,  \* history: notifications sent since midnight
  faults,     \* failures and restarts so far
  switches    \* switches of sources so far

feedVars    == <<active, published, switches>>
historyVars == <<announced, expiries, owed, sentToday>>
scanVars    == <<feedVars, wait, claims, notified, scan, historyVars, faults>>

-----------------------------------------------------------------------------
(* Data                                                                    *)

\* next: at the head of the loop over the sources; items: at the head of the
\* loop over the fetched entries; score, notify, publish, remember: in
\* _handle_item, with the entry it has claimed.
ScanPhases == {"idle", "next", "items", "score", "notify", "publish", "remember"}
InItem == {"score", "notify", "publish", "remember"}

\* sources: those that the pass has not done, page: the fetched entries, todo:
\* those of them that the loop has not come to.
Resting == [phase |-> "idle", sources |-> {}, page |-> {}, todo |-> {},
            item |-> <<0, 0>>, budget |-> 0]

\* fetch_rss and fetch_telegram return the newest entries only.
Page(s) == {s} \X {n \in 1 .. published[s] : n > published[s] - PageSize}

ScanTypeOK ==
  /\ active \in [Source -> BOOLEAN]
  /\ published \in [Source -> Nat]
  /\ \A s \in Source : published[s] <= MaxEntries[s]
  /\ wait \in [Source -> 0 .. 2]
  /\ claims \in SUBSET Entry
  /\ notified \in Nat
  /\ scan \in [phase: ScanPhases, sources: SUBSET Source, page: SUBSET Entry,
               todo: SUBSET Entry, item: Entry \union {<<0, 0>>},
               budget: 0 .. RunBudget]
  /\ scan.phase \in InItem => scan.item \in scan.todo /\ scan.budget > 0
  /\ scan.phase \in InItem \union {"items"} => scan.sources # {}
  /\ announced \in [Entry -> Nat]
  /\ expiries \in [Entry -> Nat]
  /\ owed \in SUBSET Entry
  /\ sentToday \in Nat
  /\ faults \in 0 .. MaxFaults
  /\ switches \in 0 .. MaxSwitches

ScanInit ==
  /\ active = [s \in Source |-> TRUE]
  /\ published = [s \in Source |-> 0]
  /\ wait = [s \in Source |-> 2]
  /\ claims = {}
  /\ notified = 0
  /\ scan = Resting
  /\ announced = [e \in Entry |-> 0]
  /\ expiries = [e \in Entry |-> 0]
  /\ owed = {}
  /\ sentToday = 0
  /\ faults = 0
  /\ switches = 0

Fails ==
  /\ faults < MaxFaults
  /\ faults' = faults + 1

-----------------------------------------------------------------------------
(* The loop over the sources                                               *)

\* The source the loop has come to: list_active is in the order of creation.
Foremost == Min(scan.sources)

Others == scan.sources \ {Foremost}

\* The interval is over: list_active.
ScanStarts ==
  /\ scan.phase = "idle"
  /\ scan' = [Resting EXCEPT
       !.phase = "next", !.sources = {s \in Source : active[s]},
       !.budget = RunBudget]
  /\ wait' = [s \in Source |-> IF wait[s] < 2 THEN wait[s] + 1 ELSE 2]
  /\ UNCHANGED <<feedVars, claims, notified, historyVars, faults>>

\* The last source is done, or the budget is spent before the next one.
ScanEnds ==
  /\ scan.phase = "next"
  /\ scan.sources = {} \/ scan.budget = 0
  /\ scan' = Resting
  /\ UNCHANGED <<feedVars, wait, claims, notified, historyVars, faults>>

AtSource == scan.phase = "next" /\ scan.sources # {} /\ scan.budget > 0

\* _is_due: the window is as long as the interval between scans and starts
\* when the source was touched, somewhat after its scan began.  One scan
\* later it is over only if that scan is late enough.
Due(s) == IF wait[s] = 2 THEN {TRUE} ELSE BOOLEAN

Skip ==
  /\ AtSource
  /\ FALSE \in Due(Foremost)
  /\ scan' = [scan EXCEPT !.sources = Others]
  /\ UNCHANGED <<feedVars, wait, claims, notified, historyVars, faults>>

\* fetch_source.
Fetch ==
  /\ AtSource
  /\ TRUE \in Due(Foremost)
  /\ LET page == Page(Foremost)
     IN scan' = [scan EXCEPT !.phase = "items", !.page = page, !.todo = page]
  /\ UNCHANGED <<feedVars, wait, claims, notified, historyVars, faults>>

\* fetch_source returned None: the timestamp stays.
FetchFails ==
  /\ AtSource
  /\ TRUE \in Due(Foremost)
  /\ Fails
  /\ scan' = [scan EXCEPT !.sources = Others]
  /\ UNCHANGED <<feedVars, wait, claims, notified, historyVars>>

\* touch, when every fetched entry was handled.
Touch ==
  /\ scan.phase = "items"
  /\ scan.todo = {}
  /\ wait' = [wait EXCEPT ![Foremost] = 0]
  /\ scan' = [scan EXCEPT !.phase = "next", !.sources = Others]
  /\ UNCHANGED <<feedVars, claims, notified, historyVars, faults>>

\* exhausted: the source keeps its timestamp and the pass ends.
Exhausted ==
  /\ scan.phase = "items"
  /\ scan.todo # {}
  /\ scan.budget = 0
  /\ scan' = Resting
  /\ UNCHANGED <<feedVars, wait, claims, notified, historyVars, faults>>

-----------------------------------------------------------------------------
(* _handle_item                                                            *)

AtEntry(e) == scan.phase = "items" /\ e \in scan.todo /\ scan.budget > 0

\* Bug: SET without NX.
ClaimAnyway(e) ==
  /\ AtEntry(e)
  /\ claims' = claims \union {e}
  /\ scan' = [scan EXCEPT !.phase = "score", !.item = e]
  /\ UNCHANGED <<feedVars, wait, notified, historyVars, faults>>

\* claim_feed_item.
Claim(e) ==
  /\ AtEntry(e)
  /\ e \notin claims
  /\ claims' = claims \union {e}
  /\ scan' = [scan EXCEPT !.phase = "score", !.item = e]
  /\ UNCHANGED <<feedVars, wait, notified, historyVars, faults>>

\* Bug: entries that were claimed before use up the budget too.
SeenButCounted(e) ==
  /\ AtEntry(e)
  /\ e \in claims
  /\ scan' = [scan EXCEPT !.todo = @ \ {e}, !.budget = @ - 1]
  /\ UNCHANGED <<feedVars, wait, claims, notified, historyVars, faults>>

\* An entry that was claimed before.
Seen(e) ==
  /\ AtEntry(e)
  /\ e \in claims
  /\ scan' = [scan EXCEPT !.todo = @ \ {e}]
  /\ UNCHANGED <<feedVars, wait, claims, notified, historyVars, faults>>

\* _handle_item returns True.
Handled ==
  scan' = [scan EXCEPT !.phase = "items", !.todo = @ \ {scan.item},
                       !.item = <<0, 0>>, !.budget = @ - 1]

\* _filter_relevance: FEED_NOTIFY_SCORE, FEED_STORE_SCORE or less.
Score ==
  /\ scan.phase = "score"
  /\ \/ /\ \E phase \in {"notify", "remember"} :
             scan' = [scan EXCEPT !.phase = phase]
        /\ owed' = owed \union {scan.item}
     \/ Handled /\ UNCHANGED owed
  /\ UNCHANGED <<feedVars, wait, claims, notified, announced, expiries,
                 sentToday, faults>>

\* The model failed or returned garbage: the entry is dropped.
ScoreFails ==
  /\ scan.phase = "score"
  /\ Fails
  /\ Handled
  /\ UNCHANGED <<feedVars, wait, claims, notified, historyVars>>

\* Bug: an entry the quota refuses is dropped.
NotifyQuotaOrDrop ==
  /\ scan.phase = "notify"
  /\ notified' = notified + 1
  /\ IF notified + 1 <= NotifyLimit
     THEN scan' = [scan EXCEPT !.phase = "publish"]
     ELSE Handled
  /\ UNCHANGED <<feedVars, wait, claims, historyVars, faults>>

\* Bug: one notification too many.
NotifyQuotaOffByOne ==
  /\ scan.phase = "notify"
  /\ notified' = notified + 1
  /\ scan' = [scan EXCEPT !.phase =
                IF notified <= NotifyLimit THEN "publish" ELSE "remember"]
  /\ UNCHANGED <<feedVars, wait, claims, historyVars, faults>>

\* _notify up to the quota; a limit of zero leaves the counter alone.
NotifyQuota ==
  /\ scan.phase = "notify"
  /\ notified' = IF NotifyLimit > 0 THEN notified + 1 ELSE notified
  /\ scan' = [scan EXCEPT !.phase =
                IF notified + 1 <= NotifyLimit THEN "publish" ELSE "remember"]
  /\ UNCHANGED <<feedVars, wait, claims, historyVars, faults>>

\* _notify: the reaction, which may be missing, and publish_outgoing.
Publish ==
  /\ scan.phase = "publish"
  /\ announced' = [announced EXCEPT ![scan.item] = @ + 1]
  /\ owed' = owed \ {scan.item}
  /\ sentToday' = sentToday + 1
  /\ Handled
  /\ UNCHANGED <<feedVars, wait, claims, notified, expiries, faults>>

\* _remember: embed and upsert_points.
Remember ==
  /\ scan.phase = "remember"
  /\ owed' = owed \ {scan.item}
  /\ Handled
  /\ UNCHANGED <<feedVars, wait, claims, notified, announced, expiries,
                 sentToday, faults>>

\* _remember only logs a failure.
RememberFails ==
  /\ scan.phase = "remember"
  /\ Fails
  /\ Handled
  /\ UNCHANGED <<feedVars, wait, claims, notified, historyVars>>

\* Redis, the database or the publisher raised, or the process restarts: the
\* pass is over, and an entry in hand keeps its claim.
ScanAborts ==
  /\ scan.phase # "idle"
  /\ Fails
  /\ scan' = Resting
  /\ UNCHANGED <<feedVars, wait, claims, notified, historyVars>>

-----------------------------------------------------------------------------
(* The rest of the world                                                   *)

\* A source publishes an entry.
Appears(s) ==
  /\ published[s] < MaxEntries[s]
  /\ published' = [published EXCEPT ![s] = @ + 1]
  /\ UNCHANGED <<active, switches, wait, claims, notified, scan, historyVars,
                 faults>>

\* FeedSourceService switches a source on or off.
Switch(s) ==
  /\ switches < MaxSwitches
  /\ switches' = switches + 1
  /\ active' = [active EXCEPT ![s] = ~@]
  /\ UNCHANGED <<published, wait, claims, notified, scan, historyVars, faults>>

\* FEED_SEEN_TTL_DAYS are over.
ClaimExpires(e) ==
  /\ e \in claims
  /\ SumFunction(expiries) < MaxExpiries
  /\ expiries' = [expiries EXCEPT ![e] = @ + 1]
  /\ claims' = claims \ {e}
  /\ UNCHANGED <<feedVars, wait, notified, scan, announced, owed,
                 sentToday, faults>>

\* Midnight, UTC.
DayPasses ==
  /\ notified > 0
  /\ notified' = 0
  /\ sentToday' = 0
  /\ UNCHANGED <<feedVars, wait, claims, scan, announced, expiries, owed,
                 faults>>

EntryStep(e) == Claim(e) \/ Seen(e)

\* What the job does by itself.
ScanStep ==
  \/ ScanStarts \/ ScanEnds \/ Skip \/ Fetch \/ Touch \/ Exhausted
  \/ \E e \in Entry : EntryStep(e)
  \/ Score \/ NotifyQuota \/ Publish \/ Remember

ScanNext ==
  \/ ScanStep
  \/ FetchFails \/ ScoreFails \/ RememberFails \/ ScanAborts
  \/ \E s \in Source : Appears(s) \/ Switch(s)
  \/ \E e \in Entry : ClaimExpires(e)
  \/ DayPasses

\* The scheduler starts a pass every FEED_SCAN_MINUTES, and a pass goes on.
ScanSpec == ScanInit /\ [][ScanNext]_scanVars /\ WF_scanVars(ScanStep)

-----------------------------------------------------------------------------
(* Properties                                                              *)

\* However often a feed is read, scans fail and sources are retried, an entry
\* is announced at most once for each time it was claimed afresh
\* (claim_feed_item before scoring).
AnnouncedPerClaim == \A e \in Entry : announced[e] <= expiries[e] + 1

\* A day's notifications stay within the limit, but for one whose quota was
\* taken before midnight (consume_daily_quota, then publish_outgoing).
NotificationsBounded == sentToday <= NotifyLimit + 1

\* Without failures every entry scored high enough is announced or remembered,
\* whatever the quota says (_handle_item).
RelevantIsKept ==
  faults = 0 =>
    owed \subseteq (IF scan.phase \in InItem THEN {scan.item} ELSE {})

\* A source gets its timestamp only when every entry it showed was claimed,
\* now or before; what the budget left out is retried (exhausted).
TouchedWhenHandled ==
  [][\A s \in Source :
       wait[s] > 0 /\ wait'[s] = 0 =>
         \A e \in scan.page : e \in claims \/ expiries[e] > 0]_scanVars

\* Once the feeds before it fall silent, every source that stays active is
\* polled again: entries seen before cost no budget (run, _handle_item).
EveryoneIsPolled ==
  \A s \in Source :
    wait[s] > 0 /\ active[s] ~> wait[s] = 0 \/ ~active[s]

\* Stated at the head of background.py: repeated feed reads never produce
\* duplicates.
AnnouncedOnce == \A e \in Entry : announced[e] <= 1
=============================================================================
