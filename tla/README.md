# Verification of agent-newsletter

TLA+ models of the newsletter service in `src/` and what TLC checks and TLAPS
proves about them. Line numbers refer to the repository; `PROJECT.json` maps
every definition to the lines it translates.

- [The system](#the-system)
- [The models](#the-models)
- [What the runs check](#what-the-runs-check)
- [Findings](#findings)
- [What is proved](#what-is-proved)
- [What is not modelled, and the plan](#plan)

## The system

Once a day, at 21:00 in a configured timezone, the service collects items from
its sources, curates them into an *edition*, stores the edition and serves it to
agents over HTTP. There are two deployments. The *hosted* one runs request
handlers on Vercel over Supabase tables; the *local* one runs Node processes over
JSON files in `NEWSLETTER_DATA_DIR`. Both run the same publication flow.

```
 cron jobs ──POST──> hosted publisher ─┐
 scheduler, npm run publish:newsletter ┴─> publication flow ─> editions, identity registry
                                            │      ▲                     │
                        source adapters ────┘      └─ source registry    ▼
                              ▲                        ▲              readers: API
                              └── discovery worker ────┘              (consumers, limiter)
```

### Components

| Component | State it keeps | Operations | Hard behaviour | Correct when |
| --- | --- | --- | --- | --- |
| Hosted publisher (`supabase/runtime.js`, `publication-runs.js`, `data-store.js`) | `newsletter_publication_runs`, one row per slot: the lock | insert the row, retry a failed one, settle it | two crons fire at once, replies of writes are lost, handlers are killed, the clock is read twice | one request at a time works on a slot; a row never names an edition that is not there; every request is answered and every slot settles |
| Publication flow (`publication-flow.js`) | none of its own between awaits but what it loaded | plan, look for the edition, aggregate, load earlier editions and registry, publish, record | a step in the middle fails after an earlier one took effect; retries | an edition never changes; counts of appearances are right |
| Item identity registry (`item-identity-repository.js`, `core/item-resolution.js`) | appearances of every item | load, record an edition, save | load-merge-save without a version | it never claims more than was published |
| Publication scheduler (`publication-schedule.js`) | `timerId`, `nextRunAt`, `active` | start, stop, the timer's callback | start and stop during a callback, timers that are early by the wall clock, exits | never runs dry, never publishes a slot twice, misses no slot it could publish |
| Local edition files (`edition-store.js`) | `editions/*.json` | publish, read the whole archive | `writeFile` truncates and fills; no lock between processes | what was written stays and can be read |
| API server (`api.js`, `consumer-tracking.js`, `consumer-identity-service.js`) | `consumer-identities.json`, the queue `pendingWrite` | resolve the consumer, limit, serve, record | concurrent requests share one file; a read meets a half-written file | every request is counted once and answered |
| Rate limiters (`rate-limit.js`; the hosted one is a SQL function) | fixed windows by IP | consume | bursts across two windows; pruning | bursts are bounded |
| Source registry (`discovery/source-repository.js`, `source-lifecycle.js`) | every discovered source: status, stage, streaks, failures, retirement | candidate, probation, activate, retire, restore | whole-snapshot saves by several writers; streaks over days | promotions and retirements are earned; a category keeps an active source |
| Source discovery (`source-discovery-service.js`, worker and task) | none | one discovery cycle over the run's items | runs several times a day, after a late or failed adapter | as above |
| Collection (`core/pipeline.js`, `content-fetcher.js`) | none | fetch all adapters with deadlines, check what is required | late answers, partial failures | a run publishes what it collected, or nothing |
| Source adapters (`src/sources/`) | pages fetched so far | fetch, paginate, retry | rate limits and errors of upstream services | they end, and return each item once |
| Curation (`core/dedupe.js`, `relevance-scoring.js`, `newsletter/exclusion-*.js`) | score history | cluster duplicates, score, exclude | order of items | every evaluated item is published or excluded |
| Storylines, reference index, item lifecycle (`newsletter/storyline*.js`, `reference-index.js`, `item-lifecycle.js`) | derived from the archive | link items across editions, promote after three editions, expire after seven days | counts that drift, an archive that shrinks | an item is promoted exactly when it appeared three times |
| Checkpointing consumer (`examples/consumer.js`) | its checkpoint | poll, detect a gap, checkpoint | fails between request and checkpoint | no change is skipped silently |
| Schemas, serialization, client construction, Ruby prototype | none | format and validate | none | not modelled: pure data |

## The models

| Module | Models | Detail |
| --- | --- | --- |
| `EditionArchive` | what readers are promised | editions appear once, in order of their slots, each item with its number of appearances |
| `PublicationRuns` | hosted publisher, flow, registry | one action per await; refines `EditionArchive` |
| `PublicationRunsProofs` | theorems about `PublicationRuns` | the second part for deployments whose requests end within their slot |
| `PublicationScheduler` | `createPublicationScheduler` | chains of timers and callbacks over one clock |
| `PublicationSchedulerProofs` | theorems about `PublicationScheduler` | |
| `EditionFiles` | the flow over local files | opening (truncating) and filling a file are two steps |
| `EditionFilesProofs` | theorems about `EditionFiles` | |
| `ConsumerIdentities` | whose request is it | the client address behind proxies, the lookups of `findMatchingConsumerIdentityRecord` and the merge of a request into a record with its tallies, as operators |
| `ApiServer` | API process | composes `ConsumerIdentities` with limiter, queue, file and process |
| `ApiServerProofs` | theorems about `ApiServer` | |
| `SourceLifecycle` | one record of the source registry | the lifecycle functions as operators on records and snapshots |
| `SourceExpertise` | tracked items of a source and what they earn it | the days on which the items occurred and scored high, as operators |
| `SourceRegistry` | registry and its writers | composes `SourceLifecycle` and `SourceExpertise` with runs, a late adapter, aborts and an operator |
| `SourceRegistryProofs` | theorems about `SourceRegistry` | |
| `SourceFetch` | `ContentFetcherCore` and the adapters | pages, limits, retries after rate limits, failures, deadlines, late answers |
| `ItemIdentity` | `core/item-identity.js` | when two items are about the same thing, as operators over signals |
| `RelevanceScoring` | `createWeightedRelevanceScorer` | the weighted average of the observed signals |
| `Curation` | `AggregationPipeline.aggregate`, `core/dedupe.js`, the publication's exclusions | operators from a batch of items to what is published and excluded |
| `Collection` | a publication's collection | composes `SourceFetch` with `Curation` |
| `CollectionProofs` | theorems about `Collection` | what the fetch keeps of the listings, and the groups that are made of it |
| `Storylines` | `newsletter/storyline.js`, `storyline-lifecycle.js` | membership, lineage, merges, lifecycle, the records of an edition, rebuilding, as operators |
| `StorylineResponses` | what the API says of storylines | the merge of records and item states in `edition.js`, `item-lifecycle.js`, `storyline-index.js` |
| `StorylineArchive` | editions with storylines, day after day | composes both with `ItemResolutionService` and the archive's item counts |
| `EditionReaders` | reads of the published editions | latest, history, lifecycle, reference index, as operators |
| `ExclusionReports` | reads of the exclusions | analytics, summary and report, as operators |
| `Readers` | publisher, expiring archive and `examples/consumer.js` | composes both with a polling consumer that may crash |
| `ReadersProofs` | theorems about `Readers` | |
| `FoldTheorems` | lemmas about folds: sums over sets, over the parts of a set and in any order, bounds of sets of integers, folds from the oldest or the first element on | used by `ApiServerProofs`, `CollectionProofs`, `ReadersProofs` and `SourceRegistryProofs` |
| `MC*` | instances for TLC | symmetry, callers, categories, a view |

Definitions named `...Unguarded`, `...Skipped`, `...Leniently` and so on, marked
"Mutant", are defective variants of the definition after them. No specification
uses them; each one must make a property fail when it takes its original's place.

### `PublicationRuns`

State: `runs`, `editions` and `registry` are the three tables; per handler `pc` is
the await it is at, `slot` the slot whose row it holds, `plan` the slot its flow
publishes, `picked`, `tracked` and `snapshot` its local data, `began` the time the
request arrived. The clock `now` is divided into slots of `SlotLength` ticks;
an unforced request is declined more than `Grace` ticks after its slot
(`shouldPublishScheduledEdition`), a forced one (`NEWSLETTER_FORCE_PUBLICATION`)
never.

`Request` is the handler up to its first write, `InsertRun`, `ReadRun` and
`RetryRun` are `acquirePublicationRun`, `Plan` to `RecordSave` are the flow,
`MarkCompleted` and `MarkFailed` settle the row. Every write can be rejected
("reject"), applied without its reply ("lost"), and a handler can be killed at
every await ("crash"); "collect" makes the aggregation fail.

Abstractions: an edition is a function from items to their edition counts;
relevance, storylines and exclusions do not touch these tables' control. The
timezone of a deployment is fixed, so an edition's id, `published_at` and slot
determine each other. An item is its stable identity; `Curation` models how items
get theirs.

### `PublicationScheduler`

A *chain* is one timer that calls back and re-arms. `Start`, `Stop`, `Fire`,
`Check` and `Publish` (the callback up to and after its awaits, with the `finally`
block in `Continue`), `Exit` the end of the process. Time is the wall clock;
`setTimeout` counts monotonic time, so with "early" a timer may fire one tick
before its slot. `Tick` waits for due timers and for publications that have taken
`MaxDuration`.

### `EditionFiles`

Each publisher process runs `Check`, `Collect`, `OpenEdition`, `WriteEdition`,
`LoadIdentity`, `OpenIdentity`, `WriteIdentity`. A file is `Absent`, `Torn` or
holds a value; a process that dies after it opened a file leaves it torn.
`overlapped` records that two flows ran at once. No lock prevents it; the
documentation runs one publisher, so promises about published data are stated
for publishers that take turns, `RecordedWasWritten` for all.

### `ConsumerIdentities` and `ApiServer`

A request `Arrive`s, `Resolve`s its consumer (waits for the recordings queued
when it arrived, reads the file), is `Route`d or throttled, is recorded
(`RecordLoad`, `RecordOpen`, `RecordWrite`, in the order of `pendingWrite`) and
answered (`Send`). A read that meets a torn file rejects outside every try block
and ends the process: that is part of `Resolve`. `Killed` and `Restart` are the
operating system's. The routes themselves are one read of the archive.

A request carries the headers `Forwarded`, `X-Forwarded-For` and so on as lists of
entries; `ClientIp` takes the first that names an address when its reader trusts
the proxy. The limiter and the tracker are configured apart (`LimiterTrustsProxy`,
`TrackerTrustsProxy`). A record counts requests by address and by outcome, and
`Loadable` is what the repository demands of a record it loads.

### `SourceLifecycle` and `SourceRegistry`

A source's record is its status, stage, the day its probation began, the days
with a qualifying score, the low-signal days, consecutive fetch failures
and, when retired, the snapshot a restore puts back. Days
are cycles: the code's windows count cycle days. `Discovery` is the synchronous
part of `discoverFromItems`: mentions, scores, promotion, then the evaluation of
the approved sources that the run did not see.

A run loads and saves the registry twice: `BeginRun`, `AdapterSave` (or
`Deadline`, after which the adapter's promise stays pending and may save late),
`DiscoverLoad`, `DiscoverSave`. `OperatorLoad` and `OperatorSave` are
`SourceRepository.retireSource` and `restoreSource`. Every save replaces the
whole snapshot. With `TakeTurns` no snapshot is loaded while another is in use;
the code does not enforce that, so the properties say "as long as the writers
take turns" and the overlap is listed as a hazard without a property.

`SourceExpertise` is what `source-authority.js` remembers of the items fetched from
an approved source: the days on which they occurred and, by their best score of the day,
those on which they scored high, whether they lasted (a second day with a
high score) or went stale, and the points this adds to or takes from
the source's authority. `Discovery` observes them with every run.

Abstractions: scoring is a choice (an item makes its source eligible or not, its
score qualifies or not); how far a high score lies above its threshold is left out,
and with it the partial loss of points of an item that decays while high;
authority from citations and GitHub (bootstrap signals) is left out; seeds are left out, as they neither retire nor count
for coverage; a source that failed is in backoff (an hour to a day) or not any more,
by choice; the categories that a source covers are fixed; `maxSources` is larger than the number of sources; a
run ends within its cycle; the audit's history is left out.

### `SourceFetch`, `ItemIdentity`, `RelevanceScoring`, `Curation` and `Collection`

A *job* is one loop of an adapter: a search term or the trending page of GitHub,
the arXiv feed, a subreddit, the X search, an approved web source. Its actions are
asking for a page, the page's arrival (`Answer`), a refusal with a waiting time
(`Limited`, `Wake`, `GiveUp`) and a failure; `TimeOut` abandons an adapter at the
deadline while its jobs go on. `listing` is what the service lists, fixed for the
round. `Collection` adds `Curate`, the synchronous remainder: `CreateItem`,
`AllowItem` (the source gate), `GroupDuplicateItems`, `Cluster` (the members of a
group get the id, the name and the canonical identifiers of the whole), `Resolve` (ids,
names and identifiers taken over from history), `Consolidate` and `Score`, `Keeps` (the relevance gate) and
`PublicationItems` (the exclusions by item id).

Items are described by what matching and scoring tell apart: addresses with the
canonical ids they contain, the identifiers they were given (one of a kind: repository,
DOI, source), names as sets of tokens, aliases with the place they were read from, and the metrics observed of them, a partial function. Formats of
upstream services, text similarity below the level of tokens, sentiment and the
maximum number of web sources are left out. `MCCollection` uses the weights and
saturations of `BASE_RELEVANCE_SCORING_CONFIG`.

### `Storylines`, `StorylineResponses` and `StorylineArchive`

`Publish` is one publication: candidates are resolved against tracked items
(`Resolved`, `Historical`), assigned to storylines by any decision the classifier
can take (`Assign`, `Merge`, `ReconcileGroup`), synchronised and aged (`Advance`),
and stored (`EditionStorylines`, `StoreEdition`); then the reader's copy `states` is built
from the stored edition again (`Absorb`), while `applied` keeps what the publication had.
The store refuses an edition that is not `Valid` (`validateStorylineMembership`: an item's
storyline has a record, the item its position in it, and members stand in the order of
their first days): `RefuseEdition`, after which the publication fails (`Throw`) and nothing
is stored. An item has two storylines: `storyline`, the one the pipeline named and the first of
its `storylineIds`, and `assigned`, the one it was placed in; they differ when the named one
was merged away.
`StorylineResponses` gives the contexts `/latest` and `/history` build from records
and items, the lifecycle of `/item` and the groups of `/storylines`. A day stands
for a timestamp; titles, narrative types and the days on which a storyline was first
seen, which no decision reads, are left out (those of items are kept, as `Valid` reads them).

### `EditionReaders`, `ExclusionReports` and `Readers`

An archive maps days to editions, an edition maps items to their version, clusters,
score and count. What takes the editions of a period one after the other, from the
oldest on, is a fold (`Chronologically`): the item counts of `loadTrackedItemStates`
(`TrackEditions`) and the consumer's `reviewEditions` (`ReviewAll`). `Readers` composes a publisher (`Publish`), the passing days and
the consumer: `Start` (reads the checkpoint), `GetLatest`, `GetHistory` (reviews and
prints), `Save` (renames the new checkpoint into place), `Fail` and `Crash` in
between. The reads of exclusions are evaluated in every state over the log of the
same archive.

## What the runs check

| Run | Instance | Question and result |
| --- | --- | --- |
| `scheduled` | 2 handlers, 1 item, slots 0–2, no grace, all faults | The lock, the run rows, the replies and the counts stay right under every fault, and the tables implement `EditionArchive`. |
| `forced` | 2 forced handlers, 1 item, slots 0–2, failing collections | Requests cross slot boundaries and publish each other's slots: editions stay immutable, counts are never inflated, every request is answered, every run settles. |
| `worker` | 2 chains, 4 slots, failures, exits, early timers, stops between callbacks | The scheduler writes no edition twice, misses no punctual slot, and every callback re-arms. |
| `files` | 2 publishers, 3 slots, failures, crashes | While publishers take turns editions and recordings stand; even overlapping ones record nothing unwritten. |
| `api` | 2 concurrent requests, 2 declared and 1 undeclared caller behind and not behind a proxy, limit 1 in 2 ticks, kills | The history counts exactly, in total, by address and by outcome; bursts stay below twice the limit; apart consumers stay apart; every request ends. |
| `api_exit` | a shared address, no kills | violation, see findings |
| `registry` | 1 source, 1 item, 1 writer, 3 days, windows of 2 days, thresholds of 2 | Promotions, low-signal retirements and expertise are earned by the required days. |
| `registry_coverage` | 2 sources of one category, 2 writers, thresholds of 1, 2 days | No retirement takes the last active source of the category. |
| `storylines` | 3 ids, up to 6 items in up to 5 editions, gaps of 1 and 8 days, 18 days | Editions whose merges are apart keep the links agreeing from both ends, merges ending and news active; of editions whose items name no merged-away storyline, readers rebuild what was published and the answers of the API agree; every refusal of the store has a known cause. |
| `collection` | 4 adapters, 5 jobs, 6 records, one fault, one rate limit, deadline and history | The round ends; an adapter gives all or nothing; groups are the connected components of shared identity; every item is accounted for; known items keep their ids. |
| `excluded` | as `collection` | violation, see findings |
| `readers` | 2 items, 5 days, history of 2 days, 4 editions, 1 crash | Durable items are in the history or the index; no change is missed silently; changes are told once unless the consumer crashed; the reads of exclusions agree. |

Why these bounds are enough for what they ask:

- *Publisher.* Conflicts are between two holders of a row, so two handlers meet
  all of them; a handler that answered can start again, so retries and their
  retries occur. Counts go wrong over at least three editions (missing record in
  the first, its recovery in the second, the use in the third): slots 0–2. In
  `scheduled` a slot has two ticks, so that a request can be late, and `Grace` is
  0; in `forced` a slot is one tick, so that every await can cross a boundary.
- *Scheduler.* A second chain needs one stop and one start during a callback, so
  two chains show it; a slot is longer than a publication, as in deployment.
  `MaxTime` leaves room for a restart after the first slot.
- *Files.* Two publishers overlap; three slots let a torn file of one slot break
  the publication of another.
- *API.* A limit of 1 makes every second request of a window throttled; four
  clock values cross two windows of two ticks and the pruning between them.
- *Registry.* Windows of two days in three days make cycles expire. Two sources
  suffice for "last active source", and failures of both in one fetch are the
  case that an unupdated guard would miss. `registry_coverage` uses a view without
  the history variables and the expertise: no guard of the lifecycle reads them, and
  its property does not either.
- *Collection.* A listing of four records on pages of two with a limit of three
  has a full page, a cut one and an unread rest; one refusal or failure anywhere
  reaches every branch of the loops. The six records are the smallest set with two
  repositories that share no identity but are bridged by a post, a page that links
  to one of them, and an item of another group; history and metrics put every one of them
  below and above the gate.
- *Storylines.* Three ids allow a parent with two children and a chain of two
  merges; a gap of 8 days is beyond the 7 idle days that archive a storyline. Six
  items in five editions are what it takes to have two storylines exchange their items
  (see below); `Horizon` leaves room for two long gaps among them. `RebuildAgrees` and
  `RefusalsExplained` suppose that earlier merges left no circle (`MergesEnd`) and no
  members out of order (`MembersInOrder`). Archives where that matters are longer than
  these: within the bounds no edition is refused for the order of its members, while random
  simulations with 16 items in 12 editions reach such archives.
- *Readers.* Five days with a history of two let an item age out, come back and
  age out again, and let the checkpoint fall behind the history.

Deadlock is checked in all runs but `storylines`, `collection` and `excluded`, which
end with the last edition or the end of the round. A publisher can always take another request, a
scheduler can be started or stopped, the API has an explicit `Quiet` step for a
server that waits, an operator can always call.

### Fairness

- `PublicationRuns`: weak fairness of each handler's own steps. A started
  invocation keeps running until it answers or is killed. Nothing promises a
  request, the clock or a fault. Liveness is checked in `forced` without kills
  and lost replies: with them a row can stay "running" for good, which nothing
  in the code repairs (hazard at `supabase/runtime.js:355`).
- `PublicationScheduler`: weak fairness of a callback's continuation: the event
  loop resumes settled promises.
- `ApiServer`: weak fairness of every accepted request; the queue of recordings
  is served by the same steps.
- `Collection`: weak fairness of the clock and of the fetcher's timers, and of
  nothing else: a source never has to answer.
- `EditionFiles`, `SourceRegistry`, `StorylineArchive`, `Readers`: safety only.

## Findings

Each is a disagreement between the code and what a document or test of the
repository says; `PROJECT.json` quotes the lines.

1. `api_exit`: a request that looks up its consumer while a later recording has
   truncated the file rejects outside every try block; Node ends the process
   (`consumer-identity-service.js:50`).
2. `excluded`: exclusions and curated items are matched by item id; an excluded
   duplicate whose id is that of a curated item removes it from the edition
   (`publication-flow.js:388`).

### Other behaviour the models show

These have no run of their own. They are consequences of the modelled code that a
maintainer may want to know; where a document or test says otherwise it is named.

*Publishing*

- The callback of the scheduler publishes the latest slot *reached*, not the one
  it was armed for: if its timer is early by the wall clock, it looks at the previous
  slot and the next timer is armed for the slot after (`publication-schedule.js:164`;
  `docs/operations.md:412`). `PublishesPunctualSlots` excepts early timers.
- `stop()` and `start()` during a callback leave two chains and one `timerId`; the
  next `stop()` clears one of them (`publication-schedule.js:127`;
  `test/publication-schedule.test.js:275`). The run `worker` stops between callbacks.
- A process that dies inside `writeFile` leaves a file that makes every later read
  of the archive, and with it every later run, fail (`edition-store.js:31`;
  `docs/operations.md:511`).
- A local run that dies between writing its edition and saving the identity
  registry is never recorded: the next run returns the stored edition first
  (`publication-flow.js:161`). Editions still count right, as counts come from the
  archive as well.

*API*

- Two agents with different declared ids, one user agent and one address share a
  record, and the one that moves gets a second (`consumer-identity-service.js:194`;
  `docs/operations.md:625`).
- `NEWSLETTER_API_RATE_LIMIT_TRUST_PROXY` configures the limiter only; the default
  server's tracker does not trust the proxy, so that behind one clients are limited
  by their own address and recorded under the proxy's (`api.js:218`;
  `docs/operations.md:264`).

*Collection and curation*

- The gate weights the authority of a source on probation, but the score does not:
  the web adapter passes the unweighted authority, and merging two items replaces the
  weighted one (`web-discovery-source-adapter.js:203`, `dedupe.js:63`;
  `test/content-fetcher-core.test.js` expects the down-weighted score of a hand-made item).
- Adapters without social data report zeros, which count as observed and lower
  the average, and a duplicate with a weak signal may take a group below the gate.
- A missing `x-ratelimit-reset` is read as 0, so that the GitHub client retries at
  once (`github-source.js:190`).
- Abandoned adapters go on requesting, and the web adapter may save the registry it
  loaded before the deadline.
- A post that names one repository and links another joins their groups, although
  the two conflict (`dedupe.js:101`). Two groups may take over the same historical id,
  hence `DistinctItems` in `StorylineArchive`.
- A member of a group that has no canonical id of its own could find another item's
  history by its name alone. It does not, because `assignDeduplicationCluster`
  (`dedupe.js:168`) gives every member the identifiers of its group before the history is
  matched; `KnownItemsKeepTheirIds` fails without that.
- A listing that changes between two pages counts an item twice or loses it.
- The order of relevance computed in `pipeline.js:262` does not reach the edition.
- Without a source registry, items of too little authority are left out without
  an exclusion.

*Storylines*

- The storyline of an item that the pipeline named before the storyline was merged away
  stays the merged-away one: `applyStorylineMembership` gives the item the surviving id
  (`storyline.js:331`), but `createNormalizedItem` puts the ids the item has before it and
  takes the first (`core/schema.js:577`). Its position and metadata are the survivor's.
  `test/storyline.test.js:1598` speaks of coverage reassigned "onto the surviving
  storyline" (its item names no storyline); `docs/operations.md:898` of members "folded into the current
  active storyline". Readers then take the survivor's lifecycle and links for the
  merged-away storyline's, so `RebuildAgrees`, `ResponsesAgree` and the properties of merges
  speak of editions without such items (`Straight`).
- The store may refuse such an edition, since the item is no member of the record it
  names or stands elsewhere in it (`newsletter/schema.js:119`); so it may when items move
  between storylines, and when one repeats what a storyline without members has. The
  publication then throws after the collection and is not stored; a retry computes the
  same. `RefusalsExplained` says that there are no other causes.
- Two items of one edition that change places between the storylines A and B merge A into
  B and B into A: `reconcileStorylineRelationships` (`storyline.js:1085`) does not look at
  what the target was merged into. Each is then archived as superseded by the other, and
  the news of that edition is in no active storyline, though `docs/operations.md:898` says
  members of merged storylines are "folded into the current active storyline". A storyline whose
  items leave for two existing ones is a merged source of both and names only the
  last as its target. Neither can be told apart by a later edition, so `LineageStays`,
  `MergesStayEnding` and `NewsBecomesActive` speak of editions whose merges are apart
  (`MergesApart`), and of what such an edition does to links that agreed before it.
- The response of a merged-away storyline lists its target among its forks
  (`edition.js:784`; `docs/newsletter-json-api.md:159`).
- A repetition that is not retained as a member is listed by `/latest` and `/history`
  but not by `/storylines` and `/item`; a fork whose only item is one is never listed.
- An item in `/storylines` keeps the position of its edition while the members are
  sorted anew.

*Readers*

- An edition stored for an earlier slot than the consumer's checkpoint is skipped
  without a gap; `readers` therefore stores editions in the order of their slots, at
  once. A gap may be announced although nothing was missed.
- Whether an item is corroborated is judged by its last appearance.
- A reader of `/reference` and then `/history` may miss an item that expires between.
- A category without any active source is "uncovered", not "underrepresented", and
  gets no fallback (`reference-index.js:101`).
- Exclusion reads include the edition at the start of their window, the history does
  not; `filtered_by_curation_rule` (`exclusion-summary.js:10`) is never accepted as a
  filter; invalid filters are answered with 500.

*Source registry*

- Restoring a source without a target puts back the low-signal days from before its
  retirement, so that one missed cycle may retire it again although it was seen in between
  (`source-lifecycle.js:1885`); `LowSignalRetirementEarned` counts sightings since
  the last restore.
- A retirement ended by a mention (`source-lifecycle.js:397`) stays open in the
  audit's history; nothing reads it back.
- Operators' saves do not recompute `authorityScore`; a restored source keeps the old
  one until the next discovery.

## What is proved

`PublicationRunsProofs` proves for every number of handlers, items, slots and
every set of faults, from `RunsAssumption` (the types of the constants) and
`NoneAssumption` (`None` is neither an edition nor a slot):

| Theorem | Property | Strengthening it is inductive with |
| --- | --- | --- |
| `TypeCorrect` | `TypeOK` | `FlowHasEdition`: a handler past its publication has a stored edition. Without it the edition it records could be `None`. |
| `EditionsNeverChange` | `EditionsImmutable` | the same; `Publish` is the only writer and only inserts |
| `SlotLocked` | `SlotLock` | `HolderRow`: the row of a working handler is "running" — or "completed", when the reply of its own completion was lost and it is about to mark the row failed |
| `RowsNameStoredEditions` | `RunNamesStoredEdition` | `TypeCorrect`, and editions are kept |
| `PublishedRepliesDurable` | `PublishedReplyIsDurable` | `AbsentRowEmpty`: a row that does not exist names nothing; so a row that names an edition keeps naming one |
| `CountsAndRegistrySound` | `CountsNeverInflated` | `RegistryJustified` and `TrackedJustified`: what the registry, a handler's snapshot and its loaded counts say of an item is at most what the stored editions show |

`SlotLock` and the row: an insert succeeds only on an absent row, a retry only on
a failed one, and every holder's row is neither (`LockEntry`, `HolderRow`), so
nobody enters a slot that is held; a handler that leaves with the row "completed"
for "failed" is alone for the same reason.

`CountsNeverInflated`: the count an edition carries is one more than the larger of
two numbers, one from earlier editions and one from the registry. The first is
bounded by induction over the appearances (`EditionTrackOneOf`: the maximum is
taken at some earlier edition, whose count is bounded already, plus the editions
after it); the second by `RegistryJustified`, which survives the unversioned
load-merge-save because a stale snapshot only forgets. The proofs of a step have
one case per action; finite-set facts come from `FiniteSetTheorems`.

The second part of `PublicationRunsProofs` is for deployments that are *punctual* (`Punctual`):
`NEWSLETTER_FORCE_PUBLICATION` is not set and `Grace + 1 < SlotLength`, so a request
accepted within the grace period ends, a tick later at most, before the next slot.
That is what the deployment has (requests of 60 s, `vercel.json:8`, and a grace period
of 20 minutes in a day, `run-scheduled-publication.js:15`), and what the run
`scheduled` has.

| Theorem | Property | Strengthening it is inductive with |
| --- | --- | --- |
| `RowsNameOwnEditions` | `RunNamesOwnEdition` | `AllInTime`: a handler at work began in the window of the slot it locked at most a tick ago, and what it plans is that slot, although it reads the clock twice |
| `EditionCountsExact` | `CountsExact` | `NoneEarly`: no edition is later than now, so the one being stored comes after all others; `TrackedExact`: the counts a handler loaded are those of the archive, which only it can change while it holds the present slot |
| `RunsImplementArchive` | `ImplementsArchive` | both: a `Publish` that stores an edition is an `Append` of its slot with exact positions, every other step a stutter |

`CountsExact` needs, beyond `CountsNeverInflated`, that no count is too small: a count
may be too small only if an edition appeared after it was loaded, and the lock excludes
that only while slots and time agree. With forced publications they do not.

`EditionFilesProofs`, from `FilesAssumption` (`Absent` and `Torn` are no publishers
and no sets of slots), for every number of publishers and slots and any faults:

| Theorem | Property | Strengthening it is inductive with |
| --- | --- | --- |
| `FilesTypeCorrect` | the types | |
| `RecordsOnlyWritten` | `RecordedWasWritten` | `WrittenSoFar`: what a flow is about to record and what it read was written, also by others it overlaps; edition files are never removed (`EditionsStay`) |
| `RecordingsStay` | `RecordingsStand` | `TakingTurns`: while no two flows have overlapped, the one under way is alone, found no edition of its slot and has read every recording |
| `EditionsStand` | `PublishedEditionStands` | the same |

`PublicationSchedulerProofs`, from `SchedulerAssumption`, for every number of chains,
slot length and bound of the clock:

| Theorem | Property | Assumes | Strengthening it is inductive with |
| --- | --- | --- | --- |
| `SchedulerTypeCorrect` | the types | | the shape of a chain's record |
| `WritesOncePerSlot` | `PublishesOncePerSlot` | `StopsBetweenCallbacks` | `OneChain`: an active scheduler has exactly one timer or callback, `stop()` knows the timer, and a callback about to publish found no edition of its slot |
| `PassesNoSlot` | `PublishesPunctualSlots` | `Prompt`: also `MaxDuration < SlotLength` | `OnTrack`: the armed timer waits for the slot after the last one passed; a callback began with its slot, or one tick before the slot for which its timer was early |

Both assumptions are needed: a `stop()` and `start()` during a callback leaves two
chains, and a publication that outlives the next slot skips it. `worker.cfg` satisfies both.

`ApiServerProofs`, from `ApiAssumption` (the types of the constants, at least one
caller, finitely many requests in flight) and `TrustAssumption`, for every number of
requests, callers, proxies, limits and windows:

| Theorem | Property | Strengthening it is inductive with |
| --- | --- | --- |
| `ControlTypeCorrect` | the types of all but the records | |
| `TypeCorrect` | `TypeOK` | `Queueing`: the queue holds exactly the requests whose recording waits or is under way, each once, and only the first has loaded the file |
| `BurstsBounded` | `BurstBound` | `Paced`, per address: see below |
| `HistoryIsExact` | `HistoryExact` | `Queueing`, `FileExact` and `PendingExact`: see below |
| `ConsumersStayApart` | `DeclaredConsumersStayApart` | `KeptApart`, per record of the file and of a snapshot about to be saved: it belongs to at most one declared consumer that is alone, by its ids or by an address it was seen at; while it does without naming a declared consumer, it has no user agent; a record known by an address was seen there |

`Paced` says what the past leaves to the window an address has. An open window admitted
something when it opened, at most `Limit` since then, and fewer than `Limit` were admitted in
the `Window - 1` ticks before: the first request of the window before it, which filled the same
`Limit`, is too old to be among them. Once the window closed, fewer than `Limit` were
admitted in the last `Window` ticks, for the same reason. A span of `Window` ticks then holds
less than `Limit` before and at most `Limit` after the opening of a window. Pruning keeps
it, as it only forgets windows that have ended.

`FileExact` is a ledger. For each outcome the file counts at least the answered
requests and those about to be answered, and over both at most these and the lost ones.
`PendingExact` is the same with one more for the snapshot that the first of the queue
is about to save. That the snapshot is not stale is `Queueing`: nobody else wrote since
it was loaded. Sums over records and addresses are `SumFunction`; what a sum becomes
when one summand changes, one is added or two sets are joined are the lemmas
`SumSplit`, `SumPlusOne` and `SumUnion` of `FoldTheorems`. The sum is shown to be the size
of a set of pairs (`SumIsPileSize`), so that the theorems on cardinalities apply, which
need no induction here.

`Alone(id)` is part of the property, not of the theorem: two consumers that declare
themselves from one address do get one record (see above).

`ReadersProofs`, from `EditionReadersAssumption`, `ReadersAssumption`,
`ExclusionReportsAssumption` and `RefusalsAssumption`, for every number of items, days,
editions and crashes, every history window, every contents and every set of queries:

| Theorem | Property | Strengthening it is inductive with |
| --- | --- | --- |
| `NothingPassedSilently` | `NothingMissedSilently` | `ConsumerInv` |
| `ToldOnce` | `ToldOnceUnlessCrashed` | `ConsumerInv`: the checkpoint, and what a poll has in hand, hold of each item the version of its latest edition up to the checkpoint; and a review of an item was printed once per version that changed, and at most `crashes` times more |
| `DurableItemsReachable` | `DurableItemsStayInReach` | `ArchiveInv`: the count an edition gives an item is its position among the editions with the item |
| `ExclusionReads` | `ExclusionReadsAgree` | `DaysType`: the editions are stored at slots, and the day is a number |

Both invariants need to know what a fold over the editions of a period returns. It has a
closed form: after the review of a set of editions the state holds of each item the
version in the latest of them (`ReviewAllIs`), and the tracker's count of an item is
that of its last edition if the editions before it were counted right (`TrackedIs`).
Each is proved without induction over data: the fold is a function on
the subsets (`AgreeChronologically`), and of the sets where it would differ from the closed
form there would be a smallest one. The fallback of a scarce category is the first of a
finite set in the order of `compareReferenceItems`, which is shown to be total and
transitive (`PrecedesOrders`, `FirstPrecedes`).

The reads of exclusions are functions of the archive, so that for `ExclusionReads` the
invariant is small and the work is in the aggregations. Each of them splits the
exclusions that were found by a key and adds up what it counts in the parts; the parts of
a finite set add up to the whole, whatever the key (`PartsAddUp` of `FoldTheorems`, one
element at a time by `HoldsOneByOne`), so that the total by reason, by category, by both,
by phase and by edition is the number that was found. The summary stored with an
edition was made of exclusions without their publication time, the matching one of
exclusions with it; to put the time beside them is one to one, so that both count the same
(`SameSummary`). A query with a narrower window or more filters finds a subset.
`MinRecurringEditions` may be 1 in a query: then a blind spot may be of one edition, and
the property says of its first and last time only that they differ if the minimum is larger.

The assumptions on the constants are the code's: an item always has a version
(`version # None`), at least one source cluster, which is what the relaxed minimum of
`reference-index.js` asks for (`RelaxedClusters`), and a relevance score of at least that of the
index (`MinScore`), as the gate of the pipeline lets no other in; an edition lists an item
once, so that the order of names is strict (`Rank`). An item that was collected and is
not in the edition has an exclusion, finitely many, and every exclusion has the phase of its
reason (`RefusalsAssumption`); that the pipeline leaves one is `EveryItemAccounted`, checked in
the run `collection` and proved below (`ItemsAreAccounted`).

`SourceRegistryProofs`, from `LifecycleAssumption` (finitely many sources, positive
thresholds that fit their windows), `ExpertiseAssumption` (finitely many items, each with a
domain, a positive window and at least one tracked item) and `RegistryAssumption`, for every number of sources,
writers, items and days, every threshold and window and any faults:

| Theorem | Property | Assumes | Strengthening it is inductive with |
| --- | --- | --- | --- |
| `RegistryCorrect` | the invariant | | `RegistryInv`: `HistoryType`, `InTurn`, `RecordsSound` |
| `CoverageKept` | `RetirementKeepsCoverage` | `MinSources > 1` | `RegistryInv`; `Keeps`, category by category |
| `PromotionsEarned` | `PromotionEarned` | | `RegistryInv` |
| `LowSignalRetirementsEarned` | `LowSignalRetirementEarned` | | `RegistryInv` |
| `ExpertiseIsEarned` | `ExpertiseEarned` | | `RegistryInv` and `ExpertiseDeserved`: see below |

The properties themselves say "as long as the writers take turns" (`TakeTurns`).
`InTurn` is what that gives: at most one writer has a snapshot, and it equals the registry
still. So what is saved is made of the registry, not of an older one.

`RecordsSound` ties each record to the history of its source (`Sound`). In probation every
qualifying day had a qualifying score, is not before the probation began and has no
later day with lower scores only (`Qualified`); every low-signal day was missed, and the source
was seen after none of them; and the record that a retired source would be restored to
says the same of the days (`Justified`), as a restore brings old streaks back. The latter is why
`LowSignalRetirementEarned` speaks of the sightings since the last restore: what is kept of a
retirement's low-signal days may be older than a sighting.

A save goes over the sources one by one, in any order, and every decision reads what
the earlier ones left: two sources with the same category, each retirable alone,
may not both go. `KeepsUnblocked` says why the guard is enough for one: at a minimum of two
or more a retirement is blocked if it is of the category's only active source. The
fold over the order is taken apart place by place (`Turns`, `OneMoreTurn`,
`TurnsTaken`): after the turns of any places each of their sources had its one turn, on the record
it had before the fold, and every category that had an active source has one.
`HoldsChronologically` of `FoldTheorems` carries that to all places. The same lemma serves
the adapter's outcomes and the evaluation of unseen sources.

`ExpertiseDeserved` ties what is tracked of an item to the days on which the item scored
high (`Lasting`): its first day is one of them, it is retained exactly if a later one is
among them, its occurrences lie between its first day and the present one. The second is
inductive only with the third: `recordSourceExpertiseObservation` does not look at the days of
high scores but counts occurrences, and two of them mean a later day only because
none is before the first (`AgainLasting`). A run observes items one by one and trims what is
tracked after each; `RunLasting` follows the fold item by item (`ObservedSteps`), with the
days of the items observed so far (`AfterFirst`), and as every item has its place in the order
(`ItemsInOrder`) it ends with the days after the run, in whatever order. Trimming and the
selection of a domain keep the entries (`ThoseAre`, `TrimmedAre`), the end of a run leaves
none waiting beyond the window (`FinalizedAre`), and the sum of the points, and its rounded
average, can only have the sign of a summand's (`AdjustmentSign`, `QuotientSign`). The points
that are stored are those of an earlier save; they stay earned as days are only added.

`MinSources > 1` is needed: `findRetirementBlockedCategories` (`source-coverage.js:61`)
keeps the only source of a category if one is less than the minimum, so at a minimum of one,
which tests set to let the last source go, it keeps none. The default is 2 (`config.js:18`).

`CollectionProofs`, from `SourceFetchAssumption`, for every number of adapters, jobs and
records, every listing, page size and limit, and any refusals, failures and deadlines; the
other two theorems also from `CollectionAssumption`, `CurationAssumption` and
`ItemIdentityAssumption` (every record becomes an item of known addresses, a name has finitely
many tokens, a canonical id is in the order of ids; metrics, authority and mentions are
natural numbers), for any set of facts, names and links:

| Theorem | Property | Strengthening it is inductive with |
| --- | --- | --- |
| `CollectionWhole` | `WholeOrNothing` | `CollectionInv`: the loops of an adapter are those of its jobs, in order (`InOrder`); a loop that is not done has read exactly the full pages before the one it asks for, one that is done its share of the listing, unless its adapter fails (`Reads`) |
| `GroupsAreTheComponents` | `GroupsAreComponents` | `CuratedInv`: what is curated is the aggregate of items that records became, for some gate and some history; over `CollectionInv`, which says that the batches have such items |
| `ItemsAreAccounted` | `EveryItemAccounted` | `CuratedInv` and `CollectionInv` |

What an adapter answers is then a count. The loops leave the records of their jobs, an adapter
keeps of each loop what is relevant (`Kept`), joins the loops (`Joined`) and the fetch merges what is the
same record (`Mention`): three folds, of which it is shown, step by step (`FoldRuns`), how often a
record is in what they return (`KeptCounts`, `JoinedCounts`, `MergedCounts`). What the
listings have of a record is a fold as well, hence a sum over the jobs (`ListedIsSum`), and the two
sums agree summand by summand (`SumPointwise`). A web source may give its record or
not, so there the count is a bound.

The groups come from a fold over the items, an item at a time (`GroupSteps`). What holds after
each of them is `Separate`: every group is linked, that is, no part of it is without an
identity in common with the rest (`Linked`), and no two groups have one in common. An item that
matches some groups makes them one, and a linked one, as each had an item that it matches
(`LinkedByOne`, `Together`); the others stay, and it shares nothing with them (`MatchingJoin`,
`JoinKeeps`). That needs `itemsShareIdentity` to hold both ways (`SharesBothWays`), as the code
asks it of the candidate and the item in that order only; similarity is the one rule of which it is not
plain, as it takes the overlap of two names, and there it needs them finite. The gate
and the id, name and identifiers that a group takes over change neither records nor what identifies them
(`AllowedIs`, `RenamedIs`, `SameRecords`), so the groups that are published are those.
`Join` and the filters are folds of their own (`Picked`, `LastFirst`) instead of `SelectSeq` and
`FlattenSeq`, which are recursive and say nothing to the provers.

The items of a group that is curated have one id (`GroupedAre`), so the gates that drop an item
name the one that its whole group would have been published under. The merge of a group has the
greatest authority and of every metric the best value that an item of it gives, the least age
and the greatest of the others (`MergedFrom`), found step by step (`MergeSteps`). There is one such merge (`MergedUnique`), and what it is does not mention
the order of the items. The mentions are a sum, which is the same over a permutation
(`SumPermuted`, `MentionsInAnyOrder`). So the items in any order consolidate to what has the
same score (`ScoreInAnyOrder`). The numbers must be ordered for this; that none is negative is what the
scoring makes sure of (`Math.max(0, …)`, `relevance-scoring.js:415`, `:432`, `:647`).

Only model-checked:

- Liveness (`EveryRequestAnswered`, `EveryRunSettles`, `EveryRequestEnds`, `CallbackRearms`,
  that a collection ends): outside the prover.
- `KnownItemsKeepTheirIds`: it holds for the archives of the run and not for every
  set of published items. Members of a group are matched with the identifiers of the
  group beside their own signals, one of a kind. What was published under an id of the group goes before what has the
  same canonical id (`findDirectMatch`, `item-resolution.js:148`), and an archive with a record id in common and
  other canonical ids would make a group take over that one's id.
- The properties of `StorylineArchive`: they speak of what nested folds over storylines
  and editions compute, whose closed forms are as long as the folds.

<a id="plan"></a>
## What is not modelled, and the plan

Order of work, most important behaviour first. Steps 1–8 are done.

1. `EditionArchive`, `PublicationRuns` with its proofs.
2. `PublicationScheduler`.
3. `EditionFiles`.
4. `ConsumerIdentities`, `ApiServer`.
5. `SourceLifecycle`, `SourceExpertise`, `SourceRegistry`.
6. `SourceFetch`, `ItemIdentity`, `RelevanceScoring`, `Curation`, `Collection`.
7. `Storylines`, `StorylineResponses`, `StorylineArchive`.
8. `EditionReaders`, `ExclusionReports`, `Readers`.
9. *Hosted API*: the SQL limiter and the Supabase consumer tracker, whose
   handlers share tables instead of a process.
10. *Composition*: `Collection` and `StorylineArchive` in place of the stable items
    of `PublicationRuns`. Each is checked against the interface the other
    offers (fixed history there, any candidates here); together they are beyond TLC.
11. *Source registry*: overlapping writers. Every save replaces the snapshot, so no
    property of the lifecycle survives them; a version or a lock in the repository
    would have to come first.

Not modelled:

- Slot times on days of a daylight saving change: the instants come from `Intl`'s
  timezone database, which the models do not have. Slots are equally long here.
- A change of `NEWSLETTER_BASE_TIMEZONE` between editions.
- Link extraction, discovery scores, text similarity below tokens, sentiment, the
  score history document, HTML, JSON and OpenAPI formats, the classifier's decision
  (any decision is allowed), validation of configuration, construction of the
  Supabase client: data transformations without state or order.
- The Ruby prototype `lib/agent_newsletter.rb`, which the service does not load.

Every module defines `TypeOK`; the run `scheduled` checks that of `PublicationRuns`,
the theorems named `...TypeCorrect` prove those of the modules they are about.
