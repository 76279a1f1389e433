------------------------------ MODULE Readers ------------------------------
(***************************************************************************)
(* A publisher that publishes an edition a day and a consumer that polls:  *)
(* it reads its checkpoint file, asks for the latest edition and then for  *)
(* the history, prints what is new or changed since the checkpoint and     *)
(* replaces the file.  Days pass and editions appear between any two of    *)
(* these steps, and the consumer may stop after each.                      *)
(***************************************************************************)
EXTENDS ExclusionReports

CONSTANTS
  Contents,    \* what an edition may say of an item: its version, clusters and score
  Refusals,    \* why an edition of a day leaves an item out: what is excluded
  Queries,     \* what readers ask of the exclusions
  Matching,    \* the items and versions that match the consumer's task
  Horizon,     \* bound on the days
  MaxDelay,    \* bound on how late an edition is stored (days)
  MaxEditions, \* bound on the editions
  MaxItems,    \* bound on the items of all editions
  MaxCrashes   \* bound on the crashes between printing and the checkpoint

ASSUME ReadersAssumption ==
  /\ \A i \in Items : \A c \in Contents[i] :
       /\ c.version # None /\ {c.score, c.clusters} \subseteq Nat
       /\ c.score >= MinScore /\ c.clusters >= RelaxedClusters
  /\ {Horizon, MaxDelay, MaxEditions, MaxItems, MaxCrashes} \subseteq Nat

Slots == 1 .. Horizon

\* An item that is left out has an exclusion; None is nothing that an edition keeps.
ASSUME RefusalsAssumption ==
  /\ \A i \in Items, s \in Slots :
       /\ IsFiniteSet(Refusals[i][s]) /\ Refusals[i][s] # {}
       /\ \A e \in Refusals[i][s] :
            e = CreateExclusion(e.record, i, e.category, e.reason, e.kinds)
  /\ \A s \in Slots : \A exclusions \in SUBSET UNION {Refusals[i][s] : i \in Items} :
       [exclusions |-> exclusions, summary |-> Summary(exclusions)] # None

VARIABLES
  now,      \* the day
  archive,  \* the stored editions
  file,     \* the checkpoint file: last edition processed, versions of the items seen
  poll,     \* the consumer's run: its phase and what it has read so far
  told,     \* how often a review of an item of an edition was printed
  read,     \* the editions behind the checkpoint
  missed,   \* editions passed over without an announced gap
  crashes

vars == <<now, archive, file, poll, told, read, missed, crashes>>

Empty == [last |-> 0, items |-> [i \in Items |-> None]]

Idle == [phase |-> "idle"]

Init ==
  /\ now = 1
  /\ archive = [s \in Slots |-> None]
  /\ file = Empty
  /\ poll = Idle
  /\ told = [x \in Items \X Slots |-> 0]
  /\ read = {} /\ missed = {} /\ crashes = 0

Tick ==
  /\ now < Horizon
  /\ now' = now + 1
  /\ UNCHANGED <<archive, file, poll, told, read, missed, crashes>>

ItemsPublished ==
  MapThenSumSet(LAMBDA i : Cardinality(AppearancesIn(archive, i, Published(archive, now))), Items)

Entry(content, count) ==
  [version |-> content.version, clusters |-> content.clusters, score |-> content.score,
   count |-> count]

\* The edition of a day, maybe a little late: editions are stored in the order of
\* their days, and an item counts the editions that have it.
Publish ==
  /\ Cardinality(Published(archive, now)) < MaxEditions
  /\ \E s \in Slots, edition \in [Items -> UNION {Contents[i] \cup {None} : i \in Items}] :
       /\ s <= now /\ s >= now - MaxDelay
       /\ \A t \in Published(archive, now) : t < s
       /\ \A i \in Items : edition[i] \in Contents[i] \cup {None}
       /\ ItemsPublished + Cardinality({i \in Items : edition[i] # None}) <= MaxItems
       /\ \E counts \in {Tracked(archive, s)} :
            archive' = [archive EXCEPT ![s] =
              [i \in Items |-> IF edition[i] = None THEN None
                               ELSE Entry(edition[i], counts[i] + 1)]]
  /\ UNCHANGED <<now, file, poll, told, read, missed, crashes>>

(***************************************************************************)
(* The consumer.                                                           *)
(***************************************************************************)

Start ==
  /\ poll.phase = "idle"
  /\ poll' = [phase |-> "latest", state |-> file]
  /\ UNCHANGED <<now, archive, file, told, read, missed, crashes>>

\* Without an edition /latest answers 404 and the run ends.
GetLatest ==
  /\ poll.phase = "latest"
  /\ poll' = IF Latest(archive, now) = None THEN Idle
             ELSE [phase |-> "history", state |-> poll.state, latest |-> Latest(archive, now)]
  /\ UNCHANGED <<now, archive, file, told, read, missed, crashes>>

\* Mutant: the oldest edition is that of both answers.
GapOfBoth(last, history, latest) == last > 0 /\ last < Min(history \cup {latest})

Gap(last, history, latest) == last > 0 /\ (history = {} \/ last < Min(history))

\* reviewEditions for one edition: what it tells of each item, and the state after it.
Review(s, acc) ==
  LET edition == archive[s]
      present == {i \in Items : edition[i] # None}
  IN [state |-> [last |-> s,
                 items |-> [i \in Items |-> IF i \in present THEN edition[i].version
                                            ELSE acc.state.items[i]]],
      reviews |-> acc.reviews \cup
        {<<i, s>> : i \in {j \in present : /\ acc.state.items[j] # edition[j].version
                                           /\ <<j, edition[j].version>> \in Matching}}]

\* Mutant: editions are reviewed from the newest on.
ReviewAllNewestFirst(state, S) ==
  MapThenFoldSet(Review, [state |-> state, reviews |-> {}], LAMBDA s : s, LAMBDA T : Min(T), S)

ReviewAll(state, S) == Chronologically(Review, [state |-> state, reviews |-> {}], S)

\* The history arrives, and what is new in it or in the latest edition is printed.
GetHistory ==
  /\ poll.phase = "history"
  /\ \E history \in {History(archive, now)} :
       LET fresh == {s \in history \cup {poll.latest} : s > poll.state.last}
           result == ReviewAll(poll.state, fresh)
           passed == {s \in Published(archive, now) : s > poll.state.last /\ s < result.state.last}
       IN /\ told' = [x \in DOMAIN told |-> told[x] + IF x \in result.reviews THEN 1 ELSE 0]
          /\ missed' = IF poll.state.last = 0 \/ Gap(poll.state.last, history, poll.latest)
                       THEN missed ELSE missed \cup (passed \ fresh)
          /\ poll' = [phase |-> "save", state |-> result.state, fresh |-> fresh]
  /\ UNCHANGED <<now, archive, file, read, crashes>>

\* The new state is written to another file, which then takes the checkpoint's place:
\* a reader of the checkpoint sees the old state or the new one.
Save ==
  /\ poll.phase = "save"
  /\ file' = poll.state
  /\ read' = read \cup poll.fresh
  /\ poll' = Idle
  /\ UNCHANGED <<now, archive, told, missed, crashes>>

\* A request fails or the consumer is stopped: the checkpoint stays what it was.
Fail ==
  /\ poll.phase \in {"latest", "history"}
  /\ poll' = Idle
  /\ UNCHANGED <<now, archive, file, told, read, missed, crashes>>

Crash ==
  /\ poll.phase = "save" /\ crashes < MaxCrashes
  /\ crashes' = crashes + 1
  /\ poll' = Idle
  /\ UNCHANGED <<now, archive, file, told, read, missed>>

Next ==
  \/ Tick \/ Publish
  \/ Start \/ GetLatest \/ GetHistory \/ Save \/ Fail \/ Crash

Spec == Init /\ [][Next]_vars

\* What the stored editions keep of the items they leave out.
Log ==
  [s \in Slots |->
     IF archive[s] = None THEN None
     ELSE LET exclusions == UNION {Refusals[i][s] : i \in {j \in Items : archive[s][j] = None}}
          IN [exclusions |-> exclusions, summary |-> Summary(exclusions)]]

-----------------------------------------------------------------------------
(***************************************************************************)
(* Properties.                                                             *)
(***************************************************************************)

\* The counts the publications gave an item, the /item read, the /history read and
\* the /reference read agree at every moment: an item whose lifecycle is long enough
\* and whose last edition corroborates it is in exactly one of history and index, and
\* a scarce category that had a persistent item is not absent from both.
DurableItemsStayInReach ==
  LET recent == {i \in Items : AppearancesIn(archive, i, History(archive, now)) # {}} IN
  \A active \in [Categories -> 0 .. MinActiveSources] :
    LET index == ReferenceItems(archive, now, Underrepresented(active))
        durable == {i \in Items :
                      /\ Cardinality(AppearancesIn(archive, i, Published(archive, now))) >= MinEditions
                      /\ Lifecycle(archive, i, now).count >= MinEditions}
        lastly(i) == LastOf(archive, i, now)
    IN /\ index \cap recent = {}
       /\ index \subseteq durable
       /\ {i \in durable : lastly(i).clusters >= MinClusters} \subseteq index \cup recent
       /\ \A i \in durable \ recent :
            active[Category[i]] \in 1 .. MinActiveSources - 1 =>
              \E j \in index : Category[j] = Category[i]

\* The reads of the exclusions agree with each other, with the editions and with the
\* history: what the aggregations, the stored and the matching summaries count is what
\* was found; each item of each edition of the history is among what is published or
\* excluded; an item recurs only if as many editions left it out; and a narrower
\* question has no recurring item that the wider one has not.  (They read nothing of
\* the consumer: it is enough to ask before its first checkpoint.)
ExclusionReadsAgree ==
  poll = Idle /\ file = Empty =>
  LET all == Report(Log, Unfiltered, now) IN
  /\ History(archive, now) \subseteq all.analytics.scanned
  /\ all.analytics.scanned \ History(archive, now) \subseteq {now - Window}
  /\ \A s \in History(archive, now), i \in Items :
       (archive[s][i] = None) <=> \E e \in all.analytics.found : e.at = s /\ e.item = i
  /\ \A s \in DOMAIN all.editions : all.editions[s].stored = all.editions[s].matching
  /\ \A q \in {x \in Queries : Answerable(x, now)} :
       LET r == Report(Log, q, now)
           a == AnalyticsAnswer(r.analytics)
           brief == SummaryAnswer(r.analytics)
           total == a.totals.exclusions
           recurring == DOMAIN a.recurringItems
       IN /\ ReportAnswer(r).summary = brief.summary
          /\ Consistent(brief.summary) /\ brief.summary.total = total
          /\ brief.groups = Cardinality(DOMAIN a.both)
          /\ brief.matched = Cardinality(DOMAIN a.editions)
          /\ \A s \in DOMAIN r.editions : Consistent(r.editions[s].matching)
          /\ total = TotalOf([s \in DOMAIN r.editions |-> r.editions[s].matching.total])
          /\ \A by \in {"reasons", "categories", "phases", "both", "editions"} :
               total = TotalOf([k \in DOMAIN a[by] |-> a[by][k].exclusions])
          /\ \A i \in recurring :
               Cardinality({s \in r.analytics.scanned : archive[s][i] = None}) >= MinRecurringEditions
          /\ q.from = None => recurring \subseteq DOMAIN all.analytics.recurringItems
          /\ MinRecurringEditions > 1 =>
               \A b \in DOMAIN a.blindSpots : a.both[b].first < a.both[b].last

\* A consumer that was told of no gap was given every edition published between its
\* checkpoint and the edition it processed last.
NothingMissedSilently == missed = {}

\* What the consumer owes its user of the editions behind the checkpoint: an item that
\* matches the task when it is new or another version than before.
Due(i, s) ==
  /\ s \in read /\ archive[s][i] # None
  /\ <<i, archive[s][i].version>> \in Matching
  /\ LET before == {t \in AppearancesIn(archive, i, read) : t < s}
     IN before = {} \/ archive[Max(before)][i].version # archive[s][i].version

\* Every change behind the checkpoint was printed, and printed once, but for a crash
\* between printing and the checkpoint; what was no change was not.
ToldOnceUnlessCrashed ==
  \A i \in Items, s \in Slots :
    /\ told[i, s] <= 1 + crashes
    /\ Due(i, s) => told[i, s] > 0
    /\ s \in read /\ ~Due(i, s) => told[i, s] <= crashes
=============================================================================
