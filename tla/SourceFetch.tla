----------------------------- MODULE SourceFetch -----------------------------
(***************************************************************************)
(* One round of ContentFetcherCore: every adapter fetches at once, each in *)
(* its own loop of pages and of retries after a rate limit, and has until  *)
(* the deadline to answer.  An adapter gives all it read or nothing; the   *)
(* loops of an adapter that was given up go on, and what they read is lost.*)
(*                                                                         *)
(* A job is one such loop: a search term or the trending page of GitHub,   *)
(* the feed of arXiv, a subreddit, the search of X, an approved web source.*)
(* A source answers when it likes, or never.                               *)
(***************************************************************************)
EXTENDS Naturals, SequencesExt

CONSTANTS
  Records,       \* what the sources can list
  Relevant,      \* the records that an adapter keeps: in its window and on its subject
  AdapterOrder,  \* the adapters in the order of the registry
  JobsOf,        \* the jobs of an adapter, in the order it joins what they read
  Prerequisites, \* the jobs that must be done before a job is started
  Listings,      \* the listings that the sources can have: functions from jobs
  Limit,         \* how many records a job reads at most
  PageSize,      \* how many records a page has
  MaxRetries,    \* how often a job asks again after a rate limit
  Waits,         \* how long a rate limited source tells a job to wait
  MaxFaults,     \* bound on the requests that are refused or fail
  Deadline,      \* adapterTimeoutMs
  Horizon,       \* bound on the clock
  None

Adapters == Range(AdapterOrder)
Jobs == UNION {Range(JobsOf[a]) : a \in Adapters}

ASSUME SourceFetchAssumption ==
  /\ Relevant \subseteq Records
  /\ AdapterOrder \in Seq(Adapters)
  /\ \A a \in Adapters : JobsOf[a] \in Seq(Jobs)
  /\ \A a, b \in Adapters : a # b => Range(JobsOf[a]) \cap Range(JobsOf[b]) = {}
  /\ \A j \in Jobs : Prerequisites[j] \subseteq Jobs
  /\ \A j \in Jobs : {Limit[j], PageSize[j]} \subseteq Nat \ {0} /\ PageSize[j] <= Limit[j] /\ MaxRetries[j] \in Nat
  /\ \A l \in Listings : l \in [Jobs -> Seq(Records)]
  /\ Waits \subseteq Nat
  /\ {MaxFaults, Deadline, Horizon} \subseteq Nat /\ Deadline <= Horizon
  /\ None \notin Jobs

Web == "web-discovery"
GitHub == "github"

VARIABLES
  clock,    \* the time since the round began
  listing,  \* what each source lists
  jobs,     \* the loops: state, page, attempt, time to wake and records read
  faults,   \* the refused and failed requests so far
  batches,  \* per adapter: open, succeeded with its items, or failed
  approved, \* the approved web sources of the registry, by job
  targets   \* the web sources that the web adapter read from the registry

fetchVars == <<clock, listing, jobs, faults, batches, approved, targets>>

AdapterOf(j) == CHOOSE a \in Adapters : j \in Range(JobsOf[a])
Open == [status |-> "open", items |-> <<>>]
Failed == [status |-> "failed", items |-> <<>>]
Succeeded(items) == [status |-> "succeeded", items |-> items]
Idle == [state |-> "idle", page |-> 1, attempt |-> 0, wake |-> 0, got |-> <<>>]
Asking == [Idle EXCEPT !.state = "asking"]

FetchInit ==
  /\ clock = 0 /\ faults = 0
  /\ listing \in Listings
  /\ jobs = [j \in Jobs |-> IF AdapterOf(j) # Web /\ Prerequisites[j] = {} THEN Asking ELSE Idle]
  /\ batches = [a \in Adapters |-> Open]
  /\ approved = IF Web \in Adapters THEN Range(JobsOf[Web]) ELSE {}
  /\ targets = None

-----------------------------------------------------------------------------
(* What an adapter makes of the records of its jobs.                        *)

\* The records of a page, of which a job takes what is missing to its limit.
PageOf(j, page) ==
  LET first == (page - 1) * PageSize[j] + 1
      last == page * PageSize[j]
      bound == IF last < Limit[j] THEN last ELSE Limit[j]
  IN SubSeq(listing[j], first, IF bound < Len(listing[j]) THEN bound ELSE Len(listing[j]))

\* Mutant: the page that is next counts as read.
LastPageTooEarly(j, page, records, total) ==
  \/ Len(records) < PageSize[j]
  \/ page * PageSize[j] >= Limit[j]
  \/ total > 0 /\ (page + 1) * PageSize[j] >= total

\* A job stops after a short page, at its limit, or at the total that the source
\* names; a total of zero says nothing.
LastPage(j, page, records, total) ==
  \/ Len(records) < PageSize[j]
  \/ page * PageSize[j] >= Limit[j]
  \/ total > 0 /\ page * PageSize[j] >= total

Entry(r, n) == [record |-> r, times |-> n]

\* A record that has an item is mentioned once more.
Mention(items, r) ==
  IF \E n \in DOMAIN items : items[n].record = r
  THEN [n \in DOMAIN items |-> IF items[n].record = r THEN Entry(r, items[n].times + 1) ELSE items[n]]
  ELSE Append(items, Entry(r, 1))

\* mergeRecords of GitHub: a repository that several searches list is one item
\* that was mentioned as often.
MergeRecords(records) == FoldLeft(Mention, <<>>, records)

\* What the jobs of an adapter read, joined in the order of its jobs.
Joined(a, js) == FoldLeft(LAMBDA read, j : read \o js[j].got, <<>>, JobsOf[a])

Kept(read) ==
  FoldLeft(LAMBDA records, r : IF r \in Relevant THEN Append(records, r) ELSE records, <<>>, read)

ItemsOf(a, js) ==
  LET records == Kept(Joined(a, js))
  IN IF a = GitHub THEN MergeRecords(records)
     ELSE [n \in DOMAIN records |-> Entry(records[n], 1)]

Ended(js, j) == js[j].state \in {"done", "failed"}

\* Jobs that waited for the last of others start with it.
Started(js) ==
  [j \in Jobs |->
     IF /\ js[j].state = "idle" /\ Prerequisites[j] # {}
        /\ \A p \in Prerequisites[j] : js[p].state = "done"
     THEN Asking ELSE js[j]]

\* What becomes of the batch of an adapter when the last of its jobs is done.
Collected(a, js) ==
  IF batches[a] = Open /\ a # Web /\ \A j \in Range(JobsOf[a]) : js[j].state = "done"
  THEN [batches EXCEPT ![a] = Succeeded(ItemsOf(a, js))]
  ELSE batches

\* The first failure of a job fails its adapter; a web source fails alone.
Rejected(a) ==
  IF batches[a] = Open /\ a # Web THEN [batches EXCEPT ![a] = Failed] ELSE batches

-----------------------------------------------------------------------------
Answer(j) ==
  /\ jobs[j].state = "asking"
  /\ \E total \in IF AdapterOf(j) = GitHub THEN {0, Len(listing[j])} ELSE {0} :
       LET records == PageOf(j, jobs[j].page)
           read == [jobs[j] EXCEPT !.got = @ \o records]
           js == Started([jobs EXCEPT ![j] =
                   IF LastPage(j, @.page, records, total)
                   THEN [read EXCEPT !.state = "done"]
                   ELSE [read EXCEPT !.page = @ + 1, !.attempt = 0]])
       IN /\ jobs' = js
          /\ batches' = Collected(AdapterOf(j), js)
  /\ UNCHANGED <<clock, listing, faults, approved, targets>>

GiveUp(j) ==
  /\ jobs' = [jobs EXCEPT ![j].state = "failed"]
  /\ batches' = Rejected(AdapterOf(j))

\* A rate limited request sleeps as long as the source says and asks again, as
\* often as the configuration allows.
Limited(j) ==
  /\ jobs[j].state = "asking" /\ faults < MaxFaults
  /\ faults' = faults + 1
  /\ IF AdapterOf(j) # Web /\ jobs[j].attempt < MaxRetries[j]
     THEN /\ \E wait \in Waits :
               jobs' = [jobs EXCEPT ![j].state = "sleeping", ![j].wake = clock + wait]
          /\ UNCHANGED batches
     ELSE GiveUp(j)
  /\ UNCHANGED <<clock, listing, approved, targets>>

Wake(j) ==
  /\ jobs[j].state = "sleeping" /\ clock >= jobs[j].wake
  /\ jobs' = [jobs EXCEPT ![j].state = "asking", ![j].attempt = @ + 1]
  /\ UNCHANGED <<clock, listing, faults, batches, approved, targets>>

Fail(j) ==
  /\ jobs[j].state = "asking" /\ faults < MaxFaults
  /\ faults' = faults + 1
  /\ GiveUp(j)
  /\ UNCHANGED <<clock, listing, approved, targets>>

-----------------------------------------------------------------------------
(* The web adapter reads its sources from the registry, asks each of them,  *)
(* and saves the registry it had read before it answers.                    *)

LoadTargets ==
  /\ Web \in Adapters /\ targets = None
  /\ targets' = approved
  /\ jobs' = [j \in Jobs |-> IF j \in approved THEN Asking ELSE jobs[j]]
  /\ batches' = IF approved = {} /\ batches[Web] = Open
                THEN [batches EXCEPT ![Web] = Succeeded(<<>>)] ELSE batches
  /\ UNCHANGED <<clock, listing, faults, approved>>

\* The save also retires some of the sources that failed once too often.
SaveTargets ==
  /\ Web \in Adapters /\ targets \notin {None, {}}
  /\ \A j \in targets : Ended(jobs, j)
  /\ \E retired \in SUBSET {j \in targets : jobs[j].state = "failed"} : approved' = targets \ retired
  /\ targets' = {}
  /\ batches' = IF batches[Web] = Open
                THEN [batches EXCEPT ![Web] = Succeeded(ItemsOf(Web, jobs))] ELSE batches
  /\ UNCHANGED <<clock, listing, jobs, faults>>

\* The discovery worker or an operator retires a source meanwhile.
Retire(j) ==
  /\ j \in approved
  /\ approved' = approved \ {j}
  /\ UNCHANGED <<clock, listing, jobs, faults, batches, targets>>

-----------------------------------------------------------------------------
\* Mutant: only an adapter none of whose jobs sleeps is given up.
TimeOutUnlessRetrying(a) ==
  /\ batches[a] = Open /\ clock >= Deadline
  /\ \A j \in Range(JobsOf[a]) : jobs[j].state # "sleeping"
  /\ batches' = [batches EXCEPT ![a] = Failed]
  /\ UNCHANGED <<clock, listing, jobs, faults, approved, targets>>

\* The timer of an adapter that has not answered in time.
TimeOut(a) ==
  /\ batches[a] = Open /\ clock >= Deadline
  /\ batches' = [batches EXCEPT ![a] = Failed]
  /\ UNCHANGED <<clock, listing, jobs, faults, approved, targets>>

Tick ==
  /\ clock < Horizon
  /\ clock' = clock + 1
  /\ UNCHANGED <<listing, jobs, faults, batches, approved, targets>>

FetchNext ==
  \/ \E j \in Jobs : Answer(j) \/ Limited(j) \/ Wake(j) \/ Fail(j) \/ Retire(j)
  \/ LoadTargets \/ SaveTargets
  \/ \E a \in Adapters : TimeOut(a)
  \/ Tick

Settled == \A a \in Adapters : batches[a] # Open
=============================================================================
