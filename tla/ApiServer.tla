------------------------------- MODULE ApiServer -------------------------------
(***************************************************************************)
(* The local API process: createDefaultNewsletterApiServer.  Every request *)
(* passes the consumer tracker, the rate limiter and the route, and is     *)
(* recorded in consumer-identities.json before it is answered.             *)
(*                                                                         *)
(* recordRequest queues its load-merge-save behind pendingWrite.  A        *)
(* request that only wants to know its consumer waits for the writes that  *)
(* are queued when it arrives, and reads the file afterwards, when a later *)
(* write may have truncated it.  Such a read rejects outside the try block *)
(* of the routes; nothing catches it, and Node ends the process.           *)
(***************************************************************************)
EXTENDS ConsumerIdentities

CONSTANTS
  Handlers,     \* requests in flight at once
  Callers,      \* who may call: declared, agent, direct, forwardedFor, forwarded
  Limit,        \* maxRequests of the rate limiter
  Window,       \* its windowMs, in clock ticks
  Faults,       \* {"kill"} if the process may be killed
  MaxTime,      \* bound on the clock
  MaxRequests,  \* bound on the requests of a behaviour
  Torn          \* a file that does not parse

ASSUME ApiAssumption ==
  /\ Limit \in Nat \ {0}
  /\ Window \in Nat \ {0}
  /\ MaxTime \in Nat
  /\ MaxRequests \in Nat
  /\ Faults \subseteq {"kill"}
  /\ Callers # {}
  /\ IsFiniteSet(Handlers)

Ips == {RateLimitKey(req) : req \in Callers}
Closed == [count |-> 0, resetAt |-> 0]

VARIABLES
  now,          \* the clock of the process
  up,           \* the process is running
  file,         \* consumer-identities.json: its consumers, or Torn
  windows,      \* the rate limiter's store, by client address
  nextPruneAt,  \* when the rate limiter cleans its store again
  queue,        \* the handlers whose recordings pendingWrite chains
  pc, caller,   \* per handler: where it is and whose request it serves
  ahead,        \* per handler: the recordings queued when it arrived
  limited,      \* per handler: it was throttled
  pending,      \* per handler: the snapshot it is about to save
  answered,     \* history: answered requests, throttled or not
  lost,         \* history: requests that were never answered
  admitted      \* history: requests let through since the start, by IP and time

limiter == <<windows, nextPruneAt>>
requests == <<pc, caller, ahead, limited, pending>>
history == <<answered, lost, admitted>>
vars == <<now, up, file, limiter, queue, requests, history>>

InFlight == {h \in Handlers : pc[h] # "idle"}
Goto(h, label) == pc' = [pc EXCEPT ![h] = label]

Declared == {req.declared : req \in Callers} \ {None}
NotAdmitted == [ip \in Ips |-> [t \in 0 .. MaxTime |-> 0]]
Unlimited == [h \in Handlers |-> FALSE]
Unused == [h \in Handlers |-> {}]

Init ==
  /\ now = 0
  /\ up = TRUE
  /\ file = {}
  /\ windows = [ip \in Ips |-> Closed]
  /\ nextPruneAt = 0
  /\ queue = <<>>
  /\ pc = [h \in Handlers |-> "idle"]
  /\ caller \in [Handlers -> {CHOOSE req \in Callers : TRUE}]
  /\ ahead = Unused
  /\ limited = Unlimited
  /\ pending = Unused
  /\ answered = [successful |-> 0, throttled |-> 0]
  /\ lost = 0
  /\ admitted = NotAdmitted

Tick ==
  /\ now < MaxTime
  /\ now' = now + 1
  /\ UNCHANGED <<up, file, limiter, queue, requests, history>>

\* ConsumerIdentityRepository.load accepts the file.
Readable == file # Torn /\ \A c \in file : Loadable(c)

\* The process ends: requests in flight are lost, the file stays as it is.
Exit ==
  /\ up' = FALSE
  /\ lost' = lost + Cardinality(InFlight)
  /\ pc' = [h \in Handlers |-> "idle"]
  /\ queue' = <<>>
  /\ ahead' = Unused
  /\ limited' = Unlimited
  /\ pending' = Unused
  /\ UNCHANGED <<now, file, limiter, caller, answered, admitted>>

Killed == "kill" \in Faults /\ up /\ InFlight # {} /\ Exit

\* The rate limiter's store starts empty again.
Restart ==
  /\ ~up
  /\ up' = TRUE
  /\ windows' = [ip \in Ips |-> Closed]
  /\ nextPruneAt' = 0
  /\ admitted' = NotAdmitted
  /\ UNCHANGED <<now, file, queue, requests, answered, lost>>

\* resolveRequest up to "await this.pendingWrite".
Arrive(h) ==
  /\ up /\ pc[h] = "idle"
  /\ answered.successful + answered.throttled + lost + Cardinality(InFlight) < MaxRequests
  /\ \E req \in Callers : caller' = [caller EXCEPT ![h] = req]
  /\ ahead' = [ahead EXCEPT ![h] = ToSet(queue)]
  /\ Goto(h, "resolve")
  /\ UNCHANGED <<now, up, file, limiter, queue, limited, pending, history>>

-----------------------------------------------------------------------------
(* createIpRateLimiter.                                                    *)

\* isActiveRecord
Active(window) == window.resetAt > now

\* Mutant: cleaning the store forgets windows that are still open.
PrunedEager ==
  IF now >= nextPruneAt THEN [ip \in Ips |-> Closed] ELSE windows

\* pruneExpiredEntries, once per window.
Pruned ==
  [ip \in Ips |-> IF now >= nextPruneAt /\ ~Active(windows[ip]) THEN Closed ELSE windows[ip]]

\* readRateLimitRecord and the count of this request.
Counted(window) ==
  IF Active(window) THEN [window EXCEPT !.count = @ + 1]
  ELSE [count |-> 1, resetAt |-> now + Window]

RateLimit(h) ==
  LET ip == RateLimitKey(caller[h])
      window == Counted(Pruned[ip])
      over == window.count > Limit
  IN /\ windows' = [Pruned EXCEPT ![ip] = window]
     /\ nextPruneAt' = IF now >= nextPruneAt THEN now + Window ELSE nextPruneAt
     /\ limited' = [limited EXCEPT ![h] = over]
     /\ admitted' = IF over THEN admitted ELSE [admitted EXCEPT ![ip][now] = @ + 1]

\* The rest of resolveRequest, followed at once by the rate limiter.  The route
\* is skipped by a throttled request, which queues its recording at once.
Resolve(h) ==
  /\ pc[h] = "resolve" /\ ahead[h] \cap ToSet(queue) = {}
  /\ \/ ~Readable /\ Exit
     \/ /\ Readable
        /\ RateLimit(h)
        /\ IF limited'[h] THEN Goto(h, "recordLoad") /\ queue' = Append(queue, h)
           ELSE Goto(h, "route") /\ UNCHANGED queue
        /\ UNCHANGED <<now, up, file, caller, ahead, pending, answered, lost>>

\* buildApiResponse; its errors become 500 responses.  Then
\* finalizeConsumerTracking queues the recording.
Route(h) ==
  /\ pc[h] = "route"
  /\ queue' = Append(queue, h)
  /\ Goto(h, "recordLoad")
  /\ UNCHANGED <<now, up, file, limiter, caller, ahead, limited, pending, history>>

-----------------------------------------------------------------------------
(* recordRequest: the operation at the head of pendingWrite.               *)

\* Mutant: recordings do not wait for each other.
FirstInQueueAlways(h) == h \in ToSet(queue)

FirstInQueue(h) == queue # <<>> /\ Head(queue) = h

RecordLoad(h) ==
  /\ pc[h] = "recordLoad" /\ FirstInQueue(h)
  /\ \/ ~Readable /\ Exit
     \/ /\ Readable
        /\ LET matches == Matches(file, caller[h]) IN
           \E c \in IF matches = {} THEN {NewConsumer(caller[h])} ELSE matches :
             pending' = [pending EXCEPT ![h] =
                           (file \ {c}) \cup {Merged(c, caller[h], limited[h])}]
        /\ Goto(h, "recordOpen")
        /\ UNCHANGED <<now, up, file, limiter, queue, caller, ahead, limited, history>>

\* writeFile truncates ...
RecordOpen(h) ==
  /\ pc[h] = "recordOpen"
  /\ file' = Torn
  /\ Goto(h, "recordWrite")
  /\ UNCHANGED <<now, up, limiter, queue, caller, ahead, limited, pending, history>>

\* Mutant: the next recording is never started.
RecordWriteKeepsQueue(h) ==
  /\ pc[h] = "recordWrite"
  /\ file' = pending[h]
  /\ Goto(h, "send")
  /\ UNCHANGED <<now, up, limiter, queue, caller, ahead, limited, pending, history>>

\* ... and fills the file; then the next recording starts.
RecordWrite(h) ==
  /\ pc[h] = "recordWrite"
  /\ file' = pending[h]
  /\ queue' = Tail(queue)
  /\ pending' = [pending EXCEPT ![h] = {}]
  /\ Goto(h, "send")
  /\ UNCHANGED <<now, up, limiter, caller, ahead, limited, history>>

\* sendApiResponse.
Send(h) ==
  /\ pc[h] = "send"
  /\ answered' = IF limited[h] THEN [answered EXCEPT !.throttled = @ + 1]
                 ELSE [answered EXCEPT !.successful = @ + 1]
  /\ ahead' = [ahead EXCEPT ![h] = {}]
  /\ limited' = [limited EXCEPT ![h] = FALSE]
  /\ Goto(h, "idle")
  /\ UNCHANGED <<now, up, file, limiter, queue, caller, pending, lost, admitted>>

Serve(h) ==
  \/ Resolve(h) \/ Route(h) \/ Send(h)
  \/ RecordLoad(h) \/ RecordOpen(h) \/ RecordWrite(h)

\* The server waits for requests.
Quiet == up /\ InFlight = {} /\ UNCHANGED vars

Next ==
  \/ Tick \/ Killed \/ Restart \/ Quiet
  \/ \E h \in Handlers : Arrive(h) \/ Serve(h)

\* The event loop keeps serving what it accepted.
Fairness == \A h \in Handlers : WF_vars(Serve(h))

Spec == Init /\ [][Next]_vars /\ Fairness

-----------------------------------------------------------------------------
Counts == [requests : Nat, successful : Nat, throttled : Nat]

IsConsumer(c) ==
  /\ c.id \in {IdentityId(req) : req \in Callers}
  /\ c.declared \in Declared \cup {None}
  /\ c.agent \in {req.agent : req \in Callers} \cup {None}
  /\ c.total \in Counts /\ c.usage \in Counts
  /\ c.seen \in [DOMAIN c.seen -> Counts]
  /\ DOMAIN c.seen \subseteq {Address(req) : req \in Callers}

TypeOK ==
  /\ file = Torn \/ \A c \in file : IsConsumer(c)
  /\ windows \in [Ips -> [count : Nat, resetAt : 0 .. MaxTime + Window]]
  /\ IsInjective(queue) /\ ToSet(queue) \subseteq InFlight
  /\ ~up => InFlight = {}

(* Properties.                                                             *)

Total(outcome) == SumFunction([c \in file |-> c.total[outcome]])
SeenAt(c, outcome) == SumFunction([ip \in DOMAIN c.seen |-> c.seen[ip][outcome]])

\* While the file can be read, it counts every answered request and never more
\* than the requests that were answered, are about to be, or were lost: the
\* recordings, each a load, a merge and a save, do not overwrite each other.
\* What a record counts in total, by address and as decided by the limiter
\* agrees, so that the next load, which checks the counts, accepts it.
HistoryExact ==
  file # Torn =>
    LET unanswered == lost + Cardinality({h \in Handlers : pc[h] = "send"}) IN
    /\ \A outcome \in {"successful", "throttled"} : answered[outcome] <= Total(outcome)
    /\ Total("successful") + Total("throttled")
         <= answered.successful + answered.throttled + unanswered
    /\ \A c \in file :
         /\ Loadable(c) /\ c.usage = c.total
         /\ \A outcome \in {"successful", "throttled"} : SeenAt(c, outcome) = c.total[outcome]

AdmittedIn(ip, times) == SumFunctionOnSet(admitted[ip], times)

\* However a burst straddles two windows of the limiter, and whenever its store
\* is cleaned: in any Window ticks an address gets fewer than 2 * Limit requests
\* through, until a restart empties the store.
BurstBound ==
  \A ip \in Ips, t \in 0 .. MaxTime :
    AdmittedIn(ip, t .. IF t + Window > MaxTime THEN MaxTime ELSE t + Window - 1) < 2 * Limit

\* A consumer whose addresses nobody else calls from, except without saying
\* anything: with neither a declared id nor a user agent.
Alone(id) ==
  \A req, req2 \in Callers :
    req.declared = id /\ req2.declared # id /\ Address(req) = Address(req2) =>
      req2.declared = None /\ req2.agent = None

\* The user agent alone never mixes up consumers that declare who they are: no
\* record was seen at the addresses of two declared consumers that are alone,
\* whatever agents they, undeclared callers and consumers that share addresses
\* have in common, and in whatever order they come.
DeclaredConsumersStayApart ==
  file # Torn =>
    \A c \in file, req, req2 \in Callers :
      /\ {req.declared, req2.declared} \subseteq Declared
      /\ Alone(req.declared) /\ Alone(req2.declared)
      /\ Observed(c, Address(req)) /\ Observed(c, Address(req2))
      => req.declared = req2.declared

\* test/consumer-identity-service.test.js:489: "concurrent requests do not lose
\* consumer history".  Without kills, every request is answered and recorded.
ConcurrentRequestsKeepHistory == Faults = {} => lost = 0

\* Every request ends: with its answer, or with the process.  The recordings
\* that wait for each other never wait for good.
EveryRequestEnds == \A h \in Handlers : pc[h] # "idle" ~> pc[h] = "idle"
=============================================================================
