-------------------------- MODULE ConsumerIdentities --------------------------
(***************************************************************************)
(* Whose request is it?  A request carries an optional declared id, an     *)
(* optional user agent (a product name and a version), the address it      *)
(* comes from and, behind a proxy, the addresses it was forwarded for.  A  *)
(* consumer record remembers the declared id, the last user agent, and a   *)
(* tally of its requests: in total, by address and by the rate limiter's   *)
(* decision.                                                               *)
(*                                                                         *)
(* An entry of a forwarding header is a record with host and port (the     *)
(* brackets, quotes, ports and zones that normalizeForwardedValue strips   *)
(* are the port), or None if it names no address.                          *)
(***************************************************************************)
EXTENDS Naturals, FiniteSets, FiniteSetsExt, Sequences, SequencesExt, Functions

CONSTANTS
  None,     \* no declared id, no user agent, no header, no record
  Unknown,  \* the address "unknown"
  TrackerTrustsProxy,  \* consumerTracking.trustProxy
  LimiterTrustsProxy   \* NEWSLETTER_API_RATE_LIMIT_TRUST_PROXY

\* The default server configures only the limiter from its environment.
ASSUME TrustAssumption ==
  TrackerTrustsProxy \in BOOLEAN /\ LimiterTrustsProxy \in BOOLEAN

-----------------------------------------------------------------------------
(* Client addresses.                                                       *)

\* normalizeForwardedValue
Host(entry) == entry.host

\* extractForwardedIpChain, extractProxyForwardedIpChain: entries that name no
\* address are skipped.
ForwardedChain(header) ==
  LET named == SelectSeq(header, LAMBDA entry : entry # None)
  IN [k \in DOMAIN named |-> Host(named[k])]

First(chain, otherwise) == IF chain = <<>> THEN otherwise ELSE Head(chain)

\* resolveClientIpMetadata
ClientIp(req, trustProxy) ==
  CASE trustProxy /\ req.forwardedFor # None ->
         First(ForwardedChain(req.forwardedFor), Unknown)
    [] trustProxy /\ req.forwardedFor = None /\ req.forwarded # None ->
         First(ForwardedChain(req.forwarded), req.direct)
    [] OTHER -> req.direct

\* The address the tracker sees, and the one the limiter counts under: it takes
\* the tracker's only if both agree about the proxy.
Address(req) == ClientIp(req, TrackerTrustsProxy)
RateLimitKey(req) == ClientIp(req, LimiterTrustsProxy)

-----------------------------------------------------------------------------
(* Identities.                                                             *)

\* normalizeUserAgentIdentityValue: versions and comments do not matter.
AgentName(agent) == agent.name

\* userAgentsMatch
AgentsMatch(left, right) ==
  IF left = None \/ right = None THEN left = right ELSE AgentName(left) = AgentName(right)

\* resolveFallbackIdentity
Fallback(req) ==
  IF req.agent # None THEN <<"user_agent", AgentName(req.agent)>> ELSE <<"ip", Address(req)>>

\* buildConsumerIdentityId: what the hash is taken of.
IdentityId(req) ==
  IF req.declared # None THEN <<"consumer_header", req.declared>> ELSE Fallback(req)

Observed(consumer, ip) == ip \in DOMAIN consumer.seen

\* consumerFallbackMatches
FallbackMatches(consumers, req) ==
  {c \in consumers :
     \/ c.fallback = Fallback(req)
     \/ IF req.agent # None THEN AgentsMatch(c.agent, req.agent) ELSE Observed(c, Address(req))}

Undeclared(S) == {c \in S : c.declared = None}

Unique(S) == IF Cardinality(S) = 1 THEN S ELSE {}

\* Mutant: every fallback match of a declared consumer is taken over.
CandidatesEager(consumers, req) ==
  LET fallback == FallbackMatches(consumers, req) IN
  << {c \in consumers : c.id = IdentityId(req)}, fallback >>

\* findMatchingConsumerIdentityRecord: the lookups, the first that finds a
\* record decides.
Candidates(consumers, req) ==
  LET fallback == FallbackMatches(consumers, req)
      sameAgent == {c \in consumers : req.agent # None /\ AgentsMatch(c.agent, req.agent)}
      declares == req.declared # None
  IN << {c \in consumers : c.id = IdentityId(req)},
        IF declares THEN {c \in consumers : c.declared = req.declared} ELSE {},
        IF declares THEN Unique(Undeclared(fallback)) ELSE {},
        Unique({c \in sameAgent : Observed(c, Address(req))}),
        IF declares THEN Unique(Undeclared(sameAgent)) ELSE Unique(sameAgent),
        IF declares THEN {} ELSE Unique(fallback) >>

\* The records a request may be attributed to: none for a new consumer.
Matches(consumers, req) ==
  LET found == Candidates(consumers, req)
      hits == {k \in DOMAIN found : found[k] # {}}
  IN IF hits = {} THEN {} ELSE found[CHOOSE k \in hits : \A j \in hits : k <= j]

-----------------------------------------------------------------------------
(* Consumer records.                                                       *)

NoRequests == [requests |-> 0, successful |-> 0, throttled |-> 0]

Tally(counts, outcome) == [counts EXCEPT !.requests = @ + 1, ![outcome] = @ + 1]

NewConsumer(req) ==
  [id |-> IdentityId(req), declared |-> None, fallback |-> None, agent |-> None,
   total |-> NoRequests, seen |-> <<>>, usage |-> NoRequests]

OrElse(value, other) == IF value # None THEN value ELSE other

\* mergeObservedClientIps
ObservedIps(consumer, ip, outcome) ==
  [a \in DOMAIN consumer.seen \cup {ip} |->
     LET before == IF Observed(consumer, a) THEN consumer.seen[a] ELSE NoRequests
     IN IF a = ip THEN Tally(before, outcome) ELSE before]

\* resolveStoredFallbackIdentity: a user agent is never given up for an address.
StoredFallback(consumer, req) ==
  IF req.agent = None /\ consumer.fallback # None /\ consumer.fallback[1] = "user_agent"
  THEN consumer.fallback ELSE Fallback(req)

\* mergeRateLimitUsage: what the limiter decided about the request.
RateLimitUsage(consumer, limited) ==
  Tally(consumer.usage, IF limited THEN "throttled" ELSE "successful")

\* resolveTrackedRequestOutcome; only the limiter answers 429.
TrackedOutcome(limited) == IF limited THEN "throttled" ELSE "successful"

\* mergeConsumerIdentityRecord: the request's attributes win.
Merged(consumer, req, limited) ==
  LET outcome == TrackedOutcome(limited) IN
  [consumer EXCEPT
     !.declared = OrElse(req.declared, @),
     !.fallback = StoredFallback(consumer, req),
     !.agent = OrElse(req.agent, @),
     !.total = Tally(@, outcome),
     !.seen = ObservedIps(consumer, Address(req), outcome),
     !.usage = RateLimitUsage(consumer, limited)]

\* normalizeRequestOutcomeCounts: counts that do not add up are rejected.
AddsUp(counts) == counts.successful + counts.throttled = counts.requests

\* normalizeConsumerIdentityRecord rejects, on every load and save, a record
\* one of whose counts does not add up.
Loadable(consumer) ==
  /\ AddsUp(consumer.total) /\ consumer.total.requests > 0
  /\ AddsUp(consumer.usage)
  /\ \A counts \in Range(consumer.seen) : AddsUp(counts) /\ counts.requests > 0
=============================================================================
