----------------------------- MODULE MCCollection -----------------------------
(***************************************************************************)
(* Two repositories that have nothing in common but a post whose address   *)
(* has the name of the first and whose title has the name of the second, a *)
(* page of an approved site that links to the first, and a paper.          *)
(***************************************************************************)
EXTENDS Collection, TLC

CONSTANTS A, B, P, blue, red, agent, kit,
          atA, atB, atPost, atPage, atPaper,
          repoA, repoB, post, page, paper, offTopic,
          term, trending, feed, subreddit, site

MCRecords == {repoA, repoB, post, page, paper, offTopic}
MCRelevant == MCRecords \ {offTopic}

MCRepoName == [c \in {A, B} |-> IF c = A THEN {blue, kit} ELSE {red, kit}]
Link(ids, aliases) == [ids |-> ids, aliases |-> aliases]
MCLinks == [u \in {atA, atB, atPost, atPage, atPaper} |->
  CASE u = atA -> Link({A}, {}) [] u = atB -> Link({B}, {})
    [] u = atPost -> Link({}, {Alias("slug_alias", {blue, kit})})
    [] u = atPaper -> Link({P}, {}) [] OTHER -> Link({}, {})]

Artifact(urls, name, origin, authority) ==
  [group |-> "artifact", urls |-> urls, ids |-> {}, name |-> name, noisy |-> FALSE,
   origin |-> origin, authority |-> authority, mentions |-> 1]

MCFacts ==
  [r \in MCRecords |->
     CASE r = repoA -> Artifact({atA}, {blue, kit}, None, 70)
       [] r = repoB -> Artifact({atB}, {red, kit}, None, 70)
       [] r = post -> [Artifact({atPost}, {red, kit}, None, 50) EXCEPT !.noisy = TRUE]
       [] r = page -> Artifact({atPage, atA}, {agent}, site, 40)
       [] OTHER -> [Artifact({atPaper}, {agent}, None, 70) EXCEPT !.group = "technique"]]

MCAdapterOrder == <<GitHub, "arxiv", "reddit", Web>>
MCJobsOf == [x \in Range(MCAdapterOrder) |->
  CASE x = GitHub -> <<term, trending>> [] x = "arxiv" -> <<feed>>
    [] x = "reddit" -> <<subreddit>> [] OTHER -> <<site>>]
MCJobs == {term, trending, feed, subreddit, site}
MCPrerequisites == [j \in MCJobs |-> IF j = trending THEN {term} ELSE {}]
MCLimit == [j \in MCJobs |-> IF j = term THEN 3 ELSE IF j = feed THEN 2 ELSE 1]
MCPageSize == [j \in MCJobs |-> IF j = term THEN 2 ELSE 1]
MCMaxRetries == [j \in MCJobs |-> IF j \in {term, feed} THEN 1 ELSE 0]
MCListings ==
  {[j \in MCJobs |->
     CASE j = term -> t [] j = trending -> <<repoA>> [] j = feed -> <<paper>>
       [] j = subreddit -> <<post>> [] OTHER -> <<page>>] :
   t \in {<<repoA, offTopic, repoB, repoA>>, <<repoB, repoA>>}}
MCSourceAuthority == [s \in {site} |-> 60]
MCMinimumAuthority == [x \in Range(MCAdapterOrder) |-> IF x \in {Web, "reddit"} THEN 50 ELSE 70]
MCCanonicalOrder == <<A, B, P>>

\* The weights and saturations of BASE_RELEVANCE_SCORING_CONFIG.
MCWeights == [recency |-> 24, authority |-> 28, mentions |-> 18, github |-> 20, social |-> 10]
MCGitHubWeights == [stars |-> 6, activity |-> 4]
MCSaturation == [mentions |-> 8, stars |-> 50000, social |-> 1000]
MCLogScore ==
  [mentions |-> [v \in 0 .. 7 |-> <<0, 32, 50, 63, 73, 82, 89, 95>>[v + 1]],
   stars |-> (0 :> 0 @@ 30 :> 32 @@ 20000 :> 92),
   social |-> (0 :> 0 @@ 40 :> 54 @@ 500 :> 90)]

\* Repositories that are known or not, a post that is fresh and praised or old.
Known(stars, activity, age) ==
  [age |-> age, stars |-> stars, activity |-> activity, social |-> 0]
MCMetrics ==
  {[r \in MCRecords |->
     CASE r \in {repoA, offTopic} -> Known(a, 60, IF a = 30 THEN 1 ELSE 0)
       [] r = repoB -> Known(30, 20, 1)
       [] r = post -> [age |-> d, social |-> IF d = 0 THEN 500 ELSE 40]
       [] OTHER -> [age |-> d, social |-> 0]] : a \in {30, 20000}, d \in {0, 6}}

\* The first repository under an id it had before, and a project with the second's
\* name in another repository.
Past(urls, ids, name, id, count) ==
  Annotate([Artifact(urls, name, None, 70) EXCEPT !.ids = ids]) @@
  [raw |-> None, itemId |-> [group |-> "artifact", of |-> id], count |-> count, last |-> 1]
MCHistoryItems ==
  {Past({atA}, {}, {blue, kit}, {blue}, 2), Past({}, {P}, {red, kit}, {P}, 1)}
=============================================================================
