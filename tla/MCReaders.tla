----------------------------- MODULE MCReaders -----------------------------
(***************************************************************************)
(* Two items of a category: one that changes and gains a second source,    *)
(* one that stays as it is with a single source.                           *)
(***************************************************************************)
EXTENDS Readers

CONSTANTS changing, fixed, tools

MCCategory == [i \in {changing, fixed} |-> tools]
MCRank == [i \in {changing, fixed} |-> IF i = changing THEN 1 ELSE 2]
Content(version, clusters, score) == [version |-> version, clusters |-> clusters, score |-> score]
MCContents == [i \in {changing, fixed} |->
  IF i = changing THEN {Content(1, 1, 60), Content(2, 2, 60)} ELSE {Content(1, 1, 60)}]
\* The first item is now refused for its source, now for its score; the other is
\* refused as two pages.
MCRefusals == [i \in {changing, fixed} |-> [s \in Slots |->
  IF i = changing
  THEN {CreateExclusion(1, changing, tools, IF s % 2 = 0 THEN "source_not_approved"
                                 ELSE "relevance_below_threshold", {"web"})}
  ELSE {CreateExclusion(n, fixed, tools, "source_not_approved", IF n = 1 THEN {"web"} ELSE {"web", "reddit"}) :
          n \in {1, 2}}]]
MCQueries ==
  {Unfiltered,
   [Unfiltered EXCEPT !.item = fixed],
   [Unfiltered EXCEPT !.reason = "source_not_approved", !.kind = "reddit"],
   [Unfiltered EXCEPT !.from = 1, !.to = 4, !.phase = "source"]}
MCMatching == {<<changing, 1>>, <<changing, 2>>, <<fixed, 1>>}
=============================================================================
