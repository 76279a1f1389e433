--------------------------- MODULE MCSourceRegistry ---------------------------
(* Small instances of SourceRegistry for TLC. *)
EXTENDS SourceRegistry, TLC

CONSTANTS tools, papers, i1, i2

\* All sources cover the same category.
OneCategory == [s \in Sources |-> {tools}]

\* The first item is a tool, the second a paper.
ItemDomains == [i \in Items |-> IF i = i1 THEN tools ELSE papers]

SourceSymmetry == Permutations(Sources) \cup Permutations(Writers)

\* Without the history and the expertise, which no guard reads.
Lifecycles(S) ==
  IF S = None THEN None
  ELSE [s \in Sources |-> [S[s] EXCEPT !.tracked = <<>>, !.credit = 0]]

RegistryView ==
  <<day, Lifecycles(registry), run, [w \in Writers |-> Lifecycles(fetching[w])], fetched,
    [w \in Writers |-> Lifecycles(loaded[w])], Lifecycles(operator)>>
=============================================================================
