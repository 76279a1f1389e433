----------------------------- MODULE ItemIdentity -----------------------------
(***************************************************************************)
(* When two items are about the same thing (core/item-identity.js).  An    *)
(* item has exact signals, its addresses and canonical ids, and aliases,   *)
(* each with the kind of place it was read from.  A name is a set of       *)
(* tokens, without the noise words at its ends.                            *)
(***************************************************************************)
EXTENDS Integers, FiniteSets, SequencesExt

CONSTANTS
  Links,          \* per address: the canonical ids that it has, and its aliases
  RepoName,       \* the name of a repository
  Repositories,   \* canonical ids that are repositories
  Dois,           \* canonical ids that are DOIs
  CanonicalOrder, \* canonical ids, the one that names an item first
  Social,         \* addresses on social hosts
  CommonTokens,   \* tokens that say nothing: TEXT_SIMILARITY_NOISE_TOKENS
  LongTokens      \* tokens of eight letters or more

ASSUME ItemIdentityAssumption ==
  /\ Repositories \cup Dois \subseteq Range(CanonicalOrder)
  /\ DOMAIN RepoName = Repositories
  /\ \A c \in Repositories : IsFiniteSet(RepoName[c])
  /\ \A u \in DOMAIN Links : /\ Links[u].ids \subseteq Range(CanonicalOrder)
                             /\ \A a \in Links[u].aliases : IsFiniteSet(a.value)

Alias(kind, value) == [kind |-> kind, value |-> value]

\* The canonical ids of an item: its own and those that its addresses have.
LinkedIds(urls) == UNION {Links[u].ids : u \in urls}
CanonicalSignals(urls, ids) == ids \cup LinkedIds(urls)

AliasSignals(urls, name) ==
  {Alias("name_alias", name)} \cup (UNION {Links[u].aliases : u \in urls})
  \cup {Alias("repo_name_alias", RepoName[c]) : c \in LinkedIds(urls) \cap Repositories}

First(ids) == SelectSeq(CanonicalOrder, LAMBDA c : c \in ids)[1]

\* The name of the repository, or else the cleaned name of the item.
EntityName(urls, ids, name) ==
  LET repositories == Repositories \cap CanonicalSignals(urls, ids)
  IN IF repositories # {} THEN RepoName[First(repositories)] ELSE name

\* An item has at most one canonical id of each kind to its name.
Namespace(c) ==
  CASE c \in Repositories -> "repository" [] c \in Dois -> "doi" [] OTHER -> "source"

SelectCanonicalIdentifiers(ids) ==
  {c \in ids : c = First({d \in ids : Namespace(d) = Namespace(c)})}

\* mergeCanonicalIdentifiers: of each kind the one of the first that has one.
MergeCanonicalIdentifiers(first, second) ==
  first \cup {c \in second : \A d \in first : Namespace(d) # Namespace(c)}

\* annotateItemIdentitySignals: an item with its signals, which stay with it when it
\* is merged, and its canonical identifiers.
Annotate(i) ==
  [group |-> i.group, name |-> i.name, noisy |-> i.noisy, urls |-> i.urls,
   canonical |-> CanonicalSignals(i.urls, i.ids),
   aliases |-> AliasSignals(i.urls, i.name),
   identifiers |-> SelectCanonicalIdentifiers(CanonicalSignals(i.urls, i.ids)),
   entity |-> EntityName(i.urls, i.ids, i.name)]

\* buildStableItemId: the group and the first canonical id, or else the name.
StableId(i) ==
  IF i.canonical = {} THEN [group |-> i.group, of |-> i.entity]
  ELSE [group |-> i.group, of |-> {First(i.canonical)}]

-----------------------------------------------------------------------------
SharesExact(l, r) == l.canonical \cap r.canonical # {} \/ l.urls \cap r.urls # {}

\* Both have canonical ids and none in common.
Conflict(l, r) ==
  l.canonical # {} /\ r.canonical # {} /\ l.canonical \cap r.canonical = {}

IsSpecificAlias(name) == Cardinality(name) >= 2 \/ name \cap LongTokens # {}

Kinds(i, value) == {a.kind : a \in {b \in i.aliases : b.value = value}}

\* An alias of both that each has from elsewhere than its title, and that they have
\* from places of two kinds.
CorroboratedAliasOverlap(l, r) ==
  \E value \in {a.value : a \in l.aliases} \cap {a.value : a \in r.aliases} :
    /\ IsSpecificAlias(value)
    /\ \A i \in {l, r} : Kinds(i, value) \ {"name_alias"} # {}
    /\ Cardinality(Kinds(l, value) \cup Kinds(r, value)) >= 2

\* The entity's name is confirmed by an address, by words around it in the title, or
\* by a canonical id.
EntityNameCorroborated(i) ==
  \/ Kinds(i, i.entity) \ {"name_alias"} # {}
  \/ i.name = i.entity /\ (i.noisy \/ i.canonical # {})

NormalizedEntityNameMatch(l, r) ==
  \/ /\ l.entity = r.entity /\ IsSpecificAlias(l.entity)
     /\ EntityNameCorroborated(l) /\ EntityNameCorroborated(r)
  \/ CorroboratedAliasOverlap(l, r)

Informative(name) == name \ CommonTokens

SimilarityReferences(i) ==
  {v \in {i.name} \cup {a.value : a \in {b \in i.aliases : b.kind # "host_alias"}} :
     Cardinality(Informative(v)) >= 2 \/ Informative(v) \cap LongTokens # {}}

\* Two references have four fifths of their informative tokens in common.
TextSimilarityOverlap(l, r) ==
  \E v \in SimilarityReferences(l), w \in SimilarityReferences(r) :
    10 * Cardinality(Informative(v) \cap Informative(w))
      >= 4 * (Cardinality(Informative(v)) + Cardinality(Informative(w)))

ItemsShareIdentity(l, r) ==
  /\ l.group = r.group
  /\ \/ SharesExact(l, r)
     \/ /\ ~Conflict(l, r)
        /\ NormalizedEntityNameMatch(l, r) \/ TextSimilarityOverlap(l, r)

-----------------------------------------------------------------------------
(* How strongly an item is the same as a published one.                     *)

MatchKinds ==
  <<"repository_url", "doi", "official_site_url", "entity_name", "canonical_id", "text_similarity">>

\* resolveEntityIdentityMatch: the strongest kind in which they agree, or "none".
ResolveEntityIdentityMatch(i, h) ==
  LET shared == i.canonical \cap h.canonical
  IN CASE i.group # h.group -> "none"
       [] shared \cap Repositories # {} -> "repository_url"
       [] shared \cap Dois # {} -> "doi"
       [] (i.urls \cap h.urls) \ Social # {} -> "official_site_url"
       [] Conflict(i, h) -> "none"
       [] NormalizedEntityNameMatch(i, h) -> "entity_name"
       [] shared # {} -> "canonical_id"
       [] TextSimilarityOverlap(i, h) -> "text_similarity"
       [] OTHER -> "none"
=============================================================================
