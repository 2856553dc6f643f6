------------------------------ MODULE Arrangement ------------------------------
(***************************************************************************)
(* Sorting and filtering without recursion: an element's place is one more    *)
(* than the number of those before it.  What Rust's sort_by and filter return  *)
(* (slice::sort_by, Iterator::filter).                                        *)
(***************************************************************************)
EXTENDS Naturals, Sequences, FiniteSets

\* The sequence itself; TLC evaluates its elements here, once, and not at each use.
AsTuple(s) == SubSeq(s, 1, Len(s))
\* The members of S in an order, given as a set of pairs, that tells any two apart.
Arranged(S, before) ==
  AsTuple([k \in 1..Cardinality(S) |-> CHOOSE x \in S : Cardinality({y \in S : <<y, x>> \in before}) = k - 1])
\* The numbers of S, least first.
Upward(S) == Arranged(S, {p \in S \X S : p[1] < p[2]})
\* The elements of a sequence at some places.
At(s, places) == AsTuple([k \in DOMAIN places |-> s[places[k]]])
\* Those that are in S, as they follow each other.
Among(s, S) == At(s, Upward({n \in DOMAIN s : s[n] \in S}))
\* A stable sort: of two elements that Ahead does not tell apart the first stays first.
Stably(s, Ahead(_, _)) ==
  {p \in (DOMAIN s) \X (DOMAIN s) :
     Ahead(s[p[1]], s[p[2]]) \/ (~Ahead(s[p[2]], s[p[1]]) /\ p[1] < p[2])}
StablySorted(s, Ahead(_, _)) == At(s, Arranged(DOMAIN s, Stably(s, Ahead)))
=============================================================================
