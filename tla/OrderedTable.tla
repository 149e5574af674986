---------------------------- MODULE OrderedTable ----------------------------
(***************************************************************************)
(* Order.  A table that is ordered by use, least recently used first (an   *)
(* OrderedDict of the response cache and of the MCP client): a sequence of *)
(* tuples that begin with their key, every key once.  And a set put in an  *)
(* order: SetToSortSeq, for an order that is a set of pairs and not an     *)
(* operator, which proofs can be about.                                    *)
(***************************************************************************)
EXTENDS Naturals, Sequences, FiniteSets, SequencesExt

Place(q, k) == CHOOSE i \in DOMAIN q : q[i][1] = k
\* pop(key, None): the entry goes, if there is one.
Drop(q, k) == IF \E i \in DOMAIN q : q[i][1] = k THEN RemoveAt(q, Place(q, k)) ELSE q

\* sorted(S): at each place the element with as many before it.
Ahead(S, order, i) == {j \in S : <<j, i>> \in order}
InOrder(S, order) ==
    [k \in 1..Cardinality(S) |-> CHOOSE i \in S : Cardinality(Ahead(S, order, i)) = k - 1]
\* Numbers from the lowest up.
Ordered(S) == InOrder(S, {e \in S \X S : e[1] < e[2]})
=============================================================================
