---------------------------- MODULE MCQuerySurface ----------------------------
(* Instances of QuerySurface for the model checker. *)
EXTENDS QuerySurface, MCIdentity

\* A query changes nothing, so two at once show nothing that one does not; and
\* of references no more is stored than two copies of one.
MCBound ==
  /\ \A v, w \in Worker : query[v] # NoQuery /\ query[w] # NoQuery => v = w
  /\ Cardinality({i \in EntityId : references[i][r1] # 0}) <= 1
=============================================================================
