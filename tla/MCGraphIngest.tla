---------------------------- MODULE MCGraphIngest ----------------------------
(* Small instances of GraphIngest: the messages of one entity.              *)
EXTENDS GraphIngest

CONSTANTS a, s, t, p, q, x

Arrival(stream, seq, preds, shape) ==
  [stream |-> stream, seq |-> seq, entity |-> a, preds |-> preds, shape |-> shape]

\* Two updates of one stream that set different predicates.
MCTwoUpdates == {Arrival(s, 1, {p}, "valid"), Arrival(s, 2, {q}, "valid")}

\* Two updates of a predicate by one stream, one of them also setting another,
\* and an update and a refused message of a second stream: two keys compete for
\* the one entry of the cache.
MCArrivals ==
  {Arrival(s, 1, {p, q}, "valid"), Arrival(s, 2, {p, Profile}, "valid"),
   Arrival(t, 1, {q, Profile}, "valid"), Arrival(t, 2, {q}, "invalid")}

MCLaneOf == [e \in Entities |-> x]
=============================================================================
