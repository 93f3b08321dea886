------------------------------ MODULE Spatial ------------------------------
(* couch-index/src/spatial.rs: a bounding box is stored under the quadkey  *)
(* of the smallest cell of the world grid that holds it, and a query       *)
(* rectangle is covered by ranges of keys.                                 *)
(*                                                                         *)
(* A quadkey is a sequence of digits 0..3.  The world is the square of     *)
(* side 2 * Half around the origin; Half is a multiple of 2^MAX_LEVEL, so  *)
(* that the midlines of every cell are integers.                           *)
EXTENDS Integers, Sequences
LOCAL INSTANCE SequencesExt

CONSTANTS
  Half,         \* half the side of the world
  MAX_LEVEL,    \* the deepest subdivision
  WALK_SLACK,   \* levels a boundary cell is split below the query's own
  Infinity      \* an edge the selector does not give

ASSUME SpatialAssumption ==
  /\ MAX_LEVEL \in Nat /\ WALK_SLACK \in Nat
  /\ Half \in Nat /\ Half > 0 /\ Half % 2 ^ MAX_LEVEL = 0
  /\ Infinity \in Nat /\ Infinity > 2 * Half

Rect(w, s, e, n) == [w |-> w, s |-> s, e |-> e, n |-> n]
World == Rect(-Half, -Half, Half, Half)

Finite(r) == \A k \in DOMAIN r : -Infinity < r[k] /\ r[k] < Infinity
Valid(r) == Finite(r) /\ r.w <= r.e /\ r.s <= r.n
Within(o, r) == o.w >= r.w /\ o.e <= r.e /\ o.s >= r.s /\ o.n <= r.n
Intersects(r, o) == ~(r.e < o.w \/ r.w > o.e \/ r.n < o.s \/ r.s > o.n)

MidLon(c) == (c.w + c.e) \div 2
MidLat(c) == (c.s + c.n) \div 2

Child(c, digit) ==
  Rect(IF digit % 2 = 0 THEN c.w ELSE MidLon(c), IF digit < 2 THEN c.s ELSE MidLat(c),
       IF digit % 2 = 0 THEN MidLon(c) ELSE c.e, IF digit < 2 THEN MidLat(c) ELSE c.n)

(* The bucket of the boxes that have no place: a key no quadkey begins.    *)
Junk == <<4>>

(* The child a box fits in: the low half is [lo, mid), the high one        *)
(* [mid, hi]; a box that meets a midline fits in none.                     *)
FittingChild(r, c) ==
  {digit \in 0..3 :
     /\ IF digit % 2 = 0 THEN r.e < MidLon(c) ELSE r.e >= MidLon(c) /\ r.w >= MidLon(c)
     /\ IF digit < 2 THEN r.n < MidLat(c) ELSE r.n >= MidLat(c) /\ r.s >= MidLat(c)}

RECURSIVE Descend(_, _, _)
Descend(r, key, cell) ==
  IF Len(key) < MAX_LEVEL /\ FittingChild(r, cell) # {}
  THEN LET digit == CHOOSE d \in FittingChild(r, cell) : TRUE
       IN  Descend(r, Append(key, digit), Child(cell, digit))
  ELSE key

Quadkey(r) == IF Valid(r) /\ Within(r, World) THEN Descend(r, <<>>, World) ELSE Junk

Cover(key, subtree) == [key |-> key, subtree |-> subtree]

RECURSIVE Walk(_, _, _, _)
Walk(key, cell, q, stop) ==
  CASE ~Intersects(cell, q) -> <<>>
    [] Intersects(cell, q) /\ (Within(cell, q) \/ Len(key) >= stop) ->
         <<Cover(key, TRUE)>>
    [] OTHER ->
         <<Cover(key, FALSE)>> \o
         FlattenSeq([i \in 1..4 |-> Walk(Append(key, i - 1), Child(cell, i - 1), q, stop)])

Larger(a, b) == IF a > b THEN a ELSE b
Smaller(a, b) == IF a < b THEN a ELSE b

(* The key ranges for a query rectangle: the junk bucket always, and       *)
(* nothing else for a rectangle that is empty.                             *)
Covering(query) ==
  LET q == Rect(Larger(query.w, World.w), Larger(query.s, World.s),
                Smaller(query.e, World.e), Smaller(query.n, World.n))
      stop == Smaller(Len(Quadkey(q)) + WALK_SLACK, MAX_LEVEL)
  IN  <<Cover(Junk, FALSE)>> \o
      IF q.w > q.e \/ q.s > q.n THEN <<>> ELSE Walk(<<>>, World, q, stop)
=============================================================================
