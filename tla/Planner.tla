------------------------------ MODULE Planner ------------------------------
(* couch-index/src/planner.rs, keys.rs, find.rs: whether an index can serve*)
(* a query, the range of it that is scanned, and which index is taken.     *)
(* The planner reads the text of the selector, not its compiled form.      *)
EXTENDS Mango, Spatial
LOCAL INSTANCE SequencesExt
LOCAL INSTANCE FiniteSetsExt

CONSTANTS
  Defs,       \* index definition -> [name, fields, filter, kind]
  Order,      \* the order of the ids of documents and of the names of indexes
  NoFilter,   \* the filter of an index that is not partial
  BmpEnd      \* the code point U+FFFF

Clauses(sel) == IF Is(sel, "obj") THEN sel.obj ELSE <<>>
Arguments(v) == IF Is(v, "arr") THEN v.arr ELSE <<>>

---------------------------------------------------------------------------
(* has_required_fields: the fields still to be constrained after sel.      *)
ExistsFalse == Obj(<<<<"$exists", Bool(FALSE)>>>>)

RECURSIVE RemoveCovered(_, _)
RemoveCovered(sel, remainder) ==
  LET Branch(rem, arg) == RemoveCovered(arg, rem)
      InAll(args, rem) ==
        {f \in rem : \A i \in DOMAIN args : f \notin RemoveCovered(args[i], rem)}
      Clause(rem, c) ==
        CASE c[1] = "$and" -> FoldLeft(Branch, rem, Arguments(c[2]))
          [] c[1] = "$or" -> IF Arguments(c[2]) = <<>> THEN rem
                             ELSE rem \ InAll(Arguments(c[2]), rem)
          [] c[1] \in Operators \ {"$and", "$or"} -> rem
          [] c[1] \notin Operators -> IF c[2] = ExistsFalse THEN rem ELSE rem \ {c[1]}
  IN  FoldLeft(Clause, remainder, Clauses(sel))

HasRequiredFields(sel, fields) == RemoveCovered(sel, fields) = {}

---------------------------------------------------------------------------
(* column_range: what the clauses on one column leave of it.  A set of at  *)
(* most one range; the empty set stands for "provably empty".              *)
Interval(low, lowIncl, high, highIncl, isEq) ==
  [low |-> low, lowIncl |-> lowIncl, high |-> high, highIncl |-> highIncl, isEq |-> isEq]
FullRange == Interval(Lowest, FALSE, Highest, FALSE, FALSE)
EqRange(v) == Interval(v, TRUE, v, TRUE, TRUE)
IsFull(r) == r.low = Lowest /\ r.high = Highest

InRange(v, r) ==
  LET lo == Collate(v, r.low)
      hi == Collate(v, r.high)
  IN  /\ lo > 0 \/ (lo = 0 /\ (r.lowIncl \/ r.isEq))
      /\ hi < 0 \/ (hi = 0 /\ (r.highIncl \/ r.isEq))

NonEmpty(r) == IF Collate(r.low, r.high) <= 0 THEN {r} ELSE {}

NarrowHigh(v, incl, r) ==
  LET order == Collate(v, r.high)
  IN  NonEmpty(CASE order < 0 -> Interval(r.low, r.lowIncl, v, incl, FALSE)
                 [] order = 0 /\ ~incl -> [r EXCEPT !.highIncl = FALSE, !.isEq = FALSE]
                 [] OTHER -> r)

NarrowLow(v, incl, r) ==
  LET order == Collate(v, r.low)
  IN  NonEmpty(CASE order > 0 -> Interval(v, incl, r.high, r.highIncl, FALSE)
                 [] order = 0 /\ ~incl -> [r EXCEPT !.lowIncl = FALSE, !.isEq = FALSE]
                 [] OTHER -> r)

(* A prefix is bounded by itself followed by U+FFFF.  Operators that give  *)
(* no range are left to the filter.                                        *)
NarrowOp(op, arg, r) ==
  CASE op = "$eq" -> IF InRange(arg, r) THEN {EqRange(arg)} ELSE {}
    [] op \in {"$lt", "$lte"} -> NarrowHigh(arg, op = "$lte", r)
    [] op \in {"$gt", "$gte"} -> NarrowLow(arg, op = "$gte", r)
    [] op = "$beginsWith" ->
         UNION {NarrowHigh(Str(Append(arg.str, BmpEnd)), TRUE, x) : x \in NarrowLow(arg, TRUE, r)}
    [] OTHER -> {r}

(* An object without operators is a value to be equal to.                  *)
NarrowCond(cond, r) ==
  IF \E i \in DOMAIN Clauses(cond) : Clauses(cond)[i][1] \in Operators
  THEN LET One(rs, c) == UNION {NarrowOp(c[1], c[2], x) : x \in rs}
       IN  FoldLeft(One, {r}, Clauses(cond))
  ELSE NarrowOp("$eq", cond, r)

RECURSIVE Narrow(_, _, _)
Narrow(sel, column, ranges) ==
  LET Branch(rs, arg) == Narrow(arg, column, rs)
      Clause(rs, c) ==
        CASE c[1] = "$and" -> FoldLeft(Branch, rs, Arguments(c[2]))
          [] c[1] = column -> UNION {NarrowCond(c[2], r) : r \in rs}
          [] OTHER -> rs
  IN  FoldLeft(Clause, ranges, Clauses(sel))

ColumnRange(sel, column) == Narrow(sel, column, {FullRange})

(* Of each column, then: what the selector leaves of it; whether it pins it.*)
RangesOf(sel, columns) == [i \in DOMAIN columns |-> ColumnRange(sel, columns[i])]
IsConstantField(range) == \E r \in range : r.isEq

---------------------------------------------------------------------------
(* plan_index.  The sort fields must be consecutive columns, after columns *)
(* the selector pins.                                                      *)
CanUseSortAnywhere(columns, sort, ranges) ==   \* a fault: no column need be pinned
  \/ sort = <<>>
  \/ \E k \in 0..(Len(columns) - Len(sort)) : SubSeq(columns, k + 1, k + Len(sort)) = sort

CanUseSort(columns, sort, ranges) ==
  \/ sort = <<>>
  \/ \E k \in 0..(Len(columns) - Len(sort)) :
       /\ SubSeq(columns, k + 1, k + Len(sort)) = sort
       /\ \A i \in 1..k : columns[i] # sort[1] /\ IsConstantField(ranges[i])

Required(columns, sort) == (ToSet(columns) \ ToSet(sort)) \ {"_id", "_rev"}

(* At most one plan; none for an index that cannot serve the query.        *)
PlanIndex(columns, sel, sort, ranges) ==
  IF /\ HasRequiredFields(sel, Required(columns, sort))
     /\ CanUseSort(columns, sort, ranges)
     /\ \A i \in DOMAIN columns : ranges[i] # {}
  THEN {[ranges |-> [i \in DOMAIN columns |-> CHOOSE r \in ranges[i] : TRUE]]}
  ELSE {}

(* plan_spatial: the rectangle whose edges are the bounds of the opposite  *)
(* edges of the boxes looked for.                                          *)
Edge(bound, infinite) == IF Is(bound, "num") THEN bound.num ELSE infinite

PlanSpatial(paths, sel, sort, ranges) ==
  LET Of(i) == CHOOSE r \in ranges[i] : TRUE
      query == Rect(Edge(Of(3).low, -Infinity), Edge(Of(4).low, -Infinity),
                    Edge(Of(1).high, Infinity), Edge(Of(2).high, Infinity))
  IN  IF /\ Len(paths) = 4 /\ sort = <<>>
         /\ HasRequiredFields(sel, ToSet(paths))
         /\ \A i \in 1..4 : ranges[i] # {}
         /\ \E k \in DOMAIN query : -Infinity < query[k] /\ query[k] < Infinity
      THEN {[query |-> query]}
      ELSE {}

---------------------------------------------------------------------------
(* choose.  A query is [selector, sort, descending, useIndex, skip, limit].*)
(* How many columns in a row, from the first, have it.                     *)
Prefix(has) == Max({n \in 0..Len(has) : \A i \in 1..n : has[i]})

PlanFor(d, query, ranges) ==
  IF Defs[d].kind = "json"
  THEN PlanIndex(Defs[d].fields, query.selector, query.sort, ranges)
  ELSE PlanSpatial(Defs[d].fields, query.selector, query.sort, ranges)

PlansOf(d, query) == PlanFor(d, query, RangesOf(query.selector, Defs[d].fields))

RankOf(d, plan, built) ==
  LET pinned == [i \in DOMAIN plan.ranges |-> plan.ranges[i].isEq]
      constrained == [i \in DOMAIN plan.ranges |-> ~IsFull(plan.ranges[i])]
  IN  IF Defs[d].kind = "spatial" THEN <<1, 4, 4, -4, built>>
      ELSE <<0, Prefix(pinned), Prefix(constrained),
             -Len(Defs[d].fields), built>>

(* Every clause of the filter of a partial index stands in the selector,   *)
(* at its top or below $and.                                               *)
RECURSIVE ClausePresent(_, _)
ClausePresent(sel, c) ==
  \/ \E i \in DOMAIN Clauses(sel) : Clauses(sel)[i] = c
  \/ \E i \in DOMAIN Clauses(sel) :
       /\ Clauses(sel)[i][1] = "$and"
       /\ \E j \in DOMAIN Arguments(Clauses(sel)[i][2]) :
            ClausePresent(Arguments(Clauses(sel)[i][2])[j], c)

SelectorImplies(sel, filter) ==
  filter # NoFilter =>
    \A i \in DOMAIN Clauses(filter) : ClausePresent(sel, Clauses(filter)[i])

CompareRanks(r, q) == Lexical([i \in DOMAIN r |-> Minus(r[i], q[i])], r, q)

(* The indexes that can serve the query, each with its plan.               *)
Usable(known, built, query) ==
  LET named == {d \in known : /\ query.useIndex \in {"", Defs[d].name}
                              /\ SelectorImplies(query.selector, Defs[d].filter)}
  IN  UNION {{[def |-> d, plan |-> plan, rank |-> RankOf(d, plan, IF d \in built THEN 1 ELSE 0)] :
                plan \in PlansOf(d, query)} : d \in named}

(* Definitions come in the order of their names; the first of the best     *)
(* wins.                                                                   *)
FirstOfBest(usable) ==
  LET best == {u \in usable : \A v \in usable : CompareRanks(v.rank, u.rank) <= 0}
  IN  {u \in best : \A v \in best : Order[u.def] <= Order[v.def]}

(* {} is the full scan or, where an index was asked for by name or a sort  *)
(* was, an error.                                                          *)
Choose(known, built, query) == FirstOfBest(Usable(known, built, query))

---------------------------------------------------------------------------
(* scan_bounds and Index::scan.  A row is [cols, id]; the rows of an index *)
(* are ordered by their columns, then by id.                               *)
CompareCols(c, d) == Lexical([i \in Shared(c, d) |-> Collate(c[i], d[i])], c, d)
RowBefore(p, q) ==
  \/ CompareCols(p.cols, q.cols) < 0
  \/ CompareCols(p.cols, q.cols) = 0 /\ Order[p.id] < Order[q.id]

(* The columns taken while each is bounded and all before it are pinned.   *)
BoundedPrefix(ranges, open) ==
  Max({n \in 0..Len(ranges) : /\ \A i \in 1..n : ~open[i]
                              /\ \A i \in 1..(n - 1) : ranges[i].isEq})

ScanBounds(ranges) ==
  LET lows == BoundedPrefix(ranges, [i \in DOMAIN ranges |-> ranges[i].low = Lowest])
      highs == BoundedPrefix(ranges, [i \in DOMAIN ranges |-> ranges[i].high = Highest])
  IN  [start |-> [i \in 1..lows |-> ranges[i].low],
       end |-> [i \in 1..highs |-> ranges[i].high],
       inclusive |-> highs > 0 => (ranges[highs].isEq \/ ranges[highs].highIncl)]

(* Forwards the end is exclusive of its own columns unless padded; back    *)
(* from the end, rows equal to an exclusive bound are met and filtered.    *)
ScanUnpadded(rows, start, end, inclusive, descending) ==   \* a fault: no padding
  LET inside == {row \in rows :
                   /\ CompareCols(row.cols, start) >= 0
                   /\ CompareCols(row.cols, end) < IF descending THEN 1 ELSE 0}
      ordered == SetToSortSeq(inside, RowBefore)
  IN  [i \in DOMAIN ordered |-> IF descending THEN Reverse(ordered)[i].id ELSE ordered[i].id]

Scan(rows, start, end, inclusive, descending) ==
  LET upper == IF inclusive THEN Append(end, Highest) ELSE end
      inside == {row \in rows :
                   /\ CompareCols(row.cols, start) >= 0
                   /\ CompareCols(row.cols, upper) < IF descending THEN 1 ELSE 0}
      ordered == SetToSortSeq(inside, RowBefore)
  IN  [i \in DOMAIN ordered |-> IF descending THEN Reverse(ordered)[i].id ELSE ordered[i].id]

ScanView(rows, ranges, descending) ==
  LET b == ScanBounds(ranges)
  IN  Scan(rows, b.start, b.end, b.inclusive, descending)

SubtreeEnd(key) == Append(key, 4)

ScanSpatial(rows, query) ==
  LET Cell(c) == IF c.subtree
                 THEN Scan(rows, <<Str(c.key)>>, <<Str(SubtreeEnd(c.key))>>, FALSE, FALSE)
                 ELSE Scan(rows, <<Str(c.key)>>, <<Str(c.key)>>, TRUE, FALSE)
      covers == Covering(query)
  IN  FlattenSeq([i \in DOMAIN covers |-> Cell(covers[i])])

(* The ids find::execute looks at, in their order.                         *)
Candidates(u, rows, query) ==
  IF Defs[u.def].kind = "json" THEN ScanView(rows, u.plan.ranges, query.descending)
  ELSE ScanSpatial(rows, u.plan.query)

---------------------------------------------------------------------------
(* doc_key: the row of a document, none when a field is missing.  A box    *)
(* whose edges are not all numbers goes to the junk bucket.                *)
DocKey(d, doc) ==
  LET fields == Defs[d].fields
      cols == [i \in DOMAIN fields |-> GetField(doc, fields[i])]
      box == Rect(cols[1].num, cols[2].num, cols[3].num, cols[4].num)
      numeric == \A i \in DOMAIN cols : Is(cols[i], "num")
  IN  CASE \E i \in DOMAIN cols : Is(cols[i], "missing") -> {}
        [] Defs[d].kind = "json" -> {cols}
        [] OTHER -> {<<Str(IF numeric THEN Quadkey(box) ELSE Junk)>>}
=============================================================================
