------------------------------- MODULE Mango -------------------------------
(* couch-mango (src/lib.rs): JSON values and their collation, the          *)
(* compilation of a selector and its evaluation against a document.        *)
(*                                                                         *)
(* An object is the sequence of its <<key, value>> pairs, in the order of  *)
(* the text (serde_json is built with preserve_order); a string is a       *)
(* sequence of code points.  A key is a TLA+ string: PathOf gives the path *)
(* a field name parses to and Names the order of the keys.  The selectors  *)
(* considered compile.  $type, $mod, $regex and $keyMapMatch, which look   *)
(* at one value only and are never pushed into a range, are left out.      *)
EXTENDS Integers, Sequences, FiniteSets
LOCAL INSTANCE SequencesExt
LOCAL INSTANCE FiniteSetsExt

CONSTANTS
  Names,      \* the keys of documents, in their order
  PathOf      \* field name -> path: what parse_field makes of it

ASSUME NamesAssumption == Names \in Seq(STRING) /\ IsInjective(Names)

Null == [null |-> 0]
Bool(b) == [bool |-> b]
Num(n) == [num |-> n]
Str(s) == [str |-> s]
Arr(s) == [arr |-> s]
Obj(s) == [obj |-> s]
Missing == [missing |-> 0]

(* Bounds of a scan: below and above every value. *)
Lowest == [lowest |-> 0]
Highest == [highest |-> 0]

Is(v, kind) == kind \in DOMAIN v

Rank(v) ==
  CASE Is(v, "lowest") -> -1
    [] Is(v, "null") -> 0
    [] Is(v, "bool") -> IF v.bool THEN 2 ELSE 1
    [] Is(v, "num") -> 3
    [] Is(v, "str") -> 4
    [] Is(v, "arr") -> 5
    [] Is(v, "obj") -> 6
    [] Is(v, "highest") -> 100

Sign(n) == IF n < 0 THEN -1 ELSE IF n > 0 THEN 1 ELSE 0
Minus(m, n) == Sign(m - n)

(* Two sequences compared place by place, as far as both go: the first     *)
(* difference decides, then the length.                                    *)
Lexical(signs, s, t) ==
  LET differ == {i \in DOMAIN signs : signs[i] # 0}
  IN  IF differ = {} THEN Minus(Len(s), Len(t)) ELSE signs[Min(differ)]

Shared(s, t) == DOMAIN s \cap DOMAIN t

KeyOrder(k) == CHOOSE i \in DOMAIN Names : Names[i] = k

RECURSIVE Collate(_, _)
Collate(a, b) ==
  LET Pair(p, q) == IF p[1] = q[1] THEN Collate(p[2], q[2])
                    ELSE Minus(KeyOrder(p[1]), KeyOrder(q[1]))
  IN  CASE Rank(a) # Rank(b) -> Minus(Rank(a), Rank(b))
        [] Is(a, "num") -> Minus(a.num, b.num)
        [] Is(a, "str") -> Lexical([i \in Shared(a.str, b.str) |-> Minus(a.str[i], b.str[i])], a.str, b.str)
        [] Is(a, "arr") -> Lexical([i \in Shared(a.arr, b.arr) |-> Collate(a.arr[i], b.arr[i])], a.arr, b.arr)
        [] Is(a, "obj") -> Lexical([i \in Shared(a.obj, b.obj) |-> Pair(a.obj[i], b.obj[i])], a.obj, b.obj)
        [] OTHER -> 0

(* A path walks object keys; a numeric segment indexes an array. *)
ArrayIndex(seg) == CASE seg = "0" -> 1 [] seg = "1" -> 2 [] OTHER -> 0

GetPath(doc, path) ==
  LET Step(v, seg) ==
        CASE Is(v, "obj") /\ \E i \in DOMAIN v.obj : v.obj[i][1] = seg ->
               v.obj[CHOOSE i \in DOMAIN v.obj : v.obj[i][1] = seg][2]
          [] Is(v, "arr") /\ ArrayIndex(seg) \in DOMAIN v.arr ->
               v.arr[ArrayIndex(seg)]
          [] OTHER -> Missing
  IN  FoldLeft(Step, doc, path)

GetField(doc, f) == GetPath(doc, PathOf[f])

---------------------------------------------------------------------------
(* Compilation: an object of several keys is an implicit $and, a bare      *)
(* value is an $eq, and a field name below a field name lengthens the path.*)
Boolean == {"$and", "$or", "$nor"}
Inner == {"$elemMatch", "$allMatch"}
Terminal == {"$lt", "$lte", "$eq", "$ne", "$gte", "$gt", "$in", "$nin", "$exists",
             "$beginsWith", "$all", "$size"}
Operators == Boolean \cup Inner \cup Terminal \cup {"$not"}

Field(path, op, arg) ==
  [node |-> "field", path |-> path, op |-> op, arg |-> arg, not |-> FALSE]
Node(kind, kids) == [node |-> kind, kids |-> kids]

RECURSIVE Parse(_, _), ParsePair(_, _)
Parse(v, path) ==
  CASE ~Is(v, "obj") \/ v = Obj(<<>>) -> Field(path, "$eq", v)
    [] Is(v, "obj") /\ Len(v.obj) = 1 -> ParsePair(v.obj[1], path)
    [] OTHER -> Node("$and", [i \in DOMAIN v.obj |-> ParsePair(v.obj[i], path)])

ParsePair(clause, path) ==
  LET key == clause[1]
      val == clause[2]
  IN  CASE key \in Boolean ->
             Node(key, [i \in DOMAIN val.arr |-> Parse(val.arr[i], path)])
        [] key = "$not" -> Node("$not", <<Parse(val, path)>>)
        [] key \in Inner -> Field(path, key, Parse(val, <<>>))
        [] key \in Terminal -> Field(path, key, val)
        [] OTHER -> Parse(val, path \o PathOf[key])

(* Negations are pushed down to the terminals; those that have no opposite *)
(* keep theirs.                                                            *)
Opposite ==
  [op \in {"$lt", "$lte", "$eq", "$ne", "$gte", "$gt", "$in", "$nin"} |->
     CASE op = "$lt" -> "$gte" [] op = "$lte" -> "$gt" [] op = "$eq" -> "$ne"
       [] op = "$ne" -> "$eq" [] op = "$gte" -> "$lt" [] op = "$gt" -> "$lte"
       [] op = "$in" -> "$nin" [] op = "$nin" -> "$in"]

NegateCond(n) ==
  CASE n.op \in DOMAIN Opposite -> [n EXCEPT !.op = Opposite[n.op]]
    [] n.op = "$exists" -> [n EXCEPT !.arg = Bool(~n.arg.bool)]
    [] OTHER -> [n EXCEPT !.not = ~n.not]

RECURSIVE Push(_), Negate(_)
Push(n) ==
  CASE n.node = "$not" -> Negate(n.kids[1])
    [] n.node = "$nor" -> Node("$and", [i \in DOMAIN n.kids |-> Negate(n.kids[i])])
    [] n.node \in {"$and", "$or"} ->
         Node(n.node, [i \in DOMAIN n.kids |-> Push(n.kids[i])])
    [] n.node = "field" -> n

Negate(n) ==
  CASE n.node = "$not" -> Push(n.kids[1])
    [] n.node = "$nor" -> Node("$or", [i \in DOMAIN n.kids |-> Push(n.kids[i])])
    [] n.node = "$and" -> Node("$or", [i \in DOMAIN n.kids |-> Negate(n.kids[i])])
    [] n.node = "$or" -> Node("$and", [i \in DOMAIN n.kids |-> Negate(n.kids[i])])
    [] n.node = "field" -> NegateCond(n)

(* The empty selector matches everything. *)
Compile(sel) == IF sel = Obj(<<>>) THEN Node("$and", <<>>) ELSE Push(Parse(sel, <<>>))

---------------------------------------------------------------------------
(* Evaluation.  A missing field matches {$exists: false} and nothing else; *)
(* empty argument lists of $and, $or and $nor hold.                        *)
Elements(v) == IF Is(v, "arr") THEN ToSet(v.arr) ELSE {v}
AnyEqual(S, T) == \E x \in S, y \in T : Collate(x, y) = 0

RECURSIVE Match(_, _)
MatchCond(n, v) ==
  LET order == Collate(v, n.arg)
  IN  CASE n.op = "$lt" -> order < 0
        [] n.op = "$lte" -> order <= 0
        [] n.op = "$eq" -> order = 0
        [] n.op = "$ne" -> order # 0
        [] n.op = "$gte" -> order >= 0
        [] n.op = "$gt" -> order > 0
        [] n.op = "$in" -> AnyEqual(Elements(v), ToSet(n.arg.arr))
        [] n.op = "$nin" -> ~AnyEqual(Elements(v), ToSet(n.arg.arr))
        [] n.op = "$exists" -> n.arg.bool
        [] n.op = "$beginsWith" -> Is(v, "str") /\ IsPrefix(n.arg.str, v.str)
        [] n.op = "$all" ->
             /\ Is(v, "arr") /\ n.arg.arr # <<>>
             /\ \/ \A x \in ToSet(n.arg.arr) : AnyEqual({x}, Elements(v))
                \/ Len(n.arg.arr) = 1 /\ Collate(n.arg.arr[1], v) = 0
        [] n.op = "$size" -> Is(v, "arr") /\ Len(v.arr) = n.arg.num
        [] n.op = "$elemMatch" -> Is(v, "arr") /\ \E x \in ToSet(v.arr) : Match(n.arg, x)
        [] n.op = "$allMatch" ->
             Is(v, "arr") /\ v.arr # <<>> /\ \A x \in ToSet(v.arr) : Match(n.arg, x)

Match(n, doc) ==
  LET v == GetPath(doc, n.path)
      Some == n.kids = <<>> \/ \E i \in DOMAIN n.kids : Match(n.kids[i], doc)
  IN  CASE n.node = "$and" -> \A i \in DOMAIN n.kids : Match(n.kids[i], doc)
        [] n.node = "$or" -> Some
        [] n.node = "$nor" -> n.kids = <<>> \/ ~Some
        [] n.node = "$not" -> ~Match(n.kids[1], doc)
        [] n.node = "field" /\ Is(v, "missing") ->
             n.op = "$exists" /\ ~n.arg.bool /\ ~n.not
        [] n.node = "field" -> MatchCond(n, v) # n.not

Matches(sel, doc) == Match(Compile(sel), doc)
=============================================================================
