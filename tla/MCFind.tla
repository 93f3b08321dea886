------------------------------- MODULE MCFind -------------------------------
(* Three documents under three indexes: of two columns, partial, spatial.  *)
EXTENDS Find, TLC

MCNames == <<"a", "b", "e", "n", "s", "w">>
MCPathOf == [a |-> <<"a">>, b |-> <<"b">>, w |-> <<"w">>, s |-> <<"s">>,
             e |-> <<"e">>, n |-> <<"n">>]
MCIds == {"x", "y", "z"}
MCOrder == [x |-> 1, y |-> 2, z |-> 3, ab |-> 1, box |-> 2, part |-> 3]

Box(w, s, e, n) ==
  Obj(<<<<"w", Num(w)>>, <<"s", Num(s)>>, <<"e", Num(e)>>, <<"n", Num(n)>>>>)

Plain ==
  [both |-> Obj(<<<<"a", Num(1)>>, <<"b", Num(2)>>>>),
   less |-> Obj(<<<<"a", Num(1)>>, <<"b", Null>>>>),
   text |-> Obj(<<<<"a", Str(<<7, 8>>)>>, <<"b", Num(1)>>>>),
   alone |-> Obj(<<<<"a", Num(2)>>>>)]

(* A point, boxes inside a cell, on a midline and across, at the edge of   *)
(* the world, and one that is no box at all.                               *)
Boxes ==
  [point |-> Box(1, 1, 1, 1), inside |-> Box(2, 2, 3, 3), line |-> Box(-2, 0, -1, 2),
   across |-> Box(-1, -1, 1, 1), edge |-> Box(-4, 3, -4, 4), junk |-> Box(3, 0, 1, 2)]

MCContent == Plain @@ Boxes
MCShapes == {DOMAIN Plain, DOMAIN Boxes}

Eq(f, v) == <<f, v>>
Op(f, op, v) == <<f, Obj(<<<<op, v>>>>)>>
Query(sel, sort, desc, use, skip, limit) ==
  [selector |-> Obj(sel), sort |-> sort, descending |-> desc, useIndex |-> use,
   skip |-> skip, limit |-> limit]
Asked(sel) == Query(sel, <<>>, FALSE, "", 0, 9)

(* The boxes that meet a rectangle.                                        *)
Meets(w, s, e, n) ==
  <<Op("w", "$lte", Num(e)), Op("s", "$lte", Num(n)),
    Op("e", "$gte", Num(w)), Op("n", "$gte", Num(s))>>

MCNoFilter == Obj(<<>>)
FilterB == Obj(<<Op("b", "$gt", Null)>>)
Columns(name, fields, filter, kind) ==
  [name |-> name, fields |-> fields, filter |-> filter, kind |-> kind]
MCDefs ==
  [ab |-> Columns("ab", <<"a", "b">>, MCNoFilter, "json"),
   box |-> Columns("box", <<"w", "s", "e", "n">>, MCNoFilter, "spatial"),
   part |-> Columns("part", <<"a">>, FilterB, "json")]

MCQueries ==
  { Asked(<<Eq("a", Num(1))>>),
    Asked(<<Op("a", "$beginsWith", Str(<<7>>)), Op("b", "$gt", Null)>>),
    Asked(<<Op("a", "$lt", Num(2)), Op("b", "$exists", Bool(TRUE))>>),
    Query(<<Eq("a", Num(1)), Op("b", "$gte", Null)>>, <<"b">>, TRUE, "", 1, 1),
    Query(<<Op("a", "$gt", Null)>>, <<"a", "b">>, FALSE, "", 0, 2),
    Query(<<Eq("a", Num(1)), Op("b", "$gt", Null)>>, <<>>, TRUE, "part", 0, 1),
    Asked(<<<<"$or", Arr(<<Obj(<<Eq("a", Num(1)), Eq("b", Null)>>),
                            Obj(<<Op("a", "$gt", Num(1))>>)>>)>>>>),
    Asked(<<<<"$and", Arr(<<Obj(<<Op("a", "$lte", Num(1))>>),
                             Obj(<<Op("b", "$gt", Null)>>)>>)>>>>),
    Asked(<<<<"$not", Obj(<<Eq("a", Num(1))>>)>>, Op("a", "$gt", Null),
             Op("b", "$ne", Null)>>),
    Query(<<Op("b", "$gt", Null)>>, <<"b">>, FALSE, "", 0, 9),
    Query(<<Op("a", "$gt", Null), Op("b", "$gt", Null)>>, <<"b">>, FALSE, "", 0, 2),
    Asked(Meets(0, 0, 1, 1)),
    Asked(Meets(-4, -2, -2, 4)),
    Asked(<<Op("w", "$gt", Null), Op("s", "$lt", Num(1)), Op("e", "$gt", Null),
            Op("n", "$gt", Null)>>) }

---------------------------------------------------------------------------
(* Beyond what MCQueries asks: the boxes that contain a rectangle, fields  *)
(* of an object written as an object, a field that must not exist.         *)
Contains(w, s, e, n) ==
  <<Op("w", "$lte", Num(w)), Op("s", "$lte", Num(s)),
    Op("e", "$gte", Num(e)), Op("n", "$gte", Num(n))>>

Containing == {Asked(Contains(0, 0, 1, 1))}
Nested == {Asked(<<Eq("a", Obj(<<<<"b", Num(1)>>>>)), Op("b", "$gt", Null)>>)}
Negated == {Asked(<<<<"b", Obj(<<<<"$not", Obj(<<<<"$exists", Bool(TRUE)>>>>)>>>>)>>,
                    Op("a", "$gt", Null)>>)}
Astral == {Asked(<<Op("a", "$beginsWith", Str(<<7>>)), Op("b", "$gt", Null)>>)}

Odd == [deep |-> Obj(<<<<"a", Obj(<<<<"b", Num(1)>>, <<"n", Num(1)>>>>)>>, <<"b", Num(1)>>>>),
        alone |-> Obj(<<<<"a", Num(2)>>>>),
        emoji |-> Obj(<<<<"a", Str(<<7, 10>>)>>, <<"b", Num(1)>>>>)]
OddContent == MCContent @@ Odd
OddShapes == {DOMAIN Odd}
=============================================================================
