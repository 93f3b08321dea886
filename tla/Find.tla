-------------------------------- MODULE Find --------------------------------
(* couch-index/src/find.rs: a query takes an index, scans a range of it and*)
(* filters what it meets, or scans the documents when no index fits.       *)
(*                                                                         *)
(* The index has the rows that module IndexFile shows it to have: for each *)
(* document of the snapshot that of its winner, and perhaps rows of        *)
(* documents that were purged.                                             *)
EXTENDS Planner
LOCAL INSTANCE SequencesExt
LOCAL INSTANCE FiniteSetsExt

CONSTANTS
  Ids,        \* ids of documents
  Content,    \* body -> document
  Shapes,     \* sets of bodies: a database holds documents of one of them
  Queries     \* the queries asked

VARIABLES
  docs,       \* id -> [body, purged]: a purged document left its row behind
  built,      \* the definitions that have a file
  pc,         \* "idle", "scan", "done", "refused"
  query,
  ids,        \* the candidates, in the order of the scan
  skipped,    \* matches passed over so far
  out         \* ids of the documents emitted

vars == <<docs, built, pc, query, ids, skipped, out>>

Init ==
  /\ \E bodies \in Shapes : docs \in [Ids -> [body : bodies, purged : BOOLEAN]]
  /\ built \in {{}, DOMAIN Defs}
  /\ pc = "idle"
  /\ query \in Queries
  /\ ids = <<>> /\ skipped = 0 /\ out = <<>>

Document(id) == Content[docs[id].body]

(* A partial index has no row for a document its filter turns down.        *)
RowsOf(d, id) ==
  IF Defs[d].filter # NoFilter /\ ~Matches(Defs[d].filter, Document(id)) THEN {}
  ELSE {[cols |-> c, id |-> id] : c \in DocKey(d, Document(id))}

Rows(d) == UNION {RowsOf(d, id) : id \in Ids}

(* The documents in the order of their ids.                                *)
AllDocs ==
  LET Before(a, b) == Order[a] < Order[b]
  IN  SetToSortSeq({id \in Ids : ~docs[id].purged}, Before)

(* An index is chosen; without one the documents are scanned, unless the   *)
(* query names an index or asks for an order.                              *)
Start ==
  \E chosen \in {Choose(DOMAIN Defs, built, query)} :
    /\ pc = "idle"
    /\ \/ /\ \E u \in chosen : /\ ids' = Candidates(u, Rows(u.def), query)
                              /\ built' = built \cup {u.def}
          /\ pc' = "scan"
       \/ /\ chosen = {} /\ query.useIndex = "" /\ query.sort = <<>>
          /\ ids' = AllDocs
          /\ pc' = "scan"
          /\ UNCHANGED built
       \/ /\ chosen = {} /\ (query.useIndex # "" \/ query.sort # <<>>)
          /\ pc' = "refused"
          /\ UNCHANGED <<ids, built>>
    /\ UNCHANGED <<docs, query, skipped, out>>

(* One candidate: opened in the snapshot, held against the whole selector, *)
(* passed over while there is something to skip, emitted up to the limit.  *)
Accepted(id) == ~docs[id].purged /\ Matches(query.selector, Document(id))

ProcessPastLimit ==    \* a fault: the limit is looked at after one more result
  LET id == Head(ids)
  IN  /\ pc = "scan" /\ ids # <<>>
      /\ ids' = Tail(ids)
      /\ IF ~Accepted(id) THEN UNCHANGED <<skipped, out, pc>>
         ELSE IF skipped < query.skip
         THEN skipped' = skipped + 1 /\ UNCHANGED <<out, pc>>
         ELSE /\ out' = Append(out, id)
              /\ pc' = IF Len(out) >= query.limit THEN "done" ELSE "scan"
              /\ UNCHANGED skipped
      /\ UNCHANGED <<docs, built, query>>

Process ==
  LET id == Head(ids)
      full == Len(out) + 1 >= query.limit
  IN  /\ pc = "scan" /\ ids # <<>>
      /\ ids' = Tail(ids)
      /\ \/ /\ ~Accepted(id)
            /\ UNCHANGED <<skipped, out, pc>>
         \/ /\ Accepted(id) /\ skipped < query.skip
            /\ skipped' = skipped + 1
            /\ UNCHANGED <<out, pc>>
         \/ /\ Accepted(id) /\ skipped = query.skip
            /\ out' = IF Len(out) < query.limit THEN Append(out, id) ELSE out
            /\ pc' = IF full THEN "done" ELSE "scan"
            /\ UNCHANGED skipped
      /\ UNCHANGED <<docs, built, query>>

ScanEnds ==
  /\ pc = "scan" /\ ids = <<>>
  /\ pc' = "done"
  /\ UNCHANGED <<docs, built, query, ids, skipped, out>>

Next == Start \/ Process \/ ScanEnds
Spec == Init /\ [][Next]_vars

---------------------------------------------------------------------------
(* What the query is after.  A document without a field that is sorted by  *)
(* has no place in the order and is left out.                              *)
Wanted ==
  {id \in Ids : /\ Accepted(id)
                /\ \A i \in DOMAIN query.sort :
                     ~Is(GetField(Document(id), query.sort[i]), "missing")}

SortKey(id) == [i \in DOMAIN query.sort |-> GetField(Document(id), query.sort[i])]

SortsBefore(a, b) ==
  LET order == CompareCols(SortKey(a), SortKey(b))
  IN  IF query.descending THEN order > 0 ELSE order < 0

(* TypeOK: the answer is made of documents of the snapshot, skip and limit *)
(* are kept.                                                               *)
TypeOK ==
  /\ built \subseteq DOMAIN Defs
  /\ pc \in {"idle", "scan", "done", "refused"}
  /\ skipped \in 0..query.skip /\ Len(out) <= query.limit
  /\ ToSet(ids) \cup ToSet(out) \subseteq Ids

(* A query answers with what a scan of all documents would have answered:  *)
(* only wanted documents, none twice, and as many as skip and limit leave. *)
FindIsScan ==
  pc = "done" =>
    /\ ToSet(out) \subseteq Wanted
    /\ Cardinality(ToSet(out)) = Len(out)
    /\ Len(out) = Min({query.limit, Max({0, Cardinality(Wanted) - query.skip})})

(* The page is the page of the sorted answer, although only the columns of *)
(* the index are in order and some of them stand before those sorted by:   *)
(* no more documents come before a result than skip and the page itself    *)
(* leave room for, and enough of them do.                                  *)
PageInOrder ==
  pc = "done" =>
    \A i \in DOMAIN out :
      LET before == {id \in Wanted : SortsBefore(id, out[i])}
          after == {id \in Wanted : SortsBefore(out[i], id)}
      IN  /\ Cardinality(before) < query.skip + i
          /\ query.skip + i <= Cardinality(Wanted) - Cardinality(after)

(* The answer is a page: within its limit, right in order and contents.     *)
PageIsRight == TypeOK /\ PageInOrder

(* An answer through an index is the page that a full scan would give.      *)
AnswerIsRight == FindIsScan /\ PageIsRight
=============================================================================
