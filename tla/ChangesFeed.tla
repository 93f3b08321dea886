----------------------------- MODULE ChangesFeed -----------------------------
(***************************************************************************)
(* A changes feed (couch-http api_changes.rs) over a database that is      *)
(* being written to: the continuous feed scans a snapshot, sends the rows, *)
(* looks at the watch channel and sleeps on it; the longpoll probes,       *)
(* sleeps, and answers with one last scan; the normal feed is that answer. *)
(*                                                                         *)
(* A row is the seq of its write; a snapshot has a row for the last write  *)
(* of each document that was not purged.                                   *)
(***************************************************************************)
EXTENDS Database, Ordered, SequencesExt

CONSTANTS
    DocOf,       \* the document each request of DocWrites writes
    Filtered,    \* documents the feed's selector or doc_ids leave out
    Purges,      \* the writes whose revision a request of QuietWrites purges
    Kinds,       \* the kinds of feed a client may ask for
    ScanErrors,  \* whether a scan may fail
    Heartbeat,   \* whether the client asked for heartbeats
    Limit,       \* opts.limit
    DrainBatch,  \* DRAIN_BATCH
    Deleted      \* whether the database may be deleted

ASSUME FeedAssumption ==
    /\ Kinds \subseteq {"continuous", "longpoll", "normal"}
    /\ ScanErrors \in BOOLEAN /\ Heartbeat \in BOOLEAN
    /\ Limit \in Nat \ {0} /\ DrainBatch \in Nat \ {0} /\ Deleted \in BOOLEAN

VARIABLES
    fpc,     \* where the feed's task is
    kind,    \* what the client asked for
    start,   \* the since the client asked for
    since,   \* the seq the feed has got to
    batch,   \* rows scanned and not yet sent
    more,    \* more_backlog
    sent,    \* rows sent to the client
    seen,    \* the watch value of the last borrow_and_update
    listed   \* whether ServerState.dbs still has the database

feed == <<fpc, kind, start, since, batch, more, sent, seen, listed>>
feedVars == <<vars, feed>>

Least(m, n) == IF m < n THEN m ELSE n

PurgedIn(c) == UNION {Purges[q] : q \in c.quiet}

\* The seq tree: no row for a write that is superseded or purged.
Rows(c) ==
    {i \in 1..UpdateSeq(c) :
        /\ c.log[i] \notin PurgedIn(c)
        /\ \A j \in (i + 1)..UpdateSeq(c) : DocOf[c.log[j]] # DocOf[c.log[i]]}

\* change_row: those the filter lets through.
Wanted(c) == {i \in Rows(c) : DocOf[c.log[i]] \notin Filtered}

\* Mutant of Visited: the scan starts at the seq, not after it.
VisitedFrom(c, s, n) ==
    {i \in Rows(c) : i >= s /\ Cardinality({j \in Wanted(c) : s <= j /\ j < i}) < n}

\* What scan visits after seq s until it has n rows.
Visited(c, s, n) ==
    {i \in Rows(c) : i > s /\ Cardinality({j \in Wanted(c) : s < j /\ j < i}) < n}

\* Mutant of LastSeq: the seq of the last row, not of the last doc visited.
LastRow(c, s, n) == Max({s} \union (Visited(c, s, n) \intersect Wanted(c)))

LastSeq(c, s, n) == Max({s} \union Visited(c, s, n))

Scanned(c, s, n) == InOrder(Visited(c, s, n) \intersect Wanted(c))

FeedInit ==
    /\ Init
    /\ fpc = "off" /\ kind = "normal" /\ start = 0 /\ since = 0 /\ seen = 0
    /\ batch = <<>> /\ sent = <<>> /\ more = FALSE /\ listed = TRUE

\* changes_inner: the request arrives, resuming from a seq it was given before.
Connect ==
    /\ listed
    /\ fpc = "off"
    /\ start' \in 0..UpdateSeq(snap)
    /\ since' = start'
    /\ kind' \in Kinds
    /\ fpc' = CASE kind' = "continuous" -> "scan"
               [] kind' = "longpoll"   -> "probe"
               [] kind' = "normal"     -> "respond"
    /\ UNCHANGED <<vars, batch, more, sent, seen, listed>>

-----------------------------------------------------------------------------
(* continuous                                                               *)

Remaining == Limit - Len(sent)

Scan ==
    /\ fpc = "scan"
    /\ LET n == Least(Remaining, DrainBatch)
       IN  /\ batch' = Scanned(snap, since, n)
           /\ more' = (Len(batch') >= n)
           /\ since' = LastSeq(snap, since, n)
    /\ fpc' = "send"
    /\ UNCHANGED <<vars, kind, start, sent, seen, listed>>

SendRow ==
    /\ fpc = "send" /\ batch # <<>>
    /\ sent' = Append(sent, Head(batch))
    /\ batch' = Tail(batch)
    /\ UNCHANGED <<vars, fpc, kind, start, since, more, seen, listed>>

Drained ==
    /\ fpc = "send" /\ batch = <<>>
    /\ fpc' = IF Remaining = 0 THEN "ended" ELSE IF more THEN "scan" ELSE "check"
    /\ UNCHANGED <<vars, kind, start, since, batch, more, sent, seen, listed>>

\* Mutant of Check: the feed goes to sleep without looking.
CheckNothing ==
    /\ fpc = "check"
    /\ seen' = watch
    /\ fpc' = "wait"
    /\ UNCHANGED <<vars, kind, start, since, batch, more, sent, listed>>

\* Mutant of Check: the feed moves on to the seq it was woken with.
CheckAndSkip ==
    /\ fpc = "check"
    /\ seen' = watch
    /\ since' = Max({since, watch})
    /\ fpc' = IF watch > since THEN "scan" ELSE "wait"
    /\ UNCHANGED <<vars, kind, start, batch, more, sent, listed>>

\* borrow_and_update, by both kinds of feed.
Check ==
    /\ fpc = "check"
    /\ seen' = watch
    /\ fpc' = IF watch <= since THEN "wait"
              ELSE IF kind = "continuous" THEN "scan" ELSE "respond"
    /\ UNCHANGED <<vars, kind, start, since, batch, more, sent, listed>>

\* changed(): the watch was written since the last borrow_and_update.
Wake ==
    /\ fpc = "wait" /\ watch # seen
    /\ fpc' = IF kind = "continuous" THEN "scan" ELSE "check"
    /\ UNCHANGED <<vars, kind, start, since, batch, more, sent, seen, listed>>

\* The timer: a heartbeat and another scan, the end of a feed without
\* heartbeats, or a longpoll's answer.
Timeout ==
    /\ fpc = "wait"
    /\ fpc' = IF kind = "longpoll" THEN "respond"
              ELSE IF Heartbeat THEN "scan" ELSE "ended"
    /\ UNCHANGED <<vars, kind, start, since, batch, more, sent, seen, listed>>

\* A continuous feed finds the client gone when it sends, another one when the
\* server drops its request.
ClientGone ==
    /\ \/ fpc = "send" /\ batch # <<>>
       \/ fpc = "wait" /\ (kind = "continuous" => Heartbeat)
       \/ fpc = "respond"
    /\ fpc' = "gone"
    /\ UNCHANGED <<vars, kind, start, since, batch, more, sent, seen, listed>>

-----------------------------------------------------------------------------
(* longpoll                                                                 *)

Probe ==
    /\ fpc = "probe"
    /\ fpc' = IF Scanned(snap, since, 1) = <<>> THEN "check" ELSE "respond"
    /\ UNCHANGED <<vars, kind, start, since, batch, more, sent, seen, listed>>

\* stream_normal, over a snapshot of its own.
Respond ==
    /\ fpc = "respond"
    /\ sent' = Scanned(snap, since, Limit)
    /\ since' = LastSeq(snap, since, Limit)
    /\ fpc' = "ended"
    /\ UNCHANGED <<vars, kind, start, batch, more, seen, listed>>

\* A continuous feed ends with the seq it has; the others answer with an error
\* or half an answer.
ScanFails ==
    /\ ScanErrors
    /\ fpc \in {"scan", "probe", "respond"}
    /\ fpc' = IF fpc = "scan" THEN "ended" ELSE "gone"
    /\ UNCHANGED <<vars, kind, start, since, batch, more, sent, seen, listed>>

-----------------------------------------------------------------------------
\* delete_db takes the handle out of the map.  The sender of the watch lives
\* as long as any handle does, and the feed's task has one: the arm of
\* changed() for a dropped sender is never taken.
DeleteDb ==
    /\ Deleted /\ listed
    /\ listed' = FALSE
    /\ UNCHANGED <<vars, fpc, kind, start, since, batch, more, sent, seen>>

FeedStep ==
    \/ Scan \/ SendRow \/ Drained
    \/ Check \/ Wake
    \/ Probe \/ Respond

\* A client names only revisions it was told of in a purge.
MayArrive(p) ==
    listed /\ (p \in QuietWrites => \A w \in Purges[p] : pc[w] = "done")

FeedNext ==
    \/ \E p \in Requests :
          /\ (MayArrive(p) /\ Arrive(p)) \/ Step(p)
          /\ UNCHANGED feed
    \/ DeleteDb \/ Connect \/ FeedStep \/ Timeout \/ ClientGone \/ ScanFails

FeedSpec == FeedInit /\ [][FeedNext]_feedVars

\* The task runs whenever it can; its timer may be arbitrarily far away.
FairFeedSpec ==
    /\ FeedSpec
    /\ WF_feedVars(FeedStep)
    /\ \A p \in Requests : WF_feedVars(Step(p) /\ UNCHANGED feed)

-----------------------------------------------------------------------------
(* Properties                                                               *)

\* Reading on from the seq a feed has got to, or that its answer ends with,
\* loses nothing: every row before it that is still in the file was sent.
NoRowSkipped ==
    \A i \in Wanted(header) :
        start < i /\ i <= since /\ fpc # "gone"
          => i \in Range(sent) \union Range(batch)

\* No row is sent twice, and rows are sent in the order of their seqs.
RowsInOrder ==
    LET rows == sent \o batch
    IN  \A i, j \in 1..Len(rows) : i < j => rows[i] < rows[j]

\* A feed sends what happened since its start, each row once and in order, and
\* can be resumed from any seq it gave out (api_changes.rs:347-371).
RowsExactlyOnce == NoRowSkipped /\ RowsInOrder

\* A write that was acknowledged while a feed is listening is sent, or its
\* document was written again or purged, or the feed has come to its end: no
\* wake-up is lost between the scan and the sleep (api_changes.rs:381-384).
AckedWriteReachesFeed ==
    \A w \in DocWrites :
        (pc[w] = "done" /\ DocOf[w] \notin Filtered)
          ~> (\/ fpc \in {"off", "ended", "gone"}
              \/ \A i \in Wanted(header) : header.log[i] = w => i <= start \/ i \in Range(sent))

\* A longpoll that a write woke does not answer that nothing happened: it is
\* the snapshot with the write that it scans (api_changes.rs:239-242).
LongpollHasNews ==
    fpc = "ended" /\ sent = <<>> /\ kind = "longpoll"
      => ~\E i \in Wanted(header) : start < i /\ i <= seen

\* What a feed of any kind sends is right: all there is, once and in order, and
\* something when it was woken for it.
FeedIsRight == RowsExactlyOnce /\ LongpollHasNews

\* README.md:67: "feed=continuous always stays identity so heartbeats flow": a
\* feed with nothing to send gets to its heartbeat timer again and again.
HeartbeatsFlow == []<>(fpc \in {"off", "wait", "ended", "gone"})

-----------------------------------------------------------------------------
(* What RowsExactlyOnce and LongpollHasNews need beyond the invariant of    *)
(* the database.                                                            *)

FeedTypeOK ==
    /\ fpc \in {"off", "scan", "send", "check", "wait", "probe", "respond", "ended", "gone"}
    /\ kind \in Kinds \union {"normal"}
    /\ start \in Nat /\ since \in Nat /\ seen \in Nat
    /\ batch \in Seq(Nat) /\ sent \in Seq(Nat)

\* Each kind of feed has its own steps; only one that sends has a batch, and one
\* that answers all at once has sent nothing before.
StepsOfItsKind ==
    /\ fpc \in {"scan", "send"} => kind = "continuous"
    /\ fpc = "respond" => kind # "continuous"
    /\ fpc = "probe" => kind = "longpoll"
    /\ fpc \in {"check", "wait"} => kind # "normal"
    /\ fpc \notin {"send", "gone"} => batch = <<>>
    /\ fpc \in {"off", "probe", "respond"} \/ (kind # "continuous" /\ fpc \in {"check", "wait"}) =>
         sent = <<>> /\ since = start

\* The feed is behind the snapshot it reads, and the rows it took are of its way.
FeedIsBehind ==
    /\ start <= since /\ since <= UpdateSeq(snap) /\ seen <= UpdateSeq(snap)
    /\ LET rows == sent \o batch
       IN  \A k \in 1..Len(rows) : start < rows[k] /\ rows[k] <= since

FeedInv ==
    /\ FeedTypeOK /\ StepsOfItsKind /\ FeedIsBehind
    /\ RowsExactlyOnce /\ LongpollHasNews
=============================================================================
