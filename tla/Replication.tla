---------------------------- MODULE Replication ----------------------------
(***************************************************************************)
(* A replication (couch-repl pipeline.rs and its stages): sessions of five *)
(* concurrent stages that copy what the source's changes feed lists to the *)
(* target, share a ledger and a cancel token, and record how far they got  *)
(* in a checkpoint document on either endpoint.                            *)
(*                                                                         *)
(* A revision is numbered by the seq of the update that wrote it.  What is *)
(* between two stages - channels, batches, requests in flight - is one set *)
(* of items, taken from in any order.  Requests that fail for good, lost   *)
(* connections, crashes and cancellations draw on one budget, MaxFaults.   *)
(***************************************************************************)
EXTENDS SeqLedger, Ordered, SequencesExt

CONSTANTS
    Docs,
    Updates,      \* the updates of the source: [doc, parent], parent 0 for none
    InitialSource,   \* how many of them it has to begin with
    Hidden,       \* documents the replication's filter leaves out
    WithAtts,     \* revisions with attachments
    Options,      \* of the sessions: [continuous, continueOnError], see RepOptions
    PageSize,     \* opts.changes_limit
    Capacity,     \* of the channel the reader fills
    MaxSessions,  \* bound on the sessions
    MaxFaults     \* bound on what goes wrong

ASSUME ReplicationAssumption ==
    /\ Updates \in Seq([doc : Docs, parent : Nat])
    /\ \A i \in 1..Len(Updates) :
          LET p == Updates[i].parent IN p < i /\ (p # 0 => Updates[p].doc = Updates[i].doc)
    /\ InitialSource \in 0..Len(Updates)
    /\ Hidden \subseteq Docs /\ PageSize \in Nat \ {0} /\ Capacity \in Nat \ {0}
    /\ Options \subseteq [continuous : BOOLEAN, continueOnError : BOOLEAN] /\ Options # {}
    /\ MaxSessions \in Nat \ {0} /\ MaxFaults \in Nat

VARIABLES
    source,      \* how many of the updates the source has
    target,      \* the revisions the target knows
    srcCkpt, tgtCkpt,   \* history of the checkpoint documents, newest first
    session,     \* [id, opts, from: the source at its start, skips: it has skipped some]
    phase,       \* of replicate: "off", "running", "closing", "final"
    result,      \* what it returned last: "clean" is 0, "partial" is 2
    reader,      \* the changes reader: [at, since, page, last]
    ledger,
    changes, missing, units, atts, fetched,   \* what each stage has to do
    skipped,     \* revisions given up on in any session
    cancelled,   \* the cancel token
    failed,      \* first_err is set
    history, lastWritten,   \* CkptState
    ckpts,       \* the checkpoints under way: [by, at, doc]
    faults       \* how many more things may go wrong

endpoints == <<source, target, srcCkpt, tgtCkpt>>
items == <<changes, missing, units, atts, fetched>>
token == <<cancelled, failed>>
recorder == <<history, lastWritten>>
run == <<session, phase, result>>
vars == <<endpoints, run, reader, ledger, items, skipped, token, recorder, ckpts, faults>>

Fault == faults > 0 /\ faults' = faults - 1

-----------------------------------------------------------------------------
(* The source                                                               *)

ParentOf(i) == Updates[i].parent

RevsOf(d, n) == {i \in 1..n : Updates[i].doc = d}

Leaves(d, n) == {i \in RevsOf(d, n) : \A j \in RevsOf(d, n) : ParentOf(j) # i}

\* Ancestry[i]: i and its ancestors.
Ancestry[i \in 0..Len(Updates)] == IF i = 0 THEN {} ELSE {i} \union Ancestry[ParentOf(i)]

\* The seq a document is listed at.
RowSeq(d, n) == Max(RevsOf(d, n))

\* The rows of the documents changed after seq s, in their order.
RowsAfter(s, n) ==
    LET docs == {d \in Docs \ Hidden : RevsOf(d, n) # {} /\ RowSeq(d, n) > s}
        seqs == InOrder({RowSeq(d, n) : d \in docs})
    IN  [k \in DOMAIN seqs |->
            [seq |-> seqs[k], revs |-> Leaves(Updates[seqs[k]].doc, n)]]

UpdateSource ==
    /\ source < Len(Updates)
    /\ source' = source + 1
    /\ UNCHANGED <<target, srcCkpt, tgtCkpt, run, reader, ledger, items, skipped, token,
                   recorder, ckpts, faults>>

-----------------------------------------------------------------------------
(* Checkpointer                                                             *)

\* The seq recorded on the source under the newest session the target knows.
CommonSeq(s, t) ==
    LET shared == {i \in 1..Len(s) : \E j \in 1..Len(t) : t[j].session = s[i].session}
    IN  IF shared = {} THEN {} ELSE {s[Min(shared)].seq}

\* load: where to start, and the history to continue.
Resume(s, t) ==
    IF s # <<>> /\ CommonSeq(s, t) # {} THEN [seq |-> Max(CommonSeq(s, t)), history |-> s]
    ELSE IF s = <<>> /\ t # <<>> THEN [seq |-> t[1].seq, history |-> t]
    ELSE [seq |-> 0, history |-> <<>>]

ResumeSeq == Resume(srcCkpt, tgtCkpt).seq

\* The document: this session's entry before those of other sessions.
CheckpointDoc(seq) ==
    LET others[i \in 0..Len(history)] ==
            IF i = 0 THEN <<>>
            ELSE IF history[i].session = session.id THEN others[i - 1]
            ELSE Append(others[i - 1], history[i])
    IN  <<[session |-> session.id, seq |-> seq]>> \o others[Len(history)]

HasNews == ledger.committable \notin {{}, lastWritten}

\* checkpoint: the document is built before either endpoint is written.
NewCheckpoint(by) ==
    ckpts' = ckpts \union {[by |-> by, at |-> "target", doc |-> CheckpointDoc(Max(ledger.committable))]}

\* The checkpoint task ticks; it takes one checkpoint at a time.
PeriodicCheckpoint ==
    /\ phase = "running" /\ HasNews
    /\ \A c \in ckpts : c.doc[1].session # session.id
    /\ NewCheckpoint("periodic")
    /\ UNCHANGED <<endpoints, run, reader, ledger, items, skipped, token, recorder, faults>>

\* put_local on the target: a conflict is retried with the rev found there.
PutTarget(c) ==
    /\ c.at = "target"
    /\ tgtCkpt' = c.doc
    /\ ckpts' = (ckpts \ {c}) \union {[c EXCEPT !.at = "source"]}
    /\ UNCHANGED <<source, target, srcCkpt, run, reader, ledger, items, skipped, token,
                   recorder, faults>>

\* The state belongs to the session that took the checkpoint.
PutSource(c) ==
    /\ c.at = "source"
    /\ srcCkpt' = c.doc
    /\ ckpts' = ckpts \ {c}
    /\ IF c.doc[1].session = session.id
       THEN history' = c.doc /\ lastWritten' = {c.doc[1].seq}
       ELSE UNCHANGED recorder
    /\ UNCHANGED <<source, target, tgtCkpt, run, reader, ledger, items, skipped, token, faults>>

\* The put fails, or its answer is lost after it was applied.  So does one that
\* the source refuses (401, 403): the code then writes the target alone, here the
\* next checkpoint may try the source again.
PutFails(c) ==
    /\ Fault
    /\ ckpts' = ckpts \ {c}
    /\ \/ /\ c.at = "target"
          /\ tgtCkpt' \in {tgtCkpt, c.doc}
          /\ UNCHANGED srcCkpt
       \/ /\ c.at = "source"
          /\ srcCkpt' \in {srcCkpt, c.doc}
          /\ UNCHANGED tgtCkpt
    /\ UNCHANGED <<source, target, run, reader, ledger, items, skipped, token, recorder>>

-----------------------------------------------------------------------------
(* replicate: the begin and the end of a session                            *)

StartSession(opts) ==
    /\ phase = "off" /\ session.id < MaxSessions
    /\ LET start == Resume(srcCkpt, tgtCkpt)
       IN  /\ history' = start.history
           /\ reader' = [at |-> "fetch", since |-> start.seq, page |-> <<>>,
                         last |-> start.seq, end |-> FALSE]
    /\ session' = [id |-> session.id + 1, opts |-> opts, from |-> source, skips |-> FALSE]
    /\ phase' = "running" /\ result' = "none"
    /\ ledger' = NewLedger /\ lastWritten' = {}
    /\ cancelled' = FALSE /\ failed' = FALSE
    /\ UNCHANGED <<endpoints, items, skipped, ckpts, faults>>

\* The stages have ended in pipeline order; the checkpoint task is told to stop,
\* and what it has under way goes on.
Close ==
    /\ phase = "running" /\ reader.at = "stopped"
    /\ changes \union missing \union units \union atts \union fetched = {}
    /\ phase' = "closing"
    /\ UNCHANGED <<endpoints, session, result, reader, ledger, items, skipped, token, recorder,
                   ckpts, faults>>

FinalCheckpoint ==
    /\ phase = "closing"
    /\ phase' = "final"
    /\ IF HasNews THEN NewCheckpoint("final") ELSE UNCHANGED ckpts
    /\ UNCHANGED <<endpoints, session, result, reader, ledger, items, skipped, token, recorder,
                   faults>>

Return ==
    /\ phase = "final"
    /\ \A c \in ckpts : c.by # "final"
    /\ phase' = "off"
    /\ result' = IF failed THEN "error" ELSE IF session.skips THEN "partial" ELSE "clean"
    /\ UNCHANGED <<endpoints, session, reader, ledger, items, skipped, token, recorder, ckpts,
                   faults>>

\* The process is killed: only the endpoints keep what they have.
Crash ==
    /\ phase # "off" \/ ckpts # {}
    /\ Fault
    /\ phase' = "off" /\ result' = "none"
    /\ changes' = {} /\ missing' = {} /\ units' = {} /\ atts' = {} /\ fetched' = {}
    /\ ckpts' = {}
    /\ UNCHANGED <<endpoints, session, reader, ledger, skipped, token, recorder>>

\* The job is cancelled by its owner.
Cancel ==
    /\ phase = "running" /\ ~cancelled /\ Fault
    /\ cancelled' = TRUE
    /\ UNCHANGED <<endpoints, run, reader, ledger, items, skipped, failed, recorder, ckpts>>

\* A stage returned an error: first_err is set and the token cancelled.
Fails == failed' = TRUE /\ cancelled' = TRUE

-----------------------------------------------------------------------------
(* ChangesReader                                                            *)

\* Mutant of FetchPage: a full page is taken for the last one.
FetchOnePage ==
    /\ phase = "running" /\ reader.at = "fetch" /\ ~cancelled
    /\ LET rows == RowsAfter(reader.since, source)
           n == Min({Len(rows), PageSize})
       IN  /\ session.opts.continuous => rows # <<>>
           /\ reader' = [reader EXCEPT
                !.at = "emit", !.page = SubSeq(rows, 1, n), !.end = TRUE,
                !.last = IF n < PageSize THEN source ELSE rows[n].seq]
    /\ UNCHANGED <<endpoints, run, ledger, items, skipped, token, recorder, ckpts, faults>>

\* fetch_page, or what the continuous feed sends next.  A limited page ends at
\* its last row, another one at the last row of the feed.
FetchPage ==
    /\ phase = "running" /\ reader.at = "fetch" /\ ~cancelled
    /\ LET rows == RowsAfter(reader.since, source)
           full == Len(rows) >= PageSize
           last == IF full THEN rows[PageSize].seq ELSE source
       IN  /\ session.opts.continuous => rows # <<>>
           /\ reader' = [reader EXCEPT
                !.at = "emit",
                !.page = SubSeq(rows, 1, Min({Len(rows), PageSize})),
                !.last = last,
                !.end = last = source]
    /\ UNCHANGED <<endpoints, run, ledger, items, skipped, token, recorder, ckpts, faults>>

\* emit: the row is registered and sent once the channel has room.
Emit ==
    /\ phase = "running" /\ reader.at = "emit" /\ reader.page # <<>>
    /\ Cardinality(changes) < Capacity
    /\ LET row == Head(reader.page)
       IN  /\ ledger' = Register(ledger, row.seq)
           /\ changes' = changes \union {[ord |-> ledger.next, revs |-> row.revs]}
           /\ reader' = [reader EXCEPT
                !.page = Tail(@),
                !.since = IF session.opts.continuous THEN row.seq ELSE @]
    /\ UNCHANGED <<endpoints, run, missing, units, atts, fetched, skipped, token, recorder,
                   ckpts, faults>>

\* The end of a page: the barrier, and the next page unless this one is the last.
PageDone ==
    /\ phase = "running" /\ reader.at = "emit" /\ ~session.opts.continuous
    /\ reader.page = <<>>
    /\ ledger' = RegisterDone(ledger, reader.last)
    /\ reader' = [reader EXCEPT
         !.at = IF reader.end THEN "stopped" ELSE "fetch", !.since = reader.last]
    /\ UNCHANGED <<endpoints, run, items, skipped, token, recorder, ckpts, faults>>

\* The rows of a chunk of the continuous feed are all read: wait for the next.
ChunkDone ==
    /\ phase = "running" /\ reader.at = "emit" /\ session.opts.continuous
    /\ reader.page = <<>>
    /\ reader' = [reader EXCEPT !.at = "fetch"]
    /\ UNCHANGED <<endpoints, run, ledger, items, skipped, token, recorder, ckpts, faults>>

\* Mutant of FeedDrops: since is moved when the chunk is read.
FeedDropsAhead ==
    /\ phase = "running" /\ reader.at = "emit" /\ session.opts.continuous
    /\ Fault
    /\ reader' = [reader EXCEPT !.at = "fetch", !.page = <<>>, !.since = reader.last]
    /\ UNCHANGED <<endpoints, run, ledger, items, skipped, token, recorder, ckpts>>

\* The continuous feed is lost with a network error: reconnect from since.
FeedDrops ==
    /\ phase = "running" /\ reader.at = "emit" /\ session.opts.continuous
    /\ Fault
    /\ reader' = [reader EXCEPT !.at = "fetch", !.page = <<>>, !.last = reader.since]
    /\ UNCHANGED <<endpoints, run, ledger, items, skipped, token, recorder, ckpts>>

\* The request for a page fails for good, or a continuous feed is closed or
\* stalls: a protocol error, after which the reader does not reconnect.
ReadFails ==
    /\ phase = "running" /\ Fault
    /\ reader.at \in (IF session.opts.continuous THEN {"fetch", "emit"} ELSE {"fetch"})
    /\ reader' = [reader EXCEPT !.at = "stopped", !.page = <<>>]
    /\ Fails
    /\ UNCHANGED <<endpoints, run, ledger, items, skipped, recorder, ckpts>>

\* The server ends a continuous feed: a last_seq line, and the feed is closed.
FeedEnds ==
    /\ phase = "running" /\ reader.at # "stopped" /\ session.opts.continuous
    /\ reader.page = <<>> /\ Fault
    /\ ledger' = RegisterDone(ledger, reader.last)
    /\ reader' = [reader EXCEPT !.at = "stopped"]
    /\ Fails
    /\ UNCHANGED <<endpoints, run, items, skipped, recorder, ckpts>>

\* Mutant of ReaderStops: a reader that waits for the feed does not look at the token.
ReaderStopsAtRows ==
    /\ phase = "running" /\ reader.at = "emit" /\ cancelled
    /\ reader' = [reader EXCEPT !.at = "stopped", !.page = <<>>]
    /\ UNCHANGED <<endpoints, run, ledger, items, skipped, token, recorder, ckpts, faults>>

\* A cancelled reader stops: between two rows, or while it waits for room with a
\* row registered and not sent.  A send that finds the channel closed is an error
\* in a one-shot run.
ReaderStops ==
    /\ phase = "running" /\ reader.at # "stopped" /\ cancelled
    /\ IF reader.page = <<>> THEN UNCHANGED <<ledger, failed>>
       ELSE /\ ledger' \in {ledger, Register(ledger, Head(reader.page).seq)}
            /\ failed' \in {failed, failed \/ ~session.opts.continuous}
    /\ reader' = [reader EXCEPT !.at = "stopped", !.page = <<>>]
    /\ UNCHANGED <<endpoints, run, items, skipped, cancelled, recorder, ckpts, faults>>

-----------------------------------------------------------------------------
(* RevsDiff                                                                 *)

\* check_batch: a change with no revision missing is done.
Diff(tc) ==
    /\ changes' = changes \ {tc}
    /\ IF tc.revs \subseteq target
       THEN ledger' = Complete(ledger, {tc}) /\ UNCHANGED missing
       ELSE /\ missing' = missing \union {[tc EXCEPT !.revs = @ \ target]}
            /\ UNCHANGED ledger
    /\ UNCHANGED <<endpoints, run, reader, units, atts, fetched, skipped, token, recorder, ckpts,
                   faults>>

DiffFails(tc) ==
    /\ Fault /\ Fails
    /\ changes' = changes \ {tc}
    /\ UNCHANGED <<endpoints, run, reader, ledger, missing, units, atts, fetched, skipped,
                   recorder, ckpts>>

-----------------------------------------------------------------------------
(* Fetcher                                                                  *)

\* The exploder: one unit of work for each missing revision.
Explode(md) ==
    /\ missing' = missing \ {md}
    /\ ledger' = Expand(ledger, md.ord, Cardinality(md.revs))
    /\ units' = units \union {[ord |-> md.ord, rev |-> r] : r \in md.revs}
    /\ UNCHANGED <<endpoints, run, reader, changes, atts, fetched, skipped, token, recorder,
                   ckpts, faults>>

\* What the source answers: bulk_get the newest leaf below the revision,
\* fetch_single the revision itself.
Bodies(rev) ==
    {rev, Max({i \in Leaves(Updates[rev].doc, source) : rev \in Ancestry[i]})}

\* route: a document with attachments takes the attachment lane.
Fetch(u) ==
    /\ units' = units \ {u}
    /\ \E body \in Bodies(u.rev) :
         LET item == [u EXCEPT !.rev = body]
         IN  IF body \in WithAtts
             THEN atts' = atts \union {item} /\ UNCHANGED fetched
             ELSE fetched' = fetched \union {item} /\ UNCHANGED atts
    /\ UNCHANGED <<endpoints, run, reader, ledger, changes, missing, skipped, token, recorder,
                   ckpts, faults>>

Abort == Fails /\ UNCHANGED <<ledger, skipped, session>>

\* An item that cannot be copied is skipped with continue_on_error, or else an
\* error of its stage.
GiveUp(w) ==
    IF session.opts.continueOnError
    THEN /\ ledger' = Complete(ledger, {w})
         /\ skipped' = skipped \union {w.rev}
         /\ session' = [session EXCEPT !.skips = TRUE]
         /\ UNCHANGED token
    ELSE Abort

\* doc_failed, or a _bulk_get that fails for good or answers nonsense.
FetchFails(u) ==
    /\ Fault
    /\ units' = units \ {u}
    /\ GiveUp(u) \/ Abort
    /\ UNCHANGED <<endpoints, phase, result, reader, changes, missing, atts, fetched, recorder,
                   ckpts>>

-----------------------------------------------------------------------------
(* AttLane                                                                  *)

\* inline: small attachments are fetched with the document, which is written
\* with the others.
AttInline(ad) ==
    /\ atts' = atts \ {ad}
    /\ fetched' = fetched \union {ad}
    /\ UNCHANGED <<endpoints, run, reader, ledger, changes, missing, units, skipped, token,
                   recorder, ckpts, faults>>

\* stream_copy: one PUT for document and attachments.
AttStream(ad) ==
    /\ atts' = atts \ {ad}
    /\ target' = target \union Ancestry[ad.rev]
    /\ ledger' = Complete(ledger, {ad})
    /\ UNCHANGED <<source, srcCkpt, tgtCkpt, run, reader, changes, missing, units, fetched,
                   skipped, token, recorder, ckpts, faults>>

\* process, with an error: the PUT may have been applied.
AttFails(ad) ==
    /\ Fault
    /\ atts' = atts \ {ad}
    /\ target' \in {target, target \union Ancestry[ad.rev]}
    /\ GiveUp(ad)
    /\ UNCHANGED <<source, srcCkpt, tgtCkpt, phase, result, reader, changes, missing, units,
                   fetched, recorder, ckpts>>

-----------------------------------------------------------------------------
(* Writer                                                                   *)

\* Mutant of Written: documents are written without their _revisions.
WrittenAlone(batch) == {w.rev : w \in batch}

Written(batch) == UNION {Ancestry[w.rev] : w \in batch}

Flush(batch) ==
    /\ fetched' = fetched \ batch
    /\ target' = target \union Written(batch)
    /\ ledger' = Complete(ledger, batch)
    /\ UNCHANGED <<source, srcCkpt, tgtCkpt, run, reader, changes, missing, units, atts, skipped,
                   token, recorder, ckpts, faults>>

\* post_raw sends the batch again when the answer is lost.
FlushUnanswered(batch) ==
    /\ Fault
    /\ target' = target \union Written(batch)
    /\ UNCHANGED <<source, srcCkpt, tgtCkpt, run, reader, ledger, items, skipped, token, recorder,
                   ckpts>>

\* The target rejects some of the batch.  A document counts as failed if any of
\* its revisions is; without continue_on_error the flush ends at the first one,
\* with what precedes it done.
FlushRejected(batch, rejected) ==
    LET docs == {Updates[w.rev].doc : w \in rejected}
        bad == {w \in batch : Updates[w.rev].doc \in docs}
    IN  /\ Fault
        /\ fetched' = fetched \ batch
        /\ target' = target \union Written(batch \ rejected)
        /\ IF session.opts.continueOnError
           THEN /\ ledger' = Complete(ledger, batch)
                /\ skipped' = skipped \union {w.rev : w \in bad}
                /\ session' = [session EXCEPT !.skips = TRUE]
                /\ UNCHANGED token
           ELSE /\ \E done \in SUBSET (batch \ bad) : ledger' = Complete(ledger, done)
                /\ Fails
                /\ UNCHANGED <<skipped, session>>
        /\ UNCHANGED <<source, srcCkpt, tgtCkpt, phase, result, reader, changes, missing, units,
                       atts, recorder, ckpts>>

\* The request fails for good.
FlushFails(batch) ==
    /\ Fault /\ Fails
    /\ fetched' = fetched \ batch
    /\ target' \in {target, target \union Written(batch)}
    /\ UNCHANGED <<source, srcCkpt, tgtCkpt, run, reader, ledger, changes, missing, units, atts,
                   skipped, recorder, ckpts>>

\* A cancelled stage takes its input and does nothing with it.
Drop ==
    /\ phase = "running" /\ cancelled
    /\ \/ changes # {} /\ changes' = {} /\ UNCHANGED <<missing, units, atts, fetched>>
       \/ units # {} /\ units' = {} /\ UNCHANGED <<changes, missing, atts, fetched>>
       \/ atts # {} /\ atts' = {} /\ UNCHANGED <<changes, missing, units, fetched>>
       \/ fetched # {} /\ fetched' = {} /\ UNCHANGED <<changes, missing, units, atts>>
    /\ UNCHANGED <<endpoints, run, reader, ledger, skipped, token, recorder, ckpts, faults>>

-----------------------------------------------------------------------------
(* The specification                                                        *)

Init ==
    /\ source = InitialSource /\ target = {}
    /\ srcCkpt = <<>> /\ tgtCkpt = <<>>
    /\ session = [id |-> 0, opts |-> CHOOSE o \in Options : TRUE, from |-> 0, skips |-> FALSE]
    /\ phase = "off" /\ result = "none"
    /\ reader = [at |-> "stopped", since |-> 0, page |-> <<>>, last |-> 0, end |-> FALSE]
    /\ ledger = NewLedger
    /\ changes = {} /\ missing = {} /\ units = {} /\ atts = {} /\ fetched = {}
    /\ skipped = {}
    /\ cancelled = FALSE /\ failed = FALSE
    /\ history = <<>> /\ lastWritten = {}
    /\ ckpts = {}
    /\ faults = MaxFaults

Batches == (SUBSET fetched) \ {{}}

Reads == FetchPage \/ Emit \/ PageDone \/ ChunkDone \/ ReaderStops

Copies ==
    \/ \E tc \in changes : Diff(tc)
    \/ \E md \in missing : Explode(md)
    \/ \E u \in units : Fetch(u)
    \/ \E ad \in atts : AttInline(ad) \/ AttStream(ad)
    \/ \E batch \in Batches : Flush(batch)

Records ==
    \/ \E c \in ckpts : PutTarget(c) \/ PutSource(c)
    \/ Close \/ FinalCheckpoint \/ Return

Progress == Reads \/ Copies \/ Drop \/ Records

Trouble ==
    \/ FeedDrops \/ FeedEnds \/ ReadFails \/ Crash \/ Cancel
    \/ \E tc \in changes : DiffFails(tc)
    \/ \E u \in units : FetchFails(u)
    \/ \E ad \in atts : AttFails(ad)
    \/ \E batch \in Batches :
         \/ FlushUnanswered(batch) \/ FlushFails(batch)
         \/ \E rejected \in (SUBSET batch) \ {{}} : FlushRejected(batch, rejected)
    \/ \E c \in ckpts : PutFails(c)

Next ==
    \/ UpdateSource
    \/ \E opts \in Options : StartSession(opts)
    \/ Progress \/ PeriodicCheckpoint \/ Trouble

\* The stages are tasks of one runtime and every request ends: what can go on
\* goes on.  Nothing starts a session by any deadline.
Fairness == WF_vars(Progress)

Spec == Init /\ [][Next]_vars /\ Fairness

-----------------------------------------------------------------------------
(* Properties                                                               *)

Sessions == 0..MaxSessions
Seqs == 0..Len(Updates)
CheckpointHistory == Seq([session : Sessions, seq : Seqs])
Work == [ord : Nat, rev : 1..Len(Updates)]
Changes == [ord : Nat, revs : SUBSET (1..Len(Updates))]

TypeOK ==
    /\ source \in Seqs /\ target \subseteq 1..source /\ skipped \subseteq 1..source
    /\ srcCkpt \in CheckpointHistory /\ tgtCkpt \in CheckpointHistory
    /\ history \in CheckpointHistory
    /\ session \in [id : Sessions, opts : Options, from : Seqs, skips : BOOLEAN]
    /\ phase \in {"off", "running", "closing", "final"}
    /\ result \in {"none", "clean", "partial", "error"}
    /\ reader \in [at : {"fetch", "emit", "stopped"}, since : Seqs, last : Seqs, end : BOOLEAN,
                   page : Seq([seq : Seqs, revs : SUBSET (1..Len(Updates))])]
    /\ IsLedger(ledger)
    /\ changes \subseteq Changes /\ missing \subseteq Changes
    /\ units \subseteq Work /\ atts \subseteq Work /\ fetched \subseteq Work
    /\ cancelled \in BOOLEAN /\ failed \in BOOLEAN
    /\ lastWritten \subseteq Seqs /\ faults \in 0..MaxFaults
    /\ ckpts \subseteq [by : {"periodic", "final"}, at : {"target", "source"},
                        doc : CheckpointHistory]

\* Revision i is on the target, or a revision that brings it was given up on.
Accounted(i) == i \in target \/ \E j \in skipped : i \in Ancestry[j]

\* "Out-of-order batch completions can never cause a checkpoint to skip
\* unreplicated changes" (couch-repl README.md): at every moment, whatever is in
\* flight, killed or lost, a session started from the two checkpoint documents
\* resumes at a seq up to which every document's leaves are accounted for.
ResumeIsSafe ==
    \A d \in Docs \ Hidden :
        RevsOf(d, source) # {} /\ RowSeq(d, source) <= ResumeSeq =>
            \A i \in Leaves(d, source) : Accounted(i)

\* The debug assertions of seq.rs, for all interleavings: a unit of work that is
\* still somewhere in the pipeline is registered, and expanding a change finds its
\* one unit untouched.  Were a unit completed twice, the change's other units
\* would be forgotten.
WorkIsCounted ==
    phase = "running" =>
        /\ \A w \in units \union atts \union fetched :
             /\ w.ord \in DOMAIN ledger.entries
             /\ ledger.entries[w.ord].pending >=
                  Cardinality({x \in units : x.ord = w.ord})
                  + Cardinality({x \in atts : x.ord = w.ord})
                  + Cardinality({x \in fetched : x.ord = w.ord})
        /\ \A tc \in changes \union missing :
             /\ tc.ord \in DOMAIN ledger.entries
             /\ ledger.entries[tc.ord].pending = 1

\* The two checkpoint documents never run ahead of the work, nor the ledger.
CheckpointsAreSound == TypeOK /\ WorkIsCounted /\ ResumeIsSafe

\* "Returns 0 on clean completion": after a one-shot session that was not
\* cancelled, everything the source had at its start is accounted for, whatever
\* was updated or read meanwhile.
CleanMeansComplete ==
    phase = "off" /\ result = "clean" /\ ~session.opts.continuous /\ ~cancelled =>
        \A i \in 1..session.from : Updates[i].doc \notin Hidden => Accounted(i)

\* No stage waits for ever for another: a one-shot session ends, and so does one
\* that was cancelled, by its owner or by a stage that failed.
SessionsEnd ==
    phase # "off" /\ (~session.opts.continuous \/ cancelled) ~> phase = "off"

\* A continuous session with nothing left to do has brought everything the source
\* has, also when its feed was lost in the middle of a chunk.
IdleMeansCaughtUp ==
    /\ phase = "running" /\ ~cancelled /\ session.opts.continuous
    /\ reader.at = "fetch" /\ RowsAfter(reader.since, source) = <<>>
    /\ changes \union missing \union units \union atts \union fetched = {}
    => \A i \in 1..source : Updates[i].doc \notin Hidden => Accounted(i)

\* A session that claims to be done, for good or for now, is.
SessionIsComplete == CleanMeansComplete /\ IdleMeansCaughtUp
\* The updates that replicate claims to have brought when it returns 0.
Claimed ==
    IF result = "clean" /\ ~session.opts.continuous /\ ~cancelled THEN session.from ELSE 0

Abstract == INSTANCE Copying WITH
    skipped <- UNION {Ancestry[j] : j \in skipped},
    resume  <- ResumeSeq,
    done    <- Claimed

\* Five stages, a ledger and two checkpoint documents are one copying: nothing that
\* reached the target leaves it or is there without its history, and neither what a
\* session would resume from nor what replicate claims ever moves past what is
\* accounted for.
IsCopying == Abstract!Spec

-----------------------------------------------------------------------------
(* The inductive invariant                                                  *)

\* The books of a session: the revisions accounted for, the ledger, and the work
\* under way, before and after a change is split into its missing revisions.
Known == target \union UNION {Ancestry[j] : j \in skipped}

Books ==
    [known |-> Known, ledger |-> ledger,
     changing |-> changes \union missing, copying |-> units \union atts \union fetched]

Flight(b, o) == {x \in b.changing \union b.copying : x.ord = o}

\* Revision i comes with what is under way for the entry o.
Bears(b, o, i) ==
    \/ \E w \in b.copying : w.ord = o /\ i \in Ancestry[w.rev]
    \/ \E c \in b.changing : c.ord = o /\ \E j \in c.revs : i \in Ancestry[j]

\* The entry o waits for revision i, or for work that was lost and never ends.
Carries(b, o, i) ==
    Cardinality(Flight(b, o)) < b.ledger.entries[o].pending \/ Bears(b, o, i)

Owed(b, i, o) ==
    i \in b.known \/ \E q \in DOMAIN b.ledger.entries : q <= o /\ Carries(b, q, i)

Shown(n) == {i \in 1..n : Updates[i].doc \notin Hidden}
Row(i, n) == RowSeq(Updates[i].doc, n)

Promised(b, n, seq, o) == \A i \in Shown(n) : Row(i, n) <= seq => Owed(b, i, o)

SafeSeqs(known, n) == {s \in 0..n : \A i \in Shown(n) : Row(i, n) <= s => i \in known}

\* Every unit of work is pending in its entry; nothing else is, unless it was lost.
Counted(b, exact) ==
    /\ IsFiniteSet(b.changing \union b.copying)
    /\ \A x \in b.changing \union b.copying : x.ord \in DOMAIN b.ledger.entries
    /\ \A o \in DOMAIN b.ledger.entries :
         /\ Cardinality(Flight(b, o)) <= b.ledger.entries[o].pending
         /\ exact => Cardinality(Flight(b, o)) = b.ledger.entries[o].pending
    /\ \A c \in b.changing : Flight(b, c.ord) = {c} /\ b.ledger.entries[c.ord].pending = 1

\* No revision of a change brings another one: no work is done twice.
Unrelated(revs) == \A i, j \in revs : i \in Ancestry[j] => i = j

Apart(b, n) ==
    /\ b.changing \subseteq Changes /\ b.copying \subseteq Work
    /\ \A x, y \in b.copying : x.ord = y.ord /\ x.rev \in Ancestry[y.rev] => x = y
    /\ \A c \in b.changing : c.revs \subseteq 1..n /\ Unrelated(c.revs)
    /\ \A w \in b.copying : w.rev \in 1..n

\* What an entry's seq stands for is accounted for or waited for at or before it.
LedgerHolds(b, n) ==
    /\ IsLedger(b.ledger)
    /\ \A o \in DOMAIN b.ledger.entries :
         b.ledger.entries[o].seq <= n /\ Promised(b, n, b.ledger.entries[o].seq, o)
    /\ b.ledger.committable \subseteq SafeSeqs(b.known, n)
    /\ \A s, t \in b.ledger.committable : s = t

BooksAreSound(b, n, exact) == Counted(b, exact) /\ Apart(b, n) /\ LedgerHolds(b, n)

InOneLane ==
    /\ changes \intersect missing = {} /\ units \intersect atts = {}
    /\ (units \union atts) \intersect fetched = {}

TargetIsClosed == \A j \in target : Ancestry[j] \subseteq target

PageIsSound(page, last, n) ==
    /\ \A k \in 1..Len(page) :
         page[k].seq <= last /\ page[k].revs \subseteq 1..n /\ Unrelated(page[k].revs)
    /\ \A j, k \in 1..Len(page) : j < k => page[j].seq < page[k].seq

Brings(row, i) == \E j \in row.revs : i \in Ancestry[j]

\* All that is listed up to since is in the books, and up to last there or in the
\* page.  A one-shot session lists whatever the source had at its start, unless it
\* is updated and then listed later.
ReaderIsSound ==
    phase = "running" /\ reader.at # "stopped" =>
        /\ reader.since <= reader.last /\ reader.last <= source
        /\ PageIsSound(reader.page, reader.last, source)
        /\ Promised(Books, source, reader.since, ledger.next)
        /\ \A i \in Shown(source) : Row(i, source) <= reader.last =>
             \/ Owed(Books, i, ledger.next)
             \/ \E k \in 1..Len(reader.page) :
                  reader.page[k].seq = Row(i, source) /\ Brings(reader.page[k], i)
        /\ reader.at = "fetch" => reader.page = <<>>
        /\ ~session.opts.continuous =>
             /\ reader.at = "fetch" => reader.since = reader.last /\ ~reader.end
             /\ \A i \in Shown(session.from) :
                  \/ Owed(Books, i, ledger.next)
                  \/ \E k \in 1..Len(reader.page) : Brings(reader.page[k], i)
                  \/ ~reader.end /\ Row(i, source) > reader.last

SessionIsSound ==
    /\ session.from <= source
    /\ phase # "running" => Books.changing \union Books.copying = {}
    /\ result = "clean" => phase = "off"
    /\ phase = "running" /\ reader.at = "stopped" /\ ~cancelled =>
         \A i \in Shown(session.from) : Owed(Books, i, ledger.next)
    /\ (phase \in {"closing", "final"} \/ result = "clean") /\ ~cancelled =>
         Shown(session.from) \subseteq Known

\* Whatever is recorded, or about to be, is safe to resume from.
SafeHistory == Seq([session : Sessions, seq : SafeSeqs(Known, source)])

RecordsAreSafe ==
    /\ srcCkpt \in SafeHistory /\ tgtCkpt \in SafeHistory /\ history \in SafeHistory
    /\ \A c \in ckpts : c.doc \in SafeHistory /\ c.doc # <<>>

IInv ==
    /\ TypeOK
    /\ BooksAreSound(Books, source, phase # "off" /\ ~cancelled)
    /\ InOneLane /\ TargetIsClosed
    /\ ReaderIsSound /\ SessionIsSound /\ RecordsAreSafe
=============================================================================
