---------------------------- MODULE CtagsSession ----------------------------
(***************************************************************************)
(* One interactive Universal Ctags session (ctags.py, CtagsSession) and    *)
(* the consumer of its events (ctags_index.py, store_blob_analysis).       *)
(*                                                                         *)
(* Four parties share the session: the consumer, who calls analyze and     *)
(* pulls events from its generator; a thread that writes the request to    *)
(* the standard input of ctags; ctags itself; and a thread that moves the  *)
(* records ctags prints to a bounded queue.  Both pipes are bounded too,   *)
(* so any of them may have to wait for another.                            *)
(*                                                                         *)
(* A record is tagged with the request it answers, which the code cannot   *)
(* see: it tells answers apart only by taking every record of a request    *)
(* up to "completed" before it submits the next.  One language stands for  *)
(* all parsers, one kind for all kinds and roles; the catalogue is the set *)
(* of row keys.  The record ctags prints when it starts is not modelled.   *)
(***************************************************************************)
EXTENDS Naturals, Sequences, SequencesExt, FiniteSets

CONSTANTS
    Answers,        \* what ctags may print for one request, see Record
    Chunks,         \* writes a request takes: the command, then the blob
    PipeSize,       \* chunks or records a pipe holds
    QueueSize,      \* CTAGS_RESPONSE_QUEUE_SIZE
    MaxRequests,    \* bound: calls of analyze
    Faults          \* which of Fault may happen

Record == {"version", "kind", "parser", "tag", "notice", "error", "bad",
           "completed"}
Fault == {"die",            \* ctags dies while it reads, parses or idles
          "dieAnswered",    \* ctags dies after an answer it has not read up to,
                            \* and another request follows
          "abandonTail"}    \* the consumer gives up on an event that follows
                            \* the end of the answer

ASSUME SessionAssumption ==
    /\ \A a \in Answers : /\ a \in Seq(Record)
                          /\ a # <<>> /\ Last(a) = "completed"
                          /\ "completed" \notin Range(Front(a))
    /\ {Chunks, PipeSize, QueueSize} \subseteq Nat \ {0}
    /\ MaxRequests \in Nat
    /\ Faults \subseteq Fault

VARIABLES
    stdin,      \* chunks on their way to ctags, each the number of its request
    child,      \* ctags: what it is doing, and for which request
    stdout,     \* records on their way from ctags
    reader,     \* the thread "ctags-output"
    queue,      \* _records
    writer,     \* the thread "ctags-input" of the last request
    session,    \* _request_writer set, _closed (with _reader_stopping), progress
                \* of close
    call,       \* the call of analyze in progress
    answer,     \* what ctags prints for every request submitted so far
    cache,      \* _profile, _parsers, _kinds, _roles
    rows,       \* committed catalogue rows
    pending,    \* rows and tags of the open transaction
    analyses    \* committed analyses: the tags stored, by request

io == <<stdin, child, stdout, reader, queue, writer>>
catalog == <<cache, rows, pending, analyses>>
vars == <<io, session, call, answer, catalog>>

Eof == [req |-> 0, kind |-> "eof"]
Idle == [pc |-> "idle", req |-> 0, due |-> <<>>, last |-> "none",
         versions |-> FALSE, emitted |-> FALSE, parser |-> FALSE, kind |-> FALSE,
         unresolved |-> FALSE, failed |-> FALSE, expected |-> FALSE]
NoRows == [rows |-> {}, tags |-> 0, analysis |-> FALSE]
Submitted == Len(answer)

-----------------------------------------------------------------------------
(* The threads and the child *)

\* write_request: blocks while the pipe is full, fails when ctags is gone.
Write ==
    /\ writer.state = "writing"
    /\ IF child.state = "dead"
       THEN /\ writer' = [writer EXCEPT !.state = "done", !.error = TRUE]
            /\ UNCHANGED stdin
       ELSE IF writer.left = 0
       THEN /\ writer' = [writer EXCEPT !.state = "done"]
            /\ UNCHANGED stdin
       ELSE /\ Len(stdin) < PipeSize
            /\ stdin' = Append(stdin, writer.req)
            /\ writer' = [writer EXCEPT !.left = @ - 1]
    /\ UNCHANGED <<child, stdout, reader, queue, session, call, answer, catalog>>

\* ctags takes a chunk; the first one of a request is its command.
ChildRead ==
    /\ child.state # "dead" /\ stdin # <<>>
    /\ stdin' = Tail(stdin)
    /\ child' = IF child.state = "waiting"
                THEN [state |-> "busy", req |-> Head(stdin),
                      rest |-> answer[Head(stdin)], unread |-> Chunks - 1]
                ELSE [child EXCEPT !.unread = @ - 1]
    /\ child.state = "busy" => child.unread > 0
    /\ UNCHANGED <<stdout, reader, queue, writer, session, call, answer, catalog>>

\* ctags prints the next record, perhaps before it has read the whole blob.
ChildPrint ==
    /\ child.state = "busy" /\ child.rest # <<>> /\ Len(stdout) < PipeSize
    /\ stdout' = Append(stdout, [req |-> child.req, kind |-> Head(child.rest)])
    /\ child' = [child EXCEPT !.rest = Tail(@)]
    /\ UNCHANGED <<stdin, reader, queue, writer, session, call, answer, catalog>>

ChildReady ==
    /\ child.state = "busy" /\ child.rest = <<>> /\ child.unread = 0
    /\ child' = [child EXCEPT !.state = "waiting"]
    /\ UNCHANGED <<stdin, stdout, reader, queue, writer, session, call, answer, catalog>>

\* Once it has printed "completed" the session still waits for the writer.
Answered == (child.state = "busy" /\ child.rest = <<>>)
            \/ (child.state = "waiting" /\ writer.state = "writing" /\ stdin = <<>>
                /\ writer.left = 0)

ChildDie ==
    /\ child.state # "dead"
    /\ (IF Answered /\ Submitted < MaxRequests THEN "dieAnswered" ELSE "die") \in Faults
    /\ child' = [child EXCEPT !.state = "dead"]
    /\ stdin' = <<>>
    /\ UNCHANGED <<stdout, reader, queue, writer, session, call, answer, catalog>>

\* ctags leaves its loop when its standard input ends.
ChildExit ==
    /\ session.eof /\ stdin = <<>> /\ child.state = "waiting"
    /\ child' = [child EXCEPT !.state = "dead"]
    /\ UNCHANGED <<stdin, stdout, reader, queue, writer, session, call, answer, catalog>>

\* read_output: a line is held until the queue has room, or thrown away once
\* the session is closing; at the end of the output None is queued.
ReaderTake ==
    /\ reader.state = "reading" /\ stdout # <<>>
    /\ stdout' = Tail(stdout)
    /\ reader' = [state |-> "holding", line |-> Head(stdout)]
    /\ UNCHANGED <<stdin, child, queue, writer, session, call, answer, catalog>>

ReaderPut ==
    /\ reader.state = "holding"
    /\ \/ /\ ~session.closed /\ Len(queue) < QueueSize
          /\ queue' = Append(queue, reader.line)
       \/ session.closed /\ UNCHANGED queue
    /\ reader' = [reader EXCEPT !.state = "reading"]
    /\ UNCHANGED <<stdin, child, stdout, writer, session, call, answer, catalog>>

ReaderEnd ==
    /\ reader.state = "reading" /\ stdout = <<>> /\ child.state = "dead"
    /\ reader' = [reader EXCEPT !.state = IF session.closed THEN "ended"
                                          ELSE "ending"]
    /\ UNCHANGED <<stdin, child, stdout, queue, writer, session, call, answer, catalog>>

ReaderPutEnd ==
    /\ reader.state = "ending" /\ Len(queue) < QueueSize
    /\ queue' = Append(queue, Eof)
    /\ reader' = [reader EXCEPT !.state = "ended"]
    /\ UNCHANGED <<stdin, child, stdout, writer, session, call, answer, catalog>>

Threads == \/ Write \/ ChildRead \/ ChildPrint \/ ChildReady \/ ChildExit
           \/ ReaderTake \/ ReaderPut \/ ReaderEnd \/ ReaderPutEnd

-----------------------------------------------------------------------------
(* The catalogue: an event whose row the session does not remember inserts  *)
(* it; a row of a rolled back transaction is gone and its id may be given   *)
(* to another row.                                                          *)

\* _ensure_profile, _ensure_parser, _ensure_kind and _ensure_role
RowsOf(event) == CASE event = "input" -> {"parser"}
                   [] event \in {"profile", "parser", "kind"} -> {event}
                   [] OTHER -> {}
Inserted(event) == RowsOf(event) \ cache

\* Mutant of Forgotten: what was cached before the rollback stays so.
Remembered == cache

Forgotten == {}             \* _clear_catalog_cache

\* The connection's context manager, on an exception: roll back; every
\* handler of analyze then clears the cache.
Abort ==
    /\ pending' = NoRows
    /\ cache' = Forgotten
    /\ UNCHANGED <<rows, analyses>>

-----------------------------------------------------------------------------
(* The consumer: analyze and _analyze *)

\* An exception leaves the generator; the request stays the active one if
\* its answer was not read to the end.
Raise == call' = Idle /\ Abort

\* Mutant of MaySubmit: a session is used again whatever its last request left.
MaySubmitAlways == TRUE

\* _submit_request refuses while an earlier request is the active one.
MaySubmit == ~session.active

Submit(a, expected) ==
    /\ call.pc = "idle" /\ ~session.closed /\ Submitted < MaxRequests
    /\ MaySubmit
    /\ answer' = Append(answer, a)
    /\ writer' = [state |-> "writing", req |-> Submitted + 1, left |-> Chunks,
                  error |-> FALSE]
    /\ session' = [session EXCEPT !.active = TRUE]
    /\ call' = [Idle EXCEPT !.pc = "read", !.req = Submitted + 1,
                            !.expected = expected]
    /\ UNCHANGED <<stdin, child, stdout, reader, queue, catalog>>

\* The events a record gives rise to, in the order _analyze yields them.
ProfileDue == IF call.emitted THEN <<>> ELSE <<"profile">>
ParserDue == IF call.parser THEN <<>> ELSE <<"parser">>
KindDue == IF call.kind THEN <<>> ELSE <<"kind">>
EventsOf(kind) ==
    CASE kind = "parser" -> ProfileDue \o <<"parser">>
                            \o (IF call.unresolved THEN <<"kind">> ELSE <<>>)
      [] kind = "tag" -> ProfileDue \o ParserDue \o KindDue \o <<"tag">>
      [] kind = "kind" /\ call.parser -> <<"kind">>
      [] kind = "notice" -> <<"notice">>
      [] OTHER -> <<>>

\* Records after an error are skipped up to "completed", notices excepted.
Skips(kind) == call.failed /\ kind \notin {"notice", "error", "completed"}

Malformed(kind) == \/ kind = "bad"
                   \/ kind \in {"parser", "tag"} /\ ~call.versions

\* _read_record and one turn of the loop of _analyze.
Take ==
    /\ call.pc = "read" /\ queue # <<>>
    /\ LET kind == Head(queue).kind IN
       /\ queue' = Tail(queue)
       /\ \/ /\ kind = "eof" \/ (~Skips(kind) /\ Malformed(kind))
             /\ Raise
          \/ /\ kind # "eof" /\ (Skips(kind) \/ ~Malformed(kind))
             /\ call' =
                 [call EXCEPT
                   !.failed = @ \/ kind = "error",
                   !.versions = @ \/ (kind = "version" /\ ~Skips(kind)),
                   !.unresolved = (@ \/ (kind = "kind" /\ ~call.parser
                                        /\ ~Skips(kind)))
                                  /\ ~(kind = "parser" /\ ~Skips(kind)),
                   !.due = IF Skips(kind) THEN <<>> ELSE EventsOf(kind),
                   !.pc = CASE kind = "completed" -> "finish"
                            [] ~Skips(kind) /\ EventsOf(kind) # <<>> -> "produce"
                            [] OTHER -> "read"]
             /\ UNCHANGED catalog
    /\ UNCHANGED <<stdin, child, stdout, reader, writer, session, answer>>

\* store_blob_analysis: a profile replaces the analysis of the blob, a tag is
\* added to it.
Consumed(event, p) ==
    CASE event = "profile" -> [p EXCEPT !.analysis = TRUE, !.tags = 0]
      [] event = "tag" -> [p EXCEPT !.tags = @ + 1]
      [] OTHER -> p

\* The generator makes the next event and yields it; the consumer stores it.
Produce ==
    /\ call.pc = "produce" /\ Head(call.due) # "orphan"
    /\ LET event == Head(call.due) IN
       /\ call' = [call EXCEPT !.due = Tail(@), !.pc = "yielded", !.last = event,
                    !.emitted = @ \/ event = "profile",
                    !.parser = @ \/ event \in {"parser", "input"},
                    !.kind = @ \/ event = "kind"]
       /\ cache' = cache \cup RowsOf(event)
       /\ pending' = Consumed(event, [pending EXCEPT !.rows = @ \cup Inserted(event)])
       /\ UNCHANGED <<rows, analyses>>
    /\ UNCHANGED <<io, session, answer>>

\* The consumer asks for the next event.  After "completed" there is none: the
\* generator ends and the connection commits.
Resume ==
    /\ call.pc = "yielded"
    /\ IF call.last = "completed"
       THEN /\ call' = Idle
            /\ rows' = rows \cup pending.rows
            /\ analyses' = IF pending.analysis
                           THEN [r \in DOMAIN analyses \cup {call.req} |->
                                   IF r = call.req THEN pending.tags ELSE analyses[r]]
                           ELSE analyses
            /\ pending' = NoRows
            /\ UNCHANGED cache
       ELSE /\ call' = [call EXCEPT !.pc = IF call.due = <<>> THEN "read" ELSE "produce"]
            /\ UNCHANGED catalog
    /\ UNCHANGED <<io, session, answer>>

\* The answer was read to its end, and events follow it.
InTail == ~session.active

\* SQLite refuses a statement of the session (call.pc = "produce") or the
\* commit: the exception does not read the rest of the answer.
StoreFails ==
    /\ \/ call.pc = "produce" /\ Head(call.due) \in {"profile", "parser", "kind", "input"}
       \/ call.pc = "yielded" /\ call.last = "completed"
    /\ Raise
    /\ UNCHANGED <<io, session, answer>>

\* Mutant of NeedsDrain: an answer that was read to its end is drained again.
NeedsDrainAlways == TRUE

\* store_blob_analysis fails on the event and closes the generator, which
\* reads the rest of the answer unless its last event was "completed".
NeedsDrain == call.last # "completed"

Abandon ==
    /\ call.pc = "yielded"
    /\ InTail /\ call.last # "completed" => "abandonTail" \in Faults
    /\ IF NeedsDrain
       THEN /\ call' = [Idle EXCEPT !.pc = "drain", !.req = call.req]
            /\ pending' = NoRows
            /\ UNCHANGED <<cache, rows, analyses>>
       ELSE Raise
    /\ UNCHANGED <<io, session, answer>>

\* _drain_request
Drain ==
    /\ call.pc = "drain" /\ queue # <<>>
    /\ queue' = Tail(queue)
    /\ CASE Head(queue).kind = "completed" ->
              /\ call' = [call EXCEPT !.pc = "drainFinish"]
              /\ UNCHANGED catalog
         [] Head(queue).kind = "eof" -> Raise
         [] OTHER -> UNCHANGED <<call, catalog>>
    /\ UNCHANGED <<stdin, child, stdout, reader, writer, session, answer>>

Finishing == call.pc \in {"finish", "drainFinish"}

\* _finish_request polls the queue until the writer is done.  Any record is
\* one too many; at the end of the output it waits for the writer alone.
FinishPoll ==
    /\ Finishing /\ writer.state # "done" /\ queue # <<>>
    /\ queue' = Tail(queue)
    /\ IF Head(queue) = Eof THEN UNCHANGED <<call, catalog>> ELSE Raise
    /\ UNCHANGED <<stdin, child, stdout, reader, writer, session, answer>>

WriterConfirmed == writer.state = "done"

\* Mutant of Rejected: an error record does not make the answer a failure.
RejectedUnversioned == ~call.versions

\* What follows the answer: a rejected or incomplete one raises, otherwise
\* the events not yet due are produced.
TailEvents == ProfileDue
              \o (IF call.expected /\ ~call.parser THEN <<"input">> ELSE <<>>)
              \o (IF call.unresolved THEN <<"orphan">> ELSE <<"completed">>)
Rejected == call.failed \/ ~call.versions

Finish ==
    /\ Finishing /\ WriterConfirmed
    /\ session' = [session EXCEPT !.active = FALSE]
    /\ IF writer.error \/ call.pc = "drainFinish" \/ Rejected
       THEN Raise
       ELSE /\ call' = [call EXCEPT !.pc = "produce", !.due = TailEvents]
            /\ UNCHANGED catalog
    /\ UNCHANGED <<io, answer>>

\* Catalogue pseudo-tags of a parser that never appeared: found at the end.
Orphaned ==
    /\ call.pc = "produce" /\ Head(call.due) = "orphan"
    /\ Raise
    /\ UNCHANGED <<io, session, answer>>

-----------------------------------------------------------------------------
(* close *)

Close ==
    /\ call.pc = "idle" /\ ~session.closed
    /\ session' = [session EXCEPT !.closed = TRUE]
    /\ UNCHANGED <<io, call, answer, catalog>>

\* Closing the stream waits for the lock a writing thread holds.
CloseInput ==
    /\ session.closed /\ ~session.eof /\ writer.state = "done"
    /\ session' = [session EXCEPT !.eof = TRUE]
    /\ UNCHANGED <<io, call, answer, catalog>>

\* wait(timeout=5), then kill; the reader is joined with a timeout as well.
CloseWait ==
    /\ session.eof /\ ~session.done
    /\ child' = [child EXCEPT !.state = "dead"]
    /\ stdin' = <<>>
    /\ session' = [session EXCEPT !.done = TRUE]
    /\ UNCHANGED <<stdout, reader, queue, writer, call, answer, catalog>>

Consumer == \/ Take \/ Produce \/ Resume \/ StoreFails \/ Abandon \/ Drain
            \/ FinishPoll \/ Finish \/ Orphaned \/ CloseInput \/ CloseWait

Init ==
    /\ stdin = <<>> /\ stdout = <<>> /\ queue = <<>>
    /\ child = [state |-> "waiting", req |-> 0, rest |-> <<>>, unread |-> 0]
    /\ reader = [state |-> "reading", line |-> Eof]
    /\ writer = [state |-> "done", req |-> 0, left |-> 0, error |-> FALSE]
    /\ session = [active |-> FALSE, closed |-> FALSE, eof |-> FALSE, done |-> FALSE]
    /\ call = Idle
    /\ answer = <<>>
    /\ cache = {} /\ rows = {} /\ pending = NoRows
    /\ analyses = <<>>

Next ==
    \/ Threads \/ ChildDie
    \/ \E a \in Answers, expected \in BOOLEAN : Submit(a, expected)
    \/ Consumer
    \/ Close

\* The operating system runs every thread and ctags; the consumer, whatever it
\* does with an event, keeps pulling or closes the generator.
Fairness ==
    /\ WF_vars(Write)
    /\ WF_vars(ChildRead \/ ChildPrint \/ ChildReady \/ ChildExit)
    /\ WF_vars(ReaderTake \/ ReaderPut \/ ReaderEnd \/ ReaderPutEnd)
    /\ WF_vars(Consumer)

Spec == Init /\ [][Next]_vars /\ Fairness

-----------------------------------------------------------------------------
(* Properties *)

InTransit == Range(queue) \cup Range(stdout)
             \cup (IF reader.state = "holding" THEN {reader.line} ELSE {})

\* Every record the consumer takes answers the request it has submitted last,
\* and a session that would accept the next request has nothing of an earlier
\* one left in a pipe, in the reader's hands or in the queue, and no thread
\* that still writes one (_submit_request, _drain_request, _finish_request).
Aligned ==
    /\ call.pc \in {"read", "drain", "finish", "drainFinish"} =>
         \A r \in InTransit \ {Eof} : r.req = call.req
    /\ call.pc = "idle" /\ ~session.active =>
         /\ writer.state = "done"
         /\ child.state = "busy" => child.rest = <<>>
         /\ InTransit \subseteq {Eof}

\* What the session remembers exists: between calls every remembered row is
\* committed, although transactions are rolled back in between (analyze clears
\* the cache on every way out that rolls back).
CacheCommitted ==
    /\ call.pc = "idle" => cache \subseteq rows /\ pending = NoRows
    /\ cache \subseteq rows \cup pending.rows \/ call.pc \in {"drain", "drainFinish"}

\* An analysis in the database holds every tag of the answer to its own
\* request and nothing else, and that answer reported no error
\* (store_blob_analysis, _analyze).
StoredIsWhole ==
    \A r \in DOMAIN analyses :
        /\ analyses[r] = Cardinality({i \in DOMAIN answer[r] : answer[r][i] = "tag"})
        /\ Range(answer[r]) \cap {"error", "bad"} = {}

\* A call of analyze, with everything it does when its consumer gives up,
\* comes to its end, and so does close: consumer, writer, reader and ctags
\* never wait for one another although both pipes and the queue are bounded.
CallsReturn ==
    /\ call.pc # "idle" ~> call.pc = "idle"
    /\ session.closed ~> session.done
=============================================================================
