-------------------------- MODULE CtagsSessionProofs --------------------------
(***************************************************************************)
(* Proofs about CtagsSession, for any answers, number of requests and      *)
(* sizes of pipes and queue, and whichever faults happen: every record is  *)
(* taken for the request it answers, the cache holds committed rows only   *)
(* and what is stored is all that ctags answered.                          *)
(***************************************************************************)
EXTENDS CtagsSession, FiniteSetTheorems, TLAPS

CatalogRow == {"profile", "parser", "kind"}
Event == CatalogRow \cup {"input", "tag", "notice", "completed", "orphan"}
Line == [req : Nat, kind : Record \cup {"eof"}]
Call ==
    [pc : {"idle", "read", "produce", "yielded", "drain", "finish", "drainFinish"},
     req : Nat, due : Seq(Event), last : Event \cup {"none"},
     versions : BOOLEAN, emitted : BOOLEAN, parser : BOOLEAN, kind : BOOLEAN,
     unresolved : BOOLEAN, failed : BOOLEAN, expected : BOOLEAN]

IoType ==
    /\ stdin \in Seq(Nat) /\ stdout \in Seq(Line) /\ queue \in Seq(Line)
    /\ child \in [state : {"waiting", "busy", "dead"}, req : Nat, rest : Seq(Record),
                  unread : Nat]
    /\ reader \in [state : {"reading", "holding", "ending", "ended"}, line : Line]
    /\ writer \in [state : {"writing", "done"}, req : Nat, left : Nat, error : BOOLEAN]

CallType ==
    /\ answer \in Seq(Answers)
    /\ session \in [active : BOOLEAN, closed : BOOLEAN, eof : BOOLEAN, done : BOOLEAN]
    /\ call \in Call
    /\ session.closed => call.pc = "idle"
    /\ call.pc = "produce" => call.due # <<>>

CatalogType ==
    /\ cache \subseteq CatalogRow /\ rows \subseteq CatalogRow
    /\ pending \in [rows : SUBSET CatalogRow, tags : Nat, analysis : BOOLEAN]

CacheInv == CallType /\ CatalogType /\ CacheCommitted

-----------------------------------------------------------------------------
(* Requests on their way in *)

\* The chunks of the last request that are not written or not read yet are
\* those its writer and the pipe have; before them in the pipe there is only
\* what ctags has still to read of the request before.
Chunked ==
    /\ writer.req = Submitted
    /\ IF child.state = "dead" THEN stdin = <<>>
       ELSE /\ writer.state = "done" => writer.left = 0
            /\ child.state = "waiting" => child.unread = 0
            /\ IF child.req = Submitted
               THEN /\ \A i \in DOMAIN stdin : stdin[i] = Submitted
                    /\ child.unread = Len(stdin) + writer.left
               ELSE /\ child.unread <= Len(stdin)
                    /\ \A i \in DOMAIN stdin : i > child.unread => stdin[i] = Submitted
                    /\ Len(stdin) + writer.left = child.unread + Chunks

-----------------------------------------------------------------------------
(* Answers on their way out *)

HasEof == queue # <<>> /\ queue[Len(queue)] = Eof
Queued == IF HasEof THEN Len(queue) - 1 ELSE Len(queue)
Held == IF reader.state = "holding" THEN 1 ELSE 0

Silent == child.rest = <<>> /\ stdout = <<>> /\ Held = 0 /\ Queued = 0

\* The records of the answer that the consumer has taken.
Taken ==
    IF child.req = Submitted
    THEN Len(answer[Submitted]) - Len(child.rest) - Len(stdout) - Held - Queued
    ELSE 0

\* In the queue, in the reader's hands, in the pipe and in ctags are, one after
\* the other, the records of the last answer that the consumer has not taken.
InOrder ==
    IF Submitted # 0 /\ child.req = Submitted
    THEN LET a == answer[Submitted]
             from(n) == Len(a) - n
             record(i) == [req |-> Submitted, kind |-> a[i]]
             inPipe == Len(child.rest) + Len(stdout)
         IN  /\ Taken >= 0
             /\ \A i \in DOMAIN child.rest : child.rest[i] = a[from(Len(child.rest)) + i]
             /\ \A i \in DOMAIN stdout : stdout[i] = record(from(inPipe) + i)
             /\ Held = 1 => reader.line = record(from(inPipe))
             /\ \A i \in 1 .. Queued : queue[i] = record(Taken + i)
    ELSE Silent

\* The end of the output is noticed when all of it was read, and is the last
\* thing in the queue.
Ended ==
    /\ reader.state \in {"ending", "ended"} => child.state = "dead" /\ stdout = <<>>
    /\ HasEof => reader.state = "ended"

Requested ==
    /\ call.pc # "idle" => call.req = Submitted /\ Submitted # 0
    /\ call.pc \in {"finish", "drainFinish"} =>
          session.active /\ child.req = Submitted /\ Taken = Len(answer[Submitted])
    /\ child.req = Submitted \/ child.req + 1 = Submitted
    /\ ~ session.active => child.req = Submitted /\ writer.state = "done" /\ Silent

SessionInv ==
    /\ IoType /\ CallType
    /\ Chunked /\ Ended /\ Requested
    /\ ~ session.closed => InOrder

\* What a step on the other side of the pipes leaves as it was.
Moved == SessionInv' /\ (~ session.closed /\ Submitted # 0 => Taken' = Taken)

-----------------------------------------------------------------------------
(* Events and what is stored of them *)

DueTags == IF call.due # <<>> /\ Last(call.due) = "tag" THEN 1 ELSE 0
DueEnd == call.due # <<>> /\ Last(call.due) \in {"completed", "orphan"}

\* The events due end with the tag or the end they are for, and start with the
\* profile when none was emitted.
Dues ==
    /\ \A i \in DOMAIN call.due :
          /\ call.due[i] \in {"tag", "completed", "orphan"} => i = Len(call.due)
          /\ call.due[i] = "profile" => i = 1 /\ ~ call.emitted
    /\ DueTags = 1 /\ ~ call.emitted => call.due[1] = "profile"
    /\ call.pc \in {"read", "drain", "finish", "drainFinish"} => call.due = <<>>

\* The end of the events is that of the answer, which reported no error.
EndOfEvents ==
    /\ call.pc \in {"read", "finish"} => session.active
    /\ call.pc \in {"produce", "yielded"} =>
          /\ ~ session.active <=> DueEnd \/ call.last = "completed"
          /\ call.last = "completed" => call.pc = "yielded" /\ call.due = <<>>
          /\ ~ session.active => ~ call.failed
    /\ call.pc \notin {"produce", "yielded"} => call.last # "completed"

EventsInv == Dues /\ EndOfEvents

TagsIn(a, n) == Cardinality({i \in 1 .. n : a[i] = "tag"})

\* What is stored so far are the tags of the records taken so far, none of
\* which reported an error.
Counted ==
    call.pc \in {"read", "produce", "yielded", "finish"} =>
        LET a == answer[Submitted] IN
        /\ ~ call.emitted => pending.tags = 0
        /\ ~ call.failed =>
              /\ TagsIn(a, Taken) = pending.tags + DueTags
              /\ \A i \in 1 .. Taken : a[i] \notin {"error", "bad"}

StoredInv ==
    /\ CacheInv /\ EventsInv /\ SessionInv /\ Counted
    /\ DOMAIN analyses \subseteq 1 .. Submitted /\ StoredIsWhole

-----------------------------------------------------------------------------


-----------------------------------------------------------------------------
(* Calls and the catalogue *)

\* The events of a record and of the end of an answer are events.
LEMMA EventTypes ==
    ASSUME CallType
    PROVE  /\ \A kind : EventsOf(kind) \in Seq(Event)
           /\ TailEvents \in Seq(Event) /\ TailEvents # <<>>
           /\ Last(TailEvents) \in {"orphan", "completed"}
<1>0. \A e \in Event : <<e>> \in Seq(Event) OBVIOUS
<1>a. <<>> \in Seq(Event) OBVIOUS
<1>1. /\ ProfileDue \in Seq(Event) /\ ParserDue \in Seq(Event) /\ KindDue \in Seq(Event)
      /\ <<"parser">> \in Seq(Event) /\ <<"tag">> \in Seq(Event) /\ <<"kind">> \in Seq(Event)
      /\ <<"notice">> \in Seq(Event) /\ <<"input">> \in Seq(Event)
      /\ <<"orphan">> \in Seq(Event) /\ <<"completed">> \in Seq(Event)
      /\ <<>> \in Seq(Event)
  <2>1. {"profile", "parser", "tag", "kind", "notice", "input", "orphan", "completed"} \subseteq Event
    BY DEF Event, CatalogRow
  <2>2. ProfileDue \in Seq(Event) BY <1>0, <1>a, <2>1 DEF ProfileDue
  <2>3. ParserDue \in Seq(Event) BY <1>0, <1>a, <2>1 DEF ParserDue
  <2>4. KindDue \in Seq(Event) BY <1>0, <1>a, <2>1 DEF KindDue
  <2> QED BY <1>0, <1>a, <2>1, <2>2, <2>3, <2>4
<1>2. \A s, t \in Seq(Event) : s \o t \in Seq(Event) OBVIOUS
<1>3. ASSUME NEW kind PROVE EventsOf(kind) \in Seq(Event)
  <2>1. CASE kind = "parser"
    <3>1. EventsOf(kind) = ProfileDue \o <<"parser">>
                               \o (IF call.unresolved THEN <<"kind">> ELSE <<>>)
      BY <2>1 DEF EventsOf
    <3>2. (IF call.unresolved THEN <<"kind">> ELSE <<>>) \in Seq(Event) BY <1>1
    <3> QED BY <1>1, <1>2, <3>1, <3>2
  <2>2. CASE kind = "tag"
    <3>1. EventsOf(kind) = ProfileDue \o ParserDue \o KindDue \o <<"tag">>
      BY <2>2 DEF EventsOf
    <3> QED BY <1>1, <1>2, <3>1
  <2>3. CASE kind \notin {"parser", "tag"}
    <3>1. EventsOf(kind) \in {<<"kind">>, <<"notice">>, <<>>} BY <2>3 DEF EventsOf
    <3> QED BY <1>1, <3>1
  <2> QED BY <2>1, <2>2, <2>3
<1>4. /\ TailEvents \in Seq(Event) /\ TailEvents # <<>>
      /\ Last(TailEvents) \in {"orphan", "completed"}
  <2>1. (IF call.expected /\ ~call.parser THEN <<"input">> ELSE <<>>) \in Seq(Event)
    BY <1>1
  <2>2. (IF call.unresolved THEN <<"orphan">> ELSE <<"completed">>) \in Seq(Event)
    BY <1>1
  <2>3. PICK s \in Seq(Event), e \in {"orphan", "completed"} : TailEvents = s \o <<e>>
    BY <1>1, <1>2, <2>1 DEF TailEvents
  <2>4. TailEvents = Append(s, e) /\ e \in Event BY <2>3 DEF Event
  <2> QED BY <2>3, <2>4 DEF Last
<1> QED BY <1>3, <1>4

LEMMA IdleCall == Idle \in Call
<1>1. <<>> \in Seq(Event) OBVIOUS
<1> QED BY <1>1 DEF Idle, Call

\* The steps of threads and ctags leave the call and the catalogue alone.
LEMMA ThreadsKeep ==
    ASSUME Threads \/ ChildDie
    PROVE  /\ call' = call /\ session' = session /\ answer' = answer
           /\ cache' = cache /\ rows' = rows /\ pending' = pending /\ analyses' = analyses
BY DEF Threads, ChildDie, Write, ChildRead, ChildPrint, ChildReady, ChildExit,
       ReaderTake, ReaderPut, ReaderEnd, ReaderPutEnd, catalog

\* What an exception leaves.
LEMMA RaiseEffect ==
    ASSUME Raise
    PROVE  /\ call' = Idle /\ cache' = {} /\ pending' = NoRows
           /\ rows' = rows /\ analyses' = analyses
BY DEF Raise, Abort, Forgotten

\* What Take makes of the call.
LEMMA TakeEffect ==
    ASSUME CacheInv, Take, ~ Raise
    PROVE  LET kind == Head(queue).kind
               due == IF Skips(kind) THEN <<>> ELSE EventsOf(kind)
           IN
           /\ kind # "eof" /\ (Skips(kind) \/ ~ Malformed(kind))
           /\ call' \in Call /\ UNCHANGED catalog /\ session' = session
           /\ call.pc = "read" /\ call'.pc \in {"finish", "produce", "read"}
           /\ call'.pc = "finish" <=> kind = "completed"
           /\ call'.pc = "read" => due = <<>>
           /\ call'.pc = "produce" => due # <<>>
           /\ call'.due = due
           /\ call'.last = call.last /\ call'.emitted = call.emitted /\ call'.req = call.req
           /\ call'.failed <=> call.failed \/ kind = "error"
<1> DEFINE kind == Head(queue).kind
           due == IF Skips(kind) THEN <<>> ELSE EventsOf(kind)
           failed == call.failed \/ kind = "error"
           versions == call.versions \/ (kind = "version" /\ ~Skips(kind))
           unresolved == (call.unresolved \/ (kind = "kind" /\ ~call.parser /\ ~Skips(kind)))
                            /\ ~(kind = "parser" /\ ~Skips(kind))
           pc == CASE kind = "completed" -> "finish"
                   [] ~Skips(kind) /\ EventsOf(kind) # <<>> -> "produce"
                   [] OTHER -> "read"
<1>1. /\ kind # "eof" /\ (Skips(kind) \/ ~ Malformed(kind))
      /\ UNCHANGED catalog /\ session' = session /\ call.pc = "read"
      /\ call' = [call EXCEPT !.failed = failed, !.versions = versions,
                              !.unresolved = unresolved, !.due = due, !.pc = pc]
  BY DEF Take
<1>2. due \in Seq(Event)
  <2>1. <<>> \in Seq(Event) OBVIOUS
  <2> QED BY <2>1, EventTypes DEF CacheInv
<1>3. failed \in BOOLEAN /\ versions \in BOOLEAN /\ unresolved \in BOOLEAN OBVIOUS
<1>4. /\ pc \in {"finish", "produce", "read"}
      /\ pc = "finish" <=> kind = "completed"
      /\ pc = "read" => due = <<>>
      /\ pc = "produce" => due # <<>>
  <2>1. CASE kind = "completed"
    <3>1. EventsOf(kind) = <<>> BY <2>1 DEF EventsOf
    <3> QED BY <2>1, <3>1
  <2>2. CASE kind # "completed" BY <2>2
  <2> QED BY <2>1, <2>2
<1> HIDE DEF due, failed, versions, unresolved, pc
<1>5. /\ call' \in Call /\ call'.pc = pc /\ call'.due = due /\ call'.failed = failed
      /\ call'.last = call.last /\ call'.emitted = call.emitted /\ call'.req = call.req
  <2>1. call \in Call BY DEF CacheInv, CallType
  <2>3. /\ call'.pc = pc /\ call'.due = due /\ call'.failed = failed
        /\ call'.last = call.last /\ call'.emitted = call.emitted /\ call'.req = call.req
    BY <1>1, <2>1 DEF Call
  <2>2. pc \in {"idle", "read", "produce", "yielded", "drain", "finish", "drainFinish"} BY <1>4
  <2>4. call' = [pc |-> pc, req |-> call.req, due |-> due, last |-> call.last,
                 versions |-> versions, emitted |-> call.emitted, parser |-> call.parser,
                 kind |-> call.kind, unresolved |-> unresolved, failed |-> failed,
                 expected |-> call.expected]
    BY <1>1, <2>1 DEF Call
  <2>5. call' \in Call BY <1>2, <1>3, <2>1, <2>2, <2>4 DEF Call
  <2> QED BY <2>3, <2>5
<1>6. call'.failed <=> call.failed \/ kind = "error" BY <1>5 DEF failed
<1> QED BY <1>1, <1>4, <1>5, <1>6 DEF due

\* What Produce makes of the call.
LEMMA ProduceEffect ==
    ASSUME CacheInv, Produce
    PROVE  LET event == Head(call.due) IN
           /\ call.pc = "produce" /\ call.due # <<>> /\ event \in Event /\ event # "orphan"
           /\ event = call.due[1] /\ 1 \in DOMAIN call.due /\ call.due \in Seq(Event)
           /\ call' \in Call /\ call'.pc = "yielded" /\ call'.last = event
           /\ call'.due = Tail(call.due) /\ call'.req = call.req
           /\ call'.failed = call.failed
           /\ call'.emitted <=> call.emitted \/ event = "profile"
           /\ session' = session /\ analyses' = analyses
<1> DEFINE event == Head(call.due)
           emitted == call.emitted \/ event = "profile"
           parser == call.parser \/ event \in {"parser", "input"}
           kind == call.kind \/ event = "kind"
<1>1. /\ call.pc = "produce" /\ session' = session /\ analyses' = analyses /\ event # "orphan"
      /\ call' = [call EXCEPT !.due = Tail(call.due), !.pc = "yielded", !.last = event,
                              !.emitted = emitted, !.parser = parser, !.kind = kind]
  BY DEF Produce
<1>2. call.due # <<>> /\ call.due \in Seq(Event) BY <1>1 DEF CacheInv, CallType, Call
<1>3. event \in Event /\ Tail(call.due) \in Seq(Event) /\ event = call.due[1]
      /\ 1 \in DOMAIN call.due
  BY <1>2
<1>4. emitted \in BOOLEAN /\ parser \in BOOLEAN /\ kind \in BOOLEAN OBVIOUS
<1> HIDE DEF event, emitted, parser, kind
<1>5. /\ call' \in Call /\ call'.pc = "yielded" /\ call'.last = event
      /\ call'.due = Tail(call.due) /\ call'.req = call.req
      /\ call'.failed = call.failed /\ call'.emitted = emitted
  BY <1>1, <1>3, <1>4 DEF CacheInv, CallType, Call
<1>6. call'.emitted <=> call.emitted \/ event = "profile" BY <1>5 DEF emitted
<1> QED BY <1>1, <1>2, <1>3, <1>5, <1>6 DEF event

\* What Finish makes of the call.
LEMMA FinishEffect ==
    ASSUME CacheInv, Finish, ~ Raise
    PROVE  /\ session' = [session EXCEPT !.active = FALSE] /\ UNCHANGED catalog
           /\ call.pc = "finish" /\ ~ Rejected
           /\ call' \in Call /\ call'.pc = "produce" /\ call'.due = TailEvents
           /\ call'.last = call.last /\ call'.emitted = call.emitted /\ call'.req = call.req
           /\ call'.failed = call.failed
<1>1. /\ session' = [session EXCEPT !.active = FALSE] /\ UNCHANGED catalog
      /\ call.pc = "finish" /\ ~ Rejected
      /\ call' = [call EXCEPT !.pc = "produce", !.due = TailEvents]
  BY DEF Finish, Finishing
<1>2. TailEvents \in Seq(Event) BY EventTypes DEF CacheInv
<1>3. /\ call' \in Call /\ call'.pc = "produce" /\ call'.due = TailEvents
      /\ call'.last = call.last /\ call'.emitted = call.emitted /\ call'.req = call.req
      /\ call'.failed = call.failed
  BY <1>1, <1>2 DEF CacheInv, CallType, Call
<1> QED BY <1>1, <1>3

\* No step leaves in the cache a row that is neither committed nor pending.
LEMMA CacheStep == CacheInv /\ [Next]_vars => CacheInv'
<1> SUFFICES ASSUME CacheInv, [Next]_vars PROVE CacheInv' OBVIOUS
<1> DEFINE Sessions == [active : BOOLEAN, closed : BOOLEAN, eof : BOOLEAN, done : BOOLEAN]
<1>0. /\ call \in Call /\ CallType /\ CatalogType /\ CacheCommitted
      /\ session \in Sessions /\ answer \in Seq(Answers)
      /\ call.due \in Seq(Event)
  BY DEF CacheInv, CallType, Call
<1>s. \A s \in {session, [session EXCEPT !.active = FALSE], [session EXCEPT !.active = TRUE]} :
         s \in Sessions /\ s.closed = session.closed
  BY <1>0
<1>r. ASSUME Raise, session' \in {session, [session EXCEPT !.active = FALSE]},
             answer' = answer
      PROVE  CacheInv'
  <2>1. NoRows \in [rows : SUBSET CatalogRow, tags : Nat, analysis : BOOLEAN]
    BY DEF NoRows
  <2>a. call' \in Call /\ call'.pc = "idle"
    <3>1. call' = Idle BY <1>r, RaiseEffect
    <3> QED BY <3>1, IdleCall DEF Idle
  <2>b. session' \in Sessions BY <1>r, <1>s
  <2>2. CallType' BY <1>0, <1>r, <2>a, <2>b DEF CallType
  <2>3. CatalogType' BY <1>0, <1>r, <2>1, RaiseEffect DEF CatalogType
  <2>4. CacheCommitted' BY <1>r, RaiseEffect DEF CacheCommitted, Idle
  <2> QED BY <2>2, <2>3, <2>4 DEF CacheInv
<1>k. ASSUME call' \in Call, call'.pc # "idle", call.pc # "idle",
             call'.pc \in {"drain", "drainFinish"} \/ call.pc \notin {"drain", "drainFinish"},
             UNCHANGED catalog, answer' = answer, call'.pc = "produce" => call'.due # <<>>,
             session' \in {session, [session EXCEPT !.active = FALSE]}
      PROVE  CacheInv'
  <2>1. CallType' BY <1>0, <1>k, <1>s DEF CallType
  <2>2. CatalogType' BY <1>0, <1>k DEF CatalogType, catalog
  <2>3. CacheCommitted' BY <1>0, <1>k DEF CacheCommitted, catalog
  <2> QED BY <2>1, <2>2, <2>3 DEF CacheInv
<1>1. CASE Threads \/ ChildDie \/ UNCHANGED vars
  <2>1. /\ call' = call /\ session' = session /\ cache' = cache /\ rows' = rows
        /\ pending' = pending /\ answer' = answer
    BY <1>1, ThreadsKeep DEF vars, catalog
  <2> QED BY <1>0, <2>1 DEF CacheInv, CallType, CatalogType, CacheCommitted
<1>2. ASSUME NEW a \in Answers, NEW expected \in BOOLEAN, Submit(a, expected)
      PROVE  CacheInv'
  <2> DEFINE m == [Idle EXCEPT !.pc = "read", !.req = Submitted + 1, !.expected = expected]
  <2>1. call' = m /\ session' = [session EXCEPT !.active = TRUE] /\ UNCHANGED catalog
        /\ ~ session.closed /\ call.pc = "idle" /\ answer' = Append(answer, a)
    BY <1>2 DEF Submit
  <2>2. Submitted \in Nat BY <1>0 DEF Submitted
  <2>3. m.pc = "read" /\ m \in Call
    <3>1. PICK r \in Nat : r = Submitted + 1 BY <2>2
    <3>2. m = [Idle EXCEPT !.pc = "read", !.req = r, !.expected = expected] BY <3>1
    <3> QED BY <3>2, IdleCall DEF Call
  <2> HIDE DEF m
  <2>4. CallType' BY <1>0, <1>s, <2>1, <2>3 DEF CallType
  <2>5. CatalogType' BY <1>0, <2>1 DEF CatalogType, catalog
  <2>6. CacheCommitted' BY <1>0, <2>1, <2>3 DEF CacheCommitted, catalog
  <2> QED BY <2>4, <2>5, <2>6 DEF CacheInv
<1>3. CASE Take
  <2>0. session' = session /\ answer' = answer BY <1>3 DEF Take
  <2>1. CASE Raise BY <1>r, <2>0, <2>1
  <2>2. CASE ~ Raise
    <3>1. /\ call' \in Call /\ UNCHANGED catalog /\ call.pc = "read"
          /\ call'.pc \in {"finish", "produce", "read"}
          /\ call'.pc = "produce" => call'.due # <<>>
      BY <1>3, <2>2, TakeEffect
    <3> QED BY <1>k, <2>0, <3>1
  <2> QED BY <2>1, <2>2
<1>4. CASE Produce
  <2> DEFINE event == Head(call.due)
             n == [pending EXCEPT !.rows = @ \cup Inserted(event)]
  <2>1. /\ answer' = answer /\ rows' = rows
        /\ cache' = cache \cup RowsOf(event) /\ pending' = Consumed(event, n)
    BY <1>4 DEF Produce
  <2>2. /\ CallType' /\ call.pc = "produce" /\ call'.pc = "yielded"
    <3>1. /\ call' \in Call /\ call'.pc = "yielded" /\ call.pc = "produce"
          /\ session' = session
      BY <1>4, ProduceEffect
    <3> QED BY <1>0, <2>1, <3>1 DEF CallType
  <2>3. RowsOf(event) \subseteq CatalogRow BY DEF RowsOf, CatalogRow
  <2>4. n \in [rows : SUBSET CatalogRow, tags : Nat, analysis : BOOLEAN]
        /\ n.rows = pending.rows \cup Inserted(event)
    BY <1>0, <2>3 DEF CatalogType, Inserted
  <2> HIDE DEF n
  <2>5. /\ Consumed(event, n) \in [rows : SUBSET CatalogRow, tags : Nat, analysis : BOOLEAN]
        /\ Consumed(event, n).rows = n.rows
    <3>1. CASE event = "profile"
      <4>1. Consumed(event, n) = [n EXCEPT !.analysis = TRUE, !.tags = 0]
        BY <3>1 DEF Consumed
      <4>2. PICK t \in Nat : t = 0 OBVIOUS
      <4>3. Consumed(event, n) = [n EXCEPT !.analysis = TRUE, !.tags = t] BY <4>1, <4>2
      <4> QED BY <2>4, <4>3
    <3>2. CASE event = "tag"
      <4>1. Consumed(event, n) = [n EXCEPT !.tags = @ + 1] BY <3>2 DEF Consumed
      <4>2. PICK t \in Nat : t = n.tags + 1 BY <2>4
      <4>3. Consumed(event, n) = [n EXCEPT !.tags = t] BY <4>1, <4>2
      <4> QED BY <2>4, <4>3
    <3>3. CASE event \notin {"profile", "tag"} BY <2>4, <3>3 DEF Consumed
    <3> QED BY <3>1, <3>2, <3>3
  <2>6. CatalogType' BY <1>0, <2>1, <2>3, <2>5 DEF CatalogType
  <2>7. CacheCommitted' BY <1>0, <2>1, <2>2, <2>4, <2>5 DEF CacheCommitted, Inserted
  <2> QED BY <2>2, <2>6, <2>7 DEF CacheInv
<1>5. CASE Resume
  <2>0. session' = session /\ answer' = answer /\ call.pc = "yielded" BY <1>5 DEF Resume
  <2>1. CASE call.last = "completed"
    <3>1. call' = Idle /\ rows' = rows \cup pending.rows /\ pending' = NoRows /\ cache' = cache
      BY <1>5, <2>1 DEF Resume
    <3>2. CallType' BY <1>0, <2>0, <3>1, IdleCall DEF CallType, Idle
    <3>3. CatalogType' BY <1>0, <3>1 DEF CatalogType, NoRows
    <3>4. CacheCommitted' BY <1>0, <2>0, <3>1 DEF CacheCommitted, Idle
    <3> QED BY <3>2, <3>3, <3>4 DEF CacheInv
  <2>2. CASE call.last # "completed"
    <3>1. PICK pc \in {"read", "produce"} :
             call' = [call EXCEPT !.pc = pc] /\ (pc = "produce" => call.due # <<>>)
      BY <1>5, <2>2 DEF Resume
    <3>2. UNCHANGED catalog BY <1>5, <2>2 DEF Resume
    <3>3. call' \in Call /\ call'.pc = pc /\ call'.due = call.due BY <1>0, <3>1 DEF Call
    <3> QED BY <1>k, <2>0, <3>1, <3>2, <3>3
  <2> QED BY <2>1, <2>2
<1>6. CASE StoreFails \/ Orphaned
  BY <1>r, <1>6 DEF StoreFails, Orphaned
<1>7. CASE Abandon
  <2>0. session' = session /\ answer' = answer /\ call.pc = "yielded" BY <1>7 DEF Abandon
  <2>1. CASE Raise BY <1>r, <2>0, <2>1
  <2>2. CASE ~ Raise
    <3> DEFINE m == [Idle EXCEPT !.pc = "drain", !.req = call.req]
    <3>1. call' = m /\ pending' = NoRows /\ cache' = cache /\ rows' = rows
      BY <1>7, <2>2 DEF Abandon
    <3>2. m \in Call /\ m.pc = "drain"
      <4>1. call.req \in Nat BY <1>0 DEF Call
      <4> QED BY <4>1, IdleCall DEF Call
    <3> HIDE DEF m
    <3>3. CallType' BY <1>0, <2>0, <3>1, <3>2 DEF CallType
    <3>4. CatalogType' BY <1>0, <3>1 DEF CatalogType, NoRows
    <3>5. CacheCommitted' BY <3>1, <3>2 DEF CacheCommitted
    <3> QED BY <3>3, <3>4, <3>5 DEF CacheInv
  <2> QED BY <2>1, <2>2
<1>8. CASE Drain \/ FinishPoll
  <2>0. session' = session /\ answer' = answer /\ call.pc # "idle"
    BY <1>8 DEF Drain, FinishPoll, Finishing
  <2>1. CASE Raise BY <1>r, <2>0, <2>1
  <2>2. CASE ~ Raise
    <3>1. UNCHANGED catalog /\ (call' = call \/ call' = [call EXCEPT !.pc = "drainFinish"])
      BY <1>8, <2>2 DEF Drain, FinishPoll
    <3>2. call' \in Call /\ (call' = call \/ call'.pc = "drainFinish")
          /\ (call'.pc = "produce" => call'.due # <<>>)
      BY <1>0, <3>1 DEF Call, CallType
    <3> QED BY <1>k, <2>0, <3>1, <3>2
  <2> QED BY <2>1, <2>2
<1>9. CASE Finish
  <2>0. session' = [session EXCEPT !.active = FALSE] /\ answer' = answer /\ Finishing
    BY <1>9 DEF Finish
  <2>1. CASE Raise BY <1>r, <2>0, <2>1
  <2>2. CASE ~ Raise
    <3>1. /\ UNCHANGED catalog /\ call.pc = "finish" /\ call' \in Call
          /\ call'.pc = "produce" /\ call'.due = TailEvents
      BY <1>9, <2>2, FinishEffect
    <3>2. TailEvents # <<>> BY <1>0, EventTypes
    <3> QED BY <1>k, <2>0, <3>1, <3>2
  <2> QED BY <2>1, <2>2
<1>10. CASE Close
  <2>1. /\ session' = [session EXCEPT !.closed = TRUE] /\ call' = call /\ answer' = answer
        /\ UNCHANGED catalog /\ call.pc = "idle"
    BY <1>10 DEF Close
  <2>2. session' \in Sessions BY <1>0, <2>1
  <2> QED BY <1>0, <2>1, <2>2 DEF CacheInv, CallType, CatalogType, CacheCommitted, catalog
<1>11. CASE CloseInput \/ CloseWait
  <2>1. /\ session' = [session EXCEPT !.eof = TRUE] \/ session' = [session EXCEPT !.done = TRUE]
        /\ call' = call /\ answer' = answer /\ UNCHANGED catalog
    BY <1>11 DEF CloseInput, CloseWait
  <2>2. session' \in Sessions /\ session'.closed = session.closed BY <1>0, <2>1
  <2> QED BY <1>0, <2>1, <2>2 DEF CacheInv, CallType, CatalogType, CacheCommitted, catalog
<1> QED BY <1>1, <1>2, <1>3, <1>4, <1>5, <1>6, <1>7, <1>8, <1>9, <1>10, <1>11
       DEF Next, Consumer

-----------------------------------------------------------------------------
(* ctags, its pipes and the threads *)

\* The reader puts a record, or the end, behind the records in the queue.
LEMMA QueueAppend ==
    ASSUME queue \in Seq(Line), NEW x \in Line, ~ HasEof, queue' = Append(queue, x)
    PROVE  /\ x # Eof => ~ HasEof' /\ Queued' = Queued + 1 /\ queue'[Queued + 1] = x
           /\ x = Eof => HasEof' /\ Queued' = Queued
           /\ \A i \in 1 .. Queued : queue'[i] = queue[i]
           /\ Queued = Len(queue) /\ queue' \in Seq(Line)
<1>1. /\ Len(queue') = Len(queue) + 1 /\ queue'[Len(queue) + 1] = x
      /\ \A i \in 1 .. Len(queue) : queue'[i] = queue[i]
      /\ queue' # <<>> /\ queue' \in Seq(Line) /\ Len(queue) \in Nat
  OBVIOUS
<1>2. Queued = Len(queue) BY DEF Queued
<1>3. HasEof' <=> x = Eof BY <1>1 DEF HasEof
<1>4. CASE x = Eof
  <2>1. Queued' = Len(queue') - 1 BY <1>3, <1>4 DEF Queued
  <2> QED BY <1>1, <1>2, <1>3, <1>4, <2>1
<1>5. CASE x # Eof
  <2>1. Queued' = Len(queue') BY <1>3, <1>5 DEF Queued
  <2> QED BY <1>1, <1>2, <1>3, <1>5, <2>1
<1> QED BY <1>4, <1>5

\* What is left of the queue when its first record is taken.
LEMMA QueueTail ==
    ASSUME queue \in Seq(Line), queue # <<>>, queue' = Tail(queue)
    PROVE  /\ Queued = 0 => Head(queue) = Eof /\ Queued' = 0 /\ ~ HasEof'
           /\ Queued # 0 =>
                 /\ Queued' = Queued - 1 /\ (HasEof' <=> HasEof) /\ Head(queue) = queue[1]
                 /\ \A i \in 1 .. Queued' : queue'[i] = queue[i + 1]
           /\ Queued \in Nat /\ queue' \in Seq(Line) /\ Head(queue) \in Line
<1>1. /\ Len(queue) \in Nat /\ Len(queue) # 0 /\ Len(queue') = Len(queue) - 1
      /\ \A i \in 1 .. Len(queue') : queue'[i] = queue[i + 1]
      /\ Head(queue) = queue[1] /\ queue' \in Seq(Line) /\ Head(queue) \in Line
  OBVIOUS
<1>2. queue' # <<>> <=> Len(queue') # 0 BY <1>1
<1>3. CASE Len(queue) = 1
  <2>1. ~ HasEof' BY <1>1, <1>2, <1>3 DEF HasEof
  <2>2. Queued' = 0 BY <1>1, <1>3, <2>1 DEF Queued
  <2>3. Queued = 0 => Head(queue) = Eof BY <1>1, <1>3 DEF Queued, HasEof
  <2>4. Queued # 0 => ~ HasEof /\ Queued = 1 BY <1>1, <1>3 DEF Queued
  <2>5. Queued \in {0, 1} BY <1>1, <1>3 DEF Queued
  <2>6. Queued # 0 => (HasEof' <=> HasEof) BY <2>1, <2>4
  <2> QED BY <1>1, <1>3, <2>1, <2>2, <2>3, <2>4, <2>5, <2>6
<1>4. CASE Len(queue) # 1
  <2>1. queue'[Len(queue')] = queue[Len(queue)] BY <1>1, <1>4
  <2>2. HasEof' <=> HasEof BY <1>1, <1>2, <1>4, <2>1 DEF HasEof
  <2>3. CASE HasEof
    <3>1. Queued = Len(queue) - 1 /\ Queued' = Len(queue') - 1 BY <2>2, <2>3 DEF Queued
    <3> QED BY <1>1, <1>4, <2>2, <3>1
  <2>4. CASE ~ HasEof
    <3>1. Queued = Len(queue) /\ Queued' = Len(queue') BY <2>2, <2>4 DEF Queued
    <3> QED BY <1>1, <1>4, <2>2, <3>1
  <2> QED BY <2>3, <2>4
<1> QED BY <1>3, <1>4

\* Counters are numbers, and an answer ends with its only "completed".
LEMMA Bounds ==
    ASSUME IoType, CallType
    PROVE  /\ Submitted \in Nat /\ Queued \in Nat /\ Held \in {0, 1}
           /\ Len(stdout) \in Nat /\ Len(child.rest) \in Nat /\ Len(stdin) \in Nat
           /\ Submitted # 0 =>
                 /\ answer[Submitted] \in Answers /\ answer[Submitted] \in Seq(Record)
                 /\ Len(answer[Submitted]) \in Nat \ {0}
                 /\ \A i \in 1 .. Len(answer[Submitted]) :
                       answer[Submitted][i] = "completed" <=> i = Len(answer[Submitted])
<1>1. Submitted \in Nat BY DEF CallType, Submitted
<1>2. Queued \in Nat /\ Held \in {0, 1}
  <2>1. Len(queue) \in Nat /\ (queue # <<>> => Len(queue) # 0) BY DEF IoType
  <2> QED BY <2>1 DEF Queued, HasEof, Held
<1>3. Len(stdout) \in Nat /\ Len(child.rest) \in Nat /\ Len(stdin) \in Nat BY DEF IoType
<1>4. ASSUME Submitted # 0
      PROVE  /\ answer[Submitted] \in Answers /\ answer[Submitted] \in Seq(Record)
             /\ Len(answer[Submitted]) \in Nat \ {0}
             /\ \A i \in 1 .. Len(answer[Submitted]) :
                   answer[Submitted][i] = "completed" <=> i = Len(answer[Submitted])
  <2>1. answer[Submitted] \in Answers BY <1>1, <1>4 DEF CallType, Submitted
  <2> DEFINE a == answer[Submitted]
  <2>2. /\ a \in Seq(Record) /\ a # <<>> /\ Last(a) = "completed"
        /\ "completed" \notin Range(Front(a))
    BY <2>1, SessionAssumption
  <2>3. Len(a) \in Nat \ {0} /\ a[Len(a)] = "completed" BY <2>2 DEF Last
  <2>4. ASSUME NEW i \in 1 .. Len(a), i # Len(a) PROVE a[i] # "completed"
    <3>1. i \in 1 .. Len(a) - 1 BY <2>3, <2>4
    <3>2. i \in DOMAIN Front(a) /\ Front(a)[i] = a[i] BY <2>2, <2>3, <3>1 DEF Front
    <3> QED BY <2>2, <3>2 DEF Range
  <2> QED BY <2>1, <2>2, <2>3, <2>4
<1> QED BY <1>1, <1>2, <1>3, <1>4

\* A step of a thread or of ctags is fine when the four views of the pipes are.
LEMMA IoDone ==
    ASSUME SessionInv, UNCHANGED <<call, session, answer>>, IoType', Chunked', Ended',
           child'.req = child.req \/ child'.req = Submitted,
           ~ session.closed => InOrder' /\ (Submitted # 0 => Taken' = Taken),
           ~ session.active => writer'.state = "done" /\ Silent' /\ child'.req = child.req
    PROVE  Moved
<1>1. CallType' BY DEF SessionInv, CallType
<1>2. Submitted' = Submitted BY DEF Submitted
<1>3. Requested'
  <2>1. call.pc # "idle" => ~ session.closed BY DEF SessionInv, CallType
  <2> QED BY <1>2, <2>1 DEF SessionInv, Requested
<1> QED BY <1>1, <1>3 DEF SessionInv, Moved

\* Nobody writes or prints unless a request is active.
LEMMA Active ==
    ASSUME SessionInv
    PROVE  /\ writer.state = "writing" => session.active
           /\ child.rest # <<>> \/ stdout # <<>> \/ reader.state = "holding" => session.active
           /\ stdin # <<>> /\ child.state = "waiting" =>
                 session.active /\ child.req + 1 = Submitted
BY Bounds DEF SessionInv, Requested, Silent, Held, Chunked, IoType

\* What is between ctags and the consumer depends on these variables alone.
LEMMA SameIo ==
    ASSUME UNCHANGED <<stdout, queue, answer>>,
           child'.req = child.req, child'.rest = child.rest,
           reader'.line = reader.line, reader'.state = "holding" <=> reader.state = "holding"
    PROVE  /\ Queued' = Queued /\ Held' = Held /\ (HasEof' <=> HasEof)
           /\ Taken' = Taken /\ (InOrder' <=> InOrder) /\ (Silent' <=> Silent)
<1>1. HasEof' <=> HasEof BY DEF HasEof
<1>2. Queued' = Queued
  <2>1. CASE HasEof BY <1>1, <2>1 DEF Queued
  <2>2. CASE ~ HasEof BY <1>1, <2>2 DEF Queued
  <2> QED BY <2>1, <2>2
<1>3. Held' = Held /\ Submitted' = Submitted BY DEF Held, Submitted
<1>4. Taken' = Taken BY <1>2, <1>3 DEF Taken
<1>5. Silent' <=> Silent BY <1>2, <1>3 DEF Silent
<1>6. InOrder' <=> InOrder
  <2>1. CASE Submitted # 0 /\ child.req = Submitted
    BY <1>2, <1>3, <1>4, <2>1 DEF InOrder
  <2>2. CASE ~ (Submitted # 0 /\ child.req = Submitted)
    BY <1>3, <1>5, <2>2 DEF InOrder
  <2> QED BY <2>1, <2>2
<1> QED BY <1>1, <1>2, <1>3, <1>4, <1>5, <1>6

\* The writer moves a chunk to the pipe, ends or fails.
LEMMA WriteStep == ASSUME SessionInv, Write PROVE Moved
<1>0. IoType /\ CallType /\ Chunked /\ Ended /\ session.active BY Active DEF SessionInv, Write
<1>1. UNCHANGED <<child, stdout, reader, queue, session, call, answer>> /\ Submitted' = Submitted
  BY DEF Write, Submitted
<1>2. IoType' /\ Chunked'
  <2>1. CASE child.state = "dead" \/ writer.left = 0
    <3>1. /\ stdin' = stdin
          /\ \/ child.state = "dead" /\ writer' = [writer EXCEPT !.state = "done", !.error = TRUE]
             \/ writer.left = 0 /\ writer' = [writer EXCEPT !.state = "done"]
      BY <2>1 DEF Write
    <3>2. /\ writer' \in [state : {"writing", "done"}, req : Nat, left : Nat, error : BOOLEAN]
          /\ writer'.state = "done" /\ writer'.req = writer.req /\ writer'.left = writer.left
      BY <1>0, <3>1 DEF IoType
    <3> QED BY <1>0, <1>1, <2>1, <3>1, <3>2 DEF IoType, Chunked
  <2>2. CASE child.state # "dead" /\ writer.left # 0
    <3>1. stdin' = Append(stdin, writer.req) /\ writer' = [writer EXCEPT !.left = @ - 1]
          /\ writer.state = "writing"
      BY <2>2 DEF Write
    <3>2. /\ writer.left - 1 \in Nat
      BY <1>0, <2>2 DEF IoType
    <3>3. PICK l \in Nat : l = writer.left - 1 BY <3>2
    <3>4. writer' = [writer EXCEPT !.left = l] BY <3>1, <3>3
    <3>5. /\ writer' \in [state : {"writing", "done"}, req : Nat, left : Nat, error : BOOLEAN]
          /\ writer'.state = "writing" /\ writer'.req = writer.req /\ writer'.left = l
      BY <1>0, <3>1, <3>4 DEF IoType
    <3>6. /\ stdin' \in Seq(Nat) /\ Len(stdin') = Len(stdin) + 1 /\ Len(stdin) \in Nat
          /\ stdin'[Len(stdin) + 1] = Submitted
          /\ \A i \in 1 .. Len(stdin) : stdin'[i] = stdin[i]
          /\ DOMAIN stdin' = 1 .. Len(stdin) + 1 /\ DOMAIN stdin = 1 .. Len(stdin)
      BY <1>0, <3>1 DEF IoType, Chunked
    <3>7. IoType' BY <1>0, <1>1, <3>5, <3>6 DEF IoType
    <3>8. Chunked'
      <4>1. /\ writer.left \in Nat /\ child.unread \in Nat /\ Len(stdin) + 1 + l = Len(stdin) + writer.left
        BY <1>0, <3>3, <3>6 DEF IoType
      <4>2. CASE child.req = Submitted
        <5>1. \A i \in DOMAIN stdin' : stdin'[i] = Submitted
          BY <1>0, <2>2, <3>6, <4>2 DEF Chunked
        <5> QED BY <1>0, <1>1, <2>2, <3>5, <3>6, <4>1, <4>2, <5>1 DEF Chunked
      <4>3. CASE child.req # Submitted
        <5>1. child.unread <= Len(stdin) /\ Len(stdin) + writer.left = child.unread + Chunks
          BY <1>0, <2>2, <4>3 DEF Chunked
        <5>2. \A i \in DOMAIN stdin' : i > child.unread => stdin'[i] = Submitted
          BY <1>0, <2>2, <3>6, <4>1, <4>3 DEF Chunked
        <5>3. Len(stdin') + l = child.unread + Chunks BY <3>6, <4>1, <5>1
        <5>4. child.unread <= Len(stdin') BY <3>6, <4>1, <5>1
        <5> QED BY <1>0, <1>1, <2>2, <3>5, <4>3, <5>2, <5>3, <5>4 DEF Chunked
      <4> QED BY <4>2, <4>3
    <3> QED BY <3>7, <3>8
  <2> QED BY <2>1, <2>2
<1>3. /\ child'.req = child.req /\ child'.rest = child.rest
      /\ Taken' = Taken /\ (InOrder' <=> InOrder) /\ (HasEof' <=> HasEof)
  BY <1>1, SameIo
<1>4. Ended' BY <1>0, <1>1, <1>3 DEF Ended
<1>5. ~ session.closed => InOrder' BY <1>3 DEF SessionInv
<1> QED BY <1>0, <1>1, <1>2, <1>3, <1>4, <1>5, IoDone

\* A step of ctags that prints nothing.
LEMMA ChildStep ==
    ASSUME SessionInv, ChildRead \/ ChildReady \/ ChildDie \/ ChildExit
    PROVE  Moved
<1> DEFINE Children == [state : {"waiting", "busy", "dead"}, req : Nat, rest : Seq(Record),
                        unread : Nat]
<1>0. /\ IoType /\ CallType /\ Chunked /\ Ended /\ Requested /\ child \in Children
      /\ child.state # "dead"
  BY DEF SessionInv, IoType, ChildRead, ChildReady, ChildDie, ChildExit
<1>1. UNCHANGED <<stdout, reader, queue, writer, session, call, answer>> /\ Submitted' = Submitted
  BY DEF ChildRead, ChildReady, ChildDie, ChildExit, Submitted
<1>2. ~ HasEof /\ reader.state \notin {"ending", "ended"} BY <1>0 DEF Ended
<1>c. Chunks \in Nat /\ Chunks - 1 \in Nat BY SessionAssumption
<1>3. Ended'
  <2>1. ~ HasEof' BY <1>1, <1>2 DEF HasEof
  <2> QED BY <1>1, <1>2, <2>1 DEF Ended
<1>s. ASSUME child'.req = child.req, child'.rest = child.rest, IoType', Chunked'
      PROVE  Moved
  <2>1. Taken' = Taken /\ (InOrder' <=> InOrder) /\ (Silent' <=> Silent) BY <1>1, <1>s, SameIo
  <2>2. ~ session.active => writer'.state = "done" /\ Silent'
    BY <1>0, <1>1, <2>1 DEF Requested
  <2>3. ~ session.closed => InOrder' BY <2>1 DEF SessionInv
  <2> QED BY <1>1, <1>3, <1>s, <2>1, <2>2, <2>3, IoDone
<1>4. CASE ChildReady
  <2>1. child' = [child EXCEPT !.state = "waiting"] /\ stdin' = stdin /\ child.state = "busy"
        /\ child.unread = 0
    BY <1>4 DEF ChildReady
  <2>2. /\ child' \in Children /\ child'.state = "waiting" /\ child'.req = child.req
        /\ child'.rest = child.rest /\ child'.unread = 0
    BY <1>0, <2>1
  <2>3. IoType' BY <1>0, <1>1, <2>1, <2>2 DEF IoType
  <2>4. Chunked' BY <1>0, <1>1, <2>1, <2>2 DEF Chunked
  <2> QED BY <1>s, <2>2, <2>3, <2>4
<1>5. CASE ChildDie \/ ChildExit
  <2>1. child' = [child EXCEPT !.state = "dead"] /\ stdin' = <<>>
    BY <1>5 DEF ChildDie, ChildExit
  <2>2. /\ child' \in Children /\ child'.state = "dead" /\ child'.req = child.req
        /\ child'.rest = child.rest
    BY <1>0, <2>1
  <2>3. IoType' BY <1>0, <1>1, <2>1, <2>2 DEF IoType
  <2>4. Chunked' BY <1>0, <1>1, <2>1, <2>2 DEF Chunked
  <2> QED BY <1>s, <2>2, <2>3, <2>4
<1>6. CASE ChildRead
  <2>1. /\ stdin # <<>> /\ stdin' = Tail(stdin) /\ stdin' \in Seq(Nat)
        /\ Len(stdin') = Len(stdin) - 1 /\ Head(stdin) = stdin[1] /\ stdin[1] \in Nat
        /\ Len(stdin) \in Nat \ {0} /\ DOMAIN stdin = 1 .. Len(stdin)
        /\ DOMAIN stdin' = 1 .. Len(stdin')
        /\ \A i \in DOMAIN stdin' : stdin'[i] = stdin[i + 1]
    BY <1>0, <1>6 DEF ChildRead, IoType
  <2>2. CASE child.state = "waiting"
    <3>1. session.active /\ child.req + 1 = Submitted /\ child.unread = 0 /\ child.req # Submitted
      <4>1. session.active /\ child.req + 1 = Submitted BY <2>1, <2>2, Active
      <4>2. child.req \in Nat BY <1>0
      <4> QED BY <1>0, <2>2, <4>1, <4>2 DEF Chunked
    <3>2. /\ \A i \in DOMAIN stdin : stdin[i] = Submitted
          /\ Len(stdin) + writer.left = Chunks /\ writer.left \in Nat
      <4>1. writer.left \in Nat BY <1>0 DEF IoType
      <4>2. \A i \in DOMAIN stdin : i > 0 BY <2>1
      <4>3. /\ \A i \in DOMAIN stdin : i > child.unread => stdin[i] = Submitted
            /\ Len(stdin) + writer.left = child.unread + Chunks
        BY <1>0, <2>2, <3>1 DEF Chunked
      <4> QED BY <1>c, <3>1, <4>1, <4>2, <4>3
    <3>3. child' = [state |-> "busy", req |-> Head(stdin), rest |-> answer[Head(stdin)],
                    unread |-> Chunks - 1]
      BY <1>6, <2>2 DEF ChildRead
    <3>4. Head(stdin) = Submitted /\ Submitted # 0 /\ answer[Submitted] \in Seq(Record)
      <4>1. Submitted # 0
        <5>1. child.req \in Nat BY <1>0
        <5> QED BY <3>1, <5>1
      <4>2. Head(stdin) = Submitted BY <2>1, <3>2
      <4>3. answer[Submitted] \in Seq(Record) BY <1>0, <4>1, Bounds
      <4> QED BY <4>1, <4>2, <4>3
    <3>5. /\ child'.state = "busy" /\ child'.req = Submitted /\ child'.rest = answer[Submitted]
          /\ child'.unread = Chunks - 1 /\ child' \in Children
      <4>1. Submitted \in Nat BY <1>0, Bounds
      <4> QED BY <3>3, <3>4, <4>1, <1>c
    <3>6. IoType' BY <1>0, <1>1, <2>1, <3>5 DEF IoType
    <3>7. Chunked'
      <4>1. \A i \in DOMAIN stdin' : stdin'[i] = Submitted BY <2>1, <3>2
      <4>2. child'.unread = Len(stdin') + writer.left BY <2>1, <3>2, <3>5
      <4> QED BY <1>0, <1>1, <3>5, <4>1, <4>2 DEF Chunked
    <3>8. ASSUME ~ session.closed PROVE InOrder' /\ Taken' = Taken
      <4>1. Silent /\ Taken = 0 BY <3>1, <3>8 DEF SessionInv, InOrder, Taken
      <4>2. Held' = Held /\ Queued' = Queued
        <5>1. ~ HasEof' BY <1>1, <1>2 DEF HasEof
        <5> QED BY <1>1, <1>2, <5>1 DEF Held, Queued
      <4>3. Held' = 0 /\ Queued' = 0 /\ stdout' = <<>> BY <1>1, <4>1, <4>2 DEF Silent
      <4> DEFINE a == answer[Submitted]
      <4>4. Len(a) \in Nat /\ Len(<<>>) = 0 /\ DOMAIN <<>> = {} /\ answer'[Submitted'] = a
            /\ DOMAIN a = 1 .. Len(a)
        BY <1>1, <3>4
      <4>5. Taken' = 0
        <5>1. Taken' = Len(a) - Len(a) - 0 - 0 - 0
          BY <1>1, <3>5, <4>3, <4>4 DEF Taken
        <5> QED BY <4>4, <5>1
      <4>6. \A i \in DOMAIN a : a[i] = a[Len(a) - Len(a) + i] BY <4>4
      <4>7. InOrder' BY <1>1, <3>4, <3>5, <4>3, <4>4, <4>5, <4>6 DEF InOrder
      <4> QED BY <4>1, <4>5, <4>7
    <3> QED BY <1>0, <1>1, <1>3, <3>1, <3>5, <3>6, <3>7, <3>8, IoDone
  <2>3. CASE child.state = "busy"
    <3>1. child' = [child EXCEPT !.unread = @ - 1] /\ child.unread > 0
      BY <1>6, <2>3 DEF ChildRead
    <3>2. PICK u \in Nat : u = child.unread - 1
      <4>1. child.unread - 1 \in Nat BY <1>0, <3>1
      <4> QED BY <4>1
    <3>3. child' = [child EXCEPT !.unread = u] BY <3>1, <3>2
    <3>4. /\ child' \in Children /\ child'.state = "busy" /\ child'.req = child.req
          /\ child'.rest = child.rest /\ child'.unread = u
      BY <1>0, <2>3, <3>3
    <3>5. IoType' BY <1>0, <1>1, <2>1, <3>4 DEF IoType
    <3>6. Chunked'
      <4>0. child.unread \in Nat /\ writer.left \in Nat BY <1>0 DEF IoType
      <4>1. CASE child.req = Submitted
        <5>1. \A i \in DOMAIN stdin' : stdin'[i] = Submitted
          BY <1>0, <2>1, <2>3, <4>1 DEF Chunked
        <5>2. u = Len(stdin') + writer.left
          BY <1>0, <2>1, <2>3, <3>2, <4>0, <4>1 DEF Chunked
        <5> QED BY <1>0, <1>1, <2>3, <3>4, <4>1, <5>1, <5>2 DEF Chunked
      <4>2. CASE child.req # Submitted
        <5>1. \A i \in DOMAIN stdin' : i > u => stdin'[i] = Submitted
          BY <1>0, <2>1, <2>3, <3>2, <4>0, <4>2 DEF Chunked
        <5>2. u <= Len(stdin') /\ Len(stdin') + writer.left = u + Chunks
          <6>1. child.unread <= Len(stdin) /\ Len(stdin) + writer.left = child.unread + Chunks
            BY <1>0, <2>3, <4>2 DEF Chunked
          <6>2. Len(stdin') = Len(stdin) - 1 /\ Len(stdin) \in Nat BY <2>1
          <6>3. u <= Len(stdin') BY <3>2, <4>0, <6>1, <6>2
          <6>4. \A k, l, v, c \in Nat : k + l = v + c => (k - 1) + l = (v - 1) + c
            OBVIOUS
          <6>5. Len(stdin') + writer.left = u + Chunks
            <7>1. (Len(stdin) - 1) + writer.left = (child.unread - 1) + Chunks
              BY <1>c, <4>0, <6>1, <6>2, <6>4
            <7> QED BY <3>2, <6>2, <7>1
          <6> QED BY <6>3, <6>5
        <5> QED BY <1>0, <1>1, <2>3, <3>4, <4>2, <5>1, <5>2 DEF Chunked
      <4> QED BY <4>1, <4>2
    <3> QED BY <1>s, <3>4, <3>5, <3>6
  <2> QED BY <1>0, <2>2, <2>3
<1> QED BY <1>4, <1>5, <1>6

\* ctags prints a record.
LEMMA PrintStep == ASSUME SessionInv, ChildPrint PROVE Moved
<1> DEFINE Children == [state : {"waiting", "busy", "dead"}, req : Nat, rest : Seq(Record),
                        unread : Nat]
           x == [req |-> child.req, kind |-> Head(child.rest)]
<1>0. /\ IoType /\ CallType /\ Chunked /\ Ended /\ child \in Children
      /\ child.state = "busy" /\ child.rest # <<>> /\ child.rest \in Seq(Record)
  BY DEF SessionInv, IoType, ChildPrint
<1>1. /\ UNCHANGED <<stdin, reader, queue, writer, session, call, answer>>
      /\ Submitted' = Submitted
      /\ stdout' = Append(stdout, x) /\ child' = [child EXCEPT !.rest = Tail(child.rest)]
  BY DEF ChildPrint, Submitted
<1>2. /\ Tail(child.rest) \in Seq(Record) /\ Len(Tail(child.rest)) = Len(child.rest) - 1
      /\ \A i \in 1 .. Len(child.rest) - 1 : Tail(child.rest)[i] = child.rest[i + 1]
      /\ Head(child.rest) = child.rest[1] /\ Head(child.rest) \in Record
      /\ Len(child.rest) \in Nat \ {0}
  BY <1>0
<1>3. /\ child' \in Children /\ child'.state = "busy" /\ child'.req = child.req
      /\ child'.unread = child.unread /\ child'.rest = Tail(child.rest)
  BY <1>0, <1>1, <1>2
<1>4. /\ x \in Line /\ stdout \in Seq(Line)
  BY <1>0, <1>2 DEF Line, IoType
<1>5. /\ stdout' \in Seq(Line) /\ Len(stdout') = Len(stdout) + 1 /\ Len(stdout) \in Nat
      /\ stdout'[Len(stdout) + 1] = x
      /\ \A i \in 1 .. Len(stdout) : stdout'[i] = stdout[i]
      /\ DOMAIN stdout' = 1 .. Len(stdout) + 1 /\ DOMAIN stdout = 1 .. Len(stdout)
  BY <1>1, <1>4
<1>6. IoType' BY <1>0, <1>1, <1>3, <1>5 DEF IoType
<1>7. Chunked' BY <1>0, <1>1, <1>3 DEF Chunked
<1>8. Ended'
  <2>1. ~ HasEof /\ reader.state \notin {"ending", "ended"} BY <1>0 DEF Ended
  <2>2. ~ HasEof' BY <1>1, <2>1 DEF HasEof
  <2> QED BY <1>1, <2>1, <2>2 DEF Ended
<1>9. session.active BY <1>0, Active
<1>10. ASSUME ~ session.closed PROVE InOrder' /\ Taken' = Taken
  <2> DEFINE a == answer[Submitted]
  <2>1. Submitted # 0 /\ child.req = Submitted BY <1>0, <1>10 DEF SessionInv, InOrder, Silent
  <2>2. /\ Taken >= 0
        /\ \A i \in DOMAIN child.rest : child.rest[i] = a[(Len(a) - Len(child.rest)) + i]
        /\ \A i \in DOMAIN stdout :
              stdout[i] = [req |-> Submitted,
                           kind |-> a[(Len(a) - (Len(child.rest) + Len(stdout))) + i]]
        /\ Held = 1 => reader.line = [req |-> Submitted,
                                      kind |-> a[Len(a) - (Len(child.rest) + Len(stdout))]]
        /\ \A i \in 1 .. Queued : queue[i] = [req |-> Submitted, kind |-> a[Taken + i]]
    BY <1>10, <2>1 DEF SessionInv, InOrder
  <2>3. Held' = Held /\ Queued' = Queued
    <3>1. HasEof' <=> HasEof BY <1>1 DEF HasEof
    <3>2. Queued' = Queued BY <1>1, <3>1 DEF Queued
    <3> QED BY <1>1, <3>2 DEF Held
  <2>4. Held \in {0, 1} /\ Queued \in Nat /\ Len(a) \in Nat BY <1>0, <2>1, Bounds
  <2>5. /\ Taken = Len(a) - Len(child.rest) - Len(stdout) - Held - Queued
        /\ Taken' = Len(a) - Len(child'.rest) - Len(stdout') - Held - Queued
    BY <1>1, <1>3, <2>1, <2>3 DEF Taken
  <2>6. Len(child'.rest) + Len(stdout') = Len(child.rest) + Len(stdout)
        /\ Len(child'.rest) = Len(child.rest) - 1
    <3>1. Len(child'.rest) = Len(child.rest) - 1 BY <1>2, <1>3
    <3>2. Len(child.rest) \in Nat /\ Len(stdout) \in Nat BY <1>2, <1>5
    <3>3. \A m, n \in Nat : (m - 1) + (n + 1) = m + n OBVIOUS
    <3> QED BY <1>5, <3>1, <3>2, <3>3
  <2>7. Taken' = Taken BY <1>2, <1>5, <2>4, <2>5, <2>6
  <2>8. \A i \in DOMAIN child'.rest : child'.rest[i] = a[(Len(a) - Len(child'.rest)) + i]
    <3> SUFFICES ASSUME NEW i \in 1 .. Len(child.rest) - 1
                 PROVE  child'.rest[i] = a[(Len(a) - Len(child'.rest)) + i]
      <4>1. DOMAIN child'.rest = 1 .. Len(child.rest) - 1 BY <1>2, <1>3
      <4> QED BY <4>1
    <3>1. i + 1 \in DOMAIN child.rest /\ child'.rest[i] = child.rest[i + 1] BY <1>0, <1>2, <1>3
    <3>2. (Len(a) - Len(child'.rest)) + i = (Len(a) - Len(child.rest)) + (i + 1)
      <4>1. \A n, m, j \in Nat : (n - (m - 1)) + j = (n - m) + (j + 1) OBVIOUS
      <4>2. Len(child.rest) \in Nat /\ i \in Nat BY <1>2
      <4>3. (Len(a) - (Len(child.rest) - 1)) + i = (Len(a) - Len(child.rest)) + (i + 1)
        BY <2>4, <4>1, <4>2
      <4> QED BY <2>6, <4>3
    <3> QED BY <2>2, <3>1, <3>2
  <2>9. \A i \in DOMAIN stdout' :
           stdout'[i] = [req |-> Submitted,
                         kind |-> a[(Len(a) - (Len(child'.rest) + Len(stdout'))) + i]]
    <3> TAKE i \in DOMAIN stdout'
    <3>1. CASE i \in DOMAIN stdout BY <1>5, <2>2, <2>6, <3>1
    <3>2. CASE i \notin DOMAIN stdout
      <4>1. i = Len(stdout) + 1 /\ stdout'[i] = x BY <1>5, <3>2
      <4>2. 1 \in DOMAIN child.rest /\ Head(child.rest) = a[(Len(a) - Len(child.rest)) + 1]
        BY <1>0, <1>2, <2>2
      <4>3. (Len(a) - (Len(child'.rest) + Len(stdout'))) + i = (Len(a) - Len(child.rest)) + 1
        <5>1. \A n, m, j \in Nat : (n - (m + j)) + (j + 1) = (n - m) + 1 OBVIOUS
        <5>2. Len(child.rest) \in Nat /\ Len(stdout) \in Nat BY <1>2, <1>5
        <5>3. Len(child'.rest) + Len(stdout') = Len(child.rest) + Len(stdout) BY <2>6
        <5>4. (Len(a) - (Len(child.rest) + Len(stdout))) + (Len(stdout) + 1)
                  = (Len(a) - Len(child.rest)) + 1
          BY <2>4, <5>1, <5>2
        <5>5. i = Len(stdout) + 1 BY <4>1
        <5> QED BY <5>3, <5>4, <5>5
      <4> QED BY <2>1, <4>1, <4>2, <4>3
    <3> QED BY <3>1, <3>2
  <2>10. InOrder' BY <1>1, <1>3, <2>1, <2>2, <2>3, <2>6, <2>7, <2>8, <2>9 DEF InOrder
  <2> QED BY <2>7, <2>10
<1> QED BY <1>0, <1>1, <1>3, <1>6, <1>7, <1>8, <1>9, <1>10, IoDone

\* The answer and its views, when a request is in progress.
LEMMA Views ==
    ASSUME SessionInv, ~ session.closed, ~ Silent
    PROVE  LET a == answer[Submitted] IN
           /\ Submitted # 0 /\ child.req = Submitted /\ Submitted \in Nat
           /\ Len(a) \in Nat /\ a \in Seq(Record)
           /\ Taken = Len(a) - Len(child.rest) - Len(stdout) - Held - Queued /\ Taken \in Nat
           /\ Len(child.rest) \in Nat /\ Len(stdout) \in Nat
           /\ Held \in {0, 1} /\ Queued \in Nat
           /\ \A i \in DOMAIN child.rest : child.rest[i] = a[(Len(a) - Len(child.rest)) + i]
           /\ \A i \in DOMAIN stdout :
                 stdout[i] = [req |-> Submitted,
                              kind |-> a[(Len(a) - (Len(child.rest) + Len(stdout))) + i]]
           /\ Held = 1 => reader.line = [req |-> Submitted,
                                         kind |-> a[Len(a) - (Len(child.rest) + Len(stdout))]]
           /\ \A i \in 1 .. Queued : queue[i] = [req |-> Submitted, kind |-> a[Taken + i]]
<1>1. Submitted # 0 /\ child.req = Submitted BY DEF SessionInv, InOrder
<1>2. IoType /\ CallType BY DEF SessionInv
<1>3. /\ Taken >= 0
      /\ Taken = Len(answer[Submitted]) - Len(child.rest) - Len(stdout) - Held - Queued
  BY <1>1 DEF SessionInv, InOrder, Taken
<1>4. Taken \in Nat
  <2>1. Len(answer[Submitted]) \in Nat BY <1>1, <1>2, Bounds
  <2>2. /\ Len(child.rest) \in Nat /\ Len(stdout) \in Nat /\ Held \in Nat /\ Queued \in Nat
    BY <1>2, Bounds
  <2>3. \A k, l, m, n, o \in Nat : k - l - m - n - o >= 0 => k - l - m - n - o \in Nat
    OBVIOUS
  <2> QED BY <1>3, <2>1, <2>2, <2>3
<1> QED BY <1>1, <1>2, <1>3, <1>4, Bounds DEF SessionInv, InOrder

\* The reader takes a record from the pipe, puts it in the queue or notices the end.
LEMMA ReaderStep ==
    ASSUME SessionInv, ReaderTake \/ ReaderPut \/ ReaderEnd \/ ReaderPutEnd
    PROVE  Moved
<1> DEFINE Readers == [state : {"reading", "holding", "ending", "ended"}, line : Line]
<1>0. /\ IoType /\ CallType /\ Chunked /\ Ended /\ Requested
      /\ reader \in Readers /\ queue \in Seq(Line) /\ stdout \in Seq(Line)
  BY DEF SessionInv, IoType
<1>1. UNCHANGED <<stdin, child, writer, session, call, answer>> /\ Submitted' = Submitted
  BY DEF ReaderTake, ReaderPut, ReaderEnd, ReaderPutEnd, Submitted
<1>2. Chunked' BY <1>0, <1>1 DEF Chunked
<1>3. reader.state # "ended" /\ ~ HasEof
  BY <1>0 DEF Ended, ReaderTake, ReaderPut, ReaderEnd, ReaderPutEnd
<1>4. Eof \in Line BY DEF Eof, Line
<1>a. ASSUME session.active, IoType', Ended',
             ~ session.closed => InOrder' /\ (Submitted # 0 => Taken' = Taken)
      PROVE  Moved
  BY <1>0, <1>1, <1>2, <1>a, IoDone
<1>s. ASSUME Queued' = Queued, Held' = Held, stdout' = stdout,
             Held' = 1 => reader'.line = reader.line,
             \A i \in 1 .. Queued : queue'[i] = queue[i], IoType', Ended'
      PROVE  Moved
  <2>1. Taken' = Taken /\ (Silent' <=> Silent) BY <1>1, <1>s DEF Taken, Silent
  <2>2. ASSUME ~ session.closed PROVE InOrder'
    <3>1. InOrder BY <2>2 DEF SessionInv
    <3>2. CASE Submitted # 0 /\ child.req = Submitted
      BY <1>1, <1>s, <2>1, <3>1, <3>2 DEF InOrder
    <3>3. CASE ~ (Submitted # 0 /\ child.req = Submitted)
      BY <1>1, <1>s, <2>1, <3>1, <3>3 DEF InOrder
    <3> QED BY <3>2, <3>3
  <2>3. ~ session.active => writer.state = "done" /\ Silent'
    BY <1>0, <2>1 DEF Requested
  <2> QED BY <1>0, <1>1, <1>2, <1>s, <2>1, <2>2, <2>3, IoDone
<1>5. CASE ReaderTake
  <2>1. /\ reader.state = "reading" /\ stdout # <<>> /\ stdout' = Tail(stdout)
        /\ reader' = [state |-> "holding", line |-> Head(stdout)] /\ queue' = queue
    BY <1>5 DEF ReaderTake
  <2>2. /\ Tail(stdout) \in Seq(Line) /\ Len(Tail(stdout)) = Len(stdout) - 1
        /\ DOMAIN Tail(stdout) = 1 .. Len(stdout) - 1
        /\ \A i \in 1 .. Len(stdout) - 1 : Tail(stdout)[i] = stdout[i + 1]
        /\ Head(stdout) = stdout[1] /\ Head(stdout) \in Line /\ 1 \in DOMAIN stdout
        /\ Len(stdout) \in Nat \ {0} /\ DOMAIN stdout = 1 .. Len(stdout)
    BY <1>0, <2>1
  <2>3. reader' \in Readers /\ reader'.state = "holding" /\ reader'.line = stdout[1]
    BY <2>1, <2>2
  <2>4. IoType' BY <1>0, <1>1, <2>1, <2>2, <2>3 DEF IoType
  <2>5. ~ HasEof' /\ Queued' = Queued
    <3>1. ~ HasEof' BY <1>3, <2>1 DEF HasEof
    <3> QED BY <1>3, <2>1, <3>1 DEF Queued
  <2>6. Ended' BY <2>3, <2>5 DEF Ended
  <2>7. ~ Silent BY <2>1 DEF Silent
  <2>8. session.active BY <2>1, Active
  <2>9. ASSUME ~ session.closed PROVE InOrder' /\ Taken' = Taken
    <3> DEFINE a == answer[Submitted]
               at(n) == [req |-> Submitted, kind |-> a[n]]
    <3>1. /\ Submitted # 0 /\ child.req = Submitted
          /\ Len(a) \in Nat /\ Queued \in Nat /\ Taken \in Nat
          /\ Taken = Len(a) - Len(child.rest) - Len(stdout) - Held - Queued
          /\ Len(child.rest) \in Nat
          /\ \A i \in DOMAIN child.rest : child.rest[i] = a[(Len(a) - Len(child.rest)) + i]
          /\ \A i \in DOMAIN stdout :
                stdout[i] = at((Len(a) - (Len(child.rest) + Len(stdout))) + i)
          /\ \A i \in 1 .. Queued : queue[i] = at(Taken + i)
      BY <2>7, <2>9, Views
    <3>2. Held = 0 /\ Held' = 1 BY <2>1, <2>3 DEF Held
    <3>3. Len(stdout') = Len(stdout) - 1 /\ Len(stdout) \in Nat BY <2>1, <2>2
    <3>4. Taken' = Len(a) - Len(child.rest) - (Len(stdout) - 1) - 1 - Queued
      BY <1>1, <2>5, <3>1, <3>2, <3>3 DEF Taken
    <3>5. Taken' = Taken
      <4>1. \A k, l, m, n \in Nat : k - l - (m - 1) - 1 - n = k - l - m - 0 - n OBVIOUS
      <4> QED BY <3>1, <3>2, <3>3, <3>4, <4>1
    <3>6. Len(a) - (Len(child.rest) + Len(stdout'))
              = (Len(a) - (Len(child.rest) + Len(stdout))) + 1
      <4>1. \A k, l, m \in Nat : k - (l + (m - 1)) = (k - (l + m)) + 1 OBVIOUS
      <4>2. Len(a) - (Len(child.rest) + (Len(stdout) - 1))
                = (Len(a) - (Len(child.rest) + Len(stdout))) + 1
        BY <3>1, <3>3, <4>1
      <4> QED BY <3>3, <4>2
    <3>7. reader'.line = at(Len(a) - (Len(child.rest) + Len(stdout')))
      <4>1. 1 \in DOMAIN stdout BY <2>1, <2>2
      <4>2. stdout[1] = at((Len(a) - (Len(child.rest) + Len(stdout))) + 1) BY <3>1, <4>1
      <4> QED BY <2>3, <3>6, <4>2
    <3>8. \A i \in DOMAIN stdout' :
             stdout'[i] = at((Len(a) - (Len(child.rest) + Len(stdout'))) + i)
      <4> SUFFICES ASSUME NEW i \in 1 .. Len(stdout) - 1
                   PROVE  stdout'[i] = at((Len(a) - (Len(child.rest) + Len(stdout'))) + i)
        BY <2>1, <2>2
      <4>1. i + 1 \in DOMAIN stdout /\ stdout'[i] = stdout[i + 1] /\ i \in Nat
        BY <2>1, <2>2
      <4>2. PICK from \in Int : from = Len(a) - (Len(child.rest) + Len(stdout))
        <5>1. Len(a) - (Len(child.rest) + Len(stdout)) \in Int BY <3>1, <3>3
        <5> QED BY <5>1
      <4>3. from + (i + 1) = (from + 1) + i BY <4>1
      <4>4. stdout[i + 1] = at(from + (i + 1)) BY <3>1, <4>1, <4>2
      <4> QED BY <3>6, <4>1, <4>2, <4>3, <4>4
    <3>9. InOrder'
      <4>1. \A i \in 1 .. Queued' : queue'[i] = at(Taken' + i)
        BY <2>1, <2>5, <3>1, <3>5
      <4>2. Taken' >= 0
        <5>1. Taken \in Nat BY <3>1
        <5>2. \A n \in Nat : n >= 0 OBVIOUS
        <5> QED BY <3>5, <5>1, <5>2
      <4> QED BY <1>1, <3>1, <3>7, <3>8, <4>1, <4>2 DEF InOrder
    <3> QED BY <3>5, <3>9
  <2> QED BY <1>a, <2>4, <2>6, <2>8, <2>9
<1>6. CASE ReaderPut
  <2>0. /\ reader.state = "holding" /\ reader' = [reader EXCEPT !.state = "reading"]
        /\ stdout' = stdout
    BY <1>6 DEF ReaderPut
  <2>1. reader' \in Readers /\ reader'.state = "reading" BY <1>0, <2>0
  <2>2. Held = 1 /\ Held' = 0 BY <2>0, <2>1 DEF Held
  <2>3. session.active BY <2>0, Active
  <2>4. CASE session.closed /\ queue' = queue
    <3>1. IoType' BY <1>0, <1>1, <2>0, <2>1, <2>4 DEF IoType
    <3>2. ~ HasEof' BY <1>3, <2>4 DEF HasEof
    <3>3. Ended' BY <2>1, <3>2 DEF Ended
    <3> QED BY <1>a, <2>3, <2>4, <3>1, <3>3
  <2>5. CASE ~ session.closed /\ queue' = Append(queue, reader.line)
    <3> DEFINE a == answer[Submitted]
               at(n) == [req |-> Submitted, kind |-> a[n]]
    <3>0. ~ Silent BY <2>2 DEF Silent
    <3>1. /\ Submitted # 0 /\ child.req = Submitted
          /\ Len(a) \in Nat /\ Queued \in Nat /\ Taken \in Nat
          /\ Taken = Len(a) - Len(child.rest) - Len(stdout) - Held - Queued
          /\ Len(child.rest) \in Nat /\ Len(stdout) \in Nat
          /\ \A i \in DOMAIN child.rest : child.rest[i] = a[(Len(a) - Len(child.rest)) + i]
          /\ \A i \in DOMAIN stdout :
                stdout[i] = at((Len(a) - (Len(child.rest) + Len(stdout))) + i)
          /\ reader.line = at(Len(a) - (Len(child.rest) + Len(stdout)))
          /\ \A i \in 1 .. Queued : queue[i] = at(Taken + i)
      BY <2>2, <2>5, <3>0, Views
    <3>2. reader.line # Eof /\ reader.line \in Line BY <1>0, <3>1 DEF Eof
    <3>3. /\ ~ HasEof' /\ Queued' = Queued + 1 /\ queue'[Queued + 1] = reader.line
          /\ \A i \in 1 .. Queued : queue'[i] = queue[i]
          /\ queue' \in Seq(Line)
      BY <1>0, <1>3, <2>5, <3>2, QueueAppend
    <3>4. IoType' BY <1>0, <1>1, <2>0, <2>1, <3>3 DEF IoType
    <3>5. Ended' BY <2>1, <3>3 DEF Ended
    <3>6. Taken' = Len(a) - Len(child.rest) - Len(stdout) - 0 - (Queued + 1)
      BY <1>1, <2>0, <2>2, <3>1, <3>3 DEF Taken
    <3>7. Taken' = Taken /\ Taken + (Queued + 1) = Len(a) - (Len(child.rest) + Len(stdout))
      <4>1. \A k, l, m, n \in Nat : /\ k - l - m - 0 - (n + 1) = k - l - m - 1 - n
                                    /\ (k - l - m - 1 - n) + (n + 1) = k - (l + m)
        OBVIOUS
      <4>2. Taken = Len(a) - Len(child.rest) - Len(stdout) - 1 - Queued BY <2>2, <3>1
      <4>3. /\ Len(a) - Len(child.rest) - Len(stdout) - 0 - (Queued + 1)
                  = Len(a) - Len(child.rest) - Len(stdout) - 1 - Queued
            /\ (Len(a) - Len(child.rest) - Len(stdout) - 1 - Queued) + (Queued + 1)
                  = Len(a) - (Len(child.rest) + Len(stdout))
        <5>1. /\ Len(a) \in Nat /\ Len(child.rest) \in Nat /\ Len(stdout) \in Nat
              /\ Queued \in Nat
          BY <3>1
        <5> HIDE DEF a
        <5> QED BY <4>1, <5>1
      <4> QED BY <3>6, <4>2, <4>3
    <3>8. \A i \in 1 .. Queued' : queue'[i] = at(Taken' + i)
      <4> SUFFICES ASSUME NEW i \in 1 .. Queued + 1 PROVE queue'[i] = at(Taken + i)
        BY <3>3, <3>7
      <4>1. CASE i = Queued + 1 BY <3>1, <3>3, <3>7, <4>1
      <4>2. CASE i # Queued + 1
        <5>1. i \in 1 .. Queued BY <3>1, <4>2
        <5> QED BY <3>1, <3>3, <5>1
      <4> QED BY <4>1, <4>2
    <3>9. InOrder'
      <4>1. \A i \in DOMAIN stdout' :
               stdout'[i] = at((Len(a) - (Len(child.rest) + Len(stdout'))) + i)
        BY <2>0, <3>1
      <4>2. Taken' >= 0 /\ Held' # 1
        <5>1. Taken \in Nat BY <3>1
        <5>2. \A n \in Nat : n >= 0 OBVIOUS
        <5> QED BY <2>2, <3>7, <5>1, <5>2
      <4> QED BY <1>1, <3>1, <3>8, <4>1, <4>2 DEF InOrder
    <3> QED BY <1>a, <2>3, <3>4, <3>5, <3>7, <3>9
  <2> QED BY <1>6, <2>4, <2>5 DEF ReaderPut
<1>7. CASE ReaderEnd
  <2>1. PICK s \in {"ending", "ended"} : reader' = [reader EXCEPT !.state = s]
    BY <1>7 DEF ReaderEnd
  <2>2. /\ reader.state = "reading" /\ stdout' = stdout /\ queue' = queue
        /\ stdout = <<>> /\ child.state = "dead"
    BY <1>7 DEF ReaderEnd
  <2>3. reader' \in Readers /\ reader'.state \in {"ending", "ended"} BY <1>0, <2>1
  <2>4. Held' = 0 /\ Held = 0 BY <2>2, <2>3 DEF Held
  <2>5. ~ HasEof' BY <1>3, <2>2 DEF HasEof
  <2>6. Queued' = Queued BY <1>3, <2>2, <2>5 DEF Queued
  <2>7. IoType' BY <1>0, <1>1, <2>2, <2>3 DEF IoType
  <2>8. Ended' BY <1>1, <2>2, <2>5 DEF Ended
  <2> QED BY <1>s, <2>2, <2>4, <2>6, <2>7, <2>8
<1>8. CASE ReaderPutEnd
  <2>1. /\ reader.state = "ending" /\ reader' = [reader EXCEPT !.state = "ended"]
        /\ queue' = Append(queue, Eof) /\ stdout' = stdout
    BY <1>8 DEF ReaderPutEnd
  <2>2. reader' \in Readers /\ reader'.state = "ended" BY <1>0, <2>1
  <2>3. Held' = 0 /\ Held = 0 BY <2>1, <2>2 DEF Held
  <2>4. /\ Queued' = Queued /\ queue' \in Seq(Line)
        /\ \A i \in 1 .. Queued : queue'[i] = queue[i]
    BY <1>0, <1>3, <1>4, <2>1, QueueAppend
  <2>5. IoType' BY <1>0, <1>1, <2>1, <2>2, <2>4 DEF IoType
  <2>6. Ended' BY <1>0, <1>1, <2>1, <2>2 DEF Ended
  <2>7. stdout' = stdout /\ Held' = Held /\ (Held' = 1 => reader'.line = reader.line)
    BY <2>1, <2>3
  <2> QED BY <1>s, <2>4, <2>5, <2>6, <2>7
<1> QED BY <1>5, <1>6, <1>7, <1>8

-----------------------------------------------------------------------------
(* Events *)

\* Events that may precede the tag or the end that a record brings.
Opening(b) ==
    /\ b \in Seq(Event)
    /\ \A i \in DOMAIN b : /\ b[i] \notin {"tag", "completed", "orphan"}
                           /\ b[i] = "profile" => i = 1 /\ ~ call.emitted
    /\ ~ call.emitted => b # <<>> /\ b[1] = "profile"

LEMMA OpeningGrows ==
    ASSUME NEW b, Opening(b), NEW e \in {"parser", "kind", "input"}, NEW c \in BOOLEAN
    PROVE  Opening(b \o (IF c THEN <<>> ELSE <<e>>))
<1>1. b \in Seq(Event) /\ e \in Event BY DEF Opening, Event, CatalogRow
<1>2. CASE c
  <2>1. b \o <<>> = b BY <1>1
  <2> QED BY <1>2, <2>1
<1>3. CASE ~ c
  <2> DEFINE d == Append(b, e)
  <2>1. b \o <<e>> = d BY <1>1
  <2>2. /\ d \in Seq(Event) /\ DOMAIN d = 1 .. Len(b) + 1 /\ DOMAIN b = 1 .. Len(b)
        /\ Len(b) \in Nat /\ (b # <<>> => Len(b) # 0) /\ d # <<>>
        /\ \A i \in DOMAIN b : d[i] = b[i]
        /\ d[Len(b) + 1] = e
    BY <1>1
  <2> HIDE DEF d
  <2>3. \A i \in DOMAIN d : i \in DOMAIN b \/ i = Len(b) + 1 BY <2>2
  <2>4. \A i \in DOMAIN d : /\ d[i] \notin {"tag", "completed", "orphan"}
                            /\ d[i] = "profile" => i = 1 /\ ~ call.emitted
    BY <2>2, <2>3 DEF Opening
  <2>5. ~ call.emitted => d # <<>> /\ d[1] = "profile" BY <2>2 DEF Opening
  <2>6. Opening(d) BY <2>2, <2>4, <2>5 DEF Opening
  <2> QED BY <1>3, <2>1, <2>6
<1> QED BY <1>2, <1>3

\* The first event is the profile, unless there was one.
LEMMA OpeningProfile == Opening(ProfileDue)
<1>1. CASE call.emitted
  <2>1. ProfileDue = <<>> /\ <<>> \in Seq(Event) /\ DOMAIN <<>> = {} BY <1>1 DEF ProfileDue
  <2> QED BY <1>1, <2>1 DEF Opening
<1>2. CASE ~ call.emitted
  <2>1. ProfileDue = <<"profile">> BY <1>2 DEF ProfileDue
  <2>2. "profile" \in Event BY DEF Event, CatalogRow
  <2>3. <<"profile">> \in Seq(Event) /\ DOMAIN <<"profile">> = {1}
        /\ <<"profile">>[1] = "profile" /\ <<"profile">> # <<>>
    BY <2>2
  <2> QED BY <1>2, <2>1, <2>3 DEF Opening
<1> QED BY <1>1, <1>2

\* Events due after a record, or at the end of the answer.
Shaped(s) ==
    /\ \A i \in DOMAIN s :
          /\ s[i] \in {"tag", "completed", "orphan"} => i = Len(s)
          /\ s[i] = "profile" => i = 1 /\ ~ call.emitted
    /\ s # <<>> /\ Last(s) = "tag" /\ ~ call.emitted => s[1] = "profile"

LEMMA OpeningEnds ==
    ASSUME NEW b, Opening(b), NEW e \in {"tag", "completed", "orphan"}
    PROVE  Shaped(b \o <<e>>) /\ b \o <<e>> # <<>> /\ Last(b \o <<e>>) = e
<1>1. b \in Seq(Event) /\ e \in Event BY DEF Opening, Event
<1> DEFINE d == Append(b, e)
<1>2. b \o <<e>> = d BY <1>1
<1>3. /\ DOMAIN d = 1 .. Len(b) + 1 /\ Len(d) = Len(b) + 1 /\ DOMAIN b = 1 .. Len(b)
      /\ Len(b) \in Nat /\ (b # <<>> => Len(b) # 0) /\ d # <<>>
      /\ \A i \in DOMAIN b : d[i] = b[i]
      /\ d[Len(b) + 1] = e
  BY <1>1
<1> HIDE DEF d
<1>4. \A i \in DOMAIN d : i \in DOMAIN b \/ i = Len(b) + 1 BY <1>3
<1>5. \A i \in DOMAIN d : /\ d[i] \in {"tag", "completed", "orphan"} => i = Len(d)
                          /\ d[i] = "profile" => i = 1 /\ ~ call.emitted
  BY <1>3, <1>4 DEF Opening
<1>6. ~ call.emitted => d[1] = "profile" BY <1>3 DEF Opening
<1>7. Last(d) = e BY <1>3 DEF Last
<1> QED BY <1>2, <1>3, <1>5, <1>6, <1>7 DEF Shaped

\* The events of a record end with a tag if it is one, and never with an end.
LEMMA EventShapes ==
    ASSUME CallType, NEW kind
    PROVE  /\ Shaped(EventsOf(kind))
           /\ EventsOf(kind) # <<>> =>
                 /\ Last(EventsOf(kind)) = "tag" <=> kind = "tag"
                 /\ Last(EventsOf(kind)) \notin {"completed", "orphan"}
           /\ kind = "tag" => EventsOf(kind) # <<>>
<1> DEFINE s == EventsOf(kind)
<1>b. call.parser \in BOOLEAN /\ call.kind \in BOOLEAN /\ call.unresolved \in BOOLEAN
  BY DEF CallType, Call
<1>1. CASE kind = "tag"
  <2>1. Opening(ProfileDue \o ParserDue) BY <1>b, OpeningProfile, OpeningGrows DEF ParserDue
  <2>2. Opening((ProfileDue \o ParserDue) \o KindDue) BY <1>b, <2>1, OpeningGrows DEF KindDue
  <2>3. s = (ProfileDue \o ParserDue) \o KindDue \o <<"tag">> BY <1>1 DEF EventsOf
  <2>4. Shaped(s) /\ s # <<>> /\ Last(s) = "tag" BY <2>2, <2>3, OpeningEnds
  <2> QED BY <1>1, <2>4
<1>o. ASSUME NEW t, Opening(t)
      PROVE  Shaped(t) /\ (t # <<>> => Last(t) \notin {"tag", "completed", "orphan"})
  <2>1. t # <<>> => Len(t) \in DOMAIN t BY <1>o DEF Opening
  <2>2. t # <<>> => Last(t) \notin {"tag", "completed", "orphan"}
    BY <1>o, <2>1 DEF Opening, Last
  <2> QED BY <1>o, <2>2 DEF Opening, Shaped
<1>2. CASE kind = "parser"
  <2> DEFINE t == ProfileDue \o <<"parser">>
  <2>1. Opening(ProfileDue \o (IF FALSE THEN <<>> ELSE <<"parser">>))
    BY OpeningProfile, OpeningGrows
  <2>2. Opening(t) BY <2>1
  <2>3. Opening(t \o (IF ~ call.unresolved THEN <<>> ELSE <<"kind">>))
    BY <1>b, <2>2, OpeningGrows
  <2>4. s = t \o (IF ~ call.unresolved THEN <<>> ELSE <<"kind">>)
    BY <1>2, <1>b DEF EventsOf
  <2> HIDE DEF t
  <2>5. Opening(s) BY <2>3, <2>4
  <2> QED BY <1>2, <1>o, <2>5
<1>3. CASE kind \notin {"tag", "parser"}
  <2>1. s \in {<<>>, <<"kind">>, <<"notice">>} BY <1>3 DEF EventsOf
  <2>2. \A e : DOMAIN <<e>> = {1} /\ <<e>>[1] = e /\ Len(<<e>>) = 1 /\ <<e>> # <<>> OBVIOUS
  <2>3. ASSUME NEW e \in {"kind", "notice"}
        PROVE  Shaped(<<e>>) /\ Last(<<e>>) \notin {"tag", "completed", "orphan"}
    <3>1. Last(<<e>>) = e BY <2>2 DEF Last
    <3> QED BY <2>2, <2>3, <3>1 DEF Shaped
  <2>4. Shaped(<<>>)
    <3>1. DOMAIN <<>> = {} OBVIOUS
    <3> QED BY <3>1 DEF Shaped
  <2> QED BY <1>3, <2>1, <2>3, <2>4
<1> QED BY <1>1, <1>2, <1>3

\* The events at the end of an answer have its end last.
LEMMA TailShape ==
    ASSUME CallType
    PROVE  /\ Shaped(TailEvents) /\ TailEvents # <<>>
           /\ Last(TailEvents) \in {"completed", "orphan"}
<1>b. call.expected \in BOOLEAN /\ call.parser \in BOOLEAN BY DEF CallType, Call
<1> DEFINE t == ProfileDue \o (IF ~ (call.expected /\ ~ call.parser) THEN <<>> ELSE <<"input">>)
           e == IF call.unresolved THEN "orphan" ELSE "completed"
<1>1. Opening(t) BY <1>b, OpeningProfile, OpeningGrows
<1>2. TailEvents = t \o <<e>> BY DEF TailEvents
<1>3. e \in {"orphan", "completed"} OBVIOUS
<1> HIDE DEF t, e
<1> QED BY <1>1, <1>2, <1>3, OpeningEnds

LEMMA EventsKept ==
    ASSUME EventsInv, call' = call, session'.active = session.active
    PROVE  EventsInv'
BY DEF EventsInv, Dues, EndOfEvents, DueTags, DueEnd

\* A call that has only begun, or that ended.
LEMMA EventsNone ==
    ASSUME call'.due = <<>>, call'.last = "none",
           call'.pc \in {"idle", "drain"} \/ (call'.pc = "read" /\ session'.active)
    PROVE  EventsInv'
<1>1. DOMAIN <<>> = {} OBVIOUS
<1>2. DueTags' = 0 BY DEF DueTags
<1>3. Dues' BY <1>1, <1>2 DEF Dues
<1>4. EndOfEvents' BY DEF EndOfEvents
<1> QED BY <1>3, <1>4 DEF EventsInv

LEMMA RaiseEvents == ASSUME Raise PROVE EventsInv'
<1>1. call' = Idle BY RaiseEffect
<1> QED BY <1>1, EventsNone DEF Idle

\* The events of the call in progress, after it has taken a record or the end.
LEMMA EventsShaped ==
    ASSUME NEW s, Shaped(s), call'.due = s, call'.emitted = call.emitted
    PROVE  /\ \A i \in DOMAIN call'.due :
                 /\ call'.due[i] \in {"tag", "completed", "orphan"} => i = Len(call'.due)
                 /\ call'.due[i] = "profile" => i = 1 /\ ~ call'.emitted
           /\ DueTags' = 1 /\ ~ call'.emitted => call'.due[1] = "profile"
<1>1. DueTags' = 1 => s # <<>> /\ Last(s) = "tag" BY DEF DueTags
<1> QED BY <1>1 DEF Shaped

\* The events due after the first of them is made.
LEMMA TailOf ==
    ASSUME NEW s \in Seq(Event), s # <<>>
    PROVE  /\ DOMAIN Tail(s) = 1 .. Len(s) - 1 /\ Len(Tail(s)) = Len(s) - 1
           /\ Len(s) \in Nat \ {0} /\ DOMAIN s = 1 .. Len(s)
           /\ \A i \in DOMAIN Tail(s) : Tail(s)[i] = s[i + 1] /\ i \in Nat
           /\ Tail(s) = <<>> <=> Len(s) = 1
           /\ Tail(s) # <<>> => Last(Tail(s)) = Last(s)
           /\ Tail(s) = <<>> => Last(s) = Head(s)
<1> DEFINE d == Tail(s)
<1>1. /\ DOMAIN d = 1 .. Len(s) - 1 /\ Len(d) = Len(s) - 1
      /\ Len(s) \in Nat \ {0} /\ DOMAIN s = 1 .. Len(s)
      /\ \A i \in DOMAIN d : d[i] = s[i + 1] /\ i \in Nat
      /\ d \in Seq(Event) /\ Head(s) = s[1]
  OBVIOUS
<1> HIDE DEF d
<1>2. d = <<>> <=> Len(s) = 1 BY <1>1
<1>3. ASSUME d # <<>> PROVE Last(d) = Last(s)
  <2>1. Len(d) \in DOMAIN d /\ Len(d) + 1 = Len(s) BY <1>1, <1>3
  <2> QED BY <1>1, <2>1 DEF Last
<1>4. d = <<>> => Last(s) = Head(s) BY <1>1, <1>2 DEF Last
<1> QED BY <1>1, <1>2, <1>3, <1>4 DEF d

\* No step breaks the order of the events of an answer.
LEMMA EventsStep ==
    ASSUME CacheInv, EventsInv, Requested, [Next]_vars
    PROVE  EventsInv'
<1>0. call \in Call /\ CallType /\ Dues /\ EndOfEvents /\ call.due \in Seq(Event)
      /\ session \in [active : BOOLEAN, closed : BOOLEAN, eof : BOOLEAN, done : BOOLEAN]
  BY DEF CacheInv, CallType, EventsInv, Call
<1>1. CASE Threads \/ ChildDie \/ UNCHANGED vars
  <2>1. call' = call /\ session' = session BY <1>1, ThreadsKeep DEF vars
  <2> QED BY <2>1, EventsKept
<1>2. ASSUME NEW a \in Answers, NEW expected \in BOOLEAN, Submit(a, expected)
      PROVE  EventsInv'
  <2>1. call' = [Idle EXCEPT !.pc = "read", !.req = Submitted + 1, !.expected = expected]
        /\ session' = [session EXCEPT !.active = TRUE]
    BY <1>2 DEF Submit
  <2>2. call'.due = <<>> /\ call'.last = "none" /\ call'.pc = "read" BY <2>1 DEF Idle
  <2>3. session'.active BY <1>0, <2>1
  <2> QED BY <2>2, <2>3, EventsNone
<1>3. CASE Take /\ ~ Raise
  <2> DEFINE kind == Head(queue).kind
             due == IF Skips(kind) THEN <<>> ELSE EventsOf(kind)
  <2>1. /\ session' = session /\ call.pc = "read"
        /\ call'.pc \in {"finish", "produce", "read"}
        /\ call'.pc = "finish" <=> kind = "completed"
        /\ call'.pc = "read" => due = <<>>
        /\ call'.pc = "produce" => due # <<>>
        /\ call'.due = due /\ call'.last = call.last /\ call'.emitted = call.emitted
    BY <1>3, TakeEffect
  <2>2. session.active /\ call.last # "completed" BY <1>0, <2>1 DEF EndOfEvents
  <2>3. Shaped(due) /\ (due # <<>> => Last(due) \notin {"completed", "orphan"})
    <3>1. Shaped(<<>>)
      <4>1. DOMAIN <<>> = {} OBVIOUS
      <4> QED BY <4>1 DEF Shaped
    <3> QED BY <1>0, <3>1, EventShapes
  <2>4. kind = "completed" => due = <<>> BY DEF EventsOf
  <2> HIDE DEF due
  <2>5. Dues' BY <2>1, <2>3, <2>4, EventsShaped DEF Dues
  <2>6. ~ DueEnd' BY <2>1, <2>3 DEF DueEnd
  <2>7. EndOfEvents' BY <2>1, <2>2, <2>6 DEF EndOfEvents
  <2> QED BY <2>5, <2>7 DEF EventsInv
<1>4. CASE Produce
  <2> DEFINE event == Head(call.due)
             d == Tail(call.due)
  <2>1. /\ call.pc = "produce" /\ call.due # <<>> /\ event # "orphan"
        /\ event = call.due[1] /\ 1 \in DOMAIN call.due
        /\ call'.pc = "yielded" /\ call'.last = event /\ call'.due = d
        /\ call'.failed = call.failed
        /\ call'.emitted <=> call.emitted \/ event = "profile"
        /\ session' = session
    BY <1>4, ProduceEffect
  <2>2. /\ DOMAIN d = 1 .. Len(call.due) - 1 /\ Len(d) = Len(call.due) - 1
        /\ Len(call.due) \in Nat \ {0} /\ DOMAIN call.due = 1 .. Len(call.due)
        /\ \A i \in DOMAIN d : d[i] = call.due[i + 1] /\ i \in Nat
        /\ d = <<>> <=> Len(call.due) = 1
        /\ d # <<>> => Last(d) = Last(call.due)
        /\ d = <<>> => Last(call.due) = event
    <3> DEFINE s == call.due
    <3>1. s \in Seq(Event) /\ s # <<>> BY <1>0, <2>1
    <3> HIDE DEF s
    <3>2. /\ DOMAIN Tail(s) = 1 .. Len(s) - 1 /\ Len(Tail(s)) = Len(s) - 1
          /\ Len(s) \in Nat \ {0} /\ DOMAIN s = 1 .. Len(s)
          /\ \A i \in DOMAIN Tail(s) : Tail(s)[i] = s[i + 1] /\ i \in Nat
          /\ Tail(s) = <<>> <=> Len(s) = 1
          /\ Tail(s) # <<>> => Last(Tail(s)) = Last(s)
          /\ Tail(s) = <<>> => Last(s) = Head(s)
      BY <3>1, TailOf
    <3> QED BY <3>2 DEF s
  <2>3. \A i \in DOMAIN d : i + 1 \in DOMAIN call.due /\ i + 1 # 1
        /\ (i + 1 = Len(call.due) => i = Len(d))
    <3>1. \A n \in Nat \ {0} : \A i \in 1 .. n - 1 :
             i + 1 \in 1 .. n /\ i + 1 # 1 /\ (i + 1 = n => i = n - 1)
      OBVIOUS
    <3> DEFINE n == Len(call.due)
    <3>2. n \in Nat \ {0} /\ DOMAIN d = 1 .. n - 1 /\ DOMAIN call.due = 1 .. n /\ Len(d) = n - 1
      BY <2>2
    <3> HIDE DEF n, d
    <3>3. \A i \in DOMAIN d : i + 1 \in DOMAIN call.due /\ i + 1 # 1 /\ (i + 1 = n => i = Len(d))
      BY <3>1, <3>2
    <3> QED BY <3>3 DEF n
  <2>4. d # <<>> => Last(d) = Last(call.due) BY <2>2
  <2>5. event \in {"tag", "completed", "orphan"} <=> d = <<>> /\ Last(call.due) \in {"tag", "completed", "orphan"}
    <3>1. event \in {"tag", "completed", "orphan"} => 1 = Len(call.due)
      BY <1>0, <2>1 DEF Dues
    <3>2. Len(call.due) = 1 => Last(call.due) = event BY <2>1 DEF Last
    <3> QED BY <2>2, <3>1, <3>2
  <2>6. d = <<>> => Last(call.due) = event BY <2>2
  <2>7. Dues'
    <3>1. \A i \in DOMAIN d : /\ d[i] \in {"tag", "completed", "orphan"} => i = Len(d)
                              /\ d[i] # "profile"
      BY <1>0, <2>2, <2>3 DEF Dues
    <3>2. DueTags' = 1 => call'.emitted
      <4> SUFFICES ASSUME DueTags' = 1 PROVE call'.emitted OBVIOUS
      <4>1. d # <<>> /\ Last(d) = "tag" BY <2>1 DEF DueTags
      <4>2. DueTags = 1 BY <2>1, <2>4, <4>1 DEF DueTags
      <4> QED BY <1>0, <2>1, <4>2 DEF Dues
    <3> QED BY <2>1, <3>1, <3>2 DEF Dues
  <2>8. EndOfEvents'
    <3>1. ~ session.active <=> DueEnd
      BY <1>0, <2>1 DEF EndOfEvents
    <3>2. DueEnd <=> DueEnd' \/ event = "completed"
      <4>1. CASE d = <<>>
        <5>1. ~ DueEnd' BY <2>1, <4>1 DEF DueEnd
        <5>2. DueEnd <=> event \in {"completed", "orphan"} BY <2>1, <2>6, <4>1 DEF DueEnd
        <5> QED BY <2>1, <5>1, <5>2
      <4>2. CASE d # <<>>
        <5>1. DueEnd' <=> DueEnd BY <2>1, <2>4, <4>2 DEF DueEnd
        <5>2. event # "completed" BY <2>5, <4>2
        <5> QED BY <5>1, <5>2
      <4> QED BY <4>1, <4>2
    <3>3. event = "completed" => d = <<>> BY <2>5
    <3>4. ~ session.active => ~ call.failed BY <1>0, <2>1 DEF EndOfEvents
    <3> HIDE DEF event, d
    <3> QED BY <2>1, <3>1, <3>2, <3>3, <3>4 DEF EndOfEvents
  <2> QED BY <2>7, <2>8 DEF EventsInv
<1>5. CASE Resume
  <2>1. session' = session /\ call.pc = "yielded" BY <1>5 DEF Resume
  <2>2. CASE call.last = "completed"
    <3>1. call' = Idle BY <1>5, <2>2 DEF Resume
    <3> QED BY <3>1, EventsNone DEF Idle
  <2>3. CASE call.last # "completed"
    <3>1. PICK pc \in {"read", "produce"} :
             call' = [call EXCEPT !.pc = pc] /\ (pc = "read" <=> call.due = <<>>)
      BY <1>5, <2>3 DEF Resume
    <3>2. /\ call'.pc = pc /\ call'.due = call.due /\ call'.last = call.last
          /\ call'.emitted = call.emitted /\ call'.failed = call.failed
      BY <1>0, <3>1 DEF Call
    <3>3. DueTags' = DueTags /\ (DueEnd' <=> DueEnd) BY <3>2 DEF DueTags, DueEnd
    <3>4. Dues' BY <1>0, <3>1, <3>2, <3>3 DEF Dues
    <3>5. ~ session.active <=> DueEnd BY <1>0, <2>1, <2>3 DEF EndOfEvents
    <3>6. pc = "read" => session.active BY <3>1, <3>5 DEF DueEnd
    <3>7. ~ session.active => ~ call.failed BY <1>0, <2>1 DEF EndOfEvents
    <3>8. EndOfEvents' BY <2>1, <2>3, <3>2, <3>3, <3>5, <3>6, <3>7 DEF EndOfEvents
    <3> QED BY <3>4, <3>8 DEF EventsInv
  <2> QED BY <2>2, <2>3
<1>6. CASE Raise BY <1>6, RaiseEvents
<1>7. CASE Abandon /\ ~ Raise
  <2>1. call' = [Idle EXCEPT !.pc = "drain", !.req = call.req] BY <1>7 DEF Abandon
  <2>2. call'.due = <<>> /\ call'.last = "none" /\ call'.pc = "drain" BY <2>1 DEF Idle
  <2> QED BY <2>2, EventsNone
<1>8. CASE (Drain \/ FinishPoll) /\ ~ Raise
  <2>1. session' = session
        /\ \/ call' = call
           \/ call.pc = "drain" /\ call' = [call EXCEPT !.pc = "drainFinish"]
    <3>1. CASE Drain
      <4>1. /\ call.pc = "drain" /\ session' = session
            /\ CASE Head(queue).kind = "completed" ->
                      call' = [call EXCEPT !.pc = "drainFinish"]
                 [] Head(queue).kind = "eof" -> Raise
                 [] OTHER -> call' = call
        BY <3>1 DEF Drain
      <4> QED BY <1>8, <4>1
    <3>2. CASE FinishPoll BY <1>8, <3>2 DEF FinishPoll
    <3> QED BY <1>8, <3>1, <3>2
  <2>2. CASE call' = call BY <2>1, <2>2, EventsKept
  <2>3. CASE call.pc = "drain" /\ call' = [call EXCEPT !.pc = "drainFinish"]
    <3>1. call'.pc = "drainFinish" /\ call'.due = call.due /\ call'.last = call.last
      BY <1>0, <2>3 DEF Call
    <3>2. call.due = <<>> /\ call.last # "completed" BY <1>0, <2>3 DEF Dues, EndOfEvents
    <3>3. DOMAIN <<>> = {} OBVIOUS
    <3>4. DueTags' = 0 BY <3>1, <3>2 DEF DueTags
    <3>5. Dues' BY <3>1, <3>2, <3>3, <3>4 DEF Dues
    <3>6. EndOfEvents' BY <3>1, <3>2 DEF EndOfEvents
    <3> QED BY <3>5, <3>6 DEF EventsInv
  <2> QED BY <2>1, <2>2, <2>3
<1>9. CASE Finish /\ ~ Raise
  <2>1. /\ session' = [session EXCEPT !.active = FALSE] /\ call.pc = "finish" /\ ~ Rejected
        /\ call'.pc = "produce" /\ call'.due = TailEvents
        /\ call'.last = call.last /\ call'.emitted = call.emitted
        /\ call'.failed = call.failed
    BY <1>9, FinishEffect
  <2>2. ~ session'.active BY <1>0, <2>1
  <2>3. /\ Shaped(TailEvents) /\ TailEvents # <<>>
        /\ Last(TailEvents) \in {"completed", "orphan"}
    BY <1>0, TailShape
  <2>4. Dues' BY <2>1, <2>3, EventsShaped DEF Dues
  <2>5. DueEnd' BY <2>1, <2>3 DEF DueEnd
  <2>6. call.last # "completed" /\ ~ call.failed
    BY <1>0, <2>1 DEF EndOfEvents, Rejected
  <2>7. EndOfEvents' BY <2>1, <2>2, <2>5, <2>6 DEF EndOfEvents
  <2> QED BY <2>4, <2>7 DEF EventsInv
<1>10. CASE Close \/ CloseInput \/ CloseWait
  <2>1. /\ call' = call
        /\ \/ session' = [session EXCEPT !.closed = TRUE]
           \/ session' = [session EXCEPT !.eof = TRUE]
           \/ session' = [session EXCEPT !.done = TRUE]
    BY <1>10 DEF Close, CloseInput, CloseWait
  <2>2. session'.active = session.active BY <1>0, <2>1
  <2> QED BY <2>1, <2>2, EventsKept
<1> QED BY <1>1, <1>2, <1>3, <1>4, <1>5, <1>6, <1>7, <1>8, <1>9, <1>10
       DEF Next, Consumer, StoreFails, Orphaned

-----------------------------------------------------------------------------
(* The consumer's side of the pipes *)

\* Taking what is first in the queue takes the next record of the answer, or
\* the end of the output.
LEMMA QueueStep ==
    ASSUME SessionInv, ~ session.closed, queue # <<>>, queue' = Tail(queue),
           UNCHANGED <<stdin, child, stdout, reader, writer, session, answer>>
    PROVE  LET kind == Head(queue).kind
               a == answer[Submitted]
           IN
           /\ IoType' /\ Chunked' /\ Ended' /\ InOrder' /\ (Silent => Silent')
           /\ kind = "eof" => Queued = 0 /\ Taken' = Taken
           /\ kind # "eof" =>
                 /\ Submitted # 0 /\ child.req = Submitted /\ ~ Silent
                 /\ Taken \in Nat /\ Taken' = Taken + 1 /\ Taken + 1 \in 1 .. Len(a)
                 /\ kind = a[Taken + 1] /\ (kind = "completed" <=> Taken + 1 = Len(a))
           /\ Head(queue) = Eof <=> kind = "eof"
<1> DEFINE kind == Head(queue).kind
           a == answer[Submitted]
<1>0. IoType /\ CallType /\ Chunked /\ Ended /\ InOrder /\ queue \in Seq(Line)
      /\ Submitted' = Submitted
  BY DEF SessionInv, IoType, Submitted
<1>1. /\ Queued = 0 => Head(queue) = Eof /\ Queued' = 0 /\ ~ HasEof'
      /\ Queued # 0 => /\ Queued' = Queued - 1 /\ (HasEof' <=> HasEof) /\ Head(queue) = queue[1]
                       /\ \A i \in 1 .. Queued' : queue'[i] = queue[i + 1]
      /\ Queued \in Nat /\ queue' \in Seq(Line)
  BY <1>0, QueueTail
<1>2. IoType' BY <1>0, <1>1 DEF IoType
<1>3. Chunked' BY <1>0 DEF Chunked
<1>4. Ended' BY <1>0, <1>1 DEF Ended
<1>5. Held' = Held BY DEF Held
<1>6. CASE Queued = 0
  <2>1. Queued' = Queued BY <1>1, <1>6
  <2>2. Taken' = Taken BY <1>0, <1>5, <2>1 DEF Taken
  <2>3. Silent' <=> Silent BY <1>5, <2>1 DEF Silent
  <2>4. InOrder'
    <3>1. CASE Submitted # 0 /\ child.req = Submitted
      <4>1. \A i \in 1 .. Queued' :
               queue'[i] = [req |-> Submitted, kind |-> a[Taken' + i]]
        BY <1>1, <1>6
      <4> QED BY <1>0, <1>5, <2>2, <3>1, <4>1 DEF InOrder
    <3>2. CASE ~ (Submitted # 0 /\ child.req = Submitted)
      BY <1>0, <2>3, <3>2 DEF InOrder
    <3> QED BY <3>1, <3>2
  <2>5. Head(queue) = Eof /\ kind = "eof" BY <1>1, <1>6 DEF Eof
  <2> QED BY <1>2, <1>3, <1>4, <1>6, <2>2, <2>3, <2>4, <2>5
<1>7. CASE Queued # 0
  <2>0. ~ Silent BY <1>7 DEF Silent
  <2>1. /\ Submitted # 0 /\ child.req = Submitted
        /\ Len(a) \in Nat /\ Taken \in Nat
        /\ Taken = Len(a) - Len(child.rest) - Len(stdout) - Held - Queued
        /\ Len(child.rest) \in Nat /\ Len(stdout) \in Nat /\ Held \in {0, 1}
        /\ \A i \in 1 .. Queued : queue[i] = [req |-> Submitted, kind |-> a[Taken + i]]
    BY <2>0, Views
  <2>2. 1 \in 1 .. Queued BY <1>1, <1>7
  <2>3. Head(queue) = [req |-> Submitted, kind |-> a[Taken + 1]]
    BY <1>1, <1>7, <2>1, <2>2
  <2>4. Taken' = Len(a) - Len(child.rest) - Len(stdout) - Held - (Queued - 1)
    BY <1>0, <1>1, <1>5, <1>7, <2>1 DEF Taken
  <2>5. Taken' = Taken + 1 /\ Taken + 1 \in 1 .. Len(a)
    <3> DEFINE k == Len(a)
               l == Len(child.rest)
               m == Len(stdout)
    <3>1. k \in Nat /\ l \in Nat /\ m \in Nat /\ Held \in Nat /\ Taken \in Nat
      <4>1. Held \in Nat BY <1>0, Bounds
      <4> QED BY <2>1, <4>1
    <3>2. Taken = k - l - m - Held - Queued BY <2>1
    <3>3. Taken' = k - l - m - Held - (Queued - 1) BY <2>4
    <3> HIDE DEF a, k, l, m
    <3>4. Taken' = Taken + 1 BY <1>1, <3>1, <3>2, <3>3
    <3>5. Taken + 1 \in 1 .. k BY <1>1, <1>7, <3>1, <3>2
    <3> QED BY <3>4, <3>5 DEF k
  <2>6. kind = a[Taken + 1] /\ (kind = "completed" <=> Taken + 1 = Len(a)) /\ kind # "eof"
        /\ Head(queue) # Eof
    <3>1. kind = a[Taken + 1] BY <2>3
    <3>2. kind = "completed" <=> Taken + 1 = Len(a)
      BY <1>0, <2>1, <2>5, <3>1, Bounds
    <3>3. a[Taken + 1] \in Record
      <4>1. a \in Seq(Record) BY <1>0, <2>1, Bounds
      <4> QED BY <2>5, <4>1
    <3>4. kind # "eof" BY <3>1, <3>3 DEF Record
    <3> QED BY <3>1, <3>2, <3>4 DEF Eof
  <2>7. InOrder'
    <3>1. \A i \in 1 .. Queued' : queue'[i] = [req |-> Submitted, kind |-> a[Taken' + i]]
      <4> SUFFICES ASSUME NEW i \in 1 .. Queued - 1
                   PROVE  queue[i + 1] = [req |-> Submitted, kind |-> a[(Taken + 1) + i]]
        BY <1>1, <1>7, <2>5
      <4>1. i + 1 \in 1 .. Queued /\ i \in Nat BY <1>1
      <4>2. \A m, n \in Nat : m + (n + 1) = (m + 1) + n OBVIOUS
      <4>3. Taken + (i + 1) = (Taken + 1) + i BY <2>1, <4>1, <4>2
      <4>4. queue[i + 1] = [req |-> Submitted, kind |-> a[Taken + (i + 1)]] BY <2>1, <4>1
      <4> QED BY <4>3, <4>4
    <3>2. Taken' >= 0
      <4>1. \A n \in Nat : n + 1 >= 0 OBVIOUS
      <4> QED BY <2>1, <2>5, <4>1
    <3> QED BY <1>0, <1>5, <2>1, <3>1, <3>2 DEF InOrder
  <2> QED BY <1>2, <1>3, <1>4, <1>7, <2>0, <2>1, <2>5, <2>6, <2>7
<1> QED BY <1>6, <1>7

\* All was taken of an answer that is not on its way any more, and the other
\* way round.
LEMMA AllTaken ==
    ASSUME SessionInv, ~ session.closed, Submitted # 0, child.req = Submitted
    PROVE  Silent <=> Taken = Len(answer[Submitted])
<1>1. IoType /\ CallType BY DEF SessionInv
<1> DEFINE k == Len(answer[Submitted])
           l == Len(child.rest)
           m == Len(stdout)
<1>2. k \in Nat /\ l \in Nat /\ m \in Nat /\ Held \in Nat /\ Queued \in Nat
  BY <1>1, Bounds
<1>3. Taken = k - l - m - Held - Queued
  BY DEF Taken
<1> HIDE DEF k, l, m
<1>4. Taken = k <=> l = 0 /\ m = 0 /\ Held = 0 /\ Queued = 0
  BY <1>2, <1>3
<1>5. Taken = Len(answer[Submitted])
         <=> Len(child.rest) = 0 /\ Len(stdout) = 0 /\ Held = 0 /\ Queued = 0
  BY <1>4 DEF k, l, m
<1>6. (Len(child.rest) = 0 <=> child.rest = <<>>) /\ (Len(stdout) = 0 <=> stdout = <<>>)
  BY <1>1 DEF IoType
<1> QED BY <1>5, <1>6 DEF Silent

\* A step of the consumer that leaves the pipes alone.
LEMMA CallDone ==
    ASSUME SessionInv, CallType', UNCHANGED <<io, answer>>,
           session'.active = session.active, session'.closed = session.closed,
           call'.pc # "idle" => call.pc # "idle" /\ call'.req = call.req,
           call'.pc \in {"finish", "drainFinish"} => call'.pc = call.pc
    PROVE  SessionInv' /\ Taken' = Taken /\ Submitted' = Submitted
<1>1. UNCHANGED <<stdin, child, stdout, reader, queue, writer>> /\ Submitted' = Submitted
  BY DEF io, Submitted
<1>2. Taken' = Taken /\ (InOrder' <=> InOrder) /\ (Silent' <=> Silent) /\ (HasEof' <=> HasEof)
  BY <1>1, SameIo
<1>3. IoType' BY <1>1 DEF SessionInv, IoType
<1>4. Chunked' BY <1>1 DEF SessionInv, Chunked
<1>5. Ended' BY <1>1, <1>2 DEF SessionInv, Ended
<1>6. Requested' BY <1>1, <1>2 DEF SessionInv, Requested
<1> QED BY <1>1, <1>2, <1>3, <1>4, <1>5, <1>6 DEF SessionInv

\* A step of the consumer that takes what is first in the queue.
LEMMA TakeDone ==
    ASSUME SessionInv, CallType', call.pc # "idle", queue # <<>>, queue' = Tail(queue),
           UNCHANGED <<stdin, child, stdout, reader, writer, session, answer>>,
           call'.pc # "idle" => call'.req = call.req,
           call'.pc \in {"finish", "drainFinish"} =>
              \/ Head(queue).kind = "completed"
              \/ Head(queue).kind = "eof" /\ call'.pc = call.pc
    PROVE  SessionInv' /\ Submitted' = Submitted
<1>1. Submitted' = Submitted BY DEF Submitted
<1>2. CallType /\ Requested BY DEF SessionInv
<1>3. ~ session.closed BY <1>2 DEF CallType
<1>4. IoType' /\ Chunked' /\ Ended' /\ InOrder' /\ (Silent => Silent') BY <1>3, QueueStep
<1>5. ASSUME call'.pc \in {"finish", "drainFinish"}
      PROVE  session.active /\ child.req = Submitted /\ Taken' = Len(answer[Submitted])
  <2>1. CASE Head(queue).kind = "completed"
    <3>1. child.req = Submitted /\ ~ Silent /\ Taken' = Len(answer[Submitted])
      BY <1>3, <2>1, QueueStep
    <3> QED BY <1>2, <3>1 DEF Requested
  <2>2. CASE Head(queue).kind = "eof" /\ call'.pc = call.pc
    <3>1. Taken' = Taken BY <1>3, <2>2, QueueStep
    <3> QED BY <1>2, <1>5, <2>2, <3>1 DEF Requested
  <2> QED BY <1>5, <2>1, <2>2
<1>6. Requested' BY <1>1, <1>2, <1>4, <1>5 DEF Requested
<1> QED BY <1>1, <1>4, <1>6 DEF SessionInv

\* A new request starts on empty pipes.
LEMMA SubmitStep ==
    ASSUME SessionInv, CallType', NEW a \in Answers, NEW expected \in BOOLEAN,
           Submit(a, expected)
    PROVE  /\ SessionInv' /\ Taken' = 0 /\ Submitted' = Submitted + 1 /\ Submitted \in Nat
           /\ \A r \in 1 .. Submitted : answer'[r] = answer[r]
<1> DEFINE Writers == [state : {"writing", "done"}, req : Nat, left : Nat, error : BOOLEAN]
           Sessions == [active : BOOLEAN, closed : BOOLEAN, eof : BOOLEAN, done : BOOLEAN]
<1>0. /\ IoType /\ CallType /\ Chunked /\ Ended /\ Requested /\ Submitted \in Nat
      /\ session \in Sessions
  BY Bounds DEF SessionInv, CallType
<1>1. /\ ~ session.active /\ ~ session.closed /\ answer' = Append(answer, a)
      /\ writer' = [state |-> "writing", req |-> Submitted + 1, left |-> Chunks,
                    error |-> FALSE]
      /\ session' = [session EXCEPT !.active = TRUE]
      /\ call' = [Idle EXCEPT !.pc = "read", !.req = Submitted + 1, !.expected = expected]
      /\ UNCHANGED <<stdin, child, stdout, reader, queue>>
  BY DEF Submit, MaySubmit
<1>2. Submitted' = Submitted + 1 /\ \A r \in 1 .. Submitted : answer'[r] = answer[r]
  BY <1>0, <1>1 DEF CallType, Submitted
<1>3. /\ writer' \in Writers /\ writer'.state = "writing" /\ writer'.req = Submitted + 1
      /\ writer'.left = Chunks
  BY <1>0, <1>1, SessionAssumption
<1>4. session'.active /\ session'.closed = session.closed BY <1>0, <1>1
<1>5. call'.pc = "read" /\ call'.req = Submitted + 1 BY <1>1 DEF Idle
<1>6. child.req = Submitted /\ writer.state = "done" /\ Silent BY <1>0, <1>1 DEF Requested
<1>7. Held' = Held /\ (HasEof' <=> HasEof) BY <1>1 DEF Held, HasEof
<1>8. Queued' = Queued
  <2>1. CASE HasEof BY <1>1, <1>7, <2>1 DEF Queued
  <2>2. CASE ~ HasEof BY <1>1, <1>7, <2>2 DEF Queued
  <2> QED BY <2>1, <2>2
<1>9. child'.req # Submitted' /\ child'.req + 1 = Submitted' BY <1>0, <1>1, <1>2, <1>6
<1>10. Silent' BY <1>1, <1>6, <1>7, <1>8 DEF Silent
<1>11. InOrder' /\ Taken' = 0 BY <1>9, <1>10 DEF InOrder, Taken
<1>12. IoType' BY <1>0, <1>1, <1>3 DEF IoType
<1>13. Chunked'
  <2>1. CASE child.state = "dead" BY <1>0, <1>1, <1>2, <1>3, <2>1 DEF Chunked
  <2>2. CASE child.state # "dead"
    <3>1. Len(stdin) \in Nat /\ DOMAIN stdin = 1 .. Len(stdin) /\ child.unread \in Nat
      BY <1>0 DEF IoType
    <3>2. child.unread = Len(stdin) BY <1>0, <1>6, <2>2, <3>1 DEF Chunked
    <3>3. \A i \in DOMAIN stdin : ~ (i > child.unread) BY <3>1, <3>2
    <3>4. child.unread <= Len(stdin) /\ Len(stdin) + Chunks = child.unread + Chunks
      BY <3>1, <3>2
    <3>5. child.state = "waiting" => child.unread = 0 BY <1>0, <2>2 DEF Chunked
    <3> QED BY <1>1, <1>2, <1>3, <1>9, <2>2, <3>3, <3>4, <3>5 DEF Chunked
  <2> QED BY <2>1, <2>2
<1>14. Ended' BY <1>0, <1>1, <1>7 DEF Ended
<1>15. Requested'
  <2>1. Submitted' # 0 BY <1>0, <1>2
  <2> QED BY <1>2, <1>4, <1>5, <1>9, <2>1 DEF Requested
<1> QED BY <1>0, <1>2, <1>11, <1>12, <1>13, <1>14, <1>15 DEF SessionInv

\* A request is over when its whole answer was taken and its writer is done.
LEMMA FinishStep ==
    ASSUME SessionInv, CallType', CacheInv, Finish
    PROVE  SessionInv' /\ Taken' = Taken /\ Submitted' = Submitted
<1>1. /\ UNCHANGED <<stdin, child, stdout, reader, queue, writer, answer>>
      /\ session' = [session EXCEPT !.active = FALSE] /\ writer.state = "done"
      /\ call.pc \in {"finish", "drainFinish"} /\ Submitted' = Submitted
  BY DEF Finish, WriterConfirmed, Finishing, io, Submitted
<1>2. Taken' = Taken /\ (InOrder' <=> InOrder) /\ (Silent' <=> Silent) /\ (HasEof' <=> HasEof)
  BY <1>1, SameIo
<1>3. IoType /\ CallType /\ Chunked /\ Ended /\ Requested BY DEF SessionInv
<1>4. ~ session.closed BY <1>1, <1>3 DEF CallType
<1>5. child.req = Submitted /\ Submitted # 0 /\ Silent
  <2>1. child.req = Submitted /\ Submitted # 0 /\ Taken = Len(answer[Submitted])
    BY <1>1, <1>3 DEF Requested
  <2> QED BY <1>4, <2>1, AllTaken
<1>6. IoType' BY <1>1, <1>3 DEF IoType
<1>7. Chunked' BY <1>1, <1>3 DEF Chunked
<1>8. Ended' BY <1>1, <1>2, <1>3 DEF Ended
<1>9. call'.pc \in {"idle", "produce"} /\ (call'.pc # "idle" => call'.req = Submitted)
  <2>1. CASE Raise BY <2>1, RaiseEffect DEF Idle
  <2>2. CASE ~ Raise
    <3>1. call'.pc = "produce" /\ call'.req = call.req BY <2>2, FinishEffect
    <3> QED BY <1>1, <1>3, <3>1 DEF Requested
  <2> QED BY <2>1, <2>2
<1>10. Requested' BY <1>1, <1>2, <1>5, <1>9 DEF Requested
<1>11. ~ session'.closed => InOrder' BY <1>2, <1>4 DEF SessionInv
<1> QED BY <1>1, <1>2, <1>6, <1>7, <1>8, <1>10, <1>11 DEF SessionInv

\* Closing touches nothing that is still on its way.
LEMMA CloseStep ==
    ASSUME SessionInv, CallType', Close \/ CloseInput \/ CloseWait
    PROVE  SessionInv' /\ Taken' = Taken /\ Submitted' = Submitted
<1> DEFINE Children == [state : {"waiting", "busy", "dead"}, req : Nat, rest : Seq(Record),
                        unread : Nat]
<1>0. IoType /\ CallType /\ Chunked /\ Ended /\ Requested /\ child \in Children
  BY DEF SessionInv, IoType
<1>1. /\ UNCHANGED <<stdout, reader, queue, writer, call, answer>> /\ Submitted' = Submitted
      /\ \/ session' = [session EXCEPT !.closed = TRUE]
         \/ session' = [session EXCEPT !.eof = TRUE]
         \/ session' = [session EXCEPT !.done = TRUE]
      /\ \/ child' = child /\ stdin' = stdin
         \/ child' = [child EXCEPT !.state = "dead"] /\ stdin' = <<>>
  BY DEF Close, CloseInput, CloseWait, io, Submitted
<1>2. session'.active = session.active /\ (session.closed => session'.closed)
  BY <1>0, <1>1 DEF CallType
<1>3. /\ child' \in Children /\ child'.req = child.req /\ child'.rest = child.rest
      /\ \/ child' = child /\ stdin' = stdin
         \/ child'.state = "dead" /\ stdin' = <<>>
  BY <1>0, <1>1
<1>4. Taken' = Taken /\ (InOrder' <=> InOrder) /\ (Silent' <=> Silent) /\ (HasEof' <=> HasEof)
  BY <1>1, <1>3, SameIo
<1>5. IoType'
  <2>1. stdin' \in Seq(Nat)
    <3>1. <<>> \in Seq(Nat) OBVIOUS
    <3> QED BY <1>0, <1>3, <3>1 DEF IoType
  <2> QED BY <1>0, <1>1, <1>3, <2>1 DEF IoType
<1>6. Chunked' BY <1>0, <1>1, <1>3 DEF Chunked
<1>7. Ended' BY <1>0, <1>1, <1>3, <1>4 DEF Ended
<1>8. Requested' BY <1>0, <1>1, <1>2, <1>3, <1>4 DEF Requested
<1> QED BY <1>1, <1>2, <1>4, <1>5, <1>6, <1>7, <1>8 DEF SessionInv

\* No step breaks the order of the records between ctags and the consumer.
LEMMA SessionStep ==
    ASSUME CacheInv, EventsInv, SessionInv, [Next]_vars
    PROVE  SessionInv'
<1>0. CallType' BY CacheStep DEF CacheInv
<1>1. CASE Threads \/ ChildDie
  <2>1. Moved BY <1>1, WriteStep, ChildStep, PrintStep, ReaderStep DEF Threads
  <2> QED BY <2>1 DEF Moved
<1>2. ASSUME NEW a \in Answers, NEW expected \in BOOLEAN, Submit(a, expected)
      PROVE  SessionInv'
  BY <1>0, <1>2, SubmitStep
<1>r. ASSUME Raise PROVE call'.pc = "idle" BY <1>r, RaiseEffect DEF Idle
<1>3. CASE Take
  <2>1. /\ call.pc = "read" /\ queue # <<>> /\ queue' = Tail(queue)
        /\ UNCHANGED <<stdin, child, stdout, reader, writer, session, answer>>
    BY <1>3 DEF Take
  <2>2. CASE Raise BY <1>0, <1>r, <2>1, <2>2, TakeDone
  <2>3. CASE ~ Raise
    <3>1. /\ call'.req = call.req /\ call'.pc \in {"finish", "produce", "read"}
          /\ call'.pc = "finish" => Head(queue).kind = "completed"
      BY <1>3, <2>3, TakeEffect
    <3> QED BY <1>0, <2>1, <3>1, TakeDone
  <2> QED BY <2>2, <2>3
<1>4. CASE Drain \/ FinishPoll
  <2>1. /\ call.pc # "idle" /\ queue # <<>> /\ queue' = Tail(queue)
        /\ UNCHANGED <<stdin, child, stdout, reader, writer, session, answer>>
    BY <1>4 DEF Drain, FinishPoll, Finishing
  <2>2. CASE Raise BY <1>0, <1>r, <2>1, <2>2, TakeDone
  <2>3. CASE Drain /\ ~ Raise
    <3>1. CASE Head(queue).kind = "completed"
      <4>1. call' = [call EXCEPT !.pc = "drainFinish"] BY <2>3, <3>1 DEF Drain
      <4>2. call'.req = call.req BY <4>1 DEF CacheInv, CallType, Call
      <4> QED BY <1>0, <2>1, <3>1, <4>2, TakeDone
    <3>2. CASE Head(queue).kind # "completed"
      <4>1. call' = call /\ call.pc = "drain" BY <2>3, <3>2 DEF Drain
      <4> QED BY <1>0, <2>1, <4>1, TakeDone
    <3> QED BY <3>1, <3>2
  <2>4. CASE FinishPoll /\ ~ Raise
    <3>1. call' = call /\ Head(queue).kind = "eof" BY <2>4 DEF FinishPoll, Eof
    <3> QED BY <1>0, <2>1, <3>1, TakeDone
  <2> QED BY <1>4, <2>2, <2>3, <2>4
<1>5. CASE Produce
  <2>1. UNCHANGED <<io, answer>> /\ session' = session BY <1>5 DEF Produce
  <2>2. call.pc = "produce" /\ call'.pc = "yielded" /\ call'.req = call.req
    BY <1>5, ProduceEffect
  <2> QED BY <1>0, <2>1, <2>2, CallDone
<1>6. CASE Resume
  <2>1. UNCHANGED <<io, answer>> /\ session' = session /\ call.pc = "yielded"
    BY <1>6 DEF Resume
  <2>2. call' = Idle \/ \E pc \in {"read", "produce"} : call' = [call EXCEPT !.pc = pc]
    BY <1>6 DEF Resume
  <2>3. call'.pc = "idle" \/ (call'.pc \in {"read", "produce"} /\ call'.req = call.req)
    BY <2>2 DEF Idle, CacheInv, CallType, Call
  <2> QED BY <1>0, <2>1, <2>3, CallDone
<1>7. CASE StoreFails \/ Orphaned \/ Abandon
  <2>1. UNCHANGED <<io, answer>> /\ session' = session /\ call.pc # "idle"
    BY <1>7 DEF StoreFails, Orphaned, Abandon
  <2>2. Raise \/ call' = [Idle EXCEPT !.pc = "drain", !.req = call.req]
    BY <1>7 DEF StoreFails, Orphaned, Abandon
  <2>3. call'.pc = "idle" \/ (call'.pc = "drain" /\ call'.req = call.req)
    BY <1>r, <2>2 DEF Idle
  <2> QED BY <1>0, <2>1, <2>3, CallDone
<1>8. CASE Finish BY <1>0, <1>8, FinishStep
<1>9. CASE Close \/ CloseInput \/ CloseWait BY <1>0, <1>9, CloseStep
<1>10. CASE UNCHANGED vars
  <2>1. UNCHANGED <<io, answer>> /\ session' = session /\ call' = call BY <1>10 DEF vars
  <2> QED BY <1>0, <2>1, CallDone
<1> QED BY <1>1, <1>2, <1>3, <1>4, <1>5, <1>6, <1>7, <1>8, <1>9, <1>10
       DEF Next, Consumer

LEMMA InitInv == Init => CacheInv /\ EventsInv /\ SessionInv
<1> SUFFICES ASSUME Init PROVE CacheInv /\ EventsInv /\ SessionInv OBVIOUS
<1>1. /\ stdin = <<>> /\ stdout = <<>> /\ queue = <<>>
      /\ child = [state |-> "waiting", req |-> 0, rest |-> <<>>, unread |-> 0]
      /\ reader = [state |-> "reading", line |-> Eof]
      /\ writer = [state |-> "done", req |-> 0, left |-> 0, error |-> FALSE]
      /\ session = [active |-> FALSE, closed |-> FALSE, eof |-> FALSE, done |-> FALSE]
      /\ call = Idle /\ answer = <<>> /\ cache = {} /\ rows = {} /\ pending = NoRows
  BY DEF Init
<1>2. /\ \A S : <<>> \in Seq(S)
      /\ DOMAIN <<>> = {} /\ Len(<<>>) = 0
  OBVIOUS
<1>3. Eof \in Line BY DEF Eof, Line
<1>4. IoType BY <1>1, <1>2, <1>3 DEF IoType
<1>5. CallType BY <1>1, <1>2, IdleCall DEF CallType, Idle
<1>6. CatalogType BY <1>1 DEF CatalogType, NoRows
<1>7. CacheCommitted BY <1>1 DEF CacheCommitted, Idle
<1>8. Dues BY <1>1, <1>2 DEF Dues, Idle, DueTags
<1>9. EndOfEvents BY <1>1 DEF EndOfEvents, Idle
<1>10. Submitted = 0 BY <1>1, <1>2 DEF Submitted
<1>11. ~ HasEof /\ Held = 0 BY <1>1 DEF HasEof, Held
<1>12. Silent BY <1>1, <1>2, <1>11 DEF Silent, Queued
<1>13. Chunked BY <1>1, <1>2, <1>10 DEF Chunked
<1>14. Ended BY <1>1, <1>11 DEF Ended
<1>15. Requested BY <1>1, <1>10, <1>12 DEF Requested, Idle
<1>16. InOrder BY <1>10, <1>12 DEF InOrder
<1> QED BY <1>4, <1>5, <1>6, <1>7, <1>8, <1>9, <1>13, <1>14, <1>15, <1>16
       DEF CacheInv, EventsInv, SessionInv

\* Between calls every catalogue row the session remembers is committed,
\* whichever transactions were rolled back before (analyze,
\* _clear_catalog_cache).
THEOREM CacheIsCommitted == Spec => []CacheCommitted
<1>1. Init => CacheInv BY InitInv
<1>2. CacheInv /\ [Next]_vars => CacheInv' BY CacheStep
<1>3. CacheInv => CacheCommitted BY DEF CacheInv
<1> QED BY <1>1, <1>2, <1>3, PTL DEF Spec

\* Where the records of an answer are says whose they are.
LEMMA AlignedHolds == CacheInv /\ SessionInv => Aligned
<1> SUFFICES ASSUME CacheInv, SessionInv PROVE Aligned OBVIOUS
<1>0. /\ IoType /\ CallType /\ Requested /\ queue \in Seq(Line) /\ stdout \in Seq(Line)
  BY DEF SessionInv, IoType
<1>q. \A r \in Range(queue) \ {Eof} : \E i \in 1 .. Queued : r = queue[i]
  <2> SUFFICES ASSUME NEW r \in Range(queue), r # Eof
               PROVE  \E i \in 1 .. Queued : r = queue[i]
    OBVIOUS
  <2>1. PICK i \in 1 .. Len(queue) : r = queue[i] BY <1>0 DEF Range
  <2>2. i # Len(queue) \/ ~ HasEof BY <2>1 DEF HasEof
  <2>3. i \in 1 .. Queued
    <3>1. CASE HasEof
      <4>1. Queued = Len(queue) - 1 /\ i # Len(queue) BY <2>2, <3>1 DEF Queued
      <4>2. Len(queue) \in Nat BY <1>0
      <4> QED BY <4>1, <4>2
    <3>2. CASE ~ HasEof BY <3>2 DEF Queued
    <3> QED BY <3>1, <3>2
  <2> QED BY <2>1, <2>3
<1>s. Silent => InTransit \subseteq {Eof}
  <2> SUFFICES ASSUME Silent, NEW r \in InTransit, r # Eof PROVE FALSE OBVIOUS
  <2>1. stdout = <<>> /\ Held = 0 /\ Queued = 0 BY DEF Silent
  <2>2. Range(stdout) = {} BY <2>1 DEF Range
  <2>3. reader.state # "holding" BY <2>1 DEF Held
  <2>4. r \in Range(queue) BY <2>2, <2>3 DEF InTransit
  <2> QED BY <1>q, <2>1, <2>4
<1>1. ASSUME call.pc \in {"read", "drain", "finish", "drainFinish"},
             NEW r \in InTransit \ {Eof}
      PROVE  r.req = call.req
  <2>1. call.req = Submitted /\ ~ session.closed BY <1>0, <1>1 DEF Requested, CallType
  <2>2. ~ Silent BY <1>1, <1>s
  <2>3. /\ \A i \in DOMAIN stdout : stdout[i].req = Submitted
        /\ Held = 1 => reader.line.req = Submitted
        /\ \A i \in 1 .. Queued : queue[i].req = Submitted
    <3>1. /\ \A i \in DOMAIN stdout :
                \E k : stdout[i] = [req |-> Submitted, kind |-> k]
          /\ Held = 1 => \E k : reader.line = [req |-> Submitted, kind |-> k]
          /\ \A i \in 1 .. Queued : \E k : queue[i] = [req |-> Submitted, kind |-> k]
      <4> DEFINE a == answer[Submitted]
      <4>1. /\ \A i \in DOMAIN stdout :
                  stdout[i] = [req |-> Submitted,
                               kind |-> a[(Len(a) - (Len(child.rest) + Len(stdout))) + i]]
            /\ Held = 1 => reader.line = [req |-> Submitted,
                                          kind |-> a[Len(a) - (Len(child.rest) + Len(stdout))]]
            /\ \A i \in 1 .. Queued : queue[i] = [req |-> Submitted, kind |-> a[Taken + i]]
        BY <2>1, <2>2, Views
      <4> HIDE DEF a
      <4> QED BY <4>1
    <3>2. \A k : [req |-> Submitted, kind |-> k].req = Submitted OBVIOUS
    <3> QED BY <3>1, <3>2
  <2>4. CASE r \in Range(queue) BY <1>1, <1>q, <2>1, <2>3, <2>4
  <2>5. CASE r \in Range(stdout) BY <2>1, <2>3, <2>5 DEF Range
  <2>6. CASE reader.state = "holding" /\ r = reader.line BY <2>1, <2>3, <2>6 DEF Held
  <2> QED BY <1>1, <2>4, <2>5, <2>6 DEF InTransit
<1>2. ASSUME ~ session.active
      PROVE  writer.state = "done" /\ child.rest = <<>> /\ InTransit \subseteq {Eof}
  <2>1. writer.state = "done" /\ Silent BY <1>0, <1>2 DEF Requested
  <2> QED BY <1>s, <2>1 DEF Silent
<1> QED BY <1>1, <1>2 DEF Aligned

\* Whatever ctags prints and whoever is slow, gives up or dies, the consumer
\* takes the records of its own request, and a session that would accept the
\* next one has nothing of an earlier one left anywhere (analyze,
\* _submit_request, _drain_request, _finish_request).
THEOREM SessionAligned == Spec => []Aligned
<1> DEFINE Inv == CacheInv /\ EventsInv /\ SessionInv
<1>1. Init => Inv BY InitInv
<1>2. Inv /\ [Next]_vars => Inv'
  <2>1. SessionInv => Requested BY DEF SessionInv
  <2> QED BY <2>1, CacheStep, EventsStep, SessionStep
<1>3. Inv => Aligned BY AlignedHolds
<1> QED BY <1>1, <1>2, <1>3, PTL DEF Spec

-----------------------------------------------------------------------------
(* What is stored *)

\* One more record is one more tag if it is a tag.
LEMMA TagsInNext ==
    ASSUME NEW a, NEW n \in Nat
    PROVE  /\ TagsIn(a, n) \in Nat /\ TagsIn(a, 0) = 0
           /\ TagsIn(a, n + 1) = TagsIn(a, n) + (IF a[n + 1] = "tag" THEN 1 ELSE 0)
<1> DEFINE T(m) == {i \in 1 .. m : a[i] = "tag"}
<1>1. IsFiniteSet(T(n))
  <2>1. IsFiniteSet(1 .. n) BY FS_Interval
  <2> QED BY <2>1, FS_Subset
<1>2. T(0) = {} OBVIOUS
<1>3. TagsIn(a, n) \in Nat BY <1>1, FS_CardinalityType DEF TagsIn
<1>4. TagsIn(a, 0) = 0 BY <1>2, FS_EmptySet DEF TagsIn
<1>5. CASE a[n + 1] = "tag"
  <2>1. T(n + 1) = T(n) \cup {n + 1} BY <1>5
  <2>2. n + 1 \notin T(n) OBVIOUS
  <2>3. Cardinality(T(n) \cup {n + 1}) = Cardinality(T(n)) + 1
    BY <1>1, <2>2, FS_AddElement
  <2> QED BY <1>3, <1>4, <1>5, <2>1, <2>3 DEF TagsIn
<1>6. CASE a[n + 1] # "tag"
  <2>1. T(n + 1) = T(n) BY <1>6
  <2>2. TagsIn(a, n + 1) = TagsIn(a, n) BY <2>1 DEF TagsIn
  <2> QED BY <1>3, <1>4, <1>6, <2>2
<1> QED BY <1>5, <1>6

\* A step that takes no record and neither makes nor stores an event.
LEMMA CountedKept ==
    ASSUME Counted, pending' = pending, Submitted' = Submitted, answer' = answer,
           call'.pc \in {"read", "produce", "yielded", "finish"} =>
              /\ call.pc \in {"read", "produce", "yielded", "finish"}
              /\ Taken' = Taken /\ DueTags' = DueTags
              /\ call'.emitted = call.emitted /\ call'.failed = call.failed
    PROVE  Counted'
BY DEF Counted

\* Taking a record counts it.
LEMMA CountedTake ==
    ASSUME CacheInv, EventsInv, SessionInv, Counted, Take, ~ Raise
    PROVE  Counted'
<1> DEFINE kind == Head(queue).kind
           due == IF Skips(kind) THEN <<>> ELSE EventsOf(kind)
           a == answer[Submitted]
<1>1. /\ kind # "eof" /\ (Skips(kind) \/ ~ Malformed(kind))
      /\ UNCHANGED catalog /\ call.pc = "read" /\ call'.due = due
      /\ call'.emitted = call.emitted
      /\ call'.failed <=> call.failed \/ kind = "error"
  BY TakeEffect
<1>2. /\ queue # <<>> /\ queue' = Tail(queue)
      /\ UNCHANGED <<stdin, child, stdout, reader, writer, session, answer>>
  BY DEF Take
<1>3. pending' = pending /\ Submitted' = Submitted BY <1>1, <1>2 DEF catalog, Submitted
<1>4. CallType /\ ~ session.closed BY <1>1 DEF CacheInv, CallType
<1>5. Taken \in Nat /\ Taken' = Taken + 1 /\ kind = a[Taken + 1]
  BY <1>1, <1>2, <1>4, QueueStep
<1>6. call.due = <<>> BY <1>1 DEF EventsInv, Dues
<1>7. /\ ~ call.emitted => pending.tags = 0
      /\ ~ call.failed => /\ TagsIn(a, Taken) = pending.tags + 0
                          /\ \A i \in 1 .. Taken : a[i] \notin {"error", "bad"}
  BY <1>1, <1>6 DEF Counted, DueTags
<1>8. ASSUME ~ call'.failed
      PROVE  /\ TagsIn(a, Taken + 1) = pending.tags + DueTags'
             /\ \A i \in 1 .. Taken + 1 : a[i] \notin {"error", "bad"}
  <2>1. ~ call.failed /\ kind # "error" BY <1>1, <1>8
  <2>2. ~ Skips(kind) BY <2>1 DEF Skips
  <2>3. due = EventsOf(kind) /\ kind # "bad" BY <1>1, <2>2 DEF Malformed
  <2>4. DueTags' = IF kind = "tag" THEN 1 ELSE 0
    <3>1. /\ EventsOf(kind) # <<>> => (Last(EventsOf(kind)) = "tag" <=> kind = "tag")
          /\ kind = "tag" => EventsOf(kind) # <<>>
      BY <1>4, EventShapes
    <3> QED BY <1>1, <2>3, <3>1 DEF DueTags
  <2>5. TagsIn(a, Taken + 1) = TagsIn(a, Taken) + (IF kind = "tag" THEN 1 ELSE 0)
    BY <1>5, TagsInNext
  <2>6. pending.tags \in Nat BY DEF CacheInv, CatalogType
  <2>7. TagsIn(a, Taken + 1) = pending.tags + DueTags'
    BY <1>7, <2>1, <2>4, <2>5, <2>6
  <2>8. \A i \in 1 .. Taken + 1 : i \in 1 .. Taken \/ i = Taken + 1 BY <1>5
  <2>9. \A i \in 1 .. Taken + 1 : a[i] \notin {"error", "bad"}
    BY <1>5, <1>7, <2>1, <2>3, <2>8
  <2> QED BY <2>7, <2>9
<1> QED BY <1>1, <1>2, <1>3, <1>5, <1>7, <1>8 DEF Counted

\* Storing a tag counts it.
LEMMA CountedProduce ==
    ASSUME CacheInv, EventsInv, SessionInv, CallType', Counted, Produce
    PROVE  Counted'
<1> DEFINE event == Head(call.due)
           d == Tail(call.due)
           n == [pending EXCEPT !.rows = pending.rows \cup Inserted(event)]
<1>1. /\ call.pc = "produce" /\ call.due # <<>> /\ event = call.due[1] /\ 1 \in DOMAIN call.due
      /\ call.due \in Seq(Event) /\ call'.pc = "yielded" /\ call'.due = d
      /\ call'.req = call.req /\ call'.failed = call.failed
      /\ call'.emitted <=> call.emitted \/ event = "profile"
      /\ session' = session
  BY ProduceEffect
<1>2. UNCHANGED <<io, answer>> /\ pending' = Consumed(event, n) BY DEF Produce
<1>3. Taken' = Taken /\ Submitted' = Submitted BY <1>1, <1>2, CallDone
<1>4. /\ pending.tags \in Nat /\ n.tags = pending.tags
      /\ n \in [rows : {n.rows}, tags : Nat, analysis : BOOLEAN]
  BY DEF CacheInv, CatalogType
<1> HIDE DEF n
<1>5. /\ event = "profile" => pending'.tags = 0
      /\ event = "tag" => pending'.tags = pending.tags + 1
      /\ event \notin {"profile", "tag"} => pending'.tags = pending.tags
  BY <1>2, <1>4 DEF Consumed
<1>6. /\ event = "tag" => DueTags = 1 /\ DueTags' = 0
      /\ event # "tag" => DueTags' = DueTags
  <2>1. /\ d # <<>> => Last(d) = Last(call.due)
        /\ d = <<>> => Last(call.due) = event
        /\ d = <<>> <=> Len(call.due) = 1
    BY <1>1, TailOf
  <2>2. event = "tag" => d = <<>>
    BY <1>1, <2>1 DEF EventsInv, Dues
  <2>3. DueTags = IF Last(call.due) = "tag" THEN 1 ELSE 0 BY <1>1 DEF DueTags
  <2>4. DueTags' = IF d # <<>> /\ Last(d) = "tag" THEN 1 ELSE 0 BY <1>1 DEF DueTags
  <2> HIDE DEF event, d
  <2> QED BY <2>1, <2>2, <2>3, <2>4
<1>7. /\ event = "profile" => ~ call.emitted
      /\ event = "tag" => call.emitted
  BY <1>1, <1>6 DEF EventsInv, Dues
<1>8. LET a == answer[Submitted] IN
      /\ ~ call.emitted => pending.tags = 0
      /\ ~ call.failed => /\ TagsIn(a, Taken) = pending.tags + DueTags
                          /\ \A i \in 1 .. Taken : a[i] \notin {"error", "bad"}
  BY <1>1 DEF Counted
<1>9. DueTags \in {0, 1} BY DEF DueTags
<1> HIDE DEF event
<1>10. ~ call'.emitted => pending'.tags = 0 BY <1>1, <1>5, <1>7, <1>8
<1>11. pending'.tags + DueTags' = pending.tags + DueTags
  BY <1>4, <1>5, <1>6, <1>7, <1>8, <1>9
<1> QED BY <1>1, <1>2, <1>3, <1>8, <1>10, <1>11 DEF Counted

\* Tags stored and records taken stay in step.
LEMMA CountedStep ==
    ASSUME CacheInv, EventsInv, SessionInv, Counted, [Next]_vars
    PROVE  Counted'
<1>0. CallType /\ Requested /\ CallType' BY CacheStep DEF CacheInv, SessionInv
<1>1. CASE Threads \/ ChildDie
  <2>1. Moved BY <1>1, WriteStep, ChildStep, PrintStep, ReaderStep DEF Threads
  <2>2. call' = call /\ answer' = answer /\ pending' = pending
    BY <1>1, ThreadsKeep
  <2>3. call.pc # "idle" => Taken' = Taken
    BY <1>0, <2>1 DEF Moved, CallType, Requested
  <2>4. DueTags' = DueTags /\ Submitted' = Submitted BY <2>2 DEF DueTags, Submitted
  <2> QED BY <2>2, <2>3, <2>4, CountedKept
<1>2. ASSUME NEW a \in Answers, NEW expected \in BOOLEAN, Submit(a, expected)
      PROVE  Counted'
  <2>1. Taken' = 0 BY <1>0, <1>2, SubmitStep
  <2>2. /\ call' = [Idle EXCEPT !.pc = "read", !.req = Submitted + 1, !.expected = expected]
        /\ call.pc = "idle" /\ UNCHANGED catalog
    BY <1>2 DEF Submit
  <2>3. call'.due = <<>> BY <2>2 DEF Idle
  <2>4. DueTags' = 0 BY <2>3 DEF DueTags
  <2>5. pending' = pending /\ pending.tags = 0
    BY <2>2 DEF catalog, CacheInv, CacheCommitted, NoRows
  <2>6. TagsIn(answer'[Submitted'], 0) = 0 BY TagsInNext
  <2> QED BY <2>1, <2>4, <2>5, <2>6 DEF Counted
<1>r. CASE call'.pc \in {"idle", "drain", "drainFinish"} BY <1>r DEF Counted
<1>3. CASE Raise BY <1>3, <1>r, RaiseEffect DEF Idle
<1>4. CASE Take /\ ~ Raise BY <1>4, CountedTake
<1>5. CASE Produce BY <1>0, <1>5, CountedProduce
<1>6. CASE Resume
  <2>1. CASE call.last = "completed"
    <3>1. call' = Idle BY <1>6, <2>1 DEF Resume
    <3> QED BY <1>r, <3>1 DEF Idle
  <2>2. CASE call.last # "completed"
    <3>1. PICK pc \in {"read", "produce"} : call' = [call EXCEPT !.pc = pc]
      BY <1>6, <2>2 DEF Resume
    <3>2. UNCHANGED <<io, answer>> /\ session' = session /\ UNCHANGED catalog
          /\ call.pc = "yielded"
      BY <1>6, <2>2 DEF Resume
    <3>3. /\ call'.pc = pc /\ call'.due = call.due /\ call'.req = call.req
          /\ call'.emitted = call.emitted /\ call'.failed = call.failed
      BY <1>0, <3>1 DEF CallType, Call
    <3>4. Taken' = Taken /\ Submitted' = Submitted BY <1>0, <3>2, <3>3, CallDone
    <3>5. DueTags' = DueTags BY <3>3 DEF DueTags
    <3> QED BY <3>2, <3>3, <3>4, <3>5, CountedKept DEF catalog
  <2> QED BY <2>1, <2>2
<1>7. CASE Abandon /\ ~ Raise
  <2>1. call' = [Idle EXCEPT !.pc = "drain", !.req = call.req] BY <1>7 DEF Abandon
  <2> QED BY <1>r, <2>1 DEF Idle
<1>8. CASE Drain /\ ~ Raise
  <2>1. call.pc = "drain" /\ (call' = call \/ call' = [call EXCEPT !.pc = "drainFinish"])
    <3>1. /\ call.pc = "drain"
          /\ CASE Head(queue).kind = "completed" ->
                    call' = [call EXCEPT !.pc = "drainFinish"]
               [] Head(queue).kind = "eof" -> Raise
               [] OTHER -> call' = call
      BY <1>8 DEF Drain
    <3> QED BY <1>8, <3>1
  <2>2. call'.pc \in {"drain", "drainFinish"} BY <1>0, <2>1 DEF CallType, Call
  <2> QED BY <1>r, <2>2
<1>9. CASE FinishPoll /\ ~ Raise
  <2>1. /\ call' = call /\ UNCHANGED catalog /\ queue # <<>> /\ queue' = Tail(queue)
        /\ Head(queue) = Eof /\ call.pc # "idle"
        /\ UNCHANGED <<stdin, child, stdout, reader, writer, session, answer>>
    BY <1>9 DEF FinishPoll, Finishing
  <2>2. Head(queue).kind = "eof" /\ ~ session.closed BY <1>0, <2>1 DEF Eof, CallType
  <2>3. Taken' = Taken BY <2>1, <2>2, QueueStep
  <2>4. DueTags' = DueTags /\ Submitted' = Submitted BY <2>1 DEF DueTags, Submitted
  <2> QED BY <2>1, <2>3, <2>4, CountedKept DEF catalog
<1>10. CASE Finish /\ ~ Raise
  <2>1. /\ UNCHANGED catalog /\ call.pc = "finish" /\ call'.due = TailEvents
        /\ call'.emitted = call.emitted /\ call'.failed = call.failed
    BY <1>10, FinishEffect
  <2>2. Taken' = Taken /\ Submitted' = Submitted BY <1>0, <1>10, FinishStep
  <2>3. answer' = answer BY <1>10 DEF Finish
  <2>4. DueTags' = 0
    <3>1. Last(TailEvents) # "tag" BY <1>0, TailShape
    <3> QED BY <2>1, <3>1 DEF DueTags
  <2>5. DueTags = 0 BY <2>1 DEF EventsInv, Dues, DueTags
  <2> QED BY <2>1, <2>2, <2>3, <2>4, <2>5, CountedKept DEF catalog
<1>11. CASE Close \/ CloseInput \/ CloseWait
  <2>1. CASE Close \/ CloseInput
    <3>1. call' = call /\ (call.pc = "idle" \/ session.closed)
      BY <2>1 DEF Close, CloseInput
    <3> QED BY <1>0, <1>r, <3>1 DEF CallType
  <2>2. CASE CloseWait
    <3>1. call' = call /\ UNCHANGED <<stdout, reader, queue, answer>> /\ UNCHANGED catalog
          /\ child' = [child EXCEPT !.state = "dead"]
      BY <2>2 DEF CloseWait
    <3>2. child'.req = child.req /\ child'.rest = child.rest
      BY <3>1 DEF SessionInv, IoType
    <3>3. Taken' = Taken BY <3>1, <3>2, SameIo
    <3>4. DueTags' = DueTags /\ Submitted' = Submitted BY <3>1 DEF DueTags, Submitted
    <3> QED BY <3>1, <3>3, <3>4, CountedKept DEF catalog
  <2> QED BY <1>11, <2>1, <2>2
<1>12. CASE UNCHANGED vars
  <2>1. UNCHANGED <<io, answer>> /\ session' = session /\ call' = call /\ pending' = pending
    BY <1>12 DEF vars, catalog
  <2>2. Taken' = Taken /\ Submitted' = Submitted BY <1>0, <2>1, CallDone
  <2>3. DueTags' = DueTags BY <2>1 DEF DueTags
  <2> QED BY <2>1, <2>2, <2>3, CountedKept
<1> QED BY <1>1, <1>2, <1>3, <1>4, <1>5, <1>6, <1>7, <1>8, <1>9, <1>10, <1>11, <1>12
       DEF Next, Consumer, StoreFails, Orphaned

\* Only the end of the events stores an analysis, which has then the tags of
\* the whole answer.
LEMMA StoredStep ==
    ASSUME StoredInv, [Next]_vars
    PROVE  DOMAIN analyses' \subseteq 1 .. Submitted' /\ StoredIsWhole'
<1>0. /\ CacheInv /\ EventsInv /\ SessionInv /\ Counted /\ CallType /\ Requested
      /\ DOMAIN analyses \subseteq 1 .. Submitted /\ StoredIsWhole
  BY DEF StoredInv, SessionInv
<1>1. CASE analyses' = analyses /\ answer' = answer
  <2>1. Submitted' = Submitted BY <1>1 DEF Submitted
  <2> QED BY <1>0, <1>1, <2>1 DEF StoredIsWhole
<1>2. ASSUME NEW a \in Answers, NEW expected \in BOOLEAN, Submit(a, expected)
      PROVE  DOMAIN analyses' \subseteq 1 .. Submitted' /\ StoredIsWhole'
  <2>1. /\ Submitted' = Submitted + 1 /\ Submitted \in Nat
        /\ \A r \in 1 .. Submitted : answer'[r] = answer[r]
    <3>1. CallType' BY <1>0, CacheStep DEF CacheInv
    <3> QED BY <1>0, <1>2, <3>1, SubmitStep
  <2>2. analyses' = analyses BY <1>2 DEF Submit, catalog
  <2>3. \A r \in DOMAIN analyses : answer'[r] = answer[r] BY <1>0, <2>1
  <2>4. StoredIsWhole' BY <1>0, <2>2, <2>3 DEF StoredIsWhole
  <2>5. 1 .. Submitted \subseteq 1 .. Submitted' BY <2>1
  <2> QED BY <1>0, <2>2, <2>4, <2>5
<1>3. CASE Resume /\ call.last = "completed"
  <2> DEFINE a == answer[Submitted]
  <2>1. /\ answer' = answer /\ Submitted' = Submitted /\ call.pc = "yielded"
        /\ analyses' = IF pending.analysis
                       THEN [r \in DOMAIN analyses \cup {call.req} |->
                               IF r = call.req THEN pending.tags ELSE analyses[r]]
                       ELSE analyses
    BY <1>3 DEF Resume, Submitted
  <2>2. call.req = Submitted /\ Submitted # 0 /\ ~ session.closed
    BY <1>0, <2>1 DEF Requested, CallType
  <2>3. ~ session.active /\ ~ call.failed /\ DueTags = 0
    BY <1>0, <1>3, <2>1 DEF EventsInv, EndOfEvents, DueTags
  <2>4. Taken = Len(a)
    <3>1. child.req = Submitted /\ Silent BY <1>0, <2>3 DEF Requested
    <3> QED BY <1>0, <2>2, <3>1, AllTaken
  <2>5. TagsIn(a, Len(a)) = pending.tags /\ \A i \in 1 .. Len(a) : a[i] \notin {"error", "bad"}
    <3>1. pending.tags \in Nat BY <1>0 DEF CacheInv, CatalogType
    <3> QED BY <1>0, <2>1, <2>3, <2>4, <3>1 DEF Counted
  <2>6. DOMAIN a = 1 .. Len(a) /\ Submitted \in 1 .. Submitted
    <3>1. IoType BY <1>0 DEF SessionInv
    <3>2. a \in Seq(Record) /\ Submitted \in Nat BY <1>0, <2>2, <3>1, Bounds
    <3>3. DOMAIN a = 1 .. Len(a) BY <3>2
    <3>4. \A n \in Nat : n # 0 => n \in 1 .. n OBVIOUS
    <3> QED BY <2>2, <3>2, <3>3, <3>4
  <2>7. /\ pending.tags = Cardinality({i \in DOMAIN a : a[i] = "tag"})
        /\ Range(a) \cap {"error", "bad"} = {}
    BY <2>5, <2>6 DEF TagsIn, Range
  <2>8. CASE pending.analysis
    <3>1. /\ DOMAIN analyses' = DOMAIN analyses \cup {Submitted}
          /\ analyses'[Submitted] = pending.tags
          /\ \A r \in DOMAIN analyses : r # Submitted => analyses'[r] = analyses[r]
      BY <2>1, <2>2, <2>8
    <3>2. DOMAIN analyses' \subseteq 1 .. Submitted BY <1>0, <2>6, <3>1
    <3>3. ASSUME NEW r \in DOMAIN analyses'
          PROVE  /\ analyses'[r] = Cardinality({i \in DOMAIN answer[r] : answer[r][i] = "tag"})
                 /\ Range(answer[r]) \cap {"error", "bad"} = {}
      <4>1. CASE r = Submitted BY <2>7, <3>1, <4>1
      <4>2. CASE r # Submitted
        <5>1. r \in DOMAIN analyses /\ analyses'[r] = analyses[r] BY <3>1, <3>3, <4>2
        <5> QED BY <1>0, <5>1 DEF StoredIsWhole
      <4> QED BY <4>1, <4>2
    <3> QED BY <2>1, <3>2, <3>3 DEF StoredIsWhole
  <2>9. CASE ~ pending.analysis BY <1>1, <2>1, <2>9
  <2> QED BY <2>8, <2>9
<1>4. CASE Threads \/ ChildDie BY <1>1, <1>4, ThreadsKeep
<1>5. CASE Raise /\ answer' = answer BY <1>1, <1>5, RaiseEffect
<1>6. CASE UNCHANGED catalog /\ answer' = answer BY <1>1, <1>6 DEF catalog
<1>7. CASE Produce \/ Abandon \/ Drain \/ FinishPoll
  <2>1. answer' = answer /\ (Raise \/ analyses' = analyses)
    <3>1. CASE Drain
      <4>1. /\ answer' = answer
            /\ CASE Head(queue).kind = "completed" -> UNCHANGED catalog
                 [] Head(queue).kind = "eof" -> Raise
                 [] OTHER -> UNCHANGED catalog
        BY <3>1 DEF Drain
      <4> QED BY <4>1 DEF catalog
    <3>2. CASE Produce \/ Abandon \/ FinishPoll
      BY <3>2 DEF Produce, Abandon, FinishPoll, catalog
    <3> QED BY <1>7, <3>1, <3>2
  <2> QED BY <1>1, <1>5, <2>1
<1>8. CASE Take \/ Finish
  <2>1. answer' = answer BY <1>8 DEF Take, Finish
  <2>2. Raise \/ UNCHANGED catalog BY <1>0, <1>8, TakeEffect, FinishEffect
  <2> QED BY <1>5, <1>6, <2>1, <2>2
<1>9. CASE Resume /\ call.last # "completed" BY <1>6, <1>9 DEF Resume
<1>10. CASE StoreFails \/ Orphaned BY <1>5, <1>10 DEF StoreFails, Orphaned
<1>11. CASE Close \/ CloseInput \/ CloseWait BY <1>6, <1>11 DEF Close, CloseInput, CloseWait
<1>12. CASE UNCHANGED vars BY <1>6, <1>12 DEF vars
<1> QED BY <1>0, <1>2, <1>3, <1>4, <1>7, <1>8, <1>9, <1>10, <1>11, <1>12
       DEF Next, Consumer

\* What a committed analysis holds is exactly what ctags answered to the
\* request for that blob, whichever calls before it failed, were given up or
\* were drained (store_blob_analysis, _analyze).
THEOREM StoredWhole == Spec => []StoredIsWhole
<1>1. Init => StoredInv
  <2> SUFFICES ASSUME Init PROVE StoredInv OBVIOUS
  <2>1. analyses = <<>> /\ call.pc = "idle" BY DEF Init, Idle
  <2>2. DOMAIN <<>> = {} OBVIOUS
  <2>3. Counted BY <2>1 DEF Counted
  <2>4. StoredIsWhole BY <2>1, <2>2 DEF StoredIsWhole
  <2> QED BY <2>1, <2>2, <2>3, <2>4, InitInv DEF StoredInv
<1>2. StoredInv /\ [Next]_vars => StoredInv'
  <2> SUFFICES ASSUME StoredInv, [Next]_vars PROVE StoredInv' OBVIOUS
  <2>1. CacheInv /\ EventsInv /\ SessionInv /\ Counted /\ Requested BY DEF StoredInv, SessionInv
  <2> QED BY <2>1, CacheStep, EventsStep, SessionStep, CountedStep, StoredStep DEF StoredInv
<1>3. StoredInv => StoredIsWhole BY DEF StoredInv
<1> QED BY <1>1, <1>2, <1>3, PTL DEF Spec
=============================================================================
