------------------------------ MODULE TraceLog ------------------------------
(***************************************************************************)
(* The trace of one run: internal/trace/store.go and its readers.          *)
(*                                                                         *)
(* Append takes two database calls that no transaction joins: the next     *)
(* sequence number is read as MAX(sequence) + 1 and the row is inserted    *)
(* under the unique index on (run_id, sequence).  Of two appenders that    *)
(* read the same maximum one loses: its insert fails and its event is      *)
(* gone, since no caller retries.                                          *)
(*                                                                         *)
(* The console follows the trace over connections (the event stream of a   *)
(* session and the poll of a run) that run side by side, each with a       *)
(* cursor of its own, and merges what they deliver by event id.  It opens  *)
(* connections only while it takes the run for a running one: what is      *)
(* appended when the run is over, or has failed, it need not learn.        *)
(* Runs are independent of each other: the table is keyed by run_id.       *)
(***************************************************************************)
EXTENDS EventStream

CONSTANT
  Streams      (* connections the console may hold open at a time          *)

VARIABLES
  number,      (* number[w]: the sequence number w has read, 0 if none     *)
  lost,        (* appenders whose last append failed                       *)
  open,        (* the connections that are open                            *)
  cursor,      (* cursor[s]: afterSequence of the handler serving s        *)
  wire,        (* wire[s]: events sent over s, not yet received            *)
  run,         (* over: the session is closed, or the trace says it failed *)
  runStatus    (* of the console: over is "completed" or "failed"          *)

storeVars  == << rows, number, lost >>
runVars    == << run, runStatus >>
readerVars == << seen, open, cursor, wire, run, runStatus >>
vars       == << rows, number, lost, seen, open, cursor, wire, run, runStatus >>

(* m is the largest sequence number of the events S, 0 if there are none:  *)
(* COALESCE(MAX(sequence), 0), and the reduce over runEvents.              *)
IsLast(m, S) ==
  /\ \A r \in S : r.seq <= m
  /\ m = 0 \/ \E r \in S : r.seq = m

-----------------------------------------------------------------------------
Init ==
  /\ StreamInit
  /\ number = [w \in Writers |-> 0]
  /\ lost = {}
  /\ open = {}
  /\ cursor = [s \in Streams |-> 0]
  /\ wire = [s \in Streams |-> {}]
  /\ run = "running"
  /\ runStatus = "running"

(* Mutants of NextSequence: without COALESCE the first event of a run has  *)
(* no number; a number is left out.                                        *)
NextSequenceOfNull(w) ==
  /\ number[w] = 0
  /\ \E m \in 1 .. (MaxEvents - 1) :
       /\ IsLast(m, rows)
       /\ number' = [number EXCEPT ![w] = m + 1]
  /\ UNCHANGED << rows, lost, readerVars >>

NextSequenceWithGap(w) ==
  /\ number[w] = 0
  /\ \E m \in 0 .. (MaxEvents - 2) :
       /\ IsLast(m, rows)
       /\ number' = [number EXCEPT ![w] = m + 2]
  /\ UNCHANGED << rows, lost, readerVars >>

(* Append, first call: nextSequence. *)
NextSequence(w) ==
  /\ number[w] = 0
  /\ \E m \in 0 .. (MaxEvents - 1) :
       /\ IsLast(m, rows)
       /\ number' = [number EXCEPT ![w] = m + 1]
  /\ UNCHANGED << rows, lost, readerVars >>

(* The unique index idx_trace_run_sequence. *)
Taken(n) == \E r \in rows : r.seq = n

(* Mutant of Insert: no unique index. *)
InsertUnchecked(w) ==
  /\ number[w] # 0
  /\ rows' = rows \union {[seq |-> number[w], by |-> w]}
  /\ number' = [number EXCEPT ![w] = 0]
  /\ lost' = lost \ {w}
  /\ UNCHANGED readerVars

(* Append, second call: the INSERT. *)
Insert(w) ==
  /\ number[w] # 0
  /\ ~ Taken(number[w])
  /\ rows' = rows \union {[seq |-> number[w], by |-> w]}
  /\ number' = [number EXCEPT ![w] = 0]
  /\ lost' = lost \ {w}
  /\ UNCHANGED readerVars

(* The INSERT is refused by the index: Append returns an error. *)
InsertFails(w) ==
  /\ number[w] # 0
  /\ Taken(number[w])
  /\ number' = [number EXCEPT ![w] = 0]
  /\ lost' = lost \union {w}
  /\ UNCHANGED << rows, readerVars >>

-----------------------------------------------------------------------------
(* The run is over: completeRunLedger or CancelSession has closed its      *)
(* session, or run.failed is on its way.  Appenders go on.                 *)
End ==
  /\ run = "running"
  /\ run' = "over"
  /\ UNCHANGED << storeVars, seen, open, cursor, wire, runStatus >>

(* The console hears of it: from a terminal event, the detail of the       *)
(* session, or the answer to its own cancel.  The hook takes down its      *)
(* timer; a connection that is open may still deliver what is under way    *)
(* before it closes (Disconnect).                                          *)
Leave ==
  /\ run = "over" /\ runStatus = "running"
  /\ runStatus' = "over"
  /\ UNCHANGED << storeVars, seen, open, cursor, wire, run >>

(* A detail that was read before the session was closed comes late, or the *)
(* operator resumes: setRunStatus("running").                              *)
Return ==
  /\ runStatus = "over"
  /\ runStatus' = "running"
  /\ UNCHANGED << storeVars, seen, open, cursor, wire, run >>

(* The console asks for the events after the last one it has. *)
Connect(s) ==
  /\ runStatus = "running"
  /\ s \notin open
  /\ open' = open \union {s}
  /\ \E m \in 0 .. MaxEvents :
       /\ IsLast(m, seen)
       /\ cursor' = [cursor EXCEPT ![s] = m]
  /\ wire' = [wire EXCEPT ![s] = {}]
  /\ UNCHANGED << storeVars, seen, runVars >>


(* ListByRunAfter. *)
ListByRunAfter(n) == {r \in rows : r.seq > n}

(* Mutant of Serve: the cursor is left behind the last event sent. *)
ServePast(s) ==
  /\ s \in open
  /\ ListByRunAfter(cursor[s]) # {}
  /\ wire' = [wire EXCEPT ![s] = @ \union ListByRunAfter(cursor[s])]
  /\ \E m \in 0 .. MaxEvents :
       /\ IsLast(m, ListByRunAfter(cursor[s]))
       /\ cursor' = [cursor EXCEPT ![s] = m + 1]
  /\ UNCHANGED << storeVars, seen, open, runVars >>

(* One turn of the loop of sessionEventsHandler, or runEventsHandler. *)
Serve(s) ==
  /\ s \in open
  /\ ListByRunAfter(cursor[s]) # {}
  /\ wire' = [wire EXCEPT ![s] = @ \union ListByRunAfter(cursor[s])]
  /\ \E m \in 0 .. MaxEvents :
       /\ IsLast(m, ListByRunAfter(cursor[s]))
       /\ cursor' = [cursor EXCEPT ![s] = m]
  /\ UNCHANGED << storeVars, seen, open, runVars >>

(* Mutant of Receive: no ORDER BY sequence. *)
ReceiveUnordered(s) ==
  /\ s \in open
  /\ \E e \in wire[s] :
       /\ seen' = seen \union {e}
       /\ wire' = [wire EXCEPT ![s] = @ \ {e}]
  /\ UNCHANGED << storeVars, open, cursor, runVars >>

(* The console receives the next event of a connection: mergeEvents. *)
Receive(s) ==
  /\ s \in open
  /\ \E e \in wire[s] :
       /\ \A f \in wire[s] : e.seq <= f.seq
       /\ seen' = seen \union {e}
       /\ wire' = [wire EXCEPT ![s] = @ \ {e}]
  /\ UNCHANGED << storeVars, open, cursor, runVars >>

(* The 30 s deadline, the end of a poll, a cut connection, a reload of the *)
(* list of events: what was not received is dropped.                       *)
Disconnect(s) ==
  /\ s \in open
  /\ open' = open \ {s}
  /\ wire' = [wire EXCEPT ![s] = {}]
  /\ UNCHANGED << storeVars, seen, cursor, runVars >>

Append(w) == NextSequence(w) \/ Insert(w) \/ InsertFails(w)

Next ==
  \/ \E w \in Writers : Append(w)
  \/ \E s \in Streams : Connect(s) \/ Serve(s) \/ Receive(s) \/ Disconnect(s)
  \/ End \/ Leave \/ Return

Spec == Init /\ [][Next]_vars

(* An appender finishes its append; as long as the run goes on the console *)
(* reconnects (its timer asks every 1.2 or 2.5 seconds); a connection that *)
(* keeps being served and keeps carrying events is not always cut just     *)
(* before the next event arrives.  A run need not end, and the console     *)
(* need not hear of it.                                                    *)
Fairness ==
  /\ \A w \in Writers : WF_vars(Append(w))
  /\ \A s \in Streams :
       WF_vars(Connect(s)) /\ SF_vars(Serve(s)) /\ SF_vars(Receive(s))

FairSpec == Spec /\ Fairness

-----------------------------------------------------------------------------
TypeOK ==
  /\ rows \subseteq Event
  /\ seen \subseteq Event
  /\ number \in [Writers -> 0 .. MaxEvents]
  /\ lost \subseteq Writers
  /\ open \subseteq Streams
  /\ cursor \in [Streams -> 0 .. MaxEvents]
  /\ wire \in [Streams -> SUBSET Event]
  /\ {run, runStatus} \subseteq {"running", "over"}

(* The sequence numbers of a run have no gap and no duplicate, whatever    *)
(* appenders race each other (trace/store.go, nextSequence and the index). *)
Dense ==
  /\ \A r \in rows : \A k \in 1 .. r.seq : \E q \in rows : q.seq = k
  /\ \A q, r \in rows : q.seq = r.seq => q = r

(* The console has no hole in what it shows: once it has an event it has   *)
(* every earlier one, and no event stored later can slip in behind it, so  *)
(* "after_sequence = last received" never loses an event.                  *)
NoSkip == \A e \in seen, r \in rows : r.seq <= e.seq => r \in seen

(* The steps above implement the abstract stream of events. *)
ImplementsStream == StreamSpec

(* Appenders may fail each other, but not all of them for ever: the trace  *)
(* keeps growing as long as somebody appends.                              *)
Grows == <> (\E r \in rows : r.seq = MaxEvents)


(* docs/design/system-composition.md says that a storage failure never     *)
(* silently drops trace data.  No caller of Append retries and most of the *)
(* broker's discard the error, so an event that loses the race is dropped. *)
(* Refuted, see the README.                                                *)
NothingLost == lost = {}
=============================================================================
