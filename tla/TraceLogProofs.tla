--------------------------- MODULE TraceLogProofs ---------------------------
(***************************************************************************)
(* Proofs about TraceLog, for any set of appenders and connections and any *)
(* length of the trace.  NoSkip is not inductive as it stands.  A new row  *)
(* must not land behind an event the console already has, which holds      *)
(* because the numbers in use have no gap (Dense) and because a number an  *)
(* appender carries has none below it either (Claims): if it is still free *)
(* it is larger than every number in use.  And what a connection has left  *)
(* behind its cursor must be received or on the wire (Covered).            *)
(***************************************************************************)
EXTENDS TraceLog, TLAPS

(* Everything below the number an appender carries is stored. *)
Claims ==
  \A w \in Writers : \A k \in 1 .. (number[w] - 1) : Taken(k)

(* The console and the wire hold stored events only. *)
Genuine == seen \subseteq rows /\ \A s \in Streams : wire[s] \subseteq rows

(* A connection's cursor is the number of a stored event, nothing beyond   *)
(* it was sent, and every event up to it was received or is on the wire.   *)
Covered ==
  \A s \in open :
    /\ cursor[s] # 0 => Taken(cursor[s])
    /\ \A e \in wire[s] : e.seq <= cursor[s]
    /\ \A r \in rows : r.seq <= cursor[s] => r \in seen \/ r \in wire[s]

IInv == TypeOK /\ Dense /\ Claims /\ Genuine /\ Covered /\ NoSkip

-----------------------------------------------------------------------------
(* A sequence number that was read and is still free comes after every     *)
(* number in use, so the insert extends the trace at its end.              *)
LEMMA FreeNumberIsLast ==
  ASSUME TypeOK, Dense, NEW n \in Nat \ {0}, ~ Taken(n)
  PROVE  \A r \in rows : r.seq < n
<1> SUFFICES ASSUME NEW r \in rows, ~(r.seq < n) PROVE FALSE
  OBVIOUS
<1>1. r.seq \in Nat
  BY MaxEventsIsNat DEF TypeOK, Event
<1>2. n \in 1 .. r.seq
  BY <1>1
<1> QED
  BY <1>2 DEF Dense, Taken

LEMMA InitIInv == Init => IInv
<1> SUFFICES ASSUME Init PROVE IInv
  OBVIOUS
<1>1. TypeOK
  BY MaxEventsIsNat DEF Init, StreamInit, TypeOK
<1>2. Dense /\ Claims /\ Genuine /\ Covered /\ NoSkip
  BY MaxEventsIsNat DEF Init, StreamInit, Dense, Claims, Genuine, Covered, NoSkip
<1> QED
  BY <1>1, <1>2 DEF IInv

LEMMA NextSequenceInv ==
  ASSUME IInv, NEW w \in Writers, NextSequence(w)
  PROVE  IInv'
<1> USE MaxEventsIsNat DEF NextSequence, readerVars, IInv
<1>1. PICK m \in 0 .. (MaxEvents - 1) :
        IsLast(m, rows) /\ number' = [number EXCEPT ![w] = m + 1]
  OBVIOUS
<1>2. TypeOK'
  BY <1>1 DEF TypeOK
<1>3. \A k \in 1 .. m : Taken(k)
  <2>1. CASE m = 0
    BY <2>1
  <2>2. CASE m # 0
    BY <1>1, <2>2 DEF IsLast, Dense, Taken
  <2> QED
    BY <2>1, <2>2
<1>4. Claims'
  <2> SUFFICES ASSUME NEW v \in Writers, NEW k \in 1 .. (number'[v] - 1)
               PROVE  Taken(k)'
    BY DEF Claims
  <2>1. CASE v = w
    BY <1>1, <1>3, <2>1 DEF TypeOK, Taken
  <2>2. CASE v # w
    BY <1>1, <2>2 DEF TypeOK, Taken, Claims
  <2> QED
    BY <2>1, <2>2
<1>5. Dense' /\ Genuine' /\ Covered' /\ NoSkip'
  BY DEF Dense, Genuine, Covered, NoSkip, Taken
<1> QED
  BY <1>2, <1>4, <1>5

LEMMA InsertInv ==
  ASSUME IInv, NEW w \in Writers, Insert(w)
  PROVE  IInv'
<1> DEFINE n == number[w]
           e == [seq |-> n, by |-> w]
<1> USE MaxEventsIsNat DEF IInv, readerVars
<1>1. /\ n \in 1 .. MaxEvents
      /\ ~ Taken(n)
      /\ rows' = rows \union {e}
      /\ number' = [number EXCEPT ![w] = 0]
      /\ lost' = lost \ {w}
      /\ UNCHANGED << seen, open, cursor, wire, run, runStatus >>
  BY DEF Insert, TypeOK
<1>2. e \in Event /\ e.seq = n
  BY <1>1 DEF Event
<1>3. TypeOK'
  BY <1>1, <1>2 DEF TypeOK
<1>4. \A r \in rows : r.seq < n /\ r.seq \in Nat
  BY <1>1, FreeNumberIsLast DEF TypeOK, Event
<1>5. \A k \in Nat : Taken(k) => Taken(k)'
  BY <1>1 DEF Taken
<1>6. \A k \in 1 .. n : Taken(k)'
  BY <1>1, <1>2, <1>5 DEF Claims, Taken
<1>7. Dense'
  <2>1. ASSUME NEW r \in rows', NEW k \in 1 .. r.seq
        PROVE  \E q \in rows' : q.seq = k
    BY <1>1, <1>2, <1>6, <2>1 DEF Dense, Taken
  <2>2. ASSUME NEW q \in rows', NEW r \in rows', q.seq = r.seq
        PROVE  q = r
    BY <1>1, <1>2, <1>4, <2>2 DEF Dense
  <2> QED
    BY <2>1, <2>2 DEF Dense
<1>8. Claims'
  <2> SUFFICES ASSUME NEW v \in Writers, NEW k \in 1 .. (number'[v] - 1)
               PROVE  Taken(k)'
    BY DEF Claims
  <2>1. number'[v] = IF v = w THEN 0 ELSE number[v]
    BY <1>1 DEF TypeOK
  <2>2. v # w /\ k \in 1 .. (number[v] - 1)
    BY <2>1
  <2> QED
    BY <2>2, <1>5 DEF Claims
<1>9. Genuine'
  BY <1>1 DEF Genuine
<1>10. Covered'
  <2> SUFFICES ASSUME NEW s \in open
               PROVE  /\ cursor[s] # 0 => \E q \in rows' : q.seq = cursor[s]
                      /\ \A f \in wire[s] : f.seq <= cursor[s]
                      /\ \A r \in rows' : r.seq <= cursor[s] =>
                                            r \in seen \/ r \in wire[s]
    BY <1>1 DEF Covered, Taken
  <2>1. cursor[s] \in Nat /\ (cursor[s] # 0 => Taken(cursor[s]))
    BY DEF Covered, TypeOK
  <2>2. cursor[s] < n
    BY <2>1, <1>1, <1>4 DEF Taken
  <2>3. \A r \in rows' : r.seq <= cursor[s] => r \in rows
    BY <1>1, <1>2, <2>1, <2>2
  <2> QED
    BY <2>1, <2>3, <1>1 DEF Covered, Taken
<1>11. NoSkip'
  <2> SUFFICES ASSUME NEW f \in seen, NEW r \in rows', r.seq <= f.seq
               PROVE  r \in seen
    BY <1>1 DEF NoSkip
  <2>1. f.seq < n /\ f.seq \in Nat
    BY <1>4 DEF Genuine
  <2>2. r \in rows
    BY <1>1, <1>2, <2>1
  <2> QED
    BY <2>2 DEF NoSkip
<1> QED
  BY <1>3, <1>7, <1>8, <1>9, <1>10, <1>11

LEMMA InsertFailsInv ==
  ASSUME IInv, NEW w \in Writers, InsertFails(w)
  PROVE  IInv'
<1> USE MaxEventsIsNat DEF IInv, InsertFails, readerVars
<1>1. TypeOK'
  BY DEF TypeOK
<1>2. Claims'
  <2> SUFFICES ASSUME NEW v \in Writers, NEW k \in 1 .. (number'[v] - 1)
               PROVE  Taken(k)'
    BY DEF Claims
  <2>1. number'[v] = IF v = w THEN 0 ELSE number[v]
    BY DEF TypeOK
  <2> QED
    BY <2>1 DEF Claims, Taken
<1>3. Dense' /\ Genuine' /\ Covered' /\ NoSkip'
  BY DEF Dense, Genuine, Covered, NoSkip, Taken
<1> QED
  BY <1>1, <1>2, <1>3

-----------------------------------------------------------------------------
(* The console starts a connection at its last event, and NoSkip says that *)
(* it has everything up to there.                                          *)
LEMMA ConnectInv ==
  ASSUME IInv, NEW s \in Streams, Connect(s)
  PROVE  IInv'
<1> USE MaxEventsIsNat DEF IInv, storeVars, runVars
<1>1. PICK m \in 0 .. MaxEvents :
        IsLast(m, seen) /\ cursor' = [cursor EXCEPT ![s] = m]
  BY DEF Connect
<1>2. /\ open' = open \union {s}
      /\ wire' = [wire EXCEPT ![s] = {}]
      /\ UNCHANGED << rows, number, lost, seen, run, runStatus >>
  BY DEF Connect
<1>3. TypeOK'
  BY <1>1, <1>2 DEF TypeOK
<1>4. Dense' /\ Claims' /\ NoSkip'
  BY <1>2 DEF Dense, Claims, NoSkip, Taken
<1>5. Genuine'
  BY <1>2 DEF Genuine, TypeOK
<1>6. Covered'
  <2> SUFFICES ASSUME NEW t \in open'
               PROVE  /\ cursor'[t] # 0 => \E q \in rows : q.seq = cursor'[t]
                      /\ \A f \in wire'[t] : f.seq <= cursor'[t]
                      /\ \A r \in rows : r.seq <= cursor'[t] =>
                                           r \in seen \/ r \in wire'[t]
    BY <1>2 DEF Covered, Taken
  <2>1. CASE t = s
    <3>1. cursor'[t] = m /\ wire'[t] = {}
      BY <1>1, <1>2, <2>1 DEF TypeOK
    <3>2. CASE m = 0
      BY <3>1, <3>2 DEF TypeOK, Event
    <3>3. CASE m # 0
      <4>1. PICK f \in seen : f.seq = m
        BY <1>1, <3>3 DEF IsLast
      <4> QED
        BY <3>1, <4>1 DEF Genuine, NoSkip
    <3> QED
      BY <3>2, <3>3
  <2>2. CASE t # s
    BY <1>1, <1>2, <2>2 DEF Covered, TypeOK, Taken
  <2> QED
    BY <2>1, <2>2
<1> QED
  BY <1>3, <1>4, <1>5, <1>6

LEMMA ServeInv ==
  ASSUME IInv, NEW s \in Streams, Serve(s)
  PROVE  IInv'
<1> USE MaxEventsIsNat DEF IInv, storeVars, runVars
<1> DEFINE batch == ListByRunAfter(cursor[s])
<1>1. PICK m \in 0 .. MaxEvents :
        IsLast(m, batch) /\ cursor' = [cursor EXCEPT ![s] = m]
  BY DEF Serve
<1>2. /\ s \in open
      /\ batch # {}
      /\ wire' = [wire EXCEPT ![s] = @ \union batch]
      /\ UNCHANGED << rows, number, lost, seen, open, run, runStatus >>
  BY DEF Serve
<1>3. batch \subseteq rows
  BY DEF ListByRunAfter
<1>4. TypeOK'
  BY <1>1, <1>2, <1>3 DEF TypeOK
<1>5. Dense' /\ Claims' /\ NoSkip'
  BY <1>2 DEF Dense, Claims, NoSkip, Taken
<1>6. Genuine'
  BY <1>2, <1>3 DEF Genuine, TypeOK
<1>7. \E q \in rows : q.seq = m
  <2>1. PICK b \in batch : TRUE
    BY <1>2
  <2>2. b.seq \in 1 .. MaxEvents /\ b.seq <= m
    BY <2>1, <1>1, <1>3 DEF IsLast, TypeOK, Event
  <2>3. m # 0
    BY <2>2
  <2> QED
    BY <2>3, <1>1, <1>3 DEF IsLast
<1>8. \A r \in rows : r.seq <= m => r \in seen \/ r \in wire'[s]
  <2> SUFFICES ASSUME NEW r \in rows, r.seq <= m
               PROVE  r \in seen \/ r \in wire[s] \/ r \in batch
    BY <1>2 DEF TypeOK
  <2>1. CASE r.seq <= cursor[s]
    BY <2>1, <1>2 DEF Covered
  <2>2. CASE ~(r.seq <= cursor[s])
    <3>1. r.seq \in Nat /\ cursor[s] \in Nat
      BY DEF TypeOK, Event
    <3> QED
      BY <2>2, <3>1 DEF ListByRunAfter
  <2> QED
    BY <2>1, <2>2
<1>9. \A f \in wire'[s] : f.seq <= m
  <2>1. ASSUME NEW f \in wire[s] PROVE f.seq <= m
    <3>1. f.seq \in Nat /\ cursor[s] \in Nat /\ f.seq <= cursor[s]
      BY <1>2 DEF Covered, TypeOK, Event
    <3>2. PICK b \in batch : TRUE
      BY <1>2
    <3>3. b.seq \in Nat /\ b.seq > cursor[s] /\ b.seq <= m
      BY <3>2, <1>1, <1>3 DEF IsLast, TypeOK, Event, ListByRunAfter
    <3> QED
      BY <3>1, <3>3
  <2>2. ASSUME NEW f \in batch PROVE f.seq <= m
    BY <1>1 DEF IsLast
  <2>3. wire'[s] = wire[s] \union batch
    BY <1>2 DEF TypeOK
  <2> QED
    BY <2>1, <2>2, <2>3
<1>10. Covered'
  <2> SUFFICES ASSUME NEW t \in open
               PROVE  /\ cursor'[t] # 0 => \E q \in rows : q.seq = cursor'[t]
                      /\ \A f \in wire'[t] : f.seq <= cursor'[t]
                      /\ \A r \in rows : r.seq <= cursor'[t] =>
                                           r \in seen \/ r \in wire'[t]
    BY <1>2 DEF Covered, Taken
  <2>1. CASE t = s
    BY <1>1, <1>7, <1>8, <1>9, <2>1 DEF TypeOK
  <2>2. CASE t # s
    BY <1>1, <1>2, <2>2 DEF Covered, TypeOK, Taken
  <2> QED
    BY <2>1, <2>2
<1> QED
  BY <1>4, <1>5, <1>6, <1>10

(* A connection delivers in order, and what is below the oldest event on   *)
(* the wire is already received.                                           *)
LEMMA ReceiveInOrder ==
  ASSUME IInv, NEW s \in open, NEW e \in wire[s],
         \A f \in wire[s] : e.seq <= f.seq
  PROVE  \A r \in rows : r.seq <= e.seq => r \in seen \/ r = e
<1> USE MaxEventsIsNat DEF IInv
<1> SUFFICES ASSUME NEW r \in rows, r.seq <= e.seq, r \notin seen
             PROVE  r = e
  OBVIOUS
<1>1. s \in Streams /\ e \in rows
  BY DEF TypeOK, Genuine
<1>2. r.seq \in Nat /\ e.seq \in Nat /\ cursor[s] \in Nat
  BY <1>1 DEF TypeOK, Event
<1>3. r.seq <= cursor[s]
  BY <1>2 DEF Covered
<1>4. r \in wire[s]
  BY <1>3 DEF Covered
<1>5. r.seq = e.seq
  BY <1>2, <1>4
<1> QED
  BY <1>1, <1>5 DEF Dense

LEMMA ReceiveInv ==
  ASSUME IInv, NEW s \in Streams, Receive(s)
  PROVE  IInv'
<1> USE MaxEventsIsNat DEF IInv, storeVars, runVars
<1>1. PICK e \in wire[s] :
        /\ \A f \in wire[s] : e.seq <= f.seq
        /\ seen' = seen \union {e}
        /\ wire' = [wire EXCEPT ![s] = @ \ {e}]
  BY DEF Receive
<1>2. s \in open /\ UNCHANGED << rows, number, lost, open, cursor, run, runStatus >>
  BY DEF Receive
<1>3. e \in rows
  BY DEF Genuine
<1>4. TypeOK'
  BY <1>1, <1>2, <1>3 DEF TypeOK
<1>5. Dense' /\ Claims'
  BY <1>2 DEF Dense, Claims, Taken
<1>6. Genuine'
  BY <1>1, <1>2, <1>3 DEF Genuine, TypeOK
<1>7. Covered'
  <2> SUFFICES ASSUME NEW t \in open
               PROVE  /\ cursor[t] # 0 => Taken(cursor[t])
                      /\ \A f \in wire'[t] : f.seq <= cursor[t]
                      /\ \A r \in rows : r.seq <= cursor[t] =>
                                           r \in seen' \/ r \in wire'[t]
    BY <1>2 DEF Covered, Taken
  <2>1. wire'[t] \subseteq wire[t] /\ wire[t] \subseteq wire'[t] \union {e}
    BY <1>1 DEF TypeOK
  <2> QED
    BY <2>1, <1>1 DEF Covered
<1>8. NoSkip'
  <2>1. \A r \in rows : r.seq <= e.seq => r \in seen \/ r = e
    BY <1>1, <1>2, ReceiveInOrder
  <2> QED
    BY <2>1, <1>1, <1>2 DEF NoSkip
<1> QED
  BY <1>4, <1>5, <1>6, <1>7, <1>8

LEMMA DisconnectInv ==
  ASSUME IInv, NEW s \in Streams, Disconnect(s)
  PROVE  IInv'
<1> USE DEF IInv, Disconnect, storeVars, runVars
<1>1. TypeOK' /\ Genuine'
  BY DEF TypeOK, Genuine
<1>2. Dense' /\ Claims' /\ NoSkip'
  BY DEF Dense, Claims, NoSkip, Taken
<1>3. Covered'
  <2>1. \A t \in open' : t \in open /\ wire'[t] = wire[t]
    BY DEF TypeOK
  <2> QED
    BY <2>1 DEF Covered, Taken
<1> QED
  BY <1>1, <1>2, <1>3

LEMMA RunInv ==
  ASSUME IInv, End \/ Leave \/ Return
  PROVE  IInv'
BY DEF IInv, End, Leave, Return, storeVars, TypeOK, Dense, Claims, Genuine, Covered, NoSkip, Taken

LEMMA StepIInv == IInv /\ [Next]_vars => IInv'
<1> SUFFICES ASSUME IInv, [Next]_vars PROVE IInv'
  OBVIOUS
<1>1. ASSUME NEW w \in Writers, Append(w) PROVE IInv'
  BY <1>1, NextSequenceInv, InsertInv, InsertFailsInv DEF Append
<1>2. ASSUME NEW s \in Streams,
             Connect(s) \/ Serve(s) \/ Receive(s) \/ Disconnect(s)
      PROVE  IInv'
  BY <1>2, ConnectInv, ServeInv, ReceiveInv, DisconnectInv
<1>3. CASE End \/ Leave \/ Return
  BY <1>3, RunInv
<1>4. CASE UNCHANGED vars
  BY <1>4 DEF vars, IInv, TypeOK, Dense, Claims, Genuine, Covered, NoSkip, Taken
<1> QED
  BY <1>1, <1>2, <1>3, <1>4 DEF Next

LEMMA IInvHolds == Spec => []IInv
BY InitIInv, StepIInv, PTL DEF Spec

-----------------------------------------------------------------------------
(* Every variable keeps its type: no number is ever claimed beyond the     *)
(* bound, nothing but events is stored, sent or received (trace/store.go). *)
THEOREM TypeCorrect == Spec => []TypeOK
<1>1. IInv => TypeOK
  BY DEF IInv
<1> QED
  BY <1>1, IInvHolds, PTL

(* However many appenders race each other for a number, the numbers in use *)
(* are 1, 2, 3, ... with no gap and no duplicate (Append, nextSequence).   *)
THEOREM DenseHolds == Spec => []Dense
<1>1. IInv => Dense
  BY DEF IInv
<1> QED
  BY <1>1, IInvHolds, PTL

(* The console never has an event without every earlier one, over however  *)
(* many connections that are cut at any time (sessionEventsHandler).       *)
THEOREM NoSkipHolds == Spec => []NoSkip
<1>1. IInv => NoSkip
  BY DEF IInv
<1> QED
  BY <1>1, IInvHolds, PTL

(* Every step of the log and of its readers is a step of the abstract      *)
(* stream or leaves it alone: an insert extends it at its end, a receive   *)
(* either learns the next event or repeats one that is known.              *)
LEMMA StepRefines == IInv /\ [Next]_vars => [StreamNext]_streamVars
<1> SUFFICES ASSUME IInv, [Next]_vars PROVE [StreamNext]_streamVars
  OBVIOUS
<1> USE MaxEventsIsNat
<1>1. ASSUME NEW w \in Writers, Insert(w) PROVE StreamNext
  <2>1. /\ number[w] \in 1 .. MaxEvents
        /\ ~ Taken(number[w])
        /\ rows' = rows \union {[seq |-> number[w], by |-> w]}
        /\ UNCHANGED seen
    BY <1>1 DEF Insert, IInv, TypeOK, readerVars
  <2>2. \A r \in rows : r.seq < number[w]
    BY <2>1, FreeNumberIsLast DEF IInv
  <2>3. \A k \in 1 .. (number[w] - 1) : \E r \in rows : r.seq = k
    BY DEF IInv, Claims, Taken
  <2>4. Extend(w, number[w])
    BY <2>1, <2>2, <2>3 DEF Extend
  <2> QED
    BY <2>1, <2>4 DEF StreamNext
<1>2. ASSUME NEW s \in Streams, Receive(s) PROVE [StreamNext]_streamVars
  <2>1. PICK e \in wire[s] :
          /\ \A f \in wire[s] : e.seq <= f.seq
          /\ seen' = seen \union {e}
    BY <1>2 DEF Receive
  <2>2. s \in open /\ e \in rows /\ UNCHANGED rows
    BY <1>2 DEF Receive, IInv, Genuine, storeVars
  <2>3. \A r \in rows : r.seq <= e.seq => r \in seen \/ r = e
    BY <2>1, <2>2, ReceiveInOrder
  <2>4. \A r \in rows : r.seq < e.seq => r \in seen
    BY <2>2, <2>3 DEF IInv, TypeOK, Event
  <2>5. \A r \in rows : r.seq = e.seq => r = e
    BY <2>2 DEF IInv, Dense
  <2>6. Learn(e)
    BY <2>1, <2>2, <2>4, <2>5 DEF Learn
  <2> QED
    BY <2>2, <2>6 DEF StreamNext
<1>3. ASSUME NEW w \in Writers, NextSequence(w) \/ InsertFails(w)
      PROVE  UNCHANGED streamVars
  BY <1>3 DEF NextSequence, InsertFails, readerVars, streamVars
<1>4. ASSUME NEW s \in Streams, Connect(s) \/ Serve(s) \/ Disconnect(s)
      PROVE  UNCHANGED streamVars
  BY <1>4 DEF Connect, Serve, Disconnect, storeVars, streamVars
<1>5. CASE End \/ Leave \/ Return
  BY <1>5 DEF End, Leave, Return, storeVars, streamVars
<1>6. CASE UNCHANGED vars
  BY <1>6 DEF vars, streamVars
<1> QED
  BY <1>1, <1>2, <1>3, <1>4, <1>5, <1>6 DEF Next, Append

(* The log with its racing appenders and its readers implements the        *)
(* abstract stream of EventStream.                                         *)
THEOREM LogImplementsStream == Spec => ImplementsStream
<1>1. Init => StreamInit
  BY DEF Init
<1> QED
  BY <1>1, IInvHolds, StepRefines, PTL DEF Spec, StreamSpec, ImplementsStream
=============================================================================
