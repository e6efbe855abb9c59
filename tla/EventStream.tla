---------------------------- MODULE EventStream ----------------------------
(***************************************************************************)
(* What the trace of one run promises to the console that follows it: the  *)
(* events of the run form one sequence, an event is only ever added at the *)
(* end of it, and the console learns the events in exactly that order,     *)
(* none skipped, however often its connection is cut and reopened.         *)
(*                                                                         *)
(* This is the abstract specification that TraceLog implements.            *)
(***************************************************************************)
EXTENDS Integers

CONSTANTS
  Writers,     (* whoever appends: workers, HTTP handlers, the tool broker *)
  MaxEvents    (* bound on the length of the trace                         *)

ASSUME MaxEventsIsNat == MaxEvents \in Nat

VARIABLES
  rows,        (* the events of the run that are stored                    *)
  seen         (* the events the console has received                      *)

streamVars == << rows, seen >>

Event == [seq : 1 .. MaxEvents, by : Writers]

StreamInit == rows = {} /\ seen = {}

(* A new event comes right after the last one. *)
Extend(w, n) ==
  /\ \A r \in rows : r.seq < n
  /\ \A k \in 1 .. (n - 1) : \E r \in rows : r.seq = k
  /\ rows' = rows \union {[seq |-> n, by |-> w]}
  /\ UNCHANGED seen

(* The console receives the first stored event it does not know. *)
Learn(e) ==
  /\ e \in rows
  /\ \A r \in rows : r.seq < e.seq => r \in seen
  /\ \A r \in rows : r.seq = e.seq => r = e
  /\ seen' = seen \union {e}
  /\ UNCHANGED rows

StreamNext ==
  \/ \E w \in Writers, n \in 1 .. MaxEvents : Extend(w, n)
  \/ \E e \in rows : Learn(e)

StreamSpec == StreamInit /\ [][StreamNext]_streamVars
=============================================================================
