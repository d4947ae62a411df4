------------------------------ MODULE HeadTail ------------------------------
(***************************************************************************)
(* The head and tail sinks (kernel/src/sinks.rs, HeadTailSink): of all the *)
(* paths an exec sinks, whatever their order and however often each one    *)
(* comes, the max first (or last) ones end up in the space.                *)
(*                                                                         *)
(* Paths are numbers in the order of the byte strings.                     *)
(***************************************************************************)
EXTENDS Naturals, FiniteSets

CONSTANTS
  Paths,   \* what is left of a sunk path after the resource's root
  MaxMax   \* bound: the largest count a program asks for

Empty == 0   \* the empty extremum; no path is empty

ASSUME PathsAssumption == Paths \subseteq Nat \ {Empty} /\ MaxMax \in Nat \ {0}

VARIABLES
  head,      \* HeadTailSink<true> or <false>
  max,       \* the count in the template
  extrema,   \* the paths kept so far
  count,     \* how many
  extremum,  \* the kept path that goes next
  seen,      \* every path that was sunk (history)
  space,     \* the paths under the resource's root
  initial,   \* the same before the exec (history)
  pc         \* "sink", "done", or "panic"

vars == <<head, max, extrema, count, extremum, seen, space, initial, pc>>

\* The order the sink selects by.
Before(p, q) == IF head THEN p < q ELSE q < p

\* descend_last_path for head, the first value for tail.
LastOf(S) == CHOOSE p \in S : \A q \in S : q = p \/ Before(q, p)

Init ==
  /\ head \in BOOLEAN
  /\ max \in 1 .. MaxMax
  /\ extrema = {}
  /\ count = 0
  /\ extremum = Empty
  /\ seen = {}
  /\ space \in SUBSET Paths
  /\ initial = space
  /\ pc = "sink"

\* At capacity, and not better than the worst kept path.
SinkIgnore(p) ==
  /\ pc = "sink"
  /\ count = max
  /\ ~Before(p, extremum)
  /\ seen' = seen \cup {p}
  /\ UNCHANGED <<head, max, extrema, count, extremum, space, initial, pc>>

\* At capacity, a better path displaces the worst one.
SinkReplace(p) ==
  /\ pc = "sink"
  /\ count = max
  /\ Before(p, extremum)
  /\ p \notin extrema
  /\ extrema' = (extrema \cup {p}) \ {extremum}
  /\ extremum' = LastOf(extrema')
  /\ seen' = seen \cup {p}
  /\ UNCHANGED <<head, max, count, space, initial, pc>>

\* assert!(self.extrema.insert(mpath, ()).is_none())
SinkPanic(p) ==
  /\ pc = "sink"
  /\ count = max
  /\ Before(p, extremum)
  /\ p \in extrema
  /\ pc' = "panic"
  /\ seen' = seen \cup {p}
  /\ UNCHANGED <<head, max, extrema, count, extremum, space, initial>>

\* Faulty SinkAdd: the extremum is not kept up to date.
SinkAddStale(p) ==
  /\ pc = "sink"
  /\ count < max
  /\ IF p \in extrema THEN UNCHANGED <<extrema, count, extremum>>
     ELSE /\ extrema' = extrema \cup {p}
          /\ count' = count + 1
          /\ extremum' = IF extremum = Empty THEN p ELSE extremum
  /\ seen' = seen \cup {p}
  /\ UNCHANGED <<head, max, space, initial, pc>>

\* Below capacity: insert, and note when it is the new worst one.
SinkAdd(p) ==
  /\ pc = "sink"
  /\ count < max
  /\ IF p \in extrema THEN UNCHANGED <<extrema, count, extremum>>
     ELSE /\ extrema' = extrema \cup {p}
          /\ count' = count + 1
          /\ extremum' = IF extremum = Empty \/ Before(extremum, p) THEN p ELSE extremum
  /\ seen' = seen \cup {p}
  /\ UNCHANGED <<head, max, space, initial, pc>>

\* finalize: wz.join_into(extrema).
Finalize ==
  /\ pc = "sink"
  /\ space' = space \cup extrema
  /\ pc' = "done"
  /\ UNCHANGED <<head, max, extrema, count, extremum, seen, initial>>

Next ==
  \/ \E p \in Paths : SinkIgnore(p) \/ SinkReplace(p) \/ SinkPanic(p) \/ SinkAdd(p)
  \/ Finalize

Spec == Init /\ [][Next]_vars

-----------------------------------------------------------------------------
(* Properties *)

TypeOK ==
  /\ head \in BOOLEAN
  /\ max \in 1 .. MaxMax
  /\ extrema \subseteq Paths
  /\ count \in 0 .. max /\ Cardinality(extrema) = count
  /\ extremum \in Paths \cup {Empty}
  /\ seen \subseteq Paths
  /\ space \subseteq Paths /\ initial \subseteq Paths
  /\ pc \in {"sink", "done", "panic"}

\* The max first (last) elements of S.
Selection(S) == {p \in S : Cardinality({q \in S : Before(q, p)}) < max}

\* head and tail keep "the max first (last) ones" whatever the order and
\* multiplicity in which the query delivers the paths: the sink never drops a
\* path it would have needed later, and count and extremum never go stale.  An
\* exec adds that selection to the space and loses nothing of the space.
KeepsSelection ==
  /\ extrema = Selection(seen)
  /\ pc = "done" => space = initial \cup Selection(seen)

\* assert!(self.extrema.insert(mpath, ()).is_none()): a path that displaces
\* another one is never a path that is already kept.
NoPanic == pc # "panic"
=============================================================================
