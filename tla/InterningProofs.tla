--------------------------- MODULE InterningProofs ---------------------------
(***************************************************************************)
(* Theorems about the concurrent symbol interner, for every number of      *)
(* threads, strings, buckets, slots and slabs.  Those about slab memory    *)
(* are about runs in which no two threads with a permit write through one  *)
(* slot (NoSharedSlot) and so, by Exclusive, about all runs with one       *)
(* session per thread.                                                     *)
(***************************************************************************)
EXTENDS Interning, WellFoundedInduction, TLAPS

-----------------------------------------------------------------------------
(* The inductive invariant of the symbol tables *)

\* get_sym_or_insert holds the bucket's write lock.
Critical == {"fill", "number", "bytes", "publish"}
\* It has not looked the string up under that lock yet.
Undecided == {"look", "prepare", "eager", "recheck"}
\* It has its answer.
Decided == {"cleanup", "done"}
Outside == {"idle", "scan"}
\* It has numbered its new symbol and not published it.
Numbered == {"bytes", "publish"}

Typed ==
  /\ nextSym \in [Slots -> Nat]
  /\ slotOf \in [Threads -> Slots \cup {NoSlot}]
  /\ live \in [Threads -> Nat]
  /\ scan \in [Threads -> Nat]
  /\ toSymbol \in [Buckets -> [Keys -> Symbols \cup {NoSym}]]
  /\ symLock \in [Buckets -> Threads \cup {NoThread}]
  /\ pc \in [Threads -> Outside \cup Undecided \cup Critical \cup Decided]
  /\ req \in [Threads -> Keys \cup {NoKey}]
  /\ ret \in [Threads -> Symbols \cup {NoSym}]
  /\ newSym \in [Threads -> Symbols \cup {NoSym}]

\* A thread in a call has a permit, and a permit has a slot.
Permitted(t) ==
  /\ live[t] > 0 => slotOf[t] # NoSlot
  /\ pc[t] \notin Outside => live[t] > 0

\* The argument and the answer are there exactly when the call has them.
Answer(t) ==
  /\ pc[t] \in Outside <=> req[t] = NoKey
  /\ pc[t] \in Decided <=> ret[t] # NoSym

\* The thread between the second lookup and the insertion owns the bucket, and
\* the string is still missing.
Locking(t) ==
  pc[t] \in Critical => symLock[Bucket(t)] = t /\ Lookup(req[t]) = NoSym

\* A symbol is numbered once: nobody has been given the ones the counter has
\* not reached, nor the one a thread is about to publish.
Used(s) == s \in Symbols /\ s[2] < nextSym[s[1]]
Fresh(t) ==
  pc[t] \in Numbered =>
    /\ Used(newSym[t])
    /\ \A k \in Keys : Lookup(k) # newSym[t]
    /\ \A u \in Threads : u # t /\ pc[u] \in Numbered => newSym[u] # newSym[t]

TableInv ==
  /\ Typed
  /\ \A t \in Threads : Permitted(t)
  /\ \A t \in Threads : Answer(t)
  /\ \A t \in Threads : Locking(t)
  /\ \A k \in Keys : Lookup(k) # NoSym => Used(Lookup(k))
  /\ \A t \in Threads : Fresh(t)

LEMMA InitTableInv == Init => TableInv
<1> SUFFICES ASSUME Init PROVE TableInv
  OBVIOUS
<1>1. Typed
  BY ConstantsAssumption DEF Init, Typed, Outside, FirstId, Slots
<1>2. \A k \in Keys : Lookup(k) = NoSym
  BY ConstantsAssumption DEF Init, Lookup
<1>3. \A t \in Threads : pc[t] = "idle" /\ req[t] = NoKey /\ ret[t] = NoSym /\ live[t] = 0
  BY DEF Init
<1>4. \A t \in Threads : Permitted(t)
  <2> TAKE t \in Threads
  <2>1. pc[t] \in Outside /\ ~(live[t] > 0)
    BY <1>3 DEF Outside
  <2> QED
    BY <2>1 DEF Permitted
<1>5. \A t \in Threads : Answer(t)
  BY <1>3 DEF Answer, Outside, Decided
<1>6. \A t \in Threads : Locking(t) /\ Fresh(t)
  BY <1>3 DEF Locking, Fresh, Critical, Numbered
<1> QED
  BY <1>1, <1>2, <1>4, <1>5, <1>6 DEF TableInv

-----------------------------------------------------------------------------
(* Steps that leave the symbol tables alone *)

\* The steps of a call that only move it along among the program points before
\* its answer, and change neither tables nor symbols.
Private(t) ==
  \/ Prepare(t) \/ EagerWrite(t) \/ UseEager(t) \/ FillFirst(t) \/ FillLast(t)
  \/ PutBytes(t) \/ Cleanup(t)

\* What such a step can be seen to do.
Moves(t) ==
  /\ pc' = [pc EXCEPT ![t] = pc'[t]]
  /\ <<pc[t], pc'[t]>> \in
        {<<"prepare", "eager">>, <<"prepare", "recheck">>, <<"eager", "recheck">>,
         <<"fill", "number">>, <<"bytes", "publish">>, <<"cleanup", "done">>}
  /\ UNCHANGED <<permits, nextSym, toSymbol, symLock, newSym, req, ret>>

LEMMA PrivateMoves ==
  ASSUME Typed, NEW t \in Threads, Private(t)
  PROVE  Moves(t)
<1>1. pc \in [Threads -> Outside \cup Undecided \cup Critical \cup Decided]
  BY DEF Typed
<1>2. CASE Prepare(t)
  BY <1>1, <1>2 DEF Prepare, Goto, Moves, permits, memory, tables, call
<1>3. CASE EagerWrite(t)
  BY <1>1, <1>3 DEF EagerWrite, Goto, Moves, permits, tables, call
<1>4. CASE UseEager(t)
  BY <1>1, <1>4 DEF UseEager, Goto, Moves, permits, memory, tables, call
<1>5. CASE FillFirst(t)
  BY <1>1, <1>5 DEF FillFirst, Goto, Moves, permits, tables, call
<1>6. CASE FillLast(t)
  BY <1>1, <1>6 DEF FillLast, Goto, Moves, permits, tables, call
<1>7. CASE PutBytes(t)
  BY <1>1, <1>7 DEF PutBytes, Goto, Moves, permits, memory, locals, call
<1>8. CASE Cleanup(t)
  BY <1>1, <1>8 DEF Cleanup, Goto, Moves, permits, tables, locals, call
<1> QED
  BY <1>2, <1>3, <1>4, <1>5, <1>6, <1>7, <1>8 DEF Private

LEMMA MovesInv ==
  ASSUME TableInv, NEW t \in Threads, Moves(t)
  PROVE  TableInv'
<1> USE DEF Outside, Undecided, Critical, Decided
<1>1. Typed'
  BY DEF TableInv, Typed, Moves, permits
<1>2. \A u \in Threads : u # t => pc'[u] = pc[u]
  BY DEF TableInv, Typed, Moves
<1>3. \A k \in Keys : Lookup(k)' = Lookup(k) /\ (Used(Lookup(k)) => Used(Lookup(k))')
  BY DEF Moves, Lookup, Used
<1>4. \A u \in Threads : Permitted(u)' /\ Answer(u)'
  BY <1>2 DEF TableInv, Permitted, Answer, Moves, permits
<1>5. \A u \in Threads : Locking(u)'
  BY <1>2 DEF TableInv, Locking, Moves, Bucket, Lookup
<1>6. \A u \in Threads : Fresh(u)'
  <2>1. \A u \in Threads : pc'[u] \in Numbered <=> pc[u] \in Numbered
    BY <1>2 DEF Moves, Numbered
  <2> QED
    BY <2>1 DEF TableInv, Fresh, Used, Lookup, Moves
<1> QED
  BY <1>1, <1>3, <1>4, <1>5, <1>6 DEF TableInv

-----------------------------------------------------------------------------
(* The other steps *)

\* Acquiring and dropping permits.
Permits(t) ==
  Reacquire(t) \/ StartScan(t) \/ Claim(t) \/ Pass(t) \/ GiveUp(t) \/ Drop(t)

LEMMA PermitsInv ==
  ASSUME TableInv, NEW t \in Threads, Permits(t)
  PROVE  TableInv'
<1> USE DEF Outside, Undecided, Critical, Decided
<1>1. UNCHANGED <<nextSym, toSymbol, symLock, newSym, req, ret>>
  BY DEF Permits, Reacquire, StartScan, Claim, Pass, GiveUp, Drop, memory, tables,
         locals, call
<1>2. /\ pc' \in [Threads -> Outside \cup Undecided \cup Critical \cup Decided]
      /\ pc[t] \in Outside /\ pc'[t] \in Outside
      /\ \A u \in Threads : u # t => pc'[u] = pc[u]
  BY DEF TableInv, Typed, Permits, Reacquire, StartScan, Claim, Pass, GiveUp, Drop, Goto
<1>3. /\ slotOf' \in [Threads -> Slots \cup {NoSlot}]
      /\ live' \in [Threads -> Nat]
      /\ scan' \in [Threads -> Nat]
      /\ live'[t] > 0 => slotOf'[t] # NoSlot
      /\ \A u \in Threads : u # t => live'[u] = live[u] /\ slotOf'[u] = slotOf[u]
  <2> USE DEF TableInv, Typed
  <2>1. CASE Reacquire(t)
    BY <2>1 DEF Reacquire, TakePermit
  <2>2. CASE StartScan(t) \/ Pass(t) \/ GiveUp(t)
    BY <2>2 DEF StartScan, Pass, GiveUp, Permitted, permits
  <2>3. CASE Claim(t)
    BY <2>3, ConstantsAssumption DEF Claim, TakePermit
  <2>4. CASE Drop(t)
    BY <2>4 DEF Drop, Permitted
  <2> QED
    BY <2>1, <2>2, <2>3, <2>4 DEF Permits
<1>4. Typed'
  BY <1>1, <1>2, <1>3 DEF TableInv, Typed
<1>5. \A u \in Threads : Permitted(u)' /\ Answer(u)'
  BY <1>1, <1>2, <1>3 DEF TableInv, Permitted, Answer
<1>6. \A u \in Threads : Locking(u)'
  BY <1>1, <1>2 DEF TableInv, Locking, Bucket, Lookup
<1>7. \A u \in Threads : Fresh(u)'
  BY <1>1, <1>2 DEF TableInv, Fresh, Used, Lookup, Numbered
<1>8. \A k \in Keys : Lookup(k)' # NoSym => Used(Lookup(k))'
  BY <1>1 DEF TableInv, Used, Lookup
<1> QED
  BY <1>4, <1>5, <1>6, <1>7, <1>8 DEF TableInv

\* The steps that start a call, end it, or look the string up.
Edges(t) ==
  (\E k \in Keys : Begin(t, k)) \/ Look(t) \/ Recheck(t) \/ Return(t)

LEMMA EdgesInv ==
  ASSUME TableInv, NEW t \in Threads, Edges(t)
  PROVE  TableInv'
<1> USE DEF Outside, Undecided, Critical, Decided
<1>1. UNCHANGED <<nextSym, toSymbol, slotOf, live, scan>>
  BY DEF Edges, Begin, Look, Recheck, Return, memory, tables, permits
<1>2. /\ pc' \in [Threads -> Outside \cup Undecided \cup Critical \cup Decided]
      /\ \A u \in Threads : u # t => pc'[u] = pc[u] /\ req'[u] = req[u] /\ ret'[u] = ret[u]
                                     /\ newSym'[u] = newSym[u]
      /\ pc[t] \notin Numbered /\ pc'[t] \notin Numbered
      /\ pc[t] \notin Critical
  BY DEF TableInv, Typed, Edges, Begin, Look, Recheck, Return, Goto, Numbered, locals
<1>3. \A k \in Keys : Lookup(k) \in Symbols \cup {NoSym} /\ Lookup(k)' = Lookup(k)
  BY <1>1, ConstantsAssumption DEF TableInv, Typed, Lookup
<1>4. Typed'
  <2>1. pc[t] \in {"look", "recheck"} => req[t] \in Keys
    BY DEF TableInv, Typed, Answer
  <2>2. /\ req' \in [Threads -> Keys \cup {NoKey}]
        /\ ret' \in [Threads -> Symbols \cup {NoSym}]
        /\ newSym' \in [Threads -> Symbols \cup {NoSym}]
    <3> USE DEF TableInv, Typed
    <3>1. CASE \E k \in Keys : Begin(t, k)
      BY <3>1 DEF Begin, locals
    <3>2. CASE Look(t) \/ Recheck(t)
      <4>1. ret' = [ret EXCEPT ![t] = Lookup(req[t])] /\ UNCHANGED <<req, newSym>>
        BY <3>2 DEF Look, Recheck, locals
      <4>2. Lookup(req[t]) \in Symbols \cup {NoSym}
        BY <1>3, <2>1, <3>2 DEF Look, Recheck, Goto
      <4> QED
        BY <4>1, <4>2
    <3>3. CASE Return(t)
      BY <3>3 DEF Return
    <3> QED
      BY <3>1, <3>2, <3>3 DEF Edges
  <2>3. symLock' \in [Buckets -> Threads \cup {NoThread}]
    BY DEF TableInv, Typed, Edges, Begin, Look, Recheck, Return, tables
  <2> QED
    BY <1>1, <1>2, <2>2, <2>3 DEF TableInv, Typed
<1>5. \A u \in Threads : Permitted(u)'
  BY <1>1, <1>2 DEF TableInv, Typed, Permitted, Edges, Begin, Look, Recheck, Return, Goto
<1>6. \A u \in Threads : Answer(u)'
  <2>1. Answer(t)'
    <3> USE ConstantsAssumption DEF TableInv, Typed, Answer
    <3>1. CASE \E k \in Keys : Begin(t, k)
      BY <3>1 DEF Begin, Goto
    <3>2. CASE Look(t)
      BY <3>2 DEF Look
    <3>3. CASE Recheck(t)
      BY <3>3 DEF Recheck, Goto
    <3>4. CASE Return(t)
      BY <3>4 DEF Return, Goto
    <3> QED
      BY <3>1, <3>2, <3>3, <3>4 DEF Edges
  <2> QED
    BY <1>2, <2>1 DEF TableInv, Answer
<1>7. \A u \in Threads : Locking(u)'
  <2>1. ASSUME NEW u \in Threads, u # t PROVE Locking(u)'
    <3>1. Bucket(u)' = Bucket(u) /\ Lookup(req[u])' = Lookup(req[u])
      BY <1>1, <1>2, <2>1 DEF Bucket, Lookup
    <3>2. symLock[Bucket(u)] = u => symLock'[Bucket(u)] = u
      <4>1. UNCHANGED symLock \/ Recheck(t)
        BY DEF Edges, Begin, Look, Return, tables
      <4>2. CASE Recheck(t)
        BY <2>1, <4>2, ConstantsAssumption DEF Recheck, TableInv, Typed
      <4> QED
        BY <4>1, <4>2
    <3> QED
      BY <1>2, <2>1, <3>1, <3>2 DEF TableInv, Locking
  <2>2. Locking(t)'
    <3>1. pc'[t] \in Critical => Recheck(t)
      BY DEF TableInv, Typed, Edges, Begin, Look, Return, Goto
    <3>2. CASE Recheck(t)
      <4>1. req' = req /\ req[t] \in Keys
        BY <3>2 DEF Recheck, TableInv, Typed, Answer, Goto
      <4>2. Bucket(t) \in Buckets
        BY <4>1, ConstantsAssumption DEF Bucket
      <4> QED
        BY <1>1, <3>2, <4>1, <4>2 DEF Recheck, Goto, Locking, Bucket, Lookup, TableInv, Typed
    <3> QED
      BY <3>1, <3>2 DEF Locking
  <2> QED
    BY <2>1, <2>2
<1>8. \A u \in Threads : Fresh(u)'
  BY <1>1, <1>2 DEF TableInv, Fresh, Used, Lookup
<1>9. \A k \in Keys : Lookup(k)' # NoSym => Used(Lookup(k))'
  BY <1>1 DEF TableInv, Used, Lookup
<1> QED
  BY <1>4, <1>5, <1>6, <1>7, <1>8, <1>9 DEF TableInv

LEMMA NumberInv ==
  ASSUME TableInv, NEW t \in Threads, Number(t)
  PROVE  TableInv'
<1> USE DEF Outside, Undecided, Critical, Decided
<1>0. PICK i, s : i = slotOf[t] /\ s = <<i, nextSym[i]>>
  OBVIOUS
<1>1. UNCHANGED <<permits, toSymbol, symLock, req, ret>>
  BY DEF Number, tables, call
<1>2. /\ pc[t] = "number" /\ pc' = [pc EXCEPT ![t] = "bytes"]
      /\ newSym' = [newSym EXCEPT ![t] = s]
      /\ nextSym' = [nextSym EXCEPT ![i] = @ + 1]
  BY <1>0 DEF Number, Goto
<1>3. i \in Slots /\ nextSym[i] \in Ids /\ s \in Symbols
  <2>1. i \in Slots
    BY <1>0, <1>2 DEF TableInv, Typed, Permitted
  <2>2. nextSym[i] \in Nat /\ nextSym[i] <= MaxId
    BY <1>0, <2>1 DEF TableInv, Typed, Number
  <2> QED
    BY <1>0, <2>1, <2>2, ConstantsAssumption DEF Ids, Symbols
<1>4. Typed'
  BY <1>1, <1>2, <1>3 DEF TableInv, Typed, permits, Ids
<1>5. \A u \in Threads : Permitted(u)' /\ Answer(u)' /\ Locking(u)'
  BY <1>1, <1>2 DEF TableInv, Typed, Permitted, Answer, Locking, Lookup, Bucket, permits
<1>6. ASSUME NEW r, Used(r) PROVE Used(r)' /\ r # s
  <2>1. r \in Slots \X Ids /\ r[2] < nextSym[r[1]]
    BY <1>6 DEF Used, Symbols
  <2>2. nextSym[r[1]] \in Nat /\ nextSym[r[1]] <= nextSym'[r[1]]
    BY <1>2, <1>3, <2>1 DEF TableInv, Typed
  <2>3. r[2] \in Nat /\ nextSym'[r[1]] \in Nat
    BY <1>4, <2>1, <1>3 DEF Ids, Typed
  <2>4. r[2] < nextSym'[r[1]]
    BY <2>1, <2>2, <2>3
  <2>5. r = s => r[2] = nextSym[r[1]]
    BY <1>0
  <2> QED
    BY <1>6, <2>1, <2>2, <2>3, <2>4, <2>5 DEF Used
<1>7. \A k \in Keys : Lookup(k)' # NoSym => Used(Lookup(k))'
  <2> SUFFICES ASSUME NEW k \in Keys, Lookup(k) # NoSym PROVE Used(Lookup(k))'
    BY <1>1 DEF Lookup
  <2>1. Used(Lookup(k))
    BY DEF TableInv
  <2> QED
    BY <1>1, <1>6, <2>1 DEF Used, Lookup
<1>8. \A u \in Threads : Fresh(u)'
  <2>1. Used(s)'
    BY <1>0, <1>2, <1>3 DEF Used, TableInv, Typed, Ids
  <2>2. \A k \in Keys : Lookup(k)' = Lookup(k) /\ Lookup(k) # s
    BY <1>1, <1>3, <1>6, ConstantsAssumption DEF TableInv, Lookup
  <2>3. \A u \in Threads : u # t /\ pc[u] \in Numbered => newSym[u] # s
    BY <1>6 DEF TableInv, Fresh
  <2>4. newSym'[t] = s /\ \A u \in Threads : u # t => newSym'[u] = newSym[u] /\ pc'[u] = pc[u]
    BY <1>2 DEF TableInv, Typed
  <2>5. Fresh(t)'
    <3>1. Used(newSym[t])'
      BY <2>1, <2>4 DEF Used
    <3> QED
      BY <2>2, <2>3, <2>4, <3>1 DEF Fresh
  <2>6. ASSUME NEW u \in Threads, u # t PROVE Fresh(u)'
    <3> SUFFICES ASSUME pc[u] \in Numbered PROVE Fresh(u)'
      BY <2>4, <2>6 DEF Fresh
    <3>1. Used(newSym[u])'
      <4>1. Used(newSym[u])
        BY DEF TableInv, Fresh
      <4> QED
        BY <1>6, <2>4, <2>6, <4>1 DEF Used
    <3> QED
      BY <2>2, <2>3, <2>4, <2>6, <3>1 DEF TableInv, Fresh
  <2> QED
    BY <2>5, <2>6
<1> QED
  BY <1>4, <1>5, <1>7, <1>8 DEF TableInv

LEMMA PublishInv ==
  ASSUME TableInv, NEW t \in Threads, Publish(t)
  PROVE  /\ TableInv'
         /\ req[t] \in Keys /\ ret[t] = NoSym /\ newSym[t] \in Symbols
         /\ ret' = [ret EXCEPT ![t] = newSym[t]] /\ UNCHANGED req
         /\ Lookup(req[t]) = NoSym
         /\ \A k \in Keys : /\ Lookup(k) # newSym[t]
                            /\ Lookup(k)' = IF k = req[t] THEN newSym[t] ELSE Lookup(k)
<1> USE DEF Outside, Undecided, Critical, Decided
<1>1. UNCHANGED <<permits, nextSym, newSym, req>>
  BY DEF Publish, memory, locals
<1>2. /\ pc[t] = "publish" /\ pc' = [pc EXCEPT ![t] = "cleanup"]
      /\ toSymbol' = [toSymbol EXCEPT ![Bucket(t)][req[t]] = newSym[t]]
      /\ symLock' = [symLock EXCEPT ![Bucket(t)] = NoThread]
      /\ ret' = [ret EXCEPT ![t] = newSym[t]]
  BY DEF Publish, Goto
<1>3. Typed /\ req[t] \in Keys /\ ret[t] = NoSym /\ symLock[Bucket(t)] = t
      /\ Lookup(req[t]) = NoSym
  BY <1>2 DEF TableInv, Typed, Answer, Locking
<1>4. Bucket(t) \in Buckets
  BY <1>3, ConstantsAssumption DEF Bucket
<1>5. Used(newSym[t]) /\ newSym[t] \in Symbols /\ newSym[t] # NoSym
      /\ \A k \in Keys : Lookup(k) # newSym[t]
  BY <1>2, ConstantsAssumption DEF TableInv, Fresh, Numbered, Used
<1>6. \A k \in Keys : Lookup(k)' = IF k = req[t] THEN newSym[t] ELSE Lookup(k)
  BY <1>2, <1>3, <1>4, ConstantsAssumption DEF Lookup, Bucket, Typed
<1>7. \A u \in Threads : u # t => pc'[u] = pc[u] /\ ret'[u] = ret[u]
  BY <1>2, <1>3 DEF Typed
<1>8. pc'[t] = "cleanup" /\ ret'[t] = newSym[t]
  BY <1>2, <1>3 DEF Typed
<1>9. Typed'
  BY <1>1, <1>2, <1>3, <1>5 DEF Typed, permits
<1>10. \A u \in Threads : Permitted(u)' /\ Answer(u)'
  BY <1>1, <1>2, <1>3, <1>5, <1>7, <1>8 DEF TableInv, Permitted, Answer, permits
<1>11. ASSUME NEW u \in Threads PROVE Locking(u)'
  <2> SUFFICES ASSUME pc'[u] \in Critical PROVE Locking(u)'
    BY DEF Locking
  <2>1. u # t /\ symLock[Bucket(u)] = u /\ Lookup(req[u]) = NoSym /\ req[u] \in Keys
    BY <1>7, <1>8 DEF TableInv, Typed, Locking, Answer
  <2>2. req[u] # req[t] /\ Bucket(u) # Bucket(t)
    BY <1>3, <2>1 DEF Bucket
  <2>3. symLock'[Bucket(u)] = u /\ Lookup(req[u])' = NoSym /\ Bucket(u)' = Bucket(u)
    BY <1>1, <1>2, <1>3, <1>6, <2>1, <2>2, ConstantsAssumption DEF Bucket, Lookup, Typed
  <2> QED
    BY <2>3 DEF Locking
<1>12. ASSUME NEW u \in Threads PROVE Fresh(u)'
  <2> SUFFICES ASSUME pc'[u] \in Numbered PROVE Fresh(u)'
    BY DEF Fresh
  <2>1. u # t /\ pc[u] \in Numbered /\ Fresh(u)
    BY <1>7, <1>8 DEF Numbered, TableInv
  <2>2. newSym[u] # newSym[t] /\ Used(newSym[u])
    BY <1>2, <2>1 DEF Fresh, Numbered
  <2>3. \A k \in Keys : Lookup(k)' # newSym[u]
    BY <1>6, <2>1, <2>2 DEF Fresh
  <2>4. \A v \in Threads : v # u /\ pc'[v] \in Numbered => newSym[v] # newSym[u]
    BY <1>7, <1>8, <2>1 DEF Fresh, Numbered
  <2> QED
    BY <1>1, <2>2, <2>3, <2>4 DEF Fresh, Used
<1>13. \A k \in Keys : Lookup(k)' # NoSym => Used(Lookup(k))'
  BY <1>1, <1>5, <1>6 DEF TableInv, Used
<1> QED
  BY <1>1, <1>2, <1>3, <1>5, <1>6, <1>9, <1>10, <1>11, <1>12, <1>13 DEF TableInv

LEMMA StutterInv ==
  ASSUME TableInv, UNCHANGED vars
  PROVE  TableInv'
BY DEF TableInv, Typed, Permitted, Answer, Locking, Fresh, Used, Lookup, Bucket, vars,
   permits, memory, tables, locals, call

LEMMA StepKinds ==
  ASSUME NEW t \in Threads, Step(t)
  PROVE  Permits(t) \/ Edges(t) \/ Private(t) \/ Number(t) \/ Publish(t)
BY DEF Step, Insertion, Permits, Edges, Private

\* Every thread that holds or is about to publish a symbol holds a number
\* nobody else has, every thread between the second lookup and the insertion
\* holds the bucket of a string that is still missing: get_sym_or_insert
\* re-checks under the lock it inserts under, and fetch_add numbers a symbol
\* once, even when two threads write through one slot.
THEOREM TableInvariant == Spec => []TableInv
<1>1. ASSUME TableInv, [Next]_vars PROVE TableInv'
  <2>1. CASE UNCHANGED vars
    BY <1>1, <2>1, StutterInv
  <2>2. ASSUME NEW t \in Threads, Step(t) PROVE TableInv'
    <3>1. Private(t) => Moves(t)
      BY <1>1, PrivateMoves DEF TableInv
    <3> QED
      BY <1>1, <2>2, <3>1, StepKinds, MovesInv, PermitsInv, EdgesInv, NumberInv, PublishInv
  <2> QED
    BY <1>1, <2>1, <2>2 DEF Next
<1> QED
  BY <1>1, InitTableInv, PTL DEF Spec

\* get_sym_or_insert is linearizable: seen through the table and the calls, the
\* interner does nothing but the atomic lookups and insertions of InternTable.
\* Nothing is assumed about permits: this holds even if they are shared.
THEOREM Linearization == Spec => Linearizable
<1>1. Init => Table!Init
  <2> SUFFICES ASSUME Init PROVE Table!Init
    OBVIOUS
  <2>1. \A k \in Keys : Lookup(k) = NoSym
    BY ConstantsAssumption DEF Init, Lookup
  <2> QED
    BY <2>1 DEF Init, Table!Init
<1>2. ASSUME TableInv, [Next]_vars PROVE [Table!Next]_(Table!avars)
  <2>1. ASSUME UNCHANGED <<toSymbol, req, ret>> PROVE UNCHANGED Table!avars
    BY <2>1 DEF Table!avars, Lookup
  <2>2. CASE UNCHANGED vars
    BY <2>1, <2>2 DEF vars, tables, call
  <2>3. ASSUME NEW t \in Threads, Step(t) PROVE [Table!Next]_(Table!avars)
    <3> USE DEF Outside, Undecided, Critical, Decided
    <3>1. CASE Permits(t) \/ Private(t) \/ Number(t)
      <4>1. UNCHANGED <<toSymbol, req, ret>>
        BY <1>2, <3>1, PrivateMoves DEF TableInv, Moves, Number, Permits, Reacquire,
           StartScan, Claim, Pass, GiveUp, Drop, tables, call
      <4> QED
        BY <2>1, <4>1
    <3>2. ASSUME NEW k \in Keys, Begin(t, k) PROVE Table!Next
      <4>1. req[t] = NoKey
        BY <1>2, <3>2 DEF TableInv, Answer, Begin, Goto
      <4>2. Table!Call(t, k)
        BY <3>2, <4>1 DEF Begin, tables, Lookup, Table!Call
      <4> QED
        BY <4>2 DEF Table!Next
    <3>3. CASE Look(t) \/ Recheck(t)
      <4>1. /\ ret' = [ret EXCEPT ![t] = Lookup(req[t])] /\ UNCHANGED <<toSymbol, req>>
            /\ pc[t] \in {"look", "recheck"}
        BY <3>3 DEF Look, Recheck, Goto, tables
      <4>2. req[t] \in Keys /\ ret[t] = NoSym
        BY <1>2, <4>1 DEF TableInv, Typed, Answer
      <4>3. CASE Lookup(req[t]) = NoSym
        <5>1. UNCHANGED ret
          BY <1>2, <4>1, <4>2, <4>3 DEF TableInv, Typed
        <5> QED
          BY <2>1, <4>1, <5>1
      <4>4. CASE Lookup(req[t]) # NoSym
        <5>1. Table!Found(t)
          BY <4>1, <4>2, <4>4, ConstantsAssumption DEF Table!Found, Lookup
        <5> QED
          BY <5>1 DEF Table!Next
      <4> QED
        BY <4>3, <4>4
    <3>4. CASE Return(t)
      <4>1. ret[t] # NoSym
        BY <1>2, <3>4 DEF TableInv, Answer, Return, Goto
      <4>2. Table!Return(t)
        BY <3>4, <4>1 DEF Return, tables, Lookup, Table!Return
      <4> QED
        BY <4>2 DEF Table!Next
    <3>5. CASE Publish(t)
      <4>1. newSym[t] \in Symbols /\ Table!Insert(t, newSym[t])
        BY <1>2, <3>5, PublishInv, ConstantsAssumption DEF Table!Insert
      <4> QED
        BY <4>1 DEF Table!Next
    <3> QED
      BY <2>3, <3>1, <3>2, <3>3, <3>4, <3>5, StepKinds DEF Edges
  <2> QED
    BY <1>2, <2>2, <2>3 DEF Next
<1> QED
  BY <1>1, <1>2, TableInvariant, PTL DEF Spec, Linearizable, Table!Spec

-----------------------------------------------------------------------------
(* Permits *)

\* With one session per thread, a thread has a slot only in that session.
PermitInv ==
  /\ owner \in [Slots -> Threads \cup {NoThread}]
  /\ sessions \in [Threads -> Nat]
  /\ \A t \in Threads :
       /\ slotOf[t] # NoSlot => sessions[t] = 1
       /\ live[t] > 0 => slotOf[t] # NoSlot /\ owner[slotOf[t]] = t
       /\ pc[t] = "scan" => live[t] = 0 /\ sessions[t] = 0

\* The steps of a call leave the permits alone and do not start a scan.
LEMMA CallKeepsPermits ==
  ASSUME NEW t \in Threads, Insertion(t) \/ \E k \in Keys : Begin(t, k)
  PROVE  UNCHANGED permits /\ \E to : to # "scan" /\ pc' = [pc EXCEPT ![t] = to]
BY DEF Insertion, Begin, Look, Prepare, EagerWrite, Recheck, UseEager, FillFirst,
   FillLast, Number, PutBytes, Publish, Cleanup, Return, Goto

LEMMA PermitStep ==
  ASSUME Typed, PermitInv, MaxSessions = 1, NEW t \in Threads, Step(t)
  PROVE  PermitInv'
<1> USE DEF Typed, PermitInv, permits
<1>1. CASE Insertion(t) \/ \E k \in Keys : Begin(t, k)
  BY <1>1, CallKeepsPermits
<1>2. CASE Reacquire(t)
  <2>1. live[t] > 0
    BY <1>2 DEF Reacquire, MayAcquire
  <2> QED
    BY <1>2, <2>1 DEF Reacquire, TakePermit
<1>3. CASE StartScan(t)
  <2>1. live[t] = 0 /\ sessions[t] = 0
    BY <1>3 DEF StartScan, MayAcquire
  <2> QED
    BY <1>3, <2>1 DEF StartScan, Goto
<1>4. CASE Claim(t)
  <2>1. live[t] = 0 /\ sessions[t] = 0
    BY <1>4 DEF Claim, Goto
  <2>2. \A u \in Threads : live[u] > 0 => slotOf[u] # scan[t]
    BY <1>4, ConstantsAssumption DEF Claim
  <2> QED
    BY <1>4, <2>1, <2>2, ConstantsAssumption DEF Claim, TakePermit, Goto
<1>5. CASE Pass(t) \/ GiveUp(t)
  BY <1>5 DEF Pass, GiveUp, Goto
<1>6. CASE Drop(t)
  <2>1. slotOf[t] \in Slots /\ owner[slotOf[t]] = t
    BY <1>6 DEF Drop
  <2>2. \A u \in Threads : live[u] > 0 /\ u # t => slotOf[u] # slotOf[t]
    BY <2>1
  <2> QED
    BY <1>6, <2>1, <2>2, ConstantsAssumption DEF Drop
<1> QED
  BY <1>1, <1>2, <1>3, <1>4, <1>5, <1>6 DEF Step

\* A thread that holds a permit owns its slot, and so the slot's counter and
\* slabs, as long as no thread comes back for a permit after it has dropped its
\* last one (WritePermit::drop frees the slot and keeps the slot index).
THEOREM Exclusive ==
  ASSUME MaxSessions = 1
  PROVE  Spec => []SlotExclusive
<1>1. ASSUME Init PROVE PermitInv
  <2>1. owner \in [Slots -> Threads \cup {NoThread}] /\ sessions \in [Threads -> Nat]
    BY <1>1 DEF Init
  <2>2. \A t \in Threads : live[t] = 0 /\ slotOf[t] = NoSlot /\ pc[t] # "scan"
    BY <1>1 DEF Init
  <2>3. ASSUME NEW t \in Threads PROVE ~(live[t] > 0)
    <3>1. live[t] = 0
      BY <2>2
    <3> QED
      BY <3>1
  <2> QED
    BY <2>1, <2>2, <2>3 DEF PermitInv
<1>2. ASSUME TableInv, PermitInv, [Next]_vars PROVE PermitInv'
  <2>1. CASE UNCHANGED vars
    BY <1>2, <2>1 DEF PermitInv, vars, permits
  <2>2. CASE Next
    BY <1>2, <2>2, PermitStep DEF Next, TableInv
  <2> QED
    BY <1>2, <2>1, <2>2
<1>3. PermitInv => SlotExclusive
  BY DEF PermitInv, SlotExclusive
<1> QED
  BY <1>1, <1>2, <1>3, TableInvariant, PTL DEF Spec

-----------------------------------------------------------------------------
(* The inductive invariant of the slabs.  own gives every allocated slab    *)
(* the slot it was allocated for.                                           *)

\* From here a thread has loaded slab_ptr, until the call has cleaned up.
Loaded == {"eager", "recheck", "fill", "number", "bytes", "publish", "cleanup"}
\* A thread may have an eager write it has not used.
Undetermined == {"recheck", "fill", "cleanup"}
\* A thread has its string in a slab and no symbol for it in to_bytes.
Stored == {"number", "bytes"}
\* A slab may have been linked behind the last one.
Linking == {"number", "bytes", "publish", "cleanup"}

\* A pointer to a used entry of a slab of slot i.
Entry(own, i, r) ==
  /\ r \in Thin
  /\ r[1] <= brk
  /\ own[r[1]] = i
  /\ r[2] <= slabs[r[1]].pos

\* The pointer a thread has written a string behind, and not put in to_bytes.
Holds(t, r) ==
  \/ pc[t] \in Undetermined /\ eager[t] = r
  \/ pc[t] \in Stored /\ thin[t] = r

\* What lies beyond brk is untouched; links go up, within one slot.
Links(own) ==
  \A p \in SlabIds :
    /\ p > brk => slabs[p] = EmptySlab
    /\ slabs[p].next # Null =>
         p < slabs[p].next /\ slabs[p].next <= brk /\ own[slabs[p].next] = own[p]

\* A slot has a first slab and a last slab of its own, or none.
Ends(own) ==
  \A i \in Slots :
    /\ start[i] = Null <=> last[i] = Null
    /\ start[i] # Null => start[i] <= brk /\ own[start[i]] = i
    /\ last[i] # Null => last[i] <= brk /\ own[last[i]] = i

\* Every allocated slab is the first of its slot or linked behind another.
Reached(own) ==
  \A p \in SlabIds : p <= brk =>
    start[own[p]] = p \/ \E q \in SlabIds : slabs[q].next = p

\* Only while a call of the slot's thread is under way may the last slab have
\* one behind it, and never two.
Tail(i) ==
  last[i] # Null /\ slabs[last[i]].next # Null =>
    /\ slabs[slabs[last[i]].next].next = Null
    /\ \E t \in Threads : slotOf[t] = i /\ pc[t] \in Linking

\* to_bytes gives the symbols of a slot entries of its slabs, each its own.
Pointers(own) ==
  /\ \A s \in Symbols : toBytes[s] # NoThin => Entry(own, s[1], toBytes[s]) /\ Used(s)
  /\ \A s, r \in Symbols : s # r /\ toBytes[s] = toBytes[r] => toBytes[s] = NoThin

\* Every used entry belongs to a symbol or to a call that is under way.
Covered ==
  \A p \in SlabIds, n \in 1 .. SlabCap : p <= brk /\ n <= slabs[p].pos =>
    \/ \E s \in Symbols : toBytes[s] = <<p, n>>
    \/ \E t \in Threads : Holds(t, <<p, n>>)

\* The eager write of a thread is the last entry of the slab it has loaded, and
\* the saved header is the one before.
EagerIsLast(t) ==
  /\ slabPtr[t] # Null
  /\ saved[t].pos < SlabCap
  /\ eager[t] = <<slabPtr[t], saved[t].pos + 1>>
  /\ slabs[slabPtr[t]].pos = saved[t].pos + 1
  /\ slabs[slabPtr[t]].next = saved[t].next
  /\ TextAt(eager[t]) = req[t]

Local(own, t) ==
  /\ pc[t] \in Loaded => slabPtr[t] = last[slotOf[t]]
  /\ pc[t] = "eager" =>
       slabPtr[t] # Null /\ saved[t] = Header(slabPtr[t]) /\ saved[t].pos < SlabCap
  /\ pc[t] \in Undetermined /\ eager[t] # NoThin => EagerIsLast(t)
  /\ pc[t] \notin Undetermined \cup {"done"} => eager[t] = NoThin
  /\ pc[t] \in Stored => Entry(own, slotOf[t], thin[t]) /\ TextAt(thin[t]) = req[t]
  /\ \A r \in Thin, s \in Symbols : Holds(t, r) => toBytes[s] # r
  /\ pc[t] \in Numbered => newSym[t] \in Symbols /\ newSym[t][1] = slotOf[t]
  /\ pc[t] = "bytes" => toBytes[newSym[t]] = NoThin
  /\ pc[t] = "publish" =>
       toBytes[newSym[t]] # NoThin /\ TextAt(toBytes[newSym[t]]) = req[t]

Owned(own) ==
  /\ Links(own)
  /\ Ends(own)
  /\ Reached(own)
  /\ \A i \in Slots : Tail(i)
  /\ Pointers(own)
  /\ Covered
  /\ \A t \in Threads : Local(own, t)

SlabInv ==
  /\ TypeOK
  /\ PublishedSymbolsResolve
  /\ \E own \in [SlabIds -> Slots] : Owned(own)

-----------------------------------------------------------------------------
(* What the other threads of a step keep *)

\* The part of the type invariant that TableInv does not have.
MemTyped ==
  /\ owner \in [Slots -> Threads \cup {NoThread}]
  /\ sessions \in [Threads -> Nat]
  /\ scan \in [Threads -> 0 .. NSlots]
  /\ start \in [Slots -> SlabPtr]
  /\ last \in [Slots -> SlabPtr]
  /\ slabs \in [SlabIds -> [next : SlabPtr, pos : 0 .. SlabCap,
                            cell : [1 .. SlabCap -> Keys \cup {NoKey}]]]
  /\ brk \in 0 .. MaxSlabs
  /\ toBytes \in [Symbols -> Thin \cup {NoThin}]
  /\ slabPtr \in [Threads -> SlabPtr]
  /\ eager \in [Threads -> Thin \cup {NoThin}]
  /\ saved \in [Threads -> [next : SlabPtr, pos : 0 .. SlabCap]]
  /\ thin \in [Threads -> Thin \cup {NoThin}]

LEMMA TypeParts == Typed /\ MemTyped => TypeOK
BY DEF Typed, MemTyped, TypeOK, Outside, Undecided, Critical, Decided

LEMMA TypeHasMem == TypeOK => MemTyped
BY DEF MemTyped, TypeOK

\* Two threads inside calls have slots, and not the same.
LEMMA SlotsApart ==
  ASSUME TableInv, NoSharedSlot, NEW t \in Threads, NEW u \in Threads,
         pc[t] \notin Outside, pc[u] \notin Outside
  PROVE  /\ slotOf[t] \in Slots /\ slotOf[u] \in Slots
         /\ t # u => slotOf[t] # slotOf[u]
BY DEF TableInv, Typed, Permitted, NoSharedSlot

\* The step leaves a thread's own variables alone.
Unmoved(u) ==
  /\ pc'[u] = pc[u] /\ slotOf'[u] = slotOf[u] /\ req'[u] = req[u]
  /\ slabPtr'[u] = slabPtr[u] /\ eager'[u] = eager[u] /\ saved'[u] = saved[u]
  /\ thin'[u] = thin[u] /\ newSym'[u] = newSym[u]

\* It leaves the slabs of slot i alone.
SlotKept(own, new, i) ==
  /\ last'[i] = last[i]
  /\ brk <= brk'
  /\ \A p \in SlabIds : p <= brk /\ own[p] = i => new[p] = i /\ slabs'[p] = slabs[p]

\* It puts neither thread u's symbol nor its pointer into to_bytes.
BytesKept(u) ==
  \A s \in Symbols : toBytes'[s] # toBytes[s] =>
    /\ pc[u] \in Numbered => s # newSym[u]
    /\ \A r \in Thin : Holds(u, r) => toBytes'[s] # r

LEMMA OthersLocal ==
  ASSUME NEW own \in [SlabIds -> Slots], NEW new \in [SlabIds -> Slots], NEW u \in Threads,
         MemTyped, MemTyped', Local(own, u), Ends(own), Pointers(own),
         pc[u] \notin Outside => slotOf[u] \in Slots,
         Unmoved(u), pc[u] \notin Outside => SlotKept(own, new, slotOf[u]), BytesKept(u)
  PROVE  Local(new, u)'
<1> DEFINE i == slotOf[u]
<1>1. ASSUME pc[u] \notin Outside, NEW r, Entry(own, i, r)
      PROVE  Entry(new, i, r)' /\ TextAt(r)' = TextAt(r)
  <2>1. r \in Thin /\ r[1] \in SlabIds /\ r[1] <= brk /\ own[r[1]] = i /\ r[2] <= slabs[r[1]].pos
    BY <1>1 DEF Entry, Thin
  <2>2. new[r[1]] = i /\ slabs'[r[1]] = slabs[r[1]] /\ brk <= brk'
    BY <1>1, <2>1 DEF SlotKept
  <2>3. r[1] <= brk'
    BY <2>1, <2>2 DEF MemTyped, SlabIds
  <2>4. slotOf'[u] = i
    BY DEF Unmoved
  <2> QED
    BY <2>1, <2>2, <2>3, <2>4 DEF Entry, TextAt
<1>2. ASSUME pc[u] \in Loaded PROVE slabPtr'[u] = last'[slotOf'[u]]
  BY <1>2 DEF Loaded, Outside, Local, Unmoved, SlotKept
<1>3. ASSUME pc[u] \in Loaded, slabPtr[u] # Null
      PROVE  slabPtr[u] \in SlabIds /\ slabs'[slabPtr[u]] = slabs[slabPtr[u]]
  <2>1. i \in Slots /\ SlotKept(own, new, i) /\ slabPtr[u] = last[i]
    BY <1>3 DEF Loaded, Outside, Local
  <2>2. last[i] \in SlabIds /\ last[i] <= brk /\ own[last[i]] = i
    BY <1>3, <2>1 DEF Ends, MemTyped, SlabPtr
  <2> QED
    BY <2>1, <2>2 DEF SlotKept
<1>4. pc'[u] = "eager" =>
        slabPtr'[u] # Null /\ saved'[u] = Header(slabPtr[u])' /\ saved'[u].pos < SlabCap
  BY <1>3 DEF Loaded, Local, Unmoved, Header
<1>5. pc'[u] \in Undetermined /\ eager'[u] # NoThin => EagerIsLast(u)'
  <2> SUFFICES ASSUME pc[u] \in Undetermined, eager[u] # NoThin PROVE EagerIsLast(u)'
    BY DEF Unmoved
  <2>1. EagerIsLast(u) /\ pc[u] \in Loaded
    BY DEF Local, Undetermined, Loaded
  <2>2. slabs'[slabPtr[u]] = slabs[slabPtr[u]]
    BY <1>3, <2>1 DEF EagerIsLast
  <2>3. TextAt(eager[u])' = TextAt(eager[u])
    BY <2>1, <2>2 DEF EagerIsLast, TextAt, Unmoved
  <2> QED
    BY <2>1, <2>2, <2>3 DEF EagerIsLast, Unmoved, TextAt
<1>6. pc'[u] \notin Undetermined \cup {"done"} => eager'[u] = NoThin
  BY DEF Local, Unmoved
<1>7. pc'[u] \in Stored => Entry(new, slotOf[u], thin[u])' /\ TextAt(thin[u])' = req'[u]
  <2> SUFFICES ASSUME pc[u] \in Stored
               PROVE  Entry(new, slotOf[u], thin[u])' /\ TextAt(thin[u])' = req'[u]
    BY DEF Unmoved
  <2>1. PICK r : r = thin[u]
    OBVIOUS
  <2>2. Entry(own, i, r) /\ TextAt(r) = req[u] /\ pc[u] \notin Outside
    BY <2>1 DEF Local, Stored, Outside
  <2>3. Entry(new, i, r)' /\ TextAt(r)' = TextAt(r)
    BY <1>1, <2>2
  <2> QED
    BY <2>1, <2>2, <2>3 DEF Unmoved, Entry, TextAt
<1>8. \A r \in Thin, s \in Symbols : Holds(u, r)' => toBytes'[s] # r
  BY DEF Local, Holds, Unmoved, BytesKept
<1>9. pc'[u] \in Numbered => newSym'[u] \in Symbols /\ newSym'[u][1] = slotOf'[u]
  BY DEF Local, Unmoved
<1>10. pc[u] \in Numbered => toBytes'[newSym[u]] = toBytes[newSym[u]]
  BY DEF Local, BytesKept
<1>11. pc'[u] = "bytes" => toBytes'[newSym'[u]] = NoThin
  BY <1>10 DEF Local, Unmoved, Numbered
<1>12. pc'[u] = "publish" =>
         toBytes'[newSym'[u]] # NoThin /\ TextAt(toBytes[newSym[u]])' = req'[u]
  <2> SUFFICES ASSUME pc[u] = "publish"
               PROVE  toBytes'[newSym'[u]] # NoThin /\ TextAt(toBytes[newSym[u]])' = req'[u]
    BY DEF Unmoved
  <2> DEFINE r == toBytes[newSym[u]]
  <2>1. newSym[u] \in Symbols /\ newSym[u][1] = i /\ r # NoThin /\ TextAt(r) = req[u]
    BY DEF Local, Numbered
  <2>2. Entry(own, i, r)
    BY <2>1 DEF Pointers
  <2>3. toBytes'[newSym'[u]] = r
    BY <1>10 DEF Numbered, Unmoved
  <2>4. slabs'[r[1]] = slabs[r[1]]
    BY <2>2 DEF Entry, Outside, SlotKept, Thin
  <2> QED
    BY <2>1, <2>3, <2>4 DEF TextAt, Unmoved
<1> QED
  BY <1>2, <1>4, <1>5, <1>6, <1>7, <1>8, <1>9, <1>11, <1>12 DEF Local, Unmoved

-----------------------------------------------------------------------------
(* Steps that change neither the slabs nor to_bytes *)

Quiet(t) ==
  Permits(t) \/ Edges(t) \/ Prepare(t) \/ UseEager(t) \/ Number(t) \/ Publish(t)

LEMMA QuietFrame ==
  ASSUME TableInv, MemTyped, NEW t \in Threads, Quiet(t)
  PROVE  /\ UNCHANGED <<start, last, slabs, brk, toBytes>>
         /\ \A u \in Threads : u # t => Unmoved(u)
         /\ pc[t] \in Linking => pc'[t] \in Linking /\ slotOf'[t] = slotOf[t]
         /\ \A r \in Thin : Holds(t, r) => Holds(t, r)'
<1> USE DEF Outside, Undecided, Critical, Decided, Linking, Undetermined, Stored, TableInv,
            Typed, MemTyped, Goto, Holds, Unmoved
<1>1. CASE Permits(t)
  BY <1>1 DEF Permits, Reacquire, StartScan, Claim, Pass, GiveUp, Drop, memory, tables,
              locals, call, permits
<1>2. CASE Edges(t)
  <2>1. CASE (\E k \in Keys : Begin(t, k)) \/ Look(t) \/ Recheck(t)
    BY <2>1 DEF Begin, Look, Recheck, memory, tables, locals, permits
  <2>2. CASE Return(t)
    BY <2>2 DEF Return, memory, tables, permits
  <2> QED
    BY <1>2, <2>1, <2>2 DEF Edges
<1>3. CASE Prepare(t)
  BY <1>3 DEF Prepare, memory, tables, call, permits
<1>4. CASE UseEager(t)
  BY <1>4 DEF UseEager, memory, tables, call, permits
<1>5. CASE Number(t)
  BY <1>5 DEF Number, tables, call, permits
<1>6. CASE Publish(t)
  BY <1>6 DEF Publish, memory, locals, permits
<1> QED
  BY <1>1, <1>2, <1>3, <1>4, <1>5, <1>6 DEF Quiet

LEMMA QuietTyped ==
  ASSUME TableInv, MemTyped, NEW own, Ends(own), NEW t \in Threads, Quiet(t)
  PROVE  MemTyped'
<1> USE DEF MemTyped
<1>1. UNCHANGED <<start, last, slabs, brk, toBytes>>
  BY QuietFrame
<1>2. CASE Permits(t)
  <2>1. UNCHANGED locals
    BY <1>2 DEF Permits, Reacquire, StartScan, Claim, Pass, GiveUp, Drop, permits
  <2>2. scan' \in [Threads -> 0 .. NSlots]
    <3>1. CASE Pass(t)
      <4>0. scan[t] \in 0 .. NSlots - 1 /\ NSlots \in Nat
        BY <3>1, ConstantsAssumption DEF Pass, Slots
      <4>1. scan[t] + 1 \in 0 .. NSlots
        BY <4>0
      <4> QED
        BY <3>1, <4>1 DEF Pass
    <3>2. CASE StartScan(t)
      BY <3>2, ConstantsAssumption DEF StartScan
    <3> QED
      BY <1>2, <3>1, <3>2 DEF Permits, Reacquire, Claim, GiveUp, Drop, permits
  <2>3. owner' \in [Slots -> Threads \cup {NoThread}]
    BY <1>2 DEF Permits, Reacquire, StartScan, Claim, Pass, GiveUp, Drop, permits
  <2>4. sessions' \in [Threads -> Nat]
    <3>1. CASE Reacquire(t) \/ Claim(t)
      <4>1. TakePermit(t) /\ sessions[t] \in Nat
        BY <3>1 DEF Reacquire, Claim
      <4>2. sessions[t] + 1 \in Nat
        BY <4>1
      <4> QED
        BY <4>1, <4>2 DEF TakePermit
    <3> QED
      BY <1>2, <3>1 DEF Permits, StartScan, Pass, GiveUp, Drop, permits
  <2> QED
    BY <1>1, <2>1, <2>2, <2>3, <2>4 DEF locals
<1>3. CASE Edges(t)
  <2>1. NoThin \in Thin \cup {NoThin} /\ EmptyHeader \in [next : SlabPtr, pos : 0 .. SlabCap]
        /\ Null \in SlabPtr
    BY ConstantsAssumption DEF EmptyHeader, SlabPtr
  <2>2. CASE Return(t)
    BY <1>1, <2>1, <2>2 DEF Return, permits
  <2> QED
    BY <1>1, <1>3, <2>2 DEF Edges, Begin, Look, Recheck, locals, permits
<1>4. CASE Prepare(t)
  <2>1. slotOf[t] \in Slots
    BY <1>4 DEF TableInv, Typed, Permitted, Prepare, Goto, Outside
  <2>2. last[slotOf[t]] \in SlabPtr
    BY <2>1
  <2>3. EmptyHeader \in [next : SlabPtr, pos : 0 .. SlabCap]
    BY ConstantsAssumption DEF EmptyHeader, SlabPtr
  <2>4. saved'[t] \in [next : SlabPtr, pos : 0 .. SlabCap]
    <3>1. CASE start[slotOf[t]] # Null /\ HasRoom(last[slotOf[t]])
      <4>1. last[slotOf[t]] \in SlabIds
        BY <2>1, <2>2, <3>1 DEF Ends, SlabPtr
      <4> QED
        BY <1>4, <3>1, <4>1 DEF Prepare, Header
    <3>2. CASE ~(start[slotOf[t]] # Null /\ HasRoom(last[slotOf[t]]))
      BY <1>4, <2>3, <3>2 DEF Prepare
    <3> QED
      BY <3>1, <3>2
  <2> QED
    BY <1>1, <1>4, <2>2, <2>4 DEF Prepare, permits
<1>5. CASE UseEager(t) \/ Number(t) \/ Publish(t)
  BY <1>1, <1>5 DEF UseEager, Number, Publish, permits, locals
<1> QED
  BY <1>2, <1>3, <1>4, <1>5 DEF Quiet

\* The thread that makes the step: where the call starts, ends or looks.
LEMMA QuietLocal ==
  ASSUME TableInv, MemTyped, NEW own \in [SlabIds -> Slots], Owned(own),
         NEW t \in Threads, Quiet(t)
  PROVE  Local(own, t)'
<1> USE DEF Outside, Undecided, Critical, Decided, Loaded, Undetermined, Stored, Numbered,
            Goto
<1>1. UNCHANGED <<start, last, slabs, brk, toBytes>>
  BY QuietFrame
<1>2. Local(own, t) /\ pc \in [Threads -> Outside \cup Undecided \cup Critical \cup Decided]
  BY DEF Owned, TableInv, Typed
<1>3. CASE Permits(t)
  <2>1. pc'[t] \in Outside /\ pc[t] \in Outside /\ UNCHANGED locals
    BY <1>2, <1>3 DEF Permits, Reacquire, StartScan, Claim, Pass, GiveUp, Drop, permits
  <2> QED
    BY <1>2, <2>1 DEF Local, Holds, locals
<1>4. CASE (\E k \in Keys : Begin(t, k)) \/ Look(t)
  <2>1. /\ pc[t] \in {"idle", "look"} /\ pc'[t] \in {"look", "prepare", "done"}
        /\ UNCHANGED locals
    BY <1>2, <1>4 DEF Begin, Look
  <2> QED
    BY <1>2, <2>1 DEF Local, Holds, locals
<1>5. CASE Return(t)
  <2>1. pc'[t] = "idle" /\ eager'[t] = NoThin
    BY <1>2, <1>5 DEF Return, MemTyped
  <2> QED
    BY <2>1 DEF Local, Holds
<1>6. CASE Prepare(t)
  <2>1. /\ pc[t] = "prepare" /\ pc'[t] \in {"eager", "recheck"} /\ eager'[t] = NoThin
        /\ slotOf'[t] = slotOf[t] /\ slabPtr'[t] = last[slotOf[t]]
    BY <1>2, <1>6 DEF Prepare, Local, permits, MemTyped
  <2>2. slotOf[t] \in Slots
    BY <1>6 DEF Prepare, TableInv, Typed, Permitted
  <2>3. CASE pc'[t] = "eager"
    <3>1. /\ start[slotOf[t]] # Null /\ HasRoom(last[slotOf[t]])
          /\ saved'[t] = Header(last[slotOf[t]])
      BY <1>2, <1>6, <2>3 DEF Prepare, MemTyped
    <3>2. slabPtr'[t] # Null /\ saved'[t] = Header(slabPtr[t])'
      BY <1>1, <2>1, <2>2, <3>1 DEF Owned, Ends, Header
    <3>3. saved'[t].pos < SlabCap
      BY <3>1 DEF HasRoom, Header
    <3> QED
      BY <1>1, <2>1, <2>3, <3>2, <3>3 DEF Local, Holds
  <2>4. CASE pc'[t] = "recheck"
    <3>1. \A r \in Thin : ~Holds(t, r)'
      BY <2>1, <2>4, ConstantsAssumption DEF Holds, Thin, NoThin, SlabIds
    <3> QED
      BY <1>1, <2>1, <2>4, <3>1 DEF Local
  <2> QED
    BY <2>1, <2>3, <2>4
<1>7. CASE Recheck(t)
  <2>1. /\ pc[t] = "recheck" /\ pc'[t] \in {"fill", "cleanup"} /\ UNCHANGED <<locals, req, slotOf>>
    BY <1>2, <1>7 DEF Recheck, permits
  <2>2. EagerIsLast(t) => EagerIsLast(t)'
    BY <1>1, <2>1 DEF EagerIsLast, TextAt, locals
  <2> QED
    BY <1>1, <1>2, <2>1, <2>2 DEF Local, Holds, locals
<1>8. CASE UseEager(t)
  <2>1. /\ pc[t] = "fill" /\ pc'[t] = "number" /\ eager[t] # NoThin /\ eager'[t] = NoThin
        /\ thin'[t] = eager[t] /\ UNCHANGED <<slabPtr, req, slotOf>>
    BY <1>2, <1>8 DEF UseEager, MemTyped, permits, call
  <2>2. EagerIsLast(t) /\ slabPtr[t] = last[slotOf[t]] /\ slotOf[t] \in Slots
    BY <1>2, <2>1 DEF Local, TableInv, Typed, Permitted
  <2>3. Entry(own, slotOf[t], eager[t])
    <3>1. slabPtr[t] \in SlabIds /\ slabPtr[t] <= brk /\ own[slabPtr[t]] = slotOf[t]
      BY <2>2 DEF EagerIsLast, Owned, Ends, MemTyped, SlabPtr
    <3>2. saved[t].pos + 1 \in 1 .. SlabCap
      BY <2>2, ConstantsAssumption DEF EagerIsLast, MemTyped
    <3>3. eager[t] \in Thin /\ eager[t][1] = slabPtr[t] /\ eager[t][2] = slabs[slabPtr[t]].pos
      BY <2>2, <3>1, <3>2 DEF EagerIsLast, Thin
    <3> QED
      BY <3>1, <3>2, <3>3, <2>2 DEF Entry, EagerIsLast
  <2>4. Entry(own, slotOf[t], thin[t])' /\ TextAt(thin[t])' = req'[t]
    BY <1>1, <2>1, <2>2, <2>3 DEF Entry, TextAt, EagerIsLast
  <2>5. \A r \in Thin, s \in Symbols : Holds(t, r)' => toBytes'[s] # r
    BY <1>1, <1>2, <2>1 DEF Local, Holds
  <2> QED
    BY <1>1, <2>1, <2>2, <2>4, <2>5 DEF Local
<1>9. CASE Number(t)
  <2>1. /\ pc[t] = "number" /\ pc'[t] = "bytes" /\ newSym'[t] = <<slotOf[t], nextSym[slotOf[t]]>>
        /\ UNCHANGED <<slabPtr, eager, thin, req, slotOf>> /\ slotOf[t] \in Slots
        /\ nextSym[slotOf[t]] \in Ids
    BY <1>2, <1>9, ConstantsAssumption
       DEF Number, permits, call, TableInv, Typed, Permitted, Ids
  <2>2. newSym'[t] \in Symbols /\ newSym'[t][1] = slotOf[t]
    BY <2>1 DEF Symbols
  <2>3. ~Used(<<slotOf[t], nextSym[slotOf[t]]>>)
    BY <2>1, ConstantsAssumption DEF Used, Ids
  <2>4. toBytes[newSym'[t]] = NoThin
    BY <2>1, <2>2, <2>3 DEF Owned, Pointers
  <2>5. Entry(own, slotOf[t], thin[t])' /\ TextAt(thin[t])' = req'[t]
    BY <1>1, <1>2, <2>1 DEF Local, Entry, TextAt
  <2> QED
    BY <1>1, <1>2, <2>1, <2>2, <2>4, <2>5 DEF Local, Holds
<1>10. CASE Publish(t)
  <2>1. pc[t] = "publish" /\ pc'[t] = "cleanup" /\ UNCHANGED <<locals, req, slotOf>>
    BY <1>2, <1>10 DEF Publish, permits
  <2>2. eager'[t] = NoThin /\ slabPtr'[t] = last[slotOf[t]]
    BY <1>2, <2>1 DEF Local, locals
  <2>3. \A r \in Thin : ~Holds(t, r)'
    BY <2>1, <2>2, ConstantsAssumption DEF Holds, Thin, NoThin, SlabIds
  <2> QED
    BY <1>1, <2>1, <2>2, <2>3 DEF Local
<1> QED
  BY <1>3, <1>4, <1>5, <1>6, <1>7, <1>8, <1>9, <1>10 DEF Quiet, Edges

\* The entries of to_bytes stay, and so does what they point to.
Stable ==
  \A s \in Symbols : toBytes[s] # NoThin =>
    toBytes'[s] = toBytes[s] /\ TextAt(toBytes[s])' = TextAt(toBytes[s])

LEMMA QuietInv ==
  ASSUME TableInv, TableInv', MemTyped, NEW own \in [SlabIds -> Slots], Owned(own),
         NEW t \in Threads, Quiet(t)
  PROVE  MemTyped' /\ Owned(own)' /\ Stable
<1>1. /\ UNCHANGED <<start, last, slabs, brk, toBytes>>
      /\ \A u \in Threads : u # t => Unmoved(u)
      /\ pc[t] \in Linking => pc'[t] \in Linking /\ slotOf'[t] = slotOf[t]
      /\ \A r \in Thin : Holds(t, r) => Holds(t, r)'
  BY QuietFrame
<1>2. MemTyped'
  BY QuietTyped DEF Owned
<1>3. Links(own)' /\ Ends(own)' /\ Reached(own)'
  BY <1>1 DEF Owned, Links, Ends, Reached
<1>4. \A i \in Slots : Tail(i)'
  <2>1. \A u \in Threads : pc[u] \in Linking => pc'[u] \in Linking /\ slotOf'[u] = slotOf[u]
    BY <1>1 DEF Unmoved
  <2> QED
    BY <1>1, <2>1 DEF Owned, Tail
<1>5. Pointers(own)'
  <2>1. \A s \in Symbols : Used(s) => Used(s)'
    <3>1. CASE Number(t)
      <4>1. slotOf[t] \in Slots
        BY <3>1 DEF TableInv, Typed, Permitted, Number, Goto, Outside
      <4>2. \A i \in Slots : nextSym[i] \in Nat /\ nextSym'[i] \in Nat /\ nextSym[i] <= nextSym'[i]
        BY <3>1, <4>1 DEF TableInv, Typed, Number
      <4> QED
        BY <4>2, ConstantsAssumption DEF Used, Symbols, Ids
    <3>2. CASE ~Number(t)
      <4>1. UNCHANGED nextSym
        BY <3>2 DEF Quiet, Permits, Reacquire, StartScan, Claim, Pass, GiveUp, Drop, Edges,
           Begin, Look, Recheck, Return, Prepare, UseEager, Publish, memory
      <4> QED
        BY <4>1 DEF Used
    <3> QED
      BY <3>1, <3>2
  <2> QED
    BY <1>1, <2>1 DEF Owned, Pointers, Entry
<1>6. Covered'
  <2>1. \A u \in Threads, r \in Thin : Holds(u, r) => Holds(u, r)'
    BY <1>1 DEF Holds, Unmoved
  <2>2. \A p \in SlabIds, n \in 1 .. SlabCap : <<p, n>> \in Thin
    BY DEF Thin
  <2> QED
    BY <1>1, <2>1, <2>2 DEF Owned, Covered
<1>7. ASSUME NEW u \in Threads, u # t PROVE Local(own, u)'
  <2>1. Unmoved(u)
    BY <1>1, <1>7
  <2>2. SlotKept(own, own, slotOf[u]) /\ BytesKept(u)
    BY <1>1 DEF SlotKept, BytesKept, MemTyped
  <2>3. pc[u] \notin Outside => slotOf[u] \in Slots
    BY DEF TableInv, Typed, Permitted
  <2> QED
    BY <1>2, <2>1, <2>2, <2>3, OthersLocal DEF Owned
<1>8. Local(own, t)'
  BY QuietLocal
<1>9. Stable
  BY <1>1 DEF Stable, TextAt
<1> QED
  BY <1>2, <1>3, <1>4, <1>5, <1>6, <1>7, <1>8, <1>9 DEF Owned

\* A published symbol still resolves after a step that leaves the entries of
\* to_bytes and what they point to alone.
LEMMA ResolveStep ==
  ASSUME TableInv, NEW own, Owned(own), NEW t \in Threads, Step(t), Stable,
         PublishedSymbolsResolve
  PROVE  PublishedSymbolsResolve'
<1>1. \A k \in Keys : Lookup(k) # NoSym => Lookup(k) \in Symbols
  BY DEF TableInv, Used
<1>2. CASE Publish(t)
  <2>1. /\ newSym[t] \in Symbols
        /\ \A k \in Keys : Lookup(k)' = IF k = req[t] THEN newSym[t] ELSE Lookup(k)
    BY <1>2, PublishInv
  <2>2. toBytes[newSym[t]] # NoThin /\ TextAt(toBytes[newSym[t]]) = req[t]
    BY <1>2 DEF Owned, Local, Publish, Goto
  <2> SUFFICES ASSUME NEW k \in Keys, NEW s, s = Lookup(k)', s # NoSym
               PROVE  toBytes'[s] # NoThin /\ TextAt(toBytes[s])' = k
    BY DEF PublishedSymbolsResolve
  <2>3. s \in Symbols /\ toBytes[s] # NoThin /\ TextAt(toBytes[s]) = k
    BY <1>1, <2>1, <2>2 DEF PublishedSymbolsResolve
  <2> QED
    BY <2>3 DEF Stable
<1>3. CASE ~Publish(t)
  <2>1. \A k \in Keys : Lookup(k)' = Lookup(k)
    <3>1. UNCHANGED toSymbol
      BY <1>3, StepKinds, PrivateMoves DEF TableInv, Moves, Permits, Reacquire, StartScan,
         Claim, Pass, GiveUp, Drop, Edges, Begin, Look, Recheck, Return, Number, tables
    <3> QED
      BY <3>1 DEF Lookup
  <2> SUFFICES ASSUME NEW k \in Keys, NEW s, s = Lookup(k)', s # NoSym
               PROVE  toBytes'[s] # NoThin /\ TextAt(toBytes[s])' = k
    BY DEF PublishedSymbolsResolve
  <2>2. s \in Symbols /\ toBytes[s] # NoThin /\ TextAt(toBytes[s]) = k
    BY <1>1, <2>1 DEF PublishedSymbolsResolve
  <2> QED
    BY <2>2 DEF Stable
<1> QED
  BY <1>2, <1>3

-----------------------------------------------------------------------------
(* Steps that write a string into a slab *)

\* The thread's step adds the used entry r and keeps the others.
Adds(own, new, t, r) ==
  /\ UNCHANGED <<toBytes, nextSym>>
  /\ eager[t] = NoThin /\ pc[t] \in {"eager", "fill"} /\ Holds(t, r)'
  /\ \A u \in Threads : u # t => Unmoved(u)
  /\ brk <= brk'
  /\ \A q \in SlabIds : q <= brk =>
       /\ new[q] = own[q]
       /\ slabs[q].pos <= slabs'[q].pos
       /\ \A n \in 1 .. SlabCap : n <= slabs[q].pos => slabs'[q].cell[n] = slabs[q].cell[n]
  /\ \A q \in SlabIds, n \in 1 .. SlabCap : q <= brk' /\ n <= slabs'[q].pos =>
       <<q, n>> = r \/ (q <= brk /\ n <= slabs[q].pos)
  /\ \A i \in Slots : i # slotOf[t] => SlotKept(own, new, i)

LEMMA AddsInv ==
  ASSUME TableInv, NoSharedSlot, MemTyped, MemTyped',
         NEW own \in [SlabIds -> Slots], NEW new \in [SlabIds -> Slots], Owned(own),
         NEW t \in Threads, NEW r, Adds(own, new, t, r)
  PROVE  Pointers(new)' /\ Covered' /\ Stable /\ \A u \in Threads : u # t => Local(new, u)'
<1>1. ASSUME NEW i, NEW e, Entry(own, i, e)
      PROVE  Entry(new, i, e)' /\ TextAt(e)' = TextAt(e)
  <2>1. e \in Thin /\ e[1] \in SlabIds /\ e[2] \in 1 .. SlabCap
    BY <1>1 DEF Entry, Thin
  <2>2. /\ new[e[1]] = own[e[1]] /\ slabs[e[1]].pos <= slabs'[e[1]].pos
        /\ slabs'[e[1]].cell[e[2]] = slabs[e[1]].cell[e[2]]
    BY <1>1, <2>1 DEF Adds, Entry
  <2>3. e[1] <= brk'
    BY <1>1, <2>1 DEF Adds, Entry, MemTyped, SlabIds
  <2>4. e[2] <= slabs'[e[1]].pos
    <3>1. slabs[e[1]].pos \in 0 .. SlabCap /\ slabs'[e[1]].pos \in 0 .. SlabCap
      BY <2>1 DEF MemTyped
    <3>2. e[2] <= slabs[e[1]].pos
      BY <1>1 DEF Entry
    <3> QED
      BY <2>1, <2>2, <3>1, <3>2, ConstantsAssumption
  <2> QED
    BY <1>1, <2>1, <2>2, <2>3, <2>4 DEF Entry, TextAt
<1>2. Pointers(new)' /\ Stable
  <2>1. UNCHANGED <<toBytes, nextSym>>
    BY DEF Adds
  <2>2. ASSUME NEW s \in Symbols, toBytes[s] # NoThin
        PROVE  /\ Entry(new, s[1], toBytes[s])' /\ Used(s)'
               /\ TextAt(toBytes[s])' = TextAt(toBytes[s])
    <3>1. PICK e : e = toBytes[s]
      OBVIOUS
    <3>2. Entry(own, s[1], e) /\ Used(s)
      BY <2>2, <3>1 DEF Owned, Pointers
    <3>3. Entry(new, s[1], e)' /\ TextAt(e)' = TextAt(e)
      BY <1>1, <3>2
    <3> QED
      BY <2>1, <3>1, <3>2, <3>3 DEF Entry, TextAt, Used
  <2> QED
    BY <2>1, <2>2 DEF Owned, Pointers, Stable
<1>3. Covered'
  <2> SUFFICES ASSUME NEW q \in SlabIds, NEW n \in 1 .. SlabCap, q <= brk', n <= slabs'[q].pos
               PROVE  \/ \E s \in Symbols : toBytes'[s] = <<q, n>>
                      \/ \E u \in Threads : Holds(u, <<q, n>>)'
    BY DEF Covered
  <2>1. CASE <<q, n>> = r
    BY <2>1 DEF Adds
  <2>2. CASE <<q, n>> # r
    <3>1. q <= brk /\ n <= slabs[q].pos
      BY <2>2 DEF Adds
    <3>2. CASE \E s \in Symbols : toBytes[s] = <<q, n>>
      BY <3>2 DEF Adds
    <3>3. ASSUME NEW u \in Threads, Holds(u, <<q, n>>) PROVE Holds(u, <<q, n>>)'
      <4>1. u # t
        BY <3>3, ConstantsAssumption DEF Adds, Holds, Undetermined, Stored, NoThin, SlabIds
      <4> QED
        BY <3>3, <4>1 DEF Adds, Holds, Unmoved
    <3> QED
      BY <3>1, <3>2, <3>3 DEF Owned, Covered
  <2> QED
    BY <2>1, <2>2
<1>4. ASSUME NEW u \in Threads, u # t PROVE Local(new, u)'
  <2>1. pc[t] \notin Outside
    BY DEF Adds, Outside
  <2>2. pc[u] \notin Outside => slotOf[u] \in Slots /\ SlotKept(own, new, slotOf[u])
    BY <1>4, <2>1, SlotsApart DEF Adds
  <2>3. Unmoved(u) /\ BytesKept(u)
    BY <1>4 DEF Adds, BytesKept
  <2> QED
    BY <2>2, <2>3, OthersLocal DEF Owned
<1> QED
  BY <1>2, <1>3, <1>4

\* The thread has loaded a slab of its own slot with room.
LEMMA LoadedSlab ==
  ASSUME TableInv, MemTyped, NEW own \in [SlabIds -> Slots], Owned(own), NEW t \in Threads,
         pc[t] \in Loaded, slabPtr[t] # Null
  PROVE  /\ slotOf[t] \in Slots /\ slabPtr[t] = last[slotOf[t]]
         /\ slabPtr[t] \in SlabIds /\ slabPtr[t] <= brk /\ own[slabPtr[t]] = slotOf[t]
<1>1. slotOf[t] \in Slots
  BY DEF TableInv, Typed, Permitted, Loaded, Outside
<1>2. slabPtr[t] = last[slotOf[t]]
  BY DEF Owned, Local
<1> QED
  BY <1>1, <1>2 DEF Owned, Ends, MemTyped, SlabPtr

\* A string put behind the last entry of a slab of the thread's slot.
Appends(t, p, i) ==
  /\ slabs'[p].next = slabs[p].next /\ slabs'[p].pos = i
  /\ slabs'[p].cell = [slabs[p].cell EXCEPT ![i] = req[t]]
  /\ \A q \in SlabIds : q # p => slabs'[q] = slabs[q]
  /\ UNCHANGED <<start, last, brk, toBytes, nextSym>>
  /\ eager[t] = NoThin /\ pc[t] \in {"eager", "fill"} /\ Holds(t, <<p, i>>)'
  /\ pc'[t] \in Undetermined \cup Stored /\ slotOf'[t] = slotOf[t]
  /\ \A u \in Threads : u # t => Unmoved(u)

LEMMA AppendsInv ==
  ASSUME TableInv, NoSharedSlot, MemTyped, MemTyped',
         NEW own \in [SlabIds -> Slots], Owned(own), NEW t \in Threads,
         NEW p \in SlabIds, NEW i \in 1 .. SlabCap, p = slabPtr[t], i = slabs[p].pos + 1,
         Appends(t, p, i)
  PROVE  /\ Links(own)' /\ Ends(own)' /\ Reached(own)' /\ \A j \in Slots : Tail(j)'
         /\ Pointers(own)' /\ Covered' /\ Stable
         /\ \A u \in Threads : u # t => Local(own, u)'
         /\ Entry(own, slotOf[t], <<p, i>>)' /\ TextAt(<<p, i>>)' = req[t]
         /\ \A s \in Symbols : toBytes'[s] # <<p, i>>
<1>1. p <= brk /\ own[p] = slotOf[t] /\ slotOf[t] \in Slots
  <2>1. pc[t] \in Loaded /\ slabPtr[t] # Null
    BY ConstantsAssumption DEF Appends, Loaded, SlabIds, Null
  <2> QED
    BY <2>1, LoadedSlab
<1>2. /\ \A q \in SlabIds : slabs'[q].next = slabs[q].next
      /\ \A q \in SlabIds : q # p => slabs'[q] = slabs[q]
      /\ slabs'[p].pos = i
      /\ slabs'[p].cell = [slabs[p].cell EXCEPT ![i] = req[t]]
  BY DEF Appends
<1>3. UNCHANGED <<start, last, brk, toBytes, nextSym>>
  BY DEF Appends
<1>4. slabs[p].pos \in 0 .. SlabCap /\ slabs[p].pos < i
  <2>1. slabs[p].pos \in 0 .. SlabCap
    BY DEF MemTyped
  <2>2. slabs[p].pos \in Nat
    BY <2>1, ConstantsAssumption
  <2> QED
    BY <2>1, <2>2
<1>5. Links(own)'
  <2>0. brk \in Nat /\ p \in Nat
    BY ConstantsAssumption DEF MemTyped, SlabIds
  <2>1. \A q \in SlabIds : q > brk => q # p
    BY <1>1, <2>0
  <2> QED
    BY <1>2, <1>3, <2>1 DEF Owned, Links
<1>6. Ends(own)' /\ Reached(own)'
  BY <1>2, <1>3 DEF Owned, Ends, Reached
<1>7. \A j \in Slots : Tail(j)'
  <2> SUFFICES ASSUME NEW j \in Slots PROVE Tail(j)'
    OBVIOUS
  <2>1. last[j] # Null => last[j] \in SlabIds /\ slabs[last[j]].next \in SlabPtr
    BY DEF MemTyped, SlabPtr
  <2>2. \A u \in Threads : pc[u] \in Linking /\ slotOf[u] = j => pc'[u] \in Linking /\ slotOf'[u] = j
    BY DEF Appends, Unmoved, Linking
  <2>3. Tail(j)
    BY DEF Owned
  <2>4. \A q \in SlabPtr : q # Null => slabs'[q].next = slabs[q].next
    BY <1>2 DEF SlabPtr
  <2> QED
    BY <1>3, <2>1, <2>2, <2>3, <2>4 DEF Tail, SlabPtr
<1>8. Adds(own, own, t, <<p, i>>)
  <2>1. brk <= brk'
    BY <1>3 DEF MemTyped
  <2>2. ASSUME NEW q \in SlabIds
        PROVE  /\ slabs[q].pos <= slabs'[q].pos
               /\ \A n \in 1 .. SlabCap : n <= slabs[q].pos => slabs'[q].cell[n] = slabs[q].cell[n]
    <3>1. slabs[q].pos \in 0 .. SlabCap /\ slabs[q].cell \in [1 .. SlabCap -> Keys \cup {NoKey}]
      BY DEF MemTyped
    <3>2. CASE q = p
      <4>1. slabs[q].pos <= slabs'[q].pos
        BY <1>2, <1>4, <3>1, <3>2, ConstantsAssumption
      <4>2. \A n \in 1 .. SlabCap : n <= slabs[q].pos => n # i
        BY <1>4, <3>1, <3>2, ConstantsAssumption
      <4> QED
        BY <1>2, <3>1, <3>2, <4>1, <4>2
    <3>3. CASE q # p
      BY <1>2, <3>1, <3>3, ConstantsAssumption
    <3> QED
      BY <3>2, <3>3
  <2>3. ASSUME NEW q \in SlabIds, NEW n \in 1 .. SlabCap, q <= brk', n <= slabs'[q].pos
        PROVE  <<q, n>> = <<p, i>> \/ (q <= brk /\ n <= slabs[q].pos)
    <3>1. CASE q = p
      <4>1. n <= i /\ n # i => n <= slabs[p].pos
        BY <1>4, ConstantsAssumption
      <4>2. n <= i
        BY <1>2, <2>3, <3>1
      <4>3. CASE n = i
        BY <3>1, <4>3
      <4>4. CASE n # i
        BY <1>1, <3>1, <4>1, <4>2, <4>4
      <4> QED
        BY <4>3, <4>4
    <3>2. CASE q # p
      BY <1>2, <1>3, <2>3, <3>2
    <3> QED
      BY <3>1, <3>2
  <2>4. \A j \in Slots : j # slotOf[t] => SlotKept(own, own, j)
    BY <1>1, <1>2, <1>3, <2>1 DEF SlotKept
  <2> QED
    BY <1>3, <2>1, <2>2, <2>3, <2>4 DEF Appends, Adds
<1>9. Pointers(own)' /\ Covered' /\ Stable /\ \A u \in Threads : u # t => Local(own, u)'
  BY <1>8, AddsInv
<1>10. Entry(own, slotOf[t], <<p, i>>)' /\ TextAt(<<p, i>>)' = req[t]
  <2>1. <<p, i>> \in Thin
    BY DEF Thin
  <2>2. i <= i
    BY ConstantsAssumption
  <2>0. slabs[p].cell \in [1 .. SlabCap -> Keys \cup {NoKey}]
    BY DEF MemTyped
  <2>3. slabs'[p].cell[i] = req[t]
    BY <1>2, <2>0
  <2> QED
    BY <1>1, <1>2, <1>3, <2>1, <2>2, <2>3 DEF Entry, TextAt, Appends
<1>11. \A s \in Symbols : toBytes'[s] # <<p, i>>
  <2> SUFFICES ASSUME NEW s \in Symbols, toBytes[s] = <<p, i>> PROVE FALSE
    BY <1>3
  <2>1. <<p, i>> # NoThin
    BY ConstantsAssumption DEF NoThin, SlabIds
  <2>2. Entry(own, s[1], <<p, i>>)
    BY <2>1 DEF Owned, Pointers
  <2>3. i <= slabs[p].pos
    BY <2>2 DEF Entry
  <2> QED
    BY <1>4, <2>3, ConstantsAssumption
<1> QED
  BY <1>5, <1>6, <1>7, <1>9, <1>10, <1>11

LEMMA EagerWriteInv ==
  ASSUME TableInv, NoSharedSlot, MemTyped, NEW own \in [SlabIds -> Slots], Owned(own),
         NEW t \in Threads, EagerWrite(t)
  PROVE  MemTyped' /\ Owned(own)' /\ Stable
<1> PICK p, i : p = slabPtr[t] /\ i = saved[t].pos + 1
  OBVIOUS
<1>1. /\ pc[t] = "eager" /\ pc'[t] = "recheck"
      /\ \A u \in Threads : u # t => pc'[u] = pc[u]
  BY DEF EagerWrite, Goto, TableInv, Typed
<1>2. /\ slabPtr[t] # Null /\ saved[t] = Header(p) /\ saved[t].pos < SlabCap
      /\ eager[t] = NoThin
  BY <1>1 DEF Owned, Local, Undetermined
<1>3. /\ slotOf[t] \in Slots /\ slabPtr[t] = last[slotOf[t]]
      /\ p \in SlabIds /\ p <= brk /\ own[p] = slotOf[t]
  BY <1>1, <1>2, LoadedSlab DEF Loaded
<1>4. saved[t].pos = slabs[p].pos /\ saved[t].next = slabs[p].next
  BY <1>2 DEF Header
<1>5. i \in 1 .. SlabCap /\ i = slabs[p].pos + 1
  BY <1>2, <1>3, <1>4, ConstantsAssumption DEF MemTyped
<1>6. req[t] \in Keys
  BY <1>1 DEF TableInv, Typed, Answer, Outside
<1>7. /\ slabs' = [slabs EXCEPT ![p].cell[i] = req[t], ![p].pos = @ + 1]
      /\ eager' = [eager EXCEPT ![t] = <<p, i>>]
      /\ UNCHANGED <<permits, nextSym, start, last, brk, toBytes, slabPtr, saved, thin, newSym, req>>
  BY DEF EagerWrite, tables, call
<1>8. MemTyped'
  <2>1. <<p, i>> \in Thin
    BY <1>3, <1>5 DEF Thin
  <2>2. slabs' \in [SlabIds -> [next : SlabPtr, pos : 0 .. SlabCap,
                              cell : [1 .. SlabCap -> Keys \cup {NoKey}]]]
    <3>0. i \in 0 .. SlabCap
      BY <1>5, ConstantsAssumption
    <3>1. slabs[p] \in [next : SlabPtr, pos : 0 .. SlabCap,
                        cell : [1 .. SlabCap -> Keys \cup {NoKey}]]
      BY <1>3 DEF MemTyped
    <3>2. slabs' = [slabs EXCEPT ![p] = [slabs[p] EXCEPT !.cell[i] = req[t], !.pos = i]]
      BY <1>3, <1>5, <1>7 DEF MemTyped
    <3>3. [slabs[p] EXCEPT !.cell[i] = req[t], !.pos = i]
            \in [next : SlabPtr, pos : 0 .. SlabCap, cell : [1 .. SlabCap -> Keys \cup {NoKey}]]
      BY <1>5, <1>6, <3>0, <3>1
    <3> QED
      BY <3>2, <3>3 DEF MemTyped
  <2> QED
    BY <1>7, <2>1, <2>2 DEF MemTyped, permits
<1>9. Appends(t, p, i)
  <2>1. /\ slabs'[p].next = slabs[p].next /\ slabs'[p].pos = i
        /\ slabs'[p].cell = [slabs[p].cell EXCEPT ![i] = req[t]]
        /\ \A q \in SlabIds : q # p => slabs'[q] = slabs[q]
    <3>1. slabs = [q \in SlabIds |-> slabs[q]]
      BY DEF MemTyped
    <3>2. slabs[p] \in [next : SlabPtr, pos : 0 .. SlabCap,
                        cell : [1 .. SlabCap -> Keys \cup {NoKey}]]
      BY <1>3 DEF MemTyped
    <3> QED
      BY <1>3, <1>5, <1>7, <3>1, <3>2
  <2>2. eager'[t] = <<p, i>> /\ \A u \in Threads : u # t => Unmoved(u)
    BY <1>1, <1>7 DEF MemTyped, Unmoved, permits
  <2>3. /\ pc'[t] \in Undetermined /\ Holds(t, <<p, i>>)' /\ slotOf'[t] = slotOf[t]
        /\ pc[t] \in {"eager", "fill"}
    BY <1>1, <1>7, <2>2 DEF Holds, Undetermined, permits
  <2> QED
    BY <1>2, <1>7, <2>1, <2>2, <2>3 DEF Appends
<1>10. /\ Links(own)' /\ Ends(own)' /\ Reached(own)' /\ \A j \in Slots : Tail(j)'
       /\ Pointers(own)' /\ Covered' /\ Stable
       /\ \A u \in Threads : u # t => Local(own, u)'
       /\ TextAt(<<p, i>>)' = req[t]
       /\ \A s \in Symbols : toBytes'[s] # <<p, i>>
  BY <1>3, <1>5, <1>8, <1>9, AppendsInv
<1>11. Local(own, t)'
  <2>1. eager'[t] = <<p, i>> /\ slotOf'[t] = slotOf[t]
    BY <1>7 DEF MemTyped, permits
  <2>2. EagerIsLast(t)'
    BY <1>2, <1>3, <1>4, <1>5, <1>7, <1>9, <1>10, <2>1 DEF EagerIsLast, Appends, TextAt
  <2>3. \A r \in Thin, s \in Symbols : Holds(t, r)' => toBytes'[s] # r
    BY <1>1, <1>10, <2>1 DEF Holds, Stored
  <2> QED
    BY <1>1, <1>3, <1>7, <2>1, <2>2, <2>3
       DEF Local, Loaded, Undetermined, Stored, Numbered
<1> QED
  BY <1>8, <1>10, <1>11 DEF Owned

\* What the write that follows the second lookup finds and does.
LEMMA FillFacts ==
  ASSUME TableInv, MemTyped, NEW own \in [SlabIds -> Slots], Owned(own), NEW t \in Threads,
         FillFirst(t) \/ FillLast(t)
  PROVE  /\ pc[t] = "fill" /\ pc'[t] = "number" /\ eager[t] = NoThin
         /\ UNCHANGED <<permits, nextSym, toBytes, eager, saved, newSym, req>>
         /\ \A u \in Threads : u # t => Unmoved(u)
         /\ slotOf[t] \in Slots /\ slabPtr[t] = last[slotOf[t]] /\ req[t] \in Keys
<1>1. /\ pc[t] = "fill" /\ pc'[t] = "number"
      /\ \A u \in Threads : u # t => pc'[u] = pc[u]
  BY DEF FillFirst, FillLast, Goto, TableInv, Typed
<1>2. slotOf[t] \in Slots /\ req[t] \in Keys
  BY <1>1 DEF TableInv, Typed, Permitted, Answer, Outside
<1>3. slabPtr[t] = last[slotOf[t]]
  BY <1>1 DEF Owned, Local, Loaded
<1>4. UNCHANGED <<permits, nextSym, toBytes, eager, saved, newSym, req>> /\ eager[t] = NoThin
  BY DEF FillFirst, FillLast, tables, call
<1>5. \A u \in Threads : u # t => slabPtr'[u] = slabPtr[u] /\ thin'[u] = thin[u]
  BY DEF FillFirst, FillLast, MemTyped
<1> QED
  BY <1>1, <1>2, <1>3, <1>4, <1>5 DEF Unmoved, permits

Slab == [next : SlabPtr, pos : 0 .. SlabCap, cell : [1 .. SlabCap -> Keys \cup {NoKey}]]

\* After the write the thread holds its string's entry.
LEMMA StoredLocal ==
  ASSUME NEW own, NEW t \in Threads, NEW e \in Thin, pc'[t] = "number", thin'[t] = e,
         eager'[t] = NoThin, slabPtr'[t] = last'[slotOf'[t]],
         Entry(own, slotOf[t], e)', slotOf'[t] = slotOf[t], TextAt(e)' = req'[t],
         \A s \in Symbols : toBytes'[s] # e
  PROVE  Local(own, t)'
<1>1. Entry(own, slotOf[t], thin[t])' /\ TextAt(thin[t])' = req'[t]
  BY DEF Entry, TextAt
<1>2. \A r \in Thin, s \in Symbols : Holds(t, r)' => toBytes'[s] # r
  BY DEF Holds, Undetermined
<1> QED
  BY <1>1, <1>2 DEF Local, Loaded, Undetermined, Stored, Numbered

LEMMA FillRoomInv ==
  ASSUME TableInv, NoSharedSlot, MemTyped, NEW own \in [SlabIds -> Slots], Owned(own),
         NEW t \in Threads, FillLast(t), HasRoom(slabPtr[t])
  PROVE  MemTyped' /\ Owned(own)' /\ Stable
<1> PICK p, i : p = slabPtr[t] /\ i = slabs[p].pos + 1
  OBVIOUS
<1>1. /\ pc[t] = "fill" /\ pc'[t] = "number" /\ eager[t] = NoThin
      /\ UNCHANGED <<permits, nextSym, toBytes, eager, saved, newSym, req>>
      /\ \A u \in Threads : u # t => Unmoved(u)
      /\ slotOf[t] \in Slots /\ req[t] \in Keys
  BY FillFacts
<1>2. /\ p = last[slotOf[t]] /\ p \in SlabIds /\ p <= brk /\ own[p] = slotOf[t]
  BY <1>1, LoadedSlab DEF Loaded, FillLast
<1>3. i \in 1 .. SlabCap /\ slabs[p] \in Slab
  <2>1. slabs[p] \in Slab
    BY <1>2 DEF MemTyped, Slab
  <2>2. slabs[p].pos \in Nat /\ slabs[p].pos < SlabCap /\ SlabCap \in Nat
    BY <2>1, ConstantsAssumption DEF HasRoom, Slab
  <2> QED
    BY <2>1, <2>2
<1>4. /\ slabs' = [slabs EXCEPT ![p].next = @, ![p].cell[i] = req[t], ![p].pos = i]
      /\ thin' = [thin EXCEPT ![t] = <<p, i>>]
      /\ UNCHANGED <<start, last, brk, slabPtr>>
  BY DEF FillLast
<1>5. slabs' = [slabs EXCEPT ![p] = [slabs[p] EXCEPT !.next = @, !.cell[i] = req[t], !.pos = i]]
  <2>1. slabs = [q \in SlabIds |-> slabs[q]]
    BY DEF MemTyped
  <2> QED
    BY <1>2, <1>4, <2>1
<1>6. <<p, i>> \in Thin
  BY <1>2, <1>3 DEF Thin
<1>7. MemTyped'
  <2>1. [slabs[p] EXCEPT !.next = @, !.cell[i] = req[t], !.pos = i] \in Slab
    <3>1. i \in 0 .. SlabCap /\ req[t] \in Keys \cup {NoKey} /\ slabs[p].next \in SlabPtr
      BY <1>1, <1>3, ConstantsAssumption DEF Slab
    <3>2. [slabs[p].cell EXCEPT ![i] = req[t]] \in [1 .. SlabCap -> Keys \cup {NoKey}]
      BY <1>3, <3>1 DEF Slab
    <3> QED
      BY <1>3, <3>1, <3>2 DEF Slab
  <2>2. slabs' \in [SlabIds -> Slab]
    BY <1>5, <2>1 DEF MemTyped, Slab
  <2> QED
    BY <1>1, <1>4, <1>6, <2>2 DEF MemTyped, permits, Slab
<1>8. thin'[t] = <<p, i>>
  BY <1>4 DEF MemTyped
<1>9. Appends(t, p, i)
  <2>1. /\ slabs'[p].next = slabs[p].next /\ slabs'[p].pos = i
        /\ slabs'[p].cell = [slabs[p].cell EXCEPT ![i] = req[t]]
        /\ \A q \in SlabIds : q # p => slabs'[q] = slabs[q]
    BY <1>2, <1>3, <1>5 DEF MemTyped, Slab
  <2> QED
    BY <1>1, <1>4, <1>8, <2>1 DEF Appends, Holds, Undetermined, Stored, permits
<1>10. /\ Links(own)' /\ Ends(own)' /\ Reached(own)' /\ \A j \in Slots : Tail(j)'
       /\ Pointers(own)' /\ Covered' /\ Stable
       /\ \A u \in Threads : u # t => Local(own, u)'
       /\ Entry(own, slotOf[t], <<p, i>>)' /\ TextAt(<<p, i>>)' = req[t]
       /\ \A s \in Symbols : toBytes'[s] # <<p, i>>
  BY <1>2, <1>3, <1>7, <1>9, AppendsInv
<1>11. Local(own, t)'
  <2>1. PICK e \in Thin : e = <<p, i>>
    BY <1>6
  <2>2. /\ slotOf'[t] = slotOf[t] /\ eager'[t] = NoThin /\ slabPtr'[t] = last'[slotOf'[t]]
        /\ req'[t] = req[t]
    BY <1>1, <1>2, <1>4 DEF permits
  <2> QED
    BY <1>1, <1>8, <1>10, <2>1, <2>2, StoredLocal
<1> QED
  BY <1>7, <1>10, <1>11 DEF Owned

\* A string put into a slab that is allocated for it.
NewSlab(own, new, t, p) ==
  /\ p = brk + 1 /\ brk' = p /\ p \in SlabIds
  /\ new = [own EXCEPT ![p] = slotOf[t]]
  /\ slabs'[p].next = Null /\ slabs'[p].pos = 1
  /\ slabs'[p].cell = [slabs[p].cell EXCEPT ![1] = req[t]]
  /\ \A q \in SlabIds : q # p => slabs'[q].pos = slabs[q].pos /\ slabs'[q].cell = slabs[q].cell
  /\ \A q \in SlabIds : q # p /\ q # slabPtr[t] => slabs'[q] = slabs[q]
  /\ \A j \in Slots : j # slotOf[t] => last'[j] = last[j]
  /\ thin'[t] = <<p, 1>>

LEMMA NewSlabInv ==
  ASSUME TableInv, NoSharedSlot, MemTyped, MemTyped',
         NEW own \in [SlabIds -> Slots], NEW new \in [SlabIds -> Slots], Owned(own),
         NEW t \in Threads, FillFirst(t) \/ FillLast(t), NEW p, NewSlab(own, new, t, p)
  PROVE  /\ ~(p <= brk) /\ slabs[p] = EmptySlab
         /\ new[p] = slotOf[t] /\ \A q \in SlabIds : q # p => new[q] = own[q]
         /\ Pointers(new)' /\ Covered' /\ Stable
         /\ \A u \in Threads : u # t => Local(new, u)'
         /\ Entry(new, slotOf[t], <<p, 1>>)' /\ TextAt(<<p, 1>>)' = req'[t]
         /\ \A s \in Symbols : toBytes'[s] # <<p, 1>>
<1>1. /\ pc[t] = "fill" /\ pc'[t] = "number" /\ eager[t] = NoThin
      /\ UNCHANGED <<permits, nextSym, toBytes, eager, saved, newSym, req>>
      /\ \A u \in Threads : u # t => Unmoved(u)
      /\ slotOf[t] \in Slots /\ slabPtr[t] = last[slotOf[t]]
  BY FillFacts
<1>2. p \in SlabIds /\ brk \in Nat /\ p = brk + 1 /\ brk' = p /\ brk < p /\ brk <= brk'
  <2>1. p \in SlabIds /\ p = brk + 1 /\ brk' = p
    BY Zenon DEF NewSlab
  <2>2. brk \in Nat
    BY ConstantsAssumption DEF MemTyped
  <2> QED
    BY <2>1, <2>2
<1>3. slabs[p] = EmptySlab
  BY <1>2 DEF Owned, Links
<1>4. new[p] = slotOf[t] /\ \A q \in SlabIds : q # p => new[q] = own[q]
  BY <1>2 DEF NewSlab
<1>5. \A q \in SlabIds : q <= brk => q # p
  BY <1>2, ConstantsAssumption DEF SlabIds
<1>6. <<p, 1>> \in Thin /\ 1 \in 1 .. SlabCap
  BY <1>2, ConstantsAssumption DEF Thin
<1>7. Adds(own, new, t, <<p, 1>>)
  <2>1. ASSUME NEW q \in SlabIds, q <= brk
        PROVE  /\ new[q] = own[q] /\ slabs[q].pos <= slabs'[q].pos
               /\ \A n \in 1 .. SlabCap : n <= slabs[q].pos => slabs'[q].cell[n] = slabs[q].cell[n]
    <3>1. slabs'[q].pos = slabs[q].pos /\ slabs'[q].cell = slabs[q].cell /\ slabs[q].pos \in Nat
      <4>1. slabs[q].pos \in Nat
        BY ConstantsAssumption DEF MemTyped
      <4> QED
        BY <1>5, <2>1, <4>1 DEF NewSlab
    <3>2. slabs[q].pos <= slabs[q].pos
      BY <3>1
    <3> QED
      BY <1>4, <1>5, <2>1, <3>1, <3>2
  <2>2. ASSUME NEW q \in SlabIds, NEW n \in 1 .. SlabCap, q <= brk', n <= slabs'[q].pos
        PROVE  <<q, n>> = <<p, 1>> \/ (q <= brk /\ n <= slabs[q].pos)
    <3>1. CASE q = p
      <4>1. n <= 1
        BY <2>2, <3>1 DEF NewSlab
      <4>2. n = 1
        BY <4>1, ConstantsAssumption
      <4> QED
        BY <3>1, <4>2
    <3>2. CASE q # p
      <4>1. q <= brk
        BY <1>2, <2>2, <3>2, ConstantsAssumption DEF SlabIds
      <4> QED
        BY <2>2, <3>2, <4>1 DEF NewSlab
    <3> QED
      BY <3>1, <3>2
  <2>3. ASSUME NEW j \in Slots, j # slotOf[t] PROVE SlotKept(own, new, j)
    <3>1. slabPtr[t] # Null => own[slabPtr[t]] = slotOf[t]
      BY <1>1 DEF Owned, Ends
    <3>2. \A q \in SlabIds : q <= brk /\ own[q] = j => q # slabPtr[t]
      BY <2>3, <3>1, ConstantsAssumption DEF SlabIds, Null
    <3> QED
      BY <1>2, <1>4, <1>5, <2>3, <3>2 DEF SlotKept, NewSlab
  <2>4. Holds(t, <<p, 1>>)'
    BY <1>1 DEF Holds, Stored, NewSlab
  <2> QED
    BY <1>1, <1>2, <2>1, <2>2, <2>3, <2>4 DEF Adds
<1>8. Pointers(new)' /\ Covered' /\ Stable /\ \A u \in Threads : u # t => Local(new, u)'
  BY <1>7, AddsInv
<1>9. Entry(new, slotOf[t], <<p, 1>>)' /\ TextAt(<<p, 1>>)' = req'[t]
  <2>1. slabs'[p].cell[1] = req[t]
    BY <1>3, <1>6 DEF NewSlab, EmptySlab
  <2>2. slotOf'[t] = slotOf[t] /\ req'[t] = req[t] /\ p <= brk'
    BY <1>1, <1>2 DEF permits
  <2>3. slabs'[p].pos = 1 /\ 1 <= 1 /\ new[p] = slotOf'[t]
    BY <1>4, <2>2 DEF NewSlab
  <2>4. Entry(new, slotOf[t], <<p, 1>>)'
    BY <1>6, <2>2, <2>3 DEF Entry
  <2> QED
    BY <2>1, <2>2, <2>4 DEF TextAt
<1>10. ASSUME NEW s \in Symbols, toBytes'[s] = <<p, 1>> PROVE FALSE
  <2>1. toBytes[s] = <<p, 1>> /\ <<p, 1>> # NoThin
    BY <1>1, <1>10, ConstantsAssumption DEF NoThin
  <2>2. Entry(own, s[1], <<p, 1>>)
    BY <2>1 DEF Owned, Pointers
  <2>3. p <= brk
    BY <2>2 DEF Entry
  <2> QED
    BY <1>2, <1>5, <2>3
<1> QED
  BY <1>2, <1>3, <1>4, <1>8, <1>9, <1>10

\* What the type invariant says of the memory after a slab is allocated.
LEMMA NewSlabTyped ==
  ASSUME MemTyped, NEW t \in Threads, NEW p \in SlabIds, slabs[p] = EmptySlab, brk' = p,
         req[t] \in Keys, slabs' \in [SlabIds -> Slab], start' \in [Slots -> SlabPtr],
         last' \in [Slots -> SlabPtr], slabPtr' \in [Threads -> SlabPtr],
         thin' = [thin EXCEPT ![t] = <<p, 1>>], UNCHANGED <<permits, toBytes, eager, saved>>
  PROVE  MemTyped'
<1>1. <<p, 1>> \in Thin /\ p \in 0 .. MaxSlabs
  BY ConstantsAssumption DEF Thin, SlabIds
<1> QED
  BY <1>1 DEF MemTyped, Slab, permits

LEMMA FillFirstInv ==
  ASSUME TableInv, NoSharedSlot, MemTyped, NEW own \in [SlabIds -> Slots], Owned(own),
         NEW t \in Threads, FillFirst(t)
  PROVE  MemTyped' /\ Stable /\ \E new \in [SlabIds -> Slots] : Owned(new)'
<1>0. PICK p, new : p = brk + 1 /\ new = [own EXCEPT ![p] = slotOf[t]]
  OBVIOUS
<1>1. /\ pc'[t] = "number" /\ pc[t] = "fill" /\ eager[t] = NoThin
      /\ UNCHANGED <<permits, nextSym, toBytes, eager, saved, newSym, req>>
      /\ \A u \in Threads : u # t => Unmoved(u)
      /\ slotOf[t] \in Slots /\ slabPtr[t] = last[slotOf[t]] /\ req[t] \in Keys
  BY FillFacts
<1>2. /\ last[slotOf[t]] = Null /\ brk' = p
      /\ start' = [start EXCEPT ![slotOf[t]] = p]
      /\ last' = [last EXCEPT ![slotOf[t]] = p]
      /\ slabs' = [slabs EXCEPT ![p].cell[1] = req[t], ![p].pos = 1]
      /\ slabPtr' = [slabPtr EXCEPT ![t] = p]
      /\ thin' = [thin EXCEPT ![t] = <<p, 1>>]
  BY <1>0, <1>1 DEF FillFirst
<1>3. p \in SlabIds /\ brk \in Nat /\ p > brk
  BY <1>0, ConstantsAssumption DEF FillFirst, MemTyped, SlabIds
<1>4. slabs[p] = EmptySlab
  BY <1>3 DEF Owned, Links
<1>5. start[slotOf[t]] = Null
  BY <1>1, <1>2 DEF Owned, Ends
<1>6. new \in [SlabIds -> Slots] /\ p \in SlabPtr
  BY <1>0, <1>1, <1>3 DEF SlabPtr
<1>7. slabs' = [slabs EXCEPT ![p] = [slabs[p] EXCEPT !.cell[1] = req[t], !.pos = 1]]
  BY <1>2, <1>3 DEF MemTyped
<1>8. MemTyped'
  <2>1. slabs[p] \in Slab /\ 1 \in 0 .. SlabCap /\ 1 \in 1 .. SlabCap
    BY <1>3, ConstantsAssumption DEF MemTyped, Slab
  <2>2. [slabs[p] EXCEPT !.cell[1] = req[t], !.pos = 1] \in Slab
    BY <1>1, <2>1 DEF Slab
  <2>3. slabs' \in [SlabIds -> Slab]
    BY <1>7, <2>2 DEF MemTyped, Slab
  <2>4. start' \in [Slots -> SlabPtr] /\ last' \in [Slots -> SlabPtr] /\ slabPtr' \in [Threads -> SlabPtr]
    BY <1>2, <1>6 DEF MemTyped
  <2> QED
    BY <1>1, <1>2, <1>3, <1>4, <2>3, <2>4, NewSlabTyped
<1>9. /\ slabs'[p].next = Null /\ slabs'[p].pos = 1
      /\ slabs'[p].cell = [slabs[p].cell EXCEPT ![1] = req[t]]
      /\ \A q \in SlabIds : q # p => slabs'[q] = slabs[q]
  BY <1>3, <1>4, <1>7 DEF MemTyped, EmptySlab
<1>10. NewSlab(own, new, t, p)
  <2>1. \A j \in Slots : j # slotOf[t] => last'[j] = last[j]
    BY <1>2 DEF MemTyped
  <2>2. thin'[t] = <<p, 1>>
    BY <1>2 DEF MemTyped
  <2> QED
    BY <1>0, <1>2, <1>3, <1>9, <2>1, <2>2 DEF NewSlab
<1>11. /\ new[p] = slotOf[t] /\ \A q \in SlabIds : q # p => new[q] = own[q]
       /\ Pointers(new)' /\ Covered' /\ Stable
       /\ \A u \in Threads : u # t => Local(new, u)'
       /\ Entry(new, slotOf[t], <<p, 1>>)' /\ TextAt(<<p, 1>>)' = req'[t]
       /\ \A s \in Symbols : toBytes'[s] # <<p, 1>>
  BY <1>6, <1>8, <1>10, NewSlabInv
<1>12. \A q \in SlabIds : /\ q <= brk => q # p
                          /\ q > brk' => q > brk /\ q # p
                          /\ q <= brk => q <= brk'
                          /\ q <= brk' => q = p \/ q <= brk
  BY <1>0, <1>2, <1>3, ConstantsAssumption DEF SlabIds
<1>13. Links(new)'
  <2> SUFFICES ASSUME NEW q \in SlabIds
               PROVE  /\ q > brk' => slabs'[q] = EmptySlab
                      /\ slabs'[q].next # Null =>
                           /\ q < slabs'[q].next /\ slabs'[q].next <= brk'
                           /\ new[slabs'[q].next] = new[q]
    BY DEF Links
  <2>1. CASE q = p
    BY <1>9, <1>12, <2>1
  <2>2. CASE q # p
    <3>1. slabs'[q] = slabs[q] /\ slabs[q].next \in SlabPtr
      BY <1>9, <2>2 DEF MemTyped
    <3>2. slabs[q].next # Null =>
            q < slabs[q].next /\ slabs[q].next <= brk /\ own[slabs[q].next] = own[q]
      BY DEF Owned, Links
    <3>3. q > brk' => slabs[q] = EmptySlab
      BY <1>12 DEF Owned, Links
    <3> QED
      BY <1>11, <1>12, <2>2, <3>1, <3>2, <3>3 DEF SlabPtr
  <2> QED
    BY <2>1, <2>2
<1>14. Ends(new)'
  <2> SUFFICES ASSUME NEW j \in Slots
               PROVE  /\ start'[j] = Null <=> last'[j] = Null
                      /\ start'[j] # Null => start'[j] <= brk' /\ new[start'[j]] = j
                      /\ last'[j] # Null => last'[j] <= brk' /\ new[last'[j]] = j
    BY DEF Ends
  <2>1. CASE j = slotOf[t]
    <3>1. start'[j] = p /\ last'[j] = p
      BY <1>2, <2>1 DEF MemTyped
    <3>2. p <= brk' /\ p # Null
      BY <1>2, <1>3, ConstantsAssumption DEF Null, SlabIds
    <3> QED
      BY <1>11, <2>1, <3>1, <3>2
  <2>2. CASE j # slotOf[t]
    <3>1. start'[j] = start[j] /\ last'[j] = last[j]
      BY <1>2, <2>2 DEF MemTyped
    <3>2. start[j] \in SlabPtr /\ last[j] \in SlabPtr
      BY DEF MemTyped
    <3> QED
      BY <1>11, <1>12, <3>1, <3>2 DEF Owned, Ends, SlabPtr
  <2> QED
    BY <2>1, <2>2
<1>15. Reached(new)'
  <2> SUFFICES ASSUME NEW q \in SlabIds, q <= brk'
               PROVE  start'[new[q]] = q \/ \E r \in SlabIds : slabs'[r].next = q
    BY DEF Reached
  <2>1. CASE q = p
    BY <1>1, <1>2, <1>11, <2>1 DEF MemTyped
  <2>2. CASE q # p
    <3>1. q <= brk /\ new[q] = own[q] /\ own[q] \in Slots /\ q # Null
      BY <1>11, <1>12, <2>2, ConstantsAssumption DEF SlabIds, Null
    <3>2. CASE start[own[q]] = q
      <4>1. own[q] # slotOf[t]
        BY <1>5, <3>1, <3>2
      <4> QED
        BY <1>2, <3>1, <3>2, <4>1 DEF MemTyped
    <3>3. ASSUME NEW r \in SlabIds, slabs[r].next = q PROVE slabs'[r].next = q
      <4>1. r # p
        BY <1>4, <3>1, <3>3 DEF EmptySlab
      <4> QED
        BY <1>9, <3>3, <4>1
    <3> QED
      BY <3>1, <3>2, <3>3 DEF Owned, Reached
  <2> QED
    BY <2>1, <2>2
<1>16. ASSUME NEW j \in Slots PROVE Tail(j)'
  <2>1. CASE j = slotOf[t]
    BY <1>2, <1>9, <2>1 DEF Tail, MemTyped
  <2>2. CASE j # slotOf[t]
    <3>1. last'[j] = last[j] /\ last[j] \in SlabPtr
      BY <1>2, <2>2 DEF MemTyped
    <3> SUFFICES ASSUME last[j] # Null, slabs'[last[j]].next # Null
                 PROVE  /\ slabs'[slabs'[last[j]].next].next = Null
                        /\ \E u \in Threads : slotOf'[u] = j /\ pc'[u] \in Linking
      BY <3>1 DEF Tail
    <3>2. last[j] \in SlabIds /\ last[j] <= brk
      BY <3>1 DEF SlabPtr, Owned, Ends
    <3>3. slabs'[last[j]] = slabs[last[j]]
      BY <1>9, <1>12, <3>2
    <3>4. slabs[last[j]].next \in SlabIds /\ slabs[last[j]].next <= brk
      BY <3>2, <3>3 DEF Owned, Links, MemTyped, SlabPtr
    <3>5. slabs[slabs[last[j]].next].next = Null /\ \E u \in Threads : slotOf[u] = j /\ pc[u] \in Linking
      BY <3>3 DEF Owned, Tail
    <3>6. \A u \in Threads : slotOf[u] = j => u # t
      BY <2>2
    <3> QED
      BY <1>1, <1>9, <1>12, <3>3, <3>4, <3>5, <3>6 DEF Unmoved
  <2> QED
    BY <2>1, <2>2
<1>17. Local(new, t)'
  <2>1. PICK e \in Thin : e = <<p, 1>>
    <3>1. <<p, 1>> \in Thin
      BY <1>3, ConstantsAssumption DEF Thin
    <3> QED
      BY <3>1
  <2>2. /\ slotOf'[t] = slotOf[t] /\ eager'[t] = NoThin /\ thin'[t] = e
        /\ slabPtr'[t] = last'[slotOf'[t]]
    BY <1>1, <1>2, <2>1 DEF permits, MemTyped
  <2> QED
    BY <1>1, <1>11, <2>1, <2>2, StoredLocal
<1>18. Owned(new)'
  BY <1>11, <1>13, <1>14, <1>15, <1>16, <1>17 DEF Owned
<1> QED
  BY <1>6, <1>8, <1>11, <1>18

LEMMA FillNextInv ==
  ASSUME TableInv, NoSharedSlot, MemTyped, NEW own \in [SlabIds -> Slots], Owned(own),
         NEW t \in Threads, FillLast(t), ~HasRoom(slabPtr[t])
  PROVE  MemTyped' /\ Stable /\ \E new \in [SlabIds -> Slots] : Owned(new)'
<1>0. PICK p, new, l : p = brk + 1 /\ new = [own EXCEPT ![p] = slotOf[t]] /\ l = slabPtr[t]
  OBVIOUS
<1>1. /\ pc'[t] = "number" /\ pc[t] = "fill" /\ eager[t] = NoThin
      /\ UNCHANGED <<permits, nextSym, toBytes, eager, saved, newSym, req>>
      /\ \A u \in Threads : u # t => Unmoved(u)
      /\ slotOf[t] \in Slots /\ slabPtr[t] = last[slotOf[t]] /\ req[t] \in Keys
  BY FillFacts
<1>2. /\ brk' = p /\ p <= MaxSlabs
      /\ slabs' = [slabs EXCEPT ![l].next = p, ![p].cell[slabs[p].pos + 1] = req[t],
                                ![p].pos = slabs[p].pos + 1]
      /\ thin' = [thin EXCEPT ![t] = <<p, slabs[p].pos + 1>>]
      /\ UNCHANGED <<start, last, slabPtr>>
  BY <1>0 DEF FillLast
<1>3. p \in SlabIds /\ brk \in Nat /\ p > brk
  BY <1>0, <1>2, ConstantsAssumption DEF MemTyped, SlabIds
<1>4. slabs[p] = EmptySlab /\ slabs[p].pos + 1 = 1
  BY <1>3, ConstantsAssumption DEF Owned, Links, EmptySlab
<1>5. /\ l = last[slotOf[t]] /\ l # Null /\ l \in SlabIds /\ l <= brk /\ own[l] = slotOf[t]
  BY <1>0, <1>1, LoadedSlab DEF Loaded, FillLast
<1>6. new \in [SlabIds -> Slots] /\ p \in SlabPtr
  BY <1>0, <1>1, <1>3 DEF SlabPtr
<1>7. \A q \in SlabIds : /\ q <= brk => q # p
                         /\ q > brk' => q > brk /\ q # p
                         /\ q <= brk => q <= brk' /\ q < p
                         /\ q <= brk' => q = p \/ q <= brk
  BY <1>0, <1>2, <1>3, ConstantsAssumption DEF SlabIds
<1>8. slabs[l].next = Null
  <2> SUFFICES ASSUME slabs[l].next # Null PROVE FALSE
    OBVIOUS
  <2>1. PICK u \in Threads : slotOf[u] = slotOf[t] /\ pc[u] \in Linking
    BY <1>1, <1>5 DEF Owned, Tail
  <2>2. u # t /\ pc[u] \notin Outside /\ pc[t] \notin Outside
    BY <1>1, <2>1 DEF Linking, Outside
  <2> QED
    BY <2>1, <2>2, SlotsApart
<1>9. slabs' = [[slabs EXCEPT ![l] = [slabs[l] EXCEPT !.next = p]]
                  EXCEPT ![p] = [slabs[p] EXCEPT !.cell[1] = req[t], !.pos = 1]]
  BY <1>2, <1>3, <1>4, <1>5, <1>7 DEF MemTyped
<1>10. MemTyped'
  <2>1. slabs[p] \in Slab /\ slabs[l] \in Slab /\ 1 \in 0 .. SlabCap /\ 1 \in 1 .. SlabCap
    BY <1>3, <1>5, ConstantsAssumption DEF MemTyped, Slab
  <2>2. [slabs[p] EXCEPT !.cell[1] = req[t], !.pos = 1] \in Slab
    BY <1>1, <2>1 DEF Slab
  <2>3. [slabs[l] EXCEPT !.next = p] \in Slab
    BY <1>6, <2>1 DEF Slab
  <2>4. slabs' \in [SlabIds -> Slab]
    BY <1>9, <2>2, <2>3 DEF MemTyped, Slab
  <2>5. /\ start' \in [Slots -> SlabPtr] /\ last' \in [Slots -> SlabPtr]
        /\ slabPtr' \in [Threads -> SlabPtr] /\ thin' = [thin EXCEPT ![t] = <<p, 1>>]
    BY <1>2, <1>4 DEF MemTyped
  <2> QED
    BY <1>1, <1>2, <1>3, <1>4, <2>4, <2>5, NewSlabTyped
<1>11. /\ slabs'[p].next = Null /\ slabs'[p].pos = 1
       /\ slabs'[p].cell = [slabs[p].cell EXCEPT ![1] = req[t]]
       /\ slabs'[l].next = p /\ slabs'[l].pos = slabs[l].pos /\ slabs'[l].cell = slabs[l].cell
       /\ \A q \in SlabIds : q # p /\ q # l => slabs'[q] = slabs[q]
  <2>1. slabs[l] \in Slab
    BY <1>5 DEF MemTyped, Slab
  <2> QED
    BY <1>3, <1>4, <1>5, <1>7, <1>9, <2>1 DEF MemTyped, EmptySlab, Slab
<1>12. NewSlab(own, new, t, p)
  <2>1. thin'[t] = <<p, 1>>
    BY <1>2, <1>4 DEF MemTyped
  <2>2. \A q \in SlabIds : q # p => slabs'[q].pos = slabs[q].pos /\ slabs'[q].cell = slabs[q].cell
    BY <1>11
  <2> QED
    BY <1>0, <1>2, <1>3, <1>11, <2>1, <2>2 DEF NewSlab
<1>13. /\ new[p] = slotOf[t] /\ \A q \in SlabIds : q # p => new[q] = own[q]
       /\ Pointers(new)' /\ Covered' /\ Stable
       /\ \A u \in Threads : u # t => Local(new, u)'
       /\ Entry(new, slotOf[t], <<p, 1>>)' /\ TextAt(<<p, 1>>)' = req'[t]
       /\ \A s \in Symbols : toBytes'[s] # <<p, 1>>
  BY <1>6, <1>10, <1>12, NewSlabInv
<1>14. Links(new)'
  <2> SUFFICES ASSUME NEW q \in SlabIds
               PROVE  /\ q > brk' => slabs'[q] = EmptySlab
                      /\ slabs'[q].next # Null =>
                           /\ q < slabs'[q].next /\ slabs'[q].next <= brk'
                           /\ new[slabs'[q].next] = new[q]
    BY DEF Links
  <2>1. CASE q = p
    BY <1>7, <1>11, <2>1
  <2>2. CASE q = l
    <3>0. p \in Nat /\ l \in Nat
      <4>1. SlabIds \subseteq Nat
        BY ConstantsAssumption DEF SlabIds
      <4> QED
        BY <1>3, <1>5, <4>1, Zenon
    <3>1. q < p /\ p <= brk' /\ ~(q > brk')
      <4>1. brk' = p /\ l <= brk /\ p = brk + 1 /\ brk \in Nat
        BY <1>0, <1>2, <1>3, <1>5, <1>7, Zenon
      <4> QED
        BY <2>2, <3>0, <4>1
    <3>2. new[p] = new[q]
      BY <1>3, <1>5, <1>13, <2>2, <3>0, <3>1
    <3>3. slabs'[q].next = p
      BY <1>11, <2>2
    <3> QED
      BY <3>1, <3>2, <3>3
  <2>3. CASE q # p /\ q # l
    <3>1. slabs'[q] = slabs[q] /\ slabs[q].next \in SlabPtr
      BY <1>11, <2>3 DEF MemTyped
    <3>2. slabs[q].next # Null =>
            q < slabs[q].next /\ slabs[q].next <= brk /\ own[slabs[q].next] = own[q]
      BY DEF Owned, Links
    <3>3. q > brk' => slabs[q] = EmptySlab
      BY <1>7 DEF Owned, Links
    <3> QED
      BY <1>7, <1>13, <2>3, <3>1, <3>2, <3>3 DEF SlabPtr
  <2> QED
    BY <2>1, <2>2, <2>3
<1>15. Ends(new)'
  <2> SUFFICES ASSUME NEW j \in Slots
               PROVE  /\ start[j] = Null <=> last[j] = Null
                      /\ start[j] # Null => start[j] <= brk' /\ new[start[j]] = j
                      /\ last[j] # Null => last[j] <= brk' /\ new[last[j]] = j
    BY <1>2 DEF Ends
  <2>1. start[j] \in SlabPtr /\ last[j] \in SlabPtr
    BY DEF MemTyped
  <2> QED
    BY <1>7, <1>13, <2>1 DEF Owned, Ends, SlabPtr
<1>16. Reached(new)'
  <2> SUFFICES ASSUME NEW q \in SlabIds, q <= brk'
               PROVE  start[new[q]] = q \/ \E r \in SlabIds : slabs'[r].next = q
    BY <1>2 DEF Reached
  <2>1. CASE q = p
    BY <1>5, <1>11, <2>1
  <2>2. CASE q # p
    <3>1. q <= brk /\ new[q] = own[q] /\ q # Null
      BY <1>7, <1>13, <2>2, ConstantsAssumption DEF SlabIds, Null
    <3>2. ASSUME NEW r \in SlabIds, slabs[r].next = q PROVE slabs'[r].next = q
      <4>1. r # p /\ r # l
        BY <1>4, <1>8, <3>1, <3>2 DEF EmptySlab
      <4> QED
        BY <1>11, <3>2, <4>1
    <3> QED
      BY <3>1, <3>2 DEF Owned, Reached
  <2> QED
    BY <2>1, <2>2
<1>17. ASSUME NEW j \in Slots PROVE Tail(j)'
  <2>1. CASE j = slotOf[t]
    <3>1. last'[j] = l /\ slotOf'[t] = j /\ pc'[t] \in Linking
      BY <1>1, <1>2, <1>5, <2>1 DEF Linking, permits
    <3> QED
      BY <1>11, <3>1 DEF Tail
  <2>2. CASE j # slotOf[t]
    <3>1. last'[j] = last[j] /\ last[j] \in SlabPtr
      BY <1>2 DEF MemTyped
    <3> SUFFICES ASSUME last[j] # Null, slabs'[last[j]].next # Null
                 PROVE  /\ slabs'[slabs'[last[j]].next].next = Null
                        /\ \E u \in Threads : slotOf'[u] = j /\ pc'[u] \in Linking
      BY <3>1 DEF Tail
    <3>2. last[j] \in SlabIds /\ last[j] <= brk /\ last[j] # l
      BY <1>5, <2>2, <3>1 DEF SlabPtr, Owned, Ends
    <3>3. slabs'[last[j]] = slabs[last[j]]
      BY <1>7, <1>11, <3>2
    <3>4. /\ slabs[last[j]].next \in SlabIds /\ slabs[last[j]].next <= brk
          /\ own[slabs[last[j]].next] = j
      BY <3>2, <3>3 DEF Owned, Links, Ends, MemTyped, SlabPtr
    <3>5. slabs[slabs[last[j]].next].next = Null /\ \E u \in Threads : slotOf[u] = j /\ pc[u] \in Linking
      BY <3>3 DEF Owned, Tail
    <3>6. slabs[last[j]].next # l /\ \A u \in Threads : slotOf[u] = j => u # t
      BY <1>5, <2>2, <3>4
    <3> QED
      BY <1>1, <1>7, <1>11, <3>3, <3>4, <3>5, <3>6 DEF Unmoved
  <2> QED
    BY <2>1, <2>2
<1>18. Local(new, t)'
  <2>1. PICK e \in Thin : e = <<p, 1>>
    <3>1. <<p, 1>> \in Thin
      BY <1>3, ConstantsAssumption DEF Thin
    <3> QED
      BY <3>1
  <2>2. /\ slotOf'[t] = slotOf[t] /\ eager'[t] = NoThin /\ thin'[t] = e
        /\ slabPtr'[t] = last'[slotOf'[t]]
    BY <1>1, <1>2, <1>4, <2>1 DEF permits, MemTyped
  <2> QED
    BY <1>1, <1>13, <2>1, <2>2, StoredLocal
<1>19. Owned(new)'
  BY <1>13, <1>14, <1>15, <1>16, <1>17, <1>18 DEF Owned
<1> QED
  BY <1>6, <1>10, <1>13, <1>19

-----------------------------------------------------------------------------
(* Entering a symbol in to_bytes, and the cleanup of a call *)

\* What a thread holds lies in a slab of its slot.
LEMMA HoldsOwn ==
  ASSUME TableInv, MemTyped, NEW own \in [SlabIds -> Slots], Owned(own), NEW u \in Threads,
         NEW r \in Thin, Holds(u, r)
  PROVE  pc[u] \notin Outside /\ own[r[1]] = slotOf[u]
<1>1. r # NoThin
  BY ConstantsAssumption DEF Thin, NoThin, SlabIds
<1>2. CASE pc[u] \in Undetermined /\ eager[u] = r
  <2>1. EagerIsLast(u) /\ pc[u] \in Loaded
    BY <1>1, <1>2 DEF Owned, Local, Undetermined, Loaded
  <2>2. r[1] = slabPtr[u] /\ slabPtr[u] # Null
    BY <1>2, <2>1 DEF EagerIsLast
  <2> QED
    BY <2>1, <2>2, LoadedSlab DEF Loaded, Outside
<1>3. CASE pc[u] \in Stored /\ thin[u] = r
  BY <1>3 DEF Owned, Local, Entry, Stored, Outside
<1> QED
  BY <1>2, <1>3 DEF Holds

LEMMA PutBytesInv ==
  ASSUME TableInv, NoSharedSlot, MemTyped, NEW own \in [SlabIds -> Slots], Owned(own),
         NEW t \in Threads, PutBytes(t)
  PROVE  MemTyped' /\ Owned(own)' /\ Stable
<1>0. PICK s0, e : s0 = newSym[t] /\ e = thin[t]
  OBVIOUS
<1>1. /\ pc[t] = "bytes" /\ pc'[t] = "publish"
      /\ \A u \in Threads : u # t => pc'[u] = pc[u]
      /\ toBytes' = [toBytes EXCEPT ![s0] = e]
      /\ UNCHANGED <<permits, memory, locals, call>>
  BY <1>0 DEF PutBytes, Goto, TableInv, Typed
<1>2. /\ s0 \in Symbols /\ s0[1] = slotOf[t] /\ toBytes[s0] = NoThin
      /\ Entry(own, slotOf[t], e) /\ TextAt(e) = req[t] /\ eager[t] = NoThin
      /\ slabPtr[t] = last[slotOf[t]] /\ slotOf[t] \in Slots
  BY <1>0, <1>1 DEF Owned, Local, Stored, Numbered, Undetermined, Loaded, TableInv, Typed,
                   Permitted, Outside
<1>3. e \in Thin /\ e # NoThin /\ \A s \in Symbols : toBytes[s] # e
  <2>1. e \in Thin /\ Holds(t, e)
    BY <1>0, <1>1, <1>2 DEF Entry, Holds, Stored
  <2> QED
    BY <2>1, ConstantsAssumption DEF Owned, Local, Thin, NoThin, SlabIds
<1>4. toBytes'[s0] = e /\ \A s \in Symbols : s # s0 => toBytes'[s] = toBytes[s]
  BY <1>1, <1>2 DEF MemTyped
<1>5. MemTyped'
  BY <1>1, <1>3 DEF MemTyped, permits, memory, locals
<1>6. Links(own)' /\ Ends(own)' /\ Reached(own)'
  BY <1>1 DEF Owned, Links, Ends, Reached, memory
<1>7. ASSUME NEW j \in Slots PROVE Tail(j)'
  <2>1. \A u \in Threads : pc[u] \in Linking => pc'[u] \in Linking
    BY <1>1 DEF Linking
  <2> QED
    BY <1>1, <2>1 DEF Owned, Tail, memory, permits
<1>8. Pointers(own)'
  <2>1. \A i, r : Entry(own, i, r)' <=> Entry(own, i, r)
    BY <1>1 DEF Entry, memory
  <2>2. \A s : Used(s)' <=> Used(s)
    BY <1>1 DEF Used, memory
  <2>3. Used(s0)
    BY <1>0, <1>1 DEF TableInv, Fresh, Numbered
  <2>4. ASSUME NEW s \in Symbols, toBytes'[s] # NoThin
        PROVE  Entry(own, s[1], toBytes[s])' /\ Used(s)'
    <3>1. PICK r : r = toBytes'[s]
      OBVIOUS
    <3>2. Entry(own, s[1], r) /\ Used(s)
      BY <1>2, <1>4, <2>3, <2>4, <3>1 DEF Owned, Pointers
    <3>3. Entry(own, s[1], r)' /\ Used(s)'
      BY <2>1, <2>2, <3>2
    <3> QED
      BY <3>1, <3>3 DEF Entry
  <2>5. ASSUME NEW s \in Symbols, NEW r \in Symbols, s # r, toBytes'[s] = toBytes'[r]
        PROVE  toBytes'[s] = NoThin
    BY <1>3, <1>4, <2>5 DEF Owned, Pointers
  <2> QED
    BY <2>4, <2>5 DEF Pointers
<1>9. Covered'
  <2> SUFFICES ASSUME NEW q \in SlabIds, NEW n \in 1 .. SlabCap, q <= brk, n <= slabs[q].pos
               PROVE  \/ \E s \in Symbols : toBytes'[s] = <<q, n>>
                      \/ \E u \in Threads : Holds(u, <<q, n>>)'
    BY <1>1 DEF Covered, memory
  <2>1. <<q, n>> # NoThin
    BY ConstantsAssumption DEF NoThin, SlabIds
  <2>2. ASSUME NEW s \in Symbols, toBytes[s] = <<q, n>> PROVE toBytes'[s] = <<q, n>>
    BY <1>2, <1>4, <2>1, <2>2
  <2>3. ASSUME NEW u \in Threads, Holds(u, <<q, n>>), u # t PROVE Holds(u, <<q, n>>)'
    BY <1>1, <2>3 DEF Holds, locals
  <2>4. ASSUME Holds(t, <<q, n>>) PROVE toBytes'[s0] = <<q, n>>
    BY <1>0, <1>1, <1>4, <2>4 DEF Holds, Undetermined
  <2> QED
    BY <1>2, <2>2, <2>3, <2>4 DEF Owned, Covered
<1>10. Stable
  <2> SUFFICES ASSUME NEW s \in Symbols, toBytes[s] # NoThin
               PROVE  toBytes'[s] = toBytes[s] /\ TextAt(toBytes[s])' = TextAt(toBytes[s])
    BY DEF Stable
  <2>1. toBytes'[s] = toBytes[s]
    BY <1>2, <1>4
  <2> QED
    BY <1>1, <2>1 DEF TextAt, memory
<1>11. ASSUME NEW u \in Threads, u # t PROVE Local(own, u)'
  <2>1. Unmoved(u)
    BY <1>1, <1>11 DEF Unmoved, permits, locals, call
  <2>2. \A i : SlotKept(own, own, i)
    BY <1>1 DEF SlotKept, memory, MemTyped
  <2>3. pc[u] \notin Outside => slotOf[u] \in Slots
    BY DEF TableInv, Typed, Permitted
  <2>4. BytesKept(u)
    <3> SUFFICES ASSUME NEW s \in Symbols, toBytes'[s] # toBytes[s]
                 PROVE  /\ pc[u] \in Numbered => s # newSym[u]
                        /\ \A r \in Thin : Holds(u, r) => toBytes'[s] # r
      BY DEF BytesKept
    <3>1. s = s0
      BY <1>4
    <3>2. pc[u] \in Numbered => s0 # newSym[u]
      BY <1>0, <1>1, <1>11 DEF TableInv, Fresh, Numbered
    <3>3. ASSUME NEW r \in Thin, Holds(u, r) PROVE e # r
      <4>1. pc[u] \notin Outside /\ own[r[1]] = slotOf[u]
        BY <3>3, HoldsOwn
      <4>2. own[e[1]] = slotOf[t] /\ pc[t] \notin Outside
        BY <1>1, <1>2 DEF Entry, Outside
      <4> QED
        BY <1>11, <4>1, <4>2, SlotsApart
    <3> QED
      BY <1>4, <3>1, <3>2, <3>3
  <2> QED
    BY <1>5, <2>1, <2>2, <2>3, <2>4, OthersLocal DEF Owned
<1>12. Local(own, t)'
  <2>1. /\ slabPtr'[t] = last'[slotOf'[t]] /\ eager'[t] = NoThin /\ newSym'[t] = s0
        /\ slotOf'[t] = slotOf[t] /\ req'[t] = req[t]
    BY <1>0, <1>1, <1>2 DEF permits, locals, memory, call
  <2>2. toBytes'[newSym'[t]] = e /\ slabs' = slabs
    BY <1>1, <1>4, <2>1 DEF memory
  <2>3. toBytes'[newSym'[t]] # NoThin /\ TextAt(toBytes[newSym[t]])' = req'[t]
    BY <1>2, <1>3, <2>1, <2>2 DEF TextAt
  <2>4. \A r \in Thin : ~Holds(t, r)'
    BY <1>1, <2>1 DEF Holds, Undetermined, Stored
  <2> QED
    BY <1>1, <1>2, <2>1, <2>3, <2>4
       DEF Local, Loaded, Undetermined, Stored, Numbered
<1> QED
  BY <1>5, <1>6, <1>7, <1>8, <1>9, <1>10, <1>11, <1>12 DEF Owned

\* What the cleanup does to the slabs: it gives up the eager write that was not
\* used, and nothing else.
LEMMA Reverts ==
  ASSUME TableInv, MemTyped, NEW own \in [SlabIds -> Slots], Owned(own), NEW t \in Threads,
         Cleanup(t)
  PROVE  /\ slabs' \in [SlabIds -> Slab]
         /\ \A q \in SlabIds : /\ slabs'[q].next = slabs[q].next /\ slabs'[q].cell = slabs[q].cell
                               /\ q > brk => slabs'[q] = slabs[q]
                               /\ own[q] # slotOf[t] => slabs'[q] = slabs[q]
         /\ \A q \in SlabIds, n \in 1 .. SlabCap :
              /\ n <= slabs'[q].pos => n <= slabs[q].pos /\ <<q, n>> # eager[t]
              /\ n <= slabs[q].pos => n <= slabs'[q].pos \/ <<q, n>> = eager[t]
<1>1. pc[t] = "cleanup"
  BY DEF Cleanup, Goto
<1>2. slabs \in [SlabIds -> Slab]
  BY DEF MemTyped, Slab
<1>3. CASE eager[t] = NoThin
  <2>1. slabs' = slabs
    BY <1>3 DEF Cleanup
  <2>2. \A q \in SlabIds, n \in 1 .. SlabCap : <<q, n>> # eager[t]
    BY <1>3, ConstantsAssumption DEF NoThin, SlabIds
  <2> QED
    BY <1>2, <2>1, <2>2
<1>4. CASE eager[t] # NoThin
  <2>0. PICK p, k : p = slabPtr[t] /\ k = saved[t].pos
    OBVIOUS
  <2>1. EagerIsLast(t)
    BY <1>1, <1>4 DEF Owned, Local, Undetermined
  <2>2. p \in SlabIds /\ p <= brk /\ own[p] = slotOf[t]
    BY <1>1, <2>0, <2>1, LoadedSlab DEF EagerIsLast, Loaded
  <2>3. /\ k \in 0 .. SlabCap /\ eager[t] = <<p, k + 1>> /\ slabs[p].pos = k + 1
        /\ slabs[p].next = saved[t].next /\ saved[t].next \in SlabPtr
    BY <2>0, <2>1 DEF EagerIsLast, MemTyped
  <2>4. slabs' = [slabs EXCEPT ![p].next = saved[t].next, ![p].pos = k]
    BY <1>4, <2>0 DEF Cleanup
  <2>5. slabs' = [slabs EXCEPT ![p] = [slabs[p] EXCEPT !.next = saved[t].next, !.pos = k]]
    BY <1>2, <2>2, <2>4
  <2>6. slabs[p] \in Slab
    BY <1>2, <2>2
  <2>7. /\ slabs' \in [SlabIds -> Slab] /\ slabs'[p].next = slabs[p].next
        /\ slabs'[p].pos = k /\ slabs'[p].cell = slabs[p].cell
        /\ \A q \in SlabIds : q # p => slabs'[q] = slabs[q]
    <3>1. [slabs[p] EXCEPT !.next = saved[t].next, !.pos = k] \in Slab
      BY <2>3, <2>6 DEF Slab
    <3> QED
      BY <1>2, <2>2, <2>3, <2>5, <2>6, <3>1 DEF Slab
  <2>8. ASSUME NEW q \in SlabIds, NEW n \in 1 .. SlabCap
        PROVE  /\ n <= slabs'[q].pos => n <= slabs[q].pos /\ <<q, n>> # eager[t]
               /\ n <= slabs[q].pos => n <= slabs'[q].pos \/ <<q, n>> = eager[t]
    <3>1. CASE q = p
      <4>1. n <= k => n <= k + 1 /\ n # k + 1
        BY <2>3, ConstantsAssumption
      <4>2. n <= k + 1 => n <= k \/ n = k + 1
        BY <2>3, ConstantsAssumption
      <4> QED
        BY <2>3, <2>7, <3>1, <4>1, <4>2
    <3>2. CASE q # p
      BY <2>3, <2>7, <3>2
    <3> QED
      BY <3>1, <3>2
  <2>9. ASSUME NEW q \in SlabIds, q > brk \/ own[q] # slotOf[t] PROVE q # p
    BY <2>2, <2>9, ConstantsAssumption DEF SlabIds, MemTyped
  <2> QED
    BY <2>7, <2>8, <2>9
<1> QED
  BY <1>3, <1>4

LEMMA CleanupInv ==
  ASSUME TableInv, NoSharedSlot, MemTyped, NEW own \in [SlabIds -> Slots], Owned(own),
         NEW t \in Threads, Cleanup(t)
  PROVE  MemTyped' /\ Owned(own)' /\ Stable
<1>0. PICK i, p, n : /\ i = slotOf[t] /\ p = slabPtr[t]
                     /\ n = IF p = Null THEN Null ELSE slabs[p].next
  OBVIOUS
<1>1. /\ pc[t] = "cleanup" /\ pc'[t] = "done"
      /\ \A u \in Threads : u # t => pc'[u] = pc[u]
      /\ last' = IF n = Null THEN last ELSE [last EXCEPT ![i] = n]
      /\ UNCHANGED <<permits, nextSym, start, brk, tables, locals, call>>
  BY <1>0 DEF Cleanup, Goto, TableInv, Typed
<1>2. i \in Slots /\ p = last[i]
  BY <1>0, <1>1 DEF Owned, Local, Loaded, TableInv, Typed, Permitted, Outside
<1>3. p # Null => p \in SlabIds /\ p <= brk /\ own[p] = i
  BY <1>0, <1>1, LoadedSlab DEF Loaded
<1>4. /\ slabs' \in [SlabIds -> Slab]
      /\ \A q \in SlabIds : /\ slabs'[q].next = slabs[q].next /\ slabs'[q].cell = slabs[q].cell
                            /\ q > brk => slabs'[q] = slabs[q]
                            /\ own[q] # i => slabs'[q] = slabs[q]
      /\ \A q \in SlabIds, m \in 1 .. SlabCap :
           /\ m <= slabs'[q].pos => m <= slabs[q].pos /\ <<q, m>> # eager[t]
           /\ m <= slabs[q].pos => m <= slabs'[q].pos \/ <<q, m>> = eager[t]
  BY <1>0, Reverts
<1>5. /\ n # Null => /\ p # Null /\ n \in SlabIds /\ n <= brk /\ own[n] = i
                     /\ slabs[p].next = n /\ slabs[n].next = Null
      /\ n = Null /\ p # Null => slabs[p].next = Null
  <2> SUFFICES ASSUME p # Null, n # Null
               PROVE  n \in SlabIds /\ n <= brk /\ own[n] = i /\ slabs[n].next = Null
    BY <1>0
  <2>1. n = slabs[p].next /\ p \in SlabIds
    BY <1>0, <1>3
  <2>2. n \in SlabIds /\ n <= brk /\ own[n] = i
    BY <1>3, <2>1 DEF Owned, Links, MemTyped, SlabPtr
  <2>3. slabs[n].next = Null
    BY <1>2, <2>1 DEF Owned, Tail
  <2> QED
    BY <2>2, <2>3
<1>6. /\ last'[i] = IF n = Null THEN p ELSE n
      /\ \A j \in Slots : j # i => last'[j] = last[j]
      /\ last' \in [Slots -> SlabPtr]
  <2>1. n \in SlabPtr
    BY <1>5 DEF SlabPtr
  <2> QED
    BY <1>1, <1>2, <2>1 DEF MemTyped
<1>7. MemTyped'
  BY <1>1, <1>4, <1>6 DEF MemTyped, permits, locals, tables, Slab
<1>8. Links(own)'
  <2> SUFFICES ASSUME NEW q \in SlabIds
               PROVE  /\ q > brk => slabs'[q] = EmptySlab
                      /\ slabs'[q].next # Null =>
                           /\ q < slabs'[q].next /\ slabs'[q].next <= brk
                           /\ own[slabs'[q].next] = own[q]
    BY <1>1 DEF Links
  <2> QED
    BY <1>4 DEF Owned, Links
<1>9. Ends(own)'
  <2> SUFFICES ASSUME NEW j \in Slots
               PROVE  /\ start[j] = Null <=> last'[j] = Null
                      /\ start[j] # Null => start[j] <= brk /\ own[start[j]] = j
                      /\ last'[j] # Null => last'[j] <= brk /\ own[last'[j]] = j
    BY <1>1 DEF Ends
  <2>1. /\ start[j] = Null <=> last[j] = Null
        /\ start[j] # Null => start[j] <= brk /\ own[start[j]] = j
        /\ last[j] # Null => last[j] <= brk /\ own[last[j]] = j
    BY DEF Owned, Ends
  <2> QED
    BY <1>2, <1>5, <1>6, <2>1
<1>10. Reached(own)'
  BY <1>1, <1>4 DEF Owned, Reached
<1>11. ASSUME NEW j \in Slots PROVE Tail(j)'
  <2>1. CASE j = i
    <3>1. last'[j] # Null => slabs'[last'[j]].next = Null
      BY <1>3, <1>4, <1>5, <1>6, <2>1
    <3> QED
      BY <3>1 DEF Tail
  <2>2. CASE j # i
    <3>1. last'[j] = last[j] /\ last[j] \in SlabPtr
      BY <1>6, <2>2 DEF MemTyped
    <3> SUFFICES ASSUME last[j] # Null, slabs'[last[j]].next # Null
                 PROVE  /\ slabs'[slabs'[last[j]].next].next = Null
                        /\ \E u \in Threads : slotOf'[u] = j /\ pc'[u] \in Linking
      BY <3>1 DEF Tail
    <3>2. last[j] \in SlabIds
      BY <3>1 DEF SlabPtr
    <3>3. slabs'[last[j]].next = slabs[last[j]].next /\ slabs[last[j]].next \in SlabIds
      BY <1>4, <3>2 DEF MemTyped, SlabPtr
    <3>4. slabs[slabs[last[j]].next].next = Null /\ \E u \in Threads : slotOf[u] = j /\ pc[u] \in Linking
      BY <3>3 DEF Owned, Tail
    <3>5. \A u \in Threads : slotOf[u] = j => u # t
      BY <1>0, <2>2
    <3> QED
      BY <1>1, <1>4, <3>3, <3>4, <3>5 DEF permits
  <2> QED
    BY <2>1, <2>2
<1>12. \A r \in Thin : TextAt(r)' = TextAt(r)
  BY <1>4 DEF TextAt, Thin
<1>13. Pointers(own)' /\ Stable
  <2>1. ASSUME NEW s \in Symbols, toBytes[s] # NoThin
        PROVE  /\ Entry(own, s[1], toBytes[s])' /\ Used(s)'
               /\ TextAt(toBytes[s])' = TextAt(toBytes[s])
    <3>1. PICK e : e = toBytes[s]
      OBVIOUS
    <3>2. Entry(own, s[1], e) /\ Used(s) /\ e \in Thin
      BY <2>1, <3>1 DEF Owned, Pointers, Entry
    <3>3. e # eager[t]
      BY <1>1, <3>1, <3>2 DEF Owned, Local, Holds, Undetermined
    <3>4. e = <<e[1], e[2]>> /\ e[1] \in SlabIds /\ e[2] \in 1 .. SlabCap
      BY <3>2 DEF Thin
    <3>5. e[2] <= slabs'[e[1]].pos
      BY <1>4, <3>2, <3>3, <3>4 DEF Entry
    <3> QED
      BY <1>1, <1>12, <3>1, <3>2, <3>5 DEF Entry, Used, TextAt, tables
  <2> QED
    BY <1>1, <2>1 DEF Owned, Pointers, Stable, tables
<1>14. Covered'
  <2> SUFFICES ASSUME NEW q \in SlabIds, NEW m \in 1 .. SlabCap, q <= brk, m <= slabs'[q].pos
               PROVE  \/ \E s \in Symbols : toBytes[s] = <<q, m>>
                      \/ \E u \in Threads : Holds(u, <<q, m>>)'
    BY <1>1 DEF Covered, tables
  <2>1. m <= slabs[q].pos /\ <<q, m>> # eager[t]
    BY <1>4
  <2>2. ASSUME NEW u \in Threads, Holds(u, <<q, m>>) PROVE Holds(u, <<q, m>>)'
    <3>1. u # t
      BY <1>1, <2>1, <2>2 DEF Holds, Stored
    <3> QED
      BY <1>1, <2>2, <3>1 DEF Holds, locals
  <2> QED
    BY <2>1, <2>2 DEF Owned, Covered
<1>15. ASSUME NEW u \in Threads, u # t PROVE Local(own, u)'
  <2>1. Unmoved(u) /\ BytesKept(u)
    BY <1>1, <1>15 DEF Unmoved, BytesKept, permits, locals, call, tables
  <2>2. ASSUME pc[u] \notin Outside
        PROVE  slotOf[u] \in Slots /\ SlotKept(own, own, slotOf[u])
    <3>1. slotOf[u] \in Slots /\ slotOf[u] # i
      BY <1>0, <1>1, <1>15, <2>2, SlotsApart DEF Outside
    <3> QED
      BY <1>1, <1>4, <1>6, <3>1 DEF SlotKept, MemTyped
  <2> QED
    BY <1>7, <2>1, <2>2, OthersLocal DEF Owned
<1>16. Local(own, t)'
  BY <1>1 DEF Local, Holds, Loaded, Undetermined, Stored, Numbered
<1> QED
  BY <1>7, <1>8, <1>9, <1>10, <1>11, <1>13, <1>14, <1>15, <1>16 DEF Owned

-----------------------------------------------------------------------------
(* The invariant and what it says *)

LEMMA InitSlabInv == Init => SlabInv
<1> SUFFICES ASSUME Init PROVE SlabInv
  OBVIOUS
<1>1. \A k \in Keys : Lookup(k) = NoSym
  BY ConstantsAssumption DEF Init, Lookup
<1>2. TypeOK
  <2>1. Typed
    BY InitTableInv DEF TableInv
  <2>2. MemTyped
    BY ConstantsAssumption DEF Init, MemTyped, EmptySlab, EmptyHeader, SlabPtr
  <2> QED
    BY <2>1, <2>2, TypeParts
<1>3. PICK own \in [SlabIds -> Slots] : TRUE
  <2>1. 0 \in Slots
    BY ConstantsAssumption DEF Slots
  <2>2. [p \in SlabIds |-> 0] \in [SlabIds -> Slots]
    BY <2>1
  <2> QED
    BY <2>2
<1>4. /\ brk = 0 /\ slabs = [p \in SlabIds |-> EmptySlab]
      /\ \A i \in Slots : start[i] = Null /\ last[i] = Null
      /\ \A s \in Symbols : toBytes[s] = NoThin
      /\ \A t \in Threads : pc[t] = "idle" /\ eager[t] = NoThin
  BY DEF Init
<1>5. \A p \in SlabIds : ~(p <= brk) /\ slabs[p].next = Null
  BY <1>4, ConstantsAssumption DEF SlabIds, EmptySlab
<1>6. Links(own) /\ Ends(own) /\ Reached(own) /\ Pointers(own) /\ Covered
  BY <1>4, <1>5 DEF Links, Ends, Reached, Pointers, Covered
<1>7. \A i \in Slots : Tail(i)
  BY <1>4 DEF Tail
<1>8. \A t \in Threads : Local(own, t)
  BY <1>4 DEF Local, Holds, Loaded, Undetermined, Stored, Numbered
<1> QED
  BY <1>1, <1>2, <1>3, <1>6, <1>7, <1>8 DEF SlabInv, Owned, PublishedSymbolsResolve

LEMMA SlabStep ==
  ASSUME TableInv, TableInv', NoSharedSlot, SlabInv, [Next]_vars
  PROVE  SlabInv' /\ Stable
<1>1. MemTyped
  BY TypeHasMem DEF SlabInv
<1>2. PICK own \in [SlabIds -> Slots] : Owned(own)
  BY DEF SlabInv
<1>3. CASE UNCHANGED vars
  <2>1. TypeOK' /\ PublishedSymbolsResolve' /\ Stable
    BY <1>3 DEF SlabInv, TypeOK, PublishedSymbolsResolve, Lookup, TextAt, Stable, vars,
       permits, memory, tables, locals, call
  <2>2. Links(own)' /\ Ends(own)' /\ Reached(own)' /\ \A i \in Slots : Tail(i)'
    BY <1>2, <1>3 DEF Owned, Links, Ends, Reached, Tail, vars, permits, memory
  <2>3. Pointers(own)' /\ Covered'
    BY <1>2, <1>3 DEF Owned, Pointers, Entry, Used, Covered, Holds, vars, memory, tables, locals
  <2>4. ASSUME NEW u \in Threads PROVE Local(own, u)'
    <3>1. Unmoved(u) /\ BytesKept(u) /\ \A i : SlotKept(own, own, i)
      BY <1>1, <1>3 DEF Unmoved, BytesKept, SlotKept, MemTyped, vars, permits, memory, tables,
         locals, call
    <3>2. MemTyped'
      BY <1>1, <1>3 DEF MemTyped, vars, permits, memory, tables, locals
    <3>3. pc[u] \notin Outside => slotOf[u] \in Slots
      BY DEF TableInv, Typed, Permitted
    <3> QED
      BY <1>1, <1>2, <3>1, <3>2, <3>3, OthersLocal DEF Owned
  <2> QED
    BY <2>1, <2>2, <2>3, <2>4 DEF SlabInv, Owned
<1>4. ASSUME NEW t \in Threads, Step(t) PROVE SlabInv' /\ Stable
  <2>1. MemTyped' /\ Stable /\ \E new \in [SlabIds -> Slots] : Owned(new)'
    <3>1. CASE Quiet(t)
      BY <1>1, <1>2, <3>1, QuietInv
    <3>2. CASE EagerWrite(t)
      BY <1>1, <1>2, <3>2, EagerWriteInv
    <3>3. CASE FillFirst(t)
      BY <1>1, <1>2, <3>3, FillFirstInv
    <3>4. CASE FillLast(t) /\ HasRoom(slabPtr[t])
      BY <1>1, <1>2, <3>4, FillRoomInv
    <3>5. CASE FillLast(t) /\ ~HasRoom(slabPtr[t])
      BY <1>1, <1>2, <3>5, FillNextInv
    <3>6. CASE PutBytes(t)
      BY <1>1, <1>2, <3>6, PutBytesInv
    <3>7. CASE Cleanup(t)
      BY <1>1, <1>2, <3>7, CleanupInv
    <3> QED
      BY <1>4, <3>1, <3>2, <3>3, <3>4, <3>5, <3>6, <3>7, StepKinds DEF Quiet, Private
  <2>2. TypeOK'
    <3>1. Typed'
      BY DEF TableInv
    <3>2. (Typed /\ MemTyped => TypeOK)'
      BY DEF Typed, MemTyped, TypeOK, Outside, Undecided, Critical, Decided
    <3> QED
      BY <2>1, <3>1, <3>2
  <2>3. PublishedSymbolsResolve'
    BY <1>2, <1>4, <2>1, ResolveStep DEF SlabInv
  <2> QED
    BY <2>1, <2>2, <2>3 DEF SlabInv
<1> QED
  BY <1>3, <1>4 DEF Next

LEMMA LeastNat ==
  ASSUME NEW T \in SUBSET Nat, T # {}
  PROVE  \E x \in T : \A y \in T : ~(y < x)
<1>1. PICK x \in T : \A y \in T : ~(<<y, x>> \in OpToRel(<, Nat))
  BY WFMin, NatLessThanWellFounded, Zenon
<1>2. ASSUME NEW y \in T PROVE ~(y < x)
  <2>1. ~(<<y, x>> \in {ss \in Nat \X Nat : ss[1] < ss[2]})
    BY <1>1, Zenon DEF OpToRel
  <2>2. <<y, x>> \in Nat \X Nat
    OBVIOUS
  <2> QED
    BY <2>1, <2>2
<1> QED
  BY <1>2

\* The slabs on the list of a slot are the ones allocated for it.
LEMMA ChainIsOwned ==
  ASSUME MemTyped, NEW own \in [SlabIds -> Slots], Owned(own), NEW i \in Slots
  PROVE  Chain(i) = {p \in SlabIds : p <= brk /\ own[p] = i}
<1> DEFINE D == {p \in SlabIds : p <= brk /\ own[p] = i}
<1>1. D \in SUBSET SlabIds /\ Linked(i, D)
  <2>1. start[i] \in D \cup {Null}
    BY DEF Owned, Ends, MemTyped, SlabPtr
  <2>2. \A p \in D : slabs[p].next \in D \cup {Null}
    BY DEF Owned, Links, MemTyped, SlabPtr
  <2> QED
    BY <2>1, <2>2 DEF Linked
<1>2. Chain(i) \subseteq D
  BY <1>1 DEF Chain
<1>3. ASSUME NEW S \in SUBSET SlabIds, Linked(i, S) PROVE D \subseteq S
  <2>1. SUFFICES ASSUME D \ S # {} PROVE FALSE
    OBVIOUS
  <2>2. D \ S \in SUBSET Nat
    BY ConstantsAssumption DEF SlabIds
  <2>3. PICK p \in D \ S : \A q \in D \ S : ~(q < p)
    BY <2>1, <2>2, LeastNat
  <2>4. p # Null /\ p \in Nat
    BY ConstantsAssumption DEF SlabIds, Null
  <2>5. start[i] # p
    BY <1>3, <2>3, <2>4 DEF Linked
  <2>6. PICK q \in SlabIds : slabs[q].next = p
    BY <2>3, <2>5 DEF Owned, Reached
  <2>7. q < p /\ own[q] = i
    BY <2>3, <2>4, <2>6 DEF Owned, Links
  <2>8. q <= brk
    BY <2>3, <2>4, <2>7, ConstantsAssumption DEF SlabIds, MemTyped
  <2>9. q \in S
    BY <2>3, <2>6, <2>7, <2>8
  <2> QED
    BY <1>3, <2>3, <2>4, <2>6, <2>9 DEF Linked
<1> QED
  BY <1>2, <1>3 DEF Chain

LEMMA SlabInvNoLeak == SlabInv => NoSlabLeak
<1> SUFFICES ASSUME SlabInv,
                    \A t \in Threads : pc[t] \in {"idle", "scan", "look", "done"}
             PROVE  /\ UNION {Chain(i) : i \in Slots} = 1 .. brk
                    /\ \A i, j \in Slots : i # j => Chain(i) \cap Chain(j) = {}
                    /\ \A i \in Slots : \A p \in Chain(i) : \A n \in 1 .. slabs[p].pos :
                         \E s \in Symbols : s[1] = i /\ toBytes[s] = <<p, n>>
                    /\ \A s, r \in Symbols :
                         s # r /\ toBytes[s] = toBytes[r] => toBytes[s] = NoThin
  BY DEF NoSlabLeak
<1>1. PICK own \in [SlabIds -> Slots] : Owned(own)
  BY DEF SlabInv
<1>2. MemTyped
  BY TypeHasMem DEF SlabInv
<1>3. \A i \in Slots : Chain(i) = {p \in SlabIds : p <= brk /\ own[p] = i}
  BY <1>1, <1>2, ChainIsOwned
<1>4. UNION {Chain(i) : i \in Slots} = 1 .. brk
  <2>1. \A p : p \in 1 .. brk <=> p \in SlabIds /\ p <= brk
    BY <1>2, ConstantsAssumption DEF MemTyped, SlabIds
  <2>2. \A p : p \in UNION {Chain(i) : i \in Slots} <=> p \in SlabIds /\ p <= brk
    BY <1>3
  <2> QED
    BY <2>1, <2>2
<1>5. \A i, j \in Slots : i # j => Chain(i) \cap Chain(j) = {}
  BY <1>3
<1>6. ASSUME NEW i \in Slots, NEW p \in Chain(i), NEW n \in 1 .. slabs[p].pos
      PROVE  \E s \in Symbols : s[1] = i /\ toBytes[s] = <<p, n>>
  <2>1. p \in SlabIds /\ p <= brk /\ own[p] = i
    BY <1>3, <1>6
  <2>2. n \in 1 .. SlabCap /\ n <= slabs[p].pos
    <3>1. slabs[p].pos \in 0 .. SlabCap
      BY <1>2, <2>1 DEF MemTyped
    <3> QED
      BY <3>1, ConstantsAssumption
  <2>3. \A t \in Threads : ~Holds(t, <<p, n>>)
    BY DEF Holds, Undetermined, Stored
  <2>4. PICK s \in Symbols : toBytes[s] = <<p, n>>
    BY <1>1, <2>1, <2>2, <2>3 DEF Owned, Covered
  <2>5. <<p, n>> # NoThin
    BY <2>1, ConstantsAssumption DEF NoThin, SlabIds
  <2>6. Entry(own, s[1], <<p, n>>)
    BY <1>1, <2>4, <2>5 DEF Owned, Pointers
  <2>7. own[p] = s[1]
    BY <2>6 DEF Entry
  <2> QED
    BY <2>1, <2>4, <2>7
<1>7. \A s, r \in Symbols : s # r /\ toBytes[s] = toBytes[r] => toBytes[s] = NoThin
  BY <1>1 DEF Owned, Pointers
<1> QED
  BY <1>4, <1>5, <1>6, <1>7

LEMMA SlabInvHolds == Spec /\ []NoSharedSlot => []SlabInv
<1>1. TableInv /\ TableInv' /\ NoSharedSlot /\ SlabInv /\ [Next]_vars => SlabInv'
  BY SlabStep
<1> QED
  BY <1>1, InitSlabInv, TableInvariant, PTL DEF Spec

\* As long as no two threads with a permit write through one slot, the slab
\* memory is sound, whatever the threads' calls do to each other: the types
\* hold, every symbol a reader can see resolves to its string, between calls no
\* slab and no entry is lost or used twice, and the bytes behind a symbol stay.
THEOREM SlabInvariant ==
  Spec /\ []NoSharedSlot =>
    [](TypeOK /\ PublishedSymbolsResolve /\ NoSlabLeak) /\ BytesStable
<1>1. SlabInv => TypeOK /\ PublishedSymbolsResolve /\ NoSlabLeak
  BY SlabInvNoLeak DEF SlabInv
<1>2. ASSUME TableInv, TableInv', NoSharedSlot, SlabInv, [Next]_vars
      PROVE  [\A s \in Symbols : toBytes[s] # NoThin =>
                /\ toBytes'[s] = toBytes[s]
                /\ TextAt(toBytes[s])' = TextAt(toBytes[s])]_vars
  BY <1>2, SlabStep DEF Stable
<1> QED
  BY <1>1, <1>2, SlabInvHolds, TableInvariant, PTL DEF Spec, BytesStable

\* One session per thread keeps the slots apart (WritePermit::drop is then
\* never followed by a reuse of the slot index it leaves in the thread).
LEMMA OneSession ==
  ASSUME MaxSessions = 1
  PROVE  Spec => []NoSharedSlot
<1>1. SlotExclusive => NoSharedSlot
  BY DEF SlotExclusive, NoSharedSlot
<1> QED
  BY <1>1, Exclusive, PTL

\* The interner never leaves its types: no slab is filled past its end, no
\* slot's counters or pointers run out of range.
THEOREM TypeCorrect ==
  ASSUME MaxSessions = 1
  PROVE  Spec => []TypeOK
BY OneSession, SlabInvariant, PTL

\* get_bytes never misses a symbol that get_sym or get_sym_or_insert has given
\* out, nor returns another string for it.
THEOREM Resolves ==
  ASSUME MaxSessions = 1
  PROVE  Spec => []PublishedSymbolsResolve
BY OneSession, SlabInvariant, PTL

\* The revert of an unused eager write, the links to new slabs and the late move
\* of symbol_table_last lose no slab and no entry, and use none twice.
THEOREM NothingLeaks ==
  ASSUME MaxSessions = 1
  PROVE  Spec => []NoSlabLeak
BY OneSession, SlabInvariant, PTL

\* A slice that get_bytes has handed out never changes under its reader.
THEOREM SlicesStay ==
  ASSUME MaxSessions = 1
  PROVE  Spec => BytesStable
BY OneSession, SlabInvariant, PTL
==============================================================================
