------------------------------ MODULE Interning ------------------------------
(***************************************************************************)
(* The concurrent symbol interner (interning/src).  Threads acquire a      *)
(* write permit, which gives them one of the permission slots, and intern  *)
(* byte strings through get_sym_or_insert.  A slot owns a symbol counter   *)
(* and an append-only list of slabs that hold the bytes; to_symbol maps    *)
(* strings to symbols in buckets picked by a hash, each under its own      *)
(* RwLock; to_bytes maps symbols to pointers into the slabs.               *)
(*                                                                         *)
(* Every step below is a stretch of code between two points where another  *)
(* thread can observe or disturb it.  Entries have unit size: a slab holds *)
(* SlabCap strings.                                                        *)
(***************************************************************************)
EXTENDS Naturals

CONSTANTS
  Threads,      \* threads that use the mapping
  Keys,         \* byte strings
  Buckets,      \* indices of to_symbol
  BucketOf,     \* bounded_pearson_hash(bytes) % MAX_WRITER_THREADS
  NSlots,       \* MAX_WRITER_THREADS
  SlabCap,      \* strings per slab
  MaxSlabs,     \* bound: slabs ever allocated
  MaxId,        \* bound: symbols per slot (2^40 in the code)
  MaxLive,      \* bound: permits one thread holds at once
  MaxSessions,  \* bound: how often a thread goes from no permit to one
  NoThread, NoKey, NoSym, NoSlot

Slots   == 0 .. NSlots - 1
Ids     == 0 .. MaxId
Symbols == Slots \X Ids
SlabIds == 1 .. MaxSlabs
Null    == 0
SlabPtr == SlabIds \cup {Null}
NoThin  == <<0, 0>>
Thin    == SlabIds \X (1 .. SlabCap)

ASSUME ConstantsAssumption ==
  /\ NSlots \in Nat \ {0}
  /\ SlabCap \in Nat \ {0}
  /\ {MaxSlabs, MaxId, MaxLive, MaxSessions} \subseteq Nat
  /\ BucketOf \in [Keys -> Buckets]
  /\ NoThread \notin Threads
  /\ NoKey \notin Keys
  /\ NoSym \notin Symbols
  /\ NoSlot \notin Slots

VARIABLES
  owner,     \* ThreadPermission.thread_id of each slot
  nextSym,   \* ThreadPermission.next_symbol, the id part
  start,     \* ThreadPermission.symbol_table_start
  last,      \* ThreadPermission.symbol_table_last
  slabs,     \* the heap: header and contents of each slab
  brk,       \* slabs allocated so far
  slotOf,    \* MAPPING_THREAD_INDEX, thread local
  live,      \* LIVE_PERMIT_HANDLES, thread local
  sessions,  \* times a thread went from no permit to one
  toSymbol,  \* the buckets of to_symbol
  symLock,   \* writer of each to_symbol bucket
  toBytes,   \* to_bytes; the slot of a symbol selects its table
  pc,        \* where a thread is
  scan,      \* the slot try_aquire_permission looks at
  req, ret,  \* argument and decided result of the call
  slabPtr,   \* get_sym_or_insert: slab_ptr
  eager,     \* the bytes written eagerly, and not used yet
  saved,     \* the slab header to restore if they stay unused
  thin,      \* thin_bytes_ptr
  newSym     \* new_sym

permits == <<owner, slotOf, live, sessions, scan>>
memory  == <<nextSym, start, last, slabs, brk>>
tables  == <<toSymbol, symLock, toBytes>>
locals  == <<slabPtr, eager, saved, thin, newSym>>
call    == <<req, ret>>
vars    == <<permits, memory, tables, locals, call, pc>>

Goto(t, from, to) == pc[t] = from /\ pc' = [pc EXCEPT ![t] = to]

Bucket(t) == BucketOf[req[t]]
Lookup(k) == toSymbol[BucketOf[k]][k]

\* ThinBytes::as_raw_slice: the string a pointer points to.
TextAt(p) == slabs[p[1]].cell[p[2]]

EmptyHeader == [next |-> Null, pos |-> 0]
EmptySlab   == [next |-> Null, pos |-> 0, cell |-> [i \in 1 .. SlabCap |-> NoKey]]
Header(p)   == [next |-> slabs[p].next, pos |-> slabs[p].pos]
HasRoomOrFull(p) == slabs[p].pos <= SlabCap   \* faulty HasRoom: off by one
HasRoom(p)  == slabs[p].pos < SlabCap

\* ThreadPermission::init: symbol 0 is kept free.
FirstIdZero(i) == 0       \* faulty FirstId
FirstId(i) == IF i = 0 THEN 1 ELSE 0

Init ==
  /\ owner = [i \in Slots |-> NoThread]
  /\ nextSym = [i \in Slots |-> FirstId(i)]
  /\ start = [i \in Slots |-> Null]
  /\ last = [i \in Slots |-> Null]
  /\ slabs = [p \in SlabIds |-> EmptySlab]
  /\ brk = 0
  /\ slotOf = [t \in Threads |-> NoSlot]
  /\ live = [t \in Threads |-> 0]
  /\ sessions = [t \in Threads |-> 0]
  /\ toSymbol = [b \in Buckets |-> [k \in Keys |-> NoSym]]
  /\ symLock = [b \in Buckets |-> NoThread]
  /\ toBytes = [s \in Symbols |-> NoThin]
  /\ pc = [t \in Threads |-> "idle"]
  /\ scan = [t \in Threads |-> 0]
  /\ req = [t \in Threads |-> NoKey]
  /\ ret = [t \in Threads |-> NoSym]
  /\ slabPtr = [t \in Threads |-> Null]
  /\ eager = [t \in Threads |-> NoThin]
  /\ saved = [t \in Threads |-> EmptyHeader]
  /\ thin = [t \in Threads |-> NoThin]
  /\ newSym = [t \in Threads |-> NoSym]

-----------------------------------------------------------------------------
(* Permits *)

\* A thread may take another permit while it holds one (MaxLive), and start
\* over after it has dropped them all (MaxSessions).
MayAcquire(t) ==
  IF live[t] = 0 THEN sessions[t] < MaxSessions ELSE live[t] < MaxLive

TakePermit(t) ==
  /\ live' = [live EXCEPT ![t] = @ + 1]
  /\ sessions' = [sessions EXCEPT ![t] = IF live[t] = 0 THEN @ + 1 ELSE @]

\* try_aquire_permission, when the thread already has a slot index.
Reacquire(t) ==
  /\ pc[t] = "idle"
  /\ MayAcquire(t)
  /\ slotOf[t] # NoSlot
  /\ TakePermit(t)
  /\ UNCHANGED <<owner, slotOf, scan, memory, tables, locals, call, pc>>

\* try_aquire_permission, when it has none: scan the slots from 0.
StartScan(t) ==
  /\ MayAcquire(t)
  /\ slotOf[t] = NoSlot
  /\ Goto(t, "idle", "scan")
  /\ scan' = [scan EXCEPT ![t] = 0]
  /\ UNCHANGED <<owner, slotOf, live, sessions, memory, tables, locals, call>>

\* Faulty Claim: the slot is taken without looking at its owner.
ClaimBlindly(t) ==
  /\ Goto(t, "scan", "idle")
  /\ scan[t] \in Slots
  /\ owner' = [owner EXCEPT ![scan[t]] = t]
  /\ slotOf' = [slotOf EXCEPT ![t] = scan[t]]
  /\ TakePermit(t)
  /\ UNCHANGED <<scan, memory, tables, locals, call>>

\* The compare_exchange on the slot under the scan succeeds.
Claim(t) ==
  /\ Goto(t, "scan", "idle")
  /\ scan[t] \in Slots
  /\ owner[scan[t]] = NoThread
  /\ owner' = [owner EXCEPT ![scan[t]] = t]
  /\ slotOf' = [slotOf EXCEPT ![t] = scan[t]]
  /\ TakePermit(t)
  /\ UNCHANGED <<scan, memory, tables, locals, call>>

\* It fails: go on to the next slot.
Pass(t) ==
  /\ pc[t] = "scan"
  /\ scan[t] \in Slots
  /\ owner[scan[t]] # NoThread
  /\ scan' = [scan EXCEPT ![t] = @ + 1]
  /\ UNCHANGED <<owner, slotOf, live, sessions, memory, tables, locals, call, pc>>

\* No slot was free when the scan looked at it: Err(()).
GiveUp(t) ==
  /\ scan[t] = NSlots
  /\ Goto(t, "scan", "idle")
  /\ UNCHANGED <<permits, memory, tables, locals, call>>

\* Faulty Drop: every dropped permit clears the slot, not only the last one.
DropEagerly(t) ==
  /\ pc[t] = "idle"
  /\ live[t] > 0
  /\ live' = [live EXCEPT ![t] = @ - 1]
  /\ owner' = [owner EXCEPT ![slotOf[t]] = NoThread]
  /\ UNCHANGED <<slotOf, sessions, scan, memory, tables, locals, call, pc>>

\* WritePermit::drop.  The last permit of the thread clears the slot's
\* thread_id; the thread-local slot index stays.
Drop(t) ==
  /\ pc[t] = "idle"
  /\ live[t] > 0
  /\ live' = [live EXCEPT ![t] = @ - 1]
  /\ owner' = IF live[t] = 1 THEN [owner EXCEPT ![slotOf[t]] = NoThread] ELSE owner
  /\ UNCHANGED <<slotOf, sessions, scan, memory, tables, locals, call, pc>>

-----------------------------------------------------------------------------
(* get_sym_or_insert *)

Begin(t, k) ==
  /\ Goto(t, "idle", "look")
  /\ live[t] > 0
  /\ req' = [req EXCEPT ![t] = k]
  /\ UNCHANGED <<permits, memory, tables, locals, ret>>

\* The first get_sym, under the bucket's read lock.
Look(t) ==
  /\ pc[t] = "look"
  /\ symLock[Bucket(t)] = NoThread
  /\ ret' = [ret EXCEPT ![t] = Lookup(req[t])]
  /\ pc' = [pc EXCEPT ![t] = IF Lookup(req[t]) = NoSym THEN "prepare" ELSE "done"]
  /\ UNCHANGED <<permits, memory, tables, locals, req>>

\* Load slab_ptr; if its slab has room, keep a copy of the header.
Prepare(t) ==
  LET p == last[slotOf[t]]
      room == start[slotOf[t]] # Null /\ HasRoom(p)
  IN /\ Goto(t, "prepare", IF room THEN "eager" ELSE "recheck")
     /\ slabPtr' = [slabPtr EXCEPT ![t] = p]
     /\ saved' = [saved EXCEPT ![t] = IF room THEN Header(p) ELSE EmptyHeader]
     /\ UNCHANGED <<permits, memory, tables, eager, thin, newSym, call>>

\* Slab::register_bytes on a slab with room, before the lock is taken.  The
\* write goes where the header that was read says; write_pos is added to.
EagerWrite(t) ==
  LET p == slabPtr[t]
      i == saved[t].pos + 1
  IN /\ Goto(t, "eager", "recheck")
     /\ slabs' = [slabs EXCEPT ![p].cell[i] = req[t], ![p].pos = @ + 1]
     /\ eager' = [eager EXCEPT ![t] = <<p, i>>]
     /\ UNCHANGED <<permits, nextSym, start, last, brk, tables, slabPtr, saved,
                    thin, newSym, call>>

\* Faulty Recheck: a thread that was beaten keeps the bucket's lock.
RecheckKeepsLock(t) ==
  LET found == Lookup(req[t]) # NoSym
  IN /\ Goto(t, "recheck", IF found THEN "cleanup" ELSE "fill")
     /\ symLock[Bucket(t)] = NoThread
     /\ symLock' = [symLock EXCEPT ![Bucket(t)] = t]
     /\ ret' = [ret EXCEPT ![t] = Lookup(req[t])]
     /\ UNCHANGED <<permits, memory, toSymbol, toBytes, locals, req>>

\* Faulty Recheck: the lock is taken, but nobody looks again.
LockOnly(t) ==
  /\ Goto(t, "recheck", "fill")
  /\ symLock[Bucket(t)] = NoThread
  /\ symLock' = [symLock EXCEPT ![Bucket(t)] = t]
  /\ UNCHANGED <<permits, memory, toSymbol, toBytes, locals, call>>

\* Take the bucket's write lock and look again.  If another thread has beaten
\* us the lock is dropped at once, otherwise it is kept.
Recheck(t) ==
  LET found == Lookup(req[t]) # NoSym
  IN /\ Goto(t, "recheck", IF found THEN "cleanup" ELSE "fill")
     /\ symLock[Bucket(t)] = NoThread
     /\ symLock' = IF found THEN symLock ELSE [symLock EXCEPT ![Bucket(t)] = t]
     /\ ret' = [ret EXCEPT ![t] = Lookup(req[t])]
     /\ UNCHANGED <<permits, memory, toSymbol, toBytes, locals, req>>

\* Faulty UseEager: the recovery copy is not dropped.
UseEagerKeepRecovery(t) ==
  /\ Goto(t, "fill", "number")
  /\ eager[t] # NoThin
  /\ thin' = [thin EXCEPT ![t] = eager[t]]
  /\ UNCHANGED <<permits, memory, tables, slabPtr, eager, saved, newSym, call>>

\* The eager write pays off.
UseEager(t) ==
  /\ Goto(t, "fill", "number")
  /\ eager[t] # NoThin
  /\ thin' = [thin EXCEPT ![t] = eager[t]]
  /\ eager' = [eager EXCEPT ![t] = NoThin]
  /\ UNCHANGED <<permits, memory, tables, slabPtr, saved, newSym, call>>

\* No eager write and no slab yet: allocate the first one and write there.
FillFirst(t) ==
  LET p == brk + 1
  IN /\ Goto(t, "fill", "number")
     /\ eager[t] = NoThin
     /\ slabPtr[t] = Null
     /\ brk < MaxSlabs
     /\ brk' = p
     /\ start' = [start EXCEPT ![slotOf[t]] = p]
     /\ last' = [last EXCEPT ![slotOf[t]] = p]
     /\ slabs' = [slabs EXCEPT ![p].cell[1] = req[t], ![p].pos = 1]
     /\ slabPtr' = [slabPtr EXCEPT ![t] = p]
     /\ thin' = [thin EXCEPT ![t] = <<p, 1>>]
     /\ UNCHANGED <<permits, nextSym, tables, eager, saved, newSym, call>>

\* No eager write: Slab::register_bytes on the last slab, which links a new
\* slab behind it when it is full.
FillLast(t) ==
  LET full == ~HasRoom(slabPtr[t])
      p == IF full THEN brk + 1 ELSE slabPtr[t]
      i == slabs[p].pos + 1
  IN /\ Goto(t, "fill", "number")
     /\ eager[t] = NoThin
     /\ slabPtr[t] # Null
     /\ p <= MaxSlabs
     /\ brk' = IF full THEN p ELSE brk
     /\ slabs' = [slabs EXCEPT ![slabPtr[t]].next = IF full THEN p ELSE @,
                               ![p].cell[i] = req[t], ![p].pos = i]
     /\ thin' = [thin EXCEPT ![t] = <<p, i>>]
     /\ UNCHANGED <<permits, nextSym, start, last, tables, slabPtr, eager, saved,
                    newSym, call>>

\* next_symbol.fetch_add(1).
Number(t) ==
  LET i == slotOf[t]
  IN /\ Goto(t, "number", "bytes")
     /\ nextSym[i] <= MaxId
     /\ newSym' = [newSym EXCEPT ![t] = <<i, nextSym[i]>>]
     /\ nextSym' = [nextSym EXCEPT ![i] = @ + 1]
     /\ UNCHANGED <<permits, start, last, slabs, brk, tables, slabPtr, eager, saved,
                    thin, call>>

\* Insert into to_bytes under its write lock.
PutBytes(t) ==
  /\ Goto(t, "bytes", "publish")
  /\ toBytes' = [toBytes EXCEPT ![newSym[t]] = thin[t]]
  /\ UNCHANGED <<permits, memory, toSymbol, symLock, locals, call>>

\* Insert into to_symbol and drop the bucket's lock.
Publish(t) ==
  /\ Goto(t, "publish", "cleanup")
  /\ toSymbol' = [toSymbol EXCEPT ![Bucket(t)][req[t]] = newSym[t]]
  /\ symLock' = [symLock EXCEPT ![Bucket(t)] = NoThread]
  /\ ret' = [ret EXCEPT ![t] = newSym[t]]
  /\ UNCHANGED <<permits, memory, toBytes, locals, req>>

\* Faulty Cleanup: the unused eager write is not reverted.
CleanupNoRevert(t) ==
  LET p == slabPtr[t]
      next == IF p = Null THEN Null ELSE slabs[p].next
  IN /\ Goto(t, "cleanup", "done")
     /\ last' = IF next = Null THEN last ELSE [last EXCEPT ![slotOf[t]] = next]
     /\ UNCHANGED <<permits, nextSym, start, slabs, brk, tables, locals, call>>

\* After the lock: move symbol_table_last on to a slab linked meanwhile, and
\* put the slab header back if the eager write was not used.
Cleanup(t) ==
  LET p == slabPtr[t]
      next == IF p = Null THEN Null ELSE slabs[p].next
  IN /\ Goto(t, "cleanup", "done")
     /\ last' = IF next = Null THEN last ELSE [last EXCEPT ![slotOf[t]] = next]
     /\ slabs' = IF eager[t] = NoThin THEN slabs
                 ELSE [slabs EXCEPT ![p].next = saved[t].next, ![p].pos = saved[t].pos]
     /\ UNCHANGED <<permits, nextSym, start, brk, tables, locals, call>>

\* The call returns: its locals are gone.
Return(t) ==
  /\ Goto(t, "done", "idle")
  /\ req' = [req EXCEPT ![t] = NoKey]
  /\ ret' = [ret EXCEPT ![t] = NoSym]
  /\ slabPtr' = [slabPtr EXCEPT ![t] = Null]
  /\ eager' = [eager EXCEPT ![t] = NoThin]
  /\ saved' = [saved EXCEPT ![t] = EmptyHeader]
  /\ thin' = [thin EXCEPT ![t] = NoThin]
  /\ newSym' = [newSym EXCEPT ![t] = NoSym]
  /\ UNCHANGED <<permits, memory, tables>>

Insertion(t) ==
  \/ Look(t) \/ Prepare(t) \/ EagerWrite(t) \/ Recheck(t)
  \/ UseEager(t) \/ FillFirst(t) \/ FillLast(t)
  \/ Number(t) \/ PutBytes(t) \/ Publish(t) \/ Cleanup(t) \/ Return(t)

Step(t) ==
  \/ Reacquire(t) \/ StartScan(t) \/ Claim(t) \/ Pass(t) \/ GiveUp(t) \/ Drop(t)
  \/ \E k \in Keys : Begin(t, k)
  \/ Insertion(t)

Next == \E t \in Threads : Step(t)

Spec == Init /\ [][Next]_vars

\* A thread inside a call is never stopped for ever by the scheduler.
FairSpec == Spec /\ \A t \in Threads : WF_vars(Insertion(t))

-----------------------------------------------------------------------------
(* Properties *)

TypeOK ==
  /\ owner \in [Slots -> Threads \cup {NoThread}]
  /\ nextSym \in [Slots -> Nat]
  /\ start \in [Slots -> SlabPtr]
  /\ last \in [Slots -> SlabPtr]
  /\ slabs \in [SlabIds -> [next : SlabPtr, pos : 0 .. SlabCap,
                            cell : [1 .. SlabCap -> Keys \cup {NoKey}]]]
  /\ brk \in 0 .. MaxSlabs
  /\ slotOf \in [Threads -> Slots \cup {NoSlot}]
  /\ live \in [Threads -> Nat]
  /\ sessions \in [Threads -> Nat]
  /\ toSymbol \in [Buckets -> [Keys -> Symbols \cup {NoSym}]]
  /\ symLock \in [Buckets -> Threads \cup {NoThread}]
  /\ toBytes \in [Symbols -> Thin \cup {NoThin}]
  /\ pc \in [Threads -> {"idle", "scan", "look", "prepare", "eager", "recheck", "fill",
                         "number", "bytes", "publish", "cleanup", "done"}]
  /\ scan \in [Threads -> 0 .. NSlots]
  /\ req \in [Threads -> Keys \cup {NoKey}]
  /\ ret \in [Threads -> Symbols \cup {NoSym}]
  /\ slabPtr \in [Threads -> SlabPtr]
  /\ eager \in [Threads -> Thin \cup {NoThin}]
  /\ saved \in [Threads -> [next : SlabPtr, pos : 0 .. SlabCap]]
  /\ thin \in [Threads -> Thin \cup {NoThin}]
  /\ newSym \in [Threads -> Symbols \cup {NoSym}]

\* "Once a thread has a permission it is the only one allowed to change those
\* atomic fields" (get_sym_or_insert): a thread with a live permit owns its
\* slot.  The Relaxed orderings and the unlocked slab writes rest on this.
SlotExclusive ==
  \A t \in Threads : live[t] > 0 => slotOf[t] # NoSlot /\ owner[slotOf[t]] = t

\* The same comment, read literally: no two threads with a permit write through
\* the same slot.
NoSharedSlot ==
  \A t, u \in Threads :
    t # u /\ live[t] > 0 /\ live[u] > 0 => slotOf[t] # slotOf[u]

\* A symbol that any reader can get from to_symbol resolves through to_bytes
\* to slab memory that holds the string it was made for: no window in which
\* get_bytes misses a published symbol, and no later eager write, rollback or
\* slab switch of any thread corrupts it.
PublishedSymbolsResolve ==
  \A k \in Keys : Lookup(k) # NoSym =>
    /\ toBytes[Lookup(k)] # NoThin
    /\ TextAt(toBytes[Lookup(k)]) = k

\* get_bytes hands out a slice that outlives the table's lock, so the bytes
\* behind a symbol never change once the symbol is in to_bytes.
BytesStable ==
  [][\A s \in Symbols : toBytes[s] # NoThin =>
       /\ toBytes'[s] = toBytes[s]
       /\ TextAt(toBytes[s])' = TextAt(toBytes[s])]_vars

\* The slabs that hang on the list of a slot: in every set that holds the
\* first one and, with a slab, the next.
Linked(i, S) ==
  /\ start[i] \in S \cup {Null}
  /\ \A p \in S : slabs[p].next \in S \cup {Null}
Chain(i) == {p \in SlabIds : \A S \in SUBSET SlabIds : Linked(i, S) => p \in S}

\* "If we find out someone else has beat us to adding it to the store, we want
\* to revert our eager write" (get_sym_or_insert): between calls every used
\* entry of a slot's slabs belongs to a symbol, no entry is used twice, and
\* every slab hangs on the list of one slot, which Drop frees.
NoSlabLeak ==
  (\A t \in Threads : pc[t] \in {"idle", "scan", "look", "done"}) =>
     /\ UNION {Chain(i) : i \in Slots} = 1 .. brk
     /\ \A i, j \in Slots : i # j => Chain(i) \cap Chain(j) = {}
     /\ \A i \in Slots : \A p \in Chain(i) : \A n \in 1 .. slabs[p].pos :
          \E s \in Symbols : s[1] = i /\ toBytes[s] = <<p, n>>
     /\ \A s, r \in Symbols : s # r /\ toBytes[s] = toBytes[r] => toBytes[s] = NoThin

\* A call always returns: the locks of get_sym_or_insert are taken in one
\* order (to_symbol, then to_bytes) and are held only to insert a new string.
CallReturns == \A t \in Threads : pc[t] = "look" ~> pc[t] = "idle"

\* The interner is linearizable: every call takes effect atomically, where its
\* result is decided.
Table == INSTANCE InternTable WITH table <- [k \in Keys |-> Lookup(k)]
Linearizable == Table!Spec
=============================================================================
