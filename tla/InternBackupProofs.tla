------------------------- MODULE InternBackupProofs -------------------------
(***************************************************************************)
(* Theorems about backing up and loading a symbol mapping, for every number *)
(* of threads, strings, buckets and slots.                                 *)
(***************************************************************************)
EXTENDS InternBackup, InterningProofs

-----------------------------------------------------------------------------
(* The mapping that is backed up *)

\* serialize takes read locks and writes a file: to the mapping it reads, every
\* step is a step of the interner or none.
LEMMA SourceRuns == BSpec => Spec
<1>1. BInit => Init
  BY DEF BInit
<1>2. ASSUME [BNext]_bvars PROVE [Next]_vars
  BY <1>2 DEF BNext, SourceStep, LockTable, WriteFile, Deserialize, ReInsert, bvars, source
<1> QED
  BY <1>1, <1>2, PTL DEF BSpec, Spec

\* Symbol 0 of slot 0, which ends the records of the slot in the file, is never
\* given out.
ZeroKept ==
  /\ toBytes = [s \in Symbols |-> toBytes[s]]
  /\ nextSym[0] # 0
  /\ toBytes[<<0, 0>>] = NoThin
  /\ \A t \in Threads : pc[t] \in Numbered => newSym[t] # <<0, 0>>

LEMMA ZeroStep ==
  ASSUME TableInv, ZeroKept, [Next]_vars
  PROVE  ZeroKept'
<1>1. <<0, 0>> \in Symbols /\ 0 \in Slots
  BY ConstantsAssumption DEF Symbols, Slots, Ids
<1>2. CASE UNCHANGED vars
  BY <1>2 DEF ZeroKept, vars, memory, tables, locals
<1>3. ASSUME NEW t \in Threads, Step(t) PROVE ZeroKept'
  <2>1. CASE Number(t)
    <3>1. /\ newSym' = [newSym EXCEPT ![t] = <<slotOf[t], nextSym[slotOf[t]]>>]
          /\ nextSym' = [nextSym EXCEPT ![slotOf[t]] = @ + 1]
          /\ pc' = [pc EXCEPT ![t] = "bytes"] /\ pc[t] = "number" /\ UNCHANGED toBytes
      BY <2>1 DEF Number, Goto, tables
    <3>2. slotOf[t] \in Slots /\ nextSym[slotOf[t]] \in Nat
      BY <3>1 DEF TableInv, Typed, Permitted, Outside
    <3>3. nextSym'[0] # 0
      BY <1>1, <3>1, <3>2 DEF ZeroKept, TableInv, Typed
    <3>4. <<slotOf[t], nextSym[slotOf[t]]>> # <<0, 0>>
      BY DEF ZeroKept
    <3> QED
      BY <3>1, <3>3, <3>4 DEF ZeroKept, TableInv, Typed, Numbered
  <2>2. CASE PutBytes(t)
    <3>1. /\ pc[t] \in Numbered /\ toBytes' = [toBytes EXCEPT ![newSym[t]] = thin[t]]
          /\ \A u \in Threads : pc'[u] \in Numbered => pc[u] \in Numbered
          /\ UNCHANGED <<nextSym, newSym>>
      BY <2>2 DEF PutBytes, Goto, Numbered, memory, locals, TableInv, Typed
    <3>2. toBytes' = [s \in Symbols |-> toBytes'[s]] /\ toBytes'[<<0, 0>>] = NoThin
      BY <1>1, <3>1 DEF ZeroKept
    <3> QED
      BY <3>1, <3>2 DEF ZeroKept
  <2>3. CASE ~Number(t) /\ ~PutBytes(t)
    <3>1. UNCHANGED <<nextSym, toBytes>>
      BY <1>3, <2>3 DEF Step, Insertion, Reacquire, StartScan, Claim, Pass, GiveUp, Drop,
         Begin, Look, Prepare, EagerWrite, Recheck, UseEager, FillFirst, FillLast, Publish,
         Cleanup, Return, memory, tables
    <3>2. ASSUME NEW u \in Threads, pc'[u] \in Numbered
          PROVE  pc[u] \in Numbered /\ newSym'[u] = newSym[u]
      <4>1. UNCHANGED newSym \/ Return(t)
        <5>1. CASE Insertion(t)
          BY <2>3, <5>1 DEF Insertion, Look, Prepare, EagerWrite, Recheck, UseEager,
             FillFirst, FillLast, Publish, Cleanup, locals
        <5>2. CASE ~Insertion(t)
          BY <1>3, <5>2 DEF Step, Begin, Reacquire, StartScan, Claim, Pass, GiveUp, Drop, locals
        <5> QED
          BY <5>1, <5>2
      <4>4. Return(t) => u # t /\ (u # t => newSym'[u] = newSym[u])
        BY <3>2 DEF Return, Goto, Numbered, TableInv, Typed
      <4>2. u # t => pc'[u] = pc[u]
        BY <1>3, <2>3 DEF Step, Insertion, Reacquire, StartScan, Claim, Pass, GiveUp, Drop,
           Begin, Look, Prepare, EagerWrite, Recheck, UseEager, FillFirst, FillLast, Publish,
           Cleanup, Return, Goto, TableInv, Typed
      <4>3. u = t => pc[u] \in Numbered
        BY <1>3, <2>3, <3>2 DEF Step, Insertion, Reacquire, StartScan, Claim, Pass, GiveUp, Drop,
           Begin, Look, Prepare, EagerWrite, Recheck, UseEager, FillFirst, FillLast, Publish,
           Cleanup, Return, Goto, Numbered, TableInv, Typed
      <4> QED
        BY <3>2, <4>1, <4>2, <4>3, <4>4
    <3> QED
      BY <3>1, <3>2 DEF ZeroKept
  <2> QED
    BY <2>1, <2>2, <2>3
<1> QED
  BY <1>2, <1>3 DEF Next

LEMMA ZeroHolds == Spec => []ZeroKept
<1>1. ASSUME Init PROVE ZeroKept
  <2>1. <<0, 0>> \in Symbols /\ 0 \in Slots
    BY ConstantsAssumption DEF Symbols, Slots, Ids
  <2> QED
    BY <1>1, <2>1 DEF Init, ZeroKept, FirstId, Numbered
<1> QED
  BY <1>1, ZeroStep, TableInvariant, PTL DEF Spec

\* A symbol in to_bytes has the string it was made for, and is to_symbol's
\* symbol for it or about to become that.
Claimed(s, k) ==
  /\ TextAt(toBytes[s]) = k
  /\ \/ Lookup(k) = s
     \/ \E t \in Threads : pc[t] = "publish" /\ newSym[t] = s /\ req[t] = k
Claims == \A s \in Symbols : toBytes[s] # NoThin => \E k \in Keys : Claimed(s, k)

LEMMA ClaimsStep ==
  ASSUME TableInv, NoSharedSlot, SlabInv, SlabInv', Stable, Claims, [Next]_vars
  PROVE  Claims'
<1>1. CASE UNCHANGED vars
  BY <1>1 DEF Claims, Claimed, TextAt, Lookup, vars, memory, tables, locals, call
<1>2. ASSUME NEW t \in Threads, Step(t), NEW s \in Symbols, toBytes'[s] # NoThin
      PROVE  \E k \in Keys : Claimed(s, k)'
  <2>1. PICK own \in [SlabIds -> Slots] : Owned(own)
    BY DEF SlabInv
  <2>2. MemTyped
    BY TypeHasMem DEF SlabInv
  <2>3. CASE toBytes[s] = NoThin
    <3>1. PutBytes(t)
      BY <1>2, <2>3 DEF Step, Insertion, Reacquire, StartScan, Claim, Pass, GiveUp, Drop,
         Begin, Look, Prepare, EagerWrite, Recheck, UseEager, FillFirst, FillLast, Number,
         Publish, Cleanup, Return, tables
    <3>2. /\ pc[t] = "bytes" /\ pc'[t] = "publish" /\ s = newSym[t] /\ toBytes'[s] = thin[t]
          /\ UNCHANGED <<slabs, newSym, req>>
      BY <1>2, <2>2, <2>3, <3>1 DEF PutBytes, Goto, MemTyped, TableInv, Typed, memory, locals,
         call
    <3>3. TextAt(thin[t]) = req[t] /\ req[t] \in Keys
      BY <2>1, <3>2 DEF Owned, Local, Stored, TableInv, Typed, Answer, Outside
    <3>4. TextAt(toBytes[s])' = req[t]
      BY <3>2, <3>3 DEF TextAt
    <3> QED
      BY <3>2, <3>3, <3>4 DEF Claimed
  <2>4. CASE toBytes[s] # NoThin
    <3>1. PICK k \in Keys : Claimed(s, k)
      BY <2>4 DEF Claims
    <3>2. TextAt(toBytes[s])' = k
      BY <2>4, <3>1 DEF Stable, Claimed
    <3>3. CASE Publish(t)
      <4>1. /\ UNCHANGED req /\ Lookup(req[t]) = NoSym
            /\ \A j \in Keys : Lookup(j)' = IF j = req[t] THEN newSym[t] ELSE Lookup(j)
        BY <3>3, PublishInv
      <4>2. UNCHANGED newSym /\ \A u \in Threads : u # t => pc'[u] = pc[u]
        BY <3>3 DEF Publish, Goto, locals, TableInv, Typed
      <4>3. s # NoSym
        BY ConstantsAssumption
      <4>4. Lookup(k) = s => Lookup(k)' = s
        BY <4>1, <4>3
      <4>5. ASSUME NEW u \in Threads, pc[u] = "publish", newSym[u] = s, req[u] = k
            PROVE  Claimed(s, k)'
        BY <3>2, <4>1, <4>2, <4>5 DEF Claimed
      <4> QED
        BY <3>1, <3>2, <4>4, <4>5 DEF Claimed
    <3>4. CASE ~Publish(t)
      <4>1. UNCHANGED toSymbol
        BY <1>2, <3>4 DEF Step, Insertion, Reacquire, StartScan, Claim, Pass, GiveUp, Drop,
           Begin, Look, Prepare, EagerWrite, Recheck, UseEager, FillFirst, FillLast, Number,
           PutBytes, Cleanup, Return, tables
      <4>2. ASSUME NEW u \in Threads, pc[u] = "publish"
            PROVE  pc'[u] = "publish" /\ newSym'[u] = newSym[u] /\ req'[u] = req[u]
        BY <1>2, <3>4, <4>2 DEF Step, Insertion, Reacquire, StartScan, Claim, Pass, GiveUp,
           Drop, Begin, Look, Prepare, EagerWrite, Recheck, UseEager, FillFirst, FillLast,
           Number, PutBytes, Cleanup, Return, Goto, locals, call, permits, TableInv, Typed
      <4> QED
        BY <3>1, <3>2, <4>1, <4>2 DEF Claimed, Lookup
    <3> QED
      BY <3>3, <3>4
  <2> QED
    BY <2>3, <2>4
<1> QED
  BY <1>1, <1>2 DEF Next, Claims

LEMMA ClaimsHold == Spec /\ []NoSharedSlot => []Claims
<1>1. Init => Claims
  BY DEF Init, Claims
<1>2. TableInv /\ TableInv' /\ NoSharedSlot /\ SlabInv /\ SlabInv' /\ Claims /\ [Next]_vars
        => Claims'
  BY SlabStep, ClaimsStep
<1> QED
  BY <1>1, <1>2, SlabInvHolds, TableInvariant, PTL DEF Spec

\* No string has two symbols in to_bytes: the bucket's lock is held from the
\* second lookup to the insertion in to_symbol.
LEMMA OneSymbol ==
  ASSUME TableInv, Claims, NEW s \in Symbols, NEW r \in Symbols,
         toBytes[s] # NoThin, toBytes[r] # NoThin, TextAt(toBytes[s]) = TextAt(toBytes[r])
  PROVE  s = r
<1>1. PICK k \in Keys : Claimed(s, k) /\ Claimed(r, k)
  BY DEF Claims, Claimed
<1>2. s # NoSym /\ r # NoSym
  BY ConstantsAssumption
<1>3. ASSUME NEW t \in Threads, pc[t] = "publish", req[t] = k
      PROVE  Lookup(k) = NoSym /\ symLock[BucketOf[k]] = t
  BY <1>3 DEF TableInv, Locking, Critical, Bucket
<1> QED
  BY <1>1, <1>2, <1>3 DEF Claimed

LEMMA GreatestNat ==
  ASSUME NEW T \in SUBSET Nat, T # {}, NEW b \in Nat, \A y \in T : y <= b
  PROVE  \E x \in T : \A y \in T : y <= x
<1> DEFINE D == {d \in Nat : \E y \in T : d = b - y}
<1>1. D \in SUBSET Nat /\ D # {}
  <2>1. PICK y : y \in T
    OBVIOUS
  <2>2. y \in Nat /\ y <= b
    BY <2>1
  <2>3. b - y \in Nat
    BY <2>2
  <2> QED
    BY <2>1, <2>3
<1>2. PICK d \in D : \A c \in D : ~(c < d)
  BY <1>1, LeastNat
<1>3. PICK x \in T : d = b - x
  OBVIOUS
<1>4. ASSUME NEW y \in T PROVE y <= x
  <2>1. b - y \in D
    OBVIOUS
  <2>2. ~(b - y < b - x)
    BY <1>2, <1>3, <2>1
  <2> QED
    BY <2>2
<1> QED
  BY <1>4

-----------------------------------------------------------------------------
(* The file and the mapping loaded from it *)

\* The new mapping has every record, and counts on behind the records.
Restored ==
  \A s \in Records : rToBytes[s] = file[s] /\ s[2] < rNextSym[s[1]]

FileInv ==
  /\ loaded => written
  /\ <<0, 0>> \notin Records
  /\ rNextSym \in [Slots -> Nat]
  /\ rToBytes = [s \in Symbols |-> rToBytes[s]]
  /\ loaded => Restored

LEMMA NextAfterAll ==
  ASSUME NEW i \in Slots
  PROVE  NextAfter(i) \in Nat /\ \A s \in Parsed : s[1] = i => s[2] < NextAfter(i)
<1> DEFINE ids == {s[2] : s \in {r \in Parsed : r[1] = i}}
<1>1. ids \in SUBSET (0 .. MaxId)
  BY DEF Parsed, Records, Symbols, Ids
<1>2. CASE ids = {}
  <2>1. \A s \in Parsed : s[1] # i
    BY <1>2
  <2> QED
    BY <1>2, <2>1 DEF NextAfter, FirstId
<1>3. CASE ids # {}
  <2>0. ids \in SUBSET Nat /\ MaxId \in Nat /\ \A m \in ids : m <= MaxId
    BY <1>1, ConstantsAssumption
  <2>1. \E n \in ids : \A m \in ids : m <= n
    <3> HIDE DEF ids
    <3> QED
      BY <2>0, <1>3, GreatestNat
  <2>2. PICK n : n = CHOOSE k \in ids : \A m \in ids : m <= k
    OBVIOUS
  <2>3. n \in ids /\ \A m \in ids : m <= n
    BY <2>1, <2>2
  <2>4. NextAfter(i) = n + 1
    BY <1>3, <2>2 DEF NextAfter
  <2>5. n \in Nat
    BY <1>1, <2>3, ConstantsAssumption
  <2>6. ASSUME NEW s \in Parsed, s[1] = i PROVE s[2] < n + 1
    <3>1. s[2] \in ids
      BY <2>6
    <3>2. s[2] <= n /\ s[2] \in Nat
      BY <1>1, <2>3, <3>1, ConstantsAssumption
    <3> QED
      BY <2>5, <3>2
  <2> QED
    BY <2>4, <2>5, <2>6
<1> QED
  BY <1>2, <1>3

LEMMA FileStep ==
  ASSUME ZeroKept, FileInv, [BNext]_bvars
  PROVE  FileInv'
<1> USE DEF FileInv
<1>1. CASE UNCHANGED <<written, file, restored>>
  BY <1>1 DEF restored, Records, Restored
<1>2. CASE WriteFile
  <2>1. /\ ~written /\ written' = TRUE /\ UNCHANGED restored
        /\ file' = [s \in Symbols |-> IF toBytes[s] = NoThin THEN NoKey ELSE TextAt(toBytes[s])]
    BY <1>2 DEF WriteFile
  <2>2. <<0, 0>> \notin Records'
    BY <2>1 DEF Records, ZeroKept
  <2> QED
    BY <2>1, <2>2 DEF restored
<1>3. CASE Deserialize
  <2>1. /\ written /\ loaded' = TRUE /\ UNCHANGED <<written, file>>
        /\ rToBytes' = [s \in Symbols |-> IF s \in Parsed THEN file[s] ELSE NoKey]
        /\ rNextSym' = [i \in Slots |-> NextAfter(i)]
    BY <1>3 DEF Deserialize
  <2>2. Records' = Records /\ Parsed = Records
    BY <2>1 DEF Records, Parsed
  <2>3. rNextSym' \in [Slots -> Nat]
    BY <2>1, NextAfterAll
  <2>4. ASSUME NEW s \in Records PROVE rToBytes'[s] = file[s] /\ s[2] < rNextSym'[s[1]]
    <3>1. s \in Symbols /\ s[1] \in Slots
      BY DEF Records, Symbols
    <3>2. s[2] < NextAfter(s[1])
      BY <2>2, <3>1, NextAfterAll
    <3> QED
      BY <2>1, <2>2, <3>1, <3>2
  <2> QED
    BY <2>1, <2>2, <2>3, <2>4 DEF Restored
<1>4. ASSUME NEW k \in Keys, NEW i \in Slots, ReInsert(k, i) PROVE FileInv'
  <2>0. PICK r : r = <<i, rNextSym[i]>>
    OBVIOUS
  <2>1. /\ loaded /\ rNextSym[i] <= MaxId /\ UNCHANGED <<written, file, loaded>>
        /\ rNextSym' = [rNextSym EXCEPT ![i] = @ + 1]
        /\ rToBytes' = [rToBytes EXCEPT ![r] = k]
    BY <1>4, <2>0 DEF ReInsert
  <2>2. Records' = Records
    BY <2>1 DEF Records
  <2>3. rNextSym[i] \in Nat /\ rNextSym' \in [Slots -> Nat]
    BY <2>1
  <2>4. ASSUME NEW s \in Records PROVE rToBytes'[s] = file[s] /\ s[2] < rNextSym'[s[1]]
    <3>1. s \in Symbols /\ s[1] \in Slots /\ s[2] \in Nat
      BY ConstantsAssumption DEF Records, Symbols, Ids
    <3>2. rToBytes[s] = file[s] /\ s[2] < rNextSym[s[1]]
      BY <2>1 DEF Restored
    <3>3. s # r
      BY <2>0, <2>3, <3>1, <3>2
    <3>4. rToBytes'[s] = rToBytes[s]
      BY <2>1, <3>1, <3>3
    <3>5. s[2] < rNextSym'[s[1]]
      BY <2>1, <3>1, <3>2
    <3> QED
      BY <3>2, <3>4, <3>5
  <2>5. rToBytes' = [s \in Symbols |-> rToBytes'[s]]
    BY <2>1
  <2> QED
    BY <2>1, <2>2, <2>3, <2>4, <2>5 DEF Restored
<1>5. SourceStep \/ LockTable \/ UNCHANGED bvars => UNCHANGED <<written, file, restored>>
  BY DEF SourceStep, LockTable, bvars
<1> QED
  BY <1>1, <1>2, <1>3, <1>4, <1>5 DEF BNext

\* Loading a backup loses no symbol, and no insert into the loaded mapping takes
\* a symbol of the file: deserialize counts on behind the highest record of each
\* slot, and symbol 0, which would end a slot's records early, is never given
\* out.  Nothing is assumed about permits.
THEOREM LoadedSymbolsSurvive == BSpec => []SymbolsSurvive
<1>1. ASSUME BInit PROVE FileInv
  BY <1>1 DEF BInit, FileInv, Records, FirstId
<1>2. FileInv => SymbolsSurvive
  BY DEF FileInv, Restored, SymbolsSurvive
<1> QED
  BY <1>1, <1>2, FileStep, ZeroHolds, SourceRuns, PTL DEF BSpec

\* The backup is a cut of a live mapping: while threads go on interning through
\* slots of their own, what serialize writes has every symbol a reader could
\* see, each with its string, and no string twice.
THEOREM ConsistentBackup ==
  BSpec /\ []NoSharedSlot => FileCoversPublished /\ []FileHasNoTwins
<1>1. ASSUME TableInv, SlabInv, [BNext]_bvars
      PROVE  [written' # written =>
                \A k \in Keys : Lookup(k) # NoSym => file'[Lookup(k)] = k]_bvars
  <2> SUFFICES ASSUME written' # written, NEW k \in Keys, Lookup(k) # NoSym
               PROVE  file'[Lookup(k)] = k
    OBVIOUS
  <2>1. WriteFile
    BY <1>1 DEF BNext, SourceStep, LockTable, Deserialize, ReInsert, bvars
  <2>2. Lookup(k) \in Symbols
    BY <1>1 DEF TableInv, Used
  <2>3. toBytes[Lookup(k)] # NoThin /\ TextAt(toBytes[Lookup(k)]) = k
    BY <1>1 DEF SlabInv, PublishedSymbolsResolve
  <2> QED
    BY <2>1, <2>2, <2>3 DEF WriteFile
<1>2. ASSUME BInit PROVE FileHasNoTwins
  BY <1>2 DEF BInit, FileHasNoTwins, Records
<1>3. ASSUME TableInv, Claims, FileHasNoTwins, [BNext]_bvars PROVE FileHasNoTwins'
  <2>1. CASE WriteFile
    <3> SUFFICES ASSUME NEW s \in Records', NEW r \in Records', file'[s] = file'[r]
                 PROVE  s = r
      BY DEF FileHasNoTwins
    <3>1. /\ s \in Symbols /\ r \in Symbols /\ toBytes[s] # NoThin /\ toBytes[r] # NoThin
          /\ file'[s] = TextAt(toBytes[s]) /\ file'[r] = TextAt(toBytes[r])
      BY <2>1 DEF Records, WriteFile
    <3> QED
      BY <1>3, <3>1, OneSymbol
  <2>2. CASE ~WriteFile
    <3>1. UNCHANGED file
      BY <1>3, <2>2 DEF BNext, SourceStep, LockTable, Deserialize, ReInsert, bvars
    <3> QED
      BY <1>3, <3>1 DEF FileHasNoTwins, Records
  <2> QED
    BY <2>1, <2>2
<1> QED
  BY <1>1, <1>2, <1>3, SourceRuns, TableInvariant, SlabInvHolds, ClaimsHold, PTL
     DEF BSpec, FileCoversPublished

\* With one session per thread, every symbol a reader could see when the backup
\* was written is in it with its text.
THEOREM BackupCovers ==
  ASSUME MaxSessions = 1
  PROVE  BSpec => FileCoversPublished
BY SourceRuns, OneSession, ConsistentBackup, PTL

\* With one session per thread, the backup records no string under two symbols.
THEOREM BackupHasNoTwins ==
  ASSUME MaxSessions = 1
  PROVE  BSpec => []FileHasNoTwins
BY SourceRuns, OneSession, ConsistentBackup, PTL

=============================================================================
