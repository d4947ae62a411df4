---------------------------- MODULE InternBackup ----------------------------
(***************************************************************************)
(* Backing up a symbol mapping while other threads still intern            *)
(* (SharedMapping::serialize), loading the file into a fresh mapping       *)
(* (SharedMapping::deserialize) and interning on there.                    *)
(***************************************************************************)
EXTENDS Interning

CONSTANTS
  RecordBucketOf  \* hash % MAX_WRITER_THREADS of the first Len(text) bytes of
                  \* a record: 6 symbol bytes, the length, then the text

ASSUME RecordAssumption == RecordBucketOf \in [Symbols \X Keys -> Buckets]

VARIABLES
  held,       \* how many read locks on to_bytes serialize has taken
  written,    \* the file is complete
  file,       \* the text recorded for each symbol
  loaded,     \* deserialize has returned the new mapping
  rNextSym,   \* next_symbol of the new mapping
  rToSymbol,  \* to_symbol of the new mapping
  rToBytes    \* to_bytes of the new mapping, with the text it points to

source   == vars
restored == <<loaded, rNextSym, rToSymbol, rToBytes>>
bvars    == <<source, held, written, file, restored>>

Records == {s \in Symbols : file[s] # NoKey}

BInit ==
  /\ Init
  /\ held = 0
  /\ written = FALSE
  /\ file = [s \in Symbols |-> NoKey]
  /\ loaded = FALSE
  /\ rNextSym = [i \in Slots |-> FirstId(i)]
  /\ rToSymbol = [b \in Buckets |-> [k \in Keys |-> NoSym]]
  /\ rToBytes = [s \in Symbols |-> NoKey]

\* The source mapping goes on, but nobody writes a to_bytes table that
\* serialize has read-locked.
SourceStep ==
  /\ ~written
  /\ Next
  /\ \A s \in Symbols : s[1] < held => toBytes'[s] = toBytes[s]
  /\ UNCHANGED <<held, written, file, restored>>

\* serialize takes the read locks in slot order.
LockTable ==
  /\ ~written
  /\ held < NSlots
  /\ held' = held + 1
  /\ UNCHANGED <<source, written, file, restored>>

\* Faulty WriteFile: written out before all the tables are locked.
WriteFileUnlocked ==
  /\ ~written
  /\ held = 1
  /\ file' = [s \in Symbols |-> IF s[1] = 0 /\ toBytes[s] # NoThin
                                THEN TextAt(toBytes[s]) ELSE NoKey]
  /\ written' = TRUE
  /\ held' = 0
  /\ UNCHANGED <<source, restored>>

\* Holding all of them, serialize writes every symbol with its text.
WriteFile ==
  /\ ~written
  /\ held = NSlots
  /\ file' = [s \in Symbols |-> IF toBytes[s] = NoThin THEN NoKey ELSE TextAt(toBytes[s])]
  /\ written' = TRUE
  /\ held' = 0
  /\ UNCHANGED <<source, restored>>

\* The records of a slot that deserialize reads: symbol 0 ends the slab.
Parsed == {s \in Records : <<0, 0>> \in Records => s[1] # 0}

\* Faulty NextAfter: continue at the highest symbol instead of after it.
NextAtMax(i) ==
  LET ids == {s[2] : s \in {r \in Parsed : r[1] = i}}
  IN IF ids = {} THEN FirstId(i) ELSE CHOOSE n \in ids : \A m \in ids : m <= n
\* max_symbol + 1; a slot without records keeps its initial counter.
NextAfter(i) ==
  LET ids == {s[2] : s \in {r \in Parsed : r[1] = i}}
  IN IF ids = {} THEN FirstId(i) ELSE (CHOOSE n \in ids : \A m \in ids : m <= n) + 1

\* deserialize fills a mapping nobody else knows yet.  The to_symbol bucket
\* is computed from the record (to_parse), not from the text (to_parse_2).
Deserialize ==
  LET inBucket(b, k) == {s \in Parsed : file[s] = k /\ RecordBucketOf[<<s, k>>] = b}
  IN /\ written
     /\ ~loaded
     /\ loaded' = TRUE
     /\ rToBytes' = [s \in Symbols |-> IF s \in Parsed THEN file[s] ELSE NoKey]
     /\ rToSymbol' = [b \in Buckets |-> [k \in Keys |->
                       IF inBucket(b, k) = {} THEN NoSym ELSE CHOOSE s \in inBucket(b, k) : TRUE]]
     /\ rNextSym' = [i \in Slots |-> NextAfter(i)]
     /\ UNCHANGED <<source, held, written, file>>

\* get_sym on the new mapping.
RLookup(k) == rToSymbol[BucketOf[k]][k]

\* get_sym_or_insert on the new mapping by the thread that holds slot i, when
\* get_sym finds nothing.  (Module Interning shows the steps of this.)
ReInsert(k, i) ==
  LET s == <<i, rNextSym[i]>>
  IN /\ loaded
     /\ RLookup(k) = NoSym
     /\ rNextSym[i] <= MaxId
     /\ rNextSym' = [rNextSym EXCEPT ![i] = @ + 1]
     /\ rToBytes' = [rToBytes EXCEPT ![s] = k]
     /\ rToSymbol' = [rToSymbol EXCEPT ![BucketOf[k]][k] = s]
     /\ UNCHANGED <<source, held, written, file, loaded>>

BNext ==
  \/ SourceStep \/ LockTable \/ WriteFile \/ Deserialize
  \/ \E k \in Keys, i \in Slots : ReInsert(k, i)

BSpec == BInit /\ [][BNext]_bvars

-----------------------------------------------------------------------------
BTypeOK ==
  /\ TypeOK
  /\ held \in 0 .. NSlots
  /\ {written, loaded} \subseteq BOOLEAN
  /\ file \in [Symbols -> Keys \cup {NoKey}]
  /\ rNextSym \in [Slots -> Nat]
  /\ rToSymbol \in [Buckets -> [Keys -> Symbols \cup {NoSym}]]
  /\ rToBytes \in [Symbols -> Keys \cup {NoKey}]

\* The file is a consistent cut of a mapping that threads were writing to:
\* every symbol a reader could see when it was written is in it with its text.
FileCoversPublished ==
  [][written' # written =>
       \A k \in Keys : Lookup(k) # NoSym => file'[Lookup(k)] = k]_bvars

\* No string is recorded under two symbols, whatever inserts were under way.
FileHasNoTwins ==
  \A s, r \in Records : file[s] = file[r] => s = r

\* A symbol that some backed-up expression uses keeps its text: loading loses
\* none, and no later insert gets a symbol the file already uses.
SymbolsSurvive ==
  loaded => \A s \in Records : rToBytes[s] = file[s]

\* The to_symbol maps "use a Pearson hash on the first 8 Bytes of the symbol"
\* (lib.rs): so get_sym finds every string of the file in the loaded mapping.
RestoredFindable ==
  loaded => \A s \in Records : RLookup(file[s]) = s
=============================================================================
