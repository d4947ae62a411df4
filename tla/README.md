# TLA+ models of MORK

MORK is a rewriting kernel for MeTTa: a space of expressions is kept as a trie
of byte strings, and a program is a set of `exec` expressions inside that space.
The kernel repeatedly takes the first exec out of the space, matches its
patterns, and feeds the instantiated templates to sinks that write back. Symbols
can be interned in a mapping that many threads share.

This directory holds TLA+ modules of the parts of the repository whose
correctness depends on order, on concurrency or on what survives a step; TLC
configurations that check them on small instances; and proofs, checked by TLAPS,
that some of the results hold for every instance.

* `PROJECT.json` ties every definition to the source lines it models, lists
  the runs, the faulty variants ("mutants") that show each property can fail,
  the findings, the hazards and the theorems.
* `X.tla` is a component, `MCX.tla` its instance for TLC, `X*.cfg` the runs,
  `XProofs.tla` its proofs.
* Four instances (`MCQuery`, `MCSinks`, `MCExpressions`, `MCEngines`) check
  several components in one run: a variable `which`, chosen at the start and
  never changed, says whose steps are taken, and a property of the suite is the
  conjunction of a component's properties. Each holds
  the inputs too; those of the linear algebra are in `TensorCases`.

To repeat a check: `tlc -config Interning.cfg MCInterning`, `tlapm
InterningProofs.tla`.

## 1. Inventory

### Interning (`interning/src`): modelled

| | |
|---|---|
| State | 128 permission slots (owner thread, next symbol, first and last slab), 128 `to_symbol` maps and 128 `to_bytes` maps, each under an RwLock; an append-only list of slabs per slot; two thread locals (slot index, number of live permits) |
| Operations | `try_aquire_permission`, `WritePermit::drop`, `get_sym_or_insert`, `get_sym`, `get_bytes`, `serialize`, `deserialize`, `reveal_tables` (debug), `keep_slabs_alive`, `Drop` |
| Interaction | readers take read locks only; `get_bytes` returns a slice into slab memory that outlives the lock; writers write slab memory with no lock, justified by owning the slot |
| Hard | unlocked eager writes with rollback, double-checked insertion, two nested locks, permits that nest, slots that are reused, a backup during writes |
| Correct when | a symbol that anybody can see resolves to its string, for ever; one string has one symbol and the reverse; calls return; a slot has one writer; a backup is a consistent cut whose symbols keep their meaning |

### Kernel (`kernel/src`)

| Component | State | Operations | Status |
|---|---|---|---|
| Calculus loop (`space.rs` 1334-1726) | the trie, the read copy, the sinks of an exec, the step counter | `metta_calculus`, `interpret`, `transform_multi_multi_{,i,o,io}` | modelled over an abstract matcher |
| Write resource sharing (`space.rs` 1285-1331, 1577-1602, `sinks.rs` 36-91) | requests, roots, opened zippers | `prefix_subsumption`, `prefix_subsumption_resources`, `pjoin`, `partial_cmp`, opening and placing | modelled |
| Instantiation (`space.rs` 1604-1660, `expr/src/lib_nightly.rs`) | stack, assignments, variable counters | `apply_e` on the pattern and on each template | modelled |
| Head and tail (`sinks.rs` 374-430) | kept paths, their number, the worst one | `new`, `sink`, `finalize` | modelled |
| Add, remove, compat sinks (`sinks.rs` 134-177, 337-372) | a trie of paths to remove | `sink`, `finalize` | effect modelled in the loop |
| Reductions: count, hash, and, sum, floats, pure (`sinks.rs` 547-1191) | a trie of what was sunk | `sink`, `finalize` | modelled |
| U and AU (`sinks.rs` 180-311) | two buffers | `sink`, `finalize`, `anti_unify` | modelled |
| Pattern matching (`space.rs` 92-206, 1116-1283) | a stack of expressions to match, references, a product of trie cursors | `query_multi_i`, `query_multi_raw`, `coreferential_transition` | the descent and the unification behind it, branch by branch |
| Read and write resources (`space.rs` 1034-1114, `sources.rs`, `sinks.rs` 313-335, 1195-1222) | mapped archives, Z3 processes with their pipes | `read_handler`, `write_handler`; the sources BTM, ACT, Z3, `==`, `!=`, `,`; the ACT and Z3 sinks | modelled |
| Loading and dumping (`space.rs` 240-1032) | a parser context; a path | s-expressions, CSV, JSON, JSON lines; dumps as a whole or by pattern and template | modelled but for Neo4j and PathMap's own formats |
| Pure functions (`pure.rs`) | none | integers, floats, conditionals, tuples, functions on symbols | modelled but for strings of floats, base64 and the hash |
| `main.rs` | none | tests, benchmarks, command line | read as documentation |

### Other crates

| Component | Correct when | Status |
|---|---|---|
| `expr`: byte-encoded terms | an operation on De Bruijn levels does what it should to variables with names; all ways of walking over a term see the same items | modelled but for compile-time macros and the deprecated `apply` |
| `expr`: `unify`, `anti_unify` | the bindings of `unify` have the solutions of the pairs, and it returns; an anti-unifier is what its arguments have in common | modelled |
| `frontend`: s-expression and JSON parsers | one variable context per expression; the leaves of a document are what is written; numbers are close | modelled, by tokens, and numbers and strings of JSON by characters |
| `experiments/eval`, `eval-ffi`: stack machine | a quoted argument is copied and skipped, frames match arities, buffers come back | modelled |
| `linalg`: sparse and dense kernels, einsum, JIT | an output holds each product once, however it is scheduled and stored; parallel rows write disjoint ranges that the counting pass sized | modelled but for element-wise dense operations; generated code by what it computes |
| PathMap, zip, subprocess, Z3 | external | a set of paths, a file, a pipe |

Components meet at few places. An exec's sinks all write to one trie through
zippers whose disjointness only `prefix_subsumption*` ensures, while the query
reads a copy; head, tail and the reductions keep private tries until they are
finalized in template order. The interner is used by parsers on many threads.
A query walks the trie with `coreferential_transition`, which hands every tuple
of expressions it reaches to `unify`; its bindings instantiate the templates
(`apply_e`). A factor of a query may come from a mapped file or from the pipe of
a Z3 process instead of the trie. The pure sink hands its payloads to the stack
machine, which calls the pure functions.

## 2. The modules

```
InternTable  <=(refined by)=  Interning  <=(extended by)=  InternBackup
ExecProgram  <-(both extend)-  Rewriting  <=(refined by)=  Calculus
Subsumption        HeadTail
Terms  <-(both extend)-  Unify, TrieSearch    Query = TrieSearch, then Unify
DeBruijn  <-  NamedExprs  <-  ExprAlgebra, Instantiation, Reductions, FoldSinks,
                              Resources, Loading
DeBruijn  <-  JsonLoading         JsonLexemes         Walks
Floats  <-  PureFunctions  <-  EvalVM
Tensors  <-  Einsum        Tensors, ParallelProduct  <-  Csr
MCQuery: Query        MCSinks: Subsumption, Reductions, FoldSinks, Resources
MCExpressions: ExprAlgebra, Instantiation, Loading, JsonLoading, JsonLexemes, Walks
MCEngines: EvalVM, Einsum, Csr (with ParallelProduct)
```

### Interning, InternTable

An action of `Interning` is a stretch of code between two points where another
thread can see or disturb the state; `pc[t]` names where thread `t` stands.

| Code | Actions |
|---|---|
| `try_aquire_permission` | `Reacquire` (a slot index is there), `StartScan`, then `Claim` or `Pass` per slot (one compare_exchange each), `GiveUp` |
| `WritePermit::drop` | `Drop` |
| `get_sym_or_insert` | `Begin`, `Look` (first `get_sym`), `Prepare` (slab pointer and header copy), `EagerWrite`, `Recheck` (write lock, second look), `UseEager` / `FillFirst` / `FillLast`, `Number`, `PutBytes`, `Publish`, `Cleanup` (slab pointer, rollback), `Return` |

A bucket's write lock is `symLock[b]`. A read lock, and the write lock of
`to_bytes`, are held within one action only, so the action's guard stands for
them. Strings have unit size: what the length of a string changes is only when
a slab is full. The header that a rollback restores is `saved`; the bytes stay
in the slab, as in the code. The Relaxed loads of the slot's fields are read as
sequentially consistent: while a slot has one writer nobody else reads them.

`InternTable` is the promise: an atomic lookup-or-insert with fresh symbols.
`Interning!Linearizable` states that `Interning` implements it, the table being
what `get_sym` sees and the result being decided in `Look`, `Recheck` or
`Publish`.

### InternBackup

Extends `Interning`: `serialize` takes the read locks of the `to_bytes` maps one
by one (`LockTable`) while all other steps go on, except an insert into a locked
map (`SourceStep`), and writes the file (`WriteFile`). `Deserialize` builds a
mapping nobody else knows, so it is one step; `ReInsert` interns there.
`RecordBucketOf` is the hash of the bytes that the code really hashes.

### Subsumption

The two nested loops of `prefix_subsumption_resources` step by step, then the
opening of a resource per root and the translation of indices that all four
`transform_multi_multi` functions repeat. `BetterByLength` is the test of the
second implementation, `prefix_subsumption`.

### HeadTail

The sink with every branch of `sink`, including its assertion. Paths are numbers
in byte order.

### ExecProgram, Rewriting, Calculus

`ExecProgram` is a program as data: for each exec its templates and the list of
matches its patterns can have, in query order, each with the atoms it needs. So
what a query finds depends on the space it reads, and every interleaving of the
query with the sinks' writes is there, but terms and unification are not.
`Calculus` is the loop: `Pick` or `Discard`, one `Query` per match (which sinks
into every template), `Finalize` per sink, then the test of the budget.
`Rewriting` is the promise: one exec is one step. The refinement maps the
abstract space to the read copy while an exec runs and to the trie otherwise.
Additions write at once; removals and reductions act at finalize, in template
order.

### Terms, Unify

`Terms` is what both matchers see: an expression is a tree of labels (the tags,
with De Bruijn levels as in the encoding), and an `ExprEnv` is a location, the
number `n` of an expression and a position in it; its `v` and `offset` follow
from that. It also says when an assignment of values to locations comes from
an instantiation of the variables (`Instantiates`) and when it solves a
problem, independently of any algorithm.

`Unify` is the loop of `unify`: `Pop` or `GiveUp` or `Finish`, one `DerefX` or
`DerefY` per turn of `derefBound`, then the arm of the match: `Same`, `BindX`,
`OccursX`, `BindY`, `OccursY`, `Decompose`, `Clash`. While it is worked on, the
popped pair stays the last of `stack`. A call of `match2` is one step, since it
changes nothing but what the step says: `Holes` are the positions it calls
`hole` at, in order. `KeepsSolutions` is the heart: after each step the
bindings and the stack together have the solutions of the pairs.

### TrieSearch

`coreferential_transition` branches wherever the trie does and undoes what it
did on the way back, so a behaviour of the model is one branch: the one that
leads to a given tuple of expressions, one per factor. `todo` is what of them
still lies ahead of the zipper. The recursion's arms are `MatchNew`, `Resolve`
and `Stray` (the two descents of the arm `VarRef`), `MatchVariable` and
`MatchConstant`; `Yield` is the call of `f`, and `DeadEnd` is where no arm
takes this branch. `SearchComplete` compares the index with unification: a tuple
that is cut off has no solution. What is found and has none is sorted out by
`unify`.

### Query

The composition of the two: `Call` hands the pairs of a tuple that the descent
has found to `Unify`, or every tuple at once, as in a build with the feature
`no_search`. `AnswersAreMatches` relates the ends, for both builds: a tuple that
is left out has no solution unless `unify` gave up, and whatever the bindings of
a reported tuple allow is a solution of it.

### DeBruijn, NamedExprs, ExprAlgebra

`DeBruijn` is the encoding: an expression is a sequence of items, a variable is
`New` at its first occurrence and `Ref(k)` after. `NamedExprs` says what an
expression means, with names and without levels: renaming, instances, solutions
of a pattern. The other modules of expressions compare what the code makes with
what it should mean. `ExprAlgebra` applies the operations that renumber
variables (`substitute_de_bruijn`, `substitute_one_de_bruijn`, `equate_var`,
`equate_vars_inplace`, `transformData`) one after another to one expression `e`,
beside its `meaning`; a mistake in a level shows later, when something else moves.

### Walks

The same encoding as bytes with other bytes behind them: `ExprZipper` with its
breadcrumbs, `execute_loop` with `execute` as the recursion it must agree with,
the coroutines `item_source` and `item_sink`, the serializers, counters and
`forward_references`, all moved together over one expression (`Walk`); a zipper
that is sent along, up or down anywhere (`Descend`); two zippers that look for the
first difference (`Compare`).

### Instantiation

`apply_e` over the pattern and the templates of one match: a frame per binding that
is entered, `cycled` for what is found to be cyclic, `assignments` for variables
that have been written, `oi` and `ni` as the counters of the code. What is
carried from one template to the next (`carry`) depends on which of the four
`transform_multi_multi` functions runs, and all are chosen.

### Reductions, FoldSinks

A template of a reduction is a context, a guard and a payload. `Sink` collects
paths in any order, `Finalize` starts the traversal, `Visit` treats one context:
its payloads are reduced, its guard (a symbol, a new variable or a reference)
decides what is written, and `Panic` is where the code aborts. `FoldSinks` is U and
AU: `SinkFirst` copies, `SinkUnified` and `SinkGeneralized` join with what is
there in a second buffer. What `unify` answers is a constant-level definition
here (`UnifyNamed`), because `Unify` has its steps; `anti_unify` is modelled
as it is written.

### Resources

Execs one after another with their sources and sinks: the space; files, which
stay mapped as they were when first opened; and Z3 processes, which read
assertions and answer over a pipe in their own time (`Reply`; `Executed` is what
a statement does in Z3), while the query
reads the status and then the model (`Fill`, `ReadStatus`, `ReadModel`).
`FactorsAreCurrent` says what a factor holds when the query reads it,
`NoReadInVain` that a query never waits for a line that will not come.
What the model assumes of its inputs: the space holds expressions without a loose
reference; a batch for Z3 is of declarations and assertions, as the comment
at `Z3Sink` has it; and Z3 understands the two queries that `read_handler` writes.

### Loading, JsonLoading, JsonLexemes

`Loading` is the parser token by token, with `Context.variables`, the byte buffer
and the list that is open, and the loops around it: `add_all_sexpr`,
`remove_all_sexpr`, `add_sexpr`, `remove_sexpr`, `load_csv`, `dump_all_sexpr`, `dump_sexpr`. Texts are
given ones and ones that are chosen token by token. `JsonLoading` is the
parser with its stack and the transcriber with its path, for a document or for
lines of them, into a space or a file of paths. `JsonLexemes` is the control
flow of one number or string: `u64` and `i16` have small bounds (`U64`, `I16`),
so that mantissa and exponent overflow within a few digits. `DocumentsAreRead` is about
documents and strings. `NumbersAreClose` is about numbers: the mantissa is less than ten
units of its last digit away from what is written, whichever digits were dropped; the exponent is
exact, or at its own end of the range if what is written is out of it; a number is refused only if
it is beyond all that can be held. In a file of paths the bytes of a number are open (`Found`;
section 4), and its length, its place and all other leaves are not.

### PureFunctions, Floats, EvalVM

A symbol is a sequence of bytes of `Bits` bits, and the integer families differ in
their size only, which is a parameter. `Floats` is one family of IEEE formats with
two bits of exponent, which has both zeros, subnormals, infinities, NaN,
rounding and overflow; `from_integer`, `elementary` and the like stand for
functions that differ only in what they compute. `EvalVM` is `eval_impl`: an
item at a time, the stack of frames, and the pool of buffers with what is taken
from it and lost.

### Tensors, Einsum, Csr, ParallelProduct

`Tensors` is `NDIndex` with its three implementations. `Einsum` parses, schedules
(`Compile`) and runs the loops, on the virtual machine instruction by instruction
or as native code by the same loops with other accumulators; a value is the
sequence of the products that were added to it, so that a product that is
missing, doubled or misplaced shows whatever the numbers are. `Csr` builds
matrices from triplets, merges them and multiplies them by one thread; then
components and the reordering of graphs. Its suite (`MatricesAreExact`) compares
every result with what the triplets say, and with that of the other ways to it.

`ParallelProduct` is `matmul_par`, which `Csr` extends and composes with the rest.

| Code (`csr.rs`) | Actions |
|---|---|
| symbolic pass, a row per step in any order | `Begin`, `CountRow`, `AllCounted` |
| `row_ptr.push(..)`, the arrays of zeros | `Push`, `LayOut` |
| numeric pass: a thread takes a row, adds a product, writes a column through the raw pointer and clears its scratch | `TakeRow`, `AddTerm`, `WriteEntry`, `RowDone` |
| the end of the pass | `Collect` |

The code has no lock here: it relies on the rooms that the first pass counted. A
column is noted whenever its sum is zero, so one whose partial sum passes zero
is noted twice, and one whose sum ends as zero is counted and never written.
`EntriesFit` says of every entry about to be written that it goes to its row's room,
to a place where nothing is written yet and where no other thread is about to
write, behind smaller columns and without a gap. The operands are what `Csr` builds:
`PInit` admits every pair of square matrices whose row pointers ascend and whose columns
are in range (`IsMatrix`), and `MatricesAreExact` checks that this is so.

## 3. Runs

| Run | States | Question |
|---|---|---|
| `Interning` | 577 k | 3 threads, 2 slots, 3 strings (two in one bucket), nested permits: `TypeOK`, `SlotExclusive`, `PublishedSymbolsResolve`, `NoSlabLeak`, `BytesStable` |
| `InterningLinear` | 167 k | 2 threads: `Linearizable`, and with fairness `CallReturns` |
| `InternBackup` | 488 k | 2 threads that write during the backup: `FileCoversPublished`, `FileHasNoTwins`, `SymbolsSurvive` |
| `HeadTail` | 15 k | 5 paths, counts 1 to 3, both directions, all initial spaces: `KeepsSelection`, of the sink and of the space afterwards |
| `Calculus` | 46 k | 5 execs that feed, undo and revive each other, from all 1024 initial spaces: `AtomicRewrite`, `EarlyMeansQuiet`, `ResultCountsRuns`, `Returns` |
| `Matching` | 4 k | 151 problems, with the descent and without, under a limit of 2 and of 1000: `FoundIsWhole`, `StraysFindNothing`, `SearchComplete`, `KeepsSolutions`, `GivesUpLate`, `AnswersAreMatches`, `Terminates` |
| `Sinks` | 455 k | all lists of up to 3 requests out of 9: `ResourcesExclusive`, `EveryTemplateServed`; nine reductions, six templates, up to three matches: `MatchesAreReduced`; U and AU: `FoldIsExact`; three execs over a space, a file and two solvers: `FactorsAreCurrent`, `NoReadInVain` |
| `Expressions` | 673 k | one operation after another on 40 expressions: `EncodingIsSound`, which also is about all ways of walking; every binding of up to three of five variables: `TemplatesAreInstantiated`, `InstantiationEnds`; texts, tables and dumps: `LoadsWhatIsWritten`; JSON: `DocumentsAreRead`, `NumbersAreClose` |
| `Engines` | 346 k | calls of every pure function, alone and nested, with another evaluation behind them: `Evaluates`, `Calculates`, `EvaluationEnds`; einsum calls: `EinsumIsExact`; sparse matrices and graphs: `MatricesAreExact`; products by several threads: `EntriesFit` |
| `InterningReacquire`, `InternBackupLookup`, `HeadTailDuplicate` | to the first violation | see Findings |

The type invariants of `HeadTail`, `Calculus`, `TrieSearch` with `Query`, and `Resources`
are parts of what is proved (section 5), and no run repeats them.

### Bounds

* Interning: three threads for two slots make a scan fail and a slot contended;
  two strings share a bucket and one does not; slabs of two strings overflow
  (`SlabCap`, `MaxSlabs`); `MaxId` is large enough that the counter is never the
  reason to stop. `MaxLive = 2` lets a thread nest permits.
  `MaxSessions = 1` says a thread does not acquire again after it has dropped its
  last permit: what happens otherwise is the finding `InterningReacquire`
  (`MaxSessions = 2`). Thread symmetry is used where no liveness is checked.
* Subsumption: three requests suffice for a chain (p, a prefix of p, a prefix of
  that one) in every order, and equal and incomparable ones; the theorems cover
  every number.
* HeadTail: `Paths` exceeds `MaxMax` by two, so paths are displaced repeatedly.
* Calculus: the program in `MCCalculus` has matches that an exec's own output
  would enable, additions and removals of one atom across matches and templates,
  a reduction followed by a removal, an ill-formed exec, and execs that write
  themselves and each other; `MaxSteps = 3` cuts some runs off and not others,
  and the count of runs stops at `MaxSteps + 1`, which no run exceeds.
* Matching: all pairs of two arguments out of a symbol, two variables and
  a compound with a variable, on each side, and seven problems that need
  more: three arguments, two factors, a data variable met by a pattern
  variable that comes again, bindings that are cyclic across expressions.
  A variable has one of three ground values, nested up to two levels:
  the properties are about the solutions among these, and a solution that needs
  deeper values is not seen. `Limits` has the 1000 of the code, which no problem of this size
  comes near, and 2, so that giving up is reached.
* Sinks: `MaxSunk` and `MaxMatches` of 3 reach a second match of a context and
  one of another context between; `MaxSum = 2` makes sums overflow, which stops a build
  that checks and wraps in another; `Other` is a
  byte that is no number. Grounds and fillings of `MCSinks` agree and differ at every
  depth.
* Resources (in run `Sinks`): `MaxExecs = 3` is write, read, and read what was written in between; or
  three reads of one solver, where a reply left over from one is taken for the
  next one's status. The batches hold a contradiction, an ill-formed statement and none.
* Expressions: `MaxLen`, `MaxVars` stop an expression that grows; replacements
  have no, one, two and repeated variables. Two expressions of the space
  and one exec in three shapes, five variables of which up to three are bound:
  chains, sharing and cycles across expressions. `MaxTokens = 4` (`MaxMarks = 5`)
  bounds texts that are chosen token by token; `MCTexts` and `MCLines` are longer.
  `MaxArity`, `MaxVariables`, `DEPTH_LIMIT` and `LineBytes` are the limits of the
  code made small enough to be met. `U64 = 195`, `MAX_PRECISION = 12` and `I16 = 3`
  keep what matters of the real ones: two digits fit always, and of a third, as `u64::MAX` ends
  in 5 too, the small ones, so that in 19990 digits are dropped between others. With
  `MaxChars = 7` exponents go out of range at both ends, by what is written or by the
  digits around the point, a number is refused, and the exponent wraps.
* Engines: bytes of two bits with numbers of one and two bytes have every sign, carry
  and overflow; `Jobs = 2` evaluations in one scope. Slots have sizes 2 and 3, so that
  an axis taken for another shows; inputs of up to three axes, outputs of
  up to three, run twice. Matrices of two nodes with every sign cancel in a
  product; those of 1s and 2s saturate at `Limit = 3`; graphs of up to four nodes
  have components of every shape. `Workers` are two threads, enough for every
  conflict over one place; products of 3 by 3 have partial sums that pass zero, so that a
  column is noted twice, and rows with fewer entries than were counted.

Deadlock is not checked where the system really stops: all threads have used
their sessions, the exec is set up, the sink is finalized, the loop has returned,
the text is read, the call is answered.

### Fairness

* `Interning!FairSpec`: weak fairness of every thread's steps inside
  `get_sym_or_insert`. Each step is straight-line code, and a blocked lock is
  released by a step of its holder; the operating system does not stop a thread
  for ever. Weak fairness is enough because the bucket lock is kept only by
  threads that insert a new string, of which there are finitely many. Acquiring,
  dropping and starting a call are the program's choice and get none.
* `Calculus!FairSpec`, `Query!QFairSpec`, and weak fairness of
  `Instantiation!Next` and of `EvalVM!Running` in their suites: each is a
  loop of a single thread that waits for nobody. Starting an evaluation is the
  caller's choice and gets none.
* No liveness is stated of queries that read from Z3: whether it answers is not up to the
  kernel, and a query does wait for ever if it does not.

## 4. Findings

* `InterningReacquire`: `try_aquire_permission` trusts a thread-local slot index
  that `drop` does not clear, so two threads can hold permits on one slot
  (`handle.rs` 138 against the comment at 29-31).
* `InternBackupLookup`: `deserialize` hashes the start of the record and not the
  string (`serialization.rs` 173), so `get_sym` on a loaded mapping looks in
  another bucket. Tests that compare the tables as a whole do not see it.
* `HeadTailDuplicate`: a path that is sunk again after the sink is full fails
  the assertion at `sinks.rs` 398. A program needs only two matches that differ
  in a variable the template drops, as in
  `(exec 0 (, (foo $x) (bar $y)) (O (head 2 (out $y))))`.

The properties of the passing runs are true of the code as it is, with the
following behaviours in the model. A property that would fail because of one names
it as an exception, so that it says what holds beside it.

*Loop and sinks.* `metta_calculus(steps)` runs up to `steps + 1` execs and
returns `steps` (`space.rs` 1719), which `main.rs` prints as the number performed
(`ResultCountsRuns`). Where a reduction's guard is a symbol or a new
variable, the context is written at the root followed by the whole context, which begins
with the root again (`sinks.rs` 586-600); `AreDistinct` leaves these out. An ACT file that is
written again after it was mapped is read as it was (`space.rs` 1044); `FactorsAreCurrent`
takes that for what is current. `AUSink` aborts when
finalized after a single match (303). The source `!=` does not shift the
references of its second factor (`sources.rs` 151). An error reply of Z3 stays
in the pipe and shifts the replies behind it (`space.rs` 1059).

*Evaluation.* A quoted expression that is not the last argument is taken
twice, by the quote and as the next argument (`eval/src/lib.rs` 101). A failed
evaluation does not give its buffers back (82). `ternarylogic` insists
on three arguments and reads four (`pure.rs` 30-34, 391). `encode_hex`,
`base64url` and `collapse_symbol` can make symbols that are empty or too long for a tag (755).
`clamp` panics unless its bounds are in order; `max` and `min` pass over NaN.

*Text.* In a list, a comment directly before `)` is reported as
`UnexpectedRightBracket`, and one before the end of the text as the end of input, so
that the last expression is dropped silently. The 64th child of a list writes
the reserved byte 0x40, at which the reader panics. Variables of an expression
that the pattern of `add_sexpr` skips leak into the next one (`space.rs` 881-883);
`LoadsWhatIsWritten` is about texts whose skipped expressions have no variables.
Symbols longer than 63 bytes are cut where there is no interner; an empty CSV
field, JSON string or key becomes the byte of a new variable. A dump does not
quote symbols with blanks. In a template of `add_sexpr` a `$` counts from the
template's own start, in one of `dump_sexpr` or of an exec it goes on after
the pattern's.

*JSON.* For `json_to_paths` and `jsonl_to_paths`, `ASpaceTranscriber::write_number` hands a
generator, which runs only after it has returned, a slice of its own stack buffer
(`space.rs` 358-367): the digits in the file are whatever is in that frame by then. The model
has a number's bytes right or not, in any combination. `load_jsonl` writes the eight bytes of a line's number without the size
byte that `jsonl_to_paths` writes. `json_to_paths` and `jsonl_to_paths` swallow
parse errors, and the latter then cuts eight bytes off a path that still has the
blocks of the broken line. The index 0 and the key "0" give the same path.
After an exponent `read_big_number` accepts another exponent, fraction or digits
(666-669); the 16-bit exponent wraps after 32768 digits of a fraction (`NumberIsClose` leaves such
a fraction out).
A key with escapes is a slice of a buffer that may move.

*Matching.* Under the feature `no_search`, `query_multi_raw` calls `unify(pairs)` with a vector
(`space.rs` 1184) where `unify` takes a mutable reference (`expr/src/lib.rs` 1971), so that a build
with it does not look as if it compiles. `Query` has what the call is meant to do.

*Terms.* A move of `ExprZipper` that fails leaves it at the end with its old
breadcrumbs, and `next_descendant` panics on a root without arity. `execute` and
`execute_loop` hand `add` different offsets.

*Linear algebra.* On the virtual machine an accumulator whose output names the
innermost slot twice is flushed to the first position only
(`einsum.rs` 644-657; `AccumulatesDiagonal`). `matmul_par` counts entries
before cancellation, so that a row may end with padding (column 0, value
0) that later merges and searches misread (`csr.rs` 427). `rcm` on a directed graph
may miss nodes, and `permute` then panics. The single-output native variant
over dense inputs stores instead of adding; attention leaves blocks that nothing
hits as they were, and compares the numbers of blocks only.

## 5. Proofs

All theorems hold for every value of the constants that satisfies the named
assumptions (`ConstantsAssumption`, `RequestsAssumption`, `PathsAssumption`,
`ProgramAssumption`, `MaxStepsAssumption`, `PositionsAssumption`,
`ProblemsAssumption`, `ValuationsAssumption`, `SpacesAssumption`, `BatchesAssumption`,
`IllFormedAssumption`, `ExecsAssumption`), which TLC evaluates in the runs.

**InterningProofs.** `TableInvariant` is the inductive invariant: a thread at
`fill` ... `publish` holds the lock of its bucket and its string has no symbol
(`Locking`); a thread past its decision has as result the symbol of its string
(`Answer`); every symbol in the table or in flight has a number below its slot's
counter, and no two of them are equal (`Fresh`, `Used`). The last is what makes
symbols unique, and it holds even when two threads share a slot, because the
counter is a fetch_add. `Linearization` uses it to map every step to a step of
`InternTable` or a stutter: the cases group steps that touch neither table nor
result (`Private`), that decide one (`Edges`), `Number` and `Publish`.
`Exclusive` proves `SlotExclusive` under `MaxSessions = 1`, the condition without
which it is false: a thread without a live permit, and which is not scanning its
first time, never acquires again, so a slot's owner always is the thread whose
index points to it.

The second half of the module is about slabs. They are safe as long as no two threads with a permit
write through one slot (`NoSharedSlot`); with `MaxSessions = 1` that is
`Exclusive`, and without it false (run `InterningReacquire`), so `SlabInvariant`
assumes it in the formula and the others assume `MaxSessions = 1`. The invariant
`SlabInv` gives each slab the slot it was allocated for and says that links go
up, within a slot (`Links`, `Ends`); that every allocated slab can be reached
(`Reached`); that a slab follows the last one only while a call is between its
write and its cleanup (`Tail`); that a symbol's pointer is to a used entry of its
slot, each to its own (`Pointers`); and that every used entry belongs to a symbol
or to a call under way (`Covered`). Per thread, `Local` says what a call knows
between two actions: an eager write is the last entry, and the saved header the
one before it. Without `Tail` a revert could cut off a slab; without `EagerIsLast`
it could take back another string. A step by a thread leaves the other threads'
`Local` alone because their slots are others, which is where `NoSharedSlot` goes
in. `NoSlabLeak` follows since between calls only symbols are left in `Covered`:
`Chain` is the least set of slabs closed under the links, and a well-founded argument
over the slab numbers shows that it contains each one of the slot. TLC checked `SlabInv` on the instance of
`Interning` before it was proved.

**InternBackupProofs.** `LoadedSymbolsSurvive` assumes nothing about permits: the
records of the file are symbols below what `deserialize` sets the counters to,
and the symbol 0, at which the loader of a slot would stop, is never given out.
The consistency of the backup (`ConsistentBackup`) follows from `SlabInv` and
`TableInv` of the source: a thread that publishes has put its bytes before, so
what a reader sees when the last map is locked was in the maps. The steps of
`BNext` are mapped to steps of `Next` first (`SourceRuns`), so all theorems about
`Interning` hold of the source of a backup.

**SubsumptionProofs.** `LexByLength`: among the prefixes of one path the order of
slices is the order of lengths. Hence both choices of a root agree (`Agree`) and
are a total order on candidates. The loop invariant says that `best` is the best
candidate so far and that `out[k]` is the root of request `k`. A root is its own
root (`RootOfRoot`), and two roots that cover each other are equal
(`RootsExclusive`), so opened resources do not overlap (`Exclusive`) and each
template is served by one (`Served`). `Typed` gives both loops' indices their range, and `best`
a request in every turn. `Agree` is about both variants of the code and
no run checks it: it needs no state.

**HeadTailProofs.** `Typed` says that the kept paths are as many as `count`, at most `max`. The
invariant keeps besides that `extremum` is the worst one, that every
seen path that is not kept comes after all kept ones when the sink is full, and what the space
is before and after `Finalize`. `KeptIsSelection` turns that into the definition by cardinality.

**CalculusProofs.** While a query runs, the space is the read copy without the
exec, plus what the additions have sunk so far; what the other sinks hold is
what the matches so far have sunk; after `fin` finalizations the space is what
the first `fin` templates make of that. So the space at `Ran` is `Result` of the
space at `Pick` (`Refinement`). `Early` follows from the same invariant. For
`Counted` the invariant (`Counting`) is that the execs that were run are as many as
`done` counts, and one more while an exec is under way.

**QueryProofs.** The first half is about `TrieSearch`. `Typed` holds for any problem. For `Whole` and `Strays` the invariant
(`Aligned`) is that the stack has as many items as lie ahead of the zipper, and
one more in a descent that strayed, whose surplus item is therefore never
matched when the data ends. For `Complete` the invariant (`Fits`) is that in every
solution an item of the stack has the value of what it will be matched with,
and a reference the value of its variable. A dead end then is a label that
differs from one with the same value, which `Instantiates` excludes
(`EqualValues`); so there was no solution.

The second half is about `Unify` and `Query`. The difficulty of `KeepsSolutions` is that `unify` does not push a
pair again that it has `encountered`: what such a pair demands is neither on the
stack nor in the bindings. The invariant (`UInv`) speaks of claims, pairs of
locations that have to be equal. There is a set of claims, with the pairs of the
problem and all encountered ones among them, each of which waits on the stack, or
follows from the bindings, or was compared by `match2` and split into claims of
the same set (`Accounted`). Claims may be split in a circle, when bindings are cyclic;
`ClaimsHold` shows that they hold even so, by a smallest counterexample: a claim that
is split into true claims is true, and what a compound is split into is smaller.
So a valuation that respects bindings and stack solves the problem (`SaysTheSame`).
The converse (`Implied`) and that a refused problem has no solution (`Refuted`)
need no such argument. One lemma per kind of step: `ReturnStep`, `RefuseStep`,
`DerefStep`, `PopStep`, `DecomposeStep`. `Descends` carries the theorems of the
descent over to a query, and `Answers` joins both ends. The theorems quantify over
`Problems` and their `Valuations`, which are any sets that satisfy
`ProblemsAssumption` and `ValuationsAssumption`: terms of finite size, equal when
their labels are.

**ResourcesProofs.** A reader takes the lines of a pipe as they come, and nothing in
a line says which query it answers. After unsat they do get out of step: Z3 answers
`get-model` with an error that nobody reads, and a later query may take it for its
status. `FactorCorrectness` says that the factor is right all the same, if no
ill-formed statement was sent. The invariant (`SolversAreFollowed`) relates what was
sent to a solver to what it has not read yet, what it has asserted, what is in the
pipe and what is in the buffer of the reader. Nothing that was sent is lost
(`NothingIsLost`). As long as what was sent has a model, a query leaves nothing behind:
what is still to come of its answer is one of six cases (`IsUnderway`), and between
queries the pipe is empty (`IsAnswered`). Once it has none, no line of the pipe says sat
and no `check-sat` that waits will be answered so (`UnsatIsForGood`), as assertions are
never taken back; whatever line is read first, there is no model. For `ReadsAreAnswered`,
which holds with ill-formed statements too, every `check-sat` has its `get-model` behind it,
and a line sat the end of its model (`ModelFollows`), so that the lines a reader waits for
are in the pipe or will be written (`LinesWillCome`). What a step of Z3 does to that
is `AnswerIsFollowed`; what a batch, a query, a filled buffer and a read line do are
`BatchIsFollowed`, `QuestionIsFollowed`, `FillIsFollowed`, `StatusIsFollowed` and
`ModelIsFollowed`. For a file, `FilesWereWritten` says that what is mapped was
written. For the space, `SpaceIsMeant` is about encodings: `==` enrolls an expression and
behind it a copy of which `Shift` moves the references by the number of the first one's
variables, which is what two expressions with variables apart are (`ApartIsShifted`), and
expressions are copies exactly when they are equal byte for byte (`CopyIsEqual`). One lemma per
action (`...Keeps`), joined in `StepKeeps`; TLC checked the invariant on the execs of
run `Sinks` first. `TypeCorrectness` is the type invariant of the module.

**ParallelProductProofs.** Nothing is assumed of the constants: `WritesCorrectness`
(`EntriesFit`) holds for matrices of every size, any number of threads and any values. The
invariant (`PInv`) says that the counts are those of the columns that a row touches
(`CountsAreRight`), and that rooms follow one another with as many places
(`RoomsFollow`), hence two rows share none (`RoomsApart`). Of a thread at work (`Filling`)
it says that every column whose sum is not zero is noted, that what is written and the
columns whose sum is not zero fit the room together, that what is written comes
no later than anything still noted and has its sum cleared, and that the places behind are
untouched. `EntriesFit` alone is not inductive: that there is room for one entry says
nothing of the next. A column noted twice takes one place, since its scratch is cleared behind the
first, and that is why the room counted by columns is enough. What each of the loops
does to a thread's own knowledge is `Adding`, `Emitting` and `Writing`, lemmas about a
scratch and the arrays without the other threads; `FillingElsewhere` and `OneWorker`
carry it over to all of them, whose rows are others (`Apart`). TLC checked `PInv` on the
parallel products of run `Engines` first.

**Only model-checked.** Liveness (`CallReturns`, `Returns`, `Terminates`,
`InstantiationEnds`, `EvaluationEnds`): out of the prover's reach. `GivesUpLate`: a
pair that is not recorded as encountered can be pushed again, and pairs of the problem may
repeat, so a bound on the number of turns needs a measure of the whole run, for
which no invariant was found. What the modules of expressions, parsers and
engines compute is defined by recursion over data, which no installed prover can
do induction over: `Expressions`, the suites of `Engines`, and those of
`Reductions` and `FoldSinks` in `Sinks` stay with TLC. So does what a
parallel product comes to (a part of `MatricesAreExact`), as opposed to where it is written. (`Resources` handles expressions too, but
the operations of `DeBruijn` it needs are written without recursion, and facts
about them follow position by position.)

## 6. Not modelled

* Interning: `reveal_tables` (behind the feature `debug_api`), `keep_slabs_alive`,
  the reference count and the freeing of a mapping, several mappings in one
  thread, weak memory effects.
* Kernel: the trie itself, whose cursors decide in which order branches come;
  the early end of a search by longjmp; the panics of sinks that are made from
  an ill-formed template; the rounding of float reductions; the WASM sink, which does not
  fit the trait as it is now; loaders from Neo4j; backups as trees or paths, which are PathMap's;
  `token_bfs`; timing, merkleization and instrumentation. The variants of
  `transform_multi_multi` differ by what they specialize; the model has the one
  difference one can see, the counter that is carried.
* Terms: the deprecated `apply`, `transformed`, `unifiable`; the moves of `ExprZipper` that
  nothing calls (`parent`, `next_skip`, `reset`, `unbind`, `traverse`,
  `execute_loop_truncated`); `HashTraversal`; the macros `parse!` and `destruct!`;
  the legacy `_main.rs`. `extract_data` on a pattern that meets a compound twice
  advances by one tag only (`lib.rs` 845): nothing in the kernel calls it with
  such a pattern, and the model leaves these patterns out.
* Pure functions: strings of floats, base64 and the hash.
* Linear algebra: element-wise operations on dense tensors, `bandwidth_stats`,
  the rounding of floats, the machine code itself.
* JSON: the cut of keys and strings at 63 bytes where there is no interner, which is in
  `Loading` for symbols; `JsonLoading` takes keys and strings for ones that fit.
* `main.rs`, benchmarks, examples, the command line.

`PROJECT.json` lists the hazards that no property covers yet, each with the reason.

## 7. Plan

Done: `InternTable`, `Interning`, `InternBackup` (the one place with real concurrency, with
refinement, liveness, restart), `Subsumption`, `HeadTail`, `Calculus` with
`Rewriting`, `TrieSearch`, `Unify` and `Query`, `Resources`, `ParallelProduct`, all proved;
`Instantiation`, `Reductions`, `FoldSinks`; `ExprAlgebra`, `Walks`;
`Loading`, `JsonLoading`, `JsonLexemes`; `EvalVM`, `PureFunctions`, `Floats`;
`Tensors`, `Einsum`, `Csr`.

Left: `reveal_tables` against writers (a deadlock by lock order), and the
freeing of a mapping against readers that keep slices.
