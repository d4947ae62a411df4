------------------------------ MODULE Einsum ------------------------------
(* Einstein summation as linalg runs it: a text is parsed, its loops are     *)
(* scheduled around the rows of the sparse inputs, and either the virtual    *)
(* machine or native code walks the loops and adds every product into the    *)
(* outputs.                                                                  *)
(*                                                                           *)
(* A value is the sum of products it stands for: a sequence of terms, a term *)
(* being the sequence of the elements multiplied.                            *)
EXTENDS Tensors

CONSTANTS Calls,   \* [spec, text, inputs, outs, engine]: what einsum is asked
          MaxRuns  \* how often one program is run on the same outputs (bound)

VARIABLES call,     \* the call
          program,  \* what it was compiled to
          outs,     \* the outputs
          runs,     \* how often the program has run
          answer,   \* "new", "ready", "running", or the error
          place,    \* where the program is: [pc, frames], a frame for every loop open
          regs      \* its registers

vars == <<call, program, outs, runs, answer, place, regs>>

Plus(x, y) == x \o y
Times(x, y) == [n \in 1 .. Len(x) * Len(y) |-> x[((n - 1) \div Len(y)) + 1] \o y[((n - 1) % Len(y)) + 1]]

----------------------------------------------------------------------------
(* The text, a sequence of characters with "->" as one *)
Letters == <<"a", "b", "c", "d">>
IsLetter(ch) == \E k \in 1 .. Len(Letters) : Letters[k] = ch
(* The pieces between the commas *)
Groups(text) ==
  FoldLeft(LAMBDA gs, ch : IF ch = "," THEN Append(gs, <<>>)
                           ELSE Append(Lead(gs), Append(gs[Len(gs)], ch)), << <<>> >>, text)
Bad(text) == \E k \in 1 .. Len(text) : text[k] # "," /\ ~IsLetter(text[k])
Has(patterns, s) == \E i \in 1 .. Len(patterns) : \E k \in 1 .. Len(patterns[i]) : patterns[i][k] = s

parse_spec(text, expected) ==
  LET spec == SelectSeq(text, LAMBDA ch : ch # " ")
      arrow == {k \in 1 .. Len(spec) : spec[k] = "->"}
      at == CHOOSE k \in arrow : \A j \in arrow : k <= j
      lhs == SubSeq(spec, 1, at - 1)
      rhs == SubSeq(spec, at + 1, Len(spec))
      ins == Groups(lhs)
  IN  IF arrow = {} THEN [error |-> "MissingArrow"]
      ELSE IF Bad(lhs) THEN [error |-> "InvalidIndex"]
      ELSE IF Len(ins) # expected THEN [error |-> "WrongInputCount"]
      ELSE IF \E i \in 1 .. Len(ins) : ins[i] = <<>> THEN [error |-> "EmptyInput"]
      ELSE IF Bad(rhs) THEN [error |-> "InvalidIndex"]
      ELSE IF \E k \in 1 .. Len(rhs) : rhs[k] # "," /\ ~Has(ins, rhs[k]) THEN [error |-> "UnboundOutputIndex"]
      ELSE [error |-> "", inputs |-> ins, outputs |-> Groups(rhs)]

(* Slots in order of first appearance *)
Slots(patterns) ==
  FoldLeft(LAMBDA seen, s : IF Contains(seen, s) THEN seen ELSE Append(seen, s), <<>>, FlattenSeq(patterns))

(* What a slot was first bound to, reading the inputs from the left *)
DimOf(inputs, tensors, s) ==
  LET at == {p \in (1 .. Len(inputs)) \X (1 .. 3) : p[2] <= Len(inputs[p[1]]) /\ inputs[p[1]][p[2]] = s}
      first == CHOOSE p \in at : \A q \in at : p[1] < q[1] \/ (p[1] = q[1] /\ p[2] <= q[2])
  IN  tensors[first[1]].shape[first[2]]
AllDims(inputs, tensors) ==
  [s \in {FlattenSeq(inputs)[k] : k \in 1 .. Len(FlattenSeq(inputs))} |-> DimOf(inputs, tensors, s)]

(* The checks of an input's shape against the slots before it *)
InputError(inputs, tensors) ==
  LET clash(i) == \/ Ndim(tensors[i]) # Len(inputs[i])
                  \/ \E k \in 1 .. Len(inputs[i]) : tensors[i].shape[k] # DimOf(inputs, tensors, inputs[i][k])
      bad == {i \in 1 .. Len(inputs) : clash(i)}
      i == CHOOSE i \in bad : \A j \in bad : i <= j
  IN  IF \E k \in 1 .. Len(inputs) : Ndim(tensors[k]) # Len(inputs[k]) /\ \A j \in 1 .. k - 1 : ~clash(j)
      THEN "InputNdimMismatch" ELSE IF bad = {} THEN "" ELSE "DimensionMismatch"

validate_output(pattern, dims, out) ==
  IF Ndim(out) # Len(pattern) THEN "OutputNdimMismatch"
  ELSE IF \E k \in 1 .. Len(pattern) : out.shape[k] # dims[pattern[k]] THEN "OutputDimMismatch" ELSE ""
OutputError(outputs, dims, some) ==
  IF Len(some) # Len(outputs) THEN "WrongInputCount"
  ELSE LET bad == SelectSeq([k \in 1 .. Len(outputs) |-> validate_output(outputs[k], dims, some[k])],
                            LAMBDA e : e # "")
       IN  IF bad = <<>> THEN "" ELSE bad[1]

----------------------------------------------------------------------------
(* The schedule.  A loop binds a slot: to 0 .. dim-1, or (input > 0) to the  *)
(* columns stored in the row of that input which the slots before it name.   *)
Loop(slot, input) == [slot |-> slot, input |-> input]
MayIterate(inputs, sparse, fixed, s) ==
  {i \in sparse : LET p == inputs[i] IN
     p[Len(p)] = s /\ ~Contains(Lead(p), s) /\ ToSet(Lead(p)) \subseteq fixed}

Schedule(inputs, outputs, sparse) ==
  LET slots == Slots(inputs \o outputs)
      plan[n \in 0 .. Len(slots)] ==
        IF n = 0 THEN <<>>
        ELSE LET fixed == {plan[n - 1][k].slot : k \in 1 .. n - 1}
                 left == SelectSeq(slots, LAMBDA s : s \notin fixed)
                 rows == SelectSeq(left, LAMBDA s : MayIterate(inputs, sparse, fixed, s) # {})
                 leads == SelectSeq(left, LAMBDA s : \E i \in sparse : Contains(Lead(inputs[i]), s))
             IN  Append(plan[n - 1],
                        IF rows # <<>>
                        THEN LET can == MayIterate(inputs, sparse, fixed, rows[1])
                             IN  Loop(rows[1], CHOOSE i \in can : \A j \in can : i <= j)
                        ELSE Loop(IF leads # <<>> THEN leads[1] ELSE left[1], 0))
  IN  plan[Len(slots)]

Covered(plan, i) == \E k \in 1 .. Len(plan) : plan[k].input = i

(* The accumulator: where a single output names the innermost slot, its      *)
(* values are collected per iteration of the deepest other output slot's     *)
(* loop (0: there is none), in the first position that names it.             *)
FlushLoop(plan, outputs) ==
  LET inner == plan[Len(plan)].slot
      around == {k \in 1 .. Len(plan) - 1 : Contains(outputs[1], plan[k].slot)}
  IN  IF Len(outputs) # 1 \/ ~Contains(outputs[1], inner) \/ around = {} THEN 0
      ELSE CHOOSE k \in around : \A j \in around : j <= k
AccOutPos(plan, outputs) ==
  LET at == {k \in 1 .. Len(outputs[1]) : outputs[1][k] = plan[Len(plan)].slot}
  IN  CHOOSE k \in at : \A j \in at : k <= j

(* The bytecode: loop heads with AccStart after the one that flushes, MulAcc, *)
(* and loop ends with AccFlush before that loop's.                           *)
Emit(plan, flush) ==
  LET loops == Len(plan)
      heads == FlattenSeq([k \in 1 .. loops |->
                 << [op |-> "loop", slot |-> plan[k].slot, input |-> plan[k].input] >>
                   \o IF k = flush THEN << [op |-> "AccStart"] >> ELSE <<>>])
      ends == FlattenSeq([n \in 1 .. loops |->
                 (IF loops + 1 - n = flush THEN << [op |-> "AccFlush"] >> ELSE <<>>)
                   \o << [op |-> "LoopEnd"] >>])
  IN  heads \o << [op |-> "MulAcc"] >> \o ends

SparseInputs(inputs, tensors) == {i \in 1 .. Len(inputs) : Len(inputs[i]) >= 2 /\ AsSparse2D(tensors[i])}
Compiled(spec, tensors) ==
  LET plan == Schedule(spec.inputs, spec.outputs, SparseInputs(spec.inputs, tensors))
      flush == FlushLoop(plan, spec.outputs)
  IN  [error |-> "", spec |-> spec, dims |-> AllDims(spec.inputs, tensors), plan |-> plan, flush |-> flush,
       acc_out_pos |-> IF flush = 0 THEN 0 ELSE AccOutPos(plan, spec.outputs),
       ops |-> Emit(plan, flush), sourced |-> {i \in 1 .. Len(spec.inputs) : Covered(plan, i)}]

----------------------------------------------------------------------------
(* The virtual machine.  m holds the slots' values, the values the sparse    *)
(* loops read, and the accumulator.                                          *)
At(pattern, vals) == [k \in 1 .. Len(pattern) |-> vals[pattern[k]]]
Registers(p) ==
  [vals |-> [s \in DOMAIN p.dims |-> 0], sparse_vals |-> [i \in 1 .. Len(p.spec.inputs) |-> Zero],
   acc_on |-> FALSE, acc |-> [j \in {} |-> Zero], nz_cols |-> <<>>, sum |-> Zero]
Bind(m, op, entry) ==
  IF op.input = 0 THEN [m EXCEPT !.vals[op.slot] = entry.col]
  ELSE [m EXCEPT !.vals[op.slot] = entry.col, !.sparse_vals[op.input] = entry.val]
Counted(dim) == [v \in 1 .. dim |-> [col |-> v - 1, val |-> Zero]]

(* What a loop runs over *)
Entries(p, op, tensors, m) ==
  IF op.input = 0 THEN Counted(p.dims[op.slot])
  ELSE LET t == tensors[op.input]
           row == CompoundRow(t, At(p.spec.inputs[op.input], m.vals))
       IN  [e \in 1 .. RowNnz(t, row) |-> RowEntry(t, row, e - 1)]

(* mul_acc: the inputs are multiplied from the left until one is absent.     *)
Factors(p, tensors, m) ==
  [i \in 1 .. Len(tensors) |-> IF i \in p.sourced THEN {m.sparse_vals[i]} ELSE GetOpt(tensors[i], At(p.spec.inputs[i], m.vals))]
TimesAll(factors) == FoldLeft(LAMBDA x, f : Times(x, CHOOSE v \in f : TRUE), CHOOSE v \in factors[1] : TRUE, Tail(factors))
AddTo(out, ix, v) == Set(out, ix, Plus(Get(out, ix), v))

mul_acc(p, tensors, s) ==
  LET factors == Factors(p, tensors, s.m)
      idx == s.m.vals[p.plan[Len(p.plan)].slot]
  IN  IF \E i \in 1 .. Len(factors) : factors[i] = {} THEN s
      ELSE IF s.m.acc_on
      THEN [s EXCEPT !.m.acc[idx] = Plus(@, TimesAll(factors)),
                     !.m.nz_cols = IF Contains(@, idx) THEN @ ELSE Append(@, idx)]
      ELSE [s EXCEPT !.outs = [o \in 1 .. Len(@) |->
                                 AddTo(@[o], At(p.spec.outputs[o], s.m.vals), TimesAll(factors))]]

----------------------------------------------------------------------------
(* Native code.  It reads memory through the pointers the call passes, one   *)
(* for a dense input and three for a sparse one, and knows nothing else of   *)
(* the tensors but the dimensions it was generated for.                      *)
PushPtrs(t) == IF t.kind = "dense" THEN <<t.data>> ELSE <<t.row_ptr, t.col_idx, t.values>>
Memory(tensors) == FlattenSeq([i \in 1 .. Len(tensors) |-> PushPtrs(tensors[i])])
FirstPtr(sparse, i) == i + 2 * Cardinality({j \in sparse : j < i})
Strides(dims) == [k \in 1 .. Len(dims) |-> Product(SubSeq(dims, k + 1, Len(dims)))]
ElemAddr(dims, ix) ==
  LET strides == Strides(dims) IN FoldLeft(LAMBDA off, k : off + ix[k] * strides[k], 1, [k \in 1 .. Len(ix) |-> k])
AxisDims(p, pattern) == [k \in 1 .. Len(pattern) |-> p.dims[pattern[k]]]

RowEntries(p, op, mem, m) ==
  LET first == FirstPtr(p.sparse, op.input)
      leading == Lead(p.spec.inputs[op.input])
      row == ElemAddr(AxisDims(p, leading), At(leading, m.vals))
      start == mem[first][row]
  IN  [e \in 1 .. mem[first][row + 1] - start |->
         [col |-> mem[first + 1][start + e], val |-> mem[first + 2][start + e]]]
NativeEntries(p, op, tensors, m) ==
  IF op.input = 0 THEN Counted(p.dims[op.slot]) ELSE RowEntries(p, op, Memory(tensors), m)

EmitProduct(p, tensors, m) ==
  LET mem == Memory(tensors)
      factor(i) == IF i \in p.sparse THEN m.sparse_vals[i]
                   ELSE mem[FirstPtr(p.sparse, i)][ElemAddr(AxisDims(p, p.spec.inputs[i]), At(p.spec.inputs[i], m.vals))]
  IN  FoldLeft(LAMBDA x, i : Times(x, factor(i)), factor(1), [i \in 1 .. Len(p.spec.inputs) - 1 |-> i + 1])
OutAddr(p, o, m) == ElemAddr(AxisDims(p, p.spec.outputs[o]), At(p.spec.outputs[o], m.vals))

(* codegen.  With dense inputs and a single output a register sums what one  *)
(* output gets, and is stored once; otherwise every product is added into    *)
(* the outputs in memory.  A sparse input whose column was fixed without     *)
(* walking its rows is not supported.                                        *)
Free(inputs, outputs) == SelectSeq(Slots(inputs \o outputs), LAMBDA s : Has(outputs, s))
Contracted(inputs, outputs) == SelectSeq(Slots(inputs \o outputs), LAMBDA s : ~Has(outputs, s))
Heads(plan) == [k \in 1 .. Len(plan) |-> [op |-> "loop", slot |-> plan[k].slot, input |-> plan[k].input]]
Ends(plan) == [k \in 1 .. Len(plan) |-> [op |-> "LoopEnd"]]
Just(name) == << [op |-> name] >>

Registered(free, contracted) ==
  Heads(free) \o Just("zero") \o Heads(contracted) \o Just("sum") \o Ends(contracted) \o Just("store") \o Ends(free)
Codegen(spec, tensors) ==
  LET sparse == {i \in 1 .. Len(tensors) : tensors[i].kind # "dense"}
      plan == Schedule(spec.inputs, spec.outputs, sparse)
      dense(slots) == [k \in 1 .. Len(slots) |-> Loop(slots[k], 0)]
      register == sparse = {} /\ Len(spec.outputs) = 1
  IN  IF \E i \in sparse : ~Covered(plan, i) THEN [error |-> "Unsupported"]
      ELSE [error |-> "", spec |-> spec, dims |-> AllDims(spec.inputs, tensors), sparse |-> sparse, register |-> register,
            ops |-> IF register
                    THEN Registered(dense(Free(spec.inputs, spec.outputs)), dense(Contracted(spec.inputs, spec.outputs)))
                    ELSE Heads(plan) \o Just("rmw") \o Ends(plan)]

----------------------------------------------------------------------------
(* Attention: the one summation bhqd,bhkd->bhqk, over block-sparse tensors,  *)
(* block by block.  It compares numbers of blocks only.                      *)
AttentionError(q, k, out) ==
  IF /\ BlockCols(q) = BlockCols(k) /\ BlockRows(out) = BlockRows(q) /\ BlockCols(out) = BlockRows(k)
     /\ Product(OuterShape(q)) = Product(OuterShape(k)) /\ Product(OuterShape(q)) = Product(OuterShape(out))
  THEN "" ELSE "panic"

(* c := c + a * transposed b, for blocks *)
block_matmul_acc(a, b, c) ==
  [cell \in 1 .. N * N |->
     LET i == (cell - 1) \div N
         j == (cell - 1) % N
     IN  FoldLeft(LAMBDA sum, k : Plus(sum, Times(a[i * N + k], b[j * N + k])), c[cell], [k \in 1 .. N |-> k])]
TheBlock(set) == CHOOSE b \in set : TRUE

(* An output block is replaced if some pair of present blocks falls on it,   *)
(* and otherwise left as it is.                                              *)
attention(q, k, out) ==
  LET cols == BlockCols(q)
      square == BlockRows(q) * BlockRows(k)
      product(o, before) ==
        LET outer == (o - 1) \div square
            qi == ((o - 1) % square) \div BlockRows(k)
            ki == (o - 1) % BlockRows(k)
            qb(d) == q.blocks[outer * BlockRows(q) * cols + qi * cols + d]
            kb(d) == k.blocks[outer * BlockRows(k) * cols + ki * cols + d]
            hits == SelectSeq([d \in 1 .. cols |-> d], LAMBDA d : qb(d) # {} /\ kb(d) # {})
        IN  IF hits = <<>> THEN before
            ELSE {FoldLeft(LAMBDA acc, d : block_matmul_acc(TheBlock(qb(d)), TheBlock(kb(d)), acc),
                           [c \in 1 .. N * N |-> Zero], hits)}
  IN  [out EXCEPT !.blocks = [o \in 1 .. Len(@) |-> product(o, @[o])]]

----------------------------------------------------------------------------
Nowhere == [pc |-> 0, frames |-> <<>>]
Init ==
  /\ call \in Calls /\ program = <<>> /\ outs = call.outs /\ runs = 0 /\ answer = "new"
  /\ place = Nowhere /\ regs = <<>>

(* Everything is checked before anything is written. *)
Refusal(spec) ==
  LET input == InputError(spec.inputs, call.inputs)
  IN  IF spec.error # "" THEN spec.error
      ELSE IF input # "" THEN input
      ELSE OutputError(spec.outputs, AllDims(spec.inputs, call.inputs), call.outs)
Compile ==
  /\ answer = "new" /\ call.engine # "attention"
  /\ LET spec == parse_spec(call.text, Len(call.inputs))
         why == Refusal(spec)
         code == IF call.engine = "vm" THEN Compiled(spec, call.inputs) ELSE Codegen(spec, call.inputs)
         error == IF why # "" THEN why ELSE code.error
     IN  /\ answer' = IF error = "" THEN "ready" ELSE error
         /\ program' = IF error = "" THEN code ELSE program
  /\ UNCHANGED <<call, outs, runs, place, regs>>

Op == program.ops[place.pc]
Running(name) == answer = "running" /\ place.pc <= Len(program.ops) /\ Op.op = name
Go(pc, frames) == place' = [pc |-> pc, frames |-> frames]
Onward == Go(place.pc + 1, place.frames)
Static == UNCHANGED <<call, program, runs, answer>>

Start ==
  /\ call.engine # "attention" /\ answer = "ready" /\ runs < MaxRuns
  /\ answer' = "running" /\ place' = [pc |-> 1, frames |-> <<>>] /\ regs' = Registers(program)
  /\ UNCHANGED <<call, program, outs, runs>>
Finish ==
  /\ answer = "running" /\ place.pc > Len(program.ops)
  /\ answer' = "ready" /\ runs' = runs + 1 /\ place' = Nowhere /\ regs' = <<>>
  /\ UNCHANGED <<call, program, outs>>

(* The loop end that belongs to the loop head at pc *)
EndPc(pc) ==
  LET depth[k \in pc .. Len(program.ops)] ==
        IF k = pc THEN 1
        ELSE depth[k - 1] + (IF program.ops[k].op = "loop" THEN 1 ELSE IF program.ops[k].op = "LoopEnd" THEN -1 ELSE 0)
      ends == {k \in pc .. Len(program.ops) : depth[k] = 0}
  IN  (CHOOSE k \in ends : \A j \in ends : k <= j) + 1
OfLoop == IF call.engine = "vm" THEN Entries(program, Op, call.inputs, regs) ELSE NativeEntries(program, Op, call.inputs, regs)
Fused == call.engine = "vm" /\ program.ops[place.pc + 1].op = "MulAcc"

(* A loop whose body is one MulAcc runs it inline. *)
FusedLoop ==
  /\ Running("loop") /\ Fused
  /\ LET done == FoldLeft(LAMBDA s, e : mul_acc(program, call.inputs, [s EXCEPT !.m = Bind(@, Op, e)]),
                          [m |-> regs, outs |-> outs], OfLoop)
     IN  regs' = done.m /\ outs' = done.outs
  /\ Go(EndPc(place.pc), place.frames) /\ Static
Enter ==
  /\ Running("loop") /\ ~Fused
  /\ IF OfLoop = <<>> THEN Go(EndPc(place.pc), place.frames) /\ UNCHANGED regs
     ELSE /\ regs' = Bind(regs, Op, Head(OfLoop))
          /\ Go(place.pc + 1, Append(place.frames, [pc |-> place.pc, left |-> Tail(OfLoop)]))
  /\ UNCHANGED outs /\ Static
LoopEnd ==
  /\ Running("LoopEnd")
  /\ LET frame == place.frames[Len(place.frames)]
     IN  IF frame.left = <<>> THEN Go(place.pc + 1, Lead(place.frames)) /\ UNCHANGED regs
         ELSE /\ regs' = Bind(regs, program.ops[frame.pc], Head(frame.left))
              /\ Go(frame.pc + 1, Append(Lead(place.frames), [frame EXCEPT !.left = Tail(@)]))
  /\ UNCHANGED outs /\ Static

AccStart ==
  /\ Running("AccStart") /\ Onward
  /\ regs' = [regs EXCEPT !.acc_on = TRUE, !.nz_cols = <<>>,
                    !.acc = [j \in 0 .. program.dims[program.plan[Len(program.plan)].slot] - 1 |-> Zero]]
  /\ UNCHANGED outs /\ Static

Flushed(j) == [At(program.spec.outputs[1], regs.vals) EXCEPT ![program.acc_out_pos] = j]

\* Faulty AccFlush: a column already there is overwritten.
AccFlushOverwrites ==
  /\ Running("AccFlush") /\ Onward
  /\ outs' = [outs EXCEPT ![1] = FoldLeft(LAMBDA out, j : Set(out, Flushed(j), regs.acc[j]), @, regs.nz_cols)]
  /\ regs' = [regs EXCEPT !.acc = [j \in DOMAIN @ |-> Zero], !.nz_cols = <<>>]
  /\ Static

(* AccFlush adds the columns touched, for an output may be met again under   *)
(* another value of a slot that is summed over outside.                      *)
AccFlush ==
  /\ Running("AccFlush") /\ Onward
  /\ outs' = [outs EXCEPT ![1] = FoldLeft(LAMBDA out, j : AddTo(out, Flushed(j), regs.acc[j]), @, regs.nz_cols)]
  /\ regs' = [regs EXCEPT !.acc = [j \in DOMAIN @ |-> IF Contains(regs.nz_cols, j) THEN Zero ELSE @[j]], !.nz_cols = <<>>]
  /\ Static

Clear == Running("zero") /\ Onward /\ regs' = [regs EXCEPT !.sum = Zero] /\ UNCHANGED outs /\ Static
Sum == /\ Running("sum") /\ Onward
       /\ regs' = [regs EXCEPT !.sum = Plus(@, EmitProduct(program, call.inputs, regs))]
       /\ UNCHANGED outs /\ Static
Store == /\ Running("store") /\ Onward
         /\ outs' = [outs EXCEPT ![1].data[OutAddr(program, 1, regs)] = regs.sum]
         /\ UNCHANGED regs /\ Static
ReadModifyWrite ==
  /\ Running("rmw") /\ Onward
  /\ outs' = [o \in 1 .. Len(outs) |->
                [outs[o] EXCEPT !.data[OutAddr(program, o, regs)] = Plus(@, EmitProduct(program, call.inputs, regs))]]
  /\ UNCHANGED regs /\ Static

Attend ==
  /\ call.engine = "attention" /\ answer \in {"new", "ready"} /\ runs < MaxRuns
  /\ LET error == AttentionError(call.inputs[1], call.inputs[2], call.outs[1])
     IN  /\ answer' = IF error = "" THEN "ready" ELSE error
         /\ outs' = IF error = "" THEN <<attention(call.inputs[1], call.inputs[2], outs[1])>> ELSE outs
  /\ runs' = runs + 1
  /\ UNCHANGED <<call, program, place, regs>>

Next == \/ Attend \/ Compile \/ Start \/ Finish \/ FusedLoop \/ Enter \/ LoopEnd \/ AccStart \/ AccFlush
        \/ Clear \/ Sum \/ Store \/ ReadModifyWrite
Spec == Init /\ [][Next]_vars

----------------------------------------------------------------------------
(* What the text says: the products over every value of every slot that put  *)
(* an output's slots where its index is, absent elements adding nothing.     *)
Slotted == ToSet(Slots(call.spec.inputs))
Everywhere ==
  {vals \in [Slotted -> 0 .. 2] :
     \A i \in 1 .. Len(call.inputs) : \A k \in 1 .. Ndim(call.inputs[i]) : vals[call.spec.inputs[i][k]] < call.inputs[i].shape[k]}
Element(i, ix) == <<i, ix>>
TermsAt(o, ix) ==
  {[i \in 1 .. Len(call.inputs) |-> Element(i, At(call.spec.inputs[i], vals))] :
     vals \in {v \in Everywhere :
                 /\ At(call.spec.outputs[o], v) = ix
                 /\ \A i \in 1 .. Len(call.inputs) : GetOpt(call.inputs[i], At(call.spec.inputs[i], v)) # {}}}

(* The one kind of spec the machine gets wrong: a single output that names the slot  *)
(* its accumulator runs over twice.                                          *)
AccumulatesDiagonal ==
  /\ call.engine = "vm" /\ answer = "ready" /\ program.flush # 0
  /\ Len(SelectSeq(call.spec.outputs[1], LAMBDA s : s = program.plan[Len(program.plan)].slot)) > 1

(* After every run each output holds the products the text says, each once   *)
(* for every run and no other, whichever engine ran, however its inputs are  *)
(* stored and in whatever order the loops were scheduled; attention and the  *)
(* register variant of the native code store, and so hold each once.         *)
SumsAreExact ==
  (answer = "ready" /\ ~AccumulatesDiagonal) =>
    LET stores == call.engine = "attention" \/ (call.engine = "jit" /\ program.register)
        times == IF stores /\ runs > 0 THEN 1 ELSE runs
    IN  \A o \in 1 .. Len(outs) : \A ix \in ToSet(RowMajor(outs[o].shape)) :
          LET cell == Get(outs[o], ix)
              terms == TermsAt(o, ix)
          IN  /\ Len(cell) = times * Cardinality(terms)
              /\ times > 0 => ToSet(cell) = terms

(* A call is refused exactly if its text has no meaning for the shapes it is *)
(* given, or if native code would need a sparse input's element at random.   *)
Meaningful ==
  /\ call.spec.inputs # <<>>
  /\ Len(call.spec.inputs) = Len(call.inputs) /\ Len(call.spec.outputs) = Len(call.outs)
  /\ \A p \in {<<call.spec.inputs[i], call.inputs[i]>> : i \in 1 .. Len(call.inputs)}
             \cup {<<call.spec.outputs[o], call.outs[o]>> : o \in 1 .. Len(call.outs)} :
        Len(p[1]) = Len(p[2].shape)
  /\ \E dims \in [Slotted -> 1 .. 3] :
        /\ \A i \in 1 .. Len(call.inputs) : call.inputs[i].shape = At(call.spec.inputs[i], dims)
        /\ \A o \in 1 .. Len(call.outs) : call.outs[o].shape = At(call.spec.outputs[o], dims)
RefusedRightly ==
  answer # "new" =>
    /\ (answer \notin {"ready", "running", "Unsupported"}) <=> ~Meaningful
    /\ answer = "Unsupported" => \E i \in 1 .. Len(call.inputs) : call.inputs[i].kind # "dense"
=============================================================================
