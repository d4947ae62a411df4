------------------------------ MODULE Resources ------------------------------
(***************************************************************************)
(* What the factors of a query and the sinks behind it read and write      *)
(* (kernel/src/sources.rs, kernel/src/space.rs): the space itself, files   *)
(* that stay mapped once they were opened, and Z3 processes that answer    *)
(* over a pipe in their own time.  An exec takes what its sink writes to,  *)
(* opens a source, reads it, and finalizes the sink.                       *)
(***************************************************************************)
EXTENDS NamedExprs

CONSTANTS
  Spaces,          \* sets of expressions
  Files, Solvers,  \* names
  Dumps,           \* sets of expressions that are written to a file
  Batches,         \* sequences of statements that are sent to a solver
  Contradictions,  \* sets of statements that no model has
  IllFormed,       \* statements that Z3 answers with an error
  MaxExecs         \* bound: execs

\* What a space holds: items in a row, without a loose reference.
IsExpression(x) ==
  /\ x \in Seq(ToSet(x))
  /\ \A i \in DOMAIN x :
       /\ x[i] = [tag |-> x[i].tag, val |-> x[i].val]
       /\ x[i].tag \in {"new", "ref", "sym", "arity"}
       /\ x[i].tag = "new" => x[i].val = 0
       /\ x[i].tag = "ref" => x[i].val \in Nat
  /\ ~HasUnbound(x)
ASSUME SpacesAssumption == \A S \in Spaces : \A x \in S : IsExpression(x)

\* A batch is of declarations and assertions (sinks.rs, at Z3Sink).
ASSUME BatchesAssumption ==
  \A batch \in Batches : batch \in Seq(ToSet(batch)) /\ ToSet(batch) \cap {"check-sat", "get-model"} = {}

\* Z3 understands its queries.
ASSUME IllFormedAssumption == IllFormed \cap {"check-sat", "get-model"} = {}

ASSUME ExecsAssumption == MaxExecs \in Nat

VARIABLES
  space,    \* the expressions that execs see
  execs,    \* execs so far
  point,    \* of the exec: "idle", "open", "line", "model", "finalize" or "panic"
  source, target,
  factor,   \* the paths of the source
  files,    \* contents by name
  mmaps,    \* contents mapped by name
  pipe,     \* [solver |-> [stdin, asserted, modelled, stdout]]
  reader,   \* the buffer of the BufReader of this query
  sent,     \* statements sent to each solver (history)
  dumped    \* contents each file had (history)

rvars == <<space, execs, point, source, target, factor, files, mmaps, pipe, reader, sent, dumped>>

\* The processes that run.  The map only gains entries.
z3s == DOMAIN pipe

ToFile(f)   == [kind |-> "ACT", name |-> f]
ToSolver(i) == [kind |-> "z3", name |-> i]
Nothing     == [kind |-> "none", name |-> 0]
Sources == {[kind |-> k, name |-> 0] : k \in {",", "BTM", "==", "!="}}
             \cup {ToFile(f) : f \in Files} \cup {ToSolver(i) : i \in Solvers}
Targets == {Nothing} \cup {ToFile(f) : f \in Files} \cup {ToSolver(i) : i \in Solvers}

-----------------------------------------------------------------------------
(* Paths of a factor *)

\* PrefixZipper: the source is read below the functor that asks for it, unless
\* none does (CompatSource).
Functor(s) ==
  CASE s.kind = "," -> <<>>
    [] s.kind = "BTM" -> <<Arity(2), Sym("BTM")>>
    [] s.kind \in {"ACT", "z3"} -> <<Arity(3), Sym(s.kind), Sym(s.name)>>
    [] OTHER -> <<Arity(3), Sym(s.kind)>>

\* Faulty Enrolled: the copy repeats the references of the original.
EnrolledUnshifted(kind, x) == IF kind = "==" THEN {x} ELSE space \ {x}
\* CmpSource::policy: what follows x.  Equal to x is a copy with variables of
\* its own; only what is x byte for byte is not unequal to it.
Enrolled(kind, x) == IF kind = "==" THEN {Shift(x, NewVars(x))} ELSE space \ {x}

Below(s, found) == {Functor(s) \o x : x \in found}

\* CmpSource: a product of the space with what policy enrolls.
Product(s) == UNION {{x \o y : y \in Enrolled(s.kind, x)} : x \in space}

\* CompatSource, BTMSource
OfSpace(s) == Below(s, IF s.kind \in {"==", "!="} THEN Product(s) ELSE space)

-----------------------------------------------------------------------------

RInit ==
  /\ space \in Spaces
  /\ execs = 0
  /\ point = "idle"
  /\ source = Nothing
  /\ target = Nothing
  /\ factor = {}
  /\ files = <<>>
  /\ mmaps = <<>>
  /\ pipe = <<>>
  /\ reader = <<>>
  /\ sent = <<>>
  /\ dumped = [f \in Files |-> {}]

With(map, key, value) == [k \in DOMAIN map \cup {key} |-> IF k = key THEN value ELSE map[k]]

\* transform_multi_multi_io, write_handler: a process is started for the first
\* sink that names it.
Take(s, t) ==
  /\ point = "idle"
  /\ execs < MaxExecs
  /\ execs' = execs + 1
  /\ source' = s
  /\ target' = t
  /\ IF t.kind = "z3" /\ t.name \notin z3s
     THEN /\ pipe' = With(pipe, t.name, [stdin |-> <<>>, asserted |-> {}, modelled |-> FALSE, stdout |-> <<>>])
          /\ sent' = With(sent, t.name, <<>>)
     ELSE UNCHANGED <<pipe, sent>>
  /\ point' = "open"
  /\ UNCHANGED <<space, factor, files, mmaps, reader, dumped>>

OpenSpace ==
  /\ point = "open"
  /\ source.kind \in {",", "BTM", "==", "!="}
  /\ factor' = OfSpace(source)
  /\ point' = "finalize"
  /\ UNCHANGED <<space, execs, source, target, files, mmaps, pipe, reader, sent, dumped>>

\* The file is opened once; what is written to it later is another file.
OpenFile ==
  /\ point = "open"
  /\ source.kind = "ACT"
  /\ source.name \in DOMAIN mmaps \cup DOMAIN files
  /\ mmaps' = IF source.name \in DOMAIN mmaps THEN mmaps ELSE With(mmaps, source.name, files[source.name])
  /\ factor' = Below(source, mmaps'[source.name])
  /\ point' = "finalize"
  /\ UNCHANGED <<space, execs, source, target, files, pipe, reader, sent, dumped>>

\* open_mmap(..).unwrap(), "non existent z3"
OpenMissing ==
  /\ point = "open"
  /\ \/ source.kind = "ACT" /\ source.name \notin DOMAIN mmaps \cup DOMAIN files
     \/ source.kind = "z3" /\ source.name \notin z3s
  /\ point' = "panic"
  /\ UNCHANGED <<space, execs, source, target, factor, files, mmaps, pipe, reader, sent, dumped>>

Commands(i, cs) == pipe' = [pipe EXCEPT ![i].stdin = @ \o cs]

\* (check-sat) and (get-model), and a BufReader with an empty buffer.
Ask ==
  /\ point = "open"
  /\ source.kind = "z3"
  /\ source.name \in z3s
  /\ Commands(source.name, <<"check-sat", "get-model">>)
  /\ reader' = <<>>
  /\ factor' = {}
  /\ point' = "line"
  /\ UNCHANGED <<space, execs, source, target, files, mmaps, sent, dumped>>

\* Lines of Z3: what it says, and of a model what it is of.
Line(text) == <<text, {}>>

\* Z3 executes one command.  It has a model only right after it said sat.
Executed(p) ==
  LET c == Head(p.stdin)
      IsSat == \A x \in Contradictions : ~(x \subseteq p.asserted)
      Says(lines, modelled) ==
        [stdin |-> Tail(p.stdin), asserted |-> p.asserted, modelled |-> modelled, stdout |-> p.stdout \o lines]
  IN CASE c = "check-sat" -> IF IsSat THEN Says(<<Line("sat")>>, TRUE) ELSE Says(<<Line("unsat")>>, FALSE)
       [] c = "get-model" -> IF p.modelled THEN Says(<<<<"model", p.asserted>>, Line(")")>>, FALSE)
                                          ELSE Says(<<Line("error")>>, FALSE)
       [] c \in IllFormed -> Says(<<Line("error")>>, FALSE)
       [] OTHER -> [Says(<<>>, FALSE) EXCEPT !.asserted = @ \cup {c}]

Reply(i) ==
  /\ pipe[i].stdin # <<>>
  /\ pipe' = [pipe EXCEPT ![i] = Executed(@)]
  /\ UNCHANGED <<space, execs, point, source, target, factor, files, mmaps, reader, sent, dumped>>

\* The buffer takes any part of what is in the pipe.
Fill ==
  /\ point \in {"line", "model"}
  /\ reader = <<>>
  /\ \E n \in DOMAIN pipe[source.name].stdout :
       /\ reader' = SubSeq(pipe[source.name].stdout, 1, n)
       /\ pipe' = [pipe EXCEPT ![source.name].stdout = SubSeq(@, n + 1, Len(@))]
  /\ UNCHANGED <<space, execs, point, source, target, factor, files, mmaps, sent, dumped>>

\* Faulty ReadStatus: a model is read whatever the status.
ReadStatusUnchecked ==
  /\ point = "line"
  /\ reader # <<>>
  /\ point' = "model"
  /\ reader' = Tail(reader)
  /\ UNCHANGED <<space, execs, source, target, factor, files, mmaps, pipe, sent, dumped>>
\* The first line is sat, or there is nothing to read: what is left in the
\* buffer goes with it.
ReadStatus ==
  /\ point = "line"
  /\ reader # <<>>
  /\ IF Head(reader) = Line("sat")
     THEN point' = "model" /\ reader' = Tail(reader)
     ELSE point' = "finalize" /\ reader' = <<>>
  /\ UNCHANGED <<space, execs, source, target, factor, files, mmaps, pipe, sent, dumped>>

\* add_all_sexpr(..) of the lines up to the one that closes the model.
ReadModel ==
  /\ point = "model"
  /\ reader # <<>>
  /\ IF Head(reader) = Line(")")
     THEN point' = "finalize" /\ reader' = <<>> /\ UNCHANGED factor
     ELSE factor' = Below(source, {<<Sym(a)>> : a \in Head(reader)[2]}) /\ reader' = Tail(reader) /\ UNCHANGED point
  /\ UNCHANGED <<space, execs, source, target, files, mmaps, pipe, sent, dumped>>

Finished == point = "finalize" /\ point' = "idle"

\* dump_from_zipper; that it failed is not looked at.
FinalizeFile(dump) ==
  /\ Finished
  /\ target.kind = "ACT"
  /\ \/ /\ files' = With(files, target.name, dump)
        /\ dumped' = [dumped EXCEPT ![target.name] = @ \cup {dump}]
     \/ UNCHANGED <<files, dumped>>
  /\ UNCHANGED <<space, execs, source, target, factor, mmaps, pipe, reader, sent>>

FinalizeSolver(batch) ==
  /\ Finished
  /\ target.kind = "z3"
  /\ Commands(target.name, batch)
  /\ sent' = [sent EXCEPT ![target.name] = @ \o batch]
  /\ UNCHANGED <<space, execs, source, target, factor, files, mmaps, reader, dumped>>

FinalizeNothing ==
  /\ Finished
  /\ target.kind = "none"
  /\ UNCHANGED <<space, execs, source, target, factor, files, mmaps, pipe, reader, sent, dumped>>

RNext ==
  \/ \E s \in Sources, t \in Targets : Take(s, t)
  \/ OpenSpace \/ OpenFile \/ OpenMissing \/ Ask
  \/ Fill \/ ReadStatus \/ ReadModel
  \/ \E dump \in Dumps : FinalizeFile(dump)
  \/ \E batch \in Batches : FinalizeSolver(batch)
  \/ FinalizeNothing
  \/ \E i \in z3s : Reply(i)

RSpec == RInit /\ [][RNext]_rvars

-----------------------------------------------------------------------------
(* Properties *)

\* A solver has asserted or will read what was sent to it, and a mapped file
\* was written.
ResourcesTypeOK ==
  /\ point \in {"idle", "open", "line", "model", "finalize", "panic"}
  /\ \A i \in z3s : pipe[i].asserted \cup ToSet(pipe[i].stdin) \cup IllFormed
                      = ToSet(sent[i]) \cup IllFormed \cup (ToSet(pipe[i].stdin) \cap {"check-sat", "get-model"})
  /\ \A f \in DOMAIN mmaps : mmaps[f] \in dumped[f]

\* Compared: two expressions, the second with variables of its own.
Apart(x, y) == Encode(Named(x, 0) \o Named(y, 1))
IsCopy(x, y) == Canonical(Named(x, 0)) = Canonical(Named(y, 0))

\* What a source stands for.
Meant ==
  CASE source.kind = "," -> space
    [] source.kind = "BTM" -> {Functor(source) \o x : x \in space}
    [] source.kind = "==" -> {Functor(source) \o Apart(x, x) : x \in space}
    [] source.kind = "!=" -> {Functor(source) \o Apart(z[1], z[2]) : z \in {z \in space \X space : ~IsCopy(z[1], z[2])}}
    [] source.kind = "ACT" -> {Functor(source) \o x : x \in mmaps[source.name]}
    [] source.kind = "z3" ->
         LET said == ToSet(sent[source.name])
         IN IF \E x \in Contradictions : x \subseteq said THEN {}
            ELSE {Functor(source) \o <<Sym(a)>> : a \in said}

\* Not so: what was unequal keeps its references, now to variables of another
\* expression, and an error of Z3 is read for the status of a later query.
IsSound ==
  /\ source.kind = "z3" => ToSet(sent[source.name]) \cap IllFormed = {}
  /\ source.kind = "!=" => \A x \in space : \A i \in DOMAIN x : x[i].tag # "ref"

\* A factor holds what its source stands for at the time of the query.  From a
\* solver that was never sent an ill-formed statement it is a model of all that
\* was sent before, or nothing if there is none, although the lines that a
\* query leaves behind after unsat are read by the next one: unsat is for good.
FactorsAreCurrent == point = "finalize" /\ IsSound => factor = Meant

\* No query waits for a line that will not come: Z3 still has commands to
\* answer, or its answers are in the pipe.
NoReadInVain ==
  point \in {"line", "model"} /\ reader = <<>> =>
    pipe[source.name].stdin # <<>> \/ pipe[source.name].stdout # <<>>
=============================================================================
