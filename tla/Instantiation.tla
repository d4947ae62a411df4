--------------------------- MODULE Instantiation ---------------------------
(***************************************************************************)
(* What an exec does with one match: apply_e (expr/src/lib_nightly.rs)     *)
(* walks through the pattern to see whether the bindings are cyclic, and   *)
(* through each template to write its instance                             *)
(* (kernel/src/space.rs, transform_multi_multi and variants).  0 is the    *)
(* exec, whose pattern and templates share their variables.  The others    *)
(* are of the space.  A variable is <<n, level>>, and a binding is         *)
(* <<n, i>>: the subexpression of expression n that starts at item i.      *)
(***************************************************************************)
EXTENDS NamedExprs

CONSTANT Matches  \* [exprs |-> 0 .. -> expressions, bindings, parts]

\* parts are where the pattern and the templates start in expression 0.

VARIABLES
  match,
  carry,        \* whether the counter oi goes on from template to template
  part,         \* the part that is worked on; 1 is the pattern
  frames,       \* the recursion: [n, i, last, level]
  stack,        \* the variables whose bindings are being written
  cycled,       \* variables met within their own binding, with a level
  assignments,  \* free variables, in the order of their levels in the output
  new_intros,
  oi, ni,       \* original_intros and new_intros after the pattern
  out,          \* what was written of this part
  outputs,      \* per template, what was handed to its sink, or nothing
  status        \* "apply", "done", or "cyclic" when the match was dropped

vars == <<match, carry, part, frames, stack, cycled, assignments, new_intros, oi, ni, out, outputs, status>>

Exec == match.exprs[0]

FrameAt(n, i, level) == [n |-> n, i |-> i, last |-> EndAt(match.exprs[n], i), level |-> level]

Top     == frames[Len(frames)]
Item    == match.exprs[Top.n][Top.i]
Current == <<Top.n, IF IsNew(Item) THEN Top.level ELSE Item.val>>
Busy    == status = "apply" /\ frames # <<>> /\ Top.i <= Top.last
AtVar   == Busy /\ IsVar(Item)
IsBound == Current \in DOMAIN match.bindings

\* The next item; original_intros counts the variables that were introduced.
Advanced ==
  [frames EXCEPT ![Len(frames)] =
     [@ EXCEPT !.i = @ + 1, !.level = IF IsNew(Item) THEN @ + 1 ELSE @]]

PosOf(v) == CHOOSE k \in DOMAIN assignments : assignments[k] = v

-----------------------------------------------------------------------------

Init ==
  /\ match \in Matches
  /\ carry \in BOOLEAN
  /\ part = 1
  /\ frames = <<FrameAt(0, match.parts[1], 0)>>
  /\ stack = <<>>
  /\ cycled = <<>>
  /\ assignments = <<>>
  /\ new_intros = 0
  /\ oi = 0
  /\ ni = 0
  /\ out = <<>>
  /\ outputs = <<>>
  /\ status = "apply"

Unchanging == UNCHANGED <<match, carry, part, oi, ni, outputs, status>>

\* Symbols and arities are copied.
Copy ==
  /\ Busy
  /\ ~IsVar(Item)
  /\ out' = Append(out, Item)
  /\ frames' = Advanced
  /\ UNCHANGED <<stack, cycled, assignments, new_intros>> /\ Unchanging

\* A free variable that was written before.
Refer ==
  /\ AtVar
  /\ ~IsBound
  /\ Current \in Range(assignments)
  /\ out' = Append(out, Ref(PosOf(Current) - 1))
  /\ frames' = Advanced
  /\ UNCHANGED <<stack, cycled, assignments, new_intros>> /\ Unchanging

\* A free variable that is new to the output.
Introduce ==
  /\ AtVar
  /\ ~IsBound
  /\ Current \notin Range(assignments)
  /\ out' = Append(out, New)
  /\ frames' = Advanced
  /\ new_intros' = new_intros + 1
  /\ assignments' = Append(assignments, Current)
  /\ UNCHANGED <<stack, cycled>> /\ Unchanging

\* A variable within its own binding is a variable of the output.
CycleAgain ==
  /\ AtVar
  /\ IsBound
  /\ Current \in DOMAIN cycled
  /\ out' = Append(out, Ref(cycled[Current]))
  /\ frames' = Advanced
  /\ UNCHANGED <<stack, cycled, assignments, new_intros>> /\ Unchanging

Cycle ==
  /\ AtVar
  /\ IsBound
  /\ Current \notin DOMAIN cycled
  /\ Current \in Range(stack)
  /\ cycled' = [v \in DOMAIN cycled \cup {Current} |->
                  IF v = Current THEN new_intros ELSE cycled[v]]
  /\ out' = Append(out, New)
  /\ frames' = Advanced
  /\ new_intros' = new_intros + 1
  /\ UNCHANGED <<stack, assignments>> /\ Unchanging

\* The recursive call of apply_e: rhs.v is the level at which the binding starts.
Enter ==
  /\ AtVar
  /\ IsBound
  /\ Current \notin DOMAIN cycled
  /\ Current \notin Range(stack)
  /\ LET b == match.bindings[Current]
     IN frames' = Append(Advanced, FrameAt(b[1], b[2], NewBefore(match.exprs[b[1]], b[2])))
  /\ stack' = Append(stack, Current)
  /\ UNCHANGED <<cycled, assignments, new_intros, out>> /\ Unchanging

\* The return from it.
Leave ==
  /\ status = "apply"
  /\ Len(frames) > 1
  /\ Top.i > Top.last
  /\ frames' = Front(frames)
  /\ stack' = Front(stack)
  /\ UNCHANGED <<cycled, assignments, new_intros, out>> /\ Unchanging

Finished == status = "apply" /\ Len(frames) = 1 /\ Top.i > Top.last

\* The macro clears the stacks for the next template, whose counters are oi, ni.
StartPart(k, level, intros) ==
  /\ part' = k
  /\ IF k <= Len(match.parts)
     THEN status' = "apply" /\ frames' = <<FrameAt(0, match.parts[k], level)>>
     ELSE status' = "done" /\ frames' = <<>>
  /\ stack' = <<>>
  /\ cycled' = <<>>
  /\ assignments' = <<>>
  /\ new_intros' = intros
  /\ out' = <<>>
  /\ UNCHANGED <<match, carry>>

EndPattern ==
  /\ Finished
  /\ part = 1
  /\ cycled = <<>>
  /\ oi' = Top.level
  /\ ni' = new_intros
  /\ StartPart(2, Top.level, new_intros)
  /\ UNCHANGED outputs

\* Faulty DropMatch: the match is tried again.
DropMatchRetries ==
  /\ Finished
  /\ part = 1
  /\ cycled # <<>>
  /\ StartPart(1, 0, 0)
  /\ UNCHANGED <<oi, ni, outputs>>

\* break 'query true
DropMatch ==
  /\ Finished
  /\ part = 1
  /\ cycled # <<>>
  /\ status' = "cyclic"
  /\ UNCHANGED <<match, carry, part, frames, stack, cycled, assignments, new_intros, oi, ni, out, outputs>>

\* Faulty EndTemplate: the counter goes back to where the pattern ended.
EndTemplateForgets ==
  /\ Finished
  /\ part > 1
  /\ outputs' = Append(outputs, out)
  /\ StartPart(part + 1, oi, ni)
  /\ UNCHANGED <<oi, ni>>

\* sinks[i].sink(.., &buffer), unless the instance is cyclic; oi = toi, except in transform_multi_multi_io
\* (the variant for I and O).
EndTemplate ==
  /\ Finished
  /\ part > 1
  /\ outputs' = Append(outputs, IF cycled = <<>> THEN out ELSE No)
  /\ oi' = IF carry /\ cycled = <<>> THEN Top.level ELSE oi
  /\ StartPart(part + 1, oi', ni)
  /\ UNCHANGED ni

Step == \/ Copy \/ Refer \/ Introduce \/ CycleAgain \/ Cycle \/ Enter \/ Leave
        \/ EndPattern \/ DropMatch \/ EndTemplate
Next == Step

Spec     == Init /\ [][Next]_vars
FairSpec == Spec /\ WF_vars(Next)

-----------------------------------------------------------------------------
(* Properties *)

\* The frames nest: each but the first is the binding of a variable on the stack.
TypeOK ==
  /\ status \in {"apply", "done", "cyclic"}
  /\ Len(stack) = IF frames = <<>> THEN 0 ELSE Len(frames) - 1
  /\ \A k \in DOMAIN frames : frames[k].i \in 1 .. frames[k].last + 1
  /\ Len(outputs) < Len(match.parts)

VarAt(n, i) == <<n, LevelAt(match.exprs[n], i)>>

\* The variables within a binding, and those that are reached through bindings.
Within(b) == {VarAt(b[1], i) : i \in {j \in b[2] .. EndAt(match.exprs[b[1]], b[2]) : IsVar(match.exprs[b[1]][j])}}
RECURSIVE Reached(_)
Reached(vs) ==
  LET next == vs \cup UNION {Within(match.bindings[v]) : v \in vs \cap DOMAIN match.bindings}
  IN IF next = vs THEN vs ELSE Reached(next)

InPattern == Within(<<0, match.parts[1]>>)
IsCyclic(v) == v \in DOMAIN match.bindings /\ v \in Reached(Within(match.bindings[v]))

\* What the subexpression of n at i stands for: bound variables replaced.
RECURSIVE Meant(_, _)
Meant(n, i) ==
  FlattenSeq([k \in 1 .. EndAt(match.exprs[n], i) - i + 1 |->
    LET j == i + k - 1
        v == VarAt(n, j)
    IN IF ~IsVar(match.exprs[n][j]) THEN <<match.exprs[n][j]>>
       ELSE IF v \in DOMAIN match.bindings
       THEN Meant(match.bindings[v][1], match.bindings[v][2])
       ELSE <<Var(v)>>])

\* Template k uses a variable that an earlier template introduced, and has one
\* of its own.
UsesEarlier(k) ==
  LET first == match.parts[k]
      last  == EndAt(Exec, first)
  IN /\ \E i \in first .. last : IsNew(Exec[i])
     /\ \E i \in first .. last : Exec[i].tag = "ref" /\ Exec[i].val >= NewBefore(Exec, match.parts[2])
                                   /\ Exec[i].val < NewBefore(Exec, first)

\* Each sink gets the instance of its template: bound variables replaced, and
\* the free ones kept apart and numbered anew.  Without the carried counter
\* that is so unless a template uses both an earlier template's variable and
\* one of its own.
TemplatesAreInstantiated ==
  \A k \in DOMAIN outputs :
    carry \/ ~UsesEarlier(k + 1) => outputs[k] = Encode(Meant(0, match.parts[k + 1]))

\* A match is dropped exactly if a variable of the pattern leads to one that
\* occurs in its own value; then no template was instantiated.
DropsCyclicMatches ==
  status \in {"done", "cyclic"} =>
    (status = "cyclic" <=> \E v \in Reached(InPattern) : IsCyclic(v))

\* Instantiation ends, also for cyclic bindings.
Ends == <>(status \in {"done", "cyclic"})
=============================================================================
