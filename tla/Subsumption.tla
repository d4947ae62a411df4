---------------------------- MODULE Subsumption ----------------------------
(***************************************************************************)
(* How an exec shares write resources between its templates (kernel,       *)
(* prefix_subsumption_resources and the transform_multi_multi functions).  *)
(* Every template requests one resource: the subtrie of the space under a  *)
(* prefix (BTM), an archive file (ACT) or a Z3 process.  A request that    *)
(* another one covers uses that one's resource.  The zippers are then      *)
(* opened with write_zipper_at_exclusive_path_unchecked, which trusts the  *)
(* caller that no two of them overlap.                                     *)
(***************************************************************************)
EXTENDS Naturals, Sequences

CONSTANTS
  Requests,      \* WriteResourceRequest: [kind |-> ..., path |-> bytes]
  MaxTemplates   \* bound: templates of an exec (at most 62 in the code)

Kinds == {"BTM", "ACT", "Z3"}

ASSUME RequestsAssumption ==
  /\ Requests \subseteq [kind : Kinds, path : Seq(Nat)]
  /\ MaxTemplates \in Nat

VARIABLES
  requests,   \* template_prefixes
  i, j,       \* the two loop indices; i also runs over the opening loop
  best,       \* best_idx; best is requests[best]
  out,        \* subsumption, as computed
  resources,  \* template_resources: the request each one was opened for
  placements, \* index into resources for each root
  final,      \* subsumption after placements are applied
  pc

vars == <<requests, i, j, best, out, resources, placements, final, pc>>

\* find_prefix_overlap(p, q) = p.len()
PrefixOf(p, q) ==
  /\ Len(p) <= Len(q)
  /\ \A k \in 1 .. Len(p) : p[k] = q[k]

\* cand.pjoin(cur) == Some(cand)
Covers(cand, cur) ==
  /\ cand.kind = cur.kind
  /\ IF cand.kind = "BTM" THEN PrefixOf(cand.path, cur.path) ELSE cand.path = cur.path

\* The order of slices.
LexLess(p, q) ==
  \E k \in 1 .. Len(q) :
    /\ \A m \in 1 .. k - 1 : m <= Len(p) /\ p[m] = q[m]
    /\ k = Len(p) + 1 \/ (k <= Len(p) /\ p[k] < q[k])

\* partial_cmp: two ACTs or two Z3s are Equal or not comparable.
Less(a, b) == a.kind = "BTM" /\ b.kind = "BTM" /\ LexLess(a.path, b.path)

BetterNoTie(c, b) == Less(requests[c], requests[b])   \* faulty Better
\* The candidate c replaces the best index b.
Better(c, b) ==
  Less(requests[c], requests[b]) \/ (requests[c] = requests[b] /\ c < b)

\* The same test in prefix_subsumption, which looks at lengths only.
BetterByLength(c, b) ==
  LET lc == Len(requests[c].path)
      lb == Len(requests[b].path)
  IN lc < lb \/ (lc = lb /\ c < b)

N == Len(requests)

Init ==
  /\ requests \in UNION {[1 .. n -> Requests] : n \in 0 .. MaxTemplates}
  /\ i = 1 /\ j = 1 /\ best = 1
  /\ out = <<>>
  /\ resources = <<>>
  /\ placements = <<>>
  /\ final = <<>>
  /\ pc = "scan"

\* One turn of the inner loop.
Compare ==
  /\ pc = "scan" /\ i <= N /\ j <= N
  /\ best' = IF Covers(requests[j], requests[i]) /\ Better(j, best) THEN j ELSE best
  /\ j' = j + 1
  /\ UNCHANGED <<requests, i, out, resources, placements, final, pc>>

\* The inner loop ends: out.push(best_idx).
Emit ==
  /\ pc = "scan" /\ i <= N /\ j > N
  /\ out' = Append(out, best)
  /\ i' = i + 1
  /\ j' = 1
  /\ best' = i + 1
  /\ UNCHANGED <<requests, resources, placements, final, pc>>

Scanned ==
  /\ pc = "scan" /\ i > N
  /\ pc' = "open"
  /\ i' = 1
  /\ placements' = out
  /\ UNCHANGED <<requests, j, best, out, resources, final>>

\* Faulty Open: every request gets a resource of its own.
OpenAll ==
  /\ pc = "open" /\ i <= N
  /\ placements' = [placements EXCEPT ![i] = Len(resources) + 1]
  /\ resources' = Append(resources, requests[i])
  /\ i' = i + 1
  /\ UNCHANGED <<requests, j, best, out, final, pc>>

\* A request that is its own root gets a resource (write_handler).
Open ==
  /\ pc = "open" /\ i <= N
  /\ IF out[i] = i
     THEN /\ placements' = [placements EXCEPT ![i] = Len(resources) + 1]
          /\ resources' = Append(resources, requests[i])
     ELSE UNCHANGED <<placements, resources>>
  /\ i' = i + 1
  /\ UNCHANGED <<requests, j, best, out, final, pc>>

\* Faulty Place: the roots' indices are not translated.
PlaceRaw ==
  /\ pc = "open" /\ i > N
  /\ final' = out
  /\ pc' = "done"
  /\ UNCHANGED <<requests, i, j, best, out, resources, placements>>

\* subsumption[i] = placements[subsumption[i]]
Place ==
  /\ pc = "open" /\ i > N
  /\ final' = [k \in 1 .. N |-> placements[out[k]]]
  /\ pc' = "done"
  /\ UNCHANGED <<requests, i, j, best, out, resources, placements>>

Next == Compare \/ Emit \/ Scanned \/ Open \/ Place

Spec == Init /\ [][Next]_vars

-----------------------------------------------------------------------------
(* Properties *)

TypeOK ==
  /\ requests \in Seq(Requests)
  /\ {i, j, best} \subseteq 1 .. N + 1 /\ (pc = "scan" /\ i <= N => best \in 1 .. N)
  /\ out \in Seq(1 .. N)
  /\ resources \in Seq(Requests)
  /\ placements \in Seq(1 .. N)
  /\ final \in Seq(1 .. N)
  /\ pc \in {"scan", "open", "done"}

\* What write_zipper_at_exclusive_path_unchecked needs: no open resource
\* covers another, so no two write zippers can reach the same path and no
\* template is written through two processes or files.
ResourcesExclusive ==
  \A a, b \in 1 .. Len(resources) : a # b => ~Covers(resources[a], resources[b])

\* What sink and finalize need: the resource a template is given covers what
\* the template asked for, so path[root_prefix_path().len()..] is the rest of
\* the path and the match on the resource's kind is never unreachable!().
EveryTemplateServed ==
  pc = "done" =>
    \A k \in 1 .. N :
      /\ final[k] \in 1 .. Len(resources)
      /\ Covers(resources[final[k]], requests[k])

\* The two functions choose alike: among the prefixes of one path, the order
\* of slices is the order of their lengths.
VariantsAgree ==
  \A k, c, b \in 1 .. N :
    Covers(requests[c], requests[k]) /\ Covers(requests[b], requests[k]) =>
      (Better(c, b) <=> BetterByLength(c, b))
=============================================================================
