------------------------------ MODULE SsaForm ------------------------------
(* What Slither makes of the graph CfgBuilder built: the dominators, their  *)
(* tree and frontiers (core/dominators/utils.py), then the SSA form         *)
(* (slithir/utils/ssa.py: add_phi_origins, generate_ssa_irs) as far as it   *)
(* depends on the graph.  It is told for one parameter x of the function,   *)
(* which every statement reads and one of them writes, if there is any.     *)
(* A version of x is the node that defines it: 1 for the value passed in,   *)
(* the writing node, -n for a phi function at n.                            *)
EXTENDS CfgBuilder

VARIABLES stage,     \* "graph", "dominators", "tree", "frontier", "phis", "rename",
                     \* "ssa", "assert" (an assertion failed)
          reach,     \* nodes with is_reachable
          dom,       \* dominators
          idom,      \* immediate_dominator, 0 for None
          front,     \* dominance_frontier
          write,     \* the node that writes x, 0 for none
          phis,      \* nodes with a phi function for x
          calls,     \* calls of generate_ssa_irs under way
          uses       \* visited, each node with the version of x it was given

ssaVars  == <<stage, reach, dom, idom, front, write, phis, calls, uses>>
formVars == <<type, sons, fathers, cur, open, phase, fixed, gone, home, loops,
              stage, reach, dom, idom, front, write, phis, calls, uses>>

Nodes == Ids \ gone

\* The nodes control can come to from S without passing n.
Around(n, S) ==
  LET Grow[T \in SUBSET Ids] == LET U == T \cup ((UNION {Range(sons[k]) : k \in T}) \ {n})
                                IN  IF U = T THEN T ELSE Grow[U]
  IN  Grow[S]

Closure(S) == Around(0, S)

SsaInit == /\ Init
           /\ stage = "graph" /\ reach = {} /\ dom = <<>> /\ idom = <<>> /\ front = <<>>
           /\ write = 0 /\ phis = {} /\ calls = <<>> /\ uses = <<>>

\* _update_reachability, then compute_dominators begins with all nodes.
BeginDominators ==
  /\ stage = "graph" /\ phase = "done"
  /\ stage' = "dominators"
  /\ reach' = Closure({1})
  /\ dom' = [n \in Ids |-> Nodes]
  /\ UNCHANGED <<vars, idom, front, write, phis, calls, uses>>

LiveFathers(n) == Range(fathers[n]) \cap reach

\* Mutant: fathers that cannot be reached count as well.
Meet_AllFathers(d, n) ==
  IF LiveFathers(n) = {} THEN {}
  ELSE {m \in Nodes : \A f \in Range(fathers[n]) : m \in d[f]}

\* intersection_predecessor, for the dominators d as they are.
Meet(d, n) == IF LiveFathers(n) = {} THEN {}
              ELSE {m \in UNION {d[f] : f \in Range(fathers[n])} : \A f \in LiveFathers(n) : m \in d[f]}

SweepNode(d, n) == IF n \in gone THEN d ELSE [d EXCEPT ![n] = Meet(d, n) \cup {n}]

\* One pass over the nodes, until one changes nothing.
Sweep == /\ stage = "dominators"
         /\ LET Swept[k \in 0..Size] == IF k = 0 THEN dom ELSE SweepNode(Swept[k - 1], k)
            IN  dom' = Swept[Size]
         /\ stage' = IF dom' = dom THEN "tree" ELSE stage
         /\ UNCHANGED <<vars, reach, idom, front, write, phis, calls, uses>>

\* Candidates for the immediate dominator: of more than one, those that do not
\* dominate another.
Candidates(n) == LET strict == dom[n] \ {n}
                     above  == UNION {dom[d] \ {d} : d \in strict}
                 IN  IF Cardinality(strict) = 1 THEN strict
                     ELSE (above \ strict) \cup (strict \ above)

BuildTree ==
  /\ stage = "tree"
  /\ IF \E n \in Nodes : Cardinality(Candidates(n)) > 1
     THEN stage' = "assert" /\ UNCHANGED idom
     ELSE /\ stage' = "frontier"
          /\ idom' = [n \in Ids |-> IF n \in gone \/ Candidates(n) = {} THEN 0
                                    ELSE CHOOSE d \in Candidates(n) : TRUE]
  /\ UNCHANGED <<vars, reach, dom, front, write, phis, calls, uses>>

Children(n) == {m \in Nodes : idom[m] = n}

\* The runner climbs the tree from r until it meets stop; 0: it fell off.
Climb(r, stop) ==
  LET Up[k \in {0} \cup Ids] == IF k = stop THEN {} ELSE {k} \cup (IF k = 0 THEN {} ELSE Up[idom[k]])
  IN  Up[r]

\* The nodes that get m into their frontier; also an if without else.
Runners(m) == (UNION {Climb(f, idom[m]) : f \in LiveFathers(m)})
                \cup {f \in LiveFathers(m) : f = idom[m] /\ type[f] = "IF" /\ type[m] = "ENDIF"}

BuildFrontier ==
  /\ stage = "frontier"
  /\ LET joins == {m \in Nodes : Len(fathers[m]) >= 2}
     IN  IF \E m \in joins : 0 \in Runners(m)
         THEN stage' = "assert" /\ UNCHANGED front
         ELSE /\ stage' = "phis"
              /\ front' = [n \in Ids |-> {m \in joins : n \in Runners(m)}]
  /\ UNCHANGED <<vars, reach, dom, idom, write, phis, calls, uses>>

----------------------------------------------------------------------------
\* is_used_later, since every statement reads x.
UsedLater(m) == \E n \in Closure({m}) : type[n] \in {"EXPRESSION", "IF", "IFLOOP", "RETURN"}

\* add_phi_origins: the definitions of x that nodes with m in their frontier
\* know, when x is written at w; nodes with one child in the tree are left out.
PhiOrigins(m, w) == {IF w \in dom[n] THEN w ELSE 1 :
                       n \in {k \in reach : m \in front[k] /\ Cardinality(Children(k)) # 1}}

Writers == {n \in reach : type[n] = "EXPRESSION"}

SsaFrame(n, version) == [node |-> n, version |-> version, children |-> Children(n), frontier |-> front[n]]

\* add_ssa_ir: phi functions first, then the entry is renamed.
PlacePhis ==
  /\ stage = "phis"
  /\ \E w \in IF Writers = {} THEN {0} ELSE Writers :
       /\ write' = w
       /\ phis' = {m \in Nodes : Cardinality(PhiOrigins(m, w)) >= 2 /\ UsedLater(m)}
  /\ calls' = <<SsaFrame(1, 1)>> /\ uses' = (1 :> 1)
  /\ stage' = "rename"
  /\ UNCHANGED <<vars, reach, dom, idom, front>>

SsaCaller == Last(calls)

\* The version n is given where v is the last one, and the one it leaves.
Given(n, v) == IF n \in phis THEN -n ELSE v
Left(n, v)  == IF n = write THEN n ELSE Given(n, v)

\* An ENDIF or ENDLOOP waits until all its fathers have been visited.
Refused(n) == \/ n \in DOMAIN uses
              \/ type[n] \in {"ENDIF", "ENDLOOP"} /\ ~Range(fathers[n]) \subseteq DOMAIN uses

\* Mutant: the dictionary of versions is passed on, not a copy of it.
Visit_Shared(n, top) ==
  LET last == Left(n, SsaCaller.version)
      rest == Append(Front(calls), [top EXCEPT !.version = last])
  IN  IF Refused(n) THEN calls' = Append(Front(calls), top) /\ UNCHANGED uses
      ELSE /\ uses' = uses @@ (n :> Given(n, SsaCaller.version))
           /\ calls' = Append(rest, SsaFrame(n, last))

\* The call of generate_ssa_irs for n; top: the caller's frame from then on.
Visit(n, top) ==
  LET rest == Append(Front(calls), top)
  IN  IF Refused(n) THEN calls' = rest /\ UNCHANGED uses
      ELSE /\ uses' = uses @@ (n :> Given(n, SsaCaller.version))
           /\ calls' = Append(rest, SsaFrame(n, Left(n, SsaCaller.version)))

\* dominator_successors is a set: any order.
RenameChild == /\ stage = "rename" /\ calls # <<>>
               /\ \E n \in SsaCaller.children :
                    Visit(n, [SsaCaller EXCEPT !.children = @ \ {n}])
               /\ UNCHANGED <<vars, stage, reach, dom, idom, front, write, phis>>

\* So is dominance_frontier; it comes after the children.
RenameFrontier == /\ stage = "rename" /\ calls # <<>> /\ SsaCaller.children = {}
                  /\ \E n \in SsaCaller.frontier :
                       Visit(n, [SsaCaller EXCEPT !.frontier = @ \ {n}])
                  /\ UNCHANGED <<vars, stage, reach, dom, idom, front, write, phis>>

RenameReturn == /\ stage = "rename" /\ calls # <<>>
                /\ SsaCaller.children = {} /\ SsaCaller.frontier = {}
                /\ calls' = Front(calls)
                /\ UNCHANGED <<vars, stage, reach, dom, idom, front, write, phis, uses>>

RenameDone == /\ stage = "rename" /\ calls = <<>>
              /\ stage' = "ssa"
              /\ UNCHANGED <<vars, reach, dom, idom, front, write, phis, calls, uses>>

SsaNext == \/ Next /\ UNCHANGED ssaVars
           \/ BeginDominators \/ Sweep \/ BuildTree \/ BuildFrontier
           \/ PlacePhis \/ RenameChild \/ RenameFrontier \/ RenameReturn \/ RenameDone

SsaSpec == SsaInit /\ [][SsaNext]_formVars

----------------------------------------------------------------------------
Dominates(n, m) == n = m \/ (m \in reach /\ m \notin Around(n, {1} \ {n}))

IfWithoutElse(n, m) == /\ type[n] = "IF" /\ type[m] = "ENDIF" /\ idom[m] = n
                       /\ n \in Range(fathers[m]) /\ Len(fathers[m]) >= 2

\* What the sweeps and climbs compute is what the words mean: n dominates m if
\* every path to m passes n; the immediate dominator is the last of the strict
\* ones; m is in the frontier of n if n dominates a father of m and not strictly
\* m itself, or is an if that one of the branches leaves empty.
DominanceExact ==
  /\ stage # "assert"
  /\ stage = "phis" =>
       \A n, m \in reach :
         /\ (n \in dom[m]) = Dominates(n, m)
         /\ idom[m] = n => n # m /\ \A d \in dom[m] \ {m} : d \in dom[n]
         /\ idom[m] = 0 => m = 1
         /\ (m \in front[n]) = \/ /\ \E f \in LiveFathers(m) : Dominates(n, f)
                                  /\ ~(n # m /\ Dominates(n, m))
                               \/ IfWithoutElse(n, m)

\* The nodes whose version of x, when they are entered, is still that at S.
Upward[S \in SUBSET Ids] ==
  LET T == S \cup {f \in reach \ {write} : \E k \in S \ phis : f \in Range(fathers[k])}
  IN  IF T = S THEN S ELSE Upward[T]

\* The versions of x that can reach node n.
Reaching(n) == LET up == Upward[{n}]
               IN  {-k : k \in up \cap phis} \cup ({1} \cap up)
                     \cup {w \in {write} : \E k \in up \ phis : w \in Range(fathers[k])}

\* An end of an if or a loop that code which cannot be reached leads to.
DeadEnd(n) == type[n] \in {"ENDIF", "ENDLOOP"} /\ ~Range(fathers[n]) \subseteq reach

\* Every statement that can be reached is put into SSA form, unless the end of an
\* if or a loop waits for dead code.
AllRenamed == (\A n \in reach : ~DeadEnd(n)) => reach \subseteq DOMAIN uses

\* Where one version of x can reach a statement, that is the one it is given.
OneVersionKept ==
  \A n \in DOMAIN uses : Cardinality(Reaching(n)) = 1 => uses[n] \in Reaching(n)

\* Where branches of an if meet, one of which writes x, there is a phi function.
PhiAtEndif == write # 0 =>
  \A m \in front[write] : type[m] = "ENDIF" /\ UsedLater(m) => m \in phis

\* Whatever the order in which the sets yield their members.
SsaRight == stage = "rename" /\ calls = <<>> => AllRenamed /\ OneVersionKept /\ PhiAtEndif

=============================================================================
