----------------------------- MODULE CfgBuilder -----------------------------
(* How Slither builds the control-flow graph of a Solidity function:        *)
(* FunctionSolc._parse_cfg.  The statements of the body come one after the  *)
(* other, every program that fits in MaxNodes nodes; an Open action is what *)
(* a _parse_* method does before it descends into the body, Close what it   *)
(* does after.  Then break, continue and return are given their edges.      *)
(* try/catch, assembly, modifiers and the ternary rewriting are left out.   *)
EXTENDS SequencesExt

CONSTANTS Kinds,       \* loops in use: "while", "do", "for", "forever" (for without condition)
          DeadCode,    \* whether statements may follow a jump in their block
          MaxNodes     \* bound: nodes of a function

ASSUME CfgBuilderAssumption == /\ Kinds \subseteq {"while", "do", "for", "forever"}
                               /\ DeadCode \in BOOLEAN /\ MaxNodes \in Nat \ {0}

VARIABLES type,      \* Node._node_type by node_id
          sons,      \* Node._sons by node_id
          fathers,   \* Node._fathers by node_id
          cur,       \* the node the next statement is linked from
          open,      \* the _parse_* calls under way, outermost first
          phase,     \* "parse", "edges", "prune", "done", "raised" (ParsingError)
          fixed,     \* nodes _remove_incorrect_edges has passed
          gone,      \* ENDIF nodes removed
          home,      \* history: start of the loop a node was written in, 0 for none
          loops      \* history: the loops parsed

vars == <<type, sons, fathers, cur, open, phase, fixed, gone, home, loops>>

Types == {"ENTRYPOINT", "EXPRESSION", "RETURN", "BREAK", "CONTINUE",
          "IF", "ENDIF", "STARTLOOP", "IFLOOP", "ENDLOOP"}

Ids  == DOMAIN type
Size == Len(type)

TypeOK == /\ type \in Seq(Types) /\ Size <= MaxNodes
          /\ DOMAIN sons = Ids /\ DOMAIN fathers = Ids /\ DOMAIN home = Ids
          /\ \A n \in Ids : Range(sons[n]) \cup Range(fathers[n]) \subseteq Ids
          /\ cur \in Ids /\ fixed \in 0..Size /\ gone \subseteq Ids
          /\ phase \in {"parse", "edges", "prune", "done", "raised"}

----------------------------------------------------------------------------
(* Graphs: the record g carries type, sons, fathers and home through a      *)
(* sequence of calls.                                                       *)

Graph == [type |-> type, sons |-> sons, fathers |-> fathers, home |-> home]

Becomes(g) == /\ type' = g.type /\ sons' = g.sons
              /\ fathers' = g.fathers /\ home' = g.home

\* How often x is in the sequence s.
Times(s, x) == Cardinality({i \in DOMAIN s : s[i] = x})

\* The innermost loop being parsed, by its STARTLOOP.
InnerLoop == LET at == {i \in DOMAIN open : open[i].kind # "if"}
             IN  IF at = {} THEN 0 ELSE open[Max(at)].start

\* _new_node
New(g, t) == [type    |-> Append(g.type, t),
              sons    |-> Append(g.sons, <<>>),
              fathers |-> Append(g.fathers, <<>>),
              home    |-> Append(g.home, InnerLoop)]

\* link_nodes
Link(g, n, m) == [g EXCEPT !.sons[n] = Append(@, m), !.fathers[m] = Append(@, n)]

\* A new node of type t, linked from n.
NewAfter(g, t, n) == Link(New(g, t), n, Len(g.type) + 1)

\* The members of s in S, in their order: SelectSeq, told in a way the proof
\* system can read.
Only(s, S) == LET Kept[i \in 0..Len(s)] == IF i = 0 THEN <<>>
                                           ELSE IF s[i] \in S THEN Append(Kept[i - 1], s[i]) ELSE Kept[i - 1]
              IN  Kept[Len(s)]

Without(s, n) == Only(s, Range(s) \ {n})

\* Mutant: the old sons keep the node as a father.
SetSons_KeepsFathers(g, n, s) == [g EXCEPT !.sons[n] = s]

\* for son in n.sons: son.remove_father(n); n.set_sons(s), when s only keeps sons.
SetSons(g, n, s) ==
  [g EXCEPT !.sons[n] = s,
            !.fathers = [m \in DOMAIN @ |-> IF m \in Range(g.sons[n]) \ Range(s)
                                            THEN Without(@[m], n) ELSE @[m]]]

\* A statement of k nodes may follow.
Room(k) == /\ phase = "parse" /\ Size + k <= MaxNodes
           /\ DeadCode \/ type[cur] \notin {"RETURN", "BREAK", "CONTINUE"}

Init == /\ type = <<"ENTRYPOINT">> /\ sons = <<<<>>>> /\ fathers = <<<<>>>> /\ home = <<0>>
        /\ cur = 1 /\ open = <<>> /\ phase = "parse"
        /\ fixed = 0 /\ gone = {} /\ loops = {}

----------------------------------------------------------------------------
(* _parse_statement.                                                        *)

\* Expression, Return, Break, Continue: one node, and the text goes on from it.
Simple(t) == /\ Room(1)
             /\ t \in {"BREAK", "CONTINUE"} => InnerLoop # 0
             /\ Becomes(NewAfter(Graph, t, cur))
             /\ cur' = Size + 1
             /\ UNCHANGED <<open, phase, fixed, gone, loops>>

\* A frame holds what the _parse_* call keeps in its local variables.
Frame(k, s, c, e, p) == [kind |-> k, from |-> cur, start |-> s, cond |-> c, end |-> e,
                         post |-> p, true |-> 0]

Top == Last(open)

OpenIf == /\ Room(2)
          /\ Becomes(NewAfter(Graph, "IF", cur))
          /\ open' = Append(open, Frame("if", 0, Size + 1, 0, FALSE))
          /\ cur' = Size + 1
          /\ UNCHANGED <<phase, fixed, gone, loops>>

\* The true statement is parsed, the false one begins.
Else == /\ phase = "parse" /\ open # <<>> /\ Top.kind = "if" /\ Top.true = 0
        /\ open' = [open EXCEPT ![Len(open)].true = cur]
        /\ cur' = Top.cond
        /\ UNCHANGED <<type, sons, fathers, home, phase, fixed, gone, loops>>

CloseIf == /\ phase = "parse" /\ open # <<>> /\ Top.kind = "if" /\ Size < MaxNodes
           /\ LET end == Size + 1
                  g   == New(Graph, "ENDIF")
              IN  /\ Becomes(IF Top.true = 0
                             THEN Link(Link(g, cur, end), Top.cond, end)
                             ELSE Link(Link(g, Top.true, end), cur, end))
                  /\ cur' = end
           /\ open' = Front(open)
           /\ UNCHANGED <<phase, fixed, gone, loops>>

\* while, do: the start and the condition exist before the body, their edges do not.
OpenLoop(k) == /\ k \in Kinds \cap {"while", "do"} /\ Room(3)
               /\ Becomes(New(New(Graph, "STARTLOOP"), "IFLOOP"))
               /\ open' = Append(open, Frame(k, Size + 1, Size + 2, 0, FALSE))
               /\ cur' = Size + 2
               /\ UNCHANGED <<phase, fixed, gone, loops>>

Parsed(l, end, post) == [kind |-> l.kind, start |-> l.start, cond |-> l.cond, end |-> end, post |-> post]

\* The start of a do loop leads to the first statement of the body.
CloseLoop ==
  /\ phase = "parse" /\ open # <<>> /\ Top.kind \in {"while", "do"} /\ Size < MaxNodes
  /\ LET end  == Size + 1
         g    == Link(New(Graph, "ENDLOOP"), Top.from, Top.start)
         into == IF Top.kind = "do" /\ sons[Top.cond] # <<>> THEN sons[Top.cond][1] ELSE Top.cond
     IN  /\ Becomes(Link(Link(Link(g, Top.start, into), cur, Top.cond), Top.cond, end))
         /\ loops' = loops \cup {Parsed(Top, end, 0)}
         /\ cur' = end
  /\ open' = Front(open)
  /\ UNCHANGED <<phase, fixed, gone>>

\* for (pre; cond; post), each part optional; without a condition the start
\* takes its place.
OpenFor(pre, cond, post) ==
  /\ (IF cond THEN "for" ELSE "forever") \in Kinds
  /\ Room(2 + Cardinality({x \in {1, 2, 3} : <<pre, cond, post>>[x]}))
  /\ LET start == Size + 1
         g2    == New(New(Graph, "STARTLOOP"), "ENDLOOP")
         g3    == IF pre THEN Link(NewAfter(g2, "EXPRESSION", cur), Size + 3, start)
                         ELSE Link(g2, cur, start)
         c     == Len(g3.type) + 1
     IN  /\ Becomes(IF cond THEN NewAfter(g3, "IFLOOP", start) ELSE g3)
         /\ open' = Append(open, Frame("for", start, IF cond THEN c ELSE 0, start + 1, post))
         /\ cur' = IF cond THEN c ELSE start
  /\ UNCHANGED <<phase, fixed, gone, loops>>

\* Mutant: a loop without a condition is forgotten.
CloseFor_NeedsCondition ==
  /\ phase = "parse" /\ open # <<>> /\ Top.kind = "for" /\ ~Top.post
  /\ sons' = [sons EXCEPT ![cur] = Append(@, Top.cond)]
  /\ cur' = Top.end /\ open' = Front(open)
  /\ UNCHANGED <<type, fathers, home, loops, phase, fixed, gone>>

CloseFor ==
  /\ phase = "parse" /\ open # <<>> /\ Top.kind = "for" /\ (Top.post => Size < MaxNodes)
  /\ LET before == IF Top.cond # 0 THEN Top.cond ELSE Top.start
         p      == IF Top.post THEN Size + 1 ELSE 0
         g      == IF Top.post THEN Link(NewAfter(Graph, "EXPRESSION", cur), p, before)
                               ELSE Link(Graph, cur, before)
     IN  /\ Becomes(Link(g, before, Top.end))
         /\ loops' = loops \cup {Parsed(Top, Top.end, p)}
  /\ cur' = Top.end /\ open' = Front(open)
  /\ UNCHANGED <<phase, fixed, gone>>

EndBody == /\ phase = "parse" /\ open = <<>>
           /\ phase' = "edges"
           /\ UNCHANGED <<type, sons, fathers, cur, open, fixed, gone, home, loops>>

----------------------------------------------------------------------------
(* _remove_incorrect_edges, node by node.                                   *)

\* The first of the answers of a search that is not None, 0 for None.
FirstFound(found) == LET hits == {i \in DOMAIN found : found[i] # 0}
                     IN  IF hits = {} THEN 0 ELSE found[Min(hits)]

\* The calls of a search: level counts the loops it has gone into.
Searches == [node : Ids, visited : SUBSET Ids, level : Int]
Search(n, level) == [node |-> n, visited |-> {}, level |-> level]

\* The calls a call makes, for each of next.
Deeper(s, next, level) ==
  [i \in DOMAIN next |-> [node |-> next[i], visited |-> s.visited \cup {s.node}, level |-> level]]

\* _find_end_loop: depth first along the sons; a start met on the way is
\* taken for a nested loop.
FindEndLoop[s \in Searches] ==
  IF s.node \in s.visited THEN 0
  ELSE IF type[s.node] = "ENDLOOP" /\ s.level = 0 THEN s.node
  ELSE LET level == CASE type[s.node] = "ENDLOOP"   -> s.level - 1
                      [] type[s.node] = "STARTLOOP" -> s.level + 1
                      [] OTHER                      -> s.level
           calls == Deeper(s, sons[s.node], level)
       IN  FirstFound([i \in DOMAIN calls |-> FindEndLoop[calls[i]]])

\* _find_if_loop: depth first along the fathers; the first EXPRESSION before the
\* condition is taken for the increment of a for loop.
FindIfLoop[s \in Searches] ==
  IF s.node \in s.visited THEN 0
  ELSE IF type[s.node] = "IFLOOP" /\ s.level = 0
  THEN LET steps == {i \in DOMAIN fathers[s.node] : type[fathers[s.node][i]] = "EXPRESSION"}
       IN  IF steps = {} THEN s.node ELSE fathers[s.node][Min(steps)]
  ELSE IF type[s.node] = "STARTLOOP" /\ s.level = 0 THEN s.node
  ELSE LET level == CASE type[s.node] = "STARTLOOP" -> s.level - 1
                      [] type[s.node] = "ENDLOOP"   -> s.level + 1
                      [] OTHER                      -> s.level
           calls == Deeper(s, fathers[s.node], level)
       IN  FirstFound([i \in DOMAIN calls |-> FindIfLoop[calls[i]]])

\* Mutant: only the first search.
BreakTarget_Once(n) == FindEndLoop[Search(n, 0)]

\* _fix_break_node: a second search for a loop without a condition.
BreakTarget(n) == FirstFound(<<FindEndLoop[Search(n, 0)], FindEndLoop[Search(n, -1)]>>)

\* Mutant: one loop header too many is skipped.
ContinueTarget_Outer(n) == FindIfLoop[Search(n, 1)]

\* _fix_continue_node
ContinueTarget(n) == FindIfLoop[Search(n, 0)]

Redirect(n, target) == LET g == SetSons(Graph, n, <<>>)
                       IN  IF target = 0 THEN phase' = "raised" /\ UNCHANGED <<sons, fathers>>
                           ELSE /\ UNCHANGED phase
                                /\ sons' = Link(g, n, target).sons
                                /\ fathers' = Link(g, n, target).fathers

FixNode == /\ phase = "edges" /\ fixed < Size
           /\ LET n == fixed + 1
              IN  CASE type[n] = "RETURN"   -> /\ Becomes(SetSons(Graph, n, <<>>))
                                               /\ UNCHANGED phase
                    [] type[n] = "BREAK"    -> Redirect(n, BreakTarget(n))
                    [] type[n] = "CONTINUE" -> Redirect(n, ContinueTarget(n))
                    [] OTHER                -> UNCHANGED <<sons, fathers, phase>>
           /\ fixed' = fixed + 1
           /\ UNCHANGED <<type, home, cur, open, gone, loops>>

\* A start with another son than the end and itself loses its edges to the end.
PruneStart(g, n) == LET kept == Only(g.sons[n], {m \in Ids : type[m] # "ENDLOOP"})
                    IN  IF type[n] = "STARTLOOP" /\ Range(kept) \ {n} # {} THEN SetSons(g, n, kept) ELSE g

Prune == /\ phase = "edges" /\ fixed = Size
         /\ LET Pruned[k \in 0..Size] == IF k = 0 THEN Graph ELSE PruneStart(Pruned[k - 1], k)
            IN  Becomes(Pruned[Size])
         /\ phase' = "prune"
         /\ UNCHANGED <<cur, open, fixed, gone, loops>>

\* _remove_alone_endif: prev_nodes is a live view of the keys, so the loop "until
\* a fix point" passes once over the nodes in the given order.
DropAlone(a, n) == IF type[n] = "ENDIF" /\ a.g.fathers[n] = <<>>
                   THEN [g |-> SetSons(a.g, n, <<>>), gone |-> a.gone \cup {n}] ELSE a

DropPass(order) ==
  LET Dropped[k \in 0..Size] == IF k = 0 THEN [g |-> Graph, gone |-> {}]
                                ELSE DropAlone(Dropped[k - 1], order[k])
  IN  Becomes(Dropped[Size].g) /\ gone' = Dropped[Size].gone

\* Mutant: the nodes are passed in the opposite order.
RemoveAloneEndif_Backwards == /\ phase = "prune"
                              /\ DropPass([n \in Ids |-> Size + 1 - n])
                              /\ phase' = "done"
                              /\ UNCHANGED <<cur, open, fixed, loops>>

RemoveAloneEndif == /\ phase = "prune"
                    /\ DropPass([n \in Ids |-> n])
                    /\ phase' = "done"
                    /\ UNCHANGED <<cur, open, fixed, loops>>

Parse == \/ \E t \in {"EXPRESSION", "RETURN", "BREAK", "CONTINUE"} : Simple(t)
         \/ OpenIf \/ Else \/ CloseIf
         \/ \E k \in Kinds : OpenLoop(k)
         \/ CloseLoop
         \/ \E pre, cond, post \in BOOLEAN : OpenFor(pre, cond, post)
         \/ CloseFor

Next == Parse \/ EndBody \/ FixNode \/ Prune \/ RemoveAloneEndif

Spec == Init /\ [][Next]_vars

----------------------------------------------------------------------------
LoopOf(n) == CHOOSE l \in loops : l.start = home[n]

\* Where the next round of a loop begins: with the increment of a for loop, or
\* else with the condition, or else with the body.
Resumes(l) == IF l.post # 0 THEN l.post ELSE IF l.cond # 0 THEN l.cond ELSE l.start

\* The nodes control can reach by the meaning of the program.
MeantSons(n) == CASE type[n] = "RETURN"   -> {}
                  [] type[n] = "BREAK"    -> {LoopOf(n).end}
                  [] type[n] = "CONTINUE" -> {Resumes(LoopOf(n))}
                  [] OTHER                -> Range(sons[n])

ReachedFrom[S \in SUBSET Ids] == LET T == S \cup UNION {MeantSons(n) : n \in S}
                                 IN  IF T = S THEN S ELSE ReachedFrom[T]

\* Jumps of type t that can be reached and have got their edge.
Repaired(t) == IF phase \in {"parse", "raised"} THEN {}
               ELSE {n \in 1..fixed : type[n] = t} \cap ReachedFrom[{1}]

\* Edges are kept twice, as sons and as fathers, and every repair of the graph
\* keeps the two in step.
FathersMirrorSons == \A n, m \in Ids : Times(sons[n], m) = Times(fathers[m], n)

\* The search for the loop of a jump that can be reached never fails.
LiveJumpsFound == phase = "raised" => fixed \notin ReachedFrom[{1}]

\* A break leaves the loop it is written in, not one around it.
BreakLeavesItsLoop == \A n \in Repaired("BREAK") : sons[n] = <<LoopOf(n).end>>

\* A continue begins the next round of the loop it is written in.
ContinueResumesItsLoop == \A n \in Repaired("CONTINUE") : sons[n] = <<Resumes(LoopOf(n))>>

\* What a continue gets that is not a new round: n is an expression at the end of
\* the body of a loop without an increment.
EndsBody(n, l) == /\ l.post = 0 /\ l.cond # 0 /\ n \in Range(fathers[l.cond])
                  /\ type[n] = "EXPRESSION"

\* In functions whose loops all have a condition both kinds of jump keep to their
\* loop, however loops nest: a break leaves it, and a continue begins its next
\* round, or runs the expression that ends its body, taken for the increment.
JumpsKeepToTheirLoop ==
  (\A l \in loops : l.cond # 0) =>
    /\ BreakLeavesItsLoop
    /\ \A n \in Repaired("CONTINUE") :
         \/ sons[n] = <<Resumes(LoopOf(n))>>
         \/ \E m \in Ids : sons[n] = <<m>> /\ EndsBody(m, LoopOf(n))

\* One pass of _remove_alone_endif leaves no ENDIF without a father.
NoAloneEndif == phase = "done" => \A n \in Ids \ gone : type[n] = "ENDIF" => fathers[n] # <<>>

=============================================================================
