------------------------------ MODULE PathEnum ------------------------------
(* ContractWalker.get_all_paths: the paths through the graph CfgBuilder     *)
(* built, depth first, once Slither is done with it.  A frame is one call;  *)
(* its path is the Python list it owns, which later sons see as earlier     *)
(* ones left it.                                                            *)
EXTENDS SsaForm

VARIABLES stack,     \* calls under way: [node, path, next]
          paths,     \* all_paths
          outcome    \* "waiting", "walking", "done", "raised" (IndexError)

walkVars == <<stack, paths, outcome>>
allVars  == <<type, sons, fathers, cur, open, phase, fixed, gone, home, loops,
              stage, reach, dom, idom, front, write, phis, calls, uses,
              stack, paths, outcome>>

\* The call get_all_paths(n, p): it appends n first.
Call(n, p) == [node |-> n, path |-> Append(p, n), next |-> 1]

WalkInit == SsaInit /\ stack = <<>> /\ paths = {} /\ outcome = "waiting"

Walk == /\ stage = "ssa" /\ outcome = "waiting"
        /\ outcome' = "walking"
        /\ stack' = <<Call(1, <<>>)>>
        /\ UNCHANGED <<formVars, paths>>

Caller == Last(stack)
Son    == sons[Caller.node][Caller.next]

\* The next son is up: the caller's frame moves on, with path p of its own.
Proceed(p) == [stack EXCEPT ![Len(stack)].next = @ + 1, ![Len(stack)].path = p]

More == /\ outcome = "walking" /\ stack # <<>>
        /\ Caller.next <= Len(sons[Caller.node])

\* A node without sons ends its path.
EndPath == /\ outcome = "walking" /\ stack # <<>> /\ sons[Caller.node] = <<>>
           /\ paths' = paths \cup {Caller.path}
           /\ stack' = Front(stack)
           /\ UNCHANGED <<formVars, outcome>>

Descend == /\ More /\ Son \notin Range(Caller.path)
           /\ stack' = Append(Proceed(Caller.path), Call(Son, Caller.path))
           /\ UNCHANGED <<formVars, paths, outcome>>

\* Mutants: a loop is not left after its body; the header is not repeated.
LeaveLoop_Cut == /\ More /\ Son \in Range(Caller.path)
                 /\ stack' = Proceed(Caller.path)
                 /\ UNCHANGED <<formVars, paths, outcome>>

LeaveLoop_NoHeader ==
  /\ More /\ Son \in Range(Caller.path) /\ Len(sons[Son]) > 1
  /\ stack' = Append(Proceed(Caller.path), Call(sons[Son][2], Caller.path))
  /\ UNCHANGED <<formVars, paths, outcome>>

\* A son on the path is taken for the header of a loop, and its second son for
\* the way out; the header stays on the caller's path.
LeaveLoop ==
  /\ More /\ Son \in Range(Caller.path) /\ Len(sons[Son]) > 1
  /\ LET p == Append(Caller.path, Son)
     IN  stack' = Append(Proceed(p), Call(sons[Son][2], p))
  /\ UNCHANGED <<formVars, paths, outcome>>

\* sons[1] of a node with one son.
LeaveLoopRaises == /\ More /\ Son \in Range(Caller.path) /\ Len(sons[Son]) = 1
                   /\ outcome' = "raised"
                   /\ UNCHANGED <<formVars, stack, paths>>

Return == /\ outcome = "walking" /\ stack # <<>>
          /\ sons[Caller.node] # <<>> /\ Caller.next > Len(sons[Caller.node])
          /\ stack' = Front(stack)
          /\ UNCHANGED <<formVars, paths, outcome>>

WalkDone == /\ outcome = "walking" /\ stack = <<>>
            /\ outcome' = "done"
            /\ UNCHANGED <<formVars, stack, paths>>

WalkNext == \/ SsaNext /\ UNCHANGED walkVars
            \/ Walk \/ Descend \/ LeaveLoop \/ LeaveLoopRaises \/ EndPath \/ Return \/ WalkDone

WalkSpec == WalkInit /\ [][WalkNext]_allVars

----------------------------------------------------------------------------
\* Every loop begins with its condition: no do loop and no for loop without a
\* condition, which the walk does not leave by the second son of their start.
HeadersFirst == \A l \in loops : l.kind # "do" /\ l.cond # 0

\* Every path is one of the graph: it starts at the entry, follows edges, ends
\* where there are none, and meets no node more than twice, since a loop is
\* walked once and left.
PathsAreReal == HeadersFirst /\ outcome = "done" =>
                  \A p \in paths :
                    /\ p[1] = 1 /\ sons[Last(p)] = <<>>
                    /\ \A i \in 1..(Len(p) - 1) : p[i + 1] \in Range(sons[p[i]])
                    /\ \A n \in Range(p) : Cardinality({k \in DOMAIN p : p[k] = n}) <= 2

Takes(p, n, m) == \E i \in 1..(Len(p) - 1) : p[i] = n /\ p[i + 1] = m

\* The walk does not fail, and when it is over every branch that can be reached
\* is on some path: what a function writes is collected from the paths, so a
\* branch on none would be missing.
EveryBranchWalked == HeadersFirst =>
  /\ outcome # "raised"
  /\ outcome = "done" =>
       \A n \in Closure({1}) : \A m \in Range(sons[n]) : \E p \in paths : Takes(p, n, m)

=============================================================================
