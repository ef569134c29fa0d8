------------------------------ MODULE PathWalk ------------------------------
(* ContractWalker.walk and walk_path: the paths of every outer function are *)
(* walked one by one, an internal call is replaced by the paths of its      *)
(* callee, and the storage each function writes is collected on the way.    *)
(*                                                                          *)
(* The paths of a function are given (PathEnum enumerates them).  Of the IR *)
(* the model keeps what moves storage pointers: every function has one      *)
(* pointer p, its storage parameter, and one, q, for a result it fetched.   *)
(*   read        a field of p is read: REF = p.x                            *)
(*   write       a field of p is written: REF = p.x; REF := ...             *)
(*   point(v)    p = v, for a state variable v                              *)
(*   call(f, v)  TMP = f(v), for a state variable v, or p                   *)
(*   take        q = TMP of the call just before, and a field of q is written *)
(*   ret         return p                                                   *)
(* A location is a whole struct: its fields are written through it.         *)
EXTENDS Integers, Sequences, FiniteSets, SequencesExt

CONSTANTS Functions,  \* every function
          StateVars,  \* contract.storage_variables_ordered: storage structs
          Entries,    \* functions_entry_points, in order
          Programs,   \* the codes tried: function -> [nodes, paths]
          MaxItems,   \* bound: items of a path
          MaxDepth    \* bound: nested calls of the runs compared with

ASSUME EntriesAssumption == /\ Entries \in Seq(Functions)
                            /\ StateVars \in Seq(STRING) /\ {"p", "none"} \cap Range(StateVars) = {}

Instructions == [op : {"read", "write", "take", "ret"}]
                  \cup [op : {"point"}, v : Range(StateVars)]
                  \cup [op : {"call"}, f : Functions, v : Range(StateVars) \cup {"p"}]

\* Every function has a path, of nodes it has; only an internal function has a
\* storage parameter to pass on; a result is taken just after its call.
ASSUME ProgramsAssumption ==
  \A c \in Programs :
    /\ c \in [Functions -> [nodes : Seq(Seq(Instructions)), paths : Seq(Seq(Nat))]]
    /\ \A f \in Functions :
         /\ c[f].paths # <<>>
         /\ \A i \in DOMAIN c[f].paths : Range(c[f].paths[i]) \subseteq DOMAIN c[f].nodes
         /\ \A n \in DOMAIN c[f].nodes : \A k \in DOMAIN c[f].nodes[n] :
              /\ f \in Range(Entries) /\ c[f].nodes[n][k].op = "call" => c[f].nodes[n][k].v # "p"
              /\ c[f].nodes[n][k].op = "take" => k > 1 /\ c[f].nodes[n][k - 1].op = "call"

\* The paths of the outer functions are within the bound.
ASSUME BoundAssumption ==
  /\ MaxItems \in Nat /\ MaxDepth \in Nat
  /\ \A c \in Programs, f \in Range(Entries) : \A i \in DOMAIN c[f].paths : Len(c[f].paths[i]) + 2 <= MaxItems

VARIABLES code,     \* the program: never changes
          todo,     \* index into Entries of the outer function being walked
          pc,       \* "next" function, "walking", "done"
          work, id, \* all_paths_with_index and path_id
          at, pos,  \* place in the path, and in the IRs of its node
          last,     \* irs[-1] of this call of walk_path, or NoIr
          parsed,   \* parse_irs: calls met in this outer function
          ctx,      \* variable.context["abstract"]: an object; no entry is None
          heap,     \* AbstractContext objects: the storage each one stands for
          written,  \* write_storages[current_function]
          trace,    \* history: what was executed on the path under way
          repeats   \* history: some path executed an IR twice

vars == <<code, todo, pc, work, id, at, pos, last, parsed, ctx, heap, written, trace, repeats>>

NoIr  == <<>>
NoLoc == "none"

Op(ir) == code[ir[1]].nodes[ir[2]][ir[3]]
P(f)   == <<f, "p">>
Q(f)   == <<f, "q">>
V(v)   == <<v>>

StartNode(f, arg) == [kind |-> "start", fn |-> f, of |-> arg]
EndNode(f, call)  == [kind |-> "end", fn |-> f, of |-> call]
CodeNode(irs)     == [kind |-> "code", irs |-> irs]

Irs(f, n) == [k \in DOMAIN code[f].nodes[n] |-> <<f, n, k>>]

\* get_all_paths(entry_point, [StartNode(f, arg)], all_paths, call)
PathsOf(f, arg, call) ==
  [i \in DOMAIN code[f].paths |->
     LET p == code[f].paths[i]
     IN  <<StartNode(f, arg)>> \o [j \in DOMAIN p |-> CodeNode(Irs(f, p[j]))] \o <<EndNode(f, call)>>]

Path == work[id].path
Item == Path[at]
Ir   == Item.irs[pos]
Fn   == Ir[1]
OnPath == pc = "walking" /\ id <= Len(work) /\ at <= Len(Path)
At(op) == OnPath /\ Item.kind = "code" /\ pos <= Len(Item.irs) /\ Op(Ir).op = op

Has(x)    == x \in DOMAIN ctx
Loc(x)    == IF Has(x) THEN heap[ctx[x]] ELSE NoLoc
Known(S)  == S \ {NoLoc}

\* x gets object o; x gets an object of its own for location l.
With(x, o)  == [y \in DOMAIN ctx \cup {x} |-> IF y = x THEN o ELSE ctx[y]]
Bind(x, o)  == ctx' = With(x, o) /\ UNCHANGED heap
New(x, l)   == ctx' = With(x, Len(heap) + 1) /\ heap' = Append(heap, l)

\* Every state variable gets a context of its own name; those of S are cleared.
Renamed(S) == LET own == {V(v) : v \in Range(StateVars)}
              IN  /\ heap' = heap \o StateVars
                  /\ ctx' = [x \in own \cup (DOMAIN ctx \ S) |->
                                IF x \in own THEN Len(heap) + CHOOSE i \in DOMAIN StateVars : V(StateVars[i]) = x
                                ELSE ctx[x]]

----------------------------------------------------------------------------
Init == /\ code \in Programs
        /\ todo = 1 /\ pc = "next" /\ work = <<>> /\ id = 1 /\ at = 1 /\ pos = 1
        /\ last = NoIr /\ parsed = {} /\ ctx = <<>> /\ heap = <<>>
        /\ written = {} /\ trace = <<>> /\ repeats = FALSE

\* Mutant: path_id is not set back.
BeginFunction_KeepsId ==
  /\ pc = "next" /\ todo <= Len(Entries)
  /\ pc' = "walking"
  /\ work' = [i \in DOMAIN code[Entries[todo]].paths |->
                [start |-> 1, path |-> PathsOf(Entries[todo], 0, NoIr)[i]]]
  /\ id' = IF todo = 1 THEN 1 ELSE id
  /\ at' = 1 /\ pos' = 1 /\ last' = NoIr
  /\ written' = {} /\ trace' = <<>> /\ repeats' = FALSE
  /\ Renamed({})
  /\ UNCHANGED <<code, todo, parsed>>

BeginFunction ==
  /\ pc = "next" /\ todo <= Len(Entries)
  /\ pc' = "walking"
  /\ work' = [i \in DOMAIN code[Entries[todo]].paths |->
                [start |-> 1, path |-> PathsOf(Entries[todo], 0, NoIr)[i]]]
  /\ id' = 1 /\ at' = 1 /\ pos' = 1 /\ last' = NoIr
  /\ written' = {} /\ trace' = <<>> /\ repeats' = FALSE
  /\ Renamed({})
  /\ UNCHANGED <<code, todo, parsed>>

\* enter_function: the parameter gets a copy of the argument's context.
Enter == /\ OnPath /\ Item.kind = "start"
         /\ IF Item.of = 0 THEN UNCHANGED <<ctx, heap>> ELSE New(P(Item.fn), heap[Item.of])
         /\ at' = at + 1
         /\ trace' = Append(trace, [do |-> "enter", fn |-> Item.fn, ir |-> NoIr])
         /\ UNCHANGED <<code, todo, pc, work, id, pos, last, parsed, written, repeats>>

\* exit_function: the call gets the context of what the last IR returned.
Exit == /\ OnPath /\ Item.kind = "end"
        /\ IF last # NoIr /\ Item.of # NoIr /\ Op(last).op = "ret" /\ Has(P(last[1]))
           THEN Bind(Item.of, ctx[P(last[1])])
           ELSE UNCHANGED <<ctx, heap>>
        /\ at' = at + 1
        /\ trace' = Append(trace, [do |-> "exit", fn |-> Item.fn, ir |-> NoIr])
        /\ UNCHANGED <<code, todo, pc, work, id, pos, last, parsed, written, repeats>>

LeaveNode == /\ OnPath /\ Item.kind = "code" /\ pos > Len(Item.irs)
             /\ at' = at + 1 /\ pos' = 1
             /\ UNCHANGED <<code, todo, pc, work, id, last, parsed, ctx, heap, written, trace, repeats>>

\* What every IR does: it is recorded, and appended to irs.
Executed == [do |-> "ir", fn |-> Fn, ir |-> Ir]
Log == /\ last' = Ir
       /\ trace' = Append(trace, Executed)
       /\ repeats' = (repeats \/ Executed \in Range(trace))
Parsed == /\ Log /\ pos' = pos + 1
          /\ UNCHANGED <<code, todo, pc, work, id, at, parsed>>

\* Member: a REF that has a context yet is taken for an lvalue being written.
Read  == /\ At("read") /\ Parsed
         /\ written' = written \cup Known({Loc(Ir)})
         /\ New(Ir, Loc(P(Fn)))

Write == /\ At("write") /\ Parsed
         /\ written' = written \cup Known({Loc(Ir), Loc(P(Fn))})
         /\ New(Ir, Loc(P(Fn)))

\* Assignment to a storage pointer: one that stands for something goes on
\* standing for it, and the right side's own object is renamed to it.
Assigned(x, o) == /\ ctx' = With(x, o)
                  /\ heap' = IF Loc(x) = NoLoc THEN heap ELSE [heap EXCEPT ![o] = Loc(x)]

Point == /\ At("point") /\ Parsed
         /\ written' = written \cup Known({Loc(P(Fn))})
         /\ Assigned(P(Fn), ctx[V(Op(Ir).v)])

CallBefore == <<Ir[1], Ir[2], Ir[3] - 1>>

\* A call that never returned reads as unknown.  The field is written after.
Take == /\ At("take") /\ Parsed
        /\ IF Has(CallBefore) THEN Assigned(Q(Fn), ctx[CallBefore])
                              ELSE New(Q(Fn), Loc(Q(Fn)))
        /\ written' = written \cup Known({Loc(Q(Fn)), heap'[ctx'[Q(Fn)]]})

Ret == At("ret") /\ Parsed /\ UNCHANGED <<ctx, heap, written>>

Expanded == at < Len(Path) /\ Path[at + 1].kind = "start"

\* Mutant: on with the rest of the node.
Hop_KeepsRest == /\ At("call") /\ Expanded /\ Log
                 /\ pos' = pos + 1
                 /\ UNCHANGED <<code, todo, pc, at, work, id, parsed, ctx, heap, written>>

\* A call whose callee is in the path: on with it, past the rest of the node.
Hop == /\ At("call") /\ Expanded /\ Log
       /\ at' = at + 1 /\ pos' = 1
       /\ UNCHANGED <<code, todo, pc, work, id, parsed, ctx, heap, written>>

Argument(op, f) == IF op.v = "p" THEN ctx[P(f)] ELSE ctx[V(op.v)]
Rest(irs, k) == IF k < Len(irs) THEN <<CodeNode(SubSeq(irs, k + 1, Len(irs)))>> ELSE <<>>

\* Mutant: a call met before takes all the paths of its callee again.
Children_Always == PathsOf(Op(Ir).f, Argument(Op(Ir), Fn), Ir)

\* The paths that take the place of this one: all of the callee's when the call
\* is met for the first time, else the first.  The first of them goes on where
\* this one stands.
Children == LET all == PathsOf(Op(Ir).f, Argument(Op(Ir), Fn), Ir)
            IN  IF Ir \in parsed THEN <<all[1]>> ELSE all
Spliced(child) == SubSeq(Path, 1, at) \o child \o Rest(Item.irs, pos) \o SubSeq(Path, at + 1, Len(Path))

Expand == /\ At("call") /\ ~Expanded /\ Log
          /\ \A i \in DOMAIN Children : Len(Spliced(Children[i])) <= MaxItems
          /\ work' = SubSeq(work, 1, id - 1)
                       \o [i \in DOMAIN Children |-> [start |-> IF i = 1 THEN at + 1 ELSE 1,
                                                      path  |-> Spliced(Children[i])]]
                       \o SubSeq(work, id + 1, Len(work))
          /\ parsed' = parsed \cup {Ir}
          /\ at' = at + 1 /\ pos' = 1
          /\ UNCHANGED <<code, todo, pc, id, ctx, heap, written>>

\* Mutant: the contexts of member accesses stay.
Cleared_Pointers(ir) == CASE Op(ir).op \in {"point", "ret"} -> {P(ir[1])}
                          [] Op(ir).op = "take" -> {Q(ir[1])}
                          [] OTHER -> {}

\* clear_context: of calls it clears nothing.
Cleared(ir) == CASE Op(ir).op \in {"read", "write"} -> {ir}
                 [] Op(ir).op \in {"point", "ret"} -> {P(ir[1])}
                 [] Op(ir).op = "take" -> {Q(ir[1])}
                 [] OTHER -> {}
IrsOf(path) == UNION {IF path[i].kind = "code" THEN Range(path[i].irs) ELSE {} : i \in DOMAIN path}

PathEnds == /\ pc = "walking" /\ id <= Len(work) /\ at > Len(Path)
            /\ Renamed(UNION {Cleared(ir) : ir \in IrsOf(Path)})
            /\ id' = id + 1 /\ pos' = 1 /\ last' = NoIr /\ trace' = <<>>
            /\ at' = IF id < Len(work) THEN work[id + 1].start ELSE 1
            /\ UNCHANGED <<code, todo, pc, work, parsed, written, repeats>>

\* Mutant: parse_irs is kept from one function to the next.
EndFunction_KeepsParsed == /\ pc = "walking" /\ id > Len(work)
                           /\ pc' = "next" /\ todo' = todo + 1
                           /\ UNCHANGED <<code, work, id, at, pos, last, parsed, ctx, heap, written, trace, repeats>>

EndFunction == /\ pc = "walking" /\ id > Len(work)
               /\ pc' = "next" /\ todo' = todo + 1 /\ parsed' = {}
               /\ UNCHANGED <<code, work, id, at, pos, last, ctx, heap, written, trace, repeats>>

WalkDone == /\ pc = "next" /\ todo > Len(Entries)
            /\ pc' = "done"
            /\ UNCHANGED <<code, todo, work, id, at, pos, last, parsed, ctx, heap, written, trace, repeats>>

Next == \/ BeginFunction \/ Enter \/ Exit \/ LeaveNode \/ Read \/ Write \/ Point \/ Take \/ Ret
        \/ Hop \/ Expand \/ PathEnds \/ EndFunction \/ WalkDone

Spec == Init /\ [][Next]_vars /\ WF_vars(Next)

----------------------------------------------------------------------------
(* What the program does, told by its paths alone.                          *)

IrsAlong(f, i) == FlattenSeq([j \in DOMAIN code[f].paths[i] |-> Irs(f, code[f].paths[i][j])])
IrsOfFn(f)     == UNION {Range(IrsAlong(f, i)) : i \in DOMAIN code[f].paths}
Calls(f)       == {ir \in IrsOfFn(f) : Op(ir).op = "call"}
ArgumentAt(ir, l) == IF Op(ir).v = "p" THEN l ELSE Op(ir).v

\* Every run of f on location l, calls nested up to depth d: what it writes and
\* what it returns.
Locations == Range(StateVars) \cup {NoLoc}
Runs[f \in Functions, l \in Locations, d \in 0..MaxDepth] ==
  LET Step(S, ir) ==
        CASE Op(ir).op = "write" -> {[s EXCEPT !.w = @ \cup {s.p}] : s \in S}
          [] Op(ir).op = "point" -> {[s EXCEPT !.p = Op(ir).v] : s \in S}
          [] Op(ir).op = "call"  -> UNION {{[s EXCEPT !.w = @ \cup r.w, !.got = r.ret] :
                                              r \in IF d = 0 THEN {} ELSE Runs[Op(ir).f, ArgumentAt(ir, s.p), d - 1]} :
                                           s \in S}
          [] Op(ir).op = "take"  -> {[s EXCEPT !.w = @ \cup {s.got}] : s \in {t \in S : t.got # NoLoc}}
          [] Op(ir).op = "ret"   -> {[s EXCEPT !.ret = s.p] : s \in S}
          [] OTHER -> S
  IN  UNION {FoldLeft(Step, {[p |-> l, w |-> {}, got |-> NoLoc, ret |-> NoLoc]}, IrsAlong(f, i)) :
             i \in DOMAIN code[f].paths}

CurrentFunction == Entries[todo]
Truth == UNION {r.w : r \in Runs[CurrentFunction, NoLoc, MaxDepth]}
Walked == pc = "walking" /\ id > Len(work)

\* The functions and locations a walk from S comes to, pointers left alone.
Reached[S \in SUBSET (Functions \X Locations)] ==
              LET T == S \cup UNION {{<<Op(ir).f, ArgumentAt(ir, s[2])>> : ir \in Calls(s[1])} : s \in S}
              IN  IF T = S THEN S ELSE Reached[T]

\* A function that calls others comes up with one location only.
OneContext == \A s, t \in Reached[{<<CurrentFunction, NoLoc>>}] :
                s[1] = t[1] /\ Calls(s[1]) # {} => s = t
Moves(f)   == \E ir \in IrsOfFn(f) : Op(ir).op = "point"
NoMoves    == \A f \in Functions : ~Moves(f)
Returning(f) == \A i \in DOMAIN code[f].paths : \E ir \in Range(IrsAlong(f, i)) : Op(ir).op = "ret"
TakenReturn  == \A f \in Functions : \A ir \in IrsOfFn(f) :
                  Op(ir).op = "take" => Returning(Op(<<ir[1], ir[2], ir[3] - 1>>).f)

----------------------------------------------------------------------------
(* Properties.                                                              *)

TypeOK == /\ todo \in 1..(Len(Entries) + 1) /\ pc \in {"next", "walking", "done"}
          /\ id \in 1..(Len(work) + 1) /\ pos \in Nat \ {0}
          /\ \A i \in DOMAIN work : work[i].start \in DOMAIN work[i].path /\ Len(work[i].path) <= MaxItems
          /\ \A x \in DOMAIN ctx : ctx[x] \in DOMAIN heap
          /\ Range(heap) \subseteq Range(StateVars) \cup {NoLoc}
          /\ written \subseteq Range(StateVars)

\* Every location the function writes in some run is among those collected,
\* although a call met before is replaced by one path of its callee only.
\* Outside: a pointer that is set anew keeps its first location, and a function
\* that calls others and is itself called with two locations meets its inner
\* calls a second time with the second.
WritesFound == Walked /\ NoMoves /\ OneContext => Truth \subseteq written

\* Nothing is collected that no run writes, as long as no IR is met twice on a
\* path: then the REF of a read has a context and passes for one written.
WritesReal == Walked /\ NoMoves /\ TakenReturn /\ ~repeats => written \subseteq Truth

\* The same where a function may be called twice on a path: every handler is
\* meant to record a write only for what its IR writes.
OnlyWritesFound == Walked /\ NoMoves /\ TakenReturn => written \subseteq Truth

\* An activation: which path of its function it is on, and how many IRs of it are
\* done.  A stack of activations, and what an event makes of it: nothing, if the
\* event cannot come then.
Line(a)     == IrsAlong(a.fn, a.path)
Begun(f, i) == [fn |-> f, path |-> i, done |-> 0]

Follow(c, e) ==
  CASE e.do = "enter" -> {Append(c, Begun(e.fn, i)) : i \in DOMAIN code[e.fn].paths}
    [] e.do = "exit"  -> IF c # <<>> /\ Last(c).fn = e.fn /\ Last(c).done = Len(Line(Last(c)))
                         THEN {Front(c)} ELSE {}
    [] OTHER          -> IF c # <<>> /\ Last(c).done < Len(Line(Last(c))) /\ Line(Last(c))[Last(c).done + 1] = e.ir
                         THEN {[c EXCEPT ![Len(c)].done = @ + 1]} ELSE {}

\* The stacks there may be after k events.
Activations == LET After[k \in 0..Len(trace)] == IF k = 0 THEN {<<>>}
                                                 ELSE UNION {Follow(c, trace[k]) : c \in After[k - 1]}
               IN  After

Calling(e) == e.do = "ir" /\ Op(e.ir).op = "call"

\* What is executed along a path, over all the calls of walk_path it takes, is
\* one run of the program: each call enters its callee, each callee comes back
\* to the IR after its call, and no IR is left out or parsed again.
TraceIsARun == pc = "walking" /\ id <= Len(work) /\ at > Len(Path) =>
  /\ <<>> \in Activations[Len(trace)]
  /\ \A k \in DOMAIN trace :
       IF k > 1 /\ Calling(trace[k - 1])
       THEN trace[k].do = "enter" /\ trace[k].fn = Op(trace[k - 1].ir).f
       ELSE trace[k].do = "enter" => k = 1

\* A call that is met again takes the first path of its callee: the walk ends
\* unless that path comes back to its own function.
FirstCallees(f) == {Op(ir).f : ir \in {c \in Range(IrsAlong(f, 1)) : Op(c).op = "call"}}
OnFirstPaths[S \in SUBSET Functions] == LET T == S \cup UNION {FirstCallees(f) : f \in S}
                                        IN  IF T = S THEN S ELSE OnFirstPaths[T]
FirstPathsReturn == \A f \in Functions : f \notin OnFirstPaths[FirstCallees(f)]

WalkEnds == FirstPathsReturn => <>(pc = "done")

=============================================================================
