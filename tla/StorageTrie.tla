----------------------------- MODULE StorageTrie -----------------------------
(* StorageProof: tries in memory and the table storage_tries they are saved *)
(* in.  Every object has a connection and with it a database transaction;   *)
(* a statement that cannot have its lock waits for it.  CREATE INDEX IF NOT *)
(* EXISTS, with which every save begins, locks the table against writers    *)
(* ("share"); INSERT and DELETE lock it against such index builds ("row").  *)
(*                                                                          *)
(* A trie is told by its contents: the value of every slot.  Its nodes are  *)
(* kept for all the contents it ever had, since nothing is pruned; the root *)
(* hash says which of them it has now.                                      *)
EXTENDS Integers, FiniteSets

CONSTANTS Objects,   \* StorageProof objects, each in a process of its own
          Keys,      \* (contract_address, block_number)
          KeyOf,     \* the pair an object is for
          Slots,
          Values,    \* what a slot may hold; 0 is the value of a slot never set
          MaxUpdates, \* bound: slots updated
          MaxKills    \* bound: processes killed

ASSUME KeyAssumption   == KeyOf \in [Objects -> Keys]
ASSUME ValueAssumption == 0 \in Values
ASSUME BoundAssumption == MaxUpdates \in Nat /\ MaxKills \in Nat

VARIABLES table,   \* storage_tries: committed rows [key, nodes, root]
          trie,    \* object -> [nodes, root]
          pc,      \* object -> where its thread stands
          building, \* object -> in its constructor
          locks,   \* object -> table locks its transaction holds
          pending, \* object -> its uncommitted change: "none", "put", "delete"
          missed,  \* history: the last delete found no row, and nothing since
          stale,   \* history: another object saved the row since o read or wrote it
          updates, kills

vars == <<table, trie, pc, building, locks, pending, missed, stale, updates, kills>>

Contents == [Slots -> Values]
Blank    == [s \in Slots |-> 0]
Tries    == [nodes : SUBSET Contents, root : Contents]
Rows(k)  == {r \in table : r.key = k}
NewTrie  == [nodes |-> {}, root |-> Blank]
TableRows == [key : Keys, nodes : SUBSET Contents, root : Contents]
RowOf(o) == [key |-> KeyOf[o], nodes |-> trie[o].nodes, root |-> trie[o].root]

Asking == {"ask index", "ask insert", "ask delete"}
Places == {"off", "indexed", "load", "idle", "inserted", "deleted"} \cup Asking

Others(o) == Objects \ {o}

\* The row of o's key waits for whoever has changed it and not yet committed.
RowTaken(p, o) == KeyOf[p] = KeyOf[o] /\ pending[p] # "none"

\* Who keeps o waiting for its lock.
Blockers(o) ==
  CASE pc[o] = "ask index" -> {p \in Others(o) : "row" \in locks[p]}
    [] pc[o] \in {"ask insert", "ask delete"} ->
         {p \in Others(o) : "share" \in locks[p] \/ RowTaken(p, o)}
    [] OTHER -> {}

Go(o, place)   == pc' = [pc EXCEPT ![o] = place]
Take(o, mode)  == locks' = [locks EXCEPT ![o] = @ \cup {mode}]
EndTransaction(o) == /\ locks' = [locks EXCEPT ![o] = {}]
                     /\ pending' = [pending EXCEPT ![o] = "none"]
                     /\ missed' = [missed EXCEPT ![o] = FALSE]

----------------------------------------------------------------------------
Init == /\ table = {}
        /\ trie = [o \in Objects |-> NewTrie]
        /\ pc = [o \in Objects |-> "off"]
        /\ building = [o \in Objects |-> FALSE]
        /\ locks = [o \in Objects |-> {}]
        /\ pending = [o \in Objects |-> "none"]
        /\ missed = [o \in Objects |-> FALSE]
        /\ stale = [o \in Objects |-> FALSE]
        /\ updates = 0 /\ kills = 0

\* The constructor begins with init_database.
Construct(o) == /\ pc[o] = "off"
                /\ Go(o, "ask index")
                /\ building' = [building EXCEPT ![o] = TRUE]
                /\ UNCHANGED <<table, trie, locks, pending, missed, stale, updates, kills>>

BeginSave(o) == /\ pc[o] = "idle"
                /\ Go(o, "ask index")
                /\ UNCHANGED <<table, trie, building, locks, pending, missed, stale, updates, kills>>

CreateIndex(o) == /\ pc[o] = "ask index" /\ Blockers(o) = {}
                  /\ Take(o, "share") /\ Go(o, "indexed")
                  /\ UNCHANGED <<table, trie, building, pending, missed, stale, updates, kills>>

CommitIndex(o) == /\ pc[o] = "indexed"
                  /\ EndTransaction(o)
                  /\ Go(o, IF building[o] THEN "load" ELSE "ask insert")
                  /\ UNCHANGED <<table, trie, building, stale, updates, kills>>

\* Mutants: no trie is made where none is loaded; the nodes are not taken over.
Load_NoTrie(o) ==
  /\ pc[o] = "load"
  /\ \/ Rows(KeyOf[o]) = {} /\ trie' = [trie EXCEPT ![o] = <<>>]
     \/ \E r \in Rows(KeyOf[o]) :
          trie' = [trie EXCEPT ![o] = [nodes |-> r.nodes, root |-> Blank]]
  /\ building' = [building EXCEPT ![o] = FALSE]
  /\ stale' = [stale EXCEPT ![o] = FALSE]
  /\ Go(o, "idle")
  /\ UNCHANGED <<table, locks, pending, missed, updates, kills>>

Load_Empty(o) ==
  /\ pc[o] = "load"
  /\ trie' = [trie EXCEPT ![o] = NewTrie]
  /\ building' = [building EXCEPT ![o] = FALSE]
  /\ stale' = [stale EXCEPT ![o] = FALSE]
  /\ Go(o, "idle")
  /\ UNCHANGED <<table, locks, pending, missed, updates, kills>>

\* load_trie_from_database: the nodes of the row, and the root of an empty trie.
\* The SELECT leaves a transaction open that keeps no writer waiting.
Load(o) == /\ pc[o] = "load"
           /\ \/ Rows(KeyOf[o]) = {} /\ trie' = [trie EXCEPT ![o] = NewTrie]
              \/ \E r \in Rows(KeyOf[o]) :
                   trie' = [trie EXCEPT ![o] = [nodes |-> r.nodes, root |-> Blank]]
           /\ building' = [building EXCEPT ![o] = FALSE]
           /\ stale' = [stale EXCEPT ![o] = FALSE]
           /\ Go(o, "idle")
           /\ UNCHANGED <<table, locks, pending, missed, updates, kills>>

\* update_storage: 0 takes the key out of the trie.
Update(o, s, v) ==
  /\ pc[o] = "idle" /\ updates < MaxUpdates
  /\ LET new == [trie[o].root EXCEPT ![s] = v]
     IN  trie' = [trie EXCEPT ![o] = [nodes |-> @.nodes \cup {new}, root |-> new]]
  /\ updates' = updates + 1
  /\ UNCHANGED <<table, pc, building, locks, pending, missed, stale, kills>>

Insert(o) == /\ pc[o] = "ask insert" /\ Blockers(o) = {}
             /\ Take(o, "row") /\ Go(o, "inserted")
             /\ pending' = [pending EXCEPT ![o] = "put"]
             /\ UNCHANGED <<table, trie, building, missed, stale, updates, kills>>

\* Mutant: INSERT without ON CONFLICT, on a table without the constraint.
CommitSave_Appends(o) ==
  /\ pc[o] = "inserted"
  /\ table' = table \cup {RowOf(o)}
  /\ stale' = [p \in Objects |-> p # o /\ (stale[p] \/ KeyOf[p] = KeyOf[o])]
  /\ EndTransaction(o) /\ Go(o, "idle")
  /\ UNCHANGED <<trie, building, updates, kills>>

CommitSave(o) == /\ pc[o] = "inserted"
                 /\ table' = (table \ Rows(KeyOf[o])) \cup {RowOf(o)}
                 /\ stale' = [p \in Objects |-> p # o /\ (stale[p] \/ KeyOf[p] = KeyOf[o])]
                 /\ EndTransaction(o) /\ Go(o, "idle")
                 /\ UNCHANGED <<trie, building, updates, kills>>

BeginDelete(o) == /\ pc[o] = "idle"
                  /\ Go(o, "ask delete")
                  /\ UNCHANGED <<table, trie, building, locks, pending, missed, stale, updates, kills>>

DeleteHits(o) == /\ pc[o] = "ask delete" /\ Blockers(o) = {} /\ Rows(KeyOf[o]) # {}
                 /\ Take(o, "row") /\ Go(o, "deleted")
                 /\ pending' = [pending EXCEPT ![o] = "delete"]
                 /\ UNCHANGED <<table, trie, building, missed, stale, updates, kills>>

\* Mutant: a delete that found its row is not committed either.
CommitDelete_Never(o) ==
  /\ pc[o] = "deleted"
  /\ Go(o, "idle")
  /\ UNCHANGED <<table, trie, building, locks, pending, missed, stale, updates, kills>>

CommitDelete(o) == /\ pc[o] = "deleted"
                   /\ table' = table \ Rows(KeyOf[o])
                   /\ EndTransaction(o) /\ Go(o, "idle")
                   /\ UNCHANGED <<trie, building, stale, updates, kills>>

\* No row: neither commit nor rollback, and the lock stays.
DeleteMisses(o) == /\ pc[o] = "ask delete" /\ Blockers(o) = {} /\ Rows(KeyOf[o]) = {}
                   /\ Take(o, "row") /\ Go(o, "idle")
                   /\ missed' = [missed EXCEPT ![o] = TRUE]
                   /\ UNCHANGED <<table, trie, building, pending, stale, updates, kills>>

----------------------------------------------------------------------------
(* The server and the operating system.                                     *)

\* A circle: transactions each of which waits for another of them.
Waiting(D)    == D # {} /\ \A o \in D : Blockers(o) \cap D # {}
Deadlocked(D) == Waiting(D) /\ \A E \in SUBSET D : Waiting(E) => E = D

\* PostgreSQL aborts one of them; the exception is handled by a rollback and
\* raised again, and a constructor that raises leaves no object.
Abort(o) == /\ \E D \in SUBSET Objects : o \in D /\ Deadlocked(D)
            /\ EndTransaction(o)
            /\ Go(o, IF building[o] THEN "off" ELSE "idle")
            /\ building' = [building EXCEPT ![o] = FALSE]
            /\ UNCHANGED <<table, trie, stale, updates, kills>>

\* The process is killed and its connection closed: a rollback.
Kill(o) == /\ pc[o] # "off" /\ kills < MaxKills
           /\ EndTransaction(o) /\ Go(o, "off")
           /\ building' = [building EXCEPT ![o] = FALSE]
           /\ kills' = kills + 1
           /\ UNCHANGED <<table, trie, stale, updates>>

Working(o) == \/ CreateIndex(o) \/ CommitIndex(o) \/ Load(o) \/ Insert(o) \/ CommitSave(o)
              \/ DeleteHits(o) \/ CommitDelete(o) \/ DeleteMisses(o)

Next == \E o \in Objects :
          \/ Construct(o) \/ BeginSave(o) \/ BeginDelete(o)
          \/ \E s \in Slots, v \in Values : Update(o, s, v)
          \/ Working(o) \/ Abort(o) \/ Kill(o)

Spec == Init /\ [][Next]_vars

\* A thread runs on; the server hands out locks in the order they were asked
\* for, and breaks deadlocks.
FairSpec == Spec /\ \A o \in Objects : SF_vars(Working(o)) /\ WF_vars(\E p \in Objects : Abort(p))

----------------------------------------------------------------------------
TypeOK == /\ table \subseteq TableRows
          /\ trie \in [Objects -> Tries]
          /\ pc \in [Objects -> Places]
          /\ building \in [Objects -> BOOLEAN]
          /\ locks \in [Objects -> SUBSET {"share", "row"}]
          /\ pending \in [Objects -> {"none", "put", "delete"}]
          /\ missed \in [Objects -> BOOLEAN] /\ stale \in [Objects -> BOOLEAN]
          /\ updates \in 0..MaxUpdates /\ kills \in 0..MaxKills

\* The nodes of a root are there, but for the empty trie, which has none.
Whole(t) == t.root = Blank \/ t.root \in t.nodes

\* One row for each key, and its trie can be opened at its root, whichever objects saved and deleted
\* rows, were killed or had their transaction aborted in between.
RowsWhole == /\ \A r \in table : Whole(r)
             /\ \A r, s \in table : r.key = s.key => r = s

\* Index builds and writers of the table exclude each other.
LocksExclude == \A o, p \in Objects : o # p => ~("share" \in locks[o] /\ "row" \in locks[p])

\* An object that does nothing keeps others waiting only after a delete that
\* found no row, and one that is gone never does.
IdleHoldsNothing == \A o \in Objects :
  /\ pc[o] = "idle" /\ locks[o] # {} => missed[o]
  /\ pc[o] = "off" => locks[o] = {} /\ pending[o] = "none"

Lingers(o) == pc[o] = "idle" /\ missed[o]

\* Every save and every constructor comes to an end, with success or with an
\* exception, unless somebody sits in the transaction of a delete that missed.
SaveEnds == \A o \in Objects :
  pc[o] \in {"ask index", "ask insert"} ~> pc[o] \in {"idle", "off"} \/ \E p \in Objects : Lingers(p)

\* A save drops nodes of the row it replaces only if another object saved that
\* row since this one read or wrote it: over restarts, and although Load loses
\* the root, the nodes of every root ever saved can still be looked up.
LostOnlyWhenStale ==
  [][\A o \in Objects : pc[o] = "inserted" /\ pc'[o] = "idle" /\ ~stale[o] =>
       \A r \in Rows(KeyOf[o]), s \in table' : s.key = r.key => r.nodes \subseteq s.nodes]_vars

=============================================================================
