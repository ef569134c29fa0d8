-------------------------- MODULE StorageTrieProofs --------------------------
(* Theorems about StorageTrie, for any number of objects, keys, slots and   *)
(* values, and without its bounds on the number of updates and kills.       *)
EXTENDS StorageTrie, TLAPS

USE DEF Go, Take, EndTransaction, Asking, Places

\* A constructor has not loaded yet and, when it comes to load, has committed.
Constructing == \A o \in Objects :
  /\ building[o] => pc[o] \in {"ask index", "indexed", "load"}
  /\ pc[o] = "load" => locks[o] = {} /\ building[o]

TriesWhole == \A o \in Objects : Whole(trie[o])

\* An object whose row nobody else saved has all the nodes of the row.
Covers == \A o \in Objects :
  pc[o] # "off" /\ ~building[o] /\ ~stale[o] =>
    \A r \in table : r.key = KeyOf[o] => r.nodes \subseteq trie[o].nodes

IInv == TypeOK /\ Constructing /\ TriesWhole /\ RowsWhole /\ IdleHoldsNothing
          /\ LocksExclude /\ Covers

LEMMA BlankType == Blank \in Contents /\ NewTrie \in Tries
  BY ValueAssumption DEF Blank, Contents, NewTrie, Tries


LEMMA TypeStep == TypeOK /\ Next => TypeOK'
<1> SUFFICES ASSUME TypeOK, Next PROVE TypeOK'
  OBVIOUS
<1> USE DEF TypeOK
<1>1. ASSUME NEW o \in Objects, Construct(o) \/ BeginSave(o) \/ BeginDelete(o) PROVE TypeOK'
  BY <1>1 DEF Construct, BeginSave, BeginDelete
<1>2. ASSUME NEW o \in Objects, CreateIndex(o) \/ Insert(o) \/ DeleteHits(o) \/ DeleteMisses(o)
      PROVE TypeOK'
  <2>1. CASE CreateIndex(o)
    BY <2>1 DEF CreateIndex
  <2>2. CASE Insert(o)
    BY <2>2 DEF Insert
  <2>3. CASE DeleteHits(o)
    BY <2>3 DEF DeleteHits
  <2>4. CASE DeleteMisses(o)
    BY <2>4 DEF DeleteMisses
  <2> QED BY <1>2, <2>1, <2>2, <2>3, <2>4
<1>3. ASSUME NEW o \in Objects, CommitIndex(o) PROVE TypeOK'
  BY <1>3 DEF CommitIndex
<1>4. ASSUME NEW o \in Objects, Load(o) PROVE TypeOK'
  <2>1. \A r \in table : [nodes |-> r.nodes, root |-> Blank] \in Tries
    BY BlankType DEF Tries, TableRows
  <2>2. PICK t \in Tries : trie' = [trie EXCEPT ![o] = t]
    <3>1. CASE trie' = [trie EXCEPT ![o] = NewTrie]
      BY <3>1, BlankType
    <3>2. CASE \E r \in Rows(KeyOf[o]) : trie' = [trie EXCEPT ![o] = [nodes |-> r.nodes, root |-> Blank]]
      BY <2>1, <3>2 DEF Rows
    <3> HIDE DEF TypeOK
    <3> QED BY <1>4, <3>1, <3>2 DEF Load
  <2>3. trie' \in [Objects -> Tries]
    BY <2>2
  <2> QED BY <1>4, <2>3 DEF Load
<1>5. ASSUME NEW o \in Objects, NEW s \in Slots, NEW v \in Values, Update(o, s, v) PROVE TypeOK'
  <2> DEFINE new == [trie[o].root EXCEPT ![s] = v]
  <2>1. new \in Contents
    BY DEF Tries, Contents
  <2>2. [nodes |-> trie[o].nodes \cup {new}, root |-> new] \in Tries
    BY <2>1 DEF Tries
  <2>3. trie' \in [Objects -> Tries]
    BY <1>5, <2>2 DEF Update
  <2>4. updates' \in 0..MaxUpdates
    <3> HIDE DEF TypeOK
    <3>1. updates \in 0..MaxUpdates /\ MaxUpdates \in Nat
      BY BoundAssumption DEF TypeOK
    <3>2. updates < MaxUpdates /\ updates' = updates + 1
      BY <1>5 DEF Update
    <3> QED BY <3>1, <3>2
  <2> QED BY <1>5, <2>3, <2>4 DEF Update
<1>6. ASSUME NEW o \in Objects, CommitSave(o) PROVE TypeOK'
  <2>1. RowOf(o) \in TableRows
    BY KeyAssumption DEF RowOf, TableRows, Tries
  <2> QED BY <1>6, <2>1 DEF CommitSave, Rows
<1>7. ASSUME NEW o \in Objects, CommitDelete(o) PROVE TypeOK'
  BY <1>7 DEF CommitDelete, Rows
<1>8. ASSUME NEW o \in Objects, Abort(o) PROVE TypeOK'
  BY <1>8 DEF Abort
<1>9. ASSUME NEW o \in Objects, Kill(o) PROVE TypeOK'
  <2>1. kills' \in 0..MaxKills
    <3> HIDE DEF TypeOK
    <3>1. kills \in 0..MaxKills /\ MaxKills \in Nat
      BY BoundAssumption DEF TypeOK
    <3>2. kills < MaxKills /\ kills' = kills + 1
      BY <1>9 DEF Kill
    <3> QED BY <3>1, <3>2
  <2> QED BY <1>9, <2>1 DEF Kill
<1> QED BY <1>1, <1>2, <1>3, <1>4, <1>5, <1>6, <1>7, <1>8, <1>9 DEF Next, Working

\* What the threads are made of, for the steps that need no more.
Threads == /\ pc \in [Objects -> Places] /\ building \in [Objects -> BOOLEAN]
           /\ locks \in [Objects -> SUBSET {"share", "row"}]
           /\ pending \in [Objects -> {"none", "put", "delete"}]
           /\ missed \in [Objects -> BOOLEAN]

\* A transaction that takes the writers' lock while no other has that of index
\* builds, and one that ends.
LEMMA TakeRow ==
  ASSUME LocksExclude, NEW o \in Objects,
         \A p \in Others(o) : ~("share" \in locks[p]),
         \A p \in Objects : locks'[p] = IF p = o THEN locks[p] \cup {"row"} ELSE locks[p]
  PROVE  LocksExclude'
<1> SUFFICES ASSUME NEW a \in Objects, NEW b \in Objects, a # b,
                    "share" \in locks'[a], "row" \in locks'[b]
             PROVE  FALSE
  BY DEF LocksExclude
<1>1. "share" \in locks[a]
  <2>1. locks'[a] \subseteq locks[a] \cup {"row"}
    OBVIOUS
  <2> QED BY <2>1
<1>2. a = o
  BY <1>1 DEF Others
<1>3. "row" \in locks[b]
  BY <1>2
<1> QED BY <1>1, <1>3 DEF LocksExclude

LEMMA EndsTransaction ==
  ASSUME Threads, Constructing, IdleHoldsNothing, LocksExclude, NEW o \in Objects,
         EndTransaction(o), NEW place \in Places, Go(o, place),
         building' \in [Objects -> BOOLEAN], \A p \in Others(o) : building'[p] = building[p],
         building'[o] => place \in {"ask index", "indexed", "load"},
         place = "load" => building'[o]
  PROVE  Constructing' /\ IdleHoldsNothing' /\ LocksExclude'
<1>1. ASSUME NEW p \in Objects, p # o
      PROVE  pc'[p] = pc[p] /\ locks'[p] = locks[p] /\ pending'[p] = pending[p]
               /\ missed'[p] = missed[p] /\ building'[p] = building[p]
  BY <1>1 DEF Threads, Others
<1>2. pc'[o] = place /\ locks'[o] = {} /\ pending'[o] = "none"
  BY DEF Threads
<1> HIDE DEF Go, Take, EndTransaction
<1>3. LocksExclude'
  <2> SUFFICES ASSUME NEW a \in Objects, NEW b \in Objects, a # b,
                      "share" \in locks'[a], "row" \in locks'[b]
               PROVE  FALSE
    BY DEF LocksExclude
  <2>1. a # o /\ b # o
    BY <1>2
  <2> QED BY <1>1, <2>1 DEF LocksExclude
<1>4. Constructing'
  <2> SUFFICES ASSUME NEW p \in Objects
               PROVE  /\ building'[p] => pc'[p] \in {"ask index", "indexed", "load"}
                      /\ pc'[p] = "load" => locks'[p] = {} /\ building'[p]
    BY DEF Constructing
  <2>1. CASE p = o
    BY <2>1, <1>2
  <2>2. CASE p # o
    BY <2>2, <1>1 DEF Constructing
  <2> QED BY <2>1, <2>2
<1>5. IdleHoldsNothing'
  <2> SUFFICES ASSUME NEW p \in Objects
               PROVE  /\ pc'[p] = "idle" /\ locks'[p] # {} => missed'[p]
                      /\ pc'[p] = "off" => locks'[p] = {} /\ pending'[p] = "none"
    BY DEF IdleHoldsNothing
  <2>1. CASE p = o
    BY <2>1, <1>2
  <2>2. CASE p # o
    BY <2>2, <1>1 DEF IdleHoldsNothing
  <2> QED BY <2>1, <2>2
<1> QED BY <1>3, <1>4, <1>5

LEMMA ThreadsStep ==
  ASSUME Threads, Constructing, IdleHoldsNothing, LocksExclude, Next
  PROVE  Constructing' /\ IdleHoldsNothing' /\ LocksExclude'
<1> PICK o \in Objects : \/ Construct(o) \/ BeginSave(o) \/ BeginDelete(o)
                         \/ \E s \in Slots, v \in Values : Update(o, s, v)
                         \/ Working(o) \/ Abort(o) \/ Kill(o)
  BY DEF Next
<1> USE DEF Threads, Constructing, IdleHoldsNothing, LocksExclude
<1>1. CASE Construct(o)
  BY <1>1 DEF Construct
<1>2. CASE BeginSave(o)
  BY <1>2 DEF BeginSave
<1>3. CASE BeginDelete(o)
  BY <1>3 DEF BeginDelete
<1>4. CASE CreateIndex(o)
  <2>1. \A p \in Others(o) : ~("row" \in locks[p])
    BY <1>4 DEF CreateIndex, Blockers, Others
  <2>2. \A p \in Objects : locks'[p] = IF p = o THEN locks[p] \cup {"share"} ELSE locks[p]
    BY <1>4 DEF CreateIndex
  <2>3. LocksExclude'
    <3> SUFFICES ASSUME NEW a \in Objects, NEW b \in Objects, a # b,
                        "share" \in locks'[a], "row" \in locks'[b]
                 PROVE  FALSE
      OBVIOUS
    <3>1. "row" \in locks[b]
      <4> HIDE DEF Threads, Constructing, IdleHoldsNothing, LocksExclude
      <4>1. locks'[b] \subseteq locks[b] \cup {"share"}
        BY <2>2
      <4> QED BY <4>1
    <3>2. CASE a = o
      BY <3>1, <3>2, <2>1 DEF Others
    <3>3. CASE a # o
      BY <3>1, <3>3, <2>2
    <3> QED BY <3>2, <3>3
  <2>4. Constructing' /\ IdleHoldsNothing'
    BY <1>4, <2>2 DEF CreateIndex
  <2> QED BY <2>3, <2>4
<1>5. CASE CommitIndex(o)
  <2> DEFINE place == IF building[o] THEN "load" ELSE "ask insert"
  <2>1. EndTransaction(o) /\ Go(o, place) /\ building' = building
    BY <1>5 DEF CommitIndex
  <2>2. building[o] \in BOOLEAN
    OBVIOUS
  <2> QED BY <2>1, <2>2, EndsTransaction
<1>6. CASE Load(o)
  BY <1>6 DEF Load
<1>7. CASE \E s \in Slots, v \in Values : Update(o, s, v)
  BY <1>7 DEF Update
<1>8. CASE Insert(o)
  <2>1. \A p \in Others(o) : ~("share" \in locks[p])
    BY <1>8 DEF Insert, Blockers, Others
  <2>2. \A p \in Objects : locks'[p] = IF p = o THEN locks[p] \cup {"row"} ELSE locks[p]
    BY <1>8 DEF Insert
  <2>3. LocksExclude'
    BY <2>1, <2>2, TakeRow
  <2>4. Constructing' /\ IdleHoldsNothing'
    BY <1>8, <2>2 DEF Insert
  <2> QED BY <2>3, <2>4
<1>9. CASE CommitSave(o)
  <2>1. EndTransaction(o) /\ Go(o, "idle") /\ building' = building /\ ~building[o]
    BY <1>9 DEF CommitSave
  <2> QED BY <2>1, EndsTransaction
<1>10. CASE DeleteHits(o)
  <2>1. \A p \in Others(o) : ~("share" \in locks[p])
    BY <1>10 DEF DeleteHits, Blockers, Others
  <2>2. \A p \in Objects : locks'[p] = IF p = o THEN locks[p] \cup {"row"} ELSE locks[p]
    BY <1>10 DEF DeleteHits
  <2>3. LocksExclude'
    BY <2>1, <2>2, TakeRow
  <2>4. Constructing' /\ IdleHoldsNothing'
    BY <1>10, <2>2 DEF DeleteHits
  <2> QED BY <2>3, <2>4
<1>11. CASE CommitDelete(o)
  <2>1. EndTransaction(o) /\ Go(o, "idle") /\ building' = building /\ ~building[o]
    BY <1>11 DEF CommitDelete
  <2> QED BY <2>1, EndsTransaction
<1>12. CASE DeleteMisses(o)
  <2>1. \A p \in Others(o) : ~("share" \in locks[p])
    BY <1>12 DEF DeleteMisses, Blockers, Others
  <2>2. \A p \in Objects : locks'[p] = IF p = o THEN locks[p] \cup {"row"} ELSE locks[p]
    BY <1>12 DEF DeleteMisses
  <2>3. LocksExclude'
    BY <2>1, <2>2, TakeRow
  <2>4. Constructing' /\ IdleHoldsNothing'
    BY <1>12, <2>2 DEF DeleteMisses
  <2> QED BY <2>3, <2>4
<1>13. CASE Abort(o)
  <2> DEFINE place == IF building[o] THEN "off" ELSE "idle"
  <2>1. EndTransaction(o) /\ Go(o, place) /\ building' = [building EXCEPT ![o] = FALSE]
    BY <1>13 DEF Abort
  <2>2. building' \in [Objects -> BOOLEAN] /\ ~building'[o]
          /\ \A p \in Others(o) : building'[p] = building[p]
    BY <2>1 DEF Others
  <2>3. place \in Places /\ place # "load"
    OBVIOUS
  <2> HIDE DEF place, Go, EndTransaction, Places
  <2> QED BY <2>1, <2>2, <2>3, EndsTransaction
<1>14. CASE Kill(o)
  <2>1. EndTransaction(o) /\ Go(o, "off") /\ building' = [building EXCEPT ![o] = FALSE]
    BY <1>14 DEF Kill
  <2>2. building' \in [Objects -> BOOLEAN] /\ ~building'[o]
          /\ \A p \in Others(o) : building'[p] = building[p]
    BY <2>1 DEF Others
  <2>3. "off" \in Places
    OBVIOUS
  <2> HIDE DEF Go, EndTransaction, Places
  <2> QED BY <2>1, <2>2, <2>3, EndsTransaction
<1> QED BY <1>1, <1>2, <1>3, <1>4, <1>5, <1>6, <1>7, <1>8, <1>9, <1>10, <1>11, <1>12, <1>13, <1>14 DEF Working

\* Steps that leave the tries and the table alone keep what is said of them.
LEMMA SameTries ==
  ASSUME TriesWhole, RowsWhole, Covers, UNCHANGED <<table, trie, stale>>,
         \A o \in Objects : pc'[o] # "off" /\ ~building'[o] => pc[o] # "off" /\ ~building[o]
  PROVE  TriesWhole' /\ RowsWhole' /\ Covers'
BY DEF TriesWhole, RowsWhole, Covers, Whole

LEMMA TriesStep ==
  ASSUME TypeOK, Constructing, TriesWhole, RowsWhole, Covers, Next
  PROVE  TriesWhole' /\ RowsWhole' /\ Covers'
<1> PICK o \in Objects : \/ Construct(o) \/ BeginSave(o) \/ BeginDelete(o)
                         \/ \E s \in Slots, v \in Values : Update(o, s, v)
                         \/ Working(o) \/ Abort(o) \/ Kill(o)
  BY DEF Next
<1>t. Threads /\ trie \in [Objects -> Tries] /\ stale \in [Objects -> BOOLEAN]
        /\ table \subseteq TableRows /\ KeyOf \in [Objects -> Keys]
  BY KeyAssumption DEF TypeOK, Threads
<1>1. CASE Construct(o) \/ BeginSave(o) \/ BeginDelete(o)
  BY <1>1, <1>t, SameTries DEF Construct, BeginSave, BeginDelete, Threads
<1>2. CASE CreateIndex(o) \/ Insert(o)
  BY <1>2, <1>t, SameTries DEF CreateIndex, Insert, Threads
<1>3. CASE DeleteHits(o) \/ DeleteMisses(o)
  BY <1>3, <1>t, SameTries DEF DeleteHits, DeleteMisses, Threads
<1>4. CASE CommitIndex(o)
  BY <1>4, <1>t, SameTries DEF CommitIndex, Threads
<1>5. CASE Abort(o)
  <2>1. pc[o] # "off"
    BY <1>5 DEF Abort, Deadlocked, Waiting, Blockers
  <2>2. \A p \in Objects : IF p = o THEN pc'[p] = IF building[p] THEN "off" ELSE "idle"
                           ELSE pc'[p] = pc[p] /\ building'[p] = building[p]
    BY <1>5, <1>t DEF Abort, Threads
  <2>3. UNCHANGED <<table, trie, stale>>
    BY <1>5 DEF Abort
  <2> QED BY <2>1, <2>2, <2>3, SameTries
<1>6. CASE Kill(o)
  BY <1>6, <1>t, SameTries DEF Kill, Threads
<1>7. CASE Load(o)
  <2>1. /\ \A p \in Objects : p # o => /\ pc'[p] = pc[p] /\ building'[p] = building[p]
                                       /\ stale'[p] = stale[p] /\ trie'[p] = trie[p]
        /\ table' = table
    BY <1>7, <1>t DEF Load, Threads
  <2>2. \/ Rows(KeyOf[o]) = {} /\ trie'[o] = NewTrie
        \/ \E r \in Rows(KeyOf[o]) : trie'[o] = [nodes |-> r.nodes, root |-> Blank]
    BY <1>7, <1>t DEF Load
  <2>3. TriesWhole'
    <3>1. trie'[o].root = Blank
      <4>1. CASE trie'[o] = NewTrie
        BY <4>1 DEF NewTrie
      <4>2. CASE trie'[o] # NewTrie
        <5>1. PICK r \in Rows(KeyOf[o]) : trie'[o] = [nodes |-> r.nodes, root |-> Blank]
          BY <2>2, <4>2
        <5> QED BY <5>1
      <4> QED BY <4>1, <4>2
    <3> QED BY <2>1, <3>1 DEF TriesWhole, Whole
  <2>4. RowsWhole'
    BY <2>1 DEF RowsWhole, Whole
  <2>5. \A r \in table : r.key = KeyOf[o] => r.nodes \subseteq trie'[o].nodes
    <3>1. CASE Rows(KeyOf[o]) = {}
      BY <3>1 DEF Rows
    <3>2. CASE Rows(KeyOf[o]) # {}
      <4>1. PICK q \in Rows(KeyOf[o]) : trie'[o] = [nodes |-> q.nodes, root |-> Blank]
        BY <2>2, <3>2
      <4>2. \A r \in table : r.key = KeyOf[o] => r = q
        BY DEF Rows, RowsWhole
      <4> QED BY <4>1, <4>2
    <3> QED BY <3>1, <3>2
  <2>6. Covers'
    BY <2>1, <2>5 DEF Covers
  <2> QED BY <2>3, <2>4, <2>6
<1>8. ASSUME NEW s \in Slots, NEW v \in Values, Update(o, s, v)
      PROVE TriesWhole' /\ RowsWhole' /\ Covers'
  <2> DEFINE new == [trie[o].root EXCEPT ![s] = v]
  <2>1. /\ \A p \in Objects : p # o => trie'[p] = trie[p]
        /\ trie'[o] = [nodes |-> trie[o].nodes \cup {new}, root |-> new]
        /\ UNCHANGED <<table, pc, building, stale>>
    BY <1>8, <1>t DEF Update
  <2>2. TriesWhole'
    BY <2>1 DEF TriesWhole, Whole
  <2>3. RowsWhole' /\ Covers'
    BY <2>1 DEF RowsWhole, Covers, Whole
  <2> QED BY <2>2, <2>3
<1>9. CASE CommitSave(o)
  <2>1. /\ table' = (table \ Rows(KeyOf[o])) \cup {RowOf(o)}
        /\ trie' = trie /\ building' = building
        /\ \A p \in Objects : p # o => pc'[p] = pc[p]
        /\ \A p \in Objects : p # o /\ ~stale'[p] => ~stale[p] /\ KeyOf[p] # KeyOf[o]
    BY <1>9, <1>t DEF CommitSave, Threads
  <2>2. RowOf(o).key = KeyOf[o] /\ RowOf(o).nodes = trie[o].nodes /\ Whole(RowOf(o))
    BY <1>t DEF RowOf, TriesWhole, Whole
  <2>3. TriesWhole'
    BY <2>1 DEF TriesWhole, Whole
  <2>4. RowsWhole'
    BY <2>1, <2>2 DEF RowsWhole, Rows, Whole
  <2>5. \A p \in Objects, r \in table' : r.key = KeyOf[p] /\ KeyOf[p] # KeyOf[o] => r \in table
    BY <2>1, <2>2 DEF Rows
  <2>6. \A r \in table' : r.key = KeyOf[o] => r.nodes \subseteq trie[o].nodes
    BY <2>1, <2>2 DEF Rows
  <2>7. Covers'
    BY <2>1, <2>5, <2>6 DEF Covers
  <2> QED BY <2>3, <2>4, <2>7
<1>10. CASE CommitDelete(o)
  <2>1. /\ table' \subseteq table
        /\ trie' = trie /\ building' = building /\ stale' = stale
        /\ \A p \in Objects : pc'[p] # "off" => pc[p] # "off"
    BY <1>10, <1>t DEF CommitDelete, Threads, Rows
  <2> QED BY <2>1 DEF TriesWhole, RowsWhole, Covers, Whole
<1> QED BY <1>1, <1>2, <1>3, <1>4, <1>5, <1>6, <1>7, <1>8, <1>9, <1>10 DEF Working

\* The inductive invariant: what holds of the locks needs the places at which a
\* constructor can be, what holds of a row needs the trie it is taken from.
LEMMA Inductive == Spec => []IInv
<1>1. Init => IInv
  <2> SUFFICES ASSUME Init PROVE IInv
    OBVIOUS
  <2>1. TypeOK
    BY BlankType, BoundAssumption DEF Init, TypeOK
  <2>2. Constructing /\ IdleHoldsNothing /\ LocksExclude
    BY DEF Init, Constructing, IdleHoldsNothing, LocksExclude
  <2>3. TriesWhole /\ RowsWhole /\ Covers
    BY DEF Init, TriesWhole, RowsWhole, Covers, Whole, NewTrie
  <2> QED BY <2>1, <2>2, <2>3 DEF IInv
<1>2. IInv /\ [Next]_vars => IInv'
  <2> SUFFICES ASSUME IInv, [Next]_vars PROVE IInv'
    OBVIOUS
  <2>1. CASE Next
    <3>1. Threads
      BY DEF IInv, TypeOK, Threads
    <3> QED BY <2>1, <3>1, TypeStep, ThreadsStep, TriesStep DEF IInv
  <2>2. CASE UNCHANGED vars
    <3>1. TypeOK' /\ Constructing' /\ IdleHoldsNothing' /\ LocksExclude'
      BY <2>2 DEF IInv, vars, TypeOK, Constructing, IdleHoldsNothing, LocksExclude
    <3>2. TriesWhole' /\ RowsWhole' /\ Covers'
      BY <2>2 DEF IInv, vars, TriesWhole, RowsWhole, Covers, Whole
    <3> QED BY <3>1, <3>2 DEF IInv
  <2> QED BY <2>1, <2>2
<1> QED BY <1>1, <1>2, PTL DEF Spec

----------------------------------------------------------------------------
\* Tries, rows and threads are what they are taken for, whatever the steps of
\* the objects interleave to.
THEOREM TypeCorrect == Spec => []TypeOK
BY Inductive, PTL DEF IInv

\* One row for each key, with the nodes of its root, however many objects save
\* and delete it: the INSERT with ON CONFLICT of save_trie_to_database.
THEOREM RowsStayWhole == Spec => []RowsWhole
BY Inductive, PTL DEF IInv

\* Only a delete that missed leaves a lock behind at an object that does nothing.
THEOREM NothingHeldIdle == Spec => []IdleHoldsNothing
BY Inductive, PTL DEF IInv

\* A save loses nodes of the row only to an object that has not seen them.
THEOREM OnlyStaleSavesLose == Spec => LostOnlyWhenStale
<1>1. IInv /\ [Next]_vars =>
        [\A o \in Objects : pc[o] = "inserted" /\ pc'[o] = "idle" /\ ~stale[o] =>
           \A r \in Rows(KeyOf[o]), s \in table' : s.key = r.key => r.nodes \subseteq s.nodes]_vars
  <2> SUFFICES ASSUME IInv, Next,
                      NEW o \in Objects, pc[o] = "inserted", pc'[o] = "idle", ~stale[o],
                      NEW r \in Rows(KeyOf[o]), NEW s \in table', s.key = r.key
               PROVE  r.nodes \subseteq s.nodes
    BY DEF vars
  <2>1. pc \in [Objects -> Places]
    BY DEF IInv, TypeOK
  <2>2. ~Abort(o)
    BY DEF Abort, Deadlocked, Waiting, Blockers
  <2>3. CommitSave(o)
    <3>1. PICK p \in Objects : \/ Construct(p) \/ BeginSave(p) \/ BeginDelete(p)
                               \/ \E a \in Slots, v \in Values : Update(p, a, v)
                               \/ Working(p) \/ Abort(p) \/ Kill(p)
      BY DEF Next
    <3>2. p = o
      BY <2>1, <3>1 DEF Working, Construct, BeginSave, BeginDelete, Update, CreateIndex,
         CommitIndex, Load, Insert, CommitSave, DeleteHits, CommitDelete, DeleteMisses, Abort, Kill
    <3> QED BY <2>1, <2>2, <3>1, <3>2 DEF Working, Construct, BeginSave, BeginDelete, Update,
            CreateIndex, CommitIndex, Load, Insert, DeleteHits, CommitDelete, DeleteMisses, Kill
  <2>4. s.nodes = trie[o].nodes
    BY <2>3 DEF CommitSave, Rows, RowOf
  <2>5. r.nodes \subseteq trie[o].nodes
    BY DEF IInv, Covers, Constructing, Rows
  <2> QED BY <2>4, <2>5
<1> QED BY <1>1, Inductive, PTL DEF Spec, LostOnlyWhenStale

=============================================================================
