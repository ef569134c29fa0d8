-------------------------- MODULE KeyHarvestProofs ---------------------------
(* What the run of PagedReader and KeyHarvest checks but for its liveness,   *)
(* for every chain, every size of a page, any number of pages and without    *)
(* the bound on the starts of the service.  First the reader: rows are       *)
(* neither missed nor, in a settled range, counted twice, however much is    *)
(* written between two pages.                                                *)
EXTENDS KeyHarvest, FiniteSetTheorems, TLAPS

Rows == Matching(lo, hi)

\* What the table owes to its writer: nothing from outside the history, and below
\* a stored transaction nothing missing.
Mirrored == /\ \A h \in stored : mined[h] \in Deploy..head
            /\ \A g \in stored, h \in Hashes : mined[h] \in Deploy..mined[g] => h \in stored

\* The rows that match only become more, and not even that when the range has an
\* upper bound: it is a stored block.
Window == /\ seen \subseteq Rows /\ before \subseteq Rows
          /\ hi # 0 => /\ lo = Deploy /\ \E g \in stored : mined[g] = hi
                       /\ pc # "asking" => before = Rows

\* In a settled range every page counts its rows once.
Counted == hi # 0 => /\ total = AtMost(Offset, Cardinality(before))
                     /\ pc = "done" => Cardinality(before) <= Offset

\* Of the rows that were there when the read began, those that lie on the pages
\* read so far have been seen, as the pages are now.
Covered == Untied(Rows) =>
  \A T \in SUBSET Rows : Prefix(T, Rows) /\ Cardinality(T) <= Offset => T \cap before \subseteq seen

IInv == TypeOK /\ page >= 1 /\ Mirrored /\ Window /\ Counted /\ Covered /\ NothingMissed

----------------------------------------------------------------------------
(* Pages and prefixes of the sorted rows.                                   *)

\* The table is finite.
LEMMA FiniteRows ==
  ASSUME NEW S \in SUBSET Hashes
  PROVE  IsFiniteSet(S) /\ Cardinality(S) \in Nat
  BY FiniteTable, FS_Subset, FS_CardinalityType

\* Without ties one of two prefixes holds the other.
LEMMA PrefixesNested ==
  ASSUME TypeOK, NEW R \in SUBSET Hashes, Untied(R),
         NEW S \in SUBSET R, Prefix(S, R), NEW T \in SUBSET R, Prefix(T, R)
  PROVE  S \subseteq T \/ T \subseteq S
<1> SUFFICES ASSUME NEW g \in S \ T, NEW h \in T \ S PROVE FALSE
  OBVIOUS
<1>1. ~Precedes(g, h) /\ ~Precedes(h, g)
  BY DEF Prefix
<1>2. mined[g] \in Nat /\ mined[h] \in Nat /\ Index[g] \in Nat /\ Index[h] \in Nat
  BY PagedReaderAssumption, MaxBlockAssumption DEF TypeOK, ChainTypeOK, Blocks
<1>3. mined[g] = mined[h] /\ Index[g] = Index[h]
  BY <1>1, <1>2 DEF Precedes
<1> QED BY <1>3 DEF Untied

\* The smaller one is in the larger one.
LEMMA SmallerPrefix ==
  ASSUME TypeOK, NEW R \in SUBSET Hashes, Untied(R),
         NEW S \in SUBSET R, Prefix(S, R), NEW T \in SUBSET R, Prefix(T, R),
         Cardinality(S) <= Cardinality(T)
  PROVE  S \subseteq T
<1>1. CASE T \subseteq S
  <2>1. Cardinality(T) <= Cardinality(S) /\ (Cardinality(T) = Cardinality(S) => T = S)
    BY <1>1, FiniteRows, FS_Subset
  <2> QED BY <2>1, FiniteRows
<1> QED BY <1>1, PrefixesNested

\* The OFFSET of a page, and where the next one begins.
LEMMA OffsetType ==
  ASSUME TypeOK, page >= 1
  PROVE  Offset \in Nat /\ page * PageSize = Offset + PageSize
<1>1. PICK k \in Nat : page = k + 1
  <2>1. page - 1 \in Nat /\ page = (page - 1) + 1
    BY DEF TypeOK
  <2> QED BY <2>1
<1>2. PageSize \in Nat
  BY PagedReaderAssumption
<1>3. Offset = k * PageSize
  BY <1>1 DEF Offset
<1>4. k * PageSize \in Nat /\ (k + 1) * PageSize = k * PageSize + PageSize
  BY <1>2
<1> QED BY <1>1, <1>3, <1>4

\* What a page is: it moves the count of rows on by a page, or to the last row; it
\* is empty only when all rows are in front of it; and without ties the rows in
\* front of the next page are those in front of it and its own.
LEMMA PageTurn ==
  ASSUME TypeOK, page >= 1, NEW P \in SUBSET stored, IsPage(P)
  PROVE  /\ AtMost(Offset, Cardinality(Rows)) + Cardinality(P)
              = AtMost(Offset + PageSize, Cardinality(Rows))
         /\ P = {} => Cardinality(Rows) <= Offset
         /\ P \subseteq Rows
         /\ Untied(Rows) =>
              \A T \in SUBSET Rows : Prefix(T, Rows) /\ Cardinality(T) <= Offset + PageSize =>
                \E S \in SUBSET Rows : /\ Prefix(S, Rows) /\ Cardinality(S) <= Offset
                                       /\ T \subseteq S \cup P
<1> DEFINE N == Cardinality(Rows)
           skip == AtMost(Offset, N)
<1>1. /\ P \subseteq Rows
      /\ Cardinality(P) = AtMost(PageSize, N - skip)
      /\ \E S \in SUBSET (Rows \ P) : /\ Cardinality(S) = skip
                                      /\ Prefix(S, Rows) /\ Prefix(S \cup P, Rows)
  BY DEF IsPage, Rows
<1>2. Rows \subseteq Hashes
  BY DEF Rows, Matching, TypeOK
<1>3. N \in Nat /\ Offset \in Nat /\ PageSize \in Nat /\ PageSize > 0
  BY <1>2, FiniteRows, OffsetType, PagedReaderAssumption
<1>4. skip + Cardinality(P) = AtMost(Offset + PageSize, N)
  BY <1>1, <1>3 DEF AtMost
<1>5. ASSUME P = {} PROVE N <= Offset
  <2>1. Cardinality(P) = 0
    BY <1>5, FS_EmptySet
  <2> QED BY <1>1, <1>3, <2>1 DEF AtMost
<1>6. ASSUME Untied(Rows), NEW T \in SUBSET Rows, Prefix(T, Rows),
             Cardinality(T) <= Offset + PageSize
      PROVE  \E S \in SUBSET Rows : /\ Prefix(S, Rows) /\ Cardinality(S) <= Offset
                                    /\ T \subseteq S \cup P
  <2>1. PICK S \in SUBSET (Rows \ P) : /\ Cardinality(S) = skip
                                       /\ Prefix(S, Rows) /\ Prefix(S \cup P, Rows)
    BY <1>1
  <2>2. Cardinality(S) <= Offset
    BY <1>3, <2>1 DEF AtMost
  <2>3. Cardinality(S \cup P) = skip + Cardinality(P)
    <3>1. IsFiniteSet(S) /\ IsFiniteSet(P) /\ S \cap P = {}
      BY <1>1, <1>2, FiniteRows
    <3>2. Cardinality(S \cup P) = Cardinality(S) + Cardinality(P) - Cardinality(S \cap P)
      BY <3>1, FS_Union
    <3> QED BY <2>1, <3>1, <3>2, FS_EmptySet, <1>1, <1>2, FiniteRows
  <2>4. Cardinality(T) <= N /\ Cardinality(T) \in Nat
    BY <1>2, FiniteRows, FS_Subset
  <2>5. Cardinality(T) <= Cardinality(S \cup P)
    BY <1>3, <1>4, <1>6, <2>3, <2>4 DEF AtMost
  <2>6. T \subseteq S \cup P
    BY <1>1, <1>2, <1>6, <2>1, <2>5, SmallerPrefix
  <2> QED BY <2>1, <2>2, <2>6
<1> QED BY <1>1, <1>4, <1>5, <1>6

----------------------------------------------------------------------------
(* One lemma per action.                                                    *)

\* A read that ends without an answer leaves the rest as it was.
LEMMA BreakOff ==
  ASSUME IInv, Stop \/ ReadFails
  PROVE  IInv'
<1>1. /\ pc = "reading" /\ pc' \in {"stopped", "failed"}
      /\ UNCHANGED <<head, mined, stored, lo, hi, page, seen, total, before>>
  BY DEF Stop, ReadFails
<1> QED BY <1>1 DEF IInv, TypeOK, ChainTypeOK, Mirrored, Window, Counted, Covered, NothingMissed,
                    Rows, Matching, Offset, Untied, Prefix, Precedes

\* The latest block is looked up, or the service is killed: no rows are asked for.
LEMMA NoReadStep ==
  ASSUME IInv, UNCHANGED <<head, mined, stored>>, pc' \in {"idle", "asking"}, lo' \in Blocks,
         hi' \in Blocks, page' = 1, seen' = {}, total' = 0, before' = {},
         hi' # 0 => pc' = "asking" /\ lo' = Deploy /\ \E g \in stored : mined[g] = hi'
  PROVE  IInv'
<1> USE DEF IInv
<1>1. TypeOK'
  BY DEF TypeOK, ChainTypeOK
<1>2. Offset' = 0 /\ (\A T \in SUBSET Rows' : T \cap before' \subseteq seen')
  BY PagedReaderAssumption DEF Offset
<1>3. Counted' /\ Covered'
  BY <1>1, <1>2, FiniteRows, FS_EmptySet DEF Counted, Covered, AtMost, TypeOK
<1>4. Mirrored' /\ Window' /\ NothingMissed'
  BY DEF Mirrored, Window, NothingMissed
<1> QED BY <1>1, <1>3, <1>4

\* A read begins.
LEMMA BeginStep ==
  ASSUME IInv, NEW a \in Blocks, NEW b \in Blocks, Begin(a, b),
         b # 0 => a = Deploy /\ \E g \in stored : mined[g] = b
  PROVE  IInv'
<1> USE DEF IInv
<1>1. /\ UNCHANGED <<head, mined, stored>> /\ pc' = "reading" /\ lo' = a /\ hi' = b /\ page' = 1
      /\ seen' = {} /\ total' = 0 /\ before' = Matching(a, b)
  BY DEF Begin
<1>2. Rows' = before' /\ before' \subseteq Hashes
  BY <1>1 DEF Rows, Matching, TypeOK
<1>3. TypeOK' /\ page' >= 1
  BY <1>1, <1>2 DEF TypeOK, ChainTypeOK
<1>4. Mirrored' /\ Window' /\ NothingMissed'
  BY <1>1, <1>2 DEF Mirrored, Window, NothingMissed
<1>5. Offset' = 0
  BY <1>1, PagedReaderAssumption DEF Offset
<1>6. Counted'
  BY <1>1, <1>2, <1>5, FiniteRows DEF Counted, AtMost
<1>7. Covered'
  <2>1. \A T \in SUBSET Hashes : Cardinality(T) <= 0 => T = {}
    BY FiniteRows, FS_EmptySet
  <2> QED BY <1>2, <1>5, <2>1 DEF Covered
<1> QED BY <1>3, <1>4, <1>6, <1>7

\* A page is read; it may repeat rows that were pushed behind the last one.
LEMMA ReadPageStep ==
  ASSUME IInv, ReadPage
  PROVE  IInv'
<1> USE DEF IInv
<1>1. PICK P \in SUBSET stored :
        /\ IsPage(P)
        /\ IF P = {}
           THEN pc' = "done" /\ UNCHANGED <<page, seen, total>>
           ELSE /\ seen' = seen \cup P
                /\ total' = total + Cardinality(P)
                /\ page' = page + 1
                /\ UNCHANGED pc
  BY DEF ReadPage
<1>2. pc = "reading" /\ UNCHANGED <<head, mined, stored, lo, hi, before>>
  BY DEF ReadPage
<1>3. /\ Rows' = Rows /\ (Untied(Rows)' <=> Untied(Rows))
      /\ \A T \in SUBSET Rows : Prefix(T, Rows)' <=> Prefix(T, Rows)
  BY <1>2 DEF Rows, Matching, Untied, Prefix, Precedes
<1>4. /\ Rows \subseteq Hashes /\ before \subseteq Rows /\ seen \subseteq Rows
      /\ Offset \in Nat /\ PageSize \in Nat /\ Cardinality(Rows) \in Nat
  <2>1. Rows \subseteq Hashes
    BY DEF TypeOK, Rows, Matching
  <2> QED BY <2>1, OffsetType, FiniteRows, PagedReaderAssumption DEF Window
<1>5. CASE P = {}
  <2>1. TypeOK' /\ page' >= 1 /\ Mirrored' /\ Window'
    BY <1>1, <1>2, <1>3, <1>5 DEF TypeOK, ChainTypeOK, Mirrored, Window
  <2>2. Cardinality(Rows) <= Offset /\ Offset' = Offset
    BY <1>1, <1>5, PageTurn DEF Offset
  <2>3. Counted'
    BY <1>1, <1>2, <1>3, <1>5, <2>2 DEF Counted, Window
  <2>4. Covered'
    BY <1>1, <1>2, <1>3, <1>5, <2>2 DEF Covered
  <2>5. NothingMissed'
    <3>1. Prefix(Rows, Rows)
      BY DEF Prefix
    <3>2. Untied(Rows) => before \subseteq seen
      BY <1>4, <2>2, <3>1 DEF Covered
    <3> QED BY <1>1, <1>2, <1>3, <1>5, <3>2 DEF NothingMissed, Rows
  <2> QED BY <2>1, <2>3, <2>4, <2>5
<1>6. CASE P # {}
  <2>1. /\ P \subseteq Rows /\ P \in SUBSET Hashes
        /\ AtMost(Offset, Cardinality(Rows)) + Cardinality(P)
             = AtMost(Offset + PageSize, Cardinality(Rows))
    BY <1>1, <1>4, PageTurn
  <2>2. TypeOK' /\ page' >= 1 /\ Mirrored' /\ Window'
    <3>1. page' \in Nat /\ page' >= 1 /\ total' \in Nat
      BY <1>1, <1>6, <2>1, FiniteRows DEF TypeOK
    <3> QED BY <1>1, <1>2, <1>3, <1>4, <1>6, <2>1, <3>1 DEF TypeOK, ChainTypeOK, Mirrored, Window
  <2>3. Offset' = Offset + PageSize
    <3>1. page' - 1 = page
      BY <1>1, <1>6 DEF TypeOK
    <3> QED BY <3>1, OffsetType DEF Offset
  <2>4. Counted'
    BY <1>1, <1>2, <1>6, <2>1, <2>3 DEF Counted, Window
  <2>5. Covered'
    <3> SUFFICES ASSUME Untied(Rows), NEW T \in SUBSET Rows, Prefix(T, Rows),
                        Cardinality(T) <= Offset + PageSize
                 PROVE  T \cap before \subseteq seen \cup P
      BY <1>1, <1>2, <1>3, <1>6, <2>3 DEF Covered
    <3>1. PICK S \in SUBSET Rows : Prefix(S, Rows) /\ Cardinality(S) <= Offset /\ T \subseteq S \cup P
      BY <1>1, PageTurn
    <3>2. S \cap before \subseteq seen
      BY <3>1 DEF Covered
    <3> QED BY <3>1, <3>2
  <2>6. NothingMissed'
    BY <1>1, <1>2, <1>6 DEF NothingMissed
  <2> QED BY <2>2, <2>4, <2>5, <2>6
<1> QED BY <1>5, <1>6

\* A block is mined: nothing of what is stored is in it.
LEMMA MineStep ==
  ASSUME IInv, Writer!Mine, UNCHANGED stored, UNCHANGED readerVars
  PROVE  IInv'
<1> USE DEF IInv
<1>1. UNCHANGED <<stored, pc, lo, hi, page, seen, total, before>>
  BY DEF readerVars
<1>2. /\ head \in Nat /\ head < MaxBlock /\ head' = head + 1 /\ mined' \in [Hashes -> Blocks]
      /\ \A h \in Hashes : mined'[h] = mined[h] \/ (mined[h] = 0 /\ mined'[h] = head + 1)
  BY MaxBlockAssumption, DeployAssumption DEF Writer!Mine, TypeOK, ChainTypeOK, Blocks
<1>3. \A h \in stored : mined'[h] = mined[h]
  BY <1>2, DeployAssumption DEF Mirrored, TypeOK
<1>4. TypeOK' /\ page' >= 1
  BY <1>1, <1>2, MaxBlockAssumption, DeployAssumption DEF TypeOK, ChainTypeOK
<1>5. Mirrored'
  <2>1. \A h \in stored : mined'[h] \in Deploy..head' /\ mined[h] <= head
    BY <1>2, <1>3, DeployAssumption DEF Mirrored
  <2> SUFFICES ASSUME NEW g \in stored, NEW h \in Hashes, mined'[h] \in Deploy..mined'[g]
               PROVE  h \in stored
    BY <1>1, <2>1 DEF Mirrored
  <2>2. mined'[h] <= head
    BY <1>2, <1>3, <2>1, DeployAssumption DEF TypeOK, ChainTypeOK, Blocks
  <2>3. mined'[h] = mined[h] /\ mined'[g] = mined[g]
    BY <1>2, <1>3, <2>2
  <2> QED BY <2>3 DEF Mirrored
<1>6. /\ Rows' = Rows /\ (Untied(Rows)' <=> Untied(Rows))
      /\ \A T \in SUBSET Rows : Prefix(T, Rows)' <=> Prefix(T, Rows)
  <2>1. Rows' = Rows /\ Rows \subseteq stored
    BY <1>1, <1>3 DEF Rows, Matching
  <2> QED BY <1>3, <2>1 DEF Untied, Prefix, Precedes
<1>7. Window' /\ Counted' /\ Covered' /\ NothingMissed'
  BY <1>1, <1>3, <1>6 DEF Window, Counted, Covered, NothingMissed, Rows, Offset
<1> QED BY <1>4, <1>5, <1>7

\* The table grows: the pages of the rows that were there only move back.
LEMMA ExtendStep ==
  ASSUME IInv, Writer!Extend, UNCHANGED readerVars
  PROVE  IInv'
<1> USE DEF IInv
<1>1. UNCHANGED <<head, mined, pc, lo, hi, page, seen, total, before>>
  BY DEF readerVars, Writer!Extend, Writer!chainVars
<1>2. PICK t \in Blocks : /\ t <= head /\ stored \subseteq stored'
                          /\ stored' = {h \in Hashes : mined[h] >= Deploy /\ mined[h] <= t}
  BY DEF Writer!Extend, Writer!History, Writer!MinedIn, Writer!Blocks, Blocks
<1>3. \A h \in Hashes : mined[h] \in Nat
  BY MaxBlockAssumption DEF TypeOK, ChainTypeOK, Blocks
<1>4. TypeOK' /\ page' >= 1
  BY <1>1, <1>2 DEF TypeOK, ChainTypeOK
<1>5. Mirrored'
  BY <1>1, <1>2, <1>3, DeployAssumption, MaxBlockAssumption DEF Mirrored, TypeOK, ChainTypeOK, Blocks
<1>6. Rows \subseteq Rows' /\ Rows' \subseteq Hashes
  BY <1>1, <1>2 DEF Rows, Matching
<1>7. ASSUME hi # 0 PROVE Rows' = Rows
  <2>1. PICK g \in stored : mined[g] = hi /\ lo = Deploy
    BY <1>7 DEF Window
  <2>2. \A h \in Rows' : h \in stored
    BY <1>1, <1>2, <1>3, <1>7, <2>1, DeployAssumption DEF Rows, Matching, Mirrored, TypeOK
  <2> QED BY <1>1, <1>2, <1>6, <2>2 DEF Rows, Matching
<1>8. Window' /\ Counted'
  BY <1>1, <1>2, <1>6, <1>7 DEF Window, Counted, Offset
<1>9. Untied(Rows)' => Untied(Rows)
  BY <1>1, <1>6 DEF Untied
<1>10. Covered'
  <2> SUFFICES ASSUME Untied(Rows)', NEW T \in SUBSET Rows', Prefix(T, Rows)',
                      Cardinality(T) <= Offset
               PROVE  T \cap before \subseteq seen
    BY <1>1 DEF Covered, Offset
  <2> DEFINE U == T \cap Rows
  <2>1. Prefix(U, Rows)
    BY <1>1, <1>6 DEF Prefix, Precedes
  <2>2. Cardinality(U) <= Offset
    <3>1. /\ Cardinality(U) <= Cardinality(T) /\ Cardinality(U) \in Nat /\ Cardinality(T) \in Nat
          /\ Offset \in Nat
      BY <1>6, FiniteRows, FS_Subset, OffsetType
    <3> QED BY <3>1
  <2>3. U \cap before \subseteq seen
    BY <1>9, <2>1, <2>2 DEF Covered
  <2> QED BY <2>3 DEF Window
<1>11. NothingMissed'
  BY <1>1, <1>9 DEF NothingMissed, Rows
<1> QED BY <1>4, <1>5, <1>8, <1>10, <1>11

\* The transaction service writes, or the chain grows.
LEMMA WriteStep == IInv /\ Write => IInv'
  BY MineStep, ExtendStep DEF Write, Writer!Next

\* The latest stored block becomes the bound of a harvest.
LEMMA LookUpStep == IInv /\ LookUpLatest => IInv'
<1> SUFFICES ASSUME IInv, NEW b \in Blocks,
                    IF stored = {} THEN b = 0 ELSE \E h \in stored : mined[h] = b,
                    Ask(b)
             PROVE  IInv'
  BY DEF LookUpLatest
<1>1. Deploy \in Blocks
  BY DeployAssumption, MaxBlockAssumption DEF Blocks
<1> QED BY <1>1, NoReadStep DEF Ask

\* The harvest begins; the table may have grown since its bound was looked up.
LEMMA HarvestBegins == IInv /\ BeginHarvest => IInv'
<1>1. Deploy \in Blocks
  BY DeployAssumption, MaxBlockAssumption DEF Blocks
<1> QED BY <1>1, BeginStep DEF BeginHarvest, IInv, Window, TypeOK

\* Every step.
LEMMA InductiveStep == IInv /\ [Next]_vars => IInv'
<1> SUFFICES ASSUME IInv, [Next]_vars PROVE IInv'
  OBVIOUS
<1>1. CASE BeginAll
  <2>1. 0 \in Blocks
    BY MaxBlockAssumption DEF Blocks
  <2> QED BY <1>1, <2>1, BeginStep DEF BeginAll
<1>2. CASE Stop \/ ReadFails
  BY <1>2, BreakOff
<1>3. CASE UNCHANGED vars
  BY <1>3 DEF vars, IInv, TypeOK, ChainTypeOK, Mirrored, Window, Counted, Covered, NothingMissed, Rows,
              Matching, Offset, Untied, Prefix, Precedes
<1> QED BY <1>1, <1>2, <1>3, LookUpStep, HarvestBegins, ReadPageStep, WriteStep DEF Next

\* No read yet.
LEMMA InitInductive == Init => IInv
<1> SUFFICES ASSUME Init PROVE IInv
  OBVIOUS
<1>1. /\ stored = {} /\ pc = "idle" /\ lo = 0 /\ hi = 0 /\ page = 1
      /\ seen = {} /\ total = 0 /\ before = {} /\ Rows = {}
  BY DEF Init, Writer!Init, Rows, Matching
<1>2. TypeOK
  <2>1. head \in Deploy..MaxBlock /\ mined \in [Hashes -> 0..head]
    BY DEF Init, Writer!Init, Writer!ChainInit
  <2> QED BY <1>1, <2>1, DeployAssumption, MaxBlockAssumption DEF TypeOK, ChainTypeOK, Blocks
<1> QED BY <1>1, <1>2 DEF IInv, Mirrored, Window, Counted, Covered, NothingMissed

----------------------------------------------------------------------------
\* IInv holds of every execution.
THEOREM Inductive == Spec => []IInv
  BY InitInductive, InductiveStep, PTL DEF Spec

\* In a settled range nothing but the rows that were there can be seen or counted.
LEMMA SettledByInvariant == IInv => SettledExact
<1> SUFFICES ASSUME IInv, pc = "done", hi # 0
             PROVE  total = Cardinality(before) /\ (Untied(before) => seen = before)
  BY DEF SettledExact
<1> USE DEF IInv
<1>1. before = Rows /\ seen \subseteq before /\ before \subseteq Hashes
  BY DEF Window, TypeOK
<1>2. total = Cardinality(before)
  <2>1. Cardinality(before) \in Nat /\ Offset \in Nat
    BY <1>1, FiniteRows, OffsetType
  <2> QED BY <2>1 DEF Counted, AtMost
<1> QED BY <1>1, <1>2 DEF NothingMissed, Rows

\* Every variable keeps its type.
THEOREM TypeCorrect == Spec => []TypeOK
<1>1. IInv => TypeOK
  BY DEF IInv
<1> QED BY <1>1, Inductive, PTL

\* Reading a settled range yields its rows, as many as are counted, once each when
\* none tie, whatever is written between two pages.
THEOREM SettledReadExact == Spec => []SettledExact
  BY SettledByInvariant, Inductive, PTL

\* No read to the end misses a row that was there when it began: what is written
\* moves rows to later pages, never to earlier ones.
THEOREM NoRowMissed == Spec => []NothingMissed
<1>1. IInv => NothingMissed
  BY DEF IInv
<1> QED BY <1>1, Inductive, PTL

----------------------------------------------------------------------------
(* The storage service on top of it.                                        *)

\* The keys are all those of the rows of the harvest, and of stored rows only.
Complete(keys, harvested) == /\ harvested \cap Succeeded \subseteq keys
                             /\ keys \subseteq stored \cap Succeeded

\* Both pieces of the file are of one writer.
Whole == file["head"].by = file["tail"].by /\ file["head"].by # "none"

\* The keys of its own contract that the service holds are complete, and so are
\* those of a file that one service wrote, and what a dump wrote and has left.
FactGood == whose = "self" => Complete(fact, asOf)
FileGood == Whole /\ file["head"].whose = "self" => Complete(FileKeys, file["head"].asOf)
LeftGood(w) ==
  writer[w].whose = "self" =>
    /\ writer[w].at = "head" => Complete(writer[w].left, writer[w].asOf)
    /\ writer[w].at = "tail" /\ file["head"].by = w =>
         Complete(file["head"].keys \cup writer[w].left, writer[w].asOf)

KeysGood == Untied(stored) => FactGood /\ FileGood /\ \A w \in Writers : LeftGood(w)

\* Opening truncates: what a dump has still to write is nowhere in the file, and
\* the piece it has written is its own.
Placed(w) == /\ writer[w].at = "head" => \A p \in Parts : file[p].by # w
             /\ writer[w].at = "tail" =>
                  /\ file["tail"].by # w
                  /\ file["head"].by = w => /\ file["head"].whose = writer[w].whose
                                            /\ file["head"].asOf = writer[w].asOf

PiecesPlaced == \A w \in Writers : Placed(w)

\* What is exported are keys of the service's own contract.
ExportsOwn == svc = "open" => whose = "self"

HarvestIInv == IInv /\ HarvestTypeOK /\ KeysGood /\ PiecesPlaced /\ ExportsOwn

----------------------------------------------------------------------------
\* Fewer rows do not tie when more do not.
LEMMA UntiedSubset ==
  ASSUME NEW S, NEW R \in SUBSET S, Untied(S)
  PROVE  Untied(R)
  BY DEF Untied

\* The table and the chain move on under the service.
LEMMA TableMoves ==
  ASSUME HarvestIInv, Next \/ UNCHANGED vars, UNCHANGED harvestVars
  PROVE  HarvestIInv'
<1> USE DEF HarvestIInv
<1>1. UNCHANGED <<svc, fact, asOf, whose, file, writer, starts>>
  BY DEF harvestVars
<1>2. stored \subseteq stored' /\ \A h \in stored : mined'[h] = mined[h]
  <2>1. CASE Write
    <3>1. CASE Writer!Mine
      <4>1. \A h \in stored : h \in Hashes /\ mined[h] # 0
        BY DeployAssumption DEF IInv, TypeOK, Mirrored
      <4> QED BY <2>1, <3>1, <4>1 DEF Write, Writer!Next, Writer!Mine, Writer!Extend
    <3>2. CASE Writer!Extend
      BY <3>2 DEF Writer!Extend, Writer!chainVars
    <3> QED BY <2>1, <3>1, <3>2 DEF Write, Writer!Next
  <2>2. CASE UNCHANGED <<head, mined, stored>>
    BY <2>2
  <2>3. Write \/ UNCHANGED <<head, mined, stored>>
    BY DEF Next, LookUpLatest, Ask, BeginHarvest, BeginAll, Begin, Stop, ReadPage, ReadFails, vars
  <2> QED BY <2>1, <2>2, <2>3
<1>3. IInv'
  BY InductiveStep
<1>4. Untied(stored)' => Untied(stored)
  BY <1>2 DEF Untied
<1>5. \A k, a : Complete(k, a) => Complete(k, a)'
  BY <1>2 DEF Complete
<1>6. KeysGood'
  <2> SUFFICES ASSUME Untied(stored)'
               PROVE  FactGood' /\ FileGood' /\ \A w \in Writers : LeftGood(w)'
    BY <1>1 DEF KeysGood
  <2>1. FactGood /\ FileGood /\ \A w \in Writers : LeftGood(w)
    BY <1>4 DEF KeysGood
  <2>2. FactGood'
    BY <1>1, <1>5, <2>1 DEF FactGood
  <2>3. FileGood'
    BY <1>1, <1>2, <2>1 DEF FileGood, FileKeys, Whole, Complete
  <2>4. \A w \in Writers : LeftGood(w)'
    BY <1>1, <1>2, <2>1 DEF LeftGood, Complete
  <2> QED BY <2>2, <2>3, <2>4
<1>7. PiecesPlaced' /\ ExportsOwn'
  BY <1>1 DEF PiecesPlaced, Placed, ExportsOwn
<1>8. HarvestTypeOK'
  BY <1>1, <1>3 DEF HarvestTypeOK, IInv
<1> QED BY <1>3, <1>6, <1>7, <1>8

\* The reader is gone.
LEMMA ReadOverStep == IInv /\ ReadOver => IInv'
<1>1. 0 \in Blocks
  BY MaxBlockAssumption DEF Blocks
<1> QED BY <1>1, NoReadStep DEF ReadOver

\* What one writer leaves of the file: its piece or nothing in its place, and the
\* other piece as it was, or nothing.
LEMMA PieceWritten ==
  ASSUME HarvestTypeOK, NEW w \in Writers, NEW p \in Parts, NEW K \in SUBSET Hashes,
         NEW f \in Outcomes(w, p, K)
  PROVE  /\ f \in [Parts -> Pieces]
         /\ \/ f[p] = NoPiece
            \/ f[p] = [by |-> w, whose |-> writer[w].whose, keys |-> K, asOf |-> writer[w].asOf]
         /\ \A q \in Parts \ {p} : f[q] = file[q] \/ f[q] = NoPiece
<1> DEFINE piece == [by |-> w, whose |-> writer[w].whose, keys |-> K, asOf |-> writer[w].asOf]
<1>1. piece \in Pieces /\ NoPiece \in Pieces /\ file \in [Parts -> Pieces]
  BY DEF HarvestTypeOK, Dumps, Pieces, NoPiece
<1>2. \/ f = [file EXCEPT ![p] = piece]
      \/ f = [file EXCEPT ![p] = NoPiece]
      \/ f = [[q \in Parts |-> NoPiece] EXCEPT ![p] = piece]
  BY DEF Outcomes, Empty
<1> QED BY <1>1, <1>2

\* A step of the service before it exports.
LEMMA ServiceMoves ==
  ASSUME HarvestIInv, Harvested \/ (UNCHANGED vars /\ (Start \/ Import \/ OpenFails \/ Exported))
  PROVE  HarvestIInv'
<1> USE DEF HarvestIInv
<1>1. IInv' /\ TypeOK'
  BY InductiveStep, ReadOverStep DEF IInv, Harvested
<1>2. UNCHANGED <<stored, mined>> /\ (Untied(stored)' <=> Untied(stored))
  BY DEF vars, Untied, Harvested, ReadOver
<1>3. UNCHANGED <<file, writer>>
  BY DEF Start, Import, Harvested, OpenFails, Exported
<1>4. /\ PiecesPlaced' /\ (\A w \in Writers : LeftGood(w)' <=> LeftGood(w))
      /\ (FileGood' <=> FileGood)
  BY <1>2, <1>3 DEF PiecesPlaced, Placed, LeftGood, FileGood, FileKeys, Whole, Complete
<1> SUFFICES HarvestTypeOK' /\ ExportsOwn' /\ (Untied(stored) => FactGood')
  BY <1>1, <1>2, <1>4 DEF KeysGood
<1>5. /\ fact \subseteq Hashes /\ asOf \subseteq Hashes /\ whose \in {"self", "other", "mixed"}
      /\ file \in [Parts -> Pieces] /\ writer \in [Writers -> Dumps] /\ starts \in 0..MaxStarts
  BY DEF HarvestTypeOK
<1>6. CASE Start
  <2>1. starts' \in 0..MaxStarts
    BY <1>6, HarvestAssumption DEF Start, HarvestTypeOK
  <2> QED BY <1>1, <1>2, <1>3, <1>5, <1>6, <2>1
          DEF Start, HarvestTypeOK, KeysGood, FactGood, ExportsOwn, Complete
<1>7. CASE Import
  <2>1. /\ fact' = FileKeys /\ asOf' = file["head"].asOf /\ whose' = FileWhose
        /\ svc' = "serving" /\ UNCHANGED starts
    BY <1>7 DEF Import
  <2>2. /\ FileKeys \subseteq Hashes /\ file["head"].asOf \subseteq Hashes
        /\ FileWhose \in {"self", "other", "mixed"}
    BY <1>5 DEF FileKeys, FileWhose, Pieces, Parts
  <2>3. FileWhose = "self" => Whole /\ file["head"].whose = "self"
    BY <1>7 DEF FileWhose, Whole, Import, Importable, Parts
  <2>4. Untied(stored) => FactGood'
    BY <1>2, <2>1, <2>3 DEF KeysGood, FileGood, FactGood, Complete
  <2> QED BY <1>1, <1>3, <1>5, <2>1, <2>2, <2>4 DEF HarvestTypeOK, ExportsOwn
<1>8. CASE Harvested
  <2>1. /\ pc = "done" /\ fact' = seen \cap Succeeded /\ asOf' = before /\ whose' = "self"
        /\ svc' = "open" /\ UNCHANGED starts
    BY <1>8 DEF Harvested
  <2>2. Rows \subseteq stored /\ seen \subseteq Rows /\ seen \subseteq Hashes /\ before \subseteq Hashes
    BY DEF IInv, Window, TypeOK, Rows, Matching
  <2>3. Untied(stored) => before \subseteq seen
    BY <2>1, <2>2, UntiedSubset DEF IInv, NothingMissed, Rows
  <2> QED BY <1>1, <1>2, <1>3, <1>5, <2>1, <2>2, <2>3 DEF HarvestTypeOK, FactGood, ExportsOwn, Complete
<1>9. CASE OpenFails \/ Exported
  BY <1>1, <1>2, <1>3, <1>5, <1>9
  DEF OpenFails, Exported, HarvestTypeOK, KeysGood, FactGood, ExportsOwn, Complete
<1> QED BY <1>6, <1>7, <1>8, <1>9

\* The service or its rival opens the file, and holds complete keys if they are of
\* the contract.
LEMMA Opens ==
  ASSUME HarvestIInv, UNCHANGED <<vars, fact, asOf, whose, starts>>, OpenFile \/ RivalOpens
  PROVE  HarvestIInv'
<1> USE DEF HarvestIInv
<1>1. IInv' /\ TypeOK'
  BY InductiveStep DEF IInv
<1>2. UNCHANGED <<stored, mined>> /\ (Untied(stored)' <=> Untied(stored)) /\ stored \subseteq Hashes
  BY DEF vars, Untied, IInv, TypeOK
<1>3. \A p \in Parts : file'[p] = NoPiece
  BY DEF OpenFile, RivalOpens, Empty
<1>4. PICK w \in Writers, d \in Dumps :
        /\ writer' = [writer EXCEPT ![w] = d] /\ d.at = "head"
        /\ Untied(stored) /\ d.whose = "self" => Complete(d.left, d.asOf)
  <2>1. CASE OpenFile
    <3> DEFINE d == [at |-> "head", whose |-> "self", left |-> fact, asOf |-> asOf]
    <3>1. d \in Dumps /\ d.at = "head" /\ (Untied(stored) => Complete(d.left, d.asOf))
      BY <2>1 DEF OpenFile, ExportsOwn, KeysGood, FactGood, HarvestTypeOK, Dumps, Parts
    <3> QED BY <2>1, <3>1 DEF OpenFile, Writers
  <2>2. CASE RivalOpens
    <3> DEFINE d == [at |-> "head", whose |-> "self", left |-> stored \cap Succeeded,
                     asOf |-> stored]
               e == [at |-> "head", whose |-> "other", left |-> {}, asOf |-> {}]
    <3>1. d \in Dumps /\ d.at = "head" /\ Complete(d.left, d.asOf)
      BY <1>2 DEF Dumps, Parts, Complete
    <3>2. e \in Dumps /\ e.at = "head" /\ e.whose # "self"
      BY DEF Dumps, Parts
    <3> QED BY <2>2, <3>1, <3>2 DEF RivalOpens, Writers
  <2> QED BY <2>1, <2>2
<1>5. writer \in [Writers -> Dumps] /\ svc' \in {svc, "dump"} /\ file' = Empty
  BY DEF HarvestTypeOK, OpenFile, RivalOpens
<1>6. HarvestTypeOK'
  <2>1. NoPiece \in Pieces
    BY DEF NoPiece, Pieces
  <2> QED BY <1>1, <1>4, <1>5, <2>1 DEF HarvestTypeOK, Empty
<1>7. \A v \in Writers, p \in Parts : file'[p].by # v
  BY <1>3 DEF NoPiece, Writers
<1>8. PiecesPlaced' /\ FileGood' /\ ExportsOwn'
  <2>1. "head" \in Parts /\ "tail" \in Parts /\ file'["head"].by = "none"
    BY <1>3 DEF Parts, NoPiece
  <2> QED BY <1>5, <1>7, <2>1 DEF PiecesPlaced, Placed, FileGood, Whole, ExportsOwn
<1>9. KeysGood'
  <2> SUFFICES ASSUME Untied(stored), NEW v \in Writers PROVE LeftGood(v)'
    BY <1>2, <1>8 DEF KeysGood, FactGood, Complete
  <2>1. file'["head"].by # v
    BY <1>7 DEF Parts
  <2>2. v # w => writer'[v] = writer[v]
    BY <1>4, <1>5
  <2>3. v = w => writer'[v] = d
    BY <1>4, <1>5
  <2> QED BY <1>2, <1>4, <2>1, <2>2, <2>3 DEF KeysGood, LeftGood, Complete
<1> QED BY <1>1, <1>6, <1>8, <1>9

\* A piece of the file is written, by the service or by its rival.
LEMMA HeadStep ==
  ASSUME HarvestIInv, NEW w \in Writers, WriteHead(w)
  PROVE  HarvestIInv'
<1> USE DEF HarvestIInv
<1>1. PICK K \in SUBSET (writer[w].left \ BytesHashes) :
        /\ file' \in Outcomes(w, "head", K)
        /\ writer' = [writer EXCEPT ![w].at = "tail", ![w].left = @ \ K]
  BY DEF WriteHead
<1>2. writer[w].at = "head" /\ UNCHANGED <<vars, svc, fact, asOf, whose, starts>>
  BY DEF WriteHead
<1>3. writer \in [Writers -> Dumps] /\ "head" \in Parts /\ "tail" \in Parts /\ K \in SUBSET Hashes
  BY DEF HarvestTypeOK, Dumps, Parts
<1>4. /\ file' \in [Parts -> Pieces]
      /\ \/ file'["head"] = NoPiece
         \/ file'["head"] = [by |-> w, whose |-> writer[w].whose, keys |-> K, asOf |-> writer[w].asOf]
      /\ file'["tail"] = file["tail"] \/ file'["tail"] = NoPiece
  BY <1>1, <1>3, PieceWritten
<1>5. /\ writer'[w] = [writer[w] EXCEPT !.at = "tail", !.left = @ \ K]
      /\ \A v \in Writers : v # w => writer'[v] = writer[v]
      /\ writer' \in [Writers -> Dumps]
  BY <1>1, <1>3 DEF Dumps
<1>6. IInv' /\ TypeOK' /\ UNCHANGED <<stored, mined>>
  BY <1>2, InductiveStep DEF IInv, vars
<1>7. HarvestTypeOK' /\ ExportsOwn'
  BY <1>2, <1>4, <1>5, <1>6 DEF HarvestTypeOK, ExportsOwn
<1>8. file["tail"].by # w /\ "none" # w /\ NoPiece.by = "none" /\ w \notin {"none"}
  BY <1>2, <1>3 DEF PiecesPlaced, Placed, Writers, NoPiece
<1>9. PiecesPlaced'
  <2> SUFFICES ASSUME NEW v \in Writers PROVE Placed(v)'
    BY DEF PiecesPlaced
  <2>1. CASE v = w
    <3>1. file'["tail"].by # w
      BY <1>4, <1>8
    <3>2. file'["head"].by = w => /\ file'["head"].whose = writer[w].whose
                                  /\ file'["head"].asOf = writer[w].asOf
      BY <1>4, <1>8
    <3>3. /\ writer'[w].at = "tail" /\ writer'[w].whose = writer[w].whose
          /\ writer'[w].asOf = writer[w].asOf
      BY <1>3, <1>5 DEF Dumps
    <3> QED BY <2>1, <3>1, <3>2, <3>3 DEF Placed
  <2>2. CASE v # w
    <3>1. v # "none" /\ Placed(v)
      BY DEF Writers, PiecesPlaced
    <3>2. file'["head"].by # v /\ (file["tail"].by # v => file'["tail"].by # v)
      BY <1>4, <1>8, <2>2, <3>1
    <3> QED BY <1>3, <1>5, <2>2, <3>1, <3>2 DEF Placed, Parts
  <2> QED BY <2>1, <2>2
<1>10. ~Whole'
  BY <1>4, <1>8 DEF Whole
<1>11. KeysGood'
  <2> SUFFICES ASSUME Untied(stored), NEW v \in Writers PROVE LeftGood(v)'
    BY <1>2, <1>6, <1>10 DEF KeysGood, FactGood, FileGood, Complete, Untied
  <2>1. LeftGood(v)
    BY DEF KeysGood
  <2>2. CASE v = w
    <3>1. /\ writer'[w].at = "tail" /\ writer'[w].whose = writer[w].whose
          /\ writer'[w].left = writer[w].left \ K /\ writer'[w].asOf = writer[w].asOf
      BY <1>3, <1>5 DEF Dumps
    <3>2. file'["head"].by = w => file'["head"].keys \cup writer'[w].left = writer[w].left
      <4> SUFFICES ASSUME file'["head"].by = w PROVE K \cup (writer[w].left \ K) = writer[w].left
        BY <1>4, <1>8, <3>1
      <4> QED BY <1>1
    <3> QED BY <1>2, <1>6, <2>1, <2>2, <3>1, <3>2 DEF LeftGood, Complete
  <2>3. CASE v # w
    <3>1. file'["head"].by # v
      BY <1>4, <1>8, <2>3 DEF Writers
    <3> QED BY <1>5, <1>6, <2>1, <2>3, <3>1 DEF LeftGood, Complete
  <2> QED BY <2>2, <2>3
<1> QED BY <1>6, <1>7, <1>9, <1>11

\* The last piece is written, or left out for a key without a JSON form.
LEMMA TailStep ==
  ASSUME HarvestIInv, NEW w \in Writers, WriteTail(w)
  PROVE  HarvestIInv'
<1> USE DEF HarvestIInv
<1>1. /\ writer[w].at = "tail" /\ writer' = [writer EXCEPT ![w] = Closed]
      /\ UNCHANGED <<vars, svc, fact, asOf, whose, starts>>
      /\ UNCHANGED file \/ file' \in Outcomes(w, "tail", writer[w].left)
  BY DEF WriteTail
<1>2. /\ writer \in [Writers -> Dumps] /\ file \in [Parts -> Pieces]
      /\ "head" \in Parts /\ "tail" \in Parts /\ writer[w].left \in SUBSET Hashes
  BY DEF HarvestTypeOK, Dumps, Parts
<1>3. /\ file' \in [Parts -> Pieces]
      /\ \/ UNCHANGED file
         \/ /\ \/ file'["tail"] = NoPiece
               \/ file'["tail"] = [by |-> w, whose |-> writer[w].whose, keys |-> writer[w].left,
                                   asOf |-> writer[w].asOf]
            /\ file'["head"] = file["head"] \/ file'["head"] = NoPiece
  BY <1>1, <1>2, PieceWritten
<1>4. /\ writer'[w] = Closed /\ Closed.at = "closed"
      /\ \A v \in Writers : v # w => writer'[v] = writer[v]
      /\ writer' \in [Writers -> Dumps]
  BY <1>1, <1>2 DEF Closed, Dumps
<1>5. IInv' /\ TypeOK' /\ UNCHANGED <<stored, mined>>
  BY <1>1, InductiveStep DEF IInv, vars
<1>6. HarvestTypeOK' /\ ExportsOwn'
  BY <1>1, <1>3, <1>4, <1>5 DEF HarvestTypeOK, ExportsOwn
<1>7. /\ NoPiece.by = "none" /\ \A v \in Writers : v # "none"
      /\ file["head"].by = w => /\ file["head"].whose = writer[w].whose
                                /\ file["head"].asOf = writer[w].asOf
      /\ file["tail"].by # w
  BY <1>1 DEF PiecesPlaced, Placed, Writers, NoPiece
<1>8. PiecesPlaced'
  <2> SUFFICES ASSUME NEW v \in Writers, v # w PROVE Placed(v)'
    BY <1>4 DEF PiecesPlaced, Placed
  <2>1. Placed(v) /\ writer'[v] = writer[v] /\ v # "none"
    BY <1>4, <1>7 DEF PiecesPlaced
  <2>2. file["tail"].by # v => file'["tail"].by # v
    BY <1>3, <1>7, <2>1
  <2>3. file'["head"] = file["head"] \/ file'["head"].by # v
    BY <1>3, <1>7, <2>1
  <2> QED BY <1>2, <2>1, <2>2, <2>3 DEF Placed, Parts
<1>9. KeysGood'
  <2> SUFFICES ASSUME Untied(stored)
               PROVE  FileGood' /\ \A v \in Writers : LeftGood(v)'
    BY <1>1, <1>5 DEF KeysGood, FactGood, Complete, Untied
  <2>1. FileGood /\ \A v \in Writers : LeftGood(v)
    BY DEF KeysGood
  <2>2. FileGood'
    <3>1. CASE UNCHANGED file
      BY <1>5, <2>1, <3>1 DEF FileGood, FileKeys, Whole, Complete
    <3>2. CASE ~UNCHANGED file
      <4> SUFFICES ASSUME Whole', file'["head"].whose = "self"
                   PROVE  Complete(FileKeys, file["head"].asOf)'
        BY DEF FileGood
      <4>1. /\ file'["head"] = file["head"] /\ file["head"].by = w
            /\ file'["tail"].by = w /\ file'["tail"].keys = writer[w].left
        BY <1>3, <1>7, <3>2 DEF Whole
      <4>2. Complete(file["head"].keys \cup writer[w].left, writer[w].asOf)
        BY <1>1, <1>7, <2>1, <4>1 DEF LeftGood
      <4> QED BY <1>5, <1>7, <4>1, <4>2 DEF FileKeys, Complete
    <3> QED BY <3>1, <3>2
  <2>3. ASSUME NEW v \in Writers PROVE LeftGood(v)'
    <3>1. CASE v = w
      BY <1>4, <3>1 DEF LeftGood
    <3>2. CASE v # w
      <4>1. file'["head"] = file["head"] \/ file'["head"].by # v
        BY <1>3, <1>7
      <4> QED BY <1>4, <1>5, <2>1, <3>2, <4>1 DEF LeftGood, Complete
    <3> QED BY <3>1, <3>2
  <2> QED BY <2>2, <2>3
<1> QED BY <1>5, <1>6, <1>8, <1>9

\* A writer goes away in the middle of its dump, or has not begun one.
LEMMA WriterDies ==
  ASSUME HarvestIInv, NEW w \in Writers, writer' = [writer EXCEPT ![w] = Closed],
         UNCHANGED <<mined, stored, file>>
  PROVE  /\ PiecesPlaced' /\ writer' \in [Writers -> Dumps]
         /\ KeysGood /\ (Untied(stored) => FactGood') => KeysGood'
<1> USE DEF HarvestIInv
<1>1. /\ writer'[w] = Closed /\ Closed.at = "closed" /\ writer' \in [Writers -> Dumps]
      /\ \A v \in Writers : v # w => writer'[v] = writer[v]
  BY DEF HarvestTypeOK, Closed, Dumps
<1>2. \A v \in Writers : Placed(v)'
  BY <1>1 DEF PiecesPlaced, Placed
<1>3. ASSUME Untied(stored) PROVE FileGood' /\ \A v \in Writers : LeftGood(v)'
  BY <1>1, <1>3 DEF KeysGood, FileGood, LeftGood, FileKeys, Whole, Complete
<1> QED BY <1>1, <1>2, <1>3 DEF PiecesPlaced, KeysGood, Untied

\* The process is killed.
LEMMA CrashStep == HarvestIInv /\ Crash => HarvestIInv'
<1> SUFFICES ASSUME HarvestIInv, Crash PROVE HarvestIInv'
  OBVIOUS
<1> USE DEF HarvestIInv
<1>1. "service" \in Writers
  BY DEF Writers
<1>2. IInv'
  BY ReadOverStep DEF Crash
<1>3. FactGood'
  BY DEF Crash, FactGood, Complete
<1>4. PiecesPlaced' /\ writer' \in [Writers -> Dumps] /\ KeysGood'
  BY <1>1, <1>3, WriterDies DEF Crash, ReadOver
<1>5. HarvestTypeOK' /\ ExportsOwn'
  BY <1>2, <1>4 DEF Crash, HarvestTypeOK, ExportsOwn, IInv
<1> QED BY <1>2, <1>4, <1>5

\* Every step of the service, of its rival and of the writer of the table.
LEMMA HarvestStepInductive == HarvestIInv /\ [HarvestNext]_allVars => HarvestIInv'
<1> SUFFICES ASSUME HarvestIInv, [HarvestNext]_allVars PROVE HarvestIInv'
  OBVIOUS
<1>1. CASE Start \/ Import \/ Harvested \/ OpenFails \/ Exported
  BY <1>1, ServiceMoves DEF Start, Import, OpenFails, Exported
<1>2. CASE OpenFile \/ RivalOpens
  BY <1>2, Opens DEF OpenFile, RivalOpens
<1>3. CASE ImportFails
  <2>1. IInv'
    BY <1>3, LookUpStep DEF HarvestIInv, ImportFails
  <2>2. UNCHANGED <<stored, mined, fact, asOf, whose, file, writer, starts>> /\ svc' = "harvest"
    BY <1>3 DEF ImportFails, LookUpLatest, Ask
  <2>3. HarvestTypeOK' /\ ExportsOwn' /\ PiecesPlaced'
    BY <2>1, <2>2 DEF HarvestIInv, IInv, HarvestTypeOK, ExportsOwn, PiecesPlaced, Placed
  <2>4. KeysGood'
    BY <2>2 DEF HarvestIInv, KeysGood, FactGood, FileGood, FileKeys, LeftGood, Whole, Complete, Untied
  <2> QED BY <2>1, <2>3, <2>4 DEF HarvestIInv
<1>4. CASE RivalDies
  <2>1. IInv' /\ UNCHANGED <<mined, stored, file>>
    BY <1>4, InductiveStep DEF RivalDies, HarvestIInv, vars
  <2>2. "rival" \in Writers /\ (KeysGood /\ Untied(stored) => FactGood')
    BY <1>4, <2>1 DEF RivalDies, KeysGood, FactGood, Complete, Writers
  <2>3. PiecesPlaced' /\ writer' \in [Writers -> Dumps] /\ KeysGood'
    BY <1>4, <2>1, <2>2, WriterDies DEF RivalDies, HarvestIInv
  <2> QED BY <1>4, <2>1, <2>3 DEF RivalDies, HarvestIInv, HarvestTypeOK, ExportsOwn, IInv
<1>5. CASE \E w \in Writers : WriteHead(w) \/ WriteTail(w)
  BY <1>5, HeadStep, TailStep
<1>6. CASE CreationBlockKnown \/ HarvestStep \/ TableStep
  BY <1>6, TableMoves DEF CreationBlockKnown, HarvestStep, TableStep, Next
<1>7. CASE UNCHANGED allVars
  BY <1>7, TableMoves DEF allVars, vars, harvestVars
<1> QED BY <1>1, <1>2, <1>3, <1>4, <1>5, <1>6, <1>7, CrashStep DEF HarvestNext

\* HarvestIInv holds of every execution.
THEOREM HarvestInductive == HarvestSpec => []HarvestIInv
<1>1. HarvestInit => HarvestIInv
  <2> SUFFICES ASSUME HarvestInit PROVE HarvestIInv
    OBVIOUS
  <2>1. IInv
    BY InitInductive DEF HarvestInit
  <2>2. /\ file \in [Parts -> Pieces] /\ writer \in [Writers -> Dumps]
        /\ \A p \in Parts : file[p].by = "none"
        /\ \A w \in Writers : writer[w].at = "closed"
    BY DEF HarvestInit, Empty, NoPiece, Closed, Pieces, Dumps
  <2>3. HarvestTypeOK /\ ExportsOwn
    BY <2>1, <2>2, HarvestAssumption DEF HarvestInit, HarvestTypeOK, ExportsOwn, IInv
  <2>4. KeysGood /\ PiecesPlaced
    BY <2>2 DEF HarvestInit, KeysGood, FactGood, FileGood, LeftGood, PiecesPlaced, Placed, Whole,
                Complete, Parts
  <2> QED BY <2>1, <2>3, <2>4 DEF HarvestIInv
<1> QED BY <1>1, HarvestStepInductive, PTL DEF HarvestSpec

\* Every variable of the service, its file and the reader keeps its type.
THEOREM HarvestTypeCorrect == HarvestSpec => []HarvestTypeOK
<1>1. HarvestIInv => HarvestTypeOK
  BY DEF HarvestIInv
<1> QED BY <1>1, HarvestInductive, PTL

\* A service that serves with keys of one export of its contract has all keys of the
\* rows that were stored when they were harvested, though kills and keys without a
\* JSON form cut dumps short, and another service truncates the file or overwrites it.
THEOREM ServesAllKeys == HarvestSpec => []KeysComplete
<1>1. HarvestIInv => KeysComplete
  BY DEF HarvestIInv, KeysGood, FactGood, KeysComplete, Complete
<1> QED BY <1>1, HarvestInductive, PTL

\* The reads of the service, cut short or not, are exact and miss nothing.
THEOREM HarvestReadsExact == HarvestSpec => [](SettledExact /\ NothingMissed)
<1>1. HarvestIInv => SettledExact /\ NothingMissed
  BY SettledByInvariant DEF HarvestIInv, IInv
<1> QED BY <1>1, HarvestInductive, PTL

=============================================================================
