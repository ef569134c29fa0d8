----------------------- MODULE TransactionSyncProofs -----------------------
(* Proofs about TransactionSync, for every chain, every batch and page size *)
(* and every number of faults.                                              *)
EXTENDS TransactionSync, TLAPS

LEMMA ProcessEndsTypeOK ==
  ASSUME TypeOK, NEW how \in Off, ProcessEnds(how), faults' \in 0..MaxFaults
  PROVE  TypeOK'
BY SizesAssumption, DeployAssumption, MaxBlockAssumption
DEF TypeOK, ChainTypeOK, ProcessEnds, Blocks, Off, Steps, Record, Kinds

LEMMA RangeFailsTypeOK ==
  ASSUME TypeOK, RangeFails, faults' \in 0..MaxFaults
  PROVE  TypeOK'
<1>1. CASE ProcessEnds("exited")
  BY <1>1, ProcessEndsTypeOK DEF Off
<1>2. CASE ~ProcessEnds("exited")
  BY <1>2, SizesAssumption DEF RangeFails, TypeOK, ChainTypeOK, Blocks, Off, Steps, Record, Kinds, chainVars
<1> QED BY <1>1, <1>2

LEMMA FaultType == ASSUME TypeOK, Fault PROVE faults' \in 0..MaxFaults
BY SizesAssumption DEF TypeOK, Fault

LEMMA ServiceTypeOK ==
  ASSUME TypeOK, Service PROVE TypeOK'
<1> USE SizesAssumption, DeployAssumption, MaxBlockAssumption
    DEF Blocks, Off, Steps, envVars, chainVars
<1>1. CASE ReadLocal BY <1>1 DEF ReadLocal, TypeOK, ChainTypeOK
<1>2. CASE ReadLatest BY <1>2 DEF ReadLatest, TypeOK, ChainTypeOK
<1>3. CASE ReadDeployment BY <1>3 DEF ReadDeployment, TypeOK, ChainTypeOK
<1>4. CASE GiveUp
  <2>1. faults' \in 0..MaxFaults BY <1>4 DEF GiveUp, TypeOK
  <2> QED BY <1>4, <2>1, ProcessEndsTypeOK DEF GiveUp
<1>5. CASE NextBatch BY <1>5 DEF NextBatch, TypeOK, ChainTypeOK
<1>6. CASE BatchesDone BY <1>6 DEF BatchesDone, TypeOK, ChainTypeOK
<1>7. CASE FetchNormal BY <1>7 DEF FetchNormal, Listed, TypeOK, ChainTypeOK
<1>8. CASE FetchInternal BY <1>8 DEF FetchInternal, Listed, TypeOK, ChainTypeOK
<1>9. CASE FetchRaises
  <2>1. faults' \in 0..MaxFaults BY <1>9 DEF FetchRaises, TypeOK
  <2> QED BY <1>9, <2>1, RangeFailsTypeOK DEF FetchRaises
<1>10. CASE InsertRow BY <1>10 DEF InsertRow, TypeOK, ChainTypeOK
<1>11. CASE Commit BY <1>11 DEF Commit, TypeOK, ChainTypeOK
<1>12. CASE SaveRaises
  <2>1. faults' \in 0..MaxFaults BY <1>12 DEF SaveRaises, TypeOK
  <2> QED BY <1>12, <2>1, RangeFailsTypeOK DEF SaveRaises
<1>13. CASE RangeDone BY <1>13 DEF RangeDone, TypeOK, ChainTypeOK
<1>14. CASE Poll BY <1>14 DEF Poll, TypeOK, ChainTypeOK
<1>15. CASE PollFails
  <2>1. CASE errs + 1 >= MaxErrors
    <3>1. faults' \in 0..MaxFaults BY <1>15, <2>1 DEF PollFails, TypeOK
    <3> QED BY <1>15, <2>1, <3>1, ProcessEndsTypeOK DEF PollFails
  <2>2. CASE ~(errs + 1 >= MaxErrors)
    BY <1>15, <2>2 DEF PollFails, TypeOK, ChainTypeOK
  <2> QED BY <2>1, <2>2
<1> QED BY <1>1, <1>2, <1>3, <1>4, <1>5, <1>6, <1>7, <1>8, <1>9, <1>10,
           <1>11, <1>12, <1>13, <1>14, <1>15 DEF Service

LEMMA EnvironmentTypeOK ==
  ASSUME TypeOK, Environment PROVE TypeOK'
<1> USE SizesAssumption, DeployAssumption, MaxBlockAssumption
    DEF Blocks, Off, Steps, chainVars, svcVars
<1>1. CASE Grow BY <1>1 DEF Grow, Mine, TypeOK, ChainTypeOK
<1>2. CASE ApiFails BY <1>2, FaultType DEF ApiFails, Fails, TypeOK, ChainTypeOK
<1>3. CASE ApiRecovers("limited") \/ ApiRecovers("down") \/ ApiRecovers("mute")
  BY <1>3 DEF ApiRecovers, TypeOK, ChainTypeOK
<1>4. CASE ConnectionDrops
  BY <1>4, FaultType DEF ConnectionDrops, TypeOK, ChainTypeOK
<1>5. CASE StatementFails
  BY <1>5, FaultType, RangeFailsTypeOK DEF StatementFails
<1>6. CASE CommitAnswerLost
  BY <1>6, FaultType DEF CommitAnswerLost, TypeOK, ChainTypeOK
<1>7. CASE Crash
  BY <1>7, FaultType, ProcessEndsTypeOK DEF Crash
<1> QED BY <1>1, <1>2, <1>3, <1>4, <1>5, <1>6, <1>7 DEF Environment

LEMMA NextTypeOK == ASSUME TypeOK, [Next]_vars PROVE TypeOK'
<1>1. CASE Start
  BY <1>1 DEF Start, TypeOK, ChainTypeOK, envVars, Off, Steps
<1>2. CASE UNCHANGED vars
  BY <1>2 DEF vars, TypeOK, ChainTypeOK
<1> QED BY <1>1, <1>2, ServiceTypeOK, EnvironmentTypeOK DEF Next

LEMMA InitTypeOK == Init => TypeOK
BY SizesAssumption, DeployAssumption, MaxBlockAssumption
DEF Init, ChainInit, TypeOK, ChainTypeOK, Blocks, Off

\* Every variable keeps its type.
THEOREM TypeCorrect == Spec => []TypeOK
<1>1. TypeOK /\ [Next]_vars => TypeOK'
  BY NextTypeOK
<1> QED BY <1>1, InitTypeOK, PTL DEF Spec

----------------------------------------------------------------------------
(* The inductive invariant.                                                 *)

LEMMA HashesOfMember ==
  ASSUME NEW rows, NEW h PROVE h \in HashesOf(rows) <=> \E r \in rows : r.hash = h
BY DEF HashesOf

LEMMA HashesOfUnion ==
  ASSUME NEW a, NEW b PROVE HashesOf(a \cup b) = HashesOf(a) \cup HashesOf(b)
BY DEF HashesOf

\* A listed hash that was mined in the range is in the answer.
LEMMA ListedHas ==
  ASSUME TypeOK, NEW kind \in Kinds, NEW lo \in Nat, NEW hi \in Nat,
         NEW h \in MinedIn(lo, hi),
         h \in IF kind = "normal" THEN NormalHashes ELSE InternalHashes
  PROVE  \E r \in Listed(kind, lo, hi) : r.hash = h
<1> DEFINE r == [hash |-> h, kind |-> kind, block |-> mined[h]]
<1>1. r \in Record BY DEF TypeOK, ChainTypeOK, MinedIn, Record
<1>2. r \in Listed(kind, lo, hi) BY <1>1 DEF Listed, MinedIn
<1> QED BY <1>2

LEMMA ListedSound ==
  ASSUME NEW kind \in Kinds, NEW lo, NEW hi, NEW r \in Listed(kind, lo, hi)
  PROVE  /\ r \in Record /\ r.kind = kind /\ r.block = mined[r.hash]
         /\ r.hash \in IF kind = "normal" THEN NormalHashes ELSE InternalHashes
         /\ r.block >= lo /\ r.block <= hi
BY DEF Listed

\* A step that leaves the chain and the rows alone leaves what is said of them.
LEMMA SameRows ==
  ASSUME IInv, UNCHANGED <<mined, db, txn>>
  PROVE  NoGap' /\ RowsUnique'
BY DEF IInv, NoGap, RowsUnique, Stored, History, MinedIn

LEMMA FromInBlocks ==
  ASSUME IInv, pc \in Fetching
  PROVE  /\ From \in Nat /\ To \in Nat /\ From >= Deploy
         /\ From <= To /\ To <= head
BY SizesAssumption, DeployAssumption, MaxBlockAssumption
DEF IInv, TypeOK, ChainTypeOK, LoopState, RowsTrue, From, To, Blocks

LEMMA ProcessEndsIInv ==
  ASSUME IInv, NEW how \in Off, ProcessEnds(how), TypeOK'
  PROVE  IInv'
<1> USE DEF ProcessEnds, Off
<1>1. RowsTrue' BY DEF IInv, RowsTrue, TypeOK, ChainTypeOK, Blocks
<1>2. LoopState' BY DEF IInv, LoopState, Fetching
<1>3. RangeCovered' BY DEF RangeCovered
<1>4. RowsUnique' BY DEF IInv, RowsUnique
<1>5. NoGap' BY DEF IInv, NoGap, Stored, History, MinedIn
<1>6. FrontierStored' BY DEF FrontierStored
<1> QED BY <1>1, <1>2, <1>3, <1>4, <1>5, <1>6 DEF IInv

LEMMA RangeFailsIInv ==
  ASSUME IInv, RangeFails, TypeOK', pc \in Fetching
  PROVE  IInv'
<1>1. CASE ProcessEnds("exited")
  BY <1>1, ProcessEndsIInv DEF Off
<1>2. CASE ~ProcessEnds("exited")
  <2> USE <1>2 DEF RangeFails, chainVars
  <2>1. RowsTrue' BY DEF IInv, RowsTrue
  <2>2. LoopState' BY DEF IInv, LoopState, Fetching, Off
  <2>3. RangeCovered' BY DEF RangeCovered
  <2>4. RowsUnique' BY DEF IInv, RowsUnique
  <2>5. NoGap' BY DEF IInv, NoGap, Stored, History, MinedIn
  <2>6. FrontierStored'
    BY DEF IInv, FrontierStored, History, MinedIn, Stored, From, Fetching, Off
  <2> QED BY <2>1, <2>2, <2>3, <2>4, <2>5, <2>6 DEF IInv
<1> QED BY <1>1, <1>2

----------------------------------------------------------------------------
(* The steps of main() outside the database.                                *)

LEMMA StartIInv == ASSUME IInv, Start, TypeOK' PROVE IInv'
<1> USE DEF Start, envVars
<1>1. RowsTrue' BY DEF IInv, RowsTrue
<1>2. LoopState' BY DEF IInv, LoopState, Fetching, Off, TypeOK
<1>3. RangeCovered' BY DEF IInv, RangeCovered, Off
<1>4. NoGap' /\ RowsUnique' BY <1>3, SameRows
<1>5. FrontierStored' BY DEF FrontierStored
<1> QED BY <1>1, <1>2, <1>3, <1>4, <1>5 DEF IInv

LEMMA ReadLocalIInv == ASSUME IInv, ReadLocal, TypeOK' PROVE IInv'
<1> USE DEF ReadLocal, envVars
<1>1. RowsTrue' BY DEF IInv, RowsTrue
<1>2. LoopState'
  <2>1. PICK b \in Blocks : IsLatestBlock(b) /\ i' = b OBVIOUS
  <2>2. \A h \in MinedIn(Deploy, b) : h \in Stored
    <3>1. CASE db = {}
      BY <2>1, <3>1, DeployAssumption
      DEF IsLatestBlock, MinedIn, IInv, TypeOK, ChainTypeOK, Blocks
    <3>2. CASE db # {}
      BY <2>1, <3>2 DEF IsLatestBlock, IInv, NoGap, History
    <3> QED BY <3>1, <3>2
  <2>3. b <= head
    BY <2>1, DeployAssumption, MaxBlockAssumption
    DEF IsLatestBlock, IInv, RowsTrue, TypeOK, ChainTypeOK, Record, Blocks
  <2> QED BY <2>1, <2>2, <2>3 DEF IInv, LoopState, Fetching, Off, MinedIn, Stored
<1>3. RangeCovered' BY DEF IInv, RangeCovered
<1>4. NoGap' /\ RowsUnique' BY SameRows
<1>5. FrontierStored' BY DEF FrontierStored
<1> QED BY <1>1, <1>2, <1>3, <1>4, <1>5 DEF IInv

LEMMA ReadLatestIInv == ASSUME IInv, ReadLatest, TypeOK' PROVE IInv'
<1> USE DEF ReadLatest, envVars
<1>1. RowsTrue' BY DEF IInv, RowsTrue, TypeOK, ChainTypeOK, Blocks
<1>2. LoopState'
  BY DEF IInv, LoopState, Fetching, Off, MinedIn, Stored, TypeOK, ChainTypeOK
<1>3. RangeCovered' BY DEF IInv, RangeCovered
<1>4. NoGap' /\ RowsUnique' BY SameRows
<1>5. FrontierStored' BY DEF FrontierStored
<1> QED BY <1>1, <1>2, <1>3, <1>4, <1>5 DEF IInv

LEMMA ReadDeploymentIInv == ASSUME IInv, ReadDeployment, TypeOK' PROVE IInv'
<1> USE DEF ReadDeployment, envVars
<1>1. RowsTrue' BY DEF IInv, RowsTrue
<1>2. LoopState'
  BY DeployAssumption DEF IInv, LoopState, Fetching, Off, TypeOK
<1>3. RangeCovered' BY DEF IInv, RangeCovered
<1>4. NoGap' /\ RowsUnique' BY SameRows
<1>5. FrontierStored'
  BY DeployAssumption
  DEF IInv, LoopState, FrontierStored, History, MinedIn, From, Stored, Off,
      TypeOK, ChainTypeOK, Blocks
<1> QED BY <1>1, <1>2, <1>3, <1>4, <1>5 DEF IInv

LEMMA NextBatchIInv == ASSUME IInv, NextBatch, TypeOK' PROVE IInv'
<1> USE DEF NextBatch, envVars
<1>1. RowsTrue' BY DEF IInv, RowsTrue
<1>2. LoopState' BY DEF IInv, LoopState, Fetching, Off
<1>3. RangeCovered' BY DEF IInv, RangeCovered
<1>4. NoGap' /\ RowsUnique' BY SameRows
<1>5. FrontierStored'
  BY DEF IInv, FrontierStored, History, MinedIn, From, Stored, Off
<1> QED BY <1>1, <1>2, <1>3, <1>4, <1>5 DEF IInv

LEMMA BatchesDoneIInv == ASSUME IInv, BatchesDone, TypeOK' PROVE IInv'
<1> USE DEF BatchesDone, envVars
<1>1. RowsTrue' BY DEF IInv, RowsTrue
<1>2. LoopState' BY DEF IInv, LoopState, Fetching, Off
<1>3. RangeCovered' BY DEF IInv, RangeCovered
<1>4. NoGap' /\ RowsUnique' BY SameRows
<1>5. FrontierStored'
  BY DEF IInv, LoopState, FrontierStored, History, MinedIn, From, Stored, Off,
         TypeOK, ChainTypeOK, Blocks
<1> QED BY <1>1, <1>2, <1>3, <1>4, <1>5 DEF IInv

LEMMA RangeDoneIInv == ASSUME IInv, RangeDone, TypeOK' PROVE IInv'
<1> USE DEF RangeDone, envVars
<1>1. RowsTrue' BY DEF IInv, RowsTrue
<1>2. LoopState'
  BY SizesAssumption, DeployAssumption
  DEF IInv, LoopState, Fetching, Off, TypeOK, ChainTypeOK, Blocks
<1>3. RangeCovered' BY DEF IInv, RangeCovered
<1>4. NoGap' /\ RowsUnique' BY SameRows
<1>5. FrontierStored'
  BY SizesAssumption, DeployAssumption
  DEF IInv, LoopState, RangeCovered, FrontierStored, History, MinedIn, From, To,
      Stored, Fetching, Off, TypeOK, ChainTypeOK, Blocks
<1> QED BY <1>1, <1>2, <1>3, <1>4, <1>5 DEF IInv

LEMMA PollIInv == ASSUME IInv, Poll, TypeOK' PROVE IInv'
<1> USE DEF Poll, envVars
<1>1. RowsTrue' BY DEF IInv, RowsTrue, TypeOK, ChainTypeOK, Blocks
<1>2. LoopState' BY DEF IInv, LoopState, Fetching, Off
<1>3. RangeCovered' BY DEF IInv, RangeCovered
<1>4. NoGap' /\ RowsUnique' BY SameRows
<1>5. FrontierStored'
  BY DEF IInv, LoopState, FrontierStored, History, MinedIn, From, Stored, Off
<1> QED BY <1>1, <1>2, <1>3, <1>4, <1>5 DEF IInv

LEMMA PollFailsIInv == ASSUME IInv, PollFails, TypeOK' PROVE IInv'
<1>1. CASE errs + 1 >= MaxErrors
  BY <1>1, ProcessEndsIInv DEF PollFails, Off
<1>2. CASE ~(errs + 1 >= MaxErrors)
  <2> USE <1>2 DEF PollFails, envVars
  <2>1. RowsTrue' BY DEF IInv, RowsTrue
  <2>2. LoopState' BY DEF IInv, LoopState, Fetching, Off
  <2>3. RangeCovered' BY DEF IInv, RangeCovered
  <2>4. NoGap' /\ RowsUnique' BY SameRows
  <2>5. FrontierStored'
    BY DEF IInv, FrontierStored, History, MinedIn, From, Stored, Off
  <2> QED BY <2>1, <2>2, <2>3, <2>4, <2>5 DEF IInv
<1> QED BY <1>1, <1>2

----------------------------------------------------------------------------
(* Fetching a range and saving it.                                          *)

LEMMA FetchNormalIInv == ASSUME IInv, FetchNormal, TypeOK' PROVE IInv'
<1> USE DEF FetchNormal, envVars
<1>0. pc \in Fetching BY DEF Fetching
<1>1. /\ From \in Nat /\ To \in Nat /\ From >= Deploy /\ From <= To /\ To <= head
      /\ From' = From /\ To' = To
  BY <1>0, FromInBlocks DEF From, To
<1>2. \A r \in got' : /\ r.kind = "normal" /\ r.block = mined[r.hash]
                      /\ r.hash \in NormalHashes
                      /\ r.block >= From /\ r.block <= To
  BY ListedSound DEF Kinds
<1>3. RowsTrue'
  <2>1. \A r \in got' : r.block >= Deploy
    BY <1>1, <1>2, DeployAssumption DEF TypeOK, Record, Blocks
  <2> QED BY <1>2, <2>1 DEF IInv, RowsTrue
<1>4. LoopState' BY DEF IInv, LoopState, Fetching, Off
<1>5. RangeCovered'
  <2>1. txn' = {} BY DEF IInv, RangeCovered
  <2>2. \A r \in got' : r.block >= From' /\ r.block <= To' BY <1>1, <1>2
  <2>3. \A h \in NormalHashes \cap MinedIn(From, To) :
          \E r \in {g \in got' : g.kind = "normal"} : r.hash = h
    BY <1>1, <1>2, ListedHas DEF Kinds, IInv
  <2>4. \A h \in NormalHashes \cap MinedIn(From, To) :
          h \in HashesOf({g \in got' : g.kind = "normal"})
    BY <2>3, HashesOfMember
  <2>5. MinedIn(From, To)' = MinedIn(From, To) BY <1>1 DEF MinedIn
  <2> QED BY <2>1, <2>2, <2>4, <2>5 DEF RangeCovered
<1>6. NoGap' /\ RowsUnique' BY SameRows
<1>7. FrontierStored'
  BY DEF IInv, FrontierStored, History, MinedIn, From, Stored, Off
<1> QED BY <1>3, <1>4, <1>5, <1>6, <1>7 DEF IInv

LEMMA FetchInternalIInv == ASSUME IInv, FetchInternal, TypeOK' PROVE IInv'
<1> USE DEF FetchInternal, envVars
<1>0. pc \in Fetching BY DEF Fetching
<1>1. /\ From \in Nat /\ To \in Nat /\ From >= Deploy /\ From <= To /\ To <= head
      /\ From' = From /\ To' = To
  BY <1>0, FromInBlocks DEF From, To
<1> DEFINE new == Listed("internal", From, To)
<1>2. \A r \in new : /\ r.kind = "internal" /\ r.block = mined[r.hash]
                     /\ r.hash \in InternalHashes
                     /\ r.block >= From /\ r.block <= To
  BY ListedSound DEF Kinds
<1>3. RowsTrue'
  <2>1. \A r \in new : r.block >= Deploy
    BY <1>1, <1>2, DeployAssumption DEF TypeOK, Record, Blocks
  <2> QED BY <1>2, <2>1 DEF IInv, RowsTrue
<1>4. LoopState' BY DEF IInv, LoopState, Fetching, Off
<1>5. RangeCovered'
  <2>1. txn' = {} /\ txn = {} BY DEF IInv, RangeCovered
  <2>2. \A r \in got' : r.block >= From' /\ r.block <= To'
    BY <1>1, <1>2 DEF IInv, RangeCovered
  <2>3. MinedIn(From, To)' = MinedIn(From, To) BY <1>1 DEF MinedIn
  <2>4. \A h \in NormalHashes \cap MinedIn(From, To) :
          h \in Stored' \cup HashesOf(txn') \cup HashesOf({g \in got' : g.kind = "normal"})
    <3>1. HashesOf({g \in got : g.kind = "normal"})
            \subseteq HashesOf({g \in got' : g.kind = "normal"})
      BY HashesOfMember
    <3>2. Stored' = Stored /\ txn' = txn BY DEF Stored
    <3> QED BY <3>1, <3>2 DEF IInv, RangeCovered
  <2>5. \A h \in MinedIn(From, To) : h \in Stored' \cup HashesOf(txn') \cup HashesOf(got')
    <3> SUFFICES ASSUME NEW h \in MinedIn(From, To)
                 PROVE  h \in Stored' \cup HashesOf(txn') \cup HashesOf(got')
      OBVIOUS
    <3>0. HashesOf({g \in got' : g.kind = "normal"}) \subseteq HashesOf(got')
      BY HashesOfMember
    <3>1. CASE h \in NormalHashes BY <2>4, <3>0, <3>1
    <3>2. CASE h \in InternalHashes
      <4>1. \E r \in new : r.hash = h
        BY <1>1, <3>2, ListedHas DEF Kinds, IInv
      <4> QED BY <4>1, HashesOfMember
    <3> QED BY <3>1, <3>2, ListsAssumption DEF MinedIn
  <2>6. got' = {} => \A h \in MinedIn(From, To) : h \in Stored'
    BY <2>1, <2>5, HashesOfMember
  <2> QED BY <2>1, <2>2, <2>3, <2>4, <2>5, <2>6 DEF RangeCovered
<1>6. NoGap' /\ RowsUnique' BY SameRows
<1>7. FrontierStored'
  BY DEF IInv, FrontierStored, History, MinedIn, From, Stored, Off
<1> QED BY <1>3, <1>4, <1>5, <1>6, <1>7 DEF IInv

LEMMA InsertRowIInv == ASSUME IInv, InsertRow, TypeOK' PROVE IInv'
<1> USE DEF InsertRow, envVars
<1>1. PICK r \in got :
        /\ r.kind = "internal" => \A g \in got : g.kind = "internal"
        /\ got' = got \ {r}
        /\ txn' = IF r.hash \in Stored \cup HashesOf(txn) THEN txn ELSE txn \cup {r}
  OBVIOUS
<1>2. txn' \subseteq txn \cup {r} /\ got' \subseteq got BY <1>1
<1>3. r \in Record BY DEF IInv, TypeOK
<1>4. r.hash \in Stored \cup HashesOf(txn')
  BY <1>1, HashesOfMember
<1>5. HashesOf(txn) \subseteq HashesOf(txn')
  BY <1>1, HashesOfMember
<1>6. RowsTrue' BY <1>2 DEF IInv, RowsTrue
<1>7. LoopState' BY DEF IInv, LoopState, Fetching, Off
<1>8. From' = From /\ To' = To /\ Stored' = Stored /\ MinedIn(From, To)' = MinedIn(From, To)
  BY DEF From, To, Stored, MinedIn
<1>9. RangeCovered'
  <2>1. \A x \in txn' \cup got' : x.block >= From' /\ x.block <= To'
    BY <1>2, <1>8 DEF IInv, RangeCovered
  <2>2. \A h \in NormalHashes \cap MinedIn(From, To) :
          h \in Stored \cup HashesOf(txn') \cup HashesOf({g \in got' : g.kind = "normal"})
    <3>1. \A h : h \in HashesOf({g \in got : g.kind = "normal"})
                   => h = r.hash \/ h \in HashesOf({g \in got' : g.kind = "normal"})
      BY <1>1, HashesOfMember
    <3> QED BY <1>4, <1>5, <3>1 DEF IInv, RangeCovered
  <2>3. \A h \in MinedIn(From, To) : h \in Stored \cup HashesOf(txn') \cup HashesOf(got')
    <3>1. \A h : h \in HashesOf(got) => h = r.hash \/ h \in HashesOf(got')
      BY <1>1, HashesOfMember
    <3> QED BY <1>4, <1>5, <3>1 DEF IInv, RangeCovered
  <2> QED BY <1>8, <2>1, <2>2, <2>3 DEF RangeCovered
<1>10. RowsUnique'
  <2>1. CASE r.hash \in Stored \cup HashesOf(txn)
    BY <1>1, <2>1 DEF IInv, RowsUnique
  <2>2. CASE r.hash \notin Stored \cup HashesOf(txn)
    <3>1. \A x \in db \cup txn : x.hash # r.hash
      BY <2>2, HashesOfMember DEF Stored
    <3>2. r.kind = "internal" => r.hash \notin NormalHashes
      <4> SUFFICES ASSUME r.kind = "internal", r.hash \in NormalHashes PROVE FALSE
        OBVIOUS
      <4>1. r.hash \in MinedIn(From, To)
        BY <1>3 DEF IInv, RangeCovered, RowsTrue, MinedIn, Record
      <4>2. HashesOf({g \in got : g.kind = "normal"}) = {}
        BY <1>1, HashesOfMember
      <4> QED BY <2>2, <4>1, <4>2 DEF IInv, RangeCovered
    <3> QED BY <1>1, <2>2, <3>1, <3>2 DEF IInv, RowsUnique
  <2> QED BY <2>1, <2>2
<1>11. NoGap' BY <1>8 DEF IInv, NoGap, History, MinedIn
<1>12. FrontierStored'
  BY <1>8 DEF IInv, FrontierStored, History, MinedIn, Off
<1> QED BY <1>6, <1>7, <1>9, <1>10, <1>11, <1>12 DEF IInv

\* What a commit makes of the table, its answer heard or not.
LEMMA CommittedRows ==
  ASSUME IInv, pc = "save", conn = "open", got = {},
         db' = db \cup txn, UNCHANGED mined
  PROVE  /\ Stored' = Stored \cup HashesOf(txn)
         /\ MinedIn(From, To) \subseteq Stored'
         /\ NoGap'
<1>1. Stored' = Stored \cup HashesOf(txn) BY HashesOfUnion DEF Stored
<1>2. HashesOf(got) = {} BY HashesOfMember
<1>3. MinedIn(From, To) \subseteq Stored'
  BY <1>1, <1>2 DEF IInv, RangeCovered
<1>4. NoGap'
  <2> SUFFICES ASSUME NEW r \in db \cup txn, NEW h \in History(r.block)
               PROVE  h \in Stored'
    BY DEF NoGap, History, MinedIn
  <2>1. CASE r \in db BY <1>1, <2>1 DEF IInv, NoGap
  <2>2. CASE r \in txn
    <3>1. r.block <= To BY <2>2 DEF IInv, RangeCovered
    <3>2. CASE mined[h] >= From
      <4>1. h \in MinedIn(From, To)
        BY <2>2, <3>1, <3>2, FromInBlocks
        DEF History, MinedIn, Fetching, IInv, TypeOK, ChainTypeOK, Record, Blocks
      <4> QED BY <1>3, <4>1
    <3>3. CASE mined[h] < From
      <4>1. mined[h] <= endBlock
        BY <3>3 DEF From, IInv, LoopState, Fetching, TypeOK, ChainTypeOK, Blocks,
                    History, MinedIn
      <4> QED BY <1>1, <3>3, <4>1
          DEF IInv, FrontierStored, History, MinedIn, Off
    <3> QED BY <3>2, <3>3, FromInBlocks
        DEF Fetching, IInv, TypeOK, ChainTypeOK, History, MinedIn, Blocks
  <2> QED BY <2>1, <2>2
<1> QED BY <1>1, <1>3, <1>4

LEMMA CommitIInv == ASSUME IInv, Commit, TypeOK' PROVE IInv'
<1> USE DEF Commit, envVars
<1>1. /\ Stored' = Stored \cup HashesOf(txn)
      /\ MinedIn(From, To) \subseteq Stored' /\ NoGap'
  BY CommittedRows
<1>2. RowsTrue' BY DEF IInv, RowsTrue
<1>3. LoopState' BY DEF IInv, LoopState, Fetching, Off
<1>4. RangeCovered'
  <2>1. MinedIn(From, To)' = MinedIn(From, To) BY DEF From, To, MinedIn
  <2> QED BY <1>1, <2>1 DEF RangeCovered
<1>5. RowsUnique' BY DEF IInv, RowsUnique
<1>6. FrontierStored'
  BY <1>1 DEF IInv, FrontierStored, History, MinedIn, From, Off
<1> QED BY <1>1, <1>2, <1>3, <1>4, <1>5, <1>6 DEF IInv

----------------------------------------------------------------------------
(* The environment.                                                         *)

LEMMA CommitAnswerLostIInv == ASSUME IInv, CommitAnswerLost, TypeOK' PROVE IInv'
<1> USE DEF CommitAnswerLost, chainVars
<1>1. Stored' = Stored \cup HashesOf(txn) /\ NoGap' BY CommittedRows
<1>2. RowsTrue' BY DEF IInv, RowsTrue
<1>3. LoopState' BY DEF IInv, LoopState, Fetching, Off
<1>4. RangeCovered' BY DEF RangeCovered
<1>5. RowsUnique' BY DEF IInv, RowsUnique
<1>6. FrontierStored'
  BY <1>1 DEF IInv, FrontierStored, History, MinedIn, From, Off
<1> QED BY <1>1, <1>2, <1>3, <1>4, <1>5, <1>6 DEF IInv

LEMMA ConnectionDropsIInv == ASSUME IInv, ConnectionDrops, TypeOK' PROVE IInv'
<1> USE DEF ConnectionDrops, chainVars
<1>1. RowsTrue' BY DEF IInv, RowsTrue
<1>2. LoopState' BY DEF IInv, LoopState, Fetching, Off, Stored, MinedIn
<1>3. RangeCovered'
  <2>1. /\ From' = From /\ To' = To /\ Stored' = Stored
        /\ MinedIn(From, To)' = MinedIn(From, To)
    BY DEF From, To, Stored, MinedIn
  <2>2. pc = "internal" => txn = {} BY DEF IInv, RangeCovered
  <2> QED BY <2>1, <2>2 DEF IInv, RangeCovered
<1>4. RowsUnique' BY DEF IInv, RowsUnique
<1>5. NoGap' BY DEF IInv, NoGap, Stored, History, MinedIn
<1>6. FrontierStored'
  BY DEF IInv, FrontierStored, History, MinedIn, From, Stored, Off
<1> QED BY <1>1, <1>2, <1>3, <1>4, <1>5, <1>6 DEF IInv

\* New blocks lie above everything the process has asked for.
LEMMA GrowIInv == ASSUME IInv, Grow, TypeOK' PROVE IInv'
<1> USE DEF Grow, svcVars
<1>1. PICK S \in SUBSET {h \in Hashes : mined[h] = 0} :
        mined' = [h \in Hashes |-> IF h \in S THEN head + 1 ELSE mined[h]]
  BY DEF Mine
<1>2. head \in Nat /\ head' = head + 1
  BY DeployAssumption, MaxBlockAssumption DEF Mine, IInv, TypeOK, ChainTypeOK
<1>3. \A lo, hi \in Nat : lo >= Deploy /\ hi <= head => MinedIn(lo, hi)' = MinedIn(lo, hi)
  BY <1>1, <1>2, DeployAssumption DEF MinedIn, IInv, TypeOK, ChainTypeOK, Blocks
<1>4. \A r \in db \cup txn \cup got : mined'[r.hash] = mined[r.hash]
  <2> SUFFICES ASSUME NEW r \in db \cup txn \cup got
               PROVE  mined'[r.hash] = mined[r.hash]
    OBVIOUS
  <2>1. r \in Record BY DEF IInv, TypeOK
  <2>2. mined[r.hash] >= Deploy /\ r.hash \in Hashes
    BY <2>1 DEF IInv, RowsTrue, Record
  <2> QED BY <1>1, <2>2, DeployAssumption
<1>5. RowsTrue'
  BY <1>1, <1>2, <1>4 DEF IInv, RowsTrue, TypeOK, ChainTypeOK, Blocks
<1>6. Stored' = Stored /\ Deploy \in Nat BY DeployAssumption DEF Stored
<1>7. \A hi \in Nat : hi <= head => History(hi)' = History(hi)
  BY <1>3, <1>6 DEF History
<1>8. \A r \in db : r.block \in Nat /\ r.block <= head
  BY DEF IInv, RowsTrue, TypeOK, Record, Blocks
<1>9. LoopState'
  <2>1. pc \in {"latest", "deploy"} => MinedIn(Deploy, i)' = MinedIn(Deploy, i)
    BY <1>3, <1>6 DEF IInv, LoopState, TypeOK, MinedIn
  <2> QED BY <1>2, <1>6, <2>1 DEF IInv, LoopState, TypeOK
<1>10. RangeCovered'
  <2>1. From' = From /\ To' = To BY DEF From, To
  <2>2. pc \in Fetching => MinedIn(From, To)' = MinedIn(From, To)
    BY <1>3, <2>1, FromInBlocks
  <2> QED BY <1>6, <2>1, <2>2 DEF IInv, RangeCovered, Fetching
<1>11. RowsUnique' BY DEF IInv, RowsUnique
<1>12. NoGap' BY <1>6, <1>7, <1>8 DEF IInv, NoGap
<1>13. FrontierStored'
  <2>1. endBlock \in Nat /\ endBlock <= head
    BY DEF IInv, RowsTrue, TypeOK, Blocks
  <2>2. History(endBlock)' = History(endBlock) /\ From' = From
    BY <1>7, <2>1 DEF From
  <2>3. \A h \in History(endBlock) : mined'[h] = mined[h]
    BY <1>1, DeployAssumption DEF History, MinedIn
  <2> QED BY <1>6, <2>2, <2>3 DEF IInv, FrontierStored
<1> QED BY <1>5, <1>9, <1>10, <1>11, <1>12, <1>13 DEF IInv

LEMMA ServiceIInv == ASSUME IInv, Service, TypeOK' PROVE IInv'
<1>1. CASE GiveUp BY <1>1, ProcessEndsIInv DEF GiveUp, Off
<1>2. CASE FetchRaises BY <1>2, RangeFailsIInv DEF FetchRaises, Fetching
<1>3. CASE SaveRaises BY <1>3, RangeFailsIInv DEF SaveRaises, Fetching
<1> QED BY <1>1, <1>2, <1>3, ReadLocalIInv, ReadLatestIInv, ReadDeploymentIInv,
           NextBatchIInv, BatchesDoneIInv, FetchNormalIInv, FetchInternalIInv,
           InsertRowIInv, CommitIInv, RangeDoneIInv, PollIInv, PollFailsIInv
        DEF Service

LEMMA EnvironmentIInv == ASSUME IInv, Environment, TypeOK' PROVE IInv'
<1>1. CASE StatementFails BY <1>1, RangeFailsIInv DEF StatementFails, Fetching
<1>2. CASE Crash BY <1>2, ProcessEndsIInv DEF Crash, Off
<1>3. CASE ApiFails \/ ApiRecovers("limited") \/ ApiRecovers("down") \/ ApiRecovers("mute")
  <2> USE <1>3 DEF ApiFails, ApiRecovers, chainVars, svcVars
  <2>1. UNCHANGED <<head, mined, db, conn, txn, pc, i, endBlock, latest, mode, got>>
    OBVIOUS
  <2>2. RowsTrue' BY <2>1 DEF IInv, RowsTrue
  <2>3. LoopState' BY <2>1 DEF IInv, LoopState, MinedIn, Stored
  <2>4. RangeCovered'
    <3>1. From' = From /\ To' = To /\ Stored' = Stored
          /\ MinedIn(From, To)' = MinedIn(From, To)
      BY <2>1 DEF From, To, Stored, MinedIn
    <3> QED BY <2>1, <3>1 DEF IInv, RangeCovered
  <2>5. NoGap' /\ RowsUnique' BY <2>1, SameRows
  <2>6. FrontierStored'
    BY <2>1 DEF IInv, FrontierStored, History, MinedIn, From, Stored
  <2> QED BY <2>2, <2>3, <2>4, <2>5, <2>6 DEF IInv
<1> QED BY <1>1, <1>2, <1>3, GrowIInv, ConnectionDropsIInv, CommitAnswerLostIInv
        DEF Environment

LEMMA NextIInv == ASSUME IInv, [Next]_vars PROVE IInv'
<1>1. TypeOK' BY NextTypeOK DEF IInv
<1>2. CASE UNCHANGED vars
  BY <1>2 DEF vars, IInv, TypeOK, ChainTypeOK, RowsTrue, LoopState, RangeCovered,
              RowsUnique, NoGap, FrontierStored, Stored, MinedIn, History, From, To
<1> QED BY <1>1, <1>2, StartIInv, ServiceIInv, EnvironmentIInv DEF Next

LEMMA InitIInv == Init => IInv
<1> SUFFICES ASSUME Init PROVE IInv OBVIOUS
<1>1. TypeOK BY InitTypeOK
<1>2. RowsTrue
  BY DeployAssumption, MaxBlockAssumption DEF Init, ChainInit, RowsTrue
<1>3. LoopState BY DEF Init, LoopState, Fetching, Off
<1>4. RangeCovered BY DEF Init, RangeCovered
<1>5. RowsUnique /\ NoGap /\ FrontierStored
  BY DEF Init, RowsUnique, NoGap, FrontierStored, Off
<1> QED BY <1>1, <1>2, <1>3, <1>4, <1>5 DEF IInv

\* The inductive invariant holds in every reachable state.
THEOREM InductiveInvariant == Spec => []IInv
<1>1. IInv /\ [Next]_vars => IInv' BY NextIInv
<1> QED BY <1>1, InitIInv, PTL DEF Spec

\* The checkpoint never hides a gap, whatever fails or dies.
THEOREM CheckpointSafe == Spec => []NoGap
<1>1. IInv => NoGap BY DEF IInv
<1> QED BY <1>1, InductiveInvariant, PTL

\* What the loops have left behind is committed.
THEOREM FrontierSafe == Spec => []FrontierStored
<1>1. IInv => FrontierStored BY DEF IInv
<1> QED BY <1>1, InductiveInvariant, PTL

\* One row per hash, and the normal record takes it.
THEOREM NormalRecordSafe == Spec => []NormalRecordWins
<1>1. IInv => NormalRecordWins BY DEF IInv, RowsUnique, NormalRecordWins
<1> QED BY <1>1, InductiveInvariant, PTL

----------------------------------------------------------------------------
(* TransactionSync implements ChainMirror.                                  *)

LEMMA NoReworkStep == ASSUME IInv, NoRework, [Next]_vars, TypeOK' PROVE NoRework'
<1> USE DEF NoRework, envVars, chainVars
<1>1. CASE Start BY <1>1 DEF Start
<1>2. CASE ReadLocal
  <2>1. \A r \in db : r.block <= i' BY <1>2 DEF ReadLocal, IsLatestBlock
  <2> QED BY <1>2, <2>1 DEF ReadLocal
<1>3. CASE ReadLatest
  BY <1>3, DeployAssumption, MaxBlockAssumption
  DEF ReadLatest, IInv, RowsTrue, LoopState, TypeOK, ChainTypeOK, Record, Blocks
<1>4. CASE ReadDeployment
  BY <1>4, DeployAssumption DEF ReadDeployment, IInv, LoopState, TypeOK, Record, Blocks
<1>5. CASE NextBatch BY <1>5 DEF NextBatch, IInv, LoopState
<1>6. CASE BatchesDone BY <1>6 DEF BatchesDone, IInv, LoopState
<1>7. CASE FetchNormal BY <1>7 DEF FetchNormal
<1>8. CASE FetchInternal
  <2>1. From <= To /\ From \in Nat /\ To \in Nat
    BY <1>8, FromInBlocks DEF FetchInternal, Fetching
  <2>2. conn = "open" => \A r \in db : r.block <= From
    BY <1>8 DEF FetchInternal, From, IInv, TypeOK
  <2>3. To' = To BY <1>8 DEF FetchInternal, To
  <2> QED BY <1>8, <2>1, <2>2, <2>3 DEF FetchInternal, IInv, TypeOK, Record, Blocks
<1>9. CASE InsertRow BY <1>9 DEF InsertRow
<1>10. CASE Commit
  <2>1. From <= To /\ From \in Nat /\ To \in Nat
    BY <1>10, FromInBlocks DEF Commit, Fetching
  <2>2. \A r \in db : r.block <= From
    BY <1>10 DEF Commit, From, IInv, TypeOK
  <2>3. To' = To BY <1>10 DEF Commit, To
  <2>4. \A r \in txn : r.block <= To BY DEF IInv, RangeCovered
  <2>5. \A r \in db : r.block \in Nat BY DEF IInv, TypeOK, Record, Blocks
  <2>6. \A r \in db' : r.block <= To'
    BY <1>10, <2>1, <2>2, <2>3, <2>4, <2>5 DEF Commit
  <2> QED BY <1>10, <2>6 DEF Commit
<1>11. CASE RangeDone
  <2>1. /\ i \in Nat /\ endBlock \in Nat /\ mode \in {"batch", "monitor"}
        /\ \A r \in db : r.block \in Nat
    BY DEF IInv, TypeOK, Record, Blocks
  <2>2. conn = "open" => \A r \in db : r.block <= To
    BY <1>11 DEF RangeDone
  <2>3. CASE mode = "batch"
    <3>1. conn = "open" => \A r \in db : r.block <= i + BatchSize /\ r.block <= endBlock
      BY <2>1, <2>2, <2>3, SizesAssumption DEF To
    <3> QED BY <1>11, <2>3, <3>1 DEF RangeDone
  <2>4. CASE mode = "monitor"
    BY <1>11, <2>2, <2>4 DEF RangeDone, To
  <2> QED BY <2>1, <2>3, <2>4
<1>12. CASE Poll BY <1>12 DEF Poll, IInv, LoopState
<1>13. CASE PollFails BY <1>13 DEF PollFails, ProcessEnds
<1>14. CASE GiveUp \/ FetchRaises \/ SaveRaises \/ StatementFails \/ Crash
  <2>1. CASE \E how \in Off : ProcessEnds(how) BY <2>1 DEF ProcessEnds
  <2>2. CASE RangeFails /\ ~ProcessEnds("exited")
    <3>1. pc \in {"normal", "internal", "save"}
      BY <1>14, <2>2 DEF GiveUp, FetchRaises, SaveRaises, StatementFails, Crash, ProcessEnds, RangeFails
    <3> QED BY <2>2, <3>1 DEF RangeFails
  <2> QED BY <1>14, <2>1, <2>2
      DEF GiveUp, FetchRaises, SaveRaises, StatementFails, Crash, Off
<1>15. CASE ConnectionDrops BY <1>15 DEF ConnectionDrops
<1>16. CASE CommitAnswerLost BY <1>16 DEF CommitAnswerLost
<1>17. CASE Grow \/ ApiFails \/ ApiRecovers("limited") \/ ApiRecovers("down") \/ ApiRecovers("mute")
  BY <1>17 DEF Grow, ApiFails, ApiRecovers, svcVars, To
<1>18. CASE UNCHANGED vars BY <1>18 DEF vars, To
<1> QED BY <1>1, <1>2, <1>3, <1>4, <1>5, <1>6, <1>7, <1>8, <1>9, <1>10, <1>11,
           <1>12, <1>13, <1>14, <1>15, <1>16, <1>17, <1>18
        DEF Next, Service, Environment

\* No range over a live connection starts below a stored row.
THEOREM NoReworkSafe == Spec => []NoRework
<1>1. Init => NoRework BY DEF Init, NoRework
<1>2. IInv /\ TypeOK' /\ NoRework /\ [Next]_vars => NoRework'
  BY NoReworkStep
<1> QED BY <1>1, <1>2, InductiveInvariant, TypeCorrect, PTL DEF Spec

\* A commit extends the stored history to the end of the fetched range.
LEMMA CommitExtends ==
  ASSUME IInv, NoRework, pc = "save", conn = "open", got = {},
         db' = db \cup txn, UNCHANGED chainVars
  PROVE  Mirror!Extend
<1>1. /\ From \in Nat /\ To \in Nat /\ From >= Deploy /\ From <= To /\ To <= head
  BY FromInBlocks DEF Fetching
<1>2. To \in Blocks
  BY <1>1, DeployAssumption, MaxBlockAssumption
  DEF Blocks, IInv, TypeOK, ChainTypeOK
<1>3. \A r \in db : r.block <= From BY DEF NoRework, From, IInv, TypeOK
<1>4. \A r \in db \cup txn : /\ r \in Record /\ r.block = mined[r.hash]
                             /\ r.block >= Deploy /\ r.block <= To
  BY <1>1, <1>3 DEF IInv, TypeOK, RowsTrue, RangeCovered, Record, Blocks
<1>5. \A r \in db \cup txn : r.hash \in History(To)
  BY <1>4 DEF History, MinedIn, Record
<1>6. /\ Stored' = Stored \cup HashesOf(txn)
      /\ MinedIn(From, To) \subseteq Stored'
  BY CommittedRows DEF chainVars
<1>7. Stored \subseteq History(To) /\ Stored' \subseteq History(To)
  BY <1>5, <1>6, HashesOfMember DEF Stored
<1>8. History(To) \subseteq Stored'
  <2> SUFFICES ASSUME NEW h \in History(To) PROVE h \in Stored' OBVIOUS
  <2>1. CASE mined[h] >= From
    BY <1>6, <2>1 DEF History, MinedIn
  <2>2. CASE mined[h] < From
    <3>1. h \in History(endBlock)
      BY <2>2 DEF History, MinedIn, From, IInv, LoopState, TypeOK, ChainTypeOK,
                  Blocks, Fetching
    <3> QED BY <1>6, <2>2, <3>1 DEF IInv, FrontierStored, Off
  <2> QED BY <1>1, <2>1, <2>2 DEF History, MinedIn, IInv, TypeOK, ChainTypeOK, Blocks
<1> QED BY <1>1, <1>2, <1>7, <1>8 DEF Mirror!Extend, Mirror!History, Mirror!MinedIn,
        Mirror!Blocks, Mirror!chainVars, History, MinedIn, Blocks, chainVars

LEMMA StepRefines == ASSUME IInv, NoRework, [Next]_vars PROVE [Mirror!Next]_(Mirror!mirrorVars)
<1>1. CASE Commit
  <2>1. Mirror!Extend
    BY <1>1, CommitExtends DEF Commit, envVars, chainVars
  <2> QED BY <2>1 DEF Mirror!Next
<1>2. CASE CommitAnswerLost
  <2>1. Mirror!Extend
    BY <1>2, CommitExtends DEF CommitAnswerLost, chainVars
  <2> QED BY <2>1 DEF Mirror!Next
<1>3. CASE Grow
  <2>1. Mirror!Mine BY <1>3 DEF Grow, Mine, Mirror!Mine
  <2>2. UNCHANGED Stored BY <1>3 DEF Grow, Stored
  <2> QED BY <2>1, <2>2 DEF Mirror!Next
<1>4. CASE ~Commit /\ ~CommitAnswerLost /\ ~Grow
  <2>1. UNCHANGED <<head, mined, db>>
    BY <1>4 DEF Next, Service, Environment, Start, ReadLocal, ReadLatest,
      ReadDeployment, GiveUp, NextBatch, BatchesDone, FetchNormal, FetchInternal,
      FetchRaises, InsertRow, SaveRaises, RangeDone, Poll, PollFails, ApiFails,
      ApiRecovers, ConnectionDrops, StatementFails, Crash, RangeFails,
      ProcessEnds, vars, envVars, chainVars
  <2> QED BY <2>1 DEF Mirror!mirrorVars, Stored
<1> QED BY <1>1, <1>2, <1>3, <1>4

\* The service implements the gap-free mirror: every step extends the stored
\* history, grows the chain, or changes nothing that can be seen.
THEOREM Refinement == Spec => MirrorsChain
<1>1. Init => Mirror!Init
  BY DEF Init, Mirror!Init, ChainInit, Mirror!ChainInit, Stored, HashesOf
<1>2. IInv /\ NoRework /\ [Next]_vars => [Mirror!Next]_(Mirror!mirrorVars)
  BY StepRefines
<1> QED BY <1>1, <1>2, InductiveInvariant, NoReworkSafe, PTL
        DEF Spec, MirrorsChain, Mirror!Spec

=============================================================================
