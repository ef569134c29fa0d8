-------------------------- MODULE TransactionSync --------------------------
(* The transaction service: transaction_service.main() driving a            *)
(* TransactionInfo against Etherscan and PostgreSQL.  The process reads its *)
(* checkpoint from the database, catches up in batches of BatchSize blocks, *)
(* then polls for new blocks.  Every HTTP request and every SQL statement   *)
(* is a step of its own; the process can be killed between any two, the     *)
(* API can fail or limit, the connection can drop, a commit's answer can be *)
(* lost.  Only db survives the process.                                     *)
EXTENDS Chain, FiniteSets

CONSTANTS NormalHashes,    \* transactions listed by txlist
          InternalHashes,  \* transactions listed by txlistinternal
          BatchSize,       \* every_batch_block (5000)
          PageSize,        \* offset (10000): records Etherscan returns at most
          MaxErrors,       \* max_consecutive_errors (5)
          MaxFaults        \* bound: faults the environment injects

ASSUME ListsAssumption == Hashes = NormalHashes \cup InternalHashes
ASSUME SizesAssumption == /\ BatchSize \in Nat \ {0}
                          /\ PageSize \in Nat \ {0}
                          /\ MaxErrors \in Nat \ {0}
                          /\ MaxFaults \in Nat

VARIABLES api,       \* Etherscan: "up", "limited" (rate limit), "down", or "mute":
                     \* it takes requests and answers none
          faults,    \* faults left to the environment
          db,        \* committed rows of the transactions table
          conn,      \* "none", "open", or "broken": truthy, but every use raises
          txn,       \* rows inserted in the open database transaction
          pc,        \* where main() stands
          i,         \* start_block, then the variable of the batch loop
          endBlock,  \* end_block
          latest,    \* etherscan_latest_block, in the monitor loop
          errs,      \* consecutive_errors
          mode,      \* "batch" or "monitor": the loop that fetches
          got        \* records fetched for the range and not yet inserted

envVars  == <<head, mined, api, faults>>
svcVars  == <<conn, txn, pc, i, endBlock, latest, errs, mode, got>>
vars     == <<head, mined, api, faults, db, conn, txn, pc, i, endBlock,
              latest, errs, mode, got>>

Kinds == {"normal", "internal"}
Off   == {"down", "exited"}
Fails == {"limited", "down"}
Steps == {"local", "latest", "deploy", "batch", "normal", "internal",
          "save", "saved", "poll"}

Record == [hash : Hashes, kind : Kinds, block : Blocks]

History(b) == MinedIn(Deploy, b)

HashesOf(rows) == {r.hash : r \in rows}
Stored == HashesOf(db)

\* The records of one list in the fetched range, both ends included.
Listed(kind, lo, hi) ==
  {r \in Record : /\ r.kind = kind
                  /\ r.hash \in IF kind = "normal" THEN NormalHashes ELSE InternalHashes
                  /\ r.block = mined[r.hash]
                  /\ r.block >= lo /\ r.block <= hi}

\* Mutant: ranges that do not overlap.
From_NoOverlap == IF mode = "batch" THEN i + 1 ELSE endBlock + 1

\* startblock and endblock of the running fetch: current_end is
\* min(i + every_batch_block, end_block) in the batch loop.
From == IF mode = "batch" THEN i ELSE endBlock
To   == IF mode = "monitor" THEN latest
        ELSE IF i + BatchSize <= endBlock THEN i + BatchSize ELSE endBlock

\* MAX(block_number), 0 on an empty table.
IsLatestBlock(b) == IF db = {} THEN b = 0
                    ELSE /\ \E r \in db : r.block = b
                         /\ \A r \in db : r.block <= b

TypeOK == /\ ChainTypeOK
          /\ api \in {"up", "limited", "down", "mute"}
          /\ faults \in 0..MaxFaults
          /\ db \subseteq Record /\ txn \subseteq Record /\ got \subseteq Record
          /\ conn \in {"none", "open", "broken"}
          /\ pc \in Off \cup Steps
          /\ i \in Nat
          /\ endBlock \in Blocks /\ latest \in Blocks
          /\ errs \in 0..(MaxErrors - 1)
          /\ mode \in {"batch", "monitor"}

----------------------------------------------------------------------------
Init == /\ ChainInit
        /\ api = "up" /\ faults = MaxFaults
        /\ db = {} /\ conn = "none" /\ txn = {}
        /\ pc = "down"
        /\ i = 0 /\ endBlock = 0 /\ latest = 0 /\ errs = 0
        /\ mode = "batch" /\ got = {}

\* The process ends: memory is gone, PostgreSQL rolls the open transaction back.
ProcessEnds(how) ==
  /\ pc' = how
  /\ conn' = "none" /\ txn' = {} /\ got' = {}
  /\ i' = 0 /\ endBlock' = 0 /\ latest' = 0 /\ errs' = 0 /\ mode' = "batch"
  /\ UNCHANGED <<head, mined, api, db>>

\* The constructor: connect, create the table, ask for the ABI.  An attempt
\* that fails changes nothing, nor does one that waits for the ABI for ever.
Start == /\ pc \in Off /\ api \in {"up", "limited"}
         /\ pc' = "local" /\ conn' = "open"
         /\ UNCHANGED <<envVars, db, txn, i, endBlock, latest, errs, mode, got>>

\* Mutant: the checkpoint in the database is ignored.
ReadLocal_FromZero ==
  /\ pc = "local" /\ conn = "open"
  /\ i' = 0 /\ pc' = "latest"
  /\ UNCHANGED <<envVars, db, conn, txn, endBlock, latest, errs, mode, got>>

ReadLocal == /\ pc = "local" /\ conn = "open"
             /\ \E b \in Blocks : IsLatestBlock(b) /\ i' = b
             /\ pc' = "latest"
             /\ UNCHANGED <<envVars, db, conn, txn, endBlock, latest, errs, mode, got>>

ReadLatest == /\ pc = "latest" /\ api = "up"
              /\ endBlock' = head
              /\ pc' = "deploy"
              /\ UNCHANGED <<envVars, db, conn, txn, i, latest, errs, mode, got>>

\* start_block = max(local_latest_block, deployment_block)
ReadDeployment == /\ pc = "deploy" /\ api = "up"
                  /\ i' = IF i >= Deploy THEN i ELSE Deploy
                  /\ pc' = "batch"
                  /\ UNCHANGED <<envVars, db, conn, txn, endBlock, latest, errs, mode, got>>

\* One of the three answers is None: main() returns.
GiveUp == /\ \/ pc = "local" /\ conn = "broken"
             \/ pc \in {"latest", "deploy"} /\ api \in Fails
          /\ ProcessEnds("exited") /\ UNCHANGED faults

NextBatch == /\ pc = "batch" /\ i < endBlock
             /\ pc' = "normal"
             /\ UNCHANGED <<envVars, db, conn, txn, i, endBlock, latest, errs, mode, got>>

BatchesDone == /\ pc = "batch" /\ i >= endBlock
               /\ pc' = "poll" /\ mode' = "monitor" /\ errs' = 0
               /\ UNCHANGED <<envVars, db, conn, txn, i, endBlock, latest, got>>

----------------------------------------------------------------------------
(* get_transactions_from_etherscan: the two lists, one request each.  While *)
(* the API limits, the same request is repeated (`continue` with the page   *)
(* unchanged), so no fetch step is enabled until the limit lifts.           *)

PageFull(kind) == Cardinality(Listed(kind, From, To)) >= PageSize

FetchNormal == /\ pc = "normal" /\ api = "up" /\ ~PageFull("normal")
               /\ got' = Listed("normal", From, To)
               /\ pc' = "internal"
               /\ UNCHANGED <<envVars, db, conn, txn, i, endBlock, latest, errs, mode>>

\* Mutant: the second list replaces the first.
FetchInternal_Replaces ==
  /\ pc = "internal" /\ api = "up" /\ ~PageFull("internal")
  /\ got' = Listed("internal", From, To)
  /\ pc' = IF got' = {} THEN "saved" ELSE "save"
  /\ UNCHANGED <<envVars, db, conn, txn, i, endBlock, latest, errs, mode>>

\* `if txs`: with nothing fetched, the save is skipped.
FetchInternal == /\ pc = "internal" /\ api = "up" /\ ~PageFull("internal")
                 /\ got' = got \cup Listed("internal", From, To)
                 /\ pc' = IF got' = {} THEN "saved" ELSE "save"
                 /\ UNCHANGED <<envVars, db, conn, txn, i, endBlock, latest, errs, mode>>

\* Mutant: end_block moves up although the range failed.
RangeFails_Advances ==
  \/ mode = "batch" /\ ProcessEnds("exited")
  \/ /\ mode = "monitor" /\ endBlock' = latest
     /\ pc' = "poll" /\ got' = {} /\ txn' = {}
     /\ UNCHANGED <<chainVars, api, db, conn, i, latest, errs, mode>>

\* An exception leaves the range: the batch loop re-raises it and the process
\* exits, the monitor loop logs it and continues without counting it.
RangeFails == \/ mode = "batch" /\ ProcessEnds("exited")
              \/ /\ mode = "monitor"
                 /\ pc' = "poll" /\ got' = {} /\ txn' = {}
                 /\ UNCHANGED <<chainVars, api, db, conn, i, endBlock, latest, errs, mode>>

\* Timeouts (these requests have one, of 30 seconds), HTTP and JSON errors, and
\* a full page, are raised.
FetchRaises == /\ pc \in {"normal", "internal"}
               /\ api \in {"down", "mute"} \/ (api = "up" /\ PageFull(pc))
               /\ RangeFails /\ UNCHANGED faults

----------------------------------------------------------------------------
(* save_transactions_to_db: one INSERT ... ON CONFLICT (hash) DO NOTHING    *)
(* per record, normal ones first, then one commit.                          *)

\* Mutant: autocommit, each row is visible at once.
InsertRow_Autocommit ==
  /\ pc = "save" /\ conn = "open"
  /\ \E r \in got : /\ got' = got \ {r}
                    /\ db' = IF r.hash \in Stored THEN db ELSE db \cup {r}
  /\ UNCHANGED <<envVars, conn, txn, pc, i, endBlock, latest, errs, mode>>

\* Mutant: internal_txs + normal_txs.
InsertRow_InternalFirst ==
  /\ pc = "save" /\ conn = "open"
  /\ \E r \in got :
       /\ r.kind = "normal" => \A g \in got : g.kind = "normal"
       /\ got' = got \ {r}
       /\ txn' = IF r.hash \in Stored \cup HashesOf(txn)
                 THEN txn ELSE txn \cup {r}
  /\ UNCHANGED <<envVars, db, conn, pc, i, endBlock, latest, errs, mode>>

InsertRow == /\ pc = "save" /\ conn = "open"
             /\ \E r \in got :
                  /\ r.kind = "internal" => \A g \in got : g.kind = "internal"
                  /\ got' = got \ {r}
                  /\ txn' = IF r.hash \in Stored \cup HashesOf(txn)
                            THEN txn ELSE txn \cup {r}
             /\ UNCHANGED <<envVars, db, conn, pc, i, endBlock, latest, errs, mode>>

Commit == /\ pc = "save" /\ got = {} /\ conn = "open"
          /\ db' = db \cup txn
          /\ txn' = {} /\ pc' = "saved"
          /\ UNCHANGED <<envVars, conn, i, endBlock, latest, errs, mode, got>>

\* cursor(), execute() or rollback() raises on a connection that has dropped;
\* db_connection is still set, so connect_db() is not called again.
SaveRaises == /\ pc = "save" /\ conn = "broken"
              /\ RangeFails /\ UNCHANGED faults

RangeDone == /\ pc = "saved"
             /\ \/ mode = "batch" /\ pc' = "batch" /\ i' = i + BatchSize
                   /\ UNCHANGED endBlock
                \/ mode = "monitor" /\ pc' = "poll" /\ endBlock' = latest
                   /\ UNCHANGED i
             /\ UNCHANGED <<envVars, db, conn, txn, latest, errs, mode, got>>

----------------------------------------------------------------------------
\* Mutant: blocks are new when the last poll did not see them.
Poll_SinceLastPoll == /\ pc = "poll" /\ api = "up"
                      /\ errs' = 0 /\ latest' = head
                      /\ pc' = IF head > latest THEN "normal" ELSE "poll"
                      /\ UNCHANGED <<envVars, db, conn, txn, i, endBlock, mode, got>>

Poll == /\ pc = "poll" /\ api = "up"
        /\ errs' = 0 /\ latest' = head
        /\ pc' = IF head > endBlock THEN "normal" ELSE "poll"
        /\ UNCHANGED <<envVars, db, conn, txn, i, endBlock, mode, got>>

\* Mutants: one poll too many; the count starts again at every poll.
PollFails_OffByOne ==
  /\ pc = "poll" /\ api \in Fails
  /\ IF errs + 1 > MaxErrors
     THEN ProcessEnds("exited") /\ UNCHANGED faults
     ELSE /\ errs' = errs + 1
          /\ UNCHANGED <<envVars, db, conn, txn, pc, i, endBlock, latest, mode, got>>

PollFails_Recounts ==
  /\ pc = "poll" /\ api \in Fails
  /\ IF 1 >= MaxErrors
     THEN ProcessEnds("exited") /\ UNCHANGED faults
     ELSE /\ errs' = 1
          /\ UNCHANGED <<envVars, db, conn, txn, pc, i, endBlock, latest, mode, got>>

\* get_etherscan_latest_block returns None; a rate-limit answer is None too,
\* its text being no hexadecimal number.
PollFails == /\ pc = "poll" /\ api \in Fails
             /\ IF errs + 1 >= MaxErrors
                THEN ProcessEnds("exited") /\ UNCHANGED faults
                ELSE /\ errs' = errs + 1
                     /\ UNCHANGED <<envVars, db, conn, txn, pc, i, endBlock, latest, mode, got>>

----------------------------------------------------------------------------
(* The environment.                                                         *)

Fault == faults > 0 /\ faults' = faults - 1

Grow == Mine /\ UNCHANGED <<api, faults, db, svcVars>>

ApiFails == /\ api = "up" /\ Fault
            /\ api' \in Fails \cup {"mute"}
            /\ UNCHANGED <<chainVars, db, svcVars>>

ApiRecovers(from) == /\ api = from /\ api' = "up"
                     /\ UNCHANGED <<chainVars, faults, db, svcVars>>

ConnectionDrops == /\ conn = "open" /\ Fault
                   /\ conn' = "broken" /\ txn' = {}
                   /\ UNCHANGED <<chainVars, api, db, pc, i, endBlock, latest, errs, mode, got>>

\* A statement is refused on a healthy connection: rollback() and raise.
StatementFails == /\ pc = "save" /\ conn = "open" /\ Fault
                  /\ RangeFails

\* The server commits, the answer is lost with the connection: the rows are
\* there although the call raises.
CommitAnswerLost == /\ pc = "save" /\ got = {} /\ conn = "open" /\ Fault
                    /\ db' = db \cup txn
                    /\ txn' = {} /\ conn' = "broken"
                    /\ UNCHANGED <<chainVars, api, pc, i, endBlock, latest, errs, mode, got>>

\* SIGKILL, power loss, or Ctrl-C at any point.
Crash == pc \notin Off /\ Fault /\ ProcessEnds("down")

Service == \/ ReadLocal \/ ReadLatest \/ ReadDeployment \/ GiveUp
           \/ NextBatch \/ BatchesDone
           \/ FetchNormal \/ FetchInternal \/ FetchRaises
           \/ InsertRow \/ Commit \/ SaveRaises \/ RangeDone
           \/ Poll \/ PollFails

Environment == \/ Grow \/ ApiFails
               \/ ApiRecovers("limited") \/ ApiRecovers("down") \/ ApiRecovers("mute")
               \/ ConnectionDrops \/ StatementFails \/ CommitAnswerLost
               \/ Crash

Next == Start \/ Service \/ Environment

Spec == Init /\ [][Next]_vars

----------------------------------------------------------------------------
(* Fairness.  main() is one thread: while it is not waiting for an answer   *)
(* some step of it is eventually taken.  The requests for the latest block  *)
(* and for the deployment have no timeout and wait as long as the API is    *)
(* mute: no step is enabled then.  The chain keeps growing; a rate limit is *)
(* a matter of seconds.  Nothing restarts the process, and nothing says     *)
(* that an outage ends or that a mute API comes to answer.                  *)
Running == WF_vars(Service) /\ WF_vars(Grow)

RunningSpec == Spec /\ Running
FairSpec    == RunningSpec /\ WF_vars(ApiRecovers("limited"))

----------------------------------------------------------------------------
(* Properties.                                                              *)

\* The checkpoint main() resumes from (MAX(block_number)) never hides a gap:
\* if a row of block b is committed, so is every transaction of the contract
\* from its deployment to block b, whatever died while it was being saved.
NoGap == \A r \in db : History(r.block) \subseteq Stored

\* What the process believes to be done is done: once main() has its range,
\* everything behind the batch loop's i, or behind the monitor's end_block, is
\* committed, so a failed or repeated range loses nothing.
FrontierStored ==
  pc \notin Off \cup {"local", "latest", "deploy"}
    => \A h \in History(endBlock) : mined[h] < From => h \in Stored

\* Over a live connection nothing that is stored is fetched again but the block
\* two ranges share, not after a restart either: no row lies above the start of
\* the range to come, nor above the range just saved.  (A range that failed
\* has stored nothing, and is fetched again.)
NoRework ==
  conn = "open" =>
    /\ pc = "latest" => \A r \in db : r.block <= i
    /\ pc \in {"deploy", "batch", "normal", "internal", "save"} /\ mode = "batch"
         => \A r \in db : r.block <= i /\ r.block <= endBlock
    /\ pc \in {"poll", "normal", "internal", "save"} /\ mode = "monitor"
         => \A r \in db : r.block <= endBlock
    /\ pc = "saved" => \A r \in db : r.block <= To

\* The two lists share hashes and the table has one row for each: it is always
\* the normal record, never the internal one that repeats its hash, although
\* ranges overlap by a block and are fetched again after a crash.
NormalRecordWins ==
  /\ \A r, s \in db : r.hash = s.hash => r = s
  /\ \A r \in db : r.kind = "internal" => r.hash \notin NormalHashes

(* The inductive invariant behind the three: what the fetched and the       *)
(* inserted rows stand for while a range is on its way to the database.     *)

Fetching == {"normal", "internal", "save", "saved"}

\* Rows and records are true of the chain, and the process is never ahead of it.
RowsTrue ==
  /\ \A h \in Hashes : mined[h] <= head
  /\ \A r \in db \cup txn \cup got :
       /\ r.block = mined[r.hash] /\ r.block >= Deploy
       /\ r.hash \in IF r.kind = "normal" THEN NormalHashes ELSE InternalHashes
  /\ endBlock <= head /\ latest <= head

\* Which values the loop variables have where.
LoopState ==
  /\ pc \in Off => conn = "none"
  /\ pc = "poll" => mode = "monitor"
  /\ pc \in {"local", "latest", "deploy", "batch"} => mode = "batch"
  /\ pc \in {"latest", "deploy"} => i <= head /\ \A h \in MinedIn(Deploy, i) : h \in Stored
  /\ pc = "batch" => i >= Deploy
  /\ pc \in Fetching /\ mode = "batch" => i >= Deploy /\ i < endBlock
  /\ mode = "monitor" => pc \in Fetching \cup {"poll"} /\ endBlock >= Deploy
  /\ pc \in Fetching /\ mode = "monitor" => latest > endBlock
  /\ pc \in {"deploy", "batch"} => endBlock >= Deploy

\* Nothing of the range in hand is lost between fetch and commit, as long as
\* the connection that holds the inserted rows lives.
RangeCovered ==
  /\ pc \notin {"internal", "save"} => got = {}
  /\ pc # "save" => txn = {}
  /\ \A r \in txn \cup got : r.block >= From /\ r.block <= To
  /\ pc = "internal" \/ (pc = "save" /\ conn = "open") =>
       \A h \in NormalHashes \cap MinedIn(From, To) :
         h \in Stored \cup HashesOf(txn) \cup HashesOf({g \in got : g.kind = "normal"})
  /\ pc = "save" /\ conn = "open" =>
       \A h \in MinedIn(From, To) :
         h \in Stored \cup HashesOf(txn) \cup HashesOf(got)
  /\ pc = "saved" => \A h \in MinedIn(From, To) : h \in Stored

\* One row per hash and the normal record first, open transaction included.
RowsUnique ==
  /\ \A r, s \in db \cup txn : r.hash = s.hash => r = s
  /\ \A r \in db \cup txn : r.kind = "internal" => r.hash \notin NormalHashes

IInv == /\ TypeOK /\ RowsTrue /\ LoopState /\ RangeCovered /\ RowsUnique
        /\ NoGap /\ FrontierStored

\* The database is at every moment the contract's history up to some block,
\* and moves from one such state to a later one (ChainMirror).
Mirror == INSTANCE ChainMirror WITH stored <- Stored
MirrorsChain == Mirror!Spec

\* main() waits in a request without a timeout.
Hung == pc \in {"latest", "deploy", "poll"} /\ api = "mute"

\* "自动获取所有交易数据" (src/README.md:9): every transaction that is not in the last
\* block gets stored, unless the process stops, loses its connection, or hangs in
\* a request that is never answered.
AllSynced == \A h \in Hashes :
  mined[h] \in Deploy..(MaxBlock - 1)
    ~> h \in Stored \/ pc \in Off \/ conn = "broken" \/ Hung

\* A range with as many records as a page holds is being fetched.
Overfull == pc \in {"normal", "internal"} /\ PageFull(pc)

\* If no range that is fetched ever fills a page, every transaction that is not
\* in the last block gets stored, with the exceptions above.
Synced == []~Overfull => AllSynced

\* An outage that does not end stops the service, in whatever step it is
\* caught, since the error count is kept from one poll to the next; only if the
\* API takes requests and never answers may it hang in one instead.
OutageStopsService == <>[](api \in {"down", "mute"}) => <>[](pc \in Off \/ Hung)

=============================================================================
