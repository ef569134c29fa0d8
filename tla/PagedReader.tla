---------------------------- MODULE PagedReader ----------------------------
(* Reading the transactions table page by page while the transaction        *)
(* service writes it: get_transactions_paginated and                        *)
(* get_transactions_by_batch over get_transactions_from_db.  Each page is a *)
(* SELECT of its own, ORDER BY block_number DESC, transaction_index DESC    *)
(* LIMIT page_size OFFSET (page-1)*page_size, on what is committed by then. *)
(* The writer is the specification TransactionSync implements (ChainMirror).*)
EXTENDS Chain, FiniteSets

CONSTANTS Index,       \* transaction_index of each hash; NULL, which DESC puts
                       \* first, is a number above the real ones
          PageSize,    \* page_size / batch_size
          MaxPages     \* max_pages, 0 for None

ASSUME PagedReaderAssumption == /\ Index \in [Hashes -> Nat]
                                /\ PageSize \in Nat \ {0}
                                /\ MaxPages \in Nat
ASSUME FiniteTable == IsFiniteSet(Hashes)

VARIABLES stored,    \* hashes committed by the transaction service
          pc,        \* "idle", "asking" (for the creation block), "reading",
                     \* "done", "stopped" (max_pages), "failed"
          lo, hi,    \* start_block, end_block; 0 is falsy: no condition
          page,      \* number of the next page
          seen,      \* rows yielded so far
          total,     \* total_processed
          before     \* history: the rows that matched when the read began

readerVars == <<pc, lo, hi, page, seen, total, before>>
vars       == <<head, mined, stored, pc, lo, hi, page, seen, total, before>>

Writer == INSTANCE ChainMirror

TypeOK == /\ ChainTypeOK
          /\ stored \subseteq Hashes /\ seen \subseteq Hashes /\ before \subseteq Hashes
          /\ pc \in {"idle", "asking", "reading", "done", "stopped", "failed"}
          /\ lo \in Blocks /\ hi \in Blocks
          /\ page \in Nat /\ total \in Nat

\* WHERE block_number >= start AND block_number <= end, a falsy bound left out.
Matching(a, b) == {h \in stored : mined[h] >= a /\ (b = 0 \/ mined[h] <= b)}

\* Mutant: no ORDER BY.
Precedes_Unordered(g, h) == FALSE

Precedes(g, h) == \/ mined[g] > mined[h]
                  \/ mined[g] = mined[h] /\ Index[g] > Index[h]

\* S may be the first rows of the sorted result: PostgreSQL orders ties as it
\* likes, and differently in every query.
Prefix(S, rows) == \A g \in rows \ S, h \in S : ~Precedes(g, h)

AtMost(n, m) == IF n <= m THEN n ELSE m

\* Readers of everything may set max_pages; the harvest of mapping keys does not.
PageLimit == IF lo = 0 THEN MaxPages ELSE 0

\* Mutant: the first page is skipped.
Offset_OffByOne == page * PageSize

Offset == (page - 1) * PageSize

\* P may be what the query for the current page returns.
IsPage(P) ==
  LET rows == Matching(lo, hi)
      skip == AtMost(Offset, Cardinality(rows))
  IN  /\ P \subseteq rows
      /\ Cardinality(P) = AtMost(PageSize, Cardinality(rows) - skip)
      /\ \E S \in SUBSET (rows \ P) : /\ Cardinality(S) = skip
                                      /\ Prefix(S, rows) /\ Prefix(S \cup P, rows)

----------------------------------------------------------------------------
Init == /\ Writer!Init
        /\ pc = "idle" /\ lo = 0 /\ hi = 0 /\ page = 1
        /\ seen = {} /\ total = 0 /\ before = {}

Begin(a, b) == /\ pc' = "reading" /\ lo' = a /\ hi' = b /\ page' = 1
               /\ seen' = {} /\ total' = 0 /\ before' = Matching(a, b)
               /\ UNCHANGED <<head, mined, stored>>

Free == pc \notin {"asking", "reading"}

\* With b for its latest block a harvest goes on to ask for the creation block.
Ask(b) == /\ Free
          /\ pc' = "asking" /\ lo' = Deploy /\ hi' = b /\ page' = 1
          /\ seen' = {} /\ total' = 0 /\ before' = {}
          /\ UNCHANGED <<head, mined, stored>>

\* Mutant: the latest block taken for an exclusive bound.
LookUpLatest_Exclusive == \E h \in stored : /\ \A g \in stored : mined[g] <= mined[h]
                                             /\ Ask(mined[h] + 1)

\* get_latest_block_number, which is 0 while the table is empty.
LookUpLatest == \E b \in Blocks :
                  /\ IF stored = {} THEN b = 0
                     ELSE /\ \E h \in stored : mined[h] = b
                          /\ \A h \in stored : mined[h] <= b
                  /\ Ask(b)

\* The creation block is here; a request that fails leaves the range without a
\* lower bound, which matches the same rows.  The request has no timeout: its
\* answer may never come.
BeginHarvest == pc = "asking" /\ Begin(Deploy, hi)

\* The default arguments: everything.
BeginAll == Free /\ Begin(0, 0)

\* max_pages is tested before the query.
Stop == /\ pc = "reading" /\ PageLimit # 0 /\ page > PageLimit
        /\ pc' = "stopped"
        /\ UNCHANGED <<head, mined, stored, lo, hi, page, seen, total, before>>

\* Mutant: the page number does not move.
ReadPage_SamePage == /\ pc = "reading" /\ (PageLimit = 0 \/ page <= PageLimit)
                     /\ \E P \in SUBSET stored :
                          /\ IsPage(P)
                          /\ IF P = {}
                             THEN pc' = "done" /\ UNCHANGED <<seen, total>>
                             ELSE seen' = seen \cup P /\ UNCHANGED <<pc, total>>
                     /\ UNCHANGED <<head, mined, stored, lo, hi, page, before>>

ReadPage == /\ pc = "reading" /\ (PageLimit = 0 \/ page <= PageLimit)
            /\ \E P \in SUBSET stored :
                 /\ IsPage(P)
                 /\ IF P = {}
                    THEN pc' = "done" /\ UNCHANGED <<page, seen, total>>
                    ELSE /\ seen' = seen \cup P
                         /\ total' = total + Cardinality(P)
                         /\ page' = page + 1
                         /\ UNCHANGED pc
            /\ UNCHANGED <<head, mined, stored, lo, hi, before>>

\* A failed query is logged and raised through the generator.
ReadFails == /\ pc = "reading"
             /\ pc' = "failed"
             /\ UNCHANGED <<head, mined, stored, lo, hi, page, seen, total, before>>

Write == Writer!Next /\ UNCHANGED readerVars

Next == LookUpLatest \/ BeginHarvest \/ BeginAll \/ Stop \/ ReadPage \/ ReadFails \/ Write

Spec == Init /\ [][Next]_vars

----------------------------------------------------------------------------
\* No two of the rows have the same place in the order: true of normal
\* transactions, not of internal ones, which have no index.
Untied(rows) == \A g, h \in rows : g # h => <<mined[g], Index[g]>> # <<mined[h], Index[h]>>

\* A read of a settled range (up to a block that is already stored) yields as many
\* rows as get_total_transaction_count counts, however much is written
\* meanwhile; with no ties they are its rows, once each.
SettledExact == pc = "done" /\ hi # 0 =>
                  /\ total = Cardinality(before)
                  /\ Untied(before) => seen = before

\* A read without an upper bound repeats rows when new ones push them to the
\* next page, but, with no ties, never misses a row that was there when it began.
NothingMissed == pc = "done" /\ Untied(Matching(lo, hi)) => before \subseteq seen

=============================================================================
